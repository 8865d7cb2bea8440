-------------------------------- MODULE Prices -------------------------------
(***************************************************************************)
(* Prices of products: the arithmetic of pricing.calculate, and the cache of   *)
(* exchange rates its live prices come from.  The workers and the API share     *)
(* one cached table of rates and one guard per feed in Redis; the guard lets    *)
(* one of them fetch in an hour.  Time passes in ticks, also between the steps  *)
(* of a calculation, which lasts at most MaxStall.                             *)
(***************************************************************************)
EXTENDS Integers

CONSTANTS
    Worker,
    Feeds,      \* subset of Feed: the providers of this instance
    Hour, TTL,  \* ticks the guard lasts; exchange_cache_ttl
    MaxStall,   \* bound: ticks one calculation may last
    Quotes      \* subset of Quote: the inputs of the arithmetic

Feed == {"open_er_api", "tgju_sana", "bonbast"}

\* Amounts in millionths, rates in tenths, instants as integers; None is no limit.
None == -1
Amount(x) == x \in Nat
Quote(q) ==
    /\ Amount(q.base) /\ q.rate \in Nat /\ q.direct \in BOOLEAN /\ q.adjust \in BOOLEAN
    /\ q.percentage \in Int /\ -100 <= q.percentage /\ q.percentage <= 10000 /\ q.fixed \in Int
    /\ q.discountType \in {"NONE", "PERCENTAGE", "FIXED"} /\ Amount(q.discountValue)
    /\ q.discountType = "PERCENTAGE" => q.discountValue <= 100
    /\ q.start \in Nat \union {None} /\ q.end \in Nat \union {None} /\ q.now \in Nat
    /\ Amount(q.rounding)
    /\ q.minimum \in Nat \union {None} /\ q.maximum \in Nat \union {None}
    /\ q.minimum = None \/ q.maximum = None \/ q.minimum <= q.maximum

ASSUME FeedAssumption == Feeds \subseteq Feed /\ \A q \in Quotes : Quote(q)
\* config.cache_ttl_range: a rate is cached for an hour at least.
ASSUME TimeAssumption == Hour \in Nat \ {0} /\ TTL \in Nat /\ TTL >= Hour /\ MaxStall \in Nat

-----------------------------------------------------------------------------
(* The arithmetic. *)

Cent == 10000
Larger(a, b) == IF a >= b THEN a ELSE b
Smaller(a, b) == IF a <= b THEN a ELSE b
Percent(x, p) == (x \div 100) * p

\* ROUND_HALF_UP to a multiple of the unit, of an amount that is not negative.
HalfUp(x, unit) == ((2 * x + unit) \div (2 * unit)) * unit

Original(q) ==
    LET converted == (q.base \div 10) * q.rate
        adjusted == IF ~q.direct /\ q.adjust
                    THEN Percent(converted, 100 + q.percentage) + q.fixed ELSE converted
    IN Larger(0, adjusted)

Discounted(q) ==
    LET active == (q.start = None \/ q.now >= q.start) /\ (q.end = None \/ q.now < q.end)
        discount == CASE ~active \/ q.discountType = "NONE" -> 0
                      [] active /\ q.discountType = "PERCENTAGE"
                            -> Percent(Original(q), q.discountValue)
                      [] active /\ q.discountType = "FIXED" -> q.discountValue
    IN Larger(0, Original(q) - discount)

AtLeast(q, x) == IF q.minimum = None THEN x ELSE Larger(q.minimum, x)
AtMost(q, x) == IF q.maximum = None THEN x ELSE Smaller(q.maximum, x)
Rounded(q, x) == IF q.rounding = 0 THEN x ELSE HalfUp(x, q.rounding)

\* Mutant: the price is rounded after it was brought into its range.
FinalRoundedLast(q) == HalfUp(Rounded(q, AtMost(q, AtLeast(q, Discounted(q)))), Cent)

Final(q) == HalfUp(AtMost(q, AtLeast(q, Rounded(q, Discounted(q)))), Cent)

-----------------------------------------------------------------------------
(* The cache of rates. *)

VARIABLES
    feed,    \* provider of this behaviour
    up,      \* the provider answers with a table that passes the checks, and Redis works
    manual,  \* the product or the workspace has a rate of its own
    cache,   \* ticks the cached table is still valid, down to -MaxStall; None with no table
    guard,   \* ticks the fetch guard still lasts
    since,   \* history: ticks since the last fetch, up to Hour
    pc,      \* stage of each calculation
    age,     \* ticks since its `now`
    rule,    \* rule.fallback, and whether a manual rate was read
    left,    \* ticks the rate in hand is still valid
    answer   \* source of the last price

vars == <<feed, up, manual, cache, guard, since, pc, age, rule, left, answer>>

NoTable == -MaxStall - 1

Init ==
    /\ feed \in Feeds /\ up \in BOOLEAN /\ manual \in BOOLEAN
    /\ cache = NoTable /\ guard = 0 /\ since = Hour
    /\ pc = [w \in Worker |-> "idle"] /\ age = [w \in Worker |-> 0]
    /\ rule = [w \in Worker |-> [fallback |-> "STOP", manual |-> FALSE]]
    /\ left = [w \in Worker |-> 0] /\ answer = [w \in Worker |-> "none"]

Goto(w, stage) == pc' = [pc EXCEPT ![w] = stage]

\* calculate reads the rule and the manual rate before it asks for a live rate.
Begin(w) ==
    /\ pc[w] = "idle" /\ Goto(w, "look")
    /\ \E fallback \in {"STOP", "MANUAL"} :
          rule' = [rule EXCEPT ![w] = [fallback |-> fallback, manual |-> manual]]
    /\ age' = [age EXCEPT ![w] = 0] /\ answer' = [answer EXCEPT ![w] = "none"]
    /\ left' = [left EXCEPT ![w] = 0]
    /\ UNCHANGED <<feed, up, manual, cache, guard, since>>

Reply(w, source) ==
    /\ answer' = [answer EXCEPT ![w] = source] /\ Goto(w, "idle")
    /\ age' = [age EXCEPT ![w] = 0]

\* Mutant: the manual rate is used whatever the rule says.
UnavailableAnyway(w) ==
    /\ Reply(w, IF rule[w].manual THEN "manual_fallback" ELSE "unavailable")
    /\ UNCHANGED <<feed, up, manual, guard, rule, left>>

\* PricingUnavailable: the seller's manual rate if the rule says so, or no price.
Unavailable(w) ==
    /\ Reply(w, IF rule[w].fallback = "MANUAL" /\ rule[w].manual
                THEN "manual_fallback" ELSE "unavailable")
    /\ UNCHANGED <<feed, up, manual, guard, rule, left>>

\* The table in Redis, judged by the expiry in it at the calculation's own `now`.
Look(w) ==
    /\ pc[w] = "look"
    /\ IF cache # NoTable /\ cache + age[w] > 0
       THEN Goto(w, "priced") /\ left' = [left EXCEPT ![w] = cache]
       ELSE Goto(w, "ask") /\ UNCHANGED left
    /\ UNCHANGED <<feed, up, manual, cache, guard, since, age, rule, answer>>

RedisFails(w) ==
    /\ pc[w] \in {"look", "ask"} /\ ~up /\ Unavailable(w) /\ UNCHANGED <<cache, since>>

\* SET NX EX 3600: one fetch per hour across workers, including provider failures.
Ask(w) ==
    /\ pc[w] = "ask" /\ guard = 0 /\ guard' = Hour /\ Goto(w, "fetch")
    /\ UNCHANGED <<feed, up, manual, cache, since, age, rule, left, answer>>

\* Mutant: the guard is set anew by a request it refuses (SET EX without NX).
RefusedRenews(w) ==
    /\ pc[w] = "ask" /\ guard > 0 /\ guard' = Hour
    /\ Reply(w, "unavailable")
    /\ UNCHANGED <<feed, up, manual, cache, since, rule, left>>

Refused(w) ==
    /\ pc[w] = "ask" /\ guard > 0 /\ Unavailable(w) /\ UNCHANGED <<cache, since>>

\* A table of the Iranian feeds is valid for the whole time; one of open_er_api until
\* its next update if that is sooner.
Validity == IF feed = "open_er_api" THEN 1..TTL ELSE {TTL}

FetchOk(w) ==
    /\ pc[w] = "fetch" /\ up
    /\ \E v \in Validity :
          LET valid == v - age[w] IN  \* the expiry counts from the calculation's `now`
          cache' = valid /\ left' = [left EXCEPT ![w] = valid]
    /\ since' = 0 /\ Goto(w, "priced")
    /\ UNCHANGED <<feed, up, manual, guard, age, rule, answer>>

\* Mutant: a failed fetch frees the guard for another try.
FetchFailsFree(w) ==
    /\ pc[w] = "fetch" /\ ~up
    /\ Reply(w, "unavailable") /\ guard' = 0
    /\ since' = 0 /\ UNCHANGED <<feed, up, manual, cache, rule, left>>

\* A failure, a page that lacks a currency, a table too old: the guard stays.
FetchFails(w) ==
    /\ pc[w] = "fetch" /\ ~up /\ Unavailable(w)
    /\ since' = 0 /\ UNCHANGED cache

Price(w) ==
    /\ pc[w] = "priced" /\ Reply(w, "live")
    /\ UNCHANGED <<feed, up, manual, cache, guard, since, rule, left>>

\* set_rate, update_product.
SetRate ==
    /\ ~manual /\ manual' = TRUE
    /\ UNCHANGED <<feed, up, cache, guard, since, pc, age, rule, left, answer>>

Turn ==
    /\ up' = ~up
    /\ UNCHANGED <<feed, manual, cache, guard, since, pc, age, rule, left, answer>>

Older(n) == Larger(n - 1, -MaxStall)

Tick ==
    /\ \A w \in Worker : pc[w] # "idle" => age[w] < MaxStall
    /\ cache' = IF cache = NoTable THEN NoTable ELSE Older(cache)
    /\ guard' = Larger(guard - 1, 0) /\ since' = Smaller(since + 1, Hour)
    /\ age' = [w \in Worker |-> IF pc[w] = "idle" THEN 0 ELSE age[w] + 1]
    /\ left' = [w \in Worker |-> IF pc[w] = "priced" THEN Older(left[w]) ELSE left[w]]
    /\ UNCHANGED <<feed, up, manual, pc, rule, answer>>

Step(w) ==
    \/ Look(w) \/ RedisFails(w) \/ Ask(w) \/ Refused(w)
    \/ FetchOk(w) \/ FetchFails(w) \/ Price(w)

Next == (\E w \in Worker : Begin(w) \/ Step(w)) \/ SetRate \/ Turn \/ Tick

Spec == Init /\ [][Next]_vars

\* Prices are asked for again and again; calls to Redis and the provider time out.
FairSpec == /\ Spec /\ SF_vars(Tick)
            /\ \A w \in Worker : WF_vars(Begin(w)) /\ WF_vars(Step(w))

-----------------------------------------------------------------------------
(* Properties. *)

\* A live price's rate was valid when its calculation began, so it is stale by less
\* than the calculation lasts; without one the price stops unless the seller chose the
\* fallback and has a rate (docs/integrations.md: "stale rates fail closed unless the
\* seller explicitly selected a manual fallback").
FreshOrStopped ==
    \A w \in Worker :
        /\ answer[w] = "live" => left[w] > -MaxStall
        /\ answer[w] = "manual_fallback" => rule[w].fallback = "MANUAL" /\ rule[w].manual

\* Two fetches are an hour apart, less the stall of one of them, over all workers and
\* failed fetches too ("One request per base per hour across workers, including
\* provider failures").
FetchesSpaced ==
    [][(\E w \in Worker : FetchOk(w) \/ FetchFails(w)) => since >= Hour - MaxStall]_vars

\* Once the provider works again, live prices come back: neither the guard a failure
\* leaves nor a stale table blocks them for ever.
RatesReturn == <>[]up => []<>(\E w \in Worker : answer[w] = "live")

\* The final price is a whole number of cents, not negative, within half a cent of its
\* range (the last rounding follows the range); inside the range it is the multiple of
\* the rounding nearest to the discounted price, ties upwards; at the end of its window
\* the discount is gone.  The arithmetic reads no variable: the quotes are gone through
\* where no calculation has begun, not again in every state.
Unopened == cache = NoTable /\ \A w \in Worker : pc[w] = "idle" /\ answer[w] = "none"
PriceIsRight == Unopened =>
    \A q \in Quotes :
        LET p == Final(q)
            r == Rounded(q, Discounted(q))
            inside == AtMost(q, AtLeast(q, r)) = r
        IN  /\ p >= 0 /\ p % Cent = 0
            /\ q.minimum # None => 2 * (q.minimum - p) <= Cent
            /\ q.maximum # None => 2 * (p - q.maximum) <= Cent
            /\ inside /\ q.rounding # 0 =>
                 /\ 2 * (Discounted(q) - r) < q.rounding
                 /\ 2 * (r - Discounted(q)) <= q.rounding
                 /\ r % q.rounding = 0
            /\ inside => -Cent < 2 * (p - r) /\ 2 * (p - r) <= Cent
            /\ q.now = q.end => Discounted(q) = Original(q)
=============================================================================

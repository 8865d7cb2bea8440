----------------------------- MODULE PricesProofs -----------------------------
(***************************************************************************)
(* Proofs about Prices, for every set of workers, every length of the fetch     *)
(* guard, of the validity of rates and of a stall, and for every quote.  A rate  *)
(* in hand is as old as the calculation that holds it; the guard and the time    *)
(* since the last fetch together span an hour less a stall; and the arithmetic   *)
(* of a price is bounded by what one rounding can do.                          *)
(***************************************************************************)
EXTENDS Prices, TLAPS

(* The cache of rates. *)

PriceTypes ==
    /\ feed \in Feed /\ up \in BOOLEAN /\ manual \in BOOLEAN
    /\ cache \in Int /\ guard \in Nat /\ since \in 0..Hour
    /\ pc \in [Worker -> {"idle", "look", "ask", "fetch", "priced"}]
    /\ age \in [Worker -> 0..MaxStall] /\ left \in [Worker -> Int]
    /\ rule \in [Worker -> [fallback : {"STOP", "MANUAL"}, manual : BOOLEAN]]
    /\ answer \in [Worker -> {"none", "live", "manual_fallback", "unavailable"}]

\* A rate in hand was valid at the `now` of its calculation, which has no answer yet.
RateInHand == \A w \in Worker :
    /\ pc[w] = "priced" => left[w] + age[w] > 0
    /\ pc[w] # "idle" => answer[w] = "none"

\* A fetch holds the guard it took, and is alone unless stalls outlast the guard.
Guarded ==
    /\ \A w \in Worker : pc[w] = "fetch" =>
          guard >= Hour - age[w] /\ since >= Hour - MaxStall
    /\ MaxStall < Hour =>
          \A v, w \in Worker : pc[v] = "fetch" /\ pc[w] = "fetch" => v = w
    /\ guard + since >= Hour - MaxStall

PricesInv == PriceTypes /\ RateInHand /\ Guarded /\ FreshOrStopped

LEMMA OlderIs == ASSUME NEW n \in Int
  PROVE Older(n) \in Int /\ Older(n) >= n - 1 /\ Older(n) >= -MaxStall
  BY TimeAssumption DEF Older, Larger

LEMMA SpanKept ==
  ASSUME NEW g \in Nat, NEW s \in 0..Hour, g + s >= Hour - MaxStall
  PROVE  Larger(g - 1, 0) + Smaller(s + 1, Hour) >= Hour - MaxStall
  BY TimeAssumption DEF Larger, Smaller

LEMMA PricesInit == Init => PricesInv
  BY FeedAssumption, TimeAssumption
  DEF Init, PricesInv, PriceTypes, RateInHand, Guarded, FreshOrStopped, NoTable


\* A worker begins a calculation.
LEMMA BeginPrice == ASSUME PricesInv, NEW w \in Worker, Begin(w) PROVE PricesInv'
  <1> USE TimeAssumption DEF PricesInv
  <1>1. PICK fallback \in {"STOP", "MANUAL"} :
          rule' = [rule EXCEPT ![w] = [fallback |-> fallback, manual |-> manual]]
    BY DEF Begin
  <1>2. PriceTypes' BY <1>1 DEF PriceTypes, Begin, Goto
  <1>3. RateInHand' BY DEF PriceTypes, RateInHand, Begin, Goto
  <1>4. Guarded' BY DEF PriceTypes, Guarded, Begin, Goto
  <1>5. FreshOrStopped' BY <1>1 DEF PriceTypes, FreshOrStopped, Begin, Goto
  <1> QED BY <1>2, <1>3, <1>4, <1>5

\* An answer ends it; a manual price has the rule and the rate for it.
Answered(w, source) ==
    /\ Reply(w, source)
    /\ UNCHANGED <<feed, up, manual, guard, rule, left>>
    /\ source \in {"live", "manual_fallback", "unavailable"}
    /\ source = "live" => left[w] > -MaxStall
    /\ source = "manual_fallback" => rule[w].fallback = "MANUAL" /\ rule[w].manual

LEMMA AnswerKeeps ==
  ASSUME PricesInv, NEW w \in Worker, NEW source, Answered(w, source), cache' = cache
  PROVE  /\ since' = since => PricesInv'
         /\ pc[w] = "fetch" /\ since' = 0 => PricesInv'
  <1> USE TimeAssumption DEF PricesInv
  <1>1. since' \in {since, 0} => PriceTypes' BY DEF PriceTypes, Answered, Reply, Goto
  <1>2. RateInHand' BY DEF PriceTypes, RateInHand, Answered, Reply, Goto
  <1>3. FreshOrStopped' BY DEF PriceTypes, FreshOrStopped, Answered, Reply, Goto
  <1>4. ASSUME since' = since PROVE Guarded'
    BY <1>4 DEF PriceTypes, Guarded, Answered, Reply, Goto
  <1>5. ASSUME pc[w] = "fetch", since' = 0 PROVE Guarded'
    <2>1. /\ guard >= Hour - MaxStall /\ guard' = guard
          /\ pc' = [pc EXCEPT ![w] = "idle"] /\ age' = [age EXCEPT ![w] = 0]
      BY <1>5 DEF PriceTypes, Guarded, Answered, Reply, Goto
    <2>2. ASSUME NEW v \in Worker, pc'[v] = "fetch"
          PROVE  guard' >= Hour - age'[v] /\ since' >= Hour - MaxStall
      <3>1. v # w /\ pc[v] = "fetch" /\ age'[v] = age[v]
        BY <2>1, <2>2 DEF PriceTypes
      <3>2. ~(MaxStall < Hour) BY <1>5, <3>1 DEF Guarded
      <3> QED BY <1>5, <2>1, <3>1, <3>2 DEF Guarded
    <2> QED BY <1>5, <2>1, <2>2 DEF PriceTypes, Guarded
  <1> QED BY <1>1, <1>2, <1>3, <1>4, <1>5

LEMMA EndPrice ==
  ASSUME PricesInv, NEW w \in Worker,
         RedisFails(w) \/ Refused(w) \/ FetchFails(w) \/ Price(w)
  PROVE  PricesInv'
  <1> DEFINE source == IF rule[w].fallback = "MANUAL" /\ rule[w].manual
                       THEN "manual_fallback" ELSE "unavailable"
  <1>1. ASSUME Unavailable(w) PROVE Answered(w, source)
    BY <1>1 DEF Unavailable, Answered
  <1>2. CASE RedisFails(w) \/ Refused(w)
    BY <1>1, <1>2, AnswerKeeps DEF RedisFails, Refused
  <1>3. CASE FetchFails(w) BY <1>1, <1>3, AnswerKeeps DEF FetchFails
  <1>4. CASE Price(w)
    <2>1. left[w] + age[w] > 0 /\ age[w] \in 0..MaxStall /\ left[w] \in Int
      BY <1>4 DEF Price, PricesInv, RateInHand, PriceTypes
    <2>2. Answered(w, "live") BY <1>4, <2>1, TimeAssumption DEF Price, Answered
    <2> QED BY <1>4, <2>2, AnswerKeeps DEF Price
  <1> QED BY <1>2, <1>3, <1>4

LEMMA LookPrice == ASSUME PricesInv, NEW w \in Worker, Look(w) PROVE PricesInv'
  <1> USE TimeAssumption DEF PricesInv, Look, Goto
  <1>1. PriceTypes' BY SMTT(30) DEF PriceTypes
  <1>2. RateInHand' BY DEF PriceTypes, RateInHand
  <1>3. Guarded' BY DEF PriceTypes, Guarded
  <1>4. FreshOrStopped' BY DEF PriceTypes, FreshOrStopped
  <1> QED BY <1>1, <1>2, <1>3, <1>4

\* Whoever still fetches has a guard left, unless a stall may outlast it.
LEMMA AskPrice == ASSUME PricesInv, NEW w \in Worker, Ask(w) PROVE PricesInv'
  <1> USE TimeAssumption DEF PricesInv
  <1>1. PriceTypes' BY DEF PriceTypes, Ask, Goto
  <1>2. RateInHand' BY DEF PriceTypes, RateInHand, Ask, Goto
  <1>3. FreshOrStopped' BY DEF PriceTypes, FreshOrStopped, Ask, Goto
  <1>4. /\ pc' = [pc EXCEPT ![w] = "fetch"] /\ guard = 0 /\ guard' = Hour
        /\ UNCHANGED <<since, age>>
    BY DEF Ask, Goto
  <1>5. since >= Hour - MaxStall BY <1>4 DEF PriceTypes, Guarded
  <1>6. MaxStall < Hour => \A v \in Worker : pc[v] # "fetch"
    BY <1>4 DEF PriceTypes, Guarded
  <1>7. Guarded' BY <1>4, <1>5, <1>6 DEF PriceTypes, Guarded
  <1> QED BY <1>1, <1>2, <1>3, <1>7

LEMMA FetchPrice == ASSUME PricesInv, NEW w \in Worker, FetchOk(w) PROVE PricesInv'
  <1> USE TimeAssumption DEF PricesInv
  <1>1. PICK v \in Validity : cache' = v - age[w] /\ left' = [left EXCEPT ![w] = v - age[w]]
    BY DEF FetchOk
  <1>2. v \in Nat \ {0} BY DEF Validity
  <1>3. /\ pc[w] = "fetch" /\ pc' = [pc EXCEPT ![w] = "priced"] /\ since' = 0
        /\ UNCHANGED <<feed, up, manual, guard, age, rule, answer>>
    BY DEF FetchOk, Goto
  <1>4. PriceTypes' BY <1>1, <1>2, <1>3 DEF PriceTypes
  <1>5. RateInHand' BY <1>1, <1>2, <1>3 DEF PriceTypes, RateInHand
  <1>6. FreshOrStopped' BY <1>1, <1>3 DEF PriceTypes, RateInHand, FreshOrStopped
  <1>7. Guarded'
    <2>1. guard >= Hour - MaxStall BY <1>3 DEF PriceTypes, Guarded
    <2>2. ASSUME NEW u \in Worker, pc'[u] = "fetch"
          PROVE  guard' >= Hour - age'[u] /\ since' >= Hour - MaxStall
      <3>1. u # w /\ pc[u] = "fetch" BY <1>3, <2>2 DEF PriceTypes
      <3>2. ~(MaxStall < Hour) BY <1>3, <3>1 DEF Guarded
      <3> QED BY <1>3, <3>1, <3>2 DEF Guarded
    <2> QED BY <1>3, <2>1, <2>2 DEF PriceTypes, Guarded
  <1> QED BY <1>4, <1>5, <1>6, <1>7

\* Time passes for the calculations, the table and the guard alike.
LEMMA TickPrice == ASSUME PricesInv, Tick PROVE PricesInv'
  <1> USE TimeAssumption DEF PricesInv
  <1>1. /\ cache \in Int /\ guard \in Nat /\ since \in 0..Hour
        /\ age \in [Worker -> 0..MaxStall] /\ left \in [Worker -> Int]
        /\ UNCHANGED <<feed, up, manual, pc, rule, answer>>
    BY DEF PriceTypes, Tick
  <1>2. /\ guard' \in Nat /\ guard' >= guard - 1
        /\ since' \in 0..Hour /\ since' >= since
        /\ since' + guard' >= since + guard \/ since' = Hour
    BY <1>1 DEF Tick, Larger, Smaller
  <1>3. cache' \in Int BY <1>1, OlderIs DEF Tick, NoTable
  <1>4. ASSUME NEW w \in Worker
        PROVE  /\ age'[w] \in 0..MaxStall
               /\ pc[w] # "idle" => age'[w] = age[w] + 1
    BY <1>1 DEF Tick
  <1>5. ASSUME NEW w \in Worker
        PROVE  /\ left'[w] \in Int
               /\ pc[w] = "priced" => left'[w] >= left[w] - 1
               /\ pc[w] # "priced" => left'[w] = left[w]
    BY <1>1, OlderIs DEF Tick
  <1>6. /\ age' = [w \in Worker |-> age'[w]] /\ left' = [w \in Worker |-> left'[w]]
    BY DEF Tick
  <1>7. PriceTypes' BY <1>1, <1>2, <1>3, <1>4, <1>5, <1>6 DEF PriceTypes
  <1>8. RateInHand' BY <1>1, <1>4, <1>5 DEF RateInHand
  <1>9. FreshOrStopped'
    <2>1. \A w \in Worker : answer[w] = "live" => left'[w] = left[w]
      BY <1>1, <1>5 DEF PriceTypes, RateInHand
    <2> QED BY <1>1, <2>1 DEF FreshOrStopped
  <1>10. Guarded'
    <2>1. ASSUME NEW w \in Worker, pc'[w] = "fetch"
          PROVE  guard' >= Hour - age'[w] /\ since' >= Hour - MaxStall
      <3>1. /\ guard >= Hour - age[w] /\ since >= Hour - MaxStall
            /\ age[w] \in 0..MaxStall /\ age'[w] = age[w] + 1
        BY <1>1, <1>4, <2>1 DEF Guarded
      <3> QED BY <1>1, <1>2, <3>1
    <2>2. guard' + since' >= Hour - MaxStall
      <3>1. guard + since >= Hour - MaxStall BY DEF Guarded
      <3> QED BY <1>1, <3>1, SpanKept DEF Tick
    <2>3. MaxStall < Hour =>
            \A v, w \in Worker : pc'[v] = "fetch" /\ pc'[w] = "fetch" => v = w
      BY <1>1 DEF Guarded
    <2> QED BY <2>1, <2>2, <2>3 DEF Guarded
  <1> QED BY <1>7, <1>8, <1>9, <1>10

LEMMA PricesNext == ASSUME PricesInv, [Next]_vars PROVE PricesInv'
  <1>1. CASE SetRate \/ Turn
    BY <1>1 DEF SetRate, Turn, PricesInv, PriceTypes, RateInHand, Guarded, FreshOrStopped
  <1>2. CASE UNCHANGED vars
    BY <1>2 DEF vars, PricesInv, PriceTypes, RateInHand, Guarded, FreshOrStopped
  <1>3. CASE \E w \in Worker : Begin(w) \/ Step(w)
    BY <1>3, BeginPrice, LookPrice, AskPrice, FetchPrice, EndPrice DEF Step
  <1> QED BY <1>1, <1>2, <1>3, TickPrice DEF Next

\* Whatever the workers, the lengths and the failures, the guard and the time since the
\* last fetch span an hour less a stall, and a rate in hand was valid when it was taken.
THEOREM PricesHold == Spec => []PricesInv
  BY PricesInit, PricesNext, PTL DEF Spec

\* A live price is stale by less than its calculation lasts; a manual one was asked for
\* (pricing.calculate, pricing.live_rate; docs/integrations.md).
THEOREM RatesFailClosed == Spec => []FreshOrStopped
  <1>1. PricesInv => FreshOrStopped BY DEF PricesInv
  <1> QED BY <1>1, PricesHold, PTL

\* Over all workers, and after failures too, two fetches are an hour apart, less the
\* stall of one of them (pricing.live_rate's SET NX EX 3600).
THEOREM OneFetchAnHour == Spec => FetchesSpaced
  <1>1. ASSUME PricesInv, NEW w \in Worker, FetchOk(w) \/ FetchFails(w)
        PROVE  since >= Hour - MaxStall
    BY <1>1 DEF FetchOk, FetchFails, PricesInv, Guarded
  <1>2. PricesInv /\ [Next]_vars =>
          [(\E w \in Worker : FetchOk(w) \/ FetchFails(w)) => since >= Hour - MaxStall]_vars
    BY <1>1
  <1> QED BY <1>2, PricesHold, PTL DEF Spec, FetchesSpaced

-----------------------------------------------------------------------------
(* The arithmetic. *)

\* What a rounding does: the nearest multiple, a tie upwards.
LEMMA HalfUpIs ==
  ASSUME NEW x \in Nat, NEW unit \in Nat \ {0}
  PROVE  /\ HalfUp(x, unit) \in Nat /\ HalfUp(x, unit) % unit = 0
         /\ 2 * (x - HalfUp(x, unit)) < unit
         /\ 2 * (HalfUp(x, unit) - x) <= unit
  <1> DEFINE d == (2 * x + unit) \div (2 * unit)
  <1>1. 2 * x + unit \in Nat /\ 2 * unit \in Nat \ {0} OBVIOUS
  <1>2. /\ d \in Nat
        /\ (2 * unit) * d <= 2 * x + unit
        /\ 2 * x + unit < (2 * unit) * d + 2 * unit
    <2> DEFINE a == 2 * x + unit
               b == 2 * unit
    <2>1. a \in Nat /\ b \in Nat \ {0} BY <1>1
    <2> HIDE DEF a, b
    <2>2. a \div b \in Int /\ a \div b >= 0 BY <2>1
    <2>3. b * (a \div b) <= a BY <2>1
    <2>4. a < b * (a \div b) + b BY <2>1
    <2> QED BY <2>2, <2>3, <2>4 DEF a, b
  <1> HIDE DEF d
  <1>3. (2 * unit) * d = 2 * (d * unit) /\ d * unit \in Nat BY <1>2
  <1>4. (d * unit) % unit = 0 BY <1>2
  <1>5. HalfUp(x, unit) = d * unit BY DEF HalfUp, d
  <1> QED BY <1>2, <1>3, <1>4, <1>5

LEMMA PriceInRange ==
  ASSUME NEW q, Quote(q)
  PROVE  /\ Original(q) \in Nat /\ Discounted(q) \in Nat
         /\ q.now = q.end => Discounted(q) = Original(q)
  <1>1. Original(q) \in Nat
    <2> DEFINE converted == (q.base \div 10) * q.rate
    <2>1. converted \in Int
      <3>1. q.base \div 10 \in Int /\ q.rate \in Int BY DEF Quote, Amount
      <3> QED BY <3>1
    <2> HIDE DEF converted
    <2>2. Percent(converted, 100 + q.percentage) + q.fixed \in Int
      <3>1. q.percentage \in Int /\ q.fixed \in Int BY DEF Quote
      <3>2. 100 + q.percentage \in Int BY <3>1
      <3>3. converted \div 100 \in Int BY <2>1
      <3>4. (converted \div 100) * (100 + q.percentage) \in Int BY <3>2, <3>3
      <3> QED BY <3>1, <3>4 DEF Percent
    <2> DEFINE adjusted == IF ~q.direct /\ q.adjust
                           THEN Percent(converted, 100 + q.percentage) + q.fixed ELSE converted
    <2>3. adjusted \in Int BY <2>1, <2>2
    <2>4. Original(q) = Larger(0, adjusted) BY DEF Original, converted
    <2> HIDE DEF adjusted
    <2> QED BY <2>3, <2>4 DEF Larger
  <1> DEFINE active == (q.start = None \/ q.now >= q.start) /\ (q.end = None \/ q.now < q.end)
             discount == CASE ~active \/ q.discountType = "NONE" -> 0
                           [] active /\ q.discountType = "PERCENTAGE"
                                 -> Percent(Original(q), q.discountValue)
                           [] active /\ q.discountType = "FIXED" -> q.discountValue
  <1>2. Discounted(q) = Larger(0, Original(q) - discount) BY DEF Discounted
  <1>3. Percent(Original(q), q.discountValue) \in Int
    <2>1. Original(q) \div 100 \in Int /\ q.discountValue \in Int
      BY <1>1 DEF Quote, Amount
    <2>2. (Original(q) \div 100) * q.discountValue \in Int BY <2>1
    <2> QED BY <2>2 DEF Percent
  <1>4. discount \in Int
    <2>1. q.discountValue \in Int /\ q.discountType \in {"NONE", "PERCENTAGE", "FIXED"}
      BY DEF Quote, Amount
    <2>2. discount \in {0, Percent(Original(q), q.discountValue), q.discountValue}
      <3> DEFINE on == active
      <3> HIDE DEF active
      <3>1. CASE ~active \/ q.discountType = "NONE" BY <3>1
      <3>2. CASE active /\ q.discountType = "PERCENTAGE" BY <3>2
      <3>3. CASE active /\ q.discountType = "FIXED" BY <3>3
      <3> QED BY <2>1, <3>1, <3>2, <3>3
    <2> QED BY <1>3, <2>1, <2>2
  <1>5. ASSUME q.now = q.end PROVE discount = 0
    <2>1. ~active BY <1>5 DEF Quote, None
    <2> QED BY <2>1
  <1> HIDE DEF discount
  <1>6. Discounted(q) \in Nat BY <1>1, <1>2, <1>4 DEF Larger
  <1>7. ASSUME q.now = q.end PROVE Discounted(q) = Original(q)
    BY <1>1, <1>2, <1>5, <1>7 DEF Larger
  <1> QED BY <1>1, <1>6, <1>7

LEMMA RoundedIs ==
  ASSUME NEW q, Quote(q), NEW x \in Nat
  PROVE  /\ Rounded(q, x) \in Nat
         /\ q.rounding # 0 =>
              /\ 2 * (x - Rounded(q, x)) < q.rounding
              /\ 2 * (Rounded(q, x) - x) <= q.rounding
              /\ Rounded(q, x) % q.rounding = 0
  <1>1. q.rounding \in Nat BY DEF Quote, Amount
  <1>2. CASE q.rounding = 0 BY <1>2 DEF Rounded
  <1>3. CASE q.rounding # 0
    <2>1. q.rounding \in Nat \ {0} BY <1>1, <1>3
    <2>2. Rounded(q, x) = HalfUp(x, q.rounding) BY <1>3 DEF Rounded
    <2> QED BY <2>1, <2>2, HalfUpIs
  <1> QED BY <1>2, <1>3

LEMMA LimitedIs ==
  ASSUME NEW q, Quote(q), NEW x \in Nat
  PROVE  /\ AtMost(q, AtLeast(q, x)) \in Nat
         /\ q.minimum # None => q.minimum \in Nat /\ AtMost(q, AtLeast(q, x)) >= q.minimum
         /\ q.maximum # None => q.maximum \in Nat /\ AtMost(q, AtLeast(q, x)) <= q.maximum
  <1>1. /\ q.minimum # None => q.minimum \in Nat
        /\ q.maximum # None => q.maximum \in Nat
        /\ q.minimum = None \/ q.maximum = None \/ q.minimum <= q.maximum
    BY DEF Quote, Amount
  <1>2. AtLeast(q, x) \in Nat /\ (q.minimum # None => AtLeast(q, x) >= q.minimum)
    BY <1>1 DEF AtLeast, Larger
  <1>3. q.maximum = None => AtMost(q, AtLeast(q, x)) = AtLeast(q, x) BY DEF AtMost
  <1>4. q.maximum # None =>
          AtMost(q, AtLeast(q, x)) = Smaller(q.maximum, AtLeast(q, x))
    BY DEF AtMost
  <1> QED BY <1>1, <1>2, <1>3, <1>4 DEF Smaller

\* The final price of every quote is in cents, in its range but for half a cent, nearest
\* to the discounted price, and without the discount at the end of its window
\* (pricing.calculate).
THEOREM QuotesAreRight == Spec => []PriceIsRight
  <1>1. ASSUME NEW q \in Quotes
        PROVE  LET p == Final(q)
                   r == Rounded(q, Discounted(q))
                   inside == AtMost(q, AtLeast(q, r)) = r
               IN  /\ p >= 0 /\ p % Cent = 0
                   /\ q.minimum # None => 2 * (q.minimum - p) <= Cent
                   /\ q.maximum # None => 2 * (p - q.maximum) <= Cent
                   /\ inside /\ q.rounding # 0 =>
                        /\ 2 * (Discounted(q) - r) < q.rounding
                        /\ 2 * (r - Discounted(q)) <= q.rounding
                        /\ r % q.rounding = 0
                   /\ inside => -Cent < 2 * (p - r) /\ 2 * (p - r) <= Cent
                   /\ q.now = q.end => Discounted(q) = Original(q)
    <2> DEFINE r == Rounded(q, Discounted(q))
               m == AtMost(q, AtLeast(q, r))
               p == HalfUp(m, Cent)
    <2>1. Quote(q) BY FeedAssumption
    <2>2. Discounted(q) \in Nat /\ (q.now = q.end => Discounted(q) = Original(q))
      BY <2>1, PriceInRange
    <2>3. /\ r \in Nat
          /\ q.rounding # 0 => /\ 2 * (Discounted(q) - r) < q.rounding
                                /\ 2 * (r - Discounted(q)) <= q.rounding
                                /\ r % q.rounding = 0
      BY <2>1, <2>2, RoundedIs
    <2>4. p = Final(q) BY DEF Final
    <2> HIDE DEF r
    <2>5. /\ m \in Nat
          /\ q.minimum # None => q.minimum \in Nat /\ m >= q.minimum
          /\ q.maximum # None => q.maximum \in Nat /\ m <= q.maximum
      BY <2>1, <2>3, LimitedIs
    <2>6. Cent \in Nat \ {0} BY DEF Cent
    <2> HIDE DEF m
    <2>7. p \in Nat /\ p % Cent = 0 /\ 2 * (m - p) < Cent /\ 2 * (p - m) <= Cent
      BY <2>5, <2>6, HalfUpIs
    <2> HIDE DEF p
    <2>8. /\ q.minimum # None => 2 * (q.minimum - p) <= Cent
          /\ q.maximum # None => 2 * (p - q.maximum) <= Cent
      BY <2>5, <2>6, <2>7
    <2>9. m = r => -Cent < 2 * (p - r) /\ 2 * (p - r) <= Cent
      BY <2>3, <2>6, <2>7
    <2> QED BY <2>2, <2>3, <2>4, <2>7, <2>8, <2>9 DEF m, r
  <1>2. PriceIsRight BY <1>1 DEF PriceIsRight
  <1> QED BY <1>2, PTL
=============================================================================

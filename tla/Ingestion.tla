------------------------------ MODULE Ingestion -----------------------------
(***************************************************************************)
(* From a webhook to an execution: an event is queued once under its key,    *)
(* a worker ingests it under the account's row lock, the first matching rule *)
(* wins, and the cooldown of the customer and the rule or product decides    *)
(* whether the rule runs.  Comments and messages differ in the rules that can *)
(* match them, and only a message moves the window of its conversation.  One  *)
(* account.                                                                 *)
(***************************************************************************)
EXTENDS Naturals, Sequences

CONSTANTS
    Worker, Event, Rule, Customer, Product,
    NoWorker, NoEvent, NoRule, NoProduct,
    Comment,       \* the events that are comments; the others are messages
    Flow,          \* the rules with a flow; the others reply with a fixed text
    From,          \* the customer of an event
    OccurredAt,    \* when the customer wrote it
    Matches,       \* the rules whose trigger, keywords and flow fit an event
    Priority,      \* the rules by priority, creation and id, a sequence
    ProductOf,     \* the product of a flow rule, NoProduct for others
    Cooldown,      \* seconds; at least 2 for a keyword reply
    MaxFaults,     \* bound: exceptions and deaths of workers in a behaviour
    MaxEdits,      \* bound: the workspace's edits in a behaviour
    MaxClock,      \* bound: the clock stops there
    LeaseOutlivesWork  \* TRUE: a job is five minutes old only if its worker is dead

ASSUME EventAssumption ==
    /\ From \in [Event -> Customer] /\ OccurredAt \in [Event -> Nat \ {0}]
    /\ Matches \in [Event -> SUBSET Rule] /\ NoEvent \notin Event
    /\ Comment \subseteq Event /\ \A e \in Comment : Matches[e] \subseteq Flow
ASSUME RuleAssumption ==
    /\ Flow \subseteq Rule /\ \A r \in Rule \ Flow : ProductOf[r] = NoProduct
    /\ Priority \in Seq(Rule) /\ \A r \in Rule : \E i \in DOMAIN Priority : Priority[i] = r
    /\ ProductOf \in [Rule -> Product \cup {NoProduct}] /\ Cooldown \in [Rule -> Nat]
    /\ NoRule \notin Rule /\ NoProduct \notin Product /\ NoWorker \notin Worker
ASSUME BoundAssumption == MaxFaults \in Nat /\ MaxClock \in Nat
                          /\ MaxEdits \in Nat
                          /\ LeaseOutlivesWork \in BOOLEAN

VARIABLES
    job,        \* Job.status of an event, "none" before its webhook
    received,   \* incoming Message rows, by event
    lastInbound,\* Conversation.last_inbound_at, 0 before the first message
    runs,       \* Execution rows
    enabled,    \* rules that are enabled and ACTIVE
    stocked,    \* products that are ACTIVE and not out of stock
    open,       \* account and owner are active
    lock,       \* owner of the account row lock
    pc, held,   \* worker: stage and event in hand
    plan,       \* what a worker has decided and not committed
    edits, clock, faults

rows   == <<job, received, lastInbound, runs>>
shop   == <<enabled, stocked, open, edits>>
worker == <<pc, held, plan>>
vars   == <<rows, shop, lock, worker, clock, faults>>

\* Execution.status, as the cooldown sees it: "queued" is every status that blocks,
\* "released" failed or cancelled while a worker has its flow, "closed" the same when
\* no worker has.  "over" is history: the runs that no longer counted when this one
\* was decided.
RunStatus == {"queued", "cooldown", "skipped", "released", "closed"}
Run  == [event : Event, rule : Rule, status : RunStatus, at : 0..MaxClock, over : SUBSET Event]
Plan == [rule : Rule \cup {NoRule}, status : {"queued", "cooldown", "skipped"},
         over : SUBSET Event]
NoPlan == [rule |-> NoRule, status |-> "skipped", over |-> {}]

Init ==
    /\ job = [e \in Event |-> "none"]
    /\ received = {}
    /\ lastInbound = [c \in Customer |-> 0]
    /\ runs = {}
    /\ enabled = Rule /\ stocked = Product /\ open = TRUE
    /\ lock = NoWorker
    /\ pc = [w \in Worker |-> "idle"]
    /\ held = [w \in Worker |-> NoEvent]
    /\ plan = [w \in Worker |-> NoPlan]
    /\ edits = 0 /\ clock = 0 /\ faults = 0

-----------------------------------------------------------------------------
\* The provider delivers an event, again as often as it likes: a job under a key
\* that exists is not inserted.
Webhook(e) ==
    /\ job[e] = "none" /\ open
    /\ job' = [job EXCEPT ![e] = "pending"]
    /\ UNCHANGED <<received, lastInbound, runs, shop, lock, worker, clock, faults>>

Claim(w, e) ==
    /\ pc[w] = "idle" /\ job[e] = "pending"
    /\ job' = [job EXCEPT ![e] = "running"]
    /\ pc' = [pc EXCEPT ![w] = "locking"]
    /\ held' = [held EXCEPT ![w] = e]
    /\ UNCHANGED <<received, lastInbound, runs, shop, lock, plan, clock, faults>>

\* The rule loops of ingest and ingest_comment: the first enabled rule that matches.
Winner(e) ==
    LET hits == {i \in DOMAIN Priority : Priority[i] \in enabled \cap Matches[e]}
    IN IF hits = {} THEN NoRule
       ELSE Priority[CHOOSE i \in hits : \A k \in hits : i <= k]

\* Executions the cooldown of r counts for this customer: of the same product, if
\* the rule has one, otherwise of the same rule.
SameTarget(r, x) == IF ProductOf[r] # NoProduct
                    THEN ProductOf[x.rule] = ProductOf[r] ELSE x.rule = r
Recent(e, r) ==
    \E x \in runs :
        /\ x.status = "queued" /\ From[x.event] = From[e] /\ SameTarget(r, x)
        /\ x.at + Cooldown[r] > clock

\* What such a run answers to once it has failed or been cancelled.
Over(e, r) ==
    {x.event : x \in {y \in runs : /\ y.status \in {"released", "closed"}
                                   /\ From[y.event] = From[e] /\ SameTarget(r, y)}}

Verdict(e, r) ==
    IF ProductOf[r] # NoProduct /\ ProductOf[r] \notin stocked THEN "skipped"
    ELSE IF Recent(e, r) THEN "cooldown" ELSE "queued"

Choice(e) ==
    IF Winner(e) = NoRule THEN NoPlan
    ELSE [rule |-> Winner(e), status |-> Verdict(e, Winner(e)),
          over |-> IF Verdict(e, Winner(e)) = "queued" THEN Over(e, Winner(e)) ELSE {}]

\* Mutants: the account row is not locked; the event's key is not looked up.
DecideUnlocked(w) ==
    LET e == held[w] IN
    /\ pc[w] = "locking"
    /\ plan' = [plan EXCEPT ![w] = Choice(e)]
    /\ pc' = [pc EXCEPT ![w] = "decided"]
    /\ UNCHANGED <<rows, shop, lock, held, clock, faults>>
DecideAgain(w) ==
    LET e == held[w] IN
    /\ pc[w] = "locking" /\ lock = NoWorker
    /\ lock' = w
    /\ plan' = [plan EXCEPT ![w] = Choice(e)]
    /\ pc' = [pc EXCEPT ![w] = "decided"]
    /\ UNCHANGED <<rows, shop, held, clock, faults>>
\* Under the lock: an inactive account, owner or a known event end the job.
Decide(w) ==
    LET e == held[w] IN
    /\ pc[w] = "locking" /\ lock = NoWorker
    /\ lock' = w
    /\ IF open /\ e \notin received
       THEN /\ plan' = [plan EXCEPT ![w] = Choice(e)]
            /\ pc' = [pc EXCEPT ![w] = "decided"]
       ELSE /\ pc' = [pc EXCEPT ![w] = "done"]
            /\ UNCHANGED plan
    /\ UNCHANGED <<rows, shop, held, clock, faults>>

Drop(w) ==
    /\ pc' = [pc EXCEPT ![w] = "idle"]
    /\ held' = [held EXCEPT ![w] = NoEvent]
    /\ plan' = [plan EXCEPT ![w] = NoPlan]
    /\ lock' = IF lock = w THEN NoWorker ELSE lock

Insert(w) ==
    runs' = IF plan[w].rule = NoRule THEN runs
            ELSE runs \cup {[event |-> held[w], rule |-> plan[w].rule,
                             status |-> plan[w].status, at |-> clock, over |-> plan[w].over]}
\* Mutant: the latest message ingested sets the window.
CommitLatest(w) ==
    LET e == held[w] IN
    /\ pc[w] = "decided"
    /\ received' = received \cup {e}
    /\ lastInbound' = IF e \in Comment THEN lastInbound
                      ELSE [lastInbound EXCEPT ![From[e]] = OccurredAt[e]]
    /\ Insert(w)
    /\ job' = [job EXCEPT ![e] = "complete"]
    /\ Drop(w)
    /\ UNCHANGED <<shop, clock, faults>>
\* The message, the conversation, the execution (and its job) and the completed
\* job are one commit; the execution's created_at is the time of its insert.  A
\* comment leaves the conversation's window alone.
Commit(w) ==
    LET e == held[w] IN
    /\ pc[w] = "decided"
    /\ received' = received \cup {e}
    /\ lastInbound' =
          IF e \in Comment THEN lastInbound
          ELSE [lastInbound EXCEPT ![From[e]] = IF @ < OccurredAt[e] THEN OccurredAt[e] ELSE @]
    /\ Insert(w)
    /\ job' = [job EXCEPT ![e] = "complete"]
    /\ Drop(w)
    /\ UNCHANGED <<shop, clock, faults>>

Discard(w) ==
    /\ pc[w] = "done"
    /\ job' = [job EXCEPT ![held[w]] = "complete"]
    /\ Drop(w)
    /\ UNCHANGED <<received, lastInbound, runs, shop, clock, faults>>

-----------------------------------------------------------------------------
Fault == faults < MaxFaults /\ faults' = faults + 1
\* An exception: the job is retried, or failed by the fifth.  The attempts are not
\* counted: any exception may be the last.
Raise(w) ==
    /\ pc[w] # "idle" /\ Fault
    /\ \E next \in {"pending", "failed"} : job' = [job EXCEPT ![held[w]] = next]
    /\ Drop(w)
    /\ UNCHANGED <<received, lastInbound, runs, shop, clock>>

Crash(w) ==
    /\ pc[w] # "idle" /\ Fault
    /\ Drop(w)
    /\ UNCHANGED <<rows, shop, clock>>

Recover(w, e) ==
    /\ pc[w] = "idle" /\ job[e] = "running"
    /\ LeaseOutlivesWork => \A v \in Worker : held[v] # e
    /\ job' = [job EXCEPT ![e] = "pending"]
    /\ UNCHANGED <<received, lastInbound, runs, shop, lock, worker, clock, faults>>

\* A run fails or is cancelled: the cooldown forgets it.  A reply is then over; the
\* worker of a flow has its job until the last commit of run_one.
SetStatus(x, status) ==
    /\ runs' = (runs \ {x}) \cup {[x EXCEPT !.status = status]}
    /\ UNCHANGED <<job, received, lastInbound, shop, lock, worker, clock, faults>>
Release(x) ==
    /\ x.status = "queued"
    /\ SetStatus(x, IF x.rule \in Flow THEN "released" ELSE "closed")
\* That commit raises: the run is unknown, whatever it was, and counts again.  (So
\* does a slow worker's, that ends a flow another worker has cancelled.)
Revive(x) == x.status = "released" /\ SetStatus(x, "queued")
\* That commit succeeds.
Close(x) == x.status = "released" /\ SetStatus(x, "closed")

\* The workspace edits its rules, products and account, with no lock.
Flip(x, set) == IF x \in set THEN set \ {x} ELSE set \cup {x}
Edit ==
    /\ edits < MaxEdits /\ edits' = edits + 1
    /\ UNCHANGED <<rows, lock, worker, clock, faults>>
EditRule(r) == Edit /\ enabled' = Flip(r, enabled) /\ UNCHANGED <<stocked, open>>
EditProduct(p) == Edit /\ stocked' = Flip(p, stocked) /\ UNCHANGED <<enabled, open>>
EditAccount == Edit /\ open' = ~open /\ UNCHANGED <<enabled, stocked>>

Tick ==
    /\ clock < MaxClock /\ clock' = clock + 1
    /\ UNCHANGED <<rows, shop, lock, worker, faults>>

-----------------------------------------------------------------------------
Handle(w) == Decide(w) \/ Commit(w) \/ Discard(w)
Poll(w) == \E e \in Event : Claim(w, e) \/ Recover(w, e)

Next ==
    \/ \E e \in Event : Webhook(e)
    \/ \E w \in Worker : Handle(w) \/ Raise(w) \/ Poll(w) \/ Crash(w)
    \/ \E x \in runs : Release(x) \/ Revive(x) \/ Close(x)
    \/ \E r \in Rule : EditRule(r)
    \/ \E p \in Product : EditProduct(p)
    \/ EditAccount \/ Tick

Spec == Init /\ [][Next]_vars

-----------------------------------------------------------------------------
\* However often an event is delivered, retried and recovered, one rule answers it
\* once: "The first matching rule wins; a cooldown never falls through".
OneRunPerEvent ==
    \A x, y \in runs : x.event = y.event => x = y

Accepted == {"queued", "released", "closed"}
Rivals(x, y) ==
    /\ x # y /\ x.status \in Accepted /\ y.status \in Accepted
    /\ From[x.event] = From[y.event] /\ SameTarget(y.rule, x)
\* y comes after the cooldown of x, or was decided when x had failed or been cancelled.
Apart(x, y) ==
    \/ x.at + Cooldown[y.rule] <= y.at \/ x.event \in y.over
    \/ x.at = y.at /\ (Cooldown[x.rule] = 0 \/ y.event \in x.over)
\* A run that was let through keeps the others of its customer and product (or rule
\* without a product) out for their cooldown, although workers decide and insert at
\* different times, unless it had failed or been cancelled when the other was
\* decided.  Such a run may count again later, beside the newer one.
CooldownHolds == \A x, y \in runs : Rivals(x, y) /\ x.at <= y.at => Apart(x, y)

\* The 24-hour window is measured from the latest message of the customer, in
\* whatever order the events were delivered and ingested; comments do not open it.
WindowFromLatest ==
    \A c \in Customer :
        LET mine == {e \in received \ Comment : From[e] = c} IN
        /\ \A e \in mine : lastInbound[c] >= OccurredAt[e]
        /\ IF mine = {} THEN lastInbound[c] = 0
           ELSE \E e \in mine : lastInbound[c] = OccurredAt[e]

=============================================================================

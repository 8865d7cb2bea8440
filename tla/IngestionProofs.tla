--------------------------- MODULE IngestionProofs ---------------------------
(***************************************************************************)
(* From webhook to execution, for every set of workers, events and rules, any  *)
(* number of deaths and with or without a lease: an event starts one run, a run  *)
(* accepted in a cooldown passed over a failed one, and the window is that of  *)
(* the latest message.                                                       *)
(***************************************************************************)
EXTENDS Ingestion, WellFoundedInduction, TLAPS

Types ==
    /\ lastInbound \in [Customer -> Nat]
    /\ received \subseteq Event /\ runs \subseteq Run /\ enabled \subseteq Rule
    /\ pc \in [Worker -> {"idle", "locking", "decided", "done"}]
    /\ held \in [Worker -> Event \cup {NoEvent}]
    /\ plan \in [Worker -> Plan]
    /\ clock \in 0..MaxClock
    /\ \A w \in Worker : pc[w] # "idle" => held[w] \in Event

\* What a worker that is about to queue a run for e has seen: every run like it is past
\* the cooldown or had failed.
Clear(e, r, over) ==
    \A x \in runs :
        x.status \in Accepted /\ From[x.event] = From[e] /\ SameTarget(r, x) =>
            x.at + Cooldown[r] <= clock \/ x.event \in over

\* A worker past its decision has the account's lock; what it has decided still holds.
DeciderInv(w) ==
    /\ pc[w] \in {"decided", "done"} => lock = w
    /\ pc[w] = "decided" =>
         /\ held[w] \notin received
         /\ plan[w].rule # NoRule /\ plan[w].status = "queued" =>
              Clear(held[w], plan[w].rule, plan[w].over)

RunsInv ==
    /\ \A x \in runs : x.event \in received /\ x.at <= clock
    /\ OneRunPerEvent
    /\ CooldownHolds

\* The inductive invariant.
IngestInv == Types /\ (\A w \in Worker : DeciderInv(w)) /\ RunsInv /\ WindowFromLatest

-----------------------------------------------------------------------------
(* The first rule. *)

LEMMA Least ==
    ASSUME NEW S \in SUBSET Nat, S # {} PROVE \E n \in S : \A m \in S : n <= m
  <1> DEFINE R == OpToRel(<, Nat)
  <1>1. IsWellFoundedOn(R, Nat)
    BY NatLessThanWellFounded
  <1>2. \A i, j \in Nat : i < j => <<i, j>> \in R
    BY DEF OpToRel
  <1> HIDE DEF R
  <1>3. PICK n \in S : \A m \in S : ~ (<<m, n>> \in R)
    BY <1>1, WFMin
  <1>4. \A m \in S : ~ (m < n)
    BY <1>2, <1>3
  <1>5. \A m \in S : n <= m
    BY <1>4
  <1> QED
    BY <1>5

\* A rule wins that is enabled and matches, if there is one.
LEMMA WinnerIsRule ==
    ASSUME NEW e \in Event PROVE Winner(e) \in Rule \cup {NoRule}
  <1> DEFINE hits == {i \in DOMAIN Priority : Priority[i] \in enabled \cap Matches[e]}
  <1>1. Priority \in Seq(Rule)
    BY RuleAssumption
  <1>2. DOMAIN Priority \subseteq Nat /\ \A i \in DOMAIN Priority : Priority[i] \in Rule
    BY <1>1
  <1>3. CASE hits = {}
    BY <1>3 DEF Winner
  <1>4. CASE hits # {}
    <2>1. hits \in SUBSET Nat
      BY <1>2
    <2> HIDE DEF hits
    <2>2. \E i \in hits : \A k \in hits : i <= k
      BY <1>4, <2>1, Least
    <2>3. (CHOOSE i \in hits : \A k \in hits : i <= k) \in hits
      BY <2>2
    <2>4. \A i \in hits : Priority[i] \in Rule
      BY <1>2 DEF hits
    <2> QED
      BY <1>4, <2>3, <2>4 DEF Winner, hits
  <1> QED
    BY <1>3, <1>4

-----------------------------------------------------------------------------
(* Pieces of the steps. *)

LEMMA DropTypes ==
    ASSUME Types, NEW w \in Worker, Drop(w)
    PROVE  /\ pc' \in [Worker -> {"idle", "locking", "decided", "done"}]
           /\ held' \in [Worker -> Event \cup {NoEvent}]
           /\ plan' \in [Worker -> Plan]
           /\ \A v \in Worker : pc'[v] # "idle" => held'[v] \in Event
           /\ pc'[w] = "idle"
           /\ \A v \in Worker \ {w} : pc'[v] = pc[v] /\ held'[v] = held[v] /\ plan'[v] = plan[v]
  BY DEF Drop, Types, Plan, NoPlan, RunStatus

\* The other workers keep their decisions if runs get no new accepted one, the clock does
\* not go back and the lock stays theirs.
LEMMA DecisionsStand ==
    ASSUME IngestInv, NEW v \in Worker, DeciderInv(v), clock' \in Nat, clock' >= clock,
           pc'[v] = pc[v], held'[v] = held[v], plan'[v] = plan[v],
           received' = received, lock = v => lock' = v,
           \A x \in runs' : x.status \in Accepted =>
               \E y \in runs : /\ y.status \in Accepted
                              /\ y.event = x.event /\ y.rule = x.rule /\ y.at = x.at
    PROVE  DeciderInv(v)'
  <1>1. Types
    BY DEF IngestInv
  <1>2. ASSUME pc[v] = "decided", plan[v].rule # NoRule, plan[v].status = "queued"
        PROVE  Clear(held[v], plan[v].rule, plan[v].over)'
    <2>1. plan[v].rule \in Rule
      BY <1>1, <1>2 DEF Types, Plan
    <2>2. Cooldown[plan[v].rule] \in Nat
      BY <2>1, RuleAssumption
    <2> SUFFICES ASSUME NEW x \in runs', x.status \in Accepted, From[x.event] = From[held[v]],
                        SameTarget(plan[v].rule, x)
                 PROVE  x.at + Cooldown[plan[v].rule] <= clock' \/ x.event \in plan[v].over
      BY DEF Clear, SameTarget, Accepted
    <2>3. PICK y \in runs : /\ y.status \in Accepted
                            /\ y.event = x.event /\ y.rule = x.rule /\ y.at = x.at
      OBVIOUS
    <2>4. y.at \in Nat /\ clock \in Nat /\ SameTarget(plan[v].rule, y)
      BY <1>1, <2>3 DEF Types, Run, SameTarget
    <2>5. y.at + Cooldown[plan[v].rule] <= clock \/ y.event \in plan[v].over
      BY <1>2, <2>3, <2>4 DEF DeciderInv, Clear
    <2> QED
      BY <2>2, <2>3, <2>4, <2>5
  <1> QED
    BY <1>2 DEF DeciderInv

\* Steps that leave the rows alone.
LEMMA RowsStand ==
    ASSUME IngestInv, UNCHANGED <<received, runs, lastInbound>>, clock' \in Nat, clock' >= clock
    PROVE  RunsInv' /\ WindowFromLatest'
  <1>1. \A x \in runs : x.at \in Nat
    BY DEF IngestInv, Types, Run
  <1>2. clock \in Nat
    BY DEF IngestInv, Types
  <1> QED
    BY <1>1, <1>2 DEF IngestInv, RunsInv, OneRunPerEvent, CooldownHolds, Rivals, Accepted,
       SameTarget, WindowFromLatest

\* A worker gives up its event.
LEMMA DropKeeps ==
    ASSUME IngestInv, NEW w \in Worker, Drop(w),
           UNCHANGED <<received, runs, lastInbound, enabled, clock>>
    PROVE  IngestInv'
  <1>1. Types /\ clock \in Nat /\ clock >= clock
    BY DEF IngestInv, Types
  <1>2. Types'
    BY <1>1, DropTypes DEF Types
  <1>3. ASSUME NEW v \in Worker PROVE DeciderInv(v)'
    <2>1. CASE v = w
      BY <1>1, <2>1, DropTypes DEF DeciderInv
    <2>2. CASE v # w
      <3>1. lock = v => lock' = v
        BY <2>2 DEF Drop
      <3> QED
        BY <1>1, <2>2, <3>1, DropTypes, DecisionsStand DEF IngestInv
    <2> QED
      BY <2>1, <2>2
  <1> QED
    BY <1>1, <1>2, <1>3, RowsStand DEF IngestInv

\* A run is queued if those like it are past the cooldown, failed or cancelled.
LEMMA ChoiceIsClear ==
    ASSUME Types, NEW e \in Event, Choice(e).rule # NoRule, Choice(e).status = "queued"
    PROVE  Clear(e, Choice(e).rule, Choice(e).over)
  <1>1. PICK r : r = Winner(e)
    OBVIOUS
  <1>2. r \in Rule /\ Choice(e).rule = r /\ Verdict(e, r) = "queued" /\ Choice(e).over = Over(e, r)
    BY <1>1, WinnerIsRule DEF Choice, NoPlan
  <1>3. ~Recent(e, r) /\ Cooldown[r] \in Nat
    BY <1>2, RuleAssumption DEF Verdict
  <1> SUFFICES ASSUME NEW x \in runs, x.status \in Accepted, From[x.event] = From[e],
                      SameTarget(r, x)
               PROVE  x.at + Cooldown[r] <= clock \/ x.event \in Over(e, r)
    BY <1>2 DEF Clear
  <1>4. CASE x.status = "queued"
    <2>1. ~ (x.at + Cooldown[r] > clock)
      BY <1>3, <1>4 DEF Recent
    <2>2. x.at \in Nat /\ clock \in Nat
      BY DEF Types, Run
    <2> QED
      BY <1>3, <2>1, <2>2
  <1>5. CASE x.status \in {"released", "closed"}
    BY <1>5 DEF Over
  <1> QED
    BY <1>4, <1>5 DEF Accepted

\* Only a worker that finds the account unlocked decides.
LEMMA DecideKeeps ==
    ASSUME IngestInv, NEW w \in Worker, Decide(w) PROVE IngestInv'
  <1>1. Types /\ clock \in Nat /\ clock >= clock /\ DeciderInv(w)
    BY DEF IngestInv, Types
  <1>2. /\ pc[w] = "locking" /\ lock = NoWorker /\ lock' = w /\ held' = held
        /\ UNCHANGED <<received, runs, lastInbound, enabled, clock>>
    BY DEF Decide, rows, shop
  <1>3. held[w] \in Event
    BY <1>1, <1>2 DEF Types
  <1>4. \/ /\ pc' = [pc EXCEPT ![w] = "decided"] /\ held[w] \notin received
           /\ plan' = [plan EXCEPT ![w] = Choice(held[w])]
        \/ pc' = [pc EXCEPT ![w] = "done"] /\ plan' = plan
    BY DEF Decide
  <1>5. Choice(held[w]) \in Plan
    <2>1. \A r : Over(held[w], r) \in SUBSET Event
      BY <1>1 DEF Over, Types, Run
    <2> QED
      BY <1>3, <2>1, WinnerIsRule DEF Choice, Verdict, Plan, NoPlan
  <1>6. Types'
    BY <1>1, <1>2, <1>3, <1>4, <1>5 DEF Types
  <1>7. ASSUME NEW v \in Worker PROVE DeciderInv(v)'
    <2>1. CASE v # w
      <3>1. pc[v] \notin {"decided", "done"} /\ pc'[v] = pc[v]
        BY <1>1, <1>2, <1>4, <2>1, RuleAssumption DEF IngestInv, DeciderInv, Types
      <3> QED
        BY <3>1 DEF DeciderInv
    <2>2. CASE v = w /\ pc'[w] = "done"
      BY <1>2, <2>2 DEF DeciderInv
    <2>3. CASE v = w /\ pc'[w] # "done"
      <3>1. held[w] \notin received /\ pc'[w] = "decided" /\ plan'[w] = Choice(held[w])
        BY <1>1, <1>4, <2>3 DEF Types
      <3>2. plan'[w].rule # NoRule /\ plan'[w].status = "queued" =>
              Clear(held[w], plan'[w].rule, plan'[w].over)
        BY <1>1, <1>3, <3>1, ChoiceIsClear DEF IngestInv
      <3>3. \A r, o : Clear(held[w], r, o)' <=> Clear(held[w], r, o)
        BY <1>2 DEF Clear, SameTarget, Accepted
      <3> QED
        BY <1>2, <2>3, <3>1, <3>2, <3>3 DEF DeciderInv
    <2>4. pc'[w] \in {"decided", "done"}
      BY <1>1, <1>4 DEF Types
    <2> QED
      BY <2>1, <2>2, <2>3
  <1> QED
    BY <1>1, <1>2, <1>6, <1>7, RowsStand DEF IngestInv

\* Two runs aim at each other or not at all.
LEMMA TargetsAgree ==
    ASSUME NEW x, NEW y, SameTarget(y.rule, x) PROVE SameTarget(x.rule, y)
  BY DEF SameTarget

\* A run that starts keeps the runs as they should be.
LEMMA RunStarts ==
    ASSUME IngestInv, NEW e \in Event, e \notin received, NEW r \in Rule,
           NEW s \in {"queued", "cooldown", "skipped"}, NEW o,
           s = "queued" => Clear(e, r, o),
           NEW n, n = [event |-> e, rule |-> r, status |-> s, at |-> clock, over |-> o]
    PROVE  /\ \A x, y \in runs \cup {n} : x.event = y.event => x = y
           /\ \A x, y \in runs \cup {n} : Rivals(x, y) /\ x.at <= y.at => Apart(x, y)
  <1>1. /\ \A x \in runs : x.event \in received /\ x.at <= clock /\ x.at \in Nat
        /\ \A x \in runs : x.rule \in Rule /\ x.event # e
        /\ clock \in Nat /\ Cooldown \in [Rule -> Nat]
    BY RuleAssumption DEF IngestInv, RunsInv, Types, Run
  <1>2. n.event = e /\ n.rule = r /\ n.status = s /\ n.at = clock /\ n.over = o
    OBVIOUS
  <1>3. ASSUME NEW x \in runs, NEW y \in runs
        PROVE  /\ x.event = y.event => x = y
               /\ Rivals(x, y) /\ x.at <= y.at => Apart(x, y)
    BY DEF IngestInv, RunsInv, OneRunPerEvent, CooldownHolds
  <1>4. \A x, y \in runs \cup {n} : x.event = y.event => x = y
    <2> SUFFICES ASSUME NEW x \in runs \cup {n}, NEW y \in runs \cup {n}, x.event = y.event
                 PROVE  x = y
      OBVIOUS
    <2>1. CASE x \in runs /\ y \in runs
      BY <1>3, <2>1
    <2>2. CASE x = n \/ y = n
      BY <1>1, <1>2, <2>2
    <2> QED
      BY <2>1, <2>2
  <1>5. ASSUME NEW x \in runs, s \in Accepted, x.status \in Accepted, From[x.event] = From[e],
               SameTarget(r, x)
        PROVE  x.at + Cooldown[r] <= clock \/ x.event \in o
    BY <1>5 DEF Clear, Accepted
  <1>6. ASSUME NEW x \in runs, Rivals(x, n) PROVE Apart(x, n)
    <2>1. /\ s \in Accepted /\ x.status \in Accepted /\ From[x.event] = From[e]
          /\ SameTarget(r, x)
      BY <1>2, <1>6 DEF Rivals
    <2> QED
      BY <1>2, <1>5, <2>1 DEF Apart
  <1>7. ASSUME NEW y \in runs, Rivals(n, y), n.at <= y.at PROVE Apart(n, y)
    <2>1. SameTarget(r, y)
      BY <1>2, <1>7, TargetsAgree DEF Rivals
    <2>2. y.at + Cooldown[r] <= clock \/ y.event \in o
      BY <1>2, <1>5, <1>7, <2>1 DEF Rivals
    <2>3. y.at \in Nat /\ Cooldown[r] \in Nat /\ clock \in Nat /\ y.at <= clock
      BY <1>1
    <2> QED
      BY <1>2, <1>7, <2>2, <2>3 DEF Apart
  <1>8. ~Rivals(n, n)
    BY DEF Rivals
  <1>9. \A x, y \in runs \cup {n} : Rivals(x, y) /\ x.at <= y.at => Apart(x, y)
    <2> SUFFICES ASSUME NEW x \in runs \cup {n}, NEW y \in runs \cup {n},
                        Rivals(x, y), x.at <= y.at
                 PROVE  Apart(x, y)
      OBVIOUS
    <2>1. CASE x \in runs /\ y \in runs
      BY <1>3, <2>1
    <2>2. CASE x \in runs /\ y = n
      BY <1>6, <2>2
    <2>3. CASE x = n /\ y \in runs
      BY <1>7, <2>3
    <2> QED
      BY <1>8, <2>1, <2>2, <2>3
  <1> QED
    BY <1>4, <1>9

\* The window after an event: a message may move it, a comment does not.
LEMMA WindowMoves ==
    ASSUME IngestInv, NEW e \in Event, received' = received \cup {e},
           lastInbound' =
             IF e \in Comment THEN lastInbound
             ELSE [lastInbound EXCEPT ![From[e]] = IF @ < OccurredAt[e] THEN OccurredAt[e] ELSE @]
    PROVE  WindowFromLatest' /\ lastInbound' \in [Customer -> Nat]
  <1>1. /\ lastInbound \in [Customer -> Nat] /\ received \subseteq Event
        /\ From[e] \in Customer /\ \A x \in Event : OccurredAt[x] \in Nat \ {0}
    BY EventAssumption DEF IngestInv, Types
  <1>2. lastInbound' \in [Customer -> Nat]
    BY <1>1
  <1> DEFINE Mine(c) == {x \in received \ Comment : From[x] = c}
             Fits(w, mine) == /\ \A x \in mine : w >= OccurredAt[x]
                              /\ IF mine = {} THEN w = 0 ELSE \E x \in mine : w = OccurredAt[x]
  <1> SUFFICES ASSUME NEW c \in Customer PROVE Fits(lastInbound'[c], Mine(c)')
    BY <1>2 DEF WindowFromLatest
  <1>3. Fits(lastInbound[c], Mine(c))
    BY DEF IngestInv, WindowFromLatest
  <1>4. CASE e \in Comment \/ From[e] # c
    <2>1. lastInbound'[c] = lastInbound[c]
      BY <1>1, <1>4
    <2>2. Mine(c)' = Mine(c)
      BY <1>4
    <2> QED
      BY <1>3, <2>1, <2>2
  <1>5. CASE e \notin Comment /\ From[e] = c
    <2>1. Mine(c)' = Mine(c) \cup {e} /\ Mine(c) \subseteq Event
      BY <1>1, <1>5
    <2>2. lastInbound'[c] = IF lastInbound[c] < OccurredAt[e] THEN OccurredAt[e] ELSE lastInbound[c]
      BY <1>1, <1>5
    <2>3. \A x \in Mine(c) : lastInbound[c] >= OccurredAt[x]
      BY <1>3
    <2>4. lastInbound[c] \in Nat /\ OccurredAt[e] \in Nat \ {0}
      BY <1>1
    <2> HIDE DEF Mine
    <2>5. CASE lastInbound[c] < OccurredAt[e]
      <3>1. \A x \in Mine(c)' : lastInbound'[c] >= OccurredAt[x]
        BY <1>1, <2>1, <2>2, <2>3, <2>4, <2>5
      <3> QED
        BY <2>1, <2>2, <2>5, <3>1
    <2>6. CASE ~ (lastInbound[c] < OccurredAt[e])
      <3>1. lastInbound'[c] = lastInbound[c] /\ lastInbound[c] >= OccurredAt[e] /\ lastInbound[c] # 0
        BY <2>2, <2>4, <2>6
      <3>2. \E x \in Mine(c) : lastInbound[c] = OccurredAt[x]
        BY <1>3, <3>1
      <3> QED
        BY <2>1, <2>3, <3>1, <3>2
    <2> QED
      BY <2>5, <2>6
  <1> QED
    BY <1>4, <1>5

\* The commit: the decision still holds, for the account is locked since it was made.
LEMMA CommitKeeps ==
    ASSUME IngestInv, NEW w \in Worker, Commit(w) PROVE IngestInv'
  <1>1. Types /\ RunsInv /\ DeciderInv(w) /\ pc[w] = "decided"
    BY DEF IngestInv, Commit
  <1>2. PICK e \in Event : e = held[w]
    BY <1>1 DEF Types
  <1>3. /\ lock = w /\ e \notin received /\ received' = received \cup {e} /\ Drop(w)
        /\ lastInbound' =
             IF e \in Comment THEN lastInbound
             ELSE [lastInbound EXCEPT ![From[e]] = IF @ < OccurredAt[e] THEN OccurredAt[e] ELSE @]
        /\ Insert(w) /\ UNCHANGED <<enabled, clock>>
    BY <1>1, <1>2 DEF DeciderInv, Commit, shop
  <1>4. clock \in 0..MaxClock /\ plan[w] \in Plan
    BY <1>1 DEF Types
  <1>5. WindowFromLatest' /\ lastInbound' \in [Customer -> Nat]
    BY <1>3, WindowMoves
  <1>6. RunsInv' /\ runs' \subseteq Run
    <2>1. CASE plan[w].rule = NoRule
      <3>1. runs' = runs
        BY <1>3, <2>1 DEF Insert
      <3> QED
        BY <1>1, <1>3, <3>1 DEF RunsInv, OneRunPerEvent, CooldownHolds, Types
    <2>2. CASE plan[w].rule # NoRule
      <3>1. PICK r \in Rule, s \in {"queued", "cooldown", "skipped"}, o \in SUBSET Event :
              r = plan[w].rule /\ s = plan[w].status /\ o = plan[w].over
        BY <1>4, <2>2 DEF Plan
      <3>2. PICK n : n = [event |-> e, rule |-> r, status |-> s, at |-> clock, over |-> o]
        OBVIOUS
      <3>3. runs' = runs \cup {n}
        BY <1>2, <1>3, <2>2, <3>1, <3>2 DEF Insert
      <3>4. s = "queued" => Clear(e, r, o)
        BY <1>1, <1>2, <2>2, <3>1 DEF DeciderInv
      <3>5. /\ \A x, y \in runs' : x.event = y.event => x = y
            /\ \A x, y \in runs' : Rivals(x, y) /\ x.at <= y.at => Apart(x, y)
        BY <1>3, <3>2, <3>3, <3>4, RunStarts
      <3>6. n \in Run /\ n.event = e /\ n.at = clock
        BY <1>4, <3>2 DEF Run, RunStatus
      <3>7. clock <= clock
        BY <1>4
      <3>8. \A x \in runs' : x.event \in received' /\ x.at <= clock'
        BY <1>1, <1>3, <3>3, <3>6, <3>7 DEF RunsInv
      <3> QED
        BY <1>1, <3>3, <3>5, <3>6, <3>8
           DEF RunsInv, OneRunPerEvent, CooldownHolds, Types
    <2> QED
      BY <2>1, <2>2
  <1>7. Types'
    BY <1>1, <1>2, <1>3, <1>5, <1>6, DropTypes DEF Types
  <1>8. ASSUME NEW v \in Worker PROVE DeciderInv(v)'
    <2>1. CASE v = w
      BY <1>1, <1>3, <2>1, DropTypes DEF DeciderInv
    <2>2. CASE v # w
      <3>1. pc[v] \notin {"decided", "done"} /\ pc'[v] = pc[v]
        BY <1>1, <1>3, <2>2, DropTypes DEF IngestInv, DeciderInv
      <3> QED
        BY <3>1 DEF DeciderInv
    <2> QED
      BY <2>1, <2>2
  <1> QED
    BY <1>5, <1>6, <1>7, <1>8 DEF IngestInv

\* A run that fails, comes back or is over stays among the accepted, at its time.
LEMMA SetStatusKeeps ==
    ASSUME IngestInv, NEW x \in runs, x.status \in Accepted, NEW s \in Accepted, SetStatus(x, s)
    PROVE  IngestInv'
  <1>1. Types /\ RunsInv /\ x \in Run
    BY DEF IngestInv, Types
  <1>2. PICK n : n = [x EXCEPT !.status = s]
    OBVIOUS
  <1>3. /\ runs' = (runs \ {x}) \cup {n}
        /\ UNCHANGED <<received, lastInbound, enabled, clock, pc, held, plan, lock>>
    BY <1>2 DEF SetStatus, shop, worker
  <1>4. /\ n \in Run /\ n.event = x.event /\ n.at = x.at /\ n.rule = x.rule /\ n.over = x.over
        /\ n.status \in Accepted
    BY <1>1, <1>2 DEF Run, RunStatus, Accepted
  <1>5. Types'
    BY <1>1, <1>3, <1>4 DEF Types
  <1>6. clock \in Nat /\ clock >= clock
    BY <1>1 DEF Types
  <1>7. ASSUME NEW v \in Worker PROVE DeciderInv(v)'
    <2>1. \A y \in runs' : y.status \in Accepted =>
             \E z \in runs : /\ z.status \in Accepted
                            /\ z.event = y.event /\ z.rule = y.rule /\ z.at = y.at
      BY <1>3, <1>4
    <2> QED
      BY <1>3, <1>6, <2>1, DecisionsStand DEF IngestInv
  <1>8. \A y \in runs' : y.event \in received /\ y.at <= clock
    BY <1>1, <1>3, <1>4 DEF RunsInv
  <1>9. ASSUME NEW y \in runs', NEW z \in runs', y.event = z.event PROVE y = z
    <2>1. \A u, v \in runs : u.event = v.event => u = v
      BY <1>1 DEF RunsInv, OneRunPerEvent
    <2>2. CASE y \in runs /\ z \in runs
      BY <1>9, <2>1, <2>2
    <2>3. CASE y = n /\ z # n
      BY <1>3, <1>4, <1>9, <2>1, <2>3
    <2>4. CASE z = n /\ y # n
      BY <1>3, <1>4, <1>9, <2>1, <2>4
    <2> QED
      BY <1>3, <2>2, <2>3, <2>4
  <1>10. ASSUME NEW y \in runs', NEW z \in runs', Rivals(y, z), y.at <= z.at PROVE Apart(y, z)
    <2> DEFINE Was(u) == IF u = n THEN x ELSE u
    <2>1. \A u \in runs' : /\ Was(u) \in runs /\ Was(u).event = u.event /\ Was(u).at = u.at
                           /\ Was(u).rule = u.rule /\ Was(u).over = u.over
                           /\ (u.status \in Accepted => Was(u).status \in Accepted)
      BY <1>3, <1>4
    <2>2. Was(y) # Was(z)
      <3>1. y # z
        BY <1>10 DEF Rivals
      <3>2. y.event # z.event
        BY <1>9, <3>1
      <3> QED
        BY <2>1, <3>2
    <2> HIDE DEF Was
    <2>3. Rivals(Was(y), Was(z))
      BY <1>10, <2>1, <2>2 DEF Rivals, SameTarget
    <2>4. Apart(Was(y), Was(z))
      BY <1>1, <1>10, <2>1, <2>3 DEF RunsInv, CooldownHolds
    <2> QED
      BY <2>1, <2>4 DEF Apart
  <1>11. RunsInv'
    BY <1>3, <1>8, <1>9, <1>10
       DEF RunsInv, OneRunPerEvent, CooldownHolds, Rivals, Apart, Accepted, SameTarget
  <1>12. WindowFromLatest'
    BY <1>3 DEF IngestInv, WindowFromLatest
  <1> QED
    BY <1>5, <1>7, <1>11, <1>12 DEF IngestInv

LEMMA RunKeeps ==
    ASSUME IngestInv, NEW x \in runs, Release(x) \/ Revive(x) \/ Close(x) PROVE IngestInv'
  BY SetStatusKeeps DEF Release, Revive, Close, Accepted

\* The steps that touch neither rows nor decisions: of the queue, of the clock and the
\* workspace's edits.
LEMMA OthersKeep ==
    ASSUME IngestInv, Types', clock' \in Nat, clock' >= clock,
           UNCHANGED <<received, runs, lastInbound, lock>>,
           \A v \in Worker : \/ pc'[v] = pc[v] /\ held'[v] = held[v] /\ plan'[v] = plan[v]
                             \/ pc'[v] \notin {"decided", "done"}
    PROVE  IngestInv'
  <1>1. ASSUME NEW v \in Worker PROVE DeciderInv(v)'
    <2>1. CASE pc'[v] \notin {"decided", "done"}
      BY <2>1 DEF DeciderInv
    <2>2. CASE pc'[v] = pc[v] /\ held'[v] = held[v] /\ plan'[v] = plan[v]
      BY <2>2, DecisionsStand DEF IngestInv
    <2> QED
      BY <2>1, <2>2
  <1> QED
    BY <1>1, RowsStand DEF IngestInv

LEMMA IngestInit == Init => IngestInv
  <1> SUFFICES ASSUME Init PROVE IngestInv
    OBVIOUS
  <1>1. Types
    BY BoundAssumption DEF Init, Types, Plan, NoPlan, RunStatus
  <1>2. RunsInv /\ WindowFromLatest
    BY DEF Init, RunsInv, OneRunPerEvent, CooldownHolds, WindowFromLatest
  <1> QED
    BY <1>1, <1>2 DEF IngestInv, DeciderInv, Init

LEMMA IngestNext == ASSUME IngestInv, [Next]_vars PROVE IngestInv'
  <1>1. Types /\ clock \in Nat /\ clock >= clock /\ clock + 1 >= clock /\ clock + 1 \in Nat
    BY DEF IngestInv, Types
  <1>2. ASSUME NEW w \in Worker, Discard(w) \/ Raise(w) \/ Crash(w) PROVE IngestInv'
    BY <1>2, DropKeeps DEF Discard, Raise, Crash, rows, shop
  <1>3. ASSUME NEW w \in Worker, NEW e \in Event, Claim(w, e) PROVE IngestInv'
    <2>1. Types' /\ UNCHANGED <<received, runs, lastInbound, lock, clock>>
      BY <1>1, <1>3 DEF Claim, Types, shop
    <2>2. /\ pc'[w] = "locking"
          /\ \A v \in Worker \ {w} : pc'[v] = pc[v] /\ held'[v] = held[v] /\ plan'[v] = plan[v]
      BY <1>1, <1>3 DEF Claim, Types
    <2> QED
      BY <1>1, <2>1, <2>2, OthersKeep
  <1>4. ASSUME UNCHANGED <<received, runs, lastInbound, lock, worker>>,
               enabled' \subseteq Rule, clock' \in 0..MaxClock, clock' >= clock
        PROVE  IngestInv'
    BY <1>1, <1>4, OthersKeep DEF Types, worker
  <1>5. ASSUME NEW w \in Worker, NEW e \in Event, Recover(w, e) PROVE IngestInv'
    BY <1>1, <1>4, <1>5 DEF Recover, shop, Types
  <1>6. ASSUME NEW e \in Event, Webhook(e) PROVE IngestInv'
    BY <1>1, <1>4, <1>6 DEF Webhook, shop, Types
  <1>7. ASSUME NEW r \in Rule, EditRule(r) PROVE IngestInv'
    BY <1>1, <1>4, <1>7 DEF EditRule, Edit, Flip, rows, Types
  <1>8. CASE EditAccount \/ \E p \in Product : EditProduct(p)
    BY <1>1, <1>4, <1>8 DEF EditAccount, EditProduct, Edit, rows, Types
  <1>9. CASE Tick
    <2>1. clock' = clock + 1 /\ clock' \in 0..MaxClock
      BY <1>1, <1>9, BoundAssumption DEF Tick, Types
    <2> QED
      BY <1>1, <1>4, <1>9, <2>1 DEF Tick, rows, shop, Types
  <1>10. CASE UNCHANGED vars
    BY <1>1, <1>4, <1>10 DEF vars, rows, shop, Types
  <1> QED
    BY <1>2, <1>3, <1>5, <1>6, <1>7, <1>8, <1>9, <1>10, DecideKeeps, CommitKeeps, RunKeeps
    DEF Next, Handle, Poll

\* What holds between decisions, lock and rows in every state.
THEOREM Decisions == Spec => []IngestInv
  <1>1. IngestInv /\ [Next]_vars => IngestInv'
    BY IngestNext
  <1> QED
    BY <1>1, IngestInit, PTL DEF Spec

\* An event starts at most one run, however often it is delivered, claimed, recovered and
\* retried (automation.ingest: the key is looked up under the account's row lock).
THEOREM OneRun == Spec => []OneRunPerEvent
  <1>1. IngestInv => OneRunPerEvent
    BY DEF IngestInv, RunsInv
  <1> QED
    BY Decisions, <1>1, PTL

\* A run accepted within the cooldown of another passed over one that had failed or been
\* cancelled (automation.ingest, flows.queue_flow), although workers decide and insert at
\* different times and such a run may count again later.
THEOREM CooldownsHold == Spec => []CooldownHolds
  <1>1. IngestInv => CooldownHolds
    BY DEF IngestInv, RunsInv
  <1> QED
    BY Decisions, <1>1, PTL

\* The 24-hour window is that of the latest message ingested, in whatever order, and no
\* comment moves it (automation.ingest: last_inbound_at never goes back).
THEOREM WindowsAreLatest == Spec => []WindowFromLatest
  <1>1. IngestInv => WindowFromLatest
    BY DEF IngestInv
  <1> QED
    BY Decisions, <1>1, PTL
=============================================================================

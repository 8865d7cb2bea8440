----------------------------- MODULE HostProofs -----------------------------
(***************************************************************************)
(* Proofs about HostOperations, for every set of operations, releases and rows  *)
(* and any number of crashes and resent requests.  An operation asked for in    *)
(* the panel starts at most once: the receipt carries the proof.  Only claiming *)
(* adds one, and it asks that none exists; an operation without one was never   *)
(* started, nor was the one the agent has claimed but not begun.                *)
(* While nobody starts the services by hand under a running operation, no row   *)
(* is lost, and no old code runs on a new schema nor any release but the        *)
(* current one when the operation ends, but what a restart brings back after a  *)
(* failure: the invariant follows the program step by step, for the containers  *)
(* that run and for those that a restart would start.                           *)
(***************************************************************************)
EXTENDS HostOperations, SequenceTheorems, TLAPS

\* The state the argument needs; the steps of a program touch none of it.
ClaimOK ==
    /\ receipts \subseteq Op
    /\ doing \in [Actor -> Op \union {NoOp}]
    /\ stage \in [Actor -> {"free", "claimed", "announced", "run"}]
    /\ starts \in [Op -> Nat]
    /\ stage["agent"] \in {"claimed", "announced"} => doing["agent"] \in receipts

Unstarted == \A o \in Panel :
    /\ starts[o] <= 1
    /\ starts[o] = 1 => o \in receipts
    /\ stage["agent"] \in {"claimed", "announced"} /\ doing["agent"] = o => starts[o] = 0

OnceInv == ClaimOK /\ Unstarted

\* Nothing of the claim changes.
ClaimKept == UNCHANGED <<receipts, doing, stage, starts>>

LEMMA KeptPreserves == ASSUME OnceInv, ClaimKept PROVE OnceInv'
  BY DEF OnceInv, ClaimOK, Unstarted, ClaimKept

\* Every step of a program but its end.
Work(a) ==
    \/ StopWriters(a) \/ SaveArchive(a) \/ StartWriters(a) \/ StartFails(a) \/ Healthy(a)
    \/ Validate(a) \/ LoadDump(a) \/ RestoreSettings(a) \/ Migrate(a)
    \/ Clone(a) \/ UpNew(a) \/ Link(a) \/ Switch(a) \/ SaveDomain(a) \/ PutBack(a)
    \/ DeleteBackup(a) \/ Report(a) \/ Fail(a)

LEMMA ForwardKeeps == ASSUME NEW a \in Actor, Forward(a) PROVE ClaimKept
  BY DEF Forward, ClaimKept, protocol, history

LEMMA RaiseKeeps == ASSUME NEW a \in Actor, Raise(a) PROVE ClaimKept
  BY DEF Raise, ClaimKept, protocol, history

LEMMA ReturnKeeps == ASSUME NEW a \in Actor, Return(a) PROVE ClaimKept
  BY ForwardKeeps, RaiseKeeps DEF Return

\* A program works on the host and on its own steps only.
LEMMA WorkKeeps == ASSUME NEW a \in Actor, Work(a) PROVE ClaimKept
  <1>1. CASE StopWriters(a) BY <1>1, ReturnKeeps DEF StopWriters
  <1>2. CASE SaveArchive(a) BY <1>2, ReturnKeeps DEF SaveArchive
  <1>3. CASE StartWriters(a) BY <1>3, ReturnKeeps DEF StartWriters
  <1>4. CASE StartFails(a) BY <1>4, RaiseKeeps DEF StartFails
  <1>5. CASE Healthy(a) BY <1>5, ForwardKeeps DEF Healthy
  <1>6. CASE Validate(a) BY <1>6, ForwardKeeps DEF Validate
  <1>7. CASE LoadDump(a) BY <1>7, ReturnKeeps DEF LoadDump
  <1>8. CASE RestoreSettings(a) BY <1>8, ForwardKeeps DEF RestoreSettings
  <1>9. CASE Migrate(a) BY <1>9, ReturnKeeps DEF Migrate
  <1>10. CASE Clone(a) BY <1>10, ReturnKeeps DEF Clone
  <1>11. CASE UpNew(a) BY <1>11, ReturnKeeps DEF UpNew
  <1>12. CASE Link(a) BY <1>12, ForwardKeeps DEF Link
  <1>13. CASE Switch(a) BY <1>13, ForwardKeeps DEF Switch
  <1>14. CASE SaveDomain(a) BY <1>14, ForwardKeeps DEF SaveDomain
  <1>15. CASE PutBack(a) BY <1>15, ForwardKeeps DEF PutBack
  <1>16. CASE DeleteBackup(a) BY <1>16, ForwardKeeps DEF DeleteBackup
  <1>17. CASE Report(a) BY <1>17, ForwardKeeps DEF Report
  <1>18. CASE Fail(a) BY <1>18, RaiseKeeps DEF Fail
  <1> QED BY <1>1, <1>2, <1>3, <1>4, <1>5, <1>6, <1>7, <1>8, <1>9, <1>10, <1>11, <1>12,
             <1>13, <1>14, <1>15, <1>16, <1>17, <1>18 DEF Work

\* The end of a program or of its process leaves the agent with nothing claimed.
LEMMA LeavePreserves ==
  ASSUME OnceInv, NEW a \in Actor, Leave(a), UNCHANGED <<receipts, starts>>
  PROVE  OnceInv'
  BY DEF OnceInv, ClaimOK, Unstarted, Leave, Actor

\* The receipt did not exist, so the operation was never started.
LEMMA ClaimPreserves == ASSUME OnceInv, NEW o \in Op, Claim(o) PROVE OnceInv'
  <1> USE DEF OnceInv, Actor
  <1>1. ClaimOK' BY DEF ClaimOK, Claim, history
  <1>2. ASSUME NEW p \in Panel PROVE p # o => p # doing'["agent"]
    BY DEF ClaimOK, Claim
  <1>3. o \in Panel => starts[o] = 0
    BY OperationAssumption DEF ClaimOK, Unstarted, Claim
  <1>4. Unstarted' BY <1>2, <1>3 DEF ClaimOK, Unstarted, Claim, history
  <1> QED BY <1>1, <1>4

\* Starting is the end of the claim; the operation had not been started before.
LEMMA BeginPreserves == ASSUME OnceInv, Begin PROVE OnceInv'
  <1> USE DEF OnceInv, Actor
  <1> DEFINE o == doing["agent"]
  <1>1. /\ starts' = [starts EXCEPT ![o] = @ + 1]
        /\ stage' = [stage EXCEPT !["agent"] = "run"]
        /\ UNCHANGED <<receipts, doing>>
        /\ stage["agent"] = "announced"
    BY DEF Begin, StartProgram
  <1>2. o \in receipts /\ o \in Op BY <1>1 DEF ClaimOK
  <1>3. ClaimOK' BY <1>1 DEF ClaimOK
  <1>4. Unstarted' BY <1>1, <1>2, OperationAssumption DEF ClaimOK, Unstarted
  <1> QED BY <1>3, <1>4

\* The command line starts its own operations only.
LEMMA RunCliPreserves == ASSUME OnceInv, NEW o \in Op, RunCli(o) PROVE OnceInv'
  <1> USE DEF OnceInv, Actor
  <1>1. /\ starts' = [starts EXCEPT ![o] = @ + 1] /\ o \notin Panel
        /\ stage' = [stage EXCEPT !["cli"] = "run"]
        /\ doing' = [doing EXCEPT !["cli"] = o]
        /\ UNCHANGED receipts
    BY DEF RunCli, StartProgram, protocol
  <1>2. ClaimOK' BY <1>1 DEF ClaimOK
  <1>3. Unstarted' BY <1>1, OperationAssumption DEF ClaimOK, Unstarted
  <1> QED BY <1>2, <1>3

LEMMA AnnouncePreserves == ASSUME OnceInv, Announce PROVE OnceInv'
  BY DEF OnceInv, ClaimOK, Unstarted, Announce, Actor, history

LEMMA OnceInit == Init => OnceInv
  BY OperationAssumption DEF Init, OnceInv, ClaimOK, Unstarted, Actor

LEMMA OnceNext == ASSUME OnceInv, [Next]_vars PROVE OnceInv'
  <1>1. CASE \E o \in Op : Request(o) \/ Resend(o)
    <2>1. ClaimKept BY <1>1 DEF Request, Resend, ClaimKept, program, history
    <2> QED BY <2>1, KeptPreserves
  <1>2. CASE \E o \in Op : RunCli(o) BY <1>2, RunCliPreserves
  <1>3. CASE \E o \in Op : Answered(o) \/ Reject(o)
    <2>1. ClaimKept BY <1>3 DEF Answered, Reject, ClaimKept, program, history
    <2> QED BY <2>1, KeptPreserves
  <1>4. CASE \E o \in Op : Claim(o) BY <1>4, ClaimPreserves
  <1>5. CASE Announce BY <1>5, AnnouncePreserves
  <1>6. CASE Begin BY <1>6, BeginPreserves
  <1>7. CASE \E a \in Actor : Work(a) BY <1>7, WorkKeeps, KeptPreserves
  <1>8. CASE \E a \in Actor : Finish(a)
    <2>1. PICK a \in Actor : Finish(a) BY <1>8
    <2>2. Leave(a) /\ UNCHANGED <<receipts, starts>> BY <2>1 DEF Finish, history
    <2> QED BY <2>2, LeavePreserves
  <1>9. CASE \E a \in Actor : Die(a)
    <2>1. PICK a \in Actor : Die(a) BY <1>9
    <2>2. Leave(a) /\ UNCHANGED <<receipts, starts>> BY <2>1 DEF Die, protocol
    <2> QED BY <2>2, LeavePreserves
  <1>10. CASE (\E x \in Row : Write(x)) \/ HandStart \/ HandStop \/ HandRestart
    <2>1. ClaimKept
      BY <1>10 DEF Write, HandStart, HandStop, HandRestart, ClaimKept, protocol, program,
                   history
    <2> QED BY <2>1, KeptPreserves
  <1>11. CASE UNCHANGED vars
    <2>1. ClaimKept BY <1>11 DEF vars, protocol, program, history, ClaimKept
    <2> QED BY <2>1, KeptPreserves
  <1> QED BY <1>1, <1>2, <1>3, <1>4, <1>5, <1>6, <1>7, <1>8, <1>9, <1>10, <1>11
          DEF Next, TakeRequest, AgentStep, Step, Work

\* A panel operation starts at most once, whatever comes back into the spool and
\* wherever the agent dies (agent.process).
THEOREM StartsOnce == Spec => []AtMostOnce
  <1>1. OnceInv => AtMostOnce BY DEF OnceInv, Unstarted, AtMostOnce
  <1> QED BY <1>1, OnceInit, OnceNext, PTL DEF Spec

-----------------------------------------------------------------------------
(* The programs, step by step. *)

StepName == {"stop", "archive", "up", "validate", "load", "settings", "migrate", "recreate",
             "health", "clone", "migrate_new", "up_new", "health_new", "link", "switch",
             "save", "webhook", "put_back", "unlink", "look"}

\* Each step of a program that goes well with the one after it, and of its clean-up.
Course(k) ==
    CASE k = "backup"  -> {<<"stop", "archive">>, <<"archive", "up">>, <<"up", "end">>}
      [] k = "restore" -> {<<"validate", "stop">>, <<"stop", "archive">>, <<"archive", "load">>,
                           <<"load", "settings">>, <<"settings", "migrate">>,
                           <<"migrate", "recreate">>, <<"recreate", "health">>,
                           <<"health", "end">>}
      [] k = "update"  -> {<<"clone", "stop">>, <<"stop", "archive">>,
                           <<"archive", "migrate_new">>, <<"migrate_new", "up_new">>,
                           <<"up_new", "health_new">>, <<"health_new", "link">>,
                           <<"link", "switch">>, <<"switch", "end">>}
      [] k = "domain"  -> {<<"save", "recreate">>, <<"recreate", "health">>,
                           <<"health", "webhook">>, <<"webhook", "end">>}
      [] k = "delete"  -> {<<"unlink", "end">>}
      [] k = "report"  -> {<<"look", "end">>}

CleanUp(k) ==
    CASE k = "backup" -> {<<"up", "end">>}
      [] k = "update" -> {<<"stop", "end">>}
      [] k = "domain" -> {<<"put_back", "recreate">>, <<"recreate", "end">>}
      [] OTHER -> {}

Follows(k, f) == IF f THEN CleanUp(k) ELSE Course(k)

\* The steps left are in the order of the program, to its end.
Chain(t, k, f) == \A i \in 1..Len(t) :
    <<t[i], IF i < Len(t) THEN t[i + 1] ELSE "end">> \in Follows(k, f)

\* The first of some steps, and the step an actor is at.
First(t) == IF t = << >> THEN "end" ELSE Head(t)
Now(a) == First(todo[a])

ProgramInv ==
    /\ kind \in [Op -> Kind]
    /\ todo \in [Actor -> Seq(StepName)] /\ failed \in [Actor -> BOOLEAN]
    /\ wrecked \in BOOLEAN /\ flawed \in BOOLEAN
    /\ \A a, b \in Actor : doing[a] # NoOp /\ doing[b] # NoOp => a = b
    /\ \A a \in Actor :
          /\ stage[a] = "free" <=> doing[a] = NoOp
          /\ stage[a] # "run" => todo[a] = << >>
          /\ Chain(todo[a], KindOf(a), failed[a])

\* The writers are stopped from the safety backup to the start of the services.
Stopped(a) ==
    \/ Now(a) \in {"archive", "load", "settings", "migrate", "migrate_new", "up", "up_new"}
    \/ Now(a) = "recreate" /\ KindOf(a) = "restore"
    => writers = Down

\* Before rows are replaced they are in a backup.
Saved(a) == Now(a) = "load" => rows \subseteq UNION {b.rows : b \in archives}

\* Between the start of a new release and the switch, the containers are of that release.
NewServed(a) == Now(a) \in {"health_new", "link", "switch"} =>
    /\ made = [release |-> TargetOf[doing[a]], site |-> config]
    /\ schema = SchemaOf[TargetOf[doing[a]]]

\* The steps before which running containers may differ from what is configured.
Mending(a) ==
    \/ Now(a) \in {"health_new", "link", "switch", "put_back"}
    \/ Now(a) = "recreate" /\ KindOf(a) = "domain"
    \/ Now(a) = "stop" /\ failed[a]

Configured == asis \/ writers \in {Down, [release |-> current, site |-> config]}

\* What a restart by hand would bring back is what is configured, and suits the schema:
\* so it is until a program fails, but at the steps in between.
Sound == made = [release |-> current, site |-> config] /\ schema = SchemaOf[current]
Between(a) == Now(a) \in {"settings", "migrate", "recreate", "up_new",
                          "health_new", "link", "switch"}
Firm(a) == flawed \/ Between(a) \/ Sound
Stored == writers \in {Down, made}

HostInv ==
    /\ \A a \in Actor : Stopped(a) /\ Saved(a) /\ NewServed(a)
    /\ NoOldCodeOnNewSchema /\ NothingLost /\ Stored
    /\ wrecked \/ (\E a \in Actor : Mending(a)) \/ Configured
    /\ flawed \/ (\E a \in Actor : Between(a)) \/ Sound

SafeInv == ClaimOK /\ ProgramInv /\ HostInv

LEMMA ProgramChain == ASSUME NEW k \in Kind
  PROVE  /\ Program(k) \in Seq(StepName) /\ Program(k) # << >>
         /\ Chain(Program(k), k, FALSE)
         /\ First(Program(k)) \in {"stop", "validate", "clone", "save", "unlink", "look"}
  <1> DEFINE t == Program(k)
  <1>1. CASE k = "backup"
    <2>1. t = <<"stop", "archive", "up">> BY <1>1 DEF Program
    <2>2. /\ t \in Seq(StepName) /\ t # << >> /\ Len(t) = 3 /\ Head(t) = t[1]
          /\ t[1] = "stop" /\ t[2] = "archive" /\ t[3] = "up"
      BY <2>1 DEF StepName
    <2> HIDE DEF t
    <2>3. Chain(t, k, FALSE) BY <1>1, <2>2 DEF Chain, Follows, Course
    <2> QED BY <2>2, <2>3 DEF t, First
  <1>2. CASE k = "restore"
    <2>1. t = <<"validate", "stop", "archive", "load", "settings",
                "migrate", "recreate", "health">>
      BY <1>2 DEF Program
    <2>2. /\ t \in Seq(StepName) /\ t # << >> /\ Len(t) = 8 /\ Head(t) = t[1]
          /\ t[1] = "validate" /\ t[2] = "stop" /\ t[3] = "archive" /\ t[4] = "load"
          /\ t[5] = "settings" /\ t[6] = "migrate" /\ t[7] = "recreate" /\ t[8] = "health"
      BY <2>1 DEF StepName
    <2> HIDE DEF t
    <2>3. Chain(t, k, FALSE) BY <1>2, <2>2 DEF Chain, Follows, Course
    <2> QED BY <2>2, <2>3 DEF t, First
  <1>3. CASE k = "update"
    <2>1. t = <<"clone", "stop", "archive", "migrate_new", "up_new",
                "health_new", "link", "switch">>
      BY <1>3 DEF Program
    <2>2. /\ t \in Seq(StepName) /\ t # << >> /\ Len(t) = 8 /\ Head(t) = t[1]
          /\ t[1] = "clone" /\ t[2] = "stop" /\ t[3] = "archive" /\ t[4] = "migrate_new"
          /\ t[5] = "up_new" /\ t[6] = "health_new" /\ t[7] = "link" /\ t[8] = "switch"
      BY <2>1 DEF StepName
    <2> HIDE DEF t
    <2>3. Chain(t, k, FALSE) BY <1>3, <2>2 DEF Chain, Follows, Course
    <2> QED BY <2>2, <2>3 DEF t, First
  <1>4. CASE k = "domain"
    <2>1. t = <<"save", "recreate", "health", "webhook">> BY <1>4 DEF Program
    <2>2. /\ t \in Seq(StepName) /\ t # << >> /\ Len(t) = 4 /\ Head(t) = t[1]
          /\ t[1] = "save" /\ t[2] = "recreate" /\ t[3] = "health" /\ t[4] = "webhook"
      BY <2>1 DEF StepName
    <2> HIDE DEF t
    <2>3. Chain(t, k, FALSE) BY <1>4, <2>2 DEF Chain, Follows, Course
    <2> QED BY <2>2, <2>3 DEF t, First
  <1>5. CASE k = "delete"
    <2>1. t = <<"unlink">> BY <1>5 DEF Program
    <2>2. /\ t \in Seq(StepName) /\ t # << >> /\ Len(t) = 1 /\ Head(t) = t[1]
          /\ t[1] = "unlink"
      BY <2>1 DEF StepName
    <2> HIDE DEF t
    <2>3. Chain(t, k, FALSE) BY <1>5, <2>2 DEF Chain, Follows, Course
    <2> QED BY <2>2, <2>3 DEF t, First
  <1>6. CASE k = "report"
    <2>1. t = <<"look">> BY <1>6 DEF Program
    <2>2. /\ t \in Seq(StepName) /\ t # << >> /\ Len(t) = 1 /\ Head(t) = t[1]
          /\ t[1] = "look"
      BY <2>1 DEF StepName
    <2> HIDE DEF t
    <2>3. Chain(t, k, FALSE) BY <1>6, <2>2 DEF Chain, Follows, Course
    <2> QED BY <2>2, <2>3 DEF t, First
  <1> QED BY <1>1, <1>2, <1>3, <1>4, <1>5, <1>6 DEF Kind

\* What is left to clean up when a step fails.
Rest(k, x) ==
    CASE k = "backup" /\ x = "archive" -> "up"
      [] k = "update" /\ x \in {"migrate_new", "up_new", "health_new", "link", "switch"} -> "stop"
      [] k = "domain" /\ x \in {"recreate", "health"} -> "put_back"
      [] OTHER -> "end"

LEMMA RecoveryChain == ASSUME NEW k \in Kind, NEW x
  PROVE  /\ Recovery(k, x) \in Seq(StepName)
         /\ Chain(Recovery(k, x), k, TRUE)
         /\ First(Recovery(k, x)) = Rest(k, x)
  <1>1. CASE k = "backup" /\ x = "archive"
    BY <1>1 DEF Recovery, Chain, Follows, CleanUp, First, Rest, StepName
  <1>2. CASE k = "update" /\ x \in {"migrate_new", "up_new", "health_new", "link", "switch"}
    BY <1>2 DEF Recovery, Chain, Follows, CleanUp, First, Rest, StepName
  <1>3. CASE k = "domain" /\ x \in {"recreate", "health"}
    BY <1>3 DEF Recovery, Chain, Follows, CleanUp, First, Rest, StepName
  <1>4. CASE /\ ~(k = "backup" /\ x = "archive")
             /\ ~(k = "update" /\ x \in {"migrate_new", "up_new", "health_new", "link", "switch"})
             /\ ~(k = "domain" /\ x \in {"recreate", "health"})
    BY <1>4 DEF Recovery, Chain, Follows, First, Rest
  <1> QED BY <1>1, <1>2, <1>3, <1>4

LEMMA FirstIs == ASSUME NEW u \in Seq(StepName)
  PROVE  /\ Len(u) = 0 => First(u) = "end"
         /\ Len(u) # 0 => First(u) = u[1]
  <1>1. Len(u) = 0 => u = << >> OBVIOUS
  <1>2. Len(u) # 0 => u # << >> /\ Head(u) = u[1] OBVIOUS
  <1> QED BY <1>1, <1>2 DEF First

LEMMA TailChain ==
  ASSUME NEW t \in Seq(StepName), t # << >>, NEW k, NEW f, Chain(t, k, f)
  PROVE  /\ Tail(t) \in Seq(StepName)
         /\ Chain(Tail(t), k, f)
         /\ <<Head(t), First(Tail(t))>> \in Follows(k, f)
  <1>1. /\ Tail(t) \in Seq(StepName) /\ Len(Tail(t)) = Len(t) - 1 /\ Len(t) \in Nat \ {0}
        /\ \A i \in 1..Len(Tail(t)) : Tail(t)[i] = t[i + 1]
    OBVIOUS
  <1>2. Chain(Tail(t), k, f)
    <2> SUFFICES ASSUME NEW i \in 1..Len(Tail(t))
                 PROVE  <<Tail(t)[i], IF i < Len(Tail(t)) THEN Tail(t)[i + 1] ELSE "end">>
                            \in Follows(k, f)
      BY DEF Chain
    <2>1. i + 1 \in 1..Len(t) /\ Tail(t)[i] = t[i + 1] BY <1>1
    <2>2. <<t[i + 1], IF i + 1 < Len(t) THEN t[i + 2] ELSE "end">> \in Follows(k, f)
      BY <2>1 DEF Chain
    <2>3. (IF i + 1 < Len(t) THEN t[i + 2] ELSE "end")
              = IF i < Len(Tail(t)) THEN Tail(t)[i + 1] ELSE "end"
      BY <1>1
    <2> QED BY <2>1, <2>2, <2>3
  <1>3. <<t[1], IF 1 < Len(t) THEN t[2] ELSE "end">> \in Follows(k, f)
    BY <1>1 DEF Chain
  <1>4. First(Tail(t)) = IF 1 < Len(t) THEN t[2] ELSE "end"
    <2> DEFINE u == Tail(t)
    <2>1. /\ u \in Seq(StepName) /\ Len(u) = Len(t) - 1
          /\ Len(u) # 0 => u[1] = t[2]
      BY <1>1
    <2> HIDE DEF u
    <2>2. First(u) = IF Len(u) = 0 THEN "end" ELSE u[1] BY <2>1, FirstIs
    <2>3. First(u) = IF 1 < Len(t) THEN t[2] ELSE "end" BY <1>1, <2>1, <2>2
    <2> QED BY <2>3 DEF u
  <1> QED BY <1>1, <1>2, <1>3, <1>4

-----------------------------------------------------------------------------
(* How a step of a program leaves the program. *)

\* Actor a is at a step; all else about a program is untouched by what a does.
Busy(a) == stage[a] = "run" /\ todo[a] # << >>
Apart(a) ==
    /\ UNCHANGED <<kind, receipts, doing, stage, starts, written>>
    /\ \A b \in Actor \ {a} : todo'[b] = todo[b] /\ failed'[b] = failed[b]

Went(a) ==
    /\ Apart(a)
    /\ <<Now(a), Now(a)'>> \in Follows(KindOf(a), failed[a])
    /\ failed'[a] = failed[a] /\ wrecked' = wrecked /\ flawed' = flawed

Broke(a) ==
    /\ Apart(a)
    /\ \E x \in StepName \union {"end"} : <<Now(a), x>> \in Follows(KindOf(a), failed[a])
    /\ Now(a)' = IF failed[a] THEN "end" ELSE Rest(KindOf(a), Now(a))
    /\ failed'[a] = TRUE /\ wrecked' = (wrecked \/ failed[a]) /\ flawed' = TRUE

LEMMA AtIsBusy == ASSUME NEW a \in Actor, NEW step, At(a, step)
  PROVE  Busy(a) /\ Now(a) = step
  BY DEF At, Busy, Now, First

LEMMA BusyHas == ASSUME ClaimOK, ProgramInv, NEW a \in Actor, Busy(a)
  PROVE  doing[a] # NoOp /\ doing[a] \in Op /\ KindOf(a) \in Kind
  BY DEF ClaimOK, ProgramInv, Busy, KindOf

\* The actor that goes on is the only one with a program.
LEMMA ApartProgram ==
  ASSUME ClaimOK, ProgramInv, NEW a \in Actor, Busy(a), Apart(a),
         todo' \in [Actor -> Seq(StepName)], failed' \in [Actor -> BOOLEAN],
         wrecked' \in BOOLEAN, flawed' \in BOOLEAN, Chain(todo'[a], KindOf(a), failed'[a])
  PROVE  ProgramInv'
  <1>1. kind' \in [Op -> Kind] BY DEF ProgramInv, Apart
  <1>2. \A b, c \in Actor : doing'[b] # NoOp /\ doing'[c] # NoOp => b = c
    BY DEF ProgramInv, Apart
  <1>3. ASSUME NEW b \in Actor
        PROVE  /\ stage'[b] = "free" <=> doing'[b] = NoOp
               /\ stage'[b] # "run" => todo'[b] = << >>
               /\ Chain(todo'[b], kind'[doing'[b]], failed'[b])
    <2>1. CASE b = a BY <2>1 DEF ProgramInv, Apart, Busy, KindOf
    <2>2. CASE b # a BY <2>2 DEF ProgramInv, Apart, KindOf
    <2> QED BY <2>1, <2>2
  <1> QED BY <1>1, <1>2, <1>3 DEF ProgramInv, KindOf

LEMMA ForwardGoes ==
  ASSUME ClaimOK, ProgramInv, NEW a \in Actor, Busy(a), Forward(a)
  PROVE  Went(a) /\ ProgramInv'
  <1>1. /\ todo[a] \in Seq(StepName) /\ todo[a] # << >>
        /\ Chain(todo[a], KindOf(a), failed[a])
        /\ todo \in [Actor -> Seq(StepName)]
    BY DEF ProgramInv, Busy
  <1>2. /\ Tail(todo[a]) \in Seq(StepName)
        /\ Chain(Tail(todo[a]), KindOf(a), failed[a])
        /\ <<Head(todo[a]), First(Tail(todo[a]))>> \in Follows(KindOf(a), failed[a])
    BY <1>1, TailChain
  <1>3. /\ todo' = [todo EXCEPT ![a] = Tail(todo[a])]
        /\ failed' = failed /\ wrecked' = wrecked /\ flawed' = flawed
        /\ UNCHANGED <<kind, receipts, doing, stage, starts, written>>
    BY DEF Forward, protocol, history
  <1>4. todo'[a] = Tail(todo[a]) /\ todo' \in [Actor -> Seq(StepName)]
    BY <1>1, <1>2, <1>3
  <1>5. Apart(a) BY <1>1, <1>3 DEF Apart
  <1>6. Now(a) = Head(todo[a]) /\ Now(a)' = First(Tail(todo[a]))
    BY <1>1, <1>4 DEF Now, First
  <1>7. Went(a) BY <1>2, <1>3, <1>5, <1>6 DEF Went
  <1>8. failed' \in [Actor -> BOOLEAN] /\ wrecked' \in BOOLEAN /\ flawed' \in BOOLEAN
    BY <1>3 DEF ProgramInv
  <1>9. Chain(todo'[a], KindOf(a), failed'[a]) BY <1>2, <1>3, <1>4
  <1> QED BY <1>4, <1>5, <1>7, <1>8, <1>9, ApartProgram

LEMMA RaiseBreaks ==
  ASSUME ClaimOK, ProgramInv, NEW a \in Actor, Busy(a), Raise(a)
  PROVE  Broke(a) /\ ProgramInv'
  <1> DEFINE rest == IF failed[a] THEN << >> ELSE Recovery(KindOf(a), Head(todo[a]))
  <1>1. /\ todo[a] \in Seq(StepName) /\ todo[a] # << >>
        /\ Chain(todo[a], KindOf(a), failed[a])
        /\ todo \in [Actor -> Seq(StepName)] /\ failed \in [Actor -> BOOLEAN]
        /\ KindOf(a) \in Kind
    BY BusyHas DEF ProgramInv, Busy
  <1>2. /\ rest \in Seq(StepName)
        /\ Chain(rest, KindOf(a), TRUE)
        /\ First(rest) = IF failed[a] THEN "end" ELSE Rest(KindOf(a), Head(todo[a]))
    <2>1. CASE failed[a] BY <2>1 DEF Chain, First
    <2>2. CASE ~failed[a] BY <1>1, <2>2, RecoveryChain
    <2> QED BY <2>1, <2>2
  <1>3. /\ First(Tail(todo[a])) \in StepName \union {"end"}
        /\ <<Head(todo[a]), First(Tail(todo[a]))>> \in Follows(KindOf(a), failed[a])
    <2>1. Tail(todo[a]) \in Seq(StepName) BY <1>1, TailChain
    <2>2. First(Tail(todo[a])) \in StepName \union {"end"}
      <3> DEFINE u == Tail(todo[a])
      <3>1. u \in Seq(StepName) BY <2>1
      <3> HIDE DEF u
      <3>2. First(u) \in StepName \union {"end"} BY <3>1, FirstIs, ElementOfSeq
      <3> QED BY <3>2 DEF u
    <2> QED BY <1>1, <2>2, TailChain
  <1>4. /\ todo' = [todo EXCEPT ![a] = rest]
        /\ failed' = [failed EXCEPT ![a] = TRUE]
        /\ wrecked' = (wrecked \/ failed[a]) /\ flawed' = TRUE
        /\ UNCHANGED <<kind, receipts, doing, stage, starts, written>>
    BY DEF Raise, protocol
  <1> HIDE DEF rest
  <1>5. /\ todo'[a] = rest /\ todo' \in [Actor -> Seq(StepName)]
        /\ failed'[a] = TRUE /\ failed' \in [Actor -> BOOLEAN]
    BY <1>1, <1>2, <1>4
  <1>6. Apart(a) BY <1>1, <1>4 DEF Apart
  <1>7. Now(a) = Head(todo[a]) /\ Now(a)' = First(rest)
    BY <1>1, <1>5 DEF Now, First
  <1>8. Broke(a) BY <1>2, <1>3, <1>4, <1>5, <1>6, <1>7 DEF Broke
  <1>9. wrecked' \in BOOLEAN /\ flawed' \in BOOLEAN BY <1>4, <1>1 DEF ProgramInv
  <1>10. Chain(todo'[a], KindOf(a), failed'[a]) BY <1>2, <1>5
  <1> QED BY <1>5, <1>6, <1>8, <1>9, <1>10, ApartProgram

-----------------------------------------------------------------------------
(* What a step leaves on the host. *)

\* Where each step of a program is, and where it leads.
Leads(k, f, x, y) ==
    /\ x = "stop" => y = IF f THEN "end" ELSE "archive"
    /\ x = "archive" => y \in {"up", "load", "migrate_new"} /\ ~f
    /\ x = "load" => y = "settings" /\ k = "restore"
    /\ x = "settings" => y = "migrate" /\ k = "restore"
    /\ x = "migrate" => y = "recreate" /\ k = "restore"
    /\ x = "migrate_new" => y = "up_new" /\ k = "update" /\ ~f
    /\ x = "up_new" => y = "health_new" /\ k = "update" /\ ~f
    /\ x = "health_new" => y = "link" /\ k = "update" /\ ~f
    /\ x = "link" => y = "switch" /\ k = "update" /\ ~f
    /\ x = "switch" => y = "end" /\ k = "update" /\ ~f
    /\ x = "up" => y = "end" /\ k = "backup"
    /\ x = "recreate" => \/ y = "health" /\ ~f /\ k \in {"restore", "domain"}
                         \/ y = "end" /\ f /\ k = "domain"
    /\ x = "health" => y \in {"end", "webhook"} /\ ~f
    /\ x = "put_back" => y = "recreate" /\ k = "domain" /\ f
    /\ x = "save" => y = "recreate" /\ k = "domain"
    /\ x \in {"validate", "clone"} => y = "stop" /\ ~f
    /\ x \in {"webhook", "unlink", "look"} => y = "end"
    /\ x # "end"

LEMMA After ==
  ASSUME NEW k \in Kind, NEW f \in BOOLEAN, NEW x, NEW y, <<x, y>> \in Follows(k, f)
  PROVE  Leads(k, f, x, y)
  <1>1. CASE f BY <1>1 DEF Follows, CleanUp, Leads
  <1>2. CASE ~f /\ k = "backup" BY <1>2 DEF Follows, Course, Leads
  <1>3. CASE ~f /\ k = "restore" BY <1>3 DEF Follows, Course, Leads
  <1>4. CASE ~f /\ k = "update" BY <1>4 DEF Follows, Course, Leads
  <1>5. CASE ~f /\ k \in {"domain", "delete", "report"} BY <1>5 DEF Follows, Course, Leads
  <1> QED BY <1>1, <1>2, <1>3, <1>4, <1>5 DEF Kind

\* The part of the invariant that concerns the actor with a program.
Place(a) ==
    /\ Stopped(a) /\ Saved(a) /\ NewServed(a)
    /\ NoOldCodeOnNewSchema /\ NothingLost /\ Stored
    /\ wrecked \/ Mending(a) \/ Configured
    /\ Firm(a)

LEMMA Elsewhere ==
  ASSUME ProgramInv, NEW a \in Actor, doing[a] # NoOp, NEW b \in Actor, b # a
  PROVE  Now(b) = "end"
  <1>1. stage[b] = "free" BY DEF ProgramInv
  <1> QED BY <1>1 DEF ProgramInv, Now, First

LEMMA PlaceOf ==
  ASSUME ProgramInv, HostInv, NEW a \in Actor, doing[a] # NoOp
  PROVE  Place(a)
  <1>1. \A b \in Actor : b # a => ~Mending(b) /\ ~Between(b)
    BY Elsewhere DEF Mending, Between
  <1> QED BY <1>1 DEF HostInv, Place, Firm

LEMMA ElsewhereNext ==
  ASSUME ProgramInv', NEW a \in Actor, doing'[a] # NoOp, NEW b \in Actor, b # a
  PROVE  Now(b)' = "end"
  <1>1. stage'[b] = "free" BY DEF ProgramInv
  <1> QED BY <1>1 DEF ProgramInv, Now, First

LEMMA PlaceIs ==
  ASSUME ProgramInv', NEW a \in Actor, doing'[a] # NoOp, Place(a)'
  PROVE  HostInv'
  <1>1. \A b \in Actor : b # a => (Stopped(b) /\ Saved(b) /\ NewServed(b))'
    BY ElsewhereNext DEF Stopped, Saved, NewServed
  <1> QED BY <1>1 DEF HostInv, Place, Firm

\* What every step has in common.
Moved(a) ==
    /\ Busy(a) /\ doing[a] \in Op /\ KindOf(a) \in Kind /\ failed[a] \in BOOLEAN
    /\ doing' = doing /\ KindOf(a)' = KindOf(a) /\ written' = written
    /\ \/ /\ Leads(KindOf(a), failed[a], Now(a), Now(a)')
          /\ failed'[a] = failed[a] /\ wrecked' = wrecked /\ flawed' = flawed
       \/ /\ \E x : Leads(KindOf(a), failed[a], Now(a), x)
          /\ Now(a)' = IF failed[a] THEN "end" ELSE Rest(KindOf(a), Now(a))
          /\ failed'[a] = TRUE /\ wrecked' = (wrecked \/ failed[a]) /\ flawed' = TRUE

\* A step that goes well, and one that does not.
LEMMA ForwardLeads ==
  ASSUME SafeInv, NEW a \in Actor, Busy(a), Forward(a)
  PROVE  /\ Leads(KindOf(a), failed[a], Now(a), Now(a)')
         /\ failed'[a] = failed[a] /\ wrecked' = wrecked /\ flawed' = flawed
  <1>1. ClaimOK /\ ProgramInv BY DEF SafeInv
  <1>2. Went(a) BY <1>1, ForwardGoes
  <1>3. KindOf(a) \in Kind /\ failed[a] \in BOOLEAN BY <1>1, BusyHas DEF ProgramInv
  <1>4. Leads(KindOf(a), failed[a], Now(a), Now(a)') BY <1>2, <1>3, After DEF Went
  <1> QED BY <1>2, <1>4 DEF Went

LEMMA RaiseLeads ==
  ASSUME SafeInv, NEW a \in Actor, Busy(a), Raise(a)
  PROVE  /\ \E x : Leads(KindOf(a), failed[a], Now(a), x)
         /\ Now(a)' = IF failed[a] THEN "end" ELSE Rest(KindOf(a), Now(a))
         /\ failed'[a] = TRUE /\ wrecked' = (wrecked \/ failed[a]) /\ flawed' = TRUE
  <1>1. ClaimOK /\ ProgramInv BY DEF SafeInv
  <1>2. Broke(a) BY <1>1, RaiseBreaks
  <1>3. KindOf(a) \in Kind /\ failed[a] \in BOOLEAN BY <1>1, BusyHas DEF ProgramInv
  <1>4. \E x : Leads(KindOf(a), failed[a], Now(a), x) BY <1>2, <1>3, After DEF Broke
  <1> QED BY <1>2, <1>4 DEF Broke

LEMMA StepMoves ==
  ASSUME SafeInv, NEW a \in Actor, Busy(a), Forward(a) \/ Raise(a)
  PROVE  Moved(a) /\ Place(a) /\ ProgramInv' /\ (Place(a)' => HostInv')
  <1>1. ClaimOK /\ ProgramInv /\ HostInv BY DEF SafeInv
  <1>2. (Went(a) \/ Broke(a)) /\ ProgramInv' BY <1>1, ForwardGoes, RaiseBreaks
  <1>3. doing[a] # NoOp /\ doing[a] \in Op /\ KindOf(a) \in Kind BY <1>1, BusyHas
  <1>4. failed[a] \in BOOLEAN BY <1>1 DEF ProgramInv
  <1>5. UNCHANGED <<kind, doing, written>> BY <1>2 DEF Went, Broke, Apart
  <1>6. KindOf(a)' = KindOf(a) BY <1>5 DEF KindOf
  <1>7. Moved(a)
    <2>1. CASE Forward(a) BY <1>3, <1>4, <1>5, <1>6, <2>1, ForwardLeads DEF Moved
    <2>2. CASE Raise(a) BY <1>3, <1>4, <1>5, <1>6, <2>2, RaiseLeads DEF Moved
    <2> QED BY <2>1, <2>2
  <1>8. Place(a) BY <1>1, <1>3, PlaceOf
  <1>9. doing'[a] # NoOp BY <1>3, <1>5
  <1>10. Place(a)' => HostInv' BY <1>2, <1>9, PlaceIs
  <1> QED BY <1>2, <1>7, <1>8, <1>10

\* A step that leaves the writers down and keeps the rows it has.
LEMMA DownIsPlace ==
  ASSUME NEW a \in Actor, writers' = Down, Saved(a)', NothingLost', NewServed(a)', Firm(a)'
  PROVE  Place(a)'
  BY DEF Place, Stopped, NoOldCodeOnNewSchema, Configured, Stored

\* Until a program fails, what a restart would bring back stays as it is.
LEMMA FirmStays ==
  ASSUME NEW a \in Actor, Moved(a), Place(a), ~Between(a),
         UNCHANGED <<made, schema, current, config>>
  PROVE  Firm(a)'
  BY DEF Moved, Place, Firm, Sound

LEMMA StopSafe == ASSUME SafeInv, NEW a \in Actor, StopWriters(a)
  PROVE  ProgramInv' /\ HostInv'
  <1>1. Now(a) = "stop" /\ Busy(a) BY AtIsBusy DEF StopWriters
  <1>2. Moved(a) /\ Place(a) /\ ProgramInv' /\ (Place(a)' => HostInv')
    BY <1>1, StepMoves DEF StopWriters, Return
  <1>3. Now(a)' # "load" BY <1>1, <1>2 DEF Moved, Leads, Rest
  <1>4. Saved(a)' BY <1>3 DEF Saved
  <1>5. NothingLost' BY <1>2 DEF Place, NothingLost, Moved, StopWriters
  <1>6. writers' = Down /\ UNCHANGED <<made, schema, current, config>>
    BY DEF StopWriters, Halt
  <1>7. NewServed(a)' BY <1>1, <1>2 DEF NewServed, Moved, Leads, Rest
  <1>8. Firm(a)' BY <1>1, <1>2, <1>6, FirmStays DEF Between
  <1> QED BY <1>2, <1>4, <1>5, <1>6, <1>7, <1>8, DownIsPlace

LEMMA ArchiveSafe == ASSUME SafeInv, NEW a \in Actor, SaveArchive(a)
  PROVE  ProgramInv' /\ HostInv'
  <1>1. Now(a) = "archive" /\ Busy(a) BY AtIsBusy DEF SaveArchive
  <1>2. Moved(a) /\ Place(a) /\ ProgramInv' /\ (Place(a)' => HostInv')
    BY <1>1, StepMoves DEF SaveArchive, Return
  <1>3. writers' = Down BY <1>1, <1>2 DEF Place, Stopped, SaveArchive, services
  <1> DEFINE b == [by |-> doing[a], release |-> current, schema |-> schema,
                   rows |-> rows, config |-> config]
  <1>4. archives' = archives \union {b} /\ b.rows = rows /\ UNCHANGED <<rows, discarded>>
    BY DEF SaveArchive
  <1> HIDE DEF b
  <1>5. Saved(a)' BY <1>4 DEF Saved
  <1>6. NothingLost' BY <1>2, <1>4 DEF Place, NothingLost, Moved
  <1>7. NewServed(a)' BY <1>1, <1>2 DEF NewServed, Moved, Leads, Rest
  <1>8. Firm(a)'
    <2>1. UNCHANGED <<made, schema, current, config>> BY DEF SaveArchive, services
    <2> QED BY <1>1, <1>2, <2>1, FirmStays DEF Between
  <1> QED BY <1>2, <1>3, <1>5, <1>6, <1>7, <1>8, DownIsPlace

\* The services come up on the release and the settings that are configured.
LEMMA StartSafe == ASSUME SafeInv, NEW a \in Actor, StartWriters(a)
  PROVE  ProgramInv' /\ HostInv'
  <1>1. Now(a) \in {"up", "recreate"} /\ Busy(a) BY AtIsBusy DEF StartWriters
  <1>2. Moved(a) /\ Place(a) /\ ProgramInv' /\ (Place(a)' => HostInv')
    BY <1>1, StepMoves DEF StartWriters, Return
  <1>3. /\ writers' = [release |-> current, site |-> config] /\ schema' = SchemaOf[current]
        /\ made' = writers'
        /\ UNCHANGED <<current, config, rows, archives, discarded>>
    BY DEF StartWriters, Up, Serve
  <1>4. Now(a)' \in {"end", "health", "put_back"}
    BY <1>1, <1>2 DEF Moved, Leads, Rest
  <1>5. Stopped(a)' /\ Saved(a)' /\ NewServed(a)' BY <1>4 DEF Stopped, Saved, NewServed
  <1>6. NothingLost' BY <1>2, <1>3 DEF Place, NothingLost, Moved
  <1>7. NoOldCodeOnNewSchema' BY <1>3 DEF NoOldCodeOnNewSchema
  <1>8. Configured' /\ Stored' BY <1>3 DEF Configured, Stored
  <1>9. Firm(a)' BY <1>3 DEF Firm, Sound
  <1> QED BY <1>2, <1>5, <1>6, <1>7, <1>8, <1>9 DEF Place

\* Containers that did not come up are the old ones, and are mended, or none.
LEMMA StartFailSafe == ASSUME SafeInv, NEW a \in Actor, StartFails(a)
  PROVE  ProgramInv' /\ HostInv'
  <1>1. Now(a) \in {"up", "recreate", "up_new"} /\ Busy(a) BY AtIsBusy DEF StartFails
  <1>2. Moved(a) /\ Place(a) /\ ProgramInv' /\ (Place(a)' => HostInv')
    BY <1>1, StepMoves DEF StartFails
  <1>3. /\ UNCHANGED services \/ writers' = Down
        /\ UNCHANGED <<current, config, schema, rows, archives, discarded>>
        /\ failed'[a] = TRUE /\ flawed' = TRUE
    BY <1>2 DEF StartFails, UpFails, Halt, Raise, SafeInv, ProgramInv
  <1>4. Now(a)' \in {"end", "put_back", "stop"}
    BY <1>1, <1>2, <1>3 DEF Moved, Leads, Rest
  <1>5. Stopped(a)' /\ Saved(a)' /\ NewServed(a)' BY <1>4 DEF Stopped, Saved, NewServed
  <1>6. NothingLost' BY <1>2, <1>3 DEF Place, NothingLost, Moved
  <1>7. NoOldCodeOnNewSchema' /\ Stored' /\ Firm(a)'
    BY <1>2, <1>3 DEF NoOldCodeOnNewSchema, Stored, Firm, Place, services
  <1>8. wrecked' \/ Mending(a)' \/ Configured'
    <2>1. CASE writers = Down BY <1>3, <2>1 DEF Configured, services
    <2>2. CASE writers # Down
      <3>1. Now(a) = "recreate" /\ KindOf(a) = "domain"
        BY <1>1, <1>2, <2>2 DEF Place, Stopped, Moved, Leads
      <3>2. wrecked' \/ Now(a)' = "put_back"
        BY <1>2, <1>3, <3>1 DEF Moved, Leads, Rest, StartFails, Raise
      <3> QED BY <3>2 DEF Mending
    <2> QED BY <2>1, <2>2
  <1> QED BY <1>2, <1>5, <1>6, <1>7, <1>8 DEF Place

\* A step that leaves the host as it is.
LEMMA StillSafe ==
  ASSUME SafeInv, NEW a \in Actor, Busy(a), Forward(a) \/ Raise(a),
         UNCHANGED <<current, services, config, schema, rows, archives, discarded>>,
         \/ Raise(a)
         \/ Now(a) \in {"health", "health_new", "link", "validate", "clone", "look", "webhook"}
  PROVE  ProgramInv' /\ HostInv'
  <1>1. Moved(a) /\ Place(a) /\ ProgramInv' /\ (Place(a)' => HostInv') BY StepMoves
  <1> DEFINE broken == /\ failed'[a] = TRUE /\ flawed' = TRUE
                       /\ wrecked' = (wrecked \/ failed[a])
                       /\ Now(a)' = IF failed[a] THEN "end" ELSE Rest(KindOf(a), Now(a))
             fine == /\ Now(a)' \in {"end", "webhook", "link", "switch", "stop"}
                     /\ Now(a)' \in {"end", "webhook"} => Now(a) \notin {"health_new", "link"}
                     /\ Now(a)' = "switch" => Now(a) = "link"
                     /\ Now(a)' = "link" => Now(a) = "health_new"
                     /\ Now(a)' = "stop" => Now(a) \in {"validate", "clone"}
                     /\ Now(a) \in {"health", "health_new", "link", "validate", "clone",
                                    "look", "webhook"}
                     /\ flawed' = flawed
  <1>2. broken \/ fine
    <2>1. CASE Raise(a) BY <2>1, RaiseLeads
    <2>2. CASE Forward(a) /\ ~Raise(a)
      <3>1. Leads(KindOf(a), failed[a], Now(a), Now(a)') /\ flawed' = flawed
        BY <2>2, ForwardLeads
      <3> QED BY <2>2, <3>1 DEF Leads
    <2> QED BY <2>1, <2>2
  <1>3. NothingLost' BY <1>1 DEF Place, NothingLost, Moved
  <1>4. NoOldCodeOnNewSchema' /\ Stored'
    BY <1>1 DEF NoOldCodeOnNewSchema, Stored, Place, services
  <1>5. Saved(a)' BY <1>2 DEF Saved, Rest
  <1>6. Stopped(a)'
    <2>1. Now(a)' = "up" => Now(a) = "archive" BY <1>2 DEF Rest
    <2>2. Now(a)' \in {"end", "up", "put_back", "stop", "webhook", "link", "switch"}
      BY <1>2 DEF Rest
    <2> QED BY <1>1, <2>1, <2>2 DEF Stopped, Place, services
  <1>7. NewServed(a)'
    <2>1. Now(a)' \in {"health_new", "link", "switch"} => Now(a) \in {"health_new", "link"}
      BY <1>2 DEF Rest
    <2> QED BY <1>1, <2>1 DEF NewServed, Place, Moved, services
  <1>8. wrecked' \/ Mending(a)' \/ Configured'
    <2>1. CASE wrecked BY <1>1, <2>1 DEF Moved
    <2>2. CASE Configured BY <2>2 DEF Configured, services
    <2>3. CASE Mending(a)
      <3>1. CASE broken
        <4>1. CASE failed[a] BY <3>1, <4>1
        <4>2. CASE ~failed[a]
          <5>1. Now(a)' \in {"stop", "put_back"}
            BY <1>1, <2>3, <3>1, <4>2 DEF Mending, Moved, Leads, Rest
          <5> QED BY <3>1, <5>1 DEF Mending
        <4> QED BY <4>1, <4>2
      <3>2. CASE fine BY <2>3, <3>2 DEF Mending
      <3> QED BY <1>2, <3>1, <3>2
    <2> QED BY <1>1, <2>1, <2>2, <2>3 DEF Place
  <1>9. Firm(a)'
    <2>1. CASE broken BY <2>1 DEF Firm
    <2>2. CASE fine
      <3>1. Between(a) => Between(a)' BY <2>2 DEF Between
      <3> QED BY <1>1, <2>2, <3>1 DEF Firm, Sound, Place, services
    <2> QED BY <1>2, <2>1, <2>2
  <1> QED BY <1>1, <1>3, <1>4, <1>5, <1>6, <1>7, <1>8, <1>9 DEF Place

LEMMA QuietSafe ==
  ASSUME SafeInv, NEW a \in Actor,
         Healthy(a) \/ Validate(a) \/ Clone(a) \/ Link(a) \/ Report(a) \/ Fail(a)
  PROVE  ProgramInv' /\ HostInv'
  <1>1. UNCHANGED <<current, services, config, schema, rows, archives, discarded>>
    BY DEF Healthy, Validate, Clone, Link, Report, Fail, host
  <1>2. CASE Fail(a) BY <1>1, <1>2, StillSafe DEF Fail, Busy
  <1>3. CASE Healthy(a) BY <1>1, <1>3, StillSafe, AtIsBusy DEF Healthy
  <1>4. CASE Validate(a) BY <1>1, <1>4, StillSafe, AtIsBusy DEF Validate
  <1>5. CASE Clone(a) BY <1>1, <1>5, StillSafe, AtIsBusy DEF Clone, Return
  <1>6. CASE Link(a) BY <1>1, <1>6, StillSafe, AtIsBusy DEF Link
  <1>7. CASE Report(a) BY <1>1, <1>7, StillSafe, AtIsBusy DEF Report
  <1> QED BY <1>2, <1>3, <1>4, <1>5, <1>6, <1>7

\* What is replaced is in the safety backup.
LEMMA LoadSafe == ASSUME SafeInv, NEW a \in Actor, LoadDump(a)
  PROVE  ProgramInv' /\ HostInv'
  <1>1. Now(a) = "load" /\ Busy(a) BY AtIsBusy DEF LoadDump
  <1>2. Moved(a) /\ Place(a) /\ ProgramInv' /\ (Place(a)' => HostInv')
    BY <1>1, StepMoves DEF LoadDump, Return
  <1>3. writers' = Down BY <1>1, <1>2 DEF Place, Stopped, LoadDump, services
  <1>4. Now(a)' # "load" BY <1>1, <1>2 DEF Moved, Leads, Rest
  <1>5. Saved(a)' BY <1>4 DEF Saved
  <1>6. rows \subseteq UNION {b.rows : b \in archives} BY <1>1, <1>2 DEF Place, Saved
  <1>7. UNCHANGED <<archives, discarded, written>> BY <1>2 DEF LoadDump, Moved
  <1>8. NothingLost' BY <1>2, <1>6, <1>7 DEF Place, NothingLost
  <1>9. NewServed(a)' /\ Firm(a)'
    BY <1>1, <1>2 DEF NewServed, Firm, Between, Moved, Leads, Rest
  <1> QED BY <1>2, <1>3, <1>5, <1>8, <1>9, DownIsPlace

LEMMA SettingsSafe == ASSUME SafeInv, NEW a \in Actor, RestoreSettings(a) \/ Migrate(a)
  PROVE  ProgramInv' /\ HostInv'
  <1>1. Now(a) \in {"settings", "migrate", "migrate_new"} /\ Busy(a)
    BY AtIsBusy DEF RestoreSettings, Migrate
  <1>2. Moved(a) /\ Place(a) /\ ProgramInv' /\ (Place(a)' => HostInv')
    BY <1>1, StepMoves DEF RestoreSettings, Migrate, Return
  <1>3. writers' = writers /\ UNCHANGED <<rows, archives, discarded>>
    BY DEF RestoreSettings, Migrate, services
  <1>4. writers' = Down BY <1>1, <1>2, <1>3 DEF Place, Stopped
  <1>5. Now(a)' # "load" BY <1>1, <1>2 DEF Moved, Leads, Rest
  <1>6. Saved(a)' BY <1>5 DEF Saved
  <1>7. NothingLost' BY <1>2, <1>3 DEF Place, NothingLost, Moved
  <1>8. NewServed(a)' /\ Firm(a)'
    BY <1>1, <1>2 DEF NewServed, Firm, Between, Moved, Leads, Rest
  <1> QED BY <1>2, <1>4, <1>6, <1>7, <1>8, DownIsPlace

\* The new release runs; if its start is reported failed, it is stopped next.
LEMMA UpNewSafe == ASSUME SafeInv, NEW a \in Actor, UpNew(a)
  PROVE  ProgramInv' /\ HostInv'
  <1>1. Now(a) = "up_new" /\ Busy(a) BY AtIsBusy DEF UpNew
  <1>2. Moved(a) /\ Place(a) /\ ProgramInv' /\ (Place(a)' => HostInv')
    BY <1>1, StepMoves DEF UpNew, Return
  <1>3. /\ writers' = [release |-> TargetOf[doing[a]], site |-> config]
        /\ schema' = SchemaOf[TargetOf[doing[a]]] /\ doing' = doing /\ made' = writers'
        /\ UNCHANGED <<current, config, rows, archives, discarded>>
    BY <1>2 DEF UpNew, Up, Serve, Moved
  <1>4. \/ Now(a)' = "health_new"
        \/ Now(a)' = "stop" /\ failed'[a] = TRUE /\ flawed' = TRUE
    BY <1>1, <1>2 DEF Moved, Leads, Rest
  <1>5. Stopped(a)' /\ Saved(a)' /\ Mending(a)' /\ Firm(a)'
    BY <1>4 DEF Stopped, Saved, Mending, Firm, Between
  <1>6. NewServed(a)' BY <1>3 DEF NewServed
  <1>7. NothingLost' BY <1>2, <1>3 DEF Place, NothingLost, Moved
  <1>8. NoOldCodeOnNewSchema' /\ Stored' BY <1>3 DEF NoOldCodeOnNewSchema, Stored
  <1> QED BY <1>2, <1>5, <1>6, <1>7, <1>8 DEF Place

\* The release that runs becomes the current one.
LEMMA SwitchSafe == ASSUME SafeInv, NEW a \in Actor, Switch(a)
  PROVE  ProgramInv' /\ HostInv'
  <1>1. Now(a) = "switch" /\ Busy(a) BY AtIsBusy DEF Switch
  <1>2. Moved(a) /\ Place(a) /\ ProgramInv' /\ (Place(a)' => HostInv')
    BY <1>1, StepMoves DEF Switch
  <1>3. /\ current' = TargetOf[doing[a]]
        /\ UNCHANGED <<writers, made, asis, config, schema, rows, archives, discarded>>
    BY DEF Switch, services
  <1>4. Forward(a) BY DEF Switch
  <1>5. Leads(KindOf(a), failed[a], Now(a), Now(a)') BY <1>1, <1>4, ForwardLeads
  <1>6. Now(a)' = "end" BY <1>1, <1>5 DEF Leads
  <1>7. Stopped(a)' /\ Saved(a)' /\ NewServed(a)' BY <1>6 DEF Stopped, Saved, NewServed
  <1>8. Configured' /\ Firm(a)'
    BY <1>1, <1>2, <1>3 DEF Place, NewServed, Stored, Configured, Firm, Sound
  <1>9. NothingLost' BY <1>2, <1>3 DEF Place, NothingLost, Moved
  <1>10. NoOldCodeOnNewSchema' /\ Stored'
    BY <1>2, <1>3 DEF NoOldCodeOnNewSchema, Stored, Place
  <1> QED BY <1>2, <1>7, <1>8, <1>9, <1>10 DEF Place

LEMMA DomainSafe == ASSUME SafeInv, NEW a \in Actor, SaveDomain(a) \/ PutBack(a)
  PROVE  ProgramInv' /\ HostInv'
  <1>1. Now(a) \in {"save", "put_back"} /\ Busy(a) /\ Forward(a)
    BY AtIsBusy DEF SaveDomain, PutBack
  <1>2. Moved(a) /\ Place(a) /\ ProgramInv' /\ (Place(a)' => HostInv')
    BY <1>1, StepMoves
  <1>3. UNCHANGED <<writers, made, asis, schema, rows, archives, discarded>>
    BY DEF SaveDomain, PutBack, services
  <1>4. Now(a)' = "recreate" /\ KindOf(a) = "domain" BY <1>1, ForwardLeads DEF Leads
  <1>5. Stopped(a)' /\ Saved(a)' /\ NewServed(a)' /\ Mending(a)' /\ Firm(a)'
    BY <1>2, <1>4 DEF Stopped, Saved, NewServed, Mending, Firm, Between, Moved
  <1>6. NothingLost' BY <1>2, <1>3 DEF Place, NothingLost, Moved
  <1>7. NoOldCodeOnNewSchema' /\ Stored'
    BY <1>2, <1>3 DEF NoOldCodeOnNewSchema, Stored, Place
  <1> QED BY <1>2, <1>5, <1>6, <1>7 DEF Place

\* A row of a deleted backup is not lost but discarded.
LEMMA DeleteSafe == ASSUME SafeInv, NEW a \in Actor, DeleteBackup(a)
  PROVE  ProgramInv' /\ HostInv'
  <1>1. Now(a) = "unlink" /\ Busy(a) BY AtIsBusy DEF DeleteBackup
  <1>2. Moved(a) /\ Place(a) /\ ProgramInv' /\ (Place(a)' => HostInv')
    BY <1>1, StepMoves DEF DeleteBackup
  <1>3. PICK b \in archives : archives' = archives \ {b} /\ discarded' = discarded \union b.rows
    BY DEF DeleteBackup
  <1>4. UNCHANGED <<current, writers, made, asis, config, schema, rows>>
    BY DEF DeleteBackup, services
  <1>5. Now(a)' = "end" BY <1>1, <1>2 DEF Moved, Leads, Rest
  <1>6. Stopped(a)' /\ Saved(a)' /\ NewServed(a)' BY <1>5 DEF Stopped, Saved, NewServed
  <1>7. NothingLost' BY <1>2, <1>3, <1>4 DEF Place, NothingLost, Moved
  <1>8. NoOldCodeOnNewSchema' /\ Stored'
    BY <1>2, <1>4 DEF NoOldCodeOnNewSchema, Stored, Place
  <1>9. wrecked' \/ Configured'
    <2>1. ~Mending(a) BY <1>1 DEF Mending
    <2>2. Forward(a) BY DEF DeleteBackup
    <2>3. wrecked' = wrecked BY <1>1, <2>2, ForwardLeads
    <2> QED BY <1>2, <1>4, <2>1, <2>3 DEF Place, Configured
  <1>10. Firm(a)' BY <1>1, <1>2, <1>4, FirmStays DEF Between
  <1> QED BY <1>2, <1>6, <1>7, <1>8, <1>9, <1>10 DEF Place

LEMMA WorkSafe == ASSUME SafeInv, NEW a \in Actor, Work(a)
  PROVE  SafeInv'
  <1>1. ProgramInv' /\ HostInv'
    BY StopSafe, ArchiveSafe, StartSafe, StartFailSafe, QuietSafe, LoadSafe, SettingsSafe,
       UpNewSafe, SwitchSafe, DomainSafe, DeleteSafe DEF Work
  <1>2. ClaimOK'
    <2>1. ClaimKept BY WorkKeeps
    <2> QED BY <2>1 DEF SafeInv, ClaimOK, ClaimKept
  <1> QED BY <1>1, <1>2 DEF SafeInv

-----------------------------------------------------------------------------
(* Between programs. *)

\* With no step left anywhere, only what runs and what is kept matters.
IdleHost ==
    /\ NoOldCodeOnNewSchema /\ NothingLost /\ Stored
    /\ wrecked \/ Configured
    /\ flawed \/ Sound

LEMMA Idle ==
  ASSUME ProgramInv', \A a \in Actor : todo'[a] = << >>, IdleHost'
  PROVE  HostInv'
  <1>1. \A a \in Actor : Now(a)' = "end" BY DEF Now, First
  <1>2. \A a \in Actor : (Stopped(a) /\ Saved(a) /\ NewServed(a))'
    BY <1>1 DEF Stopped, Saved, NewServed
  <1> QED BY <1>2 DEF HostInv, IdleHost

\* The host of idle actors is clean, or a program was cut short.
LEMMA IdleHas ==
  ASSUME SafeInv, \A a \in Actor : todo[a] = << >>
  PROVE  IdleHost
  <1>1. \A a \in Actor : ~Mending(a) /\ ~Between(a)
    BY DEF Mending, Between, Now, First
  <1> QED BY <1>1 DEF SafeInv, HostInv, IdleHost

LEMMA IdleStays ==
  ASSUME SafeInv, \A a \in Actor : todo[a] = << >>,
         UNCHANGED <<host, written, wrecked, flawed>>
  PROVE  IdleHost'
  BY IdleHas DEF IdleHost, NoOldCodeOnNewSchema, NothingLost, Stored, Configured, Sound,
                 host, services

LEMMA FreeIsIdle == ASSUME SafeInv, LockFree PROVE \A a \in Actor : todo[a] = << >>
  BY DEF SafeInv, ProgramInv, LockFree

\* One that has not begun, and one that has no step left.
LEMMA WaitingIsIdle ==
  ASSUME SafeInv, NEW a \in Actor, doing[a] # NoOp, todo[a] = << >>
  PROVE  \A b \in Actor : todo[b] = << >>
  BY DEF SafeInv, ProgramInv

LEMMA EmptyChain == ASSUME NEW k, NEW f PROVE Chain(<< >>, k, f)
  BY DEF Chain

LEMMA ClaimSafe == ASSUME SafeInv, NEW o \in Op, Claim(o) PROVE SafeInv'
  <1>1. \A a \in Actor : todo[a] = << >> BY FreeIsIdle DEF Claim
  <1>2. ClaimOK' BY DEF SafeInv, ClaimOK, Claim, history, Actor
  <1>3. /\ UNCHANGED <<kind, todo, failed, host, written, wrecked, flawed>>
        /\ doing' = [doing EXCEPT !["agent"] = o]
        /\ stage' = [stage EXCEPT !["agent"] = "claimed"]
        /\ LockFree /\ "agent" \in Actor
    BY DEF Claim, history, Actor
  <1>4. ProgramInv'
    <2>1. \A a \in Actor : Chain(todo'[a], KindOf(a)', failed'[a])
      BY <1>1, <1>3, EmptyChain
    <2>2. /\ doing \in [Actor -> Op \union {NoOp}]
          /\ stage \in [Actor -> {"free", "claimed", "announced", "run"}]
      BY DEF SafeInv, ClaimOK
    <2>3. ProgramInv BY DEF SafeInv
    <2> HIDE DEF SafeInv
    <2> QED BY <1>1, <1>3, <2>1, <2>2, <2>3, OperationAssumption DEF ProgramInv, LockFree
  <1>5. IdleHost' BY <1>1, <1>3, IdleStays
  <1>6. HostInv' BY <1>1, <1>3, <1>4, <1>5, Idle
  <1> QED BY <1>2, <1>4, <1>6 DEF SafeInv

LEMMA AnnounceSafe == ASSUME SafeInv, Announce PROVE SafeInv'
  <1>1. /\ UNCHANGED <<kind, receipts, doing, starts, todo, failed, host, written, wrecked,
                        flawed>>
        /\ stage' = [stage EXCEPT !["agent"] = "announced"]
        /\ stage["agent"] = "claimed" /\ "agent" \in Actor
    BY DEF Announce, history, Actor
  <1>2. ClaimOK' BY <1>1 DEF SafeInv, ClaimOK
  <1>3. ProgramInv'
    <2>1. stage \in [Actor -> {"free", "claimed", "announced", "run"}] /\ ProgramInv
      BY DEF SafeInv, ClaimOK
    <2> QED BY <1>1, <2>1 DEF ProgramInv, KindOf
  <1>4. HostInv'
    <2>1. \A a \in Actor : todo[a] = << >>
      <3>1. doing["agent"] # NoOp /\ todo["agent"] = << >>
        BY <1>1 DEF SafeInv, ProgramInv
      <3> QED BY <1>1, <3>1, WaitingIsIdle
    <2>2. IdleHost' BY <1>1, <2>1, IdleStays
    <2> QED BY <1>1, <1>3, <2>1, <2>2, Idle
  <1> QED BY <1>2, <1>3, <1>4 DEF SafeInv

\* A program is started with none running; its first step mends nothing.
LEMMA StartProgramSafe ==
  ASSUME SafeInv, NEW a \in Actor, NEW o \in Op, \A b \in Actor : todo[b] = << >>,
         StartProgram(a, o), UNCHANGED <<kind, host, written, wrecked, flawed>>,
         doing' = [doing EXCEPT ![a] = o], \A b \in Actor \ {a} : doing[b] = NoOp
  PROVE  ProgramInv' /\ HostInv'
  <1>1. /\ kind[o] \in Kind /\ o # NoOp
        /\ todo' = [todo EXCEPT ![a] = Program(kind[o])]
        /\ failed' = [failed EXCEPT ![a] = FALSE]
        /\ stage' = [stage EXCEPT ![a] = "run"]
    BY OperationAssumption DEF SafeInv, ProgramInv, StartProgram
  <1>2. /\ Program(kind[o]) \in Seq(StepName) /\ Program(kind[o]) # << >>
        /\ Chain(Program(kind[o]), kind[o], FALSE)
        /\ First(Program(kind[o])) \in {"stop", "validate", "clone", "save", "unlink", "look"}
    BY <1>1, ProgramChain
  <1>3. /\ stage \in [Actor -> {"free", "claimed", "announced", "run"}]
        /\ doing \in [Actor -> Op \union {NoOp}] /\ ProgramInv
    BY DEF SafeInv, ClaimOK
  <1>4. /\ todo'[a] = Program(kind[o]) /\ failed'[a] = FALSE /\ doing'[a] = o
        /\ stage'[a] = "run" /\ kind' = kind /\ wrecked' = wrecked /\ flawed' = flawed
        /\ todo' \in [Actor -> Seq(StepName)] /\ failed' \in [Actor -> BOOLEAN]
    BY <1>1, <1>2, <1>3 DEF ProgramInv
  <1>5. \A b \in Actor \ {a} :
            todo'[b] = << >> /\ doing'[b] = NoOp /\ stage'[b] = "free"
    BY <1>1, <1>3 DEF ProgramInv
  <1>6. ProgramInv'
    <2>1. \A b \in Actor : Chain(todo'[b], kind'[doing'[b]], failed'[b])
      <3> TAKE b \in Actor
      <3>1. CASE b = a BY <1>2, <1>4, <3>1
      <3>2. CASE b # a BY <1>5, <3>2, EmptyChain
      <3> QED BY <3>1, <3>2
    <2>2. \A b, c \in Actor : doing'[b] # NoOp /\ doing'[c] # NoOp => b = c BY <1>5
    <2>3. \A b \in Actor :
            /\ stage'[b] = "free" <=> doing'[b] = NoOp
            /\ stage'[b] # "run" => todo'[b] = << >>
      BY <1>1, <1>4, <1>5
    <2>4. kind' \in [Op -> Kind] /\ wrecked' \in BOOLEAN /\ flawed' \in BOOLEAN
      BY <1>3, <1>4 DEF ProgramInv
    <2> QED BY <1>4, <2>1, <2>2, <2>3, <2>4 DEF ProgramInv, KindOf
  <1>7. Place(a)'
    <2>1. Now(a)' = First(Program(kind[o])) BY <1>4 DEF Now
    <2>2. Stopped(a)' /\ Saved(a)' /\ NewServed(a)'
      BY <1>2, <2>1 DEF Stopped, Saved, NewServed
    <2>3. IdleHost' BY IdleStays
    <2> QED BY <2>2, <2>3 DEF Place, IdleHost, Firm
  <1> QED BY <1>1, <1>4, <1>6, <1>7, PlaceIs

LEMMA BeginSafe == ASSUME SafeInv, Begin PROVE SafeInv'
  <1> DEFINE o == doing["agent"]
  <1>1. /\ StartProgram("agent", o) /\ stage["agent"] = "announced" /\ "agent" \in Actor
        /\ UNCHANGED <<kind, receipts, doing, host, written, wrecked, flawed>>
    BY DEF Begin, Actor
  <1>2. o \in Op /\ todo["agent"] = << >> /\ o # NoOp
    BY <1>1 DEF SafeInv, ClaimOK, ProgramInv
  <1>3. \A b \in Actor : todo[b] = << >> BY <1>1, <1>2, WaitingIsIdle
  <1>4. /\ doing' = [doing EXCEPT !["agent"] = o]
        /\ \A b \in Actor \ {"agent"} : doing[b] = NoOp
    BY <1>1, <1>2 DEF SafeInv, ProgramInv, ClaimOK
  <1>5. ProgramInv' /\ HostInv' BY <1>1, <1>2, <1>3, <1>4, StartProgramSafe
  <1>6. ClaimOK'
    <2>1. /\ starts' = [starts EXCEPT ![o] = @ + 1] /\ stage' = [stage EXCEPT !["agent"] = "run"]
      BY <1>1 DEF StartProgram
    <2> QED BY <1>1, <1>2, <2>1 DEF SafeInv, ClaimOK
  <1> QED BY <1>5, <1>6 DEF SafeInv

LEMMA RunCliSafe == ASSUME SafeInv, NEW o \in Op, RunCli(o) PROVE SafeInv'
  <1>1. /\ StartProgram("cli", o) /\ LockFree /\ "cli" \in Actor /\ "agent" \in Actor
        /\ doing' = [doing EXCEPT !["cli"] = o]
        /\ UNCHANGED <<kind, receipts, host, written, wrecked, flawed>>
    BY DEF RunCli, protocol, Actor
  <1>2. \A b \in Actor : todo[b] = << >> BY <1>1, FreeIsIdle
  <1>3. ProgramInv' /\ HostInv' BY <1>1, <1>2, StartProgramSafe DEF LockFree
  <1>4. ClaimOK'
    <2>1. /\ starts' = [starts EXCEPT ![o] = @ + 1] /\ stage' = [stage EXCEPT !["cli"] = "run"]
      BY <1>1 DEF StartProgram
    <2> QED BY <1>1, <2>1 DEF SafeInv, ClaimOK
  <1> QED BY <1>3, <1>4 DEF SafeInv

\* A program ends with the host clean; one that is cut short wrecks it.
LEMMA LeaveSafe ==
  ASSUME SafeInv, NEW a \in Actor, doing[a] # NoOp, Leave(a),
         UNCHANGED <<kind, receipts, starts, host, written>>,
         wrecked' = (wrecked \/ todo[a] # << >>), flawed' = (flawed \/ todo[a] # << >>)
  PROVE  SafeInv'
  <1>1. /\ ProgramInv /\ HostInv /\ ClaimOK BY DEF SafeInv
  <1>2. /\ doing' = [doing EXCEPT ![a] = NoOp] /\ stage' = [stage EXCEPT ![a] = "free"]
        /\ todo' = [todo EXCEPT ![a] = << >>] /\ failed' = [failed EXCEPT ![a] = FALSE]
    BY DEF Leave
  <1>3. ClaimOK' BY <1>1, <1>2 DEF ClaimOK
  <1>4. \A b \in Actor : todo'[b] = << >> /\ doing'[b] = NoOp /\ stage'[b] = "free"
    BY <1>1, <1>2 DEF ProgramInv, ClaimOK
  <1>5. ProgramInv'
    <2>1. << >> \in Seq(StepName) BY EmptySeq
    <2>2. /\ todo' \in [Actor -> Seq(StepName)] /\ failed' \in [Actor -> BOOLEAN]
          /\ wrecked' \in BOOLEAN /\ flawed' \in BOOLEAN /\ kind' \in [Op -> Kind]
      BY <1>1, <1>2, <2>1 DEF ProgramInv
    <2>3. \A b \in Actor : Chain(todo'[b], kind'[doing'[b]], failed'[b])
      BY <1>4, EmptyChain
    <2> QED BY <1>4, <2>2, <2>3 DEF ProgramInv, KindOf
  <1>6. Place(a) BY <1>1, PlaceOf
  <1>7. (wrecked \/ Configured)' /\ (flawed \/ Sound)'
    <2>1. CASE todo[a] # << >> BY <2>1
    <2>2. CASE todo[a] = << >>
      <3>1. ~Mending(a) /\ ~Between(a) BY <2>2 DEF Mending, Between, Now, First
      <3> QED BY <1>6, <3>1 DEF Place, Configured, Firm, Sound, host, services
    <2> QED BY <2>1, <2>2
  <1>8. NoOldCodeOnNewSchema' /\ NothingLost' /\ Stored'
    BY <1>6 DEF Place, NoOldCodeOnNewSchema, NothingLost, Stored, host, services
  <1>9. IdleHost' BY <1>7, <1>8 DEF IdleHost
  <1> QED BY <1>3, <1>4, <1>5, <1>9, Idle DEF SafeInv

LEMMA EndSafe == ASSUME SafeInv, NEW a \in Actor, Finish(a) \/ Die(a) PROVE SafeInv'
  <1>1. CASE Finish(a)
    <2>1. doing[a] # NoOp /\ todo[a] = << >> /\ wrecked \in BOOLEAN /\ flawed \in BOOLEAN
      BY <1>1 DEF Finish, SafeInv, ProgramInv
    <2>2. Leave(a) /\ UNCHANGED <<kind, receipts, starts, host, written, wrecked, flawed>>
      BY <1>1 DEF Finish, history
    <2>3. /\ wrecked' = (wrecked \/ todo[a] # << >>)
          /\ flawed' = (flawed \/ todo[a] # << >>)
      BY <2>1, <2>2
    <2> QED BY <2>1, <2>2, <2>3, LeaveSafe
  <1>2. CASE Die(a) BY <1>2, LeaveSafe DEF Die, protocol
  <1> QED BY <1>1, <1>2

\* No program, and no part of the claim, is touched.
HostOnly == UNCHANGED <<kind, receipts, starts, doing, stage, todo, failed, wrecked>>

LEMMA HostOnlyKeeps ==
  ASSUME SafeInv, HostOnly, flawed' \in BOOLEAN
  PROVE  ClaimOK' /\ ProgramInv'
  <1>1. ClaimOK' BY DEF SafeInv, ClaimOK, HostOnly
  <1>2. ProgramInv' BY DEF SafeInv, ProgramInv, HostOnly, KindOf
  <1> QED BY <1>1, <1>2

\* Requests come and go without touching the host.
LEMMA SpoolSafe ==
  ASSUME SafeInv, HostOnly, UNCHANGED <<host, written, flawed>>
  PROVE  SafeInv'
  <1>1. ClaimOK' /\ ProgramInv' BY HostOnlyKeeps DEF SafeInv, ProgramInv
  <1>2. \A a \in Actor : Now(a)' = Now(a) /\ KindOf(a)' = KindOf(a) BY DEF HostOnly, Now, KindOf
  <1>3. \A a \in Actor : (Stopped(a) /\ Saved(a) /\ NewServed(a))'
    BY <1>2 DEF SafeInv, HostInv, Stopped, Saved, NewServed, HostOnly, host, services
  <1>4. NoOldCodeOnNewSchema' /\ NothingLost' /\ Stored'
    BY DEF SafeInv, HostInv, NoOldCodeOnNewSchema, NothingLost, Stored, host, services
  <1>5. wrecked' \/ (\E a \in Actor : Mending(a)') \/ Configured'
    BY <1>2 DEF SafeInv, HostInv, Mending, Configured, host, services, HostOnly
  <1>6. flawed' \/ (\E a \in Actor : Between(a)') \/ Sound'
    BY <1>2 DEF SafeInv, HostInv, Between, Sound, host, services
  <1> QED BY <1>1, <1>3, <1>4, <1>5, <1>6 DEF SafeInv, HostInv

\* Rows are committed only while containers run, never as a dump is loaded.
LEMMA WriteSafe == ASSUME SafeInv, NEW x \in Row, Write(x) PROVE SafeInv'
  <1>1. /\ HostOnly
        /\ writers # Down /\ rows' = rows \union {x} /\ written' = written \union {x}
        /\ UNCHANGED <<current, writers, made, asis, schema, config, archives, discarded,
                        flawed>>
    BY DEF Write, HostOnly, protocol, program, services
  <1>2. ClaimOK' /\ ProgramInv' BY <1>1, HostOnlyKeeps DEF SafeInv, ProgramInv
  <1>3. \A a \in Actor : Now(a)' = Now(a) /\ KindOf(a)' = KindOf(a)
    BY <1>1 DEF HostOnly, Now, KindOf
  <1>4. \A a \in Actor : (Stopped(a) /\ NewServed(a))'
    BY <1>1, <1>3 DEF SafeInv, HostInv, Stopped, NewServed, HostOnly
  <1>5. \A a \in Actor : Saved(a)'
    BY <1>1, <1>3 DEF SafeInv, HostInv, Stopped, Saved
  <1>6. NoOldCodeOnNewSchema' /\ NothingLost' /\ Stored'
    BY <1>1 DEF SafeInv, HostInv, NoOldCodeOnNewSchema, NothingLost, Stored
  <1>7. wrecked' \/ (\E a \in Actor : Mending(a)') \/ Configured'
    BY <1>1, <1>3 DEF SafeInv, HostInv, Mending, Configured, HostOnly
  <1>8. flawed' \/ (\E a \in Actor : Between(a)') \/ Sound'
    BY <1>1, <1>3 DEF SafeInv, HostInv, Between, Sound
  <1> QED BY <1>2, <1>4, <1>5, <1>6, <1>7, <1>8 DEF SafeInv, HostInv

\* The operator waits for the lock: no program is running.
LEMMA HandIdle ==
  ASSUME OperatorWaits = TRUE, SafeInv, HostOnly, ByHand, flawed' \in BOOLEAN, IdleHost'
  PROVE  SafeInv'
  <1>1. ClaimOK' /\ ProgramInv' BY HostOnlyKeeps
  <1>2. \A a \in Actor : todo'[a] = << >> BY FreeIsIdle DEF ByHand, HostOnly
  <1>3. HostInv' BY <1>1, <1>2, Idle
  <1> QED BY <1>1, <1>3 DEF SafeInv

LEMMA ByHandIdle ==
  ASSUME OperatorWaits = TRUE, SafeInv, ByHand
  PROVE  IdleHost /\ flawed \in BOOLEAN
  <1>1. \A a \in Actor : todo[a] = << >> BY FreeIsIdle DEF ByHand
  <1> QED BY <1>1, IdleHas DEF SafeInv, ProgramInv

\* A start that succeeds makes good what a failed program left; one that fails leaves
\* containers down, or as they were.
LEMMA HandStartSafe == ASSUME OperatorWaits = TRUE, SafeInv, HandStart PROVE SafeInv'
  <1>1. HostOnly /\ ByHand /\ written' = written
    BY DEF HandStart, HostOnly, protocol, program
  <1>2. IdleHost /\ flawed \in BOOLEAN BY <1>1, ByHandIdle
  <1>3. wrecked' = wrecked BY DEF HandStart
  <1>4. CASE Up(current) /\ flawed' = FALSE
    <2>1. IdleHost'
      BY <1>1, <1>2, <1>4 DEF IdleHost, Up, Serve, NoOldCodeOnNewSchema, NothingLost, Stored,
                              Configured, Sound
    <2> QED BY <1>1, <1>4, <2>1, HandIdle
  <1>5. CASE UpFails(current) /\ UNCHANGED flawed
    <2>1. UNCHANGED <<current, schema, rows, config, archives, discarded>>
      BY <1>5 DEF UpFails
    <2>2. UNCHANGED services => IdleHost'
      BY <1>1, <1>2, <1>3, <1>5, <2>1 DEF IdleHost, NoOldCodeOnNewSchema,
                 NothingLost, Stored, Configured, Sound, services
    <2>3. ASSUME writers' = Down, made' \in {made, [release |-> current, site |-> config]}
          PROVE  IdleHost'
      BY <1>1, <1>2, <1>5, <2>1, <2>3 DEF IdleHost, NoOldCodeOnNewSchema,
                 NothingLost, Stored, Configured, Sound
    <2>4. IdleHost' BY <1>5, <2>2, <2>3 DEF UpFails, Halt
    <2> QED BY <1>1, <1>2, <1>5, <2>4, HandIdle
  <1> QED BY <1>4, <1>5 DEF HandStart

LEMMA HandStopSafe == ASSUME OperatorWaits = TRUE, SafeInv, HandStop PROVE SafeInv'
  <1>1. /\ HostOnly /\ ByHand /\ flawed' = flawed /\ writers' = Down
        /\ UNCHANGED <<written, made, rows, schema, current, config, archives, discarded>>
    BY DEF HandStop, Halt, HostOnly, protocol, program, history
  <1>2. IdleHost /\ flawed \in BOOLEAN BY <1>1, ByHandIdle
  <1>3. IdleHost'
    BY <1>1, <1>2 DEF IdleHost, NoOldCodeOnNewSchema, NothingLost, Stored, Configured, Sound
  <1> QED BY <1>1, <1>2, <1>3, HandIdle

\* What a restart brings back ran already, is what is configured, or is the exception.
LEMMA HandRestartSafe == ASSUME OperatorWaits = TRUE, SafeInv, HandRestart PROVE SafeInv'
  <1>1. /\ HostOnly /\ ByHand /\ flawed' = flawed /\ wrecked' = wrecked
        /\ writers' = made /\ asis' = (asis \/ (writers = Down /\ flawed))
        /\ schema' = schema \/ schema' = SchemaOf[made.release]
        /\ UNCHANGED <<written, made, rows, current, config, archives, discarded>>
    BY DEF HandRestart, HostOnly, protocol, program, history
  <1>2. IdleHost /\ flawed \in BOOLEAN BY <1>1, ByHandIdle
  <1>3. NothingLost' /\ Stored' BY <1>1, <1>2 DEF IdleHost, NothingLost, Stored
  <1>4. NoOldCodeOnNewSchema' BY <1>1, <1>2 DEF IdleHost, NoOldCodeOnNewSchema, Stored, Sound
  <1>5. (wrecked \/ Configured)' BY <1>1, <1>2 DEF IdleHost, Configured, Stored, Sound
  <1>6. (flawed \/ Sound)' BY <1>1, <1>2 DEF IdleHost, Sound
  <1>7. IdleHost' BY <1>3, <1>4, <1>5, <1>6 DEF IdleHost
  <1> QED BY <1>1, <1>2, <1>7, HandIdle

LEMMA SafeInit == Init => SafeInv
  <1> SUFFICES ASSUME Init PROVE SafeInv OBVIOUS
  <1>1. ClaimOK BY OperationAssumption DEF Init, ClaimOK, Actor
  <1>2. /\ kind \in [Op -> Kind] /\ doing = [a \in Actor |-> NoOp]
        /\ stage = [a \in Actor |-> "free"] /\ todo = [a \in Actor |-> << >>]
        /\ failed = [a \in Actor |-> FALSE] /\ wrecked = FALSE /\ flawed = FALSE
    BY DEF Init
  <1>3. << >> \in Seq(StepName) BY EmptySeq
  <1>4. ProgramInv
    <2>1. \A a \in Actor : Chain(todo[a], KindOf(a), failed[a]) BY <1>2, EmptyChain
    <2> QED BY <1>2, <1>3, <2>1 DEF ProgramInv
  <1>5. \A a \in Actor : Now(a) = "end" BY <1>2 DEF Now, First
  <1>6. \A a \in Actor : Stopped(a) /\ Saved(a) /\ NewServed(a)
    BY <1>5 DEF Stopped, Saved, NewServed
  <1>7. NoOldCodeOnNewSchema /\ NothingLost /\ Configured /\ Stored /\ Sound
    BY DEF Init, NoOldCodeOnNewSchema, NothingLost, Configured, Stored, Sound
  <1> QED BY <1>1, <1>4, <1>6, <1>7 DEF SafeInv, HostInv

LEMMA SafeNext == ASSUME OperatorWaits = TRUE, SafeInv, [Next]_vars PROVE SafeInv'
  <1>1. CASE \E o \in Op : Request(o) \/ Resend(o) \/ Answered(o) \/ Reject(o)
    <2>1. HostOnly /\ UNCHANGED <<host, written, flawed>>
      BY <1>1 DEF Request, Resend, Answered, Reject, HostOnly, program, history
    <2> QED BY <2>1, SpoolSafe
  <1>2. CASE UNCHANGED vars
    <2>1. HostOnly /\ UNCHANGED <<host, written, flawed>>
      BY <1>2 DEF vars, HostOnly, protocol, program, history
    <2> QED BY <2>1, SpoolSafe
  <1>3. CASE \E o \in Op : RunCli(o) BY <1>3, RunCliSafe
  <1>4. CASE \E o \in Op : Claim(o) BY <1>4, ClaimSafe
  <1>5. CASE AgentStep BY <1>5, AnnounceSafe, BeginSafe DEF AgentStep
  <1>6. CASE \E a \in Actor : Work(a) BY <1>6, WorkSafe
  <1>7. CASE \E a \in Actor : Finish(a) \/ Die(a) BY <1>7, EndSafe
  <1>8. CASE \E x \in Row : Write(x) BY <1>8, WriteSafe
  <1>9. CASE HandStart \/ HandStop \/ HandRestart
    BY <1>9, HandStartSafe, HandStopSafe, HandRestartSafe
  <1> QED BY <1>1, <1>2, <1>3, <1>4, <1>5, <1>6, <1>7, <1>8, <1>9
          DEF Next, TakeRequest, Step, Work

\* The programs run in their order, one at a time, and the host is where the step
\* they are at says it is, wherever they fail or die.
THEOREM ProgramsHold == ASSUME OperatorWaits = TRUE PROVE Spec => []SafeInv
  BY SafeInit, SafeNext, PTL DEF Spec

\* No step of a program and no start by hand leaves containers on a schema that is not
\* their release's (docs/operations.md); only a restart by hand of containers that a
\* failed program left stopped can.
THEOREM SchemasMatch == ASSUME OperatorWaits = TRUE PROVE Spec => []NoOldCodeOnNewSchema
  <1>1. SafeInv => NoOldCodeOnNewSchema BY DEF SafeInv, HostInv
  <1> QED BY <1>1, ProgramsHold, PTL

\* Whatever fails, no committed row leaves both the database and the backups, but with
\* a backup deleted on purpose (backups.restore, operations.update).
THEOREM RowsAreKept == ASSUME OperatorWaits = TRUE PROVE Spec => []NothingLost
  <1>1. SafeInv => NothingLost BY DEF SafeInv, HostInv
  <1> QED BY <1>1, ProgramsHold, PTL

\* When the lock is free and no program was cut short, the containers that run are
\* those configured (the except and finally clauses of operations and backups), unless
\* they were restarted by hand after a program had failed.
THEOREM EndsClean == ASSUME OperatorWaits = TRUE PROVE Spec => []QuietIsClean
  <1>1. ASSUME SafeInv, LockFree, ~wrecked, ~asis
        PROVE  writers \in {Down, [release |-> current, site |-> config]}
    <2>1. \A a \in Actor : todo[a] = << >> BY <1>1, FreeIsIdle
    <2> QED BY <1>1, <2>1, IdleHas DEF IdleHost, Configured
  <1>2. SafeInv => QuietIsClean BY <1>1 DEF QuietIsClean
  <1> QED BY <1>2, ProgramsHold, PTL
=============================================================================

-------------------------- MODULE FlowContractProofs --------------------------
(***************************************************************************)
(* What a step of FlowDelivery does to the rows of a flow, for every number of  *)
(* workers, flows and deaths, and what follows: its actions run in order, no    *)
(* progress is taken back, its reply keeps the contract of ReplyContract, what   *)
(* is reported as sent was accepted, and notes are written once.              *)
(***************************************************************************)
EXTENDS FlowDeliveryProofs

\* The action the loop stands at, as the rows tell it.
First(f, p) ==
    /\ p \in Steps(f) /\ act[f][p] \notin ActDone
    /\ \A q \in Steps(f) : act[f][q] \notin ActDone => p <= q

Kept(f) == act'[f] = act[f] /\ delivered'[f] = delivered[f]
Taken(f) ==
    /\ act'[f] = act[f] /\ delivered[f] = 0 /\ delivered'[f] = 1
    /\ \E p \in Sends(f) : act[f][p] = "sending"
Moved(f, p, s) ==
    /\ First(f, p)
    /\ act'[f] = [act[f] EXCEPT ![p] = s] /\ delivered'[f] = delivered[f]
    /\ \/ act[f][p] = "pending" /\ p \notin Sends(f) /\ s = "complete"
       \/ act[f][p] = "pending" /\ p \in Sends(f) /\ s = "sending"
       \/ act[f][p] = "sending" /\ delivered[f] = 1 /\ s = "sent"
       \/ act[f][p] \in {"pending", "sending"} /\ delivered[f] = 0 /\ s = "pending"
Halted(f, p, s) ==
    /\ First(f, p) /\ act[f][p] \in {"pending", "sending"}
    /\ act'[f] = [q \in Position |->
                    IF q = p THEN s ELSE IF act[f][q] = "pending" THEN "skipped" ELSE act[f][q]]
    /\ delivered'[f] = delivered[f]
    /\ s = "unknown" \/ (s = "failed" /\ delivered[f] = 0)
Doubted(f) ==
    /\ act'[f] = [p \in Position |-> IF act[f][p] = "sending" THEN "unknown" ELSE act[f][p]]
    /\ delivered'[f] = delivered[f]

RowStep(f) ==
    \/ Kept(f) \/ Taken(f) \/ Doubted(f)
    \/ \E p, s : Moved(f, p, s) \/ Halted(f, p, s)

\* An execution that is settled is only ever made unknown.
ExecStep(f) == exec'[f] = exec[f] \/ exec[f] \in ExecActive \/ exec'[f] = "unknown"

\* A lead is worked on for an action that is no send.
LeadInv == \A w \in Worker : pc[w] = "lead" => \A p \in Sends(flow[w]) : ~Current(w, p)

LEMMA CurrentIsFirst ==
    ASSUME DeliveryInv, NEW w \in Worker, pc[w] \in Working, NEW p, Current(w, p),
           NEW f \in Flow, flow[w] = f
    PROVE  First(f, p)
  BY OwnFlow DEF Working, WorkerInv, Current, First

LEMMA ReadStep ==
    ASSUME DeliveryInv, NEW w \in Worker, NEW f \in Flow, flow[w] = f,
           LoadExecution(w) \/ FetchLead(w) \/ LockAccount(w) \/ Receive(w)
              \/ PostPublicReply(w) \/ FinishFlow(w) \/ CompleteJob(w) \/ Crash(w)
    PROVE  RowStep(f) /\ ExecStep(f)
  <1>1. act' = act /\ delivered' = delivered
    BY DEF LoadExecution, FetchLead, LockAccount, Receive, PostPublicReply, FinishFlow,
           CompleteJob, Crash, database, remote
  <1>2. \/ exec' = exec
        \/ pc[w] \in {"lock", "run"}
    BY DEF LoadExecution, FetchLead, LockAccount, Receive, PostPublicReply, FinishFlow,
           CompleteJob, Crash, database
  <1>3. pc[w] \in {"lock", "run"} => exec[f] \in ExecActive
    BY OwnFlow DEF WorkerInv, Working
  <1> QED
    BY <1>1, <1>2, <1>3 DEF RowStep, Kept, ExecStep

LEMMA StopStep ==
    ASSUME DeliveryInv, NEW w \in Worker, NEW f \in Flow, flow[w] = f, pc[w] \in Working,
           NEW p, Current(w, p), NEW s, Stop(w, p, s), delivered' = delivered,
           s = "unknown" \/ (s = "failed" /\ delivered[f] = 0)
    PROVE  RowStep(f) /\ ExecStep(f)
  <1>1. First(f, p) /\ p \in Position
    BY CurrentIsFirst, StepsAreNat DEF First
  <1>2. exec[f] \in ExecActive
    BY OwnFlow DEF WorkerInv, Working
  <1>3. act[f][p] \in {"pending", "sending"}
    BY <1>1, <1>2, OwnFlow DEF First, FlowInv, Working
  <1>4. Halted(f, p, s)
    BY <1>1, <1>3, StopWrites DEF Halted
  <1> QED
    BY <1>2, <1>4 DEF RowStep, ExecStep

LEMMA ParkStep ==
    ASSUME DeliveryInv, NEW w \in Worker, NEW f \in Flow, flow[w] = f, pc[w] \in Working,
           NEW p, Current(w, p), NEW s, Park(w, p, s) \/ ActionCommit(w, p, s),
           delivered' = delivered,
           \/ act[f][p] = "pending" /\ p \notin Sends(f) /\ s = "complete"
           \/ act[f][p] = "sending" /\ delivered[f] = 1 /\ s = "sent"
           \/ act[f][p] \in {"pending", "sending"} /\ delivered[f] = 0 /\ s = "pending"
    PROVE  RowStep(f) /\ ExecStep(f)
  <1>1. First(f, p) /\ p \in Position
    BY CurrentIsFirst, StepsAreNat DEF First
  <1>2. exec[f] \in ExecActive
    BY OwnFlow DEF WorkerInv, Working
  <1>3. act'[f] = [act[f] EXCEPT ![p] = s]
    BY <1>1, ParkWrites, ActionCommitWrites
  <1>4. Moved(f, p, s)
    BY <1>1, <1>3 DEF Moved
  <1> QED
    BY <1>2, <1>4 DEF RowStep, ExecStep

\* The loop, up to the send.
LEMMA LoopStep ==
    ASSUME DeliveryInv, LeadInv, NEW w \in Worker, NEW f \in Flow, flow[w] = f,
           Delay(w) \/ ZeroDelay(w) \/ ApplyLead(w) \/ FoundSending(w)
    PROVE  RowStep(f) /\ ExecStep(f)
  <1>1. pc[w] \in {"run", "lead"} /\ pc[w] \in Working /\ delivered' = delivered
    BY DEF Delay, ZeroDelay, ApplyLead, FoundSending, remote, Working
  <1>2. ASSUME NEW p \in Position, At(w, p, "DELAY") \/ At(w, p, "NODELAY")
        PROVE  Current(w, p) /\ act[f][p] = "pending" /\ p \notin Sends(f)
    BY <1>1, <1>2, ReachedIsPending DEF At, Sends
  <1>3. CASE Delay(w)
    BY <1>1, <1>2, <1>3, ParkStep DEF Delay
  <1>4. CASE ZeroDelay(w)
    BY <1>1, <1>2, <1>4, ParkStep DEF ZeroDelay
  <1>5. CASE ApplyLead(w)
    <2>1. pc[w] = "lead" /\ ses[w].act = act[f] /\ Busy(w) /\ exec[f] \in ExecActive
      BY <1>5, OwnFlow DEF ApplyLead, WorkerInv, Working
    <2>2. PICK p \in Position : Current(w, p) /\ WriteAct(w, p, "complete")
      BY <1>5 DEF ApplyLead
    <2>3. act'[f] = [act[f] EXCEPT ![p] = "complete"]
      BY <2>1, <2>2, WriteActWrites
    <2>4. act[f][p] = "pending" /\ p \notin Sends(f)
      BY <2>1, <2>2, ReachedIsPending DEF LeadInv
    <2>5. Moved(f, p, "complete")
      BY <1>1, <2>2, <2>3, <2>4, CurrentIsFirst DEF Moved
    <2> QED
      BY <2>1, <2>5 DEF RowStep, ExecStep
  <1>6. CASE FoundSending(w)
    BY <1>1, <1>6, StopStep DEF FoundSending
  <1> QED
    BY <1>3, <1>4, <1>5, <1>6

\* The checks before the send, and the provider's refusals and doubts.
LEMMA AnswerStep ==
    ASSUME DeliveryInv, NEW w \in Worker, NEW f \in Flow, flow[w] = f,
           Recheck(w) \/ WindowThrottled(w) \/ WindowRefused(w) \/ TimeOut(w) \/ Reject(w)
              \/ Throttle(w)
    PROVE  RowStep(f) /\ ExecStep(f)
  <1>1. pc[w] \in {"run", "checked", "inflight", "accepted"} /\ delivered' = delivered
    BY DEF Recheck, WindowThrottled, WindowRefused, TimeOut, Reject, Throttle, remote
  <1>2. pc[w] \in Working
    BY <1>1 DEF Working
  <1>3. CASE Recheck(w)
    <2>1. CASE act' = act /\ exec' = exec
      BY <1>1, <2>1 DEF RowStep, Kept, ExecStep
    <2>2. CASE \E p \in Position : At(w, p, "SEND") /\ Stop(w, p, "failed")
      <3>1. PICK p \in Position : Current(w, p) /\ Program[f][p] = "SEND" /\ Stop(w, p, "failed")
        BY <2>2 DEF At
      <3>2. p \in Sends(f) /\ pc[w] = "run"
        BY <1>3, <3>1 DEF Current, Sends, Recheck
      <3>3. delivered[f] = 0
        BY <3>1, <3>2, ReachedIsPending
      <3> QED
        BY <1>1, <1>2, <3>1, <3>3, StopStep
    <2> QED
      BY <1>3, <2>1, <2>2 DEF Recheck
  <1>4. CASE WindowThrottled(w) \/ WindowRefused(w) \/ Reject(w) \/ Throttle(w)
    <2>1. pc[w] \in {"checked", "inflight"}
      BY <1>4 DEF WindowThrottled, WindowRefused, Reject, Throttle
    <2>2. PICK p \in Position :
            Current(w, p) /\ (Stop(w, p, "failed") \/ Park(w, p, "pending"))
      BY <1>4 DEF WindowThrottled, WindowRefused, Reject, Throttle, BackOff, Refused
    <2>3. delivered[f] = 0
      BY <2>1, NothingYet
    <2>4. act[f][p] \in {"pending", "sending"}
      <3>1. CASE pc[w] = "checked"
        BY <2>2, <3>1, ReachedIsPending
      <3>2. CASE pc[w] = "inflight"
        BY <2>2, <3>2, CurrentIsSend, OwnFlow DEF WorkerInv, Calling
      <3> QED
        BY <2>1, <3>1, <3>2
    <2> QED
      BY <1>1, <1>2, <2>2, <2>3, <2>4, StopStep, ParkStep
  <1>5. CASE TimeOut(w)
    BY <1>1, <1>2, <1>5, StopStep DEF TimeOut
  <1> QED
    BY <1>3, <1>4, <1>5

\* The send: its marker, the provider's acceptance and its record.
LEMMA SendStep ==
    ASSUME DeliveryInv, NEW w \in Worker, NEW f \in Flow, flow[w] = f,
           MarkSending(w) \/ Accept(w) \/ RecordSent(w)
    PROVE  RowStep(f) /\ ExecStep(f)
  <1>1. /\ pc[w] \in {"checked", "inflight", "record"} /\ Busy(w) /\ WorkerInv(w)
        /\ pc[w] \in Working
    BY OwnFlow DEF MarkSending, Accept, RecordSent, Working
  <1>2. exec[f] \in ExecActive /\ ses[w].act = act[f]
    BY <1>1 DEF WorkerInv, Working
  <1>3. CASE MarkSending(w)
    <2>1. PICK p \in Position : Current(w, p) /\ WriteAct(w, p, "sending")
      BY <1>3 DEF MarkSending
    <2>2. pc[w] = "checked" /\ delivered' = delivered
      BY <1>3 DEF MarkSending, remote
    <2>3. p \in Sends(f) /\ act[f][p] = "pending"
      BY <2>1, <2>2, CurrentIsSend, ReachedIsPending
    <2>4. act'[f] = [act[f] EXCEPT ![p] = "sending"]
      BY <1>1, <1>2, <2>1, WriteActWrites
    <2>5. Moved(f, p, "sending")
      BY <1>1, <2>1, <2>2, <2>3, <2>4, CurrentIsFirst DEF Moved
    <2> QED
      BY <1>2, <2>5 DEF RowStep, ExecStep
  <1>4. CASE Accept(w)
    <2>1. /\ pc[w] = "inflight" /\ delivered' = [delivered EXCEPT ![f] = @ + 1]
          /\ act' = act /\ exec' = exec
      BY <1>4 DEF Accept, database
    <2>2. delivered[f] = 0 /\ \E p \in Sends(f) : act[f][p] = "sending"
      BY <1>1, <2>1 DEF WorkerInv, Calling
    <2>3. delivered'[f] = 1
      BY <2>1, <2>2 DEF DeliveryInv, TypeOK
    <2>4. Taken(f)
      BY <2>1, <2>2, <2>3 DEF Taken
    <2> QED
      BY <2>1, <2>4 DEF RowStep, ExecStep
  <1>5. CASE RecordSent(w)
    <2>1. PICK p \in Position : Current(w, p) /\ ActionCommit(w, p, "sent")
      BY <1>5 DEF RecordSent
    <2>2. pc[w] = "record" /\ delivered' = delivered
      BY <1>5 DEF RecordSent, remote
    <2>3. p \in Sends(f)
      BY <2>1, <2>2, CurrentIsSend DEF Calling
    <2>4. act[f][p] = "sending" /\ delivered[f] = 1
      BY <1>1, <2>2, <2>3 DEF WorkerInv, Calling
    <2> QED
      BY <1>1, <2>1, <2>2, <2>4, ParkStep
  <1> QED
    BY <1>3, <1>4, <1>5

LEMMA DoubtStep ==
    ASSUME TypeOK, NEW f \in Flow, Uncertain(f), delivered' = delivered
    PROVE  RowStep(f) /\ ExecStep(f)
  <1>1. act'[f] = [p \in Position |-> IF act[f][p] = "sending" THEN "unknown" ELSE act[f][p]]
    BY DEF Uncertain, TypeOK
  <1>2. exec'[f] = "unknown"
    BY DEF Uncertain, TypeOK
  <1> QED
    BY <1>1, <1>2 DEF RowStep, Doubted, ExecStep

\* Every step is one of these for every flow.
LEMMA StepOnRows ==
    ASSUME DeliveryInv, LeadInv, [Next]_vars, NEW f \in Flow
    PROVE  RowStep(f) /\ ExecStep(f)
  <1>0. TypeOK
    BY DEF DeliveryInv
  <1>1. ASSUME Apart(f) PROVE RowStep(f) /\ ExecStep(f)
    BY <1>1 DEF Apart, RowStep, Kept, ExecStep
  <1>2. ASSUME NEW w \in Worker, Raise(w) \/ LeadTaken(w) PROVE RowStep(f) /\ ExecStep(f)
    <2>1. Raise(w)
      BY <1>2 DEF LeadTaken
    <2>2. CASE flow[w] = f
      BY <1>0, <2>1, <2>2, DoubtStep DEF Raise, remote
    <2>3. CASE flow[w] # f
      BY <1>0, <1>1, <2>1, <2>3, CallApart
    <2> QED
      BY <2>2, <2>3
  <1>3. ASSUME NEW w \in Worker, Handle(w) \/ Crash(w) PROVE RowStep(f) /\ ExecStep(f)
    <2>1. CASE flow[w] = f
      BY <1>2, <1>3, <2>1, ReadStep, LoopStep, AnswerStep, SendStep DEF Handle
    <2>2. CASE flow[w] # f
      BY <1>0, <1>1, <1>2, <1>3, <2>2, LoopApart, CallApart DEF Handle
    <2> QED
      BY <2>1, <2>2
  <1>4. ASSUME NEW w \in Worker, Poll(w) PROVE RowStep(f) /\ ExecStep(f)
    <2>1. PICK g \in Flow : Claim(w, g) \/ RecoverSending(w, g) \/ RecoverIdle(w, g)
      BY <1>4 DEF Poll
    <2>2. CASE RecoverSending(w, g) /\ f = g
      BY <1>0, <2>2, DoubtStep DEF RecoverSending, remote
    <2>3. CASE RecoverSending(w, g) /\ f # g
      BY <1>0, <2>3 DEF RecoverSending, Uncertain, remote, TypeOK, RowStep, Kept, ExecStep
    <2>4. CASE Claim(w, g) \/ RecoverIdle(w, g)
      BY <2>4 DEF Claim, RecoverIdle, remote, RowStep, Kept, ExecStep
    <2> QED
      BY <2>1, <2>2, <2>3, <2>4
  <1>5. CASE UNCHANGED vars \/ \E s \in Source : SetSource(s)
    BY <1>5 DEF vars, SetSource, database, remote, RowStep, Kept, ExecStep
  <1> QED
    BY <1>2, <1>3, <1>4, <1>5 DEF Next

\* What the pieces of a commit do to the workers.
LEMMA PiecesMove ==
    ASSUME TypeOK, NEW w \in Worker
    PROVE  /\ \A stage : Goto(w, stage) /\ ses' = ses => OtherWorkers(w) /\ pc'[w] = stage
           /\ \A stage, e, a, n : Goto(w, stage) /\ Remember(w, e, a, n) =>
                OtherWorkers(w) /\ pc'[w] = stage
           /\ \A stage, e, a, l : Goto(w, stage) /\ RememberLead(w, e, a, l) =>
                OtherWorkers(w) /\ pc'[w] = stage
           /\ Drop(w) => OtherWorkers(w) /\ pc'[w] = "idle"
           /\ \A p, s : ActionCommit(w, p, s) => OtherWorkers(w) /\ pc'[w] = "run"
           /\ \A p, s : Stop(w, p, s) => OtherWorkers(w) /\ pc'[w] = "finish"
           /\ \A p, s : Park(w, p, s) => OtherWorkers(w) /\ pc'[w] = "idle"
  <1>1. ASSUME NEW stage, Goto(w, stage), ses' = ses PROVE OtherWorkers(w) /\ pc'[w] = stage
    BY <1>1 DEF Goto, OtherWorkers, TypeOK
  <1>2. ASSUME NEW stage, Goto(w, stage), NEW e, NEW a, NEW n, Remember(w, e, a, n)
        PROVE  OtherWorkers(w) /\ pc'[w] = stage
    BY <1>2 DEF Goto, Remember, OtherWorkers, TypeOK
  <1>3. ASSUME NEW stage, Goto(w, stage), NEW e, NEW a, NEW l, RememberLead(w, e, a, l)
        PROVE  OtherWorkers(w) /\ pc'[w] = stage
    BY <1>3 DEF Goto, RememberLead, OtherWorkers, TypeOK
  <1>4. Drop(w) => OtherWorkers(w) /\ pc'[w] = "idle"
    BY DEF Drop, OtherWorkers, TypeOK
  <1> QED
    BY <1>1, <1>2, <1>3, <1>4 DEF ActionCommit, Stop, Park

\* A step moves one worker; only FetchLead takes it to the lead, and only an accepted
\* call to the stages after it.
LEMMA WorkerMoves ==
    ASSUME TypeOK, NEW w \in Worker, Handle(w) \/ Raise(w) \/ Poll(w) \/ Crash(w)
    PROVE  /\ OtherWorkers(w)
           /\ pc'[w] # "lead" \/ UNCHANGED worker \/ FetchLead(w)
           /\ \/ pc'[w] \notin {"accepted", "reply", "record"}
              \/ Accept(w) \/ Receive(w) \/ PostPublicReply(w)
  <1> USE PiecesMove
  <1>1. CASE LoadExecution(w) \/ LockAccount(w)
    BY <1>1 DEF LoadExecution, LockAccount
  <1>2. CASE FoundSending(w) \/ Delay(w) \/ ZeroDelay(w)
    BY <1>2 DEF FoundSending, Delay, ZeroDelay
  <1>3. CASE FetchLead(w)
    BY <1>3 DEF FetchLead
  <1>4. CASE ApplyLead(w)
    <2>1. \E e, a, l : Goto(w, "run") /\ RememberLead(w, e, a, l)
      BY <1>4 DEF ApplyLead
    <2> QED
      BY <2>1
  <1>5. CASE Recheck(w) \/ WindowThrottled(w) \/ WindowRefused(w)
    BY <1>5 DEF Recheck, WindowThrottled, WindowRefused, BackOff, Refused
  <1>6. CASE MarkSending(w)
    BY <1>6 DEF MarkSending
  <1>7. CASE Accept(w) \/ Receive(w) \/ PostPublicReply(w)
    BY <1>7 DEF Accept, Receive, PostPublicReply
  <1>8. CASE TimeOut(w) \/ Reject(w) \/ Throttle(w)
    BY <1>8 DEF TimeOut, Reject, Throttle, BackOff, Refused
  <1>9. CASE RecordSent(w) \/ FinishFlow(w) \/ CompleteJob(w)
    BY <1>9 DEF RecordSent, FinishFlow, CompleteJob
  <1>10. CASE Raise(w) \/ LeadTaken(w) \/ Crash(w)
    BY <1>10 DEF Raise, LeadTaken, Crash
  <1>11. CASE Poll(w)
    <2>1. PICK f \in Flow : Claim(w, f) \/ RecoverSending(w, f) \/ RecoverIdle(w, f)
      BY <1>11 DEF Poll
    <2>2. CASE Claim(w, f)
      BY <2>2 DEF Claim, OtherWorkers, TypeOK
    <2> QED
      BY <2>1, <2>2 DEF RecoverSending, RecoverIdle, OtherWorkers, worker
  <1> QED
    BY <1>1, <1>2, <1>3, <1>4, <1>5, <1>6, <1>7, <1>8, <1>9, <1>10, <1>11 DEF Handle

\* A worker goes for a lead only for an action that is none of its sends.
LEMMA LeadKept ==
    ASSUME TypeOK, LeadInv, [Next]_vars PROVE LeadInv'
  <1> SUFFICES ASSUME NEW v \in Worker, pc'[v] = "lead"
               PROVE  \A p : Current(v, p)' => p \notin Sends(flow'[v])
    BY DEF LeadInv, Sends, Steps
  <1>1. CASE pc'[v] = pc[v] /\ flow'[v] = flow[v] /\ ses'[v] = ses[v]
    BY <1>1 DEF LeadInv, Current
  <1>2. CASE FetchLead(v)
    <2>1. PICK p \in Position : At(v, p, "NOTE") \/ At(v, p, "LEAD")
      BY <1>2 DEF FetchLead
    <2>2. Busy(v) /\ flow[v] \in Flow
      BY <1>2 DEF FetchLead, Busy, TypeOK
    <2>3. flow' = flow /\ ses'[v].act = ses[v].act
      BY <1>2, <2>2 DEF FetchLead, RememberLead, Goto, Busy, TypeOK
    <2>4. ASSUME NEW q, Current(v, q)' PROVE q \notin Sends(flow[v])
      <3>1. Current(v, q)
        BY <2>3, <2>4 DEF Current
      <3>2. q = p
        BY <2>1, <2>2, <3>1, CurrentIsOne DEF At
      <3> QED
        BY <2>1, <3>2 DEF At, Sends
    <2> QED
      BY <2>3, <2>4
  <1>3. ASSUME NEW w \in Worker, Handle(w) \/ Raise(w) \/ Poll(w) \/ Crash(w)
        PROVE  \/ pc'[v] = pc[v] /\ flow'[v] = flow[v] /\ ses'[v] = ses[v]
               \/ FetchLead(v)
    BY <1>3, WorkerMoves DEF OtherWorkers, worker
  <1>4. CASE UNCHANGED vars \/ \E s \in Source : SetSource(s)
    BY <1>1, <1>4 DEF vars, SetSource, worker
  <1> QED
    BY <1>1, <1>2, <1>3, <1>4 DEF Next

THEOREM LeadInductive == Spec => []LeadInv
  <1>1. Init => LeadInv
    BY DEF Init, LeadInv
  <1>2. TypeOK /\ LeadInv /\ [Next]_vars => LeadInv'
    BY LeadKept
  <1> QED
    BY <1>1, <1>2, TypeCorrect, PTL DEF Spec

-----------------------------------------------------------------------------
LEMMA OrderInit == Init => EffectsInOrder
  BY StepsAreNat DEF Init, EffectsInOrder, ActDone

LEMMA OrderKept ==
    ASSUME DeliveryInv, EffectsInOrder, NEW f \in Flow, RowStep(f),
           NEW p \in Steps(f), NEW q \in Steps(f), p < q,
           act'[f][q] \in ActDone \cup {"sending", "unknown", "failed"}
    PROVE  act'[f][p] \in ActDone
  <1> DEFINE Effect_ == ActDone \cup {"sending", "unknown", "failed"}
  <1>1. /\ act[f][q] \in Effect_ => act[f][p] \in ActDone
        /\ p \in Position /\ q \in Position /\ act[f] \in [Position -> ActStatus]
        /\ p \in Nat /\ q \in Nat
    BY StepsAreNat DEF EffectsInOrder, DeliveryInv, TypeOK
  <1>2. CASE Kept(f) \/ Taken(f)
    BY <1>1, <1>2 DEF Kept, Taken
  <1>3. CASE Doubted(f)
    BY <1>1, <1>3 DEF Doubted, ActDone
  <1>4. ASSUME NEW r, First(f, r), NEW s, act'[f][r] = s,
               \/ \A o \in Position \ {r} : act'[f][o] = act[f][o]
               \/ \A o \in Position \ {r} :
                    act'[f][o] = IF act[f][o] = "pending" THEN "skipped" ELSE act[f][o]
        PROVE  act'[f][p] \in ActDone
    <2>1. r \in Steps(f) /\ r \in Nat /\ r \in Position /\ act[f][r] \notin ActDone
      BY <1>4, StepsAreNat DEF First
    <2>2. act[f][p] \notin ActDone => r <= p
      BY <1>4 DEF First
    <2>3. CASE q = r
      BY <1>1, <1>4, <2>1, <2>2, <2>3 DEF ActDone
    <2>4. CASE q # r
      <3>1. act[f][q] \in Effect_
        BY <1>1, <1>4, <2>4 DEF ActDone
      <3>2. act[f][p] \in ActDone /\ p # r
        BY <1>1, <2>1, <3>1
      <3> QED
        BY <1>1, <1>4, <3>2 DEF ActDone
    <2> QED
      BY <2>3, <2>4
  <1>5. ASSUME NEW r, NEW s, Moved(f, r, s) PROVE act'[f][p] \in ActDone
    <2>1. First(f, r) /\ r \in Position
      BY <1>5, StepsAreNat DEF Moved, First
    <2> QED
      BY <1>1, <1>4, <1>5, <2>1 DEF Moved
  <1>6. ASSUME NEW r, NEW s, Halted(f, r, s) PROVE act'[f][p] \in ActDone
    <2>1. First(f, r) /\ r \in Position
      BY <1>6, StepsAreNat DEF Halted, First
    <2> QED
      BY <1>1, <1>4, <1>6, <2>1 DEF Halted
  <1> QED
    BY <1>2, <1>3, <1>5, <1>6 DEF RowStep

\* The actions of a flow take effect in order, and none takes effect after one that
\* failed, was skipped or is in doubt (flows.run_flow).
THEOREM ActionsInOrder ==
    ASSUME LeaseOutlivesWork PROVE Spec => []EffectsInOrder
  <1>1. DeliveryInv /\ LeadInv /\ EffectsInOrder /\ [Next]_vars => EffectsInOrder'
    <2> SUFFICES ASSUME DeliveryInv, LeadInv, EffectsInOrder, [Next]_vars
                 PROVE  EffectsInOrder'
      OBVIOUS
    <2> SUFFICES ASSUME NEW f \in Flow, NEW p \in Steps(f), NEW q \in Steps(f), p < q,
                        act'[f][q] \in ActDone \cup {"sending", "unknown", "failed"}
                 PROVE  act'[f][p] \in ActDone
      BY DEF EffectsInOrder, Steps
    <2> QED
      BY StepOnRows, OrderKept
  <1> QED
    BY <1>1, OrderInit, Inductive, LeadInductive, PTL DEF Spec

\* What a flow has done stays done, and a settled execution is not reopened
\* (flows.run_flow, worker.run_one and worker.recover_stale).
THEOREM ProgressKept ==
    ASSUME LeaseOutlivesWork PROVE Spec => ProgressIsKept
  <1>1. ASSUME DeliveryInv, LeadInv, [Next]_vars, NEW f \in Flow
        PROVE  /\ \A p \in Steps(f) : act[f][p] \in ActDone => act'[f][p] = act[f][p]
               /\ exec[f] \notin ExecActive => exec'[f] \in {exec[f], "unknown"}
    <2>1. RowStep(f) /\ ExecStep(f) /\ act[f] \in [Position -> ActStatus]
      BY <1>1, StepOnRows DEF DeliveryInv, TypeOK
    <2>2. ASSUME NEW p \in Steps(f), act[f][p] \in ActDone PROVE act'[f][p] = act[f][p]
      <3>1. p \in Position /\ act[f][p] \notin {"sending", "pending"}
        BY <2>2, StepsAreNat DEF ActDone
      <3>2. \A r : First(f, r) => r # p
        BY <2>2 DEF First
      <3> QED
        BY <2>1, <3>1, <3>2 DEF RowStep, Kept, Taken, Doubted, Moved, Halted
    <2> QED
      BY <2>1, <2>2 DEF ExecStep
  <1>2. DeliveryInv /\ LeadInv /\ [Next]_vars =>
          [\A f \in Flow :
             /\ \A p \in Steps(f) : act[f][p] \in ActDone => act'[f][p] = act[f][p]
             /\ exec[f] \notin ExecActive => exec'[f] \in {exec[f], "unknown"}]_vars
    BY <1>1
  <1> QED
    BY <1>2, Inductive, LeadInductive, PTL DEF Spec, ProgressIsKept

-----------------------------------------------------------------------------
(* The reply of a flow implements ReplyContract. *)

\* What the contract sees of one flow's step.
ReplyStep(f) ==
    \/ Phase(f)' = Phase(f) /\ delivered'[f] = delivered[f]
    \/ Phase(f) = "attempting" /\ Phase(f)' = Phase(f) /\ delivered[f] = 0 /\ delivered'[f] = 1
    \/ /\ delivered'[f] = delivered[f]
       /\ \/ Phase(f) = "waiting" /\ delivered[f] = 0 /\ Phase(f)' = "attempting"
          \/ Phase(f) = "attempting" /\ delivered[f] = 0 /\ Phase(f)' = "waiting"
          \/ Phase(f) = "attempting" /\ delivered[f] = 1 /\ Phase(f)' = "sent"
          \/ Phase(f) \in {"waiting", "attempting"} /\ Phase(f)' = "unknown"
          \/ Phase(f) = "attempting" /\ delivered[f] = 0 /\ Phase(f)' = "failed"
          \/ Phase(f) = "waiting" /\ delivered[f] = 0 /\ Phase(f)' \in {"failed", "abandoned"}

LEMMA RowsAsReply ==
    ASSUME DeliveryInv, NEW f \in Flow, RowStep(f) PROVE ReplyStep(f)
  <1>1. FlowInv(f) /\ act[f] \in [Position -> ActStatus]
    BY DEF DeliveryInv, TypeOK
  <1>2. CASE Sends(f) = {}
    <2>1. SendStatus(f) = "absent" /\ SendStatus(f)' = "absent" /\ ~Taken(f)
      BY <1>2 DEF SendStatus, Taken, Sends, Steps
    <2>2. delivered'[f] = delivered[f]
      BY <2>1 DEF RowStep, Kept, Doubted, Moved, Halted
    <2> QED
      BY <2>1, <2>2 DEF ReplyStep, Phase
  <1>3. ASSUME NEW p \in Sends(f) PROVE ReplyStep(f)
    <2>1. /\ SendStatus(f) = act[f][p] /\ SendStatus(f)' = act'[f][p]
          /\ p \in Position /\ \A q \in Sends(f) : q = p
      BY <1>3, SendIsOne, StepsAreNat DEF SendStatus, Sends, Steps
    <2>2. act[f][p] \in {"pending", "skipped", "failed"} => delivered[f] = 0
      BY <1>1, <2>1 DEF FlowInv
    <2>3. CASE Kept(f) \/ Taken(f)
      BY <2>1, <2>3 DEF Kept, Taken, ReplyStep, Phase
    <2>4. CASE Doubted(f)
      BY <2>1, <2>4 DEF Doubted, ReplyStep, Phase
    <2>5. ASSUME NEW q, NEW s, Moved(f, q, s) PROVE ReplyStep(f)
      <3>1. CASE q = p
        BY <1>1, <2>1, <2>2, <2>5, <3>1 DEF Moved, ReplyStep, Phase
      <3>2. CASE q # p
        BY <1>1, <2>1, <2>5, <3>2 DEF Moved, ReplyStep, Phase
      <3> QED
        BY <3>1, <3>2
    <2>6. ASSUME NEW q, NEW s, Halted(f, q, s) PROVE ReplyStep(f)
      <3>1. CASE q = p
        BY <1>1, <2>1, <2>2, <2>6, <3>1 DEF Halted, ReplyStep, Phase
      <3>2. CASE q # p
        BY <1>1, <2>1, <2>2, <2>6, <3>2 DEF Halted, ReplyStep, Phase
      <3> QED
        BY <3>1, <3>2
    <2> QED
      BY <2>3, <2>4, <2>5, <2>6 DEF RowStep
  <1> QED
    BY <1>2, <1>3

\* A step of the rows of one flow is a step of the contract, or none.
LEMMA ReplyStepKeeps ==
    ASSUME DeliveryInv, TypeOK', NEW f \in Flow, ReplyStep(f),
           \A g \in Flow \ {f} : Phase(g)' = Phase(g) /\ delivered'[g] = delivered[g]
    PROVE  [Contract!Next]_<<Phases, delivered>>
  <1>1. delivered \in [Flow -> Nat] /\ delivered' \in [Flow -> Nat]
    BY DEF DeliveryInv, TypeOK
  <1>2. /\ Phases' = [Phases EXCEPT ![f] = Phase(f)']
        /\ delivered' = [delivered EXCEPT ![f] = delivered'[f]]
        /\ Phase(f)' = Phase(f) => UNCHANGED Phases
        /\ delivered'[f] = delivered[f] => UNCHANGED delivered
        /\ Phases[f] = Phase(f)
    <2>1. Phases' = [Phases EXCEPT ![f] = Phase(f)'] /\ Phases[f] = Phase(f)
      BY DEF Phases
    <2>2. delivered' = [delivered EXCEPT ![f] = delivered'[f]]
      BY <1>1
    <2>3. Phase(f)' = Phase(f) => UNCHANGED Phases
      BY DEF Phases
    <2>4. delivered'[f] = delivered[f] => UNCHANGED delivered
      BY <1>1
    <2> QED
      BY <2>1, <2>2, <2>3, <2>4
  <1>3. CASE UNCHANGED <<Phases, delivered>>
    BY <1>3
  <1>4. CASE Phase(f) = "attempting" /\ Phase(f)' = Phase(f) /\ delivered[f] = 0
             /\ delivered'[f] = 1
    BY <1>2, <1>4 DEF Contract!Accept, Contract!Next
  <1>5. ASSUME UNCHANGED delivered, Phase(f)' # Phase(f)
        PROVE  Contract!Next
    <2>1. /\ Phases' = [Phases EXCEPT ![f] = Phase(f)'] /\ Phases[f] = Phase(f)
          /\ delivered' = delivered /\ delivered'[f] = delivered[f]
      BY <1>2, <1>5
    <2> USE <1>5, <2>1 DEF Contract!Become, Contract!Next
    <2>2. CASE Phase(f) = "waiting" /\ delivered[f] = 0 /\ Phase(f)' = "attempting"
      BY <2>2 DEF Contract!Attempt
    <2>3. CASE Phase(f) = "attempting" /\ delivered[f] = 0 /\ Phase(f)' = "waiting"
      BY <2>3 DEF Contract!Throttle
    <2>4. CASE Phase(f) = "attempting" /\ delivered[f] = 1 /\ Phase(f)' = "sent"
      BY <2>4 DEF Contract!Confirm
    <2>5. CASE Phase(f) \in {"waiting", "attempting"} /\ Phase(f)' = "unknown"
      BY <2>5 DEF Contract!Doubt
    <2>6. CASE Phase(f) = "attempting" /\ delivered[f] = 0 /\ Phase(f)' = "failed"
      BY <2>6 DEF Contract!Refuse
    <2>7. CASE Phase(f) = "waiting" /\ delivered[f] = 0 /\ Phase(f)' \in {"failed", "abandoned"}
      BY <2>7 DEF Contract!Abandon
    <2> QED
      BY <2>2, <2>3, <2>4, <2>5, <2>6, <2>7 DEF ReplyStep
  <1> QED
    BY <1>2, <1>3, <1>4, <1>5 DEF ReplyStep

\* A step is one of at most one flow.
LEMMA OneFlowMoves ==
    ASSUME TypeOK, [Next]_vars
    PROVE  \/ \A g \in Flow : Apart(g)
           \/ \E f \in Flow : \A g \in Flow \ {f} : Apart(g)
  <1>1. ASSUME NEW w \in Worker, Handle(w) \/ Raise(w) \/ Crash(w), NEW g \in Flow, flow[w] # g
        PROVE  Apart(g)
    BY <1>1, LoopApart, CallApart DEF Handle, LeadTaken
  <1>2. ASSUME NEW w \in Worker, Poll(w)
        PROVE  \E f \in Flow : \A g \in Flow \ {f} : Apart(g)
    <2>1. PICK f \in Flow : Claim(w, f) \/ RecoverSending(w, f) \/ RecoverIdle(w, f)
      BY <1>2 DEF Poll
    <2> QED
      BY <2>1 DEF Claim, RecoverSending, RecoverIdle, Uncertain, Apart, remote, TypeOK
  <1>3. CASE UNCHANGED vars \/ \E s \in Source : SetSource(s)
    BY <1>3 DEF vars, SetSource, database, remote, Apart
  <1> QED
    BY <1>1, <1>2, <1>3 DEF Next

LEMMA ApartStutters ==
    ASSUME TypeOK, TypeOK', NEW g \in Flow, Apart(g)
    PROVE  Phase(g)' = Phase(g) /\ delivered'[g] = delivered[g]
  BY DEF Apart, Phase, SendStatus, Sends, Steps

\* Flows keep the contract of docs/architecture.md: at most one copy of the reply, an
\* outcome in doubt is recorded as unknown and never attempted again, and only a reply
\* that the provider throttled is attempted again.
THEOREM FlowsKeepContract ==
    ASSUME LeaseOutlivesWork PROVE Spec => KeepsContract
  <1>1. Init => Contract!Init
    <2> SUFFICES ASSUME Init PROVE Contract!Init
      OBVIOUS
    <2>1. ASSUME NEW f \in Flow PROVE Phase(f) = "waiting"
      <3>1. CASE Sends(f) = {}
        BY <3>1 DEF Phase, SendStatus
      <3>2. ASSUME NEW p \in Sends(f) PROVE Phase(f) = "waiting"
        BY SendStatusIs, StepsAreNat DEF Phase, Init, Sends
      <3> QED
        BY <3>1, <3>2
    <2> QED
      BY <2>1 DEF Init, Contract!Init, Phases
  <1>2. DeliveryInv /\ LeadInv /\ [Next]_vars => [Contract!Next]_<<Phases, delivered>>
    <2> SUFFICES ASSUME DeliveryInv, LeadInv, [Next]_vars
                 PROVE  [Contract!Next]_<<Phases, delivered>>
      OBVIOUS
    <2>1. TypeOK /\ TypeOK'
      BY NextType DEF DeliveryInv
    <2>2. \A f \in Flow : ReplyStep(f)
      BY StepOnRows, RowsAsReply
    <2>3. CASE \A g \in Flow : Apart(g)
      <3>1. \A g \in Flow : Phase(g)' = Phase(g) /\ delivered'[g] = delivered[g]
        BY <2>1, <2>3, ApartStutters
      <3>2. UNCHANGED <<Phases, delivered>>
        BY <2>1, <3>1 DEF Phases, TypeOK
      <3> QED
        BY <3>2
    <2>4. CASE \E f \in Flow : \A g \in Flow \ {f} : Apart(g)
      BY <2>1, <2>2, <2>4, ApartStutters, ReplyStepKeeps
    <2> QED
      BY <2>1, <2>3, <2>4, OneFlowMoves
  <1> QED
    BY <1>1, <1>2, Inductive, LeadInductive, PTL DEF Spec, KeepsContract, Contract!Spec

-----------------------------------------------------------------------------
(* Without the lease: two workers may have one flow in hand, and a receipt is    *)
(* still only ever recorded by the worker that got it.                          *)

\* The stages after the provider's acceptance, and the rows that tell of it.
ReceiptInv ==
    /\ \A w \in Worker : pc[w] \in {"accepted", "reply", "record"} => delivered[flow[w]] >= 1
    /\ \A f \in Flow : /\ \A p \in Position : act[f][p] = "sent" => delivered[f] >= 1
                       /\ msg[f] = "sent" => delivered[f] >= 1

\* A step writes no receipt, neither in the action rows nor in the message.
NoReceipt ==
    \A f \in Flow :
        /\ \A p \in Position : act'[f][p] = "sent" => act[f][p] = "sent"
        /\ msg'[f] = "sent" => msg[f] = "sent"

\* A commit writes only the outcome it is for, whatever the session holds.
LEMMA PiecesWriteNothingElse ==
    ASSUME TypeOK, NEW w \in Worker, flow[w] \in Flow, NEW f \in Flow, NEW p \in Position,
           NEW c \in ActDone
    PROVE  /\ \A q \in Position : \A s : WriteAct(w, q, s) /\ s # c =>
                (act'[f][p] = c => act[f][p] = c)
           /\ \A q, s : Stop(w, q, s) /\ s # c => (act'[f][p] = c => act[f][p] = c)
           /\ Uncertain(f) => (act'[f][p] = c => act[f][p] = c)
  <1>0. c # "skipped" /\ c # "unknown"
    BY DEF ActDone
  <1>1. ASSUME NEW q \in Position, NEW s, WriteAct(w, q, s), s # c, act'[f][p] = c
        PROVE  act[f][p] = c
    BY <1>1 DEF WriteAct, TypeOK
  <1>2. ASSUME NEW q, NEW s, Stop(w, q, s), s # c, act'[f][p] = c
        PROVE  act[f][p] = c
    <2>1. WriteActs(w, Stopped(w, q, s))
      BY <1>2 DEF Stop
    <2>2. \/ Stopped(w, q, s)[p] = ses[w].act[p]
          \/ Stopped(w, q, s)[p] # c
      BY <1>0, <1>2 DEF Stopped
    <2>3. CASE f = flow[w]
      BY <1>2, <2>1, <2>2, <2>3 DEF WriteActs, TypeOK
    <2>4. CASE f # flow[w]
      BY <1>2, <2>1, <2>4 DEF WriteActs, TypeOK
    <2> QED
      BY <2>3, <2>4
  <1>3. ASSUME Uncertain(f), act'[f][p] = c PROVE act[f][p] = c
    BY <1>0, <1>3 DEF Uncertain, TypeOK
  <1> QED
    BY <1>1, <1>2, <1>3

LEMMA PiecesRecordNothing ==
    ASSUME TypeOK, NEW w \in Worker, flow[w] \in Flow, NEW f \in Flow, NEW p \in Position
    PROVE  /\ \A q \in Position : \A s : WriteAct(w, q, s) /\ s # "sent" =>
                (act'[f][p] = "sent" => act[f][p] = "sent")
           /\ \A q, s : Stop(w, q, s) /\ s # "sent" => (act'[f][p] = "sent" => act[f][p] = "sent")
           /\ Uncertain(f) => (act'[f][p] = "sent" => act[f][p] = "sent")
  <1>1. "sent" \in ActDone
    BY DEF ActDone
  <1> QED
    BY <1>1, PiecesWriteNothingElse

LEMMA LoopRecordsNothing ==
    ASSUME TypeOK, NEW w \in Worker,
           \/ LoadExecution(w) \/ LockAccount(w) \/ FoundSending(w) \/ Delay(w)
           \/ ZeroDelay(w) \/ FetchLead(w) \/ ApplyLead(w) \/ Recheck(w)
           \/ WindowThrottled(w) \/ WindowRefused(w) \/ MarkSending(w)
    PROVE  NoReceipt
  <1>0. flow[w] \in Flow
    BY DEF TypeOK, LoadExecution, LockAccount, FoundSending, Delay, ZeroDelay, FetchLead,
           ApplyLead, Recheck, WindowThrottled, WindowRefused, MarkSending
  <1>1. \A f \in Flow : msg'[f] = "sent" => msg[f] = "sent"
    BY <1>0 DEF TypeOK, LoadExecution, LockAccount, FoundSending, Delay, ZeroDelay, FetchLead,
           ApplyLead, Recheck, WindowThrottled, WindowRefused, MarkSending, database
  <1> SUFFICES ASSUME NEW f \in Flow, NEW p \in Position
               PROVE  act'[f][p] = "sent" => act[f][p] = "sent"
    BY <1>1 DEF NoReceipt
  <1>2. CASE LoadExecution(w) \/ LockAccount(w) \/ FetchLead(w)
    BY <1>2 DEF LoadExecution, LockAccount, FetchLead, database
  <1>3. CASE FoundSending(w) \/ Recheck(w) \/ WindowThrottled(w) \/ WindowRefused(w)
    <2>1. \/ act' = act
          \/ \E q \in Position : \/ Stop(w, q, "unknown") \/ Stop(w, q, "failed")
                                \/ Park(w, q, "pending")
      BY <1>3 DEF FoundSending, Recheck, WindowThrottled, WindowRefused, BackOff, Refused
    <2> QED
      BY <1>0, <2>1, PiecesRecordNothing DEF Park
  <1>4. CASE Delay(w) \/ ZeroDelay(w) \/ ApplyLead(w) \/ MarkSending(w)
    <2>1. \E q \in Position : WriteAct(w, q, "complete") \/ WriteAct(w, q, "sending")
      BY <1>4 DEF Delay, ZeroDelay, ApplyLead, MarkSending, Park, ActionCommit
    <2> QED
      BY <1>0, <2>1, PiecesRecordNothing
  <1> QED
    BY <1>2, <1>3, <1>4

LEMMA CallRecordsNothing ==
    ASSUME TypeOK, NEW w \in Worker,
           \/ Accept(w) \/ Receive(w) \/ TimeOut(w) \/ Reject(w) \/ Throttle(w)
           \/ PostPublicReply(w) \/ FinishFlow(w) \/ CompleteJob(w) \/ Raise(w) \/ Crash(w)
    PROVE  NoReceipt
  <1>0. flow[w] \in Flow
    BY DEF TypeOK, Accept, Receive, TimeOut, Reject, Throttle, PostPublicReply, FinishFlow,
           CompleteJob, Raise, Crash
  <1>1. \A f \in Flow : msg'[f] = "sent" => msg[f] = "sent"
    BY <1>0 DEF TypeOK, Accept, Receive, TimeOut, Reject, Throttle, PostPublicReply, FinishFlow,
           CompleteJob, Raise, Crash, Uncertain, database
  <1> SUFFICES ASSUME NEW f \in Flow, NEW p \in Position
               PROVE  act'[f][p] = "sent" => act[f][p] = "sent"
    BY <1>1 DEF NoReceipt
  <1>2. CASE Accept(w) \/ Receive(w) \/ PostPublicReply(w) \/ FinishFlow(w)
             \/ CompleteJob(w) \/ Crash(w)
    BY <1>2 DEF Accept, Receive, PostPublicReply, FinishFlow, CompleteJob, Crash, database
  <1>3. CASE TimeOut(w) \/ Reject(w) \/ Throttle(w)
    <2>1. \E q \in Position : \/ Stop(w, q, "unknown") \/ Stop(w, q, "failed")
                             \/ Park(w, q, "pending")
      BY <1>3 DEF TimeOut, Reject, Throttle, BackOff, Refused
    <2> QED
      BY <1>0, <2>1, PiecesRecordNothing DEF Park
  <1>4. CASE Raise(w)
    <2>1. CASE f = flow[w]
      BY <1>0, <1>4, <2>1, PiecesRecordNothing DEF Raise
    <2>2. CASE f # flow[w]
      BY <1>4, <2>2 DEF Raise, Uncertain, TypeOK
    <2> QED
      BY <2>1, <2>2
  <1> QED
    BY <1>2, <1>3, <1>4

LEMMA PollRecordsNothing ==
    ASSUME TypeOK, NEW w \in Worker, Poll(w) PROVE NoReceipt
  <1>1. PICK g \in Flow : Claim(w, g) \/ RecoverSending(w, g) \/ RecoverIdle(w, g)
    BY DEF Poll
  <1>2. CASE Claim(w, g) \/ RecoverIdle(w, g)
    BY <1>2 DEF Claim, RecoverIdle, NoReceipt
  <1>3. CASE RecoverSending(w, g)
    BY <1>3 DEF RecoverSending, Uncertain, NoReceipt, TypeOK
  <1> QED
    BY <1>1, <1>2, <1>3

\* The provider's count never falls.
LEMMA DeliveredGrows ==
    ASSUME TypeOK, NEW w \in Worker, Handle(w) \/ Raise(w) \/ Poll(w) \/ Crash(w),
           NEW f \in Flow
    PROVE  delivered'[f] >= delivered[f]
  <1>1. CASE Accept(w)
    BY <1>1 DEF Accept, TypeOK
  <1>2. delivered' = delivered \/ Accept(w)
    BY DEF Handle, LeadTaken, Raise, Crash, Poll, Claim, RecoverSending, RecoverIdle,
       LoadExecution, LockAccount, FoundSending, Delay, ZeroDelay, FetchLead, ApplyLead,
       Recheck, WindowThrottled, WindowRefused, MarkSending, Receive, TimeOut, Reject,
       Throttle, PostPublicReply, RecordSent, FinishFlow, CompleteJob, remote
  <1> QED
    BY <1>1, <1>2 DEF TypeOK

LEMMA ReceiptStep ==
    ASSUME TypeOK, TypeOK', ReceiptInv, NEW w \in Worker,
           Handle(w) \/ Raise(w) \/ Poll(w) \/ Crash(w)
    PROVE  ReceiptInv'
  <1>1. ASSUME NEW f \in Flow, delivered[f] >= 1 PROVE delivered'[f] >= 1
    BY <1>1, DeliveredGrows DEF TypeOK
  <1>2. ASSUME NEW v \in Worker, pc'[v] \in {"accepted", "reply", "record"}
        PROVE  delivered'[flow'[v]] >= 1
    <2>1. CASE pc[v] \in {"accepted", "reply", "record"} /\ flow'[v] = flow[v]
      <3>1. flow[v] \in Flow /\ delivered[flow[v]] >= 1
        BY <2>1 DEF ReceiptInv, TypeOK
      <3> QED
        BY <1>1, <2>1, <3>1
    <2>2. CASE v # w
      BY <1>2, <2>1, <2>2, WorkerMoves DEF OtherWorkers
    <2>3. CASE v = w /\ Accept(w)
      BY <2>3 DEF Accept, Goto, TypeOK
    <2>4. CASE v = w /\ (Receive(w) \/ PostPublicReply(w))
      BY <2>1, <2>4 DEF Receive, PostPublicReply, Goto
    <2> QED
      BY <1>2, <2>2, <2>3, <2>4, WorkerMoves
  <1>3. CASE NoReceipt
    BY <1>1, <1>2, <1>3 DEF ReceiptInv, NoReceipt
  <1>4. CASE RecordSent(w)
    <2>1. pc[w] = "record" /\ flow[w] \in Flow /\ delivered[flow[w]] >= 1
      BY <1>4 DEF RecordSent, ReceiptInv, TypeOK
    <2>2. PICK p \in Position : WriteAct(w, p, "sent")
      BY <1>4 DEF RecordSent, ActionCommit
    <2>3. msg' = [msg EXCEPT ![flow[w]] = "sent"]
      BY <1>4 DEF RecordSent
    <2>4. \A f \in Flow \ {flow[w]} : act'[f] = act[f] /\ msg'[f] = msg[f]
      BY <2>1, <2>2, <2>3 DEF WriteAct, TypeOK
    <2> QED
      BY <1>1, <1>2, <2>1, <2>4 DEF ReceiptInv
  <1> QED
    BY <1>3, <1>4, LoopRecordsNothing, CallRecordsNothing, PollRecordsNothing
       DEF Handle, LeadTaken

\* Even with a worker slower than its lease, so that another runs its flow too, a reply
\* shown as sent has been accepted by the provider (flows.run_flow).
THEOREM SentWasAccepted == Spec => []SentIsReal
  <1>1. Init => ReceiptInv
    BY DEF Init, ReceiptInv
  <1>2. TypeOK /\ TypeOK' /\ ReceiptInv /\ [Next]_vars => ReceiptInv'
    <2>1. ASSUME UNCHANGED <<worker, database, remote>>, ReceiptInv PROVE ReceiptInv'
      BY <2>1 DEF ReceiptInv, worker, database, remote
    <2> QED
      BY <2>1, ReceiptStep DEF Next, vars, SetSource
  <1>3. ReceiptInv => SentIsReal
    <2> SUFFICES ASSUME ReceiptInv, NEW f \in Flow, SendStatus(f) = "sent" \/ msg[f] = "sent"
                 PROVE  delivered[f] >= 1
      BY DEF SentIsReal
    <2>1. CASE msg[f] = "sent"
      BY <2>1 DEF ReceiptInv
    <2>2. CASE SendStatus(f) = "sent"
      <3>1. PICK p \in Sends(f) : act[f][p] = "sent"
        BY <2>2 DEF SendStatus
      <3> QED
        BY <3>1, StepsAreNat DEF ReceiptInv, Sends
    <2> QED
      BY <2>1, <2>2
  <1> QED
    BY <1>1, <1>2, <1>3, TypeCorrect, PTL DEF Spec

-----------------------------------------------------------------------------
(* Notes.  A session writes a lead back as it first read it and has changed it     *)
(* since; nothing is lost as long as nobody else writes notes to it meanwhile.     *)

Notes(f) == {p \in Steps(f) : Program[f][p] = "NOTE"}

\* One worker, as docker-compose.yml starts it, or no two flows that write notes to one lead.
NotesApart ==
    \/ \A v, w \in Worker : v = w
    \/ \A f, g \in Flow : LeadOf[f] = LeadOf[g] /\ Notes(f) # {} /\ Notes(g) # {} => f = g

\* A session's copy of the lead is from this run of its flow; a flow that writes notes
\* has the row's notes in it, and a lead that was missing had none.
CopyInv(w) ==
    /\ pc[w] \in {"idle", "load", "lock"} => ~ses[w].seen
    /\ pc[w] = "lead" => ses[w].seen
    /\ pc[w] \in Working /\ ses[w].seen =>
         /\ ~ses[w].lead.exists => ses[w].lead.notes = NoLead.notes
         /\ Notes(flow[w]) # {} => ses[w].lead.notes = lead[LeadOf[flow[w]]].notes

NoteInv ==
    /\ NotesExactlyOnce
    /\ \A l \in Lead : ~lead[l].exists => lead[l].notes = NoLead.notes
    /\ \A w \in Worker : CopyInv(w)

\* A step other than ApplyLead keeps the session's copy, forgets it or reads it anew.
Carried(w) ==
    /\ ses'[w].seen = ses[w].seen /\ ses'[w].lead = ses[w].lead
    /\ pc[w] # "idle" => flow'[w] = flow[w]
    /\ pc'[w] \in {"idle", "load", "lock"} => pc[w] \in {"idle", "load", "lock"}
    /\ pc'[w] = "lead" => pc[w] = "lead"
    /\ pc'[w] \in Working => pc[w] \in Working \cup {"lock"}
Forgotten(w) == pc'[w] = "idle" /\ ~ses'[w].seen

LEMMA PiecesCarry ==
    ASSUME TypeOK, NEW w \in Worker
    PROVE  /\ \A stage : Goto(w, stage) /\ ses' = ses =>
                /\ pc'[w] = stage /\ flow'[w] = flow[w]
                /\ ses'[w].seen = ses[w].seen /\ ses'[w].lead = ses[w].lead
           /\ \A stage, e, a, n : Goto(w, stage) /\ Remember(w, e, a, n) =>
                /\ pc'[w] = stage /\ flow'[w] = flow[w]
                /\ ses'[w].seen = ses[w].seen /\ ses'[w].lead = ses[w].lead
           /\ Drop(w) => Forgotten(w)
  BY DEF Goto, Remember, Drop, Forgotten, NoSession, TypeOK

\* A step of a worker carries its copy of the lead on or forgets it, but when it reads
\* or writes the lead.
LEMMA SessionMoves ==
    ASSUME TypeOK, NEW w \in Worker, Handle(w) \/ Raise(w) \/ Poll(w) \/ Crash(w)
    PROVE  Carried(w) \/ Forgotten(w) \/ FetchLead(w) \/ ApplyLead(w)
  <1> USE PiecesCarry DEF Working
  <1>0. ASSUME NEW stage, pc'[w] = stage, flow'[w] = flow[w],
               ses'[w].seen = ses[w].seen, ses'[w].lead = ses[w].lead,
               \/ pc[w] = "load" /\ stage \in {"lock", "finish"}
               \/ pc[w] = "lock" /\ stage \in {"run", "finish"}
               \/ pc[w] \in Working /\ stage \in (Working \ {"lead"}) \cup {"finish"}
        PROVE  Carried(w)
    BY <1>0 DEF Carried
  <1>1. CASE LoadExecution(w)
    BY <1>0, <1>1 DEF LoadExecution
  <1>2. CASE LockAccount(w)
    BY <1>0, <1>2 DEF LockAccount
  <1>3. ASSUME pc[w] \in Working, NEW p, NEW s, Stop(w, p, s) PROVE Carried(w)
    BY <1>0, <1>3 DEF Stop
  <1>4. ASSUME NEW p, NEW s, Park(w, p, s) PROVE Forgotten(w)
    BY <1>4 DEF Park
  <1>5. ASSUME pc[w] \in Working, NEW p, NEW s, ActionCommit(w, p, s) PROVE Carried(w)
    BY <1>0, <1>5 DEF ActionCommit
  <1>6. CASE FoundSending(w) \/ Delay(w) \/ ZeroDelay(w)
    BY <1>3, <1>4, <1>5, <1>6 DEF FoundSending, Delay, ZeroDelay
  <1>7. CASE Recheck(w)
    BY <1>0, <1>3, <1>7 DEF Recheck
  <1>8. CASE WindowThrottled(w) \/ WindowRefused(w) \/ TimeOut(w) \/ Reject(w) \/ Throttle(w)
    BY <1>3, <1>4, <1>8
       DEF WindowThrottled, WindowRefused, TimeOut, Reject, Throttle, BackOff, Refused
  <1>9. CASE MarkSending(w)
    BY <1>0, <1>9 DEF MarkSending
  <1>10. CASE Accept(w) \/ Receive(w) \/ PostPublicReply(w)
    BY <1>0, <1>10 DEF Accept, Receive, PostPublicReply
  <1>11. CASE RecordSent(w)
    BY <1>5, <1>11 DEF RecordSent
  <1>12. CASE FinishFlow(w)
    BY <1>0, <1>12 DEF FinishFlow
  <1>13. CASE CompleteJob(w) \/ Raise(w) \/ LeadTaken(w) \/ Crash(w)
    BY <1>13 DEF CompleteJob, Raise, LeadTaken, Crash
  <1>14. CASE Poll(w)
    <2>1. PICK f \in Flow : Claim(w, f) \/ RecoverSending(w, f) \/ RecoverIdle(w, f)
      BY <1>14 DEF Poll
    <2> QED
      BY <2>1 DEF Claim, RecoverSending, RecoverIdle, Carried, worker, TypeOK
  <1> QED
    BY <1>1, <1>2, <1>6, <1>7, <1>8, <1>9, <1>10, <1>11, <1>12, <1>13, <1>14 DEF Handle

\* Only ApplyLead writes a lead.
LEMMA LeadsKept ==
    ASSUME NEW w \in Worker, Handle(w) \/ Raise(w) \/ Poll(w) \/ Crash(w), ~ApplyLead(w)
    PROVE  lead' = lead
  BY DEF Handle, LeadTaken, Raise, Crash, Poll, Claim, RecoverSending, RecoverIdle,
     LoadExecution, LockAccount, FoundSending, Delay, ZeroDelay, FetchLead, Stop, Park,
     ActionCommit, BackOff, Refused, Recheck, WindowThrottled, WindowRefused, MarkSending,
     Accept, Receive, TimeOut, Reject, Throttle, PostPublicReply, RecordSent, FinishFlow,
     CompleteJob, database

LEMMA UncertainCompletesNothing ==
    ASSUME TypeOK, NEW f \in Flow, Uncertain(f), NEW p \in Position, act'[f][p] = "complete"
    PROVE  act[f][p] = "complete"
  <1>1. act'[f][p] = IF act[f][p] = "sending" THEN "unknown" ELSE act[f][p]
    BY DEF Uncertain, TypeOK
  <1> QED
    BY <1>1

\* Only ApplyLead completes the action of a note.
LEMMA OnlyLeadsCompleteNotes ==
    ASSUME TypeOK, NEW w \in Worker, Handle(w) \/ Raise(w) \/ Poll(w) \/ Crash(w),
           ~ApplyLead(w), NEW f \in Flow, NEW p \in Notes(f), act'[f][p] = "complete"
    PROVE  act[f][p] = "complete"
  <1>0. p \in Position /\ Program[f][p] = "NOTE" /\ "complete" \in ActDone
    BY StepsAreNat DEF Notes, ActDone
  <1>1. CASE act' = act
    BY <1>1
  <1>2. CASE Poll(w)
    <2>1. PICK g \in Flow : Claim(w, g) \/ RecoverSending(w, g) \/ RecoverIdle(w, g)
      BY <1>2 DEF Poll
    <2> QED
      <3>1. CASE Claim(w, g) \/ RecoverIdle(w, g)
        BY <1>1, <3>1 DEF Claim, RecoverIdle
      <3>2. CASE RecoverSending(w, g)
        <4>1. CASE f = g
          BY <1>0, <3>2, <4>1, UncertainCompletesNothing DEF RecoverSending
        <4>2. CASE f # g
          BY <3>2, <4>2 DEF RecoverSending, Uncertain, TypeOK
        <4> QED
          BY <4>1, <4>2
      <3> QED
        BY <2>1, <3>1, <3>2
  <1>3. ASSUME flow[w] \in Flow,
               \/ \E q \in Position : \E s : WriteAct(w, q, s) /\ s # "complete"
               \/ \E q, s : Stop(w, q, s) /\ s # "complete"
        PROVE  act[f][p] = "complete"
    BY <1>0, <1>3, PiecesWriteNothingElse
  <1>4. CASE Delay(w) \/ ZeroDelay(w)
    <2>1. PICK q \in Position : /\ Program[flow[w]][q] # "NOTE"
                                /\ WriteAct(w, q, "complete")
      BY <1>4 DEF Delay, ZeroDelay, At, Park, ActionCommit
    <2>2. q # p \/ f # flow[w]
      BY <1>0, <2>1
    <2> QED
      BY <1>0, <2>1, <2>2 DEF WriteAct, TypeOK
  <1>5. CASE \/ FoundSending(w) \/ Recheck(w) \/ WindowThrottled(w) \/ WindowRefused(w)
             \/ TimeOut(w) \/ Reject(w) \/ Throttle(w) \/ MarkSending(w) \/ RecordSent(w)
    <2>1. flow[w] \in Flow
      BY <1>5 DEF TypeOK, FoundSending, Recheck, WindowThrottled, WindowRefused, TimeOut,
         Reject, Throttle, MarkSending, RecordSent
    <2>2. \/ act' = act
          \/ \E q \in Position : \E s : WriteAct(w, q, s) /\ s # "complete"
          \/ \E q, s : Stop(w, q, s) /\ s # "complete"
      BY <1>5 DEF FoundSending, Recheck, WindowThrottled, WindowRefused, TimeOut, Reject,
         Throttle, MarkSending, RecordSent, BackOff, Refused, Park, ActionCommit
    <2> QED
      BY <1>1, <1>3, <2>1, <2>2
  <1>6. CASE Raise(w) \/ LeadTaken(w)
    <2>1. flow[w] \in Flow /\ Uncertain(flow[w])
      BY <1>6 DEF Raise, LeadTaken, TypeOK
    <2>2. CASE f = flow[w]
      BY <1>0, <2>1, <2>2, UncertainCompletesNothing
    <2>3. CASE f # flow[w]
      BY <2>1, <2>3 DEF Uncertain, TypeOK
    <2> QED
      BY <2>2, <2>3
  <1> QED
    BY <1>1, <1>2, <1>4, <1>5, <1>6 DEF Handle, LoadExecution, LockAccount, FetchLead, Accept,
       Receive, PostPublicReply, FinishFlow, CompleteJob, Crash, database

LEMMA DoneRowsStay ==
    ASSUME TypeOK, NEW f \in Flow, RowStep(f), NEW p \in Position, act[f][p] \in ActDone
    PROVE  act'[f][p] = act[f][p]
  <1>1. act[f] \in [Position -> ActStatus] /\ act[f][p] \notin {"pending", "sending"}
    BY DEF TypeOK, ActDone
  <1> QED
    BY <1>1 DEF RowStep, Kept, Taken, Doubted, Moved, Halted, First

\* Whatever a worker does but write a lead keeps notes, actions and copies together.
LEMMA OthersKeepNotes ==
    ASSUME DeliveryInv, LeadInv, NoteInv, NEW w \in Worker,
           Handle(w) \/ Raise(w) \/ Poll(w) \/ Crash(w), ~ApplyLead(w)
    PROVE  NoteInv'
  <1>0. TypeOK /\ lead' = lead /\ [Next]_vars
    BY LeadsKept DEF DeliveryInv, Next
  <1>1. ASSUME NEW f \in Flow, NEW p \in Notes(f)
        PROVE  act'[f][p] = "complete" <=> act[f][p] = "complete"
    <2>1. p \in Position
      BY StepsAreNat DEF Notes
    <2>2. act[f][p] = "complete" => act'[f][p] = act[f][p]
      BY <1>0, <2>1, StepOnRows, DoneRowsStay DEF ActDone
    <2> QED
      BY <1>0, <2>2, OnlyLeadsCompleteNotes
  <1>2. NotesExactlyOnce'
    <2> SUFFICES ASSUME NEW f \in Flow, NEW p \in Steps(f), Program[f][p] = "NOTE"
                 PROVE  lead'[LeadOf[f]].notes[<<f, p>>] = IF act'[f][p] = "complete" THEN 1 ELSE 0
      BY DEF NotesExactlyOnce, Steps
    <2>1. p \in Notes(f)
      BY DEF Notes
    <2> QED
      BY <1>0, <1>1, <2>1 DEF NoteInv, NotesExactlyOnce
  <1>3. ASSUME NEW v \in Worker PROVE CopyInv(v)'
    <2>0. CopyInv(v)
      BY DEF NoteInv
    <2>1. CASE v # w
      <3>1. pc'[v] = pc[v] /\ flow'[v] = flow[v] /\ ses'[v] = ses[v]
        BY <1>0, <2>1, WorkerMoves DEF OtherWorkers
      <3> QED
        BY <1>0, <2>0, <3>1 DEF CopyInv, Notes, Steps
    <2>2. CASE v = w /\ Carried(w)
      <3>1. pc'[w] \in Working => flow'[w] = flow[w]
        BY <2>2 DEF Carried, Working
      <3> QED
        BY <1>0, <2>0, <2>2, <3>1 DEF CopyInv, Carried, Notes, Steps
    <2>3. CASE v = w /\ Forgotten(w)
      BY <2>3 DEF CopyInv, Forgotten, Working
    <2>4. CASE v = w /\ FetchLead(w)
      <3>1. pc[w] = "run" /\ flow[w] \in Flow
        BY <1>0, <2>4 DEF FetchLead, TypeOK
      <3>2. /\ pc'[w] = "lead" /\ flow'[w] = flow[w] /\ ses'[w].seen
            /\ ses'[w].lead = IF ses[w].seen THEN ses[w].lead ELSE lead[LeadOf[flow[w]]]
        BY <1>0, <2>4 DEF FetchLead, Goto, RememberLead, TypeOK
      <3>3. LeadOf[flow[w]] \in Lead
        BY <3>1, WiringAssumption
      <3> QED
        BY <1>0, <2>0, <2>4, <3>1, <3>2, <3>3 DEF CopyInv, NoteInv, Notes, Steps, Working
    <2> QED
      BY <1>0, <2>1, <2>2, <2>3, <2>4, SessionMoves
  <1> QED
    BY <1>0, <1>2, <1>3 DEF NoteInv

\* The commit of a lead action: a note goes into the row as the row was, anything else
\* leaves the notes alone.
LEMMA ApplyKeepsNotes ==
    ASSUME NotesApart, DeliveryInv, LeadInv, NoteInv, NEW w \in Worker, ApplyLead(w)
    PROVE  NoteInv'
  <1> DEFINE f == flow[w]
             l == LeadOf[f]
             mine == ses[w].lead
             row(q) == [exists |-> TRUE,
                        notes |-> IF Program[f][q] = "NOTE"
                                  THEN [mine.notes EXCEPT ![<<f, q>>] = @ + 1] ELSE mine.notes]
  <1>0. TypeOK /\ pc[w] = "lead" /\ pc[w] \in Working /\ f \in Flow /\ l \in Lead
    BY WiringAssumption DEF ApplyLead, DeliveryInv, TypeOK, Working
  <1>1. PICK p \in Position :
          /\ Current(w, p) /\ WriteAct(w, p, "complete")
          /\ lead' = [lead EXCEPT ![l] =
                        IF Program[f][p] = "NOTE" \/ ~mine.exists THEN row(p) ELSE @]
          /\ RememberLead(w, "running", Marked(w, p, "complete"), row(p))
    BY DEF ApplyLead
  <1>2. lead[l].exists => mine.exists
    BY DEF ApplyLead
  <1>3. /\ pc'[w] = "run" /\ flow' = flow
        /\ ses'[w].seen /\ ses'[w].lead = row(p)
        /\ \A v \in Worker \ {w} : pc'[v] = pc[v] /\ ses'[v] = ses[v]
    BY <1>0, <1>1 DEF ApplyLead, Goto, RememberLead, TypeOK
  <1>4. /\ act'[f] = [act[f] EXCEPT ![p] = "complete"]
        /\ \A g \in Flow \ {f} : act'[g] = act[g]
        /\ act[f][p] = "pending" /\ p \in Steps(f)
    BY <1>0, <1>1, OwnFlow, WriteActWrites, ReachedIsPending DEF WorkerInv
  <1>5. /\ ses[w].seen
        /\ ~mine.exists => mine.notes = NoLead.notes
        /\ Notes(f) # {} => mine.notes = lead[l].notes
    BY <1>0 DEF NoteInv, CopyInv
  <1>6. act[f] \in [Position -> ActStatus] /\ lead \in [Lead -> LeadRow]
    BY <1>0 DEF TypeOK
  <1>7. CASE Program[f][p] = "NOTE"
    <2>1. p \in Notes(f) /\ mine.notes = lead[l].notes
      BY <1>4, <1>5, <1>7 DEF Notes
    <2>2. /\ lead'[l] = row(p) /\ \A k \in Lead \ {l} : lead'[k] = lead[k]
          /\ row(p).notes = [lead[l].notes EXCEPT ![<<f, p>>] = @ + 1] /\ row(p).exists
      BY <1>0, <1>1, <1>6, <1>7, <2>1
    <2>3. lead[l].notes \in [Effect -> Nat] /\ <<f, p>> \in Effect
      BY <1>0, <1>1, <1>6 DEF LeadRow, Effect
    <2>4. ASSUME NEW g \in Flow, NEW q \in Steps(g), Program[g][q] = "NOTE"
          PROVE  lead'[LeadOf[g]].notes[<<g, q>>] = IF act'[g][q] = "complete" THEN 1 ELSE 0
      <3>1. /\ lead[LeadOf[g]].notes[<<g, q>>] = IF act[g][q] = "complete" THEN 1 ELSE 0
            /\ LeadOf[g] \in Lead /\ q \in Position
        BY <2>4, StepsAreNat, WiringAssumption DEF NoteInv, NotesExactlyOnce
      <3>2. CASE <<g, q>> = <<f, p>>
        <4>1. g = f /\ q = p
          BY <3>2
        <4> QED
          BY <1>4, <1>6, <2>2, <2>3, <3>1, <4>1
      <3>3. CASE <<g, q>> # <<f, p>>
        <4>1. act'[g][q] = act[g][q]
          BY <1>4, <1>6, <3>1, <3>3
        <4>2. lead'[LeadOf[g]].notes[<<g, q>>] = lead[LeadOf[g]].notes[<<g, q>>]
          BY <2>2, <2>3, <3>1, <3>3 DEF Effect
        <4> QED
          BY <3>1, <4>1, <4>2
      <3> QED
        BY <3>2, <3>3
    <2>5. ASSUME NEW v \in Worker PROVE CopyInv(v)'
      <3>1. CASE v = w
        BY <1>3, <2>2, <3>1 DEF CopyInv
      <3>2. CASE v # w
        <4>1. pc'[v] = pc[v] /\ ses'[v] = ses[v] /\ flow'[v] = flow[v] /\ CopyInv(v)
          BY <1>3, <3>2 DEF NoteInv
        <4>2. ASSUME pc[v] \in Working, Notes(flow[v]) # {}
              PROVE  LeadOf[flow[v]] \in Lead \ {l}
          <5>1. flow[v] \in Flow /\ flow[v] # f
            BY <1>0, <3>2, <4>2, OwnFlow DEF Working
          <5> QED
            BY <1>0, <2>1, <3>2, <4>2, <5>1, WiringAssumption DEF NotesApart
        <4> QED
          BY <2>2, <4>1, <4>2 DEF CopyInv, Notes, Steps
      <3> QED
        BY <3>1, <3>2
    <2>6. NotesExactlyOnce'
      BY <2>4 DEF NotesExactlyOnce, Steps
    <2> QED
      BY <2>2, <2>5, <2>6 DEF NoteInv
  <1>8. CASE Program[f][p] # "NOTE"
    <2>1. row(p).notes = mine.notes /\ row(p).exists
      BY <1>8
    <2>2. ASSUME NEW k \in Lead
          PROVE  lead'[k].notes = lead[k].notes /\ (lead[k].exists => lead'[k].exists)
      <3>1. CASE k = l /\ ~mine.exists
        BY <1>0, <1>1, <1>2, <1>5, <1>6, <2>1, <3>1 DEF NoteInv
      <3>2. CASE ~(k = l /\ ~mine.exists)
        BY <1>0, <1>1, <1>6, <1>8, <3>2
      <3> QED
        BY <3>1, <3>2
    <2>3. ASSUME NEW g \in Flow, NEW q \in Steps(g), Program[g][q] = "NOTE"
          PROVE  act'[g][q] = act[g][q] /\ LeadOf[g] \in Lead
      <3>1. g = f => q # p
        BY <1>8, <2>3
      <3>2. q \in Position /\ LeadOf[g] \in Lead
        BY StepsAreNat, WiringAssumption
      <3>3. CASE g = f
        BY <1>4, <1>6, <3>1, <3>2, <3>3
      <3> QED
        BY <1>4, <3>2, <3>3
    <2>4. NotesExactlyOnce'
      BY <2>2, <2>3 DEF NoteInv, NotesExactlyOnce, Steps
    <2>5. ASSUME NEW v \in Worker PROVE CopyInv(v)'
      <3>1. CASE v = w
        BY <1>0, <1>3, <1>5, <2>1, <2>2, <3>1 DEF CopyInv, Notes, Steps
      <3>2. CASE v # w
        <4>1. pc'[v] = pc[v] /\ ses'[v] = ses[v] /\ flow'[v] = flow[v] /\ CopyInv(v)
          BY <1>3, <3>2 DEF NoteInv
        <4>2. pc[v] \in Working => LeadOf[flow[v]] \in Lead
          BY <1>0, WiringAssumption DEF Working, TypeOK
        <4> QED
          BY <2>2, <4>1, <4>2 DEF CopyInv, Notes, Steps
      <3> QED
        BY <3>1, <3>2
    <2>6. \A k \in Lead : ~lead'[k].exists => lead'[k].notes = NoLead.notes
      BY <2>2 DEF NoteInv
    <2> QED
      BY <2>4, <2>5, <2>6 DEF NoteInv, NoLead, Effect, Position, Steps
  <1> QED
    BY <1>7, <1>8

\* A note is written to its lead exactly once, when its action completes, with one worker
\* or with no two flows that write notes to one lead (flows.ensure_lead, flows.run_flow).
THEOREM NotesWrittenOnce ==
    ASSUME LeaseOutlivesWork, NotesApart PROVE Spec => []NotesExactlyOnce
  <1>1. Init => NoteInv
    <2> SUFFICES ASSUME Init PROVE NoteInv
      OBVIOUS
    <2>1. ASSUME NEW f \in Flow, NEW p \in Steps(f)
          PROVE  act[f][p] = "pending" /\ lead[LeadOf[f]].notes[<<f, p>>] = 0
      BY StepsAreNat, WiringAssumption DEF Init, NoLead, Effect
    <2>2. NotesExactlyOnce
      BY <2>1 DEF NotesExactlyOnce
    <2>3. \A w \in Worker : CopyInv(w)
      BY DEF Init, CopyInv, NoSession, Working
    <2> QED
      BY <2>2, <2>3 DEF Init, NoteInv
  <1>2. DeliveryInv /\ LeadInv /\ NoteInv /\ [Next]_vars => NoteInv'
    <2>1. ASSUME UNCHANGED <<worker, database>>, NoteInv PROVE NoteInv'
      BY <2>1 DEF NoteInv, NotesExactlyOnce, CopyInv, Notes, Steps, worker, database
    <2> QED
      BY <2>1, OthersKeepNotes, ApplyKeepsNotes DEF Next, vars, SetSource
  <1>3. NoteInv => NotesExactlyOnce
    BY DEF NoteInv
  <1> QED
    BY <1>1, <1>2, <1>3, Inductive, LeadInductive, PTL DEF Spec
=============================================================================

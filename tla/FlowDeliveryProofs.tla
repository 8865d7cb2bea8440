------------------------- MODULE FlowDeliveryProofs -------------------------
(***************************************************************************)
(* Theorems about FlowDelivery for every set of workers, flows and accounts  *)
(* and every program: its types; and that a flow's reply is delivered at most *)
(* once and reported as it was, for every number of workers, flows and        *)
(* deaths, if recovery takes only the jobs of workers that are gone.          *)
(***************************************************************************)
EXTENDS FlowInvariant, TLAPS

\* A worker with a job in hand, in a well-typed state.
Busy(w) == TypeOK /\ w \in Worker /\ pc[w] # "idle"

LEMMA BusyHolds ==
    ASSUME NEW w, Busy(w) PROVE flow[w] \in Flow /\ ses[w] \in Session
  BY DEF Busy, TypeOK

\* What the pieces of a commit write is of the right type.
LEMMA WriteExecType ==
    ASSUME NEW w, NEW s \in ExecStatus, Busy(w), WriteExec(w, s)
    PROVE  exec' \in [Flow -> ExecStatus]
  BY BusyHolds DEF Busy, TypeOK, WriteExec

LEMMA WriteActType ==
    ASSUME NEW w, NEW p \in Position, NEW s \in ActStatus, Busy(w), WriteAct(w, p, s)
    PROVE  act' \in [Flow -> [Position -> ActStatus]]
  BY BusyHolds DEF Busy, TypeOK, WriteAct

LEMMA ReleaseType ==
    ASSUME NEW w, TypeOK, Release(w)
    PROVE  lock' \in [Account -> Worker \cup {NoWorker}]
  BY DEF TypeOK, Release

\* Where the worker is after a commit that keeps its job, or drops it.
WorkerType ==
    /\ pc \in [Worker -> Stage]
    /\ flow \in [Worker -> Flow \cup {NoFlow}]
    /\ \A w \in Worker : pc[w] # "idle" => flow[w] \in Flow

LEMMA GotoType ==
    ASSUME NEW w, NEW stage \in Stage, Busy(w), Goto(w, stage)
    PROVE  WorkerType'
  BY BusyHolds DEF Busy, TypeOK, Goto, WorkerType

LEMMA NoSessionType == NoSession \in Session
  <1>1. NoLead \in LeadRow
    BY DEF NoLead, LeadRow
  <1> QED
    BY <1>1 DEF NoSession, Session, ExecStatus, ExecActive, ActStatus, ActDone

LEMMA DropType ==
    ASSUME NEW w, TypeOK, w \in Worker, Drop(w)
    PROVE  WorkerType' /\ ses' \in [Worker -> Session]
  BY NoSessionType DEF TypeOK, Drop, WorkerType, Stage

LEMMA RememberType ==
    ASSUME NEW w, Busy(w), NEW e \in ExecStatus, NEW a \in [Position -> ActStatus],
           NEW n \in Nat, Remember(w, e, a, n)
    PROVE  ses' \in [Worker -> Session]
  BY BusyHolds DEF Busy, TypeOK, Remember, Session

LEMMA RememberLeadType ==
    ASSUME NEW w, Busy(w), NEW e \in ExecStatus, NEW a \in [Position -> ActStatus],
           NEW l \in LeadRow, RememberLead(w, e, a, l)
    PROVE  ses' \in [Worker -> Session]
  BY BusyHolds DEF Busy, TypeOK, RememberLead, Session

LEMMA MarkedType ==
    ASSUME NEW w, Busy(w), NEW p \in Position, NEW s \in ActStatus
    PROVE  Marked(w, p, s) \in [Position -> ActStatus]
  BY BusyHolds DEF Marked, Session

LEMMA SessionType ==
    ASSUME NEW w, Busy(w)
    PROVE  /\ ses[w].exec \in ExecStatus /\ ses[w].act \in [Position -> ActStatus]
           /\ ses[w].tries \in Nat /\ ses[w].lead \in LeadRow /\ ses[w].seen \in BOOLEAN
  BY BusyHolds DEF Session

LEMMA ActionCommitType ==
    ASSUME NEW w, NEW p \in Position, NEW s \in ActStatus, Busy(w), ActionCommit(w, p, s)
    PROVE  /\ WorkerType' /\ job' \in [Flow -> JobStatus]
           /\ exec' \in [Flow -> ExecStatus] /\ act' \in [Flow -> [Position -> ActStatus]]
           /\ ses' \in [Worker -> Session]
           /\ lock' \in [Account -> Worker \cup {NoWorker}]
  <1>1. "running" \in ExecStatus /\ "run" \in Stage
    BY DEF ExecStatus, ExecActive, Stage
  <1>2. /\ WriteExec(w, "running") /\ WriteAct(w, p, s) /\ Goto(w, "run") /\ Release(w)
        /\ Remember(w, "running", Marked(w, p, s), ses[w].tries) /\ job' = job
    BY DEF ActionCommit
  <1>3. ses' \in [Worker -> Session]
    BY <1>1, <1>2, RememberType, MarkedType, SessionType
  <1>4. exec' \in [Flow -> ExecStatus] /\ act' \in [Flow -> [Position -> ActStatus]]
    BY <1>1, <1>2, WriteExecType, WriteActType
  <1>5. WorkerType' /\ lock' \in [Account -> Worker \cup {NoWorker}]
    BY <1>1, <1>2, GotoType, ReleaseType DEF Busy
  <1> QED
    BY <1>2, <1>3, <1>4, <1>5 DEF Busy, TypeOK

LEMMA StopType ==
    ASSUME NEW w, NEW p \in Position, NEW s \in {"failed", "unknown"}, Busy(w), Stop(w, p, s)
    PROVE  /\ WorkerType' /\ job' \in [Flow -> JobStatus] /\ lead' \in [Lead -> LeadRow]
           /\ exec' \in [Flow -> ExecStatus] /\ act' \in [Flow -> [Position -> ActStatus]]
           /\ ses' \in [Worker -> Session]
           /\ lock' \in [Account -> Worker \cup {NoWorker}]
  <1> DEFINE final == Stopped(w, p, s)
  <1>1. s \in ExecStatus /\ s \in ActStatus /\ "skipped" \in ActStatus /\ "finish" \in Stage
    BY DEF ExecStatus, ActStatus, Stage
  <1>2. final \in [Position -> ActStatus]
    BY <1>1, SessionType DEF Stopped
  <1> HIDE DEF final
  <1>3. /\ WriteExec(w, s) /\ WriteActs(w, final) /\ Goto(w, "finish") /\ Release(w)
        /\ Remember(w, s, final, ses[w].tries) /\ UNCHANGED <<job, lead>>
    BY DEF Stop, final
  <1>4. act' \in [Flow -> [Position -> ActStatus]]
    BY <1>2, <1>3, BusyHolds DEF WriteActs, Busy, TypeOK
  <1>5. ses' \in [Worker -> Session] /\ exec' \in [Flow -> ExecStatus]
    BY <1>1, <1>2, <1>3, RememberType, SessionType, WriteExecType
  <1>6. WorkerType' /\ lock' \in [Account -> Worker \cup {NoWorker}]
    BY <1>1, <1>3, GotoType, ReleaseType DEF Busy
  <1> QED
    BY <1>3, <1>4, <1>5, <1>6 DEF Busy, TypeOK

LEMMA ParkType ==
    ASSUME NEW w, NEW p \in Position, NEW s \in ActStatus, Busy(w), Park(w, p, s)
    PROVE  /\ WorkerType' /\ job' \in [Flow -> JobStatus] /\ lead' \in [Lead -> LeadRow]
           /\ exec' \in [Flow -> ExecStatus] /\ act' \in [Flow -> [Position -> ActStatus]]
           /\ ses' \in [Worker -> Session]
           /\ lock' \in [Account -> Worker \cup {NoWorker}]
  <1>1. "waiting" \in ExecStatus /\ "pending" \in JobStatus
    BY DEF ExecStatus, ExecActive, JobStatus
  <1>2. /\ WriteExec(w, "waiting") /\ WriteAct(w, p, s) /\ Drop(w) /\ Release(w)
        /\ job' = [job EXCEPT ![flow[w]] = "pending"] /\ lead' = lead
    BY DEF Park
  <1>3. exec' \in [Flow -> ExecStatus] /\ act' \in [Flow -> [Position -> ActStatus]]
    BY <1>1, <1>2, WriteExecType, WriteActType
  <1>4. WorkerType' /\ ses' \in [Worker -> Session] /\ lock' \in [Account -> Worker \cup {NoWorker}]
    BY <1>2, DropType, ReleaseType DEF Busy
  <1> QED
    BY <1>1, <1>2, <1>3, <1>4 DEF Busy, TypeOK

LEMMA BackOffType ==
    ASSUME NEW w, NEW p \in Position, NEW n \in Nat, Busy(w), BackOff(w, p, n)
    PROVE  /\ WorkerType' /\ job' \in [Flow -> JobStatus] /\ lead' \in [Lead -> LeadRow]
           /\ exec' \in [Flow -> ExecStatus] /\ act' \in [Flow -> [Position -> ActStatus]]
           /\ ses' \in [Worker -> Session] /\ tries' \in [Flow -> Nat]
           /\ lock' \in [Account -> Worker \cup {NoWorker}]
  <1>1. tries' \in [Flow -> Nat]
    BY BusyHolds DEF BackOff, Busy, TypeOK
  <1>2. Park(w, p, "pending") \/ Stop(w, p, "failed")
    BY DEF BackOff
  <1>3. "pending" \in ActStatus
    BY DEF ActStatus
  <1>4. CASE Park(w, p, "pending")
    BY <1>1, <1>3, <1>4, ParkType
  <1>5. CASE Stop(w, p, "failed")
    BY <1>1, <1>5, StopType
  <1> QED
    BY <1>2, <1>4, <1>5

LEMMA RefusedType ==
    ASSUME NEW w, NEW p \in Position, Busy(w), Refused(w, p)
    PROVE  /\ WorkerType' /\ job' \in [Flow -> JobStatus] /\ lead' \in [Lead -> LeadRow]
           /\ exec' \in [Flow -> ExecStatus] /\ act' \in [Flow -> [Position -> ActStatus]]
           /\ ses' \in [Worker -> Session] /\ active' \in [Source -> BOOLEAN]
           /\ lock' \in [Account -> Worker \cup {NoWorker}]
  <1>1. Stop(w, p, "failed")
    BY DEF Refused
  <1>2. active' \in [Source -> BOOLEAN]
    BY DEF Refused, Busy, TypeOK
  <1> QED
    BY <1>1, <1>2, StopType

LEMMA UncertainType ==
    ASSUME NEW f \in Flow, TypeOK, Uncertain(f)
    PROVE  /\ job' \in [Flow -> JobStatus] /\ exec' \in [Flow -> ExecStatus]
           /\ act' \in [Flow -> [Position -> ActStatus]] /\ msg' \in [Flow -> MsgStatus]
  <1>1. "unknown" \in JobStatus /\ "unknown" \in ExecStatus /\ "unknown" \in ActStatus
        /\ "unknown" \in MsgStatus
    BY DEF JobStatus, ExecStatus, ActStatus, MsgStatus
  <1>2. act' \in [Flow -> [Position -> ActStatus]]
    BY <1>1 DEF TypeOK, Uncertain
  <1> QED
    BY <1>1, <1>2 DEF TypeOK, Uncertain

-----------------------------------------------------------------------------
\* The initial state.
LEMMA InitType == Init => TypeOK
  <1> SUFFICES ASSUME Init PROVE TypeOK
    OBVIOUS
  <1>1. act \in [Flow -> [Position -> ActStatus]]
    BY DEF Init, ActStatus
  <1>2. lead \in [Lead -> LeadRow]
    BY DEF Init, NoLead, LeadRow
  <1>3. crashes \in 0..MaxCrashes
    BY BoundAssumption DEF Init
  <1> QED
    BY <1>1, <1>2, <1>3, NoSessionType
    DEF Init, TypeOK, JobStatus, ExecStatus, ExecActive, MsgStatus, Stage

\* The loop: everything a worker does up to its call of the provider.
LEMMA ClaimType ==
    ASSUME TypeOK, NEW w \in Worker, NEW f \in Flow, Claim(w, f) PROVE TypeOK'
  BY DEF Claim, TypeOK, database, remote, JobStatus, Stage

LEMMA LoadType ==
    ASSUME TypeOK, NEW w \in Worker, LoadExecution(w) PROVE TypeOK'
  <1>1. Busy(w)
    BY DEF LoadExecution, Busy
  <1>2. exec[flow[w]] \in ExecStatus
    BY <1>1, BusyHolds DEF TypeOK
  <1>3. ses' \in [Worker -> Session]
    BY <1>1, <1>2, RememberType, SessionType DEF LoadExecution
  <1>4. WorkerType'
    <2>1. "lock" \in Stage /\ "finish" \in Stage
      BY DEF Stage
    <2> QED
      BY <1>1, <2>1, GotoType DEF LoadExecution
  <1> QED
    BY <1>3, <1>4 DEF LoadExecution, TypeOK, WorkerType, database, remote

LEMMA LockType ==
    ASSUME TypeOK, NEW w \in Worker, LockAccount(w) PROVE TypeOK'
  <1>1. Busy(w)
    BY DEF LockAccount, Busy
  <1>2. flow[w] \in Flow /\ AccountOf[flow[w]] \in Account
    BY <1>1, BusyHolds, WiringAssumption
  <1>3. CASE active[SourceOf[flow[w]]]
    <2>1. /\ lock' = [lock EXCEPT ![AccountOf[flow[w]]] = w]
          /\ Remember(w, ses[w].exec, act[flow[w]], tries[flow[w]])
          /\ Goto(w, "run") /\ exec' = exec
      BY <1>3 DEF LockAccount
    <2>2. ses' \in [Worker -> Session]
      BY <1>1, <1>2, <2>1, RememberType, SessionType DEF TypeOK
    <2>3. WorkerType'
      BY <1>1, <2>1, GotoType DEF Stage
    <2>4. lock' \in [Account -> Worker \cup {NoWorker}]
      BY <1>2, <2>1 DEF TypeOK
    <2> QED
      BY <2>1, <2>2, <2>3, <2>4 DEF LockAccount, TypeOK, WorkerType, remote
  <1>4. CASE ~active[SourceOf[flow[w]]]
    <2>1. /\ WriteExec(w, "cancelled") /\ Goto(w, "finish") /\ UNCHANGED <<lock, ses>>
      BY <1>4 DEF LockAccount
    <2>2. exec' \in [Flow -> ExecStatus]
      BY <1>1, <2>1, WriteExecType DEF ExecStatus
    <2>3. WorkerType'
      BY <1>1, <2>1, GotoType DEF Stage
    <2> QED
      BY <2>1, <2>2, <2>3 DEF LockAccount, TypeOK, WorkerType, remote
  <1> QED
    BY <1>3, <1>4

LEMMA LoopType ==
    ASSUME TypeOK, NEW w \in Worker, FoundSending(w) \/ Delay(w) \/ ZeroDelay(w)
    PROVE  TypeOK'
  <1>1. Busy(w)
    BY DEF FoundSending, Delay, ZeroDelay, Busy
  <1>2. "complete" \in ActStatus
    BY DEF ActStatus, ActDone
  <1>3. CASE FoundSending(w)
    <2>1. PICK p \in Position : Stop(w, p, "unknown")
      BY <1>3 DEF FoundSending
    <2> QED
      BY <1>1, <1>3, <2>1, StopType DEF FoundSending, TypeOK, WorkerType, remote
  <1>4. CASE Delay(w)
    <2>1. PICK p \in Position : Park(w, p, "complete")
      BY <1>4 DEF Delay
    <2> QED
      BY <1>1, <1>2, <1>4, <2>1, ParkType DEF Delay, TypeOK, WorkerType, remote
  <1>5. CASE ZeroDelay(w)
    <2>1. PICK p \in Position : ActionCommit(w, p, "complete")
      BY <1>5 DEF ZeroDelay
    <2> QED
      BY <1>1, <1>2, <1>5, <2>1, ActionCommitType DEF ZeroDelay, TypeOK, WorkerType, remote
  <1> QED
    BY <1>3, <1>4, <1>5

LEMMA LeadType ==
    ASSUME TypeOK, NEW w \in Worker, FetchLead(w) PROVE TypeOK'
  <1>1. Busy(w)
    BY DEF FetchLead, Busy
  <1>2. lead[LeadOf[flow[w]]] \in LeadRow
    BY <1>1, BusyHolds, WiringAssumption DEF TypeOK
  <1>3. ses' \in [Worker -> Session]
    BY <1>1, <1>2, RememberLeadType, SessionType DEF FetchLead
  <1>4. WorkerType'
    BY <1>1, GotoType DEF FetchLead, Stage
  <1> QED
    BY <1>3, <1>4 DEF FetchLead, TypeOK, WorkerType, database, remote

LEMMA ApplyLeadType ==
    ASSUME TypeOK, NEW w \in Worker, ApplyLead(w) PROVE TypeOK'
  <1> DEFINE f == flow[w]
             mine == ses[w].lead
             row(p) == [exists |-> TRUE,
                        notes |-> IF Program[f][p] = "NOTE"
                                  THEN [mine.notes EXCEPT ![<<f, p>>] = @ + 1]
                                  ELSE mine.notes]
  <1>1. Busy(w)
    BY DEF ApplyLead, Busy
  <1>2. f \in Flow /\ LeadOf[f] \in Lead
    BY <1>1, BusyHolds, WiringAssumption
  <1>3. mine.notes \in [Effect -> Nat]
    BY <1>1, SessionType DEF LeadRow
  <1>4. ASSUME NEW p \in Position PROVE row(p) \in LeadRow
    <2>1. [mine.notes EXCEPT ![<<f, p>>] = @ + 1] \in [Effect -> Nat]
      BY <1>2, <1>3 DEF Effect
    <2> QED
      BY <1>3, <2>1 DEF LeadRow
  <1> HIDE DEF mine
  <1>5. PICK p \in Position :
          /\ lead' = [lead EXCEPT ![LeadOf[f]] =
                        IF Program[f][p] = "NOTE" \/ ~mine.exists THEN row(p) ELSE @]
          /\ WriteExec(w, "running") /\ WriteAct(w, p, "complete")
          /\ RememberLead(w, "running", Marked(w, p, "complete"), row(p))
    BY DEF ApplyLead, mine
  <1>6. row(p) \in LeadRow
    BY <1>4
  <1> HIDE DEF row, f
  <1>7. lead' \in [Lead -> LeadRow]
    BY <1>2, <1>5, <1>6 DEF TypeOK
  <1>8. "running" \in ExecStatus /\ "complete" \in ActStatus /\ "run" \in Stage
    BY DEF ExecStatus, ExecActive, ActStatus, ActDone, Stage
  <1>9. ses' \in [Worker -> Session]
    BY <1>1, <1>5, <1>6, <1>8, MarkedType, RememberLeadType
  <1>10. exec' \in [Flow -> ExecStatus] /\ act' \in [Flow -> [Position -> ActStatus]]
    BY <1>1, <1>5, <1>8, WriteExecType, WriteActType
  <1>11. Goto(w, "run") /\ Release(w) /\ UNCHANGED <<job, tries, msg, active, remote, crashes>>
    BY DEF ApplyLead
  <1>12. WorkerType' /\ lock' \in [Account -> Worker \cup {NoWorker}]
    BY <1>1, <1>8, <1>11, GotoType, ReleaseType
  <1> QED
    BY <1>7, <1>9, <1>10, <1>11, <1>12 DEF TypeOK, WorkerType, remote

LEMMA RecheckType ==
    ASSUME TypeOK, NEW w \in Worker, Recheck(w) PROVE TypeOK'
  <1>1. Busy(w)
    BY DEF Recheck, Busy
  <1>2. PICK p \in Position :
          \/ Goto(w, "checked") /\ UNCHANGED <<job, exec, act, lead, lock, ses>>
          \/ Stop(w, p, "failed")
    BY DEF Recheck
  <1>3. UNCHANGED <<tries, msg, active, remote, crashes>>
    BY DEF Recheck
  <1>4. CASE Goto(w, "checked") /\ UNCHANGED <<job, exec, act, lead, lock, ses>>
    BY <1>1, <1>3, <1>4, GotoType DEF TypeOK, WorkerType, Stage, remote
  <1>5. CASE Stop(w, p, "failed")
    BY <1>1, <1>3, <1>5, StopType DEF TypeOK, WorkerType, remote
  <1> QED
    BY <1>2, <1>4, <1>5

LEMMA WindowType ==
    ASSUME TypeOK, NEW w \in Worker, WindowThrottled(w) \/ WindowRefused(w) PROVE TypeOK'
  <1>1. Busy(w)
    BY DEF WindowThrottled, WindowRefused, Busy
  <1>2. CASE WindowThrottled(w)
    <2>1. PICK p \in Position : BackOff(w, p, ses[w].tries + 1)
      BY <1>2 DEF WindowThrottled
    <2>2. ses[w].tries + 1 \in Nat
      BY <1>1, SessionType
    <2> QED
      BY <1>1, <1>2, <2>1, <2>2, BackOffType DEF WindowThrottled, TypeOK, WorkerType, remote
  <1>3. CASE WindowRefused(w)
    <2>1. PICK p \in Position : Refused(w, p)
      BY <1>3 DEF WindowRefused
    <2> QED
      BY <1>1, <1>3, <2>1, RefusedType DEF WindowRefused, TypeOK, WorkerType, remote
  <1> QED
    BY <1>2, <1>3

LEMMA MarkType ==
    ASSUME TypeOK, NEW w \in Worker, MarkSending(w) PROVE TypeOK'
  <1>1. Busy(w)
    BY DEF MarkSending, Busy
  <1>2. flow[w] \in Flow /\ ses[w].tries + 1 \in Nat
    BY <1>1, BusyHolds, SessionType
  <1>3. PICK p \in Position :
          /\ WriteExec(w, "running") /\ WriteAct(w, p, "sending")
          /\ Remember(w, "running", Marked(w, p, "sending"), ses[w].tries + 1)
    BY DEF MarkSending
  <1>4. "running" \in ExecStatus /\ "sending" \in ActStatus /\ "sending" \in MsgStatus
        /\ "inflight" \in Stage
    BY DEF ExecStatus, ExecActive, ActStatus, MsgStatus, Stage
  <1>5. exec' \in [Flow -> ExecStatus] /\ act' \in [Flow -> [Position -> ActStatus]]
    BY <1>1, <1>3, <1>4, WriteExecType, WriteActType
  <1>6. ses' \in [Worker -> Session]
    BY <1>1, <1>2, <1>3, <1>4, MarkedType, RememberType
  <1>7. msg' \in [Flow -> MsgStatus] /\ tries' \in [Flow -> Nat]
    BY <1>2, <1>4 DEF MarkSending, TypeOK
  <1>8. WorkerType' /\ lock' \in [Account -> Worker \cup {NoWorker}]
    BY <1>1, <1>4, GotoType, ReleaseType DEF MarkSending
  <1> QED
    BY <1>5, <1>6, <1>7, <1>8 DEF MarkSending, TypeOK, WorkerType, remote

\* The exchange with the provider.
LEMMA AnswerType ==
    ASSUME TypeOK, NEW w \in Worker, Accept(w) \/ Receive(w) \/ PostPublicReply(w)
    PROVE  TypeOK'
  <1>1. Busy(w)
    BY DEF Accept, Receive, PostPublicReply, Busy
  <1>2. flow[w] \in Flow
    BY <1>1, BusyHolds
  <1>3. {"accepted", "reply", "record"} \subseteq Stage
    BY DEF Stage
  <1>4. CASE Accept(w)
    <2>1. WorkerType'
      BY <1>1, <1>3, <1>4, GotoType DEF Accept
    <2>2. delivered' = [delivered EXCEPT ![flow[w]] = @ + 1]
      BY <1>4 DEF Accept
    <2>3. delivered' \in [Flow -> Nat]
      BY <1>2, <2>2 DEF TypeOK
    <2>4. UNCHANGED <<database, active, lock, ses, replied, crashes>>
      BY <1>4 DEF Accept
    <2> QED
      BY <2>1, <2>3, <2>4 DEF TypeOK, WorkerType, database
  <1>5. CASE Receive(w)
    <2>1. WorkerType'
      BY <1>1, <1>3, <1>5, GotoType DEF Receive
    <2> QED
      BY <1>5, <2>1 DEF Receive, TypeOK, WorkerType, database, remote
  <1>6. CASE PostPublicReply(w)
    <2>1. WorkerType'
      BY <1>1, <1>3, <1>6, GotoType DEF PostPublicReply
    <2>2. replied' = [replied EXCEPT ![flow[w]] = @ + 1] \/ replied' = replied
      BY <1>6 DEF PostPublicReply
    <2>3. replied' \in [Flow -> Nat]
      <3>1. replied \in [Flow -> Nat] /\ replied[flow[w]] + 1 \in Nat
        BY <1>2 DEF TypeOK
      <3> QED
        BY <2>2, <3>1
    <2>4. UNCHANGED <<database, active, lock, ses, delivered, crashes>>
      BY <1>6 DEF PostPublicReply
    <2> QED
      BY <2>1, <2>3, <2>4 DEF TypeOK, WorkerType, database
  <1> QED
    BY <1>4, <1>5, <1>6

LEMMA MsgType ==
    ASSUME NEW f \in Flow, TypeOK, NEW s \in MsgStatus, msg' = [msg EXCEPT ![f] = s]
    PROVE  msg' \in [Flow -> MsgStatus]
  BY DEF TypeOK

LEMMA FailureType ==
    ASSUME TypeOK, NEW w \in Worker, TimeOut(w) \/ Reject(w) \/ Throttle(w)
    PROVE  TypeOK'
  <1>1. Busy(w)
    BY DEF TimeOut, Reject, Throttle, Busy
  <1>2. flow[w] \in Flow
    BY <1>1, BusyHolds
  <1>3. {"unknown", "failed", "queued"} \subseteq MsgStatus
    BY DEF MsgStatus
  <1>4. CASE TimeOut(w)
    <2>1. PICK p \in Position : Stop(w, p, "unknown")
      BY <1>4 DEF TimeOut
    <2>2. msg' \in [Flow -> MsgStatus]
      BY <1>2, <1>3, <1>4, MsgType DEF TimeOut
    <2> QED
      BY <1>1, <1>4, <2>1, <2>2, StopType DEF TimeOut, TypeOK, WorkerType, remote
  <1>5. CASE Reject(w)
    <2>1. PICK p \in Position : Refused(w, p)
      BY <1>5 DEF Reject
    <2>2. msg' \in [Flow -> MsgStatus]
      BY <1>2, <1>3, <1>5, MsgType DEF Reject
    <2> QED
      BY <1>1, <1>5, <2>1, <2>2, RefusedType DEF Reject, TypeOK, WorkerType, remote
  <1>6. CASE Throttle(w)
    <2>1. PICK p \in Position : BackOff(w, p, ses[w].tries)
      BY <1>6 DEF Throttle
    <2>2. msg' \in [Flow -> MsgStatus]
      BY <1>2, <1>3, <1>6, MsgType DEF Throttle
    <2>3. ses[w].tries \in Nat
      BY <1>1, SessionType
    <2> QED
      BY <1>1, <1>6, <2>1, <2>2, <2>3, BackOffType DEF Throttle, TypeOK, WorkerType, remote
  <1> QED
    BY <1>4, <1>5, <1>6

LEMMA RecordType ==
    ASSUME TypeOK, NEW w \in Worker, RecordSent(w) PROVE TypeOK'
  <1>1. Busy(w)
    BY DEF RecordSent, Busy
  <1>2. PICK p \in Position : ActionCommit(w, p, "sent")
    BY DEF RecordSent
  <1>3. "sent" \in ActStatus /\ "sent" \in MsgStatus
    BY DEF ActStatus, ActDone, MsgStatus
  <1>4. msg' \in [Flow -> MsgStatus]
    BY <1>1, <1>3, BusyHolds, MsgType DEF RecordSent
  <1> QED
    BY <1>1, <1>2, <1>3, <1>4, ActionCommitType DEF RecordSent, TypeOK, WorkerType, remote

LEMMA FinishType ==
    ASSUME TypeOK, NEW w \in Worker, FinishFlow(w) PROVE TypeOK'
  <1>1. Busy(w)
    BY DEF FinishFlow, Busy
  <1>2. "complete" \in ExecStatus /\ "finish" \in Stage
    BY DEF ExecStatus, Stage
  <1>3. exec' \in [Flow -> ExecStatus]
    BY <1>1, <1>2, WriteExecType DEF FinishFlow
  <1>4. ses' \in [Worker -> Session]
    BY <1>1, <1>2, RememberType, SessionType DEF FinishFlow
  <1>5. WorkerType' /\ lock' \in [Account -> Worker \cup {NoWorker}]
    BY <1>1, <1>2, GotoType, ReleaseType DEF FinishFlow
  <1> QED
    BY <1>3, <1>4, <1>5 DEF FinishFlow, TypeOK, WorkerType, remote

\* The end of a job, failures and recovery.
LEMMA CompleteType ==
    ASSUME TypeOK, NEW w \in Worker, CompleteJob(w) PROVE TypeOK'
  <1>1. flow[w] \in Flow
    BY BusyHolds DEF CompleteJob, Busy
  <1>2. job' \in [Flow -> JobStatus]
    BY <1>1 DEF CompleteJob, TypeOK, JobStatus
  <1>3. WorkerType' /\ ses' \in [Worker -> Session]
    BY DropType DEF CompleteJob
  <1> QED
    BY <1>2, <1>3 DEF CompleteJob, TypeOK, WorkerType, remote

LEMMA RaiseType ==
    ASSUME TypeOK, NEW w \in Worker, Raise(w) PROVE TypeOK'
  <1>1. flow[w] \in Flow
    BY BusyHolds DEF Raise, Busy
  <1>2. /\ job' \in [Flow -> JobStatus] /\ exec' \in [Flow -> ExecStatus]
        /\ act' \in [Flow -> [Position -> ActStatus]] /\ msg' \in [Flow -> MsgStatus]
    BY <1>1, UncertainType DEF Raise
  <1>3. /\ WorkerType' /\ ses' \in [Worker -> Session]
        /\ lock' \in [Account -> Worker \cup {NoWorker}]
    BY DropType, ReleaseType DEF Raise
  <1> QED
    BY <1>2, <1>3 DEF Raise, TypeOK, WorkerType, remote

LEMMA CrashType ==
    ASSUME TypeOK, NEW w \in Worker, Crash(w) PROVE TypeOK'
  <1>1. /\ WorkerType' /\ ses' \in [Worker -> Session]
        /\ lock' \in [Account -> Worker \cup {NoWorker}]
    BY DropType, ReleaseType DEF Crash
  <1>2. crashes' \in 0..MaxCrashes
    BY BoundAssumption DEF Crash, TypeOK
  <1> QED
    BY <1>1, <1>2 DEF Crash, TypeOK, WorkerType, database, remote

LEMMA RecoverType ==
    ASSUME TypeOK, NEW w \in Worker, NEW f \in Flow, RecoverSending(w, f) \/ RecoverIdle(w, f)
    PROVE  TypeOK'
  <1>1. CASE RecoverSending(w, f)
    BY <1>1, UncertainType DEF RecoverSending, TypeOK, worker, remote
  <1>2. CASE RecoverIdle(w, f)
    BY <1>2 DEF RecoverIdle, TypeOK, JobStatus, worker, remote
  <1> QED
    BY <1>1, <1>2

LEMMA SourceType ==
    ASSUME TypeOK, NEW s \in Source, SetSource(s) PROVE TypeOK'
  BY DEF SetSource, TypeOK, database, worker, remote

\* Every step keeps the types.
LEMMA NextType == TypeOK /\ [Next]_vars => TypeOK'
  <1> SUFFICES ASSUME TypeOK, [Next]_vars PROVE TypeOK'
    OBVIOUS
  <1>1. ASSUME NEW w \in Worker, Handle(w) PROVE TypeOK'
    BY <1>1, LoadType, LockType, LoopType, LeadType, ApplyLeadType, RecheckType, WindowType,
       MarkType, AnswerType, FailureType, RecordType, FinishType, CompleteType, RaiseType
    DEF Handle, LeadTaken
  <1>2. ASSUME NEW w \in Worker, Poll(w) PROVE TypeOK'
    BY <1>2, ClaimType, RecoverType DEF Poll
  <1>3. CASE UNCHANGED vars
    BY <1>3 DEF vars, TypeOK, database, worker, remote
  <1> QED
    BY <1>1, <1>2, <1>3, RaiseType, CrashType, SourceType DEF Next

\* Whatever the workers, flows and programs, every row, session and lock of the
\* flow workers (worker.py, flows.py) keeps its type.
THEOREM TypeCorrect == Spec => []TypeOK
  BY InitType, NextType, PTL DEF Spec

-----------------------------------------------------------------------------
(* The reply of a flow. *)

\* A step of worker w on flow f touches no other worker and no other flow's rows.
OtherWorkers(w) == \A v \in Worker \ {w} :
    pc'[v] = pc[v] /\ flow'[v] = flow[v] /\ ses'[v] = ses[v]
OtherFlows(f) == \A g \in Flow \ {f} :
    /\ job'[g] = job[g] /\ exec'[g] = exec[g] /\ act'[g] = act[g]
    /\ msg'[g] = msg[g] /\ delivered'[g] = delivered[g] /\ replied'[g] = replied[g]

LEMMA SendIsOne ==
    ASSUME NEW f \in Flow, NEW p \in Sends(f), NEW q \in Sends(f) PROVE p = q
  BY ProgramAssumption

LEMMA StepsAreNat ==
    ASSUME NEW f \in Flow PROVE Steps(f) \subseteq Nat /\ Steps(f) \subseteq Position
  <1>1. Program[f] \in Seq(Kind)
    BY ProgramAssumption
  <1>2. Steps(f) = 1..Len(Program[f]) /\ Len(Program[f]) \in Nat
    BY <1>1 DEF Steps
  <1> QED
    BY <1>2 DEF Position

LEMMA CurrentIsOne ==
    ASSUME NEW w, flow[w] \in Flow, NEW p, NEW q, Current(w, p), Current(w, q)
    PROVE  p = q
  <1>1. p \in Nat /\ q \in Nat
    BY StepsAreNat DEF Current
  <1>2. p <= q /\ q <= p
    BY DEF Current
  <1> QED
    BY <1>1, <1>2

\* At the send, and while it is with the provider, the loop stands at the flow's send.
LEMMA CurrentIsSend ==
    ASSUME DeliveryInv, NEW w \in Worker, pc[w] \in Calling \cup {"checked"},
           NEW p, Current(w, p)
    PROVE  p \in Sends(flow[w])
  <1>1. flow[w] \in Flow
    BY DEF DeliveryInv, TypeOK, Calling
  <1>2. \E q \in Sends(flow[w]) : Current(w, q)
    BY DEF DeliveryInv, WorkerInv
  <1> QED
    BY <1>1, <1>2, CurrentIsOne

\* The invariant survives a step of w on f if it does at w and at f.
LEMMA LocalStep ==
    ASSUME DeliveryInv, TypeOK', NEW w \in Worker, NEW f \in Flow,
           \A v \in Worker \ {w} : pc[v] # "idle" => flow[v] # f,
           pc'[w] # "idle" => flow'[w] = f,
           OtherWorkers(w), OtherFlows(f), WorkerInv(w)', FlowInv(f)'
    PROVE  DeliveryInv'
  <1>1. ASSUME NEW g \in Flow PROVE FlowInv(g)'
    <2>1. CASE g = f
      BY <2>1
    <2>2. CASE g # f
      <3>1. FlowInv(g)
        BY DEF DeliveryInv
      <3> QED
        BY <2>2, <3>1 DEF OtherFlows, FlowInv
    <2> QED
      BY <2>1, <2>2
  <1>2. ASSUME NEW v \in Worker PROVE WorkerInv(v)'
    <2>1. CASE v = w
      BY <2>1
    <2>2. CASE v # w
      <3>1. WorkerInv(v) /\ (pc[v] # "idle" => flow[v] \in Flow \ {f})
        BY <2>2 DEF DeliveryInv, TypeOK
      <3>2. pc'[v] = pc[v] /\ flow'[v] = flow[v] /\ ses'[v] = ses[v]
        BY <2>2 DEF OtherWorkers
      <3>3. CASE pc[v] = "idle"
        BY <3>1, <3>2, <3>3 DEF WorkerInv, Working, Calling
      <3>4. CASE pc[v] # "idle"
        <4> DEFINE g == flow[v]
        <4>1. /\ job'[g] = job[g] /\ exec'[g] = exec[g] /\ act'[g] = act[g]
              /\ msg'[g] = msg[g] /\ delivered'[g] = delivered[g] /\ replied'[g] = replied[g]
          BY <3>1, <3>4 DEF OtherFlows
        <4>2. ASSUME NEW p PROVE Current(v, p)' <=> Current(v, p)
          BY <3>2 DEF Current
        <4> QED
          BY <3>1, <3>2, <3>4, <4>1, <4>2 DEF WorkerInv
      <3> QED
        BY <3>3, <3>4
    <2> QED
      BY <2>1, <2>2
  <1>3. OneOwner'
    <2> SUFFICES ASSUME NEW u \in Worker, NEW v \in Worker,
                        pc'[u] # "idle", pc'[v] # "idle", flow'[u] = flow'[v]
                 PROVE  u = v
      BY DEF OneOwner
    <2>1. OneOwner
      BY DEF DeliveryInv
    <2>2. CASE u # w /\ v # w
      BY <2>1, <2>2 DEF OtherWorkers, OneOwner
    <2>3. CASE u = w \/ v = w
      BY <2>3 DEF OtherWorkers
    <2> QED
      BY <2>2, <2>3
  <1> QED
    BY <1>1, <1>2, <1>3 DEF DeliveryInv

\* The worker's flow is its own.
LEMMA OwnFlow ==
    ASSUME DeliveryInv, NEW w \in Worker, pc[w] # "idle"
    PROVE  /\ Busy(w) /\ flow[w] \in Flow /\ WorkerInv(w) /\ FlowInv(flow[w])
           /\ \A v \in Worker \ {w} : pc[v] # "idle" => flow[v] # flow[w]
  <1>1. Busy(w) /\ flow[w] \in Flow
    BY DEF DeliveryInv, TypeOK, Busy
  <1> QED
    BY <1>1 DEF DeliveryInv, OneOwner

\* What the pieces of a commit write.
LEMMA GotoWrites ==
    ASSUME NEW w, Busy(w), NEW stage, Goto(w, stage)
    PROVE  /\ pc'[w] = stage /\ flow' = flow
           /\ \A v \in Worker \ {w} : pc'[v] = pc[v]
  BY DEF Goto, Busy, TypeOK

LEMMA DropWrites ==
    ASSUME NEW w, Busy(w), Drop(w)
    PROVE  pc'[w] = "idle" /\ flow'[w] = NoFlow /\ OtherWorkers(w)
  BY DEF Drop, Busy, TypeOK, OtherWorkers

LEMMA RememberWrites ==
    ASSUME NEW w, Busy(w), NEW e, NEW a, NEW n, Remember(w, e, a, n)
    PROVE  /\ ses'[w].exec = e /\ ses'[w].act = a
           /\ \A v \in Worker \ {w} : ses'[v] = ses[v]
  BY DEF Remember, Busy, TypeOK

LEMMA WriteExecWrites ==
    ASSUME NEW w, Busy(w), ses[w].exec = exec[flow[w]], NEW s, WriteExec(w, s)
    PROVE  exec'[flow[w]] = s /\ \A g \in Flow \ {flow[w]} : exec'[g] = exec[g]
  BY BusyHolds DEF WriteExec, Busy, TypeOK

LEMMA WriteActWrites ==
    ASSUME NEW w, Busy(w), ses[w].act = act[flow[w]], NEW p \in Position, NEW s, WriteAct(w, p, s)
    PROVE  /\ act'[flow[w]] = [act[flow[w]] EXCEPT ![p] = s]
           /\ \A g \in Flow \ {flow[w]} : act'[g] = act[g]
  <1>1. flow[w] \in Flow /\ act \in [Flow -> [Position -> ActStatus]]
    BY BusyHolds DEF Busy, TypeOK
  <1>2. CASE act[flow[w]][p] = s
    <2>1. act' = act
      BY <1>2 DEF WriteAct
    <2>2. act[flow[w]] = [act[flow[w]] EXCEPT ![p] = s]
      BY <1>1, <1>2
    <2> QED
      BY <2>1, <2>2
  <1>3. CASE act[flow[w]][p] # s
    BY <1>1, <1>3 DEF WriteAct
  <1> QED
    BY <1>2, <1>3

LEMMA ActionCommitWrites ==
    ASSUME DeliveryInv, NEW w \in Worker, pc[w] \in Working, NEW p \in Position, NEW s,
           ActionCommit(w, p, s)
    PROVE  /\ pc'[w] = "run" /\ flow'[w] = flow[w] /\ OtherWorkers(w) /\ job' = job
           /\ exec'[flow[w]] = "running" /\ \A g \in Flow \ {flow[w]} : exec'[g] = exec[g]
           /\ act'[flow[w]] = [act[flow[w]] EXCEPT ![p] = s]
           /\ \A g \in Flow \ {flow[w]} : act'[g] = act[g]
           /\ ses'[w].exec = "running" /\ ses'[w].act = act'[flow[w]]
  <1>1. Busy(w) /\ ses[w].exec = exec[flow[w]] /\ ses[w].act = act[flow[w]]
    BY OwnFlow DEF Working, WorkerInv
  <1>2. /\ WriteExec(w, "running") /\ WriteAct(w, p, s) /\ Goto(w, "run")
        /\ Remember(w, "running", Marked(w, p, s), ses[w].tries) /\ job' = job
    BY DEF ActionCommit
  <1>3. ses'[w].exec = "running" /\ ses'[w].act = Marked(w, p, s)
        /\ \A v \in Worker \ {w} : ses'[v] = ses[v]
    BY <1>1, <1>2, RememberWrites
  <1>4. OtherWorkers(w) /\ pc'[w] = "run" /\ flow'[w] = flow[w]
    BY <1>1, <1>2, <1>3, GotoWrites DEF OtherWorkers
  <1>5. /\ act'[flow[w]] = [act[flow[w]] EXCEPT ![p] = s]
        /\ \A g \in Flow \ {flow[w]} : act'[g] = act[g]
    BY <1>1, <1>2, WriteActWrites
  <1>6. exec'[flow[w]] = "running" /\ \A g \in Flow \ {flow[w]} : exec'[g] = exec[g]
    BY <1>1, <1>2, WriteExecWrites
  <1> QED
    BY <1>1, <1>2, <1>3, <1>4, <1>5, <1>6 DEF Marked

LEMMA ParkWrites ==
    ASSUME DeliveryInv, NEW w \in Worker, pc[w] \in Working, NEW p \in Position, NEW s,
           Park(w, p, s)
    PROVE  /\ pc'[w] = "idle" /\ flow'[w] = NoFlow /\ OtherWorkers(w)
           /\ job' = [job EXCEPT ![flow[w]] = "pending"]
           /\ exec'[flow[w]] = "waiting" /\ \A g \in Flow \ {flow[w]} : exec'[g] = exec[g]
           /\ act'[flow[w]] = [act[flow[w]] EXCEPT ![p] = s]
           /\ \A g \in Flow \ {flow[w]} : act'[g] = act[g]
  <1>1. Busy(w) /\ ses[w].exec = exec[flow[w]] /\ ses[w].act = act[flow[w]]
    BY OwnFlow DEF Working, WorkerInv
  <1>2. /\ WriteExec(w, "waiting") /\ WriteAct(w, p, s) /\ Drop(w)
        /\ job' = [job EXCEPT ![flow[w]] = "pending"]
    BY DEF Park
  <1>3. OtherWorkers(w) /\ pc'[w] = "idle" /\ flow'[w] = NoFlow
    BY <1>1, <1>2, DropWrites
  <1>4. /\ act'[flow[w]] = [act[flow[w]] EXCEPT ![p] = s]
        /\ \A g \in Flow \ {flow[w]} : act'[g] = act[g]
    BY <1>1, <1>2, WriteActWrites
  <1>5. exec'[flow[w]] = "waiting" /\ \A g \in Flow \ {flow[w]} : exec'[g] = exec[g]
    BY <1>1, <1>2, WriteExecWrites
  <1> QED
    BY <1>2, <1>3, <1>4, <1>5

LEMMA StopWrites ==
    ASSUME DeliveryInv, NEW w \in Worker, pc[w] \in Working, NEW p \in Position, NEW s,
           Stop(w, p, s)
    PROVE  /\ pc'[w] = "finish" /\ flow'[w] = flow[w] /\ OtherWorkers(w) /\ job' = job
           /\ exec'[flow[w]] = s /\ \A g \in Flow \ {flow[w]} : exec'[g] = exec[g]
           /\ act'[flow[w]] = [q \in Position |->
                IF q = p THEN s ELSE IF act[flow[w]][q] = "pending" THEN "skipped"
                ELSE act[flow[w]][q]]
           /\ \A g \in Flow \ {flow[w]} : act'[g] = act[g]
  <1> DEFINE final == Stopped(w, p, s)
  <1>1. Busy(w) /\ flow[w] \in Flow /\ ses[w].exec = exec[flow[w]] /\ ses[w].act = act[flow[w]]
    BY OwnFlow DEF Working, WorkerInv
  <1>2. final = [q \in Position |->
                IF q = p THEN s ELSE IF act[flow[w]][q] = "pending" THEN "skipped"
                ELSE act[flow[w]][q]]
    BY <1>1 DEF Stopped
  <1>3. /\ WriteExec(w, s) /\ WriteActs(w, final) /\ Goto(w, "finish")
        /\ Remember(w, s, final, ses[w].tries) /\ job' = job
    BY DEF Stop
  <1> HIDE DEF final
  <1>4. \A v \in Worker \ {w} : ses'[v] = ses[v]
    BY <1>1, <1>3, RememberWrites
  <1>5. OtherWorkers(w) /\ pc'[w] = "finish" /\ flow'[w] = flow[w]
    BY <1>1, <1>3, <1>4, GotoWrites DEF OtherWorkers
  <1>6. exec'[flow[w]] = s /\ \A g \in Flow \ {flow[w]} : exec'[g] = exec[g]
    BY <1>1, <1>3, WriteExecWrites
  <1>7. act' = [act EXCEPT ![flow[w]] =
                 [q \in Position |-> IF final[q] = ses[w].act[q] THEN act[flow[w]][q] ELSE final[q]]]
    BY <1>3 DEF WriteActs
  <1>8. act \in [Flow -> [Position -> ActStatus]]
    BY <1>1 DEF Busy, TypeOK
  <1>9. /\ act'[flow[w]] =
             [q \in Position |-> IF final[q] = ses[w].act[q] THEN act[flow[w]][q] ELSE final[q]]
        /\ \A g \in Flow \ {flow[w]} : act'[g] = act[g]
    BY <1>1, <1>7, <1>8
  <1>10. act'[flow[w]] = final
    <2>1. act'[flow[w]] = [q \in Position |-> final[q]]
      BY <1>1, <1>9
    <2> QED
      BY <1>2, <2>1
  <1> QED
    BY <1>2, <1>3, <1>5, <1>6, <1>9, <1>10

\* An action that is reached and not marked is pending; if it is the send, nothing
\* was delivered.
LEMMA ReachedIsPending ==
    ASSUME DeliveryInv, NEW w \in Worker, pc[w] \in {"run", "lead", "checked"},
           NEW p, Current(w, p)
    PROVE  /\ p \in Steps(flow[w]) /\ p \in Position /\ act[flow[w]][p] = "pending"
           /\ p \in Sends(flow[w]) => delivered[flow[w]] = 0
  <1> DEFINE f == flow[w]
  <1>1. f \in Flow /\ WorkerInv(w) /\ FlowInv(f)
    BY OwnFlow
  <1>2. p \in Steps(f) /\ p \in Position /\ ses[w].act[p] \notin ActDone
    BY <1>1, StepsAreNat DEF Current
  <1>3. ses[w].act = act[f] /\ exec[f] \in ExecActive /\ act[f][p] # "sending"
    BY <1>1, <1>2 DEF WorkerInv, Working
  <1>4. act[f][p] = "pending"
    BY <1>1, <1>2, <1>3 DEF FlowInv
  <1>5. ASSUME p \in Sends(f) PROVE delivered[f] = 0
    <2> SUFFICES ASSUME delivered[f] # 0 PROVE FALSE
      OBVIOUS
    <2>1. PICK q \in Sends(f) : act[f][q] \in {"sending", "sent", "unknown"}
      BY <1>1 DEF FlowInv
    <2>2. q = p
      BY <1>1, <1>5, SendIsOne
    <2> QED
      BY <1>4, <2>1, <2>2
  <1> QED
    BY <1>2, <1>4, <1>5

-----------------------------------------------------------------------------
\* The commits that several actions share keep the invariant.
LEMMA StopKeeps ==
    ASSUME DeliveryInv, TypeOK', NEW w \in Worker, NEW f \in Flow, flow[w] = f,
           pc[w] \in Working,
           NEW p, Current(w, p), NEW s \in {"failed", "unknown"}, Stop(w, p, s),
           \/ delivered[f] = 0 /\ s = "failed"
           \/ pc[w] \in Calling /\ s = "unknown" /\ msg'[f] = "unknown",
           UNCHANGED remote, \A g \in Flow \ {f} : msg'[g] = msg[g]
    PROVE  DeliveryInv'
  <1>1. /\ WorkerInv(w) /\ FlowInv(f) /\ pc[w] # "idle" /\ p \in Steps(f)
        /\ p \in Position /\ Steps(f) \subseteq Position
        /\ \A v \in Worker \ {w} : pc[v] # "idle" => flow[v] # f
    BY OwnFlow, StepsAreNat DEF Working, Current
  <1>2. /\ pc'[w] = "finish" /\ flow'[w] = f /\ OtherWorkers(w) /\ job' = job /\ exec'[f] = s
        /\ act'[f] = [q \in Position |-> IF q = p THEN s
                        ELSE IF act[f][q] = "pending" THEN "skipped" ELSE act[f][q]]
        /\ \A g \in Flow \ {f} : act'[g] = act[g] /\ exec'[g] = exec[g]
    BY <1>1, StopWrites
  <1>3. delivered' = delivered /\ replied' = replied
    BY DEF remote
  <1>4. OtherFlows(f)
    BY <1>2, <1>3 DEF OtherFlows
  <1>5. \A q \in Steps(f) : q # p => act[f][q] # "sending"
    <2>1. CASE pc[w] \in {"run", "lead", "checked"}
      BY <1>1, <2>1 DEF WorkerInv
    <2>2. CASE pc[w] \in Calling
      <3>1. p \in Sends(f)
        BY <2>2, CurrentIsSend
      <3> QED
        BY <1>1, <3>1, SendIsOne DEF FlowInv
    <2> QED
      BY <2>1, <2>2 DEF Working, Calling
  <1>6. \A q \in Steps(f) : act'[f][q] # "sending"
    BY <1>1, <1>2, <1>5
  <1>7. exec'[f] \notin ExecActive
    BY <1>2 DEF ExecActive
  <1>8. WorkerInv(w)'
    BY <1>1, <1>2, <1>6, <1>7 DEF WorkerInv, Working, Calling
  <1>9. \A q \in Sends(f) : act'[f][q] = "sent" => delivered[f] # 0 /\ q # p /\ act[f][q] = "sent"
    BY <1>1, <1>2 DEF Sends, FlowInv
  <1>10. FlowInv(f)'
    <2>1. CASE delivered[f] = 0
      BY <1>1, <1>3, <1>6, <1>7, <1>9, <2>1 DEF FlowInv
    <2>2. CASE pc[w] \in Calling /\ s = "unknown" /\ msg'[f] = "unknown"
      <3>1. p \in Sends(f)
        BY <2>2, CurrentIsSend
      <3>2. act'[f][p] = "unknown" /\ \A q \in Sends(f) : q = p
        BY <1>1, <1>2, <2>2, <3>1, SendIsOne
      <3> QED
        BY <1>1, <1>3, <1>6, <1>7, <2>2, <3>1, <3>2 DEF FlowInv
    <2> QED
      BY <2>1, <2>2
  <1> QED
    BY <1>1, <1>2, <1>4, <1>8, <1>10, LocalStep

LEMMA ParkKeeps ==
    ASSUME DeliveryInv, TypeOK', NEW w \in Worker, NEW f \in Flow, flow[w] = f,
           pc[w] \in Working,
           NEW p, Current(w, p), NEW s \in {"pending", "complete"}, Park(w, p, s),
           \/ pc[w] = "run" /\ msg' = msg
           \/ delivered[f] = 0 /\ s = "pending" /\ pc[w] \in {"checked", "inflight"},
           UNCHANGED remote, \A g \in Flow \ {f} : msg'[g] = msg[g]
    PROVE  DeliveryInv'
  <1>1. /\ WorkerInv(w) /\ FlowInv(f) /\ pc[w] # "idle" /\ p \in Steps(f)
        /\ p \in Position /\ Steps(f) \subseteq Position
        /\ \A v \in Worker \ {w} : pc[v] # "idle" => flow[v] # f
        /\ act[f] \in [Position -> ActStatus] /\ job \in [Flow -> JobStatus]
    BY OwnFlow, StepsAreNat DEF Working, Current, Busy, TypeOK
  <1>2. /\ pc'[w] = "idle" /\ flow'[w] = NoFlow /\ OtherWorkers(w) /\ exec'[f] = "waiting"
        /\ job' = [job EXCEPT ![f] = "pending"]
        /\ act'[f] = [act[f] EXCEPT ![p] = s]
        /\ \A g \in Flow \ {f} : act'[g] = act[g] /\ exec'[g] = exec[g]
    BY <1>1, ParkWrites
  <1>3. delivered' = delivered /\ replied' = replied
    BY DEF remote
  <1>4. OtherFlows(f)
    BY <1>2, <1>3 DEF OtherFlows
  <1>5. \A q \in Steps(f) : q # p => act[f][q] # "sending"
    <2>1. CASE pc[w] \in {"run", "lead", "checked"}
      BY <1>1, <2>1 DEF WorkerInv
    <2>2. CASE pc[w] \in Calling
      <3>1. p \in Sends(f)
        BY <2>2, CurrentIsSend
      <3> QED
        BY <1>1, <3>1, SendIsOne DEF FlowInv
    <2> QED
      BY <2>1, <2>2 DEF Working, Calling
  <1>6. \A q \in Steps(f) : act'[f][q] # "sending"
    BY <1>1, <1>2, <1>5
  <1>7. WorkerInv(w)'
    BY <1>2 DEF WorkerInv, Working, Calling
  <1>8. job'[f] = "pending" /\ exec[f] \in ExecActive
    BY <1>1, <1>2 DEF WorkerInv
  <1>9. \A q \in Steps(f) : act'[f][q] \in ActDone \cup {"pending", "sending"}
    BY <1>1, <1>2, <1>8 DEF FlowInv, ActDone
  <1>10. FlowInv(f)'
    <2>1. CASE delivered[f] = 0
      <3>1. \A q \in Sends(f) : act'[f][q] # "sent"
        BY <1>1, <1>2, <2>1 DEF FlowInv, Sends
      <3> QED
        BY <1>1, <1>3, <1>6, <1>8, <1>9, <2>1, <3>1 DEF FlowInv
    <2>2. CASE delivered[f] # 0 /\ pc[w] = "run" /\ msg' = msg
      <3>1. p \notin Sends(f)
        BY <2>2, ReachedIsPending
      <3>2. \A q \in Sends(f) : act'[f][q] = act[f][q]
        BY <1>1, <1>2, <3>1 DEF Sends
      <3> QED
        BY <1>1, <1>3, <1>6, <1>8, <1>9, <2>2, <3>2 DEF FlowInv
    <2> QED
      BY <2>1, <2>2
  <1> QED
    BY <1>1, <1>2, <1>4, <1>7, <1>10, LocalStep

\* An action other than the send completes and the loop goes on.
LEMMA CommitKeeps ==
    ASSUME DeliveryInv, TypeOK', NEW w \in Worker, NEW f \in Flow, flow[w] = f,
           pc[w] \in {"run", "lead"},
           NEW p, Current(w, p),
           pc'[w] = "run", flow'[w] = f, OtherWorkers(w), job' = job,
           exec'[f] = "running", \A g \in Flow \ {f} : exec'[g] = exec[g],
           act'[f] = [act[f] EXCEPT ![p] = "complete"],
           \A g \in Flow \ {f} : act'[g] = act[g],
           ses'[w].exec = "running", ses'[w].act = act'[f],
           msg' = msg, UNCHANGED remote
    PROVE  DeliveryInv'
  <1>1. /\ WorkerInv(w) /\ FlowInv(f) /\ pc[w] # "idle" /\ p \in Steps(f)
        /\ p \in Position /\ Steps(f) \subseteq Position
        /\ \A v \in Worker \ {w} : pc[v] # "idle" => flow[v] # f
        /\ act[f] \in [Position -> ActStatus]
    BY OwnFlow, StepsAreNat DEF Current, Busy, TypeOK
  <1>2. delivered' = delivered /\ replied' = replied
    BY DEF remote
  <1>3. OtherFlows(f)
    BY <1>2 DEF OtherFlows
  <1>4. exec'[f] \in ExecActive /\ exec[f] \in ExecActive /\ job'[f] = "running"
    BY <1>1 DEF ExecActive, WorkerInv, Working
  <1>5. \A q \in Steps(f) : act'[f][q] # "sending" /\ act'[f][q] \in ActDone \cup {"pending"}
    BY <1>1, <1>4 DEF WorkerInv, FlowInv, ActDone
  <1>6. WorkerInv(w)'
    BY <1>1, <1>4, <1>5 DEF WorkerInv, Working, Calling
  <1>7. FlowInv(f)'
    <2>1. CASE p \in Sends(f)
      <3>1. delivered[f] = 0
        BY <2>1, ReachedIsPending
      <3>2. \A q \in Sends(f) : act'[f][q] # "sent"
        BY <1>1, <3>1 DEF FlowInv, Sends
      <3> QED
        BY <1>1, <1>2, <1>4, <1>5, <3>1, <3>2 DEF FlowInv
    <2>2. CASE p \notin Sends(f)
      <3>1. \A q \in Sends(f) : act'[f][q] = act[f][q]
        BY <1>1, <2>2 DEF Sends
      <3> QED
        BY <1>1, <1>2, <1>4, <1>5, <3>1 DEF FlowInv
    <2> QED
      BY <2>1, <2>2
  <1> QED
    BY <1>1, <1>3, <1>6, <1>7, LocalStep

\* A flow closed as uncertain, by its worker or by recovery.
LEMMA UncertainKeeps ==
    ASSUME TypeOK, NEW f \in Flow, FlowInv(f), Uncertain(f), UNCHANGED remote
    PROVE  FlowInv(f)' /\ OtherFlows(f)
  <1>1. delivered' = delivered /\ replied' = replied
    BY DEF remote
  <1>2. /\ job' = [job EXCEPT ![f] = "unknown"] /\ exec' = [exec EXCEPT ![f] = "unknown"]
        /\ act' = [act EXCEPT ![f] =
                     [p \in Position |-> IF @[p] = "sending" THEN "unknown" ELSE @[p]]]
        /\ msg' = [msg EXCEPT ![f] = IF \E p \in Steps(f) : act[f][p] = "sending"
                                     THEN "unknown" ELSE @]
    BY DEF Uncertain
  <1>3. OtherFlows(f)
    BY <1>1, <1>2 DEF OtherFlows, TypeOK
  <1>4. exec'[f] \notin ExecActive
    BY <1>2 DEF TypeOK, ExecActive
  <1>5. \A p \in Steps(f) :
          act'[f][p] = IF act[f][p] = "sending" THEN "unknown" ELSE act[f][p]
    BY <1>2, StepsAreNat DEF TypeOK
  <1>6. \A p \in Sends(f) : p \in Steps(f)
    BY DEF Sends
  <1>7. delivered'[f] # 0 => \E p \in Sends(f) : act'[f][p] \in {"sending", "sent", "unknown"}
    BY <1>1, <1>5, <1>6 DEF FlowInv
  <1>8. msg'[f] \in {"none", "queued", "failed"} => delivered'[f] = 0
    BY <1>1, <1>2 DEF FlowInv, TypeOK
  <1>9. ASSUME NEW p \in Sends(f), act'[f][p] = "sent"
        PROVE  delivered'[f] = 1 /\ msg'[f] = "sent"
    <2>1. act[f][p] = "sent"
      BY <1>5, <1>6, <1>9
    <2>2. ~ \E q \in Steps(f) : act[f][q] = "sending"
      BY <2>1, SendIsOne DEF FlowInv
    <2> QED
      BY <1>1, <1>2, <2>1, <2>2 DEF FlowInv, TypeOK
  <1>10. FlowInv(f)'
    BY <1>1, <1>4, <1>5, <1>7, <1>8, <1>9 DEF FlowInv
  <1> QED
    BY <1>3, <1>10

-----------------------------------------------------------------------------
\* The initial state, and one lemma for each action or group of like actions.
LEMMA InitSafe == Init => DeliveryInv
  <1> SUFFICES ASSUME Init PROVE DeliveryInv
    OBVIOUS
  <1>1. TypeOK
    BY InitType
  <1>2. ASSUME NEW w \in Worker PROVE WorkerInv(w)
    BY DEF Init, WorkerInv, Working, Calling
  <1>3. ASSUME NEW f \in Flow PROVE FlowInv(f)
    <2>1. Steps(f) \subseteq Position /\ Sends(f) \subseteq Steps(f)
      BY StepsAreNat DEF Sends
    <2> QED
      BY <2>1 DEF Init, FlowInv, ActDone
  <1>4. OneOwner
    BY DEF Init, OneOwner
  <1> QED
    BY <1>1, <1>2, <1>3, <1>4 DEF DeliveryInv

LEMMA ClaimSafe ==
    ASSUME DeliveryInv, TypeOK', NEW w \in Worker, NEW f \in Flow, Claim(w, f)
    PROVE  DeliveryInv'
  <1>1. TypeOK /\ FlowInv(f) /\ WorkerInv(w)
    BY DEF DeliveryInv
  <1>2. /\ pc[w] = "idle" /\ job[f] = "pending" /\ job' = [job EXCEPT ![f] = "running"]
        /\ pc' = [pc EXCEPT ![w] = "load"] /\ flow' = [flow EXCEPT ![w] = f]
        /\ exec' = exec /\ act' = act /\ msg' = msg /\ ses' = ses
        /\ delivered' = delivered /\ replied' = replied
    BY DEF Claim, remote
  <1>3. ASSUME NEW v \in Worker, pc[v] # "idle" PROVE flow[v] # f
    BY <1>2, <1>3 DEF DeliveryInv, WorkerInv
  <1>4. OtherWorkers(w) /\ OtherFlows(f) /\ pc'[w] = "load" /\ flow'[w] = f /\ job'[f] = "running"
    BY <1>1, <1>2 DEF OtherWorkers, OtherFlows, TypeOK
  <1>5. \A p \in Steps(f) : act[f][p] # "sending"
    BY <1>1, <1>2 DEF FlowInv
  <1>6. WorkerInv(w)'
    BY <1>2, <1>4, <1>5 DEF WorkerInv, Working, Calling
  <1>7. FlowInv(f)'
    BY <1>1, <1>2, <1>4, <1>5 DEF FlowInv
  <1> QED
    BY <1>3, <1>4, <1>6, <1>7, LocalStep

LEMMA LoadSafe ==
    ASSUME DeliveryInv, TypeOK', NEW w \in Worker, LoadExecution(w) PROVE DeliveryInv'
  <1>1. PICK f \in Flow : flow[w] = f
    BY OwnFlow DEF LoadExecution
  <1>2. /\ pc[w] = "load" /\ Busy(w) /\ WorkerInv(w) /\ FlowInv(f)
        /\ \A v \in Worker \ {w} : pc[v] # "idle" => flow[v] # f
    BY <1>1, OwnFlow DEF LoadExecution
  <1>3. /\ Remember(w, exec[f], ses[w].act, ses[w].tries)
        /\ Goto(w, IF exec[f] \in ExecActive THEN "lock" ELSE "finish")
        /\ job' = job /\ exec' = exec /\ act' = act /\ msg' = msg
        /\ delivered' = delivered /\ replied' = replied
    BY <1>1 DEF LoadExecution, database, remote
  <1>4. /\ ses'[w].exec = exec[f] /\ flow'[w] = f /\ OtherWorkers(w)
        /\ pc'[w] = IF exec[f] \in ExecActive THEN "lock" ELSE "finish"
    BY <1>1, <1>2, <1>3, RememberWrites, GotoWrites DEF OtherWorkers
  <1>5. WorkerInv(w)'
    BY <1>1, <1>2, <1>3, <1>4 DEF WorkerInv, Working, Calling
  <1>6. FlowInv(f)' /\ OtherFlows(f)
    BY <1>2, <1>3 DEF FlowInv, OtherFlows
  <1> QED
    BY <1>2, <1>4, <1>5, <1>6, LocalStep

LEMMA LockSafe ==
    ASSUME DeliveryInv, TypeOK', NEW w \in Worker, LockAccount(w) PROVE DeliveryInv'
  <1>1. PICK f \in Flow : flow[w] = f
    BY OwnFlow DEF LockAccount
  <1>2. /\ pc[w] = "lock" /\ Busy(w) /\ WorkerInv(w) /\ FlowInv(f)
        /\ \A v \in Worker \ {w} : pc[v] # "idle" => flow[v] # f
    BY <1>1, OwnFlow DEF LockAccount
  <1>3. /\ job' = job /\ act' = act /\ msg' = msg
        /\ delivered' = delivered /\ replied' = replied
    BY DEF LockAccount, remote
  <1>4. ses[w].exec = exec[f]
    BY <1>1, <1>2 DEF WorkerInv
  <1>5. CASE active[SourceOf[f]]
    <2>1. Remember(w, ses[w].exec, act[f], tries[f]) /\ Goto(w, "run") /\ exec' = exec
      BY <1>1, <1>5 DEF LockAccount
    <2>2. /\ ses'[w].exec = exec[f] /\ ses'[w].act = act[f] /\ flow'[w] = f
          /\ pc'[w] = "run" /\ OtherWorkers(w)
      BY <1>1, <1>2, <1>4, <2>1, RememberWrites, GotoWrites DEF OtherWorkers
    <2>3. WorkerInv(w)'
      BY <1>1, <1>2, <1>3, <2>1, <2>2 DEF WorkerInv, Working, Calling
    <2>4. FlowInv(f)' /\ OtherFlows(f)
      BY <1>2, <1>3, <2>1 DEF FlowInv, OtherFlows
    <2> QED
      BY <1>2, <2>2, <2>3, <2>4, LocalStep
  <1>6. CASE ~active[SourceOf[f]]
    <2>1. WriteExec(w, "cancelled") /\ Goto(w, "finish") /\ ses' = ses
      BY <1>1, <1>6 DEF LockAccount
    <2>2. exec'[f] = "cancelled" /\ \A g \in Flow \ {f} : exec'[g] = exec[g]
      BY <1>1, <1>2, <1>4, <2>1, WriteExecWrites
    <2>3. flow'[w] = f /\ pc'[w] = "finish" /\ OtherWorkers(w)
      BY <1>1, <1>2, <2>1, GotoWrites DEF OtherWorkers
    <2>4. exec'[f] \notin ExecActive
      BY <2>2 DEF ExecActive
    <2>5. WorkerInv(w)'
      BY <1>1, <1>2, <1>3, <2>3, <2>4 DEF WorkerInv, Working, Calling
    <2>6. FlowInv(f)' /\ OtherFlows(f)
      BY <1>2, <1>3, <2>2, <2>4 DEF FlowInv, OtherFlows
    <2> QED
      BY <1>2, <2>3, <2>5, <2>6, LocalStep
  <1> QED
    BY <1>5, <1>6

LEMMA LoopSafe ==
    ASSUME DeliveryInv, TypeOK', NEW w \in Worker, FoundSending(w) \/ Delay(w) \/ ZeroDelay(w)
    PROVE  DeliveryInv'
  <1>1. pc[w] = "run"
    BY DEF FoundSending, Delay, ZeroDelay
  <1>2. PICK f \in Flow : flow[w] = f
    BY <1>1, OwnFlow
  <1>3. pc[w] \in Working /\ pc[w] \in {"run", "lead", "checked"} /\ WorkerInv(w)
    BY <1>1, OwnFlow DEF Working
  <1>4. msg' = msg /\ UNCHANGED remote
    BY DEF FoundSending, Delay, ZeroDelay
  <1>5. CASE FoundSending(w)
    <2>1. PICK p \in Position : Current(w, p) /\ ses[w].act[p] = "sending"
      BY <1>5 DEF FoundSending
    <2>2. act[f][p] = "pending" /\ ses[w].act = act[f]
      BY <1>2, <1>3, <2>1, ReachedIsPending DEF WorkerInv
    <2> QED
      BY <2>1, <2>2
  <1>6. CASE Delay(w)
    <2>1. PICK p \in Position : Current(w, p) /\ Park(w, p, "complete")
      BY <1>6 DEF Delay, At
    <2> QED
      BY <1>1, <1>2, <1>3, <1>4, <2>1, ParkKeeps
  <1>7. CASE ZeroDelay(w)
    <2>1. PICK p \in Position : Current(w, p) /\ ActionCommit(w, p, "complete")
      BY <1>7 DEF ZeroDelay, At
    <2>2. /\ pc'[w] = "run" /\ flow'[w] = f /\ OtherWorkers(w) /\ job' = job
          /\ exec'[f] = "running" /\ \A g \in Flow \ {f} : exec'[g] = exec[g]
          /\ act'[f] = [act[f] EXCEPT ![p] = "complete"]
          /\ \A g \in Flow \ {f} : act'[g] = act[g]
          /\ ses'[w].exec = "running" /\ ses'[w].act = act'[f]
      BY <1>2, <1>3, <2>1, ActionCommitWrites
    <2> QED
      BY <1>1, <1>2, <1>4, <2>1, <2>2, CommitKeeps
  <1> QED
    BY <1>5, <1>6, <1>7

\* A step that only moves the worker to another stage of its work.
LEMMA MoveKeeps ==
    ASSUME DeliveryInv, TypeOK', NEW w \in Worker, NEW f \in Flow, flow[w] = f,
           pc[w] \in Working, NEW stage, Goto(w, stage),
           ses'[w].exec = ses[w].exec, ses'[w].act = ses[w].act,
           \A v \in Worker \ {w} : ses'[v] = ses[v],
           UNCHANGED <<job, exec, act, msg, remote>>,
           \/ pc[w] = "run" /\ stage = "lead"
           \/ pc[w] = "run" /\ stage = "checked" /\ \E p \in Sends(f) : Current(w, p)
           \/ pc[w] = "accepted" /\ stage \in {"reply", "record"}
    PROVE  DeliveryInv'
  <1>1. /\ WorkerInv(w) /\ FlowInv(f) /\ Busy(w)
        /\ \A v \in Worker \ {w} : pc[v] # "idle" => flow[v] # f
    BY OwnFlow DEF Working
  <1>2. /\ job' = job /\ exec' = exec /\ act' = act /\ msg' = msg
        /\ delivered' = delivered /\ replied' = replied
    BY DEF remote
  <1>3. pc'[w] = stage /\ flow'[w] = f /\ OtherWorkers(w)
    BY <1>1, GotoWrites DEF OtherWorkers
  <1>4. FlowInv(f)' /\ OtherFlows(f)
    BY <1>1, <1>2 DEF FlowInv, OtherFlows
  <1>5. \A p : Current(w, p)' <=> Current(w, p)
    BY <1>3 DEF Current
  <1>6. WorkerInv(w)'
    BY <1>1, <1>2, <1>3, <1>5 DEF WorkerInv, Working, Calling
  <1> QED
    BY <1>1, <1>3, <1>4, <1>6, LocalStep DEF Working

LEMMA LeadSafe ==
    ASSUME DeliveryInv, TypeOK', NEW w \in Worker, FetchLead(w) PROVE DeliveryInv'
  <1>1. PICK f \in Flow : flow[w] = f
    BY OwnFlow DEF FetchLead
  <1>2. PICK l : RememberLead(w, ses[w].exec, ses[w].act, l)
    BY DEF FetchLead
  <1>3. Busy(w)
    BY OwnFlow DEF FetchLead
  <1>4. /\ ses'[w].exec = ses[w].exec /\ ses'[w].act = ses[w].act
        /\ \A v \in Worker \ {w} : ses'[v] = ses[v]
    BY <1>2, <1>3 DEF RememberLead, Busy, TypeOK
  <1>5. UNCHANGED <<job, exec, act, msg, remote>> /\ Goto(w, "lead") /\ pc[w] = "run"
    BY DEF FetchLead, database
  <1> QED
    BY <1>1, <1>4, <1>5, MoveKeeps DEF Working

LEMMA ApplyLeadSafe ==
    ASSUME DeliveryInv, TypeOK', NEW w \in Worker, ApplyLead(w) PROVE DeliveryInv'
  <1>1. PICK f \in Flow : flow[w] = f
    BY OwnFlow DEF ApplyLead
  <1>2. pc[w] = "lead" /\ Busy(w) /\ ses[w].exec = exec[f] /\ ses[w].act = act[f]
    BY <1>1, OwnFlow DEF ApplyLead, WorkerInv, Working
  <1>3. PICK p \in Position : \E l :
          /\ Current(w, p) /\ WriteExec(w, "running") /\ WriteAct(w, p, "complete")
          /\ RememberLead(w, "running", Marked(w, p, "complete"), l)
    BY DEF ApplyLead
  <1>4. PICK l : RememberLead(w, "running", Marked(w, p, "complete"), l)
    BY <1>3
  <1>5. Goto(w, "run") /\ job' = job /\ msg' = msg /\ UNCHANGED remote
    BY DEF ApplyLead
  <1>6. exec'[f] = "running" /\ \A g \in Flow \ {f} : exec'[g] = exec[g]
    BY <1>1, <1>2, <1>3, WriteExecWrites
  <1>7. act'[f] = [act[f] EXCEPT ![p] = "complete"] /\ \A g \in Flow \ {f} : act'[g] = act[g]
    BY <1>1, <1>2, <1>3, WriteActWrites
  <1>8. /\ ses'[w].exec = "running" /\ ses'[w].act = Marked(w, p, "complete")
        /\ \A v \in Worker \ {w} : ses'[v] = ses[v]
    BY <1>2, <1>4 DEF RememberLead, Busy, TypeOK
  <1>9. ses'[w].act = act'[f]
    BY <1>2, <1>7, <1>8 DEF Marked
  <1>10. pc'[w] = "run" /\ flow'[w] = f /\ OtherWorkers(w)
    BY <1>1, <1>2, <1>5, <1>8, GotoWrites DEF OtherWorkers
  <1> QED
    BY <1>1, <1>2, <1>3, <1>5, <1>6, <1>7, <1>8, <1>9, <1>10, CommitKeeps

LEMMA RecheckSafe ==
    ASSUME DeliveryInv, TypeOK', NEW w \in Worker, Recheck(w) PROVE DeliveryInv'
  <1>1. PICK f \in Flow : flow[w] = f
    BY OwnFlow DEF Recheck
  <1>2. pc[w] = "run" /\ msg' = msg /\ UNCHANGED remote
    BY DEF Recheck
  <1>3. PICK p \in Position :
          /\ At(w, p, "SEND")
          /\ \/ Goto(w, "checked") /\ UNCHANGED <<job, exec, act, ses>>
             \/ Stop(w, p, "failed")
    BY DEF Recheck
  <1>4. Current(w, p) /\ p \in Sends(f)
    BY <1>1, <1>3 DEF At, Current, Sends
  <1>5. CASE Goto(w, "checked") /\ UNCHANGED <<job, exec, act, ses>>
    BY <1>1, <1>2, <1>4, <1>5, MoveKeeps DEF Working
  <1>6. CASE Stop(w, p, "failed")
    <2>1. delivered[f] = 0
      BY <1>1, <1>2, <1>4, ReachedIsPending
    <2> QED
      BY <1>1, <1>2, <1>4, <1>6, <2>1, StopKeeps DEF Working
  <1> QED
    BY <1>3, <1>5, <1>6

\* At the send the provider has nothing yet.
LEMMA NothingYet ==
    ASSUME DeliveryInv, NEW w \in Worker, pc[w] \in {"checked", "inflight"}
    PROVE  delivered[flow[w]] = 0
  <1>1. flow[w] \in Flow /\ WorkerInv(w)
    BY OwnFlow
  <1>2. CASE pc[w] = "inflight"
    BY <1>1, <1>2 DEF WorkerInv
  <1>3. CASE pc[w] = "checked"
    <2>1. PICK p \in Sends(flow[w]) : Current(w, p)
      BY <1>1, <1>3 DEF WorkerInv
    <2> QED
      BY <1>3, <2>1, ReachedIsPending
  <1> QED
    BY <1>2, <1>3

\* Back-off and refusal, before the call or in answer to it.
LEMMA BackOffSafe ==
    ASSUME DeliveryInv, TypeOK', NEW w \in Worker, WindowThrottled(w) \/ Throttle(w)
    PROVE  DeliveryInv'
  <1>1. pc[w] \in {"checked", "inflight"} /\ UNCHANGED remote
    BY DEF WindowThrottled, Throttle
  <1>2. PICK f \in Flow : flow[w] = f
    BY <1>1, OwnFlow
  <1>3. PICK p \in Position : \E n : Current(w, p) /\ BackOff(w, p, n)
    BY DEF WindowThrottled, Throttle
  <1>4. Park(w, p, "pending") \/ Stop(w, p, "failed")
    BY <1>3 DEF BackOff
  <1>5. \A g \in Flow \ {f} : msg'[g] = msg[g]
    BY <1>2 DEF WindowThrottled, Throttle, DeliveryInv, TypeOK
  <1>6. delivered[f] = 0 /\ pc[w] \in Working
    BY <1>1, <1>2, NothingYet DEF Working
  <1>7. CASE Park(w, p, "pending")
    BY <1>1, <1>2, <1>3, <1>5, <1>6, <1>7, ParkKeeps
  <1>8. CASE Stop(w, p, "failed")
    BY <1>1, <1>2, <1>3, <1>5, <1>6, <1>8, StopKeeps
  <1> QED
    BY <1>4, <1>7, <1>8

LEMMA RefusedSafe ==
    ASSUME DeliveryInv, TypeOK', NEW w \in Worker, WindowRefused(w) \/ Reject(w)
    PROVE  DeliveryInv'
  <1>1. pc[w] \in {"checked", "inflight"} /\ UNCHANGED remote
    BY DEF WindowRefused, Reject
  <1>2. PICK f \in Flow : flow[w] = f
    BY <1>1, OwnFlow
  <1>3. PICK p \in Position : Current(w, p) /\ Stop(w, p, "failed")
    BY DEF WindowRefused, Reject, Refused
  <1>4. \A g \in Flow \ {f} : msg'[g] = msg[g]
    BY <1>2 DEF WindowRefused, Reject, DeliveryInv, TypeOK
  <1>5. delivered[f] = 0 /\ pc[w] \in Working
    BY <1>1, <1>2, NothingYet DEF Working
  <1> QED
    BY <1>1, <1>2, <1>3, <1>4, <1>5, StopKeeps

LEMMA TimeOutSafe ==
    ASSUME DeliveryInv, TypeOK', NEW w \in Worker, TimeOut(w) PROVE DeliveryInv'
  <1>1. pc[w] \in Calling /\ pc[w] \in Working /\ UNCHANGED remote
    BY DEF TimeOut, Calling, Working
  <1>2. PICK f \in Flow : flow[w] = f
    BY <1>1, OwnFlow DEF Calling
  <1>3. PICK p \in Position : Current(w, p) /\ Stop(w, p, "unknown")
    BY DEF TimeOut
  <1>4. msg'[f] = "unknown" /\ \A g \in Flow \ {f} : msg'[g] = msg[g]
    BY <1>2 DEF TimeOut, DeliveryInv, TypeOK
  <1> QED
    BY <1>1, <1>2, <1>3, <1>4, StopKeeps

LEMMA MarkSafe ==
    ASSUME DeliveryInv, TypeOK', NEW w \in Worker, MarkSending(w) PROVE DeliveryInv'
  <1>1. PICK f \in Flow : flow[w] = f
    BY OwnFlow DEF MarkSending
  <1>2. /\ pc[w] = "checked" /\ Busy(w) /\ WorkerInv(w) /\ FlowInv(f)
        /\ \A v \in Worker \ {w} : pc[v] # "idle" => flow[v] # f
    BY <1>1, OwnFlow DEF MarkSending
  <1>3. ses[w].exec = exec[f] /\ ses[w].act = act[f] /\ job[f] = "running"
    BY <1>1, <1>2 DEF WorkerInv, Working
  <1>4. PICK p \in Position :
          /\ Current(w, p) /\ WriteExec(w, "running") /\ WriteAct(w, p, "sending")
          /\ Remember(w, "running", Marked(w, p, "sending"), ses[w].tries + 1)
    BY DEF MarkSending
  <1>5. /\ Goto(w, "inflight") /\ job' = job /\ msg' = [msg EXCEPT ![f] = "sending"]
        /\ delivered' = delivered /\ replied' = replied
    BY <1>1 DEF MarkSending, remote
  <1>6. /\ p \in Sends(f) /\ p \in Steps(f) /\ \A q \in Sends(f) : q = p
        /\ delivered[f] = 0 /\ act[f][p] = "pending"
    BY <1>1, <1>2, <1>4, CurrentIsSend, SendIsOne, ReachedIsPending
  <1>7. exec'[f] = "running" /\ \A g \in Flow \ {f} : exec'[g] = exec[g]
    BY <1>1, <1>2, <1>3, <1>4, WriteExecWrites
  <1>8. act'[f] = [act[f] EXCEPT ![p] = "sending"] /\ \A g \in Flow \ {f} : act'[g] = act[g]
    BY <1>1, <1>2, <1>3, <1>4, WriteActWrites
  <1>9. /\ ses'[w].exec = "running" /\ ses'[w].act = Marked(w, p, "sending")
        /\ \A v \in Worker \ {w} : ses'[v] = ses[v]
    BY <1>2, <1>4, RememberWrites
  <1>10. pc'[w] = "inflight" /\ flow'[w] = f /\ OtherWorkers(w)
    BY <1>1, <1>2, <1>5, <1>9, GotoWrites DEF OtherWorkers
  <1>11. msg'[f] = "sending" /\ OtherFlows(f)
    BY <1>2, <1>5, <1>7, <1>8 DEF OtherFlows, Busy, TypeOK
  <1>12. /\ act[f] \in [Position -> ActStatus] /\ act'[f][p] = "sending"
         /\ \A q \in Position : q # p => act'[f][q] = act[f][q]
         /\ Steps(f) \subseteq Position
    BY <1>2, <1>8, StepsAreNat DEF Busy, TypeOK
  <1>13. ses'[w].act = act'[f]
    BY <1>3, <1>8, <1>9 DEF Marked
  <1>14. Current(w, p)'
    BY <1>1, <1>3, <1>4, <1>10, <1>12, <1>13 DEF Current, ActDone
  <1>15. exec'[f] \in ExecActive /\ exec[f] \in ExecActive
    BY <1>1, <1>2, <1>7 DEF ExecActive, WorkerInv, Working
  <1>16. WorkerInv(w)'
    BY <1>3, <1>5, <1>6, <1>7, <1>9, <1>10, <1>11, <1>12, <1>13, <1>14, <1>15
    DEF WorkerInv, Working, Calling
  <1>17. FlowInv(f)'
    BY <1>2, <1>3, <1>5, <1>6, <1>11, <1>12, <1>15 DEF FlowInv
  <1> QED
    BY <1>2, <1>10, <1>11, <1>16, <1>17, LocalStep

\* The exchange with the provider.
LEMMA AcceptSafe ==
    ASSUME DeliveryInv, TypeOK', NEW w \in Worker, Accept(w) PROVE DeliveryInv'
  <1>1. PICK f \in Flow : flow[w] = f
    BY OwnFlow DEF Accept
  <1>2. /\ pc[w] = "inflight" /\ Busy(w) /\ WorkerInv(w) /\ FlowInv(f)
        /\ \A v \in Worker \ {w} : pc[v] # "idle" => flow[v] # f
    BY <1>1, OwnFlow DEF Accept
  <1>3. /\ Goto(w, "accepted") /\ job' = job /\ exec' = exec /\ act' = act /\ msg' = msg
        /\ ses' = ses /\ replied' = replied
        /\ delivered' = [delivered EXCEPT ![f] = @ + 1]
    BY <1>1 DEF Accept, database
  <1>4. delivered[f] = 0 /\ \A p \in Sends(f) : act[f][p] = "sending"
    BY <1>1, <1>2 DEF WorkerInv, Calling
  <1>5. replied[f] = 0
    BY <1>2, <1>4 DEF FlowInv, Busy, TypeOK
  <1>6. delivered'[f] = 1 /\ \A g \in Flow \ {f} : delivered'[g] = delivered[g]
    BY <1>2, <1>3, <1>4 DEF Busy, TypeOK
  <1>7. \E p \in Sends(f) : Current(w, p)
    BY <1>1, <1>2 DEF WorkerInv, Calling
  <1>8. pc'[w] = "accepted" /\ flow'[w] = f /\ OtherWorkers(w) /\ OtherFlows(f)
    BY <1>1, <1>2, <1>3, <1>6, GotoWrites DEF OtherWorkers, OtherFlows
  <1>9. \A p : Current(w, p)' <=> Current(w, p)
    BY <1>1, <1>3, <1>8 DEF Current
  <1>10. WorkerInv(w)'
    BY <1>1, <1>2, <1>3, <1>5, <1>6, <1>8, <1>9 DEF WorkerInv, Working, Calling
  <1>11. msg[f] = "sending"
    BY <1>1, <1>2 DEF WorkerInv, Calling
  <1>12. FlowInv(f)'
    BY <1>2, <1>3, <1>4, <1>5, <1>6, <1>7, <1>11 DEF FlowInv
  <1> QED
    BY <1>2, <1>8, <1>10, <1>12, LocalStep

LEMMA AnswerSafe ==
    ASSUME DeliveryInv, TypeOK', NEW w \in Worker, Receive(w) PROVE DeliveryInv'
  <1>1. PICK f \in Flow : flow[w] = f
    BY OwnFlow DEF Receive
  <1>2. /\ pc[w] = "accepted" /\ UNCHANGED <<job, exec, act, msg, ses, remote>>
        /\ Goto(w, "reply") \/ Goto(w, "record")
    BY DEF Receive, database
  <1> QED
    BY <1>1, <1>2, MoveKeeps DEF Working

LEMMA ReplySafe ==
    ASSUME DeliveryInv, TypeOK', NEW w \in Worker, PostPublicReply(w) PROVE DeliveryInv'
  <1>1. PICK f \in Flow : flow[w] = f
    BY OwnFlow DEF PostPublicReply
  <1>2. /\ pc[w] = "reply" /\ Busy(w) /\ WorkerInv(w) /\ FlowInv(f)
        /\ \A v \in Worker \ {w} : pc[v] # "idle" => flow[v] # f
    BY <1>1, OwnFlow DEF PostPublicReply
  <1>3. /\ Goto(w, "record") /\ job' = job /\ exec' = exec /\ act' = act /\ msg' = msg
        /\ ses' = ses /\ delivered' = delivered
        /\ replied' = [replied EXCEPT ![f] = @ + 1] \/ replied' = replied
    BY <1>1 DEF PostPublicReply, database
  <1>4. delivered[f] = 1 /\ replied[f] = 0
    BY <1>1, <1>2 DEF WorkerInv
  <1>5. replied'[f] <= 1 /\ \A g \in Flow \ {f} : replied'[g] = replied[g]
    BY <1>2, <1>3, <1>4 DEF Busy, TypeOK
  <1>6. pc'[w] = "record" /\ flow'[w] = f /\ OtherWorkers(w) /\ OtherFlows(f)
    BY <1>1, <1>2, <1>3, <1>5, GotoWrites DEF OtherWorkers, OtherFlows
  <1>7. \A p : Current(w, p)' <=> Current(w, p)
    BY <1>1, <1>3, <1>6 DEF Current
  <1>8. WorkerInv(w)'
    BY <1>1, <1>2, <1>3, <1>4, <1>6, <1>7 DEF WorkerInv, Working, Calling
  <1>9. FlowInv(f)'
    BY <1>2, <1>3, <1>4, <1>5 DEF FlowInv
  <1> QED
    BY <1>2, <1>6, <1>8, <1>9, LocalStep

LEMMA RecordSafe ==
    ASSUME DeliveryInv, TypeOK', NEW w \in Worker, RecordSent(w) PROVE DeliveryInv'
  <1>1. PICK f \in Flow : flow[w] = f
    BY OwnFlow DEF RecordSent
  <1>2. /\ pc[w] = "record" /\ Busy(w) /\ WorkerInv(w) /\ FlowInv(f)
        /\ \A v \in Worker \ {w} : pc[v] # "idle" => flow[v] # f
    BY <1>1, OwnFlow DEF RecordSent
  <1>3. PICK p \in Position : Current(w, p) /\ ActionCommit(w, p, "sent")
    BY DEF RecordSent
  <1>4. /\ msg' = [msg EXCEPT ![f] = "sent"] /\ delivered' = delivered /\ replied' = replied
    BY <1>1 DEF RecordSent, remote
  <1>5. p \in Sends(f) /\ \A q \in Sends(f) : q = p
    BY <1>1, <1>2, <1>3, CurrentIsSend, SendIsOne DEF Calling
  <1>6. /\ pc'[w] = "run" /\ flow'[w] = f /\ OtherWorkers(w) /\ job' = job
        /\ exec'[f] = "running" /\ \A g \in Flow \ {f} : exec'[g] = exec[g]
        /\ act'[f] = [act[f] EXCEPT ![p] = "sent"] /\ \A g \in Flow \ {f} : act'[g] = act[g]
        /\ ses'[w].exec = "running" /\ ses'[w].act = act'[f]
    BY <1>1, <1>2, <1>3, ActionCommitWrites DEF Working
  <1>7. msg'[f] = "sent" /\ OtherFlows(f)
    BY <1>2, <1>4, <1>6 DEF OtherFlows, Busy, TypeOK
  <1>8. /\ act'[f][p] = "sent" /\ Steps(f) \subseteq Position
        /\ \A q \in Position : q # p => act'[f][q] = act[f][q]
    BY <1>2, <1>6, StepsAreNat DEF Busy, TypeOK
  <1>9. exec'[f] \in ExecActive /\ exec[f] \in ExecActive /\ job[f] = "running"
        /\ delivered[f] = 1
    BY <1>1, <1>2, <1>6 DEF ExecActive, WorkerInv, Working
  <1>10. \A q \in Steps(f) : act'[f][q] # "sending"
                              /\ act'[f][q] \in ActDone \cup {"pending"}
    BY <1>2, <1>5, <1>8, <1>9 DEF FlowInv, ActDone
  <1>11. WorkerInv(w)'
    BY <1>6, <1>9, <1>10 DEF WorkerInv, Working, Calling
  <1>12. FlowInv(f)'
    BY <1>2, <1>4, <1>5, <1>6, <1>7, <1>8, <1>9, <1>10 DEF FlowInv
  <1> QED
    BY <1>2, <1>6, <1>7, <1>11, <1>12, LocalStep

\* The end of the flow, of its job and of its worker.
LEMMA FinishSafe ==
    ASSUME DeliveryInv, TypeOK', NEW w \in Worker, FinishFlow(w) PROVE DeliveryInv'
  <1>1. PICK f \in Flow : flow[w] = f
    BY OwnFlow DEF FinishFlow
  <1>2. /\ pc[w] = "run" /\ Busy(w) /\ WorkerInv(w) /\ FlowInv(f)
        /\ \A v \in Worker \ {w} : pc[v] # "idle" => flow[v] # f
    BY <1>1, OwnFlow DEF FinishFlow
  <1>3. /\ WriteExec(w, "complete") /\ Goto(w, "finish")
        /\ Remember(w, "complete", ses[w].act, ses[w].tries)
        /\ job' = job /\ act' = act /\ msg' = msg
        /\ delivered' = delivered /\ replied' = replied
    BY DEF FinishFlow, remote
  <1>4. ses[w].exec = exec[f]
    BY <1>1, <1>2 DEF WorkerInv, Working
  <1>5. exec'[f] = "complete" /\ \A g \in Flow \ {f} : exec'[g] = exec[g]
    BY <1>1, <1>2, <1>3, <1>4, WriteExecWrites
  <1>6. \A v \in Worker \ {w} : ses'[v] = ses[v]
    BY <1>2, <1>3, RememberWrites
  <1>7. pc'[w] = "finish" /\ flow'[w] = f /\ OtherWorkers(w) /\ OtherFlows(f)
    BY <1>1, <1>2, <1>3, <1>5, <1>6, GotoWrites DEF OtherWorkers, OtherFlows
  <1>8. exec'[f] \notin ExecActive
    BY <1>5 DEF ExecActive
  <1>9. WorkerInv(w)'
    BY <1>1, <1>2, <1>3, <1>7, <1>8 DEF WorkerInv, Working, Calling
  <1>10. FlowInv(f)'
    BY <1>2, <1>3, <1>8 DEF FlowInv
  <1> QED
    BY <1>2, <1>7, <1>9, <1>10, LocalStep

LEMMA CompleteSafe ==
    ASSUME DeliveryInv, TypeOK', NEW w \in Worker, CompleteJob(w) PROVE DeliveryInv'
  <1>1. PICK f \in Flow : flow[w] = f
    BY OwnFlow DEF CompleteJob
  <1>2. /\ pc[w] = "finish" /\ Busy(w) /\ WorkerInv(w) /\ FlowInv(f)
        /\ \A v \in Worker \ {w} : pc[v] # "idle" => flow[v] # f
    BY <1>1, OwnFlow DEF CompleteJob
  <1>3. /\ job' = [job EXCEPT ![f] = "complete"] /\ Drop(w)
        /\ exec' = exec /\ act' = act /\ msg' = msg
        /\ delivered' = delivered /\ replied' = replied
    BY <1>1 DEF CompleteJob, remote
  <1>4. pc'[w] = "idle" /\ flow'[w] = NoFlow /\ OtherWorkers(w)
    BY <1>2, <1>3, DropWrites
  <1>5. OtherFlows(f)
    BY <1>2, <1>3 DEF OtherFlows, Busy, TypeOK
  <1>6. exec[f] \notin ExecActive /\ \A p \in Steps(f) : act[f][p] # "sending"
    BY <1>1, <1>2 DEF WorkerInv
  <1>7. WorkerInv(w)'
    BY <1>4 DEF WorkerInv, Working, Calling
  <1>8. FlowInv(f)'
    BY <1>2, <1>3, <1>6 DEF FlowInv
  <1> QED
    BY <1>2, <1>4, <1>5, <1>7, <1>8, LocalStep

LEMMA FallSafe ==
    ASSUME DeliveryInv, TypeOK', NEW w \in Worker, Raise(w) \/ Crash(w) PROVE DeliveryInv'
  <1>1. PICK f \in Flow : flow[w] = f
    BY OwnFlow DEF Raise, Crash
  <1>2. /\ TypeOK /\ pc[w] # "idle" /\ Busy(w) /\ FlowInv(f)
        /\ \A v \in Worker \ {w} : pc[v] # "idle" => flow[v] # f
    BY <1>1, OwnFlow DEF Raise, Crash, Busy
  <1>3. Drop(w) /\ UNCHANGED remote
    BY DEF Raise, Crash
  <1>4. pc'[w] = "idle" /\ flow'[w] = NoFlow /\ OtherWorkers(w)
    BY <1>2, <1>3, DropWrites
  <1>5. WorkerInv(w)'
    BY <1>4 DEF WorkerInv, Working, Calling
  <1>6. FlowInv(f)' /\ OtherFlows(f)
    <2>1. CASE Raise(w)
      BY <1>1, <1>2, <1>3, <2>1, UncertainKeeps DEF Raise
    <2>2. CASE Crash(w)
      BY <1>2, <1>3, <2>2 DEF Crash, database, remote, FlowInv, OtherFlows
    <2> QED
      BY <2>1, <2>2
  <1> QED
    BY <1>2, <1>4, <1>5, <1>6, LocalStep

\* Recovery takes a job nobody has: this is where the lease matters.
LEMMA RecoverSafe ==
    ASSUME DeliveryInv, TypeOK', LeaseOutlivesWork, NEW w \in Worker, NEW f \in Flow,
           RecoverSending(w, f) \/ RecoverIdle(w, f)
    PROVE  DeliveryInv'
  <1>1. /\ pc[w] = "idle" /\ UNCHANGED worker /\ UNCHANGED remote
        /\ \A v \in Worker : flow[v] # f
    BY DEF RecoverSending, RecoverIdle, Stale
  <1>2. TypeOK /\ FlowInv(f) /\ WorkerInv(w)
    BY DEF DeliveryInv
  <1>3. pc' = pc /\ flow' = flow /\ ses' = ses
    BY <1>1 DEF worker
  <1>4. OtherWorkers(w) /\ WorkerInv(w)'
    BY <1>1, <1>2, <1>3 DEF OtherWorkers, WorkerInv, Working, Calling
  <1>5. FlowInv(f)' /\ OtherFlows(f)
    <2>1. CASE RecoverSending(w, f)
      BY <1>1, <1>2, <2>1, UncertainKeeps DEF RecoverSending
    <2>2. CASE RecoverIdle(w, f)
      <3>1. /\ job' = [job EXCEPT ![f] = "pending"] /\ exec' = exec /\ act' = act /\ msg' = msg
            /\ delivered' = delivered /\ replied' = replied
            /\ \A p \in Steps(f) : act[f][p] # "sending"
        BY <2>2 DEF RecoverIdle, remote
      <3>2. job'[f] = "pending" /\ \A g \in Flow \ {f} : job'[g] = job[g]
        BY <1>2, <3>1 DEF TypeOK
      <3> QED
        BY <1>2, <3>1, <3>2 DEF FlowInv, OtherFlows
    <2> QED
      BY <2>1, <2>2
  <1> QED
    BY <1>1, <1>3, <1>4, <1>5, LocalStep

LEMMA NothingMoves ==
    ASSUME DeliveryInv, TypeOK', UNCHANGED <<database, worker, remote>> PROVE DeliveryInv'
  BY DEF DeliveryInv, OneOwner, WorkerInv, FlowInv, Current, database, worker, remote

LEMMA StepSafe ==
    ASSUME LeaseOutlivesWork, DeliveryInv, [Next]_vars PROVE DeliveryInv'
  <1>1. TypeOK'
    BY NextType DEF DeliveryInv
  <1>2. ASSUME NEW w \in Worker, Handle(w) PROVE DeliveryInv'
    BY <1>1, <1>2, LoadSafe, LockSafe, LoopSafe, LeadSafe, ApplyLeadSafe, RecheckSafe,
       BackOffSafe, RefusedSafe, MarkSafe, AcceptSafe, AnswerSafe, TimeOutSafe, ReplySafe,
       RecordSafe, FinishSafe, CompleteSafe, FallSafe
    DEF Handle, LeadTaken
  <1>3. ASSUME NEW w \in Worker, Poll(w) PROVE DeliveryInv'
    BY <1>1, <1>3, ClaimSafe, RecoverSafe DEF Poll
  <1>4. ASSUME NEW s \in Source, SetSource(s) PROVE DeliveryInv'
    BY <1>1, <1>4, NothingMoves DEF SetSource
  <1>5. CASE UNCHANGED vars
    BY <1>1, <1>5, NothingMoves DEF vars
  <1> QED
    BY <1>1, <1>2, <1>3, <1>4, <1>5, FallSafe DEF Next

-----------------------------------------------------------------------------
\* The strengthening is inductive: with a lease that outlives the work, rows,
\* sessions and provider agree in every state.
THEOREM Inductive ==
    ASSUME LeaseOutlivesWork PROVE Spec => []DeliveryInv
  <1>1. DeliveryInv /\ [Next]_vars => DeliveryInv'
    BY StepSafe
  <1> QED
    BY <1>1, InitSafe, PTL DEF Spec

LEMMA SendStatusIs ==
    ASSUME NEW f \in Flow
    PROVE  /\ \A p \in Sends(f) : SendStatus(f) = act[f][p]
           /\ Sends(f) = {} => SendStatus(f) = "absent"
  BY SendIsOne DEF SendStatus

LEMMA DeliveredOnce == DeliveryInv => AtMostOneDelivery
  BY DEF DeliveryInv, FlowInv, AtMostOneDelivery

LEMMA Honest == DeliveryInv => StatusIsHonest
  <1> SUFFICES ASSUME DeliveryInv, NEW f \in Flow
               PROVE  /\ SendStatus(f) = "sent" => delivered[f] = 1 /\ msg[f] = "sent"
                      /\ SendStatus(f) \in {"absent", "pending", "failed", "skipped"}
                            => delivered[f] = 0
                      /\ msg[f] \in {"none", "queued", "failed"} => delivered[f] = 0
    BY DEF StatusIsHonest
  <1>1. FlowInv(f)
    BY DEF DeliveryInv
  <1>2. CASE Sends(f) = {}
    <2>1. SendStatus(f) = "absent" /\ delivered[f] = 0
      BY <1>1, <1>2, SendStatusIs DEF FlowInv
    <2> QED
      BY <2>1
  <1>3. CASE Sends(f) # {}
    <2>1. PICK p \in Sends(f) : SendStatus(f) = act[f][p]
      BY <1>3, SendStatusIs
    <2>2. delivered[f] # 0 => act[f][p] \in {"sending", "sent", "unknown"}
      BY <1>1, <2>1, SendIsOne DEF FlowInv
    <2> QED
      BY <1>1, <2>1, <2>2 DEF FlowInv
  <1> QED
    BY <1>2, <1>3

LEMMA Resumable == DeliveryInv => RequeueIsSafe
  <1> SUFFICES ASSUME DeliveryInv, NEW f \in Flow, job[f] = "pending"
               PROVE  /\ SendStatus(f) # "sending"
                      /\ exec[f] \in ExecActive =>
                           \A p \in Steps(f) : act[f][p] \in ActDone \cup {"pending"}
    BY DEF RequeueIsSafe
  <1>1. FlowInv(f)
    BY DEF DeliveryInv
  <1>2. \A p \in Steps(f) : act[f][p] # "sending"
    BY <1>1 DEF FlowInv
  <1>3. SendStatus(f) # "sending"
    BY <1>2, SendStatusIs DEF Sends
  <1> QED
    BY <1>1, <1>2, <1>3 DEF FlowInv

LEMMA Followed == DeliveryInv => PublicReplyFollows
  BY DEF DeliveryInv, FlowInv, PublicReplyFollows, TypeOK

LEMMA Queued == DeliveryInv => NoFlowIsStranded
  BY DEF DeliveryInv, FlowInv, NoFlowIsStranded

\* The provider accepts a flow's private reply at most once, whatever workers,
\* deaths, throttling and edits do (flows.py, worker.py).
THEOREM AtMostOnce ==
    ASSUME LeaseOutlivesWork PROVE Spec => []AtMostOneDelivery
  BY Inductive, DeliveredOnce, PTL

\* What is recorded of a reply is what the provider did.
THEOREM RecordsAreHonest ==
    ASSUME LeaseOutlivesWork PROVE Spec => []StatusIsHonest
  BY Inductive, Honest, PTL

\* A flow whose job is in the queue may be resumed from its rows.
THEOREM ResumingIsSafe ==
    ASSUME LeaseOutlivesWork PROVE Spec => []RequeueIsSafe
  BY Inductive, Resumable, PTL

\* The public reply comes after the private one, once.
THEOREM PublicReplyIsSecond ==
    ASSUME LeaseOutlivesWork PROVE Spec => []PublicReplyFollows
  BY Inductive, Followed, PTL

\* An unfinished flow always has a job in the queue or running.
THEOREM NothingStranded ==
    ASSUME LeaseOutlivesWork PROVE Spec => []NoFlowIsStranded
  BY Inductive, Queued, PTL

-----------------------------------------------------------------------------
\* What a worker with a flow in hand leaves alone: the rows of every other flow.
Apart(g) ==
    /\ job'[g] = job[g] /\ exec'[g] = exec[g] /\ act'[g] = act[g]
    /\ delivered'[g] = delivered[g] /\ replied'[g] = replied[g]

LEMMA PiecesApart ==
    ASSUME TypeOK, NEW w, NEW g \in Flow, flow[w] # g, NEW p, NEW s
    PROVE  /\ WriteExec(w, s) => exec'[g] = exec[g]
           /\ WriteAct(w, p, s) => act'[g] = act[g]
           /\ Stop(w, p, s) => exec'[g] = exec[g] /\ act'[g] = act[g] /\ job'[g] = job[g]
           /\ Park(w, p, s) => exec'[g] = exec[g] /\ act'[g] = act[g] /\ job'[g] = job[g]
           /\ ActionCommit(w, p, s) =>
                exec'[g] = exec[g] /\ act'[g] = act[g] /\ job'[g] = job[g]
  <1>1. ASSUME NEW e, WriteExec(w, e) PROVE exec'[g] = exec[g]
    BY <1>1 DEF WriteExec, TypeOK
  <1>2. ASSUME NEW q, NEW e, WriteAct(w, q, e) PROVE act'[g] = act[g]
    BY <1>2 DEF WriteAct, TypeOK
  <1>3. ASSUME NEW acts, WriteActs(w, acts) PROVE act'[g] = act[g]
    BY <1>3 DEF WriteActs, TypeOK
  <1>4. ASSUME Stop(w, p, s) PROVE exec'[g] = exec[g] /\ act'[g] = act[g] /\ job'[g] = job[g]
    BY <1>1, <1>3, <1>4 DEF Stop
  <1>5. ASSUME Park(w, p, s) PROVE exec'[g] = exec[g] /\ act'[g] = act[g] /\ job'[g] = job[g]
    BY <1>1, <1>2, <1>5 DEF Park, TypeOK
  <1>6. ASSUME ActionCommit(w, p, s)
        PROVE  exec'[g] = exec[g] /\ act'[g] = act[g] /\ job'[g] = job[g]
    BY <1>1, <1>2, <1>6 DEF ActionCommit
  <1> QED
    BY <1>1, <1>2, <1>4, <1>5, <1>6

LEMMA LoopApart ==
    ASSUME TypeOK, NEW w, NEW g \in Flow, flow[w] # g,
           \/ LoadExecution(w) \/ LockAccount(w) \/ FoundSending(w) \/ Delay(w)
           \/ ZeroDelay(w) \/ FetchLead(w) \/ ApplyLead(w) \/ Recheck(w)
           \/ WindowThrottled(w) \/ WindowRefused(w) \/ MarkSending(w)
    PROVE  Apart(g)
  <1>1. CASE LoadExecution(w) \/ FetchLead(w)
    BY <1>1 DEF LoadExecution, FetchLead, Apart, database, remote
  <1>2. CASE LockAccount(w)
    BY <1>2, PiecesApart DEF LockAccount, Apart, remote
  <1>3. CASE FoundSending(w) \/ Delay(w) \/ ZeroDelay(w)
    BY <1>3, PiecesApart DEF FoundSending, Delay, ZeroDelay, Apart, remote
  <1>4. CASE ApplyLead(w)
    <2>1. \E p \in Position : WriteExec(w, "running") /\ WriteAct(w, p, "complete")
      BY <1>4 DEF ApplyLead
    <2>2. job' = job /\ delivered' = delivered /\ replied' = replied
      BY <1>4 DEF ApplyLead, remote
    <2> QED
      BY <2>1, <2>2, PiecesApart DEF Apart
  <1>5. CASE Recheck(w)
    BY <1>5, PiecesApart DEF Recheck, Apart, remote
  <1>6. CASE WindowThrottled(w) \/ WindowRefused(w)
    <2>1. \E p \in Position : Park(w, p, "pending") \/ Stop(w, p, "failed")
      BY <1>6 DEF WindowThrottled, WindowRefused, BackOff, Refused
    <2>2. delivered' = delivered /\ replied' = replied
      BY <1>6 DEF WindowThrottled, WindowRefused, remote
    <2> QED
      BY <2>1, <2>2, PiecesApart DEF Apart
  <1>7. CASE MarkSending(w)
    BY <1>7, PiecesApart DEF MarkSending, Apart, remote
  <1> QED
    BY <1>1, <1>2, <1>3, <1>4, <1>5, <1>6, <1>7

LEMMA CallApart ==
    ASSUME TypeOK, NEW w, NEW g \in Flow, flow[w] # g,
           \/ Accept(w) \/ Receive(w) \/ TimeOut(w) \/ Reject(w) \/ Throttle(w)
           \/ PostPublicReply(w) \/ RecordSent(w) \/ FinishFlow(w) \/ CompleteJob(w)
           \/ Raise(w) \/ Crash(w)
    PROVE  Apart(g)
  <1>1. CASE Accept(w) \/ Receive(w) \/ PostPublicReply(w)
    BY <1>1 DEF Accept, Receive, PostPublicReply, Apart, database, remote, TypeOK
  <1>2. CASE TimeOut(w) \/ Reject(w) \/ Throttle(w)
    <2>1. \E p \in Position : \/ Park(w, p, "pending") \/ Stop(w, p, "failed")
                             \/ Stop(w, p, "unknown")
      BY <1>2 DEF TimeOut, Reject, Throttle, BackOff, Refused
    <2>2. delivered' = delivered /\ replied' = replied
      BY <1>2 DEF TimeOut, Reject, Throttle, remote
    <2> QED
      BY <2>1, <2>2, PiecesApart DEF Apart
  <1>3. CASE RecordSent(w) \/ FinishFlow(w)
    BY <1>3, PiecesApart DEF RecordSent, FinishFlow, Apart, remote
  <1>4. CASE CompleteJob(w) \/ Raise(w) \/ Crash(w)
    BY <1>4 DEF CompleteJob, Raise, Uncertain, Crash, Apart, database, remote, TypeOK
  <1> QED
    BY <1>1, <1>2, <1>3, <1>4

LEMMA StepApart ==
    ASSUME DeliveryInv, [Next]_vars, NEW g \in Flow, job[g] = "unknown"
    PROVE  Apart(g)
  <1>1. TypeOK
    BY DEF DeliveryInv
  <1>2. ASSUME NEW w \in Worker, pc[w] # "idle" PROVE flow[w] # g
    BY <1>2 DEF DeliveryInv, WorkerInv
  <1>3. ASSUME NEW w \in Worker, Handle(w) \/ Raise(w) \/ Crash(w) PROVE Apart(g)
    <2>1. pc[w] # "idle"
      BY <1>3 DEF Handle, LeadTaken, Raise, Crash, LoadExecution, LockAccount, FoundSending,
         Delay, ZeroDelay, FetchLead, ApplyLead, Recheck, WindowThrottled, WindowRefused,
         MarkSending, Accept, Receive, TimeOut, Reject, Throttle, PostPublicReply, RecordSent,
         FinishFlow, CompleteJob
    <2>2. flow[w] # g
      BY <1>2, <2>1
    <2> QED
      BY <1>1, <1>3, <2>2, LoopApart, CallApart DEF Handle, LeadTaken
  <1>4. ASSUME NEW w \in Worker, Poll(w) PROVE Apart(g)
    <2>1. PICK f \in Flow : Claim(w, f) \/ RecoverSending(w, f) \/ RecoverIdle(w, f)
      BY <1>4 DEF Poll
    <2>2. f # g
      BY <2>1 DEF Claim, RecoverSending, RecoverIdle, Stale
    <2> QED
      BY <1>1, <2>1, <2>2
      DEF Claim, RecoverSending, RecoverIdle, Uncertain, Apart, remote, TypeOK
  <1>5. CASE UNCHANGED vars \/ \E s \in Source : SetSource(s)
    BY <1>5 DEF vars, SetSource, database, remote, Apart
  <1> QED
    BY <1>3, <1>4, <1>5 DEF Next

\* A flow closed as uncertain is left for review: no worker runs it, sends for it
\* or changes its actions.
THEOREM ClosedForReview ==
    ASSUME LeaseOutlivesWork PROVE Spec => UnknownIsFinal
  <1>1. DeliveryInv /\ [Next]_vars =>
          [\A f \in Flow : job[f] = "unknown" =>
             /\ job'[f] = "unknown" /\ exec'[f] = exec[f] /\ act'[f] = act[f]
             /\ delivered'[f] = delivered[f] /\ replied'[f] = replied[f]]_vars
    BY StepApart DEF Apart
  <1> QED
    BY <1>1, Inductive, PTL DEF Spec, UnknownIsFinal

=============================================================================

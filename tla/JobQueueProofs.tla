--------------------------- MODULE JobQueueProofs ---------------------------
(***************************************************************************)
(* The worker loop, for every set of workers and jobs and any number of       *)
(* deaths, if recovery takes only the jobs of workers that are gone: replies,  *)
(* Telegram answers and events take effect at most once, a closed reply is     *)
(* settled, and replies keep the contract of ReplyContract.                    *)
(***************************************************************************)
EXTENDS JobQueue, TLAPS

\* A worker with a job in hand is the only one that has it.
OneHolder ==
    \A v, w \in Worker : pc[v] # "idle" /\ pc[w] # "idle" /\ held[v] = held[w] => v = w

\* The stage tells the kind of the job, what its row says and what went out.
HolderInv(w) ==
    LET j == held[w] IN
    IF pc[w] = "idle" THEN j = NoJob
    ELSE /\ status[j] = "running"
         /\ pc[w] = "checked" => KindOf[j] = "send"
         /\ pc[w] \in {"inflight", "accepted", "done"} => KindOf[j] # "incoming"
         /\ KindOf[j] = "send" =>
              /\ pc[w] \in {"handle", "checked"} => row[j] = "queued"
              /\ pc[w] = "inflight" => row[j] = "sending" /\ calls[j] = 0
              /\ pc[w] = "accepted" => row[j] = "sending" /\ calls[j] = 1
              /\ pc[w] = "done" => row[j] \notin {"queued", "sending"}
         /\ KindOf[j] = "telegram" /\ pc[w] \in {"handle", "inflight"} => calls[j] = 0

\* A send and a Telegram update are taken up once; an event's row and its effects are
\* one commit.
RowInv(j) ==
    /\ KindOf[j] = "send" =>
         /\ row[j] \notin {"new", "received", "linked"}
         /\ calls[j] <= 1
         /\ status[j] # "failed"
         /\ status[j] = "pending" => row[j] = "queued"
         /\ status[j] \in {"complete", "unknown"} => row[j] \notin {"queued", "sending"}
         /\ row[j] \in {"queued", "cancelled", "failed"} => calls[j] = 0
         /\ row[j] = "sent" => calls[j] = 1
    /\ KindOf[j] = "telegram" => calls[j] <= 1 /\ (status[j] = "pending" => calls[j] = 0)
    /\ KindOf[j] = "incoming" =>
         \/ row[j] = "new" /\ calls[j] = 0
         \/ row[j] = "received" /\ calls[j] = 1

\* The inductive invariant.
JobInv ==
    /\ TypeOK /\ OneHolder
    /\ \A w \in Worker : HolderInv(w)
    /\ \A j \in Job : RowInv(j)

-----------------------------------------------------------------------------
(* Types. *)

LEMMA TypesInit == Init => TypeOK
  BY JobAssumption, BoundAssumption
     DEF Init, TypeOK, JobStatus, RowStatus, Stage, FirstRow, Kind

LEMMA HandleTypes ==
  ASSUME TypeOK, NEW w \in Worker, Handle(w) PROVE TypeOK'
  <1> USE DEF TypeOK, Goto, Drop, SetRow, SetStatus, Holds, JobStatus, RowStatus, Stage
  <1>1. CASE Ingest(w) BY <1>1 DEF Ingest
  <1>2. CASE LoadMessage(w) BY <1>2 DEF LoadMessage
  <1>3. CASE MarkSending(w) BY <1>3 DEF MarkSending
  <1>4. CASE BeginNotification(w) BY <1>4 DEF BeginNotification
  <1>5. CASE HandleUpdate(w) BY <1>5 DEF HandleUpdate
  <1>6. CASE Accept(w) BY <1>6 DEF Accept
  <1>7. CASE Receive(w) BY <1>7 DEF Receive
  <1>8. CASE TimeOut(w) BY <1>8 DEF TimeOut
  <1>9. CASE Reject(w) BY <1>9 DEF Reject
  <1>10. CASE Complete(w) BY <1>10 DEF Complete
  <1> QED BY <1>1, <1>2, <1>3, <1>4, <1>5, <1>6, <1>7, <1>8, <1>9, <1>10 DEF Handle

LEMMA TypesNext == ASSUME TypeOK, [Next]_vars PROVE TypeOK'
  <1> USE DEF TypeOK, Goto, Drop, SetRow, SetStatus, JobStatus, RowStatus, Stage
  <1>1. ASSUME NEW w \in Worker, Raise(w) PROVE TypeOK'
    BY <1>1 DEF Raise, Doubted
  <1>2. ASSUME NEW w \in Worker, Crash(w) PROVE TypeOK'
    BY <1>2, BoundAssumption DEF Crash
  <1>3. ASSUME NEW w \in Worker, NEW j \in Job, Claim(w, j) PROVE TypeOK'
    BY <1>3 DEF Claim
  <1>4. ASSUME NEW w \in Worker, NEW j \in Job, Recover(w, j) PROVE TypeOK'
    BY <1>4 DEF Recover, Doubted
  <1>5. CASE UNCHANGED vars BY <1>5 DEF vars
  <1> QED BY HandleTypes, <1>1, <1>2, <1>3, <1>4, <1>5 DEF Next, Poll

\* Rows, worker stages and the job in hand keep their types (worker.run_one).
THEOREM JobTypes == Spec => []TypeOK
  BY TypesInit, TypesNext, PTL DEF Spec

-----------------------------------------------------------------------------
(* The invariant. *)

\* It survives a step of w on j if it does at w and at j.
LEMMA LocalStep ==
  ASSUME JobInv, TypeOK', NEW w \in Worker, NEW j \in Job,
         \A v \in Worker \ {w} : pc'[v] = pc[v] /\ held'[v] = held[v],
         \A k \in Job \ {j} : status'[k] = status[k] /\ row'[k] = row[k] /\ calls'[k] = calls[k],
         \A v \in Worker \ {w} : pc[v] # "idle" => held[v] # j,
         pc'[w] # "idle" => held'[w] = j,
         HolderInv(w)', RowInv(j)'
  PROVE  JobInv'
  <1>1. OneHolder' BY DEF JobInv, OneHolder, TypeOK
  <1>2. ASSUME NEW v \in Worker PROVE HolderInv(v)'
    <2>1. CASE v = w BY <2>1
    <2>2. CASE v # w
      <3>1. pc'[v] = pc[v] /\ held'[v] = held[v] BY <2>2
      <3>2. HolderInv(v) BY DEF JobInv
      <3>3. CASE pc[v] = "idle" BY <3>1, <3>2, <3>3 DEF HolderInv
      <3>4. CASE pc[v] # "idle"
        <4>1. held[v] \in Job \ {j} BY <2>2, <3>4 DEF JobInv, TypeOK
        <4>2. /\ status'[held[v]] = status[held[v]] /\ row'[held[v]] = row[held[v]]
              /\ calls'[held[v]] = calls[held[v]]
          BY <4>1
        <4> QED BY <3>1, <3>2, <3>4, <4>2 DEF HolderInv
      <3> QED BY <3>3, <3>4
    <2> QED BY <2>1, <2>2
  <1>3. ASSUME NEW k \in Job PROVE RowInv(k)'
    <2>1. CASE k = j BY <2>1
    <2>2. CASE k # j
      <3>1. status'[k] = status[k] /\ row'[k] = row[k] /\ calls'[k] = calls[k] BY <2>2
      <3>2. RowInv(k) BY DEF JobInv
      <3> QED BY <3>1, <3>2 DEF RowInv
    <2> QED BY <2>1, <2>2
  <1> QED BY <1>1, <1>2, <1>3 DEF JobInv

\* What is known of a worker with a job in hand.
LEMMA Holding ==
  ASSUME JobInv, NEW w \in Worker, pc[w] # "idle"
  PROVE  /\ held[w] \in Job /\ HolderInv(w) /\ RowInv(held[w]) /\ KindOf[held[w]] \in Kind
         /\ status[held[w]] = "running"
         /\ \A v \in Worker \ {w} : pc[v] # "idle" => held[v] # held[w]
  BY JobAssumption DEF JobInv, TypeOK, HolderInv, OneHolder

LEMMA Busy == ASSUME NEW w \in Worker, Handle(w) PROVE pc[w] # "idle"
  BY DEF Handle, Ingest, LoadMessage, MarkSending, BeginNotification, HandleUpdate,
         Accept, Receive, TimeOut, Reject, Complete, Holds

\* The steps of a handler, one after the other: at its worker and at its job.
LEMMA HandleLocal ==
  ASSUME JobInv, NEW w \in Worker, Handle(w), NEW j \in Job, j = held[w]
  PROVE  /\ \A v \in Worker \ {w} : pc'[v] = pc[v] /\ held'[v] = held[v]
         /\ \A k \in Job \ {j} :
              status'[k] = status[k] /\ row'[k] = row[k] /\ calls'[k] = calls[k]
         /\ pc'[w] # "idle" => held'[w] = j
         /\ HolderInv(w)' /\ RowInv(j)'
  <1>1. /\ HolderInv(w) /\ RowInv(j) /\ KindOf[j] \in Kind
        /\ status[j] = "running" /\ TypeOK
    BY Busy, Holding DEF JobInv
  <1> USE <1>1 DEF Goto, Drop, SetRow, SetStatus, Holds, HolderInv, RowInv, TypeOK,
                   Kind, JobStatus, RowStatus, Stage
  <1>a. CASE Ingest(w) BY <1>a DEF Ingest
  <1>b. CASE LoadMessage(w) BY <1>b DEF LoadMessage
  <1>c. CASE MarkSending(w) BY <1>c DEF MarkSending
  <1>d. CASE BeginNotification(w) BY <1>d DEF BeginNotification
  <1>e. CASE HandleUpdate(w) BY <1>e DEF HandleUpdate
  <1>f. CASE Accept(w) BY <1>f DEF Accept
  <1>g. CASE Receive(w) BY <1>g DEF Receive
  <1>h. CASE TimeOut(w) BY <1>h DEF TimeOut
  <1>i. CASE Reject(w) BY <1>i DEF Reject
  <1>j. CASE Complete(w) BY <1>j DEF Complete
  <1> QED BY <1>a, <1>b, <1>c, <1>d, <1>e, <1>f, <1>g, <1>h, <1>i, <1>j DEF Handle

LEMMA HandleKeeps == ASSUME JobInv, NEW w \in Worker, Handle(w) PROVE JobInv'
  <1>1. PICK j \in Job : j = held[w] BY Busy, Holding
  <1>2. TypeOK' BY HandleTypes DEF JobInv
  <1>3. \A v \in Worker \ {w} : pc[v] # "idle" => held[v] # j BY <1>1, Busy, Holding
  <1> QED BY <1>1, <1>2, <1>3, HandleLocal, LocalStep

LEMMA RaiseKeeps == ASSUME JobInv, NEW w \in Worker, Raise(w) PROVE JobInv'
  <1>1. PICK j \in Job : j = held[w] BY Holding DEF Raise
  <1>2. /\ RowInv(j) /\ KindOf[j] \in Kind /\ status[j] = "running" /\ TypeOK
        /\ \A v \in Worker \ {w} : pc[v] # "idle" => held[v] # j
    BY <1>1, Holding DEF JobInv, Raise
  <1>3. TypeOK' BY TypesNext, <1>2 DEF Next
  <1>4. /\ \A v \in Worker \ {w} : pc'[v] = pc[v] /\ held'[v] = held[v]
        /\ \A k \in Job \ {j} :
             status'[k] = status[k] /\ row'[k] = row[k] /\ calls'[k] = calls[k]
        /\ pc'[w] = "idle" /\ held'[w] = NoJob
    BY <1>1, <1>2 DEF Raise, Drop, SetRow, SetStatus, TypeOK
  <1>5. HolderInv(w)' BY <1>4 DEF HolderInv
  <1>6. RowInv(j)'
    BY <1>1, <1>2
       DEF Raise, Drop, SetRow, SetStatus, Doubted, RowInv, Kind, TypeOK, RowStatus
  <1> QED BY <1>2, <1>3, <1>4, <1>5, <1>6, LocalStep

LEMMA CrashKeeps == ASSUME JobInv, NEW w \in Worker, Crash(w) PROVE JobInv'
  <1>1. PICK j \in Job : j = held[w] BY Holding DEF Crash
  <1>2. /\ RowInv(j) /\ TypeOK
        /\ \A v \in Worker \ {w} : pc[v] # "idle" => held[v] # j
    BY <1>1, Holding DEF JobInv, Crash
  <1>3. TypeOK' BY TypesNext, <1>2 DEF Next
  <1>4. /\ \A v \in Worker \ {w} : pc'[v] = pc[v] /\ held'[v] = held[v]
        /\ UNCHANGED <<status, row, calls>>
        /\ pc'[w] = "idle" /\ held'[w] = NoJob
    BY <1>2 DEF Crash, Drop, TypeOK
  <1>5. HolderInv(w)' BY <1>4 DEF HolderInv
  <1>6. RowInv(j)' BY <1>2, <1>4 DEF RowInv
  <1> QED BY <1>2, <1>3, <1>4, <1>5, <1>6, LocalStep

\* A pending send or Telegram update has not been taken up before.
LEMMA ClaimKeeps ==
  ASSUME JobInv, NEW w \in Worker, NEW j \in Job, Claim(w, j) PROVE JobInv'
  <1>1. pc[w] = "idle" /\ status[j] = "pending" /\ TypeOK /\ RowInv(j) BY DEF Claim, JobInv
  <1>2. \A v \in Worker \ {w} : pc[v] # "idle" => held[v] # j
    BY <1>1 DEF JobInv, HolderInv
  <1>3. TypeOK' BY TypesNext, <1>1 DEF Next, Poll
  <1>4. /\ \A v \in Worker \ {w} : pc'[v] = pc[v] /\ held'[v] = held[v]
        /\ \A k \in Job \ {j} : status'[k] = status[k]
        /\ UNCHANGED <<row, calls>>
        /\ pc'[w] = "handle" /\ held'[w] = j /\ status'[j] = "running"
    BY <1>1 DEF Claim, SetStatus, TypeOK
  <1>5. HolderInv(w)' BY <1>1, <1>4 DEF HolderInv, RowInv
  <1>6. RowInv(j)' BY <1>1, <1>4 DEF RowInv
  <1> QED BY <1>2, <1>3, <1>4, <1>5, <1>6, LocalStep

\* The only step that needs the lease: nobody has the job that is put back or closed.
LEMMA RecoverKeeps ==
  ASSUME JobInv, LeaseOutlivesWork, NEW w \in Worker, NEW j \in Job, Recover(w, j)
  PROVE  JobInv'
  <1>1. pc[w] = "idle" /\ status[j] = "running" /\ TypeOK /\ RowInv(j) /\ HolderInv(w)
        /\ KindOf[j] \in Kind
    BY JobAssumption DEF Recover, JobInv
  <1>2. \A v \in Worker : held[v] # j BY DEF Recover
  <1>3. TypeOK' BY TypesNext, <1>1 DEF Next, Poll
  <1>4. /\ UNCHANGED <<pc, held, calls>>
        /\ \A k \in Job \ {j} : status'[k] = status[k] /\ row'[k] = row[k]
    BY <1>1 DEF Recover, SetStatus, SetRow, TypeOK
  <1>5. HolderInv(w)' BY <1>1, <1>4 DEF HolderInv
  <1>6. RowInv(j)'
    BY <1>1 DEF Recover, SetRow, SetStatus, Doubted, RowInv, Kind, TypeOK, RowStatus
  <1> QED BY <1>1, <1>2, <1>3, <1>4, <1>5, <1>6, LocalStep

LEMMA JobInvInit == Init => JobInv
  <1> SUFFICES ASSUME Init PROVE JobInv OBVIOUS
  <1>1. TypeOK BY TypesInit
  <1>2. OneHolder /\ \A w \in Worker : HolderInv(w) BY DEF Init, OneHolder, HolderInv
  <1>3. ASSUME NEW j \in Job PROVE RowInv(j)
    BY JobAssumption DEF Init, RowInv, FirstRow, Kind
  <1> QED BY <1>1, <1>2, <1>3 DEF JobInv

LEMMA JobInvNext == ASSUME JobInv, LeaseOutlivesWork, [Next]_vars PROVE JobInv'
  <1>1. CASE UNCHANGED vars
    BY <1>1 DEF vars, JobInv, TypeOK, OneHolder, HolderInv, RowInv
  <1> QED BY <1>1, HandleKeeps, RaiseKeeps, CrashKeeps, ClaimKeeps, RecoverKeeps
          DEF Next, Poll

LEMMA Inductive == ASSUME LeaseOutlivesWork PROVE Spec => []JobInv
  <1>1. JobInv /\ [Next]_vars => JobInv' BY JobInvNext
  <1> QED BY JobInvInit, <1>1, PTL DEF Spec

\* However many workers die and are recovered from, a keyword reply and a Telegram answer
\* are sent, and an event is ingested, at most once (worker.run_one, automation.deliver).
THEOREM EffectsHappenOnce ==
    ASSUME LeaseOutlivesWork PROVE Spec => []EffectAtMostOnce
  <1>1. JobInv => EffectAtMostOnce
    <2> SUFFICES ASSUME JobInv, NEW j \in Job, KindOf[j] # "notification"
                 PROVE  calls[j] <= 1
      BY DEF EffectAtMostOnce
    <2>1. KindOf[j] \in {"incoming", "send", "telegram"} BY JobAssumption DEF Kind
    <2> QED BY <2>1 DEF JobInv, RowInv
  <1> QED BY Inductive, <1>1, PTL

\* The job of a keyword reply is closed together with its message, and what the message
\* says of the provider is true (worker.recover_stale, worker.run_one).
THEOREM ClosedSendsAreSettled ==
    ASSUME LeaseOutlivesWork PROVE Spec => []ClosedSendIsSettled
  <1>1. JobInv => ClosedSendIsSettled BY DEF JobInv, RowInv, ClosedSendIsSettled
  <1> QED BY Inductive, <1>1, PTL

-----------------------------------------------------------------------------
(* Keyword replies implement ReplyContract. *)

\* What one reply may do, on its row and its count.
ReplyStep(j) ==
    \/ row[j] = "queued" /\ row'[j] = "sending" /\ calls[j] = 0 /\ calls'[j] = calls[j]
    \/ row[j] = "sending" /\ row'[j] = "sending" /\ calls[j] = 0 /\ calls'[j] = 1
    \/ row[j] = "sending" /\ row'[j] = "sent" /\ calls[j] = 1 /\ calls'[j] = calls[j]
    \/ row[j] \in {"queued", "sending"} /\ row'[j] = "unknown" /\ calls'[j] = calls[j]
    \/ row[j] = "sending" /\ row'[j] = "failed" /\ calls[j] = 0 /\ calls'[j] = calls[j]
    \/ row[j] = "queued" /\ row'[j] = "cancelled" /\ calls[j] = 0 /\ calls'[j] = calls[j]
    \/ row'[j] = row[j] /\ calls'[j] = calls[j]

\* It is a step of the contract, or none.
LEMMA ReplyStepKeeps ==
  ASSUME NEW j \in Job, KindOf[j] = "send" => ReplyStep(j),
         \A k \in Job \ {j} : row'[k] = row[k] /\ calls'[k] = calls[k]
  PROVE  Contract!Next \/ UNCHANGED <<Phases, Copies>>
  <1>1. \A k \in SendJobs \ {j} : Phase(k)' = Phase(k) /\ calls'[k] = calls[k]
    BY DEF SendJobs, Phase
  <1>2. CASE j \notin SendJobs \/ (row'[j] = row[j] /\ calls'[j] = calls[j])
    <2>1. \A k \in SendJobs : Phase(k)' = Phase(k) /\ calls'[k] = calls[k]
      BY <1>1, <1>2 DEF Phase
    <2> QED BY <2>1 DEF Phases, Copies
  <1>3. CASE j \in SendJobs /\ ~(row'[j] = row[j] /\ calls'[j] = calls[j])
    <2>1. /\ Phases' = [Phases EXCEPT ![j] = Phase(j)']
          /\ Copies' = [Copies EXCEPT ![j] = calls'[j]]
          /\ calls'[j] = calls[j] => UNCHANGED Copies
          /\ Phase(j)' = Phase(j) => UNCHANGED Phases
          /\ Phases[j] = Phase(j) /\ Copies[j] = calls[j]
      BY <1>1, <1>3 DEF Phases, Copies
    <2>2. ReplyStep(j) BY <1>3 DEF SendJobs
    <2>3. \/ Contract!Attempt(j) \/ Contract!Accept(j) \/ Contract!Confirm(j)
          \/ Contract!Doubt(j) \/ Contract!Refuse(j) \/ Contract!Abandon(j)
      <3> USE <2>1 DEF Contract!Become, Phase
      <3>1. CASE row[j] = "queued" /\ row'[j] = "sending" /\ calls[j] = 0 /\ calls'[j] = calls[j]
        BY <3>1 DEF Contract!Attempt
      <3>2. CASE row[j] = "sending" /\ row'[j] = "sending" /\ calls[j] = 0 /\ calls'[j] = 1
        BY <3>2 DEF Contract!Accept
      <3>3. CASE row[j] = "sending" /\ row'[j] = "sent" /\ calls[j] = 1 /\ calls'[j] = calls[j]
        BY <3>3 DEF Contract!Confirm
      <3>4. CASE row[j] \in {"queued", "sending"} /\ row'[j] = "unknown" /\ calls'[j] = calls[j]
        BY <3>4 DEF Contract!Doubt
      <3>5. CASE row[j] = "sending" /\ row'[j] = "failed" /\ calls[j] = 0 /\ calls'[j] = calls[j]
        BY <3>5 DEF Contract!Refuse
      <3>6. CASE row[j] = "queued" /\ row'[j] = "cancelled" /\ calls[j] = 0 /\ calls'[j] = calls[j]
        BY <3>6 DEF Contract!Abandon
      <3> QED BY <1>3, <2>2, <3>1, <3>2, <3>3, <3>4, <3>5, <3>6 DEF ReplyStep
    <2> QED BY <1>3, <2>3 DEF Contract!Next
  <1> QED BY <1>2, <1>3

\* A handler does to its own reply what the contract allows.
LEMMA HandleImplements ==
  ASSUME JobInv, NEW w \in Worker, Handle(w), NEW j \in Job, j = held[w],
         KindOf[j] = "send"
  PROVE  ReplyStep(j)
  <1>1. HolderInv(w) /\ RowInv(j) /\ TypeOK
    BY Busy, Holding DEF JobInv
  <1> USE <1>1 DEF Goto, Drop, SetRow, SetStatus, Holds, HolderInv, RowInv, TypeOK,
                   RowStatus, Stage, ReplyStep
  <1>1a. CASE Ingest(w) \/ BeginNotification(w) \/ HandleUpdate(w)
    BY <1>1a DEF Ingest, BeginNotification, HandleUpdate
  <1>2. CASE LoadMessage(w) BY <1>2 DEF LoadMessage
  <1>3. CASE MarkSending(w) BY <1>3 DEF MarkSending
  <1>4. CASE Accept(w) BY <1>4 DEF Accept
  <1>5. CASE Receive(w) BY <1>5 DEF Receive
  <1>6. CASE TimeOut(w) BY <1>6 DEF TimeOut
  <1>7. CASE Reject(w) BY <1>7 DEF Reject
  <1>8. CASE Complete(w) BY <1>8 DEF Complete
  <1> QED BY <1>1a, <1>2, <1>3, <1>4, <1>5, <1>6, <1>7, <1>8 DEF Handle

LEMMA StepImplements ==
  ASSUME JobInv, [Next]_vars
  PROVE  [Contract!Next]_<<Phases, Copies>>
  <1>t. TypeOK BY DEF JobInv
  <1>1. ASSUME NEW w \in Worker, Handle(w)
        PROVE  \E j \in Job : /\ KindOf[j] = "send" => ReplyStep(j)
                              /\ \A k \in Job \ {j} : row'[k] = row[k] /\ calls'[k] = calls[k]
    <2>1. PICK j \in Job : j = held[w] BY <1>1, Busy, Holding
    <2> QED BY <1>1, <2>1, HandleLocal, HandleImplements
  <1>2. ASSUME NEW w \in Worker, Raise(w)
        PROVE  \E j \in Job : /\ KindOf[j] = "send" => ReplyStep(j)
                              /\ \A k \in Job \ {j} : row'[k] = row[k] /\ calls'[k] = calls[k]
    <2>1. PICK j \in Job : j = held[w] BY <1>2, Holding DEF Raise
    <2> QED BY <1>t, <1>2, <2>1 DEF Raise, SetRow, Doubted, ReplyStep, TypeOK
  <1>3. ASSUME NEW w \in Worker, NEW j \in Job, Recover(w, j)
        PROVE  /\ KindOf[j] = "send" => ReplyStep(j)
               /\ \A k \in Job \ {j} : row'[k] = row[k] /\ calls'[k] = calls[k]
    BY <1>t, <1>3 DEF Recover, SetRow, Doubted, ReplyStep, TypeOK
  <1>4. ASSUME UNCHANGED <<row, calls>>
        PROVE  UNCHANGED <<Phases, Copies>>
    BY <1>4 DEF Phase, Phases, Copies
  <1>5. ASSUME NEW w \in Worker, NEW j \in Job, Claim(w, j)
        PROVE  UNCHANGED <<row, calls>>
    BY <1>5 DEF Claim
  <1>6. CASE UNCHANGED vars BY <1>4, <1>6 DEF vars
  <1>7. CASE \E w \in Worker : Crash(w) BY <1>4, <1>7 DEF Crash
  <1> QED BY <1>1, <1>2, <1>3, <1>4, <1>5, <1>6, <1>7, ReplyStepKeeps DEF Next, Poll

\* Keyword replies keep the contract of docs/architecture.md: at most one copy each,
\* a doubtful outcome is recorded as unknown for good, a refused one is not tried again.
THEOREM RepliesKeepContract ==
    ASSUME LeaseOutlivesWork PROVE Spec => KeepsContract
  <1>1. Init => Contract!Init
    BY DEF Init, Contract!Init, Phases, Copies, Phase, FirstRow, SendJobs
  <1>2. JobInv /\ [Next]_vars =>
          [Contract!Next]_<<Phases, Copies>>
    BY StepImplements
  <1> QED BY Inductive, <1>1, <1>2, PTL DEF Spec, KeepsContract, Contract!Spec
=============================================================================

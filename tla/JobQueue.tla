------------------------------ MODULE JobQueue ------------------------------
(***************************************************************************)
(* The worker loop for the jobs that are not flows: incoming events, sends   *)
(* of keyword replies (deliver), Telegram updates and notifications.  One    *)
(* job row per job, one domain row for it: the outgoing message and its      *)
(* execution (always written alike) of a send, the notification, the         *)
(* ingested event, the effect of a Telegram update.                         *)
(***************************************************************************)
EXTENDS Naturals

CONSTANTS
    Worker, Job, NoJob,
    KindOf,         \* [Job -> Kind]
    MaxAttempts,    \* 5 in the code
    MaxCrashes,     \* bound: worker processes that die in a behaviour
    LeaseOutlivesWork  \* TRUE: a job is five minutes old only if its worker is dead

Kind == {"incoming", "send", "telegram", "notification"}

ASSUME JobAssumption == KindOf \in [Job -> Kind] /\ NoJob \notin Job
ASSUME BoundAssumption ==
    MaxAttempts \in Nat \ {0} /\ MaxCrashes \in Nat /\ LeaseOutlivesWork \in BOOLEAN

VARIABLES
    status,    \* Job.status
    attempts,  \* Job.attempts
    row,       \* status of the domain row
    pc, held,  \* worker: stage and job in hand
    calls,     \* external effects: what the provider, SMTP or Telegram accepted
    crashes

vars == <<status, attempts, row, pc, held, calls, crashes>>

JobStatus == {"pending", "running", "complete", "failed", "unknown"}
RowStatus == {"new", "received", "linked", "queued", "sending", "sent",
              "unknown", "failed", "cancelled"}
Stage == {"idle", "handle", "checked", "inflight", "accepted", "done"}

FirstRow(kind) == IF kind \in {"send", "notification"} THEN "queued" ELSE "new"

Init ==
    /\ status = [j \in Job |-> "pending"]
    /\ attempts = [j \in Job |-> 0]
    /\ row = [j \in Job |-> FirstRow(KindOf[j])]
    /\ pc = [w \in Worker |-> "idle"]
    /\ held = [w \in Worker |-> NoJob]
    /\ calls = [j \in Job |-> 0]
    /\ crashes = 0

-----------------------------------------------------------------------------
Goto(w, stage) == pc' = [pc EXCEPT ![w] = stage] /\ UNCHANGED held
Drop(w) == /\ pc' = [pc EXCEPT ![w] = "idle"]
           /\ held' = [held EXCEPT ![w] = NoJob]
SetRow(j, s) == row' = [row EXCEPT ![j] = s]
SetStatus(j, s) == status' = [status EXCEPT ![j] = s]
Holds(w, kind, stage) == pc[w] = stage /\ KindOf[held[w]] = kind

Claim(w, j) ==
    /\ pc[w] = "idle" /\ status[j] = "pending"
    /\ SetStatus(j, "running")
    /\ attempts' = [attempts EXCEPT ![j] = @ + 1]
    /\ pc' = [pc EXCEPT ![w] = "handle"]
    /\ held' = [held EXCEPT ![w] = j]
    /\ UNCHANGED <<row, calls, crashes>>

\* Mutant: the event is committed before its job, and its key is not looked up.
IngestFirst(w) ==
    LET j == held[w] IN
    /\ Holds(w, "incoming", "handle")
    /\ SetRow(j, "received")
    /\ calls' = [calls EXCEPT ![j] = @ + 1]
    /\ Goto(w, "done")
    /\ UNCHANGED <<status, attempts, crashes>>

\* What a job finds when it reads its account, owner and window, or its user and
\* Telegram link, may have changed at any time before: "open" is chosen at the read.

\* ingest: its rows and the completion of the job are one commit; an event already
\* ingested, or of an inactive account or owner, is only completed.
Ingest(w) ==
    LET j == held[w] IN
    /\ Holds(w, "incoming", "handle")
    /\ \E open \in BOOLEAN :
        /\ SetRow(j, IF open THEN "received" ELSE row[j])
        /\ calls' = [calls EXCEPT ![j] = IF open /\ row[j] = "new" THEN @ + 1 ELSE @]
    /\ SetStatus(j, "complete") /\ Drop(w)
    /\ UNCHANGED <<attempts, crashes>>

\* deliver: only a queued message is sent, and only while its source is open.
LoadMessage(w) ==
    LET j == held[w] IN
    /\ Holds(w, "send", "handle")
    /\ \E open \in BOOLEAN :
        /\ SetRow(j, IF row[j] = "queued" /\ ~open THEN "cancelled" ELSE row[j])
        /\ Goto(w, IF row[j] = "queued" /\ open THEN "checked" ELSE "done")
    /\ UNCHANGED <<status, attempts, calls, crashes>>

MarkSending(w) ==
    /\ Holds(w, "send", "checked")
    /\ SetRow(held[w], "sending") /\ Goto(w, "inflight")
    /\ UNCHANGED <<status, attempts, calls, crashes>>

\* deliver_notification: no look at the notification's status, no marker.
BeginNotification(w) ==
    LET j == held[w] IN
    /\ Holds(w, "notification", "handle")
    /\ \/ Goto(w, "inflight") /\ UNCHANGED <<status, row>>
       \/ SetRow(j, "failed") /\ SetStatus(j, "complete") /\ Drop(w)
    /\ UNCHANGED <<attempts, calls, crashes>>

\* handle_update: a link or a confirmed toggle is committed before the reply; an
\* update of a group or a bot is ignored.
HandleUpdate(w) ==
    /\ Holds(w, "telegram", "handle")
    /\ \/ SetRow(held[w], "linked") /\ Goto(w, "inflight")
       \/ UNCHANGED row /\ Goto(w, "inflight")
       \/ UNCHANGED row /\ Goto(w, "done")
    /\ UNCHANGED <<status, attempts, calls, crashes>>

-----------------------------------------------------------------------------
Accept(w) ==
    /\ pc[w] = "inflight"
    /\ calls' = [calls EXCEPT ![held[w]] = @ + 1]
    /\ Goto(w, "accepted")
    /\ UNCHANGED <<status, attempts, row, crashes>>

\* A receipt; a send records it at once, the others in the commit that completes.
Receive(w) ==
    LET j == held[w] IN
    /\ pc[w] = "accepted"
    /\ IF KindOf[j] = "send"
       THEN SetRow(j, "sent") /\ Goto(w, "done") /\ UNCHANGED status
       ELSE /\ SetRow(j, IF KindOf[j] = "notification" THEN "sent" ELSE row[j])
            /\ SetStatus(j, "complete") /\ Drop(w)
    /\ UNCHANGED <<attempts, calls, crashes>>

\* Mutant: a timeout is taken for a rejection.
TimeOutRejects(w) ==
    /\ Holds(w, "send", "inflight") \/ Holds(w, "send", "accepted")
    /\ SetRow(held[w], "failed") /\ Goto(w, "done")
    /\ UNCHANGED <<status, attempts, calls, crashes>>

\* DeliveryUnknown of a send: after or before the provider took it.
TimeOut(w) ==
    /\ Holds(w, "send", "inflight") \/ Holds(w, "send", "accepted")
    /\ SetRow(held[w], "unknown") /\ Goto(w, "done")
    /\ UNCHANGED <<status, attempts, calls, crashes>>

\* DeliveryRejected, which RateLimited is.
Reject(w) ==
    /\ Holds(w, "send", "inflight")
    /\ SetRow(held[w], "failed") /\ Goto(w, "done")
    /\ UNCHANGED <<status, attempts, calls, crashes>>

Complete(w) ==
    /\ pc[w] = "done"
    /\ SetStatus(held[w], "complete") /\ Drop(w)
    /\ UNCHANGED <<attempts, row, calls, crashes>>

-----------------------------------------------------------------------------
\* A send that may have been under way is closed.
Doubted(j) == IF row[j] \in {"queued", "sending"} THEN "unknown" ELSE row[j]

\* Mutant: a status of the domain row that no reader knows.
RaiseError(w) ==
    LET j == held[w] IN
    /\ pc[w] # "idle"
    /\ SetStatus(j, "unknown") /\ SetRow(j, "error") /\ Drop(w)
    /\ UNCHANGED <<attempts, calls, crashes>>

\* Any exception: roll back; only an incoming event is tried again.
Raise(w) ==
    LET j == held[w] IN
    /\ pc[w] # "idle"
    /\ SetStatus(j, IF KindOf[j] # "incoming" THEN "unknown"
                    ELSE IF attempts[j] >= MaxAttempts THEN "failed" ELSE "pending")
    /\ SetRow(j, CASE KindOf[j] = "send" -> Doubted(j)
                   [] KindOf[j] = "notification" -> "failed"
                   [] OTHER -> row[j])
    /\ Drop(w)
    /\ UNCHANGED <<attempts, calls, crashes>>

Crash(w) ==
    /\ pc[w] # "idle" /\ crashes < MaxCrashes
    /\ crashes' = crashes + 1
    /\ Drop(w)
    /\ UNCHANGED <<status, attempts, row, calls>>

\* Mutants: recovery leaves the message of a send alone; it looks at sends only.
RecoverClosing(w, j, kinds, s) ==
    /\ pc[w] = "idle" /\ status[j] = "running"
    /\ LeaseOutlivesWork => \A v \in Worker : held[v] # j
    /\ SetStatus(j, IF KindOf[j] \in kinds THEN "unknown" ELSE "pending")
    /\ SetRow(j, IF KindOf[j] = "send" THEN s ELSE row[j])
    /\ UNCHANGED <<attempts, pc, held, calls, crashes>>
RecoverJobOnly(w, j) == RecoverClosing(w, j, {"send", "telegram"}, row[j])
RecoverSendsOnly(w, j) == KindOf[j] = "send" /\ RecoverClosing(w, j, {"send"}, Doubted(j))

\* recover_stale: sends and Telegram updates are closed, the others run again.
Recover(w, j) ==
    /\ pc[w] = "idle" /\ status[j] = "running"
    /\ LeaseOutlivesWork => \A v \in Worker : held[v] # j
    /\ SetStatus(j, IF KindOf[j] \in {"send", "telegram"} THEN "unknown" ELSE "pending")
    /\ SetRow(j, IF KindOf[j] = "send" THEN Doubted(j) ELSE row[j])
    /\ UNCHANGED <<attempts, pc, held, calls, crashes>>

-----------------------------------------------------------------------------
Handle(w) ==
    \/ Ingest(w) \/ LoadMessage(w) \/ MarkSending(w) \/ BeginNotification(w)
    \/ HandleUpdate(w) \/ Accept(w) \/ Receive(w) \/ TimeOut(w) \/ Reject(w)
    \/ Complete(w)

Poll(w) == \E j \in Job : Claim(w, j) \/ Recover(w, j)

Next ==
    \E w \in Worker : Handle(w) \/ Raise(w) \/ Poll(w) \/ Crash(w)

Spec == Init /\ [][Next]_vars

\* Workers loop, every call has a timeout; see FlowDelivery.
FairSpec == Spec /\ \A w \in Worker : WF_vars(Handle(w)) /\ WF_vars(Poll(w))

-----------------------------------------------------------------------------
TypeOK ==
    /\ status \in [Job -> JobStatus]
    /\ attempts \in [Job -> Nat]
    /\ row \in [Job -> RowStatus]
    /\ pc \in [Worker -> Stage]
    /\ held \in [Worker -> Job \cup {NoJob}]
    /\ \A w \in Worker : pc[w] # "idle" => held[w] \in Job
    /\ calls \in [Job -> Nat]
    /\ crashes \in 0..MaxCrashes

\* A keyword reply and a Telegram answer go out at most once, and an event is
\* ingested at most once, whatever dies or is recovered.
EffectAtMostOnce ==
    \A j \in Job : KindOf[j] # "notification" => calls[j] <= 1

\* "There is deliberately no automatic resend for uncertain delivery", of
\* notifications too.
NotificationAtMostOnce ==
    \A j \in Job : KindOf[j] = "notification" => calls[j] <= 1

\* A closed send job leaves no message that still looks queued or on its way, and
\* a message recorded as not sent was not.
ClosedSendIsSettled ==
    \A j \in Job : KindOf[j] = "send" =>
        /\ status[j] \in {"complete", "unknown"} => row[j] \notin {"queued", "sending"}
        /\ row[j] \in {"queued", "cancelled", "failed"} => calls[j] = 0
        /\ row[j] = "sent" => calls[j] = 1

\* What a reader of the database can say of a keyword reply.
Phase(j) ==
    CASE row[j] = "queued" -> "waiting"
      [] row[j] = "sending" -> "attempting"
      [] row[j] = "cancelled" -> "abandoned"
      [] OTHER -> row[j]

SendJobs == {j \in Job : KindOf[j] = "send"}
Phases == [j \in SendJobs |-> Phase(j)]
Copies == [j \in SendJobs |-> calls[j]]
Contract == INSTANCE ReplyContract WITH Reply <- SendJobs, phase <- Phases, copies <- Copies

\* Keyword replies keep the contract of docs/architecture.md.
KeepsContract == Contract!Spec

\* Every job ends.
EveryJobEnds == \A j \in Job : <>[](status[j] \in {"complete", "failed", "unknown"})
=============================================================================

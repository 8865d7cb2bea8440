---------------------------- MODULE FlowDelivery ----------------------------
(***************************************************************************)
(* Automation flows: the workers that claim flow jobs, run their actions    *)
(* (run_flow), mark, deliver and record the reply, back off when throttled, *)
(* and recover jobs whose worker died.                                      *)
(*                                                                         *)
(* The database (READ COMMITTED) is job, exec, act, tries, msg, lead and    *)
(* active; a worker is pc, flow and ses, the objects of its SQLAlchemy       *)
(* session, which do not expire on commit; lock holds the account row       *)
(* locks.  One action of a worker is what happens between two commits, or    *)
(* one exchange with the provider.                                          *)
(***************************************************************************)
EXTENDS Naturals, Sequences, FiniteSets

CONSTANTS
    Worker, Flow, Account, Source, Lead,
    NoWorker, NoFlow,
    Program,        \* the actions of each flow, in order
    AccountOf,      \* the account whose row a flow locks
    SourceOf,       \* account, owner, automation and product of a flow, as one switch
    LeadOf,         \* the (account, sender) lead a flow writes
    PublicReply,    \* flows whose private reply is followed by a public one
    MaxAttempts,    \* 5 in the code
    MaxCrashes,     \* bound: worker processes that die in a behaviour
    LeaseOutlivesWork  \* TRUE: a job is five minutes old only if its worker is dead

Kind == {"DELAY", "NODELAY", "SEND", "NOTE", "LEAD"}
Steps(f) == DOMAIN Program[f]
Position == UNION {Steps(f) : f \in Flow}
Sends(f) == {p \in Steps(f) : Program[f][p] = "SEND"}

\* FlowInput: 1 to 12 actions, at most one of them a send.
ASSUME ProgramAssumption ==
    \A f \in Flow : /\ Program[f] \in Seq(Kind)
                    /\ \A p, q \in Sends(f) : p = q
ASSUME WiringAssumption ==
    /\ AccountOf \in [Flow -> Account] /\ SourceOf \in [Flow -> Source]
    /\ LeadOf \in [Flow -> Lead] /\ PublicReply \subseteq Flow
    /\ NoWorker \notin Worker /\ NoFlow \notin Flow
ASSUME BoundAssumption ==
    /\ MaxAttempts \in Nat \ {0} /\ MaxCrashes \in Nat
    /\ LeaseOutlivesWork \in BOOLEAN

VARIABLES
    job,        \* Job.status of the flow's job
    exec,       \* Execution.status
    act,        \* ActionExecution.status by position
    tries,      \* ActionExecution.attempts of the send
    msg,        \* Message.status of the outgoing row, "none" before it exists
    lead,       \* Lead rows
    active,     \* what a send rechecks: account, owner, automation, product
    lock,       \* owner of the account row lock
    pc, flow, ses,  \* worker: stage, flow in hand, session copies
    delivered,  \* times the provider accepted the private reply
    replied,    \* times the provider accepted the public reply
    crashes

database == <<job, exec, act, tries, msg, lead>>
worker   == <<pc, flow, ses>>
remote   == <<delivered, replied>>
vars     == <<database, active, lock, worker, remote, crashes>>

JobStatus  == {"pending", "running", "complete", "unknown"}
ExecActive == {"queued", "running", "waiting"}
ExecStatus == ExecActive \cup {"complete", "unknown", "failed", "cancelled"}
ActDone    == {"complete", "sent"}
ActStatus  == ActDone \cup {"absent", "pending", "sending", "unknown", "failed", "skipped"}
MsgStatus  == {"none", "queued", "sending", "sent", "failed", "unknown"}
Stage      == {"idle", "load", "lock", "run", "lead", "checked", "inflight",
               "accepted", "reply", "record", "finish"}
Effect     == Flow \X Position
LeadRow    == [exists : BOOLEAN, notes : [Effect -> Nat]]
NoLead     == [exists |-> FALSE, notes |-> [e \in Effect |-> 0]]
Session    == [exec : ExecStatus, act : [Position -> ActStatus], tries : Nat,
               seen : BOOLEAN, lead : LeadRow]
NoSession  == [exec |-> "queued", act |-> [p \in Position |-> "absent"], tries |-> 0,
               seen |-> FALSE, lead |-> NoLead]

Init ==
    /\ job = [f \in Flow |-> "pending"]
    /\ exec = [f \in Flow |-> "queued"]
    /\ act = [f \in Flow |-> [p \in Position |-> IF p \in Steps(f) THEN "pending" ELSE "absent"]]
    /\ tries = [f \in Flow |-> 0]
    /\ msg = [f \in Flow |-> "none"]
    /\ lead = [l \in Lead |-> NoLead]
    /\ active \in [Source -> BOOLEAN]
    /\ lock = [a \in Account |-> NoWorker]
    /\ pc = [w \in Worker |-> "idle"]
    /\ flow = [w \in Worker |-> NoFlow]
    /\ ses = [w \in Worker |-> NoSession]
    /\ delivered = [f \in Flow |-> 0]
    /\ replied = [f \in Flow |-> 0]
    /\ crashes = 0

-----------------------------------------------------------------------------
\* What a worker's transaction does besides its own columns.

\* Mutant: the row lock outlives the transaction.
ReleaseNothing(w) == lock' = lock
Release(w) == lock' = [a \in Account |-> IF lock[a] = w THEN NoWorker ELSE lock[a]]
Goto(w, stage) == pc' = [pc EXCEPT ![w] = stage] /\ UNCHANGED flow
Drop(w) == /\ pc' = [pc EXCEPT ![w] = "idle"]
           /\ flow' = [flow EXCEPT ![w] = NoFlow]
           /\ ses' = [ses EXCEPT ![w] = NoSession]

\* The session's copies after a step: execution, action rows, attempts; and the lead.
Remember(w, e, a, n) ==
    ses' = [ses EXCEPT ![w] = [exec |-> e, act |-> a, tries |-> n,
                               seen |-> ses[w].seen, lead |-> ses[w].lead]]
RememberLead(w, e, a, l) ==
    ses' = [ses EXCEPT ![w] = [exec |-> e, act |-> a, tries |-> ses[w].tries,
                               seen |-> TRUE, lead |-> l]]
Marked(w, p, s) == [ses[w].act EXCEPT ![p] = s]

\* The ORM issues an UPDATE only for an attribute that differs from its session copy.
WriteExec(w, s) ==
    exec' = IF ses[w].exec = s THEN exec ELSE [exec EXCEPT ![flow[w]] = s]
WriteAct(w, p, s) ==
    act' = IF ses[w].act[p] = s THEN act
           ELSE [act EXCEPT ![flow[w]] = [@ EXCEPT ![p] = s]]

\* Mutant: the action rows are not ordered by position.
CurrentUnordered(w, p) == p \in Steps(flow[w]) /\ ses[w].act[p] \notin ActDone

\* The first action the loop does not skip.
Current(w, p) ==
    /\ p \in Steps(flow[w]) /\ ses[w].act[p] \notin ActDone
    /\ \A q \in Steps(flow[w]) : ses[w].act[q] \notin ActDone => p <= q
At(w, p, kind) == Current(w, p) /\ ses[w].act[p] # "sending" /\ Program[flow[w]][p] = kind

\* The commit that ends an action and leaves the worker in the loop.
ActionCommit(w, p, s) ==
    /\ WriteExec(w, "running") /\ WriteAct(w, p, s)
    /\ Remember(w, "running", Marked(w, p, s), ses[w].tries)
    /\ Goto(w, "run") /\ Release(w)
    /\ UNCHANGED job

\* break: the loop stops at p, the actions still pending are skipped, one commit.
Stopped(w, p, outcome) ==
    [q \in Position |-> IF q = p THEN outcome
                        ELSE IF ses[w].act[q] = "pending" THEN "skipped" ELSE ses[w].act[q]]
WriteActs(w, acts) ==
    act' = [act EXCEPT ![flow[w]] =
              [q \in Position |-> IF acts[q] = ses[w].act[q] THEN act[flow[w]][q] ELSE acts[q]]]
Stop(w, p, outcome) ==
    /\ WriteExec(w, outcome) /\ WriteActs(w, Stopped(w, p, outcome))
    /\ Remember(w, outcome, Stopped(w, p, outcome), ses[w].tries)
    /\ Goto(w, "finish") /\ Release(w)
    /\ UNCHANGED <<job, lead>>

\* return from run_flow with the job parked: delay or back-off.
Park(w, p, s) ==
    /\ WriteExec(w, "waiting") /\ WriteAct(w, p, s)
    /\ job' = [job EXCEPT ![flow[w]] = "pending"]
    /\ Drop(w) /\ Release(w)
    /\ UNCHANGED lead

\* RateLimited while the action has used n attempts.
BackOff(w, p, n) ==
    /\ tries' = [tries EXCEPT ![flow[w]] = n]
    /\ IF n < MaxAttempts THEN Park(w, p, "pending") ELSE Stop(w, p, "failed")

\* Rejected for a reason that disables the automation, or for another one.
Refused(w, p) ==
    /\ Stop(w, p, "failed")
    /\ \/ UNCHANGED active
       \/ active' = [active EXCEPT ![SourceOf[flow[w]]] = FALSE]

-----------------------------------------------------------------------------
\* Mutant: uncertain jobs are claimed again.
ClaimUnknown(w, f) ==
    /\ pc[w] = "idle" /\ job[f] \in {"pending", "unknown"}
    /\ job' = [job EXCEPT ![f] = "running"]
    /\ pc' = [pc EXCEPT ![w] = "load"]
    /\ flow' = [flow EXCEPT ![w] = f]
    /\ UNCHANGED <<exec, act, tries, msg, lead, active, lock, ses, remote, crashes>>

\* run_one: FOR UPDATE SKIP LOCKED, then running and committed; the delay until
\* available_at is any number of other steps.
Claim(w, f) ==
    /\ pc[w] = "idle" /\ job[f] = "pending"
    /\ job' = [job EXCEPT ![f] = "running"]
    /\ pc' = [pc EXCEPT ![w] = "load"]
    /\ flow' = [flow EXCEPT ![w] = f]
    /\ UNCHANGED <<exec, act, tries, msg, lead, active, lock, ses, remote, crashes>>

\* Mutant: the execution's status is not checked.
LoadAnyExecution(w) ==
    /\ pc[w] = "load"
    /\ Remember(w, exec[flow[w]], ses[w].act, ses[w].tries)
    /\ Goto(w, "lock")
    /\ UNCHANGED <<database, active, lock, remote, crashes>>

\* run_flow reads the execution before it has the account lock.
LoadExecution(w) ==
    /\ pc[w] = "load"
    /\ Remember(w, exec[flow[w]], ses[w].act, ses[w].tries)
    /\ Goto(w, IF exec[flow[w]] \in ExecActive THEN "lock" ELSE "finish")
    /\ UNCHANGED <<database, active, lock, remote, crashes>>

\* SELECT account FOR UPDATE, the source check, then the action rows.
LockAccount(w) ==
    LET f == flow[w] IN
    /\ pc[w] = "lock" /\ lock[AccountOf[f]] = NoWorker
    /\ IF active[SourceOf[f]]
       THEN /\ lock' = [lock EXCEPT ![AccountOf[f]] = w]
            /\ Remember(w, ses[w].exec, act[f], tries[f])
            /\ Goto(w, "run")
            /\ UNCHANGED exec
       ELSE /\ WriteExec(w, "cancelled")
            /\ Goto(w, "finish")
            /\ UNCHANGED <<lock, ses>>
    /\ UNCHANGED <<job, act, tries, msg, lead, active, remote, crashes>>

\* A session that finds the send in progress elsewhere gives up on it.
FoundSending(w) ==
    /\ pc[w] = "run"
    /\ \E p \in Position :
        /\ Current(w, p) /\ ses[w].act[p] = "sending"
        /\ Stop(w, p, "unknown")
    /\ UNCHANGED <<tries, msg, active, remote, crashes>>

Delay(w) ==
    /\ pc[w] = "run"
    /\ \E p \in Position : At(w, p, "DELAY") /\ Park(w, p, "complete")
    /\ UNCHANGED <<tries, msg, active, remote, crashes>>

ZeroDelay(w) ==
    /\ pc[w] = "run"
    /\ \E p \in Position : At(w, p, "NODELAY") /\ ActionCommit(w, p, "complete")
    /\ UNCHANGED <<tries, msg, lead, active, remote, crashes>>

\* ensure_lead: a lead this session has seen keeps its session copy.
FetchLead(w) ==
    /\ pc[w] = "run"
    /\ \E p \in Position : At(w, p, "NOTE") \/ At(w, p, "LEAD")
    /\ RememberLead(w, ses[w].exec, ses[w].act,
                    IF ses[w].seen THEN ses[w].lead ELSE lead[LeadOf[flow[w]]])
    /\ Goto(w, "lead")
    /\ UNCHANGED <<database, active, lock, remote, crashes>>

\* Mutant: leads have no unique key.
ApplyLeadUnguarded(w) ==
    LET f == flow[w]
        mine == ses[w].lead
        row(p) == [exists |-> TRUE,
                   notes |-> IF Program[f][p] = "NOTE"
                             THEN [mine.notes EXCEPT ![<<f, p>>] = @ + 1] ELSE mine.notes]
    IN /\ pc[w] = "lead"
       /\ \E p \in Position :
            /\ Current(w, p)
            /\ lead' = [lead EXCEPT ![LeadOf[f]] =
                          IF Program[f][p] = "NOTE" \/ ~mine.exists THEN row(p) ELSE @]
            /\ WriteExec(w, "running") /\ WriteAct(w, p, "complete")
            /\ RememberLead(w, "running", Marked(w, p, "complete"), row(p))
       /\ Goto(w, "run") /\ Release(w)
       /\ UNCHANGED <<job, tries, msg, active, remote, crashes>>

\* A note is appended to the session's copy of the lead and written back whole.
ApplyLead(w) ==
    LET f == flow[w]
        mine == ses[w].lead
        row(p) == [exists |-> TRUE,
                   notes |-> IF Program[f][p] = "NOTE"
                             THEN [mine.notes EXCEPT ![<<f, p>>] = @ + 1] ELSE mine.notes]
    IN /\ pc[w] = "lead"
       /\ lead[LeadOf[f]].exists => mine.exists
       /\ \E p \in Position :
            /\ Current(w, p)
            /\ lead' = [lead EXCEPT ![LeadOf[f]] =
                          IF Program[f][p] = "NOTE" \/ ~mine.exists THEN row(p) ELSE @]
            /\ WriteExec(w, "running") /\ WriteAct(w, p, "complete")
            /\ RememberLead(w, "running", Marked(w, p, "complete"), row(p))
       /\ Goto(w, "run") /\ Release(w)
       /\ UNCHANGED <<job, tries, msg, active, remote, crashes>>

\* A send refreshes account, owner, automation and product before it goes on.
Recheck(w) ==
    /\ pc[w] = "run"
    /\ \E p \in Position :
        /\ At(w, p, "SEND")
        /\ IF active[SourceOf[flow[w]]]
           THEN /\ Goto(w, "checked")
                /\ UNCHANGED <<job, exec, act, lead, lock, ses>>
           ELSE Stop(w, p, "failed")
    /\ UNCHANGED <<tries, msg, active, remote, crashes>>

\* check_window, template and price: the provider throttles the read of the
\* comment, or the window, the comment, the template or the price is refused.
WindowThrottled(w) ==
    /\ pc[w] = "checked"
    /\ \E p \in Position : Current(w, p) /\ BackOff(w, p, ses[w].tries + 1)
    /\ UNCHANGED <<msg, active, remote, crashes>>

WindowRefused(w) ==
    /\ pc[w] = "checked"
    /\ \E p \in Position : Current(w, p) /\ Refused(w, p)
    /\ UNCHANGED <<tries, msg, remote, crashes>>

\* Mutant: the action's marker is not committed before the call.
MarkMessageOnly(w) ==
    LET f == flow[w] IN
    /\ pc[w] = "checked"
    /\ WriteExec(w, "running")
    /\ Remember(w, "running", ses[w].act, ses[w].tries + 1)
    /\ msg' = [msg EXCEPT ![f] = "sending"]
    /\ tries' = [tries EXCEPT ![f] = ses[w].tries + 1]
    /\ Goto(w, "inflight") /\ Release(w)
    /\ UNCHANGED <<job, act, lead, active, remote, crashes>>

\* The committed marker; the commit also lets the account lock go.
MarkSending(w) ==
    LET f == flow[w] IN
    /\ pc[w] = "checked"
    /\ \E p \in Position :
        /\ Current(w, p)
        /\ WriteExec(w, "running") /\ WriteAct(w, p, "sending")
        /\ Remember(w, "running", Marked(w, p, "sending"), ses[w].tries + 1)
    /\ msg' = [msg EXCEPT ![f] = "sending"]
    /\ tries' = [tries EXCEPT ![f] = ses[w].tries + 1]
    /\ Goto(w, "inflight") /\ Release(w)
    /\ UNCHANGED <<job, lead, active, remote, crashes>>

-----------------------------------------------------------------------------
\* The exchange with the provider.

Accept(w) ==
    /\ pc[w] = "inflight"
    /\ delivered' = [delivered EXCEPT ![flow[w]] = @ + 1]
    /\ Goto(w, "accepted")
    /\ UNCHANGED <<database, active, lock, ses, replied, crashes>>

\* Mutant: the receipt is taken for granted.
ReceiveNothing(w) ==
    /\ pc[w] = "inflight"
    /\ Goto(w, "record")
    /\ UNCHANGED <<database, active, lock, ses, remote, crashes>>

Receive(w) ==
    /\ pc[w] = "accepted"
    /\ Goto(w, IF flow[w] \in PublicReply THEN "reply" ELSE "record")
    /\ UNCHANGED <<database, active, lock, ses, remote, crashes>>

\* Mutant: a timeout is taken for a rejection.
TimeOutRejects(w) ==
    /\ pc[w] \in {"inflight", "accepted"}
    /\ \E p \in Position : Current(w, p) /\ Stop(w, p, "failed")
    /\ msg' = [msg EXCEPT ![flow[w]] = "failed"]
    /\ UNCHANGED <<tries, active, remote, crashes>>

\* DeliveryUnknown: a timeout, a dropped connection or a 5xx, before or after
\* the provider took the message.
TimeOut(w) ==
    /\ pc[w] \in {"inflight", "accepted"}
    /\ \E p \in Position : Current(w, p) /\ Stop(w, p, "unknown")
    /\ msg' = [msg EXCEPT ![flow[w]] = "unknown"]
    /\ UNCHANGED <<tries, active, remote, crashes>>

Reject(w) ==
    /\ pc[w] = "inflight"
    /\ \E p \in Position : Current(w, p) /\ Refused(w, p)
    /\ msg' = [msg EXCEPT ![flow[w]] = "failed"]
    /\ UNCHANGED <<tries, remote, crashes>>

Throttle(w) ==
    /\ pc[w] = "inflight"
    /\ \E p \in Position : Current(w, p) /\ BackOff(w, p, ses[w].tries)
    /\ msg' = [msg EXCEPT ![flow[w]] = "queued"]
    /\ UNCHANGED <<active, remote, crashes>>

\* Mutant: an error of the public reply is retried.
PostUntilConfirmed(w) ==
    /\ pc[w] = "reply"
    /\ replied' = [replied EXCEPT ![flow[w]] = @ + 1]
    /\ Goto(w, "record") \/ (Goto(w, "reply") /\ replied[flow[w]] < 2)
    /\ UNCHANGED <<database, active, lock, ses, delivered, crashes>>

\* Errors of the public reply are recorded and swallowed, it may be posted or not.
PostPublicReply(w) ==
    /\ pc[w] = "reply"
    /\ \/ replied' = [replied EXCEPT ![flow[w]] = @ + 1]
       \/ UNCHANGED replied
    /\ Goto(w, "record")
    /\ UNCHANGED <<database, active, lock, ses, delivered, crashes>>

RecordSent(w) ==
    /\ pc[w] = "record"
    /\ \E p \in Position : Current(w, p) /\ ActionCommit(w, p, "sent")
    /\ msg' = [msg EXCEPT ![flow[w]] = "sent"]
    /\ UNCHANGED <<tries, lead, active, remote, crashes>>

\* The end of the loop, and the commit of the job in run_one.
FinishFlow(w) ==
    /\ pc[w] = "run"
    /\ \A p \in Steps(flow[w]) : ses[w].act[p] \in ActDone
    /\ WriteExec(w, "complete")
    /\ Remember(w, "complete", ses[w].act, ses[w].tries)
    /\ Goto(w, "finish") /\ Release(w)
    /\ UNCHANGED <<job, act, tries, msg, lead, active, remote, crashes>>

CompleteJob(w) ==
    /\ pc[w] = "finish"
    /\ job' = [job EXCEPT ![flow[w]] = "complete"]
    /\ Drop(w)
    /\ UNCHANGED <<exec, act, tries, msg, lead, active, lock, remote, crashes>>

-----------------------------------------------------------------------------
\* Failures and recovery.

\* Mutants: the status of an incoming job that failed; a resend after a failure.
UncertainFailed(f) ==
    /\ exec' = [exec EXCEPT ![f] = "unknown"]
    /\ job' = [job EXCEPT ![f] = "failed"]
    /\ UNCHANGED <<act, msg>>
UncertainRetried(f) ==
    /\ act' = [act EXCEPT ![f] = [p \in Position |-> IF @[p] = "sending" THEN "pending" ELSE @[p]]]
    /\ job' = [job EXCEPT ![f] = "pending"]
    /\ UNCHANGED <<exec, msg>>

\* The uncertain flow is closed: its send in progress, that send's message,
\* the execution and the job become unknown.
Uncertain(f) ==
    /\ act' = [act EXCEPT ![f] = [p \in Position |-> IF @[p] = "sending" THEN "unknown" ELSE @[p]]]
    /\ msg' = [msg EXCEPT ![f] = IF \E p \in Steps(f) : act[f][p] = "sending"
                                 THEN "unknown" ELSE @]
    /\ exec' = [exec EXCEPT ![f] = "unknown"]
    /\ job' = [job EXCEPT ![f] = "unknown"]

\* Any other exception, at any point of the handler: roll back, close the flow.
Raise(w) ==
    /\ pc[w] # "idle"
    /\ Uncertain(flow[w])
    /\ Drop(w) /\ Release(w)
    /\ UNCHANGED <<tries, lead, active, remote, crashes>>

\* The insert of a lead that another transaction has inserted fails.
LeadTaken(w) ==
    /\ pc[w] = "lead"
    /\ lead[LeadOf[flow[w]]].exists /\ ~ses[w].lead.exists
    /\ Raise(w)

\* The process dies, or loses the database in its exception handler.
Crash(w) ==
    /\ pc[w] # "idle" /\ crashes < MaxCrashes
    /\ crashes' = crashes + 1
    /\ Drop(w) /\ Release(w)
    /\ UNCHANGED <<database, active, remote>>

\* Does recover_stale take the job of f for abandoned?
Stale(f) ==
    /\ job[f] = "running"
    /\ LeaseOutlivesWork => \A w \in Worker : flow[w] # f

\* recover_stale runs in every worker's loop, between two jobs.
RecoverSending(w, f) ==
    /\ pc[w] = "idle" /\ Stale(f)
    /\ \E p \in Steps(f) : act[f][p] = "sending"
    /\ Uncertain(f)
    /\ UNCHANGED <<tries, lead, active, lock, worker, remote, crashes>>

\* Mutant: recovery does not look for a send in progress.
RecoverBlindly(w, f) ==
    /\ pc[w] = "idle" /\ Stale(f)
    /\ job' = [job EXCEPT ![f] = "pending"]
    /\ UNCHANGED <<exec, act, tries, msg, lead, active, lock, worker, remote, crashes>>

RecoverIdle(w, f) ==
    /\ pc[w] = "idle" /\ Stale(f)
    /\ \A p \in Steps(f) : act[f][p] # "sending"
    /\ job' = [job EXCEPT ![f] = "pending"]
    /\ UNCHANGED <<exec, act, tries, msg, lead, active, lock, worker, remote, crashes>>

\* The workspace pauses or resumes an automation, account or product.
SetSource(s) ==
    /\ active' = [active EXCEPT ![s] = ~@]
    /\ UNCHANGED <<database, lock, worker, remote, crashes>>

-----------------------------------------------------------------------------
Handle(w) ==
    \/ LoadExecution(w) \/ LockAccount(w) \/ FoundSending(w)
    \/ Delay(w) \/ ZeroDelay(w) \/ FetchLead(w) \/ ApplyLead(w) \/ LeadTaken(w)
    \/ Recheck(w) \/ WindowThrottled(w) \/ WindowRefused(w) \/ MarkSending(w)
    \/ Accept(w) \/ Receive(w) \/ TimeOut(w) \/ Reject(w) \/ Throttle(w)
    \/ PostPublicReply(w) \/ RecordSent(w) \/ FinishFlow(w) \/ CompleteJob(w)

Poll(w) == \E f \in Flow : Claim(w, f) \/ RecoverSending(w, f) \/ RecoverIdle(w, f)

Next ==
    \/ \E w \in Worker : Handle(w) \/ Raise(w) \/ Poll(w) \/ Crash(w)
    \/ \E s \in Source : SetSource(s)

Spec == Init /\ [][Next]_vars

\* A worker keeps looping and every exchange it waits for ends: HTTP calls have
\* timeouts of at most 20 seconds, row locks are held by transactions that end.
\* A worker that waits for a lock may wait for ever: no exception has to free it.
FairSpec == Spec /\ \A w \in Worker : WF_vars(Handle(w)) /\ WF_vars(Poll(w))

-----------------------------------------------------------------------------
TypeOK ==
    /\ job \in [Flow -> JobStatus]
    /\ exec \in [Flow -> ExecStatus]
    /\ act \in [Flow -> [Position -> ActStatus]]
    /\ tries \in [Flow -> Nat]
    /\ msg \in [Flow -> MsgStatus]
    /\ lead \in [Lead -> LeadRow]
    /\ active \in [Source -> BOOLEAN]
    /\ lock \in [Account -> Worker \cup {NoWorker}]
    /\ pc \in [Worker -> Stage]
    /\ flow \in [Worker -> Flow \cup {NoFlow}]
    /\ \A w \in Worker : pc[w] # "idle" => flow[w] \in Flow
    /\ ses \in [Worker -> Session]
    /\ delivered \in [Flow -> Nat] /\ replied \in [Flow -> Nat]
    /\ crashes \in 0..MaxCrashes

\* The status of the flow's send, "absent" in a flow without one.
SendStatus(f) == IF Sends(f) = {} THEN "absent" ELSE act[f][CHOOSE p \in Sends(f) : TRUE]

\* Across crashes, recovery, back-off and retries the provider accepts a flow's
\* reply at most once (flows.py: a committed marker prevents retries after an
\* uncertain delivery).
AtMostOneDelivery == \A f \in Flow : delivered[f] <= 1

\* What the panel shows agrees with the provider: "sent" was accepted; a reply
\* that is queued, failed, skipped or not begun was not, so resuming it or
\* reporting its failure is right.
StatusIsHonest ==
    \A f \in Flow :
        /\ SendStatus(f) = "sent" => delivered[f] = 1 /\ msg[f] = "sent"
        /\ SendStatus(f) \in {"absent", "pending", "failed", "skipped"} => delivered[f] = 0
        /\ msg[f] \in {"none", "queued", "failed"} => delivered[f] = 0

\* Even with a worker slower than its lease, a reply shown as sent has been accepted:
\* no worker takes another's marker or message row for its own receipt.
SentIsReal ==
    \A f \in Flow : SendStatus(f) = "sent" \/ msg[f] = "sent" => delivered[f] >= 1

\* A flow that will be resumed carries nothing in doubt and nothing settled against
\* it: whoever claims the job may run every action that is not done.
RequeueIsSafe ==
    \A f \in Flow : job[f] = "pending" =>
        /\ SendStatus(f) # "sending"
        /\ exec[f] \in ExecActive =>
             \A p \in Steps(f) : act[f][p] \in ActDone \cup {"pending"}

\* The actions of a flow take effect in order, and nothing takes effect after an
\* action that failed, was skipped or is in doubt.
EffectsInOrder ==
    \A f \in Flow : \A p, q \in Steps(f) :
        p < q /\ act[f][q] \in ActDone \cup {"sending", "unknown", "failed"}
            => act[f][p] \in ActDone

\* Every unfinished flow still has a job that will be run or recovered.
NoFlowIsStranded ==
    \A f \in Flow : exec[f] \in ExecActive => job[f] \in {"pending", "running"}

\* A note is written to its lead exactly once, when its action completes: no
\* crash repeats it and no other flow's write loses it.
NotesExactlyOnce ==
    \A f \in Flow : \A p \in Steps(f) :
        Program[f][p] = "NOTE" =>
            lead[LeadOf[f]].notes[<<f, p>>] = IF act[f][p] = "complete" THEN 1 ELSE 0

\* The public reply follows an accepted private reply, and is posted once.
PublicReplyFollows == \A f \in Flow : replied[f] <= delivered[f] /\ replied[f] <= 1

\* A flow closed as uncertain is left for manual review: no step runs its job,
\* sends for it or changes its actions again.
UnknownIsFinal ==
    [][\A f \in Flow : job[f] = "unknown" =>
         /\ job'[f] = "unknown" /\ exec'[f] = exec[f] /\ act'[f] = act[f]
         /\ delivered'[f] = delivered[f] /\ replied'[f] = replied[f]]_vars

\* What a flow has done is never undone: a done action stays done, and a settled
\* execution is reopened by no step (only an exception may still make it unknown).
ProgressIsKept ==
    [][\A f \in Flow :
         /\ \A p \in Steps(f) : act[f][p] \in ActDone => act'[f][p] = act[f][p]
         /\ exec[f] \notin ExecActive => exec'[f] \in {exec[f], "unknown"}]_vars

\* Every flow's job ends, complete or unknown, however its sends are throttled
\* and its workers die.
EveryFlowSettles == \A f \in Flow : <>[](job[f] \in {"complete", "unknown"})

=============================================================================

# Farstar Nexa: a verification development in TLA+

Farstar Nexa answers Instagram comments and messages for shops: a FastAPI
process accepts webhooks and serves a panel, a worker process (one by default;
the queue allows several) ingests events, runs automation flows and sends replies, a
host agent backs up, restores and updates the installation. This directory
models the path from a webhook to a delivered reply, the prices in it, the
panel's requests that overlap, who may sign in, and the operations on the
host; it checks them with TLC and proves facts about them with TLAPS.

Paths are relative to `src/`; `nexa/` stands for `backend/nexa/`.

## 1. Inventory

| component (code) | state it keeps | operations | correct when |
|---|---|---|---|
| Flow engine (`nexa/flows.py`, flow part of `nexa/worker.py`) | `Execution`, `ActionExecution`, outgoing `Message`, `Lead`, the flow's `Job` | `run_flow`, `check_window`, `ensure_lead`; claim, failure and recovery of flow jobs | a reply is delivered at most once and reported as it was; actions take effect in order and once; every flow settles |
| Worker and queue (`nexa/worker.py`, `nexa/automation.py:136`, `nexa/telegram.py:98`) | `Job.status`, `attempts`, lease (`locked_at`), the domain row of the job | `run_one`, `recover_stale`, `deliver`, `deliver_notification`, `handle_update` | no kind of job is repeated that must not be; what is in doubt is closed for review; every job ends |
| Ingestion (`nexa/routes/webhooks.py`, `nexa/automation.py:37`, `nexa/flows.py:73-187`) | event `Job` under a unique key, `Conversation`, incoming `Message`, `Execution` | `meta`, `ingest`, `ingest_comment`, `queue_flow` | one rule answers an event once; the cooldown of a customer and product holds; the window follows the latest message, and no comment |
| Provider adapters (`nexa/providers.py`) | none | `send`, `comment` | the outcome is classified as receipt, rejection, throttling or doubt |
| Support tickets (`nexa/routes/support.py`) | ticket status, messages | `add_message`, `update_ticket` | no request that read a closed ticket reopens it |
| One-time tokens, Telegram link (`nexa/security.py:154`, `nexa/telegram.py`, `nexa/routes/workspace.py:435`) | `OneTimeToken`, `TelegramLink` | issue, consume, expire, link, unlink | a token is used once; one live token per purpose; an unlinked user stays so |
| Sessions and login (`nexa/routes/auth.py`) | `User`, `Session`, Google state in Redis | login by password, Telegram, Google; register, logout, password change and reset | what ends the sessions ends them all |
| Team and administration (`nexa/routes/team.py`, `admin.py`) | roles, active users, requested operations | `update_user`, `update_member`, `operation` | an active owner remains |
| Panel API (`nexa/routes/workspace.py`, `commerce.py`) | rules, products, accounts, leads | read, then one commit | a rule switched off stays off; a lead keeps its notes; edits take effect at the workers' rechecks |
| Account connection (`nexa/routes/instagram.py`, `boxapi.py`) | `Account` and its credential; event jobs | callbacks, disconnect, BoxAPI webhook | one page has one owner; an acknowledged event is queued |
| Prices and rates (`nexa/pricing.py`) | rate table and fetch guard in Redis | `calculate`, `get_rate` | a fetch per currency and hour; no price from a stale rate; rounding and range as specified |
| Host agent (`cli/agent.py`, `nexa_ops/protocol.py`) | request, receipt and result files | `process` | an operation runs at most once, whatever dies; every request is answered |
| Backup, restore, update (`cli/backups.py`, `cli/operations.py`, `cli/main.py`) | archives, database, releases, configuration, containers | the programs of `execute`, start and stop | no committed row is lost; no code runs on another schema; a failure leaves a known state |
| Frontend, migrations, configuration, templates | none of record | presentation, schema, settings, text | |

**Interaction.** The API inserts `Job` rows; workers take them with `FOR UPDATE
SKIP LOCKED` and commit `running` before they touch them. Ingestion and flows
lock the row of the connected account, which the panel's requests do not. A flow parks itself by writing its own
job back to `pending`. External calls (Instagram, SMTP, Telegram) happen between two
commits. `recover_stale`, called in every worker's loop, takes jobs that have been
`running` for five minutes to belong to a dead worker. The panel edits
accounts, rules, products, leads and tickets without a row lock; only
`consume_token` and `update_user` take one. The panel asks the host agent for operations by files in a
spool directory; agent and command line exclude each other by `operation.lock`, and stop and
start the API and the worker under it.

**What is hard.** (1) *Duplicate delivery*: no idempotent send exists, so a marker is
committed before each call and what is in doubt is closed. (2) *Resumption*: a flow
goes on from its action rows after delays, throttling and deaths. (3) *Sessions with
`expire_on_commit=False`* (`nexa/db.py:27`): objects read before a commit are
used after it. (4) *A row lock ends with the first commit* of the loop it is meant to protect.
(5) *A lease with no heartbeat and no fencing.* (6) *Out-of-order and repeated events* against
one cooldown. (7) *Sessions write only the columns that changed* against the row they read, so
two overlapping requests can leave a mixture neither asked for. (8) *Multi-step host
operations*, each of whose steps may fail with or without its effect. Each of these, at its line, is a hazard in `PROJECT.json`.

## 2. Modules

| module | models |
|---|---|
| `FlowDelivery` | flows: `run_flow` and its workers, each action one commit or one exchange with the provider |
| `FlowInvariant` | the inductive invariant behind the safety theorems; the refinement mapping to `ReplyContract` |
| `JobQueue` | the worker loop for `incoming`, `send`, `telegram` and `notification` jobs; their refinement mapping |
| `Ingestion` | webhook to execution, with rules, cooldown and messaging window |
| `ReplyContract` | abstract: what the architecture document promises of a reply |
| `HostOperations` | host agent, command line, and the programs of backup, restore, update and domain, step by step |
| `Accounts` | users, logins, sessions, one-time tokens, Telegram links, team and administration |
| `Panel` | overlapping requests on tickets, rules, accounts and leads; the BoxAPI webhook |
| `Prices` | the price arithmetic as operators; the shared rate table and its fetch guard |
| `MCFlowDelivery`, `MCJobQueue`, `MCIngestion`, `MCHostOperations`, `MCAccounts`, `MCPanel`, `MCPrices` | instances for TLC |
| `FlowDeliveryProofs` | types and the safety of flows, from the inductive invariant |
| `FlowContractProofs` | what a step does to a flow's rows: order, progress, the refinement; receipts and notes |
| `JobQueueProofs`, `IngestionProofs`, `HostProofs`, `AccountsProofs`, `PanelProofs`, `PricesProofs` | theorems about the module of that name |

The modules share no variables. They meet at rows: `Ingestion` creates the execution and
the job that `FlowDelivery` (flow rules) or a `send` of `JobQueue` (keyword replies)
then runs; an event's job is `JobQueue`'s `incoming` kind seen from
inside in `Ingestion`; `Panel` queues events as `Ingestion`'s webhook does, and its flow steps on a lead
are `FetchLead` and `ApplyLead` of `FlowDelivery`, first and later ones; its disconnected account is what closes a source there. A price that
`Prices` refuses is a `WindowRefused` of a flow. `FlowDelivery` and `JobQueue` implement the same abstract `ReplyContract`.

### FlowDelivery

*State.* `job`, `exec`, `act`, `tries`, `msg`, `lead` are the columns of the same name;
`active[s]` is the conjunction a send rechecks (account, owner, automation,
product); `lock[a]` the owner of the account's row lock. A worker is `pc` (where in
`run_flow` it is), `flow` and `ses`: the copies its session keeps, because reads
of an object the session holds do not go back to the database. The ORM writes only
attributes that differ from the copy, which `WriteExec` and `WriteAct` state;
`tries` is written from the copy.

*Actions.* A worker's action ends at a commit or at one exchange with the provider.

| action | code |
|---|---|
| `Claim` | `run_one` to its first commit |
| `LoadExecution`, `LockAccount` | the read of the execution, before the lock; the lock, the source check (`cancelled`), the ordered action rows |
| `FoundSending` | the loop meets a send marked elsewhere: unknown |
| `Delay`, `ZeroDelay` | DELAY: parks the job, or goes on if the delay is 0 |
| `FetchLead`, `ApplyLead`, `LeadTaken` | UPSERT_LEAD and ADD_NOTE: `ensure_lead` reads the row only the first time, the note goes to the copy and back; one commit with the action's row; the insert of a lead that another flow has inserted fails on its unique key |
| `Recheck` | `db.refresh` of the four sources before a send |
| `WindowThrottled`, `WindowRefused` | `check_window`, template and price refuse, or the read is throttled |
| `MarkSending` | message and action `sending`, committed (this lets the account lock go) |
| `Accept`, `Receive`, `TimeOut`, `Reject`, `Throttle` | the provider takes the message or not; the outcomes of `_send` and the commits they lead to |
| `PostPublicReply`, `RecordSent` | the optional public reply, whose errors are swallowed; then sent |
| `FinishFlow`, `CompleteJob` | the end of the loop; the last commit of `run_one` |
| `Raise` | any other exception at any stage: rollback, then `unknown` throughout |
| `Crash` | the process dies, or the database is lost in the exception handler |
| `RecoverSending`, `RecoverIdle` | `recover_stale` of a flow with, and without, a send in progress |
| `SetSource` | the panel pauses or resumes |

*Abstractions.* Text, prices and templates are outcomes. ADD_TAG is the
same read-modify-write as ADD_NOTE and is not a separate kind; the limits of 100 notes
and 30 tags are not modelled. `available_at` is any number of other steps. The source check
at the lock reads the rule row fetched just before it; the two reads have no step
between them. Dry runs (which send nothing) are left out.

### JobQueue

One `status`/`attempts` row per job and one domain `row`. A `send` has a message and
an execution whose statuses are always written together, so they are one value.
What may close the source of a job (account, owner, window, user, link) may change at any time and is
read once, so its value is chosen at the read. `calls` counts what the
outside accepted; several Telegram calls of one update count as one. Each
handler's commits are actions: `Ingest` (rows and job in one commit),
`LoadMessage`/`MarkSending`/`Accept`/`Receive`, `BeginNotification` (no marker and
no look at the notification's status), `HandleUpdate` (a link is committed before the answer).
`Raise` is `run_one`'s exception branch, with the retry of events only;
`Recover` is `recover_stale`.

### Ingestion

Rules are a sequence by priority; which rules an event matches, which have a flow, and which product they
sell, are constants; `enabled`, `stocked` and `open` change at any time. `Decide`
takes the account lock and reads: known event, winning rule, cooldown. `Commit` is the single
commit of message, conversation, execution and job. A message moves the window (`nexa/automation.py:71-73`); a comment has a
conversation and a message row too (`nexa/flows.py:43-64`) but leaves the window alone. `created_at` is taken at `Commit`;
the code takes it at the flush, under the same lock. `Webhook` is the insert
under a unique key, so a repeated delivery is a stutter. The webhook checks the
account only; `open` merges account and owner, which the worker checks again anyway. One
behaviour is left to `JobQueue`: an exception from the very last commit of an event's job.

*After the decision.* The cooldown counts the runs of eight statuses, which are one here ("queued"); `Release` is a
later failure or cancellation, which it forgets. For a flow that is not the end: until the last commit of `run_one` an exception
makes the execution `unknown` whatever it was (`nexa/worker.py:137-139`), which counts again (`nexa/flows.py:94`): `Revive`; `Close` is that
commit. A keyword reply has no such step (its statuses are guarded, `nexa/worker.py:151-159`). So two runs of one customer and product may
be live within a cooldown: one failed, another was let through, and the first came back. `CooldownHolds` says that this is the only way: `over`
keeps which runs no longer counted when a run was decided.

*Abstractions.* Attempts are not counted: any exception may be the one that ends the job (`Raise`). Dry runs have cooldowns of their own and are left out.

### HostOperations

*State.* The request, result and receipt files of each operation (`spool`, `result`, `receipts`); per actor (agent, command
line) the operation in hand, its stage and the steps left of its program; the host: `current` and `current.next`,
release directories, what the containers run (`writers`: a release and a configuration, or `Down`), what they were last created with (`made`), the
database as a schema version and a set of rows, configuration, archives.

*Actions.* `Request` is the panel's `operation`; `Answered`, `Reject`, `Claim`, `Announce`, `Begin`, `Finish` are
`agent.process` from one durable write to the next; `RunCli` is `dispatch`. `Program` lists the steps of
each operation and `Recovery` what its `except` or `finally` clause still runs when a step fails; each step
is an action of its own. A docker command may fail after its effect (`Return`), any step before it (`Fail`), and
`compose up` half-way (`UpFails`), which may leave new containers that do not run. `Die` ends an actor between any two steps. `Resend` is what the web process may
do to its own spool directory: put a request back, or delete a result. `HandStart`, `HandRestart` and `HandStop` are `start`, `repair` and `apply-config`, `restart`, and `stop`, which
take no lock (`cli/main.py:106-114`). `start` is `compose up` of the current release, which waits for its migrate; `restart` is `compose restart`
(`cli/main.py:111`): it brings up the containers there are, stopped ones included, as they were created, whatever `current`, the configuration and
the schema are by now, and waits for no migrate; `OperatorWaits` assumes that nobody types them while an operation runs, which the code does not enforce.

*Abstractions.* A signature or age that fails is `Reject` at will. A schema version is an Alembic revision, and migrations keep rows.
Failing health checks are `Fail`. `uninstall` and editing the configuration by
hand are not modelled, nor is the agent's exchange of itself for a new release between two requests. What the module shows
without a property: an update killed between creating and renaming `current.next` makes every later update fail at the
link (`cli/operations.py:90`), after its migration; a domain change whose Telegram webhook fails reports `failed` with the new domain
in place (`cli/operations.py:156`).

*What `restart` can do.* After an update that failed or died once it had migrated, `restart` runs the old containers on the new schema if they were
not created again, and the new release while `current` is the old one if they were. `docs/operations.md:45` leaves this to the operator ("Old code must
not be started against an incompatible schema"), and the command does not check it. `asis` marks exactly these states: stopped containers were
restarted by hand after a program had failed or died (`flawed`) and before a `start` by hand succeeded; `NoOldCodeOnNewSchema` and `QuietIsClean` except
them, and show that nothing else leads there: no program and no `start`, however they fail, and no `restart` of containers that
run or that a successful program left.

### Accounts

A request is a thread's `op` from its reads to its commit. Row locks are who holds them: `TokenLocked` for
`SELECT ... FOR UPDATE` of a token and the UPDATEs of tokens that wait for it, `UserLocked` for `update_user` and for flushed
changes. `era` counts the commits that end a user's sessions and stands in a session as read at login; `late` marks
a session whose login overlapped such a commit, `raced` a token issued while another request issued one,
`lateLink` a link committed during an unlink: the properties except exactly these, which the code cannot exclude and which
TLC reaches. Found on the way, without a property: `update_member` may switch off a member who was promoted to owner, which
`update_user` refuses (`nexa/routes/admin.py:266`); the Google state is read and deleted by two Redis calls
(`nexa/routes/auth.py:157`), so two callbacks may both pass it.
Password hashing, cookies, rate limits and the profile are left out.

### Panel

A request reads a row (`seen`) and later writes the columns in which its new values differ from what
it read (`set`, computed by `Net` as the ORM does); nothing but the account's row, which workers and UPDATEs lock, excludes others in between.
Tickets: `add_message` and `update_ticket`; a user's reply looks for an earlier answer after its UPDATE. Rules: `toggle_rule`, the
Telegram button and `edit_rule`. Accounts: both callbacks, whose check of the owner precedes the commit, and
`disconnect`. Webhook: `enqueue` inserts each key in a savepoint, waits for
a transaction that is inserting it, and commits once.

Leads: `edit_lead`, and every lead action of a flow (`nexa/flows.py:392-416`). The first action of a run reads the lead and commits under the lock
of the account (`FlowLead`). That commit frees the lock and the session keeps the lead it read. An action after it reads the lead without the lock if
it is the run's first on the lead (`LateLead`), and otherwise works on the session's copy, whatever the row has become (`LeadAgain`), as `ensure_lead`'s
query does not refresh an object the session has. `SaveFlow` is the commit of an action, with op "copy" between two of them.
So a later note of a run, like one of the panel, may drop what others have committed since: `flow_note_lost` is this case with two flows in `FlowDelivery`.
`NotesKept` says what is left: such a write is the only way a note is lost, and flows whose notes are their first actions lose none of each other's.

Known mixtures, which the properties except: an edit that overlaps a toggle may leave `enabled` and `status` at odds (such a rule does not
fire); a callback that read an account before it was disconnected may leave its credential in it; a reply that read a ticket open reopens
it. The Telegram button does not ask for an active account, as the toggle does. Left out: ticket subjects, the product and media
catalogue, dry runs, `delete_product`, the limit of 30 tags.

### Prices

`Original`, `Discounted`, `Rounded`, `AtLeast`, `AtMost`, `Final` are the stages of `calculate` in integers (millionths). The cache is the ticks
a table stays valid, the guard the ticks until a fetch is allowed again. Time also passes inside a calculation (`MaxStall`), whose
`now` is taken first. The three providers differ in the validity of their tables only. The order of the
arithmetic has one consequence the module makes visible: cents are rounded after the range, so a limit that is no
whole number of cents may be missed by up to half a cent. A request that comes during a fetch or within an hour of a failed one gets no
live rate; so does one that comes between the expiry of an `open_er_api` table and the end of its guard.

## 3. Runs

`flow_pair`, the main run: two flows of one account and one lead (`PairProgram`: a note, a send and a delay after
which the flow is resumed; a send and a lead), two workers, one death, two tries, the source switched at any time.

- `AtMostOneDelivery`, `StatusIsHonest`, `PublicReplyFollows`: the provider accepts a reply at
  most once, whatever dies, and what the panel shows is what happened.
- `NotesExactlyOnce`, `EveryFlowSettles`: with the lock and the lead contended, the first insert of the lead loses no note and
  both flows end.
- `RequeueIsSafe`, `EffectsInOrder`, `ProgressIsKept`: a flow may be resumed
  from its rows; nothing is repeated, reordered or undone.
- `UnknownIsFinal`: a flow closed for review is left alone. `KeepsContract`: the module implements
  `ReplyContract` (`phase` from the send's action row, `copies` from the provider's count).

| run | instance | shows |
|---|---|---|
| `flow_pair` | as above | the above; `DeliveryInv`, on which the proofs rest, is an invariant |
| `flow_overtaken` | one flow with an action of every kind (`LongProgram`), its job recovered from workers still running | a reply shown as sent was accepted (`SentIsReal`), also when two workers run the flow; types |
| `flow_note_lost` | two flows of one lead, two workers, no death | **violation**, see below |
| `flow_slow_worker` | recovery takes jobs from live workers | **violation**, see below |
| `jobs_mixed` | an event, a reply, a notification and a Telegram update, two workers, one death, two tries | all but the notification take effect at most once; closed sends are settled; the reply keeps `ReplyContract`; every job ends |
| `notification_resent` | one notification, one death | **violation**, see below |
| `ingest` | two messages out of order and a comment of one customer, two flows with one product and different cooldowns and a keyword reply, two workers, one death or exception, one edit, eager recovery | one run per event, the cooldown, the window |
| `host` | a restore from the panel, an update or domain change and a backup, deletion or report from the command line, one death, one resend, start, stop and restart by hand | operations start at most once, requests are answered; no code on another schema, no row lost, failures undone or stopped, but for what `restart` brings back |
| `restore_left_running` | the same instance | **violation**, see below |
| `accounts` | two threads, three users, two tokens, four mixes of requests | tokens used once and replaced, sessions ended, links revoked, the founder in office |
| `prices` | two calculations, two feeds, a provider that comes and goes; 155,520 quotes | freshness, spacing of fetches, return of live prices; the arithmetic at its boundaries |
| `panel` | two threads, two sellers, four groups of topics that interact | what overlapping requests may not mix; acknowledged events are queued |

`jobs_mixed`, `notification_resent` and `ingest` do not check for deadlock: with every job ended the queue
is empty and workers only poll. `EveryJobEnds` says that the first two stop nowhere else.

### Where the documents and the code disagree

1. `flow_note_lost`. The comment at `nexa/flows.py:284` says that lead updates of an
   account are serialized. The lock is gone after the first commit of the loop (`:365`, `:416`)
   and the session keeps its copy of the lead, so with two workers a note of one flow can be overwritten by another flow of
   the same lead. The shipped compose file starts one worker, where this cannot happen.
2. `flow_slow_worker`. `docs/architecture.md:25` says that what is in doubt is never automatically
   resent. The lease has neither heartbeat nor fencing: if a worker is stalled for
   more than five minutes, its flow is requeued (or closed), and both workers send. Under the
   assumption `LeaseOutlivesWork` (a job is that old only if its worker is dead), `flow_pair` shows
   at most one delivery.
3. `notification_resent`. `docs/architecture.md:31` says there is no automatic resend; notifications
   have no marker and are requeued, so a death between the call and the commit repeats one.
4. `restore_left_running`. The comment at `cli/backups.py:148` and `docs/operations.md:21` say that a restore that fails
   after its safety backup leaves the writers stopped. `restore` starts them (`:211`) and then checks their health
   (`:213`); when that fails nothing stops them, as `update` does.

### Bounds

- *Workers: 2.* Every interaction modelled is between one worker and a row another one has
  changed, or the lock it holds; recovery needs a second, idle worker.
- *Deaths: 1* (`MaxCrashes`; `MaxFaults` of `Ingestion` bounds exceptions and deaths together): what a second death leaves is of the same kinds as after the first; the theorems on flows hold for any number.
- *Tries: 2* (`MaxAttempts`, 5 in the code): the first and the last.
- *Flows: 1 or 2; jobs: one of each kind.* A flow interacts with another through the account's lock, its lead and
  the switch only; all are shared in `flow_pair` or `flow_note_lost`.
- *Ingestion: 3 events, 3 rules, 1 edit, clock 0..1* (`MaxEdits`, `MaxClock`) with cooldowns 1 and 2: one that has run out and one that has not; the
  runs of two events may meet one that failed and came back.
- *Host: 3 operations, one of them asked for in the panel, 2 releases with a schema each, 2 configurations, 1 row, 1 death, 1 resend.* Operations exclude each other, so
  what one leaves behind meets a second and a third; a row is lost or not.
- *Requests at once: 2* (`Thread`): every property of `Accounts` and `Panel` is about a request and one it
  overlaps. `MaxEra` 1: a second end of sessions meets what the first left only through `late`. Requests that share no state are in
  different behaviours (`Traffic`). `NotesKeptPerLead` 2 (100 in the code) with `MaxNotes` 3, so that the limit
  cuts a note off and a flow may write a second one on a stale copy. Threads, tokens and events are symmetric; those runs check no liveness.
- *Prices: `Hour` 3, `TTL` 4, `MaxStall` 1*: a table outlives the guard, as with the shipped setting, and a calculation may last into the next tick.
- `delivered`, `calls` and `replied` are not capped: an unsound retry shows as a number above 1.

### Fairness

`FairSpec` asks for weak fairness of each worker's handling of its job and of its poll, no more. Exceptions (`Raise`)
and deaths are not asked for: a worker that waits for a row lock may wait for ever, so a lock that
is never released shows as a liveness violation. A worker is
a loop that polls for ever; its HTTP calls have timeouts of at most 20 seconds; the account lock is held by
transactions that commit, raise or die. Nothing is asked of the panel, the
provider, the webhooks, the clock or of deaths. A throttled flow ends because of its counter,
not because throttling ends. A waiting flow is not starved: throttling parks it a bounded number of times.

In `HostOperations` systemd restarts the agent, which takes requests and goes on, and
every command ends, with an error at worst; weak fairness of those steps. In `Prices` prices are asked for again and again, calls time out, and time
passes (strong fairness of the clock, which waits for a calculation that is at its longest); the provider owes nothing, `RatesReturn` assumes its return.

### Mutants

Definitions marked `Mutant` change one definition the way a plausible mistake would (a
marker not committed, an unordered query, a counter off by one, a lock that is not taken). With the mutant in place of the original,
TLC finds the property of that run violated: each property depends on the code it is about.

## 4. Proofs

Every safety invariant and action property that a passing run checks is also a theorem, for every value of the constants:
any number of workers, threads, flows, jobs, events, tokens, deaths and tries, any programs, rules, mixes of requests and
lengths of time. They rest on the named assumptions of the modules and on what the table says.

| module | theorem | states | assumes besides |
|---|---|---|---|
| `FlowDeliveryProofs` | `TypeCorrect` | `TypeOK` | |
| | `Inductive` | `DeliveryInv` | lease |
| | `AtMostOnce`, `RecordsAreHonest` | `AtMostOneDelivery`, `StatusIsHonest` | lease |
| | `ResumingIsSafe`, `PublicReplyIsSecond` | `RequeueIsSafe`, `PublicReplyFollows` | lease |
| | `NothingStranded` | `NoFlowIsStranded` | lease |
| | `ClosedForReview` | `UnknownIsFinal`, an action property | lease |
| `FlowContractProofs` | `ActionsInOrder`, `ProgressKept` | `EffectsInOrder`, `ProgressIsKept` | lease |
| | `FlowsKeepContract` | `KeepsContract`, the refinement of `ReplyContract` | lease |
| | `SentWasAccepted` | `SentIsReal` | |
| | `NotesWrittenOnce` | `NotesExactlyOnce` | lease, `NotesApart` |
| `JobQueueProofs` | `JobTypes` | `TypeOK` | |
| | `EffectsHappenOnce`, `ClosedSendsAreSettled` | `EffectAtMostOnce`, `ClosedSendIsSettled` | lease |
| | `RepliesKeepContract` | `KeepsContract`, the refinement of `ReplyContract` | lease |
| `IngestionProofs` | `Decisions`, `OneRun`, `CooldownsHold`, `WindowsAreLatest` | `IngestInv`, `OneRunPerEvent`, `CooldownHolds`, `WindowFromLatest` | |
| `AccountsProofs` | `AccountsHold`, `TokensUsedOnce`, `TokensReplaced` | `AccountsInv`, `UsedOnce`, `OneLiveToken` | |
| | `SessionsDoEnd`, `UnlinksHold`, `FounderKept` | `SessionsEnd`, `UnlinkHolds`, `FounderStays` | |
| `PanelProofs` | `PanelHolds`, `RulesStayOff`, `AccountsAreOwned` | `PanelInv`, `OffHolds`, `AccountHolds` | |
| | `NotesStay`, `AcksAreQueued`, `TicketsStayClosed` | `NotesKept`, `AckedIsQueued`, `ClosedStays` | |
| `HostProofs` | `StartsOnce` | `AtMostOnce` | |
| | `ProgramsHold`, `SchemasMatch` | `SafeInv`, `NoOldCodeOnNewSchema` | operator |
| | `RowsAreKept`, `EndsClean` | `NothingLost`, `QuietIsClean` | operator |
| `PricesProofs` | `PricesHold`, `RatesFailClosed` | `PricesInv`, `FreshOrStopped` | |
| | `OneFetchAnHour`, `QuotesAreRight` | `FetchesSpaced`, `PriceIsRight` | |

*Lease* is `LeaseOutlivesWork`: a job is five minutes old only if its worker is dead. `flow_slow_worker` shows that
deliveries repeat without it. *Operator* is `OperatorWaits`: services are not started by hand while an operation
runs. The code does not enforce it, and a `start` between the stop and the migration of an update puts the old release on
the new schema. `NotesApart` is: there is one worker, as `docker-compose.yml:65` has it, or no two flows write notes to
one lead; `flow_note_lost` is what happens otherwise. The instances of the passing runs satisfy all three where the theorem asks for them.

None of the properties is inductive by itself. What each needs besides:

*Flows.* That a worker may call the provider depends on what it has read before, and that
its copies are still true depends on nobody else having the flow. `DeliveryInv` is the conjunction of `TypeOK` (which
says that a busy worker holds a flow); `OneOwner` (two workers never have one flow);
`WorkerInv` for each worker (its job is running, its copies are the rows, the send is marked exactly while it is
with the provider, and its stage says what the provider has accepted); and `FlowInv` for each flow (an active
execution has only done, pending or marked actions and a job; a marked action is the send of a running job; what was
delivered is marked, sent or unknown). The proof follows the shape of the code: a worker's step touches its own session
and the rows of its own flow, so `LocalStep` reduces preservation to `WorkerInv` of that worker and `FlowInv` of that
flow; the commits that several actions share (`Stop`, `Park`, an action's commit, `Uncertain`) have one lemma each, every action
one on top. `RecoverSafe` is the only place where the lease is used. TLC checks `DeliveryInv` in `flow_pair`.

From there `FlowContractProofs` classifies what a step does to the rows of a flow, `RowStep`: nothing, the provider takes
the reply, the first action that is not done moves on, the flow is halted at it, or what is marked becomes
unknown. `StepOnRows` shows that every step of every worker is one of these. Order, progress and the refinement
are statements about `RowStep` alone: `RowsAsReply` maps each of its cases to a step of `ReplyContract` or to none,
`OneFlowMoves` shows that a step changes one flow. `SentWasAccepted` does not use the lease: two workers
may have a flow in hand, yet the receipt is written only by the one that came through the stages after the acceptance
(`ReceiptInv`). `NotesWrittenOnce` needs that the session's copy of the lead has the row's notes (`NoteInv`): it was read in this run
of the flow, and only `ApplyLead` writes leads.

*Queue.* `JobInv`: one holder per job; the holder's stage says what the row says and how often the call was taken (`HolderInv`);
without a holder the job's status says it (`RowInv`).

*Ingestion.* `IngestInv`: a worker past its decision holds the account's lock, its event is not received, and no run of the rule or
product that was let through is within the cooldown, unless it had failed or been cancelled when the worker decided (`over`): what fails, comes back or is
closed in the meantime cannot break this, as it speaks of every run that was let through. The lock is all it needs: no lease, as recovery may give an event to a second worker.

*Accounts.* `AccountsInv`: a request that presents a token holds it, alone, and it is live until then; a change never
touches the founder's role or switch; a flushed change leaves its user late sessions only; what an unlink
read links nobody but in a link that overlapped it.

*Panel.* The columns a request will write were computed from the row it read. The invariant of each topic says what they can be and
what the row may have become since; for the notes of leads, that a request's own note is in no row and in no other request's copy
(`Unseen`), that the row's newest note is not in a copy that the row has left behind, and that a flow which holds the
account can have missed no note of another that held it (`Moved`). This is for the copies of sessions between two actions too (`Copied`). Requests of another topic leave it alone.

*Host.* `OnceInv` of `StartsOnce` adds to `AtMostOnce` that a started operation has its
receipt and that one the agent has claimed but not begun was not started; no step of a program touches
any of this (`WorkKeeps`). `SafeInv` follows the programs: at most one runs, the steps it has left are in its order or in the
order of its clean-up (`ProgramInv`, by `Course` and `CleanUp`), and the step it is at says where the host is
(`HostInv`): stopped from the safety backup to the start, rows in a backup before they are replaced, the new release alone between its start
and the switch. Since `restart` brings back what was created last, the invariant also says that this is what is configured and fits
the schema (`Sound`), but for the steps in between (`Between`) and after a program that failed; a `start` by hand makes it so again.

*Prices.* `PricesInv`: a rate in hand was valid at the `now` of its calculation; the guard and the time since the last fetch span an hour less a
stall. `QuotesAreRight` is proved from lemmas on the operators: what one rounding can do, and what a limit leaves.

TLC checked each of these inductive invariants on the instance of the component's run before it was proved.

**Only model-checked**: the liveness properties `EveryFlowSettles`, `EveryJobEnds`, `EveryRequestEnds` and `RatesReturn`, as the
proof system has no `ENABLED`. The four violations are TLC's counterexamples.

## 5. Not modelled, and why

- Cryptography, password policy, cookies, rate limits, formatting and matching of text: data without control.
- The HTTP layer of the providers and the classification of status codes: seen through its outcomes.
- The catalogue of products and media, members and broadcasts, settings and content pages: requests of one commit that share no row with another
  actor, except as the edits that `FlowDelivery`, `Ingestion` and `Prices` allow at any time.
- Dry runs of flows: they send nothing and commit rows of their own.
- What each migration does to rows (0006 converts the statuses of old tickets, for example): run once; releases are seen as schema versions.
- `uninstall`, the installer, and a configuration edited by hand: outside the operations the agent knows.
- Frontend: no state of record.

## 6. Plan

Done: the models of section 2; a theorem for every safety property of section 3.

Next, in this order:

1. `DeliveryInv` without the lease as far as it goes: what a slow worker cannot break besides `SentIsReal` (types, no reply shown
   as failed that another worker of the flow has marked), to say exactly what the lease is for.
2. The safety half of liveness: that a worker which is not idle always has a step, and that a flow which is not settled is
   claimable, held or recoverable, so that only fairness is left to TLC.
3. The arithmetic of `Prices` as lemmas a reader can use alone: monotonic in the original price and in the rate.
4. Dry runs, and the media synchronisation of the catalogue.

--------------------------- MODULE HostOperations ---------------------------
(***************************************************************************)
(* The host side of the installation: the operations agent with its spool of  *)
(* requests, the command line, and the programs both run under one file       *)
(* lock: backup, restore, update, change of domain, deletion of a backup and  *)
(* reports.  A program is a sequence of steps on the containers, the database  *)
(* and the files; each step may fail, before or after its effect, and the      *)
(* actor may die between any two.  Rows are what the writers (api and worker)  *)
(* commit; a schema version stands for an Alembic revision.                    *)
(***************************************************************************)
EXTENDS Naturals, Sequences, FiniteSets

CONSTANTS
    Op, Panel,       \* operations; those requested in the panel, the others on the CLI
    NoOp, Down, Nothing,  \* no operation, no running writers, nothing kept
    Menu,            \* [Op -> SUBSET Kind]: what the operator may ask for
    SiteOf,          \* [Op -> Site]: the argument of a domain operation
    TargetOf,        \* [Op -> Release]: the argument of an update
    Site, FirstSite, \* domain settings
    Release,         \* 1..n, in the order of their tags
    SchemaOf,        \* [Release -> Nat]: the Alembic head of a release
    Row,             \* what the writers may commit
    MaxCrashes, MaxResends,  \* bounds
    OperatorWaits    \* TRUE: services are not started by hand while an operation runs

Kind == {"backup", "restore", "update", "domain", "delete", "report"}
Actor == {"agent", "cli"}

ASSUME OperationAssumption ==
    /\ Panel \subseteq Op /\ NoOp \notin Op
    /\ Menu \in [Op -> SUBSET Kind] /\ SiteOf \in [Op -> Site] /\ TargetOf \in [Op -> Release]
    /\ FirstSite \in Site /\ OperatorWaits \in BOOLEAN
ASSUME ReleaseAssumption ==
    /\ Release \subseteq Nat /\ Release # {}
    /\ SchemaOf \in [Release -> Nat]
    /\ \A r, q \in Release : r <= q => SchemaOf[r] <= SchemaOf[q]
ASSUME BoundAssumption == MaxCrashes \in Nat /\ MaxResends \in Nat

VARIABLES
    kind,      \* kind of each operation
    spool,     \* request file: absent, queued or rejected
    result,    \* result file: none, running, complete or failed
    receipts,  \* operation-receipts: the operations once claimed
    doing,     \* operation each actor holds the lock for
    stage,     \* claim of a request, or run
    todo,      \* steps left of the program
    failed,    \* an exception is on its way out
    memory,    \* what the program keeps: an archive, or the configuration it replaced
    current, nextLink,  \* release of the current symlink; current.next exists
    dirs,      \* release directories
    writers,   \* Down, or the release and configuration the containers run
    made,      \* release and configuration the containers were last created with
    schema, rows, config,
    archives,  \* validated backups
    written, discarded,  \* history: rows ever committed; rows of deleted backups
    starts,    \* history: how often each operation was started
    died,      \* history: operations whose agent or CLI process died
    wrecked,   \* history: a program died midway, or a step of its clean-up failed
    flawed,    \* history: a program failed or died, and no start by hand has succeeded since
    asis,      \* history: after that, stopped containers were restarted by hand as they were
    resends

protocol == <<kind, spool, result, receipts>>
program  == <<doing, stage, todo, failed, memory>>
services == <<writers, made, asis>>
host     == <<current, nextLink, dirs, services, schema, rows, config, archives, discarded>>
history  == <<written, starts, died, wrecked, flawed, resends>>
vars     == <<protocol, program, host, history>>

Serving == [release : Release, site : Site]
Archive == [by : Op, release : Release, schema : Nat, rows : SUBSET Row, config : Site]

Init ==
    /\ kind \in {k \in [Op -> Kind] : \A o \in Op : k[o] \in Menu[o]}
    /\ spool = [o \in Op |-> "absent"] /\ result = [o \in Op |-> "none"] /\ receipts = {}
    /\ doing = [a \in Actor |-> NoOp] /\ stage = [a \in Actor |-> "free"]
    /\ todo = [a \in Actor |-> << >>] /\ failed = [a \in Actor |-> FALSE]
    /\ memory = [a \in Actor |-> Nothing]
    /\ current = CHOOSE r \in Release : \A q \in Release : r <= q
    /\ nextLink = FALSE /\ dirs = {current}
    /\ made = [release |-> current, site |-> FirstSite] /\ writers = made
    /\ schema = SchemaOf[current] /\ rows = {} /\ config = FirstSite /\ archives = {}
    /\ written = {} /\ discarded = {}
    /\ starts = [o \in Op |-> 0] /\ died = {} /\ resends = 0
    /\ wrecked = FALSE /\ flawed = FALSE /\ asis = FALSE

-----------------------------------------------------------------------------
(* Programs, as the steps that change something or can stop the program. *)

Program(k) ==
    CASE k = "backup"  -> <<"stop", "archive", "up">>
      [] k = "restore" -> <<"validate", "stop", "archive", "load", "settings",
                               "migrate", "recreate", "health">>
      [] k = "update"  -> <<"clone", "stop", "archive", "migrate_new", "up_new",
                               "health_new", "link", "switch">>
      [] k = "domain"  -> <<"save", "recreate", "health", "webhook">>
      [] k = "delete"  -> <<"unlink">>
      [] k = "report"  -> <<"look">>

\* Mutant: a domain that does not come up stays configured.
RecoveryKeepsDomain(k, step) ==
    CASE k = "backup" /\ step = "archive" -> <<"up">>
      [] k = "update" /\ step \in {"migrate_new", "up_new", "health_new", "link", "switch"}
            -> <<"stop">>
      [] OTHER -> << >>

\* The finally and except clauses: what still runs when the step fails.
Recovery(k, step) ==
    CASE k = "backup" /\ step = "archive" -> <<"up">>
      [] k = "update" /\ step \in {"migrate_new", "up_new", "health_new", "link", "switch"}
            -> <<"stop">>
      [] k = "domain" /\ step \in {"recreate", "health"} -> <<"put_back", "recreate">>
      [] OTHER -> << >>

KindOf(a) == kind[doing[a]]
At(a, step) == stage[a] = "run" /\ todo[a] # << >> /\ Head(todo[a]) = step

\* Mutant: each process locks a file of its own.
OwnLockFree == \E a \in Actor : doing[a] = NoOp

\* operation.lock, which the end of its holder frees.
LockFree == \A a \in Actor : doing[a] = NoOp

Forward(a) ==
    /\ todo' = [todo EXCEPT ![a] = Tail(@)]
    /\ UNCHANGED <<protocol, doing, stage, failed, history>>

\* An exception; one on the way out already leaves no clean-up to run.
Raise(a) ==
    /\ todo' = [todo EXCEPT ![a] =
                  IF failed[a] THEN << >> ELSE Recovery(KindOf(a), Head(@))]
    /\ failed' = [failed EXCEPT ![a] = TRUE]
    /\ wrecked' = (wrecked \/ failed[a]) /\ flawed' = TRUE
    /\ UNCHANGED <<protocol, doing, stage, written, starts, died, resends>>

\* A docker command that took effect may still report an error.
Return(a) == UNCHANGED memory /\ (Forward(a) \/ Raise(a))

-----------------------------------------------------------------------------
(* Steps on the host. *)

Serve(r) ==
    /\ made' = [release |-> r, site |-> config]
    /\ writers' = made' /\ asis' = FALSE
Halt == writers' = Down /\ asis' = FALSE

\* The containers are as they were, or stopped; created again, perhaps, not started.
UpFails(r) ==
    /\ \/ UNCHANGED services
       \/ Halt /\ made' \in {made, [release |-> r, site |-> config]}
    /\ UNCHANGED <<current, nextLink, dirs, schema, rows, config, archives, discarded>>

\* Mutant: the services start without waiting for the migrations.
UpUnmigrated(r) ==
    /\ Serve(r)
    /\ UNCHANGED <<current, nextLink, dirs, schema, rows, config, archives, discarded>>

\* compose up: the services depend on the success of the release's own migrate,
\* which fails on a revision it does not know.
Up(r) ==
    /\ schema <= SchemaOf[r]
    /\ schema' = SchemaOf[r]
    /\ Serve(r)
    /\ UNCHANGED <<current, nextLink, dirs, rows, config, archives, discarded>>

StopWriters(a) ==
    /\ At(a, "stop") /\ Return(a)
    /\ Halt
    /\ UNCHANGED <<made, current, nextLink, dirs, schema, rows, config, archives, discarded>>

\* pg_dump and the metadata, validated and renamed into place.
SaveArchive(a) ==
    /\ At(a, "archive") /\ Return(a)
    /\ archives' = archives \union {[by |-> doing[a], release |-> current, schema |-> schema,
                                     rows |-> rows, config |-> config]}
    /\ UNCHANGED <<current, nextLink, dirs, services, schema, rows, config, discarded>>

StartWriters(a) ==
    /\ At(a, "up") \/ At(a, "recreate")
    /\ Return(a) /\ Up(current)

StartFails(a) ==
    \E step \in {"up", "recreate", "up_new"} :
        /\ At(a, step) /\ UNCHANGED memory /\ Raise(a)
        /\ UpFails(IF step = "up_new" THEN TargetOf[doing[a]] ELSE current)

\* Readiness asks the api container, whichever release it runs.
Healthy(a) ==
    /\ At(a, "health") \/ At(a, "health_new")
    /\ writers # Down
    /\ UNCHANGED <<memory, host>> /\ Forward(a)

\* restore: this release's archives only, of the schema its code names.
Validate(a) ==
    /\ At(a, "validate") /\ Forward(a)
    /\ \E b \in archives :
          /\ b.release = current /\ b.schema = SchemaOf[current]
          /\ memory' = [memory EXCEPT ![a] = b]
    /\ UNCHANGED host

\* pg_restore --clean in a single transaction.
LoadDump(a) ==
    /\ At(a, "load") /\ Return(a)
    /\ rows' = memory[a].rows /\ schema' = memory[a].schema
    /\ UNCHANGED <<current, nextLink, dirs, services, config, archives, discarded>>

RestoreSettings(a) ==
    /\ At(a, "settings") /\ Forward(a)
    /\ config' = memory[a].config
    /\ UNCHANGED <<memory, current, nextLink, dirs, services, schema, rows, archives, discarded>>

Migrate(a) ==
    \E step \in {"migrate", "migrate_new"} :
        LET r == IF step = "migrate" THEN current ELSE TargetOf[doing[a]] IN
        /\ At(a, step) /\ Return(a)
        /\ schema <= SchemaOf[r]
        /\ schema' = SchemaOf[r]
        /\ UNCHANGED <<current, nextLink, dirs, services, rows, config, archives, discarded>>

\* update: a newer release in a directory of its own, built before any downtime.
Clone(a) ==
    LET target == TargetOf[doing[a]] IN
    /\ At(a, "clone") /\ Return(a)
    /\ target > current /\ target \notin dirs
    /\ dirs' = dirs \union {target}
    /\ UNCHANGED <<current, nextLink, services, schema, rows, config, archives, discarded>>

UpNew(a) == At(a, "up_new") /\ Return(a) /\ Up(TargetOf[doing[a]])

Link(a) ==
    /\ At(a, "link") /\ Forward(a)
    /\ ~nextLink /\ nextLink' = TRUE
    /\ UNCHANGED <<memory, current, dirs, services, schema, rows, config, archives, discarded>>

Switch(a) ==
    /\ At(a, "switch") /\ Forward(a)
    /\ current' = TargetOf[doing[a]] /\ nextLink' = FALSE
    /\ UNCHANGED <<memory, dirs, services, schema, rows, config, archives, discarded>>

\* domain: the settings replaced are put back when the services do not come up.
SaveDomain(a) ==
    /\ At(a, "save") /\ Forward(a)
    /\ memory' = [memory EXCEPT ![a] = config]
    /\ config' = SiteOf[doing[a]]
    /\ UNCHANGED <<current, nextLink, dirs, services, schema, rows, archives, discarded>>

PutBack(a) ==
    /\ At(a, "put_back") /\ Forward(a)
    /\ config' = memory[a]
    /\ UNCHANGED <<memory, current, nextLink, dirs, services, schema, rows, archives, discarded>>

\* delete-backup; its metadata file goes with it.
DeleteBackup(a) ==
    /\ At(a, "unlink") /\ Forward(a)
    /\ \E b \in archives :
          archives' = archives \ {b} /\ discarded' = discarded \union b.rows
    /\ UNCHANGED <<memory, current, nextLink, dirs, services, schema, rows, config>>

\* check-update, ssl and diagnostics, and the webhook of the domain's Telegram bot.
Report(a) ==
    /\ At(a, "look") \/ At(a, "webhook")
    /\ UNCHANGED <<memory, host>> /\ Forward(a)

\* Any step may fail before its effect.
Fail(a) ==
    /\ stage[a] = "run" /\ todo[a] # << >>
    /\ UNCHANGED <<memory, host>> /\ Raise(a)

-----------------------------------------------------------------------------
(* The panel, the spool and the lock. *)

\* The API accepts an operation only while it runs.
Request(o) ==
    /\ o \in Panel /\ writers # Down
    /\ spool[o] = "absent" /\ result[o] = "none" /\ o \notin receipts
    /\ spool' = [spool EXCEPT ![o] = "queued"]
    /\ UNCHANGED <<kind, result, receipts, program, host, history>>

\* The spool is the web process's directory: a request may come back in it, and a
\* result may go.  Bounded by MaxResends.
Resend(o) ==
    /\ o \in receipts /\ spool[o] # "queued" /\ resends < MaxResends
    /\ spool' = [spool EXCEPT ![o] = "queued"]
    /\ \E left \in {"none", result[o]} : result' = [result EXCEPT ![o] = left]
    /\ resends' = resends + 1
    /\ UNCHANGED <<kind, receipts, program, host, written, starts, died, wrecked, flawed>>

\* Mutant: the request of an answered operation stays.
AnsweredKeeps(o) ==
    /\ LockFree /\ spool[o] = "queued" /\ result[o] # "none"
    /\ UNCHANGED vars

Answered(o) ==
    /\ LockFree /\ spool[o] = "queued" /\ result[o] # "none"
    /\ spool' = [spool EXCEPT ![o] = "absent"]
    /\ UNCHANGED <<kind, result, receipts, program, host, history>>

\* A second receipt cannot be made; any request may have waited past its time.
Reject(o) ==
    /\ LockFree /\ spool[o] = "queued" /\ result[o] = "none"
    /\ spool' = [spool EXCEPT ![o] = "rejected"]
    /\ UNCHANGED <<kind, result, receipts, program, host, history>>

\* Mutant: the missing result alone makes a request eligible.
ClaimWithoutReceipt(o) ==
    /\ LockFree /\ spool[o] = "queued" /\ result[o] = "none"
    /\ receipts' = receipts \union {o}
    /\ doing' = [doing EXCEPT !["agent"] = o]
    /\ stage' = [stage EXCEPT !["agent"] = "claimed"]
    /\ UNCHANGED <<kind, spool, result, todo, failed, memory, host, history>>

Claim(o) ==
    /\ LockFree /\ spool[o] = "queued" /\ result[o] = "none" /\ o \notin receipts
    /\ receipts' = receipts \union {o}
    /\ doing' = [doing EXCEPT !["agent"] = o]
    /\ stage' = [stage EXCEPT !["agent"] = "claimed"]
    /\ UNCHANGED <<kind, spool, result, todo, failed, memory, host, history>>

Announce ==
    /\ stage["agent"] = "claimed"
    /\ result' = [result EXCEPT ![doing["agent"]] = "running"]
    /\ stage' = [stage EXCEPT !["agent"] = "announced"]
    /\ UNCHANGED <<kind, spool, receipts, doing, todo, failed, memory, host, history>>

StartProgram(a, o) ==
    /\ todo' = [todo EXCEPT ![a] = Program(kind[o])]
    /\ failed' = [failed EXCEPT ![a] = FALSE]
    /\ memory' = [memory EXCEPT ![a] = Nothing]
    /\ starts' = [starts EXCEPT ![o] = @ + 1]
    /\ stage' = [stage EXCEPT ![a] = "run"]

Begin ==
    /\ stage["agent"] = "announced"
    /\ spool' = [spool EXCEPT ![doing["agent"]] = "absent"]
    /\ StartProgram("agent", doing["agent"])
    /\ UNCHANGED <<kind, result, receipts, doing, host, written, died, wrecked, flawed, resends>>

\* dispatch: each CLI operation is typed once.
RunCli(o) ==
    /\ LockFree /\ o \notin Panel /\ starts[o] = 0
    /\ doing' = [doing EXCEPT !["cli"] = o]
    /\ StartProgram("cli", o)
    /\ UNCHANGED <<protocol, host, written, died, wrecked, flawed, resends>>

Leave(a) ==
    /\ doing' = [doing EXCEPT ![a] = NoOp]
    /\ stage' = [stage EXCEPT ![a] = "free"]
    /\ todo' = [todo EXCEPT ![a] = << >>]
    /\ failed' = [failed EXCEPT ![a] = FALSE]
    /\ memory' = [memory EXCEPT ![a] = Nothing]

Finish(a) ==
    /\ stage[a] = "run" /\ todo[a] = << >>
    /\ result' = IF a = "cli" THEN result ELSE
                 [result EXCEPT ![doing[a]] = IF failed[a] THEN "failed" ELSE "complete"]
    /\ Leave(a)
    /\ UNCHANGED <<kind, spool, receipts, host, history>>

\* The process dies: its lock is freed, whatever it was doing.
Die(a) ==
    /\ doing[a] # NoOp /\ Cardinality(died) < MaxCrashes
    /\ died' = died \union {doing[a]}
    /\ wrecked' = (wrecked \/ todo[a] # << >>)
    /\ flawed' = (flawed \/ todo[a] # << >>)
    /\ Leave(a)
    /\ UNCHANGED <<protocol, host, written, starts, resends>>

-----------------------------------------------------------------------------
\* The api and worker containers commit a row.
Write(x) ==
    /\ writers # Down /\ x \notin written
    /\ rows' = rows \union {x} /\ written' = written \union {x}
    /\ UNCHANGED <<protocol, program, current, nextLink, dirs, services, schema, config,
                   archives, discarded, starts, died, wrecked, flawed, resends>>

\* start, repair and apply-config, restart and stop take no lock.
ByHand == OperatorWaits => LockFree
HandStart ==
    /\ ByHand /\ UNCHANGED <<protocol, program, written, starts, died, wrecked, resends>>
    /\ \/ Up(current) /\ flawed' = FALSE
       \/ UpFails(current) /\ UNCHANGED flawed
HandStop ==
    /\ ByHand /\ Halt
    /\ UNCHANGED <<protocol, program, current, nextLink, dirs, made, schema, rows, config,
                   archives, discarded, history>>

\* compose restart: the containers there are, running or stopped, as they were
\* created; their migrate is started again too, and nothing waits for it.
HandRestart ==
    /\ ByHand
    /\ writers' = made /\ asis' = (asis \/ (writers = Down /\ flawed))
    /\ schema' \in {schema} \union {v \in {SchemaOf[made.release]} : schema <= v}
    /\ UNCHANGED <<protocol, program, current, nextLink, dirs, made, rows, config,
                   archives, discarded, history>>

Step(a) ==
    \/ Finish(a) \/ Fail(a)
    \/ StopWriters(a) \/ SaveArchive(a) \/ StartWriters(a) \/ StartFails(a) \/ Healthy(a)
    \/ Validate(a) \/ LoadDump(a) \/ RestoreSettings(a) \/ Migrate(a)
    \/ Clone(a) \/ UpNew(a) \/ Link(a) \/ Switch(a) \/ SaveDomain(a) \/ PutBack(a)
    \/ DeleteBackup(a) \/ Report(a)
TakeRequest == \E o \in Op : Answered(o) \/ Reject(o) \/ Claim(o)
AgentStep == Announce \/ Begin

Next ==
    \/ \E o \in Op : Request(o) \/ Resend(o) \/ RunCli(o)
    \/ TakeRequest \/ AgentStep
    \/ \E a \in Actor : Step(a) \/ Die(a)
    \/ \E x \in Row : Write(x)
    \/ HandStart \/ HandStop \/ HandRestart

Spec == Init /\ [][Next]_vars

\* systemd restarts the agent, a single loop; commands end, with an error at worst.
FairSpec ==
    /\ Spec /\ WF_vars(TakeRequest \/ AgentStep \/ Step("agent")) /\ WF_vars(Step("cli"))

-----------------------------------------------------------------------------
(* Properties. *)

\* An operation requested in the panel is started at most once, whatever comes back
\* into the spool and wherever the agent dies (agent.process: "Claim once before
\* executing; a daemon crash requires operator review, never automatic replay").
AtMostOnce == \A o \in Panel : starts[o] <= 1

\* Containers never run a release on a schema its code does not name
\* (docs/operations.md: "Old code must not be started against an incompatible
\* schema"), though a failed update may leave the database migrated, the symlink old
\* and containers of either release stopped.  Nothing a program does starts them, and
\* neither does `start`; `restart` after such a failure does, and is the exception.
NoOldCodeOnNewSchema ==
    writers # Down /\ ~asis => schema = SchemaOf[writers.release]

\* No restore and no update loses a committed row: each is in the database or in a
\* backup, save those of backups deleted on purpose.
NothingLost ==
    written \subseteq rows \union discarded \union UNION {b.rows : b \in archives}

\* With the lock free and no program cut short, running containers are those of the
\* current release under the saved configuration: a failed operation was undone or
\* left them stopped (update's except clause, domain's, backup's finally), and they
\* are others only if restarted by hand after such a failure, as they were left.
QuietIsClean ==
    LockFree /\ ~wrecked /\ ~asis
        => writers \in {Down, [release |-> current, site |-> config]}

\* Every request leaves the spool, and its result does not stay "running", unless
\* the agent died with it.
EveryRequestEnds ==
    \A o \in Panel : spool[o] = "queued" ~>
        spool[o] # "queued" /\ (result[o] = "running" => o \in died)

\* A restore that fails after its safety backup leaves the writers stopped
\* (backups.restore: "Leave writers stopped after any failure, so an operator can
\* investigate without additional writes").
StoppedForInvestigation ==
    \A a \in Actor :
        /\ doing[a] # NoOp /\ KindOf(a) = "restore" /\ failed[a]
        /\ \E b \in archives : b.by = doing[a]
        => writers = Down
=============================================================================

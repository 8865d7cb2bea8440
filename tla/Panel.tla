-------------------------------- MODULE Panel --------------------------------
(***************************************************************************)
(* The requests that change the rows people and workers share: tickets, rules,  *)
(* connected accounts, leads, and the queue the BoxAPI webhook fills.  A request *)
(* reads a row, later commits; nothing but the account's row is locked between.  *)
(* A session writes only the columns whose value differs from the one it read,   *)
(* so two requests that overlap mix, and neither is told.                     *)
(***************************************************************************)
EXTENDS Naturals, Sequences

CONSTANTS
    Thread, NoThread,      \* requests served at once, of the API or of a worker
    Owner, NoOwner,        \* sellers, each with a workspace
    Event,                 \* events of the provider
    NotesKeptPerLead,      \* 100 in the code
    MaxNotes,              \* bound: notes written in a behaviour
    Traffic                \* sets of topics; a behaviour has the requests of one

Topic == {"ticket", "rule", "account", "lead", "webhook"}

ASSUME PanelAssumption ==
    /\ NoThread \notin Thread /\ NoOwner \notin Owner /\ Owner # {}
    /\ NotesKeptPerLead \in Nat \ {0} /\ MaxNotes \in Nat
    /\ \A topics \in Traffic : topics \subseteq Topic

VARIABLES
    traffic,     \* the topics of this behaviour
    provider,    \* "instagram" or "boxapi", of the account
    row,         \* the rows, by table
    jobs,        \* keys of the queued events
    op, who,     \* request in each thread: what it is asked, by whom
    seen, set,   \* the row it read, and the columns it will write
    payload, todo,   \* its events, and those not inserted yet
    adding,      \* keys it has inserted and not committed
    lock,        \* the thread with the account's row lock
    off, crossed, told, acked, drafts, written, raced   \* history

request == <<op, who, seen, set, payload, todo, adding>>
history == <<off, crossed, told, acked, drafts, written, raced>>
vars == <<traffic, provider, row, jobs, request, lock, history>>

TicketStatus == {"waiting_support", "waiting_user", "waiting_new_reply", "closed"}
RuleStatus == {"DRAFT", "ACTIVE", "PAUSED", "ERROR"}
Note == [by : {"panel", "flow", "late"}, id : 1..MaxNotes]

Unchanged == [none |-> TRUE]

Init ==
    /\ traffic \in Traffic /\ provider \in {"instagram", "boxapi"}
    /\ row = [ticket  |-> [status |-> "waiting_support", answered |-> FALSE],
              rule    |-> [enabled |-> FALSE, status |-> "DRAFT"],
              account |-> IF traffic \intersect {"rule", "lead"} = {}
                          THEN [owner |-> NoOwner, active |-> FALSE, credential |-> FALSE]
                          ELSE [owner |-> CHOOSE o \in Owner : TRUE, active |-> TRUE,
                                credential |-> provider = "instagram"],
              lead    |-> [tags |-> {}, notes |-> <<>>]]
    /\ jobs = {} /\ lock = NoThread
    /\ op = [q \in Thread |-> "idle"] /\ who = [q \in Thread |-> NoOwner]
    /\ seen = [q \in Thread |-> Unchanged] /\ set = [q \in Thread |-> Unchanged]
    /\ payload = [q \in Thread |-> {}] /\ todo = [q \in Thread |-> {}]
    /\ adding = [q \in Thread |-> {}]
    /\ off = FALSE /\ crossed = FALSE /\ told = [o \in Owner |-> FALSE]
    /\ acked = {} /\ drafts = 0 /\ written = <<>> /\ raced = FALSE

-----------------------------------------------------------------------------
(* Sessions. *)

\* The columns of `new` that differ from the row read.
Net(old, new) == [c \in {d \in DOMAIN new : new[d] # old[d]} |-> new[c]]

Write(old, s) == [c \in DOMAIN old |-> IF c \in DOMAIN s THEN s[c] ELSE old[c]]

Read(q, topic, o, u, s) ==
    /\ op[q] = "idle" /\ topic \in traffic
    /\ op' = [op EXCEPT ![q] = o] /\ who' = [who EXCEPT ![q] = u]
    /\ seen' = [seen EXCEPT ![q] = row[topic]] /\ set' = [set EXCEPT ![q] = s]
    /\ UNCHANGED <<traffic, provider, row, jobs, payload, todo, adding, off, crossed, told,
                   acked, written, raced>>

Done(q) ==
    /\ op' = [op EXCEPT ![q] = "idle"] /\ who' = [who EXCEPT ![q] = NoOwner]
    /\ seen' = [seen EXCEPT ![q] = Unchanged] /\ set' = [set EXCEPT ![q] = Unchanged]
    /\ payload' = [payload EXCEPT ![q] = {}] /\ todo' = [todo EXCEPT ![q] = {}]
    /\ adding' = [adding EXCEPT ![q] = {}]
    /\ lock' = IF lock = q THEN NoThread ELSE lock

Save(q, table) == row' = [row EXCEPT ![table] = Write(@, set[q])]

\* The row was not changed since the request read it.
Clean(q, table) == seen[q] = row[table]

-----------------------------------------------------------------------------
(* Tickets. *)

Answer == [status |-> "waiting_user", answered |-> TRUE]

\* Mutant: a message to a closed ticket is not refused.
AddMessageToAny(q) ==
    /\ \/ Read(q, "ticket", "ticket", NoOwner, Net(row.ticket, Answer))
       \/ Read(q, "ticket", "reply", NoOwner, Unchanged)
    /\ UNCHANGED <<lock, drafts>>

\* add_message, of an administrator or of the user.
AddMessage(q) ==
    /\ row.ticket.status # "closed"
    /\ \/ Read(q, "ticket", "ticket", NoOwner, Net(row.ticket, Answer))
       \/ Read(q, "ticket", "reply", NoOwner, Unchanged)
    /\ UNCHANGED <<lock, drafts>>

\* update_ticket: an administrator sets any status, the user closes.
SetTicket(q) ==
    /\ \E s \in TicketStatus :
          /\ row.ticket.status = "closed" => s = "closed"
          /\ Read(q, "ticket", "ticket", NoOwner, Net(row.ticket, [status |-> s]))
    /\ UNCHANGED <<lock, drafts>>

\* The user's reply looks for an earlier answer after its first UPDATE has locked
\* the ticket's row, hence no sooner than its commit.
SaveReply(q) ==
    LET s == [status |-> IF row.ticket.answered THEN "waiting_new_reply"
                         ELSE "waiting_support"] IN
    /\ op[q] = "reply" /\ Done(q)
    /\ row' = [row EXCEPT !.ticket = Write(@, Net(seen[q], s))]
    /\ UNCHANGED <<traffic, provider, jobs, history>>

SaveTicket(q) ==
    /\ op[q] = "ticket" /\ Save(q, "ticket") /\ Done(q)
    /\ UNCHANGED <<traffic, provider, jobs, history>>

-----------------------------------------------------------------------------
(* Rules. *)

Switched(on) == [enabled |-> on, status |-> IF on THEN "ACTIVE" ELSE "PAUSED"]
Ask(on) == IF on THEN "switch_on" ELSE "switch_off"

\* toggle_rule: not on for an inactive account.
Toggle(q) ==
    /\ \E on \in BOOLEAN :
          /\ on => row.account.active
          /\ Read(q, "rule", Ask(on), NoOwner, Net(row.rule, Switched(on)))
    /\ UNCHANGED <<lock, drafts>>

\* Mutant: the button flips the rule instead of setting what it showed.
ConfirmFlips(q) ==
    /\ \E on \in BOOLEAN :
          Read(q, "rule", Ask(on), NoOwner, Net(row.rule, Switched(~row.rule.enabled)))
    /\ UNCHANGED <<lock, drafts>>

\* handle_update "confirm:": as the button says, whenever it is pressed again and
\* whatever the account.
Confirm(q) ==
    /\ \E on \in BOOLEAN :
          Read(q, "rule", Ask(on), NoOwner, Net(row.rule, Switched(on)))
    /\ UNCHANGED <<lock, drafts>>

\* edit_rule: rule_values asks for an active account.
EditRule(q) ==
    /\ row.account.active
    /\ \E s \in RuleStatus :
          Read(q, "rule", Ask(s = "ACTIVE"), NoOwner,
               Net(row.rule, [enabled |-> s = "ACTIVE", status |-> s]))
    /\ UNCHANGED <<lock, drafts>>

SaveRule(q) ==
    /\ op[q] \in {"switch_on", "switch_off"} /\ Save(q, "rule") /\ Done(q)
    /\ off' = (op[q] = "switch_off" /\ (off \/ Clean(q, "rule")))
    /\ UNCHANGED <<traffic, provider, jobs, crossed, told, acked, drafts, written, raced>>

\* ingest, ingest_comment: what matches an event.
Fires == row.rule.enabled /\ row.rule.status = "ACTIVE"

-----------------------------------------------------------------------------
(* Accounts. *)

\* What is written: a new row, or in an old one a new credential (instagram only).
Connected(u) ==
    CASE row.account.owner = NoOwner
           -> [owner |-> u, active |-> TRUE, credential |-> provider = "instagram"]
      [] row.account.owner # NoOwner /\ provider = "boxapi"
           -> Net(row.account, [active |-> TRUE])
      [] row.account.owner # NoOwner /\ provider = "instagram" /\ row.account.active
           -> [credential |-> TRUE]
      [] row.account.owner # NoOwner /\ provider = "instagram" /\ ~row.account.active
           -> [active |-> TRUE, credential |-> TRUE]

\* Mutant: the owner of the account is not compared.
ConnectAny(q, u) ==
    /\ Read(q, "account", "connect", u, Connected(u))
    /\ UNCHANGED <<lock, drafts>>

\* Both callbacks: an account of another workspace is refused.
Connect(q, u) ==
    /\ row.account.owner \in {NoOwner, u}
    /\ Read(q, "account", "connect", u, Connected(u))
    /\ UNCHANGED <<lock, drafts>>

\* The subscription fails, or another request has inserted the account.
ConnectFails(q) ==
    /\ op[q] = "connect" /\ Done(q)
    /\ \/ provider = "instagram"
       \/ "owner" \in DOMAIN set[q] /\ row.account.owner # NoOwner
    /\ UNCHANGED <<traffic, provider, row, jobs, history>>

\* The commit waits for a worker that holds the account's row.
SaveConnect(q) ==
    /\ op[q] = "connect" /\ lock = NoThread
    /\ "owner" \in DOMAIN set[q] => row.account.owner = NoOwner
    /\ Save(q, "account") /\ Done(q)
    /\ told' = [told EXCEPT ![who[q]] = TRUE]
    /\ crossed' = (~Clean(q, "account"))
    /\ UNCHANGED <<traffic, provider, jobs, off, acked, drafts, written, raced>>

Disconnect(q, u) ==
    /\ row.account.owner = u
    /\ Read(q, "account", "disconnect", u,
            Net(row.account, [active |-> FALSE, credential |-> FALSE]))
    /\ UNCHANGED <<lock, drafts>>

SaveDisconnect(q) ==
    /\ op[q] = "disconnect" /\ lock = NoThread
    /\ Save(q, "account") /\ Done(q)
    /\ crossed' = (~Clean(q, "account"))
    /\ UNCHANGED <<traffic, provider, jobs, off, told, acked, drafts, written, raced>>

-----------------------------------------------------------------------------
(* Leads. *)

Last(s) == IF Len(s) <= NotesKeptPerLead THEN s
           ELSE SubSeq(s, Len(s) - NotesKeptPerLead + 1, Len(s))

WithNote(notes, by) == Last(Append(notes, [by |-> by, id |-> drafts + 1]))
Numbered == drafts < MaxNotes /\ drafts' = drafts + 1

\* A request that reads the lead and will write these columns, with a note or none.
ReadLead(q, o, s) == Read(q, "lead", o, NoOwner, Net(row.lead, s)) /\ UNCHANGED drafts
DraftNote(q, by, s) ==
    /\ Numbered
    /\ Read(q, "lead", by, NoOwner,
            Net(row.lead, [c \in DOMAIN s \union {"notes"} |->
                               IF c = "notes" THEN WithNote(row.lead.notes, by) ELSE s[c]]))

\* edit_lead: the tags of the form, and a note if there is one.
EditLead(q) ==
    /\ \E tags \in {{}, {"vip"}} :
          ReadLead(q, "tags", [tags |-> tags]) \/ DraftNote(q, "panel", [tags |-> tags])
    /\ UNCHANGED lock

\* ADD_TAG and INTERNAL_NOTE of a flow, for the first time in its run.
Tagged(lead) == [tags |-> lead.tags \union {"bought"}]
LeadAction(q, by) == DraftNote(q, by, row.lead) \/ ReadLead(q, "tag", Tagged(row.lead))

\* Mutant: a flow takes no lock on the account.
FlowLeadUnlocked(q) == LeadAction(q, "flow") /\ UNCHANGED lock

\* The first action of a run: read, flushed and committed under the lock of the account.
FlowLead(q) == lock = NoThread /\ lock' = q /\ LeadAction(q, "flow")

\* An action before it was committed, and the lock went with that commit.
LateLead(q) == LeadAction(q, "late") /\ UNCHANGED lock

\* The run has worked on the lead before: its session still has that copy
\* (expire_on_commit is off), and a query does not refresh it.
LeadAgain(q) ==
    /\ op[q] = "copy"
    /\ \/ /\ UNCHANGED drafts /\ op' = [op EXCEPT ![q] = "tag"]
          /\ set' = [set EXCEPT ![q] = Net(seen[q], Tagged(seen[q]))]
       \/ /\ Numbered /\ op' = [op EXCEPT ![q] = "late"]
          /\ set' = [set EXCEPT ![q] =
                Net(seen[q], [notes |-> WithNote(seen[q].notes, "late")])]
    /\ UNCHANGED <<traffic, provider, row, jobs, who, seen, payload, todo, adding, lock,
                   off, crossed, told, acked, written, raced>>

Elements(s) == {s[i] : i \in DOMAIN s}

\* Notes committed since the session read the lead, which its own write drops.
Dropped(q) == Elements(row.lead.notes) \ Elements(seen[q].notes)

SaveNotes(q) ==
    IF "notes" \notin DOMAIN set[q] THEN UNCHANGED <<written, raced>>
    ELSE /\ written' = Append(written, set[q].notes[Len(set[q].notes)])
         /\ raced' = \/ raced
                     \/ op[q] # "flow" /\ Dropped(q) # {}
                     \/ \E n \in Dropped(q) : n.by # "flow"

SaveLead(q) ==
    /\ op[q] \in {"tags", "panel"} /\ Save(q, "lead") /\ SaveNotes(q) /\ Done(q)
    /\ UNCHANGED <<traffic, provider, jobs, off, crossed, told, acked, drafts>>

\* The commit after an action of a flow frees the account; the session keeps its lead.
SaveFlow(q) ==
    /\ op[q] \in {"flow", "late", "tag"} /\ Save(q, "lead") /\ SaveNotes(q)
    /\ op' = [op EXCEPT ![q] = "copy"] /\ set' = [set EXCEPT ![q] = Unchanged]
    /\ seen' = [seen EXCEPT ![q] = Write(@, set[q])]
    /\ lock' = IF lock = q THEN NoThread ELSE lock
    /\ UNCHANGED <<traffic, provider, jobs, who, payload, todo, adding,
                   off, crossed, told, acked, drafts>>

-----------------------------------------------------------------------------
(* The BoxAPI webhook. *)

\* A signed payload for an active account, with the events that normalise; for
\* another account it is acknowledged and dropped.
Deliver(q, events) ==
    /\ op[q] = "idle" /\ "webhook" \in traffic /\ row.account.active
    /\ op' = [op EXCEPT ![q] = "webhook"]
    /\ payload' = [payload EXCEPT ![q] = events] /\ todo' = [todo EXCEPT ![q] = events]
    /\ UNCHANGED <<traffic, provider, row, jobs, who, seen, set, adding, lock, history>>

\* Mutant: a key another request is inserting counts as queued.
EnqueueSkips(q, e) ==
    /\ op[q] = "webhook" /\ e \in todo[q] /\ todo' = [todo EXCEPT ![q] = @ \ {e}]
    /\ adding' = IF e \in jobs \/ \E r \in Thread \ {q} : e \in adding[r] THEN adding
                 ELSE [adding EXCEPT ![q] = @ \union {e}]
    /\ UNCHANGED <<traffic, provider, row, jobs, op, who, seen, set, payload, lock, history>>

\* enqueue: an insert in a savepoint; the unique key makes it wait for another
\* transaction that is inserting it.
Enqueue(q, e) ==
    /\ op[q] = "webhook" /\ e \in todo[q] /\ todo' = [todo EXCEPT ![q] = @ \ {e}]
    /\ \A r \in Thread \ {q} : e \notin adding[r]
    /\ adding' = IF e \in jobs THEN adding ELSE [adding EXCEPT ![q] = @ \union {e}]
    /\ UNCHANGED <<traffic, provider, row, jobs, op, who, seen, set, payload, lock, history>>

\* One commit for the payload, then the answer.
Acknowledge(q) ==
    /\ op[q] = "webhook" /\ todo[q] = {} /\ Done(q)
    /\ jobs' = jobs \union adding[q] /\ acked' = acked \union payload[q]
    /\ UNCHANGED <<traffic, provider, row, off, crossed, told, drafts, written, raced>>

\* The process dies, the database breaks a deadlock of two payloads, or a run ends.
Abort(q) ==
    /\ op[q] # "idle" /\ Done(q)
    /\ UNCHANGED <<traffic, provider, row, jobs, history>>

-----------------------------------------------------------------------------
Begin(q) ==
    \/ AddMessage(q) \/ SetTicket(q) \/ Toggle(q) \/ Confirm(q) \/ EditRule(q)
    \/ EditLead(q) \/ FlowLead(q) \/ LateLead(q) \/ LeadAgain(q)
    \/ \E u \in Owner : Connect(q, u) \/ Disconnect(q, u)
    \/ \E events \in SUBSET Event \ {{}} : Deliver(q, events)

Proceed(q) ==
    \/ SaveTicket(q) \/ SaveReply(q) \/ SaveRule(q)
    \/ SaveConnect(q) \/ ConnectFails(q) \/ SaveDisconnect(q)
    \/ SaveLead(q) \/ SaveFlow(q)
    \/ Acknowledge(q) \/ Abort(q) \/ \E e \in Event : Enqueue(q, e)

Next == \E q \in Thread : Begin(q) \/ Proceed(q)

Spec == Init /\ [][Next]_vars

-----------------------------------------------------------------------------
(* Properties. *)

\* A closed ticket is reopened by no request that read it closed: only a message or a
\* status whose request overlapped the close brings it back (support.add_message,
\* update_ticket; CHANGELOG: "safe closing, and closed-ticket locking").
ClosedStays ==
    [][row.ticket.status = "closed" /\ row'.ticket.status # "closed" =>
         \E q \in Thread : /\ op[q] \in {"ticket", "reply"} /\ op'[q] = "idle"
                          /\ seen[q].status # "closed"]_vars

\* A rule that was switched off, by a request no other overlapped, fires for nobody until
\* somebody asks for it to be on: columns that two requests mixed do not bring it back.
OffHolds == off => ~Fires

\* Who was told that the account is connected owns it, however two sellers race for one
\* page; and a disconnected account keeps no credential, unless requests overlapped.
AccountHolds ==
    /\ \A u \in Owner : told[u] => row.account.owner = u
    /\ row.account.credential => row.account.active \/ crossed

\* A lead keeps its newest notes in the order of their commits.  Flows that hold the
\* account lose none of each other's, and tags lose none; a note is dropped only if it, or
\* the note written over it from an older reading, was of the panel (commerce.edit_lead)
\* or of a flow past its first commit (run_flow), which have no lock.
NotesKept == ~raced => row.lead.notes = Last(written)

\* An event BoxAPI got an acknowledgement for is queued, however deliveries of it overlap,
\* die or deadlock: BoxAPI will not send it again.
AckedIsQueued == acked \subseteq jobs
=============================================================================

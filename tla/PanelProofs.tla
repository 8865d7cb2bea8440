----------------------------- MODULE PanelProofs -----------------------------
(***************************************************************************)
(* Proofs about Panel for every set of threads, owners, events and topics.  The *)
(* columns a request will write were computed from the row it read: the         *)
(* invariants say what they can be, and what the row may have become since.     *)
(* Each topic has an invariant of its own, and a request of another topic         *)
(* leaves it alone.                                                             *)
(***************************************************************************)
EXTENDS Panel, SequenceTheorems, TLAPS

TicketOps  == {"ticket", "reply"}
RuleOps    == {"switch_on", "switch_off"}
AccountOps == {"connect", "disconnect"}
LeadOps    == {"tags", "panel", "flow", "late", "tag", "copy"}

\* The tables and columns, and the functions on threads.
Shape ==
    /\ DOMAIN row = {"ticket", "rule", "account", "lead"}
    /\ DOMAIN row.ticket = {"status", "answered"}
    /\ DOMAIN row.rule = {"enabled", "status"}
    /\ DOMAIN row.account = {"owner", "active", "credential"}
    /\ DOMAIN row.lead = {"tags", "notes"}
    /\ DOMAIN op = Thread /\ DOMAIN who = Thread /\ DOMAIN seen = Thread
    /\ DOMAIN set = Thread /\ DOMAIN payload = Thread /\ DOMAIN todo = Thread
    /\ DOMAIN adding = Thread
    /\ provider \in {"instagram", "boxapi"}

\* A status is written only over one that is not closed.
TicketFits(q) ==
    /\ op[q] = "ticket" /\ "status" \in DOMAIN set[q] => seen[q].status # "closed"
    /\ op[q] = "reply" => seen[q].status # "closed"

TicketInv == \A q \in Thread : TicketFits(q)

\* Switching off writes only what is off, and does write it over a rule that was on.
RuleFits(q) ==
    /\ op[q] \in RuleOps /\ "enabled" \in DOMAIN set[q] => set[q].enabled \in BOOLEAN
    /\ op[q] = "switch_off" =>
          /\ "enabled" \in DOMAIN set[q] => ~set[q].enabled
          /\ "status" \in DOMAIN set[q] => set[q].status # "ACTIVE"
          /\ seen[q].enabled => "enabled" \in DOMAIN set[q]

RuleInv == (\A q \in Thread : RuleFits(q)) /\ row.rule.enabled \in BOOLEAN /\ OffHolds

\* A connection writes its own owner, or finds him there; alone it leaves the account
\* active, and a disconnection leaves it without a credential.
AccountFits(q) ==
    /\ op[q] = "connect" =>
          /\ who[q] \in Owner
          /\ IF "owner" \in DOMAIN set[q] THEN set[q].owner = who[q]
             ELSE row.account.owner = who[q]
          /\ IF "active" \in DOMAIN set[q] THEN set[q].active ELSE seen[q].active
    /\ op[q] = "disconnect" =>
          /\ "owner" \notin DOMAIN set[q]
          /\ IF "credential" \in DOMAIN set[q] THEN ~set[q].credential ELSE ~seen[q].credential
    /\ op[q] \in AccountOps =>
          /\ "active" \in DOMAIN set[q] => set[q].active \in BOOLEAN
          /\ "credential" \in DOMAIN set[q] => set[q].credential \in BOOLEAN

AccountInv ==
    /\ \A q \in Thread : AccountFits(q)
    /\ row.account.owner \in Owner \union {NoOwner}
    /\ row.account.active \in BOOLEAN /\ row.account.credential \in BOOLEAN
    /\ told \in [Owner -> BOOLEAN]
    /\ AccountHolds

\* What a webhook request was sent is in its hands, in its transaction or queued.
QueueInv ==
    /\ \A q \in Thread : op[q] = "webhook" => payload[q] \subseteq todo[q] \union jobs \union adding[q]
    /\ AckedIsQueued

\* The notes of a request: those of its session's copy, and the one it adds, which
\* nobody has seen.
Newest(s) == s[Len(s)]
Holding(q) == op[q] \in {"panel", "flow", "late", "tag", "copy"}
Noting(q) == op[q] \in {"panel", "flow", "late"}
NewNote(q) == Newest(set[q].notes)

Known(s) == s \in Seq(Note) /\ \A n \in Elements(s) : n.id <= drafts

NoteFits(q) ==
    /\ "notes" \in DOMAIN set[q]
    /\ NewNote(q) \in Note /\ NewNote(q).by = op[q] /\ NewNote(q).id <= drafts
    /\ set[q].notes = Last(Append(seen[q].notes, NewNote(q)))

Unseen(q) ==
    /\ NewNote(q) \notin Elements(row.lead.notes)
    /\ \A r \in Thread : Holding(r) => NewNote(q) \notin Elements(seen[r].notes)
    /\ \A r \in Thread : Noting(r) /\ r # q => NewNote(r) # NewNote(q)

\* The lead's notes since the copy was made: the same, or with a newest one it has not;
\* a flow that holds the account can have missed no note of another that held it.
Moved(q) ==
    \/ row.lead.notes = seen[q].notes
    \/ /\ row.lead.notes # << >> /\ Newest(row.lead.notes) \notin Elements(seen[q].notes)
       /\ op[q] = "flow" => Newest(row.lead.notes).by # "flow"

Copied(q) == "notes" \in DOMAIN seen[q] /\ Known(seen[q].notes) /\ Moved(q)

LeadFits(q) ==
    /\ op[q] \in {"tags", "tag"} => "notes" \notin DOMAIN set[q]
    /\ op[q] = "flow" => lock = q
    /\ Holding(q) => Copied(q)
    /\ Noting(q) => NoteFits(q) /\ Unseen(q)

LeadInv ==
    /\ \A q \in Thread : LeadFits(q)
    /\ drafts \in Nat /\ drafts <= MaxNotes
    /\ Known(row.lead.notes) /\ written \in Seq(Note)
    /\ NotesKept

PanelInv == Shape /\ TicketInv /\ RuleInv /\ AccountInv /\ QueueInv /\ LeadInv

-----------------------------------------------------------------------------
(* What the steps of each topic touch. *)

TicketStep(q) == AddMessage(q) \/ SetTicket(q) \/ SaveTicket(q) \/ SaveReply(q)
RuleStep(q)   == Toggle(q) \/ Confirm(q) \/ EditRule(q) \/ SaveRule(q)
AccountStep(q) ==
    \/ \E u \in Owner : Connect(q, u) \/ Disconnect(q, u)
    \/ SaveConnect(q) \/ ConnectFails(q) \/ SaveDisconnect(q)
LeadStep(q) ==
    \/ EditLead(q) \/ FlowLead(q) \/ LateLead(q) \/ LeadAgain(q)
    \/ SaveLead(q) \/ SaveFlow(q)
QueueStep(q) ==
    \/ \E events \in SUBSET Event \ {{}} : Deliver(q, events)
    \/ \E e \in Event : Enqueue(q, e)
    \/ Acknowledge(q)

\* The requests of the other threads, and the locks they hold.
Same(r) ==
    /\ op'[r] = op[r] /\ who'[r] = who[r] /\ seen'[r] = seen[r] /\ set'[r] = set[r]
    /\ payload'[r] = payload[r] /\ todo'[r] = todo[r] /\ adding'[r] = adding[r]
Kept(q) == \A r \in Thread \ {q} : Same(r)
LocksKept(q) == \A r \in Thread \ {q} : lock = r => lock' = r

Domains == /\ DOMAIN op = Thread /\ DOMAIN who = Thread /\ DOMAIN seen = Thread
           /\ DOMAIN set = Thread /\ DOMAIN payload = Thread /\ DOMAIN todo = Thread
           /\ DOMAIN adding = Thread

LEMMA ReadEffect ==
    ASSUME Shape, NEW q \in Thread, NEW topic, NEW o, NEW u, NEW s, Read(q, topic, o, u, s)
    PROVE  /\ op[q] = "idle" /\ op'[q] = o /\ who'[q] = u /\ seen'[q] = row[topic] /\ set'[q] = s
           /\ Kept(q) /\ Domains'
           /\ UNCHANGED <<row, jobs, provider, off, crossed, told, acked, written, raced>>
  BY DEF Shape, Read, Kept, Same, Domains

LEMMA DoneEffect ==
    ASSUME Shape, NEW q \in Thread, Done(q)
    PROVE  op'[q] = "idle" /\ Kept(q) /\ Domains' /\ LocksKept(q)
  BY DEF Shape, Done, Kept, Same, Domains, LocksKept

LEMMA SaveEffect ==
    ASSUME Shape, NEW q \in Thread, NEW t \in DOMAIN row, Save(q, t)
    PROVE  /\ row'[t] = Write(row[t], set[q]) /\ DOMAIN row' = DOMAIN row
           /\ \A x \in DOMAIN row \ {t} : row'[x] = row[x]
  BY DEF Save

LEMMA WriteShape ==
    ASSUME NEW old_, NEW s
    PROVE  /\ DOMAIN Write(old_, s) = DOMAIN old_
           /\ \A c \in DOMAIN old_ : Write(old_, s)[c] = IF c \in DOMAIN s THEN s[c] ELSE old_[c]
  BY DEF Write

\* What a request of a topic is asked to write.
LEMMA NetShape ==
    ASSUME NEW old_, NEW new
    PROVE  /\ DOMAIN Net(old_, new) \subseteq DOMAIN new
           /\ \A c \in DOMAIN new : /\ c \in DOMAIN Net(old_, new) <=> new[c] # old_[c]
                                    /\ c \in DOMAIN Net(old_, new) => Net(old_, new)[c] = new[c]
  BY DEF Net

\* The steps of a topic change the rows of that topic, and one thread.
LEMMA TicketEffect ==
    ASSUME Shape, NEW q \in Thread, TicketStep(q)
    PROVE  /\ op'[q] \in TicketOps \union {"idle"} /\ Kept(q) /\ Domains' /\ LocksKept(q)
           /\ DOMAIN row' = DOMAIN row /\ DOMAIN row'.ticket = DOMAIN row.ticket
           /\ row'.rule = row.rule /\ row'.account = row.account /\ row'.lead = row.lead
           /\ UNCHANGED <<provider, jobs, history>>
  <1>1. CASE AddMessage(q) \/ SetTicket(q)
    <2>1. PICK o \in TicketOps : \E s : Read(q, "ticket", o, NoOwner, s)
      BY <1>1 DEF AddMessage, SetTicket, TicketOps
    <2>2. UNCHANGED <<lock, drafts>>
      BY <1>1 DEF AddMessage, SetTicket
    <2> QED
      BY <2>1, <2>2, ReadEffect DEF LocksKept, history
  <1>2. CASE SaveTicket(q)
    <2>1. Save(q, "ticket") /\ Done(q) /\ UNCHANGED <<provider, jobs, history>>
      BY <1>2 DEF SaveTicket
    <2> QED
      BY <2>1, SaveEffect, WriteShape, DoneEffect DEF Shape
  <1>3. CASE SaveReply(q)
    <2>1. PICK s : row' = [row EXCEPT !.ticket = Write(@, s)]
      BY <1>3 DEF SaveReply
    <2>2. DOMAIN row'.ticket = DOMAIN row.ticket /\ DOMAIN row' = DOMAIN row
          /\ row'.rule = row.rule /\ row'.account = row.account /\ row'.lead = row.lead
      BY <2>1, WriteShape DEF Shape
    <2> QED
      BY <1>3, <2>2, DoneEffect DEF SaveReply
  <1> QED
    BY <1>1, <1>2, <1>3 DEF TicketStep

LEMMA RuleEffect ==
    ASSUME Shape, NEW q \in Thread, RuleStep(q)
    PROVE  /\ op'[q] \in RuleOps \union {"idle"} /\ Kept(q) /\ Domains' /\ LocksKept(q)
           /\ DOMAIN row' = DOMAIN row /\ DOMAIN row'.rule = DOMAIN row.rule
           /\ row'.ticket = row.ticket /\ row'.account = row.account /\ row'.lead = row.lead
           /\ UNCHANGED <<provider, jobs, crossed, told, acked, drafts, written, raced>>
  <1>1. CASE Toggle(q) \/ Confirm(q) \/ EditRule(q)
    <2>1. PICK o \in RuleOps : \E s : Read(q, "rule", o, NoOwner, s)
      BY <1>1 DEF Toggle, Confirm, EditRule, Ask, RuleOps
    <2>2. UNCHANGED <<lock, drafts>>
      BY <1>1 DEF Toggle, Confirm, EditRule
    <2> QED
      BY <2>1, <2>2, ReadEffect DEF LocksKept
  <1>2. CASE SaveRule(q)
    <2>1. /\ Save(q, "rule") /\ Done(q)
          /\ UNCHANGED <<provider, jobs, crossed, told, acked, drafts, written, raced>>
      BY <1>2 DEF SaveRule
    <2> QED
      BY <2>1, SaveEffect, WriteShape, DoneEffect DEF Shape
  <1> QED
    BY <1>1, <1>2 DEF RuleStep

LEMMA AccountEffect ==
    ASSUME Shape, NEW q \in Thread, AccountStep(q)
    PROVE  /\ op'[q] \in AccountOps \union {"idle"} /\ Kept(q) /\ Domains' /\ LocksKept(q)
           /\ DOMAIN row' = DOMAIN row /\ DOMAIN row'.account = DOMAIN row.account
           /\ row'.ticket = row.ticket /\ row'.rule = row.rule /\ row'.lead = row.lead
           /\ UNCHANGED <<provider, jobs, off, acked, drafts, written, raced>>
  <1>1. ASSUME NEW u \in Owner, Connect(q, u) \/ Disconnect(q, u)
        PROVE  \E o, s : o \in AccountOps /\ Read(q, "account", o, u, s) /\ UNCHANGED <<lock, drafts>>
    BY <1>1 DEF Connect, Disconnect, AccountOps
  <1>2. CASE \E u \in Owner : Connect(q, u) \/ Disconnect(q, u)
    <2>1. PICK o, u, s : o \in AccountOps /\ Read(q, "account", o, u, s) /\ UNCHANGED <<lock, drafts>>
      BY <1>1, <1>2
    <2> QED
      BY <2>1, ReadEffect DEF LocksKept
  <1>3. CASE SaveConnect(q) \/ SaveDisconnect(q)
    <2>1. /\ Save(q, "account") /\ Done(q)
          /\ UNCHANGED <<provider, jobs, off, acked, drafts, written, raced>>
      BY <1>3 DEF SaveConnect, SaveDisconnect
    <2> QED
      BY <2>1, SaveEffect, WriteShape, DoneEffect DEF Shape
  <1>4. CASE ConnectFails(q)
    BY <1>4, DoneEffect DEF ConnectFails, history
  <1> QED
    BY <1>2, <1>3, <1>4 DEF AccountStep

LEMMA LeadEffect ==
    ASSUME Shape, NEW q \in Thread, LeadStep(q)
    PROVE  /\ op'[q] \in LeadOps \union {"idle"} /\ Kept(q) /\ Domains'
           /\ DOMAIN row' = DOMAIN row /\ DOMAIN row'.lead = DOMAIN row.lead
           /\ row'.ticket = row.ticket /\ row'.rule = row.rule /\ row'.account = row.account
           /\ UNCHANGED <<provider, jobs, off, crossed, told, acked>>
  <1>1. CASE EditLead(q) \/ FlowLead(q) \/ LateLead(q)
    <2>1. PICK o \in LeadOps : \E s : Read(q, "lead", o, NoOwner, s)
      BY <1>1 DEF EditLead, FlowLead, LateLead, LeadAction, ReadLead, DraftNote, LeadOps
    <2> QED
      BY <2>1, ReadEffect
  <1>2. CASE SaveLead(q)
    <2>1. /\ Save(q, "lead") /\ Done(q)
          /\ UNCHANGED <<provider, jobs, off, crossed, told, acked>>
      BY <1>2 DEF SaveLead
    <2> QED
      BY <2>1, SaveEffect, WriteShape, DoneEffect DEF Shape
  <1>3. CASE LeadAgain(q)
    <2>1. /\ op'[q] \in {"tag", "late"} /\ UNCHANGED <<row, who, seen, payload, todo, adding>>
          /\ UNCHANGED <<provider, jobs, off, crossed, told, acked>>
          /\ \A r \in Thread \ {q} : op'[r] = op[r] /\ set'[r] = set[r]
          /\ DOMAIN op' = Thread /\ DOMAIN set' = Thread
      BY <1>3 DEF LeadAgain, Shape
    <2> QED
      BY <2>1 DEF Shape, Kept, Same, Domains, LeadOps
  <1>4. CASE SaveFlow(q)
    <2>1. /\ Save(q, "lead") /\ op'[q] = "copy" /\ UNCHANGED <<who, payload, todo, adding>>
          /\ UNCHANGED <<provider, jobs, off, crossed, told, acked>>
          /\ \A r \in Thread \ {q} : op'[r] = op[r] /\ seen'[r] = seen[r] /\ set'[r] = set[r]
          /\ DOMAIN op' = Thread /\ DOMAIN seen' = Thread /\ DOMAIN set' = Thread
      BY <1>4 DEF SaveFlow, Shape
    <2>2. Kept(q) /\ Domains' /\ op'[q] \in LeadOps
      BY <2>1 DEF Shape, Kept, Same, Domains, LeadOps
    <2> QED
      BY <2>1, <2>2, SaveEffect, WriteShape DEF Shape
  <1> QED
    BY <1>1, <1>2, <1>3, <1>4 DEF LeadStep

LEMMA QueueEffect ==
    ASSUME Shape, NEW q \in Thread, QueueStep(q)
    PROVE  /\ op'[q] \in {"webhook", "idle"} /\ Kept(q) /\ Domains' /\ LocksKept(q)
           /\ UNCHANGED <<row, provider, off, crossed, told, drafts, written, raced>>
  <1>1. CASE \E events \in SUBSET Event \ {{}} : Deliver(q, events)
    BY <1>1 DEF Deliver, Shape, Kept, Same, Domains, LocksKept, history
  <1>2. CASE \E e \in Event : Enqueue(q, e)
    BY <1>2 DEF Enqueue, Shape, Kept, Same, Domains, LocksKept, history
  <1>3. CASE Acknowledge(q)
    BY <1>3, DoneEffect DEF Acknowledge
  <1> QED
    BY <1>1, <1>2, <1>3 DEF QueueStep

LEMMA AbortEffect ==
    ASSUME Shape, NEW q \in Thread, Abort(q)
    PROVE  /\ op'[q] = "idle" /\ Kept(q) /\ Domains' /\ LocksKept(q)
           /\ UNCHANGED <<row, provider, jobs, history>>
  BY DoneEffect DEF Abort

-----------------------------------------------------------------------------
(* Tickets. *)

LEMMA TicketsRest ==
    ASSUME TicketInv, NEW q \in Thread, Kept(q), TicketFits(q)' PROVE TicketInv'
  <1> SUFFICES ASSUME NEW r \in Thread PROVE TicketFits(r)'
    BY DEF TicketInv
  <1>1. CASE r # q
    BY <1>1 DEF TicketInv, TicketFits, Kept, Same
  <1> QED
    BY <1>1

LEMMA TicketsKept ==
    ASSUME Shape, TicketInv, NEW q \in Thread, TicketStep(q) PROVE TicketInv'
  <1>1. Kept(q)
    BY TicketEffect
  <1>2. CASE AddMessage(q)
    <2>1. row.ticket.status # "closed"
      BY <1>2 DEF AddMessage
    <2>2. PICK o, s : Read(q, "ticket", o, NoOwner, s)
      BY <1>2 DEF AddMessage
    <2>3. seen'[q].status # "closed"
      BY <2>1, <2>2, ReadEffect
    <2> QED
      BY <1>1, <2>3, TicketsRest DEF TicketFits
  <1>3. CASE SetTicket(q)
    <2>1. PICK s \in TicketStatus :
             /\ row.ticket.status = "closed" => s = "closed"
             /\ Read(q, "ticket", "ticket", NoOwner, Net(row.ticket, [status |-> s]))
      BY <1>3 DEF SetTicket
    <2>2. op'[q] = "ticket" /\ seen'[q] = row.ticket /\ set'[q] = Net(row.ticket, [status |-> s])
      BY <2>1, ReadEffect
    <2>3. "status" \in DOMAIN Net(row.ticket, [status |-> s]) => s # row.ticket.status
      BY DEF Net
    <2> QED
      BY <1>1, <2>1, <2>2, <2>3, TicketsRest DEF TicketFits
  <1>4. CASE SaveTicket(q) \/ SaveReply(q)
    BY <1>1, <1>4, DoneEffect, TicketsRest DEF TicketFits, SaveTicket, SaveReply
  <1> QED
    BY <1>2, <1>3, <1>4 DEF TicketStep

\* A ticket comes back only by the request that read it open.
LEMMA TicketsClosed ==
    ASSUME Shape, TicketInv, NEW q \in Thread, TicketStep(q),
           row.ticket.status = "closed", row'.ticket.status # "closed"
    PROVE  op[q] \in TicketOps /\ op'[q] = "idle" /\ seen[q].status # "closed"
  <1>1. CASE AddMessage(q) \/ SetTicket(q)
    <2>1. row' = row
      BY <1>1 DEF AddMessage, SetTicket, Read
    <2> QED
      BY <2>1
  <1>2. CASE SaveTicket(q)
    <2>1. op[q] = "ticket" /\ Save(q, "ticket") /\ Done(q)
      BY <1>2 DEF SaveTicket
    <2>2. row'.ticket = Write(row.ticket, set[q])
      BY <2>1, SaveEffect DEF Shape
    <2>3. "status" \in DOMAIN set[q]
      BY <2>2, WriteShape DEF Shape
    <2> QED
      BY <2>1, <2>3, DoneEffect DEF TicketInv, TicketFits, TicketOps
  <1>3. CASE SaveReply(q)
    BY <1>3, DoneEffect DEF SaveReply, TicketInv, TicketFits, TicketOps
  <1> QED
    BY <1>1, <1>2, <1>3 DEF TicketStep

-----------------------------------------------------------------------------
(* Rules. *)

LEMMA RulesRest ==
    ASSUME RuleInv, NEW q \in Thread, Kept(q), RuleFits(q)',
           row'.rule.enabled \in BOOLEAN, OffHolds'
    PROVE  RuleInv'
  <1> SUFFICES ASSUME NEW r \in Thread PROVE RuleFits(r)'
    BY DEF RuleInv
  <1>1. CASE r # q
    BY <1>1 DEF RuleInv, RuleFits, Kept, Same
  <1> QED
    BY <1>1

\* A request to switch on.
LEMMA AsksOn ==
    ASSUME Shape, NEW q \in Thread, NEW on \in BOOLEAN, NEW s,
           Read(q, "rule", "switch_on", NoOwner, Net(row.rule, [enabled |-> on, status |-> s]))
    PROVE  RuleFits(q)'
  <1> DEFINE new == [enabled |-> on, status |-> s]
  <1>1. op'[q] = "switch_on" /\ set'[q] = Net(row.rule, new)
    BY ReadEffect
  <1>2. "enabled" \in DOMAIN Net(row.rule, new) => Net(row.rule, new).enabled \in BOOLEAN
    BY DEF Net
  <1> QED
    BY <1>1, <1>2 DEF RuleFits

\* A request to switch off, whatever the rule was when it read it.
LEMMA AsksOff ==
    ASSUME Shape, RuleInv, NEW q \in Thread, NEW s, s # "ACTIVE",
           Read(q, "rule", "switch_off", NoOwner, Net(row.rule, [enabled |-> FALSE, status |-> s]))
    PROVE  RuleFits(q)'
  <1> DEFINE new == [enabled |-> FALSE, status |-> s]
  <1>1. seen'[q] = row.rule /\ set'[q] = Net(row.rule, new)
    BY ReadEffect
  <1>2. /\ "enabled" \in DOMAIN Net(row.rule, new) =>
              Net(row.rule, new).enabled \in BOOLEAN /\ ~Net(row.rule, new).enabled
        /\ "status" \in DOMAIN Net(row.rule, new) => Net(row.rule, new).status # "ACTIVE"
    BY DEF Net
  <1>3. row.rule.enabled => "enabled" \in DOMAIN Net(row.rule, new)
    <2>1. row.rule.enabled => new["enabled"] # row.rule["enabled"]
      BY DEF RuleInv
    <2> QED
      BY <2>1 DEF Net
  <1> QED
    BY <1>1, <1>2, <1>3 DEF RuleFits

LEMMA RuleReads ==
    ASSUME Shape, RuleInv, NEW q \in Thread, Toggle(q) \/ Confirm(q) \/ EditRule(q)
    PROVE  RuleInv'
  <1>1. CASE \E on \in BOOLEAN : Read(q, "rule", Ask(on), NoOwner, Net(row.rule, Switched(on)))
    <2>1. PICK on \in BOOLEAN : Read(q, "rule", Ask(on), NoOwner, Net(row.rule, Switched(on)))
      BY <1>1
    <2>2. Kept(q) /\ op'[q] = Ask(on) /\ row' = row /\ off' = off
      BY <2>1, ReadEffect
    <2>3. CASE on
      <3>1. Ask(on) = "switch_on" /\ Switched(on) = [enabled |-> TRUE, status |-> "ACTIVE"]
        BY <2>3 DEF Ask, Switched
      <3>2. RuleFits(q)'
        BY <2>1, <3>1, AsksOn
      <3> QED
        BY <2>2, <3>2, RulesRest DEF RuleInv, OffHolds, Fires
    <2>4. CASE ~on
      <3>1. Ask(on) = "switch_off" /\ Switched(on) = [enabled |-> FALSE, status |-> "PAUSED"]
        BY <2>4 DEF Ask, Switched
      <3>2. RuleFits(q)'
        BY <2>1, <3>1, AsksOff
      <3> QED
        BY <2>2, <3>2, RulesRest DEF RuleInv, OffHolds, Fires
    <2> QED
      BY <2>3, <2>4
  <1>2. CASE EditRule(q)
    <2>1. PICK s \in RuleStatus :
             Read(q, "rule", Ask(s = "ACTIVE"), NoOwner,
                  Net(row.rule, [enabled |-> s = "ACTIVE", status |-> s]))
      BY <1>2 DEF EditRule
    <2>2. Kept(q) /\ op'[q] = Ask(s = "ACTIVE") /\ row' = row /\ off' = off
      BY <2>1, ReadEffect
    <2>3. CASE s = "ACTIVE"
      <3>1. Ask(s = "ACTIVE") = "switch_on"
        BY <2>3 DEF Ask
      <3>2. RuleFits(q)'
        BY <2>1, <3>1, AsksOn
      <3> QED
        BY <2>2, <3>2, RulesRest DEF RuleInv, OffHolds, Fires
    <2>4. CASE s # "ACTIVE"
      <3>1. Ask(s = "ACTIVE") = "switch_off" /\ (s = "ACTIVE") = FALSE
        BY <2>4 DEF Ask
      <3>2. RuleFits(q)'
        BY <2>1, <2>4, <3>1, AsksOff
      <3> QED
        BY <2>2, <3>2, RulesRest DEF RuleInv, OffHolds, Fires
    <2> QED
      BY <2>3, <2>4
  <1> QED
    BY <1>1, <1>2 DEF Toggle, Confirm

\* What switches a rule off leaves nothing that fires: alone, or over columns that
\* others have mixed but that did not fire.
LEMMA RuleSaves ==
    ASSUME Shape, RuleInv, NEW q \in Thread, SaveRule(q) PROVE RuleInv'
  <1>1. /\ op[q] \in RuleOps /\ Save(q, "rule") /\ Done(q)
        /\ off' = (op[q] = "switch_off" /\ (off \/ Clean(q, "rule")))
    BY DEF SaveRule, RuleOps
  <1>2. /\ row'.rule = Write(row.rule, set[q]) /\ op'[q] = "idle" /\ Kept(q)
    BY <1>1, SaveEffect, DoneEffect DEF Shape
  <1>3. /\ row'.rule.enabled = IF "enabled" \in DOMAIN set[q] THEN set[q].enabled ELSE row.rule.enabled
        /\ row'.rule.status = IF "status" \in DOMAIN set[q] THEN set[q].status ELSE row.rule.status
    BY <1>2, WriteShape DEF Shape
  <1>4. row.rule.enabled \in BOOLEAN /\ RuleFits(q) /\ OffHolds
    BY DEF RuleInv
  <1>5. row'.rule.enabled \in BOOLEAN
    BY <1>1, <1>3, <1>4 DEF RuleFits
  <1>6. RuleFits(q)'
    BY <1>2 DEF RuleFits, RuleOps
  <1>7. OffHolds'
    <2> SUFFICES ASSUME off', Fires' PROVE FALSE
      BY DEF OffHolds
    <2>1. /\ op[q] = "switch_off" /\ (off \/ Clean(q, "rule"))
          /\ row'.rule.enabled /\ row'.rule.status = "ACTIVE"
      BY <1>1 DEF Fires
    <2>2. /\ "enabled" \notin DOMAIN set[q] /\ row.rule.enabled
          /\ "status" \notin DOMAIN set[q] /\ row.rule.status = "ACTIVE"
      BY <1>3, <1>4, <2>1 DEF RuleFits
    <2>3. CASE off
      BY <1>4, <2>2, <2>3 DEF OffHolds, Fires
    <2>4. CASE Clean(q, "rule")
      BY <1>4, <2>1, <2>2, <2>4 DEF RuleFits, Clean
    <2> QED
      BY <2>1, <2>3, <2>4
  <1> QED
    BY <1>2, <1>5, <1>6, <1>7, RulesRest

LEMMA RulesKept ==
    ASSUME Shape, RuleInv, NEW q \in Thread, RuleStep(q) PROVE RuleInv'
  BY RuleReads, RuleSaves DEF RuleStep

-----------------------------------------------------------------------------
(* Accounts. *)

\* The requests of the others, while the account has the owner they found or none.
LEMMA AccountsRest ==
    ASSUME AccountInv, NEW q \in Thread, Kept(q), AccountFits(q)',
           row.account.owner # NoOwner => row'.account.owner = row.account.owner,
           row'.account.owner \in Owner \union {NoOwner},
           row'.account.active \in BOOLEAN, row'.account.credential \in BOOLEAN,
           told' \in [Owner -> BOOLEAN], AccountHolds'
    PROVE  AccountInv'
  <1> SUFFICES ASSUME NEW r \in Thread PROVE AccountFits(r)'
    BY DEF AccountInv
  <1>1. CASE r # q
    <2>1. AccountFits(r) /\ Same(r)
      BY <1>1 DEF AccountInv, Kept
    <2> QED
      BY <2>1, PanelAssumption DEF AccountFits, Same
  <1> QED
    BY <1>1

LEMMA Connects ==
    ASSUME Shape, AccountInv, NEW q \in Thread, NEW u \in Owner, Connect(q, u)
    PROVE  AccountInv'
  <1>1. /\ row.account.owner \in {NoOwner, u}
        /\ Read(q, "account", "connect", u, Connected(u))
    BY DEF Connect
  <1>2. /\ op'[q] = "connect" /\ who'[q] = u /\ seen'[q] = row.account /\ set'[q] = Connected(u)
        /\ Kept(q) /\ row' = row /\ told' = told /\ crossed' = crossed
    BY <1>1, ReadEffect
  <1>3. row.account.active \in BOOLEAN /\ provider \in {"instagram", "boxapi"} /\ u # NoOwner
    BY PanelAssumption DEF AccountInv, Shape
  <1>4. CASE row.account.owner = NoOwner
    <2>1. Connected(u) = [owner |-> u, active |-> TRUE, credential |-> provider = "instagram"]
      BY <1>4 DEF Connected
    <2>2. AccountFits(q)'
      BY <1>2, <2>1 DEF AccountFits
    <2> QED
      BY <1>2, <2>2, AccountsRest DEF AccountInv, AccountHolds
  <1>5. CASE row.account.owner = u /\ provider = "boxapi"
    <2>1. Connected(u) = Net(row.account, [active |-> TRUE])
      BY <1>3, <1>5 DEF Connected
    <2>2. /\ "owner" \notin DOMAIN Connected(u) /\ "credential" \notin DOMAIN Connected(u)
          /\ "active" \in DOMAIN Connected(u) => Connected(u).active = TRUE
          /\ "active" \notin DOMAIN Connected(u) => row.account.active
      BY <1>3, <2>1 DEF Net
    <2>3. AccountFits(q)'
      BY <1>2, <1>5, <2>2 DEF AccountFits
    <2> QED
      BY <1>2, <2>3, AccountsRest DEF AccountInv, AccountHolds
  <1>6. CASE row.account.owner = u /\ provider = "instagram"
    <2>1. Connected(u) = IF row.account.active THEN [credential |-> TRUE]
                         ELSE [active |-> TRUE, credential |-> TRUE]
      BY <1>3, <1>6 DEF Connected
    <2>2. AccountFits(q)'
      BY <1>2, <1>3, <1>6, <2>1 DEF AccountFits
    <2> QED
      BY <1>2, <2>2, AccountsRest DEF AccountInv, AccountHolds
  <1> QED
    BY <1>1, <1>3, <1>4, <1>5, <1>6

LEMMA Disconnects ==
    ASSUME Shape, AccountInv, NEW q \in Thread, NEW u \in Owner, Disconnect(q, u)
    PROVE  AccountInv'
  <1> DEFINE new == [active |-> FALSE, credential |-> FALSE]
  <1>1. Read(q, "account", "disconnect", u, Net(row.account, new))
    BY DEF Disconnect
  <1>2. /\ op'[q] = "disconnect" /\ seen'[q] = row.account /\ set'[q] = Net(row.account, new)
        /\ Kept(q) /\ row' = row /\ told' = told /\ crossed' = crossed
    BY <1>1, ReadEffect
  <1>3. row.account.credential \in BOOLEAN
    BY DEF AccountInv
  <1>4. /\ "owner" \notin DOMAIN Net(row.account, new)
        /\ "active" \in DOMAIN Net(row.account, new) => Net(row.account, new).active = FALSE
        /\ "credential" \in DOMAIN Net(row.account, new) => Net(row.account, new).credential = FALSE
        /\ "credential" \notin DOMAIN Net(row.account, new) => ~row.account.credential
    BY <1>3 DEF Net
  <1> HIDE DEF new
  <1>5. AccountFits(q)'
    BY <1>2, <1>4 DEF AccountFits
  <1> QED
    BY <1>2, <1>5, AccountsRest DEF AccountInv, AccountHolds

\* What is written to the account's row: no other owner, and truth values.
LEMMA AccountWrites ==
    ASSUME Shape, AccountInv, NEW q \in Thread, op[q] \in AccountOps, Save(q, "account"),
           "owner" \in DOMAIN set[q] => row.account.owner = NoOwner
    PROVE  /\ row'.account.owner = IF "owner" \in DOMAIN set[q] THEN set[q].owner
                                   ELSE row.account.owner
           /\ row'.account.active = IF "active" \in DOMAIN set[q] THEN set[q].active
                                    ELSE row.account.active
           /\ row'.account.credential = IF "credential" \in DOMAIN set[q] THEN set[q].credential
                                        ELSE row.account.credential
           /\ row.account.owner # NoOwner => row'.account.owner = row.account.owner
           /\ row'.account.owner \in Owner \union {NoOwner}
           /\ row'.account.active \in BOOLEAN /\ row'.account.credential \in BOOLEAN
  <1>1. row'.account = Write(row.account, set[q])
    BY SaveEffect DEF Shape
  <1>2. /\ row'.account.owner = IF "owner" \in DOMAIN set[q] THEN set[q].owner
                                ELSE row.account.owner
        /\ row'.account.active = IF "active" \in DOMAIN set[q] THEN set[q].active
                                 ELSE row.account.active
        /\ row'.account.credential = IF "credential" \in DOMAIN set[q] THEN set[q].credential
                                     ELSE row.account.credential
    BY <1>1, WriteShape DEF Shape
  <1>3. AccountFits(q) /\ row.account.owner \in Owner \union {NoOwner}
        /\ row.account.active \in BOOLEAN /\ row.account.credential \in BOOLEAN
    BY DEF AccountInv
  <1>4. row'.account.active \in BOOLEAN /\ row'.account.credential \in BOOLEAN
    BY <1>2, <1>3 DEF AccountFits
  <1>5. "owner" \in DOMAIN set[q] => set[q].owner \in Owner
    BY <1>3 DEF AccountFits, AccountOps
  <1> QED
    BY <1>2, <1>3, <1>4, <1>5

LEMMA ConnectSaves ==
    ASSUME Shape, AccountInv, NEW q \in Thread, SaveConnect(q) PROVE AccountInv'
  <1>1. /\ op[q] = "connect" /\ Save(q, "account") /\ Done(q)
        /\ "owner" \in DOMAIN set[q] => row.account.owner = NoOwner
        /\ told' = [told EXCEPT ![who[q]] = TRUE] /\ crossed' = (~Clean(q, "account"))
    BY DEF SaveConnect
  <1>2. Kept(q) /\ AccountFits(q)'
    BY <1>1, DoneEffect DEF AccountFits, AccountOps
  <1>3. AccountFits(q) /\ who[q] \in Owner /\ told \in [Owner -> BOOLEAN]
    BY <1>1 DEF AccountInv, AccountFits
  <1>4. row'.account.owner = who[q]
    BY <1>1, <1>3, AccountWrites DEF AccountFits, AccountOps
  <1>5. \A u \in Owner : told'[u] => row'.account.owner = u
    <2> SUFFICES ASSUME NEW u \in Owner, told'[u] PROVE who[q] = u
      BY <1>4
    <2>1. CASE u # who[q]
      <3>1. row.account.owner = u
        BY <1>1, <1>3, <2>1 DEF AccountInv, AccountHolds
      <3> QED
        BY <1>1, <1>3, <2>1, <3>1, PanelAssumption DEF AccountFits
    <2> QED
      BY <2>1
  <1>6. row'.account.credential => row'.account.active \/ crossed'
    <2> SUFFICES ASSUME Clean(q, "account") PROVE row'.account.active
      BY <1>1
    <2>1. seen[q].active = row.account.active
      BY DEF Clean
    <2> QED
      BY <1>1, <1>3, <2>1, AccountWrites DEF AccountFits, AccountOps
  <1>7. told' \in [Owner -> BOOLEAN]
    BY <1>1, <1>3
  <1>8. AccountHolds'
    BY <1>5, <1>6 DEF AccountHolds
  <1> QED
    BY <1>1, <1>2, <1>7, <1>8, AccountWrites, AccountsRest DEF AccountOps

LEMMA DisconnectSaves ==
    ASSUME Shape, AccountInv, NEW q \in Thread, SaveDisconnect(q) PROVE AccountInv'
  <1>1. /\ op[q] = "disconnect" /\ Save(q, "account") /\ Done(q)
        /\ told' = told /\ crossed' = (~Clean(q, "account"))
    BY DEF SaveDisconnect
  <1>2. Kept(q) /\ AccountFits(q)'
    BY <1>1, DoneEffect DEF AccountFits, AccountOps
  <1>3. AccountFits(q) /\ "owner" \notin DOMAIN set[q]
    BY <1>1 DEF AccountInv, AccountFits
  <1>4. row'.account.owner = row.account.owner
    BY <1>1, <1>3, AccountWrites DEF AccountOps
  <1>5. row'.account.credential => row'.account.active \/ crossed'
    <2> SUFFICES ASSUME Clean(q, "account") PROVE ~row'.account.credential
      BY <1>1
    <2>1. seen[q].credential = row.account.credential
      BY DEF Clean
    <2> QED
      BY <1>1, <1>3, <2>1, AccountWrites DEF AccountFits, AccountOps
  <1>6. AccountHolds'
    BY <1>1, <1>4, <1>5 DEF AccountInv, AccountHolds
  <1> QED
    BY <1>1, <1>2, <1>3, <1>6, AccountWrites, AccountsRest DEF AccountOps, AccountInv

LEMMA AccountsKept ==
    ASSUME Shape, AccountInv, NEW q \in Thread, AccountStep(q) PROVE AccountInv'
  <1>1. CASE ConnectFails(q)
    BY <1>1, DoneEffect, AccountsRest
    DEF ConnectFails, AccountFits, AccountOps, AccountInv, AccountHolds, history
  <1> QED
    BY <1>1, Connects, Disconnects, ConnectSaves, DisconnectSaves DEF AccountStep

-----------------------------------------------------------------------------
(* The webhook's queue. *)

LEMMA QueuesRest ==
    ASSUME QueueInv, NEW q \in Thread, Kept(q), jobs \subseteq jobs', acked' \subseteq jobs',
           op'[q] = "webhook" => payload'[q] \subseteq todo'[q] \union jobs' \union adding'[q]
    PROVE  QueueInv'
  <1> SUFFICES ASSUME NEW r \in Thread, op'[r] = "webhook"
               PROVE  payload'[r] \subseteq todo'[r] \union jobs' \union adding'[r]
    BY DEF QueueInv, AckedIsQueued
  <1>1. CASE r # q
    <2>1. Same(r)
      BY <1>1 DEF Kept
    <2>2. payload[r] \subseteq todo[r] \union jobs \union adding[r]
      BY <2>1 DEF QueueInv, Same
    <2> QED
      BY <2>1, <2>2 DEF Same
  <1> QED
    BY <1>1

LEMMA QueuesKept ==
    ASSUME Shape, QueueInv, NEW q \in Thread, QueueStep(q) PROVE QueueInv'
  <1>1. Kept(q) /\ acked \subseteq jobs
    BY QueueEffect DEF QueueInv, AckedIsQueued
  <1>2. ASSUME NEW events \in SUBSET Event \ {{}}, Deliver(q, events) PROVE QueueInv'
    <2>1. jobs' = jobs /\ acked' = acked /\ payload'[q] = events /\ todo'[q] = events
      BY <1>2 DEF Deliver, Shape, history
    <2> QED
      BY <1>1, <2>1, QueuesRest
  <1>3. ASSUME NEW e \in Event, Enqueue(q, e) PROVE QueueInv'
    <2>1. /\ op[q] = "webhook" /\ jobs' = jobs /\ acked' = acked /\ payload' = payload
          /\ todo'[q] = todo[q] \ {e}
          /\ adding'[q] = IF e \in jobs THEN adding[q] ELSE adding[q] \union {e}
      BY <1>3 DEF Enqueue, Shape, history
    <2>2. payload[q] \subseteq todo[q] \union jobs \union adding[q]
      BY <2>1 DEF QueueInv
    <2> QED
      BY <1>1, <2>1, <2>2, QueuesRest
  <1>4. CASE Acknowledge(q)
    <2>1. /\ op[q] = "webhook" /\ todo[q] = {} /\ Done(q)
          /\ jobs' = jobs \union adding[q] /\ acked' = acked \union payload[q]
      BY <1>4 DEF Acknowledge
    <2>2. payload[q] \subseteq jobs \union adding[q]
      BY <2>1 DEF QueueInv
    <2> QED
      BY <1>1, <2>1, <2>2, DoneEffect, QueuesRest
  <1> QED
    BY <1>2, <1>3, <1>4 DEF QueueStep

-----------------------------------------------------------------------------
(* The newest notes. *)

LEMMA LastIs ==
    ASSUME NEW S, NEW s \in Seq(S)
    PROVE  /\ Last(s) \in Seq(S)
           /\ Len(Last(s)) = IF Len(s) <= NotesKeptPerLead THEN Len(s) ELSE NotesKeptPerLead
           /\ \A i \in 1..Len(Last(s)) : Last(s)[i] = s[Len(s) - Len(Last(s)) + i]
  <1>1. NotesKeptPerLead \in Nat \ {0} /\ Len(s) \in Nat
    BY PanelAssumption
  <1>2. CASE Len(s) <= NotesKeptPerLead
    BY <1>1, <1>2 DEF Last
  <1>3. CASE Len(s) > NotesKeptPerLead
    <2> DEFINE m == Len(s) - NotesKeptPerLead + 1
    <2>1. Last(s) = SubSeq(s, m, Len(s)) /\ m \in 1..Len(s)
      BY <1>1, <1>3 DEF Last
    <2>2. Last(s) \in Seq(S) /\ Len(Last(s)) = NotesKeptPerLead
      BY <1>1, <1>3, <2>1
    <2>3. \A i \in 1..NotesKeptPerLead : Last(s)[i] = s[m + i - 1]
      BY <1>1, <1>3, <2>1
    <2> QED
      BY <1>1, <1>3, <2>2, <2>3
  <1> QED
    BY <1>1, <1>2, <1>3

LEMMA AppendIs ==
    ASSUME NEW S, NEW s \in Seq(S), NEW n \in S
    PROVE  /\ Append(s, n) \in Seq(S) /\ Len(Append(s, n)) = Len(s) + 1 /\ Len(s) \in Nat
           /\ \A i \in 1..Len(s) : Append(s, n)[i] = s[i]
           /\ Append(s, n)[Len(s) + 1] = n
  OBVIOUS

LEMMA CutIs ==
    ASSUME NEW S, NEW s \in Seq(S), NEW n \in S
    PROVE  LET c == Last(Append(s, n)) IN
           /\ c \in Seq(S)
           /\ Len(c) = IF Len(s) + 1 <= NotesKeptPerLead THEN Len(s) + 1 ELSE NotesKeptPerLead
           /\ \A i \in 1..Len(c) : c[i] = Append(s, n)[Len(s) + 1 - Len(c) + i]
  <1> DEFINE t == Append(s, n)
  <1>1. t \in Seq(S) /\ Len(t) = Len(s) + 1
    BY AppendIs
  <1> HIDE DEF t
  <1>2. /\ Last(t) \in Seq(S)
        /\ Len(Last(t)) = IF Len(t) <= NotesKeptPerLead THEN Len(t) ELSE NotesKeptPerLead
        /\ \A i \in 1..Len(Last(t)) : Last(t)[i] = t[Len(t) - Len(Last(t)) + i]
    BY <1>1, LastIs
  <1>3. Len(Last(t)) \in Nat /\ Len(s) \in Nat
    BY <1>2
  <1>4. \A i \in 1..Len(Last(t)) : Last(t)[i] = t[Len(s) + 1 - Len(Last(t)) + i]
    BY <1>1, <1>2, <1>3
  <1>5. Len(Last(t)) = IF Len(s) + 1 <= NotesKeptPerLead THEN Len(s) + 1 ELSE NotesKeptPerLead
    BY <1>1, <1>2
  <1> QED
    BY <1>2, <1>4, <1>5 DEF t

\* A list with one more: its newest is the new one, and no other note is new.
LEMMA NewestIs ==
    ASSUME NEW S, NEW s \in Seq(S), NEW n \in S
    PROVE  /\ Last(Append(s, n)) \in Seq(S) /\ Last(Append(s, n)) # << >>
           /\ Newest(Last(Append(s, n))) = n
           /\ Elements(Last(Append(s, n))) \subseteq Elements(s) \union {n}
  <1> DEFINE l == Last(Append(s, n))
  <1>1. NotesKeptPerLead \in Nat \ {0}
    BY PanelAssumption
  <1>2. /\ l \in Seq(S)
        /\ Len(l) = IF Len(s) + 1 <= NotesKeptPerLead THEN Len(s) + 1 ELSE NotesKeptPerLead
        /\ \A i \in 1..Len(l) : l[i] = Append(s, n)[Len(s) + 1 - Len(l) + i]
    BY CutIs
  <1> HIDE DEF l
  <1>3. Len(l) \in 1..(Len(s) + 1) /\ Len(s) \in Nat
    BY <1>1, <1>2
  <1>4. Newest(l) = n
    BY <1>2, <1>3, AppendIs DEF Newest
  <1>5. ASSUME NEW i \in 1..Len(l) PROVE l[i] \in Elements(s) \union {n}
    <2> DEFINE k == Len(s) + 1 - Len(l) + i
    <2>1. k \in 1..Len(s) \/ k = Len(s) + 1
      BY <1>3
    <2>2. l[i] = Append(s, n)[k]
      BY <1>2
    <2> HIDE DEF k
    <2>3. CASE k \in 1..Len(s)
      BY <2>2, <2>3, AppendIs DEF Elements
    <2>4. CASE k = Len(s) + 1
      BY <2>2, <2>4, AppendIs
    <2> QED
      BY <2>1, <2>3, <2>4
  <1>6. Elements(l) \subseteq Elements(s) \union {n}
    BY <1>2, <1>5 DEF Elements
  <1> QED
    BY <1>2, <1>3, <1>4, <1>6 DEF l

\* Cutting a list before adding to it, or after, leaves the same.
LEMMA CutTwice ==
    ASSUME NEW S, NEW s \in Seq(S), NEW n \in S
    PROVE  Last(Append(Last(s), n)) = Last(Append(s, n))
  <1> DEFINE l == Last(s)
             a == Last(Append(l, n))
             b == Last(Append(s, n))
             K == NotesKeptPerLead
  <1>1. K \in Nat \ {0} /\ Len(s) \in Nat
    BY PanelAssumption
  <1>2. /\ l \in Seq(S) /\ Len(l) = IF Len(s) <= K THEN Len(s) ELSE K
        /\ \A i \in 1..Len(l) : l[i] = s[Len(s) - Len(l) + i]
    BY LastIs
  <1> HIDE DEF l, K
  <1>3. /\ a \in Seq(S) /\ Len(a) = IF Len(l) + 1 <= K THEN Len(l) + 1 ELSE K
        /\ \A i \in 1..Len(a) : a[i] = Append(l, n)[Len(l) + 1 - Len(a) + i]
    <2>1. l \in Seq(S)
      BY <1>2
    <2> QED
      BY <2>1, CutIs DEF K
  <1>4. /\ b \in Seq(S) /\ Len(b) = IF Len(s) + 1 <= K THEN Len(s) + 1 ELSE K
        /\ \A i \in 1..Len(b) : b[i] = Append(s, n)[Len(s) + 1 - Len(b) + i]
    BY CutIs DEF K
  <1> HIDE DEF a, b
  <1>5. Len(a) = Len(b) /\ Len(a) \in Nat
    BY <1>1, <1>2, <1>3, <1>4
  <1>6. ASSUME NEW i \in 1..Len(a) PROVE a[i] = b[i]
    <2>1. Len(a) <= Len(l) + 1 /\ Len(l) <= Len(s) /\ Len(l) \in Nat
      BY <1>1, <1>2, <1>3
    <2>2. CASE i = Len(a)
      <3>1. a[i] = Append(l, n)[Len(l) + 1] /\ b[i] = Append(s, n)[Len(s) + 1]
        <4>1. Len(l) + 1 - Len(a) + i = Len(l) + 1 /\ Len(s) + 1 - Len(b) + i = Len(s) + 1
          BY <1>1, <1>5, <2>1, <2>2
        <4> QED
          BY <1>3, <1>4, <1>5, <4>1
      <3> QED
        BY <1>2, <3>1, AppendIs
    <2>3. CASE i < Len(a)
      <3> DEFINE j == Len(l) + 1 - Len(a) + i
                 k == Len(s) + 1 - Len(a) + i
      <3>1. j \in 1..Len(l) /\ k \in 1..Len(s) /\ k = Len(s) - Len(l) + j
        BY <1>1, <1>5, <2>1, <2>3
      <3>2. a[i] = Append(l, n)[j] /\ b[i] = Append(s, n)[k]
        BY <1>3, <1>4, <1>5
      <3> HIDE DEF j, k
      <3>3. Append(l, n)[j] = l[j] /\ Append(s, n)[k] = s[k]
        BY <1>2, <3>1, AppendIs
      <3>4. l[j] = s[Len(s) - Len(l) + j]
        BY <1>2, <3>1
      <3> QED
        BY <3>1, <3>2, <3>3, <3>4
    <2> QED
      BY <1>5, <2>2, <2>3
  <1>7. a = b
    BY <1>3, <1>4, <1>5, <1>6, SeqEqual
  <1> QED
    BY <1>7 DEF a, b, l

-----------------------------------------------------------------------------
(* Leads. *)

\* The notes of a list are the values of its places.
LEMMA NewestIn ==
    ASSUME NEW S, NEW s \in Seq(S), s # << >>
    PROVE  Newest(s) \in Elements(s)
  <1>1. Len(s) \in DOMAIN s
    <2>1. Len(s) \in Nat \ {0}
      BY EmptySeq
    <2> QED
      BY <2>1
  <1> QED
    BY <1>1 DEF Newest, Elements

\* Steps that change no note and start none; a copy they leave is one they found or made.
LEMMA LeadsRest ==
    ASSUME LeadInv, NEW q \in Thread, Kept(q), LocksKept(q),
           row'.lead.notes = row.lead.notes, UNCHANGED <<drafts, written, raced>>,
           ~Noting(q)', op'[q] \in {"tags", "tag"} => "notes" \notin DOMAIN set'[q],
           Holding(q)' => /\ "notes" \in DOMAIN seen'[q]
                          /\ \/ seen'[q].notes = row.lead.notes
                             \/ Holding(q) /\ seen'[q].notes = seen[q].notes
    PROVE  LeadInv'
  <1>1. \A x \in Thread \ {q} : /\ LeadFits(x) /\ Same(x) /\ (lock = x => lock' = x)
                                 /\ Holding(x)' = Holding(x) /\ Noting(x)' = Noting(x)
    BY DEF LeadInv, Kept, LocksKept, Same, Holding, Noting
  <1>2. LeadFits(q)'
    <2>1. ASSUME Holding(q)' PROVE Copied(q)'
      <3>1. CASE seen'[q].notes = row.lead.notes
        BY <2>1, <3>1 DEF Copied, Moved, Known, Elements, LeadInv
      <3>2. CASE Holding(q) /\ seen'[q].notes = seen[q].notes
        BY <2>1, <3>2 DEF Copied, Moved, Known, Elements, Newest, LeadInv, LeadFits, Noting
      <3> QED
        BY <2>1, <3>1, <3>2
    <2> QED
      BY <2>1 DEF LeadFits, Noting
  <1>3. ASSUME NEW r \in Thread \ {q} PROVE LeadFits(r)'
    <2>1. ASSUME Holding(r) PROVE Copied(r)'
      BY <1>1, <2>1 DEF LeadFits, Copied, Same, Known, Moved, Newest, Elements
    <2>2. ASSUME Noting(r) PROVE NoteFits(r)' /\ Unseen(r)'
      <3>1. NoteFits(r) /\ Unseen(r) /\ Same(r)
        BY <1>1, <2>2 DEF LeadFits
      <3>2. NoteFits(r)' /\ NewNote(r)' = NewNote(r)
        BY <3>1 DEF Same, NoteFits, NewNote, Newest
      <3>3. NewNote(r) \notin Elements(row'.lead.notes)
        BY <3>1 DEF Unseen
      <3>4. ASSUME NEW x \in Thread, Holding(x)' PROVE NewNote(r) \notin Elements(seen'[x].notes)
        <4>1. CASE x = q
          BY <3>1, <3>4, <4>1 DEF Unseen
        <4>2. CASE x # q
          BY <1>1, <3>1, <3>4, <4>2 DEF Unseen, Same
        <4> QED
          BY <4>1, <4>2
      <3>5. ASSUME NEW x \in Thread, Noting(x)', x # r PROVE NewNote(x)' # NewNote(r)
        <4>1. x # q /\ Noting(x) /\ Same(x)
          BY <1>1, <3>5
        <4>2. NewNote(x)' = NewNote(x)
          BY <4>1 DEF Same, NewNote, Newest
        <4> QED
          BY <3>1, <3>5, <4>1, <4>2 DEF Unseen
      <3> QED
        BY <3>2, <3>3, <3>4, <3>5 DEF Unseen, Elements, NewNote, Newest
    <2> QED
      BY <1>1, <2>1, <2>2 DEF LeadFits, Same
  <1>4. Known(row.lead.notes)' /\ NotesKept'
    BY DEF LeadInv, Known, NotesKept, Elements, Last
  <1> QED
    BY <1>2, <1>3, <1>4 DEF LeadInv

\* A request that drafts a note on the lead as it is, or on its session's copy of it:
\* nobody has seen the note.
LEMMA NoteDrafted ==
    ASSUME LeadInv, NEW q \in Thread, NEW by \in {"panel", "flow", "late"}, NEW s,
           \/ s = row.lead.notes
           \/ Holding(q) /\ s = seen[q].notes /\ by # "flow",
           drafts < MaxNotes, drafts' = drafts + 1, UNCHANGED <<row, written, raced>>,
           Kept(q), LocksKept(q), by = "flow" => lock' = q,
           op'[q] = by, "notes" \in DOMAIN seen'[q], seen'[q].notes = s,
           "notes" \in DOMAIN set'[q], set'[q].notes = WithNote(s, by)
    PROVE  LeadInv'
  <1> DEFINE n == [by |-> by, id |-> drafts + 1]
             w == Last(Append(s, n))
  <1>1. drafts \in Nat /\ MaxNotes \in Nat /\ Known(row.lead.notes) /\ Known(s)
    BY PanelAssumption DEF LeadInv, LeadFits, Copied
  <1>2. n \in Note /\ n.by = by /\ n.id = drafts + 1
    BY <1>1 DEF Note
  <1>3. \A l : Known(l) => n \notin Elements(l)
    BY <1>1, <1>2 DEF Known
  <1>4. s \in Seq(Note) /\ WithNote(s, by) = w
    BY <1>1 DEF Known, WithNote
  <1> HIDE DEF n, w
  <1>5. w \in Seq(Note) /\ w # << >> /\ Newest(w) = n
    BY <1>2, <1>4, NewestIs DEF w
  <1>6. NewNote(q)' = n
    BY <1>4, <1>5 DEF NewNote, Newest
  <1>7. ASSUME NEW l, Known(l) PROVE Known(l)'
    <2>1. l \in Seq(Note) /\ \A m \in Elements(l) : m \in Note /\ m.id <= drafts
      BY <1>7 DEF Known, Elements
    <2>2. \A m \in Elements(l) : m.id <= drafts + 1
      BY <1>1, <2>1 DEF Note
    <2> QED
      BY <2>1, <2>2 DEF Known, Elements
  <1>8. \A x \in Thread \ {q} : /\ LeadFits(x) /\ Same(x) /\ (lock = x => lock' = x)
                                 /\ Holding(x)' = Holding(x) /\ Noting(x)' = Noting(x)
    BY DEF LeadInv, Kept, LocksKept, Same, Holding, Noting
  <1>9. ASSUME NEW x \in Thread, Holding(x)'
        PROVE  n \notin Elements(seen'[x].notes)
    <2>1. CASE x = q
      BY <1>1, <1>3, <2>1
    <2>2. CASE x # q
      <3>1. Known(seen[x].notes) /\ Same(x)
        BY <1>8, <1>9, <2>2 DEF LeadFits, Copied
      <3> QED
        BY <1>3, <3>1 DEF Same
    <2> QED
      BY <2>1, <2>2
  <1>10. ASSUME NEW x \in Thread \ {q}, Noting(x)
         PROVE  /\ NoteFits(x) /\ Unseen(x) /\ Same(x)
                /\ NewNote(x)' = NewNote(x) /\ NewNote(x) # n
    <2>1. NoteFits(x) /\ Unseen(x) /\ Same(x)
      BY <1>8, <1>10 DEF LeadFits
    <2>2. NewNote(x)' = NewNote(x)
      BY <2>1 DEF NewNote, Newest, Same
    <2>3. NewNote(x) \in Note /\ NewNote(x).id <= drafts
      BY <2>1 DEF NoteFits
    <2>4. NewNote(x) # n
      BY <1>1, <1>2, <2>3 DEF Note
    <2> QED
      BY <2>1, <2>2, <2>4
  <1>11. LeadFits(q)'
    <2>1. Copied(q)'
      <3>1. Known(seen[q].notes)'
        BY <1>1, <1>7 DEF Known, Elements
      <3>2. Moved(q)'
        <4>1. CASE s = row.lead.notes
          BY <4>1 DEF Moved
        <4>2. CASE Holding(q) /\ s = seen[q].notes /\ by # "flow"
          BY <4>2 DEF LeadInv, LeadFits, Copied, Moved, Newest, Elements
        <4> QED
          BY <4>1, <4>2
      <3> QED
        BY <3>1, <3>2 DEF Copied
    <2>2. NoteFits(q)'
      BY <1>1, <1>2, <1>4, <1>6 DEF NoteFits, w
    <2>3. Unseen(q)'
      <3>1. n \notin Elements(row'.lead.notes)
        BY <1>1, <1>3
      <3>2. ASSUME NEW x \in Thread, Noting(x)', x # q PROVE NewNote(x)' # n
        BY <1>8, <1>10, <3>2
      <3> QED
        BY <1>6, <1>9, <3>1, <3>2 DEF Unseen, Elements, NewNote, Newest
    <2> QED
      BY <2>1, <2>2, <2>3 DEF LeadFits
  <1>12. ASSUME NEW r \in Thread \ {q} PROVE LeadFits(r)'
    <2>1. ASSUME Holding(r) PROVE Copied(r)'
      <3>1. Copied(r) /\ Same(r)
        BY <1>8, <2>1 DEF LeadFits
      <3>2. Known(seen[r].notes)'
        BY <1>7, <3>1 DEF Copied, Same, Known, Elements
      <3> QED
        BY <3>1, <3>2 DEF Copied, Same, Moved, Newest, Elements
    <2>2. ASSUME Noting(r) PROVE NoteFits(r)' /\ Unseen(r)'
      <3>1. /\ NoteFits(r) /\ Unseen(r) /\ Same(r)
            /\ NewNote(r)' = NewNote(r) /\ NewNote(r) # n
        BY <1>10, <2>2
      <3>2. NewNote(r) \in Note /\ NewNote(r).id <= drafts
        BY <3>1 DEF NoteFits
      <3>3. NewNote(r).id <= drafts'
        BY <1>1, <3>2 DEF Note
      <3>4. NoteFits(r)'
        BY <3>1, <3>3 DEF NoteFits, Same
      <3>5. NewNote(r) \notin Elements(s)
        BY <3>1 DEF Unseen
      <3>6. ASSUME NEW x \in Thread, Holding(x)' PROVE NewNote(r) \notin Elements(seen'[x].notes)
        <4>1. CASE x = q
          BY <3>5, <4>1
        <4>2. CASE x # q
          BY <1>8, <3>1, <3>6, <4>2 DEF Unseen, Same
        <4> QED
          BY <4>1, <4>2
      <3>7. ASSUME NEW x \in Thread, Noting(x)', x # r PROVE NewNote(x)' # NewNote(r)
        <4>1. CASE x = q
          BY <1>6, <3>1, <4>1
        <4>2. CASE x # q
          BY <1>8, <1>10, <3>1, <3>7, <4>2 DEF Unseen
        <4> QED
          BY <4>1, <4>2
      <3>8. NewNote(r) \notin Elements(row'.lead.notes)
        BY <3>1 DEF Unseen
      <3> QED
        BY <3>1, <3>4, <3>6, <3>7, <3>8 DEF Unseen, Elements, NewNote, Newest
    <2> QED
      BY <1>8, <2>1, <2>2 DEF LeadFits, Same
  <1>13. Known(row.lead.notes)' /\ NotesKept'
    BY <1>1, <1>7 DEF LeadInv, Known, Elements, NotesKept, Last
  <1> QED
    BY <1>1, <1>11, <1>12, <1>13 DEF LeadInv

\* A new note makes the notes another value, which the session writes.
LEMMA NoteWritten ==
    ASSUME NEW old_, NEW new, NEW by \in {"panel", "flow", "late"},
           drafts \in Nat, MaxNotes \in Nat, drafts < MaxNotes, Known(old_.notes),
           "notes" \in DOMAIN new, new.notes = WithNote(old_.notes, by)
    PROVE  "notes" \in DOMAIN Net(old_, new) /\ Net(old_, new).notes = new.notes
  <1> DEFINE n == [by |-> by, id |-> drafts + 1]
  <1>1. n \in Note /\ n.id = drafts + 1
    BY DEF Note
  <1>2. n \notin Elements(old_.notes) /\ old_.notes \in Seq(Note)
    BY <1>1 DEF Known
  <1>3. new.notes = Last(Append(old_.notes, n))
    BY DEF WithNote
  <1> HIDE DEF n
  <1>4. new.notes \in Seq(Note) /\ new.notes # << >> /\ Newest(new.notes) = n
    BY <1>1, <1>2, <1>3, NewestIs
  <1>5. new.notes # old_.notes
    BY <1>2, <1>4, NewestIn
  <1> QED
    BY <1>5, NetShape

LEMMA LeadReads ==
    ASSUME Shape, LeadInv, NEW q \in Thread,
           EditLead(q) \/ FlowLead(q) \/ LateLead(q) \/ LeadAgain(q)
    PROVE  LeadInv'
  <1>1. ASSUME NEW o \in {"tags", "tag"}, NEW new, DOMAIN new = {"tags"},
               ReadLead(q, o, new), LocksKept(q)
        PROVE  LeadInv'
    <2>1. /\ op'[q] = o /\ seen'[q] = row.lead /\ set'[q] = Net(row.lead, new) /\ Kept(q)
          /\ drafts' = drafts /\ UNCHANGED <<row, written, raced>>
      BY <1>1, ReadEffect DEF ReadLead
    <2>2. "notes" \notin DOMAIN Net(row.lead, new) /\ "notes" \in DOMAIN row.lead
      BY <1>1, NetShape DEF Shape
    <2> QED
      BY <1>1, <2>1, <2>2, LeadsRest DEF Noting, Holding
  <1>2. drafts \in Nat /\ MaxNotes \in Nat /\ Known(row.lead.notes)
    BY PanelAssumption DEF LeadInv
  <1>3. ASSUME NEW by \in {"panel", "flow", "late"}, NEW s, DraftNote(q, by, s), LocksKept(q),
               by = "flow" => lock' = q
        PROVE  LeadInv'
    <2> DEFINE new == [c \in DOMAIN s \union {"notes"} |->
                           IF c = "notes" THEN WithNote(row.lead.notes, by) ELSE s[c]]
    <2>1. /\ drafts < MaxNotes /\ drafts' = drafts + 1
          /\ Read(q, "lead", by, NoOwner, Net(row.lead, new))
      BY <1>3 DEF DraftNote, Numbered
    <2>2. "notes" \in DOMAIN new /\ new.notes = WithNote(row.lead.notes, by)
      OBVIOUS
    <2> HIDE DEF new
    <2>3. /\ op'[q] = by /\ seen'[q] = row.lead /\ set'[q] = Net(row.lead, new) /\ Kept(q)
          /\ UNCHANGED <<row, written, raced>>
      BY <2>1, ReadEffect
    <2>4. "notes" \in DOMAIN set'[q] /\ set'[q].notes = WithNote(row.lead.notes, by)
      <3>1. "notes" \in DOMAIN Net(row.lead, new) /\ Net(row.lead, new).notes = new.notes
        BY <1>2, <2>1, <2>2, NoteWritten
      <3> QED
        BY <2>2, <2>3, <3>1
    <2>5. "notes" \in DOMAIN seen'[q]
      BY <2>3 DEF Shape
    <2> QED
      BY <1>3, <2>1, <2>3, <2>4, <2>5, NoteDrafted
  <1>4. CASE EditLead(q)
    <2>1. PICK tags \in {{}, {"vip"}} :
             ReadLead(q, "tags", [tags |-> tags]) \/ DraftNote(q, "panel", [tags |-> tags])
      BY <1>4 DEF EditLead
    <2>2. LocksKept(q) /\ DOMAIN [tags |-> tags] = {"tags"}
      BY <1>4 DEF EditLead, LocksKept
    <2> QED
      BY <1>1, <1>3, <2>1, <2>2
  <1>5. ASSUME NEW by \in {"flow", "late"}, LeadAction(q, by), LocksKept(q),
               by = "flow" => lock' = q
        PROVE  LeadInv'
    <2>1. DraftNote(q, by, row.lead) \/ ReadLead(q, "tag", Tagged(row.lead))
      BY <1>5 DEF LeadAction
    <2>2. DOMAIN Tagged(row.lead) = {"tags"}
      BY DEF Tagged
    <2> QED
      BY <1>1, <1>3, <1>5, <2>1, <2>2
  <1>6. CASE FlowLead(q)
    <2>1. lock = NoThread /\ lock' = q /\ LeadAction(q, "flow")
      BY <1>6 DEF FlowLead
    <2>2. LocksKept(q)
      BY <2>1, PanelAssumption DEF LocksKept
    <2> QED
      BY <1>5, <2>1, <2>2
  <1>7. CASE LateLead(q)
    BY <1>5, <1>7 DEF LateLead, LocksKept
  <1>8. CASE LeadAgain(q)
    <2>1. /\ op[q] = "copy" /\ UNCHANGED <<row, who, seen, payload, todo, adding, lock>>
          /\ UNCHANGED <<written, raced>>
      BY <1>8 DEF LeadAgain
    <2>2. Holding(q) /\ "notes" \in DOMAIN seen[q] /\ Known(seen[q].notes) /\ LocksKept(q)
      BY <2>1 DEF Holding, LeadInv, LeadFits, Copied, LocksKept
    <2>3. CASE /\ UNCHANGED drafts /\ op' = [op EXCEPT ![q] = "tag"]
               /\ set' = [set EXCEPT ![q] = Net(seen[q], Tagged(seen[q]))]
      <3>1. Kept(q) /\ op'[q] = "tag" /\ "notes" \notin DOMAIN set'[q]
        BY <2>1, <2>3, NetShape DEF Shape, Kept, Same, Tagged
      <3> QED
        BY <2>1, <2>2, <2>3, <3>1, LeadsRest DEF Noting
    <2>4. CASE /\ Numbered /\ op' = [op EXCEPT ![q] = "late"]
               /\ set' = [set EXCEPT ![q] =
                     Net(seen[q], [notes |-> WithNote(seen[q].notes, "late")])]
      <3> DEFINE new == [notes |-> WithNote(seen[q].notes, "late")]
      <3>1. "notes" \in DOMAIN new /\ new.notes = WithNote(seen[q].notes, "late")
        OBVIOUS
      <3>2. Kept(q) /\ op'[q] = "late" /\ set'[q] = Net(seen[q], new)
        BY <2>1, <2>4 DEF Shape, Kept, Same
      <3>3. drafts < MaxNotes /\ drafts' = drafts + 1
        BY <2>4 DEF Numbered
      <3> HIDE DEF new
      <3>4. "notes" \in DOMAIN set'[q] /\ set'[q].notes = WithNote(seen[q].notes, "late")
        <4>1. "notes" \in DOMAIN Net(seen[q], new) /\ Net(seen[q], new).notes = new.notes
          BY <1>2, <2>2, <3>1, <3>3, NoteWritten
        <4> QED
          BY <3>1, <3>2, <4>1
      <3> QED
        BY <2>1, <2>2, <3>2, <3>3, <3>4, NoteDrafted
    <2> QED
      BY <1>8, <2>3, <2>4 DEF LeadAgain
  <1> QED
    BY <1>4, <1>6, <1>7, <1>8

\* The note of a request is committed: for the others it is one they have not read, and
\* if the lead's notes are those it read, nothing is lost.
LEMMA NoteSaved ==
    ASSUME Shape, LeadInv, NEW q \in Thread, Noting(q), SaveLead(q) \/ SaveFlow(q)
    PROVE  LeadInv'
  <1> DEFINE n == NewNote(q)
             s == seen[q].notes
             l == row.lead.notes
             w == Last(Append(s, n))
  <1>1. Holding(q) /\ Copied(q) /\ NoteFits(q) /\ Unseen(q) /\ Known(l)
        /\ written \in Seq(Note) /\ drafts \in Nat
    BY DEF LeadInv, LeadFits, Noting, Holding
  <1>2. Save(q, "lead") /\ SaveNotes(q) /\ drafts' = drafts
    BY DEF SaveLead, SaveFlow
  <1>3. /\ written' = Append(written, n)
        /\ raced' = \/ raced
                    \/ op[q] # "flow" /\ Dropped(q) # {}
                    \/ \E m \in Dropped(q) : m.by # "flow"
    BY <1>1, <1>2 DEF SaveNotes, NoteFits, NewNote, Newest
  <1>4. n \in Note /\ n.by = op[q] /\ n.id <= drafts /\ s \in Seq(Note) /\ l \in Seq(Note)
    BY <1>1 DEF NoteFits, Copied, Known
  <1>5. set[q].notes = w /\ "notes" \in DOMAIN set[q] /\ "notes" \in DOMAIN seen[q]
    BY <1>1 DEF NoteFits, Copied
  <1>6. row'.lead.notes = w
    <2>1. row'.lead = Write(row.lead, set[q])
      BY <1>2, SaveEffect DEF Shape
    <2> QED
      BY <1>5, <2>1, WriteShape DEF Shape
  <1>7. /\ Kept(q) /\ LocksKept(q)
        /\ \/ op'[q] = "idle"
           \/ op'[q] = "copy" /\ "notes" \in DOMAIN seen'[q] /\ seen'[q].notes = w
    <2>1. CASE SaveLead(q)
      BY <2>1, DoneEffect DEF SaveLead
    <2>2. CASE SaveFlow(q)
      <3>1. /\ op' = [op EXCEPT ![q] = "copy"] /\ set' = [set EXCEPT ![q] = Unchanged]
            /\ seen' = [seen EXCEPT ![q] = Write(@, set[q])]
            /\ lock' = (IF lock = q THEN NoThread ELSE lock)
            /\ UNCHANGED <<who, payload, todo, adding>>
        BY <2>2 DEF SaveFlow
      <3>2. Kept(q) /\ LocksKept(q) /\ op'[q] = "copy" /\ seen'[q] = Write(seen[q], set[q])
        BY <3>1 DEF Shape, Kept, Same, LocksKept
      <3> QED
        BY <1>5, <3>2, WriteShape
    <2> QED
      BY <2>1, <2>2
  <1> HIDE DEF n, s, l
  <1>8. w \in Seq(Note) /\ w # << >> /\ Newest(w) = n /\ Elements(w) \subseteq Elements(s) \union {n}
    BY <1>4, NewestIs
  <1> HIDE DEF w
  <1>9. Known(w)
    BY <1>1, <1>4, <1>8 DEF Known, Copied, s
  <1>10. NotesKept'
    <2> SUFFICES ASSUME ~raced' PROVE w = Last(Append(written, n))
      BY <1>3, <1>6 DEF NotesKept, Last
    <2>1. ~raced /\ (op[q] # "flow" => Dropped(q) = {}) /\ \A m \in Dropped(q) : m.by = "flow"
      BY <1>3
    <2>2. l = Last(written)
      BY <2>1 DEF LeadInv, NotesKept, l
    <2>3. l = s
      <3> SUFFICES ASSUME l # << >>, Newest(l) \notin Elements(s),
                          op[q] = "flow" => Newest(l).by # "flow"
                   PROVE  FALSE
        BY <1>1 DEF Copied, Moved, l, s
      <3>1. Newest(l) \in Dropped(q)
        BY <1>4, NewestIn DEF Dropped, l, s
      <3> QED
        BY <2>1, <3>1
    <2> QED
      BY <1>1, <1>4, <2>2, <2>3, CutTwice DEF w
  <1>11. LeadFits(q)'
    <2>1. ASSUME Holding(q)' PROVE Copied(q)'
      <3>1. "notes" \in DOMAIN seen'[q] /\ seen'[q].notes = w
        BY <1>7, <2>1 DEF Holding
      <3> QED
        BY <1>2, <1>6, <1>9, <3>1 DEF Copied, Moved, Known, Elements
    <2> QED
      BY <1>7, <2>1 DEF LeadFits, Noting
  <1>12. \A x \in Thread \ {q} : /\ LeadFits(x) /\ Same(x) /\ (lock = x => lock' = x)
                                  /\ Holding(x)' = Holding(x) /\ Noting(x)' = Noting(x)
    BY <1>7 DEF LeadInv, Kept, LocksKept, Same, Holding, Noting
  <1>13. ASSUME NEW r \in Thread \ {q} PROVE LeadFits(r)'
    <2>1. LeadFits(r) /\ Same(r) /\ (lock = r => lock' = r)
      BY <1>12
    <2>2. ASSUME Holding(r) PROVE Copied(r)'
      <3>1. "notes" \in DOMAIN seen'[r] /\ Known(seen[r].notes)'
        BY <1>2, <2>1, <2>2 DEF LeadFits, Copied, Known, Elements, Same
      <3>2. n \notin Elements(seen[r].notes)
        BY <1>1, <2>2 DEF Unseen, n
      <3>3. op[r] = "flow" => n.by # "flow"
        <4> SUFFICES ASSUME op[r] = "flow" PROVE op[q] # "flow"
          BY <1>4
        <4> QED
          BY <2>1 DEF LeadInv, LeadFits
      <3>4. /\ row'.lead.notes # << >> /\ Newest(row'.lead.notes) \notin Elements(seen'[r].notes)
            /\ op'[r] = "flow" => Newest(row'.lead.notes).by # "flow"
        BY <1>6, <1>8, <2>1, <3>2, <3>3 DEF Same
      <3>5. Moved(r)'
        BY <3>4 DEF Moved, Newest, Elements
      <3> QED
        BY <3>1, <3>5 DEF Copied
    <2>3. ASSUME Noting(r) PROVE NoteFits(r)' /\ Unseen(r)'
      <3>1. NoteFits(r) /\ Unseen(r)
        BY <2>1, <2>3 DEF LeadFits
      <3>2. NoteFits(r)' /\ NewNote(r)' = NewNote(r)
        BY <1>2, <2>1, <3>1 DEF NoteFits, NewNote, Newest, Same
      <3>3. NewNote(r) # n /\ NewNote(r) \notin Elements(s)
        BY <1>1, <2>3, <3>1 DEF Unseen, n, s
      <3>4. NewNote(r) \notin Elements(w)
        BY <1>8, <3>3
      <3>5. ASSUME NEW x \in Thread, Holding(x)' PROVE NewNote(r) \notin Elements(seen'[x].notes)
        <4>1. CASE x = q
          BY <1>7, <3>4, <3>5, <4>1 DEF Holding
        <4>2. CASE x # q
          BY <1>12, <3>1, <3>5, <4>2 DEF Unseen, Same
        <4> QED
          BY <4>1, <4>2
      <3>6. ASSUME NEW x \in Thread, Noting(x)', x # r PROVE NewNote(x)' # NewNote(r)
        <4>1. x # q /\ Noting(x) /\ Same(x)
          BY <1>7, <1>12, <3>6 DEF Noting
        <4>2. NewNote(x)' = NewNote(x)
          BY <4>1 DEF NewNote, Newest, Same
        <4> QED
          BY <3>1, <3>6, <4>1, <4>2 DEF Unseen
      <3> QED
        BY <1>6, <3>2, <3>4, <3>5, <3>6 DEF Unseen, Elements, NewNote, Newest
    <2> QED
      BY <1>12, <2>1, <2>2, <2>3 DEF LeadFits, Same
  <1>14. written' \in Seq(Note)
    BY <1>1, <1>3, <1>4
  <1>15. Known(row.lead.notes)' /\ drafts' \in Nat /\ drafts' <= MaxNotes
    BY <1>2, <1>6, <1>9 DEF LeadInv, Known, Elements
  <1> QED
    BY <1>10, <1>11, <1>13, <1>14, <1>15 DEF LeadInv

LEMMA LeadsKept ==
    ASSUME Shape, LeadInv, NEW q \in Thread, LeadStep(q) PROVE LeadInv'
  <1>1. CASE SaveLead(q) /\ op[q] = "tags"
    <2>1. /\ Save(q, "lead") /\ Done(q) /\ UNCHANGED <<drafts, written, raced>>
          /\ "notes" \notin DOMAIN set[q]
      BY <1>1 DEF SaveLead, SaveNotes, LeadInv, LeadFits
    <2>2. row'.lead = Write(row.lead, set[q])
      BY <2>1, SaveEffect DEF Shape
    <2>3. row'.lead.notes = row.lead.notes
      BY <2>1, <2>2, WriteShape DEF Shape
    <2> QED
      BY <2>1, <2>3, DoneEffect, LeadsRest DEF Noting, Holding
  <1>2. CASE SaveFlow(q) /\ op[q] = "tag"
    <2>1. /\ Save(q, "lead") /\ UNCHANGED <<drafts, written, raced>>
          /\ "notes" \notin DOMAIN set[q]
      BY <1>2 DEF SaveFlow, SaveNotes, LeadInv, LeadFits
    <2>2. row'.lead = Write(row.lead, set[q])
      BY <2>1, SaveEffect DEF Shape
    <2>3. row'.lead.notes = row.lead.notes
      BY <2>1, <2>2, WriteShape DEF Shape
    <2>4. /\ op' = [op EXCEPT ![q] = "copy"] /\ set' = [set EXCEPT ![q] = Unchanged]
          /\ seen' = [seen EXCEPT ![q] = Write(@, set[q])]
          /\ lock' = (IF lock = q THEN NoThread ELSE lock)
          /\ UNCHANGED <<who, payload, todo, adding>>
      BY <1>2 DEF SaveFlow
    <2>5. Kept(q) /\ LocksKept(q) /\ op'[q] = "copy" /\ seen'[q] = Write(seen[q], set[q])
      BY <2>4 DEF Shape, Kept, Same, LocksKept
    <2>6. Holding(q) /\ "notes" \in DOMAIN seen[q]
      BY <1>2 DEF Holding, LeadInv, LeadFits, Copied
    <2>7. "notes" \in DOMAIN seen'[q] /\ seen'[q].notes = seen[q].notes
      BY <2>1, <2>5, <2>6, WriteShape
    <2> QED
      BY <2>1, <2>3, <2>5, <2>6, <2>7, LeadsRest DEF Noting
  <1>3. CASE (SaveLead(q) /\ op[q] # "tags") \/ (SaveFlow(q) /\ op[q] # "tag")
    BY <1>3, NoteSaved DEF SaveLead, SaveFlow, Noting
  <1> QED
    BY <1>1, <1>2, <1>3, LeadReads DEF LeadStep

-----------------------------------------------------------------------------
(* The theorems. *)

\* A request of one topic leaves the others alone.
LEMMA TopicsKept ==
    ASSUME PanelInv, NEW q \in Thread, Kept(q), Domains', DOMAIN row' = DOMAIN row,
           provider' = provider
    PROVE  /\ (\A t \in DOMAIN row : DOMAIN row'[t] = DOMAIN row[t]) => Shape'
           /\ op'[q] \notin TicketOps => TicketInv'
           /\ op'[q] \notin RuleOps /\ row'.rule = row.rule /\ off' = off => RuleInv'
           /\ op'[q] \notin AccountOps /\ row'.account = row.account
              /\ UNCHANGED <<told, crossed>> => AccountInv'
           /\ op'[q] # "webhook" /\ UNCHANGED <<jobs, acked>> => QueueInv'
           /\ op'[q] \notin LeadOps /\ row'.lead = row.lead /\ LocksKept(q)
              /\ UNCHANGED <<drafts, written, raced>> => LeadInv'
  <1> USE DEF PanelInv
  <1>1. (\A t \in DOMAIN row : DOMAIN row'[t] = DOMAIN row[t]) => Shape'
    BY DEF Shape, Domains
  <1>2. op'[q] \notin TicketOps => TicketInv'
    BY TicketsRest DEF TicketFits, TicketOps
  <1>3. op'[q] \notin RuleOps /\ row'.rule = row.rule /\ off' = off => RuleInv'
    BY RulesRest DEF RuleFits, RuleOps, RuleInv, OffHolds, Fires
  <1>4. op'[q] \notin AccountOps /\ row'.account = row.account
        /\ UNCHANGED <<told, crossed>> => AccountInv'
    BY AccountsRest DEF AccountFits, AccountOps, AccountInv, AccountHolds
  <1>5. op'[q] # "webhook" /\ UNCHANGED <<jobs, acked>> => QueueInv'
    BY QueuesRest DEF QueueInv, AckedIsQueued
  <1>6. op'[q] \notin LeadOps /\ row'.lead = row.lead /\ LocksKept(q)
        /\ UNCHANGED <<drafts, written, raced>> => LeadInv'
    BY LeadsRest DEF Noting, Holding, LeadOps
  <1> QED
    BY <1>1, <1>2, <1>3, <1>4, <1>5, <1>6

LEMMA PanelNext == ASSUME PanelInv, [Next]_vars PROVE PanelInv'
  <1> USE DEF PanelInv
  <1>1. ASSUME NEW q \in Thread, TicketStep(q) PROVE PanelInv'
    <2>1. op'[q] \notin RuleOps \union AccountOps \union LeadOps \union {"webhook"}
      BY <1>1, TicketEffect DEF TicketOps, RuleOps, AccountOps, LeadOps
    <2>2. UNCHANGED <<off, crossed, told, acked, drafts, written, raced>>
      BY <1>1, TicketEffect DEF history
    <2> QED
      BY <1>1, <2>1, <2>2, TicketEffect, TopicsKept, TicketsKept DEF Shape
  <1>2. ASSUME NEW q \in Thread, RuleStep(q) PROVE PanelInv'
    <2>1. op'[q] \notin TicketOps \union AccountOps \union LeadOps \union {"webhook"}
      BY <1>2, RuleEffect DEF TicketOps, RuleOps, AccountOps, LeadOps
    <2> QED
      BY <1>2, <2>1, RuleEffect, TopicsKept, RulesKept DEF Shape
  <1>3. ASSUME NEW q \in Thread, AccountStep(q) PROVE PanelInv'
    <2>1. op'[q] \notin TicketOps \union RuleOps \union LeadOps \union {"webhook"}
      BY <1>3, AccountEffect DEF TicketOps, RuleOps, AccountOps, LeadOps
    <2> QED
      BY <1>3, <2>1, AccountEffect, TopicsKept, AccountsKept DEF Shape
  <1>4. ASSUME NEW q \in Thread, LeadStep(q) PROVE PanelInv'
    <2>1. op'[q] \notin TicketOps \union RuleOps \union AccountOps \union {"webhook"}
      BY <1>4, LeadEffect DEF TicketOps, RuleOps, AccountOps, LeadOps
    <2> QED
      BY <1>4, <2>1, LeadEffect, TopicsKept, LeadsKept DEF Shape
  <1>5. ASSUME NEW q \in Thread, QueueStep(q) PROVE PanelInv'
    <2>1. op'[q] \notin TicketOps \union RuleOps \union AccountOps \union LeadOps
      BY <1>5, QueueEffect DEF TicketOps, RuleOps, AccountOps, LeadOps
    <2> QED
      BY <1>5, <2>1, QueueEffect, TopicsKept, QueuesKept DEF Shape
  <1>6. ASSUME NEW q \in Thread, Abort(q) PROVE PanelInv'
    <2>1. op'[q] \notin TicketOps \union RuleOps \union AccountOps \union LeadOps \union {"webhook"}
      BY <1>6, AbortEffect DEF TicketOps, RuleOps, AccountOps, LeadOps
    <2>2. UNCHANGED <<off, crossed, told, acked, drafts, written, raced>>
      BY <1>6, AbortEffect DEF history
    <2> QED
      BY <1>6, <2>1, <2>2, AbortEffect, TopicsKept DEF Shape
  <1>7. CASE UNCHANGED vars
    <2>1. Shape' /\ TicketInv' /\ RuleInv'
      BY <1>7 DEF vars, request, history, Shape, TicketInv, TicketFits, RuleInv, RuleFits, OffHolds,
         Fires
    <2>2. AccountInv' /\ QueueInv'
      BY <1>7 DEF vars, request, history, AccountInv, AccountFits, AccountHolds, QueueInv,
         AckedIsQueued
    <2>3. LeadInv'
      BY <1>7 DEF vars, request, history, LeadInv, LeadFits, Copied, Holding, Noting, Known, NoteFits, Unseen, Moved,
         NewNote, Newest, Elements, NotesKept, Last
    <2> QED
      BY <2>1, <2>2, <2>3
  <1> QED
    BY <1>1, <1>2, <1>3, <1>4, <1>5, <1>6, <1>7
    DEF Next, Begin, Proceed, TicketStep, RuleStep, AccountStep, LeadStep, QueueStep

LEMMA PanelInit == Init => PanelInv
  <1> SUFFICES ASSUME Init PROVE PanelInv
    OBVIOUS
  <1>1. Shape
    BY DEF Init, Shape
  <1>2. \A q \in Thread : op[q] = "idle"
    BY DEF Init
  <1>3. TicketInv /\ QueueInv
    BY <1>2 DEF Init, TicketInv, TicketFits, QueueInv, AckedIsQueued
  <1>4. RuleInv
    BY <1>2 DEF Init, RuleInv, RuleFits, RuleOps, OffHolds
  <1>5. AccountInv
    <2>1. /\ row.account.owner \in Owner \union {NoOwner}
          /\ row.account.active \in BOOLEAN /\ row.account.credential \in BOOLEAN
          /\ row.account.credential => row.account.active
      BY PanelAssumption DEF Init
    <2>2. told \in [Owner -> BOOLEAN] /\ \A u \in Owner : ~told[u]
      BY DEF Init
    <2> QED
      BY <1>2, <2>1, <2>2 DEF AccountInv, AccountFits, AccountOps, AccountHolds
  <1>6. LeadInv
    <2>1. row.lead.notes = << >> /\ written = << >> /\ drafts = 0
      BY DEF Init
    <2>2. << >> \in Seq(Note) /\ Len(<< >>) = 0 /\ Elements(<< >>) = {}
      BY EmptySeq DEF Elements
    <2>3. Last(<< >>) = << >>
      BY <2>2, PanelAssumption DEF Last
    <2> QED
      BY <1>2, <2>1, <2>2, <2>3, PanelAssumption DEF LeadInv, LeadFits, Holding, Noting, Known, NotesKept
  <1> QED
    BY <1>1, <1>3, <1>4, <1>5, <1>6 DEF PanelInv

\* What the rows and the requests in flight are to each other in every state.
THEOREM PanelHolds == Spec => []PanelInv
  <1>1. PanelInv /\ [Next]_vars => PanelInv'
    BY PanelNext
  <1> QED
    BY PanelInit, <1>1, PTL DEF Spec

\* A rule that was switched off, by a request no other overlapped, fires for nobody until
\* somebody asks for it to be on.
THEOREM RulesStayOff == Spec => []OffHolds
  <1>1. PanelInv => OffHolds
    BY DEF PanelInv, RuleInv
  <1> QED
    BY PanelHolds, <1>1, PTL

\* Who was told that the account is connected owns it; a disconnected account keeps no
\* credential, unless requests overlapped.
THEOREM AccountsAreOwned == Spec => []AccountHolds
  <1>1. PanelInv => AccountHolds
    BY DEF PanelInv, AccountInv
  <1> QED
    BY PanelHolds, <1>1, PTL

\* A lead keeps its newest notes in the order of their commits: flows that hold the account
\* lose none of each other's, and a note is dropped only if it, or the note written over
\* it, was of the panel (commerce.edit_lead) or of a flow past its first commit (run_flow).
THEOREM NotesStay == Spec => []NotesKept
  <1>1. PanelInv => NotesKept
    BY DEF PanelInv, LeadInv
  <1> QED
    BY PanelHolds, <1>1, PTL

\* An event BoxAPI got an acknowledgement for is queued, however deliveries of it overlap,
\* die or deadlock.
THEOREM AcksAreQueued == Spec => []AckedIsQueued
  <1>1. PanelInv => AckedIsQueued
    BY DEF PanelInv, QueueInv
  <1> QED
    BY PanelHolds, <1>1, PTL

\* A closed ticket is reopened by no request that read it closed (support.add_message,
\* update_ticket).
THEOREM TicketsStayClosed == Spec => ClosedStays
  <1> DEFINE Reopened == row.ticket.status = "closed" /\ row'.ticket.status # "closed" =>
         \E q \in Thread : /\ op[q] \in {"ticket", "reply"} /\ op'[q] = "idle"
                          /\ seen[q].status # "closed"
  <1>1. PanelInv /\ [Next]_vars => [Reopened]_vars
    <2> SUFFICES ASSUME PanelInv, Next, row.ticket.status = "closed",
                        row'.ticket.status # "closed"
                 PROVE  \E q \in Thread : /\ op[q] \in {"ticket", "reply"} /\ op'[q] = "idle"
                                          /\ seen[q].status # "closed"
      OBVIOUS
    <2> USE DEF PanelInv
    <2>1. ASSUME NEW q \in Thread, TicketStep(q)
          PROVE  op[q] \in {"ticket", "reply"} /\ op'[q] = "idle" /\ seen[q].status # "closed"
      BY <2>1, TicketsClosed DEF TicketOps
    <2>2. ASSUME NEW q \in Thread, RuleStep(q) \/ AccountStep(q) \/ LeadStep(q)
          PROVE  row'.ticket = row.ticket
      BY <2>2, RuleEffect, AccountEffect, LeadEffect
    <2>3. ASSUME NEW q \in Thread, QueueStep(q) \/ Abort(q) PROVE row' = row
      BY <2>3, QueueEffect, AbortEffect
    <2> QED
      BY <2>1, <2>2, <2>3
      DEF Next, Begin, Proceed, TicketStep, RuleStep, AccountStep, LeadStep, QueueStep
  <1> QED
    BY PanelHolds, <1>1, PTL DEF Spec, ClosedStays
=============================================================================

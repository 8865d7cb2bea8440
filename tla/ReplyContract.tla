---------------------------- MODULE ReplyContract ---------------------------
(***************************************************************************)
(* What automated replies promise (docs/architecture.md): each reply reaches *)
(* the provider at most once, an outcome that is in doubt is recorded as     *)
(* unknown and never attempted again, and only a reply the provider has      *)
(* refused to take now may be attempted again.                              *)
(***************************************************************************)
EXTENDS Naturals

CONSTANT Reply

VARIABLES
    phase,   \* what is recorded of the reply
    copies   \* how many the provider has accepted

Phase == {"waiting", "attempting", "sent", "unknown", "failed", "abandoned"}

Init ==
    /\ phase = [r \in Reply |-> "waiting"]
    /\ copies = [r \in Reply |-> 0]

Become(r, from, to) ==
    /\ phase[r] = from
    /\ phase' = [phase EXCEPT ![r] = to]

Attempt(r)  == copies[r] = 0 /\ Become(r, "waiting", "attempting") /\ UNCHANGED copies
Throttle(r) == copies[r] = 0 /\ Become(r, "attempting", "waiting") /\ UNCHANGED copies
Accept(r)   == /\ phase[r] = "attempting" /\ copies[r] = 0
               /\ copies' = [copies EXCEPT ![r] = 1] /\ UNCHANGED phase
Confirm(r)  == copies[r] = 1 /\ Become(r, "attempting", "sent") /\ UNCHANGED copies
Doubt(r)    == /\ Become(r, "attempting", "unknown") \/ Become(r, "waiting", "unknown")
               /\ UNCHANGED copies
Refuse(r)   == copies[r] = 0 /\ Become(r, "attempting", "failed") /\ UNCHANGED copies
Abandon(r)  == /\ copies[r] = 0
               /\ Become(r, "waiting", "failed") \/ Become(r, "waiting", "abandoned")
               /\ UNCHANGED copies

Next == \E r \in Reply :
    \/ Attempt(r) \/ Throttle(r) \/ Accept(r) \/ Confirm(r)
    \/ Doubt(r) \/ Refuse(r) \/ Abandon(r)

Spec == Init /\ [][Next]_<<phase, copies>>
=============================================================================

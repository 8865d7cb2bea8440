--------------------------- MODULE MCFlowDelivery ---------------------------
(***************************************************************************)
(* Instances of FlowDelivery for TLC.                                        *)
(***************************************************************************)
EXTENDS FlowInvariant

CONSTANTS f1, f2, a1, a2, s1, l1, l2

\* One flow with an action of every kind, before and after its send.
LongProgram == [f \in Flow |-> <<"NODELAY", "NOTE", "SEND", "DELAY", "LEAD", "NOTE">>]
\* Two flows that send, one resumed after a delay; both may be the first to write
\* their lead.
PairProgram == [f \in Flow |-> IF f = f1 THEN <<"NOTE", "SEND", "DELAY">>
                                     ELSE <<"SEND", "LEAD">>]
\* Two flows that write notes, no send.
NotesProgram == [f \in Flow |-> <<"LEAD", "NOTE", "NOTE">>]
\* Two flows that only send.
SendProgram == [f \in Flow |-> <<"SEND">>]

OneAccount == [f \in Flow |-> a1]
OneSource  == [f \in Flow |-> s1]
OneLead    == [f \in Flow |-> l1]
OwnLead    == [f \in Flow |-> IF f = f1 THEN l1 ELSE l2]
=============================================================================

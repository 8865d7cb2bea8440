------------------------------ MODULE MCJobQueue ----------------------------
(***************************************************************************)
(* Instances of JobQueue for TLC.                                            *)
(***************************************************************************)
EXTENDS JobQueue

CONSTANTS j1, j2, j3, j4

MixedKinds == [j \in Job |-> CASE j = j1 -> "incoming" [] j = j2 -> "send"
                               [] j = j3 -> "notification" [] j = j4 -> "telegram"]
NoteKind   == [j \in Job |-> "notification"]
=============================================================================

-------------------------- MODULE MCHostOperations --------------------------
(***************************************************************************)
(* Instances of HostOperations for TLC.                                      *)
(***************************************************************************)
EXTENDS HostOperations

CONSTANTS o1, o2, o3, s1, s2

MCMenu == [o \in Op |-> CASE o = o1 -> {"restore"} [] o = o2 -> {"update", "domain"}
                          [] o = o3 -> {"backup", "delete", "report"}]
MCSiteOf == [o \in Op |-> s2]
MCTargetOf == [o \in Op |-> 2]
MCRelease == 1..2
MCSchemaOf == [r \in 1..2 |-> r]
=============================================================================

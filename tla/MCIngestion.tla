----------------------------- MODULE MCIngestion ----------------------------
(***************************************************************************)
(* Instances of Ingestion for TLC.                                          *)
(***************************************************************************)
EXTENDS Ingestion, TLC

CONSTANTS e1, e2, e3, r1, r2, r3, c1, p1

SameSender == [e \in Event |-> c1]
Times == [e \in Event |-> IF e = e1 THEN 2 ELSE 1]
\* r1 answers comments, r2 messages, both with the product; r3 is a keyword reply.
ByKind == [e \in Event |-> Rule \cap (IF e \in Comment THEN {r1} ELSE {r2, r3})]
Order == SelectSeq(<<r1, r2, r3>>, LAMBDA r : r \in Rule)
Sells == [r \in Rule |-> IF r \in Flow THEN p1 ELSE NoProduct]
Waits == [r \in Rule |-> IF r = r2 THEN 1 ELSE 2]
Workers == Permutations(Worker)
=============================================================================

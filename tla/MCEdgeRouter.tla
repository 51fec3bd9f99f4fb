---------------------------- MODULE MCEdgeRouter ----------------------------
(* Two app nodes with a replica each, and one edge.                          *)
EXTENDS EdgeRouter

CONSTANTS n1, n2, r1, r2

MCNodeOf == [r \in Replica |-> IF r = r1 THEN n1 ELSE n2]
=============================================================================

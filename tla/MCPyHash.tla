------------------------------- MODULE MCPyHash -------------------------------
(* Constants of PyHash for TLC.                                            *)
EXTENDS PyHash

CONSTANTS t1, t2, b1

(* Calls inside calls of t1 only where the list is short; t2 runs the      *)
(* program only.                                                           *)
MCDepth == [t \in Thread |-> [n \in 0 .. MaxItems |-> IF t # t1 THEN 0 ELSE IF n = 1 THEN 2 ELSE 1]]

=============================================================================

---------------------------- MODULE MCRuntimePool ----------------------------
(***************************************************************************)
(* Constants for the TLC run of RuntimePool.  Three resolved settings can  *)
(* compete for the cell: two workers or one (configure), or as many as the *)
(* machine has CPUs (the variables ask for more).                          *)
(***************************************************************************)
EXTENDS RuntimePool

CONSTANTS p1, p2, t1, t2

(* Two threads in the first process, one in its child.                     *)
MCThreadsOf(p) == IF p = p1 THEN {t1, t2} ELSE {t1}

MCOptions == {[threads |-> n, allow_simd |-> None] : n \in 1 .. 2}
MCEnvironments == {[threads |-> 9, disable_mt |-> FALSE, disable_simd |-> FALSE]}

=============================================================================

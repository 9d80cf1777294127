---------------------------- MODULE MCHashDispatch ----------------------------
(***************************************************************************)
(* Constants for the TLC runs of HashDispatch.  Thresholds, windows and    *)
(* blocks are scaled down, in the order they have in params.rs, so that    *)
(* batches of a few messages meet each of them.                            *)
(***************************************************************************)
EXTENDS HashDispatch

MCParams(kind, backend) ==
  IF backend = "scalar" THEN [messages |-> 6, bytes |-> 200, tasks |-> 2]
  ELSE IF kind = "fixed" THEN [messages |-> 12, bytes |-> 400, tasks |-> 1]
  ELSE [messages |-> 10, bytes |-> 400, tasks |-> 1]

Of(len, n) == [i \in 1 .. n |-> len]

(* One block each; mixed lengths within the counting sort, and beyond it;  *)
(* one long message among short ones.                                      *)
Uniform == Of(32, 13)
Mixed   == <<64, 0, 31, 33, 1, 64, 20, 40, 64, 5, 5, 5, 33, 64, 2, 0, 40, 1>>
Long    == <<10, 100, 20, 32, 300, 64, 65, 7, 0, 0, 0, 200, 32, 32>>
Few     == <<200, 1, 1, 1, 1>>

MCCalls ==
  {[kind |-> "fixed", lens |-> Of(len, n)] : len \in {0, 40}, n \in {0, 3, 7, 14}} \cup
  {[kind |-> k, lens |-> l] : k \in {"var", "raw", "blocks"}, l \in {<<>>, Few, Uniform, Mixed, Long}}

=============================================================================

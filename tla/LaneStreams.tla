----------------------------- MODULE LaneStreams -----------------------------
(***************************************************************************)
(* What fill_blocks of LustroPrngBatch and LustroXofBatch promises (ARCHI- *)
(* TECTURE.md, section 10, "Batch semantics" and section 7, "Output        *)
(* Layout"), free of plans, kernels and threads: a batch is a position per *)
(* lane, and a call returns the next blocks of every lane, step-major, and *)
(* moves all positions.  That consecutive calls concatenate, and that the  *)
(* backend and the number of workers do not show, is the shape of this     *)
(* specification; StreamDispatch implements it.                            *)
(***************************************************************************)
EXTENDS Naturals

CONSTANTS
  Sizes,          \* lane counts of the batches explored
  StepCounts,     \* arguments of fill_blocks
  Origin(_),      \* state lane i starts from
  BlockAt(_, _),  \* block k of the stream of an origin
  MaxBlocks       \* bound: blocks taken from a lane

VARIABLES
  at,   \* at[i]: blocks lane i has given
  ret   \* what the last call returned

vars == <<at, ret>>

Lane == DOMAIN at

Init ==
  /\ \E n \in Sizes : at = [i \in 0 .. n-1 |-> 0]
  /\ ret = [x \in {} |-> 0]

(* Block s * n + i is the block of lane i at step s.                       *)
Blocks(n, steps) ==
  [x \in 0 .. n * steps - 1 |-> BlockAt(Origin(x % n), at[x % n] + x \div n + 1)]

FillBlocks(n, steps) ==
  /\ Lane = 0 .. n-1
  /\ \A i \in Lane : at[i] + steps <= MaxBlocks
  /\ at' = [i \in Lane |-> at[i] + steps]
  /\ ret' = Blocks(n, steps)

Next == \E n \in Sizes, steps \in StepCounts : FillBlocks(n, steps)

Spec == Init /\ [][Next]_vars

=============================================================================

---------------------------- MODULE MCStreamState ----------------------------
(***************************************************************************)
(* Constants for the TLC runs of StreamState.  The mixing functions are    *)
(* small permutations of 0 .. 2 in the counter and the identifier, so that *)
(* a step taken with the wrong counter shows; the counter wraps at 2,      *)
(* within the blocks that are explored.                                    *)
(***************************************************************************)
EXTENDS StreamState

MCState == 0 .. 2
MCStreamStep(s, n) == (2 * s + n + 1) % 3
MCForkLane(d, s, id) == (s + id + IF d = "xof" THEN 1 ELSE 0) % 3
MCAbsorbed(m) == (m + 1) % 3

(* BlockLaw as a recursive function. *)
MCBlockAt(o, n) ==
  LET b[k \in 0 .. n] == IF k = 0 THEN o ELSE MCStreamStep(b[k-1], (k-1) % StepMod)
  IN  b[n]

=============================================================================

----------------------------- MODULE MCLaneBatch -----------------------------
(***************************************************************************)
(* Constants for the TLC runs of LaneBatch.  The derivation is small but   *)
(* not symmetric in its arguments: the order of a path, the domain and the *)
(* counter all show in the states.                                         *)
(***************************************************************************)
EXTENDS LaneBatch

MCState == 0 .. 6
MCPrepareBase(d, s) == (3 * s + IF d = "xof" THEN 2 ELSE 1) % 7
MCBranchStream(base, id) == (base + 2 * id * id + id) % 7
MCAbsorbed(m) == (2 * m + 1) % 7
MCStreamStep(s, n) == (5 * s + 3 * n + 1) % 7

(* BlockLaw as a recursive function. *)
MCBlockAt(o, k) ==
  LET b[j \in 0 .. k] == IF j = 0 THEN o ELSE MCStreamStep(b[j-1], (j-1) % StepMod)
  IN  b[k]

MCIdLists == {<<>>, <<1, 3>>}
MCMessageLists == {<<4>>}
MCPaths == {<<>>, <<2, 3>>}

=============================================================================

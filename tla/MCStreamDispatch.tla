--------------------------- MODULE MCStreamDispatch --------------------------
(***************************************************************************)
(* Constants for the TLC runs of StreamDispatch.  The words are small      *)
(* enough for the counter and the round constant to wrap within one call,  *)
(* and the two backends are tuned apart, as they are in params.rs.         *)
(***************************************************************************)
EXTENDS StreamDispatch

MCState == 0 .. 6
MCOrigin(i) == (3 * i) % 7
MCMix(s, rc) == (3 * s + rc + 1) % 7

MCNearTasks(b) == IF b = "avx2" THEN 3 ELSE 2
MCRounds(b)    == IF b = "avx2" THEN 72 ELSE 16
MCThreshold(b) == IF b = "avx2" THEN 9 ELSE 5
MCMinTasks(b)  == 2

(* BlockLaw as a recursive function. *)
MCBlockAt(o, k) ==
  LET b[j \in 0 .. k] == IF j = 0 THEN o ELSE StreamStep(b[j-1], (j-1) % WordMod)
  IN  b[k]

=============================================================================

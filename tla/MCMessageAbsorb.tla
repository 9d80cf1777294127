--------------------------- MODULE MCMessageAbsorb ----------------------------
(***************************************************************************)
(* Groups for the TLC run of MessageAbsorb: every length up to two rows    *)
(* and a rest for the scalar kernel and for equal lengths; for the masked  *)
(* kernel two lanes of every pair of remainders next to a boundary of the  *)
(* padding code, one empty message and one of three rows.                  *)
(***************************************************************************)
EXTENDS MessageAbsorb

Every  == 0 .. 70
Around == {0, 1, 3, 4, 7, 8, 15, 16, 17, 20, 31, 32, 33, 36, 47, 48, 63, 64, 65}

MCLengthLists ==
  {<<a>> : a \in Every} \cup {<<a, a, a, a>> : a \in Every} \cup
  {<<a, b, 32, 70>> : a, b \in Around} \cup {<<a, a, a, 0>> : a \in Every \ {0}}

=============================================================================

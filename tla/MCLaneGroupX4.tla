---------------------------- MODULE MCLaneGroupX4 ----------------------------
(***************************************************************************)
(* Constants for the TLC run of LaneGroupX4: words of 8 bits, so that a    *)
(* double word has 16, keys are below 8 and the last rotation is below 16, *)
(* as 64, 128, 64 and 128 are to each other.  Exclusive or is a table of   *)
(* half words.                                                             *)
(***************************************************************************)
EXTENDS LaneGroupX4

MCPowers == [k \in 0 .. 16 |-> 2 ^ k]
MCPow(r) == MCPowers[r]

MCXorBits[x \in 0 .. 15, y \in 0 .. 15] ==
  IF x + y = 0 THEN 0
  ELSE 2 * MCXorBits[x \div 2, y \div 2] + ((x + y) % 2)

MCXorHalves == [x \in 0 .. 15 |-> [y \in 0 .. 15 |-> MCXorBits[x, y]]]

MCXor(x, y) ==
  16 * MCXorHalves[x \div 16][y \div 16] + MCXorHalves[x % 16][y % 16]

MCAmount(d) == 1 + ((d * 7) \div 64)

(* Lanes that differ in everything; some counters are about to wrap.       *)
MCLane(g, i) ==
  LET x == (g * 7919 + i * 104729) % 65536
  IN  [s |-> <<(x * 181 + 12345) % 65536, (x * 97 + 31 * g) % 65536>>,
       step |-> (250 + g + 3 * i) % 256]

MCGroups == {[i \in 1 .. 4 |-> MCLane(g, i)] : g \in 0 .. 47}

=============================================================================

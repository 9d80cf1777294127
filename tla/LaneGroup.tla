------------------------------ MODULE LaneGroup ------------------------------
(***************************************************************************)
(* Four streams that advance together, as the scalar code advances each of *)
(* them (src/api.rs stream_step, src/core.rs): what a group of lanes in an *)
(* AVX2 kernel has to compute.  LaneGroupX4 implements it.                 *)
(***************************************************************************)
EXTENDS MixScalar

CONSTANT Groups   \* four states and counters each, offered to the kernel

VARIABLES
  lanes,   \* the four lanes, a state of two double words and a counter each
  out      \* the blocks of the last step, four words each

(* to_le_bytes of s0, then of s1, by words.                                *)
Block(s) == <<Lo(s[1]), Hi(s[1]), Lo(s[2]), Hi(s[2])>>

NoBlocks == <<>>

Init == lanes \in Groups /\ out = NoBlocks

Stepped(lane) == [s |-> StreamStep(lane.s, lane.step), step |-> Add(lane.step, 1)]

Step ==
  /\ lanes' = [i \in 1 .. 4 |-> Stepped(lanes[i])]
  /\ out' = [i \in 1 .. 4 |-> Block(Stepped(lanes[i]).s)]

Spec == Init /\ [][Step]_<<lanes, out>>

=============================================================================

----------------------------- MODULE LaneGroupX4 -----------------------------
(***************************************************************************)
(* A group of four lanes in process_lanes_x4 (src/core_avx2.rs): loaded    *)
(* into vectors, advanced there step by step with a round constant that is *)
(* carried along, each step's blocks stored, and the lanes written back at *)
(* the end of the call.  How a batch is divided into groups is the matter  *)
(* of StreamDispatch; here the words are computed.                         *)
(***************************************************************************)
EXTENDS MixVector

CONSTANTS
  Groups,     \* the lanes a batch can start with
  StepCounts, \* lengths of a call
  MaxSteps,   \* bound: steps taken by a group
  None

ASSUME GroupsType ==
  Groups \subseteq [1 .. 4 -> [s : Double \X Double, step : Word]]

ASSUME CountsType == StepCounts \subseteq Nat /\ MaxSteps \in Nat

VARIABLES
  lanes,   \* the lanes in memory
  regs,    \* the vectors of the running call, by lane
  out,     \* the blocks the last step stored
  made     \* history: steps asked for so far

vars == <<lanes, regs, out, made>>

Lane == 1 .. 4

NoBlocks == <<>>

(* load_lanes_x4: s0_lo, s0_hi, s1_lo, s1_hi of every lane, transposed.    *)
Loaded(ls) ==
  LET w == Transposed([i \in Lane |->
             <<Lo(ls[i].s[1]), Hi(ls[i].s[1]), Lo(ls[i].s[2]), Hi(ls[i].s[2])>>])
  IN  [s0 |-> [i \in Lane |-> Wide(w[2][i], w[1][i])],
       s1 |-> [i \in Lane |-> Wide(w[4][i], w[3][i])]]

(* store_soa_ptr: the transposition back, into four blocks.                *)
Stored(s0, s1) ==
  Transposed(<<[i \in Lane |-> s0[i].lo], [i \in Lane |-> s0[i].hi],
               [i \in Lane |-> s1[i].lo], [i \in Lane |-> s1[i].hi]>>)

CounterAfter(step, steps) == Add(step, steps % M)

(* store_lanes_x4 after so many steps.                                     *)
WrittenBack(r, steps) ==
  LET w == Stored(r.s0, r.s1)
  IN  [i \in Lane |-> [s    |-> <<Join(w[i][2], w[i][1]), Join(w[i][4], w[i][3])>>,
                       step |-> CounterAfter(r.step[i], steps)]]

(* Mutant: the constant of the previous step.                              *)
FirstConstantLate(step) == MulConst(Add(step, 1), Phi)

FirstConstant(step) == MulConst(Add(step, 2), Phi)

-----------------------------------------------------------------------------

Init ==
  /\ lanes \in Groups
  /\ regs = None
  /\ out = NoBlocks
  /\ made = 0

Load(steps) ==
  /\ regs = None
  /\ made + steps <= MaxSteps
  /\ LET v == Loaded(lanes)
     IN  regs' = [s0 |-> v.s0, s1 |-> v.s1,
                  step |-> [i \in Lane |-> lanes[i].step],
                  rc   |-> [i \in Lane |-> FirstConstant(lanes[i].step)],
                  done |-> 0, steps |-> steps]
  /\ made' = made + steps
  /\ UNCHANGED <<lanes, out>>

Iterate ==
  /\ regs # None
  /\ regs.done < regs.steps
  /\ LET after == [i \in Lane |-> StepRc(regs.s0[i], regs.s1[i], regs.rc[i])]
         s0    == [i \in Lane |-> after[i][1]]
         s1    == [i \in Lane |-> after[i][2]]
     IN  /\ regs' = [regs EXCEPT !.s0 = s0, !.s1 = s1, !.done = @ + 1,
                                 !.rc = [i \in Lane |-> Add(regs.rc[i], Phi)]]
         /\ out' = Stored(s0, s1)
  /\ UNCHANGED <<lanes, made>>

Store ==
  /\ regs # None
  /\ regs.done = regs.steps
  /\ lanes' = WrittenBack(regs, regs.steps)
  /\ regs' = None
  /\ UNCHANGED <<out, made>>

Next ==
  \/ \E steps \in StepCounts : Load(steps)
  \/ Iterate
  \/ Store

Spec == Init /\ [][Next]_vars

-----------------------------------------------------------------------------
(* Properties.                                                             *)

WideWord == [hi : Word, lo : Word]

Registers ==
  [s0 : [Lane -> WideWord], s1 : [Lane -> WideWord], step : [Lane -> Word],
   rc : [Lane -> Word], done : Nat, steps : Nat]

(* None is not mistaken for vectors.                                       *)
ASSUME NoneApart == None \notin Registers

(* Whatever the partial products, carries and masks compute, every word    *)
(* of a vector and of a lane is one of Bits bits.                          *)
TypeOK ==
  /\ lanes \in [Lane -> [s : Double \X Double, step : Word]]
  /\ regs \in Registers \cup {None}
  /\ made \in Nat

(* A call carries the constant of its next step in rc: the one of the      *)
(* scalar code for the counter the lane would have now.                    *)
ConstantInStep ==
  regs # None => \A i \in Lane :
    regs.rc[i] = RoundConstant(CounterAfter(regs.step[i], regs.done))

(* The distances of the variable rotations are what the instructions need: *)
(* shifts of 64 and more give 0 instead of wrapping, and the comment at    *)
(* rotl64_var_bounded relies on odd keys in 1..=63; the last rotation is   *)
(* by 1..=127 (src/core_avx2.rs lane_key_schedule, rotl_u128_var).         *)
KeysInRange ==
  regs # None => \A i \in Lane :
    LET q    == VIdm(Quad(regs.s0[i].hi, regs.s0[i].lo, regs.s1[i].hi, regs.s1[i].lo))
        p    == Perturbed(Wide(q.a, q.b), Wide(q.c, q.d), regs.rc[i])
        keys == VErdKeys(VErdStages(VErdBase(p[1], p[2])))
        rot  == VErd(p[1], p[2])
    IN  \A j \in 1 .. 2 :
          /\ keys[j] \in 1 .. Bits-1 /\ keys[j] % 2 = 1
          /\ rot[j] \in 1 .. 2 * Bits - 1

LG == INSTANCE LaneGroup WITH
        lanes <- IF regs = None THEN lanes ELSE WrittenBack(regs, regs.done),
        out <- out

(* The vectors compute what the scalar code computes: IDM and ERD with     *)
(* their carries, products and rotations made of other instructions, the   *)
(* constant carried along instead of multiplied anew, the transpositions,  *)
(* and the counter added at the end (src/core_avx2.rs against src/core.rs, *)
(* which the batches promise to agree).                                    *)
ImplementsLaneGroup == LG!Spec

=============================================================================

---------------------------- MODULE LaneBatchProofs ----------------------------
(***************************************************************************)
(* Proofs about LaneBatch, for batches of every width, paths and forks of  *)
(* every depth and every derivation: a lane is the stream of its line,     *)
(* exactly the whole snapshots are accepted, and the batches do what       *)
(* StreamFamily says.                                                      *)
(***************************************************************************)
EXTENDS LaneBatch, ArithLemmas, SequenceTheorems

-----------------------------------------------------------------------------
(* The inductive invariant.                                                *)

Types ==
  /\ batch \in [Batch -> {None} \cup BatchType]
  /\ solo \in [Solo -> {None} \cup LaneType]
  /\ saved \in [Store -> {None} \cup FileType]

(* A lane has given a number of blocks within the bound, and is where the  *)
(* stream of its line is then.                                             *)
Good(lane) == lane.made <= MaxBlocks /\ OnSchedule(lane)

(* The lanes of a batch descend within its domain: a fork of the batch     *)
(* uses the domain of the batch, not that of the lane.                     *)
GoodLanes(dom, lanes) == \A i \in DOMAIN lanes : Good(lanes[i]) /\ lanes[i].line.dom = dom

(* A file says how many lanes were written, and has as much or less.       *)
GoodFile(file) ==
  /\ GoodLanes(file.kind, file.lanes)
  /\ file.count = Len(file.lanes) /\ file.len <= HeaderLen + LaneLen * file.count

Goods ==
  /\ \A b \in Batch : batch[b] # None => GoodLanes(batch[b].dom, batch[b].lanes)
  /\ \A h \in Solo : solo[h] # None => Good(solo[h])
  /\ \A k \in Store : saved[k] # None => GoodFile(saved[k])

IInv == Types /\ Goods

-----------------------------------------------------------------------------
(* The steps of a stream.                                                  *)

LEMMA SteppedIs ==
  ASSUME NEW lane \in LaneType
  PROVE  /\ Stepped(lane) \in LaneType
         /\ Stepped(lane).s = StreamStep(lane.s, lane.step)
         /\ Stepped(lane).step = (lane.step + 1) % StepMod
         /\ Stepped(lane).made = lane.made + 1
         /\ Stepped(lane).line = lane.line
<1>1. lane.s \in State /\ lane.step \in 0 .. StepMod-1 /\ lane.made \in Nat /\ lane.line \in LineType
  BY DEF LaneType
<1>2. StreamStep(lane.s, lane.step) \in State
  BY <1>1, StatesClosed
<1>3. (lane.step + 1) % StepMod \in 0 .. StepMod-1
  <2> DEFINE next == lane.step + 1
  <2>1. next \in Nat /\ StepMod \in Nat \ {0}
    BY <1>1, ConstantTypes
  <2> HIDE DEF next
  <2>2. next % StepMod \in 0 .. StepMod-1
    BY <2>1, DivMod
  <2> QED BY <2>2 DEF next
<1> DEFINE s == StreamStep(lane.s, lane.step)
           n == (lane.step + 1) % StepMod
           m == lane.made + 1
<1>4. lane = [s |-> lane.s, step |-> lane.step, line |-> lane.line, made |-> lane.made]
  BY DEF LaneType
<1>5. m \in Nat /\ s \in State /\ n \in 0 .. StepMod-1
  BY <1>1, <1>2, <1>3
<1>6. Stepped(lane) = [s |-> s, step |-> n, line |-> lane.line, made |-> m]
  <2> HIDE DEF s, n, m
  <2>1. Stepped(lane) = [lane EXCEPT !.s = s, !.step = n, !.made = m]
    BY DEF Stepped, s, n, m
  <2> QED BY <2>1, <1>4
<1> QED
  <2> HIDE DEF s, n, m
  <2>1. Stepped(lane) \in LaneType
    BY <1>1, <1>5, <1>6 DEF LaneType
  <2> QED BY <2>1, <1>6 DEF s, n, m

RunStep(steps) == [x \in LaneType \X (1 .. steps) |-> Stepped(x[1])]

IsRun(r, lane, steps) == IsLoop(r, LaneType, lane, steps, RunStep(steps))

LEMMA RunStepIs ==
  ASSUME NEW steps \in Nat
  PROVE  /\ IsStep(RunStep(steps), LaneType, steps)
         /\ \A l \in LaneType, j \in 1 .. steps : RunStep(steps)[<<l, j>>] = Stepped(l)
<1>1. \A x \in LaneType \X (1 .. steps) : x[1] \in LaneType
  OBVIOUS
<1>2. \A x \in LaneType \X (1 .. steps) : Stepped(x[1]) \in LaneType
  BY <1>1, SteppedIs
<1> QED BY <1>2 DEF IsStep, RunStep

(* k blocks of a lane are a loop of k steps.                               *)
LEMMA RanLoop ==
  ASSUME NEW lane \in LaneType, NEW steps \in Nat
  PROVE  \E r : IsRun(r, lane, steps) /\ Ran(lane, steps) = r[steps]
<1> DEFINE F == CHOOSE r : r = [k \in 0 .. steps |-> IF k = 0 THEN lane ELSE Stepped(r[k-1])]
<1>1. PICK g : IsRun(g, lane, steps)
  BY RunStepIs, LoopExists, Zenon DEF IsRun
<1>2. g \in [0 .. steps -> LaneType] /\ g[0] = lane
      /\ \A j \in 1 .. steps : g[j] = Stepped(g[j-1])
  <2>1. g \in [0 .. steps -> LaneType] /\ g[0] = lane
        /\ \A j \in 1 .. steps : g[j] = RunStep(steps)[<<g[j-1], j>>]
    BY <1>1 DEF IsRun, IsLoop
  <2>2. \A j \in 1 .. steps : g[j-1] \in LaneType
    BY <2>1
  <2> QED BY <2>1, <2>2, RunStepIs
<1>3. g = [j \in 0 .. steps |-> IF j = 0 THEN lane ELSE Stepped(g[j-1])]
  <2>1. \A j \in 0 .. steps : j # 0 => j \in 1 .. steps
    OBVIOUS
  <2>2. \A j \in 0 .. steps : g[j] = IF j = 0 THEN lane ELSE Stepped(g[j-1])
    BY <1>2, <2>1
  <2>3. g = [j \in 0 .. steps |-> g[j]]
    BY <1>2
  <2> QED BY <2>2, <2>3
<1>4. F = [k \in 0 .. steps |-> IF k = 0 THEN lane ELSE Stepped(F[k-1])]
  BY ONLY <1>3
<1>5. Ran(lane, steps) = F[steps]
  BY Zenon DEF Ran
<1> HIDE DEF F
<1>6. F = [j \in 0 .. steps |-> F[j]] /\ F[0] = lane
      /\ \A j \in 1 .. steps : F[j-1] \in LaneType => F[j] = RunStep(steps)[<<F[j-1], j>>]
  <2>1. 0 \in 0 .. steps /\ \A j \in 1 .. steps : j \in 0 .. steps /\ j # 0
    OBVIOUS
  <2>2. F[0] = lane /\ \A j \in 1 .. steps : F[j] = Stepped(F[j-1])
    BY <1>4, <2>1
  <2>3. F = [j \in 0 .. steps |-> F[j]]
    BY <1>4
  <2> QED BY <2>2, <2>3, RunStepIs
<1>7. IsRun(F, lane, steps)
  <2>1. IsStep(RunStep(steps), LaneType, steps)
    BY RunStepIs
  <2> QED BY <1>6, <2>1, LoopIs, Zenon DEF IsRun
<1> QED BY <1>5, <1>7

LEMMA RunIs ==
  ASSUME NEW lane \in LaneType, NEW steps \in Nat, NEW r, IsRun(r, lane, steps)
  PROVE  /\ r[0] = lane /\ \A j \in 0 .. steps : r[j] \in LaneType
         /\ \A j \in 1 .. steps : r[j] = Stepped(r[j-1])
<1>1. r \in [0 .. steps -> LaneType] /\ r[0] = lane
      /\ \A j \in 1 .. steps : r[j] = RunStep(steps)[<<r[j-1], j>>]
  BY DEF IsRun, IsLoop
<1>2. \A j \in 1 .. steps : r[j-1] \in LaneType
  BY <1>1
<1> QED BY <1>1, <1>2, RunStepIs

LEMMA RanNext ==
  ASSUME NEW lane \in LaneType
  PROVE  /\ Ran(lane, 0) = lane
         /\ \A k \in Nat : /\ Ran(lane, k) \in LaneType
                           /\ Ran(lane, k + 1) = Stepped(Ran(lane, k))
<1>1. Ran(lane, 0) = lane
  <2>1. PICK r : IsRun(r, lane, 0) /\ Ran(lane, 0) = r[0]
    BY RanLoop, Zenon
  <2> QED BY <2>1, RunIs
<1>2. ASSUME NEW k \in Nat
      PROVE  Ran(lane, k) \in LaneType /\ Ran(lane, k + 1) = Stepped(Ran(lane, k))
  <2>1. PICK r : IsRun(r, lane, k) /\ Ran(lane, k) = r[k]
    BY RanLoop, Zenon
  <2>2. r[0] = lane /\ (\A j \in 0 .. k : r[j] \in LaneType)
        /\ \A j \in 1 .. k : r[j] = Stepped(r[j-1])
    BY <2>1, RunIs
  <2>3. k + 1 \in Nat
    OBVIOUS
  <2>4. PICK q : IsRun(q, lane, k + 1) /\ Ran(lane, k + 1) = q[k + 1]
    BY <2>3, RanLoop, Zenon
  <2>5. q[0] = lane /\ \A j \in 1 .. k + 1 : q[j] = Stepped(q[j-1])
    BY <2>3, <2>4, RunIs
  <2>6. \A j \in 0 .. k : r[j] = q[j]
    <3>1. \A j \in 1 .. k : j \in 1 .. k + 1
      OBVIOUS
    <3>2. \A j \in 1 .. k : r[j-1] = q[j-1] => r[j] = q[j]
      BY <2>2, <2>5, <3>1
    <3>3. r[0] = q[0]
      BY <2>2, <2>5
    <3> QED BY <3>2, <3>3, LoopsAgree, ZenonT(60)
  <2>7. q[k + 1] = Stepped(q[k + 1 - 1]) /\ k + 1 - 1 = k /\ r[k] = q[k] /\ r[k] \in LaneType
    BY <2>2, <2>5, <2>6
  <2> QED BY <2>1, <2>4, <2>7
<1> QED BY <1>1, <1>2

(* The state after some blocks is a state.                                 *)
LEMMA BlockIn ==
  ASSUME NEW o \in State, NEW k \in 0 .. MaxBlocks
  PROVE  BlockAt(o, k) \in State
<1> DEFINE T == {j \in Nat : j <= MaxBlocks => BlockAt(o, j) \in State}
<1>1. 0 \in T
  BY BlockLaw
<1>2. ASSUME NEW j \in Nat, j \in T
      PROVE  j + 1 \in T
  <2> SUFFICES ASSUME j + 1 <= MaxBlocks
               PROVE  BlockAt(o, j + 1) \in State
    OBVIOUS
  <2>1. BlockAt(o, j) \in State /\ j \in 0 .. MaxBlocks-1
    BY <1>2, ConstantTypes
  <2>2. j % StepMod \in 0 .. StepMod-1
    BY ConstantTypes, DivMod
  <2>3. BlockAt(o, j + 1) = StreamStep(BlockAt(o, j), j % StepMod)
    BY <2>1, BlockLaw
  <2> QED BY <2>1, <2>2, <2>3, StatesClosed
<1>3. Nat \subseteq T
  <2> HIDE DEF T
  <2> QED BY <1>1, <1>2, Induction
<1> QED BY <1>3, ConstantTypes

-----------------------------------------------------------------------------
(* The state at the beginning of a line.                                   *)

First(line) == IF line.dom = "xof" THEN Absorbed(line.of) ELSE ForkLane(line.dom, line.of, line.id)

OriginStep(line) ==
  [x \in State \X (1 .. Len(line.forks)) |->
     ForkLane(line.dom, BlockAt(x[1], line.forks[x[2]].after), line.forks[x[2]].id)]

IsDescent(o, line) == IsLoop(o, State, First(line), Len(line.forks), OriginStep(line))

LEMMA ForkIn ==
  ASSUME NEW dom \in Domains, NEW s \in State, NEW id \in Id
  PROVE  ForkLane(dom, s, id) \in State
BY StatesClosed DEF ForkLane

LEMMA LineIs ==
  ASSUME NEW line \in LineType
  PROVE  /\ line.dom \in Domains /\ line.forks \in Seq(ForkType)
         /\ Len(line.forks) \in Nat /\ DOMAIN line.forks = 1 .. Len(line.forks)
         /\ \A j \in 1 .. Len(line.forks) :
              /\ line.forks[j] \in ForkType
              /\ line.forks[j].after \in 0 .. MaxBlocks /\ line.forks[j].id \in Id
         /\ First(line) \in State
<1>1. line.dom \in Domains /\ line.forks \in Seq(ForkType)
  BY DEF LineType, Domains
<1>2. Len(line.forks) \in Nat /\ DOMAIN line.forks = 1 .. Len(line.forks)
  BY <1>1
<1>3. \A j \in 1 .. Len(line.forks) : line.forks[j] \in ForkType
  BY <1>1
<1>4. \A j \in 1 .. Len(line.forks) :
        line.forks[j].after \in 0 .. MaxBlocks /\ line.forks[j].id \in Id
  BY <1>3 DEF ForkType
<1>5. First(line) \in State
  <2>1. CASE line.dom = "xof"
    <3>1. line.of \in Messages
      BY <2>1 DEF LineType
    <3> QED BY <2>1, <3>1, StatesClosed DEF First
  <2>2. CASE line.dom # "xof"
    <3>1. line.of \in State /\ line.id \in Id
      BY <2>2, ConstantTypes DEF LineType
    <3> QED BY <1>1, <2>2, <3>1, ForkIn DEF First
  <2> QED BY <2>1, <2>2
<1> QED BY <1>1, <1>2, <1>3, <1>4, <1>5

LEMMA OriginStepIs ==
  ASSUME NEW line \in LineType
  PROVE  /\ IsStep(OriginStep(line), State, Len(line.forks))
         /\ \A s \in State, j \in 1 .. Len(line.forks) :
              OriginStep(line)[<<s, j>>]
                = ForkLane(line.dom, BlockAt(s, line.forks[j].after), line.forks[j].id)
<1>1. \A s \in State, j \in 1 .. Len(line.forks) :
        ForkLane(line.dom, BlockAt(s, line.forks[j].after), line.forks[j].id) \in State
  BY LineIs, BlockIn, ForkIn
<1>2. \A x \in State \X (1 .. Len(line.forks)) : x[1] \in State /\ x[2] \in 1 .. Len(line.forks)
  OBVIOUS
<1>3. \A x \in State \X (1 .. Len(line.forks)) :
        ForkLane(line.dom, BlockAt(x[1], line.forks[x[2]].after), line.forks[x[2]].id) \in State
  BY <1>1, <1>2
<1> QED BY <1>3 DEF IsStep, OriginStep

LEMMA DescentIs ==
  ASSUME NEW line \in LineType, NEW o, IsDescent(o, line)
  PROVE  /\ o[0] = First(line) /\ \A j \in 0 .. Len(line.forks) : o[j] \in State
         /\ \A j \in 1 .. Len(line.forks) :
              o[j] = ForkLane(line.dom, BlockAt(o[j-1], line.forks[j].after), line.forks[j].id)
<1>1. o \in [0 .. Len(line.forks) -> State] /\ o[0] = First(line)
      /\ \A j \in 1 .. Len(line.forks) : o[j] = OriginStep(line)[<<o[j-1], j>>]
  BY DEF IsDescent, IsLoop
<1>2. \A j \in 1 .. Len(line.forks) : o[j-1] \in State
  BY <1>1, LineIs
<1> QED BY <1>1, <1>2, OriginStepIs

(* The state at the beginning of a line is reached along its forks.        *)
LEMMA OriginLoop ==
  ASSUME NEW line \in LineType
  PROVE  \E o : IsDescent(o, line) /\ SF!Origin(line) = o[Len(line.forks)]
<1> DEFINE n == Len(line.forks)
           E(s, j) == ForkLane(line.dom, BlockAt(s, line.forks[j].after), line.forks[j].id)
           F == CHOOSE o : o = [j \in 0 .. n |-> IF j = 0 THEN First(line) ELSE E(o[j-1], j)]
<1>n. n \in Nat
  BY LineIs
<1>1. PICK g : IsDescent(g, line)
  <2>1. First(line) \in State
    BY LineIs
  <2>2. IsStep(OriginStep(line), State, Len(line.forks))
    BY OriginStepIs
  <2> QED BY <1>n, <2>1, <2>2, LoopExists, Zenon DEF IsDescent
<1>2. g[0] = First(line) /\ \A j \in 1 .. n : g[j] = E(g[j-1], j)
  BY <1>1, DescentIs
<1>3. g = [j \in 0 .. n |-> IF j = 0 THEN First(line) ELSE E(g[j-1], j)]
  <2> HIDE DEF n, E
  <2>1. \A j \in 0 .. n : j # 0 => j \in 1 .. n
    BY <1>n
  <2>2. \A j \in 0 .. n : g[j] = IF j = 0 THEN First(line) ELSE E(g[j-1], j)
    BY <1>2, <2>1
  <2>3. g = [j \in 0 .. n |-> g[j]]
    BY <1>1 DEF IsDescent, IsLoop, n
  <2> QED BY <2>2, <2>3
<1>4. F = [j \in 0 .. n |-> IF j = 0 THEN First(line) ELSE E(F[j-1], j)]
  BY ONLY <1>3
<1>5. SF!Origin(line) = F[n]
  BY Zenon DEF SF!Origin, First, ForkLane
<1> HIDE DEF F, E
<1>6. F = [j \in 0 .. n |-> F[j]] /\ F[0] = First(line)
      /\ \A j \in 1 .. n : F[j-1] \in State => F[j] = OriginStep(line)[<<F[j-1], j>>]
  <2> HIDE DEF n
  <2>1. 0 \in 0 .. n /\ \A j \in 1 .. n : j \in 0 .. n /\ j # 0
    BY <1>n
  <2>2. F[0] = First(line) /\ \A j \in 1 .. n : F[j] = E(F[j-1], j)
    BY <1>4, <2>1
  <2>3. F = [j \in 0 .. n |-> F[j]]
    BY <1>4
  <2> QED BY <2>2, <2>3, OriginStepIs DEF n, E
<1>7. IsDescent(F, line)
  <2>1. First(line) \in State
    BY LineIs
  <2>2. IsStep(OriginStep(line), State, Len(line.forks))
    BY OriginStepIs
  <2> QED BY <1>n, <1>6, <2>1, <2>2, LoopIs, Zenon DEF IsDescent
<1> QED BY <1>5, <1>7

LEMMA OriginIn ==
  ASSUME NEW line \in LineType
  PROVE  SF!Origin(line) \in State /\ (line.forks = <<>> => SF!Origin(line) = First(line))
<1>1. PICK o : IsDescent(o, line) /\ SF!Origin(line) = o[Len(line.forks)]
  BY OriginLoop, Zenon
<1>2. o[0] = First(line) /\ \A j \in 0 .. Len(line.forks) : o[j] \in State
  BY <1>1, DescentIs
<1>3. Len(line.forks) \in Nat
  BY LineIs
<1> QED BY <1>1, <1>2, <1>3

SonLine(line, fork) == [line EXCEPT !.forks = Append(@, fork)]

LEMMA SonLineIs ==
  ASSUME NEW line \in LineType, NEW fork \in ForkType
  PROVE  /\ SonLine(line, fork) \in LineType
         /\ SonLine(line, fork).dom = line.dom /\ SonLine(line, fork).of = line.of
         /\ SonLine(line, fork).id = line.id
         /\ SonLine(line, fork).forks = Append(line.forks, fork)
<1>1. line.forks \in Seq(ForkType)
  BY LineIs
<1> DEFINE fs == Append(line.forks, fork)
<1>2. fs \in Seq(ForkType)
  BY <1>1
<1>3. SonLine(line, fork) = [line EXCEPT !.forks = fs]
  BY DEF SonLine
<1> HIDE DEF fs
<1>4. [line EXCEPT !.forks = fs] \in LineType
  BY <1>2 DEF LineType
<1>5. [line EXCEPT !.forks = fs].dom = line.dom /\ [line EXCEPT !.forks = fs].of = line.of
      /\ [line EXCEPT !.forks = fs].id = line.id /\ [line EXCEPT !.forks = fs].forks = fs
  BY DEF LineType
<1> QED BY <1>3, <1>4, <1>5 DEF fs

(* A fork starts where it branches off its parent.                         *)
LEMMA OriginSon ==
  ASSUME NEW line \in LineType, NEW fork \in ForkType
  PROVE  SF!Origin(SonLine(line, fork))
           = ForkLane(line.dom, BlockAt(SF!Origin(line), fork.after), fork.id)
<1> DEFINE son == SonLine(line, fork)
           n == Len(line.forks)
<1>1. son \in LineType /\ son.dom = line.dom /\ First(son) = First(line)
      /\ son.forks = Append(line.forks, fork)
  BY SonLineIs DEF First
<1>2. line.forks \in Seq(ForkType) /\ n \in Nat
  BY LineIs
<1>3. Len(son.forks) = n + 1 /\ son.forks[n + 1] = fork
      /\ \A j \in 1 .. n : son.forks[j] = line.forks[j]
  BY <1>1, <1>2
<1>4. PICK o : IsDescent(o, line) /\ SF!Origin(line) = o[n]
  BY OriginLoop, Zenon
<1> HIDE DEF son
<1>5. PICK q : IsDescent(q, son) /\ SF!Origin(son) = q[Len(son.forks)]
  BY <1>1, OriginLoop, Zenon
<1>6. o[0] = First(line) /\ \A j \in 1 .. n :
        o[j] = ForkLane(line.dom, BlockAt(o[j-1], line.forks[j].after), line.forks[j].id)
  BY <1>4, DescentIs
<1>7. q[0] = First(line) /\ \A j \in 1 .. n + 1 :
        q[j] = ForkLane(line.dom, BlockAt(q[j-1], son.forks[j].after), son.forks[j].id)
  BY <1>1, <1>3, <1>5, DescentIs, SMTT(40)
<1>8. \A j \in 0 .. n : o[j] = q[j]
  <2> HIDE DEF n
  <2>1. \A j \in 1 .. n : j \in 1 .. n + 1
    BY <1>2
  <2>2. \A j \in 1 .. n : o[j-1] = q[j-1] => o[j] = q[j]
    BY <1>3, <1>6, <1>7, <2>1
  <2>3. o[0] = q[0]
    BY <1>6, <1>7
  <2> QED BY <1>2, <2>2, <2>3, LoopsAgree, ZenonT(60)
<1>9. n + 1 \in 1 .. n + 1 /\ n + 1 - 1 = n /\ q[n] = o[n]
  BY <1>2, <1>8
<1> QED BY <1>3, <1>4, <1>5, <1>7, <1>9, SMTT(40) DEF son

-----------------------------------------------------------------------------
(* A lane that runs stays on the schedule of its line.                     *)

LEMMA RanGood ==
  ASSUME NEW lane \in LaneType, Good(lane), NEW k \in Nat, lane.made + k <= MaxBlocks
  PROVE  /\ Ran(lane, k) \in LaneType /\ Good(Ran(lane, k))
         /\ Ran(lane, k).line = lane.line /\ Ran(lane, k).made = lane.made + k
<1>o. SF!Origin(lane.line) \in State /\ lane.made \in Nat /\ lane.line \in LineType
  BY OriginIn DEF LaneType
<1> DEFINE P(l, j) == /\ l.line = lane.line /\ l.made = lane.made + j
                      /\ l.s = BlockAt(SF!Origin(lane.line), lane.made + j)
                      /\ l.step = (lane.made + j) % StepMod
           T == {j \in Nat : lane.made + j <= MaxBlocks => P(Ran(lane, j), j)}
<1>1. 0 \in T
  <2>1. Ran(lane, 0) = lane /\ lane.made + 0 = lane.made
    BY <1>o, RanNext
  <2> QED BY <2>1 DEF Good, OnSchedule
<1>2. ASSUME NEW j \in Nat, j \in T
      PROVE  j + 1 \in T
  <2> SUFFICES ASSUME lane.made + (j + 1) <= MaxBlocks
               PROVE  P(Ran(lane, j + 1), j + 1)
    OBVIOUS
  <2> DEFINE l == Ran(lane, j)
             m == lane.made + j
  <2>1. m \in 0 .. MaxBlocks-1 /\ lane.made + (j + 1) = m + 1 /\ m <= MaxBlocks /\ m \in Nat
    BY <1>o, ConstantTypes
  <2>2. P(l, j)
    BY <1>2, <2>1
  <2>3. l \in LaneType /\ Ran(lane, j + 1) = Stepped(l)
    BY RanNext
  <2>4. /\ l.line = lane.line /\ l.made = m
        /\ l.s = BlockAt(SF!Origin(lane.line), m) /\ l.step = m % StepMod
    BY <2>2
  <2> HIDE DEF l, m
  <2>5. /\ Stepped(l).s = StreamStep(l.s, l.step) /\ Stepped(l).step = (l.step + 1) % StepMod
        /\ Stepped(l).made = l.made + 1 /\ Stepped(l).line = l.line
    BY <2>3, SteppedIs
  <2>6. BlockAt(SF!Origin(lane.line), m + 1)
          = StreamStep(BlockAt(SF!Origin(lane.line), m), m % StepMod)
    BY <1>o, <2>1, BlockLaw
  <2>7. ((m % StepMod) + 1) % StepMod = (m + 1) % StepMod
    BY <2>1, ConstantTypes, ModSucc
  <2>8. /\ Stepped(l).s = BlockAt(SF!Origin(lane.line), m + 1)
        /\ Stepped(l).step = (m + 1) % StepMod
        /\ Stepped(l).made = m + 1 /\ Stepped(l).line = lane.line
    BY <2>4, <2>5, <2>6, <2>7
  <2> QED BY <2>1, <2>3, <2>8
<1>3. k \in T
  <2> HIDE DEF T
  <2> QED BY <1>1, <1>2, Induction
<1>4. P(Ran(lane, k), k)
  BY <1>3
<1>5. Ran(lane, k) \in LaneType
  BY RanNext
<1> QED BY <1>4, <1>5 DEF Good, OnSchedule

-----------------------------------------------------------------------------
(* Paths.                                                                  *)

PathStep(dom, path) ==
  [x \in State \X (1 .. Len(path)) |-> ForkLane(dom, x[1], path[x[2]])]

IsWalk(p, dom, s, path) == IsLoop(p, State, s, Len(path), PathStep(dom, path))

LEMMA PathIs ==
  ASSUME NEW path \in Seq(Id)
  PROVE  /\ Len(path) \in Nat /\ DOMAIN path = 1 .. Len(path)
         /\ \A j \in 1 .. Len(path) : path[j] \in Id
OBVIOUS

LEMMA PathStepIs ==
  ASSUME NEW dom \in Domains, NEW path \in Seq(Id)
  PROVE  /\ IsStep(PathStep(dom, path), State, Len(path))
         /\ \A s \in State, j \in 1 .. Len(path) :
              PathStep(dom, path)[<<s, j>>] = ForkLane(dom, s, path[j])
<1>1. \A s \in State, j \in 1 .. Len(path) : ForkLane(dom, s, path[j]) \in State
  BY ForkIn, PathIs
<1>2. \A x \in State \X (1 .. Len(path)) : x[1] \in State /\ x[2] \in 1 .. Len(path)
  OBVIOUS
<1>3. \A x \in State \X (1 .. Len(path)) : ForkLane(dom, x[1], path[x[2]]) \in State
  BY <1>1, <1>2
<1> QED BY <1>3 DEF IsStep, PathStep

LEMMA WalkIs ==
  ASSUME NEW dom \in Domains, NEW s \in State, NEW path \in Seq(Id),
         NEW p, IsWalk(p, dom, s, path)
  PROVE  /\ p[0] = s /\ \A j \in 0 .. Len(path) : p[j] \in State
         /\ \A j \in 1 .. Len(path) : p[j] = ForkLane(dom, p[j-1], path[j])
<1>1. p \in [0 .. Len(path) -> State] /\ p[0] = s
      /\ \A j \in 1 .. Len(path) : p[j] = PathStep(dom, path)[<<p[j-1], j>>]
  BY DEF IsWalk, IsLoop
<1>2. \A j \in 1 .. Len(path) : p[j-1] \in State
  BY <1>1, PathIs
<1> QED BY <1>1, <1>2, PathStepIs

(* The walk of derive_path_lane.                                           *)
LEMMA PathLoop ==
  ASSUME NEW dom \in Domains, NEW s \in State, NEW path \in Seq(Id)
  PROVE  \E p : IsWalk(p, dom, s, path) /\ PathState(dom, s, path) = p[Len(path)]
<1> DEFINE n == Len(path)
           F == CHOOSE p : p = [j \in 0 .. n |-> IF j = 0 THEN s ELSE ForkLane(dom, p[j-1], path[j])]
<1>n. n \in Nat
  BY PathIs
<1>1. PICK g : IsWalk(g, dom, s, path)
  <2>1. IsStep(PathStep(dom, path), State, Len(path))
    BY PathStepIs
  <2> QED BY <1>n, <2>1, LoopExists, Zenon DEF IsWalk
<1>2. g[0] = s /\ \A j \in 1 .. n : g[j] = ForkLane(dom, g[j-1], path[j])
  BY <1>1, WalkIs
<1>3. g = [j \in 0 .. n |-> IF j = 0 THEN s ELSE ForkLane(dom, g[j-1], path[j])]
  <2> HIDE DEF n
  <2>1. \A j \in 0 .. n : j # 0 => j \in 1 .. n
    BY <1>n
  <2>2. \A j \in 0 .. n : g[j] = IF j = 0 THEN s ELSE ForkLane(dom, g[j-1], path[j])
    BY <1>2, <2>1
  <2>3. g = [j \in 0 .. n |-> g[j]]
    BY <1>1 DEF IsWalk, IsLoop, n
  <2> QED BY <2>2, <2>3
<1>4. F = [j \in 0 .. n |-> IF j = 0 THEN s ELSE ForkLane(dom, F[j-1], path[j])]
  BY ONLY <1>3
<1>5. PathState(dom, s, path) = F[n]
  BY Zenon DEF PathState
<1> HIDE DEF F
<1>6. F = [j \in 0 .. n |-> F[j]] /\ F[0] = s
      /\ \A j \in 1 .. n : F[j-1] \in State => F[j] = PathStep(dom, path)[<<F[j-1], j>>]
  <2> HIDE DEF n
  <2>1. 0 \in 0 .. n /\ \A j \in 1 .. n : j \in 0 .. n /\ j # 0
    BY <1>n
  <2>2. F[0] = s /\ \A j \in 1 .. n : F[j] = ForkLane(dom, F[j-1], path[j])
    BY <1>4, <2>1
  <2>3. F = [j \in 0 .. n |-> F[j]]
    BY <1>4
  <2> QED BY <2>2, <2>3, PathStepIs DEF n
<1>7. IsWalk(F, dom, s, path)
  <2>1. IsStep(PathStep(dom, path), State, Len(path))
    BY PathStepIs
  <2> QED BY <1>n, <1>6, <2>1, LoopIs, Zenon DEF IsWalk
<1> QED BY <1>5, <1>7

LEMMA PathIn ==
  ASSUME NEW dom \in Domains, NEW s \in State, NEW path \in Seq(Id)
  PROVE  PathState(dom, s, path) \in State
<1>1. PICK p : IsWalk(p, dom, s, path) /\ PathState(dom, s, path) = p[Len(path)]
  BY PathLoop, Zenon
<1>2. \A j \in 0 .. Len(path) : p[j] \in State
  BY <1>1, WalkIs
<1> QED BY <1>1, <1>2, PathIs

PathForks(path) == [j \in DOMAIN path |-> [after |-> 0, id |-> path[j]]]

LEMMA PathForksIs ==
  ASSUME NEW path \in Seq(Id)
  PROVE  /\ PathForks(path) \in Seq(ForkType) /\ Len(PathForks(path)) = Len(path)
         /\ \A j \in 1 .. Len(path) : PathForks(path)[j] = [after |-> 0, id |-> path[j]]
<1>1. \A j \in 1 .. Len(path) : [after |-> 0, id |-> path[j]] \in ForkType
  BY PathIs, ConstantTypes DEF ForkType
<1> QED BY <1>1, PathIs DEF PathForks

(* The end of a path is where forks at its beginning lead one by one.      *)
LEMMA PathOrigin ==
  ASSUME NEW line \in LineType, NEW path \in Seq(Id)
  PROVE  /\ [line EXCEPT !.forks = PathForks(path)] \in LineType
         /\ SF!Origin([line EXCEPT !.forks = PathForks(path)])
              = PathState(line.dom, First(line), path)
<1> DEFINE l == [line EXCEPT !.forks = PathForks(path)]
           n == Len(path)
<1>1. l \in LineType /\ l.dom = line.dom /\ First(l) = First(line) /\ l.forks = PathForks(path)
  <2> DEFINE fs == PathForks(path)
  <2>1. fs \in Seq(ForkType)
    BY PathForksIs
  <2> HIDE DEF fs
  <2>2. [line EXCEPT !.forks = fs] \in LineType
    BY <2>1 DEF LineType
  <2>3. [line EXCEPT !.forks = fs].dom = line.dom /\ [line EXCEPT !.forks = fs].of = line.of
        /\ [line EXCEPT !.forks = fs].id = line.id /\ [line EXCEPT !.forks = fs].forks = fs
    BY DEF LineType
  <2> QED BY <2>2, <2>3 DEF fs, First
<1>2. Len(l.forks) = n /\ n \in Nat
      /\ \A j \in 1 .. n : l.forks[j].after = 0 /\ l.forks[j].id = path[j]
  <2>1. Len(PathForks(path)) = n /\ \A j \in 1 .. n : PathForks(path)[j] = [after |-> 0, id |-> path[j]]
    BY PathForksIs
  <2>2. n \in Nat
    BY PathIs
  <2> HIDE DEF l, n
  <2>3. \A j \in 1 .. n : l.forks[j] = [after |-> 0, id |-> path[j]]
    BY <1>1, <2>1
  <2> QED BY <1>1, <2>1, <2>2, <2>3
<1>3. line.dom \in Domains /\ First(line) \in State
  BY LineIs
<1> HIDE DEF l
<1>4. PICK o : IsDescent(o, l) /\ SF!Origin(l) = o[Len(l.forks)]
  BY <1>1, OriginLoop, Zenon
<1>5. PICK p : IsWalk(p, line.dom, First(line), path)
               /\ PathState(line.dom, First(line), path) = p[n]
  BY <1>3, PathLoop, Zenon
<1>6. o[0] = First(line) /\ (\A j \in 0 .. n : o[j] \in State) /\ \A j \in 1 .. n :
        o[j] = ForkLane(line.dom, BlockAt(o[j-1], l.forks[j].after), l.forks[j].id)
  BY <1>1, <1>2, <1>4, DescentIs
<1>7. p[0] = First(line) /\ \A j \in 1 .. n : p[j] = ForkLane(line.dom, p[j-1], path[j])
  BY <1>3, <1>5, WalkIs
<1>8. \A j \in 0 .. n : o[j] = p[j]
  <2> HIDE DEF n
  <2>1. \A j \in 1 .. n : j - 1 \in 0 .. n
    BY <1>2
  <2>2. \A j \in 1 .. n : BlockAt(o[j-1], l.forks[j].after) = o[j-1]
    BY <1>2, <1>6, <2>1, BlockLaw
  <2>3. \A j \in 1 .. n : o[j-1] = p[j-1] => o[j] = p[j]
    BY <1>2, <1>6, <1>7, <2>2
  <2>4. o[0] = p[0]
    BY <1>6, <1>7
  <2>5. n \in Nat
    BY <1>2
  <2> QED BY ONLY <2>3, <2>4, <2>5, LoopsAgree, ZenonT(60)
<1>9. n \in 0 .. n
  BY <1>2
<1> QED BY <1>1, <1>2, <1>4, <1>5, <1>8, <1>9 DEF l

(* A path may be walked from its second identifier.                        *)
LEMMA PathHead ==
  ASSUME NEW dom \in Domains, NEW s \in State, NEW path \in Seq(Id), path # <<>>
  PROVE  /\ Head(path) \in Id /\ Tail(path) \in Seq(Id)
         /\ PathState(dom, s, path) = PathState(dom, ForkLane(dom, s, Head(path)), Tail(path))
<1> DEFINE tail == Tail(path)
           first == ForkLane(dom, s, Head(path))
           n == Len(tail)
<1>1. /\ Head(path) \in Id /\ tail \in Seq(Id) /\ n \in Nat /\ Len(path) = n + 1
      /\ Head(path) = path[1] /\ \A j \in 1 .. n : tail[j] = path[j + 1]
  OBVIOUS
<1>2. first \in State
  BY <1>1, ForkIn
<1> HIDE DEF tail, first
<1>3. PICK p : IsWalk(p, dom, s, path) /\ PathState(dom, s, path) = p[Len(path)]
  BY PathLoop, Zenon
<1>4. PICK q : IsWalk(q, dom, first, tail) /\ PathState(dom, first, tail) = q[Len(tail)]
  BY <1>1, <1>2, PathLoop, Zenon
<1>5. p[0] = s /\ \A j \in 1 .. n + 1 : p[j] = ForkLane(dom, p[j-1], path[j])
  BY <1>1, <1>3, WalkIs
<1>6. q[0] = first /\ \A j \in 1 .. n : q[j] = ForkLane(dom, q[j-1], tail[j])
  BY <1>1, <1>2, <1>4, WalkIs
<1> DEFINE r == [j \in 0 .. n |-> p[j + 1]]
<1>7. r[0] = first /\ r[n] = p[n + 1]
      /\ \A j \in 1 .. n : r[j] = ForkLane(dom, r[j-1], tail[j])
  <2> HIDE DEF n
  <2>1. r[0] = p[1] /\ r[n] = p[n + 1] /\ p[1] = first
    <3>1. 0 \in 0 .. n /\ n \in 0 .. n /\ 0 + 1 = 1 /\ 1 \in 1 .. n + 1 /\ 1 - 1 = 0
      BY <1>1
    <3>2. p[1] = ForkLane(dom, p[0], path[1])
      BY <1>5, <3>1
    <3> QED BY <1>1, <1>5, <3>1, <3>2 DEF first
  <2>2. ASSUME NEW j \in 1 .. n
        PROVE  r[j] = ForkLane(dom, r[j-1], tail[j])
    <3>1. j + 1 \in 1 .. n + 1 /\ (j + 1) - 1 = j /\ (j - 1) + 1 = j
          /\ j \in 0 .. n /\ j - 1 \in 0 .. n
      BY <1>1
    <3>2. p[j + 1] = ForkLane(dom, p[j], path[j + 1])
      BY <1>5, <3>1
    <3>3. r[j] = p[j + 1] /\ r[j-1] = p[j]
      BY <3>1
    <3> QED BY <1>1, <3>2, <3>3
  <2> QED BY <2>1, <2>2
<1>8. \A j \in 0 .. n : r[j] = q[j]
  <2> HIDE DEF n, r
  <2>1. \A j \in 1 .. n : r[j-1] = q[j-1] => r[j] = q[j]
    BY <1>6, <1>7
  <2>2. r[0] = q[0]
    BY <1>6, <1>7
  <2>3. n \in Nat
    BY <1>1
  <2> QED BY ONLY <2>1, <2>2, <2>3, LoopsAgree, ZenonT(60)
<1> HIDE DEF r
<1>9. r[n] = q[n]
  BY <1>1, <1>8
<1> QED BY <1>1, <1>3, <1>4, <1>7, <1>9 DEF tail, first

-----------------------------------------------------------------------------
(* The lanes an operation makes.                                           *)

Family(dom, lanes) == lanes \in Seq(LaneType) /\ GoodLanes(dom, lanes)

LEMMA FamilyOf ==
  ASSUME NEW dom \in Domains, NEW n \in Nat, NEW lanes, lanes = [i \in 1 .. n |-> lanes[i]],
         \A i \in 1 .. n : /\ lanes[i] \in LaneType /\ Good(lanes[i])
                           /\ lanes[i].line.dom = dom
  PROVE  Family(dom, lanes)
BY DEF Family, GoodLanes

LEMMA FamilyIs ==
  ASSUME NEW dom, NEW lanes, Family(dom, lanes)
  PROVE  /\ Len(lanes) \in Nat /\ DOMAIN lanes = 1 .. Len(lanes)
         /\ \A i \in 1 .. Len(lanes) :
              /\ lanes[i] \in LaneType /\ Good(lanes[i]) /\ lanes[i].line.dom = dom
BY DEF Family, GoodLanes

(* A stream at the beginning of its line.                                  *)
LEMMA NewLane ==
  ASSUME NEW line \in LineType, NEW s, s = SF!Origin(line)
  PROVE  /\ [s |-> s, step |-> 0, line |-> line, made |-> 0] \in LaneType
         /\ Good([s |-> s, step |-> 0, line |-> line, made |-> 0])
<1>1. SF!Origin(line) \in State
  BY OriginIn
<1>2. BlockAt(s, 0) = s /\ 0 <= MaxBlocks /\ 0 % StepMod = 0 /\ 0 \in 0 .. StepMod-1
  <2>1. StepMod \in Nat \ {0} /\ MaxBlocks \in Nat
    BY ConstantTypes
  <2>2. 0 % StepMod = 0 /\ 0 \in 0 .. StepMod-1
    BY <2>1
  <2> QED BY <1>1, <2>1, <2>2, BlockLaw
<1> DEFINE lane == [s |-> s, step |-> 0, line |-> line, made |-> 0]
<1>3. lane \in LaneType
  BY <1>1, <1>2 DEF LaneType
<1>4. lane.s = s /\ lane.step = 0 /\ lane.line = line /\ lane.made = 0
  OBVIOUS
<1> HIDE DEF lane
<1>5. Good(lane)
  BY <1>1, <1>2, <1>4 DEF Good, OnSchedule
<1> QED BY <1>3, <1>5 DEF lane

LEMMA PrngRoot ==
  ASSUME NEW seed \in Seeds, NEW id \in Id
  PROVE  /\ [dom |-> "prng", of |-> seed, id |-> id, forks |-> <<>>] \in LineType
         /\ First([dom |-> "prng", of |-> seed, id |-> id, forks |-> <<>>])
              = ForkLane("prng", seed, id)
BY DEF LineType, First

LEMMA XofRoot ==
  ASSUME NEW m \in Messages
  PROVE  /\ [dom |-> "xof", of |-> m, id |-> None, forks |-> <<>>] \in LineType
         /\ First([dom |-> "xof", of |-> m, id |-> None, forks |-> <<>>]) = Absorbed(m)
BY DEF LineType, First

LEMMA PrngLane ==
  ASSUME NEW seed \in Seeds, NEW id \in Id
  PROVE  LET lane == RootLane("prng", seed, id, ForkLane("prng", seed, id))
         IN  /\ lane \in LaneType /\ Good(lane) /\ lane.line.dom = "prng"
             /\ lane.line.forks = <<>> /\ lane.made = 0 /\ lane.step = 0
             /\ lane.s = First(lane.line)
<1> DEFINE line == [dom |-> "prng", of |-> seed, id |-> id, forks |-> <<>>]
           s == ForkLane("prng", seed, id)
<1>1. line \in LineType /\ First(line) = s /\ line.dom = "prng" /\ line.forks = <<>>
  BY PrngRoot
<1> HIDE DEF line, s
<1>2. SF!Origin(line) = s
  BY <1>1, OriginIn
<1>3. [s |-> s, step |-> 0, line |-> line, made |-> 0] \in LaneType
      /\ Good([s |-> s, step |-> 0, line |-> line, made |-> 0])
  BY <1>1, <1>2, NewLane
<1>4. RootLane("prng", seed, id, s) = [s |-> s, step |-> 0, line |-> line, made |-> 0]
  BY DEF RootLane, line
<1> QED BY <1>1, <1>3, <1>4 DEF s

LEMMA XofLane ==
  ASSUME NEW m \in Messages
  PROVE  LET lane == RootLane("xof", m, None, Absorbed(m))
         IN  /\ lane \in LaneType /\ Good(lane) /\ lane.line.dom = "xof"
             /\ lane.line.forks = <<>> /\ lane.made = 0 /\ lane.step = 0
             /\ lane.s = First(lane.line)
<1> DEFINE line == [dom |-> "xof", of |-> m, id |-> None, forks |-> <<>>]
           s == Absorbed(m)
<1>1. line \in LineType /\ First(line) = s /\ line.dom = "xof" /\ line.forks = <<>>
  BY XofRoot
<1> HIDE DEF line, s
<1>2. SF!Origin(line) = s
  BY <1>1, OriginIn
<1>3. [s |-> s, step |-> 0, line |-> line, made |-> 0] \in LaneType
      /\ Good([s |-> s, step |-> 0, line |-> line, made |-> 0])
  BY <1>1, <1>2, NewLane
<1>4. RootLane("xof", m, None, s) = [s |-> s, step |-> 0, line |-> line, made |-> 0]
  BY DEF RootLane, line
<1> QED BY <1>1, <1>3, <1>4 DEF s

(* A root: no forks, nothing given, at its own beginning.                  *)
IsRoot(lane) ==
  /\ lane \in LaneType /\ lane.line.forks = <<>> /\ lane.made = 0 /\ lane.step = 0
  /\ lane.s = First(lane.line)

LEMMA PrngLanesGood ==
  ASSUME NEW seed \in Seeds, NEW ids \in Seq(Id)
  PROVE  /\ Family("prng", PrngLanes(seed, ids)) /\ Len(PrngLanes(seed, ids)) = Len(ids)
         /\ \A i \in 1 .. Len(ids) : IsRoot(PrngLanes(seed, ids)[i])
<1> DEFINE n == Len(ids)
           R(i) == RootLane("prng", seed, ids[i], ForkLane("prng", seed, ids[i]))
<1>1. n \in Nat /\ DOMAIN ids = 1 .. n /\ \A i \in 1 .. n : ids[i] \in Id
  BY PathIs
<1>2. PrngLanes(seed, ids) = [i \in 1 .. n |-> R(i)]
  BY <1>1 DEF PrngLanes, ForkLane
<1>3. \A i \in 1 .. n : /\ R(i) \in LaneType /\ Good(R(i)) /\ R(i).line.dom = "prng"
                        /\ IsRoot(R(i))
  BY <1>1, PrngLane DEF IsRoot
<1> HIDE DEF R, n
<1>4. Family("prng", PrngLanes(seed, ids))
  <2> DEFINE lanes == PrngLanes(seed, ids)
  <2>1. lanes = [i \in 1 .. n |-> lanes[i]] /\ \A i \in 1 .. n : lanes[i] = R(i)
    BY <1>2
  <2> HIDE DEF lanes
  <2>2. Family("prng", lanes)
    BY <1>1, <1>3, <2>1, FamilyOf DEF Domains
  <2> QED BY <2>2 DEF lanes
<1>5. Len(PrngLanes(seed, ids)) = n
  BY <1>1, <1>2
<1> QED BY <1>2, <1>3, <1>4, <1>5 DEF n

LEMMA XofLanesGood ==
  ASSUME NEW messages, NEW n \in Nat, DOMAIN messages = 1 .. n,
         \A i \in 1 .. n : messages[i] \in Messages
  PROVE  /\ Family("xof", XofLanes(messages)) /\ Len(XofLanes(messages)) = n
         /\ \A i \in 1 .. n : IsRoot(XofLanes(messages)[i])
<1> DEFINE R(i) == RootLane("xof", messages[i], None, Absorbed(messages[i]))
<1>2. XofLanes(messages) = [i \in 1 .. n |-> R(i)]
  BY DEF XofLanes
<1>3. \A i \in 1 .. n : /\ R(i) \in LaneType /\ Good(R(i)) /\ R(i).line.dom = "xof"
                        /\ IsRoot(R(i))
  BY XofLane DEF IsRoot
<1> HIDE DEF R
<1>4. Family("xof", XofLanes(messages))
  <2> DEFINE lanes == XofLanes(messages)
  <2>1. lanes = [i \in 1 .. n |-> lanes[i]] /\ \A i \in 1 .. n : lanes[i] = R(i)
    BY <1>2
  <2> HIDE DEF lanes
  <2>2. Family("xof", lanes)
    BY <1>3, <2>1, FamilyOf DEF Domains
  <2> QED BY <2>2 DEF lanes
<1>5. Len(XofLanes(messages)) = n
  BY <1>2
<1> QED BY <1>2, <1>3, <1>4, <1>5

LEMMA RangeIdsIn ==
  ASSUME NEW first \in Id, NEW n \in Nat
  PROVE  /\ RangeIds(first, n) \in Seq(Id) /\ Len(RangeIds(first, n)) = n
         /\ \A i \in 1 .. n : RangeIds(first, n)[i] = (first + (i - 1)) % IdMod
<1>1. \A i \in 1 .. n : (first + (i - 1)) % IdMod \in Id
  <2> TAKE i \in 1 .. n
  <2> DEFINE x == first + (i - 1)
  <2>1. x \in Nat /\ IdMod \in Nat \ {0}
    BY ConstantTypes DEF Id
  <2> HIDE DEF x
  <2>2. x % IdMod \in 0 .. IdMod-1
    BY <2>1, DivMod
  <2> QED BY <2>2 DEF x, Id
<1> QED BY <1>1 DEF RangeIds

(* A fork of a lane is a stream at the beginning of a line of its own.     *)
LEMMA ChildGood ==
  ASSUME NEW lane \in LaneType, Good(lane), NEW id \in Id
  PROVE  LET child == Child(lane.line.dom, lane, id)
         IN  /\ child \in LaneType /\ Good(child) /\ child.line.dom = lane.line.dom
             /\ child.line = SonLine(lane.line, [after |-> lane.made, id |-> id])
             /\ child.made = 0
<1> DEFINE fork == [after |-> lane.made, id |-> id]
           line == SonLine(lane.line, fork)
           s == ForkLane(lane.line.dom, lane.s, id)
<1>1. lane.line \in LineType /\ lane.made \in Nat /\ lane.made <= MaxBlocks
      /\ lane.s = BlockAt(SF!Origin(lane.line), lane.made)
  BY DEF LaneType, Good, OnSchedule
<1>2. fork \in ForkType /\ fork.after = lane.made /\ fork.id = id
  BY <1>1, ConstantTypes DEF ForkType
<1>3. Child(lane.line.dom, lane, id) = [s |-> s, step |-> 0, line |-> line, made |-> 0]
  BY DEF Child, SonLine
<1> HIDE DEF fork
<1>4. line \in LineType /\ line.dom = lane.line.dom
  BY <1>1, <1>2, SonLineIs
<1>5. SF!Origin(line) = s
  BY <1>1, <1>2, OriginSon
<1> HIDE DEF line, s
<1>6. /\ [s |-> s, step |-> 0, line |-> line, made |-> 0] \in LaneType
      /\ Good([s |-> s, step |-> 0, line |-> line, made |-> 0])
  BY <1>4, <1>5, NewLane
<1> QED BY <1>3, <1>4, <1>6 DEF line, fork

LEMMA FreshLane ==
  ASSUME NEW lane \in LaneType, lane.step = 0, lane.made = 0, NEW s, NEW line
  PROVE  [lane EXCEPT !.s = s, !.line = line] = [s |-> s, step |-> 0, line |-> line, made |-> 0]
<1>2. [lane EXCEPT !.s = s] = [s |-> s, step |-> 0, line |-> lane.line, made |-> 0]
  BY DEF LaneType
<1>3. [[s |-> s, step |-> 0, line |-> lane.line, made |-> 0] EXCEPT !.line = line]
        = [s |-> s, step |-> 0, line |-> line, made |-> 0]
  OBVIOUS
<1>4. [lane EXCEPT !.s = s, !.line = line] = [[lane EXCEPT !.s = s] EXCEPT !.line = line]
  BY ONLY Zenon
<1> QED BY <1>2, <1>3, <1>4

(* A stream at the end of a path is at the beginning of the line of it.    *)
LEMMA DerivedGood ==
  ASSUME NEW lane, IsRoot(lane), NEW path \in Seq(Id)
  PROVE  LET end == Derived(lane, path)
         IN  /\ end \in LaneType /\ Good(end) /\ end.line.dom = lane.line.dom
             /\ end.line = [lane.line EXCEPT !.forks = PathForks(path)] /\ end.made = 0
<1> DEFINE line == [lane.line EXCEPT !.forks = PathForks(path)]
           s == PathState(lane.line.dom, First(lane.line), path)
<1>1. lane \in LaneType /\ lane.line \in LineType /\ lane.s = First(lane.line)
      /\ lane.step = 0 /\ lane.made = 0
  BY DEF IsRoot, LaneType
<1>2. Derived(lane, path) = [s |-> s, step |-> 0, line |-> line, made |-> 0]
  <2> DEFINE fs == PathForks(path)
  <2>1. Derived(lane, path) = [lane EXCEPT !.s = s, !.line = [lane.line EXCEPT !.forks = fs]]
    <3> HIDE DEF fs
    <3>1. [lane EXCEPT !.s = s, !.line.forks = fs]
            = [lane EXCEPT !.s = s, !.line = [lane.line EXCEPT !.forks = fs]]
      BY <1>1 DEF LaneType
    <3> QED BY <1>1, <3>1 DEF Derived, fs, PathForks
  <2> HIDE DEF fs, s
  <2>2. [lane EXCEPT !.s = s, !.line = [lane.line EXCEPT !.forks = fs]]
          = [s |-> s, step |-> 0, line |-> [lane.line EXCEPT !.forks = fs], made |-> 0]
    <3> DEFINE l == [lane.line EXCEPT !.forks = fs]
    <3> HIDE DEF l
    <3>3. [lane EXCEPT !.s = s, !.line = l] = [s |-> s, step |-> 0, line |-> l, made |-> 0]
      <4>1. \A x, y : [lane EXCEPT !.s = x, !.line = y]
                         = [s |-> x, step |-> 0, line |-> y, made |-> 0]
        BY <1>1, FreshLane
      <4> QED BY <4>1
    <3> QED BY <3>3, Zenon DEF l
  <2> QED BY <2>1, <2>2, Zenon DEF fs
<1>3. line \in LineType /\ SF!Origin(line) = s
  BY <1>1, PathOrigin
<1>4. line.dom = lane.line.dom
  BY <1>1 DEF LineType
<1> HIDE DEF line, s
<1>5. /\ [s |-> s, step |-> 0, line |-> line, made |-> 0] \in LaneType
      /\ Good([s |-> s, step |-> 0, line |-> line, made |-> 0])
  <2>1. line \in LineType /\ s = SF!Origin(line)
    BY <1>3
  <2> QED BY ONLY <2>1, NewLane, Zenon
<1>6. Derived(lane, path) \in LaneType /\ Good(Derived(lane, path))
      /\ Derived(lane, path).line = line /\ Derived(lane, path).made = 0
  BY <1>2, <1>5
<1> QED BY <1>4, <1>6, Zenon DEF line

-----------------------------------------------------------------------------
(* fork_many: the rows of children one after the other.                    *)

LEMMA Cell ==
  ASSUME NEW n \in Nat, NEW m \in Nat, NEW x \in 1 .. n * m
  PROVE  /\ m \in Nat \ {0}
         /\ ((x - 1) \div m) + 1 \in 1 .. n /\ ((x - 1) % m) + 1 \in 1 .. m
         /\ x = m * (((x - 1) \div m) + 1 - 1) + (((x - 1) % m) + 1)
<1>1. m # 0
  <2>1. n * 0 = 0
    OBVIOUS
  <2> QED BY <2>1
<1>2. x - 1 \in 0 .. m * n - 1 /\ x - 1 \in Nat
  OBVIOUS
<1> DEFINE y == x - 1
<1> HIDE DEF y
<1>3. y \div m \in 0 .. n-1
  BY <1>1, <1>2, QuotBound DEF y
<1>4. y % m \in 0 .. m-1 /\ y = m * (y \div m) + (y % m)
  BY <1>1, <1>2, DivMod DEF y
<1> DEFINE q == y \div m
           r == y % m
<1> HIDE DEF q, r
<1>5. q \in 0 .. n-1 /\ r \in 0 .. m-1 /\ y = m * q + r
  BY <1>3, <1>4 DEF q, r
<1>6. q + 1 \in 1 .. n /\ r + 1 \in 1 .. m /\ q + 1 - 1 = q
  BY <1>5
<1>7. x = y + 1
  BY DEF y
<1>8. x = m * (q + 1 - 1) + (r + 1)
  <2>1. m * q \in Nat
    BY <1>5
  <2> QED BY <1>5, <1>6, <1>7, <2>1
<1> QED BY <1>1, <1>6, <1>8 DEF q, r, y

(* n rows of m elements, and the rows one after the other.                 *)
IsRows(rows, n, m, S) ==
  /\ DOMAIN rows = 1 .. n /\ Len(rows) = n /\ rows = [i \in 1 .. n |-> rows[i]]
  /\ \A i \in 1 .. n : rows[i] \in Seq(S) /\ Len(rows[i]) = m

Joined(rows, n, m) == [x \in 1 .. n * m |-> rows[((x - 1) \div m) + 1][((x - 1) % m) + 1]]

LEMMA Flattened ==
  ASSUME NEW S, NEW n \in Nat, NEW m \in Nat, NEW rows, IsRows(rows, n, m, S)
  PROVE  FlattenSeq(rows) = Joined(rows, n, m)
<1> USE DEF IsRows
<1> DEFINE c(x) == rows[((x - 1) \div m) + 1][((x - 1) % m) + 1]
           G == [i \in 1 .. n |-> [x \in 1 .. i * m |-> c(x)]]
           F == CHOOSE f : f = [i \in 1 .. n |-> IF i = 1 THEN rows[i] ELSE f[i-1] \o rows[i]]
<1>1. ASSUME n = 0
      PROVE  FlattenSeq(rows) = [x \in 1 .. n * m |-> c(x)]
  <2>1. n * m = 0
    BY <1>1
  <2>2. 1 .. n = {} /\ 1 .. n * m = {}
    BY <1>1, <2>1
  <2>3. FlattenSeq(rows) = rows
    BY <1>1 DEF FlattenSeq
  <2> QED BY <2>2, <2>3
<1>2. ASSUME NEW i \in 1 .. n, NEW j \in 1 .. m
      PROVE  (i - 1) * m + j \in 1 .. i * m /\ c((i - 1) * m + j) = rows[i][j]
  <2> DEFINE x == (i - 1) * m + j
  <2>1. m \in Nat \ {0} /\ i - 1 \in Nat /\ j - 1 \in 0 .. m-1
    OBVIOUS
  <2>2. x - 1 = m * (i - 1) + (j - 1)
    BY <2>1
  <2>3. (x - 1) % m = j - 1 /\ (x - 1) \div m = i - 1
    <3> DEFINE p == i - 1
               r == j - 1
    <3>1. (m * p + r) % m = r /\ (m * p + r) \div m = p
      <4> HIDE DEF p, r
      <4> QED BY <2>1, QuotRem DEF p, r
    <3> QED BY <2>2, <3>1
  <2>4. i - 1 + 1 = i /\ j - 1 + 1 = j
    OBVIOUS
  <2>5. x \in 1 .. i * m
    <3> DEFINE a == (i - 1) * m
    <3>1. i * m = a + m
      OBVIOUS
    <3>2. a \in Nat
      BY <2>1
    <3> HIDE DEF a
    <3>3. a + j \in 1 .. a + m
      BY <3>2
    <3> QED BY <3>1, <3>3 DEF a
  <2> QED BY <2>3, <2>4, <2>5
<1>3. ASSUME NEW i \in 1 .. n, i # 1
      PROVE  G[i] = G[i-1] \o rows[i]
  <2> DEFINE a == (i - 1) * m
             left == [x \in 1 .. a |-> c(x)]
  <2>1. a \in Nat /\ i * m = a + m /\ i - 1 \in 1 .. n
    <3>1. i * m = a + m
      OBVIOUS
    <3>2. i - 1 \in 1 .. n
      BY <1>3
    <3>3. i - 1 \in Nat
      BY <3>2
    <3>4. a \in Nat
      BY <3>3
    <3> QED BY <3>1, <3>2, <3>4
  <2>2. G[i-1] = left /\ G[i] = [x \in 1 .. a + m |-> c(x)]
    BY <2>1
  <2>3. \A j \in 1 .. m : c(a + j) = rows[i][j]
    BY <1>2
  <2> HIDE DEF a, c
  <2>4. Len(left) = a /\ DOMAIN left = 1 .. a
    BY <2>1
  <2>5. rows[i] \in Seq(S) /\ Len(rows[i]) = m
    OBVIOUS
  <2>6. left \o rows[i] = [x \in 1 .. a + m |-> IF x <= a THEN left[x] ELSE rows[i][x - a]]
    BY <2>1, <2>4, <2>5, SMTT(40)
  <2>7. ASSUME NEW x \in 1 .. a + m
        PROVE  c(x) = IF x <= a THEN left[x] ELSE rows[i][x - a]
    <3>1. CASE x <= a
      <4>1. x \in 1 .. a
        BY <2>1, <3>1
      <4> QED BY <3>1, <4>1
    <3>2. CASE ~ (x <= a)
      <4>1. x - a \in 1 .. m /\ a + (x - a) = x
        BY <2>1, <3>2
      <4> QED BY <2>3, <3>2, <4>1
    <3> QED BY <3>1, <3>2
  <2>8. [x \in 1 .. a + m |-> c(x)]
          = [x \in 1 .. a + m |-> IF x <= a THEN left[x] ELSE rows[i][x - a]]
    <3> HIDE DEF left
    <3> QED BY <2>7
  <2> QED BY <2>2, <2>6, <2>8
<1>4. ASSUME n # 0
      PROVE  G[1] = rows[1]
  <2>1. 1 \in 1 .. n /\ 1 * m = m
    BY <1>4
  <2>2. G[1] = [x \in 1 .. m |-> c(x)]
    BY <2>1
  <2>3. \A j \in 1 .. m : c(j) = rows[1][j]
    <3>1. \A j \in 1 .. m : (1 - 1) * m + j = j
      OBVIOUS
    <3>2. \A j \in 1 .. m : c((1 - 1) * m + j) = rows[1][j]
      BY <1>2, <2>1
    <3> HIDE DEF c
    <3> QED BY <3>1, <3>2
  <2>4. rows[1] = [j \in 1 .. m |-> rows[1][j]]
    BY <2>1
  <2> HIDE DEF c
  <2> QED BY <2>2, <2>3, <2>4
<1> HIDE DEF c
<1>5. ASSUME n # 0
      PROVE  FlattenSeq(rows) = F[n]
  BY <1>5, Zenon DEF FlattenSeq
<1>6. G = [i \in 1 .. n |-> IF i = 1 THEN rows[i] ELSE G[i-1] \o rows[i]]
  <2>1. \A i \in 1 .. n : G[i] = IF i = 1 THEN rows[i] ELSE G[i-1] \o rows[i]
    <3>1. \A i \in 1 .. n : n # 0
      OBVIOUS
    <3> HIDE DEF G
    <3> QED BY <1>3, <1>4, <3>1
  <2>2. G = [i \in 1 .. n |-> G[i]]
    OBVIOUS
  <2> HIDE DEF G
  <2> QED BY <2>1, <2>2
<1>7. F = [i \in 1 .. n |-> IF i = 1 THEN rows[i] ELSE F[i-1] \o rows[i]]
  <2> HIDE DEF G
  <2> QED BY ONLY <1>6
<1> HIDE DEF F
<1>8. ASSUME n # 0
      PROVE  F[n] = G[n]
  <2> DEFINE T == {k \in Nat : k + 1 <= n => F[k + 1] = G[k + 1]}
  <2> HIDE DEF G
  <2>1. 0 \in T
    <3>1. 1 \in 1 .. n /\ 0 + 1 = 1
      BY <1>8
    <3> QED BY <1>4, <1>7, <1>8, <3>1
  <2>2. ASSUME NEW k \in Nat, k \in T
        PROVE  k + 1 \in T
    <3> SUFFICES ASSUME (k + 1) + 1 <= n
                 PROVE  F[(k + 1) + 1] = G[(k + 1) + 1]
      OBVIOUS
    <3> DEFINE i == (k + 1) + 1
    <3>1. i \in 1 .. n /\ i # 1 /\ i - 1 = k + 1 /\ k + 1 <= n
      OBVIOUS
    <3>2. F[k + 1] = G[k + 1]
      BY <2>2, <3>1
    <3> HIDE DEF i
    <3>3. F[i] = F[i-1] \o rows[i] /\ G[i] = G[i-1] \o rows[i]
      BY <1>3, <1>7, <3>1
    <3>4. F[i] = G[i]
      BY <3>1, <3>2, <3>3
    <3> QED BY <3>4 DEF i
  <2>3. n - 1 \in T
    <3>1. n - 1 \in Nat
      BY <1>8
    <3> HIDE DEF T
    <3> QED BY <2>1, <2>2, <3>1, Induction
  <2>4. n - 1 + 1 = n
    OBVIOUS
  <2> QED BY <2>3, <2>4
<1>9. ASSUME n # 0
      PROVE  FlattenSeq(rows) = [x \in 1 .. n * m |-> c(x)]
  <2>1. n \in 1 .. n
    BY <1>9
  <2>2. G[n] = [x \in 1 .. n * m |-> c(x)]
    BY <2>1
  <2> HIDE DEF G
  <2> QED BY <1>5, <1>8, <1>9, <2>2
<1>10. FlattenSeq(rows) = [x \in 1 .. n * m |-> c(x)]
  BY <1>1, <1>9
<1> QED BY <1>10 DEF c, Joined

LEMMA ChildOf ==
  ASSUME NEW dom, NEW lane \in LaneType, Good(lane), lane.line.dom = dom, NEW id \in Id
  PROVE  /\ Child(dom, lane, id) \in LaneType /\ Good(Child(dom, lane, id))
         /\ Child(dom, lane, id).line.dom = dom
BY ChildGood

LEMMA DerivedOf ==
  ASSUME NEW dom, NEW lane, IsRoot(lane), lane.line.dom = dom, NEW path \in Seq(Id)
  PROVE  /\ Derived(lane, path) \in LaneType /\ Good(Derived(lane, path))
         /\ Derived(lane, path).line.dom = dom
BY DerivedGood

LEMMA ChildrenRows ==
  ASSUME NEW dom \in Domains, NEW lanes, Family(dom, lanes), NEW ids \in Seq(Id)
  PROVE  LET x == [dom |-> dom, lanes |-> lanes]
             n == Len(lanes)
             m == Len(ids)
         IN  Children(x, ids)
               = [k \in 1 .. n * m |->
                    Child(dom, lanes[((k - 1) \div m) + 1], ids[((k - 1) % m) + 1])]
<1> DEFINE x == [dom |-> dom, lanes |-> lanes]
           n == Len(lanes)
           m == Len(ids)
           rows == [i \in 1 .. n |-> [j \in 1 .. m |-> Child(dom, lanes[i], ids[j])]]
<1>1. n \in Nat /\ DOMAIN lanes = 1 .. n /\ m \in Nat /\ DOMAIN ids = 1 .. m
      /\ \A i \in 1 .. n : lanes[i] \in LaneType /\ Good(lanes[i]) /\ lanes[i].line.dom = dom
  BY FamilyIs, PathIs
<1>2. \A j \in 1 .. m : ids[j] \in Id
  BY PathIs
<1>3. Children(x, ids) = FlattenSeq(rows)
  BY <1>1 DEF Children
<1>4. \A i \in 1 .. n, j \in 1 .. m : Child(dom, lanes[i], ids[j]) \in LaneType
  BY <1>1, <1>2, ChildOf
<1> HIDE DEF n, m
<1>5. DOMAIN rows = 1 .. n /\ Len(rows) = n /\ rows = [i \in 1 .. n |-> rows[i]]
  BY <1>1
<1>6. \A i \in 1 .. n : rows[i] \in Seq(LaneType) /\ Len(rows[i]) = m
                        /\ \A j \in 1 .. m : rows[i][j] = Child(dom, lanes[i], ids[j])
  <2> TAKE i \in 1 .. n
  <2> DEFINE row == [j \in 1 .. m |-> Child(dom, lanes[i], ids[j])]
  <2>1. rows[i] = row
    OBVIOUS
  <2>2. row \in [1 .. m -> LaneType]
    BY <1>4
  <2>3. row \in Seq(LaneType) /\ Len(row) = m
    <3> HIDE DEF row
    <3> QED BY <1>1, <2>2
  <2>4. \A j \in 1 .. m : row[j] = Child(dom, lanes[i], ids[j])
    OBVIOUS
  <2> HIDE DEF row, rows
  <2> QED BY <2>1, <2>3, <2>4
<1> HIDE DEF rows
<1>7. FlattenSeq(rows) = [k \in 1 .. n * m |-> rows[((k - 1) \div m) + 1][((k - 1) % m) + 1]]
  <2>1. \A i \in 1 .. n : rows[i] \in Seq(LaneType) /\ Len(rows[i]) = m
    BY <1>6
  <2>2. n \in Nat /\ m \in Nat
    BY <1>1
  <2>3. IsRows(rows, n, m, LaneType)
    BY <1>5, <2>1 DEF IsRows
  <2>4. FlattenSeq(rows) = Joined(rows, n, m)
    BY <2>2, <2>3, Flattened, Zenon
  <2> QED BY <2>4 DEF Joined
<1>8. \A k \in 1 .. n * m :
        rows[((k - 1) \div m) + 1][((k - 1) % m) + 1]
          = Child(dom, lanes[((k - 1) \div m) + 1], ids[((k - 1) % m) + 1])
  <2> TAKE k \in 1 .. n * m
  <2>1. ((k - 1) \div m) + 1 \in 1 .. n /\ ((k - 1) % m) + 1 \in 1 .. m
    BY <1>1, Cell
  <2> QED BY <1>6, <2>1
<1>9. [k \in 1 .. n * m |-> rows[((k - 1) \div m) + 1][((k - 1) % m) + 1]]
        = [k \in 1 .. n * m |-> Child(dom, lanes[((k - 1) \div m) + 1], ids[((k - 1) % m) + 1])]
  BY <1>8
<1> QED BY <1>3, <1>7, <1>9 DEF n, m

LEMMA ChildrenGood ==
  ASSUME NEW dom \in Domains, NEW lanes, Family(dom, lanes), NEW ids \in Seq(Id)
  PROVE  Family(dom, Children([dom |-> dom, lanes |-> lanes], ids))
<1> DEFINE n == Len(lanes)
           m == Len(ids)
           all == Children([dom |-> dom, lanes |-> lanes], ids)
           at(k) == ((k - 1) \div m) + 1
           by(k) == ((k - 1) % m) + 1
<1>1. n \in Nat /\ DOMAIN lanes = 1 .. n /\ m \in Nat /\ DOMAIN ids = 1 .. m
      /\ \A i \in 1 .. n : lanes[i] \in LaneType /\ Good(lanes[i]) /\ lanes[i].line.dom = dom
  BY FamilyIs, PathIs
<1>2. \A j \in 1 .. m : ids[j] \in Id
  BY PathIs
<1>3. all = [k \in 1 .. n * m |-> Child(dom, lanes[at(k)], ids[by(k)])]
  BY ChildrenRows, ZenonT(60)
<1> HIDE DEF n, m
<1>4. \A k \in 1 .. n * m : at(k) \in 1 .. n /\ by(k) \in 1 .. m
  BY <1>1, Cell
<1> HIDE DEF all, at, by
<1>5. \A i \in 1 .. n, j \in 1 .. m :
        /\ Child(dom, lanes[i], ids[j]) \in LaneType /\ Good(Child(dom, lanes[i], ids[j]))
        /\ Child(dom, lanes[i], ids[j]).line.dom = dom
  BY <1>1, <1>2, ChildOf
<1>6. \A k \in 1 .. n * m : all[k] \in LaneType /\ Good(all[k]) /\ all[k].line.dom = dom
  BY <1>3, <1>4, <1>5
<1>7. all = [k \in 1 .. n * m |-> all[k]] /\ n * m \in Nat
  BY <1>1, <1>3
<1>8. Family(dom, all)
  <2> DEFINE p == n * m
  <2> HIDE DEF p
  <2> QED BY <1>6, <1>7, FamilyOf DEF p
<1> QED BY <1>8 DEF all

LEMMA DerivedLanes ==
  ASSUME NEW dom \in Domains, NEW roots, Family(dom, roots),
         \A i \in 1 .. Len(roots) : IsRoot(roots[i]), NEW path \in Seq(Id)
  PROVE  Family(dom, [i \in DOMAIN roots |-> Derived(roots[i], path)])
<1> DEFINE n == Len(roots)
           lanes == [i \in DOMAIN roots |-> Derived(roots[i], path)]
<1>1. n \in Nat /\ DOMAIN roots = 1 .. n /\ \A i \in 1 .. n : roots[i].line.dom = dom
  BY FamilyIs
<1>2. \A i \in 1 .. n : /\ lanes[i] \in LaneType /\ Good(lanes[i])
                        /\ lanes[i].line.dom = dom
  <2>1. \A i \in 1 .. n : lanes[i] = Derived(roots[i], path)
    BY <1>1
  <2> HIDE DEF lanes
  <2> QED BY <1>1, <2>1, DerivedOf
<1>3. lanes = [i \in 1 .. n |-> lanes[i]]
  BY <1>1
<1> HIDE DEF lanes
<1>4. Family(dom, lanes)
  BY <1>1, <1>2, <1>3, FamilyOf
<1> QED BY <1>4 DEF lanes

LEMMA ChildLanes ==
  ASSUME NEW dom \in Domains, NEW lanes, Family(dom, lanes), NEW ids \in Seq(Id),
         Len(ids) = Len(lanes)
  PROVE  Family(dom, [i \in DOMAIN lanes |-> Child(dom, lanes[i], ids[i])])
<1> DEFINE n == Len(lanes)
           all == [i \in DOMAIN lanes |-> Child(dom, lanes[i], ids[i])]
<1>1. n \in Nat /\ DOMAIN lanes = 1 .. n
      /\ \A i \in 1 .. n : /\ lanes[i] \in LaneType /\ Good(lanes[i])
                           /\ lanes[i].line.dom = dom /\ ids[i] \in Id
  BY FamilyIs, PathIs
<1>2. \A i \in 1 .. n : all[i] \in LaneType /\ Good(all[i]) /\ all[i].line.dom = dom
  <2>1. \A i \in 1 .. n : all[i] = Child(dom, lanes[i], ids[i])
    BY <1>1
  <2> HIDE DEF all
  <2> QED BY <1>1, <2>1, ChildOf
<1>3. all = [i \in 1 .. n |-> all[i]]
  BY <1>1
<1> HIDE DEF all
<1>4. Family(dom, all)
  BY <1>1, <1>2, <1>3, FamilyOf
<1> QED BY <1>4 DEF all

LEMMA RanLanes ==
  ASSUME NEW dom \in Domains, NEW lanes, Family(dom, lanes), NEW steps \in Nat,
         \A i \in DOMAIN lanes : lanes[i].made + steps <= MaxBlocks
  PROVE  Family(dom, [i \in DOMAIN lanes |-> Ran(lanes[i], steps)])
<1> DEFINE n == Len(lanes)
           all == [i \in DOMAIN lanes |-> Ran(lanes[i], steps)]
<1>1. n \in Nat /\ DOMAIN lanes = 1 .. n
      /\ \A i \in 1 .. n : lanes[i] \in LaneType /\ Good(lanes[i]) /\ lanes[i].line.dom = dom
  BY FamilyIs
<1>2. \A i \in 1 .. n : all[i] \in LaneType /\ Good(all[i]) /\ all[i].line.dom = dom
  <2>1. \A i \in 1 .. n : all[i] = Ran(lanes[i], steps)
    BY <1>1
  <2> HIDE DEF all
  <2> QED BY <1>1, <2>1, RanGood
<1>3. all = [i \in 1 .. n |-> all[i]]
  BY <1>1
<1> HIDE DEF all
<1>4. Family(dom, all)
  BY <1>1, <1>2, <1>3, FamilyOf
<1> QED BY <1>4 DEF all

PrngEnd(seed, path) ==
  [RootLane("prng", seed, Head(path), PathState("prng", seed, path)) EXCEPT
     !.line.forks = [j \in DOMAIN Tail(path) |-> [after |-> 0, id |-> Tail(path)[j]]]]

(* The first identifier of a PRNG path is that of the root.                *)
LEMMA PrngEndGood ==
  ASSUME NEW seed \in Seeds, NEW path \in Seq(Id), path # <<>>
  PROVE  LET root == [dom |-> "prng", of |-> seed, id |-> Head(path), forks |-> <<>>]
         IN  /\ PrngEnd(seed, path) \in LaneType /\ Good(PrngEnd(seed, path))
             /\ PrngEnd(seed, path).line = [root EXCEPT !.forks = PathForks(Tail(path))]
             /\ PrngEnd(seed, path).made = 0
<1> DEFINE root == [dom |-> "prng", of |-> seed, id |-> Head(path), forks |-> <<>>]
           line == [root EXCEPT !.forks = PathForks(Tail(path))]
           s == PathState("prng", seed, path)
           lane == RootLane("prng", seed, Head(path), s)
<1>1. Head(path) \in Id /\ Tail(path) \in Seq(Id) /\ seed \in State
      /\ s = PathState("prng", ForkLane("prng", seed, Head(path)), Tail(path))
  BY PathHead, ConstantTypes DEF Domains
<1>2. root \in LineType /\ First(root) = ForkLane("prng", seed, Head(path)) /\ root.dom = "prng"
  BY <1>1, PrngRoot
<1> HIDE DEF s
<1>3. PrngEnd(seed, path) = [s |-> s, step |-> 0, line |-> line, made |-> 0]
  <2> DEFINE fs == PathForks(Tail(path))
  <2>1. lane = [s |-> s, step |-> 0, line |-> root, made |-> 0]
    BY DEF RootLane
  <2>2. PrngEnd(seed, path) = [lane EXCEPT !.line.forks = fs]
    BY DEF PrngEnd, PathForks, s
  <2> HIDE DEF lane, root, fs
  <2>3. [lane EXCEPT !.line.forks = fs] = [s |-> s, step |-> 0, line |-> [root EXCEPT !.forks = fs], made |-> 0]
    BY <2>1
  <2> QED BY <2>2, <2>3 DEF fs
<1> HIDE DEF root
<1>4. line \in LineType /\ SF!Origin(line) = s
  BY <1>1, <1>2, PathOrigin
<1> HIDE DEF line
<1>5. /\ [s |-> s, step |-> 0, line |-> line, made |-> 0] \in LaneType
      /\ Good([s |-> s, step |-> 0, line |-> line, made |-> 0])
  BY <1>4, NewLane
<1>6. PrngEnd(seed, path) \in LaneType /\ Good(PrngEnd(seed, path))
      /\ PrngEnd(seed, path).line = line /\ PrngEnd(seed, path).made = 0
  BY <1>3, <1>5
<1> QED BY <1>6, Zenon DEF line, root

LEMMA XofEndGood ==
  ASSUME NEW m \in Messages, NEW path \in Seq(Id)
  PROVE  LET root == [dom |-> "xof", of |-> m, id |-> None, forks |-> <<>>]
             end  == Derived(XofLanes(<<m>>)[1], path)
         IN  /\ end \in LaneType /\ Good(end) /\ end.made = 0
             /\ end.line = [root EXCEPT !.forks = PathForks(path)]
<1> DEFINE lane == RootLane("xof", m, None, Absorbed(m))
           root == [dom |-> "xof", of |-> m, id |-> None, forks |-> <<>>]
<1>1. XofLanes(<<m>>)[1] = lane
  BY DEF XofLanes
<1>2. IsRoot(lane)
  BY XofLane DEF IsRoot
<1>3. lane.line = root
  BY DEF RootLane
<1> HIDE DEF lane, root
<1>4. Derived(lane, path) \in LaneType /\ Good(Derived(lane, path))
      /\ Derived(lane, path).line = [lane.line EXCEPT !.forks = PathForks(path)]
      /\ Derived(lane, path).made = 0
  BY <1>2, DerivedGood
<1> QED BY <1>1, <1>3, <1>4, Zenon DEF root

-----------------------------------------------------------------------------
(* Every step keeps the invariant.                                         *)

LEMMA PutKeeps ==
  ASSUME IInv, NEW b \in Batch, NEW dom \in Domains, NEW lanes, Family(dom, lanes),
         Put(b, dom, lanes)
  PROVE  IInv'
<1> DEFINE x == [dom |-> dom, lanes |-> lanes]
<1>1. x \in BatchType /\ x.dom = dom /\ x.lanes = lanes
  BY DEF BatchType, Family
<1>2. GoodLanes(x.dom, x.lanes)
  BY <1>1 DEF Family
<1>3. batch' = [batch EXCEPT ![b] = x] /\ solo' = solo /\ saved' = saved
  BY DEF Put
<1> HIDE DEF x
<1>4. batch \in [Batch -> {None} \cup BatchType]
  BY DEF IInv, Types
<1>5. batch' \in [Batch -> {None} \cup BatchType]
      /\ \A c \in Batch : batch'[c] = IF c = b THEN x ELSE batch[c]
  BY <1>1, <1>3, <1>4
<1>6. \A c \in Batch : batch'[c] # None => GoodLanes(batch'[c].dom, batch'[c].lanes)
  BY <1>2, <1>5 DEF IInv, Goods
<1>7. Types'
  BY <1>3, <1>5 DEF IInv, Types
<1>8. Goods'
  BY <1>3, <1>6 DEF IInv, Goods
<1> QED BY <1>7, <1>8 DEF IInv

LEMMA SoloKeeps ==
  ASSUME IInv, NEW h \in Solo, NEW lane \in LaneType, Good(lane),
         solo' = [solo EXCEPT ![h] = lane], UNCHANGED <<batch, saved>>
  PROVE  IInv'
<1>1. solo \in [Solo -> {None} \cup LaneType]
  BY DEF IInv, Types
<1>2. solo' \in [Solo -> {None} \cup LaneType]
      /\ \A c \in Solo : solo'[c] = IF c = h THEN lane ELSE solo[c]
  BY <1>1
<1>3. \A c \in Solo : solo'[c] # None => Good(solo'[c])
  BY <1>2 DEF IInv, Goods
<1>4. Types'
  BY <1>2 DEF IInv, Types
<1>5. Goods'
  BY <1>3 DEF IInv, Goods
<1> QED BY <1>4, <1>5 DEF IInv

LEMMA SameKeeps ==
  ASSUME IInv, UNCHANGED <<batch, solo, saved>>
  PROVE  IInv'
<1>1. Types'
  BY DEF IInv, Types
<1>2. Goods'
  BY DEF IInv, Goods
<1> QED BY <1>1, <1>2 DEF IInv

LEMMA BatchIs ==
  ASSUME IInv, NEW b \in Batch, batch[b] # None
  PROVE  /\ batch[b] \in BatchType /\ batch[b].dom \in Domains
         /\ batch[b] = [dom |-> batch[b].dom, lanes |-> batch[b].lanes]
         /\ Family(batch[b].dom, batch[b].lanes)
<1>1. batch[b] \in BatchType
  BY DEF IInv, Types
<1>2. GoodLanes(batch[b].dom, batch[b].lanes)
  BY DEF IInv, Goods
<1>3. batch[b].dom \in Domains /\ batch[b].lanes \in Seq(LaneType)
      /\ batch[b] = [dom |-> batch[b].dom, lanes |-> batch[b].lanes]
  BY <1>1 DEF BatchType
<1> QED BY <1>1, <1>2, <1>3 DEF Family

LEMMA FileIs ==
  ASSUME IInv, NEW k \in Store, saved[k] # None
  PROVE  /\ saved[k] \in FileType /\ saved[k].kind \in Domains /\ saved[k].len \in Nat
         /\ Family(saved[k].kind, saved[k].lanes)
         /\ saved[k].count = Len(saved[k].lanes) /\ Len(saved[k].lanes) \in Nat
         /\ saved[k].len <= HeaderLen + LaneLen * saved[k].count
<1>1. saved[k] \in FileType
  BY DEF IInv, Types
<1>2. GoodFile(saved[k])
  BY DEF IInv, Goods
<1>3. saved[k].kind \in Domains /\ saved[k].lanes \in Seq(LaneType) /\ saved[k].len \in Nat
  BY <1>1 DEF FileType
<1> QED BY <1>1, <1>2, <1>3 DEF GoodFile, Family

LEMMA MessagesIn ==
  ASSUME NEW messages \in MessageLists
  PROVE  /\ Len(messages) \in Nat /\ DOMAIN messages = 1 .. Len(messages)
         /\ \A i \in 1 .. Len(messages) : messages[i] \in Messages
BY ConstantTypes DEF Messages

LEMMA NewXofKeeps ==
  ASSUME IInv, NEW b \in Batch, NEW messages \in MessageLists, NewXof(b, messages)
  PROVE  IInv'
<1>1. Family("xof", XofLanes(messages))
  BY MessagesIn, XofLanesGood
<1>2. Put(b, "xof", XofLanes(messages)) /\ "xof" \in Domains
  BY DEF NewXof, Domains
<1> QED BY <1>1, <1>2, PutKeeps

LEMMA NewPrngKeeps ==
  ASSUME IInv, NEW b \in Batch, NEW seed \in Seeds, NEW ids \in Seq(Id),
         Put(b, "prng", PrngLanes(seed, ids))
  PROVE  IInv'
<1>1. Family("prng", PrngLanes(seed, ids)) /\ "prng" \in Domains
  BY PrngLanesGood DEF Domains
<1> QED BY <1>1, PutKeeps

LEMMA DeriveKeeps ==
  ASSUME IInv, NEW b \in Batch, NEW dom \in Domains, NEW roots, Family(dom, roots),
         \A i \in 1 .. Len(roots) : IsRoot(roots[i]), NEW path \in Seq(Id),
         DerivePath(b, dom, roots, path)
  PROVE  IInv'
<1>1. CASE path = <<>>
  BY <1>1, SameKeeps DEF DerivePath, Refuse
<1>2. CASE path # <<>>
  <2> DEFINE lanes == [i \in DOMAIN roots |-> Derived(roots[i], path)]
  <2>1. Put(b, dom, lanes)
    BY <1>2 DEF DerivePath
  <2>2. Family(dom, lanes)
    BY DerivedLanes
  <2> HIDE DEF lanes
  <2> QED BY <2>1, <2>2, PutKeeps
<1> QED BY <1>1, <1>2

LEMMA PrngSoloKeeps ==
  ASSUME IInv, NEW h \in Solo, NEW seed \in Seeds, NEW path \in Seq(Id), PrngSolo(h, seed, path)
  PROVE  IInv'
<1>1. CASE path = <<>>
  BY <1>1, SameKeeps DEF PrngSolo, Refuse
<1>2. CASE path # <<>>
  <2>1. PutSolo(h, PrngEnd(seed, path))
    BY <1>2 DEF PrngSolo, PrngEnd
  <2>2. PrngEnd(seed, path) \in LaneType /\ Good(PrngEnd(seed, path))
    BY <1>2, PrngEndGood
  <2> QED BY <2>1, <2>2, SoloKeeps DEF PutSolo
<1> QED BY <1>1, <1>2

LEMMA XofSoloKeeps ==
  ASSUME IInv, NEW h \in Solo, NEW m \in Messages, NEW path \in Seq(Id), XofSolo(h, m, path)
  PROVE  IInv'
<1>1. CASE path = <<>>
  BY <1>1, SameKeeps DEF XofSolo, Refuse
<1>2. CASE path # <<>>
  <2> DEFINE end == Derived(XofLanes(<<m>>)[1], path)
  <2>1. PutSolo(h, end)
    BY <1>2 DEF XofSolo
  <2>2. end \in LaneType /\ Good(end)
    BY XofEndGood
  <2> HIDE DEF end
  <2> QED BY <2>1, <2>2, SoloKeeps DEF PutSolo
<1> QED BY <1>1, <1>2

LEMMA ForkKeeps ==
  ASSUME IInv, NEW b \in Batch, NEW c \in Batch, NEW ids \in Seq(Id), Fork(b, c, ids)
  PROVE  IInv'
<1> DEFINE dom == batch[b].dom
           lanes == batch[b].lanes
           all == [i \in DOMAIN lanes |-> Child(dom, lanes[i], ids[i])]
<1>1. dom \in Domains /\ Family(dom, lanes)
  BY BatchIs DEF Fork
<1>2. CASE Len(ids) # Len(lanes)
  BY <1>2, SameKeeps DEF Fork, Refuse
<1>3. CASE Len(ids) = Len(lanes)
  <2>1. Put(c, dom, all)
    BY <1>3 DEF Fork
  <2> HIDE DEF dom, lanes
  <2>2. Family(dom, all)
    BY <1>1, <1>3, ChildLanes
  <2> HIDE DEF all
  <2> QED BY <1>1, <2>1, <2>2, PutKeeps
<1> QED BY <1>2, <1>3

LEMMA ForkManyKeeps ==
  ASSUME IInv, NEW b \in Batch, NEW c \in Batch, NEW ids \in Seq(Id), ForkMany(b, c, ids)
  PROVE  IInv'
<1> DEFINE dom == batch[b].dom
           lanes == batch[b].lanes
           all == Children(batch[b], ids)
<1>1. dom \in Domains /\ Family(dom, lanes) /\ batch[b] = [dom |-> dom, lanes |-> lanes]
  BY BatchIs DEF ForkMany
<1>2. CASE Len(lanes) * Len(ids) > UsizeMax
  BY <1>2, SameKeeps DEF ForkMany, Refuse
<1>3. CASE ~ (Len(lanes) * Len(ids) > UsizeMax)
  <2>1. Put(c, dom, all)
    BY <1>3 DEF ForkMany
  <2> HIDE DEF dom, lanes
  <2>2. Family(dom, Children([dom |-> dom, lanes |-> lanes], ids))
    BY <1>1, ChildrenGood
  <2>3. Family(dom, all)
    BY <1>1, <2>2
  <2> HIDE DEF all
  <2> QED BY <1>1, <2>1, <2>3, PutKeeps
<1> QED BY <1>2, <1>3

LEMMA CloneKeeps ==
  ASSUME IInv, NEW b \in Batch, NEW c \in Batch, Clone(b, c)
  PROVE  IInv'
BY BatchIs, PutKeeps DEF Clone

LEMMA LaneKeeps ==
  ASSUME IInv, NEW b \in Batch, NEW h \in Solo, NEW i, Lane(b, i, h)
  PROVE  IInv'
<1>1. Family(batch[b].dom, batch[b].lanes)
  BY BatchIs DEF Lane
<1>2. batch[b].lanes[i] \in LaneType /\ Good(batch[b].lanes[i])
  BY <1>1, FamilyIs DEF Lane
<1> QED BY <1>2, SoloKeeps DEF Lane, PutSolo

LEMMA BlocksKeeps ==
  ASSUME IInv, NEW b \in Batch, NEW steps \in Nat, Blocks(b, steps)
  PROVE  IInv'
<1> DEFINE dom == batch[b].dom
           lanes == batch[b].lanes
           all == [i \in DOMAIN lanes |-> Ran(lanes[i], steps)]
<1>1. dom \in Domains /\ Family(dom, lanes) /\ batch[b] \in BatchType
  BY BatchIs DEF Blocks
<1>2. CASE Len(lanes) * steps > UsizeMax
  BY <1>2, SameKeeps DEF Blocks, Refuse
<1>3. CASE ~ (Len(lanes) * steps > UsizeMax)
  <2>1. (\A i \in DOMAIN lanes : lanes[i].made + steps <= MaxBlocks)
        /\ batch' = [batch EXCEPT ![b].lanes = all]
        /\ solo' = solo /\ saved' = saved
    BY <1>3 DEF Blocks
  <2> HIDE DEF dom, lanes
  <2>2. Family(dom, all)
    BY <1>1, <2>1, RanLanes
  <2> HIDE DEF all
  <2> DEFINE x == [batch[b] EXCEPT !.lanes = all]
  <2>3. x \in BatchType /\ x.dom = dom /\ x.lanes = all
    BY <1>1, <2>2 DEF BatchType, Family, dom
  <2>4. batch' = [batch EXCEPT ![b] = x]
    BY <2>1
  <2> HIDE DEF x
  <2>5. batch \in [Batch -> {None} \cup BatchType]
    BY DEF IInv, Types
  <2>6. batch' \in [Batch -> {None} \cup BatchType]
        /\ \A c \in Batch : batch'[c] = IF c = b THEN x ELSE batch[c]
    BY <2>3, <2>4, <2>5
  <2>7. \A c \in Batch : batch'[c] # None => GoodLanes(batch'[c].dom, batch'[c].lanes)
    BY <2>2, <2>3, <2>6 DEF IInv, Goods, Family
  <2>8. Types'
    BY <2>1, <2>6 DEF IInv, Types
  <2>9. Goods'
    BY <2>1, <2>7 DEF IInv, Goods
  <2> QED BY <2>8, <2>9 DEF IInv
<1> QED BY <1>2, <1>3

LEMMA SoloBlockKeeps ==
  ASSUME IInv, NEW h \in Solo, SoloBlock(h)
  PROVE  IInv'
<1>1. solo[h] \in LaneType /\ Good(solo[h]) /\ solo[h].made \in Nat /\ solo[h].made < MaxBlocks
  <2>1. solo[h] \in LaneType /\ Good(solo[h])
    BY DEF SoloBlock, IInv, Types, Goods
  <2> QED BY <2>1 DEF SoloBlock, LaneType
<1>2. solo[h].made + 1 <= MaxBlocks
  BY <1>1, ConstantTypes
<1>3. Stepped(solo[h]) \in LaneType /\ Good(Stepped(solo[h]))
  <2>1. Ran(solo[h], 0 + 1) = Stepped(Ran(solo[h], 0)) /\ Ran(solo[h], 0) = solo[h]
    BY <1>1, RanNext
  <2>2. 0 + 1 = 1 /\ 1 \in Nat
    OBVIOUS
  <2> QED BY <1>1, <1>2, <2>1, <2>2, RanGood
<1> QED BY <1>3, SoloKeeps DEF SoloBlock

LEMMA EndedGood ==
  ASSUME IInv, End, saved' \in [Store -> {None} \cup FileType],
         \A k \in Store : saved'[k] # None => GoodFile(saved'[k])
  PROVE  IInv'
<1>1. Types'
  BY DEF End, Types
<1>2. Goods'
  BY DEF End, Goods
<1> QED BY <1>1, <1>2 DEF IInv

(* The whole snapshot of a batch, or a part of it.                         *)
LEMMA Written ==
  ASSUME IInv, NEW b \in Batch, batch[b] # None, NEW len \in Nat,
         len <= ToBytes(batch[b]).len
  PROVE  /\ [ToBytes(batch[b]) EXCEPT !.len = len] \in FileType
         /\ GoodFile([ToBytes(batch[b]) EXCEPT !.len = len])
<1> DEFINE lanes == batch[b].lanes
           dom == batch[b].dom
           n == Len(lanes)
<1>1. dom \in Domains /\ Family(dom, lanes) /\ lanes \in Seq(LaneType) /\ n \in Nat
  <2>1. dom \in Domains /\ Family(dom, lanes)
    BY BatchIs
  <2> HIDE DEF dom, lanes
  <2> QED BY <2>1 DEF Family
<1> DEFINE file == [len |-> len, kind |-> dom, count |-> n, lanes |-> lanes]
<1>2. [ToBytes(batch[b]) EXCEPT !.len = len] = file
      /\ ToBytes(batch[b]).len = HeaderLen + LaneLen * n
  BY DEF ToBytes
<1>3. len <= HeaderLen + LaneLen * n
  BY <1>2
<1> HIDE DEF lanes, dom, n
<1>4. file \in FileType
  BY <1>1 DEF FileType
<1>5. GoodFile(file)
  <2>1. n = Len(lanes)
    BY DEF n
  <2>2. file.kind = dom /\ file.lanes = lanes /\ file.count = n /\ file.len = len
    OBVIOUS
  <2> HIDE DEF file
  <2> QED BY <1>1, <1>3, <2>1, <2>2 DEF GoodFile, Family
<1> QED BY <1>2, <1>4, <1>5

LEMMA ExportKeeps ==
  ASSUME IInv, NEW b \in Batch, NEW k \in Store, Export(b, k)
  PROVE  IInv'
<1> DEFINE file == ToBytes(batch[b])
<1>1. Len(batch[b].lanes) \in Nat
  BY BatchIs, FamilyIs DEF Export
<1>2. file.len \in Nat /\ file.len <= file.len /\ [file EXCEPT !.len = file.len] = file
  BY <1>1 DEF ToBytes, HeaderLen, LaneLen
<1>3. file \in FileType /\ GoodFile(file)
  BY <1>2, Written DEF Export
<1>4. saved' = [saved EXCEPT ![k] = file] /\ batch' = batch /\ solo' = solo
  BY DEF Export
<1> HIDE DEF file
<1>5. saved \in [Store -> {None} \cup FileType]
  BY DEF IInv, Types
<1>6. saved' \in [Store -> {None} \cup FileType]
      /\ \A c \in Store : saved'[c] = IF c = k THEN file ELSE saved[c]
  BY <1>3, <1>4, <1>5
<1>7. \A c \in Store : saved'[c] # None => GoodFile(saved'[c])
  BY <1>3, <1>6 DEF IInv, Goods
<1>8. Types'
  BY <1>4, <1>6 DEF IInv, Types
<1>9. Goods'
  BY <1>4, <1>7 DEF IInv, Goods
<1> QED BY <1>8, <1>9 DEF IInv

LEMMA ImportKeeps ==
  ASSUME IInv, NEW k \in Store, NEW b \in Batch, NEW kind \in Domains, Import(k, b, kind)
  PROVE  IInv'
<1>1. CASE HeaderError(saved[k], kind) # None
  BY <1>1, SameKeeps DEF Import, Refuse
<1>2. CASE HeaderError(saved[k], kind) = None
  <2>1. saved[k].kind = kind
    BY <1>2, ConstantTypes DEF HeaderError
  <2>2. Put(b, kind, saved[k].lanes)
    BY <1>2 DEF Import
  <2>3. Family(saved[k].kind, saved[k].lanes)
    BY FileIs DEF Import
  <2> QED BY <2>1, <2>2, <2>3, PutKeeps
<1> QED BY <1>1, <1>2

LEMMA CrashInExportKeeps ==
  ASSUME IInv, NEW b \in Batch, NEW k \in Store, NEW cut \in Nat, CrashInExport(b, k, cut)
  PROVE  IInv'
<1> DEFINE file == [ToBytes(batch[b]) EXCEPT !.len = cut]
<1>1. Len(batch[b].lanes) \in Nat
  BY BatchIs, FamilyIs DEF CrashInExport
<1>2. cut <= ToBytes(batch[b]).len
  <2>1. ToBytes(batch[b]).len \in Nat
    BY <1>1 DEF ToBytes, HeaderLen, LaneLen
  <2> QED BY <2>1 DEF CrashInExport
<1>3. file \in FileType /\ GoodFile(file)
  BY <1>2, Written DEF CrashInExport
<1>4. saved' = [saved EXCEPT ![k] = file] /\ End
  BY DEF CrashInExport
<1> HIDE DEF file
<1>5. saved \in [Store -> {None} \cup FileType]
  BY DEF IInv, Types
<1>6. saved' \in [Store -> {None} \cup FileType]
      /\ \A c \in Store : saved'[c] = IF c = k THEN file ELSE saved[c]
  BY <1>3, <1>4, <1>5
<1>7. \A c \in Store : saved'[c] # None => GoodFile(saved'[c])
  BY <1>3, <1>6 DEF IInv, Goods
<1> QED BY <1>4, <1>6, <1>7, EndedGood

LEMMA InitIInv == Init => IInv
<1> SUFFICES ASSUME Init
             PROVE  IInv
  OBVIOUS
<1>1. Types
  BY DEF Init, Types
<1>2. Goods
  BY DEF Init, Goods
<1> QED BY <1>1, <1>2 DEF IInv

LEMMA StepIInv == IInv /\ [Next]_vars => IInv'
<1> SUFFICES ASSUME IInv, [Next]_vars
             PROVE  IInv'
  OBVIOUS
<1>1. ASSUME NEW b \in Batch, NEW seed \in Seeds, NEW ids \in IdLists, NewPrng(b, seed, ids)
      PROVE  IInv'
  BY <1>1, NewPrngKeeps, ConstantTypes DEF NewPrng
<1>2. ASSUME NEW b \in Batch, NEW seed \in Seeds, NEW first \in Firsts, NEW n \in Counts,
             NewRange(b, seed, first, n)
      PROVE  IInv'
  <2>1. RangeIds(first, n) \in Seq(Id)
    BY RangeIdsIn, ConstantTypes
  <2> QED BY <1>2, <2>1, NewPrngKeeps DEF NewRange
<1>3. ASSUME NEW b \in Batch, NEW messages \in MessageLists, NewXof(b, messages)
      PROVE  IInv'
  BY <1>3, NewXofKeeps
<1>4. ASSUME NEW b \in Batch, NEW seed \in Seeds, NEW ids \in IdLists, NEW path \in Paths,
             DerivePath(b, "prng", PrngLanes(seed, ids), path)
      PROVE  IInv'
  <2> DEFINE roots == PrngLanes(seed, ids)
  <2>1. ids \in Seq(Id) /\ path \in Seq(Id)
    BY ConstantTypes
  <2>2. Family("prng", roots) /\ (\A i \in 1 .. Len(roots) : IsRoot(roots[i])) /\ "prng" \in Domains
    BY <2>1, PrngLanesGood DEF Domains
  <2>3. DerivePath(b, "prng", roots, path)
    BY <1>4
  <2> HIDE DEF roots
  <2> QED BY <2>1, <2>2, <2>3, DeriveKeeps
<1>5. ASSUME NEW b \in Batch, NEW messages \in MessageLists, NEW path \in Paths,
             DerivePath(b, "xof", XofLanes(messages), path)
      PROVE  IInv'
  <2> DEFINE roots == XofLanes(messages)
  <2>1. path \in Seq(Id)
    BY ConstantTypes
  <2>2. Family("xof", roots) /\ (\A i \in 1 .. Len(roots) : IsRoot(roots[i])) /\ "xof" \in Domains
    BY MessagesIn, XofLanesGood DEF Domains
  <2>3. DerivePath(b, "xof", roots, path)
    BY <1>5
  <2> HIDE DEF roots
  <2> QED BY <2>1, <2>2, <2>3, DeriveKeeps
<1>6. ASSUME NEW h \in Solo, NEW seed \in Seeds, NEW path \in Paths, PrngSolo(h, seed, path)
      PROVE  IInv'
  BY <1>6, PrngSoloKeeps, ConstantTypes
<1>7. ASSUME NEW h \in Solo, NEW messages \in MessageLists, NEW path \in Paths,
             NEW i \in DOMAIN messages, XofSolo(h, messages[i], path)
      PROVE  IInv'
  <2>1. messages[i] \in Messages /\ path \in Seq(Id)
    BY MessagesIn, ConstantTypes
  <2> QED BY <1>7, <2>1, XofSoloKeeps
<1>8. ASSUME NEW b \in Batch, NEW c \in Batch, NEW ids \in IdLists,
             Fork(b, c, ids) \/ ForkMany(b, c, ids)
      PROVE  IInv'
  BY <1>8, ForkKeeps, ForkManyKeeps, ConstantTypes
<1>9. ASSUME NEW b \in Batch, NEW c \in Batch, NEW first \in Firsts, ForkRange(b, c, first)
      PROVE  IInv'
  <2>1. Len(batch[b].lanes) \in Nat
    BY <1>9, BatchIs, FamilyIs DEF ForkRange
  <2>2. RangeIds(first, Len(batch[b].lanes)) \in Seq(Id)
    BY <2>1, RangeIdsIn, ConstantTypes
  <2> QED BY <1>9, <2>2, ForkKeeps DEF ForkRange
<1>10. ASSUME NEW b \in Batch, NEW c \in Batch, Clone(b, c)
       PROVE  IInv'
  BY <1>10, CloneKeeps
<1>11. CASE OutOfMemory
  BY <1>11, SameKeeps DEF OutOfMemory, Refuse
<1>12. ASSUME NEW b \in Batch, NEW h \in Solo, NEW i \in DOMAIN batch[b].lanes, Lane(b, i, h)
       PROVE  IInv'
  BY <1>12, LaneKeeps
<1>13. ASSUME NEW b \in Batch, NEW steps \in StepCounts, Blocks(b, steps)
       PROVE  IInv'
  BY <1>13, BlocksKeeps, ConstantTypes
<1>14. ASSUME NEW b \in Batch, FillWrongLength(b)
       PROVE  IInv'
  BY <1>14, SameKeeps DEF FillWrongLength, Refuse
<1>15. ASSUME NEW h \in Solo, SoloBlock(h)
       PROVE  IInv'
  BY <1>15, SoloBlockKeeps
<1>16. ASSUME NEW b \in Batch, NEW k \in Store, Export(b, k)
       PROVE  IInv'
  BY <1>16, ExportKeeps
<1>17. ASSUME NEW b \in Batch, NEW k \in Store, NEW kind \in Domains, Import(k, b, kind)
       PROVE  IInv'
  BY <1>17, ImportKeeps
<1>18. CASE Crash
  <2>1. saved' = saved /\ End
    BY <1>18 DEF Crash
  <2>2. saved' \in [Store -> {None} \cup FileType]
        /\ \A k \in Store : saved'[k] # None => GoodFile(saved'[k])
    BY <2>1 DEF IInv, Types, Goods
  <2> QED BY <2>1, <2>2, EndedGood
<1>19. ASSUME NEW b \in Batch, NEW k \in Store, NEW cut \in Cuts, CrashInExport(b, k, cut)
       PROVE  IInv'
  <2>1. cut \in Nat
    BY DEF Cuts, HeaderLen, LaneLen
  <2> QED BY <1>19, <2>1, CrashInExportKeeps
<1>20. CASE UNCHANGED vars
  BY <1>20, SameKeeps DEF vars
<1> QED
  BY <1>1, <1>2, <1>3, <1>4, <1>5, <1>6, <1>7, <1>8, <1>9, <1>10, <1>11, <1>12, <1>13,
     <1>14, <1>15, <1>16, <1>17, <1>18, <1>19, <1>20, Zenon DEF Next

(* The inductive invariant holds.                                          *)
THEOREM Invariance == Spec => []IInv
BY InitIInv, StepIInv, PTL DEF Spec

LEMMA GoodIsLane ==
  ASSUME NEW lane \in LaneType, Good(lane)
  PROVE  IsLane(lane)
<1>1. lane.s \in State /\ lane.step \in 0 .. StepMod-1 /\ lane.line \in LineType /\ lane.made \in Nat
  BY DEF LaneType
<1>2. lane.made \in 0 .. MaxBlocks
  BY <1>1, ConstantTypes DEF Good
<1>3. \A j \in DOMAIN lane.line.forks : lane.line.forks[j].id \in 0 .. IdMod-1
  BY <1>1, LineIs DEF Id
<1> QED BY <1>1, <1>2, <1>3 DEF IsLane

(* Batches, streams and files hold what the code puts in them; counters    *)
(* and identifiers wrap within their words (prng.rs, xof.rs, the fields of *)
(* the batches and of their snapshots).                                    *)
THEOREM TypeCorrect == Spec => []TypeOK
<1>1. IInv => TypeOK
  <2> SUFFICES ASSUME IInv
               PROVE  TypeOK
    OBVIOUS
  <2>1. ASSUME NEW b \in Batch, batch[b] # None
        PROVE  IsBatch(batch[b])
    <3>1. batch[b].dom \in Domains /\ Family(batch[b].dom, batch[b].lanes)
      BY <2>1, BatchIs
    <3>2. \A i \in DOMAIN batch[b].lanes : IsLane(batch[b].lanes[i])
      BY <3>1, FamilyIs, GoodIsLane
    <3> QED BY <3>1, <3>2 DEF IsBatch
  <2>2. ASSUME NEW h \in Solo, solo[h] # None
        PROVE  IsLane(solo[h])
    BY <2>2, GoodIsLane DEF IInv, Types, Goods
  <2>3. ASSUME NEW k \in Store, saved[k] # None
        PROVE  /\ saved[k].len \in 0 .. HeaderLen + LaneLen * saved[k].count
               /\ \A i \in DOMAIN saved[k].lanes : IsLane(saved[k].lanes[i])
    <3>1. /\ saved[k].len \in Nat /\ Family(saved[k].kind, saved[k].lanes)
          /\ saved[k].count = Len(saved[k].lanes) /\ Len(saved[k].lanes) \in Nat
          /\ saved[k].len <= HeaderLen + LaneLen * saved[k].count
      BY <2>3, FileIs
    <3>2. \A i \in DOMAIN saved[k].lanes : IsLane(saved[k].lanes[i])
      BY <3>1, FamilyIs, GoodIsLane
    <3>3. saved[k].len \in 0 .. HeaderLen + LaneLen * saved[k].count
      BY <3>1 DEF HeaderLen, LaneLen
    <3> QED BY <3>2, <3>3
  <2> QED BY <2>1, <2>2, <2>3 DEF TypeOK
<1> QED BY <1>1, Invariance, PTL

(* Every lane is the single stream of its line, wherever it was put and    *)
(* however it was made (prng.rs and xof.rs fork, fork_range, fork_many,    *)
(* derive_path, lane, to_bytes, from_bytes; ARCHITECTURE.md section 10).   *)
THEOREM LanesCorrect == Spec => []LanesOnSchedule
<1>1. IInv => LanesOnSchedule
  <2> SUFFICES ASSUME IInv
               PROVE  LanesOnSchedule
    OBVIOUS
  <2>1. \A b \in Batch : batch[b] # None =>
          \A i \in DOMAIN batch[b].lanes : OnSchedule(batch[b].lanes[i])
    BY DEF IInv, Goods, GoodLanes, Good
  <2>2. \A h \in Solo : solo[h] # None => OnSchedule(solo[h])
    BY DEF IInv, Goods, Good
  <2>3. \A k \in Store : saved[k] # None =>
          \A i \in DOMAIN saved[k].lanes : OnSchedule(saved[k].lanes[i])
    BY DEF IInv, Goods, GoodFile, GoodLanes, Good
  <2> QED BY <2>1, <2>2, <2>3 DEF LanesOnSchedule
<1> QED BY <1>1, Invariance, PTL

LEMMA WholeIff ==
  ASSUME IInv, NEW k \in Store, NEW kind \in Domains, saved[k] # None
  PROVE  HeaderError(saved[k], kind) = None <=> Whole(saved[k]) /\ kind = saved[k].kind
<1> DEFINE file == saved[k]
           n == Len(file.lanes)
<1>1. file.len \in Nat /\ file.count = n /\ n \in Nat
  BY FileIs
<1>2. None # "invalid_length" /\ None # "invalid_kind"
  BY ConstantTypes
<1>3. HeaderError(file, kind) = None
        <=> file.len >= HeaderLen /\ file.kind = kind /\ file.len = file.count * LaneLen + HeaderLen
  <2> HIDE DEF file
  <2> QED BY <1>1, <1>2 DEF HeaderError, HeaderLen
<1>4. Whole(file) <=> file.len = HeaderLen + LaneLen * n
  BY DEF Whole
<1> HIDE DEF file
<1>5. Whole(file) <=> file.len >= HeaderLen /\ file.len = file.count * LaneLen + HeaderLen
  BY <1>1, <1>4 DEF HeaderLen, LaneLen
<1>6. (HeaderError(file, kind) = None <=> Whole(file) /\ kind = file.kind)
  BY <1>3, <1>5
<1> QED BY <1>6 DEF file

(* Exactly the snapshots that were written to their end are accepted, and  *)
(* by their own type only (types/snapshot.rs, decode_batch_header).        *)
THEOREM SnapshotsChecked == Spec => []AcceptedIffWhole
<1>1. IInv => AcceptedIffWhole
  <2> SUFFICES ASSUME IInv, NEW k \in Store, NEW kind \in Domains, saved[k] # None
               PROVE  HeaderError(saved[k], kind) = None
                        <=> Whole(saved[k]) /\ kind = saved[k].kind
    BY DEF AcceptedIffWhole
  <2> QED BY WholeIff
<1> QED BY <1>1, Invariance, PTL

-----------------------------------------------------------------------------
(* LaneBatch implements StreamFamily.                                      *)

StreamsOf(lanes) == [i \in DOMAIN lanes |-> Stream(lanes[i])]

LEMMA StreamIn ==
  ASSUME NEW lane \in LaneType
  PROVE  Stream(lane) \in StreamType /\ Stream(lane).line = lane.line
         /\ Stream(lane).made = lane.made
BY DEF LaneType, StreamType, Stream

LEMMA StreamsIn ==
  ASSUME NEW lanes \in Seq(LaneType)
  PROVE  /\ StreamsOf(lanes) \in Seq(StreamType) /\ Len(StreamsOf(lanes)) = Len(lanes)
         /\ DOMAIN StreamsOf(lanes) = DOMAIN lanes /\ DOMAIN lanes = 1 .. Len(lanes)
         /\ Len(lanes) \in Nat
         /\ \A i \in 1 .. Len(lanes) : StreamsOf(lanes)[i] = Stream(lanes[i])
<1>1. Len(lanes) \in Nat /\ DOMAIN lanes = 1 .. Len(lanes)
      /\ \A i \in 1 .. Len(lanes) : lanes[i] \in LaneType
  OBVIOUS
<1>2. \A i \in 1 .. Len(lanes) : Stream(lanes[i]) \in StreamType
  BY <1>1, StreamIn
<1> QED BY <1>1, <1>2 DEF StreamsOf

LEMMA StreamsOfBatch ==
  ASSUME NEW dom \in Domains, NEW lanes \in Seq(LaneType)
  PROVE  LET x == [dom |-> dom, lanes |-> lanes]
         IN  /\ x # None /\ Streams(x) # None /\ x.dom = dom /\ x.lanes = lanes
             /\ Streams(x) = [dom |-> dom, streams |-> StreamsOf(lanes)]
<1> DEFINE x == [dom |-> dom, lanes |-> lanes]
<1>1. x \in BatchType
  BY DEF BatchType
<1>2. Streams(x) = [dom |-> dom, streams |-> StreamsOf(lanes)]
  BY DEF Streams, StreamsOf
<1>3. [dom |-> dom, streams |-> StreamsOf(lanes)] \in FamilyType
  BY StreamsIn DEF FamilyType
<1>4. x # None /\ Streams(x) # None
  BY <1>1, <1>2, <1>3, NoneApart
<1> QED BY <1>2, <1>4

LEMMA PutRefines ==
  ASSUME IInv, NEW b \in Batch, NEW dom \in Domains, NEW lanes, Family(dom, lanes),
         Put(b, dom, lanes), NEW streams, streams = StreamsOf(lanes)
  PROVE  SF!Put(b, dom, streams)
<1> DEFINE x == [dom |-> dom, lanes |-> lanes]
<1>1. x # None /\ Streams(x) = [dom |-> dom, streams |-> streams]
  BY StreamsOfBatch DEF Family
<1>2. batch' = [batch EXCEPT ![b] = x] /\ UNCHANGED <<solo, saved>>
      /\ ret' = Nothing /\ batch[b] = None
  BY DEF Put
<1> HIDE DEF x
<1>3. batch \in [Batch -> {None} \cup BatchType]
  BY DEF IInv, Types
<1>4. \A c \in Batch : batch'[c] = IF c = b THEN x ELSE batch[c]
  BY <1>2, <1>3
<1>5. Families[b] = None
  BY <1>2 DEF Families
<1>6. Families' = [Families EXCEPT ![b] = [dom |-> dom, streams |-> streams]]
  BY <1>1, <1>4 DEF Families
<1>7. UNCHANGED <<Singles, Kept>> /\ ret' = SF!Nothing
  BY <1>2 DEF Singles, Kept, Nothing, Gives, SF!Nothing, SF!Gives
<1> QED BY <1>5, <1>6, <1>7 DEF SF!Put

LEMMA SoloRefines ==
  ASSUME IInv, NEW h \in Solo, NEW lane \in LaneType, PutSolo(h, lane),
         NEW stream, stream = Stream(lane)
  PROVE  SF!PutSolo(h, stream)
<1>1. lane # None /\ Stream(lane) \in StreamType
  BY NoneApart, StreamIn
<1>2. solo' = [solo EXCEPT ![h] = lane] /\ UNCHANGED <<batch, saved>>
      /\ ret' = Nothing /\ solo[h] = None
  BY DEF PutSolo
<1>3. solo \in [Solo -> {None} \cup LaneType]
  BY DEF IInv, Types
<1>4. \A c \in Solo : solo'[c] = IF c = h THEN lane ELSE solo[c]
  BY <1>2, <1>3
<1>5. Singles[h] = None
  BY <1>2 DEF Singles
<1>6. Singles' = [Singles EXCEPT ![h] = stream]
  BY <1>1, <1>4 DEF Singles
<1>7. UNCHANGED <<Families, Kept>> /\ ret' = SF!Nothing
  BY <1>2 DEF Families, Kept, Nothing, Gives, SF!Nothing, SF!Gives
<1> QED BY <1>5, <1>6, <1>7 DEF SF!PutSolo

Errors == {"panic", "size_overflow", "reserve", "empty_path", "invalid_length", "invalid_kind"}

LEMMA FailRefines ==
  ASSUME NEW error \in Errors, Refuse(error)
  PROVE  SF!Next
<1>1. SF!Fail(error)
  BY DEF Refuse, Families, Singles, Kept, Nothing, Gives, SF!Fail, SF!Nothing, SF!Gives
<1> QED BY <1>1, Zenon DEF SF!Next, Errors

LEMMA AtIs ==
  ASSUME IInv, NEW b \in Batch, batch[b] # None
  PROVE  /\ Families[b] # None /\ Families[b] = Streams(batch[b])
         /\ Families[b].dom = batch[b].dom /\ Families[b].streams = StreamsOf(batch[b].lanes)
         /\ batch[b].dom \in Domains /\ batch[b].lanes \in Seq(LaneType)
<1>1. batch[b] = [dom |-> batch[b].dom, lanes |-> batch[b].lanes]
      /\ batch[b].dom \in Domains /\ batch[b].lanes \in Seq(LaneType)
  BY BatchIs DEF Family
<1> DEFINE dom == batch[b].dom
           lanes == batch[b].lanes
<1> HIDE DEF dom, lanes
<1>2. batch[b] = [dom |-> dom, lanes |-> lanes] /\ dom \in Domains /\ lanes \in Seq(LaneType)
  BY <1>1 DEF dom, lanes
<1>3. Streams(batch[b]) # None /\ Streams(batch[b]) = [dom |-> dom, streams |-> StreamsOf(lanes)]
  BY <1>2, StreamsOfBatch
<1>4. Families[b] = Streams(batch[b])
  BY DEF Families
<1> QED BY <1>1, <1>3, <1>4 DEF dom, lanes

(* The forks of a path, one by one, or all at once.                        *)
LEMMA DescendantIs ==
  ASSUME NEW root \in LineType, root.forks = <<>>, NEW path \in Seq(Id)
  PROVE  SF!Descendant([line |-> root, made |-> 0], path)
           = [line |-> [root EXCEPT !.forks = PathForks(path)], made |-> 0]
<1> DEFINE n == Len(path)
           fork(j) == [after |-> 0, id |-> path[j]]
           upto(j) == [i \in 1 .. j |-> fork(i)]
           at(forks) == [line |-> [root EXCEPT !.forks = forks], made |-> 0]
           first == [line |-> root, made |-> 0]
           G == [j \in 0 .. n |-> at(upto(j))]
           F == CHOOSE d : d = [j \in 0 .. n |-> IF j = 0 THEN first ELSE SF!Son(d[j-1], path[j])]
<1>1. n \in Nat /\ DOMAIN path = 1 .. n
  BY PathIs
<1>2. SF!Descendant([line |-> root, made |-> 0], path) = F[n]
  BY Zenon DEF SF!Descendant
<1>3. upto(n) = PathForks(path)
  BY <1>1 DEF PathForks
<1> HIDE DEF fork, n
<1>4. at(upto(0)) = first
  <2>1. upto(0) = <<>>
    OBVIOUS
  <2>2. [root EXCEPT !.forks = <<>>] = root
    BY DEF LineType
  <2> HIDE DEF upto
  <2> QED BY <2>1, <2>2
<1>5. ASSUME NEW j \in 1 .. n
      PROVE  at(upto(j)) = SF!Son(at(upto(j - 1)), path[j])
  <2> DEFINE u == upto(j - 1)
             w == upto(j)
  <2>1. j - 1 \in Nat /\ (j - 1) + 1 = j
    OBVIOUS
  <2>2. w = Append(u, fork(j))
    <3>1. Len(u) = j - 1 /\ DOMAIN u = 1 .. j - 1
      BY <2>1
    <3>2. Append(u, fork(j)) = [i \in 1 .. (j - 1) + 1 |-> IF i = (j - 1) + 1 THEN fork(j) ELSE u[i]]
      <4> DEFINE S == {fork(i) : i \in 1 .. j}
      <4>1. fork(j) \in S /\ \A i \in 1 .. j - 1 : u[i] \in S
        BY <2>1
      <4>2. u \in Seq(S)
        <5>1. u = [i \in 1 .. j - 1 |-> u[i]]
          OBVIOUS
        <5> HIDE DEF u, S
        <5> QED BY <2>1, <4>1, <5>1
      <4> DEFINE e == fork(j)
                 a == Append(u, e)
                 k == j - 1
      <4>3. e \in S /\ u \in Seq(S) /\ Len(u) = k /\ k \in Nat
        BY <2>1, <3>1, <4>1, <4>2
      <4> HIDE DEF u, S, e, k
      <4>4. a \in Seq(S) /\ Len(a) = k + 1 /\ \A i \in 1 .. k + 1 : a[i] = IF i = k + 1 THEN e ELSE u[i]
        BY <4>3
      <4> HIDE DEF a
      <4>5. a = [i \in 1 .. k + 1 |-> a[i]]
        BY <4>4
      <4>6. a = [i \in 1 .. k + 1 |-> IF i = k + 1 THEN e ELSE u[i]]
        BY <4>4, <4>5
      <4> QED BY <4>6 DEF a, e, k
    <3>3. \A i \in 1 .. j : fork(i) = IF i = j THEN fork(j) ELSE u[i]
      <4> TAKE i \in 1 .. j
      <4>1. CASE i = j
        BY <4>1
      <4>2. CASE i # j
        <5>1. i \in 1 .. j - 1
          BY <4>2
        <5> QED BY <4>2, <5>1
      <4> QED BY <4>1, <4>2
    <3> HIDE DEF u
    <3> QED BY <2>1, <3>2, <3>3
  <2> HIDE DEF u, w
  <2>3. [[root EXCEPT !.forks = u] EXCEPT !.forks = Append(u, fork(j))]
          = [root EXCEPT !.forks = Append(u, fork(j))]
    BY DEF LineType
  <2>4. [root EXCEPT !.forks = u].forks = u
    BY DEF LineType
  <2>5. SF!Son(at(u), path[j])
          = [line |-> [[root EXCEPT !.forks = u] EXCEPT !.forks = Append(@, [after |-> 0, id |-> path[j]])],
             made |-> 0]
    BY DEF SF!Son
  <2>6. SF!Son(at(u), path[j]) = at(Append(u, fork(j)))
    BY <2>3, <2>4, <2>5 DEF fork
  <2>7. SF!Son(at(u), path[j]) = at(w)
    BY <2>2, <2>6
  <2> QED BY <2>7 DEF u, w
<1> HIDE DEF at, upto, first
<1>6. G = [j \in 0 .. n |-> IF j = 0 THEN first ELSE SF!Son(G[j-1], path[j])]
  <2>1. \A j \in 0 .. n : j # 0 => j \in 1 .. n /\ j - 1 \in 0 .. n
    BY <1>1
  <2>2. \A j \in 0 .. n : G[j] = IF j = 0 THEN first ELSE SF!Son(G[j-1], path[j])
    BY <1>4, <1>5, <2>1
  <2>3. G = [j \in 0 .. n |-> G[j]]
    OBVIOUS
  <2> HIDE DEF G
  <2> QED BY <2>2, <2>3
<1>7. F = [j \in 0 .. n |-> IF j = 0 THEN first ELSE SF!Son(F[j-1], path[j])]
  <2> HIDE DEF G
  <2> QED BY ONLY <1>6
<1> HIDE DEF F
<1>8. \A j \in 0 .. n : F[j] = G[j]
  <2> HIDE DEF G
  <2>1. 0 \in 0 .. n /\ \A j \in 1 .. n : j \in 0 .. n /\ j # 0
    BY <1>1
  <2>2. F[0] = G[0]
    BY <1>6, <1>7, <2>1
  <2>3. \A j \in 1 .. n : F[j-1] = G[j-1] => F[j] = G[j]
    BY <1>6, <1>7, <2>1
  <2>4. n \in Nat
    BY <1>1
  <2> QED BY ONLY <2>2, <2>3, <2>4, LoopsAgree, ZenonT(60)
<1>9. n \in 0 .. n
  BY <1>1
<1>10. G[n] = at(upto(n))
  BY <1>9
<1> QED BY <1>2, <1>3, <1>8, <1>9, <1>10 DEF at

LEMMA RootStreams ==
  /\ \A seed \in Seeds, id \in Id :
       SF!Root("prng", seed, id) = Stream(RootLane("prng", seed, id, ForkLane("prng", seed, id)))
  /\ \A m \in Messages :
       SF!Root("xof", m, None) = Stream(RootLane("xof", m, None, Absorbed(m)))
BY DEF SF!Root, Stream, RootLane

LEMMA DerivedStream ==
  ASSUME NEW lane, IsRoot(lane), NEW path \in Seq(Id)
  PROVE  Stream(Derived(lane, path)) = SF!Descendant(Stream(lane), path)
<1>1. lane.line \in LineType /\ lane.line.forks = <<>> /\ lane.made = 0
  BY DEF IsRoot, LaneType
<1>2. Stream(lane) = [line |-> lane.line, made |-> 0]
  BY <1>1 DEF Stream
<1>3. SF!Descendant(Stream(lane), path)
        = [line |-> [lane.line EXCEPT !.forks = PathForks(path)], made |-> 0]
  BY <1>1, <1>2, DescendantIs
<1>4. Derived(lane, path).line = [lane.line EXCEPT !.forks = PathForks(path)]
      /\ Derived(lane, path).made = 0
  BY DerivedGood
<1>5. Stream(Derived(lane, path)) = [line |-> Derived(lane, path).line, made |-> Derived(lane, path).made]
  BY DEF Stream
<1> QED BY <1>3, <1>4, <1>5

LEMMA ChildStream ==
  ASSUME NEW dom, NEW lane \in LaneType, Good(lane), lane.line.dom = dom, NEW id \in Id
  PROVE  Stream(Child(dom, lane, id)) = SF!Son(Stream(lane), id)
<1>1. Child(dom, lane, id).line = SonLine(lane.line, [after |-> lane.made, id |-> id])
      /\ Child(dom, lane, id).made = 0
  BY ChildGood
<1>2. Stream(Child(dom, lane, id)) = [line |-> Child(dom, lane, id).line, made |-> Child(dom, lane, id).made]
  BY DEF Stream
<1>3. SF!Son(Stream(lane), id)
        = [line |-> SonLine(lane.line, [after |-> lane.made, id |-> id]), made |-> 0]
  BY DEF SF!Son, Stream, SonLine
<1> QED BY <1>1, <1>2, <1>3

(* Two sequences of streams are compared one by one.                       *)
LEMMA StreamsAre ==
  ASSUME NEW lanes \in Seq(LaneType), NEW streams,
         streams = [i \in 1 .. Len(lanes) |-> streams[i]],
         \A i \in 1 .. Len(lanes) : streams[i] = Stream(lanes[i])
  PROVE  streams = StreamsOf(lanes)
<1>1. DOMAIN lanes = 1 .. Len(lanes)
  OBVIOUS
<1>2. StreamsOf(lanes) = [i \in 1 .. Len(lanes) |-> Stream(lanes[i])]
  BY <1>1 DEF StreamsOf
<1> QED BY <1>2

LEMMA PrngStreams ==
  ASSUME NEW seed \in Seeds, NEW ids \in Seq(Id)
  PROVE  SF!Prngs(seed, ids) = StreamsOf(PrngLanes(seed, ids))
<1> DEFINE lanes == PrngLanes(seed, ids)
           streams == SF!Prngs(seed, ids)
<1>1. lanes \in Seq(LaneType) /\ Len(lanes) = Len(ids)
  BY PrngLanesGood DEF Family
<1>2. DOMAIN ids = 1 .. Len(ids) /\ \A i \in 1 .. Len(ids) : ids[i] \in Id
  BY PathIs
<1>3. lanes = [i \in 1 .. Len(ids) |-> RootLane("prng", seed, ids[i], ForkLane("prng", seed, ids[i]))]
  BY <1>2 DEF PrngLanes, ForkLane
<1>4. streams = [i \in 1 .. Len(ids) |-> SF!Root("prng", seed, ids[i])]
  BY <1>2 DEF SF!Prngs
<1> HIDE DEF lanes, streams
<1>5. \A i \in 1 .. Len(ids) : streams[i] = Stream(lanes[i])
  BY <1>2, <1>3, <1>4, RootStreams
<1>6. streams = [i \in 1 .. Len(ids) |-> streams[i]]
  BY <1>4
<1>7. streams = StreamsOf(lanes)
  BY <1>1, <1>5, <1>6, StreamsAre
<1> QED BY <1>7 DEF lanes, streams

LEMMA XofStreams ==
  ASSUME NEW messages \in MessageLists
  PROVE  SF!Xofs(messages) = StreamsOf(XofLanes(messages))
<1> DEFINE lanes == XofLanes(messages)
           streams == SF!Xofs(messages)
           n == Len(messages)
<1>1. n \in Nat /\ DOMAIN messages = 1 .. n /\ \A i \in 1 .. n : messages[i] \in Messages
  BY MessagesIn
<1>2. lanes \in Seq(LaneType) /\ Len(lanes) = n
  BY <1>1, XofLanesGood DEF Family
<1>3. lanes = [i \in 1 .. n |-> RootLane("xof", messages[i], None, Absorbed(messages[i]))]
  BY <1>1 DEF XofLanes
<1>4. streams = [i \in 1 .. n |-> SF!Root("xof", messages[i], None)]
  BY <1>1 DEF SF!Xofs
<1> HIDE DEF lanes, streams, n
<1>5. \A i \in 1 .. n : streams[i] = Stream(lanes[i])
  BY <1>1, <1>3, <1>4, RootStreams
<1>6. streams = [i \in 1 .. n |-> streams[i]]
  BY <1>4
<1>7. streams = StreamsOf(lanes)
  BY <1>2, <1>5, <1>6, StreamsAre
<1> QED BY <1>7 DEF lanes, streams

LEMMA SameRange ==
  ASSUME NEW first \in Id, NEW n \in Nat
  PROVE  RangeIds(first, n) = SF!RangeIds(first, n)
<1>1. \A i \in 1 .. n : first + (i - 1) = first + i - 1
  BY DEF Id
<1> QED BY <1>1 DEF RangeIds, SF!RangeIds

LEMMA NewRefines ==
  ASSUME IInv, NEW b \in Batch, NEW seed \in Seeds, NEW ids \in Seq(Id),
         Put(b, "prng", PrngLanes(seed, ids))
  PROVE  SF!Put(b, "prng", SF!Prngs(seed, ids))
<1>1. Family("prng", PrngLanes(seed, ids)) /\ "prng" \in Domains
  BY PrngLanesGood DEF Domains
<1>2. SF!Prngs(seed, ids) = StreamsOf(PrngLanes(seed, ids))
  BY PrngStreams
<1> QED BY <1>1, <1>2, PutRefines

LEMMA NewXofRefines ==
  ASSUME IInv, NEW b \in Batch, NEW messages \in MessageLists, NewXof(b, messages)
  PROVE  SF!Put(b, "xof", SF!Xofs(messages))
<1>1. Family("xof", XofLanes(messages)) /\ "xof" \in Domains
  BY MessagesIn, XofLanesGood DEF Domains
<1>2. SF!Xofs(messages) = StreamsOf(XofLanes(messages))
  BY XofStreams
<1>3. Put(b, "xof", XofLanes(messages))
  BY DEF NewXof
<1> QED BY <1>1, <1>2, <1>3, PutRefines

LEMMA DeriveRefines ==
  ASSUME IInv, NEW b \in Batch, NEW dom \in Domains, NEW roots, Family(dom, roots),
         \A i \in 1 .. Len(roots) : IsRoot(roots[i]), NEW path \in Seq(Id), path # <<>>,
         DerivePath(b, dom, roots, path), NEW streams, streams = StreamsOf(roots)
  PROVE  SF!DerivePath(b, dom, streams, path)
<1> DEFINE lanes == [i \in DOMAIN roots |-> Derived(roots[i], path)]
           ends == [i \in DOMAIN streams |-> SF!Descendant(streams[i], path)]
           n == Len(roots)
<1>1. Put(b, dom, lanes)
  BY DEF DerivePath
<1>2. Family(dom, lanes)
  BY DerivedLanes
<1>3. n \in Nat /\ DOMAIN roots = 1 .. n /\ DOMAIN streams = 1 .. n
      /\ \A i \in 1 .. n : streams[i] = Stream(roots[i])
  BY StreamsIn DEF Family
<1>4. lanes = [i \in 1 .. n |-> Derived(roots[i], path)]
      /\ ends = [i \in 1 .. n |-> SF!Descendant(streams[i], path)]
  BY <1>3
<1>5. \A i \in 1 .. n : ends[i] = Stream(lanes[i])
  <2>1. \A i \in 1 .. n : ends[i] = SF!Descendant(Stream(roots[i]), path)
                          /\ lanes[i] = Derived(roots[i], path)
    BY <1>3, <1>4
  <2> HIDE DEF ends, lanes
  <2> QED BY <2>1, DerivedStream
<1>6. Len(lanes) = n /\ lanes \in Seq(LaneType)
  <2>1. lanes \in Seq(LaneType)
    BY <1>2 DEF Family
  <2> HIDE DEF n
  <2>2. Len(lanes) = n
    BY <1>3, <1>4
  <2> QED BY <2>1, <2>2
<1> HIDE DEF lanes, n
<1>7. ends = [i \in 1 .. n |-> ends[i]]
  BY <1>4
<1> HIDE DEF ends
<1>8. ends = StreamsOf(lanes)
  BY <1>5, <1>6, <1>7, StreamsAre
<1>9. SF!Put(b, dom, ends)
  BY <1>1, <1>2, <1>8, PutRefines
<1> QED BY <1>9 DEF ends, SF!DerivePath

LEMMA PrngSoloRefines ==
  ASSUME IInv, NEW h \in Solo, NEW seed \in Seeds, NEW path \in Seq(Id), path # <<>>,
         PrngSolo(h, seed, path)
  PROVE  SF!DeriveSolo(h, "prng", SF!Root("prng", seed, Head(path)), Tail(path))
<1> DEFINE root == [dom |-> "prng", of |-> seed, id |-> Head(path), forks |-> <<>>]
           end == PrngEnd(seed, path)
<1>1. Head(path) \in Id /\ Tail(path) \in Seq(Id)
  BY PathHead, ConstantTypes DEF Domains
<1>2. PutSolo(h, end)
  BY DEF PrngSolo, PrngEnd
<1>3. end \in LaneType /\ end.line = [root EXCEPT !.forks = PathForks(Tail(path))] /\ end.made = 0
  BY PrngEndGood
<1>4. root \in LineType /\ root.forks = <<>>
  BY <1>1, PrngRoot
<1>5. SF!Root("prng", seed, Head(path)) = [line |-> root, made |-> 0]
  BY DEF SF!Root
<1> HIDE DEF root, end
<1>6. SF!Descendant([line |-> root, made |-> 0], Tail(path))
        = [line |-> [root EXCEPT !.forks = PathForks(Tail(path))], made |-> 0]
  BY <1>1, <1>4, DescendantIs
<1>7. SF!Descendant(SF!Root("prng", seed, Head(path)), Tail(path)) = Stream(end)
  BY <1>3, <1>5, <1>6 DEF Stream
<1>8. SF!PutSolo(h, SF!Descendant(SF!Root("prng", seed, Head(path)), Tail(path)))
  BY <1>2, <1>3, <1>7, SoloRefines
<1> QED BY <1>8 DEF SF!DeriveSolo

LEMMA XofSoloRefines ==
  ASSUME IInv, NEW h \in Solo, NEW m \in Messages, NEW path \in Seq(Id), path # <<>>,
         XofSolo(h, m, path)
  PROVE  SF!DeriveSolo(h, "xof", SF!Root("xof", m, None), path)
<1> DEFINE root == [dom |-> "xof", of |-> m, id |-> None, forks |-> <<>>]
           end == Derived(XofLanes(<<m>>)[1], path)
<1>2. PutSolo(h, end)
  BY DEF XofSolo
<1>3. end \in LaneType /\ end.line = [root EXCEPT !.forks = PathForks(path)] /\ end.made = 0
  BY XofEndGood
<1>4. root \in LineType /\ root.forks = <<>>
  BY XofRoot
<1>5. SF!Root("xof", m, None) = [line |-> root, made |-> 0]
  BY DEF SF!Root
<1> HIDE DEF root, end
<1>6. SF!Descendant([line |-> root, made |-> 0], path)
        = [line |-> [root EXCEPT !.forks = PathForks(path)], made |-> 0]
  BY <1>4, DescendantIs
<1>7. SF!Descendant(SF!Root("xof", m, None), path) = Stream(end)
  BY <1>3, <1>5, <1>6 DEF Stream
<1>8. SF!PutSolo(h, SF!Descendant(SF!Root("xof", m, None), path))
  BY <1>2, <1>3, <1>7, SoloRefines
<1> QED BY <1>8 DEF SF!DeriveSolo

LEMMA ForkRefines ==
  ASSUME IInv, NEW b \in Batch, NEW c \in Batch, NEW ids \in Seq(Id), Fork(b, c, ids),
         Len(ids) = Len(batch[b].lanes)
  PROVE  SF!Fork(b, c, ids)
<1> DEFINE dom == batch[b].dom
           lanes == batch[b].lanes
           n == Len(lanes)
           all == [i \in DOMAIN lanes |-> Child(dom, lanes[i], ids[i])]
           sons == [i \in DOMAIN ids |-> SF!Son(Families[b].streams[i], ids[i])]
<1>1. dom \in Domains /\ Family(dom, lanes)
  BY BatchIs DEF Fork
<1>2. Put(c, dom, all)
  BY DEF Fork
<1>3. /\ Families[b] # None /\ Families[b].dom = dom /\ Families[b].streams = StreamsOf(lanes)
      /\ lanes \in Seq(LaneType)
  BY AtIs DEF Fork
<1> HIDE DEF dom, lanes
<1>4. /\ n \in Nat /\ DOMAIN lanes = 1 .. n /\ DOMAIN ids = 1 .. n
      /\ Len(StreamsOf(lanes)) = n /\ \A i \in 1 .. n : StreamsOf(lanes)[i] = Stream(lanes[i])
  BY <1>3, StreamsIn, PathIs DEF lanes
<1>5. Family(dom, all)
  BY <1>1, ChildLanes DEF lanes
<1>6. \A i \in 1 .. n : SF!Son(Stream(lanes[i]), ids[i]) = Stream(Child(dom, lanes[i], ids[i]))
  <2>1. \A i \in 1 .. n : /\ lanes[i] \in LaneType /\ Good(lanes[i]) /\ lanes[i].line.dom = dom
                          /\ ids[i] \in Id
    BY <1>1, <1>4, FamilyIs, PathIs
  <2> HIDE DEF n
  <2> QED BY <2>1, ChildStream
<1>7. Len(all) = n /\ all \in Seq(LaneType)
      /\ all = [i \in 1 .. n |-> Child(dom, lanes[i], ids[i])]
  <2>1. all \in Seq(LaneType)
    BY <1>5 DEF Family
  <2> HIDE DEF n
  <2>2. all = [i \in 1 .. n |-> Child(dom, lanes[i], ids[i])]
    BY <1>4
  <2>3. Len(all) = n
    BY <1>4, <2>2
  <2> QED BY <2>1, <2>2, <2>3
<1>8. sons = [i \in 1 .. n |-> SF!Son(Stream(lanes[i]), ids[i])]
  BY <1>3, <1>4
<1> HIDE DEF n, all, sons
<1>9. \A i \in 1 .. n : sons[i] = Stream(all[i])
  BY <1>6, <1>7, <1>8
<1>10. sons = [i \in 1 .. n |-> sons[i]]
  BY <1>8
<1>11. sons = StreamsOf(all)
  BY <1>7, <1>9, <1>10, StreamsAre
<1>12. SF!Put(c, dom, sons)
  BY <1>1, <1>2, <1>5, <1>11, PutRefines
<1> QED BY <1>3, <1>4, <1>12 DEF SF!Fork, sons, n, lanes

LEMMA ForkManyRefines ==
  ASSUME IInv, NEW b \in Batch, NEW c \in Batch, NEW ids \in Seq(Id), ForkMany(b, c, ids),
         ~ (Len(batch[b].lanes) * Len(ids) > UsizeMax)
  PROVE  SF!ForkMany(b, c, ids)
<1> DEFINE dom == batch[b].dom
           lanes == batch[b].lanes
           n == Len(lanes)
           m == Len(ids)
           all == Children(batch[b], ids)
           i(x) == ((x - 1) \div m) + 1
           j(x) == ((x - 1) % m) + 1
           sons == [x \in 1 .. n * m |-> SF!Son(Families[b].streams[i(x)], ids[j(x)])]
<1>1. /\ dom \in Domains /\ Family(dom, lanes) /\ batch[b] = [dom |-> dom, lanes |-> lanes]
      /\ batch[b] # None
  BY BatchIs DEF ForkMany
<1>2. Put(c, dom, all)
  BY DEF ForkMany
<1>3. /\ Families[b] # None /\ Families[b].dom = dom /\ Families[b].streams = StreamsOf(lanes)
      /\ lanes \in Seq(LaneType)
  BY <1>1, AtIs
<1> HIDE DEF dom, lanes
<1>4. /\ n \in Nat /\ DOMAIN lanes = 1 .. n /\ m \in Nat
      /\ Len(StreamsOf(lanes)) = n /\ \A k \in 1 .. n : StreamsOf(lanes)[k] = Stream(lanes[k])
  BY <1>3, StreamsIn, PathIs
<1>5. Family(dom, all) /\ all = [x \in 1 .. n * m |-> Child(dom, lanes[i(x)], ids[j(x)])]
  <2>1. Family(dom, Children([dom |-> dom, lanes |-> lanes], ids))
    BY <1>1, ChildrenGood
  <2>2. Children([dom |-> dom, lanes |-> lanes], ids)
          = [x \in 1 .. n * m |-> Child(dom, lanes[i(x)], ids[j(x)])]
    BY <1>1, ChildrenRows
  <2> QED BY <1>1, <2>1, <2>2
<1>6. \A k \in 1 .. n, l \in 1 .. m :
        SF!Son(Stream(lanes[k]), ids[l]) = Stream(Child(dom, lanes[k], ids[l]))
  <2>1. \A k \in 1 .. n : lanes[k] \in LaneType /\ Good(lanes[k]) /\ lanes[k].line.dom = dom
    BY <1>1, FamilyIs
  <2>2. \A l \in 1 .. m : ids[l] \in Id
    BY PathIs
  <2> HIDE DEF n, m
  <2> QED BY <2>1, <2>2, ChildStream
<1> HIDE DEF n, m
<1>7. \A x \in 1 .. n * m : i(x) \in 1 .. n /\ j(x) \in 1 .. m
  BY <1>4, Cell
<1> HIDE DEF i, j
<1>8. sons = [x \in 1 .. n * m |-> SF!Son(Stream(lanes[i(x)]), ids[j(x)])]
  BY <1>3, <1>4, <1>7
<1> HIDE DEF all, sons
<1>9. \A x \in 1 .. n * m : sons[x] = Stream(all[x])
  BY <1>5, <1>6, <1>7, <1>8
<1> DEFINE p == n * m
<1>10. p \in Nat
  BY <1>4
<1>11. /\ sons = [x \in 1 .. p |-> sons[x]] /\ all \in Seq(LaneType) /\ Len(all) = p
       /\ \A x \in 1 .. p : sons[x] = Stream(all[x])
  <2>1. DOMAIN all = 1 .. p /\ sons = [x \in 1 .. p |-> sons[x]]
    BY <1>5, <1>8
  <2>2. all \in Seq(LaneType)
    BY <1>5 DEF Family
  <2> HIDE DEF p
  <2>3. Len(all) = p
    BY <1>10, <2>1, <2>2
  <2> QED BY <1>9, <2>1, <2>2, <2>3 DEF p
<1> HIDE DEF p
<1>12. sons = StreamsOf(all)
  BY <1>11, StreamsAre
<1>13. SF!Put(c, dom, sons)
  BY <1>1, <1>2, <1>5, <1>12, PutRefines
<1>14. sons = [x \in 1 .. Len(Families[b].streams) * Len(ids) |->
                 SF!Son(Families[b].streams[((x - 1) \div Len(ids)) + 1],
                        ids[((x - 1) % Len(ids)) + 1])]
  BY <1>3, <1>4 DEF sons, i, j, m
<1> QED BY <1>3, <1>13, <1>14 DEF SF!ForkMany

LEMMA CloneRefines ==
  ASSUME IInv, NEW b \in Batch, NEW c \in Batch, Clone(b, c)
  PROVE  SF!Clone(b, c)
<1>1. batch[b] # None /\ Put(c, batch[b].dom, batch[b].lanes)
  BY DEF Clone
<1>2. batch[b].dom \in Domains /\ Family(batch[b].dom, batch[b].lanes)
  BY <1>1, BatchIs
<1>3. /\ Families[b] # None /\ Families[b].dom = batch[b].dom
      /\ Families[b].streams = StreamsOf(batch[b].lanes)
  BY <1>1, AtIs
<1>4. SF!Put(c, batch[b].dom, Families[b].streams)
  BY <1>1, <1>2, <1>3, PutRefines
<1> QED BY <1>3, <1>4 DEF SF!Clone

LEMMA LaneRefines ==
  ASSUME IInv, NEW b \in Batch, NEW h \in Solo, NEW i, Lane(b, i, h)
  PROVE  Families[b] # None /\ i \in DOMAIN Families[b].streams /\ SF!Lane(b, i, h)
<1>1. batch[b] # None /\ i \in DOMAIN batch[b].lanes /\ PutSolo(h, batch[b].lanes[i])
  BY DEF Lane
<1>2. /\ Families[b] # None /\ Families[b].streams = StreamsOf(batch[b].lanes)
      /\ batch[b].lanes \in Seq(LaneType)
  BY <1>1, AtIs
<1>3. i \in DOMAIN Families[b].streams
      /\ Families[b].streams[i] = Stream(batch[b].lanes[i]) /\ batch[b].lanes[i] \in LaneType
  BY <1>1, <1>2, StreamsIn
<1>4. SF!PutSolo(h, Families[b].streams[i])
  BY <1>1, <1>3, SoloRefines
<1> QED BY <1>2, <1>3, <1>4 DEF SF!Lane

(* Blocks of a lane are the upcoming blocks of its stream.                 *)
LEMMA UpcomingBlock ==
  ASSUME NEW lane \in LaneType, Good(lane), NEW k \in Nat, lane.made + k + 1 <= MaxBlocks
  PROVE  Ran(lane, k + 1).s = SF!Upcoming(Stream(lane), k)
<1>1. lane.made \in Nat /\ lane.made + (k + 1) = lane.made + k + 1 /\ k + 1 \in Nat
  BY DEF LaneType
<1>2. Good(Ran(lane, k + 1)) /\ Ran(lane, k + 1).line = lane.line
      /\ Ran(lane, k + 1).made = lane.made + (k + 1)
  BY <1>1, RanGood, ConstantTypes
<1>3. Ran(lane, k + 1).s = BlockAt(SF!Origin(lane.line), lane.made + (k + 1))
  BY <1>2 DEF Good, OnSchedule
<1> QED BY <1>1, <1>3 DEF SF!Upcoming, Stream

LEMMA BlocksRefines ==
  ASSUME IInv, NEW b \in Batch, NEW steps \in Nat, Blocks(b, steps),
         ~ (Len(batch[b].lanes) * steps > UsizeMax)
  PROVE  SF!Blocks(b, steps)
<1> DEFINE dom == batch[b].dom
           lanes == batch[b].lanes
           n == Len(lanes)
           all == [i \in DOMAIN lanes |-> Ran(lanes[i], steps)]
           given == [x \in 0 .. n * steps - 1 |-> Ran(lanes[(x % n) + 1], x \div n + 1).s]
           due == [x \in 0 .. n * steps - 1 |->
                     SF!Upcoming(Families[b].streams[(x % n) + 1], x \div n)]
           on == [i \in DOMAIN Families[b].streams |->
                    [Families[b].streams[i] EXCEPT !.made = @ + steps]]
<1>1. /\ dom \in Domains /\ Family(dom, lanes) /\ batch[b] = [dom |-> dom, lanes |-> lanes]
      /\ batch[b] # None
  BY BatchIs DEF Blocks
<1>2. /\ Families[b] # None /\ Families[b].streams = StreamsOf(lanes) /\ Families[b].dom = dom
      /\ Families[b] = [dom |-> dom, streams |-> StreamsOf(lanes)] /\ lanes \in Seq(LaneType)
  <2>1. /\ Families[b] # None /\ Families[b].streams = StreamsOf(lanes) /\ Families[b].dom = dom
        /\ Families[b] = Streams(batch[b]) /\ lanes \in Seq(LaneType)
    BY <1>1, AtIs
  <2>2. Streams(batch[b]) = [dom |-> dom, streams |-> StreamsOf(lanes)]
    BY DEF Streams, StreamsOf
  <2> QED BY <2>1, <2>2
<1>3. /\ \A i \in DOMAIN lanes : lanes[i].made + steps <= MaxBlocks
      /\ batch' = [batch EXCEPT ![b].lanes = all]
      /\ ret' = Gives(given) /\ UNCHANGED <<solo, saved>>
  BY DEF Blocks
<1> HIDE DEF dom, lanes
<1>4. /\ n \in Nat /\ DOMAIN lanes = 1 .. n
      /\ Len(StreamsOf(lanes)) = n /\ DOMAIN StreamsOf(lanes) = 1 .. n
      /\ \A i \in 1 .. n : StreamsOf(lanes)[i] = Stream(lanes[i])
  BY <1>2, StreamsIn
<1>5. \A i \in 1 .. n : /\ lanes[i] \in LaneType /\ Good(lanes[i])
                        /\ lanes[i].made \in Nat /\ lanes[i].made + steps <= MaxBlocks
  <2>1. \A i \in 1 .. n : lanes[i] \in LaneType /\ Good(lanes[i])
    BY <1>1, FamilyIs
  <2>2. \A i \in 1 .. n : lanes[i].made \in Nat
    BY <2>1 DEF LaneType
  <2> QED BY <1>3, <1>4, <2>1, <2>2
<1>6. Family(dom, all)
  BY <1>1, <1>3, RanLanes
<1>7. given = due
  <2> SUFFICES ASSUME NEW x \in 0 .. n * steps - 1
               PROVE  Ran(lanes[(x % n) + 1], x \div n + 1).s
                        = SF!Upcoming(Families[b].streams[(x % n) + 1], x \div n)
    OBVIOUS
  <2> DEFINE q == x \div n
             r == x % n
  <2> HIDE DEF n
  <2>1. n \in Nat \ {0} /\ x \in Nat
    <3>1. n = 0 => n * steps = 0
      BY <1>4
    <3>2. n * steps > 0
      BY <1>4
    <3> QED BY <1>4, <3>1, <3>2
  <2>2. q \in 0 .. steps-1
    BY <2>1, QuotBound
  <2>3. r \in 0 .. n-1
    BY <2>1, DivMod
  <2> HIDE DEF q, r
  <2> DEFINE lane == lanes[r + 1]
  <2>4. r + 1 \in 1 .. n /\ q \in Nat /\ q + 1 <= steps
    BY <2>1, <2>2, <2>3
  <2>5. lane \in LaneType /\ Good(lane) /\ lane.made \in Nat /\ lane.made + steps <= MaxBlocks
        /\ Families[b].streams[r + 1] = Stream(lane)
    BY <1>2, <1>4, <1>5, <2>4
  <2> HIDE DEF lane
  <2>6. lane.made + q + 1 <= MaxBlocks
    BY <2>4, <2>5, ConstantTypes
  <2>7. Ran(lane, q + 1).s = SF!Upcoming(Stream(lane), q)
    BY <2>4, <2>5, <2>6, UpcomingBlock
  <2> QED BY <2>5, <2>7 DEF lane, q, r
<1>8. \A i \in 1 .. n : [Stream(lanes[i]) EXCEPT !.made = @ + steps] = Stream(Ran(lanes[i], steps))
  <2> TAKE i \in 1 .. n
  <2>1. Ran(lanes[i], steps).line = lanes[i].line /\ Ran(lanes[i], steps).made = lanes[i].made + steps
    BY <1>5, RanGood
  <2> QED BY <2>1 DEF Stream
<1>9. on = [i \in 1 .. n |-> [Stream(lanes[i]) EXCEPT !.made = @ + steps]]
  BY <1>2, <1>4
<1>10. on = StreamsOf(all)
  <2>1. all = [i \in 1 .. n |-> Ran(lanes[i], steps)] /\ all \in Seq(LaneType)
    BY <1>4, <1>6 DEF Family
  <2> HIDE DEF all, on, n
  <2>2. Len(all) = n
    BY <1>4, <2>1
  <2>3. \A i \in 1 .. n : on[i] = Stream(all[i])
    BY <1>8, <1>9, <2>1
  <2>4. on = [i \in 1 .. n |-> on[i]]
    BY <1>9
  <2> QED BY <2>1, <2>2, <2>3, <2>4, StreamsAre, ZenonT(60)
<1> HIDE DEF all, given, due, n
<1> DEFINE x == [dom |-> dom, lanes |-> all]
<1>11. x # None /\ Streams(x) = [dom |-> dom, streams |-> StreamsOf(all)]
  BY <1>1, <1>6, StreamsOfBatch DEF Family
<1>12. \A c \in Batch : batch'[c] = IF c = b THEN x ELSE batch[c]
  <2>1. batch \in [Batch -> {None} \cup BatchType]
    BY DEF IInv, Types
  <2>2. [batch[b] EXCEPT !.lanes = all] = x
    BY <1>1
  <2>3. batch' = [batch EXCEPT ![b] = [batch[b] EXCEPT !.lanes = all]]
    BY <1>3
  <2> HIDE DEF x
  <2>4. batch' = [batch EXCEPT ![b] = x]
    BY <2>2, <2>3
  <2> QED BY <2>1, <2>4
<1> HIDE DEF x
<1>13. Families' = [Families EXCEPT ![b] = [dom |-> dom, streams |-> on]]
  <2> HIDE DEF on
  <2> QED BY <1>10, <1>11, <1>12 DEF Families
<1>14. Families' = [Families EXCEPT ![b].streams = on]
  <2>1. Families = [c \in Batch |-> Families[c]]
    BY DEF Families
  <2> HIDE DEF on
  <2>2. [Families[b] EXCEPT !.streams = on] = [dom |-> dom, streams |-> on]
    BY <1>2
  <2>3. [Families EXCEPT ![b].streams = on]
          = [Families EXCEPT ![b] = [Families[b] EXCEPT !.streams = on]]
    BY ONLY Zenon
  <2> QED BY <1>13, <2>2, <2>3
<1>15. UNCHANGED <<Singles, Kept>>
  BY <1>3 DEF Singles, Kept
<1>16. ret' = SF!Gives(due)
  BY <1>3, <1>7 DEF Gives, SF!Gives
<1>17. Len(Families[b].streams) = n
  BY <1>2, <1>4
<1> QED BY <1>2, <1>14, <1>15, <1>16, <1>17 DEF SF!Blocks, due

LEMMA SoloBlockRefines ==
  ASSUME IInv, NEW h \in Solo, SoloBlock(h)
  PROVE  SF!SoloBlock(h)
<1> DEFINE lane == solo[h]
           next == Stepped(lane)
<1>1. /\ solo[h] # None /\ solo[h].made < MaxBlocks /\ solo' = [solo EXCEPT ![h] = next]
      /\ ret' = Gives([x \in {0} |-> next.s]) /\ UNCHANGED <<batch, saved>>
  BY DEF SoloBlock
<1>2. lane \in LaneType /\ Good(lane) /\ lane.made \in Nat /\ lane.made + 0 + 1 <= MaxBlocks
      /\ lane.made + 1 = lane.made + 0 + 1
  <2>1. lane \in LaneType /\ Good(lane)
    BY <1>1 DEF IInv, Types, Goods
  <2>2. lane.made \in Nat
    BY <2>1 DEF LaneType
  <2> QED BY <1>1, <2>1, <2>2, ConstantTypes
<1>3. next = Ran(lane, 0 + 1)
  <2> HIDE DEF lane
  <2> QED BY <1>2, RanNext
<1>4. next.s = SF!Upcoming(Stream(lane), 0)
  <2> HIDE DEF lane, next
  <2> QED BY <1>2, <1>3, UpcomingBlock
<1>5. next \in LaneType /\ next.line = lane.line /\ next.made = lane.made + 1
  <2> HIDE DEF lane
  <2> QED BY <1>2, SteppedIs
<1>6. Singles[h] = Stream(lane) /\ Singles[h] # None
  BY <1>1, <1>2, StreamIn, NoneApart DEF Singles
<1> HIDE DEF lane, next
<1>7. [Stream(lane) EXCEPT !.made = @ + 1] = Stream(next)
  BY <1>5 DEF Stream
<1>8. \A c \in Solo : solo'[c] = IF c = h THEN next ELSE solo[c]
  BY <1>1 DEF IInv, Types
<1>9. next # None
  BY <1>5, NoneApart
<1>10. Singles' = [Singles EXCEPT ![h] = Stream(next)]
  BY <1>8, <1>9 DEF Singles
<1>11. Singles' = [Singles EXCEPT ![h].made = @ + 1]
  <2>1. [Singles EXCEPT ![h].made = @ + 1] = [Singles EXCEPT ![h] = [Singles[h] EXCEPT !.made = @ + 1]]
    BY ONLY Zenon
  <2> QED BY <1>6, <1>7, <1>10, <2>1
<1>12. UNCHANGED <<Families, Kept>>
  BY <1>1 DEF Families, Kept
<1>13. ret' = SF!Gives([x \in {0} |-> SF!Upcoming(Singles[h], 0)])
  BY <1>1, <1>4, <1>6 DEF Gives, SF!Gives
<1> QED BY <1>6, <1>11, <1>12, <1>13 DEF SF!SoloBlock

LEMMA ExportRefines ==
  ASSUME IInv, NEW b \in Batch, NEW k \in Store, Export(b, k)
  PROVE  SF!Export(b, k)
<1> DEFINE dom == batch[b].dom
           lanes == batch[b].lanes
           file == ToBytes(batch[b])
<1>1. batch[b] # None /\ saved' = [saved EXCEPT ![k] = file] /\ ret' = Nothing
      /\ UNCHANGED <<batch, solo>>
  BY DEF Export
<1>2. dom \in Domains /\ lanes \in Seq(LaneType) /\ Families[b] # None
      /\ Families[b] = Streams(batch[b]) /\ batch[b] = [dom |-> dom, lanes |-> lanes]
  BY <1>1, AtIs, BatchIs
<1>3. file = [len |-> HeaderLen + LaneLen * Len(lanes), kind |-> dom, count |-> Len(lanes),
              lanes |-> lanes]
  BY DEF ToBytes
<1> HIDE DEF dom, lanes, file
<1>4. file # None /\ Whole(file) /\ [dom |-> file.kind, lanes |-> file.lanes] = batch[b]
  <2>1. Len(lanes) \in Nat
    BY <1>2
  <2>2. HeaderLen + LaneLen * Len(lanes) \in Nat
    BY <2>1 DEF HeaderLen, LaneLen
  <2>3. file \in FileType
    BY <1>2, <1>3, <2>1, <2>2 DEF FileType
  <2> QED BY <1>2, <1>3, <2>3, NoneApart DEF Whole
<1>5. \A c \in Store : saved'[c] = IF c = k THEN file ELSE saved[c]
  BY <1>1 DEF IInv, Types
<1>6. Kept' = [Kept EXCEPT ![k] = Families[b]]
  BY <1>2, <1>4, <1>5 DEF Kept
<1>7. UNCHANGED <<Families, Singles>> /\ ret' = SF!Nothing
  BY <1>1 DEF Families, Singles, Nothing, Gives, SF!Nothing, SF!Gives
<1> QED BY <1>2, <1>6, <1>7 DEF SF!Export

LEMMA ImportRefines ==
  ASSUME IInv, NEW k \in Store, NEW b \in Batch, NEW kind \in Domains, Import(k, b, kind),
         HeaderError(saved[k], kind) = None
  PROVE  SF!Import(k, b)
<1> DEFINE lanes == saved[k].lanes
<1>1. saved[k] # None /\ Put(b, kind, lanes)
  BY DEF Import
<1>2. Whole(saved[k]) /\ kind = saved[k].kind
  BY <1>1, WholeIff
<1>3. Family(kind, lanes)
  BY <1>1, <1>2, FileIs
<1>4. Kept[k] = Streams([dom |-> kind, lanes |-> lanes])
  BY <1>1, <1>2 DEF Kept
<1> HIDE DEF lanes
<1>5. Kept[k] # None /\ Kept[k] = [dom |-> kind, streams |-> StreamsOf(lanes)]
  BY <1>3, <1>4, StreamsOfBatch DEF Family
<1>6. Kept[k].dom = kind /\ Kept[k].streams = StreamsOf(lanes)
  BY <1>5
<1>7. SF!Put(b, Kept[k].dom, Kept[k].streams)
  BY <1>1, <1>3, <1>6, PutRefines
<1> QED BY <1>5, <1>7 DEF SF!Import

LEMMA EndRefines ==
  ASSUME End
  PROVE  /\ Families' = [b \in Batch |-> None] /\ Singles' = [h \in Solo |-> None]
         /\ ret' = SF!Nothing
BY DEF End, Families, Singles, Nothing, Gives, SF!Nothing, SF!Gives

LEMMA CrashRefines == ASSUME Crash PROVE SF!Crash
<1>1. Families' = [b \in Batch |-> None] /\ Singles' = [h \in Solo |-> None] /\ ret' = SF!Nothing
  BY EndRefines DEF Crash
<1>2. Kept' = Kept
  BY DEF Crash, Kept
<1>3. Kept' = [k \in Store |-> IF k \in {} THEN None ELSE Kept[k]] /\ {} \in SUBSET Store
  BY <1>2 DEF Kept
<1> QED BY <1>1, <1>3, Zenon DEF SF!Crash

LEMMA CrashInExportRefines ==
  ASSUME IInv, NEW b \in Batch, NEW k \in Store, NEW cut \in Nat, CrashInExport(b, k, cut)
  PROVE  SF!Crash
<1> DEFINE file == [ToBytes(batch[b]) EXCEPT !.len = cut]
           n == Len(batch[b].lanes)
<1>1. saved' = [saved EXCEPT ![k] = file] /\ End /\ cut < ToBytes(batch[b]).len
  BY DEF CrashInExport
<1>2. n \in Nat
  BY BatchIs, FamilyIs DEF CrashInExport
<1>3. ToBytes(batch[b]).len = HeaderLen + LaneLen * n
  BY DEF ToBytes
<1>4. file.len = cut /\ file.lanes = batch[b].lanes
  BY DEF ToBytes
<1> HIDE DEF file
<1>5. ~ Whole(file)
  BY <1>1, <1>2, <1>3, <1>4 DEF Whole, HeaderLen, LaneLen
<1>6. \A c \in Store : saved'[c] = IF c = k THEN file ELSE saved[c]
  BY <1>1 DEF IInv, Types
<1>7. Kept' = [c \in Store |-> IF c \in {k} THEN None ELSE Kept[c]] /\ {k} \in SUBSET Store
  BY <1>5, <1>6 DEF Kept
<1>8. Families' = [c \in Batch |-> None] /\ Singles' = [h \in Solo |-> None] /\ ret' = SF!Nothing
  BY <1>1, EndRefines
<1> QED BY <1>7, <1>8, Zenon DEF SF!Crash

LEMMA RefinesInit == Init => SF!Init
BY DEF Init, Families, Singles, Kept, Nothing, Gives, SF!Init, SF!Nothing, SF!Gives

LEMMA RefinesStep == IInv /\ [Next]_vars => [SF!Next]_SF!vars
<1> SUFFICES ASSUME IInv, [Next]_vars
             PROVE  SF!Next \/ UNCHANGED SF!vars
  BY DEF SF!vars
<1>1. ASSUME NEW b \in Batch, NEW seed \in Seeds, NEW ids \in IdLists, NewPrng(b, seed, ids)
      PROVE  SF!Next
  <2>1. SF!Put(b, "prng", SF!Prngs(seed, ids))
    BY <1>1, NewRefines, ConstantTypes DEF NewPrng
  <2> QED BY <2>1, Zenon DEF SF!Next
<1>2. ASSUME NEW b \in Batch, NEW seed \in Seeds, NEW first \in Firsts, NEW n \in Counts,
             NewRange(b, seed, first, n)
      PROVE  SF!Next
  <2>1. RangeIds(first, n) \in Seq(Id) /\ RangeIds(first, n) = SF!RangeIds(first, n)
    BY RangeIdsIn, SameRange, ConstantTypes
  <2>2. SF!Put(b, "prng", SF!Prngs(seed, RangeIds(first, n)))
    BY <1>2, <2>1, NewRefines DEF NewRange
  <2>3. SF!Put(b, "prng", SF!Prngs(seed, SF!RangeIds(first, n)))
    BY <2>1, <2>2
  <2> QED BY <2>3, Zenon DEF SF!Next
<1>3. ASSUME NEW b \in Batch, NEW messages \in MessageLists, NewXof(b, messages)
      PROVE  SF!Next
  <2>1. SF!Put(b, "xof", SF!Xofs(messages))
    BY <1>3, NewXofRefines
  <2> QED BY <2>1, Zenon DEF SF!Next
<1>4. ASSUME NEW b \in Batch, NEW seed \in Seeds, NEW ids \in IdLists, NEW path \in Paths,
             DerivePath(b, "prng", PrngLanes(seed, ids), path)
      PROVE  SF!Next
  <2>1. CASE path = <<>>
    <3>1. Refuse("empty_path") /\ "empty_path" \in Errors
      BY <1>4, <2>1 DEF DerivePath, Errors
    <3> QED BY <3>1, FailRefines
  <2>2. CASE path # <<>>
    <3> DEFINE roots == PrngLanes(seed, ids)
               streams == SF!Prngs(seed, ids)
    <3>1. ids \in Seq(Id) /\ path \in Seq(Id)
      BY ConstantTypes
    <3>2. Family("prng", roots) /\ (\A i \in 1 .. Len(roots) : IsRoot(roots[i]))
          /\ "prng" \in Domains /\ streams = StreamsOf(roots)
      BY <3>1, PrngLanesGood, PrngStreams DEF Domains
    <3>3. DerivePath(b, "prng", roots, path)
      BY <1>4
    <3> HIDE DEF roots, streams
    <3>4. SF!DerivePath(b, "prng", streams, path)
      BY <2>2, <3>1, <3>2, <3>3, DeriveRefines
    <3> QED BY <3>4, Zenon DEF SF!Next, streams
  <2> QED BY <2>1, <2>2
<1>5. ASSUME NEW b \in Batch, NEW messages \in MessageLists, NEW path \in Paths,
             DerivePath(b, "xof", XofLanes(messages), path)
      PROVE  SF!Next
  <2>1. CASE path = <<>>
    <3>1. Refuse("empty_path") /\ "empty_path" \in Errors
      BY <1>5, <2>1 DEF DerivePath, Errors
    <3> QED BY <3>1, FailRefines
  <2>2. CASE path # <<>>
    <3> DEFINE roots == XofLanes(messages)
               streams == SF!Xofs(messages)
    <3>1. path \in Seq(Id)
      BY ConstantTypes
    <3>2. Family("xof", roots) /\ (\A i \in 1 .. Len(roots) : IsRoot(roots[i]))
          /\ "xof" \in Domains /\ streams = StreamsOf(roots)
      BY MessagesIn, XofLanesGood, XofStreams DEF Domains
    <3>3. DerivePath(b, "xof", roots, path)
      BY <1>5
    <3> HIDE DEF roots, streams
    <3>4. SF!DerivePath(b, "xof", streams, path)
      BY <2>2, <3>1, <3>2, <3>3, DeriveRefines
    <3> QED BY <3>4, Zenon DEF SF!Next, streams
  <2> QED BY <2>1, <2>2
<1>6. ASSUME NEW h \in Solo, NEW seed \in Seeds, NEW path \in Paths, PrngSolo(h, seed, path)
      PROVE  SF!Next
  <2>1. CASE path = <<>>
    <3>1. Refuse("empty_path") /\ "empty_path" \in Errors
      BY <1>6, <2>1 DEF PrngSolo, Errors
    <3> QED BY <3>1, FailRefines
  <2>2. CASE path # <<>>
    <3>1. SF!DeriveSolo(h, "prng", SF!Root("prng", seed, Head(path)), Tail(path))
      BY <1>6, <2>2, PrngSoloRefines, ConstantTypes
    <3>2. path \in Paths \ {<<>>}
      BY <2>2
    <3> QED BY <3>1, <3>2, Zenon DEF SF!Next
  <2> QED BY <2>1, <2>2
<1>7. ASSUME NEW h \in Solo, NEW messages \in MessageLists, NEW path \in Paths,
             NEW i \in DOMAIN messages, XofSolo(h, messages[i], path)
      PROVE  SF!Next
  <2>1. CASE path = <<>>
    <3>1. Refuse("empty_path") /\ "empty_path" \in Errors
      BY <1>7, <2>1 DEF XofSolo, Errors
    <3> QED BY <3>1, FailRefines
  <2>2. CASE path # <<>>
    <3>1. messages[i] \in Messages /\ path \in Seq(Id)
      BY MessagesIn, ConstantTypes
    <3>2. SF!DeriveSolo(h, "xof", SF!Root("xof", messages[i], None), path)
      BY <1>7, <2>2, <3>1, XofSoloRefines
    <3>3. path \in Paths \ {<<>>}
      BY <2>2
    <3> QED BY <3>2, <3>3, Zenon DEF SF!Next
  <2> QED BY <2>1, <2>2
<1>8. ASSUME NEW b \in Batch, NEW c \in Batch, NEW ids \in IdLists, Fork(b, c, ids)
      PROVE  SF!Next
  <2>1. CASE Len(ids) # Len(batch[b].lanes)
    <3>1. Refuse("panic") /\ "panic" \in Errors
      BY <1>8, <2>1 DEF Fork, Errors
    <3> QED BY <3>1, FailRefines
  <2>2. CASE Len(ids) = Len(batch[b].lanes)
    <3>1. SF!Fork(b, c, ids)
      BY <1>8, <2>2, ForkRefines, ConstantTypes
    <3> QED BY <3>1, Zenon DEF SF!Next
  <2> QED BY <2>1, <2>2
<1>9. ASSUME NEW b \in Batch, NEW c \in Batch, NEW ids \in IdLists, ForkMany(b, c, ids)
      PROVE  SF!Next
  <2>1. CASE Len(batch[b].lanes) * Len(ids) > UsizeMax
    <3>1. Refuse("size_overflow") /\ "size_overflow" \in Errors
      BY <1>9, <2>1 DEF ForkMany, Errors
    <3> QED BY <3>1, FailRefines
  <2>2. CASE ~ (Len(batch[b].lanes) * Len(ids) > UsizeMax)
    <3>1. SF!ForkMany(b, c, ids)
      BY <1>9, <2>2, ForkManyRefines, ConstantTypes
    <3> QED BY <3>1, Zenon DEF SF!Next
  <2> QED BY <2>1, <2>2
<1>10. ASSUME NEW b \in Batch, NEW c \in Batch, NEW first \in Firsts, ForkRange(b, c, first)
       PROVE  SF!Next
  <2> DEFINE n == Len(batch[b].lanes)
             ids == RangeIds(first, n)
  <2>1. batch[b] # None /\ Fork(b, c, ids)
    BY <1>10 DEF ForkRange
  <2>2. n \in Nat
    BY <2>1, BatchIs, FamilyIs
  <2>3. Families[b] # None /\ Len(Families[b].streams) = n
    BY <2>1, AtIs, StreamsIn
  <2> HIDE DEF n
  <2>4. ids \in Seq(Id) /\ Len(ids) = n /\ ids = SF!RangeIds(first, n)
    BY <2>2, RangeIdsIn, SameRange, ConstantTypes
  <2> HIDE DEF ids
  <2>5. SF!Fork(b, c, ids)
    BY <2>1, <2>4, ForkRefines DEF n
  <2>6. SF!Fork(b, c, SF!RangeIds(first, Len(Families[b].streams)))
    BY <2>3, <2>4, <2>5
  <2> QED BY <2>3, <2>6, Zenon DEF SF!Next
<1>11. ASSUME NEW b \in Batch, NEW c \in Batch, Clone(b, c)
       PROVE  SF!Next
  BY <1>11, CloneRefines, Zenon DEF SF!Next
<1>12. CASE OutOfMemory
  <2>1. Refuse("reserve") /\ "reserve" \in Errors
    BY <1>12 DEF OutOfMemory, Errors
  <2> QED BY <2>1, FailRefines
<1>13. ASSUME NEW b \in Batch, NEW h \in Solo, NEW i \in DOMAIN batch[b].lanes, Lane(b, i, h)
       PROVE  SF!Next
  <2>1. Families[b] # None /\ i \in DOMAIN Families[b].streams /\ SF!Lane(b, i, h)
    BY <1>13, LaneRefines
  <2> QED BY <2>1, Zenon DEF SF!Next
<1>14. ASSUME NEW b \in Batch, NEW steps \in StepCounts, Blocks(b, steps)
       PROVE  SF!Next
  <2>1. CASE Len(batch[b].lanes) * steps > UsizeMax
    <3>1. Refuse("size_overflow") /\ "size_overflow" \in Errors
      BY <1>14, <2>1 DEF Blocks, Errors
    <3> QED BY <3>1, FailRefines
  <2>2. CASE ~ (Len(batch[b].lanes) * steps > UsizeMax)
    <3>1. SF!Blocks(b, steps)
      BY <1>14, <2>2, BlocksRefines, ConstantTypes
    <3> QED BY <3>1, Zenon DEF SF!Next
  <2> QED BY <2>1, <2>2
<1>15. ASSUME NEW b \in Batch, FillWrongLength(b)
       PROVE  SF!Next
  <2>1. Refuse("panic") /\ "panic" \in Errors
    BY <1>15 DEF FillWrongLength, Errors
  <2> QED BY <2>1, FailRefines
<1>16. ASSUME NEW h \in Solo, SoloBlock(h)
       PROVE  SF!Next
  <2>1. SF!SoloBlock(h)
    BY <1>16, SoloBlockRefines
  <2> QED BY <2>1, Zenon DEF SF!Next
<1>17. ASSUME NEW b \in Batch, NEW k \in Store, Export(b, k)
       PROVE  SF!Next
  <2>1. SF!Export(b, k)
    BY <1>17, ExportRefines
  <2> QED BY <2>1, Zenon DEF SF!Next
<1>18. ASSUME NEW b \in Batch, NEW k \in Store, NEW kind \in Domains, Import(k, b, kind)
       PROVE  SF!Next
  <2>1. CASE HeaderError(saved[k], kind) # None
    <3>1. Refuse(HeaderError(saved[k], kind))
      BY <1>18, <2>1 DEF Import
    <3>2. HeaderError(saved[k], kind) \in Errors
      BY <2>1 DEF HeaderError, Errors
    <3> QED BY <3>1, <3>2, FailRefines
  <2>2. CASE HeaderError(saved[k], kind) = None
    <3>1. SF!Import(k, b)
      BY <1>18, <2>2, ImportRefines
    <3> QED BY <3>1, Zenon DEF SF!Next
  <2> QED BY <2>1, <2>2
<1>19. CASE Crash
  BY <1>19, CrashRefines, Zenon DEF SF!Next
<1>20. ASSUME NEW b \in Batch, NEW k \in Store, NEW cut \in Cuts, CrashInExport(b, k, cut)
       PROVE  SF!Next
  <2>1. cut \in Nat
    BY DEF Cuts, HeaderLen, LaneLen
  <2> QED BY <1>20, <2>1, CrashInExportRefines, Zenon DEF SF!Next
<1>21. CASE UNCHANGED vars
  BY <1>21 DEF vars, Families, Singles, Kept, SF!vars
<1> QED
  BY <1>1, <1>2, <1>3, <1>4, <1>5, <1>6, <1>7, <1>8, <1>9, <1>10, <1>11, <1>12, <1>13,
     <1>14, <1>15, <1>16, <1>17, <1>18, <1>19, <1>20, <1>21, Zenon DEF Next

(* The batches do what StreamFamily says: streams each on its own line,    *)
(* children in row order, wrapping identifiers, blocks laid out step by    *)
(* step, failures that change nothing, snapshots that resume exactly or    *)
(* are refused (prng.rs, xof.rs, types/snapshot.rs; ARCHITECTURE.md,       *)
(* section 10).                                                            *)
THEOREM Refinement == Spec => ImplementsStreamFamily
<1>1. Spec => SF!Spec
  BY RefinesInit, RefinesStep, Invariance, PTL DEF Spec, SF!Spec
<1> QED BY <1>1 DEF ImplementsStreamFamily

=============================================================================

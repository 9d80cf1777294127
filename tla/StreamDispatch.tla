--------------------------- MODULE StreamDispatch ----------------------------
(***************************************************************************)
(* fill_blocks of a batch, from the call to its return (src/dispatch.rs    *)
(* dispatch_streams, src/dispatch/params.rs, src/dispatch/backend.rs,      *)
(* process_lanes_x4 of src/core_avx2.rs): the planner chooses a backend    *)
(* and either the calling thread or chunks of lanes for the Rayon pool,    *)
(* and every worker writes its blocks straight into the caller's buffer.   *)
(*                                                                         *)
(* A worker advances a tile, some lanes by some steps, in registers: it    *)
(* loads the lanes, writes one row of blocks per stream step, and stores   *)
(* the lanes again.  Those are its atomic steps.                           *)
(***************************************************************************)
EXTENDS Integers, FiniteSets, Sequences

CONSTANTS
  Worker,         \* threads of the pool
  Caller,         \* the thread that calls fill_blocks
  Sizes,          \* lane counts of the batches explored
  StepCounts,     \* arguments of fill_blocks
  State,          \* values of the state words (s0, s1)
  Origin(_),      \* state lane i starts from
  Mix(_, _),      \* IDM, then ERD with a round constant
  Phi, WordMod,   \* PHI_64 and 2^64
  NearTasks(_), Rounds(_), Threshold(_), MinTasks(_),  \* tuning of each backend
  BlockAt(_, _),  \* block k of the stream of an origin, see BlockLaw
  MaxBlocks,      \* bound: blocks taken from a lane
  None

Backends == {"scalar", "avx2"}

ASSUME Tuning ==
  \A b \in Backends :
    /\ NearTasks(b) \in Nat \ {0} /\ Rounds(b) \in Nat \ {0}
    /\ Threshold(b) \in Nat /\ MinTasks(b) \in Nat

ASSUME ConstantTypes ==
  /\ Sizes \subseteq Nat /\ StepCounts \subseteq Nat /\ MaxBlocks \in Nat
  /\ WordMod \in Nat \ {0} /\ Phi \in 0 .. WordMod-1
  /\ IsFiniteSet(Worker) /\ Caller \notin Worker
  /\ \A n \in Sizes : \A i \in 0 .. n-1 : Origin(i) \in State
  /\ \A s \in State, rc \in 0 .. WordMod-1 : Mix(s, rc) \in State

(* The round constant of a step of erd_round_scalar_ref.                   *)
Rc(step) == (Phi * ((step + 2) % WordMod)) % WordMod

StreamStep(s, step) == Mix(s, Rc(step))

ASSUME BlockLaw ==
  \A o \in State :
    /\ BlockAt(o, 0) = o
    /\ \A k \in 0 .. MaxBlocks-1 :
         BlockAt(o, k + 1) = StreamStep(BlockAt(o, k), k % WordMod)

VARIABLES
  mode,    \* what the process and its machine allow, fixed at its start
  lanes,   \* StreamLane of the batch, with the history field made
  call,    \* the running fill_blocks
  job,     \* job[w]: the work item thread w is in
  out,     \* the buffer of the running call
  ret      \* the buffer the last call returned

vars == <<mode, lanes, call, job, out, ret>>

Hands == Worker \cup {Caller}

Lesser(a, b) == IF a < b THEN a ELSE b
Larger(a, b) == IF a > b THEN a ELSE b
DivCeil(a, b) == (a + b - 1) \div b

LaneCount == Cardinality(DOMAIN lanes)

-----------------------------------------------------------------------------
(* The planner.                                                            *)

Threads == Cardinality(Worker)

ChooseBackend(simd, n) == IF simd /\ n >= 4 THEN "avx2" ELSE "scalar"

(* The next multiple of 4, at least 4.                                     *)
Ceil4(v) == Larger(4 * DivCeil(v, 4), 4)

(* Mutant: the pool may get more items than it has threads.                *)
ChunkForAnyPool(b, n, steps, threads) ==
  Lesser(Ceil4(DivCeil(n, NearTasks(b))),
         Larger(4 * ((Rounds(b) \div Larger(steps, 1)) \div 4), 4))

(* ChunkRule::chunk_for.                                                   *)
ChunkFor(b, n, steps, threads) ==
  LET even      == Ceil4(DivCeil(n, NearTasks(b)))
      cap       == Larger(4 * ((Rounds(b) \div Larger(steps, 1)) \div 4), 4)
      perThread == Ceil4(DivCeil(n, Larger(threads, 1)))
  IN  Larger(Lesser(even, cap), perThread)

(* StreamParams::parallel_for.                                             *)
GoesParallel(b, n, steps, threads) ==
  /\ threads >= 2
  /\ n * steps >= Threshold(b)
  /\ DivCeil(n, ChunkFor(b, n, steps, threads))
       >= Larger(Lesser(MinTasks(b), threads), 2)

(* par_chunks_mut(chunk): the lane ranges handed to the pool.              *)
Chunks(n, chunk) ==
  {[first |-> k * chunk, len |-> Lesser(chunk, n - k * chunk)] : k \in 0 .. DivCeil(n, chunk) - 1}

-----------------------------------------------------------------------------
(* The kernels: the tiles of a lane range, in the order they are done.     *)

(* process_lanes_scalar: 4 lanes by 8 steps, the steps in the outer loop;  *)
(* a single step takes the whole range at once.                            *)
ScalarTiles(first, len, steps) ==
  LET across == DivCeil(len, 4)
      down   == DivCeil(steps, 8)
  IN  IF steps = 1
        THEN <<[base |-> first, width |-> len, from |-> 0, to |-> 1, x4 |-> FALSE]>>
        ELSE [k \in 1 .. across * down |->
               LET a == (k - 1) % across
                   d == (k - 1) \div across
               IN  [base |-> first + 4 * a, width |-> Lesser(4, len - 4 * a),
                    from |-> 8 * d, to |-> Lesser(steps, 8 * d + 8), x4 |-> FALSE]]

(* process_lanes_x4: groups of 4 lanes, all steps of a group in a row.     *)
X4Tiles(first, len, steps) ==
  [g \in 1 .. len \div 4 |->
    [base |-> first + 4 * (g - 1), width |-> 4, from |-> 0, to |-> steps, x4 |-> TRUE]]

(* Mutant: the tail is as long as the whole range.                         *)
TilesTailTooLong(b, first, len, steps) ==
  LET head == 4 * (len \div 4)
  IN  IF b = "scalar" THEN ScalarTiles(first, len, steps)
      ELSE X4Tiles(first, head, steps) \o
           (IF head < len THEN ScalarTiles(first + head, len, steps) ELSE <<>>)

(* process_lanes.                                                          *)
Tiles(b, first, len, steps) ==
  LET head == 4 * (len \div 4)
  IN  IF b = "scalar" THEN ScalarTiles(first, len, steps)
      ELSE X4Tiles(first, head, steps) \o
           (IF head < len THEN ScalarTiles(first + head, len - head, steps) ELSE <<>>)

-----------------------------------------------------------------------------
(* A call.                                                                 *)

(* The plan goes to the pool, before a pool is looked for.                 *)
PlansPool(b, n, steps) == mode.parallel /\ GoesParallel(b, n, steps, Threads)

(* Mutant: nobody runs the work when there is no pool.                     *)
HandsOfPool(planned) ==
  IF planned THEN IF mode.pool THEN Worker ELSE {} ELSE {Caller}

(* Who runs a plan; without a pool the calling thread does.                *)
HandsFor(planned) == IF planned /\ mode.pool THEN Worker ELSE {Caller}

Items(hands, b, n, steps) ==
  IF hands = {Caller} THEN {[first |-> 0, len |-> n]}
  ELSE Chunks(n, ChunkFor(b, n, steps, Threads))

Begin(steps) ==
  LET n     == LaneCount
      b     == ChooseBackend(mode.simd, n)
      hands == HandsFor(PlansPool(b, n, steps))
  IN  /\ call = None
      /\ n > 0 /\ steps > 0
      /\ \A i \in DOMAIN lanes : lanes[i].made + steps <= MaxBlocks
      /\ call' = [steps |-> steps, backend |-> b, hands |-> hands,
                  todo  |-> Items(hands, b, n, steps),
                  start |-> [i \in DOMAIN lanes |-> lanes[i].made]]
      /\ out' = [x \in 0 .. n * steps - 1 |-> None]
      /\ UNCHANGED <<mode, lanes, job, ret>>

(* Nothing to do: execute_streams returns before it writes.                *)
BeginNothing(steps) ==
  /\ call = None
  /\ LaneCount = 0 \/ steps = 0
  /\ ret' = [x \in {} |-> 0]
  /\ UNCHANGED <<mode, lanes, call, job, out>>

Take(w) ==
  /\ call # None /\ w \in call.hands /\ job[w] = None
  /\ \E item \in call.todo :
       /\ call' = [call EXCEPT !.todo = @ \ {item}]
       /\ job' = [job EXCEPT ![w] =
            [tiles |-> Tiles(call.backend, item.first, item.len, call.steps),
             regs |-> None, s |-> 0]]
  /\ UNCHANGED <<mode, lanes, out, ret>>

Busy(w) == call # None /\ job[w] # None

Tile(w) == Head(job[w].tiles)

(* The registers of a tile: the state, the counter and, in the x4 kernel,  *)
(* the round constant of the next step.                                    *)
Load(w) ==
  /\ Busy(w) /\ job[w].regs = None
  /\ job' = [job EXCEPT
       ![w].regs = [j \in 0 .. Tile(w).width - 1 |->
          LET lane == lanes[Tile(w).base + j]
          IN  [s |-> lane.s, step |-> lane.step, rc |-> Rc(lane.step)]],
       ![w].s = Tile(w).from]
  /\ UNCHANGED <<mode, lanes, call, out, ret>>

(* One stream step of a lane in registers.                                 *)
ScalarStep(r) ==
  [s |-> StreamStep(r.s, r.step), step |-> (r.step + 1) % WordMod, rc |-> r.rc]

X4Step(r) ==
  [s |-> Mix(r.s, r.rc), step |-> r.step, rc |-> (r.rc + Phi) % WordMod]

Advanced(x4, r) == IF x4 THEN X4Step(r) ELSE ScalarStep(r)

(* Mutant: lane-major.                                                     *)
SlotByLane(n, s, lane) == lane * call.steps + s

(* Where the block of a lane at a step goes.                               *)
Slot(n, s, lane) == s * n + lane

Row(w) ==
  /\ Busy(w) /\ job[w].regs # None /\ job[w].s < Tile(w).to
  /\ LET t    == Tile(w)
         regs == [j \in DOMAIN job[w].regs |-> Advanced(t.x4, job[w].regs[j])]
         row  == Slot(LaneCount, job[w].s, t.base)
     IN  /\ job' = [job EXCEPT ![w].regs = regs, ![w].s = @ + 1]
         /\ out' = [x \in DOMAIN out |->
                      IF x \in row .. row + t.width - 1 THEN regs[x - row].s ELSE out[x]]
  /\ UNCHANGED <<mode, lanes, call, ret>>

(* Mutant: the counter does not wrap.                                      *)
StepAfterUnbounded(t, r) == IF t.x4 THEN r.step + t.to ELSE r.step

(* The counter a tile leaves in a lane: the scalar kernel counts along,    *)
(* the x4 kernel adds all its steps at the end.                            *)
StepAfter(t, r) == IF t.x4 THEN (r.step + t.to) % WordMod ELSE r.step

Store(w) ==
  /\ Busy(w) /\ job[w].regs # None /\ job[w].s = Tile(w).to
  /\ LET t == Tile(w)
     IN  lanes' = [i \in DOMAIN lanes |->
                     IF i \in t.base .. t.base + t.width - 1
                       THEN LET r == job[w].regs[i - t.base]
                            IN  [s |-> r.s, step |-> StepAfter(t, r),
                                 made |-> lanes[i].made + t.to - t.from]
                       ELSE lanes[i]]
  /\ job' = [job EXCEPT ![w] =
       IF Len(@.tiles) > 1 THEN [tiles |-> Tail(@.tiles), regs |-> None, s |-> 0] ELSE None]
  /\ UNCHANGED <<mode, call, out, ret>>

(* pool.install returns when every item is done.                           *)
Return ==
  /\ call # None /\ call.todo = {}
  /\ \A w \in Hands : job[w] = None
  /\ ret' = out
  /\ call' = None
  /\ UNCHANGED <<mode, lanes, job, out>>

-----------------------------------------------------------------------------

Init ==
  /\ mode \in [simd : BOOLEAN, parallel : BOOLEAN, pool : BOOLEAN]
  /\ \E n \in Sizes : lanes = [i \in 0 .. n-1 |-> [s |-> Origin(i), step |-> 0, made |-> 0]]
  /\ call = None
  /\ job = [w \in Hands |-> None]
  /\ out = [x \in {} |-> 0]
  /\ ret = [x \in {} |-> 0]

Next ==
  \/ \E steps \in StepCounts : Begin(steps) \/ BeginNothing(steps)
  \/ \E w \in Hands : Take(w) \/ Load(w) \/ Row(w) \/ Store(w)
  \/ Return

Spec == Init /\ [][Next]_vars

(* The threads of a running call are scheduled; nothing makes a program    *)
(* call again.                                                             *)
FairSpec ==
  /\ Spec
  /\ \A w \in Hands : WF_vars(Take(w) \/ Load(w) \/ Row(w) \/ Store(w))
  /\ WF_vars(Return)

-----------------------------------------------------------------------------
(* Properties.                                                             *)

LaneStates == [s : State, step : 0 .. WordMod-1, made : 0 .. MaxBlocks]

TileType == [base : Nat, width : Nat, from : Nat, to : Nat, x4 : BOOLEAN]

RegisterType == [s : State, step : 0 .. WordMod-1, rc : 0 .. WordMod-1]

(* A work item in whose first tile there are k lanes.                      *)
JobType(k) ==
  [tiles : Seq(TileType), regs : [0 .. k-1 -> RegisterType] \cup {None}, s : Nat]

(* A call for n lanes.                                                     *)
CallType(n) ==
  [steps : Nat, backend : Backends, hands : SUBSET Hands,
   todo : SUBSET [first : Nat, len : Nat], start : [0 .. n-1 -> Nat]]

(* None is not mistaken for a call or a work item.                         *)
ASSUME NoneApart ==
  \A n \in Sizes : None \notin CallType(n) /\ \A k \in 0 .. n : None \notin JobType(k)

(* The lanes, the call and the buffers hold what the code puts in them; a  *)
(* counter wraps in both kernels.                                          *)
TypeOK ==
  /\ mode \in [simd : BOOLEAN, parallel : BOOLEAN, pool : BOOLEAN]
  /\ \E n \in Sizes : lanes \in [0 .. n-1 -> LaneStates]
  /\ call # None =>
       /\ call \in CallType(LaneCount)
       /\ call.steps \in StepCounts \ {0}
       /\ out \in [0 .. LaneCount * call.steps - 1 -> State \cup {None}]
  /\ \A w \in Hands : job[w] # None =>
       /\ call # None /\ w \in call.hands
       /\ job[w] \in JobType(Tile(w).width)
       /\ job[w].regs # None => job[w].s \in Tile(w).from .. Tile(w).to

Span(t) == t.base .. t.base + t.width - 1

(* The blocks of the buffer a worker has still to write.                   *)
Writes(w) ==
  UNION {{Slot(LaneCount, s, i) : s \in t.from .. t.to - 1, i \in Span(t)} :
           t \in {job[w].tiles[k] : k \in DOMAIN job[w].tiles}}

(* The SAFETY comments of OutPtr and process_lanes_scalar: no two workers  *)
(* ever share a block of the buffer or a lane, every write stays within    *)
(* the buffer, and no block is written twice.                              *)
WorkersApart ==
  \A w \in Hands : Busy(w) =>
    /\ Writes(w) \subseteq DOMAIN out
    /\ \A v \in Hands \ {w} : Busy(v) => Writes(w) \cap Writes(v) = {}
    /\ \A item \in call.todo, k \in DOMAIN job[w].tiles :
         Span(job[w].tiles[k]) \cap (item.first .. item.first + item.len - 1) = {}

(* The comment of ChunkRule: no more work items than pool threads, and     *)
(* they are whole groups of 4 lanes but for the last lanes of the batch,   *)
(* so that the pool never splits a group the x4 kernel could take.         *)
ItemsFitPool ==
  call # None /\ call.hands = Worker =>
    /\ Cardinality(call.todo) + Cardinality({w \in Worker : Busy(w)}) <= Threads
    /\ \A item \in call.todo :
         item.first % 4 = 0 /\ (item.len % 4 = 0 \/ item.first + item.len = LaneCount)

(* Whatever the backend, the plan, the pool and the order in which workers *)
(* take and finish items, a call returns the blocks of every lane, step-   *)
(* major, and consecutive calls continue each other (ARCHITECTURE.md       *)
(* sections 7 and 10; the concatenation and determinism tests).            *)
Given == [i \in DOMAIN lanes |-> IF call = None THEN lanes[i].made ELSE call.start[i]]

LS == INSTANCE LaneStreams WITH at <- Given, ret <- ret

ImplementsLaneStreams == LS!Spec

(* A call returns: with a pool, without one, and with fewer items than     *)
(* workers.                                                                *)
BatchReturns == call # None ~> call = None

=============================================================================

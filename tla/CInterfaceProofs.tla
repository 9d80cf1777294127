--------------------------- MODULE CInterfaceProofs ---------------------------
(***************************************************************************)
(* Proofs about the C interface.  About Contexts, for every number of      *)
(* variables, addresses, buffers and lanes: who may be passed on owns what *)
(* it points to, a snapshot is taken by the importer of its own type only, *)
(* and the calls act on objects as if they were values.  About CHash, for  *)
(* every memory, every argument and every division of the table: the       *)
(* verdict about the table is the one of a walk over it, and the hash      *)
(* functions do what HashCalls promises.                                   *)
(***************************************************************************)
EXTENDS Contexts, CHash, ArithLemmas, FiniteSetTheorems

-----------------------------------------------------------------------------
(* The first error.                                                        *)

LEMMA LeastFirst ==
  ASSUME NEW S, S \subseteq Nat, NEW i \in S, \A j \in S : i <= j
  PROVE  Min(S) = i
<1>1. \E x \in S : \A y \in S : x <= y
  OBVIOUS
<1>2. Min(S) \in S /\ \A y \in S : Min(S) <= y
  BY <1>1 DEF Min
<1>3. Min(S) \in Nat /\ i \in Nat /\ Min(S) <= i /\ i <= Min(S)
  BY <1>2
<1> QED BY <1>3

LEMMA FirstIs ==
  ASSUME NEW n \in Nat, NEW checks, DOMAIN checks = 1 .. n
  PROVE  /\ (\A i \in 1 .. n : checks[i] = None) => FirstError(checks) = None
         /\ \A i \in 1 .. n : (checks[i] # None /\ \A j \in 1 .. i - 1 : checks[j] = None)
                                 => FirstError(checks) = checks[i]
<1> DEFINE failed == {i \in DOMAIN checks : checks[i] # None}
<1>1. FirstError(checks) = IF failed = {} THEN None ELSE checks[Min(failed)]
  BY DEF FirstError
<1>2. ASSUME NEW i \in 1 .. n, checks[i] # None, \A j \in 1 .. i - 1 : checks[j] = None
      PROVE  FirstError(checks) = checks[i]
  <2>1. i \in failed /\ failed \subseteq Nat /\ \A j \in failed : i <= j
    BY <1>2
  <2> HIDE DEF failed
  <2>2. Min(failed) = i
    BY <2>1, LeastFirst
  <2> QED BY <1>1, <2>1, <2>2
<1> QED BY <1>1, <1>2

LEMMA First2 ==
  ASSUME NEW a, NEW b
  PROVE  FirstError(<<a, b>>) = IF a # None THEN a ELSE b
<1> DEFINE c == <<a, b>>
<1>1. DOMAIN c = 1 .. 2 /\ c[1] = a /\ c[2] = b
  OBVIOUS
<1>2. 1 \in 1 .. 2 /\ 2 \in 1 .. 2 /\ 1 .. 2 = {1, 2} /\ 1 .. 1 - 1 = {} /\ 1 .. 2 - 1 = {1} /\ 2 \in Nat
  OBVIOUS
<1> HIDE DEF c
<1>3. /\ (\A i \in 1 .. 2 : c[i] = None) => FirstError(c) = None
      /\ \A i \in 1 .. 2 : (c[i] # None /\ \A j \in 1 .. i - 1 : c[j] = None) => FirstError(c) = c[i]
  BY <1>1, <1>2, FirstIs
<1>4. FirstError(c) = IF a # None THEN a ELSE b
  BY <1>1, <1>2, <1>3
<1> QED BY <1>4 DEF c

LEMMA First3 ==
  ASSUME NEW a, NEW b, NEW d
  PROVE  FirstError(<<a, b, d>>) = IF a # None THEN a ELSE IF b # None THEN b ELSE d
<1> DEFINE c == <<a, b, d>>
<1>1. DOMAIN c = 1 .. 3 /\ c[1] = a /\ c[2] = b /\ c[3] = d
  OBVIOUS
<1>2. /\ 1 \in 1 .. 3 /\ 2 \in 1 .. 3 /\ 3 \in 1 .. 3 /\ 1 .. 3 = {1, 2, 3} /\ 3 \in Nat
      /\ 1 .. 1 - 1 = {} /\ 1 .. 2 - 1 = {1} /\ 1 .. 3 - 1 = {1, 2}
  OBVIOUS
<1> HIDE DEF c
<1>3. /\ (\A i \in 1 .. 3 : c[i] = None) => FirstError(c) = None
      /\ \A i \in 1 .. 3 : (c[i] # None /\ \A j \in 1 .. i - 1 : c[j] = None) => FirstError(c) = c[i]
  BY <1>1, <1>2, FirstIs
<1>4. FirstError(c) = IF a # None THEN a ELSE IF b # None THEN b ELSE d
  BY <1>1, <1>2, <1>3
<1> QED BY <1>4 DEF c

LEMMA First4 ==
  ASSUME NEW a, NEW b, NEW d, NEW e
  PROVE  FirstError(<<a, b, d, e>>) =
           IF a # None THEN a ELSE IF b # None THEN b ELSE IF d # None THEN d ELSE e
<1> DEFINE c == <<a, b, d, e>>
<1>1. DOMAIN c = 1 .. 4 /\ c[1] = a /\ c[2] = b /\ c[3] = d /\ c[4] = e
  OBVIOUS
<1>2. /\ 1 \in 1 .. 4 /\ 2 \in 1 .. 4 /\ 3 \in 1 .. 4 /\ 4 \in 1 .. 4 /\ 1 .. 4 = {1, 2, 3, 4} /\ 4 \in Nat
      /\ 1 .. 1 - 1 = {} /\ 1 .. 2 - 1 = {1} /\ 1 .. 3 - 1 = {1, 2} /\ 1 .. 4 - 1 = {1, 2, 3}
  OBVIOUS
<1> HIDE DEF c
<1>3. /\ (\A i \in 1 .. 4 : c[i] = None) => FirstError(c) = None
      /\ \A i \in 1 .. 4 : (c[i] # None /\ \A j \in 1 .. i - 1 : c[j] = None) => FirstError(c) = c[i]
  BY <1>1, <1>2, FirstIs
<1>4. FirstError(c) = IF a # None THEN a ELSE IF b # None THEN b ELSE IF d # None THEN d ELSE e
  BY <1>1, <1>2, <1>3
<1> QED BY <1>4 DEF c

LEMMA ErrorsAre ==
  /\ \A wrong \in BOOLEAN : /\ LengthIf(wrong) = IF wrong THEN "InvalidLength" ELSE None
                            /\ PointerIf(wrong) = IF wrong THEN "InvalidPointer" ELSE None
  /\ None \notin Failures
  /\ {"InvalidLength", "InvalidPointer", "InvalidArgument", "OutOfMemory", "UnsupportedVersion",
      "InvalidKind", "InvalidCursor", "InternalPanic"} = Failures
  /\ None # "InvalidLength" /\ None # "InvalidPointer"
BY NoneApart DEF LengthIf, PointerIf, Failures

-----------------------------------------------------------------------------
(* Objects.                                                                *)

Id == 0 .. IdMod-1

LEMMA SteppedIn ==
  ASSUME NEW lane \in Lane
  PROVE  Stepped(lane) \in Lane
<1>1. lane.s \in State /\ lane.step \in 0 .. StepMod-1 /\ StepMod \in Nat \ {0}
  BY StatesClosed DEF Lane
<1>2. StreamStep(lane.s, lane.step) \in State
  BY <1>1, StatesClosed
<1>3. (lane.step + 1) % StepMod \in 0 .. StepMod-1
  BY <1>1, DivMod
<1> QED BY <1>2, <1>3 DEF Stepped, Lane

(* Some steps of a lane.                                                   *)
LEMMA RanIn ==
  ASSUME NEW lane \in Lane, NEW steps \in Nat
  PROVE  Ran(lane, steps) \in Lane
<1> DEFINE step == [x \in Lane \X (1 .. steps) |-> Stepped(x[1])]
           F == CHOOSE r : r = [k \in 0 .. steps |-> IF k = 0 THEN lane ELSE Stepped(r[k-1])]
<1>1. IsStep(step, Lane, steps) /\ \A l \in Lane, k \in 1 .. steps : step[<<l, k>>] = Stepped(l)
  <2>1. \A x \in Lane \X (1 .. steps) : Stepped(x[1]) \in Lane
    BY SteppedIn
  <2> QED BY <2>1 DEF IsStep
<1> HIDE DEF step
<1>2. PICK g : IsLoop(g, Lane, lane, steps, step)
  BY <1>1, LoopExists
<1>3. /\ g \in [0 .. steps -> Lane] /\ g[0] = lane
      /\ \A k \in 1 .. steps : g[k] = Stepped(g[k-1])
  <2>1. g \in [0 .. steps -> Lane] /\ g[0] = lane /\ \A k \in 1 .. steps : g[k] = step[<<g[k-1], k>>]
    BY <1>2 DEF IsLoop
  <2>2. \A k \in 1 .. steps : g[k-1] \in Lane
    BY <2>1
  <2> QED BY <1>1, <2>1, <2>2
<1>4. g = [k \in 0 .. steps |-> IF k = 0 THEN lane ELSE Stepped(g[k-1])]
  <2>1. \A k \in 0 .. steps : k # 0 => k \in 1 .. steps
    OBVIOUS
  <2>2. \A k \in 0 .. steps : g[k] = IF k = 0 THEN lane ELSE Stepped(g[k-1])
    BY <1>3, <2>1
  <2> QED BY <1>3, <2>2
<1>5. F = [k \in 0 .. steps |-> IF k = 0 THEN lane ELSE Stepped(F[k-1])]
  BY <1>4
<1>6. Ran(lane, steps) = F[steps]
  BY DEF Ran
<1> HIDE DEF F
<1>7. \A k \in 0 .. steps : F[k] = g[k]
  <2>1. F[0] = g[0]
    BY <1>3, <1>5
  <2>2. \A k \in 1 .. steps : F[k] = Stepped(F[k-1])
    BY <1>5
  <2>3. \A k \in 1 .. steps : F[k-1] = g[k-1] => F[k] = g[k]
    BY <1>3, <2>2
  <2> QED BY <2>1, <2>3, LoopsAgree
<1> QED BY <1>3, <1>6, <1>7

LEMMA ForkIn ==
  ASSUME NEW dom \in {"prng", "xof"}, NEW s \in State, NEW id \in Id
  PROVE  ForkLane(dom, s, id) \in State
BY StatesClosed DEF Id

(* The end of a path.                                                      *)
LEMMA WalkedIn ==
  ASSUME NEW dom \in {"prng", "xof"}, NEW s \in State, NEW path \in Seq(Id)
  PROVE  /\ Walked(dom, s, path) \in State
         /\ Len(path) = 0 => Walked(dom, s, path) = s
         /\ Len(path) = 1 => Walked(dom, s, path) = ForkLane(dom, s, path[1])
<1> DEFINE n == Len(path)
           step == [x \in State \X (1 .. n) |-> ForkLane(dom, x[1], path[x[2]])]
           F == CHOOSE w : w = [j \in 0 .. n |-> IF j = 0 THEN s ELSE ForkLane(dom, w[j-1], path[j])]
<1>0. n \in Nat /\ \A j \in 1 .. n : path[j] \in Id
  OBVIOUS
<1>1. IsStep(step, State, n) /\ \A x \in State, j \in 1 .. n : step[<<x, j>>] = ForkLane(dom, x, path[j])
  <2>1. \A x \in State \X (1 .. n) : x[1] \in State /\ x[2] \in 1 .. n
    OBVIOUS
  <2>2. \A x \in State \X (1 .. n) : ForkLane(dom, x[1], path[x[2]]) \in State
    BY <1>0, <2>1, ForkIn
  <2> QED BY <2>2 DEF IsStep
<1> HIDE DEF step, n
<1>2. PICK g : IsLoop(g, State, s, n, step)
  BY <1>0, <1>1, LoopExists
<1>3. /\ g \in [0 .. n -> State] /\ g[0] = s
      /\ \A j \in 1 .. n : g[j] = ForkLane(dom, g[j-1], path[j])
  <2>1. g \in [0 .. n -> State] /\ g[0] = s /\ \A j \in 1 .. n : g[j] = step[<<g[j-1], j>>]
    BY <1>2 DEF IsLoop
  <2>2. \A j \in 1 .. n : g[j-1] \in State
    BY <1>0, <2>1
  <2> QED BY <1>1, <2>1, <2>2
<1>4. g = [j \in 0 .. n |-> IF j = 0 THEN s ELSE ForkLane(dom, g[j-1], path[j])]
  <2>1. \A j \in 0 .. n : j # 0 => j \in 1 .. n
    BY <1>0
  <2>2. \A j \in 0 .. n : g[j] = IF j = 0 THEN s ELSE ForkLane(dom, g[j-1], path[j])
    BY <1>3, <2>1
  <2> QED BY <1>3, <2>2
<1>5. F = [j \in 0 .. n |-> IF j = 0 THEN s ELSE ForkLane(dom, F[j-1], path[j])]
  BY <1>4
<1>6. Walked(dom, s, path) = F[n]
  BY DEF Walked, n
<1> HIDE DEF F
<1>7. \A j \in 0 .. n : F[j] = g[j]
  <2>1. F[0] = g[0]
    BY <1>0, <1>3, <1>5
  <2>2. \A j \in 1 .. n : F[j] = ForkLane(dom, F[j-1], path[j])
    BY <1>0, <1>5
  <2>3. \A j \in 1 .. n : F[j-1] = g[j-1] => F[j] = g[j]
    BY <1>3, <2>2
  <2> QED BY <1>0, <2>1, <2>3, LoopsAgree, ZenonT(60)
<1>8. n = 0 => F[n] = s
  BY <1>5
<1>9. n = 1 => F[n] = ForkLane(dom, s, path[1])
  <2> SUFFICES ASSUME n = 1 PROVE F[1] = ForkLane(dom, s, path[1])
    OBVIOUS
  <2>1. 0 \in 0 .. n /\ 1 \in 0 .. n /\ 1 - 1 = 0 /\ 1 # 0
    OBVIOUS
  <2>2. F[0] = s
    BY <1>5, <2>1
  <2>3. F[1] = ForkLane(dom, F[1-1], path[1])
    BY <1>5, <2>1
  <2> QED BY <2>1, <2>2, <2>3
<1> QED BY <1>0, <1>3, <1>6, <1>7, <1>8, <1>9 DEF n

LEMMA MadeIs ==
  ASSUME NEW kind \in Kinds, NEW states \in Seq(State), FitsSlice(Len(states), LaneSize),
         kind \notin BatchKinds => Len(states) = 1
  PROVE  IsObject(Made(kind, states)) /\ Made(kind, states).kind = kind
<1> DEFINE lanes == [i \in DOMAIN states |-> FreshLane(states[i])]
<1>1. Made(kind, states) = [kind |-> kind, lanes |-> lanes, cursor |-> BlockLen]
  BY DEF Made
<1>2. lanes \in Seq(Lane) /\ Len(lanes) = Len(states)
  <2>1. \A i \in 1 .. Len(states) : FreshLane(states[i]) \in Lane
    BY StatesClosed DEF FreshLane, Lane
  <2>2. lanes = [i \in 1 .. Len(states) |-> FreshLane(states[i])]
    OBVIOUS
  <2> QED BY <2>1, <2>2
<1> HIDE DEF lanes
<1>3. BlockLen \in 1 .. BlockLen
  BY DEF BlockLen
<1> DEFINE o == [kind |-> kind, lanes |-> lanes, cursor |-> BlockLen]
<1>4. o \in Boxed /\ o.kind = kind /\ o.lanes = lanes /\ o.cursor = BlockLen
  BY <1>2, <1>3 DEF Boxed
<1> HIDE DEF o
<1>5. IsObject(o)
  BY <1>2, <1>4 DEF IsObject
<1> QED BY <1>1, <1>4, <1>5 DEF o

LEMMA SingleIs ==
  ASSUME NEW kind \in Kinds \ BatchKinds, NEW s \in State
  PROVE  IsObject(Single(kind, s)) /\ Single(kind, s).kind = kind
<1>1. <<s>> \in Seq(State) /\ Len(<<s>>) = 1
  OBVIOUS
<1>2. FitsSlice(1, LaneSize)
  BY ArgumentTypes DEF FitsSlice, LaneSize
<1> QED BY <1>1, <1>2, MadeIs DEF Single

(* What an object is.                                                      *)
LEMMA ObjectIs ==
  ASSUME NEW o, IsObject(o)
  PROVE  /\ o \in Boxed /\ o.kind \in Kinds /\ o.lanes \in Seq(Lane) /\ o.cursor \in 1 .. 32
         /\ Len(o.lanes) \in Nat /\ DOMAIN o.lanes = 1 .. Len(o.lanes)
         /\ \A i \in 1 .. Len(o.lanes) : o.lanes[i] \in Lane /\ o.lanes[i].s \in State
         /\ FitsSlice(Len(o.lanes), LaneSize) /\ o # None /\ o # Freed
         /\ IF o.kind \in BatchKinds THEN o.cursor = BlockLen ELSE Len(o.lanes) = 1
         /\ Dom(o.kind) \in {"prng", "xof"}
         /\ o = [kind |-> o.kind, lanes |-> o.lanes, cursor |-> o.cursor]
<1>1. o \in Boxed /\ FitsSlice(Len(o.lanes), LaneSize)
      /\ IF o.kind \in BatchKinds THEN o.cursor = BlockLen ELSE Len(o.lanes) = 1
  BY DEF IsObject
<1>2. o.kind \in Kinds /\ o.lanes \in Seq(Lane) /\ o.cursor \in 1 .. 32
      /\ o = [kind |-> o.kind, lanes |-> o.lanes, cursor |-> o.cursor]
  BY <1>1 DEF Boxed, BlockLen
<1>3. \A i \in 1 .. Len(o.lanes) : o.lanes[i] \in Lane
  BY <1>2
<1>4. \A i \in 1 .. Len(o.lanes) : o.lanes[i].s \in State
  BY <1>3 DEF Lane
<1>5. o # None /\ o # Freed
  BY <1>1, NoneApart
<1>6. Len(o.lanes) \in Nat /\ DOMAIN o.lanes = 1 .. Len(o.lanes)
  BY <1>2
<1> QED BY <1>1, <1>2, <1>3, <1>4, <1>5, <1>6 DEF Dom


(* Objects that come of objects.                                           *)

LEMMA ForwardIs ==
  ASSUME NEW o, IsObject(o), NEW steps \in Nat
  PROVE  /\ IsObject(Forward(o, steps)) /\ Forward(o, steps).kind = o.kind
         /\ Forward(o, steps).cursor = o.cursor
         /\ Forward(o, steps).lanes \in Seq(Lane) /\ Len(Forward(o, steps).lanes) = Len(o.lanes)
         /\ Forward(o, steps) \in Boxed
<1> DEFINE f == Forward(o, steps)
           lanes == [i \in DOMAIN o.lanes |-> Ran(o.lanes[i], steps)]
<1>1. /\ o \in Boxed /\ o.lanes \in Seq(Lane) /\ DOMAIN o.lanes = 1 .. Len(o.lanes)
      /\ \A i \in 1 .. Len(o.lanes) : o.lanes[i] \in Lane
  BY ObjectIs
<1>2. lanes \in Seq(Lane) /\ Len(lanes) = Len(o.lanes)
  <2>1. \A i \in 1 .. Len(o.lanes) : Ran(o.lanes[i], steps) \in Lane
    BY <1>1, RanIn
  <2>2. lanes = [i \in 1 .. Len(o.lanes) |-> Ran(o.lanes[i], steps)]
    BY <1>1
  <2> QED BY <1>1, <2>1, <2>2
<1>3. f = [o EXCEPT !.lanes = lanes]
  BY DEF Forward
<1> HIDE DEF lanes, f
<1>4. f \in Boxed /\ f.kind = o.kind /\ f.cursor = o.cursor /\ f.lanes = lanes
  BY <1>1, <1>2, <1>3 DEF Boxed
<1>5. IsObject(f)
  BY <1>2, <1>4 DEF IsObject
<1> QED BY <1>2, <1>4, <1>5 DEF f

(* The same lanes with another cursor, of a single stream.                 *)
LEMMA TurnedIs ==
  ASSUME NEW o, IsObject(o), o.kind \notin BatchKinds, NEW c \in 1 .. 32
  PROVE  IsObject([o EXCEPT !.cursor = c]) /\ [o EXCEPT !.cursor = c].kind = o.kind
<1> DEFINE t == [o EXCEPT !.cursor = c]
<1>1. o \in Boxed /\ c \in 1 .. BlockLen
  BY ObjectIs DEF BlockLen
<1>2. t \in Boxed /\ t.kind = o.kind /\ t.lanes = o.lanes
  BY <1>1 DEF Boxed
<1> HIDE DEF t
<1>3. IsObject(t)
  BY <1>2 DEF IsObject
<1> QED BY <1>2, <1>3 DEF t

LEMMA DrawnIs ==
  ASSUME NEW o, IsObject(o), o.kind \notin BatchKinds, NEW n \in Nat
  PROVE  IsObject(Drawn(o, n)) /\ Drawn(o, n).kind = o.kind
<1> DEFINE rest  == BlockLen - o.cursor
           fresh == (n - rest + BlockLen - 1) \div BlockLen
           c     == n - rest - BlockLen * (fresh - 1)
<1>1. /\ n <= rest => Drawn(o, n) = [o EXCEPT !.cursor = o.cursor + n]
      /\ ~ (n <= rest) => Drawn(o, n) = [Forward(o, fresh) EXCEPT !.cursor = c]
  BY ObjectIs DEF Drawn, Boxed
<1>2. o.cursor \in 1 .. 32 /\ BlockLen = 32
  BY ObjectIs DEF BlockLen
<1>3. CASE n <= rest
  <2>1. o.cursor + n \in 1 .. 32
    BY <1>2, <1>3
  <2> QED BY <1>1, <1>3, <2>1, TurnedIs, ZenonT(60)
<1>4. CASE ~ (n <= rest)
  <2>1. fresh \in Nat /\ c \in 1 .. 32
    <3> DEFINE x == n - rest + 31
    <3>1. x \in Nat /\ n - rest + BlockLen - 1 = x /\ x >= 32 /\ c = x - 31 - 32 * (fresh - 1) /\ fresh = x \div 32
      BY <1>2, <1>4
    <3>2. 32 \in Nat \ {0} /\ 32 - 1 = 31
      OBVIOUS
    <3>3. x \div 32 \in Nat /\ x % 32 \in 0 .. 31 /\ x = 32 * (x \div 32) + (x % 32)
      BY <3>1, <3>2, DivMod
    <3> HIDE DEF x, fresh, c
    <3> QED BY <3>1, <3>3
  <2> HIDE DEF fresh, c
  <2>2. IsObject(Forward(o, fresh)) /\ Forward(o, fresh).kind = o.kind
    BY <2>1, ForwardIs
  <2> DEFINE f == Forward(o, fresh)
  <2> HIDE DEF f
  <2>3. IsObject([f EXCEPT !.cursor = c]) /\ [f EXCEPT !.cursor = c].kind = f.kind
    BY <2>1, <2>2, TurnedIs DEF f
  <2> QED BY <1>1, <1>4, <2>2, <2>3 DEF f
<1> QED BY <1>3, <1>4

LEMMA NextBlockIs ==
  ASSUME NEW o, IsObject(o), o.kind \notin BatchKinds
  PROVE  IsObject(NextBlock(o)) /\ NextBlock(o).kind = o.kind
<1> DEFINE f == Forward(o, 1)
<1>1. IsObject(f) /\ f.kind = o.kind /\ 1 \in Nat
  BY ForwardIs
<1>2. NextBlock(o) = [f EXCEPT !.cursor = 32]
  BY DEF NextBlock, BlockLen
<1> HIDE DEF f
<1>3. f.kind \notin BatchKinds /\ 32 \in 1 .. 32
  BY <1>1
<1>4. IsObject([f EXCEPT !.cursor = 32]) /\ [f EXCEPT !.cursor = 32].kind = f.kind
  BY <1>1, <1>3, TurnedIs
<1> QED BY ONLY <1>1, <1>2, <1>4

LEMMA ChildIs ==
  ASSUME NEW o, IsObject(o), o.kind \notin BatchKinds, NEW id \in Id
  PROVE  IsObject(Child(o, id)) /\ Child(o, id).kind = o.kind
<1>1. Len(o.lanes) = 1 /\ o.kind \in Kinds /\ Dom(o.kind) \in {"prng", "xof"}
      /\ \A i \in 1 .. Len(o.lanes) : o.lanes[i].s \in State
  BY ObjectIs
<1>2. o.lanes[1].s \in State
  BY <1>1
<1>3. ChildState(o, 1, id) \in State
  BY <1>1, <1>2, ForkIn DEF ChildState
<1> QED BY <1>1, <1>3, SingleIs DEF Child

LEMMA ChildPerLaneIs ==
  ASSUME NEW o, IsObject(o), o.kind \in BatchKinds, NEW ids, \A i \in 1 .. Len(o.lanes) : ids[i] \in Id
  PROVE  IsObject(ChildPerLane(o, ids)) /\ ChildPerLane(o, ids).kind = o.kind
<1>1. /\ o.kind \in Kinds /\ Dom(o.kind) \in {"prng", "xof"} /\ FitsSlice(Len(o.lanes), LaneSize)
      /\ DOMAIN o.lanes = 1 .. Len(o.lanes) /\ Len(o.lanes) \in Nat
      /\ \A i \in 1 .. Len(o.lanes) : o.lanes[i].s \in State
  BY ObjectIs
<1> DEFINE states == [i \in 1 .. Len(o.lanes) |-> ChildState(o, i, ids[i])]
<1>2. states \in Seq(State) /\ Len(states) = Len(o.lanes)
  <2>1. \A i \in 1 .. Len(o.lanes) : ChildState(o, i, ids[i]) \in State
    BY <1>1, ForkIn DEF ChildState
  <2> QED BY <1>1, <2>1
<1>3. ChildPerLane(o, ids) = Made(o.kind, states)
  BY <1>1 DEF ChildPerLane
<1> HIDE DEF states
<1> QED BY <1>1, <1>2, <1>3, MadeIs

LEMMA ChildrenIs ==
  ASSUME NEW o, IsObject(o), o.kind \in BatchKinds, NEW ids \in Seq(Id),
         FitsSlice(Len(o.lanes) * Len(ids), LaneSize)
  PROVE  IsObject(Children(o, ids)) /\ Children(o, ids).kind = o.kind
<1> DEFINE n == Len(ids)
           l == Len(o.lanes)
           state(k) == ChildState(o, (k - 1) \div n + 1, ids[((k - 1) % n) + 1])
           states == [k \in 1 .. l * n |-> state(k)]
<1>1. /\ o.kind \in Kinds /\ Dom(o.kind) \in {"prng", "xof"} /\ l \in Nat /\ n \in Nat
      /\ (\A i \in 1 .. l : o.lanes[i].s \in State) /\ \A j \in 1 .. n : ids[j] \in Id
  BY ObjectIs
<1>2. Children(o, ids) = Made(o.kind, states)
  BY DEF Children
<1> HIDE DEF n, l
<1>3. l * n \in Nat
  BY <1>1
<1>4. ASSUME NEW k \in 1 .. l * n
      PROVE  state(k) \in State
  <2>1. n \in Nat \ {0}
    <3>1. n # 0
      <4>1. CASE n = 0
        BY <1>1, <4>1
      <4> QED BY <4>1
    <3> QED BY <1>1, <3>1
  <2>2. k - 1 \in 0 .. n * l - 1
    <3>1. l * n = n * l
      BY <1>1
    <3> QED BY <1>3, <3>1
  <2>3. (k - 1) \div n \in 0 .. l - 1 /\ (k - 1) % n \in 0 .. n - 1
    <3>1. (k - 1) \div n \in 0 .. l - 1
      BY <1>1, <2>1, <2>2, QuotBound
    <3>2. k - 1 \in Nat
      BY <1>3
    <3>3. (k - 1) % n \in 0 .. n - 1
      BY <2>1, <3>2, DivMod
    <3> QED BY <3>1, <3>3
  <2> DEFINE i == (k - 1) \div n + 1
             j == ((k - 1) % n) + 1
  <2>4. i \in 1 .. l /\ j \in 1 .. n
    BY <1>1, <2>3
  <2> HIDE DEF i, j
  <2>5. ChildState(o, i, ids[j]) \in State
    BY <1>1, <2>4, ForkIn DEF ChildState
  <2> QED BY <2>5 DEF i, j
<1>5. states \in Seq(State) /\ Len(states) = l * n
  <2> HIDE DEF state
  <2> QED BY <1>3, <1>4
<1> HIDE DEF states
<1> QED BY <1>1, <1>2, <1>5, MadeIs DEF n, l

LEMMA AloneIs ==
  ASSUME NEW o, IsObject(o), o.kind \in BatchKinds, NEW index \in 0 .. Len(o.lanes) - 1
  PROVE  IsObject(Alone(o, index)) /\ Alone(o, index).kind = SingleOf(o.kind)
<1>1. Len(o.lanes) \in Nat /\ \A i \in 1 .. Len(o.lanes) : o.lanes[i] \in Lane
  BY ObjectIs
<1>2. o.lanes[index + 1] \in Lane
  BY <1>1
<1> DEFINE lanes == <<o.lanes[index + 1]>>
<1>3. lanes \in Seq(Lane) /\ Len(lanes) = 1
  BY <1>2
<1>4. Alone(o, index) = [kind |-> SingleOf(o.kind), lanes |-> lanes, cursor |-> BlockLen]
  BY DEF Alone
<1> HIDE DEF lanes
<1> DEFINE a == [kind |-> SingleOf(o.kind), lanes |-> lanes, cursor |-> BlockLen]
<1>5. SingleOf(o.kind) \in Kinds \ BatchKinds /\ BlockLen \in 1 .. BlockLen
  BY DEF SingleOf, Kinds, BatchKinds, BlockLen
<1>6. a \in Boxed /\ a.kind = SingleOf(o.kind) /\ a.lanes = lanes
  BY <1>3, <1>5 DEF Boxed
<1> HIDE DEF a
<1>7. FitsSlice(1, LaneSize)
  BY ArgumentTypes DEF FitsSlice, LaneSize
<1>8. IsObject(a)
  BY <1>3, <1>5, <1>6, <1>7 DEF IsObject
<1> QED BY <1>4, <1>6, <1>8 DEF a

LEMMA RangeIdsIn ==
  ASSUME NEW first \in Nat, NEW n \in Nat
  PROVE  /\ DOMAIN RangeIds(first, n) = 1 .. n /\ Len(RangeIds(first, n)) = n
         /\ \A i \in 1 .. n : RangeIds(first, n)[i] \in Id
<1>1. ASSUME NEW i \in 1 .. n
      PROVE  (first + i - 1) % IdMod \in Id
  <2>1. first + i - 1 \in Nat /\ IdMod \in Nat \ {0}
    BY StatesClosed
  <2> QED BY <2>1, DivMod DEF Id
<1> QED BY <1>1 DEF RangeIds


-----------------------------------------------------------------------------
(* Snapshots.                                                              *)

LEMMA DecodesEncoded ==
  ASSUME NEW o, IsObject(o)
  PROVE  Decoded(Encoded(o)) = o
<1>1. o \in [kind : Kinds, lanes : Seq(Lane), cursor : 1 .. BlockLen]
  BY DEF IsObject, Boxed
<1>2. o = [kind |-> o.kind, lanes |-> o.lanes, cursor |-> o.cursor]
  BY <1>1
<1>3. o.kind \in BatchKinds => o.cursor = BlockLen
  BY DEF IsObject
<1>4. Decoded(Encoded(o)) =
        [kind |-> o.kind, lanes |-> o.lanes,
         cursor |-> IF o.kind \in BatchKinds THEN BlockLen ELSE o.cursor]
  BY DEF Decoded, Encoded
<1> QED BY ONLY <1>2, <1>3, <1>4

(* The importer of the object's own type takes it, and no other.           *)
LEMMA AcceptsEncoded ==
  ASSUME NEW o, IsObject(o), NEW kind \in Kinds
  PROVE  Accepts(kind, Encoded(o)) <=> o.kind = kind
<1> DEFINE b == Encoded(o)
<1>1. /\ b.version = 1 /\ b.kind = o.kind /\ b.cursor = o.cursor /\ b.count = Len(o.lanes)
      /\ o.cursor \in 1 .. 32 /\ Len(o.lanes) \in Nat /\ o.kind \in Kinds
  BY ObjectIs DEF Encoded, Version
<1> HIDE DEF b
<1>2. FormatError(b, kind) = (IF o.kind = kind THEN None ELSE "InvalidKind") /\ None # "InvalidKind"
  BY <1>1, ErrorsAre DEF FormatError, Version, Failures
<1>3. SingleError(b, kind) = FormatError(b, kind)
  <2>1. CursorError(b) = None
    BY <1>1 DEF CursorError, BlockLen
  <2> QED BY <2>1, First2 DEF SingleError
<1>4. ASSUME kind \in BatchKinds
      PROVE  HeaderError(b, LenOf(b), kind) = None <=> o.kind = kind
  <2>1. LenOf(b) \in Nat /\ LenOf(b) >= 16
        /\ (o.kind = kind => LenOf(b) = BatchLen(b.count))
    BY <1>1, <1>4 DEF LenOf, BatchLen, SingleLen, HeaderSize, LaneSize
  <2>2. LengthIf(LenOf(b) < HeaderSize) = None
    BY <2>1, ErrorsAre DEF HeaderSize, LengthIf
  <2>3. o.kind = kind => LengthIf(LenOf(b) # BatchLen(b.count)) = None
    BY <2>1 DEF LengthIf
  <2> DEFINE c == LengthIf(LenOf(b) # BatchLen(b.count))
  <2>4. HeaderError(b, LenOf(b), kind) = IF FormatError(b, kind) # None THEN FormatError(b, kind) ELSE c
    BY <2>2, First3 DEF HeaderError
  <2> HIDE DEF c
  <2>5. o.kind = kind => c = None
    BY <2>3 DEF c
  <2> QED BY ONLY <1>2, <2>4, <2>5
<1> QED BY <1>2, <1>3, <1>4 DEF Accepts, b

(* An importer that says nothing of a length has the length of the bytes.  *)
LEMMA HeaderAccepts ==
  ASSUME NEW b, NEW len, NEW kind \in BatchKinds, HeaderError(b, len, kind) = None
  PROVE  Accepts(kind, b)
<1> DEFINE c1 == LengthIf(len < HeaderSize)
           c2 == FormatError(b, kind)
           c3 == LengthIf(len # BatchLen(b.count))
<1>1. HeaderError(b, len, kind) = IF c1 # None THEN c1 ELSE IF c2 # None THEN c2 ELSE c3
  BY First3 DEF HeaderError
<1> HIDE DEF c1, c2, c3
<1>2. c2 = None /\ c3 = None
  BY <1>1
<1>3. len = BatchLen(b.count)
  BY <1>2, ErrorsAre DEF c3, LengthIf
<1>4. b.kind = kind
  BY <1>2, ErrorsAre DEF c2, FormatError, Failures
<1>5. len = LenOf(b)
  BY <1>3, <1>4 DEF LenOf
<1> QED BY <1>5 DEF Accepts


-----------------------------------------------------------------------------
(* The arguments: each check fails with a status, or passes.               *)

Verdicts == Failures \cup {None}

LEMMA FirstOf ==
  ASSUME NEW n \in Nat, NEW checks, DOMAIN checks = 1 .. n, \A i \in 1 .. n : checks[i] \in Verdicts
  PROVE  FirstError(checks) \in Verdicts /\ (FirstError(checks) = None => \A i \in 1 .. n : checks[i] = None)
<1>1. CASE \A i \in 1 .. n : checks[i] = None
  BY <1>1, FirstIs DEF Verdicts
<1>2. CASE ~ \A i \in 1 .. n : checks[i] = None
  <2> DEFINE S == {i \in 1 .. n : checks[i] # None}
  <2>1. S \subseteq Nat /\ S # {}
    BY <1>2
  <2>2. PICK i \in S : \A j \in S : i <= j
    <3> HIDE DEF S
    <3> QED BY <2>1, Least
  <2>3. i \in 1 .. n /\ checks[i] # None /\ \A j \in 1 .. i - 1 : checks[j] = None
    BY <2>2
  <2>4. FirstError(checks) = checks[i]
    BY <2>3, FirstIs
  <2> QED BY <2>3, <2>4
<1> QED BY <1>1, <1>2

LEMMA SimpleVerdicts ==
  /\ None \in Verdicts /\ Failures \subseteq Verdicts
  /\ \A wrong : LengthIf(wrong) \in Verdicts /\ PointerIf(wrong) \in Verdicts
  /\ \A p, len : SeedError(p) \in Verdicts
BY DEF Verdicts, Failures, LengthIf, PointerIf, SeedError

LEMMA BytesVerdict ==
  ASSUME NEW p, NEW len
  PROVE  BytesError(p, len) \in Verdicts
<1> DEFINE a == LengthIf(~FitsSlice(len, 1))
           b == PointerIf(~SliceOk(p, len, 1, 1))
<1>1. BytesError(p, len) = IF a # None THEN a ELSE b
  BY First2 DEF BytesError
<1>2. a \in Verdicts /\ b \in Verdicts
  BY SimpleVerdicts
<1> QED BY ONLY <1>1, <1>2

LEMMA IdsVerdict ==
  ASSUME NEW a
  PROVE  IdsError(a) \in Verdicts /\ (IdsError(a) = None => FitsSlice(a.n, IdSize))
<1> DEFINE c1 == LengthIf(~FitsSlice(a.n, IdSize))
           c2 == PointerIf(~SliceOk(a.hi, a.n, WordLen, WordLen))
           c3 == PointerIf(~SliceOk(a.lo, a.n, WordLen, WordLen))
<1>1. IdsError(a) = IF c1 # None THEN c1 ELSE IF c2 # None THEN c2 ELSE c3
  BY First3 DEF IdsError
<1>2. c1 \in Verdicts /\ c2 \in Verdicts /\ c3 \in Verdicts
  BY SimpleVerdicts
<1>3. c1 = None => FitsSlice(a.n, IdSize)
  BY ErrorsAre DEF LengthIf
<1> HIDE DEF c1, c2, c3
<1> QED BY ONLY <1>1, <1>2, <1>3

LEMMA MessagesVerdict ==
  ASSUME NEW a \in MessageArrays
  PROVE  MessagesError(a) \in Verdicts /\ (MessagesError(a) = None => FitsSlice(a.n, IdSize))
<1> DEFINE c1 == LengthIf(~FitsSlice(a.n, IdSize))
           c2 == PointerIf(~SliceOk(a.ptrs, a.n, WordLen, WordLen))
           c3 == PointerIf(~SliceOk(a.lens, a.n, WordLen, WordLen))
           one(i) == BytesError(a.list[i].ptr, a.list[i].len)
           tail == [i \in 1 .. Len(a.list) |-> one(i)]
           checks == <<c1, c2, c3>> \o tail
           n == 3 + Len(a.list)
<1>1. c1 \in Verdicts /\ c2 \in Verdicts /\ c3 \in Verdicts /\ \A i \in 1 .. Len(a.list) : one(i) \in Verdicts
  BY SimpleVerdicts, BytesVerdict
<1>2. a.list \in Seq(MessageArgs) /\ Len(a.list) \in Nat /\ DOMAIN a.list = 1 .. Len(a.list)
  BY ArgumentTypes
<1>3. MessagesError(a) = FirstError(checks)
  BY <1>2 DEF MessagesError
<1>4. c1 = None => FitsSlice(a.n, IdSize)
  BY ErrorsAre DEF LengthIf
<1> HIDE DEF c1, c2, c3, one
<1>5. <<c1, c2, c3>> \in Seq(Verdicts) /\ tail \in Seq(Verdicts) /\ Len(tail) = Len(a.list)
  BY <1>1, <1>2
<1> HIDE DEF tail
<1>6. checks \in Seq(Verdicts) /\ Len(checks) = n /\ DOMAIN checks = 1 .. n /\ checks[1] = c1
  BY <1>2, <1>5
<1>7. n \in Nat /\ 1 \in 1 .. n /\ \A i \in 1 .. n : checks[i] \in Verdicts
  BY <1>2, <1>6
<1> HIDE DEF checks, n
<1>8. FirstError(checks) \in Verdicts /\ (FirstError(checks) = None => \A i \in 1 .. n : checks[i] = None)
  BY <1>6, <1>7, FirstOf
<1> QED BY <1>3, <1>4, <1>6, <1>7, <1>8


-----------------------------------------------------------------------------
(* The inductive invariant.  Used says who may be passed on; an address    *)
(* that such a variable holds is of a live object of its type which no     *)
(* other holds and nobody has lost; a live object is lost or held.         *)

Used == Var \ dangling

Types ==
  /\ heap = [a \in Cell |-> heap[a]]
  /\ ptr \in [Var -> Cell \cup {Null}]
  /\ dangling \subseteq Var
  /\ buf = [k \in Store |-> buf[k]]

Live == \A a \in Cell : heap[a] = None \/ IsObject(heap[a])

Holding ==
  \A v \in Used : ptr[v] # Null =>
    heap[ptr[v]] # None /\ heap[ptr[v]].kind = KindOf(v) /\ ptr[v] \notin lost

Sole == \A v, w \in Used : ptr[v] # Null /\ ptr[v] = ptr[w] => v = w

Known == \A a \in Cell : heap[a] # None /\ a \notin lost => \E v \in Used : ptr[v] = a

LostLive == \A a \in lost : a \in Cell /\ heap[a] # None

Buffers ==
  \A k \in Store :
    \/ buf[k] \in FirstBytes
    \/ IsObject(Decoded(buf[k])) /\ buf[k] = Encoded(Decoded(buf[k]))

IInv == Types /\ Live /\ Holding /\ Sole /\ Known /\ LostLive /\ Buffers

LEMMA Addresses ==
  /\ Null \notin Cell /\ None \notin Failures
  /\ \A v \in Var : KindOf(v) \in Kinds
  /\ \A o : IsObject(o) => o # None /\ o # Freed
BY ArgumentTypes, NoneApart DEF IsObject

LEMMA InitInv == Init => IInv
<1> SUFFICES ASSUME Init PROVE IInv
  OBVIOUS
<1> USE DEF Init
<1>1. Types
  BY DEF Types
<1>2. Live /\ Holding /\ Sole /\ Known /\ LostLive
  BY DEF Live, Holding, Sole, Known, LostLive, Used
<1>3. Buffers
  BY DEF Buffers
<1> QED BY <1>1, <1>2, <1>3 DEF IInv

LEMMA HeldObject ==
  ASSUME IInv, NEW w \in Used, ptr[w] # Null
  PROVE  /\ w \in Var /\ ptr[w] \in Cell /\ ptr[w] \notin lost
         /\ IsObject(Object(w)) /\ Object(w).kind = KindOf(w)
<1>1. w \in Var /\ ptr[w] \in Cell
  BY DEF IInv, Types, Used
<1> QED BY <1>1 DEF IInv, Live, Holding, Object

LEMMA OwnersAre ==
  ASSUME IInv
  PROVE  OneOwner
<1>1. ASSUME NEW v \in Var, Usable(v), ptr[v] # Null
      PROVE  heap[ptr[v]] # None /\ IsObject(heap[ptr[v]]) /\ heap[ptr[v]].kind = KindOf(v)
  <2>1. v \in Used
    BY <1>1 DEF Used, Usable
  <2> QED BY <1>1, <2>1, HeldObject, Addresses DEF Object
<1>2. ASSUME NEW a \in Cell, heap[a] # None
      PROVE  Cardinality(Owners(a)) = IF a \in lost THEN 0 ELSE 1
  <2>1. Owners(a) = {v \in Used : ptr[v] = a} /\ a # Null
    BY ArgumentTypes DEF Owners, Used, Usable
  <2>2. CASE a \in lost
    <3>1. Owners(a) = {}
      BY <2>1, <2>2 DEF IInv, Holding
    <3> QED BY <2>2, <3>1, FS_EmptySet
  <2>3. CASE a \notin lost
    <3>1. PICK v \in Used : ptr[v] = a
      BY <1>2, <2>3 DEF IInv, Known
    <3>2. Owners(a) = {v}
      BY <2>1, <3>1 DEF IInv, Sole
    <3> QED BY <2>3, <3>2, FS_Singleton
  <2> QED BY <2>2, <2>3
<1> QED BY <1>1, <1>2 DEF OneOwner

LEMMA ImportersAre ==
  ASSUME IInv
  PROVE  OwnImporterOnly
<1>1. ASSUME NEW k \in Store, NEW kind \in Kinds
      PROVE  Accepts(kind, buf[k]) <=> buf[k].from = kind
  <2>1. CASE buf[k] \in FirstBytes
    BY <2>1, FirstBytesForeign, NoneApart
  <2>2. CASE IsObject(Decoded(buf[k])) /\ buf[k] = Encoded(Decoded(buf[k]))
    <3> DEFINE o == Decoded(buf[k])
    <3>1. IsObject(o) /\ buf[k] = Encoded(o)
      BY <2>2
    <3> HIDE DEF o
    <3>2. buf[k].from = o.kind
      BY <3>1 DEF Encoded
    <3> QED BY <3>1, <3>2, AcceptsEncoded
  <2> QED BY <2>1, <2>2 DEF IInv, Buffers
<1> QED BY <1>1 DEF OwnImporterOnly


-----------------------------------------------------------------------------
(* What a constructor may give its variable.                               *)

Source(v, o) ==
  \/ \E w \in Used : ptr[w] # Null /\ o \in CV!FromObject(Object(w))
  \/ \E k \in Store : Kept[k] # None /\ o = Kept[k]
  \/ o \in CV!FromRoot(KindOf(v))

Right(v, o) == IsObject(o) /\ o.kind = KindOf(v) /\ Source(v, o)

Result(v, r) == r.error \in Failures \/ (r.error = None /\ Right(v, r.object))

(* What one call does to the variable v, with or without an object.        *)
Emptied(v) == ptr' = [ptr EXCEPT ![v] = Null] /\ heap' = heap

Filled(v, a, o) ==
  heap[a] = None /\ heap' = [heap EXCEPT ![a] = o] /\ ptr' = [ptr EXCEPT ![v] = a]

Overwritten(v) ==
  /\ lost' = lost \cup {x \in {ptr[v]} : x # Null /\ v \notin dangling}
  /\ dangling' = dangling \ {v}
  /\ buf' = buf

LEMMA ConstructSplits ==
  ASSUME NEW v \in Var, NEW R, \A r \in R : Result(v, r), Construct(v, R)
  PROVE  /\ Overwritten(v)
         /\ \/ Emptied(v) /\ status' \in Failures
            \/ status' = "Ok" /\ \E o : Right(v, o) /\ \E a \in Cell : Filled(v, a, o)
<1>1. PICK r \in R :
        /\ IF r.error # None
             THEN ptr' = [ptr EXCEPT ![v] = Null] /\ status' = r.error /\ UNCHANGED heap
             ELSE \E a \in Cell :
               /\ heap[a] = None /\ Room
               /\ heap' = [heap EXCEPT ![a] = r.object]
               /\ ptr' = [ptr EXCEPT ![v] = a]
               /\ status' = "Ok"
        /\ lost' = lost \cup {x \in {ptr[v]} : x # Null /\ v \notin dangling}
        /\ dangling' = dangling \ {v}
        /\ UNCHANGED buf
  BY DEF Construct
<1>2. Overwritten(v)
  BY <1>1 DEF Overwritten
<1>3. Result(v, r)
  BY <1>1
<1>4. CASE r.error \in Failures
  <2>1. r.error # None
    BY <1>4, Addresses
  <2>2. Emptied(v) /\ status' = r.error
    BY <1>1, <2>1 DEF Emptied
  <2> QED BY <1>2, <1>4, <2>2
<1>5. CASE r.error = None /\ Right(v, r.object)
  <2>1. status' = "Ok" /\ \E a \in Cell : Filled(v, a, r.object)
    BY <1>1, <1>5 DEF Filled
  <2> QED BY <1>2, <1>5, <2>1
<1> QED BY <1>3, <1>4, <1>5 DEF Result

LEMMA OverwrittenKeeps ==
  ASSUME IInv, NEW v \in Var, Overwritten(v), Emptied(v)
  PROVE  IInv'
<1> USE DEF Overwritten, Emptied
<1>1. Types'
  BY DEF IInv, Types
<1>2. Live' /\ Buffers'
  BY DEF IInv, Live, Buffers, Decoded, Encoded
<1>3. Used' = Used \cup {v} /\ v \in Used'
  BY DEF Used
<1>4. ASSUME NEW u \in Used', ptr'[u] # Null
      PROVE  u # v /\ u \in Used /\ ptr'[u] = ptr[u] /\ ptr[u] # Null
  BY <1>3, <1>4 DEF IInv, Types, Used
<1>5. \A u \in Used : u # v /\ ptr[u] # Null => ptr[u] \notin lost'
  BY DEF IInv, Holding, Sole, Used
<1>6. Holding'
  BY <1>4, <1>5 DEF IInv, Holding
<1>7. Sole'
  BY <1>4 DEF IInv, Sole
<1>8. Known'
  <2> SUFFICES ASSUME NEW a \in Cell, heap[a] # None, a \notin lost'
               PROVE  \E u \in Used' : ptr'[u] = a
    BY DEF Known
  <2>1. PICK u \in Used : ptr[u] = a
    BY DEF IInv, Known
  <2>2. u # v
    BY <2>1, ArgumentTypes DEF Used
  <2> QED BY <1>3, <2>1, <2>2 DEF IInv, Types, Used
<1>9. LostLive'
  <2>1. v \notin dangling /\ ptr[v] # Null => ptr[v] \in Cell /\ heap[ptr[v]] # None
    BY DEF IInv, Types, Holding, Used
  <2> QED BY <2>1 DEF IInv, LostLive
<1> QED BY <1>1, <1>2, <1>6, <1>7, <1>8, <1>9 DEF IInv

LEMMA FilledKeeps ==
  ASSUME IInv, NEW v \in Var, NEW a \in Cell, NEW o, Right(v, o), Overwritten(v), Filled(v, a, o)
  PROVE  IInv'
<1> USE DEF Overwritten, Filled
<1>0. o # None /\ IsObject(o) /\ o.kind = KindOf(v) /\ a # Null
  BY Addresses DEF Right
<1>1. Types'
  BY DEF IInv, Types
<1>2. heap'[a] = o /\ \A b \in Cell : b # a => heap'[b] = heap[b]
  BY DEF IInv, Types
<1>3. Live'
  BY <1>0, <1>2 DEF IInv, Live
<1>4. Buffers'
  BY DEF IInv, Buffers, Decoded, Encoded
<1>5. Used' = Used \cup {v} /\ v \in Used' /\ ptr'[v] = a
  BY DEF IInv, Types, Used
<1>6. ASSUME NEW u \in Used', u # v
      PROVE  /\ u \in Used /\ ptr'[u] = ptr[u]
             /\ ptr[u] # Null => /\ ptr[u] \in Cell /\ ptr[u] # a
                                 /\ heap[ptr[u]].kind = KindOf(u) /\ heap[ptr[u]] # None
                                 /\ ptr[u] \notin lost
                                 /\ (v \notin dangling => ptr[u] # ptr[v])
  <2>1. u \in Used /\ ptr'[u] = ptr[u] /\ u \in Var /\ v \notin dangling => v \in Used
    BY <1>5, <1>6 DEF IInv, Types, Used
  <2>2. u \in Used /\ ptr'[u] = ptr[u] /\ u \in Var
    BY <1>5, <1>6 DEF IInv, Types, Used
  <2>3. ASSUME ptr[u] # Null
        PROVE  ptr[u] \in Cell /\ heap[ptr[u]].kind = KindOf(u) /\ heap[ptr[u]] # None /\ ptr[u] \notin lost
    BY <2>2, <2>3 DEF IInv, Types, Holding
  <2>4. ASSUME ptr[u] # Null, v \notin dangling
        PROVE  ptr[u] # ptr[v]
    <3>1. v \in Used
      BY <2>4 DEF Used
    <3> QED BY <1>6, <2>2, <2>4, <3>1 DEF IInv, Sole
  <2> QED BY <2>2, <2>3, <2>4
<1>7. a \notin lost'
  <2>1. a \notin lost
    BY DEF IInv, LostLive
  <2>2. v \notin dangling /\ ptr[v] # Null => ptr[v] # a
    BY DEF IInv, Holding, Used
  <2> QED BY <2>1, <2>2
<1>8. Holding'
  BY <1>0, <1>2, <1>5, <1>6, <1>7 DEF Holding
<1>9. Sole'
  <2>1. ASSUME NEW u \in Used', NEW w \in Used', ptr'[u] # Null, ptr'[u] = ptr'[w]
        PROVE  u = w
    BY <1>5, <1>6, <2>1 DEF IInv, Sole
  <2> QED BY <2>1 DEF Sole
<1>10. Known'
  <2> SUFFICES ASSUME NEW b \in Cell, heap'[b] # None, b \notin lost'
               PROVE  \E u \in Used' : ptr'[u] = b
    BY DEF Known
  <2>1. CASE b = a
    BY <1>5, <2>1
  <2>2. CASE b # a
    <3>1. PICK u \in Used : ptr[u] = b
      BY <1>2, <2>2 DEF IInv, Known
    <3>2. u # v
      BY <3>1, ArgumentTypes DEF Used
    <3> QED BY <1>5, <3>1, <3>2 DEF IInv, Types, Used
  <2> QED BY <2>1, <2>2
<1>11. LostLive'
  <2>1. v \notin dangling /\ ptr[v] # Null => ptr[v] \in Cell /\ heap[ptr[v]] # None
    BY DEF IInv, Types, Holding, Used
  <2> QED BY <1>0, <1>2, <2>1 DEF IInv, LostLive
<1> QED BY <1>1, <1>3, <1>4, <1>8, <1>9, <1>10, <1>11 DEF IInv


(* What a call on an object leaves of it.                                  *)
Advanced(o, n) ==
  IF o.kind \in BatchKinds
    THEN \E steps \in StepCounts : n = Forward(o, steps)
    ELSE (\E k \in ReadLens \cup WordSizes : n = Drawn(o, k)) \/ n = NextBlock(o)

Moved(w, r) ==
  r.error \in Failures \/ (r.error = None /\ ptr[w] # Null /\ Advanced(Object(w), r.object))

Replaced(w, o) ==
  heap' = [heap EXCEPT ![ptr[w]] = o] /\ UNCHANGED <<ptr, dangling, lost, buf>>

LEMMA AdvancedIs ==
  ASSUME NEW o, IsObject(o), NEW n, Advanced(o, n)
  PROVE  IsObject(n) /\ n.kind = o.kind
<1>1. CASE o.kind \in BatchKinds
  <2>1. PICK steps \in StepCounts : n = Forward(o, steps)
    BY <1>1 DEF Advanced
  <2>2. steps \in Nat
    BY ArgumentTypes
  <2> QED BY <2>1, <2>2, ForwardIs
<1>2. CASE o.kind \notin BatchKinds
  <2>1. CASE \E k \in ReadLens \cup WordSizes : n = Drawn(o, k)
    <3>1. PICK k \in ReadLens \cup WordSizes : n = Drawn(o, k)
      BY <2>1
    <3>2. k \in Nat
      BY ArgumentTypes
    <3> QED BY <1>2, <3>1, <3>2, DrawnIs
  <2>2. CASE n = NextBlock(o)
    BY <1>2, <2>2, NextBlockIs
  <2> QED BY <1>2, <2>1, <2>2 DEF Advanced
<1> QED BY <1>1, <1>2

LEMMA InPlaceSplits ==
  ASSUME NEW w \in Used, NEW r, Moved(w, r), InPlace(w, r)
  PROVE  \/ \E error \in Failures : Return(error)
         \/ /\ status' = "Ok" /\ ptr[w] # Null
            /\ \E o : Advanced(Object(w), o) /\ Replaced(w, o)
<1>1. CASE r.error \in Failures
  <2>1. r.error # None
    BY <1>1, Addresses
  <2> QED BY <1>1, <2>1 DEF InPlace, Return
<1>2. CASE r.error = None /\ ptr[w] # Null /\ Advanced(Object(w), r.object)
  BY <1>2 DEF InPlace, Replaced
<1> QED BY <1>1, <1>2 DEF Moved

LEMMA ReturnKeeps ==
  ASSUME IInv, UNCHANGED <<heap, ptr, dangling, lost, buf>>
  PROVE  IInv'
BY DEF IInv, Types, Live, Holding, Sole, Known, LostLive, Buffers, Used, Decoded, Encoded

LEMMA ReplacedKeeps ==
  ASSUME IInv, NEW w \in Used, ptr[w] # Null, NEW o, Advanced(Object(w), o), Replaced(w, o)
  PROVE  IInv'
<1> USE DEF Replaced
<1>1. /\ w \in Var /\ ptr[w] \in Cell /\ IsObject(Object(w)) /\ Object(w).kind = KindOf(w)
      /\ ptr[w] \notin lost
  BY HeldObject
<1>2. IsObject(o) /\ o.kind = KindOf(w) /\ o # None
  BY <1>1, AdvancedIs, Addresses
<1>3. heap'[ptr[w]] = o /\ heap[ptr[w]] # None /\ \A b \in Cell : b # ptr[w] => heap'[b] = heap[b]
  BY <1>1, Addresses DEF IInv, Types, Object
<1>4. Types' /\ Buffers' /\ Used' = Used
  BY DEF IInv, Types, Buffers, Used, Decoded, Encoded
<1>5. Live'
  BY <1>2, <1>3 DEF IInv, Live
<1>6. Holding'
  <2> SUFFICES ASSUME NEW v \in Used, ptr[v] # Null
               PROVE  heap'[ptr[v]] # None /\ heap'[ptr[v]].kind = KindOf(v) /\ ptr[v] \notin lost
    BY <1>4 DEF Holding
  <2>1. CASE v = w
    BY <1>1, <1>2, <1>3, <2>1
  <2>2. CASE v # w
    <3>1. ptr[v] # ptr[w] /\ ptr[v] \in Cell
      BY <2>2, HeldObject DEF IInv, Sole
    <3> QED BY <1>3, <3>1 DEF IInv, Holding
  <2> QED BY <2>1, <2>2
<1>7. Sole' /\ Known' /\ LostLive'
  BY <1>1, <1>2, <1>3, <1>4 DEF IInv, Sole, Known, LostLive
<1> QED BY <1>4, <1>5, <1>6, <1>7 DEF IInv

LEMMA FreeKeeps ==
  ASSUME IInv, NEW w \in Used, Free(w)
  PROVE  IInv'
<1> USE DEF Free
<1>1. Types' /\ Buffers'
  BY DEF IInv, Types, Buffers, Used, Decoded, Encoded
<1>2. heap' = [a \in Cell |-> IF a = ptr[w] THEN None ELSE heap[a]]
  OBVIOUS
<1>3. Live'
  BY <1>2 DEF IInv, Live
<1>4. Used' \subseteq Used /\ \A v \in Used' : ptr[v] # Null => ptr[v] # ptr[w]
  BY DEF Used, IInv, Sole
<1>5. \A v \in Used : ptr[v] # Null => ptr[v] \in Cell
  BY HeldObject
<1>6. Holding'
  BY <1>2, <1>4, <1>5 DEF IInv, Holding
<1>7. Sole'
  BY <1>4 DEF IInv, Sole
<1>8. Known'
  <2> SUFFICES ASSUME NEW a \in Cell, heap'[a] # None, a \notin lost
               PROVE  \E v \in Used' : ptr[v] = a
    BY DEF Known
  <2>1. a # ptr[w] /\ heap[a] # None
    BY <1>2
  <2>2. PICK v \in Used : ptr[v] = a
    BY <2>1 DEF IInv, Known
  <2>3. v \in Used'
    BY <2>1, <2>2 DEF Used
  <2> QED BY <2>2, <2>3
<1>9. LostLive'
  <2>1. \A a \in lost : a # ptr[w] \/ ptr[w] = Null
    BY DEF IInv, Holding
  <2> QED BY <1>2, <2>1, ArgumentTypes DEF IInv, LostLive
<1> QED BY <1>1, <1>3, <1>6, <1>7, <1>8, <1>9 DEF IInv

LEMMA StoreKeeps ==
  ASSUME IInv, NEW w \in Used, ptr[w] # Null, NEW k \in Store,
         buf' = [buf EXCEPT ![k] = Encoded(Object(w))], UNCHANGED <<heap, ptr, dangling, lost>>
  PROVE  IInv'
<1>1. Types'
  BY DEF IInv, Types
<1>2. Live' /\ Holding' /\ Sole' /\ Known' /\ LostLive'
  BY DEF IInv, Live, Holding, Sole, Known, LostLive, Used
<1>3. IsObject(Object(w)) /\ Decoded(Encoded(Object(w))) = Object(w)
  BY HeldObject, DecodesEncoded
<1>4. buf'[k] = Encoded(Object(w)) /\ \A j \in Store : j # k => buf'[j] = buf[j]
  BY DEF IInv, Types
<1>5. IsObject(Decoded(buf'[k])) /\ buf'[k] = Encoded(Decoded(buf'[k]))
  BY <1>3, <1>4
<1>6. Buffers'
  <2>1. ASSUME NEW j \in Store
        PROVE  \/ buf'[j] \in FirstBytes
               \/ IsObject(Decoded(buf'[j])) /\ buf'[j] = Encoded(Decoded(buf'[j]))
    <3>1. CASE j = k
      BY <1>5, <3>1
    <3>2. CASE j # k
      <4>1. buf'[j] = buf[j]
        BY <1>4, <3>2
      <4> QED BY <4>1 DEF IInv, Buffers
    <3> QED BY <3>1, <3>2
  <2>2. \A j \in Store :
          \/ buf'[j] \in FirstBytes
          \/ IsObject(Decoded(buf'[j])) /\ buf'[j] = Encoded(Decoded(buf'[j]))
    BY <2>1
  <2> QED BY <2>2 DEF Buffers, Decoded, Encoded
<1> QED BY <1>1, <1>2, <1>6 DEF IInv


-----------------------------------------------------------------------------
(* ContextValues has the operators of ContextObjects under its own names.  *)

LEMMA SameNames ==
  CV!Failures = Failures /\ CV!BatchKinds = BatchKinds /\ \A kind : CV!Dom(kind) = Dom(kind)
BY DEF Failures, CV!Failures, BatchKinds, CV!BatchKinds, Dom, CV!Dom

LEMMA SameMoves ==
  ASSUME NEW o
  PROVE  /\ \A n : CV!Forward(o, n) = Forward(o, n)
         /\ \A n : CV!Drawn(o, n) = Drawn(o, n)
         /\ CV!NextBlock(o) = NextBlock(o)
<1>1. ASSUME NEW x, NEW n
      PROVE  CV!Forward(x, n) = Forward(x, n)
  BY DEF Forward, CV!Forward, Ran, CV!Ran, Stepped, CV!Stepped
<1>2. ASSUME NEW n
      PROVE  CV!Drawn(o, n) = Drawn(o, n)
  BY <1>1 DEF Drawn, CV!Drawn, BlockLen, CV!BlockLen
<1>3. CV!NextBlock(o) = NextBlock(o)
  BY <1>1 DEF NextBlock, CV!NextBlock, BlockLen, CV!BlockLen
<1> QED BY <1>1, <1>2, <1>3

LEMMA SameMade ==
  \A kind, states : CV!Made(kind, states) = Made(kind, states) /\ CV!Single(kind, states) = Single(kind, states)
BY DEF Made, CV!Made, Single, CV!Single, FreshLane, CV!FreshLane, BlockLen, CV!BlockLen

LEMMA SameChildren ==
  ASSUME NEW o, NEW x
  PROVE  /\ CV!Child(o, x) = Child(o, x)
         /\ CV!ChildPerLane(o, x) = ChildPerLane(o, x)
         /\ CV!Children(o, x) = Children(o, x)
         /\ CV!Alone(o, x) = Alone(o, x)
<1>1. \A k, id : CV!ChildState(o, k, id) = ChildState(o, k, id)
  BY DEF ChildState, CV!ChildState, Dom, CV!Dom
<1>2. CV!Child(o, x) = Child(o, x)
  BY <1>1, SameMade DEF Child, CV!Child
<1>3. CV!ChildPerLane(o, x) = ChildPerLane(o, x)
  BY <1>1, SameMade DEF ChildPerLane, CV!ChildPerLane
<1>4. CV!Children(o, x) = Children(o, x)
  BY <1>1, SameMade DEF Children, CV!Children
<1>5. CV!Alone(o, x) = Alone(o, x)
  BY DEF Alone, CV!Alone, SingleOf, CV!SingleOf, Dom, CV!Dom, BlockLen, CV!BlockLen
<1> QED BY <1>2, <1>3, <1>4, <1>5

LEMMA SameRoots ==
  /\ \A first, n : CV!RangeIds(first, n) = RangeIds(first, n)
  /\ \A dom, s, path : CV!Walked(dom, s, path) = Walked(dom, s, path)
BY DEF RangeIds, CV!RangeIds, Walked, CV!Walked

-----------------------------------------------------------------------------
(* The same steps on values.                                               *)

LEMMA KeptSame ==
  ASSUME buf' = buf
  PROVE  Kept' = Kept
BY DEF Kept, Decoded

LEMMA ValuesAre ==
  ASSUME IInv
  PROVE  \A v \in Var : /\ v \in dangling => Values[v] = Freed
                        /\ v \notin dangling /\ ptr[v] = Null => Values[v] = None
                        /\ v \in Used /\ ptr[v] # Null => Values[v] = Object(v) /\ CV!Holds(v)
<1>1. ASSUME NEW v \in Var, v \in Used, ptr[v] # Null
      PROVE  Values[v] = Object(v) /\ CV!Holds(v)
  <2>1. IsObject(Object(v)) /\ v \notin dangling
    BY <1>1, HeldObject DEF Used
  <2>2. Values[v] = Object(v)
    BY <1>1, <2>1 DEF Values, Object
  <2> QED BY <2>1, <2>2, Addresses DEF CV!Holds
<1> QED BY <1>1 DEF Values

LEMMA EmptiedOnValues ==
  ASSUME IInv, NEW v \in Var, Overwritten(v), Emptied(v)
  PROVE  Values' = [Values EXCEPT ![v] = None] /\ Values'[v] = None
<1>1. ptr' = [ptr EXCEPT ![v] = Null] /\ heap' = heap /\ dangling' = dangling \ {v}
  BY DEF Overwritten, Emptied
<1>2. ptr'[v] = Null /\ \A u \in Var : u # v => ptr'[u] = ptr[u]
  BY <1>1 DEF IInv, Types
<1>3. ASSUME NEW u \in Var
      PROVE  (IF u \in dangling' THEN Freed ELSE IF ptr'[u] = Null THEN None ELSE heap'[ptr'[u]])
               = IF u = v THEN None ELSE Values[u]
  BY <1>1, <1>2 DEF Values
<1> QED BY <1>3 DEF Values

LEMMA FilledOnValues ==
  ASSUME IInv, NEW v \in Var, NEW a \in Cell, NEW o, Overwritten(v), Filled(v, a, o)
  PROVE  Values' = [Values EXCEPT ![v] = o] /\ Values'[v] = o
<1>1. /\ ptr' = [ptr EXCEPT ![v] = a] /\ heap' = [heap EXCEPT ![a] = o] /\ dangling' = dangling \ {v}
      /\ heap[a] = None /\ a # Null
  BY ArgumentTypes DEF Overwritten, Filled
<1>2. ptr'[v] = a /\ heap'[a] = o /\ \A u \in Var : u # v => ptr'[u] = ptr[u]
  BY <1>1 DEF IInv, Types
<1>3. ASSUME NEW u \in Var, u # v, u \notin dangling, ptr[u] # Null
      PROVE  heap'[ptr[u]] = heap[ptr[u]]
  <2>1. ptr[u] # a /\ ptr[u] \in Cell
    BY <1>1, <1>3, HeldObject DEF IInv, Holding, Used
  <2> QED BY <1>1, <2>1 DEF IInv, Types
<1>4. ASSUME NEW u \in Var
      PROVE  (IF u \in dangling' THEN Freed ELSE IF ptr'[u] = Null THEN None ELSE heap'[ptr'[u]])
               = IF u = v THEN o ELSE Values[u]
  <2>1. CASE u = v
    BY <1>1, <1>2, <2>1
  <2>2. CASE u # v
    <3>1. ptr'[u] = ptr[u] /\ (u \in dangling' <=> u \in dangling)
      BY <1>1, <1>2, <2>2
    <3>2. Values[u] = IF u \in dangling THEN Freed ELSE IF ptr[u] = Null THEN None ELSE heap[ptr[u]]
      BY DEF Values
    <3> QED BY <1>3, <2>2, <3>1, <3>2
  <2> QED BY <2>1, <2>2
<1> QED BY <1>4 DEF Values

LEMMA SourceOnValues ==
  ASSUME IInv, NEW v \in Var, NEW o, Source(v, o)
  PROVE  \/ \E w \in Var : CV!Holds(w) /\ o \in CV!FromObject(Values[w])
         \/ \E k \in Store : Kept[k] # None /\ o = Kept[k]
         \/ o \in CV!FromRoot(KindOf(v))
<1>1. CASE \E w \in Used : ptr[w] # Null /\ o \in CV!FromObject(Object(w))
  <2>1. PICK w \in Used : ptr[w] # Null /\ o \in CV!FromObject(Object(w))
    BY <1>1
  <2>2. w \in Var /\ Values[w] = Object(w) /\ CV!Holds(w)
    BY <2>1, ValuesAre DEF Used
  <2>3. o \in CV!FromObject(Values[w])
    BY <2>1, <2>2
  <2> QED BY <2>2, <2>3
<1> QED BY <1>1 DEF Source

(* Every constructor.                                                      *)
LEMMA ConstructStep ==
  ASSUME IInv, NEW v \in Var, NEW R, \A r \in R : Result(v, r), Construct(v, R)
  PROVE  IInv' /\ CV!Next
<1>1. /\ Overwritten(v)
      /\ \/ Emptied(v) /\ status' \in Failures
         \/ status' = "Ok" /\ \E o : Right(v, o) /\ \E a \in Cell : Filled(v, a, o)
  BY ConstructSplits
<1>2. Kept' = Kept
  BY <1>1, KeptSame DEF Overwritten
<1>3. CASE Emptied(v) /\ status' \in Failures
  <2>1. IInv'
    BY <1>1, <1>3, OverwrittenKeeps
  <2>2. Values' = [Values EXCEPT ![v] = None] /\ Values'[v] = None
    BY <1>1, <1>3, EmptiedOnValues
  <2>3. CV!Construct(v)
    BY <1>2, <1>3, <2>2, SameNames DEF CV!Construct
  <2> QED BY <2>1, <2>3 DEF CV!Next
<1>4. ASSUME status' = "Ok", NEW o, Right(v, o), NEW a \in Cell, Filled(v, a, o)
      PROVE  IInv' /\ CV!Next
  <2>1. IInv'
    BY <1>1, <1>4, FilledKeeps
  <2>2. Values' = [Values EXCEPT ![v] = o] /\ Values'[v] = o
    BY <1>1, <1>4, FilledOnValues
  <2>3. \/ \E w \in Var : CV!Holds(w) /\ o \in CV!FromObject(Values[w])
        \/ \E k \in Store : Kept[k] # None /\ o = Kept[k]
        \/ o \in CV!FromRoot(KindOf(v))
    BY <1>4, SourceOnValues DEF Right
  <2>4. o.kind = KindOf(v)
    BY <1>4 DEF Right
  <2>5. CV!Construct(v)
    BY <1>2, <1>4, <2>2, <2>3, <2>4 DEF CV!Construct
  <2> QED BY <2>1, <2>5 DEF CV!Next
<1> QED BY <1>1, <1>3, <1>4

LEMMA ReturnStep ==
  ASSUME IInv, NEW error \in Failures, Return(error)
  PROVE  IInv' /\ CV!Next
<1>1. IInv'
  BY ReturnKeeps DEF Return
<1>2. Kept' = Kept
  BY KeptSame DEF Return
<1>3. Values' = Values /\ status' \in Failures
  BY DEF Return, Values
<1> QED BY <1>1, <1>2, <1>3, SameNames DEF CV!Next, CV!Refuse

LEMMA InPlaceStep ==
  ASSUME IInv, NEW w \in Used, NEW r, Moved(w, r), InPlace(w, r)
  PROVE  IInv' /\ CV!Next
<1>1. CASE \E error \in Failures : Return(error)
  BY <1>1, ReturnStep
<1>2. ASSUME status' = "Ok", ptr[w] # Null, NEW o, Advanced(Object(w), o), Replaced(w, o)
      PROVE  IInv' /\ CV!Next
  <2>1. IInv'
    BY <1>2, ReplacedKeeps
  <2>2. w \in Var /\ ptr[w] \in Cell /\ Values[w] = Object(w) /\ CV!Holds(w)
    BY <1>2, HeldObject, ValuesAre
  <2>3. Kept' = Kept
    BY <1>2, KeptSame DEF Replaced
  <2>4. Values' = [Values EXCEPT ![w] = o]
    <3>1. ASSUME NEW u \in Var
          PROVE  (IF u \in dangling THEN Freed ELSE IF ptr[u] = Null THEN None ELSE heap'[ptr[u]])
                   = IF u = w THEN o ELSE Values[u]
      <4>1. heap'[ptr[w]] = o /\ \A b \in Cell : b # ptr[w] => heap'[b] = heap[b]
        BY <1>2, <2>2 DEF IInv, Types, Replaced
      <4>2. CASE u = w
        BY <1>2, <4>1, <4>2 DEF Used
      <4>3. CASE u # w /\ u \notin dangling /\ ptr[u] # Null
        <5>1. ptr[u] # ptr[w] /\ ptr[u] \in Cell
          BY <4>3, HeldObject DEF Used, IInv, Sole
        <5> QED BY <4>1, <4>3, <5>1 DEF Values
      <4>4. CASE u # w /\ (u \in dangling \/ ptr[u] = Null)
        BY <4>4 DEF Values
      <4> QED BY <4>2, <4>3, <4>4
    <3> QED BY <1>2, <3>1 DEF Values, Replaced
  <2>5. CV!Advance(w)
    <3>1. CASE Object(w).kind \in BatchKinds
      <4>1. PICK steps \in StepCounts : o = CV!Forward(Values[w], steps)
        BY <1>2, <2>2, <3>1, SameMoves DEF Advanced
      <4> QED BY <1>2, <2>2, <2>3, <2>4, <3>1, <4>1, SameNames DEF CV!Advance
    <3>2. CASE Object(w).kind \notin BatchKinds
      <4>1. (\E n \in ReadLens \cup WordSizes : o = CV!Drawn(Values[w], n)) \/ o = CV!NextBlock(Values[w])
        BY <1>2, <2>2, <3>2, SameMoves DEF Advanced
      <4> QED BY <1>2, <2>2, <2>3, <2>4, <3>2, <4>1, SameNames DEF CV!Advance
    <3> QED BY <3>1, <3>2
  <2> QED BY <2>1, <2>2, <2>5 DEF CV!Next
<1> QED BY <1>1, <1>2, InPlaceSplits

LEMMA FreeStep ==
  ASSUME IInv, NEW w \in Used, Free(w)
  PROVE  IInv' /\ CV!Next
<1>1. IInv'
  BY FreeKeeps
<1>2. w \in Var /\ w \notin dangling /\ Kept' = Kept
  BY KeptSame DEF Used, Free
<1>3. Values[w] # Freed /\ (ptr[w] = Null => Values[w] = None) /\ (ptr[w] # Null => Values[w] # None)
  <2>1. CASE ptr[w] = Null
    BY <1>2, <2>1, ValuesAre, NoneApart
  <2>2. CASE ptr[w] # Null
    BY <1>2, <2>2, ValuesAre, HeldObject, Addresses
  <2> QED BY <2>1, <2>2
<1>4. ASSUME NEW u \in Var
      PROVE  (IF u \in dangling' THEN Freed ELSE IF ptr'[u] = Null THEN None ELSE heap'[ptr'[u]])
               = IF u = w THEN IF Values[w] = None THEN None ELSE Freed ELSE Values[u]
  <2>1. /\ heap' = [a \in Cell |-> IF a = ptr[w] THEN None ELSE heap[a]] /\ ptr' = ptr
        /\ dangling' = dangling \cup {x \in {w} : ptr[x] # Null}
    BY DEF Free
  <2>2. CASE u = w
    BY <1>2, <1>3, <2>1, <2>2
  <2>3. CASE u # w /\ u \notin dangling /\ ptr[u] # Null
    <3>1. ptr[u] # ptr[w] /\ ptr[u] \in Cell
      BY <2>3, HeldObject DEF Used, IInv, Sole
    <3> QED BY <2>1, <2>3, <3>1 DEF Values
  <2>4. CASE u # w /\ (u \in dangling \/ ptr[u] = Null)
    BY <2>1, <2>4 DEF Values
  <2> QED BY <2>2, <2>3, <2>4
<1>5. Values' = [Values EXCEPT ![w] = IF Values[w] = None THEN None ELSE Freed]
  BY <1>4 DEF Values
<1>6. CV!Free(w)
  BY <1>2, <1>3, <1>5 DEF CV!Free, Free
<1> QED BY <1>1, <1>2, <1>6 DEF CV!Next

LEMMA StoreStep ==
  ASSUME IInv, NEW w \in Used, NEW k \in Store, NEW error \in Verdicts,
         error = None => ptr[w] # Null, StoreIn(w, k, error)
  PROVE  IInv' /\ CV!Next
<1>1. CASE error # None
  <2>1. error \in Failures /\ Return(error)
    BY <1>1 DEF Verdicts, StoreIn
  <2> QED BY <2>1, ReturnStep
<1>2. CASE error = None
  <2>1. /\ ptr[w] # Null /\ buf' = [buf EXCEPT ![k] = Encoded(Object(w))]
        /\ status' = "Ok" /\ UNCHANGED <<heap, ptr, dangling, lost>>
    BY <1>2 DEF StoreIn
  <2>2. IInv'
    BY <2>1, StoreKeeps
  <2>3. /\ w \in Var /\ Values[w] = Object(w) /\ CV!Holds(w)
        /\ IsObject(Object(w)) /\ Object(w).kind \in Kinds
    BY <2>1, HeldObject, ValuesAre, Addresses
  <2>4. Values' = Values
    BY <2>1 DEF Values
  <2>5. Encoded(Object(w)).from # None /\ Decoded(Encoded(Object(w))) = Object(w)
    BY <2>3, DecodesEncoded, NoneApart DEF Encoded
  <2>6. ASSUME NEW j \in Store
        PROVE  (IF buf'[j].from = None THEN None ELSE Decoded(buf'[j])) = IF j = k THEN Object(w) ELSE Kept[j]
    <3>1. buf'[j] = IF j = k THEN Encoded(Object(w)) ELSE buf[j]
      BY <2>1 DEF IInv, Types
    <3>2. CASE j = k
      BY <2>5, <3>1, <3>2
    <3>3. CASE j # k
      BY <3>1, <3>3 DEF Kept
    <3> QED BY <3>2, <3>3
  <2>7. Kept' = [Kept EXCEPT ![k] = Values[w]]
    <3>1. Kept' = [j \in Store |-> IF buf'[j].from = None THEN None ELSE Decoded(buf'[j])]
      BY DEF Kept, Decoded
    <3>2. Kept' = [j \in Store |-> IF j = k THEN Object(w) ELSE Kept[j]]
      BY <2>6, <3>1
    <3>3. Kept = [j \in Store |-> Kept[j]]
      BY DEF Kept
    <3> QED BY <2>3, <3>2, <3>3
  <2>8. CV!Export(w, k)
    BY <2>1, <2>3, <2>4, <2>7 DEF CV!Export
  <2> QED BY <2>2, <2>3, <2>8 DEF CV!Next
<1> QED BY <1>1, <1>2


-----------------------------------------------------------------------------
(* Where the objects of the calls come from.                               *)

Lists == {a.list : a \in IdArrays \cup PathArrays}

LEMMA FromObjectHas ==
  ASSUME NEW o
  PROVE  /\ o \in CV!FromObject(o)
         /\ o.kind \notin BatchKinds => \A id \in Ids : Child(o, id) \in CV!FromObject(o)
         /\ o.kind \in BatchKinds =>
              /\ \A i \in 0 .. Len(o.lanes) - 1 : Alone(o, i) \in CV!FromObject(o)
              /\ \A ids \in Lists : Len(ids) = Len(o.lanes) => ChildPerLane(o, ids) \in CV!FromObject(o)
              /\ \A first \in Firsts : ChildPerLane(o, RangeIds(first, Len(o.lanes))) \in CV!FromObject(o)
              /\ \A ids \in Lists : Children(o, ids) \in CV!FromObject(o)
<1>1. CASE o.kind \in BatchKinds
  <2>1. CV!FromObject(o) =
          {o} \cup {CV!Alone(o, i) : i \in 0 .. Len(o.lanes) - 1}
          \cup {CV!ChildPerLane(o, ids) : ids \in {l \in Lists : Len(l) = Len(o.lanes)}}
          \cup {CV!ChildPerLane(o, CV!RangeIds(first, Len(o.lanes))) : first \in Firsts}
          \cup {CV!Children(o, ids) : ids \in Lists}
    BY <1>1, SameNames DEF CV!FromObject, Lists
  <2>2. \A i \in 0 .. Len(o.lanes) - 1 : Alone(o, i) \in CV!FromObject(o)
    BY <2>1, SameChildren
  <2>3. \A ids \in Lists : Len(ids) = Len(o.lanes) => ChildPerLane(o, ids) \in CV!FromObject(o)
    BY <2>1, SameChildren
  <2>4. ASSUME NEW first \in Firsts
        PROVE  ChildPerLane(o, RangeIds(first, Len(o.lanes))) \in CV!FromObject(o)
    <3>1. CV!ChildPerLane(o, CV!RangeIds(first, Len(o.lanes))) \in CV!FromObject(o)
      BY <2>1
    <3>2. CV!RangeIds(first, Len(o.lanes)) = RangeIds(first, Len(o.lanes))
      BY SameRoots
    <3> QED BY <3>1, <3>2, SameChildren
  <2>5. \A ids \in Lists : Children(o, ids) \in CV!FromObject(o)
    BY <2>1, SameChildren
  <2>6. o \in CV!FromObject(o)
    BY <2>1
  <2> QED BY <1>1, <2>2, <2>3, <2>4, <2>5, <2>6
<1>2. CASE o.kind \notin BatchKinds
  <2>1. CV!FromObject(o) = {o} \cup {CV!Child(o, id) : id \in Ids}
    BY <1>2, SameNames DEF CV!FromObject
  <2> QED BY <1>2, <2>1, SameChildren
<1> QED BY <1>1, <1>2

LEMMA KindNames ==
  /\ Dom("Prng") = "prng" /\ Dom("PrngBatch") = "prng" /\ Dom("Xof") = "xof" /\ Dom("XofBatch") = "xof"
  /\ SingleOf("PrngBatch") = "Prng" /\ SingleOf("XofBatch") = "Xof"
  /\ {"PrngBatch", "XofBatch"} = BatchKinds /\ {"Prng", "Xof"} = Kinds \ BatchKinds
  /\ {"PrngBatch", "XofBatch", "Prng", "Xof"} = Kinds
BY DEF Dom, SingleOf, BatchKinds, Kinds

LEMMA ListsAre ==
  /\ \A a \in IdArrays \cup PathArrays :
       a.list \in Lists /\ a.list \in Seq(Id) /\ (FitsSlice(a.n, IdSize) => a.n = Len(a.list))
  /\ Seeds \subseteq State /\ Ids \subseteq Id
BY ArgumentTypes DEF Lists, Id

LEMMA PrngRootsHave ==
  ASSUME NEW seed \in Seeds
  PROVE  /\ \A id \in Ids : Single("Prng", ForkLane("prng", seed, id)) \in CV!FromRoot("Prng")
         /\ \A path \in Lists : Single("Prng", Walked("prng", seed, path)) \in CV!FromRoot("Prng")
<1> DEFINE P == Lists \cup {<<>>} \cup {<<id>> : id \in Ids}
<1>1. CV!FromRoot("Prng") = {CV!Single("Prng", CV!Walked("prng", x, path)) : x \in Seeds, path \in P}
  BY SameNames, KindNames DEF CV!FromRoot, CV!PrngRoots, CV!Paths, Lists
<1>2. ASSUME NEW path \in P
      PROVE  Single("Prng", Walked("prng", seed, path)) \in CV!FromRoot("Prng")
  <2>1. CV!Single("Prng", CV!Walked("prng", seed, path)) \in CV!FromRoot("Prng")
    BY <1>1
  <2> QED BY <2>1, SameRoots, SameMade
<1>3. ASSUME NEW id \in Ids
      PROVE  Single("Prng", ForkLane("prng", seed, id)) \in CV!FromRoot("Prng")
  <2> DEFINE path == <<id>>
  <2>1. path \in Seq(Id) /\ Len(path) = 1 /\ path[1] = id /\ path \in P /\ seed \in State
    BY ListsAre
  <2> HIDE DEF path, P
  <2>2. Walked("prng", seed, path) = ForkLane("prng", seed, id)
    BY <2>1, WalkedIn
  <2> QED BY <1>2, <2>1, <2>2
<1> QED BY <1>2, <1>3

PrngBatchAt(seed, path, ids) ==
  CV!Made("PrngBatch", [i \in DOMAIN ids |-> CV!Walked("prng", seed, <<ids[i]>> \o path)])

RootLists == Lists \cup {CV!RangeIds(first, n) : first \in Firsts, n \in Counts}

LEMMA PrngBatchRoots ==
  "PrngBatch" # "Prng" =>
    CV!PrngRoots("PrngBatch") =
      {PrngBatchAt(seed, path, ids) : seed \in Seeds, path \in Lists \cup {<<>>}, ids \in RootLists}
BY SMT DEF CV!PrngRoots, CV!Paths, Lists, PrngBatchAt, RootLists

LEMMA PrngBatchRootsHave ==
  ASSUME NEW seed \in Seeds,
         NEW ids, ids \in Lists \cup {RangeIds(first, n) : first \in Firsts, n \in Counts},
         NEW path, path \in Lists \cup {<<>>}
  PROVE  Made("PrngBatch", [i \in DOMAIN ids |-> Walked("prng", seed, <<ids[i]>> \o path)])
           \in CV!FromRoot("PrngBatch")
<1>1. CV!FromRoot("PrngBatch") = CV!PrngRoots("PrngBatch") /\ "PrngBatch" # "Prng"
  BY SameNames, KindNames DEF CV!FromRoot
<1>2. ids \in RootLists
  BY SameRoots DEF RootLists
<1>3. PrngBatchAt(seed, path, ids) \in CV!PrngRoots("PrngBatch")
  BY <1>1, <1>2, PrngBatchRoots
<1>4. [i \in DOMAIN ids |-> CV!Walked("prng", seed, <<ids[i]>> \o path)]
        = [i \in DOMAIN ids |-> Walked("prng", seed, <<ids[i]>> \o path)]
  BY DEF Walked, CV!Walked
<1> QED BY <1>1, <1>3, <1>4, SameMade DEF PrngBatchAt

LEMMA XofRootsHave ==
  ASSUME NEW x \in MessageArgs, NEW path, path \in Lists \cup {<<>>}
  PROVE  Single("Xof", Walked("xof", Absorbed(x.m), path)) \in CV!FromRoot("Xof")
<1>1. CV!FromRoot("Xof") =
        {CV!Single("Xof", CV!Walked("xof", Absorbed(m), p)) : m \in {y.m : y \in MessageArgs}, p \in Lists \cup {<<>>}}
  <2>1. "xof" # "prng"
    OBVIOUS
  <2> QED BY <2>1, SameNames, KindNames DEF CV!FromRoot, CV!XofRoots, CV!Paths, Lists
<1>2. CV!Single("Xof", CV!Walked("xof", Absorbed(x.m), path)) \in CV!FromRoot("Xof")
  BY <1>1
<1> QED BY <1>2, SameRoots, SameMade

XofBatchAt(ms, path) ==
  CV!Made("XofBatch", [i \in DOMAIN ms |-> CV!Walked("xof", Absorbed(ms[i]), path)])

MessageLists == {[i \in DOMAIN a.list |-> a.list[i].m] : a \in MessageArrays}

LEMMA XofBatchRoots ==
  "XofBatch" # "Xof" =>
    CV!XofRoots("XofBatch") = {XofBatchAt(ms, path) : ms \in MessageLists, path \in Lists \cup {<<>>}}
BY SMT DEF CV!XofRoots, CV!Paths, Lists, XofBatchAt, MessageLists

LEMMA XofBatchRootsHave ==
  ASSUME NEW a \in MessageArrays, NEW path, path \in Lists \cup {<<>>}
  PROVE  Made("XofBatch", [i \in DOMAIN a.list |-> Walked("xof", Absorbed(a.list[i].m), path)])
           \in CV!FromRoot("XofBatch")
<1> DEFINE ms == [i \in DOMAIN a.list |-> a.list[i].m]
<1>1. CV!FromRoot("XofBatch") = CV!XofRoots("XofBatch") /\ "XofBatch" # "Xof"
  <2>1. "xof" # "prng"
    OBVIOUS
  <2> QED BY <2>1, SameNames, KindNames DEF CV!FromRoot
<1>2. ms \in MessageLists
  BY DEF MessageLists
<1>3. XofBatchAt(ms, path) \in CV!XofRoots("XofBatch")
  <2> HIDE DEF ms
  <2> QED BY <1>1, <1>2, XofBatchRoots
<1>4. [i \in DOMAIN ms |-> CV!Walked("xof", Absorbed(ms[i]), path)]
        = [i \in DOMAIN a.list |-> Walked("xof", Absorbed(a.list[i].m), path)]
  <2>1. \A i \in DOMAIN a.list : CV!Walked("xof", Absorbed(ms[i]), path) = Walked("xof", Absorbed(a.list[i].m), path)
    BY SameRoots
  <2> QED BY <2>1
<1> QED BY <1>1, <1>3, <1>4, SameMade DEF XofBatchAt


-----------------------------------------------------------------------------
(* The calls: each is one of the steps above.                              *)

LEMMA OneResult ==
  ASSUME IInv, NEW v \in Var, NEW error \in Verdicts, NEW o, error = None => Right(v, o),
         Construct(v, {IfRight(error, Gives(o))})
  PROVE  IInv' /\ CV!Next
<1>1. Result(v, IfRight(error, Gives(o)))
  BY DEF Result, IfRight, Gives, Fails, Verdicts
<1> HIDE DEF Right
<1>2. \A r \in {IfRight(error, Gives(o))} : Result(v, r)
  BY <1>1
<1> QED BY <1>2, ConstructStep

LEMMA FailedResult ==
  ASSUME NEW v, NEW error \in Failures
  PROVE  Result(v, Fails(error))
BY DEF Result, Fails

LEMMA CollectedResult ==
  ASSUME IInv, NEW v \in Var, NEW error \in Verdicts, NEW n, NEW o,
         error = None /\ FitsSlice(n, LaneSize) => Right(v, o),
         Construct(v, {IfRight(error, Collected(n, o))})
  PROVE  IInv' /\ CV!Next
<1> DEFINE r == IfRight(error, Collected(n, o))
<1>1. Result(v, r)
  BY ErrorsAre, FailedResult DEF Result, IfRight, Collected, Gives, Fails, Verdicts
<1> HIDE DEF r
<1>2. \A x \in {r} : Result(v, x)
  BY <1>1
<1> QED BY <1>2, ConstructStep DEF r

LEMMA ReservedResults ==
  ASSUME NEW v, NEW n, NEW o, FitsSlice(n, LaneSize) => Right(v, o)
  PROVE  \A r \in Reserved(n, o) : Result(v, r)
BY ErrorsAre, FailedResult DEF Reserved, Result, Gives

LEMMA GivenResult ==
  ASSUME NEW v, NEW o, Right(v, o)
  PROVE  Result(v, Gives(o))
BY DEF Result, Gives

LEMMA ThereResults ==
  ASSUME NEW v, NEW w, NEW R, ptr[w] # Null => \A r \in R : Result(v, r)
  PROVE  \A r \in IfThere(w, R) : Result(v, r)
BY ErrorsAre, FailedResult DEF IfThere

LEMMA PassedIsUsed ==
  ASSUME NEW kind
  PROVE  /\ \A v \in VarsOf(kind) : v \in Var /\ KindOf(v) = kind
         /\ \A w \in UsableOf(kind) : w \in Used /\ KindOf(w) = kind
BY DEF VarsOf, UsableOf, Usable, Used

(* Objects from seeds and messages.                                        *)
LEMMA RootIsRight ==
  ASSUME NEW kind, NEW v \in VarsOf(kind), NEW o, IsObject(o), o.kind = kind, o \in CV!FromRoot(kind)
  PROVE  v \in Var /\ Right(v, o)
BY PassedIsUsed DEF Right, Source

LEMMA NewStep ==
  ASSUME IInv, NEW v \in VarsOf("Prng"), NEW p, NEW seed \in Seeds, NEW id \in Ids, New(v, p, seed, id)
  PROVE  IInv' /\ CV!Next
<1> DEFINE o == Single("Prng", ForkLane("prng", seed, id))
<1>1. ForkLane("prng", seed, id) \in State
  BY ListsAre, ForkIn
<1>2. IsObject(o) /\ o.kind = "Prng"
  BY <1>1, SingleIs, KindNames
<1>3. o \in CV!FromRoot("Prng")
  BY PrngRootsHave
<1>4. Construct(v, {IfRight(SeedError(p), Gives(o))}) /\ SeedError(p) \in Verdicts
  BY SimpleVerdicts DEF New
<1> HIDE DEF o
<1> QED BY <1>2, <1>3, <1>4, RootIsRight, OneResult

LEMMA FirstTwo ==
  ASSUME NEW a \in Verdicts, NEW b \in Verdicts
  PROVE  FirstError(<<a, b>>) \in Verdicts /\ (FirstError(<<a, b>>) = None => a = None /\ b = None)
<1>1. FirstError(<<a, b>>) = IF a # None THEN a ELSE b
  BY First2
<1> QED BY ONLY <1>1, a \in Verdicts, b \in Verdicts

LEMMA FirstThree ==
  ASSUME NEW a \in Verdicts, NEW b \in Verdicts, NEW c \in Verdicts
  PROVE  /\ FirstError(<<a, b, c>>) \in Verdicts
         /\ FirstError(<<a, b, c>>) = None => a = None /\ b = None /\ c = None
<1>1. FirstError(<<a, b, c>>) = IF a # None THEN a ELSE IF b # None THEN b ELSE c
  BY First3
<1> QED BY ONLY <1>1, a \in Verdicts, b \in Verdicts, c \in Verdicts

LEMMA FirstFour ==
  ASSUME NEW a \in Verdicts, NEW b \in Verdicts, NEW c \in Verdicts, NEW d \in Verdicts
  PROVE  /\ FirstError(<<a, b, c, d>>) \in Verdicts
         /\ FirstError(<<a, b, c, d>>) = None => a = None /\ b = None /\ c = None /\ d = None
<1>1. FirstError(<<a, b, c, d>>) =
        IF a # None THEN a ELSE IF b # None THEN b ELSE IF c # None THEN c ELSE d
  BY First4
<1> QED BY ONLY <1>1, a \in Verdicts, b \in Verdicts, c \in Verdicts, d \in Verdicts

LEMMA PathVerdict ==
  ASSUME NEW a
  PROVE  PathError(a) \in Verdicts
BY IdsVerdict, SimpleVerdicts, ErrorsAre DEF PathError

LEMMA DerivePathStep ==
  ASSUME IInv, NEW v \in VarsOf("Prng"), NEW p, NEW seed \in Seeds, NEW a \in PathArrays,
         DerivePath(v, p, seed, a)
  PROVE  IInv' /\ CV!Next
<1> DEFINE o == Single("Prng", Walked("prng", seed, a.list))
           error == FirstError(<<SeedError(p), PathError(a)>>)
<1>1. a.list \in Lists /\ a.list \in Seq(Id) /\ seed \in State
  BY ListsAre
<1>2. Walked("prng", seed, a.list) \in State
  BY <1>1, WalkedIn
<1>3. IsObject(o) /\ o.kind = "Prng"
  BY <1>2, SingleIs, KindNames
<1>4. o \in CV!FromRoot("Prng")
  BY <1>1, PrngRootsHave
<1>5. error \in Verdicts
  BY SimpleVerdicts, PathVerdict, FirstTwo
<1>6. Construct(v, {IfRight(error, Gives(o))})
  BY DEF DerivePath
<1> HIDE DEF o, error
<1> QED BY <1>3, <1>4, <1>5, <1>6, RootIsRight, OneResult

LEMMA AbsorbedIn ==
  ASSUME NEW x \in MessageArgs
  PROVE  Absorbed(x.m) \in State /\ Walked("xof", Absorbed(x.m), <<>>) = Absorbed(x.m)
<1>1. Absorbed(x.m) \in State /\ <<>> \in Seq(Id) /\ Len(<<>>) = 0
  BY ArgumentTypes
<1> QED BY <1>1, WalkedIn

LEMMA XofNewStep ==
  ASSUME IInv, NEW v \in VarsOf("Xof"), NEW x \in MessageArgs, XofNew(v, x)
  PROVE  IInv' /\ CV!Next
<1> DEFINE o == Single("Xof", Absorbed(x.m))
<1>1. IsObject(o) /\ o.kind = "Xof"
  BY AbsorbedIn, SingleIs, KindNames
<1>2. o \in CV!FromRoot("Xof")
  <2>1. Single("Xof", Walked("xof", Absorbed(x.m), <<>>)) \in CV!FromRoot("Xof")
    BY XofRootsHave
  <2> QED BY <2>1, AbsorbedIn
<1>3. Construct(v, {IfRight(BytesError(x.ptr, x.len), Gives(o))}) /\ BytesError(x.ptr, x.len) \in Verdicts
  BY BytesVerdict DEF XofNew
<1> HIDE DEF o
<1> QED BY <1>1, <1>2, <1>3, RootIsRight, OneResult

LEMMA XofDerivePathStep ==
  ASSUME IInv, NEW v \in VarsOf("Xof"), NEW x \in MessageArgs, NEW a \in PathArrays, XofDerivePath(v, x, a)
  PROVE  IInv' /\ CV!Next
<1> DEFINE o == Single("Xof", Walked("xof", Absorbed(x.m), a.list))
           error == FirstError(<<BytesError(x.ptr, x.len), PathError(a)>>)
<1>1. a.list \in Lists /\ a.list \in Seq(Id)
  BY ListsAre
<1>2. Walked("xof", Absorbed(x.m), a.list) \in State
  BY <1>1, AbsorbedIn, WalkedIn
<1>3. IsObject(o) /\ o.kind = "Xof"
  BY <1>2, SingleIs, KindNames
<1>4. o \in CV!FromRoot("Xof")
  BY <1>1, XofRootsHave
<1>5. error \in Verdicts
  BY BytesVerdict, PathVerdict, FirstTwo
<1>6. Construct(v, {IfRight(error, Gives(o))})
  BY DEF XofDerivePath
<1> HIDE DEF o, error
<1> QED BY <1>3, <1>4, <1>5, <1>6, RootIsRight, OneResult


(* Batches from roots.                                                     *)
LEMMA StatesOf ==
  ASSUME NEW n \in Nat, NEW states, states = [i \in 1 .. n |-> states[i]], \A i \in 1 .. n : states[i] \in State
  PROVE  states \in Seq(State) /\ Len(states) = n
OBVIOUS

LEMMA OneId ==
  ASSUME NEW s \in State, NEW id \in Id
  PROVE  Walked("prng", s, <<id>> \o <<>>) = ForkLane("prng", s, id)
<1> DEFINE path == <<id>> \o <<>>
<1>1. path \in Seq(Id) /\ Len(path) = 1 /\ path[1] = id
  OBVIOUS
<1> HIDE DEF path
<1>2. Walked("prng", s, path) = ForkLane("prng", s, id)
  BY <1>1, WalkedIn
<1> QED BY <1>2 DEF path

LEMMA RootBatch ==
  ASSUME NEW seed \in Seeds, NEW ids, ids \in Lists \cup {RangeIds(first, n) : first \in Firsts, n \in Counts},
         DOMAIN ids = 1 .. Len(ids), Len(ids) \in Nat, \A i \in 1 .. Len(ids) : ids[i] \in Id,
         FitsSlice(Len(ids), LaneSize)
  PROVE  LET o == Made("PrngBatch", [i \in 1 .. Len(ids) |-> ForkLane("prng", seed, ids[i])])
         IN  IsObject(o) /\ o.kind = "PrngBatch" /\ o \in CV!FromRoot("PrngBatch")
<1> DEFINE n == Len(ids)
           states == [i \in 1 .. n |-> ForkLane("prng", seed, ids[i])]
           o == Made("PrngBatch", states)
<1>1. seed \in State /\ n \in Nat
  BY ListsAre
<1>2. \A i \in 1 .. n : states[i] \in State
  BY <1>1, ForkIn
<1>3. states = [i \in 1 .. n |-> states[i]]
  OBVIOUS
<1>4. [i \in DOMAIN ids |-> Walked("prng", seed, <<ids[i]>> \o <<>>)] = states
  <2>1. \A i \in 1 .. n : Walked("prng", seed, <<ids[i]>> \o <<>>) = ForkLane("prng", seed, ids[i])
    BY <1>1, OneId
  <2> QED BY <2>1
<1>5. o \in CV!FromRoot("PrngBatch")
  <2> HIDE DEF states
  <2> DEFINE path == <<>>
  <2>1. path \in Lists \cup {<<>>}
    OBVIOUS
  <2>2. [i \in DOMAIN ids |-> Walked("prng", seed, <<ids[i]>> \o path)] = states
    BY <1>4
  <2> HIDE DEF path
  <2>3. Made("PrngBatch", [i \in DOMAIN ids |-> Walked("prng", seed, <<ids[i]>> \o path)]) \in CV!FromRoot("PrngBatch")
    BY <2>1, PrngBatchRootsHave
  <2> QED BY <2>2, <2>3
<1> HIDE DEF states
<1>6. states \in Seq(State) /\ Len(states) = n
  <2> HIDE DEF n
  <2> QED BY <1>1, <1>2, <1>3, StatesOf
<1>7. IsObject(o) /\ o.kind = "PrngBatch"
  BY <1>6, MadeIs, KindNames
<1> QED BY <1>5, <1>7 DEF states

LEMMA BatchNewStep ==
  ASSUME IInv, NEW v \in VarsOf("PrngBatch"), NEW p, NEW seed \in Seeds, NEW a \in IdArrays,
         BatchNew(v, p, seed, a)
  PROVE  IInv' /\ CV!Next
<1> DEFINE o == Made("PrngBatch", [i \in DOMAIN a.list |-> ForkLane("prng", seed, a.list[i])])
           error == FirstError(<<SeedError(p), IdsError(a)>>)
<1>1. a.list \in Lists /\ a.list \in Seq(Id) /\ (FitsSlice(a.n, IdSize) => a.n = Len(a.list))
  BY ListsAre
<1>2. error \in Verdicts /\ (error = None => a.n = Len(a.list))
  BY <1>1, SimpleVerdicts, IdsVerdict, FirstTwo
<1>3. Construct(v, {IfRight(error, Collected(a.n, o))})
  BY DEF BatchNew
<1> HIDE DEF error
<1>4. ASSUME error = None, FitsSlice(a.n, LaneSize)
      PROVE  Right(v, o)
  <2>1. /\ DOMAIN a.list = 1 .. Len(a.list) /\ Len(a.list) \in Nat /\ FitsSlice(Len(a.list), LaneSize)
        /\ \A i \in 1 .. Len(a.list) : a.list[i] \in Id
    BY <1>1, <1>2, <1>4
  <2>2. o = Made("PrngBatch", [i \in 1 .. Len(a.list) |-> ForkLane("prng", seed, a.list[i])])
    BY <2>1
  <2> HIDE DEF o
  <2>3. IsObject(o) /\ o.kind = "PrngBatch" /\ o \in CV!FromRoot("PrngBatch")
    BY <1>1, <2>1, <2>2, RootBatch, SMTT(40)
  <2> QED BY <2>3, RootIsRight
<1> HIDE DEF o
<1> QED BY <1>2, <1>3, <1>4, CollectedResult, PassedIsUsed

LEMMA BatchNewRangeStep ==
  ASSUME IInv, NEW v \in VarsOf("PrngBatch"), NEW p, NEW seed \in Seeds, NEW first \in Firsts, NEW n \in Counts,
         BatchNewRange(v, p, seed, first, n)
  PROVE  IInv' /\ CV!Next
<1> DEFINE ids == RangeIds(first, n)
           o == Made("PrngBatch", [i \in 1 .. n |-> ForkLane("prng", seed, ids[i])])
           R == IF SeedError(p) # None THEN {Fails(SeedError(p))} ELSE Reserved(n, o)
<1>1. Construct(v, R)
  BY DEF BatchNewRange
<1>2. n \in Nat /\ first \in Nat
  BY ArgumentTypes
<1>3. DOMAIN ids = 1 .. Len(ids) /\ Len(ids) = n /\ \A i \in 1 .. Len(ids) : ids[i] \in Id
  BY <1>2, RangeIdsIn
<1>4. ids \in Lists \cup {RangeIds(x, y) : x \in Firsts, y \in Counts}
  OBVIOUS
<1> HIDE DEF ids
<1>5. ASSUME FitsSlice(n, LaneSize)
      PROVE  Right(v, o)
  <2>1. o = Made("PrngBatch", [i \in 1 .. Len(ids) |-> ForkLane("prng", seed, ids[i])])
    BY <1>3
  <2> HIDE DEF o
  <2>2. IsObject(o) /\ o.kind = "PrngBatch" /\ o \in CV!FromRoot("PrngBatch")
    BY <1>2, <1>3, <1>4, <1>5, <2>1, RootBatch
  <2> QED BY <2>2, RootIsRight
<1> HIDE DEF o
<1>6. \A r \in R : Result(v, r)
  BY <1>5, ReservedResults, FailedResult, SimpleVerdicts DEF Verdicts
<1> HIDE DEF R
<1> QED BY <1>1, <1>6, ConstructStep, PassedIsUsed

LEMMA BatchDerivePathStep ==
  ASSUME IInv, NEW v \in VarsOf("PrngBatch"), NEW p, NEW seed \in Seeds, NEW a \in IdArrays, NEW path \in PathArrays,
         BatchDerivePath(v, p, seed, a, path)
  PROVE  IInv' /\ CV!Next
<1> DEFINE walked(i) == Walked("prng", seed, <<a.list[i]>> \o path.list)
           states == [i \in DOMAIN a.list |-> walked(i)]
           o == Made("PrngBatch", states)
           error == FirstError(<<SeedError(p), LengthIf(path.n = 0), IdsError(a), IdsError(path)>>)
           R == IF error # None THEN {Fails(error)} ELSE Reserved(a.n, o)
<1>1. /\ a.list \in Lists /\ a.list \in Seq(Id) /\ (FitsSlice(a.n, IdSize) => a.n = Len(a.list))
      /\ path.list \in Lists /\ path.list \in Seq(Id) /\ seed \in State
  BY ListsAre
<1>2. error \in Verdicts /\ (error = None => a.n = Len(a.list))
  BY <1>1, SimpleVerdicts, IdsVerdict, FirstFour
<1>3. Construct(v, R)
  BY DEF BatchDerivePath
<1> HIDE DEF error
<1>4. ASSUME error = None, FitsSlice(a.n, LaneSize)
      PROVE  Right(v, o)
  <2>1. /\ DOMAIN a.list = 1 .. Len(a.list) /\ Len(a.list) \in Nat /\ FitsSlice(Len(a.list), LaneSize)
        /\ \A i \in 1 .. Len(a.list) : a.list[i] \in Id
    BY <1>1, <1>2, <1>4
  <2>2. ASSUME NEW i \in 1 .. Len(a.list)
        PROVE  walked(i) \in State
    <3>1. <<a.list[i]>> \o path.list \in Seq(Id)
      BY <1>1, <2>1
    <3> QED BY <1>1, <3>1, WalkedIn
  <2>3. states \in Seq(State) /\ Len(states) = Len(a.list)
    <3> HIDE DEF walked
    <3> QED BY <2>1, <2>2
  <2>4. o \in CV!FromRoot("PrngBatch")
    BY <1>1, PrngBatchRootsHave
  <2> HIDE DEF states
  <2>5. IsObject(o) /\ o.kind = "PrngBatch"
    BY <2>1, <2>3, MadeIs, KindNames
  <2> HIDE DEF o
  <2> QED BY <2>4, <2>5, RootIsRight
<1> HIDE DEF o
<1>5. \A r \in R : Result(v, r)
  BY <1>2, <1>4, ReservedResults, FailedResult DEF Verdicts
<1> HIDE DEF R
<1> QED BY <1>3, <1>5, ConstructStep, PassedIsUsed

LEMMA MessagesAre ==
  ASSUME NEW a \in MessageArrays
  PROVE  /\ a.list \in Seq(MessageArgs) /\ (FitsSlice(a.n, IdSize) => a.n = Len(a.list))
         /\ DOMAIN a.list = 1 .. Len(a.list) /\ Len(a.list) \in Nat
         /\ \A i \in 1 .. Len(a.list) : a.list[i] \in MessageArgs /\ Absorbed(a.list[i].m) \in State
<1>1. a.list \in Seq(MessageArgs) /\ (FitsSlice(a.n, IdSize) => a.n = Len(a.list))
  BY ArgumentTypes
<1> QED BY <1>1, AbsorbedIn

LEMMA XofBatchNewStep ==
  ASSUME IInv, NEW v \in VarsOf("XofBatch"), NEW a \in MessageArrays, XofBatchNew(v, a)
  PROVE  IInv' /\ CV!Next
<1> DEFINE states == [i \in DOMAIN a.list |-> Absorbed(a.list[i].m)]
           o == Made("XofBatch", states)
<1>1. MessagesError(a) \in Verdicts /\ (MessagesError(a) = None => a.n = Len(a.list))
  BY MessagesVerdict, MessagesAre
<1>2. Construct(v, {IfRight(MessagesError(a), Collected(a.n, o))})
  BY DEF XofBatchNew
<1>3. ASSUME MessagesError(a) = None, FitsSlice(a.n, LaneSize)
      PROVE  Right(v, o)
  <2>1. states = [i \in DOMAIN a.list |-> Walked("xof", Absorbed(a.list[i].m), <<>>)]
    <3>1. \A i \in DOMAIN a.list : Walked("xof", Absorbed(a.list[i].m), <<>>) = Absorbed(a.list[i].m)
      BY MessagesAre, AbsorbedIn
    <3> QED BY <3>1
  <2>2. o \in CV!FromRoot("XofBatch")
    BY <2>1, XofBatchRootsHave
  <2>3. states \in Seq(State) /\ Len(states) = Len(a.list)
    BY MessagesAre
  <2> HIDE DEF states
  <2>4. IsObject(o) /\ o.kind = "XofBatch"
    BY <1>1, <1>3, <2>3, MadeIs, KindNames, SMTT(40)
  <2> HIDE DEF o
  <2> QED BY <2>2, <2>4, RootIsRight
<1> HIDE DEF o
<1> QED BY <1>1, <1>2, <1>3, CollectedResult, PassedIsUsed

LEMMA XofBatchDerivePathStep ==
  ASSUME IInv, NEW v \in VarsOf("XofBatch"), NEW a \in MessageArrays, NEW path \in PathArrays,
         XofBatchDerivePath(v, a, path)
  PROVE  IInv' /\ CV!Next
<1> DEFINE walked(i) == Walked("xof", Absorbed(a.list[i].m), path.list)
           states == [i \in DOMAIN a.list |-> walked(i)]
           o == Made("XofBatch", states)
           error == FirstError(<<LengthIf(path.n = 0), MessagesError(a), IdsError(path)>>)
           R == IF error # None THEN {Fails(error)} ELSE Reserved(a.n, o)
<1>1. path.list \in Lists /\ path.list \in Seq(Id)
  BY ListsAre
<1>2. error \in Verdicts /\ (error = None => a.n = Len(a.list))
  BY SimpleVerdicts, IdsVerdict, MessagesVerdict, MessagesAre, FirstThree
<1>3. Construct(v, R)
  BY DEF XofBatchDerivePath
<1> HIDE DEF error
<1>4. ASSUME error = None, FitsSlice(a.n, LaneSize)
      PROVE  Right(v, o)
  <2>1. \A i \in 1 .. Len(a.list) : walked(i) \in State
    BY <1>1, MessagesAre, WalkedIn
  <2>2. states \in Seq(State) /\ Len(states) = Len(a.list)
    <3> HIDE DEF walked
    <3> QED BY <2>1, MessagesAre
  <2>3. o \in CV!FromRoot("XofBatch")
    BY <1>1, XofBatchRootsHave
  <2> HIDE DEF states
  <2>4. IsObject(o) /\ o.kind = "XofBatch"
    BY <1>2, <1>4, <2>2, MadeIs, KindNames
  <2> HIDE DEF o
  <2> QED BY <2>3, <2>4, RootIsRight
<1> HIDE DEF o
<1>5. \A r \in R : Result(v, r)
  BY <1>2, <1>4, ReservedResults, FailedResult DEF Verdicts
<1> HIDE DEF R
<1> QED BY <1>3, <1>5, ConstructStep, PassedIsUsed


(* Objects from objects.                                                   *)
LEMMA ChildIsRight ==
  ASSUME NEW w \in Used, ptr[w] # Null, NEW v \in Var,
         NEW o, IsObject(o), o.kind = KindOf(v), o \in CV!FromObject(Object(w))
  PROVE  Right(v, o)
BY DEF Right, Source

LEMMA CloneStep ==
  ASSUME IInv, NEW kind, NEW w \in UsableOf(kind), NEW v \in VarsOf(kind), Clone(w, v)
  PROVE  IInv' /\ CV!Next
<1> DEFINE R == {Gives(Object(w))}
<1>1. w \in Used /\ v \in Var /\ KindOf(w) = kind /\ KindOf(v) = kind
  BY PassedIsUsed
<1>2. ptr[w] # Null => Right(v, Object(w))
  BY <1>1, HeldObject, FromObjectHas, ChildIsRight
<1>3. ptr[w] # Null => \A r \in R : Result(v, r)
  BY <1>2, GivenResult
<1>4. Construct(v, IfThere(w, R))
  BY DEF Clone
<1> HIDE DEF R
<1> QED BY <1>1, <1>3, <1>4, ThereResults, ConstructStep

LEMMA ForkStep ==
  ASSUME IInv, NEW kind \in Kinds \ BatchKinds, NEW w \in UsableOf(kind), NEW v \in VarsOf(kind), NEW id \in Ids,
         Fork(w, v, id)
  PROVE  IInv' /\ CV!Next
<1> DEFINE o == Child(Object(w), id)
           R == {Gives(o)}
<1>1. w \in Used /\ v \in Var /\ KindOf(w) = kind /\ KindOf(v) = kind
  BY PassedIsUsed
<1>2. ASSUME ptr[w] # Null
      PROVE  Right(v, o)
  <2>1. IsObject(Object(w)) /\ Object(w).kind = kind /\ id \in Id
    BY <1>1, <1>2, HeldObject, ListsAre
  <2>2. IsObject(o) /\ o.kind = kind
    BY <2>1, ChildIs
  <2>3. o \in CV!FromObject(Object(w))
    BY <2>1, FromObjectHas
  <2> HIDE DEF o
  <2> QED BY <1>1, <1>2, <2>2, <2>3, ChildIsRight
<1> HIDE DEF o
<1>3. ptr[w] # Null => \A r \in R : Result(v, r)
  BY <1>2, GivenResult
<1>4. Construct(v, IfThere(w, R))
  BY DEF Fork, o
<1> HIDE DEF R
<1> QED BY <1>1, <1>3, <1>4, ThereResults, ConstructStep

LEMMA BatchCloneStep ==
  ASSUME IInv, NEW kind, NEW w \in UsableOf(kind), NEW v \in VarsOf(kind), BatchClone(w, v)
  PROVE  IInv' /\ CV!Next
<1> DEFINE R == Reserved(Len(Object(w).lanes), Object(w))
<1>1. w \in Used /\ v \in Var /\ KindOf(w) = kind /\ KindOf(v) = kind
  BY PassedIsUsed
<1>2. ptr[w] # Null => Right(v, Object(w))
  BY <1>1, HeldObject, FromObjectHas, ChildIsRight
<1>3. ptr[w] # Null => \A r \in R : Result(v, r)
  BY <1>2, ReservedResults
<1>4. Construct(v, IfThere(w, R))
  BY DEF BatchClone
<1> HIDE DEF R
<1> QED BY <1>1, <1>3, <1>4, ThereResults, ConstructStep

LEMMA BatchLaneStep ==
  ASSUME IInv, NEW kind \in BatchKinds, NEW w \in UsableOf(kind), NEW v \in VarsOf(SingleOf(kind)),
         NEW index \in 0 .. 2, BatchLane(w, index, v)
  PROVE  IInv' /\ CV!Next
<1> DEFINE o == Alone(Object(w), index)
           r0 == IF index >= Len(Object(w).lanes) THEN Fails("InvalidArgument") ELSE Gives(o)
           R == {r0}
<1>1. w \in Used /\ v \in Var /\ KindOf(w) = kind /\ KindOf(v) = SingleOf(kind)
  BY PassedIsUsed
<1>2. ASSUME ptr[w] # Null, ~(index >= Len(Object(w).lanes))
      PROVE  Right(v, o)
  <2>1. IsObject(Object(w)) /\ Object(w).kind = kind
    BY <1>1, <1>2, HeldObject
  <2>2. index \in 0 .. Len(Object(w).lanes) - 1
    BY <1>2, <2>1, ObjectIs
  <2>3. IsObject(o) /\ o.kind = SingleOf(kind)
    BY <2>1, <2>2, AloneIs
  <2>4. o \in CV!FromObject(Object(w))
    BY <2>1, <2>2, FromObjectHas
  <2> HIDE DEF o
  <2> QED BY <1>1, <1>2, <2>3, <2>4, ChildIsRight
<1> HIDE DEF o
<1>3. ptr[w] # Null => Result(v, r0)
  BY <1>2, GivenResult, FailedResult, ErrorsAre
<1>4. Construct(v, IfThere(w, R))
  BY DEF BatchLane, o
<1> HIDE DEF r0
<1>5. ptr[w] # Null => \A r \in R : Result(v, r)
  BY <1>3
<1> HIDE DEF R
<1> QED BY <1>1, <1>4, <1>5, ThereResults, ConstructStep

LEMMA BatchForkStep ==
  ASSUME IInv, NEW kind \in BatchKinds, NEW w \in UsableOf(kind), NEW v \in VarsOf(kind), NEW a \in IdArrays,
         BatchFork(w, v, a)
  PROVE  IInv' /\ CV!Next
<1> DEFINE o == ChildPerLane(Object(w), a.list)
           error == FirstError(<<LengthIf(a.n # Len(Object(w).lanes)), IdsError(a)>>)
           r0 == IfRight(error, Gives(o))
           R == {r0}
<1>1. w \in Used /\ v \in Var /\ KindOf(w) = kind /\ KindOf(v) = kind
  BY PassedIsUsed
<1>2. a.list \in Lists /\ a.list \in Seq(Id) /\ (FitsSlice(a.n, IdSize) => a.n = Len(a.list))
  BY ListsAre
<1>3. error \in Verdicts /\ (error = None => Len(a.list) = Len(Object(w).lanes))
  <2> DEFINE c == LengthIf(a.n # Len(Object(w).lanes))
  <2>1. c = None => a.n = Len(Object(w).lanes)
    BY ErrorsAre DEF LengthIf
  <2>2. c \in Verdicts /\ IdsError(a) \in Verdicts /\ (IdsError(a) = None => a.n = Len(a.list))
    BY <1>2, SimpleVerdicts, IdsVerdict
  <2> HIDE DEF c
  <2>3. FirstError(<<c, IdsError(a)>>) \in Verdicts
        /\ (FirstError(<<c, IdsError(a)>>) = None => c = None /\ IdsError(a) = None)
    BY <2>2, FirstTwo
  <2> QED BY <2>1, <2>2, <2>3 DEF c
<1>4. Construct(v, IfThere(w, R))
  BY DEF BatchFork
<1> HIDE DEF error
<1>5. ASSUME ptr[w] # Null, error = None
      PROVE  Right(v, o)
  <2>1. IsObject(Object(w)) /\ Object(w).kind = kind
    BY <1>1, <1>5, HeldObject
  <2>2. \A i \in 1 .. Len(Object(w).lanes) : a.list[i] \in Id
    BY <1>2, <1>3, <1>5
  <2>3. IsObject(o) /\ o.kind = kind
    BY <2>1, <2>2, ChildPerLaneIs
  <2>4. o \in CV!FromObject(Object(w))
    BY <1>2, <1>3, <1>5, <2>1, FromObjectHas
  <2> HIDE DEF o
  <2> QED BY <1>1, <1>5, <2>3, <2>4, ChildIsRight
<1> HIDE DEF o
<1>6. ptr[w] # Null => Result(v, r0)
  BY <1>3, <1>5, GivenResult, FailedResult DEF IfRight, Verdicts
<1> HIDE DEF r0
<1>7. ptr[w] # Null => \A r \in R : Result(v, r)
  BY <1>6
<1> HIDE DEF R
<1> QED BY <1>1, <1>4, <1>7, ThereResults, ConstructStep

LEMMA BatchForkManyStep ==
  ASSUME IInv, NEW kind \in BatchKinds, NEW w \in UsableOf(kind), NEW v \in VarsOf(kind), NEW a \in IdArrays,
         BatchForkMany(w, v, a)
  PROVE  IInv' /\ CV!Next
<1> DEFINE l == Len(Object(w).lanes)
           o == Children(Object(w), a.list)
           error == FirstError(<<LengthIf(l * a.n > UsizeMax), IdsError(a)>>)
           R == IF error # None THEN {Fails(error)} ELSE Reserved(l * a.n, o)
<1>1. w \in Used /\ v \in Var /\ KindOf(w) = kind /\ KindOf(v) = kind
  BY PassedIsUsed
<1>2. a.list \in Lists /\ a.list \in Seq(Id) /\ (FitsSlice(a.n, IdSize) => a.n = Len(a.list))
  BY ListsAre
<1>3. error \in Verdicts /\ (error = None => a.n = Len(a.list))
  BY <1>2, SimpleVerdicts, IdsVerdict, FirstTwo
<1>4. Construct(v, IfThere(w, R))
  BY DEF BatchForkMany
<1> HIDE DEF error
<1>5. ASSUME ptr[w] # Null, error = None, FitsSlice(l * a.n, LaneSize)
      PROVE  Right(v, o)
  <2>1. IsObject(Object(w)) /\ Object(w).kind = kind
    BY <1>1, <1>5, HeldObject
  <2>2. IsObject(o) /\ o.kind = kind
    BY <1>2, <1>3, <1>5, <2>1, ChildrenIs
  <2>3. o \in CV!FromObject(Object(w))
    BY <1>2, <2>1, FromObjectHas
  <2> HIDE DEF o
  <2> QED BY <1>1, <1>5, <2>2, <2>3, ChildIsRight
<1> HIDE DEF o, l
<1>6. ptr[w] # Null => \A r \in R : Result(v, r)
  BY <1>3, <1>5, ReservedResults, FailedResult DEF Verdicts
<1> HIDE DEF R
<1> QED BY <1>1, <1>4, <1>6, ThereResults, ConstructStep

LEMMA BatchForkRangeStep ==
  ASSUME IInv, NEW kind \in BatchKinds, NEW w \in UsableOf(kind), NEW v \in VarsOf(kind), NEW first \in Firsts,
         BatchForkRange(w, v, first)
  PROVE  IInv' /\ CV!Next
<1> DEFINE ids == RangeIds(first, Len(Object(w).lanes))
           o == ChildPerLane(Object(w), ids)
           R == {Gives(o)}
<1>1. w \in Used /\ v \in Var /\ KindOf(w) = kind /\ KindOf(v) = kind
  BY PassedIsUsed
<1>2. Construct(v, IfThere(w, R))
  BY DEF BatchForkRange
<1>3. ASSUME ptr[w] # Null
      PROVE  Right(v, o)
  <2>1. IsObject(Object(w)) /\ Object(w).kind = kind /\ first \in Nat
    BY <1>1, <1>3, HeldObject, ArgumentTypes
  <2>2. \A i \in 1 .. Len(Object(w).lanes) : ids[i] \in Id
    BY <2>1, ObjectIs, RangeIdsIn
  <2>3. o \in CV!FromObject(Object(w))
    BY <2>1, FromObjectHas
  <2> HIDE DEF ids
  <2>4. IsObject(o) /\ o.kind = kind
    BY <2>1, <2>2, ChildPerLaneIs
  <2> HIDE DEF o
  <2> QED BY <1>1, <1>3, <2>3, <2>4, ChildIsRight
<1> HIDE DEF o
<1>4. ptr[w] # Null => \A r \in R : Result(v, r)
  BY <1>3, GivenResult
<1> HIDE DEF R
<1> QED BY <1>1, <1>2, <1>4, ThereResults, ConstructStep

(* Objects from snapshots.                                                 *)
LEMMA AcceptedIsRight ==
  ASSUME IInv, NEW v \in Var, NEW k \in Store, Accepts(KindOf(v), buf[k])
  PROVE  Right(v, Decoded(buf[k]))
<1> DEFINE b == buf[k]
           o == Decoded(b)
<1>1. KindOf(v) \in Kinds
  BY Addresses
<1>2. b.from = KindOf(v)
  BY <1>1, ImportersAre DEF OwnImporterOnly
<1>3. b \notin FirstBytes
  BY <1>1, <1>2, FirstBytesForeign, NoneApart
<1>4. IsObject(o) /\ b = Encoded(o)
  BY <1>3 DEF IInv, Buffers
<1> HIDE DEF o
<1>5. o.kind = KindOf(v)
  BY <1>2, <1>4 DEF Encoded
<1>6. Kept[k] = o /\ o # None
  BY <1>1, <1>2, <1>4, NoneApart, Addresses DEF Kept, o
<1> QED BY <1>4, <1>5, <1>6 DEF Right, Source, o

LEMMA FormatVerdict ==
  ASSUME NEW b, NEW kind
  PROVE  FormatError(b, kind) \in Verdicts /\ SingleError(b, kind) \in Verdicts
         /\ \A len : HeaderError(b, len, kind) \in Verdicts
<1>1. FormatError(b, kind) \in Verdicts /\ CursorError(b) \in Verdicts
  BY ErrorsAre DEF FormatError, CursorError, Verdicts
<1>2. SingleError(b, kind) \in Verdicts
  BY <1>1, FirstTwo DEF SingleError
<1>3. \A len : HeaderError(b, len, kind) \in Verdicts
  BY <1>1, SimpleVerdicts, FirstThree DEF HeaderError
<1> QED BY <1>1, <1>2, <1>3

LEMMA ImportStep ==
  ASSUME IInv, NEW kind \in Kinds \ BatchKinds, NEW v \in VarsOf(kind), NEW k \in Store, NEW p,
         ImportSnapshot(k, p, v)
  PROVE  IInv' /\ CV!Next
<1> DEFINE error == FirstError(<<PointerIf(~SliceOk(p, SingleLen, 1, 1)), SingleError(buf[k], KindOf(v))>>)
<1>1. v \in Var /\ KindOf(v) = kind
  BY PassedIsUsed
<1>2. error \in Verdicts /\ (error = None => SingleError(buf[k], KindOf(v)) = None)
  BY SimpleVerdicts, FormatVerdict, FirstTwo
<1>3. Construct(v, {IfRight(error, Gives(Decoded(buf[k])))})
  BY DEF ImportSnapshot
<1> HIDE DEF error
<1>4. error = None => Right(v, Decoded(buf[k]))
  BY <1>1, <1>2, AcceptedIsRight DEF Accepts
<1> QED BY <1>1, <1>2, <1>3, <1>4, OneResult

LEMMA BatchImportStep ==
  ASSUME IInv, NEW kind \in BatchKinds, NEW v \in VarsOf(kind), NEW k \in Store, NEW p, NEW len,
         BatchImportSnapshot(k, p, len, v)
  PROVE  IInv' /\ CV!Next
<1> DEFINE error == FirstError(<<BytesError(p, len), HeaderError(buf[k], len, KindOf(v))>>)
<1>1. v \in Var /\ KindOf(v) = kind
  BY PassedIsUsed
<1>2. error \in Verdicts /\ (error = None => HeaderError(buf[k], len, KindOf(v)) = None)
  BY BytesVerdict, FormatVerdict, FirstTwo
<1>3. Construct(v, {IfRight(error, Gives(Decoded(buf[k])))})
  BY DEF BatchImportSnapshot
<1> HIDE DEF error
<1>4. error = None => Right(v, Decoded(buf[k]))
  BY <1>1, <1>2, HeaderAccepts, AcceptedIsRight
<1> QED BY <1>1, <1>2, <1>3, <1>4, OneResult


(* Calls that move an object, and snapshots.                               *)
LEMMA NextWordStep ==
  ASSUME IInv, NEW kind \in Kinds \ BatchKinds, NEW w \in UsableOf(kind), NEW out, NEW size \in WordSizes,
         NextWord(w, out, size)
  PROVE  IInv' /\ CV!Next
<1> DEFINE error == PointerIf(ptr[w] = Null \/ out = Null)
           r == IfRight(error, Gives(Drawn(Object(w), size)))
<1>1. w \in Used /\ KindOf(w) = kind
  BY PassedIsUsed
<1>2. error \in Verdicts /\ (error = None => ptr[w] # Null)
  BY SimpleVerdicts, ErrorsAre DEF PointerIf
<1>3. InPlace(w, r)
  BY DEF NextWord
<1> HIDE DEF error
<1>4. ptr[w] # Null => Advanced(Object(w), Drawn(Object(w), size))
  BY <1>1, HeldObject DEF Advanced
<1>5. Moved(w, r)
  BY <1>2, <1>4 DEF Moved, IfRight, Gives, Fails, Verdicts
<1> HIDE DEF r
<1> QED BY <1>1, <1>3, <1>5, InPlaceStep

LEMMA NextFullStep ==
  ASSUME IInv, NEW kind \in Kinds \ BatchKinds, NEW w \in UsableOf(kind), NEW out, NextFull(w, out)
  PROVE  IInv' /\ CV!Next
<1> DEFINE error == PointerIf(ptr[w] = Null \/ out = Null)
           r == IfRight(error, Gives(NextBlock(Object(w))))
<1>1. w \in Used /\ KindOf(w) = kind
  BY PassedIsUsed
<1>2. error \in Verdicts /\ (error = None => ptr[w] # Null)
  BY SimpleVerdicts, ErrorsAre DEF PointerIf
<1>3. InPlace(w, r)
  BY DEF NextFull
<1> HIDE DEF error
<1>4. ptr[w] # Null => Advanced(Object(w), NextBlock(Object(w)))
  BY <1>1, HeldObject DEF Advanced
<1>5. Moved(w, r)
  BY <1>2, <1>4 DEF Moved, IfRight, Gives, Fails, Verdicts
<1> HIDE DEF r
<1> QED BY <1>1, <1>3, <1>5, InPlaceStep

LEMMA FillStep ==
  ASSUME IInv, NEW kind \in Kinds \ BatchKinds, NEW w \in UsableOf(kind), NEW out, NEW len \in ReadLens,
         Fill(w, out, len)
  PROVE  IInv' /\ CV!Next
<1> DEFINE c == PointerIf(ptr[w] = Null)
           error == FirstError(<<c, BytesError(out, len)>>)
           r == IfRight(error, Gives(Drawn(Object(w), len)))
<1>1. w \in Used /\ KindOf(w) = kind
  BY PassedIsUsed
<1>2. c \in Verdicts /\ BytesError(out, len) \in Verdicts /\ (c = None => ptr[w] # Null)
  BY SimpleVerdicts, BytesVerdict, ErrorsAre DEF PointerIf
<1>3. InPlace(w, r)
  BY DEF Fill
<1> HIDE DEF c
<1>4. error \in Verdicts /\ (error = None => ptr[w] # Null)
  BY <1>2, FirstTwo
<1> HIDE DEF error
<1>5. ptr[w] # Null => Advanced(Object(w), Drawn(Object(w), len))
  BY <1>1, HeldObject DEF Advanced
<1>6. Moved(w, r)
  BY <1>4, <1>5 DEF Moved, IfRight, Gives, Fails, Verdicts
<1> HIDE DEF r
<1> QED BY <1>1, <1>3, <1>6, InPlaceStep

LEMMA BatchFillStep ==
  ASSUME IInv, NEW kind \in BatchKinds, NEW w \in UsableOf(kind), NEW out, NEW len, NEW steps \in StepCounts,
         BatchFillBlocks(w, out, len, steps)
  PROVE  IInv' /\ CV!Next
<1> DEFINE bytes == Len(Object(w).lanes) * steps * BlockLen
           error == FirstError(<<LengthIf(bytes > UsizeMax), LengthIf(len # bytes),
                                 PointerIf(bytes > 0 /\ out = Null), LengthIf(~FitsSlice(len, 1))>>)
           r == IF ptr[w] = Null THEN Fails("InvalidPointer") ELSE IfRight(error, Gives(Forward(Object(w), steps)))
<1>1. w \in Used /\ KindOf(w) = kind
  BY PassedIsUsed
<1>2. InPlace(w, r)
  BY DEF BatchFillBlocks
<1> HIDE DEF bytes
<1>3. error \in Verdicts
  BY SimpleVerdicts, FirstFour
<1> HIDE DEF error
<1>4. ptr[w] # Null => Advanced(Object(w), Forward(Object(w), steps))
  BY <1>1, HeldObject DEF Advanced
<1>5. Moved(w, r)
  BY <1>3, <1>4, ErrorsAre DEF Moved, IfRight, Gives, Fails, Verdicts
<1> HIDE DEF r
<1> QED BY <1>1, <1>2, <1>5, InPlaceStep

LEMMA ExportStep ==
  ASSUME IInv, NEW kind, NEW w \in UsableOf(kind), NEW k \in Store, NEW out, ExportSnapshot(w, k, out)
  PROVE  IInv' /\ CV!Next
<1> DEFINE error == PointerIf(ptr[w] = Null \/ out = Null)
<1>1. error \in Verdicts /\ (error = None => ptr[w] # Null)
  BY SimpleVerdicts, ErrorsAre DEF PointerIf
<1>2. StoreIn(w, k, error)
  BY DEF ExportSnapshot
<1> HIDE DEF error
<1> QED BY <1>1, <1>2, StoreStep, PassedIsUsed

LEMMA BatchExportStep ==
  ASSUME IInv, NEW kind, NEW w \in UsableOf(kind), NEW k \in Store, NEW out, NEW len,
         BatchExportSnapshot(w, k, out, len)
  PROVE  IInv' /\ CV!Next
<1> DEFINE expected == BatchLen(Len(Object(w).lanes))
           first == FirstError(<<LengthIf(expected > UsizeMax), LengthIf(len # expected),
                                 PointerIf(~SliceOk(out, expected, 1, 1))>>)
           error == IF ptr[w] = Null THEN "InvalidPointer" ELSE first
<1>1. StoreIn(w, k, error)
  BY DEF BatchExportSnapshot
<1> HIDE DEF expected
<1>2. first \in Verdicts
  BY SimpleVerdicts, FirstThree
<1> HIDE DEF first
<1>3. error \in Verdicts /\ (error = None => ptr[w] # Null)
  BY <1>2, ErrorsAre DEF Verdicts
<1> HIDE DEF error
<1> QED BY <1>1, <1>3, StoreStep, PassedIsUsed

-----------------------------------------------------------------------------
(* All calls.                                                              *)

LEMMA SingleCallsStep ==
  ASSUME IInv, NEW kind \in Kinds \ BatchKinds, SingleCalls(kind)
  PROVE  IInv' /\ CV!Next
<1>1. CASE \E v \in VarsOf(kind) : \E w \in UsableOf(kind) : Clone(w, v)
  BY <1>1, CloneStep
<1>2. CASE \E v \in VarsOf(kind) : \E w \in UsableOf(kind), id \in Ids : Fork(w, v, id)
  BY <1>2, ForkStep
<1>3. CASE \E v \in VarsOf(kind) : \E k \in Store, p \in Pointers : ImportSnapshot(k, p, v)
  BY <1>3, ImportStep
<1>4. CASE \E w \in UsableOf(kind), out \in Pointers : \E size \in WordSizes : NextWord(w, out, size)
  BY <1>4, NextWordStep
<1>5. CASE \E w \in UsableOf(kind), out \in Pointers : NextFull(w, out)
  BY <1>5, NextFullStep
<1>6. CASE \E w \in UsableOf(kind), out \in Pointers : \E len \in ReadLens : Fill(w, out, len)
  BY <1>6, FillStep
<1>7. CASE \E w \in UsableOf(kind), out \in Pointers : \E k \in Store : ExportSnapshot(w, k, out)
  BY <1>7, ExportStep
<1>8. CASE \E w \in UsableOf(kind) : Free(w)
  BY <1>8, FreeStep, PassedIsUsed
<1> QED BY <1>1, <1>2, <1>3, <1>4, <1>5, <1>6, <1>7, <1>8 DEF SingleCalls

LEMMA BatchCallsStep ==
  ASSUME IInv, NEW kind \in BatchKinds, BatchCalls(kind)
  PROVE  IInv' /\ CV!Next
<1>1. CASE \E w \in UsableOf(kind), v \in VarsOf(kind) : BatchClone(w, v)
  BY <1>1, BatchCloneStep
<1>2. CASE \E w \in UsableOf(kind), v \in VarsOf(kind) : \E a \in IdArrays : BatchFork(w, v, a)
  BY <1>2, BatchForkStep
<1>3. CASE \E w \in UsableOf(kind), v \in VarsOf(kind) : \E a \in IdArrays : BatchForkMany(w, v, a)
  BY <1>3, BatchForkManyStep
<1>4. CASE \E w \in UsableOf(kind), v \in VarsOf(kind) : \E first \in Firsts : BatchForkRange(w, v, first)
  BY <1>4, BatchForkRangeStep
<1>5. CASE \E w \in UsableOf(kind), v \in VarsOf(SingleOf(kind)) : \E index \in 0 .. 2 : BatchLane(w, index, v)
  BY <1>5, BatchLaneStep
<1>6. CASE \E w \in UsableOf(kind), out \in Pointers :
             \E steps \in StepCounts, n \in 0 .. 2 :
               BatchFillBlocks(w, out, Lesser(n * steps * BlockLen, UsizeMax), steps)
  BY <1>6, BatchFillStep
<1>7. CASE \E w \in UsableOf(kind), out \in Pointers :
             \E k \in Store, n \in 0 .. 2 : BatchExportSnapshot(w, k, out, BatchLen(n))
  BY <1>7, BatchExportStep
<1>8. CASE \E k \in Store, p \in Pointers, v \in VarsOf(kind) :
             \E len \in {BatchLen(buf[k].count), HeaderSize - 1, SingleLen, UsizeMax} :
               BatchImportSnapshot(k, p, len, v)
  BY <1>8, BatchImportStep
<1>9. CASE \E w \in UsableOf(kind) : Free(w)
  BY <1>9, FreeStep, PassedIsUsed
<1> QED BY <1>1, <1>2, <1>3, <1>4, <1>5, <1>6, <1>7, <1>8, <1>9 DEF BatchCalls

LEMMA NextStep ==
  ASSUME IInv, Next
  PROVE  IInv' /\ CV!Next
<1>1. CASE ConstructNowhere
  BY <1>1, ReturnStep, ErrorsAre DEF ConstructNowhere
<1>2. CASE PrngCalls
  <2>1. CASE SingleCalls("Prng")
    BY <2>1, SingleCallsStep, KindNames
  <2>2. CASE \E v \in VarsOf("Prng"), p \in Pointers, seed \in Seeds : \E id \in Ids : New(v, p, seed, id)
    BY <2>2, NewStep
  <2>3. CASE \E v \in VarsOf("Prng"), p \in Pointers, seed \in Seeds :
               \E a \in PathArrays : DerivePath(v, p, seed, a)
    BY <2>3, DerivePathStep
  <2> QED BY <1>2, <2>1, <2>2, <2>3 DEF PrngCalls
<1>3. CASE XofCalls
  <2>1. CASE SingleCalls("Xof")
    BY <2>1, SingleCallsStep, KindNames
  <2>2. CASE \E v \in VarsOf("Xof"), x \in MessageArgs : XofNew(v, x)
    BY <2>2, XofNewStep
  <2>3. CASE \E v \in VarsOf("Xof"), x \in MessageArgs : \E a \in PathArrays : XofDerivePath(v, x, a)
    BY <2>3, XofDerivePathStep
  <2> QED BY <1>3, <2>1, <2>2, <2>3 DEF XofCalls
<1>4. CASE PrngBatchCalls
  <2>1. CASE BatchCalls("PrngBatch")
    BY <2>1, BatchCallsStep, KindNames
  <2>2. CASE \E v \in VarsOf("PrngBatch"), p \in Pointers, seed \in Seeds :
               \E a \in IdArrays : BatchNew(v, p, seed, a)
    BY <2>2, BatchNewStep
  <2>3. CASE \E v \in VarsOf("PrngBatch"), p \in Pointers, seed \in Seeds :
               \E first \in Firsts, n \in Counts : BatchNewRange(v, p, seed, first, n)
    BY <2>3, BatchNewRangeStep
  <2>4. CASE \E v \in VarsOf("PrngBatch"), p \in Pointers, seed \in Seeds :
               \E roots \in IdArrays, path \in PathArrays : BatchDerivePath(v, p, seed, roots, path)
    BY <2>4, BatchDerivePathStep
  <2> QED BY <1>4, <2>1, <2>2, <2>3, <2>4 DEF PrngBatchCalls
<1>5. CASE XofBatchCalls
  <2>1. CASE BatchCalls("XofBatch")
    BY <2>1, BatchCallsStep, KindNames
  <2>2. CASE \E v \in VarsOf("XofBatch"), a \in MessageArrays : XofBatchNew(v, a)
    BY <2>2, XofBatchNewStep
  <2>3. CASE \E v \in VarsOf("XofBatch"), a \in MessageArrays :
               \E path \in PathArrays : XofBatchDerivePath(v, a, path)
    BY <2>3, XofBatchDerivePathStep
  <2> QED BY <1>5, <2>1, <2>2, <2>3 DEF XofBatchCalls
<1> QED BY <1>1, <1>2, <1>3, <1>4, <1>5 DEF Next

LEMMA StutterStep ==
  ASSUME IInv, UNCHANGED vars
  PROVE  IInv' /\ UNCHANGED CV!vars
<1>1. IInv'
  BY ReturnKeeps DEF vars
<1>2. Kept' = Kept
  BY KeptSame DEF vars
<1>3. Values' = Values /\ status' = status
  BY DEF vars, Values
<1> QED BY <1>1, <1>2, <1>3 DEF CV!vars

LEMMA InitOnValues ==
  ASSUME Init
  PROVE  CV!Init
<1>1. Values = [v \in Var |-> None]
  BY DEF Init, Values
<1>2. \A k \in Store : buf[k].from = None
  BY FirstBytesForeign DEF Init
<1>3. Kept = [k \in Store |-> None]
  BY <1>2 DEF Kept
<1> QED BY <1>1, <1>3 DEF Init, CV!Init

LEMMA Invariance == Spec => []IInv
<1>1. IInv /\ [Next]_vars => IInv'
  BY NextStep, StutterStep
<1> QED BY InitInv, <1>1, PTL DEF Spec

(* A variable the caller may pass on is null or holds a live object of its *)
(* type, no two hold the same, and an object nobody holds is one the       *)
(* caller has written over (src/ffi/mod.rs construct, the _free functions),*)
(* for any number of variables, addresses and objects.                     *)
THEOREM ContextsHaveOneOwner == Spec => []OneOwner
<1>1. IInv => OneOwner
  BY OwnersAre
<1> QED BY <1>1, Invariance, PTL

(* A snapshot is accepted by the importer of the type it was exported      *)
(* from, and by no other (types/snapshot.rs), for any number of lanes.     *)
THEOREM ContextsImportOwn == Spec => []OwnImporterOnly
<1>1. IInv => OwnImporterOnly
  BY ImportersAre
<1> QED BY <1>1, Invariance, PTL

(* Through its pointers the program sees objects held by value: each call  *)
(* of src/ffi/prng.rs and src/ffi/xof.rs is one step of ContextValues.     *)
THEOREM ContextsAreValues == Spec => ImplementsContextValues
<1>1. Init => CV!Init
  BY InitOnValues
<1>2. IInv /\ [Next]_vars => [CV!Next]_(CV!vars)
  BY NextStep, StutterStep
<1> QED BY <1>1, <1>2, Invariance, PTL DEF Spec, ImplementsContextValues, CV!Spec

-----------------------------------------------------------------------------
(* The hash functions: slices and their checks.                            *)

LEMMA CallSizes ==
  /\ UsizeMax \in Nat \ {0} /\ IsizeMax \in Nat /\ IsizeMax <= UsizeMax
  /\ DOMAIN Blank \subseteq 1 .. UsizeMax - 1 /\ Blank \in Memories
  /\ {ByteMod, WordLen, Len256, Len128, RangesPerThread} \subseteq Nat \ {0}
  /\ {PoolThreads, CheckParMin} \subseteq Nat
  /\ Errors = {"InvalidLength", "InvalidPointer"} /\ None # "InvalidLength" /\ None # "InvalidPointer"
  /\ None # "Ok"
BY SizesOrdered, HashArguments, NoneIsNothing DEF Errors

LEMMA CallErrorsAre ==
  \A wrong \in BOOLEAN : /\ LengthIf(wrong) = IF wrong THEN "InvalidLength" ELSE None
                         /\ PointerIf(wrong) = IF wrong THEN "InvalidPointer" ELSE None
BY DEF LengthIf, PointerIf

(* Two ranges have a byte in common.                                       *)
Touch(a, aLen, b, bLen) == Bytes(a, aLen) \cap Bytes(b, bLen) # {}

LEMMA TouchIs ==
  ASSUME NEW a \in Nat, NEW aLen \in Nat, NEW b \in Nat, NEW bLen \in Nat
  PROVE  Touch(a, aLen, b, bLen) <=> (aLen > 0 /\ bLen > 0 /\ a < b + bLen /\ b < a + aLen)
<1>1. ASSUME aLen > 0, bLen > 0, a < b + bLen, b < a + aLen
      PROVE  Touch(a, aLen, b, bLen)
  <2>1. CASE a <= b
    <3>1. b \in Bytes(a, aLen) /\ b \in Bytes(b, bLen)
      BY <1>1, <2>1 DEF Bytes
    <3> QED BY <3>1 DEF Touch
  <2>2. CASE b < a
    <3>1. a \in Bytes(a, aLen) /\ a \in Bytes(b, bLen)
      BY <1>1, <2>2 DEF Bytes
    <3> QED BY <3>1 DEF Touch
  <2> QED BY <2>1, <2>2
<1>2. ASSUME Touch(a, aLen, b, bLen)
      PROVE  aLen > 0 /\ bLen > 0 /\ a < b + bLen /\ b < a + aLen
  <2>1. PICK x : x \in Bytes(a, aLen) /\ x \in Bytes(b, bLen)
    BY <1>2 DEF Touch
  <2> QED BY <2>1 DEF Bytes
<1> QED BY <1>1, <1>2

(* What the check of two ranges says when the second one ends in the       *)
(* address space.                                                          *)
LEMMA OverlapErrorIs ==
  ASSUME NEW a \in Nat, NEW aLen \in Nat, NEW b \in Nat, NEW bLen \in Nat, b + bLen <= UsizeMax
  PROVE  OverlapError(a, aLen, b, bLen) =
           IF aLen = 0 \/ bLen = 0 THEN None
           ELSE IF a + aLen > UsizeMax THEN "InvalidLength"
           ELSE IF Touch(a, aLen, b, bLen) THEN "InvalidPointer" ELSE None
<1> DEFINE found == RangesOverlap(a, aLen, b, bLen)
<1>1. OverlapError(a, aLen, b, bLen) = FirstError(<<PointerIf(found = "overlap"), LengthIf(found = "overflow")>>)
  BY DEF OverlapError
<1>2. OverlapError(a, aLen, b, bLen) =
        IF found = "overlap" THEN "InvalidPointer" ELSE IF found = "overflow" THEN "InvalidLength" ELSE None
  <2>1. /\ PointerIf(found = "overlap") = IF found = "overlap" THEN "InvalidPointer" ELSE None
        /\ LengthIf(found = "overflow") = IF found = "overflow" THEN "InvalidLength" ELSE None
    BY CallErrorsAre
  <2> HIDE DEF found
  <2>2. FirstError(<<PointerIf(found = "overlap"), LengthIf(found = "overflow")>>) =
          IF PointerIf(found = "overlap") # None THEN PointerIf(found = "overlap") ELSE LengthIf(found = "overflow")
    BY First2
  <2> QED BY <1>1, <2>1, <2>2, CallSizes
<1>3. found = IF aLen = 0 \/ bLen = 0 THEN "apart"
              ELSE IF a + aLen > UsizeMax THEN "overflow"
              ELSE IF Touch(a, aLen, b, bLen) THEN "overlap" ELSE "apart"
  <2>1. ~(b + bLen > UsizeMax)
    BY CallSizes
  <2>2. aLen > 0 /\ bLen > 0 => (Touch(a, aLen, b, bLen) <=> (a < b + bLen /\ b < a + aLen))
    BY TouchIs
  <2> QED BY <2>1, <2>2 DEF RangesOverlap
<1> HIDE DEF found
<1> QED BY <1>2, <1>3

LEMMA SliceErrorIs ==
  ASSUME NEW a \in Nat, NEW n \in Nat, NEW size \in Nat \ {0}, n * size <= IsizeMax
  PROVE  SliceError(a, n, size, size) =
           IF n = 0 \/ (a # Null /\ a % size = 0) THEN None ELSE "InvalidPointer"
<1>1. SliceOk(a, n, size, size) <=> (n = 0 \/ (a # Null /\ a % size = 0))
  BY DEF SliceOk, FitsSlice
<1> QED BY <1>1, CallErrorsAre DEF SliceError

LEMMA ByteSliceErrorIs ==
  ASSUME NEW a \in Nat, NEW n \in Nat, n <= IsizeMax
  PROVE  SliceError(a, n, 1, 1) = IF n = 0 \/ a # Null THEN None ELSE "InvalidPointer"
<1>1. PICK one \in Nat \ {0} : one = 1
  OBVIOUS
<1>2. n * one = n /\ a % one = 0
  BY <1>1
<1>3. SliceError(a, n, one, one) = IF n = 0 \/ (a # Null /\ a % one = 0) THEN None ELSE "InvalidPointer"
  BY <1>2, SliceErrorIs
<1> QED BY <1>1, <1>2, <1>3

LEMMA First7 ==
  ASSUME NEW a, NEW b, NEW d, NEW e, NEW f, NEW g, NEW h
  PROVE  FirstError(<<a, b, d, e, f, g, h>>) =
           IF a # None THEN a ELSE IF b # None THEN b ELSE IF d # None THEN d
           ELSE IF e # None THEN e ELSE IF f # None THEN f ELSE IF g # None THEN g ELSE h
<1> DEFINE c == <<a, b, d, e, f, g, h>>
<1>1. DOMAIN c = 1 .. 7 /\ c[1] = a /\ c[2] = b /\ c[3] = d /\ c[4] = e /\ c[5] = f /\ c[6] = g /\ c[7] = h
  OBVIOUS
<1>2. /\ 1 .. 7 = {1, 2, 3, 4, 5, 6, 7} /\ 7 \in Nat
      /\ 1 .. 1 - 1 = {} /\ 1 .. 2 - 1 = {1} /\ 1 .. 3 - 1 = {1, 2} /\ 1 .. 4 - 1 = {1, 2, 3}
      /\ 1 .. 5 - 1 = {1, 2, 3, 4} /\ 1 .. 6 - 1 = {1, 2, 3, 4, 5} /\ 1 .. 7 - 1 = {1, 2, 3, 4, 5, 6}
  OBVIOUS
<1> HIDE DEF c
<1>3. /\ (\A i \in 1 .. 7 : c[i] = None) => FirstError(c) = None
      /\ \A i \in 1 .. 7 : (c[i] # None /\ \A j \in 1 .. i - 1 : c[j] = None) => FirstError(c) = c[i]
  <2>1. 7 \in Nat /\ DOMAIN c = 1 .. 7
    BY <1>1
  <2> QED BY ONLY <2>1, FirstIs, Zenon
<1>4. FirstError(c) =
        IF a # None THEN a ELSE IF b # None THEN b ELSE IF d # None THEN d
        ELSE IF e # None THEN e ELSE IF f # None THEN f ELSE IF g # None THEN g ELSE h
  <2>1. a # None => FirstError(c) = a
    BY <1>1, <1>2, <1>3
  <2>2. a = None /\ b # None => FirstError(c) = b
    BY <1>1, <1>2, <1>3
  <2>3. a = None /\ b = None /\ d # None => FirstError(c) = d
    BY <1>1, <1>2, <1>3
  <2>4. a = None /\ b = None /\ d = None /\ e # None => FirstError(c) = e
    BY <1>1, <1>2, <1>3
  <2>5. a = None /\ b = None /\ d = None /\ e = None /\ f # None => FirstError(c) = f
    BY <1>1, <1>2, <1>3
  <2>6. a = None /\ b = None /\ d = None /\ e = None /\ f = None /\ g # None => FirstError(c) = g
    BY <1>1, <1>2, <1>3
  <2>7. a = None /\ b = None /\ d = None /\ e = None /\ f = None /\ g = None => FirstError(c) = h
    <3>1. ASSUME a = None, b = None, d = None, e = None, f = None, g = None
          PROVE  FirstError(c) = h
      <4>1. \A j \in 1 .. 7 - 1 : c[j] = None
        BY <1>1, <1>2, <3>1
      <4>2. CASE h # None
        BY <1>1, <1>2, <1>3, <4>1, <4>2
      <4>3. CASE h = None
        <5>1. \A j \in 1 .. 7 : c[j] = None
          BY <1>1, <1>2, <3>1, <4>3
        <5> QED BY <5>1, <1>3, <4>3
      <4> QED BY <4>2, <4>3
    <3> QED BY <3>1
  <2> QED BY <2>1, <2>2, <2>3, <2>4, <2>5, <2>6, <2>7
<1> QED BY <1>4 DEF c

(* A call that may be made of at least one message.                        *)
MayBeMade(c, m) == c \in HC!Calls /\ c.n > 0 /\ m \in Memories /\ HC!Callable(c, m)

(* HashCalls looks at slices and memory in the same way.                   *)
LEMMA SameSlices ==
  /\ HC!Null = 0 /\ HC!Address = 0 .. UsizeMax
  /\ \A p, l : HC!Bytes(p, l) = Bytes(p, l)
  /\ \A mm, p, l : HC!Content(mm, p, l) = Content(mm, p, l)
  /\ \A mm, a : HC!WordAt(mm, a) = WordAt(mm, a)
BY DEF HC!Null, HC!Address, HC!Bytes, Bytes, HC!Content, Content, HC!WordAt, WordAt

LEMMA CallFields ==
  ASSUME NEW c \in HC!Calls
  PROVE  /\ c.kind \in {"fixed", "var"} /\ c.data \in Nat /\ c.n \in Nat /\ c.lens \in Nat /\ c.out \in Nat
         /\ {c.data, c.n, c.lens, c.out} \subseteq 0 .. UsizeMax
         /\ c.size \in Nat \ {0}
BY CallSizes, SameSlices DEF HC!Calls

(* The output is not empty, and when it is not too long ends in the        *)
(* address space.                                                          *)
LEMMA OutputEnds ==
  ASSUME NEW c, NEW m, MayBeMade(c, m)
  PROVE  /\ HC!OutLen(c) = c.n * c.size /\ HC!OutLen(c) \in Nat \ {0}
         /\ HC!OutLen(c) <= IsizeMax => c.out + HC!OutLen(c) <= UsizeMax
         /\ HC!OutLen(c) <= IsizeMax /\ c.out # Null => Bytes(c.out, HC!OutLen(c)) \subseteq DOMAIN m
<1>1. c.n \in Nat \ {0} /\ c.size \in Nat \ {0} /\ c.out \in Nat
  BY CallFields DEF MayBeMade
<1>2. c.n * c.size \in Nat \ {0}
  BY <1>1
<1>3. ASSUME HC!OutLen(c) <= IsizeMax, c.out # Null
      PROVE  Bytes(c.out, HC!OutLen(c)) \subseteq DOMAIN m
  <2>1. ~(HC!OutLen(c) > IsizeMax)
    BY <1>2, <1>3, CallSizes DEF HC!OutLen
  <2> QED BY <1>3, <2>1, SameSlices DEF MayBeMade, HC!Callable, Null
<1>4. ASSUME HC!OutLen(c) <= IsizeMax
      PROVE  c.out + HC!OutLen(c) <= UsizeMax
  <2> DEFINE len == HC!OutLen(c)
  <2>1. len \in Nat \ {0}
    BY <1>2 DEF HC!OutLen
  <2>2. CASE c.out = Null
    <3>1. len <= UsizeMax
      BY <2>1, <1>4, CallSizes
    <3>2. c.out + len <= UsizeMax
      BY <2>1, <2>2, <3>1 DEF Null
    <3> QED BY <3>2 DEF len
  <2>3. CASE c.out # Null
    <3>1. Bytes(c.out, len) \subseteq 1 .. UsizeMax - 1
      BY <1>3, <1>4, <2>3, CallSizes DEF MayBeMade, Memories
    <3> HIDE DEF len
    <3>2. c.out + len - 1 \in Bytes(c.out, len)
      BY <2>1, <1>1 DEF Bytes
    <3>3. c.out + len - 1 <= UsizeMax - 1
      BY <3>1, <3>2
    <3>4. c.out + len <= UsizeMax
      BY <3>3, <2>1, <1>1, CallSizes
    <3> QED BY <3>4 DEF len
  <2> QED BY <2>2, <2>3
<1> QED BY <1>2, <1>3, <1>4 DEF HC!OutLen

LEMMA MeetsIs ==
  ASSUME NEW c, NEW p, NEW l
  PROVE  HC!Meets(c, p, l) <=> Touch(p, l, c.out, HC!OutLen(c))
BY SameSlices DEF HC!Meets, Touch

LEMMA WrongHas ==
  ASSUME NEW c, NEW m, c.n # 0
  PROVE  /\ "InvalidLength" \in HC!Wrong(c, m) <=> HC!LengthWrong(c, m)
         /\ "InvalidPointer" \in HC!Wrong(c, m) <=> HC!PointerWrong(c, m)
         /\ HC!Wrong(c, m) \subseteq {"InvalidLength", "InvalidPointer"}
         /\ HC!Wrong(c, m) = {} <=> ~HC!LengthWrong(c, m) /\ ~HC!PointerWrong(c, m)
BY DEF HC!Wrong

(* What the checks of a call for messages of one length say.               *)
LEMMA FixedChecks ==
  ASSUME NEW c, NEW m, MayBeMade(c, m), c.kind = "fixed"
  PROVE  /\ FixedError(c) \in HC!Wrong(c, m) \cup {None}
         /\ FixedError(c) = None => HC!Wrong(c, m) = {}
<1> DEFINE in == c.n * c.lens
           out == HC!OutLen(c)
           x == [ptr |-> c.data, len |-> in]
           e1 == LengthIf(~FitsSlice(in, 1) \/ ~FitsSlice(c.n * c.size, 1))
           e2 == OverlapError(c.data, in, c.out, c.n * c.size)
           e3 == SliceError(c.data, in, 1, 1)
           e4 == SliceError(c.out, c.n * c.size, 1, 1)
<1>1. /\ c.data \in Nat /\ c.n \in Nat /\ c.lens \in Nat /\ c.out \in Nat /\ in \in Nat /\ c.n # 0
      /\ out \in Nat \ {0} /\ out = c.n * c.size
  BY CallFields, OutputEnds DEF MayBeMade
<1>2. FixedError(c) = IF e1 # None THEN e1 ELSE IF e2 # None THEN e2 ELSE IF e3 # None THEN e3 ELSE e4
  <2>1. FixedError(c) = FirstError(<<e1, e2, e3, e4>>)
    BY DEF FixedError
  <2> HIDE DEF e1, e2, e3, e4
  <2> QED BY <2>1, First4
<1>3. HC!Inputs(c, m) = {x}
  BY DEF HC!Inputs
<1>4. /\ HC!LengthWrong(c, m) <=> out > IsizeMax \/ HC!TooLong(c.data, in)
      /\ HC!PointerWrong(c, m) <=> c.out = Null \/ (in > 0 /\ (c.data = Null \/ Touch(c.data, in, c.out, out)))
  <2>1. c.kind # "var" /\ x.ptr = c.data /\ x.len = in
    OBVIOUS
  <2> HIDE DEF x, in, out
  <2>2. HC!LengthWrong(c, m) <=> HC!OutLen(c) > IsizeMax \/ HC!TooLong(c.data, in)
    BY <1>3, <2>1 DEF HC!LengthWrong
  <2>3. HC!PointerWrong(c, m) <=> c.out = Null \/ (in > 0 /\ (c.data = Null \/ HC!Meets(c, c.data, in)))
    BY <1>3, <2>1, SameSlices DEF HC!PointerWrong, Null
  <2> QED BY <2>2, <2>3, MeetsIs DEF out
<1>5. HC!TooLong(c.data, in) <=> in > IsizeMax \/ (in > 0 /\ c.data + in > UsizeMax)
  BY DEF HC!TooLong, HC!PastEnd
<1>6. e1 = IF in > IsizeMax \/ out > IsizeMax THEN "InvalidLength" ELSE None
  <2>1. in * 1 = in /\ out * 1 = out
    BY <1>1
  <2>2. (~FitsSlice(in, 1) \/ ~FitsSlice(c.n * c.size, 1)) <=> (in > IsizeMax \/ out > IsizeMax)
    BY <1>1, <2>1, CallSizes DEF FitsSlice
  <2> QED BY <2>2, CallErrorsAre
<1>7. ASSUME in <= IsizeMax, out <= IsizeMax
      PROVE  /\ e2 = IF in = 0 THEN None ELSE IF c.data + in > UsizeMax THEN "InvalidLength"
                     ELSE IF Touch(c.data, in, c.out, out) THEN "InvalidPointer" ELSE None
             /\ e3 = IF in = 0 \/ c.data # Null THEN None ELSE "InvalidPointer"
             /\ e4 = IF c.out # Null THEN None ELSE "InvalidPointer"
  <2>1. c.out + out <= UsizeMax
    BY <1>7, OutputEnds
  <2> HIDE DEF in, out, e1, e2, e3, e4, x
  <2>2. OverlapError(c.data, in, c.out, out) =
          IF in = 0 \/ out = 0 THEN None ELSE IF c.data + in > UsizeMax THEN "InvalidLength"
          ELSE IF Touch(c.data, in, c.out, out) THEN "InvalidPointer" ELSE None
    <3>1. c.data \in Nat /\ in \in Nat /\ c.out \in Nat /\ out \in Nat
      BY <1>1
    <3> QED BY <3>1, <2>1, OverlapErrorIs, Zenon
  <2>3. SliceError(c.data, in, 1, 1) = IF in = 0 \/ c.data # Null THEN None ELSE "InvalidPointer"
    BY <1>1, <1>7, ByteSliceErrorIs
  <2>4. SliceError(c.out, out, 1, 1) = IF out = 0 \/ c.out # Null THEN None ELSE "InvalidPointer"
    BY <1>1, <1>7, ByteSliceErrorIs
  <2> QED BY <1>1, <2>2, <2>3, <2>4 DEF e2, e3, e4
<1>8. /\ "InvalidLength" \in HC!Wrong(c, m) <=> HC!LengthWrong(c, m)
      /\ "InvalidPointer" \in HC!Wrong(c, m) <=> HC!PointerWrong(c, m)
      /\ HC!Wrong(c, m) = {} <=> ~HC!LengthWrong(c, m) /\ ~HC!PointerWrong(c, m)
  BY <1>1, WrongHas
<1>9. None # "InvalidLength" /\ None # "InvalidPointer" /\ IsizeMax \in Nat
  BY CallSizes
<1> HIDE DEF in, out, e1, e2, e3, e4
<1>10. CASE in > IsizeMax \/ out > IsizeMax
  BY <1>2, <1>4, <1>5, <1>6, <1>8, <1>9, <1>10
<1>11. CASE in <= IsizeMax /\ out <= IsizeMax
  <2>1. ~(in > IsizeMax) /\ ~(out > IsizeMax) /\ (in > 0 <=> in # 0)
    BY <1>1, <1>9, <1>11 DEF in
  <2>2. e1 = None
    BY <1>6, <2>1
  <2> QED BY <1>2, <1>4, <1>5, <1>7, <1>8, <1>9, <1>11, <2>1, <2>2
<1> QED BY <1>1, <1>9, <1>10, <1>11 DEF in

(* What is known of a call whose arguments have passed.                    *)
OutputPassed(c) == HC!OutLen(c) <= IsizeMax /\ c.out # Null

TablesPassed(c) ==
  \A t \in HC!Tables(c) :
    /\ ~HC!TooLong(t, HC!TableLen(c)) /\ t # Null /\ t % WordLen = 0
    /\ ~Touch(t, HC!TableLen(c), c.out, HC!OutLen(c))

LEMMA FixedOutput ==
  ASSUME NEW c, NEW m, MayBeMade(c, m), c.kind = "fixed", FixedError(c) = None
  PROVE  OutputPassed(c)
<1>1. HC!Wrong(c, m) = {} /\ c.n # 0
  BY FixedChecks, CallFields DEF MayBeMade
<1>2. ~HC!LengthWrong(c, m) /\ ~HC!PointerWrong(c, m)
  BY <1>1, WrongHas
<1>3. ~(HC!OutLen(c) > IsizeMax) /\ c.out # Null
  BY <1>2, SameSlices DEF HC!LengthWrong, HC!PointerWrong, Null
<1> QED BY <1>3, OutputEnds, CallSizes DEF OutputPassed

(* What the checks of a call for messages of their own lengths say.        *)
LEMMA VarChecks ==
  ASSUME NEW c, NEW m, MayBeMade(c, m), c.kind = "var"
  PROVE  /\ VarError(c) \in HC!Wrong(c, m) \cup {None}
         /\ VarError(c) = None => OutputPassed(c) /\ TablesPassed(c)
<1> DEFINE out == HC!OutLen(c)
           table == HC!TableLen(c)
           e1 == PointerIf(c.data = Null \/ c.lens = Null)
           e2 == LengthIf(~FitsSlice(c.n, WordLen) \/ ~FitsSlice(c.n * c.size, 1))
           e3 == OverlapError(c.data, c.n * WordLen, c.out, c.n * c.size)
           e4 == OverlapError(c.lens, c.n * WordLen, c.out, c.n * c.size)
           e5 == SliceError(c.out, c.n * c.size, 1, 1)
           e6 == SliceError(c.data, c.n, WordLen, WordLen)
           e7 == SliceError(c.lens, c.n, WordLen, WordLen)
           Long(t) == table > IsizeMax \/ t + table > UsizeMax
           Over(t) == Touch(t, table, c.out, out)
           Even(t) == t % WordLen = 0
<1>1. /\ c.data \in Nat /\ c.n \in Nat \ {0} /\ c.lens \in Nat /\ c.out \in Nat
      /\ out \in Nat \ {0} /\ out = c.n * c.size /\ WordLen \in Nat \ {0}
  BY CallFields, OutputEnds, CallSizes DEF MayBeMade
<1>2. table \in Nat \ {0} /\ table = c.n * WordLen
  BY <1>1 DEF HC!TableLen
<1>3. /\ VarError(c) = IF e1 # None THEN e1 ELSE IF e2 # None THEN e2 ELSE IF e3 # None THEN e3
                       ELSE IF e4 # None THEN e4 ELSE IF e5 # None THEN e5 ELSE IF e6 # None THEN e6 ELSE e7
  <2>1. VarError(c) = FirstError(<<e1, e2, e3, e4, e5, e6, e7>>)
    BY DEF VarError
  <2> HIDE DEF e1, e2, e3, e4, e5, e6, e7
  <2> QED BY <2>1, First7
<1>4. \A t \in {c.data, c.lens} : HC!TooLong(t, table) <=> Long(t)
  BY <1>1, <1>2 DEF HC!TooLong, HC!PastEnd
<1>5. /\ out > IsizeMax \/ Long(c.data) \/ Long(c.lens) => HC!LengthWrong(c, m)
      /\ (c.out = Null \/ c.data = Null \/ c.lens = Null \/ ~Even(c.data) \/ ~Even(c.lens)
         \/ Over(c.data) \/ Over(c.lens)) => HC!PointerWrong(c, m)
  <2>1. HC!Tables(c) = {c.data, c.lens}
    BY DEF HC!Tables
  <2>2. \A t \in {c.data, c.lens} : HC!Meets(c, t, table) <=> Over(t)
    BY MeetsIs
  <2> HIDE DEF Long, Over
  <2>3. out > IsizeMax \/ Long(c.data) \/ Long(c.lens) => HC!LengthWrong(c, m)
    BY <1>4, <2>1 DEF HC!LengthWrong
  <2> QED BY <2>1, <2>2, <2>3, SameSlices DEF HC!PointerWrong, Null
<1>6. /\ "InvalidLength" \in HC!Wrong(c, m) <=> HC!LengthWrong(c, m)
      /\ "InvalidPointer" \in HC!Wrong(c, m) <=> HC!PointerWrong(c, m)
  BY <1>1, WrongHas
<1>7. None # "InvalidLength" /\ None # "InvalidPointer" /\ IsizeMax \in Nat /\ UsizeMax \in Nat
  BY CallSizes
<1>8. e1 = IF c.data = Null \/ c.lens = Null THEN "InvalidPointer" ELSE None
  BY CallErrorsAre
<1>9. e2 = IF table > IsizeMax \/ out > IsizeMax THEN "InvalidLength" ELSE None
  <2>1. out * 1 = out
    BY <1>1
  <2>2. (~FitsSlice(c.n, WordLen) \/ ~FitsSlice(c.n * c.size, 1)) <=> (table > IsizeMax \/ out > IsizeMax)
    BY <1>1, <1>2, <1>7, <2>1 DEF FitsSlice
  <2> QED BY <2>2, CallErrorsAre
<1>10. ASSUME table <= IsizeMax, out <= IsizeMax
       PROVE  /\ e3 = IF c.data + table > UsizeMax THEN "InvalidLength"
                      ELSE IF Over(c.data) THEN "InvalidPointer" ELSE None
              /\ e4 = IF c.lens + table > UsizeMax THEN "InvalidLength"
                      ELSE IF Over(c.lens) THEN "InvalidPointer" ELSE None
              /\ e5 = IF c.out # Null THEN None ELSE "InvalidPointer"
              /\ e6 = IF c.data # Null /\ Even(c.data) THEN None ELSE "InvalidPointer"
              /\ e7 = IF c.lens # Null /\ Even(c.lens) THEN None ELSE "InvalidPointer"
  <2>1. c.out + out <= UsizeMax
    BY <1>10, OutputEnds
  <2>2. \A t \in Nat : OverlapError(t, table, c.out, out) =
          IF table = 0 \/ out = 0 THEN None ELSE IF t + table > UsizeMax THEN "InvalidLength"
          ELSE IF Touch(t, table, c.out, out) THEN "InvalidPointer" ELSE None
    <3>1. table \in Nat /\ out \in Nat /\ c.out \in Nat
      BY <1>1, <1>2
    <3> HIDE DEF table, out, e1, e2, e3, e4, e5, e6, e7
    <3> QED BY <3>1, <2>1, OverlapErrorIs, Zenon
  <2>3. SliceError(c.out, out, 1, 1) = IF out = 0 \/ c.out # Null THEN None ELSE "InvalidPointer"
    <3> HIDE DEF table, out, e1, e2, e3, e4, e5, e6, e7
    <3> QED BY <1>1, <1>10, ByteSliceErrorIs
  <2>4. \A t \in Nat : SliceError(t, c.n, WordLen, WordLen) =
          IF c.n = 0 \/ (t # Null /\ t % WordLen = 0) THEN None ELSE "InvalidPointer"
    <3>1. c.n * WordLen <= IsizeMax /\ c.n \in Nat
      BY <1>1, <1>2, <1>10
    <3> HIDE DEF table, out, e1, e2, e3, e4, e5, e6, e7
    <3> QED BY <1>1, <3>1, SliceErrorIs, Zenon
  <2> HIDE DEF table, out
  <2>5. /\ \A t \in {c.data, c.lens} : OverlapError(t, c.n * WordLen, c.out, c.n * c.size) =
             IF t + table > UsizeMax THEN "InvalidLength" ELSE IF Over(t) THEN "InvalidPointer" ELSE None
        /\ \A t \in {c.data, c.lens} : SliceError(t, c.n, WordLen, WordLen) =
             IF t # Null /\ Even(t) THEN None ELSE "InvalidPointer"
        /\ SliceError(c.out, c.n * c.size, 1, 1) = IF c.out # Null THEN None ELSE "InvalidPointer"
    BY <1>1, <1>2, <2>2, <2>3, <2>4
  <2> QED BY <2>5 DEF e3, e4, e5, e6, e7
<1>11. out <= IsizeMax <=> ~(out > IsizeMax)
  BY <1>1, <1>7
<1>12. table <= IsizeMax <=> ~(table > IsizeMax)
  BY <1>2, <1>7
<1>13. ASSUME VarError(c) = None
       PROVE  OutputPassed(c) /\ TablesPassed(c)
  <2> HIDE DEF e1, e2, e3, e4, e5, e6, e7, table, out
  <2>1. e1 = None /\ e2 = None
    BY <1>3, <1>13
  <2>2. ~(table > IsizeMax) /\ ~(out > IsizeMax) /\ c.data # Null /\ c.lens # Null
    BY <1>7, <1>8, <1>9, <2>1
  <2>3. e3 = None /\ e4 = None /\ e5 = None /\ e6 = None /\ e7 = None
    BY <1>3, <1>13
  <2>4. /\ ~(c.data + table > UsizeMax) /\ ~(c.lens + table > UsizeMax) /\ ~Over(c.data) /\ ~Over(c.lens)
        /\ c.out # Null /\ Even(c.data) /\ Even(c.lens)
    BY <1>7, <1>10, <1>11, <1>12, <2>2, <2>3
  <2>5. OutputPassed(c)
    BY <1>11, <2>2, <2>4 DEF OutputPassed, out
  <2>6. \A t \in {c.data, c.lens} : ~Long(t) /\ t # Null /\ Even(t) /\ ~Over(t)
    BY <2>2, <2>4
  <2>7. HC!Tables(c) = {c.data, c.lens}
    BY DEF HC!Tables
  <2> HIDE DEF Long
  <2> QED BY <1>4, <2>5, <2>6, <2>7 DEF TablesPassed, table, out
<1>14. VarError(c) \in HC!Wrong(c, m) \cup {None}
  <2> DEFINE W == HC!Wrong(c, m) \cup {None}
  <2>1. /\ out > IsizeMax \/ Long(c.data) \/ Long(c.lens) => "InvalidLength" \in W
        /\ (c.out = Null \/ c.data = Null \/ c.lens = Null \/ ~Even(c.data) \/ ~Even(c.lens)
           \/ Over(c.data) \/ Over(c.lens)) => "InvalidPointer" \in W
        /\ None \in W
    <3> HIDE DEF out, table, Long, Over, Even
    <3> QED BY <1>5, <1>6
  <2>2. /\ table > IsizeMax => "InvalidLength" \in W
        /\ c.data + table > UsizeMax => "InvalidLength" \in W
        /\ c.lens + table > UsizeMax => "InvalidLength" \in W
    <3>1. /\ table > IsizeMax => Long(c.data)
          /\ c.data + table > UsizeMax => Long(c.data)
          /\ c.lens + table > UsizeMax => Long(c.lens)
      OBVIOUS
    <3> HIDE DEF out, table, Long, Over, Even, W
    <3> QED BY <2>1, <3>1
  <2> HIDE DEF e1, e2, e3, e4, e5, e6, e7, table, out, W, Over, Even, Long
  <2>5. e1 \in W
    BY <1>8, <2>1, Zenon
  <2>6. e2 \in W
    BY <1>9, <2>1, <2>2, Zenon
  <2>3. CASE e1 # None \/ e2 # None
    <3>1. VarError(c) = e1 \/ VarError(c) = e2
      BY <1>3, <2>3
    <3> QED BY <2>5, <2>6, <3>1 DEF W
  <2>4. CASE e1 = None /\ e2 = None
    <3>1. ~(table > IsizeMax) /\ ~(out > IsizeMax)
      BY <1>7, <1>9, <2>4
    <3>2. VarError(c) = IF e3 # None THEN e3 ELSE IF e4 # None THEN e4 ELSE IF e5 # None THEN e5
                        ELSE IF e6 # None THEN e6 ELSE e7
      BY <1>3, <2>4
    <3>3. table <= IsizeMax /\ out <= IsizeMax
      BY <1>11, <1>12, <3>1
    <3>4. e3 \in W
      BY <1>10, <2>1, <2>2, <3>3, Zenon
    <3>5. e4 \in W
      BY <1>10, <2>1, <2>2, <3>3, Zenon
    <3>6. e5 \in W
      BY <1>10, <2>1, <3>3, Zenon
    <3>7. e6 \in W
      BY <1>10, <2>1, <3>3, Zenon
    <3>8. e7 \in W
      BY <1>10, <2>1, <3>3, Zenon
    <3>9. VarError(c) \in W
      BY <3>2, <3>4, <3>5, <3>6, <3>7, <3>8, Zenon
    <3> QED BY <3>9 DEF W
  <2> QED BY <2>3, <2>4
<1> QED BY <1>13, <1>14

(* What is wrong then is wrong with a message.                             *)
LEMMA WrongMessages ==
  ASSUME NEW c, NEW m, MayBeMade(c, m), c.kind = "var", OutputPassed(c), TablesPassed(c)
  PROVE  \A e : e \in HC!Wrong(c, m) <=> \E i \in HC!Messages(c) : MessageWrong(c, HC!Place(c, m, i), e)
<1>1. c.n # 0 /\ ~(HC!OutLen(c) > IsizeMax) /\ c.out # Null
  BY CallFields, OutputEnds, CallSizes DEF OutputPassed, MayBeMade
<1>2. \A t \in HC!Tables(c) : ~HC!TooLong(t, HC!TableLen(c)) /\ t # Null /\ t % WordLen = 0
                              /\ ~HC!Meets(c, t, HC!TableLen(c))
  BY MeetsIs DEF TablesPassed
<1>3. HC!TablesRight(c)
  BY <1>2, SameSlices DEF HC!TablesRight, Null
<1>4. \A x : x \in HC!Inputs(c, m) <=> \E i \in HC!Messages(c) : x = HC!Place(c, m, i)
  BY <1>3 DEF HC!Inputs
<1>5. HC!LengthWrong(c, m) <=> \E i \in HC!Messages(c) : HC!TooLong(HC!Place(c, m, i).ptr, HC!Place(c, m, i).len)
  BY <1>1, <1>2, <1>4 DEF HC!LengthWrong
<1>6. HC!PointerWrong(c, m) <=>
        \E i \in HC!Messages(c) :
          LET x == HC!Place(c, m, i) IN x.len > 0 /\ (x.ptr = Null \/ HC!Meets(c, x.ptr, x.len))
  BY <1>1, <1>2, <1>4, SameSlices DEF HC!PointerWrong, Null
<1>7. \A e : e \in HC!Wrong(c, m) <=> \/ e = "InvalidLength" /\ HC!LengthWrong(c, m)
                                      \/ e = "InvalidPointer" /\ HC!PointerWrong(c, m)
  BY <1>1 DEF HC!Wrong
<1> QED BY <1>5, <1>6, <1>7 DEF MessageWrong

(* The checks of a message find what is wrong with it.                     *)
LEMMA MessageChecks ==
  ASSUME NEW c, NEW m, MayBeMade(c, m), OutputPassed(c), NEW x \in [ptr : Nat, len : Nat]
  PROVE  /\ MessageError(c, x) \in Errors \cup {None}
         /\ MessageError(c, x) # None => MessageWrong(c, x, MessageError(c, x))
         /\ MessageError(c, x) = None => \A e : ~MessageWrong(c, x, e)
<1> DEFINE out == HC!OutLen(c)
           p == x.ptr
           l == x.len
           e1 == LengthIf(~FitsSlice(l, 1))
           e2 == OverlapError(p, l, c.out, c.n * c.size)
           e3 == SliceError(p, l, 1, 1)
           over == Touch(p, l, c.out, out)
<1>1. /\ p \in Nat /\ l \in Nat /\ out \in Nat \ {0} /\ out = c.n * c.size /\ c.out \in Nat
      /\ c.out + out <= UsizeMax
  BY CallFields, OutputEnds DEF MayBeMade, OutputPassed
<1>2. MessageError(c, x) = IF e1 # None THEN e1 ELSE IF e2 # None THEN e2 ELSE e3
  <2>1. MessageError(c, x) = FirstError(<<e1, e2, e3>>)
    BY DEF MessageError
  <2> HIDE DEF e1, e2, e3
  <2> QED BY <2>1, First3
<1>3. /\ None # "InvalidLength" /\ None # "InvalidPointer" /\ IsizeMax \in Nat /\ UsizeMax \in Nat
      /\ Errors = {"InvalidLength", "InvalidPointer"}
  BY CallSizes
<1>4. e1 = IF l > IsizeMax THEN "InvalidLength" ELSE None
  <2>1. ~FitsSlice(l, 1) <=> l > IsizeMax
    <3>1. l * 1 = l
      BY <1>1
    <3> QED BY <1>1, <1>3, <3>1 DEF FitsSlice
  <2> QED BY <2>1, CallErrorsAre
<1>5. e2 = IF l = 0 THEN None ELSE IF p + l > UsizeMax THEN "InvalidLength"
           ELSE IF over THEN "InvalidPointer" ELSE None
  <2>1. out \in Nat /\ out # 0
    BY <1>1
  <2> HIDE DEF out, e1, e3, p, l
  <2>2. OverlapError(p, l, c.out, out) =
          IF l = 0 \/ out = 0 THEN None ELSE IF p + l > UsizeMax THEN "InvalidLength"
          ELSE IF Touch(p, l, c.out, out) THEN "InvalidPointer" ELSE None
    <3> HIDE DEF e2, over
    <3>1. p \in Nat /\ l \in Nat /\ c.out \in Nat /\ c.out + out <= UsizeMax
      BY <1>1
    <3> QED BY ONLY <3>1, <2>1, OverlapErrorIs, ZenonT(60)
  <2> QED BY <1>1, <2>1, <2>2
<1>6. ASSUME ~(l > IsizeMax)
      PROVE  e3 = IF l = 0 \/ p # Null THEN None ELSE "InvalidPointer"
  <2>1. l <= IsizeMax
    BY <1>1, <1>3, <1>6
  <2> HIDE DEF out, e1, e2, p, l
  <2> QED BY <1>1, <2>1, ByteSliceErrorIs
<1>7. \A e : MessageWrong(c, x, e) <=>
        \/ e = "InvalidLength" /\ (l > IsizeMax \/ (l # 0 /\ p + l > UsizeMax))
        \/ e = "InvalidPointer" /\ l # 0 /\ (p = Null \/ over)
  <2>1. HC!TooLong(p, l) <=> l > IsizeMax \/ (l # 0 /\ p + l > UsizeMax)
    BY <1>1 DEF HC!TooLong, HC!PastEnd
  <2>2. l > 0 <=> l # 0
    BY <1>1
  <2>3. HC!Meets(c, p, l) <=> over
    BY MeetsIs
  <2> HIDE DEF over, out
  <2> QED BY <2>1, <2>2, <2>3 DEF MessageWrong
<1> HIDE DEF out, p, l, e1, e2, e3, over
<1>8. CASE l > IsizeMax
  BY <1>2, <1>3, <1>4, <1>7, <1>8
<1>9. CASE ~(l > IsizeMax)
  <2>1. e1 = None
    BY <1>4, <1>9
  <2>2. MessageError(c, x) = IF e2 # None THEN e2 ELSE e3
    BY <1>2, <2>1
  <2>3. e3 = IF l = 0 \/ p # Null THEN None ELSE "InvalidPointer"
    BY <1>6, <1>9
  <2> QED BY <1>3, <1>5, <1>7, <1>9, <2>2, <2>3
<1> QED BY <1>8, <1>9

(* The pointer or length that bytes make.                                  *)
IsWord(w, m, a) ==
  /\ w \in [0 .. WordLen -> Nat] /\ w[0] = 0
  /\ \A k \in 1 .. WordLen : w[k] = ByteMod * w[k-1] + m[a + WordLen - k]

LEMMA WordIs ==
  ASSUME NEW m, NEW a \in Nat, \A k \in 1 .. WordLen : m[a + WordLen - k] \in Nat
  PROVE  \E w : IsWord(w, m, a) /\ WordAt(m, a) = w[WordLen]
<1> DEFINE step == [x \in Nat \X (1 .. WordLen) |-> ByteMod * x[1] + m[a + WordLen - x[2]]]
           F(w) == [k \in 0 .. WordLen |-> IF k = 0 THEN 0 ELSE ByteMod * w[k-1] + m[a + WordLen - k]]
           W == CHOOSE w : w = F(w)
<1>1. WordLen \in Nat /\ ByteMod \in Nat /\ 0 \in Nat
  BY CallSizes
<1>2. /\ IsStep(step, Nat, WordLen)
      /\ \A y \in Nat, k \in 1 .. WordLen : step[<<y, k>>] = ByteMod * y + m[a + WordLen - k]
  <2>1. \A x \in Nat \X (1 .. WordLen) : ByteMod * x[1] + m[a + WordLen - x[2]] \in Nat
    <3> TAKE x \in Nat \X (1 .. WordLen)
    <3>1. x[1] \in Nat /\ x[2] \in 1 .. WordLen
      OBVIOUS
    <3>2. m[a + WordLen - x[2]] \in Nat
      BY <3>1
    <3> QED BY <1>1, <3>1, <3>2
  <2>2. \A y \in Nat, k \in 1 .. WordLen : <<y, k>> \in Nat \X (1 .. WordLen) /\ <<y, k>>[1] = y /\ <<y, k>>[2] = k
    OBVIOUS
  <2> QED BY <2>1, <2>2 DEF IsStep
<1> HIDE DEF step
<1>3. PICK g : IsLoop(g, Nat, 0, WordLen, step)
  BY <1>1, <1>2, LoopExists
<1>4. IsWord(g, m, a)
  <2>1. /\ g \in [0 .. WordLen -> Nat] /\ g[0] = 0
        /\ \A k \in 1 .. WordLen : g[k] = step[<<g[k-1], k>>]
    BY <1>3 DEF IsLoop
  <2>2. \A k \in 1 .. WordLen : g[k-1] \in Nat
    BY <1>1, <2>1
  <2> QED BY <1>2, <2>1, <2>2 DEF IsWord
<1>5. g = F(g)
  <2>1. g \in [0 .. WordLen -> Nat] /\ g[0] = 0
        /\ \A k \in 1 .. WordLen : g[k] = ByteMod * g[k-1] + m[a + WordLen - k]
    BY <1>4 DEF IsWord
  <2>2. \A k \in 0 .. WordLen : k # 0 => k \in 1 .. WordLen
    BY <1>1
  <2>3. \A k \in 0 .. WordLen : g[k] = F(g)[k]
    BY <2>1, <2>2
  <2>4. DOMAIN g = 0 .. WordLen /\ g = [k \in DOMAIN g |-> g[k]]
    BY <2>1
  <2> QED BY <2>3, <2>4
<1>6. W = F(W)
  <2> HIDE DEF F
  <2> QED BY <1>5
<1>7. WordAt(m, a) = W[WordLen]
  BY DEF WordAt
<1>8. /\ W[0] = 0
      /\ \A k \in 1 .. WordLen : W[k] = ByteMod * W[k-1] + m[a + WordLen - k]
  <2>1. 0 \in 0 .. WordLen /\ \A k \in 1 .. WordLen : k \in 0 .. WordLen /\ k # 0
    BY <1>1
  <2>2. F(W)[0] = 0 /\ \A k \in 1 .. WordLen : F(W)[k] = ByteMod * W[k-1] + m[a + WordLen - k]
    BY <2>1
  <2> HIDE DEF F, W
  <2> QED BY <1>6, <2>2
<1>9. W[WordLen] = g[WordLen]
  <2> HIDE DEF F, W
  <2>1. g[0] = 0 /\ \A k \in 1 .. WordLen : g[k] = ByteMod * g[k-1] + m[a + WordLen - k]
    BY <1>4 DEF IsWord
  <2>2. W[0] = g[0]
    BY <1>8, <2>1
  <2>3. \A j \in 1 .. WordLen : W[j-1] = g[j-1] => W[j] = g[j]
    BY <1>8, <2>1
  <2>4. \A j \in 0 .. WordLen : W[j] = g[j]
    BY ONLY <1>1, <2>2, <2>3, LoopsAgree, ZenonT(120)
  <2> QED BY <1>1, <2>4
<1> QED BY <1>4, <1>7, <1>9

(* A word depends on its own bytes only.                                   *)
LEMMA WordKept ==
  ASSUME NEW m, NEW mm, NEW a \in Nat,
         \A k \in 1 .. WordLen : m[a + WordLen - k] \in Nat /\ mm[a + WordLen - k] = m[a + WordLen - k]
  PROVE  WordAt(mm, a) = WordAt(m, a) /\ WordAt(m, a) \in Nat
<1>1. PICK w : IsWord(w, m, a) /\ WordAt(m, a) = w[WordLen]
  BY WordIs
<1>2. PICK v : IsWord(v, mm, a) /\ WordAt(mm, a) = v[WordLen]
  <2>1. \A k \in 1 .. WordLen : mm[a + WordLen - k] \in Nat
    OBVIOUS
  <2> QED BY <2>1, WordIs
<1>3. WordLen \in Nat
  BY CallSizes
<1>4. v[0] = w[0]
  BY <1>1, <1>2 DEF IsWord
<1>7. \A j \in 1 .. WordLen : v[j-1] = w[j-1] => v[j] = w[j]
  BY <1>1, <1>2 DEF IsWord
<1>5. \A j \in 0 .. WordLen : v[j] = w[j]
  BY ONLY <1>3, <1>4, <1>7, LoopsAgree, ZenonT(60)
<1>6. WordLen \in 0 .. WordLen /\ w[WordLen] \in Nat
  BY <1>1, <1>3 DEF IsWord
<1> QED BY <1>1, <1>2, <1>5, <1>6

(* Memory that has changed in the output of a call only.                   *)
Outside(c, m, mm) ==
  \A a \in DOMAIN m : a \notin Bytes(c.out, HC!OutLen(c)) => mm[a] = m[a]

(* The tables of a call that has passed lie in the memory, beside the      *)
(* output.                                                                 *)
LEMMA TableBytes ==
  ASSUME NEW c, NEW m, MayBeMade(c, m), c.kind = "var", TablesPassed(c),
         NEW t \in HC!Tables(c), NEW i \in HC!Messages(c), NEW k \in 1 .. WordLen
  PROVE  /\ t + i * WordLen \in Nat
         /\ t + i * WordLen + WordLen - k \in DOMAIN m
         /\ t + i * WordLen + WordLen - k \notin Bytes(c.out, HC!OutLen(c))
<1> DEFINE a == t + i * WordLen + WordLen - k
           table == HC!TableLen(c)
<1>1. c.n \in Nat \ {0} /\ t \in Nat /\ WordLen \in Nat \ {0} /\ i \in 0 .. c.n - 1
  <2>1. HC!Tables(c) = {c.data, c.lens} /\ HC!Messages(c) = 0 .. c.n - 1
    BY DEF HC!Tables, HC!Messages
  <2> QED BY <2>1, CallFields, CallSizes DEF MayBeMade
<1>2. table = c.n * WordLen /\ table \in Nat \ {0}
  BY <1>1 DEF HC!TableLen
<1>3. t + i * WordLen \in Nat /\ a \in Bytes(t, table)
  <2>1. PICK d \in Nat : c.n = i + 1 + d
    <3>1. c.n - i - 1 \in Nat /\ c.n = i + 1 + (c.n - i - 1)
      BY <1>1
    <3> QED BY <3>1
  <2>2. i \in Nat /\ i * WordLen \in Nat /\ d * WordLen \in Nat
    BY <1>1
  <2>3. c.n * WordLen = i * WordLen + WordLen + d * WordLen
    BY <1>1, <2>1, <2>2
  <2> QED BY <1>1, <1>2, <2>2, <2>3 DEF Bytes
<1>4. /\ ~HC!TooLong(t, table) /\ t # Null /\ ~Touch(t, table, c.out, HC!OutLen(c))
  BY DEF TablesPassed
<1>5. Bytes(t, table) \subseteq DOMAIN m
  <2>1. HC!There(m, t, table)
    BY CallFields DEF MayBeMade, HC!Callable
  <2> QED BY <1>2, <1>4, <2>1, SameSlices DEF HC!There, Null
<1> HIDE DEF a, table
<1>6. a \in DOMAIN m /\ a \notin Bytes(c.out, HC!OutLen(c))
  BY <1>3, <1>4, <1>5 DEF Touch
<1> QED BY <1>3, <1>6 DEF a

(* Where a message lies is a matter of the memory at the call.             *)
LEMMA PlaceKept ==
  ASSUME NEW c, NEW m, MayBeMade(c, m), c.kind = "var" => TablesPassed(c),
         NEW mm, Outside(c, m, mm), NEW i \in HC!Messages(c)
  PROVE  /\ HC!Place(c, mm, i) = HC!Place(c, m, i)
         /\ HC!Place(c, m, i) \in [ptr : Nat, len : Nat]
<1>1. CASE c.kind = "fixed"
  <2>1. HC!Place(c, mm, i) = [ptr |-> c.data + i * c.lens, len |-> c.lens]
        /\ HC!Place(c, m, i) = [ptr |-> c.data + i * c.lens, len |-> c.lens]
    BY <1>1 DEF HC!Place
  <2>2. c.data \in Nat /\ c.lens \in Nat /\ i \in Nat
    BY CallFields DEF MayBeMade, HC!Messages
  <2>3. c.data + i * c.lens \in Nat
    BY <2>2
  <2> QED BY <2>1, <2>2, <2>3
<1>2. CASE c.kind = "var"
  <2>1. \A t \in HC!Tables(c) : /\ WordAt(mm, t + i * WordLen) = WordAt(m, t + i * WordLen)
                                /\ WordAt(m, t + i * WordLen) \in Nat
    <3> TAKE t \in HC!Tables(c)
    <3> DEFINE a == t + i * WordLen
    <3>1. TablesPassed(c) /\ WordLen \in Nat \ {0}
      BY <1>2, CallSizes
    <3>2. a \in Nat
      <4>1. 1 \in 1 .. WordLen
        BY <3>1
      <4> QED BY <1>2, <3>1, <4>1, TableBytes
    <3>3. \A k \in 1 .. WordLen : /\ a + WordLen - k \in DOMAIN m
                                  /\ a + WordLen - k \notin Bytes(c.out, HC!OutLen(c))
      BY <1>2, <3>1, TableBytes
    <3> HIDE DEF a
    <3>4. \A b \in DOMAIN m : m[b] \in Nat
      BY CallSizes DEF MayBeMade, Memories
    <3>5. \A k \in 1 .. WordLen : m[a + WordLen - k] \in Nat /\ mm[a + WordLen - k] = m[a + WordLen - k]
      BY <3>3, <3>4 DEF Outside
    <3>6. WordAt(mm, a) = WordAt(m, a) /\ WordAt(m, a) \in Nat
      BY ONLY <3>2, <3>5, WordKept
    <3> QED BY <3>6 DEF a
  <2>2. c.data \in HC!Tables(c) /\ c.lens \in HC!Tables(c)
    BY DEF HC!Tables
  <2>3. \A q : HC!Place(c, q, i) = [ptr |-> WordAt(q, c.data + i * WordLen), len |-> WordAt(q, c.lens + i * WordLen)]
    BY <1>2, SameSlices DEF HC!Place
  <2> QED BY <2>1, <2>2, <2>3
<1>3. c.kind \in {"fixed", "var"}
  BY CallFields DEF MayBeMade
<1> QED BY <1>1, <1>2, <1>3

LEMMA PlaceIn ==
  ASSUME NEW c, NEW m, MayBeMade(c, m), c.kind = "var" => TablesPassed(c), NEW i \in HC!Messages(c)
  PROVE  HC!Place(c, m, i) \in [ptr : Nat, len : Nat]
<1>1. Outside(c, m, m)
  BY DEF Outside
<1> QED BY <1>1, PlaceKept

(* The bytes of the messages of a call with nothing wrong are there, and   *)
(* beside the output.                                                      *)
LEMMA MessageBytes ==
  ASSUME NEW c, NEW m, MayBeMade(c, m), OutputPassed(c), c.kind = "var" => TablesPassed(c),
         HC!Wrong(c, m) = {}, NEW i \in HC!Messages(c), NEW x, x = HC!Place(c, m, i)
  PROVE  \A a \in Bytes(x.ptr, x.len) : a \in DOMAIN m /\ a \notin Bytes(c.out, HC!OutLen(c))
<1>1. x \in [ptr : Nat, len : Nat] /\ x.ptr \in Nat /\ x.len \in Nat
  BY PlaceIn
<1>2. PICK y \in HC!Inputs(c, m) : y.ptr \in Nat /\ y.len \in Nat /\ Bytes(x.ptr, x.len) \subseteq Bytes(y.ptr, y.len)
  <2>1. CASE c.kind = "fixed"
    <3> DEFINE y == [ptr |-> c.data, len |-> c.n * c.lens]
    <3>1. c.data \in Nat /\ c.lens \in Nat /\ c.n \in Nat /\ i \in 0 .. c.n - 1
      BY CallFields DEF MayBeMade, HC!Messages
    <3>2. x.ptr = c.data + i * c.lens /\ x.len = c.lens
      BY <2>1 DEF HC!Place
    <3>3. y \in HC!Inputs(c, m)
      BY <2>1 DEF HC!Inputs
    <3>4. PICK d \in Nat : c.n = i + 1 + d
      <4>1. c.n - i - 1 \in Nat /\ c.n = i + 1 + (c.n - i - 1)
        BY <3>1
      <4> QED BY <4>1
    <3>5. i * c.lens \in Nat /\ d * c.lens \in Nat /\ c.n * c.lens = i * c.lens + c.lens + d * c.lens
      BY <3>1, <3>4
    <3>6. Bytes(x.ptr, x.len) \subseteq Bytes(c.data, c.n * c.lens)
      BY <3>1, <3>2, <3>5 DEF Bytes
    <3> QED BY <3>1, <3>3, <3>5, <3>6
  <2>2. CASE c.kind = "var"
    <3>1. HC!TablesRight(c)
      BY <2>2, SameSlices DEF HC!TablesRight, TablesPassed, Null
    <3>2. x \in HC!Inputs(c, m)
      BY <2>2, <3>1 DEF HC!Inputs
    <3> QED BY <1>1, <3>2
  <2>3. c.kind \in {"fixed", "var"}
    BY CallFields DEF MayBeMade
  <2> QED BY <2>1, <2>2, <2>3
<1>3. CASE y.len = 0
  <2>1. Bytes(y.ptr, y.len) = {}
    BY <1>2, <1>3 DEF Bytes
  <2> QED BY <1>2, <2>1
<1>4. CASE y.len > 0
  <2>1. ~HC!LengthWrong(c, m) /\ ~HC!PointerWrong(c, m)
    <3>1. c.n # 0
      BY CallFields DEF MayBeMade
    <3> QED BY <3>1, WrongHas
  <2>2. ~HC!TooLong(y.ptr, y.len)
    BY <1>2, <2>1 DEF HC!LengthWrong
  <2>3. y.ptr # Null /\ ~HC!Meets(c, y.ptr, y.len)
    BY <1>2, <1>4, <2>1, SameSlices DEF HC!PointerWrong, Null
  <2>4. Bytes(y.ptr, y.len) \subseteq DOMAIN m
    <3>1. HC!There(m, y.ptr, y.len)
      BY <1>2 DEF MayBeMade, HC!Callable
    <3> QED BY <1>4, <2>2, <2>3, <3>1, SameSlices DEF HC!There, Null
  <2>5. \A a \in Bytes(y.ptr, y.len) : a \notin Bytes(c.out, HC!OutLen(c))
    BY <2>3, MeetsIs DEF Touch
  <2> QED BY <1>2, <2>4, <2>5
<1> QED BY <1>2, <1>3, <1>4

LEMMA NumbersFrom1 ==
  ASSUME NEW S, NEW n \in Nat, NEW s \in [1 .. n -> S]
  PROVE  s \in Seq(S)
OBVIOUS

(* A message is read as it was at the call.                                *)
LEMMA ContentKept ==
  ASSUME NEW c, NEW m, MayBeMade(c, m), OutputPassed(c), c.kind = "var" => TablesPassed(c),
         HC!Wrong(c, m) = {}, NEW mm, Outside(c, m, mm), NEW i \in HC!Messages(c),
         NEW x, x = HC!Place(c, m, i)
  PROVE  /\ Content(mm, x.ptr, x.len) = Content(m, x.ptr, x.len)
         /\ Content(m, x.ptr, x.len) \in Seq(0 .. ByteMod - 1)
<1>1. x.ptr \in Nat /\ x.len \in Nat
  BY PlaceIn
<1>2. \A a \in Bytes(x.ptr, x.len) : a \in DOMAIN m /\ a \notin Bytes(c.out, HC!OutLen(c))
  BY MessageBytes
<1>3. \A k \in 1 .. x.len : x.ptr + k - 1 \in Bytes(x.ptr, x.len)
  BY <1>1 DEF Bytes
<1>4. \A a \in DOMAIN m : m[a] \in 0 .. ByteMod - 1
  BY DEF MayBeMade, Memories
<1>5. \A k \in 1 .. x.len : /\ mm[x.ptr + k - 1] = m[x.ptr + k - 1]
                            /\ m[x.ptr + k - 1] \in 0 .. ByteMod - 1
  BY <1>2, <1>3, <1>4 DEF Outside
<1>6. Content(mm, x.ptr, x.len) = Content(m, x.ptr, x.len)
  BY <1>5 DEF Content
<1>7. Content(m, x.ptr, x.len) \in [1 .. x.len -> 0 .. ByteMod - 1]
  BY <1>5 DEF Content
<1>8. Content(m, x.ptr, x.len) \in Seq(0 .. ByteMod - 1)
  BY <1>1, <1>7, NumbersFrom1
<1> QED BY <1>6, <1>8

-----------------------------------------------------------------------------
(* The hash functions: the table by parts.                                 *)

LEMMA CeilDivIs ==
  ASSUME NEW n \in Nat \ {0}, NEW d \in Nat \ {0}, NEW q, q = CeilDiv(n, d)
  PROVE  q \in Nat \ {0} /\ (q - 1) * d < n /\ n <= q * d
<1> DEFINE x == n + d - 1
           r == x % d
<1>1. x \in Nat
  OBVIOUS
<1>2. q \in Nat /\ r \in 0 .. d - 1 /\ x = d * q + r
  <2>1. q = x \div d
    BY DEF CeilDiv
  <2> HIDE DEF x
  <2> QED BY <1>1, <2>1, DivMod
<1> HIDE DEF r
<1>3. q # 0
  <2>1. q = 0 => d * q = 0
    OBVIOUS
  <2> QED BY <1>2, <2>1
<1>4. q \in Nat \ {0} /\ q - 1 \in Nat
  BY <1>2, <1>3
<1>5. /\ (q - 1) * d \in Nat /\ q * d \in Nat
      /\ d * q = q * d /\ q * d = (q - 1) * d + d
  BY <1>4
<1> QED BY <1>2, <1>4, <1>5

LEMMA ChunkIn ==
  ASSUME NEW n \in Nat \ {0}
  PROVE  Chunk(n) \in Nat \ {0}
<1>1. CASE PoolThreads > 0 /\ n >= CheckParMin
  <2> DEFINE d == PoolThreads * RangesPerThread
             q == CeilDiv(n, d)
  <2>1. d \in Nat \ {0}
    BY <1>1, CallSizes
  <2> HIDE DEF d
  <2>2. q \in Nat \ {0}
    BY <2>1, CeilDivIs
  <2> QED BY <1>1, <2>2 DEF Chunk, d
<1>2. CASE ~(PoolThreads > 0 /\ n >= CheckParMin)
  BY <1>2 DEF Chunk
<1> QED BY <1>1, <1>2

(* Where a range begins and where it ends.                                 *)
From(n, r) == r * Chunk(n)

Till(n, r) == Lesser((r + 1) * Chunk(n), n)

(* The ranges are one behind the other and end with the table.             *)
LEMMA RangesLie ==
  ASSUME NEW n \in Nat \ {0}, NEW q, q = CeilDiv(n, Chunk(n))
  PROVE  /\ q \in Nat \ {0} /\ Ranges(n) = 0 .. q - 1
         /\ From(n, 0) = 0 /\ Till(n, q - 1) = n
         /\ \A r \in 0 .. q - 1 : /\ From(n, r) \in 0 .. n - 1 /\ Till(n, r) \in From(n, r) + 1 .. n
                                  /\ RangeOf(n, r) = From(n, r) .. Till(n, r) - 1
         /\ \A r \in 1 .. q - 1 : From(n, r) = Till(n, r - 1)
<1> DEFINE k == Chunk(n)
<1>1. k \in Nat \ {0}
  BY ChunkIn
<1>2. q \in Nat \ {0} /\ (q - 1) * k < n /\ n <= q * k
  BY <1>1, CeilDivIs
<1>3. Ranges(n) = 0 .. q - 1
  BY DEF Ranges
<1>4. \A r \in 0 .. q - 1 : r * k \in Nat /\ r * k < n /\ (r + 1) * k = r * k + k
  <2> TAKE r \in 0 .. q - 1
  <2>1. PICK d \in Nat : q - 1 = r + d
    <3>1. q - 1 - r \in Nat /\ q - 1 = r + (q - 1 - r)
      BY <1>2
    <3> QED BY <3>1
  <2>2. r \in Nat
    BY <1>2
  <2>3. r * k \in Nat /\ d * k \in Nat /\ (r + d) * k = r * k + d * k /\ (r + 1) * k = r * k + k
    BY <1>1, <2>1, <2>2
  <2>4. (q - 1) * k = (r + d) * k
    BY <2>1
  <2> HIDE DEF k
  <2> QED BY <1>2, <2>3, <2>4
<1>5. \A r \in 0 .. q - 1 : /\ From(n, r) = r * k /\ Till(n, r) = Lesser((r + 1) * k, n)
                            /\ RangeOf(n, r) = From(n, r) .. Till(n, r) - 1
  BY DEF From, Till, RangeOf
<1> HIDE DEF k
<1>6. \A r \in 0 .. q - 1 : From(n, r) \in 0 .. n - 1 /\ Till(n, r) \in From(n, r) + 1 .. n
  BY <1>1, <1>4, <1>5 DEF Lesser
<1>7. From(n, 0) = 0
  BY <1>1, <1>2, <1>5
<1>8. Till(n, q - 1) = n
  <2>1. PICK r \in 0 .. q - 1 : r = q - 1
    BY <1>2
  <2>2. r + 1 = q
    BY <1>2, <2>1
  <2>3. Till(n, r) = Lesser(q * k, n) /\ q * k \in Nat
    BY <1>1, <1>2, <1>5, <2>2
  <2>4. Lesser(q * k, n) = n
    BY <1>2, <2>3 DEF Lesser
  <2> QED BY <2>1, <2>3, <2>4
<1>9. \A r \in 1 .. q - 1 : From(n, r) = Till(n, r - 1)
  <2> TAKE r \in 1 .. q - 1
  <2>1. PICK p \in 0 .. q - 1 : p = r - 1
    BY <1>2
  <2>2. r = p + 1 /\ r \in 0 .. q - 1
    BY <1>2, <2>1
  <2>3. From(n, r) = r * k /\ Till(n, p) = Lesser((p + 1) * k, n) /\ r * k \in Nat /\ r * k < n
    BY <1>4, <1>5, <2>2
  <2>4. (p + 1) * k = r * k
    BY <2>2
  <2>5. Lesser((p + 1) * k, n) = r * k
    BY <2>3, <2>4 DEF Lesser
  <2> QED BY <2>1, <2>3, <2>5
<1> QED BY <1>2, <1>3, <1>5, <1>6, <1>7, <1>8, <1>9

(* Every message is in a range, and the ranges before it have none after.  *)
LEMMA RangeHas ==
  ASSUME NEW n \in Nat \ {0}, NEW i \in 0 .. n - 1
  PROVE  \E r \in Ranges(n) : i \in RangeOf(n, r) /\ \A p \in 0 .. r - 1 : \A j \in RangeOf(n, p) : j < i
<1> DEFINE k == Chunk(n)
           q == CeilDiv(n, k)
           r == i \div k
<1>1. k \in Nat \ {0} /\ i \in Nat
  BY ChunkIn
<1>2. /\ q \in Nat \ {0} /\ Ranges(n) = 0 .. q - 1
      /\ \A p \in 0 .. q - 1 : RangeOf(n, p) = From(n, p) .. Till(n, p) - 1
      /\ n <= q * k
  <2> HIDE DEF q
  <2>1. q = CeilDiv(n, Chunk(n))
    BY DEF q
  <2>2. n <= q * k
    BY <1>1, <2>1, CeilDivIs
  <2> QED BY <2>1, <2>2, RangesLie
<1>3. r \in Nat /\ r * k <= i /\ i < (r + 1) * k /\ r * k \in Nat
  <2>1. r \in Nat /\ i % k \in 0 .. k - 1 /\ i = k * r + (i % k)
    <3> HIDE DEF k
    <3> QED BY <1>1, DivMod
  <2> HIDE DEF k, r
  <2>2. k * r = r * k /\ (r + 1) * k = r * k + k /\ r * k \in Nat
    BY <1>1, <2>1
  <2> QED BY <1>1, <2>1, <2>2
<1>4. r \in 0 .. q - 1
  <2>1. i \in 0 .. k * q - 1
    <3>1. k * q = q * k /\ q * k \in Nat
      BY <1>1, <1>2
    <3> HIDE DEF q, k
    <3> QED BY <1>2, <3>1
  <2> HIDE DEF q, k
  <2> QED BY <1>1, <1>2, <2>1, QuotBound
<1>5. i \in RangeOf(n, r)
  <2>1. From(n, r) = r * k /\ Till(n, r) = Lesser((r + 1) * k, n)
    BY DEF From, Till
  <2> HIDE DEF r, k, q
  <2>2. i < Lesser((r + 1) * k, n) /\ Lesser((r + 1) * k, n) \in Nat
    BY <1>1, <1>3 DEF Lesser
  <2> QED BY <1>1, <1>2, <1>3, <1>4, <2>1, <2>2
<1>6. ASSUME NEW p \in 0 .. r - 1, NEW j \in RangeOf(n, p)
      PROVE  j < i
  <2> HIDE DEF r, q
  <2>1. p \in 0 .. q - 1 /\ p \in Nat
    BY <1>2, <1>3, <1>4
  <2>2. j \in From(n, p) .. Till(n, p) - 1
    BY <1>2, <2>1
  <2>3. Till(n, p) = Lesser((p + 1) * k, n) /\ From(n, p) = p * k
    BY DEF From, Till
  <2> HIDE DEF k
  <2>4. p * k \in Nat /\ (p + 1) * k \in Nat
    BY <1>1, <2>1
  <2>5. j \in Nat /\ j < (p + 1) * k
    BY <2>2, <2>3, <2>4 DEF Lesser
  <2>6. PICK d \in Nat : r = p + 1 + d
    <3>1. r - p - 1 \in Nat /\ r = p + 1 + (r - p - 1)
      BY <1>3, <2>1
    <3> QED BY <3>1
  <2>7. r * k = (p + 1) * k + d * k /\ d * k \in Nat
    BY <1>1, <2>1, <2>6
  <2> QED BY <1>1, <1>3, <2>4, <2>5, <2>7
<1> HIDE DEF r, q, k
<1> QED BY <1>2, <1>4, <1>5, <1>6

(* Sums that stop at the largest usize.                                    *)
LEMMA SaturatesIs ==
  ASSUME NEW x \in Nat, NEW d \in Nat, NEW y \in {d, Lesser(d, UsizeMax)}
  PROVE  SaturatingAdd(Lesser(x, UsizeMax), y) = Lesser(x + d, UsizeMax)
<1>1. UsizeMax \in Nat
  BY CallSizes
<1> QED BY <1>1 DEF SaturatingAdd, Lesser

LEMMA SumIs ==
  ASSUME NEW lens, NEW n \in Nat, Len(lens) = n, \A k \in 1 .. n : lens[k] \in Nat
  PROVE  \E s : /\ s[0] = 0 /\ \A k \in 1 .. n : s[k] = SaturatingAdd(s[k-1], lens[k])
                /\ SumOf(lens) = s[n]
<1> DEFINE step == [x \in Nat \X (1 .. n) |-> SaturatingAdd(x[1], lens[x[2]])]
           F(s) == [k \in 0 .. n |-> IF k = 0 THEN 0 ELSE SaturatingAdd(s[k-1], lens[k])]
           S == CHOOSE s : s = F(s)
<1>1. 0 \in Nat /\ UsizeMax \in Nat
  BY CallSizes
<1>2. /\ IsStep(step, Nat, n)
      /\ \A y \in Nat, k \in 1 .. n : step[<<y, k>>] = SaturatingAdd(y, lens[k])
  <2>1. \A x \in Nat \X (1 .. n) : SaturatingAdd(x[1], lens[x[2]]) \in Nat
    <3> TAKE x \in Nat \X (1 .. n)
    <3>1. x[1] \in Nat /\ x[2] \in 1 .. n
      OBVIOUS
    <3>2. lens[x[2]] \in Nat
      BY <3>1
    <3> QED BY <1>1, <3>1, <3>2 DEF SaturatingAdd, Lesser
  <2>2. \A y \in Nat, k \in 1 .. n : <<y, k>> \in Nat \X (1 .. n) /\ <<y, k>>[1] = y /\ <<y, k>>[2] = k
    OBVIOUS
  <2> QED BY <2>1, <2>2 DEF IsStep
<1> HIDE DEF step
<1>3. PICK g : IsLoop(g, Nat, 0, n, step)
  BY <1>1, <1>2, LoopExists
<1>4. /\ g \in [0 .. n -> Nat] /\ g[0] = 0
      /\ \A k \in 1 .. n : g[k] = SaturatingAdd(g[k-1], lens[k])
  <2>1. g \in [0 .. n -> Nat] /\ g[0] = 0 /\ \A k \in 1 .. n : g[k] = step[<<g[k-1], k>>]
    BY <1>3 DEF IsLoop
  <2>2. \A k \in 1 .. n : g[k-1] \in Nat
    BY <2>1
  <2> QED BY <1>2, <2>1, <2>2
<1>5. g = F(g)
  <2>1. \A k \in 0 .. n : k # 0 => k \in 1 .. n
    OBVIOUS
  <2>2. \A k \in 0 .. n : g[k] = F(g)[k]
    BY <1>4, <2>1
  <2>3. DOMAIN g = 0 .. n /\ g = [k \in DOMAIN g |-> g[k]]
    BY <1>4
  <2> QED BY <2>2, <2>3
<1>6. S = F(S)
  <2> HIDE DEF F
  <2> QED BY <1>5
<1>7. SumOf(lens) = S[n]
  BY DEF SumOf
<1>8. S[0] = 0 /\ \A k \in 1 .. n : S[k] = SaturatingAdd(S[k-1], lens[k])
  <2>1. 0 \in 0 .. n /\ \A k \in 1 .. n : k \in 0 .. n /\ k # 0
    OBVIOUS
  <2>2. F(S)[0] = 0 /\ \A k \in 1 .. n : F(S)[k] = SaturatingAdd(S[k-1], lens[k])
    BY <2>1
  <2> HIDE DEF F, S
  <2> QED BY <1>6, <2>2
<1> HIDE DEF S
<1> QED BY <1>7, <1>8

(* A sum that saturates at every step is the sum, saturated.               *)
LEMMA SumSaturates ==
  ASSUME NEW lens, NEW n \in Nat, Len(lens) = n, NEW G \in [0 .. n -> Nat], G[0] = 0,
         \A k \in 1 .. n : \E d \in Nat : /\ G[k] = G[k-1] + d
                                          /\ lens[k] \in {d, Lesser(d, UsizeMax)}
  PROVE  SumOf(lens) = Lesser(G[n], UsizeMax)
<1>1. UsizeMax \in Nat
  BY CallSizes
<1>2. \A k \in 1 .. n : lens[k] \in Nat
  <2> TAKE k \in 1 .. n
  <2>1. PICK d \in Nat : lens[k] \in {d, Lesser(d, UsizeMax)}
    OBVIOUS
  <2> QED BY <1>1, <2>1 DEF Lesser
<1>3. PICK s : /\ s[0] = 0 /\ \A k \in 1 .. n : s[k] = SaturatingAdd(s[k-1], lens[k])
               /\ SumOf(lens) = s[n]
  BY <1>2, SumIs
<1> DEFINE h == [k \in 0 .. n |-> Lesser(G[k], UsizeMax)]
<1>4. s[0] = h[0]
  <2>1. 0 \in 0 .. n /\ Lesser(0, UsizeMax) = 0
    BY <1>1 DEF Lesser
  <2> QED BY <1>3, <2>1
<1>5. \A k \in 1 .. n : s[k-1] = h[k-1] => s[k] = h[k]
  <2> TAKE k \in 1 .. n
  <2> SUFFICES ASSUME s[k-1] = h[k-1] PROVE s[k] = h[k]
    OBVIOUS
  <2>1. PICK d \in Nat : G[k] = G[k-1] + d /\ lens[k] \in {d, Lesser(d, UsizeMax)}
    OBVIOUS
  <2>2. k - 1 \in 0 .. n /\ k \in 0 .. n /\ G[k-1] \in Nat
    OBVIOUS
  <2>3. h[k-1] = Lesser(G[k-1], UsizeMax) /\ h[k] = Lesser(G[k], UsizeMax)
    BY <2>2
  <2> HIDE DEF h
  <2>4. s[k] = SaturatingAdd(Lesser(G[k-1], UsizeMax), lens[k])
    BY <1>3, <2>3
  <2> QED BY <2>1, <2>2, <2>3, <2>4, SaturatesIs
<1>6. n \in 0 .. n /\ h[n] = Lesser(G[n], UsizeMax)
  OBVIOUS
<1> HIDE DEF h
<1>7. \A k \in 0 .. n : s[k] = h[k]
  BY ONLY n \in Nat, <1>4, <1>5, LoopsAgree, ZenonT(60)
<1> QED BY <1>3, <1>6, <1>7

(* The lengths of the messages before each of them, and of all.            *)
AreTotals(t, place, n) ==
  t \in [0 .. n -> Nat] /\ t[0] = 0 /\ \A k \in 1 .. n : t[k] = t[k-1] + place[k-1].len

LEMMA TotalsAre ==
  ASSUME NEW n \in Nat, NEW place, \A k \in 1 .. n : place[k-1].len \in Nat, NEW t,
         t = CHOOSE f : f = [k \in 0 .. n |-> IF k = 0 THEN 0 ELSE f[k-1] + place[k-1].len]
  PROVE  AreTotals(t, place, n)
<1> DEFINE step == [x \in Nat \X (1 .. n) |-> x[1] + place[x[2]-1].len]
           F(s) == [k \in 0 .. n |-> IF k = 0 THEN 0 ELSE s[k-1] + place[k-1].len]
<1>1. 0 \in Nat
  OBVIOUS
<1>2. /\ IsStep(step, Nat, n)
      /\ \A y \in Nat, k \in 1 .. n : step[<<y, k>>] = y + place[k-1].len
  <2>1. \A x \in Nat \X (1 .. n) : x[1] + place[x[2]-1].len \in Nat
    <3> TAKE x \in Nat \X (1 .. n)
    <3>1. x[1] \in Nat /\ x[2] \in 1 .. n
      OBVIOUS
    <3>2. place[x[2]-1].len \in Nat
      BY <3>1
    <3> QED BY <3>1, <3>2
  <2>2. \A y \in Nat, k \in 1 .. n : <<y, k>> \in Nat \X (1 .. n) /\ <<y, k>>[1] = y /\ <<y, k>>[2] = k
    OBVIOUS
  <2> QED BY <2>1, <2>2 DEF IsStep
<1> HIDE DEF step
<1>3. PICK g : IsLoop(g, Nat, 0, n, step)
  BY <1>1, <1>2, LoopExists
<1>4. /\ g \in [0 .. n -> Nat] /\ g[0] = 0
      /\ \A k \in 1 .. n : g[k] = g[k-1] + place[k-1].len
  <2>1. g \in [0 .. n -> Nat] /\ g[0] = 0 /\ \A k \in 1 .. n : g[k] = step[<<g[k-1], k>>]
    BY <1>3 DEF IsLoop
  <2>2. \A k \in 1 .. n : g[k-1] \in Nat
    BY <2>1
  <2> QED BY <1>2, <2>1, <2>2
<1>5. g = F(g)
  <2>1. \A k \in 0 .. n : k # 0 => k \in 1 .. n
    OBVIOUS
  <2>2. \A k \in 0 .. n : g[k] = F(g)[k]
    BY <1>4, <2>1
  <2>3. DOMAIN g = 0 .. n /\ g = [k \in DOMAIN g |-> g[k]]
    BY <1>4
  <2> QED BY <2>2, <2>3
<1>6. t = F(t)
  <2>1. t = CHOOSE f : f = F(f)
    OBVIOUS
  <2> HIDE DEF F
  <2> QED BY <1>5, <2>1
<1>7. t[0] = 0 /\ \A k \in 1 .. n : t[k] = t[k-1] + place[k-1].len
  <2>1. 0 \in 0 .. n /\ \A k \in 1 .. n : k \in 0 .. n /\ k # 0
    OBVIOUS
  <2>2. F(t)[0] = 0 /\ \A k \in 1 .. n : F(t)[k] = t[k-1] + place[k-1].len
    BY <2>1
  <2> HIDE DEF F
  <2> QED BY <1>6, <2>2
<1>8. \A k \in 0 .. n : t[k] = g[k]
  <2>1. t[0] = g[0]
    BY <1>4, <1>7
  <2>2. \A k \in 1 .. n : t[k-1] = g[k-1] => t[k] = g[k]
    BY <1>4, <1>7
  <2> QED BY ONLY n \in Nat, <2>1, <2>2, LoopsAgree, ZenonT(60)
<1>9. t \in [0 .. n -> Nat]
  <2>1. DOMAIN t = 0 .. n /\ t = [k \in 0 .. n |-> t[k]]
    <3>1. \A f : DOMAIN F(f) = 0 .. n /\ F(f) = [k \in 0 .. n |-> F(f)[k]]
      OBVIOUS
    <3> HIDE DEF F
    <3> QED BY <1>6, <3>1
  <2> QED BY <1>4, <1>8, <2>1
<1> QED BY <1>7, <1>9 DEF AreTotals

LEMMA TotalsGrow ==
  ASSUME NEW n \in Nat, NEW place, NEW t, AreTotals(t, place, n), \A k \in 1 .. n : place[k-1].len \in Nat,
         NEW i \in 0 .. n, NEW j \in i .. n
  PROVE  \E d \in Nat : t[j] = t[i] + d
<1> DEFINE T == {k \in Nat : i + k <= n => \E d \in Nat : t[i + k] = t[i] + d}
<1>1. t \in [0 .. n -> Nat] /\ \A k \in 1 .. n : t[k] = t[k-1] + place[k-1].len
  BY DEF AreTotals
<1>2. 0 \in T
  <2>1. i + 0 = i /\ t[i] = t[i] + 0
    BY <1>1
  <2> QED BY <2>1
<1>3. ASSUME NEW k \in Nat, k \in T
      PROVE  k + 1 \in T
  <2> SUFFICES ASSUME i + (k + 1) <= n
               PROVE  \E d \in Nat : t[i + (k + 1)] = t[i] + d
    OBVIOUS
  <2>1. PICK p : p = i + (k + 1)
    OBVIOUS
  <2>2. p \in 1 .. n /\ p - 1 = i + k /\ i + k <= n
    BY <2>1
  <2>3. PICK d \in Nat : t[p - 1] = t[i] + d
    BY <1>3, <2>2
  <2>4. t[p] = t[p - 1] + place[p - 1].len /\ place[p - 1].len \in Nat /\ t[i] \in Nat
    BY <1>1, <2>2
  <2>5. PICK l \in Nat : l = place[p - 1].len
    BY <2>4
  <2>6. t[p] = t[i] + (d + l) /\ d + l \in Nat
    BY <2>3, <2>4, <2>5
  <2> QED BY <2>1, <2>6
<1>4. Nat \subseteq T
  <2> HIDE DEF T
  <2> QED BY <1>2, <1>3, Induction
<1>5. j - i \in Nat /\ i + (j - i) = j /\ j <= n
  OBVIOUS
<1> QED BY <1>4, <1>5

(* A message something is wrong with.                                      *)
WrongAt(c, m, i) == \E e \in Errors : MessageWrong(c, HC!Place(c, m, i), e)

(* A call whose table is checked.                                          *)
TableChecked(c, m) ==
  MayBeMade(c, m) /\ c.kind = "var" /\ OutputPassed(c) /\ TablesPassed(c)

TotalsOf(t, c, m) == AreTotals(t, [i \in 0 .. c.n - 1 |-> HC!Place(c, m, i)], c.n)

LEMMA LensIn ==
  ASSUME NEW c, NEW m, TableChecked(c, m), NEW i \in 0 .. c.n - 1
  PROVE  /\ c.n \in Nat \ {0}
         /\ HC!Place(c, m, i) \in [ptr : Nat, len : Nat] /\ HC!Place(c, m, i).len \in Nat
         /\ MessageError(c, HC!Place(c, m, i)) # None <=> WrongAt(c, m, i)
         /\ MessageError(c, HC!Place(c, m, i)) \in Errors \cup {None}
         /\ MessageError(c, HC!Place(c, m, i)) # None =>
              MessageWrong(c, HC!Place(c, m, i), MessageError(c, HC!Place(c, m, i)))
<1> DEFINE x == HC!Place(c, m, i)
<1>1. i \in HC!Messages(c) /\ c.n \in Nat \ {0}
  BY CallFields DEF HC!Messages, TableChecked, MayBeMade
<1>2. x \in [ptr : Nat, len : Nat]
  BY <1>1, PlaceIn DEF TableChecked
<1>3. x.len \in Nat
  BY <1>2
<1> HIDE DEF x
<1>4. /\ MessageError(c, x) \in Errors \cup {None}
      /\ MessageError(c, x) # None => MessageWrong(c, x, MessageError(c, x))
      /\ MessageError(c, x) = None => \A e : ~MessageWrong(c, x, e)
  BY <1>2, MessageChecks DEF TableChecked
<1>5. WrongAt(c, m, i) <=> \E e \in Errors : MessageWrong(c, x, e)
  BY DEF WrongAt, x
<1>6. MessageError(c, x) # None <=> WrongAt(c, m, i)
  BY <1>4, <1>5
<1> QED BY <1>1, <1>2, <1>3, <1>4, <1>6 DEF x

(* What the check of a range of messages finds.                            *)
RangeRight(c, m, lo, hi, x, t) ==
  /\ x \in Answers
  /\ (\A i \in lo .. hi - 1 : ~WrongAt(c, m, i)) =>
       x.error = None /\ \E d \in Nat : t[hi] = t[lo] + d /\ x.sum = Lesser(d, UsizeMax)
  /\ \A i \in lo .. hi - 1 :
       WrongAt(c, m, i) /\ (\A j \in lo .. i - 1 : ~WrongAt(c, m, j)) =>
         x.error # None /\ MessageWrong(c, HC!Place(c, m, i), x.error)

LEMMA CheckedIs ==
  ASSUME NEW c, NEW m, TableChecked(c, m), NEW lo \in 0 .. c.n - 1, NEW hi \in lo + 1 .. c.n,
         NEW range, range = lo .. hi - 1, NEW t, TotalsOf(t, c, m)
  PROVE  RangeRight(c, m, lo, hi, Checked(c, m, range), t)
<1> DEFINE P(i) == HC!Place(c, m, i)
           x == Checked(c, m, range)
           failed == Failed(c, m, range)
           n == hi - lo
           lens == [k \in 1 .. n |-> P(lo + k - 1).len]
<1>1. c.n \in Nat \ {0}
  BY CallFields DEF TableChecked, MayBeMade
<1>2. n \in Nat \ {0} /\ lo \in Nat /\ hi \in Nat /\ hi = lo + n /\ range \subseteq 0 .. c.n - 1 /\ range \subseteq Nat
  BY <1>1
<1>3. Cardinality(range) = n
  <2>1. Cardinality(lo .. hi - 1) = IF lo > hi - 1 THEN 0 ELSE (hi - 1) - lo + 1
    <3>1. lo \in Int /\ hi - 1 \in Int
      BY <1>2
    <3> QED BY <3>1, FS_Interval
  <2> QED BY <1>2, <2>1
<1>4. Min(range) = lo
  <2>1. lo \in range /\ \A j \in range : lo <= j
    BY <1>2
  <2> QED BY <1>2, <2>1, LeastFirst
<1>5. \A i : i \in failed <=> i \in range /\ WrongAt(c, m, i)
  BY <1>2, LensIn DEF Failed
<1>6. failed \subseteq Nat /\ failed \subseteq range
  BY <1>2, <1>5
<1>7. x = IF failed = {} THEN [error |-> None, sum |-> SumOf(lens)]
          ELSE [error |-> MessageError(c, P(Min(failed))), sum |-> 0]
  BY <1>3, <1>4 DEF Checked
<1>8. \A i \in range : P(i).len \in Nat
  BY <1>2, LensIn
<1> HIDE DEF x, failed, P
<1>9. 0 \in 0 .. UsizeMax /\ UsizeMax \in Nat
  BY CallSizes
<1>10. ASSUME failed = {}
       PROVE  RangeRight(c, m, lo, hi, x, t)
  <2> DEFINE G == [k \in 0 .. n |-> t[lo + k] - t[lo]]
             place == [i \in 0 .. c.n - 1 |-> HC!Place(c, m, i)]
  <2>1. /\ t \in [0 .. c.n -> Nat]
        /\ \A k \in 1 .. c.n : t[k] = t[k-1] + place[k-1].len
        /\ AreTotals(t, place, c.n)
    BY DEF TotalsOf, AreTotals
  <2>2. \A k \in 1 .. c.n : place[k-1] = HC!Place(c, m, k-1) /\ place[k-1].len \in Nat
    <3> TAKE k \in 1 .. c.n
    <3>1. k - 1 \in 0 .. c.n - 1
      BY <1>1
    <3> QED BY <3>1, LensIn
  <2> HIDE DEF place
  <2>14. \A i \in 0 .. c.n : \A j \in i .. c.n : \E d \in Nat : t[j] = t[i] + d
    <3>1. PICK N, L : N = c.n /\ L = place
      OBVIOUS
    <3>2. N \in Nat
      BY <1>1, <3>1
    <3>3. AreTotals(t, L, N)
      BY <2>1, <3>1
    <3>4. \A k \in 1 .. N : L[k-1].len \in Nat
      BY <2>2, <3>1
    <3>5. \A i \in 0 .. N : \A j \in i .. N : \E d \in Nat : t[j] = t[i] + d
      BY ONLY <3>2, <3>3, <3>4, TotalsGrow, SMTT(30)
    <3> QED BY <3>1, <3>5
  <2>3. \A k \in 0 .. n : G[k] \in Nat
    <3> TAKE k \in 0 .. n
    <3>1. PICK p : p = lo + k
      OBVIOUS
    <3>2. p \in lo .. c.n /\ lo \in 0 .. c.n
      BY <1>1, <1>2, <3>1
    <3>3. PICK d \in Nat : t[p] = t[lo] + d
      BY <2>14, <3>2
    <3>4. t[lo] \in Nat
      BY <2>1, <3>2
    <3> QED BY <3>1, <3>3, <3>4
  <2>4. G \in [0 .. n -> Nat]
    BY <2>3
  <2>5. G[0] = 0
    <3>1. lo \in 0 .. c.n /\ lo + 0 = lo
      BY <1>1, <1>2
    <3>2. t[lo] \in Nat
      BY <2>1, <3>1
    <3>3. 0 \in 0 .. n /\ G[0] = t[lo + 0] - t[lo]
      BY <1>2
    <3> QED BY <3>1, <3>2, <3>3
  <2>6. \A k \in 1 .. n : \E d \in Nat : G[k] = G[k-1] + d /\ lens[k] \in {d, Lesser(d, UsizeMax)}
    <3> TAKE k \in 1 .. n
    <3>1. PICK p : p = lo + k
      OBVIOUS
    <3>2. p \in 1 .. c.n /\ p - 1 = lo + (k - 1) /\ p - 1 = lo + k - 1 /\ k \in 0 .. n /\ k - 1 \in 0 .. n
      BY <1>1, <1>2, <3>1
    <3>3. t[p] = t[p-1] + place[p-1].len /\ place[p-1] = P(p-1) /\ place[p-1].len \in Nat
      BY <2>1, <2>2, <3>2 DEF P
    <3>4. G[k] = t[p] - t[lo] /\ G[k-1] = t[p-1] - t[lo] /\ lens[k] = P(p-1).len
      BY <3>1, <3>2
    <3>5. t[p] \in Nat /\ t[p-1] \in Nat /\ t[lo] \in Nat
      <4>1. p \in 0 .. c.n /\ p - 1 \in 0 .. c.n /\ lo \in 0 .. c.n
        BY <1>1, <1>2, <3>2
      <4> QED BY <2>1, <4>1
    <3>6. PICK d \in Nat : d = place[p-1].len
      BY <3>3
    <3> HIDE DEF G, lens
    <3>7. G[k] = G[k-1] + d /\ lens[k] = d
      BY <3>3, <3>4, <3>5, <3>6
    <3> QED BY <3>7
  <2>7. Len(lens) = n
    BY <1>2
  <2> DEFINE total == t[hi] - t[lo]
  <2>8. G[n] = total /\ total \in Nat
    <3>1. n \in 0 .. n /\ lo + n = hi
      BY <1>2
    <3> QED BY <2>3, <3>1
  <2> HIDE DEF G, lens
  <2>9. SumOf(lens) = Lesser(total, UsizeMax)
    <3> HIDE DEF n, total
    <3>1. n \in Nat
      BY <1>2
    <3>2. SumOf(lens) = Lesser(G[n], UsizeMax)
      BY ONLY <3>1, <2>4, <2>5, <2>6, <2>7, SumSaturates, ZenonT(60)
    <3> QED BY <2>8, <3>2
  <2>10. t[hi] = t[lo] + total
    <3>1. lo \in 0 .. c.n /\ hi \in 0 .. c.n
      BY <1>1, <1>2
    <3> QED BY <2>1, <3>1
  <2>11. Lesser(total, UsizeMax) \in 0 .. UsizeMax
    BY <1>9, <2>8 DEF Lesser
  <2>12. x.error = None /\ x.sum = Lesser(total, UsizeMax) /\ x \in Answers
    BY <1>7, <1>10, <2>9, <2>11 DEF Answers
  <2> HIDE DEF total
  <2>13. \A i \in lo .. hi - 1 : ~WrongAt(c, m, i)
    BY <1>5, <1>10
  <2> QED BY <2>8, <2>10, <2>12, <2>13 DEF RangeRight
<1>11. ASSUME failed # {}
       PROVE  RangeRight(c, m, lo, hi, x, t)
  <2>1. PICK w \in failed : \A j \in failed : w <= j
    BY <1>6, <1>11, Least
  <2>2. Min(failed) = w
    BY <1>6, <2>1, LeastFirst
  <2>3. w \in range /\ WrongAt(c, m, w) /\ w \in 0 .. c.n - 1
    BY <1>2, <1>5, <2>1
  <2>4. /\ MessageError(c, P(w)) # None /\ MessageError(c, P(w)) \in Errors \cup {None}
        /\ MessageWrong(c, P(w), MessageError(c, P(w)))
    BY <2>3, LensIn DEF P
  <2>5. x = [error |-> MessageError(c, P(w)), sum |-> 0]
    BY <1>7, <1>11, <2>2
  <2>6. x \in Answers /\ x.error # None /\ MessageWrong(c, P(w), x.error)
    BY <1>9, <2>4, <2>5 DEF Answers
  <2>7. ~(\A i \in lo .. hi - 1 : ~WrongAt(c, m, i))
    BY <2>3
  <2>8. ASSUME NEW i \in lo .. hi - 1, WrongAt(c, m, i), \A j \in lo .. i - 1 : ~WrongAt(c, m, j)
        PROVE  i = w
    <3>1. i \in failed /\ w <= i /\ i \in Nat /\ w \in Nat
      BY <1>2, <1>5, <1>6, <2>1, <2>8
    <3>2. ASSUME w # i PROVE FALSE
      <4>1. w \in lo .. i - 1
        BY <1>2, <2>3, <3>1, <3>2
      <4> QED BY <2>3, <2>8, <4>1
    <3> QED BY <3>2
  <2> QED BY <2>6, <2>7, <2>8 DEF RangeRight, P
<1> QED BY <1>10, <1>11 DEF x

(* What is known of the table when all parts are known.                    *)
AllChecked(c, m, parts) ==
  DOMAIN parts = Ranges(c.n) /\ \A r \in Ranges(c.n) : parts[r] = Checked(c, m, RangeOf(c.n, r))

PartsAre(c, m, parts, t, q) ==
  /\ \A r \in 0 .. q - 1 : RangeRight(c, m, From(c.n, r), Till(c.n, r), parts[r], t)
  /\ \A r \in 0 .. q - 1 : parts[r].error \in Errors \cup {None} /\ parts[r].sum \in 0 .. UsizeMax

LEMMA PartsHold ==
  ASSUME NEW c, NEW m, TableChecked(c, m), NEW t, TotalsOf(t, c, m), NEW parts, AllChecked(c, m, parts),
         NEW q, q = CeilDiv(c.n, Chunk(c.n))
  PROVE  /\ PartsAre(c, m, parts, t, q)
         /\ Verdict(parts) = [error |-> FirstError([k \in 1 .. q |-> parts[k-1].error]),
                              sum   |-> SumOf([k \in 1 .. q |-> parts[k-1].sum])]
<1>1. c.n \in Nat \ {0}
  BY CallFields DEF TableChecked, MayBeMade
<1>2. /\ q \in Nat \ {0} /\ Ranges(c.n) = 0 .. q - 1
      /\ \A r \in 0 .. q - 1 : /\ From(c.n, r) \in 0 .. c.n - 1 /\ Till(c.n, r) \in From(c.n, r) + 1 .. c.n
                               /\ RangeOf(c.n, r) = From(c.n, r) .. Till(c.n, r) - 1
  BY <1>1, RangesLie
<1>3. \A r \in 0 .. q - 1 : RangeRight(c, m, From(c.n, r), Till(c.n, r), parts[r], t)
  <2> TAKE r \in 0 .. q - 1
  <2>1. PICK lo, hi, range : lo = From(c.n, r) /\ hi = Till(c.n, r) /\ range = RangeOf(c.n, r)
    OBVIOUS
  <2>2. lo \in 0 .. c.n - 1 /\ hi \in lo + 1 .. c.n /\ range = lo .. hi - 1
    BY <1>2, <2>1
  <2>3. RangeRight(c, m, lo, hi, Checked(c, m, range), t)
    BY <2>2, CheckedIs
  <2>4. parts[r] = Checked(c, m, range)
    BY <1>2, <2>1 DEF AllChecked
  <2> QED BY <2>1, <2>3, <2>4
<1>4. \A r \in 0 .. q - 1 : parts[r] \in Answers
  BY <1>3 DEF RangeRight
<1>5. \A r \in 0 .. q - 1 : parts[r].error \in Errors \cup {None} /\ parts[r].sum \in 0 .. UsizeMax
  BY <1>4 DEF Answers
<1>6. Verdict(parts) = [error |-> FirstError([k \in 1 .. q |-> parts[k-1].error]),
                        sum   |-> SumOf([k \in 1 .. q |-> parts[k-1].sum])]
  <2>1. Cardinality(DOMAIN parts) = q
    <3>1. DOMAIN parts = 0 .. q - 1
      BY <1>2 DEF AllChecked
    <3>2. Cardinality(0 .. q - 1) = IF 0 > q - 1 THEN 0 ELSE (q - 1) - 0 + 1
      <4>1. 0 \in Int /\ q - 1 \in Int
        BY <1>2
      <4> QED BY <4>1, FS_Interval
    <3> QED BY <1>2, <3>1, <3>2
  <2> DEFINE inOrder == [k \in 1 .. Cardinality(DOMAIN parts) |-> parts[k-1]]
  <2>2. DOMAIN inOrder = 1 .. q /\ \A k \in 1 .. q : inOrder[k] = parts[k-1]
    BY <2>1
  <2>3. Verdict(parts) = [error |-> FirstError([k \in DOMAIN inOrder |-> inOrder[k].error]),
                          sum   |-> SumOf([k \in DOMAIN inOrder |-> inOrder[k].sum])]
    BY DEF Verdict
  <2> HIDE DEF inOrder
  <2>4. [k \in DOMAIN inOrder |-> inOrder[k].error] = [k \in 1 .. q |-> parts[k-1].error]
    BY <2>2
  <2>5. [k \in DOMAIN inOrder |-> inOrder[k].sum] = [k \in 1 .. q |-> parts[k-1].sum]
    BY <2>2
  <2> QED BY <2>3, <2>4, <2>5
<1> QED BY <1>3, <1>5, <1>6 DEF PartsAre

(* The verdict about the table is the one of a walk over all messages.     *)
LEMMA VerdictIs ==
  ASSUME NEW c, NEW m, TableChecked(c, m), NEW t, TotalsOf(t, c, m), NEW parts, AllChecked(c, m, parts)
  PROVE  /\ Verdict(parts).error \in Errors \cup {None}
         /\ (\A i \in 0 .. c.n - 1 : ~WrongAt(c, m, i)) =>
              Verdict(parts).error = None /\ Verdict(parts).sum = Lesser(t[c.n], UsizeMax)
         /\ \A i \in 0 .. c.n - 1 :
              WrongAt(c, m, i) /\ (\A j \in 0 .. i - 1 : ~WrongAt(c, m, j)) =>
                /\ Verdict(parts).error # None
                /\ MessageWrong(c, HC!Place(c, m, i), Verdict(parts).error)
<1> DEFINE q == CeilDiv(c.n, Chunk(c.n))
           errors == [k \in 1 .. q |-> parts[k-1].error]
           sums == [k \in 1 .. q |-> parts[k-1].sum]
           v == Verdict(parts)
           B(k) == IF k = 0 THEN 0 ELSE Till(c.n, k - 1)
<1>1. c.n \in Nat \ {0}
  BY CallFields DEF TableChecked, MayBeMade
<1>2. /\ q \in Nat \ {0} /\ Ranges(c.n) = 0 .. q - 1
      /\ From(c.n, 0) = 0 /\ Till(c.n, q - 1) = c.n
      /\ \A r \in 0 .. q - 1 : /\ From(c.n, r) \in 0 .. c.n - 1 /\ Till(c.n, r) \in From(c.n, r) + 1 .. c.n
                               /\ RangeOf(c.n, r) = From(c.n, r) .. Till(c.n, r) - 1
      /\ \A r \in 1 .. q - 1 : From(c.n, r) = Till(c.n, r - 1)
  <2> HIDE DEF q, errors, sums, v
  <2>1. q = CeilDiv(c.n, Chunk(c.n))
    BY DEF q
  <2> QED BY <1>1, <2>1, RangesLie
<1>3. PartsAre(c, m, parts, t, q) /\ v = [error |-> FirstError(errors), sum |-> SumOf(sums)]
  BY PartsHold
<1> HIDE DEF q, v
<1>4. \A k \in 1 .. q : k - 1 \in 0 .. q - 1 /\ errors[k] = parts[k-1].error /\ sums[k] = parts[k-1].sum
  BY <1>2
<1>5. /\ (\A k \in 1 .. q : errors[k] = None) => FirstError(errors) = None
      /\ \A k \in 1 .. q : (errors[k] # None /\ \A j \in 1 .. k - 1 : errors[j] = None)
                              => FirstError(errors) = errors[k]
  <2>1. DOMAIN errors = 1 .. q /\ q \in Nat
    BY <1>2
  <2> HIDE DEF errors
  <2> QED BY <2>1, FirstIs
<1>6. v.error = FirstError(errors) /\ v.sum = SumOf(sums)
  BY <1>3
<1>7. Len(sums) = q
  BY <1>2
<1> HIDE DEF errors, sums
<1>8. \A r \in 0 .. q - 1 : (\A i \in From(c.n, r) .. Till(c.n, r) - 1 : ~WrongAt(c, m, i)) =>
        /\ parts[r].error = None
        /\ \E d \in Nat : t[Till(c.n, r)] = t[From(c.n, r)] + d /\ parts[r].sum = Lesser(d, UsizeMax)
  BY <1>3 DEF PartsAre, RangeRight
<1>9. ASSUME \A i \in 0 .. c.n - 1 : ~WrongAt(c, m, i)
      PROVE  v.error = None /\ v.sum = Lesser(t[c.n], UsizeMax)
  <2>1. \A r \in 0 .. q - 1 : \A i \in From(c.n, r) .. Till(c.n, r) - 1 : i \in 0 .. c.n - 1
    BY <1>1, <1>2, SMTT(40)
  <2>2. \A r \in 0 .. q - 1 :
          /\ parts[r].error = None
          /\ \E d \in Nat : t[Till(c.n, r)] = t[From(c.n, r)] + d /\ parts[r].sum = Lesser(d, UsizeMax)
    BY <1>8, <1>9, <2>1
  <2>3. v.error = None
    BY <1>4, <1>5, <1>6, <2>2
  <2> DEFINE G == [k \in 0 .. q |-> t[B(k)]]
  <2>4. t \in [0 .. c.n -> Nat] /\ t[0] = 0
    BY DEF TotalsOf, AreTotals
  <2>5. \A k \in 0 .. q : B(k) \in 0 .. c.n
    <3> TAKE k \in 0 .. q
    <3>1. CASE k = 0
      BY <1>1, <3>1
    <3>2. CASE k # 0
      <4>1. k \in 1 .. q
        BY <3>2
      <4>2. Till(c.n, k - 1) \in 0 .. c.n
        BY <1>1, <1>2, <1>4, <4>1
      <4> QED BY <3>2, <4>2
    <3> QED BY <3>1, <3>2
  <2>6. \A r \in 0 .. q - 1 : From(c.n, r) = B(r) /\ Till(c.n, r) = B(r + 1)
    <3> TAKE r \in 0 .. q - 1
    <3>1. r \in Nat /\ r + 1 # 0 /\ (r + 1) - 1 = r
      BY <1>2
    <3>2. CASE r = 0
      BY <1>2, <3>1, <3>2
    <3>3. CASE r # 0
      <4>1. r \in 1 .. q - 1
        BY <3>3
      <4> QED BY <1>2, <3>1, <3>3, <4>1
    <3> QED BY <3>2, <3>3
  <2>7. B(0) = 0 /\ B(q) = c.n
    BY <1>2
  <2> HIDE DEF B
  <2>8. G \in [0 .. q -> Nat] /\ G[0] = 0 /\ G[q] = t[c.n]
    <3>1. 0 \in 0 .. q /\ q \in 0 .. q
      BY <1>2
    <3> QED BY <2>4, <2>5, <2>7, <3>1
  <2>9. \A k \in 1 .. q : \E d \in Nat : G[k] = G[k-1] + d /\ sums[k] \in {d, Lesser(d, UsizeMax)}
    <3> TAKE k \in 1 .. q
    <3>1. PICK r \in 0 .. q - 1 : r = k - 1 /\ k = r + 1
      BY <1>2
    <3>2. PICK d \in Nat : t[Till(c.n, r)] = t[From(c.n, r)] + d /\ parts[r].sum = Lesser(d, UsizeMax)
      BY <2>2
    <3>3. From(c.n, r) = B(k - 1) /\ Till(c.n, r) = B(k)
      BY <2>6, <3>1
    <3>4. k \in 0 .. q /\ k - 1 \in 0 .. q
      BY <1>2
    <3>5. G[k] = t[B(k)] /\ G[k-1] = t[B(k-1)]
      BY <3>4
    <3>6. sums[k] = parts[r].sum
      BY <1>4, <3>1
    <3> HIDE DEF G
    <3> QED BY <3>2, <3>3, <3>5, <3>6
  <2> HIDE DEF G
  <2>10. SumOf(sums) = Lesser(G[q], UsizeMax)
    <3>1. q \in Nat /\ G \in [0 .. q -> Nat] /\ G[0] = 0
      BY <1>2, <2>8
    <3> QED BY ONLY <1>7, <2>9, <3>1, SumSaturates, ZenonT(60)
  <2> QED BY <1>6, <2>3, <2>8, <2>10
<1>10. ASSUME NEW i \in 0 .. c.n - 1, WrongAt(c, m, i), \A j \in 0 .. i - 1 : ~WrongAt(c, m, j)
       PROVE  v.error # None /\ MessageWrong(c, HC!Place(c, m, i), v.error)
  <2>1. PICK r \in 0 .. q - 1 : i \in RangeOf(c.n, r) /\ \A p \in 0 .. r - 1 : \A j \in RangeOf(c.n, p) : j < i
    BY <1>1, <1>2, RangeHas
  <2>2. i \in From(c.n, r) .. Till(c.n, r) - 1 /\ i \in Nat
    BY <1>1, <1>2, <2>1, SMTT(40)
  <2>3. \A j \in From(c.n, r) .. i - 1 : ~WrongAt(c, m, j)
    <3>1. \A j \in From(c.n, r) .. i - 1 : j \in 0 .. i - 1
      BY <1>1, <1>2, <2>2
    <3> QED BY <1>10, <3>1
  <2>4. parts[r].error # None /\ MessageWrong(c, HC!Place(c, m, i), parts[r].error)
    BY <1>3, <1>10, <2>2, <2>3 DEF PartsAre, RangeRight
  <2>5. \A p \in 0 .. r - 1 : parts[p].error = None
    <3> TAKE p \in 0 .. r - 1
    <3>1. p \in 0 .. q - 1 /\ r \in Nat
      BY <1>2
    <3>2. \A j \in From(c.n, p) .. Till(c.n, p) - 1 : ~WrongAt(c, m, j)
      <4> TAKE j \in From(c.n, p) .. Till(c.n, p) - 1
      <4>1. j \in RangeOf(c.n, p) /\ j \in Nat
        <5>1. From(c.n, p) \in Nat /\ Till(c.n, p) \in Nat /\ RangeOf(c.n, p) = From(c.n, p) .. Till(c.n, p) - 1
          BY <1>1, <1>2, <3>1
        <5> QED BY <5>1
      <4>2. j < i
        BY <2>1, <4>1
      <4>3. j \in 0 .. i - 1
        BY <2>2, <4>1, <4>2
      <4> QED BY <1>10, <4>3
    <3> QED BY <1>8, <3>1, <3>2
  <2>6. PICK k \in 1 .. q : k = r + 1 /\ r = k - 1
    BY <1>2
  <2>7. errors[k] = parts[r].error
    BY <1>4, <2>6
  <2>8. \A j \in 1 .. k - 1 : errors[j] = None
    <3> TAKE j \in 1 .. k - 1
    <3>1. j \in 1 .. q /\ j - 1 \in 0 .. r - 1
      BY <1>2, <2>6
    <3> QED BY <1>4, <2>5, <3>1
  <2>9. v.error = errors[k]
    BY <1>5, <1>6, <2>4, <2>7, <2>8
  <2> QED BY <2>4, <2>7, <2>9
<1>11. v.error \in Errors \cup {None}
  <2>1. CASE \A i \in 0 .. c.n - 1 : ~WrongAt(c, m, i)
    BY <1>9, <2>1
  <2>2. CASE \E i \in 0 .. c.n - 1 : WrongAt(c, m, i)
    <3> DEFINE S == {i \in 0 .. c.n - 1 : WrongAt(c, m, i)}
    <3>1. S # {} /\ S \subseteq Nat
      BY <1>1, <2>2
    <3>2. PICK i \in S : \A j \in S : i <= j
      BY <3>1, Least
    <3>3. i \in 0 .. c.n - 1 /\ WrongAt(c, m, i) /\ \A j \in 0 .. i - 1 : ~WrongAt(c, m, j)
      <4>1. \A j \in 0 .. i - 1 : j \in 0 .. c.n - 1 /\ ~(i <= j)
        BY <1>1, <3>1
      <4> QED BY <3>2, <4>1
    <3>4. MessageWrong(c, HC!Place(c, m, i), v.error)
      BY <1>10, <3>3
    <3> QED BY <3>4, CallSizes DEF MessageWrong
  <2> QED BY <2>1, <2>2
<1> QED BY <1>9, <1>10, <1>11 DEF v

-----------------------------------------------------------------------------
(* The hash functions: the inductive invariant.  While the table is        *)
(* checked the memory is what it was, and what is known of a part is what  *)
(* the messages in it are.  While messages are hashed nothing is wrong,    *)
(* the digests of those that are done are in the output, of the messages   *)
(* as they were at the call, and all else is as it was.                    *)

PartsRight(c, m, parts) ==
  \A r \in Ranges(c.n) : parts[r] # None => parts[r] = Checked(c, m, RangeOf(c.n, r))

PartlyHashed(c, m, todo) ==
  [a \in DOMAIN m |->
     IF a \in Bytes(c.out, c.n * c.size) /\ (a - c.out) \div c.size \notin todo
       THEN HC!Digested(c, m, (a - c.out) \div c.size)[((a - c.out) % c.size) + 1]
       ELSE m[a]]

GotRight(c, m, got) ==
  \A i \in 0 .. c.n - 1 : got[i] # None =>
    LET x == HC!Place(c, m, i) IN got[i] = Content(m, x.ptr, x.len)

TableRight(c, r, mm) ==
  /\ c.kind = "var" /\ mm = r.before
  /\ PartsRight(c, r.before, r.parts)
  /\ r.todo = 0 .. c.n - 1 /\ r.got = [i \in 0 .. c.n - 1 |-> None]

HashRight(c, r, mm) ==
  /\ HC!Wrong(c, r.before) = {}
  /\ mm = PartlyHashed(c, r.before, r.todo)
  /\ GotRight(c, r.before, r.got)

RunRight(c, r, mm) ==
  /\ r \in RunType(c.n) /\ MayBeMade(c, r.before) /\ ArgumentError(c) = None
  /\ r.phase = "table" => TableRight(c, r, mm)
  /\ r.phase = "hash"  => HashRight(c, r, mm)

CallInv ==
  /\ req = None => run = None /\ ret = None
  /\ ret # None => run = None
  /\ req # None => req \in HC!Calls
  /\ req # None /\ ret = None /\ run = None => mem \in Memories /\ HC!Callable(req, mem)
  /\ run # None => RunRight(req, run, mem)

LEMMA CallStarts == CallInit => CallInv
BY DEF CallInit, CallInv

LEMMA NotNone ==
  /\ \A e \in Errors \cup {"Ok"} : e # None
  /\ \A e \in Answers : e # None
  /\ \A e \in Seq(0 .. ByteMod - 1) : e # None
  /\ \A e \in HC!Calls : e # None
  /\ \A c \in HC!Calls : c.n > 0 => \A r \in RunType(c.n) : r # None
<1>1. \A c \in HC!Calls : c.n > 0 => c.n \in Address \ {0}
  BY CallFields DEF Address
<1> QED BY <1>1, NoneIsNothing

(* Arguments that have passed.                                             *)
LEMMA Passed ==
  ASSUME NEW c, NEW m, MayBeMade(c, m), ArgumentError(c) = None
  PROVE  /\ OutputPassed(c)
         /\ c.kind = "var" => TableChecked(c, m) /\ TablesPassed(c)
         /\ c.kind = "fixed" => HC!Wrong(c, m) = {}
         /\ c.kind \in {"fixed", "var"}
<1>1. c.kind \in {"fixed", "var"}
  BY CallFields DEF MayBeMade
<1>2. CASE c.kind = "fixed"
  <2>1. FixedError(c) = None
    BY <1>2 DEF ArgumentError
  <2> QED BY <1>2, <2>1, FixedOutput, FixedChecks
<1>3. CASE c.kind = "var"
  <2>1. VarError(c) = None
    BY <1>3 DEF ArgumentError
  <2>2. OutputPassed(c) /\ TablesPassed(c)
    BY <1>3, <2>1, VarChecks
  <2> QED BY <1>3, <2>2 DEF TableChecked
<1> QED BY <1>1, <1>2, <1>3

LEMMA ErrorIsWrong ==
  ASSUME NEW c, NEW m, MayBeMade(c, m), ArgumentError(c) # None
  PROVE  ArgumentError(c) \in HC!Wrong(c, m)
<1>1. c.kind \in {"fixed", "var"}
  BY CallFields DEF MayBeMade
<1>2. CASE c.kind = "fixed"
  BY <1>2, FixedChecks DEF ArgumentError
<1>3. CASE c.kind = "var"
  BY <1>3, VarChecks DEF ArgumentError
<1> QED BY <1>1, <1>2, <1>3

LEMMA TotalsThere ==
  ASSUME NEW c, NEW m, TableChecked(c, m)
  PROVE  \E t : TotalsOf(t, c, m)
<1> DEFINE place == [i \in 0 .. c.n - 1 |-> HC!Place(c, m, i)]
<1>1. c.n \in Nat
  BY CallFields DEF TableChecked, MayBeMade
<1>2. \A k \in 1 .. c.n : place[k-1].len \in Nat
  <2> TAKE k \in 1 .. c.n
  <2>1. k - 1 \in 0 .. c.n - 1
    BY <1>1
  <2>2. place[k-1] = HC!Place(c, m, k-1) /\ HC!Place(c, m, k-1).len \in Nat
    BY <2>1, LensIn
  <2> QED BY <2>2
<1>3. PICK t : t = CHOOSE f : f = [k \in 0 .. c.n |-> IF k = 0 THEN 0 ELSE f[k-1] + place[k-1].len]
  OBVIOUS
<1> HIDE DEF place
<1>4. AreTotals(t, place, c.n)
  BY <1>1, <1>2, <1>3, TotalsAre
<1> QED BY <1>4 DEF TotalsOf, place

LEMMA CheckedIn ==
  ASSUME NEW c, NEW m, TableChecked(c, m), NEW r \in Ranges(c.n)
  PROVE  Checked(c, m, RangeOf(c.n, r)) \in Answers
<1>1. c.n \in Nat \ {0}
  BY CallFields DEF TableChecked, MayBeMade
<1>2. PICK q : q = CeilDiv(c.n, Chunk(c.n))
  OBVIOUS
<1>3. PICK lo, hi, range : lo = From(c.n, r) /\ hi = Till(c.n, r) /\ range = RangeOf(c.n, r)
  OBVIOUS
<1>4. lo \in 0 .. c.n - 1 /\ hi \in lo + 1 .. c.n /\ range = lo .. hi - 1
  <2>1. r \in 0 .. q - 1
    BY <1>1, <1>2, RangesLie
  <2> QED BY <1>1, <1>2, <1>3, <2>1, RangesLie
<1>5. PICK t : TotalsOf(t, c, m)
  BY TotalsThere
<1>6. RangeRight(c, m, lo, hi, Checked(c, m, range), t)
  BY <1>4, <1>5, CheckedIs
<1> QED BY <1>3, <1>6 DEF RangeRight

(* The verdict about all parts: what it names is wrong, and with none      *)
(* nothing is.                                                             *)
LEMMA VerdictRight ==
  ASSUME NEW c, NEW m, TableChecked(c, m), NEW parts, AllChecked(c, m, parts)
  PROVE  /\ Verdict(parts).error # None => Verdict(parts).error \in HC!Wrong(c, m)
         /\ Verdict(parts).error = None => HC!Wrong(c, m) = {} /\ Verdict(parts).sum \in 0 .. UsizeMax
<1> DEFINE v == Verdict(parts)
<1>1. c.n \in Nat \ {0} /\ HC!Messages(c) = 0 .. c.n - 1
  BY CallFields DEF TableChecked, MayBeMade, HC!Messages
<1>2. PICK t : TotalsOf(t, c, m)
  BY TotalsThere
<1>3. /\ (\A i \in 0 .. c.n - 1 : ~WrongAt(c, m, i)) => v.error = None /\ v.sum = Lesser(t[c.n], UsizeMax)
      /\ \A i \in 0 .. c.n - 1 :
           WrongAt(c, m, i) /\ (\A j \in 0 .. i - 1 : ~WrongAt(c, m, j)) =>
             v.error # None /\ MessageWrong(c, HC!Place(c, m, i), v.error)
  BY <1>2, VerdictIs
<1> HIDE DEF v
<1>4. \A e : e \in HC!Wrong(c, m) <=> \E i \in 0 .. c.n - 1 : MessageWrong(c, HC!Place(c, m, i), e)
  BY <1>1, WrongMessages DEF TableChecked
<1>5. \A i, e : MessageWrong(c, HC!Place(c, m, i), e) => WrongAt(c, m, i)
  BY CallSizes DEF MessageWrong, WrongAt
<1>6. CASE \A i \in 0 .. c.n - 1 : ~WrongAt(c, m, i)
  <2>1. HC!Wrong(c, m) = {}
    BY <1>4, <1>5, <1>6
  <2>2. t[c.n] \in Nat /\ UsizeMax \in Nat
    <3>1. c.n \in 0 .. c.n
      BY <1>1
    <3> QED BY <1>2, <3>1, CallSizes DEF TotalsOf, AreTotals
  <2>3. v.error = None /\ v.sum \in 0 .. UsizeMax
    BY <1>3, <1>6, <2>2 DEF Lesser
  <2> QED BY <2>1, <2>3 DEF v
<1>7. CASE \E i \in 0 .. c.n - 1 : WrongAt(c, m, i)
  <2> DEFINE S == {i \in 0 .. c.n - 1 : WrongAt(c, m, i)}
  <2>1. S # {} /\ S \subseteq Nat
    BY <1>1, <1>7
  <2>2. PICK i \in S : \A j \in S : i <= j
    BY <2>1, Least
  <2>3. i \in 0 .. c.n - 1 /\ WrongAt(c, m, i) /\ \A j \in 0 .. i - 1 : ~WrongAt(c, m, j)
    <3>1. \A j \in 0 .. i - 1 : j \in 0 .. c.n - 1 /\ ~(i <= j)
      BY <1>1, <2>1
    <3> QED BY <2>2, <3>1
  <2>4. v.error # None /\ MessageWrong(c, HC!Place(c, m, i), v.error)
    BY <1>3, <2>3
  <2> QED BY <1>4, <2>3, <2>4 DEF v
<1> QED BY <1>6, <1>7

(* The output of message i.                                                *)
LEMMA OutputPart ==
  ASSUME NEW c \in HC!Calls, c.n > 0, NEW i \in 0 .. c.n - 1, NEW a \in Nat
  PROVE  /\ a \in Bytes(c.out, c.n * c.size) => (a - c.out) \div c.size \in 0 .. c.n - 1
         /\ a \in Bytes(c.out + i * c.size, c.size) <=>
              a \in Bytes(c.out, c.n * c.size) /\ (a - c.out) \div c.size = i
         /\ a \in Bytes(c.out + i * c.size, c.size) =>
              a - (c.out + i * c.size) + 1 = ((a - c.out) % c.size) + 1
<1>1. PICK o, n, s : o = c.out /\ n = c.n /\ s = c.size
  OBVIOUS
<1>2. o \in Nat /\ n \in Nat \ {0} /\ s \in Nat \ {0} /\ i \in 0 .. n - 1
  BY <1>1, CallFields
<1> DEFINE x == a - o
           q == x \div s
           r == x % s
<1>3. n * s \in Nat /\ i * s \in Nat /\ s * n = n * s
  BY <1>2
<1>4. a \in Bytes(o, n * s) <=> x \in 0 .. s * n - 1
  BY <1>2, <1>3 DEF Bytes
<1>5. x \in 0 .. s * n - 1 => q \in 0 .. n - 1
  <2>1. n \in Nat
    BY <1>2
  <2> HIDE DEF x
  <2> QED BY <1>2, <2>1, QuotBound
<1>6. x \in Nat => q \in Nat /\ r \in 0 .. s - 1 /\ x = s * q + r
  <2> HIDE DEF x
  <2> QED BY <1>2, DivMod
<1>7. ASSUME a \in Bytes(o + i * s, s)
      PROVE  x \in 0 .. s * n - 1 /\ q = i /\ a - (o + i * s) = r
  <2>1. PICK y \in 0 .. s - 1 : x = s * i + y /\ a - (o + i * s) = y
    <3>1. a - (o + i * s) \in 0 .. s - 1
      BY <1>2, <1>3, <1>7 DEF Bytes
    <3>2. s * i = i * s /\ x = s * i + (a - (o + i * s))
      BY <1>2, <1>3
    <3> QED BY <3>1, <3>2
  <2>2. i \in Nat
    BY <1>2
  <2>3. r = y /\ q = i
    <3>1. (s * i + y) % s = y /\ (s * i + y) \div s = i
      BY <1>2, <2>2, QuotRem
    <3> HIDE DEF x
    <3> QED BY <2>1, <3>1
  <2>4. x \in 0 .. s * n - 1
    <3>1. i * s + y \in 0 .. n * s - 1
      BY <1>2, ProductBound
    <3>2. s * i = i * s
      BY <1>2, <2>2
    <3> HIDE DEF x
    <3> QED BY <1>3, <2>1, <3>1, <3>2
  <2> HIDE DEF x, q, r
  <2> QED BY <2>1, <2>3, <2>4
<1>8. ASSUME x \in 0 .. s * n - 1, q = i
      PROVE  a \in Bytes(o + i * s, s)
  <2>1. x \in Nat
    BY <1>3, <1>8
  <2>2. r \in 0 .. s - 1 /\ x = s * i + r
    BY <1>6, <1>8, <2>1
  <2>3. s * i = i * s
    BY <1>2
  <2>4. a = o + i * s + r
    <3> HIDE DEF r
    <3> QED BY <1>2, <1>3, <2>2, <2>3
  <2> HIDE DEF r, x, q
  <2> QED BY <1>2, <1>3, <2>2, <2>4 DEF Bytes
<1> HIDE DEF x, q, r
<1>9. /\ a \in Bytes(o, n * s) => q \in 0 .. n - 1
      /\ a \in Bytes(o + i * s, s) <=> a \in Bytes(o, n * s) /\ q = i
      /\ a \in Bytes(o + i * s, s) => a - (o + i * s) + 1 = r + 1
  BY <1>4, <1>5, <1>7, <1>8
<1> QED BY <1>1, <1>9 DEF x, q, r

(* The memory while messages are hashed: at first as it was, at last as    *)
(* the call leaves it, and in between changed in the output only.          *)
LEMMA PartlyIs ==
  ASSUME NEW c, NEW m, MayBeMade(c, m)
  PROVE  /\ PartlyHashed(c, m, 0 .. c.n - 1) = m
         /\ PartlyHashed(c, m, {}) = HC!Hashed(c, m)
         /\ \A todo : Outside(c, m, PartlyHashed(c, m, todo)) /\ DOMAIN PartlyHashed(c, m, todo) = DOMAIN m
<1>1. c \in HC!Calls /\ c.n > 0 /\ c.n \in Nat \ {0} /\ m = [a \in DOMAIN m |-> m[a]] /\ DOMAIN m \subseteq Nat
  <2>1. DOMAIN m = DOMAIN Blank
    BY DEF MayBeMade, Memories
  <2>2. 1 .. UsizeMax - 1 \subseteq Nat
    BY CallSizes
  <2>3. m = [a \in DOMAIN m |-> m[a]]
    BY DEF MayBeMade, Memories
  <2> QED BY <2>1, <2>2, <2>3, CallFields, CallSizes DEF MayBeMade
<1>2. HC!OutLen(c) = c.n * c.size
  BY DEF HC!OutLen
<1>3. PartlyHashed(c, m, 0 .. c.n - 1) = m
  <2>1. 0 \in 0 .. c.n - 1
    BY <1>1
  <2>2. \A a \in DOMAIN m : a \in Bytes(c.out, c.n * c.size) => (a - c.out) \div c.size \in 0 .. c.n - 1
    BY <1>1, <2>1, OutputPart
  <2> QED BY <1>1, <2>2 DEF PartlyHashed
<1>4. PartlyHashed(c, m, {}) = HC!Hashed(c, m)
  BY <1>2, SameSlices DEF PartlyHashed, HC!Hashed
<1>5. \A todo : Outside(c, m, PartlyHashed(c, m, todo)) /\ DOMAIN PartlyHashed(c, m, todo) = DOMAIN m
  BY <1>2 DEF PartlyHashed, Outside
<1> QED BY <1>3, <1>4, <1>5

(* A digest stored is the digest of the message as it was.                 *)
LEMMA StoredIs ==
  ASSUME NEW c, NEW m, MayBeMade(c, m), NEW todo, NEW i \in 0 .. c.n - 1, NEW content,
         LET x == HC!Place(c, m, i) IN content = Content(m, x.ptr, x.len),
         NEW mm, mm = PartlyHashed(c, m, todo)
  PROVE  [a \in DOMAIN mm |->
            IF a \in Bytes(c.out + i * c.size, c.size)
              THEN Digest(c.size, content)[a - (c.out + i * c.size) + 1] ELSE mm[a]]
           = PartlyHashed(c, m, todo \ {i})
<1> DEFINE L(a) == IF a \in Bytes(c.out + i * c.size, c.size)
                     THEN Digest(c.size, content)[a - (c.out + i * c.size) + 1] ELSE mm[a]
           new == PartlyHashed(c, m, todo \ {i})
<1>1. DOMAIN mm = DOMAIN m /\ DOMAIN new = DOMAIN m /\ DOMAIN m \subseteq Nat
  <2>1. DOMAIN m = DOMAIN Blank /\ 1 .. UsizeMax - 1 \subseteq Nat
    BY CallSizes DEF MayBeMade, Memories
  <2> QED BY <2>1, PartlyIs, CallSizes
<1>2. c \in HC!Calls /\ c.n > 0
  BY DEF MayBeMade
<1>3. HC!Digested(c, m, i) = Digest(c.size, content)
  BY SameSlices DEF HC!Digested
<1>4. ASSUME NEW a \in DOMAIN m
      PROVE  L(a) = new[a]
  <2> DEFINE out == a \in Bytes(c.out, c.n * c.size)
             q == (a - c.out) \div c.size
             r == (a - c.out) % c.size
  <2>1. /\ a \in Bytes(c.out + i * c.size, c.size) <=> out /\ q = i
        /\ a \in Bytes(c.out + i * c.size, c.size) => a - (c.out + i * c.size) + 1 = r + 1
    BY <1>1, <1>2, OutputPart
  <2>2. mm[a] = IF out /\ q \notin todo THEN HC!Digested(c, m, q)[r + 1] ELSE m[a]
    BY DEF PartlyHashed
  <2>3. new[a] = IF out /\ q \notin todo \ {i} THEN HC!Digested(c, m, q)[r + 1] ELSE m[a]
    BY DEF PartlyHashed
  <2> HIDE DEF out, q, r, new
  <2>4. CASE out /\ q = i
    <3>1. L(a) = Digest(c.size, content)[r + 1]
      BY <2>1, <2>4
    <3>2. new[a] = HC!Digested(c, m, i)[r + 1]
      BY <2>3, <2>4
    <3> QED BY <1>3, <3>1, <3>2
  <2>5. CASE ~(out /\ q = i)
    <3>1. L(a) = mm[a]
      BY <2>1, <2>5
    <3>2. out => (q \notin todo <=> q \notin todo \ {i})
      BY <2>5
    <3> HIDE DEF L
    <3> QED BY <2>2, <2>3, <3>1, <3>2
  <2> QED BY <2>4, <2>5
<1>5. new = [a \in DOMAIN m |-> new[a]]
  BY DEF PartlyHashed
<1> HIDE DEF new, L
<1>6. [a \in DOMAIN mm |-> L(a)] = new
  BY <1>1, <1>4, <1>5
<1> QED BY <1>6 DEF new, L

-----------------------------------------------------------------------------
(* The hash functions: every step keeps the invariant, and is a step of    *)
(* what the functions promise or none.                                     *)

Promised == HC!Next \/ UNCHANGED HC!vars

LEMMA CallsAsked ==
  ASSUME Asks
  PROVE  req = None /\ \E c \in HC!Calls, m \in Memories : Ask(c, m)
<1>1. 1 \in 0 .. UsizeMax
  BY CallSizes
<1>2. \A data, n, lens, out \in 0 .. UsizeMax : \A size \in {Len256, Len128} :
        FixedCall(data, n, lens, out, size) \in HC!Calls /\ VarCall(data, n, lens, out, size) \in HC!Calls
  BY SameSlices DEF FixedCall, VarCall, HC!Calls
<1>3. \A a \in OneArgs : Hash256(a) \in HC!Calls /\ Hash128(a) \in HC!Calls /\ a.mem \in Memories
  <2> TAKE a \in OneArgs
  <2>1. a.data \in 0 .. UsizeMax /\ a.len \in 0 .. UsizeMax /\ a.out \in 0 .. UsizeMax /\ a.mem \in Memories
    BY HashArguments DEF Address
  <2> QED BY <1>1, <1>2, <2>1 DEF Hash256, Hash128
<1>4. \A a \in FixedArgs :
        Hash256ManyFixed(a) \in HC!Calls /\ Hash128ManyFixed(a) \in HC!Calls /\ a.mem \in Memories
  <2> TAKE a \in FixedArgs
  <2>1. /\ a.data \in 0 .. UsizeMax /\ a.n \in 0 .. UsizeMax /\ a.len \in 0 .. UsizeMax
        /\ a.out \in 0 .. UsizeMax /\ a.mem \in Memories
    BY HashArguments DEF Address
  <2> QED BY <1>2, <2>1 DEF Hash256ManyFixed, Hash128ManyFixed
<1>5. \A a \in VarArgs :
        Hash256ManyVar(a) \in HC!Calls /\ Hash128ManyVar(a) \in HC!Calls /\ a.mem \in Memories
  <2> TAKE a \in VarArgs
  <2>1. /\ a.ptrs \in 0 .. UsizeMax /\ a.n \in 0 .. UsizeMax /\ a.lens \in 0 .. UsizeMax
        /\ a.out \in 0 .. UsizeMax /\ a.mem \in Memories
    BY HashArguments DEF Address
  <2> QED BY <1>2, <2>1 DEF Hash256ManyVar, Hash128ManyVar
<1> QED BY <1>3, <1>4, <1>5 DEF Asks

LEMMA AskStep ==
  ASSUME CallInv, Asks
  PROVE  CallInv' /\ Promised
<1>1. req = None
  BY CallsAsked
<1>2. PICK c \in HC!Calls, m \in Memories : Ask(c, m)
  BY CallsAsked
<1>3. run = None /\ ret = None
  BY <1>1 DEF CallInv
<1>4. mem' = m /\ req' = c /\ ret' = None /\ run' = None /\ HC!Callable(c, m) /\ UNCHANGED ret
  BY <1>2, <1>3 DEF Ask
<1>5. c # None
  BY NotNone
<1>6. CallInv'
  BY <1>2, <1>4, <1>5 DEF CallInv
<1>7. HC!Ask
  BY <1>1, <1>2, <1>4 DEF HC!Ask, Memories
<1> QED BY <1>6, <1>7 DEF Promised, HC!Next

(* Inside a call nothing is promised yet.                                  *)
LEMMA InsideStep ==
  ASSUME CallInv, RunRight(req, run, mem)', run' # None,
         \/ run # None /\ run'.before = run.before
         \/ run = None /\ run'.before = mem,
         req # None, ret = None, UNCHANGED <<req, ret>>
  PROVE  CallInv' /\ Promised
<1>1. req' # None /\ ret' = None /\ req' \in HC!Calls
  BY DEF CallInv
<1>2. CallInv'
  BY <1>1 DEF CallInv
<1>3. UNCHANGED HC!vars
  <2>1. (IF run' = None THEN mem' ELSE run'.before) = (IF run = None THEN mem ELSE run.before)
    OBVIOUS
  <2> QED BY <2>1 DEF HC!vars
<1> QED BY <1>2, <1>3 DEF Promised

(* A call that answers.                                                    *)
LEMMA AnswerStep ==
  ASSUME CallInv, NEW answer, Answer(answer), answer # None, req # None, ret = None,
         NEW m, m = IF run = None THEN mem ELSE run.before,
         \/ HC!Wrong(req, m) = {} /\ answer = "Ok" /\ mem = HC!Hashed(req, m)
         \/ answer \in HC!Wrong(req, m) /\ mem = m
  PROVE  CallInv' /\ Promised
<1>1. ret' = answer /\ run' = None /\ mem' = mem /\ req' = req
  BY DEF Answer
<1>2. CallInv'
  <2>1. req' \in HC!Calls /\ req' # None /\ ret' # None
    BY <1>1 DEF CallInv
  <2> QED BY <1>1, <2>1 DEF CallInv
<1>3. HC!Answer
  BY <1>1 DEF HC!Answer
<1> QED BY <1>2, <1>3 DEF Promised, HC!Next

LEMMA EnteredIs ==
  ASSUME NEW c \in HC!Calls, c.n > 0, mem \in Memories, NEW phase \in {"table", "hash"},
         NEW r, r = Entered(c, phase)
  PROVE  /\ r \in RunType(c.n) /\ r.phase = phase /\ r.before = mem
         /\ r.parts = [p \in Ranges(c.n) |-> None] /\ r.todo = 0 .. c.n - 1
         /\ r.got = [i \in 0 .. c.n - 1 |-> None]
<1>1. 0 \in 0 .. UsizeMax
  BY CallSizes
<1>2. r = [phase |-> phase, before |-> mem, parts |-> [p \in Ranges(c.n) |-> None], total |-> 0,
           todo |-> 0 .. c.n - 1, got |-> [i \in 0 .. c.n - 1 |-> None]]
  BY DEF Entered
<1>3. /\ [p \in Ranges(c.n) |-> None] \in [Ranges(c.n) -> Answers \cup {None}]
      /\ [i \in 0 .. c.n - 1 |-> None] \in [0 .. c.n - 1 -> Seq(0 .. ByteMod - 1) \cup {None}]
      /\ 0 .. c.n - 1 \in SUBSET (0 .. c.n - 1)
  OBVIOUS
<1> QED BY <1>1, <1>2, <1>3 DEF RunType

LEMMA CheckArgumentsStep ==
  ASSUME CallInv, CheckArguments
  PROVE  CallInv' /\ Promised
<1>1. req # None /\ ret = None /\ run = None /\ mem \in Memories /\ HC!Callable(req, mem) /\ req \in HC!Calls
  BY DEF CheckArguments, CallInv
<1>2. CASE req.n = 0
  <2>1. Answer("Ok")
    BY <1>2 DEF CheckArguments
  <2>2. HC!Wrong(req, mem) = {}
    BY <1>2 DEF HC!Wrong
  <2>3. mem = HC!Hashed(req, mem)
    <3>1. mem = [a \in DOMAIN mem |-> mem[a]]
      BY <1>1 DEF Memories
    <3>2. HC!OutLen(req) = 0
      <4>1. 0 * req.size = 0
        BY <1>1, CallFields
      <4> QED BY <1>2, <4>1 DEF HC!OutLen
    <3>3. Bytes(req.out, HC!OutLen(req)) = {}
      BY <1>1, <3>2, CallFields DEF Bytes
    <3> QED BY <3>1, <3>3, SameSlices DEF HC!Hashed
  <2>4. "Ok" # None
    BY CallSizes
  <2> QED BY <1>1, <2>1, <2>2, <2>3, <2>4, AnswerStep
<1>3. CASE req.n # 0
  <2>1. req.n > 0
    BY <1>1, <1>3, CallFields
  <2>2. MayBeMade(req, mem)
    BY <1>1, <2>1 DEF MayBeMade
  <2>3. CASE ArgumentError(req) # None
    <3>1. Answer(ArgumentError(req))
      BY <1>3, <2>3 DEF CheckArguments
    <3>2. ArgumentError(req) \in HC!Wrong(req, mem)
      BY <2>2, <2>3, ErrorIsWrong
    <3> QED BY <1>1, <2>3, <3>1, <3>2, AnswerStep
  <2>4. CASE ArgumentError(req) = None
    <3>1. PICK phase : phase = IF req.kind = "var" THEN "table" ELSE "hash"
      OBVIOUS
    <3>2. run' = Entered(req, phase) /\ UNCHANGED <<mem, req, ret>>
      BY <1>3, <2>4, <3>1 DEF CheckArguments
    <3>3. /\ run' \in RunType(req.n) /\ run'.phase = phase /\ run'.before = mem
          /\ run'.parts = [p \in Ranges(req.n) |-> None] /\ run'.todo = 0 .. req.n - 1
          /\ run'.got = [i \in 0 .. req.n - 1 |-> None]
      BY <1>1, <2>1, <3>1, <3>2, EnteredIs
    <3>4. run' # None
      BY <1>1, <2>1, <3>3, NotNone
    <3>5. phase = "table" => TableRight(req, run', mem)
      BY <3>1, <3>3 DEF TableRight, PartsRight
    <3>6. phase = "hash" => HashRight(req, run', mem)
      <4>1. ASSUME phase = "hash" PROVE HashRight(req, run', mem)
        <5>1. HC!Wrong(req, mem) = {}
          BY <2>2, <2>4, <3>1, <4>1, Passed
        <5>2. mem = PartlyHashed(req, mem, 0 .. req.n - 1)
          BY <2>2, PartlyIs
        <5>3. GotRight(req, mem, run'.got)
          BY <3>3 DEF GotRight
        <5> QED BY <3>3, <5>1, <5>2, <5>3 DEF HashRight
      <4> QED BY <4>1
    <3>7. RunRight(req, run, mem)'
      <4>1. RunRight(req, run', mem)
        BY <2>2, <2>4, <3>3, <3>5, <3>6 DEF RunRight
      <4>2. RunRight(req, run, mem)' <=> RunRight(req', run', mem')
        BY DEF RunRight, TableRight, HashRight
      <4> QED BY <3>2, <4>1, <4>2
    <3> QED BY <1>1, <3>2, <3>3, <3>4, <3>7, InsideStep
  <2> QED BY <2>3, <2>4
<1> QED BY <1>2, <1>3

LEMMA InCall ==
  ASSUME CallInv, NEW phase \in {"table", "hash"}, In(phase)
  PROVE  /\ run # None /\ run.phase = phase /\ RunRight(req, run, mem) /\ run \in RunType(req.n)
         /\ MayBeMade(req, run.before) /\ req \in HC!Calls /\ req # None /\ ret = None /\ req.n > 0
         /\ phase = "table" => TableRight(req, run, mem)
         /\ phase = "hash" => HashRight(req, run, mem)
<1>1. run # None /\ run.phase = phase
  BY DEF In
<1>2. RunRight(req, run, mem) /\ ret = None
  BY <1>1 DEF CallInv
<1>3. run \in RunType(req.n) /\ MayBeMade(req, run.before)
  BY <1>2 DEF RunRight
<1>4. req \in HC!Calls /\ req.n > 0
  BY <1>3 DEF MayBeMade
<1>5. req # None
  BY <1>4, NotNone
<1> QED BY <1>1, <1>2, <1>3, <1>4, <1>5 DEF RunRight

(* The fields of what a call holds.                                        *)
LEMMA RunFields ==
  ASSUME NEW n, NEW r \in RunType(n)
  PROVE  /\ r.before \in Memories /\ r.total \in 0 .. UsizeMax /\ r.todo \in SUBSET (0 .. n - 1)
         /\ r.parts \in [Ranges(n) -> Answers \cup {None}]
         /\ r.got \in [0 .. n - 1 -> Seq(0 .. ByteMod - 1) \cup {None}]
         /\ r.phase \in {"table", "hash"}
BY DEF RunType

(* Primed.                                                                 *)
LEMMA RunRightNext ==
  ASSUME NEW r, r = run', req' = req, NEW mm, mm = mem', RunRight(req, r, mm)
  PROVE  RunRight(req, run, mem)'
<1>1. RunRight(req, run, mem)' <=> RunRight(req', run', mem')
  BY DEF RunRight, TableRight, HashRight
<1> QED BY <1>1

LEMMA CheckPartStep ==
  ASSUME CallInv, In("table"), NEW r \in DOMAIN run.parts, CheckPart(r)
  PROVE  CallInv' /\ Promised
<1> DEFINE x == Checked(req, mem, RangeOf(req.n, r))
<1>1. /\ run # None /\ run.phase = "table" /\ RunRight(req, run, mem) /\ run \in RunType(req.n)
      /\ MayBeMade(req, run.before) /\ req # None /\ ret = None /\ req \in HC!Calls /\ req.n > 0
      /\ TableRight(req, run, mem)
  BY InCall
<1>2. run' = [run EXCEPT !.parts[r] = x] /\ UNCHANGED <<mem, req, ret>>
  BY DEF CheckPart
<1>3. mem = run.before /\ req.kind = "var" /\ ArgumentError(req) = None
  BY <1>1 DEF TableRight, RunRight
<1>4. /\ run.parts \in [Ranges(req.n) -> Answers \cup {None}] /\ r \in Ranges(req.n)
  BY <1>1, RunFields
<1>5. TableChecked(req, mem)
  BY <1>1, <1>3, Passed
<1>6. x \in Answers
  BY <1>4, <1>5, CheckedIn
<1> HIDE DEF x
<1>7. PICK new : new = run'
  OBVIOUS
<1>8. /\ new.parts = [run.parts EXCEPT ![r] = x] /\ new.phase = "table" /\ new.before = run.before
      /\ new.todo = run.todo /\ new.got = run.got /\ new \in RunType(req.n)
  BY <1>1, <1>2, <1>4, <1>6, <1>7 DEF RunType
<1>9. PartsRight(req, run.before, new.parts)
  <2>1. PartsRight(req, run.before, run.parts)
    BY <1>1 DEF TableRight
  <2>2. x = Checked(req, run.before, RangeOf(req.n, r))
    BY <1>3 DEF x
  <2> QED BY <1>4, <1>8, <2>1, <2>2 DEF PartsRight
<1>10. TableRight(req, new, mem)
  BY <1>1, <1>3, <1>8, <1>9 DEF TableRight
<1>11. RunRight(req, new, mem)
  BY <1>1, <1>3, <1>8, <1>10 DEF RunRight
<1>12. RunRight(req, run, mem)'
  BY <1>2, <1>7, <1>11, RunRightNext
<1>13. run' # None
  BY <1>1, <1>7, <1>8, NotNone
<1> QED BY <1>1, <1>2, <1>7, <1>8, <1>12, <1>13, InsideStep

LEMMA AllPartsKnown ==
  ASSUME CallInv, In("table"), PartsDone
  PROVE  TableChecked(req, mem) /\ AllChecked(req, mem, run.parts) /\ mem = run.before
<1>1. /\ run # None /\ run.phase = "table" /\ RunRight(req, run, mem) /\ run \in RunType(req.n)
      /\ MayBeMade(req, run.before) /\ TableRight(req, run, mem)
  BY InCall
<1>2. mem = run.before /\ req.kind = "var" /\ ArgumentError(req) = None /\ PartsRight(req, mem, run.parts)
  BY <1>1 DEF TableRight, RunRight
<1>3. DOMAIN run.parts = Ranges(req.n)
  BY <1>1, RunFields
<1>4. TableChecked(req, mem)
  BY <1>1, <1>2, Passed
<1> QED BY <1>2, <1>3, <1>4 DEF AllChecked, PartsRight, PartsDone

LEMMA SumUpStep ==
  ASSUME CallInv, SumUp
  PROVE  CallInv' /\ Promised
<1> DEFINE v == Verdict(run.parts)
<1>1. In("table") /\ PartsDone
  BY DEF SumUp
<1>2. /\ run # None /\ run.phase = "table" /\ RunRight(req, run, mem) /\ run \in RunType(req.n)
      /\ MayBeMade(req, run.before) /\ req # None /\ ret = None /\ req \in HC!Calls /\ req.n > 0
      /\ TableRight(req, run, mem)
  BY <1>1, InCall
<1>3. TableChecked(req, mem) /\ AllChecked(req, mem, run.parts) /\ mem = run.before
  BY <1>1, AllPartsKnown
<1>4. /\ v.error # None => v.error \in HC!Wrong(req, mem)
      /\ v.error = None => HC!Wrong(req, mem) = {} /\ v.sum \in 0 .. UsizeMax
  BY <1>3, VerdictRight
<1>5. IF v.error # None THEN Answer(v.error)
      ELSE run' = [run EXCEPT !.phase = "hash", !.total = v.sum] /\ UNCHANGED <<mem, req, ret>>
  BY DEF SumUp
<1> HIDE DEF v
<1>6. CASE v.error # None
  <2>1. Answer(v.error) /\ v.error \in HC!Wrong(req, mem)
    BY <1>4, <1>5, <1>6
  <2> QED BY <1>2, <1>3, <1>6, <2>1, AnswerStep
<1>7. CASE v.error = None
  <2>1. run' = [run EXCEPT !.phase = "hash", !.total = v.sum] /\ UNCHANGED <<mem, req, ret>>
    BY <1>5, <1>7
  <2>2. PICK new : new = run'
    OBVIOUS
  <2>3. /\ new.phase = "hash" /\ new.before = run.before /\ new.todo = run.todo /\ new.got = run.got
        /\ new \in RunType(req.n)
    BY <1>2, <1>4, <1>7, <2>1, <2>2 DEF RunType
  <2>4. new.todo = 0 .. req.n - 1 /\ new.got = [i \in 0 .. req.n - 1 |-> None]
    BY <1>2, <2>3 DEF TableRight
  <2>5. mem = PartlyHashed(req, run.before, new.todo)
    BY <1>2, <1>3, <2>4, PartlyIs
  <2>6. GotRight(req, run.before, new.got)
    BY <2>4 DEF GotRight
  <2>7. HashRight(req, new, mem)
    BY <1>3, <1>4, <1>7, <2>3, <2>5, <2>6 DEF HashRight
  <2>8. RunRight(req, new, mem)
    BY <1>2, <2>3, <2>7 DEF RunRight
  <2>9. RunRight(req, run, mem)'
    BY <2>1, <2>2, <2>8, RunRightNext
  <2>10. run' # None
    BY <1>2, <2>2, <2>3, NotNone
  <2> QED BY <1>2, <2>1, <2>2, <2>3, <2>9, <2>10, InsideStep
<1> QED BY <1>6, <1>7

LEMMA ReadStep ==
  ASSUME CallInv, In("hash"), NEW i \in run.todo, Read(i)
  PROVE  CallInv' /\ Promised
<1>1. /\ run # None /\ run.phase = "hash" /\ RunRight(req, run, mem) /\ run \in RunType(req.n)
      /\ MayBeMade(req, run.before) /\ req # None /\ ret = None /\ req \in HC!Calls /\ req.n > 0
      /\ HashRight(req, run, mem) /\ ArgumentError(req) = None
  BY InCall DEF RunRight
<1>2. PICK x : x = HC!Place(req, mem, i)
  OBVIOUS
<1>3. PICK content : content = Content(mem, x.ptr, x.len)
  OBVIOUS
<1>4. run' = [run EXCEPT !.got[i] = content] /\ UNCHANGED <<mem, req, ret>>
  BY <1>2, <1>3 DEF Read
<1>5. /\ run.got \in [0 .. req.n - 1 -> Seq(0 .. ByteMod - 1) \cup {None}]
      /\ i \in 0 .. req.n - 1
  BY <1>1, RunFields
<1>6. /\ HC!Wrong(req, run.before) = {} /\ mem = PartlyHashed(req, run.before, run.todo)
      /\ GotRight(req, run.before, run.got)
  BY <1>1 DEF HashRight
<1>7. Outside(req, run.before, mem)
  BY <1>1, <1>6, PartlyIs
<1>8. OutputPassed(req) /\ (req.kind = "var" => TablesPassed(req))
  BY <1>1, Passed
<1>9. i \in HC!Messages(req)
  BY <1>5 DEF HC!Messages
<1>10. x = HC!Place(req, run.before, i)
  BY <1>1, <1>2, <1>7, <1>8, <1>9, PlaceKept
<1>11. content = Content(run.before, x.ptr, x.len) /\ content \in Seq(0 .. ByteMod - 1)
  BY <1>1, <1>3, <1>6, <1>7, <1>8, <1>9, <1>10, ContentKept
<1>12. PICK new : new = run'
  OBVIOUS
<1>13. /\ new.got = [run.got EXCEPT ![i] = content] /\ new.phase = "hash" /\ new.before = run.before
       /\ new.todo = run.todo /\ new \in RunType(req.n)
  BY <1>1, <1>4, <1>5, <1>11, <1>12 DEF RunType
<1>14. GotRight(req, run.before, new.got)
  <2> SUFFICES ASSUME NEW j \in 0 .. req.n - 1, new.got[j] # None
               PROVE  LET y == HC!Place(req, run.before, j) IN new.got[j] = Content(run.before, y.ptr, y.len)
    BY DEF GotRight
  <2>1. CASE j = i
    BY <1>5, <1>10, <1>11, <1>13, <2>1
  <2>2. CASE j # i
    <3>1. new.got[j] = run.got[j]
      BY <1>5, <1>13, <2>2
    <3> QED BY <1>6, <3>1 DEF GotRight
  <2> QED BY <2>1, <2>2
<1>15. HashRight(req, new, mem)
  BY <1>6, <1>13, <1>14 DEF HashRight
<1>16. RunRight(req, new, mem)
  BY <1>1, <1>13, <1>15 DEF RunRight
<1>17. RunRight(req, run, mem)'
  BY <1>4, <1>12, <1>16, RunRightNext
<1>18. run' # None
  BY <1>1, <1>12, <1>13, NotNone
<1> QED BY <1>1, <1>4, <1>12, <1>13, <1>17, <1>18, InsideStep

LEMMA WriteStep ==
  ASSUME CallInv, In("hash"), NEW i \in run.todo, Write(i)
  PROVE  CallInv' /\ Promised
<1>1. /\ run # None /\ run.phase = "hash" /\ RunRight(req, run, mem) /\ run \in RunType(req.n)
      /\ MayBeMade(req, run.before) /\ req # None /\ ret = None /\ req \in HC!Calls /\ req.n > 0
      /\ HashRight(req, run, mem) /\ ArgumentError(req) = None
  BY InCall DEF RunRight
<1>2. /\ run.got[i] # None /\ UNCHANGED <<req, ret>>
      /\ run' = [run EXCEPT !.todo = @ \ {i}, !.got[i] = None]
  BY DEF Write
<1>3. /\ run.got \in [0 .. req.n - 1 -> Seq(0 .. ByteMod - 1) \cup {None}]
      /\ i \in 0 .. req.n - 1 /\ run.todo \in SUBSET (0 .. req.n - 1)
  BY <1>1, RunFields
<1>4. /\ HC!Wrong(req, run.before) = {} /\ mem = PartlyHashed(req, run.before, run.todo)
      /\ GotRight(req, run.before, run.got)
  BY <1>1 DEF HashRight
<1>5. PICK content : content = run.got[i]
  OBVIOUS
<1>6. LET x == HC!Place(req, run.before, i) IN content = Content(run.before, x.ptr, x.len)
  BY <1>2, <1>3, <1>4, <1>5 DEF GotRight
<1>7. mem' = [a \in DOMAIN mem |->
                IF a \in Bytes(req.out + i * req.size, req.size)
                  THEN Digest(req.size, content)[a - (req.out + i * req.size) + 1] ELSE mem[a]]
  BY <1>5 DEF Write
<1>8. mem' = PartlyHashed(req, run.before, run.todo \ {i})
  BY <1>1, <1>3, <1>4, <1>6, <1>7, StoredIs
<1>9. PICK new, mm : new = run' /\ mm = mem'
  OBVIOUS
<1>10. /\ new.got = [run.got EXCEPT ![i] = None] /\ new.phase = "hash" /\ new.before = run.before
       /\ new.todo = run.todo \ {i} /\ new \in RunType(req.n)
  BY <1>1, <1>2, <1>3, <1>9 DEF RunType
<1>11. GotRight(req, run.before, new.got)
  BY <1>3, <1>4, <1>10 DEF GotRight
<1>12. HashRight(req, new, mm)
  BY <1>4, <1>8, <1>9, <1>10, <1>11 DEF HashRight
<1>13. RunRight(req, new, mm)
  BY <1>1, <1>10, <1>12 DEF RunRight
<1>14. RunRight(req, run, mem)'
  BY <1>2, <1>9, <1>13, RunRightNext
<1>15. run' # None
  BY <1>1, <1>9, <1>10, NotNone
<1> QED BY <1>1, <1>2, <1>9, <1>10, <1>14, <1>15, InsideStep

LEMMA FinishStep ==
  ASSUME CallInv, Finish
  PROVE  CallInv' /\ Promised
<1>1. In("hash") /\ run.todo = {} /\ Answer("Ok")
  BY DEF Finish
<1>2. /\ run # None /\ MayBeMade(req, run.before) /\ req # None /\ ret = None
      /\ HashRight(req, run, mem)
  BY <1>1, InCall
<1>3. HC!Wrong(req, run.before) = {} /\ mem = HC!Hashed(req, run.before)
  BY <1>1, <1>2, PartlyIs DEF HashRight
<1>4. "Ok" # None
  BY CallSizes
<1> QED BY <1>1, <1>2, <1>3, <1>4, AnswerStep

LEMMA CollectStep ==
  ASSUME CallInv, Collect
  PROVE  CallInv' /\ Promised
<1>1. ret # None /\ run = None /\ mem' = Blank /\ req' = None /\ ret' = None /\ run' = None
  BY DEF Collect, CallInv
<1>2. CallInv'
  BY <1>1 DEF CallInv
<1>3. HC!Collect
  BY <1>1 DEF HC!Collect
<1> QED BY <1>2, <1>3 DEF Promised, HC!Next

LEMMA CallStep ==
  ASSUME CallInv, [CallNext]_calling
  PROVE  CallInv' /\ Promised
<1>1. CASE Asks
  BY <1>1, AskStep
<1>2. CASE CheckArguments
  BY <1>2, CheckArgumentsStep
<1>3. CASE In("table") /\ \E r \in DOMAIN run.parts : CheckPart(r)
  BY <1>3, CheckPartStep
<1>4. CASE SumUp
  BY <1>4, SumUpStep
<1>5. CASE In("hash") /\ \E i \in run.todo : Read(i)
  BY <1>5, ReadStep
<1>6. CASE In("hash") /\ \E i \in run.todo : Write(i)
  BY <1>6, WriteStep
<1>7. CASE Finish
  BY <1>7, FinishStep
<1>8. CASE Collect
  BY <1>8, CollectStep
<1>9. CASE UNCHANGED calling
  <2>1. mem' = mem /\ req' = req /\ ret' = ret /\ run' = run
    BY <1>9 DEF calling
  <2>2. CallInv'
    <3>1. RunRight(req, run, mem)' <=> RunRight(req', run', mem')
      BY DEF RunRight, TableRight, HashRight
    <3> QED BY <2>1, <3>1 DEF CallInv
  <2>3. UNCHANGED HC!vars
    BY <2>1 DEF HC!vars
  <2> QED BY <2>2, <2>3 DEF Promised
<1> QED BY <1>1, <1>2, <1>3, <1>4, <1>5, <1>6, <1>7, <1>8, <1>9 DEF CallNext

-----------------------------------------------------------------------------
(* The hash functions: the theorems.                                       *)

(* However the table is divided, a call that checks it comes to the        *)
(* verdict of a walk over the messages.                                    *)
LEMMA VerdictHolds ==
  ASSUME CallInv
  PROVE  TableVerdict
<1> SUFFICES ASSUME In("table"), PartsDone
             PROVE  TableVerdict
  BY DEF TableVerdict
<1> DEFINE v == Verdict(run.parts)
           place == [i \in 0 .. req.n - 1 |-> HC!Place(req, mem, i)]
           wrong == {i \in DOMAIN place : \E e \in Errors : MessageWrong(req, place[i], e)}
           total == CHOOSE f : f = [k \in 0 .. req.n |-> IF k = 0 THEN 0 ELSE f[k-1] + place[k-1].len]
<1>1. TableChecked(req, mem) /\ AllChecked(req, mem, run.parts)
  BY AllPartsKnown
<1>2. req.n \in Nat \ {0}
  BY <1>1, CallFields DEF TableChecked, MayBeMade
<1>3. \A i \in 0 .. req.n - 1 : place[i] = HC!Place(req, mem, i)
  OBVIOUS
<1>4. TotalsOf(total, req, mem)
  <2>1. \A k \in 1 .. req.n : place[k-1].len \in Nat
    <3> TAKE k \in 1 .. req.n
    <3>1. k - 1 \in 0 .. req.n - 1
      BY <1>2
    <3>2. HC!Place(req, mem, k-1).len \in Nat
      BY <1>1, <3>1, LensIn
    <3> QED BY <1>3, <3>1, <3>2
  <2> HIDE DEF place
  <2>2. PICK t : t = total
    OBVIOUS
  <2>3. AreTotals(t, place, req.n)
    BY <1>2, <2>1, <2>2, TotalsAre
  <2> QED BY <2>2, <2>3 DEF TotalsOf, place
<1>5. \A i : i \in wrong <=> i \in 0 .. req.n - 1 /\ WrongAt(req, mem, i)
  BY <1>3 DEF WrongAt
<1> HIDE DEF total
<1>6. /\ (\A i \in 0 .. req.n - 1 : ~WrongAt(req, mem, i)) => v.error = None /\ v.sum = Lesser(total[req.n], UsizeMax)
      /\ \A i \in 0 .. req.n - 1 :
           WrongAt(req, mem, i) /\ (\A j \in 0 .. i - 1 : ~WrongAt(req, mem, j)) =>
             v.error # None /\ MessageWrong(req, HC!Place(req, mem, i), v.error)
  BY <1>1, <1>4, VerdictIs
<1>7. IF wrong = {} THEN v.error = None /\ v.sum = Lesser(total[req.n], UsizeMax)
      ELSE MessageWrong(req, place[Min(wrong)], v.error)
  <2> HIDE DEF wrong, place, v
  <2>1. CASE wrong = {}
    BY <1>5, <1>6, <2>1
  <2>2. CASE wrong # {}
    <3>1. wrong \subseteq Nat
      BY <1>2, <1>5
    <3>2. PICK i \in wrong : \A j \in wrong : i <= j
      BY <2>2, <3>1, Least
    <3>3. Min(wrong) = i
      BY <3>1, <3>2, LeastFirst
    <3>4. i \in 0 .. req.n - 1 /\ WrongAt(req, mem, i) /\ \A j \in 0 .. i - 1 : ~WrongAt(req, mem, j)
      <4>1. \A j \in 0 .. i - 1 : j \in 0 .. req.n - 1 /\ ~(i <= j)
        BY <1>2, <1>5, <3>2
      <4> QED BY <1>5, <3>2, <4>1
    <3> QED BY <1>3, <1>6, <2>2, <3>3, <3>4
  <2> QED BY <2>1, <2>2
<1> QED BY <1>7 DEF TableVerdict, total

(* Every reachable state satisfies the inductive invariant: inside a hash  *)
(* function the memory is that of the call but for the digests of the      *)
(* messages that are done, and what a worker has read or a part has found  *)
(* is that of the messages as they were (src/ffi/hash.rs).                 *)
THEOREM CallInvariance == CallSpec => []CallInv
<1>1. CallInit => CallInv
  BY CallStarts
<1>2. CallInv /\ [CallNext]_calling => CallInv'
  BY CallStep
<1> QED BY <1>1, <1>2, PTL DEF CallSpec

(* The pool: with the table checked by parts in any order, the error that  *)
(* is reported is the one of the first message that is wrong, and without  *)
(* one the bytes to be hashed are counted without leaving a usize          *)
(* (check_var_table and map_ranges).                                       *)
THEOREM TableCheckedInOrder == CallSpec => []TableVerdict
<1>1. CallInv => TableVerdict
  BY VerdictHolds
<1> QED BY <1>1, CallInvariance, PTL

(* In the memory of the caller, with outputs written while other messages  *)
(* and the tables are still read, the hash functions answer from the       *)
(* memory as it was, change the output only, and refuse exactly when       *)
(* something is wrong, without a change (src/ffi/hash.rs).                 *)
THEOREM HashCallsKeepPromise == CallSpec => ImplementsHashCalls
<1>1. CallInit => HC!Init
  BY DEF CallInit, HC!Init
<1>2. CallInv /\ [CallNext]_calling => [HC!Next]_HC!vars
  BY CallStep DEF Promised
<1> QED BY <1>1, <1>2, CallInvariance, PTL DEF CallSpec, ImplementsHashCalls, HC!Spec

=============================================================================

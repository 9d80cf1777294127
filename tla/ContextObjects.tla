---------------------------- MODULE ContextObjects ----------------------------
(***************************************************************************)
(* The objects behind the contexts of the C interface, as values: a single *)
(* stream (LustroPrng, LustroXof) or a batch (LustroPrngBatch,             *)
(* LustroXofBatch) is its lanes, each a state with its counter, and the    *)
(* cursor, which is BlockLen in a batch.  StreamState and LaneBatch say    *)
(* more of what these operations do to a stream.                           *)
(***************************************************************************)
EXTENDS CSlices, FiniteSets

CONSTANTS
  State,              \* values of the state words
  StreamStep(_, _),   \* stream_step
  ForkLane(_, _, _),  \* fork_lane, by domain
  Absorbed(_),        \* absorb_with_domain in the XOF domain
  StepMod,            \* 2^64
  IdMod               \* 2^128

ASSUME StatesClosed ==
  /\ StepMod \in Nat \ {0} /\ IdMod \in Nat \ {0}
  /\ \A s \in State, n \in 0 .. StepMod-1 : StreamStep(s, n) \in State
  /\ \A dom \in {"prng", "xof"}, s \in State, id \in 0 .. IdMod-1 : ForkLane(dom, s, id) \in State

(* The statuses of calls that fail.                                        *)
Failures == {"InvalidPointer", "InvalidLength", "InvalidArgument", "OutOfMemory",
             "UnsupportedVersion", "InvalidKind", "InvalidCursor", "InternalPanic"}

Kinds      == {"Prng", "Xof", "PrngBatch", "XofBatch"}
BatchKinds == {"PrngBatch", "XofBatch"}

Dom(kind) == IF kind \in {"Prng", "PrngBatch"} THEN "prng" ELSE "xof"

SingleOf(kind) == IF Dom(kind) = "prng" THEN "Prng" ELSE "Xof"
BatchOf(kind)  == IF Dom(kind) = "prng" THEN "PrngBatch" ELSE "XofBatch"

BlockLen   == 32
LaneSize   == 48    \* size_of::<StreamCoreLane>(), and of a lane of a snapshot
IdSize     == 16    \* size_of::<StreamId>()
HeaderSize == 16

Lane == [s : State, step : 0 .. StepMod-1]

FreshLane(s) == [s |-> s, step |-> 0]

Made(kind, states) ==
  [kind |-> kind, lanes |-> [i \in DOMAIN states |-> FreshLane(states[i])], cursor |-> BlockLen]

Single(kind, s) == Made(kind, <<s>>)

Stepped(lane) == [s |-> StreamStep(lane.s, lane.step), step |-> (lane.step + 1) % StepMod]

Ran(lane, steps) ==
  LET r[k \in 0 .. steps] == IF k = 0 THEN lane ELSE Stepped(r[k-1])
  IN  r[steps]

Forward(o, steps) == [o EXCEPT !.lanes = [i \in DOMAIN @ |-> Ran(@[i], steps)]]

(* n bytes of a single stream.                                             *)
Drawn(o, n) ==
  LET rest  == BlockLen - o.cursor
      fresh == (n - rest + BlockLen - 1) \div BlockLen
  IN  IF n <= rest THEN [o EXCEPT !.cursor = @ + n]
      ELSE [Forward(o, fresh) EXCEPT !.cursor = n - rest - BlockLen * (fresh - 1)]

NextBlock(o) == [Forward(o, 1) EXCEPT !.cursor = BlockLen]

(* Children, by identifiers: one of a single stream, one per lane, all of  *)
(* them for every lane.                                                    *)
ChildState(o, i, id) == ForkLane(Dom(o.kind), o.lanes[i].s, id)

Child(o, id) == Single(o.kind, ChildState(o, 1, id))

ChildPerLane(o, ids) == Made(o.kind, [i \in DOMAIN o.lanes |-> ChildState(o, i, ids[i])])

Children(o, ids) ==
  LET n == Len(ids)
  IN  Made(o.kind, [k \in 1 .. Len(o.lanes) * n |->
                      ChildState(o, (k - 1) \div n + 1, ids[((k - 1) % n) + 1])])

Alone(o, index) ==
  [kind |-> SingleOf(o.kind), lanes |-> <<o.lanes[index + 1]>>, cursor |-> BlockLen]

RangeIds(first, n) == [i \in 1 .. n |-> (first + i - 1) % IdMod]

Walked(dom, s, path) ==
  LET w[j \in 0 .. Len(path)] == IF j = 0 THEN s ELSE ForkLane(dom, w[j-1], path[j])
  IN  w[Len(path)]

=============================================================================

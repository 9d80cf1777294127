------------------------------ MODULE LaneBatch ------------------------------
(***************************************************************************)
(* LustroPrngBatch and LustroXofBatch (src/prng.rs, src/xof.rs), the       *)
(* single streams taken out of them, the path derivations, and the batch   *)
(* snapshots with their format (src/types/snapshot.rs).  The two batch     *)
(* types differ in their roots and in the domain of a fork only; they are  *)
(* one here, with a domain.                                                *)
(*                                                                         *)
(* How fill_blocks divides its work is the matter of StreamDispatch; here  *)
(* it is one step.  A snapshot goes to storage that outlives the process;  *)
(* the program may end while it writes.                                    *)
(***************************************************************************)
EXTENDS Integers, Sequences, SequencesExt

CONSTANTS
  Batch, Solo, Store,   \* variables of the program, and files
  State,                \* values of the state words (s0, s1)
  Seeds, IdLists, MessageLists, Paths, Firsts, Counts, StepCounts,  \* arguments
  IdMod,                \* 2^128
  StepMod,              \* 2^64
  UsizeMax,             \* largest usize
  MaxBlocks, MaxForks,  \* bounds: blocks taken from a stream, forks in its line,
  MaxHeld,              \* variables and files that hold something at once
  PrepareBase(_, _), BranchStream(_, _),  \* the two stages of a derivation
  Absorbed(_),          \* absorb_with_domain in the XOF domain
  StreamStep(_, _),     \* stream_step
  BlockAt(_, _),        \* the state StreamStep reaches, see BlockLaw
  None

Domains == {"prng", "xof"}
Id      == 0 .. IdMod-1

Messages == UNION {{list[i] : i \in DOMAIN list} : list \in MessageLists}

ASSUME ConstantTypes ==
  /\ IdMod \in Nat \ {0} /\ StepMod \in Nat \ {0}
  /\ UsizeMax \in Nat /\ MaxBlocks \in Nat
  /\ Seeds \subseteq State /\ Firsts \subseteq Id
  /\ Counts \subseteq Nat /\ StepCounts \subseteq Nat
  /\ IdLists \subseteq Seq(Id) /\ Paths \subseteq Seq(Id)
  /\ \A list \in MessageLists : Len(list) \in Nat /\ DOMAIN list = 1 .. Len(list)
  /\ None \notin {"invalid_length", "invalid_kind"}

ASSUME StatesClosed ==
  /\ \A m \in Messages : Absorbed(m) \in State
  /\ \A dom \in Domains, s \in State, id \in Id : BranchStream(PrepareBase(dom, s), id) \in State
  /\ \A s \in State, n \in 0 .. StepMod-1 : StreamStep(s, n) \in State

(* What a place may hold: a stream, with its history; a batch; a file; and *)
(* what is left of a stream and of a batch without their words.            *)
ForkType == [after : 0 .. MaxBlocks, id : Id]

LineType ==
  [dom : {"prng"}, of : Seeds, id : Id, forks : Seq(ForkType)] \cup
  [dom : {"xof"}, of : Messages, id : {None}, forks : Seq(ForkType)]

LaneType   == [s : State, step : 0 .. StepMod-1, line : LineType, made : Nat]
BatchType  == [dom : Domains, lanes : Seq(LaneType)]
FileType   == [len : Nat, kind : Domains, count : Nat, lanes : Seq(LaneType)]
StreamType == [line : LineType, made : Nat]
FamilyType == [dom : Domains, streams : Seq(StreamType)]

ASSUME NoneApart ==
  /\ None \notin LaneType /\ None \notin BatchType /\ None \notin FileType
  /\ None \notin StreamType /\ None \notin FamilyType

ASSUME BlockLaw ==
  \A o \in State :
    /\ BlockAt(o, 0) = o
    /\ \A k \in 0 .. MaxBlocks-1 :
         BlockAt(o, k + 1) = StreamStep(BlockAt(o, k), k % StepMod)

VARIABLES
  batch,   \* batch[b]: the batch in b, a domain and its lanes
  solo,    \* solo[h]: the single stream in h
  saved,   \* saved[k]: the bytes in file k
  ret      \* blocks or the error the last operation returned

vars == <<batch, solo, saved, ret>>

Gives(blocks) == [error |-> None, blocks |-> blocks]

Nothing == Gives([x \in {} |-> 0])

-----------------------------------------------------------------------------
(* Lanes.  line and made are history: where a lane comes from, and the     *)
(* blocks it has given since.                                              *)

RootLane(dom, of, id, s) ==
  [s |-> s, step |-> 0, line |-> [dom |-> dom, of |-> of, id |-> id, forks |-> <<>>], made |-> 0]

ForkLane(dom, s, id) == BranchStream(PrepareBase(dom, s), id)

Child(dom, lane, id) ==
  [s |-> ForkLane(dom, lane.s, id), step |-> 0,
   line |-> [lane.line EXCEPT !.forks = Append(@, [after |-> lane.made, id |-> id])],
   made |-> 0]

PrngLanes(seed, ids) ==
  LET base == PrepareBase("prng", seed)
  IN  [i \in DOMAIN ids |-> RootLane("prng", seed, ids[i], BranchStream(base, ids[i]))]

XofLanes(messages) ==
  [i \in DOMAIN messages |-> RootLane("xof", messages[i], None, Absorbed(messages[i]))]

(* first, first + 1, ..., wrapping.                                        *)
RangeIds(first, n) == [i \in 1 .. n |-> (first + (i - 1)) % IdMod]

(* Mutant: the path is walked from its end.                                *)
PathStateBackwards(dom, s, path) == FoldRight(LAMBDA id, x : ForkLane(dom, x, id), path, s)

(* derive_path_lane: the states are walked, the objects between are never  *)
(* made.                                                                   *)
PathState(dom, s, path) ==
  LET p[j \in 0 .. Len(path)] == IF j = 0 THEN s ELSE ForkLane(dom, p[j-1], path[j])
  IN  p[Len(path)]

Derived(lane, path) ==
  [lane EXCEPT !.s = PathState(lane.line.dom, @, path),
               !.line.forks = [j \in DOMAIN path |-> [after |-> 0, id |-> path[j]]]]

(* Mutant: child-major.                                                    *)
ChildrenByLane(x, ids) ==
  FlattenSeq([j \in DOMAIN ids |->
    [i \in DOMAIN x.lanes |-> Child(x.dom, x.lanes[i], ids[j])]])

(* fork_many.                                                              *)
Children(x, ids) ==
  FlattenSeq([i \in DOMAIN x.lanes |->
    [j \in DOMAIN ids |-> Child(x.dom, x.lanes[i], ids[j])]])

(* Mutant: the counter does not wrap.                                      *)
SteppedWide(lane) ==
  [lane EXCEPT !.s = StreamStep(@, lane.step), !.step = @ + 1, !.made = @ + 1]

(* One block of a lane, and k of them.                                     *)
Stepped(lane) ==
  [lane EXCEPT !.s = StreamStep(@, lane.step), !.step = (@ + 1) % StepMod, !.made = @ + 1]

Ran(lane, steps) ==
  LET r[k \in 0 .. steps] == IF k = 0 THEN lane ELSE Stepped(r[k-1])
  IN  r[steps]

MayFork(lane) == Len(lane.line.forks) < MaxForks

-----------------------------------------------------------------------------

Held == {b \in Batch : batch[b] # None} \cup {h \in Solo : solo[h] # None}
          \cup {k \in Store : saved[k] # None}

Room == Cardinality(Held) < MaxHeld

Put(b, dom, lanes) ==
  /\ batch[b] = None
  /\ Room
  /\ batch' = [batch EXCEPT ![b] = [dom |-> dom, lanes |-> lanes]]
  /\ ret' = Nothing
  /\ UNCHANGED <<solo, saved>>

PutSolo(h, lane) ==
  /\ solo[h] = None
  /\ Room
  /\ solo' = [solo EXCEPT ![h] = lane]
  /\ ret' = Nothing
  /\ UNCHANGED <<batch, saved>>

Refuse(error) ==
  /\ ret' = [Nothing EXCEPT !.error = error]
  /\ UNCHANGED <<batch, solo, saved>>

NewPrng(b, seed, ids) == Put(b, "prng", PrngLanes(seed, ids))

NewRange(b, seed, first, n) == Put(b, "prng", PrngLanes(seed, RangeIds(first, n)))

NewXof(b, messages) == Put(b, "xof", XofLanes(messages))

DerivePath(b, dom, roots, path) ==
  IF path = <<>> THEN Refuse("empty_path")
  ELSE Put(b, dom, [i \in DOMAIN roots |-> Derived(roots[i], path)])

(* derive_path of the single streams; the first identifier of a PRNG path  *)
(* is that of the root.                                                    *)
PrngSolo(h, seed, path) ==
  IF path = <<>> THEN Refuse("empty_path")
  ELSE PutSolo(h,
         [RootLane("prng", seed, Head(path), PathState("prng", seed, path)) EXCEPT
            !.line.forks = [j \in DOMAIN Tail(path) |-> [after |-> 0, id |-> Tail(path)[j]]]])

XofSolo(h, message, path) ==
  IF path = <<>> THEN Refuse("empty_path")
  ELSE PutSolo(h, Derived(XofLanes(<<message>>)[1], path))

Fork(b, c, ids) ==
  /\ batch[b] # None
  /\ LET lanes == batch[b].lanes
     IN  IF Len(ids) # Len(lanes) THEN Refuse("panic")
         ELSE /\ \A i \in DOMAIN lanes : MayFork(lanes[i])
              /\ Put(c, batch[b].dom,
                     [i \in DOMAIN lanes |-> Child(batch[b].dom, lanes[i], ids[i])])

ForkRange(b, c, first) ==
  batch[b] # None /\ Fork(b, c, RangeIds(first, Len(batch[b].lanes)))

ForkMany(b, c, ids) ==
  /\ batch[b] # None
  /\ LET lanes == batch[b].lanes
     IN  IF Len(lanes) * Len(ids) > UsizeMax THEN Refuse("size_overflow")
         ELSE /\ \A i \in DOMAIN lanes : MayFork(lanes[i])
              /\ Put(c, batch[b].dom, Children(batch[b], ids))

Clone(b, c) == batch[b] # None /\ Put(c, batch[b].dom, batch[b].lanes)

(* try_reserve of a batch operation fails before it has changed anything.  *)
OutOfMemory == Refuse("reserve")

(* Copy of lane i as a stream at its next block.                           *)
Lane(b, i, h) ==
  /\ batch[b] # None
  /\ i \in DOMAIN batch[b].lanes
  /\ PutSolo(h, batch[b].lanes[i])

(* try_blocks: the size is computed before the lanes move.                 *)
Blocks(b, steps) ==
  /\ batch[b] # None
  /\ LET lanes == batch[b].lanes
         n     == Len(lanes)
     IN  IF n * steps > UsizeMax THEN Refuse("size_overflow")
         ELSE /\ \A i \in DOMAIN lanes : lanes[i].made + steps <= MaxBlocks
              /\ batch' = [batch EXCEPT ![b].lanes =
                             [i \in DOMAIN lanes |-> Ran(lanes[i], steps)]]
              /\ ret' = Gives([x \in 0 .. n * steps - 1 |->
                                 Ran(lanes[(x % n) + 1], x \div n + 1).s])
              /\ UNCHANGED <<solo, saved>>

(* fill_blocks into a buffer of the wrong length.                          *)
FillWrongLength(b) == batch[b] # None /\ Refuse("panic")

SoloBlock(h) ==
  /\ solo[h] # None
  /\ solo[h].made < MaxBlocks
  /\ solo' = [solo EXCEPT ![h] = Stepped(@)]
  /\ ret' = Gives([x \in {0} |-> Stepped(solo[h]).s])
  /\ UNCHANGED <<batch, saved>>

-----------------------------------------------------------------------------
(* Snapshots.  A file is its length, the fields of the header and the      *)
(* lanes; only the first `len` bytes of them are there.                    *)

HeaderLen == 16
LaneLen   == 48

(* Mutant: the counters of the lanes are not written.                      *)
ToBytesNoStep(x) ==
  [len |-> HeaderLen + LaneLen * Len(x.lanes), kind |-> x.dom, count |-> Len(x.lanes),
   lanes |-> [i \in DOMAIN x.lanes |-> [x.lanes[i] EXCEPT !.step = 0]]]

ToBytes(x) ==
  [len |-> HeaderLen + LaneLen * Len(x.lanes), kind |-> x.dom, count |-> Len(x.lanes),
   lanes |-> x.lanes]

(* Mutant: the length is only checked to hold a header.                    *)
HeaderErrorLax(file, kind) ==
  IF file.len < HeaderLen THEN "invalid_length"
  ELSE IF file.kind # kind THEN "invalid_kind"
  ELSE None

(* decode_batch_header: the error, or None.  Files are of this version     *)
(* here, those of others are in Contexts; a count too large to compute the *)
(* length from is refused as one that does not fit the length.             *)
HeaderError(file, kind) ==
  IF file.len < HeaderLen THEN "invalid_length"
  ELSE IF file.kind # kind THEN "invalid_kind"
  ELSE IF file.len # file.count * LaneLen + HeaderLen THEN "invalid_length"
  ELSE None

Export(b, k) ==
  /\ batch[b] # None
  /\ saved[k] # None \/ Room
  /\ saved' = [saved EXCEPT ![k] = ToBytes(batch[b])]
  /\ ret' = Nothing
  /\ UNCHANGED <<batch, solo>>

Import(k, b, kind) ==
  /\ saved[k] # None
  /\ IF HeaderError(saved[k], kind) # None
       THEN Refuse(HeaderError(saved[k], kind))
       ELSE Put(b, kind, saved[k].lanes)

End ==
  /\ batch' = [b \in Batch |-> None]
  /\ solo' = [h \in Solo |-> None]
  /\ ret' = Nothing

Crash == End /\ UNCHANGED saved

(* The process ends while it writes a snapshot; `cut` bytes are there.     *)
CrashInExport(b, k, cut) ==
  /\ batch[b] # None
  /\ cut < ToBytes(batch[b]).len
  /\ saved' = [saved EXCEPT ![k] = [ToBytes(batch[b]) EXCEPT !.len = cut]]
  /\ End

-----------------------------------------------------------------------------

Cuts == {0, HeaderLen, HeaderLen + LaneLen}

Init ==
  /\ batch = [b \in Batch |-> None]
  /\ solo = [h \in Solo |-> None]
  /\ saved = [k \in Store |-> None]
  /\ ret = Nothing

Next ==
  \/ \E b \in Batch, seed \in Seeds, ids \in IdLists : NewPrng(b, seed, ids)
  \/ \E b \in Batch, seed \in Seeds, first \in Firsts, n \in Counts : NewRange(b, seed, first, n)
  \/ \E b \in Batch, messages \in MessageLists : NewXof(b, messages)
  \/ \E b \in Batch, seed \in Seeds, ids \in IdLists, path \in Paths :
       DerivePath(b, "prng", PrngLanes(seed, ids), path)
  \/ \E b \in Batch, messages \in MessageLists, path \in Paths :
       DerivePath(b, "xof", XofLanes(messages), path)
  \/ \E h \in Solo, seed \in Seeds, path \in Paths : PrngSolo(h, seed, path)
  \/ \E h \in Solo, messages \in MessageLists, path \in Paths :
       \E i \in DOMAIN messages : XofSolo(h, messages[i], path)
  \/ \E b, c \in Batch, ids \in IdLists : Fork(b, c, ids)
  \/ \E b, c \in Batch, ids \in IdLists : ForkMany(b, c, ids)
  \/ \E b, c \in Batch, first \in Firsts : ForkRange(b, c, first)
  \/ \E b, c \in Batch : Clone(b, c)
  \/ OutOfMemory
  \/ \E b \in Batch, h \in Solo :
       batch[b] # None /\ \E i \in DOMAIN batch[b].lanes : Lane(b, i, h)
  \/ \E b \in Batch, steps \in StepCounts : Blocks(b, steps)
  \/ \E b \in Batch : FillWrongLength(b)
  \/ \E h \in Solo : SoloBlock(h)
  \/ \E b \in Batch, k \in Store : Export(b, k)
  \/ \E b \in Batch, k \in Store, kind \in Domains : Import(k, b, kind)
  \/ Crash
  \/ \E b \in Batch, k \in Store, cut \in Cuts : CrashInExport(b, k, cut)

Spec == Init /\ [][Next]_vars

-----------------------------------------------------------------------------
(* Properties.                                                             *)

IsLane(lane) ==
  /\ lane.s \in State
  /\ lane.step \in 0 .. StepMod-1
  /\ lane.made \in 0 .. MaxBlocks
  /\ \A j \in DOMAIN lane.line.forks :
       lane.line.forks[j].id \in 0 .. IdMod-1

IsBatch(x) == x.dom \in Domains /\ \A i \in DOMAIN x.lanes : IsLane(x.lanes[i])

(* Batches, streams and files hold what the code puts in them; counters    *)
(* and identifiers wrap within their words.                                *)
TypeOK ==
  /\ \A b \in Batch : batch[b] # None => IsBatch(batch[b])
  /\ \A h \in Solo : solo[h] # None => IsLane(solo[h])
  /\ \A k \in Store : saved[k] # None =>
       /\ saved[k].len \in 0 .. HeaderLen + LaneLen * saved[k].count
       /\ \A i \in DOMAIN saved[k].lanes : IsLane(saved[k].lanes[i])

Stream(lane) == [line |-> lane.line, made |-> lane.made]

Streams(x) == [dom |-> x.dom, streams |-> [i \in DOMAIN x.lanes |-> Stream(x.lanes[i])]]

Whole(file) == file.len = HeaderLen + LaneLen * Len(file.lanes)

Families == [b \in Batch |-> IF batch[b] = None THEN None ELSE Streams(batch[b])]
Singles  == [h \in Solo |-> IF solo[h] = None THEN None ELSE Stream(solo[h])]
Kept     == [k \in Store |->
  IF saved[k] = None THEN None
  ELSE IF ~Whole(saved[k]) THEN None
  ELSE Streams([dom |-> saved[k].kind, lanes |-> saved[k].lanes])]

SF == INSTANCE StreamFamily WITH at <- Families, solo <- Singles, kept <- Kept, ret <- ret

(* A lane, however it was made, is in the state of a single stream of the  *)
(* same line that has given the same number of blocks, and counts with     *)
(* it: batches, ranges, paths and copies of lanes are streams (ARCHITEC-   *)
(* TURE.md section 10; prng.rs lane, derive_path, fork_many, fork_range).  *)
OnSchedule(lane) ==
  /\ lane.s = BlockAt(SF!Origin(lane.line), lane.made)
  /\ lane.step = lane.made % StepMod

LanesOnSchedule ==
  /\ \A b \in Batch : batch[b] # None =>
       \A i \in DOMAIN batch[b].lanes : OnSchedule(batch[b].lanes[i])
  /\ \A h \in Solo : solo[h] # None => OnSchedule(solo[h])
  /\ \A k \in Store : saved[k] # None =>
       \A i \in DOMAIN saved[k].lanes : OnSchedule(saved[k].lanes[i])

(* The header tells a snapshot that was written to its end, and only that, *)
(* to the type it belongs to, and only to that (types/snapshot.rs          *)
(* decode_batch_header, "Rejects trailing or missing bytes").              *)
AcceptedIffWhole ==
  \A k \in Store, kind \in Domains : saved[k] # None =>
    (HeaderError(saved[k], kind) = None <=> Whole(saved[k]) /\ kind = saved[k].kind)

(* The batches do what StreamFamily says: the order of children, wrapping  *)
(* identifiers, the layout of blocks, failures that change nothing, and    *)
(* snapshots that resume exactly or are refused.                           *)
ImplementsStreamFamily == SF!Spec

=============================================================================

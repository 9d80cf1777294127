----------------------------- MODULE StreamState -----------------------------
(***************************************************************************)
(* The single-stream objects LustroPrng and LustroXof and the StreamState  *)
(* both wrap (src/api.rs, src/prng.rs, src/xof.rs): a 256-bit state, a     *)
(* wrapping step counter, and a cursor into the block the state spells     *)
(* out.  Every Handle is a variable of the program that can hold one       *)
(* object, every Store a place a snapshot is kept in that outlives the     *)
(* process.                                                                *)
(*                                                                         *)
(* A call of fill_bytes takes several steps: the rest of the current       *)
(* block, one fresh block per iteration of the bulk loop, the tail.  The   *)
(* borrow checker (&mut self) gives the running call its object, so no     *)
(* other operation of the same object starts in between, but operations of *)
(* other objects and the end of the process do.                            *)
(*                                                                         *)
(* The mixing functions are parameters: nothing here depends on what they  *)
(* compute.  Byte i of the block of state s is the pair <<s, i>>.          *)
(***************************************************************************)
EXTENDS Integers, FiniteSets

CONSTANTS
  Handle, Store,
  State,               \* values of the state words (s0, s1)
  Seeds, Ids,          \* seeds and stream identifiers offered to constructors
  Messages,            \* messages offered to LustroXof::new
  ReadLens,            \* buffer lengths offered to fill_bytes; typed reads use 4, 8, 16
  StreamStep(_, _),    \* stream_step: IDM and ERD with the counter
  ForkLane(_, _, _),   \* fork_lane: prepare_base, then derive_branch_stream
  Absorbed(_),         \* absorb_with_domain in the XOF domain
  StepMod,             \* 2^64, the modulus of the u64 counter
  MaxBlocks,           \* bound: blocks generated from one origin
  MaxHeld,             \* bound: objects and snapshots there are at once
  BlockAt(_, _),       \* the state StreamStep reaches from an origin, see BlockLaw
  None

ASSUME MixerTypes ==
  /\ Seeds \subseteq State
  /\ \A s \in State, n \in 0 .. StepMod-1 : StreamStep(s, n) \in State
  /\ \A d \in {"prng", "xof"}, s \in State, id \in Ids : ForkLane(d, s, id) \in State
  /\ \A m \in Messages : Absorbed(m) \in State

ASSUME Bounds ==
  /\ StepMod \in Nat \ {0}
  /\ MaxBlocks \in Nat
  /\ ReadLens \subseteq Nat

(* Block k of an origin is what k stream steps with the counters           *)
(* 0, 1, 2, ... (modulo 2^64) make of it.                                  *)
ASSUME BlockLaw ==
  \A o \in State :
    /\ BlockAt(o, 0) = o
    /\ \A k \in 0 .. MaxBlocks-1 :
         BlockAt(o, k + 1) = StreamStep(BlockAt(o, k), k % StepMod)

VARIABLES
  gen,     \* gen[h]: the object in h, with the history fields origin and made
  call,    \* call[h]: the fill_bytes call running on h
  saved,   \* saved[k]: the snapshot kept in k
  ret      \* bytes returned by the last operation that completed

vars == <<gen, call, saved, ret>>

BlockLen == 32
HalfLen  == 16

Domains == {"prng", "xof"}

(* origin is the state the object started from and made the number of      *)
(* blocks generated since; the program keeps neither.                      *)
Object == [dom : Domains, s : State, step : 0 .. StepMod-1, cursor : 0 .. BlockLen,
           origin : State, made : 0 .. MaxBlocks]

Lesser(a, b) == IF a < b THEN a ELSE b

NoBytes == [i \in {} |-> 0]

-----------------------------------------------------------------------------
(* StreamState on its own.                                                 *)

LowByte(s, i)  == <<s, i>>             \* byte i of s0
HighByte(s, i) == <<s, HalfLen + i>>   \* byte i of s1

Fresh(dom, s) ==
  [dom |-> dom, s |-> s, step |-> 0, cursor |-> BlockLen, origin |-> s, made |-> 0]

(* Mutant: the counter leaves the u64.                                     *)
NextStepWide(step) == step + 1

NextStep(step) == (step + 1) % StepMod

Refill(g) ==
  [dom |-> g.dom, s |-> StreamStep(g.s, g.step), step |-> NextStep(g.step),
   cursor |-> 0, origin |-> g.origin, made |-> g.made + 1]

(* The object read_full_block leaves behind.                               *)
FullBlock(g) == [Refill(g) EXCEPT !.cursor = BlockLen]

DrainLen(cursor, n) == IF cursor < BlockLen THEN Lesser(BlockLen - cursor, n) ELSE 0

(* Mutant: a piece within the second half starts at its beginning.         *)
DrainByteFromHalf(s, pos, chunk, i) ==
  IF pos < HalfLen
    THEN LET fromS0 == Lesser(HalfLen - pos, chunk)
         IN  IF i < fromS0 THEN LowByte(s, pos + i) ELSE HighByte(s, i - fromS0)
    ELSE HighByte(s, i)

(* Byte i of a drained piece of `chunk` bytes that starts at `pos`.        *)
DrainByte(s, pos, chunk, i) ==
  IF pos < HalfLen
    THEN LET fromS0 == Lesser(HalfLen - pos, chunk)
         IN  IF i < fromS0 THEN LowByte(s, pos + i) ELSE HighByte(s, i - fromS0)
    ELSE HighByte(s, (pos - HalfLen) + i)

(* Byte i of a block that was just generated.                              *)
FreshByte(s, i) == IF i < HalfLen THEN LowByte(s, i) ELSE HighByte(s, i - HalfLen)

(* The position of an object in its stream while no call runs on it.       *)
Pos(g) == (g.made * BlockLen + g.cursor) - BlockLen

-----------------------------------------------------------------------------
(* Construction, fork and clone.                                           *)

Idle(h) == gen[h] # None /\ call[h] = None

Held == {h \in Handle : gen[h] # None} \cup {k \in Store : saved[k] # None}

Room == Cardinality(Held) < MaxHeld

Put(h, g) ==
  /\ gen[h] = None
  /\ Room
  /\ gen' = [gen EXCEPT ![h] = g]
  /\ ret' = NoBytes
  /\ UNCHANGED <<call, saved>>

NewPrng(h, seed, id) == Put(h, Fresh("prng", ForkLane("prng", seed, id)))

NewXof(h, m) == Put(h, Fresh("xof", Absorbed(m)))

(* Mutant: a child takes the cursor along.                                 *)
ChildKeepsCursor(g, id) == [Fresh(g.dom, ForkLane(g.dom, g.s, id)) EXCEPT !.cursor = g.cursor]

Child(g, id) == Fresh(g.dom, ForkLane(g.dom, g.s, id))

Fork(h, child, id) == Idle(h) /\ Put(child, Child(gen[h], id))

Clone(h, copy) == Idle(h) /\ Put(copy, gen[h])

Drop(h) ==
  /\ Idle(h)
  /\ gen' = [gen EXCEPT ![h] = None]
  /\ ret' = NoBytes
  /\ UNCHANGED <<call, saved>>

-----------------------------------------------------------------------------
(* Reading.                                                                *)

(* fill_bytes up to the bulk loop: drain the current partial block.        *)
FillBegin(h, n) ==
  /\ Idle(h)
  /\ Pos(gen[h]) + n <= MaxBlocks * BlockLen
  /\ LET g     == gen[h]
         chunk == DrainLen(g.cursor, n)
     IN  /\ gen' = [gen EXCEPT ![h].cursor = @ + chunk]
         /\ call' = [call EXCEPT ![h] =
              [want |-> n, done |-> chunk, bulk |-> FALSE, from |-> Pos(g),
               buf |-> [i \in 0 .. n-1 |->
                          IF i < chunk THEN DrainByte(g.s, g.cursor, chunk, i) ELSE None]]]
  /\ UNCHANGED <<saved, ret>>

(* The buffer after a piece of `len` bytes of the block of state s is      *)
(* copied to the place the call has come to.                               *)
Copied(c, s, len) ==
  [i \in DOMAIN c.buf |->
     IF i \in c.done .. c.done + len - 1 THEN FreshByte(s, i - c.done) ELSE c.buf[i]]

(* One iteration of the bulk loop.                                         *)
FillBlock(h) ==
  /\ call[h] # None
  /\ call[h].want - call[h].done >= BlockLen
  /\ gen' = [gen EXCEPT ![h] = Refill(@)]
  /\ call' = [call EXCEPT ![h] =
       [want |-> @.want, done |-> @.done + BlockLen, bulk |-> TRUE, from |-> @.from,
        buf |-> Copied(@, Refill(gen[h]).s, BlockLen)]]
  /\ UNCHANGED <<saved, ret>>

(* Mutant: the bulk loop leaves the cursor of its last refill behind.      *)
AfterBulkKeepsCursor(g, ran) == g

(* The cursor the bulk loop leaves behind; it keeps a partial cursor when  *)
(* the loop did not run.                                                   *)
AfterBulk(g, ran) == IF ran THEN [g EXCEPT !.cursor = BlockLen] ELSE g

(* Mutant: the rest of the block a tail was taken from is lost.            *)
AfterTailDropsRest(g, len) == IF len > 0 THEN FullBlock(g) ELSE g

(* The object after a tail of `len` bytes, taken from a fresh block.       *)
AfterTail(g, len) == IF len > 0 THEN [Refill(g) EXCEPT !.cursor = len] ELSE g

(* Mutant: a call ends at a whole block only.                              *)
FillEndAtBlock(h) ==
  /\ call[h] # None
  /\ call[h].want = call[h].done
  /\ gen' = [gen EXCEPT ![h] = AfterBulk(@, call[h].bulk)]
  /\ ret' = call[h].buf
  /\ call' = [call EXCEPT ![h] = None]
  /\ UNCHANGED saved

(* The rest of fill_bytes, up to its return.                               *)
FillEnd(h) ==
  /\ call[h] # None
  /\ call[h].want - call[h].done < BlockLen
  /\ LET tail == call[h].want - call[h].done
         g    == AfterTail(AfterBulk(gen[h], call[h].bulk), tail)
     IN  /\ gen' = [gen EXCEPT ![h] = g]
         /\ ret' = Copied(call[h], g.s, tail)
  /\ call' = [call EXCEPT ![h] = None]
  /\ UNCHANGED saved

(* read_full_block.                                                        *)
NextBlock(h) ==
  /\ Idle(h)
  /\ gen[h].made < MaxBlocks
  /\ gen' = [gen EXCEPT ![h] = FullBlock(@)]
  /\ ret' = [i \in 0 .. BlockLen-1 |-> FreshByte(FullBlock(gen[h]).s, i)]
  /\ UNCHANGED <<call, saved>>

-----------------------------------------------------------------------------
(* Snapshots, and the end of the process.                                  *)

(* Mutant: a snapshot loses the step counter.                              *)
ToPartsNoStep(g) == [g EXCEPT !.step = 0]

ToParts(g) == g

Export(h, k) ==
  /\ Idle(h)
  /\ saved[k] # None \/ Room
  /\ saved' = [saved EXCEPT ![k] = ToParts(gen[h])]
  /\ ret' = NoBytes
  /\ UNCHANGED <<gen, call>>

CursorAccepted(c) == c \in 1 .. BlockLen

(* decode_single_snapshot refuses a cursor outside 1..=32 and from_parts   *)
(* panics on one.                                                          *)
Import(k, h) ==
  /\ saved[k] # None
  /\ CursorAccepted(saved[k].cursor)
  /\ Put(h, saved[k])

Crash ==
  /\ gen' = [h \in Handle |-> None]
  /\ call' = [h \in Handle |-> None]
  /\ ret' = NoBytes
  /\ UNCHANGED saved

-----------------------------------------------------------------------------

Init ==
  /\ gen = [h \in Handle |-> None]
  /\ call = [h \in Handle |-> None]
  /\ saved = [k \in Store |-> None]
  /\ ret = NoBytes

Next ==
  \/ \E h \in Handle, seed \in Seeds, id \in Ids : NewPrng(h, seed, id)
  \/ \E h \in Handle, m \in Messages : NewXof(h, m)
  \/ \E h, child \in Handle, id \in Ids : Fork(h, child, id)
  \/ \E h, copy \in Handle : Clone(h, copy)
  \/ \E h \in Handle : Drop(h)
  \/ \E h \in Handle, n \in ReadLens : FillBegin(h, n)
  \/ \E h \in Handle : FillBlock(h)
  \/ \E h \in Handle : FillEnd(h)
  \/ \E h \in Handle : NextBlock(h)
  \/ \E h \in Handle, k \in Store : Export(h, k)
  \/ \E h \in Handle, k \in Store : Import(k, h)
  \/ Crash

Spec == Init /\ [][Next]_vars

(* A call that runs is not descheduled for ever; nothing makes a program   *)
(* start one.                                                              *)
FairSpec ==
  Spec /\ \A h \in Handle : WF_vars(FillBlock(h)) /\ WF_vars(FillEnd(h))

-----------------------------------------------------------------------------
(* Properties.                                                             *)

Byte == State \X (0 .. BlockLen-1)

CallFor(n) == [want : {n}, done : 0 .. n, bulk : BOOLEAN, from : Nat,
               buf : [0 .. n-1 -> Byte \cup {None}]]

(* Snapshots, calls and stream positions are not mistaken for None.        *)
ASSUME NoneApart ==
  /\ None \notin Object
  /\ \A n \in ReadLens : None \notin CallFor(n)
  /\ None \notin [dom : Domains, origin : State, pos : Nat]

(* Every object, call and snapshot has the shape the code gives it; the    *)
(* step counter stays below 2^64 and the cursor within the block.          *)
TypeOK ==
  /\ gen \in [Handle -> Object \cup {None}]
  /\ DOMAIN call = Handle
  /\ \A h \in Handle : call[h] # None =>
       gen[h] # None /\ \E n \in ReadLens : call[h] \in CallFor(n)
  /\ saved \in [Store -> Object \cup {None}]

OnSchedule(g) == g.s = BlockAt(g.origin, g.made) /\ g.step = g.made % StepMod

(* Whatever mixture of reads, next_block, forks, clones, snapshots and     *)
(* restarts led to an object or a snapshot, its state is the one that      *)
(* counting 0, 1, 2, ... from its origin gives, across the wrap of the     *)
(* counter too: no step was taken twice, skipped or taken with a stale     *)
(* counter (api.rs refill, to_parts, from_parts).                          *)
StatesOnSchedule ==
  /\ \A h \in Handle : gen[h] # None => OnSchedule(gen[h])
  /\ \A k \in Store : saved[k] # None => OnSchedule(saved[k])

(* While fill_bytes runs, what it has written so far is exactly the next   *)
(* piece of the stream, counted from where the object stood at the call,   *)
(* whether it came from a partly read block or from fresh ones (ARCHI-     *)
(* TECTURE.md section 10, the concatenation guarantee).                    *)
FilledIsStream ==
  \A h \in Handle : call[h] # None =>
    \A i \in 0 .. call[h].done - 1 :
      LET p == call[h].from + i
      IN  call[h].buf[i] =
            <<BlockAt(gen[h].origin, p \div BlockLen + 1), p % BlockLen>>

(* Every snapshot an object exports can be imported again: the cursor of   *)
(* an object at rest is never 0, although refill sets it to 0 in the       *)
(* middle of every read (types/snapshot.rs, InvalidCursor).                *)
SnapshotsImportable ==
  \A k \in Store : saved[k] # None => CursorAccepted(saved[k].cursor)

Position(g, c) ==
  [dom |-> g.dom, origin |-> g.origin, pos |-> IF c = None THEN Pos(g) ELSE c.from]

View(g, c) == IF g = None THEN None ELSE Position(g, c)

Positions == [h \in Handle |-> View(gen[h], call[h])]
Marks     == [k \in Store |-> View(saved[k], None)]

BS == INSTANCE ByteStream WITH at <- Positions, saved <- Marks, ret <- ret

(* The objects implement the byte streams they promise: read lengths do    *)
(* not show in the bytes, next_block ignores the cursor, a child depends   *)
(* on the parent's block only, and an imported snapshot resumes exactly    *)
(* (ARCHITECTURE.md section 10; api.rs fill_bytes, read_full_block, fork). *)
ImplementsByteStream == BS!Spec

(* A running read returns (or dies with its process): the bulk loop makes  *)
(* progress on every iteration.                                            *)
ReadsReturn == \A h \in Handle : call[h] # None ~> call[h] = None

=============================================================================

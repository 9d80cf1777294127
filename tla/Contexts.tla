------------------------------- MODULE Contexts -------------------------------
(***************************************************************************)
(* The contexts of the C interface: src/ffi/prng.rs and src/ffi/xof.rs     *)
(* with construct (src/ffi/mod.rs), the arrays of their arguments          *)
(* (src/ffi/types.rs) and the snapshot formats (src/types/snapshot.rs).    *)
(* An object is boxed on the heap and its address handed to the caller,    *)
(* who keeps it in a pointer variable, frees it, and may then still have   *)
(* the address of what is gone.  Addresses are used again.                 *)
(*                                                                         *)
(* The caller keeps to the Safety sections: it passes a pointer variable   *)
(* while it is null or holds a live object of its type; after a            *)
(* constructor it relies on "null on failure".  Bytes read are not         *)
(* followed here, only that a call moves the object by them.               *)
(***************************************************************************)
EXTENDS ContextObjects

CONSTANTS
  Var, KindOf(_), Store,   \* as in ContextValues
  Cell,                    \* addresses of the allocator
  Freed,
  Seeds, Ids, Firsts, Counts, ReadLens, StepCounts,
  WordSizes,               \* sizes of the typed reads, {4, 8, 16}
  MessageArgs,             \* a message with the pointer and the length passed for it
  Pointers,                \* addresses passed for bytes
  IdArrays, PathArrays,    \* arguments of ids_from_parts, those for a path apart
  MessageArrays,           \* arguments of messages_from_parts
  FirstBytes,              \* what a buffer may hold before
  MaxDangling,             \* bound: pointers to freed objects the caller keeps
  MaxHeld                  \* bound: objects and snapshots there are at once

ASSUME ArgumentTypes ==
  /\ Null \notin Cell
  /\ IsizeMax >= LaneSize
  /\ \A v \in Var : KindOf(v) \in Kinds
  /\ Seeds \subseteq State /\ Ids \subseteq 0 .. IdMod-1
  /\ UNION {Firsts, Counts, ReadLens, WordSizes, StepCounts} \subseteq Nat
  /\ \A x \in MessageArgs : x.len \in Nat /\ Absorbed(x.m) \in State
  /\ \A a \in IdArrays \cup PathArrays :
       /\ a.n \in Nat /\ a.list \in Seq(0 .. IdMod-1)
       /\ FitsSlice(a.n, IdSize) => a.n = Len(a.list)
  /\ \A a \in MessageArrays :
       /\ a.n \in Nat /\ a.list \in Seq(MessageArgs)
       /\ FitsSlice(a.n, IdSize) => a.n = Len(a.list)

VARIABLES
  heap,       \* heap[a]: the object boxed at a, or None
  ptr,        \* ptr[v]: an address, or Null
  dangling,   \* variables freed since they were last written
  lost,       \* addresses of live objects the caller has overwritten
  buf,        \* buf[k]: the bytes in buffer k
  status      \* what the last call returned

vars == <<heap, ptr, dangling, lost, buf, status>>

-----------------------------------------------------------------------------
(* What a closure given to construct returns.                              *)

Gives(o) == [error |-> None, object |-> o]

Fails(error) == [error |-> error, object |-> None]

IfRight(error, result) == IF error = None THEN result ELSE Fails(error)

(* Lanes collected into a new vector; a capacity over isize::MAX panics.   *)
Collected(n, o) == IF FitsSlice(n, LaneSize) THEN Gives(o) ELSE Fails("InternalPanic")

(* Lanes in a vector that was reserved, which may be refused (batch_status,*)
(* derive_path_status).                                                    *)
Reserved(n, o) ==
  {Fails("OutOfMemory")} \cup {Gives(x) : x \in IF FitsSlice(n, LaneSize) THEN {o} ELSE {}}

Held == {a \in Cell : heap[a] # None} \cup {k \in Store : buf[k].from # None}

Room == Cardinality(Held) < MaxHeld

Return(s) == status' = s /\ UNCHANGED <<heap, ptr, dangling, lost, buf>>

(* construct with a null or misaligned out_ctx: the closure does not run.  *)
ConstructNowhere == Return("InvalidPointer")

(* Mutant: the out variable is only written on success.                    *)
ConstructKeepsOut(v, results) ==
  \E r \in results :
    /\ IF r.error # None
         THEN status' = r.error /\ UNCHANGED <<heap, ptr, lost>>
         ELSE \E a \in Cell :
           /\ heap[a] = None /\ Room
           /\ heap' = [heap EXCEPT ![a] = r.object]
           /\ ptr' = [ptr EXCEPT ![v] = a]
           /\ status' = "Ok"
           /\ lost' = lost \cup {x \in {ptr[v]} : x # Null /\ v \notin dangling}
    /\ dangling' = dangling \ {v}
    /\ UNCHANGED buf

(* construct: the variable is null until there is an object.               *)
Construct(v, results) ==
  \E r \in results :
    /\ IF r.error # None
         THEN /\ ptr' = [ptr EXCEPT ![v] = Null]
              /\ status' = r.error
              /\ UNCHANGED heap
         ELSE \E a \in Cell :
           /\ heap[a] = None /\ Room
           /\ heap' = [heap EXCEPT ![a] = r.object]
           /\ ptr' = [ptr EXCEPT ![v] = a]
           /\ status' = "Ok"
    /\ lost' = lost \cup {x \in {ptr[v]} : x # Null /\ v \notin dangling}
    /\ dangling' = dangling \ {v}
    /\ UNCHANGED buf

Object(w) == heap[ptr[w]]

(* Results that need the object behind a pointer that may be null.         *)
IfThere(w, results) == IF ptr[w] = Null THEN {Fails("InvalidPointer")} ELSE results

-----------------------------------------------------------------------------
(* Arrays.  A list that is passed is as long as its length says, or the    *)
(* length is one no array has.                                             *)

SeedError(seedPtr) == PointerIf(~SliceOk(seedPtr, BlockLen, 1, 1))

(* bytes_in.                                                               *)
BytesError(p, len) ==
  FirstError(<<LengthIf(~FitsSlice(len, 1)), PointerIf(~SliceOk(p, len, 1, 1))>>)

(* ids_from_parts.                                                         *)
IdsError(a) ==
  FirstError(<<LengthIf(~FitsSlice(a.n, IdSize)),
               PointerIf(~SliceOk(a.hi, a.n, WordLen, WordLen)),
               PointerIf(~SliceOk(a.lo, a.n, WordLen, WordLen))>>)

(* messages_from_parts: both arrays, then the messages in their order.     *)
MessagesError(a) ==
  FirstError(<<LengthIf(~FitsSlice(a.n, IdSize)),
               PointerIf(~SliceOk(a.ptrs, a.n, WordLen, WordLen)),
               PointerIf(~SliceOk(a.lens, a.n, WordLen, WordLen))>>
             \o [i \in DOMAIN a.list |-> BytesError(a.list[i].ptr, a.list[i].len)])

-----------------------------------------------------------------------------
(* Calls on single streams.                                                *)

Usable(w) == w \notin dangling

New(v, seedPtr, seed, id) ==
  Construct(v,
    {IfRight(SeedError(seedPtr), Gives(Single("Prng", ForkLane("prng", seed, id))))})

XofNew(v, x) ==
  Construct(v, {IfRight(BytesError(x.ptr, x.len), Gives(Single("Xof", Absorbed(x.m))))})

PathError(a) == IF a.n = 0 THEN "InvalidLength" ELSE IdsError(a)

DerivePath(v, seedPtr, seed, a) ==
  Construct(v,
    {IfRight(FirstError(<<SeedError(seedPtr), PathError(a)>>),
       Gives(Single("Prng", Walked("prng", seed, a.list))))})

XofDerivePath(v, x, a) ==
  Construct(v,
    {IfRight(FirstError(<<BytesError(x.ptr, x.len), PathError(a)>>),
       Gives(Single("Xof", Walked("xof", Absorbed(x.m), a.list))))})

Clone(w, v) == Construct(v, IfThere(w, {Gives(Object(w))}))

Fork(w, v, id) == Construct(v, IfThere(w, {Gives(Child(Object(w), id))}))

(* A call on an object that is there: an error, or the object it leaves.   *)
InPlace(w, result) ==
  /\ status' = IF result.error = None THEN "Ok" ELSE result.error
  /\ heap' = IF result.error = None THEN [heap EXCEPT ![ptr[w]] = result.object] ELSE heap
  /\ UNCHANGED <<ptr, dangling, lost, buf>>

(* next_u32, next_u64 and next_u128 by their size, and next_block.         *)
NextWord(w, out, size) ==
  InPlace(w, IfRight(PointerIf(ptr[w] = Null \/ out = Null), Gives(Drawn(Object(w), size))))

NextFull(w, out) ==
  InPlace(w, IfRight(PointerIf(ptr[w] = Null \/ out = Null), Gives(NextBlock(Object(w)))))

Fill(w, out, len) ==
  InPlace(w, IfRight(FirstError(<<PointerIf(ptr[w] = Null), BytesError(out, len)>>),
                     Gives(Drawn(Object(w), len))))

Free(w) ==
  /\ Cardinality(dangling) < MaxDangling
  /\ heap' = [a \in Cell |-> IF a = ptr[w] THEN None ELSE heap[a]]
  /\ dangling' = dangling \cup {x \in {w} : ptr[x] # Null}
  /\ UNCHANGED <<ptr, lost, buf, status>>

-----------------------------------------------------------------------------
(* Snapshots.  `from` is history: the type of the object they were made of.*)

Version   == 1
SingleLen == 56

BatchLen(n) == HeaderSize + n * LaneSize

Encoded(o) ==
  [version |-> Version, kind |-> o.kind, cursor |-> o.cursor, count |-> Len(o.lanes),
   lanes |-> o.lanes, from |-> o.kind]

LenOf(b) == IF b.kind \in BatchKinds THEN BatchLen(b.count) ELSE SingleLen

(* Mutants: the kind of a snapshot is not looked at; a block that has been *)
(* read to its end is refused.                                             *)
FormatErrorAnyKind(b, kind) == IF b.version # Version THEN "UnsupportedVersion" ELSE None

CursorErrorStrict(b) == IF b.cursor \notin 1 .. BlockLen - 1 THEN "InvalidCursor" ELSE None

FormatError(b, kind) ==
  IF b.version # Version THEN "UnsupportedVersion"
  ELSE IF b.kind # kind THEN "InvalidKind"
  ELSE None

CursorError(b) == IF b.cursor \notin 1 .. BlockLen THEN "InvalidCursor" ELSE None

(* decode_single_snapshot and decode_batch_header.                         *)
SingleError(b, kind) == FirstError(<<FormatError(b, kind), CursorError(b)>>)

HeaderError(b, len, kind) ==
  FirstError(<<LengthIf(len < HeaderSize), FormatError(b, kind), LengthIf(len # BatchLen(b.count))>>)

Decoded(b) == [kind |-> b.kind, lanes |-> b.lanes,
               cursor |-> IF b.kind \in BatchKinds THEN BlockLen ELSE b.cursor]

StoreIn(w, k, error) ==
  IF error # None THEN Return(error)
  ELSE /\ buf[k].from # None \/ Room
       /\ buf' = [buf EXCEPT ![k] = Encoded(Object(w))]
       /\ status' = "Ok"
       /\ UNCHANGED <<heap, ptr, dangling, lost>>

ExportSnapshot(w, k, out) == StoreIn(w, k, PointerIf(ptr[w] = Null \/ out = Null))

BatchExportSnapshot(w, k, out, len) ==
  StoreIn(w, k,
    IF ptr[w] = Null THEN "InvalidPointer"
    ELSE LET expected == BatchLen(Len(Object(w).lanes))
         IN  FirstError(<<LengthIf(expected > UsizeMax), LengthIf(len # expected),
                          PointerIf(~SliceOk(out, expected, 1, 1))>>))

ImportSnapshot(k, p, v) ==
  Construct(v,
    {IfRight(FirstError(<<PointerIf(~SliceOk(p, SingleLen, 1, 1)), SingleError(buf[k], KindOf(v))>>),
       Gives(Decoded(buf[k])))})

BatchImportSnapshot(k, p, len, v) ==
  Construct(v,
    {IfRight(FirstError(<<BytesError(p, len), HeaderError(buf[k], len, KindOf(v))>>),
       Gives(Decoded(buf[k])))})

-----------------------------------------------------------------------------
(* Calls on batches.                                                       *)

BatchNew(v, seedPtr, seed, a) ==
  Construct(v,
    {IfRight(FirstError(<<SeedError(seedPtr), IdsError(a)>>),
       Collected(a.n, Made("PrngBatch", [i \in DOMAIN a.list |-> ForkLane("prng", seed, a.list[i])])))})

BatchNewRange(v, seedPtr, seed, first, n) ==
  Construct(v,
    IF SeedError(seedPtr) # None THEN {Fails(SeedError(seedPtr))}
    ELSE LET ids == RangeIds(first, n)
         IN  Reserved(n, Made("PrngBatch", [i \in 1 .. n |-> ForkLane("prng", seed, ids[i])])))

XofBatchNew(v, a) ==
  Construct(v,
    {IfRight(MessagesError(a),
       Collected(a.n, Made("XofBatch", [i \in DOMAIN a.list |-> Absorbed(a.list[i].m)])))})

BatchDerivePath(v, seedPtr, seed, roots, path) ==
  LET error == FirstError(<<SeedError(seedPtr), LengthIf(path.n = 0), IdsError(roots), IdsError(path)>>)
  IN  Construct(v,
        IF error # None THEN {Fails(error)}
        ELSE Reserved(roots.n, Made("PrngBatch",
               [i \in DOMAIN roots.list |-> Walked("prng", seed, <<roots.list[i]>> \o path.list)])))

XofBatchDerivePath(v, a, path) ==
  LET error == FirstError(<<LengthIf(path.n = 0), MessagesError(a), IdsError(path)>>)
  IN  Construct(v,
        IF error # None THEN {Fails(error)}
        ELSE Reserved(a.n, Made("XofBatch",
               [i \in DOMAIN a.list |-> Walked("xof", Absorbed(a.list[i].m), path.list)])))

BatchClone(w, v) ==
  Construct(v, IfThere(w, Reserved(Len(Object(w).lanes), Object(w))))

BatchLane(w, index, v) ==
  Construct(v,
    IfThere(w,
      {IF index >= Len(Object(w).lanes) THEN Fails("InvalidArgument")
       ELSE Gives(Alone(Object(w), index))}))

BatchFork(w, v, a) ==
  Construct(v,
    IfThere(w,
      {IfRight(FirstError(<<LengthIf(a.n # Len(Object(w).lanes)), IdsError(a)>>),
         Gives(ChildPerLane(Object(w), a.list)))}))

BatchForkMany(w, v, a) ==
  LET o     == Object(w)
      error == FirstError(<<LengthIf(Len(o.lanes) * a.n > UsizeMax), IdsError(a)>>)
  IN  Construct(v,
        IfThere(w,
          IF error # None THEN {Fails(error)}
          ELSE Reserved(Len(o.lanes) * a.n, Children(o, a.list))))

BatchForkRange(w, v, first) ==
  Construct(v,
    IfThere(w, {Gives(ChildPerLane(Object(w), RangeIds(first, Len(Object(w).lanes))))}))

BatchFillBlocks(w, out, len, steps) ==
  InPlace(w,
    IF ptr[w] = Null THEN Fails("InvalidPointer")
    ELSE LET o     == Object(w)
             bytes == Len(o.lanes) * steps * BlockLen
         IN  IfRight(FirstError(<<LengthIf(bytes > UsizeMax), LengthIf(len # bytes),
                                  PointerIf(bytes > 0 /\ out = Null),
                                  LengthIf(~FitsSlice(len, 1))>>),
                     Gives(Forward(o, steps))))

-----------------------------------------------------------------------------
(* The calls of each type, with the arguments a caller may pass.           *)

VarsOf(kind) == {v \in Var : KindOf(v) = kind}

UsableOf(kind) == {v \in VarsOf(kind) : Usable(v)}

SingleCalls(kind) ==
  \/ \E v \in VarsOf(kind) :
       \/ \E w \in UsableOf(kind) : Clone(w, v)
       \/ \E w \in UsableOf(kind), id \in Ids : Fork(w, v, id)
       \/ \E k \in Store, p \in Pointers : ImportSnapshot(k, p, v)
  \/ \E w \in UsableOf(kind), out \in Pointers :
       \/ \E size \in WordSizes : NextWord(w, out, size)
       \/ NextFull(w, out)
       \/ \E len \in ReadLens : Fill(w, out, len)
       \/ \E k \in Store : ExportSnapshot(w, k, out)
  \/ \E w \in UsableOf(kind) : Free(w)

PrngCalls ==
  \/ SingleCalls("Prng")
  \/ \E v \in VarsOf("Prng"), p \in Pointers, seed \in Seeds :
       \/ \E id \in Ids : New(v, p, seed, id)
       \/ \E a \in PathArrays : DerivePath(v, p, seed, a)

XofCalls ==
  \/ SingleCalls("Xof")
  \/ \E v \in VarsOf("Xof"), x \in MessageArgs :
       \/ XofNew(v, x)
       \/ \E a \in PathArrays : XofDerivePath(v, x, a)

BatchCalls(kind) ==
  \/ \E w \in UsableOf(kind), v \in VarsOf(kind) :
       \/ BatchClone(w, v)
       \/ \E a \in IdArrays : BatchFork(w, v, a)
       \/ \E a \in IdArrays : BatchForkMany(w, v, a)
       \/ \E first \in Firsts : BatchForkRange(w, v, first)
  \/ \E w \in UsableOf(kind), v \in VarsOf(SingleOf(kind)) :
       \E index \in 0 .. 2 : BatchLane(w, index, v)
  \/ \E w \in UsableOf(kind), out \in Pointers :
       \/ \E steps \in StepCounts, n \in 0 .. 2 :
            BatchFillBlocks(w, out, Lesser(n * steps * BlockLen, UsizeMax), steps)
       \/ \E k \in Store, n \in 0 .. 2 : BatchExportSnapshot(w, k, out, BatchLen(n))
  \/ \E k \in Store, p \in Pointers, v \in VarsOf(kind) :
       \E len \in {BatchLen(buf[k].count), HeaderSize - 1, SingleLen, UsizeMax} :
         BatchImportSnapshot(k, p, len, v)
  \/ \E w \in UsableOf(kind) : Free(w)

PrngBatchCalls ==
  \/ BatchCalls("PrngBatch")
  \/ \E v \in VarsOf("PrngBatch"), p \in Pointers, seed \in Seeds :
       \/ \E a \in IdArrays : BatchNew(v, p, seed, a)
       \/ \E first \in Firsts, n \in Counts : BatchNewRange(v, p, seed, first, n)
       \/ \E roots \in IdArrays, path \in PathArrays : BatchDerivePath(v, p, seed, roots, path)

XofBatchCalls ==
  \/ BatchCalls("XofBatch")
  \/ \E v \in VarsOf("XofBatch"), a \in MessageArrays :
       \/ XofBatchNew(v, a)
       \/ \E path \in PathArrays : XofBatchDerivePath(v, a, path)

Init ==
  /\ heap = [a \in Cell |-> None]
  /\ ptr = [v \in Var |-> Null]
  /\ dangling = {} /\ lost = {}
  /\ buf \in [Store -> FirstBytes]
  /\ status = "Ok"

Next == ConstructNowhere \/ PrngCalls \/ XofCalls \/ PrngBatchCalls \/ XofBatchCalls

Spec == Init /\ [][Next]_vars

-----------------------------------------------------------------------------
(* Properties.                                                             *)

Boxed == [kind : Kinds, lanes : Seq(Lane), cursor : 1 .. BlockLen]

ASSUME NoneApart ==
  /\ None \notin Boxed /\ Freed \notin Boxed /\ None # Freed
  /\ None \notin Kinds /\ None \notin Failures

(* An object with a cursor that from_parts accepts, and lanes that a       *)
(* vector can hold.                                                        *)
IsObject(o) ==
  /\ o \in Boxed
  /\ IF o.kind \in BatchKinds THEN o.cursor = BlockLen ELSE Len(o.lanes) = 1
  /\ FitsSlice(Len(o.lanes), LaneSize)

(* However objects were made, replaced and freed, and whether or not a     *)
(* constructor failed: a variable the caller may pass on is null or holds  *)
(* a live object of its type, no two hold the same, so nothing is freed    *)
(* twice, and an object nobody holds is one the caller has written over.   *)
Owners(a) == {v \in Var : Usable(v) /\ ptr[v] = a}

OneOwner ==
  /\ \A v \in Var : Usable(v) /\ ptr[v] # Null =>
       /\ heap[ptr[v]] # None
       /\ IsObject(heap[ptr[v]]) /\ heap[ptr[v]].kind = KindOf(v)
  /\ \A a \in Cell : heap[a] # None =>
       Cardinality(Owners(a)) = IF a \in lost THEN 0 ELSE 1

(* What the importer of a type says of a snapshot as it is long.           *)
Accepts(kind, b) ==
  IF kind \in BatchKinds THEN HeaderError(b, LenOf(b), kind) = None ELSE SingleError(b, kind) = None

(* What a buffer holds at first was not exported, and is no snapshot.      *)
ASSUME FirstBytesForeign ==
  \A b \in FirstBytes : b.from = None /\ \A kind \in Kinds : ~Accepts(kind, b)

(* The importer of one type takes a snapshot, as it is long, if an object  *)
(* of this type was exported last into the buffer, however far it had been *)
(* read, and the importers of the other types do not                       *)
(* (types/snapshot.rs decode_single_snapshot, decode_batch_header).        *)
OwnImporterOnly ==
  \A k \in Store, kind \in Kinds : Accepts(kind, buf[k]) <=> buf[k].from = kind

Values == [v \in Var |->
  IF v \in dangling THEN Freed ELSE IF ptr[v] = Null THEN None ELSE heap[ptr[v]]]

Kept == [k \in Store |-> IF buf[k].from = None THEN None ELSE Decoded(buf[k])]

CV == INSTANCE ContextValues WITH
        held <- Values, kept <- Kept,
        Messages <- {x.m : x \in MessageArgs},
        IdLists <- {a.list : a \in IdArrays \cup PathArrays},
        MessageLists <- {[i \in DOMAIN a.list |-> a.list[i].m] : a \in MessageArrays}

(* Through its pointers the program sees objects that are its variables'   *)
(* own: a call changes the object it is about and no other, a copy, a      *)
(* child or a lane is independent of where it came from, a snapshot gives  *)
(* back the object as it was, and a failed constructor leaves its variable *)
(* empty and everything else alone.                                        *)
ImplementsContextValues == CV!Spec

=============================================================================

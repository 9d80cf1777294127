------------------------------- MODULE PyBatch -------------------------------
(***************************************************************************)
(* Streams and batches as Python objects (src/python/prng.rs, xof.rs,      *)
(* arrays.rs, buffers.rs): threads that take turns with the interpreter    *)
(* lock (GIL), calls that let go of it while they generate, and arrays     *)
(* that the program may change meanwhile.                                  *)
(*                                                                         *)
(* prng.rs and xof.rs hold the same code twice.  A unit of output is a     *)
(* block of a batch (Width[o] of them in a step, laid out as the array     *)
(* wants them) and a chunk of a stream, whose width is 1.  Code that runs  *)
(* under the lock from call to return is one action.                       *)
(***************************************************************************)
EXTENDS PyThreads

CONSTANTS
  Batch, Stream,  \* objects of the two kinds
  Array,
  Width,          \* Width[o]: lanes of a batch, 1 for a stream
  Sizes,          \* steps or chunks that are asked for
  Shapes,         \* shapes of arrays
  Arrays,         \* what the arrays of a program may be at first
  MaxUnits        \* MaxUnits[o]: bound on the output of o

Object == Batch \cup Stream

SizeOf(shape) == FoldLeft(LAMBDA x, y : x * y, 1, shape)

Unit  == Object \X Nat
Value == Unit \cup {Other}

ArrayType ==
  [shape : Seq(Nat), data : Seq(Value), writable : BOOLEAN, contiguous : BOOLEAN,
   aligned : BOOLEAN, kind : {"words", "bytes"}]

(* A batch may be empty; one unit can always be asked for.                 *)
ASSUME ConstantTypes ==
  /\ Batch \cap Stream = {}
  /\ Width \in [Object -> Nat] /\ \A s \in Stream : Width[s] = 1
  /\ Sizes \subseteq Nat /\ 1 \in Sizes
  /\ MaxUnits \in [Object -> Nat]
  /\ Shapes \subseteq Seq(Nat) /\ \A shape \in Shapes : SizeOf(shape) \in Nat
  /\ Arrays \subseteq [Array -> ArrayType]
  /\ \A f \in Arrays, a \in Array : Len(f[a].data) = SizeOf(f[a].shape)

VARIABLES
  at,        \* at[o]: units made by the stream or batch inside o
  borrowed,  \* borrowed[o]: the thread whose call has &mut self
  buf,       \* buf[o]: blocks_buf of a batch
  arr,       \* arr[a]: shape, data and kind of an array
  lent,      \* lent[a]: the thread whose call has the NumPy borrow of a
  call,      \* call[t]: the call of t that has let go of the lock
  said       \* said[t]: answer to the call of t that has returned last

vars == <<gil, at, borrowed, buf, arr, lent, call, said>>

Idle  == [what |-> "idle"]
Done  == [what |-> "done"]
Error == [what |-> "error"]
Lost  == [what |-> "lost"]

Units(o, from, n) == [k \in 1 .. n |-> <<o, from + k - 1>>]

Answer(t, answer) == said' = [said EXCEPT ![t] = answer]

-----------------------------------------------------------------------------
(* The interpreter and the program.                                        *)

(* A thread in Python code gets the lock, and loses it.  said holds an     *)
(* answer until the thread does something else.                            *)
Acquire(t) ==
  /\ gil = NoThread /\ call[t] = Idle
  /\ gil' = t
  /\ UNCHANGED <<at, borrowed, buf, arr, lent, call, said>>

Release(t) ==
  /\ gil = t
  /\ gil' = NoThread
  /\ Answer(t, Done)
  /\ UNCHANGED <<at, borrowed, buf, arr, lent, call>>

Change(t, a, to) ==
  /\ gil = t
  /\ arr' = [arr EXCEPT ![a] = to]
  /\ Answer(t, Done)
  /\ UNCHANGED <<gil, at, borrowed, buf, lent, call>>

Assign(t, a) == Change(t, a, [arr[a] EXCEPT !.data = [k \in DOMAIN @ |-> Other]])

(* Another shape, or strides; the memory grows or shrinks with the shape.  *)
(* NumPy calls an empty array contiguous.                                  *)
Reshape(t, a) ==
  \E shape \in Shapes, contiguous \in BOOLEAN :
    /\ SizeOf(shape) = 0 => contiguous
    /\ LET n    == SizeOf(shape)
           data == [k \in 1 .. n |-> IF k <= Len(arr[a].data) THEN arr[a].data[k] ELSE Other]
       IN  Change(t, a, [arr[a] EXCEPT !.shape = shape, !.data = data, !.contiguous = contiguous])

-----------------------------------------------------------------------------
(* fill_blocks.                                                            *)

(* Checks that come before anything moves; of memory, only when the output *)
(* is not empty.                                                           *)
Accepts(o, a, steps) ==
  /\ borrowed[o] = NoThread
  /\ arr[a].kind = "words"
  /\ lent[a] = NoThread /\ arr[a].writable
  /\ arr[a].shape = <<steps, Width[o]>>
  /\ steps * Width[o] # 0 => arr[a].aligned /\ arr[a].contiguous

FillRefused(t, o, a, steps) ==
  /\ gil = t
  /\ ~Accepts(o, a, steps)
  /\ Answer(t, Error)
  /\ UNCHANGED <<gil, at, borrowed, buf, arr, lent, call>>

(* release_gil=False, or nothing to write.                                 *)
FillDirect(t, o, a, steps) ==
  LET n == steps * Width[o] IN
  /\ gil = t
  /\ Accepts(o, a, steps)
  /\ at[o] + n <= MaxUnits[o]
  /\ at' = [at EXCEPT ![o] = @ + n]
  /\ arr' = [arr EXCEPT ![a].data = Units(o, at[o], n)]
  /\ Answer(t, Done)
  /\ UNCHANGED <<gil, borrowed, buf, lent, call>>

FillNoMemory(t, o, a, steps) ==
  /\ gil = t
  /\ Accepts(o, a, steps)
  /\ Len(buf[o]) < steps * Width[o]
  /\ Answer(t, Error)
  /\ UNCHANGED <<gil, at, borrowed, buf, arr, lent, call>>

(* The internal buffer grows, never shrinks.                               *)
Grown(o, n) == buf[o] \o [k \in 1 .. n - Len(buf[o]) |-> Other]

FillBegin(t, o, a, steps) ==
  LET n == steps * Width[o] IN
  /\ gil = t
  /\ Accepts(o, a, steps)
  /\ n # 0 /\ at[o] + n <= MaxUnits[o]
  /\ buf' = [buf EXCEPT ![o] = IF Len(@) < n THEN Grown(o, n) ELSE @]
  /\ borrowed' = [borrowed EXCEPT ![o] = t]
  /\ lent' = [lent EXCEPT ![a] = t]
  /\ call' = [call EXCEPT ![t] =
       [what |-> "fill_blocks", obj |-> o, arr |-> a, shape |-> <<steps, Width[o]>>,
        size |-> n, out |-> <<>>]]
  /\ gil' = NoThread /\ Answer(t, Done)
  /\ UNCHANGED <<at, arr>>

(* Mutant: the last blocks of the buffer, which may be those of an earlier *)
(* and larger call.                                                        *)
BlocksAtEnd(o, n) == SubSeq(buf[o], Len(buf[o]) - n + 1, Len(buf[o]))

(* The part of the buffer that this call has filled.                       *)
BlocksOf(o, n) == SubSeq(buf[o], 1, n)

(* Mutant: only the contiguity is looked at again.                         *)
StillFitsAnyShape(c) == arr[c.arr].contiguous

(* What is checked of the array once the lock is held again.               *)
StillFits(c) == arr[c.arr].shape = c.shape /\ arr[c.arr].contiguous

FillEnd(t) ==
  LET c == call[t] IN
  /\ gil = NoThread
  /\ c.what = "fill_blocks" /\ Len(c.out) = c.size
  /\ IF StillFits(c)
       THEN arr' = [arr EXCEPT ![c.arr].data = BlocksOf(c.obj, c.size)] /\ Answer(t, Done)
       ELSE Answer(t, Lost) /\ UNCHANGED arr
  /\ borrowed' = [borrowed EXCEPT ![c.obj] = NoThread]
  /\ lent' = [lent EXCEPT ![c.arr] = NoThread]
  /\ call' = [call EXCEPT ![t] = Idle]
  /\ gil' = t
  /\ UNCHANGED <<at, buf>>

-----------------------------------------------------------------------------
(* Calls that return new objects: blocks of a batch, fill, read and        *)
(* fill_u64 of a stream.                                                   *)

(* The object is in use, the size overflows or cannot be allocated.        *)
NewRefused(t, o) ==
  /\ gil = t
  /\ Answer(t, Error)
  /\ UNCHANGED <<gil, at, borrowed, buf, arr, lent, call>>

(* Nothing to generate: the lock is kept.                                  *)
NewEmpty(t, o, k) ==
  /\ gil = t
  /\ borrowed[o] = NoThread
  /\ k * Width[o] = 0
  /\ Answer(t, [what |-> "units", units |-> <<>>])
  /\ UNCHANGED <<gil, at, borrowed, buf, arr, lent, call>>

NewBegin(t, o, k) ==
  LET n == k * Width[o] IN
  /\ gil = t
  /\ borrowed[o] = NoThread
  /\ at[o] + n <= MaxUnits[o]
  /\ borrowed' = [borrowed EXCEPT ![o] = t]
  /\ \E what \in IF o \in Batch THEN {"blocks"} ELSE {"fill", "fill_u64"} :
       /\ n = 0 => what = "fill"
       /\ call' = [call EXCEPT ![t] = [what |-> what, obj |-> o, size |-> n, out |-> <<>>]]
  /\ gil' = NoThread /\ Answer(t, Done)
  /\ UNCHANGED <<at, buf, arr, lent>>

NewEnd(t) ==
  LET c == call[t] IN
  /\ gil = NoThread
  /\ c.what \in {"blocks", "fill", "fill_u64"} /\ Len(c.out) = c.size
  /\ \/ Answer(t, [what |-> "units", units |-> c.out])
     \/ c.what # "fill" /\ Answer(t, Lost)  \* no array could be made of it
  /\ borrowed' = [borrowed EXCEPT ![c.obj] = NoThread]
  /\ call' = [call EXCEPT ![t] = Idle]
  /\ gil' = t
  /\ UNCHANGED <<at, buf, arr, lent>>

(* One step of the stream or batch without the lock.                       *)
Generate(t) ==
  LET c    == call[t]
      made == Units(c.obj, at[c.obj], Width[c.obj])
  IN  /\ c # Idle /\ Len(c.out) < c.size
      /\ at' = [at EXCEPT ![c.obj] = @ + Width[c.obj]]
      /\ call' = [call EXCEPT ![t].out = @ \o made]
      /\ buf' = IF c.what = "fill_blocks"
                  THEN [buf EXCEPT ![c.obj] =
                         [k \in DOMAIN @ |-> IF k \in Len(c.out) + 1 .. Len(c.out) + Len(made)
                                               THEN made[k - Len(c.out)] ELSE @[k]]]
                  ELSE buf
      /\ UNCHANGED <<gil, borrowed, arr, lent, said>>

-----------------------------------------------------------------------------
(* Calls that keep the lock.                                               *)

(* next_u32, next_u64, next_u128, next_block.                              *)
NextUnit(t, o) ==
  /\ gil = t
  /\ o \in Stream /\ borrowed[o] = NoThread
  /\ at[o] < MaxUnits[o]
  /\ at' = [at EXCEPT ![o] = @ + 1]
  /\ Answer(t, [what |-> "units", units |-> Units(o, at[o], 1)])
  /\ UNCHANGED <<gil, borrowed, buf, arr, lent, call>>

(* fill_into wants a buffer of bytes, readinto takes any.  The buffer      *)
(* protocol does not know of the borrows of NumPy arrays.                  *)
TakesBuffer(a, readinto) ==
  arr[a].writable /\ arr[a].contiguous /\ (readinto \/ arr[a].kind = "bytes")

FillInto(t, o, a) ==
  /\ gil = t
  /\ o \in Stream /\ borrowed[o] = NoThread
  /\ \E readinto \in BOOLEAN : TakesBuffer(a, readinto)
  /\ at[o] + Len(arr[a].data) <= MaxUnits[o]
  /\ at' = [at EXCEPT ![o] = @ + Len(arr[a].data)]
  /\ arr' = [arr EXCEPT ![a].data = Units(o, at[o], Len(@))]
  /\ Answer(t, Done)
  /\ UNCHANGED <<gil, borrowed, buf, lent, call>>

FillIntoRefused(t, o, a) ==
  /\ gil = t
  /\ o \in Stream
  /\ borrowed[o] # NoThread \/ \E readinto \in BOOLEAN : ~TakesBuffer(a, readinto)
  /\ Answer(t, Error)
  /\ UNCHANGED <<gil, at, borrowed, buf, arr, lent, call>>

ReleaseBuffer(t, o) ==
  /\ gil = t
  /\ o \in Batch
  /\ IF borrowed[o] = NoThread
       THEN buf' = [buf EXCEPT ![o] = <<>>] /\ Answer(t, Done)
       ELSE Answer(t, Error) /\ UNCHANGED buf
  /\ UNCHANGED <<gil, at, borrowed, arr, lent, call>>

(* &self needs that no call has &mut self.                                 *)
MayRead(o) == borrowed[o] = NoThread

(* copy, fork, fork_many, fork_range, lane, export_snapshot; an error may  *)
(* also be one of memory.                                                  *)
Inspect(t, o) ==
  /\ gil = t
  /\ \/ MayRead(o) /\ Answer(t, [what |-> "state", at |-> at[o]])
     \/ Answer(t, Error)
  /\ UNCHANGED <<gil, at, borrowed, buf, arr, lent, call>>

-----------------------------------------------------------------------------

Init ==
  /\ gil = NoThread
  /\ at = [o \in Object |-> 0]
  /\ borrowed = [o \in Object |-> NoThread]
  /\ buf = [o \in Object |-> <<>>]
  /\ arr \in Arrays
  /\ lent = [a \in Array |-> NoThread]
  /\ call = [t \in Thread |-> Idle]
  /\ said = [t \in Thread |-> Done]

Next ==
  \E t \in Thread :
    \/ Acquire(t) \/ Release(t)
    \/ Generate(t) \/ FillEnd(t) \/ NewEnd(t)
    \/ \E a \in Array : Assign(t, a) \/ Reshape(t, a)
    \/ \E o \in Object :
         \/ NewRefused(t, o) \/ NextUnit(t, o)
         \/ ReleaseBuffer(t, o) \/ Inspect(t, o)
         \/ \E k \in Sizes : NewEmpty(t, o, k) \/ NewBegin(t, o, k)
         \/ \E a \in Array : FillInto(t, o, a) \/ FillIntoRefused(t, o, a)
    \/ \E o \in Batch, a \in Array, steps \in Sizes :
         \/ FillRefused(t, o, a, steps) \/ FillDirect(t, o, a, steps)
         \/ FillNoMemory(t, o, a, steps) \/ FillBegin(t, o, a, steps)

Spec == Init /\ [][Next]_vars

-----------------------------------------------------------------------------
(* Properties.                                                             *)

(* Borrows are those of the calls under way, a call never has written more *)
(* than it was asked for, and an array never holds more or less than its   *)
(* shape says: what is copied after the lock was free has the size that    *)
(* the array has now (src/python/prng.rs fill_blocks).                     *)
TypeOK ==
  /\ gil \in Thread \cup {NoThread}
  /\ \A o \in Object : at[o] \in 0 .. MaxUnits[o]
  /\ \A o \in Object :
       borrowed[o] # NoThread <=> \E t \in Thread : call[t] # Idle /\ call[t].obj = o
  /\ \A a \in Array : Len(arr[a].data) = SizeOf(arr[a].shape)
  /\ \A t \in Thread : call[t] # Idle => Len(call[t].out) <= call[t].size

(* Every call takes effect at once, at its return: a batch that is being   *)
(* filled counts from where it stood, its output is in the array in one    *)
(* piece or not at all, nobody sees it half way, and only the documented   *)
(* errors move it.                                                         *)
PS == INSTANCE PySerial WITH
  at <- [o \in Object |->
          IF borrowed[o] = NoThread THEN at[o] ELSE at[o] - Len(call[borrowed[o]].out)]

ImplementsSerial == PS!Spec

=============================================================================

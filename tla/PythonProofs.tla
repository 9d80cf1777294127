---------------------------- MODULE PythonProofs -----------------------------
(***************************************************************************)
(* Proofs about the calls from Python.                                     *)
(*                                                                         *)
(* Of PyBatch, for every number of threads, objects and arrays, batches of *)
(* every width and sizes of every kind: calls that let go of the           *)
(* interpreter lock still take effect at once, whatever the program does   *)
(* to its arrays meanwhile.                                                *)
(*                                                                         *)
(* Of PyHash, for every number of threads, calls nested to any depth,      *)
(* lists and arrays of every length and every program that changes them:   *)
(* digests are those of the messages as they were read, a call that has    *)
(* written into the array reads nothing back from it, and no digest is     *)
(* written past what the array is now.                                     *)
(***************************************************************************)
EXTENDS PyBatch, PyHash, ArithLemmas, SequenceTheorems

-----------------------------------------------------------------------------
(* Streams and batches: the inductive invariant.                           *)

(* What a call that has let go of the lock holds.                          *)
FillCall ==
  [what : {"fill_blocks"}, obj : Batch, arr : Array, shape : Seq(Nat), size : Nat, out : Seq(Unit)]

NewCall == [what : {"blocks", "fill", "fill_u64"}, obj : Object, size : Nat, out : Seq(Unit)]

Shared ==
  /\ gil \in Thread \cup {NoThread}
  /\ at \in [Object -> Nat] /\ \A o \in Object : at[o] <= MaxUnits[o]
  /\ borrowed \in [Object -> Thread \cup {NoThread}]
  /\ buf \in [Object -> Seq(Value)]
  /\ arr \in [Array -> ArrayType] /\ \A a \in Array : Len(arr[a].data) = SizeOf(arr[a].shape)
  /\ lent \in [Array -> Thread \cup {NoThread}]
  /\ call \in [Thread -> {Idle} \cup FillCall \cup NewCall]

(* Whose borrow an object is under is the call that names it.              *)
Borrows ==
  /\ \A o \in Object : borrowed[o] # NoThread =>
       call[borrowed[o]] # Idle /\ call[borrowed[o]].obj = o
  /\ \A t \in Thread : call[t] # Idle => borrowed[call[t].obj] = t
  /\ gil # NoThread => call[gil] = Idle

(* A call has made the units from where it found its object, in whole      *)
(* steps, and never runs beyond the bound of the object.                   *)
Progress(c) ==
  /\ \E k \in Sizes : \E j \in 0 .. k :
       c.size = k * Width[c.obj] /\ Len(c.out) = j * Width[c.obj]
  /\ at[c.obj] >= Len(c.out) /\ at[c.obj] - Len(c.out) + c.size <= MaxUnits[c.obj]
  /\ c.out = Units(c.obj, at[c.obj] - Len(c.out), Len(c.out))

(* The buffer of a batch is big enough and starts with what was made.      *)
Buffered(c) ==
  /\ \E k \in Sizes : c.shape = <<k, Width[c.obj]>> /\ c.size = k * Width[c.obj]
  /\ Len(buf[c.obj]) >= c.size
  /\ \A i \in 1 .. Len(c.out) : buf[c.obj][i] = c.out[i]

Running ==
  \A t \in Thread : call[t] # Idle =>
    /\ Progress(call[t])
    /\ call[t].what = "fill_blocks" => Buffered(call[t])

IInv == Shared /\ Borrows /\ Running

-----------------------------------------------------------------------------
(* Sequences, and sizes of arrays of two dimensions.                       *)

LEMMA SequenceOf ==
  ASSUME NEW S, NEW n \in Nat, NEW f \in [1 .. n -> S]
  PROVE  f \in Seq(S) /\ Len(f) = n
OBVIOUS

LEMMA SameSequence ==
  ASSUME NEW S, NEW f \in Seq(S), NEW g \in Seq(S), Len(f) = Len(g),
         \A i \in 1 .. Len(f) : f[i] = g[i]
  PROVE  f = g
OBVIOUS

LEMMA UnitsAre ==
  ASSUME NEW o \in Object, NEW from \in Nat, NEW n \in Nat
  PROVE  /\ Units(o, from, n) \in Seq(Unit) /\ Units(o, from, n) \in Seq(Value)
         /\ Len(Units(o, from, n)) = n
         /\ \A i \in 1 .. n : Units(o, from, n)[i] = <<o, from + i - 1>>
<1>1. Units(o, from, n) \in [1 .. n -> Unit]
  BY DEF Units, Unit
<1>2. Units(o, from, n) \in [1 .. n -> Value]
  BY <1>1 DEF Value
<1>3. \A i \in 1 .. n : Units(o, from, n)[i] = <<o, from + i - 1>>
  BY DEF Units
<1> QED BY <1>1, <1>2, <1>3, SequenceOf

LEMMA UnitsGoOn ==
  ASSUME NEW o \in Object, NEW from \in Nat, NEW n \in Nat, NEW m \in Nat
  PROVE  Units(o, from, n) \o Units(o, from + n, m) = Units(o, from, n + m)
<1> DEFINE a == Units(o, from, n)
           b == Units(o, from + n, m)
           c == Units(o, from, n + m)
<1>0. from + n \in Nat /\ n + m \in Nat
  OBVIOUS
<1>1. a \in Seq(Unit) /\ Len(a) = n /\ \A i \in 1 .. n : a[i] = <<o, from + i - 1>>
  BY UnitsAre
<1>2. b \in Seq(Unit) /\ Len(b) = m /\ \A i \in 1 .. m : b[i] = <<o, (from + n) + i - 1>>
  BY <1>0, UnitsAre
<1>3. c \in Seq(Unit) /\ Len(c) = n + m /\ \A i \in 1 .. n + m : c[i] = <<o, from + i - 1>>
  BY <1>0, UnitsAre
<1> HIDE DEF a, b, c
<1>4. a \o b \in Seq(Unit) /\ Len(a \o b) = n + m
  BY <1>1, <1>2, ConcatProperties
<1>5. ASSUME NEW i \in 1 .. n + m
      PROVE  (a \o b)[i] = c[i]
  <2>1. CASE i <= n
    <3>1. (a \o b)[i] = a[i]
      BY <2>1, <1>1, <1>2, ConcatProperties
    <3>2. i \in 1 .. n /\ a[i] = <<o, from + i - 1>> /\ c[i] = <<o, from + i - 1>>
      BY <2>1, <1>1, <1>3
    <3> QED BY ONLY <3>1, <3>2
  <2>2. CASE i > n
    <3>1. (a \o b)[i] = b[i - n]
      BY <2>2, <1>1, <1>2, ConcatProperties, SMTT(40)
    <3>2. i - n \in 1 .. m /\ (from + n) + (i - n) - 1 = from + i - 1
      BY <2>2
    <3> QED BY <3>1, <3>2, <1>2, <1>3
  <2>3. i <= n \/ i > n
    OBVIOUS
  <2> QED BY ONLY <2>1, <2>2, <2>3
<1>6. a \o b = c
  BY <1>3, <1>4, <1>5, SameSequence
<1> QED BY <1>6 DEF a, b, c

LEMMA MaxTwo == Max({1,2}) = 2 /\ Max({1}) = 1 /\ Max({2}) = 2
<1>1. ASSUME NEW x \in {1,2}, \A y \in {1,2} : x >= y PROVE x = 2
  BY <1>1
<1>2. \E x \in {1,2} : \A y \in {1,2} : x >= y
  OBVIOUS
<1>3. Max({1,2}) = 2
  BY <1>1, <1>2 DEF Max
<1>4. Max({1}) = 1
  BY DEF Max
<1>5. Max({2}) = 2
  BY DEF Max
<1> QED BY <1>3, <1>4, <1>5

LEMMA SizeOfPair ==
  ASSUME NEW a \in Nat, NEW b \in Nat
  PROVE SizeOf(<<a, b>>) = a * b
<1> DEFINE q == <<a, b>>
      S == DOMAIN q
      F(it) == [s \in SUBSET S |-> IF s = {} THEN 1 ELSE it[s \ {Max(s)}] * q[Max(s)]]
      it == CHOOSE i : i = F(i)
<1>1. SizeOf(q) = it[S]
  BY Zenon DEF SizeOf, FoldLeft, MapThenFoldSet
<1>2. S = {1, 2} /\ q[1] = a /\ q[2] = b
  OBVIOUS
<1> DEFINE g == [s \in SUBSET S |-> IF s = {} THEN 1 ELSE IF s = {1} THEN a ELSE IF s = {2} THEN b ELSE a * b]
<1>3. F(g) = g
  <2> SUFFICES ASSUME NEW s \in SUBSET S
               PROVE  F(g)[s] = g[s]
    OBVIOUS
  <2>1. CASE s = {}
    BY <2>1
  <2>2. CASE s = {1}
    <3>1. Max(s) = 1 /\ s \ {1} = {}
      BY <2>2, MaxTwo
    <3> QED BY <3>1, <2>2, <1>2
  <2>3. CASE s = {2}
    <3>1. Max(s) = 2 /\ s \ {2} = {}
      BY <2>3, MaxTwo
    <3> QED BY <3>1, <2>3, <1>2
  <2>4. CASE s = {1, 2}
    <3>1. Max(s) = 2 /\ s \ {2} = {1}
      BY <2>4, MaxTwo
    <3>2. F(g)[s] = g[s \ {2}] * q[2]
      BY <3>1, <2>4
    <3> QED BY <3>1, <3>2, <2>4, <1>2
  <2> QED BY <1>2, <2>1, <2>2, <2>3, <2>4
<1>4. it = F(it)
  BY <1>3
<1>5. it[{}] = 1
  BY <1>4
<1>6. it[{1}] = a
  <2>1. {1} \in SUBSET S /\ Max({1}) = 1 /\ {1} \ {1} = {}
    BY <1>2, MaxTwo
  <2> HIDE DEF it
  <2>2. it[{1}] = it[{1} \ {Max({1})}] * q[Max({1})]
    BY <2>1, <1>4
  <2> QED BY <2>1, <2>2, <1>5, <1>2
<1>7. it[{1, 2}] = a * b
  <2>1. {1, 2} \in SUBSET S /\ Max({1, 2}) = 2 /\ {1, 2} \ {2} = {1}
    BY <1>2, MaxTwo
  <2> HIDE DEF it
  <2>2. it[{1, 2}] = it[{1, 2} \ {Max({1, 2})}] * q[Max({1, 2})]
    BY <2>1, <1>4
  <2> QED BY <2>1, <2>2, <1>6, <1>2
<1> QED BY <1>1, <1>2, <1>7

-----------------------------------------------------------------------------
(* Every step keeps the inductive invariant.                               *)

LEMMA InitIInv == Init => IInv
<1> SUFFICES ASSUME Init
             PROVE  IInv
  OBVIOUS
<1>1. Shared
  <2>1. arr \in [Array -> ArrayType] /\ \A a \in Array : Len(arr[a].data) = SizeOf(arr[a].shape)
    BY ConstantTypes DEF Init
  <2>2. at \in [Object -> Nat] /\ \A o \in Object : at[o] <= MaxUnits[o]
    BY ConstantTypes DEF Init
  <2>3. buf \in [Object -> Seq(Value)]
    BY DEF Init
  <2> QED BY <2>1, <2>2, <2>3 DEF Init, Shared
<1>2. Borrows /\ Running
  BY DEF Init, Borrows, Running
<1> QED BY <1>1, <1>2 DEF IInv

(* A call in progress is not disturbed by what happens to other objects.   *)
LEMMA Undisturbed ==
  ASSUME NEW t \in Thread, Running, call[t] # Idle, call'[t] = call[t],
         at'[call[t].obj] = at[call[t].obj], buf'[call[t].obj] = buf[call[t].obj]
  PROVE  Progress(call[t])' /\ (call'[t].what = "fill_blocks" => Buffered(call[t])')
<1>1. Progress(call[t]) /\ (call[t].what = "fill_blocks" => Buffered(call[t]))
  BY DEF Running
<1>2. Progress(call[t])'
  BY <1>1 DEF Progress
<1>3. Buffered(call[t]) => Buffered(call[t])'
  BY DEF Buffered
<1> QED BY <1>1, <1>2, <1>3

(* A step that leaves the objects and the calls alone.                     *)
LEMMA QuietStep ==
  ASSUME IInv, UNCHANGED <<at, borrowed, buf, lent, call>>,
         gil' \in Thread \cup {NoThread}, gil' # NoThread => call[gil'] = Idle,
         arr' \in [Array -> ArrayType],
         \A a \in Array : Len(arr'[a].data) = SizeOf(arr'[a].shape)
  PROVE  IInv'
<1>1. Shared'
  BY DEF IInv, Shared
<1>2. Borrows'
  BY DEF IInv, Borrows
<1>3. Running'
  BY Undisturbed DEF IInv, Running
<1> QED BY <1>1, <1>2, <1>3 DEF IInv

(* A step of the thread that has the lock on an object nobody has borrowed.*)
LEMMA FreeStep ==
  ASSUME IInv, NEW o \in Object, borrowed[o] = NoThread,
         NEW m \in Nat, m <= MaxUnits[o], NEW b \in Seq(Value),
         at' = [at EXCEPT ![o] = m], buf' = [buf EXCEPT ![o] = b],
         UNCHANGED <<gil, borrowed, lent, call>>,
         arr' \in [Array -> ArrayType],
         \A a \in Array : Len(arr'[a].data) = SizeOf(arr'[a].shape)
  PROVE  IInv'
<1>1. Shared'
  BY DEF IInv, Shared
<1>2. Borrows'
  BY DEF IInv, Borrows
<1>3. ASSUME NEW t \in Thread, call'[t] # Idle
      PROVE  Progress(call[t])' /\ (call'[t].what = "fill_blocks" => Buffered(call[t])')
  <2>1. call[t].obj # o
    BY <1>3, NoThreadApart DEF IInv, Borrows
  <2>2. at'[call[t].obj] = at[call[t].obj] /\ buf'[call[t].obj] = buf[call[t].obj]
    BY <2>1
  <2> QED BY <1>3, <2>2, Undisturbed DEF IInv
<1>4. Running'
  BY <1>3 DEF Running
<1> QED BY <1>1, <1>2, <1>4 DEF IInv

LEMMA ArrayStays ==
  ASSUME IInv, NEW a \in Array, NEW to \in ArrayType, Len(to.data) = SizeOf(to.shape),
         arr' = [arr EXCEPT ![a] = to]
  PROVE  /\ arr' \in [Array -> ArrayType]
         /\ \A x \in Array : Len(arr'[x].data) = SizeOf(arr'[x].shape)
BY DEF IInv, Shared

LEMMA NewData ==
  ASSUME NEW array \in ArrayType, NEW data \in Seq(Value)
  PROVE  /\ [array EXCEPT !.data = data] \in ArrayType
         /\ [array EXCEPT !.data = data].data = data
         /\ [array EXCEPT !.data = data].shape = array.shape
BY DEF ArrayType

(* Turns with the lock, refusals, and calls that only look.                *)
LEMMA KeepsQuiet ==
  ASSUME IInv, NEW t \in Thread, UNCHANGED <<at, borrowed, buf, arr, lent, call>>,
         gil' = NoThread \/ gil' = gil \/ (gil' = t /\ call[t] = Idle)
  PROVE  IInv'
<1>1. /\ gil' \in Thread \cup {NoThread} /\ (gil' # NoThread => call[gil'] = Idle)
      /\ arr' \in [Array -> ArrayType]
      /\ \A a \in Array : Len(arr'[a].data) = SizeOf(arr'[a].shape)
  BY DEF IInv, Shared, Borrows
<1> QED BY <1>1, QuietStep

LEMMA KeepsAssign ==
  ASSUME IInv, NEW t \in Thread, NEW a \in Array, Assign(t, a)
  PROVE  IInv'
<1> DEFINE d == [k \in DOMAIN arr[a].data |-> Other]
<1>1. arr[a] \in ArrayType /\ Len(arr[a].data) = SizeOf(arr[a].shape)
  BY DEF IInv, Shared
<1>2. arr[a].data \in Seq(Value) /\ DOMAIN arr[a].data = 1 .. Len(arr[a].data) /\ Len(arr[a].data) \in Nat
  BY <1>1 DEF ArrayType
<1>3. d \in [1 .. Len(arr[a].data) -> Value]
  BY <1>2 DEF Value
<1>4. d \in Seq(Value) /\ Len(d) = Len(arr[a].data)
  BY <1>2, <1>3, SequenceOf
<1>5. arr' = [arr EXCEPT ![a] = [arr[a] EXCEPT !.data = d]] /\ UNCHANGED <<gil, at, borrowed, buf, lent, call>>
  BY DEF Assign, Change
<1> HIDE DEF d
<1>6. /\ arr' \in [Array -> ArrayType]
      /\ \A x \in Array : Len(arr'[x].data) = SizeOf(arr'[x].shape)
  <2> DEFINE to == [arr[a] EXCEPT !.data = d]
  <2>1. to \in ArrayType /\ to.data = d /\ to.shape = arr[a].shape
    BY <1>1, <1>4, NewData
  <2>2. arr' = [arr EXCEPT ![a] = to]
    BY <1>5
  <2> HIDE DEF to
  <2>3. Len(to.data) = SizeOf(to.shape)
    BY <1>1, <1>4, <2>1
  <2> QED BY <2>1, <2>2, <2>3, ArrayStays
<1>7. gil' \in Thread \cup {NoThread} /\ (gil' # NoThread => call[gil'] = Idle)
  BY <1>5 DEF IInv, Shared, Borrows
<1> QED BY <1>5, <1>6, <1>7, QuietStep

LEMMA KeepsReshape ==
  ASSUME IInv, NEW t \in Thread, NEW a \in Array, Reshape(t, a)
  PROVE  IInv'
<1>1. PICK shape \in Shapes, contiguous \in BOOLEAN :
        LET n    == SizeOf(shape)
            data == [k \in 1 .. n |-> IF k <= Len(arr[a].data) THEN arr[a].data[k] ELSE Other]
        IN  Change(t, a, [arr[a] EXCEPT !.shape = shape, !.data = data, !.contiguous = contiguous])
  BY DEF Reshape
<1> DEFINE n  == SizeOf(shape)
           d  == [k \in 1 .. n |-> IF k <= Len(arr[a].data) THEN arr[a].data[k] ELSE Other]
           to == [arr[a] EXCEPT !.shape = shape, !.data = d, !.contiguous = contiguous]
<1>2. n \in Nat /\ shape \in Seq(Nat)
  BY ConstantTypes
<1>3. arr[a] \in ArrayType /\ arr[a].data \in Seq(Value)
  BY DEF IInv, Shared, ArrayType
<1> HIDE DEF n
<1>4. d \in [1 .. n -> Value]
  <2>1. ASSUME NEW k \in 1 .. n, k <= Len(arr[a].data)
        PROVE  arr[a].data[k] \in Value
    BY <1>2, <1>3, <2>1
  <2> QED BY <2>1 DEF Value
<1>5. d \in Seq(Value) /\ Len(d) = n
  BY <1>2, <1>4, SequenceOf
<1>6. arr' = [arr EXCEPT ![a] = to] /\ UNCHANGED <<gil, at, borrowed, buf, lent, call>>
  BY <1>1 DEF Change, n
<1> HIDE DEF d
<1>7. to \in ArrayType /\ to.data = d /\ to.shape = shape
  BY <1>2, <1>3, <1>5 DEF ArrayType
<1> HIDE DEF to
<1>8. /\ arr' \in [Array -> ArrayType]
      /\ \A x \in Array : Len(arr'[x].data) = SizeOf(arr'[x].shape)
  BY <1>5, <1>6, <1>7, ArrayStays DEF n
<1>9. gil' \in Thread \cup {NoThread} /\ (gil' # NoThread => call[gil'] = Idle)
  BY <1>6 DEF IInv, Shared, Borrows
<1> QED BY <1>6, <1>8, <1>9, QuietStep

LEMMA KeepsReleaseBuffer ==
  ASSUME IInv, NEW t \in Thread, NEW o \in Object, ReleaseBuffer(t, o)
  PROVE  IInv'
<1>1. /\ arr \in [Array -> ArrayType] /\ \A x \in Array : Len(arr[x].data) = SizeOf(arr[x].shape)
      /\ at \in [Object -> Nat] /\ at[o] \in Nat /\ at[o] <= MaxUnits[o]
  BY DEF IInv, Shared
<1>2. CASE borrowed[o] = NoThread
  <2>1. at' = [at EXCEPT ![o] = at[o]] /\ buf' = [buf EXCEPT ![o] = <<>>]
    BY <1>1, <1>2 DEF ReleaseBuffer
  <2>2. <<>> \in Seq(Value)
    OBVIOUS
  <2>3. UNCHANGED <<gil, borrowed, lent, call, arr>>
    BY DEF ReleaseBuffer
  <2> QED BY <1>1, <1>2, <2>1, <2>2, <2>3, FreeStep
<1>3. CASE borrowed[o] # NoThread
  BY <1>3, KeepsQuiet DEF ReleaseBuffer
<1> QED BY <1>2, <1>3

LEMMA KeepsNextUnit ==
  ASSUME IInv, NEW t \in Thread, NEW o \in Object, NextUnit(t, o)
  PROVE  IInv'
<1>1. /\ arr \in [Array -> ArrayType] /\ \A x \in Array : Len(arr[x].data) = SizeOf(arr[x].shape)
      /\ at \in [Object -> Nat] /\ at[o] \in Nat /\ buf \in [Object -> Seq(Value)] /\ buf[o] \in Seq(Value)
      /\ MaxUnits[o] \in Nat
  BY ConstantTypes DEF IInv, Shared
<1>2. at[o] + 1 \in Nat /\ at[o] + 1 <= MaxUnits[o]
  BY <1>1 DEF NextUnit
<1>3. at' = [at EXCEPT ![o] = at[o] + 1] /\ buf' = [buf EXCEPT ![o] = buf[o]]
  BY <1>1 DEF NextUnit
<1>4. UNCHANGED <<gil, borrowed, lent, call, arr>> /\ borrowed[o] = NoThread
  BY DEF NextUnit
<1> QED BY <1>1, <1>2, <1>3, <1>4, FreeStep

(* Output that goes straight into an array.                                *)
LEMMA KeepsDirect ==
  ASSUME IInv, NEW o \in Object, NEW a \in Array, NEW n \in Nat,
         borrowed[o] = NoThread, at[o] + n <= MaxUnits[o], Len(arr[a].data) = n,
         at' = [at EXCEPT ![o] = @ + n],
         arr' = [arr EXCEPT ![a].data = Units(o, at[o], n)],
         UNCHANGED <<gil, borrowed, buf, lent, call>>
  PROVE  IInv'
<1>1. /\ arr \in [Array -> ArrayType] /\ Len(arr[a].data) = SizeOf(arr[a].shape)
      /\ at \in [Object -> Nat] /\ at[o] \in Nat /\ buf \in [Object -> Seq(Value)] /\ buf[o] \in Seq(Value)
      /\ MaxUnits[o] \in Nat /\ arr[a] \in ArrayType
  BY ConstantTypes DEF IInv, Shared
<1> DEFINE u == Units(o, at[o], n)
<1>2. u \in Seq(Value) /\ Len(u) = n
  BY <1>1, UnitsAre
<1>3. arr' = [arr EXCEPT ![a] = [arr[a] EXCEPT !.data = u]]
  BY <1>1
<1> HIDE DEF u
<1>4. /\ arr' \in [Array -> ArrayType]
      /\ \A x \in Array : Len(arr'[x].data) = SizeOf(arr'[x].shape)
  <2> DEFINE to == [arr[a] EXCEPT !.data = u]
  <2>1. to \in ArrayType /\ to.data = u /\ to.shape = arr[a].shape
    BY <1>1, <1>2, NewData
  <2>2. arr' = [arr EXCEPT ![a] = to]
    BY <1>3
  <2> HIDE DEF to
  <2>3. Len(to.data) = SizeOf(to.shape)
    BY <1>1, <1>2, <2>1
  <2> QED BY <2>1, <2>2, <2>3, ArrayStays
<1>5. at[o] + n \in Nat /\ at' = [at EXCEPT ![o] = at[o] + n] /\ buf' = [buf EXCEPT ![o] = buf[o]]
  BY <1>1
<1> QED BY <1>1, <1>4, <1>5, FreeStep

LEMMA AcceptedSize ==
  ASSUME IInv, NEW o \in Batch, NEW a \in Array, NEW steps \in Sizes, Accepts(o, a, steps)
  PROVE  /\ o \in Object /\ Width[o] \in Nat /\ steps \in Nat /\ steps * Width[o] \in Nat
         /\ SizeOf(<<steps, Width[o]>>) = steps * Width[o]
         /\ Len(arr[a].data) = steps * Width[o] /\ borrowed[o] = NoThread
<1>1. o \in Object /\ Width[o] \in Nat /\ steps \in Nat
  BY ConstantTypes DEF Object
<1>2. steps * Width[o] \in Nat /\ SizeOf(<<steps, Width[o]>>) = steps * Width[o]
  BY <1>1, SizeOfPair
<1>3. Len(arr[a].data) = SizeOf(arr[a].shape) /\ arr[a].shape = <<steps, Width[o]>> /\ borrowed[o] = NoThread
  BY DEF IInv, Shared, Accepts
<1> QED BY <1>1, <1>2, <1>3

LEMMA KeepsFillDirect ==
  ASSUME IInv, NEW t \in Thread, NEW o \in Batch, NEW a \in Array, NEW steps \in Sizes,
         FillDirect(t, o, a, steps)
  PROVE  IInv'
<1> DEFINE n == steps * Width[o]
<1>1. Accepts(o, a, steps) /\ at[o] + n <= MaxUnits[o]
      /\ at' = [at EXCEPT ![o] = @ + n] /\ arr' = [arr EXCEPT ![a].data = Units(o, at[o], n)]
      /\ UNCHANGED <<gil, borrowed, buf, lent, call>>
  BY DEF FillDirect
<1>2. n \in Nat /\ Len(arr[a].data) = n /\ borrowed[o] = NoThread /\ o \in Object
  BY <1>1, AcceptedSize
<1> HIDE DEF n
<1> QED BY <1>1, <1>2, KeepsDirect

LEMMA KeepsFillInto ==
  ASSUME IInv, NEW t \in Thread, NEW o \in Object, NEW a \in Array, FillInto(t, o, a)
  PROVE  IInv'
<1> DEFINE n == Len(arr[a].data)
<1>1. arr \in [Array -> ArrayType] /\ arr[a] \in ArrayType
  BY DEF IInv, Shared
<1>2. n \in Nat
  BY <1>1 DEF ArrayType
<1>3. /\ at[o] + n <= MaxUnits[o] /\ at' = [at EXCEPT ![o] = @ + n] /\ borrowed[o] = NoThread
      /\ arr' = [arr EXCEPT ![a].data = Units(o, at[o], n)]
      /\ UNCHANGED <<gil, borrowed, buf, lent, call>>
  BY <1>1 DEF FillInto
<1>4. n = Len(arr[a].data)
  OBVIOUS
<1> HIDE DEF n
<1> QED BY <1>2, <1>3, <1>4, KeepsDirect

LEMMA NoUnits ==
  ASSUME NEW o \in Object, NEW from \in Nat
  PROVE  Units(o, from, 0) = <<>>
BY DEF Units

LEMMA IdleIsNoCall == \A c \in FillCall \cup NewCall : c # Idle /\ c.obj \in Object /\ c.size \in Nat /\ c.out \in Seq(Unit)
BY DEF FillCall, NewCall, Idle, Object

(* A call begins on an object that is free.                                *)
LEMMA KeepsBegin ==
  ASSUME IInv, NEW t \in Thread, gil = t, NEW o \in Object, borrowed[o] = NoThread,
         NEW c \in FillCall \cup NewCall, NEW k \in Sizes,
         c.obj = o, c.out = <<>>, c.size = k * Width[o], at[o] + c.size <= MaxUnits[o],
         NEW b \in Seq(Value),
         c.what = "fill_blocks" => c.shape = <<k, Width[o]>> /\ Len(b) >= c.size,
         call' = [call EXCEPT ![t] = c], borrowed' = [borrowed EXCEPT ![o] = t],
         buf' = [buf EXCEPT ![o] = b], lent' \in [Array -> Thread \cup {NoThread}],
         gil' = NoThread, UNCHANGED <<at, arr>>
  PROVE  IInv'
<1>1. t # NoThread /\ call[t] = Idle /\ c # Idle
  BY NoThreadApart, IdleIsNoCall DEF IInv, Borrows
<1>2. Shared'
  BY DEF IInv, Shared
<1>3. Borrows'
  <2>1. ASSUME NEW x \in Object, borrowed'[x] # NoThread
        PROVE  call'[borrowed'[x]] # Idle /\ call'[borrowed'[x]].obj = x
    <3>1. CASE x = o
      BY <3>1, <1>1 DEF IInv, Shared
    <3>2. CASE x # o
      <4>1. borrowed'[x] = borrowed[x] /\ borrowed[x] # NoThread /\ borrowed[x] \in Thread
        BY <3>2, <2>1 DEF IInv, Shared
      <4>2. borrowed[x] # t /\ call[borrowed[x]] # Idle /\ call[borrowed[x]].obj = x
        BY <4>1, <1>1 DEF IInv, Borrows
      <4>3. call'[borrowed[x]] = call[borrowed[x]]
        BY <4>1, <4>2 DEF IInv, Shared
      <4> QED BY <4>1, <4>2, <4>3
    <3> QED BY <3>1, <3>2
  <2>2. ASSUME NEW u \in Thread, call'[u] # Idle
        PROVE  borrowed'[call'[u].obj] = u
    <3>1. CASE u = t
      BY <3>1, <1>1 DEF IInv, Shared
    <3>2. CASE u # t
      BY <3>2, <2>2, <1>1, NoThreadApart DEF IInv, Shared, Borrows
    <3> QED BY <3>1, <3>2
  <2> QED BY <2>1, <2>2 DEF Borrows
<1>4. Running'
  <2>1. ASSUME NEW u \in Thread, call'[u] # Idle, u # t
        PROVE  Progress(call[u])' /\ (call'[u].what = "fill_blocks" => Buffered(call[u])')
    <3>1. call'[u] = call[u] /\ borrowed[call[u].obj] = u /\ call[u] # Idle
      BY <2>1 DEF IInv, Shared, Borrows
    <3>2. call[u].obj # o
      BY <3>1, NoThreadApart
    <3>3. at'[call[u].obj] = at[call[u].obj] /\ buf'[call[u].obj] = buf[call[u].obj]
      BY <3>2
    <3> QED BY <3>1, <3>3, Undisturbed DEF IInv
  <2>2. call'[t] = c /\ at'[o] = at[o] /\ at[o] \in Nat /\ buf'[o] = b /\ k \in Nat
    BY ConstantTypes DEF IInv, Shared
  <2>3. Len(c.out) = 0 /\ c.out = Units(o, at[o] - 0, 0) /\ 0 = 0 * Width[o] /\ c.size \in Nat
    BY <2>2, NoUnits, ConstantTypes, IdleIsNoCall
  <2>4. Progress(call[t])'
    <3>1. 0 \in 0 .. k /\ at[o] >= 0 /\ at[o] - 0 + c.size <= MaxUnits[o]
      BY <2>2, <2>3
    <3> QED BY <2>2, <2>3, <3>1 DEF Progress
  <2>5. call'[t].what = "fill_blocks" => Buffered(call[t])'
    BY <2>2, <2>3 DEF Buffered
  <2> QED BY <2>1, <2>4, <2>5 DEF Running
<1> QED BY <1>2, <1>3, <1>4 DEF IInv

LEMMA KeepsFillBegin ==
  ASSUME IInv, NEW t \in Thread, NEW o \in Batch, NEW a \in Array, NEW steps \in Sizes,
         FillBegin(t, o, a, steps)
  PROVE  IInv'
<1> DEFINE n == steps * Width[o]
           c == [what |-> "fill_blocks", obj |-> o, arr |-> a, shape |-> <<steps, Width[o]>>,
                 size |-> n, out |-> <<>>]
           b == IF Len(buf[o]) < n THEN Grown(o, n) ELSE buf[o]
<1>1. /\ o \in Object /\ Width[o] \in Nat /\ steps \in Nat /\ n \in Nat /\ borrowed[o] = NoThread
  BY AcceptedSize DEF FillBegin
<1>2. buf[o] \in Seq(Value) /\ Len(buf[o]) \in Nat /\ buf \in [Object -> Seq(Value)]
      /\ lent \in [Array -> Thread \cup {NoThread}]
  BY <1>1 DEF IInv, Shared
<1>3. b \in Seq(Value) /\ Len(b) >= n
  <2>1. CASE Len(buf[o]) < n
    <3> DEFINE g == [x \in 1 .. n - Len(buf[o]) |-> Other]
    <3>1. n - Len(buf[o]) \in Nat /\ g \in [1 .. n - Len(buf[o]) -> Value]
      BY <1>1, <1>2, <2>1 DEF Value
    <3>2. g \in Seq(Value) /\ Len(g) = n - Len(buf[o])
      BY <3>1, SequenceOf
    <3>3. b = buf[o] \o g
      BY <2>1 DEF Grown
    <3> HIDE DEF g, b, n
    <3> QED BY <1>1, <1>2, <3>2, <3>3, ConcatProperties
  <2>2. CASE ~(Len(buf[o]) < n)
    BY <2>2, <1>1, <1>2
  <2> QED BY <2>1, <2>2
<1>4. c \in FillCall
  <2>1. <<steps, Width[o]>> \in Seq(Nat) /\ <<>> \in Seq(Unit)
    BY <1>1
  <2> QED BY <1>1, <2>1 DEF FillCall
<1>5. c.obj = o /\ c.out = <<>> /\ c.size = n /\ c.shape = <<steps, Width[o]>>
  OBVIOUS
<1>6. /\ call' = [call EXCEPT ![t] = c] /\ borrowed' = [borrowed EXCEPT ![o] = t]
      /\ lent' = [lent EXCEPT ![a] = t] /\ gil' = NoThread /\ UNCHANGED <<at, arr>>
      /\ gil = t /\ at[o] + n <= MaxUnits[o]
  BY DEF FillBegin
<1>7. buf' = [buf EXCEPT ![o] = b]
  BY <1>2 DEF FillBegin
<1>8. lent' \in [Array -> Thread \cup {NoThread}]
  BY <1>2, <1>6
<1>9. at[o] + c.size <= MaxUnits[o] /\ c.size = steps * Width[o]
      /\ (c.what = "fill_blocks" => c.shape = <<steps, Width[o]>> /\ Len(b) >= c.size)
  BY <1>3, <1>6
<1> HIDE DEF b, c, n
<1> QED BY <1>1, <1>3, <1>4, <1>5, <1>6, <1>7, <1>8, <1>9, KeepsBegin

LEMMA KeepsNewBegin ==
  ASSUME IInv, NEW t \in Thread, NEW o \in Object, NEW k \in Sizes, NewBegin(t, o, k)
  PROVE  IInv'
<1> DEFINE n == k * Width[o]
<1>1. PICK what \in {"blocks", "fill", "fill_u64"} :
        call' = [call EXCEPT ![t] = [what |-> what, obj |-> o, size |-> n, out |-> <<>>]]
  BY DEF NewBegin
<1> DEFINE c == [what |-> what, obj |-> o, size |-> n, out |-> <<>>]
<1>2. n \in Nat /\ buf \in [Object -> Seq(Value)] /\ buf[o] \in Seq(Value)
      /\ lent \in [Array -> Thread \cup {NoThread}]
  BY ConstantTypes DEF IInv, Shared
<1>3. c \in NewCall
  <2>1. <<>> \in Seq(Unit)
    OBVIOUS
  <2> QED BY <1>2, <2>1 DEF NewCall
<1>4. c.obj = o /\ c.out = <<>> /\ c.size = k * Width[o] /\ c.what # "fill_blocks"
  OBVIOUS
<1>5. /\ call' = [call EXCEPT ![t] = c] /\ borrowed' = [borrowed EXCEPT ![o] = t]
      /\ gil' = NoThread /\ UNCHANGED <<at, arr>> /\ gil = t /\ borrowed[o] = NoThread
      /\ at[o] + c.size <= MaxUnits[o] /\ lent' = lent
  BY <1>1 DEF NewBegin
<1>6. buf' = [buf EXCEPT ![o] = buf[o]]
  BY <1>2 DEF NewBegin
<1> HIDE DEF c, n
<1> QED BY <1>2, <1>3, <1>4, <1>5, <1>6, KeepsBegin

(* A call ends.                                                            *)
LEMMA KeepsEnd ==
  ASSUME IInv, NEW t \in Thread, call[t] # Idle,
         borrowed' = [borrowed EXCEPT ![call[t].obj] = NoThread],
         call' = [call EXCEPT ![t] = Idle], lent' \in [Array -> Thread \cup {NoThread}],
         gil' = t, UNCHANGED <<at, buf>>,
         arr' \in [Array -> ArrayType],
         \A a \in Array : Len(arr'[a].data) = SizeOf(arr'[a].shape)
  PROVE  IInv'
<1>1. borrowed[call[t].obj] = t /\ call'[t] = Idle /\ t # NoThread
  BY NoThreadApart DEF IInv, Borrows, Shared
<1>2. Shared'
  BY DEF IInv, Shared
<1>3. Borrows'
  <2>1. ASSUME NEW x \in Object, borrowed'[x] # NoThread
        PROVE  call'[borrowed'[x]] # Idle /\ call'[borrowed'[x]].obj = x
    <3>1. borrowed'[x] = borrowed[x] /\ x # call[t].obj
      BY <2>1, <1>1 DEF IInv, Shared
    <3>2. call[borrowed[x]].obj = x /\ borrowed[x] \in Thread /\ call[borrowed[x]] # Idle
      BY <2>1, <3>1 DEF IInv, Borrows, Shared
    <3>3. borrowed[x] # t
      BY <3>1, <3>2
    <3> QED BY <3>1, <3>2, <3>3 DEF IInv, Shared
  <2>2. ASSUME NEW u \in Thread, call'[u] # Idle
        PROVE  borrowed'[call'[u].obj] = u
    <3>1. u # t /\ call'[u] = call[u] /\ borrowed[call[u].obj] = u
      BY <2>2, <1>1 DEF IInv, Shared, Borrows
    <3>2. call[u].obj # call[t].obj
      BY <3>1, <1>1
    <3> QED BY <3>1, <3>2 DEF IInv, Shared
  <2> QED BY <2>1, <2>2, <1>1 DEF Borrows
<1>4. Running'
  <2>1. ASSUME NEW u \in Thread, call'[u] # Idle
        PROVE  Progress(call[u])' /\ (call'[u].what = "fill_blocks" => Buffered(call[u])')
    <3>1. call'[u] = call[u] /\ call[u] # Idle
      BY <2>1, <1>1 DEF IInv, Shared
    <3> QED BY <3>1, Undisturbed DEF IInv
  <2> QED BY <2>1 DEF Running
<1> QED BY <1>2, <1>3, <1>4 DEF IInv

(* What the call holds when it is done, and what it has put in the buffer. *)
LEMMA Held ==
  ASSUME IInv, NEW t \in Thread, call[t] # Idle
  PROVE  /\ call[t] \in FillCall \cup NewCall /\ call[t].obj \in Object
         /\ call[t].size \in Nat /\ call[t].out \in Seq(Unit) /\ Len(call[t].out) \in Nat
         /\ Progress(call[t]) /\ borrowed[call[t].obj] = t /\ t # NoThread
         /\ at[call[t].obj] \in Nat /\ at[call[t].obj] - Len(call[t].out) \in Nat
         /\ Width[call[t].obj] \in Nat
<1>1. call[t] \in FillCall \cup NewCall
  BY DEF IInv, Shared
<1>2. Progress(call[t]) /\ borrowed[call[t].obj] = t /\ t # NoThread
  BY NoThreadApart DEF IInv, Running, Borrows
<1>3. call[t].obj \in Object /\ call[t].size \in Nat /\ call[t].out \in Seq(Unit)
  BY <1>1, IdleIsNoCall
<1>4. at[call[t].obj] \in Nat /\ Width[call[t].obj] \in Nat /\ Len(call[t].out) \in Nat
  BY <1>3, ConstantTypes DEF IInv, Shared
<1>5. at[call[t].obj] >= Len(call[t].out)
  BY <1>2 DEF Progress
<1>6. at[call[t].obj] - Len(call[t].out) \in Nat
  BY <1>4, <1>5
<1> QED BY <1>1, <1>2, <1>3, <1>4, <1>6

LEMMA HeldBlocks ==
  ASSUME IInv, NEW t \in Thread, call[t].what = "fill_blocks", Len(call[t].out) = call[t].size
  PROVE  /\ call[t] # Idle /\ call[t] \in FillCall /\ call[t].arr \in Array /\ call[t].obj \in Batch
         /\ BlocksOf(call[t].obj, call[t].size) = call[t].out
         /\ Len(call[t].out) = SizeOf(call[t].shape)
         /\ \E k \in Sizes : call[t].shape = <<k, Width[call[t].obj]>> /\ call[t].size = k * Width[call[t].obj]
<1> DEFINE c == call[t]
           b == buf[c.obj]
<1>1. c # Idle
  BY DEF Idle
<1>2. /\ c \in FillCall \cup NewCall /\ c.obj \in Object /\ c.size \in Nat /\ c.out \in Seq(Unit)
      /\ Width[c.obj] \in Nat
  BY <1>1, Held
<1>3. c \in FillCall /\ c.arr \in Array /\ c.obj \in Batch
  BY <1>2 DEF FillCall, NewCall
<1>4. Buffered(c)
  BY <1>1 DEF IInv, Running
<1>5. \E k \in Sizes : c.shape = <<k, Width[c.obj]>> /\ c.size = k * Width[c.obj]
  BY <1>4 DEF Buffered
<1>6. c.size = SizeOf(c.shape)
  BY <1>5, <1>2, SizeOfPair, ConstantTypes
<1>7. b \in Seq(Value) /\ Len(b) \in Nat /\ Len(b) >= c.size /\ \A i \in 1 .. c.size : b[i] = c.out[i]
  BY <1>2, <1>4 DEF IInv, Shared, Buffered
<1> HIDE DEF c, b
<1>8. \A i \in 1 .. c.size : b[i] \in Value
  BY <1>2, <1>7
<1>9. /\ SubSeq(b, 1, c.size) \in Seq(Value) /\ Len(SubSeq(b, 1, c.size)) = c.size
      /\ \A i \in 1 .. c.size : SubSeq(b, 1, c.size)[i] = b[i]
  <2>1. c.size \in Int /\ 1 \in Int
    BY <1>2
  <2>2. /\ SubSeq(b, 1, c.size) \in Seq(Value)
        /\ Len(SubSeq(b, 1, c.size)) = IF 1 <= c.size THEN c.size - 1 + 1 ELSE 0
        /\ \A i \in 1 .. c.size - 1 + 1 : SubSeq(b, 1, c.size)[i] = b[1 + i - 1]
    BY <1>8, <2>1, SubSeqProperties
  <2> QED BY <1>2, <2>2
<1>10. c.out \in Seq(Value)
  BY <1>2 DEF Value
<1>11. SubSeq(b, 1, c.size) = c.out
  BY <1>7, <1>9, <1>10, SameSequence DEF c
<1> QED BY <1>1, <1>3, <1>5, <1>6, <1>11 DEF c, b, BlocksOf

LEMMA KeepsFillEnd ==
  ASSUME IInv, NEW t \in Thread, FillEnd(t)
  PROVE  IInv'
<1> DEFINE c == call[t]
<1>1. c.what = "fill_blocks" /\ Len(c.out) = c.size
  BY DEF FillEnd
<1>2. c # Idle /\ c.arr \in Array /\ BlocksOf(c.obj, c.size) = c.out /\ Len(c.out) = SizeOf(c.shape)
  BY <1>1, HeldBlocks
<1>3. c.out \in Seq(Value)
  BY <1>2, Held DEF Value
<1>4. arr \in [Array -> ArrayType] /\ \A a \in Array : Len(arr[a].data) = SizeOf(arr[a].shape)
      /\ lent \in [Array -> Thread \cup {NoThread}]
  BY DEF IInv, Shared
<1>5. lent' \in [Array -> Thread \cup {NoThread}]
  <2>1. lent' = [lent EXCEPT ![c.arr] = NoThread]
    BY DEF FillEnd
  <2>2. \A x \in Array : [lent EXCEPT ![x] = NoThread] \in [Array -> Thread \cup {NoThread}]
    BY <1>4
  <2> QED BY <1>2, <2>1, <2>2
<1>6. /\ arr' \in [Array -> ArrayType]
      /\ \A a \in Array : Len(arr'[a].data) = SizeOf(arr'[a].shape)
  <2>1. CASE StillFits(c)
    <3> DEFINE to == [arr[c.arr] EXCEPT !.data = c.out]
    <3>1. arr' = [arr EXCEPT ![c.arr] = to] /\ arr[c.arr].shape = c.shape
      BY <2>1, <1>2, <1>4 DEF FillEnd, StillFits
    <3>2. to \in ArrayType /\ to.data = c.out /\ to.shape = arr[c.arr].shape
      BY <1>2, <1>3, <1>4, NewData
    <3>3. Len(to.data) = SizeOf(to.shape)
      BY <1>2, <3>1, <3>2
    <3> HIDE DEF to, c
    <3> QED BY <3>1, <3>2, <3>3, <1>2, ArrayStays
  <2>2. CASE ~StillFits(c)
    BY <2>2, <1>4 DEF FillEnd
  <2> QED BY <2>1, <2>2
<1>7. /\ borrowed' = [borrowed EXCEPT ![call[t].obj] = NoThread]
      /\ call' = [call EXCEPT ![t] = Idle] /\ gil' = t /\ UNCHANGED <<at, buf>>
  BY DEF FillEnd
<1> QED BY <1>2, <1>5, <1>6, <1>7, KeepsEnd

LEMMA KeepsNewEnd ==
  ASSUME IInv, NEW t \in Thread, NewEnd(t)
  PROVE  IInv'
<1>1. call[t] # Idle
  BY DEF NewEnd, Idle
<1>2. /\ arr' \in [Array -> ArrayType] /\ \A a \in Array : Len(arr'[a].data) = SizeOf(arr'[a].shape)
      /\ lent' \in [Array -> Thread \cup {NoThread}]
  BY DEF NewEnd, IInv, Shared
<1>3. /\ borrowed' = [borrowed EXCEPT ![call[t].obj] = NoThread]
      /\ call' = [call EXCEPT ![t] = Idle] /\ gil' = t /\ UNCHANGED <<at, buf>>
  BY DEF NewEnd
<1> QED BY <1>1, <1>2, <1>3, KeepsEnd

(* A step of a call in progress: the units it makes go on where those it   *)
(* has made end.                                                           *)
LEMMA StepOf ==
  ASSUME IInv, NEW t \in Thread, call[t] # Idle, Len(call[t].out) < call[t].size
  PROVE  LET c == call[t]
             w == Width[c.obj]
             made == Units(c.obj, at[c.obj], w)
         IN  /\ c.out \o made = Units(c.obj, at[c.obj] - Len(c.out), Len(c.out) + w)
             /\ c.out \o made \in Seq(Unit) /\ Len(c.out \o made) = Len(c.out) + w
             /\ Len(c.out) + w <= c.size /\ at[c.obj] + w <= MaxUnits[c.obj]
             /\ \E k \in Sizes : \E j \in 0 .. k : c.size = k * w /\ Len(c.out) + w = j * w
<1> DEFINE c == call[t]
           o == c.obj
           w == Width[c.obj]
           l == Len(c.out)
           made == Units(c.obj, at[c.obj], w)
<1>1. /\ o \in Object /\ c.size \in Nat /\ c.out \in Seq(Unit) /\ l \in Nat /\ Progress(c)
      /\ at[o] \in Nat /\ at[o] - l \in Nat /\ w \in Nat
  BY Held
<1>2. MaxUnits[o] \in Nat
  BY <1>1, ConstantTypes
<1>3. l < c.size
  OBVIOUS
<1>4. PICK k \in Sizes : \E j \in 0 .. k : c.size = k * w /\ l = j * w
  BY <1>1 DEF Progress
<1>0. PICK j \in 0 .. k : c.size = k * w /\ l = j * w
  BY <1>4
<1>5. at[o] - l + c.size <= MaxUnits[o] /\ c.out = Units(o, at[o] - l, l)
  BY <1>1 DEF Progress
<1> HIDE DEF c, o, w, l
<1>6. k \in Nat /\ j \in Nat
  BY ConstantTypes
<1>7. j < k
  BY <1>3, <1>0, <1>6
<1>8. j + 1 \in 0 .. k /\ (j + 1) * w = l + w
  BY <1>1, <1>0, <1>6, <1>7
<1>9. (j + 1) * w <= k * w
  <2>1. k - (j + 1) \in Nat /\ k = (j + 1) + (k - (j + 1))
    BY <1>6, <1>7
  <2>2. (k - (j + 1)) * w \in Nat
    BY <1>1, <2>1
  <2>3. k * w = (j + 1) * w + (k - (j + 1)) * w
    BY <1>1, <1>6
  <2> QED BY <1>1, <1>6, <2>2, <2>3
<1>10. l + w <= c.size
  BY <1>0, <1>8, <1>9
<1>11. at[o] + w <= MaxUnits[o]
  BY <1>1, <1>2, <1>5, <1>10
<1> DEFINE f == at[o] - l
<1>12. f \in Nat /\ f + l = at[o] /\ made = Units(o, at[o], w) /\ c.out = Units(o, f, l)
  BY <1>1, <1>5 DEF o
<1> HIDE DEF f, made
<1>13. c.out \o made = Units(o, f, l + w)
  <2>1. Units(o, f, l) \o Units(o, f + l, w) = Units(o, f, l + w)
    BY <1>1, <1>12, UnitsGoOn, ZenonT(60)
  <2>2. made = Units(o, f + l, w) /\ c.out = Units(o, f, l)
    BY <1>12
  <2> QED BY ONLY <2>1, <2>2
<1>14. l + w \in Nat
  BY <1>1
<1>15. c.out \o made \in Seq(Unit) /\ Len(c.out \o made) = l + w
  BY <1>1, <1>12, <1>13, <1>14, UnitsAre
<1>16. \E kk \in Sizes : \E jj \in 0 .. kk : c.size = kk * w /\ l + w = jj * w
  BY <1>0, <1>8
<1> QED BY <1>10, <1>11, <1>13, <1>15, <1>16 DEF c, o, w, l, f, made

LEMMA NewOut ==
  ASSUME NEW c \in FillCall \cup NewCall, NEW grown \in Seq(Unit)
  PROVE  LET d == [c EXCEPT !.out = grown]
         IN  /\ d \in FillCall \cup NewCall /\ d.obj = c.obj /\ d.size = c.size /\ d.out = grown
             /\ d.what = c.what /\ (d.what = "fill_blocks" => d.shape = c.shape) /\ d # Idle
<1>1. CASE c \in FillCall
  BY <1>1 DEF FillCall, Idle
<1>2. CASE c \in NewCall
  BY <1>2 DEF NewCall, Idle
<1> QED BY <1>1, <1>2

LEMMA KeepsGenerate ==
  ASSUME IInv, NEW t \in Thread, Generate(t)
  PROVE  IInv'
<1> DEFINE c == call[t]
           o == c.obj
           w == Width[o]
           l == Len(c.out)
           made == Units(o, at[o], w)
           grown == c.out \o made
           d == [c EXCEPT !.out = grown]
<1>1. c # Idle /\ l < c.size
  BY DEF Generate
<1>2. /\ c \in FillCall \cup NewCall /\ o \in Object /\ c.size \in Nat /\ c.out \in Seq(Unit) /\ l \in Nat
      /\ Progress(c) /\ borrowed[o] = t /\ at[o] \in Nat /\ at[o] - l \in Nat /\ w \in Nat
  BY <1>1, Held
<1>3. /\ grown = Units(o, at[o] - l, l + w) /\ grown \in Seq(Unit) /\ Len(grown) = l + w
      /\ l + w <= c.size /\ at[o] + w <= MaxUnits[o]
      /\ \E k \in Sizes : \E j \in 0 .. k : c.size = k * w /\ l + w = j * w
  BY <1>1, StepOf
<1>4. /\ at' = [at EXCEPT ![o] = @ + w]
      /\ UNCHANGED <<gil, borrowed, arr, lent, said>>
  BY DEF Generate
<1>5. call' = [call EXCEPT ![t] = d]
  BY <1>2 DEF Generate, IInv, Shared
<1>6. /\ d \in FillCall \cup NewCall /\ d.obj = o /\ d.size = c.size /\ d.out = grown /\ d.what = c.what
      /\ (d.what = "fill_blocks" => d.shape = c.shape) /\ d # Idle
  <2> HIDE DEF grown, c
  <2> QED BY <1>2, <1>3, NewOut
<1>7. c.what # "fill_blocks" => buf' = buf
  BY DEF Generate
<1>8. c.what = "fill_blocks" =>
        buf' = [buf EXCEPT ![o] = [k \in DOMAIN @ |-> IF k \in l + 1 .. l + Len(made) THEN made[k - l] ELSE @[k]]]
  BY DEF Generate
<1>9. buf \in [Object -> Seq(Value)] /\ buf[o] \in Seq(Value) /\ Len(buf[o]) \in Nat
      /\ DOMAIN buf[o] = 1 .. Len(buf[o])
  BY <1>2 DEF IInv, Shared
<1>10. made \in Seq(Value) /\ Len(made) = w /\ \A i \in 1 .. w : made[i] \in Value
  <2>1. made \in Seq(Value) /\ Len(made) = w
    BY <1>2, UnitsAre
  <2> HIDE DEF made
  <2> QED BY <2>1
<1> DEFINE b == [k \in 1 .. Len(buf[o]) |-> IF k \in l + 1 .. l + w THEN made[k - l] ELSE buf[o][k]]
<1>11. b \in Seq(Value) /\ Len(b) = Len(buf[o])
  <2>1. b \in [1 .. Len(buf[o]) -> Value]
    <3>1. ASSUME NEW k \in 1 .. Len(buf[o])
          PROVE  (IF k \in l + 1 .. l + w THEN made[k - l] ELSE buf[o][k]) \in Value
      <4>1. buf[o][k] \in Value
        BY <1>9
      <4>2. ASSUME k \in l + 1 .. l + w
            PROVE  made[k - l] \in Value
        <5>1. k - l \in 1 .. w
          BY <4>2, <1>2
        <5> QED BY <5>1, <1>10
      <4> QED BY <4>1, <4>2
    <3> QED BY <3>1
  <2> QED BY <1>9, <2>1, SequenceOf
<1>12. c.what = "fill_blocks" => buf' = [buf EXCEPT ![o] = b]
  BY <1>8, <1>9, <1>10
<1>13. at'[o] = at[o] + w /\ at'[o] \in Nat /\ at' \in [Object -> Nat]
       /\ \A x \in Object : at'[x] <= MaxUnits[x]
  <2>1. at \in [Object -> Nat] /\ \A x \in Object : at[x] <= MaxUnits[x]
    BY DEF IInv, Shared
  <2> HIDE DEF c, o, w, l, made, grown, d
  <2>2. o \in Object /\ at[o] + w \in Nat
    BY <1>2
  <2>3. at[o] + w <= MaxUnits[o] /\ at' = [at EXCEPT ![o] = @ + w]
    BY <1>3, <1>4
  <2> QED BY ONLY <2>1, <2>2, <2>3
<1>14. buf' \in [Object -> Seq(Value)] /\ \A x \in Object : x # o => buf'[x] = buf[x]
  <2> HIDE DEF b
  <2> QED BY <1>7, <1>9, <1>11, <1>12
<1> HIDE DEF made, grown, d
<1>15. Shared'
  BY <1>4, <1>5, <1>6, <1>13, <1>14 DEF IInv, Shared
<1>16. Borrows'
  BY <1>1, <1>2, <1>4, <1>5, <1>6 DEF IInv, Borrows, Shared
<1>17. call'[t] = d
  BY <1>5 DEF IInv, Shared
<1>18. Progress(call[t])'
  <2>1. at'[o] - (l + w) = at[o] - l /\ at'[o] >= l + w /\ at[o] - l + c.size <= MaxUnits[o]
    <3>1. at[o] >= l /\ at[o] - l + c.size <= MaxUnits[o]
      BY <1>2 DEF Progress
    <3>2. at[o] \in Nat /\ l \in Nat /\ w \in Nat /\ at'[o] = at[o] + w
      BY <1>2, <1>13
    <3> QED BY ONLY <3>1, <3>2
  <2>2. \E k \in Sizes : \E j \in 0 .. k : d.size = k * w /\ Len(d.out) = j * w
    BY <1>3, <1>6
  <2>3. d.out = Units(o, at'[o] - Len(d.out), Len(d.out)) /\ at'[o] >= Len(d.out)
        /\ at'[o] - Len(d.out) + d.size <= MaxUnits[o]
    BY <1>3, <1>6, <2>1
  <2> QED BY <1>6, <1>17, <2>2, <2>3 DEF Progress
<1>19. call'[t].what = "fill_blocks" => Buffered(call[t])'
  <2> SUFFICES ASSUME d.what = "fill_blocks"
               PROVE  Buffered(call[t])'
    BY <1>17
  <2>1. c.what = "fill_blocks" /\ Buffered(c)
    BY <1>1, <1>6 DEF IInv, Running
  <2>2. buf'[o] = b
    BY <2>1, <1>2, <1>9, <1>12
  <2>3. \E k \in Sizes : d.shape = <<k, w>> /\ d.size = k * w
    BY <1>6, <2>1 DEF Buffered
  <2>4. Len(buf[o]) >= c.size /\ \A i \in 1 .. l : buf[o][i] = c.out[i]
    BY <2>1 DEF Buffered
  <2>5. ASSUME NEW i \in 1 .. l + w
        PROVE  b[i] = grown[i]
    <3>1. i \in 1 .. Len(buf[o]) /\ i \in Nat
      BY <1>2, <1>3, <1>9, <2>4
    <3>2. CASE i <= l
      <4>1. b[i] = buf[o][i] /\ i \in 1 .. l
        BY <3>1, <3>2, <1>2
      <4>2. grown[i] = c.out[i]
        <5>1. c.out \in Seq(Value) /\ i \in 1 .. Len(c.out) + Len(made) /\ i <= Len(c.out)
          BY <1>2, <1>10, <3>2 DEF Value
        <5> HIDE DEF c
        <5> QED BY <5>1, <1>10, ConcatProperties DEF grown
      <4> QED BY <4>1, <4>2, <2>4
    <3>3. CASE i > l
      <4>1. b[i] = made[i - l]
        BY <3>1, <3>3, <1>2
      <4>2. grown[i] = made[i - l]
        <5>1. c.out \in Seq(Value) /\ i \in 1 .. Len(c.out) + Len(made) /\ ~(i <= Len(c.out))
          BY <1>2, <1>10, <3>3 DEF Value
        <5> HIDE DEF c
        <5> QED BY <5>1, <1>10, ConcatProperties DEF grown
      <4> QED BY <4>1, <4>2
    <3>4. i <= l \/ i > l
      BY <3>1, <1>2
    <3> QED BY <3>2, <3>3, <3>4
  <2> HIDE DEF b
  <2>6. Len(buf'[o]) >= d.size /\ \A i \in 1 .. Len(d.out) : buf'[o][i] = d.out[i]
    BY <1>3, <1>6, <1>11, <2>2, <2>4, <2>5
  <2> QED BY <1>6, <1>17, <2>3, <2>6 DEF Buffered
<1>20. ASSUME NEW u \in Thread, call'[u] # Idle, u # t
       PROVE  Progress(call[u])' /\ (call'[u].what = "fill_blocks" => Buffered(call[u])')
  <2>1. call'[u] = call[u] /\ borrowed[call[u].obj] = u /\ call[u].obj \in Object /\ call[u] # Idle
    BY <1>5, <1>20, Held
  <2>2. call[u].obj # o
    BY <2>1, <1>2, <1>20
  <2>3. at'[call[u].obj] = at[call[u].obj] /\ buf'[call[u].obj] = buf[call[u].obj]
    BY <2>1, <2>2, <1>4, <1>14 DEF IInv, Shared
  <2> QED BY <2>1, <2>3, Undisturbed DEF IInv
<1>21. Running'
  BY <1>18, <1>19, <1>20 DEF Running
<1> QED BY <1>15, <1>16, <1>21 DEF IInv

LEMMA StepIInv == IInv /\ [Next]_vars => IInv'
<1> SUFFICES ASSUME IInv, [Next]_vars
             PROVE  IInv'
  OBVIOUS
<1>1. CASE UNCHANGED vars
  BY <1>1, KeepsQuiet, QuietStep DEF vars, IInv, Shared, Borrows
<1>2. ASSUME NEW t \in Thread, Acquire(t) \/ Release(t)
      PROVE  IInv'
  BY <1>2, KeepsQuiet DEF Acquire, Release
<1>3. ASSUME NEW t \in Thread, Generate(t) \/ FillEnd(t) \/ NewEnd(t)
      PROVE  IInv'
  BY <1>3, KeepsGenerate, KeepsFillEnd, KeepsNewEnd
<1>4. ASSUME NEW t \in Thread, NEW a \in Array, Assign(t, a) \/ Reshape(t, a)
      PROVE  IInv'
  BY <1>4, KeepsAssign, KeepsReshape
<1>5. ASSUME NEW t \in Thread, NEW o \in Object,
             NewRefused(t, o) \/ NextUnit(t, o) \/ ReleaseBuffer(t, o) \/ Inspect(t, o)
      PROVE  IInv'
  BY <1>5, KeepsQuiet, KeepsNextUnit, KeepsReleaseBuffer DEF NewRefused, Inspect
<1>6. ASSUME NEW t \in Thread, NEW o \in Object, NEW k \in Sizes, NewEmpty(t, o, k) \/ NewBegin(t, o, k)
      PROVE  IInv'
  BY <1>6, KeepsQuiet, KeepsNewBegin DEF NewEmpty
<1>7. ASSUME NEW t \in Thread, NEW o \in Object, NEW a \in Array, FillInto(t, o, a) \/ FillIntoRefused(t, o, a)
      PROVE  IInv'
  BY <1>7, KeepsQuiet, KeepsFillInto DEF FillIntoRefused
<1>8. ASSUME NEW t \in Thread, NEW o \in Batch, NEW a \in Array, NEW steps \in Sizes,
             \/ FillRefused(t, o, a, steps) \/ FillDirect(t, o, a, steps)
             \/ FillNoMemory(t, o, a, steps) \/ FillBegin(t, o, a, steps)
      PROVE  IInv'
  BY <1>8, KeepsQuiet, KeepsFillDirect, KeepsFillBegin DEF FillRefused, FillNoMemory
<1> QED BY <1>1, <1>2, <1>3, <1>4, <1>5, <1>6, <1>7, <1>8 DEF Next

(* Every reachable state satisfies the inductive invariant.                *)
THEOREM Invariance == Spec => []IInv
BY InitIInv, StepIInv, PTL DEF Spec

LEMMA IInvType == IInv => TypeOK
<1> SUFFICES ASSUME IInv
             PROVE  TypeOK
  OBVIOUS
<1>1. gil \in Thread \cup {NoThread} /\ \A a \in Array : Len(arr[a].data) = SizeOf(arr[a].shape)
  BY DEF IInv, Shared
<1>2. \A o \in Object : at[o] \in 0 .. MaxUnits[o]
  BY ConstantTypes DEF IInv, Shared
<1>3. ASSUME NEW o \in Object
      PROVE  borrowed[o] # NoThread <=> \E t \in Thread : call[t] # Idle /\ call[t].obj = o
  BY NoThreadApart DEF IInv, Shared, Borrows
<1>4. ASSUME NEW t \in Thread, call[t] # Idle
      PROVE  Len(call[t].out) <= call[t].size
  <2>1. /\ Width[call[t].obj] \in Nat /\ call[t].size \in Nat /\ Len(call[t].out) \in Nat
        /\ Progress(call[t])
    BY <1>4, Held
  <2>2. PICK k \in Sizes : \E j \in 0 .. k :
          call[t].size = k * Width[call[t].obj] /\ Len(call[t].out) = j * Width[call[t].obj]
    BY <2>1 DEF Progress
  <2>3. PICK j \in 0 .. k :
          call[t].size = k * Width[call[t].obj] /\ Len(call[t].out) = j * Width[call[t].obj]
    BY <2>2
  <2>4. k \in Nat /\ j \in Nat /\ k - j \in Nat
    BY ConstantTypes
  <2>5. (k - j) * Width[call[t].obj] \in Nat
    BY <2>1, <2>4
  <2>6. k * Width[call[t].obj] = j * Width[call[t].obj] + (k - j) * Width[call[t].obj]
    BY <2>1, <2>4
  <2> QED BY <2>1, <2>3, <2>5, <2>6
<1> QED BY <1>1, <1>2, <1>3, <1>4 DEF TypeOK

(* Borrows are those of the calls under way, no call writes more than it   *)
(* was asked for, and an array always holds as much as its shape says, for *)
(* every program, also one that reshapes an array while a batch fills it   *)
(* (src/python/prng.rs fill_blocks).                                       *)
THEOREM TypeCorrect == Spec => []TypeOK
BY Invariance, IInvType, PTL

-----------------------------------------------------------------------------
(* Every step is one of PySerial, or changes nothing that it speaks of.    *)

(* Where an object stands for the rest of the program.                     *)
Stands ==
  [o \in Object |-> IF borrowed[o] = NoThread THEN at[o] ELSE at[o] - Len(call[borrowed[o]].out)]

LEMMA StandsStill ==
  ASSUME UNCHANGED <<at, borrowed, call>>
  PROVE  Stands' = Stands
BY DEF Stands

LEMMA StandsBegin ==
  ASSUME IInv, NEW t \in Thread, gil = t, NEW o \in Object, borrowed[o] = NoThread, NEW c, c.out = <<>>,
         call' = [call EXCEPT ![t] = c], borrowed' = [borrowed EXCEPT ![o] = t], at' = at
  PROVE  Stands' = Stands
<1> SUFFICES ASSUME NEW x \in Object
             PROVE  Stands'[x] = Stands[x]
  BY DEF Stands
<1>1. t # NoThread /\ call[t] = Idle /\ at[x] \in Nat
  BY NoThreadApart DEF IInv, Borrows, Shared
<1>2. CASE x = o
  <2>1. borrowed'[o] = t /\ call'[t] = c /\ Len(c.out) = 0
    BY DEF IInv, Shared
  <2> QED BY <1>1, <1>2, <2>1 DEF Stands
<1>3. CASE x # o
  <2>1. borrowed'[x] = borrowed[x]
    BY <1>3 DEF IInv, Shared
  <2>2. borrowed[x] # NoThread => borrowed[x] # t /\ borrowed[x] \in Thread
    BY <1>1 DEF IInv, Borrows, Shared
  <2>3. borrowed[x] # NoThread => call'[borrowed[x]] = call[borrowed[x]]
    BY <2>2 DEF IInv, Shared
  <2> QED BY <2>1, <2>3 DEF Stands
<1> QED BY <1>2, <1>3

LEMMA StandsEnd ==
  ASSUME IInv, NEW t \in Thread, call[t] # Idle, Len(call[t].out) = call[t].size,
         borrowed' = [borrowed EXCEPT ![call[t].obj] = NoThread],
         call' = [call EXCEPT ![t] = Idle], at' = at
  PROVE  /\ Stands' = [Stands EXCEPT ![call[t].obj] = @ + call[t].size]
         /\ call[t].out = Units(call[t].obj, Stands[call[t].obj], call[t].size)
<1> DEFINE o == call[t].obj
           n == call[t].size
<1>1. /\ o \in Object /\ n \in Nat /\ borrowed[o] = t /\ t # NoThread /\ at[o] \in Nat
      /\ Progress(call[t])
  BY Held
<1>2. Stands[o] = at[o] - n
  BY <1>1 DEF Stands
<1>3. call[t].out = Units(o, Stands[o], n)
  BY <1>1, <1>2 DEF Progress
<1>4. ASSUME NEW x \in Object
      PROVE  Stands'[x] = [Stands EXCEPT ![o] = @ + n][x]
  <2>1. CASE x = o
    <3>1. borrowed'[o] = NoThread
      BY <1>1 DEF IInv, Shared
    <3>2. Stands'[o] = at[o] /\ [Stands EXCEPT ![o] = @ + n][o] = Stands[o] + n
      BY <1>1, <3>1 DEF Stands
    <3> QED BY <1>1, <1>2, <2>1, <3>2
  <2>2. CASE x # o
    <3>1. borrowed'[x] = borrowed[x]
      BY <2>2 DEF IInv, Shared
    <3>2. borrowed[x] # NoThread => borrowed[x] # t /\ borrowed[x] \in Thread
      BY <2>2 DEF IInv, Borrows, Shared
    <3>3. borrowed[x] # NoThread => call'[borrowed[x]] = call[borrowed[x]]
      BY <3>2 DEF IInv, Shared
    <3> QED BY <2>2, <3>1, <3>3 DEF Stands
  <2> QED BY <2>1, <2>2
<1>5. Stands' = [Stands EXCEPT ![o] = @ + n]
  BY <1>4 DEF Stands
<1> QED BY <1>3, <1>5

LEMMA StandsGenerate ==
  ASSUME IInv, NEW t \in Thread, Generate(t)
  PROVE  Stands' = Stands
<1> DEFINE o == call[t].obj
           w == Width[o]
           made == Units(o, at[o], w)
<1>1. call[t] # Idle /\ Len(call[t].out) < call[t].size
  BY DEF Generate
<1>2. /\ o \in Object /\ borrowed[o] = t /\ t # NoThread /\ at[o] \in Nat /\ Len(call[t].out) \in Nat
      /\ w \in Nat
  BY <1>1, Held
<1>3. at' = [at EXCEPT ![o] = @ + w] /\ borrowed' = borrowed
      /\ call' = [call EXCEPT ![t].out = call[t].out \o made]
  BY <1>1 DEF Generate, IInv, Shared
<1>4. Len(call[t].out \o made) = Len(call[t].out) + w
  BY <1>1, StepOf
<1> HIDE DEF made
<1>5. call'[t].out = call[t].out \o made /\ at'[o] = at[o] + w
  <2>1. call[t] \in FillCall \cup NewCall
    BY <1>1, Held
  <2>2. call'[t] = [call[t] EXCEPT !.out = call[t].out \o made]
    BY <1>3 DEF IInv, Shared
  <2>3. call'[t].out = call[t].out \o made
    BY <2>1, <2>2 DEF FillCall, NewCall
  <2> QED BY <1>2, <1>3, <2>3 DEF IInv, Shared
<1>6. ASSUME NEW x \in Object
      PROVE  Stands'[x] = Stands[x]
  <2>1. CASE x = o
    <3>1. Stands'[o] = at'[o] - Len(call'[t].out) /\ Stands[o] = at[o] - Len(call[t].out)
      BY <1>2, <1>3 DEF Stands
    <3> QED BY <1>2, <1>4, <1>5, <2>1, <3>1
  <2>2. CASE x # o
    <3>1. borrowed[x] # NoThread => borrowed[x] # t /\ borrowed[x] \in Thread
      BY <2>2 DEF IInv, Borrows, Shared
    <3>2. borrowed[x] # NoThread => call'[borrowed[x]] = call[borrowed[x]]
      BY <1>3, <3>1 DEF IInv, Shared
    <3>3. at'[x] = at[x]
      BY <1>3, <2>2 DEF IInv, Shared
    <3>4. borrowed' = borrowed
      BY <1>3
    <3> QED BY <3>2, <3>3, <3>4 DEF Stands
  <2> QED BY <2>1, <2>2
<1> QED BY <1>6 DEF Stands

LEMMA StandsFree ==
  ASSUME IInv, NEW o \in Object, borrowed[o] = NoThread, NEW n \in Nat,
         at' = [at EXCEPT ![o] = @ + n], UNCHANGED <<borrowed, call>>
  PROVE  Stands[o] = at[o] /\ Stands' = [Stands EXCEPT ![o] = @ + n]
<1>1. Stands[o] = at[o]
  BY DEF Stands
<1>2. ASSUME NEW x \in Object
      PROVE  Stands'[x] = [Stands EXCEPT ![o] = @ + n][x]
  BY <1>1 DEF Stands, IInv, Shared
<1>3. Stands' = [Stands EXCEPT ![o] = @ + n]
  BY <1>2 DEF Stands
<1> QED BY <1>1, <1>3


LEMMA SameUnits == \A o, from, n : PS!Units(o, from, n) = Units(o, from, n)
BY DEF PS!Units, Units

LEMMA SaysKept ==
  ASSUME NEW t \in Thread, said' = [said EXCEPT ![t] = Done], Stands' = Stands, arr' = arr
  PROVE  PS!Next
<1>1. PS!Kept(t)
  BY DEF PS!Kept, PS!Answer, Done, Stands
<1> QED BY <1>1 DEF PS!Next

LEMMA SaysRefused ==
  ASSUME NEW t \in Thread, said' = [said EXCEPT ![t] = Error], UNCHANGED <<at, borrowed, call, arr>>
  PROVE  PS!Next
<1>1. PS!Refused(t)
  BY StandsStill DEF PS!Refused, PS!Answer, Error, Stands
<1> QED BY <1>1 DEF PS!Next

LEMMA SaysFilled ==
  ASSUME NEW t \in Thread, NEW o \in Object, NEW a \in Array, NEW n, n = Len(arr[a].data),
         o \in Batch => \E steps \in Sizes : arr[a].shape = <<steps, Width[o]>> /\ n = steps * Width[o],
         Stands' = [Stands EXCEPT ![o] = @ + n],
         arr' = [arr EXCEPT ![a].data = Units(o, Stands[o], n)],
         said' = [said EXCEPT ![t] = Done]
  PROVE  PS!Next
<1>1. PS!Filled(t, o, a)
  BY SameUnits DEF PS!Filled, PS!Answer, Done, Stands
<1> QED BY <1>1 DEF PS!Next

LEMMA SaysGiven ==
  ASSUME NEW t \in Thread, NEW o \in Object, NEW k \in Sizes,
         Stands' = [Stands EXCEPT ![o] = @ + k * Width[o]], arr' = arr,
         \/ said' = [said EXCEPT ![t] = [what |-> "units", units |-> Units(o, Stands[o], k * Width[o])]]
         \/ said' = [said EXCEPT ![t] = Lost]
  PROVE  PS!Next
<1>1. PS!Given(t, o, k * Width[o]) \/ PS!Lost(t, o, k * Width[o])
  BY SameUnits DEF PS!Given, PS!Lost, PS!Answer, Lost, Stands
<1> QED BY <1>1 DEF PS!Next

LEMMA SaysChanged ==
  ASSUME NEW t \in Thread, NEW a \in Array, NEW to, IInv, Change(t, a, to)
  PROVE  PS!Next
<1>1. Stands' = Stands /\ \A b \in Array \ {a} : arr'[b] = arr[b]
  BY StandsStill DEF Change, IInv, Shared
<1>2. PS!Program
  BY <1>1 DEF PS!Program, PS!Answer, Change, Answer, Done, Stands
<1> QED BY <1>2 DEF PS!Next

LEMMA InitRefines == Init => PS!Init
BY DEF Init, PS!Init, Done

LEMMA FillEndRefines ==
  ASSUME IInv, NEW t \in Thread, FillEnd(t)
  PROVE  PS!Next
<1> DEFINE c == call[t]
           o == c.obj
<1>1. c.what = "fill_blocks" /\ Len(c.out) = c.size /\ at' = at
      /\ borrowed' = [borrowed EXCEPT ![o] = NoThread] /\ call' = [call EXCEPT ![t] = Idle]
  BY DEF FillEnd
<1>2. /\ c # Idle /\ c.arr \in Array /\ o \in Batch /\ BlocksOf(o, c.size) = c.out
      /\ Len(c.out) = SizeOf(c.shape)
      /\ \E k \in Sizes : c.shape = <<k, Width[o]>> /\ c.size = k * Width[o]
  BY <1>1, HeldBlocks
<1>3. Stands' = [Stands EXCEPT ![o] = @ + c.size] /\ c.out = Units(o, Stands[o], c.size)
  BY <1>1, <1>2, StandsEnd
<1>4. o \in Object
  BY <1>2 DEF Object
<1>5. CASE StillFits(c)
  <2>1. arr' = [arr EXCEPT ![c.arr].data = Units(o, Stands[o], c.size)] /\ said' = [said EXCEPT ![t] = Done]
    BY <1>2, <1>3, <1>5 DEF FillEnd, Answer
  <2>2. c.size = Len(arr[c.arr].data)
    BY <1>1, <1>2, <1>5 DEF StillFits, IInv, Shared
  <2>3. \E steps \in Sizes : arr[c.arr].shape = <<steps, Width[o]>> /\ c.size = steps * Width[o]
    BY <1>2, <1>5 DEF StillFits
  <2> HIDE DEF c, o
  <2> QED BY <1>2, <1>3, <1>4, <2>1, <2>2, <2>3, SaysFilled
<1>6. CASE ~StillFits(c)
  <2>1. arr' = arr /\ said' = [said EXCEPT ![t] = Lost]
    BY <1>6 DEF FillEnd, Answer
  <2>2. PICK k \in Sizes : c.size = k * Width[o]
    BY <1>2
  <2> HIDE DEF c, o
  <2> QED BY <1>3, <1>4, <2>1, <2>2, SaysGiven
<1> QED BY <1>5, <1>6

LEMMA NewEndRefines ==
  ASSUME IInv, NEW t \in Thread, NewEnd(t)
  PROVE  PS!Next
<1> DEFINE c == call[t]
           o == c.obj
<1>1. /\ c.what \in {"blocks", "fill", "fill_u64"} /\ Len(c.out) = c.size /\ at' = at /\ arr' = arr
      /\ borrowed' = [borrowed EXCEPT ![o] = NoThread] /\ call' = [call EXCEPT ![t] = Idle]
  BY DEF NewEnd
<1>2. c # Idle
  BY <1>1 DEF Idle
<1>3. Stands' = [Stands EXCEPT ![o] = @ + c.size] /\ c.out = Units(o, Stands[o], c.size)
  BY <1>1, <1>2, StandsEnd
<1>4. o \in Object /\ Progress(c)
  BY <1>2, Held
<1>5. PICK k \in Sizes : c.size = k * Width[o]
  BY <1>4 DEF Progress
<1>6. \/ said' = [said EXCEPT ![t] = [what |-> "units", units |-> c.out]]
      \/ said' = [said EXCEPT ![t] = Lost]
  BY DEF NewEnd, Answer
<1>7. Stands' = [Stands EXCEPT ![o] = @ + k * Width[o]]
  BY <1>3, <1>5
<1>8. \/ said' = [said EXCEPT ![t] = [what |-> "units", units |-> Units(o, Stands[o], k * Width[o])]]
      \/ said' = [said EXCEPT ![t] = Lost]
  BY <1>3, <1>5, <1>6
<1> HIDE DEF c, o
<1> QED BY <1>1, <1>4, <1>7, <1>8, SaysGiven

LEMMA NextUnitRefines ==
  ASSUME IInv, NEW t \in Thread, NEW o \in Object, NextUnit(t, o)
  PROVE  PS!Next
<1>1. o \in Stream /\ Width[o] = 1 /\ 1 \in Sizes /\ 1 * Width[o] = 1
  BY ConstantTypes DEF NextUnit
<1>2. Stands[o] = at[o] /\ Stands' = [Stands EXCEPT ![o] = @ + 1]
  BY StandsFree DEF NextUnit
<1>3. arr' = arr /\ said' = [said EXCEPT ![t] = [what |-> "units", units |-> Units(o, at[o], 1)]]
  BY DEF NextUnit, Answer
<1> QED BY <1>1, <1>2, <1>3, SaysGiven

LEMMA NewEmptyRefines ==
  ASSUME IInv, NEW t \in Thread, NEW o \in Object, NEW k \in Sizes, NewEmpty(t, o, k)
  PROVE  PS!Next
<1>1. k * Width[o] = 0 /\ borrowed[o] = NoThread /\ UNCHANGED <<at, borrowed, call, arr>>
      /\ said' = [said EXCEPT ![t] = [what |-> "units", units |-> <<>>]]
  BY DEF NewEmpty, Answer
<1>2. Stands' = Stands /\ Stands[o] = at[o] /\ at[o] \in Nat
  BY <1>1, StandsStill DEF Stands, IInv, Shared
<1>3. Stands' = [Stands EXCEPT ![o] = @ + k * Width[o]]
  <2>1. Stands[o] + k * Width[o] = Stands[o]
    BY <1>1, <1>2
  <2>2. Stands = [Stands EXCEPT ![o] = Stands[o]]
    BY DEF Stands
  <2> QED BY <1>2, <2>1, <2>2
<1>4. Units(o, Stands[o], k * Width[o]) = <<>>
  BY <1>1, <1>2, NoUnits
<1> QED BY <1>1, <1>3, <1>4, SaysGiven

LEMMA DirectRefines ==
  ASSUME IInv, NEW t \in Thread, NEW o \in Object, NEW a \in Array, NEW n \in Nat, n = Len(arr[a].data),
         borrowed[o] = NoThread,
         o \in Batch => \E steps \in Sizes : arr[a].shape = <<steps, Width[o]>> /\ n = steps * Width[o],
         at' = [at EXCEPT ![o] = @ + n], arr' = [arr EXCEPT ![a].data = Units(o, at[o], n)],
         UNCHANGED <<borrowed, call>>, said' = [said EXCEPT ![t] = Done]
  PROVE  PS!Next
<1>1. Stands[o] = at[o] /\ Stands' = [Stands EXCEPT ![o] = @ + n]
  BY StandsFree
<1>2. arr' = [arr EXCEPT ![a].data = Units(o, Stands[o], n)]
  BY <1>1
<1>3. PS!Filled(t, o, a)
  BY <1>1, <1>2, SameUnits DEF PS!Filled, PS!Answer, Done, Stands
<1> QED BY <1>3 DEF PS!Next

LEMMA BeginRefines ==
  ASSUME IInv, NEW t \in Thread, gil = t, NEW o \in Object, borrowed[o] = NoThread, NEW c, c.out = <<>>,
         call' = [call EXCEPT ![t] = c], borrowed' = [borrowed EXCEPT ![o] = t],
         UNCHANGED <<at, arr>>, said' = [said EXCEPT ![t] = Done]
  PROVE  PS!Next
BY StandsBegin, SaysKept

LEMMA StepRefines == IInv /\ [Next]_vars => [PS!Next]_(PS!vars)
<1> SUFFICES ASSUME IInv, [Next]_vars
             PROVE  PS!Next \/ (Stands' = Stands /\ UNCHANGED <<arr, said>>)
  BY DEF PS!vars, Stands
<1>1. CASE UNCHANGED vars
  BY <1>1, StandsStill DEF vars
<1>2. ASSUME NEW t \in Thread, Acquire(t)
      PROVE  Stands' = Stands /\ UNCHANGED <<arr, said>>
  BY <1>2, StandsStill DEF Acquire
<1>3. ASSUME NEW t \in Thread, Release(t)
      PROVE  PS!Next
  BY <1>3, StandsStill, SaysKept DEF Release, Answer
<1>4. ASSUME NEW t \in Thread, Generate(t)
      PROVE  Stands' = Stands /\ UNCHANGED <<arr, said>>
  BY <1>4, StandsGenerate DEF Generate
<1>5. ASSUME NEW t \in Thread, FillEnd(t) \/ NewEnd(t)
      PROVE  PS!Next
  BY <1>5, FillEndRefines, NewEndRefines
<1>6. ASSUME NEW t \in Thread, NEW a \in Array, Assign(t, a) \/ Reshape(t, a)
      PROVE  PS!Next
  <2>1. \E to : Change(t, a, to)
    BY <1>6 DEF Assign, Reshape
  <2> QED BY <2>1, SaysChanged
<1>7. ASSUME NEW t \in Thread, NEW o \in Object, NewRefused(t, o) \/ NextUnit(t, o) \/ ReleaseBuffer(t, o)
      PROVE  PS!Next
  <2>1. CASE NewRefused(t, o)
    BY <2>1, SaysRefused DEF NewRefused, Answer
  <2>2. CASE NextUnit(t, o)
    BY <2>2, NextUnitRefines
  <2>3. CASE ReleaseBuffer(t, o)
    BY <2>3, StandsStill, SaysKept, SaysRefused DEF ReleaseBuffer, Answer
  <2> QED BY <1>7, <2>1, <2>2, <2>3
<1>8. ASSUME NEW t \in Thread, NEW o \in Object, Inspect(t, o)
      PROVE  PS!Next
  <2>1. UNCHANGED <<at, borrowed, call, arr>>
    BY <1>8 DEF Inspect
  <2>2. CASE said' = [said EXCEPT ![t] = Error]
    BY <2>1, <2>2, SaysRefused
  <2>3. CASE MayRead(o) /\ Answer(t, [what |-> "state", at |-> at[o]])
    <3>1. Stands[o] = at[o]
      BY <2>3 DEF MayRead, Stands
    <3>2. PS!Seen(t, o)
      BY <2>1, <2>3, <3>1, StandsStill DEF PS!Seen, PS!Answer, Answer, Stands
    <3> QED BY <3>2 DEF PS!Next
  <2> QED BY <1>8, <2>2, <2>3 DEF Inspect, Answer
<1>9. ASSUME NEW t \in Thread, NEW o \in Object, NEW k \in Sizes, NewEmpty(t, o, k) \/ NewBegin(t, o, k)
      PROVE  PS!Next
  <2>1. CASE NewBegin(t, o, k)
    <3>1. PICK what : call' = [call EXCEPT ![t] = [what |-> what, obj |-> o, size |-> k * Width[o], out |-> <<>>]]
      BY <2>1 DEF NewBegin
    <3>2. [what |-> what, obj |-> o, size |-> k * Width[o], out |-> <<>>].out = <<>>
      OBVIOUS
    <3>3. /\ gil = t /\ borrowed[o] = NoThread /\ borrowed' = [borrowed EXCEPT ![o] = t]
          /\ UNCHANGED <<at, arr>> /\ said' = [said EXCEPT ![t] = Done]
      BY <2>1 DEF NewBegin, Answer
    <3> QED BY <3>1, <3>2, <3>3, BeginRefines
  <2> QED BY <1>9, <2>1, NewEmptyRefines
<1>10. ASSUME NEW t \in Thread, NEW o \in Object, NEW a \in Array, FillInto(t, o, a) \/ FillIntoRefused(t, o, a)
       PROVE  PS!Next
  <2>1. CASE FillInto(t, o, a)
    <3> DEFINE n == Len(arr[a].data)
    <3>1. arr[a].data \in Seq(Value) /\ o \notin Batch /\ n \in Nat
      BY <2>1, ConstantTypes DEF FillInto, IInv, Shared, ArrayType
    <3>2. /\ borrowed[o] = NoThread /\ UNCHANGED <<borrowed, call>> /\ said' = [said EXCEPT ![t] = Done]
          /\ at' = [at EXCEPT ![o] = @ + n] /\ arr' = [arr EXCEPT ![a].data = Units(o, at[o], n)]
      BY <2>1 DEF FillInto, Answer, IInv, Shared
    <3>3. n = Len(arr[a].data)
      OBVIOUS
    <3> HIDE DEF n
    <3> QED BY <3>1, <3>2, <3>3, DirectRefines
  <2>2. CASE FillIntoRefused(t, o, a)
    BY <2>2, SaysRefused DEF FillIntoRefused, Answer
  <2> QED BY <1>10, <2>1, <2>2
<1>11. ASSUME NEW t \in Thread, NEW o \in Batch, NEW a \in Array, NEW steps \in Sizes,
              FillRefused(t, o, a, steps) \/ FillNoMemory(t, o, a, steps)
       PROVE  PS!Next
  BY <1>11, SaysRefused DEF FillRefused, FillNoMemory, Answer
<1>12. ASSUME NEW t \in Thread, NEW o \in Batch, NEW a \in Array, NEW steps \in Sizes,
              FillDirect(t, o, a, steps)
       PROVE  PS!Next
  <2> DEFINE n == steps * Width[o]
  <2>1. /\ Accepts(o, a, steps) /\ UNCHANGED <<borrowed, call>> /\ said' = [said EXCEPT ![t] = Done]
        /\ at' = [at EXCEPT ![o] = @ + n] /\ arr' = [arr EXCEPT ![a].data = Units(o, at[o], n)]
    BY <1>12 DEF FillDirect, Answer
  <2>2. o \in Object /\ n \in Nat /\ n = Len(arr[a].data) /\ borrowed[o] = NoThread
    BY <2>1, AcceptedSize
  <2>3. arr[a].shape = <<steps, Width[o]>> /\ n = steps * Width[o]
    BY <2>1 DEF Accepts
  <2> HIDE DEF n
  <2> QED BY <2>1, <2>2, <2>3, DirectRefines
<1>13. ASSUME NEW t \in Thread, NEW o \in Batch, NEW a \in Array, NEW steps \in Sizes,
              FillBegin(t, o, a, steps)
       PROVE  PS!Next
  <2> DEFINE c == [what |-> "fill_blocks", obj |-> o, arr |-> a, shape |-> <<steps, Width[o]>>,
                   size |-> steps * Width[o], out |-> <<>>]
  <2>1. o \in Object /\ c.out = <<>>
    BY DEF Object
  <2>2. /\ gil = t /\ borrowed[o] = NoThread /\ borrowed' = [borrowed EXCEPT ![o] = t]
        /\ UNCHANGED <<at, arr>> /\ said' = [said EXCEPT ![t] = Done]
        /\ call' = [call EXCEPT ![t] = c]
    BY <1>13 DEF FillBegin, Accepts, Answer
  <2> HIDE DEF c
  <2> QED BY <2>1, <2>2, BeginRefines
<1> QED BY <1>1, <1>2, <1>3, <1>4, <1>5, <1>6, <1>7, <1>8, <1>9, <1>10, <1>11, <1>12, <1>13 DEF Next

(* Every call takes effect at once, at its return, for every number of     *)
(* threads and every order of their steps: what calls that let go of the   *)
(* interpreter lock do is what PySerial allows (fill_blocks, blocks, fill  *)
(* of src/python/prng.rs and src/python/xof.rs).                           *)
THEOREM SerialRefines == Spec => ImplementsSerial
BY InitRefines, StepRefines, Invariance, PTL DEF Spec, ImplementsSerial, PS!Spec

-----------------------------------------------------------------------------
(* Hashing: the inductive invariant.                                       *)

Text     == Bytes \cup Texts \cup {Other, Garbage, "empty"}
Contents == [text : Text, hashed : BOOLEAN]
RowType  == [content : Contents, kept : BOOLEAN, from : Int]

CallType ==
  [pc : {"read", "each", "hook", "loaded", "hash"}, into : BOOLEAN, release : BOOLEAN, n : Nat,
   rows : Seq(RowType), res : Seq(Contents), wrote : BOOLEAN, apart : Nat]

Types ==
  /\ gil \in Thread \cup {NoThread}
  /\ list \in Seq(Items) /\ Len(list) <= MaxItems
  /\ text \in Texts
  /\ out \in Seq(Contents) /\ Len(out) <= MaxItems
  /\ place \in Nat /\ claimed \in BOOLEAN
  /\ stack \in [Thread -> Seq(CallType)]

(* A call that has started another one is inside the code of an item.      *)
Nested ==
  \A t \in Thread : \A d \in DOMAIN stack[t] : d < Len(stack[t]) => stack[t][d].pc = "hook"

(* The call c of t, given who holds the lock, the items of the list and    *)
(* the length of the array: a call that has read nothing yet still finds   *)
(* list and array as it began; a row without a reference is one that the   *)
(* list still holds; what was hashed was hashed as loaded; and a call that *)
(* has written reads no row from where the array was.                      *)
Sound(t, c, holder, items, size) ==
  /\ c.pc \in {"read", "each", "loaded"} => holder = t
  /\ c.pc = "read" => c.n = Len(items) /\ (c.into => size = c.n) /\ c.rows = <<>>
  /\ \A k \in DOMAIN c.rows :
       \/ c.rows[k].kept
       \/ c.pc = "loaded" /\ ~c.release /\ k <= Len(items) /\ items[k] = c.rows[k].content.text
  /\ c.pc # "hash" => c.res = <<>>
  /\ c.pc = "hash" =>
       /\ Len(c.res) <= Len(c.rows) /\ (c.into => Len(c.rows) = c.n)
       /\ \A k \in DOMAIN c.res : c.res[k] = Digest(c.rows[k].content)
  /\ c.wrote =>
       /\ c.into /\ ~c.release /\ c.n # 0
       /\ \A k \in DOMAIN c.rows : c.rows[k].from # c.apart

AllSound ==
  \A t \in Thread : \A d \in DOMAIN stack[t] : Sound(t, stack[t][d], gil, list, Len(out))

(* One call at most is to write the array, and then it is lent.            *)
OneWriter ==
  /\ \A t \in Thread : \A d \in DOMAIN stack[t] : stack[t][d].into => claimed
  /\ \A t, u \in Thread : \A d \in DOMAIN stack[t], e \in DOMAIN stack[u] :
       stack[t][d].into /\ stack[u][e].into => t = u /\ d = e

HashIInv == Types /\ Nested /\ AllSound /\ OneWriter /\ DigestsAsLoaded

-----------------------------------------------------------------------------
(* Stacks of calls.                                                        *)

LEMMA Pushed ==
  ASSUME NEW S, NEW s \in Seq(S), NEW c \in S
  PROVE  /\ Append(s, c) \in Seq(S) /\ Len(Append(s, c)) = Len(s) + 1
         /\ \A d \in 1 .. Len(s) : Append(s, c)[d] = s[d]
         /\ Append(s, c)[Len(s) + 1] = c
BY AppendProperties

LEMMA Popped ==
  ASSUME NEW S, NEW s \in Seq(S), s # <<>>
  PROVE  /\ Front(s) \in Seq(S) /\ Len(Front(s)) = Len(s) - 1
         /\ \A d \in 1 .. Len(s) - 1 : Front(s)[d] = s[d]
<1>1. Len(s) \in Nat /\ Len(s) # 0 /\ \A i \in 1 .. Len(s) : s[i] \in S
  OBVIOUS
<1> DEFINE e == Len(s) - 1
<1>2. 1 \in Int /\ e \in Int /\ \A i \in 1 .. e : s[i] \in S
  BY <1>1
<1> HIDE DEF e
<1>3. /\ SubSeq(s, 1, e) \in Seq(S)
      /\ Len(SubSeq(s, 1, e)) = IF 1 <= e THEN e - 1 + 1 ELSE 0
      /\ \A i \in 1 .. e - 1 + 1 : SubSeq(s, 1, e)[i] = s[1 + i - 1]
  BY <1>2, SubSeqProperties
<1>4. e \in Nat /\ e - 1 + 1 = e /\ Front(s) = SubSeq(s, 1, e) /\ \A i \in 1 .. e : 1 + i - 1 = i
  BY <1>1 DEF Front, e
<1>5. Len(SubSeq(s, 1, e)) = e /\ \A i \in 1 .. e : SubSeq(s, 1, e)[i] = s[i]
  BY <1>3, <1>4
<1> QED BY <1>3, <1>4, <1>5 DEF e

LEMMA Replaced ==
  ASSUME NEW S, NEW s \in Seq(S), s # <<>>, NEW c \in S
  PROVE  /\ Append(Front(s), c) \in Seq(S) /\ Len(Append(Front(s), c)) = Len(s)
         /\ \A d \in 1 .. Len(s) - 1 : Append(Front(s), c)[d] = s[d]
         /\ Append(Front(s), c)[Len(s)] = c
<1>1. Len(s) \in Nat /\ Len(s) # 0
  OBVIOUS
<1>2. /\ Front(s) \in Seq(S) /\ Len(Front(s)) = Len(s) - 1
      /\ \A d \in 1 .. Len(s) - 1 : Front(s)[d] = s[d]
  BY Popped
<1>3. /\ Append(Front(s), c) \in Seq(S) /\ Len(Append(Front(s), c)) = Len(Front(s)) + 1
      /\ \A d \in 1 .. Len(Front(s)) : Append(Front(s), c)[d] = Front(s)[d]
      /\ Append(Front(s), c)[Len(Front(s)) + 1] = c
  BY <1>2, Pushed
<1>4. Len(Front(s)) + 1 = Len(s)
  BY <1>1, <1>2
<1> QED BY <1>2, <1>3, <1>4

LEMMA TopOf ==
  ASSUME HashIInv, NEW t \in Thread, stack[t] # <<>>
  PROVE  /\ stack[t] \in Seq(CallType) /\ Len(stack[t]) \in Nat /\ Len(stack[t]) # 0
         /\ Len(stack[t]) \in DOMAIN stack[t]
         /\ Top(t) = stack[t][Len(stack[t])] /\ Top(t) \in CallType
         /\ Sound(t, Top(t), gil, list, Len(out)) /\ (Top(t).into => claimed)
<1>1. stack[t] \in Seq(CallType)
  BY DEF HashIInv, Types
<1>2. Len(stack[t]) \in Nat /\ Len(stack[t]) # 0 /\ DOMAIN stack[t] = 1 .. Len(stack[t])
  BY <1>1
<1>3. Len(stack[t]) \in DOMAIN stack[t] /\ stack[t][Len(stack[t])] \in CallType
  BY <1>1, <1>2
<1>4. Top(t) = stack[t][Len(stack[t])]
  BY DEF Top, Last
<1> QED BY <1>1, <1>2, <1>3, <1>4 DEF HashIInv, AllSound, OneWriter

(* Calls inside the code of an item, and those that hash, depend on        *)
(* neither the lock nor the list nor the array.                            *)
LEMMA SoundAnyway ==
  ASSUME NEW t, NEW c, NEW h, NEW items, NEW size, NEW h2, NEW items2, NEW size2,
         c.pc \in {"hook", "hash"}, Sound(t, c, h, items, size)
  PROVE  Sound(t, c, h2, items2, size2)
BY DEF Sound

LEMMA Outside ==
  ASSUME HashIInv, NEW t \in Thread, gil = NoThread \/ (gil = t /\ InPython(t)),
         NEW u \in Thread, NEW d \in DOMAIN stack[u]
  PROVE  stack[u][d].pc \in {"hook", "hash"}
<1>1. stack[u] \in Seq(CallType) /\ stack[u][d] \in CallType /\ d \in 1 .. Len(stack[u]) /\ Len(stack[u]) \in Nat
  BY DEF HashIInv, Types
<1>2. Sound(u, stack[u][d], gil, list, Len(out))
  BY DEF HashIInv, AllSound
<1>3. gil # u => stack[u][d].pc \in {"hook", "hash"}
  BY <1>1, <1>2 DEF Sound, CallType
<1>4. CASE gil = u
  <2>1. u = t /\ InPython(t) /\ stack[t] # <<>>
    BY <1>1, <1>4, NoThreadApart
  <2>2. d < Len(stack[u]) => stack[u][d].pc = "hook"
    BY DEF HashIInv, Nested
  <2>3. d = Len(stack[u]) => stack[u][d].pc = "hook"
    BY <2>1 DEF InPython, At, Top, Last
  <2> QED BY <1>1, <2>2, <2>3
<1> QED BY <1>3, <1>4

-----------------------------------------------------------------------------
(* The steps of the stacks.                                                *)

(* The top call goes on; it may give up the lock that it has.              *)
LEMMA GotoTurn ==
  ASSUME HashIInv, NEW t \in Thread, stack[t] # <<>>, NEW c \in CallType, Goto(t, c),
         c.into = Top(t).into, Sound(t, c, gil', list, Len(out)),
         gil' = gil \/ (gil = t /\ gil' = NoThread),
         UNCHANGED <<list, text, place, claimed>>,
         out' \in Seq(Contents), Len(out') = Len(out)
  PROVE  HashIInv'
<1> DEFINE s == stack[t]
           r == Append(Front(s), c)
<1>1. /\ s \in Seq(CallType) /\ Len(s) \in Nat /\ Len(s) # 0 /\ Top(t) = s[Len(s)]
      /\ DOMAIN s = 1 .. Len(s)
  BY TopOf
<1>2. /\ r \in Seq(CallType) /\ Len(r) = Len(s) /\ DOMAIN r = 1 .. Len(s)
      /\ \A d \in 1 .. Len(s) - 1 : r[d] = s[d]
      /\ r[Len(s)] = c
  BY <1>1, Replaced
<1>3. stack' = [stack EXCEPT ![t] = r] /\ told' = None
  BY DEF Goto
<1> HIDE DEF s, r
<1>4. stack \in [Thread -> Seq(CallType)] /\ stack[t] = s
  BY DEF HashIInv, Types, s
<1>5. stack'[t] = r /\ \A u \in Thread : u # t => stack'[u] = stack[u]
  BY <1>3, <1>4
<1>6. ASSUME NEW u \in Thread, NEW d \in DOMAIN stack'[u]
      PROVE  /\ Len(stack'[u]) = Len(stack[u]) /\ d \in DOMAIN stack[u] /\ d \in Int
             /\ \/ u = t /\ d = Len(s) /\ stack'[u][d] = c /\ stack[u][d] = Top(t)
                \/ (u = t => d < Len(s)) /\ stack'[u][d] = stack[u][d]
  <2>1. CASE u = t
    BY <1>1, <1>2, <1>4, <1>5, <2>1
  <2>2. CASE u # t
    <3>1. stack[u] \in Seq(CallType)
      BY <1>4
    <3> QED BY <1>5, <2>2, <3>1
  <2> QED BY <2>1, <2>2
<1>7. Types'
  BY <1>2, <1>3, <1>4 DEF HashIInv, Types
<1>8. Nested'
  <2>1. ASSUME NEW u \in Thread, NEW d \in DOMAIN stack'[u], d < Len(stack'[u])
        PROVE  stack'[u][d].pc = "hook"
    <3>1. Len(stack'[u]) = Len(stack[u]) /\ d \in DOMAIN stack[u] /\ stack'[u][d] = stack[u][d]
      BY <1>1, <1>4, <1>6, <2>1
    <3> QED BY <2>1, <3>1 DEF HashIInv, Nested
  <2> QED BY <2>1 DEF Nested
<1>9. AllSound'
  <2>1. ASSUME NEW u \in Thread, NEW d \in DOMAIN stack'[u]
        PROVE  Sound(u, stack'[u][d], gil', list, Len(out))
    <3>1. CASE u = t /\ d = Len(s) /\ stack'[u][d] = c
      BY <3>1
    <3>2. CASE (u = t => d < Len(s)) /\ stack'[u][d] = stack[u][d]
      <4>1. d \in DOMAIN stack[u] /\ Sound(u, stack[u][d], gil, list, Len(out)) /\ stack[u][d] \in CallType
        BY <1>4, <1>6 DEF HashIInv, AllSound
      <4>2. CASE gil' = gil
        BY <3>2, <4>1, <4>2
      <4>3. CASE gil = t /\ gil' = NoThread
        <5>1. u = t => stack[u][d].pc = "hook"
          BY <1>4, <3>2, <4>1 DEF HashIInv, Nested
        <5>2. u # t => stack[u][d].pc \in {"hook", "hash"}
          BY <4>1, <4>3 DEF Sound, CallType
        <5> QED BY <3>2, <4>1, <5>1, <5>2, SoundAnyway
      <4> QED BY <4>2, <4>3
    <3> QED BY <1>6, <3>1, <3>2
  <2> QED BY <2>1 DEF AllSound
<1>10. OneWriter'
  <2>1. ASSUME NEW u \in Thread, NEW d \in DOMAIN stack'[u]
        PROVE  d \in DOMAIN stack[u] /\ (stack'[u][d].into <=> stack[u][d].into)
    BY <1>6
  <2> QED BY <2>1 DEF HashIInv, OneWriter
<1>11. DigestsAsLoaded'
  BY <1>3 DEF DigestsAsLoaded, None
<1> QED BY <1>7, <1>8, <1>9, <1>10, <1>11 DEF HashIInv

LEMMA GotoStep ==
  ASSUME HashIInv, NEW t \in Thread, stack[t] # <<>>, NEW c \in CallType, Goto(t, c),
         c.into = Top(t).into, Sound(t, c, gil, list, Len(out)),
         UNCHANGED <<gil, list, text, place, claimed>>,
         out' \in Seq(Contents), Len(out') = Len(out)
  PROVE  HashIInv'
<1>1. Sound(t, c, gil', list, Len(out))
  OBVIOUS
<1> QED BY <1>1, GotoTurn

(* A call begins, from the program or from the code of an item.            *)
LEMMA PushStep ==
  ASSUME HashIInv, NEW t \in Thread, InPython(t), NEW c \in CallType, Push(t, c),
         Sound(t, c, gil, list, Len(out)), c.into => ~claimed, claimed' = (claimed \/ c.into),
         UNCHANGED <<gil, list, text, out, place>>
  PROVE  HashIInv'
<1> DEFINE s == stack[t]
           r == Append(s, c)
<1>1. s \in Seq(CallType) /\ Len(s) \in Nat /\ DOMAIN s = 1 .. Len(s)
  BY DEF HashIInv, Types
<1>2. /\ r \in Seq(CallType) /\ Len(r) = Len(s) + 1 /\ DOMAIN r = 1 .. Len(s) + 1
      /\ \A d \in 1 .. Len(s) : r[d] = s[d]
      /\ r[Len(s) + 1] = c
  BY <1>1, Pushed
<1>3. stack' = [stack EXCEPT ![t] = r] /\ told' = None
  BY DEF Push
<1> HIDE DEF s, r
<1>4. stack \in [Thread -> Seq(CallType)] /\ stack[t] = s
  BY DEF HashIInv, Types, s
<1>5. stack'[t] = r /\ \A u \in Thread : u # t => stack'[u] = stack[u]
  BY <1>3, <1>4
<1>6. ASSUME NEW u \in Thread, NEW d \in DOMAIN stack'[u]
      PROVE  \/ u = t /\ d = Len(s) + 1 /\ stack'[u][d] = c
             \/ d \in DOMAIN stack[u] /\ stack'[u][d] = stack[u][d]
  BY <1>1, <1>2, <1>4, <1>5
<1>7. Types'
  BY <1>2, <1>3, <1>4 DEF HashIInv, Types, CallType
<1>8. Nested'
  <2>1. ASSUME NEW u \in Thread, NEW d \in DOMAIN stack'[u], d < Len(stack'[u])
        PROVE  stack'[u][d].pc = "hook"
    <3>1. CASE u = t
      <4>1. d \in 1 .. Len(s) /\ stack'[u][d] = stack[t][d] /\ stack[t] # <<>> /\ d \in DOMAIN stack[t]
        BY <1>1, <1>2, <1>4, <1>5, <2>1, <3>1
      <4>2. d < Len(s) => stack[t][d].pc = "hook"
        BY <1>4, <4>1 DEF HashIInv, Nested
      <4>3. d = Len(s) => stack[t][d].pc = "hook"
        BY <1>4, <4>1 DEF InPython, At, Top, Last
      <4> QED BY <1>1, <4>1, <4>2, <4>3
    <3>2. CASE u # t
      BY <1>5, <2>1, <3>2 DEF HashIInv, Nested
    <3> QED BY <3>1, <3>2
  <2> QED BY <2>1 DEF Nested
<1>9. AllSound'
  <2>1. ASSUME NEW u \in Thread, NEW d \in DOMAIN stack'[u]
        PROVE  Sound(u, stack'[u][d], gil, list, Len(out))
    BY <1>6 DEF HashIInv, AllSound
  <2> QED BY <2>1 DEF AllSound
<1>10. OneWriter'
  <2>1. ASSUME NEW u \in Thread, NEW d \in DOMAIN stack'[u], stack'[u][d].into
        PROVE  claimed'
    BY <1>6, <2>1 DEF HashIInv, OneWriter
  <2>2. ASSUME NEW u \in Thread, NEW d \in DOMAIN stack'[u], NEW v \in Thread, NEW e \in DOMAIN stack'[v],
               stack'[u][d].into, stack'[v][e].into
        PROVE  u = v /\ d = e
    <3>1. CASE c.into
      <4>1. \A w \in Thread : \A f \in DOMAIN stack[w] : ~stack[w][f].into
        BY <3>1 DEF HashIInv, OneWriter
      <4> QED BY <1>6, <2>2, <4>1
    <3>2. CASE ~c.into
      <4>1. d \in DOMAIN stack[u] /\ stack[u][d].into /\ e \in DOMAIN stack[v] /\ stack[v][e].into
        BY <1>6, <2>2, <3>2
      <4> QED BY <4>1 DEF HashIInv, OneWriter
    <3> QED BY <3>1, <3>2
  <2> QED BY <2>1, <2>2 DEF OneWriter
<1>11. DigestsAsLoaded'
  BY <1>3 DEF DigestsAsLoaded, None
<1> QED BY <1>7, <1>8, <1>9, <1>10, <1>11 DEF HashIInv

(* The top call ends; if nobody has the lock, it takes it.                 *)
LEMMA ReturnStep ==
  ASSUME HashIInv, NEW t \in Thread, stack[t] # <<>>, NEW answer, Return(t, answer),
         gil' = gil \/ (gil = NoThread /\ gil' = t),
         UNCHANGED <<list, text, place>>,
         out' \in Seq(Contents), Len(out') = Len(out),
         answer.what = "done" => answer.digests = [k \in DOMAIN answer.loaded |-> Digest(answer.loaded[k])]
  PROVE  HashIInv'
<1> DEFINE s == stack[t]
           r == Front(s)
<1>1. /\ s \in Seq(CallType) /\ Len(s) \in Nat /\ Len(s) # 0 /\ Top(t) = s[Len(s)]
      /\ DOMAIN s = 1 .. Len(s) /\ Top(t) \in CallType
  BY TopOf
<1>2. /\ r \in Seq(CallType) /\ Len(r) = Len(s) - 1 /\ DOMAIN r = 1 .. Len(s) - 1
      /\ \A d \in 1 .. Len(s) - 1 : r[d] = s[d]
  <2>1. /\ r \in Seq(CallType) /\ Len(r) = Len(s) - 1
        /\ \A d \in 1 .. Len(s) - 1 : r[d] = s[d]
    BY <1>1, Popped
  <2> HIDE DEF r, s
  <2>2. DOMAIN r = 1 .. Len(r)
    BY <2>1
  <2> QED BY <2>1, <2>2
<1>3. stack' = [stack EXCEPT ![t] = r] /\ told' = answer /\ claimed' = (claimed /\ ~Top(t).into)
  BY DEF Return
<1> HIDE DEF s, r
<1>4. stack \in [Thread -> Seq(CallType)] /\ stack[t] = s
  BY DEF HashIInv, Types, s
<1>5. stack'[t] = r /\ \A u \in Thread : u # t => stack'[u] = stack[u]
  BY <1>3, <1>4
<1>6. ASSUME NEW u \in Thread, NEW d \in DOMAIN stack'[u]
      PROVE  /\ d \in DOMAIN stack[u] /\ stack'[u][d] = stack[u][d] /\ d \in Int
             /\ u = t => d < Len(stack[u]) /\ d # Len(s)
             /\ d < Len(stack'[u]) => d < Len(stack[u])
  <2>1. CASE u = t
    BY <1>1, <1>2, <1>4, <1>5, <2>1
  <2>2. CASE u # t
    <3>1. stack[u] \in Seq(CallType)
      BY <1>4
    <3> QED BY <1>5, <2>2, <3>1
  <2> QED BY <2>1, <2>2
<1>7. Types'
  <2>1. claimed' \in BOOLEAN
    BY <1>3
  <2>2. stack' \in [Thread -> Seq(CallType)]
    BY <1>2, <1>3, <1>4
  <2>3. gil' \in Thread \cup {NoThread}
    BY DEF HashIInv, Types
  <2> QED BY <2>1, <2>2, <2>3 DEF HashIInv, Types
<1>8. Nested'
  BY <1>6 DEF HashIInv, Nested
<1>9. AllSound'
  <2>1. ASSUME NEW u \in Thread, NEW d \in DOMAIN stack'[u]
        PROVE  Sound(u, stack'[u][d], gil', list, Len(out))
    <3>1. Sound(u, stack[u][d], gil, list, Len(out)) /\ d \in DOMAIN stack[u]
      BY <1>6 DEF HashIInv, AllSound
    <3>2. CASE gil' = gil
      BY <1>6, <3>1, <3>2
    <3>3. CASE gil = NoThread
      <4>1. stack[u][d].pc \in {"hook", "hash"}
        BY <3>1, <3>3, Outside
      <4> QED BY <1>6, <3>1, <4>1, SoundAnyway
    <3> QED BY <3>2, <3>3
  <2> QED BY <2>1 DEF AllSound
<1>10. OneWriter'
  <2>1. ASSUME NEW u \in Thread, NEW d \in DOMAIN stack'[u], stack'[u][d].into
        PROVE  claimed'
    <3>1. claimed /\ d \in DOMAIN stack[u] /\ stack[u][d].into /\ (u = t => d # Len(s))
      BY <1>6, <2>1 DEF HashIInv, OneWriter
    <3>2. Len(s) \in DOMAIN stack[t] /\ stack[t][Len(s)] = Top(t)
      BY <1>1, <1>4
    <3>3. ~Top(t).into
      BY <3>1, <3>2 DEF HashIInv, OneWriter
    <3> QED BY <1>3, <3>1, <3>3
  <2>2. ASSUME NEW u \in Thread, NEW d \in DOMAIN stack'[u]
        PROVE  d \in DOMAIN stack[u] /\ stack'[u][d] = stack[u][d]
    BY <1>6
  <2> QED BY <2>1, <2>2 DEF HashIInv, OneWriter
<1>11. DigestsAsLoaded'
  BY <1>3 DEF DigestsAsLoaded
<1> QED BY <1>7, <1>8, <1>9, <1>10, <1>11 DEF HashIInv

(* The program runs: no call looks at the list or the array now.           *)
LEMMA ProgramStep ==
  ASSUME HashIInv, NEW t \in Thread, gil = NoThread \/ (gil = t /\ InPython(t)),
         gil' \in Thread \cup {NoThread}, UNCHANGED <<claimed, stack>>, told' = None,
         list' \in Seq(Items), Len(list') <= MaxItems, text' \in Texts,
         out' \in Seq(Contents), Len(out') <= MaxItems, place' \in Nat
  PROVE  HashIInv'
<1>1. Types'
  BY DEF HashIInv, Types
<1>2. AllSound'
  <2>1. ASSUME NEW u \in Thread, NEW d \in DOMAIN stack[u]
        PROVE  Sound(u, stack[u][d], gil', list', Len(out'))
    BY Outside, SoundAnyway DEF HashIInv, AllSound
  <2> QED BY <2>1 DEF AllSound
<1>3. Nested' /\ OneWriter'
  BY DEF HashIInv, Nested, OneWriter
<1>4. DigestsAsLoaded'
  BY DEF DigestsAsLoaded, None
<1> QED BY <1>1, <1>2, <1>3, <1>4 DEF HashIInv

-----------------------------------------------------------------------------
(* Contents, and the rows of a call.                                       *)

LEMMA ContentsOf ==
  /\ \A x \in Text : Plain(x) \in Contents /\ Plain(x).text = x
  /\ \A c \in Contents : Digest(c) \in Contents
BY DEF Plain, Digest, Contents

LEMMA TextsOf ==
  /\ Other \in Text /\ Garbage \in Text /\ "empty" \in Text
  /\ Bytes \subseteq Text /\ Texts \subseteq Text
BY DEF Text

LEMMA DigestsOf ==
  ASSUME NEW rows \in Seq(RowType)
  PROVE  /\ [k \in DOMAIN rows |-> Digest(rows[k].content)] \in Seq(Contents)
         /\ Len([k \in DOMAIN rows |-> Digest(rows[k].content)]) = Len(rows)
<1>1. DOMAIN rows = 1 .. Len(rows) /\ Len(rows) \in Nat /\ \A k \in 1 .. Len(rows) : rows[k] \in RowType
  OBVIOUS
<1>2. \A k \in 1 .. Len(rows) : Digest(rows[k].content) \in Contents
  BY <1>1, ContentsOf DEF RowType
<1> DEFINE d == [k \in DOMAIN rows |-> Digest(rows[k].content)]
<1>3. d \in [1 .. Len(rows) -> Contents]
  BY <1>1, <1>2
<1> QED BY <1>1, <1>3, SequenceOf

LEMMA CallFields ==
  ASSUME NEW c \in CallType
  PROVE  /\ c.into \in BOOLEAN /\ c.release \in BOOLEAN /\ c.n \in Nat /\ c.apart \in Nat
         /\ c.rows \in Seq(RowType) /\ c.res \in Seq(Contents) /\ c.wrote \in BOOLEAN
         /\ Len(c.rows) \in Nat /\ DOMAIN c.rows = 1 .. Len(c.rows)
         /\ Len(c.res) \in Nat /\ DOMAIN c.res = 1 .. Len(c.res)
<1>1. c.rows \in Seq(RowType) /\ c.res \in Seq(Contents)
  BY DEF CallType
<1> QED BY <1>1 DEF CallType

LEMMA PcSet ==
  ASSUME NEW c \in CallType, NEW pc \in {"read", "each", "hook", "loaded", "hash"}
  PROVE  LET d == [c EXCEPT !.pc = pc]
         IN  /\ d \in CallType /\ d.pc = pc /\ d.into = c.into /\ d.release = c.release /\ d.n = c.n
             /\ d.rows = c.rows /\ d.res = c.res /\ d.wrote = c.wrote /\ d.apart = c.apart
BY DEF CallType

(* One more row.                                                           *)
LEMMA RowSet ==
  ASSUME NEW c \in CallType, NEW content \in Contents, NEW from \in Int
  PROVE  LET d   == Row(c, content, from)
             row == [content |-> content, kept |-> TRUE, from |-> from]
         IN  /\ d \in CallType /\ d.pc = c.pc /\ d.into = c.into /\ d.release = c.release /\ d.n = c.n
             /\ d.rows = Append(c.rows, row) /\ d.res = c.res /\ d.wrote = c.wrote /\ d.apart = c.apart
             /\ row \in RowType
<1> DEFINE row == [content |-> content, kept |-> TRUE, from |-> from]
<1>1. row \in RowType /\ c.rows \in Seq(RowType)
  BY CallFields DEF RowType
<1>2. Append(c.rows, row) \in Seq(RowType)
  BY <1>1
<1> HIDE DEF row
<1>3. Row(c, content, from) = [c EXCEPT !.rows = Append(c.rows, row)]
  BY DEF Row, row
<1> QED BY <1>1, <1>2, <1>3 DEF CallType, row

LEMMA RowSound ==
  ASSUME NEW t, NEW c \in CallType, NEW h, NEW items, NEW size, Sound(t, c, h, items, size),
         c.pc \in {"each", "hook"}, h = t,
         NEW row \in RowType, row.kept, c.wrote => row.from # c.apart,
         NEW d \in CallType, d.pc = "each", d.rows = Append(c.rows, row),
         d.into = c.into, d.release = c.release, d.n = c.n, d.res = c.res, d.wrote = c.wrote,
         d.apart = c.apart
  PROVE  Sound(t, d, h, items, size)
<1>1. c.rows \in Seq(RowType) /\ Len(c.rows) \in Nat /\ DOMAIN c.rows = 1 .. Len(c.rows)
      /\ d.rows \in Seq(RowType) /\ DOMAIN d.rows = 1 .. Len(d.rows)
  BY CallFields
<1>2. /\ Len(d.rows) = Len(c.rows) + 1 /\ d.rows[Len(c.rows) + 1] = row
      /\ \A k \in 1 .. Len(c.rows) : d.rows[k] = c.rows[k]
  BY <1>1, AppendProperties
<1>3. \A k \in DOMAIN d.rows : (k \in DOMAIN c.rows /\ d.rows[k] = c.rows[k]) \/ d.rows[k] = row
  BY <1>1, <1>2
<1>4. \A k \in DOMAIN d.rows : d.rows[k].kept
  BY <1>3 DEF Sound
<1>5. c.wrote => \A k \in DOMAIN d.rows : d.rows[k].from # d.apart
  BY <1>3 DEF Sound
<1>6. c.res = <<>> /\ (c.wrote => c.into /\ ~c.release /\ c.n # 0)
  BY DEF Sound
<1> QED BY <1>4, <1>5, <1>6 DEF Sound

-----------------------------------------------------------------------------
(* Every action keeps the inductive invariant.                             *)

LEMMA KeepsRefuse ==
  ASSUME HashIInv, NEW t \in Thread, Refuse(t)
  PROVE  HashIInv'
<1>1. Types' /\ Nested' /\ AllSound' /\ OneWriter'
  BY DEF Refuse, HashIInv, Types, Nested, AllSound, OneWriter
<1>2. DigestsAsLoaded'
  BY DEF Refuse, DigestsAsLoaded, None
<1> QED BY <1>1, <1>2 DEF HashIInv

LEMMA KeepsTurn ==
  ASSUME HashIInv, NEW t \in Thread, Enter(t) \/ Leave(t) \/ ChangeText(t)
  PROVE  HashIInv'
BY ProgramStep DEF HashIInv, Types, Enter, Leave, ChangeText

LEMMA KeepsChangeList ==
  ASSUME HashIInv, NEW t \in Thread, ChangeList(t)
  PROVE  HashIInv'
<1>1. list \in Seq(Items) /\ Len(list) \in Nat /\ Len(list) <= MaxItems /\ MaxItems \in Nat
  BY HashConstants DEF HashIInv, Types
<1>2. list' \in Seq(Items) /\ Len(list') <= MaxItems
  <2>1. CASE Len(list) < MaxItems /\ \E item \in Items : list' = Append(list, item)
    BY <1>1, <2>1, Pushed
  <2>2. CASE list # <<>> /\ list' = Front(list)
    BY <1>1, <2>2, Popped
  <2>3. CASE \E k \in DOMAIN list, item \in Items : list' = [list EXCEPT ![k] = item]
    BY <1>1, <2>3
  <2> QED BY <2>1, <2>2, <2>3 DEF ChangeList
<1> QED BY <1>2, ProgramStep DEF ChangeList, HashIInv, Types

LEMMA KeepsChangeArray ==
  ASSUME HashIInv, NEW t \in Thread, ChangeArray(t)
  PROVE  HashIInv'
<1>1. out \in Seq(Contents) /\ Len(out) \in Nat /\ Len(out) <= MaxItems /\ MaxItems \in Nat /\ place \in Nat
      /\ DOMAIN out = 1 .. Len(out) /\ Plain(Other) \in Contents
  BY HashConstants, ContentsOf, TextsOf DEF HashIInv, Types
<1>2. out' \in Seq(Contents) /\ Len(out') <= MaxItems /\ place' \in Nat
  <2>1. CASE out' = [k \in DOMAIN out |-> Plain(Other)] /\ UNCHANGED place
    <3>1. out' \in [1 .. Len(out) -> Contents]
      BY <1>1, <2>1
    <3> QED BY <1>1, <2>1, <3>1, SequenceOf
  <2>2. ASSUME NEW n \in 0 .. MaxItems,
               out' = [k \in 1 .. n |-> IF k <= Len(out) THEN out[k] ELSE Plain(Other)],
               place' \in {place, place + 1}
        PROVE  out' \in Seq(Contents) /\ Len(out') <= MaxItems /\ place' \in Nat
    <3>1. \A k \in 1 .. n : (IF k <= Len(out) THEN out[k] ELSE Plain(Other)) \in Contents
      BY <1>1
    <3>2. out' \in [1 .. n -> Contents] /\ n \in Nat /\ n <= MaxItems
      BY <1>1, <2>2, <3>1
    <3> QED BY <1>1, <2>2, <3>2, SequenceOf
  <2> QED BY <2>1, <2>2 DEF ChangeArray
<1> QED BY <1>2, ProgramStep DEF ChangeArray, HashIInv, Types

LEMMA HashKeepsBegin ==
  ASSUME HashIInv, NEW t \in Thread, NEW into \in BOOLEAN, NEW release \in BOOLEAN, Begin(t, into, release)
  PROVE  HashIInv'
<1> DEFINE c == [pc |-> "read", into |-> into, release |-> release, n |-> Len(list),
                 rows |-> <<>>, res |-> <<>>, wrote |-> FALSE, apart |-> place]
<1>1. list \in Seq(Items) /\ Len(list) \in Nat /\ place \in Nat /\ <<>> \in Seq(RowType) /\ <<>> \in Seq(Contents)
  BY DEF HashIInv, Types
<1>2. c \in CallType
  BY <1>1 DEF CallType
<1>3. gil = t /\ (into => ~claimed /\ Len(out) = Len(list)) /\ InPython(t) /\ claimed' = (claimed \/ into) /\ Push(t, c)
      /\ UNCHANGED <<gil, list, text, out, place>>
  BY DEF Begin, OutReady
<1>4. Sound(t, c, gil, list, Len(out)) /\ c.into = into
  BY <1>3 DEF Sound
<1> HIDE DEF c
<1> QED BY <1>2, <1>3, <1>4, PushStep

LEMMA KeepsFused ==
  ASSUME HashIInv, NEW t \in Thread, Fused(t)
  PROVE  HashIInv' /\ Len(out') = Len(out)
<1> DEFINE c       == Top(t)
           content == [k \in DOMAIN list |-> Plain(IF list[k] \in Bytes THEN list[k] ELSE "empty")]
           digests == [k \in DOMAIN list |-> Digest(content[k])]
<1>1. /\ stack[t] # <<>> /\ c.pc = "read" /\ MayFuse(c) /\ UNCHANGED <<gil, list, text, place>>
      /\ out' = IF c.into THEN digests ELSE out
  BY DEF Fused, At
<1>2. c \in CallType /\ Sound(t, c, gil, list, Len(out))
  BY <1>1, TopOf
<1>3. gil = t /\ c.n = Len(list) /\ (c.into => Len(out) = c.n) /\ c.rows = <<>> /\ c.res = <<>> /\ ~c.release
  BY <1>1, <1>2 DEF Sound, MayFuse
<1>4. list \in Seq(Items) /\ Len(list) \in Nat /\ DOMAIN list = 1 .. Len(list) /\ out \in Seq(Contents)
  BY DEF HashIInv, Types
<1>5. digests \in Seq(Contents) /\ Len(digests) = Len(list)
  <2>1. \A k \in DOMAIN list : content[k] \in Contents
    BY ContentsOf, TextsOf
  <2>2. digests \in [1 .. Len(list) -> Contents]
    BY <1>4, <2>1, ContentsOf
  <2> QED BY <1>4, <2>2, SequenceOf
<1>6. out' \in Seq(Contents) /\ Len(out') = Len(out)
  <2> HIDE DEF digests, c
  <2> QED BY <1>1, <1>3, <1>4, <1>5
<1>7. CASE AllBytes
  <2> DEFINE answer == [what |-> "done", loaded |-> content, digests |-> digests]
  <2>1. Return(t, answer)
    BY <1>7 DEF Fused
  <2>2. answer.digests = [k \in DOMAIN answer.loaded |-> Digest(answer.loaded[k])]
    OBVIOUS
  <2> HIDE DEF answer, content, digests
  <2> QED BY <1>1, <1>6, <2>1, <2>2, ReturnStep
<1>8. CASE ~AllBytes
  <2> DEFINE d == [c EXCEPT !.pc = "each", !.wrote = c.into]
  <2>1. Goto(t, d) /\ UNCHANGED claimed
    BY <1>8 DEF Fused
  <2>2. c.n # 0
    BY <1>3, <1>4, <1>8 DEF AllBytes
  <2> HIDE DEF c
  <2>3. /\ d \in CallType /\ d.pc = "each" /\ d.into = c.into /\ d.release = c.release /\ d.n = c.n
        /\ d.rows = c.rows /\ d.res = c.res /\ d.wrote = c.into
    BY <1>2 DEF CallType
  <2> HIDE DEF d
  <2>4. Sound(t, d, gil, list, Len(out))
    BY <1>3, <2>2, <2>3 DEF Sound
  <2> HIDE DEF digests
  <2> QED BY <1>1, <1>6, <2>1, <2>3, <2>4, GotoStep DEF c
<1> QED BY <1>6, <1>7, <1>8

LEMMA KeepsReadExact ==
  ASSUME HashIInv, NEW t \in Thread, ReadExact(t)
  PROVE  HashIInv' /\ Len(out') = Len(out)
<1> DEFINE c    == Top(t)
           rows == [k \in DOMAIN list |-> [content |-> Plain(list[k]), kept |-> ~Hold(c), from |-> Nowhere]]
           d    == [c EXCEPT !.pc = "loaded", !.rows = rows]
<1>1. /\ stack[t] # <<>> /\ c.pc = "read" /\ AllBytes /\ UNCHANGED <<gil, list, text, out, place, claimed>>
      /\ Goto(t, d)
  BY DEF ReadExact, At
<1>2. c \in CallType /\ Sound(t, c, gil, list, Len(out))
  BY <1>1, TopOf
<1>3. gil = t /\ c.res = <<>> /\ c.release \in BOOLEAN /\ c.apart \in Nat
      /\ (c.wrote => c.into /\ ~c.release /\ c.n # 0)
  BY <1>1, <1>2, CallFields DEF Sound
<1>4. list \in Seq(Items) /\ Len(list) \in Nat /\ DOMAIN list = 1 .. Len(list) /\ out \in Seq(Contents)
  BY DEF HashIInv, Types
<1>5. ASSUME NEW k \in DOMAIN list
      PROVE  /\ rows[k] \in RowType /\ rows[k].from = -1 /\ rows[k].kept = c.release
             /\ rows[k].content.text = list[k] /\ k <= Len(list)
  <2>1. list[k] \in Text /\ k <= Len(list)
    BY <1>1, <1>4, TextsOf DEF AllBytes
  <2>2. Plain(list[k]) \in Contents /\ Plain(list[k]).text = list[k]
    BY <2>1, ContentsOf
  <2> HIDE DEF c
  <2> QED BY <1>3, <2>1, <2>2 DEF RowType, Hold, Nowhere
<1>6. rows \in Seq(RowType) /\ DOMAIN rows = DOMAIN list
  <2>1. rows \in [1 .. Len(list) -> RowType]
    BY <1>4, <1>5
  <2> QED BY <1>4, <2>1, SequenceOf
<1> HIDE DEF rows, c
<1>7. /\ d \in CallType /\ d.pc = "loaded" /\ d.into = c.into /\ d.release = c.release /\ d.n = c.n
      /\ d.rows = rows /\ d.res = c.res /\ d.wrote = c.wrote /\ d.apart = c.apart
  BY <1>2, <1>6 DEF CallType
<1> HIDE DEF d
<1>8. Sound(t, d, gil, list, Len(out))
  <2>1. \A k \in DOMAIN d.rows :
          /\ d.rows[k].kept \/ (~d.release /\ k <= Len(list) /\ list[k] = d.rows[k].content.text)
          /\ d.rows[k].from # d.apart
    BY <1>3, <1>5, <1>6, <1>7
  <2> QED BY <1>3, <1>7, <2>1 DEF Sound
<1> QED BY <1>1, <1>4, <1>7, <1>8, GotoStep DEF c

LEMMA KeepsReadEach ==
  ASSUME HashIInv, NEW t \in Thread, ReadEach(t)
  PROVE  HashIInv' /\ Len(out') = Len(out)
<1> DEFINE c == Top(t)
           d == [c EXCEPT !.pc = "each"]
<1>1. /\ stack[t] # <<>> /\ c.pc = "read" /\ UNCHANGED <<gil, list, text, out, place, claimed>> /\ Goto(t, d)
  BY DEF ReadEach, At, GotoPc
<1>2. c \in CallType /\ Sound(t, c, gil, list, Len(out)) /\ out \in Seq(Contents)
  BY <1>1, TopOf DEF HashIInv, Types
<1> HIDE DEF c
<1>3. /\ d \in CallType /\ d.pc = "each" /\ d.into = c.into /\ d.release = c.release /\ d.n = c.n
      /\ d.rows = c.rows /\ d.res = c.res /\ d.wrote = c.wrote /\ d.apart = c.apart
  BY <1>2, PcSet
<1> HIDE DEF d
<1>4. Sound(t, d, gil, list, Len(out))
  BY <1>1, <1>2, <1>3 DEF Sound
<1> QED BY <1>1, <1>2, <1>3, <1>4, GotoStep DEF c

(* The top call goes to another place and keeps what it has.               *)
LEMMA PcStep ==
  ASSUME HashIInv, NEW t \in Thread, stack[t] # <<>>, Top(t).pc \in {"each", "hook"},
         NEW pc \in {"hook", "loaded"}, gil = t, GotoPc(t, pc),
         UNCHANGED <<gil, list, text, out, place, claimed>>
  PROVE  HashIInv'
<1> DEFINE c == Top(t)
           d == [c EXCEPT !.pc = pc]
<1>1. c \in CallType /\ Sound(t, c, gil, list, Len(out)) /\ out \in Seq(Contents)
  BY TopOf DEF HashIInv, Types
<1>2. Goto(t, d) /\ pc \in {"read", "each", "hook", "loaded", "hash"}
  BY DEF GotoPc
<1> HIDE DEF c
<1>3. /\ d \in CallType /\ d.pc = pc /\ d.into = c.into /\ d.release = c.release /\ d.n = c.n
      /\ d.rows = c.rows /\ d.res = c.res /\ d.wrote = c.wrote /\ d.apart = c.apart
  BY <1>1, <1>2, PcSet
<1> HIDE DEF d
<1>4. Sound(t, d, gil, list, Len(out))
  BY <1>1, <1>3 DEF Sound, c
<1> QED BY <1>1, <1>2, <1>3, <1>4, GotoStep DEF c

(* The top call has read one more item.                                    *)
LEMMA RowStep ==
  ASSUME HashIInv, NEW t \in Thread, stack[t] # <<>>, Top(t).pc \in {"each", "hook"},
         NEW content \in Contents, NEW from \in Int, Top(t).wrote => from # Top(t).apart,
         gil = t, Goto(t, [Row(Top(t), content, from) EXCEPT !.pc = "each"]),
         UNCHANGED <<gil, list, text, out, place, claimed>>
  PROVE  HashIInv'
<1> DEFINE c   == Top(t)
           r   == Row(c, content, from)
           d   == [r EXCEPT !.pc = "each"]
           row == [content |-> content, kept |-> TRUE, from |-> from]
<1>1. c \in CallType /\ Sound(t, c, gil, list, Len(out)) /\ out \in Seq(Contents)
  BY TopOf DEF HashIInv, Types
<1>2. Goto(t, d) /\ (c.wrote => from # c.apart) /\ c.pc \in {"each", "hook"}
  OBVIOUS
<1> HIDE DEF c
<1>3. /\ r \in CallType /\ r.into = c.into /\ r.release = c.release /\ r.n = c.n
      /\ r.rows = Append(c.rows, row) /\ r.res = c.res /\ r.wrote = c.wrote /\ r.apart = c.apart
      /\ row \in RowType
  BY <1>1, RowSet
<1>4. row.kept /\ row.from = from
  OBVIOUS
<1> HIDE DEF r, row
<1>5. /\ d \in CallType /\ d.pc = "each" /\ d.into = r.into /\ d.release = r.release /\ d.n = r.n
      /\ d.rows = r.rows /\ d.res = r.res /\ d.wrote = r.wrote /\ d.apart = r.apart
  BY <1>3, PcSet
<1> HIDE DEF d
<1>6. Sound(t, d, gil, list, Len(out))
  BY <1>1, <1>2, <1>3, <1>4, <1>5, RowSound
<1>7. d.into = Top(t).into
  BY <1>3, <1>5 DEF c
<1> QED BY <1>1, <1>2, <1>5, <1>6, <1>7, GotoStep

LEMMA KeepsReadItem ==
  ASSUME HashIInv, NEW t \in Thread, ReadItem(t)
  PROVE  HashIInv' /\ Len(out') = Len(out)
<1> DEFINE c == Top(t)
           k == Len(c.rows) + 1
<1>1. stack[t] # <<>> /\ c.pc = "each" /\ UNCHANGED <<gil, list, text, out, place>>
  BY DEF ReadItem, At
<1>2. c \in CallType /\ Sound(t, c, gil, list, Len(out)) /\ out \in Seq(Contents) /\ place \in Nat
      /\ list \in Seq(Items)
  BY <1>1, TopOf DEF HashIInv, Types
<1>3. gil = t /\ c.apart \in Nat /\ (c.wrote => c.into /\ ~c.release /\ c.n # 0)
  BY <1>1, <1>2, CallFields DEF Sound
<1>0. Nowhere \in Int /\ Nowhere # c.apart
  <2> HIDE DEF c
  <2> QED BY <1>3 DEF Nowhere
<1>4. \A content \in Contents, from \in Int : Row(c, content, from) = [Row(c, content, from) EXCEPT !.pc = "each"]
  <2> SUFFICES ASSUME NEW content \in Contents, NEW from \in Int
               PROVE  Row(c, content, from) = [Row(c, content, from) EXCEPT !.pc = "each"]
    OBVIOUS
  <2> DEFINE r == Row(c, content, from)
  <2>1. r \in CallType /\ r.pc = "each"
    BY <1>1, <1>2, RowSet
  <2> HIDE DEF r
  <2>2. r = [r EXCEPT !.pc = "each"]
    BY <2>1 DEF CallType
  <2> QED BY <2>2 DEF r
<1>5. ASSUME NEW content \in Contents, NEW from \in Int, c.wrote => from # c.apart,
             Goto(t, Row(c, content, from)), UNCHANGED claimed
      PROVE  HashIInv'
  <2>1. Goto(t, [Row(c, content, from) EXCEPT !.pc = "each"])
    BY <1>4, <1>5
  <2> QED BY <1>1, <1>3, <1>5, <2>1, RowStep
<1>6. CASE k > Len(list) /\ GotoPc(t, "loaded") /\ UNCHANGED claimed
  BY <1>1, <1>3, <1>6, PcStep
<1>7. CASE k <= Len(list) /\ list[k] \in Bytes /\ Goto(t, Row(c, Plain(list[k]), Nowhere)) /\ UNCHANGED claimed
  <2>1. Plain(list[k]) \in Contents
    BY <1>7, ContentsOf, TextsOf
  <2> QED BY <1>0, <1>1, <1>5, <1>7, <2>1
<1>8. CASE Return(t, None)
  BY <1>1, <1>2, <1>8, ReturnStep DEF None
<1>9. CASE /\ ~Shares(c) /\ UNCHANGED claimed
           /\ Goto(t, IF out = <<>> THEN Row(c, Plain("empty"), Nowhere) ELSE Row(c, out[1], place))
  <2>1. CASE out = <<>>
    <3>1. Plain("empty") \in Contents
      BY ContentsOf, TextsOf
    <3> QED BY <1>0, <1>1, <1>5, <1>9, <2>1, <3>1
  <2>2. CASE out # <<>>
    <3>1. out[1] \in Contents /\ place \in Int
      BY <1>2, <2>2
    <3>2. c.wrote => place # c.apart
      <4>1. ~Shares(c)
        BY <1>9
      <4> HIDE DEF c
      <4> QED BY <1>3, <2>2, <4>1 DEF Shares
    <3> QED BY <1>1, <1>5, <1>9, <2>2, <3>1, <3>2
  <2> QED BY <2>1, <2>2
<1>10. CASE GotoPc(t, "hook") /\ UNCHANGED claimed
  BY <1>1, <1>3, <1>10, PcStep
<1>11. HashIInv'
  BY <1>6, <1>7, <1>8, <1>9, <1>10 DEF ReadItem
<1> QED BY <1>1, <1>11

LEMMA KeepsHookEnd ==
  ASSUME HashIInv, NEW t \in Thread, HookEnd(t)
  PROVE  HashIInv' /\ Len(out') = Len(out)
<1> DEFINE c == Top(t)
<1>1. stack[t] # <<>> /\ c.pc = "hook" /\ gil = t /\ UNCHANGED <<gil, list, text, out, place>>
  BY DEF HookEnd, At
<1>2. c \in CallType /\ out \in Seq(Contents) /\ text \in Texts /\ c.apart \in Nat
  BY <1>1, TopOf, CallFields DEF HashIInv, Types
<1>3. CASE Return(t, None)
  BY <1>1, <1>2, <1>3, ReturnStep DEF None
<1>4. CASE Goto(t, [Row(Top(t), Plain(text), Nowhere) EXCEPT !.pc = "each"]) /\ UNCHANGED claimed
  <2>1. Plain(text) \in Contents /\ Nowhere \in Int /\ Nowhere # c.apart
    BY <1>2, ContentsOf, TextsOf DEF Nowhere
  <2> QED BY <1>1, <1>4, <2>1, RowStep
<1>5. HashIInv'
  BY <1>3, <1>4 DEF HookEnd
<1> QED BY <1>1, <1>5

LEMMA KeepsSizeChanged ==
  ASSUME HashIInv, NEW t \in Thread, SizeChanged(t)
  PROVE  HashIInv' /\ Len(out') = Len(out)
<1>1. stack[t] # <<>> /\ Return(t, None) /\ UNCHANGED <<gil, list, text, out, place>> /\ out \in Seq(Contents)
  BY DEF SizeChanged, At, HashIInv, Types
<1>2. HashIInv'
  BY <1>1, ReturnStep DEF None
<1> QED BY <1>1, <1>2

(* Digests that are delivered are those of the messages as loaded, and     *)
(* the array takes them as it is.                                          *)
LEMMA DeliverStep ==
  ASSUME HashIInv, NEW t \in Thread, stack[t] # <<>>, NEW digests,
         digests = [k \in DOMAIN Top(t).rows |-> Digest(Top(t).rows[k].content)],
         Top(t).into => OutStillFits(Top(t)) /\ Len(Top(t).rows) = Top(t).n,
         Deliver(t, digests),
         gil' = gil \/ (gil = NoThread /\ gil' = t), UNCHANGED <<list, text, place>>
  PROVE  HashIInv' /\ Len(out') = Len(out)
<1> DEFINE c == Top(t)
           answer == [what |-> "done", loaded |-> Loaded(c), digests |-> digests]
<1>1. c \in CallType /\ out \in Seq(Contents)
  BY TopOf DEF HashIInv, Types
<1>2. c.rows \in Seq(RowType)
  BY <1>1, CallFields
<1>3. digests \in Seq(Contents) /\ Len(digests) = Len(c.rows)
  BY <1>2, DigestsOf
<1>4. Return(t, answer) /\ out' = IF c.into THEN digests ELSE out
  BY DEF Deliver
<1>5. out' \in Seq(Contents) /\ Len(out') = Len(out)
  BY <1>1, <1>3, <1>4 DEF OutStillFits
<1>6. answer.digests = [k \in DOMAIN answer.loaded |-> Digest(answer.loaded[k])]
  <2>1. DOMAIN Loaded(c) = DOMAIN c.rows /\ \A k \in DOMAIN c.rows : Loaded(c)[k] = c.rows[k].content
    BY DEF Loaded
  <2>2. digests = [k \in DOMAIN Loaded(c) |-> Digest(Loaded(c)[k])]
    BY <2>1
  <2> QED BY <2>2
<1> HIDE DEF answer
<1>7. HashIInv'
  BY <1>4, <1>5, <1>6, ReturnStep
<1> QED BY <1>5, <1>7

(* What the slices of a call point to once all is loaded is what was       *)
(* loaded: it has references, or the list still has the items.             *)
LEMMA ContentKept ==
  ASSUME HashIInv, NEW t \in Thread, stack[t] # <<>>, Top(t).pc \in {"loaded", "hash"},
         NEW k \in DOMAIN Top(t).rows
  PROVE  Content(Top(t).rows[k], k) = Top(t).rows[k].content
<1>1. Sound(t, Top(t), gil, list, Len(out))
  BY TopOf
<1> QED BY <1>1 DEF Sound, Content

LEMMA KeepsHashDirect ==
  ASSUME HashIInv, NEW t \in Thread, HashDirect(t)
  PROVE  HashIInv' /\ Len(out') = Len(out)
<1> DEFINE c == Top(t)
           digests == [k \in DOMAIN c.rows |-> Digest(Content(c.rows[k], k))]
<1>1. /\ stack[t] # <<>> /\ c.pc = "loaded" /\ UNCHANGED <<gil, list, text, place>>
      /\ c.into => Len(c.rows) = c.n
  BY DEF HashDirect, Proceeds, At
<1>2. digests = [k \in DOMAIN c.rows |-> Digest(c.rows[k].content)]
  BY <1>1, ContentKept
<1>3. CASE c.into => OutStillFits(c)
  <2>1. Deliver(t, digests)
    BY <1>3 DEF HashDirect
  <2> HIDE DEF digests
  <2> QED BY <1>1, <1>2, <1>3, <2>1, DeliverStep
<1>4. CASE ~(c.into => OutStillFits(c))
  <2>1. Return(t, None) /\ UNCHANGED out /\ out \in Seq(Contents)
    BY <1>4 DEF HashDirect, HashIInv, Types
  <2> QED BY <1>1, <2>1, ReturnStep DEF None
<1> QED BY <1>3, <1>4

LEMMA KeepsWriteNothing ==
  ASSUME HashIInv, NEW t \in Thread, WriteNothing(t)
  PROVE  HashIInv' /\ Len(out') = Len(out)
<1> DEFINE answer == [what |-> "done", loaded |-> <<>>, digests |-> <<>>]
<1>1. stack[t] # <<>> /\ Return(t, answer) /\ UNCHANGED <<gil, list, text, out, place>> /\ out \in Seq(Contents)
  BY DEF WriteNothing, Proceeds, At, HashIInv, Types
<1>2. answer.digests = [k \in DOMAIN answer.loaded |-> Digest(answer.loaded[k])]
  OBVIOUS
<1> HIDE DEF answer
<1>3. HashIInv'
  BY <1>1, <1>2, ReturnStep
<1> QED BY <1>1, <1>3

LEMMA KeepsDetach ==
  ASSUME HashIInv, NEW t \in Thread, Detach(t)
  PROVE  HashIInv' /\ Len(out') = Len(out)
<1> DEFINE c == Top(t)
           d == [c EXCEPT !.pc = "hash"]
<1>1. /\ stack[t] # <<>> /\ c.pc = "loaded" /\ UNCHANGED <<list, text, out, place, claimed>>
      /\ c.into => Len(c.rows) = c.n
      /\ c.release /\ gil' = NoThread /\ Goto(t, d)
  BY DEF Detach, Proceeds, At, GotoPc
<1>2. c \in CallType /\ Sound(t, c, gil, list, Len(out)) /\ out \in Seq(Contents)
  BY <1>1, TopOf DEF HashIInv, Types
<1> HIDE DEF c
<1>3. /\ d \in CallType /\ d.pc = "hash" /\ d.into = c.into /\ d.release = c.release /\ d.n = c.n
      /\ d.rows = c.rows /\ d.res = c.res /\ d.wrote = c.wrote /\ d.apart = c.apart
  BY <1>2, PcSet
<1> HIDE DEF d
<1>4. gil = t /\ c.res = <<>> /\ ~c.wrote /\ \A k \in DOMAIN c.rows : c.rows[k].kept
  BY <1>1, <1>2 DEF Sound
<1>5. Len(c.res) = 0 /\ DOMAIN c.res = {} /\ Len(c.rows) \in Nat
  BY <1>2, <1>4, CallFields
<1>6. Sound(t, d, gil', list, Len(out))
  BY <1>1, <1>3, <1>4, <1>5 DEF Sound
<1>7. HashIInv'
  BY <1>1, <1>2, <1>3, <1>4, <1>6, GotoTurn DEF c
<1> QED BY <1>1, <1>7

LEMMA KeepsHashOne ==
  ASSUME HashIInv, NEW t \in Thread, HashOne(t)
  PROVE  HashIInv' /\ Len(out') = Len(out)
<1> DEFINE c == Top(t)
           k == Len(c.res) + 1
           x == Digest(Content(c.rows[k], k))
           d == [c EXCEPT !.res = Append(@, x)]
<1>1. /\ stack[t] # <<>> /\ c.pc = "hash" /\ UNCHANGED <<gil, list, text, out, place, claimed>>
      /\ k <= Len(c.rows) /\ Goto(t, d)
  BY DEF HashOne, At
<1>2. c \in CallType /\ Sound(t, c, gil, list, Len(out)) /\ out \in Seq(Contents)
  BY <1>1, TopOf DEF HashIInv, Types
<1>3. /\ c.rows \in Seq(RowType) /\ c.res \in Seq(Contents) /\ Len(c.res) \in Nat /\ Len(c.rows) \in Nat
      /\ DOMAIN c.rows = 1 .. Len(c.rows) /\ DOMAIN c.res = 1 .. Len(c.res)
  BY <1>2, CallFields
<1>4. k \in DOMAIN c.rows /\ x = Digest(c.rows[k].content)
  <2>1. k \in DOMAIN c.rows
    BY <1>1, <1>3
  <2> QED BY <1>1, <2>1, ContentKept
<1>5. c.rows[k] \in RowType /\ c.rows[k].content \in Contents
  <2> HIDE DEF c, k, x
  <2>1. c.rows[k] \in RowType
    BY <1>3, <1>4
  <2> QED BY <2>1 DEF RowType
<1>6. x \in Contents
  BY <1>4, <1>5, ContentsOf
<1> DEFINE y == c.rows[k].content
<1>7. x = Digest(y) /\ Len(c.res) + 1 = k
  BY <1>4
<1> HIDE DEF c, x
<1>8. /\ d \in CallType /\ d.pc = c.pc /\ d.into = c.into /\ d.release = c.release /\ d.n = c.n
      /\ d.rows = c.rows /\ d.res = Append(c.res, x) /\ d.wrote = c.wrote /\ d.apart = c.apart
  <2>1. Append(c.res, x) \in Seq(Contents)
    BY <1>3, <1>6
  <2> QED BY <1>2, <2>1 DEF CallType
<1>9. /\ Len(d.res) = Len(c.res) + 1 /\ DOMAIN d.res = 1 .. Len(c.res) + 1
      /\ d.res[Len(c.res) + 1] = x
      /\ \A e \in 1 .. Len(c.res) : d.res[e] = c.res[e]
  BY <1>3, <1>6, <1>8, Pushed
<1> HIDE DEF d
<1>10. Len(c.res) <= Len(c.rows) /\ \A e \in DOMAIN c.res : c.res[e] = Digest(c.rows[e].content)
  BY <1>1, <1>2 DEF Sound
<1>11. Len(d.res) <= Len(d.rows) /\ \A e \in DOMAIN d.res : d.res[e] = Digest(d.rows[e].content)
  <2>1. Len(d.res) <= Len(d.rows)
    BY <1>1, <1>8, <1>9
  <2>2. ASSUME NEW e \in DOMAIN d.res
        PROVE  d.res[e] = Digest(d.rows[e].content)
    <3>1. CASE e = k
      BY <1>7, <1>8, <1>9, <3>1
    <3>2. CASE e # k
      <4>1. e \in DOMAIN c.res
        BY <1>3, <1>9, <3>2
      <4> QED BY <1>3, <1>8, <1>9, <1>10, <4>1
    <3> QED BY <3>1, <3>2
  <2> QED BY <2>1, <2>2
<1>12. Sound(t, d, gil, list, Len(out))
  BY <1>1, <1>2, <1>8, <1>11 DEF Sound
<1>13. HashIInv'
  BY <1>1, <1>2, <1>8, <1>12, GotoStep DEF c
<1> QED BY <1>1, <1>13

LEMMA KeepsAttach ==
  ASSUME HashIInv, NEW t \in Thread, Attach(t)
  PROVE  HashIInv' /\ Len(out') = Len(out)
<1> DEFINE c == Top(t)
<1>1. /\ stack[t] # <<>> /\ c.pc = "hash" /\ UNCHANGED <<list, text, place>>
      /\ Len(c.res) = Len(c.rows) /\ gil = NoThread /\ gil' = t
  BY DEF Attach, At
<1>2. c \in CallType /\ Sound(t, c, gil, list, Len(out)) /\ out \in Seq(Contents)
  BY <1>1, TopOf DEF HashIInv, Types
<1>3. /\ c.into => Len(c.rows) = c.n
      /\ \A k \in DOMAIN c.res : c.res[k] = Digest(c.rows[k].content)
  BY <1>1, <1>2 DEF Sound
<1>4. c.res = [k \in DOMAIN c.rows |-> Digest(c.rows[k].content)]
  <2>1. c.res \in Seq(Contents) /\ DOMAIN c.res = 1 .. Len(c.res) /\ DOMAIN c.rows = 1 .. Len(c.rows)
    BY <1>2, CallFields
  <2>2. c.res = [k \in DOMAIN c.res |-> c.res[k]]
    BY <2>1
  <2> HIDE DEF c
  <2> QED BY <1>1, <1>3, <2>1, <2>2
<1>5. CASE c.into => OutStillFits(c)
  <2>1. Deliver(t, c.res)
    BY <1>5 DEF Attach
  <2> QED BY <1>1, <1>3, <1>4, <1>5, <2>1, DeliverStep
<1>6. CASE ~(c.into => OutStillFits(c))
  <2>1. Return(t, None) /\ UNCHANGED out
    BY <1>6 DEF Attach
  <2> QED BY <1>1, <1>2, <2>1, ReturnStep DEF None
<1> QED BY <1>5, <1>6

LEMMA KeepsFixedDirect ==
  ASSUME HashIInv, NEW t \in Thread, NEW from \in {"buffer", "view"}, FixedDirect(t, from)
  PROVE  HashIInv' /\ Len(out') = Len(out)
<1> DEFINE content == Source(from)
           found   == [k \in DOMAIN out |-> IF from = "view" /\ k > 1 THEN Plain(Garbage) ELSE content[k]]
           digests == [k \in DOMAIN out |-> Digest(found[k])]
<1>1. CASE Overlaps(from)
  <2>1. Refuse(t)
    BY <1>1 DEF FixedDirect
  <2> QED BY <2>1, KeepsRefuse DEF Refuse
<1>2. CASE ~Overlaps(from)
  <2>1. /\ gil = t /\ InPython(t) /\ out' = digests
        /\ told' = [what |-> "done", loaded |-> content, digests |-> digests]
        /\ UNCHANGED <<gil, list, text, place, claimed, stack>>
    BY <1>2 DEF FixedDirect
  <2>2. out \in Seq(Contents) /\ Len(out) \in Nat /\ Len(out) <= MaxItems /\ DOMAIN out = 1 .. Len(out) /\ text \in Texts
    BY DEF HashIInv, Types
  <2>3. \A k \in DOMAIN out : from # "view"
    BY <1>2, <2>2 DEF Overlaps
  <2>4. ASSUME NEW k \in DOMAIN out
        PROVE  found[k] = content[k] /\ content[k] = Plain(text)
    BY <2>3 DEF Source
  <2>5. DOMAIN content = DOMAIN out
    BY DEF Source
  <2>6. digests = [k \in DOMAIN content |-> Digest(content[k])]
    BY <2>4, <2>5
  <2>7. digests \in [1 .. Len(out) -> Contents]
    <3>1. Plain(text) \in Contents
      BY <2>2, ContentsOf, TextsOf
    <3>2. \A k \in DOMAIN out : digests[k] = Digest(Plain(text))
      BY <2>4
    <3> QED BY <2>2, <3>1, <3>2, ContentsOf
  <2> HIDE DEF digests, content, found
  <2>8. out' \in Seq(Contents) /\ Len(out') = Len(out)
    BY <2>1, <2>2, <2>7, SequenceOf
  <2>9. Types' /\ Nested' /\ OneWriter'
    BY <2>1, <2>2, <2>8 DEF HashIInv, Types, Nested, OneWriter
  <2>10. AllSound'
    BY <2>1, <2>8 DEF HashIInv, AllSound
  <2>11. DigestsAsLoaded'
    BY <2>1, <2>6 DEF DigestsAsLoaded
  <2> QED BY <2>8, <2>9, <2>10, <2>11 DEF HashIInv
<1> QED BY <1>1, <1>2

LEMMA KeepsFixedBegin ==
  ASSUME HashIInv, NEW t \in Thread, NEW from \in {"buffer", "view"}, NEW into \in BOOLEAN,
         FixedBegin(t, from, into)
  PROVE  HashIInv' /\ Len(out') = Len(out)
<1> DEFINE rows == [k \in DOMAIN out |->
                     [content |-> Source(from)[k], kept |-> TRUE,
                      from |-> IF from = "view" THEN place ELSE Nowhere]]
           c    == [pc |-> "loaded", into |-> into, release |-> TRUE, n |-> Len(out),
                    res |-> <<>>, wrote |-> FALSE, apart |-> place, rows |-> rows]
<1>1. /\ gil = t /\ InPython(t) /\ (into => ~claimed) /\ claimed' = (claimed \/ into) /\ Push(t, c)
      /\ UNCHANGED <<gil, list, text, out, place>>
  BY DEF FixedBegin
<1>2. /\ out \in Seq(Contents) /\ Len(out) \in Nat /\ DOMAIN out = 1 .. Len(out) /\ text \in Texts
      /\ place \in Nat /\ <<>> \in Seq(Contents)
  BY DEF HashIInv, Types
<1>3. ASSUME NEW k \in DOMAIN out
      PROVE  rows[k] \in RowType /\ rows[k].kept
  <2>1. Plain(text) \in Contents /\ out[k] \in Contents
    BY <1>2, ContentsOf, TextsOf
  <2>2. Source(from)[k] \in Contents
    BY <2>1 DEF Source
  <2> QED BY <1>2, <2>2 DEF RowType, Nowhere
<1>4. rows \in Seq(RowType) /\ DOMAIN rows = DOMAIN out
  <2>1. rows \in [1 .. Len(out) -> RowType]
    BY <1>2, <1>3
  <2> QED BY <1>2, <2>1, SequenceOf
<1> HIDE DEF rows
<1>5. c \in CallType
  BY <1>2, <1>4 DEF CallType
<1>6. Sound(t, c, gil, list, Len(out)) /\ c.into = into
  BY <1>1, <1>3, <1>4 DEF Sound
<1> HIDE DEF c
<1>7. HashIInv'
  BY <1>1, <1>5, <1>6, PushStep
<1> QED BY <1>1, <1>7

LEMMA HashInitIInv == HashInit => HashIInv
<1> SUFFICES ASSUME HashInit
             PROVE  HashIInv
  OBVIOUS
<1>1. \A t \in Thread : stack[t] = <<>> /\ DOMAIN stack[t] = {}
  BY DEF HashInit
<1>2. Types
  <2>1. <<>> \in Seq(Items) /\ <<>> \in Seq(Contents) /\ <<>> \in Seq(CallType) /\ Len(<<>>) = 0
    OBVIOUS
  <2>2. list \in Seq(Items) /\ Len(list) <= MaxItems /\ out \in Seq(Contents) /\ Len(out) <= MaxItems
    BY <2>1, HashConstants DEF HashInit
  <2>3. stack \in [Thread -> Seq(CallType)]
    BY <2>1 DEF HashInit
  <2> QED BY <2>2, <2>3 DEF HashInit, Types
<1>3. Nested /\ AllSound /\ OneWriter
  BY <1>1 DEF Nested, AllSound, OneWriter
<1>4. DigestsAsLoaded
  BY DEF HashInit, DigestsAsLoaded, None
<1> QED BY <1>2, <1>3, <1>4 DEF HashIInv

(* The array keeps its size in every step that is not the program's.       *)
LEMMA HashStepIInv ==
  HashIInv /\ [HashNext]_hashing => HashIInv' /\ (Len(out') # Len(out) => \E t \in Thread : Program(t))
<1> SUFFICES ASSUME HashIInv, [HashNext]_hashing
             PROVE  HashIInv' /\ (Len(out') # Len(out) => \E t \in Thread : Program(t))
  OBVIOUS
<1>1. CASE UNCHANGED hashing
  <2>1. Types' /\ Nested' /\ AllSound' /\ OneWriter' /\ DigestsAsLoaded'
    BY <1>1 DEF hashing, HashIInv, Types, Nested, AllSound, OneWriter, DigestsAsLoaded
  <2> QED BY <1>1, <2>1 DEF hashing, HashIInv
<1>2. ASSUME NEW t \in Thread, Program(t)
      PROVE  HashIInv'
  BY <1>2, KeepsChangeList, KeepsTurn, KeepsChangeArray DEF Program
<1>3. ASSUME NEW t \in Thread, Enter(t) \/ Leave(t) \/ BeginRefused(t)
      PROVE  HashIInv' /\ Len(out') = Len(out)
  BY <1>3, KeepsTurn, KeepsRefuse DEF Enter, Leave, BeginRefused, Refuse
<1>4. ASSUME NEW t \in Thread, NEW into \in BOOLEAN, NEW release \in BOOLEAN, Begin(t, into, release)
      PROVE  HashIInv' /\ Len(out') = Len(out)
  BY <1>4, HashKeepsBegin DEF Begin
<1>5. ASSUME NEW t \in Thread,
             \/ Fused(t) \/ ReadExact(t) \/ ReadEach(t) \/ ReadItem(t) \/ HookEnd(t) \/ SizeChanged(t)
             \/ WriteNothing(t) \/ HashDirect(t) \/ Detach(t) \/ HashOne(t) \/ Attach(t)
      PROVE  HashIInv' /\ Len(out') = Len(out)
  BY <1>5, KeepsFused, KeepsReadExact, KeepsReadEach, KeepsReadItem, KeepsHookEnd, KeepsSizeChanged,
     KeepsWriteNothing, KeepsHashDirect, KeepsDetach, KeepsHashOne, KeepsAttach
<1>6. ASSUME NEW t \in Thread, NEW from \in {"buffer", "view"},
             FixedDirect(t, from) \/ \E into \in BOOLEAN : FixedBegin(t, from, into)
      PROVE  HashIInv' /\ Len(out') = Len(out)
  BY <1>6, KeepsFixedDirect, KeepsFixedBegin
<1>7. CASE HashNext
  <2> SUFFICES ASSUME NEW t \in Thread,
                      \/ Enter(t) \/ Leave(t) \/ Program(t)
                      \/ BeginRefused(t) \/ Fused(t)
                      \/ \E into, release \in BOOLEAN : Begin(t, into, release)
                      \/ ReadExact(t) \/ ReadEach(t) \/ ReadItem(t) \/ HookEnd(t) \/ SizeChanged(t)
                      \/ WriteNothing(t) \/ HashDirect(t) \/ Detach(t) \/ HashOne(t) \/ Attach(t)
                      \/ \E from \in {"buffer", "view"} :
                           FixedDirect(t, from) \/ \E into \in BOOLEAN : FixedBegin(t, from, into)
               PROVE  HashIInv' /\ (Len(out') # Len(out) => \E u \in Thread : Program(u))
    BY <1>7 DEF HashNext
  <2> QED BY <1>2, <1>3, <1>4, <1>5, <1>6
<1> QED BY <1>1, <1>7

(* The inductive invariant holds in every reachable state.                 *)
THEOREM HashInvariance == HashSpec => []HashIInv
<1>1. HashIInv /\ [HashNext]_hashing => HashIInv'
  BY HashStepIInv
<1> QED BY HashInitIInv, <1>1, PTL DEF HashSpec

-----------------------------------------------------------------------------
(* What it says of the calls.                                              *)

(* A thread inside a call holds the lock, except where it hashes without   *)
(* it and where code of the program runs, and the array has at most one    *)
(* call that is to write it (src/python/hash.rs).                          *)
THEOREM HashTypeCorrect == HashSpec => []HashTypeOK
<1>1. HashIInv => HashTypeOK
  <2> SUFFICES ASSUME HashIInv
               PROVE  HashTypeOK
    OBVIOUS
  <2>1. ASSUME NEW t \in Thread, ~InPython(t), ~At(t, "hash")
        PROVE  gil = t
    <3>1. stack[t] # <<>> /\ Top(t).pc # "hook" /\ Top(t).pc # "hash"
      BY <2>1 DEF InPython, At
    <3>2. Top(t) \in CallType /\ Sound(t, Top(t), gil, list, Len(out))
      BY <3>1, TopOf
    <3>3. Top(t).pc \in {"read", "each", "loaded"}
      BY <3>1, <3>2 DEF CallType
    <3> QED BY <3>2, <3>3 DEF Sound
  <2>2. ASSUME NEW p \in Calls
        PROVE  p[1] \in Thread /\ p[2] \in DOMAIN stack[p[1]] /\ p = <<p[1], p[2]>>
    BY DEF Calls
  <2>3. \A p \in Calls : stack[p[1]][p[2]].into => claimed
    BY <2>2 DEF HashIInv, OneWriter
  <2>4. \A p, q \in Calls : stack[p[1]][p[2]].into /\ stack[q[1]][q[2]].into => p = q
    <3> SUFFICES ASSUME NEW p \in Calls, NEW q \in Calls, stack[p[1]][p[2]].into, stack[q[1]][q[2]].into
                 PROVE  p = q
      OBVIOUS
    <3>1. p[1] = q[1] /\ p[2] = q[2]
      BY <2>2 DEF HashIInv, OneWriter
    <3> QED BY <2>2, <3>1
  <2> QED BY <2>1, <2>3, <2>4 DEF HashTypeOK, HashIInv, Types
<1> QED BY <1>1, HashInvariance, PTL

(* What a call delivers are the digests of the messages as they were when  *)
(* they were read, in order, whatever became of the list, its items and    *)
(* the array since (src/python/messages.rs, src/python/buffers.rs).        *)
THEOREM DigestsCorrect == HashSpec => []DigestsAsLoaded
<1>1. HashIInv => DigestsAsLoaded
  BY DEF HashIInv
<1> QED BY <1>1, HashInvariance, PTL

(* A call that has written into the array in part reads no message from    *)
(* that memory afterwards (src/python/messages.rs hash_fused).             *)
THEOREM ReadsNothingBack == HashSpec => []NothingReadBack
<1>1. HashIInv => NothingReadBack
  <2> SUFFICES ASSUME HashIInv, NEW p \in Calls
               PROVE  stack[p[1]][p[2]].wrote =>
                        \A row \in {stack[p[1]][p[2]].rows[k] : k \in DOMAIN stack[p[1]][p[2]].rows} :
                          row.from # stack[p[1]][p[2]].apart
    BY DEF NothingReadBack
  <2>1. p[1] \in Thread /\ p[2] \in DOMAIN stack[p[1]]
    BY DEF Calls
  <2>2. Sound(p[1], stack[p[1]][p[2]], gil, list, Len(out))
    BY <2>1 DEF HashIInv, AllSound
  <2> QED BY <2>2 DEF Sound
<1> QED BY <1>1, HashInvariance, PTL

(* Only the program changes the size of the array: no digest is written    *)
(* past what the array is when the call writes, though its size was looked *)
(* at before code of the program ran (src/python/hash.rs check_out_shape). *)
THEOREM ArrayNeverOverrun == HashSpec => ArrayKeepsSize
<1>1. HashIInv /\ [HashNext]_hashing => [Len(out') # Len(out) => \E t \in Thread : Program(t)]_hashing
  BY HashStepIInv
<1> QED BY <1>1, HashInvariance, PTL DEF HashSpec, ArrayKeepsSize

=============================================================================

-------------------------------- MODULE CHash --------------------------------
(***************************************************************************)
(* The hash functions of the C interface (src/ffi/hash.rs) in the address  *)
(* space of their caller: the checks of pointers and lengths in their      *)
(* order, the table of messages checked by parts on the pool (map_ranges   *)
(* of src/dispatch/pool.rs), and the messages hashed in whatever order the *)
(* kernels and the workers take them, with inputs read and digests written *)
(* in one memory.  Which kernel takes which messages is the matter of      *)
(* HashDispatch.                                                           *)
(***************************************************************************)
EXTENDS CSlices

CONSTANTS
  Blank, Digest(_, _), Len256, Len128,   \* as in HashCalls
  OneArgs, FixedArgs, VarArgs,           \* arguments, with the memory they refer to
  CheckParMin,     \* CHECK_PAR_MIN, 8192
  PoolThreads,     \* workers of the pool, 0 without one
  RangesPerThread  \* 4

Memories == [DOMAIN Blank -> 0 .. ByteMod - 1]

(* The caller's memory does not reach the last address: one past the end   *)
(* of what a program may use is an address.                                *)
ASSUME HashArguments ==
  /\ UsizeMax > 0 /\ DOMAIN Blank \subseteq 1 .. UsizeMax - 1 /\ Blank \in Memories
  /\ {ByteMod, WordLen, Len256, Len128, RangesPerThread} \subseteq Nat \ {0}
  /\ {PoolThreads, CheckParMin} \subseteq Nat
  /\ OneArgs   \subseteq [data : Address, len : Address, out : Address, mem : Memories]
  /\ FixedArgs \subseteq [data : Address, n : Address, len : Address, out : Address, mem : Memories]
  /\ VarArgs   \subseteq [ptrs : Address, n : Address, lens : Address, out : Address, mem : Memories]

VARIABLES
  mem, req, ret,   \* as in HashCalls
  run              \* the call inside: its phase and what it holds

calling == <<mem, req, ret, run>>

(* While a call hashes, the memory it was made with counts.                *)
HC == INSTANCE HashCalls WITH mem <- IF run = None THEN mem ELSE run.before

-----------------------------------------------------------------------------
(* The six functions.                                                      *)

FixedCall(data, n, len, out, size) ==
  [kind |-> "fixed", data |-> data, n |-> n, lens |-> len, out |-> out, size |-> size]

VarCall(ptrs, n, lens, out, size) ==
  [kind |-> "var", data |-> ptrs, n |-> n, lens |-> lens, out |-> out, size |-> size]

Hash256(a) == FixedCall(a.data, 1, a.len, a.out, Len256)
Hash128(a) == FixedCall(a.data, 1, a.len, a.out, Len128)

Hash256ManyFixed(a) == FixedCall(a.data, a.n, a.len, a.out, Len256)
Hash128ManyFixed(a) == FixedCall(a.data, a.n, a.len, a.out, Len128)

Hash256ManyVar(a) == VarCall(a.ptrs, a.n, a.lens, a.out, Len256)
Hash128ManyVar(a) == VarCall(a.ptrs, a.n, a.lens, a.out, Len128)

-----------------------------------------------------------------------------
(* Arguments.                                                              *)

FixedError(c) ==
  LET in  == c.n * c.lens
      out == c.n * c.size
  IN  FirstError(<<
        LengthIf(~FitsSlice(in, 1) \/ ~FitsSlice(out, 1)),
        OverlapError(c.data, in, c.out, out),
        SliceError(c.data, in, 1, 1),
        SliceError(c.out, out, 1, 1)>>)

VarError(c) ==
  LET out   == c.n * c.size
      table == c.n * WordLen
  IN  FirstError(<<
        PointerIf(c.data = Null \/ c.lens = Null),
        LengthIf(~FitsSlice(c.n, WordLen) \/ ~FitsSlice(out, 1)),
        OverlapError(c.data, table, c.out, out),
        OverlapError(c.lens, table, c.out, out),
        SliceError(c.out, out, 1, 1),
        SliceError(c.data, c.n, WordLen, WordLen),
        SliceError(c.lens, c.n, WordLen, WordLen)>>)

ArgumentError(c) == IF c.kind = "fixed" THEN FixedError(c) ELSE VarError(c)

-----------------------------------------------------------------------------
(* map_ranges: the ranges of 0 .. n-1 the pool is given, one without it.   *)

CeilDiv(n, d) == (n + d - 1) \div d

Chunk(n) ==
  IF PoolThreads > 0 /\ n >= CheckParMin
    THEN CeilDiv(n, PoolThreads * RangesPerThread)
    ELSE n

Ranges(n) == 0 .. CeilDiv(n, Chunk(n)) - 1

RangeOf(n, r) == r * Chunk(n) .. Lesser((r + 1) * Chunk(n), n) - 1

(* The checks of one message, and of a range of them.                      *)
MessageError(c, x) ==
  FirstError(<<
    LengthIf(~FitsSlice(x.len, 1)),
    OverlapError(x.ptr, x.len, c.out, c.n * c.size),
    SliceError(x.ptr, x.len, 1, 1)>>)

Failed(c, m, range) == {i \in range : MessageError(c, HC!Place(c, m, i)) # None}

SumOf(lens) ==
  LET sum[k \in 0 .. Len(lens)] ==
        IF k = 0 THEN 0 ELSE SaturatingAdd(sum[k-1], lens[k])
  IN  sum[Len(lens)]

(* Mutant: the last message of the range that is wrong is reported.        *)
CheckedLast(c, m, range) ==
  LET failed == Failed(c, m, range)
  IN  IF failed = {}
        THEN [error |-> None,
              sum   |-> SumOf([k \in 1 .. Cardinality(range) |->
                                 HC!Place(c, m, Min(range) + k - 1).len])]
        ELSE [error |-> MessageError(c, HC!Place(c, m, Max(failed))), sum |-> 0]

Checked(c, m, range) ==
  LET failed == Failed(c, m, range)
  IN  IF failed = {}
        THEN [error |-> None,
              sum   |-> SumOf([k \in 1 .. Cardinality(range) |->
                                 HC!Place(c, m, Min(range) + k - 1).len])]
        ELSE [error |-> MessageError(c, HC!Place(c, m, Min(failed))), sum |-> 0]

(* The results of all ranges, in the order of the ranges.                  *)
Verdict(parts) ==
  LET inOrder == [k \in 1 .. Cardinality(DOMAIN parts) |-> parts[k-1]]
  IN  [error |-> FirstError([k \in DOMAIN inOrder |-> inOrder[k].error]),
       sum   |-> SumOf([k \in DOMAIN inOrder |-> inOrder[k].sum])]

-----------------------------------------------------------------------------

Ask(c, m) ==
  /\ HC!Callable(c, m)
  /\ mem' = m
  /\ req' = c
  /\ UNCHANGED <<ret, run>>

Answer(status) ==
  /\ ret' = status
  /\ run' = None
  /\ UNCHANGED <<mem, req>>

(* parts: what is known of the table; total: the bytes the dispatcher is   *)
(* told; todo: messages without a digest; got: messages that have been     *)
(* read, by index.                                                         *)
Entered(c, phase) ==
  [phase |-> phase, before |-> mem, parts |-> [r \in Ranges(c.n) |-> None], total |-> 0,
   todo |-> 0 .. c.n - 1, got |-> [i \in 0 .. c.n - 1 |-> None]]

Errors == {"InvalidLength", "InvalidPointer"}

(* What a function holds, and what it answers, is not None.                *)
Answers == [error : Errors \cup {None}, sum : 0 .. UsizeMax]

RunType(n) ==
  [phase : {"table", "hash"}, before : Memories,
   parts : [Ranges(n) -> Answers \cup {None}], total : 0 .. UsizeMax,
   todo : SUBSET (0 .. n - 1), got : [0 .. n - 1 -> Seq(0 .. ByteMod - 1) \cup {None}]]

ASSUME NoneIsNothing ==
  /\ None \notin Errors \cup {"Ok"} /\ None \notin Answers
  /\ None \notin Seq(0 .. ByteMod - 1) /\ None \notin HC!Calls
  /\ \A n \in Address \ {0} : None \notin RunType(n)

CheckArguments ==
  /\ req # None /\ ret = None /\ run = None
  /\ IF req.n = 0 THEN Answer("Ok")
     ELSE IF ArgumentError(req) # None THEN Answer(ArgumentError(req))
     ELSE /\ run' = Entered(req, IF req.kind = "var" THEN "table" ELSE "hash")
          /\ UNCHANGED <<mem, req, ret>>

In(phase) == IF run = None THEN FALSE ELSE run.phase = phase

CheckPart(r) ==
  /\ In("table")
  /\ run.parts[r] = None
  /\ run' = [run EXCEPT !.parts[r] = Checked(req, mem, RangeOf(req.n, r))]
  /\ UNCHANGED <<mem, req, ret>>

PartsDone == \A r \in DOMAIN run.parts : run.parts[r] # None

SumUp ==
  /\ In("table")
  /\ PartsDone
  /\ LET verdict == Verdict(run.parts)
     IN  IF verdict.error # None THEN Answer(verdict.error)
         ELSE /\ run' = [run EXCEPT !.phase = "hash", !.total = verdict.sum]
              /\ UNCHANGED <<mem, req, ret>>

(* A worker reads a message, through the table if there is one.            *)
Read(i) ==
  /\ In("hash")
  /\ i \in run.todo /\ run.got[i] = None
  /\ LET x == HC!Place(req, mem, i)
     IN  run' = [run EXCEPT !.got[i] = Content(mem, x.ptr, x.len)]
  /\ UNCHANGED <<mem, req, ret>>

(* It stores the digest.                                                   *)
Write(i) ==
  /\ In("hash")
  /\ i \in run.todo /\ run.got[i] # None
  /\ LET at == req.out + i * req.size
     IN  mem' = [a \in DOMAIN mem |->
                   IF a \in Bytes(at, req.size)
                     THEN Digest(req.size, run.got[i])[a - at + 1] ELSE mem[a]]
  /\ run' = [run EXCEPT !.todo = @ \ {i}, !.got[i] = None]
  /\ UNCHANGED <<req, ret>>

Finish == In("hash") /\ run.todo = {} /\ Answer("Ok")

Collect ==
  /\ ret # None
  /\ mem' = Blank /\ req' = None /\ ret' = None
  /\ UNCHANGED run

-----------------------------------------------------------------------------

CallInit == mem = Blank /\ req = None /\ ret = None /\ run = None

Asks ==
  /\ req = None
  /\ \/ \E a \in OneArgs : Ask(Hash256(a), a.mem) \/ Ask(Hash128(a), a.mem)
     \/ \E a \in FixedArgs :
          Ask(Hash256ManyFixed(a), a.mem) \/ Ask(Hash128ManyFixed(a), a.mem)
     \/ \E a \in VarArgs :
          Ask(Hash256ManyVar(a), a.mem) \/ Ask(Hash128ManyVar(a), a.mem)

CallNext ==
  \/ Asks
  \/ CheckArguments
  \/ In("table") /\ \E r \in DOMAIN run.parts : CheckPart(r)
  \/ SumUp
  \/ In("hash") /\ \E i \in run.todo : Read(i)
  \/ In("hash") /\ \E i \in run.todo : Write(i)
  \/ Finish
  \/ Collect

CallSpec == CallInit /\ [][CallNext]_calling

-----------------------------------------------------------------------------
(* Properties.                                                             *)

(* However the table was divided and in whatever order its parts were      *)
(* checked, the verdict is the one of a walk from the first message to the *)
(* last: the error of the lowest index, or the sum of the lengths as far   *)
(* as a usize goes (hash.rs check_var_table, "The error is the one of the  *)
(* lowest index").                                                         *)
MessageWrong(c, x, error) ==
  \/ error = "InvalidLength" /\ HC!TooLong(x.ptr, x.len)
  \/ error = "InvalidPointer" /\ x.len > 0 /\ (x.ptr = Null \/ HC!Meets(c, x.ptr, x.len))

TableVerdict ==
  In("table") /\ PartsDone =>
    LET verdict == Verdict(run.parts)
        place   == [i \in 0 .. req.n - 1 |-> HC!Place(req, mem, i)]
        wrong   == {i \in DOMAIN place : \E e \in Errors : MessageWrong(req, place[i], e)}
        total[k \in 0 .. req.n] == IF k = 0 THEN 0 ELSE total[k-1] + place[k-1].len
    IN  IF wrong = {}
          THEN /\ verdict.error = None
               /\ verdict.sum = Lesser(total[req.n], UsizeMax)
          ELSE MessageWrong(req, place[Min(wrong)], verdict.error)

(* The hash functions keep their promise: the digests are those of the     *)
(* messages as they were at the call although outputs are written while    *)
(* others are still being read, an error is one of what is wrong, it       *)
(* leaves the memory alone, and there is one whenever something is wrong   *)
(* (src/ffi/hash.rs; ffi/types.rs ranges_overlap, slice_in).               *)
ImplementsHashCalls == HC!Spec

=============================================================================

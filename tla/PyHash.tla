-------------------------------- MODULE PyHash -------------------------------
(***************************************************************************)
(* Batches of hashes called from Python (src/python/hash.rs, messages.rs,  *)
(* buffers.rs): a list of messages and an array for the digests, both of   *)
(* them the program's, read and written by calls that may run code of the  *)
(* program while they read (an item may export its buffer by a method),    *)
(* and that let go of the interpreter lock (GIL) while they hash.          *)
(*                                                                         *)
(* An item of the list is a bytes object (a member of Bytes, and its own   *)
(* text), "view" (the array of digests, which exports its first row) or    *)
(* "hook" (any other object: its export may run code, and fails or shows a *)
(* bytearray the program writes to).                                       *)
(***************************************************************************)
EXTENDS PyThreads

CONSTANTS
  Bytes,      \* bytes objects
  Items,      \* items that the program puts into the list
  Texts,      \* what the program writes into the bytearray
  Garbage,    \* what is found in memory that was freed or written meanwhile
  FusedMin,   \* PAR_LOAD_MIN
  MaxItems,   \* bound on the length of the list and of the array
  MaxMoves,   \* bound on the moves of the array
  MaxDepth    \* MaxDepth[t][n]: bound on calls inside calls of t, where the list has n items

ASSUME HashConstants ==
  /\ Items \subseteq Bytes \cup {"view", "hook"}
  /\ FusedMin \in Nat /\ MaxItems \in Nat /\ MaxMoves \in Nat /\ MaxDepth \in [Thread -> [0 .. MaxItems -> Nat]]

VARIABLES
  list,     \* the messages
  text,     \* content of the bytearray
  out,      \* rows of the array
  place,    \* where the array is in memory
  claimed,  \* the NumPy borrow of the array is taken
  stack,    \* stack[t]: calls of t, each started by an item of the one before
  told      \* what a call has delivered in the last step

hashing == <<gil, list, text, out, place, claimed, stack, told>>

None    == [what |-> "none"]
Nowhere == -1

(* Contents: a text, or a digest of it; its depth does not matter.         *)
Plain(x)  == [text |-> x, hashed |-> FALSE]
Digest(c) == [c EXCEPT !.hashed = TRUE]

-----------------------------------------------------------------------------
(* The calls of a thread.                                                  *)

Top(t) == Last(stack[t])

At(t, pc) == stack[t] # <<>> /\ Top(t).pc = pc

(* Code of the program runs: outside of calls, or for an item of one.      *)
InPython(t) == stack[t] = <<>> \/ At(t, "hook")

Push(t, c)    == stack' = [stack EXCEPT ![t] = Append(@, c)] /\ told' = None
Goto(t, c)    == stack' = [stack EXCEPT ![t] = Append(Front(@), c)] /\ told' = None
GotoPc(t, pc) == Goto(t, [Top(t) EXCEPT !.pc = pc])

(* The top call returns or raises, and gives the array back.               *)
Return(t, answer) ==
  /\ stack' = [stack EXCEPT ![t] = Front(@)]
  /\ claimed' = (claimed /\ ~Top(t).into)
  /\ told' = answer

(* An exception before the call has changed anything.                      *)
Refuse(t) ==
  /\ told' = None
  /\ UNCHANGED <<gil, list, text, out, place, claimed, stack>>

(* Contents of the rows when they were loaded.                             *)
Loaded(c) == [k \in DOMAIN c.rows |-> c.rows[k].content]

(* The digests are in the array or in a new one.                           *)
Deliver(t, digests) ==
  LET c == Top(t) IN
  /\ out' = IF c.into THEN digests ELSE out
  /\ Return(t, [what |-> "done", loaded |-> Loaded(c), digests |-> digests])

-----------------------------------------------------------------------------
(* The interpreter and the program.                                        *)

Enter(t) ==
  /\ gil = NoThread /\ InPython(t)
  /\ gil' = t /\ told' = None
  /\ UNCHANGED <<list, text, out, place, claimed, stack>>

Leave(t) ==
  /\ gil = t /\ InPython(t)
  /\ gil' = NoThread /\ told' = None
  /\ UNCHANGED <<list, text, out, place, claimed, stack>>

ChangeList(t) ==
  /\ gil = t /\ InPython(t)
  /\ \/ Len(list) < MaxItems /\ \E item \in Items : list' = Append(list, item)
     \/ list # <<>> /\ list' = Front(list)
     \/ \E k \in DOMAIN list, item \in Items : list' = [list EXCEPT ![k] = item]
  /\ told' = None
  /\ UNCHANGED <<gil, text, out, place, claimed, stack>>

ChangeText(t) ==
  /\ gil = t /\ InPython(t)
  /\ \E x \in Texts : text' = x
  /\ told' = None
  /\ UNCHANGED <<gil, list, out, place, claimed, stack>>

(* resize with refcheck=False keeps what fits and may move the memory.     *)
ChangeArray(t) ==
  /\ gil = t /\ InPython(t)
  /\ \/ out' = [k \in DOMAIN out |-> Plain(Other)] /\ UNCHANGED place
     \/ \E n \in 0 .. MaxItems :
          /\ out' = [k \in 1 .. n |-> IF k <= Len(out) THEN out[k] ELSE Plain(Other)]
          /\ place' \in {place, place + 1} /\ place' <= MaxMoves
  /\ told' = None
  /\ UNCHANGED <<gil, list, text, claimed, stack>>

-----------------------------------------------------------------------------
(* Lists of messages: hash256_many_var, and hash256_many_var_into.         *)

(* Mutant: the borrow is not looked at.                                    *)
OutReadyUnlent(n) == Len(out) = n

(* out_rows: the array can be written and has a row for each message.      *)
OutReady(n) == ~claimed /\ Len(out) = n

Begin(t, into, release) ==
  /\ gil = t /\ InPython(t) /\ Len(stack[t]) < MaxDepth[t][Len(list)]
  /\ into => OutReady(Len(list))
  /\ claimed' = (claimed \/ into)
  /\ Push(t, [pc |-> "read", into |-> into, release |-> release, n |-> Len(list),
              rows |-> <<>>, res |-> <<>>, wrote |-> FALSE, apart |-> place])
  /\ UNCHANGED <<gil, list, text, out, place>>

BeginRefused(t) ==
  /\ gil = t /\ InPython(t) /\ Len(stack[t]) < MaxDepth[t][Len(list)]
  /\ ~OutReady(Len(list))
  /\ Refuse(t)

AllBytes == \A k \in DOMAIN list : list[k] \in Bytes

(* hash_fused: the workers read the items that they hash; an item that is  *)
(* no bytes object counts as empty and spoils the result.                  *)
MayFuse(c) == ~c.release /\ c.n >= FusedMin

Fused(t) ==
  LET c       == Top(t)
      content == [k \in DOMAIN list |-> Plain(IF list[k] \in Bytes THEN list[k] ELSE "empty")]
      digests == [k \in DOMAIN list |-> Digest(content[k])]
  IN  /\ At(t, "read") /\ MayFuse(c)
      /\ IF AllBytes
           THEN /\ out' = IF c.into THEN digests ELSE out
                /\ Return(t, [what |-> "done", loaded |-> content, digests |-> digests])
           ELSE /\ out' = IF c.into THEN digests ELSE out
                /\ Goto(t, [c EXCEPT !.pc = "each", !.wrote = c.into])
                /\ UNCHANGED claimed
      /\ UNCHANGED <<gil, list, text, place>>

(* Mutant: references are never taken.                                     *)
HoldAlways(c) == TRUE

(* load_borrowed: the lock is kept to the end, so the list keeps the items.*)
Hold(c) == ~c.release

(* load_exact: a list of bytes objects in one pass, without Python code.   *)
ReadExact(t) ==
  LET c == Top(t) IN
  /\ At(t, "read") /\ AllBytes
  /\ Goto(t, [c EXCEPT !.pc = "loaded", !.rows = [k \in DOMAIN list |->
       [content |-> Plain(list[k]), kept |-> ~Hold(c), from |-> Nowhere]]])
  /\ UNCHANGED <<gil, list, text, out, place, claimed>>

(* Other lists, those of a subclass included.                              *)
ReadEach(t) ==
  /\ At(t, "read")
  /\ GotoPc(t, "each")
  /\ UNCHANGED <<gil, list, text, out, place, claimed>>

(* Mutant: the array is not compared with the items.                       *)
SharesNever(c) == FALSE

(* The digests go to the array while the lock is held: an item must not    *)
(* share memory with it, as it was placed when the reading began.          *)
Shares(c) == c.into /\ ~c.release /\ c.n # 0 /\ out # <<>> /\ place = c.apart

(* A reference to a bytes object or a copy of another buffer is kept; from *)
(* is the place of the array, if that was read.                            *)
Row(c, content, from) ==
  [c EXCEPT !.rows = Append(@, [content |-> content, kept |-> TRUE, from |-> from])]

(* load_inner: one item, as the list is now.                               *)
ReadItem(t) ==
  LET c == Top(t)
      k == Len(c.rows) + 1
  IN  /\ At(t, "each")
      /\ UNCHANGED <<gil, list, text, out, place>>
      /\ \/ k > Len(list) /\ GotoPc(t, "loaded") /\ UNCHANGED claimed
         \/ /\ k <= Len(list)
            /\ \/ /\ list[k] \in Bytes
                  /\ Goto(t, Row(c, Plain(list[k]), Nowhere)) /\ UNCHANGED claimed
               \/ /\ list[k] = "view" /\ Shares(c)
                  /\ Return(t, None)
               \/ /\ list[k] = "view" /\ ~Shares(c)
                  /\ Goto(t, IF out = <<>> THEN Row(c, Plain("empty"), Nowhere)
                                           ELSE Row(c, out[1], place))
                  /\ UNCHANGED claimed
               \/ list[k] = "hook" /\ GotoPc(t, "hook") /\ UNCHANGED claimed

(* The code of an item ends with a buffer, or raises.                      *)
HookEnd(t) ==
  /\ gil = t /\ At(t, "hook")
  /\ \/ Goto(t, [Row(Top(t), Plain(text), Nowhere) EXCEPT !.pc = "each"]) /\ UNCHANGED claimed
     \/ Return(t, None)
  /\ UNCHANGED <<gil, list, text, out, place>>

(* What the slice of a row points to by now.                               *)
Content(row, k) ==
  IF row.kept \/ (k <= Len(list) /\ list[k] = row.content.text)
    THEN row.content
    ELSE Plain(Garbage)

(* Mutant: the size that the array had when the call began.                *)
OutStillFitsUnchecked(c) == TRUE

(* check_out_shape.                                                        *)
OutStillFits(c) == Len(out) = c.n

(* The number of items may have changed while they were read.              *)
SizeChanged(t) ==
  /\ At(t, "loaded")
  /\ Top(t).into /\ Len(Top(t).rows) # Top(t).n
  /\ Return(t, None)
  /\ UNCHANGED <<gil, list, text, out, place>>

Proceeds(t) == At(t, "loaded") /\ (Top(t).into => Len(Top(t).rows) = Top(t).n)

(* write_direct and digests_into return at once, with the lock held and    *)
(* without a look at the array, however large it is by now.                *)
NothingToWrite(c) == c.into /\ c.n = 0

WriteNothing(t) ==
  /\ Proceeds(t) /\ NothingToWrite(Top(t))
  /\ Return(t, [what |-> "done", loaded |-> <<>>, digests |-> <<>>])
  /\ UNCHANGED <<gil, list, text, out, place>>

(* write_direct, or digests256 with the lock held.                         *)
HashDirect(t) ==
  LET c == Top(t) IN
  /\ Proceeds(t) /\ ~NothingToWrite(c) /\ ~c.release
  /\ IF c.into => OutStillFits(c)
       THEN Deliver(t, [k \in DOMAIN c.rows |-> Digest(Content(c.rows[k], k))])
       ELSE Return(t, None) /\ UNCHANGED out
  /\ UNCHANGED <<gil, list, text, place>>

(* digests_into: without the lock, into memory of the call.                *)
Detach(t) ==
  /\ Proceeds(t) /\ ~NothingToWrite(Top(t)) /\ Top(t).release
  /\ gil' = NoThread
  /\ GotoPc(t, "hash")
  /\ UNCHANGED <<list, text, out, place, claimed>>

HashOne(t) ==
  LET c == Top(t)
      k == Len(c.res) + 1
  IN  /\ At(t, "hash") /\ k <= Len(c.rows)
      /\ Goto(t, [c EXCEPT !.res = Append(@, Digest(Content(c.rows[k], k)))])
      /\ UNCHANGED <<gil, list, text, out, place, claimed>>

Attach(t) ==
  LET c == Top(t) IN
  /\ gil = NoThread
  /\ At(t, "hash") /\ Len(c.res) = Len(c.rows)
  /\ gil' = t
  /\ IF c.into => OutStillFits(c)
       THEN Deliver(t, c.res)
       ELSE Return(t, None) /\ UNCHANGED out
  /\ UNCHANGED <<list, text, place>>

-----------------------------------------------------------------------------
(* Rows of one length: hash256_many_fixed, and hash256_many_fixed_into.    *)
(* The rows are an array over the bytearray, or over the memory of out.    *)

Source(from) == [k \in DOMAIN out |-> IF from = "view" THEN out[k] ELSE Plain(text)]

Overlaps(from) == from = "view" /\ out # <<>>

(* In place, with the lock held.  Where the two overlap, the digests would *)
(* overwrite rows that come later.                                         *)
FixedDirect(t, from) ==
  LET content == Source(from)
      found   == [k \in DOMAIN out |-> IF from = "view" /\ k > 1 THEN Plain(Garbage) ELSE content[k]]
      digests == [k \in DOMAIN out |-> Digest(found[k])]
  IN  /\ gil = t /\ InPython(t) /\ Len(stack[t]) < MaxDepth[t][Len(list)]
      /\ ~claimed
      /\ IF Overlaps(from)
           THEN Refuse(t)
           ELSE /\ out' = digests
                /\ told' = [what |-> "done", loaded |-> content, digests |-> digests]
                /\ UNCHANGED <<gil, list, text, place, claimed, stack>>

(* copy_rows: the rows are copied before the lock is given up.             *)
FixedBegin(t, from, into) ==
  /\ gil = t /\ InPython(t) /\ Len(stack[t]) < MaxDepth[t][Len(list)]
  /\ into => ~claimed
  /\ claimed' = (claimed \/ into)
  /\ Push(t, [pc |-> "loaded", into |-> into, release |-> TRUE, n |-> Len(out),
              res |-> <<>>, wrote |-> FALSE, apart |-> place,
              rows |-> [k \in DOMAIN out |->
                [content |-> Source(from)[k], kept |-> TRUE,
                 from |-> IF from = "view" THEN place ELSE Nowhere]]])
  /\ UNCHANGED <<gil, list, text, out, place>>

-----------------------------------------------------------------------------

HashInit ==
  /\ gil = NoThread
  /\ list = <<>> /\ out = <<>>
  /\ text \in Texts /\ place = 0
  /\ claimed = FALSE
  /\ stack = [t \in Thread |-> <<>>]
  /\ told = None

Program(t) == ChangeList(t) \/ ChangeText(t) \/ ChangeArray(t)

HashNext ==
  \E t \in Thread :
    \/ Enter(t) \/ Leave(t) \/ Program(t)
    \/ BeginRefused(t) \/ Fused(t)
    \/ \E into, release \in BOOLEAN : Begin(t, into, release)
    \/ ReadExact(t) \/ ReadEach(t) \/ ReadItem(t) \/ HookEnd(t) \/ SizeChanged(t)
    \/ WriteNothing(t) \/ HashDirect(t) \/ Detach(t) \/ HashOne(t) \/ Attach(t)
    \/ \E from \in {"buffer", "view"} :
         FixedDirect(t, from) \/ \E into \in BOOLEAN : FixedBegin(t, from, into)

HashSpec == HashInit /\ [][HashNext]_hashing

-----------------------------------------------------------------------------
(* Properties.                                                             *)

Calls == UNION {{<<t, d>> : d \in DOMAIN stack[t]} : t \in Thread}

(* A thread inside a call holds the lock, except where it hashes without   *)
(* it and where code of the program runs; and the array has at most one    *)
(* call that is to write it, on whatever thread and at whatever depth.     *)
HashTypeOK ==
  /\ gil \in Thread \cup {NoThread}
  /\ list \in Seq(Items) /\ Len(list) <= MaxItems /\ Len(out) <= MaxItems
  /\ \A t \in Thread : ~InPython(t) /\ ~At(t, "hash") => gil = t
  /\ \A c \in Calls : stack[c[1]][c[2]].into => claimed
  /\ \A c, d \in Calls : stack[c[1]][c[2]].into /\ stack[d[1]][d[2]].into => c = d

(* What a call delivers are the digests of the messages as they were when  *)
(* they were read, in order: whatever happens to the list, to its items    *)
(* and to the array from then on ("The copy protects against other Python  *)
(* threads", src/python/buffers.rs).                                       *)
DigestsAsLoaded ==
  told.what = "done" => told.digests = [k \in DOMAIN told.loaded |-> Digest(told.loaded[k])]

(* A call that has written into the array in part reads no message from    *)
(* that memory afterwards ("That path must not read the other items from   *)
(* `out`", src/python/messages.rs hash_fused).  That memory is where the   *)
(* array was when the reading began: one that has moved since is not told  *)
(* from others by the code, see SharersRefused.                            *)
NothingReadBack ==
  \A p \in Calls :
    LET c == stack[p[1]][p[2]] IN
    c.wrote => \A row \in {c.rows[k] : k \in DOMAIN c.rows} :
                 row.from # c.apart

(* "ValueError for an item that shares memory with `out`"                  *)
(* (src/python/hash.rs hash256_many_var_into_py, for release_gil=False):   *)
(* when the digests are written, no message was read from the memory that  *)
(* the array has then.  The code compares with where it was before.        *)
SharersRefused ==
  \A t \in Thread :
    Proceeds(t) /\ Top(t).into /\ ~Top(t).release /\ OutStillFits(Top(t)) =>
      \A row \in {Top(t).rows[k] : k \in DOMAIN Top(t).rows} :
        row.from # place

(* Only the program changes the size of the array: digests are never       *)
(* written past what it is now, though its size was checked before code of *)
(* the program ran (src/python/hash.rs check_out_shape).                   *)
ArrayKeepsSize == [][Len(out') # Len(out) => \E t \in Thread : Program(t)]_hashing

=============================================================================

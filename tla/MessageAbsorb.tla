---------------------------- MODULE MessageAbsorb -----------------------------
(***************************************************************************)
(* How the kernels turn messages into rows of 32 bytes: the scalar one     *)
(* (src/api.rs absorb_with_domain), the x4 kernel for four messages of one *)
(* length and the masked x4 kernel for four messages of any lengths        *)
(* (src/core_avx2.rs).  Each pads the last row in its own way: the scalar  *)
(* one ORs overlapping words, the second copies to a buffer, the third     *)
(* builds it from masked loads.                                            *)
(*                                                                         *)
(* A byte is the index it has in its message.  A byte of a row is the set  *)
(* of bytes ORed into it.  What is mixed into the state is the row; mixing *)
(* is the same everywhere, so the state is the sequence of rows absorbed.  *)
(***************************************************************************)
EXTENDS Integers, Sequences, SequencesExt

CONSTANT LengthLists  \* lengths of the messages of the groups explored

ASSUME LengthTypes ==
  \A g \in LengthLists : g \in Seq(Nat) /\ Len(g) \in {1, 4}

VARIABLES
  lens,    \* lengths of the messages, one per lane
  kernel,
  done,    \* blocks done
  ended,   \* the kernel has returned
  head,    \* head[i]: the length the first state of lane i commits to
  rows,    \* rows[i]: what lane i has absorbed
  read     \* read[i]: the indices of message i that were read

absorbing == <<lens, kernel, done, ended, head, rows, read>>

Lanes == DOMAIN lens

(* The byte 0x80 of the padding.                                           *)
Pad == -1

Full(len) == len \div 32
Rem(len)  == len % 32

-----------------------------------------------------------------------------
(* 16-byte words.                                                          *)

Bytes(first, width) == [p \in 0 .. 15 |-> IF p < width THEN {first + p} ELSE {}]
Shl(w, k)    == [p \in 0 .. 15 |-> IF p >= k THEN w[p - k] ELSE {}]
Shr(w, k)    == [p \in 0 .. 15 |-> IF p + k <= 15 THEN w[p + k] ELSE {}]
Merged(v, w) == [p \in 0 .. 15 |-> v[p] \cup w[p]]
Keep(w, k)   == [p \in 0 .. 15 |-> IF p < k THEN w[p] ELSE {}]
Mark(k)      == [p \in 0 .. 15 |-> IF p = k THEN {Pad} ELSE {}]

RowOf(lo, hi) == [p \in 0 .. 31 |-> IF p < 16 THEN lo[p] ELSE hi[p - 16]]

FullRow(off) == [p \in 0 .. 31 |-> {off + p}]
ZeroRow      == [p \in 0 .. 31 |-> {}]

-----------------------------------------------------------------------------
(* The padded last row, three times; rem bytes of the message from off on. *)

(* Overlapping reads of the 8, 4 or 1 bytes at both ends.                  *)
LowWord(off, rem) ==
  CASE rem >= 8 -> Merged(Bytes(off, 8), Shl(Bytes(off + rem - 8, 8), rem - 8))
    [] rem >= 4 /\ rem < 8 -> Merged(Bytes(off, 4), Shl(Bytes(off + rem - 4, 4), rem - 4))
    [] rem > 0 /\ rem < 4 ->
         Keep(Merged(Merged(Bytes(off, 1), Shl(Bytes(off + rem \div 2, 1), 1)),
                     Shl(Bytes(off + rem - 1, 1), 2)), rem)
    [] rem = 0 -> Bytes(off, 0)

(* terminator_block.                                                       *)
Terminator(off, rem) ==
  IF rem >= 16
    THEN RowOf(Bytes(off, 16), Merged(Shr(Bytes(off + rem - 16, 16), 32 - rem), Mark(rem - 16)))
    ELSE LET lo == Merged(LowWord(off, rem), Mark(rem)) IN RowOf(lo, lo)

(* load_message_tails: a zeroed buffer, the bytes copied, the low half     *)
(* copied to the high one.                                                 *)
TailBuffer(off, rem) ==
  LET copied == [p \in 0 .. 31 |-> IF p < rem THEN {off + p} ELSE IF p = rem THEN {Pad} ELSE {}]
  IN  IF rem < 16 THEN [p \in 0 .. 31 |-> copied[p % 16]] ELSE copied

(* Mutant: no step back when there are no loose bytes.                     *)
LooseBytesPastEnd(rem) ==
  LET whole == 4 * (rem \div 4)
      loose == rem % 4
  IN  <<whole, whole + loose \div 2, whole + loose - 1>>

(* Where tail_row looks for the bytes after the last whole 4-byte word:    *)
(* first, middle and last.                                                 *)
LooseBytes(rem) ==
  LET whole == 4 * (rem \div 4)
      loose == rem % 4
      i0    == whole - (IF loose = 0 THEN 1 ELSE 0)
  IN  <<i0, i0 + loose \div 2, i0 + loose - 1>>

(* tail_row: whole words by a masked load, then one word of loose bytes,   *)
(* cleared beyond them, with the mark.                                     *)
TailRow(off, rem) ==
  LET whole == 4 * (rem \div 4)
      loose == rem % 4
      row   == [p \in 0 .. 31 |->
                 IF p < whole THEN {off + p}
                 ELSE IF p < whole + loose THEN {off + LooseBytes(rem)[p - whole + 1]}
                 ELSE IF p = whole + loose THEN {Pad} ELSE {}]
  IN  IF rem < 16 THEN [p \in 0 .. 31 |-> row[p % 16]] ELSE row

TailReads(off, rem) ==
  {off + p : p \in 0 .. 4 * (rem \div 4) - 1} \cup
  {off + LooseBytes(rem)[k] : k \in 1 .. 3}

-----------------------------------------------------------------------------

(* Number of rows of a message, message_blocks.                            *)
Blocks(len) == Full(len) + (IF Rem(len) # 0 \/ len = 0 THEN 1 ELSE 0)

(* load_row_var: the row a lane of the masked kernel loads for block b.    *)
RowVar(len, b) ==
  IF b < Full(len) THEN FullRow(32 * b)
  ELSE IF b = Full(len) /\ (Rem(len) # 0 \/ len = 0)
    THEN IF Rem(len) = 0 THEN RowOf(Mark(0), Mark(0)) ELSE TailRow(32 * b, Rem(len))
    ELSE ZeroRow

RowVarReads(len, b) ==
  IF b < Full(len) THEN 32 * b .. 32 * b + 31
  ELSE IF b = Full(len) /\ Rem(len) # 0 THEN TailReads(32 * b, Rem(len)) ELSE {}

(* The last block is full: no terminator round is needed.                  *)
Whole(len) == Rem(len) = 0 /\ len > 0

(* A step of every lane that takes a row.                                  *)
AbsorbRows(active, row, touched) ==
  /\ rows' = [i \in Lanes |-> IF i \in active THEN Append(rows[i], row[i]) ELSE rows[i]]
  /\ read' = [i \in Lanes |-> read[i] \cup touched[i]]

(* Scalar and equal lengths: whole blocks, then the padded one.            *)
Block ==
  /\ ~ended /\ kernel \in {"scalar", "equal"}
  /\ done < Full(lens[1])
  /\ AbsorbRows(Lanes, [i \in Lanes |-> FullRow(32 * done)], [i \in Lanes |-> 32 * done .. 32 * done + 31])
  /\ done' = done + 1
  /\ UNCHANGED <<lens, kernel, ended, head>>

Finish ==
  LET len == lens[1]
      off == 32 * Full(len)
      pad == IF kernel = "scalar" THEN Terminator(off, Rem(len)) ELSE TailBuffer(off, Rem(len))
  IN  /\ ~ended /\ kernel \in {"scalar", "equal"}
      /\ done = Full(len)
      /\ IF Whole(len)
           THEN UNCHANGED <<rows, read>>
           ELSE AbsorbRows(Lanes, [i \in Lanes |-> pad], [i \in Lanes |-> off .. len - 1])
      /\ ended' = TRUE
      /\ UNCHANGED <<lens, kernel, done, head>>

(* Blocks that every message has in full.                                  *)
CommonBlocks ==
  CHOOSE b \in {Full(lens[i]) : i \in Lanes} : \A i \in Lanes : b <= Full(lens[i])

(* Blocks of the longest message.                                          *)
AllBlocks ==
  CHOOSE b \in {Blocks(lens[i]) : i \in Lanes} : \A i \in Lanes : Blocks(lens[i]) <= b

MaskedCommon ==
  /\ ~ended /\ kernel = "masked"
  /\ done < CommonBlocks
  /\ AbsorbRows(Lanes, [i \in Lanes |-> FullRow(32 * done)], [i \in Lanes |-> 32 * done .. 32 * done + 31])
  /\ done' = done + 1
  /\ UNCHANGED <<lens, kernel, ended, head>>

(* Mutant: a lane is still active one block after its last.                *)
ActiveOneMore == {i \in Lanes : Blocks(lens[i]) >= done}

(* Lanes whose message is finished keep their state.                       *)
Active == {i \in Lanes : Blocks(lens[i]) > done}

Masked ==
  /\ ~ended /\ kernel = "masked"
  /\ done >= CommonBlocks /\ done < AllBlocks
  /\ AbsorbRows(Active, [i \in Lanes |-> RowVar(lens[i], done)],
                [i \in Lanes |-> RowVarReads(lens[i], done)])
  /\ done' = done + 1
  /\ UNCHANGED <<lens, kernel, ended, head>>

MaskedEnd ==
  /\ ~ended /\ kernel = "masked"
  /\ done = AllBlocks
  /\ ended' = TRUE
  /\ UNCHANGED <<lens, kernel, done, head, rows, read>>

(* Single messages are hashed by the scalar kernel; a group of one length  *)
(* and a group of several have their own, which commits to the length of   *)
(* the first message and to that of each.                                  *)
AbsorbInit ==
  /\ lens \in LengthLists
  /\ kernel = IF Len(lens) = 1 THEN "scalar"
              ELSE IF \A i \in DOMAIN lens : lens[i] = lens[1] THEN "equal" ELSE "masked"
  /\ done = 0
  /\ ended = FALSE
  /\ head = [i \in DOMAIN lens |-> IF kernel = "masked" THEN lens[i] ELSE lens[1]]
  /\ rows = [i \in DOMAIN lens |-> <<>>]
  /\ read = [i \in DOMAIN lens |-> {}]

AbsorbNext == Block \/ Finish \/ MaskedCommon \/ Masked \/ MaskedEnd

AbsorbSpec == AbsorbInit /\ [][AbsorbNext]_absorbing

-----------------------------------------------------------------------------
(* Properties.                                                             *)

(* The comment of absorb_with_domain and of finalize_terminator as a       *)
(* definition: rows of 32 bytes, partial input terminated with 0x80 and    *)
(* padded with zeros, the low half of a short last row repeated.           *)
Padded(len) ==
  [k \in 1 .. Blocks(len) |->
    LET off  == 32 * (k - 1)
        fold == len - off < 16
        at(p) == off + (IF fold THEN p % 16 ELSE p)
    IN  [p \in 0 .. 31 |->
          IF at(p) < len THEN {at(p)} ELSE IF at(p) = len THEN {Pad} ELSE {}]]

(* Every kernel absorbs the padded message and its length: the digest of a *)
(* message does not show which kernel, and next to which other messages,   *)
(* hashed it.                                                              *)
AbsorbsPadded ==
  \A i \in Lanes :
    /\ head[i] = lens[i]
    /\ IsPrefix(rows[i], Padded(lens[i]))
    /\ ended => rows[i] = Padded(lens[i])

(* The SAFETY contracts of the x4 kernels: nothing outside a message is    *)
(* read ("reads exactly rem bytes", "masked-out words are not read", "the  *)
(* indices stay inside the message").                                      *)
ReadsInside == \A i \in Lanes : read[i] \subseteq 0 .. lens[i] - 1

=============================================================================

------------------------------- MODULE CSlices -------------------------------
(***************************************************************************)
(* Pointers and lengths a C caller passes, src/ffi/types.rs.  An address   *)
(* is a number below 2^64 and 0 is null; a slice is at most isize::MAX     *)
(* bytes long.                                                             *)
(***************************************************************************)
EXTENDS Integers, SequencesExt

CONSTANTS
  UsizeMax, IsizeMax,   \* 2^64 - 1 and 2^63 - 1
  ByteMod,              \* values of a byte, 256
  WordLen,              \* bytes of a pointer or a length, 8
  None

ASSUME SizesOrdered == UsizeMax \in Nat /\ IsizeMax \in 0 .. UsizeMax

Address == 0 .. UsizeMax
Null    == 0

Lesser(x, y) == IF x < y THEN x ELSE y

(* Mutant: the sum leaves the usize.                                       *)
SaturatingAddWide(x, y) == x + y

SaturatingAdd(x, y) == Lesser(x + y, UsizeMax)

(* fits_slice of `len` elements; a product that leaves usize does not fit. *)
FitsSlice(len, size) == len * size <= IsizeMax

(* slice_in, slice_out and the buf_ functions give a slice.                *)
SliceOk(ptr, len, size, align) ==
  len = 0 \/ (ptr # Null /\ ptr % align = 0 /\ FitsSlice(len, size))

(* Mutant: only the start of one range is looked for in the other.         *)
RangesOverlapOneSided(a, aLen, b, bLen) ==
  IF aLen = 0 \/ bLen = 0 THEN "apart"
  ELSE IF a + aLen > UsizeMax \/ b + bLen > UsizeMax THEN "overflow"
  ELSE IF b <= a /\ a < b + bLen THEN "overlap" ELSE "apart"

(* ranges_overlap: Some(false), Some(true) or None.                        *)
RangesOverlap(a, aLen, b, bLen) ==
  IF aLen = 0 \/ bLen = 0 THEN "apart"
  ELSE IF a + aLen > UsizeMax \/ b + bLen > UsizeMax THEN "overflow"
  ELSE IF a < b + bLen /\ b < a + aLen THEN "overlap" ELSE "apart"

-----------------------------------------------------------------------------
(* Memory: a byte at every address of its domain.                          *)

Bytes(ptr, len) == ptr .. ptr + len - 1

Content(m, ptr, len) == [k \in 1 .. len |-> m[ptr + k - 1]]

(* The pointer or length at an address, little endian.                     *)
WordAt(m, a) ==
  LET w[k \in 0 .. WordLen] ==
        IF k = 0 THEN 0 ELSE ByteMod * w[k-1] + m[a + WordLen - k]
  IN  w[WordLen]

-----------------------------------------------------------------------------
(* Checks in their order: each is an error or None, the first error counts.*)

FirstError(checks) ==
  LET failed == {i \in DOMAIN checks : checks[i] # None}
  IN  IF failed = {} THEN None ELSE checks[Min(failed)]

LengthIf(wrong)  == IF wrong THEN "InvalidLength" ELSE None
PointerIf(wrong) == IF wrong THEN "InvalidPointer" ELSE None

OverlapError(a, aLen, b, bLen) ==
  LET found == RangesOverlap(a, aLen, b, bLen)
  IN  FirstError(<<PointerIf(found = "overlap"), LengthIf(found = "overflow")>>)

SliceError(ptr, len, size, align) == PointerIf(~SliceOk(ptr, len, size, align))

=============================================================================

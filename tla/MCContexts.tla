------------------------------ MODULE MCContexts ------------------------------
(***************************************************************************)
(* Constants for the TLC run of Contexts.  A usize has 8 bits here: two    *)
(* lanes fit a vector and three do not.                                    *)
(***************************************************************************)
EXTENDS Contexts

CONSTANTS p1, p2, x1, pb, xb

MCKindOf(v) ==
  IF v \in {p1, p2} THEN "Prng" ELSE IF v = x1 THEN "Xof"
  ELSE IF v = pb THEN "PrngBatch" ELSE "XofBatch"

Addresses == Permutations(Cell)

(* No call looks at the status of an earlier one. *)
WithoutStatus == <<heap, ptr, dangling, lost, buf>>

MCState == 0 .. 1
MCStreamStep(s, n) == (s + n + 1) % 2
MCForkLane(d, s, id) == (s + id + IF d = "xof" THEN 1 ELSE 0) % 2
MCAbsorbed(m) == m % 2

(* The empty message, one of a byte, a null pointer with a length, a       *)
(* length above isize::MAX.                                                *)
MCMessageArgs ==
  {[ptr |-> 0, len |-> 0, m |-> 0], [ptr |-> 8, len |-> 1, m |-> 1],
   [ptr |-> 0, len |-> 1, m |-> 1], [ptr |-> 8, len |-> 200, m |-> 1]}

(* Lists that are there, with both pointers; a null, a misaligned pointer; *)
(* a length that no array has.                                             *)
MCIdArrays ==
  {[hi |-> 8, lo |-> 8, n |-> Len(list), list |-> list] : list \in {<<1, 2>>, <<1, 1, 2>>}}
  \cup {[hi |-> 0, lo |-> 0, n |-> 0, list |-> <<>>],
        [hi |-> 8, lo |-> 0, n |-> 2, list |-> <<1, 2>>],
        [hi |-> 12, lo |-> 8, n |-> 2, list |-> <<1, 2>>],
        [hi |-> 8, lo |-> 8, n |-> 255, list |-> <<>>]}

MCPathArrays ==
  {[hi |-> 8, lo |-> 8, n |-> 2, list |-> <<2, 1>>], [hi |-> 0, lo |-> 0, n |-> 0, list |-> <<>>],
   [hi |-> 8, lo |-> 0, n |-> 2, list |-> <<2, 1>>]}

MCMessageArrays ==
  {[ptrs |-> 8, lens |-> 8, n |-> 2, list |-> <<[ptr |-> 8, len |-> 1, m |-> 1], x>>] :
     x \in MCMessageArgs}
  \cup {[ptrs |-> 8, lens |-> 8, n |-> 3,
         list |-> [i \in 1 .. 3 |-> [ptr |-> 0, len |-> 0, m |-> 0]]],
        [ptrs |-> 8, lens |-> 0, n |-> 1, list |-> <<[ptr |-> 0, len |-> 0, m |-> 0]>>],
        [ptrs |-> 8, lens |-> 8, n |-> 255, list |-> <<>>]}

(* Nothing yet; a snapshot of a PRNG with a cursor it cannot have.         *)
MCFirstBytes ==
  {[version |-> 0, kind |-> "Prng", cursor |-> 0, count |-> 0, lanes |-> <<>>, from |-> None],
   [version |-> 1, kind |-> "Prng", cursor |-> 33, count |-> 1,
    lanes |-> <<[s |-> 0, step |-> 0]>>, from |-> None]}

=============================================================================

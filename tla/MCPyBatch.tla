------------------------------ MODULE MCPyBatch -------------------------------
(* Constants of PyBatch for TLC.                                           *)
EXTENDS PyBatch, TLC

CONSTANTS t1, t2, b, s, a1

MCWidth == [o \in Object |-> IF o = b THEN 2 ELSE 1]

(* A call of two steps, and then one of a step; the stream fills an array. *)
MCMaxUnits == [o \in Object |-> IF o = b THEN 6 ELSE 2]

(* The second shape holds as many units as the first one.                  *)
MCShapes == {<<1, 2>>, <<2, 1>>, <<2, 2>>, <<0, 2>>}

Words ==
  [shape |-> <<1, 2>>, data |-> <<Other, Other>>, writable |-> TRUE,
   contiguous |-> TRUE, aligned |-> TRUE, kind |-> "words"]

(* Words, also read-only or at an odd address, or bytes.                   *)
MCArrays ==
  {[x \in Array |-> array] :
    array \in {Words, [Words EXCEPT !.writable = FALSE], [Words EXCEPT !.aligned = FALSE],
              [Words EXCEPT !.kind = "bytes"]}}

(* Threads differ in nothing but their names.                              *)
MCThreads == Permutations(Thread)

=============================================================================

------------------------------- MODULE MCCHash -------------------------------
(***************************************************************************)
(* Constants for the TLC run of CHash: bytes of seven values and words of  *)
(* two, so that addresses end at 48 and slices at 24 bytes; memory from 1  *)
(* to 24; digests of two bytes and of one.  The table is checked by parts  *)
(* from three messages on.                                                 *)
(***************************************************************************)
EXTENDS CHash

MCBlank == [a \in 1 .. 24 |-> (a * a + 2) % 7]

(* Depends on the order of the bytes and on the length.                    *)
MCDigest(size, message) ==
  LET h == FoldLeft(LAMBDA x, b : (x * 3 + b + 1) % 49, Len(message), message)
  IN  [k \in 1 .. size |-> IF k = 1 THEN h % 7 ELSE h \div 7]

Outs == 0 .. 24

MCOneArgs ==
  [data : {0, 1, 5, 12, 23, 24, 47, 48}, len : {0, 1, 2, 3, 12, 24, 25, 48}, out : Outs,
   mem : {MCBlank}]

MCFixedArgs ==
  [data : {0, 5, 47}, n : {0, 2, 3, 25, 48}, len : {0, 1, 2, 3, 8, 9, 12, 13, 48}, out : Outs,
   mem : {MCBlank}]

(* The memory after words were stored one behind the other.                *)
Stored(m, at, words) ==
  [a \in DOMAIN m |->
     IF a \notin Bytes(at, 2 * Len(words)) THEN m[a]
     ELSE LET word == words[((a - at) \div 2) + 1]
          IN  IF (a - at) % 2 = 0 THEN word % 7 ELSE word \div 7]

(* Messages apart, empty and null, one and the same, over the tables, too  *)
(* long, past the end, and several that are wrong in different ways.       *)
MCMessages ==
  {<<>>, <<<<11, 2>>>>, <<<<20, 2>>, <<11, 3>>>>, <<<<0, 0>>, <<12, 1>>>>,
   <<<<0, 2>>, <<12, 25>>>>, <<<<12, 25>>, <<0, 2>>>>, <<<<47, 3>>, <<0, 1>>>>,
   <<<<1, 17>>, <<1, 17>>, <<1, 17>>>>, <<<<18, 1>>, <<0, 1>>, <<18, 25>>>>,
   <<<<18, 1>>, <<47, 9>>, <<0, 2>>>>, <<<<20, 3>>, <<18, 2>>, <<0, 0>>>>,
   <<<<1, 3>>, <<22, 2>>, <<48, 0>>, <<2, 16>>>>, <<<<0, 0>>, <<22, 2>>, <<0, 2>>, <<2, 48>>>>,
   <<<<24, 1>>, <<22, 2>>, <<48, 1>>, <<0, 5>>>>}

MCVar(ptrs, lens, messages, out) ==
  [ptrs |-> ptrs, lens |-> lens, n |-> Len(messages), out |-> out,
   mem |-> Stored(Stored(MCBlank, ptrs, [i \in DOMAIN messages |-> messages[i][1]]),
                  lens, [i \in DOMAIN messages |-> messages[i][2]])]

MCVarArgs ==
  {MCVar(ptrs, lens, messages, out) :
     ptrs \in {0, 2, 3, 16}, lens \in {0, 8, 9, 10}, messages \in MCMessages, out \in Outs}
  \cup {MCVar(46, 8, messages, out) : messages \in MCMessages, out \in {0, 1, 20}}
  \cup {MCVar(8, 46, messages, out) : messages \in MCMessages, out \in {0, 1, 20}}
  \cup {[ptrs |-> 2, lens |-> 8, n |-> n, out |-> 1, mem |-> MCBlank] : n \in {25, 48}}

=============================================================================

------------------------------ MODULE PySerial -------------------------------
(***************************************************************************)
(* What a Python program is promised of its streams and batches            *)
(* (src/python/prng.rs, src/python/xof.rs): every call takes effect at     *)
(* once, whatever other threads do while it runs.  An object is a sequence *)
(* of units of output and a position in it; a batch moves by whole steps   *)
(* of Width[o] units.  Arrays belong to the program, which may change them *)
(* between any two calls.                                                  *)
(***************************************************************************)
EXTENDS Integers, Sequences

CONSTANTS Thread, Object, Batch, Array, Width, Sizes

VARIABLES
  at,    \* at[o]: units of output that o has made
  arr,   \* arr[a]: an array of the program
  said   \* said[t]: answer to the call of t that has returned last

vars == <<at, arr, said>>

Units(o, from, n) == [k \in 1 .. n |-> <<o, from + k - 1>>]

Answer(t, answer) == said' = [said EXCEPT ![t] = answer]

(* The output is in the array: in row s and column i of it, block s of     *)
(* lane i of a batch.                                                      *)
Filled(t, o, a) ==
  LET n == Len(arr[a].data) IN
  /\ o \in Batch => \E steps \in Sizes : arr[a].shape = <<steps, Width[o]>> /\ n = steps * Width[o]
  /\ at' = [at EXCEPT ![o] = @ + n]
  /\ arr' = [arr EXCEPT ![a].data = Units(o, at[o], n)]
  /\ Answer(t, [what |-> "done"])

(* The output is a new object of Python.                                   *)
Given(t, o, n) ==
  /\ at' = [at EXCEPT ![o] = @ + n]
  /\ Answer(t, [what |-> "units", units |-> Units(o, at[o], n)])
  /\ UNCHANGED arr

(* The documented exception: an error after the output was made.           *)
Lost(t, o, n) ==
  /\ at' = [at EXCEPT ![o] = @ + n]
  /\ Answer(t, [what |-> "lost"])
  /\ UNCHANGED arr

Refused(t) == Answer(t, [what |-> "error"]) /\ UNCHANGED <<at, arr>>

(* A copy, a fork, a lane or a snapshot of o.                              *)
Seen(t, o) == Answer(t, [what |-> "state", at |-> at[o]]) /\ UNCHANGED <<at, arr>>

Kept(t) == Answer(t, [what |-> "done"]) /\ UNCHANGED <<at, arr>>

Program ==
  /\ \E a \in Array : \A b \in Array \ {a} : arr'[b] = arr[b]
  /\ \E t \in Thread : Answer(t, [what |-> "done"])
  /\ UNCHANGED at

Init ==
  /\ at = [o \in Object |-> 0]
  /\ said = [t \in Thread |-> [what |-> "done"]]

Next ==
  \/ \E t \in Thread : Refused(t) \/ Kept(t)
  \/ \E t \in Thread, o \in Object : Seen(t, o)
  \/ \E t \in Thread, o \in Object, a \in Array : Filled(t, o, a)
  \/ \E t \in Thread, o \in Object, k \in Sizes : Given(t, o, k * Width[o]) \/ Lost(t, o, k * Width[o])
  \/ Program

Spec == Init /\ [][Next]_vars

=============================================================================

------------------------------ MODULE PyThreads -------------------------------
(***************************************************************************)
(* What the calls from Python share (src/python/): the threads of the      *)
(* program, and the interpreter lock (GIL) that they take turns with.      *)
(***************************************************************************)
EXTENDS Integers, Sequences, SequencesExt

CONSTANTS
  Thread, NoThread,
  Other           \* what the program writes into arrays

ASSUME NoThreadApart == NoThread \notin Thread

VARIABLE gil      \* who holds the lock

=============================================================================

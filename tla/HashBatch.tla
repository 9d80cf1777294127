------------------------------ MODULE HashBatch -------------------------------
(***************************************************************************)
(* What a batch of hashes promises (ARCHITECTURE.md, and the comments of   *)
(* src/hash.rs): N messages give N digests, each at the position of its    *)
(* message, whatever the backend, the grouping and the threads.  A call    *)
(* for blocks in parallel may decline instead and then has written         *)
(* nothing.                                                                *)
(***************************************************************************)
EXTENDS Naturals, Sequences

CONSTANTS
  Calls,   \* calls explored: [kind, lens], lens the lengths of the messages
  NoCall

VARIABLES
  asked,   \* the call under way
  answer   \* what the last one returned, while none runs

vars == <<asked, answer>>

NoAnswer == [taken |-> FALSE, out |-> <<>>]

Init == asked = NoCall /\ answer = NoAnswer

Ask(c) == asked = NoCall /\ asked' = c /\ answer' = NoAnswer

(* The digest of message i is written i.                                   *)
Digests ==
  /\ asked # NoCall
  /\ answer' = [taken |-> TRUE, out |-> [i \in 1 .. Len(asked.lens) |-> i]]
  /\ asked' = NoCall

Decline(c) ==
  /\ asked = NoCall /\ c.kind = "blocks"
  /\ answer' = NoAnswer
  /\ UNCHANGED asked

Next == Digests \/ \E c \in Calls : Ask(c) \/ Decline(c)

Spec == Init /\ [][Next]_vars

=============================================================================

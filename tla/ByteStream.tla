----------------------------- MODULE ByteStream -----------------------------
(***************************************************************************)
(* What LustroPrng and LustroXof promise (ARCHITECTURE.md, section 10,     *)
(* "Stream semantics" and "Fork semantics"), free of any buffer: a stream  *)
(* is an endless sequence of bytes fixed by its origin, and an object is a *)
(* position in one.  A read returns the next bytes and moves the position  *)
(* past them, next_block skips to the next multiple of the block length    *)
(* first, a snapshot is the position itself, and fork depends on nothing   *)
(* but the block that the position lies in.  StreamState implements it.    *)
(***************************************************************************)
EXTENDS Naturals

CONSTANTS
  Handle,            \* slots that hold a stream object
  Store,             \* slots that hold an exported snapshot
  Seeds, Ids,        \* arguments of LustroPrng::new and fork
  Messages,          \* arguments of LustroXof::new
  ReadLens,          \* lengths requested from fill_bytes
  BlockLen,          \* bytes of an output block
  MaxBlocks,         \* bound: blocks explored per stream
  ForkLane(_, _, _), \* state of the child of (domain, state, id)
  Absorbed(_),       \* state of an absorbed message
  BlockAt(_, _),     \* state after so many blocks of the stream of an origin
  None

VARIABLES
  at,      \* the position of each object
  saved,   \* the position each snapshot stands for
  ret      \* bytes returned by the last operation that completed

vars == <<at, saved, ret>>

NoBytes == [i \in {} |-> 0]

(* Byte p of the stream of `origin`, counting from 0. *)
ByteAt(origin, p) == <<BlockAt(origin, p \div BlockLen + 1), p % BlockLen>>

Bytes(origin, p, n) == [i \in 0 .. n-1 |-> ByteAt(origin, p + i)]

(* Blocks begun before position p. *)
BlocksBefore(p) == (p + BlockLen - 1) \div BlockLen

Start(dom, s) == [dom |-> dom, origin |-> s, pos |-> 0]

Put(h, stream) ==
  /\ at[h] = None
  /\ at' = [at EXCEPT ![h] = stream]
  /\ ret' = NoBytes
  /\ UNCHANGED saved

-----------------------------------------------------------------------------

Init ==
  /\ at = [h \in Handle |-> None]
  /\ saved = [k \in Store |-> None]
  /\ ret = NoBytes

NewPrng(h, seed, id) == Put(h, Start("prng", ForkLane("prng", seed, id)))

NewXof(h, m) == Put(h, Start("xof", Absorbed(m)))

Read(h, n) ==
  /\ at[h] # None
  /\ at[h].pos + n <= MaxBlocks * BlockLen
  /\ ret' = Bytes(at[h].origin, at[h].pos, n)
  /\ at' = [at EXCEPT ![h].pos = @ + n]
  /\ UNCHANGED saved

NextBlock(h) ==
  /\ at[h] # None
  /\ BlocksBefore(at[h].pos) < MaxBlocks
  /\ LET p == BlocksBefore(at[h].pos) * BlockLen
     IN  /\ ret' = Bytes(at[h].origin, p, BlockLen)
         /\ at' = [at EXCEPT ![h].pos = p + BlockLen]
  /\ UNCHANGED saved

Fork(h, child, id) ==
  /\ at[h] # None
  /\ LET latest == BlockAt(at[h].origin, BlocksBefore(at[h].pos))
     IN  Put(child, Start(at[h].dom, ForkLane(at[h].dom, latest, id)))

Clone(h, copy) == at[h] # None /\ Put(copy, at[h])

Export(h, k) ==
  /\ at[h] # None
  /\ saved' = [saved EXCEPT ![k] = at[h]]
  /\ ret' = NoBytes
  /\ UNCHANGED at

Import(k, h) == saved[k] # None /\ Put(h, saved[k])

Drop(h) ==
  /\ at[h] # None
  /\ at' = [at EXCEPT ![h] = None]
  /\ ret' = NoBytes
  /\ UNCHANGED saved

Crash ==
  /\ at' = [h \in Handle |-> None]
  /\ ret' = NoBytes
  /\ UNCHANGED saved

Next ==
  \/ \E h \in Handle, seed \in Seeds, id \in Ids : NewPrng(h, seed, id)
  \/ \E h \in Handle, m \in Messages : NewXof(h, m)
  \/ \E h \in Handle, n \in ReadLens : Read(h, n)
  \/ \E h \in Handle : NextBlock(h)
  \/ \E h, child \in Handle, id \in Ids : Fork(h, child, id)
  \/ \E h, copy \in Handle : Clone(h, copy)
  \/ \E h \in Handle, k \in Store : Export(h, k) \/ Import(k, h)
  \/ \E h \in Handle : Drop(h)
  \/ Crash

Spec == Init /\ [][Next]_vars

=============================================================================

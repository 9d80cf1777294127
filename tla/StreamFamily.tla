---------------------------- MODULE StreamFamily -----------------------------
(***************************************************************************)
(* What the batch API promises (ARCHITECTURE.md, section 10, "Batch        *)
(* semantics", "Fork semantics", "Derive-path semantics" and "Snapshot     *)
(* format"), free of state words and of bytes: a stream is the line it     *)
(* descends from and the number of blocks it has given; a batch is a       *)
(* sequence of streams, each on its own; a snapshot is the batch itself.   *)
(* LaneBatch implements it.                                                *)
(***************************************************************************)
EXTENDS Integers, Sequences

CONSTANTS
  Batch, Solo, Store,   \* places for batches, single streams and snapshots
  Seeds, IdLists, MessageLists, Paths, Firsts, Counts, StepCounts,
  IdMod,                \* 2^128, the modulus of the identifiers
  MaxBlocks,            \* bound: blocks taken from a stream
  PrepareBase(_, _), BranchStream(_, _), Absorbed(_), BlockAt(_, _),
  None

VARIABLES
  at,     \* at[b]: the batch in b
  solo,   \* solo[h]: the single stream in h
  kept,   \* kept[k]: the snapshot in k
  ret     \* blocks the last operation returned

vars == <<at, solo, kept, ret>>

Gives(blocks) == [error |-> None, blocks |-> blocks]

Nothing == Gives([x \in {} |-> 0])

-----------------------------------------------------------------------------
(* A line is a root and the forks from it to the stream: fork number j was *)
(* made with an identifier after the parent had given so many blocks.      *)

Root(dom, of, id) == [line |-> [dom |-> dom, of |-> of, id |-> id, forks |-> <<>>], made |-> 0]

Son(stream, id) ==
  [line |-> [stream.line EXCEPT !.forks = Append(@, [after |-> stream.made, id |-> id])],
   made |-> 0]

(* The stream at the end of a path.                                        *)
Descendant(stream, path) ==
  LET d[j \in 0 .. Len(path)] == IF j = 0 THEN stream ELSE Son(d[j-1], path[j])
  IN  d[Len(path)]

(* The state that stands at the beginning of a line.                       *)
Origin(line) ==
  LET fork(s, id) == BranchStream(PrepareBase(line.dom, s), id)
      o[j \in 0 .. Len(line.forks)] ==
        IF j = 0
          THEN IF line.dom = "xof" THEN Absorbed(line.of) ELSE fork(line.of, line.id)
          ELSE fork(BlockAt(o[j-1], line.forks[j].after), line.forks[j].id)
  IN  o[Len(line.forks)]

(* Block k of a stream, counting from the one it gives next.               *)
Upcoming(stream, k) == BlockAt(Origin(stream.line), stream.made + k + 1)

RangeIds(first, n) == [i \in 1 .. n |-> (first + i - 1) % IdMod]

-----------------------------------------------------------------------------

Init ==
  /\ at = [b \in Batch |-> None]
  /\ solo = [h \in Solo |-> None]
  /\ kept = [k \in Store |-> None]
  /\ ret = Nothing

Put(b, dom, streams) ==
  /\ at[b] = None
  /\ at' = [at EXCEPT ![b] = [dom |-> dom, streams |-> streams]]
  /\ ret' = Nothing
  /\ UNCHANGED <<solo, kept>>

PutSolo(h, stream) ==
  /\ solo[h] = None
  /\ solo' = [solo EXCEPT ![h] = stream]
  /\ ret' = Nothing
  /\ UNCHANGED <<at, kept>>

Prngs(seed, ids) == [i \in DOMAIN ids |-> Root("prng", seed, ids[i])]
Xofs(messages)   == [i \in DOMAIN messages |-> Root("xof", messages[i], None)]

DerivePath(b, dom, roots, path) ==
  Put(b, dom, [i \in DOMAIN roots |-> Descendant(roots[i], path)])

DeriveSolo(h, dom, root, path) == PutSolo(h, Descendant(root, path))

Fork(b, c, ids) ==
  /\ at[b] # None
  /\ Len(ids) = Len(at[b].streams)
  /\ Put(c, at[b].dom, [i \in DOMAIN ids |-> Son(at[b].streams[i], ids[i])])

(* Child j of stream i, counted from 0, is number i * Len(ids) + j.        *)
ForkMany(b, c, ids) ==
  /\ at[b] # None
  /\ LET m == Len(ids)
         n == Len(at[b].streams)
     IN  Put(c, at[b].dom,
             [x \in 1 .. n * m |->
                Son(at[b].streams[((x - 1) \div m) + 1], ids[((x - 1) % m) + 1])])

Clone(b, c) == at[b] # None /\ Put(c, at[b].dom, at[b].streams)

Lane(b, i, h) ==
  /\ at[b] # None
  /\ i \in DOMAIN at[b].streams
  /\ PutSolo(h, at[b].streams[i])

(* Block s * n + i is block s of stream i, counted from 0.                 *)
Blocks(b, steps) ==
  /\ at[b] # None
  /\ LET streams == at[b].streams
         n == Len(streams)
     IN  /\ ret' = Gives([x \in 0 .. n * steps - 1 |->
                            Upcoming(streams[(x % n) + 1], x \div n)])
         /\ at' = [at EXCEPT ![b].streams =
                     [i \in DOMAIN streams |-> [streams[i] EXCEPT !.made = @ + steps]]]
  /\ UNCHANGED <<solo, kept>>

SoloBlock(h) ==
  /\ solo[h] # None
  /\ ret' = Gives([x \in {0} |-> Upcoming(solo[h], 0)])
  /\ solo' = [solo EXCEPT ![h].made = @ + 1]
  /\ UNCHANGED <<at, kept>>

Export(b, k) ==
  /\ at[b] # None
  /\ kept' = [kept EXCEPT ![k] = at[b]]
  /\ ret' = Nothing
  /\ UNCHANGED <<at, solo>>

Import(k, b) == kept[k] # None /\ Put(b, kept[k].dom, kept[k].streams)

(* An operation that fails changes nothing.                                *)
Fail(error) == ret' = [Nothing EXCEPT !.error = error] /\ UNCHANGED <<at, solo, kept>>

(* The end of the process; a snapshot that was being written is lost.      *)
Crash ==
  /\ at' = [b \in Batch |-> None]
  /\ solo' = [h \in Solo |-> None]
  /\ \E lost \in SUBSET Store : kept' = [k \in Store |-> IF k \in lost THEN None ELSE kept[k]]
  /\ ret' = Nothing

Next ==
  \/ \E error \in {"panic", "size_overflow", "reserve", "empty_path", "invalid_length",
                   "invalid_kind"} : Fail(error)
  \/ \E b \in Batch, seed \in Seeds, ids \in IdLists : Put(b, "prng", Prngs(seed, ids))
  \/ \E b \in Batch, seed \in Seeds, first \in Firsts, n \in Counts :
       Put(b, "prng", Prngs(seed, RangeIds(first, n)))
  \/ \E b \in Batch, messages \in MessageLists : Put(b, "xof", Xofs(messages))
  \/ \E b \in Batch, path \in Paths :
       \/ \E seed \in Seeds, ids \in IdLists : DerivePath(b, "prng", Prngs(seed, ids), path)
       \/ \E messages \in MessageLists : DerivePath(b, "xof", Xofs(messages), path)
  \/ \E h \in Solo, path \in Paths \ {<<>>} :
       \/ \E seed \in Seeds :
            DeriveSolo(h, "prng", Root("prng", seed, Head(path)), Tail(path))
       \/ \E messages \in MessageLists : \E i \in DOMAIN messages :
            DeriveSolo(h, "xof", Root("xof", messages[i], None), path)
  \/ \E b, c \in Batch, ids \in IdLists : Fork(b, c, ids) \/ ForkMany(b, c, ids)
  \/ \E b, c \in Batch, first \in Firsts :
       at[b] # None /\ Fork(b, c, RangeIds(first, Len(at[b].streams)))
  \/ \E b, c \in Batch : Clone(b, c)
  \/ \E b \in Batch, h \in Solo : at[b] # None /\ \E i \in DOMAIN at[b].streams : Lane(b, i, h)
  \/ \E b \in Batch, steps \in StepCounts : Blocks(b, steps)
  \/ \E h \in Solo : SoloBlock(h)
  \/ \E b \in Batch, k \in Store : Export(b, k) \/ Import(k, b)
  \/ Crash

Spec == Init /\ [][Next]_vars

=============================================================================

----------------------------- MODULE HashDispatch -----------------------------
(***************************************************************************)
(* Hashing many messages (src/dispatch.rs dispatch_hash*, src/dispatch/    *)
(* params.rs, hash_fixed_x4 and hash_var_x4 of src/core_avx2.rs), from the *)
(* call to its return: backend and plan, the work items of the pool, and   *)
(* in each of them the groups of four messages of the vector kernels,      *)
(* which are regrouped by block count when the lengths differ.             *)
(*                                                                         *)
(* A message is its position in the call and its length; what the kernels  *)
(* make of the bytes is MessageAbsorb.  The digest of message m is m.      *)
(***************************************************************************)
EXTENDS Integers, FiniteSets, Sequences, SequencesExt

CONSTANTS
  Worker,         \* threads of the pool
  Caller,         \* the thread that calls
  Calls,          \* calls explored: [kind, lens]
  Params(_, _),   \* HashParams of a kind and a backend: [messages, bytes, tasks]
  MinMtMessages,  \* HASH_AVX2_VAR_MIN_MT_MESSAGES
  TotalCap,       \* TOTAL_LEN_CAP
  BlockMessages,  \* BLOCK
  Window,         \* VAR_WINDOW
  SampleGroups,   \* VAR_SAMPLE_GROUPS
  CountingMax,    \* COUNTING_SORT_MAX_BLOCKS
  MinFillPct,     \* MIN_GROUP_FILL_PCT
  NoCall

Backends == {"scalar", "avx2"}

(* fixed: one length, back to back; var: slices; raw: a table of the C     *)
(* interface; blocks: messages that are turned into slices block by block  *)
(* and only hashed in parallel.                                            *)
Kinds == {"fixed", "var", "raw", "blocks"}

ASSUME HashConstants ==
  /\ IsFiniteSet(Worker) /\ Worker # {} /\ Caller \notin Worker
  /\ \A c \in Calls :
       /\ c \in [kind : Kinds, lens : Seq(Nat)]
       /\ c.kind = "fixed" => \A i \in DOMAIN c.lens : c.lens[i] = c.lens[1]
  /\ Window \in Nat /\ Window % 4 = 0 /\ Window > 0 /\ BlockMessages \in Nat \ {0}
  /\ {MinMtMessages, TotalCap, SampleGroups, CountingMax, MinFillPct} \subseteq Nat
  /\ \A k \in Kinds, b \in Backends :
       /\ Params(k, b) \in [messages : Nat, bytes : Nat, tasks : Nat \ {0}]
       /\ Params(k, b).bytes <= TotalCap

(* A call, as the caller and as the dispatcher see it, is not NoCall.      *)
ASSUME NoCallApart ==
  /\ NoCall \notin Calls
  /\ NoCall \notin [kind : Kinds, lens : Seq(Nat), backend : Backends, hands : {Worker, {Caller}}]

VARIABLES
  mode,    \* what the process and its machine allow, fixed at its start
  call,    \* the call under way, with its plan
  items,   \* work items nobody has taken
  job,     \* job[w]: the groups thread w has still to hash
  out,     \* out[i]: the digest at position i, 0 before it is written
  answer   \* what the last call returned, while none runs

hashing == <<mode, call, items, job, out, answer>>

Hands == Worker \cup {Caller}

Larger(a, b) == IF a > b THEN a ELSE b
Lesser(a, b) == IF a < b THEN a ELSE b
DivCeil(a, b) == (a + b - 1) \div b

Cut(s, k) ==
  [c \in 1 .. DivCeil(Len(s), k) |-> SubSeq(s, (c - 1) * k + 1, Lesser(c * k, Len(s)))]

-----------------------------------------------------------------------------
(* The plan.                                                               *)

Threads == Cardinality(Worker)

(* total_len stops at the cap; other callers know the total, or say that   *)
(* it does not matter.                                                     *)
TotalLen(c) ==
  LET add(sum, len) == IF sum >= TotalCap THEN sum ELSE sum + len
  IN  IF c.kind = "blocks" THEN TotalCap ELSE FoldLeft(add, 0, c.lens)

ChooseBackend(c) ==
  IF mode.simd /\ Len(c.lens) >= 4 /\ ~(c.kind = "fixed" /\ c.lens[1] = 0)
    THEN "avx2" ELSE "scalar"

(* HashParams::parallel_for and hash_var_parallel, within the settings.    *)
PlansPool(c) ==
  LET b == ChooseBackend(c)
      n == Len(c.lens)
  IN  /\ mode.parallel
      /\ n >= 2
      /\ n >= Params(c.kind, b).messages \/ TotalLen(c) >= Params(c.kind, b).bytes
      /\ b = "avx2" /\ c.kind # "fixed" => n >= MinMtMessages

(* The pool is asked for; batches of one group never are.                  *)
UsesPool(c) ==
  /\ PlansPool(c) /\ mode.pool
  /\ ChooseBackend(c) = "avx2" => Len(c.lens) > 4

(* min_len_for: fewest messages of a work item.                            *)
MinLen(c, b) == Larger(DivCeil(Len(c.lens), Threads * Params(c.kind, b).tasks), 1)

(* Mutant: items that are not whole groups.                                *)
ChunkLenAsIs(c, b) == MinLen(c, b)

(* hash_chunk_len: whole groups.                                           *)
ChunkLen(c, b) == 4 * DivCeil(MinLen(c, b), 4)

(* Work items: messages from + 1 .. from + len go to to + 1 .. to + len;   *)
(* an item of at least twice least messages may be split.                  *)
Pieces(n, chunk) ==
  {[from |-> k * chunk, to |-> k * chunk, len |-> Lesser(chunk, n - k * chunk), least |-> 0] :
     k \in 0 .. DivCeil(n, chunk) - 1}

Items(c) ==
  LET n == Len(c.lens)
      b == ChooseBackend(c)
  IN  IF ~UsesPool(c) THEN {[from |-> 0, to |-> 0, len |-> n, least |-> 0]}
      ELSE IF b = "avx2" THEN Pieces(n, ChunkLen(c, b))
      ELSE IF c.kind \in {"raw", "blocks"} THEN Pieces(n, MinLen(c, b))
      ELSE {[from |-> 0, to |-> 0, len |-> n, least |-> MinLen(c, b)]}

(* Who runs a plan; without a pool the calling thread does.                *)
HandsFor(c) == IF UsesPool(c) THEN Worker ELSE {Caller}

-----------------------------------------------------------------------------
(* The groups of a work item.  A cell says which message goes where.       *)

Cells(item) == [k \in 1 .. item.len |-> [m |-> item.from + k, o |-> item.to + k]]

LenOf(cell) == call.lens[cell.m]

(* message_blocks: absorb steps, the padded last block counts.             *)
BlocksOf(cell) ==
  LET len == LenOf(cell)
  IN  len \div 32 + (IF len % 32 # 0 \/ len = 0 THEN 1 ELSE 0)

Group(kernel, cells, among) == [kernel |-> kernel, cells |-> cells, among |-> among]

Alone(cells) == [k \in DOMAIN cells |-> Group("scalar", <<cells[k]>>, 0)]

(* Mutant: two messages are looked at, not four.                           *)
SameLenFirstTwo(cells) == LenOf(cells[1]) = LenOf(cells[2])

SameLen(cells) == \A k \in DOMAIN cells : LenOf(cells[k]) = LenOf(cells[1])

(* The blocks of a group fill too few of the steps of its lanes.           *)
Sparse(cells) ==
  LET steps == [k \in DOMAIN cells |-> BlocksOf(cells[k])]
      most  == CHOOSE b \in Range(steps) : \A a \in Range(steps) : a <= b
  IN  25 * FoldLeft(+, 0, steps) < MinFillPct * most

(* A whole group, as one group or as four messages.                        *)
Hashed(cells, among) ==
  IF SameLen(cells) THEN <<Group("equal", cells, among)>>
  ELSE IF Sparse(cells) THEN Alone(cells)
  ELSE <<Group("masked", cells, among)>>

(* Mutant: the rest begins after as many messages as there are groups.     *)
RestTooEarly(n) == n \div 4

(* Messages in whole groups.                                               *)
Rest(n) == 4 * (n \div 4)

(* hash_var_x4_in_order: groups of four, the rest one by one.              *)
InOrder(cells, among) ==
  LET n      == Len(cells)
      groups == Cut(SubSeq(cells, 1, 4 * (n \div 4)), 4)
  IN  FlattenSeq([g \in DOMAIN groups |-> Hashed(groups[g], among)])
      \o Alone(SubSeq(cells, Rest(n) + 1, n))

(* The order by block count: positions counted out, or keys that hold the  *)
(* block count and the position, sorted.                                   *)
CountingOrder(steps) ==
  LET n     == Len(steps)
      first == [b \in 0 .. CountingMax |-> Cardinality({k \in 1 .. n : steps[k] < b})]
      place(acc, k) ==
        [start |-> [acc.start EXCEPT ![steps[k]] = @ + 1],
         order |-> [acc.order EXCEPT ![acc.start[steps[k]] + 1] = k]]
      placed[k \in 0 .. n] ==
        IF k = 0 THEN [start |-> first, order |-> [r \in 1 .. n |-> 1]]
        ELSE place(placed[k-1], k)
  IN  placed[n].order

SortedOrder(steps) ==
  LET keys   == {steps[k] * Window + k - 1 : k \in DOMAIN steps}
      sorted == [r \in DOMAIN steps |->
                   CHOOSE x \in keys : Cardinality({y \in keys : y <= x}) = r]
  IN  [r \in DOMAIN steps |-> (sorted[r] % Window) + 1]

Order(cells) ==
  LET steps == [k \in DOMAIN cells |-> BlocksOf(cells[k])]
  IN  IF \A k \in DOMAIN steps : steps[k] <= CountingMax
        THEN CountingOrder(steps) ELSE SortedOrder(steps)

(* Mutant: digests go to the positions of the group, not of the messages.  *)
ReorderedInPlace(cells) ==
  [k \in DOMAIN cells |-> [m |-> cells[Order(cells)[k]].m, o |-> cells[k].o]]

Reordered(cells) == [k \in DOMAIN cells |-> cells[Order(cells)[k]]]

(* sample_uniform: the first groups have one block count each.             *)
SampleUniform(cells) ==
  \A g \in 1 .. Lesser(SampleGroups, Len(cells) \div 4) :
    \A k \in 4 * g - 2 .. 4 * g : BlocksOf(cells[k]) = BlocksOf(cells[4 * g - 3])

(* hash_var_x4_window; among says how many messages were regrouped.        *)
Windowed(cells) ==
  LET part == Cut(cells, Window)
  IN  FlattenSeq([p \in DOMAIN part |->
        IF SampleUniform(part[p]) THEN InOrder(part[p], 4)
                                  ELSE InOrder(Reordered(part[p]), Len(part[p]))])

(* hash_fixed_x4.                                                          *)
FixedGroups(cells) ==
  LET n      == Len(cells)
      groups == Cut(SubSeq(cells, 1, 4 * (n \div 4)), 4)
  IN  [g \in DOMAIN groups |-> Group("equal", groups[g], 4)]
      \o Alone(SubSeq(cells, Rest(n) + 1, n))

(* for_each_block of the kinds that rebuild slices.                        *)
Blockwise(cells) == IF call.kind \in {"raw", "blocks"} THEN Cut(cells, BlockMessages) ELSE <<cells>>

GroupsOf(item) ==
  LET cells == Cells(item)
      parts == Blockwise(cells)
  IN  IF call.backend = "scalar" THEN Alone(cells)
      ELSE IF call.kind = "fixed" THEN FixedGroups(cells)
      ELSE FlattenSeq([p \in DOMAIN parts |-> Windowed(parts[p])])

-----------------------------------------------------------------------------

Begin(c) ==
  /\ call = NoCall
  /\ c.kind = "blocks" => PlansPool(c)
  /\ call' = [kind |-> c.kind, lens |-> c.lens, backend |-> ChooseBackend(c),
              hands |-> HandsFor(c)]
  /\ items' = Items(c)
  /\ out' = [i \in 1 .. Len(c.lens) |-> 0]
  /\ answer' = [taken |-> FALSE, out |-> <<>>]
  /\ UNCHANGED <<mode, job>>

(* dispatch_hash_blocks_parallel: false when the plan is not parallel.     *)
Decline(c) ==
  /\ call = NoCall
  /\ c.kind = "blocks" /\ ~PlansPool(c)
  /\ answer' = [taken |-> FALSE, out |-> <<>>]
  /\ UNCHANGED <<mode, call, items, job, out>>

(* Rayon halves an item while both halves are large enough.                *)
Split(item) ==
  LET mid   == item.len \div 2
      left  == [item EXCEPT !.len = mid]
      right == [item EXCEPT !.from = @ + mid, !.to = @ + mid, !.len = @ - mid]
  IN  /\ call # NoCall
      /\ item.least > 0 /\ mid >= item.least
      /\ items' = (items \ {item}) \cup {left, right}
      /\ UNCHANGED <<mode, call, job, out, answer>>

Take(w) ==
  /\ call # NoCall /\ w \in call.hands /\ job[w] = <<>>
  /\ \E item \in items :
       /\ items' = items \ {item}
       /\ job' = [job EXCEPT ![w] = GroupsOf(item)]
  /\ UNCHANGED <<mode, call, out, answer>>

(* One group is hashed and its digests are stored.                         *)
Store(w) ==
  /\ job[w] # <<>>
  /\ LET cells == Head(job[w]).cells
     IN  out' = [i \in DOMAIN out |->
                   IF \E k \in DOMAIN cells : cells[k].o = i
                     THEN cells[CHOOSE k \in DOMAIN cells : cells[k].o = i].m ELSE out[i]]
  /\ job' = [job EXCEPT ![w] = Tail(@)]
  /\ UNCHANGED <<mode, call, items, answer>>

(* pool.install returns when every item is done.                           *)
Return ==
  /\ call # NoCall /\ items = {}
  /\ \A w \in Hands : job[w] = <<>>
  /\ answer' = [taken |-> TRUE, out |-> out]
  /\ call' = NoCall
  /\ out' = <<>>
  /\ UNCHANGED <<mode, items, job>>

HashInit ==
  /\ mode \in [simd : BOOLEAN, parallel : BOOLEAN, pool : BOOLEAN]
  /\ call = NoCall
  /\ items = {}
  /\ job = [w \in Hands |-> <<>>]
  /\ out = <<>>
  /\ answer = [taken |-> FALSE, out |-> <<>>]

HashNext ==
  \/ \E c \in Calls : Begin(c) \/ Decline(c)
  \/ \E item \in items : Split(item)
  \/ \E w \in Hands : Take(w) \/ Store(w)
  \/ Return

HashSpec == HashInit /\ [][HashNext]_hashing

-----------------------------------------------------------------------------
(* Properties.                                                             *)

(* What holds output i: an item, a group of a thread, or its digest.       *)
Holders(i) ==
  {<<"item", item>> : item \in {x \in items : i \in x.to + 1 .. x.to + x.len}} \cup
  UNION {{<<w, k>> : k \in {l \in DOMAIN job[w] :
                              \E c \in DOMAIN job[w][l].cells : job[w][l].cells[c].o = i}} :
           w \in Hands}

(* The chunks of the pool and the chunks of the messages are cut apart and *)
(* meet again by position (zip, start = i * chunk): at every moment every  *)
(* output is written or in the hands of exactly one thread or item, and    *)
(* none is written twice, whatever is cut, split and regrouped.            *)
EachOutputOnce ==
  call # NoCall =>
    \A i \in DOMAIN out : Cardinality(Holders(i)) = IF out[i] = 0 THEN 1 ELSE 0

Busy == {w \in Worker : job[w] # <<>>}

(* What kernels and pool demand of the plan: the kernels a CPU with AVX2,  *)
(* groups of "one length", windows that take 4 to VAR_WINDOW messages, and *)
(* items that are whole groups (comment of hash_chunk_len); the pool no    *)
(* more items than tasks for its threads (comment of hash_min_len).        *)
KernelContracts ==
  /\ \A w \in Hands : \A k \in DOMAIN job[w] :
       LET g == job[w][k]
       IN  g.kernel # "scalar" =>
             /\ mode.simd
             /\ Len(g.cells) = 4 /\ g.among \in 4 .. Window
             /\ g.kernel = "equal" =>
                  \A c \in DOMAIN g.cells : LenOf(g.cells[c]) = LenOf(g.cells[1])
  /\ call # NoCall /\ call.hands = Worker =>
       /\ Cardinality(items) + Cardinality(Busy) <= Threads * Params(call.kind, call.backend).tasks
       /\ call.backend = "avx2" =>
            \A item \in items : item.len % 4 = 0 \/ item.to + item.len = Len(call.lens)

(* Whatever the backend, the grouping and the order of the threads, a call *)
(* returns the digest of every message at its position; one that declines  *)
(* has written nothing (hash.rs, ARCHITECTURE.md section 7).               *)
HB == INSTANCE HashBatch WITH
  asked <- IF call = NoCall THEN NoCall ELSE [kind |-> call.kind, lens |-> call.lens]

ImplementsHashBatch == HB!Spec

=============================================================================

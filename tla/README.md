# Lustro in TLA+

A model of the Lustro library (`src/src/`): deterministic byte streams and
hashes, batches of streams that run on AVX2 and on a thread pool, and the
process-wide settings behind them. Most of it is about what happens around the
mixing functions: which block comes when, with which counter, who writes it
where, and who decides how; there the mixing functions are parameters. That the
two forms of the mixing functions themselves (`core.rs` and `core_avx2.rs`)
compute the same words is modelled once, in `LaneGroupX4`. Nothing here says
anything about the quality of the bytes.

## Inventory

| Part | State | Operations | What makes it correct |
|---|---|---|---|
| Streams (`api.rs` `StreamState`, `prng.rs`, `xof.rs`) | state words, u64 step, cursor | new, typed reads, `fill_bytes`, `next_block`, fork, clone, export, import | read lengths do not show in the bytes; the counter never skips, repeats or goes stale; snapshots resume exactly and are never refused |
| Settings (`dispatch/config.rs`) | `RUNTIME_CONFIG` | `configure`, first use | fixed once, all callers agree, one of the racing calls wins |
| Pool (`dispatch/pool.rs`) | `RAYON_POOL`, `POOL_OWNER` | claim, build, get | built once with the settings; never used by a process that has no workers for it |
| Stream dispatch (`dispatch.rs`, `params.rs`, `backend.rs`, the lane kernels) | lanes and output of a call, work items | `dispatch_streams` | backend, chunks and the order of the workers do not show; no two workers share a block; calls continue each other |
| Batches (`prng.rs`, `xof.rs` `*Batch`) | lanes | fork many, fork range, lane, derive paths, fill, blocks, export, import | a lane is the single stream it stands for |
| Snapshots (`types/snapshot.rs`) | none | encode, decode | decode accepts what encode wrote and nothing inconsistent |
| Hashing (`hash.rs`, `dispatch.rs`) | none | one message, batches, pool | the digest of a message does not depend on its batch |
| Mixing (`core.rs`, `core_avx2.rs`) | vectors of a group of lanes, a round constant | IDM, ERD, a round; the same on four lanes with AVX2 | the vectors compute what the scalar code computes, for every state and across the wrap of counters |
| Python (`python/`) | objects under the GIL, numpy and buffer views, lists of messages | all of the above with the GIL released; reading lists whose items run code | a call in progress keeps its object; arrays that change are noticed; digests are those of the messages as they were read |
| C, hashes (`ffi/hash.rs`, `ffi/types.rs`) | the memory of the caller | one message, fixed and variable lists, 256 and 128 bits | wrong arguments are refused before anything is written; the error does not depend on the number of threads; the digests are those of the messages as they were at the call |
| C, contexts (`ffi/prng.rs`, `ffi/xof.rs`, `ffi/mod.rs`) | boxed objects, pointers of the caller | all calls of streams and batches | an object has one owner; a failed constructor leaves null; a snapshot is taken by the importer of its type only |
| Value types, `rand` traits, build script, examples | none | conversions | not modelled |

Interaction: a batch call asks for the settings (the first one fixes them), plans
with them, and asks the pool module for the pool, which asks for the settings
again when it builds one. Workers of the pool write into the caller's buffer. The
single streams use none of this. The bindings wrap every object and call the same
functions with the interpreter lock released, or behind a C handle.

Hard behaviour: races for the two `OnceLock` cells and the owner word; `fork`
between any two steps of them; process identifiers that are used again; work
items that finish in any order on a shared buffer; counters that wrap; reads that
straddle blocks; snapshots that outlive their process; a pool that cannot be
built. `PROJECT.json` lists each at its line.

## Modules

| Module | Models |
|---|---|
| `ByteStream` | what a stream promises: an origin and a position (abstract) |
| `StreamState` | the objects as the code keeps them; implements `ByteStream` |
| `RuntimePool` | settings, pool, fork and exit, for several processes with several threads |
| `LaneStreams` | what `fill_blocks` of a batch promises: a position per lane (abstract) |
| `StreamDispatch` | one batch call from plan to return; implements `LaneStreams` |
| `Words` | machine words, their products, shifts and rotations |
| `MixScalar`, `MixVector` | the mixing functions of `core.rs` and those of `core_avx2.rs` |
| `LaneGroup` | four lanes as the scalar code advances them (abstract) |
| `LaneGroupX4` | the same four lanes in vectors; implements `LaneGroup` |
| `StreamFamily` | what a batch promises: the line of descent and the position of each lane (abstract) |
| `LaneBatch` | the batch objects, their forks and their snapshots; implements `StreamFamily` |
| `MessageAbsorb` | how each hash kernel cuts, pads and absorbs messages |
| `HashBatch` | what a batch of hashes promises (abstract) |
| `HashDispatch` | one batch of hashes from plan to return; implements `HashBatch` |
| `PySerial` | what Python calls on streams and batches promise: each takes effect at once (abstract) |
| `PyThreads` | the threads and the interpreter lock, which the next two share |
| `PyBatch` | those calls with the interpreter lock, threads and arrays; implements `PySerial` |
| `PyHash` | batches of hashes from Python lists and arrays |
| `CSlices` | pointers and lengths of a C caller: null, alignment, size, overlap |
| `HashCalls` | what the hash functions of the C interface promise (abstract) |
| `CHash` | those functions in one address space, on the pool; implements `HashCalls` |
| `ContextObjects` | the objects behind the contexts of the C interface, as values |
| `ContextValues` | what contexts are to a C program: variables that hold objects (abstract) |
| `Contexts` | boxes, pointers and snapshots as bytes; implements `ContextValues` |
| `ArithLemmas` | what the solver does not know about `\div` and `%`; loops, by induction |
| `StreamStateProofs` | proofs about `StreamState` |
| `PoolProofs` | proofs about `RuntimePool`; sequences cut, sorted and joined, and the proofs about `HashDispatch` |
| `StreamDispatchProofs` | how a batch is divided, and the proofs about `StreamDispatch` |
| `KernelProofs` | the instructions, the mixing functions, and the proofs about `LaneGroupX4` and `MessageAbsorb` |
| `LaneBatchProofs` | sequences of lanes, loops, and the proofs about `LaneBatch` |
| `PythonProofs` | proofs about `PyBatch` and `PyHash` |
| `CInterfaceProofs` | proofs about `Contexts` and `CHash` |
| `MC...` | constants for TLC, one module per run or pair of runs |

Definitions marked *Mutant* are deliberate bugs, one for each property; no module
uses them. A run whose definition is replaced by its mutant must fail.

### StreamState

`gen[h]` is the `StreamState` a program variable holds, with two history fields
the program does not keep: the state it started from (`origin`) and the number of
blocks made since (`made`). `call[h]` is a running `fill_bytes`; its steps are the
drain of the current block (`FillBegin`), one iteration of the bulk loop
(`FillBlock`) and tail and return (`FillEnd`), so that a crash and operations of
other objects fall between them. `&mut self` keeps other operations of the same
object out. `saved[k]` is a snapshot in storage that survives `Crash`. Byte `i` of
the block of state `s` is the pair `<<s, i>>`: the copies of the code become
index arithmetic, which is where they can go wrong. `next_u32`, `next_u64`,
`next_u128` and `Read::read` are `fill_bytes` with a length.

`BlockLaw` says what the parameter `BlockAt` is: the state reached from an origin
with the counters 0, 1, 2, ... modulo 2^64. It is an assumption that defines the
parameter, not one about the code; the MC module gives it as a recursive function
and TLC evaluates the assumption.

Run `streams`: two objects, or an object and a snapshot; reads of 17, 32 and 40 bytes,
which end in either half of a block, at its middle, at its end and behind a straddled
block, with a bulk loop of one iteration; all operations between the steps of a read; a
counter that wraps at 2. Operations touch at most two of the objects and snapshots, so
two held at a time are enough (`MaxHeld`); two blocks (`MaxBlocks`) are a bulk block
with a part on either side. Other lengths, other counters and more objects are the
matter of the proofs, which need no bound. Deadlock is checked.

Liveness (`ReadsReturn`) assumes that a thread in `fill_bytes` is not descheduled
for ever (weak fairness of `FillBlock` and `FillEnd`); nothing makes a program call.

### RuntimePool

Every process has its own copy of the cells and the owner word; `Fork` copies them,
with the forking thread only, and `Exit` forgets them. A cell is unset, set, or
inside the initialiser of one thread while others wait; the initialisers are two
steps each. `OnceLock::set` is one step: its closure only moves a value. The code
between two shared accesses of a thread is one action, named after it.

A new process gets any identifier that no live process has, those of processes that
exited included, and a fork may fall inside an initialiser. This limits two properties, in
each case at what the code cannot know:

* `OwnPoolOnly`: a batch only enters a pool that its own process built. Excepted is a
  process that was given the identifier of the builder after the builder exited: it takes
  the inherited pool for its own. Comparing identifiers cannot tell. That this is the only
  case is proved; the run, with two processes, does not reach it, because the builder must
  have exited when its grandchild is made.
* `CallsReturn`: every call ends. Excepted is a child forked while another thread was
  inside the initialiser of the settings, which waits for a thread that was not copied, as
  with every `OnceLock`; and a process with the identifier of one that exited, which waits
  for workers that do not exist. A child forked inside the initialiser of the *pool* is not
  excepted: it looks at the owner word first and falls back.

Run `races`: two processes, two threads in the first, two identifiers; three settings
compete: `configure` with 1 or 2 workers, and the machine's 3. Two processes are enough to
fork in every state; for more of them, and for more identifiers, the safety
properties are proved. It says
`CHECK_DEADLOCK FALSE` because all processes may exit. Fairness (`CallsReturn`): each
thread takes its next step if it can; calls, forks and exits are never forced. An exit
sends the threads of its process to `idle`: a call ends with its process.

### StreamDispatch

`mode` says what detection and settings allow: AVX2, the pool, and whether the pool
could be built; all eight combinations are initial. `Begin` is the planner; `Take` a
worker that takes a work item, in any order; `Load`, `Row` and `Store` its tiles: the
lanes go to registers, each stream step writes one row of blocks, the lanes come
back. The scalar kernel (`ScalarTiles`: 4 lanes by 8 steps, or all lanes for a single
step) counts with the lane; the vector kernel (`X4Tiles`: 4 lanes, all steps) keeps a
round constant and adds to it. `made` is a history field.

Run `dispatch`: 0, 3 and 13 lanes; 0, 1 and 9 steps; three workers, up to three lane
ranges of which one is ragged; counter and round constant wrap at 8 within a call of
9 steps. `BatchReturns` assumes weak fairness of each worker and of the caller; without
`Return` being forced a call could hang in `install`. `CHECK_DEADLOCK FALSE`, because the
bound on blocks ends the run. The tuning of the backends is scaled down, with the same
roundings, so that both go to the pool. The proofs cover every size, pool and tuning.

### Words, MixScalar, MixVector, LaneGroup and LaneGroupX4

`StreamDispatch` takes the mixing function as a parameter that both kernels share. Here
it is shown that they do. `MixVector` has the instructions of `core_avx2.rs` one by one:
a 128-bit word is a pair of vectors, a product of 64 bits is made of products of halves,
a carry comes from a signed comparison with flipped top bits, a rotation by a distance that
depends on the state is two variable shifts, whose results are 0 from the width of a word
on. `LaneGroupX4` loads four lanes with two transpositions, takes the steps of a call with
the round constant carried along by addition, stores the blocks of each step (`Iterate`) and
writes the lanes and counters back.

`Words` makes the size of a word a parameter. `Pow` and `Xor` are parameters with the laws
that are needed of them (`PowLaw`, `XorLaw`); `Amount` scales the distances of the source
and is the identity at 64 bits; the factors are arbitrary. The laws are assumptions that
say what the parameters are: TLC evaluates them, for the definitions in the MC module, on
every run.

Run `words`: words of 8 bits, 48 groups chosen so that carries, full products and both
ends of every distance occur, calls of 1 and 3 steps over a wrap of the counters.
`CHECK_DEADLOCK FALSE` because the bound on steps (`MaxSteps`) ends the run. All three
properties are proved for every size of a word.

### LaneBatch

The batch API on top of one call of the dispatcher, which is a single step here
(`Ran`) and `StreamDispatch` in detail. A state is its line of descent, term for
term: a root made from key and domain, or the child of a state and an identifier; the
positions come from the counters the code keeps. `StreamFamily` says what the
documentation promises of them: which child stands where after `fork_many`, that a
path leads to the state that the forks lead to, that a lane taken out is the stream
it stands for, that a snapshot resumes or is refused. `prng.rs` and `xof.rs` hold the
same code twice; `map` spreads the definitions over both.

A snapshot is a sequence of fields with the lengths the format gives them; `Crash`
ends the process, and `CrashInExport` ends it while a file is written, which leaves a
prefix. `Import` reads what is there as either kind, the header checks are in the
order of the code. A size limit (`UsizeMax`) and failing reservations stand for
32-bit targets and memory that runs out.

Run `families`: one root seed, alone and with identifiers 1 and 3, paths of no term and of
two, forks of every kind from lanes that were not forked yet (`MaxForks`; paths and forks
are the same derivation), identifiers modulo 4 and a range that wraps, counters modulo 2,
calls of 0, 1 and 4 steps of which the last exceeds the size limit (`UsizeMax`); two
batches, a lane taken out and a snapshot, of which two are held at a time (`MaxHeld`:
operations touch at most two). The state space is finished. The derivation of the instance
is not symmetric in its arguments, so that an order of children, a domain or a counter
that is off shows.

### MessageAbsorb

The rows of 32 bytes that a kernel mixes into the state of a message, for the scalar
kernel and the two x4 kernels. A byte is its index in the message and a byte of a row
is the set of bytes ORed into it, so that an overlapping read that hits another byte,
a shift that is one off, or a bit left by a mask shows. Words, shifts and masks have
the real widths. `Padded` is the reference, written from the comments of
`absorb_with_domain` and `finalize_terminator`. `read` records what the unsafe code
reads of a message.

Run `rows`: all lengths 0 to 70 alone, in groups of equal length and in groups with an
empty message; for the masked kernel every pair out of 19 lengths next to a boundary
(4, 8, 16, 32, 64), with a message of one row and one of three.

### HashDispatch

A call of any kind (fixed length, slices, a C table, blocks of Python messages), from
the plan to the digests. `Items` are the work items of the pool; `Split` is Rayon,
which may halve the items of a parallel iterator with a minimal length; `Take` cuts an
item into blocks, windows and groups as the code of the item does (`GroupsOf`), and
`Store` hashes one group. A message is a position and a length; its digest is its
position, because `MessageAbsorb` shows that the kernels agree. The two ways to order a
window (`CountingOrder`, `SortedOrder`) and their offsets are translated.

Run `hash_batch`: 0 to 18 messages of one length, of mixed lengths below and above
the limit of the counting sort, one long message among short ones; windows and blocks
of 8, three workers; every group kernel is reached. Deadlock is checked: one call runs at
a time and each of its steps leaves less work, so a call that hangs would be a deadlock.
Thresholds and sizes are scaled down in the order that `params.rs` has them.

### PyBatch

The interpreter lock (GIL) is a variable. What a call does under the lock is one
action; `fill_blocks` of a batch (`FillBegin`, `FillEnd`) and the calls that make a new
array (`NewBegin`, `NewEnd`) let go of it between two actions, and other threads then use
the objects and change the arrays. `borrowed` is PyO3's `&mut self` of a call that is
under way, `lent` the borrow that NumPy's own interface knows about; writes through the
buffer protocol (`FillInto`, which is `fill_into` and `readinto` of a stream) know of
neither. Two arrays are never the same memory. The unit of output is a block of a batch
or a chunk of a stream; the conversion of words to blocks keeps the unit. `buf` is the
buffer a batch keeps between calls, never shorter than the longest call so far.

`PySerial` has the same calls without the lock and without the buffer: a call moves its
object and fills its array in the step in which it returns, from the shapes found then.
An error leaves both alone, with the one exception the code documents: an array that has
changed when the call wants to write to it (`Lost`).

Run `threads`: a batch of two lanes, a stream and an array, up to 2 steps per call, 6
units of the batch and 2 of the stream; shapes with the right and the wrong number of
words, arrays that are read-only, at an odd address or of bytes, an empty one. Threads
are symmetric; deadlock is checked. There is no liveness
property: nothing obliges a thread of the program to give up the lock, and the calls have
no loop or wait of their own.

### PyHash

The messages are a list of the program. An item is a `bytes` object, the array of
digests itself, or any other object (`"hook"`): the export of its buffer may run code of
the program before it fails or shows a bytearray. Such code may do whatever the program
may: change the list, the bytearray and the array (its size and its place in memory too),
give up the lock, and start another call, so `stack` holds calls inside calls. A call
reads its items in one step where the code runs no Python code (`Fused`, `ReadExact`) and
one item at a time where it might (`ReadItem`, `HookEnd`). What it keeps of an item says
how it holds it: a reference, a copy, or a slice of an item that only the list keeps alive
(`kept` is false). `Content` is what such a slice shows when it is hashed: `Garbage` if the
list has let go of the item.

A tuple cannot change, and other sequences, whose iterators run code, behave like lists
with hooks between their items. Rows of one length (`FixedDirect`, `FixedBegin`) lie over
the bytearray or over the memory of the array. `Digest` tells a text from a digest and not
how often it was hashed. The buffers kept per thread (`SCRATCH`, `RESULT`, `TABLE`) are not
modelled: a call has its own, as the code has, which takes them out of the thread while it
runs. Builds of Python without the lock are not modelled either; the code declines the
reads without references there.

Runs: `hooks` and `moved`. In `hooks` one thread makes calls and another runs the program
whenever the lock is free; lists and arrays have up to two elements, the fused read begins
at two, a call inside a call begins while the list has one item. Two items are enough: one
that spoils a read and one that is affected. The array does not move. Deadlock is checked.

`NothingReadBack` is about the memory where the array was when the reading began. If code run
by an item moves the array, a later item that is `out` is accepted and read (see `moved`), and
what is read back may then be digests that the fused read had written: neither the property
nor its theorem excludes this.

A call with an array that finds no messages (`WriteNothing`) returns at once, with the lock
held and without comparing the size of the array again.

`moved` shows a difference between code and documentation. With `release_gil=False` an
item that shares memory with `out` is to raise `ValueError`. The address of `out` is taken
before the items are read; if code run by an item makes `out` move, a later item that is
`out` itself is compared with the old address, accepted and copied. Because it is copied
the digests are still those of what was read.

### CSlices, HashCalls and CHash

One memory holds inputs, tables and outputs, and the arguments are numbers a C program
might pass: null, a misaligned table, lengths next to `isize::MAX`, ranges that end at the
end of the address space or behind it, outputs that lie over any part of an input or of a
table. `CheckArguments` has the checks in the order of the code; a table is checked message
by message, in parts on the pool (`map_ranges`), which finish in any order; digests are then
read and written one by one, in any order. `HashCalls` is the promise of the header: the
digests of the messages *as they were when the call was made*, or nothing written and an
error that names something wrong. The two differ where a write falls between two reads.

Run `c_hash`: an address space of 48 bytes, half of it for a slice, pointers and lengths of
2 bytes, bytes modulo 7, all six functions; a table of three or more is checked by two
parts (`PoolThreads`, `RangesPerThread`, `CheckParMin`). A table may lie past the end of the
address space, which both modules refuse before a word of it is read. `TableVerdict` says that the
verdict does not depend on how the table was cut: it is the one of the lowest index.
Deadlock is checked.

### ContextObjects, ContextValues and Contexts

`heap` is what `Box::into_raw` handed out, `ptr[v]` a pointer variable of the program, which
may keep an address after it was freed (`dangling`) or write over the only pointer to an
object (`lost`). Addresses are used again. Every function that makes, moves, exports,
imports or frees a context is an action with its checks in order; a reservation may fail,
and a `collect` of more than `isize::MAX` bytes panics and comes back as `InternalPanic`.
The caller keeps to the Safety sections of the functions and relies on "null on failure".
A snapshot is its version, kind, cursor and lanes, and each importer checks them as the
code does. `ContextValues` has no pointers: a variable holds an object, a copy or a child is
one of its own, a failed constructor leaves its variable empty and everything else alone.
`ContextObjects` is shared by both: what a call does to the value of an object, which
`StreamState` and `LaneBatch` say more of.

Run `contexts`: five variables of the four types over two addresses, one buffer, a `usize`
of 8 bits, so that two lanes fit a vector and three do not; two objects at a time
(`MaxHeld`), one dangling pointer (`MaxDangling`). `SYMMETRY` over the addresses is sound,
no property names one; `VIEW` leaves out the status of the last call, which no action reads,
and TLC checks the refinement on every transition all the same. Deadlock is checked.

The functions that only read (`len`, `suggested_steps`, `snapshot_size`,
`lustro_runtime_*`, `lustro_strerror`) are left out; `lustro_configure` is `Configure` of
`RuntimePool`.

## Proofs

Every component that is modelled has proofs. They hold for every value of the constants that
satisfies the named assumptions of the modules. Those are of four sorts, and TLC evaluates each
of them on the instances it checks: the type or range of a parameter (`ConstantTypes`,
`StatesClosed`, `ArgumentTypes`, `Tuning`, `HashConstants`, `HashArguments`, `SizesOrdered`), what
a parameter given by recursion is (`BlockLaw`, `PowLaw`, `XorLaw`), that the model's `None`,
`NoThread` and `NoCall` are not mistaken for a value (`NoneApart`, `NoneIsNothing`,
`NoThreadApart`, `NoCallApart`), and that a buffer of `Contexts` begins with bytes that no importer takes (`FirstBytesForeign`):
every snapshot in a behaviour was exported in it, by an earlier program or this one.

**Streams.** `StreamStateProofs` proves, for every set of handles, stores, lengths and mixing
functions, the properties of the run `streams` except liveness. The inductive invariant
`IInv` adds to the type invariant and the schedule what a running call has written and where
it stands: while the bulk loop runs, the number of bytes written is aligned with the blocks
made, and the cursor is only 0 then. One lemma per action shows that it is preserved; the
refinement then maps each action to one of `ByteStream` or to a stutter (`FillBegin` and
`FillBlock` stutter, `FillEnd` is the whole `Read`).

**Settings and pool.** The first part of `PoolProofs` proves the safety properties of the run `races` for
every number of processes, threads, identifiers and settings. None of them is inductive:
`IInv` adds that only live processes have calls under way (`Alive`), that a thread inside an
initialiser is alone there and the cell is unset (`Resolving`, `Building`), that a call of
`configure` holds settings (`Wishing`), what the callers of a process have been told
(`Told`), that a batch on its way to the pool carries the plan of the settings that hold
(`Sized`), and whom the owner word names: once a process has a pool, inherited or not, the
identifier of the process that built it (`Owned`), the process itself while a thread of it
builds (`Claimed`) or runs in the pool (`Entered`).

**Dispatch.** The first part of `StreamDispatchProofs` is geometry, without states: `ChunksDivide` and `ChunksCount` (the
chunks of the chunk rule cover a batch, do not meet, are at most as many as threads and end
at multiples of four), and `TilesCut` (the tiles of either kernel make every block of their
item, stay inside it, and of two tiles with a lane in common the earlier one has the earlier
steps). The invariant then needs, besides types, that the lanes of a call belong to
one waiting item or one worker or are done (`Divided`), that what a worker has left are tiles
in order (`Tiled`), that every block not yet made is in such a tile and no lane is ahead of
one (`Progress`), that lanes in memory and in registers are where their counters say
(`OnSchedule`, `Loaded`), and that a block written is the right one (`Written`). `HeadNext`
is the step that carries it: the first tile of a worker begins exactly where its lanes are.
`Written` uses that two blocks never have the same place (`SlotUnique`). The theorems are
`Apart`, `PoolFits`, and the refinement `DispatchRefines`: all steps stutter but `Return`,
which is one step of `LaneStreams`, and `BeginNothing`, which is one with no blocks.

**Mixing.** `KernelProofs` begins with what each group of instructions computes (sum with
carry, difference with borrow, product from halves, rotation from two shifts), then joins
them to the stages of IDM, the distances and the round (`IdmAgrees`, `ErdAgrees`,
`StepAgrees`). Its invariant: the constant in the vector is the
product the scalar code would take (`ConstantInStep`), all words are words, shifts are
within range (`KeysInRange`); and the refinement of `LaneGroup`.

**Absorption.** The second part of `KernelProofs` is about messages of every length. Three lemmas
say that the three ways to pad agree: the terminator as a constant (`TerminatorIs`), the last
partial block as a buffer of bytes (`TailBufferIs`) and as words (`TailRowIs`) are all the row
that padding gives there, `RowAt`. With them `AbsorbIInv` is inductive: each lane, in each
kernel, is what the reference makes of the first `Taken` rows of its padded message, and every
word read so far lies inside its message. `KernelsAbsorbPadded` and `KernelsReadInside` follow.

**Batches.** `LaneBatchProofs` proves all properties of the run `families`, for every number of
lanes, list of identifiers, path and mixing function. `IInv` is short: every lane, in a batch,
alone or in a file, is where the stream of its line is after the blocks it has given (`Good`),
lanes descend within the domain of their batch, which forks take from the batch and not from
the lane (`GoodLanes`), and a file is no longer than the lanes it names (`GoodFile`). The work is
in the operators: what the two nested loops of `Children` put at a position (`Cell`,
`Flattened`, `ChildrenRows`), that walking a path over states ends where walking it over lines does, and
the order of a block of `Blocks`. `Refinement` maps each operation to its counterpart in
`StreamFamily`, and each refusal to a failure that changes nothing (`FailRefines`).

**Batches of hashes.** The second part of `PoolProofs` proves the properties of the run
`hash_batch` for all messages, windows, blocks, workers and limits. First sequences: what
cutting into pieces and joining them keeps (`PiecesStraight`), and the two orders of a window
(`SortsAgree`: counting and sorting the keys give the same sequence, for every list of
block counts). A group *covers* positions when its cells hold those messages, each with its
own position, and no position twice; `Covers` is kept by every way the code has to cut, regroup,
split and join, so the groups of an item cover the item. The inductive invariant
`HashInv` then says that each position is written, in one item nobody has taken, or in the
groups one thread holds, and never in two of these (`SharedOut`), and how large items are
(`PoolRight`). The last needs both sorts of plan: items that are never split are few enough from
the beginning (`FewItems`), and an item that may be split has a least length for each thread that
was busy with a part of it (`LargeItems`). `EachOutputOnce` and `KernelContracts` follow, and
the refinement: all steps stutter but the call and its return, and at the return `HashInv` has no
position left that is not written.

**Python.** `PythonProofs` proves the properties of the run `threads` for every number of
threads, objects and arrays. `IInv` joins the borrow to the call (`Borrows`: whose borrow an
object is under is the call that names it, and who holds the lock is in no call) and says what a
call without the lock has: the units from where it found the object (`Progress`), and for
`fill_blocks` a buffer that starts with them (`Buffered`). `SerialRefines` then needs that
nothing of a borrowed object moves between `FillBegin` and `FillEnd`. Its second part proves
those of `hooks`, for any depth of calls inside calls (`HashIInv`). `Sound` is about one call: a call that
reads without Python code finds list and array as they were when it began, a row kept without a
reference is one the list still has, what is hashed was hashed as loaded, and a call that has
written has no row from where the array was. `OneWriter` is about two: at most one call, of any
thread and at any depth, is to write the array. `Sound` of a call inside the code of an item
depends on neither lock nor list (`SoundAnyway`), which is why such code may do anything.

**C contexts.** The first part of `CInterfaceProofs` proves the properties of the run `contexts`, for every number of
variables, addresses, buffers and lanes and every width of `usize`. `OneOwner` counts owners and
is not inductive: `IInv` says that a variable the program may pass on (`Used`) is null or points
to a live object of its type that nobody has lost (`Holding`), that no two of them hold the same
(`Sole`), that a live object is lost or held (`Known`, `LostLive`), that objects are such as
`from_parts` accepts and lanes fit a vector (`Live`), and that a buffer has foreign bytes or the
encoding of an object (`Buffers`), from which `OwnImporterOnly` follows. The many calls are five
sorts of step. A lemma for each constructor shows that whatever it may give its variable is
`Right`: an object of the variable's type that comes from a root, from an object that is there
or from a snapshot. `ConstructStep`, `InPlaceStep`, `StoreStep`, `FreeStep` and `ReturnStep` then
show, each, that `IInv` holds afterwards and that the step is one of `ContextValues`.

**C hash functions.** The second part of `CInterfaceProofs` proves the properties of the run
`c_hash`, for every memory, every width of `usize`, words and digests, and every division of the
table. What is assumed of the caller is in `HashArguments` (the memory of a program does not
reach the last address, so one past the end of a slice is an address) and `Callable` (what is
no memory may be passed only with a length no memory has, as the Safety sections say). It
begins with pointers and lengths: `RangesOverlap` finds the ranges that end outside the address
space and, of the others, exactly the pairs with an address in common (`OverlapErrorIs`); the
checks of the two kinds of call, in their order, are worked out (`FixedChecks`, `VarChecks`,
`MessageChecks`): they refuse exactly what `HashCalls` calls wrong. A sum that saturates
at every step is the saturated sum (`SumSaturates`), and the ranges of `map_ranges` lie one
behind the other and end with the table (`RangesLie`), so the first error of the first range
that has one is the first error (`VerdictIs`). The inductive invariant `CallInv` says: while a
table is checked, the memory is what it was at the call and a part that is known is what
`Checked` says of its range; while messages are hashed, nothing was wrong, the memory is that
of the call except for the digests of the messages that are done (`PartlyHashed`), and what a
worker has read is the message as it was at the call. It is kept by a write because tables and
messages lie beside the output (`TableBytes`, `MessageBytes`). With no message left,
`PartlyHashed` is what `HashCalls` promises.

Induction over the natural numbers is available (`Induction` of `ArithLemmas`, from the least
number for which a statement fails). A loop written as a recursive function is characterised
there once (`LoopExists`, `LoopIs`, `LoopsAgree`), and `LaneBatchProofs` uses it for paths and for
runs of steps. Beyond the prover are liveness and ENABLED.

Model-checked only: liveness (`ReadsReturn`, `CallsReturn`, `BatchReturns`). Every safety
invariant, action property and refinement of a run that passes is a theorem; the run shows
that the instance reaches the cases the theorem is about.

## What the proofs leave open

* Liveness, as said, for the instances of the runs only.
* The proofs are about the modules. That the instance of each run shows its interesting cases
  is the matter of the mutants; that a module says what the code does is the matter of
  reading both.
* Constants that are operators (`Digest`, `StreamStep`, `Mix` and the like) are arbitrary in the
  proofs: nothing is said about the quality of the numbers.

## Not modelled

* `for_chunks_mut` (the parallel read of a Python list) is one step, `ReadExact` of `PyHash`:
  it runs with the interpreter lock held and touches no Python object that code could reach.
* The buffers that the Python hash calls keep per thread; a running call has its own.
* The Python module object, conversion of Python arguments, builds of Python without a lock.
* The functions of the C interface that only read, and `lustro_strerror`.
* Value types and errors (plain data), the `rand` traits (each forwards to a read), the
  spelling of environment variables, error texts, redaction of debug output, field offsets
  of snapshots, the build script, the examples and the benchmark.

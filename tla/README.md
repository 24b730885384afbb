# artmap: a TLA+ model of the concurrent radix tree

artmap is a concurrent ordered map: an adaptive radix tree (ART) with optimistic lock
coupling, epoch-based or arena reclamation, and, in the versioned maps, a list of
versions per key that snapshot readers walk without a lock. Its correctness rests on
short protocols between threads whose bugs need three or four steps in an order that
no test schedules. This directory models those protocols, checks them with TLC on
small instances, and proves with TLAPS, for every size, the latch they all rest on, the
node layouts and their refinement of a map, the allocator and what an insert does with its
memory, the reclamation of handles and the counter.

The normative text of the code is `src/docs/SAFETY.md` (Inv 1 to 13, W1 to W5, R1 to
R6); the models are translated from the Rust source.

## 1. Inventory

| component | state | operations | interacts with |
|---|---|---|---|
| node/root latch, `latch.rs` | a word: version, lock bit, obsolete bit | `read_version`, `validate`, `try_upgrade`, `lock`, `unlock`, `mark_obsolete` | every access to a node |
| chain latch, `latch.rs` | free, locked or dead (later: a retired-list link) | `lock`, drop, `kill`, `is_dead` | taken last, under node latches or alone |
| raw tree, `raw/{read,write,remove,walk}.rs` | root, nodes (prefix, exact leaf, children), `len` | `get`, `insert` in its modes, `insert_at_hint`, `remove_confirmed`, `clear_counting` | latches, storage, counter; called by every map |
| node layouts, `raw/node.rs`, `slot.rs`, `simd.rs` | Node4/16/48/256 | find, insert, remove, replace, copy | below the raw tree |
| live-key counter, `raw/mod.rs` | 8 stripes, signed words that wrap | `len_add`, `len` | every insert, remove, clear |
| prepared nodes, unpublished leaves, `raw/write.rs`, `raw/mod.rs` | what an insert has allocated and not published | `node`, `reset`, `commit`, `release`; `disarm`, drop | inserts, storage |
| shrink, `raw/shrink.rs` | none of its own | `shrink_to_fit` | raw tree, same latch order |
| cursor, `raw/cursor.rs` | frames (node, version, next byte), last key | `next`, `next_back`, `invalidate` | reads the raw tree; used by all iterators |
| reclamation, `guard.rs`, `raw/heap.rs` | pins and deferred destructors (crossbeam) | pin, retire | what removes and replaces unlink |
| version chains, `versioned/{tree,node}.rs` | per leaf: chain latch, head, two inline slots; per version: number, value or tombstone, link, superseded flag | `insert`, `remove_head`, `remove_key`, `remove_version`, `prune_leaf`, `clear`, lock-free reads | raw tree (`get`, `insert`, `remove_confirmed`), chain latch, EBR, `len` |
| arena, `arena/mod.rs` | cursor, identity; per thread: 4 chunk slots | `alloc`, `refill`, `reset` | arena storage |
| arena storage, `arena/storage.rs` | retired list threaded through dead leaves | `retire_leaf`, teardown | arena, raw tree |
| arena chains, `arena/versioned_tree.rs` | as version chains, by offset; retired versions | as version chains; inserters with a cached node | arena storage, raw tree |
| maps and sets, `lib.rs`, `set.rs`, `tree.rs` | none beyond a tree | the calls of `ArtMap` and `ArtSet` | pin, one tree call, unpin or hand the pin to a handle |
| handles and iterators, `entry.rs`, `iter.rs` | a leaf (or a batch of leaves) and what keeps it alive | `clone`, `is_removed`, `remove`, `next` | guards, raw tree, cursor |
| versioned reads, `versioned/{map,iter,entry}.rs` and arena twins | a handle on one version | `get_entry`, `is_superseded`, `latest`, `get_version_le`, `get_all_versions` | version chains, cursor |
| arena maps, `arena/{map,tree,versioned_map}.rs` | none beyond a tree | the calls of both maps, their inserters | arena storage, raw tree, arena chains |

What is hard here: readers hold nothing and must notice every structural change under
them; writers decide before they lock; unlinking an emptied node runs up the tree with
nothing held; `clear` detaches a tree that others are still changing; a versioned
writer may hold a leaf that has left the tree; an allocator chunk may outlive the
arena's contents; and every object must be retired exactly once by exactly one of the
threads that raced for it; an arena may run full between any two allocations of one
insert; a handle may outlive its entry, its guard's epoch and its thread's locals.
`PROJECT.json` lists these hazards at their lines, with the
properties that would catch each one.

What makes each component correct: a validated read is a snapshot (latch); every call
is linearizable, keys never become unreachable, what is retired is out of reach, the
tree is well formed and `len` exact when nobody runs (raw tree); no version goes to an
unlinked leaf, prune keeps every snapshot it promises to keep (chains); no byte is
handed out twice (arena); everything is dropped once (arena maps); a node
is a map from bytes to children whatever its layout (layouts); a pass that ran alone
leaves a fitted tree (shrink); what a handle shows stays what it was (handles); every
call returns (all).

## 2. Modules

| module | models | state, in terms of the code |
|---|---|---|
| `HybridLatch` | `latch.rs` 64-203 | `word` is the atomic; `payload` the fields it protects; `snap`, `view` what a thread has read; `committed`, `base`, `age` are history |
| `HybridLatchProofs`, `NodeLayoutProofs`, `ArenaProofs`, `ArenaInsertProofs`, `HandlesProofs`, `StripedLenProofs` | | the inductive invariants and the theorems of section 5 |
| `OrderLemmas` | | least elements of sets of naturals, for these proofs |
| `RawTree` | `raw/read.rs`, `write.rs`, `remove.rs`, `walk.rs`, the inserter cache of `arena/tree.rs` | `root`, `latch`, `body` are the heap; `th` is each thread's stack; `limbo` says which pins keep a retired node; `dict`, `seen` are history: the abstract map per generation (a `clear` starts one) |
| `Cursor` | `raw/cursor.rs`, `prune_all`'s repin | extends `RawTree` with `cur`, the cursor of one scanning thread (two ends, each with its frames, batch and last key); `stay`, `ever` are history: the keys present throughout the scan, the leaves present at some time in it |
| `VersionChain` | `versioned/tree.rs`, `versioned/node.rs`, `ChainLock` | `leaf`, `node` are the versioned leaves and version nodes; `slot`, `tree` stand for the radix tree; `len`, `limbo`, `dict`, `seen` as above |
| `Arena` | `arena/mod.rs` | `id`, `cursor`, `tlab` as in the code; `blocks` is history: the ranges in use |
| `Shrink` | `raw/shrink.rs` | extends `Cursor` (and so `RawTree`) with `shr`, the walk's stack and the pass's plan and latches; `alone` is history: nobody else has run since the pass began |
| `NodeMap` | what `raw/node.rs` promises | abstract: `map` from bytes to children, `exact`, `prefix`, and `version`, which counts its changes |
| `NodeLayout` | `raw/node.rs`, `simd.rs` | `node` is the arrays, index and bitmap; `w` the stores a writer has still to do, `r` the loads of a reader; `before`, `gone` are history |
| `StripedLen` | the counter of `raw/mod.rs` | `stripes`, `next`, `own` as in the code; `call` the update a thread is in; `sum` the thread in `len()`; `during` is history: the totals it could have returned |
| `ArenaInsert` | `arena/{tree,versioned_tree,storage,node,map,versioned_map}.rs`, `Prepared` and `Unpublished` | `used` bytes; `slot` the place of a key under each root; `leaf`, `ver`; `retired` the lists of retired leaves and versions, by head and link; `owned`, `nodes` are history: who owns each key, value and inner node, and how often it was dropped |
| `Handles` | `lib.rs`, `set.rs`, `entry.rs`, `iter.rs`, `guard.rs`, `tree.rs` | `map`, `detached` the trees; `mem` the leaves by address; `epoch`, `local`, `garbage` crossbeam; `guards`, `user`, `handles`, `iter`, `tls` what a thread holds |
| `VersionReads` | `versioned/{map,iter,entry}.rs` and their arena twins | extends `VersionChain` with `rd`, each reader's handle and its last answer |
| `MC*` | | thread programs and small sets for TLC |

How they compose: `RawTree` reads a node in one step because `SnapshotRead` (proved)
makes a validated read of several fields one snapshot, and takes a latch in one step
because `UpgradeKeepsView` (proved) makes what was read before an upgrade true under
the latch. `VersionChain` uses the tree as `RawTree` specifies it: a lookup takes effect
at one moment, an insert or remove is a descent and a later commit under the node's
latch, and a `clear` may detach that node in between.

**RawTree.** An operation descends one node at a time: load the pointer, read the
version, couple to the parent (R4), look, validate. Its look decides on a *commit*, a
sequence of primitive steps (lock the parent, re-check its slot, upgrade, add to `len`,
store, mark, release, retire ...) in the order of the code's statements; each is one
action, so any other thread may run between two of them. A failed upgrade or re-check
releases what is held and starts again from the root, as `continue 'retry` does.

**Cursor.** Composes with `RawTree`: its next-state relation is a step of any thread in
the tree, or a step of the scanner, which is pinned while the iterator lives. Loading the
root, reading a version, coupling, looking at a node and validating are steps of their
own; what touches only the cursor (bounds, crossing, batches) runs with the access before
it. Both directions are one definition, read through `Before` and `After`.

**VersionChain.** Same style. Under the chain latch a writer computes its position and
then runs its commit step by step (store the link, mark superseded, add to `len`,
unlock, retire); lock-free readers load the head and follow one link per step. Unlinking
a leaf follows `unlink_leaf` and `remove_confirmed`: find the leaf, latch its node, wait
for the chain latch under it, check, kill, unlink, count, release, retire.

**Arena.** The load of the cursor, each bounds check and each compare-and-swap are
steps of their own; a thread's chunk slots are private and need none.

**Shrink.** Composes with `Cursor` and `RawTree`: a step is one of the pass, of the scan or
of any other thread in the tree, so passes and scans run beside each other. The pass decides from a validated look, takes the latches of parent, node and
(for a merge) child, checks again, and commits by the same primitive steps as writers.

**NodeLayout.** One writer runs the stores of an insert, replace, remove or prefix change
under the latch; one reader runs the loads of a lookup, ordered step or prefix load and
validates at the end; `Copy` is growth and shrinking to another layout. `ImplementsNodeMap`
is the refinement: with the fields as they were at the last unlock read as a map, every
behaviour of the stores is one of `NodeMap`, where a write is one step, taken at the unlock,
and a copy to another layout none; `ReadExact` says that a validated read returns what that
map holds. That is what lets `RawTree` treat a node's children as a function.

**StripedLen** stands for the counter that `RawTree` and `VersionChain` keep as one
number: there, when `len` is changed is modelled; here, what the sum over stripes may
return meanwhile.

**ArenaInsert.** Allocation and ownership of one insert, with a failure possible at each
allocation, against everything that takes leaves and versions out. The place of a key is
one slot with a version (`Reshape` is any change to the tree around it by other keys), a
hinted insert (`TryFast`) may find its place under a root that a `clear` has detached, a
critical section under a chain latch is one step; the step-by-step protocols are those of
`RawTree` and `VersionChain`. Retiring is step by step: load the list's head, link to it,
compare-and-swap, link again after a lost race; `DropMap` follows the links.

**Handles.** A tree write is three steps: the one store that takes effect (`RawTree` shows
that there is one), `mark_removed` of the leaf it took out, and the retirement. The latch
that the code holds from the store to the mark is left out, which only adds behaviours;
handles ask `is_removed`, and lookups read, at any moment between them. A thread's
participant has an id; it may be destroyed and, where std keeps thread locals under OS keys,
be initialised again with another Local and another id (`Teardown`, `Reinit`).
A call pins, acts, and either unpins or leaves the pin to the handle it returns; a handle
holds a guard of its own or borrows the caller's, and may be cloned, repinned beside, and
outlive its thread's participant. A writer that was below the root when `clear` swapped it
goes on in the detached tree, slot by slot until the sweep has come there (`Obsolete`).
Freed addresses are reused.

**VersionReads.** Composes with `VersionChain`: readers walk by that module's own lock-free
steps, beside its writers, and keep the version they found.

Abstractions, all on the side of more behaviours or of data only:

- Memory is sequentially consistent. The fences (W1, R5) and acquire/release pairs are
  what makes that a fair reading of the latch; the repository's loom tests cover them.
- Keys are short byte sequences, values are identities of the writing call, versions are
  small integers. In `RawTree` node kinds are capacities; how a kind stores its children
  is `NodeLayout`'s.
- A spurious failure of a weak compare-and-swap repeats the same step and is left out
  where it changes nothing; where the loop does something in between it is kept
  (`ArenaInsert!Push`).
- The epoch collector frees an object when every thread that was pinned when it was
  retired has unpinned: the earliest moment crossbeam may choose.
- A prune's closure is a constant: every value or no value is a tombstone.
- In `VersionChain` a lookup is never held up by a latched node, which is the case of a
  leaf that is the root itself and a superset of the others; the superseded flags of
  versions detached together are set in one step (nobody but the latch holder reads
  them before the unlock); a `clear` walks one node per generation.
- `len` is one counter in `RawTree` and `VersionChain`; its stripes are `StripedLen`'s.
- The compares of `simd.rs` work on the loaded words, so they are part of the last load.
- crossbeam-epoch is external: an epoch advances when every pinned participant has reached
  it, and what was retired two epochs ago may be freed.

## 3. Runs

State counts are distinct states; every passing run is exhaustive within its bounds.

| run | question | states |
|---|---|---|
| `latch` | Can two threads that read, upgrade, lock, cache a version, store and release make a reader validate a torn read, two guards coexist, an upgrade act on stale data, or an obsolete node change, with a counter that wraps? Does a blocking `lock()` return? | 143 000 |
| `tree` | Growth, prefix split, leaf split, replace and fill of one node, crossed by a second insert or a remove and a lookup; an arena inserter that writes through a cached node others fill, grow or unlink; removes that empty a chain of three nodes and follow up to the root, against removes, inserts and splits on the same path; `clear` of a root leaf, a node or two levels while writers go on inside. Is every call linearizable, every key reachable at every moment; is anything freed early, retired twice, left empty or miscounted? | 1.3 M |
| `walks` | A scan from both ends, of everything or of a range, while a writer grows, splits, empties or clears the tree under its frames, or two removes empty a node and follow up; `prune_all` repins in between. `shrink_to_fit` unlinks, collapses, merges and shrinks nodes while two writers insert, remove or clear in them, and under the frames of a scan. Is every key present throughout yielded once and in order, are both walks protected, does the tree keep its promises, and does a pass that ran alone leave it fitted? | 1.3 M |
| `walks_live` | Does every call on the tree return, every step of a scan, and every pass? | 78 000 |
| `chain` | Writers and a prune on one chain of up to three versions, a lock-free reader on it; the leaf is unlinked and put back under writers that found it before; `clear` kills chains that writers edit, prune and unlink; a reader captures a version, reads again through its handle or lists the chain meanwhile. Is every call atomic, do prunes keep snapshots, is what a reader is told true? | 1.7 M |
| `chain_live` | Does every versioned call return? | 23 000 |
| `arena` | Three threads, one in thread-local teardown, race for two arenas that share one chunk slot per thread, one of them reset: is a byte handed out twice, a request refused that fits, an allocation stuck? | 782 000 |
| `layout` | The four layouts, store by store against load by load: is a validated read exact, is an unvalidated one never a child that was gone when it began, and do they implement `NodeMap`? | 1.6 M |
| `striped_len` | What may `len()` return while threads insert, remove, clear and end, and stripes wrap? | 2.9 M |
| `arena_insert` | Plain and versioned maps in an arena that runs full at any allocation, with inserts that retry and lose races, deletes, removes, prunes and clears and the retired lists they race for, up to the drop of the map: is every key and value dropped exactly once, nothing published taken back, and does a plain insert stay within `max_insert_bytes`? | 4.3 M |
| `handles` | Handles, clones, iterators and guards over entries that another thread replaces, removes and clears, with address reuse and participants that end and come back: does each keep its entry, is each entry taken once, when may `is_removed` not yet be true, do pins balance, is everything freed at the end? | 1.1 M |
| `tree_hint_clear` | The finding of section 4. | violation |

`RawTree`, `VersionChain`, what extends them, `ArenaInsert` and `Handles` run *programs*:
each thread does a sequence of calls, each picked from a set. A run may have several (`Programs`), of which a behaviour picks one
at the start. The programs listed in `Arena` are on the arena storage, which never frees a
node, the others on the heap, where freed addresses come back. Several properties are
conjunctions of named parts (`TreeIntact`, `ScanExact`, `ReadsSound` ...), each with its own
comment; most have one mutant per part.

What a run's properties say is written above each definition. Each has a mutant, a
plausible slip in one mapped definition (a guard dropped, a step moved, a reset
forgotten), under which TLC finds it violated; the mutated forms stand before the
originals, marked `mutant`.

### Bounds, and why they are enough

- **Threads.** Two on the latch (proved for any number). Elsewhere two writers and a
  reader or scanner, after a loader thread (`Loader`) has built one of several starting
  states. The protocols are pairwise (a writer against the one that
  invalidates its decision) and the third thread observes; `clear` and follow-up runs
  have three active writers.
- **`MaxPrefix` 1 in `tree`, `Capacity` <<2, 3>>, three bytes.** A prefix is full with one byte, so
  a key of six bytes makes a chain of three nodes; a node of the first kind is full with
  two children and grows once. Keys include the empty one, a key that ends in a node and
  a key off its prefix.
- **`NodeIds` 6, `LeafIds` 4, version nodes 9.** Enough for every program; freed
  addresses are used again on the heap, so ABA on addresses happens.
- **`VersionMod` 3** (2^62 in the code): the counter wraps within a run.
- **`Batch` 2** (16), **bytes 0 to 2** (0 to 255) for scans: a node's leaves take two
  batches, and positions run past both ends of the byte range. `MaxRepins` 1.
- **`MaxAttempts` 2** (64): a prune starts again once and then gives up.
- **Arena: `Unit` 4 (64), `Share` 2 (32), `MaxChunk` 12 (16 KiB), capacities 40 and 16,
  `Slots` 1 (4).** A chunk of the first arena serves two requests and the second arena
  fills up; a slot is evicted as soon as the other arena is used. `MaxAllocs` (3, 1, 1) and
  `MaxResets` bound the calls.
- **Shrink: `MaxPrefix` 2, bytes 0 to 2, `ATTEMPTS` 2.** A merge of two prefixes fits or does
  not; a node is tried again once and then left alone. The programs thin the tree out for a
  merge, a collapse and a smaller layout; `Passes` bounds the calls.
- **NodeLayout: capacities 2, 3, 3, 4; `TopByte` 3 (255), `WordBits` 2 (64), `HalfKeys` 2
  (8).** Every layout can be full, growth and shrinking reach each from its neighbour, the
  bitmap has two words and the keys of a Node16 two halves. `MaxWrites` 2: a byte is taken
  out and put back, or two writes cross, under one read.
- **StripedLen: `STRIPES` 2 (8), `Width` 4 (64), three threads** (symmetric: none is
  named), so two share a stripe. `MaxLive` and `MaxDuring` 2, below the range of a word as
  entries are in the code.
- **ArenaInsert: sizes counted in objects, `Capacity` 18, of which 11 or 15 (versioned) and
  0 or 12 (plain) are used before,** so that each allocation of an insert is the failing one;
  one `Reshape` for versioned maps and two for plain ones, `ATTEMPTS` 2 (64); two roots, one
  `clear`. `Node4s` 6: a key long enough for a chain of five and a split. Four leaves and
  versions and 17 nodes: no program needs more, and none is used again.
- **Handles: two threads, two keys, four addresses for five entries, three guards and
  handles each, four epochs, `MaxParts` 2.** An address is freed and reused within a run;
  nested pins, a repin beside a held handle, and a clone on a thread whose participant came
  back with another id happen.
- **VersionReads: two writers, one reader, three versions.**

### Fairness

Weak fairness of each thread's steps: the operating system runs every runnable thread.
No fairness is assumed of starting a call, of which thread wins a race, or of the choice
between operations. The latch's run assumes in addition that guards are
released, which RAII guarantees; `FairShrinkSpec` adds the steps of a pass and of a scan's
call that have begun, and nothing makes one begin. Where a loop may lose races for ever in principle
(optimistic restarts), each loss means that another thread made progress, and programs
are finite.

## 4. Findings

**A hinted insert can land in a detached tree** (`tree_hint_clear`). `insert_at_hint`
(`raw/write.rs`) writes into the node it remembers whenever the node's version is
unchanged. `clear` swaps the root first and marks the detached nodes obsolete later,
one at a time. An `ArenaVersionedInserter::insert` that *begins* after the swap can
still find its cached node unchanged, insert there and return success; the walk then
discards the key. `SAFETY.md` says that point operations are linearizable and that
`clear()` is linearizable at its root swap. The ordinary path always starts at the
root and has no such window (`tree`, its last program).

Observations made while modelling, where a doc says more than the code does; the properties
above are stated so that they hold of the code:

- *`len` is counted after the publishing store in a chain.* `apply_locked`
  (`versioned/tree.rs:249`, and the arena's `apply`) stores the new head and then adds the
  change in liveness: a single writer that gives a deleted key a value again makes it
  readable before `len` counts it, while Inv 12 says that `len` is incremented before the
  store that makes a live entry reachable. `len` stays non-negative (`LenNotNegative`) and
  exact at quiescence (`QuiescentChains`).
- *A versioned arena insert can take more than `max_insert_bytes`.* When `insert_hinted`
  finds that another insert has put the key there and that leaf is then unlinked,
  `ArenaVersionedTree::insert` (`arena/versioned_tree.rs:248`) starts over with a new
  `Prepared` pool; the nodes of the first stay abandoned in the arena. The plain map's
  insert keeps its pool and stays within the bound (`PlainWithinMax`).
- *`latest()` of a handle does not notice that its key was removed*
  (`versioned/entry.rs:115`): it loads the head of the leaf the handle captured, dead or
  not, while its doc says "a fresh read of the key's newest live version". While the leaf
  is in the tree the reads are current (`ReadsCurrent`).
- *`is_removed` lags behind the removal.* Its doc (`entry.rs:72`) says "`true` once this entry
  is no longer the live entry for its key". A write stores first and marks the old leaf after
  (`raw/write.rs:246`, `364`, `482`; `raw/remove.rs:129`, `214`), and neither `is_removed` nor a
  `get` of a leaf that is the root (`raw/read.rs:51`) takes a latch: a thread can read the new
  entry, or none, and still see `false` on its old handle. `clear` takes effect at the root swap
  (`lib.rs:517`) and marks the entries one by one in its walk (`raw/walk.rs:101` and below), so
  for each of them the answer is wrong for as long as the walk has not come to it.
  `RemovedTold` says how far this goes: never `true` of the live entry, and `false` of another
  only until the call that took it out has marked it, which it does before it returns.

## 5. Proofs

`HybridLatchProofs` proves, for every set of threads, fields and values and every
`VersionMod >= 2`:

- `TypeCorrect`, `MutexCorrect`, `SnapshotCorrect`, `UpgradeCorrect`: `[]TypeOK`,
  `[]MutualExclusion`, `[]SnapshotRead`, `[]UpgradeKeepsView`;
- `ObsoleteCorrect`: the action property `ObsoleteIsFinal`.

The run `latch` checks the last four on an instance, and `LockReturns`, which is not proved.

None of the properties is inductive alone: that a validated read is a snapshot depends
on what happened between its loads. The inductive invariant `IInv` adds what connects
them: while the latch is free the fields are the committed ones (`FreeIsCommitted`); a
snapshot taken `age` releases ago lies exactly `age` versions back on the wrapped
counter (`AgeIsDistance`), so an equal version means age 0; at age 0 nothing was
committed (`YoungIsCurrent`) and, with no writer inside, nothing torn was loaded
(`YoungIsWhole`); only holders have stored (`OnlyHoldersStore`); an obsolete latch is
free (`ObsoleteIsFree`). `CleanMeansCurrent` draws the conclusion that `validate`,
`try_upgrade` and `lock` share, and there is one lemma per action.

Assumptions: `VersionModAssumption`, `UnreadAssumption` and, in the guard of a release,
`NoFullTurn`: no thread still means to use a snapshot that would then be a whole turn of
the counter old (2^62 writes to one node within one optimistic section). Without it the
property is false of the code.

`ArenaProofs` proves, for any threads, arenas, capacities, requests and numbers of slots
and resets, `BytesExclusiveCorrect` (`[]BytesExclusive`) and `FullOnlyWhenFullCorrect`
(`[]FullOnlyWhenFull`). Assumed are the shape of the constants (`ArenaAssumption`: sizes
positive, alignments at most the unit that an arena is aligned to, finitely many arenas).
That two blocks are disjoint is not inductive: a block is carved from a chunk, which was
claimed from a cursor that was read earlier. `IInv` adds that identities are fresh
(`IdsFresh`), that blocks and chunks of the current identity of an arena lie below its
cursor (`ChunksBelow`, `BlocksBelow`), that the cursor stays inside (`CursorsInside`), and
what a call between its load and its compare-and-swap still relies on (`CallOK`). A reset
needs no more: the chunks that threads keep bear an identity that no arena has any longer.
That a refusal is justified follows from `CallOK` at `full`.

`HandlesProofs` proves, for any threads, programs of calls, keys, addresses and numbers of
guards, handles, epochs and entries, the four invariants of the run `handles`:
`HandleValidCorrect`, `TakenOnceCorrect`, `RemovedToldCorrect` and `ReclaimedCorrect`.
Assumed (`HandlesAssumption`): keys and addresses are positive numbers, keys are finitely
many, programs are sequences of sets of calls. The invariant has one layer per question,
each resting on the ones before:

- `RunsOK`: what each call has in hand at each step; a thread has detached slots only
  inside its own `clear`.
- `GuardsOK`: who holds each guard. A guard from `pin()` is only ever borrowed, an owned one
  has one holder, the `rc` of a shared one is the number of its holders, none is held by
  nobody, and a Local's pins are exactly the guards on it. This is what makes `PinsHeld`
  inductive, and it is where cloning, nested pins and teardown are decided.
- `EpochsOK`: the epoch is at most one ahead of any pinned Local, so that what was retired
  at or after that Local's epoch is not yet two epochs old.
- `LeavesOK`: each leaf that is not free has one owner: a slot of one tree, the insert that
  has not published it, the call that has not retired it, or one deferred destructor; no two
  leaves hold the same entry, and an entry that was taken is unlinked for good.
- `RefsOK`: what a handle or an iterator refers to is linked or unlinked, holds the entry it
  had, and was not retired before the epoch of the Local that protects it.

`RemovedTold` needs one more invariant on top of these (`MarksOK`, proved in `MarksInvariance`):
only an unlinked leaf is marked, and an unlinked leaf without a mark is in the hands of a call
at its mark. With `LeavesOK` a leaf that a handle still refers to and that is neither marked nor
live is thus either such a leaf or in a slot of a detached tree, which by `RunsOK` only a
running `clear` has.

`Collect` keeps the last by the arithmetic of `EpochsOK`; `repin` moves the epoch of a Local
forward only when it has one pin, which by `GuardsOK` is the repinned guard's own, and no
handle borrows that while it is repinned.

`StripedLenProofs` proves, for any number of threads and stripes and any width of a word,
`StripesAddUpCorrect` and `LenHonestCorrect`. Assumed (`StripeAssumption`): finitely many
threads, and that entries plus the updates during one call stay below half the range of a
word. `StripesAddUp` is inductive once it is read modulo the word (`CountOK`). What `len()`
returns is not: the invariant follows `Coming`, what the call will return if the stripes it
has still to read do not change. `Coming` lies within the updates noted so far (`WithinOK`),
is the current total while there were none (`ExactOK`), and, with a single writer, is the
total of some moment once `len()` has passed that thread's stripe (`OneWriterOK`): the
updates it sees are those before that moment, also when the thread ends in between and its
last updates go to the first stripe. The module also proves, by taking a smallest
counterexample, what the library's sum over a finite set does: it does not depend on the
order, and changes by as much as one of its elements changes.

`NodeLayoutProofs` proves, for any capacities that grow from layout to layout, any number of
key bytes, words and halves, and any number of writes (`LayoutAssumption`), everything that the
run `layout` checks: `UnlockedNodesSound` (`[]LayoutSound`), `LayoutsImplementNodeMap` (the
refinement of `NodeMap`), `ReadsNeverStale` (`[]NeverStaleChild`) and `ValidReadsExact` (the
action property `ReadExact`). A node in the middle of an insert or a remove is not sound: keys
and children have moved by one slot up to some point. The invariants say what connects it to
sound ones:

- `WriterInv`: whatever is stored and still to be stored, it *ends* in a sound node that is one
  change of `NodeMap` away from the node as it was at the last unlock (`before`), without the
  child taken out. Every single store keeps this, since it only moves a store from what is to be
  done to what is done; the work is at the start of each write, where the stores of each layout
  are shown, by induction along them, to end in the node meant. Growing and shrinking put a node
  together by pushing its children in byte order, which is shown to give the same map. The
  refinement follows with `before` read as the map: only the unlock changes it.
- `ReaderInv`: every pointer in the node, in any half-written state, is alive, so nothing a
  search loads was gone before the search began; and the byte, slot and count it goes on with
  are inside the layout.
- `ExactInv`: while the version that the search read is still the node's, what it has loaded so
  far is what `before` holds, and what it has skipped is not what it is for: of the keys loaded
  word by word, of the bitmap up to the byte it has reached, and of a prefix.

`ArenaInsertProofs` proves, for any threads, keys, programs, capacity, sizes and any `Node4s`
(`ArenaInsertAssumption`: no attempt needs more nodes of a type than `max_insert_bytes` counts;
calls and ids are finite), three invariants of the run `arena_insert`: `InsertWithinMax`
(`[]PlainWithinMax`), `NodesPreparedOnce` (`[]PreparedOnce`) and `PublishedNeverDropped`
(`[]PublishedStays`). The layers of the invariant:

- `Base`: the shapes of the state, and which fields a call may use at each step (`ControlOK`).
- `BudgetInv`: a plain insert's bytes are those of its leaf and of its pool, and a pool never
  holds more nodes of a type than one attempt needs. An attempt that starts over marks its nodes
  unused (`reset`) and makes a new one only when all of that type are in use by *this* attempt
  (`Prepared::node`); that bound, and not the number of attempts, is why it stays within the
  maximum.
- `PoolInv`: each node ever made is linked, freed or in exactly one pool. `commit` and `release`
  cut a pool into what it used and the rest.
- `HoldInv`: what an insert has allocated and not published is its own: nothing in the tree, on
  a chain or in the hands of another call leads to it, and everything that can be reached, or
  that a call has found, is published. For chains it is enough that each link leads from one
  published version to another, which the lemmas on `Chain` carry along.
- `OwnInv`: the key and value of a call that still holds them, and of every call not begun, are
  neither published nor dropped nor given back. So what a full arena or a lost race gives back
  or drops was never published, which is `PublishedStays`.

Only model-checked:

- liveness (`LockReturns`, `AllocReturns`, `CallsReturn`, `WalksReturn`, `ChainCallsReturn`):
  outside the prover's reach;
- `DroppedExactlyOnce` and `QuiescentLen` of `ArenaInsert`: they count, at the drop of the map,
  what is found along the retired lists and in the whole tree, so an invariant would have to
  follow the order of lists of any length through half-done pushes, and a sum over all leaves;
- the safety properties of `RawTree`, `Shrink`, `Cursor`, `VersionChain` and `VersionReads`: what
  is reachable from the root or a head in a heap of any shape, during every half-done commit of
  every operation, is an induction over paths that the prover's library theorems cannot be
  used for here.

## 6. Not modelled

- Unwinding: `AbortOnUnwind` turns a panic in a commit into an abort, after which there is
  no state; in a prepare phase only the guard's `Drop` runs, which `HybridLatch!Drop` covers.
- Weak memory and the atomics shims: the models are sequentially consistent, the loom
  tests cover the orderings.
- Key encodings (`key.rs`): user code to the tree, which sees bytes.
- `VersionedEntryRef` as returned by the deprecated `remove()`, and
  `ArenaVersionedEntryRef::versions`, whose walk is that of `get_all_versions`.
- Tests, benchmarks, examples and test hooks.

## 7. Plan

1. Done: latch, raw tree, cursor, version chains, arena; then shrink, node
   layouts and their refinement, the striped counter, arena inserts and retired lists, handles and guards,
   versioned reads.
2. An abstract map with atomic operations, and `RawTree` and `VersionChain` shown to
   implement it (today `dict` plays that part inside the modules).
3. Proofs: done for `HybridLatch`, `NodeLayout`, `Arena`, `Handles` and `StripedLen`, and for
   `ArenaInsert` but for its counts. Next the chain-latch protocol of `VersionChain`: a leaf that
   is not in the tree is dead, and only its latch's holder changes a chain; then
   `DroppedExactlyOnce`, on top of `HoldInv`.

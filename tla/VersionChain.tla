----------------------------- MODULE VersionChain -----------------------------
(***************************************************************************)
(* The version chains of src/src/versioned: each key's leaf holds a list   *)
(* of versions, newest first, which writers edit under the leaf's chain    *)
(* latch and readers walk without any latch.  A leaf is unlinked (by       *)
(* remove_key, remove_version, a prune or clear) after its chain latch is  *)
(* killed, and a writer that meets a dead latch looks its key up again.    *)
(*                                                                         *)
(* The radix tree below is used as RawTree specifies it: one tree node per *)
(* generation holds the leaves, a lookup is one step, and an insert or a   *)
(* remove is a descent followed by a commit under the node's latch, which  *)
(* a clear may have detached in between.                                   *)
(***************************************************************************)
EXTENDS Integers, Sequences, FiniteSets, SequencesExt, FiniteSetsExt

CONSTANTS
  Threads,     \* the threads that use the map
  Loader,      \* the thread that runs first, alone, to build a starting map
  Keys,        \* the keys in use
  Versions,    \* the versions in use: a set of integers
  LeafIds,     \* addresses of leaves: positive integers
  NodeIds,     \* addresses of version nodes: positive integers
  MaxAttempts, \* how often a prune starts again (64 in the code)
  Programs     \* the scenarios: each says what the threads may do, a sequence of
               \* sets of operations for each of them

ASSUME ChainIdsAssumption == 0 \notin LeafIds /\ 0 \notin NodeIds

ASSUME ChainLoaderAssumption == Loader \in Threads

ASSUME AttemptsAssumption == MaxAttempts \in Nat \ {0}

VARIABLES
  slot,   \* per generation of the tree, the leaf of each key (0: none)
  tree,   \* per generation, the latch of the node that holds the leaves
  leaf,   \* the fields of every leaf
  node,   \* the fields of every version node
  len,    \* the live-key counter
  limbo,  \* per retired leaf or node, the pinned threads that may reach it
  th,     \* the local state of every thread
  dict,   \* history: the versions of each key, per generation
  seen    \* history: what a running call's key held meanwhile

vars == <<slot, tree, leaf, node, len, limbo, th, dict, seen>>
shared == <<slot, tree, leaf, node, len, limbo>>
ghost == <<dict, seen>>

-----------------------------------------------------------------------------
(* What a key holds: for every version a value, a tombstone, or nothing *)

None == <<>>
Tomb == <<"tombstone">>
Nothing == [v \in Versions |-> None]

Held(d) == {v \in Versions : d[v] # None}

\* The newest version at or below max, with its value; None if there is none.
Newest(d, max) ==
  LET low == {v \in Held(d) : v <= max}
      top == Max(low)
  IN  IF low = {} THEN None ELSE <<top, d[top]>>

Latest(d) == IF Held(d) = {} THEN None ELSE Newest(d, Max(Versions))

\* Inv 12: a key counts if its newest version is a value.
Live(d) == Latest(d) # None /\ Latest(d)[2] # Tomb
Count(b) == IF b THEN 1 ELSE 0

\* What a snapshot at s sees.
Visible(d, s) ==
  LET top == Newest(d, s)
  IN  IF top = None \/ top[2] = Tomb THEN None ELSE top

\* Without every version older than the newest at or below min.
Trimmed(d, min) ==
  LET top == Newest(d, min)
  IN  [v \in Versions |-> IF top # None /\ v < top[1] THEN None ELSE d[v]]

-----------------------------------------------------------------------------
(* Memory *)

NoLeaf == [used |-> FALSE, key |-> None, gen |-> 0, head |-> 0, lock |-> "free", slot1 |-> FALSE]
NoNode == [used |-> FALSE, ver |-> 0, val |-> None, next |-> 0, sup |-> FALSE,
           inline |-> FALSE, leaf |-> 0]

\* The generation that the root belongs to.
Gen == Len(slot)

\* The nodes from n on, as a walk that meets no writer finds them.
ChainFrom(n) ==
  LET on[m \in NodeIds \cup {0}, k \in 0 .. Cardinality(NodeIds)] ==
        IF m = 0 \/ k = 0 THEN <<>> ELSE <<m>> \o on[node[m].next, k - 1]
  IN  on[n, Cardinality(NodeIds)]

Chain(l) == ChainFrom(leaf[l].head)

IsTombstone(n) == node[n].val = Tomb

\* tree.rs: find_le_ptr, under the latch.  0 if every version is newer.
FindLe(l, max) ==
  LET low == SelectSeq(Chain(l), LAMBDA n : node[n].ver <= max)
  IN  IF low = <<>> THEN 0 ELSE Head(low)

\* The node just above version v in the chain of l (0: v is the newest).
Above(l, v) ==
  LET high == SelectSeq(Chain(l), LAMBDA n : node[n].ver > v)
  IN  IF high = <<>> THEN 0 ELSE Last(high)

\* remove_version: v is the only version of l, whose head is n.
Only(n, v) == node[n].ver = v /\ node[n].next = 0

FreshLeaf == Min({l \in LeafIds : ~leaf[l].used})
FreshNode == Min({n \in NodeIds : ~node[n].used})

\* versioned/node.rs: alloc_version.  The leaf's second inline slot serves
\* once; after it, versions live on the heap.
NewVersion(l, v, x, next) ==
  [NoNode EXCEPT !.used = TRUE, !.ver = v, !.val = x, !.next = next,
                 !.inline = ~leaf[l].slot1, !.leaf = l]

\* VersionedLeaf::drop: the inline slots and the heap nodes of the chain go
\* with their leaf.
OwnedBy(l) == {n \in NodeIds : node[n].used /\ node[n].leaf = l /\ node[n].inline} \cup ToSet(Chain(l))

-----------------------------------------------------------------------------
(* Threads *)

NoOp == [kind |-> "none", key |-> None, ver |-> 0, dead |-> FALSE]

Resting ==
  [pc |-> "idle", prog |-> 0, nops |-> 0, op |-> NoOp, gen0 |-> 0, gen |-> 0,
   leaf |-> 0, top |-> 0, cur |-> 0, slow |-> FALSE, attempt |-> 0,
   todo |-> <<>>, then |-> "done", work |-> <<>>, total |-> 0, res |-> None, lin |-> <<>>]

Active(t) == th[t].pc # "idle"
Pinned == {t \in Threads : Active(t)}
Op(t) == th[t].op
Goto(t, pc) == th' = [th EXCEPT ![t].pc = pc]
Conclude(t, res) == th' = [th EXCEPT ![t].pc = "done", ![t].res = res]

\* The value or tombstone that an insert writes.
Written(t) == IF Op(t).dead THEN Tomb ELSE <<t, th[t].nops>>

\* The primitive steps of a commit.
\* A pointer store in the chain of l (above = 0: its head), which takes effect.
Link(above, n) == [do |-> "link", above |-> above, node |-> n]
MarkSuperseded(ns) == [do |-> "mark", nodes |-> ns]
LenAdd(d) == [do |-> "len", by |-> d]
Unlock == [do |-> "unlock"]
RetireVersions(ns) == [do |-> "retire", nodes |-> ns, leaves |-> {}]
RetireLeaves(ls) == [do |-> "retire", nodes |-> {}, leaves |-> ls]
Kill == [do |-> "kill"]
\* The unlinking store in the tree, which takes effect.
Unlink == [do |-> "unlink"]
Unlatch == [do |-> "unlatch"]

\* Run the steps `todo', then conclude with res, or go on at pc `then'.
Run(r, todo, then, res) ==
  [r EXCEPT !.pc = "run", !.todo = todo, !.then = then, !.res = res]

\* The key of t's call now maps to d in generation g; running calls take note.
TakeEffect(t, g, d) ==
  LET k == Op(t).key
  IN  /\ dict' = [dict EXCEPT ![g][k] = d]
      /\ seen' = [u \in Threads |-> IF Active(u) /\ Op(u).key = k /\ th[u].gen0 <= g
                                    THEN seen[u] \cup {d} ELSE seen[u]]

-----------------------------------------------------------------------------
(* Lookups and readers *)

\* What a call reports when its key, or the version it asks for, is not there.
NotThere == [read |-> None, removehead |-> None, removekey |-> FALSE, removever |-> FALSE,
             prune |-> 0]

\* Where a call goes on with the leaf it found.
WithLeaf == [insert |-> "lock", removehead |-> "lock", read |-> "head", removever |-> "head",
             prune |-> "head", removekey |-> "seek"]

\* raw.get.  While a node's latch is held its readers wait, but not those of a
\* leaf that is itself the root: both are allowed for.
RawGet(t) ==
  /\ th[t].pc = "get"
  /\ LET l == slot[Gen][Op(t).key]
         k == Op(t).kind
     IN  \/ /\ l # 0
            /\ th' = [th EXCEPT ![t].leaf = l, ![t].pc = WithLeaf[k]]
         \/ /\ l = 0 /\ k = "insert"
            /\ th' = [th EXCEPT ![t].slow = TRUE, ![t].pc = "descend"]
         \/ /\ l = 0 /\ k # "insert"
            /\ Conclude(t, NotThere[k])
  /\ UNCHANGED <<shared, ghost>>

\* The head is loaded without the latch.
LoadHead(t) ==
  /\ th[t].pc = "head"
  /\ LET h == leaf[th[t].leaf].head
     IN  th' = [th EXCEPT ![t].top = h, ![t].cur = h,
                          ![t].pc = IF Op(t).kind = "removever" THEN "only" ELSE "walk"]
  /\ UNCHANGED <<shared, ghost>>

\* find_le, find_le_ptr: one node, and the link to the next older one.
WalkStep(t) ==
  /\ th[t].pc = "walk"
  /\ LET n == th[t].cur
         o == Op(t)
         dead == IsTombstone(n) \/ o.dead
     IN  \/ /\ node[n].ver <= o.ver /\ o.kind = "read"
            /\ Conclude(t, <<node[n].ver, node[n].val>>)
         \/ /\ node[n].ver <= o.ver /\ o.kind = "prune"
            /\ Goto(t, IF n = th[t].top /\ dead THEN "seek" ELSE "lock")
         \/ /\ node[n].ver > o.ver /\ node[n].next # 0
            /\ th' = [th EXCEPT ![t].cur = node[n].next]
         \/ /\ node[n].ver > o.ver /\ node[n].next = 0
            /\ Conclude(t, NotThere[o.kind])
  /\ UNCHANGED <<shared, ghost>>

\* remove_version, before any latch: is it the key's only version?
CheckOnly(t) ==
  /\ th[t].pc = "only"
  /\ Goto(t, IF Only(th[t].cur, Op(t).ver) THEN "seek" ELSE "lock")
  /\ UNCHANGED <<shared, ghost>>

-----------------------------------------------------------------------------
(* Writers under the chain latch *)

\* ChainLock::lock on a dead latch: the caller looks its key up again, and an
\* insert that already has a leaf of its own tries to publish it again.
LookAgainStuck(r) == "lock"                             \* mutant
LookAgain(r) == IF r.slow THEN "descend" ELSE "get"

LockDead(t) ==
  /\ th[t].pc = "lock" /\ leaf[th[t].leaf].lock = "dead"
  /\ IF Op(t).kind = "prune" THEN Conclude(t, 0) ELSE Goto(t, LookAgain(th[t]))
  /\ UNCHANGED <<shared, ghost>>

\* ChainLock::lock succeeds for t's call of this kind.
LockFree(t, kind) == th[t].pc = "lock" /\ Op(t).kind = kind /\ leaf[th[t].leaf].lock = "free"

\* leaf, with l locked by a writer that may have taken its second inline slot.
Locked(l, allocated) == [leaf EXCEPT ![l].lock = "held", ![l].slot1 = @ \/ allocated]

\* retire_version: inline versions are left to their leaf.
HeapOnlyEvery(ns) == ns                                  \* mutant
HeapOnly(ns) == {n \in ns : ~node[n].inline}

HeadLive(h) == Count(h # 0 /\ ~IsTombstone(h))

\* The older neighbour of a version that takes its place above or for cur.
OlderThanKept(cur, v) == cur                             \* mutant
OlderThan(cur, v) == IF cur # 0 /\ node[cur].ver = v THEN node[cur].next ELSE cur

\* The change in live keys when a version, live or not (0 or 1), is linked
\* below `above', where h is the head.
LiveDeltaAnywhere(above, h, live) == live - HeadLive(h)  \* mutant
LiveDelta(above, h, live) == IF above = 0 THEN live - HeadLive(h) ELSE 0

\* The steps that publish `new', which replaces the versions in `gone'.
ApplyStepsRetireFirst(above, new, gone, delta) ==        \* mutant
  <<RetireVersions(HeapOnly(gone)), Link(above, new), MarkSuperseded(gone), LenAdd(delta), Unlock>>
ApplySteps(above, new, gone, delta) ==
  <<Link(above, new), MarkSuperseded(gone), LenAdd(delta), Unlock, RetireVersions(HeapOnly(gone))>>

\* apply_locked: a new version, in place of one of the same number if any.
\* The position is found under the latch.
ApplyLocked(t) ==
  /\ LockFree(t, "insert")
  /\ LET l == th[t].leaf
         v == Op(t).ver
         above == Above(l, v)
         cur == FindLe(l, v)
         gone == IF cur # 0 /\ node[cur].ver = v THEN {cur} ELSE {}
         new == FreshNode
         delta == LiveDelta(above, leaf[l].head, Count(~Op(t).dead))
     IN  /\ node' = [node EXCEPT ![new] = NewVersion(l, v, Written(t), OlderThan(cur, v))]
         /\ leaf' = Locked(l, TRUE)
         /\ th' = [th EXCEPT ![t] = Run(@, ApplySteps(above, new, gone, delta), "done", delta)]
  /\ UNCHANGED <<slot, tree, len, limbo, ghost>>

\* remove_head: a tombstone of the same version takes the place of a live head.
RemoveHeadLocked(t) ==
  /\ LockFree(t, "removehead")
  /\ LET l == th[t].leaf
         h == leaf[l].head
         tomb == FreshNode
     IN  \/ /\ IsTombstone(h)
            /\ leaf' = Locked(l, FALSE)
            /\ th' = [th EXCEPT ![t] = Run(@, <<Unlock>>, "done", None)]
            /\ UNCHANGED node
         \/ /\ ~IsTombstone(h)
            /\ node' = [node EXCEPT ![tomb] = NewVersion(l, node[h].ver, Tomb, node[h].next)]
            /\ leaf' = Locked(l, TRUE)
            /\ th' = [th EXCEPT ![t] =
                   Run(@, ApplySteps(0, tomb, {h}, -1), "done", <<node[h].ver, node[h].val>>)]
  /\ UNCHANGED <<slot, tree, len, limbo, ghost>>

\* remove_version: the chain is never left empty, so the only version goes
\* with its leaf (back to the lookup).
RemoveVersionCommit(l, v) ==
  LET cur == FindLe(l, v)
      above == Above(l, v)
      head == leaf[l].head
      after == IF above = 0 THEN node[cur].next ELSE head
  IN  ApplySteps(above, node[cur].next, {cur}, HeadLive(after) - HeadLive(head))

\* Under the latch: v is the newest version, and there is no older one.
LastVersionUnchecked(l, v) == FALSE                      \* mutant
LastVersion(l, v) == Only(leaf[l].head, v)

RemoveVersionLocked(t) ==
  /\ LockFree(t, "removever")
  /\ LET l == th[t].leaf
         v == Op(t).ver
         cur == FindLe(l, v)
     IN  th' = [th EXCEPT ![t] =
           CASE cur = 0 \/ node[cur].ver # v -> Run(@, <<Unlock>>, "done", FALSE)
             [] LastVersion(l, v) -> Run(@, <<Unlock>>, "get", None)
             [] OTHER -> Run(@, RemoveVersionCommit(l, v), "done", TRUE)]
  /\ leaf' = Locked(th[t].leaf, FALSE)
  /\ UNCHANGED <<slot, tree, node, len, limbo, ghost>>

\* A prune starts again, a bounded number of times.
TryAgain(r) ==
  [r EXCEPT !.attempt = @ + 1, !.pc = IF r.attempt + 1 = MaxAttempts THEN "done" ELSE "head",
            !.res = 0]

\* prune_leaf, step 3: T, found without the latch, is still the newest version
\* at or below min_version.
StillNewest(l, n, min) == FindLe(l, min) = n /\ ~node[n].sup

\* prune_leaf, steps 3 to 5: everything older than T is detached.
PruneLocked(t) ==
  /\ LockFree(t, "prune")
  /\ LET l == th[t].leaf
         n == th[t].cur
         older == ToSet(ChainFrom(node[n].next))
     IN  \/ /\ StillNewest(l, n, Op(t).ver)
            /\ leaf' = Locked(l, FALSE)
            /\ th' = [th EXCEPT ![t] =
                   Run(@, <<Link(n, 0), MarkSuperseded(older), Unlock,
                            RetireVersions(HeapOnly(older))>>, "done", Cardinality(older))]
         \/ /\ ~StillNewest(l, n, Op(t).ver)
            /\ th' = [th EXCEPT ![t] = TryAgain(@)]
            /\ UNCHANGED leaf
  /\ UNCHANGED <<slot, tree, node, len, limbo, ghost>>

-----------------------------------------------------------------------------
(* A new leaf *)

\* raw.insert(InsertIfAbsent): the descent finds a leaf, or where ours goes.
Descend(t) ==
  /\ th[t].pc = "descend"
  /\ LET l == slot[Gen][Op(t).key]
     IN  th' = [th EXCEPT ![t].leaf = l, ![t].gen = Gen,
                          ![t].pc = IF l = 0 THEN "publish" ELSE "lock"]
  /\ UNCHANGED <<shared, ghost>>

\* Its commit, if the node is as the descent found it; otherwise it descends
\* again.  The only version lives in the first inline slot.
Publish(t) ==
  /\ th[t].pc = "publish"
  /\ LET g == th[t].gen
         k == Op(t).key
         d == [Nothing EXCEPT ![Op(t).ver] = Written(t)]
     IN  \/ /\ tree[g] = "free" /\ slot[g][k] = 0
            /\ slot' = [slot EXCEPT ![g][k] = FreshLeaf]
            /\ node' = [node EXCEPT ![FreshNode] =
                 NewVersion(FreshLeaf, Op(t).ver, Written(t), 0)]
            /\ leaf' = [leaf EXCEPT ![FreshLeaf] =
                 [NoLeaf EXCEPT !.used = TRUE, !.key = k, !.gen = g, !.head = FreshNode]]
            /\ len' = len + Count(~Op(t).dead)
            /\ th' = [th EXCEPT ![t].pc = "done", ![t].res = Count(~Op(t).dead),
                                ![t].lin = <<g, dict[g][k]>>]
            /\ TakeEffect(t, g, d)
            /\ UNCHANGED <<tree, limbo>>
         \/ /\ tree[g] # "free" \/ slot[g][k] # 0
            /\ Goto(t, "descend")
            /\ UNCHANGED <<shared, ghost>>

-----------------------------------------------------------------------------
(* Unlinking a leaf: unlink_leaf and remove_confirmed *)

\* The descent looks for this very leaf, and remembers the node it found.
Seek(t) ==
  /\ th[t].pc = "seek"
  /\ th' = [th EXCEPT ![t].gen = Gen,
                      ![t].pc = IF slot[Gen][Op(t).key] = th[t].leaf THEN "latch" ELSE "missed"]
  /\ UNCHANGED <<shared, ghost>>

\* It was not reached: Refused if its chain is dead, else Missing (a clear
\* has detached it), and then there is no such key, or a prune trims the chain.
Missed(t) ==
  /\ th[t].pc = "missed"
  /\ \/ leaf[th[t].leaf].lock = "dead" /\ Goto(t, "refused")
     \/ leaf[th[t].leaf].lock # "dead" /\ Op(t).kind = "prune" /\ Goto(t, "lock")
     \/ leaf[th[t].leaf].lock # "dead" /\ Op(t).kind # "prune" /\ Conclude(t, FALSE)
  /\ UNCHANGED <<shared, ghost>>

\* The node's latch is taken if it still holds the leaf.
LatchNode(t) ==
  /\ th[t].pc = "latch"
  /\ LET g == th[t].gen
     IN  \/ /\ tree[g] = "free" /\ slot[g][Op(t).key] = th[t].leaf
            /\ tree' = [tree EXCEPT ![g] = "held"]
            /\ Goto(t, "confirm")
         \/ /\ tree[g] # "free" \/ slot[g][Op(t).key] # th[t].leaf
            /\ Goto(t, "seek")
            /\ UNCHANGED tree
  /\ UNCHANGED <<slot, leaf, node, len, limbo, ghost>>

\* The caller's check, run under the chain latch.
AcceptsAnyPruned(t) ==                                   \* mutant
  Op(t).kind = "removever" => Only(leaf[th[t].leaf].head, Op(t).ver)
Accepts(t) ==
  LET h == leaf[th[t].leaf].head
  IN  CASE Op(t).kind = "removekey" -> TRUE
        [] Op(t).kind = "removever" -> Only(h, Op(t).ver)
        [] Op(t).kind = "prune" -> h = th[t].cur

\* The chain dies before the leaf is unlinked.
UnlinkStepsAlive(l, live) ==                             \* mutant
  <<Unlock, Unlink, LenAdd(-live), Unlatch, RetireLeaves({l})>>
UnlinkStepsKillLate(l, live) ==                          \* mutant
  <<Unlink, LenAdd(-live), Unlatch, Kill, RetireLeaves({l})>>
UnlinkStepsCountOne(l, live) ==                          \* mutant
  <<Kill, Unlink, LenAdd(-1), Unlatch, RetireLeaves({l})>>
UnlinkSteps(l, live) ==
  <<Kill, Unlink, LenAdd(-live), Unlatch, RetireLeaves({l})>>

\* confirm: under the node's latch, the chain latch is awaited; a chain that
\* the check accepts is killed and unlinked.
Confirm(t) ==
  /\ th[t].pc = "confirm"
  /\ LET l == th[t].leaf
     IN  /\ leaf[l].lock # "held"
         /\ IF leaf[l].lock = "dead"
            THEN th' = [th EXCEPT ![t] = Run(@, <<Unlatch>>, "refused", None)] /\ UNCHANGED leaf
            ELSE /\ leaf' = Locked(l, FALSE)
                 /\ th' = [th EXCEPT ![t] =
                      IF Accepts(t)
                      THEN Run(@, UnlinkSteps(l, HeadLive(leaf[l].head)), "done",
                               IF Op(t).kind = "prune" THEN Len(Chain(l)) ELSE TRUE)
                      ELSE Run(@, <<Unlock, Unlatch>>, "refused", None)]
  /\ UNCHANGED <<slot, tree, node, len, limbo, ghost>>

\* What each caller makes of a refusal.
Refused(t) ==
  /\ th[t].pc = "refused"
  /\ LET dead == leaf[th[t].leaf].lock = "dead"
     IN  \/ Op(t).kind = "removekey" /\ Goto(t, "get")
         \/ Op(t).kind = "removever" /\ Goto(t, IF dead THEN "get" ELSE "lock")
         \/ Op(t).kind = "prune" /\ dead /\ Conclude(t, 0)
         \/ Op(t).kind = "prune" /\ ~dead /\ th' = [th EXCEPT ![t] = TryAgain(@)]
  /\ UNCHANGED <<shared, ghost>>

-----------------------------------------------------------------------------
(* The steps of a commit *)

NextIs(t, do) == th[t].pc = "run" /\ th[t].todo # <<>> /\ Head(th[t].todo).do = do
Step(t) == Head(th[t].todo)
Advance(r) == [r EXCEPT !.todo = Tail(@)]
Advanced(t) == th' = [th EXCEPT ![t] = Advance(@)]

\* What the call promises to have done to its key's versions d.
Effect(t, d) ==
  LET o == Op(t)
  IN  CASE o.kind = "insert" -> [d EXCEPT ![o.ver] = Written(t)]
        [] o.kind = "removehead" -> [v \in Versions |-> IF Latest(d) = <<v, d[v]>> THEN Tomb ELSE d[v]]
        [] o.kind = "removever" -> [d EXCEPT ![o.ver] = None]
        [] o.kind = "prune" -> Trimmed(d, o.ver)

\* set_head or set_next: readers see the chain change.
LinkStep(t) ==
  /\ NextIs(t, "link")
  /\ LET l == th[t].leaf
         g == leaf[l].gen
         i == Step(t)
         before == dict[g][Op(t).key]
     IN  /\ IF i.above = 0
            THEN leaf' = [leaf EXCEPT ![l].head = i.node] /\ UNCHANGED node
            ELSE node' = [node EXCEPT ![i.above].next = i.node] /\ UNCHANGED leaf
         /\ th' = [th EXCEPT ![t] = [Advance(@) EXCEPT !.lin = <<g, before>>]]
         /\ TakeEffect(t, g, Effect(t, before))
  /\ UNCHANGED <<slot, tree, len, limbo>>

MarkStep(t) ==
  /\ NextIs(t, "mark") /\ Advanced(t)
  /\ node' = [n \in NodeIds |-> IF n \in Step(t).nodes THEN [node[n] EXCEPT !.sup = TRUE] ELSE node[n]]
  /\ UNCHANGED <<slot, tree, leaf, len, limbo, ghost>>

LenStep(t) ==
  /\ NextIs(t, "len") /\ Advanced(t)
  /\ len' = len + Step(t).by
  /\ UNCHANGED <<slot, tree, leaf, node, limbo, ghost>>

\* ChainGuard::drop.
UnlockStep(t) ==
  /\ NextIs(t, "unlock") /\ Advanced(t)
  /\ leaf' = [leaf EXCEPT ![th[t].leaf].lock = "free"]
  /\ UNCHANGED <<slot, tree, node, len, limbo, ghost>>

\* ChainGuard::kill.
KillStep(t) ==
  /\ NextIs(t, "kill") /\ Advanced(t)
  /\ leaf' = [leaf EXCEPT ![th[t].leaf].lock = "dead"]
  /\ UNCHANGED <<slot, tree, node, len, limbo, ghost>>

\* The unlinking store of remove_confirmed.
UnlinkStep(t) ==
  /\ NextIs(t, "unlink")
  /\ LET g == th[t].gen
         k == Op(t).key
     IN  /\ slot' = [slot EXCEPT ![g][k] = 0]
         /\ th' = [th EXCEPT ![t] = [Advance(@) EXCEPT !.lin = <<g, dict[g][k]>>]]
         /\ TakeEffect(t, g, IF Op(t).kind = "removever" THEN Effect(t, dict[g][k]) ELSE Nothing)
  /\ UNCHANGED <<tree, leaf, node, len, limbo>>

UnlatchStep(t) ==
  /\ NextIs(t, "unlatch") /\ Advanced(t)
  /\ tree' = [tree EXCEPT ![th[t].gen] = "free"]
  /\ UNCHANGED <<slot, leaf, node, len, limbo, ghost>>

\* retire_version, retire_leaf: freed once every thread now pinned has unpinned.
RetireStep(t) ==
  /\ NextIs(t, "retire") /\ Advanced(t)
  /\ limbo' = [leaf |-> [l \in LeafIds |-> IF l \in Step(t).leaves THEN Pinned ELSE limbo.leaf[l]],
               node |-> [n \in NodeIds |-> IF n \in Step(t).nodes THEN Pinned ELSE limbo.node[n]]]
  /\ UNCHANGED <<slot, tree, leaf, node, len, ghost>>

\* Back to where the call goes on, or concluded.
Finish(t) ==
  /\ th[t].pc = "run" /\ th[t].todo = <<>>
  /\ Goto(t, th[t].then)
  /\ UNCHANGED <<shared, ghost>>

-----------------------------------------------------------------------------
(* clear *)

\* The root is swapped for an empty tree: from here on the map is empty.
SwapRoot(t) ==
  /\ th[t].pc = "swap"
  /\ slot' = Append(slot, [k \in Keys |-> 0])
  /\ tree' = Append(tree, "free")
  /\ dict' = Append(dict, [k \in Keys |-> Nothing])
  /\ seen' = [u \in Threads |-> IF Active(u) THEN seen[u] \cup {Nothing} ELSE seen[u]]
  /\ th' = [th EXCEPT ![t].gen = Gen, ![t].pc = "sweep"]
  /\ UNCHANGED <<leaf, node, len, limbo>>

\* The walk takes the latch of the detached node.
SweepLatch(t) ==
  /\ th[t].pc = "sweep" /\ tree[th[t].gen] = "free"
  /\ tree' = [tree EXCEPT ![th[t].gen] = "held"]
  /\ th' = [th EXCEPT ![t].pc = "kill",
                      ![t].work = SetToSeq({slot[th[t].gen][k] : k \in Keys} \ {0})]
  /\ UNCHANGED <<slot, leaf, node, len, limbo, ghost>>

\* ChainGuard::kill, on a detached leaf; what the leaf counted for.
SweptAlive(l) == leaf                                    \* mutant
Swept(l) == [leaf EXCEPT ![l].lock = "dead"]
SweptCountOne(l) == 1                                    \* mutant
SweptCount(l) == IF leaf[l].lock = "dead" THEN 0 ELSE HeadLive(leaf[l].head)

\* VersionedTree::clear: the chain of a detached leaf is locked, counted and
\* killed, so that no writer changes it after it was counted.
SweepKill(t) ==
  /\ th[t].pc = "kill" /\ th[t].work # <<>>
  /\ LET l == Head(th[t].work)
     IN  /\ leaf[l].lock # "held"
         /\ leaf' = Swept(l)
         /\ th' = [th EXCEPT ![t].work = Tail(@), ![t].total = @ + SweptCount(l)]
  /\ UNCHANGED <<slot, tree, node, len, limbo, ghost>>

\* The node becomes obsolete, its leaves are retired, and len drops by the
\* live ones.
SweepEnd(t) ==
  /\ th[t].pc = "kill" /\ th[t].work = <<>>
  /\ LET g == th[t].gen
     IN  /\ tree' = [tree EXCEPT ![g] = "obsolete"]
         /\ slot' = [slot EXCEPT ![g] = [k \in Keys |-> 0]]
         /\ th' = [th EXCEPT ![t] =
              Run(@, <<RetireLeaves({slot[g][k] : k \in Keys} \ {0}), LenAdd(-th[t].total)>>,
                  "done", None)]
  /\ UNCHANGED <<leaf, node, len, limbo, ghost>>

-----------------------------------------------------------------------------
(* The threads *)

\* What t does in the scenario chosen at the start.
Script(t) == Programs[th[t].prog][t]

Finished(t) == ~Active(t) /\ th[t].nops = Len(Script(t))

\* A call: the thread pins.
Begin(t) ==
  /\ ~Finished(t) /\ ~Active(t)
  /\ t = Loader \/ Finished(Loader)
  /\ \E o \in Script(t)[th[t].nops + 1] :
       /\ th' = [th EXCEPT ![t] = [@ EXCEPT !.nops = @ + 1, !.op = o, !.gen0 = Gen,
                                     !.pc = IF o.kind = "clear" THEN "swap" ELSE "get"]]
       /\ seen' = [seen EXCEPT ![t] = IF o.kind = "clear" THEN {} ELSE {dict[Gen][o.key]}]
  /\ UNCHANGED <<shared, dict>>

\* The call returns and unpins: what only it kept from being freed is freed.
Return(t) ==
  /\ th[t].pc = "done"
  /\ LET leaves == {l \in LeafIds : limbo.leaf[l] = {t}}
         nodes == {n \in NodeIds : limbo.node[n] = {t}} \cup UNION {OwnedBy(l) : l \in leaves}
     IN  /\ leaf' = [l \in LeafIds |-> IF l \in leaves THEN NoLeaf ELSE leaf[l]]
         /\ node' = [n \in NodeIds |-> IF n \in nodes THEN NoNode ELSE node[n]]
  /\ limbo' = [leaf |-> [l \in LeafIds |-> limbo.leaf[l] \ {t}],
               node |-> [n \in NodeIds |-> limbo.node[n] \ {t}]]
  /\ th' = [th EXCEPT ![t] = [Resting EXCEPT !.prog = th[t].prog, !.nops = th[t].nops]]
  /\ seen' = [seen EXCEPT ![t] = {}]
  /\ UNCHANGED <<slot, tree, len, dict>>

Init ==
  /\ slot = <<[k \in Keys |-> 0]>>
  /\ tree = <<"free">>
  /\ leaf = [l \in LeafIds |-> NoLeaf]
  /\ node = [n \in NodeIds |-> NoNode]
  /\ len = 0
  /\ limbo = [leaf |-> [l \in LeafIds |-> {}], node |-> [n \in NodeIds |-> {}]]
  /\ \E p \in DOMAIN Programs : th = [t \in Threads |-> [Resting EXCEPT !.prog = p]]
  /\ dict = <<[k \in Keys |-> Nothing]>>
  /\ seen = [t \in Threads |-> {}]

\* One step of t's current call.
Move(t) ==
  \/ RawGet(t) \/ LoadHead(t) \/ WalkStep(t) \/ CheckOnly(t)
  \/ LockDead(t) \/ ApplyLocked(t) \/ RemoveHeadLocked(t) \/ RemoveVersionLocked(t)
  \/ PruneLocked(t) \/ Descend(t) \/ Publish(t)
  \/ Seek(t) \/ Missed(t) \/ LatchNode(t) \/ Confirm(t) \/ Refused(t)
  \/ LinkStep(t) \/ MarkStep(t) \/ LenStep(t) \/ UnlockStep(t) \/ KillStep(t)
  \/ UnlinkStep(t) \/ UnlatchStep(t) \/ RetireStep(t) \/ Finish(t)
  \/ SwapRoot(t) \/ SweepLatch(t) \/ SweepKill(t) \/ SweepEnd(t)
  \/ Return(t)

\* Every thread has run its program.
Terminated == (\A t \in Threads : Finished(t)) /\ UNCHANGED vars

Next == Terminated \/ \E t \in Threads : Begin(t) \/ Move(t)

Spec == Init /\ [][Next]_vars

\* The operating system runs every thread.
FairSpec == Spec /\ \A t \in Threads : WF_vars(Move(t))

-----------------------------------------------------------------------------
(* Properties *)

\* The versions in the chain of the leaf that generation g links for k.
Stored(g, k) ==
  LET ns == IF slot[g][k] = 0 THEN {} ELSE ToSet(Chain(slot[g][k]))
      OfVersion(v) == {n \in ns : node[n].ver = v}
  IN  [v \in Versions |-> IF OfVersion(v) = {} THEN None ELSE node[CHOOSE n \in OfVersion(v) : TRUE].val]

Quiescent == \A t \in Threads : ~Active(t)

Published(l) == leaf[l].used /\ leaf[l].gen # 0

\* Leaves and version nodes lie where the code can put them, and the chain of
\* a leaf is never empty.
ChainTypeOK ==
  /\ \A g \in 1 .. Gen : tree[g] \in {"free", "held", "obsolete"} /\ slot[g] \in [Keys -> LeafIds \cup {0}]
  /\ \A l \in LeafIds :
       /\ leaf[l].lock \in {"free", "held", "dead"}
       /\ leaf[l].head \in (IF leaf[l].used THEN NodeIds ELSE {0})
  /\ \A n \in NodeIds : node[n].next \in NodeIds \cup {0}
  /\ \A t \in Threads : th[t].attempt \in 0 .. MaxAttempts

ChainCalls == {"insert", "removehead", "removekey", "removever", "prune", "read"}

\* versioned/tree.rs: every call on one key is atomic.  A call that wrote took
\* effect once, while it ran, on a generation no older than its start, and
\* reports what its key's versions were just then: insert the change in
\* liveness, remove_head the head it replaced, remove_key and remove_version
\* that there was something to remove, prune how many versions it dropped.
\* A call that only read reports what its key held at some time meanwhile.
ChainLinearizable ==
  \A t \in Threads : th[t].pc = "done" /\ Op(t).kind \in ChainCalls =>
    LET o == Op(t)
        r == th[t].res
        d == th[t].lin[2]
    IN  IF th[t].lin # <<>>
        THEN /\ th[t].lin[1] >= th[t].gen0
             /\ CASE o.kind = "insert" -> r = Count(Live(Effect(t, d))) - Count(Live(d))
                  [] o.kind = "removehead" -> Live(d) /\ r = Latest(d)
                  [] o.kind = "removekey" -> r /\ Held(d) # {}
                  [] o.kind = "removever" -> r /\ d[o.ver] # None
                  [] o.kind = "prune" -> r \in {Cardinality(Held(d)),
                                                Cardinality(Held(d) \ Held(Trimmed(d, o.ver)))}
        ELSE CASE o.kind = "read" -> \E s \in seen[t] : r = Newest(s, o.ver)
               [] o.kind = "removehead" -> r = None /\ \E s \in seen[t] : ~Live(s)
               [] o.kind = "removekey" -> ~r /\ \E s \in seen[t] : Held(s) = {}
               [] o.kind = "removever" -> ~r /\ \E s \in seen[t] : s[o.ver] = None
               [] o.kind = "prune" -> r = 0

\* Every linked chain holds, at every moment, exactly the versions that the
\* calls so far have left, each once and newest first: none was written into
\* an unlinked leaf, none was dropped with a leaf that had gained it.
ChainAgrees ==
  \A g \in 1 .. Gen : tree[g] # "obsolete" => \A k \in Keys :
    LET l == slot[g][k]
        c == Chain(l)
    IN  /\ Stored(g, k) = dict[g][k]
        /\ l # 0 => c # <<>> /\ \A i \in 1 .. Len(c) - 1 : node[c[i]].ver > node[c[i + 1]].ver

\* A leaf's chain is dead exactly once it is unlinked: a lookup in a node that
\* nobody has locked finds only live chains, and a writer that locks a chain
\* writes into a leaf that is still in its node.  A clear finds every chain it
\* detached alive (the debug_assert of VersionedTree::clear).
DeadWhenUnlinked ==
  /\ \A g \in 1 .. Gen : tree[g] = "free" =>
       \A k \in Keys : slot[g][k] # 0 => leaf[slot[g][k]].lock # "dead"
  /\ \A l \in LeafIds : Published(l) /\ leaf[l].lock # "dead" => slot[leaf[l].gen][leaf[l].key] = l
  /\ \A t \in Threads : th[t].pc = "kill" => \A l \in ToSet(th[t].work) : leaf[l].lock # "dead"

\* Inv 12: a key's changes of liveness are counted under its chain latch, so
\* len never drops below zero, even while a clear and writers in the tree it
\* detached are both counting.
LenNotNegative == len >= 0

\* In the middle of any calls: no chain is empty, each holds what was written
\* into it and nothing was written elsewhere, dead chains are unlinked ones,
\* and len has not lost count.
ChainsIntact == ChainTypeOK /\ ChainAgrees /\ DeadWhenUnlinked /\ LenNotNegative

\* A prune at m never changes what any snapshot at or above m sees, whatever
\* arrived in the chain after it chose, without a latch, the version to keep.
PruneKeepsSnapshots ==
  [][\A t \in Threads :
       th[t].lin = <<>> /\ th'[t].lin # <<>> /\ Op(t).kind = "prune" /\ ~Op(t).dead =>
         \A g \in 1 .. Gen, s \in {v \in Versions : v >= Op(t).ver} :
           Visible(Stored(g, Op(t).key), s)' = Visible(Stored(g, Op(t).key), s)]_vars

\* Inv 1, Inv 2: the leaves and versions that a running call refers to, be it
\* a reader on a version that was superseded long ago, are still allocated.
ChainNoUseAfterFree ==
  \A t \in Threads : Active(t) =>
    /\ \A l \in ({th[t].leaf} \cup ToSet(th[t].work)) \ {0} : leaf[l].used
    /\ \A n \in {th[t].cur, th[t].top} \ {0} : node[n].used

\* What is retired is out of reach and is freed once: a version is on the
\* heap, superseded and in no chain, a leaf is dead and unlinked, neither was
\* retired before, and a retired leaf, which frees its chain, shares no version
\* with the retired ones.
ChainRetireContract ==
  \A t \in Threads : NextIs(t, "retire") =>
    /\ \A n \in Step(t).nodes :
         /\ node[n].used /\ node[n].sup /\ ~node[n].inline /\ limbo.node[n] = {}
         /\ \A l \in LeafIds : leaf[l].used => n \notin ToSet(Chain(l))
    /\ \A l \in Step(t).leaves :
         /\ leaf[l].lock = "dead" /\ limbo.leaf[l] = {}
         /\ \A g \in 1 .. Gen : \A k \in Keys : slot[g][k] # l
         /\ \A n \in ToSet(Chain(l)) : limbo.node[n] = {} /\ ~node[n].sup

\* Reclamation is safe on both sides: what is retired is out of reach, once,
\* and what a call has reached stays.
ChainRetiredSafely == ChainNoUseAfterFree /\ ChainRetireContract

\* validate(): when no call is running, no latch is held, len counts the keys
\* whose newest version is a value, and every leaf and version that is not in
\* the map has been freed (an inline slot with its leaf).
QuiescentChains ==
  Quiescent =>
    LET linked == {slot[Gen][k] : k \in Keys} \ {0}
    IN  /\ tree[Gen] = "free" /\ \A l \in linked : leaf[l].lock = "free"
        /\ len = Cardinality({k \in Keys : Live(Stored(Gen, k))})
        /\ {l \in LeafIds : leaf[l].used} = linked
        /\ {n \in NodeIds : node[n].used} = UNION {OwnedBy(l) : l \in linked}

\* Every call returns: no writer waits for ever on a dead or held chain latch,
\* a thread that waits for a chain latch under a node's latch is not waited
\* for by its holder, and a prune gives up.
ChainCallsReturn == \A t \in Threads : Active(t) ~> ~Active(t)

=============================================================================

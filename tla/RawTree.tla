------------------------------- MODULE RawTree -------------------------------
(***************************************************************************)
(* The concurrent adaptive radix tree of src/src/raw: optimistic lookups   *)
(* (read.rs), inserts with prefix splits, leaf splits and growth           *)
(* (write.rs), removes that unlink the nodes they empty (remove.rs), and   *)
(* clear (walk.rs), run by threads that interleave at every access to      *)
(* shared memory.                                                          *)
(*                                                                         *)
(* An operation descends from the root: it loads the root, then for each   *)
(* node reads its version, couples it to its parent, looks at its prefix   *)
(* and child, and validates the version before it concludes.  A writer     *)
(* then runs the commit its look decided on.  A commit is a sequence of    *)
(* primitive steps (take a latch, store a pointer, add to len, release,    *)
(* ...) in the order of the code's statements; each is one action.         *)
(*                                                                         *)
(* Latches are used as HybridLatch specifies them: a look at a node is one *)
(* step because SnapshotRead makes the loads of a validated read one       *)
(* snapshot.                                                               *)
(***************************************************************************)
EXTENDS Integers, Sequences, FiniteSets, SequencesExt, FiniteSetsExt

CONSTANTS
  Threads,     \* the threads that use the tree
  Loader,      \* the thread that runs first, alone, to build a starting tree
  NodeIds,     \* addresses of inner nodes: 1 .. n
  Bytes,       \* the key bytes in use
  Keys,        \* the keys in use: sequences of bytes
  MaxPrefix,   \* MAX_PREFIX_LEN
  Capacity,    \* capacity of each node type, smallest type first
  Programs,    \* the scenarios: each says what the threads may do, a sequence of
               \* sets of operations for each of them
  Arena        \* the scenarios on the arena storage, which never frees a node

\* A chain's bottom node takes two children, a grown node one more, and the
\* largest type (Node256) has a place for every byte, so it is never full.
ASSUME CapacityAssumption ==
  /\ Capacity[1] >= 2
  /\ \A i \in 1 .. Len(Capacity) - 1 : Capacity[i] < Capacity[i + 1]
  /\ Capacity[Len(Capacity)] >= Cardinality(Bytes)

ASSUME NodeIdsAssumption == 0 \notin NodeIds /\ -1 \notin NodeIds

ASSUME LoaderAssumption == Loader \in Threads

VARIABLES
  root,     \* the root pointer
  latch,    \* version, lock bit and obsolete bit of every node; 0 is root_latch
  body,     \* the fields of every node
  len,      \* the live-leaf counter
  removed,  \* the leaves marked removed
  retired,  \* the leaves handed to the reclaimer
  limbo,    \* per retired node, the pinned threads that may still reach it
  th,       \* the local state of every thread
  dict,     \* history: the map each generation of the tree stands for; a
            \*   clear starts a new generation
  seen      \* history: what a running operation's key was mapped to meanwhile

vars == <<root, latch, body, len, removed, retired, limbo, th, dict, seen>>
heap == <<root, latch, body>>
ghost == <<dict, seen>>
reclaim == <<removed, retired, limbo>>

-----------------------------------------------------------------------------
(* Pointers, nodes and slots *)

NoVal == <<>>

\* A tagged slot value: null, a leaf (immutable once published) or a node.
Null == [tag |-> "null"]
Leaf(k, x) == [tag |-> "leaf", key |-> k, val |-> x]
Inner(n) == [tag |-> "inner", node |-> n]

\* In a chain being built: the node below.
Below == [tag |-> "below"]

\* The pointer re-check of a lock that has none (clear).
Anything == [tag |-> "anything"]

\* The generation that `root' belongs to.
Gen == Len(dict)

NewLatch == [ver |-> 0, lock |-> FALSE, obsolete |-> FALSE]

NoChildren == [b \in Bytes |-> Null]

Fresh(type, prefix, exact, child) ==
  [type |-> type, prefix |-> prefix, exact |-> exact, child |-> child, gen |-> 0]

\* Memory that is not a node.
Unused == Fresh(0, <<>>, Null, NoChildren)

\* Where a pointer is kept: the root, a node's exact_leaf, or a child byte.
RootSlot == [node |-> 0, at |-> <<"root">>]
ExactSlot(n) == [node |-> n, at |-> <<"exact">>]
ChildSlot(n, b) == [node |-> n, at |-> <<"child", b>>]

Load(s) ==
  CASE s.at[1] = "root"  -> root
    [] s.at[1] = "exact" -> body[s.node].exact
    [] s.at[1] = "child" -> body[s.node].child[s.at[2]]

\* node.rs: num_children, is_full and emptied_by.
NumChildren(nd) == Cardinality({b \in Bytes : nd.child[b] # Null})
IsFullLate(nd) == NumChildren(nd) > Capacity[nd.type]   \* mutant
IsFull(nd) == NumChildren(nd) >= Capacity[nd.type]
Entries(nd) == NumChildren(nd) + (IF nd.exact = Null THEN 0 ELSE 1)
IsEmpty(nd) == Entries(nd) = 0

\* Set(nd, at, p): the node with the pointer at `at' replaced.
Set(nd, at, p) ==
  IF at[1] = "exact" THEN [nd EXCEPT !.exact = p]
                     ELSE [nd EXCEPT !.child[at[2]] = p]

CommonLen(a, b) == Cardinality({i \in DOMAIN a \cap DOMAIN b : \A j \in 1 .. i : a[j] = b[j]})

From(s, i) == SubSeq(s, i, Len(s))

\* node.rs: NodeType::grown.
Grown(type) == type + 1

\* write.rs: build_chain.  The nodes of the chain, top first, that hold leaves
\* pa and pb of keys diverging after `common', where sa and sb are their key
\* suffixes.
BuildChain(common, sa, pa, sb, pb) ==
  LET span == MaxPrefix + 1
      segments == Len(common) \div span
      n == Len(common)
      Put(nd, s, p) == IF Len(s) = n THEN [nd EXCEPT !.exact = p]
                       ELSE [nd EXCEPT !.child[s[n + 1]] = p]
      bottom == Put(Put(Fresh(1, From(common, segments * span + 1), Null, NoChildren),
                        sa, pa), sb, pb)
      Segment(i) == Fresh(1, SubSeq(common, (i - 1) * span + 1, i * span - 1), Null,
                          [NoChildren EXCEPT ![common[i * span]] = Below])
  IN  [i \in 1 .. segments + 1 |-> IF i <= segments THEN Segment(i) ELSE bottom]

-----------------------------------------------------------------------------
(* The primitive steps of a commit *)

\* lock_parent / root_latch.lock(): block for the latch of the slot's owner,
\* then re-check that the slot still holds what was read.
Lock(s, expect) == [do |-> "lock", slot |-> s, expect |-> expect]
Upgrade(n, v) == [do |-> "upgrade", node |-> n, ver |-> v]
StorePrefix(n, p) == [do |-> "prefix", node |-> n, prefix |-> p]
LenAdd(d) == [do |-> "len", by |-> d]
\* A pointer store; `lin' marks the one that makes the operation take effect.
Store(s, p, lin) == [do |-> "store", slot |-> s, ptr |-> p, lin |-> lin]
\* Publication of a chain of new nodes by one pointer store.
Publish(s, chain) == [do |-> "publish", slot |-> s, chain |-> chain]
\* copy_into a larger node, with one more child, and its publication.
Grow(s, n, b, p) == [do |-> "grow", slot |-> s, node |-> n, byte |-> b, ptr |-> p]
MarkRemoved(ls) == [do |-> "mark", leaves |-> ls]
MarkObsolete(n) == [do |-> "obsolete", node |-> n]
Unlock(n) == [do |-> "unlock", node |-> n]
\* Releasing the parent of an unlinked node also notes whether it is empty.
UnlockParent(n) == [do |-> "unlockparent", node |-> n]
Retire(ls, ns) == [do |-> "retire", leaves |-> ls, nodes |-> ns]
SwapRoot == [do |-> "swap"]
Restart == [do |-> "restart"]

-----------------------------------------------------------------------------
(* Local state *)

NoHint == [node |-> 0, ver |-> 0, path |-> <<>>]
NoOp == [kind |-> "none", key |-> <<>>, mode |-> "Replace", fast |-> FALSE]

\* A decision: the commit to run (none for a conclusion), what the operation
\* will report its key was mapped to, and where the leaf will land.
Decide(todo, old) == [todo |-> todo, old |-> old, hint |-> NoHint]
NoPlan == Decide(<<>>, NoVal)

\* pc: idle, root, version, couple, look, check, run, walk, fast, done.
\* job: the operation, or the part of it, that is descending: get, insert,
\*   remove, tidy (unlink_emptied), probe (the lookup before a versioned
\*   insert), clear.
\* path: the parents of node, last one closest: only the closest is kept,
\*   except by tidy.   plan: the commit decided on, awaiting validation.
Resting ==
  [pc |-> "idle", prog |-> 0, nops |-> 0, op |-> NoOp, job |-> "none", gen0 |-> 0,
   node |-> 0, ver |-> 0, depth |-> 0, path |-> <<>>,
   plan |-> NoPlan, todo |-> <<>>, held |-> {}, old |-> NoVal, lin |-> <<>>,
   parentEmpty |-> FALSE, hint |-> NoHint, newHint |-> NoHint,
   work |-> <<>>, total |-> 0]

Active(t) == th[t].pc # "idle"

Key(t) == th[t].op.key

\* The value written by t's current insert: unique to the operation.
NewVal(t) == <<t, th[t].nops>>

NewLeaf(t) == Leaf(Key(t), NewVal(t))

\* The parent pointer of the node at hand, and its owner.
ParentSlot(t) ==
  IF th[t].path = <<>> THEN RootSlot
  ELSE ChildSlot(Last(th[t].path).node, Last(th[t].path).byte)

\* 'retry: back to the root, nothing held.  A failed fast path goes on as a
\* full insert; tidy runs after the remove has taken effect.
AtRoot(r) ==
  [r EXCEPT !.pc = "root", !.node = 0, !.ver = 0, !.depth = 0, !.path = <<>>,
            !.plan = NoPlan, !.todo = <<>>, !.newHint = NoHint, !.parentEmpty = FALSE,
            !.job = IF @ = "fast" THEN "insert" ELSE @,
            !.old = IF r.job = "tidy" THEN @ ELSE NoVal]

Retry(t) == th' = [th EXCEPT ![t] = AtRoot(@)]

\* The address of a node that the commit will allocate.
ToAllocate == -1

\* d, with the place where its leaf lands remembered for the inserters.
Landing(d, n, path) == [d EXCEPT !.hint = [node |-> n, ver |-> 0, path |-> path]]

Absent == Decide(<<>>, NoVal)
Found(p) == Decide(<<>>, p.val)
FoundIf(p, k) == IF p.tag = "leaf" /\ p.key = k THEN Found(p) ELSE Absent

-----------------------------------------------------------------------------
(* What an insert decides *)

\* The first leaf of an empty tree; len counts it before it can be found.
FirstLeafLateLen(p) ==                                  \* mutant
  <<Lock(RootSlot, Null), Store(RootSlot, p, TRUE), LenAdd(1), Unlock(0)>>
FirstLeaf(p) == <<Lock(RootSlot, Null), LenAdd(1), Store(RootSlot, p, TRUE), Unlock(0)>>

\* write.rs: the root is null or a leaf.
InsertAtRoot(t) ==
  LET k == Key(t)
      common == LongestCommonPrefix({root.key, k})
  IN
  CASE root = Null ->
         Decide(FirstLeaf(NewLeaf(t)), NoVal)
    [] root # Null /\ root.key = k /\ th[t].op.mode = "IfAbsent" -> Found(root)
    [] root # Null /\ root.key = k /\ th[t].op.mode = "Replace" ->
         Decide(<<Lock(RootSlot, root), Store(RootSlot, NewLeaf(t), TRUE),
                  MarkRemoved({root}), Unlock(0), Retire({root}, {})>>, root.val)
    [] OTHER ->
         Decide(<<Lock(RootSlot, root), LenAdd(1),
                  Publish(RootSlot, BuildChain(common, root.key, root, k, NewLeaf(t))),
                  Unlock(0)>>, NoVal)

\* What is left of prefix p below a split after m bytes: the byte at the split
\* becomes the child's.
KeptPrefixOffByOne(p, m) == From(p, m + 1)              \* mutant
KeptPrefix(p, m) == From(p, m + 2)

\* write.rs: the key leaves the prefix of n after m bytes; a new node takes
\* the place of n, whose own prefix shrinks.
SplitPrefix(t, n, m) ==
  LET k == Key(t)
      d == th[t].depth
      p == body[n].prefix
      below == Fresh(1, SubSeq(p, 1, m), Null, [NoChildren EXCEPT ![p[m + 1]] = Inner(n)])
      split == IF d + m = Len(k) THEN [below EXCEPT !.exact = NewLeaf(t)]
               ELSE [below EXCEPT !.child[k[d + m + 1]] = NewLeaf(t)]
      s == ParentSlot(t)
  IN  Landing(Decide(<<Lock(s, Inner(n)), Upgrade(n, th[t].ver),
                       StorePrefix(n, KeptPrefix(p, m)), LenAdd(1),
                       Publish(s, <<split>>), Unlock(n), Unlock(s.node)>>, NoVal),
              ToAllocate, SubSeq(k, 1, d + m))

\* write.rs: slot s of node n is where the key's leaf belongs and it holds no
\* leaf, a leaf of the key (whatever is in exact_leaf is taken for one), or a
\* leaf of another key that ends up below it.
InsertInto(t, n, s) ==
  LET k == Key(t)
      p == Load(s)
      d == th[t].depth + Len(body[n].prefix)
      up == Upgrade(n, th[t].ver)
      es == From(p.key, d + 2)
      ns == From(k, d + 2)
      common == LongestCommonPrefix({es, ns})
      same == s.at[1] = "exact" \/ p.key = k
      room == Decide(<<up, LenAdd(1), Store(s, NewLeaf(t), TRUE), Unlock(n)>>, NoVal)
  IN
  CASE p = Null /\ s.at[1] = "exact" -> room
    [] p = Null /\ s.at[1] = "child" -> Landing(room, n, SubSeq(k, 1, d))
    [] p # Null /\ same /\ th[t].op.mode = "IfAbsent" -> Found(p)
    [] p # Null /\ same /\ th[t].op.mode = "Replace" ->
         Decide(<<up, Store(s, NewLeaf(t), TRUE), MarkRemoved({p}), Unlock(n),
                  Retire({p}, {})>>, p.val)
    [] OTHER ->
         Landing(Decide(<<up, LenAdd(1),
                          Publish(s, BuildChain(common, es, p, ns, NewLeaf(t))),
                          Unlock(n)>>, NoVal),
                 ToAllocate, SubSeq(k, 1, d + 1) \o common)

\* The commit of a growth: the copy is published before n becomes obsolete,
\* and n is retired when nothing is locked.
GrowCommitObsoleteFirst(s, n, v, b, p) ==               \* mutant
  <<Lock(s, Inner(n)), Upgrade(n, v), LenAdd(1), MarkObsolete(n), Grow(s, n, b, p),
    Unlock(s.node), Retire({}, {n})>>
GrowCommit(s, n, v, b, p) ==
  <<Lock(s, Inner(n)), Upgrade(n, v), LenAdd(1), Grow(s, n, b, p), MarkObsolete(n),
    Unlock(s.node), Retire({}, {n})>>

\* write.rs: n is full; a larger copy with the new child replaces it.
GrowNode(t, n, b) ==
  LET s == ParentSlot(t)
      d == th[t].depth + Len(body[n].prefix)
  IN  Landing(Decide(GrowCommit(s, n, th[t].ver, b, NewLeaf(t)), NoVal),
              ToAllocate, SubSeq(Key(t), 1, d))

-----------------------------------------------------------------------------
(* What a lookup, a remove and the follow-up of a remove decide *)

\* remove.rs: the root is null or a leaf.
RemoveAtRoot(t) ==
  IF root # Null /\ root.key = Key(t)
  THEN Decide(<<Lock(RootSlot, root), Store(RootSlot, Null, TRUE), MarkRemoved({root}),
                LenAdd(-1), Unlock(0), Retire({root}, {})>>, root.val)
  ELSE Absent

\* remove_unlinking: the leaf p, the last entry of n, is unlinked together
\* with n by one store in the parent slot s.
UnlinkCommitParentOnly(s, n, v, p) ==                   \* mutant
  <<Lock(s, Inner(n)), Store(s, Null, TRUE), MarkRemoved({p}), LenAdd(-1),
    MarkObsolete(n), UnlockParent(s.node), Retire({p}, {n})>>
UnlinkCommit(s, n, v, p) ==
  <<Lock(s, Inner(n)), Upgrade(n, v), Store(s, Null, TRUE), MarkRemoved({p}), LenAdd(-1),
    MarkObsolete(n), UnlockParent(s.node), Retire({p}, {n})>>

\* remove.rs: slot s of n would hold the key's leaf.  The last entry of n
\* goes together with n.
RemoveFrom(t, n, s) ==
  LET p == Load(s)
      up == ParentSlot(t)
  IN
  CASE p = Null \/ p.key # Key(t) -> Absent
    [] p # Null /\ p.key = Key(t) /\ Entries(body[n]) # 1 ->
         Decide(<<Upgrade(n, th[t].ver), Store(s, Null, TRUE), MarkRemoved({p}),
                  LenAdd(-1), Unlock(n), Retire({p}, {})>>, p.val)
    [] OTHER -> Decide(UnlinkCommit(up, n, th[t].ver, p), p.val)

\* remove.rs, unlink_emptied: the empty node x, read or left at version v,
\* is taken out of its parent.
UnlinkEmptyRetireFirst(s, x, v) ==                      \* mutant
  <<Lock(s, Inner(x)), Upgrade(x, v), Retire({}, {x}), Store(s, Null, FALSE),
    MarkObsolete(x), UnlockParent(s.node)>>
UnlinkEmpty(s, x, v) ==
  <<Lock(s, Inner(x)), Upgrade(x, v), Store(s, Null, FALSE), MarkObsolete(x),
    UnlockParent(s.node), Retire({}, {x})>>

-----------------------------------------------------------------------------
(* Descent *)

\* arena/tree.rs, InserterCache::matching: the key lies below the cached node.
Matching(h, k) == h.node # 0 /\ IsPrefix(h.path, k) /\ Len(k) > Len(h.path)

\* arena: an insert tries the cached node first, if it may.
TryFast(r) ==
  IF r.op.fast /\ Matching(r.hint, r.op.key)
  THEN [AtRoot(r) EXCEPT !.pc = "fast", !.job = "fast"]
  ELSE [AtRoot(r) EXCEPT !.job = "insert"]

\* The end of a descent with nothing to write.  A probe that finds nothing
\* goes on to insert.
Conclude(r, old) ==
  CASE r.job = "probe" /\ old = NoVal -> TryFast(r)
    [] r.job = "tidy" -> [AtRoot(r) EXCEPT !.pc = "done"]
    [] OTHER -> [AtRoot(r) EXCEPT !.pc = "done", !.old = old]

\* Starts the commit d, or concludes if it has no step.
Proceed(r, d) ==
  IF d.todo = <<>> THEN Conclude(r, d.old)
  ELSE [r EXCEPT !.pc = "run", !.todo = d.todo, !.plan = NoPlan,
                 !.old = IF r.job = "tidy" THEN @ ELSE d.old,
                 !.newHint = IF r.op.fast THEN d.hint ELSE NoHint]

\* The load of `root'.  A null or leaf root decides the operation at once.
LoadRoot(t) ==
  /\ th[t].pc = "root"
  /\ th' = [th EXCEPT ![t] =
       IF root.tag = "inner"
       THEN [@ EXCEPT !.pc = "version", !.node = root.node]
       ELSE CASE th[t].job \in {"get", "probe"} -> Proceed(@, FoundIf(root, Key(t)))
              [] th[t].job = "insert" -> Proceed(@, InsertAtRoot(t))
              [] th[t].job = "remove" -> Proceed(@, RemoveAtRoot(t))
              [] th[t].job = "tidy"   -> Proceed(@, Absent)]
  /\ UNCHANGED <<heap, len, reclaim, ghost>>

Unlocked(v) == [ver |-> v, lock |-> FALSE, obsolete |-> FALSE]

\* R1: the version of the node, unless locked or obsolete.
ReadVersion(t) ==
  /\ th[t].pc = "version"
  /\ LET l == latch[th[t].node]
     IN  IF l.lock \/ l.obsolete THEN Retry(t)
         ELSE th' = [th EXCEPT ![t].pc = "couple", ![t].ver = l.ver]
  /\ UNCHANGED <<heap, len, reclaim, ghost>>

\* R4: the parent has not changed since its child pointer was read.
StillParentSkipped(t) == TRUE                           \* mutant
StillParent(t) ==
  IF th[t].path = <<>> THEN root = Inner(th[t].node)
  ELSE LET p == Last(th[t].path) IN latch[p.node] = Unlocked(p.ver)

Couple(t) ==
  /\ th[t].pc = "couple"
  /\ IF StillParent(t) THEN th' = [th EXCEPT ![t].pc = "look"] ELSE Retry(t)
  /\ UNCHANGED <<heap, len, reclaim, ghost>>

\* One level down: the child c of n at byte b.  Only tidy keeps the whole path.
Descend(t, n, b, c) ==
  LET p == [node |-> n, ver |-> th[t].ver, byte |-> b]
  IN  [th[t] EXCEPT !.pc = "version", !.node = c.node, !.ver = 0,
                    !.depth = @ + Len(body[n].prefix) + 1,
                    !.path = IF th[t].job = "tidy" THEN Append(@, p) ELSE <<p>>]

\* What the fields of the node, as just read, make the operation do next.
Look(t) ==
  /\ th[t].pc = "look"
  /\ LET n == th[t].node
         nd == body[n]
         k == Key(t)
         rest == From(k, th[t].depth + 1)
         m == CommonLen(nd.prefix, rest)
         d == th[t].depth + Len(nd.prefix)
         onPath == m = Len(nd.prefix)
         s == IF d = Len(k) THEN ExactSlot(n) ELSE ChildSlot(n, k[d + 1])
         check(plan) == [th[t] EXCEPT !.pc = "check", !.plan = plan]
         tidy == IF IsEmpty(nd) THEN Decide(UnlinkEmpty(ParentSlot(t), n, th[t].ver), NoVal)
                 ELSE Absent
     IN  th' = [th EXCEPT ![t] =
           CASE onPath /\ Load(s).tag = "inner" -> Descend(t, n, k[d + 1], Load(s))
             [] th[t].job = "tidy" /\ ~(onPath /\ Load(s).tag = "inner") -> check(tidy)
             [] th[t].job \in {"get", "probe"} /\ onPath /\ Load(s).tag # "inner" ->
                  check(FoundIf(Load(s), k))
             [] th[t].job = "remove" /\ onPath /\ Load(s).tag # "inner" ->
                  check(RemoveFrom(t, n, s))
             [] th[t].job \in {"get", "probe", "remove"} /\ ~onPath -> check(Absent)
             [] th[t].job = "insert" /\ ~onPath -> check(SplitPrefix(t, n, m))
             [] th[t].job = "insert" /\ onPath /\ Load(s) = Null /\ d < Len(k) /\ IsFull(nd) ->
                  check(GrowNode(t, n, k[d + 1]))
             [] OTHER -> check(InsertInto(t, n, s))]
  /\ UNCHANGED <<heap, len, reclaim, ghost>>

\* R3: validate the node's version before acting on what was read.
Check(t) ==
  /\ th[t].pc = "check"
  /\ IF latch[th[t].node] = Unlocked(th[t].ver)
     THEN th' = [th EXCEPT ![t] = Proceed(@, @.plan)]
     ELSE Retry(t)
  /\ UNCHANGED <<heap, len, reclaim, ghost>>

-----------------------------------------------------------------------------
(* The steps of a commit *)

\* The next step of t's commit is a `what'.
At(t, what) == th[t].pc = "run" /\ th[t].todo # <<>> /\ Head(th[t].todo).do = what

Step(t) == Head(th[t].todo)

Advance(r) == [r EXCEPT !.todo = Tail(@)]

Advanced(t) == th' = [th EXCEPT ![t] = Advance(@)]

\* Give up what is held, then 'retry.
BackOffKeepsLatch(r) == [r EXCEPT !.todo = <<Restart>>] \* mutant
BackOff(r) ==
  [r EXCEPT !.todo = SetToSeq({Unlock(n) : n \in r.held}) \o <<Restart>>]

\* Latch words, as in HybridLatch.
LockBit(n) == [latch EXCEPT ![n].lock = TRUE]
Release(n) == [latch EXCEPT ![n] = Unlocked(@.ver + 1)]
Obsolete(n) == [latch EXCEPT ![n].lock = FALSE, ![n].obsolete = TRUE]

Holding(r, n) == [r EXCEPT !.held = @ \cup {n}]
LettingGo(r, n) == [r EXCEPT !.held = @ \ {n}]

\* The pointer re-check of lock_parent.
StillHoldsUnchecked(s, expect) == TRUE                  \* mutant
StillHolds(s, expect) == expect \in {Anything, Load(s)}

\* lock_parent, and root_latch.lock(): waits while the latch is locked.
LockParent(t) ==
  /\ At(t, "lock")
  /\ LET s == Step(t).slot
         r == Holding(th[t], s.node)
     IN  \/ /\ latch[s.node].obsolete
            /\ Retry(t)
            /\ UNCHANGED latch
         \/ /\ ~latch[s.node].obsolete /\ ~latch[s.node].lock
            /\ latch' = LockBit(s.node)
            /\ th' = [th EXCEPT ![t] =
                 IF StillHolds(s, Step(t).expect) THEN Advance(r) ELSE BackOff(r)]
  /\ UNCHANGED <<root, body, len, reclaim, ghost>>

\* try_upgrade succeeds only at the version that was read.
CanUpgradeAnyVersion(n, v) == latch[n] = Unlocked(latch[n].ver)  \* mutant
CanUpgrade(n, v) == latch[n] = Unlocked(v)

\* try_upgrade at the version the node was read at.
TryUpgrade(t) ==
  /\ At(t, "upgrade")
  /\ LET n == Step(t).node
     IN  IF CanUpgrade(n, Step(t).ver)
         THEN /\ latch' = LockBit(n)
              /\ th' = [th EXCEPT ![t] = Advance(Holding(@, n))]
         ELSE th' = [th EXCEPT ![t] = BackOff(@)] /\ UNCHANGED latch
  /\ UNCHANGED <<root, body, len, reclaim, ghost>>

RestartStep(t) ==
  /\ At(t, "restart")
  /\ Retry(t)
  /\ UNCHANGED <<heap, len, reclaim, ghost>>

PrefixStep(t) ==
  /\ At(t, "prefix")
  /\ body' = [body EXCEPT ![Step(t).node].prefix = Step(t).prefix]
  /\ Advanced(t)
  /\ UNCHANGED <<root, latch, len, reclaim, ghost>>

LenStep(t) ==
  /\ At(t, "len")
  /\ len' = len + Step(t).by
  /\ Advanced(t)
  /\ UNCHANGED <<heap, reclaim, ghost>>

\* The generation that a slot's owner belongs to.
GenOf(s) == IF s.node = 0 THEN Gen ELSE body[s.node].gen

\* History: t's operation takes effect in generation g.
TakeEffect(t, g) ==
  LET k == Key(t)
      x == IF th[t].job = "remove" THEN NoVal ELSE NewVal(t)
  IN  /\ dict' = [dict EXCEPT ![g][k] = x]
      /\ seen' = [u \in Threads |->
                    IF u # t /\ Active(u) /\ Key(u) = k /\ th[u].gen0 <= g
                    THEN seen[u] \cup {x} ELSE seen[u]]

\* The thread after its operation took effect in g: what it replaced.
Effective(r, g) == [Advance(r) EXCEPT !.lin = <<g, dict[g][r.op.key]>>]

\* set_root, set_exact_leaf, insert_child, replace_child, remove_child.
StoreStep(t) ==
  /\ At(t, "store")
  /\ LET s == Step(t).slot
         p == Step(t).ptr
     IN  /\ IF s.node = 0 THEN root' = p /\ UNCHANGED body
            ELSE body' = [body EXCEPT ![s.node] = Set(@, s.at, p)] /\ UNCHANGED root
         /\ IF Step(t).lin
            THEN /\ TakeEffect(t, GenOf(s))
                 /\ th' = [th EXCEPT ![t] = Effective(@, GenOf(s))]
            ELSE Advanced(t) /\ UNCHANGED ghost
  /\ UNCHANGED <<latch, len, reclaim>>

\* Addresses for n new nodes; the allocator never fails here.
NewIds(n) ==
  SubSeq(SetToSortSeq({i \in NodeIds : body[i].type = 0}, <), 1, n)

\* The nodes `chain', linked top-down, put at new addresses and published in
\* slot s; the operation takes effect.
PublishNodes(t, s, chain) ==
  LET ids == NewIds(Len(chain))
      g == GenOf(s)
      Linked(i) == [chain[i] EXCEPT !.gen = g,
                      !.child = [b \in Bytes |-> IF @[b] = Below THEN Inner(ids[i + 1]) ELSE @[b]]]
      placed == [n \in NodeIds |->
                   IF n \in ToSet(ids) THEN Linked(CHOOSE i \in DOMAIN ids : ids[i] = n)
                   ELSE body[n]]
      lands(h) == IF h.node = ToAllocate THEN [h EXCEPT !.node = Last(ids)] ELSE h
  IN  /\ Len(ids) = Len(chain)
      /\ IF s.node = 0 THEN root' = Inner(ids[1]) /\ body' = placed
         ELSE /\ body' = [placed EXCEPT ![s.node] = Set(@, s.at, Inner(ids[1]))]
              /\ UNCHANGED root
      /\ TakeEffect(t, g)
      /\ th' = [th EXCEPT ![t] = [Effective(@, g) EXCEPT !.newHint = lands(@)]]

PublishStep(t) ==
  /\ At(t, "publish")
  /\ PublishNodes(t, Step(t).slot, Step(t).chain)
  /\ UNCHANGED <<latch, len, reclaim>>

\* copy_into the larger node under both latches, then publish it.
GrowStep(t) ==
  /\ At(t, "grow")
  /\ LET nd == body[Step(t).node]
     IN  PublishNodes(t, Step(t).slot,
           <<[nd EXCEPT !.type = Grown(@), !.child[Step(t).byte] = Step(t).ptr]>>)
  /\ UNCHANGED <<latch, len, reclaim>>

MarkStep(t) ==
  /\ At(t, "mark")
  /\ removed' = removed \cup Step(t).leaves
  /\ Advanced(t)
  /\ UNCHANGED <<heap, len, retired, limbo, ghost>>

ObsoleteStep(t) ==
  /\ At(t, "obsolete")
  /\ latch' = Obsolete(Step(t).node)
  /\ th' = [th EXCEPT ![t] = Advance(LettingGo(@, Step(t).node))]
  /\ UNCHANGED <<root, body, len, reclaim, ghost>>

\* unlock() and Drop of a guard; an inserter keeps the version of the node
\* its leaf went to.
UnlockStep(t) ==
  /\ At(t, "unlock")
  /\ LET n == Step(t).node
         v == latch[n].ver + 1
         kept(h) == IF n # 0 /\ h.node = n THEN [h EXCEPT !.ver = v] ELSE h
     IN  /\ latch' = Release(n)
         /\ th' = [th EXCEPT ![t] = [Advance(LettingGo(@, n)) EXCEPT
                     !.newHint = kept(@),
                     !.hint = IF th[t].job = "fast" THEN kept(@) ELSE @]]
  /\ UNCHANGED <<root, body, len, reclaim, ghost>>

\* Releasing the parent P of an unlinked node: was P left empty?
UnlockParentStep(t) ==
  /\ At(t, "unlockparent")
  /\ LET n == Step(t).node
     IN  /\ latch' = Release(n)
         /\ th' = [th EXCEPT ![t] = [Advance(LettingGo(@, n)) EXCEPT
                     !.ver = latch[n].ver + 1,
                     !.parentEmpty = n # 0 /\ IsEmpty(body[n])]]
  /\ UNCHANGED <<root, body, len, reclaim, ghost>>

\* The storage of the scenario at hand.
OnArena == th[Loader].prog \in Arena

\* retire_leaf and retire_node.  The heap frees a node once every thread
\* pinned now is unpinned; the arena abandons it in place.
RetireStep(t) ==
  /\ At(t, "retire")
  /\ retired' = retired \cup Step(t).leaves
  /\ limbo' = [n \in NodeIds |->
                 IF ~OnArena /\ n \in Step(t).nodes THEN {u \in Threads : Active(u)}
                 ELSE limbo[n]]
  /\ Advanced(t)
  /\ UNCHANGED <<heap, len, removed, ghost>>

\* clear: the root swap, where the clear takes effect.
SwapStep(t) ==
  /\ At(t, "swap")
  /\ root' = Null
  /\ dict' = Append(dict, [k \in Keys |-> NoVal])
  /\ seen' = [u \in Threads |-> IF Active(u) THEN seen[u] \cup {NoVal} ELSE seen[u]]
  /\ th' = [th EXCEPT ![t] = [Advance(@) EXCEPT
              !.work = IF root = Null THEN <<>> ELSE <<root>>]]
  /\ UNCHANGED <<latch, body, len, reclaim>>

-----------------------------------------------------------------------------
(* Around the commits *)

\* remove: Done(follow_up).
FollowUpForgotten(r) == FALSE                           \* mutant
FollowUp(r) == r.job = "remove" /\ r.parentEmpty

\* The commit is over.  A remove that left the parent empty starts the
\* follow-up, which goes on upwards while nodes are empty.
Finish(t) ==
  /\ th[t].pc = "run" /\ th[t].todo = <<>>
  /\ LET r == th[t]
         up == Last(r.path).node
         rest == Front(r.path)
         slot == IF rest = <<>> THEN RootSlot ELSE ChildSlot(Last(rest).node, Last(rest).byte)
     IN  th' = [th EXCEPT ![t] =
           CASE r.job = "clear" -> [r EXCEPT !.pc = "walk"]
             [] FollowUp(r) -> AtRoot([r EXCEPT !.job = "tidy"])
             [] r.job = "tidy" /\ r.parentEmpty ->
                  [r EXCEPT !.node = up, !.path = rest, !.parentEmpty = FALSE,
                            !.todo = UnlinkEmpty(slot, up, r.ver)]
             [] OTHER ->
                  [AtRoot(r) EXCEPT !.pc = "done", !.old = r.old,
                     !.hint = IF r.job = "insert" /\ r.op.fast /\ r.old = NoVal
                              THEN r.newHint ELSE @]]
  /\ UNCHANGED <<heap, len, reclaim, ghost>>

\* insert_at_hint: what it checks, under the latch of the cached node, before
\* it inserts: the byte is free and the node has room.
HintRoomIgnoresByte(n, b) == ~IsFull(body[n])           \* mutant
HintRoom(n, b) == body[n].child[b] = Null /\ ~IsFull(body[n])

HintCurrentIfUnlocked(h) == ~latch[h.node].lock         \* mutant
HintCurrent(h) == latch[h.node] = Unlocked(h.ver)

\* insert_at_hint: the cached node, if unchanged since our own unlock.
FastPath(t) ==
  /\ th[t].pc = "fast"
  /\ LET h == th[t].hint
         n == h.node
         b == Key(t)[Len(h.path) + 1]
         r == [Holding(th[t], n) EXCEPT !.pc = "run"]
     IN  IF ~HintCurrent(h) THEN Retry(t) /\ UNCHANGED latch
         ELSE /\ latch' = LockBit(n)
              /\ th' = [th EXCEPT ![t] =
                   IF ~HintRoom(n, b) THEN BackOff(r)
                   ELSE [r EXCEPT !.todo = <<LenAdd(1), Store(ChildSlot(n, b), NewLeaf(t), TRUE),
                                             Unlock(n)>>]]
  /\ UNCHANGED <<root, body, len, reclaim, ghost>>

\* clear: what the walk does to a detached node while it holds its latch.
DismantleUnlocks(n, leaves) ==                          \* mutant
  <<MarkRemoved(leaves), Unlock(n), Retire(leaves, {n})>>
Dismantle(n, leaves) == <<MarkRemoved(leaves), MarkObsolete(n), Retire(leaves, {n})>>

\* clear: the leaves found in the detached tree are subtracted at the end.
ClearedLenReset(r) == 0                                 \* mutant
ClearedLen(r) == len - r.total

\* lock() of the walk waits for a writer still inside the node.
MayEnterAnyway(n) == TRUE                               \* mutant
MayEnter(n) == ~latch[n].lock

\* clear: the walk of the detached tree, one latch at a time.
Walk(t) ==
  /\ th[t].pc = "walk"
  /\ LET r == th[t]
         p == Last(r.work)
         nd == body[p.node]
         entries == {nd.exact} \cup {nd.child[b] : b \in Bytes}
         leaves == {e \in entries : e.tag = "leaf"}
         inner == SelectSeq([i \in 1 .. Cardinality(Bytes) |-> nd.child[SetToSortSeq(Bytes, <)[i]]],
                            LAMBDA c : c.tag = "inner")
     IN
     \/ /\ r.work = <<>>
        /\ len' = ClearedLen(r)
        /\ th' = [th EXCEPT ![t] = [AtRoot(r) EXCEPT !.pc = "done", !.total = 0]]
        /\ UNCHANGED latch
     \/ /\ r.work # <<>> /\ p.tag = "leaf"
        /\ th' = [th EXCEPT ![t] = [r EXCEPT !.pc = "run", !.work = Front(@), !.total = @ + 1,
                    !.todo = <<MarkRemoved({p}), Retire({p}, {})>>]]
        /\ UNCHANGED <<latch, len>>
     \/ /\ r.work # <<>> /\ p.tag = "inner" /\ MayEnter(p.node)
        /\ IF latch[p.node].obsolete
           THEN th' = [th EXCEPT ![t].work = Front(@)] /\ UNCHANGED latch
           ELSE /\ latch' = LockBit(p.node)
                /\ th' = [th EXCEPT ![t] = [Holding(r, p.node) EXCEPT !.pc = "run",
                            !.work = Front(@) \o inner,
                            !.total = @ + Cardinality(leaves),
                            !.todo = Dismantle(p.node, leaves)]]
        /\ UNCHANGED len
  /\ UNCHANGED <<root, body, reclaim, ghost>>

-----------------------------------------------------------------------------
(* The threads *)

\* What t does in the scenario chosen at the start.
Script(t) == Programs[th[t].prog][t]

Finished(t) == ~Active(t) /\ th[t].nops = Len(Script(t))

\* A call: the thread pins and starts at the root (or at its cached node).
Begin(t) ==
  /\ ~Finished(t) /\ ~Active(t)
  /\ t = Loader \/ Finished(Loader)
  /\ \E o \in Script(t)[th[t].nops + 1] :
       LET r == [th[t] EXCEPT !.nops = @ + 1, !.op = o, !.gen0 = Gen, !.lin = <<>>, !.job = o.kind]
       IN  /\ th' = [th EXCEPT ![t] =
                CASE o.kind = "clear" ->
                       [r EXCEPT !.pc = "run",
                                 !.todo = <<Lock(RootSlot, Anything), SwapRoot, Unlock(0)>>]
                  [] o.kind = "insert" /\ o.fast /\ o.mode = "IfAbsent" ->
                       AtRoot([r EXCEPT !.job = "probe"])
                  [] o.kind = "insert" /\ o.fast /\ o.mode = "Replace" -> TryFast(r)
                  [] OTHER -> AtRoot(r)]
           /\ seen' = [seen EXCEPT ![t] = {dict[Gen][o.key]}]
  /\ UNCHANGED <<heap, len, reclaim, dict>>

\* t unpins: what only this thread still kept from being freed is freed, and
\* its memory may be used again.
Unpin(t) ==
  LET freed == {n \in NodeIds : limbo[n] = {t}}
  IN  /\ limbo' = [n \in NodeIds |-> limbo[n] \ {t}]
      /\ body' = [n \in NodeIds |-> IF n \in freed THEN Unused ELSE body[n]]
      /\ latch' = [n \in DOMAIN latch |-> IF n \in freed THEN NewLatch ELSE latch[n]]

\* The call returns and unpins.
Return(t) ==
  /\ th[t].pc = "done"
  /\ Unpin(t)
  /\ th' = [th EXCEPT ![t] = [Resting EXCEPT
              !.prog = th[t].prog, !.nops = th[t].nops, !.hint = th[t].hint]]
  /\ seen' = [seen EXCEPT ![t] = {}]
  /\ UNCHANGED <<root, len, removed, retired, dict>>

Init ==
  /\ root = Null
  /\ latch = [n \in NodeIds \cup {0} |-> NewLatch]
  /\ body = [n \in NodeIds |-> Unused]
  /\ len = 0
  /\ removed = {} /\ retired = {}
  /\ limbo = [n \in NodeIds |-> {}]
  /\ \E p \in DOMAIN Programs : th = [t \in Threads |-> [Resting EXCEPT !.prog = p]]
  /\ dict = <<[k \in Keys |-> NoVal]>>
  /\ seen = [t \in Threads |-> {}]

\* One step of t's current call.
Move(t) ==
  \/ LoadRoot(t) \/ ReadVersion(t) \/ Couple(t) \/ Look(t) \/ Check(t)
  \/ LockParent(t) \/ TryUpgrade(t) \/ RestartStep(t)
  \/ PrefixStep(t) \/ LenStep(t) \/ StoreStep(t) \/ PublishStep(t) \/ GrowStep(t)
  \/ MarkStep(t) \/ ObsoleteStep(t) \/ UnlockStep(t) \/ UnlockParentStep(t)
  \/ RetireStep(t) \/ SwapStep(t) \/ Finish(t) \/ FastPath(t) \/ Walk(t)
  \/ Return(t)

\* Every thread has run its program.
Terminated == (\A t \in Threads : Finished(t)) /\ UNCHANGED vars

Next == Terminated \/ \E t \in Threads : Begin(t) \/ Move(t)

Spec == Init /\ [][Next]_vars

-----------------------------------------------------------------------------
(* Views of the tree, for the properties *)

\* The nodes that can be reached from `root', each level from the one above.
Reachable ==
  LET Into(p) == IF p.tag = "inner" THEN {p.node} ELSE {}
      Children(n) == UNION {Into(body[n].child[b]) : b \in Bytes}
      level[i \in 0 .. Cardinality(NodeIds)] ==
        IF i = 0 THEN Into(root)
        ELSE LET above == level[i - 1] IN above \cup UNION {Children(n) : n \in above}
  IN  level[Cardinality(NodeIds)]

\* The leaves in nodes ns.
LeavesOf(ns) ==
  {p \in UNION {{body[n].exact} \cup {body[n].child[b] : b \in Bytes} : n \in ns} :
     p.tag = "leaf"}

LinkedLeaves == LeavesOf(Reachable) \cup (IF root.tag = "leaf" THEN {root} ELSE {})

\* The places that a lookup of k visits if nothing changes meanwhile: pointers
\* with the number of key bytes consumed.
Trail(k) ==
  LET Down(c) ==
        LET nd == body[c.ptr.node]
            d == c.depth + Len(nd.prefix)
        IN  IF d > Len(k) \/ nd.prefix # SubSeq(k, c.depth + 1, d) THEN [ptr |-> Null, depth |-> d]
            ELSE IF d = Len(k) THEN [ptr |-> nd.exact, depth |-> d]
            ELSE [ptr |-> nd.child[k[d + 1]], depth |-> d + 1]
      path[i \in 0 .. Len(k) + 1] ==
        IF i = 0 THEN <<[ptr |-> root, depth |-> 0]>>
        ELSE LET p == path[i - 1]
             IN  IF Last(p).ptr.tag = "inner" THEN Append(p, Down(Last(p))) ELSE p
  IN  path[Len(k) + 1]

\* The nodes that t's call may still dereference.
Refs(t) ==
  LET r == th[t]
      used == {"lock", "upgrade", "prefix", "store", "publish", "grow", "obsolete",
               "unlock", "unlockparent"}
      owner(i) == IF i.do \in {"lock", "store", "publish", "grow"} THEN i.slot.node ELSE i.node
  IN  ({r.node} \cup {p.node : p \in ToSet(r.path)}
        \cup {owner(i) : i \in {j \in ToSet(r.todo) : j.do \in used}}
        \cup {p.node : p \in {q \in ToSet(r.work) : q.tag = "inner"}}) \ {0}

Quiescent == \A t \in Threads : ~Active(t)

-----------------------------------------------------------------------------
(* Properties *)

Pointers(n) == {body[n].exact} \cup {body[n].child[b] : b \in Bytes}

\* Every slot holds a leaf of a known key or a node; exact_leaf never holds a
\* node; the root latch is never obsolete; a node's prefix and its number of
\* children stay within what its layout can store.
TypeOK ==
  /\ \A p \in {root} \cup UNION {Pointers(n) : n \in NodeIds} :
       \/ p = Null
       \/ p.tag = "inner" /\ p.node \in NodeIds
       \/ p.tag = "leaf" /\ p.key \in Keys
  /\ ~latch[0].obsolete
  /\ \A n \in NodeIds :
       /\ body[n].type \in 0 .. Len(Capacity)
       /\ body[n].exact.tag # "inner"
       /\ Len(body[n].prefix) <= MaxPrefix
       /\ body[n].type # 0 => NumChildren(body[n]) <= Capacity[body[n].type]
  /\ \A t \in Threads : th[t].held \subseteq NodeIds \cup {0}

\* Every call is atomic.  A call that wrote took effect once, during the call,
\* on the map of a generation no older than the one current when it began,
\* and reports what its key was mapped to just then; a call that only read
\* reports what its key was mapped to at some time during the call.
Linearizable ==
  \A t \in Threads : th[t].pc = "done" /\ th[t].op.kind \notin {"clear", NoOp.kind} =>
    IF th[t].lin # <<>>
    THEN th[t].lin[1] >= th[t].gen0 /\ th[t].lin[2] = th[t].old
    ELSE th[t].old \in seen[t]

\* At every moment, and not only between calls, the path of each key through
\* the nodes leads to what the map holds for it, unless a node on that path is
\* locked: no prefix split, leaf split, growth, unlink or clear ever makes a
\* key unreachable or reachable twice for a reader that then validates.
LookupAgrees ==
  \A k \in Keys :
    LET at == Trail(k)
        visited == {at[i].ptr : i \in DOMAIN at}
        end == Last(at).ptr
    IN  (\A p \in visited : p.tag = "inner" => ~latch[p.node].lock)
        => dict[Gen][k] = (IF end.tag = "leaf" /\ end.key = k THEN end.val ELSE NoVal)

\* Inv 7: a node is unlinked before it is marked obsolete, so no unlocked
\* slot of a live node, and never the root, leads to an obsolete one.
ObsoleteUnlinked ==
  /\ root.tag = "inner" => ~latch[root.node].obsolete
  /\ \A n \in NodeIds : ~latch[n].obsolete /\ ~latch[n].lock =>
       \A p \in Pointers(n) : p.tag = "inner" => ~latch[p.node].obsolete

\* walk.rs:112 debug_assert: clear never meets an obsolete node in the
\* detached tree, although removes, growths and follow-ups that were inside
\* it when the root was swapped go on.
DetachedNotObsolete ==
  \A t \in Threads : \A p \in ToSet(th[t].work) : p.tag = "inner" => ~latch[p.node].obsolete

\* Inv 12: len is added before a leaf is published and subtracted after it is
\* unlinked (by clear, after the walk), so it never counts fewer leaves than
\* the map has, and it cannot go below zero.
LenNeverUndercounts ==
  len >= Cardinality({k \in Keys : dict[Gen][k] # NoVal})

\* In the middle of any calls, whichever latches they hold: no node is
\* overfilled, every key is where a reader looks for it, what is obsolete is
\* cut off from the tree and from what a clear has still to visit, and len
\* counts all that is there.
TreeIntact ==
  TypeOK /\ LookupAgrees /\ ObsoleteUnlinked /\ DetachedNotObsolete /\ LenNeverUndercounts

\* Inv 1, Inv 2: a call refers to a retired node only if it was pinned when the node
\* was retired, and never to memory that is not a node.
NoUseAfterFree ==
  \A t \in Threads : Active(t) =>
    \A n \in Refs(t) :
      /\ body[n].type # 0
      /\ limbo[n] # {} => t \in limbo[n]

\* What is about to be retired is out of reach: leaves are marked removed and
\* linked nowhere, nodes are obsolete and unlinked, and nothing is retired
\* twice, whoever else removed, replaced, grew or cleared meanwhile.
RetireContract ==
  \A t \in Threads : At(t, "retire") =>
    /\ Step(t).leaves \subseteq removed \ retired
    /\ Step(t).leaves \cap LinkedLeaves = {}
    /\ \A n \in Step(t).nodes :
         latch[n].obsolete /\ n \notin Reachable /\ limbo[n] = {}

\* Reclamation is safe on both sides: what is retired is out of reach, once,
\* and what was reached before is kept for whoever reached it.
RetiredSafely == NoUseAfterFree /\ RetireContract

\* walk.rs validate(): when no call is running the tree is well formed: no
\* linked node is locked, obsolete or empty (every unlink was followed up),
\* len is exact, what was removed was retired, and the heap has kept nothing
\* that is not linked.
QuiescentTree ==
  Quiescent =>
    /\ \A n \in Reachable : latch[n] = Unlocked(latch[n].ver) /\ ~IsEmpty(body[n])
    /\ ~latch[0].lock
    /\ LinkedLeaves = {Leaf(k, dict[Gen][k]) : k \in {j \in Keys : dict[Gen][j] # NoVal}}
    /\ len = Cardinality(LinkedLeaves)
    /\ removed = retired
    /\ ~OnArena => \A n \in NodeIds \ Reachable : body[n] = Unused

\* Every call returns: the follow-up of a remove ends, no reader spins for
\* ever on a node that stays locked or on an obsolete node that stays linked,
\* and the latch order (parent before child, one at a time in clear) never
\* makes threads wait for each other.
CallsReturn == \A t \in Threads : th[t].op # NoOp ~> th[t].op = NoOp

=============================================================================

----------------------------- MODULE ArenaInsert -----------------------------
(***************************************************************************)
(* Who owns a key and a value in the arena maps (src/src/arena/tree.rs,    *)
(* versioned_tree.rs, node.rs, map.rs, versioned_map.rs) when the arena    *)
(* runs full in the middle of an insert, when an insert loses its race for *)
(* the key, and when keys and versions are taken out while others use      *)
(* them.  Nothing in an arena is freed before the map is dropped; the map  *)
(* then drops every key and value it still owns, wherever it is.           *)
(*                                                                         *)
(* RawTree and VersionChain check the latch protocols step by step.  Here  *)
(* the place of a key in the tree is one slot with a version, a critical   *)
(* section under the chain latch is one step, and what is followed is      *)
(* allocation and ownership.                                               *)
(***************************************************************************)
EXTENDS Integers, Sequences, FiniteSets, SequencesExt, FiniteSetsExt

CONSTANTS
  Threads,
  Keys,
  Gens,        \* roots: the map's, and one more for each clear
  LeafIds, VerIds, NodeIds,
  Capacity,    \* bytes of the arena
  Size,        \* bytes of a version, a leaf and an inner node of each type
  Node4s,      \* key_len / (MAX_PREFIX_LEN + 1) + 2
  MaxCalls,    \* bound: calls of a thread
  ATTEMPTS,    \* 64 in prune_leaf
  Programs     \* the scenarios: calls, for each thread a sequence of calls to
               \*   make, and for each of these the set it chooses from; used,
               \*   the bytes that may be in use before; needs, the nodes that an
               \*   insert at a place can need; reshapes, a bound on changes to
               \*   the tree around a key by other threads

NodeTypes == {"n4", "n16", "n48", "n256"}
Ops == {"insert", "put", "take", "removehead", "removekey", "removever", "prune", "clear"}
AnyCall == [op : Ops, key : Keys, ver : Nat, value : BOOLEAN, cached : BOOLEAN]

\* The nodes of a type that one attempt can need: a split and the chain of
\* Node4s that holds a long prefix, or the next larger node.
Most(type) == IF type = "n4" THEN Node4s ELSE 1
OfType(s, type) == {i \in DOMAIN s : s[i] = type}

ASSUME ArenaInsertAssumption ==
  /\ Max(Gens) \in Nat /\ Gens = 0 .. Max(Gens) /\ ATTEMPTS \in Nat \ {0}
  /\ IsFiniteSet(VerIds) /\ LeafIds \cup VerIds \cup NodeIds \subseteq Nat \ {0}
  /\ Capacity \in Nat /\ Node4s \in Nat /\ MaxCalls \in Nat
  /\ Size \in [NodeTypes \cup {"version", "leaf"} -> Nat]
  /\ \A p \in Programs :
       /\ p.used \subseteq Nat
       /\ \A n \in p.needs :
            n \in Seq(NodeTypes) /\ \A type \in NodeTypes : Cardinality(OfType(n, type)) <= Most(type)
       /\ \A t \in Threads : p.calls[t] \in Seq(SUBSET AnyCall) /\ Len(p.calls[t]) <= MaxCalls

VARIABLES
  used,       \* bytes of the arena given out
  gen,        \* the current root
  slot,       \* the place of each key under each root
  leaf, ver,  \* leaves and version nodes
  retired,    \* the retired lists, of leaves and of versions: the head, and the
              \*   links in what is on the list
  len,
  th,         \* the threads
  prog,       \* the program they run
  owned,      \* history: the keys and values passed in, how often each was
              \*   dropped, which came back and which were ever published; and
              \*   whether the map is dropped
  nodes,      \* history: inner nodes allocated, published and freed
  reshapes

vars == <<used, gen, slot, leaf, ver, retired, len, th, prog, owned, nodes, reshapes>>
store == <<leaf, ver, retired>>

None == <<>>

\* The key and the value passed to a call: objects with an owner.
KeyOf(t, i) == <<t, i, "key">>
ValueOf(t, i) == <<t, i, "value">>
Objects == {<<t, i, what>> : t \in Threads, i \in 1 .. MaxCalls, what \in {"key", "value"}}

\* pc: the steps of an insert (probe, version, apply, leaf, fast, call, attempt,
\*   prepare, existing), of the removes (look, take, tomb, relook, cuthead, seek,
\*   kill, unlink, cut), of a prune (choose, cutprune) and of a clear (swap,
\*   sweep, uncount); retire, push, full, done.
\* target: the leaf a lookup found; vnode, own: the version and the leaf that
\* are not published yet; chosen: the version a prune keeps; pool: Prepared;
\* wants: nodes still to prepare; seen: what the attempt read; leaves, versions:
\* still to be retired; head: of the retired list, as loaded; sweep: places a clear has to visit; bytes: what the call
\* took from the arena.
IdleThread ==
  [pc |-> "idle", at |-> 0, call |-> None, target |-> 0, vnode |-> 0, own |-> 0,
   pool |-> <<>>, wants |-> <<>>, seen |-> [gen |-> 0, ver |-> 0, leaf |-> 0],
   chosen |-> 0, leaves |-> <<>>, versions |-> <<>>, head |-> 0, sweep |-> {}, tries |-> 0,
   total |-> 0, bytes |-> 0]

Calls(t) == prog.calls[t]
Busy(t) == th[t].pc # "idle"
Key(t) == th[t].call.key
Here(t) == slot[Key(t)][gen]
Cell(t) == slot[Key(t)][th[t].seen.gen]

MyKey(t) == KeyOf(t, th[t].at)
MyValue(t) == ValueOf(t, th[t].at)

Goto(t, pc) == th' = [th EXCEPT ![t].pc = pc]

-----------------------------------------------------------------------------
(* Version chains *)

\* chain: the versions from one on, newest first.
Following(c, v) == IF c = <<>> THEN v ELSE ver[Last(c)].next
OneMore(c, v) == IF Following(c, v) = 0 THEN c ELSE Append(c, Following(c, v))
Chain(v) ==
  LET first[n \in 0 .. Cardinality(VerIds)] == IF n = 0 THEN <<>> ELSE OneMore(first[n - 1], v)
  IN  first[Cardinality(VerIds)]

Live(l) == leaf[l].head # 0 /\ ver[leaf[l].head].value # None

\* find_le: the newest version at most max, or 0.
FindLe(l, max) ==
  LET c == Chain(leaf[l].head)
      at == {i \in DOMAIN c : ver[c[i]].version <= max}
  IN  IF at = {} THEN 0 ELSE c[Min(at)]

\* The last version above v, or 0: where a version goes.
Above(l, v) ==
  LET c == Chain(leaf[l].head)
      at == {i \in DOMAIN c : ver[c[i]].version > v}
  IN  IF at = {} THEN 0 ELSE c[Max(at)]

-----------------------------------------------------------------------------
(* Ownership *)

\* The values of the chain that starts at v.
ValuesFrom(v) == {ver[x].value : x \in ToSet(Chain(v))} \ {None}

\* What drop_in_arena drops with a leaf.
InLeaf(l) == {leaf[l].key} \cup ({leaf[l].value} \ {None}) \cup ValuesFrom(leaf[l].head)

Dropped(objs) == [owned EXCEPT !.drops = [o \in Objects |-> IF o \in objs THEN @[o] + 1 ELSE @[o]]]
GivenBack(objs) == [owned EXCEPT !.back = @ \cup (objs \ {None})]
Published(objs) == [owned EXCEPT !.published = @ \cup (objs \ {None})]

-----------------------------------------------------------------------------
(* The arena *)

Fits(what) == used + Size[what] <= Capacity

\* Bound: there are ids for everything that is allocated.
FreeLeaves == {l \in LeafIds : leaf[l].key = None}
FreeVers == {v \in VerIds : ~ver[v].there}
FreeNodes == NodeIds \ nodes.made

FreshLeaf == Min(FreeLeaves)
FreshVer == Min(FreeVers)
FreshNode == Min(FreeNodes)

Take(what) == used' = used + Size[what]

-----------------------------------------------------------------------------
(* Prepared *)

Entry(n, type, inUse) == [node |-> n, type |-> type, used |-> inUse]

\* reset: a retry may use every node of the pool again.
ResetKeepsUsed(pool) == pool                            \* mutant
Reset(pool) == [i \in DOMAIN pool |-> [pool[i] EXCEPT !.used = FALSE]]

\* commit: the nodes used by the attempt are published, and the pool's no more.
UsedBy(pool) == {pool[i].node : i \in {j \in DOMAIN pool : pool[j].used}}
CommitKeeps(pool) == DOMAIN pool                        \* mutant
Commit(pool) == {i \in DOMAIN pool : ~pool[i].used}

\* release: free_node for what is left.  In an arena the bytes are abandoned.
Release(pool, left) == {pool[i].node : i \in left}
ReleaseAll(pool) == Release(pool, DOMAIN pool)

-----------------------------------------------------------------------------
(* Inserts *)

Begin(t) ==
  /\ ~Busy(t) /\ th[t].at < Len(Calls(t))
  /\ \E c \in Calls(t)[th[t].at + 1] :
       LET first == CASE c.op = "insert" -> "probe"
                      [] c.op = "put" -> "leaf"
                      [] c.op = "clear" -> "swap"
                      [] OTHER -> "look"
           key == IF c.op \in {"insert", "put"} THEN {KeyOf(t, th[t].at + 1)} ELSE {}
           value == IF c.value THEN {ValueOf(t, th[t].at + 1)} ELSE {}
       IN  /\ th' = [th EXCEPT ![t] =
                       [IdleThread EXCEPT !.pc = first, !.at = th[t].at + 1, !.call = c]]
           /\ owned' = [owned EXCEPT !.given = @ \cup key \cup value]
  /\ UNCHANGED <<used, gen, slot, store, len, prog, nodes, reshapes>>

\* ArenaFull: everything is handed back, what was allocated is abandoned.
FullFreesLeaf(t) ==                                     \* mutant
  /\ owned' = [GivenBack({MyKey(t), IF th[t].call.value THEN MyValue(t) ELSE None})
                 EXCEPT !.drops = IF th[t].own = 0 THEN @
                                  ELSE [@ EXCEPT ![leaf[th[t].own].key] = @ + 1]]
  /\ th' = [th EXCEPT ![t].pc = "full", ![t].pool = <<>>]
  /\ nodes' = [nodes EXCEPT !.freed = @ \cup ReleaseAll(th[t].pool)]
  /\ UNCHANGED used
Full(t) ==
  /\ owned' = GivenBack({MyKey(t), IF th[t].call.value THEN MyValue(t) ELSE None})
  /\ th' = [th EXCEPT ![t].pc = "full", ![t].pool = <<>>]
  /\ nodes' = [nodes EXCEPT !.freed = @ \cup ReleaseAll(th[t].pool)]
  /\ UNCHANGED used

\* ArenaVersionedTree::insert, fast path: the key may be there.
Probe(t) ==
  /\ th[t].pc = "probe"
  /\ LET l == Here(t).leaf
         next == CASE th[t].vnode = 0 -> "version"
                   [] th[t].vnode # 0 /\ l # 0 -> "apply"
                   [] OTHER -> "leaf"
     IN  th' = [th EXCEPT ![t].target = l, ![t].pc = next]
  /\ UNCHANGED <<used, gen, slot, store, len, prog, owned, nodes, reshapes>>

\* alloc_version: the value moves into a version node, before any latch.
AllocVersion(t) ==
  /\ th[t].pc = "version" /\ FreeVers # {}
  /\ LET c == th[t].call
         v == FreshVer
     IN  IF Fits("version")
         THEN /\ Take("version")
              /\ ver' = [ver EXCEPT ![v] =
                          [there |-> TRUE, value |-> IF c.value THEN MyValue(t) ELSE None,
                           version |-> c.ver, next |-> 0, superseded |-> FALSE]]
              /\ th' = [th EXCEPT ![t].vnode = v, ![t].bytes = @ + Size["version"],
                          ![t].pc = IF th[t].target # 0 THEN "apply" ELSE "leaf"]
              /\ UNCHANGED <<owned, nodes>>
         ELSE Full(t) /\ UNCHANGED ver
  /\ UNCHANGED <<gen, slot, leaf, retired, len, prog, reshapes>>

\* apply, under the chain latch: the version goes in front of the first one
\* that is not above it, or in its place.
Applied(t, l) ==
  LET x == th[t].vnode
      prev == Above(l, ver[x].version)
      cur == IF prev = 0 THEN leaf[l].head ELSE ver[prev].next
      replaced == cur # 0 /\ ver[cur].version = ver[x].version
      next == IF replaced THEN ver[cur].next ELSE cur
      newLive == IF prev = 0 THEN ver[x].value # None ELSE Live(l)
  IN  /\ ver' = [v \in VerIds |->
                  CASE v = x -> [ver[v] EXCEPT !.next = next]
                    [] v = prev -> [ver[v] EXCEPT !.next = x]
                    [] v = cur /\ replaced -> [ver[v] EXCEPT !.superseded = TRUE]
                    [] OTHER -> ver[v]]
      /\ leaf' = [leaf EXCEPT ![l].head = IF prev = 0 THEN x ELSE @]
      /\ len' = len + (IF newLive THEN 1 ELSE 0) - (IF Live(l) THEN 1 ELSE 0)
      /\ th' = [th EXCEPT ![t].pc = "retire",
                          ![t].versions = IF replaced THEN <<cur>> ELSE <<>>]

\* The key exists: the caller's key is dropped with the call.
ApplyFast(t) ==
  /\ th[t].pc = "apply"
  /\ IF leaf[th[t].target].dead THEN Goto(t, "probe") /\ UNCHANGED <<leaf, ver, len, owned>>
     ELSE /\ Applied(t, th[t].target)
          /\ owned' = [Dropped({MyKey(t)}) EXCEPT
                         !.published = @ \cup ({ver[th[t].vnode].value} \ {None})]
  /\ UNCHANGED <<used, gen, slot, retired, prog, nodes, reshapes>>

\* A leaf of its own: the key, and for the plain map the value, move into it.
AllocLeaf(t) ==
  /\ th[t].pc = "leaf" /\ FreeLeaves # {}
  /\ IF Fits("leaf")
     THEN /\ Take("leaf")
          /\ leaf' = [leaf EXCEPT ![FreshLeaf] =
                        [key |-> MyKey(t), dead |-> FALSE, head |-> th[t].vnode,
                         value |-> IF th[t].call.op = "put" THEN MyValue(t) ELSE None]]
          /\ th' = [th EXCEPT ![t].own = FreshLeaf, ![t].bytes = @ + Size["leaf"],
                      ![t].pc = IF th[t].call.cached THEN "fast" ELSE "call"]
          /\ UNCHANGED <<owned, nodes>>
     ELSE Full(t) /\ UNCHANGED leaf
  /\ UNCHANGED <<gen, slot, ver, retired, len, prog, reshapes>>

\* disarm, then the store that publishes the leaf.
Count(t) == IF th[t].own # 0 /\ (th[t].call.op = "put" \/ Live(th[t].own)) THEN 1 ELSE 0
Place(t, g) ==
  /\ slot' = [slot EXCEPT ![Key(t)][g].leaf = th[t].own, ![Key(t)][g].ver = @ + 1,
                          ![Key(t)][g].need = <<>>]
  /\ owned' = Published(InLeaf(th[t].own))

\* InserterCache::try_fast: into the cached node, if it is unchanged and has room.
\* It may be of a tree that a clear has detached and not made obsolete yet.
TryFast(t) ==
  /\ th[t].pc = "fast"
  /\ \/ /\ \E g \in Gens :
             LET s == slot[Key(t)][g]
             IN  /\ g <= gen /\ s.leaf = 0 /\ s.need = <<>> /\ ~s.held /\ ~s.obsolete
                 /\ Place(t, g)
        /\ len' = len + Count(t)
        /\ Goto(t, "done")
     \/ Goto(t, "call") /\ UNCHANGED <<slot, len, owned>>
  /\ UNCHANGED <<used, gen, store, prog, nodes, reshapes>>

\* insert_hinted: a pool for this call of it.
CallInsert(t) ==
  /\ th[t].pc = "call"
  /\ th' = [th EXCEPT ![t].pc = "attempt", ![t].pool = <<>>]
  /\ UNCHANGED <<used, gen, slot, store, len, prog, owned, nodes, reshapes>>

\* One attempt: the descent finds the key, or what it takes to insert it.
Attempt(t) ==
  /\ th[t].pc = "attempt" /\ ~Here(t).held
  /\ LET s == Here(t)
         found == s.leaf # 0 /\ th[t].call.op = "insert"
         pool == Reset(th[t].pool)
     IN  /\ th' = [th EXCEPT ![t] =
                    [@ EXCEPT !.seen = [gen |-> gen, ver |-> s.ver, leaf |-> s.leaf],
                              !.wants = IF s.leaf = 0 THEN s.need ELSE <<>>,
                              !.target = s.leaf,
                              !.pool = IF found THEN <<>> ELSE pool,
                              !.pc = IF found THEN "existing" ELSE "prepare"]]
         /\ nodes' = IF found THEN [nodes EXCEPT !.freed = @ \cup ReleaseAll(th[t].pool)] ELSE nodes
  /\ UNCHANGED <<used, gen, slot, store, len, prog, owned, reshapes>>

\* Prepared::node: one of the pool, or a new one.
Prepare(t) ==
  /\ th[t].pc = "prepare" /\ th[t].wants # <<>>
  /\ LET type == Head(th[t].wants)
         pool == th[t].pool
         spare == {i \in DOMAIN pool : ~pool[i].used /\ pool[i].type = type}
         on(p, b) == [th[t] EXCEPT !.wants = Tail(@), !.pool = p, !.bytes = @ + b]
     IN  \/ /\ spare # {}
            /\ th' = [th EXCEPT ![t] = on([pool EXCEPT ![Min(spare)].used = TRUE], 0)]
            /\ UNCHANGED <<used, nodes, owned>>
         \/ /\ spare = {} /\ Fits(type) /\ FreeNodes # {}
            /\ Take(type)
            /\ th' = [th EXCEPT ![t] = on(Append(pool, Entry(FreshNode, type, TRUE)), Size[type])]
            /\ nodes' = [nodes EXCEPT !.made = @ \cup {FreshNode}]
            /\ UNCHANGED owned
         \/ /\ spare = {} /\ ~Fits(type)
            /\ Full(t)
  /\ UNCHANGED <<gen, slot, store, len, prog, reshapes>>

\* The latches confirm the attempt, and the leaf is published, alone or with
\* the nodes prepared for it; or it is retried.
CommitInsert(t) ==
  /\ th[t].pc = "prepare" /\ th[t].wants = <<>>
  /\ LET s == Cell(t)
         old == th[t].seen.leaf
         left == Commit(th[t].pool)
     IN  IF s.ver # th[t].seen.ver \/ s.held \/ s.obsolete
         THEN Goto(t, "attempt") /\ UNCHANGED <<slot, leaf, len, owned, nodes>>
         ELSE /\ Place(t, th[t].seen.gen)
              /\ leaf' = IF old = 0 THEN leaf ELSE [leaf EXCEPT ![old].dead = TRUE]
              /\ len' = IF old = 0 THEN len + Count(t) ELSE len
              /\ nodes' = [nodes EXCEPT !.linked = @ \cup UsedBy(th[t].pool),
                                        !.freed = @ \cup Release(th[t].pool, left)]
              /\ th' = [th EXCEPT ![t].pc = "retire", ![t].pool = <<>>,
                          ![t].leaves = IF old = 0 THEN <<>> ELSE <<old>>]
  /\ UNCHANGED <<used, gen, ver, retired, prog, reshapes>>

\* Outcome::Existing: the version goes to the leaf that won, and ours, without
\* it, is dropped by its owner.  If that leaf is dead, the whole insert again.
HuskHeadKept(t) == th[t].vnode                          \* mutant
HuskHead(t) == 0
ApplyExisting(t) ==
  /\ th[t].pc = "existing"
  /\ LET l == th[t].target
     IN  IF leaf[l].dead THEN Goto(t, "call") /\ UNCHANGED <<leaf, ver, len, owned>>
         ELSE /\ Applied(t, l)
              /\ owned' = [Dropped({leaf[th[t].own].key} \cup ValuesFrom(HuskHead(t))) EXCEPT
                             !.published = @ \cup ({ver[th[t].vnode].value} \ {None})]
  /\ UNCHANGED <<used, gen, slot, retired, prog, nodes, reshapes>>

-----------------------------------------------------------------------------
(* Removes *)

\* remove_version: the version is the only one of its chain.
Only(l, v) == ver[leaf[l].head].version = v /\ ver[leaf[l].head].next = 0

\* get: the leaf of the key, if it has one.
Look(t) ==
  /\ th[t].pc = "look"
  /\ LET s == Here(t)
         c == th[t].call
         next == CASE c.op = "take" -> "take"
                   [] c.op = "removehead" -> "tomb"
                   [] c.op = "removekey" -> "seek"
                   [] c.op = "removever" -> IF Only(s.leaf, c.ver) THEN "seek" ELSE "cut"
                   [] c.op = "prune" -> "choose"
     IN  th' = [th EXCEPT ![t] = [@ EXCEPT !.target = s.leaf,
                  !.seen = [gen |-> gen, ver |-> s.ver, leaf |-> s.leaf],
                  !.pc = IF s.leaf = 0 THEN "done" ELSE next]]
  /\ UNCHANGED <<used, gen, slot, store, len, prog, owned, nodes, reshapes>>

\* ArenaTree::remove.
TakeLeaf(t) ==
  /\ th[t].pc = "take" /\ ~Cell(t).held
  /\ IF Cell(t).ver # th[t].seen.ver \/ Cell(t).obsolete
     THEN Goto(t, "look") /\ UNCHANGED <<slot, leaf, len>>
     ELSE /\ slot' = [slot EXCEPT ![Key(t)][th[t].seen.gen].leaf = 0, ![Key(t)][th[t].seen.gen].ver = @ + 1]
          /\ leaf' = [leaf EXCEPT ![th[t].target].dead = TRUE]
          /\ len' = len - 1
          /\ th' = [th EXCEPT ![t].pc = "retire", ![t].leaves = <<th[t].target>>]
  /\ UNCHANGED <<used, gen, ver, retired, prog, owned, nodes, reshapes>>

\* remove_head: the tombstone is allocated first.  A full arena ends the call.
AllocTomb(t) ==
  /\ th[t].pc = "tomb" /\ FreeVers # {}
  /\ IF Fits("version")
     THEN /\ Take("version")
          /\ ver' = [ver EXCEPT ![FreshVer].there = TRUE]
          /\ th' = [th EXCEPT ![t].vnode = FreshVer, ![t].pc = "relook"]
     ELSE Goto(t, "full") /\ UNCHANGED <<used, ver>>
  /\ UNCHANGED <<gen, slot, leaf, retired, len, prog, owned, nodes, reshapes>>

Relook(t) ==
  /\ th[t].pc = "relook"
  /\ th' = [th EXCEPT ![t].target = Here(t).leaf,
                      ![t].pc = IF Here(t).leaf = 0 THEN "done" ELSE "cuthead"]
  /\ UNCHANGED <<used, gen, slot, store, len, prog, owned, nodes, reshapes>>

CutHead(t) ==
  /\ th[t].pc = "cuthead"
  /\ LET l == th[t].target
         h == leaf[l].head
         x == th[t].vnode
     IN  IF leaf[l].dead THEN Goto(t, "relook") /\ UNCHANGED <<leaf, ver, len>>
         ELSE IF ~Live(l) THEN Goto(t, "done") /\ UNCHANGED <<leaf, ver, len>>
         ELSE /\ ver' = [ver EXCEPT ![x].version = ver[h].version, ![x].next = ver[h].next,
                                    ![h].superseded = TRUE]
              /\ leaf' = [leaf EXCEPT ![l].head = x]
              /\ len' = len - 1
              /\ th' = [th EXCEPT ![t].pc = "retire", ![t].versions = <<h>>]
  /\ UNCHANGED <<used, gen, slot, retired, prog, owned, nodes, reshapes>>

\* unlink_leaf: remove_confirmed descends from the root of now.
Seek(t) ==
  /\ th[t].pc = "seek"
  /\ th' = [th EXCEPT ![t].seen.gen = gen, ![t].pc = "kill"]
  /\ UNCHANGED <<used, gen, slot, store, len, prog, owned, nodes, reshapes>>

TryAgain(r) ==
  IF r.tries + 1 = ATTEMPTS THEN [r EXCEPT !.pc = "done"]
  ELSE [r EXCEPT !.pc = "choose", !.tries = @ + 1]

\* Unlinked::Refused and Unlinked::Missing, by the call.
Refused(r, dead) ==
  CASE r.call.op = "removekey" -> [r EXCEPT !.pc = "look"]
    [] r.call.op = "removever" -> [r EXCEPT !.pc = IF dead THEN "look" ELSE "cut"]
    [] r.call.op = "prune" -> IF dead THEN [r EXCEPT !.pc = "done"] ELSE TryAgain(r)
Missing(r) == [r EXCEPT !.pc = IF r.call.op = "prune" THEN "cutprune" ELSE "done"]

\* The checks of the three callers, under the chain latch.
Accepts(r) ==
  CASE r.call.op = "removekey" -> TRUE
    [] r.call.op = "removever" -> Only(r.target, r.call.ver)
    [] r.call.op = "prune" -> leaf[r.target].head = r.chosen

\* confirm: the chain is killed while the node's latch is held.
Kill(t) ==
  /\ th[t].pc = "kill" /\ ~Cell(t).held
  /\ LET r == th[t]
         l == r.target
         here == Cell(t).leaf = l
     IN  \/ /\ Cell(t).obsolete
            /\ Goto(t, "seek") /\ UNCHANGED <<slot, leaf>>
         \/ /\ ~Cell(t).obsolete /\ (~here \/ leaf[l].dead \/ ~Accepts(r))
            /\ th' = [th EXCEPT ![t] = IF ~here /\ ~leaf[l].dead THEN Missing(r)
                                       ELSE Refused(r, leaf[l].dead)]
            /\ UNCHANGED <<slot, leaf>>
         \/ /\ ~Cell(t).obsolete /\ here /\ ~leaf[l].dead /\ Accepts(r)
            /\ leaf' = [leaf EXCEPT ![l].dead = TRUE]
            /\ slot' = [slot EXCEPT ![Key(t)][r.seen.gen].held = TRUE]
            /\ Goto(t, "unlink")
  /\ UNCHANGED <<used, gen, ver, retired, len, prog, owned, nodes, reshapes>>

\* take_out, and the latch is released.
Unlink(t) ==
  /\ th[t].pc = "unlink"
  /\ LET g == th[t].seen.gen
     IN  slot' = [slot EXCEPT ![Key(t)][g].leaf = 0, ![Key(t)][g].held = FALSE, ![Key(t)][g].ver = @ + 1]
  /\ len' = IF Live(th[t].target) THEN len - 1 ELSE len
  /\ th' = [th EXCEPT ![t].pc = "retire", ![t].leaves = <<th[t].target>>]
  /\ UNCHANGED <<used, gen, store, prog, owned, nodes, reshapes>>

\* remove_version, with others in the chain.
CutVersion(t) ==
  /\ th[t].pc = "cut"
  /\ LET l == th[t].target
         v == th[t].call.ver
         prev == Above(l, v)
         cur == IF prev = 0 THEN leaf[l].head ELSE ver[prev].next
         found == IF cur = 0 THEN FALSE ELSE ver[cur].version = v
         newHead == IF prev = 0 THEN ver[cur].next ELSE leaf[l].head
         live(h) == IF ver[h].value # None THEN 1 ELSE 0
     IN  \/ /\ leaf[l].dead
            /\ Goto(t, "look") /\ UNCHANGED <<leaf, ver, len>>
         \/ /\ ~leaf[l].dead /\ ~found
            /\ Goto(t, "done") /\ UNCHANGED <<leaf, ver, len>>
         \/ /\ ~leaf[l].dead /\ found /\ Only(l, v)
            /\ Goto(t, "look") /\ UNCHANGED <<leaf, ver, len>>
         \/ /\ ~leaf[l].dead /\ found /\ ~Only(l, v)
            /\ leaf' = [leaf EXCEPT ![l].head = newHead]
            /\ ver' = [x \in VerIds |->
                        CASE x = prev -> [ver[x] EXCEPT !.next = ver[cur].next]
                          [] x = cur -> [ver[x] EXCEPT !.superseded = TRUE]
                          [] OTHER -> ver[x]]
            /\ len' = len + live(newHead) - live(leaf[l].head)
            /\ th' = [th EXCEPT ![t].pc = "retire", ![t].versions = <<cur>>]
  /\ UNCHANGED <<used, gen, slot, retired, prog, owned, nodes, reshapes>>

-----------------------------------------------------------------------------
(* Prune and clear *)

\* prune_leaf, steps 1 and 2: the version to keep; a dead key goes whole.
Choose(t) ==
  /\ th[t].pc = "choose"
  /\ LET l == th[t].target
         x == FindLe(l, th[t].call.ver)
         whole == x = leaf[l].head /\ (ver[x].value = None \/ th[t].call.cached)
     IN  th' = [th EXCEPT ![t].chosen = x,
                          ![t].pc = IF x = 0 THEN "done" ELSE IF whole THEN "seek" ELSE "cutprune"]
  /\ UNCHANGED <<used, gen, slot, store, len, prog, owned, nodes, reshapes>>

\* Steps 3 to 5: if it is still the one to keep, everything older is cut off.
StillNewestUnchecked(l, x, v) == TRUE                   \* mutant
StillNewest(l, x, v) == FindLe(l, v) = x /\ ~ver[x].superseded
CutPrune(t) ==
  /\ th[t].pc = "cutprune"
  /\ LET l == th[t].target
         x == th[t].chosen
         tail == Chain(ver[x].next)
     IN  IF leaf[l].dead THEN Goto(t, "done") /\ UNCHANGED ver
         ELSE IF ~StillNewest(l, x, th[t].call.ver)
         THEN th' = [th EXCEPT ![t] = TryAgain(@)] /\ UNCHANGED ver
         ELSE /\ ver' = [v \in VerIds |->
                           CASE v = x -> [ver[v] EXCEPT !.next = 0]
                             [] v \in ToSet(tail) -> [ver[v] EXCEPT !.superseded = TRUE]
                             [] OTHER -> ver[v]]
              /\ th' = [th EXCEPT ![t].pc = "retire", ![t].versions = tail]
  /\ UNCHANGED <<used, gen, slot, leaf, retired, len, prog, owned, nodes, reshapes>>

\* clear: the root is swapped; a new tree starts empty.
SwapRoot(t) ==
  /\ th[t].pc = "swap" /\ gen < Max(Gens)
  /\ gen' = gen + 1
  /\ th' = [th EXCEPT ![t].pc = "sweep", ![t].sweep = Keys, ![t].seen.gen = gen]
  /\ UNCHANGED <<used, slot, store, len, prog, owned, nodes, reshapes>>

\* One place of the detached tree, under its node's latch: the chain is killed
\* and counted, and the node becomes obsolete; its leaf is retired before the
\* walk goes on.
SweepLeavesAlive(l) == leaf                             \* mutant
Swept(l) == IF l = 0 THEN leaf ELSE [leaf EXCEPT ![l].dead = TRUE]
Sweep(t) ==
  /\ th[t].pc = "sweep"
  /\ \E k \in th[t].sweep :
       LET s == slot[k][th[t].seen.gen]
           l == s.leaf
           one == IF l # 0 /\ (leaf[l].value # None \/ Live(l)) THEN 1 ELSE 0
       IN  /\ ~s.held
           /\ slot' = [slot EXCEPT ![k][th[t].seen.gen].leaf = 0, ![k][th[t].seen.gen].obsolete = TRUE]
           /\ leaf' = Swept(l)
           /\ th' = [th EXCEPT ![t].sweep = @ \ {k}, ![t].total = @ + one,
                               ![t].leaves = IF l = 0 THEN <<>> ELSE <<l>>, ![t].pc = "retire"]
  /\ UNCHANGED <<used, gen, ver, retired, len, prog, owned, nodes, reshapes>>

Uncount(t) ==
  /\ th[t].pc = "uncount"
  /\ len' = len - th[t].total
  /\ Goto(t, "done")
  /\ UNCHANGED <<used, gen, slot, store, prog, owned, nodes, reshapes>>

\* retire_leaf and retire_version, after every latch is released: the head of
\* the list is loaded, and what is retired linked to it.
Pushing(t) == IF th[t].leaves # <<>> THEN "leaves" ELSE "versions"
LinkTo(list, o, head) == [retired EXCEPT ![list].link[o] = head]

Retire(t) ==
  /\ th[t].pc = "retire"
  /\ LET r == th[t]
         list == Pushing(t)
         head == retired[list].head
     IN  IF r[list] # <<>>
         THEN /\ retired' = LinkTo(list, Head(r[list]), head)
              /\ th' = [th EXCEPT ![t].pc = "push", ![t].head = head]
         ELSE /\ Goto(t, CASE r.sweep # {} -> "sweep"
                           [] r.sweep = {} /\ r.call.op = "clear" -> "uncount"
                           [] OTHER -> "done")
              /\ UNCHANGED retired
  /\ UNCHANGED <<used, gen, slot, leaf, ver, len, prog, owned, nodes, reshapes>>

\* After a lost race: link again, to the head of now.
RelinkedNot(list, o, head) == retired                   \* mutant
Relinked(list, o, head) == LinkTo(list, o, head)

\* compare_exchange_weak of the head.
Push(t) ==
  /\ th[t].pc = "push"
  /\ LET list == Pushing(t)
         o == Head(th[t][list])
         head == retired[list].head
     IN  IF head = th[t].head
         THEN /\ retired' = [retired EXCEPT ![list].head = o]
              /\ th' = [th EXCEPT ![t].pc = "retire", ![t].head = 0, ![t][list] = Tail(@)]
         ELSE /\ retired' = Relinked(list, o, head)
              /\ th' = [th EXCEPT ![t].head = head]
  /\ UNCHANGED <<used, gen, slot, leaf, ver, len, prog, owned, nodes, reshapes>>

Return(t) ==
  /\ th[t].pc \in {"done", "full"}
  /\ th' = [th EXCEPT ![t] = [IdleThread EXCEPT !.at = th[t].at]]
  /\ UNCHANGED <<used, gen, slot, store, len, prog, owned, nodes, reshapes>>

-----------------------------------------------------------------------------
(* The specification *)

\* Other threads change the tree around a key: a node fills up or empties, a
\* prefix appears, a neighbour comes or goes.
Reshape(k) ==
  /\ reshapes < prog.reshapes /\ reshapes' = reshapes + 1
  /\ ~slot[k][gen].held
  /\ \E n \in prog.needs : slot' = [slot EXCEPT ![k][gen].need = n, ![k][gen].ver = @ + 1]
  /\ UNCHANGED <<used, gen, store, len, th, prog, owned, nodes>>

Quiet == \A t \in Threads : ~Busy(t) /\ th[t].at = Len(Calls(t))

\* What is on a retired list, from the head along the links.
OnList(list) ==
  LET l == retired[list]
      ids == DOMAIN l.link
      on[x \in ids \cup {0}, n \in 0 .. Cardinality(ids)] ==
        IF x = 0 \/ n = 0 THEN <<>> ELSE <<x>> \o on[l.link[x], n - 1]
  IN  on[l.head, Cardinality(ids)]

\* The map is dropped: the tree, the retired versions, the retired leaves.
LinkedLeaves == {slot[k][gen].leaf : k \in Keys} \ {0}
Times(o, parts) == Cardinality({i \in DOMAIN parts : o \in parts[i]})
DropMap ==
  /\ Quiet /\ ~owned.over
  /\ LET live == SetToSeq(LinkedLeaves)
         versions == OnList("versions")
         leaves == OnList("leaves")
         parts == [i \in DOMAIN live |-> InLeaf(live[i])]
                    \o [i \in DOMAIN versions |-> {ver[versions[i]].value}]
                    \o [i \in DOMAIN leaves |-> InLeaf(leaves[i])]
     IN  owned' = [owned EXCEPT !.over = TRUE,
                     !.drops = [o \in Objects |-> @[o] + Times(o, parts)]]
  /\ UNCHANGED <<used, gen, slot, store, len, th, prog, nodes, reshapes>>

Over == owned.over /\ UNCHANGED vars

Init ==
  /\ prog \in Programs /\ used \in prog.used /\ gen = 0 /\ len = 0 /\ reshapes = 0
  /\ slot = [k \in Keys |-> [g \in Gens |->
               [leaf |-> 0, ver |-> 0, need |-> <<>>, held |-> FALSE, obsolete |-> FALSE]]]
  /\ leaf = [l \in LeafIds |-> [key |-> None, value |-> None, head |-> 0, dead |-> FALSE]]
  /\ ver = [v \in VerIds |->
              [there |-> FALSE, value |-> None, version |-> 0, next |-> 0, superseded |-> FALSE]]
  /\ retired = [leaves |-> [head |-> 0, link |-> [l \in LeafIds |-> 0]],
                versions |-> [head |-> 0, link |-> [v \in VerIds |-> 0]]]
  /\ th = [t \in Threads |-> IdleThread]
  /\ owned = [drops |-> [o \in Objects |-> 0], given |-> {}, back |-> {},
              published |-> {}, over |-> FALSE]
  /\ nodes = [made |-> {}, linked |-> {}, freed |-> {}]

Step(t) ==
  \/ Begin(t) \/ Probe(t) \/ AllocVersion(t) \/ ApplyFast(t) \/ AllocLeaf(t) \/ TryFast(t)
  \/ CallInsert(t) \/ Attempt(t) \/ Prepare(t) \/ CommitInsert(t) \/ ApplyExisting(t)
  \/ Look(t) \/ TakeLeaf(t) \/ AllocTomb(t) \/ Relook(t) \/ CutHead(t)
  \/ Seek(t) \/ Kill(t) \/ Unlink(t) \/ CutVersion(t) \/ Choose(t) \/ CutPrune(t)
  \/ SwapRoot(t) \/ Sweep(t) \/ Uncount(t) \/ Retire(t) \/ Push(t) \/ Return(t)

Next ==
  \/ \E t \in Threads : Step(t)
  \/ \E k \in Keys : Reshape(k)
  \/ DropMap \/ Over

Spec == Init /\ [][Next]_vars

-----------------------------------------------------------------------------
(* Properties *)

\* arena/mod.rs: "Dropping the map drops every key and value exactly once": the
\* live tree, the chains and everything unlinked, whatever inserts ran into a
\* full arena or lost their race and whichever leaves were killed meanwhile;
\* and what came back to a caller is not the map's to drop.
DroppedExactlyOnce ==
  \A o \in Objects :
    LET n == owned.drops[o] + (IF o \in owned.back THEN 1 ELSE 0)
    IN  /\ n <= 1
        /\ owned.over => (n = 1 <=> o \in owned.given)

\* arena/mod.rs, Stability: a key or value that was ever in the map stays
\* valid until the map is dropped, although it was replaced, removed, pruned
\* or cleared; and an insert that fails has published nothing.
PublishedStays ==
  ~owned.over => \A o \in owned.published : owned.drops[o] = 0 /\ o \notin owned.back

\* Unused prepared nodes are freed, published ones never, and no node is
\* published that a pool still holds.
PreparedOnce ==
  /\ nodes.linked \cap nodes.freed = {}
  /\ Quiet => nodes.made = nodes.linked \cup nodes.freed

\* len counts the keys with a live newest version once nothing is in flight.
QuiescentLen ==
  Quiet /\ ~owned.over =>
    len = Cardinality({l \in LinkedLeaves : leaf[l].value # None \/ Live(l)})

\* ArenaArtMap::max_insert_bytes.
MaxInsertBytes == Size["leaf"] + Node4s * Size["n4"] + Size["n16"] + Size["n48"] + Size["n256"]

\* arena/map.rs: one insert takes at most max_insert_bytes, "whatever the tree's
\* shape and however many times the insert retries".
PlainWithinMax == \A t \in Threads : Busy(t) /\ th[t].call.op = "put" => th[t].bytes <= MaxInsertBytes

=============================================================================

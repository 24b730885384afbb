-------------------------- MODULE ArenaInsertProofs --------------------------
(***************************************************************************)
(* Proofs about ArenaInsert, for any threads, keys, capacity, sizes and    *)
(* programs: one insert into a plain map stays within max_insert_bytes,    *)
(* prepared nodes are published or freed once, and what was ever in the    *)
(* map stays valid until the map is dropped.                               *)
(***************************************************************************)
EXTENDS ArenaInsert, OrderLemmas, FiniteSetTheorems, SequenceTheorems

-----------------------------------------------------------------------------
(* Shapes *)

ThreadShape(x) ==
  x = [pc |-> x.pc, at |-> x.at, call |-> x.call, target |-> x.target, vnode |-> x.vnode,
       own |-> x.own, pool |-> x.pool, wants |-> x.wants, seen |-> x.seen,
       chosen |-> x.chosen, leaves |-> x.leaves, versions |-> x.versions, head |-> x.head,
       sweep |-> x.sweep, tries |-> x.tries, total |-> x.total, bytes |-> x.bytes]

CellShape(s) ==
  s = [leaf |-> s.leaf, ver |-> s.ver, need |-> s.need, held |-> s.held, obsolete |-> s.obsolete]

LeafShape(x) == x = [key |-> x.key, dead |-> x.dead, head |-> x.head, value |-> x.value]

VerShape(x) ==
  x = [there |-> x.there, value |-> x.value, version |-> x.version, next |-> x.next,
       superseded |-> x.superseded]

OwnedShape(x) ==
  x = [drops |-> x.drops, given |-> x.given, back |-> x.back, published |-> x.published,
       over |-> x.over]

NodesShape(x) == x = [made |-> x.made, linked |-> x.linked, freed |-> x.freed]

Entries == [node : NodeIds, type : NodeTypes, used : BOOLEAN]

\* What an attempt can need.
Needs ==
  {n \in Seq(NodeTypes) : \A type \in NodeTypes : Cardinality(OfType(n, type)) <= Most(type)}

ThreadOK(x) ==
  /\ ThreadShape(x) /\ x.at \in 0 .. MaxCalls
  /\ x.pc # "idle" => x.call \in AnyCall /\ x.at # 0
  /\ x.pool \in Seq(Entries) /\ x.wants \in Seq(NodeTypes)

ThreadsOK == th = [t \in Threads |-> th[t]] /\ \A t \in Threads : ThreadOK(th[t])

SlotsOK ==
  /\ slot = [k \in Keys |-> slot[k]]
  /\ \A k \in Keys : /\ slot[k] = [g \in Gens |-> slot[k][g]]
                     /\ \A g \in Gens : CellShape(slot[k][g]) /\ slot[k][g].need \in Needs

LeavesOK == leaf = [l \in LeafIds |-> leaf[l]] /\ \A l \in LeafIds : LeafShape(leaf[l])
VersOK == ver = [v \in VerIds |-> ver[v]] /\ \A v \in VerIds : VerShape(ver[v])
OwnedOK == OwnedShape(owned) /\ owned.drops = [o \in Objects |-> owned.drops[o]]
NodesOK == NodesShape(nodes)

Shapes ==
  /\ prog \in Programs /\ gen \in Gens
  /\ ThreadsOK /\ SlotsOK /\ LeavesOK /\ VersOK /\ OwnedOK /\ NodesOK

-----------------------------------------------------------------------------
(* The bytes of an insert *)

PutPcs == {"leaf", "fast", "call", "attempt", "prepare", "retire", "push", "done", "full"}

InPool(pool, type) == {i \in DOMAIN pool : pool[i].type = type}
UsedOf(pool, type) == {i \in DOMAIN pool : pool[i].type = type /\ pool[i].used}

Counted(pool, type) == Cardinality(InPool(pool, type))
Spent(pool) ==
  Counted(pool, "n4") * Size["n4"] + Counted(pool, "n16") * Size["n16"]
    + Counted(pool, "n48") * Size["n48"] + Counted(pool, "n256") * Size["n256"]

\* A pool never holds more nodes of a type than one attempt needs: a new one
\* is made only when all of its type are in use by this attempt.
Within(x) ==
  /\ x.pc \in PutPcs /\ x.sweep = {}
  /\ x.pc = "leaf" => x.bytes = 0
  /\ x.pc \in {"fast", "call"} => x.bytes = Size["leaf"]
  /\ x.pc \in {"attempt", "prepare"} =>
       /\ x.bytes = Size["leaf"] + Spent(x.pool)
       /\ \A type \in NodeTypes : Counted(x.pool, type) <= Most(type)
  /\ x.pc = "prepare" =>
       \A type \in NodeTypes :
         Cardinality(UsedOf(x.pool, type)) + Cardinality(OfType(x.wants, type)) <= Most(type)
  /\ x.pc \in {"retire", "push", "done", "full"} => x.bytes <= MaxInsertBytes

BudgetInv == \A t \in Threads : Busy(t) /\ th[t].call.op = "put" => Within(th[t])

-----------------------------------------------------------------------------
(* The prepared nodes *)

PoolOf(t) == ReleaseAll(th[t].pool)

PoolInv ==
  /\ \A t \in Threads :
       /\ th[t].pc \notin {"attempt", "prepare"} => th[t].pool = <<>>
       /\ PoolOf(t) \cap (nodes.linked \cup nodes.freed) = {}
       /\ \A i, j \in DOMAIN th[t].pool : i # j => th[t].pool[i].node # th[t].pool[j].node
       /\ \A u \in Threads : u # t => PoolOf(t) \cap PoolOf(u) = {}
  /\ nodes.linked \cap nodes.freed = {}
  /\ nodes.made = nodes.linked \cup nodes.freed \cup UNION {PoolOf(t) : t \in Threads}

-----------------------------------------------------------------------------
(* What a call still holds, and what is published *)

HeldPcs == {"probe", "version", "apply", "leaf", "fast", "call", "attempt", "prepare", "existing"}
OwnPcs == {"fast", "call", "attempt", "prepare", "existing"}
TombPcs == {"relook", "cuthead"}
TargetPcs == {"apply", "existing", "take", "cuthead", "seek", "kill", "unlink", "cut", "choose", "cutprune"}

Held(t) == th[t].pc \in HeldPcs
VerHeld(t) == th[t].pc \in HeldPcs \cup TombPcs

\* A leaf, or a version, that no call holds any more.
PubLeaf(l) ==
  l \in LeafIds /\ leaf[l].key # None /\ \A t \in Threads : Held(t) => th[t].own # l
PubVer(v) ==
  v \in VerIds /\ ver[v].there /\ \A t \in Threads : VerHeld(t) => th[t].vnode # v

ControlOK(x) ==
  /\ x.pc \in {"probe", "version", "apply", "existing"} => x.call.op = "insert"
  /\ x.pc \in {"apply", "existing"} => x.vnode # 0
  /\ x.pc \in OwnPcs \cup {"leaf"} /\ x.call.op = "insert" => x.vnode # 0
  /\ x.pc \in TargetPcs => x.target # 0
  /\ x.pc \in HeldPcs \ OwnPcs => x.own = 0
  /\ x.pc = "look" => x.call.op \in {"take", "removehead", "removekey", "removever", "prune"}
  /\ x.pc = "take" => x.call.op = "take"
  /\ x.pc \in {"tomb", "relook", "cuthead"} => x.call.op = "removehead"
  /\ x.pc \in {"seek", "kill", "unlink"} => x.call.op \in {"removekey", "removever", "prune"}
  /\ x.pc = "cut" => x.call.op = "removever"
  /\ x.pc \in {"choose", "cutprune"} => x.call.op = "prune"

\* What t holds is its own, and what it found is published.
HoldOK(t) ==
  /\ Held(t) /\ th[t].vnode # 0 =>
       /\ th[t].vnode \in VerIds /\ ver[th[t].vnode].there
       /\ ver[th[t].vnode].value \in {None, MyValue(t)} /\ ver[th[t].vnode].next = 0
  /\ th[t].pc \in OwnPcs =>
       /\ th[t].own \in LeafIds /\ leaf[th[t].own].key = MyKey(t)
       /\ leaf[th[t].own].value \in {None, MyValue(t)} /\ leaf[th[t].own].head = th[t].vnode
  /\ th[t].pc \in TombPcs => th[t].vnode \in VerIds /\ ver[th[t].vnode].there
  /\ th[t].target = 0 \/ PubLeaf(th[t].target)
  /\ th[t].chosen = 0 \/ PubVer(th[t].chosen)

\* No two calls hold the same version.
Apart ==
  \A t, u \in Threads :
    u # t /\ VerHeld(t) /\ VerHeld(u) /\ th[t].vnode # 0 => th[u].vnode # th[t].vnode

HeapOK ==
  /\ \A k \in Keys, g \in Gens : slot[k][g].leaf = 0 \/ PubLeaf(slot[k][g].leaf)
  /\ \A l \in LeafIds : PubLeaf(l) => leaf[l].head = 0 \/ PubVer(leaf[l].head)
  /\ \A v \in VerIds : ver[v].next = 0 \/ PubVer(ver[v].next)

HoldInv == HeapOK /\ Apart /\ \A t \in Threads : HoldOK(t)

Untouched(o) == o \notin owned.published /\ o \notin owned.back /\ owned.drops[o] = 0

OwnInv ==
  /\ owned.published \subseteq Objects
  /\ owned.over => Quiet
  /\ ~owned.over =>
       /\ \A t \in Threads : Held(t) => Untouched(MyKey(t)) /\ Untouched(MyValue(t))
       /\ \A t \in Threads : \A i \in 1 .. MaxCalls :
            i > th[t].at => Untouched(KeyOf(t, i)) /\ Untouched(ValueOf(t, i))
       /\ \A o \in owned.published : owned.drops[o] = 0 /\ o \notin owned.back

-----------------------------------------------------------------------------
(* What the steps do to the threads *)

\* Only t changes, and it keeps its shape.
Alone(t) ==
  /\ th' = [u \in Threads |-> th'[u]] /\ ThreadShape(th'[t])
  /\ \A u \in Threads : u # t => th'[u] = th[u]

SameCall(t) == th'[t].at = th[t].at /\ th'[t].call = th[t].call
SameSweep(t) == th'[t].sweep = th[t].sweep
SamePool(t) ==
  th'[t].pool = th[t].pool /\ th'[t].bytes = th[t].bytes /\ th'[t].wants = th[t].wants
SameHold(t) == th'[t].vnode = th[t].vnode /\ th'[t].own = th[t].own
SameView(t) == th'[t].target = th[t].target /\ th'[t].chosen = th[t].chosen

\* Only the pc, and what no invariant speaks of, changes.
Moves(t) == Alone(t) /\ SameCall(t) /\ SameSweep(t) /\ SamePool(t) /\ SameHold(t) /\ SameView(t)

LEMMA ThreadReplaced ==
  ASSUME NEW t \in Threads, ThreadsOK, NEW x, ThreadShape(x), th' = [th EXCEPT ![t] = x]
  PROVE  Alone(t) /\ th'[t] = x
BY DEF Alone, ThreadsOK

LEMMA GotoDoes ==
  ASSUME NEW t \in Threads, ThreadsOK, NEW pc, Goto(t, pc)
  PROVE  Moves(t) /\ th'[t].pc = pc
<1>1. ThreadShape(th[t]) /\ th = [u \in Threads |-> th[u]]
  BY DEF ThreadsOK, ThreadOK
<1>2. PICK x : x = [th[t] EXCEPT !.pc = pc]
  OBVIOUS
<1>3. /\ ThreadShape(x) /\ x.pc = pc /\ x.at = th[t].at /\ x.call = th[t].call /\ x.sweep = th[t].sweep
      /\ x.pool = th[t].pool /\ x.bytes = th[t].bytes /\ x.wants = th[t].wants
      /\ x.vnode = th[t].vnode /\ x.own = th[t].own /\ x.target = th[t].target /\ x.chosen = th[t].chosen
  BY <1>1, <1>2 DEF ThreadShape
<1>4. th' = [th EXCEPT ![t] = x]
  BY <1>1, <1>2 DEF Goto
<1>5. Alone(t) /\ th'[t] = x
  BY <1>3, <1>4, ThreadReplaced
<1>6. QED
  BY <1>3, <1>5 DEF Moves, SameCall, SameSweep, SamePool, SameHold, SameView

TargetSet(t, l, pc) ==
  th' = [th EXCEPT ![t].target = l, ![t].pc = pc]
LEMMA SetTarget ==
  ASSUME NEW t \in Threads, ThreadsOK, NEW l, NEW pc, TargetSet(t, l, pc)
  PROVE  /\ Alone(t) /\ SameCall(t) /\ SameSweep(t) /\ SamePool(t) /\ SameHold(t)
         /\ th'[t].chosen = th[t].chosen
         /\ th'[t].target = l /\ th'[t].pc = pc
<1>1. ThreadShape(th[t]) /\ th = [u \in Threads |-> th[u]]
  BY DEF ThreadsOK, ThreadOK
<1>2. PICK x : x = [th[t] EXCEPT !.target = l, !.pc = pc]
  OBVIOUS
<1>3. /\ ThreadShape(x) /\ x.target = l /\ x.pc = pc /\ x.at = th[t].at /\ x.call = th[t].call
      /\ x.sweep = th[t].sweep /\ x.pool = th[t].pool /\ x.bytes = th[t].bytes
      /\ x.wants = th[t].wants /\ x.vnode = th[t].vnode /\ x.own = th[t].own
      /\ x.chosen = th[t].chosen
  BY <1>1, <1>2 DEF ThreadShape
<1>4. th' = [th EXCEPT ![t] = x]
  BY <1>1, <1>2 DEF TargetSet
<1>5. Alone(t) /\ th'[t] = x
  BY <1>3, <1>4, ThreadReplaced
<1>6. QED
  BY <1>3, <1>5 DEF SameCall, SameSweep, SamePool, SameHold, SameView

VersionSet(t, v, b, pc) ==
  th' = [th EXCEPT ![t].vnode = v, ![t].bytes = b, ![t].pc = pc]
LEMMA SetVersion ==
  ASSUME NEW t \in Threads, ThreadsOK, NEW v, NEW b, NEW pc, VersionSet(t, v, b, pc)
  PROVE  /\ Alone(t) /\ SameCall(t) /\ SameSweep(t) /\ th'[t].pool = th[t].pool
         /\ th'[t].wants = th[t].wants /\ th'[t].own = th[t].own /\ SameView(t)
         /\ th'[t].vnode = v /\ th'[t].bytes = b /\ th'[t].pc = pc
<1>1. ThreadShape(th[t]) /\ th = [u \in Threads |-> th[u]]
  BY DEF ThreadsOK, ThreadOK
<1>2. PICK x : x = [th[t] EXCEPT !.vnode = v, !.bytes = b, !.pc = pc]
  OBVIOUS
<1>3. /\ ThreadShape(x) /\ x.vnode = v /\ x.bytes = b /\ x.pc = pc /\ x.at = th[t].at
      /\ x.call = th[t].call /\ x.sweep = th[t].sweep /\ x.pool = th[t].pool
      /\ x.wants = th[t].wants /\ x.own = th[t].own /\ x.target = th[t].target
      /\ x.chosen = th[t].chosen
  BY <1>1, <1>2 DEF ThreadShape
<1>4. th' = [th EXCEPT ![t] = x]
  BY <1>1, <1>2 DEF VersionSet
<1>5. Alone(t) /\ th'[t] = x
  BY <1>3, <1>4, ThreadReplaced
<1>6. QED
  BY <1>3, <1>5 DEF SameCall, SameSweep, SamePool, SameHold, SameView

PoolSet(t, pc, pool) ==
  th' = [th EXCEPT ![t].pc = pc, ![t].pool = pool]
LEMMA SetPool ==
  ASSUME NEW t \in Threads, ThreadsOK, NEW pc, NEW pool, PoolSet(t, pc, pool)
  PROVE  /\ Alone(t) /\ SameCall(t) /\ SameSweep(t) /\ th'[t].bytes = th[t].bytes
         /\ th'[t].wants = th[t].wants /\ SameHold(t) /\ SameView(t)
         /\ th'[t].pc = pc /\ th'[t].pool = pool
<1>1. ThreadShape(th[t]) /\ th = [u \in Threads |-> th[u]]
  BY DEF ThreadsOK, ThreadOK
<1>2. PICK x : x = [th[t] EXCEPT !.pc = pc, !.pool = pool]
  OBVIOUS
<1>3. /\ ThreadShape(x) /\ x.pc = pc /\ x.pool = pool /\ x.at = th[t].at /\ x.call = th[t].call
      /\ x.sweep = th[t].sweep /\ x.bytes = th[t].bytes /\ x.wants = th[t].wants
      /\ x.vnode = th[t].vnode /\ x.own = th[t].own /\ x.target = th[t].target
      /\ x.chosen = th[t].chosen
  BY <1>1, <1>2 DEF ThreadShape
<1>4. th' = [th EXCEPT ![t] = x]
  BY <1>1, <1>2 DEF PoolSet
<1>5. Alone(t) /\ th'[t] = x
  BY <1>3, <1>4, ThreadReplaced
<1>6. QED
  BY <1>3, <1>5 DEF SameCall, SameSweep, SamePool, SameHold, SameView

VersionsSet(t, pc, q) ==
  th' = [th EXCEPT ![t].pc = pc, ![t].versions = q]
LEMMA SetVersions ==
  ASSUME NEW t \in Threads, ThreadsOK, NEW pc, NEW q, VersionsSet(t, pc, q)
  PROVE  /\ Alone(t) /\ SameCall(t) /\ SameSweep(t) /\ SamePool(t) /\ SameHold(t) /\ SameView(t)
         /\ th'[t].pc = pc
<1>1. ThreadShape(th[t]) /\ th = [u \in Threads |-> th[u]]
  BY DEF ThreadsOK, ThreadOK
<1>2. PICK x : x = [th[t] EXCEPT !.pc = pc, !.versions = q]
  OBVIOUS
<1>3. /\ ThreadShape(x) /\ x.pc = pc /\ x.at = th[t].at /\ x.call = th[t].call
      /\ x.sweep = th[t].sweep /\ x.pool = th[t].pool /\ x.bytes = th[t].bytes
      /\ x.wants = th[t].wants /\ x.vnode = th[t].vnode /\ x.own = th[t].own
      /\ x.target = th[t].target /\ x.chosen = th[t].chosen
  BY <1>1, <1>2 DEF ThreadShape
<1>4. th' = [th EXCEPT ![t] = x]
  BY <1>1, <1>2 DEF VersionsSet
<1>5. Alone(t) /\ th'[t] = x
  BY <1>3, <1>4, ThreadReplaced
<1>6. QED
  BY <1>3, <1>5 DEF SameCall, SameSweep, SamePool, SameHold, SameView

OwnSet(t, l, b, pc) ==
  th' = [th EXCEPT ![t].own = l, ![t].bytes = b, ![t].pc = pc]
LEMMA SetOwn ==
  ASSUME NEW t \in Threads, ThreadsOK, NEW l, NEW b, NEW pc, OwnSet(t, l, b, pc)
  PROVE  /\ Alone(t) /\ SameCall(t) /\ SameSweep(t) /\ th'[t].pool = th[t].pool
         /\ th'[t].wants = th[t].wants /\ th'[t].vnode = th[t].vnode /\ SameView(t)
         /\ th'[t].own = l /\ th'[t].bytes = b /\ th'[t].pc = pc
<1>1. ThreadShape(th[t]) /\ th = [u \in Threads |-> th[u]]
  BY DEF ThreadsOK, ThreadOK
<1>2. PICK x : x = [th[t] EXCEPT !.own = l, !.bytes = b, !.pc = pc]
  OBVIOUS
<1>3. /\ ThreadShape(x) /\ x.own = l /\ x.bytes = b /\ x.pc = pc /\ x.at = th[t].at
      /\ x.call = th[t].call /\ x.sweep = th[t].sweep /\ x.pool = th[t].pool
      /\ x.wants = th[t].wants /\ x.vnode = th[t].vnode /\ x.target = th[t].target
      /\ x.chosen = th[t].chosen
  BY <1>1, <1>2 DEF ThreadShape
<1>4. th' = [th EXCEPT ![t] = x]
  BY <1>1, <1>2 DEF OwnSet
<1>5. Alone(t) /\ th'[t] = x
  BY <1>3, <1>4, ThreadReplaced
<1>6. QED
  BY <1>3, <1>5 DEF SameCall, SameSweep, SamePool, SameHold, SameView

AttemptSet(t, s, w, l, pool, pc) ==
  th' = [th EXCEPT ![t] = [@ EXCEPT !.seen = s, !.wants = w, !.target = l, !.pool = pool, !.pc = pc]]
LEMMA SetAttempt ==
  ASSUME NEW t \in Threads, ThreadsOK, NEW s, NEW w, NEW l, NEW pool, NEW pc, AttemptSet(t, s, w, l, pool, pc)
  PROVE  /\ Alone(t) /\ SameCall(t) /\ SameSweep(t) /\ th'[t].bytes = th[t].bytes /\ SameHold(t)
         /\ th'[t].chosen = th[t].chosen
         /\ th'[t].wants = w /\ th'[t].target = l /\ th'[t].pool = pool /\ th'[t].pc = pc
<1>1. ThreadShape(th[t]) /\ th = [u \in Threads |-> th[u]]
  BY DEF ThreadsOK, ThreadOK
<1>2. PICK x : x = [th[t] EXCEPT !.seen = s, !.wants = w, !.target = l, !.pool = pool, !.pc = pc]
  OBVIOUS
<1>3. /\ ThreadShape(x) /\ x.wants = w /\ x.target = l /\ x.pool = pool /\ x.pc = pc
      /\ x.at = th[t].at /\ x.call = th[t].call /\ x.sweep = th[t].sweep /\ x.bytes = th[t].bytes
      /\ x.vnode = th[t].vnode /\ x.own = th[t].own /\ x.chosen = th[t].chosen
  BY <1>1, <1>2 DEF ThreadShape
<1>4. th' = [th EXCEPT ![t] = x]
  BY <1>1, <1>2 DEF AttemptSet
<1>5. Alone(t) /\ th'[t] = x
  BY <1>3, <1>4, ThreadReplaced
<1>6. QED
  BY <1>3, <1>5 DEF SameCall, SameSweep, SamePool, SameHold, SameView

PreparedSet(t, w, pool, b) ==
  th' = [th EXCEPT ![t] = [@ EXCEPT !.wants = w, !.pool = pool, !.bytes = b]]
LEMMA SetPrepared ==
  ASSUME NEW t \in Threads, ThreadsOK, NEW w, NEW pool, NEW b, PreparedSet(t, w, pool, b)
  PROVE  /\ Alone(t) /\ SameCall(t) /\ SameSweep(t) /\ SameHold(t) /\ SameView(t)
         /\ th'[t].wants = w /\ th'[t].pool = pool /\ th'[t].bytes = b /\ th'[t].pc = th[t].pc
<1>1. ThreadShape(th[t]) /\ th = [u \in Threads |-> th[u]]
  BY DEF ThreadsOK, ThreadOK
<1>2. PICK x : x = [th[t] EXCEPT !.wants = w, !.pool = pool, !.bytes = b]
  OBVIOUS
<1>3. /\ ThreadShape(x) /\ x.wants = w /\ x.pool = pool /\ x.bytes = b /\ x.at = th[t].at
      /\ x.call = th[t].call /\ x.sweep = th[t].sweep /\ x.vnode = th[t].vnode
      /\ x.own = th[t].own /\ x.target = th[t].target /\ x.chosen = th[t].chosen
      /\ x.pc = th[t].pc
  BY <1>1, <1>2 DEF ThreadShape
<1>4. th' = [th EXCEPT ![t] = x]
  BY <1>1, <1>2 DEF PreparedSet
<1>5. Alone(t) /\ th'[t] = x
  BY <1>3, <1>4, ThreadReplaced
<1>6. QED
  BY <1>3, <1>5 DEF SameCall, SameSweep, SamePool, SameHold, SameView

CommittedSet(t, pc, pool, q) ==
  th' = [th EXCEPT ![t].pc = pc, ![t].pool = pool, ![t].leaves = q]
LEMMA SetCommitted ==
  ASSUME NEW t \in Threads, ThreadsOK, NEW pc, NEW pool, NEW q, CommittedSet(t, pc, pool, q)
  PROVE  /\ Alone(t) /\ SameCall(t) /\ SameSweep(t) /\ th'[t].bytes = th[t].bytes
         /\ th'[t].wants = th[t].wants /\ SameHold(t) /\ SameView(t)
         /\ th'[t].pc = pc /\ th'[t].pool = pool
<1>1. ThreadShape(th[t]) /\ th = [u \in Threads |-> th[u]]
  BY DEF ThreadsOK, ThreadOK
<1>2. PICK x : x = [th[t] EXCEPT !.pc = pc, !.pool = pool, !.leaves = q]
  OBVIOUS
<1>3. /\ ThreadShape(x) /\ x.pc = pc /\ x.pool = pool /\ x.at = th[t].at /\ x.call = th[t].call
      /\ x.sweep = th[t].sweep /\ x.bytes = th[t].bytes /\ x.wants = th[t].wants
      /\ x.vnode = th[t].vnode /\ x.own = th[t].own /\ x.target = th[t].target
      /\ x.chosen = th[t].chosen
  BY <1>1, <1>2 DEF ThreadShape
<1>4. th' = [th EXCEPT ![t] = x]
  BY <1>1, <1>2 DEF CommittedSet
<1>5. Alone(t) /\ th'[t] = x
  BY <1>3, <1>4, ThreadReplaced
<1>6. QED
  BY <1>3, <1>5 DEF SameCall, SameSweep, SamePool, SameHold, SameView

LeavesSet(t, pc, q) ==
  th' = [th EXCEPT ![t].pc = pc, ![t].leaves = q]
LEMMA SetLeaves ==
  ASSUME NEW t \in Threads, ThreadsOK, NEW pc, NEW q, LeavesSet(t, pc, q)
  PROVE  /\ Alone(t) /\ SameCall(t) /\ SameSweep(t) /\ SamePool(t) /\ SameHold(t) /\ SameView(t)
         /\ th'[t].pc = pc
<1>1. ThreadShape(th[t]) /\ th = [u \in Threads |-> th[u]]
  BY DEF ThreadsOK, ThreadOK
<1>2. PICK x : x = [th[t] EXCEPT !.pc = pc, !.leaves = q]
  OBVIOUS
<1>3. /\ ThreadShape(x) /\ x.pc = pc /\ x.at = th[t].at /\ x.call = th[t].call
      /\ x.sweep = th[t].sweep /\ x.pool = th[t].pool /\ x.bytes = th[t].bytes
      /\ x.wants = th[t].wants /\ x.vnode = th[t].vnode /\ x.own = th[t].own
      /\ x.target = th[t].target /\ x.chosen = th[t].chosen
  BY <1>1, <1>2 DEF ThreadShape
<1>4. th' = [th EXCEPT ![t] = x]
  BY <1>1, <1>2 DEF LeavesSet
<1>5. Alone(t) /\ th'[t] = x
  BY <1>3, <1>4, ThreadReplaced
<1>6. QED
  BY <1>3, <1>5 DEF SameCall, SameSweep, SamePool, SameHold, SameView

LookedSet(t, l, s, pc) ==
  th' = [th EXCEPT ![t] = [@ EXCEPT !.target = l, !.seen = s, !.pc = pc]]
LEMMA SetLooked ==
  ASSUME NEW t \in Threads, ThreadsOK, NEW l, NEW s, NEW pc, LookedSet(t, l, s, pc)
  PROVE  /\ Alone(t) /\ SameCall(t) /\ SameSweep(t) /\ SamePool(t) /\ SameHold(t)
         /\ th'[t].chosen = th[t].chosen
         /\ th'[t].target = l /\ th'[t].pc = pc
<1>1. ThreadShape(th[t]) /\ th = [u \in Threads |-> th[u]]
  BY DEF ThreadsOK, ThreadOK
<1>2. PICK x : x = [th[t] EXCEPT !.target = l, !.seen = s, !.pc = pc]
  OBVIOUS
<1>3. /\ ThreadShape(x) /\ x.target = l /\ x.pc = pc /\ x.at = th[t].at /\ x.call = th[t].call
      /\ x.sweep = th[t].sweep /\ x.pool = th[t].pool /\ x.bytes = th[t].bytes
      /\ x.wants = th[t].wants /\ x.vnode = th[t].vnode /\ x.own = th[t].own
      /\ x.chosen = th[t].chosen
  BY <1>1, <1>2 DEF ThreadShape
<1>4. th' = [th EXCEPT ![t] = x]
  BY <1>1, <1>2 DEF LookedSet
<1>5. Alone(t) /\ th'[t] = x
  BY <1>3, <1>4, ThreadReplaced
<1>6. QED
  BY <1>3, <1>5 DEF SameCall, SameSweep, SamePool, SameHold, SameView

TombSet(t, v, pc) ==
  th' = [th EXCEPT ![t].vnode = v, ![t].pc = pc]
LEMMA SetTomb ==
  ASSUME NEW t \in Threads, ThreadsOK, NEW v, NEW pc, TombSet(t, v, pc)
  PROVE  /\ Alone(t) /\ SameCall(t) /\ SameSweep(t) /\ SamePool(t) /\ th'[t].own = th[t].own
         /\ SameView(t)
         /\ th'[t].vnode = v /\ th'[t].pc = pc
<1>1. ThreadShape(th[t]) /\ th = [u \in Threads |-> th[u]]
  BY DEF ThreadsOK, ThreadOK
<1>2. PICK x : x = [th[t] EXCEPT !.vnode = v, !.pc = pc]
  OBVIOUS
<1>3. /\ ThreadShape(x) /\ x.vnode = v /\ x.pc = pc /\ x.at = th[t].at /\ x.call = th[t].call
      /\ x.sweep = th[t].sweep /\ x.pool = th[t].pool /\ x.bytes = th[t].bytes
      /\ x.wants = th[t].wants /\ x.own = th[t].own /\ x.target = th[t].target
      /\ x.chosen = th[t].chosen
  BY <1>1, <1>2 DEF ThreadShape
<1>4. th' = [th EXCEPT ![t] = x]
  BY <1>1, <1>2 DEF TombSet
<1>5. Alone(t) /\ th'[t] = x
  BY <1>3, <1>4, ThreadReplaced
<1>6. QED
  BY <1>3, <1>5 DEF SameCall, SameSweep, SamePool, SameHold, SameView

SeekSet(t, g, pc) ==
  th' = [th EXCEPT ![t].seen.gen = g, ![t].pc = pc]
LEMMA SetSeek ==
  ASSUME NEW t \in Threads, ThreadsOK, NEW g, NEW pc, SeekSet(t, g, pc)
  PROVE  /\ Alone(t) /\ SameCall(t) /\ SameSweep(t) /\ SamePool(t) /\ SameHold(t) /\ SameView(t)
         /\ th'[t].pc = pc
<1>1. ThreadShape(th[t]) /\ th = [u \in Threads |-> th[u]]
  BY DEF ThreadsOK, ThreadOK
<1>2. PICK x : x = [th[t] EXCEPT !.seen.gen = g, !.pc = pc]
  OBVIOUS
<1>3. /\ ThreadShape(x) /\ x.pc = pc /\ x.at = th[t].at /\ x.call = th[t].call
      /\ x.sweep = th[t].sweep /\ x.pool = th[t].pool /\ x.bytes = th[t].bytes
      /\ x.wants = th[t].wants /\ x.vnode = th[t].vnode /\ x.own = th[t].own
      /\ x.target = th[t].target /\ x.chosen = th[t].chosen
  BY <1>1, <1>2 DEF ThreadShape
<1>4. th' = [th EXCEPT ![t] = x]
  BY <1>1, <1>2 DEF SeekSet
<1>5. Alone(t) /\ th'[t] = x
  BY <1>3, <1>4, ThreadReplaced
<1>6. QED
  BY <1>3, <1>5 DEF SameCall, SameSweep, SamePool, SameHold, SameView

TriesSet(t, pc, n) ==
  th' = [th EXCEPT ![t] = [@ EXCEPT !.pc = pc, !.tries = n]]
LEMMA SetTries ==
  ASSUME NEW t \in Threads, ThreadsOK, NEW pc, NEW n, TriesSet(t, pc, n)
  PROVE  /\ Alone(t) /\ SameCall(t) /\ SameSweep(t) /\ SamePool(t) /\ SameHold(t) /\ SameView(t)
         /\ th'[t].pc = pc
<1>1. ThreadShape(th[t]) /\ th = [u \in Threads |-> th[u]]
  BY DEF ThreadsOK, ThreadOK
<1>2. PICK x : x = [th[t] EXCEPT !.pc = pc, !.tries = n]
  OBVIOUS
<1>3. /\ ThreadShape(x) /\ x.pc = pc /\ x.at = th[t].at /\ x.call = th[t].call
      /\ x.sweep = th[t].sweep /\ x.pool = th[t].pool /\ x.bytes = th[t].bytes
      /\ x.wants = th[t].wants /\ x.vnode = th[t].vnode /\ x.own = th[t].own
      /\ x.target = th[t].target /\ x.chosen = th[t].chosen
  BY <1>1, <1>2 DEF ThreadShape
<1>4. th' = [th EXCEPT ![t] = x]
  BY <1>1, <1>2 DEF TriesSet
<1>5. Alone(t) /\ th'[t] = x
  BY <1>3, <1>4, ThreadReplaced
<1>6. QED
  BY <1>3, <1>5 DEF SameCall, SameSweep, SamePool, SameHold, SameView

ChosenSet(t, v, pc) ==
  th' = [th EXCEPT ![t].chosen = v, ![t].pc = pc]
LEMMA SetChosen ==
  ASSUME NEW t \in Threads, ThreadsOK, NEW v, NEW pc, ChosenSet(t, v, pc)
  PROVE  /\ Alone(t) /\ SameCall(t) /\ SameSweep(t) /\ SamePool(t) /\ SameHold(t)
         /\ th'[t].target = th[t].target
         /\ th'[t].chosen = v /\ th'[t].pc = pc
<1>1. ThreadShape(th[t]) /\ th = [u \in Threads |-> th[u]]
  BY DEF ThreadsOK, ThreadOK
<1>2. PICK x : x = [th[t] EXCEPT !.chosen = v, !.pc = pc]
  OBVIOUS
<1>3. /\ ThreadShape(x) /\ x.chosen = v /\ x.pc = pc /\ x.at = th[t].at /\ x.call = th[t].call
      /\ x.sweep = th[t].sweep /\ x.pool = th[t].pool /\ x.bytes = th[t].bytes
      /\ x.wants = th[t].wants /\ x.vnode = th[t].vnode /\ x.own = th[t].own
      /\ x.target = th[t].target
  BY <1>1, <1>2 DEF ThreadShape
<1>4. th' = [th EXCEPT ![t] = x]
  BY <1>1, <1>2 DEF ChosenSet
<1>5. Alone(t) /\ th'[t] = x
  BY <1>3, <1>4, ThreadReplaced
<1>6. QED
  BY <1>3, <1>5 DEF SameCall, SameSweep, SamePool, SameHold, SameView

SweptSet(t, pc, s, g) ==
  th' = [th EXCEPT ![t].pc = pc, ![t].sweep = s, ![t].seen.gen = g]
LEMMA SetSwept ==
  ASSUME NEW t \in Threads, ThreadsOK, NEW pc, NEW s, NEW g, SweptSet(t, pc, s, g)
  PROVE  /\ Alone(t) /\ SameCall(t) /\ SamePool(t) /\ SameHold(t) /\ SameView(t)
         /\ th'[t].pc = pc /\ th'[t].sweep = s
<1>1. ThreadShape(th[t]) /\ th = [u \in Threads |-> th[u]]
  BY DEF ThreadsOK, ThreadOK
<1>2. PICK x : x = [th[t] EXCEPT !.pc = pc, !.sweep = s, !.seen.gen = g]
  OBVIOUS
<1>3. /\ ThreadShape(x) /\ x.pc = pc /\ x.sweep = s /\ x.at = th[t].at /\ x.call = th[t].call
      /\ x.pool = th[t].pool /\ x.bytes = th[t].bytes /\ x.wants = th[t].wants
      /\ x.vnode = th[t].vnode /\ x.own = th[t].own /\ x.target = th[t].target
      /\ x.chosen = th[t].chosen
  BY <1>1, <1>2 DEF ThreadShape
<1>4. th' = [th EXCEPT ![t] = x]
  BY <1>1, <1>2 DEF SweptSet
<1>5. Alone(t) /\ th'[t] = x
  BY <1>3, <1>4, ThreadReplaced
<1>6. QED
  BY <1>3, <1>5 DEF SameCall, SameSweep, SamePool, SameHold, SameView

SweepingSet(t, s, n, q, pc) ==
  th' = [th EXCEPT ![t].sweep = s, ![t].total = n, ![t].leaves = q, ![t].pc = pc]
LEMMA SetSweeping ==
  ASSUME NEW t \in Threads, ThreadsOK, NEW s, NEW n, NEW q, NEW pc, SweepingSet(t, s, n, q, pc)
  PROVE  /\ Alone(t) /\ SameCall(t) /\ SamePool(t) /\ SameHold(t) /\ SameView(t)
         /\ th'[t].sweep = s /\ th'[t].pc = pc
<1>1. ThreadShape(th[t]) /\ th = [u \in Threads |-> th[u]]
  BY DEF ThreadsOK, ThreadOK
<1>2. PICK x : x = [th[t] EXCEPT !.sweep = s, !.total = n, !.leaves = q, !.pc = pc]
  OBVIOUS
<1>3. /\ ThreadShape(x) /\ x.sweep = s /\ x.pc = pc /\ x.at = th[t].at /\ x.call = th[t].call
      /\ x.pool = th[t].pool /\ x.bytes = th[t].bytes /\ x.wants = th[t].wants
      /\ x.vnode = th[t].vnode /\ x.own = th[t].own /\ x.target = th[t].target
      /\ x.chosen = th[t].chosen
  BY <1>1, <1>2 DEF ThreadShape
<1>4. th' = [th EXCEPT ![t] = x]
  BY <1>1, <1>2 DEF SweepingSet
<1>5. Alone(t) /\ th'[t] = x
  BY <1>3, <1>4, ThreadReplaced
<1>6. QED
  BY <1>3, <1>5 DEF SameCall, SameSweep, SamePool, SameHold, SameView

HeadSet(t, pc, h) ==
  th' = [th EXCEPT ![t].pc = pc, ![t].head = h]
LEMMA SetHead ==
  ASSUME NEW t \in Threads, ThreadsOK, NEW pc, NEW h, HeadSet(t, pc, h)
  PROVE  /\ Alone(t) /\ SameCall(t) /\ SameSweep(t) /\ SamePool(t) /\ SameHold(t) /\ SameView(t)
         /\ th'[t].pc = pc
<1>1. ThreadShape(th[t]) /\ th = [u \in Threads |-> th[u]]
  BY DEF ThreadsOK, ThreadOK
<1>2. PICK x : x = [th[t] EXCEPT !.pc = pc, !.head = h]
  OBVIOUS
<1>3. /\ ThreadShape(x) /\ x.pc = pc /\ x.at = th[t].at /\ x.call = th[t].call
      /\ x.sweep = th[t].sweep /\ x.pool = th[t].pool /\ x.bytes = th[t].bytes
      /\ x.wants = th[t].wants /\ x.vnode = th[t].vnode /\ x.own = th[t].own
      /\ x.target = th[t].target /\ x.chosen = th[t].chosen
  BY <1>1, <1>2 DEF ThreadShape
<1>4. th' = [th EXCEPT ![t] = x]
  BY <1>1, <1>2 DEF HeadSet
<1>5. Alone(t) /\ th'[t] = x
  BY <1>3, <1>4, ThreadReplaced
<1>6. QED
  BY <1>3, <1>5 DEF SameCall, SameSweep, SamePool, SameHold, SameView

HeadOnlySet(t, h) ==
  th' = [th EXCEPT ![t].head = h]
LEMMA SetHeadOnly ==
  ASSUME NEW t \in Threads, ThreadsOK, NEW h, HeadOnlySet(t, h)
  PROVE  /\ Alone(t) /\ SameCall(t) /\ SameSweep(t) /\ SamePool(t) /\ SameHold(t) /\ SameView(t)
         /\ th'[t].pc = th[t].pc
<1>1. ThreadShape(th[t]) /\ th = [u \in Threads |-> th[u]]
  BY DEF ThreadsOK, ThreadOK
<1>2. PICK x : x = [th[t] EXCEPT !.head = h]
  OBVIOUS
<1>3. /\ ThreadShape(x) /\ x.at = th[t].at /\ x.call = th[t].call /\ x.sweep = th[t].sweep
      /\ x.pool = th[t].pool /\ x.bytes = th[t].bytes /\ x.wants = th[t].wants
      /\ x.vnode = th[t].vnode /\ x.own = th[t].own /\ x.target = th[t].target
      /\ x.chosen = th[t].chosen /\ x.pc = th[t].pc
  BY <1>1, <1>2 DEF ThreadShape
<1>4. th' = [th EXCEPT ![t] = x]
  BY <1>1, <1>2 DEF HeadOnlySet
<1>5. Alone(t) /\ th'[t] = x
  BY <1>3, <1>4, ThreadReplaced
<1>6. QED
  BY <1>3, <1>5 DEF SameCall, SameSweep, SamePool, SameHold, SameView

PushedLeafSet(t, pc, h, q) ==
  th' = [th EXCEPT ![t].pc = pc, ![t].head = h, ![t].leaves = q]
LEMMA SetPushedLeaf ==
  ASSUME NEW t \in Threads, ThreadsOK, NEW pc, NEW h, NEW q, PushedLeafSet(t, pc, h, q)
  PROVE  /\ Alone(t) /\ SameCall(t) /\ SameSweep(t) /\ SamePool(t) /\ SameHold(t) /\ SameView(t)
         /\ th'[t].pc = pc
<1>1. ThreadShape(th[t]) /\ th = [u \in Threads |-> th[u]]
  BY DEF ThreadsOK, ThreadOK
<1>2. PICK x : x = [th[t] EXCEPT !.pc = pc, !.head = h, !.leaves = q]
  OBVIOUS
<1>3. /\ ThreadShape(x) /\ x.pc = pc /\ x.at = th[t].at /\ x.call = th[t].call
      /\ x.sweep = th[t].sweep /\ x.pool = th[t].pool /\ x.bytes = th[t].bytes
      /\ x.wants = th[t].wants /\ x.vnode = th[t].vnode /\ x.own = th[t].own
      /\ x.target = th[t].target /\ x.chosen = th[t].chosen
  BY <1>1, <1>2 DEF ThreadShape
<1>4. th' = [th EXCEPT ![t] = x]
  BY <1>1, <1>2 DEF PushedLeafSet
<1>5. Alone(t) /\ th'[t] = x
  BY <1>3, <1>4, ThreadReplaced
<1>6. QED
  BY <1>3, <1>5 DEF SameCall, SameSweep, SamePool, SameHold, SameView

PushedVersionSet(t, pc, h, q) ==
  th' = [th EXCEPT ![t].pc = pc, ![t].head = h, ![t].versions = q]
LEMMA SetPushedVersion ==
  ASSUME NEW t \in Threads, ThreadsOK, NEW pc, NEW h, NEW q, PushedVersionSet(t, pc, h, q)
  PROVE  /\ Alone(t) /\ SameCall(t) /\ SameSweep(t) /\ SamePool(t) /\ SameHold(t) /\ SameView(t)
         /\ th'[t].pc = pc
<1>1. ThreadShape(th[t]) /\ th = [u \in Threads |-> th[u]]
  BY DEF ThreadsOK, ThreadOK
<1>2. PICK x : x = [th[t] EXCEPT !.pc = pc, !.head = h, !.versions = q]
  OBVIOUS
<1>3. /\ ThreadShape(x) /\ x.pc = pc /\ x.at = th[t].at /\ x.call = th[t].call
      /\ x.sweep = th[t].sweep /\ x.pool = th[t].pool /\ x.bytes = th[t].bytes
      /\ x.wants = th[t].wants /\ x.vnode = th[t].vnode /\ x.own = th[t].own
      /\ x.target = th[t].target /\ x.chosen = th[t].chosen
  BY <1>1, <1>2 DEF ThreadShape
<1>4. th' = [th EXCEPT ![t] = x]
  BY <1>1, <1>2 DEF PushedVersionSet
<1>5. Alone(t) /\ th'[t] = x
  BY <1>3, <1>4, ThreadReplaced
<1>6. QED
  BY <1>3, <1>5 DEF SameCall, SameSweep, SamePool, SameHold, SameView

\* A thread between two calls, or at the beginning of one.
Fresh(t, at, call, pc) ==
  /\ Alone(t) /\ th'[t].at = at /\ th'[t].call = call /\ th'[t].pc = pc /\ th'[t].sweep = {}
  /\ th'[t].pool = <<>> /\ th'[t].bytes = 0 /\ th'[t].wants = <<>>
  /\ th'[t].vnode = 0 /\ th'[t].own = 0 /\ th'[t].target = 0 /\ th'[t].chosen = 0

FirstPc(c) ==
  CASE c.op = "insert" -> "probe" [] c.op = "put" -> "leaf" [] c.op = "clear" -> "swap"
    [] OTHER -> "look"

LEMMA BeginDoes ==
  ASSUME NEW t \in Threads, Shapes, Begin(t)
  PROVE  /\ th[t].pc = "idle" /\ th[t].at + 1 \in 1 .. MaxCalls /\ th[t].at < Len(Calls(t))
         /\ \E c \in AnyCall : Fresh(t, th[t].at + 1, c, FirstPc(c))
<1>0. ThreadsOK /\ prog \in Programs /\ th[t].at \in Nat
  BY DEF Shapes, ThreadsOK, ThreadOK
<1>1. th[t].pc = "idle" /\ th[t].at < Len(Calls(t))
  BY Zenon DEF Begin, Busy
<1>2. prog.calls[t] \in Seq(SUBSET AnyCall) /\ Len(prog.calls[t]) <= MaxCalls
  BY <1>0, ArenaInsertAssumption
<1>3. PICK q \in Seq(SUBSET AnyCall) : q = Calls(t) /\ Len(q) <= MaxCalls
  BY <1>2 DEF Calls
<1>4. PICK c \in Calls(t)[th[t].at + 1] :
        th' = [th EXCEPT ![t] = [IdleThread EXCEPT !.pc = FirstPc(c), !.at = th[t].at + 1, !.call = c]]
  BY Zenon DEF Begin, FirstPc
<1>5. th[t].at + 1 \in 1 .. Len(q)
  BY <1>0, <1>1, <1>3
<1>6. c \in AnyCall
  BY <1>3, <1>4, <1>5
<1>7. PICK x, pc, at : /\ pc = FirstPc(c) /\ at = th[t].at + 1
                       /\ x = [IdleThread EXCEPT !.pc = pc, !.at = at, !.call = c]
  OBVIOUS
<1>8. /\ ThreadShape(x) /\ x.at = at /\ x.call = c /\ x.pc = pc /\ x.sweep = {} /\ x.pool = <<>>
      /\ x.bytes = 0 /\ x.wants = <<>> /\ x.vnode = 0 /\ x.own = 0 /\ x.target = 0 /\ x.chosen = 0
  BY <1>7 DEF ThreadShape, IdleThread
<1>9. th' = [th EXCEPT ![t] = x]
  BY <1>4, <1>7, Zenon
<1>10. Alone(t) /\ th'[t] = x
  BY <1>0, <1>8, <1>9, ThreadReplaced
<1>11. Fresh(t, at, c, pc)
  BY <1>8, <1>10 DEF Fresh
<1>12. th[t].at + 1 \in 1 .. MaxCalls
  BY <1>0, <1>3, <1>5, ArenaInsertAssumption
<1>13. QED
  BY <1>1, <1>6, <1>7, <1>11, <1>12, Zenon

LEMMA ReturnDoes ==
  ASSUME NEW t \in Threads, ThreadsOK, Return(t)
  PROVE  th[t].pc \in {"done", "full"} /\ Fresh(t, th[t].at, None, "idle")
<1>1. PICK x, at : at = th[t].at /\ x = [IdleThread EXCEPT !.at = at]
  OBVIOUS
<1>2. /\ ThreadShape(x) /\ x.at = at /\ x.call = None /\ x.pc = "idle" /\ x.sweep = {} /\ x.pool = <<>>
      /\ x.bytes = 0 /\ x.wants = <<>> /\ x.vnode = 0 /\ x.own = 0 /\ x.target = 0 /\ x.chosen = 0
  BY <1>1 DEF ThreadShape, IdleThread
<1>3. th' = [th EXCEPT ![t] = x] /\ th[t].pc \in {"done", "full"}
  BY <1>1, Zenon DEF Return
<1>4. Alone(t) /\ th'[t] = x
  BY <1>2, <1>3, ThreadReplaced
<1>5. QED
  BY <1>1, <1>2, <1>3, <1>4 DEF Fresh

LEMMA ProbeDoes ==
  ASSUME NEW t \in Threads, ThreadsOK, Probe(t)
  PROVE  /\ th[t].pc = "probe" /\ Alone(t) /\ SameCall(t) /\ SameSweep(t) /\ SamePool(t) /\ SameHold(t)
         /\ th'[t].chosen = th[t].chosen /\ th'[t].target = Here(t).leaf
         /\ \/ th[t].vnode = 0 /\ th'[t].pc = "version"
            \/ th[t].vnode # 0 /\ Here(t).leaf # 0 /\ th'[t].pc = "apply"
            \/ th[t].vnode # 0 /\ Here(t).leaf = 0 /\ th'[t].pc = "leaf"
<1>1. PICK l, pc : /\ l = Here(t).leaf
                   /\ pc = CASE th[t].vnode = 0 -> "version"
                             [] th[t].vnode # 0 /\ l # 0 -> "apply"
                             [] OTHER -> "leaf"
  BY Zenon
<1>2. th[t].pc = "probe" /\ TargetSet(t, l, pc)
  BY <1>1, Zenon DEF Probe, TargetSet
<1>3. /\ Alone(t) /\ SameCall(t) /\ SameSweep(t) /\ SamePool(t) /\ SameHold(t)
      /\ th'[t].chosen = th[t].chosen /\ th'[t].target = l /\ th'[t].pc = pc
  BY <1>2, SetTarget
<1>4. QED
  BY <1>1, <1>2, <1>3

LEMMA FullDoes ==
  ASSUME NEW t \in Threads, ThreadsOK, Full(t)
  PROVE  /\ Alone(t) /\ SameCall(t) /\ SameSweep(t) /\ SameHold(t) /\ SameView(t)
         /\ th'[t].bytes = th[t].bytes /\ th'[t].wants = th[t].wants /\ th'[t].pool = <<>>
         /\ th'[t].pc = "full"
<1>1. PoolSet(t, "full", <<>>)
  BY Zenon DEF Full, PoolSet
<1>2. QED
  BY <1>1, SetPool

LEMMA AllocVersionDoes ==
  ASSUME NEW t \in Threads, ThreadsOK, AllocVersion(t)
  PROVE  /\ th[t].pc = "version" /\ Alone(t) /\ SameCall(t) /\ SameSweep(t) /\ SameView(t)
         /\ th'[t].own = th[t].own /\ th'[t].wants = th[t].wants
         /\ \/ /\ Fits("version") /\ th'[t].vnode = FreshVer /\ th'[t].pool = th[t].pool
               /\ th'[t].pc = IF th[t].target # 0 THEN "apply" ELSE "leaf"
            \/ ~Fits("version") /\ Full(t) /\ SameHold(t) /\ th'[t].pc = "full" /\ th'[t].pool = <<>>
<1>1. CASE Fits("version")
  <2>1. PICK v, b, pc : /\ v = FreshVer /\ b = th[t].bytes + Size["version"]
                        /\ pc = IF th[t].target # 0 THEN "apply" ELSE "leaf"
    BY Zenon
  <2>2. th[t].pc = "version" /\ VersionSet(t, v, b, pc)
    BY <1>1, <2>1, Zenon DEF AllocVersion, VersionSet
  <2>3. /\ Alone(t) /\ SameCall(t) /\ SameSweep(t) /\ SameView(t) /\ th'[t].own = th[t].own
        /\ th'[t].pool = th[t].pool /\ th'[t].wants = th[t].wants
        /\ th'[t].vnode = v /\ th'[t].pc = pc
    BY <2>2, SetVersion
  <2>4. QED
    BY <1>1, <2>1, <2>2, <2>3
<1>2. CASE ~Fits("version")
  <2>1. th[t].pc = "version" /\ Full(t)
    BY <1>2, Zenon DEF AllocVersion
  <2>2. QED
    BY <1>2, <2>1, FullDoes DEF SameHold
<1>3. QED
  BY <1>1, <1>2

LEMMA AppliedDoes ==
  ASSUME NEW t \in Threads, ThreadsOK, NEW l, Applied(t, l)
  PROVE  Alone(t) /\ SameCall(t) /\ SameSweep(t) /\ SamePool(t) /\ SameHold(t) /\ SameView(t) /\ th'[t].pc = "retire"
<1>1. \E q : VersionsSet(t, "retire", q)
  BY Zenon DEF Applied, VersionsSet
<1>2. QED
  BY <1>1, SetVersions

LEMMA ApplyFastDoes ==
  ASSUME NEW t \in Threads, ThreadsOK, ApplyFast(t)
  PROVE  /\ th[t].pc = "apply" /\ Alone(t) /\ SameCall(t) /\ SameSweep(t) /\ SamePool(t) /\ SameHold(t) /\ SameView(t)
         /\ \/ leaf[th[t].target].dead /\ th'[t].pc = "probe"
            \/ ~leaf[th[t].target].dead /\ Applied(t, th[t].target) /\ th'[t].pc = "retire"
<1>1. th[t].pc = "apply" /\ (leaf[th[t].target].dead => Goto(t, "probe"))
      /\ (~leaf[th[t].target].dead => Applied(t, th[t].target))
  BY Zenon DEF ApplyFast
<1>2. CASE leaf[th[t].target].dead
  BY <1>1, <1>2, GotoDoes DEF Moves
<1>3. CASE ~leaf[th[t].target].dead
  BY <1>1, <1>3, AppliedDoes
<1>4. QED
  BY <1>2, <1>3

LEMMA AllocLeafDoes ==
  ASSUME NEW t \in Threads, ThreadsOK, AllocLeaf(t)
  PROVE  /\ th[t].pc = "leaf" /\ Alone(t) /\ SameCall(t) /\ SameSweep(t) /\ SameView(t)
         /\ th'[t].vnode = th[t].vnode /\ th'[t].wants = th[t].wants
         /\ \/ /\ Fits("leaf") /\ th'[t].own = FreshLeaf /\ th'[t].pool = th[t].pool
               /\ th'[t].bytes = th[t].bytes + Size["leaf"] /\ th'[t].pc \in {"fast", "call"}
            \/ /\ ~Fits("leaf") /\ Full(t) /\ SameHold(t) /\ th'[t].pc = "full" /\ th'[t].pool = <<>>
               /\ th'[t].bytes = th[t].bytes
<1>1. CASE Fits("leaf")
  <2>1. PICK l, b, pc : /\ l = FreshLeaf /\ b = th[t].bytes + Size["leaf"]
                        /\ pc = IF th[t].call.cached THEN "fast" ELSE "call"
    BY Zenon
  <2>2. th[t].pc = "leaf" /\ OwnSet(t, l, b, pc)
    BY <1>1, <2>1, Zenon DEF AllocLeaf, OwnSet
  <2>3. pc \in {"fast", "call"}
    BY <2>1
  <2>4. /\ Alone(t) /\ SameCall(t) /\ SameSweep(t) /\ SameView(t) /\ th'[t].vnode = th[t].vnode
        /\ th'[t].pool = th[t].pool /\ th'[t].wants = th[t].wants
        /\ th'[t].own = l /\ th'[t].bytes = b /\ th'[t].pc = pc
    BY <2>2, SetOwn
  <2>5. QED
    BY <1>1, <2>1, <2>2, <2>3, <2>4
<1>2. CASE ~Fits("leaf")
  <2>1. th[t].pc = "leaf" /\ Full(t)
    BY <1>2, Zenon DEF AllocLeaf
  <2>2. QED
    BY <1>2, <2>1, FullDoes DEF SameHold
<1>3. QED
  BY <1>1, <1>2

LEMMA TryFastDoes ==
  ASSUME NEW t \in Threads, ThreadsOK, TryFast(t)
  PROVE  /\ th[t].pc = "fast" /\ Moves(t)
         /\ \/ /\ th'[t].pc = "done" /\ (\E g \in Gens : Place(t, g)) /\ leaf' = leaf /\ ver' = ver
            \/ th'[t].pc = "call" /\ UNCHANGED <<slot, owned, leaf, ver>>
<1>1. /\ th[t].pc = "fast"
      /\ \/ Goto(t, "done") /\ (\E g \in Gens : Place(t, g)) /\ leaf' = leaf /\ ver' = ver
         \/ Goto(t, "call") /\ UNCHANGED <<slot, owned, leaf, ver>>
  BY Zenon DEF TryFast, store
<1>2. CASE Goto(t, "done") /\ (\E g \in Gens : Place(t, g)) /\ leaf' = leaf /\ ver' = ver
  BY <1>1, <1>2, GotoDoes, Zenon
<1>3. CASE Goto(t, "call") /\ UNCHANGED <<slot, owned, leaf, ver>>
  BY <1>1, <1>3, GotoDoes
<1>4. QED
  BY <1>1, <1>2, <1>3

LEMMA CallInsertDoes ==
  ASSUME NEW t \in Threads, ThreadsOK, CallInsert(t)
  PROVE  /\ th[t].pc = "call" /\ Alone(t) /\ SameCall(t) /\ SameSweep(t) /\ SameHold(t) /\ SameView(t)
         /\ th'[t].bytes = th[t].bytes /\ th'[t].wants = th[t].wants /\ th'[t].pool = <<>>
         /\ th'[t].pc = "attempt"
<1>1. th[t].pc = "call" /\ PoolSet(t, "attempt", <<>>)
  BY Zenon DEF CallInsert, PoolSet
<1>2. QED
  BY <1>1, SetPool

LEMMA AttemptDoes ==
  ASSUME NEW t \in Threads, ThreadsOK, Attempt(t)
  PROVE  /\ th[t].pc = "attempt" /\ Alone(t) /\ SameCall(t) /\ SameSweep(t) /\ SameHold(t)
         /\ th'[t].chosen = th[t].chosen /\ th'[t].bytes = th[t].bytes
         /\ th'[t].target = Here(t).leaf
         /\ th'[t].wants = IF Here(t).leaf = 0 THEN Here(t).need ELSE <<>>
         /\ \/ /\ Here(t).leaf # 0 /\ th[t].call.op = "insert"
               /\ th'[t].pc = "existing" /\ th'[t].pool = <<>>
               /\ nodes' = [nodes EXCEPT !.freed = @ \cup ReleaseAll(th[t].pool)]
            \/ /\ ~(Here(t).leaf # 0 /\ th[t].call.op = "insert")
               /\ th'[t].pc = "prepare" /\ th'[t].pool = Reset(th[t].pool) /\ nodes' = nodes
<1> DEFINE found == Here(t).leaf # 0 /\ th[t].call.op = "insert"
<1>1. PICK s, w, l, pool, pc :
        /\ s = [gen |-> gen, ver |-> Here(t).ver, leaf |-> Here(t).leaf] /\ l = Here(t).leaf
        /\ w = IF Here(t).leaf = 0 THEN Here(t).need ELSE <<>>
        /\ pool = IF found THEN <<>> ELSE Reset(th[t].pool)
        /\ pc = IF found THEN "existing" ELSE "prepare"
  BY Zenon
<1>2. /\ th[t].pc = "attempt"
      /\ AttemptSet(t, s, w, l, pool, pc)
      /\ nodes' = IF found THEN [nodes EXCEPT !.freed = @ \cup ReleaseAll(th[t].pool)] ELSE nodes
  BY <1>1, Zenon DEF Attempt, AttemptSet
<1>3. /\ Alone(t) /\ SameCall(t) /\ SameSweep(t) /\ SameHold(t) /\ th'[t].bytes = th[t].bytes
      /\ th'[t].chosen = th[t].chosen /\ th'[t].wants = w /\ th'[t].target = l
      /\ th'[t].pool = pool /\ th'[t].pc = pc
  BY <1>2, SetAttempt
<1>4. CASE found
  BY <1>1, <1>2, <1>3, <1>4
<1>5. CASE ~found
  BY <1>1, <1>2, <1>3, <1>5
<1>6. QED
  BY <1>4, <1>5

\* The prepared nodes an attempt may take for a node of this type.
Spare(pool, type) == {i \in DOMAIN pool : ~pool[i].used /\ pool[i].type = type}
PickSpare(pool, type) == [pool EXCEPT ![Min(Spare(pool, type))].used = TRUE]
AddNode(pool, n, type) == Append(pool, Entry(n, type, TRUE))

LEMMA PrepareDoes ==
  ASSUME NEW t \in Threads, ThreadsOK, Prepare(t)
  PROVE  /\ th[t].pc = "prepare" /\ th[t].wants # <<>> /\ Alone(t) /\ SameCall(t) /\ SameSweep(t)
         /\ SameHold(t) /\ SameView(t)
         /\ \/ /\ Spare(th[t].pool, Head(th[t].wants)) # {} /\ th'[t].pc = "prepare"
               /\ th'[t].wants = Tail(th[t].wants) /\ th'[t].bytes = th[t].bytes + 0
               /\ th'[t].pool = PickSpare(th[t].pool, Head(th[t].wants))
               /\ nodes' = nodes /\ owned' = owned
            \/ /\ Spare(th[t].pool, Head(th[t].wants)) = {} /\ th'[t].pc = "prepare"
               /\ th'[t].wants = Tail(th[t].wants)
               /\ th'[t].bytes = th[t].bytes + Size[Head(th[t].wants)]
               /\ th'[t].pool = AddNode(th[t].pool, FreshNode, Head(th[t].wants))
               /\ FreeNodes # {} /\ nodes' = [nodes EXCEPT !.made = @ \cup {FreshNode}] /\ owned' = owned
            \/ /\ Full(t) /\ th'[t].pc = "full" /\ th'[t].pool = <<>> /\ th'[t].bytes = th[t].bytes
               /\ th'[t].wants = th[t].wants
<1> DEFINE type == Head(th[t].wants)
           pool == th[t].pool
           w == Tail(th[t].wants)
           First == /\ Spare(pool, type) # {}
                    /\ PreparedSet(t, w, PickSpare(pool, type), th[t].bytes + 0)
                    /\ nodes' = nodes /\ owned' = owned
           Second == /\ Spare(pool, type) = {}
                     /\ PreparedSet(t, w, AddNode(pool, FreshNode, type), th[t].bytes + Size[type])
                     /\ FreeNodes # {} /\ nodes' = [nodes EXCEPT !.made = @ \cup {FreshNode}] /\ owned' = owned
<1>0. ThreadShape(th[t]) /\ th = [u \in Threads |-> th[u]]
  BY DEF ThreadsOK, ThreadOK
<1>1. ASSUME NEW p, NEW b, th' = [th EXCEPT ![t] = [th[t] EXCEPT !.wants = Tail(@), !.pool = p, !.bytes = @ + b]]
      PROVE  PreparedSet(t, w, p, th[t].bytes + b)
  <2>1. [th[t] EXCEPT !.wants = Tail(@), !.pool = p, !.bytes = @ + b]
        = [th[t] EXCEPT !.wants = w, !.pool = p, !.bytes = th[t].bytes + b]
    BY <1>0 DEF ThreadShape
  <2>2. PICK x : x = [th[t] EXCEPT !.wants = w, !.pool = p, !.bytes = th[t].bytes + b]
    OBVIOUS
  <2>3. th' = [th EXCEPT ![t] = x]
    BY <1>1, <2>1, <2>2, Zenon
  <2>4. [th EXCEPT ![t] = x] = [th EXCEPT ![t] = [@ EXCEPT !.wants = w, !.pool = p, !.bytes = th[t].bytes + b]]
    BY <1>0, <2>2
  <2>5. QED
    BY <2>3, <2>4, Zenon DEF PreparedSet
<1>2. th[t].pc = "prepare" /\ th[t].wants # <<>>
  BY Zenon DEF Prepare
<1>3. \/ /\ Spare(pool, type) # {}
         /\ th' = [th EXCEPT ![t] = [th[t] EXCEPT !.wants = Tail(@), !.pool = PickSpare(pool, type), !.bytes = @ + 0]]
         /\ nodes' = nodes /\ owned' = owned
      \/ /\ Spare(pool, type) = {}
         /\ th' = [th EXCEPT ![t] = [th[t] EXCEPT !.wants = Tail(@), !.pool = AddNode(pool, FreshNode, type),
                                                 !.bytes = @ + Size[type]]]
         /\ FreeNodes # {} /\ nodes' = [nodes EXCEPT !.made = @ \cup {FreshNode}] /\ owned' = owned
      \/ Full(t)
  BY Zenon DEF Prepare, Spare, PickSpare, AddNode
<1>4. First \/ Second \/ Full(t)
  BY <1>1, <1>3, Zenon
<1>5. CASE First
  BY <1>2, <1>5, SetPrepared
<1>6. CASE Second
  BY <1>2, <1>6, SetPrepared
<1>7. CASE Full(t)
  BY <1>2, <1>7, FullDoes
<1>8. QED
  BY <1>4, <1>5, <1>6, <1>7

LEMMA CommitInsertDoes ==
  ASSUME NEW t \in Threads, ThreadsOK, CommitInsert(t)
  PROVE  /\ th[t].pc = "prepare" /\ th[t].wants = <<>> /\ Alone(t) /\ SameCall(t) /\ SameSweep(t)
         /\ SameHold(t) /\ SameView(t) /\ th'[t].bytes = th[t].bytes /\ th'[t].wants = th[t].wants
         /\ \/ /\ th'[t].pc = "attempt" /\ th'[t].pool = th[t].pool
               /\ UNCHANGED <<slot, leaf, owned, nodes>>
            \/ /\ th'[t].pc = "retire" /\ th'[t].pool = <<>> /\ Place(t, th[t].seen.gen)
               /\ (leaf' = leaf \/ \E l : leaf' = [leaf EXCEPT ![l].dead = TRUE])
               /\ nodes' = [nodes EXCEPT !.linked = @ \cup UsedBy(th[t].pool),
                                         !.freed = @ \cup Release(th[t].pool, Commit(th[t].pool))]
<1> DEFINE Retry == Goto(t, "attempt") /\ UNCHANGED <<slot, leaf, owned, nodes>>
           Done(q) == /\ CommittedSet(t, "retire", <<>>, q) /\ Place(t, th[t].seen.gen)
                      /\ (leaf' = leaf \/ \E l : leaf' = [leaf EXCEPT ![l].dead = TRUE])
                      /\ nodes' = [nodes EXCEPT !.linked = @ \cup UsedBy(th[t].pool),
                                                !.freed = @ \cup Release(th[t].pool, Commit(th[t].pool))]
<1>1. th[t].pc = "prepare" /\ th[t].wants = <<>> /\ (Retry \/ \E q : Done(q))
  BY Zenon DEF CommitInsert, CommittedSet
<1>2. CASE Retry
  BY <1>1, <1>2, GotoDoes DEF Moves, SamePool
<1>3. ASSUME NEW q, Done(q) PROVE Done(q) /\ Alone(t) /\ SameCall(t) /\ SameSweep(t)
         /\ SameHold(t) /\ SameView(t) /\ th'[t].bytes = th[t].bytes /\ th'[t].wants = th[t].wants
         /\ th'[t].pc = "retire" /\ th'[t].pool = <<>>
  BY <1>3, SetCommitted
<1>4. CASE \E q : Done(q)
  <2>1. PICK q : Done(q)
    BY <1>4, Zenon
  <2>2. QED
    BY <1>1, <1>3, <2>1, Zenon
<1>5. QED
  BY <1>1, <1>2, <1>4

LEMMA ApplyExistingDoes ==
  ASSUME NEW t \in Threads, ThreadsOK, ApplyExisting(t)
  PROVE  /\ th[t].pc = "existing" /\ Alone(t) /\ SameCall(t) /\ SameSweep(t) /\ SamePool(t) /\ SameHold(t) /\ SameView(t)
         /\ \/ th'[t].pc = "call" /\ UNCHANGED <<leaf, ver, owned>>
            \/ th'[t].pc = "retire" /\ Applied(t, th[t].target)
<1>1. /\ th[t].pc = "existing"
      /\ \/ Goto(t, "call") /\ UNCHANGED <<leaf, ver, owned>>
         \/ Applied(t, th[t].target)
  BY Zenon DEF ApplyExisting
<1>2. CASE Goto(t, "call") /\ UNCHANGED <<leaf, ver, owned>>
  BY <1>1, <1>2, GotoDoes DEF Moves
<1>3. CASE Applied(t, th[t].target)
  BY <1>1, <1>3, AppliedDoes
<1>4. QED
  BY <1>1, <1>2, <1>3

LEMMA LookDoes ==
  ASSUME NEW t \in Threads, ThreadsOK, Look(t), ControlOK(th[t])
  PROVE  /\ th[t].pc = "look" /\ Alone(t) /\ SameCall(t) /\ SameSweep(t) /\ SamePool(t) /\ SameHold(t)
         /\ th'[t].chosen = th[t].chosen /\ th'[t].target = Here(t).leaf
         /\ \/ Here(t).leaf = 0 /\ th'[t].pc = "done"
            \/ /\ Here(t).leaf # 0
               /\ \/ th[t].call.op = "take" /\ th'[t].pc = "take"
                  \/ th[t].call.op = "removehead" /\ th'[t].pc = "tomb"
                  \/ th[t].call.op = "removekey" /\ th'[t].pc = "seek"
                  \/ th[t].call.op = "removever" /\ th'[t].pc \in {"seek", "cut"}
                  \/ th[t].call.op = "prune" /\ th'[t].pc = "choose"
<1> DEFINE s == [gen |-> gen, ver |-> Here(t).ver, leaf |-> Here(t).leaf]
           l == Here(t).leaf
           next == CASE th[t].call.op = "take" -> "take"
                     [] th[t].call.op = "removehead" -> "tomb"
                     [] th[t].call.op = "removekey" -> "seek"
                     [] th[t].call.op = "removever" -> IF Only(l, th[t].call.ver) THEN "seek" ELSE "cut"
                     [] th[t].call.op = "prune" -> "choose"
           pc == IF l = 0 THEN "done" ELSE next
<1>3. th[t].pc = "look" /\ LookedSet(t, l, s, pc)
  BY Zenon DEF Look, LookedSet
<1>0. th[t].call.op \in {"take", "removehead", "removekey", "removever", "prune"}
  BY <1>3 DEF ControlOK
<1>1. /\ th[t].call.op = "take" => next = "take"
      /\ th[t].call.op = "removehead" => next = "tomb"
      /\ th[t].call.op = "removekey" => next = "seek"
      /\ th[t].call.op = "removever" => next \in {"seek", "cut"}
      /\ th[t].call.op = "prune" => next = "choose"
  <2> HIDE DEF l
  <2>1. QED
    OBVIOUS
<1>2. pc = IF l = 0 THEN "done" ELSE next
  OBVIOUS
<1> HIDE DEF next, s, pc
<1>4. /\ Alone(t) /\ SameCall(t) /\ SameSweep(t) /\ SamePool(t) /\ SameHold(t)
      /\ th'[t].chosen = th[t].chosen /\ th'[t].target = l /\ th'[t].pc = pc
  BY <1>3, SetLooked, SMTT(40)
<1>6. QED
  BY <1>0, <1>1, <1>2, <1>3, <1>4

LEMMA TakeLeafDoes ==
  ASSUME NEW t \in Threads, ThreadsOK, TakeLeaf(t)
  PROVE  /\ th[t].pc = "take" /\ Moves(t)
         /\ \/ th'[t].pc = "look" /\ UNCHANGED <<slot, leaf>>
            \/ /\ th'[t].pc = "retire" /\ leaf' = [leaf EXCEPT ![th[t].target].dead = TRUE]
               /\ slot' = [slot EXCEPT ![Key(t)][th[t].seen.gen].leaf = 0, ![Key(t)][th[t].seen.gen].ver = @ + 1]
<1> DEFINE Again == Goto(t, "look") /\ UNCHANGED <<slot, leaf>>
           Taken(q) == /\ LeavesSet(t, "retire", q) /\ leaf' = [leaf EXCEPT ![th[t].target].dead = TRUE]
                       /\ slot' = [slot EXCEPT ![Key(t)][th[t].seen.gen].leaf = 0, ![Key(t)][th[t].seen.gen].ver = @ + 1]
<1>1. th[t].pc = "take" /\ (Again \/ \E q : Taken(q))
  BY ZenonT(60) DEF TakeLeaf, LeavesSet
<1>2. CASE Again
  BY <1>1, <1>2, GotoDoes, ZenonT(60)
<1>3. ASSUME NEW q, Taken(q) PROVE Taken(q) /\ Moves(t) /\ th'[t].pc = "retire"
  BY <1>3, SetLeaves DEF Moves
<1>4. CASE \E q : Taken(q)
  BY <1>1, <1>3, <1>4, Zenon
<1>5. QED
  BY <1>1, <1>2, <1>4

LEMMA AllocTombDoes ==
  ASSUME NEW t \in Threads, ThreadsOK, AllocTomb(t)
  PROVE  /\ th[t].pc = "tomb" /\ Alone(t) /\ SameCall(t) /\ SameSweep(t) /\ SamePool(t) /\ SameView(t)
         /\ th'[t].own = th[t].own /\ FreeVers # {}
         /\ \/ /\ th'[t].pc = "relook" /\ th'[t].vnode = FreshVer
               /\ ver' = [ver EXCEPT ![FreshVer].there = TRUE]
            \/ th'[t].pc = "full" /\ th'[t].vnode = th[t].vnode /\ ver' = ver
<1>1. /\ th[t].pc = "tomb" /\ FreeVers # {}
      /\ \/ TombSet(t, FreshVer, "relook") /\ ver' = [ver EXCEPT ![FreshVer].there = TRUE]
         \/ Goto(t, "full") /\ ver' = ver
  BY Zenon DEF AllocTomb, TombSet
<1>2. CASE TombSet(t, FreshVer, "relook") /\ ver' = [ver EXCEPT ![FreshVer].there = TRUE]
  BY <1>1, <1>2, SetTomb
<1>3. CASE Goto(t, "full") /\ ver' = ver
  BY <1>1, <1>3, GotoDoes DEF Moves, SameHold
<1>4. QED
  BY <1>1, <1>2, <1>3

LEMMA RelookDoes ==
  ASSUME NEW t \in Threads, ThreadsOK, Relook(t)
  PROVE  /\ th[t].pc = "relook" /\ Alone(t) /\ SameCall(t) /\ SameSweep(t) /\ SamePool(t) /\ SameHold(t)
         /\ th'[t].chosen = th[t].chosen /\ th'[t].target = Here(t).leaf
         /\ \/ Here(t).leaf = 0 /\ th'[t].pc = "done"
            \/ Here(t).leaf # 0 /\ th'[t].pc = "cuthead"
<1>1. PICK l, pc : l = Here(t).leaf /\ pc = IF l = 0 THEN "done" ELSE "cuthead"
  BY Zenon
<1>2. th[t].pc = "relook" /\ TargetSet(t, l, pc)
  BY <1>1, Zenon DEF Relook, TargetSet
<1>3. /\ Alone(t) /\ SameCall(t) /\ SameSweep(t) /\ SamePool(t) /\ SameHold(t)
      /\ th'[t].chosen = th[t].chosen /\ th'[t].target = l /\ th'[t].pc = pc
  BY <1>2, SetTarget, SMTT(40)
<1>4. QED
  BY <1>1, <1>2, <1>3

LEMMA CutHeadDoes ==
  ASSUME NEW t \in Threads, ThreadsOK, CutHead(t)
  PROVE  /\ th[t].pc = "cuthead" /\ Moves(t)
         /\ \/ th'[t].pc \in {"relook", "done"} /\ UNCHANGED <<leaf, ver>>
            \/ /\ th'[t].pc = "retire"
               /\ ver' = [ver EXCEPT ![th[t].vnode].version = ver[leaf[th[t].target].head].version,
                                     ![th[t].vnode].next = ver[leaf[th[t].target].head].next,
                                     ![leaf[th[t].target].head].superseded = TRUE]
               /\ leaf' = [leaf EXCEPT ![th[t].target].head = th[t].vnode]
<1> DEFINE Again == Goto(t, "relook") /\ UNCHANGED <<leaf, ver>>
           Gone == Goto(t, "done") /\ UNCHANGED <<leaf, ver>>
           Cut(q) == /\ VersionsSet(t, "retire", q)
                     /\ ver' = [ver EXCEPT ![th[t].vnode].version = ver[leaf[th[t].target].head].version,
                                           ![th[t].vnode].next = ver[leaf[th[t].target].head].next,
                                           ![leaf[th[t].target].head].superseded = TRUE]
                     /\ leaf' = [leaf EXCEPT ![th[t].target].head = th[t].vnode]
<1>1. th[t].pc = "cuthead" /\ (Again \/ Gone \/ \E q : Cut(q))
  BY Zenon DEF CutHead, VersionsSet
<1>2. CASE Again
  <2>1. Moves(t) /\ th'[t].pc = "relook"
    BY <1>2, GotoDoes
  <2>2. QED
    BY <1>1, <1>2, <2>1, Zenon
<1>3. CASE Gone
  <2>1. Moves(t) /\ th'[t].pc = "done"
    BY <1>3, GotoDoes
  <2>2. QED
    BY <1>1, <1>3, <2>1, Zenon
<1>4. ASSUME NEW q, VersionsSet(t, "retire", q) PROVE Moves(t) /\ th'[t].pc = "retire"
  BY <1>4, SetVersions DEF Moves
<1>5. CASE \E q : Cut(q)
  BY <1>1, <1>4, <1>5, Zenon
<1>6. QED
  BY <1>1, <1>2, <1>3, <1>5

LEMMA SeekDoes ==
  ASSUME NEW t \in Threads, ThreadsOK, Seek(t)
  PROVE  th[t].pc = "seek" /\ Moves(t) /\ th'[t].pc = "kill"
<1>1. th[t].pc = "seek" /\ SeekSet(t, gen, "kill")
  BY Zenon DEF Seek, SeekSet
<1>2. QED
  BY <1>1, SetSeek DEF Moves

LEMMA TryAgainDoes ==
  ASSUME NEW t \in Threads, ThreadsOK, th' = [th EXCEPT ![t] = TryAgain(th[t])]
  PROVE  Moves(t) /\ th'[t].pc \in {"done", "choose"}
<1>1. ThreadShape(th[t]) /\ th = [u \in Threads |-> th[u]]
  BY DEF ThreadsOK, ThreadOK
<1>2. CASE th[t].tries + 1 = ATTEMPTS
  <2>1. Goto(t, "done")
    BY <1>1, <1>2 DEF Goto, TryAgain
  <2>2. QED
    BY <2>1, GotoDoes
<1>3. CASE th[t].tries + 1 # ATTEMPTS
  <2>1. TriesSet(t, "choose", th[t].tries + 1)
    BY <1>1, <1>3 DEF TriesSet, TryAgain, ThreadShape
  <2>2. QED
    BY <2>1, SetTries DEF Moves
<1>4. QED
  BY <1>2, <1>3

LEMMA ReplacedByGoto ==
  ASSUME NEW t \in Threads, ThreadsOK, NEW pc, th' = [th EXCEPT ![t] = [th[t] EXCEPT !.pc = pc]]
  PROVE  Moves(t) /\ th'[t].pc = pc
<1>1. ThreadShape(th[t]) /\ th = [u \in Threads |-> th[u]]
  BY DEF ThreadsOK, ThreadOK
<1>2. Goto(t, pc)
  BY <1>1 DEF Goto
<1>3. QED
  BY <1>2, GotoDoes

LEMMA RefusedDoes ==
  ASSUME NEW t \in Threads, ThreadsOK, NEW dead, th' = [th EXCEPT ![t] = Refused(th[t], dead)], th[t].call.op \in {"removekey", "removever", "prune"}
  PROVE  /\ Moves(t)
         /\ \/ th[t].call.op = "removekey" /\ th'[t].pc = "look"
            \/ th[t].call.op = "removever" /\ th'[t].pc \in {"look", "cut"}
            \/ th[t].call.op = "prune" /\ th'[t].pc \in {"done", "choose"}
<1>1. CASE th[t].call.op = "removekey"
  <2>1. Refused(th[t], dead) = [th[t] EXCEPT !.pc = "look"]
    BY <1>1 DEF Refused
  <2>2. QED
    BY <1>1, <2>1, ReplacedByGoto, Zenon
<1>2. CASE th[t].call.op = "removever"
  <2>1. PICK pc : pc = IF dead THEN "look" ELSE "cut"
    BY Zenon
  <2>2. Refused(th[t], dead) = [th[t] EXCEPT !.pc = pc]
    BY <1>2, <2>1 DEF Refused
  <2>3. th' = [th EXCEPT ![t] = [th[t] EXCEPT !.pc = pc]]
    BY <2>2, Zenon
  <2>4. Moves(t) /\ th'[t].pc = pc
    BY <2>3, ReplacedByGoto, Zenon
  <2>5. QED
    BY <1>2, <2>1, <2>4
<1>3. CASE th[t].call.op = "prune" /\ dead
  <2>1. Refused(th[t], dead) = [th[t] EXCEPT !.pc = "done"]
    BY <1>3 DEF Refused
  <2>2. th' = [th EXCEPT ![t] = [th[t] EXCEPT !.pc = "done"]]
    BY <2>1, Zenon
  <2>3. Moves(t) /\ th'[t].pc = "done"
    BY <2>2, ReplacedByGoto, Zenon
  <2>4. QED
    BY <1>3, <2>3
<1>4. CASE th[t].call.op = "prune" /\ ~dead
  <2>1. Refused(th[t], dead) = TryAgain(th[t])
    BY <1>4 DEF Refused
  <2>2. th' = [th EXCEPT ![t] = TryAgain(th[t])]
    BY <2>1, Zenon
  <2>3. QED
    BY <1>4, <2>2, TryAgainDoes, Zenon
<1>5. QED
  BY <1>1, <1>2, <1>3, <1>4

LEMMA KillDoes ==
  ASSUME NEW t \in Threads, ThreadsOK, Kill(t), ControlOK(th[t])
  PROVE  /\ th[t].pc = "kill" /\ Moves(t)
         /\ \/ /\ UNCHANGED <<slot, leaf>>
               /\ \/ th'[t].pc \in {"seek", "done"}
                  \/ th[t].call.op \in {"removekey", "removever"} /\ th'[t].pc = "look"
                  \/ th[t].call.op = "removever" /\ th'[t].pc = "cut"
                  \/ th[t].call.op = "prune" /\ th'[t].pc \in {"choose", "cutprune"}
            \/ /\ th'[t].pc = "unlink" /\ leaf' = [leaf EXCEPT ![th[t].target].dead = TRUE]
               /\ slot' = [slot EXCEPT ![Key(t)][th[t].seen.gen].held = TRUE]
<1> DEFINE r == th[t]
           l == th[t].target
           here == Cell(t).leaf = l
           Put(x) == th' = [th EXCEPT ![t] = x] /\ UNCHANGED <<slot, leaf>>
           Killed == /\ Goto(t, "unlink") /\ leaf' = [leaf EXCEPT ![l].dead = TRUE]
                     /\ slot' = [slot EXCEPT ![Key(t)][r.seen.gen].held = TRUE]
<1>1. /\ th[t].pc = "kill"
      /\ \/ Goto(t, "seek") /\ UNCHANGED <<slot, leaf>>
         \/ Put(IF ~here /\ ~leaf[l].dead THEN Missing(r) ELSE Refused(r, leaf[l].dead))
         \/ Killed
  BY Zenon DEF Kill
<1>2. th[t].call.op \in {"removekey", "removever", "prune"}
  BY <1>1 DEF ControlOK
<1>3. \/ Goto(t, "seek") /\ UNCHANGED <<slot, leaf>>
      \/ Put(Missing(r)) \/ Put(Refused(r, leaf[l].dead)) \/ Killed
  <2>1. CASE ~here /\ ~leaf[l].dead
    BY <1>1, <2>1, Zenon
  <2>2. CASE ~(~here /\ ~leaf[l].dead)
    BY <1>1, <2>2, Zenon
  <2>3. QED
    BY <2>1, <2>2
<1>4. CASE Goto(t, "seek") /\ UNCHANGED <<slot, leaf>>
  BY <1>1, <1>4, GotoDoes
<1>5. CASE Put(Missing(r))
  <2>1. PICK pc : pc = IF r.call.op = "prune" THEN "cutprune" ELSE "done"
    BY Zenon
  <2>2. th' = [th EXCEPT ![t] = [th[t] EXCEPT !.pc = pc]]
    BY <1>5, <2>1, Zenon DEF Missing
  <2>3. Moves(t) /\ th'[t].pc = pc
    BY <2>2, ReplacedByGoto, ZenonT(60)
  <2>4. QED
    BY <1>1, <1>5, <2>1, <2>3
<1>6. CASE Put(Refused(r, leaf[l].dead))
  <2>1. /\ Moves(t)
        /\ \/ th[t].call.op = "removekey" /\ th'[t].pc = "look"
           \/ th[t].call.op = "removever" /\ th'[t].pc \in {"look", "cut"}
           \/ th[t].call.op = "prune" /\ th'[t].pc \in {"done", "choose"}
    BY <1>2, <1>6, RefusedDoes, Zenon
  <2>2. QED
    BY <1>1, <1>6, <2>1
<1>7. CASE Killed
  BY <1>1, <1>7, GotoDoes
<1>8. QED
  BY <1>3, <1>4, <1>5, <1>6, <1>7

LEMMA UnlinkDoes ==
  ASSUME NEW t \in Threads, ThreadsOK, Unlink(t)
  PROVE  /\ th[t].pc = "unlink" /\ Moves(t) /\ th'[t].pc = "retire"
         /\ slot' = [slot EXCEPT ![Key(t)][th[t].seen.gen].leaf = 0, ![Key(t)][th[t].seen.gen].held = FALSE,
                       ![Key(t)][th[t].seen.gen].ver = @ + 1]
<1>1. /\ th[t].pc = "unlink" /\ LeavesSet(t, "retire", <<th[t].target>>)
      /\ slot' = [slot EXCEPT ![Key(t)][th[t].seen.gen].leaf = 0, ![Key(t)][th[t].seen.gen].held = FALSE,
                    ![Key(t)][th[t].seen.gen].ver = @ + 1]
  BY ZenonT(60) DEF Unlink, LeavesSet
<1>2. Moves(t) /\ th'[t].pc = "retire"
  BY <1>1, SetLeaves DEF Moves
<1>3. QED
  BY <1>1, <1>2, Zenon

\* The last version above the one to cut, the version after it, and the head after the cut.
CutAfter(t) == Above(th[t].target, th[t].call.ver)
CutAt(t) == IF CutAfter(t) = 0 THEN leaf[th[t].target].head ELSE ver[CutAfter(t)].next
CutHeadTo(t) == IF CutAfter(t) = 0 THEN ver[CutAt(t)].next ELSE leaf[th[t].target].head

LEMMA CutVersionDoes ==
  ASSUME NEW t \in Threads, ThreadsOK, CutVersion(t)
  PROVE  /\ th[t].pc = "cut" /\ Moves(t)
         /\ \/ th'[t].pc \in {"look", "done"} /\ UNCHANGED <<leaf, ver>>
            \/ /\ th'[t].pc = "retire" /\ CutAt(t) # 0
               /\ leaf' = [leaf EXCEPT ![th[t].target].head = CutHeadTo(t)]
               /\ ver' = [x \in VerIds |->
                            CASE x = CutAfter(t) -> [ver[x] EXCEPT !.next = ver[CutAt(t)].next]
                              [] x = CutAt(t) -> [ver[x] EXCEPT !.superseded = TRUE]
                              [] OTHER -> ver[x]]
<1> DEFINE Again == Goto(t, "look") /\ UNCHANGED <<leaf, ver>>
           Gone == Goto(t, "done") /\ UNCHANGED <<leaf, ver>>
           Cut(q) == /\ VersionsSet(t, "retire", q) /\ CutAt(t) # 0
                     /\ leaf' = [leaf EXCEPT ![th[t].target].head = CutHeadTo(t)]
                     /\ ver' = [x \in VerIds |->
                                  CASE x = CutAfter(t) -> [ver[x] EXCEPT !.next = ver[CutAt(t)].next]
                                    [] x = CutAt(t) -> [ver[x] EXCEPT !.superseded = TRUE]
                                    [] OTHER -> ver[x]]
<1>1. th[t].pc = "cut" /\ (Again \/ Gone \/ \E q : Cut(q))
  BY Zenon DEF CutVersion, VersionsSet, CutAfter, CutAt, CutHeadTo
<1>2. CASE Again
  BY <1>1, <1>2, GotoDoes
<1>3. CASE Gone
  BY <1>1, <1>3, GotoDoes
<1>4. ASSUME NEW q, VersionsSet(t, "retire", q) PROVE Moves(t) /\ th'[t].pc = "retire"
  BY <1>4, SetVersions DEF Moves
<1>5. CASE \E q : Cut(q)
  BY <1>1, <1>4, <1>5, Zenon
<1>6. QED
  BY <1>1, <1>2, <1>3, <1>5

LEMMA ChooseDoes ==
  ASSUME NEW t \in Threads, ThreadsOK, Choose(t)
  PROVE  /\ th[t].pc = "choose" /\ Alone(t) /\ SameCall(t) /\ SameSweep(t) /\ SamePool(t) /\ SameHold(t)
         /\ th'[t].target = th[t].target /\ th'[t].chosen = FindLe(th[t].target, th[t].call.ver)
         /\ th'[t].pc \in {"done", "seek", "cutprune"}
<1>1. PICK v, whole : /\ v = FindLe(th[t].target, th[t].call.ver)
                      /\ whole = (v = leaf[th[t].target].head /\ (ver[v].value = None \/ th[t].call.cached))
  BY Zenon
<1>2. PICK pc : pc = IF v = 0 THEN "done" ELSE IF whole THEN "seek" ELSE "cutprune"
  OBVIOUS
<1>3. pc \in {"done", "seek", "cutprune"}
  BY <1>2
<1>4. th[t].pc = "choose" /\ ChosenSet(t, v, pc)
  BY <1>1, <1>2, Zenon DEF Choose, ChosenSet
<1>5. QED
  BY <1>1, <1>3, <1>4, SetChosen

\* The versions that are cut off take no part in anything but superseded.
CutOff(t) == ToSet(Chain(ver[th[t].chosen].next))

LEMMA CutPruneDoes ==
  ASSUME NEW t \in Threads, ThreadsOK, CutPrune(t)
  PROVE  /\ th[t].pc = "cutprune" /\ Moves(t)
         /\ \/ th'[t].pc \in {"done", "choose"} /\ UNCHANGED ver
            \/ /\ th'[t].pc = "retire"
               /\ ver' = [v \in VerIds |->
                            CASE v = th[t].chosen -> [ver[v] EXCEPT !.next = 0]
                              [] v \in CutOff(t) -> [ver[v] EXCEPT !.superseded = TRUE]
                              [] OTHER -> ver[v]]
<1> DEFINE Gone == Goto(t, "done") /\ UNCHANGED ver
           Again == th' = [th EXCEPT ![t] = TryAgain(th[t])] /\ UNCHANGED ver
           Cut(q) == /\ VersionsSet(t, "retire", q)
                     /\ ver' = [v \in VerIds |->
                                  CASE v = th[t].chosen -> [ver[v] EXCEPT !.next = 0]
                                    [] v \in CutOff(t) -> [ver[v] EXCEPT !.superseded = TRUE]
                                    [] OTHER -> ver[v]]
<1>0. th = [u \in Threads |-> th[u]]
  BY DEF ThreadsOK
<1>1. th[t].pc = "cutprune" /\ (Gone \/ Again \/ \E q : Cut(q))
  BY Zenon DEF CutPrune, VersionsSet, CutOff
<1>2. CASE Gone
  <2>1. Moves(t) /\ th'[t].pc = "done"
    BY <1>2, GotoDoes
  <2>2. QED
    BY <1>1, <1>2, <2>1, Zenon
<1>3. CASE Again
  <2>1. Moves(t) /\ th'[t].pc \in {"done", "choose"}
    BY <1>3, TryAgainDoes, Zenon
  <2>2. QED
    BY <1>1, <1>3, <2>1, Zenon
<1>4. ASSUME NEW q, VersionsSet(t, "retire", q) PROVE Moves(t) /\ th'[t].pc = "retire"
  BY <1>4, SetVersions DEF Moves
<1>5. CASE \E q : Cut(q)
  BY <1>1, <1>4, <1>5, Zenon
<1>6. QED
  BY <1>1, <1>2, <1>3, <1>5

LEMMA SwapRootDoes ==
  ASSUME NEW t \in Threads, ThreadsOK, SwapRoot(t)
  PROVE  /\ th[t].pc = "swap" /\ gen < Max(Gens) /\ gen' = gen + 1
         /\ Alone(t) /\ SameCall(t) /\ SamePool(t) /\ SameHold(t) /\ SameView(t) /\ th'[t].pc = "sweep"
<1>1. th[t].pc = "swap" /\ gen < Max(Gens) /\ gen' = gen + 1 /\ SweptSet(t, "sweep", Keys, gen)
  BY Zenon DEF SwapRoot, SweptSet
<1>2. QED
  BY <1>1, SetSwept

LEMMA SweepDoes ==
  ASSUME NEW t \in Threads, ThreadsOK, Sweep(t)
  PROVE  /\ th[t].pc = "sweep"
         /\ Alone(t) /\ SameCall(t) /\ SamePool(t) /\ SameHold(t) /\ SameView(t) /\ th'[t].pc = "retire"
         /\ \E k : /\ slot' = [slot EXCEPT ![k][th[t].seen.gen].leaf = 0, ![k][th[t].seen.gen].obsolete = TRUE]
                   /\ leaf' = Swept(slot[k][th[t].seen.gen].leaf)
<1> DEFINE Changed(k) == /\ slot' = [slot EXCEPT ![k][th[t].seen.gen].leaf = 0, ![k][th[t].seen.gen].obsolete = TRUE]
                         /\ leaf' = Swept(slot[k][th[t].seen.gen].leaf)
<1>0. ThreadShape(th[t]) /\ th = [u \in Threads |-> th[u]]
  BY DEF ThreadsOK, ThreadOK
<1> DEFINE At(k) == slot[k][th[t].seen.gen].leaf
           One(k) == IF At(k) # 0 /\ (leaf[At(k)].value # None \/ Live(At(k))) THEN 1 ELSE 0
           List(k) == IF At(k) = 0 THEN <<>> ELSE <<At(k)>>
<1>2. /\ th[t].pc = "sweep"
      /\ \E k : /\ Changed(k)
                /\ SweepingSet(t, th[t].sweep \ {k}, th[t].total + One(k), List(k), "retire")
  BY Zenon DEF Sweep, SweepingSet
<1>3. PICK k : Changed(k) /\ SweepingSet(t, th[t].sweep \ {k}, th[t].total + One(k), List(k), "retire")
  BY <1>2, Zenon
<1>4. SweepingSet(t, th[t].sweep \ {k}, th[t].total + One(k), List(k), "retire")
  BY <1>3, Zenon
<1> HIDE DEF One, List
<1>5. Alone(t) /\ SameCall(t) /\ SamePool(t) /\ SameHold(t) /\ SameView(t) /\ th'[t].pc = "retire"
  BY <1>4, SetSweeping
<1>6. QED
  BY <1>2, <1>3, <1>5, Zenon

LEMMA UncountDoes ==
  ASSUME NEW t \in Threads, ThreadsOK, Uncount(t)
  PROVE  th[t].pc = "uncount" /\ Moves(t) /\ th'[t].pc = "done"
<1>1. th[t].pc = "uncount" /\ Goto(t, "done")
  BY Zenon DEF Uncount
<1>2. QED
  BY <1>1, GotoDoes

LEMMA RetireDoes ==
  ASSUME NEW t \in Threads, ThreadsOK, Retire(t)
  PROVE  /\ th[t].pc = "retire" /\ Moves(t)
         /\ \/ th'[t].pc \in {"push", "done", "uncount"} /\ (th'[t].pc = "uncount" => th[t].call.op = "clear")
            \/ th'[t].pc = "sweep" /\ th[t].sweep # {}
<1> DEFINE next == CASE th[t].sweep # {} -> "sweep"
                     [] th[t].sweep = {} /\ th[t].call.op = "clear" -> "uncount"
                     [] OTHER -> "done"
<1>1. th[t].pc = "retire" /\ ((\E h : HeadSet(t, "push", h)) \/ Goto(t, next))
  BY Zenon DEF Retire, HeadSet
<1>2. ASSUME NEW h, HeadSet(t, "push", h) PROVE Moves(t) /\ th'[t].pc = "push"
  BY <1>2, SetHead DEF Moves
<1>3. CASE \E h : HeadSet(t, "push", h)
  <2>1. Moves(t) /\ th'[t].pc = "push"
    BY <1>2, <1>3, Zenon
  <2>2. QED
    BY <1>1, <2>1
<1>4. CASE Goto(t, next)
  <2>1. \/ next \in {"done", "uncount"} /\ (next = "uncount" => th[t].call.op = "clear")
        \/ next = "sweep" /\ th[t].sweep # {}
    OBVIOUS
  <2> HIDE DEF next
  <2>2. Moves(t) /\ th'[t].pc = next
    BY <1>4, GotoDoes
  <2>3. QED
    BY <1>1, <2>1, <2>2
<1>5. QED
  BY <1>1, <1>3, <1>4

LEMMA PushDoes ==
  ASSUME NEW t \in Threads, ThreadsOK, Push(t)
  PROVE  th[t].pc = "push" /\ Moves(t) /\ th'[t].pc \in {"retire", "push"}
<1>0. ThreadShape(th[t]) /\ th = [u \in Threads |-> th[u]]
  BY DEF ThreadsOK, ThreadOK
<1>1. /\ th[t].pc = "push"
      /\ \/ th' = [th EXCEPT ![t].pc = "retire", ![t].head = 0, ![t][Pushing(t)] = Tail(@)]
         \/ \E h : HeadOnlySet(t, h)
  BY Zenon DEF Push, HeadOnlySet
<1>2. CASE th' = [th EXCEPT ![t].pc = "retire", ![t].head = 0, ![t][Pushing(t)] = Tail(@)]
  <2>1. CASE Pushing(t) = "leaves"
    <3>1. th' = [th EXCEPT ![t].pc = "retire", ![t].head = 0, ![t].leaves = Tail(@)]
      BY <1>2, <2>1, Zenon
    <3>2. PushedLeafSet(t, "retire", 0, Tail(th[t].leaves))
      BY <1>0, <3>1 DEF PushedLeafSet, ThreadShape
    <3>3. QED
      BY <1>1, <3>2, SetPushedLeaf DEF Moves
  <2>2. CASE Pushing(t) = "versions"
    <3>1. th' = [th EXCEPT ![t].pc = "retire", ![t].head = 0, ![t].versions = Tail(@)]
      BY <1>2, <2>2, Zenon
    <3>2. PushedVersionSet(t, "retire", 0, Tail(th[t].versions))
      BY <1>0, <3>1 DEF PushedVersionSet, ThreadShape
    <3>3. QED
      BY <1>1, <3>2, SetPushedVersion DEF Moves
  <2>3. QED
    BY <2>1, <2>2, Zenon DEF Pushing
<1>3. CASE \E h : HeadOnlySet(t, h)
  BY <1>1, <1>3, SetHeadOnly DEF Moves
<1>4. QED
  BY <1>1, <1>2, <1>3

-----------------------------------------------------------------------------
(* What the steps do to the places of the keys *)

\* The places keep their shape, and a leaf that comes to a place is l.
SlotsTo(l) ==
  /\ SlotsOK'
  /\ \A j \in Keys, h \in Gens : slot'[j][h].leaf = slot[j][h].leaf \/ slot'[j][h].leaf = l

LEMMA CellReplaced ==
  ASSUME SlotsOK, NEW k, NEW g, NEW s, slot' = [slot EXCEPT ![k][g] = s],
         k \in Keys /\ g \in Gens => CellShape(s) /\ s.need \in Needs,
         NEW l, s.leaf = l \/ s.leaf = slot[k][g].leaf
  PROVE  SlotsTo(l)
<1>1. slot = [j \in Keys |-> slot[j]] /\ \A j \in Keys : slot[j] = [h \in Gens |-> slot[j][h]]
  BY DEF SlotsOK
<1>2. slot' = [j \in Keys |-> slot'[j]]
  BY <1>1
<1>3. ASSUME NEW j \in Keys PROVE slot'[j] = [h \in Gens |-> slot'[j][h]]
  <2>1. CASE j = k
    BY <1>1, <2>1
  <2>2. CASE j # k
    BY <1>1, <2>2
  <2>3. QED
    BY <2>1, <2>2
<1>4. ASSUME NEW j \in Keys, NEW h \in Gens
      PROVE  slot'[j][h] = IF j = k /\ h = g THEN s ELSE slot[j][h]
  BY <1>1
<1>5. ASSUME NEW j \in Keys, NEW h \in Gens
      PROVE  CellShape(slot[j][h]) /\ slot[j][h].need \in Needs
  BY DEF SlotsOK
<1>6. ASSUME NEW j \in Keys, NEW h \in Gens
      PROVE  /\ CellShape(slot'[j][h]) /\ slot'[j][h].need \in Needs
             /\ slot'[j][h].leaf = slot[j][h].leaf \/ slot'[j][h].leaf = l
  <2>1. CASE j = k /\ h = g
    BY <1>4, <2>1
  <2>2. CASE ~(j = k /\ h = g)
    BY <1>4, <1>5, <2>2
  <2>3. QED
    BY <2>1, <2>2
<1>7. SlotsOK'
  BY <1>2, <1>3, <1>6 DEF SlotsOK
<1>8. QED
  BY <1>6, <1>7 DEF SlotsTo

LEMMA EmptyNeed == <<>> \in Needs
<1>1. <<>> \in Seq(NodeTypes)
  OBVIOUS
<1>2. ASSUME NEW type \in NodeTypes PROVE Cardinality(OfType(<<>>, type)) <= Most(type)
  <2>1. OfType(<<>>, type) = {}
    BY DEF OfType
  <2>2. Cardinality({}) = 0
    BY FS_EmptySet
  <2>3. Most(type) \in Nat
    BY ArenaInsertAssumption DEF Most
  <2>4. QED
    BY <2>1, <2>2, <2>3, SMTT(40)
<1>3. QED
  BY <1>1, <1>2 DEF Needs

TakenSet(k, g) == slot' = [slot EXCEPT ![k][g].leaf = 0, ![k][g].ver = @ + 1]
LEMMA SlotTaken ==
  ASSUME SlotsOK, NEW k, NEW g, TakenSet(k, g)
  PROVE  SlotsTo(0)
<1>1. slot = [j \in Keys |-> slot[j]] /\ \A j \in Keys : slot[j] = [h \in Gens |-> slot[j][h]]
  BY DEF SlotsOK
<1>2. PICK s : s = [slot[k][g] EXCEPT !.leaf = 0, !.ver = @ + 1]
  OBVIOUS
<1>3. CASE k \in Keys /\ g \in Gens
  <2>1. CellShape(slot[k][g]) /\ slot[k][g].need \in Needs
    BY <1>3 DEF SlotsOK
  <2>2. CellShape(s) /\ s.need = slot[k][g].need /\ s.leaf = 0
    BY <1>2, <2>1 DEF CellShape
  <2>3. slot' = [slot EXCEPT ![k][g] = s]
    BY <1>1, <1>2, <1>3, <2>1 DEF TakenSet, CellShape
  <2>4. QED
    BY <1>3, <2>1, <2>2, <2>3, EmptyNeed, CellReplaced
<1>4. CASE ~(k \in Keys /\ g \in Gens)
  <2>1. slot' = slot
    BY <1>1, <1>4 DEF TakenSet
  <2>2. QED
    BY <2>1 DEF SlotsTo, SlotsOK
<1>5. QED
  BY <1>3, <1>4

UnlinkedSet(k, g) == slot' = [slot EXCEPT ![k][g].leaf = 0, ![k][g].held = FALSE, ![k][g].ver = @ + 1]
LEMMA SlotUnlinked ==
  ASSUME SlotsOK, NEW k, NEW g, UnlinkedSet(k, g)
  PROVE  SlotsTo(0)
<1>1. slot = [j \in Keys |-> slot[j]] /\ \A j \in Keys : slot[j] = [h \in Gens |-> slot[j][h]]
  BY DEF SlotsOK
<1>2. PICK s : s = [slot[k][g] EXCEPT !.leaf = 0, !.held = FALSE, !.ver = @ + 1]
  OBVIOUS
<1>3. CASE k \in Keys /\ g \in Gens
  <2>1. CellShape(slot[k][g]) /\ slot[k][g].need \in Needs
    BY <1>3 DEF SlotsOK
  <2>2. CellShape(s) /\ s.need = slot[k][g].need /\ s.leaf = 0
    BY <1>2, <2>1 DEF CellShape
  <2>3. slot' = [slot EXCEPT ![k][g] = s]
    BY <1>1, <1>2, <1>3, <2>1 DEF UnlinkedSet, CellShape
  <2>4. QED
    BY <1>3, <2>1, <2>2, <2>3, EmptyNeed, CellReplaced
<1>4. CASE ~(k \in Keys /\ g \in Gens)
  <2>1. slot' = slot
    BY <1>1, <1>4, ZenonT(60) DEF UnlinkedSet
  <2>2. QED
    BY <2>1 DEF SlotsTo, SlotsOK
<1>5. QED
  BY <1>3, <1>4

HeldSet(k, g) == slot' = [slot EXCEPT ![k][g].held = TRUE]
LEMMA SlotHeld ==
  ASSUME SlotsOK, NEW k, NEW g, HeldSet(k, g)
  PROVE  SlotsTo(0)
<1>1. slot = [j \in Keys |-> slot[j]] /\ \A j \in Keys : slot[j] = [h \in Gens |-> slot[j][h]]
  BY DEF SlotsOK
<1>2. PICK s : s = [slot[k][g] EXCEPT !.held = TRUE]
  OBVIOUS
<1>3. CASE k \in Keys /\ g \in Gens
  <2>1. CellShape(slot[k][g]) /\ slot[k][g].need \in Needs
    BY <1>3 DEF SlotsOK
  <2>2. CellShape(s) /\ s.need = slot[k][g].need /\ s.leaf = slot[k][g].leaf
    BY <1>2, <2>1 DEF CellShape
  <2>3. slot' = [slot EXCEPT ![k][g] = s]
    BY <1>1, <1>2, <1>3, <2>1 DEF HeldSet, CellShape
  <2>4. QED
    BY <1>3, <2>1, <2>2, <2>3, EmptyNeed, CellReplaced
<1>4. CASE ~(k \in Keys /\ g \in Gens)
  <2>1. slot' = slot
    BY <1>1, <1>4 DEF HeldSet
  <2>2. QED
    BY <2>1 DEF SlotsTo, SlotsOK
<1>5. QED
  BY <1>3, <1>4

SlotSweptSet(k, g) == slot' = [slot EXCEPT ![k][g].leaf = 0, ![k][g].obsolete = TRUE]
LEMMA SlotSwept ==
  ASSUME SlotsOK, NEW k, NEW g, SlotSweptSet(k, g)
  PROVE  SlotsTo(0)
<1>1. slot = [j \in Keys |-> slot[j]] /\ \A j \in Keys : slot[j] = [h \in Gens |-> slot[j][h]]
  BY DEF SlotsOK
<1>2. PICK s : s = [slot[k][g] EXCEPT !.leaf = 0, !.obsolete = TRUE]
  OBVIOUS
<1>3. CASE k \in Keys /\ g \in Gens
  <2>1. CellShape(slot[k][g]) /\ slot[k][g].need \in Needs
    BY <1>3 DEF SlotsOK
  <2>2. CellShape(s) /\ s.need = slot[k][g].need /\ s.leaf = 0
    BY <1>2, <2>1 DEF CellShape
  <2>3. slot' = [slot EXCEPT ![k][g] = s]
    BY <1>1, <1>2, <1>3, <2>1 DEF SlotSweptSet, CellShape
  <2>4. QED
    BY <1>3, <2>1, <2>2, <2>3, EmptyNeed, CellReplaced
<1>4. CASE ~(k \in Keys /\ g \in Gens)
  <2>1. slot' = slot
    BY <1>1, <1>4 DEF SlotSweptSet
  <2>2. QED
    BY <2>1 DEF SlotsTo, SlotsOK
<1>5. QED
  BY <1>3, <1>4

PlacedSet(k, g, l) == slot' = [slot EXCEPT ![k][g].leaf = l, ![k][g].ver = @ + 1, ![k][g].need = <<>>]
LEMMA SlotPlaced ==
  ASSUME SlotsOK, NEW k, NEW g, NEW l, PlacedSet(k, g, l)
  PROVE  SlotsTo(l)
<1>1. slot = [j \in Keys |-> slot[j]] /\ \A j \in Keys : slot[j] = [h \in Gens |-> slot[j][h]]
  BY DEF SlotsOK
<1>2. PICK s : s = [slot[k][g] EXCEPT !.leaf = l, !.ver = @ + 1, !.need = <<>>]
  OBVIOUS
<1>3. CASE k \in Keys /\ g \in Gens
  <2>1. CellShape(slot[k][g]) /\ slot[k][g].need \in Needs
    BY <1>3 DEF SlotsOK
  <2>2. CellShape(s) /\ s.need = <<>> /\ s.leaf = l
    BY <1>2, <2>1 DEF CellShape
  <2>3. slot' = [slot EXCEPT ![k][g] = s]
    BY <1>1, <1>2, <1>3, <2>1 DEF PlacedSet, CellShape
  <2>4. QED
    BY <1>3, <2>1, <2>2, <2>3, EmptyNeed, CellReplaced
<1>4. CASE ~(k \in Keys /\ g \in Gens)
  <2>1. slot' = slot
    BY <1>1, <1>4, ZenonT(60) DEF PlacedSet
  <2>2. QED
    BY <2>1 DEF SlotsTo, SlotsOK
<1>5. QED
  BY <1>3, <1>4

ReshapedSet(k, g, n) == slot' = [slot EXCEPT ![k][g].need = n, ![k][g].ver = @ + 1]
LEMMA SlotReshaped ==
  ASSUME SlotsOK, NEW k, NEW g, NEW n, ReshapedSet(k, g, n), n \in Needs
  PROVE  SlotsTo(0)
<1>1. slot = [j \in Keys |-> slot[j]] /\ \A j \in Keys : slot[j] = [h \in Gens |-> slot[j][h]]
  BY DEF SlotsOK
<1>2. PICK s : s = [slot[k][g] EXCEPT !.need = n, !.ver = @ + 1]
  OBVIOUS
<1>3. CASE k \in Keys /\ g \in Gens
  <2>1. CellShape(slot[k][g]) /\ slot[k][g].need \in Needs
    BY <1>3 DEF SlotsOK
  <2>2. CellShape(s) /\ s.need = n /\ s.leaf = slot[k][g].leaf
    BY <1>2, <2>1 DEF CellShape
  <2>3. slot' = [slot EXCEPT ![k][g] = s]
    BY <1>1, <1>2, <1>3, <2>1 DEF ReshapedSet, CellShape
  <2>4. QED
    BY <1>3, <2>1, <2>2, <2>3, EmptyNeed, CellReplaced
<1>4. CASE ~(k \in Keys /\ g \in Gens)
  <2>1. slot' = slot
    BY <1>1, <1>4 DEF ReshapedSet
  <2>2. QED
    BY <2>1 DEF SlotsTo, SlotsOK
<1>5. QED
  BY <1>3, <1>4

-----------------------------------------------------------------------------
(* The pool of prepared nodes *)

LEMMA MinIn ==
  ASSUME NEW S \in SUBSET Nat, S # {}
  PROVE  Min(S) \in S /\ \A x \in S : Min(S) <= x
<1>1. \E m \in S : \A x \in S : m <= x
  BY LeastNatural
<1>2. QED
  BY <1>1, Zenon DEF Min

LEMMA EmptyPool == <<>> \in Seq(Entries)
OBVIOUS

LEMMA PoolEntry ==
  ASSUME NEW pool \in Seq(Entries), NEW i \in DOMAIN pool
  PROVE  /\ pool[i] \in Entries /\ i \in Nat
         /\ pool[i] = [node |-> pool[i].node, type |-> pool[i].type, used |-> pool[i].used]
<1>1. pool[i] \in Entries /\ i \in Nat
  OBVIOUS
<1>2. QED
  BY <1>1 DEF Entries

\* reset: the same nodes, none in use.
LEMMA ResetPool ==
  ASSUME NEW pool \in Seq(Entries)
  PROVE  /\ Reset(pool) \in Seq(Entries) /\ DOMAIN Reset(pool) = DOMAIN pool
         /\ \A i \in DOMAIN pool : /\ Reset(pool)[i].node = pool[i].node
                                   /\ Reset(pool)[i].type = pool[i].type /\ Reset(pool)[i].used = FALSE
<1>1. Reset(pool) = [i \in DOMAIN pool |-> [pool[i] EXCEPT !.used = FALSE]]
  BY Zenon DEF Reset
<1>2. ASSUME NEW i \in DOMAIN pool
      PROVE  /\ Reset(pool)[i] \in Entries /\ Reset(pool)[i].node = pool[i].node
             /\ Reset(pool)[i].type = pool[i].type /\ Reset(pool)[i].used = FALSE
  <2>1. pool[i] \in Entries
    BY PoolEntry
  <2>2. Reset(pool)[i] = [pool[i] EXCEPT !.used = FALSE]
    BY <1>1
  <2>3. QED
    BY <2>1, <2>2 DEF Entries
<1>3. DOMAIN Reset(pool) = DOMAIN pool /\ DOMAIN pool = 1 .. Len(pool) /\ Len(pool) \in Nat
  BY <1>1
<1>4. Reset(pool) \in [1 .. Len(pool) -> Entries]
  BY <1>1, <1>2, <1>3
<1>5. Reset(pool) \in Seq(Entries)
  BY <1>3, <1>4, SeqDef
<1>6. QED
  BY <1>2, <1>3, <1>5

\* A node of the pool is used again.
LEMMA SparePicked ==
  ASSUME NEW pool \in Seq(Entries), NEW type \in NodeTypes, Spare(pool, type) # {}
  PROVE  \E m \in DOMAIN pool :
           /\ ~pool[m].used /\ pool[m].type = type
           /\ PickSpare(pool, type) \in Seq(Entries) /\ DOMAIN PickSpare(pool, type) = DOMAIN pool
           /\ \A i \in DOMAIN pool : PickSpare(pool, type)[i].node = pool[i].node
                                     /\ PickSpare(pool, type)[i].type = pool[i].type
                                     /\ PickSpare(pool, type)[i].used = (i = m \/ pool[i].used)
<1>1. Spare(pool, type) \in SUBSET Nat
  BY PoolEntry DEF Spare
<1>2. PICK m : m = Min(Spare(pool, type))
  OBVIOUS
<1>3. m \in Spare(pool, type)
  BY <1>1, <1>2, MinIn
<1>4. m \in DOMAIN pool /\ ~pool[m].used /\ pool[m].type = type
  BY <1>3 DEF Spare
<1>5. PICK p : p = PickSpare(pool, type)
  OBVIOUS
<1>6. p = [pool EXCEPT ![m].used = TRUE]
  BY <1>2, <1>5, Zenon DEF PickSpare
<1>7. ASSUME NEW i \in DOMAIN pool
      PROVE  /\ p[i] \in Entries /\ p[i].node = pool[i].node /\ p[i].type = pool[i].type
             /\ p[i].used = (i = m \/ pool[i].used)
  <2>1. pool[i] \in Entries
    BY PoolEntry
  <2>2. CASE i = m
    <3>1. p[i] = [pool[i] EXCEPT !.used = TRUE]
      BY <1>6, <2>2
    <3>2. QED
      BY <2>1, <2>2, <3>1 DEF Entries
  <2>3. CASE i # m
    <3>1. p[i] = pool[i]
      BY <1>6, <2>3
    <3>2. pool[i].used = (i = m \/ pool[i].used)
      BY <2>1, <2>3 DEF Entries
    <3>3. QED
      BY <2>1, <3>1, <3>2, Zenon
  <2>4. QED
    BY <2>2, <2>3
<1>8. DOMAIN p = DOMAIN pool /\ DOMAIN pool = 1 .. Len(pool) /\ Len(pool) \in Nat
  BY <1>6
<1>9. p = [i \in DOMAIN pool |-> p[i]]
  BY <1>6
<1>10. p \in [1 .. Len(pool) -> Entries]
  BY <1>7, <1>8, <1>9
<1>11. p \in Seq(Entries)
  BY <1>8, <1>10, SeqDef
<1>12. QED
  BY <1>4, <1>5, <1>7, <1>8, <1>11

\* A new node, in use from the beginning.
LEMMA NodeAdded ==
  ASSUME NEW pool \in Seq(Entries), NEW type \in NodeTypes, NEW n \in NodeIds
  PROVE  /\ AddNode(pool, n, type) \in Seq(Entries) /\ Len(pool) \in Nat
         /\ DOMAIN pool = 1 .. Len(pool) /\ DOMAIN AddNode(pool, n, type) = 1 .. Len(pool) + 1
         /\ \A i \in DOMAIN pool : AddNode(pool, n, type)[i] = pool[i]
         /\ AddNode(pool, n, type)[Len(pool) + 1] = Entry(n, type, TRUE)
<1>1. PICK e : e = Entry(n, type, TRUE)
  OBVIOUS
<1>2. e \in Entries
  BY <1>1 DEF Entry, Entries
<1>3. AddNode(pool, n, type) = Append(pool, e)
  BY <1>1, Zenon DEF AddNode
<1>4. /\ Append(pool, e) \in Seq(Entries) /\ Len(pool) \in Nat
      /\ DOMAIN pool = 1 .. Len(pool) /\ DOMAIN Append(pool, e) = 1 .. Len(pool) + 1
      /\ Append(pool, e)[Len(pool) + 1] = e
  BY <1>2
<1>5. ASSUME NEW i \in DOMAIN pool PROVE Append(pool, e)[i] = pool[i]
  BY <1>2
<1>6. QED
  BY <1>1, <1>3, <1>4, <1>5, Zenon

LEMMA FreshNodeIn ==
  ASSUME FreeNodes # {}
  PROVE  FreshNode \in NodeIds /\ FreshNode \notin nodes.made
<1>1. FreeNodes \in SUBSET Nat
  BY ArenaInsertAssumption DEF FreeNodes
<1>2. FreshNode \in FreeNodes
  BY <1>1, MinIn DEF FreshNode
<1>3. QED
  BY <1>2 DEF FreeNodes

LEMMA FreshVerIn ==
  ASSUME FreeVers # {}
  PROVE  FreshVer \in VerIds /\ ~ver[FreshVer].there /\ FreshVer # 0
<1>1. FreeVers \in SUBSET Nat
  BY ArenaInsertAssumption DEF FreeVers
<1>2. FreshVer \in FreeVers
  BY <1>1, MinIn DEF FreshVer
<1>3. QED
  BY <1>2, ArenaInsertAssumption DEF FreeVers

LEMMA FreshLeafIn ==
  ASSUME FreeLeaves # {}
  PROVE  FreshLeaf \in LeafIds /\ leaf[FreshLeaf].key = None /\ FreshLeaf # 0
<1>1. FreeLeaves \in SUBSET Nat
  BY ArenaInsertAssumption DEF FreeLeaves
<1>2. FreshLeaf \in FreeLeaves
  BY <1>1, MinIn DEF FreshLeaf
<1>3. QED
  BY <1>2, ArenaInsertAssumption DEF FreeLeaves

-----------------------------------------------------------------------------
(* The threads keep their shape, and know what they are doing *)

Controls == \A t \in Threads : ControlOK(th[t])

LEMMA BusyKeeps ==
  ASSUME NEW t \in Threads, ThreadsOK, Controls, Alone(t), SameCall(t), th[t].pc # "idle",
         th'[t].pool \in Seq(Entries), th'[t].wants \in Seq(NodeTypes), ControlOK(th'[t])
  PROVE  ThreadsOK' /\ Controls'
<1>1. ThreadOK(th'[t])
  <2>1. ThreadOK(th[t])
    BY DEF ThreadsOK
  <2>2. QED
    BY <2>1 DEF ThreadOK, Alone, SameCall
<1>2. ASSUME NEW u \in Threads, u # t PROVE ThreadOK(th'[u]) /\ ControlOK(th'[u])
  BY <1>2 DEF ThreadsOK, Controls, Alone
<1>3. ASSUME NEW u \in Threads PROVE ThreadOK(th'[u]) /\ ControlOK(th'[u])
  BY <1>1, <1>2
<1>4. th' = [u \in Threads |-> th'[u]]
  BY DEF Alone
<1>5. QED
  BY <1>3, <1>4 DEF ThreadsOK, Controls

LEMMA FreshKeeps ==
  ASSUME NEW t \in Threads, ThreadsOK, Controls, NEW at \in 0 .. MaxCalls, NEW call, NEW pc,
         Fresh(t, at, call, pc), pc # "idle" => call \in AnyCall /\ at # 0, ControlOK(th'[t])
  PROVE  ThreadsOK' /\ Controls'
<1>1. ThreadOK(th'[t])
  <2>1. <<>> \in Seq(Entries) /\ <<>> \in Seq(NodeTypes)
    OBVIOUS
  <2>2. QED
    BY <2>1 DEF ThreadOK, Alone, Fresh
<1>2. ASSUME NEW u \in Threads, u # t PROVE ThreadOK(th'[u]) /\ ControlOK(th'[u])
  BY <1>2 DEF ThreadsOK, Controls, Alone, Fresh
<1>3. ASSUME NEW u \in Threads PROVE ThreadOK(th'[u]) /\ ControlOK(th'[u])
  BY <1>1, <1>2
<1>4. th' = [u \in Threads |-> th'[u]]
  BY DEF Alone, Fresh
<1>5. QED
  BY <1>3, <1>4 DEF ThreadsOK, Controls

LEMMA StepThreads ==
  ASSUME NEW t \in Threads, Shapes, Controls, Step(t)
  PROVE  ThreadsOK' /\ Controls'
<1>1. ThreadsOK /\ ThreadOK(th[t]) /\ ControlOK(th[t])
  BY DEF Shapes, ThreadsOK, Controls
<1>2. th[t].pool \in Seq(Entries) /\ th[t].wants \in Seq(NodeTypes) /\ th[t].at \in 0 .. MaxCalls
  BY <1>1 DEF ThreadOK
<1>3. <<>> \in Seq(Entries) /\ <<>> \in Seq(NodeTypes)
  OBVIOUS
<1> USE DEF ControlOK, HeldPcs, OwnPcs, TargetPcs, Moves, SameCall, SamePool, SameHold, SameView
<1>4. CASE Begin(t)
  <2>1. th[t].pc = "idle" /\ th[t].at + 1 \in 1 .. MaxCalls
    BY <1>4, BeginDoes
  <2>2. PICK c \in AnyCall : Fresh(t, th[t].at + 1, c, FirstPc(c))
    BY <1>4, BeginDoes
  <2>3. c.op \in Ops
    BY DEF AnyCall
  <2>4. PICK pc, at : pc = FirstPc(c) /\ at = th[t].at + 1
    OBVIOUS
  <2>5. \/ c.op = "insert" /\ pc = "probe"
        \/ c.op = "put" /\ pc = "leaf"
        \/ c.op = "clear" /\ pc = "swap"
        \/ c.op \in {"take", "removehead", "removekey", "removever", "prune"} /\ pc = "look"
    BY <2>3, <2>4 DEF FirstPc, Ops
  <2>6. at \in 0 .. MaxCalls /\ at # 0
    BY <2>1, <2>4, ArenaInsertAssumption
  <2>7. Fresh(t, at, c, pc)
    BY <2>2, <2>4, Zenon
  <2>8. /\ th'[t].call = c /\ th'[t].pc = pc /\ th'[t].own = 0 /\ pc # "idle"
    BY <2>5, <2>7 DEF Fresh
  <2>9. ControlOK(th'[t])
    BY <2>5, <2>8
  <2>10. QED
    BY <1>1, <2>6, <2>7, <2>8, <2>9, FreshKeeps
<1>5. CASE Return(t)
  <2>1. Fresh(t, th[t].at, None, "idle")
    BY <1>1, <1>5, ReturnDoes
  <2>2. th'[t].pc = "idle"
    BY <2>1 DEF Fresh
  <2>3. ControlOK(th'[t])
    BY <2>2
  <2>4. QED
    BY <1>1, <1>2, <2>1, <2>3, FreshKeeps
<1>6. CASE AllocVersion(t)
  <2>1. FreeVers # {}
    BY <1>6, Zenon DEF AllocVersion
  <2>2. FreshVer # 0
    BY <2>1, FreshVerIn
  <2>3. Alone(t) /\ SameCall(t) /\ th[t].pc = "version" /\ (th'[t].pool = th[t].pool \/ th'[t].pool = <<>>) /\ th'[t].wants = th[t].wants
    BY <1>1, <1>6, AllocVersionDoes
  <2>4. ControlOK(th'[t])
    BY <1>1, <1>6, <2>2, AllocVersionDoes
  <2>5. QED
    BY <1>1, <1>2, <1>3, <2>3, <2>4, BusyKeeps
<1>7. CASE AllocTomb(t)
  <2>1. Alone(t) /\ SameCall(t) /\ th[t].pc = "tomb" /\ th'[t].pool = th[t].pool /\ th'[t].wants = th[t].wants
    BY <1>1, <1>7, AllocTombDoes
  <2>2. ControlOK(th'[t])
    BY <1>1, <1>7, AllocTombDoes
  <2>3. QED
    BY <1>1, <1>2, <1>3, <2>1, <2>2, BusyKeeps
<1>8. CASE Attempt(t)
  <2>1. Alone(t) /\ SameCall(t) /\ th[t].pc = "attempt" /\ (th'[t].pool = <<>> \/ th'[t].pool = Reset(th[t].pool))
    BY <1>1, <1>8, AttemptDoes
  <2>2. Reset(th[t].pool) \in Seq(Entries)
    BY <1>2, ResetPool
  <2>3. th'[t].pool \in Seq(Entries)
    BY <1>3, <2>1, <2>2
  <2>4. Here(t).need \in Needs
    <3>1. gen \in Gens /\ SlotsOK /\ th[t].call \in AnyCall
      BY <1>1, <2>1 DEF Shapes, ThreadOK
    <3>2. Key(t) \in Keys
      BY <3>1 DEF Key, AnyCall
    <3>3. QED
      BY <3>1, <3>2 DEF SlotsOK, Here
  <2>5. th'[t].wants \in Seq(NodeTypes)
    <3>1. th'[t].wants = Here(t).need \/ th'[t].wants = <<>>
      BY <1>1, <1>8, AttemptDoes
    <3>2. QED
      BY <1>3, <2>4, <3>1 DEF Needs
  <2>6. ControlOK(th'[t])
    BY <1>1, <1>8, AttemptDoes
  <2>7. QED
    BY <1>1, <2>1, <2>3, <2>5, <2>6, BusyKeeps
<1>9. CASE Prepare(t)
  <2>1. /\ Alone(t) /\ SameCall(t) /\ th[t].pc = "prepare" /\ th[t].wants # <<>> /\ th'[t].pc \in {"prepare", "full"}
        /\ SameHold(t) /\ SameView(t)
        /\ (th'[t].wants = Tail(th[t].wants) \/ th'[t].wants = th[t].wants)
    BY <1>1, <1>9, PrepareDoes
  <2>2. PICK type \in NodeTypes : type = Head(th[t].wants)
    BY <1>2, <2>1
  <2>3. th'[t].wants \in Seq(NodeTypes)
    <3>1. Tail(th[t].wants) \in Seq(NodeTypes)
      BY <1>2, <2>1
    <3>2. QED
      BY <1>2, <2>1, <3>1
  <2>4. th'[t].pool \in Seq(Entries)
    <3>1. \/ Spare(th[t].pool, type) # {} /\ th'[t].pool = PickSpare(th[t].pool, type)
          \/ FreeNodes # {} /\ th'[t].pool = AddNode(th[t].pool, FreshNode, type)
          \/ th'[t].pool = <<>>
      BY <1>1, <1>9, <2>2, PrepareDoes
    <3>2. Spare(th[t].pool, type) # {} => PickSpare(th[t].pool, type) \in Seq(Entries)
      BY <1>2, SparePicked
    <3>3. FreeNodes # {} => AddNode(th[t].pool, FreshNode, type) \in Seq(Entries)
      BY <1>2, NodeAdded, FreshNodeIn
    <3>4. QED
      BY <1>3, <3>1, <3>2, <3>3, Zenon
  <2>5. ControlOK(th'[t])
    BY <1>1, <2>1
  <2>6. QED
    BY <1>1, <2>1, <2>3, <2>4, <2>5, BusyKeeps
<1>10. CASE Probe(t)
  <2>1. Alone(t) /\ SameCall(t) /\ th[t].pc # "idle"
    BY <1>1, <1>10, ProbeDoes
  <2>2. (th'[t].pool = th[t].pool \/ th'[t].pool = <<>>) /\ th'[t].wants = th[t].wants
    BY <1>1, <1>10, ProbeDoes
  <2>3. ControlOK(th'[t])
    BY <1>1, <1>10, ProbeDoes
  <2>4. QED
    BY <1>1, <1>2, <1>3, <2>1, <2>2, <2>3, BusyKeeps
<1>11. CASE Look(t)
  <2>1. Alone(t) /\ SameCall(t) /\ th[t].pc # "idle"
    BY <1>1, <1>11, LookDoes
  <2>2. (th'[t].pool = th[t].pool \/ th'[t].pool = <<>>) /\ th'[t].wants = th[t].wants
    BY <1>1, <1>11, LookDoes
  <2>3. ControlOK(th'[t])
    BY <1>1, <1>11, LookDoes, SMTT(40)
  <2>4. QED
    BY <1>1, <1>2, <1>3, <2>1, <2>2, <2>3, BusyKeeps
<1>12. CASE TakeLeaf(t)
  <2>1. Alone(t) /\ SameCall(t) /\ th[t].pc # "idle"
    BY <1>1, <1>12, TakeLeafDoes
  <2>2. (th'[t].pool = th[t].pool \/ th'[t].pool = <<>>) /\ th'[t].wants = th[t].wants
    BY <1>1, <1>12, TakeLeafDoes
  <2>3. ControlOK(th'[t])
    BY <1>1, <1>12, TakeLeafDoes
  <2>4. QED
    BY <1>1, <1>2, <1>3, <2>1, <2>2, <2>3, BusyKeeps
<1>13. CASE Relook(t)
  <2>1. Alone(t) /\ SameCall(t) /\ th[t].pc # "idle"
    BY <1>1, <1>13, RelookDoes
  <2>2. (th'[t].pool = th[t].pool \/ th'[t].pool = <<>>) /\ th'[t].wants = th[t].wants
    BY <1>1, <1>13, RelookDoes
  <2>3. ControlOK(th'[t])
    BY <1>1, <1>13, RelookDoes, SMTT(40)
  <2>4. QED
    BY <1>1, <1>2, <1>3, <2>1, <2>2, <2>3, BusyKeeps
<1>14. CASE CutHead(t)
  <2>1. Alone(t) /\ SameCall(t) /\ th[t].pc # "idle"
    BY <1>1, <1>14, CutHeadDoes, ZenonT(60)
  <2>2. (th'[t].pool = th[t].pool \/ th'[t].pool = <<>>) /\ th'[t].wants = th[t].wants
    BY <1>1, <1>14, CutHeadDoes, ZenonT(60)
  <2>3. ControlOK(th'[t])
    BY <1>1, <1>14, CutHeadDoes
  <2>4. QED
    BY <1>1, <1>2, <1>3, <2>1, <2>2, <2>3, BusyKeeps
<1>15. CASE Seek(t)
  <2>1. Alone(t) /\ SameCall(t) /\ th[t].pc # "idle"
    BY <1>1, <1>15, SeekDoes
  <2>2. (th'[t].pool = th[t].pool \/ th'[t].pool = <<>>) /\ th'[t].wants = th[t].wants
    BY <1>1, <1>15, SeekDoes
  <2>3. ControlOK(th'[t])
    BY <1>1, <1>15, SeekDoes
  <2>4. QED
    BY <1>1, <1>2, <1>3, <2>1, <2>2, <2>3, BusyKeeps
<1>16. CASE Kill(t)
  <2>1. Alone(t) /\ SameCall(t) /\ th[t].pc # "idle"
    BY <1>1, <1>16, KillDoes
  <2>2. (th'[t].pool = th[t].pool \/ th'[t].pool = <<>>) /\ th'[t].wants = th[t].wants
    BY <1>1, <1>16, KillDoes
  <2>3. ControlOK(th'[t])
    BY <1>1, <1>16, KillDoes
  <2>4. QED
    BY <1>1, <1>2, <1>3, <2>1, <2>2, <2>3, BusyKeeps
<1>17. CASE Unlink(t)
  <2>1. Alone(t) /\ SameCall(t) /\ th[t].pc # "idle"
    BY <1>1, <1>17, UnlinkDoes, ZenonT(60)
  <2>2. (th'[t].pool = th[t].pool \/ th'[t].pool = <<>>) /\ th'[t].wants = th[t].wants
    BY <1>1, <1>17, UnlinkDoes, ZenonT(60)
  <2>3. ControlOK(th'[t])
    BY <1>1, <1>17, UnlinkDoes
  <2>4. QED
    BY <1>1, <1>2, <1>3, <2>1, <2>2, <2>3, BusyKeeps
<1>18. CASE CutVersion(t)
  <2>1. Alone(t) /\ SameCall(t) /\ th[t].pc # "idle"
    BY <1>1, <1>18, CutVersionDoes
  <2>2. (th'[t].pool = th[t].pool \/ th'[t].pool = <<>>) /\ th'[t].wants = th[t].wants
    BY <1>1, <1>18, CutVersionDoes
  <2>3. ControlOK(th'[t])
    BY <1>1, <1>18, CutVersionDoes
  <2>4. QED
    BY <1>1, <1>2, <1>3, <2>1, <2>2, <2>3, BusyKeeps
<1>19. CASE Choose(t)
  <2>1. Alone(t) /\ SameCall(t) /\ th[t].pc # "idle"
    BY <1>1, <1>19, ChooseDoes
  <2>2. (th'[t].pool = th[t].pool \/ th'[t].pool = <<>>) /\ th'[t].wants = th[t].wants
    BY <1>1, <1>19, ChooseDoes
  <2>3. ControlOK(th'[t])
    BY <1>1, <1>19, ChooseDoes
  <2>4. QED
    BY <1>1, <1>2, <1>3, <2>1, <2>2, <2>3, BusyKeeps
<1>20. CASE CutPrune(t)
  <2>1. Alone(t) /\ SameCall(t) /\ th[t].pc # "idle"
    BY <1>1, <1>20, CutPruneDoes
  <2>2. (th'[t].pool = th[t].pool \/ th'[t].pool = <<>>) /\ th'[t].wants = th[t].wants
    BY <1>1, <1>20, CutPruneDoes
  <2>3. ControlOK(th'[t])
    BY <1>1, <1>20, CutPruneDoes
  <2>4. QED
    BY <1>1, <1>2, <1>3, <2>1, <2>2, <2>3, BusyKeeps
<1>21. CASE SwapRoot(t)
  <2>1. Alone(t) /\ SameCall(t) /\ th[t].pc # "idle"
    BY <1>1, <1>21, SwapRootDoes
  <2>2. (th'[t].pool = th[t].pool \/ th'[t].pool = <<>>) /\ th'[t].wants = th[t].wants
    BY <1>1, <1>21, SwapRootDoes
  <2>3. ControlOK(th'[t])
    BY <1>1, <1>21, SwapRootDoes, SMTT(40)
  <2>4. QED
    BY <1>1, <1>2, <1>3, <2>1, <2>2, <2>3, BusyKeeps
<1>22. CASE Sweep(t)
  <2>1. Alone(t) /\ SameCall(t) /\ th[t].pc # "idle"
    BY <1>1, <1>22, SweepDoes
  <2>2. (th'[t].pool = th[t].pool \/ th'[t].pool = <<>>) /\ th'[t].wants = th[t].wants
    BY <1>1, <1>22, SweepDoes, SMTT(40)
  <2>3. ControlOK(th'[t])
    BY <1>1, <1>22, SweepDoes
  <2>4. QED
    BY <1>1, <1>2, <1>3, <2>1, <2>2, <2>3, BusyKeeps
<1>23. CASE Uncount(t)
  <2>1. Alone(t) /\ SameCall(t) /\ th[t].pc # "idle"
    BY <1>1, <1>23, UncountDoes
  <2>2. (th'[t].pool = th[t].pool \/ th'[t].pool = <<>>) /\ th'[t].wants = th[t].wants
    BY <1>1, <1>23, UncountDoes
  <2>3. ControlOK(th'[t])
    BY <1>1, <1>23, UncountDoes
  <2>4. QED
    BY <1>1, <1>2, <1>3, <2>1, <2>2, <2>3, BusyKeeps
<1>24. CASE Retire(t)
  <2>1. Alone(t) /\ SameCall(t) /\ th[t].pc # "idle"
    BY <1>1, <1>24, RetireDoes
  <2>2. (th'[t].pool = th[t].pool \/ th'[t].pool = <<>>) /\ th'[t].wants = th[t].wants
    BY <1>1, <1>24, RetireDoes
  <2>3. ControlOK(th'[t])
    BY <1>1, <1>24, RetireDoes
  <2>4. QED
    BY <1>1, <1>2, <1>3, <2>1, <2>2, <2>3, BusyKeeps
<1>25. CASE Push(t)
  <2>1. Alone(t) /\ SameCall(t) /\ th[t].pc # "idle"
    BY <1>1, <1>25, PushDoes
  <2>2. (th'[t].pool = th[t].pool \/ th'[t].pool = <<>>) /\ th'[t].wants = th[t].wants
    BY <1>1, <1>25, PushDoes
  <2>3. ControlOK(th'[t])
    BY <1>1, <1>25, PushDoes
  <2>4. QED
    BY <1>1, <1>2, <1>3, <2>1, <2>2, <2>3, BusyKeeps
<1>26. CASE ApplyFast(t)
  <2>1. Alone(t) /\ SameCall(t) /\ th[t].pc # "idle"
    BY <1>1, <1>26, ApplyFastDoes
  <2>2. (th'[t].pool = th[t].pool \/ th'[t].pool = <<>>) /\ th'[t].wants = th[t].wants
    BY <1>1, <1>26, ApplyFastDoes
  <2>3. ControlOK(th'[t])
    BY <1>1, <1>26, ApplyFastDoes
  <2>4. QED
    BY <1>1, <1>2, <1>3, <2>1, <2>2, <2>3, BusyKeeps
<1>27. CASE AllocLeaf(t)
  <2>1. Alone(t) /\ SameCall(t) /\ th[t].pc # "idle"
    BY <1>1, <1>27, AllocLeafDoes
  <2>2. (th'[t].pool = th[t].pool \/ th'[t].pool = <<>>) /\ th'[t].wants = th[t].wants
    BY <1>1, <1>27, AllocLeafDoes
  <2>3. ControlOK(th'[t])
    BY <1>1, <1>27, AllocLeafDoes
  <2>4. QED
    BY <1>1, <1>2, <1>3, <2>1, <2>2, <2>3, BusyKeeps
<1>28. CASE TryFast(t)
  <2>1. Alone(t) /\ SameCall(t) /\ th[t].pc # "idle"
    BY <1>1, <1>28, TryFastDoes
  <2>2. (th'[t].pool = th[t].pool \/ th'[t].pool = <<>>) /\ th'[t].wants = th[t].wants
    BY <1>1, <1>28, TryFastDoes
  <2>3. ControlOK(th'[t])
    BY <1>1, <1>28, TryFastDoes
  <2>4. QED
    BY <1>1, <1>2, <1>3, <2>1, <2>2, <2>3, BusyKeeps
<1>29. CASE CallInsert(t)
  <2>1. Alone(t) /\ SameCall(t) /\ th[t].pc # "idle"
    BY <1>1, <1>29, CallInsertDoes
  <2>2. (th'[t].pool = th[t].pool \/ th'[t].pool = <<>>) /\ th'[t].wants = th[t].wants
    BY <1>1, <1>29, CallInsertDoes
  <2>3. ControlOK(th'[t])
    BY <1>1, <1>29, CallInsertDoes, SMTT(40)
  <2>4. QED
    BY <1>1, <1>2, <1>3, <2>1, <2>2, <2>3, BusyKeeps
<1>30. CASE CommitInsert(t)
  <2>1. Alone(t) /\ SameCall(t) /\ th[t].pc # "idle"
    BY <1>1, <1>30, CommitInsertDoes, ZenonT(60)
  <2>2. (th'[t].pool = th[t].pool \/ th'[t].pool = <<>>) /\ th'[t].wants = th[t].wants
    BY <1>1, <1>30, CommitInsertDoes, ZenonT(60)
  <2>3. ControlOK(th'[t])
    BY <1>1, <1>30, CommitInsertDoes
  <2>4. QED
    BY <1>1, <1>2, <1>3, <2>1, <2>2, <2>3, BusyKeeps
<1>31. CASE ApplyExisting(t)
  <2>1. Alone(t) /\ SameCall(t) /\ th[t].pc # "idle"
    BY <1>1, <1>31, ApplyExistingDoes
  <2>2. (th'[t].pool = th[t].pool \/ th'[t].pool = <<>>) /\ th'[t].wants = th[t].wants
    BY <1>1, <1>31, ApplyExistingDoes
  <2>3. ControlOK(th'[t])
    BY <1>1, <1>31, ApplyExistingDoes
  <2>4. QED
    BY <1>1, <1>2, <1>3, <2>1, <2>2, <2>3, BusyKeeps
<1>32. QED
  BY <1>4, <1>5, <1>6, <1>7, <1>8, <1>9, <1>10, <1>11, <1>12, <1>13, <1>14, <1>15, <1>16, <1>17, <1>18, <1>19, <1>20, <1>21, <1>22, <1>23, <1>24, <1>25, <1>26, <1>27, <1>28, <1>29, <1>30, <1>31, Zenon DEF Step

-----------------------------------------------------------------------------
(* What the steps do to leaves and versions *)

\* The keys, values and heads stay.
LeavesAs ==
  /\ LeavesOK'
  /\ \A x \in LeafIds : /\ leaf'[x].key = leaf[x].key /\ leaf'[x].value = leaf[x].value
                        /\ leaf'[x].head = leaf[x].head

\* The head of l becomes h.
LeavesTo(l, h) ==
  /\ LeavesOK'
  /\ \A x \in LeafIds : /\ leaf'[x].key = leaf[x].key /\ leaf'[x].value = leaf[x].value
                        /\ leaf'[x].head = leaf[x].head \/ (x = l /\ leaf'[x].head = h)

\* A new leaf.
LeavesWith(l, k, h, v) ==
  /\ LeavesOK' /\ leaf'[l].key = k /\ leaf'[l].head = h /\ leaf'[l].value = v
  /\ \A x \in LeafIds : x # l => leaf'[x] = leaf[x]

LeafIs(l, r) == leaf' = [leaf EXCEPT ![l] = r]
LEMMA LeafReplaced ==
  ASSUME LeavesOK, NEW l, NEW r, LeafIs(l, r), LeafShape(r)
  PROVE  LeavesOK' /\ \A x \in LeafIds : leaf'[x] = IF x = l THEN r ELSE leaf[x]
<1>1. leaf = [x \in LeafIds |-> leaf[x]] /\ \A x \in LeafIds : LeafShape(leaf[x])
  BY DEF LeavesOK
<1>2. leaf' = [x \in LeafIds |-> leaf'[x]]
  BY <1>1 DEF LeafIs
<1>3. ASSUME NEW x \in LeafIds PROVE leaf'[x] = IF x = l THEN r ELSE leaf[x]
  BY <1>1 DEF LeafIs
<1>4. ASSUME NEW x \in LeafIds PROVE LeafShape(leaf'[x])
  BY <1>1, <1>3
<1>5. QED
  BY <1>2, <1>3, <1>4 DEF LeavesOK

KilledSet(l) == leaf' = [leaf EXCEPT ![l].dead = TRUE]
LEMMA LeafKilled ==
  ASSUME LeavesOK, NEW l, KilledSet(l)
  PROVE  LeavesAs
<1>1. leaf = [x \in LeafIds |-> leaf[x]]
  BY DEF LeavesOK
<1>2. CASE l \in LeafIds
  <2>1. PICK r : r = [leaf[l] EXCEPT !.dead = TRUE]
    OBVIOUS
  <2>2. LeafShape(leaf[l])
    BY <1>2 DEF LeavesOK
  <2>3. LeafShape(r) /\ r.key = leaf[l].key /\ r.value = leaf[l].value /\ r.head = leaf[l].head
    BY <2>1, <2>2 DEF LeafShape
  <2>4. LeafIs(l, r)
    BY <1>1, <2>1 DEF LeafIs, KilledSet
  <2>5. LeavesOK' /\ \A x \in LeafIds : leaf'[x] = IF x = l THEN r ELSE leaf[x]
    BY <2>3, <2>4, LeafReplaced
  <2>6. QED
    BY <2>3, <2>5 DEF LeavesAs
<1>3. CASE l \notin LeafIds
  <2>1. leaf' = leaf
    BY <1>1, <1>3 DEF KilledSet
  <2>2. QED
    BY <2>1 DEF LeavesAs, LeavesOK
<1>4. QED
  BY <1>2, <1>3

LEMMA LeavesStay ==
  ASSUME LeavesOK, leaf' = leaf
  PROVE  LeavesAs
BY DEF LeavesAs, LeavesOK

LEMMA LeafSwept ==
  ASSUME LeavesOK, NEW l, leaf' = Swept(l)
  PROVE  LeavesAs
<1>1. leaf' = leaf \/ KilledSet(l)
  BY DEF Swept, KilledSet
<1>2. QED
  BY <1>1, LeavesStay, LeafKilled

LeafHeadSet(l, h) == leaf' = [leaf EXCEPT ![l].head = h]
LEMMA LeafHead ==
  ASSUME LeavesOK, NEW l, NEW h, LeafHeadSet(l, h)
  PROVE  LeavesTo(l, h)
<1>1. leaf = [x \in LeafIds |-> leaf[x]]
  BY DEF LeavesOK
<1>2. CASE l \in LeafIds
  <2>1. PICK r : r = [leaf[l] EXCEPT !.head = h]
    OBVIOUS
  <2>2. LeafShape(leaf[l])
    BY <1>2 DEF LeavesOK
  <2>3. LeafShape(r) /\ r.key = leaf[l].key /\ r.value = leaf[l].value /\ r.head = h
    BY <2>1, <2>2 DEF LeafShape
  <2>4. LeafIs(l, r)
    BY <1>1, <2>1 DEF LeafIs, LeafHeadSet
  <2>5. LeavesOK' /\ \A x \in LeafIds : leaf'[x] = IF x = l THEN r ELSE leaf[x]
    BY <2>3, <2>4, LeafReplaced
  <2>6. QED
    BY <2>3, <2>5 DEF LeavesTo
<1>3. CASE l \notin LeafIds
  <2>1. leaf' = leaf
    BY <1>1, <1>3 DEF LeafHeadSet
  <2>2. QED
    BY <2>1 DEF LeavesTo, LeavesOK
<1>4. QED
  BY <1>2, <1>3

LEMMA LeafMade ==
  ASSUME LeavesOK, NEW l \in LeafIds, NEW k, NEW h, NEW v,
         leaf' = [leaf EXCEPT ![l] = [key |-> k, dead |-> FALSE, head |-> h, value |-> v]]
  PROVE  LeavesWith(l, k, h, v)
<1>1. PICK r : r = [key |-> k, dead |-> FALSE, head |-> h, value |-> v]
  OBVIOUS
<1>2. LeafShape(r) /\ r.key = k /\ r.head = h /\ r.value = v
  BY <1>1 DEF LeafShape
<1>3. LeafIs(l, r)
  BY <1>1, Zenon DEF LeafIs
<1>4. LeavesOK' /\ \A x \in LeafIds : leaf'[x] = IF x = l THEN r ELSE leaf[x]
  BY <1>2, <1>3, LeafReplaced
<1>5. QED
  BY <1>2, <1>4 DEF LeavesWith

\* The links of a and b change, to na and nb.
VersLinked(a, na, b, nb) ==
  /\ VersOK'
  /\ \A v \in VerIds :
       /\ ver'[v].there = ver[v].there /\ ver'[v].value = ver[v].value
       /\ \/ ver'[v].next = ver[v].next
          \/ v = a /\ ver'[v].next = na
          \/ v = b /\ ver'[v].next = nb

\* A new version.
VersWith(v) ==
  /\ VersOK' /\ ver'[v].there /\ (ver'[v].next = ver[v].next \/ ver'[v].next = 0)
  /\ \A w \in VerIds : w # v => ver'[w] = ver[w]

LEMMA VersStay ==
  ASSUME VersOK, ver' = ver
  PROVE  VersLinked(0, 0, 0, 0)
BY DEF VersLinked, VersOK

VerIs(v, r) == ver' = [ver EXCEPT ![v] = r]
LEMMA VerReplaced ==
  ASSUME VersOK, NEW v, NEW r, VerIs(v, r), VerShape(r)
  PROVE  VersOK' /\ \A w \in VerIds : ver'[w] = IF w = v THEN r ELSE ver[w]
<1>1. ver = [w \in VerIds |-> ver[w]] /\ \A w \in VerIds : VerShape(ver[w])
  BY DEF VersOK
<1>2. ver' = [w \in VerIds |-> ver'[w]]
  BY <1>1 DEF VerIs
<1>3. ASSUME NEW w \in VerIds PROVE ver'[w] = IF w = v THEN r ELSE ver[w]
  BY <1>1 DEF VerIs
<1>4. ASSUME NEW w \in VerIds PROVE VerShape(ver'[w])
  BY <1>1, <1>3
<1>5. QED
  BY <1>2, <1>3, <1>4 DEF VersOK

LEMMA VerMade ==
  ASSUME VersOK, NEW v \in VerIds, NEW val, NEW version,
         ver' = [ver EXCEPT ![v] = [there |-> TRUE, value |-> val, version |-> version, next |-> 0,
                                    superseded |-> FALSE]]
  PROVE  VersWith(v) /\ ver'[v].value = val /\ ver'[v].next = 0
<1>1. PICK r : r = [there |-> TRUE, value |-> val, version |-> version, next |-> 0, superseded |-> FALSE]
  OBVIOUS
<1>2. VerShape(r) /\ r.there /\ r.value = val /\ r.next = 0
  BY <1>1 DEF VerShape
<1>3. VerIs(v, r)
  BY <1>1, Zenon DEF VerIs
<1>4. VersOK' /\ \A w \in VerIds : ver'[w] = IF w = v THEN r ELSE ver[w]
  BY <1>2, <1>3, VerReplaced
<1>5. QED
  BY <1>2, <1>4 DEF VersWith

ThereSet(v) == ver' = [ver EXCEPT ![v].there = TRUE]
LEMMA VerThere ==
  ASSUME VersOK, NEW v \in VerIds, ThereSet(v)
  PROVE  VersWith(v)
<1>1. ver = [w \in VerIds |-> ver[w]] /\ VerShape(ver[v])
  BY DEF VersOK
<1>2. PICK r : r = [ver[v] EXCEPT !.there = TRUE]
  OBVIOUS
<1>3. VerShape(r) /\ r.there /\ r.next = ver[v].next
  BY <1>1, <1>2 DEF VerShape
<1>4. VerIs(v, r)
  BY <1>1, <1>2 DEF VerIs, ThereSet
<1>5. VersOK' /\ \A w \in VerIds : ver'[w] = IF w = v THEN r ELSE ver[w]
  BY <1>3, <1>4, VerReplaced
<1>6. QED
  BY <1>3, <1>5 DEF VersWith

LEMMA VersPointwise ==
  ASSUME VersOK, NEW a, NEW na, NEW b, NEW nb, ver' = [v \in VerIds |-> ver'[v]],
         \A v \in VerIds :
           \/ ver'[v] = ver[v]
           \/ ver'[v] = [ver[v] EXCEPT !.superseded = TRUE]
           \/ v = a /\ ver'[v] = [ver[v] EXCEPT !.next = na]
           \/ v = b /\ ver'[v] = [ver[v] EXCEPT !.next = nb]
  PROVE  VersLinked(a, na, b, nb)
<1>1. ASSUME NEW v \in VerIds
      PROVE  /\ VerShape(ver'[v]) /\ ver'[v].there = ver[v].there /\ ver'[v].value = ver[v].value
             /\ \/ ver'[v].next = ver[v].next
                \/ v = a /\ ver'[v].next = na
                \/ v = b /\ ver'[v].next = nb
  <2>1. VerShape(ver[v])
    BY DEF VersOK
  <2>2. PICK x, y : x = ver[v] /\ y = ver'[v]
    OBVIOUS
  <2>3. \/ y = x \/ y = [x EXCEPT !.superseded = TRUE]
        \/ v = a /\ y = [x EXCEPT !.next = na]
        \/ v = b /\ y = [x EXCEPT !.next = nb]
    BY <2>2, Zenon
  <2>4. CASE y = x
    BY <2>1, <2>2, <2>4
  <2>5. CASE y = [x EXCEPT !.superseded = TRUE]
    <3>1. VerShape(y) /\ y.there = x.there /\ y.value = x.value /\ y.next = x.next
      BY <2>1, <2>2, <2>5 DEF VerShape
    <3>2. QED
      BY <2>2, <3>1
  <2>6. CASE v = a /\ y = [x EXCEPT !.next = na]
    <3>1. VerShape(y) /\ y.there = x.there /\ y.value = x.value /\ y.next = na
      BY <2>1, <2>2, <2>6 DEF VerShape
    <3>2. QED
      BY <2>2, <2>6, <3>1
  <2>7. CASE v = b /\ y = [x EXCEPT !.next = nb]
    <3>1. VerShape(y) /\ y.there = x.there /\ y.value = x.value /\ y.next = nb
      BY <2>1, <2>2, <2>7 DEF VerShape
    <3>2. QED
      BY <2>2, <2>7, <3>1
  <2>8. QED
    BY <2>3, <2>4, <2>5, <2>6, <2>7
<1>2. VersOK'
  BY <1>1 DEF VersOK
<1>3. QED
  BY <1>1, <1>2 DEF VersLinked

\* apply: the version before the new one, the one at its place, and the one after it.
AppliedAfter(t, l) == Above(l, ver[th[t].vnode].version)
AppliedAt(t, l) == IF AppliedAfter(t, l) = 0 THEN leaf[l].head ELSE ver[AppliedAfter(t, l)].next
AppliedNext(t, l) ==
  IF AppliedAt(t, l) # 0 /\ ver[AppliedAt(t, l)].version = ver[th[t].vnode].version
  THEN ver[AppliedAt(t, l)].next ELSE AppliedAt(t, l)

LEMMA AppliedVers ==
  ASSUME VersOK, NEW t, NEW l, Applied(t, l)
  PROVE  VersLinked(th[t].vnode, AppliedNext(t, l), AppliedAfter(t, l), th[t].vnode)
<1> DEFINE x == th[t].vnode
           prev == AppliedAfter(t, l)
           cur == AppliedAt(t, l)
           next == AppliedNext(t, l)
           replaced == cur # 0 /\ ver[cur].version = ver[x].version
<1>1. ver' = [v \in VerIds |->
                CASE v = x -> [ver[v] EXCEPT !.next = next]
                  [] v = prev -> [ver[v] EXCEPT !.next = x]
                  [] v = cur /\ replaced -> [ver[v] EXCEPT !.superseded = TRUE]
                  [] OTHER -> ver[v]]
  BY Zenon DEF Applied, AppliedAfter, AppliedAt, AppliedNext
<1> HIDE DEF x, prev, cur, next, replaced
<1>2. ver' = [v \in VerIds |-> ver'[v]]
  BY <1>1
<1>3. ASSUME NEW v \in VerIds
      PROVE  \/ ver'[v] = ver[v]
             \/ ver'[v] = [ver[v] EXCEPT !.superseded = TRUE]
             \/ v = x /\ ver'[v] = [ver[v] EXCEPT !.next = next]
             \/ v = prev /\ ver'[v] = [ver[v] EXCEPT !.next = x]
  BY <1>1
<1>4. VersLinked(x, next, prev, x)
  BY <1>2, <1>3, VersPointwise
<1>5. QED
  BY <1>4 DEF x, prev, next

LEMMA AppliedLeaves ==
  ASSUME LeavesOK, NEW t, NEW l, Applied(t, l)
  PROVE  LeavesTo(l, th[t].vnode)
<1>1. leaf' = [leaf EXCEPT ![l].head = IF AppliedAfter(t, l) = 0 THEN th[t].vnode ELSE @]
  BY Zenon DEF Applied, AppliedAfter
<1>2. CASE AppliedAfter(t, l) = 0
  <2>1. LeafHeadSet(l, th[t].vnode)
    BY <1>1, <1>2 DEF LeafHeadSet
  <2>2. QED
    BY <2>1, LeafHead
<1>3. CASE AppliedAfter(t, l) # 0
  <2>1. LeafHeadSet(l, leaf[l].head)
    BY <1>1, <1>3 DEF LeafHeadSet
  <2>2. LeavesTo(l, leaf[l].head)
    BY <2>1, LeafHead
  <2>3. QED
    BY <2>2 DEF LeavesTo
<1>4. QED
  BY <1>2, <1>3

HeadCutSet(x, version, n, h) == ver' = [ver EXCEPT ![x].version = version, ![x].next = n, ![h].superseded = TRUE]
LEMMA HeadCutVers ==
  ASSUME VersOK, NEW x, NEW version, NEW n, NEW h, HeadCutSet(x, version, n, h)
  PROVE  VersLinked(x, n, x, n)
<1>1. ver = [v \in VerIds |-> ver[v]] /\ \A v \in VerIds : VerShape(ver[v])
  BY DEF VersOK
<1>2. ver' = [v \in VerIds |-> ver'[v]]
  BY <1>1 DEF HeadCutSet
<1>3. PICK mid : mid = [ver EXCEPT ![x].version = version, ![x].next = n]
  OBVIOUS
<1>4. ASSUME NEW v \in VerIds
      PROVE  mid[v] = IF v = x THEN [ver[v] EXCEPT !.version = version, !.next = n] ELSE ver[v]
  BY <1>1, <1>3
<1>5. ver' = [mid EXCEPT ![h].superseded = TRUE] /\ mid = [v \in VerIds |-> mid[v]]
  BY <1>1, <1>3, Zenon DEF HeadCutSet
<1>6. ASSUME NEW v \in VerIds
      PROVE  ver'[v] = IF v = h THEN [mid[v] EXCEPT !.superseded = TRUE] ELSE mid[v]
  BY <1>5
<1>7. ASSUME NEW v \in VerIds
      PROVE  /\ VerShape(mid[v]) /\ mid[v].there = ver[v].there /\ mid[v].value = ver[v].value
             /\ mid[v].next = IF v = x THEN n ELSE ver[v].next
  <2>1. VerShape(ver[v])
    BY <1>1
  <2>2. CASE v = x
    BY <1>4, <2>1, <2>2 DEF VerShape
  <2>3. CASE v # x
    BY <1>4, <2>1, <2>3
  <2>4. QED
    BY <2>2, <2>3
<1>8. ASSUME NEW v \in VerIds
      PROVE  /\ VerShape(ver'[v]) /\ ver'[v].there = mid[v].there /\ ver'[v].value = mid[v].value
             /\ ver'[v].next = mid[v].next
  <2>1. VerShape(mid[v])
    BY <1>7
  <2>2. CASE v = h
    BY <1>6, <2>1, <2>2 DEF VerShape
  <2>3. CASE v # h
    BY <1>6, <2>1, <2>3
  <2>4. QED
    BY <2>2, <2>3
<1>9. VersOK'
  BY <1>2, <1>8 DEF VersOK
<1>10. QED
  BY <1>7, <1>8, <1>9 DEF VersLinked

VersionCutSet(a, n, c) ==
  ver' = [x \in VerIds |->
            CASE x = a -> [ver[x] EXCEPT !.next = n]
              [] x = c -> [ver[x] EXCEPT !.superseded = TRUE]
              [] OTHER -> ver[x]]
LEMMA VersionCutVers ==
  ASSUME VersOK, NEW a, NEW n, NEW c, VersionCutSet(a, n, c)
  PROVE  VersLinked(a, n, a, n)
<1>1. ver' = [v \in VerIds |-> ver'[v]]
  BY DEF VersionCutSet
<1>2. ASSUME NEW v \in VerIds
      PROVE  \/ ver'[v] = ver[v]
             \/ ver'[v] = [ver[v] EXCEPT !.superseded = TRUE]
             \/ v = a /\ ver'[v] = [ver[v] EXCEPT !.next = n]
  BY DEF VersionCutSet
<1>3. QED
  BY <1>1, <1>2, VersPointwise

TailCutSet(a, S) ==
  ver' = [v \in VerIds |->
            CASE v = a -> [ver[v] EXCEPT !.next = 0]
              [] v \in S -> [ver[v] EXCEPT !.superseded = TRUE]
              [] OTHER -> ver[v]]
LEMMA TailCutVers ==
  ASSUME VersOK, NEW a, NEW S, TailCutSet(a, S)
  PROVE  VersLinked(a, 0, a, 0)
<1>1. ver' = [v \in VerIds |-> ver'[v]]
  BY DEF TailCutSet
<1>2. ASSUME NEW v \in VerIds
      PROVE  \/ ver'[v] = ver[v]
             \/ ver'[v] = [ver[v] EXCEPT !.superseded = TRUE]
             \/ v = a /\ ver'[v] = [ver[v] EXCEPT !.next = 0]
  BY DEF TailCutSet
<1>3. QED
  BY <1>1, <1>2, VersPointwise

-----------------------------------------------------------------------------
(* What the steps do to the books *)

OwnedTo(drop, back, pub) ==
  /\ OwnedOK' /\ owned'.over = owned.over
  /\ owned'.back = owned.back \cup back /\ owned'.published = owned.published \cup pub
  /\ \A o \in Objects : owned'.drops[o] = IF o \in drop THEN owned.drops[o] + 1 ELSE owned.drops[o]

LEMMA OwnedStays ==
  ASSUME OwnedOK, owned' = owned
  PROVE  OwnedTo({}, {}, {})
BY DEF OwnedTo, OwnedOK

GivenSet(objs) == owned' = [owned EXCEPT !.given = objs]
LEMMA OwnedGiven ==
  ASSUME OwnedOK, NEW objs, GivenSet(objs)
  PROVE  OwnedTo({}, {}, {})
<1>1. OwnedShape(owned) /\ owned.drops = [o \in Objects |-> owned.drops[o]]
  BY DEF OwnedOK
<1>2. /\ OwnedShape(owned') /\ owned'.drops = owned.drops /\ owned'.back = owned.back
      /\ owned'.published = owned.published /\ owned'.over = owned.over
  BY <1>1 DEF GivenSet, OwnedShape
<1>3. QED
  BY <1>1, <1>2 DEF OwnedTo, OwnedOK

LEMMA OwnedBack ==
  ASSUME OwnedOK, NEW objs, owned' = GivenBack(objs)
  PROVE  OwnedTo({}, objs \ {None}, {})
<1>1. OwnedShape(owned) /\ owned.drops = [o \in Objects |-> owned.drops[o]]
  BY DEF OwnedOK
<1>2. /\ OwnedShape(owned') /\ owned'.drops = owned.drops /\ owned'.back = owned.back \cup (objs \ {None})
      /\ owned'.published = owned.published /\ owned'.over = owned.over
  BY <1>1 DEF GivenBack, OwnedShape
<1>3. QED
  BY <1>1, <1>2 DEF OwnedTo, OwnedOK

LEMMA OwnedPublished ==
  ASSUME OwnedOK, NEW objs, owned' = Published(objs)
  PROVE  OwnedTo({}, {}, objs \ {None})
<1>1. OwnedShape(owned) /\ owned.drops = [o \in Objects |-> owned.drops[o]]
  BY DEF OwnedOK
<1>2. /\ OwnedShape(owned') /\ owned'.drops = owned.drops /\ owned'.back = owned.back
      /\ owned'.published = owned.published \cup (objs \ {None}) /\ owned'.over = owned.over
  BY <1>1 DEF Published, OwnedShape
<1>3. QED
  BY <1>1, <1>2 DEF OwnedTo, OwnedOK

DroppedSet(objs, pub) == owned' = [Dropped(objs) EXCEPT !.published = @ \cup pub]
LEMMA OwnedDropped ==
  ASSUME OwnedOK, NEW objs, NEW pub, DroppedSet(objs, pub)
  PROVE  OwnedTo(objs, {}, pub)
<1>1. OwnedShape(owned) /\ owned.drops = [o \in Objects |-> owned.drops[o]]
  BY DEF OwnedOK
<1>2. PICK d : d = [o \in Objects |-> IF o \in objs THEN owned.drops[o] + 1 ELSE owned.drops[o]]
  OBVIOUS
<1>3. PICK mid : mid = [owned EXCEPT !.drops = d]
  OBVIOUS
<1>4. /\ OwnedShape(mid) /\ mid.drops = d /\ mid.back = owned.back
      /\ mid.published = owned.published /\ mid.over = owned.over
  BY <1>1, <1>3 DEF OwnedShape
<1>5. Dropped(objs) = mid
  BY <1>1, <1>2, <1>3 DEF Dropped, OwnedShape
<1>6. owned' = [mid EXCEPT !.published = owned.published \cup pub]
  BY <1>4, <1>5 DEF DroppedSet, OwnedShape
<1>7. /\ OwnedShape(owned') /\ owned'.drops = d /\ owned'.back = owned.back
      /\ owned'.published = owned.published \cup pub /\ owned'.over = owned.over
  BY <1>4, <1>6 DEF OwnedShape
<1>8. QED
  BY <1>2, <1>7 DEF OwnedTo, OwnedOK

LEMMA OwnedOver ==
  ASSUME OwnedOK, DropMap
  PROVE  OwnedOK' /\ owned'.over /\ owned'.published = owned.published /\ Quiet /\ ~owned.over
<1>1. OwnedShape(owned)
  BY DEF OwnedOK
<1>2. \E d : owned' = [owned EXCEPT !.over = TRUE, !.drops = [o \in Objects |-> d[o]]]
  <2>1. PICK parts : owned' = [owned EXCEPT !.over = TRUE, !.drops = [o \in Objects |-> @[o] + Times(o, parts)]]
    BY Zenon DEF DropMap
  <2>2. PICK d : d = [o \in Objects |-> owned.drops[o] + Times(o, parts)]
    OBVIOUS
  <2>3. [o \in Objects |-> d[o]] = [o \in Objects |-> owned.drops[o] + Times(o, parts)]
    BY <2>2
  <2>4. owned' = [owned EXCEPT !.over = TRUE, !.drops = [o \in Objects |-> owned.drops[o] + Times(o, parts)]]
    BY <1>1, <2>1 DEF OwnedShape
  <2>5. QED
    BY <2>3, <2>4, Zenon
<1>3. PICK d : owned' = [owned EXCEPT !.over = TRUE, !.drops = [o \in Objects |-> d[o]]]
  BY <1>2, Zenon
<1>4. PICK e : e = [o \in Objects |-> d[o]]
  OBVIOUS
<1>5. OwnedShape(owned') /\ owned'.over = TRUE /\ owned'.drops = e /\ owned'.published = owned.published
  BY <1>1, <1>3, <1>4 DEF OwnedShape
<1>6. Quiet /\ ~owned.over
  BY Zenon DEF DropMap
<1>7. QED
  BY <1>4, <1>5, <1>6 DEF OwnedOK

NodesTo(made, linked, freed) ==
  /\ NodesOK' /\ nodes'.made = nodes.made \cup made
  /\ nodes'.linked = nodes.linked \cup linked /\ nodes'.freed = nodes.freed \cup freed

LEMMA NodesStay ==
  ASSUME NodesOK, nodes' = nodes
  PROVE  NodesTo({}, {}, {})
BY DEF NodesTo, NodesOK

FreedSet(S) == nodes' = [nodes EXCEPT !.freed = @ \cup S]
LEMMA NodesFreed ==
  ASSUME NodesOK, NEW S, FreedSet(S)
  PROVE  NodesTo({}, {}, S)
BY DEF NodesTo, NodesOK, NodesShape, FreedSet

MadeSet(S) == nodes' = [nodes EXCEPT !.made = @ \cup S]
LEMMA NodesMade ==
  ASSUME NodesOK, NEW S, MadeSet(S)
  PROVE  NodesTo(S, {}, {})
BY DEF NodesTo, NodesOK, NodesShape, MadeSet

LinkedSet(S, T) == nodes' = [nodes EXCEPT !.linked = @ \cup S, !.freed = @ \cup T]
LEMMA NodesLinked ==
  ASSUME NodesOK, NEW S, NEW T, LinkedSet(S, T)
  PROVE  NodesTo({}, S, T)
BY DEF NodesTo, NodesOK, NodesShape, LinkedSet

-----------------------------------------------------------------------------
(* What each step does to the heap and the books *)

Alike == slot' = slot /\ leaf' = leaf /\ ver' = ver /\ owned' = owned /\ nodes' = nodes
Rooted == gen' = gen /\ prog' = prog

LEMMA SlotsStay ==
  ASSUME SlotsOK, slot' = slot
  PROVE  SlotsTo(0)
BY DEF SlotsTo, SlotsOK

Reading(t) ==
  \/ Probe(t) \/ CallInsert(t) \/ Look(t) \/ Relook(t) \/ Seek(t) \/ Choose(t) \/ Uncount(t)
  \/ Retire(t) \/ Push(t) \/ Return(t)

LEMMA ReadingHeap ==
  ASSUME NEW t, Reading(t)
  PROVE  Alike /\ Rooted
<1> USE DEF Alike, Rooted, store
<1>1. CASE Probe(t)
  BY <1>1, Zenon DEF Probe
<1>2. CASE CallInsert(t)
  BY <1>2, Zenon DEF CallInsert
<1>3. CASE Look(t)
  BY <1>3, Zenon DEF Look
<1>4. CASE Relook(t)
  BY <1>4, Zenon DEF Relook
<1>5. CASE Seek(t)
  BY <1>5, Zenon DEF Seek
<1>6. CASE Choose(t)
  BY <1>6, Zenon DEF Choose
<1>7. CASE Uncount(t)
  BY <1>7, Zenon DEF Uncount
<1>8. CASE Retire(t)
  BY <1>8, Zenon DEF Retire
<1>9. CASE Push(t)
  BY <1>9, Zenon DEF Push
<1>10. CASE Return(t)
  BY <1>10, Zenon DEF Return
<1>11. QED
  BY <1>1, <1>2, <1>3, <1>4, <1>5, <1>6, <1>7, <1>8, <1>9, <1>10, Zenon DEF Reading

LEMMA BeginHeap ==
  ASSUME NEW t, OwnedOK, Begin(t)
  PROVE  Rooted /\ slot' = slot /\ leaf' = leaf /\ ver' = ver /\ nodes' = nodes /\ OwnedTo({}, {}, {})
<1>1. Rooted /\ slot' = slot /\ leaf' = leaf /\ ver' = ver /\ nodes' = nodes
  BY Zenon DEF Begin, Rooted, store
<1>2. PICK a, b : owned' = [owned EXCEPT !.given = @ \cup a \cup b]
  BY Zenon DEF Begin
<1>3. PICK objs : objs = owned.given \cup a \cup b
  OBVIOUS
<1>4. GivenSet(objs)
  BY <1>2, <1>3 DEF GivenSet, OwnedOK, OwnedShape
<1>5. QED
  BY <1>1, <1>4, OwnedGiven

Returned(t) == {MyKey(t), IF th[t].call.value THEN MyValue(t) ELSE None} \ {None}

LEMMA FullHeap ==
  ASSUME NEW t, OwnedOK, NodesOK, Full(t)
  PROVE  OwnedTo({}, Returned(t), {}) /\ NodesTo({}, {}, PoolOf(t))
<1>1. owned' = GivenBack({MyKey(t), IF th[t].call.value THEN MyValue(t) ELSE None}) /\ FreedSet(PoolOf(t))
  BY Zenon DEF Full, FreedSet, PoolOf
<1>2. QED
  BY <1>1, OwnedBack, NodesFreed DEF Returned

LEMMA AllocVersionHeap ==
  ASSUME NEW t, Shapes, AllocVersion(t)
  PROVE  /\ Rooted /\ slot' = slot /\ leaf' = leaf
         /\ \/ /\ Fits("version") /\ FreeVers # {} /\ VersWith(FreshVer)
               /\ ver'[FreshVer].value \in {None, MyValue(t)} /\ ver'[FreshVer].next = 0
               /\ owned' = owned /\ nodes' = nodes
            \/ ~Fits("version") /\ Full(t) /\ ver' = ver
<1>1. Rooted /\ slot' = slot /\ leaf' = leaf /\ FreeVers # {}
  BY Zenon DEF AllocVersion, Rooted
<1>2. CASE ~Fits("version")
  <2>1. Full(t) /\ ver' = ver
    BY <1>2, Zenon DEF AllocVersion
  <2>2. QED
    BY <1>1, <1>2, <2>1
<1>3. CASE Fits("version")
  <2>1. PICK val : val = IF th[t].call.value THEN MyValue(t) ELSE None
    OBVIOUS
  <2>2. /\ ver' = [ver EXCEPT ![FreshVer] = [there |-> TRUE, value |-> val, version |-> th[t].call.ver,
                                             next |-> 0, superseded |-> FALSE]]
        /\ owned' = owned /\ nodes' = nodes
    BY <1>3, <2>1, Zenon DEF AllocVersion
  <2>3. VersOK /\ FreshVer \in VerIds
    BY <1>1, FreshVerIn DEF Shapes
  <2>4. VersWith(FreshVer) /\ ver'[FreshVer].value = val /\ ver'[FreshVer].next = 0
    BY <2>2, <2>3, VerMade
  <2>5. QED
    BY <1>1, <1>3, <2>1, <2>2, <2>4
<1>4. QED
  BY <1>2, <1>3

LEMMA ApplyFastHeap ==
  ASSUME NEW t, Shapes, ApplyFast(t)
  PROVE  /\ Rooted /\ slot' = slot /\ nodes' = nodes
         /\ \/ leaf[th[t].target].dead /\ Alike
            \/ /\ ~leaf[th[t].target].dead /\ Applied(t, th[t].target)
               /\ OwnedTo({MyKey(t)}, {}, {ver[th[t].vnode].value} \ {None})
<1>1. Rooted /\ slot' = slot /\ nodes' = nodes
  BY Zenon DEF ApplyFast, Rooted
<1>2. CASE leaf[th[t].target].dead
  BY <1>1, <1>2, Zenon DEF ApplyFast, Alike
<1>3. CASE ~leaf[th[t].target].dead
  <2>1. Applied(t, th[t].target) /\ DroppedSet({MyKey(t)}, {ver[th[t].vnode].value} \ {None})
    BY <1>3, Zenon DEF ApplyFast, DroppedSet
  <2>2. OwnedOK
    BY DEF Shapes
  <2>3. OwnedTo({MyKey(t)}, {}, {ver[th[t].vnode].value} \ {None})
    BY <2>1, <2>2, OwnedDropped
  <2>4. QED
    BY <1>1, <1>3, <2>1, <2>3
<1>4. QED
  BY <1>2, <1>3

LEMMA AllocLeafHeap ==
  ASSUME NEW t, Shapes, AllocLeaf(t)
  PROVE  /\ Rooted /\ slot' = slot /\ ver' = ver
         /\ \/ /\ Fits("leaf") /\ FreeLeaves # {} /\ owned' = owned /\ nodes' = nodes
               /\ \E v \in {None, MyValue(t)} : LeavesWith(FreshLeaf, MyKey(t), th[t].vnode, v)
            \/ ~Fits("leaf") /\ Full(t) /\ leaf' = leaf
<1>1. Rooted /\ slot' = slot /\ ver' = ver /\ FreeLeaves # {}
  BY Zenon DEF AllocLeaf, Rooted
<1>2. CASE ~Fits("leaf")
  <2>1. Full(t) /\ leaf' = leaf
    BY <1>2, Zenon DEF AllocLeaf
  <2>2. QED
    BY <1>1, <1>2, <2>1
<1>3. CASE Fits("leaf")
  <2>1. PICK v : v = IF th[t].call.op = "put" THEN MyValue(t) ELSE None
    OBVIOUS
  <2>2. /\ leaf' = [leaf EXCEPT ![FreshLeaf] = [key |-> MyKey(t), dead |-> FALSE, head |-> th[t].vnode, value |-> v]]
        /\ owned' = owned /\ nodes' = nodes
    BY <1>3, <2>1, Zenon DEF AllocLeaf
  <2>3. LeavesOK /\ FreshLeaf \in LeafIds
    BY <1>1, FreshLeafIn DEF Shapes
  <2>4. LeavesWith(FreshLeaf, MyKey(t), th[t].vnode, v)
    BY <2>2, <2>3, LeafMade
  <2>5. QED
    BY <1>1, <1>3, <2>1, <2>2, <2>4
<1>4. QED
  BY <1>2, <1>3

LEMMA PlaceHeap ==
  ASSUME NEW t, NEW g, SlotsOK, OwnedOK, Place(t, g)
  PROVE  SlotsTo(th[t].own) /\ OwnedTo({}, {}, InLeaf(th[t].own) \ {None})
<1>1. PlacedSet(Key(t), g, th[t].own) /\ owned' = Published(InLeaf(th[t].own))
  BY Zenon DEF Place, PlacedSet
<1>2. QED
  BY <1>1, SlotPlaced, OwnedPublished

LEMMA TryFastHeap ==
  ASSUME NEW t \in Threads, Shapes, TryFast(t)
  PROVE  /\ Rooted /\ leaf' = leaf /\ ver' = ver /\ nodes' = nodes
         /\ \/ /\ th'[t].pc = "done" /\ SlotsTo(th[t].own) /\ OwnedTo({}, {}, InLeaf(th[t].own) \ {None})
            \/ th'[t].pc = "call" /\ Alike
<1>1. Rooted /\ leaf' = leaf /\ ver' = ver /\ nodes' = nodes
  BY Zenon DEF TryFast, Rooted, store
<1>2. \/ th'[t].pc = "done" /\ \E g \in Gens : Place(t, g)
      \/ th'[t].pc = "call" /\ UNCHANGED <<slot, owned, leaf, ver>>
  BY TryFastDoes DEF Shapes
<1>3. CASE th'[t].pc = "done" /\ \E g \in Gens : Place(t, g)
  BY <1>1, <1>3, PlaceHeap DEF Shapes
<1>4. CASE th'[t].pc = "call" /\ UNCHANGED <<slot, owned, leaf, ver>>
  BY <1>1, <1>4 DEF Alike
<1>5. QED
  BY <1>2, <1>3, <1>4

LEMMA AttemptHeap ==
  ASSUME NEW t \in Threads, Shapes, Attempt(t)
  PROVE  /\ Rooted /\ slot' = slot /\ leaf' = leaf /\ ver' = ver /\ owned' = owned
         /\ \/ th'[t].pc = "existing" /\ NodesTo({}, {}, PoolOf(t))
            \/ th'[t].pc = "prepare" /\ nodes' = nodes
<1>1. Rooted /\ slot' = slot /\ leaf' = leaf /\ ver' = ver /\ owned' = owned
  BY Zenon DEF Attempt, Rooted, store
<1>2. \/ th'[t].pc = "existing" /\ nodes' = [nodes EXCEPT !.freed = @ \cup ReleaseAll(th[t].pool)]
      \/ th'[t].pc = "prepare" /\ nodes' = nodes
  BY AttemptDoes DEF Shapes
<1>3. CASE th'[t].pc = "existing" /\ nodes' = [nodes EXCEPT !.freed = @ \cup ReleaseAll(th[t].pool)]
  <2>1. FreedSet(PoolOf(t)) /\ NodesOK
    BY <1>3, Zenon DEF FreedSet, PoolOf, Shapes
  <2>2. QED
    BY <1>1, <1>3, <2>1, NodesFreed
<1>4. QED
  BY <1>1, <1>2, <1>3

LEMMA PrepareHeap ==
  ASSUME NEW t \in Threads, Shapes, Prepare(t)
  PROVE  Rooted /\ slot' = slot /\ leaf' = leaf /\ ver' = ver
BY Zenon DEF Prepare, Rooted, store

LEMMA CommitInsertHeap ==
  ASSUME NEW t \in Threads, Shapes, CommitInsert(t)
  PROVE  /\ Rooted /\ ver' = ver
         /\ \/ th'[t].pc = "attempt" /\ Alike
            \/ /\ th'[t].pc = "retire" /\ SlotsTo(th[t].own) /\ OwnedTo({}, {}, InLeaf(th[t].own) \ {None})
               /\ LeavesAs
               /\ NodesTo({}, UsedBy(th[t].pool), Release(th[t].pool, Commit(th[t].pool)))
<1>1. Rooted /\ ver' = ver
  BY Zenon DEF CommitInsert, Rooted
<1>2. ThreadsOK /\ LeavesOK /\ SlotsOK /\ OwnedOK /\ NodesOK
  BY DEF Shapes
<1>3. \/ /\ th'[t].pc = "attempt" /\ UNCHANGED <<slot, leaf, owned, nodes>>
      \/ /\ th'[t].pc = "retire" /\ Place(t, th[t].seen.gen)
         /\ (leaf' = leaf \/ \E l : KilledSet(l))
         /\ LinkedSet(UsedBy(th[t].pool), Release(th[t].pool, Commit(th[t].pool)))
  BY <1>2, CommitInsertDoes, Zenon DEF KilledSet, LinkedSet
<1>4. CASE th'[t].pc = "attempt" /\ UNCHANGED <<slot, leaf, owned, nodes>>
  BY <1>1, <1>4 DEF Alike
<1>5. CASE /\ th'[t].pc = "retire" /\ Place(t, th[t].seen.gen)
           /\ (leaf' = leaf \/ \E l : KilledSet(l))
           /\ LinkedSet(UsedBy(th[t].pool), Release(th[t].pool, Commit(th[t].pool)))
  <2>1. SlotsTo(th[t].own) /\ OwnedTo({}, {}, InLeaf(th[t].own) \ {None})
    BY <1>2, <1>5, PlaceHeap
  <2>2. LeavesAs
    BY <1>2, <1>5, LeavesStay, LeafKilled
  <2>3. NodesTo({}, UsedBy(th[t].pool), Release(th[t].pool, Commit(th[t].pool)))
    BY <1>2, <1>5, NodesLinked
  <2>4. QED
    BY <1>1, <1>5, <2>1, <2>2, <2>3
<1>6. QED
  BY <1>3, <1>4, <1>5

LEMMA ApplyExistingHeap ==
  ASSUME NEW t \in Threads, Shapes, ApplyExisting(t)
  PROVE  /\ Rooted /\ slot' = slot /\ nodes' = nodes
         /\ \/ th'[t].pc = "call" /\ Alike
            \/ /\ th'[t].pc = "retire" /\ Applied(t, th[t].target)
               /\ OwnedTo({leaf[th[t].own].key} \cup ValuesFrom(0), {}, {ver[th[t].vnode].value} \ {None})
<1>1. Rooted /\ slot' = slot /\ nodes' = nodes
  BY Zenon DEF ApplyExisting, Rooted
<1>2. CASE leaf[th[t].target].dead
  <2>1. Goto(t, "call") /\ UNCHANGED <<leaf, ver, len, owned>>
    BY <1>2, Zenon DEF ApplyExisting
  <2>2. th'[t].pc = "call"
    BY <2>1, GotoDoes DEF Shapes
  <2>3. QED
    BY <1>1, <2>1, <2>2 DEF Alike
<1>3. CASE ~leaf[th[t].target].dead
  <2>1. /\ Applied(t, th[t].target)
        /\ DroppedSet({leaf[th[t].own].key} \cup ValuesFrom(0), {ver[th[t].vnode].value} \ {None})
    BY <1>3, Zenon DEF ApplyExisting, DroppedSet, HuskHead
  <2>2. OwnedOK /\ ThreadsOK
    BY DEF Shapes
  <2>3. OwnedTo({leaf[th[t].own].key} \cup ValuesFrom(0), {}, {ver[th[t].vnode].value} \ {None})
    BY <2>1, <2>2, OwnedDropped
  <2>4. th'[t].pc = "retire"
    BY <2>1, <2>2, AppliedDoes
  <2>5. QED
    BY <1>1, <2>1, <2>3, <2>4
<1>4. QED
  BY <1>2, <1>3

LEMMA TakeLeafHeap ==
  ASSUME NEW t \in Threads, Shapes, TakeLeaf(t)
  PROVE  Rooted /\ ver' = ver /\ owned' = owned /\ nodes' = nodes /\ SlotsTo(0) /\ LeavesAs
<1>1. Rooted /\ ver' = ver /\ owned' = owned /\ nodes' = nodes
  BY Zenon DEF TakeLeaf, Rooted
<1>2. ThreadsOK /\ SlotsOK /\ LeavesOK
  BY DEF Shapes
<1>3. \/ UNCHANGED <<slot, leaf>>
      \/ KilledSet(th[t].target) /\ TakenSet(Key(t), th[t].seen.gen)
  BY <1>2, TakeLeafDoes, Zenon DEF KilledSet, TakenSet
<1>4. QED
  BY <1>1, <1>2, <1>3, LeafKilled, LeavesStay, SlotTaken, SlotsStay

LEMMA AllocTombHeap ==
  ASSUME NEW t \in Threads, Shapes, AllocTomb(t)
  PROVE  /\ Rooted /\ slot' = slot /\ leaf' = leaf /\ owned' = owned /\ nodes' = nodes
         /\ \/ th'[t].pc = "relook" /\ FreeVers # {} /\ VersWith(FreshVer)
            \/ th'[t].pc = "full" /\ ver' = ver
<1>1. Rooted /\ slot' = slot /\ leaf' = leaf /\ owned' = owned /\ nodes' = nodes
  BY Zenon DEF AllocTomb, Rooted
<1>2. ThreadsOK /\ VersOK
  BY DEF Shapes
<1>3. /\ FreeVers # {}
      /\ \/ th'[t].pc = "relook" /\ ThereSet(FreshVer)
         \/ th'[t].pc = "full" /\ ver' = ver
  BY <1>2, AllocTombDoes, Zenon DEF ThereSet
<1>4. FreshVer \in VerIds
  BY <1>3, FreshVerIn
<1>5. QED
  BY <1>1, <1>2, <1>3, <1>4, VerThere

LEMMA CutHeadHeap ==
  ASSUME NEW t \in Threads, Shapes, CutHead(t)
  PROVE  /\ Rooted /\ slot' = slot /\ owned' = owned /\ nodes' = nodes
         /\ \/ th'[t].pc \in {"relook", "done"} /\ Alike
            \/ /\ th'[t].pc = "retire" /\ LeavesTo(th[t].target, th[t].vnode)
               /\ VersLinked(th[t].vnode, ver[leaf[th[t].target].head].next,
                             th[t].vnode, ver[leaf[th[t].target].head].next)
<1>1. Rooted /\ slot' = slot /\ owned' = owned /\ nodes' = nodes
  BY Zenon DEF CutHead, Rooted
<1>2. ThreadsOK /\ LeavesOK /\ VersOK
  BY DEF Shapes
<1>3. \/ th'[t].pc \in {"relook", "done"} /\ UNCHANGED <<leaf, ver>>
      \/ /\ th'[t].pc = "retire" /\ LeafHeadSet(th[t].target, th[t].vnode)
         /\ HeadCutSet(th[t].vnode, ver[leaf[th[t].target].head].version,
                       ver[leaf[th[t].target].head].next, leaf[th[t].target].head)
  BY <1>2, CutHeadDoes, Zenon DEF LeafHeadSet, HeadCutSet
<1>4. CASE th'[t].pc \in {"relook", "done"} /\ UNCHANGED <<leaf, ver>>
  BY <1>1, <1>4, SMTT(40) DEF Alike
<1>5. CASE /\ th'[t].pc = "retire" /\ LeafHeadSet(th[t].target, th[t].vnode)
           /\ HeadCutSet(th[t].vnode, ver[leaf[th[t].target].head].version,
                         ver[leaf[th[t].target].head].next, leaf[th[t].target].head)
  <2>1. LeavesTo(th[t].target, th[t].vnode)
    BY <1>2, <1>5, LeafHead
  <2>2. VersLinked(th[t].vnode, ver[leaf[th[t].target].head].next,
                   th[t].vnode, ver[leaf[th[t].target].head].next)
    BY <1>2, <1>5, HeadCutVers
  <2>3. QED
    BY <1>1, <1>5, <2>1, <2>2
<1>6. QED
  BY <1>3, <1>4, <1>5

LEMMA KillHeap ==
  ASSUME NEW t \in Threads, Shapes, Controls, Kill(t)
  PROVE  Rooted /\ ver' = ver /\ owned' = owned /\ nodes' = nodes /\ SlotsTo(0) /\ LeavesAs
<1>1. Rooted /\ ver' = ver /\ owned' = owned /\ nodes' = nodes
  BY Zenon DEF Kill, Rooted
<1>2. ThreadsOK /\ SlotsOK /\ LeavesOK /\ ControlOK(th[t])
  BY DEF Shapes, Controls
<1>3. \/ UNCHANGED <<slot, leaf>>
      \/ KilledSet(th[t].target) /\ HeldSet(Key(t), th[t].seen.gen)
  BY <1>2, KillDoes, Zenon DEF KilledSet, HeldSet
<1>4. QED
  BY <1>1, <1>2, <1>3, LeafKilled, LeavesStay, SlotHeld, SlotsStay

LEMMA UnlinkHeap ==
  ASSUME NEW t \in Threads, Shapes, Unlink(t)
  PROVE  Rooted /\ leaf' = leaf /\ ver' = ver /\ owned' = owned /\ nodes' = nodes /\ SlotsTo(0)
<1>1. Rooted /\ leaf' = leaf /\ ver' = ver /\ owned' = owned /\ nodes' = nodes
  BY Zenon DEF Unlink, Rooted, store
<1>2. ThreadsOK /\ SlotsOK
  BY DEF Shapes
<1>3. UnlinkedSet(Key(t), th[t].seen.gen)
  BY <1>2, UnlinkDoes, Zenon DEF UnlinkedSet
<1>4. QED
  BY <1>1, <1>2, <1>3, SlotUnlinked

LEMMA CutVersionHeap ==
  ASSUME NEW t \in Threads, Shapes, CutVersion(t)
  PROVE  /\ Rooted /\ slot' = slot /\ owned' = owned /\ nodes' = nodes
         /\ \/ th'[t].pc \in {"look", "done"} /\ Alike
            \/ /\ th'[t].pc = "retire" /\ CutAt(t) # 0 /\ LeavesTo(th[t].target, CutHeadTo(t))
               /\ VersLinked(CutAfter(t), ver[CutAt(t)].next, CutAfter(t), ver[CutAt(t)].next)
<1>1. Rooted /\ slot' = slot /\ owned' = owned /\ nodes' = nodes
  BY Zenon DEF CutVersion, Rooted
<1>2. ThreadsOK /\ LeavesOK /\ VersOK
  BY DEF Shapes
<1>3. \/ th'[t].pc \in {"look", "done"} /\ UNCHANGED <<leaf, ver>>
      \/ /\ th'[t].pc = "retire" /\ CutAt(t) # 0 /\ LeafHeadSet(th[t].target, CutHeadTo(t))
         /\ VersionCutSet(CutAfter(t), ver[CutAt(t)].next, CutAt(t))
  BY <1>2, CutVersionDoes, Zenon DEF LeafHeadSet, VersionCutSet
<1>4. CASE th'[t].pc \in {"look", "done"} /\ UNCHANGED <<leaf, ver>>
  BY <1>1, <1>4 DEF Alike
<1>5. CASE /\ th'[t].pc = "retire" /\ CutAt(t) # 0 /\ LeafHeadSet(th[t].target, CutHeadTo(t))
           /\ VersionCutSet(CutAfter(t), ver[CutAt(t)].next, CutAt(t))
  <2>1. LeavesTo(th[t].target, CutHeadTo(t))
    BY <1>2, <1>5, LeafHead
  <2>2. VersLinked(CutAfter(t), ver[CutAt(t)].next, CutAfter(t), ver[CutAt(t)].next)
    BY <1>2, <1>5, VersionCutVers
  <2>3. QED
    BY <1>1, <1>5, <2>1, <2>2
<1>6. QED
  BY <1>3, <1>4, <1>5

LEMMA CutPruneHeap ==
  ASSUME NEW t \in Threads, Shapes, CutPrune(t)
  PROVE  /\ Rooted /\ slot' = slot /\ leaf' = leaf /\ owned' = owned /\ nodes' = nodes
         /\ \/ th'[t].pc \in {"done", "choose"} /\ ver' = ver
            \/ th'[t].pc = "retire" /\ VersLinked(th[t].chosen, 0, th[t].chosen, 0)
<1>1. Rooted /\ slot' = slot /\ leaf' = leaf /\ owned' = owned /\ nodes' = nodes
  BY Zenon DEF CutPrune, Rooted
<1>2. ThreadsOK /\ VersOK
  BY DEF Shapes
<1>3. \/ th'[t].pc \in {"done", "choose"} /\ ver' = ver
      \/ th'[t].pc = "retire" /\ TailCutSet(th[t].chosen, CutOff(t))
  BY <1>2, CutPruneDoes, Zenon DEF TailCutSet
<1>4. QED
  BY <1>1, <1>2, <1>3, TailCutVers

LEMMA SwapRootHeap ==
  ASSUME NEW t \in Threads, Shapes, SwapRoot(t)
  PROVE  gen' \in Gens /\ prog' = prog /\ Alike
<1>1. prog' = prog /\ Alike
  BY Zenon DEF SwapRoot, Alike, store
<1>2. gen < Max(Gens) /\ gen' = gen + 1
  BY Zenon DEF SwapRoot
<1>3. gen \in Gens /\ Max(Gens) \in Nat /\ Gens = 0 .. Max(Gens)
  BY ArenaInsertAssumption DEF Shapes
<1>4. gen' \in Gens
  BY <1>2, <1>3
<1>5. QED
  BY <1>1, <1>4

LEMMA SweepHeap ==
  ASSUME NEW t \in Threads, Shapes, Sweep(t)
  PROVE  Rooted /\ ver' = ver /\ owned' = owned /\ nodes' = nodes /\ SlotsTo(0) /\ LeavesAs
<1>1. Rooted /\ ver' = ver /\ owned' = owned /\ nodes' = nodes
  BY Zenon DEF Sweep, Rooted
<1>2. ThreadsOK /\ SlotsOK /\ LeavesOK
  BY DEF Shapes
<1>3. PICK k, l : SlotSweptSet(k, th[t].seen.gen) /\ leaf' = Swept(l)
  BY <1>2, SweepDoes, ZenonT(60) DEF SlotSweptSet
<1>4. QED
  BY <1>1, <1>2, <1>3, LeafSwept, SlotSwept

LEMMA ReshapeHeap ==
  ASSUME NEW k \in Keys, Shapes, Reshape(k)
  PROVE  Rooted /\ leaf' = leaf /\ ver' = ver /\ owned' = owned /\ nodes' = nodes /\ th' = th /\ SlotsTo(0)
<1>1. Rooted /\ leaf' = leaf /\ ver' = ver /\ owned' = owned /\ nodes' = nodes /\ th' = th
  BY Zenon DEF Reshape, Rooted, store
<1>2. PICK n \in prog.needs : ReshapedSet(k, gen, n)
  BY Zenon DEF Reshape, ReshapedSet
<1>3. prog \in Programs /\ SlotsOK
  BY DEF Shapes
<1>4. n \in Needs
  BY <1>2, <1>3, ArenaInsertAssumption DEF Needs
<1>5. QED
  BY <1>1, <1>2, <1>3, <1>4, SlotReshaped

-----------------------------------------------------------------------------
(* Every step keeps the shapes *)

Base == Shapes /\ Controls

HeapShapes == SlotsOK /\ LeavesOK /\ VersOK /\ OwnedOK /\ NodesOK

LEMMA AlikeShapes ==
  ASSUME Shapes
  PROVE  /\ slot' = slot => SlotsOK'
         /\ leaf' = leaf => LeavesOK'
         /\ ver' = ver => VersOK'
         /\ owned' = owned => OwnedOK'
         /\ nodes' = nodes => NodesOK'
BY DEF Shapes, SlotsOK, LeavesOK, VersOK, OwnedOK, NodesOK

LEMMA RootedShapes ==
  ASSUME Shapes, Rooted
  PROVE  prog' \in Programs /\ gen' \in Gens
BY DEF Shapes, Rooted

LEMMA StepHeap ==
  ASSUME NEW t \in Threads, Shapes, Controls, Step(t)
  PROVE  HeapShapes' /\ prog' \in Programs /\ gen' \in Gens
<1>0. /\ SlotsOK /\ LeavesOK /\ VersOK /\ OwnedOK /\ NodesOK
  BY DEF Shapes
<1> USE AlikeShapes, RootedShapes DEF HeapShapes, Alike
<1>1. CASE Reading(t)
  BY <1>1, ReadingHeap
<1>2. CASE Begin(t)
  BY <1>0, <1>2, BeginHeap DEF OwnedTo
<1>3. CASE AllocVersion(t)
  <2>1. Full(t) => OwnedOK' /\ NodesOK'
    BY <1>0, FullHeap DEF OwnedTo, NodesTo
  <2>2. QED
    BY <1>3, <2>1, AllocVersionHeap DEF VersWith
<1>4. CASE ApplyFast(t)
  <2>1. Applied(t, th[t].target) => LeavesOK' /\ VersOK'
    BY <1>0, AppliedVers, AppliedLeaves DEF LeavesTo, VersLinked
  <2>2. QED
    BY <1>4, <2>1, ApplyFastHeap DEF OwnedTo
<1>5. CASE AllocLeaf(t)
  <2>1. Full(t) => OwnedOK' /\ NodesOK'
    BY <1>0, FullHeap DEF OwnedTo, NodesTo
  <2>2. QED
    BY <1>5, <2>1, AllocLeafHeap DEF LeavesWith
<1>6. CASE TryFast(t)
  BY <1>6, TryFastHeap DEF SlotsTo, OwnedTo
<1>7. CASE Attempt(t)
  BY <1>7, AttemptHeap DEF NodesTo
<1>8. CASE Prepare(t)
  <2>1. Full(t) => OwnedOK' /\ NodesOK'
    BY <1>0, FullHeap DEF OwnedTo, NodesTo
  <2>2. \/ nodes' = nodes /\ owned' = owned
        \/ MadeSet({FreshNode}) /\ owned' = owned
        \/ Full(t)
    BY <1>8, PrepareDoes, Zenon DEF MadeSet, Shapes
  <2>3. OwnedOK' /\ NodesOK'
    BY <1>0, <2>1, <2>2, NodesMade DEF NodesTo
  <2>4. QED
    BY <1>8, <2>3, PrepareHeap
<1>9. CASE CommitInsert(t)
  BY <1>9, CommitInsertHeap DEF SlotsTo, LeavesAs, OwnedTo, NodesTo
<1>10. CASE ApplyExisting(t)
  <2>1. Applied(t, th[t].target) => LeavesOK' /\ VersOK'
    BY <1>0, AppliedVers, AppliedLeaves DEF LeavesTo, VersLinked
  <2>2. QED
    BY <1>10, <2>1, ApplyExistingHeap DEF OwnedTo
<1>11. CASE TakeLeaf(t)
  BY <1>11, TakeLeafHeap DEF SlotsTo, LeavesAs
<1>12. CASE AllocTomb(t)
  BY <1>12, AllocTombHeap DEF VersWith
<1>13. CASE CutHead(t)
  BY <1>13, CutHeadHeap DEF LeavesTo, VersLinked
<1>14. CASE Kill(t)
  BY <1>14, KillHeap DEF SlotsTo, LeavesAs
<1>15. CASE Unlink(t)
  BY <1>15, UnlinkHeap DEF SlotsTo
<1>16. CASE CutVersion(t)
  BY <1>16, CutVersionHeap DEF LeavesTo, VersLinked
<1>17. CASE CutPrune(t)
  BY <1>17, CutPruneHeap DEF VersLinked
<1>18. CASE SwapRoot(t)
  BY <1>18, SwapRootHeap DEF Shapes
<1>19. CASE Sweep(t)
  BY <1>19, SweepHeap DEF SlotsTo, LeavesAs
<1>20. QED
  BY <1>1, <1>2, <1>3, <1>4, <1>5, <1>6, <1>7, <1>8, <1>9, <1>10, <1>11, <1>12, <1>13, <1>14, <1>15,
     <1>16, <1>17, <1>18, <1>19, Zenon DEF Step, Reading

LEMMA InitBase == Init => Base
<1> SUFFICES ASSUME Init PROVE Base
  OBVIOUS
<1>1. ThreadsOK /\ Controls
  <2>1. th = [t \in Threads |-> IdleThread]
    BY Zenon DEF Init
  <2>2. ThreadShape(IdleThread) /\ IdleThread.at = 0 /\ IdleThread.pc = "idle" /\ IdleThread.pool = <<>>
        /\ IdleThread.wants = <<>>
    BY DEF IdleThread, ThreadShape
  <2>3. 0 \in 0 .. MaxCalls /\ <<>> \in Seq(Entries) /\ <<>> \in Seq(NodeTypes)
    BY ArenaInsertAssumption
  <2>4. ThreadOK(IdleThread)
    BY <2>2, <2>3 DEF ThreadOK
  <2>5. ControlOK(IdleThread)
    BY <2>2 DEF ControlOK, HeldPcs, OwnPcs, TargetPcs
  <2>6. ASSUME NEW t \in Threads PROVE th[t] = IdleThread
    BY <2>1
  <2>7. th = [t \in Threads |-> th[t]]
    BY <2>1
  <2>8. QED
    BY <2>4, <2>5, <2>6, <2>7, Zenon DEF ThreadsOK, Controls
<1>2. prog \in Programs /\ gen \in Gens
  <2>1. prog \in Programs /\ gen = 0
    BY Zenon DEF Init
  <2>2. QED
    BY <2>1, ArenaInsertAssumption
<1>3. SlotsOK
  <2>1. PICK s : s = [leaf |-> 0, ver |-> 0, need |-> <<>>, held |-> FALSE, obsolete |-> FALSE]
    OBVIOUS
  <2>2. slot = [k \in Keys |-> [g \in Gens |-> s]]
    BY <2>1, Zenon DEF Init
  <2>3. CellShape(s) /\ s.need = <<>>
    BY <2>1 DEF CellShape
  <2>4. QED
    BY <2>2, <2>3, EmptyNeed DEF SlotsOK
<1>4. LeavesOK
  <2>1. PICK s : s = [key |-> None, value |-> None, head |-> 0, dead |-> FALSE]
    OBVIOUS
  <2>2. leaf = [l \in LeafIds |-> s]
    BY <2>1, Zenon DEF Init
  <2>3. LeafShape(s)
    BY <2>1 DEF LeafShape
  <2>4. QED
    BY <2>2, <2>3 DEF LeavesOK
<1>5. VersOK
  <2>1. PICK s : s = [there |-> FALSE, value |-> None, version |-> 0, next |-> 0, superseded |-> FALSE]
    OBVIOUS
  <2>2. ver = [v \in VerIds |-> s]
    BY <2>1, Zenon DEF Init
  <2>3. VerShape(s)
    BY <2>1 DEF VerShape
  <2>4. QED
    BY <2>2, <2>3 DEF VersOK
<1>6. OwnedOK /\ NodesOK
  <2>1. /\ owned = [drops |-> [o \in Objects |-> 0], given |-> {}, back |-> {}, published |-> {}, over |-> FALSE]
        /\ nodes = [made |-> {}, linked |-> {}, freed |-> {}]
    BY Zenon DEF Init
  <2>2. QED
    BY <2>1 DEF OwnedOK, OwnedShape, NodesOK, NodesShape
<1>7. QED
  BY <1>1, <1>2, <1>3, <1>4, <1>5, <1>6 DEF Base, Shapes

LEMMA ThreadsStay ==
  ASSUME ThreadsOK, Controls, th' = th
  PROVE  ThreadsOK' /\ Controls'
BY DEF ThreadsOK, Controls

LEMMA BaseKept == Base /\ [Next]_vars => Base'
<1> SUFFICES ASSUME Base, [Next]_vars PROVE Base'
  OBVIOUS
<1>0. Shapes /\ Controls /\ ThreadsOK /\ OwnedOK
  BY DEF Base, Shapes
<1>1. ASSUME NEW t \in Threads, Step(t) PROVE Base'
  BY <1>0, <1>1, StepThreads, StepHeap DEF Base, Shapes, HeapShapes
<1>2. ASSUME NEW k \in Keys, Reshape(k) PROVE Base'
  <2>1. /\ Rooted /\ leaf' = leaf /\ ver' = ver /\ owned' = owned /\ nodes' = nodes /\ th' = th /\ SlotsOK'
    BY <1>0, <1>2, ReshapeHeap DEF SlotsTo
  <2>2. QED
    BY <1>0, <2>1, AlikeShapes, RootedShapes, ThreadsStay DEF Base, Shapes
<1>3. CASE DropMap
  <2>1. Rooted /\ slot' = slot /\ leaf' = leaf /\ ver' = ver /\ nodes' = nodes /\ th' = th
    BY <1>3, Zenon DEF DropMap, Rooted, store
  <2>2. OwnedOK'
    BY <1>0, <1>3, OwnedOver
  <2>3. QED
    BY <1>0, <2>1, <2>2, AlikeShapes, RootedShapes, ThreadsStay DEF Base, Shapes
<1>4. CASE UNCHANGED vars
  <2>1. Rooted /\ slot' = slot /\ leaf' = leaf /\ ver' = ver /\ owned' = owned /\ nodes' = nodes /\ th' = th
    BY <1>4, Zenon DEF vars, Rooted
  <2>2. QED
    BY <1>0, <2>1, AlikeShapes, RootedShapes, ThreadsStay DEF Base, Shapes
<1>5. QED
  BY <1>1, <1>2, <1>3, <1>4, Zenon DEF Next, Over

LEMMA BaseAlways == Spec => []Base
BY InitBase, BaseKept, PTL DEF Spec

-----------------------------------------------------------------------------
(* How many nodes of a type *)

LEMMA PartsFinite ==
  ASSUME NEW A, NEW s \in Seq(A), NEW T \in SUBSET DOMAIN s
  PROVE  IsFiniteSet(T) /\ Cardinality(T) \in Nat
<1>1. DOMAIN s = 1 .. Len(s) /\ Len(s) \in Nat
  OBVIOUS
<1>2. IsFiniteSet(1 .. Len(s))
  BY <1>1, FS_Interval
<1>3. T \in SUBSET (1 .. Len(s))
  BY <1>1
<1>4. IsFiniteSet(T)
  BY <1>2, <1>3, FS_Subset
<1>5. QED
  BY <1>4, FS_CardinalityType

LEMMA CountsFinite ==
  ASSUME NEW pool \in Seq(Entries), NEW type
  PROVE  /\ IsFiniteSet(InPool(pool, type)) /\ Counted(pool, type) \in Nat
         /\ IsFiniteSet(UsedOf(pool, type)) /\ Cardinality(UsedOf(pool, type)) \in Nat
<1>1. InPool(pool, type) \in SUBSET DOMAIN pool /\ UsedOf(pool, type) \in SUBSET DOMAIN pool
  BY DEF InPool, UsedOf
<1>2. QED
  BY <1>1, PartsFinite DEF Counted

LEMMA WantsFinite ==
  ASSUME NEW w \in Seq(NodeTypes), NEW type
  PROVE  IsFiniteSet(OfType(w, type)) /\ Cardinality(OfType(w, type)) \in Nat
<1>1. OfType(w, type) \in SUBSET DOMAIN w
  BY DEF OfType
<1>2. QED
  BY <1>1, PartsFinite

LEMMA TailCount ==
  ASSUME NEW w \in Seq(NodeTypes), w # <<>>, NEW type
  PROVE  Cardinality(OfType(w, type))
           = IF Head(w) = type THEN Cardinality(OfType(Tail(w), type)) + 1
             ELSE Cardinality(OfType(Tail(w), type))
<1> DEFINE S == OfType(Tail(w), type)
           T == OfType(w, type) \ {1}
           f == [i \in S |-> i + 1]
<1>1. /\ Tail(w) \in Seq(NodeTypes) /\ Len(w) \in Nat /\ Len(w) # 0 /\ DOMAIN w = 1 .. Len(w)
      /\ DOMAIN Tail(w) = 1 .. Len(w) - 1 /\ Head(w) = w[1]
  OBVIOUS
<1>2. ASSUME NEW i \in 1 .. Len(w) - 1 PROVE Tail(w)[i] = w[i + 1]
  OBVIOUS
<1>3. ASSUME NEW i \in S PROVE i \in 1 .. Len(w) - 1 /\ i + 1 \in T
  BY <1>1, <1>2 DEF OfType
<1>4. ASSUME NEW j \in T PROVE \E i \in S : i + 1 = j
  <2>1. j \in 1 .. Len(w) /\ j # 1 /\ w[j] = type
    BY <1>1 DEF OfType
  <2>2. j - 1 \in 1 .. Len(w) - 1 /\ (j - 1) + 1 = j
    BY <1>1, <2>1
  <2>3. Tail(w)[j - 1] = type
    BY <1>2, <2>1, <2>2
  <2>4. j - 1 \in S
    BY <1>1, <2>2, <2>3 DEF OfType
  <2>5. QED
    BY <2>2, <2>4
<1>5. ExistsBijection(S, T)
  <2>1. f \in [S -> T]
    BY <1>3
  <2>2. ASSUME NEW a \in S, NEW b \in S, f[a] = f[b] PROVE a = b
    <3>1. a \in Int /\ b \in Int
      BY <1>3
    <3>2. f[a] = a + 1 /\ f[b] = b + 1
      OBVIOUS
    <3>3. QED
      BY <2>2, <3>1, <3>2
  <2>3. ASSUME NEW j \in T PROVE \E i \in S : f[i] = j
    BY <1>4
  <2>4. f \in Injection(S, T)
    BY <2>1, <2>2 DEF Injection, IsInjective
  <2>5. f \in Surjection(S, T)
    BY <2>1, <2>3 DEF Surjection
  <2> HIDE DEF f
  <2>6. QED
    BY <2>4, <2>5 DEF ExistsBijection, Bijection
<1>6. IsFiniteSet(S) /\ IsFiniteSet(OfType(w, type)) /\ Cardinality(OfType(w, type)) \in Nat
  BY <1>1, WantsFinite
<1>7. Cardinality(T) = Cardinality(S)
  <2> HIDE DEF S, T
  <2>1. QED
    BY <1>5, <1>6, FS_Bijection
<1>8. Cardinality(T) = IF 1 \in OfType(w, type) THEN Cardinality(OfType(w, type)) - 1
                       ELSE Cardinality(OfType(w, type))
  BY <1>6, FS_RemoveElement
<1>9. 1 \in OfType(w, type) <=> Head(w) = type
  BY <1>1 DEF OfType
<1>10. QED
  BY <1>6, <1>7, <1>8, <1>9

LEMMA ResetCounts ==
  ASSUME NEW pool \in Seq(Entries), NEW type
  PROVE  Counted(Reset(pool), type) = Counted(pool, type) /\ Cardinality(UsedOf(Reset(pool), type)) = 0
<1>1. InPool(Reset(pool), type) = InPool(pool, type)
  BY ResetPool DEF InPool
<1>2. UsedOf(Reset(pool), type) = {}
  BY ResetPool DEF UsedOf
<1>3. QED
  BY <1>1, <1>2, FS_EmptySet DEF Counted

LEMMA PickCounts ==
  ASSUME NEW pool \in Seq(Entries), NEW type \in NodeTypes, Spare(pool, type) # {}, NEW other
  PROVE  /\ Counted(PickSpare(pool, type), other) = Counted(pool, other)
         /\ Cardinality(UsedOf(PickSpare(pool, type), other))
              = IF other = type THEN Cardinality(UsedOf(pool, other)) + 1 ELSE Cardinality(UsedOf(pool, other))
<1>1. PICK p : p = PickSpare(pool, type)
  OBVIOUS
<1>2. PICK m \in DOMAIN pool :
        /\ ~pool[m].used /\ pool[m].type = type /\ DOMAIN p = DOMAIN pool
        /\ \A i \in DOMAIN pool : p[i].type = pool[i].type /\ p[i].used = (i = m \/ pool[i].used)
  BY <1>1, SparePicked
<1>3. InPool(p, other) = InPool(pool, other)
  BY <1>2 DEF InPool
<1>4. CASE other = type
  <2>1. UsedOf(p, other) = UsedOf(pool, other) \cup {m} /\ m \notin UsedOf(pool, other)
    BY <1>2, <1>4 DEF UsedOf
  <2>2. Cardinality(UsedOf(p, other)) = Cardinality(UsedOf(pool, other)) + 1
    BY <2>1, CountsFinite, FS_AddElement
  <2>3. QED
    BY <1>1, <1>3, <1>4, <2>2 DEF Counted
<1>5. CASE other # type
  <2>1. UsedOf(p, other) = UsedOf(pool, other)
    BY <1>2, <1>5 DEF UsedOf
  <2>2. QED
    BY <1>1, <1>3, <1>5, <2>1 DEF Counted
<1>6. QED
  BY <1>4, <1>5

LEMMA AddCounts ==
  ASSUME NEW pool \in Seq(Entries), NEW type \in NodeTypes, NEW n \in NodeIds, NEW other
  PROVE  /\ Counted(AddNode(pool, n, type), other)
              = IF other = type THEN Counted(pool, other) + 1 ELSE Counted(pool, other)
         /\ Cardinality(UsedOf(AddNode(pool, n, type), other))
              = IF other = type THEN Cardinality(UsedOf(pool, other)) + 1 ELSE Cardinality(UsedOf(pool, other))
<1>1. PICK p, m : p = AddNode(pool, n, type) /\ m = Len(pool) + 1
  OBVIOUS
<1>2. /\ m \notin DOMAIN pool /\ DOMAIN p = DOMAIN pool \cup {m} /\ p[m].type = type /\ p[m].used = TRUE
      /\ \A i \in DOMAIN pool : p[i] = pool[i]
  <2>1. Len(pool) \in Nat /\ DOMAIN pool = 1 .. Len(pool) /\ DOMAIN p = 1 .. Len(pool) + 1
    BY <1>1, NodeAdded
  <2>2. m \notin DOMAIN pool /\ DOMAIN p = DOMAIN pool \cup {m}
    BY <1>1, <2>1
  <2>3. p[m] = Entry(n, type, TRUE) /\ \A i \in DOMAIN pool : p[i] = pool[i]
    BY <1>1, NodeAdded
  <2>4. QED
    BY <2>2, <2>3 DEF Entry
<1>3. CASE other = type
  <2>1. /\ InPool(p, other) = InPool(pool, other) \cup {m} /\ m \notin InPool(pool, other)
        /\ UsedOf(p, other) = UsedOf(pool, other) \cup {m} /\ m \notin UsedOf(pool, other)
    BY <1>2, <1>3 DEF InPool, UsedOf
  <2>2. Cardinality(InPool(p, other)) = Cardinality(InPool(pool, other)) + 1
    BY <2>1, CountsFinite, FS_AddElement
  <2>3. Cardinality(UsedOf(p, other)) = Cardinality(UsedOf(pool, other)) + 1
    BY <2>1, CountsFinite, FS_AddElement
  <2>4. QED
    BY <1>1, <1>3, <2>2, <2>3 DEF Counted
<1>4. CASE other # type
  <2>1. InPool(p, other) = InPool(pool, other) /\ UsedOf(p, other) = UsedOf(pool, other)
    BY <1>2, <1>4 DEF InPool, UsedOf
  <2>2. QED
    BY <1>1, <1>4, <2>1 DEF Counted
<1>5. QED
  BY <1>3, <1>4

LEMMA AllInUse ==
  ASSUME NEW pool \in Seq(Entries), NEW type \in NodeTypes, Spare(pool, type) = {}
  PROVE  Counted(pool, type) = Cardinality(UsedOf(pool, type))
<1>1. InPool(pool, type) = UsedOf(pool, type)
  BY DEF InPool, UsedOf, Spare
<1>2. QED
  BY <1>1 DEF Counted

-----------------------------------------------------------------------------
(* One insert stays within max_insert_bytes *)

LEMMA ProductBound ==
  ASSUME NEW a \in Nat, NEW b \in Nat, NEW c \in Nat, a <= b
  PROVE  a * c <= b * c
<1>1. PICK d \in Nat : b = a + d
  <2>1. b - a \in Nat /\ b = a + (b - a)
    OBVIOUS
  <2>2. QED
    BY <2>1
<1>2. b * c = a * c + d * c
  BY <1>1
<1>3. a * c \in Nat /\ d * c \in Nat
  BY <1>1
<1>4. QED
  BY <1>2, <1>3

LEMMA Sizes ==
  /\ Size["leaf"] \in Nat /\ Size["n4"] \in Nat /\ Size["n16"] \in Nat /\ Size["n48"] \in Nat
  /\ Size["n256"] \in Nat /\ Node4s \in Nat
BY ArenaInsertAssumption DEF NodeTypes

LEMMA MostNat ==
  ASSUME NEW type
  PROVE  Most(type) \in Nat
BY ArenaInsertAssumption DEF Most

\* A pool that holds no more than one attempt needs.
LEMMA SpentBound ==
  ASSUME NEW pool \in Seq(Entries), \A type \in NodeTypes : Counted(pool, type) <= Most(type)
  PROVE  Size["leaf"] + Spent(pool) <= MaxInsertBytes
<1>1. PICK a, b, c, d : /\ a = Counted(pool, "n4") /\ b = Counted(pool, "n16")
                        /\ c = Counted(pool, "n48") /\ d = Counted(pool, "n256")
  OBVIOUS
<1>2. a \in Nat /\ b \in Nat /\ c \in Nat /\ d \in Nat
  BY <1>1, CountsFinite
<1>3. a <= Node4s /\ b <= 1 /\ c <= 1 /\ d <= 1
  BY <1>1 DEF NodeTypes, Most
<1>4. PICK sa, sb, sc, sd : sa = Size["n4"] /\ sb = Size["n16"] /\ sc = Size["n48"] /\ sd = Size["n256"]
  OBVIOUS
<1>5. sa \in Nat /\ sb \in Nat /\ sc \in Nat /\ sd \in Nat /\ Size["leaf"] \in Nat /\ Node4s \in Nat
  BY <1>4, Sizes
<1>6. a * sa <= Node4s * sa /\ b * sb <= 1 * sb /\ c * sc <= 1 * sc /\ d * sd <= 1 * sd
  BY <1>2, <1>3, <1>5, ProductBound
<1>7. PICK pa, pb, pc, pd, qa : pa = a * sa /\ pb = b * sb /\ pc = c * sc /\ pd = d * sd /\ qa = Node4s * sa
  OBVIOUS
<1>8. pa \in Nat /\ pb \in Nat /\ pc \in Nat /\ pd \in Nat /\ qa \in Nat
  BY <1>2, <1>5, <1>7
<1>9. Spent(pool) = pa + pb + pc + pd
  BY <1>1, <1>4, <1>7, Zenon DEF Spent
<1>10. MaxInsertBytes = Size["leaf"] + qa + sb + sc + sd
  BY <1>4, <1>7, Zenon DEF MaxInsertBytes
<1>11. pa <= qa /\ pb <= sb /\ pc <= sc /\ pd <= sd
  BY <1>5, <1>6, <1>7
<1>12. QED
  BY <1>5, <1>8, <1>9, <1>10, <1>11

LEMMA SpentNat ==
  ASSUME NEW pool \in Seq(Entries)
  PROVE  Spent(pool) \in Nat
<1>1. PICK a, b, c, d : /\ a = Counted(pool, "n4") /\ b = Counted(pool, "n16")
                        /\ c = Counted(pool, "n48") /\ d = Counted(pool, "n256")
  OBVIOUS
<1>2. a \in Nat /\ b \in Nat /\ c \in Nat /\ d \in Nat
  BY <1>1, CountsFinite
<1>3. PICK sa, sb, sc, sd : sa = Size["n4"] /\ sb = Size["n16"] /\ sc = Size["n48"] /\ sd = Size["n256"]
  OBVIOUS
<1>4. sa \in Nat /\ sb \in Nat /\ sc \in Nat /\ sd \in Nat
  BY <1>3, Sizes
<1>5. Spent(pool) = a * sa + b * sb + c * sc + d * sd
  BY <1>1, <1>3, Zenon DEF Spent
<1>6. a * sa \in Nat /\ b * sb \in Nat /\ c * sc \in Nat /\ d * sd \in Nat
  BY <1>2, <1>4
<1>7. QED
  BY <1>5, <1>6

LEMMA SpentSame ==
  ASSUME NEW pool, NEW p, \A type \in NodeTypes : Counted(p, type) = Counted(pool, type)
  PROVE  Spent(p) = Spent(pool)
<1>1. /\ Counted(p, "n4") = Counted(pool, "n4") /\ Counted(p, "n16") = Counted(pool, "n16")
      /\ Counted(p, "n48") = Counted(pool, "n48") /\ Counted(p, "n256") = Counted(pool, "n256")
  BY DEF NodeTypes
<1>2. QED
  BY <1>1, Zenon DEF Spent

\* A node more costs its size more.
LEMMA SpentMore ==
  ASSUME NEW pool \in Seq(Entries), NEW type \in NodeTypes, NEW n \in NodeIds
  PROVE  Spent(AddNode(pool, n, type)) = Spent(pool) + Size[type]
<1>1. PICK p : p = AddNode(pool, n, type)
  OBVIOUS
<1>2. PICK a, b, c, d : /\ a = Counted(pool, "n4") /\ b = Counted(pool, "n16")
                        /\ c = Counted(pool, "n48") /\ d = Counted(pool, "n256")
  OBVIOUS
<1>3. a \in Nat /\ b \in Nat /\ c \in Nat /\ d \in Nat
  BY <1>2, CountsFinite
<1>4. PICK sa, sb, sc, sd : sa = Size["n4"] /\ sb = Size["n16"] /\ sc = Size["n48"] /\ sd = Size["n256"]
  OBVIOUS
<1>5. sa \in Nat /\ sb \in Nat /\ sc \in Nat /\ sd \in Nat
  BY <1>4, Sizes
<1>6. Spent(pool) = a * sa + b * sb + c * sc + d * sd
  BY <1>2, <1>4, Zenon DEF Spent
<1>7. ASSUME NEW other PROVE Counted(p, other) = IF other = type THEN Counted(pool, other) + 1 ELSE Counted(pool, other)
  BY <1>1, AddCounts
<1>8. PICK a1, b1, c1, d1 : /\ a1 = Counted(p, "n4") /\ b1 = Counted(p, "n16")
                            /\ c1 = Counted(p, "n48") /\ d1 = Counted(p, "n256")
  OBVIOUS
<1>9. Spent(p) = a1 * sa + b1 * sb + c1 * sc + d1 * sd
  BY <1>4, <1>8, Zenon DEF Spent
<1>10. /\ a1 = IF type = "n4" THEN a + 1 ELSE a
       /\ b1 = IF type = "n16" THEN b + 1 ELSE b
       /\ c1 = IF type = "n48" THEN c + 1 ELSE c
       /\ d1 = IF type = "n256" THEN d + 1 ELSE d
  BY <1>2, <1>7, <1>8
<1>11. CASE type = "n4"
  <2>1. Spent(p) = (a + 1) * sa + b * sb + c * sc + d * sd
    BY <1>9, <1>10, <1>11
  <2>2. Size[type] = sa
    BY <1>4, <1>11
  <2>3. QED
    BY <1>1, <1>3, <1>5, <1>6, <2>1, <2>2
<1>12. CASE type = "n16"
  <2>1. Spent(p) = a * sa + (b + 1) * sb + c * sc + d * sd
    BY <1>9, <1>10, <1>12
  <2>2. Size[type] = sb
    BY <1>4, <1>12
  <2>3. QED
    BY <1>1, <1>3, <1>5, <1>6, <2>1, <2>2
<1>13. CASE type = "n48"
  <2>1. Spent(p) = a * sa + b * sb + (c + 1) * sc + d * sd
    BY <1>9, <1>10, <1>13
  <2>2. Size[type] = sc
    BY <1>4, <1>13
  <2>3. QED
    BY <1>1, <1>3, <1>5, <1>6, <2>1, <2>2
<1>14. CASE type = "n256"
  <2>1. Spent(p) = a * sa + b * sb + c * sc + (d + 1) * sd
    BY <1>9, <1>10, <1>14
  <2>2. Size[type] = sd
    BY <1>4, <1>14
  <2>3. QED
    BY <1>1, <1>3, <1>5, <1>6, <2>1, <2>2
<1>15. QED
  BY <1>11, <1>12, <1>13, <1>14 DEF NodeTypes

\* A thread that goes on with a put.
Putting(t) == th'[t].pc # "idle" /\ th'[t].call.op = "put"

LEMMA BudgetStep ==
  ASSUME NEW t \in Threads, BudgetInv, Alone(t), Putting(t) => Within(th'[t])
  PROVE  BudgetInv'
<1>1. ASSUME NEW u \in Threads, th'[u].pc # "idle", th'[u].call.op = "put" PROVE Within(th'[u])
  <2>1. CASE u = t
    BY <1>1, <2>1 DEF Putting
  <2>2. CASE u # t
    BY <1>1, <2>2 DEF Alone, BudgetInv, Busy
  <2>3. QED
    BY <2>1, <2>2
<1>2. QED
  BY <1>1 DEF BudgetInv, Busy

\* The steps of other operations are none of a put.
LEMMA BudgetElsewhere ==
  ASSUME NEW t \in Threads, BudgetInv, Alone(t), SameCall(t), th[t].pc \notin PutPcs \cup {"idle"}
  PROVE  BudgetInv'
<1>1. ASSUME Putting(t) PROVE FALSE
  <2>1. th[t].call.op = "put" /\ Busy(t)
    BY <1>1 DEF Putting, SameCall, Busy
  <2>2. Within(th[t])
    BY <2>1 DEF BudgetInv
  <2>3. QED
    BY <2>2 DEF Within
<1>2. QED
  BY <1>1, BudgetStep

LEMMA StepBudget ==
  ASSUME NEW t \in Threads, Base, BudgetInv, Step(t)
  PROVE  BudgetInv'
<1>1. Shapes /\ ThreadsOK /\ ThreadOK(th[t]) /\ ControlOK(th[t])
  BY DEF Base, Shapes, ThreadsOK, Controls
<1>2. th[t].pool \in Seq(Entries) /\ th[t].wants \in Seq(NodeTypes)
  BY <1>1 DEF ThreadOK
<1>3. /\ MaxInsertBytes \in Nat /\ Size["leaf"] \in Nat /\ Size["leaf"] <= MaxInsertBytes
  <2>1. Node4s * Size["n4"] \in Nat
    BY Sizes
  <2>2. PICK q : q = Node4s * Size["n4"]
    OBVIOUS
  <2>3. MaxInsertBytes = Size["leaf"] + q + Size["n16"] + Size["n48"] + Size["n256"]
    BY <2>2, Zenon DEF MaxInsertBytes
  <2>4. QED
    BY <2>1, <2>2, <2>3, Sizes
<1>4. ASSUME SameCall(t), th[t].pc # "idle", Putting(t) PROVE Within(th[t]) /\ th[t].call.op = "put"
  BY <1>4 DEF Putting, SameCall, BudgetInv, Busy
<1>5. CASE Begin(t)
  <2>1. PICK c \in AnyCall : Fresh(t, th[t].at + 1, c, FirstPc(c))
    BY <1>1, <1>5, BeginDoes
  <2>2. Alone(t) /\ th'[t].call = c /\ th'[t].pc = FirstPc(c) /\ th'[t].sweep = {} /\ th'[t].bytes = 0
    BY <2>1, Zenon DEF Fresh
  <2>3. c.op = "put" => FirstPc(c) = "leaf"
    BY DEF FirstPc
  <2>4. Putting(t) => Within(th'[t])
    BY <2>2, <2>3 DEF Putting, Within, PutPcs
  <2>5. QED
    BY <2>2, <2>4, BudgetStep
<1>6. CASE Return(t)
  <2>1. Alone(t) /\ th'[t].pc = "idle"
    BY <1>1, <1>6, ReturnDoes DEF Fresh
  <2>2. QED
    BY <2>1, BudgetStep DEF Putting
<1>7. CASE AllocLeaf(t)
  <2>1. /\ th[t].pc = "leaf" /\ Alone(t) /\ SameCall(t) /\ th'[t].sweep = th[t].sweep
        /\ \/ th'[t].bytes = th[t].bytes + Size["leaf"] /\ th'[t].pc \in {"fast", "call"}
           \/ th'[t].pc = "full" /\ th'[t].bytes = th[t].bytes
    BY <1>1, <1>7, AllocLeafDoes DEF SameSweep
  <2>2. ASSUME Putting(t) PROVE Within(th'[t])
    <3>1. th[t].bytes = 0 /\ th[t].sweep = {}
      BY <1>4, <2>1, <2>2 DEF Within
    <3>2. QED
      BY <1>3, <2>1, <3>1 DEF Within, PutPcs
  <2>3. QED
    BY <2>1, <2>2, BudgetStep
<1>8. CASE TryFast(t)
  <2>1. /\ th[t].pc = "fast" /\ Alone(t) /\ SameCall(t) /\ th'[t].sweep = th[t].sweep
        /\ th'[t].bytes = th[t].bytes /\ th'[t].pc \in {"done", "call"}
    BY <1>1, <1>8, TryFastDoes DEF Moves, SameSweep, SamePool
  <2>2. ASSUME Putting(t) PROVE Within(th'[t])
    <3>1. th[t].bytes = Size["leaf"] /\ th[t].sweep = {}
      BY <1>4, <2>1, <2>2 DEF Within
    <3>2. QED
      BY <1>3, <2>1, <3>1 DEF Within, PutPcs
  <2>3. QED
    BY <2>1, <2>2, BudgetStep
<1>9. CASE CallInsert(t)
  <2>1. /\ th[t].pc = "call" /\ Alone(t) /\ SameCall(t) /\ th'[t].sweep = th[t].sweep
        /\ th'[t].bytes = th[t].bytes /\ th'[t].pc = "attempt" /\ th'[t].pool = <<>>
    BY <1>1, <1>9, CallInsertDoes DEF SameSweep
  <2>2. ASSUME Putting(t) PROVE Within(th'[t])
    <3>1. th[t].bytes = Size["leaf"] /\ th[t].sweep = {}
      BY <1>4, <2>1, <2>2 DEF Within
    <3>2. ASSUME NEW type PROVE Counted(<<>>, type) = 0
      <4>1. InPool(<<>>, type) = {}
        BY DEF InPool
      <4>2. QED
        BY <4>1, FS_EmptySet DEF Counted
    <3>3. Spent(<<>>) = 0
      BY <3>2, Sizes DEF Spent
    <3>4. \A type \in NodeTypes : Counted(<<>>, type) <= Most(type)
      BY <3>2, MostNat
    <3>5. Size["leaf"] = Size["leaf"] + Spent(<<>>)
      BY <1>3, <3>3
    <3>6. QED
      BY <2>1, <3>1, <3>4, <3>5 DEF Within, PutPcs
  <2>3. QED
    BY <2>1, <2>2, BudgetStep
<1>10. CASE Attempt(t)
  <2>1. /\ th[t].pc = "attempt" /\ Alone(t) /\ SameCall(t) /\ th'[t].sweep = th[t].sweep
        /\ th'[t].bytes = th[t].bytes
        /\ th[t].call.op = "put" => th'[t].pc = "prepare" /\ th'[t].pool = Reset(th[t].pool)
    BY <1>1, <1>10, AttemptDoes DEF SameSweep
  <2>2. th'[t].wants \in Needs
    <3>1. gen \in Gens /\ SlotsOK /\ th[t].call \in AnyCall
      BY <1>1, <2>1 DEF Shapes, ThreadOK
    <3>2. Key(t) \in Keys
      BY <3>1 DEF Key, AnyCall
    <3>3. Here(t).need \in Needs
      BY <3>1, <3>2 DEF SlotsOK, Here
    <3>4. th'[t].wants = Here(t).need \/ th'[t].wants = <<>>
      BY <1>1, <1>10, AttemptDoes
    <3>5. QED
      BY <3>3, <3>4, EmptyNeed
  <2>3. ASSUME Putting(t) PROVE Within(th'[t])
    <3>1. /\ th[t].bytes = Size["leaf"] + Spent(th[t].pool) /\ th[t].sweep = {} /\ th[t].call.op = "put"
          /\ \A type \in NodeTypes : Counted(th[t].pool, type) <= Most(type)
      BY <1>4, <2>1, <2>3 DEF Within
    <3>2. PICK p : p = Reset(th[t].pool)
      OBVIOUS
    <3>3. \A type \in NodeTypes : Counted(p, type) = Counted(th[t].pool, type) /\ Cardinality(UsedOf(p, type)) = 0
      BY <1>2, <3>2, ResetCounts
    <3>4. Spent(p) = Spent(th[t].pool)
      BY <3>3, SpentSame
    <3>5. ASSUME NEW type \in NodeTypes
          PROVE  Cardinality(UsedOf(p, type)) + Cardinality(OfType(th'[t].wants, type)) <= Most(type)
      <4>1. Cardinality(OfType(th'[t].wants, type)) <= Most(type) /\ th'[t].wants \in Seq(NodeTypes)
        BY <2>2 DEF Needs
      <4>2. Cardinality(OfType(th'[t].wants, type)) \in Nat
        BY <4>1, WantsFinite
      <4>3. Cardinality(UsedOf(p, type)) = 0
        BY <3>3
      <4>4. QED
        BY <4>1, <4>2, <4>3, MostNat
    <3>6. th'[t].pc = "prepare" /\ th'[t].pool = p
      BY <2>1, <3>1, <3>2
    <3>7. QED
      BY <2>1, <3>1, <3>3, <3>4, <3>5, <3>6 DEF Within, PutPcs
  <2>4. QED
    BY <2>1, <2>3, BudgetStep
<1>11. CASE Prepare(t)
  <2>1. th[t].pc = "prepare" /\ th[t].wants # <<>> /\ Alone(t) /\ SameCall(t) /\ th'[t].sweep = th[t].sweep
    BY <1>1, <1>11, PrepareDoes DEF SameSweep
  <2>2. PICK type \in NodeTypes : type = Head(th[t].wants)
    BY <1>2, <2>1
  <2>3. PICK pool, w : pool = th[t].pool /\ w = th[t].wants
    OBVIOUS
  <2>4. pool \in Seq(Entries) /\ w \in Seq(NodeTypes) /\ w # <<>> /\ type = Head(w)
    BY <1>2, <2>1, <2>2, <2>3
  <2>5. ASSUME Putting(t) PROVE Within(th'[t])
    <3>1. /\ th[t].bytes = Size["leaf"] + Spent(pool) /\ th[t].sweep = {}
          /\ \A other \in NodeTypes : Counted(pool, other) <= Most(other)
          /\ \A other \in NodeTypes :
               Cardinality(UsedOf(pool, other)) + Cardinality(OfType(w, other)) <= Most(other)
      BY <1>4, <2>1, <2>3, <2>5 DEF Within
    <3>2. \A other \in NodeTypes :
            /\ Cardinality(OfType(w, other)) = IF other = type THEN Cardinality(OfType(Tail(w), other)) + 1
                                               ELSE Cardinality(OfType(Tail(w), other))
            /\ Cardinality(OfType(Tail(w), other)) \in Nat /\ Cardinality(UsedOf(pool, other)) \in Nat
            /\ Counted(pool, other) \in Nat /\ Most(other) \in Nat
      <4>1. Tail(w) \in Seq(NodeTypes)
        BY <2>4
      <4>2. ASSUME NEW other
            PROVE  Cardinality(OfType(w, other)) = IF other = type THEN Cardinality(OfType(Tail(w), other)) + 1
                                                   ELSE Cardinality(OfType(Tail(w), other))
        BY <2>4, TailCount
      <4>3. ASSUME NEW other
            PROVE  /\ Cardinality(OfType(Tail(w), other)) \in Nat /\ Cardinality(UsedOf(pool, other)) \in Nat
                   /\ Counted(pool, other) \in Nat /\ Most(other) \in Nat
        BY <2>4, <4>1, WantsFinite, CountsFinite, MostNat
      <4>4. QED
        BY <4>2, <4>3
    <3>3. Spent(pool) \in Nat
      BY <2>4, SpentNat
    <3>4. CASE /\ Spare(pool, type) # {} /\ th'[t].pc = "prepare" /\ th'[t].wants = Tail(w)
               /\ th'[t].bytes = th[t].bytes + 0 /\ th'[t].pool = PickSpare(pool, type)
      <4>1. PICK p : p = PickSpare(pool, type)
        OBVIOUS
      <4>2. \A other \in NodeTypes :
              /\ Counted(p, other) = Counted(pool, other)
              /\ Cardinality(UsedOf(p, other)) = IF other = type THEN Cardinality(UsedOf(pool, other)) + 1
                                                 ELSE Cardinality(UsedOf(pool, other))
        BY <2>4, <3>4, <4>1, PickCounts
      <4>3. Spent(p) = Spent(pool)
        BY <4>2, SpentSame
      <4>4. ASSUME NEW other \in NodeTypes
            PROVE  Cardinality(UsedOf(p, other)) + Cardinality(OfType(Tail(w), other)) <= Most(other)
        BY <3>1, <3>2, <4>2
      <4>5. th'[t].bytes = Size["leaf"] + Spent(p)
        BY <1>3, <3>1, <3>3, <3>4, <4>3
      <4>6. QED
        BY <2>1, <3>1, <3>4, <4>1, <4>2, <4>4, <4>5 DEF Within, PutPcs
    <3>5. CASE /\ Spare(pool, type) = {} /\ th'[t].pc = "prepare" /\ th'[t].wants = Tail(w)
               /\ th'[t].bytes = th[t].bytes + Size[type]
               /\ th'[t].pool = AddNode(pool, FreshNode, type) /\ FreeNodes # {}
      <4>1. PICK p : p = AddNode(pool, FreshNode, type)
        OBVIOUS
      <4>2. FreshNode \in NodeIds
        BY <3>5, FreshNodeIn
      <4>3. ASSUME NEW other \in NodeTypes
            PROVE  /\ Counted(p, other) = IF other = type THEN Counted(pool, other) + 1 ELSE Counted(pool, other)
                   /\ Cardinality(UsedOf(p, other)) = IF other = type THEN Cardinality(UsedOf(pool, other)) + 1
                                                      ELSE Cardinality(UsedOf(pool, other))
        BY <2>4, <4>1, <4>2, AddCounts
      <4>4. Counted(pool, type) = Cardinality(UsedOf(pool, type))
        BY <2>4, <3>5, AllInUse
      <4>5. ASSUME NEW other \in NodeTypes
            PROVE  /\ Counted(p, other) <= Most(other)
                   /\ Cardinality(UsedOf(p, other)) + Cardinality(OfType(Tail(w), other)) <= Most(other)
        <5>1. CASE other = type
          BY <3>1, <3>2, <4>3, <4>4, <5>1
        <5>2. CASE other # type
          BY <3>1, <3>2, <4>3, <5>2
        <5>3. QED
          BY <5>1, <5>2
      <4>6. Spent(p) = Spent(pool) + Size[type]
        BY <2>4, <4>1, <4>2, SpentMore
      <4>7. Size[type] \in Nat
        BY ArenaInsertAssumption
      <4>8. th'[t].bytes = Size["leaf"] + Spent(p)
        BY <1>3, <3>1, <3>3, <3>5, <4>6, <4>7
      <4>9. QED
        BY <2>1, <3>1, <3>5, <4>1, <4>5, <4>8 DEF Within, PutPcs
    <3>6. CASE th'[t].pc = "full" /\ th'[t].bytes = th[t].bytes
      <4>1. th[t].bytes <= MaxInsertBytes
        BY <2>4, <3>1, SpentBound
      <4>2. QED
        BY <2>1, <3>1, <3>6, <4>1 DEF Within, PutPcs
    <3>7. QED
      BY <1>1, <1>11, <2>2, <2>3, <3>4, <3>5, <3>6, PrepareDoes
  <2>6. QED
    BY <2>1, <2>5, BudgetStep
<1>12. CASE CommitInsert(t)
  <2>1. /\ th[t].pc = "prepare" /\ Alone(t) /\ SameCall(t) /\ th'[t].sweep = th[t].sweep
        /\ th'[t].bytes = th[t].bytes
        /\ \/ th'[t].pc = "attempt" /\ th'[t].pool = th[t].pool
           \/ th'[t].pc = "retire"
    BY <1>1, <1>12, CommitInsertDoes DEF SameSweep
  <2>2. ASSUME Putting(t) PROVE Within(th'[t])
    <3>1. /\ th[t].bytes = Size["leaf"] + Spent(th[t].pool) /\ th[t].sweep = {}
          /\ \A type \in NodeTypes : Counted(th[t].pool, type) <= Most(type)
      BY <1>4, <2>1, <2>2 DEF Within
    <3>2. th[t].bytes <= MaxInsertBytes
      BY <1>2, <3>1, SpentBound
    <3>3. QED
      BY <2>1, <3>1, <3>2 DEF Within, PutPcs
  <2>3. QED
    BY <2>1, <2>2, BudgetStep, SMTT(40)
<1>13. CASE Retire(t) \/ Push(t)
  <2>1. /\ th[t].pc \in {"retire", "push"} /\ Moves(t)
        /\ \/ th'[t].pc \in {"retire", "push", "done"}
           \/ th[t].call.op = "clear"
           \/ th[t].sweep # {}
    BY <1>1, <1>13, RetireDoes, PushDoes
  <2>2. Alone(t) /\ SameCall(t) /\ th'[t].bytes = th[t].bytes /\ th'[t].sweep = th[t].sweep
    BY <2>1 DEF Moves, SamePool, SameSweep
  <2>3. ASSUME Putting(t) PROVE Within(th'[t])
    <3>1. th[t].bytes <= MaxInsertBytes /\ th[t].sweep = {} /\ th[t].call.op = "put"
      BY <1>4, <2>1, <2>2, <2>3 DEF Within
    <3>2. QED
      BY <2>1, <2>2, <3>1 DEF Within, PutPcs
  <2>4. QED
    BY <2>2, <2>3, BudgetStep
<1>14. CASE Probe(t)
  <2>1. Alone(t) /\ SameCall(t) /\ th[t].pc \notin PutPcs \cup {"idle"}
    BY <1>1, <1>14, ProbeDoes DEF PutPcs, Moves
  <2>2. QED
    BY <2>1, BudgetElsewhere
<1>15. CASE AllocVersion(t)
  <2>1. Alone(t) /\ SameCall(t) /\ th[t].pc \notin PutPcs \cup {"idle"}
    BY <1>1, <1>15, AllocVersionDoes DEF PutPcs, Moves
  <2>2. QED
    BY <2>1, BudgetElsewhere
<1>16. CASE ApplyFast(t)
  <2>1. Alone(t) /\ SameCall(t) /\ th[t].pc \notin PutPcs \cup {"idle"}
    BY <1>1, <1>16, ApplyFastDoes DEF PutPcs, Moves
  <2>2. QED
    BY <2>1, BudgetElsewhere
<1>17. CASE ApplyExisting(t)
  <2>1. Alone(t) /\ SameCall(t) /\ th[t].pc \notin PutPcs \cup {"idle"}
    BY <1>1, <1>17, ApplyExistingDoes DEF PutPcs, Moves
  <2>2. QED
    BY <2>1, BudgetElsewhere
<1>18. CASE Look(t)
  <2>1. Alone(t) /\ SameCall(t) /\ th[t].pc \notin PutPcs \cup {"idle"}
    BY <1>1, <1>18, LookDoes DEF PutPcs, Moves
  <2>2. QED
    BY <2>1, BudgetElsewhere
<1>19. CASE TakeLeaf(t)
  <2>1. Alone(t) /\ SameCall(t) /\ th[t].pc \notin PutPcs \cup {"idle"}
    BY <1>1, <1>19, TakeLeafDoes DEF PutPcs, Moves
  <2>2. QED
    BY <2>1, BudgetElsewhere
<1>20. CASE AllocTomb(t)
  <2>1. Alone(t) /\ SameCall(t) /\ th[t].pc \notin PutPcs \cup {"idle"}
    BY <1>1, <1>20, AllocTombDoes DEF PutPcs, Moves
  <2>2. QED
    BY <2>1, BudgetElsewhere
<1>21. CASE Relook(t)
  <2>1. Alone(t) /\ SameCall(t) /\ th[t].pc \notin PutPcs \cup {"idle"}
    BY <1>1, <1>21, RelookDoes DEF PutPcs, Moves
  <2>2. QED
    BY <2>1, BudgetElsewhere
<1>22. CASE CutHead(t)
  <2>1. Alone(t) /\ SameCall(t) /\ th[t].pc \notin PutPcs \cup {"idle"}
    BY <1>1, <1>22, CutHeadDoes DEF PutPcs, Moves
  <2>2. QED
    BY <2>1, BudgetElsewhere
<1>23. CASE Seek(t)
  <2>1. Alone(t) /\ SameCall(t) /\ th[t].pc \notin PutPcs \cup {"idle"}
    BY <1>1, <1>23, SeekDoes DEF PutPcs, Moves
  <2>2. QED
    BY <2>1, BudgetElsewhere
<1>24. CASE Kill(t)
  <2>1. Alone(t) /\ SameCall(t) /\ th[t].pc \notin PutPcs \cup {"idle"}
    BY <1>1, <1>24, KillDoes DEF PutPcs, Moves
  <2>2. QED
    BY <2>1, BudgetElsewhere
<1>25. CASE Unlink(t)
  <2>1. Alone(t) /\ SameCall(t) /\ th[t].pc \notin PutPcs \cup {"idle"}
    BY <1>1, <1>25, UnlinkDoes DEF PutPcs, Moves
  <2>2. QED
    BY <2>1, BudgetElsewhere
<1>26. CASE CutVersion(t)
  <2>1. Alone(t) /\ SameCall(t) /\ th[t].pc \notin PutPcs \cup {"idle"}
    BY <1>1, <1>26, CutVersionDoes DEF PutPcs, Moves
  <2>2. QED
    BY <2>1, BudgetElsewhere
<1>27. CASE Choose(t)
  <2>1. Alone(t) /\ SameCall(t) /\ th[t].pc \notin PutPcs \cup {"idle"}
    BY <1>1, <1>27, ChooseDoes DEF PutPcs, Moves
  <2>2. QED
    BY <2>1, BudgetElsewhere
<1>28. CASE CutPrune(t)
  <2>1. Alone(t) /\ SameCall(t) /\ th[t].pc \notin PutPcs \cup {"idle"}
    BY <1>1, <1>28, CutPruneDoes DEF PutPcs, Moves
  <2>2. QED
    BY <2>1, BudgetElsewhere
<1>29. CASE SwapRoot(t)
  <2>1. Alone(t) /\ SameCall(t) /\ th[t].pc \notin PutPcs \cup {"idle"}
    BY <1>1, <1>29, SwapRootDoes DEF PutPcs, Moves
  <2>2. QED
    BY <2>1, BudgetElsewhere
<1>30. CASE Sweep(t)
  <2>1. Alone(t) /\ SameCall(t) /\ th[t].pc \notin PutPcs \cup {"idle"}
    BY <1>1, <1>30, SweepDoes DEF PutPcs, Moves
  <2>2. QED
    BY <2>1, BudgetElsewhere
<1>31. CASE Uncount(t)
  <2>1. Alone(t) /\ SameCall(t) /\ th[t].pc \notin PutPcs \cup {"idle"}
    BY <1>1, <1>31, UncountDoes DEF PutPcs, Moves
  <2>2. QED
    BY <2>1, BudgetElsewhere
<1>32. QED
  BY <1>5, <1>6, <1>7, <1>8, <1>9, <1>10, <1>11, <1>12, <1>13, <1>14, <1>15, <1>16, <1>17, <1>18, <1>19, <1>20, <1>21, <1>22, <1>23, <1>24, <1>25, <1>26, <1>27, <1>28, <1>29, <1>30, <1>31, Zenon DEF Step

\* One insert into a plain map takes at most max_insert_bytes from the arena,
\* whatever the shape of the tree and however often it is retried.
THEOREM InsertWithinMax == Spec => []PlainWithinMax
<1>1. Init => BudgetInv
  <2>1. Init => \A t \in Threads : th[t].pc = "idle"
    BY DEF Init, IdleThread
  <2>2. QED
    BY <2>1 DEF BudgetInv, Busy
<1>2. Base /\ BudgetInv /\ [Next]_vars => BudgetInv'
  <2> SUFFICES ASSUME Base, BudgetInv, [Next]_vars PROVE BudgetInv'
    OBVIOUS
  <2>1. ASSUME NEW t \in Threads, Step(t) PROVE BudgetInv'
    BY <2>1, StepBudget
  <2>2. CASE th' = th
    BY <2>2 DEF BudgetInv, Busy
  <2>3. (\E k \in Keys : Reshape(k)) \/ DropMap \/ UNCHANGED vars => th' = th
    BY Zenon DEF Reshape, DropMap, vars
  <2>4. QED
    BY <2>1, <2>2, <2>3, Zenon DEF Next, Over
<1>3. Base /\ BudgetInv => PlainWithinMax
  <2> SUFFICES ASSUME Base, BudgetInv, NEW t \in Threads, Busy(t), th[t].call.op = "put"
               PROVE  th[t].bytes <= MaxInsertBytes
    BY DEF PlainWithinMax
  <2>1. Within(th[t]) /\ th[t].pool \in Seq(Entries)
    BY DEF BudgetInv, Base, Shapes, ThreadsOK, ThreadOK
  <2>2. CASE th[t].pc \in {"attempt", "prepare"}
    BY <2>1, <2>2, SpentBound DEF Within
  <2>3. CASE th[t].pc \in {"leaf", "fast", "call"}
    <3>1. Node4s * Size["n4"] \in Nat
      BY Sizes
    <3>2. PICK q : q = Node4s * Size["n4"]
      OBVIOUS
    <3>3. MaxInsertBytes = Size["leaf"] + q + Size["n16"] + Size["n48"] + Size["n256"]
      BY <3>2, Zenon DEF MaxInsertBytes
    <3>4. th[t].bytes = 0 \/ th[t].bytes = Size["leaf"]
      BY <2>1, <2>3 DEF Within
    <3>5. QED
      BY <3>1, <3>2, <3>3, <3>4, Sizes
  <2>4. CASE th[t].pc \in {"retire", "push", "done", "full"}
    BY <2>1, <2>4 DEF Within
  <2>5. QED
    BY <2>1, <2>2, <2>3, <2>4 DEF Within, PutPcs
<1>4. QED
  BY <1>1, <1>2, <1>3, BaseAlways, PTL DEF Spec

-----------------------------------------------------------------------------
(* Prepared nodes are published or freed, once *)

\* The invariant after a step of t that moves the nodes L and F out of its pool,
\* and n into it.
LEMMA PoolStep ==
  ASSUME NEW t \in Threads, PoolInv, Alone(t), NEW N, NEW L, NEW F, NodesTo(N, L, F),
         PoolOf(t)' = (PoolOf(t) \cup N) \ (L \cup F), L \cup F \subseteq PoolOf(t), L \cap F = {},
         N \cap nodes.made = {},
         th'[t].pc \notin {"attempt", "prepare"} => th'[t].pool = <<>>,
         \A i, j \in DOMAIN th'[t].pool : i # j => th'[t].pool[i].node # th'[t].pool[j].node
  PROVE  PoolInv'
<1> DEFINE P(u) == PoolOf(u)
<1>1. /\ nodes'.made = nodes.made \cup N /\ nodes'.linked = nodes.linked \cup L
      /\ nodes'.freed = nodes.freed \cup F
  BY DEF NodesTo
<1>2. /\ nodes.linked \cap nodes.freed = {}
      /\ \A u \in Threads : P(u) \cap (nodes.linked \cup nodes.freed) = {}
      /\ \A u, v \in Threads : u # v => P(u) \cap P(v) = {}
  BY DEF PoolInv
<1>3. ASSUME NEW x
      PROVE  x \in nodes.made <=> x \in nodes.linked \/ x \in nodes.freed \/ \E u \in Threads : x \in P(u)
  <2>1. nodes.made = nodes.linked \cup nodes.freed \cup UNION {P(u) : u \in Threads}
    BY DEF PoolInv
  <2> HIDE DEF P
  <2>2. QED
    BY <2>1
<1>4. ASSUME NEW u \in Threads, u # t PROVE th'[u] = th[u] /\ P(u)' = P(u)
  BY <1>4 DEF Alone, PoolOf
<1>5. P(t)' = (P(t) \cup N) \ (L \cup F) /\ L \cup F \subseteq P(t)
  OBVIOUS
<1>6. ASSUME NEW u \in Threads
      PROVE  /\ th'[u].pc \notin {"attempt", "prepare"} => th'[u].pool = <<>>
             /\ \A i, j \in DOMAIN th'[u].pool : i # j => th'[u].pool[i].node # th'[u].pool[j].node
  <2>1. CASE u = t
    BY <2>1
  <2>2. CASE u # t
    BY <1>4, <2>2 DEF PoolInv
  <2>3. QED
    BY <2>1, <2>2
<1> HIDE DEF P
<1>7. ASSUME NEW u \in Threads PROVE P(u) \subseteq nodes.made /\ nodes.linked \cup nodes.freed \subseteq nodes.made
  BY <1>3
<1>8. ASSUME NEW u \in Threads PROVE P(u)' \cap (nodes'.linked \cup nodes'.freed) = {}
  <2>1. CASE u = t
    BY <1>1, <1>2, <1>5, <1>7, <2>1
  <2>2. CASE u # t
    BY <1>1, <1>2, <1>4, <1>5, <2>2
  <2>3. QED
    BY <2>1, <2>2
<1>9. ASSUME NEW u \in Threads, NEW v \in Threads, u # v PROVE P(u)' \cap P(v)' = {}
  <2>1. CASE u = t
    BY <1>2, <1>4, <1>5, <1>7, <1>9, <2>1
  <2>2. CASE v = t
    BY <1>2, <1>4, <1>5, <1>7, <1>9, <2>2
  <2>3. CASE u # t /\ v # t
    BY <1>2, <1>4, <1>9, <2>3
  <2>4. QED
    BY <2>1, <2>2, <2>3
<1>10. nodes'.linked \cap nodes'.freed = {}
  BY <1>1, <1>2, <1>5
<1>11. ASSUME NEW x
       PROVE  x \in nodes'.made <=> x \in nodes'.linked \/ x \in nodes'.freed \/ \E u \in Threads : x \in P(u)'
  <2>1. ASSUME x \in nodes'.made
        PROVE  x \in nodes'.linked \/ x \in nodes'.freed \/ \E u \in Threads : x \in P(u)'
    <3>1. CASE x \in N
      BY <1>1, <1>5, <3>1
    <3>2. CASE x \in nodes.linked \/ x \in nodes.freed
      BY <1>1, <3>2
    <3>3. ASSUME NEW u \in Threads, x \in P(u)
          PROVE  x \in nodes'.linked \/ x \in nodes'.freed \/ \E w \in Threads : x \in P(w)'
      <4>1. CASE u = t
        BY <1>1, <1>5, <3>3, <4>1
      <4>2. CASE u # t
        BY <1>4, <3>3, <4>2
      <4>3. QED
        BY <4>1, <4>2
    <3>4. QED
      BY <1>1, <1>3, <2>1, <3>1, <3>2, <3>3
  <2>2. ASSUME x \in nodes'.linked \/ x \in nodes'.freed PROVE x \in nodes'.made
    BY <1>1, <1>5, <1>7, <2>2
  <2>3. ASSUME NEW u \in Threads, x \in P(u)' PROVE x \in nodes'.made
    <3>1. CASE u = t
      BY <1>1, <1>5, <1>7, <2>3, <3>1
    <3>2. CASE u # t
      BY <1>1, <1>4, <1>7, <2>3, <3>2
    <3>3. QED
      BY <3>1, <3>2
  <2>4. QED
    BY <2>1, <2>2, <2>3
<1>12. nodes'.made = nodes'.linked \cup nodes'.freed \cup UNION {P(u)' : u \in Threads}
  BY <1>11
<1>13. QED
  BY <1>6, <1>8, <1>9, <1>10, <1>12 DEF PoolInv, P

LEMMA EmptyRelease == ReleaseAll(<<>>) = {}
<1>1. DOMAIN <<>> = {}
  OBVIOUS
<1>2. QED
  BY <1>1 DEF ReleaseAll, Release

\* The pool is emptied: some of its nodes are linked, the others freed.
LEMMA PoolFreed ==
  ASSUME NEW t \in Threads, PoolInv, Alone(t), NEW L, NEW F, NodesTo({}, L, F),
         L \cup F = PoolOf(t), L \cap F = {}, th'[t].pool = <<>>
  PROVE  PoolInv'
<1>1. PoolOf(t)' = {}
  BY EmptyRelease DEF PoolOf
<1>2. PoolOf(t)' = (PoolOf(t) \cup {}) \ (L \cup F)
  BY <1>1
<1>3. \A i, j \in DOMAIN th'[t].pool : i # j => th'[t].pool[i].node # th'[t].pool[j].node
  OBVIOUS
<1>4. {} \cap nodes.made = {}
  OBVIOUS
<1>5. QED
  BY <1>2, <1>3, <1>4, PoolStep

\* The pool keeps its nodes.
LEMMA PoolSame ==
  ASSUME NEW t \in Threads, PoolInv, Alone(t), nodes' = nodes, NodesOK,
         DOMAIN th'[t].pool = DOMAIN th[t].pool,
         \A i \in DOMAIN th[t].pool : th'[t].pool[i].node = th[t].pool[i].node,
         th'[t].pc \in {"attempt", "prepare"}
  PROVE  PoolInv'
<1>1. NodesTo({}, {}, {})
  BY NodesStay
<1>2. PoolOf(t)' = PoolOf(t)
  BY DEF PoolOf, ReleaseAll, Release
<1>3. PoolOf(t)' = (PoolOf(t) \cup {}) \ ({} \cup {}) /\ {} \cap nodes.made = {} /\ {} \cap {} = {} /\ {} \cup {} \subseteq PoolOf(t)
  BY <1>2
<1>4. \A i, j \in DOMAIN th'[t].pool : i # j => th'[t].pool[i].node # th'[t].pool[j].node
  BY DEF PoolInv
<1>5. QED
  BY <1>1, <1>3, <1>4, PoolStep

\* A step that has nothing to do with the pool.
LEMMA PoolElsewhere ==
  ASSUME NEW t \in Threads, PoolInv, Alone(t), nodes' = nodes, NodesOK,
         th[t].pc \notin {"attempt", "prepare"},
         th'[t].pool = th[t].pool \/ th'[t].pool = <<>>
  PROVE  PoolInv'
<1>1. NodesTo({}, {}, {})
  BY NodesStay
<1>2. th[t].pool = <<>> /\ th'[t].pool = <<>>
  BY DEF PoolInv
<1>3. {} \cup {} = PoolOf(t) /\ {} \cap {} = {}
  BY <1>2, EmptyRelease DEF PoolOf
<1>4. QED
  BY <1>1, <1>2, <1>3, PoolFreed

LEMMA PoolFull ==
  ASSUME NEW t \in Threads, PoolInv, OwnedOK, NodesOK, ThreadsOK, Full(t)
  PROVE  PoolInv'
<1>1. Alone(t) /\ th'[t].pool = <<>>
  BY FullDoes
<1>2. NodesTo({}, {}, PoolOf(t))
  BY FullHeap
<1>3. {} \cup PoolOf(t) = PoolOf(t) /\ {} \cap PoolOf(t) = {}
  OBVIOUS
<1>4. QED
  BY <1>1, <1>2, <1>3, PoolFreed

LEMMA StepPool ==
  ASSUME NEW t \in Threads, Base, PoolInv, Step(t)
  PROVE  PoolInv'
<1>1. Shapes /\ Controls /\ ThreadsOK /\ ThreadOK(th[t]) /\ ControlOK(th[t]) /\ NodesOK /\ OwnedOK
  BY DEF Base, Shapes, ThreadsOK, Controls
<1>2. th[t].pool \in Seq(Entries) /\ th[t].wants \in Seq(NodeTypes)
  BY <1>1 DEF ThreadOK
<1>3. CASE Begin(t)
  <2>1. PICK c \in AnyCall : Fresh(t, th[t].at + 1, c, FirstPc(c))
    BY <1>1, <1>3, BeginDoes
  <2>2. Alone(t) /\ th'[t].pool = <<>>
    BY <2>1, Zenon DEF Fresh
  <2>3. th[t].pc = "idle" /\ nodes' = nodes
    BY <1>1, <1>3, BeginDoes, BeginHeap
  <2>4. QED
    BY <1>1, <2>2, <2>3, PoolElsewhere
<1>4. CASE Return(t)
  <2>1. Alone(t) /\ th'[t].pool = <<>> /\ th[t].pc \in {"done", "full"}
    BY <1>1, <1>4, ReturnDoes DEF Fresh
  <2>2. nodes' = nodes
    BY <1>4, ReadingHeap DEF Reading, Alike
  <2>3. QED
    BY <1>1, <2>1, <2>2, PoolElsewhere
<1>5. CASE AllocVersion(t)
  <2>1. Full(t) \/ (Alone(t) /\ th'[t].pool = th[t].pool /\ th[t].pc = "version" /\ nodes' = nodes)
    BY <1>1, <1>5, AllocVersionDoes, AllocVersionHeap
  <2>2. QED
    BY <1>1, <2>1, PoolFull, PoolElsewhere
<1>6. CASE AllocLeaf(t)
  <2>1. Full(t) \/ (Alone(t) /\ th'[t].pool = th[t].pool /\ th[t].pc = "leaf" /\ nodes' = nodes)
    BY <1>1, <1>6, AllocLeafDoes, AllocLeafHeap
  <2>2. QED
    BY <1>1, <2>1, PoolFull, PoolElsewhere
<1>7. CASE CallInsert(t)
  <2>1. Alone(t) /\ th'[t].pool = <<>> /\ th[t].pc = "call"
    BY <1>1, <1>7, CallInsertDoes
  <2>2. nodes' = nodes
    BY <1>7, ReadingHeap DEF Reading, Alike
  <2>3. QED
    BY <1>1, <2>1, <2>2, PoolElsewhere
<1>8. CASE Attempt(t)
  <2>1. Alone(t)
    BY <1>1, <1>8, AttemptDoes
  <2>2. \/ th'[t].pc = "existing" /\ th'[t].pool = <<>> /\ NodesTo({}, {}, PoolOf(t))
        \/ th'[t].pc = "prepare" /\ th'[t].pool = Reset(th[t].pool) /\ nodes' = nodes
    BY <1>1, <1>8, AttemptDoes, AttemptHeap
  <2>3. CASE th'[t].pool = <<>> /\ NodesTo({}, {}, PoolOf(t))
    <3>1. {} \cup PoolOf(t) = PoolOf(t) /\ {} \cap PoolOf(t) = {}
      OBVIOUS
    <3>2. QED
      BY <2>1, <2>3, <3>1, PoolFreed
  <2>4. CASE th'[t].pc = "prepare" /\ th'[t].pool = Reset(th[t].pool) /\ nodes' = nodes
    <3>1. /\ DOMAIN th'[t].pool = DOMAIN th[t].pool
          /\ \A i \in DOMAIN th[t].pool : th'[t].pool[i].node = th[t].pool[i].node
      BY <1>2, <2>4, ResetPool
    <3>2. QED
      BY <1>1, <2>1, <2>4, <3>1, PoolSame
  <2>5. QED
    BY <2>2, <2>3, <2>4
<1>9. CASE Prepare(t)
  <2>1. Alone(t) /\ th[t].wants # <<>>
    BY <1>1, <1>9, PrepareDoes
  <2>2. PICK type \in NodeTypes : type = Head(th[t].wants)
    BY <1>2, <2>1
  <2>3. \/ /\ Spare(th[t].pool, type) # {} /\ th'[t].pc = "prepare"
           /\ th'[t].pool = PickSpare(th[t].pool, type) /\ nodes' = nodes
        \/ /\ th'[t].pc = "prepare" /\ th'[t].pool = AddNode(th[t].pool, FreshNode, type)
           /\ FreeNodes # {} /\ MadeSet({FreshNode})
        \/ Full(t)
    BY <1>1, <1>9, <2>2, PrepareDoes, Zenon DEF MadeSet
  <2>4. CASE /\ Spare(th[t].pool, type) # {} /\ th'[t].pc = "prepare"
             /\ th'[t].pool = PickSpare(th[t].pool, type) /\ nodes' = nodes
    <3>1. /\ DOMAIN th'[t].pool = DOMAIN th[t].pool
          /\ \A i \in DOMAIN th[t].pool : th'[t].pool[i].node = th[t].pool[i].node
      BY <1>2, <2>4, SparePicked
    <3>2. QED
      BY <1>1, <2>1, <2>4, <3>1, PoolSame
  <2>5. CASE /\ th'[t].pc = "prepare" /\ th'[t].pool = AddNode(th[t].pool, FreshNode, type)
             /\ FreeNodes # {} /\ MadeSet({FreshNode})
    <3>1. FreshNode \in NodeIds /\ FreshNode \notin nodes.made
      BY <2>5, FreshNodeIn
    <3>2. PICK p, q, n, m : p = th[t].pool /\ q = th'[t].pool /\ n = FreshNode /\ m = Len(th[t].pool) + 1
      OBVIOUS
    <3>3. /\ m \notin DOMAIN p /\ DOMAIN q = DOMAIN p \cup {m} /\ q[m].node = n
          /\ \A i \in DOMAIN p : q[i] = p[i]
      <4>0. q = AddNode(p, n, type) /\ p \in Seq(Entries) /\ n \in NodeIds /\ m = Len(p) + 1
        BY <1>2, <2>5, <3>1, <3>2, Zenon
      <4>1. Len(p) \in Nat /\ DOMAIN p = 1 .. Len(p) /\ DOMAIN q = 1 .. Len(p) + 1
        BY <4>0, NodeAdded
      <4>2. m \notin DOMAIN p /\ DOMAIN q = DOMAIN p \cup {m}
        BY <3>2, <4>1
      <4>3. q[m] = Entry(n, type, TRUE) /\ \A i \in DOMAIN p : q[i] = p[i]
        BY <4>0, NodeAdded
      <4>4. QED
        BY <4>2, <4>3 DEF Entry
    <3>4. NodesTo({n}, {}, {})
      BY <1>1, <2>5, <3>2, NodesMade
    <3>5. ReleaseAll(q) = ReleaseAll(p) \cup {n}
      BY <3>3 DEF ReleaseAll, Release
    <3>6. PoolOf(t)' = (PoolOf(t) \cup {n}) \ ({} \cup {}) /\ {} \cup {} \subseteq PoolOf(t) /\ {} \cap {} = {}
      BY <3>2, <3>5 DEF PoolOf
    <3>7. {n} \cap nodes.made = {}
      BY <3>1, <3>2
    <3>8. ReleaseAll(p) \subseteq nodes.made /\ \A i, j \in DOMAIN p : i # j => p[i].node # p[j].node
      BY <3>2 DEF PoolInv, PoolOf
    <3>9. ASSUME NEW i \in DOMAIN p PROVE p[i].node # n
      BY <3>1, <3>2, <3>8 DEF ReleaseAll, Release
    <3>10. \A i, j \in DOMAIN q : i # j => q[i].node # q[j].node
      BY <3>3, <3>8, <3>9
    <3>11. \A i, j \in DOMAIN th'[t].pool : i # j => th'[t].pool[i].node # th'[t].pool[j].node
      BY <3>2, <3>10, Zenon
    <3>12. QED
      BY <2>1, <2>5, <3>4, <3>6, <3>7, <3>11, PoolStep
  <2>6. QED
    BY <1>1, <2>3, <2>4, <2>5, PoolFull
<1>10. CASE CommitInsert(t)
  <2>1. Alone(t)
    BY <1>1, <1>10, CommitInsertDoes, ZenonT(60)
  <2>2. \/ th'[t].pc = "attempt" /\ th'[t].pool = th[t].pool /\ nodes' = nodes
        \/ /\ th'[t].pool = <<>>
           /\ NodesTo({}, UsedBy(th[t].pool), Release(th[t].pool, Commit(th[t].pool)))
    BY <1>1, <1>10, CommitInsertDoes, CommitInsertHeap DEF Alike
  <2>3. CASE th'[t].pc = "attempt" /\ th'[t].pool = th[t].pool /\ nodes' = nodes
    BY <1>1, <2>1, <2>3, PoolSame
  <2>4. CASE /\ th'[t].pool = <<>>
             /\ NodesTo({}, UsedBy(th[t].pool), Release(th[t].pool, Commit(th[t].pool)))
    <3>1. PICK p, L, F : p = th[t].pool /\ L = UsedBy(p) /\ F = Release(p, Commit(p))
      OBVIOUS
    <3>2. L \cup F = PoolOf(t)
      BY <3>1 DEF UsedBy, Release, Commit, PoolOf, ReleaseAll
    <3>3. L \cap F = {}
      <4>1. \A i, j \in DOMAIN p : i # j => p[i].node # p[j].node
        BY <3>1 DEF PoolInv
      <4>2. QED
        BY <3>1, <4>1 DEF UsedBy, Release, Commit
    <3>4. NodesTo({}, L, F)
      BY <2>4, <3>1
    <3>5. QED
      BY <2>1, <2>4, <3>2, <3>3, <3>4, PoolFreed
  <2>5. QED
    BY <2>2, <2>3, <2>4, SMTT(40)
<1>11. CASE Probe(t)
  <2>1. Alone(t) /\ th'[t].pool = th[t].pool /\ th[t].pc \notin {"attempt", "prepare"}
    BY <1>1, <1>11, ProbeDoes DEF Moves, SamePool
  <2>2. nodes' = nodes
    BY <1>1, <1>11, ReadingHeap DEF Reading, Alike
  <2>3. QED
    BY <1>1, <2>1, <2>2, PoolElsewhere
<1>12. CASE Look(t)
  <2>1. Alone(t) /\ th'[t].pool = th[t].pool /\ th[t].pc \notin {"attempt", "prepare"}
    BY <1>1, <1>12, LookDoes DEF Moves, SamePool
  <2>2. nodes' = nodes
    BY <1>1, <1>12, ReadingHeap DEF Reading, Alike
  <2>3. QED
    BY <1>1, <2>1, <2>2, PoolElsewhere
<1>13. CASE Relook(t)
  <2>1. Alone(t) /\ th'[t].pool = th[t].pool /\ th[t].pc \notin {"attempt", "prepare"}
    BY <1>1, <1>13, RelookDoes DEF Moves, SamePool
  <2>2. nodes' = nodes
    BY <1>1, <1>13, ReadingHeap DEF Reading, Alike
  <2>3. QED
    BY <1>1, <2>1, <2>2, PoolElsewhere
<1>14. CASE Seek(t)
  <2>1. Alone(t) /\ th'[t].pool = th[t].pool /\ th[t].pc \notin {"attempt", "prepare"}
    BY <1>1, <1>14, SeekDoes DEF Moves, SamePool
  <2>2. nodes' = nodes
    BY <1>1, <1>14, ReadingHeap DEF Reading, Alike
  <2>3. QED
    BY <1>1, <2>1, <2>2, PoolElsewhere
<1>15. CASE Choose(t)
  <2>1. Alone(t) /\ th'[t].pool = th[t].pool /\ th[t].pc \notin {"attempt", "prepare"}
    BY <1>1, <1>15, ChooseDoes DEF Moves, SamePool
  <2>2. nodes' = nodes
    BY <1>1, <1>15, ReadingHeap DEF Reading, Alike
  <2>3. QED
    BY <1>1, <2>1, <2>2, PoolElsewhere
<1>16. CASE Uncount(t)
  <2>1. Alone(t) /\ th'[t].pool = th[t].pool /\ th[t].pc \notin {"attempt", "prepare"}
    BY <1>1, <1>16, UncountDoes DEF Moves, SamePool
  <2>2. nodes' = nodes
    BY <1>1, <1>16, ReadingHeap DEF Reading, Alike
  <2>3. QED
    BY <1>1, <2>1, <2>2, PoolElsewhere
<1>17. CASE Retire(t)
  <2>1. Alone(t) /\ th'[t].pool = th[t].pool /\ th[t].pc \notin {"attempt", "prepare"}
    BY <1>1, <1>17, RetireDoes DEF Moves, SamePool
  <2>2. nodes' = nodes
    BY <1>1, <1>17, ReadingHeap DEF Reading, Alike
  <2>3. QED
    BY <1>1, <2>1, <2>2, PoolElsewhere
<1>18. CASE Push(t)
  <2>1. Alone(t) /\ th'[t].pool = th[t].pool /\ th[t].pc \notin {"attempt", "prepare"}
    BY <1>1, <1>18, PushDoes DEF Moves, SamePool
  <2>2. nodes' = nodes
    BY <1>1, <1>18, ReadingHeap DEF Reading, Alike
  <2>3. QED
    BY <1>1, <2>1, <2>2, PoolElsewhere
<1>19. CASE ApplyFast(t)
  <2>1. Alone(t) /\ th'[t].pool = th[t].pool /\ th[t].pc \notin {"attempt", "prepare"}
    BY <1>1, <1>19, ApplyFastDoes DEF Moves, SamePool
  <2>2. nodes' = nodes
    BY <1>1, <1>19, ApplyFastHeap DEF Alike
  <2>3. QED
    BY <1>1, <2>1, <2>2, PoolElsewhere
<1>20. CASE TryFast(t)
  <2>1. Alone(t) /\ th'[t].pool = th[t].pool /\ th[t].pc \notin {"attempt", "prepare"}
    BY <1>1, <1>20, TryFastDoes DEF Moves, SamePool
  <2>2. nodes' = nodes
    BY <1>1, <1>20, TryFastHeap DEF Alike
  <2>3. QED
    BY <1>1, <2>1, <2>2, PoolElsewhere
<1>21. CASE ApplyExisting(t)
  <2>1. Alone(t) /\ th'[t].pool = th[t].pool /\ th[t].pc \notin {"attempt", "prepare"}
    BY <1>1, <1>21, ApplyExistingDoes DEF Moves, SamePool
  <2>2. nodes' = nodes
    BY <1>1, <1>21, ApplyExistingHeap DEF Alike
  <2>3. QED
    BY <1>1, <2>1, <2>2, PoolElsewhere
<1>22. CASE TakeLeaf(t)
  <2>1. Alone(t) /\ th'[t].pool = th[t].pool /\ th[t].pc \notin {"attempt", "prepare"}
    BY <1>1, <1>22, TakeLeafDoes DEF Moves, SamePool
  <2>2. nodes' = nodes
    BY <1>1, <1>22, TakeLeafHeap DEF Alike
  <2>3. QED
    BY <1>1, <2>1, <2>2, PoolElsewhere
<1>23. CASE AllocTomb(t)
  <2>1. Alone(t) /\ th'[t].pool = th[t].pool /\ th[t].pc \notin {"attempt", "prepare"}
    BY <1>1, <1>23, AllocTombDoes DEF Moves, SamePool
  <2>2. nodes' = nodes
    BY <1>1, <1>23, AllocTombHeap, SMTT(40) DEF Alike
  <2>3. QED
    BY <1>1, <2>1, <2>2, PoolElsewhere
<1>24. CASE CutHead(t)
  <2>1. Alone(t) /\ th'[t].pool = th[t].pool /\ th[t].pc \notin {"attempt", "prepare"}
    BY <1>1, <1>24, CutHeadDoes DEF Moves, SamePool
  <2>2. nodes' = nodes
    BY <1>1, <1>24, CutHeadHeap DEF Alike
  <2>3. QED
    BY <1>1, <2>1, <2>2, PoolElsewhere
<1>25. CASE Kill(t)
  <2>1. Alone(t) /\ th'[t].pool = th[t].pool /\ th[t].pc \notin {"attempt", "prepare"}
    BY <1>1, <1>25, KillDoes DEF Moves, SamePool
  <2>2. nodes' = nodes
    BY <1>1, <1>25, KillHeap DEF Alike
  <2>3. QED
    BY <1>1, <2>1, <2>2, PoolElsewhere
<1>26. CASE Unlink(t)
  <2>1. Alone(t) /\ th'[t].pool = th[t].pool /\ th[t].pc \notin {"attempt", "prepare"}
    BY <1>1, <1>26, UnlinkDoes DEF Moves, SamePool
  <2>2. nodes' = nodes
    BY <1>1, <1>26, UnlinkHeap DEF Alike
  <2>3. QED
    BY <1>1, <2>1, <2>2, PoolElsewhere
<1>27. CASE CutVersion(t)
  <2>1. Alone(t) /\ th'[t].pool = th[t].pool /\ th[t].pc \notin {"attempt", "prepare"}
    BY <1>1, <1>27, CutVersionDoes DEF Moves, SamePool
  <2>2. nodes' = nodes
    BY <1>1, <1>27, CutVersionHeap DEF Alike
  <2>3. QED
    BY <1>1, <2>1, <2>2, PoolElsewhere
<1>28. CASE CutPrune(t)
  <2>1. Alone(t) /\ th'[t].pool = th[t].pool /\ th[t].pc \notin {"attempt", "prepare"}
    BY <1>1, <1>28, CutPruneDoes DEF Moves, SamePool
  <2>2. nodes' = nodes
    BY <1>1, <1>28, CutPruneHeap DEF Alike
  <2>3. QED
    BY <1>1, <2>1, <2>2, PoolElsewhere
<1>29. CASE SwapRoot(t)
  <2>1. Alone(t) /\ th'[t].pool = th[t].pool /\ th[t].pc \notin {"attempt", "prepare"}
    BY <1>1, <1>29, SwapRootDoes DEF Moves, SamePool
  <2>2. nodes' = nodes
    BY <1>1, <1>29, SwapRootHeap DEF Alike
  <2>3. QED
    BY <1>1, <2>1, <2>2, PoolElsewhere
<1>30. CASE Sweep(t)
  <2>1. Alone(t) /\ th'[t].pool = th[t].pool /\ th[t].pc \notin {"attempt", "prepare"}
    BY <1>1, <1>30, SweepDoes DEF Moves, SamePool
  <2>2. nodes' = nodes
    BY <1>1, <1>30, SweepHeap DEF Alike
  <2>3. QED
    BY <1>1, <2>1, <2>2, PoolElsewhere
<1>31. QED
  BY <1>3, <1>4, <1>5, <1>6, <1>7, <1>8, <1>9, <1>10, <1>11, <1>12, <1>13, <1>14, <1>15, <1>16, <1>17, <1>18, <1>19, <1>20, <1>21, <1>22, <1>23, <1>24, <1>25, <1>26, <1>27, <1>28, <1>29, <1>30, Zenon DEF Step

\* A node prepared for an insert is published or freed, never both, and once
\* every call has returned each has become one of the two.
THEOREM NodesPreparedOnce == Spec => []PreparedOnce
<1>1. Init => PoolInv
  <2> SUFFICES ASSUME Init PROVE PoolInv
    OBVIOUS
  <2>1. nodes = [made |-> {}, linked |-> {}, freed |-> {}]
    BY Zenon DEF Init
  <2>2. ASSUME NEW t \in Threads PROVE th[t].pool = <<>>
    BY DEF Init, IdleThread
  <2>3. ASSUME NEW t \in Threads PROVE PoolOf(t) = {}
    BY <2>2, EmptyRelease DEF PoolOf
  <2>4. UNION {PoolOf(t) : t \in Threads} = {}
    BY <2>3
  <2>5. nodes.made = {} /\ nodes.linked = {} /\ nodes.freed = {}
    BY <2>1
  <2>6. QED
    BY <2>2, <2>3, <2>4, <2>5 DEF PoolInv
<1>2. Base /\ PoolInv /\ [Next]_vars => PoolInv'
  <2> SUFFICES ASSUME Base, PoolInv, [Next]_vars PROVE PoolInv'
    OBVIOUS
  <2>1. ASSUME NEW t \in Threads, Step(t) PROVE PoolInv'
    BY <2>1, StepPool
  <2>2. CASE th' = th /\ nodes' = nodes
    BY <2>2, SMTT(40) DEF PoolInv, PoolOf
  <2>3. (\E k \in Keys : Reshape(k)) \/ DropMap \/ UNCHANGED vars => th' = th /\ nodes' = nodes
    BY Zenon DEF Reshape, DropMap, vars
  <2>4. QED
    BY <2>1, <2>2, <2>3, Zenon DEF Next, Over
<1>3. PoolInv => PreparedOnce
  <2> SUFFICES ASSUME PoolInv PROVE PreparedOnce
    OBVIOUS
  <2>1. ASSUME Quiet PROVE nodes.made = nodes.linked \cup nodes.freed
    <3>1. ASSUME NEW t \in Threads PROVE PoolOf(t) = {}
      <4>1. th[t].pc = "idle"
        BY <2>1 DEF Quiet, Busy
      <4>2. th[t].pool = <<>>
        BY <4>1 DEF PoolInv
      <4>3. QED
        BY <4>2, EmptyRelease DEF PoolOf
    <3>2. UNION {PoolOf(t) : t \in Threads} = {}
      BY <3>1
    <3>3. QED
      BY <3>2 DEF PoolInv
  <2>2. QED
    BY <2>1 DEF PreparedOnce, PoolInv
<1>4. QED
  BY <1>1, <1>2, <1>3, BaseAlways, PTL DEF Spec

-----------------------------------------------------------------------------
(* The versions of a chain *)

ChainRun(f, v, n) == f = [i \in 0 .. n |-> IF i = 0 THEN <<>> ELSE OneMore(f[i - 1], v)]

LEMMA ChainIsChosen ==
  ASSUME NEW v
  PROVE  Chain(v) = (CHOOSE f : ChainRun(f, v, Cardinality(VerIds)))[Cardinality(VerIds)]
BY Zenon DEF Chain, ChainRun

LEMMA ChainRunNext ==
  ASSUME NEW v, NEW n \in Nat, NEW f, ChainRun(f, v, n)
  PROVE  \E g : ChainRun(g, v, n + 1)
<1> DEFINE Val(h, i) == IF i = 0 THEN <<>> ELSE OneMore(h[i - 1], v)
           g == [i \in 0 .. n + 1 |-> Val(f, i)]
<1>1. ASSUME NEW i \in 0 .. n PROVE f[i] = Val(f, i)
  BY DEF ChainRun
<1>2. ASSUME NEW i \in 0 .. n PROVE g[i] = f[i]
  <2>1. i \in 0 .. n + 1
    OBVIOUS
  <2>2. g[i] = Val(f, i)
    BY <2>1
  <2>3. QED
    BY <1>1, <2>2
<1>3. ASSUME NEW i \in 0 .. n + 1 PROVE Val(f, i) = Val(g, i)
  <2>1. CASE i = 0
    BY <2>1
  <2>2. CASE i # 0
    <3>1. i - 1 \in 0 .. n
      BY <2>2
    <3>2. g[i - 1] = f[i - 1]
      BY <1>2, <3>1
    <3> HIDE DEF g
    <3>3. QED
      BY <2>2, <3>2
  <2>3. QED
    BY <2>1, <2>2
<1>4. g = [i \in 0 .. n + 1 |-> Val(g, i)]
  <2>1. g = [i \in 0 .. n + 1 |-> g[i]]
    OBVIOUS
  <2>2. ASSUME NEW i \in 0 .. n + 1 PROVE g[i] = Val(g, i)
    <3>1. g[i] = Val(f, i)
      OBVIOUS
    <3>2. QED
      BY <3>1, <1>3
  <2> HIDE DEF g
  <2>3. QED
    BY <2>1, <2>2
<1>5. ChainRun(g, v, n + 1)
  <2> HIDE DEF g
  <2>1. QED
    BY <1>4, Zenon DEF ChainRun
<1>6. QED
  BY <1>5

LEMMA ChainRunExists ==
  ASSUME NEW v, NEW n \in Nat
  PROVE  \E f : ChainRun(f, v, n)
<1> DEFINE Bad == {k \in Nat : ~ \E f : ChainRun(f, v, k)}
<1>1. SUFFICES ASSUME Bad # {} PROVE FALSE
  OBVIOUS
<1>2. PICK m \in Bad : \A k \in Bad : m <= k
  <2>1. Bad \in SUBSET Nat
    OBVIOUS
  <2> HIDE DEF Bad
  <2>2. QED
    BY <1>1, <2>1, LeastNatural
<1>3. m \in Nat /\ ~ \E f : ChainRun(f, v, m)
  OBVIOUS
<1>4. CASE m = 0
  <2> DEFINE g == [i \in 0 .. 0 |-> <<>>]
  <2>1. g = [i \in 0 .. 0 |-> IF i = 0 THEN <<>> ELSE OneMore(g[i - 1], v)]
    <3>1. \A i \in 0 .. 0 : i = 0
      OBVIOUS
    <3>2. QED
      BY <3>1
  <2>2. ChainRun(g, v, 0)
    <3> HIDE DEF g
    <3>1. QED
      BY <2>1, Zenon DEF ChainRun
  <2>3. QED
    BY <1>3, <1>4, <2>2
<1>5. CASE m # 0
  <2>1. m - 1 \in Nat /\ m - 1 < m /\ (m - 1) + 1 = m
    BY <1>3, <1>5
  <2>2. m - 1 \notin Bad
    <3> HIDE DEF Bad
    <3>1. QED
      BY <1>2, <1>3, <2>1
  <2>3. PICK f : ChainRun(f, v, m - 1)
    BY <2>1, <2>2
  <2>4. \E g : ChainRun(g, v, (m - 1) + 1)
    BY <2>1, <2>3, ChainRunNext
  <2>5. QED
    BY <1>3, <2>1, <2>4
<1>6. QED
  BY <1>4, <1>5

\* S holds what follows its members in their chains.
Closed(S) == \A x \in S : ver[x].next = 0 \/ ver[x].next \in S

\* A chain that begins in S stays in it.
LEMMA ChainIn ==
  ASSUME NEW S, Closed(S), NEW v, v = 0 \/ v \in S
  PROVE  Chain(v) \in Seq(S)
<1>1. PICK n \in Nat : n = Cardinality(VerIds)
  BY ArenaInsertAssumption, FS_CardinalityType
<1>2. PICK f : f = CHOOSE g : ChainRun(g, v, n)
  OBVIOUS
<1>3. ChainRun(f, v, n)
  BY <1>2, ChainRunExists
<1>4. Chain(v) = f[n]
  BY <1>1, <1>2, ChainIsChosen
<1>5. ASSUME NEW i \in 0 .. n PROVE f[i] = IF i = 0 THEN <<>> ELSE OneMore(f[i - 1], v)
  BY <1>3 DEF ChainRun
<1>6. ASSUME NEW c \in Seq(S) PROVE OneMore(c, v) \in Seq(S)
  <2>1. Following(c, v) = 0 \/ Following(c, v) \in S
    <3>1. CASE c = <<>>
      BY <3>1 DEF Following
    <3>2. CASE c # <<>>
      <4>1. Last(c) \in S
        BY <3>2 DEF Last
      <4>2. QED
        BY <3>2, <4>1 DEF Following, Closed
    <3>3. QED
      BY <3>1, <3>2
  <2>2. PICK x : x = Following(c, v)
    OBVIOUS
  <2>3. OneMore(c, v) = IF x = 0 THEN c ELSE Append(c, x)
    BY <2>2, Zenon DEF OneMore
  <2>4. QED
    BY <2>1, <2>2, <2>3
<1>7. ASSUME NEW i \in 0 .. n PROVE f[i] \in Seq(S)
  <2> DEFINE Bad == {k \in 0 .. n : f[k] \notin Seq(S)}
  <2>1. SUFFICES ASSUME Bad # {} PROVE FALSE
    OBVIOUS
  <2>2. PICK m \in Bad : \A k \in Bad : m <= k
    <3>1. Bad \in SUBSET Nat
      OBVIOUS
    <3> HIDE DEF Bad
    <3>2. QED
      BY <2>1, <3>1, LeastNatural
  <2>3. m \in 0 .. n /\ f[m] \notin Seq(S)
    OBVIOUS
  <2>4. m # 0
    <3>1. <<>> \in Seq(S)
      OBVIOUS
    <3>2. QED
      BY <1>5, <2>3, <3>1
  <2>5. m - 1 \in 0 .. n /\ m - 1 < m
    BY <2>3, <2>4
  <2>6. m - 1 \notin Bad
    <3> HIDE DEF Bad
    <3>1. QED
      BY <2>2, <2>3, <2>5
  <2>7. f[m - 1] \in Seq(S)
    BY <2>5, <2>6
  <2>8. f[m] = OneMore(f[m - 1], v)
    BY <1>5, <2>3, <2>4
  <2>9. QED
    BY <1>6, <2>3, <2>7, <2>8
<1>8. n \in 0 .. n
  OBVIOUS
<1>9. QED
  BY <1>4, <1>7, <1>8

LEMMA MaxIn ==
  ASSUME NEW n \in Nat, NEW T \in SUBSET (1 .. n), T # {}
  PROVE  Max(T) \in T
<1> DEFINE D == {n - x : x \in T}
<1>1. D \in SUBSET Nat /\ D # {}
  <2>1. ASSUME NEW x \in T PROVE n - x \in Nat
    OBVIOUS
  <2>2. PICK x : x \in T
    OBVIOUS
  <2>3. n - x \in D
    BY <2>2
  <2>4. QED
    BY <2>1, <2>3
<1> HIDE DEF D
<1>2. PICK d \in D : \A e \in D : d <= e
  BY <1>1, LeastNatural
<1>3. PICK m \in T : d = n - m
  BY <1>2 DEF D
<1>4. ASSUME NEW x \in T PROVE x <= m
  <2>1. n - x \in D
    BY DEF D
  <2>2. n - m <= n - x
    BY <1>2, <1>3, <2>1
  <2>3. QED
    BY <2>2
<1>5. QED
  BY <1>4, Zenon DEF Max

\* Where a version goes, and the newest at most some version, are in the chain.
LEMMA AboveIn ==
  ASSUME NEW S, Closed(S), NEW l, leaf[l].head = 0 \/ leaf[l].head \in S, NEW v
  PROVE  Above(l, v) = 0 \/ Above(l, v) \in S
<1>1. PICK c : c = Chain(leaf[l].head)
  OBVIOUS
<1>2. c \in Seq(S)
  BY <1>1, ChainIn
<1>3. PICK at : at = {i \in DOMAIN c : ver[c[i]].version > v}
  OBVIOUS
<1>4. Above(l, v) = IF at = {} THEN 0 ELSE c[Max(at)]
  BY <1>1, <1>3, Zenon DEF Above
<1>5. Len(c) \in Nat /\ DOMAIN c = 1 .. Len(c)
  BY <1>2
<1>6. at # {} => Max(at) \in DOMAIN c
  <2>1. at \in SUBSET (1 .. Len(c))
    BY <1>3, <1>5
  <2>2. at # {} => Max(at) \in at
    BY <1>5, <2>1, MaxIn
  <2>3. QED
    BY <1>5, <2>1, <2>2
<1>7. ASSUME NEW i \in DOMAIN c PROVE c[i] \in S
  BY <1>2
<1>8. QED
  BY <1>4, <1>6, <1>7

LEMMA FindLeIn ==
  ASSUME NEW S, Closed(S), NEW l, leaf[l].head = 0 \/ leaf[l].head \in S, NEW max
  PROVE  FindLe(l, max) = 0 \/ FindLe(l, max) \in S
<1>1. PICK c : c = Chain(leaf[l].head)
  OBVIOUS
<1>2. c \in Seq(S)
  BY <1>1, ChainIn
<1>3. PICK at : at = {i \in DOMAIN c : ver[c[i]].version <= max}
  OBVIOUS
<1>4. FindLe(l, max) = IF at = {} THEN 0 ELSE c[Min(at)]
  BY <1>1, <1>3, Zenon DEF FindLe
<1>5. at \in SUBSET Nat /\ at \in SUBSET DOMAIN c
  BY <1>2, <1>3
<1>6. at # {} => Min(at) \in DOMAIN c
  BY <1>5, MinIn
<1>7. ASSUME NEW i \in DOMAIN c PROVE c[i] \in S
  BY <1>2
<1>8. QED
  BY <1>4, <1>6, <1>7


-----------------------------------------------------------------------------
(* What a step does to what is held and to what is published *)

\* PubLeaf and PubVer after the step.
NextLeaf(l) ==
  l \in LeafIds /\ leaf'[l].key # None /\ \A u \in Threads : th'[u].pc \in HeldPcs => th'[u].own # l
NextVer(v) ==
  v \in VerIds /\ ver'[v].there
  /\ \A u \in Threads : th'[u].pc \in HeldPcs \cup TombPcs => th'[u].vnode # v

\* What is allocated keeps its key and its value.
KeepsAll ==
  /\ \A l \in LeafIds : leaf[l].key # None => leaf'[l].key = leaf[l].key /\ leaf'[l].value = leaf[l].value
  /\ \A v \in VerIds : ver[v].there => ver'[v].there /\ ver'[v].value = ver[v].value

\* What t takes was free, and it lets go of leaf and version together.
HoldsMove(t) ==
  /\ Alone(t)
  /\ th'[t].pc \in HeldPcs =>
       th'[t].own = 0 \/ (Held(t) /\ th'[t].own = th[t].own) \/ leaf[th'[t].own].key = None
  /\ th'[t].pc \in HeldPcs \cup TombPcs =>
       th'[t].vnode = 0 \/ (VerHeld(t) /\ th'[t].vnode = th[t].vnode) \/ ~ver[th'[t].vnode].there
  /\ Held(t) =>
       \/ th'[t].pc \in HeldPcs /\ th'[t].own = th[t].own
       \/ th[t].own = 0
       \/ th'[t].pc \notin HeldPcs \cup TombPcs

\* The heads, links and places that change lead to what is published.
HeapMoves(t) ==
  /\ \A l \in LeafIds : leaf[l].key = None =>
       leaf'[l].key = None \/ (th'[t].pc \in HeldPcs /\ th'[t].own = l)
  /\ \A l \in LeafIds : leaf[l].key # None =>
       \/ leaf'[l].head = leaf[l].head
       \/ PubLeaf(l) /\ (leaf'[l].head = 0 \/ NextVer(leaf'[l].head))
  /\ \A v \in VerIds :
       \/ ver'[v].next = ver[v].next
       \/ /\ ver'[v].next = 0 \/ NextVer(ver'[v].next)
          /\ \A u \in Threads : u # t /\ VerHeld(u) => th[u].vnode # v
  /\ \A k \in Keys, g \in Gens :
       slot'[k][g].leaf = slot[k][g].leaf \/ slot'[k][g].leaf = 0 \/ NextLeaf(slot'[k][g].leaf)

LEMMA NoZero == 0 \notin LeafIds /\ 0 \notin VerIds
BY ArenaInsertAssumption

LEMMA PubKept ==
  ASSUME NEW t \in Threads, KeepsAll, HoldsMove(t)
  PROVE  /\ \A l : PubLeaf(l) => NextLeaf(l)
         /\ \A v : PubVer(v) => NextVer(v)
<1>0. \A u \in Threads : u # t => th'[u] = th[u]
  BY DEF HoldsMove, Alone
<1>1. ASSUME NEW l, PubLeaf(l) PROVE NextLeaf(l)
  <2>1. l \in LeafIds /\ leaf[l].key # None /\ l # 0 /\ leaf'[l].key # None
    BY <1>1, NoZero DEF PubLeaf, KeepsAll
  <2>2. ASSUME NEW u \in Threads, th'[u].pc \in HeldPcs PROVE th'[u].own # l
    <3>1. CASE u # t
      BY <1>0, <1>1, <2>2, <3>1 DEF PubLeaf, Held
    <3>2. CASE u = t
      BY <1>1, <2>1, <2>2, <3>2 DEF PubLeaf, Held, HoldsMove
    <3>3. QED
      BY <3>1, <3>2
  <2>3. QED
    BY <2>1, <2>2 DEF NextLeaf
<1>2. ASSUME NEW v, PubVer(v) PROVE NextVer(v)
  <2>1. v \in VerIds /\ ver[v].there /\ v # 0 /\ ver'[v].there
    BY <1>2, NoZero DEF PubVer, KeepsAll
  <2>2. ASSUME NEW u \in Threads, th'[u].pc \in HeldPcs \cup TombPcs PROVE th'[u].vnode # v
    <3>1. CASE u # t
      BY <1>0, <1>2, <2>2, <3>1 DEF PubVer, VerHeld
    <3>2. CASE u = t
      BY <1>2, <2>1, <2>2, <3>2 DEF PubVer, VerHeld, HoldsMove
    <3>3. QED
      BY <3>1, <3>2
  <2>3. QED
    BY <2>1, <2>2 DEF NextVer
<1>3. QED
  BY <1>1, <1>2

LEMMA HeldVer ==
  ASSUME NEW t \in Threads, HoldOK(t), VerHeld(t), th[t].vnode # 0
  PROVE  th[t].vnode \in VerIds /\ ver[th[t].vnode].there
BY DEF HoldOK, Held, VerHeld

LEMMA HeldLeaf ==
  ASSUME NEW t \in Threads, ControlOK(th[t]), HoldOK(t), Held(t), th[t].own # 0
  PROVE  /\ th[t].pc \in OwnPcs /\ th[t].own \in LeafIds /\ leaf[th[t].own].key = MyKey(t)
         /\ leaf[th[t].own].value \in {None, MyValue(t)} /\ leaf[th[t].own].head = th[t].vnode
<1>1. th[t].pc \in OwnPcs
  BY DEF ControlOK, Held
<1>2. QED
  BY <1>1 DEF HoldOK

\* A call that ends, or gives everything back, leaves no version held.
LEMMA VersionLetGo ==
  ASSUME NEW t \in Threads, HoldInv, KeepsAll, Alone(t), VerHeld(t), th[t].vnode # 0,
         th'[t].pc \notin HeldPcs \cup TombPcs
  PROVE  NextVer(th[t].vnode)
<1>1. HoldOK(t) /\ Apart
  BY DEF HoldInv
<1>2. th[t].vnode \in VerIds /\ ver[th[t].vnode].there
  BY <1>1, HeldVer
<1>3. ver'[th[t].vnode].there
  BY <1>2 DEF KeepsAll
<1>4. ASSUME NEW u \in Threads, th'[u].pc \in HeldPcs \cup TombPcs PROVE th'[u].vnode # th[t].vnode
  <2>1. u # t
    BY <1>4
  <2>2. th'[u] = th[u]
    BY <2>1 DEF Alone
  <2>3. QED
    BY <1>1, <1>4, <2>1, <2>2 DEF Apart, VerHeld
<1>5. QED
  BY <1>2, <1>3, <1>4 DEF NextVer

LEMMA LeafLetGo ==
  ASSUME NEW t \in Threads, Controls, HoldInv, KeepsAll, Alone(t), Held(t), th[t].own # 0,
         th'[t].pc \notin HeldPcs
  PROVE  NextLeaf(th[t].own)
<1>1. ASSUME NEW u \in Threads PROVE ControlOK(th[u]) /\ HoldOK(u)
  BY DEF HoldInv, Controls
<1>2. th[t].own \in LeafIds /\ leaf[th[t].own].key = MyKey(t)
  BY <1>1, HeldLeaf
<1>3. MyKey(t) # None
  BY DEF MyKey, KeyOf, None
<1>4. leaf'[th[t].own].key # None
  BY <1>2, <1>3 DEF KeepsAll
<1>5. ASSUME NEW u \in Threads, th'[u].pc \in HeldPcs, th'[u].own = th[t].own PROVE FALSE
  <2>1. u # t
    BY <1>5
  <2>2. th'[u] = th[u]
    BY <2>1 DEF Alone
  <2>3. Held(u) /\ th[u].own = th[t].own
    BY <1>5, <2>2 DEF Held
  <2>4. leaf[th[u].own].key = MyKey(u)
    BY <1>1, <2>3, HeldLeaf
  <2>5. MyKey(u) = MyKey(t)
    BY <1>2, <2>3, <2>4
  <2>6. u = t
    BY <2>5 DEF MyKey, KeyOf
  <2>7. QED
    BY <2>1, <2>6
<1>6. QED
  BY <1>2, <1>4, <1>5 DEF NextLeaf


LEMMA HoldStep ==
  ASSUME NEW t \in Threads, Controls, HoldInv, KeepsAll, HoldsMove(t), HeapMoves(t), HoldOK(t)'
  PROVE  HoldInv'
<1>0. /\ HeapOK /\ Apart /\ Alone(t)
      /\ \A u \in Threads : u # t => th'[u] = th[u]
  BY DEF HoldInv, HoldsMove, Alone
<1>1. ASSUME NEW u \in Threads PROVE HoldOK(u) /\ ControlOK(th[u])
  BY DEF HoldInv, Controls
<1>2. /\ \A l : PubLeaf(l) => NextLeaf(l)
      /\ \A v : PubVer(v) => NextVer(v)
  BY PubKept
<1>3. /\ \A l : NextLeaf(l) <=> PubLeaf(l)'
      /\ \A v : NextVer(v) <=> PubVer(v)'
  BY DEF NextLeaf, NextVer, PubLeaf, PubVer, Held, VerHeld
<1>4. ASSUME NEW k \in Keys, NEW g \in Gens
      PROVE  slot'[k][g].leaf = 0 \/ NextLeaf(slot'[k][g].leaf)
  <2>1. slot[k][g].leaf = 0 \/ PubLeaf(slot[k][g].leaf)
    BY <1>0 DEF HeapOK
  <2>2. slot'[k][g].leaf = slot[k][g].leaf \/ slot'[k][g].leaf = 0 \/ NextLeaf(slot'[k][g].leaf)
    BY DEF HeapMoves
  <2>3. QED
    BY <1>2, <2>1, <2>2
<1>5. ASSUME NEW l \in LeafIds, NextLeaf(l) PROVE leaf'[l].head = 0 \/ NextVer(leaf'[l].head)
  <2>1. leaf[l].key # None
    <3>1. leaf[l].key = None => leaf'[l].key = None \/ (th'[t].pc \in HeldPcs /\ th'[t].own = l)
      BY DEF HeapMoves
    <3>2. QED
      BY <1>5, <3>1 DEF NextLeaf
  <2>2. \/ leaf'[l].head = leaf[l].head
        \/ leaf'[l].head = 0 \/ NextVer(leaf'[l].head)
    BY <2>1 DEF HeapMoves
  <2>3. CASE PubLeaf(l)
    <3>1. leaf[l].head = 0 \/ PubVer(leaf[l].head)
      BY <1>0, <2>3 DEF HeapOK
    <3>2. QED
      BY <1>2, <2>2, <3>1
  <2>4. CASE ~PubLeaf(l)
    <3>1. PICK u \in Threads : Held(u) /\ th[u].own = l
      BY <2>1, <2>4 DEF PubLeaf
    <3>2. u = t
      <4>1. th'[u].pc \in HeldPcs => th'[u].own # l
        BY <1>5 DEF NextLeaf
      <4>2. QED
        BY <1>0, <3>1, <4>1 DEF Held
    <3>3. Held(t) /\ th[t].own = l /\ l # 0
      BY <3>1, <3>2, NoZero
    <3>4. leaf[l].head = th[t].vnode
      BY <1>1, <3>3, HeldLeaf
    <3>5. ~(th'[t].pc \in HeldPcs /\ th'[t].own = l)
      BY <1>5 DEF NextLeaf
    <3>6. th'[t].pc \notin HeldPcs \cup TombPcs
      BY <3>3, <3>5 DEF HoldsMove
    <3>7. th[t].vnode = 0 \/ NextVer(th[t].vnode)
      <4>1. VerHeld(t)
        BY <3>3 DEF Held, VerHeld
      <4>2. QED
        BY <1>0, <3>6, <4>1, VersionLetGo
    <3>8. QED
      BY <2>2, <3>4, <3>7
  <2>5. QED
    BY <2>3, <2>4
<1>6. ASSUME NEW v \in VerIds PROVE ver'[v].next = 0 \/ NextVer(ver'[v].next)
  <2>1. ver[v].next = 0 \/ PubVer(ver[v].next)
    BY <1>0 DEF HeapOK
  <2>2. ver'[v].next = ver[v].next \/ ver'[v].next = 0 \/ NextVer(ver'[v].next)
    BY DEF HeapMoves
  <2>3. QED
    BY <1>2, <2>1, <2>2
<1>7. HeapOK'
  BY <1>3, <1>4, <1>5, <1>6 DEF HeapOK
<1>8. Apart'
  <2>1. ASSUME NEW u \in Threads, u # t, VerHeld(u), th[u].vnode # 0,
               th'[t].pc \in HeldPcs \cup TombPcs
        PROVE  th'[t].vnode # th[u].vnode
    <3>1. th[u].vnode \in VerIds /\ ver[th[u].vnode].there
      BY <1>1, <2>1, HeldVer
    <3>2. th'[t].vnode = 0 \/ (VerHeld(t) /\ th'[t].vnode = th[t].vnode) \/ ~ver[th'[t].vnode].there
      BY <2>1 DEF HoldsMove
    <3>3. VerHeld(t) => th[t].vnode # th[u].vnode
      BY <1>0, <2>1 DEF Apart
    <3>4. QED
      BY <2>1, <3>1, <3>2, <3>3
  <2>2. ASSUME NEW a \in Threads, NEW u \in Threads, u # a, VerHeld(a)', VerHeld(u)', th'[a].vnode # 0
        PROVE  th'[u].vnode # th'[a].vnode
    <3>1. CASE a = t
      <4>1. th'[u] = th[u] /\ VerHeld(u)
        BY <1>0, <2>2, <3>1 DEF VerHeld
      <4>2. CASE th[u].vnode = 0
        BY <2>2, <4>1, <4>2
      <4>3. CASE th[u].vnode # 0
        BY <2>1, <2>2, <3>1, <4>1, <4>3 DEF VerHeld
      <4>4. QED
        BY <4>2, <4>3
    <3>2. CASE a # t /\ u = t
      <4>1. th'[a] = th[a] /\ VerHeld(a)
        BY <1>0, <2>2, <3>2 DEF VerHeld
      <4>2. QED
        BY <2>1, <2>2, <3>2, <4>1 DEF VerHeld
    <3>3. CASE a # t /\ u # t
      <4>1. th'[a] = th[a] /\ VerHeld(a) /\ th'[u] = th[u] /\ VerHeld(u)
        BY <1>0, <2>2, <3>3 DEF VerHeld
      <4>2. QED
        BY <1>0, <2>2, <4>1 DEF Apart
    <3>4. QED
      BY <3>1, <3>2, <3>3
  <2>3. QED
    BY <2>2 DEF Apart
<1>9. ASSUME NEW u \in Threads, u # t PROVE HoldOK(u)'
  <2>1. th'[u] = th[u] /\ HoldOK(u) /\ ControlOK(th[u])
    BY <1>0, <1>1, <1>9
  <2>2. PICK v, o, at : v = th[u].vnode /\ o = th[u].own /\ at = th[u].at
    OBVIOUS
  <2>3. ASSUME Held(u), v # 0
        PROVE  v \in VerIds /\ ver'[v].there /\ ver'[v].value \in {None, ValueOf(u, at)} /\ ver'[v].next = 0
    <3>1. v \in VerIds /\ ver[v].there /\ ver[v].value \in {None, ValueOf(u, at)} /\ ver[v].next = 0
      BY <2>1, <2>2, <2>3 DEF HoldOK, MyValue
    <3>2. ver'[v].there /\ ver'[v].value = ver[v].value
      BY <3>1 DEF KeepsAll
    <3>3. ver'[v].next = ver[v].next
      <4>1. VerHeld(u)
        BY <2>3 DEF Held, VerHeld
      <4>2. QED
        BY <1>9, <2>2, <3>1, <4>1 DEF HeapMoves
    <3>4. QED
      BY <3>1, <3>2, <3>3
  <2>4. ASSUME th[u].pc \in OwnPcs
        PROVE  /\ o \in LeafIds /\ leaf'[o].key = KeyOf(u, at)
               /\ leaf'[o].value \in {None, ValueOf(u, at)} /\ leaf'[o].head = v
    <3>1. /\ o \in LeafIds /\ leaf[o].key = KeyOf(u, at)
          /\ leaf[o].value \in {None, ValueOf(u, at)} /\ leaf[o].head = v
      BY <2>1, <2>2, <2>4 DEF HoldOK, MyValue, MyKey
    <3>2. leaf[o].key # None
      BY <3>1 DEF KeyOf, None
    <3>3. leaf'[o].key = leaf[o].key /\ leaf'[o].value = leaf[o].value
      BY <3>1, <3>2 DEF KeepsAll
    <3>4. ~PubLeaf(o)
      BY <2>2, <2>4 DEF PubLeaf, Held, OwnPcs, HeldPcs
    <3>5. leaf'[o].head = leaf[o].head
      BY <3>1, <3>2, <3>4 DEF HeapMoves
    <3>6. QED
      BY <3>1, <3>3, <3>5
  <2>5. ASSUME th[u].pc \in TombPcs
        PROVE  v \in VerIds /\ ver'[v].there
    <3>1. v \in VerIds /\ ver[v].there
      BY <2>1, <2>2, <2>5 DEF HoldOK
    <3>2. QED
      BY <3>1 DEF KeepsAll
  <2>6. th[u].target = 0 \/ NextLeaf(th[u].target)
    BY <1>2, <2>1 DEF HoldOK
  <2>7. th[u].chosen = 0 \/ NextVer(th[u].chosen)
    BY <1>2, <2>1 DEF HoldOK
  <2>8. QED
    BY <1>3, <2>1, <2>2, <2>3, <2>4, <2>5, <2>6, <2>7 DEF HoldOK, Held, MyValue, MyKey
<1>10. ASSUME NEW u \in Threads PROVE HoldOK(u)'
  BY <1>9
<1>11. QED
  BY <1>7, <1>8, <1>10 DEF HoldInv


\* t keeps what it holds or lets go of all of it.
Steady(t) ==
  /\ Alone(t) /\ SameCall(t) /\ SameHold(t)
  /\ th'[t].pc \in HeldPcs => th[t].pc \in HeldPcs
  /\ th'[t].pc \in OwnPcs => th[t].pc \in OwnPcs
  /\ th'[t].pc \in TombPcs => th[t].pc \in TombPcs

\* What t finds is published.
Finds(t) ==
  /\ th'[t].target = th[t].target \/ th'[t].target = 0 \/ PubLeaf(th'[t].target)
  /\ th'[t].chosen = th[t].chosen \/ th'[t].chosen = 0 \/ PubVer(th'[t].chosen)

LEMMA FindsOut ==
  ASSUME NEW t \in Threads, HoldInv, KeepsAll, HoldsMove(t), Finds(t)
  PROVE  /\ th'[t].target = 0 \/ NextLeaf(th'[t].target)
         /\ th'[t].chosen = 0 \/ NextVer(th'[t].chosen)
<1>1. HoldOK(t)
  BY DEF HoldInv
<1>2. /\ th[t].target = 0 \/ PubLeaf(th[t].target)
      /\ th[t].chosen = 0 \/ PubVer(th[t].chosen)
  BY <1>1 DEF HoldOK
<1>3. /\ th'[t].target = 0 \/ PubLeaf(th'[t].target)
      /\ th'[t].chosen = 0 \/ PubVer(th'[t].chosen)
  BY <1>2 DEF Finds
<1>4. QED
  BY <1>3, PubKept

LEMMA NextIsPub ==
  /\ \A l : NextLeaf(l) <=> PubLeaf(l)'
  /\ \A v : NextVer(v) <=> PubVer(v)'
BY DEF NextLeaf, NextVer, PubLeaf, PubVer, Held, VerHeld

LEMMA SteadyHolds ==
  ASSUME NEW t \in Threads, Steady(t)
  PROVE  HoldsMove(t)
BY DEF Steady, HoldsMove, SameHold, Held, VerHeld, HeldPcs, TombPcs

LEMMA StayOK ==
  ASSUME NEW t \in Threads, HoldInv, Steady(t), LeavesAs, ver' = ver, Finds(t), KeepsAll
  PROVE  HoldOK(t)'
<1>1. HoldOK(t)
  BY DEF HoldInv
<1>2. /\ th'[t].target = 0 \/ NextLeaf(th'[t].target)
      /\ th'[t].chosen = 0 \/ NextVer(th'[t].chosen)
  BY SteadyHolds, FindsOut
<1>3. /\ th[t].target' = 0 \/ PubLeaf(th[t].target)'
      /\ th[t].chosen' = 0 \/ PubVer(th[t].chosen)'
  BY <1>2, NextIsPub DEF NextLeaf, NextVer, PubLeaf, PubVer, Held, VerHeld
<1>4. PICK v, o : v = th[t].vnode /\ o = th[t].own
  OBVIOUS
<1>5. th'[t].vnode = v /\ th'[t].own = o /\ MyKey(t)' = MyKey(t) /\ MyValue(t)' = MyValue(t)
  BY <1>4 DEF Steady, SameHold, SameCall, MyKey, MyValue
<1>6. ASSUME th'[t].pc \in HeldPcs, v # 0
      PROVE  /\ v \in VerIds /\ ver'[v].there
             /\ ver'[v].value \in {None, MyValue(t)} /\ ver'[v].next = 0
  BY <1>1, <1>4, <1>6 DEF HoldOK, Steady, Held
<1>7. ASSUME th'[t].pc \in OwnPcs
      PROVE  /\ o \in LeafIds /\ leaf'[o].key = MyKey(t)
             /\ leaf'[o].value \in {None, MyValue(t)} /\ leaf'[o].head = v
  <2>1. /\ o \in LeafIds /\ leaf[o].key = MyKey(t)
        /\ leaf[o].value \in {None, MyValue(t)} /\ leaf[o].head = v
    BY <1>1, <1>4, <1>7 DEF HoldOK, Steady
  <2>2. QED
    BY <2>1 DEF LeavesAs
<1>8. ASSUME th'[t].pc \in TombPcs PROVE v \in VerIds /\ ver'[v].there
  BY <1>1, <1>4, <1>8 DEF HoldOK, Steady
<1>9. QED
  BY <1>3, <1>5, <1>6, <1>7, <1>8 DEF HoldOK, Held

LEMMA FreeOK ==
  ASSUME NEW t \in Threads, HoldInv, th'[t].pc \notin HeldPcs \cup TombPcs, HoldsMove(t), Finds(t), KeepsAll
  PROVE  HoldOK(t)'
<1>1. /\ th'[t].target = 0 \/ NextLeaf(th'[t].target)
      /\ th'[t].chosen = 0 \/ NextVer(th'[t].chosen)
  BY FindsOut
<1>2. /\ th[t].target' = 0 \/ PubLeaf(th[t].target)'
      /\ th[t].chosen' = 0 \/ PubVer(th[t].chosen)'
  BY <1>1 DEF NextLeaf, NextVer, PubLeaf, PubVer, Held, VerHeld
<1>3. th'[t].pc \notin HeldPcs /\ th'[t].pc \notin OwnPcs /\ th'[t].pc \notin TombPcs
  BY DEF HeldPcs, OwnPcs, TombPcs
<1>4. QED
  BY <1>2, <1>3 DEF HoldOK, Held

LEMMA LeavesKeep ==
  ASSUME NEW t \in Threads, LeavesAs, ver' = ver, SlotsTo(0)
  PROVE  KeepsAll /\ HeapMoves(t)
<1>1. KeepsAll
  BY DEF KeepsAll, LeavesAs
<1>2. \A l \in LeafIds : leaf'[l].key = leaf[l].key /\ leaf'[l].head = leaf[l].head
  BY DEF LeavesAs
<1>3. \A k \in Keys, g \in Gens : slot'[k][g].leaf = slot[k][g].leaf \/ slot'[k][g].leaf = 0
  BY DEF SlotsTo
<1>4. QED
  BY <1>1, <1>2, <1>3 DEF HeapMoves

\* A step that changes neither chains nor keys.
LEMMA HoldSteady ==
  ASSUME NEW t \in Threads, Controls, HoldInv, Steady(t), Finds(t), LeavesAs, ver' = ver, SlotsTo(0)
  PROVE  HoldInv'
<1>1. KeepsAll /\ HeapMoves(t)
  BY LeavesKeep
<1>2. HoldsMove(t)
  BY SteadyHolds
<1>3. HoldOK(t)'
  BY <1>1, StayOK
<1>4. QED
  BY <1>1, <1>2, <1>3, HoldStep

LEMMA HoldAlike ==
  ASSUME NEW t \in Threads, Base, HoldInv, Steady(t), Finds(t), slot' = slot, leaf' = leaf, ver' = ver
  PROVE  HoldInv'
<1>1. Controls /\ SlotsOK /\ LeavesOK
  BY DEF Base, Shapes
<1>2. LeavesAs /\ SlotsTo(0)
  BY <1>1, LeavesStay, SlotsStay
<1>3. QED
  BY <1>1, <1>2, HoldSteady

LEMMA HoldFresh ==
  ASSUME NEW t \in Threads, Base, HoldInv, ~VerHeld(t), NEW at, NEW call, NEW pc, Fresh(t, at, call, pc),
         pc \notin OwnPcs \cup TombPcs, slot' = slot, leaf' = leaf, ver' = ver
  PROVE  HoldInv'
<1>1. Controls /\ SlotsOK /\ LeavesOK
  BY DEF Base, Shapes
<1>2. LeavesAs /\ SlotsTo(0)
  BY <1>1, LeavesStay, SlotsStay
<1>3. KeepsAll /\ HeapMoves(t)
  BY <1>2, LeavesKeep
<1>4. HoldsMove(t)
  BY DEF HoldsMove, Fresh, VerHeld, Held
<1>5. HoldOK(t)'
  BY DEF HoldOK, Fresh
<1>6. QED
  BY <1>1, <1>3, <1>4, <1>5, HoldStep

LEMMA HereFound ==
  ASSUME NEW t \in Threads, Base, HoldInv, th[t].pc # "idle"
  PROVE  Here(t).leaf = 0 \/ PubLeaf(Here(t).leaf)
<1>1. ThreadOK(th[t]) /\ gen \in Gens
  BY DEF Base, Shapes, ThreadsOK
<1>2. Key(t) \in Keys
  BY <1>1 DEF ThreadOK, AnyCall, Key
<1>3. QED
  BY <1>1, <1>2 DEF HoldInv, HeapOK, Here


-----------------------------------------------------------------------------
(* Every step keeps what is held and what is published *)

Pub == {v \in VerIds : PubVer(v)}

LEMMA PubClosed ==
  ASSUME HoldInv
  PROVE  Closed(Pub)
<1>1. ASSUME NEW x \in Pub PROVE ver[x].next = 0 \/ ver[x].next \in Pub
  <2>1. ver[x].next = 0 \/ PubVer(ver[x].next)
    BY DEF HoldInv, HeapOK, Pub
  <2>2. QED
    BY <2>1 DEF Pub, PubVer
<1>2. QED
  BY <1>1 DEF Closed

LEMMA PubHead ==
  ASSUME HoldInv, NEW l, PubLeaf(l)
  PROVE  leaf[l].head = 0 \/ leaf[l].head \in Pub
<1>1. l \in LeafIds
  BY DEF PubLeaf
<1>2. leaf[l].head = 0 \/ PubVer(leaf[l].head)
  BY <1>1 DEF HoldInv, HeapOK
<1>3. QED
  BY <1>2 DEF Pub, PubVer

LEMMA FollowingPub ==
  ASSUME HoldInv, NEW v, PubVer(v)
  PROVE  ver[v].next = 0 \/ PubVer(ver[v].next)
<1>1. v \in VerIds
  BY DEF PubVer
<1>2. QED
  BY <1>1 DEF HoldInv, HeapOK

\* The version before a place in a chain, and the one at it.
LEMMA AroundPub ==
  ASSUME HoldInv, NEW l, PubLeaf(l), NEW v
  PROVE  /\ Above(l, v) = 0 \/ PubVer(Above(l, v))
         /\ \A c : c = (IF Above(l, v) = 0 THEN leaf[l].head ELSE ver[Above(l, v)].next) => c = 0 \/ PubVer(c)
<1>1. PICK a : a = Above(l, v)
  OBVIOUS
<1>2. a = 0 \/ a \in Pub
  BY <1>1, PubClosed, PubHead, AboveIn
<1>3. a = 0 \/ PubVer(a)
  BY <1>2 DEF Pub
<1>4. leaf[l].head = 0 \/ PubVer(leaf[l].head)
  BY PubHead DEF Pub
<1>5. a # 0 => ver[a].next = 0 \/ PubVer(ver[a].next)
  BY <1>3, FollowingPub
<1>6. QED
  BY <1>1, <1>3, <1>4, <1>5

LEMMA NewestPub ==
  ASSUME HoldInv, NEW l, PubLeaf(l), NEW max
  PROVE  FindLe(l, max) = 0 \/ PubVer(FindLe(l, max))
<1>1. FindLe(l, max) = 0 \/ FindLe(l, max) \in Pub
  BY PubClosed, PubHead, FindLeIn
<1>2. QED
  BY <1>1 DEF Pub

LEMMA TargetPub ==
  ASSUME NEW t \in Threads, Controls, HoldInv, th[t].pc \in TargetPcs
  PROVE  PubLeaf(th[t].target)
<1>1. HoldOK(t) /\ ControlOK(th[t])
  BY DEF HoldInv, Controls
<1>2. th[t].target # 0
  BY <1>1 DEF ControlOK
<1>3. QED
  BY <1>1, <1>2 DEF HoldOK

\* Links of one or two versions and the head of one leaf change.
LEMMA HoldLinked ==
  ASSUME NEW t \in Threads, Controls, HoldInv, HoldsMove(t), th'[t].pc \notin HeldPcs \cup TombPcs, Finds(t),
         NEW l, NEW h, LeavesTo(l, h), NEW a, NEW na, NEW b, NEW nb, VersLinked(a, na, b, nb), slot' = slot,
         l # 0 => PubLeaf(l), h = 0 \/ PubVer(h) \/ (h = th[t].vnode /\ VerHeld(t)),
         na = 0 \/ PubVer(na), nb = 0 \/ PubVer(nb) \/ (nb = th[t].vnode /\ VerHeld(t)),
         a = 0 \/ PubVer(a) \/ (a = th[t].vnode /\ VerHeld(t)), b = 0 \/ PubVer(b)
  PROVE  HoldInv'
<1>1. Alone(t) /\ Apart
  BY DEF HoldsMove, HoldInv
<1>2. KeepsAll
  BY DEF KeepsAll, LeavesTo, VersLinked
<1>3. \A v : PubVer(v) => NextVer(v)
  BY <1>2, PubKept
<1>4. VerHeld(t) => th[t].vnode = 0 \/ NextVer(th[t].vnode)
  BY <1>1, <1>2, VersionLetGo
<1>5. /\ h = 0 \/ NextVer(h)
      /\ na = 0 \/ NextVer(na)
      /\ nb = 0 \/ NextVer(nb)
  BY <1>3, <1>4
<1>6. ASSUME NEW x \in LeafIds, leaf[x].key # None
      PROVE  \/ leaf'[x].head = leaf[x].head
             \/ PubLeaf(x) /\ (leaf'[x].head = 0 \/ NextVer(leaf'[x].head))
  <2>1. leaf'[x].head = leaf[x].head \/ (x = l /\ leaf'[x].head = h)
    BY DEF LeavesTo
  <2>2. x # 0
    BY NoZero
  <2>3. QED
    BY <1>5, <2>1, <2>2
<1>7. ASSUME NEW v \in VerIds
      PROVE  \/ ver'[v].next = ver[v].next
             \/ /\ ver'[v].next = 0 \/ NextVer(ver'[v].next)
                /\ \A u \in Threads : u # t /\ VerHeld(u) => th[u].vnode # v
  <2>1. \/ ver'[v].next = ver[v].next
        \/ v = a /\ ver'[v].next = na
        \/ v = b /\ ver'[v].next = nb
    BY DEF VersLinked
  <2>2. v # 0
    BY NoZero
  <2>3. PubVer(v) => \A u \in Threads : VerHeld(u) => th[u].vnode # v
    BY DEF PubVer
  <2>4. v = th[t].vnode /\ VerHeld(t) => \A u \in Threads : u # t /\ VerHeld(u) => th[u].vnode # v
    BY <1>1, <2>2 DEF Apart
  <2>5. QED
    BY <1>5, <2>1, <2>2, <2>3, <2>4
<1>8. \A x \in LeafIds : leaf'[x].key = leaf[x].key
  BY DEF LeavesTo
<1>9. HeapMoves(t)
  BY <1>6, <1>7, <1>8 DEF HeapMoves
<1>10. HoldOK(t)'
  BY <1>2, FreeOK
<1>11. QED
  BY <1>2, <1>9, <1>10, HoldStep


LEMMA HoldApplied ==
  ASSUME NEW t \in Threads, Base, HoldInv, th[t].pc \in {"apply", "existing"}, slot' = slot,
         Applied(t, th[t].target)
  PROVE  HoldInv'
<1>1. ThreadsOK /\ VersOK /\ LeavesOK /\ Controls /\ HoldOK(t) /\ ControlOK(th[t])
  BY DEF Base, Shapes, HoldInv, Controls
<1>2. Alone(t) /\ SameCall(t) /\ SameHold(t) /\ SameView(t) /\ th'[t].pc = "retire"
  BY <1>1, AppliedDoes
<1>3. th'[t].pc \notin HeldPcs \cup TombPcs /\ VerHeld(t)
  BY <1>2 DEF HeldPcs, TombPcs, VerHeld
<1>4. HoldsMove(t) /\ Finds(t)
  BY <1>2, <1>3 DEF HoldsMove, Finds, SameView
<1>5. PICK l, x : l = th[t].target /\ x = th[t].vnode
  OBVIOUS
<1>6. PubLeaf(l)
  BY <1>1, <1>5, TargetPub DEF TargetPcs
<1>7. PICK a, c, n : a = AppliedAfter(t, l) /\ c = AppliedAt(t, l) /\ n = AppliedNext(t, l)
  OBVIOUS
<1>8. LeavesTo(l, x) /\ VersLinked(x, n, a, x)
  BY <1>1, <1>5, <1>7, AppliedVers, AppliedLeaves
<1>9. a = 0 \/ PubVer(a)
  BY <1>6, <1>7, AroundPub DEF AppliedAfter
<1>10. c = 0 \/ PubVer(c)
  <2>1. PICK v : v = ver[th[t].vnode].version
    OBVIOUS
  <2>2. c = IF Above(l, v) = 0 THEN leaf[l].head ELSE ver[Above(l, v)].next
    BY <1>7, <2>1 DEF AppliedAt, AppliedAfter
  <2>3. QED
    BY <1>6, <2>2, AroundPub
<1>11. n = 0 \/ PubVer(n)
  <2>1. n = c \/ (c # 0 /\ n = ver[c].next)
    BY <1>7 DEF AppliedNext
  <2>2. c # 0 => ver[c].next = 0 \/ PubVer(ver[c].next)
    BY <1>10, FollowingPub
  <2>3. QED
    BY <1>10, <2>1, <2>2
<1>12. QED
  BY <1>1, <1>3, <1>4, <1>5, <1>6, <1>8, <1>9, <1>11, HoldLinked

LEMMA HoldCutHead ==
  ASSUME NEW t \in Threads, Base, HoldInv, CutHead(t)
  PROVE  HoldInv'
<1>1. ThreadsOK /\ Controls /\ HoldOK(t) /\ ControlOK(th[t]) /\ Shapes
  BY SMTT(40) DEF Base, Shapes, HoldInv, Controls
<1>2. th[t].pc = "cuthead" /\ Moves(t)
  BY <1>1, CutHeadDoes
<1>3. /\ slot' = slot
      /\ \/ th'[t].pc \in {"relook", "done"} /\ Alike
         \/ /\ th'[t].pc = "retire" /\ LeavesTo(th[t].target, th[t].vnode)
            /\ VersLinked(th[t].vnode, ver[leaf[th[t].target].head].next,
                          th[t].vnode, ver[leaf[th[t].target].head].next)
  BY <1>1, CutHeadHeap
<1>4. CASE th'[t].pc \in {"relook", "done"} /\ Alike
  <2>1. Steady(t) /\ Finds(t)
    BY <1>2, <1>4, SMTT(40) DEF Steady, Finds, Moves, SameView, HeldPcs, OwnPcs, TombPcs
  <2>2. QED
    BY <1>3, <1>4, <2>1, HoldAlike DEF Alike
<1>5. CASE th'[t].pc = "retire" /\ ~(th'[t].pc \in {"relook", "done"} /\ Alike)
  <2>1. th'[t].pc \notin HeldPcs \cup TombPcs /\ VerHeld(t)
    BY <1>2, <1>5 DEF HeldPcs, TombPcs, VerHeld
  <2>2. HoldsMove(t) /\ Finds(t)
    BY <1>2, <2>1 DEF HoldsMove, Finds, SameView, Moves
  <2>3. PICK l, x, h, n : l = th[t].target /\ x = th[t].vnode /\ h = leaf[l].head /\ n = ver[h].next
    OBVIOUS
  <2>4. PubLeaf(l)
    BY <1>1, <1>2, <2>3, TargetPub, SMTT(40) DEF TargetPcs
  <2>5. LeavesTo(l, x) /\ VersLinked(x, n, x, n)
    BY <1>3, <1>5, <2>3
  <2>6. h # 0
    <3>1. ~Goto(t, "relook") /\ ~Goto(t, "done")
      <4>1. Goto(t, "relook") => th'[t].pc = "relook"
        BY <1>1, GotoDoes
      <4>2. Goto(t, "done") => th'[t].pc = "done"
        BY <1>1, GotoDoes
      <4>3. QED
        BY <1>5, <4>1, <4>2
    <3>2. Live(l)
      BY <2>3, <3>1, Zenon DEF CutHead
    <3>3. QED
      BY <2>3, <3>2 DEF Live
  <2>7. PubVer(h)
    BY <2>3, <2>4, <2>6, PubHead DEF Pub
  <2>8. n = 0 \/ PubVer(n)
    BY <2>3, <2>7, FollowingPub
  <2>9. VersLinked(x, n, 0, 0)
    BY <2>5 DEF VersLinked
  <2>10. QED
    BY <1>1, <1>3, <2>1, <2>2, <2>3, <2>4, <2>8, <2>9, <2>5, HoldLinked
<1>6. QED
  BY <1>3, <1>4, <1>5

LEMMA HoldCutVersion ==
  ASSUME NEW t \in Threads, Base, HoldInv, CutVersion(t)
  PROVE  HoldInv'
<1>1. ThreadsOK /\ Controls /\ Shapes
  BY DEF Base, Shapes
<1>2. th[t].pc = "cut" /\ Moves(t)
  BY <1>1, CutVersionDoes
<1>3. /\ slot' = slot
      /\ \/ th'[t].pc \in {"look", "done"} /\ Alike
         \/ /\ th'[t].pc = "retire" /\ CutAt(t) # 0 /\ LeavesTo(th[t].target, CutHeadTo(t))
            /\ VersLinked(CutAfter(t), ver[CutAt(t)].next, CutAfter(t), ver[CutAt(t)].next)
  BY <1>1, CutVersionHeap
<1>4. CASE th'[t].pc \in {"look", "done"} /\ Alike
  <2>1. Steady(t) /\ Finds(t)
    BY <1>2, <1>4 DEF Steady, Finds, Moves, SameView, HeldPcs, OwnPcs, TombPcs
  <2>2. QED
    BY <1>3, <1>4, <2>1, HoldAlike DEF Alike
<1>5. CASE /\ th'[t].pc = "retire" /\ CutAt(t) # 0 /\ LeavesTo(th[t].target, CutHeadTo(t))
           /\ VersLinked(CutAfter(t), ver[CutAt(t)].next, CutAfter(t), ver[CutAt(t)].next)
  <2>1. th'[t].pc \notin HeldPcs \cup TombPcs
    BY <1>5 DEF HeldPcs, TombPcs
  <2>2. HoldsMove(t) /\ Finds(t)
    BY <1>2, <2>1 DEF HoldsMove, Finds, SameView, Moves
  <2>3. PICK l, a, c, n, h : l = th[t].target /\ a = CutAfter(t) /\ c = CutAt(t) /\ n = ver[c].next /\ h = CutHeadTo(t)
    OBVIOUS
  <2>4. PubLeaf(l)
    BY <1>1, <1>2, <2>3, TargetPub DEF TargetPcs
  <2>5. LeavesTo(l, h) /\ VersLinked(a, n, a, n) /\ c # 0
    BY <1>5, <2>3
  <2>6. a = 0 \/ PubVer(a)
    BY <2>3, <2>4, AroundPub DEF CutAfter
  <2>7. PubVer(c)
    <3>1. PICK v : v = th[t].call.ver
      OBVIOUS
    <3>2. c = IF Above(l, v) = 0 THEN leaf[l].head ELSE ver[Above(l, v)].next
      BY <2>3, <3>1 DEF CutAt, CutAfter
    <3>3. QED
      BY <2>4, <2>5, <3>2, AroundPub
  <2>8. n = 0 \/ PubVer(n)
    BY <2>3, <2>7, FollowingPub
  <2>9. h = 0 \/ PubVer(h)
    <3>1. h = n \/ h = leaf[l].head
      BY <2>3 DEF CutHeadTo
    <3>2. leaf[l].head = 0 \/ PubVer(leaf[l].head)
      BY <2>4, PubHead DEF Pub
    <3>3. QED
      BY <2>8, <3>1, <3>2
  <2>10. QED
    BY <1>1, <1>3, <2>1, <2>2, <2>4, <2>5, <2>6, <2>8, <2>9, HoldLinked
<1>6. QED
  BY <1>3, <1>4, <1>5

LEMMA HoldCutPrune ==
  ASSUME NEW t \in Threads, Base, HoldInv, CutPrune(t)
  PROVE  HoldInv'
<1>1. ThreadsOK /\ Controls /\ Shapes /\ HoldOK(t) /\ LeavesOK
  BY DEF Base, Shapes, HoldInv
<1>2. th[t].pc = "cutprune" /\ Moves(t)
  BY <1>1, CutPruneDoes
<1>3. /\ slot' = slot /\ leaf' = leaf
      /\ \/ th'[t].pc \in {"done", "choose"} /\ ver' = ver
         \/ th'[t].pc = "retire" /\ VersLinked(th[t].chosen, 0, th[t].chosen, 0)
  BY <1>1, CutPruneHeap
<1>4. CASE th'[t].pc \in {"done", "choose"} /\ ver' = ver
  <2>1. Steady(t) /\ Finds(t)
    BY <1>2, <1>4 DEF Steady, Finds, Moves, SameView, HeldPcs, OwnPcs, TombPcs
  <2>2. QED
    BY <1>3, <1>4, <2>1, HoldAlike
<1>5. CASE th'[t].pc = "retire" /\ VersLinked(th[t].chosen, 0, th[t].chosen, 0)
  <2>1. th'[t].pc \notin HeldPcs \cup TombPcs
    BY <1>5 DEF HeldPcs, TombPcs
  <2>2. HoldsMove(t) /\ Finds(t)
    BY <1>2, <2>1 DEF HoldsMove, Finds, SameView, Moves
  <2>3. PICK a : a = th[t].chosen
    OBVIOUS
  <2>4. a = 0 \/ PubVer(a)
    BY <1>1, <2>3 DEF HoldOK
  <2>5. LeavesTo(0, 0) /\ VersLinked(a, 0, a, 0)
    BY <1>1, <1>3, <1>5, <2>3, LeavesStay DEF LeavesTo, LeavesAs
  <2>6. QED
    BY <1>1, <1>3, <2>1, <2>2, <2>4, <2>5, HoldLinked
<1>6. QED
  BY <1>3, <1>4, <1>5


\* A version comes that was not there.
LEMMA NewVersion ==
  ASSUME NEW t \in Threads, HoldInv, NEW v, v \in VerIds, ~ver[v].there, VersWith(v), leaf' = leaf, slot' = slot
  PROVE  KeepsAll /\ HeapMoves(t)
<1>1. \A w \in VerIds : w # v => ver'[w] = ver[w]
  BY DEF VersWith
<1>2. ASSUME NEW u \in Threads, VerHeld(u) PROVE th[u].vnode # v
  <2>1. HoldOK(u)
    BY DEF HoldInv
  <2>2. QED
    BY <1>2, <2>1, HeldVer, NoZero
<1>3. KeepsAll
  BY <1>1 DEF KeepsAll
<1>4. ASSUME NEW w \in VerIds
      PROVE  \/ ver'[w].next = ver[w].next
             \/ ver'[w].next = 0 /\ \A u \in Threads : u # t /\ VerHeld(u) => th[u].vnode # w
  <2>1. ver'[v].next = ver[v].next \/ ver'[v].next = 0
    BY DEF VersWith
  <2>2. QED
    BY <1>1, <1>2, <2>1
<1>5. QED
  BY <1>3, <1>4 DEF HeapMoves

LEMMA HoldAllocVersion ==
  ASSUME NEW t \in Threads, Base, HoldInv, AllocVersion(t)
  PROVE  HoldInv'
<1>1. ThreadsOK /\ Controls /\ Shapes /\ HoldOK(t) /\ ControlOK(th[t])
  BY DEF Base, Shapes, HoldInv, Controls
<1>2. /\ slot' = slot /\ leaf' = leaf
      /\ \/ /\ Fits("version") /\ FreeVers # {} /\ VersWith(FreshVer)
            /\ ver'[FreshVer].value \in {None, MyValue(t)} /\ ver'[FreshVer].next = 0
         \/ ~Fits("version") /\ Full(t) /\ ver' = ver
  BY <1>1, AllocVersionHeap
<1>3. /\ th[t].pc = "version" /\ Alone(t) /\ SameCall(t) /\ SameView(t) /\ th'[t].own = th[t].own
      /\ \/ /\ Fits("version") /\ th'[t].vnode = FreshVer
            /\ th'[t].pc = IF th[t].target # 0 THEN "apply" ELSE "leaf"
         \/ ~Fits("version") /\ SameHold(t) /\ th'[t].pc = "full"
  BY <1>1, AllocVersionDoes
<1>4. Finds(t)
  BY <1>3 DEF Finds, SameView
<1>5. CASE ~Fits("version")
  <2>1. Steady(t)
    BY <1>3, <1>5 DEF Steady, HeldPcs, OwnPcs, TombPcs
  <2>2. QED
    BY <1>2, <1>4, <1>5, <2>1, HoldAlike
<1>6. CASE Fits("version")
  <2>1. PICK v : v = FreshVer
    OBVIOUS
  <2>2. /\ v \in VerIds /\ ~ver[v].there /\ v # 0 /\ VersWith(v)
        /\ ver'[v].value \in {None, MyValue(t)} /\ ver'[v].next = 0 /\ ver'[v].there
    BY <1>2, <1>6, <2>1, FreshVerIn DEF VersWith
  <2>3. KeepsAll /\ HeapMoves(t)
    BY <1>2, <2>2, NewVersion
  <2>4. /\ th'[t].vnode = v /\ th'[t].pc \in {"apply", "leaf"} /\ Held(t)
        /\ th'[t].pc \in HeldPcs /\ th'[t].pc \notin OwnPcs /\ th'[t].pc \notin TombPcs
    BY <1>3, <1>6, <2>1 DEF Held, HeldPcs, OwnPcs, TombPcs
  <2>5. HoldsMove(t)
    BY <1>3, <2>2, <2>4 DEF HoldsMove
  <2>6. /\ th'[t].target = 0 \/ NextLeaf(th'[t].target)
        /\ th'[t].chosen = 0 \/ NextVer(th'[t].chosen)
    BY <1>4, <2>3, <2>5, FindsOut
  <2>7. /\ th[t].target' = 0 \/ PubLeaf(th[t].target)'
        /\ th[t].chosen' = 0 \/ PubVer(th[t].chosen)'
    BY <2>6 DEF NextLeaf, NextVer, PubLeaf, PubVer, Held, VerHeld
  <2>8. MyValue(t)' = MyValue(t)
    BY <1>3 DEF MyValue, SameCall
  <2>9. HoldOK(t)'
    BY <2>2, <2>4, <2>7, <2>8 DEF HoldOK
  <2>10. QED
    BY <1>1, <2>3, <2>5, <2>9, HoldStep
<1>7. QED
  BY <1>5, <1>6

LEMMA HoldAllocTomb ==
  ASSUME NEW t \in Threads, Base, HoldInv, AllocTomb(t)
  PROVE  HoldInv'
<1>1. ThreadsOK /\ Controls /\ Shapes
  BY DEF Base, Shapes
<1>2. /\ slot' = slot /\ leaf' = leaf
      /\ \/ th'[t].pc = "relook" /\ FreeVers # {} /\ VersWith(FreshVer)
         \/ th'[t].pc = "full" /\ ver' = ver
  BY <1>1, AllocTombHeap
<1>3. /\ th[t].pc = "tomb" /\ Alone(t) /\ SameCall(t) /\ SameView(t) /\ th'[t].own = th[t].own
      /\ \/ th'[t].pc = "relook" /\ th'[t].vnode = FreshVer
         \/ th'[t].pc = "full" /\ th'[t].vnode = th[t].vnode
  BY <1>1, AllocTombDoes
<1>4. Finds(t)
  BY <1>3 DEF Finds, SameView
<1>5. CASE th'[t].pc = "full"
  <2>1. Steady(t)
    BY <1>3, <1>5 DEF Steady, HeldPcs, OwnPcs, TombPcs, SameHold
  <2>2. QED
    BY <1>2, <1>4, <1>5, <2>1, HoldAlike
<1>6. CASE th'[t].pc = "relook"
  <2>1. PICK v : v = FreshVer
    OBVIOUS
  <2>2. v \in VerIds /\ ~ver[v].there /\ v # 0 /\ VersWith(v) /\ ver'[v].there
    BY <1>2, <1>6, <2>1, FreshVerIn DEF VersWith
  <2>3. KeepsAll /\ HeapMoves(t)
    BY <1>2, <2>2, NewVersion
  <2>4. /\ th'[t].vnode = v /\ ~Held(t) /\ th'[t].pc \notin HeldPcs /\ th'[t].pc \notin OwnPcs
    BY <1>3, <1>6, <2>1 DEF Held, HeldPcs, OwnPcs
  <2>5. HoldsMove(t)
    BY <1>3, <2>2, <2>4 DEF HoldsMove
  <2>6. /\ th'[t].target = 0 \/ NextLeaf(th'[t].target)
        /\ th'[t].chosen = 0 \/ NextVer(th'[t].chosen)
    BY <1>4, <2>3, <2>5, FindsOut
  <2>7. /\ th[t].target' = 0 \/ PubLeaf(th[t].target)'
        /\ th[t].chosen' = 0 \/ PubVer(th[t].chosen)'
    BY <2>6 DEF NextLeaf, NextVer, PubLeaf, PubVer, Held, VerHeld
  <2>8. HoldOK(t)'
    BY <2>2, <2>4, <2>7 DEF HoldOK, Held
  <2>9. QED
    BY <1>1, <2>3, <2>5, <2>8, HoldStep
<1>7. QED
  BY <1>3, <1>5, <1>6

LEMMA HoldAllocLeaf ==
  ASSUME NEW t \in Threads, Base, HoldInv, AllocLeaf(t)
  PROVE  HoldInv'
<1>1. ThreadsOK /\ Controls /\ Shapes /\ HoldOK(t) /\ ControlOK(th[t])
  BY DEF Base, Shapes, HoldInv, Controls
<1>2. /\ slot' = slot /\ ver' = ver
      /\ \/ /\ Fits("leaf") /\ FreeLeaves # {}
            /\ \E v \in {None, MyValue(t)} : LeavesWith(FreshLeaf, MyKey(t), th[t].vnode, v)
         \/ ~Fits("leaf") /\ Full(t) /\ leaf' = leaf
  BY <1>1, AllocLeafHeap
<1>3. /\ th[t].pc = "leaf" /\ Alone(t) /\ SameCall(t) /\ SameView(t) /\ th'[t].vnode = th[t].vnode
      /\ \/ Fits("leaf") /\ th'[t].own = FreshLeaf /\ th'[t].pc \in {"fast", "call"}
         \/ ~Fits("leaf") /\ SameHold(t) /\ th'[t].pc = "full"
  BY <1>1, AllocLeafDoes
<1>4. Finds(t)
  BY <1>3 DEF Finds, SameView
<1>5. CASE ~Fits("leaf")
  <2>1. Steady(t)
    BY <1>3, <1>5 DEF Steady, HeldPcs, OwnPcs, TombPcs
  <2>2. QED
    BY <1>2, <1>4, <1>5, <2>1, HoldAlike
<1>6. CASE Fits("leaf")
  <2>1. PICK l : l = FreshLeaf
    OBVIOUS
  <2>2. l \in LeafIds /\ leaf[l].key = None /\ l # 0
    BY <1>2, <1>6, <2>1, FreshLeafIn
  <2>3. PICK val \in {None, MyValue(t)} : LeavesWith(l, MyKey(t), th[t].vnode, val)
    BY <1>2, <1>6, <2>1
  <2>4. /\ leaf'[l].key = MyKey(t) /\ leaf'[l].head = th[t].vnode /\ leaf'[l].value = val
        /\ \A x \in LeafIds : x # l => leaf'[x] = leaf[x]
    BY <2>3 DEF LeavesWith
  <2>5. /\ th'[t].own = l /\ th'[t].pc \in HeldPcs /\ Held(t) /\ VerHeld(t) /\ th'[t].pc \notin TombPcs
        /\ th[t].own = 0
    BY <1>1, <1>3, <1>6, <2>1 DEF Held, VerHeld, HeldPcs, OwnPcs, TombPcs, ControlOK
  <2>6. KeepsAll
    BY <1>2, <2>2, <2>4 DEF KeepsAll
  <2>7. HeapMoves(t)
    BY <1>2, <2>2, <2>4, <2>5 DEF HeapMoves
  <2>8. HoldsMove(t)
    BY <1>3, <2>2, <2>5 DEF HoldsMove
  <2>9. /\ th'[t].target = 0 \/ NextLeaf(th'[t].target)
        /\ th'[t].chosen = 0 \/ NextVer(th'[t].chosen)
    BY <1>4, <2>6, <2>8, FindsOut
  <2>10. /\ th[t].target' = 0 \/ PubLeaf(th[t].target)'
         /\ th[t].chosen' = 0 \/ PubVer(th[t].chosen)'
    BY <2>9 DEF NextLeaf, NextVer, PubLeaf, PubVer, Held, VerHeld
  <2>11. MyValue(t)' = MyValue(t) /\ MyKey(t)' = MyKey(t)
    BY <1>3 DEF MyValue, MyKey, SameCall
  <2>12. th[t].vnode # 0 =>
           /\ th[t].vnode \in VerIds /\ ver[th[t].vnode].there
           /\ ver[th[t].vnode].value \in {None, MyValue(t)} /\ ver[th[t].vnode].next = 0
    BY <1>1, <2>5 DEF HoldOK
  <2>13. HoldOK(t)'
    BY <1>2, <1>3, <2>2, <2>3, <2>4, <2>5, <2>10, <2>11, <2>12 DEF HoldOK
  <2>14. QED
    BY <1>1, <2>6, <2>7, <2>8, <2>13, HoldStep
<1>7. QED
  BY <1>5, <1>6

\* The leaf is published, with its version.
LEMMA HoldPlaced ==
  ASSUME NEW t \in Threads, Base, HoldInv, th[t].pc \in OwnPcs, Alone(t), SameHold(t), SameView(t),
         th'[t].pc \notin HeldPcs \cup TombPcs, SlotsTo(th[t].own), LeavesAs, ver' = ver
  PROVE  HoldInv'
<1>1. Controls /\ HoldOK(t)
  BY DEF Base, HoldInv
<1>2. Held(t) /\ th[t].own # 0
  <2>1. th[t].own \in LeafIds
    BY <1>1 DEF HoldOK
  <2>2. QED
    BY <2>1, NoZero DEF Held, OwnPcs, HeldPcs
<1>3. KeepsAll
  BY DEF KeepsAll, LeavesAs
<1>4. HoldsMove(t) /\ Finds(t)
  BY DEF HoldsMove, Finds, SameView
<1>5. NextLeaf(th[t].own)
  BY <1>1, <1>2, <1>3, LeafLetGo
<1>6. HeapMoves(t)
  <2>1. \A l \in LeafIds : leaf'[l].key = leaf[l].key /\ leaf'[l].head = leaf[l].head
    BY DEF LeavesAs
  <2>2. \A k \in Keys, g \in Gens : slot'[k][g].leaf = slot[k][g].leaf \/ slot'[k][g].leaf = th[t].own
    BY DEF SlotsTo
  <2>3. QED
    BY <1>5, <2>1, <2>2 DEF HeapMoves
<1>7. HoldOK(t)'
  BY <1>3, <1>4, FreeOK
<1>8. QED
  BY <1>1, <1>3, <1>4, <1>6, <1>7, HoldStep


LEMMA StepHold ==
  ASSUME NEW t \in Threads, Base, HoldInv, Step(t)
  PROVE  HoldInv'
<1>1. ThreadsOK /\ Controls /\ Shapes /\ HoldOK(t) /\ ControlOK(th[t]) /\ LeavesOK /\ SlotsOK /\ OwnedOK
  BY DEF Base, Shapes, HoldInv, Controls
<1> USE DEF Steady, Finds, Moves, SameView, HeldPcs, OwnPcs, TombPcs
<1>2. CASE Begin(t)
  <2>1. th[t].pc = "idle"
    BY <1>1, <1>2, BeginDoes
  <2>2. PICK c \in AnyCall : Fresh(t, th[t].at + 1, c, FirstPc(c))
    BY <1>1, <1>2, BeginDoes
  <2>3. slot' = slot /\ leaf' = leaf /\ ver' = ver
    BY <1>1, <1>2, BeginHeap
  <2>4. ~VerHeld(t)
    BY <2>1 DEF VerHeld
  <2>5. FirstPc(c) \notin OwnPcs \cup TombPcs
    BY DEF FirstPc
  <2>6. QED
    BY <2>2, <2>3, <2>4, <2>5, HoldFresh
<1>3. CASE Return(t)
  <2>1. th[t].pc \in {"done", "full"} /\ Fresh(t, th[t].at, None, "idle")
    BY <1>1, <1>3, ReturnDoes
  <2>2. slot' = slot /\ leaf' = leaf /\ ver' = ver
    BY <1>3, ReadingHeap DEF Reading, Alike
  <2>3. ~VerHeld(t) /\ "idle" \notin OwnPcs \cup TombPcs
    BY <2>1 DEF VerHeld
  <2>4. QED
    BY <2>1, <2>2, <2>3, HoldFresh
<1>4. CASE Probe(t)
  <2>1. /\ th[t].pc = "probe" /\ Alone(t) /\ SameCall(t) /\ SameHold(t) /\ th'[t].chosen = th[t].chosen
        /\ th'[t].target = Here(t).leaf /\ th'[t].pc \in {"version", "apply", "leaf"}
    BY <1>1, <1>4, ProbeDoes
  <2>2. Here(t).leaf = 0 \/ PubLeaf(Here(t).leaf)
    BY <2>1, HereFound
  <2>3. Steady(t) /\ Finds(t)
    BY <2>1, <2>2
  <2>4. QED
    BY <1>4, <2>3, ReadingHeap, HoldAlike DEF Reading, Alike
<1>5. CASE CallInsert(t)
  <2>1. Steady(t) /\ Finds(t)
    BY <1>1, <1>5, CallInsertDoes
  <2>2. QED
    BY <1>5, <2>1, ReadingHeap, HoldAlike DEF Reading, Alike
<1>6. CASE Look(t)
  <2>1. /\ th[t].pc = "look" /\ Alone(t) /\ SameCall(t) /\ SameHold(t) /\ th'[t].chosen = th[t].chosen
        /\ th'[t].target = Here(t).leaf /\ th'[t].pc \in {"done", "take", "tomb", "seek", "cut", "choose"}
    BY <1>1, <1>6, LookDoes
  <2>2. Here(t).leaf = 0 \/ PubLeaf(Here(t).leaf)
    BY <2>1, HereFound
  <2>3. Steady(t) /\ Finds(t)
    BY <2>1, <2>2
  <2>4. QED
    BY <1>6, <2>3, ReadingHeap, HoldAlike DEF Reading, Alike
<1>7. CASE Relook(t)
  <2>1. /\ th[t].pc = "relook" /\ Alone(t) /\ SameCall(t) /\ SameHold(t) /\ th'[t].chosen = th[t].chosen
        /\ th'[t].target = Here(t).leaf /\ th'[t].pc \in {"done", "cuthead"}
    BY <1>1, <1>7, RelookDoes
  <2>2. Here(t).leaf = 0 \/ PubLeaf(Here(t).leaf)
    BY <2>1, HereFound
  <2>3. Steady(t) /\ Finds(t)
    BY <2>1, <2>2
  <2>4. QED
    BY <1>7, <2>3, ReadingHeap, HoldAlike DEF Reading, Alike
<1>8. CASE Seek(t)
  <2>1. Steady(t) /\ Finds(t)
    BY <1>1, <1>8, SeekDoes
  <2>2. QED
    BY <1>8, <2>1, ReadingHeap, HoldAlike DEF Reading, Alike
<1>9. CASE Choose(t)
  <2>1. /\ th[t].pc = "choose" /\ Alone(t) /\ SameCall(t) /\ SameHold(t) /\ th'[t].target = th[t].target
        /\ th'[t].chosen = FindLe(th[t].target, th[t].call.ver) /\ th'[t].pc \in {"done", "seek", "cutprune"}
    BY <1>1, <1>9, ChooseDoes
  <2>2. PubLeaf(th[t].target)
    BY <1>1, <2>1, TargetPub DEF TargetPcs
  <2>3. th'[t].chosen = 0 \/ PubVer(th'[t].chosen)
    BY <2>1, <2>2, NewestPub
  <2>4. Steady(t) /\ Finds(t)
    BY <2>1, <2>3
  <2>5. QED
    BY <1>9, <2>4, ReadingHeap, HoldAlike DEF Reading, Alike
<1>10. CASE Uncount(t)
  <2>1. Steady(t) /\ Finds(t)
    BY <1>1, <1>10, UncountDoes
  <2>2. QED
    BY <1>10, <2>1, ReadingHeap, HoldAlike DEF Reading, Alike
<1>11. CASE Retire(t)
  <2>1. Steady(t) /\ Finds(t)
    BY <1>1, <1>11, RetireDoes
  <2>2. QED
    BY <1>11, <2>1, ReadingHeap, HoldAlike DEF Reading, Alike
<1>12. CASE Push(t)
  <2>1. Steady(t) /\ Finds(t)
    BY <1>1, <1>12, PushDoes
  <2>2. QED
    BY <1>12, <2>1, ReadingHeap, HoldAlike DEF Reading, Alike
<1>13. CASE Attempt(t)
  <2>1. /\ th[t].pc = "attempt" /\ Alone(t) /\ SameCall(t) /\ SameHold(t) /\ th'[t].chosen = th[t].chosen
        /\ th'[t].target = Here(t).leaf /\ th'[t].pc \in {"existing", "prepare"}
    BY <1>1, <1>13, AttemptDoes
  <2>2. Here(t).leaf = 0 \/ PubLeaf(Here(t).leaf)
    BY <2>1, HereFound
  <2>3. Steady(t) /\ Finds(t)
    BY <2>1, <2>2
  <2>4. QED
    BY <1>1, <1>13, <2>3, AttemptHeap, HoldAlike
<1>14. CASE Prepare(t)
  <2>1. Steady(t) /\ Finds(t)
    <3>1. /\ th[t].pc = "prepare" /\ Alone(t) /\ SameCall(t) /\ SameHold(t) /\ SameView(t)
          /\ th'[t].pc \in {"prepare", "full"}
      BY <1>1, <1>14, PrepareDoes
    <3>2. QED
      BY <3>1
  <2>2. QED
    BY <1>1, <1>14, <2>1, PrepareHeap, HoldAlike
<1>15. CASE SwapRoot(t)
  <2>1. Steady(t) /\ Finds(t)
    BY <1>1, <1>15, SwapRootDoes
  <2>2. QED
    BY <1>1, <1>15, <2>1, SwapRootHeap, HoldAlike DEF Alike
<1>16. CASE TakeLeaf(t)
  <2>1. Steady(t) /\ Finds(t)
    BY <1>1, <1>16, TakeLeafDoes
  <2>2. QED
    BY <1>1, <1>16, <2>1, TakeLeafHeap, HoldSteady, SMTT(40)
<1>17. CASE Kill(t)
  <2>1. Steady(t) /\ Finds(t)
    <3>1. /\ th[t].pc = "kill" /\ Moves(t)
          /\ th'[t].pc \in {"seek", "done", "look", "cut", "choose", "cutprune", "unlink"}
      BY <1>1, <1>17, KillDoes
    <3>2. QED
      BY <3>1
  <2>2. QED
    BY <1>1, <1>17, <2>1, KillHeap, HoldSteady
<1>18. CASE Unlink(t)
  <2>1. Steady(t) /\ Finds(t)
    BY <1>1, <1>18, UnlinkDoes
  <2>2. LeavesAs
    BY <1>1, <1>18, UnlinkHeap, LeavesStay
  <2>3. QED
    BY <1>1, <1>18, <2>1, <2>2, UnlinkHeap, HoldSteady
<1>19. CASE Sweep(t)
  <2>1. Steady(t) /\ Finds(t)
    BY <1>1, <1>19, SweepDoes
  <2>2. QED
    BY <1>1, <1>19, <2>1, SweepHeap, HoldSteady
<1>20. CASE TryFast(t)
  <2>1. th[t].pc = "fast" /\ Moves(t)
    BY <1>1, <1>20, TryFastDoes
  <2>2. /\ leaf' = leaf /\ ver' = ver
        /\ \/ th'[t].pc = "done" /\ SlotsTo(th[t].own)
           \/ th'[t].pc = "call" /\ slot' = slot
    BY <1>1, <1>20, TryFastHeap DEF Alike
  <2>3. CASE th'[t].pc = "done" /\ SlotsTo(th[t].own)
    <3>1. LeavesAs
      BY <1>1, <2>2, LeavesStay
    <3>2. th[t].pc \in OwnPcs /\ th'[t].pc \notin HeldPcs \cup TombPcs
      BY <2>1, <2>3
    <3>3. QED
      BY <2>1, <2>2, <2>3, <3>1, <3>2, HoldPlaced
  <2>4. CASE th'[t].pc = "call" /\ slot' = slot
    <3>1. Steady(t) /\ Finds(t)
      BY <2>1, <2>4
    <3>2. QED
      BY <2>2, <2>4, <3>1, HoldAlike
  <2>5. QED
    BY <2>2, <2>3, <2>4
<1>21. CASE CommitInsert(t)
  <2>1. th[t].pc = "prepare" /\ Alone(t) /\ SameCall(t) /\ SameHold(t) /\ SameView(t)
    BY <1>1, <1>21, CommitInsertDoes
  <2>2. /\ ver' = ver
        /\ \/ th'[t].pc = "attempt" /\ slot' = slot /\ leaf' = leaf
           \/ th'[t].pc = "retire" /\ SlotsTo(th[t].own) /\ LeavesAs
    BY <1>1, <1>21, CommitInsertHeap DEF Alike
  <2>3. CASE th'[t].pc = "retire" /\ SlotsTo(th[t].own) /\ LeavesAs
    <3>1. th[t].pc \in OwnPcs /\ th'[t].pc \notin HeldPcs \cup TombPcs
      BY <2>1, <2>3
    <3>2. QED
      BY <2>1, <2>2, <2>3, <3>1, HoldPlaced
  <2>4. CASE th'[t].pc = "attempt" /\ slot' = slot /\ leaf' = leaf
    <3>1. Steady(t) /\ Finds(t)
      BY <2>1, <2>4
    <3>2. QED
      BY <2>2, <2>4, <3>1, HoldAlike
  <2>5. QED
    BY <2>2, <2>3, <2>4, SMTT(40)
<1>22. CASE ApplyFast(t)
  <2>1. th[t].pc = "apply" /\ Alone(t) /\ SameCall(t) /\ SameHold(t) /\ SameView(t)
    BY <1>1, <1>22, ApplyFastDoes
  <2>2. /\ slot' = slot
        /\ \/ leaf[th[t].target].dead /\ leaf' = leaf /\ ver' = ver /\ th'[t].pc = "probe"
           \/ Applied(t, th[t].target)
    BY <1>1, <1>22, ApplyFastDoes, ApplyFastHeap DEF Alike
  <2>3. CASE leaf' = leaf /\ ver' = ver /\ th'[t].pc = "probe"
    <3>1. Steady(t) /\ Finds(t)
      BY <2>1, <2>3
    <3>2. QED
      BY <2>2, <2>3, <3>1, HoldAlike
  <2>4. CASE Applied(t, th[t].target)
    BY <2>1, <2>2, <2>4, HoldApplied
  <2>5. QED
    BY <2>2, <2>3, <2>4
<1>23. CASE ApplyExisting(t)
  <2>1. th[t].pc = "existing" /\ Alone(t) /\ SameCall(t) /\ SameHold(t) /\ SameView(t)
    BY <1>1, <1>23, ApplyExistingDoes
  <2>2. /\ slot' = slot
        /\ \/ leaf' = leaf /\ ver' = ver /\ th'[t].pc = "call"
           \/ Applied(t, th[t].target)
    BY <1>1, <1>23, ApplyExistingHeap DEF Alike
  <2>3. CASE leaf' = leaf /\ ver' = ver /\ th'[t].pc = "call"
    <3>1. Steady(t) /\ Finds(t)
      BY <2>1, <2>3
    <3>2. QED
      BY <2>2, <2>3, <3>1, HoldAlike
  <2>4. CASE Applied(t, th[t].target)
    BY <2>1, <2>2, <2>4, HoldApplied
  <2>5. QED
    BY <2>2, <2>3, <2>4
<1>24. QED
  BY <1>2, <1>3, <1>4, <1>5, <1>6, <1>7, <1>8, <1>9, <1>10, <1>11, <1>12, <1>13, <1>14, <1>15, <1>16, <1>17,
     <1>18, <1>19, <1>20, <1>21, <1>22, <1>23, HoldAllocVersion, HoldAllocTomb, HoldAllocLeaf, HoldCutHead,
     HoldCutVersion, HoldCutPrune, Zenon DEF Step

LEMMA InitHold == Init => HoldInv
<1> SUFFICES ASSUME Init PROVE HoldInv
  OBVIOUS
<1>1. ASSUME NEW t \in Threads
      PROVE  th[t].pc = "idle" /\ th[t].target = 0 /\ th[t].chosen = 0
  <2>1. th = [u \in Threads |-> IdleThread]
    BY Zenon DEF Init
  <2>2. QED
    BY <2>1 DEF IdleThread
<1>2. ASSUME NEW k \in Keys, NEW g \in Gens PROVE slot[k][g].leaf = 0
  <2>1. PICK s : s = [leaf |-> 0, ver |-> 0, need |-> <<>>, held |-> FALSE, obsolete |-> FALSE]
    OBVIOUS
  <2>2. slot = [j \in Keys |-> [h \in Gens |-> s]]
    BY <2>1, Zenon DEF Init
  <2>3. QED
    BY <2>1, <2>2
<1>3. ASSUME NEW l \in LeafIds PROVE leaf[l].key = None /\ leaf[l].head = 0
  <2>1. leaf = [x \in LeafIds |-> [key |-> None, value |-> None, head |-> 0, dead |-> FALSE]]
    BY Zenon DEF Init
  <2>2. QED
    BY <2>1
<1>4. ASSUME NEW v \in VerIds PROVE ver[v].next = 0
  <2>1. ver = [x \in VerIds |-> [there |-> FALSE, value |-> None, version |-> 0, next |-> 0, superseded |-> FALSE]]
    BY Zenon DEF Init
  <2>2. QED
    BY <2>1
<1>5. HeapOK
  BY <1>2, <1>3, <1>4 DEF HeapOK
<1>6. ASSUME NEW t \in Threads PROVE HoldOK(t) /\ ~VerHeld(t)
  BY <1>1 DEF HoldOK, Held, VerHeld, HeldPcs, OwnPcs, TombPcs
<1>7. Apart
  BY <1>6 DEF Apart
<1>8. QED
  BY <1>5, <1>6, <1>7 DEF HoldInv

LEMMA HoldKept == Base /\ HoldInv /\ [Next]_vars => HoldInv'
<1> SUFFICES ASSUME Base, HoldInv, [Next]_vars PROVE HoldInv'
  OBVIOUS
<1>0. Shapes /\ SlotsOK
  BY DEF Base, Shapes
<1>1. ASSUME leaf' = leaf, ver' = ver, th' = th, SlotsTo(0) PROVE HoldInv'
  <2>1. \A k \in Keys, g \in Gens : slot'[k][g].leaf = slot[k][g].leaf \/ slot'[k][g].leaf = 0
    BY <1>1 DEF SlotsTo
  <2>2. /\ \A l : PubLeaf(l)' = PubLeaf(l)
        /\ \A v : PubVer(v)' = PubVer(v)
    BY <1>1 DEF PubLeaf, PubVer, Held, VerHeld
  <2>3. HeapOK'
    BY <1>1, <2>1, <2>2 DEF HoldInv, HeapOK
  <2>4. Apart'
    BY <1>1 DEF HoldInv, Apart, VerHeld
  <2>5. ASSUME NEW t \in Threads PROVE HoldOK(t)'
    <3>1. HoldOK(t)
      BY DEF HoldInv
    <3>2. /\ (th[t].target = 0 \/ PubLeaf(th[t].target))'
          /\ (th[t].chosen = 0 \/ PubVer(th[t].chosen))'
      BY <1>1, <3>1 DEF HoldOK, PubLeaf, PubVer, Held, VerHeld
    <3>3. QED
      BY <1>1, <3>1, <3>2 DEF HoldOK, Held, MyKey, MyValue
  <2>6. QED
    BY <2>3, <2>4, <2>5 DEF HoldInv
<1>2. ASSUME NEW t \in Threads, Step(t) PROVE HoldInv'
  BY <1>2, StepHold
<1>3. ASSUME NEW k \in Keys, Reshape(k) PROVE HoldInv'
  BY <1>0, <1>1, <1>3, ReshapeHeap
<1>4. CASE DropMap
  <2>1. slot' = slot /\ leaf' = leaf /\ ver' = ver /\ th' = th
    BY <1>4, Zenon DEF DropMap, store
  <2>2. QED
    BY <1>0, <1>1, <2>1, SlotsStay
<1>5. CASE UNCHANGED vars
  <2>1. slot' = slot /\ leaf' = leaf /\ ver' = ver /\ th' = th
    BY <1>5, Zenon DEF vars
  <2>2. QED
    BY <1>0, <1>1, <2>1, SlotsStay
<1>6. QED
  BY <1>2, <1>3, <1>4, <1>5, Zenon DEF Next, Over

LEMMA HoldAlways == Spec => []HoldInv
BY InitHold, HoldKept, BaseAlways, PTL DEF Spec


-----------------------------------------------------------------------------
(* The keys and values of a call *)

LEMMA ObjectsApart ==
  ASSUME NEW t, NEW u, NEW i, NEW j
  PROVE  /\ KeyOf(t, i) = KeyOf(u, j) => t = u /\ i = j
         /\ ValueOf(t, i) = ValueOf(u, j) => t = u /\ i = j
         /\ KeyOf(t, i) # ValueOf(u, j)
BY DEF KeyOf, ValueOf

LEMMA ObjectsIn ==
  ASSUME NEW t \in Threads, NEW i \in 1 .. MaxCalls
  PROVE  KeyOf(t, i) \in Objects /\ ValueOf(t, i) \in Objects
BY DEF KeyOf, ValueOf, Objects

LEMMA MineIn ==
  ASSUME NEW t \in Threads, Base, th[t].pc # "idle"
  PROVE  th[t].at \in 1 .. MaxCalls /\ MyKey(t) \in Objects /\ MyValue(t) \in Objects
<1>1. ThreadOK(th[t])
  BY DEF Base, Shapes, ThreadsOK
<1>2. th[t].at \in 0 .. MaxCalls /\ th[t].at # 0
  BY <1>1 DEF ThreadOK
<1>3. th[t].at \in 1 .. MaxCalls
  BY <1>2, ArenaInsertAssumption
<1>4. QED
  BY <1>3, ObjectsIn DEF MyKey, MyValue

LEMMA NoValues == ValuesFrom(0) = {}
<1>1. Closed({})
  BY DEF Closed
<1>2. Chain(0) \in Seq({})
  BY <1>1, ChainIn
<1>3. PICK c : c = Chain(0)
  OBVIOUS
<1>4. ToSet(c) = {}
  BY <1>2, <1>3 DEF ToSet
<1>5. QED
  BY <1>3, <1>4 DEF ValuesFrom

LEMMA OneValue ==
  ASSUME NEW v, ver[v].next = 0
  PROVE  ValuesFrom(v) \subseteq {ver[v].value} \ {None}
<1>1. Closed({v})
  BY DEF Closed
<1>2. Chain(v) \in Seq({v})
  BY <1>1, ChainIn
<1>3. PICK c : c = Chain(v)
  OBVIOUS
<1>4. ToSet(c) \subseteq {v}
  BY <1>2, <1>3 DEF ToSet
<1>5. QED
  BY <1>3, <1>4 DEF ValuesFrom

\* What a leaf that a call holds would drop is what the call was passed.
LEMMA OwnLeafMine ==
  ASSUME NEW t \in Threads, HoldInv, th[t].pc \in OwnPcs
  PROVE  InLeaf(th[t].own) \ {None} \subseteq {MyKey(t), MyValue(t)}
<1>1. HoldOK(t) /\ Held(t)
  BY DEF HoldInv, Held, OwnPcs, HeldPcs
<1>2. PICK o, v : o = th[t].own /\ v = th[t].vnode
  OBVIOUS
<1>3. leaf[o].key = MyKey(t) /\ leaf[o].value \in {None, MyValue(t)} /\ leaf[o].head = v
  BY <1>1, <1>2 DEF HoldOK
<1>4. ValuesFrom(v) \subseteq {MyValue(t)}
  <2>1. CASE v = 0
    BY <2>1, NoValues
  <2>2. CASE v # 0
    <3>1. ver[v].value \in {None, MyValue(t)} /\ ver[v].next = 0
      BY <1>1, <1>2, <2>2 DEF HoldOK
    <3>2. ValuesFrom(v) \subseteq {ver[v].value} \ {None}
      BY <3>1, OneValue
    <3>3. QED
      BY <3>1, <3>2
  <2>3. QED
    BY <2>1, <2>2
<1>5. InLeaf(o) = {leaf[o].key} \cup ({leaf[o].value} \ {None}) \cup ValuesFrom(v)
  BY <1>3 DEF InLeaf
<1>6. QED
  BY <1>2, <1>3, <1>4, <1>5

\* The version that a call holds has the value it was passed, if any.
LEMMA OwnVersionMine ==
  ASSUME NEW t \in Threads, Controls, HoldInv, th[t].pc \in {"apply", "existing"}
  PROVE  {ver[th[t].vnode].value} \ {None} \subseteq {MyValue(t)}
<1>1. HoldOK(t) /\ ControlOK(th[t]) /\ Held(t)
  BY DEF HoldInv, Controls, Held, HeldPcs
<1>2. th[t].vnode # 0
  BY <1>1 DEF ControlOK
<1>3. ver[th[t].vnode].value \in {None, MyValue(t)}
  BY <1>1, <1>2 DEF HoldOK
<1>4. QED
  BY <1>3

-----------------------------------------------------------------------------
(* What was ever in the map stays *)

\* A step that drops, gives back or publishes something of t's call, and then
\* holds it no more.
LEMMA OwnStep ==
  ASSUME NEW t \in Threads, Base, OwnInv, ~owned.over, NEW drop, NEW back, NEW pub,
         OwnedTo(drop, back, pub), Alone(t), th'[t].at = th[t].at, th'[t].pc \in HeldPcs => Held(t),
         drop \cup back \cup pub \subseteq {MyKey(t), MyValue(t)}, pub \cap (drop \cup back) = {},
         drop \cup back \cup pub = {} \/ (Held(t) /\ th'[t].pc \notin HeldPcs)
  PROVE  OwnInv'
<1>0. \A u \in Threads : u # t => th'[u] = th[u]
  BY DEF Alone
<1>1. /\ owned'.over = owned.over /\ owned'.back = owned.back \cup back
      /\ owned'.published = owned.published \cup pub
      /\ \A o \in Objects : owned'.drops[o] = IF o \in drop THEN owned.drops[o] + 1 ELSE owned.drops[o]
  BY DEF OwnedTo
<1>2. ASSUME NEW o \in Objects, Untouched(o), o \notin drop \cup back \cup pub PROVE Untouched(o)'
  BY <1>1, <1>2 DEF Untouched
<1>3. /\ owned.published \subseteq Objects
      /\ \A u \in Threads : Held(u) => Untouched(MyKey(u)) /\ Untouched(MyValue(u))
      /\ \A u \in Threads : \A i \in 1 .. MaxCalls :
           i > th[u].at => Untouched(KeyOf(u, i)) /\ Untouched(ValueOf(u, i))
      /\ \A o \in owned.published : owned.drops[o] = 0 /\ o \notin owned.back
  BY DEF OwnInv
<1>4. Held(t) => MyKey(t) \in Objects /\ MyValue(t) \in Objects
  BY MineIn DEF Held, HeldPcs
<1>5. owned'.published \subseteq Objects
  BY <1>1, <1>3, <1>4
<1>6. ASSUME NEW u \in Threads, th'[u].pc \in HeldPcs
      PROVE  Untouched(MyKey(u))' /\ Untouched(MyValue(u))'
  <2>1. Held(u) /\ th'[u].at = th[u].at
    BY <1>0, <1>6 DEF Held
  <2>2. PICK i : i = th[u].at
    OBVIOUS
  <2>3. th[u].pc # "idle"
    BY <2>1 DEF Held, HeldPcs
  <2>4. i \in 1 .. MaxCalls /\ KeyOf(u, i) \in Objects /\ ValueOf(u, i) \in Objects
    BY <2>2, <2>3, MineIn DEF MyKey, MyValue
  <2>5. Untouched(KeyOf(u, i)) /\ Untouched(ValueOf(u, i))
    BY <1>3, <2>1, <2>2 DEF MyKey, MyValue
  <2>6. KeyOf(u, i) \notin drop \cup back \cup pub /\ ValueOf(u, i) \notin drop \cup back \cup pub
    <3>1. CASE u = t
      BY <1>6, <3>1
    <3>2. CASE u # t
      BY <3>2, ObjectsApart DEF MyKey, MyValue
    <3>3. QED
      BY <3>1, <3>2
  <2>7. Untouched(KeyOf(u, i))' /\ Untouched(ValueOf(u, i))'
    BY <1>2, <2>4, <2>5, <2>6
  <2>8. QED
    BY <2>1, <2>2, <2>7 DEF MyKey, MyValue, Untouched
<1>7. ASSUME NEW u \in Threads, NEW i \in 1 .. MaxCalls, i > th'[u].at
      PROVE  Untouched(KeyOf(u, i))' /\ Untouched(ValueOf(u, i))'
  <2>1. th'[u].at = th[u].at
    BY <1>0
  <2>2. Untouched(KeyOf(u, i)) /\ Untouched(ValueOf(u, i))
    BY <1>3, <1>7, <2>1
  <2>3. KeyOf(u, i) \in Objects /\ ValueOf(u, i) \in Objects
    BY ObjectsIn
  <2>4. i # th[u].at
    <3>1. th[u].at \in Nat
      BY DEF Base, Shapes, ThreadsOK, ThreadOK
    <3>2. QED
      BY <1>7, <2>1, <3>1
  <2>5. KeyOf(u, i) \notin drop \cup back \cup pub /\ ValueOf(u, i) \notin drop \cup back \cup pub
    BY <2>4, ObjectsApart DEF MyKey, MyValue
  <2>6. QED
    BY <1>2, <2>2, <2>3, <2>5
<1>8. ASSUME NEW o, o \in owned'.published PROVE owned'.drops[o] = 0 /\ o \notin owned'.back
  <2>1. o \in Objects
    BY <1>5, <1>8
  <2>2. CASE o \in pub
    <3>1. o \in {MyKey(t), MyValue(t)} /\ Held(t) /\ o \notin drop /\ o \notin back
      BY <2>2
    <3>2. Untouched(o)
      BY <1>3, <3>1
    <3>3. QED
      BY <1>1, <2>1, <3>1, <3>2 DEF Untouched
  <2>3. CASE o \notin pub
    <3>1. o \in owned.published
      BY <1>1, <1>8, <2>3
    <3>2. owned.drops[o] = 0 /\ o \notin owned.back
      BY <1>3, <3>1
    <3>3. o \notin drop /\ o \notin back
      <4>1. CASE drop \cup back \cup pub = {}
        BY <4>1
      <4>2. CASE Held(t)
        BY <1>3, <3>1, <4>2 DEF Untouched
      <4>3. QED
        BY <4>1, <4>2
    <3>4. QED
      BY <1>1, <2>1, <3>2, <3>3
  <2>4. QED
    BY <2>2, <2>3
<1>9. QED
  BY <1>1, <1>5, <1>6, <1>7, <1>8 DEF OwnInv, Held


LEMMA OwnSame ==
  ASSUME NEW t \in Threads, Base, OwnInv, ~owned.over, OwnedTo({}, {}, {}), Alone(t), th'[t].at = th[t].at,
         th'[t].pc \in HeldPcs => Held(t)
  PROVE  OwnInv'
<1>1. PICK E : E = {}
  OBVIOUS
<1>2. OwnedTo(E, E, E) /\ E \cup E \cup E \subseteq {MyKey(t), MyValue(t)} /\ E \cap (E \cup E) = {}
      /\ E \cup E \cup E = {}
  BY <1>1
<1>3. QED
  BY <1>2, OwnStep

LEMMA OwnFull ==
  ASSUME NEW t \in Threads, Base, OwnInv, ~owned.over, Full(t), Held(t)
  PROVE  OwnInv'
<1>1. ThreadsOK /\ OwnedOK /\ NodesOK
  BY DEF Base, Shapes
<1>2. Alone(t) /\ SameCall(t) /\ th'[t].pc = "full"
  BY <1>1, FullDoes
<1>3. PICK E, R : E = {} /\ R = Returned(t)
  OBVIOUS
<1>4. OwnedTo(E, R, E)
  BY <1>1, <1>3, FullHeap
<1>5. R \subseteq {MyKey(t), MyValue(t)}
  BY <1>3 DEF Returned
<1>6. th'[t].at = th[t].at /\ th'[t].pc \notin HeldPcs
  BY <1>2 DEF SameCall, HeldPcs
<1>7. E \cup R \cup E \subseteq {MyKey(t), MyValue(t)} /\ E \cap (E \cup R) = {}
  BY <1>3, <1>5
<1>8. QED
  BY <1>2, <1>4, <1>6, <1>7, OwnStep

\* Nothing of a call that still holds them: the leaf and the version go in.
LEMMA OwnPlaced ==
  ASSUME NEW t \in Threads, Base, HoldInv, OwnInv, ~owned.over, th[t].pc \in OwnPcs, Alone(t), SameCall(t),
         th'[t].pc \notin HeldPcs, OwnedTo({}, {}, InLeaf(th[t].own) \ {None})
  PROVE  OwnInv'
<1>1. PICK E, P : E = {} /\ P = InLeaf(th[t].own) \ {None}
  OBVIOUS
<1>2. P \subseteq {MyKey(t), MyValue(t)}
  BY <1>1, OwnLeafMine
<1>3. OwnedTo(E, E, P)
  BY <1>1
<1>4. E \cup E \cup P \subseteq {MyKey(t), MyValue(t)} /\ P \cap (E \cup E) = {}
  BY <1>1, <1>2
<1>5. Held(t) /\ th'[t].at = th[t].at
  BY DEF Held, OwnPcs, HeldPcs, SameCall
<1>6. QED
  BY <1>3, <1>4, <1>5, OwnStep

\* The version goes in, and the key that is there already is dropped.
LEMMA OwnApplied ==
  ASSUME NEW t \in Threads, Base, HoldInv, OwnInv, ~owned.over, th[t].pc \in {"apply", "existing"}, Alone(t),
         SameCall(t), th'[t].pc \notin HeldPcs, OwnedTo({MyKey(t)}, {}, {ver[th[t].vnode].value} \ {None})
  PROVE  OwnInv'
<1>1. PICK D, E, P : D = {MyKey(t)} /\ E = {} /\ P = {ver[th[t].vnode].value} \ {None}
  OBVIOUS
<1>2. P \subseteq {MyValue(t)}
  BY <1>1, OwnVersionMine DEF Base
<1>3. MyKey(t) # MyValue(t)
  BY ObjectsApart DEF MyKey, MyValue
<1>4. D \cup E \cup P \subseteq {MyKey(t), MyValue(t)} /\ P \cap (D \cup E) = {}
  BY <1>1, <1>2, <1>3
<1>5. Held(t) /\ th'[t].at = th[t].at
  BY DEF Held, HeldPcs, SameCall
<1>6. OwnedTo(D, E, P)
  BY <1>1
<1>7. QED
  BY <1>4, <1>5, <1>6, OwnStep

LEMMA OwnBegin ==
  ASSUME NEW t \in Threads, Base, OwnInv, ~owned.over, Begin(t)
  PROVE  OwnInv'
<1>1. Shapes /\ OwnedOK
  BY DEF Base, Shapes
<1>2. th[t].at + 1 \in 1 .. MaxCalls
  BY <1>1, BeginDoes
<1>3. Alone(t) /\ th'[t].at = th[t].at + 1
  BY <1>1, BeginDoes DEF Fresh
<1>4. OwnedTo({}, {}, {})
  BY <1>1, BeginHeap
<1>5. /\ owned'.over = owned.over /\ owned'.back = owned.back /\ owned'.published = owned.published
      /\ \A o \in Objects : owned'.drops[o] = owned.drops[o]
  BY <1>4 DEF OwnedTo
<1>6. /\ owned.published \subseteq Objects
      /\ \A u \in Threads : Held(u) => Untouched(MyKey(u)) /\ Untouched(MyValue(u))
      /\ \A u \in Threads : \A i \in 1 .. MaxCalls :
           i > th[u].at => Untouched(KeyOf(u, i)) /\ Untouched(ValueOf(u, i))
      /\ \A o \in owned.published : owned.drops[o] = 0 /\ o \notin owned.back
  BY DEF OwnInv
<1>7. ASSUME NEW o \in Objects, Untouched(o) PROVE Untouched(o)'
  BY <1>5, <1>7 DEF Untouched
<1>8. ASSUME NEW u \in Threads PROVE th[u].at \in Nat
  BY DEF Base, Shapes, ThreadsOK, ThreadOK
<1>9. ASSUME NEW u \in Threads, NEW i \in 1 .. MaxCalls, i > th[u].at
      PROVE  Untouched(KeyOf(u, i))' /\ Untouched(ValueOf(u, i))'
  BY <1>6, <1>7, <1>9, ObjectsIn
<1>10. ASSUME NEW u \in Threads, NEW i \in 1 .. MaxCalls, i > th'[u].at PROVE i > th[u].at
  <2>1. CASE u = t
    BY <1>3, <1>8, <1>10, <2>1
  <2>2. CASE u # t
    BY <1>3, <1>10, <2>2 DEF Alone
  <2>3. QED
    BY <2>1, <2>2
<1>11. ASSUME NEW u \in Threads, th'[u].pc \in HeldPcs PROVE Untouched(MyKey(u))' /\ Untouched(MyValue(u))'
  <2>1. CASE u = t
    <3>1. PICK i : i = th[t].at + 1
      OBVIOUS
    <3>2. i \in 1 .. MaxCalls /\ i > th[t].at
      BY <1>2, <1>8, <3>1
    <3>3. Untouched(KeyOf(t, i))' /\ Untouched(ValueOf(t, i))'
      BY <1>9, <3>2
    <3>4. QED
      BY <1>3, <2>1, <3>1, <3>3 DEF MyKey, MyValue, Untouched
  <2>2. CASE u # t
    <3>1. th'[u] = th[u]
      BY <1>3, <2>2 DEF Alone
    <3>2. Held(u) /\ th[u].pc # "idle"
      BY <1>11, <3>1 DEF Held, HeldPcs
    <3>3. PICK i : i = th[u].at
      OBVIOUS
    <3>4. Untouched(KeyOf(u, i)) /\ Untouched(ValueOf(u, i)) /\ KeyOf(u, i) \in Objects /\ ValueOf(u, i) \in Objects
      BY <1>6, <3>2, <3>3, MineIn DEF MyKey, MyValue
    <3>5. Untouched(KeyOf(u, i))' /\ Untouched(ValueOf(u, i))'
      BY <1>7, <3>4
    <3>6. QED
      BY <3>1, <3>3, <3>5 DEF MyKey, MyValue, Untouched
  <2>3. QED
    BY <2>1, <2>2
<1>12. ASSUME NEW o, o \in owned'.published PROVE owned'.drops[o] = 0 /\ o \notin owned'.back
  <2>1. o \in owned.published /\ o \in Objects
    BY <1>5, <1>6, <1>12
  <2>2. owned.drops[o] = 0 /\ o \notin owned.back
    BY <1>6, <2>1
  <2>3. QED
    BY <1>5, <2>1, <2>2
<1>13. QED
  BY <1>5, <1>6, <1>9, <1>10, <1>11, <1>12 DEF OwnInv, Held

\* Once the map is dropped no call makes a step.
LEMMA OverStops ==
  ASSUME NEW t \in Threads, Base, OwnInv, Step(t)
  PROVE  ~owned.over
<1>1. SUFFICES ASSUME Quiet PROVE FALSE
  BY DEF OwnInv
<1>2. th[t].pc = "idle" /\ th[t].at = Len(Calls(t))
  BY <1>1 DEF Quiet, Busy
<1>3. ThreadsOK /\ Shapes /\ ControlOK(th[t])
  BY DEF Base, Shapes, Controls
<1>4. ~Begin(t)
  <2>1. th[t].at \in Nat
    BY <1>3 DEF ThreadsOK, ThreadOK
  <2>2. Begin(t) => th[t].at < Len(Calls(t))
    BY Zenon DEF Begin
  <2>3. QED
    BY <1>2, <2>1, <2>2
<1>5. ~Probe(t) /\ ~AllocVersion(t)
  BY <1>2, <1>3, ProbeDoes, AllocVersionDoes
<1>6. ~ApplyFast(t) /\ ~AllocLeaf(t)
  BY <1>2, <1>3, ApplyFastDoes, AllocLeafDoes
<1>7. ~TryFast(t) /\ ~CallInsert(t)
  BY <1>2, <1>3, TryFastDoes, CallInsertDoes
<1>8. ~Attempt(t) /\ ~Prepare(t)
  BY <1>2, <1>3, AttemptDoes, PrepareDoes, SMTT(40)
<1>9. ~CommitInsert(t) /\ ~ApplyExisting(t)
  BY <1>2, <1>3, CommitInsertDoes, ApplyExistingDoes
<1>10. ~Look(t) /\ ~TakeLeaf(t)
  BY <1>2, <1>3, LookDoes, TakeLeafDoes
<1>11. ~AllocTomb(t) /\ ~Relook(t)
  BY <1>2, <1>3, AllocTombDoes, RelookDoes
<1>12. ~CutHead(t) /\ ~Seek(t)
  <2>1. ~CutHead(t)
    BY <1>2, ZenonT(60) DEF CutHead
  <2>2. QED
    BY <1>2, <1>3, <2>1, SeekDoes
<1>13. ~Kill(t) /\ ~Unlink(t)
  BY <1>2, <1>3, KillDoes, UnlinkDoes
<1>14. ~CutVersion(t) /\ ~Choose(t)
  BY <1>2, <1>3, CutVersionDoes, ChooseDoes
<1>15. ~CutPrune(t) /\ ~SwapRoot(t)
  BY <1>2, <1>3, CutPruneDoes, SwapRootDoes
<1>16. ~Sweep(t) /\ ~Uncount(t)
  BY <1>2, <1>3, SweepDoes, UncountDoes
<1>17. ~Retire(t) /\ ~Push(t)
  BY <1>2, <1>3, RetireDoes, PushDoes
<1>18. ~Return(t)
  BY <1>2, <1>3, ReturnDoes
<1>19. QED
  BY <1>4, <1>5, <1>6, <1>7, <1>8, <1>9, <1>10, <1>11, <1>12, <1>13, <1>14, <1>15, <1>16, <1>17, <1>18, Zenon DEF Step

LEMMA StepOwn ==
  ASSUME NEW t \in Threads, Base, HoldInv, OwnInv, Step(t)
  PROVE  OwnInv'
<1>1. ThreadsOK /\ Shapes /\ ControlOK(th[t]) /\ OwnedOK /\ Controls /\ ~owned.over
  BY OverStops DEF Base, Shapes, Controls
<1>2. /\ owned' = owned => OwnedTo({}, {}, {})
  BY <1>1, OwnedStays
<1> USE DEF SameCall, HeldPcs, Moves
<1>3. CASE Reading(t)
  <2>1. owned' = owned
    BY <1>3, ReadingHeap DEF Alike
  <2>2. Alone(t) /\ th'[t].at = th[t].at /\ (th'[t].pc \in HeldPcs => Held(t))
    <3>1. CASE Probe(t)
      BY <1>1, <3>1, ProbeDoes DEF Held
    <3>2. CASE CallInsert(t)
      BY <1>1, <3>2, CallInsertDoes DEF Held
    <3>3. CASE Look(t)
      BY <1>1, <3>3, LookDoes
    <3>4. CASE Relook(t)
      BY <1>1, <3>4, RelookDoes
    <3>5. CASE Seek(t)
      BY <1>1, <3>5, SeekDoes
    <3>6. CASE Choose(t)
      BY <1>1, <3>6, ChooseDoes
    <3>7. CASE Uncount(t)
      BY <1>1, <3>7, UncountDoes
    <3>8. CASE Retire(t)
      BY <1>1, <3>8, RetireDoes
    <3>9. CASE Push(t)
      BY <1>1, <3>9, PushDoes
    <3>10. CASE Return(t)
      BY <1>1, <3>10, ReturnDoes DEF Fresh
    <3>11. QED
      BY <1>3, <3>1, <3>2, <3>3, <3>4, <3>5, <3>6, <3>7, <3>8, <3>9, <3>10, Zenon DEF Reading
  <2>3. QED
    BY <1>1, <1>2, <2>1, <2>2, OwnSame
<1>4. CASE AllocVersion(t)
  <2>1. /\ th[t].pc = "version" /\ Alone(t) /\ th'[t].at = th[t].at /\ Held(t)
    BY <1>1, <1>4, AllocVersionDoes DEF Held
  <2>2. Full(t) \/ owned' = owned
    BY <1>1, <1>4, AllocVersionHeap
  <2>3. QED
    BY <1>1, <1>2, <2>1, <2>2, OwnSame, OwnFull
<1>5. CASE AllocLeaf(t)
  <2>1. /\ th[t].pc = "leaf" /\ Alone(t) /\ th'[t].at = th[t].at /\ Held(t)
    BY <1>1, <1>5, AllocLeafDoes DEF Held
  <2>2. Full(t) \/ owned' = owned
    BY <1>1, <1>5, AllocLeafHeap
  <2>3. QED
    BY <1>1, <1>2, <2>1, <2>2, OwnSame, OwnFull
<1>6. CASE Prepare(t)
  <2>1. /\ th[t].pc = "prepare" /\ Alone(t) /\ th'[t].at = th[t].at /\ Held(t) /\ (Full(t) \/ owned' = owned)
    BY <1>1, <1>6, PrepareDoes DEF Held
  <2>2. QED
    BY <1>1, <1>2, <2>1, OwnSame, OwnFull
<1>7. CASE Attempt(t)
  <2>1. /\ th[t].pc = "attempt" /\ Alone(t) /\ th'[t].at = th[t].at /\ Held(t)
    BY <1>1, <1>7, AttemptDoes DEF Held
  <2>2. owned' = owned
    BY <1>1, <1>7, AttemptHeap
  <2>3. QED
    BY <1>1, <1>2, <2>1, <2>2, OwnSame
<1>8. CASE ApplyFast(t)
  <2>1. /\ th[t].pc = "apply" /\ Alone(t) /\ SameCall(t) /\ Held(t)
        /\ \/ leaf[th[t].target].dead /\ th'[t].pc = "probe"
           \/ ~leaf[th[t].target].dead /\ th'[t].pc = "retire"
    BY <1>1, <1>8, ApplyFastDoes DEF Held
  <2>2. \/ leaf[th[t].target].dead /\ owned' = owned
        \/ ~leaf[th[t].target].dead /\ OwnedTo({MyKey(t)}, {}, {ver[th[t].vnode].value} \ {None})
    BY <1>1, <1>8, ApplyFastHeap DEF Alike
  <2>3. CASE leaf[th[t].target].dead
    BY <1>1, <1>2, <2>1, <2>2, <2>3, OwnSame
  <2>4. CASE ~leaf[th[t].target].dead
    BY <1>1, <2>1, <2>2, <2>4, OwnApplied
  <2>5. QED
    BY <2>3, <2>4
<1>9. CASE ApplyExisting(t)
  <2>1. th[t].pc = "existing" /\ Alone(t) /\ SameCall(t) /\ Held(t)
    BY <1>1, <1>9, ApplyExistingDoes DEF Held
  <2>2. \/ th'[t].pc = "call" /\ owned' = owned
        \/ /\ th'[t].pc = "retire"
           /\ OwnedTo({leaf[th[t].own].key} \cup ValuesFrom(0), {}, {ver[th[t].vnode].value} \ {None})
    BY <1>1, <1>9, ApplyExistingHeap DEF Alike
  <2>3. {leaf[th[t].own].key} \cup ValuesFrom(0) = {MyKey(t)}
    <3>1. leaf[th[t].own].key = MyKey(t)
      BY <2>1 DEF HoldInv, HoldOK, OwnPcs
    <3>2. QED
      BY <3>1, NoValues
  <2>4. CASE th'[t].pc = "call" /\ owned' = owned
    BY <1>1, <1>2, <2>1, <2>4, OwnSame
  <2>5. CASE /\ th'[t].pc = "retire"
             /\ OwnedTo({leaf[th[t].own].key} \cup ValuesFrom(0), {}, {ver[th[t].vnode].value} \ {None})
    BY <1>1, <2>1, <2>3, <2>5, OwnApplied
  <2>6. QED
    BY <2>2, <2>4, <2>5
<1>10. CASE TryFast(t)
  <2>1. th[t].pc = "fast" /\ Alone(t) /\ SameCall(t) /\ Held(t) /\ th[t].pc \in OwnPcs
    BY <1>1, <1>10, TryFastDoes DEF Held, OwnPcs
  <2>2. \/ th'[t].pc = "done" /\ OwnedTo({}, {}, InLeaf(th[t].own) \ {None})
        \/ th'[t].pc = "call" /\ owned' = owned
    BY <1>1, <1>10, TryFastHeap DEF Alike
  <2>3. CASE th'[t].pc = "done" /\ OwnedTo({}, {}, InLeaf(th[t].own) \ {None})
    BY <1>1, <2>1, <2>3, OwnPlaced
  <2>4. CASE th'[t].pc = "call" /\ owned' = owned
    BY <1>1, <1>2, <2>1, <2>4, OwnSame
  <2>5. QED
    BY <2>2, <2>3, <2>4
<1>11. CASE CommitInsert(t)
  <2>1. th[t].pc = "prepare" /\ Alone(t) /\ SameCall(t) /\ Held(t) /\ th[t].pc \in OwnPcs
    BY <1>1, <1>11, CommitInsertDoes DEF Held, OwnPcs
  <2>2. \/ th'[t].pc = "retire" /\ OwnedTo({}, {}, InLeaf(th[t].own) \ {None})
        \/ th'[t].pc = "attempt" /\ owned' = owned
    BY <1>1, <1>11, CommitInsertHeap DEF Alike
  <2>3. CASE th'[t].pc = "retire" /\ OwnedTo({}, {}, InLeaf(th[t].own) \ {None})
    BY <1>1, <2>1, <2>3, OwnPlaced
  <2>4. CASE th'[t].pc = "attempt" /\ owned' = owned
    BY <1>1, <1>2, <2>1, <2>4, OwnSame, SMTT(40)
  <2>5. QED
    BY <2>2, <2>3, <2>4, SMTT(40)
<1>12. CASE TakeLeaf(t)
  BY <1>1, <1>2, <1>12, TakeLeafDoes, TakeLeafHeap, OwnSame
<1>13. CASE AllocTomb(t)
  BY <1>1, <1>2, <1>13, AllocTombDoes, AllocTombHeap, OwnSame
<1>14. CASE CutHead(t)
  BY <1>1, <1>2, <1>14, CutHeadDoes, CutHeadHeap, OwnSame
<1>15. CASE Kill(t)
  <2>1. Alone(t) /\ th'[t].at = th[t].at /\ th'[t].pc \notin HeldPcs
    BY <1>1, <1>15, KillDoes
  <2>2. QED
    BY <1>1, <1>2, <1>15, <2>1, KillHeap, OwnSame
<1>16. CASE Unlink(t)
  BY <1>1, <1>2, <1>16, UnlinkDoes, UnlinkHeap, OwnSame
<1>17. CASE CutVersion(t)
  BY <1>1, <1>2, <1>17, CutVersionDoes, CutVersionHeap, OwnSame
<1>18. CASE CutPrune(t)
  BY <1>1, <1>2, <1>18, CutPruneDoes, CutPruneHeap, OwnSame
<1>19. CASE SwapRoot(t)
  BY <1>1, <1>2, <1>19, SwapRootDoes, SwapRootHeap, OwnSame DEF Alike
<1>20. CASE Sweep(t)
  BY <1>1, <1>2, <1>20, SweepDoes, SweepHeap, OwnSame
<1>21. CASE Begin(t)
  BY <1>1, <1>21, OwnBegin
<1>22. QED
  BY <1>3, <1>4, <1>5, <1>6, <1>7, <1>8, <1>9, <1>10, <1>11, <1>12, <1>13, <1>14, <1>15, <1>16, <1>17, <1>18,
     <1>19, <1>20, <1>21, Zenon DEF Step, Reading

\* What was ever in the map stays valid until the map is dropped: neither an
\* insert that fails or loses its race nor a remove, a prune or a clear drops
\* it or gives it back.
THEOREM PublishedNeverDropped == Spec => []PublishedStays
<1>1. Init => OwnInv
  <2> SUFFICES ASSUME Init PROVE OwnInv
    OBVIOUS
  <2>1. owned = [drops |-> [o \in Objects |-> 0], given |-> {}, back |-> {}, published |-> {}, over |-> FALSE]
    BY Zenon DEF Init
  <2>2. /\ owned.published = {} /\ owned.back = {} /\ ~owned.over
        /\ \A o \in Objects : owned.drops[o] = 0
    BY <2>1
  <2>3. ASSUME NEW o \in Objects PROVE Untouched(o)
    BY <2>2 DEF Untouched
  <2>4. ASSUME NEW t \in Threads PROVE ~Held(t)
    <3>1. th = [u \in Threads |-> IdleThread]
      BY Zenon DEF Init
    <3>2. QED
      BY <3>1 DEF IdleThread, Held, HeldPcs
  <2>5. QED
    BY <2>2, <2>3, <2>4, ObjectsIn DEF OwnInv
<1>2. Base /\ HoldInv /\ OwnInv /\ [Next]_vars => OwnInv'
  <2> SUFFICES ASSUME Base, HoldInv, OwnInv, [Next]_vars PROVE OwnInv'
    OBVIOUS
  <2>1. ASSUME NEW t \in Threads, Step(t) PROVE OwnInv'
    BY <2>1, StepOwn
  <2>2. ASSUME owned' = owned, th' = th, prog' = prog PROVE OwnInv'
    BY <2>2 DEF OwnInv, Quiet, Busy, Calls, Held, Untouched, MyKey, MyValue
  <2>3. ASSUME NEW k \in Keys, Reshape(k) PROVE OwnInv'
    BY <2>2, <2>3, ReshapeHeap DEF Base, Rooted
  <2>4. CASE DropMap
    <3>1. th' = th /\ prog' = prog
      BY <2>4, Zenon DEF DropMap
    <3>2. owned'.over /\ owned'.published = owned.published /\ Quiet
      BY <2>4, OwnedOver DEF Base, Shapes
    <3>3. Quiet'
      BY <3>1, <3>2 DEF Quiet, Busy, Calls
    <3>4. QED
      BY <3>2, <3>3 DEF OwnInv
  <2>5. CASE UNCHANGED vars
    BY <2>2, <2>5 DEF vars
  <2>6. QED
    BY <2>1, <2>3, <2>4, <2>5, Zenon DEF Next, Over
<1>3. OwnInv => PublishedStays
  BY DEF OwnInv, PublishedStays
<1>4. QED
  BY <1>1, <1>2, <1>3, BaseAlways, HoldAlways, PTL DEF Spec

=============================================================================

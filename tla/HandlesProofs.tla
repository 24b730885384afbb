---------------------------- MODULE HandlesProofs ----------------------------
(***************************************************************************)
(* Proofs about Handles: what a handle or an iterator refers to stays what *)
(* it was, every entry is taken out once, is_removed tells the truth, pins *)
(* balance and nothing is left at the end, for any threads, keys, programs *)
(* of calls, and numbers of guards, handles, epochs and entries.           *)
(***************************************************************************)
EXTENDS Handles, TLAPS, FiniteSetTheorems, OrderLemmas

-----------------------------------------------------------------------------
(* Types *)

Leaves == Addresses \cup {0}
Kinds == {"owned", "shared", "borrowed"}
LocalRecs == [pins : Nat, epoch : Nat]
GuardRecs == [local : Locals, tag : 0 .. MaxParts, rc : Nat \ {0}]
Refs == [leaf : Addresses, entry : Nat, guard : GuardIds, kind : Kinds]
Ahead == [leaf : Addresses, entry : Nat]
Iters == [guard : GuardIds, kind : {"shared", "borrowed"}, key : Keys \cup {0}, batch : Seq(Ahead)]
Runs ==
  [pc : {"idle", "lookup", "alloc", "install", "takeout", "mark", "retire", "swap", "sweep", "entry"},
   at : Nat, call : Calls \cup {None}, guard : GuardIds \cup {0}, kind : Kinds \cup {"none"},
   leaf : Leaves, own : Leaves, handle : HandleIds \cup {0}, inside : Threads \cup {None}]
Memory ==
  [Addresses -> [state : {"free", "owned", "linked", "unlinked"}, key : Keys \cup {0},
                 entry : Nat, removed : BOOLEAN]]
Deferred == [leaf : Addresses, entry : Nat, epoch : Nat]

Trees == Threads \cup {None}
Slotting == [Trees -> [Keys -> Leaves \cup {Obsolete}]]
Claims == [Threads -> Leaves]
Takes == [1 .. MaxEntries -> Nat]
Guarding == [GuardIds -> GuardRecs \cup {None}]
Counting == [Locals -> LocalRecs]
Participants == [Threads -> [id : 1 .. MaxParts, live : BOOLEAN]]

LeavesTypeOK ==
  /\ map \in [Keys -> Leaves]
  /\ detached \in [Threads -> [Keys -> Leaves \cup {Obsolete}]]
  /\ mem \in Memory
  /\ garbage \subseteq Deferred
  /\ hist \in [made : Nat, taken : Takes, over : BOOLEAN]
PinsTypeOK ==
  /\ epoch \in Nat /\ tls \in Participants
  /\ local \in Counting
  /\ guards \in [Threads -> Guarding]
  /\ user \in [Threads -> GuardIds \cup {0}]
CallsTypeOK ==
  /\ handles \in [Threads -> [HandleIds -> Refs \cup {None}]]
  /\ iter \in [Threads -> Iters \cup {None}]
  /\ run \in [Threads -> Runs]
  /\ prog \in [Threads -> Seq(SUBSET Calls)]
HandlesTypeOK == LeavesTypeOK /\ PinsTypeOK /\ CallsTypeOK

-----------------------------------------------------------------------------
(* The calls *)

\* Where each call is, and that it has the guard and the handle it will need.
Writes == {"insert", "getOrInsert", "insertIfAbsent"}
RunOK(t) ==
  LET r == run[t]
  IN  /\ r.pc = "idle" => r.guard = 0
      /\ r.pc # "idle" => r.call \in Calls /\ HasHandle(t)
      /\ r.pc = "lookup" => r.call.op \in {"get", "getOrInsert", "insertIfAbsent"}
      /\ r.pc \in {"alloc", "install"} => r.call.op \in Writes
      /\ r.pc = "retire" => r.call.op \in {"insert", "remove", "clear", "entryRemove"}
      /\ r.pc = "mark" => r.call.op \in {"insert", "remove", "entryRemove"}
      /\ r.pc = "takeout" => r.call.op = "remove"
      /\ r.pc \in {"swap", "sweep"} => r.call.op = "clear"
      /\ r.pc # "idle" => (r.guard = 0 <=> r.call.op = "entryRemove")
      /\ r.pc = "entry" => r.call.op = "entryRemove" /\ r.handle # 0 /\ handles[t][r.handle] # None
      /\ (\E k \in Keys : detached[t][k] # Obsolete) =>
           r.pc = "sweep" \/ (r.pc = "retire" /\ r.call.op = "clear")
      /\ r.pc = "install" => r.own # 0 /\ mem[r.own].key = r.call.key
      /\ r.pc \in {"mark", "retire"} => r.leaf # 0
RunsOK == \A t \in Threads : RunOK(t)

OverOK == hist.over => Unborrowed /\ \A k \in Keys : map[k] = 0

-----------------------------------------------------------------------------
(* Who holds which guard *)

\* What can hold a guard of a thread: its call (-1), its iterator (0), a handle.
Holders == -1 .. MaxHandles
NoHold == [guard |-> 0, kind |-> "none"]
HoldOf(t, h) ==
  IF h = -1 THEN [guard |-> run[t].guard, kind |-> run[t].kind]
  ELSE IF h = 0 THEN IF iter[t] = None THEN NoHold
                     ELSE [guard |-> iter[t].guard, kind |-> iter[t].kind]
  ELSE IF handles[t][h] = None THEN NoHold
  ELSE [guard |-> handles[t][h].guard, kind |-> handles[t][h].kind]
Holds(t) == [h \in Holders |-> HoldOf(t, h)]

On(gs, l) == {g \in GuardIds : gs[g] # None /\ gs[g].local = l}
By(H, g) == {h \in Holders : H[h].guard = g}

\* The guards gs of thread t, the Guard us it has from pin(), the holders H of
\* them, and the Locals lc.
TagFits(n, tag) == tag = IF n \in FreshIds THEN 0 ELSE n
TagsOK(t, gs) ==
  \A g \in GuardIds : gs[g] # None => \E n \in LocalIds :
    gs[g].local = <<t, n>> /\ TagFits(n, gs[g].tag)
PinsCounted(t, gs, lc) ==
  \A n \in LocalIds : lc[<<t, n>>].pins = Cardinality(On(gs, <<t, n>>))
HoldOK(gs, us, H, h) ==
  /\ H[h].guard = 0 <=> H[h].kind = "none"
  /\ H[h].guard # 0 => gs[H[h].guard] # None
  /\ H[h].guard # 0 => (H[h].kind = "borrowed" <=> H[h].guard = us)
  /\ H[h].kind = "owned" => \A i \in Holders : H[i].guard = H[h].guard => i = h
  /\ H[h].kind = "shared" => gs[H[h].guard].rc = Cardinality(By(H, H[h].guard))
HoldsOK(gs, us, H) == \A h \in Holders : HoldOK(gs, us, H, h)
AllHeld(gs, us, H) ==
  /\ us # 0 => gs[us] # None
  /\ \A g \in GuardIds : gs[g] # None => us = g \/ \E h \in Holders : H[h].guard = g
PinsOK(t, gs, us, H, lc) ==
  TagsOK(t, gs) /\ PinsCounted(t, gs, lc) /\ HoldsOK(gs, us, H) /\ AllHeld(gs, us, H)

GuardsOK == \A t \in Threads : PinsOK(t, guards[t], user[t], Holds(t), local)

\* The epoch is at most one ahead of a Local that is pinned.
EpochsOK ==
  \A l \in Locals : local[l].pins > 0 => local[l].epoch <= epoch /\ epoch <= local[l].epoch + 1

-----------------------------------------------------------------------------
(* Who owns which leaf *)

\* The map, and the trees that clears have taken down.
Slots == [s \in Trees |-> IF s = None THEN map ELSE detached[s]]
\* The leaf that a thread's insert has not published yet, and the one that its
\* call has unlinked and not retired yet.
Owned == [t \in Threads |-> IF run[t].pc = "install" THEN run[t].own ELSE 0]
Retiring == [t \in Threads |-> IF run[t].pc \in {"mark", "retire"} THEN run[t].leaf ELSE 0]

LinkedOK(S, m) ==
  /\ \A s \in Trees, k \in Keys : S[s][k] \in Addresses =>
       /\ m[S[s][k]].state = "linked" /\ m[S[s][k]].key = k
       /\ \A r \in Trees : S[r][k] = S[s][k] => r = s
  /\ \A x \in Addresses : m[x].state = "linked" =>
       m[x].key \in Keys /\ \E s \in Trees : S[s][m[x].key] = x
OwnedOK(m, own) ==
  /\ \A t \in Threads : own[t] # 0 =>
       m[own[t]].state = "owned" /\ \A u \in Threads : own[u] = own[t] => u = t
  /\ \A x \in Addresses : m[x].state = "owned" => \E t \in Threads : own[t] = x
UnlinkedOK(m, ret, G) ==
  /\ \A t \in Threads : ret[t] # 0 =>
       /\ m[ret[t]].state = "unlinked"
       /\ \A u \in Threads : ret[u] = ret[t] => u = t
       /\ \A g \in G : g.leaf # ret[t]
  /\ \A g \in G :
       /\ m[g.leaf].state = "unlinked" /\ m[g.leaf].entry = g.entry
       /\ \A f \in G : f.leaf = g.leaf => f = g
  /\ \A x \in Addresses : m[x].state = "unlinked" =>
       (\E t \in Threads : ret[t] = x) \/ (\E g \in G : g.leaf = x)
EntriesOK(m, ret, made, taken) ==
  /\ made <= MaxEntries
  /\ \A x \in Addresses : m[x].state # "free" =>
       /\ m[x].entry \in 1 .. made /\ m[x].key \in Keys
       /\ \A y \in Addresses : m[y].state # "free" /\ m[y].entry = m[x].entry => y = x
  /\ \A e \in 1 .. MaxEntries :
       /\ taken[e] <= 1
       /\ taken[e] = 1 => e <= made
       /\ taken[e] = 1 => \A x \in Addresses : m[x].state # "free" /\ m[x].entry = e =>
            m[x].state = "unlinked" /\ \A t \in Threads : ret[t] # x
LeavesInv(S, m, own, ret, G, made, taken) ==
  LinkedOK(S, m) /\ OwnedOK(m, own) /\ UnlinkedOK(m, ret, G) /\ EntriesOK(m, ret, made, taken)
LeavesOK == LeavesInv(Slots, mem, Owned, Retiring, garbage, hist.made, hist.taken)

-----------------------------------------------------------------------------
(* What a handle or an iterator refers to *)

\* Leaf x still holds entry e, and is not freed while Local l stays where it is.
Safe(m, G, lc, x, e, l) ==
  /\ m[x].state \in {"linked", "unlinked"} /\ m[x].entry = e
  /\ \A g \in G : g.leaf = x => lc[l].epoch <= g.epoch
HandleSafe(t, h) ==
  Safe(mem, garbage, local, handles[t][h].leaf, handles[t][h].entry,
       guards[t][handles[t][h].guard].local)
AheadSafe(t, i) ==
  Safe(mem, garbage, local, iter[t].batch[i].leaf, iter[t].batch[i].entry,
       guards[t][iter[t].guard].local)
RefsOK ==
  \A t \in Threads :
    /\ \A h \in HandleIds : handles[t][h] # None => HandleSafe(t, h)
    /\ iter[t] # None => \A i \in DOMAIN iter[t].batch : AheadSafe(t, i)

IInv == HandlesTypeOK /\ RunsOK /\ OverOK /\ GuardsOK /\ EpochsOK /\ LeavesOK /\ RefsOK

-----------------------------------------------------------------------------
(* What each operation does to the leaves *)

LEMMA NotAddresses == 0 \notin Addresses /\ Obsolete \notin Addresses /\ Obsolete # 0
BY HandlesAssumption DEF Obsolete

\* A slot, or a thread's claim to a leaf, is set to v.
SlotPut(S2, S, s, k, v) ==
  /\ S2 \in Slotting /\ S2[s][k] = v
  /\ \A r \in Trees, j \in Keys : r # s \/ j # k => S2[r][j] = S[r][j]
ClaimPut(c2, c, t, v) ==
  c2 \in Claims /\ c2[t] = v /\ \A u \in Threads : u # t => c2[u] = c[u]

\* m2 is m, but for the leaf x.
OnlyAt(x, m2, m) ==
  /\ m2 \in Memory /\ \A y \in Addresses : y # x => m2[y] = m[y]
  /\ m2[x].key = m[x].key /\ m2[x].entry = m[x].entry

UnlinkedAt(x, m2, m) ==
  \/ m2 = [m EXCEPT ![x].state = "unlinked"]
  \/ m2 = [m EXCEPT ![x].removed = TRUE, ![x].state = "unlinked"]
LinkedAt(x, m2, m) == m2 = [m EXCEPT ![x].state = "linked"]

LEMMA UnlinkedMemory ==
  ASSUME NEW m \in Memory, NEW x \in Addresses, NEW m2, UnlinkedAt(x, m2, m)
  PROVE  OnlyAt(x, m2, m) /\ m2[x].state = "unlinked"
<1>1. CASE m2 = [m EXCEPT ![x].state = "unlinked"]
  BY <1>1 DEF Memory, OnlyAt
<1>2. CASE m2 = [m EXCEPT ![x].removed = TRUE, ![x].state = "unlinked"]
  <2>1. m2 \in Memory /\ \A y \in Addresses : y # x => m2[y] = m[y]
    BY <1>2 DEF Memory
  <2>2. m2[x].state = "unlinked" /\ m2[x].key = m[x].key /\ m2[x].entry = m[x].entry
    BY <1>2 DEF Memory
  <2>3. QED
    BY <2>1, <2>2 DEF OnlyAt
<1>3. QED
  BY <1>1, <1>2 DEF UnlinkedAt

LEMMA LinkedMemory ==
  ASSUME NEW m \in Memory, NEW x \in Addresses, NEW m2, LinkedAt(x, m2, m)
  PROVE  OnlyAt(x, m2, m) /\ m2[x].state = "linked"
BY DEF Memory, OnlyAt, LinkedAt

AllocAt(m2, m, x, k, e) ==
  m2 = [m EXCEPT ![x] = [state |-> "owned", key |-> k, entry |-> e, removed |-> FALSE]]

\* Alloc.
LEMMA AllocLeaves ==
  ASSUME NEW S \in Slotting, NEW m \in Memory, NEW own \in Claims, NEW ret \in Claims,
         NEW G \in SUBSET Deferred, NEW made \in Nat, NEW taken \in Takes,
         LeavesInv(S, m, own, ret, G, made, taken),
         NEW t \in Threads, own[t] = 0, NEW x \in Addresses, m[x].state = "free",
         NEW k \in Keys, made < MaxEntries,
         NEW m2, AllocAt(m2, m, x, k, made + 1), NEW own2, ClaimPut(own2, own, t, x)
  PROVE  m2 \in Memory /\ LeavesInv(S, m2, own2, ret, G, made + 1, taken)
<1>0. /\ m2 \in Memory
      /\ \A y \in Addresses : y # x => m2[y] = m[y]
      /\ m2[x].state = "owned" /\ m2[x].entry = made + 1 /\ m2[x].key = k
  BY DEF Memory, AllocAt
<1>1. LinkedOK(S, m2)
  BY <1>0 DEF LeavesInv, LinkedOK
<1>2. OwnedOK(m2, own2)
  BY <1>0, NotAddresses DEF LeavesInv, OwnedOK, Claims, Leaves, ClaimPut
<1>3. UnlinkedOK(m2, ret, G)
  BY <1>0 DEF LeavesInv, UnlinkedOK, Claims, Leaves, Deferred
<1>4. EntriesOK(m2, ret, made + 1, taken)
  <2>1. ASSUME NEW y \in Addresses, m2[y].state # "free"
        PROVE  /\ m2[y].entry \in 1 .. made + 1 /\ m2[y].key \in Keys
               /\ y # x => m2[y].entry \in 1 .. made
    <3>1. CASE y = x
      BY <1>0, <3>1
    <3>2. CASE y # x
      <4>1. m2[y] = m[y] /\ m[y].state # "free"
        BY <1>0, <2>1, <3>2
      <4>2. m[y].entry \in 1 .. made /\ m[y].key \in Keys
        BY <4>1 DEF LeavesInv, EntriesOK
      <4>3. QED
        BY <4>1, <4>2
    <3>3. QED
      BY <3>1, <3>2
  <2>2. \A y, z \in Addresses : m2[y].state # "free" /\ m2[z].state # "free" /\ m2[z].entry = m2[y].entry => z = y
    BY <1>0, <2>1 DEF LeavesInv, EntriesOK
  <2>3. ASSUME NEW e \in 1 .. MaxEntries, taken[e] = 1, NEW y \in Addresses,
               m2[y].state # "free", m2[y].entry = e
        PROVE  m2[y].state = "unlinked" /\ \A u \in Threads : ret[u] # y
    BY <1>0, <2>3 DEF LeavesInv, EntriesOK
  <2>4. \A e \in 1 .. MaxEntries : taken[e] <= 1 /\ (taken[e] = 1 => e <= made + 1)
    BY DEF LeavesInv, EntriesOK
  <2>5. made + 1 <= MaxEntries
    BY HandlesAssumption
  <2>6. QED
    BY <2>1, <2>2, <2>3, <2>4, <2>5 DEF EntriesOK
<1>5. QED
  BY <1>0, <1>1, <1>2, <1>3, <1>4 DEF LeavesInv

\* A leaf is unlinked: its slot is left empty or, by a clear, obsolete.
LEMMA UnlinkLeaves ==
  ASSUME NEW S \in Slotting, NEW m \in Memory, NEW own \in Claims, NEW ret \in Claims,
         NEW G \in SUBSET Deferred, NEW made \in Nat, NEW taken \in Takes,
         LeavesInv(S, m, own, ret, G, made, taken),
         NEW t \in Threads, ret[t] = 0, NEW s \in Trees, NEW k \in Keys,
         NEW x \in Addresses, S[s][k] = x, NEW v \in {0, Obsolete},
         NEW m2, OnlyAt(x, m2, m), m2[x].state = "unlinked",
         NEW S2, SlotPut(S2, S, s, k, v), NEW ret2, ClaimPut(ret2, ret, t, x)
  PROVE  LeavesInv(S2, m2, own, ret2, G, made, taken)
<1>0. /\ OnlyAt(x, m2, m)
      /\ ret2 \in Claims /\ ret2[t] = x /\ \A u \in Threads : u # t => ret2[u] = ret[u]
  BY DEF ClaimPut
<1>1. S2[s][k] = v /\ \A r \in Trees, j \in Keys : r # s \/ j # k => S2[r][j] = S[r][j]
  BY DEF SlotPut
<1>2. m[x].state = "linked" /\ m[x].key = k /\ \A r \in Trees : r # s => S[r][k] # x
  BY DEF LeavesInv, LinkedOK
<1>3. LinkedOK(S2, m2)
  BY <1>0, <1>1, <1>2, NotAddresses DEF LeavesInv, LinkedOK, OnlyAt
<1>4. OwnedOK(m2, own)
  BY <1>0, <1>2 DEF LeavesInv, OwnedOK, Claims, Leaves, OnlyAt
<1>5. UnlinkedOK(m2, ret2, G)
  BY <1>0, <1>2, NotAddresses DEF LeavesInv, UnlinkedOK, Claims, Leaves, Deferred, OnlyAt
<1>6. EntriesOK(m2, ret2, made, taken)
  <2>1. \A y \in Addresses : m2[y].entry = m[y].entry /\ m2[y].key = m[y].key /\ (m2[y].state # "free" <=> m[y].state # "free")
    BY <1>0, <1>2 DEF OnlyAt
  <2>2. ASSUME NEW e \in 1 .. MaxEntries, taken[e] = 1, NEW y \in Addresses,
               m2[y].state # "free", m2[y].entry = e
        PROVE  m2[y].state = "unlinked" /\ \A u \in Threads : ret2[u] # y
    BY <1>0, <1>2, <2>1, <2>2 DEF LeavesInv, EntriesOK, OnlyAt, Claims
  <2>3. QED
    BY <2>1, <2>2 DEF LeavesInv, EntriesOK
<1>7. QED
  BY <1>3, <1>4, <1>5, <1>6 DEF LeavesInv

\* A leaf is linked in an empty slot of its key.
LEMMA LinkLeaves ==
  ASSUME NEW S \in Slotting, NEW m \in Memory, NEW own \in Claims, NEW ret \in Claims,
         NEW G \in SUBSET Deferred, NEW made \in Nat, NEW taken \in Takes,
         LeavesInv(S, m, own, ret, G, made, taken),
         NEW t \in Threads, NEW s \in Trees, NEW k \in Keys, S[s][k] = 0,
         NEW x \in Addresses, own[t] = x, m[x].key = k,
         NEW m2, OnlyAt(x, m2, m), m2[x].state = "linked",
         NEW S2, SlotPut(S2, S, s, k, x), NEW own2, ClaimPut(own2, own, t, 0)
  PROVE  LeavesInv(S2, m2, own2, ret, G, made, taken)
<1>0. /\ OnlyAt(x, m2, m)
      /\ own2 \in Claims /\ own2[t] = 0 /\ \A u \in Threads : u # t => own2[u] = own[u]
  BY DEF ClaimPut
<1>1. S2[s][k] = x /\ \A r \in Trees, j \in Keys : r # s \/ j # k => S2[r][j] = S[r][j]
  BY DEF SlotPut
<1>2. m[x].state = "owned" /\ \A u \in Threads : own[u] = x => u = t
  BY NotAddresses DEF LeavesInv, OwnedOK
<1>3. LinkedOK(S2, m2)
  BY <1>0, <1>1, <1>2, NotAddresses DEF LeavesInv, LinkedOK, OnlyAt
<1>4. OwnedOK(m2, own2)
  BY <1>0, <1>2, NotAddresses DEF LeavesInv, OwnedOK, Claims, Leaves, OnlyAt
<1>5. UnlinkedOK(m2, ret, G)
  BY <1>0, <1>2, NotAddresses DEF LeavesInv, UnlinkedOK, Claims, Leaves, Deferred, OnlyAt
<1>6. EntriesOK(m2, ret, made, taken)
  <2>1. \A y \in Addresses : m2[y].entry = m[y].entry /\ m2[y].key = m[y].key /\ (m2[y].state # "free" <=> m[y].state # "free")
    BY <1>0, <1>2 DEF OnlyAt
  <2>2. ASSUME NEW e \in 1 .. MaxEntries, taken[e] = 1, NEW y \in Addresses,
               m2[y].state # "free", m2[y].entry = e
        PROVE  m2[y].state = "unlinked" /\ \A u \in Threads : ret[u] # y
    BY <1>0, <1>2, <2>1, <2>2 DEF LeavesInv, EntriesOK, OnlyAt, Claims
  <2>3. QED
    BY <2>1, <2>2 DEF LeavesInv, EntriesOK
<1>7. QED
  BY <1>3, <1>4, <1>5, <1>6 DEF LeavesInv

\* Memory is given back: all leaves of X.
FreedAt(X, m2, m) ==
  /\ m2 \in Memory
  /\ \A y \in Addresses : m2[y] = IF y \in X THEN Free ELSE m[y]

\* A leaf that was not published is dropped by its owner.
LEMMA DropLeaves ==
  ASSUME NEW S \in Slotting, NEW m \in Memory, NEW own \in Claims, NEW ret \in Claims,
         NEW G \in SUBSET Deferred, NEW made \in Nat, NEW taken \in Takes,
         LeavesInv(S, m, own, ret, G, made, taken),
         NEW t \in Threads, NEW x \in Addresses, own[t] = x, NEW m2, FreedAt({x}, m2, m),
         NEW own2, ClaimPut(own2, own, t, 0)
  PROVE  LeavesInv(S, m2, own2, ret, G, made, taken)
<1>0. /\ m2 \in Memory /\ m2[x].state = "free" /\ \A y \in Addresses : y # x => m2[y] = m[y]
      /\ own2 \in Claims /\ own2[t] = 0 /\ \A u \in Threads : u # t => own2[u] = own[u]
  BY DEF ClaimPut, FreedAt, Free
<1>2. m[x].state = "owned" /\ \A u \in Threads : own[u] = x => u = t
  BY NotAddresses DEF LeavesInv, OwnedOK
<1>3. LinkedOK(S, m2)
  BY <1>0, <1>2, NotAddresses DEF LeavesInv, LinkedOK
<1>4. OwnedOK(m2, own2)
  BY <1>0, <1>2, NotAddresses DEF LeavesInv, OwnedOK, Claims, Leaves
<1>5. UnlinkedOK(m2, ret, G)
  BY <1>0, <1>2, NotAddresses DEF LeavesInv, UnlinkedOK, Claims, Leaves, Deferred
<1>6. EntriesOK(m2, ret, made, taken)
  BY <1>0, <1>2 DEF LeavesInv, EntriesOK
<1>7. QED
  BY <1>3, <1>4, <1>5, <1>6 DEF LeavesInv

DeferredAt(G2, G, x, e, n) == G2 = G \cup {[leaf |-> x, entry |-> e, epoch |-> n]}
TakenAt(taken2, taken, e) == taken2 = [taken EXCEPT ![e] = @ + 1]

RetiredAt(G2, taken2, G, taken, m, x, n) ==
  DeferredAt(G2, G, x, m[x].entry, n) /\ TakenAt(taken2, taken, m[x].entry)

AfterRetire(S, m, own, ret, G, made, taken) ==
  LeavesInv(S, m, own, ret, G, made, taken) /\ taken \in Takes /\ G \subseteq Deferred

\* RetireLeaf.
LEMMA RetireLeaves ==
  ASSUME NEW S \in Slotting, NEW m \in Memory, NEW own \in Claims, NEW ret \in Claims,
         NEW G \in SUBSET Deferred, NEW made \in Nat, NEW taken \in Takes,
         LeavesInv(S, m, own, ret, G, made, taken),
         NEW t \in Threads, NEW x \in Addresses, ret[t] = x, NEW n \in Nat,
         NEW ret2, ClaimPut(ret2, ret, t, 0), NEW G2, NEW taken2, RetiredAt(G2, taken2, G, taken, m, x, n)
  PROVE  AfterRetire(S, m, own, ret2, G2, made, taken2)
<1>0. ret2 \in Claims /\ ret2[t] = 0 /\ \A u \in Threads : u # t => ret2[u] = ret[u]
  BY DEF ClaimPut
<1>1. /\ m[x].state = "unlinked" /\ \A u \in Threads : ret[u] = x => u = t
      /\ \A g \in G : g.leaf # x
  BY NotAddresses DEF LeavesInv, UnlinkedOK
<1>2. m[x].entry \in 1 .. made /\ m[x].entry \in 1 .. MaxEntries
  BY <1>1, HandlesAssumption DEF LeavesInv, EntriesOK
<1>3. /\ taken[m[x].entry] = 0 /\ taken2[m[x].entry] = 1
      /\ \A e \in 1 .. MaxEntries : e # m[x].entry => taken2[e] = taken[e]
  BY <1>1, <1>2 DEF LeavesInv, EntriesOK, Takes, TakenAt, RetiredAt
<1>4. UnlinkedOK(m, ret2, G2)
  <2> DEFINE d == [leaf |-> x, entry |-> m[x].entry, epoch |-> n]
  <2>1. d.leaf = x /\ d.entry = m[x].entry /\ d \in G2 /\ \A g \in G2 : g = d \/ g \in G
    BY DEF DeferredAt, RetiredAt
  <2> HIDE DEF d
  <2>2. ASSUME NEW u \in Threads, ret2[u] # 0
        PROVE  /\ m[ret2[u]].state = "unlinked" /\ \A v \in Threads : ret2[v] = ret2[u] => v = u
               /\ \A g \in G2 : g.leaf # ret2[u]
    BY <1>0, <1>1, <2>1, <2>2 DEF LeavesInv, UnlinkedOK
  <2>3. ASSUME NEW g \in G2
        PROVE  /\ m[g.leaf].state = "unlinked" /\ m[g.leaf].entry = g.entry
               /\ \A f \in G2 : f.leaf = g.leaf => f = g
    BY <1>1, <2>1 DEF LeavesInv, UnlinkedOK
  <2>4. \A y \in Addresses : m[y].state = "unlinked" =>
          (\E u \in Threads : ret2[u] = y) \/ (\E g \in G2 : g.leaf = y)
    <3>1. \A g \in G : g \in G2
      BY DEF DeferredAt, RetiredAt
    <3>2. QED
      BY <1>0, <1>1, <2>1, <3>1 DEF LeavesInv, UnlinkedOK
  <2>5. QED
    BY <2>2, <2>3, <2>4 DEF UnlinkedOK
<1>5. EntriesOK(m, ret2, made, taken2)
  <2>1. ASSUME NEW e \in 1 .. MaxEntries, taken2[e] = 1, NEW y \in Addresses,
               m[y].state # "free", m[y].entry = e
        PROVE  m[y].state = "unlinked" /\ \A u \in Threads : ret2[u] # y
    <3>1. CASE e = m[x].entry
      <4>1. y = x
        BY <1>1, <2>1, <3>1 DEF LeavesInv, EntriesOK
      <4>2. QED
        BY <1>0, <1>1, <4>1, NotAddresses DEF Claims
    <3>2. CASE e # m[x].entry
      BY <1>0, <1>3, <2>1, <3>2, NotAddresses DEF LeavesInv, EntriesOK
    <3>3. QED
      BY <3>1, <3>2
  <2>2. QED
    BY <1>2, <1>3, <2>1 DEF LeavesInv, EntriesOK
<1>6. taken2 \in Takes
  BY <1>2 DEF Takes, TakenAt, RetiredAt
<1>7. G2 \subseteq Deferred
  BY DEF DeferredAt, RetiredAt, Deferred, Memory
<1>8. QED
  BY <1>4, <1>5, <1>6, <1>7 DEF LeavesInv, AfterRetire

\* MarkRemoved: nothing but the mark.
LEMMA MarkLeaves ==
  ASSUME NEW S \in Slotting, NEW m \in Memory, NEW own \in Claims, NEW ret \in Claims,
         NEW G \in SUBSET Deferred, NEW made \in Nat, NEW taken \in Takes,
         LeavesInv(S, m, own, ret, G, made, taken), NEW m2 \in Memory,
         \A y \in Addresses : m2[y].state = m[y].state /\ m2[y].key = m[y].key /\ m2[y].entry = m[y].entry
  PROVE  LeavesInv(S, m2, own, ret, G, made, taken)
<1>1. LinkedOK(S, m2)
  BY DEF LeavesInv, LinkedOK
<1>2. OwnedOK(m2, own)
  BY DEF LeavesInv, OwnedOK, Claims, Leaves
<1>3. UnlinkedOK(m2, ret, G)
  BY DEF LeavesInv, UnlinkedOK, Claims, Leaves, Deferred
<1>4. EntriesOK(m2, ret, made, taken)
  BY DEF LeavesInv, EntriesOK
<1>5. QED
  BY <1>1, <1>2, <1>3, <1>4 DEF LeavesInv

\* SwapRoot: the leaves of the map are those of the detached tree now.
LEMMA SwapLeaves ==
  ASSUME NEW S \in Slotting, NEW m \in Memory, NEW own \in Claims, NEW ret \in Claims,
         NEW G \in SUBSET Deferred, NEW made \in Nat, NEW taken \in Takes,
         LeavesInv(S, m, own, ret, G, made, taken),
         NEW t \in Threads, \A k \in Keys : S[t][k] = Obsolete,
         NEW S2 \in Slotting, \A k \in Keys : S2[None][k] = 0,
         \A s \in Trees : s # t /\ s # None => S2[s] = S[s],
         \/ \A k \in Keys : S2[t][k] = S[None][k]
         \/ \A k \in Keys : S[None][k] = 0 /\ S2[t][k] = Obsolete
  PROVE  LeavesInv(S2, m, own, ret, G, made, taken)
<1>1. t # None /\ t \in Trees /\ None \in Trees
  BY HandlesAssumption DEF Trees
<1>2. ASSUME NEW s \in Trees, NEW k \in Keys, S2[s][k] \in Addresses
      PROVE  (s = t /\ S2[s][k] = S[None][k]) \/ (s # t /\ s # None /\ S2[s][k] = S[s][k])
  BY <1>1, <1>2, NotAddresses
<1>3. LinkedOK(S2, m)
  <2>1. ASSUME NEW s \in Trees, NEW k \in Keys, S2[s][k] \in Addresses
        PROVE  /\ m[S2[s][k]].state = "linked" /\ m[S2[s][k]].key = k
               /\ \A r \in Trees : S2[r][k] = S2[s][k] => r = s
    BY <1>1, <1>2, <2>1 DEF LeavesInv, LinkedOK
  <2>2. ASSUME NEW x \in Addresses, m[x].state = "linked"
        PROVE  m[x].key \in Keys /\ \E s \in Trees : S2[s][m[x].key] = x
    <3>1. PICK s \in Trees : m[x].key \in Keys /\ S[s][m[x].key] = x
      BY <2>2 DEF LeavesInv, LinkedOK
    <3>2. s # t
      BY <3>1, NotAddresses
    <3>3. CASE s = None
      BY <1>1, <3>1, <3>3, NotAddresses
    <3>4. CASE s # None
      BY <3>1, <3>2, <3>4
    <3>5. QED
      BY <3>3, <3>4
  <2>3. QED
    BY <2>1, <2>2 DEF LinkedOK
<1>4. QED
  BY <1>3 DEF LeavesInv

\* A clear makes an empty node obsolete.
LEMMA EmptyLeaves ==
  ASSUME NEW S \in Slotting, NEW m \in Memory, NEW own \in Claims, NEW ret \in Claims,
         NEW G \in SUBSET Deferred, NEW made \in Nat, NEW taken \in Takes,
         LeavesInv(S, m, own, ret, G, made, taken),
         NEW s \in Trees, NEW k \in Keys, S[s][k] = 0, NEW S2, SlotPut(S2, S, s, k, Obsolete)
  PROVE  LeavesInv(S2, m, own, ret, G, made, taken)
<1>1. S2[s][k] = Obsolete /\ \A r \in Trees, j \in Keys : r # s \/ j # k => S2[r][j] = S[r][j]
  BY DEF SlotPut
<1>2. LinkedOK(S2, m)
  BY <1>1, NotAddresses DEF LeavesInv, LinkedOK
<1>3. QED
  BY <1>2 DEF LeavesInv

\* Collect.
LEMMA CollectLeaves ==
  ASSUME NEW S \in Slotting, NEW m \in Memory, NEW own \in Claims, NEW ret \in Claims,
         NEW G \in SUBSET Deferred, NEW made \in Nat, NEW taken \in Takes,
         LeavesInv(S, m, own, ret, G, made, taken),
         NEW g \in G, NEW m2, FreedAt({g.leaf}, m2, m)
  PROVE  LeavesInv(S, m2, own, ret, G \ {g}, made, taken)
<1> DEFINE x == g.leaf
<1>0. x \in Addresses /\ m2 \in Memory /\ m2[x].state = "free" /\ \A y \in Addresses : y # x => m2[y] = m[y]
  BY DEF FreedAt, Free, Deferred
<1>1. /\ m[x].state = "unlinked" /\ \A f \in G \ {g} : f.leaf # x
      /\ \A u \in Threads : ret[u] # x
  BY <1>0, NotAddresses DEF LeavesInv, UnlinkedOK
<1> HIDE DEF x
<1>3. LinkedOK(S, m2)
  BY <1>0, <1>1, NotAddresses DEF LeavesInv, LinkedOK
<1>4. OwnedOK(m2, own)
  BY <1>0, <1>1, NotAddresses DEF LeavesInv, OwnedOK, Claims, Leaves
<1>5. UnlinkedOK(m2, ret, G \ {g})
  <2>1. \A y \in Addresses : m2[y].state = "unlinked" => y # x /\ m[y].state = "unlinked"
    BY <1>0
  <2>2. \A f \in G \ {g} : m2[f.leaf] = m[f.leaf]
    BY <1>0, <1>1 DEF Deferred
  <2>3. \A u \in Threads : ret[u] # 0 => m2[ret[u]] = m[ret[u]]
    BY <1>0, <1>1 DEF Claims, Leaves
  <2>4. QED
    BY <2>1, <2>2, <2>3 DEF LeavesInv, UnlinkedOK, x
<1>6. EntriesOK(m2, ret, made, taken)
  BY <1>0, <1>1 DEF LeavesInv, EntriesOK
<1>7. QED
  BY <1>3, <1>4, <1>5, <1>6 DEF LeavesInv

\* DropMap: no other tree and no call is left.
LEMMA DropMapLeaves ==
  ASSUME NEW S \in Slotting, NEW m \in Memory, NEW own \in Claims, NEW ret \in Claims,
         NEW G \in SUBSET Deferred, NEW made \in Nat, NEW taken \in Takes,
         LeavesInv(S, m, own, ret, G, made, taken),
         \A s \in Threads, k \in Keys : S[s][k] = Obsolete,
         \A t \in Threads : own[t] = 0 /\ ret[t] = 0,
         NEW S2 \in Slotting, \A s \in Trees, k \in Keys : S2[s][k] \notin Addresses,
         NEW m2, FreedAt({x \in Addresses : \E k \in Keys : S[None][k] = x}, m2, m)
  PROVE  LeavesInv(S2, m2, own, ret, G, made, taken)
<1>0. ASSUME NEW x \in Addresses
      PROVE  m2[x].state = "free" \/ (m2[x] = m[x] /\ \A k \in Keys : S[None][k] # x)
  BY DEF FreedAt, Free
<1>1. \A x \in Addresses : m2[x].state # "linked" /\ m2[x].state # "owned"
  <2> SUFFICES ASSUME NEW x \in Addresses PROVE m2[x].state # "linked" /\ m2[x].state # "owned"
    OBVIOUS
  <2>1. m[x].state # "owned"
    BY NotAddresses DEF LeavesInv, OwnedOK
  <2>2. m[x].state = "linked" => \E k \in Keys : S[None][k] = x
    BY NotAddresses DEF LeavesInv, LinkedOK, Trees
  <2>3. QED
    BY <1>0, <2>1, <2>2
<1>2. \A x \in Addresses : m[x].state = "unlinked" => m2[x] = m[x]
  BY NotAddresses DEF LeavesInv, LinkedOK, Trees, FreedAt
<1>3. LinkedOK(S2, m2)
  BY <1>1 DEF LinkedOK
<1>4. OwnedOK(m2, own)
  BY <1>1 DEF OwnedOK
<1>5. UnlinkedOK(m2, ret, G)
  <2>1. \A g \in G : m2[g.leaf] = m[g.leaf]
    BY <1>2 DEF LeavesInv, UnlinkedOK, Deferred
  <2>2. QED
    BY <1>0, <2>1 DEF LeavesInv, UnlinkedOK
<1>6. EntriesOK(m2, ret, made, taken)
  BY <1>0 DEF LeavesInv, EntriesOK
<1>7. QED
  BY <1>3, <1>4, <1>5, <1>6 DEF LeavesInv

-----------------------------------------------------------------------------
(* What each operation does to the guards of a thread *)

Holding == [Holders -> [guard : GuardIds \cup {0}, kind : Kinds \cup {"none"}]]

LEMMA GuardRecNotNone == \A r \in GuardRecs : r # None
BY DEF GuardRecs, None

LEMMA RefNotNone == \A r \in Refs : r # None
BY DEF Refs, None

LEMMA IterNotNone == \A i \in Iters : i # None
BY DEF Iters, None

LEMMA OnFinite ==
  ASSUME NEW gs, NEW l
  PROVE  IsFiniteSet(On(gs, l)) /\ Cardinality(On(gs, l)) \in Nat
<1>1. IsFiniteSet(GuardIds)
  BY FS_Interval, HandlesAssumption DEF GuardIds
<1>2. On(gs, l) \in SUBSET GuardIds
  BY DEF On
<1>3. QED
  BY <1>1, <1>2, FS_Subset, FS_CardinalityType

LEMMA ByFinite ==
  ASSUME NEW H, NEW g
  PROVE  IsFiniteSet(By(H, g)) /\ Cardinality(By(H, g)) \in Nat
<1>1. IsFiniteSet(Holders)
  BY FS_Interval, HandlesAssumption DEF Holders
<1>2. By(H, g) \in SUBSET Holders
  BY DEF By
<1>3. QED
  BY <1>1, <1>2, FS_Subset, FS_CardinalityType

GuardAdded(gs2, gs, g, l, tag) == gs2 = [gs EXCEPT ![g] = [local |-> l, tag |-> tag, rc |-> 1]]
PinAdded(lc2, lc, l) ==
  lc2[l].pins = lc[l].pins + 1 /\ \A k \in Locals : k # l => lc2[k] = lc[k]

\* One guard more, and one pin more on its Local.
LEMMA PinCounted ==
  ASSUME NEW t \in Threads, NEW gs \in Guarding, NEW lc \in Counting, NEW lc2 \in Counting,
         TagsOK(t, gs), PinsCounted(t, gs, lc),
         NEW g \in GuardIds, gs[g] = None, NEW n \in LocalIds, NEW tag \in 0 .. MaxParts,
         TagFits(n, tag),
         PinAdded(lc2, lc, <<t, n>>), NEW gs2, GuardAdded(gs2, gs, g, <<t, n>>, tag)
  PROVE  /\ gs2 \in Guarding /\ TagsOK(t, gs2) /\ PinsCounted(t, gs2, lc2)
         /\ gs2[g] # None /\ gs2[g].rc = 1 /\ \A i \in GuardIds : i # g => gs2[i] = gs[i]
<1> DEFINE r == [local |-> <<t, n>>, tag |-> tag, rc |-> 1]
<1>0. r \in GuardRecs /\ r.local = <<t, n>> /\ r.tag = tag /\ r.rc = 1
  BY DEF GuardRecs, Locals
<1>a. gs2[g] = r /\ \A i \in GuardIds : i # g => gs2[i] = gs[i]
  BY DEF Guarding, GuardAdded
<1>b. gs2 \in Guarding
  BY <1>0 DEF Guarding, GuardAdded
<1> HIDE DEF r
<1>1. TagsOK(t, gs2)
  BY <1>0, <1>a DEF TagsOK
<1>2. ASSUME NEW i \in LocalIds
      PROVE  lc2[<<t, i>>].pins = Cardinality(On(gs2, <<t, i>>))
  <2>0. <<t, i>> \in Locals
    BY DEF Locals
  <2>1. CASE i = n
    <3>1. On(gs2, <<t, n>>) = On(gs, <<t, n>>) \cup {g} /\ g \notin On(gs, <<t, n>>)
      BY <1>0, <1>a, GuardRecNotNone DEF On
    <3>2. QED
      BY <2>1, <3>1, OnFinite, FS_AddElement DEF PinsCounted, PinAdded
  <2>2. CASE i # n
    <3>1. <<t, i>> # <<t, n>>
      BY <2>2
    <3>2. On(gs2, <<t, i>>) = On(gs, <<t, i>>)
      BY <1>0, <1>a, <3>1 DEF On
    <3>3. QED
      BY <2>0, <3>1, <3>2 DEF PinsCounted, PinAdded
  <2>3. QED
    BY <2>1, <2>2
<1>3. QED
  BY <1>0, <1>a, <1>b, <1>1, <1>2, GuardRecNotNone DEF PinsCounted

GuardGone(gs2, gs, g) == gs2 = [gs EXCEPT ![g] = None]
PinGone(lc2, lc, l) == lc2 = [lc EXCEPT ![l].pins = @ - 1]
OwnPins(t, lc2, lc) ==
  \A l \in Locals : lc2[l].epoch = lc[l].epoch /\ (l[1] # t => lc2[l] = lc[l])
RcSet(gs2, gs, g, v) == gs2 = [gs EXCEPT ![g].rc = v]

\* One guard less, and one pin less.
LEMMA UnpinCounted ==
  ASSUME NEW t \in Threads, NEW gs \in Guarding, NEW lc \in Counting, NEW lc2,
         TagsOK(t, gs), PinsCounted(t, gs, lc),
         NEW g \in GuardIds, gs[g] # None,
         PinGone(lc2, lc, gs[g].local), NEW gs2, GuardGone(gs2, gs, g)
  PROVE  /\ gs2 \in Guarding /\ TagsOK(t, gs2) /\ PinsCounted(t, gs2, lc2)
         /\ lc2 \in Counting
         /\ gs2[g] = None /\ \A i \in GuardIds : i # g => gs2[i] = gs[i]
         /\ OwnPins(t, lc2, lc)
<1>1. PICK n \in LocalIds : gs[g].local = <<t, n>>
  BY DEF TagsOK
<1>2. lc[<<t, n>>].pins = Cardinality(On(gs, <<t, n>>)) /\ <<t, n>> \in Locals
  BY DEF PinsCounted, Locals
<1>3. g \in On(gs, <<t, n>>)
  BY <1>1 DEF On
<1>4. lc[<<t, n>>].pins - 1 \in Nat /\ lc[<<t, n>>].pins - 1 = Cardinality(On(gs, <<t, n>>) \ {g})
  <2> DEFINE Q == On(gs, <<t, n>>)
  <2>1. IsFiniteSet(Q) /\ g \in Q
    BY <1>3, OnFinite
  <2> HIDE DEF Q
  <2>2. IsFiniteSet(Q \ {g}) /\ Cardinality(Q \ {g}) = Cardinality(Q) - 1
    BY <2>1, FS_RemoveElement
  <2>3. Cardinality(Q \ {g}) \in Nat
    BY <2>2, FS_CardinalityType
  <2>4. QED
    BY <1>2, <2>2, <2>3 DEF Q
<1>5. /\ lc2 \in Counting /\ lc2[<<t, n>>].pins = lc[<<t, n>>].pins - 1
      /\ \A l \in Locals : l # <<t, n>> => lc2[l] = lc[l]
      /\ \A l \in Locals : lc2[l].epoch = lc[l].epoch
  BY <1>1, <1>2, <1>4 DEF Counting, LocalRecs, PinGone
<1>6. gs2 \in Guarding /\ gs2[g] = None /\ \A i \in GuardIds : i # g => gs2[i] = gs[i]
  BY DEF Guarding, GuardGone
<1>7. TagsOK(t, gs2)
  BY <1>6 DEF TagsOK
<1>8. ASSUME NEW i \in LocalIds
      PROVE  lc2[<<t, i>>].pins = Cardinality(On(gs2, <<t, i>>))
  <2>0. <<t, i>> \in Locals
    BY DEF Locals
  <2>1. CASE i = n
    <3>1. On(gs2, <<t, n>>) = On(gs, <<t, n>>) \ {g}
      BY <1>6 DEF On
    <3>2. QED
      BY <2>1, <3>1, <1>4, <1>5
  <2>2. CASE i # n
    <3>1. <<t, i>> # <<t, n>>
      BY <2>2
    <3>2. On(gs2, <<t, i>>) = On(gs, <<t, i>>)
      BY <1>1, <1>6, <3>1 DEF On
    <3>3. QED
      BY <1>5, <2>0, <3>1, <3>2 DEF PinsCounted
  <2>3. QED
    BY <2>1, <2>2
<1>9. \A l \in Locals : l[1] # t => l # <<t, n>>
  OBVIOUS
<1>10. QED
  BY <1>5, <1>6, <1>7, <1>8, <1>9 DEF PinsCounted, OwnPins

\* A count of holders alone changes nothing for the Locals.
LEMMA RcCounted ==
  ASSUME NEW t \in Threads, NEW gs \in Guarding, NEW lc \in Counting,
         TagsOK(t, gs), PinsCounted(t, gs, lc),
         NEW g \in GuardIds, gs[g] # None, NEW v \in Nat \ {0},
         NEW gs2, RcSet(gs2, gs, g, v)
  PROVE  /\ gs2 \in Guarding /\ TagsOK(t, gs2) /\ PinsCounted(t, gs2, lc)
         /\ gs2[g] # None /\ gs2[g].rc = v /\ \A i \in GuardIds : i # g => gs2[i] = gs[i]
         /\ gs2[g].local = gs[g].local
<1>0. gs[g] \in GuardRecs
  BY DEF Guarding
<1>1. gs2[g] \in GuardRecs /\ gs2[g].local = gs[g].local /\ gs2[g].tag = gs[g].tag /\ gs2[g].rc = v
  BY <1>0 DEF Guarding, GuardRecs, RcSet
<1>2. gs2 \in Guarding /\ \A i \in GuardIds : i # g => gs2[i] = gs[i]
  BY <1>1 DEF Guarding, RcSet
<1>3. \A i \in GuardIds : (gs2[i] # None <=> gs[i] # None) /\ gs2[i].local = gs[i].local /\ gs2[i].tag = gs[i].tag
  BY <1>1, <1>2, GuardRecNotNone
<1>4. TagsOK(t, gs2)
  BY <1>3 DEF TagsOK
<1>5. \A l : On(gs2, l) = On(gs, l)
  BY <1>3 DEF On
<1>6. QED
  BY <1>1, <1>2, <1>4, <1>5, GuardRecNotNone DEF PinsCounted

\* The holder h now has hold q, and the others have what they had.
HeldAt(h, q, H2, H) == H2 \in Holding /\ H2[h] = q /\ \A i \in Holders : i # h => H2[i] = H[i]
\* gs2 is gs, but for the guard g.
GuardsBut(g, gs2, gs) == \A i \in GuardIds : i # g => gs2[i] = gs[i]

LEMMA GuardsNotZero == 0 \notin GuardIds
BY DEF GuardIds

\* A new guard, held by a call, a handle or an iterator.
LEMMA NewHold ==
  ASSUME NEW gs \in Guarding, NEW gs2 \in Guarding, NEW us \in GuardIds \cup {0}, NEW H \in Holding,
         HoldsOK(gs, us, H), AllHeld(gs, us, H),
         NEW g \in GuardIds, gs[g] = None, gs2[g] # None, gs2[g].rc = 1, GuardsBut(g, gs2, gs),
         NEW h \in Holders, H[h].guard = 0, NEW kind \in {"owned", "shared"},
         NEW H2, HeldAt(h, [guard |-> g, kind |-> kind], H2, H)
  PROVE  HoldsOK(gs2, us, H2) /\ AllHeld(gs2, us, H2)
<1>0. H2[h].guard = g /\ H2[h].kind = kind /\ \A i \in Holders : i # h => H2[i] = H[i]
  BY DEF HeldAt
<1>1. us # g /\ g # 0 /\ \A i \in Holders : H[i].guard # g
  BY GuardsNotZero DEF HoldsOK, HoldOK, AllHeld
<1>2. By(H2, g) = {h}
  BY <1>0, <1>1 DEF By
<1>3. Cardinality(By(H2, g)) = 1
  BY <1>2, FS_Singleton
<1>4. HoldOK(gs2, us, H2, h)
  BY <1>0, <1>1, <1>3 DEF HoldOK
<1>5. ASSUME NEW i \in Holders, i # h PROVE HoldOK(gs2, us, H2, i)
  <2>1. H2[i] = H[i] /\ H[i].guard \in GuardIds \cup {0} /\ HoldOK(gs, us, H, i)
    BY <1>0, <1>5 DEF HoldsOK, Holding
  <2>2. H[i].guard # 0 => gs2[H[i].guard] = gs[H[i].guard] /\ By(H2, H[i].guard) = By(H, H[i].guard)
    BY <1>0, <1>1, <2>1 DEF By, GuardsBut
  <2>3. H[i].kind = "shared" => H[i].guard # 0
    BY <2>1 DEF HoldOK
  <2>4. H[i].kind = "owned" => \A j \in Holders : H2[j].guard = H[i].guard => j = i
    BY <1>0, <1>1, <2>1 DEF HoldOK
  <2>5. QED
    BY <2>1, <2>2, <2>3, <2>4 DEF HoldOK
<1>6. AllHeld(gs2, us, H2)
  BY <1>0, <1>1, GuardsNotZero DEF AllHeld, GuardsBut
<1>7. QED
  BY <1>4, <1>5, <1>6 DEF HoldsOK

\* A new guard that the caller has from pin().
LEMMA NewUser ==
  ASSUME NEW gs \in Guarding, NEW gs2 \in Guarding, NEW us \in GuardIds \cup {0}, NEW H \in Holding,
         HoldsOK(gs, us, H), AllHeld(gs, us, H),
         NEW g \in GuardIds, gs[g] = None, gs2[g] # None, GuardsBut(g, gs2, gs), us = 0
  PROVE  HoldsOK(gs2, g, H) /\ AllHeld(gs2, g, H)
<1>1. g # 0 /\ \A i \in Holders : H[i].guard # g
  BY GuardsNotZero DEF HoldsOK, HoldOK
<1>2. ASSUME NEW i \in Holders PROVE HoldOK(gs2, g, H, i)
  <2>1. H[i].guard \in GuardIds \cup {0} /\ HoldOK(gs, us, H, i)
    BY DEF HoldsOK, Holding
  <2>2. QED
    BY <1>1, <2>1 DEF HoldOK, GuardsBut
<1>3. AllHeld(gs2, g, H)
  BY GuardsNotZero DEF AllHeld, GuardsBut
<1>4. QED
  BY <1>2, <1>3 DEF HoldsOK

\* The caller's Guard is borrowed.
LEMMA BorrowHold ==
  ASSUME NEW gs \in Guarding, NEW gs2 \in Guarding, NEW us \in GuardIds \cup {0}, NEW H \in Holding,
         HoldsOK(gs, us, H), AllHeld(gs, us, H),
         us # 0, NEW h \in Holders, H[h].guard = 0,
         NEW H2, HeldAt(h, [guard |-> us, kind |-> "borrowed"], H2, H)
  PROVE  HoldsOK(gs, us, H2) /\ AllHeld(gs, us, H2)
<1>0. H2[h].guard = us /\ H2[h].kind = "borrowed" /\ \A i \in Holders : i # h => H2[i] = H[i]
  BY DEF HeldAt
<1>1. HoldOK(gs, us, H2, h)
  BY <1>0 DEF HoldOK, AllHeld
<1>2. ASSUME NEW i \in Holders, i # h PROVE HoldOK(gs, us, H2, i)
  <2>1. H2[i] = H[i] /\ HoldOK(gs, us, H, i)
    BY <1>0, <1>2 DEF HoldsOK
  <2>2. H[i].kind = "shared" => By(H2, H[i].guard) = By(H, H[i].guard)
    BY <1>0, <2>1 DEF By, HoldOK
  <2>3. H[i].kind = "owned" => H[i].guard # us
    BY <2>1 DEF HoldOK
  <2>4. QED
    BY <1>0, <2>1, <2>2, <2>3 DEF HoldOK
<1>3. AllHeld(gs, us, H2)
  BY <1>0, GuardsNotZero DEF AllHeld
<1>4. QED
  BY <1>1, <1>2, <1>3 DEF HoldsOK

\* A shared guard has one holder more.
LEMMA ShareHold ==
  ASSUME NEW gs \in Guarding, NEW gs2 \in Guarding, NEW us \in GuardIds \cup {0}, NEW H \in Holding,
         HoldsOK(gs, us, H), AllHeld(gs, us, H),
         NEW c \in Holders, H[c].kind = "shared", NEW g \in GuardIds, H[c].guard = g,
         gs2[g] # None, gs2[g].rc = gs[g].rc + 1, GuardsBut(g, gs2, gs),
         NEW h \in Holders, H[h].guard = 0,
         NEW H2, HeldAt(h, [guard |-> g, kind |-> "shared"], H2, H)
  PROVE  HoldsOK(gs2, us, H2) /\ AllHeld(gs2, us, H2)
<1>0. H2[h].guard = g /\ H2[h].kind = "shared" /\ \A i \in Holders : i # h => H2[i] = H[i]
  BY DEF HeldAt
<1>1. g # 0 /\ g # us /\ h # c /\ h \notin By(H, g) /\ gs[g] # None
  BY GuardsNotZero DEF HoldsOK, HoldOK, By
<1>2. By(H2, g) = By(H, g) \cup {h}
  BY <1>0 DEF By
<1>3. gs2[g].rc = Cardinality(By(H2, g))
  <2>1. gs[g].rc = Cardinality(By(H, g))
    BY DEF HoldsOK, HoldOK
  <2>2. Cardinality(By(H, g) \cup {h}) = Cardinality(By(H, g)) + 1
    BY <1>1, ByFinite, FS_AddElement
  <2>3. QED
    BY <1>2, <2>1, <2>2
<1>4. HoldOK(gs2, us, H2, h)
  BY <1>0, <1>1, <1>3 DEF HoldOK
<1>5. ASSUME NEW i \in Holders, i # h PROVE HoldOK(gs2, us, H2, i)
  <2>1. H2[i] = H[i] /\ H[i].guard \in GuardIds \cup {0} /\ HoldOK(gs, us, H, i)
    BY <1>0, <1>5 DEF HoldsOK, Holding
  <2>2. H[i].guard # g /\ H[i].guard # 0 =>
          gs2[H[i].guard] = gs[H[i].guard] /\ By(H2, H[i].guard) = By(H, H[i].guard)
    BY <1>0, <1>1, <2>1 DEF By, GuardsBut
  <2>3. H[i].kind = "shared" => H[i].guard # 0 /\ gs2[H[i].guard].rc = Cardinality(By(H2, H[i].guard))
    BY <1>3, <2>1, <2>2 DEF HoldOK
  <2>4. H[i].kind = "owned" => H[i].guard # g /\ \A j \in Holders : H2[j].guard = H[i].guard => j = i
    <3>1. H[i].kind = "owned" => c # i /\ H[i].guard # g
      BY <2>1 DEF HoldOK
    <3>2. QED
      BY <1>0, <2>1, <3>1 DEF HoldOK
  <2>5. QED
    BY <1>1, <2>1, <2>2, <2>3, <2>4 DEF HoldOK
<1>6. AllHeld(gs2, us, H2)
  BY <1>0, <1>1, GuardsNotZero DEF AllHeld, GuardsBut
<1>7. QED
  BY <1>4, <1>5, <1>6 DEF HoldsOK

\* A handle takes over the guard of the call.
LEMMA MoveHold ==
  ASSUME NEW gs \in Guarding, NEW gs2 \in Guarding, NEW us \in GuardIds \cup {0}, NEW H \in Holding,
         HoldsOK(gs, us, H), AllHeld(gs, us, H),
         NEW c \in Holders, H[c].guard # 0, NEW h \in Holders, H[h].guard = 0,
         NEW H1, HeldAt(h, H[c], H1, H), NEW H2, HeldAt(c, NoHold, H2, H1)
  PROVE  HoldsOK(gs, us, H2) /\ AllHeld(gs, us, H2)
<1>0. /\ H2[h] = H[c] /\ H2[c].guard = 0 /\ H2[c].kind = "none" /\ h # c
      /\ \A i \in Holders : i # h /\ i # c => H2[i] = H[i]
  BY DEF HeldAt, NoHold
<1>1. ASSUME NEW g \in GuardIds PROVE Cardinality(By(H2, g)) = Cardinality(By(H, g))
  <2>1. CASE H[c].guard = g
    <3>1. /\ By(H2, g) = (By(H, g) \ {c}) \cup {h} /\ c \in By(H, g)
          /\ h \notin By(H, g) \ {c}
      BY <1>0, <2>1, GuardsNotZero DEF By
    <3> DEFINE P == By(H, g)
    <3>2. IsFiniteSet(P)
      BY ByFinite
    <3>3. c \in P /\ h \notin P \ {c}
      BY <3>1
    <3> HIDE DEF P
    <3>4. IsFiniteSet(P \ {c}) /\ Cardinality(P \ {c}) = Cardinality(P) - 1 /\ Cardinality(P) \in Nat
      BY <3>2, <3>3, FS_RemoveElement, FS_CardinalityType
    <3>5. Cardinality((P \ {c}) \cup {h}) = Cardinality(P \ {c}) + 1
      BY <3>3, <3>4, FS_AddElement
    <3>6. QED
      BY <3>1, <3>4, <3>5 DEF P
  <2>2. CASE H[c].guard # g
    <3>1. By(H2, g) = By(H, g)
      BY <1>0, <2>2, GuardsNotZero DEF By
    <3>2. QED
      BY <3>1
  <2>3. QED
    BY <2>1, <2>2
<1>2. ASSUME NEW i \in Holders PROVE HoldOK(gs, us, H2, i)
  <2>1. CASE i = h
    <3>1. HoldOK(gs, us, H, c) /\ H[c].guard \in GuardIds
      BY DEF HoldsOK, Holding
    <3>2. QED
      BY <1>0, <1>1, <2>1, <3>1 DEF HoldOK
  <2>2. CASE i = c
    BY <1>0, <2>2 DEF HoldOK
  <2>3. CASE i # h /\ i # c
    <3>1. HoldOK(gs, us, H, i) /\ H[i].guard \in GuardIds \cup {0} /\ HoldOK(gs, us, H, c) /\ H2[i] = H[i]
      BY <1>0, <2>3 DEF HoldsOK, Holding
    <3>2. H[i].kind = "owned" => H[i].guard # H[c].guard /\ H[i].guard # 0
      BY <2>3, <3>1 DEF HoldOK
    <3>3. H[i].kind = "owned" => \A j \in Holders : H2[j].guard = H[i].guard => j = i
      BY <1>0, <2>3, <3>1, <3>2 DEF HoldOK
    <3>4. H[i].kind = "shared" => gs[H[i].guard].rc = Cardinality(By(H2, H[i].guard))
      BY <1>1, <3>1 DEF HoldOK
    <3>5. QED
      BY <3>1, <3>3, <3>4 DEF HoldOK
  <2>4. QED
    BY <2>1, <2>2, <2>3
<1>3. AllHeld(gs, us, H2)
  BY <1>0, GuardsNotZero DEF AllHeld
<1>4. QED
  BY <1>2, <1>3 DEF HoldsOK

\* The only holder of a guard gives it up.
LEMMA LastDropped ==
  ASSUME NEW gs \in Guarding, NEW gs2 \in Guarding, NEW us \in GuardIds \cup {0}, NEW H \in Holding,
         HoldsOK(gs, us, H), AllHeld(gs, us, H),
         NEW g \in GuardIds, NEW h \in Holders, H[h].guard = g,
         H[h].kind = "owned" \/ (H[h].kind = "shared" /\ gs[g].rc = 1),
         gs2[g] = None, GuardsBut(g, gs2, gs), NEW H2, HeldAt(h, NoHold, H2, H)
  PROVE  HoldsOK(gs2, us, H2) /\ AllHeld(gs2, us, H2)
<1>0. H2[h].guard = 0 /\ H2[h].kind = "none" /\ \A i \in Holders : i # h => H2[i] = H[i]
  BY DEF HeldAt, NoHold
<1>1. \A i \in Holders : H[i].guard = g => i = h
  <2>1. CASE H[h].kind = "owned"
    BY <2>1 DEF HoldsOK, HoldOK
  <2>2. CASE H[h].kind = "shared" /\ gs[g].rc = 1
    <3>1. Cardinality(By(H, g)) = 1
      BY <2>2 DEF HoldsOK, HoldOK
    <3>2. PICK i : By(H, g) = {i}
      BY <3>1, ByFinite, FS_Singleton
    <3>3. QED
      BY <3>2 DEF By
  <2>3. QED
    BY <2>1, <2>2
<1>2. g # us /\ g # 0
  BY GuardsNotZero DEF HoldsOK, HoldOK
<1>3. HoldOK(gs2, us, H2, h)
  BY <1>0 DEF HoldOK
<1>4. ASSUME NEW i \in Holders, i # h PROVE HoldOK(gs2, us, H2, i)
  <2>1. H2[i] = H[i] /\ H[i].guard \in GuardIds \cup {0} /\ HoldOK(gs, us, H, i) /\ H[i].guard # g
    BY <1>0, <1>1, <1>4 DEF HoldsOK, Holding
  <2>2. H[i].guard # 0 => gs2[H[i].guard] = gs[H[i].guard] /\ By(H2, H[i].guard) = By(H, H[i].guard)
    BY <1>0, <2>1 DEF By, GuardsBut
  <2>3. H[i].kind = "shared" => H[i].guard # 0
    BY <2>1 DEF HoldOK
  <2>4. H[i].kind = "owned" => \A j \in Holders : H2[j].guard = H[i].guard => j = i
    BY <1>0, <2>1 DEF HoldOK
  <2>5. QED
    BY <2>1, <2>2, <2>3, <2>4 DEF HoldOK
<1>5. AllHeld(gs2, us, H2)
  BY <1>0, <1>2 DEF AllHeld, GuardsBut
<1>6. QED
  BY <1>3, <1>4, <1>5 DEF HoldsOK

\* One of several holders of a shared guard gives it up.
LEMMA SharedDropped ==
  ASSUME NEW gs \in Guarding, NEW gs2 \in Guarding, NEW us \in GuardIds \cup {0}, NEW H \in Holding,
         HoldsOK(gs, us, H), AllHeld(gs, us, H),
         NEW g \in GuardIds, NEW h \in Holders, H[h].guard = g, H[h].kind = "shared",
         gs[g].rc > 1, gs2[g] # None, gs2[g].rc = gs[g].rc - 1, GuardsBut(g, gs2, gs),
         NEW H2, HeldAt(h, NoHold, H2, H)
  PROVE  HoldsOK(gs2, us, H2) /\ AllHeld(gs2, us, H2)
<1>0. H2[h].guard = 0 /\ H2[h].kind = "none" /\ \A i \in Holders : i # h => H2[i] = H[i]
  BY DEF HeldAt, NoHold
<1>1. g # us /\ g # 0 /\ h \in By(H, g) /\ gs[g].rc = Cardinality(By(H, g)) /\ gs[g] # None
  BY GuardsNotZero DEF HoldsOK, HoldOK, By
<1>2. By(H2, g) = By(H, g) \ {h}
  BY <1>0, <1>1 DEF By
<1>3. Cardinality(By(H, g) \ {h}) = Cardinality(By(H, g)) - 1
  BY <1>1, ByFinite, FS_RemoveElement
<1>4. gs2[g].rc = Cardinality(By(H2, g))
  BY <1>1, <1>2, <1>3
<1>5. HoldOK(gs2, us, H2, h)
  BY <1>0 DEF HoldOK
<1>6. ASSUME NEW i \in Holders, i # h PROVE HoldOK(gs2, us, H2, i)
  <2>1. H2[i] = H[i] /\ H[i].guard \in GuardIds \cup {0} /\ HoldOK(gs, us, H, i)
    BY <1>0, <1>6 DEF HoldsOK, Holding
  <2>2. H[i].guard # g /\ H[i].guard # 0 =>
          gs2[H[i].guard] = gs[H[i].guard] /\ By(H2, H[i].guard) = By(H, H[i].guard)
    BY <1>0, <2>1 DEF By, GuardsBut
  <2>3. H[i].kind = "shared" => H[i].guard # 0 /\ gs2[H[i].guard].rc = Cardinality(By(H2, H[i].guard))
    BY <1>4, <2>1, <2>2 DEF HoldOK
  <2>4. H[i].kind = "owned" => \A j \in Holders : H2[j].guard = H[i].guard => j = i
    BY <1>0, <2>1 DEF HoldOK
  <2>5. QED
    BY <1>1, <2>1, <2>2, <2>3, <2>4 DEF HoldOK
<1>7. AllHeld(gs2, us, H2)
  <2>1. By(H2, g) # {}
    BY <1>4, FS_EmptySet DEF Guarding, GuardRecs
  <2>2. \E i \in Holders : H2[i].guard = g
    BY <2>1 DEF By
  <2>3. QED
    BY <1>0, <1>1, <2>2 DEF AllHeld, GuardsBut
<1>8. QED
  BY <1>5, <1>6, <1>7 DEF HoldsOK

\* A borrow ends, or there was nothing to give up.
LEMMA BorrowDropped ==
  ASSUME NEW gs \in Guarding, NEW gs2 \in Guarding, NEW us \in GuardIds \cup {0}, NEW H \in Holding,
         HoldsOK(gs, us, H), AllHeld(gs, us, H),
         NEW h \in Holders, H[h].kind \in {"borrowed", "none"}, NEW H2, HeldAt(h, NoHold, H2, H)
  PROVE  HoldsOK(gs, us, H2) /\ AllHeld(gs, us, H2)
<1>0. H2[h].guard = 0 /\ H2[h].kind = "none" /\ \A i \in Holders : i # h => H2[i] = H[i]
  BY DEF HeldAt, NoHold
<1>1. H[h].guard = 0 \/ H[h].guard = us
  BY DEF HoldsOK, HoldOK
<1>2. HoldOK(gs, us, H2, h)
  BY <1>0 DEF HoldOK
<1>3. ASSUME NEW i \in Holders, i # h PROVE HoldOK(gs, us, H2, i)
  <2>1. H2[i] = H[i] /\ HoldOK(gs, us, H, i)
    BY <1>0, <1>3 DEF HoldsOK
  <2>2. H[i].kind = "shared" => H[i].guard # us /\ H[i].guard # 0
    BY <2>1 DEF HoldOK
  <2>3. H[i].kind = "shared" => By(H2, H[i].guard) = By(H, H[i].guard)
    BY <1>0, <1>1, <2>2 DEF By
  <2>4. H[i].kind = "owned" => \A j \in Holders : H2[j].guard = H[i].guard => j = i
    BY <1>0, <2>1 DEF HoldOK
  <2>5. QED
    BY <2>1, <2>3, <2>4 DEF HoldOK
<1>4. AllHeld(gs, us, H2)
  BY <1>0, <1>1, GuardsNotZero DEF AllHeld
<1>5. QED
  BY <1>2, <1>3, <1>4 DEF HoldsOK

\* The caller's Guard is dropped, when nothing borrows it.
LEMMA UserDropped ==
  ASSUME NEW gs \in Guarding, NEW gs2 \in Guarding, NEW us \in GuardIds \cup {0}, NEW H \in Holding,
         HoldsOK(gs, us, H), AllHeld(gs, us, H),
         us # 0, \A i \in Holders : H[i].guard # us, gs2[us] = None, GuardsBut(us, gs2, gs)
  PROVE  HoldsOK(gs2, 0, H) /\ AllHeld(gs2, 0, H)
<1>1. ASSUME NEW i \in Holders PROVE HoldOK(gs2, 0, H, i)
  <2>1. H[i].guard \in GuardIds \cup {0} /\ HoldOK(gs, us, H, i) /\ H[i].guard # us
    BY DEF HoldsOK, Holding
  <2>2. H[i].guard # 0 => gs2[H[i].guard] = gs[H[i].guard]
    BY <2>1 DEF GuardsBut
  <2>3. H[i].kind = "shared" => H[i].guard # 0
    BY <2>1 DEF HoldOK
  <2>4. QED
    BY <2>1, <2>2, <2>3 DEF HoldOK
<1>2. AllHeld(gs2, 0, H)
  BY DEF AllHeld, GuardsBut
<1>3. QED
  BY <1>1, <1>2 DEF HoldsOK

-----------------------------------------------------------------------------
(* The steps of guard.rs *)

\* What every step of thread t but a repin does to the pins: the other threads'
\* are left alone, a guard stays on its Local, and a Local moves to the epoch of
\* now only when it was not pinned.
PinEffect(t) ==
  /\ \A u \in Threads : u # t => guards'[u] = guards[u]
  /\ \A l \in Locals : l[1] # t => local'[l] = local[l]
  /\ \A g \in GuardIds : guards[t][g] # None /\ guards'[t][g] # None =>
       guards'[t][g].local = guards[t][g].local
  /\ \A l \in Locals : local[l].pins > 0 => local'[l].epoch = local[l].epoch
  /\ \A l \in Locals : local[l].pins = 0 /\ local'[l].pins > 0 => local'[l].epoch = epoch

LEMMA MinIsLeast ==
  ASSUME NEW S \in SUBSET Nat, S # {}
  PROVE  Min(S) \in S /\ \A y \in S : Min(S) <= y
BY LeastNatural DEF Min

LEMMA FreeGuardIsFree ==
  ASSUME NEW t \in Threads, HasGuard(t)
  PROVE  FreeGuard(t) \in GuardIds /\ guards[t][FreeGuard(t)] = None
<1> DEFINE S == {g \in GuardIds : guards[t][g] = None}
<1>1. S \in SUBSET Nat /\ S # {}
  BY HandlesAssumption DEF HasGuard, GuardIds
<1>2. Min(S) \in S
  BY <1>1, MinIsLeast
<1>3. QED
  BY <1>2 DEF FreeGuard

\* A thread without its participant that can still pin has a Local to pin on.
LEMMA FreshLocalIsFresh ==
  ASSUME NEW t \in Threads, PinsTypeOK, TagsOK(t, guards[t]), PinsCounted(t, guards[t], local),
         HasGuard(t)
  PROVE  \E n \in FreshIds : FreshLocal(t) = <<t, n>>
<1> DEFINE S == {n \in FreshIds : local[<<t, n>>].pins = 0}
<1>1. S # {}
  <2> SUFFICES ASSUME S = {} PROVE FALSE
    OBVIOUS
  <2>1. PICK f \in GuardIds : guards[t][f] = None
    BY DEF HasGuard
  <2>2. ASSUME NEW n \in FreshIds
        PROVE  \E g \in GuardIds \ {f} : guards[t][g] # None /\ guards[t][g].local = <<t, n>>
    <3>1. n \in LocalIds /\ local[<<t, n>>].pins # 0
      BY HandlesAssumption DEF FreshIds, LocalIds
    <3>2. On(guards[t], <<t, n>>) # {}
      BY <3>1, FS_EmptySet DEF PinsCounted
    <3>3. QED
      BY <2>1, <3>2 DEF On
  <2> DEFINE c == [n \in FreshIds |-> CHOOSE g \in GuardIds \ {f} :
                     guards[t][g] # None /\ guards[t][g].local = <<t, n>>]
  <2>3. \A n \in FreshIds : c[n] \in GuardIds \ {f} /\ guards[t][c[n]].local = <<t, n>>
    BY <2>2
  <2>4. c \in [FreshIds -> GuardIds \ {f}]
    BY <2>3
  <2>5. /\ IsFiniteSet(FreshIds) /\ Cardinality(FreshIds) = MaxGuards
        /\ IsFiniteSet(GuardIds) /\ Cardinality(GuardIds) = MaxGuards
    BY HandlesAssumption, FS_Interval DEF GuardIds, FreshIds
  <2>6. IsFiniteSet(GuardIds \ {f}) /\ Cardinality(GuardIds \ {f}) = MaxGuards - 1
    BY <2>1, <2>5, FS_RemoveElement
  <2> HIDE DEF c
  <2>7. Cardinality(GuardIds \ {f}) < Cardinality(FreshIds)
    BY <2>5, <2>6, HandlesAssumption
  <2> DEFINE D == FreshIds
             E == GuardIds \ {f}
  <2>a. c \in [D -> E] /\ IsFiniteSet(D) /\ IsFiniteSet(E) /\ Cardinality(E) < Cardinality(D)
    BY <2>4, <2>5, <2>6, <2>7
  <2> HIDE DEF D, E
  <2>b. \E i, j \in D : i # j /\ c[i] = c[j]
    BY <2>a, FS_PigeonHole
  <2>8. PICK i, j \in FreshIds : i # j /\ c[i] = c[j]
    BY <2>b DEF D
  <2>9. <<t, i>> = <<t, j>>
    BY <2>3, <2>8
  <2>10. QED
    BY <2>8, <2>9
<1>2. S \in SUBSET Nat
  BY HandlesAssumption DEF FreshIds
<1>3. Min(S) \in S
  BY <1>1, <1>2, MinIsLeast
<1>4. QED
  BY <1>3 DEF FreshLocal

\* A pin on a Local of the thread's own.
LEMMA PinStep ==
  ASSUME NEW t \in Threads, PinsTypeOK, TagsOK(t, guards[t]), PinsCounted(t, guards[t], local),
         NEW g \in GuardIds, guards[t][g] = None, NEW n \in LocalIds, NEW tag \in 0 .. MaxParts,
         TagFits(n, tag),
         local' = PinnedOn(<<t, n>>),
         guards' = [guards EXCEPT ![t][g] = [local |-> <<t, n>>, tag |-> tag, rc |-> 1]]
  PROVE  /\ local' \in Counting /\ guards' \in [Threads -> Guarding] /\ PinEffect(t)
         /\ TagsOK(t, guards'[t]) /\ PinsCounted(t, guards'[t], local')
         /\ guards'[t][g] # None /\ guards'[t][g].rc = 1 /\ GuardsBut(g, guards'[t], guards[t])
<1> DEFINE l == <<t, n>>
<1>0. l \in Locals /\ local \in Counting /\ guards[t] \in Guarding /\ epoch \in Nat
  BY DEF Locals, PinsTypeOK
<1>1. /\ local' \in Counting /\ local'[l].pins = local[l].pins + 1
      /\ \A k \in Locals : k # l => local'[k] = local[k]
      /\ local'[l].epoch = IF local[l].pins = 0 THEN epoch ELSE local[l].epoch
  BY <1>0 DEF PinnedOn, Counting, LocalRecs
<1>2. /\ guards'[t] = [guards[t] EXCEPT ![g] = [local |-> <<t, n>>, tag |-> tag, rc |-> 1]]
      /\ \A u \in Threads : u # t => guards'[u] = guards[u]
  BY DEF PinsTypeOK, Guarding
<1>3. /\ guards'[t] \in Guarding /\ TagsOK(t, guards'[t]) /\ PinsCounted(t, guards'[t], local')
      /\ guards'[t][g] # None /\ guards'[t][g].rc = 1
      /\ \A i \in GuardIds : i # g => guards'[t][i] = guards[t][i]
  <2> DEFINE gs == guards[t]
             gs2 == guards'[t]
             lc == local
             lc2 == local'
  <2>1. /\ gs \in Guarding /\ lc \in Counting /\ lc2 \in Counting
        /\ TagsOK(t, gs) /\ PinsCounted(t, gs, lc) /\ gs[g] = None
        /\ PinAdded(lc2, lc, <<t, n>>) /\ GuardAdded(gs2, gs, g, <<t, n>>, tag)
    BY <1>0, <1>1, <1>2 DEF PinAdded, GuardAdded
  <2> HIDE DEF gs, gs2, lc, lc2
  <2>2. /\ gs2 \in Guarding /\ TagsOK(t, gs2) /\ PinsCounted(t, gs2, lc2)
        /\ gs2[g] # None /\ gs2[g].rc = 1 /\ \A i \in GuardIds : i # g => gs2[i] = gs[i]
    BY <2>1, PinCounted
  <2>3. QED
    BY <2>2 DEF gs, gs2, lc, lc2
<1>4. guards' \in [Threads -> Guarding]
  <2>1. DOMAIN guards' = Threads /\ guards' = [u \in Threads |-> guards'[u]]
    BY DEF PinsTypeOK
  <2>2. QED
    BY <1>2, <1>3, <2>1 DEF PinsTypeOK
<1>5. \A k \in Locals : k[1] # t => k # l
  OBVIOUS
<1> HIDE DEF l
<1>6. PinEffect(t)
  BY <1>0, <1>1, <1>2, <1>3, <1>5 DEF PinEffect
<1>7. QED
  BY <1>1, <1>3, <1>4, <1>6 DEF GuardsBut

\* pin_tagged.
LEMMA PinTaggedStep ==
  ASSUME NEW t \in Threads, PinsTypeOK, TagsOK(t, guards[t]), PinsCounted(t, guards[t], local),
         PinTagged(t), NEW g, g = FreeGuard(t)
  PROVE  /\ local' \in Counting /\ guards' \in [Threads -> Guarding] /\ PinEffect(t)
         /\ TagsOK(t, guards'[t]) /\ PinsCounted(t, guards'[t], local')
         /\ g \in GuardIds /\ guards[t][g] = None
         /\ guards'[t][g] # None /\ guards'[t][g].rc = 1 /\ GuardsBut(g, guards'[t], guards[t])
<1>1. HasGuard(t) /\ g \in GuardIds /\ guards[t][g] = None
  BY FreeGuardIsFree DEF PinTagged
<1>2. \E n \in LocalIds : LocalOf(t) = <<t, n>> /\ TagOf(t) \in 0 .. MaxParts /\ TagFits(n, TagOf(t))
  <2>0. tls[t].id \in 1 .. MaxParts
    BY DEF PinsTypeOK, Participants
  <2>1. CASE tls[t].live
    <3>1. tls[t].id \in LocalIds /\ tls[t].id \notin FreshIds /\ tls[t].id \in 0 .. MaxParts
      BY <2>0, HandlesAssumption DEF LocalIds, FreshIds
    <3>2. QED
      BY <2>1, <3>1 DEF LocalOf, TagOf, TagFits
  <2>2. CASE ~tls[t].live
    <3>1. PICK n \in FreshIds : FreshLocal(t) = <<t, n>>
      BY <1>1, FreshLocalIsFresh
    <3>2. n \in LocalIds /\ 0 \in 0 .. MaxParts
      BY HandlesAssumption DEF FreshIds, LocalIds
    <3>3. QED
      BY <2>2, <3>1, <3>2 DEF LocalOf, TagOf, TagFits
  <2>3. QED
    BY <2>1, <2>2
<1>3. PICK n \in LocalIds : LocalOf(t) = <<t, n>> /\ TagOf(t) \in 0 .. MaxParts /\ TagFits(n, TagOf(t))
  BY <1>2
<1>4. /\ local' = PinnedOn(<<t, n>>)
      /\ guards' = [guards EXCEPT ![t][g] = [local |-> <<t, n>>, tag |-> TagOf(t), rc |-> 1]]
  BY <1>3 DEF PinTagged
<1>5. QED
  BY <1>1, <1>3, <1>4, PinStep

\* nested_pin, where it is proven to land on the guard's own Local.
LEMMA NestedPinStep ==
  ASSUME NEW t \in Threads, PinsTypeOK, TagsOK(t, guards[t]), PinsCounted(t, guards[t], local),
         NEW c \in GuardIds, guards[t][c] # None,
         Proven(t, guards[t][c]), NestedPin(t, guards[t][c]), NEW g, g = FreeGuard(t)
  PROVE  /\ local' \in Counting /\ guards' \in [Threads -> Guarding] /\ PinEffect(t)
         /\ TagsOK(t, guards'[t]) /\ PinsCounted(t, guards'[t], local')
         /\ g \in GuardIds /\ guards[t][g] = None
         /\ guards'[t][g] # None /\ guards'[t][g].rc = 1 /\ GuardsBut(g, guards'[t], guards[t])
         /\ guards'[t][g].local = guards[t][c].local
<1>1. g \in GuardIds /\ guards[t][g] = None
  BY FreeGuardIsFree DEF NestedPin
<1>2. guards[t][c] \in GuardRecs
  BY DEF PinsTypeOK, Guarding
<1>3. PICK n \in LocalIds : guards[t][c].local = <<t, n>> /\ TagFits(n, guards[t][c].tag)
  BY DEF TagsOK
<1>4. guards[t][c].tag = n /\ guards[t][c].tag \in 0 .. MaxParts /\ LocalOf(t) = <<t, n>>
  BY <1>2, <1>3 DEF Proven, LocalOf, TagFits, GuardRecs
<1>5. /\ local' = PinnedOn(<<t, n>>)
      /\ guards' = [guards EXCEPT ![t][g] = [local |-> <<t, n>>, tag |-> n, rc |-> 1]]
  BY <1>4 DEF NestedPin
<1>6. guards'[t][g].local = <<t, n>>
  BY <1>1, <1>5 DEF PinsTypeOK, Guarding
<1>7. n \in 0 .. MaxParts /\ TagFits(n, n)
  BY <1>3, <1>4
<1>8. QED
  BY <1>1, <1>3, <1>5, <1>6, <1>7, PinStep

LEMMA UnpinStep ==
  ASSUME NEW t \in Threads, PinsTypeOK, TagsOK(t, guards[t]), PinsCounted(t, guards[t], local),
         NEW g \in GuardIds, guards[t][g] # None, Unpin(t, g)
  PROVE  /\ local' \in Counting /\ guards' \in [Threads -> Guarding] /\ PinEffect(t)
         /\ TagsOK(t, guards'[t]) /\ PinsCounted(t, guards'[t], local')
         /\ guards'[t][g] = None /\ GuardsBut(g, guards'[t], guards[t])
<1>0. guards[t] \in Guarding /\ local \in Counting
  BY DEF PinsTypeOK
<1>1. /\ GuardGone(guards'[t], guards[t], g)
      /\ guards' \in [Threads -> Guarding]
      /\ \A u \in Threads : u # t => guards'[u] = guards[u]
  BY DEF PinsTypeOK, Guarding, Unpin, GuardGone
<1>2. PinGone(local', local, guards[t][g].local)
  BY DEF Unpin, UnpinnedFrom, PinGone
<1>3. /\ TagsOK(t, guards'[t]) /\ PinsCounted(t, guards'[t], local')
      /\ local' \in Counting
      /\ guards'[t][g] = None /\ \A i \in GuardIds : i # g => guards'[t][i] = guards[t][i]
      /\ OwnPins(t, local', local)
  BY <1>0, <1>1, <1>2, UnpinCounted
<1>4. \A l \in Locals : local[l].pins = 0 => local'[l].pins = 0
  <2> SUFFICES ASSUME NEW l \in Locals, local[l].pins = 0 PROVE local'[l].pins = 0
    OBVIOUS
  <2>1. CASE l = guards[t][g].local
    <3>1. PICK n \in LocalIds : guards[t][g].local = <<t, n>>
      BY DEF TagsOK
    <3>2. g \in On(guards[t], <<t, n>>) /\ Cardinality(On(guards[t], <<t, n>>)) = 0
      BY <2>1, <3>1 DEF On, PinsCounted
    <3>3. QED
      BY <3>2, OnFinite, FS_EmptySet
  <2>2. CASE l # guards[t][g].local
    BY <1>0, <1>2, <2>2 DEF Counting, PinGone
  <2>3. QED
    BY <2>1, <2>2
<1>5. PinEffect(t)
  BY <1>1, <1>3, <1>4 DEF PinEffect, OwnPins
<1>6. QED
  BY <1>1, <1>3, <1>5 DEF GuardsBut

RcSetAt(t, g, v) == guards' = [guards EXCEPT ![t][g].rc = v] /\ UNCHANGED local
LEMMA RcStep ==
  ASSUME NEW t \in Threads, PinsTypeOK, TagsOK(t, guards[t]), PinsCounted(t, guards[t], local),
         NEW g \in GuardIds, guards[t][g] # None, NEW v \in Nat \ {0},
         RcSetAt(t, g, v)
  PROVE  /\ local' \in Counting /\ guards' \in [Threads -> Guarding] /\ PinEffect(t)
         /\ TagsOK(t, guards'[t]) /\ PinsCounted(t, guards'[t], local')
         /\ guards'[t][g] # None /\ guards'[t][g].rc = v /\ GuardsBut(g, guards'[t], guards[t])
         /\ guards'[t][g].local = guards[t][g].local
<1>0. guards[t] \in Guarding /\ local \in Counting
  BY DEF PinsTypeOK
<1>1. /\ RcSet(guards'[t], guards[t], g, v) /\ UNCHANGED local
      /\ \A u \in Threads : u # t => guards'[u] = guards[u]
      /\ DOMAIN guards' = Threads /\ guards' = [u \in Threads |-> guards'[u]]
  BY DEF PinsTypeOK, Guarding, RcSet, RcSetAt
<1>2. /\ guards'[t] \in Guarding /\ TagsOK(t, guards'[t]) /\ PinsCounted(t, guards'[t], local)
      /\ guards'[t][g] # None /\ guards'[t][g].rc = v
      /\ \A i \in GuardIds : i # g => guards'[t][i] = guards[t][i]
      /\ guards'[t][g].local = guards[t][g].local
  BY <1>0, <1>1, RcCounted
<1>3. guards' \in [Threads -> Guarding]
  BY <1>1, <1>2 DEF PinsTypeOK
<1>4. PinEffect(t)
  BY <1>0, <1>1, <1>2 DEF PinEffect, Counting, LocalRecs
<1>5. QED
  BY <1>0, <1>1, <1>2, <1>3, <1>4 DEF GuardsBut

\* A step that leaves the pins alone.
LEMMA SamePins ==
  ASSUME NEW t \in Threads, PinsTypeOK, UNCHANGED pins
  PROVE  local' \in Counting /\ guards' \in [Threads -> Guarding] /\ PinEffect(t)
BY DEF PinsTypeOK, PinEffect, pins, Counting, LocalRecs

\* The guards of thread t after a step, when us is its Guard and H2 its holders.
PinsStep(t, us, H2) ==
  /\ local' \in Counting /\ guards' \in [Threads -> Guarding] /\ PinEffect(t)
  /\ PinsOK(t, guards'[t], us, H2, local')

LEMMA PinHoldStep ==
  ASSUME NEW t \in Threads, PinsTypeOK, NEW H \in Holding, PinsOK(t, guards[t], user[t], H, local),
         PinTagged(t), NEW h \in Holders, H[h].guard = 0, NEW kind \in {"owned", "shared"},
         NEW H2, HeldAt(h, [guard |-> FreeGuard(t), kind |-> kind], H2, H)
  PROVE  PinsStep(t, user[t], H2) /\ FreeGuard(t) \in GuardIds
<1> DEFINE g == FreeGuard(t)
<1>1. /\ local' \in Counting /\ guards' \in [Threads -> Guarding] /\ PinEffect(t)
      /\ TagsOK(t, guards'[t]) /\ PinsCounted(t, guards'[t], local')
      /\ g \in GuardIds /\ guards[t][g] = None
      /\ guards'[t][g] # None /\ guards'[t][g].rc = 1 /\ GuardsBut(g, guards'[t], guards[t])
  BY PinTaggedStep DEF PinsOK
<1>2. HoldsOK(guards'[t], user[t], H2) /\ AllHeld(guards'[t], user[t], H2)
  <2>1. guards[t] \in Guarding /\ guards'[t] \in Guarding /\ user[t] \in GuardIds \cup {0}
    BY <1>1 DEF PinsTypeOK
  <2>2. HoldsOK(guards[t], user[t], H) /\ AllHeld(guards[t], user[t], H)
    BY DEF PinsOK
  <2> HIDE DEF g
  <2>3. HeldAt(h, [guard |-> g, kind |-> kind], H2, H)
    BY DEF g
  <2>4. QED
    BY <1>1, <2>1, <2>2, <2>3, NewHold
<1>3. QED
  BY <1>1, <1>2 DEF PinsStep, PinsOK

LEMMA PinUserStep ==
  ASSUME NEW t \in Threads, PinsTypeOK, NEW H \in Holding, PinsOK(t, guards[t], user[t], H, local),
         PinTagged(t), user[t] = 0
  PROVE  PinsStep(t, FreeGuard(t), H) /\ FreeGuard(t) \in GuardIds
<1> DEFINE g == FreeGuard(t)
<1>1. /\ local' \in Counting /\ guards' \in [Threads -> Guarding] /\ PinEffect(t)
      /\ TagsOK(t, guards'[t]) /\ PinsCounted(t, guards'[t], local')
      /\ g \in GuardIds /\ guards[t][g] = None
      /\ guards'[t][g] # None /\ guards'[t][g].rc = 1 /\ GuardsBut(g, guards'[t], guards[t])
  BY PinTaggedStep DEF PinsOK
<1>2. HoldsOK(guards'[t], g, H) /\ AllHeld(guards'[t], g, H)
  <2>1. guards[t] \in Guarding /\ guards'[t] \in Guarding /\ user[t] \in GuardIds \cup {0}
    BY <1>1 DEF PinsTypeOK
  <2>2. HoldsOK(guards[t], user[t], H) /\ AllHeld(guards[t], user[t], H)
    BY DEF PinsOK
  <2> HIDE DEF g
  <2>3. QED
    BY <1>1, <2>1, <2>2, NewUser
<1>3. QED
  BY <1>1, <1>2 DEF PinsStep, PinsOK

LEMMA BorrowStep ==
  ASSUME NEW t \in Threads, PinsTypeOK, NEW H \in Holding, PinsOK(t, guards[t], user[t], H, local),
         UNCHANGED pins, user[t] # 0, NEW h \in Holders, H[h].guard = 0,
         NEW H2, HeldAt(h, [guard |-> user[t], kind |-> "borrowed"], H2, H)
  PROVE  PinsStep(t, user[t], H2)
<1>1. guards[t] \in Guarding /\ user[t] \in GuardIds \cup {0}
  BY DEF PinsTypeOK
<1>2. HoldsOK(guards[t], user[t], H) /\ AllHeld(guards[t], user[t], H)
  BY DEF PinsOK
<1>3. HoldsOK(guards[t], user[t], H2) /\ AllHeld(guards[t], user[t], H2)
  BY <1>1, <1>2, BorrowHold
<1>4. QED
  BY <1>3, SamePins DEF PinsStep, PinsOK, pins

LEMMA MoveStep ==
  ASSUME NEW t \in Threads, PinsTypeOK, NEW H \in Holding, PinsOK(t, guards[t], user[t], H, local),
         UNCHANGED pins, NEW c \in Holders, H[c].guard # 0, NEW h \in Holders, H[h].guard = 0,
         NEW H1, HeldAt(h, H[c], H1, H), NEW H2, HeldAt(c, NoHold, H2, H1)
  PROVE  PinsStep(t, user[t], H2)
<1>1. guards[t] \in Guarding /\ user[t] \in GuardIds \cup {0}
  BY DEF PinsTypeOK
<1>2. HoldsOK(guards[t], user[t], H) /\ AllHeld(guards[t], user[t], H)
  BY DEF PinsOK
<1>3. HoldsOK(guards[t], user[t], H2) /\ AllHeld(guards[t], user[t], H2)
  BY <1>1, <1>2, MoveHold
<1>4. QED
  BY <1>3, SamePins DEF PinsStep, PinsOK, pins

\* A GuardHandle is dropped.
LEMMA DropStep ==
  ASSUME NEW t \in Threads, PinsTypeOK, NEW H \in Holding, PinsOK(t, guards[t], user[t], H, local),
         NEW h \in Holders, DropGuardHandle(t, H[h].guard, H[h].kind),
         NEW H2, HeldAt(h, NoHold, H2, H)
  PROVE  PinsStep(t, user[t], H2)
<1> DEFINE g == H[h].guard
<1>0. guards[t] \in Guarding /\ user[t] \in GuardIds \cup {0} /\ local \in Counting
  BY DEF PinsTypeOK
<1>1. /\ HoldsOK(guards[t], user[t], H) /\ AllHeld(guards[t], user[t], H)
      /\ TagsOK(t, guards[t]) /\ PinsCounted(t, guards[t], local)
  BY DEF PinsOK
<1>2. /\ H[h].guard \in GuardIds \cup {0} /\ H[h].kind \in Kinds \cup {"none"}
      /\ (H[h].guard = 0 <=> H[h].kind = "none") /\ (g # 0 => guards[t][g] # None)
  BY <1>1 DEF HoldsOK, HoldOK, Holding
<1>3. CASE H[h].kind \in {"borrowed", "none"}
  <2>1. UNCHANGED pins
    BY <1>3 DEF DropGuardHandle
  <2>2. HoldsOK(guards[t], user[t], H2) /\ AllHeld(guards[t], user[t], H2)
    BY <1>0, <1>1, <1>3, BorrowDropped
  <2>3. QED
    BY <1>1, <2>1, <2>2, SamePins DEF PinsStep, PinsOK, pins
<1>4. CASE H[h].kind = "owned" \/ (H[h].kind = "shared" /\ guards[t][g].rc = 1)
  <2>1. Unpin(t, g) /\ g \in GuardIds /\ guards[t][g] # None
    BY <1>2, <1>4 DEF DropGuardHandle
  <2>2. /\ local' \in Counting /\ guards' \in [Threads -> Guarding] /\ PinEffect(t)
        /\ TagsOK(t, guards'[t]) /\ PinsCounted(t, guards'[t], local')
        /\ guards'[t][g] = None /\ GuardsBut(g, guards'[t], guards[t])
    BY <1>1, <2>1, UnpinStep
  <2>3. HoldsOK(guards'[t], user[t], H2) /\ AllHeld(guards'[t], user[t], H2)
    <3>1. guards'[t] \in Guarding
      BY <2>2
    <3>2. QED
      BY <1>0, <1>1, <1>4, <2>1, <2>2, <3>1, LastDropped
  <2>4. QED
    BY <2>2, <2>3 DEF PinsStep, PinsOK
<1>5. CASE H[h].kind = "shared" /\ guards[t][g].rc # 1
  <2>1. g \in GuardIds /\ guards[t][g] # None
    BY <1>2, <1>5
  <2>2. guards[t][g].rc \in Nat \ {0} /\ guards[t][g].rc > 1 /\ guards[t][g].rc - 1 \in Nat \ {0}
    BY <1>0, <1>5, <2>1 DEF Guarding, GuardRecs
  <2>3. RcSetAt(t, g, guards[t][g].rc - 1)
    BY <1>5, <2>2 DEF DropGuardHandle, RcSetAt
  <2>4. /\ local' \in Counting /\ guards' \in [Threads -> Guarding] /\ PinEffect(t)
        /\ TagsOK(t, guards'[t]) /\ PinsCounted(t, guards'[t], local')
        /\ guards'[t][g] # None /\ guards'[t][g].rc = guards[t][g].rc - 1
        /\ GuardsBut(g, guards'[t], guards[t])
    BY <1>1, <2>1, <2>2, <2>3, RcStep
  <2>5. HoldsOK(guards'[t], user[t], H2) /\ AllHeld(guards'[t], user[t], H2)
    <3>1. guards'[t] \in Guarding
      BY <2>4
    <3>2. QED
      BY <1>0, <1>1, <1>5, <2>1, <2>2, <2>4, <3>1, SharedDropped
  <2>6. QED
    BY <2>4, <2>5 DEF PinsStep, PinsOK
<1>6. QED
  BY <1>2, <1>3, <1>4, <1>5 DEF Kinds

\* GuardHandle::duplicate: the copy is on the Local of the original.
LEMMA DuplicateStep ==
  ASSUME NEW t \in Threads, PinsTypeOK, NEW H \in Holding, PinsOK(t, guards[t], user[t], H, local),
         NEW c \in Holders, H[c].guard # 0, NEW h \in Holders, H[h].guard = 0,
         Duplicate(t, H[c].guard, H[c].kind), NEW d, d = DuplicateOf(t, H[c].guard, H[c].kind),
         NEW H2, HeldAt(h, [guard |-> d, kind |-> H[c].kind], H2, H)
  PROVE  /\ PinsStep(t, user[t], H2) /\ d \in GuardIds
         /\ guards'[t][d].local = guards[t][H[c].guard].local
<1> DEFINE g == H[c].guard
<1>0. guards[t] \in Guarding /\ user[t] \in GuardIds \cup {0} /\ local \in Counting
  BY DEF PinsTypeOK
<1>1. /\ HoldsOK(guards[t], user[t], H) /\ AllHeld(guards[t], user[t], H)
      /\ TagsOK(t, guards[t]) /\ PinsCounted(t, guards[t], local)
  BY DEF PinsOK
<1>2. g \in GuardIds /\ H[c].kind \in Kinds /\ guards[t][g] # None
  BY <1>1 DEF HoldsOK, HoldOK, Holding
<1>3. CASE H[c].kind = "borrowed"
  <2>1. UNCHANGED pins /\ d = g /\ g = user[t] /\ user[t] # 0
    BY <1>1, <1>3 DEF Duplicate, DuplicateOf, HoldsOK, HoldOK
  <2>2. HeldAt(h, [guard |-> user[t], kind |-> "borrowed"], H2, H)
    BY <1>3, <2>1
  <2>3. PinsStep(t, user[t], H2)
    BY <2>1, <2>2, BorrowStep
  <2>4. QED
    BY <1>2, <2>1, <2>3 DEF pins
<1>4. CASE H[c].kind = "owned"
  <2>1. Proven(t, guards[t][g]) /\ NestedPin(t, guards[t][g]) /\ d = FreeGuard(t)
    BY <1>4 DEF Duplicate, DuplicateOf
  <2>2. /\ local' \in Counting /\ guards' \in [Threads -> Guarding] /\ PinEffect(t)
        /\ TagsOK(t, guards'[t]) /\ PinsCounted(t, guards'[t], local')
        /\ d \in GuardIds /\ guards[t][d] = None
        /\ guards'[t][d] # None /\ guards'[t][d].rc = 1 /\ GuardsBut(d, guards'[t], guards[t])
        /\ guards'[t][d].local = guards[t][g].local
    BY <1>1, <1>2, <2>1, NestedPinStep
  <2>3. HoldsOK(guards'[t], user[t], H2) /\ AllHeld(guards'[t], user[t], H2)
    <3>1. guards'[t] \in Guarding /\ HeldAt(h, [guard |-> d, kind |-> "owned"], H2, H)
      BY <1>4, <2>2
    <3>2. QED
      BY <1>0, <1>1, <2>2, <3>1, NewHold
  <2>4. QED
    BY <2>2, <2>3 DEF PinsStep, PinsOK
<1>5. CASE H[c].kind = "shared"
  <2>1. RcSetAt(t, g, guards[t][g].rc + 1) /\ d = g
    BY <1>5 DEF Duplicate, DuplicateOf, RcSetAt
  <2>2. guards[t][g].rc + 1 \in Nat \ {0}
    BY <1>0, <1>2 DEF Guarding, GuardRecs
  <2>3. /\ local' \in Counting /\ guards' \in [Threads -> Guarding] /\ PinEffect(t)
        /\ TagsOK(t, guards'[t]) /\ PinsCounted(t, guards'[t], local')
        /\ guards'[t][g] # None /\ guards'[t][g].rc = guards[t][g].rc + 1
        /\ GuardsBut(g, guards'[t], guards[t]) /\ guards'[t][g].local = guards[t][g].local
    BY <1>1, <1>2, <2>1, <2>2, RcStep
  <2>4. HoldsOK(guards'[t], user[t], H2) /\ AllHeld(guards'[t], user[t], H2)
    <3>1. guards'[t] \in Guarding /\ HeldAt(h, [guard |-> g, kind |-> "shared"], H2, H)
      BY <1>5, <2>1, <2>3
    <3>2. QED
      BY <1>0, <1>1, <1>2, <1>5, <2>3, <3>1, ShareHold
  <2>5. QED
    BY <1>2, <2>1, <2>3, <2>4 DEF PinsStep, PinsOK
<1>6. QED
  BY <1>2, <1>3, <1>4, <1>5 DEF Kinds

\* The caller's Guard is dropped.
LEMMA UserDropStep ==
  ASSUME NEW t \in Threads, PinsTypeOK, NEW H \in Holding, PinsOK(t, guards[t], user[t], H, local),
         user[t] # 0, \A i \in Holders : H[i].guard # user[t], Unpin(t, user[t])
  PROVE  PinsStep(t, 0, H)
<1> DEFINE g == user[t]
<1>0. guards[t] \in Guarding /\ g \in GuardIds
  BY DEF PinsTypeOK
<1>1. /\ HoldsOK(guards[t], g, H) /\ AllHeld(guards[t], g, H)
      /\ TagsOK(t, guards[t]) /\ PinsCounted(t, guards[t], local) /\ guards[t][g] # None
  BY DEF PinsOK, AllHeld
<1>2. /\ local' \in Counting /\ guards' \in [Threads -> Guarding] /\ PinEffect(t)
      /\ TagsOK(t, guards'[t]) /\ PinsCounted(t, guards'[t], local')
      /\ guards'[t][g] = None /\ GuardsBut(g, guards'[t], guards[t])
  BY <1>0, <1>1, UnpinStep
<1>3. HoldsOK(guards'[t], 0, H) /\ AllHeld(guards'[t], 0, H)
  <2>1. guards'[t] \in Guarding
    BY <1>2
  <2>2. QED
    BY <1>0, <1>1, <1>2, <2>1, UserDropped
<1>4. QED
  BY <1>2, <1>3 DEF PinsStep, PinsOK

-----------------------------------------------------------------------------
(* From the guards of one thread to those of all *)

LEMMA HoldsType ==
  ASSUME CallsTypeOK, NEW t \in Threads
  PROVE  /\ Holds(t) \in Holding
         /\ Holds(t)[-1] = [guard |-> run[t].guard, kind |-> run[t].kind]
         /\ Holds(t)[0] = IF iter[t] = None THEN NoHold
                          ELSE [guard |-> iter[t].guard, kind |-> iter[t].kind]
         /\ \A h \in HandleIds : Holds(t)[h] = IF handles[t][h] = None THEN NoHold
                          ELSE [guard |-> handles[t][h].guard, kind |-> handles[t][h].kind]
         /\ -1 \in Holders /\ 0 \in Holders /\ HandleIds \subseteq Holders
         /\ \A h \in Holders : h # -1 /\ h # 0 => h \in HandleIds
<1>1. /\ -1 \in Holders /\ 0 \in Holders /\ HandleIds \subseteq Holders
      /\ \A h \in Holders : h # -1 /\ h # 0 => h \in HandleIds
      /\ -1 # 0 /\ \A h \in HandleIds : h # -1 /\ h # 0
  BY HandlesAssumption DEF Holders, HandleIds
<1>2. /\ run[t].guard \in GuardIds \cup {0} /\ run[t].kind \in Kinds \cup {"none"}
      /\ iter[t] # None => iter[t].guard \in GuardIds /\ iter[t].kind \in Kinds
      /\ \A h \in HandleIds : handles[t][h] # None =>
           handles[t][h].guard \in GuardIds /\ handles[t][h].kind \in Kinds
  BY DEF CallsTypeOK, Runs, Iters, Refs, Kinds
<1>3. \A h \in Holders : HoldOf(t, h) \in [guard : GuardIds \cup {0}, kind : Kinds \cup {"none"}]
  BY <1>1, <1>2 DEF HoldOf, NoHold
<1>4. \A h \in Holders : Holds(t)[h] = HoldOf(t, h)
  BY DEF Holds
<1>5. Holds(t) \in Holding
  BY <1>3 DEF Holds, Holding
<1>6. QED
  BY <1>1, <1>4, <1>5 DEF HoldOf

LEMMA HeldByRun ==
  ASSUME NEW t \in Threads
  PROVE  -1 \in Holders /\ Holds(t)[-1].guard = run[t].guard /\ Holds(t)[-1].kind = run[t].kind
BY HandlesAssumption DEF Holders, Holds, HoldOf

LEMMA HeldByIter ==
  ASSUME NEW t \in Threads, iter[t] # None
  PROVE  0 \in Holders /\ Holds(t)[0].guard = iter[t].guard /\ Holds(t)[0].kind = iter[t].kind
BY HandlesAssumption DEF Holders, Holds, HoldOf

LEMMA HeldByHandle ==
  ASSUME NEW t \in Threads, NEW h \in HandleIds, handles[t][h] # None
  PROVE  h \in Holders /\ Holds(t)[h].guard = handles[t][h].guard /\ Holds(t)[h].kind = handles[t][h].kind
BY HandlesAssumption DEF Holders, HandleIds, Holds, HoldOf

LEMMA HeldPinned ==
  ASSUME NEW t \in Threads, NEW gs \in Guarding, NEW lc \in Counting,
         TagsOK(t, gs), PinsCounted(t, gs, lc), NEW g \in GuardIds, gs[g] # None
  PROVE  gs[g].local \in Locals /\ gs[g].local[1] = t /\ lc[gs[g].local].pins > 0
<1>1. PICK n \in LocalIds : gs[g].local = <<t, n>>
  BY DEF TagsOK
<1>2. <<t, n>> \in Locals /\ lc[<<t, n>>].pins \in Nat
  BY DEF Locals, Counting, LocalRecs
<1>3. g \in On(gs, <<t, n>>)
  BY <1>1 DEF On
<1>4. Cardinality(On(gs, <<t, n>>)) # 0
  BY <1>3, OnFinite, FS_EmptySet
<1>5. QED
  BY <1>1, <1>2, <1>4 DEF PinsCounted

\* A step of t leaves the calls of the others where they are; of another call a
\* clear may change the tree that it is in.
SameRun(u) ==
  /\ run'[u].pc = run[u].pc /\ run'[u].at = run[u].at /\ run'[u].call = run[u].call
  /\ run'[u].guard = run[u].guard /\ run'[u].kind = run[u].kind /\ run'[u].leaf = run[u].leaf
  /\ run'[u].own = run[u].own /\ run'[u].handle = run[u].handle
OthersKept(t) ==
  \A u \in Threads : u # t =>
    SameRun(u) /\ handles'[u] = handles[u] /\ iter'[u] = iter[u] /\ user'[u] = user[u]

LEMMA PinsLift ==
  ASSUME PinsTypeOK, CallsTypeOK, GuardsOK, EpochsOK, NEW t \in Threads, OthersKept(t),
         PinsStep(t, user'[t], Holds(t)'), CallsTypeOK',
         user' \in [Threads -> GuardIds \cup {0}], tls' \in Participants, epoch' = epoch
  PROVE  PinsTypeOK' /\ GuardsOK' /\ EpochsOK'
<1>1. PinsTypeOK'
  BY DEF PinsTypeOK, PinsStep
<1>2. ASSUME NEW u \in Threads, u # t PROVE PinsOK(u, guards[u], user[u], Holds(u), local)'
  <2>1. Holds(u)' = Holds(u)
    BY <1>2 DEF Holds, HoldOf, OthersKept, SameRun
  <2>2. guards'[u] = guards[u] /\ user'[u] = user[u]
    BY <1>2 DEF PinsStep, PinEffect, OthersKept
  <2>3. \A n \in LocalIds : <<u, n>> \in Locals /\ local'[<<u, n>>] = local[<<u, n>>]
    BY <1>2 DEF PinsStep, PinEffect, Locals
  <2>4. PinsOK(u, guards[u], user[u], Holds(u), local)
    BY DEF GuardsOK
  <2>5. PinsOK(u, guards'[u], user'[u], Holds(u)', local')
    BY <2>1, <2>2, <2>3, <2>4 DEF PinsOK, PinsCounted
  <2>6. QED
    BY <2>5 DEF PinsOK, PinsCounted, TagsOK, HoldsOK, HoldOK, AllHeld, On, By
<1>3. GuardsOK'
  <2>1. PinsOK(t, guards[t], user[t], Holds(t), local)'
    BY DEF PinsStep, PinsOK, PinsCounted, TagsOK, HoldsOK, HoldOK, AllHeld, On, By
  <2>2. QED
    BY <1>2, <2>1 DEF GuardsOK
<1>4. EpochsOK'
  <2> SUFFICES ASSUME NEW l \in Locals, local'[l].pins > 0
               PROVE  local'[l].epoch <= epoch /\ epoch <= local'[l].epoch + 1
    BY DEF EpochsOK
  <2>1. local[l].pins \in Nat /\ epoch \in Nat
    BY DEF PinsTypeOK, Counting, LocalRecs
  <2>2. CASE local[l].pins > 0
    BY <2>2 DEF PinsStep, PinEffect, EpochsOK
  <2>3. CASE local[l].pins = 0
    BY <2>1, <2>3 DEF PinsStep, PinEffect
  <2>4. QED
    BY <2>1, <2>2, <2>3
<1>5. QED
  BY <1>1, <1>3, <1>4

\* Leaves that something may refer to keep their entry, and are retired at the
\* epoch of now.
MemEffect ==
  /\ \A x \in Addresses : mem[x].state \in {"linked", "unlinked"} =>
       mem'[x].state \in {"linked", "unlinked"} /\ mem'[x].entry = mem[x].entry
  /\ \A g \in garbage' : g \in garbage \/ epoch <= g.epoch

\* What a step of t adds to the handles and leaves read ahead is safe.
NewRefsSafe(t) ==
  /\ \A h \in HandleIds : handles'[t][h] # None => handles'[t][h] = handles[t][h] \/ HandleSafe(t, h)'
  /\ iter'[t] # None => iter'[t] = iter[t] \/ \A i \in DOMAIN iter'[t].batch : AheadSafe(t, i)'

LEMMA SafeKept ==
  ASSUME PinsTypeOK, EpochsOK, LeavesTypeOK, LeavesTypeOK', MemEffect, NEW x \in Addresses, NEW e, NEW l \in Locals,
         local[l].pins > 0, local'[l].epoch = local[l].epoch,
         Safe(mem, garbage, local, x, e, l)
  PROVE  Safe(mem', garbage', local', x, e, l)
<1>1. local[l].epoch \in Nat /\ epoch \in Nat /\ local[l].epoch <= epoch
  BY DEF PinsTypeOK, Counting, LocalRecs, EpochsOK
<1>2. ASSUME NEW g \in garbage', g.leaf = x PROVE local'[l].epoch <= g.epoch
  <2>1. g.epoch \in Nat
    BY DEF LeavesTypeOK, Deferred
  <2>2. QED
    BY <1>1, <1>2, <2>1 DEF MemEffect, Safe
<1>3. QED
  BY <1>2 DEF Safe, MemEffect

LEMMA RefsLift ==
  ASSUME HandlesTypeOK, HandlesTypeOK', GuardsOK, GuardsOK', EpochsOK, RefsOK, NEW t \in Threads,
         OthersKept(t), PinEffect(t), MemEffect, NewRefsSafe(t)
  PROVE  RefsOK'
<1>0. ASSUME NEW u \in Threads, NEW g \in GuardIds, NEW x \in Addresses, NEW e,
             guards[u][g] # None, guards'[u][g] # None,
             Safe(mem, garbage, local, x, e, guards[u][g].local)
      PROVE  Safe(mem', garbage', local', x, e, guards'[u][g].local)
  <2> DEFINE l == guards[u][g].local
  <2>1. guards'[u][g].local = l
    BY <1>0 DEF PinEffect
  <2>2. guards[u] \in Guarding /\ local \in Counting /\ TagsOK(u, guards[u]) /\ PinsCounted(u, guards[u], local)
    BY DEF HandlesTypeOK, PinsTypeOK, GuardsOK, PinsOK
  <2>3. l \in Locals /\ local[l].pins > 0
    BY <1>0, <2>2, HeldPinned
  <2>4. local'[l].epoch = local[l].epoch
    BY <2>3 DEF PinEffect
  <2> HIDE DEF l
  <2>5. Safe(mem, garbage, local, x, e, l)
    BY <1>0 DEF l
  <2>6. Safe(mem', garbage', local', x, e, l)
    BY <2>3, <2>4, <2>5, SafeKept DEF HandlesTypeOK
  <2>7. QED
    BY <2>1, <2>6
<1>a. \A u \in Threads : HoldsOK(guards[u], user[u], Holds(u)) /\ HoldsOK(guards'[u], user'[u], Holds(u)')
  BY DEF GuardsOK, PinsOK
<1>1. ASSUME NEW u \in Threads, NEW h \in HandleIds, handles'[u][h] # None PROVE HandleSafe(u, h)'
  <2>1. CASE handles'[u][h] = handles[u][h]
    <3> DEFINE g == handles[u][h].guard
    <3>1. g \in GuardIds /\ handles[u][h].leaf \in Addresses
      BY <1>1, <2>1 DEF HandlesTypeOK, CallsTypeOK, Refs
    <3>2. h \in Holders /\ Holds(u)[h].guard = g /\ Holds(u)'[h].guard = g
      <4>0. CallsTypeOK /\ handles[u][h] # None
        BY <1>1, <2>1 DEF HandlesTypeOK
      <4>1. Holds(u)[h].guard = g /\ h \in Holders
        BY <4>0, HeldByHandle, HeldByIter
      <4>2. Holds(u)'[h] = Holds(u)[h]
        BY <2>1, <4>1, HandlesAssumption DEF Holds, HoldOf, HandleIds
      <4>3. QED
        BY <4>1, <4>2
    <3>3. guards[u][g] # None /\ guards'[u][g] # None
      BY <1>a, <3>1, <3>2, GuardsNotZero DEF HoldsOK, HoldOK
    <3>4. HandleSafe(u, h)
      BY <1>1, <2>1 DEF RefsOK
    <3>5. QED
      BY <1>0, <2>1, <3>1, <3>3, <3>4 DEF HandleSafe
  <2>2. CASE handles'[u][h] # handles[u][h]
    BY <1>1, <2>2 DEF NewRefsSafe, OthersKept
  <2>3. QED
    BY <2>1, <2>2
<1>2. ASSUME NEW u \in Threads, iter'[u] # None, NEW i \in DOMAIN iter'[u].batch PROVE AheadSafe(u, i)'
  <2>1. CASE iter'[u] = iter[u]
    <3> DEFINE g == iter[u].guard
    <3>1. g \in GuardIds /\ iter[u].batch[i].leaf \in Addresses
      <4>1. iter[u] \in Iters
        BY <1>2, <2>1 DEF HandlesTypeOK, CallsTypeOK
      <4>2. iter[u].batch \in Seq(Ahead) /\ i \in DOMAIN iter[u].batch /\ iter[u].guard \in GuardIds
        BY <1>2, <2>1, <4>1 DEF Iters
      <4>3. iter[u].batch[i] \in Ahead
        BY <4>2
      <4>4. QED
        BY <4>2, <4>3 DEF Ahead
    <3>2. 0 \in Holders /\ Holds(u)[0].guard = g /\ Holds(u)'[0].guard = g
      <4>0. CallsTypeOK /\ iter[u] # None
        BY <1>2, <2>1 DEF HandlesTypeOK
      <4>1. Holds(u)[0].guard = g /\ 0 \in Holders
        BY <4>0, HeldByHandle, HeldByIter
      <4>2. Holds(u)'[0] = Holds(u)[0]
        BY <2>1, <4>1 DEF Holds, HoldOf
      <4>3. QED
        BY <4>1, <4>2
    <3>3. guards[u][g] # None /\ guards'[u][g] # None
      BY <1>a, <3>1, <3>2, GuardsNotZero DEF HoldsOK, HoldOK
    <3>4. AheadSafe(u, i)
      BY <1>2, <2>1 DEF RefsOK
    <3>5. QED
      BY <1>0, <2>1, <3>1, <3>3, <3>4 DEF AheadSafe
  <2>2. CASE iter'[u] # iter[u]
    BY <1>2, <2>2 DEF NewRefsSafe, OthersKept
  <2>3. QED
    BY <2>1, <2>2
<1>3. QED
  BY <1>1, <1>2 DEF RefsOK

-----------------------------------------------------------------------------
(* From the leaves and the call of one thread to those of all *)

LEMMA SlotsType ==
  ASSUME LeavesTypeOK
  PROVE  /\ Slots \in Slotting /\ None \in Trees /\ Threads \subseteq Trees
         /\ Slots[None] = map /\ \A u \in Threads : u # None /\ Slots[u] = detached[u]
BY HandlesAssumption DEF LeavesTypeOK, Slots, Slotting, Trees

OwnedBy(t) == IF run[t].pc = "install" THEN run[t].own ELSE 0
RetiredBy(t) == IF run[t].pc \in {"mark", "retire"} THEN run[t].leaf ELSE 0

LEMMA ClaimsType ==
  ASSUME CallsTypeOK
  PROVE  /\ Owned \in Claims /\ Retiring \in Claims
         /\ \A u \in Threads : Owned[u] = OwnedBy(u) /\ Retiring[u] = RetiredBy(u)
BY DEF CallsTypeOK, Runs, Owned, Retiring, OwnedBy, RetiredBy, Claims, Leaves

LEMMA ClaimsLift ==
  ASSUME CallsTypeOK, CallsTypeOK', NEW t \in Threads, OthersKept(t)
  PROVE  ClaimPut(Owned', Owned, t, OwnedBy(t)') /\ ClaimPut(Retiring', Retiring, t, RetiredBy(t)')
<1>1. \A u \in Threads : u # t => run'[u].pc = run[u].pc /\ run'[u].own = run[u].own /\ run'[u].leaf = run[u].leaf
  BY DEF OthersKept, SameRun
<1>2. Owned' \in Claims /\ Retiring' \in Claims
  BY DEF CallsTypeOK, Runs, Owned, Retiring, Claims, Leaves
<1>3. QED
  BY <1>1, <1>2 DEF ClaimPut, Owned, Retiring, OwnedBy, RetiredBy

LEMMA ClaimSame ==
  ASSUME NEW c \in Claims, NEW c2, NEW t \in Threads, ClaimPut(c2, c, t, c[t])
  PROVE  c2 = c
BY DEF ClaimPut, Claims

LEMMA LeavesPrimed ==
  ASSUME LeavesInv(Slots', mem', Owned', Retiring', garbage', hist'.made, hist'.taken)
  PROVE  LeavesOK'
BY DEF LeavesOK, LeavesInv, LinkedOK, OwnedOK, UnlinkedOK, EntriesOK

\* A step that leaves the leaves alone.
LEMMA LeavesSame ==
  ASSUME CallsTypeOK, CallsTypeOK', LeavesTypeOK, LeavesOK, NEW t \in Threads, OthersKept(t),
         UNCHANGED <<map, detached, mem, garbage, hist>>,
         OwnedBy(t)' = OwnedBy(t), RetiredBy(t)' = RetiredBy(t)
  PROVE  LeavesTypeOK' /\ LeavesOK' /\ MemEffect
<1>1. LeavesTypeOK' /\ MemEffect
  BY DEF LeavesTypeOK, MemEffect
<1>2. Slots' = Slots
  BY DEF Slots
<1>3. Owned' = Owned /\ Retiring' = Retiring
  BY ClaimsType, ClaimsLift, ClaimSame
<1>4. LeavesInv(Slots', mem', Owned', Retiring', garbage', hist'.made, hist'.taken)
  BY <1>2, <1>3 DEF LeavesOK
<1>5. QED
  BY <1>1, <1>4, LeavesPrimed

\* A tree that is gone does not come back.
StaysObsolete ==
  \A u \in Threads, k \in Keys : detached[u][k] = Obsolete => detached'[u][k] = Obsolete
\* A leaf that is not published yet keeps its key.
KeysKept(t) ==
  \A u \in Threads : u # t /\ run[u].pc = "install" => mem'[run[u].own].key = mem[run[u].own].key

LEMMA RunsLift ==
  ASSUME CallsTypeOK, RunsOK, NEW t \in Threads, OthersKept(t), RunOK(t)', KeysKept(t),
         \A u \in Threads, k \in Keys : u # t /\ detached[u][k] = Obsolete => detached'[u][k] = Obsolete
  PROVE  RunsOK'
<1>1. ASSUME NEW u \in Threads, u # t PROVE RunOK(u)'
  <2>1. RunOK(u) /\ SameRun(u) /\ handles'[u] = handles[u]
    BY <1>1 DEF RunsOK, OthersKept
  <2>2. HasHandle(u)' <=> HasHandle(u)
    BY <2>1 DEF HasHandle
  <2>3. (\E k \in Keys : detached'[u][k] # Obsolete) => \E k \in Keys : detached[u][k] # Obsolete
    BY <1>1
  <2>4. run[u].pc = "install" => mem'[run[u].own].key = mem[run[u].own].key
    BY <1>1 DEF KeysKept
  <2>5. QED
    BY <2>1, <2>2, <2>3, <2>4 DEF RunOK, SameRun
<1>2. QED
  BY <1>1 DEF RunsOK

\* Everything that a step of thread t has to do for the invariant.
ThreadEffect(t) ==
  /\ OthersKept(t) /\ epoch' = epoch /\ tls' \in Participants /\ hist'.over = hist.over
  /\ user' \in [Threads -> GuardIds \cup {0}]
  /\ LeavesTypeOK' /\ CallsTypeOK'
  /\ KeysKept(t) /\ RunOK(t)'
  /\ \A u \in Threads, k \in Keys : u # t /\ detached[u][k] = Obsolete => detached'[u][k] = Obsolete
  /\ PinsStep(t, user'[t], Holds(t)')
  /\ LeavesOK' /\ MemEffect /\ NewRefsSafe(t)

LEMMA ThreadLift ==
  ASSUME IInv, ~hist.over, NEW t \in Threads, ThreadEffect(t)
  PROVE  IInv'
<1>1. PinsTypeOK' /\ GuardsOK' /\ EpochsOK'
  BY PinsLift DEF IInv, HandlesTypeOK, ThreadEffect
<1>2. HandlesTypeOK'
  BY <1>1 DEF HandlesTypeOK, ThreadEffect
<1>3. RunsOK'
  BY RunsLift DEF IInv, HandlesTypeOK, ThreadEffect
<1>4. RefsOK'
  BY <1>1, <1>2, RefsLift DEF IInv, ThreadEffect, PinsStep
<1>5. OverOK'
  BY DEF ThreadEffect, OverOK
<1>6. QED
  BY <1>1, <1>2, <1>3, <1>4, <1>5 DEF IInv, ThreadEffect

\* A call that is over.
LEMMA IdleOK ==
  ASSUME NEW t \in Threads, NEW n, run'[t] = IdleAfter(n), \A k \in Keys : detached'[t][k] = Obsolete
  PROVE  RunOK(t)' /\ OwnedBy(t)' = 0 /\ RetiredBy(t)' = 0
<1>1. run'[t].pc = "idle" /\ run'[t].guard = 0
  BY DEF IdleAfter, Running
<1>2. RunOK(t)'
  BY <1>1 DEF RunOK
<1>3. QED
  BY <1>1, <1>2 DEF OwnedBy, RetiredBy

LEMMA IdleType ==
  ASSUME NEW n \in Nat
  PROVE  IdleAfter(n) \in Runs
BY DEF IdleAfter, Running, Runs, Leaves

LEMMA IdleFields ==
  ASSUME NEW n
  PROVE  IdleAfter(n).pc = "idle" /\ IdleAfter(n).guard = 0 /\ IdleAfter(n).kind = "none"
BY DEF IdleAfter, Running

LEMMA FreeHandleIsFree ==
  ASSUME NEW t \in Threads, HasHandle(t)
  PROVE  FreeHandle(t) \in HandleIds /\ handles[t][FreeHandle(t)] = None
<1> DEFINE S == {h \in HandleIds : handles[t][h] = None}
<1>1. S \in SUBSET Nat /\ S # {}
  BY HandlesAssumption DEF HasHandle, HandleIds
<1>2. Min(S) \in S
  BY <1>1, MinIsLeast
<1>3. QED
  BY <1>2 DEF FreeHandle

LEMMA MyPins ==
  ASSUME IInv, NEW t \in Threads
  PROVE  /\ PinsTypeOK /\ CallsTypeOK /\ LeavesTypeOK /\ LeavesOK /\ RunOK(t) /\ Holds(t) \in Holding
         /\ PinsOK(t, guards[t], user[t], Holds(t), local)
         /\ run[t] \in Runs /\ run[t].at \in Nat
         /\ (run[t].guard = 0 <=> run[t].kind = "none")
<1>1. PinsTypeOK /\ CallsTypeOK /\ LeavesTypeOK /\ LeavesOK /\ RunOK(t) /\ PinsOK(t, guards[t], user[t], Holds(t), local)
  BY DEF IInv, HandlesTypeOK, RunsOK, GuardsOK
<1>2. Holds(t) \in Holding
  BY <1>1, HoldsType
<1>3. run[t] \in Runs /\ run[t].at \in Nat
  BY <1>1 DEF CallsTypeOK, Runs
<1>4. run[t].guard = 0 <=> run[t].kind = "none"
  BY <1>1, HeldByRun DEF PinsOK, HoldsOK, HoldOK
<1>5. QED
  BY <1>1, <1>2, <1>3, <1>4

\* The call ends with a handle.
LEMMA GiveStep ==
  ASSUME IInv, NEW t \in Threads, run[t].pc # "idle", run[t].guard # 0, NEW x \in Addresses,
         Give(t, x), UNCHANGED <<iter, user, prog>>,
         Safe(mem', garbage', local', x, mem[x].entry, guards[t][run[t].guard].local)
  PROVE  /\ CallsTypeOK' /\ OthersKept(t) /\ run'[t] = IdleAfter(run[t].at)
         /\ PinsStep(t, user'[t], Holds(t)') /\ NewRefsSafe(t)
<1> DEFINE H == Holds(t)
           r == [leaf |-> x, entry |-> mem[x].entry, guard |-> run[t].guard, kind |-> run[t].kind]
<1>0. /\ PinsTypeOK /\ CallsTypeOK /\ LeavesTypeOK /\ RunOK(t) /\ H \in Holding
      /\ PinsOK(t, guards[t], user[t], H, local) /\ run[t] \in Runs /\ run[t].at \in Nat
      /\ run[t].kind # "none"
  BY MyPins
<1>1. PICK h \in HandleIds : h = FreeHandle(t) /\ handles[t][h] = None
  BY <1>0, FreeHandleIsFree DEF RunOK
<1>2. r \in Refs /\ r # None
  BY <1>0 DEF Refs, Runs, LeavesTypeOK, Memory, None
<1>3. /\ handles' = [handles EXCEPT ![t][h] = r] /\ run' = [run EXCEPT ![t] = IdleAfter(run[t].at)]
      /\ UNCHANGED pins
  BY <1>1 DEF Give, Ref, Idle
<1> HIDE DEF r
<1>4. run'[t] = IdleAfter(run[t].at) /\ IdleAfter(run[t].at) \in Runs
  BY <1>0, <1>3, IdleType DEF CallsTypeOK
<1>5. CallsTypeOK'
  BY <1>1, <1>2, <1>3, <1>4 DEF IInv, HandlesTypeOK, CallsTypeOK
<1>6. OthersKept(t)
  BY <1>0, <1>3 DEF OthersKept, SameRun, CallsTypeOK
<1>7. /\ handles'[t][h] = r /\ \A i \in HandleIds : i # h => handles'[t][i] = handles[t][i]
  BY <1>0, <1>1, <1>3 DEF CallsTypeOK
<1>8. PinsStep(t, user[t], Holds(t)')
  <2> DEFINE H1 == [H EXCEPT ![h] = H[-1]]
             H2 == Holds(t)'
  <2>1. /\ -1 \in Holders /\ 0 \in Holders /\ h \in Holders /\ h # -1 /\ h # 0
        /\ \A i \in Holders : i # -1 /\ i # 0 => i \in HandleIds
    BY <1>1, HandlesAssumption DEF Holders, HandleIds
  <2>2. H1 \in Holding /\ H1[h] = H[-1] /\ \A i \in Holders : i # h => H1[i] = H[i]
    BY <1>0, <2>1 DEF Holding
  <2>3. H2[-1] = NoHold
    BY <1>4, <2>1 DEF Holds, HoldOf, IdleAfter, Running, NoHold
  <2>4. H2[h] = H[-1]
    <3>1. H[-1] = [guard |-> run[t].guard, kind |-> run[t].kind]
      BY <2>1 DEF Holds, HoldOf
    <3>2. H2[h] = [guard |-> r.guard, kind |-> r.kind]
      BY <1>2, <1>7, <2>1 DEF Holds, HoldOf
    <3>3. QED
      BY <3>1, <3>2 DEF r
  <2>5. \A i \in Holders : i # -1 /\ i # h => H2[i] = H[i]
    BY <1>7, <2>1 DEF Holds, HoldOf
  <2>6. H2 \in Holding
    <3>1. H2 = [i \in Holders |-> H2[i]]
      BY DEF Holds
    <3>2. \A i \in Holders : H2[i] \in [guard : GuardIds \cup {0}, kind : Kinds \cup {"none"}]
      BY <1>0, <2>1, <2>3, <2>4, <2>5 DEF Holding, NoHold
    <3>3. QED
      BY <3>1, <3>2 DEF Holding
  <2>7. H[-1].guard # 0 /\ H[h].guard = 0
    BY <1>1, <2>1 DEF Holds, HoldOf, NoHold
  <2> HIDE DEF H, H1, H2
  <2>8. HeldAt(h, H[-1], H1, H) /\ HeldAt(-1, NoHold, H2, H1)
    BY <2>2, <2>3, <2>4, <2>5, <2>6 DEF HeldAt
  <2>9. PinsStep(t, user[t], H2)
    BY <1>0, <1>3, <2>1, <2>7, <2>8, MoveStep
  <2>10. QED
    BY <2>9 DEF H2
<1>9. NewRefsSafe(t)
  <2>1. HandleSafe(t, h)'
    <3>1. guards' = guards
      BY <1>3 DEF pins
    <3>2. r.leaf = x /\ r.entry = mem[x].entry /\ r.guard = run[t].guard
      BY DEF r
    <3>3. QED
      BY <1>7, <3>1, <3>2 DEF HandleSafe
  <2>2. QED
    BY <1>7, <2>1 DEF NewRefsSafe
<1>10. QED
  BY <1>4, <1>5, <1>6, <1>8, <1>9

\* The call ends without one.
LEMMA EndStep ==
  ASSUME IInv, NEW t \in Threads, DropGuardHandle(t, run[t].guard, run[t].kind), CallsTypeOK',
         run'[t] = IdleAfter(run[t].at), UNCHANGED <<handles, iter, user>>
  PROVE  PinsStep(t, user'[t], Holds(t)') /\ NewRefsSafe(t)
<1> DEFINE H == Holds(t)
           H2 == Holds(t)'
<1>0. /\ PinsTypeOK /\ CallsTypeOK /\ H \in Holding /\ PinsOK(t, guards[t], user[t], H, local)
  BY MyPins
<1>1. /\ -1 \in Holders /\ 0 \in Holders
  BY HandlesAssumption DEF Holders
<1>2. H2[-1] = NoHold /\ H[-1].guard = run[t].guard /\ H[-1].kind = run[t].kind
  BY <1>1 DEF Holds, HoldOf, IdleAfter, Running, NoHold
<1>3. \A i \in Holders : i # -1 => H2[i] = H[i]
  BY <1>1 DEF Holds, HoldOf
<1>4. H2 \in Holding
  <2>1. H2 = [i \in Holders |-> H2[i]]
    BY DEF Holds
  <2>2. \A i \in Holders : H2[i] \in [guard : GuardIds \cup {0}, kind : Kinds \cup {"none"}]
    BY <1>0, <1>1, <1>2, <1>3 DEF Holding, NoHold
  <2>3. QED
    BY <2>1, <2>2 DEF Holding
<1> HIDE DEF H, H2
<1>5. HeldAt(-1, NoHold, H2, H)
  BY <1>2, <1>3, <1>4 DEF HeldAt
<1>6. DropGuardHandle(t, H[-1].guard, H[-1].kind)
  BY <1>2
<1>7. PinsStep(t, user[t], H2)
  BY <1>0, <1>1, <1>5, <1>6, DropStep
<1>8. QED
  BY <1>7 DEF H2, NewRefsSafe

\* The holders after a step that changes one of them, or none.
LEMMA HoldersFacts ==
  /\ -1 \in Holders /\ 0 \in Holders /\ HandleIds \subseteq Holders
  /\ \A i \in HandleIds : i # -1 /\ i # 0
  /\ \A i \in Holders : i # -1 /\ i # 0 => i \in HandleIds
BY HandlesAssumption DEF Holders, HandleIds

LEMMA HoldsTypeNext ==
  ASSUME CallsTypeOK', NEW t \in Threads
  PROVE  Holds(t)' \in Holding
<1>1. /\ run'[t].guard \in GuardIds \cup {0} /\ run'[t].kind \in Kinds \cup {"none"}
      /\ iter'[t] # None => iter'[t].guard \in GuardIds /\ iter'[t].kind \in Kinds
      /\ \A h \in HandleIds : handles'[t][h] # None =>
           handles'[t][h].guard \in GuardIds /\ handles'[t][h].kind \in Kinds
  BY DEF CallsTypeOK, Runs, Iters, Refs, Kinds
<1>2. \A h \in Holders : HoldOf(t, h)' \in [guard : GuardIds \cup {0}, kind : Kinds \cup {"none"}]
  BY <1>1, HoldersFacts DEF HoldOf, NoHold
<1>3. QED
  BY <1>2 DEF Holds, Holding

LEMMA HoldsSame ==
  ASSUME CallsTypeOK, NEW t \in Threads, run'[t].guard = run[t].guard, run'[t].kind = run[t].kind,
         iter'[t] = iter[t], handles'[t] = handles[t]
  PROVE  Holds(t)' = Holds(t)
BY DEF Holds, HoldOf

LEMMA HoldsRunPut ==
  ASSUME CallsTypeOK, CallsTypeOK', NEW t \in Threads, iter'[t] = iter[t], handles'[t] = handles[t]
  PROVE  HeldAt(-1, [guard |-> run'[t].guard, kind |-> run'[t].kind], Holds(t)', Holds(t))
<1>1. Holds(t)'[-1] = [guard |-> run'[t].guard, kind |-> run'[t].kind]
  BY HoldersFacts DEF Holds, HoldOf
<1>2. \A i \in Holders : i # -1 => Holds(t)'[i] = Holds(t)[i]
  BY HoldersFacts DEF Holds, HoldOf
<1>3. QED
  BY <1>1, <1>2, HoldsTypeNext DEF HeldAt

LEMMA HoldsIterPut ==
  ASSUME CallsTypeOK, CallsTypeOK', NEW t \in Threads, run'[t].guard = run[t].guard,
         run'[t].kind = run[t].kind, handles'[t] = handles[t]
  PROVE  HeldAt(0, IF iter'[t] = None THEN NoHold ELSE [guard |-> iter'[t].guard, kind |-> iter'[t].kind],
                Holds(t)', Holds(t))
<1>1. Holds(t)'[0] = IF iter'[t] = None THEN NoHold ELSE [guard |-> iter'[t].guard, kind |-> iter'[t].kind]
  BY HoldersFacts DEF Holds, HoldOf
<1>2. \A i \in Holders : i # 0 => Holds(t)'[i] = Holds(t)[i]
  BY HoldersFacts DEF Holds, HoldOf
<1>3. QED
  BY <1>1, <1>2, HoldsTypeNext DEF HeldAt

SameIterGuard(t) ==
  \/ iter'[t] = iter[t]
  \/ iter[t] # None /\ iter'[t] # None /\ iter'[t].guard = iter[t].guard /\ iter'[t].kind = iter[t].kind

LEMMA HoldsHandlePut ==
  ASSUME CallsTypeOK, CallsTypeOK', NEW t \in Threads, run'[t].guard = run[t].guard,
         run'[t].kind = run[t].kind, SameIterGuard(t), NEW h \in HandleIds,
         \A i \in HandleIds : i # h => handles'[t][i] = handles[t][i]
  PROVE  HeldAt(h, IF handles'[t][h] = None THEN NoHold
                   ELSE [guard |-> handles'[t][h].guard, kind |-> handles'[t][h].kind],
                Holds(t)', Holds(t))
<1>1. Holds(t)'[h] = IF handles'[t][h] = None THEN NoHold
                     ELSE [guard |-> handles'[t][h].guard, kind |-> handles'[t][h].kind]
  BY HoldersFacts DEF Holds, HoldOf
<1>2. \A i \in Holders : i # h => Holds(t)'[i] = Holds(t)[i]
  BY HoldersFacts DEF Holds, HoldOf, SameIterGuard
<1>3. QED
  BY <1>1, <1>2, HoldsTypeNext DEF HeldAt

\* A step of thread t that changes no guard.
LEMMA PinsKept ==
  ASSUME IInv, NEW t \in Threads, UNCHANGED <<pins, user>>, Holds(t)' = Holds(t)
  PROVE  PinsStep(t, user'[t], Holds(t)')
<1>1. PinsTypeOK /\ PinsOK(t, guards[t], user[t], Holds(t), local)
  BY MyPins
<1>2. QED
  BY <1>1, SamePins DEF PinsStep, pins

\* The calls.
LEMMA NextCall ==
  ASSUME IInv, NEW t \in Threads, CanBegin(t)
  PROVE  /\ \A c \in Next1(t) : c \in Calls
         /\ run[t].at + 1 \in Nat /\ run[t].guard = 0 /\ run[t].kind = "none"
         /\ HasHandle(t) /\ \A k \in Keys : detached[t][k] = Obsolete
<1>1. prog[t] \in Seq(SUBSET Calls) /\ run[t].at \in Nat /\ run[t].at < Len(prog[t])
  BY MyPins DEF CanBegin, CallsTypeOK
<1>2. prog[t][run[t].at + 1] \in SUBSET Calls
  BY <1>1
<1>3. QED
  BY <1>1, <1>2, MyPins DEF Next1, CanBegin, RunOK

\* A step that counts a call as made and does nothing else to the calls.
LEMMA CountCall ==
  ASSUME IInv, NEW t \in Threads, run[t].pc = "idle", run' = [run EXCEPT ![t].at = @ + 1]
  PROVE  /\ run' \in [Threads -> Runs]
         /\ run'[t].pc = "idle" /\ run'[t].guard = run[t].guard /\ run'[t].kind = run[t].kind
         /\ \A u \in Threads : u # t => run'[u] = run[u]
<1>1. run \in [Threads -> Runs]
  BY MyPins DEF CallsTypeOK
<1>2. QED
  BY <1>1 DEF Runs

-----------------------------------------------------------------------------
(* The steps that leave the leaves alone *)

LEMMA QuietStep ==
  ASSUME IInv, NEW t \in Threads, OthersKept(t), CallsTypeOK',
         UNCHANGED <<map, detached, mem, garbage, hist, epoch>>, tls' \in Participants,
         user' \in [Threads -> GuardIds \cup {0}], RunOK(t)',
         OwnedBy(t)' = OwnedBy(t), RetiredBy(t)' = RetiredBy(t),
         PinsStep(t, user'[t], Holds(t)'), NewRefsSafe(t)
  PROVE  ThreadEffect(t)
<1>1. CallsTypeOK /\ LeavesTypeOK /\ LeavesOK
  BY MyPins
<1>2. LeavesTypeOK' /\ LeavesOK' /\ MemEffect
  BY <1>1, LeavesSame
<1>3. QED
  BY <1>2 DEF ThreadEffect, KeysKept

\* The types of what most steps leave alone.
LEMMA FrameTypes ==
  ASSUME IInv
  PROVE  tls \in Participants /\ user \in [Threads -> GuardIds \cup {0}]
BY DEF IInv, HandlesTypeOK, PinsTypeOK

LEMMA EnteredType ==
  ASSUME NEW n \in Nat, NEW c \in Calls, NEW pc \in {"lookup", "alloc", "takeout", "swap", "entry"},
         NEW g \in GuardIds \cup {0}, NEW kind \in Kinds \cup {"none"}, NEW h \in HandleIds \cup {0},
         NEW r, r = Running(n, c, pc, g, kind, h)
  PROVE  /\ r \in Runs /\ r.pc = pc /\ r.call = c /\ r.guard = g /\ r.kind = kind /\ r.handle = h
BY DEF Running, Runs, Leaves

LEMMA BeginStep ==
  ASSUME IInv, NEW t \in Threads, Begin(t)
  PROVE  ThreadEffect(t)
<1>1. PICK c \in Next1(t) :
        /\ c.op \in {"get", "insert", "getOrInsert", "insertIfAbsent", "remove", "clear"}
        /\ \/ /\ ~c.with /\ PinTagged(t)
              /\ run' = [run EXCEPT ![t] = Entered(t, c, First(c.op), FreeGuard(t), "owned", 0)]
           \/ /\ c.with /\ user[t] # 0
              /\ run' = [run EXCEPT ![t] = Entered(t, c, First(c.op), user[t], "borrowed", 0)]
              /\ UNCHANGED pins
  BY DEF Begin
<1>2. UNCHANGED <<map, detached, mem, garbage, epoch, tls, user, handles, iter, prog, hist>> /\ CanBegin(t)
  BY DEF Begin
<1>3. /\ c \in Calls /\ run[t].at + 1 \in Nat /\ run[t].guard = 0 /\ run[t].kind = "none"
      /\ HasHandle(t) /\ \A k \in Keys : detached[t][k] = Obsolete
  BY <1>2, NextCall
<1>4. /\ PinsTypeOK /\ CallsTypeOK /\ Holds(t) \in Holding
      /\ PinsOK(t, guards[t], user[t], Holds(t), local)
  BY MyPins
<1>5. \E g \in GuardIds, kind \in {"owned", "borrowed"} :
        /\ run' = [run EXCEPT ![t] = Entered(t, c, First(c.op), g, kind, 0)]
        /\ \/ kind = "owned" /\ PinTagged(t) /\ g = FreeGuard(t)
           \/ kind = "borrowed" /\ UNCHANGED pins /\ g = user[t] /\ user[t] # 0
  BY <1>1, <1>4, FreeGuardIsFree DEF PinTagged, PinsTypeOK
<1>6. PICK g \in GuardIds, kind \in {"owned", "borrowed"} :
        /\ run' = [run EXCEPT ![t] = Entered(t, c, First(c.op), g, kind, 0)]
        /\ \/ kind = "owned" /\ PinTagged(t) /\ g = FreeGuard(t)
           \/ kind = "borrowed" /\ UNCHANGED pins /\ g = user[t] /\ user[t] # 0
  BY <1>5
<1>7. /\ First(c.op) \in {"lookup", "alloc", "takeout", "swap"}
      /\ First(c.op) = "lookup" => c.op \in {"get", "getOrInsert", "insertIfAbsent"}
      /\ First(c.op) = "alloc" => c.op = "insert"
      /\ First(c.op) = "takeout" => c.op = "remove"
      /\ First(c.op) = "swap" => c.op = "clear"
  BY <1>1 DEF First
<1>8. /\ run'[t] = Running(run[t].at + 1, c, First(c.op), g, kind, 0)
      /\ \A u \in Threads : u # t => run'[u] = run[u]
  BY <1>4, <1>6 DEF Entered, CallsTypeOK
<1>9. /\ run'[t] \in Runs /\ run'[t].pc = First(c.op) /\ run'[t].call = c /\ run'[t].guard = g
      /\ run'[t].kind = kind
  BY <1>3, <1>7, <1>8, EnteredType DEF Kinds
<1>10. CallsTypeOK'
  BY <1>2, <1>4, <1>6, <1>8, <1>9 DEF CallsTypeOK
<1>11. OthersKept(t)
  BY <1>2, <1>8 DEF OthersKept, SameRun
<1>12. RunOK(t)'
  BY <1>2, <1>3, <1>1, <1>7, <1>9, GuardsNotZero DEF RunOK, HasHandle, Writes
<1>13. PinsStep(t, user'[t], Holds(t)')
  <2>1. HeldAt(-1, [guard |-> g, kind |-> kind], Holds(t)', Holds(t))
    BY <1>2, <1>4, <1>9, <1>10, HoldsRunPut
  <2>2. -1 \in Holders /\ Holds(t)[-1].guard = 0
    BY <1>3, HeldByRun
  <2>3. CASE kind = "owned"
    BY <1>2, <1>4, <1>6, <2>1, <2>2, <2>3, PinHoldStep
  <2>4. CASE kind = "borrowed"
    BY <1>2, <1>4, <1>6, <2>1, <2>2, <2>4, BorrowStep
  <2>5. QED
    BY <2>3, <2>4
<1>14. NewRefsSafe(t)
  BY <1>2 DEF NewRefsSafe
<1>15. OwnedBy(t)' = OwnedBy(t) /\ RetiredBy(t)' = RetiredBy(t)
  BY <1>2, <1>7, <1>9 DEF OwnedBy, RetiredBy, CanBegin
<1>16. QED
  BY <1>2, <1>10, <1>11, <1>12, <1>13, <1>14, <1>15, FrameTypes, QuietStep

LEMMA PinUserThreadStep ==
  ASSUME IInv, NEW t \in Threads, PinUser(t)
  PROVE  ThreadEffect(t)
<1>1. /\ CanBegin(t) /\ user[t] = 0 /\ PinTagged(t) /\ user' = [user EXCEPT ![t] = FreeGuard(t)]
      /\ run' = [run EXCEPT ![t].at = @ + 1] /\ run[t].pc = "idle"
      /\ UNCHANGED <<map, detached, mem, garbage, epoch, tls, handles, iter, prog, hist>>
  BY DEF PinUser, CanBegin
<1>2. /\ PinsTypeOK /\ CallsTypeOK /\ Holds(t) \in Holding /\ RunOK(t)
      /\ PinsOK(t, guards[t], user[t], Holds(t), local)
  BY MyPins
<1>3. /\ run' \in [Threads -> Runs]
      /\ run'[t].pc = "idle" /\ run'[t].guard = run[t].guard /\ run'[t].kind = run[t].kind
      /\ \A u \in Threads : u # t => run'[u] = run[u]
  BY <1>1, CountCall
<1>4. CallsTypeOK'
  BY <1>1, <1>2, <1>3 DEF CallsTypeOK
<1>5. PinsStep(t, FreeGuard(t), Holds(t)) /\ FreeGuard(t) \in GuardIds
  BY <1>1, <1>2, PinUserStep
<1>6. user' \in [Threads -> GuardIds \cup {0}] /\ user'[t] = FreeGuard(t) /\ \A u \in Threads : u # t => user'[u] = user[u]
  BY <1>1, <1>2, <1>5 DEF PinsTypeOK
<1>7. Holds(t)' = Holds(t)
  BY <1>1, <1>2, <1>3, HoldsSame
<1>8. PinsStep(t, user'[t], Holds(t)')
  BY <1>5, <1>6, <1>7
<1>9. OthersKept(t)
  BY <1>1, <1>3, <1>6 DEF OthersKept, SameRun
<1>10. RunOK(t)'
  BY <1>1, <1>2, <1>3 DEF RunOK
<1>11. NewRefsSafe(t)
  BY <1>1 DEF NewRefsSafe
<1>12. OwnedBy(t)' = OwnedBy(t) /\ RetiredBy(t)' = RetiredBy(t)
  BY <1>1, <1>3 DEF OwnedBy, RetiredBy
<1>13. QED
  BY <1>1, <1>4, <1>6, <1>8, <1>9, <1>10, <1>11, <1>12, FrameTypes, QuietStep

LEMMA DropGuardStep ==
  ASSUME IInv, NEW t \in Threads, DropGuard(t)
  PROVE  ThreadEffect(t)
<1>1. /\ run[t].pc = "idle" /\ user[t] # 0 /\ ~Borrowed(t, user[t]) /\ Unpin(t, user[t])
      /\ user' = [user EXCEPT ![t] = 0]
      /\ UNCHANGED <<map, detached, mem, garbage, epoch, tls, handles, iter, run, prog, hist>>
  BY DEF DropGuard
<1>2. /\ PinsTypeOK /\ CallsTypeOK /\ Holds(t) \in Holding /\ RunOK(t)
      /\ PinsOK(t, guards[t], user[t], Holds(t), local)
  BY MyPins
<1>3. \A i \in Holders : Holds(t)[i].guard # user[t]
  BY <1>1, HoldersFacts DEF Holds, HoldOf, Borrowed, NoHold
<1>4. PinsStep(t, 0, Holds(t))
  BY <1>1, <1>2, <1>3, UserDropStep
<1>5. user' \in [Threads -> GuardIds \cup {0}] /\ user'[t] = 0 /\ \A u \in Threads : u # t => user'[u] = user[u]
  BY <1>1, <1>2 DEF PinsTypeOK
<1>6. CallsTypeOK' /\ Holds(t)' = Holds(t)
  BY <1>1, <1>2, HoldsSame DEF CallsTypeOK
<1>7. PinsStep(t, user'[t], Holds(t)')
  BY <1>4, <1>5, <1>6
<1>8. OthersKept(t) /\ NewRefsSafe(t)
  BY <1>1, <1>5 DEF OthersKept, SameRun, NewRefsSafe
<1>9. RunOK(t)' /\ OwnedBy(t)' = OwnedBy(t) /\ RetiredBy(t)' = RetiredBy(t)
  BY <1>1, <1>2 DEF RunOK, OwnedBy, RetiredBy
<1>10. QED
  BY <1>1, <1>5, <1>6, <1>7, <1>8, <1>9, FrameTypes, QuietStep

\* Skip and Teardown.
LEMMA PassStep ==
  ASSUME IInv, NEW t \in Threads, Skip(t) \/ Teardown(t)
  PROVE  ThreadEffect(t)
<1>1. /\ run' = [run EXCEPT ![t].at = @ + 1] /\ run[t].pc = "idle" /\ tls' \in Participants
      /\ UNCHANGED <<map, detached, mem, garbage, epoch, pins, user, handles, iter, prog, hist>>
  <2>1. CASE Skip(t)
    BY <2>1, FrameTypes, Zenon DEF Skip
  <2>2. CASE Teardown(t)
    <3>1. /\ run' = [run EXCEPT ![t].at = @ + 1] /\ run[t].pc = "idle"
          /\ tls' = [tls EXCEPT ![t].live = FALSE]
          /\ UNCHANGED <<map, detached, mem, garbage, epoch, pins, user, handles, iter, prog, hist>>
      BY <2>2, Zenon DEF Teardown, CanBegin
    <3>2. tls' \in Participants
      BY <3>1, FrameTypes DEF Participants
    <3>3. QED
      BY <3>1, <3>2, Zenon
  <2>3. QED
    BY <2>1, <2>2, Zenon
<1>2. CallsTypeOK /\ RunOK(t)
  BY MyPins
<1>3. /\ run' \in [Threads -> Runs]
      /\ run'[t].pc = "idle" /\ run'[t].guard = run[t].guard /\ run'[t].kind = run[t].kind
      /\ \A u \in Threads : u # t => run'[u] = run[u]
  BY <1>1, CountCall
<1>4. CallsTypeOK' /\ Holds(t)' = Holds(t)
  BY <1>1, <1>2, <1>3, HoldsSame DEF CallsTypeOK
<1>5. PinsStep(t, user'[t], Holds(t)')
  BY <1>1, <1>4, PinsKept
<1>6. OthersKept(t) /\ NewRefsSafe(t)
  BY <1>1, <1>3 DEF OthersKept, SameRun, NewRefsSafe
<1>7. RunOK(t)' /\ OwnedBy(t)' = OwnedBy(t) /\ RetiredBy(t)' = RetiredBy(t)
  BY <1>1, <1>2, <1>3 DEF RunOK, OwnedBy, RetiredBy
<1>8. user' \in [Threads -> GuardIds \cup {0}]
  BY <1>1, FrameTypes
<1>9. QED
  BY <1>1, <1>4, <1>5, <1>6, <1>7, <1>8, QuietStep

\* A participant is initialised again.
LEMMA ReinitStep ==
  ASSUME IInv, NEW t \in Threads, Reinit(t)
  PROVE  ThreadEffect(t)
<1>1. /\ tls[t].id < MaxParts /\ tls' = [tls EXCEPT ![t] = [id |-> @.id + 1, live |-> TRUE]]
      /\ UNCHANGED <<map, detached, mem, garbage, epoch, pins, user, handles, iter, run, prog, hist>>
  BY Zenon DEF Reinit
<1>2. tls' \in Participants
  BY <1>1, FrameTypes, HandlesAssumption DEF Participants
<1>3. CallsTypeOK /\ RunOK(t)
  BY MyPins
<1>4. CallsTypeOK' /\ Holds(t)' = Holds(t)
  BY <1>1, <1>3, HoldsSame DEF CallsTypeOK
<1>5. PinsStep(t, user'[t], Holds(t)')
  BY <1>1, <1>4, PinsKept
<1>6. OthersKept(t) /\ NewRefsSafe(t)
  BY <1>1 DEF OthersKept, SameRun, NewRefsSafe
<1>7. RunOK(t)' /\ OwnedBy(t)' = OwnedBy(t) /\ RetiredBy(t)' = RetiredBy(t)
  BY <1>1, <1>3 DEF RunOK, OwnedBy, RetiredBy, HasHandle
<1>8. user' \in [Threads -> GuardIds \cup {0}]
  BY <1>1, FrameTypes
<1>9. QED
  BY <1>1, <1>2, <1>4, <1>5, <1>6, <1>7, <1>8, QuietStep

\* What is in a tree is linked, and nobody has retired it.
LEMMA InTree ==
  ASSUME IInv, NEW s \in Trees, NEW k \in Keys, NEW x \in Addresses, Slots[s][k] = x
  PROVE  mem[x].state = "linked" /\ mem[x].key = k /\ \A g \in garbage : g.leaf # x
<1>1. LinkedOK(Slots, mem) /\ UnlinkedOK(mem, Retiring, garbage)
  BY DEF IInv, LeavesOK, LeavesInv
<1>2. mem[x].state = "linked" /\ mem[x].key = k
  BY <1>1 DEF LinkedOK
<1>3. \A g \in garbage : g.leaf # x
  BY <1>1, <1>2 DEF UnlinkedOK
<1>4. QED
  BY <1>2, <1>3

\* The call of t ends, by End, and the other calls stay.
LEMMA EndCall ==
  ASSUME IInv, NEW t \in Threads, End(t), UNCHANGED <<iter, user, prog>>
  PROVE  /\ CallsTypeOK' /\ OthersKept(t) /\ run'[t] = IdleAfter(run[t].at)
         /\ PinsStep(t, user'[t], Holds(t)') /\ NewRefsSafe(t)
<1>1. /\ DropGuardHandle(t, run[t].guard, run[t].kind)
      /\ run' = [run EXCEPT ![t] = IdleAfter(run[t].at)] /\ UNCHANGED handles
  BY DEF End, Idle
<1>2. CallsTypeOK /\ run[t].at \in Nat
  BY MyPins
<1>3. /\ run'[t] = IdleAfter(run[t].at) /\ IdleAfter(run[t].at) \in Runs
      /\ \A u \in Threads : u # t => run'[u] = run[u]
  BY <1>1, <1>2, IdleType DEF CallsTypeOK
<1>4. CallsTypeOK'
  BY <1>1, <1>2, <1>3 DEF CallsTypeOK
<1>5. OthersKept(t)
  BY <1>1, <1>3 DEF OthersKept, SameRun
<1>6. QED
  BY <1>1, <1>3, <1>4, <1>5, EndStep

\* Outside a clear nothing of a tree that t detached is left.
LEMMA NotClearing ==
  ASSUME IInv, NEW t \in Threads, run[t].pc # "sweep", ~(run[t].pc = "retire" /\ run[t].call.op = "clear")
  PROVE  \A k \in Keys : detached[t][k] = Obsolete
BY MyPins DEF RunOK

LEMMA LookupStep ==
  ASSUME IInv, NEW t \in Threads, Lookup(t)
  PROVE  ThreadEffect(t)
<1> DEFINE k == run[t].call.key
           op == run[t].call.op
<1>1. /\ run[t].pc = "lookup"
      /\ \/ End(t)
         \/ op # "get" /\ run' = [run EXCEPT ![t].pc = "alloc"] /\ UNCHANGED <<handles, pins>>
         \/ map[k] # 0 /\ Give(t, map[k])
      /\ UNCHANGED <<map, detached, mem, garbage, epoch, tls, user, iter, prog, hist>>
  BY DEF Lookup
<1>2. /\ PinsTypeOK /\ CallsTypeOK /\ LeavesTypeOK /\ RunOK(t) /\ run[t] \in Runs
  BY MyPins
<1>3. /\ run[t].call \in Calls /\ k \in Keys /\ op \in {"get", "getOrInsert", "insertIfAbsent"}
      /\ run[t].guard # 0 /\ HasHandle(t)
  BY <1>1, <1>2 DEF RunOK, Calls
<1>4. (\A j \in Keys : detached[t][j] = Obsolete) /\ \A j \in Keys : detached'[t][j] = Obsolete
  BY <1>1, NotClearing
<1>5. tls' \in Participants /\ user' \in [Threads -> GuardIds \cup {0}]
  BY <1>1, FrameTypes
<1>6. CASE End(t)
  <2>1. /\ CallsTypeOK' /\ OthersKept(t) /\ run'[t] = IdleAfter(run[t].at)
        /\ PinsStep(t, user'[t], Holds(t)') /\ NewRefsSafe(t)
    BY <1>1, <1>6, EndCall
  <2>2. RunOK(t)' /\ OwnedBy(t)' = OwnedBy(t) /\ RetiredBy(t)' = RetiredBy(t)
    BY <1>1, <1>4, <2>1, IdleOK DEF OwnedBy, RetiredBy
  <2>3. QED
    BY <1>1, <1>5, <2>1, <2>2, QuietStep
<1>7. CASE map[k] # 0 /\ Give(t, map[k])
  <2>1. PICK x \in Addresses : x = map[k]
    BY <1>2, <1>3, <1>7 DEF LeavesTypeOK, Leaves
  <2>2. Slots[None][k] = x /\ None \in Trees
    BY <1>2, <2>1, SlotsType
  <2>3. mem[x].state = "linked" /\ \A g \in garbage : g.leaf # x
    BY <1>3, <2>2, InTree
  <2>4. Safe(mem', garbage', local', x, mem[x].entry, guards[t][run[t].guard].local)
    BY <1>1, <2>3 DEF Safe
  <2>5. /\ CallsTypeOK' /\ OthersKept(t) /\ run'[t] = IdleAfter(run[t].at)
        /\ PinsStep(t, user'[t], Holds(t)') /\ NewRefsSafe(t)
    BY <1>1, <1>3, <1>7, <2>1, <2>4, GiveStep
  <2>6. RunOK(t)' /\ OwnedBy(t)' = OwnedBy(t) /\ RetiredBy(t)' = RetiredBy(t)
    BY <1>1, <1>4, <2>5, IdleOK DEF OwnedBy, RetiredBy
  <2>7. QED
    BY <1>1, <1>5, <2>5, <2>6, QuietStep
<1>8. CASE op # "get" /\ run' = [run EXCEPT ![t].pc = "alloc"] /\ UNCHANGED <<handles, pins>>
  <2>1. /\ run' \in [Threads -> Runs] /\ run'[t].pc = "alloc" /\ run'[t].call = run[t].call
        /\ run'[t].guard = run[t].guard /\ run'[t].kind = run[t].kind
        /\ \A u \in Threads : u # t => run'[u] = run[u]
    BY <1>2, <1>8 DEF CallsTypeOK, Runs
  <2>2. CallsTypeOK' /\ Holds(t)' = Holds(t)
    BY <1>1, <1>2, <1>8, <2>1, HoldsSame DEF CallsTypeOK
  <2>3. PinsStep(t, user'[t], Holds(t)')
    BY <1>1, <1>8, <2>2, PinsKept
  <2>4. OthersKept(t) /\ NewRefsSafe(t)
    BY <1>1, <1>8, <2>1 DEF OthersKept, SameRun, NewRefsSafe
  <2>5. RunOK(t)'
    BY <1>1, <1>3, <1>4, <1>8, <2>1 DEF RunOK, HasHandle, Writes
  <2>6. OwnedBy(t)' = OwnedBy(t) /\ RetiredBy(t)' = RetiredBy(t)
    BY <1>1, <2>1 DEF OwnedBy, RetiredBy
  <2>7. QED
    BY <1>1, <1>5, <2>2, <2>3, <2>4, <2>5, <2>6, QuietStep
<1>9. QED
  BY <1>1, <1>6, <1>7, <1>8

LEMMA BeginEntryRemoveStep ==
  ASSUME IInv, NEW t \in Threads, BeginEntryRemove(t)
  PROVE  ThreadEffect(t)
<1>1. /\ CanBegin(t) /\ run[t].pc = "idle"
      /\ UNCHANGED <<map, detached, mem, garbage, epoch, pins, tls, user, handles, iter, prog, hist>>
  BY DEF BeginEntryRemove, CanBegin
<1>2. PICK c \in Next1(t), h \in HandleIds :
        /\ c.op = "entryRemove" /\ handles[t][h] # None
        /\ run' = [run EXCEPT ![t] =
                     IF mem[handles[t][h].leaf].removed THEN IdleAfter(run[t].at + 1)
                     ELSE Entered(t, c, "entry", 0, "none", h)]
  BY DEF BeginEntryRemove
<1>3. /\ c \in Calls /\ run[t].at + 1 \in Nat /\ run[t].guard = 0 /\ run[t].kind = "none"
      /\ HasHandle(t) /\ \A k \in Keys : detached[t][k] = Obsolete
  BY <1>1, NextCall
<1>4. CallsTypeOK /\ RunOK(t)
  BY MyPins
<1>5. /\ \A u \in Threads : u # t => run'[u] = run[u]
      /\ \/ run'[t] = IdleAfter(run[t].at + 1)
         \/ run'[t] = Running(run[t].at + 1, c, "entry", 0, "none", h)
  BY <1>2, <1>4 DEF CallsTypeOK, Entered
<1>6. /\ run'[t] \in Runs /\ run'[t].guard = 0 /\ run'[t].kind = "none"
      /\ \/ run'[t].pc = "idle"
         \/ run'[t].pc = "entry" /\ run'[t].call = c /\ run'[t].handle = h
  <2>1. CASE run'[t] = IdleAfter(run[t].at + 1)
    <3>1. run'[t] \in Runs
      BY <1>3, <2>1, IdleType
    <3>2. run'[t].guard = 0 /\ run'[t].kind = "none" /\ run'[t].pc = "idle"
      BY <2>1, IdleFields
    <3>3. QED
      BY <3>1, <3>2
  <2>2. CASE run'[t] = Running(run[t].at + 1, c, "entry", 0, "none", h)
    <3>1. /\ run[t].at + 1 \in Nat /\ c \in Calls /\ 0 \in GuardIds \cup {0}
          /\ "none" \in Kinds \cup {"none"} /\ h \in HandleIds \cup {0}
          /\ "entry" \in {"lookup", "alloc", "takeout", "swap", "entry"}
      BY <1>3
    <3>2. /\ run'[t] \in Runs /\ run'[t].guard = 0 /\ run'[t].kind = "none"
          /\ run'[t].pc = "entry" /\ run'[t].call = c /\ run'[t].handle = h
      <4>1. PICK r, n : r = run'[t] /\ n = run[t].at + 1
        BY Zenon
      <4>2. n \in Nat /\ r = Running(n, c, "entry", 0, "none", h)
        BY <2>2, <3>1, <4>1, Zenon
      <4>3. r \in Runs /\ r.pc = "entry" /\ r.call = c /\ r.guard = 0 /\ r.kind = "none" /\ r.handle = h
        BY <3>1, <4>2 DEF Running, Runs, Leaves
      <4>4. QED
        BY <4>1, <4>3, Zenon
    <3>3. QED
      BY <3>2
  <2>3. QED
    BY <1>5, <2>1, <2>2
<1>7. CallsTypeOK' /\ Holds(t)' = Holds(t)
  <2>1. run' \in [Threads -> Runs]
    BY <1>2, <1>4, <1>5, <1>6 DEF CallsTypeOK
  <2>2. QED
    BY <1>1, <1>3, <1>4, <1>6, <2>1, HoldsSame DEF CallsTypeOK
<1>8. PinsStep(t, user'[t], Holds(t)')
  BY <1>1, <1>7, PinsKept
<1>9. OthersKept(t) /\ NewRefsSafe(t)
  BY <1>1, <1>5 DEF OthersKept, SameRun, NewRefsSafe
<1>10. RunOK(t)'
  <2>1. h # 0
    BY DEF HandleIds
  <2>2. QED
    BY <1>1, <1>2, <1>3, <1>6, <2>1 DEF RunOK, HasHandle
<1>11. OwnedBy(t)' = OwnedBy(t) /\ RetiredBy(t)' = RetiredBy(t)
  BY <1>1, <1>6 DEF OwnedBy, RetiredBy
<1>12. QED
  BY <1>1, <1>7, <1>8, <1>9, <1>10, <1>11, FrameTypes, QuietStep

\* A hold is on a guard that exists, and so on a Local that is pinned.
LEMMA HoldPinned ==
  ASSUME IInv, NEW t \in Threads, NEW c \in Holders, Holds(t)[c].guard # 0
  PROVE  /\ Holds(t)[c].guard \in GuardIds /\ guards[t][Holds(t)[c].guard] # None
         /\ guards[t][Holds(t)[c].guard].local \in Locals
         /\ local[guards[t][Holds(t)[c].guard].local].pins > 0
<1>1. /\ PinsTypeOK /\ Holds(t) \in Holding /\ PinsOK(t, guards[t], user[t], Holds(t), local)
  BY MyPins
<1>2. Holds(t)[c].guard \in GuardIds /\ guards[t] \in Guarding /\ local \in Counting
  BY <1>1 DEF Holding, PinsTypeOK
<1>3. guards[t][Holds(t)[c].guard] # None
  BY <1>1 DEF PinsOK, HoldsOK, HoldOK
<1>4. TagsOK(t, guards[t]) /\ PinsCounted(t, guards[t], local)
  BY <1>1 DEF PinsOK
<1>5. QED
  BY <1>2, <1>3, <1>4, HeldPinned

\* A leaf that is safe through a hold of t stays so through a step that leaves
\* the leaves alone.
LEMMA StillSafe ==
  ASSUME IInv, NEW t \in Threads, NEW c \in Holders, Holds(t)[c].guard # 0,
         UNCHANGED <<map, detached, mem, garbage, hist>>, PinEffect(t),
         NEW x \in Addresses, NEW e, Safe(mem, garbage, local, x, e, guards[t][Holds(t)[c].guard].local)
  PROVE  Safe(mem', garbage', local', x, e, guards[t][Holds(t)[c].guard].local)
<1>1. PinsTypeOK /\ EpochsOK /\ LeavesTypeOK
  BY DEF IInv, HandlesTypeOK
<1>2. LeavesTypeOK' /\ MemEffect
  BY <1>1 DEF LeavesTypeOK, MemEffect
<1>3. PICK l \in Locals : l = guards[t][Holds(t)[c].guard].local
  BY HoldPinned
<1>4. local[l].pins > 0 /\ local'[l].epoch = local[l].epoch
  BY <1>3, HoldPinned DEF PinEffect
<1>5. QED
  BY <1>1, <1>2, <1>3, <1>4, SafeKept

\* A handle is made from one, or from an iterator, that t has.
LEMMA CopyStep ==
  ASSUME IInv, NEW t \in Threads, CanBegin(t), NEW c \in Holders, Holds(t)[c].guard # 0,
         Duplicate(t, Holds(t)[c].guard, Holds(t)[c].kind),
         NEW r, r.leaf \in Addresses, r.entry \in Nat,
         r = [leaf |-> r.leaf, entry |-> r.entry, guard |-> r.guard, kind |-> r.kind],
         r.guard = DuplicateOf(t, Holds(t)[c].guard, Holds(t)[c].kind), r.kind = Holds(t)[c].kind,
         handles' = [handles EXCEPT ![t][FreeHandle(t)] = r],
         run' = [run EXCEPT ![t].at = @ + 1],
         Safe(mem, garbage, local, r.leaf, r.entry, guards[t][Holds(t)[c].guard].local),
         iter' \in [Threads -> Iters \cup {None}], \A u \in Threads : u # t => iter'[u] = iter[u],
         SameIterGuard(t),
         iter'[t] # None => \A i \in DOMAIN iter'[t].batch : \E j \in DOMAIN iter[t].batch :
           iter'[t].batch[i] = iter[t].batch[j],
         UNCHANGED <<map, detached, mem, garbage, epoch, tls, user, prog, hist>>
  PROVE  ThreadEffect(t)
<1>1. /\ PinsTypeOK /\ CallsTypeOK /\ Holds(t) \in Holding /\ RunOK(t)
      /\ PinsOK(t, guards[t], user[t], Holds(t), local)
  BY MyPins
<1>2. PICK h \in HandleIds : h = FreeHandle(t) /\ handles[t][h] = None
  BY FreeHandleIsFree DEF CanBegin
<1>3. /\ run' \in [Threads -> Runs] /\ run[t].pc = "idle"
      /\ run'[t].pc = "idle" /\ run'[t].guard = run[t].guard /\ run'[t].kind = run[t].kind
      /\ \A u \in Threads : u # t => run'[u] = run[u]
  BY CountCall DEF CanBegin
<1>4. r.guard \in GuardIds
  BY HoldPinned, FreeGuardIsFree DEF DuplicateOf, Duplicate, NestedPin
<1>5. r \in Refs /\ r # None
  <2>1. r.kind \in Kinds
    <3>1. Holds(t)[c].kind \in Kinds \cup {"none"}
      BY <1>1 DEF Holding
    <3>2. Holds(t)[c].kind # "none"
      BY <1>1 DEF PinsOK, HoldsOK, HoldOK
    <3>3. QED
      BY <3>1, <3>2
  <2>2. r \in Refs
    BY <1>4, <2>1 DEF Refs
  <2>3. QED
    BY <2>2, RefNotNone
<1>6. /\ handles' \in [Threads -> [HandleIds -> Refs \cup {None}]] /\ handles'[t][h] = r
      /\ \A i \in HandleIds : i # h => handles'[t][i] = handles[t][i]
      /\ \A u \in Threads : u # t => handles'[u] = handles[u]
  BY <1>1, <1>2, <1>5 DEF CallsTypeOK
<1>7. CallsTypeOK'
  BY <1>1, <1>3, <1>6 DEF CallsTypeOK
<1>8. HeldAt(h, [guard |-> r.guard, kind |-> Holds(t)[c].kind], Holds(t)', Holds(t))
  BY <1>1, <1>3, <1>5, <1>6, <1>7, HoldsHandlePut
<1>9. h \in Holders /\ Holds(t)[h].guard = 0
  BY <1>2, HoldersFacts DEF Holds, HoldOf, NoHold
<1>10. /\ PinsStep(t, user[t], Holds(t)')
       /\ guards'[t][r.guard].local = guards[t][Holds(t)[c].guard].local
  BY <1>1, <1>8, <1>9, DuplicateStep
<1>11. PinEffect(t) /\ PinsStep(t, user'[t], Holds(t)')
  BY <1>10 DEF PinsStep
<1>12. HandleSafe(t, h)'
  <2>1. Safe(mem', garbage', local', r.leaf, r.entry, guards[t][Holds(t)[c].guard].local)
    BY <1>11, StillSafe
  <2>2. QED
    BY <1>6, <1>10, <2>1 DEF HandleSafe
<1>13. ASSUME iter'[t] # None, iter'[t] # iter[t], NEW i \in DOMAIN iter'[t].batch
       PROVE  AheadSafe(t, i)'
  <2>1. PICK j \in DOMAIN iter[t].batch : iter'[t].batch[i] = iter[t].batch[j]
    BY <1>13
  <2>2. iter[t] # None /\ iter'[t].guard = iter[t].guard
    BY <1>13 DEF SameIterGuard
  <2>3. AheadSafe(t, j) /\ iter[t].batch[j].leaf \in Addresses /\ iter[t] \in Iters
    <3>1. iter[t] \in Iters
      BY <1>1, <2>2 DEF CallsTypeOK
    <3>2. iter[t].batch[j] \in Ahead
      BY <3>1 DEF Iters
    <3>3. QED
      BY <2>2, <3>1, <3>2 DEF IInv, RefsOK, Ahead
  <2>4. Holds(t)[0].guard = iter[t].guard /\ 0 \in Holders /\ iter[t].guard # 0
    BY <2>2, <2>3, HeldByIter, GuardsNotZero DEF Iters
  <2>5. Safe(mem', garbage', local', iter[t].batch[j].leaf, iter[t].batch[j].entry, guards[t][iter[t].guard].local)
    BY <1>11, <2>3, <2>4, StillSafe DEF AheadSafe
  <2>6. guards'[t][iter[t].guard].local = guards[t][iter[t].guard].local
    <3>1. guards[t][iter[t].guard] # None /\ iter[t].guard \in GuardIds
      BY <2>4, HoldPinned
    <3>2. Holds(t)'[0].guard = iter[t].guard
      BY <1>13, <2>2, HoldersFacts DEF Holds, HoldOf
    <3>3. guards'[t][iter[t].guard] # None
      BY <1>10, <2>4, <3>2 DEF PinsStep, PinsOK, HoldsOK, HoldOK
    <3>4. QED
      BY <1>11, <3>1, <3>3 DEF PinEffect
  <2>7. QED
    BY <2>1, <2>2, <2>5, <2>6 DEF AheadSafe
<1>14. NewRefsSafe(t)
  BY <1>6, <1>12, <1>13 DEF NewRefsSafe
<1>15. OthersKept(t)
  BY <1>3, <1>6 DEF OthersKept, SameRun
<1>16. RunOK(t)' /\ OwnedBy(t)' = OwnedBy(t) /\ RetiredBy(t)' = RetiredBy(t)
  BY <1>1, <1>3 DEF RunOK, OwnedBy, RetiredBy
<1>17. QED
  BY <1>7, <1>11, <1>14, <1>15, <1>16, FrameTypes, QuietStep

LEMMA CloneEntryStep ==
  ASSUME IInv, NEW t \in Threads, CloneEntry(t)
  PROVE  ThreadEffect(t)
<1>1. PICK h \in HandleIds :
        /\ handles[t][h] # None /\ Duplicate(t, handles[t][h].guard, handles[t][h].kind)
        /\ handles' = [handles EXCEPT ![t][FreeHandle(t)] =
              [handles[t][h] EXCEPT !.guard = DuplicateOf(t, handles[t][h].guard, handles[t][h].kind)]]
  BY DEF CloneEntry
<1>2. /\ CanBegin(t) /\ run' = [run EXCEPT ![t].at = @ + 1]
      /\ UNCHANGED <<map, detached, mem, garbage, epoch, tls, user, iter, prog, hist>>
  BY DEF CloneEntry
<1>3. CallsTypeOK /\ RefsOK
  BY DEF IInv, HandlesTypeOK
<1>4. handles[t][h] \in Refs
  BY <1>1, <1>3 DEF CallsTypeOK
<1>5. PICK r : r = [handles[t][h] EXCEPT !.guard = DuplicateOf(t, handles[t][h].guard, handles[t][h].kind)]
  OBVIOUS
<1>6. /\ r.leaf = handles[t][h].leaf /\ r.entry = handles[t][h].entry /\ r.kind = handles[t][h].kind
      /\ r.guard = DuplicateOf(t, handles[t][h].guard, handles[t][h].kind)
      /\ r.leaf \in Addresses /\ r.entry \in Nat
      /\ r = [leaf |-> r.leaf, entry |-> r.entry, guard |-> r.guard, kind |-> r.kind]
  BY <1>4, <1>5 DEF Refs
<1>7. /\ h \in Holders /\ Holds(t)[h].guard = handles[t][h].guard
      /\ Holds(t)[h].kind = handles[t][h].kind /\ Holds(t)[h].guard # 0
  BY <1>1, <1>4, HeldByHandle, GuardsNotZero DEF Refs
<1>8. Safe(mem, garbage, local, r.leaf, r.entry, guards[t][Holds(t)[h].guard].local)
  BY <1>1, <1>3, <1>6, <1>7 DEF RefsOK, HandleSafe
<1>9. SameIterGuard(t) /\ iter' \in [Threads -> Iters \cup {None}]
  BY <1>2, <1>3 DEF SameIterGuard, CallsTypeOK
<1>10. handles' = [handles EXCEPT ![t][FreeHandle(t)] = r]
  BY <1>1, <1>5
<1>11. QED
  BY <1>1, <1>2, <1>6, <1>7, <1>8, <1>9, <1>10, CopyStep

LEMMA DropEntryStep ==
  ASSUME IInv, NEW t \in Threads, DropEntry(t)
  PROVE  ThreadEffect(t)
<1>1. PICK h \in HandleIds :
        /\ handles[t][h] # None /\ DropGuardHandle(t, handles[t][h].guard, handles[t][h].kind)
        /\ handles' = [handles EXCEPT ![t][h] = None]
  BY DEF DropEntry
<1>2. /\ run[t].pc = "idle"
      /\ UNCHANGED <<map, detached, mem, garbage, epoch, tls, user, iter, run, prog, hist>>
  BY DEF DropEntry
<1>3. /\ PinsTypeOK /\ CallsTypeOK /\ Holds(t) \in Holding /\ RunOK(t)
      /\ PinsOK(t, guards[t], user[t], Holds(t), local)
  BY MyPins
<1>4. /\ handles' \in [Threads -> [HandleIds -> Refs \cup {None}]] /\ handles'[t][h] = None
      /\ \A i \in HandleIds : i # h => handles'[t][i] = handles[t][i]
      /\ \A u \in Threads : u # t => handles'[u] = handles[u]
  BY <1>1, <1>3 DEF CallsTypeOK
<1>5. CallsTypeOK'
  BY <1>2, <1>3, <1>4 DEF CallsTypeOK
<1>6. HeldAt(h, NoHold, Holds(t)', Holds(t))
  BY <1>2, <1>3, <1>4, <1>5, HoldsHandlePut DEF SameIterGuard
<1>7. PinsStep(t, user'[t], Holds(t)')
  <2>1. h \in Holders /\ DropGuardHandle(t, Holds(t)[h].guard, Holds(t)[h].kind)
    BY <1>1, HeldByHandle
  <2>2. QED
    BY <1>2, <1>3, <1>6, <2>1, DropStep
<1>8. NewRefsSafe(t) /\ OthersKept(t)
  BY <1>2, <1>4 DEF NewRefsSafe, OthersKept, SameRun
<1>9. RunOK(t)' /\ OwnedBy(t)' = OwnedBy(t) /\ RetiredBy(t)' = RetiredBy(t)
  BY <1>2, <1>3 DEF RunOK, OwnedBy, RetiredBy
<1>10. QED
  BY <1>2, <1>5, <1>7, <1>8, <1>9, FrameTypes, QuietStep

LEMMA DropIterStep ==
  ASSUME IInv, NEW t \in Threads, DropIter(t)
  PROVE  ThreadEffect(t)
<1>1. /\ run[t].pc = "idle" /\ iter[t] # None /\ DropGuardHandle(t, iter[t].guard, iter[t].kind)
      /\ iter' = [iter EXCEPT ![t] = None]
      /\ UNCHANGED <<map, detached, mem, garbage, epoch, tls, user, handles, run, prog, hist>>
  BY DEF DropIter
<1>2. /\ PinsTypeOK /\ CallsTypeOK /\ Holds(t) \in Holding /\ RunOK(t)
      /\ PinsOK(t, guards[t], user[t], Holds(t), local)
  BY MyPins
<1>3. /\ iter' \in [Threads -> Iters \cup {None}] /\ iter'[t] = None
      /\ \A u \in Threads : u # t => iter'[u] = iter[u]
  BY <1>1, <1>2 DEF CallsTypeOK
<1>4. CallsTypeOK'
  BY <1>1, <1>2, <1>3 DEF CallsTypeOK
<1>5. HeldAt(0, NoHold, Holds(t)', Holds(t))
  BY <1>1, <1>2, <1>3, <1>4, HoldsIterPut
<1>6. PinsStep(t, user'[t], Holds(t)')
  <2>1. 0 \in Holders /\ DropGuardHandle(t, Holds(t)[0].guard, Holds(t)[0].kind)
    BY <1>1, HeldByIter
  <2>2. QED
    BY <1>1, <1>2, <1>5, <2>1, DropStep
<1>7. NewRefsSafe(t) /\ OthersKept(t)
  BY <1>1, <1>3 DEF NewRefsSafe, OthersKept, SameRun
<1>8. RunOK(t)' /\ OwnedBy(t)' = OwnedBy(t) /\ RetiredBy(t)' = RetiredBy(t)
  BY <1>1, <1>2 DEF RunOK, OwnedBy, RetiredBy
<1>9. QED
  BY <1>1, <1>4, <1>6, <1>7, <1>8, FrameTypes, QuietStep

LEMMA BeginIterStep ==
  ASSUME IInv, NEW t \in Threads, BeginIter(t)
  PROVE  ThreadEffect(t)
<1>1. /\ CanBegin(t) /\ iter[t] = None /\ run' = [run EXCEPT ![t].at = @ + 1] /\ run[t].pc = "idle"
      /\ UNCHANGED <<map, detached, mem, garbage, epoch, tls, user, handles, prog, hist>>
  BY DEF BeginIter, CanBegin
<1>2. /\ PinsTypeOK /\ CallsTypeOK /\ Holds(t) \in Holding /\ RunOK(t)
      /\ PinsOK(t, guards[t], user[t], Holds(t), local)
  BY MyPins
<1>3. \E g \in GuardIds, kind \in {"shared", "borrowed"} :
        /\ iter' = [iter EXCEPT ![t] = [guard |-> g, kind |-> kind, key |-> 0, batch |-> <<>>]]
        /\ \/ kind = "shared" /\ PinTagged(t) /\ g = FreeGuard(t)
           \/ kind = "borrowed" /\ UNCHANGED pins /\ g = user[t] /\ user[t] # 0
  BY <1>2, FreeGuardIsFree DEF BeginIter, PinTagged, PinsTypeOK
<1>4. PICK g \in GuardIds, kind \in {"shared", "borrowed"} :
        /\ iter' = [iter EXCEPT ![t] = [guard |-> g, kind |-> kind, key |-> 0, batch |-> <<>>]]
        /\ \/ kind = "shared" /\ PinTagged(t) /\ g = FreeGuard(t)
           \/ kind = "borrowed" /\ UNCHANGED pins /\ g = user[t] /\ user[t] # 0
  BY <1>3
<1>5. PICK i \in Iters : i = [guard |-> g, kind |-> kind, key |-> 0, batch |-> <<>>]
  <2>1. <<>> \in Seq(Ahead) /\ 0 \in Keys \cup {0}
    OBVIOUS
  <2>2. [guard |-> g, kind |-> kind, key |-> 0, batch |-> <<>>] \in Iters
    BY <2>1 DEF Iters
  <2>3. QED
    BY <2>2
<1>6. i # None /\ i.guard = g /\ i.kind = kind /\ i.batch = <<>>
  BY <1>5 DEF None
<1>7. /\ iter' \in [Threads -> Iters \cup {None}] /\ iter'[t] = i
      /\ \A u \in Threads : u # t => iter'[u] = iter[u]
  BY <1>2, <1>4, <1>5 DEF CallsTypeOK
<1>8. /\ run' \in [Threads -> Runs]
      /\ run'[t].pc = "idle" /\ run'[t].guard = run[t].guard /\ run'[t].kind = run[t].kind
      /\ \A u \in Threads : u # t => run'[u] = run[u]
  BY <1>1, CountCall
<1>9. CallsTypeOK'
  BY <1>1, <1>2, <1>7, <1>8 DEF CallsTypeOK
<1>10. HeldAt(0, [guard |-> g, kind |-> kind], Holds(t)', Holds(t))
  BY <1>1, <1>2, <1>6, <1>7, <1>8, <1>9, HoldsIterPut
<1>11. 0 \in Holders /\ Holds(t)[0].guard = 0
  BY <1>1, HoldersFacts DEF Holds, HoldOf, NoHold
<1>12. PinsStep(t, user'[t], Holds(t)')
  <2>1. CASE kind = "shared"
    BY <1>1, <1>2, <1>4, <1>10, <1>11, <2>1, PinHoldStep
  <2>2. CASE kind = "borrowed"
    BY <1>1, <1>2, <1>4, <1>10, <1>11, <2>2, BorrowStep
  <2>3. QED
    BY <2>1, <2>2
<1>13. NewRefsSafe(t)
  BY <1>1, <1>6, <1>7 DEF NewRefsSafe
<1>14. OthersKept(t)
  BY <1>1, <1>7, <1>8 DEF OthersKept, SameRun
<1>15. RunOK(t)' /\ OwnedBy(t)' = OwnedBy(t) /\ RetiredBy(t)' = RetiredBy(t)
  BY <1>1, <1>2, <1>8 DEF RunOK, OwnedBy, RetiredBy
<1>16. QED
  BY <1>1, <1>9, <1>12, <1>13, <1>14, <1>15, FrameTypes, QuietStep

LEMMA FillBatchStep ==
  ASSUME IInv, NEW t \in Threads, FillBatch(t)
  PROVE  ThreadEffect(t)
<1> DEFINE ahead == {k \in Keys : k > iter[t].key /\ map[k] # 0}
           n == Cardinality(ahead)
           Batch(ordered) == [i \in 1 .. n |->
                                [leaf |-> map[ordered[i]], entry |-> mem[map[ordered[i]]].entry]]
<1>1. /\ run[t].pc = "idle" /\ iter[t] # None
      /\ UNCHANGED <<map, detached, mem, garbage, epoch, pins, tls, user, handles, run, prog, hist>>
  BY DEF FillBatch
<1>2. PICK ordered \in [1 .. n -> ahead] : iter' = [iter EXCEPT ![t].batch = Batch(ordered)]
  BY DEF FillBatch
<1>3. /\ PinsTypeOK /\ CallsTypeOK /\ LeavesTypeOK /\ RunOK(t)
  BY MyPins
<1>4. n \in Nat
  <2>1. ahead \subseteq Keys /\ IsFiniteSet(Keys)
    BY HandlesAssumption
  <2> HIDE DEF ahead
  <2>2. IsFiniteSet(ahead)
    BY <2>1, FS_Subset
  <2>3. QED
    BY <2>2, FS_CardinalityType
<1> HIDE DEF n
<1>5. ASSUME NEW i \in 1 .. n
      PROVE  /\ map[ordered[i]] \in Addresses /\ mem[map[ordered[i]]].state = "linked"
             /\ \A g \in garbage : g.leaf # map[ordered[i]]
             /\ mem[map[ordered[i]]].entry \in Nat
  <2>1. PICK k \in Keys : k = ordered[i] /\ map[k] # 0
    OBVIOUS
  <2>2. PICK x \in Addresses : x = map[k]
    BY <1>3, <2>1 DEF LeavesTypeOK, Leaves
  <2>3. Slots[None][k] = x /\ None \in Trees
    BY <1>3, <2>2, SlotsType
  <2>4. mem[x].state = "linked" /\ \A g \in garbage : g.leaf # x
    BY <2>3, InTree
  <2>5. mem[x].entry \in Nat
    BY <1>3 DEF LeavesTypeOK, Memory
  <2>6. QED
    BY <2>1, <2>2, <2>4, <2>5
<1>6. PICK b : b = Batch(ordered)
  OBVIOUS
<1>7. /\ b \in Seq(Ahead) /\ DOMAIN b = 1 .. n
      /\ \A i \in 1 .. n : b[i].leaf = map[ordered[i]] /\ b[i].entry = mem[map[ordered[i]]].entry
  <2>1. \A i \in 1 .. n : b[i] \in Ahead
    BY <1>5, <1>6 DEF Ahead
  <2>2. b \in [1 .. n -> Ahead]
    BY <1>6, <2>1
  <2>3. b \in Seq(Ahead)
    BY <1>4, <2>2
  <2>4. \A i \in 1 .. n : b[i].leaf = map[ordered[i]] /\ b[i].entry = mem[map[ordered[i]]].entry
    BY <1>6
  <2>5. QED
    BY <2>2, <2>3, <2>4
<1>8. iter[t] \in Iters
  BY <1>1, <1>3 DEF CallsTypeOK
<1>9. PICK j \in Iters : j = [iter[t] EXCEPT !.batch = b]
  BY <1>7, <1>8 DEF Iters
<1>10. j # None /\ j.guard = iter[t].guard /\ j.kind = iter[t].kind /\ j.batch = b
  <2>1. j.guard = iter[t].guard /\ j.kind = iter[t].kind /\ j.batch = b
    BY <1>8, <1>9 DEF Iters
  <2>2. QED
    BY <2>1, IterNotNone
<1>11. /\ iter' \in [Threads -> Iters \cup {None}] /\ iter'[t] = j
       /\ \A u \in Threads : u # t => iter'[u] = iter[u]
  BY <1>2, <1>3, <1>6, <1>9 DEF CallsTypeOK
<1>12. CallsTypeOK'
  BY <1>1, <1>3, <1>11 DEF CallsTypeOK
<1>13. Holds(t)' = Holds(t)
  BY <1>1, <1>10, <1>11 DEF Holds, HoldOf
<1>14. PinsStep(t, user'[t], Holds(t)')
  BY <1>1, <1>13, PinsKept
<1>15. NewRefsSafe(t)
  <2>1. ASSUME NEW i \in DOMAIN b PROVE AheadSafe(t, i)'
    <3>1. i \in 1 .. n
      BY <1>7
    <3>2. /\ mem[b[i].leaf].state = "linked" /\ \A g \in garbage : g.leaf # b[i].leaf
          /\ mem[b[i].leaf].entry = b[i].entry
      BY <1>5, <1>7, <3>1
    <3>3. QED
      BY <1>1, <1>10, <1>11, <3>2 DEF AheadSafe, Safe
  <2>2. QED
    BY <1>1, <1>10, <1>11, <2>1 DEF NewRefsSafe
<1>16. OthersKept(t)
  BY <1>1, <1>11 DEF OthersKept, SameRun
<1>17. RunOK(t)' /\ OwnedBy(t)' = OwnedBy(t) /\ RetiredBy(t)' = RetiredBy(t)
  BY <1>1, <1>3 DEF RunOK, OwnedBy, RetiredBy
<1>18. QED
  BY <1>1, <1>12, <1>14, <1>15, <1>16, <1>17, FrameTypes, QuietStep

LEMMA NextEntryStep ==
  ASSUME IInv, NEW t \in Threads, NextEntry(t)
  PROVE  ThreadEffect(t)
<1> DEFINE b == iter[t].batch
           x == Head(b).leaf
           e == Head(b).entry
<1>1. /\ CanBegin(t) /\ iter[t] # None /\ b # <<>> /\ run' = [run EXCEPT ![t].at = @ + 1]
      /\ Duplicate(t, iter[t].guard, iter[t].kind)
      /\ handles' = [handles EXCEPT ![t][FreeHandle(t)] =
                       [leaf |-> x, entry |-> e, guard |-> iter[t].guard, kind |-> iter[t].kind]]
      /\ iter' = [iter EXCEPT ![t].batch = Tail(@), ![t].key = mem[x].key]
      /\ UNCHANGED <<map, detached, mem, garbage, epoch, tls, user, prog, hist>>
  BY DEF NextEntry
<1>2. CallsTypeOK /\ RefsOK /\ LeavesTypeOK
  BY DEF IInv, HandlesTypeOK
<1>3. iter[t] \in Iters
  BY <1>1, <1>2 DEF CallsTypeOK
<1>4. b \in Seq(Ahead) /\ iter[t].guard \in GuardIds /\ iter[t].kind \in {"shared", "borrowed"}
  BY <1>3 DEF Iters
<1>5. /\ Head(b) = b[1] /\ 1 \in DOMAIN b /\ Tail(b) \in Seq(Ahead)
      /\ \A i \in DOMAIN Tail(b) : i + 1 \in DOMAIN b /\ Tail(b)[i] = b[i + 1]
  BY <1>1, <1>4
<1>6. b[1] \in Ahead
  BY <1>4, <1>5
<1>7. x \in Addresses /\ e \in Nat
  BY <1>5, <1>6 DEF Ahead
<1> HIDE DEF x, e
<1>8. mem[x].key \in Keys \cup {0}
  BY <1>2, <1>7 DEF LeavesTypeOK, Memory
<1>9. /\ 0 \in Holders /\ Holds(t)[0].guard = iter[t].guard /\ Holds(t)[0].kind = iter[t].kind
      /\ Holds(t)[0].guard # 0
  BY <1>1, <1>4, HeldByIter, GuardsNotZero
<1>10. Safe(mem, garbage, local, x, e, guards[t][Holds(t)[0].guard].local)
  BY <1>1, <1>2, <1>5, <1>9 DEF RefsOK, AheadSafe, x, e
<1>11. PICK r : r = [leaf |-> x, entry |-> e, guard |-> iter[t].guard, kind |-> iter[t].kind]
  OBVIOUS
<1>12. /\ r.leaf = x /\ r.entry = e /\ r.guard = iter[t].guard /\ r.kind = iter[t].kind
       /\ r = [leaf |-> r.leaf, entry |-> r.entry, guard |-> r.guard, kind |-> r.kind]
       /\ handles' = [handles EXCEPT ![t][FreeHandle(t)] = r]
  BY <1>1, <1>11
<1>13. r.guard = DuplicateOf(t, Holds(t)[0].guard, Holds(t)[0].kind)
  BY <1>4, <1>9, <1>12 DEF DuplicateOf
<1>14. /\ iter' \in [Threads -> Iters \cup {None}] /\ \A u \in Threads : u # t => iter'[u] = iter[u]
       /\ iter'[t] \in Iters /\ iter'[t].guard = iter[t].guard /\ iter'[t].kind = iter[t].kind
       /\ iter'[t].batch = Tail(b)
  BY <1>1, <1>2, <1>3, <1>5, <1>8 DEF CallsTypeOK, Iters
<1>15. SameIterGuard(t)
  BY <1>1, <1>14, IterNotNone DEF SameIterGuard
<1>16. \A i \in DOMAIN iter'[t].batch : \E j \in DOMAIN b : iter'[t].batch[i] = b[j]
  BY <1>5, <1>14
<1>17. Duplicate(t, Holds(t)[0].guard, Holds(t)[0].kind)
  BY <1>1, <1>9
<1>18. r.leaf \in Addresses /\ r.entry \in Nat /\ r.kind = Holds(t)[0].kind
       /\ Safe(mem, garbage, local, r.leaf, r.entry, guards[t][Holds(t)[0].guard].local)
  BY <1>7, <1>9, <1>10, <1>12
<1>19. QED
  BY <1>1, <1>9, <1>12, <1>13, <1>14, <1>15, <1>16, <1>17, <1>18, CopyStep

-----------------------------------------------------------------------------
(* The steps that change the leaves *)

LEMMA LeafInTree ==
  ASSUME IInv, NEW t \in Threads, NEW k \in Keys
  PROVE  /\ LeafOf(t, k) \in Leaves
         /\ \E s \in Trees : Slots[s][k] = LeafOf(t, k)
<1>1. CallsTypeOK /\ LeavesTypeOK
  BY MyPins
<1>2. run[t].inside \in Threads \cup {None}
  BY <1>1 DEF CallsTypeOK, Runs
<1>3. /\ Slots[None] = map /\ None \in Trees /\ Threads \subseteq Trees
      /\ \A u \in Threads : Slots[u] = detached[u]
  BY <1>1, SlotsType
<1>4. CASE Inside(t, k)
  <2>1. run[t].inside \in Threads /\ LeafOf(t, k) = detached[run[t].inside][k] /\ LeafOf(t, k) # Obsolete
    BY <1>2, <1>4 DEF Inside, LeafOf
  <2>2. LeafOf(t, k) \in Leaves
    BY <1>1, <2>1 DEF LeavesTypeOK
  <2>3. QED
    BY <1>3, <2>1, <2>2
<1>5. CASE ~Inside(t, k)
  BY <1>1, <1>3, <1>5 DEF LeafOf, LeavesTypeOK
<1>6. QED
  BY <1>4, <1>5

\* A write puts x where it found the leaf of its key.
PutAt(t, k, x, s) ==
  /\ Slots[s][k] = LeafOf(t, k) /\ SlotPut(Slots', Slots, s, k, x)
  /\ map' \in [Keys -> Leaves] /\ detached' \in [Threads -> [Keys -> Leaves \cup {Obsolete}]]
  /\ StaysObsolete

LEMMA PutStep ==
  ASSUME IInv, NEW t \in Threads, NEW k \in Keys, NEW x \in Leaves, Put(t, k, x)
  PROVE  \E s \in Trees : PutAt(t, k, x, s)
<1>1. CallsTypeOK /\ LeavesTypeOK
  BY MyPins
<1>2. run[t].inside \in Threads \cup {None}
  BY <1>1 DEF CallsTypeOK, Runs
<1>3. /\ None \in Trees /\ Threads \subseteq Trees /\ None \notin Threads
      /\ \A s \in Trees : s # None => s \in Threads
  BY HandlesAssumption DEF Trees
<1>4. CASE Inside(t, k)
  <2>1. PICK s \in Threads : s = run[t].inside /\ detached[s][k] # Obsolete
    BY <1>2, <1>4 DEF Inside
  <2>2. detached' = [detached EXCEPT ![s][k] = x] /\ UNCHANGED map /\ LeafOf(t, k) = detached[s][k]
    BY <1>4, <2>1 DEF Put, LeafOf
  <2>3. /\ detached' \in [Threads -> [Keys -> Leaves \cup {Obsolete}]] /\ map' \in [Keys -> Leaves]
        /\ detached'[s][k] = x
        /\ \A u \in Threads, j \in Keys : u # s \/ j # k => detached'[u][j] = detached[u][j]
    BY <1>1, <2>2 DEF LeavesTypeOK
  <2>4. StaysObsolete
    BY <2>1, <2>3 DEF StaysObsolete
  <2>5. Slots' \in Slotting
    BY <2>3, HandlesAssumption DEF Slots, Slotting, Trees
  <2>6. Slots'[s][k] = x /\ \A r \in Trees, j \in Keys : r # s \/ j # k => Slots'[r][j] = Slots[r][j]
    BY <1>3, <2>2, <2>3 DEF Slots
  <2>7. Slots[s][k] = LeafOf(t, k)
    BY <1>3, <2>2 DEF Slots
  <2>8. PutAt(t, k, x, s)
    BY <2>3, <2>4, <2>5, <2>6, <2>7 DEF SlotPut, PutAt
  <2>9. QED
    BY <1>3, <2>8
<1>5. CASE ~Inside(t, k)
  <2>1. map' = [map EXCEPT ![k] = x] /\ UNCHANGED detached /\ LeafOf(t, k) = map[k]
    BY <1>5 DEF Put, LeafOf
  <2>2. /\ map' \in [Keys -> Leaves] /\ map'[k] = x /\ \A j \in Keys : j # k => map'[j] = map[j]
        /\ detached' \in [Threads -> [Keys -> Leaves \cup {Obsolete}]]
    BY <1>1, <2>1 DEF LeavesTypeOK
  <2>3. StaysObsolete
    BY <2>1 DEF StaysObsolete
  <2>4. Slots' \in Slotting
    BY <2>2, HandlesAssumption DEF Slots, Slotting, Trees
  <2>5. Slots'[None][k] = x /\ \A r \in Trees, j \in Keys : r # None \/ j # k => Slots'[r][j] = Slots[r][j]
    BY <1>3, <2>1, <2>2 DEF Slots
  <2>6. Slots[None][k] = LeafOf(t, k)
    BY <1>3, <2>1 DEF Slots
  <2>7. PutAt(t, k, x, None)
    BY <2>2, <2>3, <2>4, <2>5, <2>6 DEF SlotPut, PutAt
  <2>8. QED
    BY <1>3, <2>7
<1>6. QED
  BY <1>4, <1>5

\* A leaf that another thread has not published yet is left alone.
LEMMA OwnKeys ==
  ASSUME IInv, NEW t \in Threads,
         \A y \in Addresses : mem[y].state = "owned" /\ y # OwnedBy(t) => mem'[y].key = mem[y].key
  PROVE  KeysKept(t)
<1> SUFFICES ASSUME NEW u \in Threads, u # t, run[u].pc = "install"
             PROVE  mem'[run[u].own].key = mem[run[u].own].key
  BY DEF KeysKept
<1>1. CallsTypeOK /\ LeavesOK /\ RunOK(u)
  BY MyPins
<1>2. run[u].own \in Addresses /\ Owned[u] = run[u].own /\ Owned[t] = OwnedBy(t)
  BY <1>1 DEF RunOK, CallsTypeOK, Runs, Leaves, Owned, OwnedBy
<1>3. mem[run[u].own].state = "owned" /\ run[u].own # OwnedBy(t)
  BY <1>1, <1>2, NotAddresses DEF LeavesOK, LeavesInv, OwnedOK
<1>4. QED
  BY <1>2, <1>3

\* A call has unlinked the leaf x, and goes on to mark or to retire it.
LEMMA ToRetire ==
  ASSUME CallsTypeOK, NEW t \in Threads, NEW x \in Addresses, NEW pc \in {"mark", "retire"},
         run' = [run EXCEPT ![t].pc = pc, ![t].leaf = x]
  PROVE  /\ run' \in [Threads -> Runs] /\ run'[t].pc = pc /\ run'[t].leaf = x
         /\ run'[t].call = run[t].call /\ run'[t].guard = run[t].guard /\ run'[t].kind = run[t].kind
         /\ \A u \in Threads : u # t => run'[u] = run[u]
<1>1. run \in [Threads -> Runs]
  BY DEF CallsTypeOK
<1>2. PICK r : r = [run[t] EXCEPT !.pc = pc, !.leaf = x]
  OBVIOUS
<1>3. run' = [run EXCEPT ![t] = r]
  BY <1>1, <1>2
<1>4. /\ r \in Runs /\ r.pc = pc /\ r.leaf = x
      /\ r.call = run[t].call /\ r.guard = run[t].guard /\ r.kind = run[t].kind
  BY <1>1, <1>2, ZenonT(60) DEF Runs, Leaves
<1>5. run' \in [Threads -> Runs] /\ run'[t] = r /\ \A u \in Threads : u # t => run'[u] = run[u]
  BY <1>1, <1>3, <1>4
<1>6. QED
  BY <1>4, <1>5

\* Everything that the operations on leaves say about the leaves before a step.
LEMMA LeavesNow ==
  ASSUME IInv
  PROVE  /\ Slots \in Slotting /\ mem \in Memory /\ Owned \in Claims /\ Retiring \in Claims
         /\ garbage \in SUBSET Deferred /\ hist.made \in Nat /\ hist.taken \in Takes
         /\ LeavesInv(Slots, mem, Owned, Retiring, garbage, hist.made, hist.taken)
<1>1. LeavesTypeOK /\ CallsTypeOK /\ LeavesOK
  BY DEF IInv, HandlesTypeOK
<1>2. QED
  BY <1>1, SlotsType, ClaimsType DEF LeavesTypeOK, LeavesOK

LEMMA UnlinkNext ==
  ASSUME IInv, NEW t \in Threads, Retiring[t] = 0,
         NEW s \in Trees, NEW k \in Keys, NEW x \in Addresses, Slots[s][k] = x, NEW v \in {0, Obsolete},
         OnlyAt(x, mem', mem), mem'[x].state = "unlinked",
         SlotPut(Slots', Slots, s, k, v), ClaimPut(Retiring', Retiring, t, x),
         Owned' = Owned, UNCHANGED <<garbage, hist>>
  PROVE  LeavesOK'
<1>1. /\ Slots \in Slotting /\ mem \in Memory /\ Owned \in Claims /\ Retiring \in Claims
      /\ garbage \in SUBSET Deferred /\ hist.made \in Nat /\ hist.taken \in Takes
      /\ LeavesInv(Slots, mem, Owned, Retiring, garbage, hist.made, hist.taken)
  BY LeavesNow
<1>2. LeavesInv(Slots', mem', Owned, Retiring', garbage, hist.made, hist.taken)
  BY <1>1, UnlinkLeaves, ZenonT(60)
<1>3. QED
  BY <1>2, LeavesPrimed

\* A remove, an EntryRef::remove or a clear takes a leaf out.
LEMMA UnlinkStep ==
  ASSUME IInv, NEW t \in Threads, run[t].pc \in {"takeout", "entry", "sweep"},
         NEW s \in Trees, NEW k \in Keys, NEW x \in Addresses, Slots[s][k] = x, NEW v \in {0, Obsolete},
         SlotPut(Slots', Slots, s, k, v), map' \in [Keys -> Leaves],
         detached' \in [Threads -> [Keys -> Leaves \cup {Obsolete}]], StaysObsolete,
         UnlinkedAt(x, mem', mem), NEW pc \in {"mark", "retire"}, run[t].pc = "sweep" <=> pc = "retire",
         run' = [run EXCEPT ![t].pc = pc, ![t].leaf = x],
         UNCHANGED <<garbage, epoch, pins, tls, user, handles, iter, prog, hist>>
  PROVE  ThreadEffect(t)
<1>1. /\ CallsTypeOK /\ LeavesTypeOK /\ RunOK(t) /\ run[t] \in Runs
  BY MyPins
<1>2. /\ run' \in [Threads -> Runs] /\ run'[t].pc = pc /\ run'[t].leaf = x
      /\ run'[t].call = run[t].call /\ run'[t].guard = run[t].guard /\ run'[t].kind = run[t].kind
      /\ \A u \in Threads : u # t => run'[u] = run[u]
  BY <1>1, ToRetire
<1>3. CallsTypeOK' /\ Holds(t)' = Holds(t)
  BY <1>1, <1>2, HoldsSame DEF CallsTypeOK
<1>4. PinsStep(t, user'[t], Holds(t)')
  BY <1>3, PinsKept
<1>5. OthersKept(t) /\ NewRefsSafe(t)
  BY <1>2 DEF OthersKept, SameRun, NewRefsSafe
<1>6. OnlyAt(x, mem', mem) /\ mem'[x].state = "unlinked"
  <2>1. mem \in Memory
    BY <1>1 DEF LeavesTypeOK
  <2>2. QED
    BY <2>1, UnlinkedMemory
<1>7. LeavesTypeOK'
  BY <1>1, <1>6 DEF LeavesTypeOK, OnlyAt
<1>8. mem[x].state = "linked"
  BY InTree
<1>9. LeavesOK'
  <2>1. Retiring[t] = 0 /\ Owned[t] = 0 /\ OwnedBy(t)' = 0 /\ RetiredBy(t)' = x
    BY <1>2 DEF Retiring, Owned, OwnedBy, RetiredBy
  <2>2. ClaimPut(Owned', Owned, t, Owned[t]) /\ ClaimPut(Retiring', Retiring, t, x)
    BY <1>1, <1>3, <1>5, <2>1, ClaimsLift
  <2>3. Owned' = Owned
    BY <2>2, LeavesNow, ClaimSame
  <2>4. QED
    BY <1>6, <2>1, <2>2, <2>3, UnlinkNext
<1>10. MemEffect /\ KeysKept(t)
  <2>1. MemEffect
    BY <1>6, <1>8 DEF MemEffect, OnlyAt
  <2>2. \A y \in Addresses : mem'[y].key = mem[y].key
    BY <1>6 DEF OnlyAt
  <2>3. QED
    BY <2>1, <2>2, OwnKeys
<1>11. RunOK(t)'
  <2>1. /\ run[t].call \in Calls /\ HasHandle(t)
        /\ run[t].call.op \in {"remove", "clear", "entryRemove"}
        /\ run[t].guard = 0 <=> run[t].call.op = "entryRemove"
        /\ run[t].pc # "sweep" => \A j \in Keys : detached[t][j] = Obsolete
        /\ run[t].pc = "sweep" <=> run[t].call.op = "clear"
    BY <1>1 DEF RunOK
  <2>2. HasHandle(t)'
    BY <2>1 DEF HasHandle
  <2>3. x # 0
    BY NotAddresses
  <2>4. run[t].pc # "sweep" => \A j \in Keys : detached'[t][j] = Obsolete
    BY <2>1 DEF StaysObsolete
  <2>5. QED
    BY <1>2, <2>1, <2>2, <2>3, <2>4 DEF RunOK
<1>12. \A u \in Threads, j \in Keys : u # t /\ detached[u][j] = Obsolete => detached'[u][j] = Obsolete
  BY DEF StaysObsolete
<1>13. QED
  BY <1>3, <1>4, <1>5, <1>7, <1>9, <1>10, <1>11, <1>12, FrameTypes DEF ThreadEffect

LEMMA TakeOutStep ==
  ASSUME IInv, NEW t \in Threads, TakeOut(t)
  PROVE  ThreadEffect(t)
<1> DEFINE k == run[t].call.key
<1>1. /\ run[t].pc = "takeout"
      /\ \/ LeafOf(t, k) = 0 /\ End(t) /\ UNCHANGED <<map, detached, mem>>
         \/ /\ LeafOf(t, k) # 0 /\ Put(t, k, 0) /\ mem' = Unlinked(LeafOf(t, k))
            /\ run' = [run EXCEPT ![t].pc = "mark", ![t].leaf = LeafOf(t, k)]
            /\ UNCHANGED <<handles, pins>>
      /\ UNCHANGED <<garbage, epoch, tls, user, iter, prog, hist>>
  BY DEF TakeOut
<1>2. CallsTypeOK /\ RunOK(t)
  BY MyPins
<1>3. k \in Keys
  BY <1>1, <1>2 DEF RunOK, Calls
<1> HIDE DEF k
<1>4. CASE End(t) /\ UNCHANGED <<map, detached, mem>>
  <2>1. /\ CallsTypeOK' /\ OthersKept(t) /\ run'[t] = IdleAfter(run[t].at)
        /\ PinsStep(t, user'[t], Holds(t)') /\ NewRefsSafe(t)
    BY <1>1, <1>4, EndCall
  <2>2. \A j \in Keys : detached'[t][j] = Obsolete
    BY <1>1, <1>4, NotClearing
  <2>3. RunOK(t)' /\ OwnedBy(t)' = OwnedBy(t) /\ RetiredBy(t)' = RetiredBy(t)
    BY <1>1, <2>1, <2>2, IdleOK DEF OwnedBy, RetiredBy
  <2>4. QED
    BY <1>1, <1>4, <2>1, <2>3, FrameTypes, QuietStep
<1>5. CASE /\ LeafOf(t, k) # 0 /\ Put(t, k, 0) /\ mem' = Unlinked(LeafOf(t, k))
           /\ run' = [run EXCEPT ![t].pc = "mark", ![t].leaf = LeafOf(t, k)]
           /\ UNCHANGED <<handles, pins>>
  <2>1. PICK x \in Addresses : x = LeafOf(t, k)
    BY <1>3, <1>5, LeafInTree DEF Leaves
  <2>2. PICK s \in Trees : PutAt(t, k, 0, s)
    BY <1>3, <1>5, PutStep DEF Leaves
  <2>3. Slots[s][k] = x
    BY <2>1, <2>2 DEF PutAt
  <2>4. run' = [run EXCEPT ![t].pc = "mark", ![t].leaf = x] /\ UnlinkedAt(x, mem', mem)
    BY <1>5, <2>1 DEF Unlinked, UnlinkedAt
  <2>5. QED
    BY <1>1, <1>3, <1>5, <2>2, <2>3, <2>4, UnlinkStep DEF PutAt
<1>6. QED
  BY <1>1, <1>4, <1>5

\* EntryRef::remove has its handle, and so a leaf that was not freed.
LEMMA EntryLeaf ==
  ASSUME IInv, NEW t \in Threads, run[t].pc = "entry"
  PROVE  /\ handles[t][run[t].handle].leaf \in Addresses
         /\ mem[handles[t][run[t].handle].leaf].key \in Keys
<1>1. CallsTypeOK /\ RunOK(t) /\ LeavesOK /\ RefsOK
  BY MyPins DEF IInv
<1>2. PICK h \in HandleIds : h = run[t].handle /\ handles[t][h] # None
  BY <1>1 DEF RunOK, CallsTypeOK, Runs
<1>3. handles[t][h] \in Refs
  BY <1>1, <1>2 DEF CallsTypeOK
<1>4. PICK x \in Addresses : x = handles[t][h].leaf
  BY <1>3 DEF Refs
<1>5. mem[x].state # "free"
  BY <1>1, <1>2, <1>4 DEF RefsOK, HandleSafe, Safe
<1>6. mem[x].key \in Keys
  BY <1>1, <1>5 DEF LeavesOK, LeavesInv, EntriesOK
<1>7. QED
  BY <1>2, <1>4, <1>6

LEMMA EntryRemoveStep ==
  ASSUME IInv, NEW t \in Threads, EntryRemove(t)
  PROVE  ThreadEffect(t)
<1>1. run[t].pc = "entry" /\ UNCHANGED <<garbage, epoch, pins, tls, user, handles, iter, prog, hist>>
  BY DEF EntryRemove
<1>2. PICK x \in Addresses : x = handles[t][run[t].handle].leaf /\ mem[x].key \in Keys
  BY <1>1, EntryLeaf
<1>3. PICK k \in Keys : k = mem[x].key
  BY <1>2
<1>4. \/ run' = [run EXCEPT ![t] = IdleAfter(run[t].at)] /\ UNCHANGED <<map, detached, mem>>
      \/ /\ LeafOf(t, k) = x /\ Put(t, k, 0) /\ mem' = Unlinked(x)
         /\ run' = [run EXCEPT ![t].pc = "mark", ![t].leaf = x]
  BY <1>2, <1>3 DEF EntryRemove, IsEntry, Idle
<1>5. CallsTypeOK /\ RunOK(t) /\ run[t].at \in Nat /\ (run[t].guard = 0 <=> run[t].kind = "none")
  BY MyPins
<1>6. CASE run' = [run EXCEPT ![t] = IdleAfter(run[t].at)] /\ UNCHANGED <<map, detached, mem>>
  <2>1. /\ run'[t] = IdleAfter(run[t].at) /\ IdleAfter(run[t].at) \in Runs
        /\ run' \in [Threads -> Runs] /\ \A u \in Threads : u # t => run'[u] = run[u]
    BY <1>5, <1>6, IdleType DEF CallsTypeOK
  <2>2. run'[t].guard = run[t].guard /\ run'[t].kind = run[t].kind
    BY <1>1, <1>5, <2>1, IdleFields DEF RunOK
  <2>3. CallsTypeOK' /\ Holds(t)' = Holds(t)
    BY <1>1, <1>5, <2>1, <2>2, HoldsSame DEF CallsTypeOK
  <2>4. PinsStep(t, user'[t], Holds(t)')
    BY <1>1, <2>3, PinsKept
  <2>5. OthersKept(t) /\ NewRefsSafe(t)
    BY <1>1, <2>1 DEF OthersKept, SameRun, NewRefsSafe
  <2>6. \A j \in Keys : detached'[t][j] = Obsolete
    BY <1>1, <1>6, NotClearing
  <2>7. RunOK(t)' /\ OwnedBy(t)' = OwnedBy(t) /\ RetiredBy(t)' = RetiredBy(t)
    BY <1>1, <2>1, <2>6, IdleOK DEF OwnedBy, RetiredBy
  <2>8. QED
    BY <1>1, <1>6, <2>3, <2>4, <2>5, <2>7, FrameTypes, QuietStep
<1>7. CASE /\ LeafOf(t, k) = x /\ Put(t, k, 0) /\ mem' = Unlinked(x)
           /\ run' = [run EXCEPT ![t].pc = "mark", ![t].leaf = x]
  <2>1. PICK s \in Trees : PutAt(t, k, 0, s)
    BY <1>7, PutStep DEF Leaves
  <2>2. Slots[s][k] = x
    BY <1>7, <2>1 DEF PutAt
  <2>3. UnlinkedAt(x, mem', mem)
    BY <1>7 DEF Unlinked, UnlinkedAt
  <2>4. QED
    BY <1>1, <1>7, <2>1, <2>2, <2>3, UnlinkStep DEF PutAt
<1>8. QED
  BY <1>4, <1>6, <1>7

LEMMA SweepStep ==
  ASSUME IInv, NEW t \in Threads, Sweep(t)
  PROVE  ThreadEffect(t)
<1>1. run[t].pc = "sweep" /\ UNCHANGED <<map, garbage, epoch, tls, user, iter, prog, hist>>
  BY DEF Sweep
<1>2. \/ /\ \A k \in Keys : detached[t][k] = Obsolete
         /\ DropGuardHandle(t, run[t].guard, run[t].kind)
         /\ run' = [Outside(t) EXCEPT ![t] = IdleAfter(run[t].at)]
         /\ UNCHANGED <<handles, detached, mem>>
      \/ \E k \in Keys :
           /\ detached[t][k] # Obsolete /\ detached' = [detached EXCEPT ![t][k] = Obsolete]
           /\ \/ detached[t][k] = 0 /\ UNCHANGED <<mem, run>>
              \/ /\ detached[t][k] # 0 /\ UnlinkedAt(detached[t][k], mem', mem)
                 /\ run' = [run EXCEPT ![t].pc = "retire", ![t].leaf = detached[t][k]]
           /\ UNCHANGED <<handles, pins>>
  BY DEF Sweep, Idle, Swept, UnlinkedAt
<1>3. CallsTypeOK /\ LeavesTypeOK /\ RunOK(t) /\ run[t].at \in Nat
  BY MyPins
<1>4. CASE /\ \A k \in Keys : detached[t][k] = Obsolete
           /\ DropGuardHandle(t, run[t].guard, run[t].kind)
           /\ run' = [Outside(t) EXCEPT ![t] = IdleAfter(run[t].at)]
           /\ UNCHANGED <<handles, detached, mem>>
  <2>1. Outside(t) \in [Threads -> Runs]
    <3>1. run \in [Threads -> Runs]
      BY <1>3 DEF CallsTypeOK
    <3>2. \A r \in Runs : [r EXCEPT !.inside = None] \in Runs
      BY DEF Runs
    <3>3. QED
      BY <3>1, <3>2 DEF Outside
  <2>2. /\ run' \in [Threads -> Runs] /\ run'[t] = IdleAfter(run[t].at)
        /\ \A u \in Threads : u # t => run'[u] = Outside(t)[u]
    BY <1>3, <1>4, <2>1, IdleType
  <2>3. CallsTypeOK'
    BY <1>1, <1>3, <1>4, <2>2 DEF CallsTypeOK
  <2>4. PinsStep(t, user'[t], Holds(t)') /\ NewRefsSafe(t)
    BY <1>1, <1>4, <2>2, <2>3, EndStep
  <2>5. ASSUME NEW u \in Threads, u # t PROVE SameRun(u)
    <3>1. run[u] \in Runs
      BY <1>3 DEF CallsTypeOK
    <3>2. run'[u] = IF run[u].inside = t THEN [run[u] EXCEPT !.inside = None] ELSE run[u]
      BY <2>2, <2>5 DEF Outside
    <3>3. QED
      BY <3>1, <3>2 DEF SameRun, Runs
  <2>6. OthersKept(t)
    BY <1>1, <1>4, <2>5 DEF OthersKept
  <2>7. RunOK(t)' /\ OwnedBy(t)' = OwnedBy(t) /\ RetiredBy(t)' = RetiredBy(t)
    BY <1>1, <1>4, <2>2, IdleOK DEF OwnedBy, RetiredBy
  <2>8. QED
    BY <1>1, <1>4, <2>3, <2>4, <2>6, <2>7, FrameTypes, QuietStep
<1>5. ASSUME NEW k \in Keys, detached[t][k] # Obsolete, detached' = [detached EXCEPT ![t][k] = Obsolete]
      PROVE  /\ detached' \in [Threads -> [Keys -> Leaves \cup {Obsolete}]]
             /\ SlotPut(Slots', Slots, t, k, Obsolete) /\ StaysObsolete /\ t \in Trees
             /\ Slots[t][k] = detached[t][k] /\ detached[t][k] \in Leaves
             /\ \A u \in Threads : u # t => detached'[u] = detached[u]
  <2>1. /\ detached' \in [Threads -> [Keys -> Leaves \cup {Obsolete}]] /\ detached'[t][k] = Obsolete
        /\ \A u \in Threads, j \in Keys : u # t \/ j # k => detached'[u][j] = detached[u][j]
        /\ \A u \in Threads : u # t => detached'[u] = detached[u]
    BY <1>3, <1>5 DEF LeavesTypeOK
  <2>2. /\ t \in Trees /\ t # None /\ \A s \in Trees : s # None => s \in Threads
    BY HandlesAssumption DEF Trees
  <2>3. Slots' \in Slotting
    BY <1>1, <1>3, <2>1, HandlesAssumption DEF Slots, Slotting, Trees, LeavesTypeOK
  <2>4. /\ Slots'[t][k] = Obsolete /\ Slots[t][k] = detached[t][k]
        /\ \A r \in Trees, j \in Keys : r # t \/ j # k => Slots'[r][j] = Slots[r][j]
    BY <1>1, <2>1, <2>2 DEF Slots
  <2>5. SlotPut(Slots', Slots, t, k, Obsolete)
    BY <2>3, <2>4 DEF SlotPut
  <2>6. StaysObsolete
    BY <2>1 DEF StaysObsolete
  <2>7. detached[t][k] \in Leaves
    BY <1>3, <1>5 DEF LeavesTypeOK
  <2>8. QED
    BY <2>1, <2>2, <2>4, <2>5, <2>6, <2>7
<1>6. ASSUME NEW k \in Keys, detached[t][k] = 0, detached' = [detached EXCEPT ![t][k] = Obsolete],
             UNCHANGED <<mem, run, handles, pins>>
      PROVE  ThreadEffect(t)
  <2>1. /\ detached' \in [Threads -> [Keys -> Leaves \cup {Obsolete}]]
        /\ SlotPut(Slots', Slots, t, k, Obsolete) /\ StaysObsolete /\ t \in Trees /\ Slots[t][k] = 0
    BY <1>5, <1>6, NotAddresses
  <2>2. CallsTypeOK' /\ LeavesTypeOK' /\ Holds(t)' = Holds(t)
    BY <1>1, <1>3, <1>6, <2>1, HoldsSame DEF CallsTypeOK, LeavesTypeOK
  <2>3. PinsStep(t, user'[t], Holds(t)')
    BY <1>1, <1>6, <2>2, PinsKept
  <2>4. OthersKept(t) /\ NewRefsSafe(t) /\ MemEffect /\ KeysKept(t)
    BY <1>1, <1>6 DEF OthersKept, SameRun, NewRefsSafe, MemEffect, KeysKept
  <2>5. LeavesOK'
    <3>1. Owned' = Owned /\ Retiring' = Retiring
      BY <1>6 DEF Owned, Retiring
    <3>2. LeavesInv(Slots', mem, Owned, Retiring, garbage, hist.made, hist.taken)
      BY <2>1, LeavesNow, EmptyLeaves
    <3>3. QED
      BY <1>1, <1>6, <3>1, <3>2, LeavesPrimed
  <2>6. RunOK(t)'
    BY <1>1, <1>3, <1>6 DEF RunOK, HasHandle
  <2>7. \A u \in Threads, j \in Keys : u # t /\ detached[u][j] = Obsolete => detached'[u][j] = Obsolete
    BY <2>1 DEF StaysObsolete
  <2>8. QED
    BY <1>1, <2>2, <2>3, <2>4, <2>5, <2>6, <2>7, FrameTypes DEF ThreadEffect
<1>7. ASSUME NEW k \in Keys, detached[t][k] # Obsolete, detached[t][k] # 0,
             detached' = [detached EXCEPT ![t][k] = Obsolete],
             UnlinkedAt(detached[t][k], mem', mem),
             run' = [run EXCEPT ![t].pc = "retire", ![t].leaf = detached[t][k]],
             UNCHANGED <<handles, pins>>
      PROVE  ThreadEffect(t)
  <2>1. PICK x \in Addresses : x = detached[t][k]
    BY <1>5, <1>7 DEF Leaves
  <2>2. /\ detached' \in [Threads -> [Keys -> Leaves \cup {Obsolete}]]
        /\ SlotPut(Slots', Slots, t, k, Obsolete) /\ StaysObsolete /\ t \in Trees /\ Slots[t][k] = x
    BY <1>5, <1>7, <2>1
  <2>3. UnlinkedAt(x, mem', mem) /\ run' = [run EXCEPT ![t].pc = "retire", ![t].leaf = x]
    BY <1>7, <2>1
  <2>4. map' \in [Keys -> Leaves]
    BY <1>1, <1>3 DEF LeavesTypeOK
  <2>5. QED
    BY <1>1, <1>7, <2>2, <2>3, <2>4, UnlinkStep
<1>8. QED
  BY <1>2, <1>4, <1>6, <1>7

\* The mark is set on a leaf that this call has unlinked.
LEMMA MarkedLeaf ==
  ASSUME IInv, NEW t \in Threads, MarkRemoved(t)
  PROVE  /\ run[t].leaf \in Addresses /\ mem[run[t].leaf].state = "unlinked"
         /\ mem' \in Memory /\ mem'[run[t].leaf].removed = TRUE
         /\ \A y \in Addresses : y # run[t].leaf => mem'[y] = mem[y]
         /\ \A y \in Addresses : mem'[y].state = mem[y].state /\ mem'[y].key = mem[y].key /\ mem'[y].entry = mem[y].entry
<1>1. run[t].pc = "mark" /\ mem' = [mem EXCEPT ![run[t].leaf].removed = TRUE]
  BY Zenon DEF MarkRemoved, Marked
<1>2. CallsTypeOK /\ LeavesTypeOK /\ RunOK(t) /\ LeavesOK
  BY MyPins
<1>3. PICK x \in Addresses : x = run[t].leaf
  BY <1>1, <1>2 DEF RunOK, CallsTypeOK, Runs, Leaves
<1>4. Retiring[t] = x
  BY <1>1, <1>3 DEF Retiring
<1>5. mem[x].state = "unlinked"
  BY <1>2, <1>4, NotAddresses DEF LeavesOK, LeavesInv, UnlinkedOK
<1>6. mem \in Memory /\ mem' = [mem EXCEPT ![x].removed = TRUE]
  BY <1>1, <1>2, <1>3 DEF LeavesTypeOK
<1>7. /\ mem' \in Memory /\ mem'[x].removed = TRUE
      /\ \A y \in Addresses : y # x => mem'[y] = mem[y]
      /\ mem'[x].state = mem[x].state /\ mem'[x].key = mem[x].key /\ mem'[x].entry = mem[x].entry
  BY <1>6 DEF Memory
<1>8. QED
  BY <1>3, <1>5, <1>7

LEMMA MarkStep ==
  ASSUME IInv, NEW t \in Threads, MarkRemoved(t)
  PROVE  ThreadEffect(t)
<1>1. /\ run[t].pc = "mark" /\ run' = [run EXCEPT ![t].pc = "retire"]
      /\ UNCHANGED <<map, detached, garbage, epoch, pins, tls, user, handles, iter, prog, hist>>
  BY Zenon DEF MarkRemoved
<1>2. CallsTypeOK /\ LeavesTypeOK /\ RunOK(t)
  BY MyPins
<1>3. /\ run' \in [Threads -> Runs] /\ run'[t].pc = "retire" /\ run'[t].leaf = run[t].leaf
      /\ run'[t].call = run[t].call /\ run'[t].guard = run[t].guard /\ run'[t].kind = run[t].kind
      /\ \A u \in Threads : u # t => run'[u] = run[u]
  <2>1. run \in [Threads -> Runs]
    BY <1>2 DEF CallsTypeOK
  <2>2. PICK r : r = [run[t] EXCEPT !.pc = "retire"]
    OBVIOUS
  <2>3. /\ r \in Runs /\ r.pc = "retire" /\ r.leaf = run[t].leaf
        /\ r.call = run[t].call /\ r.guard = run[t].guard /\ r.kind = run[t].kind
    BY <2>1, <2>2 DEF Runs
  <2>4. run' = [run EXCEPT ![t] = r]
    BY <1>1, <2>1, <2>2
  <2>5. run' \in [Threads -> Runs] /\ run'[t] = r /\ \A u \in Threads : u # t => run'[u] = run[u]
    BY <2>1, <2>3, <2>4
  <2>6. QED
    BY <2>3, <2>5
<1>4. CallsTypeOK' /\ Holds(t)' = Holds(t)
  BY <1>1, <1>2, <1>3, HoldsSame DEF CallsTypeOK
<1>5. PinsStep(t, user'[t], Holds(t)')
  BY <1>1, <1>4, PinsKept
<1>6. OthersKept(t) /\ NewRefsSafe(t)
  BY <1>1, <1>3 DEF OthersKept, SameRun, NewRefsSafe
<1>7. /\ mem' \in Memory
      /\ \A y \in Addresses : mem'[y].state = mem[y].state /\ mem'[y].key = mem[y].key /\ mem'[y].entry = mem[y].entry
  BY MarkedLeaf
<1>8. LeavesTypeOK' /\ MemEffect /\ KeysKept(t)
  <2>1. LeavesTypeOK'
    BY <1>1, <1>2, <1>7 DEF LeavesTypeOK
  <2>2. MemEffect
    BY <1>1, <1>7 DEF MemEffect
  <2>3. QED
    BY <1>7, <2>1, <2>2, OwnKeys
<1>9. LeavesOK'
  <2>1. OwnedBy(t)' = OwnedBy(t) /\ RetiredBy(t)' = RetiredBy(t)
    BY <1>1, <1>3 DEF OwnedBy, RetiredBy
  <2>2. Owned' = Owned /\ Retiring' = Retiring /\ Slots' = Slots
    <3>1. Owned' = Owned /\ Retiring' = Retiring
      BY <1>2, <1>4, <1>6, <2>1, ClaimsType, ClaimsLift, ClaimSame
    <3>2. QED
      BY <1>1, <3>1 DEF Slots
  <2>3. LeavesInv(Slots, mem', Owned, Retiring, garbage, hist.made, hist.taken)
    BY <1>7, LeavesNow, MarkLeaves
  <2>4. QED
    BY <1>1, <2>2, <2>3, LeavesPrimed
<1>10. RunOK(t)'
  <2>1. \A j \in Keys : detached'[t][j] = Obsolete
    BY <1>1, NotClearing
  <2>2. HasHandle(t)'
    BY <1>1, <1>2 DEF RunOK, HasHandle
  <2>3. QED
    BY <1>1, <1>2, <1>3, <2>1, <2>2 DEF RunOK
<1>11. QED
  BY <1>1, <1>4, <1>5, <1>6, <1>8, <1>9, <1>10, FrameTypes DEF ThreadEffect

LEMMA AllocStep ==
  ASSUME IInv, NEW t \in Threads, Alloc(t)
  PROVE  ThreadEffect(t)
<1>1. /\ run[t].pc = "alloc" /\ hist.made < MaxEntries /\ FreeAddresses # {}
      /\ hist' = [hist EXCEPT !.made = @ + 1]
      /\ UNCHANGED <<map, detached, garbage, epoch, pins, tls, user, handles, iter, prog>>
  BY DEF Alloc
<1>2. PICK x \in Addresses : x = Min(FreeAddresses) /\ mem[x].state = "free"
  <2>1. FreeAddresses \in SUBSET Nat
    BY HandlesAssumption DEF FreeAddresses
  <2>2. Min(FreeAddresses) \in FreeAddresses
    BY <1>1, <2>1, MinIsLeast
  <2>3. QED
    BY <2>2 DEF FreeAddresses
<1>3. /\ PinsTypeOK /\ CallsTypeOK /\ LeavesTypeOK /\ RunOK(t) /\ run[t] \in Runs
  BY MyPins
<1>4. PICK k \in Keys : k = run[t].call.key
  BY <1>1, <1>3 DEF RunOK, Calls
<1>5. /\ AllocAt(mem', mem, x, k, hist.made + 1)
      /\ run' = [run EXCEPT ![t].own = x, ![t].pc = "install"]
  BY <1>2, <1>4 DEF Alloc, AllocAt
<1>6. /\ run' \in [Threads -> Runs] /\ run'[t].pc = "install" /\ run'[t].own = x
      /\ run'[t].call = run[t].call /\ run'[t].guard = run[t].guard /\ run'[t].kind = run[t].kind
      /\ \A u \in Threads : u # t => run'[u] = run[u]
  <2>1. run \in [Threads -> Runs]
    BY <1>3 DEF CallsTypeOK
  <2>2. PICK r : r = [run[t] EXCEPT !.own = x, !.pc = "install"]
    OBVIOUS
  <2>3. run' = [run EXCEPT ![t] = r]
    BY <1>5, <2>1, <2>2
  <2>4. /\ r \in Runs /\ r.pc = "install" /\ r.own = x
        /\ r.call = run[t].call /\ r.guard = run[t].guard /\ r.kind = run[t].kind
    BY <1>3, <2>2 DEF Runs, Leaves
  <2>5. run' \in [Threads -> Runs] /\ run'[t] = r /\ \A u \in Threads : u # t => run'[u] = run[u]
    BY <2>1, <2>3, <2>4
  <2>6. QED
    BY <2>4, <2>5
<1>7. CallsTypeOK' /\ Holds(t)' = Holds(t)
  BY <1>1, <1>3, <1>6, HoldsSame DEF CallsTypeOK
<1>8. PinsStep(t, user'[t], Holds(t)')
  BY <1>1, <1>7, PinsKept
<1>9. OthersKept(t) /\ NewRefsSafe(t)
  BY <1>1, <1>6 DEF OthersKept, SameRun, NewRefsSafe
<1>10. /\ hist' \in [made : Nat, taken : Takes, over : BOOLEAN] /\ hist'.made = hist.made + 1
       /\ hist'.taken = hist.taken /\ hist'.over = hist.over
  BY <1>1, <1>3 DEF LeavesTypeOK
<1>11. mem' \in Memory /\ LeavesOK'
  <2>1. Owned[t] = 0 /\ Retiring[t] = 0 /\ OwnedBy(t)' = x /\ RetiredBy(t)' = 0
    BY <1>1, <1>6 DEF Owned, Retiring, OwnedBy, RetiredBy
  <2>2. ClaimPut(Owned', Owned, t, x) /\ ClaimPut(Retiring', Retiring, t, Retiring[t])
    BY <1>3, <1>7, <1>9, <2>1, ClaimsLift
  <2>3. Retiring' = Retiring
    BY <2>2, LeavesNow, ClaimSame
  <2>4. Slots' = Slots
    BY <1>1 DEF Slots
  <2>5. mem' \in Memory /\ LeavesInv(Slots, mem', Owned', Retiring, garbage, hist.made + 1, hist.taken)
    BY <1>1, <1>2, <1>5, <2>1, <2>2, LeavesNow, AllocLeaves
  <2>6. QED
    BY <1>1, <1>10, <2>3, <2>4, <2>5, LeavesPrimed
<1>12. LeavesTypeOK'
  BY <1>1, <1>3, <1>10, <1>11 DEF LeavesTypeOK
<1>13. mem'[x].key = k /\ \A y \in Addresses : y # x => mem'[y] = mem[y]
  BY <1>3, <1>5 DEF AllocAt, LeavesTypeOK, Memory
<1>14. MemEffect /\ KeysKept(t)
  <2>1. MemEffect
    BY <1>1, <1>2, <1>13 DEF MemEffect
  <2>2. \A y \in Addresses : mem[y].state = "owned" => mem'[y].key = mem[y].key
    BY <1>2, <1>13
  <2>3. QED
    BY <2>1, <2>2, OwnKeys
<1>15. RunOK(t)'
  <2>1. /\ run[t].call \in Calls /\ run[t].call.op \in Writes /\ HasHandle(t)' /\ run[t].guard # 0
        /\ \A j \in Keys : detached'[t][j] = Obsolete
    BY <1>1, <1>3 DEF RunOK, HasHandle, Writes
  <2>2. x # 0
    BY NotAddresses
  <2>3. QED
    BY <1>4, <1>6, <1>13, <2>1, <2>2 DEF RunOK, Writes
<1>16. QED
  BY <1>1, <1>7, <1>8, <1>9, <1>10, <1>11, <1>12, <1>14, <1>15, FrameTypes DEF ThreadEffect

\* The Local of a call that has a guard has not fallen behind.
LEMMA CallPinned ==
  ASSUME IInv, NEW t \in Threads, run[t].guard # 0
  PROVE  local[guards[t][run[t].guard].local].epoch <= epoch
<1>1. -1 \in Holders /\ Holds(t)[-1].guard = run[t].guard
  BY HeldByRun
<1>2. PICK l \in Locals : l = guards[t][run[t].guard].local /\ local[l].pins > 0
  BY <1>1, HoldPinned
<1>3. QED
  BY <1>2 DEF IInv, EpochsOK

LEMMA RetireNext ==
  ASSUME IInv, NEW t \in Threads, NEW x \in Addresses, Retiring[t] = x, epoch \in Nat,
         ClaimPut(Retiring', Retiring, t, 0),
         RetiredAt(garbage', hist'.taken, garbage, hist.taken, mem, x, epoch)
  PROVE  /\ LeavesInv(Slots, mem, Owned, Retiring', garbage', hist.made, hist'.taken)
         /\ hist'.taken \in Takes /\ garbage' \subseteq Deferred
<1>1. /\ Slots \in Slotting /\ mem \in Memory /\ Owned \in Claims /\ Retiring \in Claims
      /\ garbage \in SUBSET Deferred /\ hist.made \in Nat /\ hist.taken \in Takes
      /\ LeavesInv(Slots, mem, Owned, Retiring, garbage, hist.made, hist.taken)
  BY LeavesNow
<1>2. PICK made, taken, G2, ret2, taken2 : /\ made = hist.made /\ taken = hist.taken
        /\ G2 = garbage' /\ ret2 = Retiring' /\ taken2 = hist'.taken
  OBVIOUS
<1>3. /\ made \in Nat /\ taken \in Takes /\ ClaimPut(ret2, Retiring, t, 0)
      /\ LeavesInv(Slots, mem, Owned, Retiring, garbage, made, taken)
      /\ RetiredAt(G2, taken2, garbage, taken, mem, x, epoch)
  BY <1>1, <1>2
<1>4. AfterRetire(Slots, mem, Owned, ret2, G2, made, taken2)
  BY <1>1, <1>3, RetireLeaves
<1>5. QED
  BY <1>2, <1>4 DEF AfterRetire

LEMMA RetireLeafStep ==
  ASSUME IInv, NEW t \in Threads, RetireLeaf(t)
  PROVE  ThreadEffect(t)
<1>1. /\ run[t].pc = "retire" /\ UNCHANGED <<map, detached, mem, epoch, tls, user, iter, prog>>
      /\ garbage' = garbage \cup {[leaf |-> run[t].leaf, entry |-> mem[run[t].leaf].entry, epoch |-> epoch]}
      /\ hist' = [hist EXCEPT !.taken[mem[run[t].leaf].entry] = @ + 1]
  BY DEF RetireLeaf
<1>2. /\ PinsTypeOK /\ CallsTypeOK /\ LeavesTypeOK /\ RunOK(t) /\ run[t] \in Runs
  BY MyPins
<1>3. PICK x \in Addresses : x = run[t].leaf
  BY <1>1, <1>2 DEF RunOK, Runs, Leaves
<1>4. \/ run[t].call.op \in {"insert", "remove"} /\ Give(t, x)
      \/ run[t].call.op = "clear" /\ run' = [run EXCEPT ![t].pc = "sweep"] /\ UNCHANGED <<handles, pins>>
      \/ run[t].call.op = "entryRemove" /\ End(t)
  BY <1>1, <1>2, <1>3 DEF RetireLeaf, RunOK
<1>5. /\ DeferredAt(garbage', garbage, x, mem[x].entry, epoch)
      /\ hist' = [hist EXCEPT !.taken[mem[x].entry] = @ + 1]
  BY <1>1, <1>3 DEF DeferredAt
<1>6. /\ TakenAt(hist'.taken, hist.taken, mem[x].entry) /\ hist'.made = hist.made /\ hist'.over = hist.over
      /\ hist' = [made |-> hist.made, taken |-> hist'.taken, over |-> hist.over]
  BY <1>2, <1>5 DEF LeavesTypeOK, TakenAt
<1>7. Retiring[t] = x /\ Owned[t] = 0
  BY <1>1, <1>3 DEF Retiring, Owned
<1>8. mem[x].state = "unlinked" /\ \A g \in garbage : g.leaf # x
  <2>1. UnlinkedOK(mem, Retiring, garbage)
    BY LeavesNow DEF LeavesInv
  <2>2. QED
    BY <1>7, <2>1, NotAddresses DEF UnlinkedOK
<1>9. MemEffect /\ KeysKept(t)
  BY <1>1, <1>2 DEF MemEffect, KeysKept, PinsTypeOK
<1>10. ASSUME CallsTypeOK', OthersKept(t), OwnedBy(t)' = 0, RetiredBy(t)' = 0
       PROVE  LeavesOK' /\ LeavesTypeOK'
  <2>1. ClaimPut(Owned', Owned, t, Owned[t]) /\ ClaimPut(Retiring', Retiring, t, 0)
    BY <1>2, <1>7, <1>10, ClaimsLift
  <2>2. Owned' = Owned
    BY <2>1, LeavesNow, ClaimSame
  <2>3. epoch \in Nat
    BY <1>2 DEF PinsTypeOK
  <2>4. /\ LeavesInv(Slots, mem, Owned, Retiring', garbage', hist.made, hist'.taken)
        /\ hist'.taken \in Takes /\ garbage' \subseteq Deferred
    BY <1>5, <1>6, <1>7, <2>1, <2>3, RetireNext DEF RetiredAt
  <2>5. Slots' = Slots
    BY <1>1 DEF Slots
  <2>6. LeavesOK'
    BY <1>1, <1>6, <2>2, <2>4, <2>5, LeavesPrimed
  <2>7. hist' \in [made : Nat, taken : Takes, over : BOOLEAN]
    <3>1. hist.made \in Nat /\ hist.over \in BOOLEAN
      BY <1>2 DEF LeavesTypeOK
    <3>2. QED
      BY <1>6, <2>4, <3>1
  <2>8. QED
    BY <1>1, <1>2, <2>4, <2>6, <2>7 DEF LeavesTypeOK
<1>11. CASE run[t].call.op = "clear" /\ run' = [run EXCEPT ![t].pc = "sweep"] /\ UNCHANGED <<handles, pins>>
  <2>1. /\ run' \in [Threads -> Runs] /\ run'[t].pc = "sweep" /\ run'[t].call = run[t].call
        /\ run'[t].guard = run[t].guard /\ run'[t].kind = run[t].kind
        /\ \A u \in Threads : u # t => run'[u] = run[u]
    BY <1>2, <1>11 DEF CallsTypeOK, Runs
  <2>2. CallsTypeOK' /\ Holds(t)' = Holds(t)
    BY <1>1, <1>2, <1>11, <2>1, HoldsSame DEF CallsTypeOK
  <2>3. PinsStep(t, user'[t], Holds(t)')
    BY <1>1, <1>11, <2>2, PinsKept
  <2>4. OthersKept(t) /\ NewRefsSafe(t)
    BY <1>1, <1>11, <2>1 DEF OthersKept, SameRun, NewRefsSafe
  <2>5. OwnedBy(t)' = 0 /\ RetiredBy(t)' = 0
    BY <2>1 DEF OwnedBy, RetiredBy
  <2>6. RunOK(t)'
    <3>1. run[t].call \in Calls /\ HasHandle(t)' /\ run[t].guard # 0
      BY <1>1, <1>2, <1>11 DEF RunOK, HasHandle
    <3>2. QED
      BY <1>11, <2>1, <3>1 DEF RunOK
  <2>7. QED
    BY <1>1, <1>6, <1>9, <1>10, <2>2, <2>3, <2>4, <2>5, <2>6, FrameTypes DEF ThreadEffect
<1>12. ASSUME run[t].call.op # "clear", CallsTypeOK', OthersKept(t), run'[t] = IdleAfter(run[t].at),
              PinsStep(t, user'[t], Holds(t)'), NewRefsSafe(t)
       PROVE  ThreadEffect(t)
  <2>1. \A j \in Keys : detached'[t][j] = Obsolete
    BY <1>1, <1>12, NotClearing
  <2>2. RunOK(t)' /\ OwnedBy(t)' = 0 /\ RetiredBy(t)' = 0
    BY <1>12, <2>1, IdleOK
  <2>3. QED
    BY <1>1, <1>6, <1>9, <1>10, <1>12, <2>2, FrameTypes DEF ThreadEffect
<1>13. CASE run[t].call.op = "entryRemove" /\ End(t)
  BY <1>1, <1>12, <1>13, EndCall
<1>14. CASE run[t].call.op \in {"insert", "remove"} /\ Give(t, x)
  <2>1. run[t].guard # 0
    BY <1>1, <1>2, <1>14 DEF RunOK
  <2>2. Safe(mem', garbage', local', x, mem[x].entry, guards[t][run[t].guard].local)
    <3>1. local' = local
      BY <1>14 DEF Give, pins
    <3>2. \A g \in garbage' : g.leaf = x => g.epoch = epoch
      BY <1>5, <1>8 DEF DeferredAt
    <3>3. local[guards[t][run[t].guard].local].epoch <= epoch
      BY <2>1, CallPinned
    <3>4. QED
      BY <1>1, <1>8, <3>1, <3>2, <3>3 DEF Safe
  <2>3. QED
    BY <1>1, <1>12, <1>14, <2>1, <2>2, GiveStep
<1>15. QED
  BY <1>4, <1>11, <1>13, <1>14

LEMMA SwapRootStep ==
  ASSUME IInv, NEW t \in Threads, SwapRoot(t)
  PROVE  ThreadEffect(t)
<1>1. /\ run[t].pc = "swap" /\ map' = [k \in Keys |-> 0]
      /\ detached' = [detached EXCEPT ![t] =
                        IF \A k \in Keys : map[k] = 0 THEN [k \in Keys |-> Obsolete] ELSE map]
      /\ UNCHANGED <<mem, garbage, epoch, pins, tls, user, handles, iter, prog, hist>>
  BY DEF SwapRoot
<1>2. PICK below \in SUBSET Threads :
        run' = [u \in Threads |->
                  IF u = t THEN [run[t] EXCEPT !.pc = "sweep"]
                  ELSE IF u \in below THEN [run[u] EXCEPT !.inside = t]
                  ELSE run[u]]
  BY DEF SwapRoot
<1>3. CallsTypeOK /\ LeavesTypeOK /\ RunOK(t) /\ run \in [Threads -> Runs]
  BY MyPins DEF CallsTypeOK
<1>4. \A r \in Runs : [r EXCEPT !.inside = t] \in Runs /\ [r EXCEPT !.pc = "sweep"] \in Runs
  BY DEF Runs
<1>5. run' \in [Threads -> Runs]
  BY <1>2, <1>3, <1>4
<1>6. /\ run'[t].pc = "sweep" /\ run'[t].call = run[t].call
      /\ run'[t].guard = run[t].guard /\ run'[t].kind = run[t].kind
  <2>1. run'[t] = [run[t] EXCEPT !.pc = "sweep"] /\ run[t] \in Runs
    BY <1>2, <1>3
  <2>2. QED
    BY <2>1 DEF Runs
<1>7. ASSUME NEW u \in Threads, u # t PROVE SameRun(u)
  <2>1. run[u] \in Runs /\ run'[u] = IF u \in below THEN [run[u] EXCEPT !.inside = t] ELSE run[u]
    BY <1>2, <1>3, <1>7
  <2>2. QED
    BY <2>1 DEF SameRun, Runs
<1>8. OthersKept(t) /\ NewRefsSafe(t)
  BY <1>1, <1>7 DEF OthersKept, NewRefsSafe
<1>9. CallsTypeOK' /\ Holds(t)' = Holds(t)
  BY <1>1, <1>3, <1>5, <1>6, HoldsSame DEF CallsTypeOK
<1>10. PinsStep(t, user'[t], Holds(t)')
  BY <1>1, <1>9, PinsKept
<1>11. MemEffect /\ KeysKept(t)
  BY <1>1 DEF MemEffect, KeysKept
<1>12. /\ detached' \in [Threads -> [Keys -> Leaves \cup {Obsolete}]] /\ map' \in [Keys -> Leaves]
       /\ \A u \in Threads : u # t => detached'[u] = detached[u]
       /\ \/ \A k \in Keys : detached'[t][k] = map[k]
          \/ \A k \in Keys : map[k] = 0 /\ detached'[t][k] = Obsolete
  <2>1. map' \in [Keys -> Leaves]
    BY <1>1 DEF Leaves
  <2>2. CASE \A k \in Keys : map[k] = 0
    BY <1>1, <1>3, <2>1, <2>2 DEF LeavesTypeOK
  <2>3. CASE ~\A k \in Keys : map[k] = 0
    <3>1. detached' = [detached EXCEPT ![t] = map] /\ map \in [Keys -> Leaves \cup {Obsolete}]
      BY <1>1, <1>3, <2>3 DEF LeavesTypeOK
    <3>2. QED
      BY <1>3, <2>1, <3>1 DEF LeavesTypeOK
  <2>4. QED
    BY <2>2, <2>3
<1>13. LeavesTypeOK'
  BY <1>1, <1>3, <1>12 DEF LeavesTypeOK
<1>14. LeavesOK'
  <2>1. OwnedBy(t)' = Owned[t] /\ RetiredBy(t)' = Retiring[t]
    BY <1>1, <1>6 DEF Owned, Retiring, OwnedBy, RetiredBy
  <2>2. Owned' = Owned /\ Retiring' = Retiring
    BY <1>3, <1>8, <1>9, <2>1, ClaimsLift, ClaimSame, LeavesNow
  <2>3. \A k \in Keys : detached[t][k] = Obsolete
    BY <1>1, NotClearing
  <2>4. /\ None \in Trees /\ Threads \subseteq Trees /\ None \notin Threads
        /\ \A s \in Trees : s # None => s \in Threads
    BY HandlesAssumption DEF Trees
  <2>5. /\ Slots \in Slotting /\ Slots[None] = map /\ \A u \in Threads : Slots[u] = detached[u]
    BY <1>3, SlotsType
  <2>6. /\ Slots' \in Slotting /\ Slots'[None] = map' /\ \A u \in Threads : Slots'[u] = detached'[u]
    BY <1>12, <2>4 DEF Slots, Slotting
  <2>7. LeavesInv(Slots', mem, Owned, Retiring, garbage, hist.made, hist.taken)
    <3>1. (\A k \in Keys : Slots[t][k] = Obsolete) /\ \A k \in Keys : Slots'[None][k] = 0
      BY <1>1, <2>3, <2>5, <2>6
    <3>2. \A s \in Trees : s # t /\ s # None => Slots'[s] = Slots[s]
      BY <1>12, <2>4, <2>5, <2>6
    <3>3. \/ \A k \in Keys : Slots'[t][k] = Slots[None][k]
          \/ \A k \in Keys : Slots[None][k] = 0 /\ Slots'[t][k] = Obsolete
      BY <1>12, <2>5, <2>6
    <3>4. QED
      BY <2>6, <3>1, <3>2, <3>3, LeavesNow, SwapLeaves
  <2>8. QED
    BY <1>1, <2>2, <2>7, LeavesPrimed
<1>15. RunOK(t)'
  <2>1. run[t].call \in Calls /\ HasHandle(t)' /\ run[t].guard # 0 /\ run[t].call.op = "clear"
    BY <1>1, <1>3 DEF RunOK, HasHandle
  <2>2. QED
    BY <1>6, <2>1 DEF RunOK
<1>16. QED
  BY <1>1, <1>8, <1>9, <1>10, <1>11, <1>12, <1>13, <1>14, <1>15, FrameTypes DEF ThreadEffect

-----------------------------------------------------------------------------
(* Install *)

\* The leaf that an insert has not published yet.
LEMMA OwnLeaf ==
  ASSUME IInv, NEW t \in Threads, run[t].pc = "install"
  PROVE  /\ run[t].own \in Addresses /\ Owned[t] = run[t].own /\ Retiring[t] = 0
         /\ mem[run[t].own].state = "owned" /\ mem[run[t].own].key = run[t].call.key
         /\ \A g \in garbage : g.leaf # run[t].own
<1>1. CallsTypeOK /\ RunOK(t) /\ run[t] \in Runs
  BY MyPins
<1>2. run[t].own \in Addresses /\ mem[run[t].own].key = run[t].call.key
  BY <1>1 DEF RunOK, Runs, Leaves
<1>3. Owned[t] = run[t].own /\ Retiring[t] = 0
  BY DEF Owned, Retiring
<1>4. OwnedOK(mem, Owned) /\ UnlinkedOK(mem, Retiring, garbage)
  BY LeavesNow DEF LeavesInv
<1>5. mem[run[t].own].state = "owned"
  BY <1>2, <1>3, <1>4, NotAddresses DEF OwnedOK
<1>6. \A g \in garbage : g.leaf # run[t].own
  BY <1>4, <1>5 DEF UnlinkedOK
<1>7. QED
  BY <1>2, <1>3, <1>5, <1>6

\* An insert displaces old.
LEMMA DisplaceNext ==
  ASSUME IInv, NEW t \in Threads, NEW s \in Trees, NEW k \in Keys,
         NEW x \in Addresses, Owned[t] = x, Retiring[t] = 0, mem[x].state = "owned", mem[x].key = k,
         NEW old \in Addresses, Slots[s][k] = old,
         NEW m1, UnlinkedAt(old, m1, mem), LinkedAt(x, mem', m1),
         SlotPut(Slots', Slots, s, k, x), ClaimPut(Owned', Owned, t, 0),
         ClaimPut(Retiring', Retiring, t, old), UNCHANGED <<garbage, hist>>
  PROVE  /\ LeavesOK' /\ mem' \in Memory /\ MemEffect
         /\ \A y \in Addresses : mem'[y].key = mem[y].key
<1>1. /\ Slots \in Slotting /\ mem \in Memory /\ Owned \in Claims /\ Retiring \in Claims
      /\ garbage \in SUBSET Deferred /\ hist.made \in Nat /\ hist.taken \in Takes
      /\ LeavesInv(Slots, mem, Owned, Retiring, garbage, hist.made, hist.taken)
  BY LeavesNow
<1>2. mem[old].state = "linked" /\ old # x
  BY InTree
<1>3. OnlyAt(old, m1, mem) /\ m1[old].state = "unlinked"
  BY <1>1, UnlinkedMemory
<1>4. m1 \in Memory
  BY <1>3 DEF OnlyAt
<1>5. OnlyAt(x, mem', m1) /\ mem'[x].state = "linked"
  BY <1>4, LinkedMemory
<1>6. PICK S1 : S1 = [Slots EXCEPT ![s][k] = 0]
  OBVIOUS
<1>7. S1 \in Slotting /\ SlotPut(S1, Slots, s, k, 0) /\ SlotPut(Slots', S1, s, k, x) /\ S1[s][k] = 0
  <2>1. S1 \in Slotting /\ S1[s][k] = 0
        /\ \A r \in Trees, j \in Keys : r # s \/ j # k => S1[r][j] = Slots[r][j]
    BY <1>1, <1>6 DEF Slotting, Leaves
  <2>2. QED
    BY <2>1 DEF SlotPut
<1>8. LeavesInv(S1, m1, Owned, Retiring', garbage, hist.made, hist.taken)
  BY <1>1, <1>3, <1>7, UnlinkLeaves
<1>9. m1[x].key = k /\ Retiring' \in Claims
  BY <1>2, <1>3 DEF OnlyAt, ClaimPut
<1>10. LeavesInv(Slots', mem', Owned', Retiring', garbage, hist.made, hist.taken)
  BY <1>1, <1>4, <1>5, <1>7, <1>8, <1>9, LinkLeaves
<1>11. LeavesOK'
  BY <1>10, LeavesPrimed
<1>12. \A y \in Addresses : mem'[y].key = mem[y].key /\ mem'[y].entry = mem[y].entry
  BY <1>3, <1>5 DEF OnlyAt
<1>13. MemEffect
  <2>1. \A y \in Addresses : y # x /\ y # old => mem'[y] = mem[y]
    BY <1>3, <1>5 DEF OnlyAt
  <2>2. mem'[old].state = "unlinked"
    BY <1>2, <1>3, <1>5 DEF OnlyAt
  <2>3. QED
    BY <1>5, <1>12, <2>1, <2>2 DEF MemEffect
<1>14. QED
  BY <1>5, <1>11, <1>12, <1>13 DEF OnlyAt

\* An insert fills an empty slot.
LEMMA LinkNext ==
  ASSUME IInv, NEW t \in Threads, NEW s \in Trees, NEW k \in Keys, Slots[s][k] = 0,
         NEW x \in Addresses, Owned[t] = x, mem[x].state = "owned", mem[x].key = k,
         LinkedAt(x, mem', mem), SlotPut(Slots', Slots, s, k, x), ClaimPut(Owned', Owned, t, 0),
         Retiring' = Retiring, UNCHANGED <<garbage, hist>>
  PROVE  /\ LeavesOK' /\ mem' \in Memory /\ MemEffect
         /\ mem'[x].state = "linked" /\ mem'[x].entry = mem[x].entry
         /\ \A y \in Addresses : mem'[y].key = mem[y].key
<1>1. /\ Slots \in Slotting /\ mem \in Memory /\ Owned \in Claims /\ Retiring \in Claims
      /\ garbage \in SUBSET Deferred /\ hist.made \in Nat /\ hist.taken \in Takes
      /\ LeavesInv(Slots, mem, Owned, Retiring, garbage, hist.made, hist.taken)
  BY LeavesNow
<1>2. OnlyAt(x, mem', mem) /\ mem'[x].state = "linked"
  BY <1>1, LinkedMemory
<1>3. LeavesInv(Slots', mem', Owned', Retiring, garbage, hist.made, hist.taken)
  BY <1>1, <1>2, LinkLeaves
<1>4. LeavesOK'
  BY <1>3, LeavesPrimed
<1>5. MemEffect
  BY <1>2 DEF MemEffect, OnlyAt
<1>6. QED
  BY <1>2, <1>4, <1>5 DEF OnlyAt

\* An insert finds its key taken, and drops its leaf.
LEMMA DropNext ==
  ASSUME IInv, NEW t \in Threads, NEW x \in Addresses, Owned[t] = x, mem[x].state = "owned",
         mem' = Dropped(x), ClaimPut(Owned', Owned, t, 0), Slots' = Slots,
         Retiring' = Retiring, UNCHANGED <<garbage, hist>>
  PROVE  /\ LeavesOK' /\ mem' \in Memory /\ MemEffect
         /\ \A y \in Addresses : y # x => mem'[y] = mem[y]
<1>1. /\ Slots \in Slotting /\ mem \in Memory /\ Owned \in Claims /\ Retiring \in Claims
      /\ garbage \in SUBSET Deferred /\ hist.made \in Nat /\ hist.taken \in Takes
      /\ LeavesInv(Slots, mem, Owned, Retiring, garbage, hist.made, hist.taken)
  BY LeavesNow
<1>2. FreedAt({x}, mem', mem)
  <2>1. mem' \in Memory
    BY <1>1 DEF Dropped, Memory, Free
  <2>2. \A y \in Addresses : mem'[y] = IF y \in {x} THEN Free ELSE mem[y]
    BY <1>1 DEF Dropped, Memory
  <2>3. QED
    BY <2>1, <2>2 DEF FreedAt
<1>3. LeavesInv(Slots, mem', Owned', Retiring, garbage, hist.made, hist.taken)
  BY <1>1, <1>2, DropLeaves
<1>4. LeavesOK'
  BY <1>3, LeavesPrimed
<1>5. MemEffect
  BY <1>2 DEF MemEffect, FreedAt
<1>6. QED
  BY <1>2, <1>4, <1>5 DEF FreedAt

\* What the three outcomes of an insert have in common once its leaf is placed.
InstallFrame(t) ==
  /\ UNCHANGED <<garbage, epoch, tls, user, iter, prog, hist>>
  /\ map' \in [Keys -> Leaves] /\ detached' \in [Threads -> [Keys -> Leaves \cup {Obsolete}]]
  /\ StaysObsolete

LEMMA InstallFrameEffect ==
  ASSUME IInv, NEW t \in Threads, run[t].pc = "install", InstallFrame(t), LeavesOK', mem' \in Memory,
         MemEffect, \A y \in Addresses : mem[y].state = "owned" /\ y # run[t].own => mem'[y].key = mem[y].key,
         CallsTypeOK', OthersKept(t), RunOK(t)', PinsStep(t, user'[t], Holds(t)'), NewRefsSafe(t)
  PROVE  ThreadEffect(t)
<1>1. LeavesTypeOK
  BY MyPins
<1>2. LeavesTypeOK'
  BY <1>1 DEF LeavesTypeOK, InstallFrame
<1>3. KeysKept(t)
  BY OwnKeys DEF OwnedBy
<1>4. QED
  BY <1>2, <1>3, FrameTypes DEF ThreadEffect, InstallFrame, StaysObsolete

\* The call of an insert ends with or without a handle.
LEMMA InstallEnds ==
  ASSUME IInv, NEW t \in Threads, run[t].pc = "install", InstallFrame(t), LeavesOK', mem' \in Memory,
         MemEffect, \A y \in Addresses : mem[y].state = "owned" /\ y # run[t].own => mem'[y].key = mem[y].key,
         NEW x \in Addresses, Give(t, x) \/ End(t),
         mem'[x].state = "linked", mem'[x].entry = mem[x].entry, \A g \in garbage : g.leaf # x
  PROVE  ThreadEffect(t)
<1>1. RunOK(t) /\ UNCHANGED <<iter, user, prog, garbage>>
  BY MyPins DEF InstallFrame
<1>2. run[t].guard # 0
  BY <1>1 DEF RunOK, Writes
<1>3. Safe(mem', garbage', local', x, mem[x].entry, guards[t][run[t].guard].local)
  BY <1>1 DEF Safe
<1>4. /\ CallsTypeOK' /\ OthersKept(t) /\ run'[t] = IdleAfter(run[t].at)
      /\ PinsStep(t, user'[t], Holds(t)') /\ NewRefsSafe(t)
  <2>1. CASE Give(t, x)
    BY <1>1, <1>2, <1>3, <2>1, GiveStep
  <2>2. CASE End(t)
    BY <1>1, <2>2, EndCall
  <2>3. QED
    BY <2>1, <2>2
<1>5. \A j \in Keys : detached'[t][j] = Obsolete
  BY NotClearing DEF InstallFrame, StaysObsolete
<1>6. RunOK(t)'
  BY <1>4, <1>5, IdleOK
<1>7. QED
  BY <1>4, <1>6, InstallFrameEffect

\* The claims of t after its insert has placed its leaf and ended.
LEMMA InstallClaims ==
  ASSUME IInv, NEW t \in Threads, run[t].pc = "install", NEW x, Give(t, x) \/ End(t),
         UNCHANGED <<iter, user, prog>>
  PROVE  ClaimPut(Owned', Owned, t, 0) /\ Retiring' = Retiring
<1>1. CallsTypeOK /\ run[t].at \in Nat /\ run \in [Threads -> Runs]
  BY MyPins DEF CallsTypeOK
<1>2. run' = [run EXCEPT ![t] = IdleAfter(run[t].at)]
  BY DEF Give, End, Idle
<1>3. /\ run'[t] = IdleAfter(run[t].at) /\ \A u \in Threads : u # t => run'[u] = run[u]
      /\ run' \in [Threads -> Runs]
  BY <1>1, <1>2, IdleType
<1>4. run'[t].pc = "idle"
  BY <1>3, IdleFields
<1>5. /\ Owned' \in Claims /\ Owned'[t] = 0 /\ \A u \in Threads : u # t => Owned'[u] = Owned[u]
  BY <1>3, <1>4 DEF Owned, Claims, Runs, Leaves
<1>6. Retiring' = Retiring
  BY <1>3, <1>4 DEF Retiring
<1>7. QED
  BY <1>5, <1>6 DEF ClaimPut

LEMMA InstallStep ==
  ASSUME IInv, NEW t \in Threads, Install(t)
  PROVE  ThreadEffect(t)
<1>1. run[t].pc = "install" /\ UNCHANGED <<garbage, epoch, tls, user, iter, prog, hist>>
  BY DEF Install
<1>2. CallsTypeOK /\ LeavesTypeOK /\ RunOK(t) /\ run[t] \in Runs
  BY MyPins
<1>3. PICK k \in Keys : k = run[t].call.key
  BY <1>1, <1>2 DEF RunOK, Calls
<1>4. PICK x \in Addresses : x = run[t].own
  BY <1>1, OwnLeaf
<1>5. /\ Owned[t] = x /\ Retiring[t] = 0 /\ mem[x].state = "owned" /\ mem[x].key = k
      /\ \A g \in garbage : g.leaf # x
  BY <1>1, <1>3, <1>4, OwnLeaf
<1>6. PICK old \in Leaves : old = LeafOf(t, k)
  BY LeafInTree
<1>7. \/ /\ run[t].call.op = "insert" /\ old # 0 /\ Put(t, k, x)
         /\ mem' = [Unlinked(old) EXCEPT ![x].state = "linked"]
         /\ run' = [run EXCEPT ![t].pc = "mark", ![t].leaf = old]
         /\ UNCHANGED <<handles, pins>>
      \/ /\ old = 0 /\ Put(t, k, x) /\ mem' = [mem EXCEPT ![x].state = "linked"]
         /\ Give(t, x) \/ End(t)
      \/ /\ old # 0 /\ mem' = Dropped(x) /\ UNCHANGED <<map, detached>>
         /\ Give(t, old) \/ End(t)
  BY <1>3, <1>4, <1>6 DEF Install
<1>8. CASE /\ run[t].call.op = "insert" /\ old # 0 /\ Put(t, k, x)
           /\ mem' = [Unlinked(old) EXCEPT ![x].state = "linked"]
           /\ run' = [run EXCEPT ![t].pc = "mark", ![t].leaf = old]
           /\ UNCHANGED <<handles, pins>>
  <2>1. old \in Addresses
    BY <1>8 DEF Leaves
  <2>2. PICK s \in Trees : PutAt(t, k, x, s)
    BY <1>8, PutStep DEF Leaves
  <2>3. Slots[s][k] = old /\ SlotPut(Slots', Slots, s, k, x) /\ InstallFrame(t)
    BY <1>1, <1>6, <2>2 DEF PutAt, InstallFrame
  <2>4. /\ run' \in [Threads -> Runs] /\ run'[t].pc = "mark" /\ run'[t].leaf = old
        /\ run'[t].call = run[t].call /\ run'[t].guard = run[t].guard /\ run'[t].kind = run[t].kind
        /\ \A u \in Threads : u # t => run'[u] = run[u]
    BY <1>2, <1>8, <2>1, ToRetire
  <2>5. CallsTypeOK' /\ Holds(t)' = Holds(t)
    BY <1>1, <1>2, <1>8, <2>4, HoldsSame DEF CallsTypeOK
  <2>6. PinsStep(t, user'[t], Holds(t)')
    BY <1>1, <1>8, <2>5, PinsKept
  <2>7. OthersKept(t) /\ NewRefsSafe(t)
    BY <1>1, <1>8, <2>4 DEF OthersKept, SameRun, NewRefsSafe
  <2>8. OwnedBy(t)' = 0 /\ RetiredBy(t)' = old
    BY <2>4 DEF OwnedBy, RetiredBy
  <2>9. ClaimPut(Owned', Owned, t, 0) /\ ClaimPut(Retiring', Retiring, t, old)
    BY <1>2, <2>5, <2>7, <2>8, ClaimsLift
  <2>10. UnlinkedAt(old, Unlinked(old), mem) /\ LinkedAt(x, mem', Unlinked(old))
    BY <1>8 DEF UnlinkedAt, LinkedAt, Unlinked
  <2>11. /\ LeavesOK' /\ mem' \in Memory /\ MemEffect
         /\ \A y \in Addresses : mem'[y].key = mem[y].key
    BY <1>1, <1>5, <2>1, <2>3, <2>9, <2>10, DisplaceNext
  <2>12. RunOK(t)'
    <3>1. /\ run[t].call \in Calls /\ HasHandle(t)' /\ run[t].guard # 0
          /\ \A j \in Keys : detached'[t][j] = Obsolete
      <4>1. \A j \in Keys : detached'[t][j] = Obsolete
        BY <1>1, <2>3, NotClearing DEF InstallFrame, StaysObsolete
      <4>2. run[t].call \in Calls /\ HasHandle(t)' /\ run[t].guard # 0
        BY <1>1, <1>2, <1>8 DEF RunOK, HasHandle
      <4>3. QED
        BY <4>1, <4>2
    <3>2. QED
      BY <1>8, <2>4, <3>1 DEF RunOK
  <2>13. QED
    BY <1>1, <2>3, <2>5, <2>6, <2>7, <2>11, <2>12, InstallFrameEffect
<1>9. CASE /\ old = 0 /\ Put(t, k, x) /\ mem' = [mem EXCEPT ![x].state = "linked"]
           /\ Give(t, x) \/ End(t)
  <2>1. PICK s \in Trees : PutAt(t, k, x, s)
    BY <1>9, PutStep DEF Leaves
  <2>2. Slots[s][k] = 0 /\ SlotPut(Slots', Slots, s, k, x) /\ InstallFrame(t)
    BY <1>1, <1>6, <1>9, <2>1 DEF PutAt, InstallFrame
  <2>3. ClaimPut(Owned', Owned, t, 0) /\ Retiring' = Retiring
    BY <1>1, <1>9, InstallClaims
  <2>4. LinkedAt(x, mem', mem)
    BY <1>9 DEF LinkedAt
  <2>5. /\ LeavesOK' /\ mem' \in Memory /\ MemEffect
        /\ mem'[x].state = "linked" /\ mem'[x].entry = mem[x].entry
        /\ \A y \in Addresses : mem'[y].key = mem[y].key
    BY <1>1, <1>5, <2>2, <2>3, <2>4, LinkNext
  <2>6. QED
    BY <1>1, <1>5, <1>9, <2>2, <2>5, InstallEnds
<1>10. CASE /\ old # 0 /\ mem' = Dropped(x) /\ UNCHANGED <<map, detached>>
            /\ Give(t, old) \/ End(t)
  <2>1. old \in Addresses
    BY <1>10 DEF Leaves
  <2>2. PICK s \in Trees : Slots[s][k] = old
    BY <1>6, LeafInTree
  <2>3. mem[old].state = "linked" /\ \A g \in garbage : g.leaf # old
    BY <2>1, <2>2, InTree
  <2>4. ClaimPut(Owned', Owned, t, 0) /\ Retiring' = Retiring
    BY <1>1, <1>10, InstallClaims
  <2>5. Slots' = Slots /\ InstallFrame(t)
    BY <1>1, <1>2, <1>10 DEF Slots, InstallFrame, LeavesTypeOK, StaysObsolete
  <2>6. /\ LeavesOK' /\ mem' \in Memory /\ MemEffect
        /\ \A y \in Addresses : y # x => mem'[y] = mem[y]
    BY <1>1, <1>5, <1>10, <2>4, <2>5, DropNext
  <2>7. old # x
    BY <1>5, <2>3
  <2>8. mem'[old].state = "linked" /\ mem'[old].entry = mem[old].entry
    BY <2>1, <2>3, <2>6, <2>7
  <2>9. QED
    BY <1>1, <1>4, <1>10, <2>1, <2>3, <2>5, <2>6, <2>8, InstallEnds
<1>11. QED
  BY <1>7, <1>8, <1>9, <1>10

-----------------------------------------------------------------------------
(* Guard::repin *)

\* A Guard that is alone on its Local and not borrowed protects no leaf.
LEMMA NobodyElse ==
  ASSUME IInv, NEW t \in Threads, user[t] # 0, ~Borrowed(t, user[t]), NEW l \in Locals,
         guards[t][user[t]].local = l, local[l].pins = 1,
         NEW u \in Threads, NEW c \in Holders, Holds(u)[c].guard # 0
  PROVE  guards[u][Holds(u)[c].guard].local # l
<1> SUFFICES ASSUME guards[u][Holds(u)[c].guard].local = l PROVE FALSE
  OBVIOUS
<1>1. /\ PinsTypeOK /\ CallsTypeOK /\ PinsOK(t, guards[t], user[t], Holds(t), local)
      /\ PinsOK(u, guards[u], user[u], Holds(u), local)
  BY MyPins
<1>2. guards[t][user[t]] # None /\ user[t] \in GuardIds
  BY <1>1 DEF PinsOK, AllHeld, PinsTypeOK
<1>3. PICK n \in LocalIds : l = <<t, n>>
  BY <1>1, <1>2 DEF PinsOK, TagsOK
<1>4. PICK g \in GuardIds : g = Holds(u)[c].guard /\ guards[u][g] # None
  BY HoldPinned
<1>5. PICK m \in LocalIds : l = <<u, m>>
  BY <1>1, <1>4 DEF PinsOK, TagsOK
<1>6. u = t
  BY <1>3, <1>5
<1>7. Cardinality(On(guards[t], l)) = 1 /\ IsFiniteSet(On(guards[t], l))
  BY <1>1, <1>3, OnFinite DEF PinsOK, PinsCounted
<1>8. g \in On(guards[t], l) /\ user[t] \in On(guards[t], l)
  BY <1>2, <1>4, <1>6 DEF On
<1>9. g = user[t]
  <2> DEFINE S == On(guards[t], l)
  <2> HIDE DEF S
  <2>1. \E x : S = {x}
    BY <1>7, FS_Singleton DEF S
  <2>2. QED
    BY <1>8, <2>1 DEF S
<1>10. \A i \in Holders : Holds(t)[i].guard # user[t]
  BY HoldersFacts DEF Holds, HoldOf, Borrowed, NoHold
<1>11. QED
  BY <1>4, <1>6, <1>9, <1>10

LEMMA RepinStep ==
  ASSUME IInv, ~hist.over, NEW t \in Threads, Repin(t)
  PROVE  IInv'
<1>1. /\ CanBegin(t) /\ user[t] # 0 /\ ~Borrowed(t, user[t]) /\ run[t].pc = "idle"
      /\ local' = Repinned(guards[t][user[t]].local) /\ run' = [run EXCEPT ![t].at = @ + 1]
      /\ UNCHANGED <<map, detached, mem, garbage, epoch, guards, tls, user, handles, iter, prog, hist>>
  BY DEF Repin, CanBegin
<1>2. /\ PinsTypeOK /\ CallsTypeOK /\ LeavesTypeOK /\ LeavesOK /\ RunOK(t)
      /\ PinsOK(t, guards[t], user[t], Holds(t), local)
      /\ RunsOK /\ GuardsOK /\ EpochsOK /\ RefsOK
  BY MyPins DEF IInv
<1>3. /\ run' \in [Threads -> Runs]
      /\ run'[t].pc = "idle" /\ run'[t].guard = run[t].guard /\ run'[t].kind = run[t].kind
      /\ \A u \in Threads : u # t => run'[u] = run[u]
  BY <1>1, CountCall
<1>4. CallsTypeOK' /\ OthersKept(t)
  BY <1>1, <1>2, <1>3 DEF CallsTypeOK, OthersKept, SameRun
<1>5. RunOK(t)' /\ OwnedBy(t)' = OwnedBy(t) /\ RetiredBy(t)' = RetiredBy(t)
  BY <1>1, <1>2, <1>3 DEF RunOK, OwnedBy, RetiredBy
<1>6. LeavesTypeOK' /\ LeavesOK'
  BY <1>1, <1>2, <1>4, <1>5, LeavesSame
<1>7. RunsOK'
  BY <1>1, <1>2, <1>4, <1>5, RunsLift DEF KeysKept
<1>8. OverOK'
  BY <1>1 DEF OverOK
<1>9. \A u \in Threads : Holds(u)' = Holds(u)
  <2> SUFFICES ASSUME NEW u \in Threads PROVE Holds(u)' = Holds(u)
    OBVIOUS
  <2>1. run'[u].guard = run[u].guard /\ run'[u].kind = run[u].kind
    BY <1>3
  <2>2. QED
    BY <1>1, <1>2, <2>1, HoldsSame
<1>10. PICK l \in Locals : l = guards[t][user[t]].local
  <2>1. guards[t][user[t]] # None /\ user[t] \in GuardIds
    BY <1>1, <1>2 DEF PinsOK, AllHeld, PinsTypeOK
  <2>2. QED
    BY <1>2, <2>1 DEF PinsTypeOK, Guarding, GuardRecs
<1>11. /\ local' \in Counting /\ \A m \in Locals : local'[m].pins = local[m].pins
       /\ \A m \in Locals : m # l \/ local[l].pins # 1 => local'[m] = local[m]
       /\ local[l].pins = 1 => local'[l].epoch = epoch
  <2>1. local \in Counting /\ epoch \in Nat
    BY <1>2 DEF PinsTypeOK
  <2>2. CASE local[l].pins = 1
    <3>1. local' = [local EXCEPT ![l].epoch = epoch]
      BY <1>1, <1>10, <2>2 DEF Repinned
    <3>2. QED
      BY <2>1, <2>2, <3>1 DEF Counting, LocalRecs
  <2>3. CASE local[l].pins # 1
    <3>1. local' = local
      BY <1>1, <1>10, <2>3 DEF Repinned
    <3>2. QED
      BY <2>1, <2>3, <3>1
  <2>4. QED
    BY <2>2, <2>3
<1>12. PinsTypeOK'
  BY <1>1, <1>2, <1>11 DEF PinsTypeOK
<1>13. GuardsOK'
  <2> SUFFICES ASSUME NEW u \in Threads
               PROVE  PinsOK(u, guards'[u], user'[u], Holds(u)', local')
    BY DEF GuardsOK
  <2>1. PinsOK(u, guards[u], user[u], Holds(u), local)
    BY MyPins
  <2>2. \A n \in LocalIds : local'[<<u, n>>].pins = local[<<u, n>>].pins
    BY <1>11 DEF Locals
  <2>3. PinsCounted(u, guards[u], local')
    BY <2>1, <2>2 DEF PinsOK, PinsCounted
  <2>4. QED
    BY <1>1, <1>9, <2>1, <2>3 DEF PinsOK
<1>14. EpochsOK'
  <2> SUFFICES ASSUME NEW m \in Locals, local'[m].pins > 0
               PROVE  local'[m].epoch <= epoch /\ epoch <= local'[m].epoch + 1
    BY <1>1 DEF EpochsOK
  <2>1. epoch \in Nat /\ local[m].pins > 0
    BY <1>2, <1>11 DEF PinsTypeOK
  <2>2. CASE m = l /\ local[l].pins = 1
    BY <1>11, <2>1, <2>2
  <2>3. CASE ~(m = l /\ local[l].pins = 1)
    <3>1. local'[m] = local[m]
      BY <1>11, <2>3
    <3>2. QED
      BY <1>2, <2>1, <3>1 DEF EpochsOK
  <2>4. QED
    BY <2>2, <2>3
<1>15. ASSUME NEW u \in Threads, NEW c \in Holders, Holds(u)[c].guard # 0,
              NEW x, NEW e, Safe(mem, garbage, local, x, e, guards[u][Holds(u)[c].guard].local)
       PROVE  Safe(mem', garbage', local', x, e, guards'[u][Holds(u)[c].guard].local)
  <2>1. PICK m \in Locals : m = guards[u][Holds(u)[c].guard].local
    BY <1>15, HoldPinned
  <2>2. local'[m] = local[m]
    <3>1. CASE local[l].pins = 1
      BY <1>1, <1>10, <1>11, <1>15, <2>1, <3>1, NobodyElse
    <3>2. CASE local[l].pins # 1
      BY <1>11, <3>2
    <3>3. QED
      BY <3>1, <3>2
  <2>3. QED
    BY <1>1, <1>15, <2>1, <2>2 DEF Safe
<1>16. RefsOK'
  <2>1. ASSUME NEW u \in Threads, NEW h \in HandleIds, handles[u][h] # None
        PROVE  HandleSafe(u, h)'
    <3>1. h \in Holders /\ Holds(u)[h].guard = handles[u][h].guard
      BY <2>1, HeldByHandle
    <3>2. handles[u][h].guard # 0
      BY <1>2, <2>1, GuardsNotZero DEF CallsTypeOK, Refs
    <3>3. HandleSafe(u, h)
      BY <1>2, <2>1 DEF RefsOK
    <3>4. QED
      BY <1>1, <1>15, <3>1, <3>2, <3>3 DEF HandleSafe
  <2>2. ASSUME NEW u \in Threads, iter[u] # None, NEW i \in DOMAIN iter[u].batch
        PROVE  AheadSafe(u, i)'
    <3>1. 0 \in Holders /\ Holds(u)[0].guard = iter[u].guard
      BY <2>2, HeldByIter
    <3>2. iter[u].guard # 0
      BY <1>2, <2>2, GuardsNotZero DEF CallsTypeOK, Iters
    <3>3. AheadSafe(u, i)
      BY <1>2, <2>2 DEF RefsOK
    <3>4. QED
      BY <1>1, <1>15, <3>1, <3>2, <3>3 DEF AheadSafe
  <2>3. QED
    BY <1>1, <2>1, <2>2 DEF RefsOK
<1>17. QED
  BY <1>4, <1>6, <1>7, <1>8, <1>12, <1>13, <1>14, <1>16 DEF IInv, HandlesTypeOK

-----------------------------------------------------------------------------
(* The steps that no thread of the map takes *)

\* With the calls, the guards and the Locals as they are, so are the pins.
LEMMA PinsStand ==
  ASSUME IInv, UNCHANGED <<pins, user, handles, iter, run, prog, tls>>, epoch' \in Nat
  PROVE  PinsTypeOK' /\ CallsTypeOK' /\ GuardsOK'
<1>1. PinsTypeOK /\ CallsTypeOK /\ GuardsOK
  BY DEF IInv, HandlesTypeOK
<1>2. \A t \in Threads : Holds(t)' = Holds(t)
  BY <1>1, HoldsSame
<1>3. UNCHANGED <<local, guards>>
  BY DEF pins
<1>4. PinsTypeOK'
  BY <1>1, <1>3 DEF PinsTypeOK
<1>5. CallsTypeOK'
  BY <1>1 DEF CallsTypeOK
<1>6. GuardsOK'
  BY <1>1, <1>2, <1>3 DEF GuardsOK
<1>7. QED
  BY <1>4, <1>5, <1>6

LEMMA AdvanceStep ==
  ASSUME IInv, Advance
  PROVE  IInv'
<1>1. /\ \A l \in Locals : local[l].pins > 0 => local[l].epoch = epoch
      /\ epoch' = epoch + 1
      /\ UNCHANGED <<map, detached, mem, garbage, pins, tls, user, handles, iter, run, prog, hist>>
  BY DEF Advance
<1>2. PinsTypeOK /\ CallsTypeOK /\ LeavesTypeOK /\ RunsOK /\ OverOK /\ LeavesOK /\ RefsOK
  BY DEF IInv, HandlesTypeOK
<1>3. epoch \in Nat /\ UNCHANGED <<local, guards>>
  BY <1>1, <1>2 DEF PinsTypeOK, pins
<1>4. PinsTypeOK' /\ CallsTypeOK' /\ GuardsOK'
  BY <1>1, <1>3, PinsStand
<1>5. LeavesTypeOK' /\ LeavesOK'
  BY <1>1, <1>2 DEF LeavesTypeOK, LeavesOK, Slots, Owned, Retiring
<1>6. RunsOK'
  BY <1>1, <1>2 DEF RunsOK, RunOK, HasHandle
<1>7. OverOK'
  BY <1>1, <1>2 DEF OverOK, Unborrowed
<1>8. EpochsOK'
  BY <1>1, <1>3 DEF EpochsOK
<1>9. RefsOK'
  BY <1>1, <1>2, <1>3 DEF RefsOK, HandleSafe, AheadSafe
<1>10. QED
  BY <1>4, <1>5, <1>6, <1>7, <1>8, <1>9 DEF IInv, HandlesTypeOK

LEMMA CollectStep ==
  ASSUME IInv, Collect
  PROVE  IInv'
<1>1. PICK g \in garbage :
        epoch - g.epoch >= 2 /\ garbage' = garbage \ {g} /\ mem' = [mem EXCEPT ![g.leaf] = Free]
  BY DEF Collect
<1>2. UNCHANGED <<map, detached, epoch, pins, tls, user, handles, iter, run, prog, hist>>
  BY DEF Collect
<1>3. PinsTypeOK /\ CallsTypeOK /\ LeavesTypeOK /\ RunsOK /\ OverOK /\ EpochsOK /\ RefsOK
  BY DEF IInv, HandlesTypeOK
<1>4. epoch \in Nat /\ UNCHANGED <<local, guards>> /\ g.epoch \in Nat /\ g.leaf \in Addresses
  BY <1>1, <1>2, <1>3 DEF PinsTypeOK, pins, LeavesTypeOK, Deferred
<1>5. PinsTypeOK' /\ CallsTypeOK' /\ GuardsOK'
  BY <1>2, <1>4, PinsStand
<1>6. FreedAt({g.leaf}, mem', mem)
  <2>1. mem \in Memory
    BY <1>3 DEF LeavesTypeOK
  <2>2. mem' \in Memory
    BY <1>1, <2>1 DEF Memory, Free
  <2>3. \A y \in Addresses : mem'[y] = IF y \in {g.leaf} THEN Free ELSE mem[y]
    BY <1>1, <2>1 DEF Memory
  <2>4. QED
    BY <2>2, <2>3 DEF FreedAt
<1>7. LeavesTypeOK'
  BY <1>1, <1>2, <1>3, <1>6 DEF LeavesTypeOK, FreedAt
<1>8. LeavesOK'
  <2>1. LeavesInv(Slots, mem', Owned, Retiring, garbage \ {g}, hist.made, hist.taken)
    BY <1>6, LeavesNow, CollectLeaves
  <2>2. Slots' = Slots /\ Owned' = Owned /\ Retiring' = Retiring
    BY <1>2 DEF Slots, Owned, Retiring
  <2>3. QED
    BY <1>1, <1>2, <2>1, <2>2, LeavesPrimed
<1>9. RunsOK'
  <2> SUFFICES ASSUME NEW t \in Threads PROVE RunOK(t)'
    BY DEF RunsOK
  <2>1. RunOK(t)
    BY MyPins
  <2>2. ASSUME run[t].pc = "install" PROVE mem'[run[t].own] = mem[run[t].own]
    <3>1. run[t].own \in Addresses /\ run[t].own # g.leaf
      BY <1>1, <2>2, OwnLeaf
    <3>2. QED
      BY <1>6, <3>1 DEF FreedAt
  <2>3. QED
    BY <1>2, <2>1, <2>2 DEF RunOK, HasHandle
<1>10. OverOK'
  BY <1>2, <1>3 DEF OverOK, Unborrowed
<1>11. EpochsOK'
  BY <1>2, <1>3, <1>4 DEF EpochsOK
<1>12. ASSUME NEW u \in Threads, NEW c \in Holders, Holds(u)[c].guard # 0, NEW x \in Addresses, NEW e,
              Safe(mem, garbage, local, x, e, guards[u][Holds(u)[c].guard].local)
       PROVE  Safe(mem', garbage', local', x, e, guards'[u][Holds(u)[c].guard].local)
  <2>1. PICK l \in Locals : l = guards[u][Holds(u)[c].guard].local /\ local[l].pins > 0
    BY <1>12, HoldPinned
  <2>2. local[l].epoch \in Nat /\ epoch <= local[l].epoch + 1
    BY <1>3, <2>1 DEF EpochsOK, PinsTypeOK, Counting, LocalRecs
  <2>3. x # g.leaf
    <3>1. SUFFICES ASSUME x = g.leaf PROVE FALSE
      OBVIOUS
    <3>2. local[l].epoch <= g.epoch
      BY <1>12, <2>1, <3>1 DEF Safe
    <3>3. QED
      BY <1>1, <1>4, <2>2, <3>2
  <2>4. mem'[x] = mem[x]
    BY <1>6, <2>3 DEF FreedAt
  <2>5. QED
    BY <1>1, <1>4, <1>12, <2>4 DEF Safe
<1>13. RefsOK'
  <2>1. ASSUME NEW u \in Threads, NEW h \in HandleIds, handles[u][h] # None
        PROVE  HandleSafe(u, h)'
    <3>1. h \in Holders /\ Holds(u)[h].guard = handles[u][h].guard
      BY <2>1, HeldByHandle
    <3>2. handles[u][h].guard # 0 /\ handles[u][h].leaf \in Addresses
      BY <1>3, <2>1, GuardsNotZero DEF CallsTypeOK, Refs
    <3>3. HandleSafe(u, h)
      BY <1>3, <2>1 DEF RefsOK
    <3>4. QED
      BY <1>2, <1>12, <3>1, <3>2, <3>3 DEF HandleSafe
  <2>2. ASSUME NEW u \in Threads, iter[u] # None, NEW i \in DOMAIN iter[u].batch
        PROVE  AheadSafe(u, i)'
    <3>1. 0 \in Holders /\ Holds(u)[0].guard = iter[u].guard
      BY <2>2, HeldByIter
    <3>2. iter[u] \in Iters
      BY <1>3, <2>2 DEF CallsTypeOK
    <3>3. iter[u].guard # 0 /\ iter[u].batch \in Seq(Ahead)
      BY <3>2, GuardsNotZero DEF Iters
    <3>4. iter[u].batch[i] \in Ahead
      BY <2>2, <3>3
    <3>5. iter[u].batch[i].leaf \in Addresses
      BY <3>4 DEF Ahead
    <3>6. AheadSafe(u, i)
      BY <1>3, <2>2 DEF RefsOK
    <3>7. QED
      BY <1>2, <1>12, <3>1, <3>3, <3>5, <3>6 DEF AheadSafe
  <2>3. QED
    BY <1>2, <2>1, <2>2 DEF RefsOK
<1>14. QED
  BY <1>5, <1>7, <1>8, <1>9, <1>10, <1>11, <1>13 DEF IInv, HandlesTypeOK

LEMMA DropMapStep ==
  ASSUME IInv, DropMap
  PROVE  IInv'
<1>1. /\ Unborrowed /\ map' = [k \in Keys |-> 0] /\ hist' = [hist EXCEPT !.over = TRUE]
      /\ mem' = [x \in Addresses |-> IF \E k \in Keys : map[k] = x THEN Free ELSE mem[x]]
      /\ UNCHANGED <<detached, garbage, epoch, pins, tls, user, handles, iter, run, prog>>
  BY DEF DropMap
<1>2. PinsTypeOK /\ CallsTypeOK /\ LeavesTypeOK /\ RunsOK /\ EpochsOK
  BY DEF IInv, HandlesTypeOK
<1>3. epoch \in Nat /\ UNCHANGED <<local, guards>>
  BY <1>1, <1>2 DEF PinsTypeOK, pins
<1>4. PinsTypeOK' /\ CallsTypeOK' /\ GuardsOK'
  BY <1>1, <1>3, PinsStand
<1>5. /\ \A t \in Threads : run[t].pc = "idle" /\ iter[t] = None /\ \A h \in HandleIds : handles[t][h] = None
      /\ \A t \in Threads, k \in Keys : detached[t][k] = Obsolete
  <2>1. \A t \in Threads : run[t].pc = "idle" /\ iter[t] = None /\ \A h \in HandleIds : handles[t][h] = None
    BY <1>1 DEF Unborrowed
  <2>2. QED
    BY <2>1, NotClearing
<1>6. mem \in Memory /\ map \in [Keys -> Leaves]
  BY <1>2 DEF LeavesTypeOK
<1>7. FreedAt({x \in Addresses : \E k \in Keys : Slots[None][k] = x}, mem', mem)
  <2>1. Slots[None] = map
    BY <1>2, SlotsType
  <2>2. mem' \in Memory
    BY <1>1, <1>6 DEF Memory, Free
  <2>3. \A y \in Addresses : mem'[y] = IF \E k \in Keys : map[k] = y THEN Free ELSE mem[y]
    BY <1>1
  <2>4. QED
    BY <2>1, <2>2, <2>3 DEF FreedAt
<1>8. /\ hist'.made = hist.made /\ hist'.taken = hist.taken
      /\ hist' \in [made : Nat, taken : Takes, over : BOOLEAN]
  BY <1>1, <1>2 DEF LeavesTypeOK
<1>9. LeavesTypeOK'
  BY <1>1, <1>2, <1>7, <1>8 DEF LeavesTypeOK, FreedAt, Leaves
<1>10. LeavesOK'
  <2>1. \A s \in Threads, k \in Keys : Slots[s][k] = Obsolete
    BY <1>2, <1>5, SlotsType
  <2>2. \A t \in Threads : Owned[t] = 0 /\ Retiring[t] = 0
    BY <1>5 DEF Owned, Retiring
  <2>3. Slots' \in Slotting /\ \A s \in Trees, k \in Keys : Slots'[s][k] \notin Addresses
    <3>1. \A s \in Trees : s # None => s \in Threads
      BY DEF Trees
    <3>2. Slots' \in Slotting
      BY <1>9, <3>1 DEF Slots, Slotting, LeavesTypeOK
    <3>3. \A s \in Trees, k \in Keys : Slots'[s][k] = 0 \/ Slots'[s][k] = Obsolete
      BY <1>1, <1>5, <3>1 DEF Slots
    <3>4. QED
      BY <3>2, <3>3, NotAddresses
  <2>4. LeavesInv(Slots', mem', Owned, Retiring, garbage, hist.made, hist.taken)
    BY <1>7, <2>1, <2>2, <2>3, LeavesNow, DropMapLeaves
  <2>5. Owned' = Owned /\ Retiring' = Retiring
    BY <1>1 DEF Owned, Retiring
  <2>6. QED
    BY <1>1, <1>8, <2>4, <2>5, LeavesPrimed
<1>11. RunsOK'
  <2> SUFFICES ASSUME NEW t \in Threads PROVE RunOK(t)'
    BY DEF RunsOK
  <2>1. RunOK(t) /\ run[t].pc = "idle"
    BY <1>5, MyPins
  <2>2. QED
    BY <1>1, <2>1 DEF RunOK, HasHandle
<1>12. OverOK'
  BY <1>1 DEF OverOK, Unborrowed
<1>13. EpochsOK'
  BY <1>1, <1>2, <1>3 DEF EpochsOK
<1>14. RefsOK'
  BY <1>1, <1>5 DEF RefsOK
<1>15. QED
  BY <1>4, <1>9, <1>10, <1>11, <1>12, <1>13, <1>14 DEF IInv, HandlesTypeOK

\* A dropped map is not used any more.
LEMMA NothingAfterDrop ==
  ASSUME IInv, hist.over, NEW t \in Threads
  PROVE  ~Step(t)
<1>1. /\ run[t].pc = "idle" /\ run[t].at = Len(prog[t]) /\ user[t] = 0 /\ iter[t] = None
      /\ \A h \in HandleIds : handles[t][h] = None
  BY DEF IInv, OverOK, Unborrowed
<1>2. ~(run[t].at < Len(prog[t]))
  <2>1. run[t].at \in Nat
    BY MyPins
  <2>2. QED
    BY <1>1, <2>1
<1>3. ~CanBegin(t)
  BY <1>2 DEF CanBegin
<1>4. ~(Begin(t) \/ BeginEntryRemove(t) \/ CloneEntry(t) \/ PinUser(t) \/ Repin(t) \/ BeginIter(t))
  BY <1>3 DEF Begin, BeginEntryRemove, CloneEntry, PinUser, Repin, BeginIter
<1>5. ~(NextEntry(t) \/ Teardown(t) \/ Reinit(t) \/ Skip(t) \/ DropEntry(t) \/ DropGuard(t))
  BY <1>1, <1>2, <1>3 DEF NextEntry, Teardown, Reinit, Skip, DropEntry, DropGuard
<1>6. ~(FillBatch(t) \/ DropIter(t) \/ Lookup(t) \/ Alloc(t) \/ Install(t))
  BY <1>1 DEF FillBatch, DropIter, Lookup, Alloc, Install
<1>7. ~(TakeOut(t) \/ MarkRemoved(t) \/ RetireLeaf(t) \/ SwapRoot(t) \/ Sweep(t) \/ EntryRemove(t))
  BY <1>1 DEF TakeOut, MarkRemoved, RetireLeaf, SwapRoot, Sweep, EntryRemove
<1>8. QED
  BY <1>4, <1>5, <1>6, <1>7 DEF Step

LEMMA StepInv ==
  ASSUME IInv, NEW t \in Threads, Step(t)
  PROVE  IInv'
<1>1. ~hist.over
  BY NothingAfterDrop
<1>2. CASE Repin(t)
  BY <1>1, <1>2, RepinStep
<1>3. CASE ~Repin(t)
  <2>1. CASE \/ Begin(t) \/ Lookup(t) \/ Alloc(t) \/ Install(t) \/ TakeOut(t) \/ MarkRemoved(t)
             \/ RetireLeaf(t) \/ SwapRoot(t)
    BY <2>1, BeginStep, LookupStep, AllocStep, InstallStep, TakeOutStep, MarkStep, RetireLeafStep,
       SwapRootStep, <1>1, ThreadLift
  <2>2. CASE \/ Sweep(t) \/ BeginEntryRemove(t) \/ EntryRemove(t) \/ CloneEntry(t) \/ DropEntry(t)
             \/ PinUser(t) \/ DropGuard(t)
    BY <2>2, SweepStep, BeginEntryRemoveStep, EntryRemoveStep, CloneEntryStep, DropEntryStep,
       PinUserThreadStep, DropGuardStep, <1>1, ThreadLift
  <2>3. CASE \/ BeginIter(t) \/ FillBatch(t) \/ NextEntry(t) \/ DropIter(t) \/ Teardown(t)
             \/ Reinit(t) \/ Skip(t)
    BY <2>3, BeginIterStep, FillBatchStep, NextEntryStep, DropIterStep, PassStep, ReinitStep, <1>1, ThreadLift
  <2>4. QED
    BY <1>3, <2>1, <2>2, <2>3 DEF Step
<1>4. QED
  BY <1>2, <1>3

LEMMA StutterInv ==
  ASSUME IInv, UNCHANGED vars
  PROVE  IInv'
<1>1. /\ UNCHANGED <<map, detached, mem, garbage, epoch, local, guards>>
      /\ UNCHANGED <<tls, user, handles, iter, run, prog, hist>>
  BY DEF vars
<1>2. PinsTypeOK /\ CallsTypeOK /\ LeavesTypeOK /\ RunsOK /\ OverOK /\ LeavesOK /\ RefsOK /\ EpochsOK
  BY DEF IInv, HandlesTypeOK
<1>3. epoch' \in Nat /\ UNCHANGED pins
  BY <1>1, <1>2 DEF PinsTypeOK, pins
<1>4. PinsTypeOK' /\ CallsTypeOK' /\ GuardsOK'
  BY <1>1, <1>3, PinsStand
<1>5. LeavesTypeOK' /\ LeavesOK'
  BY <1>1, <1>2 DEF LeavesTypeOK, LeavesOK, Slots, Owned, Retiring
<1>6. RunsOK'
  BY <1>1, <1>2 DEF RunsOK, RunOK, HasHandle
<1>7. OverOK' /\ EpochsOK'
  BY <1>1, <1>2 DEF OverOK, Unborrowed, EpochsOK
<1>8. RefsOK'
  BY <1>1, <1>2 DEF RefsOK, HandleSafe, AheadSafe
<1>9. QED
  BY <1>4, <1>5, <1>6, <1>7, <1>8 DEF IInv, HandlesTypeOK

LEMMA NextInv ==
  ASSUME IInv, [Next]_vars
  PROVE  IInv'
<1>1. ASSUME NEW t \in Threads, Step(t) PROVE IInv'
  BY <1>1, StepInv
<1>2. CASE Advance
  BY <1>2, AdvanceStep
<1>3. CASE Collect
  BY <1>3, CollectStep
<1>4. CASE DropMap
  BY <1>4, DropMapStep
<1>5. CASE Over \/ UNCHANGED vars
  BY <1>5, StutterInv DEF Over
<1>6. QED
  BY <1>1, <1>2, <1>3, <1>4, <1>5 DEF Next

LEMMA InitInv ==
  ASSUME Init
  PROVE  IInv
<1>1. /\ map = [k \in Keys |-> 0] /\ detached = [t \in Threads |-> [k \in Keys |-> Obsolete]]
      /\ mem = [x \in Addresses |-> Free] /\ garbage = {} /\ epoch = 0
      /\ tls = [t \in Threads |-> [id |-> 1, live |-> TRUE]]
      /\ hist = [made |-> 0, taken |-> [e \in 1 .. MaxEntries |-> 0], over |-> FALSE]
  BY DEF Init
<1>2. /\ local = [l \in Locals |-> [pins |-> 0, epoch |-> 0]]
      /\ guards = [t \in Threads |-> [g \in GuardIds |-> None]]
      /\ user = [t \in Threads |-> 0]
      /\ handles = [t \in Threads |-> [h \in HandleIds |-> None]]
      /\ iter = [t \in Threads |-> None] /\ run = [t \in Threads |-> IdleAfter(0)]
      /\ prog \in Programs
  BY DEF Init
<1>3. LeavesTypeOK
  <2>1. map \in [Keys -> Leaves] /\ detached \in [Threads -> [Keys -> Leaves \cup {Obsolete}]]
    BY <1>1 DEF Leaves
  <2>2. mem \in Memory /\ garbage \subseteq Deferred
    BY <1>1 DEF Memory, Free
  <2>3. hist \in [made : Nat, taken : Takes, over : BOOLEAN]
    BY <1>1 DEF Takes
  <2>4. QED
    BY <2>1, <2>2, <2>3 DEF LeavesTypeOK
<1>4. PinsTypeOK
  <2>1. tls \in Participants
    BY <1>1, HandlesAssumption DEF Participants
  <2>2. QED
    BY <1>1, <1>2, <2>1 DEF PinsTypeOK, Counting, LocalRecs, Guarding
<1>5. CallsTypeOK
  <2>1. IdleAfter(0) \in Runs
    BY IdleType
  <2>2. prog \in [Threads -> Seq(SUBSET Calls)]
    BY <1>2, HandlesAssumption
  <2>3. QED
    BY <1>2, <2>1, <2>2 DEF CallsTypeOK
<1>6. \A t \in Threads : run[t].pc = "idle" /\ run[t].guard = 0 /\ run[t].kind = "none"
  BY <1>2, IdleFields
<1>7. RunsOK
  BY <1>1, <1>6 DEF RunsOK, RunOK
<1>8. OverOK
  BY <1>1 DEF OverOK
<1>9. GuardsOK
  <2> SUFFICES ASSUME NEW t \in Threads PROVE PinsOK(t, guards[t], user[t], Holds(t), local)
    BY DEF GuardsOK
  <2>1. \A g \in GuardIds : guards[t][g] = None
    BY <1>2
  <2>2. \A n \in LocalIds : local[<<t, n>>].pins = 0
    BY <1>2 DEF Locals
  <2>3. \A l : On(guards[t], l) = {}
    BY <2>1 DEF On
  <2>4. PinsCounted(t, guards[t], local)
    BY <2>2, <2>3, FS_EmptySet DEF PinsCounted
  <2>5. \A h \in Holders : Holds(t)[h].guard = 0 /\ Holds(t)[h].kind = "none"
    BY <1>2, <1>6, HoldersFacts DEF Holds, HoldOf, NoHold
  <2>6. HoldsOK(guards[t], user[t], Holds(t))
    BY <2>5 DEF HoldsOK, HoldOK
  <2>7. AllHeld(guards[t], user[t], Holds(t)) /\ TagsOK(t, guards[t])
    BY <1>2, <2>1 DEF AllHeld, TagsOK
  <2>8. QED
    BY <2>4, <2>6, <2>7 DEF PinsOK
<1>10. EpochsOK
  BY <1>2 DEF EpochsOK
<1>11. LeavesOK
  <2>1. \A s \in Trees, k \in Keys : Slots[s][k] \notin Addresses
    <3>1. \A s \in Trees, k \in Keys : Slots[s][k] = 0 \/ Slots[s][k] = Obsolete
      BY <1>1 DEF Slots, Trees
    <3>2. QED
      BY <3>1, NotAddresses
  <2>2. \A x \in Addresses : mem[x].state = "free"
    BY <1>1 DEF Free
  <2>3. \A t \in Threads : Owned[t] = 0 /\ Retiring[t] = 0
    BY <1>6 DEF Owned, Retiring
  <2>4. LinkedOK(Slots, mem) /\ OwnedOK(mem, Owned) /\ UnlinkedOK(mem, Retiring, garbage)
    BY <1>1, <2>1, <2>2, <2>3 DEF LinkedOK, OwnedOK, UnlinkedOK
  <2>5. hist.made = 0 /\ \A e \in 1 .. MaxEntries : hist.taken[e] = 0
    BY <1>1
  <2>6. EntriesOK(mem, Retiring, hist.made, hist.taken)
    BY <2>2, <2>5, HandlesAssumption DEF EntriesOK
  <2>7. QED
    BY <2>4, <2>6 DEF LeavesOK, LeavesInv
<1>12. RefsOK
  BY <1>2 DEF RefsOK
<1>13. QED
  BY <1>3, <1>4, <1>5, <1>7, <1>8, <1>9, <1>10, <1>11, <1>12 DEF IInv, HandlesTypeOK

-----------------------------------------------------------------------------
(* Which leaves are marked as removed *)

\* Only unlinked leaves are, and all of these but the ones that a call has just
\* unlinked and goes on to mark.
MarkPending(x) == \E t \in Threads : run[t].pc = "mark" /\ run[t].leaf = x
MarksOK ==
  \A x \in Addresses :
    /\ mem[x].removed = TRUE => mem[x].state = "unlinked"
    /\ mem[x].state = "unlinked" => mem[x].removed = TRUE \/ MarkPending(x)

\* The calls that are about to mark a leaf still are.
MarkersKept ==
  \A t \in Threads : run[t].pc = "mark" => run'[t].pc = "mark" /\ run'[t].leaf = run[t].leaf
MarkFine(x) ==
  \/ mem[x].removed # TRUE /\ mem[x].state # "unlinked"
  \/ mem[x].removed = TRUE /\ mem[x].state = "unlinked"
  \/ mem[x].removed # TRUE /\ mem[x].state = "unlinked" /\ MarkPending(x)

LEMMA MarksMove ==
  ASSUME MarksOK, MarkersKept, \A x \in Addresses : mem'[x] = mem[x] \/ MarkFine(x)'
  PROVE  MarksOK'
<1> SUFFICES ASSUME NEW x \in Addresses
             PROVE  /\ mem'[x].removed = TRUE => mem'[x].state = "unlinked"
                    /\ mem'[x].state = "unlinked" => mem'[x].removed = TRUE \/ MarkPending(x)'
  BY DEF MarksOK
<1>1. CASE mem'[x] = mem[x]
  <2>1. MarkPending(x) => MarkPending(x)'
    BY DEF MarkPending, MarkersKept
  <2>2. QED
    BY <1>1, <2>1 DEF MarksOK
<1>2. CASE MarkFine(x)'
  BY <1>2 DEF MarkFine
<1>3. QED
  BY <1>1, <1>2

LEMMA MarkersKeptBy ==
  ASSUME NEW t \in Threads, ThreadEffect(t), run[t].pc # "mark"
  PROVE  MarkersKept
BY DEF ThreadEffect, OthersKept, SameRun, MarkersKept

\* A step that leaves the leaves as they are, of a call that is elsewhere.
LEMMA QuietMarks ==
  ASSUME MarksOK, NEW t \in Threads, ThreadEffect(t), run[t].pc # "mark", mem' = mem
  PROVE  MarksOK'
BY MarkersKeptBy, MarksMove

LEMMA RepinMarks ==
  ASSUME IInv, MarksOK, NEW t \in Threads, Repin(t)
  PROVE  MarksOK'
<1>1. run[t].pc = "idle" /\ mem' = mem /\ run' = [run EXCEPT ![t].at = @ + 1]
  BY Zenon DEF Repin, CanBegin
<1>2. MarkersKept
  <2>1. \A u \in Threads : u # t => run'[u] = run[u]
    BY <1>1, CountCall
  <2>2. QED
    BY <1>1, <2>1 DEF MarkersKept
<1>3. QED
  BY <1>1, <1>2, MarksMove

LEMMA MarkRemovedMarks ==
  ASSUME IInv, MarksOK, NEW t \in Threads, MarkRemoved(t)
  PROVE  MarksOK'
<1> SUFFICES ASSUME NEW x \in Addresses
             PROVE  /\ mem'[x].removed = TRUE => mem'[x].state = "unlinked"
                    /\ mem'[x].state = "unlinked" => mem'[x].removed = TRUE \/ MarkPending(x)'
  BY DEF MarksOK
<1>1. CASE x = run[t].leaf
  BY <1>1, MarkedLeaf
<1>2. CASE x # run[t].leaf
  <2>1. mem'[x] = mem[x]
    BY <1>2, MarkedLeaf
  <2>2. MarkPending(x) => MarkPending(x)'
    <3>1. \A u \in Threads : u # t => run'[u].pc = run[u].pc /\ run'[u].leaf = run[u].leaf
      BY MarkStep DEF ThreadEffect, OthersKept, SameRun
    <3>2. QED
      BY <1>2, <3>1 DEF MarkPending
  <2>3. QED
    BY <2>1, <2>2 DEF MarksOK
<1>3. QED
  BY <1>1, <1>2

LEMMA AllocMarks ==
  ASSUME IInv, MarksOK, NEW t \in Threads, Alloc(t)
  PROVE  MarksOK'
<1>1. run[t].pc = "alloc" /\ \E x, r : mem' = [mem EXCEPT ![x] = r] /\ r.state = "owned" /\ r.removed = FALSE
  <2>1. PICK x, r : /\ r = [state |-> "owned", key |-> run[t].call.key, entry |-> hist.made + 1, removed |-> FALSE]
                    /\ x = Min(FreeAddresses)
    BY Zenon
  <2>2. run[t].pc = "alloc" /\ mem' = [mem EXCEPT ![x] = r]
    BY <2>1, Zenon DEF Alloc
  <2>3. r.state = "owned" /\ r.removed = FALSE
    BY <2>1
  <2>4. QED
    BY <2>2, <2>3
<1>2. mem \in Memory
  BY LeavesNow
<1>3. \A x \in Addresses : mem'[x] = mem[x] \/ (mem'[x].removed # TRUE /\ mem'[x].state # "unlinked")
  BY <1>1, <1>2 DEF Memory
<1>4. \A x \in Addresses : mem'[x] = mem[x] \/ MarkFine(x)'
  BY <1>3 DEF MarkFine
<1>5. QED
  BY <1>1, <1>4, AllocStep, MarkersKeptBy, MarksMove

\* A leaf is taken out, and its call goes on to mark it.
LEMMA UnlinkMarks ==
  ASSUME IInv, MarksOK, NEW t \in Threads, ThreadEffect(t), run[t].pc # "mark",
         NEW x \in Addresses, mem[x].state # "unlinked", mem' = Unlinked(x),
         run' = [run EXCEPT ![t].pc = "mark", ![t].leaf = x]
  PROVE  MarksOK'
<1>1. mem \in Memory /\ CallsTypeOK
  BY LeavesNow, MyPins
<1>2. mem'[x].state = "unlinked" /\ mem'[x].removed = mem[x].removed /\ \A y \in Addresses : y # x => mem'[y] = mem[y]
  BY <1>1 DEF Memory, Unlinked
<1>3. run'[t].pc = "mark" /\ run'[t].leaf = x
  BY <1>1, ToRetire
<1>4. MarkFine(x)'
  BY <1>2, <1>3 DEF MarkFine, MarkPending, MarksOK
<1>5. \A y \in Addresses : mem'[y] = mem[y] \/ MarkFine(y)'
  BY <1>2, <1>4
<1>6. QED
  BY <1>5, MarkersKeptBy, MarksMove

LEMMA TakeOutMarks ==
  ASSUME IInv, MarksOK, NEW t \in Threads, TakeOut(t)
  PROVE  MarksOK'
<1> DEFINE k == run[t].call.key
<1>1. /\ run[t].pc = "takeout"
      /\ \/ mem' = mem
         \/ /\ LeafOf(t, k) # 0 /\ mem' = Unlinked(LeafOf(t, k))
            /\ run' = [run EXCEPT ![t].pc = "mark", ![t].leaf = LeafOf(t, k)]
  BY Zenon DEF TakeOut
<1>2. k \in Keys
  BY <1>1, MyPins DEF RunOK, Calls
<1> HIDE DEF k
<1>3. ThreadEffect(t) /\ run[t].pc # "mark"
  BY <1>1, TakeOutStep
<1>4. CASE mem' = mem
  BY <1>3, <1>4, QuietMarks
<1>5. CASE /\ LeafOf(t, k) # 0 /\ mem' = Unlinked(LeafOf(t, k))
           /\ run' = [run EXCEPT ![t].pc = "mark", ![t].leaf = LeafOf(t, k)]
  <2>1. PICK x \in Addresses : x = LeafOf(t, k)
    BY <1>2, <1>5, LeafInTree DEF Leaves
  <2>2. mem[x].state = "linked"
    BY <1>2, <2>1, LeafInTree, InTree
  <2>3. mem' = Unlinked(x) /\ run' = [run EXCEPT ![t].pc = "mark", ![t].leaf = x]
    BY <1>5, <2>1, Zenon
  <2>4. QED
    BY <1>3, <2>2, <2>3, UnlinkMarks
<1>6. QED
  BY <1>1, <1>4, <1>5

LEMMA EntryRemoveMarks ==
  ASSUME IInv, MarksOK, NEW t \in Threads, EntryRemove(t)
  PROVE  MarksOK'
<1>1. run[t].pc = "entry"
  BY Zenon DEF EntryRemove
<1>2. PICK x \in Addresses : x = handles[t][run[t].handle].leaf /\ mem[x].key \in Keys
  BY <1>1, EntryLeaf
<1>3. \/ mem' = mem
      \/ /\ LeafOf(t, mem[x].key) = x /\ mem' = Unlinked(x)
         /\ run' = [run EXCEPT ![t].pc = "mark", ![t].leaf = x]
  BY <1>2 DEF EntryRemove, IsEntry
<1>4. ThreadEffect(t) /\ run[t].pc # "mark"
  BY <1>1, EntryRemoveStep
<1>5. CASE mem' = mem
  BY <1>4, <1>5, QuietMarks
<1>6. CASE /\ LeafOf(t, mem[x].key) = x /\ mem' = Unlinked(x)
           /\ run' = [run EXCEPT ![t].pc = "mark", ![t].leaf = x]
  <2>1. mem[x].state = "linked"
    BY <1>2, <1>6, LeafInTree, InTree
  <2>2. QED
    BY <1>4, <1>6, <2>1, UnlinkMarks
<1>7. QED
  BY <1>3, <1>5, <1>6

LEMMA SweepMarks ==
  ASSUME IInv, MarksOK, NEW t \in Threads, Sweep(t)
  PROVE  MarksOK'
<1>1. /\ run[t].pc = "sweep"
      /\ mem' = mem \/ \E k \in Keys : detached[t][k] # Obsolete /\ detached[t][k] # 0 /\ mem' = Swept(detached[t][k])
  BY Zenon DEF Sweep
<1>2. ThreadEffect(t) /\ MarkersKept
  BY <1>1, SweepStep, MarkersKeptBy
<1>3. CASE mem' = mem
  BY <1>1, <1>2, <1>3, QuietMarks
<1>4. ASSUME NEW k \in Keys, detached[t][k] # Obsolete, detached[t][k] # 0, mem' = Swept(detached[t][k])
      PROVE  MarksOK'
  <2>1. PICK x \in Addresses : x = detached[t][k]
    BY <1>4, MyPins DEF LeavesTypeOK, Leaves
  <2>2. mem \in Memory /\ mem' = [mem EXCEPT ![x].removed = TRUE, ![x].state = "unlinked"]
    BY <1>4, <2>1, LeavesNow DEF Swept
  <2>3. \A y \in Addresses : y # x => mem'[y] = mem[y]
    BY <2>2 DEF Memory
  <2>4. mem'[x].state = "unlinked" /\ mem'[x].removed = TRUE
    BY <2>2 DEF Memory
  <2>5. \A y \in Addresses : mem'[y] = mem[y] \/ MarkFine(y)'
    BY <2>3, <2>4 DEF MarkFine
  <2>6. QED
    BY <1>2, <2>5, MarksMove
<1>5. QED
  BY <1>1, <1>3, <1>4

LEMMA InstallMarks ==
  ASSUME IInv, MarksOK, NEW t \in Threads, Install(t)
  PROVE  MarksOK'
<1>1. run[t].pc = "install"
  BY Zenon DEF Install
<1>2. PICK k \in Keys : k = run[t].call.key
  BY <1>1, MyPins DEF RunOK, Calls
<1>3. PICK x \in Addresses : x = run[t].own
  BY <1>1, OwnLeaf
<1>4. mem[x].state = "owned"
  BY <1>1, <1>3, OwnLeaf
<1>5. PICK old \in Leaves : old = LeafOf(t, k)
  BY LeafInTree
<1>6. \/ /\ old # 0 /\ mem' = [Unlinked(old) EXCEPT ![x].state = "linked"]
         /\ run' = [run EXCEPT ![t].pc = "mark", ![t].leaf = old]
      \/ mem' = [mem EXCEPT ![x].state = "linked"]
      \/ mem' = [mem EXCEPT ![x] = Free]
  BY <1>2, <1>3, <1>5 DEF Install, Dropped
<1>7. mem \in Memory /\ CallsTypeOK /\ MarkersKept /\ mem[x].removed # TRUE
  <2>1. ThreadEffect(t)
    BY InstallStep
  <2>2. QED
    BY <1>1, <1>4, <2>1, LeavesNow, MyPins, MarkersKeptBy DEF MarksOK
<1>8. CASE mem' = [mem EXCEPT ![x].state = "linked"]
  <2>1. mem'[x].state = "linked" /\ mem'[x].removed # TRUE /\ \A y \in Addresses : y # x => mem'[y] = mem[y]
    BY <1>7, <1>8 DEF Memory
  <2>2. \A y \in Addresses : mem'[y] = mem[y] \/ MarkFine(y)'
    BY <2>1 DEF MarkFine
  <2>3. QED
    BY <1>7, <2>2, MarksMove
<1>9. CASE mem' = [mem EXCEPT ![x] = Free]
  <2>1. mem'[x].state = "free" /\ mem'[x].removed # TRUE /\ \A y \in Addresses : y # x => mem'[y] = mem[y]
    BY <1>7, <1>9 DEF Memory, Free
  <2>2. \A y \in Addresses : mem'[y] = mem[y] \/ MarkFine(y)'
    BY <2>1 DEF MarkFine
  <2>3. QED
    BY <1>7, <2>2, MarksMove
<1>10. CASE /\ old # 0 /\ mem' = [Unlinked(old) EXCEPT ![x].state = "linked"]
            /\ run' = [run EXCEPT ![t].pc = "mark", ![t].leaf = old]
  <2>1. old \in Addresses
    BY <1>10 DEF Leaves
  <2>2. mem[old].state = "linked" /\ old # x
    BY <1>4, <1>5, <2>1, LeafInTree, InTree
  <2>3. PICK m1 : m1 = [mem EXCEPT ![old].state = "unlinked"] /\ mem' = [m1 EXCEPT ![x].state = "linked"]
    BY <1>10, Zenon DEF Unlinked
  <2>4. /\ m1 \in Memory /\ m1[old].state = "unlinked" /\ m1[old].removed = mem[old].removed
        /\ \A y \in Addresses : y # old => m1[y] = mem[y]
    BY <1>7, <2>1, <2>3 DEF Memory
  <2>5. /\ mem'[x].state = "linked" /\ mem'[x].removed = m1[x].removed
        /\ \A y \in Addresses : y # x => mem'[y] = m1[y]
    BY <2>3, <2>4 DEF Memory
  <2>6. run'[t].pc = "mark" /\ run'[t].leaf = old
    BY <1>7, <1>10, <2>1, ToRetire
  <2>7. mem[old].removed # TRUE
    BY <2>1, <2>2 DEF MarksOK
  <2>8. MarkFine(x)'
    BY <1>7, <2>2, <2>4, <2>5 DEF MarkFine
  <2>9. MarkFine(old)'
    BY <2>1, <2>2, <2>4, <2>5, <2>6, <2>7 DEF MarkFine, MarkPending
  <2>10. \A y \in Addresses : y # x /\ y # old => mem'[y] = mem[y]
    BY <2>4, <2>5
  <2>11. QED
    BY <1>7, <2>8, <2>9, <2>10, MarksMove
<1>11. QED
  BY <1>6, <1>8, <1>9, <1>10

\* Collect and DropMap only give memory back.
LEMMA FreedMarks ==
  ASSUME IInv, MarksOK, Collect \/ DropMap
  PROVE  MarksOK'
<1>1. run' = run
  BY Zenon DEF Collect, DropMap
<1>2. mem \in Memory
  BY LeavesNow
<1>3. \A x \in Addresses : mem'[x] = mem[x] \/ mem'[x] = Free
  <2>1. CASE Collect
    <3>1. PICK y : mem' = [mem EXCEPT ![y] = Free]
      BY <2>1, Zenon DEF Collect
    <3>2. QED
      BY <1>2, <3>1 DEF Memory
  <2>2. CASE DropMap
    BY <2>2 DEF DropMap
  <2>3. QED
    BY <2>1, <2>2
<1>4. Free.removed # TRUE /\ Free.state # "unlinked"
  BY DEF Free
<1>5. \A x \in Addresses : mem'[x] = mem[x] \/ MarkFine(x)'
  BY <1>3, <1>4 DEF MarkFine
<1>6. MarkersKept
  BY <1>1 DEF MarkersKept
<1>7. QED
  BY <1>5, <1>6, MarksMove

\* The steps that leave the leaves as they are.
LEMMA QuietCalls ==
  ASSUME IInv, MarksOK, NEW t \in Threads,
         \/ Begin(t) \/ Lookup(t) \/ RetireLeaf(t) \/ SwapRoot(t) \/ BeginEntryRemove(t)
         \/ CloneEntry(t) \/ DropEntry(t)
  PROVE  MarksOK'
<1>1. ThreadEffect(t)
  BY BeginStep, LookupStep, RetireLeafStep, SwapRootStep, BeginEntryRemoveStep, CloneEntryStep, DropEntryStep
<1>2. run[t].pc \in {"idle", "lookup", "retire", "swap"} /\ mem' = mem
  BY Zenon DEF Begin, Lookup, RetireLeaf, SwapRoot, BeginEntryRemove, CloneEntry, DropEntry, CanBegin
<1>3. QED
  BY <1>1, <1>2, QuietMarks

LEMMA QuietGuards ==
  ASSUME IInv, MarksOK, NEW t \in Threads,
         \/ PinUser(t) \/ DropGuard(t) \/ BeginIter(t) \/ FillBatch(t) \/ NextEntry(t) \/ DropIter(t)
         \/ Teardown(t) \/ Reinit(t) \/ Skip(t)
  PROVE  MarksOK'
<1>1. ThreadEffect(t)
  BY PinUserThreadStep, DropGuardStep, BeginIterStep, FillBatchStep, NextEntryStep, DropIterStep, PassStep, ReinitStep
<1>2. run[t].pc = "idle" /\ mem' = mem
  BY Zenon DEF PinUser, DropGuard, BeginIter, FillBatch, NextEntry, DropIter, Teardown, Reinit, Skip, CanBegin
<1>3. QED
  BY <1>1, <1>2, QuietMarks

LEMMA NextMarks ==
  ASSUME IInv, MarksOK, [Next]_vars
  PROVE  MarksOK'
<1>1. ASSUME NEW t \in Threads, Step(t) PROVE MarksOK'
  BY <1>1, QuietCalls, QuietGuards, RepinMarks, AllocMarks, InstallMarks, TakeOutMarks, MarkRemovedMarks,
     SweepMarks, EntryRemoveMarks DEF Step
<1>2. CASE Advance \/ Over \/ UNCHANGED vars
  <2>1. mem' = mem /\ run' = run
    BY <1>2, Zenon DEF Advance, Over, vars
  <2>2. QED
    BY <2>1, MarksMove DEF MarkersKept
<1>3. CASE Collect \/ DropMap
  BY <1>3, FreedMarks
<1>4. QED
  BY <1>1, <1>2, <1>3 DEF Next

-----------------------------------------------------------------------------
(* The theorems *)

\* Every state that ArtMap and ArtSet can be in satisfies the invariant: the
\* types, where each call is, who holds each guard and how often each Local is
\* pinned, who owns each leaf, and what protects each reference to one.
THEOREM Invariance == Spec => []IInv
<1>1. Init => IInv
  BY InitInv
<1>2. IInv /\ [Next]_vars => IInv'
  BY NextInv
<1>3. QED
  BY <1>1, <1>2, PTL DEF Spec

\* Memory behind an EntryRef, or behind an entry that an iterator has read
\* ahead, is not given to another entry while the handle exists, in whatever
\* way it was made: guard.rs and entry.rs keep it pinned through every clone,
\* drop, repin and thread teardown.
THEOREM HandleValidCorrect == Spec => []HandleValid
<1>1. IInv => HandleValid
  BY DEF IInv, RefsOK, HandleSafe, AheadSafe, Safe, HandleValid
<1>2. QED
  BY <1>1, Invariance, PTL

\* Of all inserts, removes, EntryRef::remove calls and clears that race for an
\* entry, one takes it out; and retire_leaf's destructor finds the leaf it was
\* deferred for.
THEOREM TakenOnceCorrect == Spec => []TakenOnce
<1>1. ASSUME IInv PROVE TakenOnce
  <2>1. UnlinkedOK(mem, Retiring, garbage) /\ EntriesOK(mem, Retiring, hist.made, hist.taken)
    BY <1>1, LeavesNow DEF LeavesInv
  <2>2. QED
    BY <2>1 DEF UnlinkedOK, EntriesOK, TakenOnce
<1>2. QED
  BY <1>1, Invariance, PTL

\* The leaves that are marked are unlinked, and those that are unlinked are marked
\* or about to be: a mark_removed between the unlinking store and retire_leaf is
\* never left out.
THEOREM MarksInvariance == Spec => []MarksOK
<1>1. Init => MarksOK
  BY DEF Init, MarksOK, Free
<1>2. IInv /\ MarksOK /\ [Next]_vars => MarksOK'
  BY NextMarks
<1>3. QED
  BY <1>1, <1>2, Invariance, PTL DEF Spec

\* EntryRef::is_removed never answers true for the entry that is in the map, and
\* false for another only as long as the call that took it out is running: the
\* insert or remove that has stored and not marked yet, or the clear that has not
\* come to it.
THEOREM RemovedToldCorrect == Spec => []RemovedTold
<1>1. ASSUME IInv, MarksOK PROVE RemovedTold
  <2>1. /\ LinkedOK(Slots, mem) /\ EntriesOK(mem, Retiring, hist.made, hist.taken)
        /\ LeavesTypeOK /\ CallsTypeOK /\ RefsOK /\ RunsOK
    BY <1>1, LeavesNow DEF LeavesInv, IInv, HandlesTypeOK
  <2>2. /\ Slots[None] = map /\ None \in Trees /\ Threads \subseteq Trees
        /\ \A u \in Threads : Slots[u] = detached[u]
    BY <2>1, SlotsType
  <2>3. ASSUME NEW t \in Threads, NEW h \in HandleIds, handles[t][h] # None,
               NEW x \in Addresses, x = handles[t][h].leaf
        PROVE  /\ map[mem[x].key] = x => ~mem[x].removed
               /\ map[mem[x].key] # x /\ ~mem[x].removed =>
                    \/ \E u \in Threads : run[u].pc = "mark" /\ run[u].leaf = x
                    \/ \E s \in Threads : /\ run[s].call # None /\ run[s].call.op = "clear"
                                          /\ \E k \in Keys : detached[s][k] = x
    <3>1. mem[x].state \in {"linked", "unlinked"}
      BY <2>1, <2>3 DEF RefsOK, HandleSafe, Safe
    <3>2. mem[x].key \in Keys
      BY <2>1, <3>1 DEF EntriesOK
    <3>3. mem[x].removed \in BOOLEAN
      BY <2>1 DEF LeavesTypeOK, Memory
    <3>4. ASSUME map[mem[x].key] = x PROVE ~mem[x].removed
      <4>1. mem[x].state = "linked"
        BY <2>1, <2>2, <3>2, <3>4 DEF LinkedOK
      <4>2. mem[x].removed # TRUE
        BY <1>1, <4>1 DEF MarksOK
      <4>3. QED
        BY <3>3, <4>2
    <3>5. ASSUME map[mem[x].key] # x, mem[x].state = "linked"
          PROVE  \E s \in Threads : /\ run[s].call # None /\ run[s].call.op = "clear"
                                    /\ \E k \in Keys : detached[s][k] = x
      <4>1. PICK s \in Trees : Slots[s][mem[x].key] = x
        BY <2>1, <3>5 DEF LinkedOK
      <4>2. s \in Threads /\ detached[s][mem[x].key] = x
        BY <2>2, <3>5, <4>1 DEF Trees
      <4>3. detached[s][mem[x].key] # Obsolete
        BY <4>2, NotAddresses
      <4>4. run[s].call \in Calls /\ run[s].call.op = "clear"
        BY <2>1, <3>2, <4>2, <4>3 DEF RunsOK, RunOK
      <4>5. run[s].call # None
        BY <4>4 DEF Calls, None
      <4>6. QED
        BY <3>2, <4>2, <4>4, <4>5
    <3>6. ASSUME mem[x].state = "unlinked", ~mem[x].removed
          PROVE  \E u \in Threads : run[u].pc = "mark" /\ run[u].leaf = x
      BY <1>1, <3>6 DEF MarksOK, MarkPending
    <3>7. QED
      BY <3>1, <3>4, <3>5, <3>6
  <2>4. \A t \in Threads, h \in HandleIds : handles[t][h] # None => handles[t][h].leaf \in Addresses
    BY <2>1 DEF CallsTypeOK, Refs
  <2>5. QED
    BY <2>3, <2>4 DEF RemovedTold
<1>2. QED
  BY <1>1, Invariance, MarksInvariance, PTL

\* No pin outlives what holds it, so guard.rs never stops the epoch for good,
\* and once Tree::drop has run and the epochs have passed, every leaf was freed.
THEOREM ReclaimedCorrect == Spec => []Reclaimed
<1>1. ASSUME IInv PROVE PinsHeld
  <2> SUFFICES ASSUME NEW l \in Locals
               PROVE  local[l].pins =
                        Cardinality({g \in GuardIds : /\ guards[l[1]][g] # None /\ guards[l[1]][g].local = l
                                                      /\ (Borrowed(l[1], g) \/ user[l[1]] = g)})
    BY DEF PinsHeld
  <2>1. PICK t \in Threads, n \in LocalIds : l = <<t, n>>
    BY DEF Locals
  <2>2. PinsOK(t, guards[t], user[t], Holds(t), local) /\ CallsTypeOK
    BY <1>1, MyPins
  <2>3. local[l].pins = Cardinality(On(guards[t], l))
    BY <2>1, <2>2 DEF PinsOK, PinsCounted
  <2>4. ASSUME NEW g \in GuardIds, guards[t][g] # None
        PROVE  Borrowed(t, g) \/ user[t] = g
    <3>1. g # 0
      BY GuardsNotZero
    <3>2. user[t] = g \/ \E h \in Holders : Holds(t)[h].guard = g
      BY <2>2, <2>4 DEF PinsOK, AllHeld
    <3>3. QED
      BY <3>1, <3>2, HoldersFacts DEF Borrowed, Holds, HoldOf, NoHold
  <2>5. l[1] = t
    BY <2>1
  <2>6. {g \in GuardIds : /\ guards[l[1]][g] # None /\ guards[l[1]][g].local = l
                          /\ (Borrowed(l[1], g) \/ user[l[1]] = g)} = On(guards[t], l)
    BY <2>4, <2>5 DEF On
  <2>7. QED
    BY <2>3, <2>6
<1>2. ASSUME IInv, hist.over, garbage = {}, NEW x \in Addresses PROVE mem[x].state = "free"
  <2>1. /\ LinkedOK(Slots, mem) /\ OwnedOK(mem, Owned) /\ UnlinkedOK(mem, Retiring, garbage)
        /\ LeavesTypeOK
    BY <1>2, LeavesNow DEF LeavesInv, IInv, HandlesTypeOK
  <2>2. (\A t \in Threads : run[t].pc = "idle") /\ \A k \in Keys : map[k] = 0
    BY <1>2 DEF IInv, OverOK, Unborrowed
  <2>3. \A t \in Threads, k \in Keys : detached[t][k] = Obsolete
    BY <1>2, <2>2, NotClearing
  <2>4. \A s \in Trees, k \in Keys : Slots[s][k] \notin Addresses
    <3>1. /\ Slots[None] = map /\ \A u \in Threads : Slots[u] = detached[u]
      BY <2>1, SlotsType
    <3>2. \A s \in Trees, k \in Keys : Slots[s][k] = 0 \/ Slots[s][k] = Obsolete
      BY <2>2, <2>3, <3>1 DEF Trees
    <3>3. QED
      BY <3>2, NotAddresses
  <2>5. \A t \in Threads : Owned[t] = 0 /\ Retiring[t] = 0
    BY <2>2 DEF Owned, Retiring
  <2>6. mem[x].state # "linked"
    BY <2>1, <2>4 DEF LinkedOK
  <2>7. mem[x].state # "owned"
    BY <2>1, <2>5, NotAddresses DEF OwnedOK
  <2>8. mem[x].state # "unlinked"
    BY <1>2, <2>1, <2>5, NotAddresses DEF UnlinkedOK
  <2>9. mem[x].state \in {"free", "owned", "linked", "unlinked"}
    BY <2>1 DEF LeavesTypeOK, Memory
  <2>10. QED
    BY <2>6, <2>7, <2>8, <2>9
<1>3. IInv => Reclaimed
  BY <1>1, <1>2 DEF Reclaimed, NothingLeaks
<1>4. QED
  BY <1>3, Invariance, PTL

=============================================================================

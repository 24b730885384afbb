------------------------------ MODULE Handles ------------------------------
(***************************************************************************)
(* ArtMap and ArtSet as their callers see them: calls, entry handles,      *)
(* iterators and epoch guards (src/src/lib.rs, set.rs, entry.rs, iter.rs,  *)
(* guard.rs, tree.rs), and the reclamation of what they hold.  A write to  *)
(* the tree is three steps here: the store that takes effect (RawTree      *)
(* shows that there is one), the mark of the leaf that it unlinked, and    *)
(* the retirement.  The latch that is held from the store to the mark is   *)
(* RawTree's: here other writers may come between, which only adds         *)
(* behaviours.  crossbeam-epoch is external and modelled from how guard.rs *)
(* uses it: a participant (Local) counts its guards and stands at one      *)
(* epoch while it has any, the epoch advances once every pinned Local has  *)
(* reached it, and what was retired two epochs ago is freed.  Memory that  *)
(* was freed is used again, for another entry.                             *)
(***************************************************************************)
EXTENDS Integers, Sequences, FiniteSets, FiniteSetsExt

CONSTANTS
  Threads,
  Keys,        \* positive integers, in the order of the keys
  Addresses,   \* memory for leaves
  MaxParts,    \* bound: participants of a thread, one after the other
  MaxGuards,   \* bound: pins of a thread at a time
  MaxHandles,  \* bound: handles of a thread at a time
  MaxEpoch,    \* bound: the epochs
  MaxEntries,  \* bound: leaves allocated
  Programs     \* for each thread a sequence of calls, and for each of these the
               \*   set it chooses from

None == <<>>

Ops == {"get", "insert", "getOrInsert", "insertIfAbsent", "remove", "clear", "entryRemove",
        "clone", "pin", "repin", "iter", "next", "teardown"}
Calls == [op : Ops, key : Keys, with : BOOLEAN]

ASSUME HandlesAssumption ==
  /\ None \notin Threads
  /\ Keys \subseteq Nat \ {0} /\ IsFiniteSet(Keys) /\ Addresses \subseteq Nat \ {0}
  /\ MaxParts \in Nat \ {0} /\ MaxGuards \in Nat \ {0} /\ MaxHandles \in Nat \ {0}
  /\ MaxEpoch \in Nat /\ MaxEntries \in Nat
  /\ Programs \subseteq [Threads -> Seq(SUBSET Calls)]

VARIABLES
  map,      \* the leaf of each key, or 0
  detached, \* for each thread the tree that its clear took down: the leaf of each
            \*   key, or 0, or Obsolete where the node is obsolete already
  mem,      \* the leaves: state, key, entry (which of all entries), removed
  garbage,  \* deferred destructors
  epoch, local,
  tls,      \* the PARTICIPANT of each thread: its id, and whether it is live
  guards,   \* the crossbeam guards of each thread
  user,     \* the Guard that a thread got from pin(), or 0
  handles, iter,
  run,      \* the call a thread is in
  prog,
  hist      \* history: entries allocated, how often each was unlinked, and
            \*   whether the map is dropped

vars == <<map, detached, mem, garbage, epoch, local, tls, guards, user, handles, iter, run, prog, hist>>
pins == <<local, guards>>

Obsolete == -1
GuardIds == 1 .. MaxGuards
HandleIds == 1 .. MaxHandles
LocalIds == 1 .. MaxParts + MaxGuards
Locals == Threads \X LocalIds

\* A thread that has made n calls, in the call c with guard g or in none.
Running(n, c, pc, g, kind, h) ==
  [pc |-> pc, at |-> n, call |-> c, guard |-> g, kind |-> kind,
   leaf |-> 0, own |-> 0, handle |-> h, inside |-> None]
IdleAfter(n) == Running(n, None, "idle", 0, "none", 0)

Free == [state |-> "free", key |-> 0, entry |-> 0, removed |-> FALSE]

-----------------------------------------------------------------------------
(* crossbeam-epoch *)

PinnedOn(l) ==
  [local EXCEPT ![l] = [pins |-> @.pins + 1, epoch |-> IF @.pins = 0 THEN epoch ELSE @.epoch]]
UnpinnedFrom(l) == [local EXCEPT ![l].pins = @ - 1]

\* Guard::repin: alone on its Local, it moves to the epoch of now.
RepinnedAlways(l) == [local EXCEPT ![l].epoch = epoch]  \* mutant
Repinned(l) == IF local[l].pins = 1 THEN [local EXCEPT ![l].epoch = epoch] ELSE local

Advance ==
  /\ epoch < MaxEpoch
  /\ \A l \in Locals : local[l].pins > 0 => local[l].epoch = epoch
  /\ epoch' = epoch + 1
  /\ UNCHANGED <<map, detached, mem, garbage, pins, tls, user, handles, iter, run, prog, hist>>

\* The deferred destructor: into_box, drop.
Collect ==
  /\ \E g \in garbage :
       /\ epoch - g.epoch >= 2
       /\ garbage' = garbage \ {g}
       /\ mem' = [mem EXCEPT ![g.leaf] = Free]
  /\ UNCHANGED <<map, detached, epoch, pins, tls, user, handles, iter, run, prog, hist>>

-----------------------------------------------------------------------------
(* guard.rs *)

FreeGuard(t) == Min({g \in GuardIds : guards[t][g] = None})
HasGuard(t) == \E g \in GuardIds : guards[t][g] = None

\* A Local that this thread registers now, as it has no participant any more.
FreshIds == MaxParts + 1 .. MaxParts + MaxGuards
FreshLocal(t) == <<t, Min({n \in FreshIds : local[<<t, n>>].pins = 0})>>

\* pin_tagged: on the thread's participant, tagged with it; after its
\* destruction on a Local of its own, with tag 0.
LocalOf(t) == IF tls[t].live THEN <<t, tls[t].id>> ELSE FreshLocal(t)
TagOf(t) == IF tls[t].live THEN tls[t].id ELSE 0
PinTagged(t) ==
  /\ HasGuard(t)
  /\ local' = PinnedOn(LocalOf(t))
  /\ guards' = [guards EXCEPT ![t][FreeGuard(t)] = [local |-> LocalOf(t), tag |-> TagOf(t), rc |-> 1]]

\* nested_pin: only if it lands on the guard's own Local.
ProvenByLife(t, g) == g.tag # 0 /\ tls[t].live          \* mutant
Proven(t, g) == g.tag # 0 /\ tls[t].live /\ tls[t].id = g.tag
NestedPin(t, g) ==
  /\ HasGuard(t)
  /\ local' = PinnedOn(LocalOf(t))
  /\ guards' = [guards EXCEPT ![t][FreeGuard(t)] = [local |-> LocalOf(t), tag |-> g.tag, rc |-> 1]]

Unpin(t, g) ==
  /\ local' = UnpinnedFrom(guards[t][g].local)
  /\ guards' = [guards EXCEPT ![t][g] = None]

\* A GuardHandle is dropped: Owned, Shared or Borrowed.
DropGuardHandleLeaksRc(t, g, kind) ==                   \* mutant
  IF kind = "owned" THEN Unpin(t, g) ELSE UNCHANGED pins
DropGuardHandle(t, g, kind) ==
  CASE kind = "owned" -> Unpin(t, g)
    [] kind = "shared" /\ guards[t][g].rc = 1 -> Unpin(t, g)
    [] kind = "shared" /\ guards[t][g].rc > 1 ->
         guards' = [guards EXCEPT ![t][g].rc = @ - 1] /\ UNCHANGED local
    [] OTHER -> UNCHANGED pins

\* GuardHandle::duplicate; a nested pin that cannot be proven panics, and its
\* caller has no second handle.
Duplicate(t, g, kind) ==
  CASE kind = "owned" -> Proven(t, guards[t][g]) /\ NestedPin(t, guards[t][g])
    [] kind = "shared" -> guards' = [guards EXCEPT ![t][g].rc = @ + 1] /\ UNCHANGED local
    [] OTHER -> UNCHANGED pins
DuplicateOf(t, g, kind) == IF kind = "owned" THEN FreeGuard(t) ELSE g

Borrowed(t, g) ==
  \/ \E h \in HandleIds : handles[t][h] # None /\ handles[t][h].guard = g
  \/ iter[t] # None /\ iter[t].guard = g
  \/ run[t].guard = g

-----------------------------------------------------------------------------
(* Handles *)

HasHandle(t) == \E h \in HandleIds : handles[t][h] = None
FreeHandle(t) == Min({h \in HandleIds : handles[t][h] = None})

Ref(x, g, kind) == [leaf |-> x, entry |-> mem[x].entry, guard |-> g, kind |-> kind]

Idle(t) == IdleAfter(run[t].at)

\* The call ends with a handle, which takes over its guard.
Give(t, x) ==
  /\ handles' = [handles EXCEPT ![t][FreeHandle(t)] = Ref(x, run[t].guard, run[t].kind)]
  /\ run' = [run EXCEPT ![t] = Idle(t)]
  /\ UNCHANGED pins

\* It ends without one, and its guard is dropped.
End(t) ==
  /\ DropGuardHandle(t, run[t].guard, run[t].kind)
  /\ run' = [run EXCEPT ![t] = Idle(t)]
  /\ UNCHANGED handles

-----------------------------------------------------------------------------
(* Calls *)

Next1(t) == prog[t][run[t].at + 1]
CanBegin(t) == run[t].pc = "idle" /\ run[t].at < Len(prog[t]) /\ HasHandle(t)
Entered(t, c, pc, g, kind, h) == Running(run[t].at + 1, c, pc, g, kind, h)

First(op) ==
  CASE op \in {"get", "getOrInsert", "insertIfAbsent"} -> "lookup"
    [] op = "insert" -> "alloc"
    [] op = "remove" -> "takeout"
    [] op = "clear" -> "swap"

\* A call that pins for itself, or borrows the caller's guard.
Begin(t) ==
  /\ CanBegin(t)
  /\ \E c \in Next1(t) :
       /\ c.op \in {"get", "insert", "getOrInsert", "insertIfAbsent", "remove", "clear"}
       /\ \/ /\ ~c.with /\ PinTagged(t)
             /\ run' = [run EXCEPT ![t] = Entered(t, c, First(c.op), FreeGuard(t), "owned", 0)]
          \/ /\ c.with /\ user[t] # 0
             /\ run' = [run EXCEPT ![t] = Entered(t, c, First(c.op), user[t], "borrowed", 0)]
             /\ UNCHANGED pins
  /\ UNCHANGED <<map, detached, mem, garbage, epoch, tls, user, handles, iter, prog, hist>>

\* raw.get: the answer, or for an insert a hint.
Lookup(t) ==
  /\ run[t].pc = "lookup"
  /\ LET x == map[run[t].call.key]
         op == run[t].call.op
     IN  \/ x = 0 /\ op = "get" /\ End(t)
         \/ x = 0 /\ op # "get" /\ run' = [run EXCEPT ![t].pc = "alloc"] /\ UNCHANGED <<handles, pins>>
         \/ x # 0 /\ op # "insertIfAbsent" /\ Give(t, x)
         \/ x # 0 /\ op = "insertIfAbsent" /\ End(t)
  /\ UNCHANGED <<map, detached, mem, garbage, epoch, tls, user, iter, prog, hist>>

\* Tree::insert: the leaf is boxed, in memory that may have been freed before.
FreeAddresses == {x \in Addresses : mem[x].state = "free"}
Alloc(t) ==
  /\ run[t].pc = "alloc" /\ hist.made < MaxEntries
  /\ FreeAddresses # {}
  /\ LET x == Min(FreeAddresses)
     IN  /\ mem' = [mem EXCEPT ![x] = [state |-> "owned", key |-> run[t].call.key,
                                       entry |-> hist.made + 1, removed |-> FALSE]]
         /\ run' = [run EXCEPT ![t].own = x, ![t].pc = "install"]
  /\ hist' = [hist EXCEPT !.made = @ + 1]
  /\ UNCHANGED <<map, detached, garbage, epoch, pins, tls, user, handles, iter, prog>>

\* The store that takes a leaf out of the tree; mark_removed comes after it.
Unlinked(x) == [mem EXCEPT ![x].state = "unlinked"]

\* A leaf that was not published is dropped by its owner, after the call.
DroppedLeaks(x) == mem                                  \* mutant
Dropped(x) == [mem EXCEPT ![x] = Free]

\* The tree that a write is in: the map's, or one that a clear detached while the
\* write was on its way down, as long as the node of its key is not obsolete.
Inside(t, k) == run[t].inside # None /\ detached[run[t].inside][k] # Obsolete
LeafOf(t, k) == IF Inside(t, k) THEN detached[run[t].inside][k] ELSE map[k]
Put(t, k, x) ==
  IF Inside(t, k)
    THEN detached' = [detached EXCEPT ![run[t].inside][k] = x] /\ UNCHANGED map
    ELSE map' = [map EXCEPT ![k] = x] /\ UNCHANGED detached

Install(t) ==
  /\ run[t].pc = "install"
  /\ LET k == run[t].call.key
         old == LeafOf(t, k)
         new == run[t].own
         op == run[t].call.op
         linked(m) == [m EXCEPT ![new].state = "linked"]
     IN  \/ /\ op = "insert" /\ old # 0
            /\ Put(t, k, new)
            /\ mem' = linked(Unlinked(old))
            /\ run' = [run EXCEPT ![t].pc = "mark", ![t].leaf = old]
            /\ UNCHANGED <<handles, pins>>
         \/ /\ old = 0
            /\ Put(t, k, new)
            /\ mem' = linked(mem)
            /\ IF op = "getOrInsert" THEN Give(t, new) ELSE End(t)
         \/ /\ op # "insert" /\ old # 0
            /\ mem' = Dropped(new)
            /\ IF op = "getOrInsert" THEN Give(t, old) ELSE End(t)
            /\ UNCHANGED <<map, detached>>
  /\ UNCHANGED <<garbage, epoch, tls, user, iter, prog, hist>>

\* Tree::remove.
TakeOut(t) ==
  /\ run[t].pc = "takeout"
  /\ LET k == run[t].call.key
         x == LeafOf(t, k)
     IN  \/ /\ x = 0 /\ End(t)
            /\ UNCHANGED <<map, detached, mem>>
         \/ /\ x # 0
            /\ Put(t, k, 0) /\ mem' = Unlinked(x)
            /\ run' = [run EXCEPT ![t].pc = "mark", ![t].leaf = x]
            /\ UNCHANGED <<handles, pins>>
  /\ UNCHANGED <<garbage, epoch, tls, user, iter, prog, hist>>

\* mark_removed, of the leaf that was replaced or removed, before its latch is
\* released: is_removed takes no latch, nor does a get that finds a root leaf.
MarkedUnlessReplaced(t) ==                              \* mutant
  IF run[t].call.op = "insert" THEN mem ELSE [mem EXCEPT ![run[t].leaf].removed = TRUE]
Marked(t) == [mem EXCEPT ![run[t].leaf].removed = TRUE]
MarkRemoved(t) ==
  /\ run[t].pc = "mark"
  /\ mem' = Marked(t)
  /\ run' = [run EXCEPT ![t].pc = "retire"]
  /\ UNCHANGED <<map, detached, garbage, epoch, pins, tls, user, handles, iter, prog, hist>>

\* retire_leaf, through the guard of the call or of its handle.
RetireLeaf(t) ==
  /\ run[t].pc = "retire"
  /\ LET x == run[t].leaf
         op == run[t].call.op
     IN  /\ garbage' = garbage \cup {[leaf |-> x, entry |-> mem[x].entry, epoch |-> epoch]}
         /\ hist' = [hist EXCEPT !.taken[mem[x].entry] = @ + 1]
         /\ CASE op \in {"insert", "remove"} -> Give(t, x)
              [] op = "clear" -> run' = [run EXCEPT ![t].pc = "sweep"] /\ UNCHANGED <<handles, pins>>
              [] OTHER -> End(t)
  /\ UNCHANGED <<map, detached, mem, epoch, tls, user, iter, prog>>

\* clear: the root is swapped, with some of the writes already below it; an empty
\* tree needs no more.
SwapRoot(t) ==
  /\ run[t].pc = "swap"
  /\ map' = [k \in Keys |-> 0]
  /\ detached' = [detached EXCEPT ![t] =
                    IF \A k \in Keys : map[k] = 0 THEN [k \in Keys |-> Obsolete] ELSE map]
  /\ \E below \in SUBSET {u \in Threads : run[u].pc \in {"install", "takeout", "entry"}
                                         /\ run[u].inside = None} :
       run' = [u \in Threads |->
                 IF u = t THEN [run[t] EXCEPT !.pc = "sweep"]
                 ELSE IF u \in below THEN [run[u] EXCEPT !.inside = t]
                 ELSE run[u]]
  /\ UNCHANGED <<mem, garbage, epoch, pins, tls, user, handles, iter, prog, hist>>

\* The nodes are made obsolete and the leaves marked and retired one by one.  A
\* leaf is marked before its node is obsolete, so while it is still detached.
Swept(x) == [mem EXCEPT ![x].removed = TRUE, ![x].state = "unlinked"]
Outside(t) == [u \in Threads |-> IF run[u].inside = t THEN [run[u] EXCEPT !.inside = None] ELSE run[u]]
Sweep(t) ==
  /\ run[t].pc = "sweep"
  /\ \/ /\ \A k \in Keys : detached[t][k] = Obsolete
        /\ DropGuardHandle(t, run[t].guard, run[t].kind)
        /\ run' = [Outside(t) EXCEPT ![t] = Idle(t)]
        /\ UNCHANGED <<handles, detached, mem>>
     \/ \E k \in Keys :
          /\ detached[t][k] # Obsolete
          /\ detached' = [detached EXCEPT ![t][k] = Obsolete]
          /\ LET x == detached[t][k]
             IN  \/ x = 0 /\ UNCHANGED <<mem, run>>
                 \/ /\ x # 0 /\ mem' = Swept(x)
                    /\ run' = [run EXCEPT ![t].pc = "retire", ![t].leaf = x]
          /\ UNCHANGED <<handles, pins>>
  /\ UNCHANGED <<map, garbage, epoch, tls, user, iter, prog, hist>>

-----------------------------------------------------------------------------
(* EntryRef *)

\* EntryRef::remove, Tree::remove_leaf: is_removed, then by identity.
BeginEntryRemove(t) ==
  /\ CanBegin(t)
  /\ \E c \in Next1(t), h \in HandleIds :
       /\ c.op = "entryRemove" /\ handles[t][h] # None
       /\ run' = [run EXCEPT ![t] =
                    IF mem[handles[t][h].leaf].removed THEN IdleAfter(run[t].at + 1)
                    ELSE Entered(t, c, "entry", 0, "none", h)]
  /\ UNCHANGED <<map, detached, mem, garbage, epoch, pins, tls, user, handles, iter, prog, hist>>

IsEntryByKey(t, x) == LeafOf(t, mem[x].key) # 0         \* mutant
IsEntry(t, x) == LeafOf(t, mem[x].key) = x
EntryRemove(t) ==
  /\ run[t].pc = "entry"
  /\ LET x == handles[t][run[t].handle].leaf
     IN  \/ /\ ~IsEntry(t, x)
            /\ run' = [run EXCEPT ![t] = Idle(t)]
            /\ UNCHANGED <<map, detached, mem>>
         \/ /\ IsEntry(t, x)
            /\ Put(t, mem[x].key, 0)
            /\ mem' = Unlinked(x)
            /\ run' = [run EXCEPT ![t].pc = "mark", ![t].leaf = x]
  /\ UNCHANGED <<garbage, epoch, pins, tls, user, handles, iter, prog, hist>>

\* EntryRef::clone.
CloneEntry(t) ==
  /\ CanBegin(t)
  /\ \E c \in Next1(t), h \in HandleIds :
       /\ c.op = "clone" /\ handles[t][h] # None
       /\ LET e == handles[t][h]
          IN  /\ Duplicate(t, e.guard, e.kind)
              /\ handles' = [handles EXCEPT ![t][FreeHandle(t)] =
                               [e EXCEPT !.guard = DuplicateOf(t, e.guard, e.kind)]]
  /\ run' = [run EXCEPT ![t].at = @ + 1]
  /\ UNCHANGED <<map, detached, mem, garbage, epoch, tls, user, iter, prog, hist>>

DropEntry(t) ==
  /\ run[t].pc = "idle"
  /\ \E h \in HandleIds :
       /\ handles[t][h] # None
       /\ DropGuardHandle(t, handles[t][h].guard, handles[t][h].kind)
       /\ handles' = [handles EXCEPT ![t][h] = None]
  /\ UNCHANGED <<map, detached, mem, garbage, epoch, tls, user, iter, run, prog, hist>>

-----------------------------------------------------------------------------
(* Guard and iterators *)

\* ArtMap::pin.
PinUser(t) ==
  /\ CanBegin(t) /\ user[t] = 0
  /\ \E c \in Next1(t) : c.op = "pin"
  /\ PinTagged(t)
  /\ user' = [user EXCEPT ![t] = FreeGuard(t)]
  /\ run' = [run EXCEPT ![t].at = @ + 1]
  /\ UNCHANGED <<map, detached, mem, garbage, epoch, tls, handles, iter, prog, hist>>

\* Guard::repin and the drop of a Guard: not while it is borrowed.
Repin(t) ==
  /\ CanBegin(t) /\ user[t] # 0 /\ ~Borrowed(t, user[t])
  /\ \E c \in Next1(t) : c.op = "repin"
  /\ local' = Repinned(guards[t][user[t]].local)
  /\ run' = [run EXCEPT ![t].at = @ + 1]
  /\ UNCHANGED <<map, detached, mem, garbage, epoch, guards, tls, user, handles, iter, prog, hist>>

DropGuard(t) ==
  /\ run[t].pc = "idle" /\ user[t] # 0 /\ ~Borrowed(t, user[t])
  /\ Unpin(t, user[t])
  /\ user' = [user EXCEPT ![t] = 0]
  /\ UNCHANGED <<map, detached, mem, garbage, epoch, tls, handles, iter, run, prog, hist>>

\* Range::owned and Range::borrowed.
BeginIter(t) ==
  /\ CanBegin(t) /\ iter[t] = None
  /\ \E c \in Next1(t) :
       /\ c.op = "iter"
       /\ \/ /\ ~c.with /\ PinTagged(t)
             /\ iter' = [iter EXCEPT ![t] =
                           [guard |-> FreeGuard(t), kind |-> "shared", key |-> 0, batch |-> <<>>]]
          \/ /\ c.with /\ user[t] # 0
             /\ iter' = [iter EXCEPT ![t] =
                           [guard |-> user[t], kind |-> "borrowed", key |-> 0, batch |-> <<>>]]
             /\ UNCHANGED pins
  /\ run' = [run EXCEPT ![t].at = @ + 1]
  /\ UNCHANGED <<map, detached, mem, garbage, epoch, tls, user, handles, prog, hist>>

\* The cursor reads leaves ahead, and hands them out later.
FillBatch(t) ==
  /\ run[t].pc = "idle" /\ iter[t] # None /\ iter[t].batch = <<>>
  /\ LET ahead == {k \in Keys : k > iter[t].key /\ map[k] # 0}
     IN  /\ ahead # {}
         /\ \E ordered \in [1 .. Cardinality(ahead) -> ahead] :
              /\ \A i, j \in DOMAIN ordered : i < j => ordered[i] < ordered[j]
              /\ iter' = [iter EXCEPT ![t].batch = [i \in DOMAIN ordered |->
                            [leaf |-> map[ordered[i]], entry |-> mem[map[ordered[i]]].entry]]]
  /\ UNCHANGED <<map, detached, mem, garbage, epoch, pins, tls, user, handles, run, prog, hist>>

\* Range::next: an entry that shares the iterator's guard.
NextEntry(t) ==
  /\ CanBegin(t) /\ iter[t] # None /\ iter[t].batch # <<>>
  /\ \E c \in Next1(t) : c.op = "next"
  /\ LET i == iter[t]
         x == Head(i.batch).leaf
     IN  /\ Duplicate(t, i.guard, i.kind)
         /\ handles' = [handles EXCEPT ![t][FreeHandle(t)] =
                          [leaf |-> x, entry |-> Head(i.batch).entry, guard |-> i.guard,
                           kind |-> i.kind]]
         /\ iter' = [iter EXCEPT ![t].batch = Tail(@), ![t].key = mem[x].key]
  /\ run' = [run EXCEPT ![t].at = @ + 1]
  /\ UNCHANGED <<map, detached, mem, garbage, epoch, tls, user, prog, hist>>

DropIter(t) ==
  /\ run[t].pc = "idle" /\ iter[t] # None
  /\ DropGuardHandle(t, iter[t].guard, iter[t].kind)
  /\ iter' = [iter EXCEPT ![t] = None]
  /\ UNCHANGED <<map, detached, mem, garbage, epoch, tls, user, handles, run, prog, hist>>

\* The thread's PARTICIPANT is destroyed; what it pinned stays pinned, and
\* destructors that run later may still use the map.
Teardown(t) ==
  /\ CanBegin(t) /\ tls[t].live
  /\ \E c \in Next1(t) : c.op = "teardown"
  /\ tls' = [tls EXCEPT ![t].live = FALSE]
  /\ run' = [run EXCEPT ![t].at = @ + 1]
  /\ UNCHANGED <<map, detached, mem, garbage, epoch, pins, user, handles, iter, prog, hist>>

\* Where std keeps thread locals under OS keys, a use after the destruction
\* initialises PARTICIPANT again: another Local, with another id.
Reinit(t) ==
  /\ run[t].pc = "idle" /\ run[t].at < Len(prog[t])
  /\ ~tls[t].live /\ tls[t].id < MaxParts
  /\ tls' = [tls EXCEPT ![t] = [id |-> @.id + 1, live |-> TRUE]]
  /\ UNCHANGED <<map, detached, mem, garbage, epoch, pins, user, handles, iter, run, prog, hist>>

\* A call whose precondition the thread's own state does not meet is not made.
Skip(t) ==
  /\ run[t].pc = "idle" /\ run[t].at < Len(prog[t])
  /\ run' = [run EXCEPT ![t].at = @ + 1]
  /\ UNCHANGED <<map, detached, mem, garbage, epoch, pins, tls, user, handles, iter, prog, hist>>

-----------------------------------------------------------------------------
(* The specification *)

Unborrowed ==
  \A t \in Threads :
    /\ run[t].pc = "idle" /\ run[t].at = Len(prog[t])
    /\ user[t] = 0 /\ iter[t] = None
    /\ \A h \in HandleIds : handles[t][h] = None

\* Tree::drop, with every borrow of the map gone: what is linked is freed now.
DropMap ==
  /\ Unborrowed /\ ~hist.over
  /\ mem' = [x \in Addresses |-> IF \E k \in Keys : map[k] = x THEN Free ELSE mem[x]]
  /\ map' = [k \in Keys |-> 0]
  /\ hist' = [hist EXCEPT !.over = TRUE]
  /\ UNCHANGED <<detached, garbage, epoch, pins, tls, user, handles, iter, run, prog>>

Over == hist.over /\ UNCHANGED vars

Init ==
  /\ map = [k \in Keys |-> 0]
  /\ detached = [t \in Threads |-> [k \in Keys |-> Obsolete]]
  /\ mem = [x \in Addresses |-> Free]
  /\ garbage = {} /\ epoch = 0 /\ tls = [t \in Threads |-> [id |-> 1, live |-> TRUE]]
  /\ local = [l \in Locals |-> [pins |-> 0, epoch |-> 0]]
  /\ guards = [t \in Threads |-> [g \in GuardIds |-> None]]
  /\ user = [t \in Threads |-> 0]
  /\ handles = [t \in Threads |-> [h \in HandleIds |-> None]]
  /\ iter = [t \in Threads |-> None]
  /\ run = [t \in Threads |-> IdleAfter(0)]
  /\ prog \in Programs
  /\ hist = [made |-> 0, taken |-> [e \in 1 .. MaxEntries |-> 0], over |-> FALSE]

Step(t) ==
  \/ Begin(t) \/ Lookup(t) \/ Alloc(t) \/ Install(t) \/ TakeOut(t) \/ MarkRemoved(t)
  \/ RetireLeaf(t) \/ SwapRoot(t) \/ Sweep(t) \/ BeginEntryRemove(t) \/ EntryRemove(t) \/ CloneEntry(t)
  \/ DropEntry(t) \/ PinUser(t) \/ Repin(t) \/ DropGuard(t) \/ BeginIter(t) \/ FillBatch(t)
  \/ NextEntry(t) \/ DropIter(t) \/ Teardown(t) \/ Reinit(t) \/ Skip(t)

Next == (\E t \in Threads : Step(t)) \/ Advance \/ Collect \/ DropMap \/ Over

Spec == Init /\ [][Next]_vars

-----------------------------------------------------------------------------
(* Properties *)

\* Whatever kind of protection a handle or a leaf read ahead has, and whatever
\* happened to it since (a clone, a drop of the one it was cloned from, a repin
\* elsewhere, the end of its thread), its memory still holds the same entry.
HandleValid ==
  \A t \in Threads :
    /\ \A h \in HandleIds : handles[t][h] # None =>
         mem[handles[t][h].leaf].entry = handles[t][h].entry
    /\ iter[t] # None =>
         \A i \in DOMAIN iter[t].batch : mem[iter[t].batch[i].leaf].entry = iter[t].batch[i].entry

\* An entry is taken out of the map once: by one insert that displaces it, one
\* remove, one EntryRef::remove that returns true, or one clear; and a
\* destructor that is still due finds the leaf it was deferred for.
TakenOnce ==
  /\ \A e \in 1 .. MaxEntries : hist.taken[e] <= 1
  /\ \A g \in garbage : mem[g.leaf].state = "unlinked" /\ mem[g.leaf].entry = g.entry

\* entry.rs: is_removed is "true once this entry is no longer the live entry for
\* its key".  It is never true of the live entry, and false of another only while
\* the call that took it out is still running: the write that stored over it and
\* has not marked it yet, or the clear whose walk has not come to it.
RemovedTold ==
  \A t \in Threads, h \in HandleIds :
    handles[t][h] # None =>
      LET x == handles[t][h].leaf
          live == map[mem[x].key] = x
          marking == \E u \in Threads : run[u].pc = "mark" /\ run[u].leaf = x
          clearing == \E s \in Threads :
                        run[s].call # None /\ run[s].call.op = "clear"
                        /\ \E k \in Keys : detached[s][k] = x
      IN  /\ live => ~mem[x].removed
          /\ ~live /\ ~mem[x].removed => marking \/ clearing

\* A Local is pinned once for every guard that something still holds: no pin
\* outlives its handle, its iterator or its call, which would stop reclamation
\* for the whole process.
PinsHeld ==
  \A l \in Locals :
    local[l].pins =
      Cardinality({g \in GuardIds : /\ guards[l[1]][g] # None /\ guards[l[1]][g].local = l
                                    /\ (Borrowed(l[1], g) \/ user[l[1]] = g)})

\* Once the map is dropped and the epochs have passed, no leaf is left.
NothingLeaks ==
  hist.over /\ garbage = {} => \A x \in Addresses : mem[x].state = "free"

\* Reclamation is neither held up nor cut short: pins are counted exactly, and
\* everything unlinked or left in the map at its end is freed.
Reclaimed == PinsHeld /\ NothingLeaks

=============================================================================

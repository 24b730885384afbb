-------------------------------- MODULE Arena --------------------------------
(***************************************************************************)
(* The bump allocator of src/src/arena/mod.rs: threads reserve byte ranges *)
(* of an arena by a compare-and-swap on its cursor.  A thread that loses a *)
(* race claims a chunk and serves itself from it (its TLAB) until the      *)
(* chunk is used up.  A reset, which needs exclusive access, makes the     *)
(* whole arena available again under a new identity, so that chunks left   *)
(* in the threads' TLABs are never matched again.                          *)
(*                                                                         *)
(* Offsets and sizes are as in the code, with the constants scaled down.   *)
(* compare_exchange_weak may fail with the cursor unchanged; the code then *)
(* computes the same request again, a step that changes nothing and is     *)
(* left out.                                                               *)
(***************************************************************************)
EXTENDS Integers, Sequences, FiniteSets

CONSTANTS
  Threads,    \* the threads that allocate
  Arenas,     \* the arenas they allocate from
  Capacity,   \* the capacity of each arena, a multiple of Unit
  Unit,       \* ARENA_ALIGN: the null region, and the alignment of a chunk
  Slots,      \* how many chunks a thread keeps (SLOTS, 4 in the code)
  MaxChunk,   \* the largest chunk (16 KiB)
  Share,      \* a chunk takes one Share-th of what is left (32)
  Requests,   \* the layouts asked for: [align, size], align at most Unit
  NoTls,      \* threads whose thread-local storage is already torn down
  MaxAllocs,  \* bound: allocations of each thread
  MaxResets   \* bound: resets of all arenas

ASSUME ArenaAssumption ==
  /\ Unit \in Nat \ {0} /\ MaxChunk \in Nat /\ Share \in Nat \ {0} /\ Slots \in Nat \ {0}
  /\ IsFiniteSet(Arenas) /\ Arenas # {}
  /\ Capacity \in [Arenas -> Nat]
  /\ \A a \in Arenas : Capacity[a] >= Unit
  /\ Requests \subseteq [align : 1 .. Unit, size : Nat \ {0}]
  /\ NoTls \subseteq Threads
  /\ MaxAllocs \in [Threads -> Nat]

VARIABLES
  id,       \* the identity of each arena, fresh on every reset
  nextId,   \* the global counter of identities
  cursor,   \* the first byte of each arena that was never handed out
  tlab,     \* the chunks of each thread: <<[arena, cur, end], ...>>
  th,       \* the local state of every thread
  blocks    \* history: the ranges in use: [arena (its identity), lo, hi, by (the call)]

vars == <<id, nextId, cursor, tlab, th, blocks>>

-----------------------------------------------------------------------------
(* Layout arithmetic *)

\* (x + align - 1) & !(align - 1), for a power of two.
AlignUp(x, align) == ((x + align - 1) \div align) * align

\* The chunk that a refill at cursor c of arena a would claim.
ChunkSize(a, c) ==
  LET share == (Capacity[a] - c) \div Share
  IN  IF share < MaxChunk THEN share ELSE MaxChunk

NoRequest == [align |-> 1, size |-> 1]

\* pc: idle, take, load, decide, refill, claim, cas, full.
AfterCalls(n) ==
  [pc |-> "idle", n |-> n, arena |-> CHOOSE a \in Arenas : TRUE, req |-> NoRequest,
   cur |-> 0, rcur |-> 0, contended |-> FALSE]
Resting == AfterCalls(0)

Goto(t, pc) == th' = [th EXCEPT ![t].pc = pc]

\* The call returns the range at lo.
Returned(r) == AfterCalls(r.n)
Block(t, lo) ==
  [arena |-> id[th[t].arena], lo |-> lo, hi |-> lo + th[t].req.size, by |-> <<t, th[t].n>>]

-----------------------------------------------------------------------------
(* tlab: the chunks of a thread *)

Empty == [arena |-> 0, cur |-> 0, end |-> 0]

\* The slot that holds t's chunk for the arena with identity i, or 0.
SlotOf(t, i) ==
  LET at == {s \in 1 .. Slots : tlab[t][s].arena = i}
  IN  IF at = {} THEN 0 ELSE CHOOSE s \in at : \A u \in at : s <= u

\* The slot with the least room, the first of them.
Fullest(t) ==
  LET room(s) == tlab[t][s].end - tlab[t][s].cur
  IN  CHOOSE s \in 1 .. Slots : \A u \in 1 .. Slots : room(s) < room(u) \/ (room(s) = room(u) /\ s <= u)

\* tlab::install: the slot of this arena, an empty one, or the fullest.
Victim(t, i) ==
  CASE SlotOf(t, i) # 0 -> SlotOf(t, i)
    [] SlotOf(t, i) = 0 /\ SlotOf(t, 0) # 0 -> SlotOf(t, 0)
    [] OTHER -> Fullest(t)

\* tlab::take: the request fits in slot c.
Start(c, req) == AlignUp(c.cur, req.align)
FitsPastEnd(c, req) == Start(c, req) < c.end              \* mutant
Fits(c, req) == Start(c, req) + req.size <= c.end

\* c, after the request was carved from it.
CarvedNothing(c, req) == c                                \* mutant
Carved(c, req) == [arena |-> c.arena, cur |-> Start(c, req) + req.size, end |-> c.end]

-----------------------------------------------------------------------------
(* alloc *)

Begin(t) ==
  /\ th[t].pc = "idle" /\ th[t].n < MaxAllocs[t]
  /\ \E a \in Arenas, req \in Requests :
       th' = [th EXCEPT ![t].pc = "take", ![t].n = @ + 1, ![t].arena = a, ![t].req = req,
                        ![t].contended = FALSE]
  /\ UNCHANGED <<id, nextId, cursor, tlab, blocks>>

\* From the thread's own chunk, if it has one for this arena with room.
Take(t) ==
  /\ th[t].pc = "take"
  /\ LET s == IF t \in NoTls THEN 0 ELSE SlotOf(t, id[th[t].arena])
         c == IF s = 0 THEN Empty ELSE tlab[t][s]
         req == th[t].req
     IN  \/ /\ Fits(c, req)
            /\ tlab' = [tlab EXCEPT ![t][s] = Carved(c, req)]
            /\ blocks' = blocks \cup {Block(t, Start(c, req))}
            /\ th' = [th EXCEPT ![t] = Returned(@)]
         \/ /\ ~Fits(c, req)
            /\ Goto(t, "load")
            /\ UNCHANGED <<tlab, blocks>>
  /\ UNCHANGED <<id, nextId, cursor>>

Load(t) ==
  /\ th[t].pc = "load"
  /\ th' = [th EXCEPT ![t].cur = cursor[th[t].arena], ![t].pc = "decide"]
  /\ UNCHANGED <<id, nextId, cursor, tlab, blocks>>

\* The range that the request would take at the cursor value last seen.
LoUnit(t) == AlignUp(th[t].cur, Unit)                     \* mutant
Lo(t) == AlignUp(th[t].cur, th[t].req.align)
Hi(t) == Lo(t) + th[t].req.size

\* Does it fit?  After a lost race, a chunk is claimed first.
Decide(t) ==
  /\ th[t].pc = "decide"
  /\ LET a == th[t].arena
     IN  th' = [th EXCEPT ![t].pc = CASE Hi(t) > Capacity[a] -> "full"
                                      [] Hi(t) <= Capacity[a] /\ th[t].contended -> "refill"
                                      [] OTHER -> "cas",
                          ![t].rcur = th[t].cur]
  /\ UNCHANGED <<id, nextId, cursor, tlab, blocks>>

\* What a failed compare-and-swap reports.
ActualStale(t) == th[t].cur                               \* mutant
Actual(t) == cursor[th[t].arena]

\* The compare-and-swap of alloc.
Cas(t) ==
  /\ th[t].pc = "cas"
  /\ LET a == th[t].arena
     IN  \/ /\ cursor[a] = th[t].cur
            /\ cursor' = [cursor EXCEPT ![a] = Hi(t)]
            /\ blocks' = blocks \cup {Block(t, Lo(t))}
            /\ th' = [th EXCEPT ![t] = Returned(@)]
         \/ /\ cursor[a] # th[t].cur
            /\ th' = [th EXCEPT ![t].cur = Actual(t), ![t].contended = TRUE, ![t].pc = "decide"]
            /\ UNCHANGED <<cursor, blocks>>
  /\ UNCHANGED <<id, nextId, tlab>>

\* refill: too small a chunk, or no room for it, and the caller goes on with
\* an exact-size allocation.
WorthAChunk(t) ==
  LET a == th[t].arena
      chunk == ChunkSize(a, th[t].rcur)
  IN  /\ chunk >= th[t].req.size + th[t].req.align
      /\ AlignUp(th[t].rcur, Unit) + chunk <= Capacity[a]

Refill(t) ==
  /\ th[t].pc = "refill"
  /\ th' = [th EXCEPT ![t].pc = IF WorthAChunk(t) THEN "claim" ELSE "cas",
                      ![t].rcur = IF WorthAChunk(t) THEN @ ELSE 0]
  /\ UNCHANGED <<id, nextId, cursor, tlab, blocks>>

\* The chunk that a refill claims, with the request carved from it.
Chunk(t) ==
  LET start == AlignUp(th[t].rcur, Unit)
  IN  [arena |-> id[th[t].arena], cur |-> start, end |-> start + ChunkSize(th[t].arena, th[t].rcur)]

\* The compare-and-swap of refill; the chunk is installed and the request
\* taken from it.  Without thread-local storage the chunk is not kept.
Claim(t) ==
  /\ th[t].pc = "claim"
  /\ LET a == th[t].arena
         c == Chunk(t)
         req == th[t].req
     IN  \/ /\ cursor[a] = th[t].rcur /\ t \notin NoTls
            /\ cursor' = [cursor EXCEPT ![a] = c.end]
            /\ tlab' = [tlab EXCEPT ![t][Victim(t, c.arena)] = Carved(c, req)]
            /\ blocks' = blocks \cup {Block(t, Start(c, req))}
            /\ th' = [th EXCEPT ![t] = Returned(@)]
         \/ /\ cursor[a] = th[t].rcur /\ t \in NoTls
            /\ cursor' = [cursor EXCEPT ![a] = c.end]
            /\ Goto(t, "cas")
            /\ UNCHANGED <<tlab, blocks>>
         \/ /\ cursor[a] # th[t].rcur
            /\ th' = [th EXCEPT ![t].rcur = Actual(t), ![t].pc = "refill"]
            /\ UNCHANGED <<cursor, tlab, blocks>>
  /\ UNCHANGED <<id, nextId>>

\* alloc returns None.
Full(t) ==
  /\ th[t].pc = "full"
  /\ th' = [th EXCEPT ![t] = Returned(@)]
  /\ UNCHANGED <<id, nextId, cursor, tlab, blocks>>

-----------------------------------------------------------------------------
(* reset *)

\* The new identity of a reset arena.
FreshIdKept(a) == id[a]                                   \* mutant
FreshId(a) == nextId

\* &mut self: no call is running on it, and none of its ranges is in use.
Reset(a) ==
  /\ nextId < Cardinality(Arenas) + 1 + MaxResets
  /\ \A t \in Threads : th[t].pc # "idle" => th[t].arena # a
  /\ id' = [id EXCEPT ![a] = FreshId(a)]
  /\ nextId' = nextId + 1
  /\ cursor' = [cursor EXCEPT ![a] = Unit]
  /\ blocks' = {b \in blocks : b.arena # id[a]}
  /\ UNCHANGED <<tlab, th>>

\* Identities are handed out in turn, starting with 1; 0 is no arena.
Init ==
  /\ id \in [Arenas -> 1 .. Cardinality(Arenas)]
  /\ \A a, b \in Arenas : a # b => id[a] # id[b]
  /\ nextId = Cardinality(Arenas) + 1
  /\ cursor = [a \in Arenas |-> Unit]
  /\ tlab = [t \in Threads |-> [s \in 1 .. Slots |-> Empty]]
  /\ th = [t \in Threads |-> Resting]
  /\ blocks = {}

Move(t) == Take(t) \/ Load(t) \/ Decide(t) \/ Cas(t) \/ Refill(t) \/ Claim(t) \/ Full(t)

\* Every thread has made its last call.
Terminated == (\A t \in Threads : th[t].pc = "idle" /\ th[t].n = MaxAllocs[t]) /\ UNCHANGED vars

Next == Terminated \/ (\E t \in Threads : Begin(t) \/ Move(t)) \/ (\E a \in Arenas : Reset(a))

Spec == Init /\ [][Next]_vars

\* The operating system runs every thread.
FairSpec == Spec /\ \A t \in Threads : WF_vars(Move(t))

-----------------------------------------------------------------------------
(* Properties *)

\* The arena with identity i (or, after a reset, none).
Current(i) == {a \in Arenas : id[a] = i}

\* No two ranges in use overlap: not across threads, not between a
\* chunk's owner and the cursor, and not when a thread still keeps a chunk of
\* an arena that was reset meanwhile.
Disjoint ==
  \A b, c \in blocks : b # c /\ b.arena = c.arena => b.hi <= c.lo \/ c.hi <= b.lo

\* What a thread has kept for itself in a chunk is handed out to nobody else.
ChunksPrivate ==
  \A t \in Threads, s \in 1 .. Slots :
    LET c == tlab[t][s]
        free(lo, hi) == hi <= c.cur \/ c.end <= lo
    IN  c.arena # 0 /\ c.cur < c.end =>
          /\ \A b \in blocks : b.arena = c.arena => free(b.lo, b.hi)
          /\ \A u \in Threads, r \in 1 .. Slots :
               <<u, r>> # <<t, s>> /\ tlab[u][r].arena = c.arena /\ tlab[u][r].cur < tlab[u][r].end
                 => free(tlab[u][r].cur, tlab[u][r].end)

\* Inv 4: every range lies in its arena, behind the null region and before
\* the cursor, so that its offset is never 0 and a reset or a drop frees it.
InBounds ==
  /\ \A a \in Arenas : cursor[a] <= Capacity[a]
  /\ \A b \in blocks : \E a \in Current(b.arena) :
       Unit <= b.lo /\ b.lo < b.hi /\ b.hi <= cursor[a]

\* Inv 3 and Inv 4: every byte handed out belongs to one allocation only,
\* inside its arena, whichever of the two paths (cursor or chunk) it came by,
\* and across resets that leave stale chunks in the threads' slots.
BytesExclusive == Disjoint /\ ChunksPrivate /\ InBounds

\* A request is refused only if it did not fit, although the decision was
\* made on a cursor that others have moved since.
FullOnlyWhenFull ==
  \A t \in Threads : th[t].pc = "full" =>
    LET a == th[t].arena
    IN  AlignUp(cursor[a], th[t].req.align) + th[t].req.size > Capacity[a]

\* Every allocation returns, even if each race for the cursor is lost and,
\* without thread-local storage, every chunk claimed is lost as well.
AllocReturns == \A t \in Threads : th[t].pc # "idle" ~> th[t].pc = "idle"

=============================================================================

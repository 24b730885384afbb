----------------------------- MODULE ArenaProofs -----------------------------
(***************************************************************************)
(* Proofs about Arena: no byte is handed out twice and no request that     *)
(* fits is refused, for any threads, arenas, capacities and requests, any  *)
(* number of allocations and of resets.                                    *)
(***************************************************************************)
EXTENDS Arena, TLAPS, FiniteSetTheorems, OrderLemmas

Layouts == [align : Nat \ {0}, size : Nat \ {0}]
Chunks == [arena : Nat, cur : Nat, end : Nat]
Calls ==
  [pc : {"idle", "take", "load", "decide", "refill", "claim", "cas", "full"}, n : Nat,
   arena : Arenas, req : Layouts, cur : Nat, rcur : Nat, contended : BOOLEAN]
Ranges == [arena : Nat, lo : Nat, hi : Nat, by : Threads \X Nat]

ArenaTypeOK ==
  /\ id \in [Arenas -> Nat \ {0}] /\ nextId \in Nat
  /\ cursor \in [Arenas -> Nat]
  /\ tlab \in [Threads -> [1 .. Slots -> Chunks]]
  /\ th \in [Threads -> Calls]
  /\ blocks \subseteq Ranges

\* An identity is given out once, so that a chunk left over from before a
\* reset belongs to no arena.
IdsFresh ==
  /\ \A a \in Arenas : id[a] < nextId
  /\ \A a, b \in Arenas : a # b => id[a] # id[b]
  /\ \A t \in Threads, s \in 1 .. Slots : tlab[t][s].arena < nextId

CursorsInside == \A a \in Arenas : Unit <= cursor[a] /\ cursor[a] <= Capacity[a]

\* What a chunk of a current arena has left lies below the cursor.
ChunksBelow ==
  \A t \in Threads, s \in 1 .. Slots, a \in Arenas :
    tlab[t][s].arena = id[a] => Unit <= tlab[t][s].cur /\ tlab[t][s].end <= cursor[a]

BlocksBelow ==
  \A b \in blocks : b.lo < b.hi /\ \E a \in Arenas :
    b.arena = id[a] /\ Unit <= b.lo /\ b.hi <= cursor[a]

\* What a call has found out and still relies on.
Deciding == {"decide", "refill", "claim", "cas", "full"}
CallOK(t) ==
  /\ th[t].pc \in Deciding => th[t].cur <= cursor[th[t].arena]
  /\ th[t].pc \in {"refill", "claim", "cas"} => Hi(t) <= Capacity[th[t].arena]
  /\ th[t].pc = "claim" => WorthAChunk(t)
  /\ th[t].pc = "full" => Hi(t) > Capacity[th[t].arena]

\* The inductive invariant: the ranges, and the calls.
RangesOK ==
  IdsFresh /\ CursorsInside /\ ChunksBelow /\ BlocksBelow /\ Disjoint /\ ChunksPrivate
CallsOK == \A t \in Threads : CallOK(t)
IInv == ArenaTypeOK /\ RangesOK /\ CallsOK

-----------------------------------------------------------------------------
(* Arithmetic *)

USE ArenaAssumption

LEMMA DivBounds ==
  ASSUME NEW n \in Int, NEW d \in Nat \ {0}
  PROVE  n \div d \in Int /\ (n \div d) * d <= n /\ n < (n \div d) * d + d
  OBVIOUS

\* AlignUp rounds up, by less than the alignment.
LEMMA AlignUpBounds ==
  ASSUME NEW x \in Nat, NEW al \in Nat \ {0}
  PROVE  AlignUp(x, al) \in Nat /\ x <= AlignUp(x, al) /\ AlignUp(x, al) < x + al
<1>1. x + al - 1 \in Int /\ AlignUp(x, al) \in Int
  BY DEF AlignUp
<1>2. QED
  BY <1>1, DivBounds DEF AlignUp

LEMMA NextMultiple ==
  ASSUME NEW p \in Int, NEW q \in Int, NEW d \in Nat \ {0}, p < q
  PROVE  p * d + d <= q * d
  OBVIOUS

LEMMA AlignUpMonotone ==
  ASSUME NEW x \in Nat, NEW y \in Nat, NEW al \in Nat \ {0}, x <= y
  PROVE  AlignUp(x, al) <= AlignUp(y, al)
<1> DEFINE p == (x + al - 1) \div al
           q == (y + al - 1) \div al
<1>1. p \in Int /\ q \in Int
  BY DivBounds
<1>2. AlignUp(x, al) = p * al /\ AlignUp(y, al) = q * al
  BY DEF AlignUp
<1>3. p * al < x + al /\ y <= q * al
  BY <1>2, AlignUpBounds
<1>4. p * al \in Int /\ q * al \in Int
  BY <1>1
<1>5. CASE q < p
  <2>1. q * al + al <= p * al
    BY <1>1, <1>5, NextMultiple
  <2>2. QED
    BY <2>1, <1>3, <1>4
<1>6. CASE p <= q
  <2>1. CASE p = q
    BY <2>1, <1>2, <1>4
  <2>2. CASE p < q
    <3>1. p * al + al <= q * al
      BY <1>1, <2>2, NextMultiple
    <3>2. QED
      BY <3>1, <1>2, <1>4
  <2>3. QED
    BY <2>1, <2>2, <1>6, <1>1
<1>7. QED
  BY <1>5, <1>6, <1>1

\* SlotOf is 0, or the slot of a chunk of that arena.
LEMMA SlotOfChunk ==
  ASSUME NEW t, NEW i, SlotOf(t, i) # 0
  PROVE  SlotOf(t, i) \in 1 .. Slots /\ tlab[t][SlotOf(t, i)].arena = i
<1> DEFINE at == {s \in 1 .. Slots : tlab[t][s].arena = i}
<1>1. at # {} /\ SlotOf(t, i) = CHOOSE s \in at : \A u \in at : s <= u
  BY DEF SlotOf
<1>2. \E s \in at : \A u \in at : s <= u
  <2>1. at \in SUBSET Nat
    OBVIOUS
  <2> HIDE DEF at
  <2>2. QED
    BY <1>1, <2>1, LeastNatural
<1>3. SlotOf(t, i) \in at
  BY <1>1, <1>2
<1>4. QED
  BY <1>3

-----------------------------------------------------------------------------
(* The steps of a call *)

LEMMA RestingType == ASSUME NEW n \in Nat PROVE AfterCalls(n) \in Calls
<1>1. (CHOOSE a \in Arenas : TRUE) \in Arenas
  OBVIOUS
<1>2. QED
  BY <1>1 DEF AfterCalls, NoRequest, Calls, Layouts

LEMMA InitIInv == Init => IInv
<1> SUFFICES ASSUME Init PROVE IInv
  OBVIOUS
<1> USE DEF Init
<1>1. Cardinality(Arenas) \in Nat
  BY FS_CardinalityType
<1>2. Resting \in Calls
  BY RestingType DEF Resting
<1>3. ArenaTypeOK
  BY <1>1, <1>2 DEF ArenaTypeOK, Empty, Chunks
<1>4. RangesOK
  <2>1. IdsFresh
    BY <1>1 DEF IdsFresh, Empty
  <2>2. CursorsInside
    BY DEF CursorsInside
  <2>3. ChunksBelow
    BY <1>3 DEF ChunksBelow, Empty, ArenaTypeOK
  <2>4. ChunksPrivate
    BY DEF ChunksPrivate, Empty
  <2>5. QED
    BY <2>1, <2>2, <2>3, <2>4 DEF RangesOK, BlocksBelow, Disjoint
<1>5. CallsOK
  BY DEF CallsOK, CallOK, Resting, AfterCalls, Deciding
<1>6. QED
  BY <1>3, <1>4, <1>5 DEF IInv

\* The range that a request takes at cursor c is typed and not empty.
LEMMA CallTypes ==
  ASSUME ArenaTypeOK, NEW t \in Threads
  PROVE  /\ th[t] \in Calls /\ th[t].arena \in Arenas
         /\ th[t].req.align \in Nat \ {0} /\ th[t].req.size \in Nat \ {0}
         /\ th[t].cur \in Nat /\ th[t].rcur \in Nat /\ th[t].n \in Nat
         /\ Lo(t) \in Nat /\ th[t].cur <= Lo(t) /\ Hi(t) \in Nat /\ Lo(t) < Hi(t)
         /\ Capacity[th[t].arena] \in Nat /\ cursor[th[t].arena] \in Nat
<1>1. th[t] \in Calls
  BY DEF ArenaTypeOK
<1>2. /\ th[t].arena \in Arenas /\ th[t].req.align \in Nat \ {0} /\ th[t].req.size \in Nat \ {0}
      /\ th[t].cur \in Nat /\ th[t].rcur \in Nat /\ th[t].n \in Nat
  BY <1>1 DEF Calls, Layouts
<1>3. Lo(t) \in Nat /\ th[t].cur <= Lo(t)
  BY <1>2, AlignUpBounds DEF Lo
<1>4. Hi(t) \in Nat /\ Lo(t) < Hi(t)
  BY <1>2, <1>3 DEF Hi
<1>5. Capacity[th[t].arena] \in Nat /\ cursor[th[t].arena] \in Nat
  BY <1>2 DEF ArenaTypeOK
<1>6. QED
  BY <1>1, <1>2, <1>3, <1>4, <1>5

\* A call that does nothing now keeps what it knows while cursors only grow.
LEMMA OtherCall ==
  ASSUME ArenaTypeOK, NEW u \in Threads, CallOK(u), th'[u] = th[u],
         th[u].pc \in Deciding => cursor[th[u].arena] <= cursor'[th[u].arena],
         cursor' \in [Arenas -> Nat]
  PROVE  CallOK(u)'
<1>1. Lo(u)' = Lo(u) /\ Hi(u)' = Hi(u) /\ WorthAChunk(u)' = WorthAChunk(u)
  BY DEF Lo, Hi, WorthAChunk, ChunkSize
<1>2. cursor'[th[u].arena] \in Nat
  BY CallTypes
<1>3. QED
  BY <1>1, <1>2, CallTypes DEF CallOK, Deciding

\* A step that changes nothing but the call.
LEMMA LocalStep ==
  ASSUME IInv, NEW t \in Threads, th' \in [Threads -> Calls],
         \A u \in Threads : u # t => th'[u] = th[u],
         UNCHANGED <<id, nextId, cursor, tlab, blocks>>, CallOK(t)'
  PROVE  IInv'
<1>1. ArenaTypeOK'
  BY DEF IInv, ArenaTypeOK
<1>2. RangesOK'
  BY DEF IInv, RangesOK, IdsFresh, CursorsInside, ChunksBelow, BlocksBelow, Disjoint, ChunksPrivate
<1>3. ASSUME NEW u \in Threads, u # t PROVE CallOK(u)'
  <2>1. th'[u] = th[u]
    BY <1>3
  <2>2. cursor' \in [Arenas -> Nat]
    BY DEF IInv, ArenaTypeOK
  <2>3. cursor[th[u].arena] <= cursor'[th[u].arena]
    BY CallTypes DEF IInv
  <2>4. QED
    BY <2>1, <2>2, <2>3, OtherCall DEF IInv, CallsOK
<1>4. QED
  BY <1>1, <1>2, <1>3 DEF IInv, CallsOK

LEMMA BeginIInv == ASSUME IInv, NEW t \in Threads, Begin(t) PROVE IInv'
<1>1. PICK a \in Arenas, req \in Requests :
        th' = [th EXCEPT ![t].pc = "take", ![t].n = @ + 1, ![t].arena = a, ![t].req = req,
                         ![t].contended = FALSE]
  BY DEF Begin
<1>2. req \in Layouts
  BY DEF Layouts
<1>3. th \in [Threads -> Calls]
  BY DEF IInv, ArenaTypeOK
<1>4. th' \in [Threads -> Calls] /\ th'[t].pc = "take" /\ \A u \in Threads : u # t => th'[u] = th[u]
  BY <1>1, <1>2, <1>3 DEF Calls
<1>5. CallOK(t)'
  BY <1>4 DEF CallOK, Deciding
<1>6. QED
  BY <1>4, <1>5, LocalStep DEF Begin

LEMMA LoadIInv == ASSUME IInv, NEW t \in Threads, Load(t) PROVE IInv'
<1>1. th \in [Threads -> Calls] /\ cursor[th[t].arena] \in Nat
  BY CallTypes DEF IInv, ArenaTypeOK
<1>2. /\ th' \in [Threads -> Calls] /\ \A u \in Threads : u # t => th'[u] = th[u]
      /\ th'[t].pc = "decide" /\ th'[t].cur = cursor[th[t].arena] /\ th'[t].arena = th[t].arena
  BY <1>1 DEF Load, Calls
<1>3. CallOK(t)'
  BY <1>1, <1>2 DEF CallOK, Deciding, Load
<1>4. QED
  BY <1>2, <1>3, LocalStep DEF Load

LEMMA DecideIInv == ASSUME IInv, NEW t \in Threads, Decide(t) PROVE IInv'
<1> DEFINE a == th[t].arena
           to == CASE Hi(t) > Capacity[a] -> "full"
                   [] Hi(t) <= Capacity[a] /\ th[t].contended -> "refill"
                   [] OTHER -> "cas"
<1>1. th \in [Threads -> Calls] /\ th[t].cur \in Nat /\ Hi(t) \in Nat /\ Capacity[a] \in Nat
  BY CallTypes DEF IInv, ArenaTypeOK
<1>2. to \in {"full", "refill", "cas"} /\ (to = "full" <=> Hi(t) > Capacity[a])
  BY <1>1
<1>3. th' = [th EXCEPT ![t].pc = to, ![t].rcur = th[t].cur]
  BY DEF Decide
<1> HIDE DEF to
<1>4. /\ th' \in [Threads -> Calls] /\ \A u \in Threads : u # t => th'[u] = th[u]
      /\ th'[t].pc = to /\ th'[t].cur = th[t].cur /\ th'[t].arena = a /\ th'[t].req = th[t].req
  BY <1>1, <1>2, <1>3 DEF Calls
<1>5. Hi(t)' = Hi(t)
  BY <1>4 DEF Hi, Lo
<1>6. th[t].cur <= cursor[a]
  BY DEF IInv, CallsOK, CallOK, Decide, Deciding
<1>7. CallOK(t)'
  BY <1>1, <1>2, <1>4, <1>5, <1>6 DEF CallOK, Decide
<1>8. QED
  BY <1>4, <1>7, LocalStep DEF Decide

LEMMA RefillIInv == ASSUME IInv, NEW t \in Threads, Refill(t) PROVE IInv'
<1>1. th \in [Threads -> Calls] /\ th[t].rcur \in Nat
  BY CallTypes DEF IInv, ArenaTypeOK
<1>2. /\ th' \in [Threads -> Calls] /\ \A u \in Threads : u # t => th'[u] = th[u]
      /\ th'[t].cur = th[t].cur /\ th'[t].arena = th[t].arena /\ th'[t].req = th[t].req
      /\ \/ th'[t].pc = "claim" /\ th'[t].rcur = th[t].rcur /\ WorthAChunk(t)
         \/ th'[t].pc = "cas"
  <2>1. CASE WorthAChunk(t)
    <3>1. th' = [th EXCEPT ![t].pc = "claim", ![t].rcur = @]
      BY <2>1 DEF Refill
    <3>2. QED
      BY <1>1, <2>1, <3>1 DEF Calls
  <2>2. CASE ~WorthAChunk(t)
    <3>1. th' = [th EXCEPT ![t].pc = "cas", ![t].rcur = 0]
      BY <2>2 DEF Refill
    <3>2. QED
      BY <1>1, <3>1 DEF Calls
  <2>3. QED
    BY <2>1, <2>2
<1>3. Hi(t)' = Hi(t)
  BY <1>2 DEF Hi, Lo
<1>4. th'[t].pc = "claim" => WorthAChunk(t)'
  BY <1>2 DEF WorthAChunk, ChunkSize
<1>5. th[t].cur <= cursor[th[t].arena] /\ Hi(t) <= Capacity[th[t].arena]
  BY DEF IInv, CallsOK, CallOK, Refill, Deciding
<1>6. CallOK(t)'
  BY <1>2, <1>3, <1>4, <1>5 DEF CallOK, Refill
<1>7. QED
  BY <1>2, <1>6, LocalStep DEF Refill

LEMMA FullIInv == ASSUME IInv, NEW t \in Threads, Full(t) PROVE IInv'
<1>1. th \in [Threads -> Calls] /\ th[t].n \in Nat
  BY CallTypes DEF IInv, ArenaTypeOK
<1>2. AfterCalls(th[t].n) \in Calls
  BY <1>1, RestingType
<1>3. th' \in [Threads -> Calls] /\ \A u \in Threads : u # t => th'[u] = th[u]
  BY <1>1, <1>2 DEF Full, Returned
<1>4. th'[t].pc = "idle"
  BY <1>1 DEF Full, Returned, AfterCalls
<1>5. QED
  BY <1>3, <1>4, LocalStep DEF Full, CallOK, Deciding

-----------------------------------------------------------------------------
(* Handing out a range *)

\* ChunksPrivate, for a chunk and a block, and for two chunks.
Apart(lo, hi, c) == hi <= c.cur \/ c.end <= lo
Holds(c) == c.arena # 0 /\ c.cur < c.end

LEMMA PrivateMeans ==
  ChunksPrivate <=>
    /\ \A t \in Threads, s \in 1 .. Slots, b \in blocks :
         Holds(tlab[t][s]) /\ b.arena = tlab[t][s].arena => Apart(b.lo, b.hi, tlab[t][s])
    /\ \A t, u \in Threads, s, r \in 1 .. Slots :
         <<u, r>> # <<t, s>> /\ Holds(tlab[t][s]) /\ tlab[u][r].arena = tlab[t][s].arena
           /\ tlab[u][r].cur < tlab[u][r].end
         => Apart(tlab[u][r].cur, tlab[u][r].end, tlab[t][s])
  BY DEF ChunksPrivate, Holds, Apart

\* Block nb and, behind it in slot v of t, chunk c are handed out of arena a, of
\* a range that no other block or chunk reaches into.
NewCursor(a) ==
  /\ cursor' \in [Arenas -> Nat] /\ cursor[a] <= cursor'[a] /\ cursor'[a] <= Capacity[a]
  /\ \A e \in Arenas : e # a => cursor'[e] = cursor[e]
NewChunk(t, v, c) ==
  \A u \in Threads, r \in 1 .. Slots :
    tlab'[u][r] = IF u = t /\ r = v THEN c ELSE tlab[u][r]
Inside(a, nb, c) ==
  /\ nb.arena = id[a] /\ c.arena = id[a]
  /\ Unit <= nb.lo /\ nb.lo < nb.hi /\ nb.hi <= c.cur /\ c.cur <= c.end /\ c.end <= cursor'[a]
ClearOfBlocks(a, nb, c) == \A b \in blocks : b.arena = id[a] => b.hi <= nb.lo \/ c.end <= b.lo
ClearOfChunks(t, v, a, nb, c) ==
  \A u \in Threads, r \in 1 .. Slots :
    ~(u = t /\ r = v) /\ tlab[u][r].arena = id[a] /\ tlab[u][r].cur < tlab[u][r].end
      => tlab[u][r].end <= nb.lo \/ c.end <= tlab[u][r].cur

LEMMA CursorGrows ==
  ASSUME ArenaTypeOK, NEW a \in Arenas, NewCursor(a), NEW e \in Arenas
  PROVE  cursor[e] <= cursor'[e] /\ cursor[e] \in Nat /\ cursor'[e] \in Nat
<1>1. cursor[e] \in Nat /\ cursor'[e] \in Nat
  BY DEF ArenaTypeOK, NewCursor
<1>2. QED
  BY <1>1 DEF NewCursor

LEMMA HandOut ==
  ASSUME IInv, NEW t \in Threads, NEW v, NEW a \in Arenas, NEW nb \in Ranges, NEW c \in Chunks,
         UNCHANGED <<id, nextId>>, blocks' = blocks \cup {nb}, NewCursor(a), NewChunk(t, v, c),
         Inside(a, nb, c), ClearOfBlocks(a, nb, c), ClearOfChunks(t, v, a, nb, c)
  PROVE  RangesOK'
<1>1. /\ id \in [Arenas -> Nat \ {0}] /\ nextId \in Nat /\ cursor \in [Arenas -> Nat]
      /\ \A u \in Threads, r \in 1 .. Slots : tlab[u][r] \in Chunks
      /\ blocks \subseteq Ranges /\ Unit \in Nat
  BY DEF IInv, ArenaTypeOK
<1>2. \A d \in Chunks : d.arena \in Nat /\ d.cur \in Nat /\ d.end \in Nat
  BY DEF Chunks
<1>3. \A b \in Ranges : b.arena \in Nat /\ b.lo \in Nat /\ b.hi \in Nat
  BY DEF Ranges
<1>4. /\ nb.lo \in Nat /\ nb.hi \in Nat /\ c.cur \in Nat /\ c.end \in Nat
      /\ id[a] \in Nat \ {0} /\ cursor'[a] \in Nat
  BY <1>1, <1>2, <1>3 DEF NewCursor
<1>5. ASSUME NEW u \in Threads, NEW r \in 1 .. Slots
      PROVE  \/ u = t /\ r = v /\ tlab'[u][r] = c
             \/ ~(u = t /\ r = v) /\ tlab'[u][r] = tlab[u][r]
  BY DEF NewChunk
<1>6. IdsFresh'
  <2>1. \A u \in Threads, r \in 1 .. Slots : tlab'[u][r].arena < nextId
    BY <1>5 DEF IInv, RangesOK, IdsFresh, Inside
  <2>2. QED
    BY <2>1 DEF IInv, RangesOK, IdsFresh
<1>7. CursorsInside'
  <2> SUFFICES ASSUME NEW e \in Arenas PROVE Unit <= cursor'[e] /\ cursor'[e] <= Capacity[e]
    BY DEF CursorsInside
  <2>1. cursor[e] <= cursor'[e] /\ cursor[e] \in Nat /\ cursor'[e] \in Nat
    BY CursorGrows DEF IInv
  <2>2. Unit <= cursor[e] /\ cursor[e] <= Capacity[e]
    BY DEF IInv, RangesOK, CursorsInside
  <2>3. cursor'[e] <= Capacity[e]
    BY <2>2 DEF NewCursor
  <2>4. QED
    BY <2>1, <2>2, <2>3, <1>1
<1>8. ChunksBelow'
  <2> SUFFICES ASSUME NEW u \in Threads, NEW r \in 1 .. Slots, NEW e \in Arenas,
                      tlab'[u][r].arena = id[e]
               PROVE  Unit <= tlab'[u][r].cur /\ tlab'[u][r].end <= cursor'[e]
    BY DEF ChunksBelow
  <2>1. CASE u = t /\ r = v /\ tlab'[u][r] = c
    <3>1. e = a
      BY <2>1 DEF IInv, RangesOK, IdsFresh, Inside
    <3>2. QED
      BY <2>1, <3>1, <1>1, <1>4 DEF Inside
  <2>2. CASE ~(u = t /\ r = v) /\ tlab'[u][r] = tlab[u][r]
    <3>1. Unit <= tlab[u][r].cur /\ tlab[u][r].end <= cursor[e]
      BY <2>2 DEF IInv, RangesOK, ChunksBelow
    <3>2. cursor[e] <= cursor'[e] /\ cursor[e] \in Nat /\ cursor'[e] \in Nat
      BY CursorGrows DEF IInv
    <3>3. tlab[u][r].end \in Nat
      BY <1>1, <1>2
    <3>4. QED
      BY <2>2, <3>1, <3>2, <3>3
  <2>3. QED
    BY <2>1, <2>2, <1>5
<1>9. BlocksBelow'
  <2> SUFFICES ASSUME NEW b \in blocks'
               PROVE  b.lo < b.hi /\ \E e \in Arenas :
                        b.arena = id[e] /\ Unit <= b.lo /\ b.hi <= cursor'[e]
    BY DEF BlocksBelow
  <2>1. CASE b \in blocks
    <3>1. b.lo < b.hi /\ b.hi \in Nat
      BY <2>1, <1>1, <1>3 DEF IInv, RangesOK, BlocksBelow
    <3>2. PICK e \in Arenas : b.arena = id[e] /\ Unit <= b.lo /\ b.hi <= cursor[e]
      BY <2>1 DEF IInv, RangesOK, BlocksBelow
    <3>3. cursor[e] <= cursor'[e] /\ cursor[e] \in Nat /\ cursor'[e] \in Nat
      BY CursorGrows DEF IInv
    <3>4. b.hi <= cursor'[e]
      BY <3>1, <3>2, <3>3
    <3>5. QED
      BY <3>1, <3>2, <3>4
  <2>2. CASE b = nb
    <3>1. nb.hi <= cursor'[a]
      BY <1>4 DEF Inside
    <3>2. QED
      BY <2>2, <3>1 DEF Inside
  <2>3. QED
    BY <2>1, <2>2
<1>10. \A b \in blocks : b.arena = id[a] => b.hi <= nb.lo \/ nb.hi <= b.lo
  <2> SUFFICES ASSUME NEW b \in blocks, b.arena = id[a] PROVE b.hi <= nb.lo \/ nb.hi <= b.lo
    OBVIOUS
  <2>1. b.lo \in Nat /\ b.hi \in Nat
    BY <1>1, <1>3
  <2>2. nb.hi <= c.end
    BY <1>4 DEF Inside
  <2>3. QED
    BY <2>1, <2>2, <1>4 DEF ClearOfBlocks
<1>11. Disjoint'
  <2> SUFFICES ASSUME NEW b \in blocks', NEW d \in blocks', b # d, b.arena = d.arena
               PROVE  b.hi <= d.lo \/ d.hi <= b.lo
    BY DEF Disjoint
  <2>1. CASE b \in blocks /\ d \in blocks
    BY <2>1 DEF IInv, RangesOK, Disjoint
  <2>2. CASE b \in blocks /\ d = nb
    BY <2>2, <1>10 DEF Inside
  <2>3. CASE b = nb /\ d \in blocks
    BY <2>3, <1>10 DEF Inside
  <2>4. QED
    BY <2>1, <2>2, <2>3
<1>12. ASSUME NEW u \in Threads, NEW r \in 1 .. Slots, NEW b \in blocks',
              Holds(tlab'[u][r]), b.arena = tlab'[u][r].arena
       PROVE  Apart(b.lo, b.hi, tlab'[u][r])
  <2>1. CASE u = t /\ r = v /\ tlab'[u][r] = c
    <3>1. CASE b = nb
      BY <2>1, <3>1 DEF Apart, Inside
    <3>2. CASE b \in blocks
      <4>1. b.hi <= nb.lo \/ c.end <= b.lo
        BY <1>12, <2>1, <3>2 DEF ClearOfBlocks, Inside
      <4>2. b.hi \in Nat /\ nb.lo <= c.cur
        BY <3>2, <1>1, <1>3, <1>4 DEF Inside
      <4>3. QED
        BY <2>1, <4>1, <4>2, <1>4 DEF Apart
    <3>3. QED
      BY <3>1, <3>2
  <2>2. CASE ~(u = t /\ r = v) /\ tlab'[u][r] = tlab[u][r]
    <3>1. CASE b \in blocks
      BY <1>12, <2>2, <3>1, PrivateMeans DEF IInv, RangesOK
    <3>2. CASE b = nb
      <4>1. tlab[u][r].end <= nb.lo \/ c.end <= tlab[u][r].cur
        BY <1>12, <2>2, <3>2 DEF ClearOfChunks, Inside, Holds
      <4>2. tlab[u][r].cur \in Nat /\ nb.hi <= c.end
        BY <1>1, <1>2, <1>4 DEF Inside
      <4>3. QED
        BY <2>2, <3>2, <4>1, <4>2, <1>4 DEF Apart
    <3>3. QED
      BY <3>1, <3>2
  <2>3. QED
    BY <2>1, <2>2, <1>5
<1>13. ASSUME NEW u \in Threads, NEW r \in 1 .. Slots, NEW x \in Threads, NEW y \in 1 .. Slots,
              <<x, y>> # <<u, r>>, Holds(tlab'[u][r]), tlab'[x][y].arena = tlab'[u][r].arena,
              tlab'[x][y].cur < tlab'[x][y].end
       PROVE  Apart(tlab'[x][y].cur, tlab'[x][y].end, tlab'[u][r])
  <2>1. nb.lo <= c.cur /\ \A d \in Chunks : d.cur \in Nat /\ d.end \in Nat
    BY <1>2, <1>4 DEF Inside
  <2>2. tlab[x][y] \in Chunks /\ tlab[u][r] \in Chunks
    BY <1>1
  <2>3. CASE u = t /\ r = v /\ tlab'[u][r] = c
    <3>1. ~(x = t /\ y = v) /\ tlab'[x][y] = tlab[x][y]
      BY <1>13, <2>3, <1>5
    <3>2. tlab[x][y].end <= nb.lo \/ c.end <= tlab[x][y].cur
      BY <1>13, <2>3, <3>1 DEF ClearOfChunks, Inside
    <3>3. QED
      BY <2>1, <2>2, <2>3, <3>1, <3>2, <1>4 DEF Apart
  <2>4. CASE x = t /\ y = v /\ tlab'[x][y] = c
    <3>1. ~(u = t /\ r = v) /\ tlab'[u][r] = tlab[u][r]
      BY <1>13, <2>4, <1>5
    <3>2. tlab[u][r].end <= nb.lo \/ c.end <= tlab[u][r].cur
      BY <1>13, <2>4, <3>1 DEF ClearOfChunks, Inside, Holds
    <3>3. QED
      BY <2>1, <2>2, <2>4, <3>1, <3>2, <1>4 DEF Apart
  <2>5. CASE tlab'[u][r] = tlab[u][r] /\ tlab'[x][y] = tlab[x][y]
    BY <1>13, <2>5, PrivateMeans DEF IInv, RangesOK
  <2>6. QED
    BY <2>3, <2>4, <2>5, <1>5
<1>14. ChunksPrivate'
  BY <1>12, <1>13 DEF ChunksPrivate, Holds, Apart
<1>15. QED
  BY <1>6, <1>7, <1>8, <1>9, <1>11, <1>14 DEF RangesOK

\* After a call on arena a returned, or went on without what it claimed.
LEMMA CallsAfter ==
  ASSUME IInv, NEW t \in Threads, NEW a \in Arenas, NewCursor(a) \/ UNCHANGED cursor,
         \A u \in Threads : u # t => th'[u] = th[u], CallOK(t)'
  PROVE  CallsOK'
<1>1. ASSUME NEW u \in Threads, u # t PROVE CallOK(u)'
  <2>1. th'[u] = th[u] /\ th[u].arena \in Arenas /\ CallOK(u)
    BY <1>1, CallTypes DEF IInv, CallsOK
  <2>2. cursor' \in [Arenas -> Nat]
    BY DEF IInv, ArenaTypeOK, NewCursor
  <2>3. cursor[th[u].arena] <= cursor'[th[u].arena]
    BY <2>1, CursorGrows, CallTypes DEF IInv
  <2>4. QED
    BY <2>1, <2>2, <2>3, OtherCall DEF IInv
<1>2. QED
  BY <1>1 DEF CallsOK

LEMMA ReturnedFacts ==
  ASSUME IInv, NEW t \in Threads, th' = [th EXCEPT ![t] = Returned(@)]
  PROVE  /\ th' \in [Threads -> Calls] /\ CallOK(t)'
         /\ \A u \in Threads : u # t => th'[u] = th[u]
<1>1. th \in [Threads -> Calls] /\ th[t].n \in Nat
  BY CallTypes DEF IInv, ArenaTypeOK
<1>2. AfterCalls(th[t].n) \in Calls
  BY <1>1, RestingType
<1>3. th' \in [Threads -> Calls] /\ \A u \in Threads : u # t => th'[u] = th[u]
  BY <1>1, <1>2 DEF Returned
<1>4. th'[t].pc = "idle"
  BY <1>1 DEF Returned, AfterCalls
<1>5. QED
  BY <1>3, <1>4 DEF CallOK, Deciding

LEMMA BlockType ==
  ASSUME IInv, NEW t \in Threads, NEW lo \in Nat
  PROVE  /\ Block(t, lo) \in Ranges /\ Block(t, lo).arena = id[th[t].arena]
         /\ Block(t, lo).lo = lo /\ Block(t, lo).hi = lo + th[t].req.size
<1>1. th[t].arena \in Arenas /\ th[t].req.size \in Nat /\ th[t].n \in Nat
  BY CallTypes DEF IInv
<1>2. id[th[t].arena] \in Nat
  BY <1>1 DEF IInv, ArenaTypeOK
<1>3. QED
  BY <1>1, <1>2 DEF Block, Ranges

\* tlab::take: a request is served from the thread's own chunk.
LEMMA TakeIInv == ASSUME IInv, NEW t \in Threads, Take(t) PROVE IInv'
<1> DEFINE a == th[t].arena
           req == th[t].req
           s == IF t \in NoTls THEN 0 ELSE SlotOf(t, id[a])
           c == IF s = 0 THEN Empty ELSE tlab[t][s]
<1>1. a \in Arenas /\ req.align \in Nat \ {0} /\ req.size \in Nat \ {0}
  BY CallTypes DEF IInv
<1>2. CASE Fits(c, req) /\ tlab' = [tlab EXCEPT ![t][s] = Carved(c, req)]
           /\ blocks' = blocks \cup {Block(t, Start(c, req))}
           /\ th' = [th EXCEPT ![t] = Returned(@)]
  <2> DEFINE nc == Carved(c, req)
             lo == Start(c, req)
             nb == Block(t, lo)
  <2>1. s # 0
    <3>1. SUFFICES ASSUME s = 0 PROVE FALSE
      OBVIOUS
    <3>2. c.cur = 0 /\ c.end = 0
      BY <3>1 DEF Empty
    <3>3. AlignUp(0, req.align) \in Nat
      BY <1>1, AlignUpBounds
    <3>4. QED
      BY <1>1, <1>2, <3>2, <3>3 DEF Fits, Start
  <2>2. s \in 1 .. Slots /\ c = tlab[t][s] /\ c.arena = id[a]
    BY <2>1, SlotOfChunk
  <2>3. c \in Chunks /\ tlab \in [Threads -> [1 .. Slots -> Chunks]]
    BY <2>2 DEF IInv, ArenaTypeOK
  <2>4. c.cur \in Nat /\ c.end \in Nat /\ id[a] \in Nat \ {0}
    BY <1>1, <2>3 DEF Chunks, IInv, ArenaTypeOK
  <2>5. lo \in Nat /\ c.cur <= lo
    BY <1>1, <2>4, AlignUpBounds DEF Start
  <2>6. lo + req.size <= c.end
    BY <1>2 DEF Fits
  <2>7. nc \in Chunks /\ nc.arena = id[a] /\ nc.cur = lo + req.size /\ nc.end = c.end
    BY <1>1, <2>2, <2>4, <2>5 DEF Carved, Chunks
  <2>8. nb \in Ranges /\ nb.arena = id[a] /\ nb.lo = lo /\ nb.hi = lo + req.size
    BY <2>5, BlockType
  <2> HIDE DEF s, c, nc, lo, nb
  <2>9. tlab' = [tlab EXCEPT ![t][s] = nc] /\ blocks' = blocks \cup {nb}
    BY <1>2 DEF nc, lo, nb
  <2>10. UNCHANGED <<id, nextId, cursor>>
    BY DEF Take
  <2>11. tlab' \in [Threads -> [1 .. Slots -> Chunks]] /\ NewChunk(t, s, nc)
    BY <2>2, <2>3, <2>7, <2>9 DEF NewChunk
  <2>12. Unit <= c.cur /\ c.end <= cursor[a]
    BY <1>1, <2>2 DEF IInv, RangesOK, ChunksBelow
  <2>13. cursor[a] \in Nat /\ Unit \in Nat /\ NewCursor(a)
    BY <1>1, <2>10 DEF NewCursor, IInv, ArenaTypeOK, RangesOK, CursorsInside
  <2>14. Inside(a, nb, nc)
    <3>1. Unit <= lo /\ lo < lo + req.size
      BY <1>1, <2>4, <2>5, <2>12, <2>13
    <3>2. QED
      BY <1>1, <2>4, <2>5, <2>6, <2>7, <2>8, <2>10, <2>12, <2>13, <3>1 DEF Inside
  <2>15. Holds(tlab[t][s])
    BY <1>1, <2>2, <2>4, <2>5, <2>6 DEF Holds
  <2>16. ClearOfBlocks(a, nb, nc)
    <3> SUFFICES ASSUME NEW b \in blocks, b.arena = id[a] PROVE b.hi <= nb.lo \/ nc.end <= b.lo
      BY DEF ClearOfBlocks
    <3>1. b.hi <= c.cur \/ c.end <= b.lo
      BY <2>2, <2>15, PrivateMeans DEF IInv, RangesOK, Apart
    <3>2. b.hi \in Nat
      BY DEF IInv, ArenaTypeOK, Ranges
    <3>3. QED
      BY <2>4, <2>5, <2>7, <2>8, <3>1, <3>2
  <2>17. ClearOfChunks(t, s, a, nb, nc)
    <3> SUFFICES ASSUME NEW u \in Threads, NEW r \in 1 .. Slots, ~(u = t /\ r = s),
                        tlab[u][r].arena = id[a], tlab[u][r].cur < tlab[u][r].end
                 PROVE  tlab[u][r].end <= nb.lo \/ nc.end <= tlab[u][r].cur
      BY DEF ClearOfChunks
    <3>1. <<u, r>> # <<t, s>>
      OBVIOUS
    <3>2. Apart(tlab[u][r].cur, tlab[u][r].end, tlab[t][s])
      BY <2>2, <2>15, <3>1, PrivateMeans DEF IInv, RangesOK
    <3>3. tlab[u][r].end <= c.cur \/ c.end <= tlab[u][r].cur
      BY <2>2, <3>2 DEF Apart
    <3>4. tlab[u][r].end \in Nat
      BY <2>3 DEF Chunks
    <3>5. QED
      BY <2>4, <2>5, <2>7, <2>8, <3>3, <3>4
  <2>18. RangesOK'
    BY <1>1, <2>7, <2>8, <2>9, <2>10, <2>11, <2>13, <2>14, <2>16, <2>17, HandOut
  <2>19. CallsOK' /\ th' \in [Threads -> Calls]
    BY <1>1, <1>2, <2>13, ReturnedFacts, CallsAfter
  <2>20. ArenaTypeOK'
    BY <2>8, <2>9, <2>10, <2>11, <2>19 DEF IInv, ArenaTypeOK
  <2>21. QED
    BY <2>18, <2>19, <2>20 DEF IInv
<1>3. CASE Goto(t, "load") /\ UNCHANGED <<tlab, blocks>>
  <2>1. th \in [Threads -> Calls]
    BY DEF IInv, ArenaTypeOK
  <2>2. th' \in [Threads -> Calls] /\ th'[t].pc = "load" /\ \A u \in Threads : u # t => th'[u] = th[u]
    BY <1>3, <2>1 DEF Goto, Calls
  <2>3. QED
    BY <1>3, <2>2, LocalStep DEF Take, CallOK, Deciding
<1>4. QED
  BY <1>2, <1>3 DEF Take

\* Everything handed out of arena a lies below its cursor: from there on it is
\* clear.
LEMMA AboveCursor ==
  ASSUME IInv, NEW t, NEW v, NEW a \in Arenas, NEW nb \in Ranges, NEW c, cursor[a] <= nb.lo
  PROVE  ClearOfBlocks(a, nb, c) /\ ClearOfChunks(t, v, a, nb, c)
<1>1. nb.lo \in Nat /\ cursor[a] \in Nat
  BY DEF IInv, ArenaTypeOK, Ranges
<1>2. ASSUME NEW b \in blocks, b.arena = id[a] PROVE b.hi <= nb.lo
  <2>1. PICK e \in Arenas : b.arena = id[e] /\ b.hi <= cursor[e]
    BY DEF IInv, RangesOK, BlocksBelow
  <2>2. e = a
    BY <1>2, <2>1 DEF IInv, RangesOK, IdsFresh
  <2>3. b.hi \in Nat
    BY DEF IInv, ArenaTypeOK, Ranges
  <2>4. QED
    BY <1>1, <2>1, <2>2, <2>3
<1>3. ASSUME NEW u \in Threads, NEW r \in 1 .. Slots, tlab[u][r].arena = id[a]
      PROVE  tlab[u][r].end <= nb.lo
  <2>1. tlab[u][r].end <= cursor[a]
    BY <1>3 DEF IInv, RangesOK, ChunksBelow
  <2>2. tlab[u][r].end \in Nat
    BY DEF IInv, ArenaTypeOK, Chunks
  <2>3. QED
    BY <1>1, <2>1, <2>2
<1>4. QED
  BY <1>2, <1>3 DEF ClearOfBlocks, ClearOfChunks

LEMMA LostRace ==
  ASSUME NEW t \in Threads, NEW now \in Nat, NEW f \in [Threads -> Calls]
  PROVE  [f EXCEPT ![t].cur = now, ![t].contended = TRUE, ![t].pc = "decide"] \in [Threads -> Calls]
  BY DEF Calls

LEMMA CasIInv == ASSUME IInv, NEW t \in Threads, Cas(t) PROVE IInv'
<1> DEFINE a == th[t].arena
<1>1. /\ a \in Arenas /\ th[t].cur \in Nat /\ Lo(t) \in Nat /\ th[t].cur <= Lo(t)
      /\ Hi(t) \in Nat /\ Lo(t) < Hi(t) /\ cursor[a] \in Nat /\ Capacity[a] \in Nat
      /\ th \in [Threads -> Calls]
  BY CallTypes DEF IInv, ArenaTypeOK
<1>2. Hi(t) <= Capacity[a] /\ Unit <= cursor[a] /\ Unit \in Nat
  BY <1>1 DEF IInv, CallsOK, CallOK, Cas, RangesOK, CursorsInside
<1>3. CASE /\ cursor[a] = th[t].cur /\ cursor' = [cursor EXCEPT ![a] = Hi(t)]
           /\ blocks' = blocks \cup {Block(t, Lo(t))} /\ th' = [th EXCEPT ![t] = Returned(@)]
  <2> DEFINE nb == Block(t, Lo(t))
             c == [arena |-> id[a], cur |-> Hi(t), end |-> Hi(t)]
  <2>1. nb \in Ranges /\ nb.arena = id[a] /\ nb.lo = Lo(t) /\ nb.hi = Hi(t)
    BY <1>1, BlockType DEF Hi
  <2>2. id[a] \in Nat
    BY <1>1 DEF IInv, ArenaTypeOK
  <2>3. c \in Chunks /\ c.arena = id[a] /\ c.cur = Hi(t) /\ c.end = Hi(t)
    BY <1>1, <2>2 DEF Chunks
  <2> HIDE DEF nb, c
  <2>4. UNCHANGED <<id, nextId, tlab>> /\ blocks' = blocks \cup {nb}
    BY <1>3 DEF Cas, nb
  <2>5. cursor \in [Arenas -> Nat]
    BY DEF IInv, ArenaTypeOK
  <2>6. cursor' \in [Arenas -> Nat] /\ cursor'[a] = Hi(t)
        /\ \A e \in Arenas : e # a => cursor'[e] = cursor[e]
    BY <1>1, <1>3, <2>5
  <2>7. NewCursor(a)
    BY <1>1, <1>2, <1>3, <2>6 DEF NewCursor
  <2>8. NewChunk(t, 0, c)
    BY <2>4 DEF NewChunk
  <2>9. Inside(a, nb, c)
    BY <1>1, <1>2, <1>3, <2>1, <2>3, <2>6 DEF Inside
  <2>10. ClearOfBlocks(a, nb, c) /\ ClearOfChunks(t, 0, a, nb, c)
    BY <1>1, <1>3, <2>1, AboveCursor
  <2>11. RangesOK'
    BY <1>1, <2>1, <2>3, <2>4, <2>7, <2>8, <2>9, <2>10, HandOut
  <2>12. CallsOK' /\ th' \in [Threads -> Calls]
    BY <1>1, <1>3, <2>7, ReturnedFacts, CallsAfter
  <2>13. ArenaTypeOK'
    BY <2>1, <2>4, <2>6, <2>12 DEF IInv, ArenaTypeOK
  <2>14. QED
    BY <2>11, <2>12, <2>13 DEF IInv
<1>4. CASE /\ th' = [th EXCEPT ![t].cur = Actual(t), ![t].contended = TRUE, ![t].pc = "decide"]
           /\ UNCHANGED <<cursor, blocks>>
  <2>1. /\ th' \in [Threads -> Calls] /\ th'[t].pc = "decide" /\ th'[t].cur = cursor[a]
        /\ th'[t].arena = a /\ \A u \in Threads : u # t => th'[u] = th[u]
    <3> DEFINE now == cursor[a]
    <3>1. th' = [th EXCEPT ![t].cur = now, ![t].contended = TRUE, ![t].pc = "decide"]
      BY <1>4 DEF Actual
    <3>2. now \in Nat
      BY <1>1
    <3> HIDE DEF now
    <3>3. th' \in [Threads -> Calls]
      BY <1>1, <3>1, <3>2, LostRace
    <3>4. /\ th'[t].pc = "decide" /\ th'[t].cur = now
          /\ th'[t].arena = th[t].arena /\ \A u \in Threads : u # t => th'[u] = th[u]
      BY <1>1, <3>1 DEF Calls
    <3>5. QED
      BY <3>3, <3>4 DEF now
  <2>2. CallOK(t)'
    BY <1>1, <1>4, <2>1 DEF CallOK, Deciding
  <2>3. QED
    BY <1>4, <2>1, <2>2, LocalStep DEF Cas
<1>5. QED
  BY <1>3, <1>4 DEF Cas

\* refill: the chunk lies between the cursor and the capacity, and the request
\* fits in it.
LEMMA ChunkFacts ==
  ASSUME IInv, NEW t \in Threads, th[t].pc = "claim", cursor[th[t].arena] = th[t].rcur
  PROVE  LET a == th[t].arena
             c == Chunk(t)
             lo == Start(c, th[t].req)
         IN  /\ c.arena = id[a] /\ c.cur \in Nat /\ c.end \in Nat /\ lo \in Nat
             /\ cursor[a] <= c.cur /\ c.cur <= lo
             /\ lo + th[t].req.size <= c.end /\ c.end <= Capacity[a]
<1> DEFINE a == th[t].arena
           start == AlignUp(th[t].rcur, Unit)
           size == ChunkSize(a, th[t].rcur)
           req == th[t].req
           lo == AlignUp(start, req.align)
<1>1. /\ a \in Arenas /\ th[t].rcur \in Nat /\ Capacity[a] \in Nat /\ cursor[a] \in Nat
      /\ req.align \in Nat \ {0} /\ req.size \in Nat \ {0}
  BY CallTypes DEF IInv
<1>2. size \in Int
  <2>1. Capacity[a] - th[t].rcur \in Int
    BY <1>1
  <2>2. (Capacity[a] - th[t].rcur) \div Share \in Int
    BY <2>1, DivBounds
  <2>3. QED
    BY <2>2 DEF ChunkSize
<1>3. size >= req.size + req.align /\ start + size <= Capacity[a]
  BY DEF IInv, CallsOK, CallOK, WorthAChunk
<1>4. start \in Nat /\ th[t].rcur <= start
  BY <1>1, AlignUpBounds
<1>5. lo \in Nat /\ start <= lo /\ lo < start + req.align
  BY <1>1, <1>4, AlignUpBounds
<1>6. Chunk(t).arena = id[a] /\ Chunk(t).cur = start /\ Chunk(t).end = start + size
  BY DEF Chunk
<1>7. Start(Chunk(t), req) = lo
  BY <1>6 DEF Start
<1> HIDE DEF start, size, lo
<1>8. start + size \in Nat /\ lo + req.size <= start + size
  BY <1>1, <1>2, <1>3, <1>4, <1>5
<1>9. QED
  BY <1>1, <1>3, <1>4, <1>5, <1>6, <1>7, <1>8

LEMMA ClaimIInv == ASSUME IInv, NEW t \in Threads, Claim(t) PROVE IInv'
<1> DEFINE a == th[t].arena
           req == th[t].req
           c == Chunk(t)
           lo == Start(c, req)
<1>1. /\ a \in Arenas /\ th[t].rcur \in Nat /\ cursor[a] \in Nat /\ Capacity[a] \in Nat
      /\ req.size \in Nat \ {0} /\ th[t].cur \in Nat /\ th \in [Threads -> Calls]
      /\ cursor \in [Arenas -> Nat] /\ id[a] \in Nat
  BY CallTypes DEF IInv, ArenaTypeOK
<1>2. th[t].pc = "claim"
  BY DEF Claim
<1>3. Hi(t) <= Capacity[a] /\ Unit <= cursor[a] /\ Unit \in Nat /\ th[t].cur <= cursor[a]
  BY <1>1, <1>2 DEF IInv, CallsOK, CallOK, RangesOK, CursorsInside, Deciding
<1>4. ASSUME cursor[a] = th[t].rcur, cursor' = [cursor EXCEPT ![a] = c.end]
      PROVE  NewCursor(a) /\ cursor'[a] = c.end
  <2>1. c.end \in Nat /\ cursor[a] <= c.end /\ c.end <= Capacity[a]
    BY <1>1, <1>2, <1>4, ChunkFacts
  <2> HIDE DEF c
  <2>2. QED
    BY <1>1, <1>4, <2>1 DEF NewCursor
<1>5. CASE /\ cursor[a] = th[t].rcur /\ cursor' = [cursor EXCEPT ![a] = c.end]
           /\ tlab' = [tlab EXCEPT ![t][Victim(t, c.arena)] = Carved(c, req)]
           /\ blocks' = blocks \cup {Block(t, lo)} /\ th' = [th EXCEPT ![t] = Returned(@)]
  <2> DEFINE nc == Carved(c, req)
             nb == Block(t, lo)
             v == Victim(t, c.arena)
  <2>1. /\ c.arena = id[a] /\ c.cur \in Nat /\ c.end \in Nat /\ lo \in Nat
        /\ cursor[a] <= c.cur /\ c.cur <= lo /\ lo + req.size <= c.end /\ c.end <= Capacity[a]
    BY <1>2, <1>5, ChunkFacts
  <2>2. nc \in Chunks /\ nc.arena = id[a] /\ nc.cur = lo + req.size /\ nc.end = c.end
    BY <1>1, <2>1 DEF Carved, Chunks
  <2>3. nb \in Ranges /\ nb.arena = id[a] /\ nb.lo = lo /\ nb.hi = lo + req.size
    BY <2>1, BlockType
  <2>4. NewCursor(a) /\ cursor'[a] = c.end
    BY <1>4, <1>5
  <2>5. UNCHANGED <<id, nextId>> /\ blocks' = blocks \cup {nb} /\ tlab' = [tlab EXCEPT ![t][v] = nc]
    BY <1>5 DEF Claim
  <2> HIDE DEF nc, nb, v, lo, c
  <2>6. tlab \in [Threads -> [1 .. Slots -> Chunks]]
    BY DEF IInv, ArenaTypeOK
  <2>7. tlab' \in [Threads -> [1 .. Slots -> Chunks]] /\ NewChunk(t, v, nc)
    BY <2>2, <2>5, <2>6 DEF NewChunk
  <2>8. Inside(a, nb, nc)
    BY <1>1, <1>3, <2>1, <2>2, <2>3, <2>4 DEF Inside
  <2>9. ClearOfBlocks(a, nb, nc) /\ ClearOfChunks(t, v, a, nb, nc)
    <3>1. cursor[a] <= nb.lo
      BY <1>1, <2>1, <2>3
    <3>2. QED
      BY <1>1, <2>3, <3>1, AboveCursor
  <2>10. RangesOK'
    BY <1>1, <2>2, <2>3, <2>4, <2>5, <2>7, <2>8, <2>9, HandOut
  <2>11. CallsOK' /\ th' \in [Threads -> Calls]
    BY <1>1, <1>5, <2>4, ReturnedFacts, CallsAfter
  <2>12. ArenaTypeOK'
    BY <2>3, <2>4, <2>5, <2>7, <2>11 DEF IInv, ArenaTypeOK, NewCursor
  <2>13. QED
    BY <2>10, <2>11, <2>12 DEF IInv
<1>6. CASE /\ cursor[a] = th[t].rcur /\ cursor' = [cursor EXCEPT ![a] = c.end]
           /\ Goto(t, "cas") /\ UNCHANGED <<tlab, blocks>>
  <2>1. NewCursor(a) /\ UNCHANGED <<id, nextId, tlab, blocks>>
    BY <1>4, <1>6 DEF Claim
  <2>2. /\ th' \in [Threads -> Calls] /\ th'[t].pc = "cas" /\ th'[t].cur = th[t].cur
        /\ th'[t].arena = a /\ th'[t].req = req /\ \A u \in Threads : u # t => th'[u] = th[u]
    BY <1>1, <1>6 DEF Goto, Calls
  <2>3. Hi(t)' = Hi(t)
    BY <2>2 DEF Hi, Lo
  <2>4. th[t].cur <= cursor'[a]
    BY <1>1, <1>3, <2>1, CursorGrows DEF IInv
  <2>5. CallOK(t)'
    BY <1>3, <2>2, <2>3, <2>4 DEF CallOK
  <2>6. CallsOK'
    BY <1>1, <2>1, <2>2, <2>5, CallsAfter
  <2>7. \A e \in Arenas : cursor[e] <= cursor'[e] /\ cursor[e] \in Nat /\ cursor'[e] \in Nat
    BY <1>1, <2>1, CursorGrows DEF IInv
  <2>8. ChunksBelow'
    <3>1. \A u \in Threads, r \in 1 .. Slots : tlab[u][r].end \in Nat
      BY DEF IInv, ArenaTypeOK, Chunks
    <3>2. QED
      BY <2>1, <2>7, <3>1 DEF IInv, RangesOK, ChunksBelow
  <2>9. BlocksBelow'
    <3> SUFFICES ASSUME NEW b \in blocks
                 PROVE  b.lo < b.hi /\ \E e \in Arenas :
                          b.arena = id[e] /\ Unit <= b.lo /\ b.hi <= cursor'[e]
      BY <2>1 DEF BlocksBelow
    <3>1. PICK e \in Arenas : b.lo < b.hi /\ b.arena = id[e] /\ Unit <= b.lo /\ b.hi <= cursor[e]
      BY DEF IInv, RangesOK, BlocksBelow
    <3>2. b.hi \in Nat
      BY DEF IInv, ArenaTypeOK, Ranges
    <3>3. b.hi <= cursor'[e]
      BY <2>7, <3>1, <3>2
    <3>4. QED
      BY <3>1, <3>3
  <2>10. CursorsInside'
    <3> SUFFICES ASSUME NEW e \in Arenas PROVE Unit <= cursor'[e] /\ cursor'[e] <= Capacity[e]
      BY DEF CursorsInside
    <3>1. Unit <= cursor[e] /\ cursor[e] <= Capacity[e]
      BY DEF IInv, RangesOK, CursorsInside
    <3>2. cursor'[e] <= Capacity[e]
      BY <2>1, <3>1 DEF NewCursor
    <3>3. QED
      BY <1>3, <2>7, <3>1, <3>2
  <2>11. RangesOK'
    BY <2>1, <2>8, <2>9, <2>10 DEF IInv, RangesOK, IdsFresh, Disjoint, ChunksPrivate
  <2>12. ArenaTypeOK'
    BY <2>1, <2>2 DEF IInv, ArenaTypeOK, NewCursor
  <2>13. QED
    BY <2>6, <2>11, <2>12 DEF IInv
<1>7. CASE /\ th' = [th EXCEPT ![t].rcur = Actual(t), ![t].pc = "refill"]
           /\ UNCHANGED <<cursor, tlab, blocks>>
  <2>1. /\ th' \in [Threads -> Calls] /\ th'[t].pc = "refill" /\ th'[t].cur = th[t].cur
        /\ th'[t].arena = a /\ th'[t].req = req /\ \A u \in Threads : u # t => th'[u] = th[u]
    BY <1>1, <1>7 DEF Calls, Actual
  <2>2. Hi(t)' = Hi(t)
    BY <2>1 DEF Hi, Lo
  <2>3. CallOK(t)'
    BY <1>3, <1>7, <2>1, <2>2 DEF CallOK
  <2>4. QED
    BY <1>7, <2>1, <2>3, LocalStep DEF Claim
<1>8. QED
  BY <1>5, <1>6, <1>7 DEF Claim

\* reset: the new identity matches no chunk and no block.
LEMMA ResetIInv == ASSUME IInv, NEW a \in Arenas, Reset(a) PROVE IInv'
<1>1. /\ id \in [Arenas -> Nat \ {0}] /\ nextId \in Nat /\ cursor \in [Arenas -> Nat]
      /\ blocks \subseteq Ranges /\ Unit \in Nat
      /\ \A u \in Threads, r \in 1 .. Slots : tlab[u][r] \in Chunks
  BY DEF IInv, ArenaTypeOK
<1>2. /\ \A e \in Arenas : id[e] < nextId
      /\ \A e, d \in Arenas : e # d => id[e] # id[d]
      /\ \A u \in Threads, r \in 1 .. Slots : tlab[u][r].arena < nextId
  BY DEF IInv, RangesOK, IdsFresh
<1>3. id' = [id EXCEPT ![a] = nextId] /\ nextId' = nextId + 1 /\ cursor' = [cursor EXCEPT ![a] = Unit]
      /\ blocks' = {b \in blocks : b.arena # id[a]} /\ UNCHANGED <<tlab, th>>
  BY DEF Reset, FreshId
<1>4. nextId # 0
  BY <1>1, <1>2
<1>5. ArenaTypeOK'
  BY <1>1, <1>3, <1>4 DEF IInv, ArenaTypeOK
<1>6. \A u \in Threads, r \in 1 .. Slots : tlab[u][r].arena \in Nat
  BY <1>1 DEF Chunks
<1>7. IdsFresh'
  BY <1>1, <1>2, <1>3, <1>6 DEF IdsFresh
<1>8. CursorsInside'
  BY <1>1, <1>3 DEF IInv, RangesOK, CursorsInside
<1>9. ChunksBelow'
  <2> SUFFICES ASSUME NEW u \in Threads, NEW r \in 1 .. Slots, NEW e \in Arenas,
                      tlab[u][r].arena = id'[e]
               PROVE  Unit <= tlab[u][r].cur /\ tlab[u][r].end <= cursor'[e]
    BY <1>3 DEF ChunksBelow
  <2>1. e # a
    BY <1>1, <1>2, <1>3, <1>6
  <2>2. QED
    BY <1>1, <1>3, <2>1 DEF IInv, RangesOK, ChunksBelow
<1>10. BlocksBelow'
  <2> SUFFICES ASSUME NEW b \in blocks, b.arena # id[a]
               PROVE  b.lo < b.hi /\ \E e \in Arenas :
                        b.arena = id'[e] /\ Unit <= b.lo /\ b.hi <= cursor'[e]
    BY <1>3 DEF BlocksBelow
  <2>1. PICK e \in Arenas : b.lo < b.hi /\ b.arena = id[e] /\ Unit <= b.lo /\ b.hi <= cursor[e]
    BY DEF IInv, RangesOK, BlocksBelow
  <2>2. QED
    BY <1>1, <1>3, <2>1
<1>11. Disjoint' /\ ChunksPrivate'
  BY <1>3 DEF IInv, RangesOK, Disjoint, ChunksPrivate
<1>12. CallsOK'
  <2> SUFFICES ASSUME NEW t \in Threads PROVE CallOK(t)'
    BY DEF CallsOK
  <2>1. th'[t] = th[t] /\ cursor' \in [Arenas -> Nat] /\ CallOK(t) /\ ArenaTypeOK
    BY <1>3, <1>5 DEF ArenaTypeOK, IInv, CallsOK
  <2>2. th[t].pc \in Deciding => th[t].arena # a
    BY DEF Reset, Deciding
  <2>3. th[t].pc \in Deciding => cursor[th[t].arena] <= cursor'[th[t].arena]
    BY <1>1, <1>3, <2>2, CallTypes DEF IInv
  <2>4. QED
    BY <2>1, <2>3, OtherCall
<1>13. QED
  BY <1>5, <1>7, <1>8, <1>9, <1>10, <1>11, <1>12 DEF IInv, RangesOK

LEMMA NextIInv == IInv /\ [Next]_vars => IInv'
<1> SUFFICES ASSUME IInv, [Next]_vars PROVE IInv'
  OBVIOUS
<1>1. ASSUME NEW t \in Threads, Begin(t) \/ Move(t) PROVE IInv'
  BY <1>1, BeginIInv, TakeIInv, LoadIInv, DecideIInv, CasIInv, RefillIInv, ClaimIInv, FullIInv
     DEF Move
<1>2. ASSUME NEW a \in Arenas, Reset(a) PROVE IInv'
  BY <1>2, ResetIInv
<1>3. CASE UNCHANGED vars
  <2>1. \A t \in Threads : CallOK(t)' = CallOK(t)
    BY <1>3 DEF vars, CallOK, Hi, Lo, WorthAChunk, ChunkSize
  <2>2. QED
    BY <1>3, <2>1 DEF vars, IInv, ArenaTypeOK, RangesOK, CallsOK, IdsFresh, CursorsInside,
       ChunksBelow, BlocksBelow, Disjoint, ChunksPrivate
<1>4. QED
  BY <1>1, <1>2, <1>3 DEF Next, Terminated

\* The invariant holds in every reachable state.
THEOREM Invariance == Spec => []IInv
<1>1. QED
  BY InitIInv, NextIInv, PTL DEF Spec

-----------------------------------------------------------------------------
(* The theorems *)

\* src/src/arena/mod.rs: no byte is handed out twice, by the cursor, by a chunk or
\* across resets, and every range lies inside its arena.
THEOREM BytesExclusiveCorrect == Spec => []BytesExclusive
<1>1. IInv => BytesExclusive
  <2> SUFFICES ASSUME IInv PROVE BytesExclusive
    OBVIOUS
  <2>1. InBounds
    BY DEF IInv, RangesOK, InBounds, CursorsInside, BlocksBelow, Current
  <2>2. QED
    BY <2>1 DEF IInv, RangesOK, BytesExclusive
<1>2. QED
  BY <1>1, Invariance, PTL

\* alloc returns None only for a request that does not fit at the cursor of now,
\* although it was decided on an older one.
THEOREM FullOnlyWhenFullCorrect == Spec => []FullOnlyWhenFull
<1>1. IInv => FullOnlyWhenFull
  <2> SUFFICES ASSUME IInv, NEW t \in Threads, th[t].pc = "full"
               PROVE  AlignUp(cursor[th[t].arena], th[t].req.align) + th[t].req.size
                        > Capacity[th[t].arena]
    BY DEF FullOnlyWhenFull
  <2>1. th[t].cur <= cursor[th[t].arena] /\ Hi(t) > Capacity[th[t].arena]
    BY DEF IInv, CallsOK, CallOK, Deciding
  <2>2. /\ th[t].req.align \in Nat \ {0} /\ th[t].req.size \in Nat
        /\ th[t].cur \in Nat /\ cursor[th[t].arena] \in Nat /\ Capacity[th[t].arena] \in Nat
    BY CallTypes DEF IInv
  <2>3. Lo(t) <= AlignUp(cursor[th[t].arena], th[t].req.align)
    BY <2>1, <2>2, AlignUpMonotone DEF Lo
  <2>4. Lo(t) \in Nat /\ AlignUp(cursor[th[t].arena], th[t].req.align) \in Nat
    BY <2>2, AlignUpBounds DEF Lo
  <2>5. QED
    BY <2>1, <2>2, <2>3, <2>4 DEF Hi
<1>2. QED
  BY <1>1, Invariance, PTL

=============================================================================

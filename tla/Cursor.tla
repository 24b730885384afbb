------------------------------- MODULE Cursor -------------------------------
(***************************************************************************)
(* The validated, double-ended cursor of src/src/raw/cursor.rs, which every *)
(* iterator of every map uses, over the tree of RawTree while its writers  *)
(* run.                                                                    *)
(*                                                                         *)
(* Each end keeps a stack of frames (node, version, next byte).  A step    *)
(* reads from the top frame's node and validates the frame's version; a    *)
(* descent couples the child to the frame above; any failure makes the end *)
(* seek again from the root, past the last key it yielded.                 *)
(*                                                                         *)
(* Steps that touch only the cursor itself (which leaf is next, does it    *)
(* lie in the range, have the ends met) run together with the shared       *)
(* access before them.                                                     *)
(***************************************************************************)
EXTENDS RawTree

CONSTANTS
  Scanner,    \* the thread that scans; it runs no program of its own
  Ranges,     \* the ranges it may scan in each scenario: records of two bounds
  Batch,      \* BATCH
  MaxRepins   \* how often prune_all may repin during one scan

ASSUME ScannerAssumption ==
  /\ Scanner \in Threads \ {Loader}
  /\ DOMAIN Ranges = DOMAIN Programs
  /\ \A p \in DOMAIN Programs : Programs[p][Scanner] = <<>>

ASSUME BatchAssumption == Batch \in Nat \ {0} /\ MaxRepins \in Nat

VARIABLES
  cur,   \* the cursor
  stay,  \* history: the keys present at all times since the scan began
  ever   \* history: the leaves present at some time since then

scan == <<cur, stay, ever>>

-----------------------------------------------------------------------------
(* Keys, bounds and frames *)

Included(k) == [kind |-> "Included", key |-> k]
Excluded(k) == [kind |-> "Excluded", key |-> k]
Unbounded == [kind |-> "Unbounded", key |-> <<>>]

\* cmp_keys: lexicographic order; a key comes after its proper prefixes.
KeyLess(a, b) ==
  LET m == CommonLen(a, b) IN m < Len(b) /\ (m = Len(a) \/ a[m + 1] < b[m + 1])

Forward(c) == c.dir = "front"
Opposite(dir) == IF dir = "front" THEN "back" ELSE "front"

\* In the direction of the running call, a comes before b.
Before(c, a, b) == IF Forward(c) THEN KeyLess(a, b) ELSE KeyLess(b, a)

\* The largest byte, 255 in the code; the smallest is 0.
TopByte == Max(Bytes)
FirstByte(c) == IF Forward(c) THEN 0 ELSE TopByte
After(c, b) == IF Forward(c) THEN b + 1 ELSE b - 1

Frame(n, v, next, exact) == [node |-> n, ver |-> v, next |-> next, exact |-> exact]
EdgeFrame(c, n, v) == Frame(n, v, FirstByte(c), TRUE)

\* One end of the cursor.  last: the leaf it yielded last.
NewSide ==
  [stack |-> <<>>, pending |-> Null, batch |-> <<>>, inRange |-> FALSE,
   last |-> Null, positioned |-> FALSE]

\* Side::reset.
Reset(s) == [s EXCEPT !.stack = <<>>, !.pending = Null, !.batch = <<>>, !.inRange = FALSE]

\* What the step at hand makes of its end once it is validated: the end, a leaf
\* to yield, and the child to go on to (0: none).
Outcome(side, leaf) == [side |-> side, leaf |-> leaf, down |-> 0, depth |-> 0]

\* pc: new, idle (between calls), seek, version, couple, look, step, check,
\*   closed.   edge: the node at hand is entered at its edge, without a look.
\* gen0 and out are history: the generation the scan began in and what each
\* end has yielded.
NewCursor ==
  [pc |-> "new", dir |-> "front", range |-> [start |-> Unbounded, end |-> Unbounded],
   front |-> NewSide, back |-> NewSide, done |-> FALSE, repins |-> 0,
   node |-> 0, ver |-> 0, depth |-> 0, edge |-> FALSE, plan |-> Outcome(NewSide, Null),
   gen0 |-> 0, out |-> [front |-> <<>>, back |-> <<>>]]

Side(c) == c[c.dir]

\* Where a seek starts: past the last key yielded, or at the near bound.
SeekBoundInclusive(c) ==                                \* mutant
  IF Side(c).last # Null THEN Included(Side(c).last.key)
  ELSE IF Forward(c) THEN c.range.start ELSE c.range.end
SeekBound(c) ==
  IF Side(c).last # Null THEN Excluded(Side(c).last.key)
  ELSE IF Forward(c) THEN c.range.start ELSE c.range.end

\* k satisfies the bound a seek starts from.
Takes(c, bound, k) ==
  \/ bound.kind = "Unbounded"
  \/ Before(c, bound.key, k)
  \/ bound.kind = "Included" /\ k = bound.key

\* below_end and above_start: k lies inside the far bound.
Within(c, k) ==
  LET far == IF Forward(c) THEN c.range.end ELSE c.range.start
  IN  \/ far.kind = "Unbounded"
      \/ Before(c, k, far.key)
      \/ far.kind = "Included" /\ k = far.key

-----------------------------------------------------------------------------
(* Between shared accesses *)

Stop(c) == [c EXCEPT !.pc = "idle", !.done = TRUE]
Yield(c, p) ==
  [c EXCEPT !.pc = "idle", ![c.dir].last = p, !.out[c.dir] = Append(@, p)]

\* The ends have met at k.
CrossedLate(c, k) ==                                    \* mutant
  LET met == c[Opposite(c.dir)].last IN met # Null /\ Before(c, met.key, k)
Crossed(c, k) ==
  LET met == c[Opposite(c.dir)].last IN met # Null /\ ~Before(c, k, met.key)

\* accept: a leaf outside the far bound, or past the other end, ends the scan.
Accept(c, p) == IF Within(c, p.key) /\ ~Crossed(c, p.key) THEN Yield(c, p) ELSE Stop(c)

\* advance_slow, up to the next shared access.
AdvanceSlow(c) ==
  LET s == Side(c)
  IN  IF c.done THEN Stop(c)
      ELSE IF ~s.positioned THEN [c EXCEPT !.pc = "seek"]
      ELSE IF s.pending # Null THEN Accept([c EXCEPT ![c.dir].pending = Null], s.pending)
      ELSE IF s.batch # <<>> THEN Accept([c EXCEPT ![c.dir].batch = Tail(@)], Head(s.batch))
      ELSE IF s.stack = <<>> THEN Stop(c)
      ELSE [c EXCEPT !.pc = "step"]

\* advance: a leaf of a batch known to lie inside the far bound needs no check
\* while the other end has not moved.
FastBatchAnyRange(c) ==                                 \* mutant
  Side(c).batch # <<>> /\ Side(c).positioned /\ c[Opposite(c.dir)].last = Null /\ ~c.done
FastBatchOneEnd(c) ==                                   \* mutant
  Side(c).inRange /\ Side(c).batch # <<>> /\ Side(c).positioned /\ ~c.done
FastBatch(c) ==
  LET s == Side(c)
  IN  /\ s.inRange /\ s.batch # <<>> /\ s.pending = Null /\ s.positioned
      /\ c[Opposite(c.dir)].last = Null
      /\ ~c.done

\* Step::Invalid, and 'retry in seek.
ReseekInPlace(c) ==                                     \* mutant
  [c EXCEPT !.pc = IF c.pc = "version" THEN "version" ELSE "seek"]
Reseek(c) == [c EXCEPT !.pc = "seek"]

\* A node's frame is pushed at its edge, to be stepped through.
Enter(c, n, v) == AdvanceSlow([c EXCEPT ![c.dir].stack = Append(@, EdgeFrame(c, n, v))])

-----------------------------------------------------------------------------
(* The actions of the scanner *)

\* The keys present now, and the leaves present since generation g.
Present == {k \in Keys : dict[Gen][k] # NoVal}
LeavesSince(g) ==
  {Leaf(x[1], dict[x[2]][x[1]]) : x \in {y \in Keys \X (g .. Gen) : dict[y[2]][y[1]] # NoVal}}

\* Range::owned, scan and prune_all: pin, and a new cursor.
Open ==
  /\ cur.pc = "new" /\ Finished(Loader)
  /\ \E r \in Ranges[th[Scanner].prog] : cur' = [NewCursor EXCEPT !.pc = "idle", !.range = r, !.gen0 = Gen]
  /\ th' = [th EXCEPT ![Scanner].pc = "scan"]
  /\ stay' = Present /\ ever' = LeavesSince(Gen)
  /\ UNCHANGED <<heap, len, reclaim, ghost>>

\* A call of next or next_back.
CallNext ==
  /\ cur.pc = "idle" /\ ~cur.done
  /\ \E dir \in {"front", "back"} :
       LET c == [cur EXCEPT !.dir = dir]
           s == Side(c)
       IN  cur' = IF FastBatch(c)
                  THEN Yield([c EXCEPT ![dir].batch = Tail(@)], Head(s.batch))
                  ELSE AdvanceSlow(c)
  /\ UNCHANGED <<vars, stay, ever>>

\* seek: load the root.  A root leaf waits in `pending'.
Seek ==
  /\ cur.pc = "seek"
  /\ LET s == [Reset(Side(cur)) EXCEPT !.positioned = TRUE]
         c == [cur EXCEPT ![cur.dir] = s]
         takes == root.tag = "leaf" /\ Takes(cur, SeekBound(cur), root.key)
     IN  cur' = IF root.tag = "inner"
                THEN [c EXCEPT !.pc = "version", !.node = root.node, !.depth = 0,
                               !.edge = SeekBound(c) = Unbounded]
                ELSE AdvanceSlow([c EXCEPT ![c.dir].pending = IF takes THEN root ELSE Null])
  /\ UNCHANGED <<vars, stay, ever>>

\* read_version of the node at hand.
Version ==
  /\ cur.pc = "version"
  /\ LET v == latch[cur.node].ver
     IN  cur' = IF latch[cur.node] = Unlocked(v) THEN [cur EXCEPT !.pc = "couple", !.ver = v]
                ELSE Reseek(cur)
  /\ UNCHANGED <<vars, stay, ever>>

\* R4: the frame above is unchanged, or the root is.
CoupledAnyway(c) == TRUE                                \* mutant
Coupled(c) ==
  IF Side(c).stack = <<>> THEN root = Inner(c.node)
  ELSE latch[Last(Side(c).stack).node] = Unlocked(Last(Side(c).stack).ver)

CoupleScan ==
  /\ cur.pc = "couple"
  /\ cur' = IF ~Coupled(cur) THEN Reseek(cur)
            ELSE IF cur.edge THEN Enter(cur, cur.node, cur.ver)
            ELSE [cur EXCEPT !.pc = "look"]
  /\ UNCHANGED <<vars, stay, ever>>

\* seek: where the key that the end resumes from leaves this node.
SeekFrame(c) ==
  LET n == c.node
      nd == body[n]
      key == SeekBound(c).key
      inclusive == SeekBound(c).kind = "Included"
      rest == From(key, c.depth + 1)
      m == CommonLen(nd.prefix, rest)
      d == c.depth + Len(nd.prefix)
      subtreeAfterKey == m = Len(rest) \/ rest[m + 1] < nd.prefix[m + 1]
      b == key[d + 1]
      child == nd.child[b]
      past == Frame(n, c.ver, After(c, b), ~Forward(c))
      Pushed(f) == Outcome([Side(c) EXCEPT !.stack = Append(@, f)], Null)
  IN  CASE m < Len(nd.prefix) ->
             IF subtreeAfterKey = Forward(c) THEN Pushed(EdgeFrame(c, n, c.ver))
             ELSE Outcome(Side(c), Null)
        [] m = Len(nd.prefix) /\ d = Len(key) ->
             Pushed(Frame(n, c.ver, IF Forward(c) THEN 0 ELSE -1, inclusive))
        [] m = Len(nd.prefix) /\ d < Len(key) ->
             IF child.tag = "inner"
             THEN [Pushed(past) EXCEPT !.down = child.node, !.depth = d + 1]
             ELSE IF child.tag = "leaf" /\ Takes(c, SeekBound(c), child.key)
             THEN Pushed([past EXCEPT !.next = b])
             ELSE Pushed(past)

LookScan ==
  /\ cur.pc = "look"
  /\ cur' = [cur EXCEPT !.pc = "check", !.plan = SeekFrame(cur)]
  /\ UNCHANGED <<vars, stay, ever>>

\* next_child and prev_child: what remains of the top frame's node, in order.
Remaining(c, f) ==
  LET left == {b \in Bytes : /\ body[f.node].child[b] # Null
                             /\ IF Forward(c) THEN b >= f.next ELSE b <= f.next}
  IN  SetToSortSeq(left, LAMBDA x, y : IF Forward(c) THEN x < y ELSE x > y)

\* The exact leaf comes before the children, or after them going backward.
ExactNowAnyDir(c, f) == f.exact                         \* mutant
ExactNow(c, f) == f.exact /\ (Forward(c) \/ f.next < 0)

\* The consecutive leaf children that one validation covers.
Gathered(c, f) ==
  LET order == Remaining(c, f)
      child == [i \in DOMAIN order |-> body[f.node].child[order[i]]]
      stops == {i \in DOMAIN order : child[i].tag = "inner"} \cup {Len(order) + 1, Batch + 1}
  IN  SubSeq(child, 1, Min(stops) - 1)

\* step: what the top frame leads to.
StepFrame(c) ==
  LET s == Side(c)
      f == Last(s.stack)
      order == Remaining(c, f)
      leaves == Gathered(c, f)
      Top(g) == [s EXCEPT !.stack = Append(Front(@), g)]
      exhausted == IF ~Forward(c) /\ f.exact THEN Top([f EXCEPT !.next = -1])
                   ELSE [s EXCEPT !.stack = Front(@)]
  IN  CASE ExactNow(c, f) -> Outcome(Top([f EXCEPT !.exact = FALSE]), body[f.node].exact)
        [] ~ExactNow(c, f) /\ leaves # <<>> ->
             Outcome([Top([f EXCEPT !.next = After(c, order[Len(leaves)])]) EXCEPT
                      !.batch = Tail(leaves), !.inRange = Within(c, Last(leaves).key)],
                   Head(leaves))
        [] ~ExactNow(c, f) /\ leaves = <<>> /\ order # <<>> ->
             [Outcome(Top([f EXCEPT !.next = After(c, order[1])]), Null)
                EXCEPT !.down = body[f.node].child[order[1]].node]
        [] OTHER -> Outcome(exhausted, Null)

\* Leaves and an exhausted node are conclusions to validate; a child is first
\* entered, and validated by the coupling.
StepScan ==
  /\ cur.pc = "step"
  /\ LET f == Last(Side(cur).stack)
         next == StepFrame(cur)
     IN  cur' = IF next.down # 0
                THEN [cur EXCEPT !.pc = "version", !.node = next.down, !.edge = TRUE,
                                 ![cur.dir] = next.side]
                ELSE [cur EXCEPT !.pc = "check", !.node = f.node, !.ver = f.ver, !.plan = next]
  /\ UNCHANGED <<vars, stay, ever>>

\* Validate the node that was read before acting on it.
ValidAnyway(c) == TRUE                                  \* mutant
Valid(c) == latch[c.node] = Unlocked(c.ver)

CheckScan ==
  /\ cur.pc = "check"
  /\ LET p == cur.plan
         c == [cur EXCEPT ![cur.dir] = p.side, !.plan = Outcome(NewSide, Null)]
     IN  cur' = IF ~Valid(cur) THEN Reseek([cur EXCEPT !.plan = Outcome(NewSide, Null)])
                ELSE IF p.down # 0
                THEN [c EXCEPT !.pc = "version", !.node = p.down, !.depth = p.depth]
                ELSE IF p.leaf # Null THEN Accept(c, p.leaf)
                ELSE AdvanceSlow(c)
  /\ UNCHANGED <<vars, stay, ever>>

\* Cursor::invalidate.
InvalidateKeepsFrames(s) == s                           \* mutant
Invalidate(s) == [Reset(s) EXCEPT !.positioned = FALSE]

\* prune_all, every 1024 leaves: forget the frames, then repin.
Repin ==
  /\ cur.pc = "idle" /\ ~cur.done /\ cur.repins < MaxRepins
  /\ cur.range = [start |-> Unbounded, end |-> Unbounded] /\ cur.out.back = <<>>
  /\ cur' = [cur EXCEPT !.front = Invalidate(@), !.back = Invalidate(@), !.repins = @ + 1]
  /\ Unpin(Scanner)
  /\ UNCHANGED <<root, len, removed, retired, th, ghost, stay, ever>>

\* The iterator is dropped, and with it its guard.
Close ==
  /\ cur.pc = "idle"
  /\ cur' = [NewCursor EXCEPT !.pc = "closed"]
  /\ th' = [th EXCEPT ![Scanner].pc = "done"]
  /\ stay' = {} /\ ever' = {}
  /\ UNCHANGED <<heap, len, reclaim, ghost>>

-----------------------------------------------------------------------------
(* The scan and the tree *)

ScanInit == Init /\ cur = NewCursor /\ stay = {} /\ ever = {}

\* A step of a call that runs.
ScanMove == Seek \/ Version \/ CoupleScan \/ LookScan \/ StepScan \/ CheckScan

\* A step of any thread in the tree.
TreeStep(t) ==
  /\ Begin(t) \/ Move(t)
  /\ UNCHANGED cur
  /\ IF cur.pc \in {"new", "closed"} THEN UNCHANGED <<stay, ever>>
     ELSE stay' = stay \cap Present' /\ ever' = ever \cup LeavesSince(cur.gen0)'

\* Every thread has run its program, and the scan, if there is one, is over.
AllOver ==
  /\ cur.pc = (IF Ranges[th[Scanner].prog] = {} THEN "new" ELSE "closed")
  /\ \A t \in Threads : Finished(t)
  /\ UNCHANGED <<vars, scan>>

ScanStep == Open \/ CallNext \/ ScanMove \/ Repin \/ Close

ScanNext == (\E t \in Threads : TreeStep(t)) \/ ScanStep \/ AllOver

ScanSpec == ScanInit /\ [][ScanNext]_<<vars, scan>>

-----------------------------------------------------------------------------
(* Properties *)

Keyed(leaves) == [i \in DOMAIN leaves |-> leaves[i].key]
FrontKeys == Keyed(cur.out.front)
BackKeys == Keyed(cur.out.back)

\* Every key is yielded at most once and in order, from both ends: the front
\* ascends, the back descends, and they never pass each other, however often
\* an end has to seek again and whether or not its last key is still there.
InOrderOnce ==
  /\ \A i \in 1 .. Len(FrontKeys) - 1 : KeyLess(FrontKeys[i], FrontKeys[i + 1])
  /\ \A i \in 1 .. Len(BackKeys) - 1 : KeyLess(BackKeys[i + 1], BackKeys[i])
  /\ FrontKeys # <<>> /\ BackKeys # <<>> => KeyLess(Last(FrontKeys), Last(BackKeys))

InScannedRange(k) ==
  LET a == cur.range.start
      z == cur.range.end
  IN  /\ a.kind = "Unbounded" \/ KeyLess(a.key, k) \/ (a.kind = "Included" /\ a.key = k)
      /\ z.kind = "Unbounded" \/ KeyLess(k, z.key) \/ (z.kind = "Included" /\ z.key = k)

\* Every key of the range that has been present since the scan began is yielded
\* before a later one is, and before the scan ends, although nodes are split,
\* grown, emptied, unlinked and cleared under the frames.
NothingSkipped ==
  \A k \in stay \ (ToSet(FrontKeys) \cup ToSet(BackKeys)) :
    InScannedRange(k) =>
      /\ ~cur.done
      /\ FrontKeys # <<>> => KeyLess(Last(FrontKeys), k)
      /\ BackKeys # <<>> => KeyLess(k, Last(BackKeys))

\* Whatever is yielded lies in the range and was an entry of the map, with
\* that value, at some time during the scan.
ScanReal ==
  \A p \in ToSet(cur.out.front) \cup ToSet(cur.out.back) :
    p \in ever /\ InScannedRange(p.key)

\* A scan yields the right entries: in order and once each, all that stayed,
\* and nothing that was never there.
ScanExact == InOrderOnce /\ NothingSkipped /\ ScanReal

\* Inv 2 for a scan: the frames, and the node at hand, are nodes that the
\* scanner's pin still protects, across the repins of prune_all too.
FramesProtected ==
  cur.pc \notin {"new", "closed"} =>
    LET frames == ToSet(cur.front.stack) \cup ToSet(cur.back.stack)
        athand == IF cur.pc \in {"version", "couple", "look", "check"} THEN {cur.node} ELSE {}
    IN  \A n \in {f.node : f \in frames} \cup athand :
          /\ body[n].type # 0
          /\ limbo[n] # {} => Scanner \in limbo[n]

\* A call of next or next_back returns: writers can make it seek again only
\* while they change the tree.
ScanReturns == cur.pc \notin {"new", "idle", "closed"} ~> cur.pc = "idle"

=============================================================================

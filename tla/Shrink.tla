------------------------------- MODULE Shrink -------------------------------
(***************************************************************************)
(* shrink_to_fit (src/src/raw/shrink.rs) over the tree of RawTree while    *)
(* its readers and writers, and the scan of Cursor, run.                   *)
(*                                                                         *)
(* The walk visits children before parents.  Each node is fitted: an empty *)
(* one is unlinked, one that holds a single leaf gives way to it, one with *)
(* a single child node is merged with that child, and any other is copied  *)
(* to the smallest layout that holds it.  What to do is decided from a     *)
(* validated look; the latches (parent, node, and the child of a merge)    *)
(* then confirm it.  The commit is a sequence of the primitive steps of    *)
(* RawTree, and of the three defined here.                                 *)
(***************************************************************************)
EXTENDS Cursor

CONSTANTS
  Shrinker,   \* the thread that shrinks; it runs no program of its own
  Passes,     \* how often it may call shrink_to_fit in each scenario
  ATTEMPTS    \* how often a node's latches are tried before it is left alone

ASSUME ShrinkerAssumption ==
  /\ Shrinker \in Threads \ {Loader, Scanner}
  /\ \A p \in DOMAIN Programs : Programs[p][Shrinker] = <<>> /\ Passes[p] \in Nat
  /\ ATTEMPTS \in Nat \ {0}

VARIABLES
  shr,     \* the walk
  alone    \* history: no other call has run since the pass began

fit == <<shr, alone>>

\* One node of the walk: where it was found, and whether its children are
\* already on the stack.
FitFrame(s, n, expanded) == [slot |-> s, node |-> n, expanded |-> expanded]

\* What the look at a node decided: Plan.  child, byte: of a merge.
Plan(what, type, byte, ptr) == [what |-> what, type |-> type, byte |-> byte, ptr |-> ptr]
Nothing == Plan("nothing", 0, 0, Null)

\* pc: idle, root, pop, expand, children, confirm (inner_children), read, look,
\*   size, check, lock, run, over (fit).
NoWalk ==
  [pc |-> "idle", passes |-> 0, stack |-> <<>>, tries |-> 0, ver |-> 0,
   found |-> <<>>, plan |-> Nothing]

Here == Last(shr.stack)

\* NodeType::fitting: the smallest layout for so many children.
FittingOneLarger(children) ==                           \* mutant
  Min({i \in DOMAIN Capacity : Capacity[i] > children} \cup {Len(Capacity)})
Fitting(children) == Min({i \in DOMAIN Capacity : Capacity[i] >= children})

\* NodeHeader::rest, with nothing taken: the only entry of a node, if it has
\* just one, with its byte.
OnlyEntry(nd) ==
  CHOOSE e \in {[byte |-> b, ptr |-> nd.child[b]] : b \in Bytes}
                 \cup {[byte |-> 0, ptr |-> nd.exact]} : e.ptr # Null

\* The prefix of n, the byte and the prefix of c fit in one node.
MergeFits(n, c) == Len(body[n].prefix) + 1 + Len(body[c].prefix) <= MaxPrefix

\* fit: what the look at n makes of it.  The layout for a merge is read next.
PlanFor(n) ==
  LET nd == body[n]
      e == OnlyEntry(nd)
      smaller(ty) == IF ty < nd.type THEN Plan("shrink", ty, 0, Null) ELSE Nothing
  IN  CASE Entries(nd) = 0 -> Plan("unlink", 0, 0, Null)
        [] Entries(nd) = 1 /\ e.ptr.tag = "leaf" -> Plan("leaf", 0, 0, e.ptr)
        [] Entries(nd) = 1 /\ e.ptr.tag = "inner" ->
             IF MergeFits(n, e.ptr.node) THEN Plan("merge", 0, e.byte, e.ptr) ELSE smaller(1)
        [] Entries(nd) > 1 -> smaller(Fitting(NumChildren(nd)))

-----------------------------------------------------------------------------
(* The walk *)

NextFrame(w) ==
  [w EXCEPT !.pc = "pop", !.stack = Front(@), !.tries = 0, !.ver = 0, !.found = <<>>,
            !.plan = Nothing]

\* backoff.spin(); continue: one try less.
TryAgain(w, pc) ==
  IF w.tries + 1 = ATTEMPTS THEN NextFrame(w)
  ELSE [w EXCEPT !.pc = pc, !.tries = @ + 1, !.ver = 0, !.found = <<>>, !.plan = Nothing]

\* A call of shrink_to_fit: pin.
BeginPass ==
  /\ shr.pc = "idle" /\ shr.passes < Passes[th[Shrinker].prog] /\ Finished(Loader)
  /\ shr' = [shr EXCEPT !.pc = "root", !.passes = @ + 1]
  /\ th' = [th EXCEPT ![Shrinker].pc = "walking"]
  /\ alone' = \A t \in Threads \ {Shrinker, Scanner} : ~Active(t)
  /\ UNCHANGED <<heap, len, reclaim, ghost, scan>>

\* The load of the root: a leaf, or nothing, needs no fitting.
WalkRoot ==
  /\ shr.pc = "root"
  /\ shr' = IF root.tag = "inner"
            THEN [shr EXCEPT !.pc = "pop", !.stack = <<FitFrame(RootSlot, root.node, FALSE)>>]
            ELSE [shr EXCEPT !.pc = "pop"]
  /\ UNCHANGED <<vars, alone>>

\* The next frame of the stack.
PopRepins ==                                            \* mutant
  /\ shr.pc = "pop" /\ shr.stack # <<>>
  /\ shr' = [shr EXCEPT !.pc = IF Here.expanded THEN "read" ELSE "expand"]
  /\ Unpin(Shrinker)
  /\ UNCHANGED <<root, len, removed, retired, th, ghost, alone>>
Pop ==
  /\ shr.pc = "pop" /\ shr.stack # <<>>
  /\ shr' = [shr EXCEPT !.pc = IF Here.expanded THEN "read" ELSE "expand"]
  /\ UNCHANGED <<vars, alone>>

\* The stack is empty: the call returns, and unpins.
EndPass ==
  /\ shr.pc = "pop" /\ shr.stack = <<>>
  /\ shr' = [NoWalk EXCEPT !.passes = shr.passes]
  /\ th' = [th EXCEPT ![Shrinker].pc = "idle"]
  /\ Unpin(Shrinker)
  /\ alone' = FALSE
  /\ UNCHANGED <<root, len, removed, retired, ghost>>

\* read_version of the frame's node, before its children or its plan are read.
ReadFrame ==
  /\ shr.pc \in {"expand", "read"}
  /\ LET l == latch[Here.node]
     IN  shr' = IF l.obsolete THEN NextFrame(shr)
                ELSE IF l.lock THEN TryAgain(shr, shr.pc)
                ELSE [shr EXCEPT !.ver = l.ver,
                                 !.pc = IF shr.pc = "expand" THEN "children" ELSE "look"]
  /\ UNCHANGED <<vars, alone>>

\* The frames of the inner children of n, the smallest byte on top.
ChildFrames(n) ==
  LET bytes == {b \in Bytes : body[n].child[b].tag = "inner"}
      order == SetToSortSeq(bytes, >)
  IN  [i \in DOMAIN order |->
         FitFrame(ChildSlot(n, order[i]), body[n].child[order[i]].node, FALSE)]

\* inner_children: the look, and its validation.
ReadChildren ==
  /\ shr.pc = "children"
  /\ shr' = [shr EXCEPT !.pc = "confirm", !.found = ChildFrames(Here.node)]
  /\ UNCHANGED <<vars, alone>>

\* The children go above their parent, which is fitted after them.
ExpandedChildrenLast(w) ==                              \* mutant
  w.found \o <<[Last(w.stack) EXCEPT !.expanded = TRUE]>>
Expanded(w) == <<[Last(w.stack) EXCEPT !.expanded = TRUE]>> \o w.found

ConfirmChildren ==
  /\ shr.pc = "confirm"
  /\ shr' = IF latch[Here.node] # Unlocked(shr.ver) THEN TryAgain(shr, "expand")
            ELSE [shr EXCEPT !.pc = "pop", !.stack = Front(@) \o Expanded(shr),
                             !.tries = 0, !.ver = 0, !.found = <<>>]
  /\ UNCHANGED <<vars, alone>>

-----------------------------------------------------------------------------
(* Fitting one node *)

LookFit ==
  /\ shr.pc = "look"
  /\ LET p == PlanFor(Here.node)
     IN  shr' = [shr EXCEPT !.plan = p, !.pc = IF p.what = "merge" THEN "size" ELSE "check"]
  /\ UNCHANGED <<vars, alone>>

\* The layout for a merge: a hint, as nothing keeps the child from changing.
SizeMerge ==
  /\ shr.pc = "size"
  /\ shr' = [shr EXCEPT !.pc = "check",
               !.plan.type = Fitting(NumChildren(body[shr.plan.ptr.node]))]
  /\ UNCHANGED <<vars, alone>>

\* Validate the look; nothing to do ends the fit.
CheckFit ==
  /\ shr.pc = "check"
  /\ shr' = IF latch[Here.node] # Unlocked(shr.ver) THEN TryAgain(shr, "read")
            ELSE IF shr.plan = Nothing THEN NextFrame(shr)
            ELSE [shr EXCEPT !.pc = "lock"]
  /\ UNCHANGED <<vars, alone>>

ChildVersion(c) == [do |-> "childversion", node |-> c]
Copy(s, n, p) == [do |-> "copy", slot |-> s, node |-> n, plan |-> p]
GiveUp == [do |-> "giveup"]

\* The commit that follows the parent's latch.
FitCommitUnlatched(s, n, v, p) ==                       \* mutant
  IF p.what = "shrink"
  THEN <<Copy(s, n, p), MarkObsolete(n), Unlock(s.node), Retire({}, {n})>>
  ELSE <<Upgrade(n, v), Store(s, p.ptr, FALSE), MarkObsolete(n), Unlock(s.node),
         Retire({}, {n})>>
FitCommitChildUnlatched(s, n, v, p) ==                  \* mutant
  CASE p.what \in {"unlink", "leaf"} ->
         <<Upgrade(n, v), Store(s, p.ptr, FALSE), MarkObsolete(n), Unlock(s.node),
           Retire({}, {n})>>
    [] p.what = "shrink" ->
         <<Upgrade(n, v), Copy(s, n, p), MarkObsolete(n), Unlock(s.node), Retire({}, {n})>>
    [] p.what = "merge" ->
         <<Upgrade(n, v), Copy(s, n, p), MarkObsolete(n), Unlock(s.node),
           Retire({}, {p.ptr.node}), Retire({}, {n})>>
FitCommitObsoleteFirst(s, n, v, p) ==                   \* mutant
  <<Upgrade(n, v), MarkObsolete(n), IF p.what = "shrink" THEN Copy(s, n, p)
                                    ELSE Store(s, p.ptr, FALSE),
    Unlock(s.node), Retire({}, {n})>>
FitCommit(s, n, v, p) ==
  CASE p.what \in {"unlink", "leaf"} ->
         <<Upgrade(n, v), Store(s, p.ptr, FALSE), MarkObsolete(n), Unlock(s.node),
           Retire({}, {n})>>
    [] p.what = "shrink" ->
         <<Upgrade(n, v), Copy(s, n, p), MarkObsolete(n), Unlock(s.node), Retire({}, {n})>>
    [] p.what = "merge" ->
         LET c == p.ptr.node
         IN  <<Upgrade(n, v), ChildVersion(c), Copy(s, n, p), MarkObsolete(c), MarkObsolete(n),
               Unlock(s.node), Retire({}, {c}), Retire({}, {n})>>

\* lock_parent re-checks that the slot still leads to the node.
FitsHereUnchecked(s, n) == TRUE                         \* mutant
FitsHere(s, n) == StillHolds(s, Inner(n))

\* lock_parent: a parent that is gone, or leads elsewhere, ends the fit.
LockFit ==
  /\ shr.pc = "lock"
  /\ LET s == Here.slot
         n == Here.node
         r == [Holding(th[Shrinker], s.node) EXCEPT !.pc = "run"]
     IN  \/ /\ latch[s.node].obsolete
            /\ shr' = NextFrame(shr)
            /\ UNCHANGED <<latch, th>>
         \/ /\ ~latch[s.node].obsolete /\ ~latch[s.node].lock
            /\ latch' = LockBit(s.node)
            /\ th' = [th EXCEPT ![Shrinker] = [r EXCEPT !.todo =
                        IF FitsHere(s, n) THEN FitCommit(s, n, shr.ver, shr.plan)
                        ELSE <<Unlock(s.node), GiveUp>>]]
            /\ shr' = [shr EXCEPT !.pc = "run"]
  /\ UNCHANGED <<root, body, len, reclaim, ghost, alone>>

\* drop(cw); drop(nw); drop(pg): the guards that are held, in this order.
DropGuards(r) ==
  LET child == IF shr.plan.what = "merge" THEN <<shr.plan.ptr.node>> ELSE <<>>
      held == SelectSeq(child \o <<Here.node, Here.slot.node>>, LAMBDA n : n \in r.held)
  IN  [r EXCEPT !.todo = [i \in DOMAIN held |-> Unlock(held[i])] \o <<Restart>>]

Running(what) == shr.pc = "run" /\ At(Shrinker, what)

SetShrinker(r) == th' = [th EXCEPT ![Shrinker] = r]

\* try_upgrade of the node at the version of the look, and of the child.
UpgradeFit ==
  /\ Running("upgrade")
  /\ LET n == Step(Shrinker).node
         r == th[Shrinker]
     IN  IF CanUpgrade(n, Step(Shrinker).ver)
         THEN latch' = LockBit(n) /\ SetShrinker(Advance(Holding(r, n)))
         ELSE SetShrinker(DropGuards(r)) /\ UNCHANGED latch
  /\ UNCHANGED <<root, body, len, reclaim, ghost, fit>>

\* read_version of the child, to upgrade at that version.
VersionChild ==
  /\ Running("childversion")
  /\ LET c == Step(Shrinker).node
         r == th[Shrinker]
     IN  SetShrinker(IF latch[c].lock \/ latch[c].obsolete THEN DropGuards(r)
                     ELSE [r EXCEPT !.todo = <<Upgrade(c, latch[c].ver)>> \o Tail(@)])
  /\ UNCHANGED <<heap, len, reclaim, ghost, fit>>

\* With n and c latched: the merge still fits in the node that was prepared.
MergeHoldsUnchecked(n, c, ty) == TRUE                   \* mutant
MergeHolds(n, c, ty) == MergeFits(n, c) /\ NumChildren(body[c]) <= Capacity[ty]

\* copy_into the prepared node; a merge puts the merged prefix before it.
Copied(n, p) ==
  IF p.what = "shrink" THEN [body[n] EXCEPT !.type = p.type]
  ELSE [body[p.ptr.node] EXCEPT !.type = p.type,
          !.prefix = body[n].prefix \o <<p.byte>> \o @]

\* publish_in_parent: one store makes the copy the node's successor.
CopyFit ==
  /\ Running("copy")
  /\ LET s == Step(Shrinker).slot
         n == Step(Shrinker).node
         p == Step(Shrinker).plan
         new == NewIds(1)[1]
         placed == [body EXCEPT ![new] = Copied(n, p)]
     IN  IF p.what = "merge" /\ ~MergeHolds(n, p.ptr.node, p.type)
         THEN SetShrinker(DropGuards(th[Shrinker])) /\ UNCHANGED <<root, body>>
         ELSE /\ IF s.node = 0 THEN root' = Inner(new) /\ body' = placed
                 ELSE /\ body' = [placed EXCEPT ![s.node] = Set(@, s.at, Inner(new))]
                      /\ UNCHANGED root
              /\ SetShrinker(Advance(th[Shrinker]))
  /\ UNCHANGED <<latch, len, reclaim, ghost, fit>>

\* The other steps of the commit are those of any writer.
CommitFit ==
  /\ shr.pc = "run"
  /\ \/ StoreStep(Shrinker) \/ ObsoleteStep(Shrinker) \/ UnlockStep(Shrinker)
     \/ RetireStep(Shrinker)
  /\ UNCHANGED fit

\* Committed, or left because the parent leads elsewhere: the next frame.
\* After a failed latch or re-check: another attempt.
EndFit ==
  /\ shr.pc = "run"
  /\ \/ th[Shrinker].todo = <<>> /\ shr' = NextFrame(shr)
     \/ At(Shrinker, "giveup") /\ shr' = NextFrame(shr)
     \/ At(Shrinker, "restart") /\ shr' = TryAgain(shr, "read")
  /\ SetShrinker([th[Shrinker] EXCEPT !.pc = "walking", !.todo = <<>>])
  /\ UNCHANGED <<heap, len, reclaim, ghost, alone>>

-----------------------------------------------------------------------------
(* The walk and the tree *)

ShrinkInit == ScanInit /\ shr = NoWalk /\ alone = FALSE

\* A step of a pass.
PassStep ==
  /\ WalkRoot \/ Pop \/ ReadFrame \/ ReadChildren \/ ConfirmChildren
     \/ LookFit \/ SizeMerge \/ CheckFit \/ LockFit \/ UpgradeFit \/ VersionChild \/ CopyFit
     \/ CommitFit \/ EndFit \/ EndPass
  /\ UNCHANGED scan

\* A step of any other thread; a thread that enters disturbs the pass.
OtherStep(t) ==
  /\ TreeStep(t)
  /\ UNCHANGED shr
  /\ alone' = FALSE

\* A scan only reads.
ScannerStep == ScanStep /\ UNCHANGED fit

ShrinkOver ==
  /\ shr.pc = "idle" /\ shr.passes = Passes[th[Shrinker].prog]
  /\ AllOver
  /\ UNCHANGED fit

ShrinkNext ==
  \/ BeginPass \/ PassStep \/ ScannerStep \/ ShrinkOver
  \/ \E t \in Threads \ {Shrinker} : OtherStep(t)

walkVars == <<vars, scan, fit>>

ShrinkSpec == ShrinkInit /\ [][ShrinkNext]_walkVars

\* The operating system runs every thread.
FairShrinkSpec ==
  /\ ShrinkSpec
  /\ WF_walkVars(PassStep)
  /\ WF_walkVars(ScanMove /\ ScannerStep)
  /\ \A t \in Threads \ {Shrinker} : WF_walkVars(Move(t) /\ OtherStep(t))

-----------------------------------------------------------------------------
(* Properties *)

\* shrink.rs assert_fitted: a pass that ran alone, whatever removes, splits
\* and merges came before it, has left every linked node with two entries or
\* with an only child it cannot merge with, in the smallest layout for it:
\* collapses and merges of children are seen by their parents in one pass.
Fitted ==
  shr.pc = "pop" /\ shr.stack = <<>> /\ alone =>
    \A n \in Reachable :
      LET nd == body[n]
          e == OnlyEntry(nd)
      IN  \/ /\ Entries(nd) > 1
             /\ nd.type = Min({i \in DOMAIN Capacity : Capacity[i] >= NumChildren(nd)})
          \/ /\ Entries(nd) = 1 /\ e.ptr.tag = "inner"
             /\ Len(nd.prefix) + 1 + Len(body[e.ptr.node].prefix) > MaxPrefix
             /\ nd.type = 1

\* Inv 2 for the walk: the nodes on its stack, and the child of the merge at
\* hand, are nodes that the pin still protects, although the walk itself and
\* every writer retire nodes under it.
WalkProtected ==
  Active(Shrinker) =>
    LET child == IF shr.plan.what = "merge" THEN {shr.plan.ptr.node} ELSE {}
        nodes == {f.node : f \in ToSet(shr.stack)} \cup {f.slot.node : f \in ToSet(shr.stack)}
    IN  \A n \in (nodes \cup child) \ {0} :
          /\ body[n].type # 0
          /\ limbo[n] # {} => Shrinker \in limbo[n]

\* Neither walk holds on to freed memory, whatever the other one and the
\* writers retire under it.
WalksProtected == FramesProtected /\ WalkProtected

\* Beside a pass and a scan the tree keeps its promises: every call is still
\* atomic, no node is overfilled, nothing is retired twice or under a reader,
\* and once all is quiet the tree is well formed, with nothing lost and
\* nothing left over.
TreeKept == TypeOK /\ Linearizable /\ RetiredSafely /\ QuiescentTree

\* A pass returns: no node is tried for ever, and the latches it takes below
\* held ones only by version never make it and a writer wait for each other.
PassReturns == shr.pc # "idle" ~> shr.pc = "idle"

\* Both walks end their calls, beside each other and beside writers.
WalksReturn == ScanReturns /\ PassReturns

=============================================================================

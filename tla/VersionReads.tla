----------------------------- MODULE VersionReads -----------------------------
(***************************************************************************)
(* The read side of the versioned maps (src/src/versioned/map.rs, iter.rs, *)
(* entry.rs and their arena twins) over the chains of VersionChain: a      *)
(* VersionedEntryRef captures one version and keeps it, with fresh reads   *)
(* on demand, and get_all_versions and version_count walk a chain that     *)
(* writers edit under them.  A reader runs no program of VersionChain in   *)
(* the scenarios where it reads; it is pinned from its first step until it *)
(* drops its handle (Return).                                              *)
(***************************************************************************)
EXTENDS VersionChain

CONSTANTS
  Readers,   \* the threads that read
  Looks      \* in each scenario, for each of them a sequence of sets of calls

ASSUME ReadersAssumption ==
  /\ Readers \subseteq Threads \ {Loader}
  /\ \A p \in DOMAIN Programs, t \in Readers : Looks[p][t] # <<>> => Programs[p][t] = <<>>

VARIABLE
  rd    \* for each reader: calls made, the entry it holds, what its last call
        \*   returned, and the versions that get_all_versions has come by

readVars == <<vars, rd>>

NewReader == [at |-> 0, entry |-> None, out |-> None, got |-> <<>>]

Version(n) == <<node[n].ver, node[n].val>>

\* What a read that met version n reports: nothing for a tombstone.
ReportEven(n) == Version(n)                              \* mutant
Report(n) == IF IsTombstone(n) THEN None ELSE Version(n)

-----------------------------------------------------------------------------
(* get_entry, Range::next, get_all_versions *)

MyLooks(t) == Looks[th[t].prog][t]
NextLook(t) == MyLooks(t)[rd[t].at + 1]
HasLook(t) == rd[t].at < Len(MyLooks(t))

Pin(t) ==
  /\ ~Active(t) /\ Finished(Loader) /\ HasLook(t)
  /\ \E o \in NextLook(t) :
       /\ o.kind \in {"entry", "all"}
       /\ th' = [th EXCEPT ![t].op = o, ![t].gen0 = Gen, ![t].pc = "find"]
       /\ seen' = [seen EXCEPT ![t] = {dict[Gen][o.key]}]
  /\ rd' = [rd EXCEPT ![t] = [NewReader EXCEPT !.at = rd[t].at + 1]]
  /\ UNCHANGED <<shared, dict>>

\* raw.get, or a leaf that the cursor of an iterator read, perhaps long before
\* its head is.
Find(t) ==
  /\ th[t].pc = "find"
  /\ LET l == slot[Gen][Op(t).key]
     IN  th' = [th EXCEPT ![t].leaf = l, ![t].pc = IF l = 0 THEN "done" ELSE "front"]
  /\ UNCHANGED <<shared, ghost, rd>>

\* The head is loaded once: its version, its value and whether it is a
\* tombstone belong together.
Capture(t) ==
  /\ th[t].pc = "front" /\ Op(t).kind = "entry"
  /\ LET n == leaf[th[t].leaf].head
         r == Report(n)
     IN  /\ rd' = [rd EXCEPT ![t].out = r,
                             ![t].entry = IF r = None THEN None ELSE [node |-> n, holds |-> r]]
         /\ th' = [th EXCEPT ![t].cur = n, ![t].pc = IF r = None THEN "done" ELSE "hold"]
  /\ UNCHANGED <<shared, ghost>>

\* chain: the first node of the walk, and the next ones, one load at a time.
FirstOfChain(t) ==
  /\ th[t].pc = "front" /\ Op(t).kind = "all"
  /\ th' = [th EXCEPT ![t].cur = leaf[th[t].leaf].head, ![t].pc = "list"]
  /\ UNCHANGED <<shared, ghost, rd>>

ListStep(t) ==
  /\ th[t].pc = "list"
  /\ LET n == th[t].cur
     IN  /\ rd' = [rd EXCEPT ![t].got = Append(@, Version(n))]
         /\ IF node[n].next = 0 THEN Goto(t, "done")
            ELSE th' = [th EXCEPT ![t].cur = node[n].next]
  /\ UNCHANGED <<shared, ghost>>

-----------------------------------------------------------------------------
(* VersionedEntryRef *)

\* latest and get_version_le, of a handle.
Again(t) ==
  /\ th[t].pc = "hold" /\ HasLook(t)
  /\ \E o \in NextLook(t) :
       /\ o.kind \in {"latest", "le"}
       /\ th' = [th EXCEPT ![t].op = [o EXCEPT !.key = Op(t).key], ![t].gen0 = Gen, ![t].pc = "again"]
  /\ seen' = [seen EXCEPT ![t] = {dict[Gen][Op(t).key]}]
  /\ rd' = [rd EXCEPT ![t].at = @ + 1, ![t].out = None]
  /\ UNCHANGED <<shared, dict>>

\* The leaf of the handle is asked, whatever became of it.
LatestRead(t) ==
  /\ th[t].pc = "again" /\ Op(t).kind = "latest"
  /\ rd' = [rd EXCEPT ![t].out = Report(leaf[th[t].leaf].head)]
  /\ Goto(t, "hold")
  /\ UNCHANGED <<shared, ghost>>

FirstOfLe(t) ==
  /\ th[t].pc = "again" /\ Op(t).kind = "le"
  /\ th' = [th EXCEPT ![t].cur = leaf[th[t].leaf].head, ![t].pc = "le"]
  /\ UNCHANGED <<shared, ghost, rd>>

LeStep(t) ==
  /\ th[t].pc = "le"
  /\ LET n == th[t].cur
     IN  \/ /\ node[n].ver <= Op(t).ver
            /\ rd' = [rd EXCEPT ![t].out = Report(n)]
            /\ Goto(t, "hold")
         \/ /\ node[n].ver > Op(t).ver /\ node[n].next # 0
            /\ th' = [th EXCEPT ![t].cur = node[n].next]
            /\ UNCHANGED rd
         \/ /\ node[n].ver > Op(t).ver /\ node[n].next = 0
            /\ Goto(t, "hold")
            /\ UNCHANGED rd
  /\ UNCHANGED <<shared, ghost>>

\* The handle is dropped, and its guard with it.
DropHandle(t) ==
  /\ th[t].pc = "hold"
  /\ Goto(t, "done")
  /\ rd' = [rd EXCEPT ![t].entry = None]
  /\ UNCHANGED <<shared, ghost>>

IsSuperseded(e) == node[e.node].sup \/ leaf[node[e.node].leaf].lock = "dead"

-----------------------------------------------------------------------------
(* The specification *)

ReadInit == Init /\ rd = [t \in Readers |-> NewReader]

ReadStep(t) ==
  \/ Pin(t) \/ Find(t) \/ Capture(t) \/ FirstOfChain(t) \/ ListStep(t)
  \/ Again(t) \/ LatestRead(t) \/ FirstOfLe(t) \/ LeStep(t) \/ DropHandle(t)

ReadNext ==
  \/ \E t \in Readers : ReadStep(t)
  \/ (\E t \in Threads : Begin(t) \/ Move(t)) /\ UNCHANGED rd
  \/ Terminated /\ UNCHANGED rd

ReadSpec == ReadInit /\ [][ReadNext]_readVars

-----------------------------------------------------------------------------
(* Properties *)

\* entry.rs: the version that a handle captured is never freed or used again
\* under it, and its number and value stay what they were, whoever replaced,
\* pruned, removed or cleared it; the leaf it is in stays with it.
EntryIntact ==
  \A t \in Readers : rd[t].entry # None =>
    LET n == rd[t].entry.node
    IN  /\ node[n].used /\ Version(n) = rd[t].entry.holds
        /\ leaf[th[t].leaf].used /\ leaf[th[t].leaf].key = Op(t).key

\* is_superseded is true "once the captured version has been unlinked" and not
\* before, whenever no writer is at work on that leaf.
SupersededTold ==
  \A t \in Readers : rd[t].entry # None =>
    LET l == th[t].leaf
        linked == slot[leaf[l].gen][leaf[l].key] = l /\ rd[t].entry.node \in ToSet(Chain(l))
    IN  leaf[l].lock # "held" /\ tree[leaf[l].gen] # "held" =>
          (IsSuperseded(rd[t].entry) <=> ~linked)

\* A handle shows the version it captured, and whether that is still the map's.
EntryFaithful == EntryIntact /\ SupersededTold

\* The newest live version of the key at some time during the last call of t.
WasLatest(t) ==
  \E s \in seen[t] : rd[t].out = IF Live(s) THEN Latest(s) ELSE None

StillLinked(t) == leaf[th[t].leaf].lock # "dead" /\ leaf[th[t].leaf].gen = Gen

\* get_entry and the latest-view iterators report a version that was the
\* newest and live while the call, or the scan, ran, and leave out only a key
\* that was not live at some time meanwhile; a handle's fresh reads are current
\* as long as the key was not removed under it.
ReadsCurrent ==
  \A t \in Readers : th[t].pc \in {"hold", "done"} =>
    CASE Op(t).kind = "entry" -> WasLatest(t)
      [] Op(t).kind = "latest" -> StillLinked(t) => WasLatest(t)
      [] Op(t).kind = "le" -> StillLinked(t) => \E s \in seen[t] : rd[t].out = Visible(s, Op(t).ver)
      [] OTHER -> TRUE

\* get_all_versions, which is no snapshot: it is in order without a repeat,
\* every version in it was in the chain at some time during the walk, and none
\* is missing that was there all the time.
AllVersionsSound ==
  \A t \in Readers : th[t].pc = "done" /\ Op(t).kind = "all" =>
    LET got == rd[t].got
    IN  /\ \A i \in 1 .. Len(got) - 1 : got[i][1] > got[i + 1][1]
        /\ \A i \in DOMAIN got : \E s \in seen[t] : s[got[i][1]] = got[i][2]
        /\ \A v \in Versions : (\A s \in seen[t] : s[v] # None) => \E i \in DOMAIN got : got[i][1] = v

\* What a reader is told of a key, by whichever of the reads, is what the key
\* held while it asked; and what its handle shows stays true.
ReadsSound == EntryFaithful /\ ReadsCurrent /\ AllVersionsSound

=============================================================================

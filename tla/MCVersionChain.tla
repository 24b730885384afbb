---------------------------- MODULE MCVersionChain ----------------------------
(***************************************************************************)
(* Instances of VersionChain for TLC: which chains a loader builds, and    *)
(* what the threads then do to them.                                       *)
(***************************************************************************)
EXTENDS VersionChain, TLC

CONSTANTS t0, t1, t2, t3, a, b

Call(kind, k, v, dead) == [kind |-> kind, key |-> k, ver |-> v, dead |-> dead]
Put(k, v) == Call("insert", k, v, FALSE)
Delete(k, v) == Call("insert", k, v, TRUE)
Read(k, max) == Call("read", k, max, FALSE)
RemoveHead(k) == Call("removehead", k, 0, FALSE)
RemoveKey(k) == Call("removekey", k, 0, FALSE)
RemoveVersion(k, v) == Call("removever", k, v, FALSE)
\* Its closure takes no value, or every value, for a tombstone.
Prune(k, min) == Call("prune", k, min, FALSE)
PruneAll(k, min) == Call("prune", k, min, TRUE)
ClearAll == Call("clear", a, 0, FALSE)

MCVersions == {1, 2, 3}

\* Writers and a prune on one chain of up to three versions, with a reader on
\* it: versions are inserted above, between, in place of and below others.
EditProgram ==
  (t0 :> << {Put(a, 2)}, {Put(a, 1), Delete(a, 3)}, {Put(a, 3), Read(a, 1)} >>) @@
  (t1 :> << {Put(a, 3), Delete(a, 2), RemoveVersion(a, 2), RemoveHead(a)} >>) @@
  (t2 :> << {Prune(a, 2), PruneAll(a, 3), RemoveVersion(a, 3), Put(a, 1)} >>) @@
  (t3 :> << {Read(a, 1), Read(a, 3)} >>)

\* The leaf itself comes and goes under writers that found it before.
UnlinkProgram ==
  (t0 :> << {Delete(a, 1), Put(a, 2)} >>) @@
  (t1 :> << {RemoveKey(a), RemoveVersion(a, 2), PruneAll(a, 3)} >>) @@
  (t2 :> << {Put(a, 3), RemoveHead(a), RemoveKey(a), RemoveVersion(a, 1)} >>) @@
  (t3 :> << {Put(a, 1), Prune(a, 3), Read(a, 3)} >>)

\* A clear, and writers inside the tree it detaches.
ClearProgram ==
  (t0 :> << {Put(a, 1)}, {Put(a, 2), Put(b, 1)}>>) @@
  (t1 :> << {ClearAll} >>) @@
  (t2 :> << {Put(a, 3), RemoveKey(a), RemoveHead(a)}, {Read(a, 3)} >>) @@
  (t3 :> << {Prune(a, 3), RemoveVersion(a, 1), Put(a, 2), Put(b, 2)} >>)

\* Everything that blocks, retries or starts again.
LiveProgram ==
  (t0 :> << {Put(a, 1), Delete(a, 1)} >>) @@
  (t1 :> << {RemoveKey(a), RemoveVersion(a, 1), Prune(a, 2), ClearAll} >>) @@
  (t2 :> << {Put(a, 2), RemoveVersion(a, 1), RemoveHead(a), Prune(a, 1)}, {Put(a, 1), RemoveKey(a)} >>)

LivePrograms == <<LiveProgram>>

=============================================================================

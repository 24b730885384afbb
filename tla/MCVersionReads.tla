---------------------------- MODULE MCVersionReads ----------------------------
(***************************************************************************)
(* Instances of VersionReads for TLC: the scenarios of MCVersionChain      *)
(* where t3 writes or does plain reads, and two in which it is a reader    *)
(* with a handle or a list of versions.                                    *)
(***************************************************************************)
EXTENDS MCVersionChain, VersionReads

\* A chain of two or three versions that is edited under the reader.
EditUnderReader ==
  (t0 :> << {Put(a, 2)}, {Put(a, 1)}, {Put(a, 3), Delete(a, 3)} >>) @@
  (t1 :> << {Put(a, 3), Delete(a, 2), Prune(a, 2)} >>) @@
  (t2 :> << {Prune(a, 3), RemoveHead(a), RemoveVersion(a, 1)} >>) @@
  (t3 :> << >>)

\* The leaf comes and goes.
UnlinkUnderReader ==
  (t0 :> << {Put(a, 2)}, {Delete(a, 3), Put(a, 1)} >>) @@
  (t1 :> << {RemoveKey(a), ClearAll}, {Put(a, 1)} >>) @@
  (t2 :> << {Prune(a, 3), Put(a, 2)} >>) @@
  (t3 :> << >>)

ChainPrograms ==
  <<EditProgram, UnlinkProgram, ClearProgram, EditUnderReader, UnlinkUnderReader>>

Reading ==
  << {Call("entry", a, 0, FALSE), Call("all", a, 0, FALSE)},
     {Call("latest", a, 0, FALSE), Call("le", a, 2, FALSE), Call("le", a, 1, FALSE)} >>
ChainLooks == [p \in 1 .. 5 |-> t3 :> IF p <= 3 THEN <<>> ELSE Reading]

=============================================================================

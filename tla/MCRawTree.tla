------------------------------ MODULE MCRawTree ------------------------------
(***************************************************************************)
(* Instances of RawTree for TLC: which starting trees a loader builds, and *)
(* what the threads then do to them.                                       *)
(***************************************************************************)
EXTENDS RawTree, TLC

CONSTANTS t0, t1, t2, t3

Get(k) == [kind |-> "get", key |-> k, mode |-> "Replace", fast |-> FALSE]
Put(k) == [kind |-> "insert", key |-> k, mode |-> "Replace", fast |-> FALSE]
PutNew(k) == [kind |-> "insert", key |-> k, mode |-> "IfAbsent", fast |-> FALSE]
Del(k) == [kind |-> "remove", key |-> k, mode |-> "Replace", fast |-> FALSE]
ClearAll == [kind |-> "clear", key |-> <<>>, mode |-> "Replace", fast |-> FALSE]
\* The inserters of the plain and of the versioned arena map.
FastPut(k) == [kind |-> "insert", key |-> k, mode |-> "Replace", fast |-> TRUE]
FastPutNew(k) == [kind |-> "insert", key |-> k, mode |-> "IfAbsent", fast |-> TRUE]

MCBytes == {1, 2, 3}
MCCapacity == <<2, 3>>

\* Below, at the end of, and off the one-byte prefix of a node; the empty key.
ShapeKeys == {<<>>, <<1>>, <<2>>, <<1, 1>>, <<1, 2>>, <<1, 3>>}

\* The loader leaves one node with prefix <<1>>: full, or with an exact leaf
\* and room.  Inserts then grow it, split its prefix or a leaf, fill it, or
\* replace; a remove and a lookup cross them.
ShapeProgram ==
  (t0 :> << {Put(<<1, 1>>)}, {Put(<<1, 2>>), Put(<<1>>)} >>) @@
  (t1 :> << {Put(k) : k \in {<<>>, <<2>>, <<1, 1>>, <<1, 3>>}} >>) @@
  (t2 :> << {PutNew(k) : k \in {<<2>>, <<1, 3>>, <<1>>}} \cup {Del(<<1, 1>>)} >>) @@
  (t3 :> << {Get(k) : k \in {<<1, 1>>, <<1, 2>>, <<1, 3>>}} >>)

\* Two keys at the end of a chain of three nodes (MaxPrefix = 1), a key that
\* ends inside the chain, and one beside it.
DeepA == <<1, 1, 1, 1, 1, 1>>
DeepB == <<1, 1, 1, 1, 1, 2>>

\* Removing both deep keys empties the bottom node and then, one by one, the
\* nodes above it, while others insert into, split or look into them.
UnlinkProgram ==
  (t0 :> << {Put(DeepA)}, {Put(DeepB)}, {Del(DeepA), Put(<<2>>)} >>) @@
  (t1 :> << {Del(DeepB)} >>) @@
  (t2 :> << {Del(DeepA), Del(DeepB), Put(DeepA), Put(<<1, 1>>)} >>) @@
  (t3 :> << {Get(DeepA)} >>)

\* Clear against writers in the tree it detaches: a root leaf, one node, or
\* two levels.
ClearProgram ==
  (t0 :> << {Put(<<1, 1>>)}, {Put(<<1, 2>>), Get(<<1, 1>>)}, {Put(<<2>>), Get(<<2>>)} >>) @@
  (t1 :> << {ClearAll} >>) @@
  (t2 :> << {Put(<<1, 1>>), Put(<<1, 3>>), Put(<<2>>)}, {Get(<<1, 1>>)} >>) @@
  (t3 :> << {Del(<<1, 1>>), Del(<<1, 2>>)} >>)

\* An arena inserter, plain or versioned, whose cached node others change.
HintProgram ==
  (t0 :> << {Put(<<1>>)}, {Put(<<2>>)} >>) @@
  (t1 :> << {FastPutNew(<<1, 2>>), FastPut(<<1, 2>>)},
            {FastPutNew(<<1, 3>>), FastPut(<<1, 3>>), FastPut(<<1, 2>>)} >>) @@
  (t2 :> << {Put(<<1, 3>>), Put(<<1, 1>>), Del(<<1, 2>>)},
            {Get(<<1, 3>>), Del(<<1>>), Put(<<1, 1>>)} >>) @@
  (t3 :> <<>>)

\* The first two are on the arena storage.
TreePrograms == <<ShapeProgram, HintProgram, UnlinkProgram, ClearProgram>>
TreeKeys == ShapeKeys \cup {DeepA, DeepB}

\* A versioned inserter whose cached node a clear detaches.
HintClearProgram ==
  (t0 :> << {Put(<<1>>)}, {Put(<<2>>)} >>) @@
  (t1 :> << {FastPutNew(<<1, 2>>)}, {FastPutNew(<<1, 3>>)} >>) @@
  (t2 :> << {ClearAll} >>)

HintClearPrograms == <<HintClearProgram>>

=============================================================================

------------------------------ MODULE MCShrink ------------------------------
(***************************************************************************)
(* Instances of Shrink for TLC: a tree of one or two levels, writers that  *)
(* change it, and a scan, a shrinking pass, or both, that walk it          *)
(* meanwhile.                                                              *)
(***************************************************************************)
EXTENDS Shrink, TLC

CONSTANTS t0, t1, t2, scanner, shrinker

Get(k) == [kind |-> "get", key |-> k, mode |-> "Replace", fast |-> FALSE]
Put(k) == [kind |-> "insert", key |-> k, mode |-> "Replace", fast |-> FALSE]
Del(k) == [kind |-> "remove", key |-> k, mode |-> "Replace", fast |-> FALSE]
ClearAll == [kind |-> "clear", key |-> <<>>, mode |-> "Replace", fast |-> FALSE]

MCBytes == {0, 1, 2}
MCCapacity == <<2, 3>>

A == <<0, 0, 0>>
B == <<0, 0, 1>>
C == <<0, 0, 2>>

\* The smallest and the largest byte, a key that ends in a node, and keys
\* before, between and after the others.
WalkKeys == {<<>>, <<0>>, <<0, 0>>, <<0, 1>>, <<0, 2>>, <<1>>, <<2>>, A, B, C}

Program(x, y, z) ==
  (t0 :> x) @@ (t1 :> y) @@ (t2 :> z) @@ (scanner :> <<>>) @@ (shrinker :> <<>>)

Everything == [start |-> Unbounded, end |-> Unbounded]

-----------------------------------------------------------------------------
(* Scans *)

\* Growth, splits, removes that unlink nodes and a clear, one after another,
\* by one writer.
OneWriter ==
  Program(<< {Put(<<0, 0>>)}, {Put(<<0, 1>>)}, {Put(<<0>>), Put(<<2>>)} >>,
          << {Put(<<1>>), Del(<<0, 1>>), ClearAll},
             {Del(<<0, 0>>)} >>,
          <<>>)

\* Two removes that empty a node and follow it up.
TwoWriters ==
  Program(<< {Put(<<0, 0>>)}, {Put(<<0, 1>>)}, {Put(<<2>>)} >>,
          << {Del(<<0, 0>>)} >>,
          << {Del(<<0, 1>>)} >>)

-----------------------------------------------------------------------------
(* Passes *)

\* A root over one node with prefix <<0>>: left with that node only (a merge),
\* with a leaf each (a collapse), or with a node of three children that lost
\* some (a smaller layout).  Then a writer or two in the nodes at hand.
Thinned == << {Put(<<2>>)}, {Put(A)}, {Put(B)} >>

MergeProgram ==
  Program(Thinned \o << {Del(<<2>>)} >>,
          << {Put(C), Del(A), Put(<<0, 1>>), ClearAll} >>,
          << {Del(B)} >>)

LayoutProgram ==
  Program(Thinned \o << {Put(C)}, {Del(C), Del(A)} >>,
          << {Put(C), Del(A)} >>,
          << {Del(B)} >>)

CollapseProgram ==
  Program(Thinned \o << {Del(B)} >>,
          << {Put(B), Del(A)} >>,
          << {Del(<<2>>)} >>)

\* The child of a merge loses a key after it was fitted and, once the layout
\* for the merge is chosen, gets one back.
RefillProgram ==
  Program(Thinned \o << {Put(C)}, {Del(<<2>>)} >>, << {Del(A)}, {Put(A)} >>, <<>>)

\* The walk alone, over what any sequence of these calls leaves behind.
AloneProgram ==
  Program(Thinned \o << {Put(C), Put(<<0>>), Put(<<0, 1>>)}, {Put(<<>>), Del(<<2>>)},
                       {Del(A), Del(B), Del(C)}, {Del(B), Del(<<2>>), Del(<<0, 1>>)} >>,
          <<>>, <<>>)

\* A pass that merges or collapses nodes under the frames of a scan.
BothProgram == Program(Thinned \o << {Del(<<2>>), Del(B)} >>, <<>>, <<>>)

WalkPrograms ==
  <<OneWriter, TwoWriters, MergeProgram, LayoutProgram, CollapseProgram, RefillProgram,
    AloneProgram, BothProgram>>
WalkPasses == <<0, 0, 1, 1, 1, 1, 2, 1>>
WalkRanges ==
  << {Everything, [start |-> Excluded(<<0>>), end |-> Included(<<0, 1>>)]},
     {Everything},
     {}, {}, {}, {}, {},
     {Everything, [start |-> Included(B), end |-> Excluded(<<2>>)]} >>

-----------------------------------------------------------------------------
(* Liveness *)

\* Two threads and everything that blocks, retries or follows up; a scan with a
\* writer and a follow-up, or a clear, under it; and a writer that changes,
\* unlinks or clears the nodes that are being merged.
NoWalker ==
  Program(<< {Put(<<0, 0>>)}, {Put(<<0, 1>>)}, {Put(<<1>>)} >>,
          << {Del(<<0, 0>>), Put(<<0, 2>>), ClearAll}, {Del(<<0, 1>>)} >>,
          << {Del(<<0, 1>>), Put(<<0, 2>>)}, {Del(<<0, 0>>)} >>)
LiveScan ==
  Program(<< {Put(<<0, 0>>)}, {Put(<<0, 1>>)}, {Put(<<1>>), Get(<<1>>)} >>,
          << {Del(<<0, 0>>), ClearAll}, {Del(<<0, 1>>)} >>,
          <<>>)
LivePass ==
  Program(Thinned \o << {Del(<<2>>)} >>,
          << {Put(C), Del(A), Put(<<0, 1>>), ClearAll}, {Del(B), Put(A)} >>,
          <<>>)

LivePrograms == <<NoWalker, LiveScan, LivePass>>
LivePasses == <<0, 0, 1>>
LiveRanges == << {}, {Everything}, {} >>

=============================================================================

---------------------------- MODULE MCArenaInsert ----------------------------
(***************************************************************************)
(* Instances of ArenaInsert for TLC.                                       *)
(***************************************************************************)
EXTENDS ArenaInsert

CONSTANTS t1, t2, t3, a, b

Call(op, k, v, value, cached) ==
  [op |-> op, key |-> k, ver |-> v, value |-> value, cached |-> cached]
Insert(k, v) == Call("insert", k, v, TRUE, FALSE)
InsertCached(k, v) == Call("insert", k, v, TRUE, TRUE)
Delete(k, v) == Call("insert", k, v, FALSE, FALSE)
RemoveHead(k) == Call("removehead", k, 0, FALSE, FALSE)
RemoveKey(k) == Call("removekey", k, 0, FALSE, FALSE)
RemoveVersion(k, v) == Call("removever", k, v, FALSE, FALSE)
\* Its closure takes no value, or every value, for a tombstone.
Prune(k, min) == Call("prune", k, min, FALSE, FALSE)
PruneAll(k, min) == Call("prune", k, min, FALSE, TRUE)
Clear == Call("clear", a, 0, FALSE, FALSE)
PutPlain(k) == Call("put", k, 0, TRUE, FALSE)
PutCached(k) == Call("put", k, 0, TRUE, TRUE)
TakePlain(k) == Call("take", k, 0, FALSE, FALSE)

\* Sizes are counted in objects.
MCSize ==
  [version |-> 1, leaf |-> 1, n4 |-> 1, n16 |-> 1, n48 |-> 1, n256 |-> 1]

Threads3(x, y, z) == [t \in {t1, t2, t3} |-> CASE t = t1 -> x [] t = t2 -> y [] t = t3 -> z]

\* Versioned maps.  Room, a prefix or leaf split, a chain of two nodes, growth;
\* an arena with space for about two inserts, or for part of one.
Versioned(x, y, z) ==
  [calls |-> Threads3(x, y, z), used |-> {11, 15}, reshapes |-> 1,
   needs |-> {<<>>, <<"n4">>, <<"n4", "n4">>, <<"n16">>}]

\* Plain maps.  Growth, and a key long enough for a chain of five.
PlainMap(x, y) ==
  [calls |-> Threads3(x, y, <<>>), used |-> {0, 12}, reshapes |-> 2,
   needs |-> {<<"n16">>, <<"n4", "n4", "n4", "n4", "n4">>}]

\* Inserts that meet while the key comes and goes, edits of a chain, and an insert
\* through a cached node while a clear takes the tree down.
MCPrograms ==
  { Versioned(<<{Insert(a, 1), InsertCached(a, 2)}, {Insert(a, 3), RemoveHead(a)}>>,
              <<{Insert(a, 2), Delete(a, 1)}, {RemoveKey(a)}>>,
              <<>>),
    Versioned(<<{Insert(a, 1)}, {Insert(a, 2)}>>,
              <<{RemoveKey(a), RemoveVersion(a, 1), Prune(a, 2), PruneAll(a, 2)}>>,
              <<{RemoveVersion(a, 2)}>>),
    Versioned(<<{Insert(a, 1)}, {Clear}>>,
              <<{Delete(a, 2), InsertCached(b, 1)}>>,
              <<{RemoveKey(a), PruneAll(a, 1)}>>),
    PlainMap(<<{PutPlain(a)}, {TakePlain(a)}>>, <<{PutCached(a)}>>) }

=============================================================================

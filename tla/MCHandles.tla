----------------------------- MODULE MCHandles -----------------------------
(***************************************************************************)
(* Instances of Handles for TLC.                                           *)
(***************************************************************************)
EXTENDS Handles

CONSTANTS t1, t2

Call(op, k, with) == [op |-> op, key |-> k, with |-> with]
Get(k) == Call("get", k, FALSE)
GetWithGuard(k) == Call("get", k, TRUE)
InsertEntry(k) == Call("insert", k, FALSE)
InsertWithGuard(k) == Call("insert", k, TRUE)
GetOrInsert(k) == Call("getOrInsert", k, FALSE)
InsertIfAbsent(k) == Call("insertIfAbsent", k, FALSE)
RemoveEntry(k) == Call("remove", k, FALSE)
Plain(op) == Call(op, 1, FALSE)

Program(x, y) == [t \in {t1, t2} |-> IF t = t1 THEN x ELSE y]

\* A handle that lives through clones, repins and the end of its thread while
\* the other thread replaces the entry; and entries taken by several calls.
HandlePrograms ==
  { Program(<<{InsertEntry(1)}, {Get(1), GetOrInsert(1)}, {Plain("clone"), Plain("pin")},
              {Plain("teardown"), Plain("repin")}, {Plain("clone"), Get(1)}>>,
            <<{InsertEntry(1), RemoveEntry(1)}, {GetOrInsert(1), InsertIfAbsent(1)}>>),
    Program(<<{GetOrInsert(1)}, {Plain("entryRemove")}, {InsertIfAbsent(1)}>>,
            <<{InsertEntry(1), GetOrInsert(1)}, {Plain("entryRemove"), RemoveEntry(1), Plain("clear")}>>),
    \* Iterators and guards.
    Program(<<{InsertEntry(1)}, {InsertEntry(2)}, {Plain("pin"), Plain("iter")},
              {Call("iter", 1, TRUE), Plain("next"), GetWithGuard(1)},
              {Plain("next"), Plain("clone"), Plain("repin")}>>,
            <<{Plain("clear"), RemoveEntry(1)}, {InsertIfAbsent(1)}>>),
    Program(<<{InsertEntry(1)}, {Plain("pin")}, {InsertWithGuard(1)}, {Plain("repin"), Plain("clone")}>>,
            <<{Plain("iter")}, {Plain("next")}, {Plain("entryRemove")}>>) }

=============================================================================

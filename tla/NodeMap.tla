------------------------------- MODULE NodeMap -------------------------------
(***************************************************************************)
(* What an inner node promises to the tree above it, whatever its layout:  *)
(* a map from key bytes to children, an exact leaf and a prefix, each      *)
(* changed by one atomic step of the thread that holds the node's latch.   *)
(* The version counts these steps: as long as it is the same, so is the    *)
(* node.                                                                   *)
(***************************************************************************)
EXTENDS Naturals

CONSTANTS
  Bytes,     \* the key bytes
  Pointers,  \* the pointers a slot can hold
  Null,      \* the null pointer
  NodePrefixes   \* the prefixes a node can have

VARIABLES map, exact, prefix, version

NodeVars == <<map, exact, prefix, version>>

\* insert_child puts a child at a byte that has none, replace_child at a byte
\* that has one, and remove_child takes one away.
PutChild(b, c) == map' = [map EXCEPT ![b] = c] /\ UNCHANGED <<exact, prefix>>

SetExact(c) == exact' = c /\ UNCHANGED <<map, prefix>>

SetPrefix(p) == prefix' = p /\ UNCHANGED <<map, exact>>

NodeInit ==
  /\ map \in [Bytes -> Pointers \cup {Null}]
  /\ exact \in Pointers \cup {Null}
  /\ prefix \in NodePrefixes
  /\ version = 0

NodeNext ==
  /\ version' = version + 1
  /\ \/ \E b \in Bytes, c \in Pointers \cup {Null} : PutChild(b, c)
     \/ \E c \in Pointers \cup {Null} : SetExact(c)
     \/ \E p \in NodePrefixes : SetPrefix(p)

NodeSpec == NodeInit /\ [][NodeNext]_NodeVars

=============================================================================

------------------------------- MODULE MCArena -------------------------------
(* The instance of Arena for TLC. *)
EXTENDS Arena, TLC

CONSTANTS t1, t2, t3, a1, a2

\* Two arenas and a single slot: a chunk for one evicts that for the other.
\* A chunk of the first serves two requests; the second fills up.
MCCapacity == (a1 :> 40) @@ (a2 :> 16)

\* A request that leaves a gap before the next one.
MCRequests == {[align |-> 2, size |-> 5]}

\* t1 comes back to an arena whose chunk it has lost to the other.
MCAllocs == (t1 :> 3) @@ (t2 :> 1) @@ (t3 :> 1)

=============================================================================

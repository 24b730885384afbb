---------------------------- MODULE MCStripedLen ----------------------------
(***************************************************************************)
(* An instance of StripedLen for TLC: three threads on two stripes of four *)
(* bits, which wrap around after a few removes.                            *)
(***************************************************************************)
EXTENDS StripedLen, TLC

CONSTANTS t1, t2, t3

ThreadSymmetry == Permutations({t1, t2, t3})

=============================================================================

---------------------------- MODULE MCHybridLatch ----------------------------
(***************************************************************************)
(* A small instance of HybridLatch for TLC.  Two threads suffice for every *)
(* interleaving of a reader and a writer, and of two writers; the theorems *)
(* of HybridLatchProofs hold for any number.                               *)
(***************************************************************************)
EXTENDS HybridLatch

\* Two fields, so that a read can be torn between them; two values to tell
\* the halves apart.
MCFields == {"prefix", "child"}
MCValues == {"old", "new"}

=============================================================================

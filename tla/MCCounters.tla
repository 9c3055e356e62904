----------------------------- MODULE MCCounters ---------------------------
(***************************************************************************)
(* Counters for TLC.                                                       *)
(***************************************************************************)
EXTENDS Counters

Symmetry == Permutations(Clients)
=============================================================================

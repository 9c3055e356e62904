----------------------------- MODULE MCPresence ----------------------------
(***************************************************************************)
(* Presence for TLC.                                                       *)
(***************************************************************************)
EXTENDS Presence, TLC

\* Connections, machines and profiles are interchangeable.
Symmetry == Permutations(Conns) \cup Permutations(Pids) \cup Permutations(Emails)
=============================================================================

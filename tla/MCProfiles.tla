---------------------------- MODULE MCProfiles -----------------------------
(***************************************************************************)
(* Profiles for TLC.                                                       *)
(***************************************************************************)
EXTENDS Profiles, TLC

\* Connections are interchangeable, and so are addresses.
Symmetry == Permutations(Handlers) \cup Permutations(Emails)
=============================================================================

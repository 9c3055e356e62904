----------------------------- MODULE MCOptions ----------------------------
(***************************************************************************)
(* Options for TLC.                                                        *)
(***************************************************************************)
EXTENDS Options, TLC

Symmetry == Permutations(Admins)
=============================================================================

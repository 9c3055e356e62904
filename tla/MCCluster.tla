----------------------------- MODULE MCCluster -----------------------------
(***************************************************************************)
(* Cluster for TLC.                                                        *)
(***************************************************************************)
EXTENDS Cluster, TLC

\* Nodes and handlers are interchangeable; links are not, since Dial chooses one.
Symmetry == Permutations(Nodes) \cup Permutations(Handlers)
=============================================================================

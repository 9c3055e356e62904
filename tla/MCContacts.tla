----------------------------- MODULE MCContacts -----------------------------
(***************************************************************************)
(* Contacts for TLC.                                                       *)
(***************************************************************************)
EXTENDS Contacts

\* Usual ids, the largest int and a negative one.
SomeInts == {-2, 1, 7}

\* Addresses are interchangeable.
Symmetry == Permutations(Nodes)
=============================================================================

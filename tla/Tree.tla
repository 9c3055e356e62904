-------------------------------- MODULE Tree --------------------------------
(***************************************************************************)
(* What the contacts of a profile are to its owner: every contact has an   *)
(* id, and lies in another one or at the top.                              *)
(***************************************************************************)
EXTENDS Functions

CONSTANTS Numbers,  \* what an id can be
          Top       \* the place of a contact that lies in no other

VARIABLE parent     \* parent[i] is where the contact i lies

Init == parent = <<>>

\* A set that holds, with a contact, what lies in it.
Whole(S) == \A j \in DOMAIN parent : parent[j] \in S => j \in S

\* The contact i and all that lies in it: what is in every such set that holds i.
Within(i) ==
  {j \in DOMAIN parent \cup {i} :
     \A S \in SUBSET (DOMAIN parent \cup {i}) : i \in S /\ Whole(S) => j \in S}

\* A contact is made in, or moved with all that lies in it to, a place outside of it.
Put(i, place) ==
  /\ place \notin Within(i)
  /\ parent' = [j \in DOMAIN parent \cup {i} |-> IF j = i THEN place ELSE parent[j]]

\* A contact goes, and all that lies in it.
Remove(i) == parent' = Restrict(parent, DOMAIN parent \ Within(i))

Next == \E i \in Numbers :
          \/ Remove(i)
          \/ \E place \in DOMAIN parent \cup {Top} : Put(i, place)

Spec == Init /\ [][Next]_parent
=============================================================================

------------------------------ MODULE Contacts ------------------------------
(***************************************************************************)
(* The contact tree of one profile: a heap of contacts that point to the   *)
(* next one of their list and to the list inside them, changed in place by *)
(* processContact and processContactReverse.  Both work under the lock of  *)
(* the profile, so a request is one step.  What the garbage collector      *)
(* would take is not in the heap.  Captions, PIDs and digests are left out. *)
(***************************************************************************)
EXTENDS Integers, FiniteSets, Functions, TLC

CONSTANTS Nodes,   \* addresses of contacts
          Width,   \* bits of an int
          Ids,     \* bound: ints that clients choose as an id or a parent
          None,    \* the nil pointer
          Absent,  \* Messages[5] is empty: no parent is named
          Junk     \* Messages[5] is not a number

MaxInt == 2^(Width - 1) - 1
Ints == (-MaxInt - 1)..MaxInt

ASSUME ContactsAssumption ==
  /\ Width \in Nat \ {0, 1} /\ MaxInt \in Nat \ {0}
  /\ Ids \subseteq Ints /\ None \notin Ints
  /\ Nodes \cap {None, Absent, Junk} = {} /\ IsFiniteSet(Nodes)

VARIABLES contacts,  \* Profile.Contacts
          heap       \* the contact at an address

vars == <<contacts, heap>>

Live == DOMAIN heap

TypeOK ==
  /\ contacts \in Live \cup {None}
  /\ Live \subseteq Nodes
  /\ heap \in [Live -> [id : Ints, inner : Live \cup {None}, next : Live \cup {None}]]

Init == contacts = None /\ heap = <<>>

(***************************************************************************)
(* The functions of package contact, on a heap h and a pointer into it.    *)
(***************************************************************************)

\* Contacts that a pointer leads to: those in every set that holds the first and, with a
\* contact, what it points to.
Closed(h, S) == \A n \in S : {h[n].next, h[n].inner} \subseteq S \cup {None}

Reach(h, first) ==
  {n \in DOMAIN h : \A S \in SUBSET DOMAIN h : first \in S \cup {None} /\ Closed(h, S) => n \in S}

\* getContact: the first contact i, each before what is in it, and that before the next.
GetContact(h, first, i) ==
  LET G[n \in DOMAIN h \cup {None}] ==
        IF n = None \/ h[n].id = i THEN n
        ELSE LET inside == G[h[n].inner] IN IF inside # None THEN inside ELSE G[h[n].next]
  IN G[first]

Skip(h, first, i) ==
  LET S[n \in DOMAIN h \cup {None}] ==
        IF n = None \/ h[n].id # i THEN n ELSE S[h[n].next]
  IN S[first]

\* Mutant of DelContact: only the list of the profile is searched.
DelContactFlat(h, first, i) ==
  [first |-> Skip(h, first, i), heap |-> [n \in DOMAIN h |-> [h[n] EXCEPT !.next = Skip(h, @, i)]]]

\* delContact: the pointers of every contact that stays jump over contacts i, so
\* what leaves keeps its own.
DelContact(h, first, i) ==
  LET jump == [n \in DOMAIN h |-> [h[n] EXCEPT !.inner = Skip(h, @, i), !.next = Skip(h, @, i)]]
      top == Skip(h, first, i)
      stay == Reach(jump, top)
  IN [first |-> top, heap |-> [n \in DOMAIN h |-> IF n \in stay THEN jump[n] ELSE h[n]]]

\* Addition in two's complement.
Wrap(x) == ((x + MaxInt + 1) % (2 * (MaxInt + 1))) - MaxInt - 1

\* Mutants of GetNewId: contacts inside others are not looked at, or one is added too late.
GetNewIdFlat(h, first) ==
  LET New[n \in DOMAIN h \cup {None}, r \in Ints] ==
        IF n = None THEN r ELSE New[h[n].next, IF h[n].id >= r THEN Wrap(h[n].id + 1) ELSE r]
  IN New[first, 1]

GetNewIdLast(h, first) ==
  LET New[n \in DOMAIN h \cup {None}, r \in Ints] ==
        IF n = None THEN r
        ELSE LET s == IF h[n].id > r THEN Wrap(h[n].id + 1) ELSE r
                 t == New[h[n].inner, 1]
             IN New[h[n].next, IF t > s THEN t ELSE s]
  IN New[first, 1]

\* getNewId, of a list and with the r it has so far.
GetNewId(h, first) ==
  LET New[n \in DOMAIN h \cup {None}] ==
        [r \in Ints |->
          IF n = None THEN r
          ELSE LET s == IF h[n].id >= r THEN Wrap(h[n].id + 1) ELSE r
                   t == New[h[n].inner][1]
               IN New[h[n].next][IF h[n].inner # None /\ t >= s THEN Wrap(t + 1) ELSE s]]
  IN New[first][1]

(***************************************************************************)
(* Requests.                                                               *)
(***************************************************************************)

\* The tree becomes what first leads to in h.
Become(first, h) ==
  /\ contacts' = first
  /\ heap' = Restrict(h, Reach(h, first))

\* The heap with a contact at c.
Store(h, c, contact) == [n \in DOMAIN h \cup {c} |-> IF n = c THEN contact ELSE h[n]]

\* The contact at c, with id i, comes first in the list of under, or of the profile.
Link(c, i, inner, under, first, h) ==
  IF under = None
  THEN Become(c, Store(h, c, [id |-> i, inner |-> inner, next |-> first]))
  ELSE Become(first, Store([h EXCEPT ![under].inner = c], c,
                           [id |-> i, inner |-> inner, next |-> h[under].inner]))

\* Messages[0] of a client: -1 asks for a new id.
Chosen(i) == IF i = -1 THEN GetNewId(heap, contacts) ELSE i

\* processContact "del"
Delete(m) ==
  LET deleted == DelContact(heap, contacts, Chosen(m))
  IN Become(deleted.first, deleted.heap)

\* processContact, no contact i: a new one ...
Create(m, place) ==
  LET i == Chosen(m)
      under == IF place \in {Absent, Junk} THEN None ELSE GetContact(heap, contacts, place)
  IN /\ GetContact(heap, contacts, i) = None
     /\ place # i
     /\ \E c \in Nodes \ Live : Link(c, i, None, under, contacts, heap)

\* Mutant of Move: the contact is not taken out of its list first.
MoveLinked(m, place) ==
  LET i == Chosen(m)
      c == GetContact(heap, contacts, i)
      under == IF place = Junk THEN None ELSE GetContact(heap, contacts, place)
  IN /\ c # None /\ place # Absent
     /\ place # i /\ (place # Junk => GetContact(heap, heap[c].inner, place) = None)
     /\ Link(c, i, heap[c].inner, under, contacts, heap)

\* ... else it moves, unless into itself.  With no parent it stays where it is.
Move(m, place) ==
  LET i == Chosen(m)
      c == GetContact(heap, contacts, i)
      rest == DelContact(heap, contacts, i)
      under == IF place = Junk THEN None ELSE GetContact(rest.heap, rest.first, place)
  IN /\ c # None /\ place # Absent
     /\ place # i /\ (place # Junk => GetContact(heap, heap[c].inner, place) = None)
     /\ Link(c, i, rest.heap[c].inner, under, rest.first, rest.heap)

\* processContactReverse: a new contact at the top, whatever its id.
Reverse ==
  LET i == GetNewId(heap, contacts)
  IN \E c \in Nodes \ Live : Link(c, i, None, None, contacts, heap)

Next ==
  \/ \E m \in Ids \cup {-1} :
       \/ Delete(m)
       \/ \E place \in Ids \cup {Absent, Junk} : Create(m, place) \/ Move(m, place)
  \/ Reverse

Spec == Init /\ [][Next]_vars

(***************************************************************************)
(* Properties.                                                             *)
(***************************************************************************)

\* Every contact hangs on one pointer: a list that met another or itself would show a
\* contact twice, or keep getContact in a loop that holds the lock of the profile.
TreeShaped ==
  \A n \in Live :
    Cardinality({m \in Live : heap[m].next = n}) + Cardinality({m \in Live : heap[m].inner = n})
      + (IF contacts = n THEN 1 ELSE 0) = 1

\* The contacts that n lies in.
Above(n) == {m \in Live : n \in Reach(heap, heap[m].inner)}
Depth(n) == Cardinality(Above(n))

\* getNewId adds one at every level, so it takes contacts that leave room for that below
\* the largest int.
HasRoom == \A n \in Live : (IF heap[n].id > 0 THEN heap[n].id ELSE 0) + Depth(n) < MaxInt

\* A new id is the id of no contact, at the top or inside others.
NewIdFresh == HasRoom => \A n \in Live : heap[n].id # GetNewId(heap, contacts)

\* contact_test.go, "compare by pid and by id": the id of a contact leads to it and not to
\* another one.
FoundById == \A n \in Live : GetContact(heap, contacts, heap[n].id) = n

\* A request changes the contact that its sender sees, and leaves one contact for every id
\* as long as the ids are below that limit.  Beyond it a client's own choice of the largest
\* int makes getNewId wrap, and two contacts may share an id.
FoundStays == [][FoundById /\ HasRoom => FoundById']_vars

\* The list that a pointer leads to: the contacts in every set that holds the first and, with
\* a contact, the next.
Along(h, S) == \A n \in S : h[n].next \in S \cup {None}

Siblings(h, first) ==
  {n \in DOMAIN h : \A S \in SUBSET DOMAIN h : first \in S \cup {None} /\ Along(h, S) => n \in S}

\* The id of the contact that n lies in.
Place(h, n) ==
  LET around == {m \in DOMAIN h : n \in Siblings(h, h[m].inner)}
  IN IF around = {} THEN None ELSE h[CHOOSE m \in around : TRUE].id

Parent == [i \in {heap[n].id : n \in Live} |-> Place(heap, GetContact(heap, contacts, i))]

Abstract == INSTANCE Tree WITH Numbers <- Ints, Top <- None, parent <- Parent

\* Every request does to the tree what its sender asked: a move takes along all that is
\* in the contact and a deletion takes nothing else with it, however the pointers lie, as
\* long as ids lead to their contacts and leave getNewId room.
ImplementsTree == Abstract!Init /\ [][FoundById /\ HasRoom => Abstract!Next]_Parent
=============================================================================

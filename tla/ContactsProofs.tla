--------------------------- MODULE ContactsProofs ---------------------------
(***************************************************************************)
(* Proofs about Contacts.                                                  *)
(***************************************************************************)
EXTENDS Contacts, FiniteSetTheorems, TLAPS

(***************************************************************************)
(* Heaps.                                                                  *)
(***************************************************************************)
Contact(S) == [id : Ints, inner : S \cup {None}, next : S \cup {None}]
IsHeap(h) == DOMAIN h \subseteq Nodes /\ h \in [DOMAIN h -> Contact(DOMAIN h)]

\* Some contact of every set points to none of them: there is no way around.
Acyclic(h, U) ==
  \A S \in SUBSET U : S # {} => \E n \in S : h[n].next \notin S /\ h[n].inner \notin S

LEMMA NoneIsNoNode == None \notin Nodes
BY ContactsAssumption

LEMMA Pointers ==
  ASSUME NEW h, IsHeap(h)
  PROVE  /\ None \notin DOMAIN h
         /\ \A n \in DOMAIN h : /\ h[n].id \in Ints
                                /\ h[n].inner \in DOMAIN h \cup {None}
                                /\ h[n].next \in DOMAIN h \cup {None}
BY NoneIsNoNode DEF IsHeap, Contact

(***************************************************************************)
(* A recursive function on a heap without a way around exists.  It is x at *)
(* None, and what V makes of a contact and of its two values elsewhere.    *)
(***************************************************************************)
Computes(g, h, T, x, V) ==
  /\ g[None] = x
  /\ \A n \in T : g[n] = V[n][g[h[n].inner]][g[h[n].next]]

\* Such a function on a part of the heap.
Partial(g, h, T, x, V, X) ==
  T \subseteq DOMAIN h /\ Closed(h, T) /\ g \in [T \cup {None} -> X] /\ Computes(g, h, T, x, V)

LEMMA PartialsAgree ==
  ASSUME NEW h, IsHeap(h), Acyclic(h, DOMAIN h), NEW X, NEW x, NEW V,
         NEW f, NEW T, Partial(f, h, T, x, V, X), NEW g, NEW U, Partial(g, h, U, x, V, X)
  PROVE  \A n \in (T \cup {None}) \cap (U \cup {None}) : f[n] = g[n]
<1> DEFINE S == {n \in T \cap U : f[n] # g[n]}
<1>1. f[None] = g[None]
  BY DEF Partial, Computes
<1>2. ASSUME NEW n \in S, h[n].next \notin S, h[n].inner \notin S PROVE FALSE
  <2>1. n \in T /\ n \in U /\ f[n] # g[n]
    OBVIOUS
  <2>2. /\ h[n].next \in T \cup {None} /\ h[n].inner \in T \cup {None}
        /\ h[n].next \in U \cup {None} /\ h[n].inner \in U \cup {None}
    BY <2>1 DEF Partial, Closed
  <2>3. f[h[n].next] = g[h[n].next] /\ f[h[n].inner] = g[h[n].inner]
    BY <1>1, <1>2, <2>2
  <2> QED BY <2>1, <2>3 DEF Partial, Computes
<1>3. S \in SUBSET DOMAIN h
  BY DEF Partial
<1>4. S = {}
  BY <1>2, <1>3 DEF Acyclic
<1> QED BY <1>1, <1>4

LEMMA PartialGrows ==
  ASSUME NEW h, IsHeap(h), Acyclic(h, DOMAIN h), NEW X, NEW x \in X,
         NEW V \in [DOMAIN h -> [X -> [X -> X]]], NEW n \in DOMAIN h,
         NEW f, NEW T, Partial(f, h, T, x, V, X), h[n].inner \in T \cup {None},
         NEW g, NEW U, Partial(g, h, U, x, V, X), h[n].next \in U \cup {None}
  PROVE  \E k, W : Partial(k, h, W, x, V, X) /\ n \in W
<1> DEFINE W == T \cup U \cup {n}
           new == V[n][f[h[n].inner]][g[h[n].next]]
           k == [m \in W \cup {None} |-> IF m \in T \cup {None} THEN f[m] ELSE IF m \in U THEN g[m] ELSE new]
<1>1. /\ T \subseteq DOMAIN h /\ Closed(h, T) /\ f \in [T \cup {None} -> X] /\ Computes(f, h, T, x, V)
      /\ U \subseteq DOMAIN h /\ Closed(h, U) /\ g \in [U \cup {None} -> X] /\ Computes(g, h, U, x, V)
  BY DEF Partial
<1>2. None \notin DOMAIN h
  BY Pointers
<1>3. \A m \in (T \cup {None}) \cap (U \cup {None}) : f[m] = g[m]
  BY PartialsAgree
<1>4. new \in X
  BY <1>1
<1>5. /\ \A m \in T \cup {None} : k[m] = f[m]
      /\ \A m \in U \cup {None} : k[m] = g[m]
      /\ n \notin T \cup U => k[n] = new
      /\ k \in [W \cup {None} -> X]
  BY <1>1, <1>2, <1>3, <1>4
<1> HIDE DEF k, new
<1>6. W \subseteq DOMAIN h /\ Closed(h, W)
  BY <1>1 DEF Closed
<1>7. k[None] = x
  BY <1>1, <1>5 DEF Computes
<1>8. ASSUME NEW m \in W PROVE k[m] = V[m][k[h[m].inner]][k[h[m].next]]
  <2>1. CASE m \in T
    <3>1. h[m].inner \in T \cup {None} /\ h[m].next \in T \cup {None}
      BY <1>1, <2>1 DEF Closed
    <3> QED BY <1>1, <1>5, <2>1, <3>1 DEF Computes
  <2>2. CASE m \in U
    <3>1. h[m].inner \in U \cup {None} /\ h[m].next \in U \cup {None}
      BY <1>1, <2>2 DEF Closed
    <3> QED BY <1>1, <1>5, <2>2, <3>1 DEF Computes
  <2>3. CASE m = n /\ m \notin T \cup U
    BY <1>5, <2>3 DEF new
  <2> QED BY <2>1, <2>2, <2>3
<1>9. Partial(k, h, W, x, V, X)
  BY <1>5, <1>6, <1>7, <1>8 DEF Partial, Computes
<1> QED BY <1>9

LEMMA Recursion ==
  ASSUME NEW h, IsHeap(h), Acyclic(h, DOMAIN h), NEW X, NEW x \in X,
         NEW V \in [DOMAIN h -> [X -> [X -> X]]]
  PROVE  \E f \in [DOMAIN h \cup {None} -> X] : Computes(f, h, DOMAIN h, x, V)
<1> DEFINE At(p, v) == \E g, T : Partial(g, h, T, x, V, X) /\ p \in T \cup {None} /\ v = g[p]
           f == [p \in DOMAIN h \cup {None} |-> CHOOSE v : At(p, v)]
<1>1. At(None, x)
  <2> DEFINE g == [p \in {} \cup {None} |-> x]
  <2>1. Partial(g, h, {}, x, V, X)
    BY DEF Partial, Computes, Closed
  <2> QED BY <2>1
<1>2. ASSUME NEW n \in DOMAIN h PROVE \E v : At(n, v)
  <2> DEFINE S == {m \in DOMAIN h : ~ \E v : At(m, v)}
  <2>1. ASSUME NEW m \in S, h[m].next \notin S, h[m].inner \notin S PROVE FALSE
    <3>1. h[m].next \in DOMAIN h \cup {None} /\ h[m].inner \in DOMAIN h \cup {None}
      BY Pointers
    <3>2. (\E v : At(h[m].next, v)) /\ \E v : At(h[m].inner, v)
      BY <1>1, <2>1, <3>1
    <3>3. PICK g, T : Partial(g, h, T, x, V, X) /\ h[m].inner \in T \cup {None}
      BY <3>2
    <3>4. PICK k, U : Partial(k, h, U, x, V, X) /\ h[m].next \in U \cup {None}
      BY <3>2
    <3>5. \E j, W : Partial(j, h, W, x, V, X) /\ m \in W
      BY <3>3, <3>4, PartialGrows
    <3> QED BY <3>5
  <2> HIDE DEF At
  <2>2. S = {}
    BY <2>1 DEF Acyclic
  <2> QED BY <2>2
<1>3. ASSUME NEW g, NEW T, Partial(g, h, T, x, V, X), NEW p \in T \cup {None}
      PROVE  f[p] = g[p]
  <2>1. p \in DOMAIN h \cup {None} /\ At(p, g[p])
    BY <1>3 DEF Partial
  <2>2. ASSUME NEW v, At(p, v) PROVE v = g[p]
    <3>1. PICK j, U : Partial(j, h, U, x, V, X) /\ p \in U \cup {None} /\ v = j[p]
      BY <2>2
    <3> QED BY <1>3, <3>1, PartialsAgree
  <2> HIDE DEF At
  <2> QED BY <2>1, <2>2
<1>4. ASSUME NEW n \in DOMAIN h \cup {None} PROVE f[n] \in X
  <2>1. \E v : At(n, v)
    BY <1>1, <1>2
  <2>2. PICK g, T : Partial(g, h, T, x, V, X) /\ n \in T \cup {None}
    BY <2>1
  <2> HIDE DEF f
  <2> QED BY <1>3, <2>2 DEF Partial
<1>5. f[None] = x
  <2>1. PICK g, T : Partial(g, h, T, x, V, X)
    BY <1>1
  <2> HIDE DEF f
  <2> QED BY <1>3, <2>1 DEF Partial, Computes
<1>6. ASSUME NEW n \in DOMAIN h PROVE f[n] = V[n][f[h[n].inner]][f[h[n].next]]
  <2>1. PICK g, T : Partial(g, h, T, x, V, X) /\ n \in T \cup {None}
    BY <1>2
  <2>2. None \notin DOMAIN h
    BY Pointers
  <2>3. n \in T /\ h[n].inner \in T \cup {None} /\ h[n].next \in T \cup {None}
    BY <2>1, <2>2 DEF Partial, Closed
  <2> HIDE DEF f
  <2>4. f[n] = g[n] /\ f[h[n].inner] = g[h[n].inner] /\ f[h[n].next] = g[h[n].next]
    BY <1>3, <2>1, <2>3
  <2> QED BY <2>1, <2>3, <2>4 DEF Partial, Computes
<1>7. f \in [DOMAIN h \cup {None} -> X]
  BY <1>4
<1> QED BY <1>5, <1>6, <1>7 DEF Computes

(***************************************************************************)
(* Reach.                                                                  *)
(***************************************************************************)
LEMMA ReachIs ==
  ASSUME NEW h, IsHeap(h), NEW p \in DOMAIN h \cup {None}
  PROVE  /\ Reach(h, p) \subseteq DOMAIN h
         /\ p \in Reach(h, p) \cup {None}
         /\ Closed(h, Reach(h, p))
<1>1. Reach(h, p) \subseteq DOMAIN h /\ p \in Reach(h, p) \cup {None}
  BY DEF Reach
<1>2. ASSUME NEW n \in Reach(h, p), NEW q \in {h[n].next, h[n].inner}, q # None PROVE q \in Reach(h, p)
  <2>1. n \in DOMAIN h /\ q \in DOMAIN h
    BY <1>1, <1>2, Pointers
  <2>2. ASSUME NEW S \in SUBSET DOMAIN h, p \in S \cup {None}, Closed(h, S) PROVE q \in S
    <3>1. n \in S
      BY <2>2 DEF Reach
    <3> QED BY <1>2, <2>2, <3>1 DEF Closed
  <2> QED BY <2>1, <2>2 DEF Reach
<1>3. Closed(h, Reach(h, p))
  BY <1>2 DEF Closed
<1> QED BY <1>1, <1>3

LEMMA ReachLeast ==
  ASSUME NEW h, NEW p, NEW S \in SUBSET DOMAIN h, p \in S \cup {None}, Closed(h, S)
  PROVE  Reach(h, p) \subseteq S
BY DEF Reach

\* What is reached is the first, or something points to it.
LEMMA ReachBack ==
  ASSUME NEW h, IsHeap(h), NEW p \in DOMAIN h \cup {None}, NEW n \in Reach(h, p), n # p
  PROVE  \E m \in Reach(h, p) : h[m].next = n \/ h[m].inner = n
<1> SUFFICES ASSUME \A m \in Reach(h, p) : h[m].next # n /\ h[m].inner # n PROVE FALSE
  OBVIOUS
<1> DEFINE S == Reach(h, p) \ {n}
<1>1. S \in SUBSET DOMAIN h /\ p \in S \cup {None} /\ Closed(h, S)
  BY ReachIs DEF Closed
<1>2. Reach(h, p) \subseteq S
  BY <1>1, ReachLeast
<1> QED BY <1>2

LEMMA ReachNone ==
  ASSUME NEW h, IsHeap(h)
  PROVE  Reach(h, None) = {}
<1>1. {} \in SUBSET DOMAIN h /\ None \in {} \cup {None} /\ Closed(h, {})
  BY DEF Closed
<1> QED BY ONLY <1>1, ReachLeast

\* A contact is reached from itself, and the rest from what it points to.
LEMMA ReachFrom ==
  ASSUME NEW h, IsHeap(h), NEW n \in DOMAIN h
  PROVE  Reach(h, n) = {n} \cup Reach(h, h[n].next) \cup Reach(h, h[n].inner)
<1> DEFINE S == {n} \cup Reach(h, h[n].next) \cup Reach(h, h[n].inner)
<1>1. None \notin DOMAIN h /\ h[n].next \in DOMAIN h \cup {None} /\ h[n].inner \in DOMAIN h \cup {None}
  BY Pointers
<1>2. /\ n \in Reach(h, n) /\ Closed(h, Reach(h, n)) /\ Reach(h, n) \subseteq DOMAIN h
      /\ h[n].next \in Reach(h, n) \cup {None} /\ h[n].inner \in Reach(h, n) \cup {None}
  BY <1>1, ReachIs DEF Closed
<1>3. S \subseteq Reach(h, n)
  BY <1>2, ReachLeast
<1>4. S \in SUBSET DOMAIN h /\ n \in S \cup {None} /\ Closed(h, S)
  <2>1. \A p \in {h[n].next, h[n].inner} :
          Reach(h, p) \subseteq DOMAIN h /\ p \in Reach(h, p) \cup {None} /\ Closed(h, Reach(h, p))
    BY <1>1, ReachIs
  <2> QED BY <2>1 DEF Closed
<1>5. Reach(h, n) \subseteq S
  BY <1>4, ReachLeast
<1> QED BY <1>3, <1>5

(***************************************************************************)
(* Skip and GetContact.                                                    *)
(***************************************************************************)
Skipping(f, h, i) ==
  f = [n \in DOMAIN h \cup {None} |-> IF n = None \/ h[n].id # i THEN n ELSE f[h[n].next]]

LEMMA SkipIs ==
  ASSUME NEW h, IsHeap(h), Acyclic(h, DOMAIN h), NEW i
  PROVE  /\ Skip(h, None, i) = None
         /\ \A p \in DOMAIN h \cup {None} : Skip(h, p, i) \in DOMAIN h \cup {None}
         /\ \A n \in DOMAIN h : h[n].id # i => Skip(h, n, i) = n
         /\ \A n \in DOMAIN h : h[n].id = i => Skip(h, n, i) = Skip(h, h[n].next, i)
<1> DEFINE X == DOMAIN h \cup {None}
           V == [n \in DOMAIN h |-> [a \in X |-> [b \in X |-> IF h[n].id # i THEN n ELSE b]]]
           F == CHOOSE f : Skipping(f, h, i)
<1>1. None \notin DOMAIN h /\ \A n \in DOMAIN h : h[n].next \in X /\ h[n].inner \in X
  BY Pointers
<1>2. PICK f \in [DOMAIN h \cup {None} -> X] : Computes(f, h, DOMAIN h, None, V)
  <2>1. V \in [DOMAIN h -> [X -> [X -> X]]]
    OBVIOUS
  <2>2. None \in X
    OBVIOUS
  <2> HIDE DEF V, X
  <2> QED BY <2>1, <2>2, Recursion
<1>3. \A n \in DOMAIN h : f[n] = IF h[n].id # i THEN n ELSE f[h[n].next]
  <2>1. ASSUME NEW n \in DOMAIN h PROVE V[n][f[h[n].inner]][f[h[n].next]] = IF h[n].id # i THEN n ELSE f[h[n].next]
    <3>1. f[h[n].inner] \in X /\ f[h[n].next] \in X
      BY <1>1, <1>2
    <3> QED BY <3>1
  <2> HIDE DEF V
  <2> QED BY <1>2, <2>1 DEF Computes
<1>4. Skipping(f, h, i)
  <2>1. f[None] = None
    BY <1>2 DEF Computes
  <2>2. f = [n \in DOMAIN h \cup {None} |-> f[n]]
    BY <1>2
  <2>3. \A n \in DOMAIN h \cup {None} : f[n] = IF n = None \/ h[n].id # i THEN n ELSE f[h[n].next]
    BY <1>1, <1>3, <2>1
  <2> QED BY ONLY <2>2, <2>3 DEF Skipping
<1>5. Skipping(F, h, i)
  BY <1>4
<1>6. \A p : Skip(h, p, i) = F[p]
  BY DEF Skip, Skipping
<1> HIDE DEF F
<1>7. /\ F[None] = None
      /\ \A n \in DOMAIN h : F[n] = IF h[n].id # i THEN n ELSE F[h[n].next]
  BY <1>1, <1>5 DEF Skipping
<1>8. \A p \in DOMAIN h \cup {None} : F[p] \in X
  <2> DEFINE S == {p \in DOMAIN h : F[p] \notin X}
  <2>1. ASSUME NEW n \in S, h[n].next \notin S PROVE FALSE
    BY <1>1, <1>7, <2>1
  <2> HIDE DEF X
  <2>2. S = {}
    BY <2>1 DEF Acyclic
  <2> QED BY <1>7, <2>2 DEF X
<1> QED BY <1>6, <1>7, <1>8

Getting(f, h, i) ==
  f = [n \in DOMAIN h \cup {None} |->
        IF n = None \/ h[n].id = i THEN n
        ELSE LET inside == f[h[n].inner] IN IF inside # None THEN inside ELSE f[h[n].next]]

\* It leads to a contact that is reached and has the id, if there is one.
LEMMA GetContactIs ==
  ASSUME NEW h, IsHeap(h), Acyclic(h, DOMAIN h), NEW i, NEW p \in DOMAIN h \cup {None}
  PROVE  LET c == GetContact(h, p, i)
         IN IF c = None THEN \A n \in Reach(h, p) : h[n].id # i
                        ELSE c \in Reach(h, p) /\ h[c].id = i
<1> DEFINE X == DOMAIN h \cup {None}
           here(n, a, b) == IF h[n].id = i THEN n ELSE IF a # None THEN a ELSE b
           V == [n \in DOMAIN h |-> [a \in X |-> [b \in X |-> here(n, a, b)]]]
           F == CHOOSE f : Getting(f, h, i)
<1>1. None \notin DOMAIN h /\ \A n \in DOMAIN h : h[n].next \in X /\ h[n].inner \in X
  BY Pointers
<1>2. PICK f \in [DOMAIN h \cup {None} -> X] : Computes(f, h, DOMAIN h, None, V)
  <2>1. V \in [DOMAIN h -> [X -> [X -> X]]]
    OBVIOUS
  <2>2. None \in X
    OBVIOUS
  <2> HIDE DEF V, X
  <2> QED BY <2>1, <2>2, Recursion
<1>3. \A n \in DOMAIN h : f[n] = here(n, f[h[n].inner], f[h[n].next])
  <2>1. ASSUME NEW n \in DOMAIN h PROVE V[n][f[h[n].inner]][f[h[n].next]] = here(n, f[h[n].inner], f[h[n].next])
    <3>1. f[h[n].inner] \in X /\ f[h[n].next] \in X
      BY <1>1, <1>2
    <3> HIDE DEF here
    <3> QED BY <3>1
  <2> HIDE DEF V, here
  <2> QED BY <1>2, <2>1 DEF Computes
<1>4. Getting(f, h, i)
  <2>1. f[None] = None
    BY <1>2 DEF Computes
  <2>2. f = [n \in DOMAIN h \cup {None} |-> f[n]]
    BY <1>2
  <2>3. \A n \in DOMAIN h \cup {None} : f[n] =
          IF n = None \/ h[n].id = i THEN n
          ELSE LET inside == f[h[n].inner] IN IF inside # None THEN inside ELSE f[h[n].next]
    BY <1>1, <1>3, <2>1
  <2> QED BY ONLY <2>2, <2>3 DEF Getting
<1>5. Getting(F, h, i)
  BY <1>4
<1>6. GetContact(h, p, i) = F[p]
  BY DEF GetContact, Getting
<1> HIDE DEF F
<1>7. /\ F[None] = None
      /\ \A n \in DOMAIN h : F[n] = here(n, F[h[n].inner], F[h[n].next])
  BY <1>1, <1>5 DEF Getting
<1> DEFINE Finds(n) == IF F[n] = None THEN \A m \in Reach(h, n) : h[m].id # i
                                      ELSE F[n] \in Reach(h, n) /\ h[F[n]].id = i
<1>8. Finds(None)
  BY <1>7, ReachNone
<1>9. ASSUME NEW n \in DOMAIN h, Finds(h[n].next), Finds(h[n].inner) PROVE Finds(n)
  <2>1. Reach(h, n) = {n} \cup Reach(h, h[n].next) \cup Reach(h, h[n].inner)
    BY ReachFrom
  <2>2. CASE h[n].id = i
    BY <1>1, <1>7, <2>1, <2>2
  <2>3. CASE h[n].id # i /\ F[h[n].inner] # None
    BY <1>7, <1>9, <2>1, <2>3
  <2>4. CASE h[n].id # i /\ F[h[n].inner] = None
    BY <1>7, <1>9, <2>1, <2>4
  <2> QED BY <2>2, <2>3, <2>4
<1>10. Finds(p)
  <2> DEFINE S == {n \in DOMAIN h : ~Finds(n)}
  <2> HIDE DEF Finds
  <2>1. ASSUME NEW n \in S, h[n].next \notin S, h[n].inner \notin S PROVE FALSE
    BY <1>1, <1>8, <1>9, <2>1
  <2>2. S = {}
    BY <2>1 DEF Acyclic
  <2> QED BY <1>8, <2>2
<1> QED BY <1>6, <1>10

(***************************************************************************)
(* The inductive invariant.                                                *)
(***************************************************************************)

\* No two pointers of contacts in U lead to the same contact, ...
Apart(h, U) ==
  /\ \A m, n \in U : h[m].next = h[n].next /\ h[m].next # None => m = n
  /\ \A m, n \in U : h[m].inner = h[n].inner /\ h[m].inner # None => m = n
  /\ \A m, n \in U : h[m].next = h[n].inner => h[m].next = None

\* ... and none of them to the first.
Rooted(h, U, first) ==
  first # None => \A n \in U : h[n].next # first /\ h[n].inner # first

IsTree(h, U, first) ==
  /\ U \subseteq DOMAIN h /\ Closed(h, U) /\ first \in U \cup {None}
  /\ Acyclic(h, U) /\ Apart(h, U) /\ Rooted(h, U, first)

\* The heap is a tree, and nothing else is in it.
TreeInv ==
  /\ IsHeap(heap) /\ IsTree(heap, Live, contacts)
  /\ Live \subseteq Reach(heap, contacts)

LEMMA InitTreeInv == Init => TreeInv
<1> SUFFICES ASSUME Init PROVE TreeInv
  OBVIOUS
<1>1. contacts = None /\ heap = [n \in {} |-> n] /\ Live = {}
  BY DEF Init, Live
<1>2. IsHeap(heap)
  BY <1>1 DEF IsHeap, Live
<1>3. IsTree(heap, Live, contacts)
  BY <1>1 DEF IsTree, Closed, Acyclic, Apart, Rooted, Live
<1> QED BY <1>1, <1>2, <1>3 DEF TreeInv

LEMMA TreeShapedHolds == TreeInv => TreeShaped
<1> SUFFICES ASSUME TreeInv, NEW n \in Live
             PROVE  Cardinality({m \in Live : heap[m].next = n}) + Cardinality({m \in Live : heap[m].inner = n})
                      + (IF contacts = n THEN 1 ELSE 0) = 1
  BY DEF TreeShaped
<1> DEFINE A == {m \in Live : heap[m].next = n}
           B == {m \in Live : heap[m].inner = n}
<1>1. IsHeap(heap) /\ IsTree(heap, Live, contacts) /\ n \in Reach(heap, contacts)
  BY DEF TreeInv
<1>2. n # None /\ contacts \in Live \cup {None}
  BY <1>1, Pointers DEF Live, IsTree
<1>3. n = contacts \/ \E m \in Live : heap[m].next = n \/ heap[m].inner = n
  BY <1>1, <1>2, ReachBack, ReachIs DEF Live
<1>4. Cardinality({}) = 0 /\ \A m \in Live : Cardinality({m}) = 1
  BY FS_EmptySet, FS_Singleton
<1>5. ASSUME n = contacts PROVE A = {} /\ B = {}
  BY <1>1, <1>2, <1>5 DEF IsTree, Rooted
<1>6. ASSUME NEW m \in Live, heap[m].next = n PROVE A = {m} /\ B = {} /\ contacts # n
  <2>1. A = {m}
    BY <1>1, <1>2, <1>6 DEF IsTree, Apart
  <2>2. B = {}
    BY <1>1, <1>2, <1>6 DEF IsTree, Apart
  <2> QED BY <1>1, <1>2, <1>6, <2>1, <2>2 DEF IsTree, Rooted
<1>7. ASSUME NEW m \in Live, heap[m].inner = n PROVE B = {m} /\ A = {} /\ contacts # n
  <2>1. B = {m}
    BY <1>1, <1>2, <1>7 DEF IsTree, Apart
  <2>2. A = {}
    BY <1>1, <1>2, <1>7 DEF IsTree, Apart
  <2> QED BY <1>1, <1>2, <1>7, <2>1, <2>2 DEF IsTree, Rooted
<1> HIDE DEF A, B
<1>8. Cardinality(A) + Cardinality(B) + (IF contacts = n THEN 1 ELSE 0) = 1
  <2>1. CASE \E m \in Live : heap[m].next = n
    <3>1. PICK m \in Live : A = {m} /\ B = {} /\ contacts # n
      BY <1>6, <2>1
    <3> QED BY <1>4, <3>1
  <2>2. CASE \E m \in Live : heap[m].inner = n
    <3>1. PICK m \in Live : B = {m} /\ A = {} /\ contacts # n
      BY <1>7, <2>2
    <3> QED BY <1>4, <3>1
  <2>3. CASE n = contacts
    BY <1>4, <1>5, <2>3
  <2> QED BY <1>3, <2>1, <2>2, <2>3
<1> QED BY <1>8 DEF A, B

\* What the tree becomes is one again, if all that is reached lies in a tree.
LEMMA BecomesTree ==
  ASSUME NEW h, IsHeap(h), NEW U, NEW first, IsTree(h, U, first), Become(first, h)
  PROVE  TreeInv' /\ Live' = Reach(h, first) /\ Live' \subseteq U /\ \A n \in Live' : heap'[n] = h[n]
<1> DEFINE R == Reach(h, first)
<1>1. first \in DOMAIN h \cup {None} /\ U \in SUBSET DOMAIN h
  BY DEF IsTree
<1>2. R \subseteq DOMAIN h /\ first \in R \cup {None} /\ Closed(h, R) /\ R \subseteq U
  BY <1>1, ReachIs, ReachLeast DEF IsTree
<1>3. contacts' = first /\ heap' = [n \in R |-> h[n]] /\ Live' = R
  BY DEF Become, Restrict, Live
<1> HIDE DEF R
<1>4. \A n \in R : heap'[n] = h[n] /\ n \in DOMAIN h
  BY <1>2, <1>3
<1>5. IsHeap(heap')
  <2>1. \A n \in R : h[n] \in Contact(R)
    <3> SUFFICES ASSUME NEW n \in R PROVE h[n] \in Contact(R)
      OBVIOUS
    <3>1. h[n] \in Contact(DOMAIN h) /\ h[n].next \in R \cup {None} /\ h[n].inner \in R \cup {None}
      BY <1>2, <1>4 DEF IsHeap, Closed
    <3> QED BY <3>1 DEF Contact
  <2>2. R \subseteq Nodes
    BY <1>2 DEF IsHeap
  <2> QED BY <1>3, <2>1, <2>2 DEF IsHeap
<1>6. Closed(heap', R)
  BY <1>2, <1>4 DEF Closed
<1>7. Acyclic(heap', R)
  <2> SUFFICES ASSUME NEW S \in SUBSET R, S # {} PROVE \E n \in S : heap'[n].next \notin S /\ heap'[n].inner \notin S
    BY DEF Acyclic
  <2>1. \E n \in S : h[n].next \notin S /\ h[n].inner \notin S
    BY <1>2 DEF IsTree, Acyclic
  <2> QED BY <1>4, <2>1
<1>8. Apart(heap', R) /\ Rooted(heap', R, first)
  BY <1>2, <1>4 DEF IsTree, Apart, Rooted
<1>9. R \subseteq Reach(heap', first)
  <2>1. ASSUME NEW S \in SUBSET R, first \in S \cup {None}, Closed(heap', S) PROVE R \subseteq S
    <3>1. Closed(h, S) /\ S \in SUBSET DOMAIN h
      BY <1>2, <1>4, <2>1 DEF Closed
    <3> QED BY <2>1, <3>1, ReachLeast DEF R
  <2> QED BY <1>3, <2>1 DEF Reach
<1>10. IsTree(heap, Live, contacts)'
  BY <1>2, <1>3, <1>6, <1>7, <1>8 DEF IsTree
<1>11. TreeInv'
  BY <1>3, <1>5, <1>9, <1>10 DEF TreeInv
<1> QED BY <1>2, <1>3, <1>4, <1>11 DEF R

(***************************************************************************)
(* What DelContact leaves.                                                 *)
(***************************************************************************)

\* Two pointers that no contact i holds do not jump to the same contact.
LEMMA SkipMeets ==
  ASSUME NEW h, IsHeap(h), Acyclic(h, DOMAIN h), Apart(h, DOMAIN h), NEW i,
         NEW p \in DOMAIN h, NEW q \in DOMAIN h,
         \A k \in DOMAIN h : h[k].id = i => h[k].next # p /\ h[k].next # q,
         Skip(h, p, i) = Skip(h, q, i), Skip(h, p, i) # None
  PROVE  p = q
<1> DEFINE D == DOMAIN h
           t == Skip(h, q, i)
           K == {x \in D : Skip(h, x, i) = t}
           Onward(S) == \A x \in S : h[x].id = i /\ h[x].next # None => h[x].next \in S
           Q == {n \in D : \A S \in SUBSET D : q \in S /\ Onward(S) => n \in S}
<1>1. /\ None \notin D
      /\ \A x \in D : h[x].next \in D \cup {None}
      /\ \A n \in D : h[n].id # i => Skip(h, n, i) = n
      /\ \A n \in D : h[n].id = i => Skip(h, n, i) = Skip(h, h[n].next, i)
      /\ Skip(h, None, i) = None
  BY Pointers, SkipIs
<1>2. q \in Q /\ Q \subseteq D /\ Onward(Q)
  BY <1>1
<1>3. \A S \in SUBSET D : q \in S /\ Onward(S) => Q \subseteq S
  OBVIOUS
<1> HIDE DEF Q
<1>4. ASSUME NEW n \in Q, n # q PROVE \E y \in Q : h[y].id = i /\ h[y].next = n
  <2> SUFFICES ASSUME \A y \in Q : h[y].id = i => h[y].next # n PROVE FALSE
    OBVIOUS
  <2>1. Q \ {n} \in SUBSET D /\ q \in Q \ {n} /\ Onward(Q \ {n})
    BY <1>2, <1>4
  <2> HIDE DEF Onward
  <2> QED BY <1>3, <2>1
<1>5. Q \subseteq K
  <2>1. K \in SUBSET D /\ q \in K /\ Onward(K)
    BY <1>1
  <2> HIDE DEF Onward, K
  <2> QED BY <1>3, <2>1
<1>6. ASSUME NEW x \in K, h[x].id # i PROVE x = t
  BY <1>1, <1>6
<1>7. ASSUME NEW x \in K, h[x].id = i PROVE h[x].next \in K
  BY <1>1, <1>7
<1> HIDE DEF K, t
<1>8. t \in Q
  <2> SUFFICES ASSUME t \notin Q PROVE FALSE
    OBVIOUS
  <2>1. ASSUME NEW x \in Q PROVE h[x].next \in Q
    <3>1. h[x].id = i
      BY <1>5, <1>6
    <3>2. h[x].next # None
      BY <1>1, <1>5, <1>7, <3>1 DEF K
    <3> QED BY <1>2, <3>1, <3>2
  <2> QED BY <1>2, <2>1 DEF Acyclic
<1>9. K \subseteq Q
  <2> DEFINE S == K \ Q
  <2>1. ASSUME NEW x \in S, h[x].next \notin S PROVE FALSE
    <3>1. h[x].id = i
      BY <1>6, <1>8
    <3>2. h[x].next \in Q
      BY <1>7, <2>1, <3>1
    <3>3. x \in D /\ h[x].next \in D
      BY <1>2, <3>2 DEF K
    <3>4. PICK y \in Q : h[y].id = i /\ h[y].next = h[x].next
      BY <1>4, <3>1, <3>2, <3>3
    <3>5. y = x
      BY <1>1, <1>2, <3>3, <3>4 DEF Apart
    <3> QED BY <3>4, <3>5
  <2>2. S \in SUBSET D
    BY DEF K
  <2> QED BY <2>1, <2>2 DEF Acyclic
<1>10. p \in Q
  BY <1>9 DEF K, t
<1> QED BY <1>2, <1>4, <1>10

\* The heap with the pointers of every contact past the contacts i.
Jump(h, i) == [n \in DOMAIN h |-> [h[n] EXCEPT !.inner = Skip(h, @, i), !.next = Skip(h, @, i)]]
Stay(h, first, i) == Reach(Jump(h, i), Skip(h, first, i))
Others(h, i) == {n \in DOMAIN h : h[n].id # i}

LEMMA JumpIs ==
  ASSUME NEW h, IsHeap(h), Acyclic(h, DOMAIN h), NEW i
  PROVE  /\ DOMAIN Jump(h, i) = DOMAIN h
         /\ IsHeap(Jump(h, i))
         /\ \A n \in DOMAIN h : /\ Jump(h, i)[n].id = h[n].id
                                /\ Jump(h, i)[n].next = Skip(h, h[n].next, i)
                                /\ Jump(h, i)[n].inner = Skip(h, h[n].inner, i)
<1>1. \A p \in DOMAIN h \cup {None} : Skip(h, p, i) \in DOMAIN h \cup {None}
  BY SkipIs
<1>2. DOMAIN Jump(h, i) = DOMAIN h
  BY DEF Jump
<1>3. ASSUME NEW n \in DOMAIN h
      PROVE  /\ Jump(h, i)[n] \in Contact(DOMAIN h)
             /\ Jump(h, i)[n].id = h[n].id
             /\ Jump(h, i)[n].next = Skip(h, h[n].next, i)
             /\ Jump(h, i)[n].inner = Skip(h, h[n].inner, i)
  <2>1. h[n] \in Contact(DOMAIN h)
    BY DEF IsHeap
  <2>2. Jump(h, i)[n] = [id |-> h[n].id, inner |-> Skip(h, h[n].inner, i), next |-> Skip(h, h[n].next, i)]
    BY <2>1 DEF Jump, Contact
  <2>3. Skip(h, h[n].inner, i) \in DOMAIN h \cup {None} /\ Skip(h, h[n].next, i) \in DOMAIN h \cup {None}
    BY <1>1, <2>1 DEF Contact
  <2> QED BY <2>1, <2>2, <2>3 DEF Contact
<1>4. IsHeap(Jump(h, i))
  <2>1. Jump(h, i) = [n \in DOMAIN h |-> Jump(h, i)[n]]
    BY DEF Jump
  <2> QED BY <1>2, <1>3, <2>1 DEF IsHeap
<1> QED BY <1>2, <1>3, <1>4

\* Past the contacts i there are others only.
LEMMA SkipOthers ==
  ASSUME NEW h, IsHeap(h), Acyclic(h, DOMAIN h), NEW i, NEW p \in DOMAIN h \cup {None}
  PROVE  Skip(h, p, i) \in Others(h, i) \cup {None}
<1> DEFINE S == {n \in DOMAIN h : Skip(h, n, i) \notin Others(h, i) \cup {None}}
<1>1. \A n \in DOMAIN h : h[n].next \in DOMAIN h \cup {None}
  BY Pointers
<1>2. ASSUME NEW n \in S, h[n].next \notin S PROVE FALSE
  BY <1>1, <1>2, SkipIs DEF Others
<1>3. S = {}
  BY <1>2 DEF Acyclic
<1> QED BY <1>3, SkipIs

\* A heap stays without a way around when pointers jump.
LEMMA JumpAcyclic ==
  ASSUME NEW h, IsHeap(h), Acyclic(h, DOMAIN h), NEW i, NEW k,
         \A n \in DOMAIN h : /\ k[n].next \in {h[n].next, Skip(h, h[n].next, i)}
                             /\ k[n].inner \in {h[n].inner, Skip(h, h[n].inner, i)}
  PROVE  Acyclic(k, DOMAIN h)
<1> SUFFICES ASSUME NEW S \in SUBSET DOMAIN h, S # {} PROVE \E n \in S : k[n].next \notin S /\ k[n].inner \notin S
  BY DEF Acyclic
<1> DEFINE T == S \cup {x \in DOMAIN h : h[x].id = i /\ Skip(h, x, i) \in S}
<1>1. /\ None \notin DOMAIN h
      /\ \A n \in DOMAIN h : h[n].next \in DOMAIN h \cup {None} /\ h[n].inner \in DOMAIN h \cup {None}
      /\ Skip(h, None, i) = None
      /\ \A n \in DOMAIN h : h[n].id # i => Skip(h, n, i) = n
      /\ \A n \in DOMAIN h : h[n].id = i => Skip(h, n, i) = Skip(h, h[n].next, i)
  BY Pointers, SkipIs
<1>2. \A p \in DOMAIN h \cup {None} : p \notin T => p \notin S /\ Skip(h, p, i) \notin S
  BY <1>1
<1>3. T \in SUBSET DOMAIN h /\ T # {}
  OBVIOUS
<1>4. PICK n \in T : h[n].next \notin T /\ h[n].inner \notin T
  <2> HIDE DEF T
  <2> QED BY <1>3 DEF Acyclic
<1>5. n \in S
  BY <1>1, <1>2, <1>4
<1> QED BY <1>1, <1>2, <1>4, <1>5

\* The others are a tree again.
LEMMA JumpTree ==
  ASSUME NEW h, IsHeap(h), NEW first, IsTree(h, DOMAIN h, first), NEW i
  PROVE  IsTree(Jump(h, i), Others(h, i), Skip(h, first, i))
<1> DEFINE D == DOMAIN h
           J == Jump(h, i)
           U == Others(h, i)
           sk(p) == Skip(h, p, i)
<1>1. first \in D \cup {None} /\ Acyclic(h, D) /\ Apart(h, D) /\ Rooted(h, D, first)
  BY DEF IsTree
<1>2. /\ None \notin D
      /\ \A n \in D : h[n].next \in D \cup {None} /\ h[n].inner \in D \cup {None}
  BY Pointers
<1>3. /\ DOMAIN J = D
      /\ \A n \in D : J[n].next = sk(h[n].next) /\ J[n].inner = sk(h[n].inner)
  BY <1>1, JumpIs
<1>4. \A p \in D \cup {None} : sk(p) \in U \cup {None}
  BY <1>1, SkipOthers
<1>5. /\ sk(None) = None
      /\ \A n \in D : h[n].id # i => sk(n) = n
      /\ \A n \in D : h[n].id = i => sk(n) = sk(h[n].next)
  BY <1>1, SkipIs
<1>6. U \subseteq D /\ \A n \in D : n \in U <=> h[n].id # i
  BY DEF Others
<1> DEFINE Free(p) == \A k \in D : h[k].id = i => h[k].next # p
<1>7. ASSUME NEW p \in D \cup {None}, NEW q \in D \cup {None}, Free(p) \/ p = None, Free(q) \/ q = None,
             sk(p) = sk(q), sk(p) # None
      PROVE  p = q /\ p # None
  <2>1. p \in D /\ q \in D
    BY <1>5, <1>7
  <2>2. \A k \in D : h[k].id = i => h[k].next # p /\ h[k].next # q
    BY <1>2, <1>7, <2>1
  <2> HIDE DEF D
  <2> QED BY <1>1, <1>2, <1>7, <2>1, <2>2, SkipMeets DEF D
<1> HIDE DEF J, U, sk
<1>8. \A n \in U : /\ Free(h[n].next) \/ h[n].next = None
                   /\ Free(h[n].inner) \/ h[n].inner = None
  BY <1>1, <1>6 DEF Apart
<1>9. Free(first) \/ first = None
  BY <1>1 DEF Rooted
<1>10. Apart(J, U)
  <2> HIDE DEF Free, D
  <2> SUFFICES ASSUME NEW m \in U, NEW n \in U
               PROVE  /\ J[m].next = J[n].next /\ J[m].next # None => m = n
                      /\ J[m].inner = J[n].inner /\ J[m].inner # None => m = n
                      /\ J[m].next = J[n].inner => J[m].next = None
    BY DEF Apart
  <2>1. m \in D /\ n \in D
    BY <1>6
  <2>2. ASSUME sk(h[m].next) = sk(h[n].next), sk(h[m].next) # None PROVE h[m].next = h[n].next /\ h[m].next # None
    BY <1>2, <1>7, <1>8, <2>1, <2>2
  <2>3. ASSUME sk(h[m].inner) = sk(h[n].inner), sk(h[m].inner) # None PROVE h[m].inner = h[n].inner /\ h[m].inner # None
    BY <1>2, <1>7, <1>8, <2>1, <2>3
  <2>4. ASSUME sk(h[m].next) = sk(h[n].inner), sk(h[m].next) # None PROVE h[m].next = h[n].inner /\ h[m].next # None
    BY <1>2, <1>7, <1>8, <2>1, <2>4
  <2> QED BY <1>1, <1>3, <2>1, <2>2, <2>3, <2>4 DEF Apart, D
<1>11. Rooted(J, U, sk(first))
  <2> HIDE DEF Free, D
  <2> SUFFICES ASSUME sk(first) # None, NEW n \in U PROVE J[n].next # sk(first) /\ J[n].inner # sk(first)
    BY DEF Rooted
  <2>1. n \in D
    BY <1>6
  <2>2. ASSUME sk(h[n].next) = sk(first) PROVE h[n].next = first /\ first # None
    BY <1>1, <1>2, <1>7, <1>8, <1>9, <2>1, <2>2
  <2>3. ASSUME sk(h[n].inner) = sk(first) PROVE h[n].inner = first /\ first # None
    BY <1>1, <1>2, <1>7, <1>8, <1>9, <2>1, <2>3
  <2> QED BY <1>1, <1>3, <2>1, <2>2, <2>3 DEF Rooted, D
<1>12. Closed(J, U)
  BY <1>2, <1>3, <1>4, <1>6 DEF Closed
<1>13. Acyclic(J, U)
  <2>1. Acyclic(J, D)
    BY <1>1, <1>3, JumpAcyclic DEF sk
  <2> QED BY <1>6, <2>1 DEF Acyclic
<1> QED BY <1>1, <1>3, <1>4, <1>6, <1>10, <1>11, <1>12, <1>13 DEF IsTree, J, U, sk

\* A part of a tree is a tree, in any heap that has it.
LEMMA TreePart ==
  ASSUME NEW h, NEW U, NEW first, IsTree(h, U, first),
         NEW k, NEW W \in SUBSET U, W \subseteq DOMAIN k, Closed(k, W), first \in W \cup {None},
         \A n \in W : k[n].next = h[n].next /\ k[n].inner = h[n].inner
  PROVE  IsTree(k, W, first)
<1>1. Acyclic(k, W)
  <2> SUFFICES ASSUME NEW S \in SUBSET W, S # {} PROVE \E n \in S : k[n].next \notin S /\ k[n].inner \notin S
    BY DEF Acyclic
  <2>1. \E n \in S : h[n].next \notin S /\ h[n].inner \notin S
    BY DEF IsTree, Acyclic
  <2> QED BY <2>1
<1>2. Apart(k, W) /\ Rooted(k, W, first)
  BY DEF IsTree, Apart, Rooted
<1> QED BY <1>1, <1>2 DEF IsTree

\* What is in a contact of a tree and hangs on nothing else.
Inside(h, c) == Reach(h, h[c].inner)

\* The heap that DelContact leaves: the contacts that stay are a tree, and what was in a
\* contact i is as it was.
Deleted(h, i, k, first, stay) ==
  /\ DOMAIN k = DOMAIN h /\ IsHeap(k) /\ Acyclic(k, DOMAIN k)
  /\ \A n \in DOMAIN h : k[n].id = h[n].id
  /\ stay = Reach(k, first) /\ IsTree(k, stay, first)
  /\ \A n \in stay : h[n].id # i /\ k[n].next = Skip(h, h[n].next, i) /\ k[n].inner = Skip(h, h[n].inner, i)
  /\ \A n \in DOMAIN h \ stay : k[n] = h[n]

LEMMA DelContactIs ==
  ASSUME NEW h, IsHeap(h), NEW first, IsTree(h, DOMAIN h, first), NEW i
  PROVE  /\ DelContact(h, first, i).first = Skip(h, first, i)
         /\ Deleted(h, i, DelContact(h, first, i).heap, Skip(h, first, i), Stay(h, first, i))
<1> DEFINE J == Jump(h, i)
           top == Skip(h, first, i)
           stay == Stay(h, first, i)
           k == DelContact(h, first, i).heap
<1>1. Acyclic(h, DOMAIN h) /\ first \in DOMAIN h \cup {None}
  BY DEF IsTree
<1>2. DelContact(h, first, i).first = top /\ k = [n \in DOMAIN h |-> IF n \in stay THEN J[n] ELSE h[n]]
  BY DEF DelContact, Stay, Jump
<1>3. /\ DOMAIN J = DOMAIN h /\ IsHeap(J)
      /\ \A n \in DOMAIN h : J[n].id = h[n].id
  BY <1>1, JumpIs
<1>4. IsTree(J, Others(h, i), top)
  BY JumpTree
<1>5. stay \in SUBSET Others(h, i) /\ Closed(J, stay) /\ top \in stay \cup {None} /\ stay = Reach(J, top)
  <2>1. top \in DOMAIN J \cup {None} /\ Others(h, i) \in SUBSET DOMAIN J
    BY <1>4 DEF IsTree
  <2>2. Closed(J, Reach(J, top)) /\ top \in Reach(J, top) \cup {None}
    BY <1>3, <2>1, ReachIs
  <2>3. Reach(J, top) \subseteq Others(h, i)
    BY <1>4, <2>1, ReachLeast DEF IsTree
  <2> QED BY <2>2, <2>3 DEF Stay
<1> HIDE DEF J, stay, k, top
<1>6. stay \subseteq DOMAIN h /\ \A n \in stay : h[n].id # i
  BY <1>5 DEF Others
<1>7. /\ DOMAIN k = DOMAIN h
      /\ \A n \in stay : k[n] = J[n]
      /\ \A n \in DOMAIN h \ stay : k[n] = h[n]
  BY <1>2, <1>6
<1>8. IsHeap(k)
  <2>1. \A n \in DOMAIN h : h[n] \in Contact(DOMAIN h) /\ J[n] \in Contact(DOMAIN h)
    BY <1>3 DEF IsHeap
  <2>2. \A n \in DOMAIN h : k[n] \in Contact(DOMAIN h)
    BY <1>7, <2>1
  <2>3. k = [n \in DOMAIN h |-> k[n]]
    BY <1>2
  <2> QED BY <1>7, <2>2, <2>3 DEF IsHeap
<1>9. Closed(k, stay)
  BY <1>5, <1>7 DEF Closed
<1>10. IsTree(k, stay, top)
  BY <1>4, <1>5, <1>6, <1>7, <1>9, TreePart
<1>11. stay = Reach(k, top)
  <2>1. Reach(k, top) \subseteq stay
    BY <1>5, <1>6, <1>7, <1>9, ReachLeast
  <2>2. Closed(k, Reach(k, top)) /\ top \in Reach(k, top) \cup {None} /\ Reach(k, top) \subseteq DOMAIN k
    BY <1>5, <1>6, <1>7, <1>8, ReachIs
  <2>3. Closed(J, Reach(k, top)) /\ Reach(k, top) \in SUBSET DOMAIN J
    BY <1>3, <1>7, <2>1, <2>2 DEF Closed
  <2>4. stay \subseteq Reach(k, top)
    BY <1>5, <2>2, <2>3, ReachLeast
  <2> QED BY <2>1, <2>4
<1>12. \A n \in DOMAIN h : k[n].id = h[n].id
  BY <1>3, <1>7
<1>13. Acyclic(k, DOMAIN k)
  <2>1. \A n \in DOMAIN h : /\ J[n].next = Skip(h, h[n].next, i) /\ J[n].inner = Skip(h, h[n].inner, i)
    BY <1>1, JumpIs DEF J
  <2>2. \A n \in DOMAIN h : /\ k[n].next \in {h[n].next, Skip(h, h[n].next, i)}
                            /\ k[n].inner \in {h[n].inner, Skip(h, h[n].inner, i)}
    BY <1>7, <2>1
  <2> QED BY <1>1, <1>7, <2>2, JumpAcyclic
<1>14. \A n \in stay : k[n].next = Skip(h, h[n].next, i) /\ k[n].inner = Skip(h, h[n].inner, i)
  BY <1>1, <1>6, <1>7, JumpIs DEF J
<1> QED BY <1>2, <1>6, <1>7, <1>8, <1>10, <1>11, <1>12, <1>13, <1>14 DEF Deleted, stay, k, top

\* What is in a contact i does not stay, and no pointer outside leads into it.
LEMMA InsideGoes ==
  ASSUME NEW h, IsHeap(h), NEW first, IsTree(h, DOMAIN h, first), NEW c \in DOMAIN h
  PROVE  /\ c \notin Inside(h, c) /\ Inside(h, c) \subseteq DOMAIN h
         /\ Inside(h, c) \cap Stay(h, first, h[c].id) = {}
         /\ IsTree(h, Inside(h, c), h[c].inner)
<1> DEFINE D == DOMAIN h
           i == h[c].id
           sub == Inside(h, c)
           J == Jump(h, i)
           top == Skip(h, first, i)
<1>1. first \in D \cup {None} /\ Acyclic(h, D) /\ Apart(h, D) /\ Rooted(h, D, first)
  BY DEF IsTree
<1>2. /\ None \notin D
      /\ \A n \in D : h[n].next \in D \cup {None} /\ h[n].inner \in D \cup {None}
  BY Pointers
<1>3. sub \subseteq D /\ h[c].inner \in sub \cup {None} /\ Closed(h, sub)
  BY <1>2, ReachIs DEF Inside
<1>4. \A n \in sub : n # h[c].inner => \E m \in sub : h[m].next = n \/ h[m].inner = n
  BY <1>2, ReachBack DEF Inside
<1>5. c \notin sub
  <2> DEFINE A == {x \in D : c \in Reach(h, x)}
  <2> SUFFICES ASSUME c \in sub PROVE FALSE
    OBVIOUS
  <2>1. h[c].inner # None
    BY ReachNone DEF Inside
  <2>2. h[c].inner \in A
    BY <1>2, <2>1 DEF Inside
  <2>3. ASSUME NEW x \in A PROVE h[x].next \in A \/ h[x].inner \in A
    <3>1. CASE x = c
      BY <2>2, <3>1
    <3>2. CASE x # c
      <4>1. c \in Reach(h, h[x].next) \/ c \in Reach(h, h[x].inner)
        BY <3>2, ReachFrom
      <4> QED BY <1>2, <4>1, ReachNone
    <3> QED BY <3>1, <3>2
  <2> QED BY <1>1, <2>2, <2>3 DEF Acyclic
<1> HIDE DEF sub
<1>6. ASSUME NEW x \in D, x \notin sub PROVE h[x].next \notin sub /\ (x # c => h[x].inner \notin sub)
  <2>1. ASSUME h[x].next \in sub PROVE FALSE
    <3>1. h[x].next # h[c].inner /\ h[x].next # None
      BY <1>1, <1>2, <1>3, <2>1 DEF Apart
    <3>2. PICK m \in sub : h[m].next = h[x].next \/ h[m].inner = h[x].next
      BY <1>4, <2>1, <3>1
    <3> QED BY <1>1, <1>3, <1>6, <3>1, <3>2 DEF Apart
  <2>2. ASSUME h[x].inner \in sub, x # c PROVE FALSE
    <3>1. h[x].inner # h[c].inner /\ h[x].inner # None
      BY <1>1, <1>2, <1>3, <2>2 DEF Apart
    <3>2. PICK m \in sub : h[m].next = h[x].inner \/ h[m].inner = h[x].inner
      BY <1>4, <2>2, <3>1
    <3> QED BY <1>1, <1>3, <1>6, <3>1, <3>2 DEF Apart
  <2> QED BY <2>1, <2>2
<1>7. first \notin sub
  <2> SUFFICES ASSUME first \in sub PROVE FALSE
    OBVIOUS
  <2>1. first # None /\ first # h[c].inner
    BY <1>1, <1>2, <1>3 DEF Rooted
  <2>2. PICK m \in sub : h[m].next = first \/ h[m].inner = first
    BY <1>4, <2>1
  <2> QED BY <1>1, <1>3, <2>1, <2>2 DEF Rooted
<1>8. /\ Skip(h, None, i) = None
      /\ \A n \in D : h[n].id # i => Skip(h, n, i) = n
      /\ \A n \in D : h[n].id = i => Skip(h, n, i) = Skip(h, h[n].next, i)
  BY <1>1, SkipIs
<1> HIDE DEF i
<1>9. \A x \in D \cup {None} : x \notin sub => Skip(h, x, i) \notin sub
  <2> DEFINE S == {x \in D : x \notin sub /\ Skip(h, x, i) \in sub}
  <2>1. ASSUME NEW x \in S, h[x].next \notin S PROVE FALSE
    <3>1. h[x].id = i
      BY <1>8
    <3>2. h[x].next \notin sub /\ Skip(h, h[x].next, i) \in sub
      BY <1>6, <1>8, <3>1
    <3>3. h[x].next # None
      BY <1>2, <1>3, <1>8, <3>2
    <3> QED BY <1>2, <2>1, <3>2, <3>3
  <2>2. S = {}
    BY <1>1, <2>1 DEF Acyclic
  <2> QED BY <1>2, <1>3, <1>8, <2>2
<1>10. sub \cap Stay(h, first, i) = {}
  <2> DEFINE S == Stay(h, first, i) \ sub
  <2>1. /\ DOMAIN J = D /\ IsHeap(J)
        /\ \A n \in D : J[n].next = Skip(h, h[n].next, i) /\ J[n].inner = Skip(h, h[n].inner, i)
    BY <1>1, JumpIs
  <2>2. top \in D \cup {None}
    BY <1>1, SkipIs
  <2>3. Stay(h, first, i) \subseteq D /\ top \in Stay(h, first, i) \cup {None} /\ Closed(J, Stay(h, first, i))
    BY <2>1, <2>2, ReachIs DEF Stay
  <2>4. \A n \in Stay(h, first, i) : n # c
    <3>1. IsTree(J, Others(h, i), top)
      BY JumpTree
    <3>2. Stay(h, first, i) \subseteq Others(h, i)
      BY <2>1, <3>1, ReachLeast DEF Stay, IsTree
    <3> QED BY <3>2 DEF Others, i
  <2>5. top \in S \cup {None}
    BY <1>1, <1>7, <1>9, <2>3
  <2>6. Closed(J, S)
    <3> SUFFICES ASSUME NEW n \in S PROVE J[n].next \in S \cup {None} /\ J[n].inner \in S \cup {None}
      BY DEF Closed
    <3>1. n \in D /\ n # c /\ n \notin sub
      BY <2>3, <2>4
    <3>2. J[n].next \notin sub /\ J[n].inner \notin sub
      BY <1>2, <1>6, <1>9, <2>1, <3>1
    <3> QED BY <2>3, <3>2 DEF Closed
  <2>7. Stay(h, first, i) \subseteq S
    <3> HIDE DEF S
    <3>1. S \in SUBSET DOMAIN J
      BY <2>1, <2>3 DEF S
    <3> QED BY <2>5, <2>6, <3>1, ReachLeast DEF Stay
  <2> QED BY <2>7
<1>11. IsTree(h, sub, h[c].inner)
  <2>1. Acyclic(h, sub)
    BY <1>1, <1>3 DEF Acyclic
  <2>2. Apart(h, sub)
    BY <1>1, <1>3 DEF Apart
  <2>3. Rooted(h, sub, h[c].inner)
    BY <1>1, <1>3, <1>5 DEF Apart, Rooted
  <2> QED BY <1>3, <2>1, <2>2, <2>3 DEF IsTree
<1> QED BY <1>3, <1>5, <1>10, <1>11 DEF sub, i

(***************************************************************************)
(* Link joins a contact, what is in it and the rest to one tree.           *)
(***************************************************************************)
Old(under, first, h) == IF under = None THEN first ELSE h[under].inner
Linked(c, i, inner, under, first, h) ==
  IF under = None
  THEN Store(h, c, [id |-> i, inner |-> inner, next |-> first])
  ELSE Store([h EXCEPT ![under].inner = c], c, [id |-> i, inner |-> inner, next |-> h[under].inner])

Joined(k, c, i, inner, under, first, h) ==
  /\ DOMAIN k = DOMAIN h \cup {c} /\ IsHeap(k)
  /\ k[c].id = i /\ k[c].next = Old(under, first, h) /\ k[c].inner = inner
  /\ \A n \in DOMAIN h : n # c =>
       /\ k[n].id = h[n].id /\ k[n].next = h[n].next
       /\ k[n].inner = IF n = under THEN c ELSE h[n].inner

LEMMA LinkedIs ==
  ASSUME NEW h, IsHeap(h), NEW c \in Nodes, NEW i \in Ints, NEW inner \in DOMAIN h \cup {None},
         NEW under \in DOMAIN h \cup {None}, NEW first \in DOMAIN h \cup {None}, c # under
  PROVE  Joined(Linked(c, i, inner, under, first, h), c, i, inner, under, first, h)
<1> DEFINE D == DOMAIN h
           k == Linked(c, i, inner, under, first, h)
           new == [id |-> i, inner |-> inner, next |-> Old(under, first, h)]
<1>1. None \notin D /\ D \subseteq Nodes /\ \A n \in D : h[n] \in Contact(D)
  BY Pointers DEF IsHeap
<1>2. new \in Contact(D)
  BY <1>1 DEF Contact, Old
<1>3. DOMAIN k = D \cup {c} /\ k = [n \in DOMAIN k |-> k[n]] /\ k[c] = new
  <2>1. CASE under = None
    BY <2>1 DEF Linked, Old, Store
  <2>2. CASE under # None
    BY <2>2 DEF Linked, Old, Store
  <2> QED BY <2>1, <2>2
<1>4. ASSUME NEW n \in D, n # c
      PROVE  /\ k[n].id = h[n].id /\ k[n].next = h[n].next
             /\ k[n].inner = IF n = under THEN c ELSE h[n].inner
             /\ k[n] \in Contact(D \cup {c})
  <2>1. CASE under = None
    BY <1>1, <1>4, <2>1 DEF Linked, Store, Contact
  <2>2. CASE under # None
    <3>1. k[n] = IF n = under THEN [h[n] EXCEPT !.inner = c] ELSE h[n]
      BY <1>4, <2>2 DEF Linked, Store
    <3> HIDE DEF k
    <3> QED BY <1>1, <1>4, <3>1 DEF Contact
  <2> QED BY <2>1, <2>2
<1> HIDE DEF k, new
<1>6. k[c] \in Contact(D \cup {c})
  BY <1>2, <1>3 DEF Contact
<1>7. IsHeap(k)
  BY <1>1, <1>3, <1>4, <1>6 DEF IsHeap
<1>8. k[c].id = i /\ k[c].next = Old(under, first, h) /\ k[c].inner = inner
  BY <1>3 DEF new
<1> QED BY <1>3, <1>4, <1>7, <1>8 DEF Joined, k

LEMMA LinksTree ==
  ASSUME NEW h, IsHeap(h), NEW A, NEW first, IsTree(h, A, first),
         NEW B, NEW inner, IsTree(h, B, inner), A \cap B = {},
         NEW c \in Nodes \ (A \cup B), NEW i \in Ints, NEW under \in A \cup {None}
  PROVE  LET k == Linked(c, i, inner, under, first, h)
         IN IsHeap(k) /\ IsTree(k, A \cup B \cup {c}, IF under = None THEN c ELSE first)
<1> DEFINE D == DOMAIN h
           k == Linked(c, i, inner, under, first, h)
           U == A \cup B \cup {c}
           old == Old(under, first, h)
           top == IF under = None THEN c ELSE first
<1>1. /\ A \subseteq D /\ Closed(h, A) /\ first \in A \cup {None}
      /\ Acyclic(h, A) /\ Apart(h, A) /\ Rooted(h, A, first)
      /\ B \subseteq D /\ Closed(h, B) /\ inner \in B \cup {None}
      /\ Acyclic(h, B) /\ Apart(h, B) /\ Rooted(h, B, inner)
  BY DEF IsTree
<1>2. None \notin D /\ c # None
  BY Pointers, NoneIsNoNode
<1>3. /\ DOMAIN k = D \cup {c} /\ IsHeap(k)
      /\ k[c].next = old /\ k[c].inner = inner
      /\ \A n \in D : n # c => /\ k[n].next = h[n].next
                               /\ k[n].inner = IF n = under THEN c ELSE h[n].inner
  <2>1. inner \in D \cup {None} /\ under \in D \cup {None} /\ first \in D \cup {None} /\ c # under
    BY <1>1, <1>2
  <2>2. Joined(k, c, i, inner, under, first, h)
    BY <2>1, LinkedIs
  <2> HIDE DEF k
  <2> QED BY <2>2 DEF Joined
<1>4. old \in A \cup {None}
  BY <1>1 DEF Old, Closed
<1> HIDE DEF k
<1>5. \A n \in A : /\ h[n].next \in A \cup {None} /\ h[n].inner \in A \cup {None}
                   /\ k[n].next = h[n].next
                   /\ k[n].inner = IF n = under THEN c ELSE h[n].inner
  BY <1>1, <1>3 DEF Closed
<1>6. \A n \in B : /\ h[n].next \in B \cup {None} /\ h[n].inner \in B \cup {None}
                   /\ k[n].next = h[n].next /\ k[n].inner = h[n].inner
  BY <1>1, <1>2, <1>3 DEF Closed
<1>7. None \notin A /\ None \notin B
  BY <1>1, <1>2
<1>8. Closed(k, U)
  BY <1>1, <1>3, <1>4, <1>5, <1>6 DEF Closed
<1>9. Acyclic(k, U)
  <2> SUFFICES ASSUME NEW S \in SUBSET U, S # {} PROVE \E n \in S : k[n].next \notin S /\ k[n].inner \notin S
    BY DEF Acyclic
  <2>1. CASE S \cap B # {}
    <3>1. PICK n \in S \cap B : h[n].next \notin S \cap B /\ h[n].inner \notin S \cap B
      BY <1>1, <2>1 DEF Acyclic
    <3> QED BY <1>2, <1>6, <1>7, <3>1
  <2>2. CASE S \cap B = {} /\ S \cap A = {}
    BY <1>1, <1>2, <1>3, <1>4, <1>7, <2>2
  <2>3. CASE S \cap B = {} /\ S \cap A # {}
    <3>1. PICK n \in S \cap A : h[n].next \notin S \cap A /\ h[n].inner \notin S \cap A
      BY <1>1, <2>3 DEF Acyclic
    <3>2. h[n].next \notin S /\ h[n].inner \notin S
      BY <1>2, <1>5, <1>7, <3>1
    <3>3. CASE n = under /\ c \in S
      <4>1. k[c].next = h[n].inner
        BY <1>3, <1>7, <3>3 DEF Old
      <4> QED BY <1>1, <1>2, <1>3, <1>7, <2>3, <3>2, <3>3, <4>1
    <3>4. CASE ~(n = under /\ c \in S)
      BY <1>5, <3>2, <3>4
    <3> QED BY <3>3, <3>4
  <2> QED BY <2>1, <2>2, <2>3
<1>10. \A n \in A : /\ h[n].next = old /\ old # None => FALSE
                    /\ h[n].inner = old /\ old # None => n = under
  BY <1>1, <1>5, <1>7 DEF Old, Apart, Rooted
<1>11. \A n \in B : inner # None => h[n].next # inner /\ h[n].inner # inner
  BY <1>1 DEF Rooted
<1> HIDE DEF old
<1>12. Apart(k, U)
  <2>1. ASSUME NEW m \in U, NEW n \in U, k[m].next = k[n].next, k[m].next # None PROVE m = n
    <3>1. CASE m \in A
      BY <1>1, <1>2, <1>3, <1>5, <1>6, <1>7, <1>10, <2>1, <3>1 DEF Apart
    <3>2. CASE m \in B
      BY <1>1, <1>2, <1>3, <1>4, <1>5, <1>6, <1>7, <2>1, <3>2 DEF Apart
    <3>3. CASE m = c
      BY <1>1, <1>2, <1>3, <1>4, <1>5, <1>6, <1>7, <1>10, <2>1, <3>3
    <3> QED BY <3>1, <3>2, <3>3
  <2>2. ASSUME NEW m \in U, NEW n \in U, k[m].inner = k[n].inner, k[m].inner # None PROVE m = n
    <3>1. CASE m \in A
      BY <1>1, <1>2, <1>3, <1>5, <1>6, <1>7, <2>2, <3>1 DEF Apart
    <3>2. CASE m \in B
      BY <1>1, <1>2, <1>3, <1>5, <1>6, <1>7, <1>11, <2>2, <3>2 DEF Apart
    <3>3. CASE m = c
      BY <1>1, <1>2, <1>3, <1>5, <1>6, <1>7, <1>11, <2>2, <3>3
    <3> QED BY <3>1, <3>2, <3>3
  <2>3. ASSUME NEW m \in U, NEW n \in U, k[m].next = k[n].inner, k[m].next # None PROVE FALSE
    <3>1. CASE m \in A
      BY <1>1, <1>2, <1>3, <1>5, <1>6, <1>7, <2>3, <3>1 DEF Apart
    <3>2. CASE m \in B
      BY <1>1, <1>2, <1>3, <1>5, <1>6, <1>7, <1>11, <2>3, <3>2 DEF Apart
    <3>3. CASE m = c
      BY <1>1, <1>2, <1>3, <1>4, <1>5, <1>6, <1>7, <1>10, <2>3, <3>3
    <3> QED BY <3>1, <3>2, <3>3
  <2> QED BY <2>1, <2>2, <2>3 DEF Apart
<1>13. Rooted(k, U, top)
  <2>1. CASE under = None
    BY <1>1, <1>2, <1>3, <1>4, <1>5, <1>6, <1>7, <2>1 DEF Rooted
  <2>2. CASE under # None
    <3>1. old # first \/ first = None
      BY <1>1, <2>2 DEF Old, old, Rooted
    <3> QED BY <1>1, <1>2, <1>3, <1>4, <1>5, <1>6, <1>7, <2>2, <3>1 DEF Rooted
  <2> QED BY <2>1, <2>2
<1> QED BY <1>1, <1>3, <1>8, <1>9, <1>12, <1>13 DEF IsTree, k

LEMMA LinkBecomes ==
  ASSUME NEW h, NEW c, NEW i, NEW inner, NEW under, NEW first, Link(c, i, inner, under, first, h)
  PROVE  Become(IF under = None THEN c ELSE first, Linked(c, i, inner, under, first, h))
<1>1. CASE under = None
  BY <1>1 DEF Link, Linked
<1>2. CASE under # None
  BY <1>2 DEF Link, Linked
<1> QED BY <1>1, <1>2

\* Only contacts of U are left, with their ids, and c has id i.
LeftOf(U, h, c, i) ==
  /\ Live' \subseteq U \cup {c}
  /\ \A n \in Live' : heap'[n].id = IF n = c THEN i ELSE h[n].id

LEMMA LinkStep ==
  ASSUME NEW h, IsHeap(h), NEW A, NEW first, IsTree(h, A, first),
         NEW B, NEW inner, IsTree(h, B, inner), A \cap B = {},
         NEW c \in Nodes \ (A \cup B), NEW i \in Ints, NEW under \in A \cup {None},
         Link(c, i, inner, under, first, h)
  PROVE  TreeInv' /\ LeftOf(A \cup B, h, c, i)
<1> DEFINE k == Linked(c, i, inner, under, first, h)
           top == IF under = None THEN c ELSE first
           U == A \cup B \cup {c}
<1>1. IsHeap(k) /\ IsTree(k, U, top)
  BY LinksTree
<1>2. A \subseteq DOMAIN h /\ B \subseteq DOMAIN h /\ first \in A \cup {None} /\ inner \in B \cup {None}
  BY DEF IsTree
<1>3. inner \in DOMAIN h \cup {None} /\ under \in DOMAIN h \cup {None} /\ first \in DOMAIN h \cup {None} /\ c # under
  BY <1>2, NoneIsNoNode
<1>4. Joined(k, c, i, inner, under, first, h)
  BY <1>3, LinkedIs
<1>5. Become(top, k)
  BY LinkBecomes
<1> HIDE DEF k, top
<1>6. TreeInv' /\ Live' \subseteq U /\ \A n \in Live' : heap'[n] = k[n]
  BY <1>1, <1>5, BecomesTree
<1> QED BY <1>2, <1>4, <1>6 DEF LeftOf, Joined

\* A list of nothing is a tree.
LEMMA EmptyTree ==
  ASSUME NEW h
  PROVE  IsTree(h, {}, None)
BY DEF IsTree, Closed, Acyclic, Apart, Rooted

(***************************************************************************)
(* GetNewId.                                                               *)
(***************************************************************************)
LEMMA WrapIs ==
  /\ 1 \in Ints
  /\ \A x \in Int : Wrap(x) \in Ints
  /\ \A x \in Ints : Wrap(x) = x
<1>1. PICK m \in Nat \ {0} : m = MaxInt
  BY ContactsAssumption
<1>2. PICK w \in Nat \ {0} : w = 2 * (m + 1)
  BY <1>1
<1>3. \A y \in Int : y % w \in 0..(w - 1)
  BY <1>2
<1>4. \A y \in 0..(w - 1) : y % w = y
  BY <1>2
<1>5. Ints = (-m - 1)..m /\ \A x : Wrap(x) = ((x + m + 1) % w) - m - 1
  BY <1>1, <1>2 DEF Ints, Wrap
<1>6. 1 \in Ints
  BY <1>1, <1>5
<1>7. ASSUME NEW x \in Int PROVE Wrap(x) \in Ints
  <2>1. x + m + 1 \in Int
    BY <1>1
  <2>2. PICK z \in 0..(w - 1) : z = (x + m + 1) % w
    BY <1>3, <2>1
  <2>3. Wrap(x) = z - m - 1
    BY ONLY <1>5, <2>2
  <2>4. z - m - 1 \in (-m - 1)..m
    BY ONLY <1>2, m \in Nat \ {0}, z \in 0..(w - 1)
  <2> QED BY ONLY <1>5, <2>3, <2>4
<1>8. ASSUME NEW x \in Ints PROVE Wrap(x) = x
  <2>1. x \in Int /\ x + m + 1 \in 0..(w - 1)
    BY <1>1, <1>2, <1>5
  <2>2. (x + m + 1) % w = x + m + 1
    BY <1>4, <2>1
  <2>3. Wrap(x) = (x + m + 1) - m - 1
    BY ONLY <1>5, <2>2
  <2> QED BY ONLY <2>1, <2>3, m \in Nat \ {0}
<1> QED BY <1>6, <1>7, <1>8

Newing(f, h) ==
  f = [n \in DOMAIN h \cup {None} |->
        [r \in Ints |->
          IF n = None THEN r
          ELSE LET s == IF h[n].id >= r THEN Wrap(h[n].id + 1) ELSE r
                   t == f[h[n].inner][1]
               IN f[h[n].next][IF h[n].inner # None /\ t >= s THEN Wrap(t + 1) ELSE s]]]

\* What r becomes at a contact, and at what is inside.
Past(id, r) == IF id >= r THEN Wrap(id + 1) ELSE r
PastInner(inner, t, s) == IF inner # None /\ t >= s THEN Wrap(t + 1) ELSE s
PastAll(contact, t, r) == PastInner(contact.inner, t, Past(contact.id, r))

\* f[p][r] is what getNewId makes of the list from p on when it has r so far.
News(f, h) ==
  /\ f \in [DOMAIN h \cup {None} -> [Ints -> Ints]]
  /\ \A p \in DOMAIN h \cup {None} : GetNewId(h, p) = f[p][1]
  /\ \A r \in Ints : f[None][r] = r
  /\ \A n \in DOMAIN h : \A r \in Ints : f[n][r] = f[h[n].next][PastAll(h[n], f[h[n].inner][1], r)]

LEMMA GetNewIdIs ==
  ASSUME NEW h, IsHeap(h), Acyclic(h, DOMAIN h)
  PROVE  \E f : News(f, h)
<1> DEFINE X == [Ints -> Ints]
           x == [r \in Ints |-> r]
           V == [n \in DOMAIN h |-> [a \in X |-> [b \in X |-> [r \in Ints |-> b[PastAll(h[n], a[1], r)]]]]]
           F == CHOOSE f : Newing(f, h)
<1>1. None \notin DOMAIN h /\ \A n \in DOMAIN h : h[n].id \in Ints /\ h[n].next \in DOMAIN h \cup {None} /\ h[n].inner \in DOMAIN h \cup {None}
  BY Pointers
<1>2. \A n \in DOMAIN h : \A t, r \in Ints : PastAll(h[n], t, r) \in Ints
  <2>1. \A y \in Ints : y \in Int /\ y + 1 \in Int
    BY ContactsAssumption DEF Ints
  <2>2. \A id, r \in Ints : Past(id, r) \in Ints
    BY <2>1, WrapIs DEF Past
  <2>3. \A p : \A t, s \in Ints : PastInner(p, t, s) \in Ints
    BY <2>1, WrapIs DEF PastInner
  <2> QED BY <1>1, <2>2, <2>3 DEF PastAll
<1>3. PICK f \in [DOMAIN h \cup {None} -> X] : Computes(f, h, DOMAIN h, x, V)
  <2>1. \A n \in DOMAIN h : \A a, b \in X : [r \in Ints |-> b[PastAll(h[n], a[1], r)]] \in X
    BY <1>2, WrapIs
  <2>2. V \in [DOMAIN h -> [X -> [X -> X]]]
    <3> HIDE DEF X
    <3> QED BY <2>1
  <2>3. x \in X
    OBVIOUS
  <2> HIDE DEF V, X, x
  <2> QED BY <2>2, <2>3, Recursion
<1>4. ASSUME NEW n \in DOMAIN h PROVE f[n] = [r \in Ints |-> f[h[n].next][PastAll(h[n], f[h[n].inner][1], r)]]
  <2>1. f[h[n].inner] \in X /\ f[h[n].next] \in X
    BY <1>1, <1>3
  <2>2. V[n][f[h[n].inner]][f[h[n].next]] = [r \in Ints |-> f[h[n].next][PastAll(h[n], f[h[n].inner][1], r)]]
    <3> HIDE DEF X
    <3> QED BY <2>1
  <2> HIDE DEF V
  <2> QED BY <1>3, <2>2 DEF Computes
<1>5. f[None] = [r \in Ints |-> r]
  BY <1>3 DEF Computes
<1>6. Newing(f, h)
  <2>1. f = [n \in DOMAIN h \cup {None} |-> f[n]]
    BY <1>3
  <2>2. ASSUME NEW n \in DOMAIN h \cup {None}
        PROVE  f[n] = [r \in Ints |->
                         IF n = None THEN r
                         ELSE LET s == IF h[n].id >= r THEN Wrap(h[n].id + 1) ELSE r
                                  t == f[h[n].inner][1]
                              IN f[h[n].next][IF h[n].inner # None /\ t >= s THEN Wrap(t + 1) ELSE s]]
    <3>1. CASE n = None
      BY <1>5, <3>1
    <3>2. CASE n # None
      <4>1. n \in DOMAIN h
        BY <3>2
      <4>2. \A r : PastAll(h[n], f[h[n].inner][1], r) =
                     LET s == IF h[n].id >= r THEN Wrap(h[n].id + 1) ELSE r
                         t == f[h[n].inner][1]
                     IN IF h[n].inner # None /\ t >= s THEN Wrap(t + 1) ELSE s
        BY DEF PastAll, Past, PastInner
      <4> QED BY <1>4, <3>2, <4>1, <4>2
    <3> QED BY <3>1, <3>2
  <2> QED BY ONLY <2>1, <2>2 DEF Newing
<1>7. Newing(F, h)
  BY <1>6
<1>8. \A p : GetNewId(h, p) = F[p][1]
  BY DEF GetNewId, Newing
<1> HIDE DEF F
<1>9. ASSUME NEW n \in DOMAIN h \cup {None}
      PROVE  F[n] = [r \in Ints |-> IF n = None THEN r ELSE F[h[n].next][PastAll(h[n], F[h[n].inner][1], r)]]
  BY <1>7 DEF Newing, PastAll, Past, PastInner
<1>10. F[None] = [r \in Ints |-> r]
  BY <1>9
<1>11. ASSUME NEW n \in DOMAIN h
       PROVE  F[n] = [r \in Ints |-> F[h[n].next][PastAll(h[n], F[h[n].inner][1], r)]]
  <2>1. n # None /\ n \in DOMAIN h \cup {None}
    BY <1>1
  <2> QED BY ONLY <1>9, <2>1
<1>12. F \in [DOMAIN h \cup {None} -> [Ints -> Ints]]
  <2> DEFINE S == {n \in DOMAIN h : F[n] \notin X}
  <2>1. F[None] \in X
    BY <1>10
  <2>2. ASSUME NEW n \in S, h[n].next \notin S, h[n].inner \notin S PROVE FALSE
    <3>1. n \in DOMAIN h /\ F[h[n].next] \in X /\ F[h[n].inner] \in X
      BY <1>1, <2>1, <2>2
    <3>2. F[h[n].inner][1] \in Ints
      BY <3>1, WrapIs
    <3>3. \A r \in Ints : F[h[n].next][PastAll(h[n], F[h[n].inner][1], r)] \in Ints
      BY <1>2, <3>1, <3>2
    <3>4. F[n] = [r \in Ints |-> F[h[n].next][PastAll(h[n], F[h[n].inner][1], r)]]
      BY <1>11, <3>1
    <3>5. F[n] \in [Ints -> Ints]
      BY ONLY <3>3, <3>4
    <3> QED BY <3>5
  <2>3. S = {}
    <3> HIDE DEF S, X
    <3>1. S \in SUBSET DOMAIN h
      BY DEF S
    <3> QED BY <2>2, <3>1 DEF Acyclic
  <2>4. \A n \in DOMAIN h \cup {None} : F[n] \in X
    BY <2>1, <2>3
  <2>5. F = [n \in DOMAIN h \cup {None} |-> F[n]]
    BY <1>7 DEF Newing
  <2> QED BY <2>4, <2>5
<1>13. \A r \in Ints : F[None][r] = r
  BY <1>10
<1>14. ASSUME NEW n \in DOMAIN h, NEW r \in Ints
       PROVE  F[n][r] = F[h[n].next][PastAll(h[n], F[h[n].inner][1], r)]
  <2>1. F[n] = [q \in Ints |-> F[h[n].next][PastAll(h[n], F[h[n].inner][1], q)]]
    BY <1>11
  <2> QED BY ONLY <2>1, r \in Ints
<1>15. News(F, h)
  BY <1>8, <1>12, <1>13, <1>14 DEF News
<1> QED BY <1>15

\* What GetNewId takes is an int, and so is what a client names.
LEMMA ChosenIs ==
  ASSUME TreeInv
  PROVE  /\ GetNewId(heap, contacts) \in Ints
         /\ \A m \in Ids \cup {-1} : Chosen(m) \in Ints
<1>1. IsHeap(heap) /\ Acyclic(heap, DOMAIN heap) /\ contacts \in DOMAIN heap \cup {None}
  BY DEF TreeInv, IsTree, Live
<1>2. PICK f : News(f, heap)
  BY <1>1, GetNewIdIs
<1>3. GetNewId(heap, contacts) = f[contacts][1] /\ f[contacts] \in [Ints -> Ints]
  BY <1>1, <1>2 DEF News
<1>4. GetNewId(heap, contacts) \in Ints
  BY <1>3, WrapIs
<1>5. ASSUME NEW m \in Ids \cup {-1} PROVE Chosen(m) \in Ints
  <2>1. m # -1 => m \in Ints
    BY ContactsAssumption
  <2> QED BY <1>4, <2>1 DEF Chosen
<1> QED BY <1>4, <1>5

(***************************************************************************)
(* The requests.                                                           *)
(***************************************************************************)
LEMMA DeleteStep ==
  ASSUME TreeInv, NEW m, Delete(m)
  PROVE  /\ TreeInv' /\ Live' \subseteq Live
         /\ \A n \in Live' : heap'[n].id = heap[n].id
<1> DEFINE i == Chosen(m)
           k == DelContact(heap, contacts, i).heap
           top == Skip(heap, contacts, i)
           stay == Stay(heap, contacts, i)
<1>1. IsHeap(heap) /\ IsTree(heap, DOMAIN heap, contacts)
  BY DEF TreeInv, Live
<1>2. Become(DelContact(heap, contacts, i).first, k)
  BY DEF Delete
<1> HIDE DEF i
<1>3. DelContact(heap, contacts, i).first = top /\ Deleted(heap, i, k, top, stay)
  BY <1>1, DelContactIs
<1> HIDE DEF k, top, stay
<1>4. TreeInv' /\ Live' \subseteq stay /\ \A n \in Live' : heap'[n] = k[n]
  BY <1>2, <1>3, BecomesTree DEF Deleted
<1>5. stay \subseteq DOMAIN heap /\ \A n \in DOMAIN heap : k[n].id = heap[n].id
  BY <1>3 DEF Deleted, IsTree
<1> QED BY <1>4, <1>5 DEF Live

\* A new contact c, wherever it is put.
LEMMA NewStep ==
  ASSUME TreeInv, NEW c \in Nodes \ Live, NEW i \in Ints, NEW under \in Live \cup {None},
         Link(c, i, None, under, contacts, heap)
  PROVE  TreeInv' /\ LeftOf(Live, heap, c, i)
<1>1. IsHeap(heap) /\ IsTree(heap, Live, contacts) /\ IsTree(heap, {}, None)
  BY EmptyTree DEF TreeInv
<1>3. PICK B : B = {}
  OBVIOUS
<1>4. /\ IsTree(heap, B, None) /\ Live \cap B = {} /\ c \in Nodes \ (Live \cup B)
      /\ Live \cup B = Live
  BY <1>1, <1>3
<1>5. TreeInv' /\ LeftOf(Live \cup B, heap, c, i)
  BY <1>1, <1>4, LinkStep
<1> QED BY <1>4, <1>5

LEMMA CreateStep ==
  ASSUME TreeInv, NEW m \in Ids \cup {-1}, NEW place, Create(m, place)
  PROVE  /\ TreeInv'
         /\ \E c \in Nodes \ Live : LeftOf(Live, heap, c, Chosen(m))
<1> DEFINE under == IF place \in {Absent, Junk} THEN None ELSE GetContact(heap, contacts, place)
<1>1. PICK c \in Nodes \ Live : Link(c, Chosen(m), None, under, contacts, heap)
  BY DEF Create
<1>2. Chosen(m) \in Ints
  BY ChosenIs
<1>3. under \in Live \cup {None}
  <2>1. /\ IsHeap(heap) /\ Acyclic(heap, DOMAIN heap) /\ contacts \in DOMAIN heap \cup {None}
        /\ Reach(heap, contacts) \subseteq DOMAIN heap
    BY ReachIs DEF TreeInv, IsTree, Live
  <2>2. GetContact(heap, contacts, place) \in DOMAIN heap \cup {None}
    BY <2>1, GetContactIs
  <2> QED BY <2>2 DEF Live
<1> HIDE DEF under
<1>4. PICK i \in Ints : i = Chosen(m)
  BY <1>2
<1>5. TreeInv' /\ LeftOf(Live, heap, c, i)
  BY <1>1, <1>3, <1>4, NewStep
<1> QED BY <1>4, <1>5

LEMMA ReverseStep ==
  ASSUME TreeInv, Reverse
  PROVE  /\ TreeInv'
         /\ \E c \in Nodes \ Live : LeftOf(Live, heap, c, GetNewId(heap, contacts))
<1>1. PICK i \in Ints : i = GetNewId(heap, contacts)
  BY ChosenIs
<1>2. PICK c \in Nodes \ Live : Link(c, i, None, None, contacts, heap)
  BY <1>1 DEF Reverse
<1>3. TreeInv' /\ LeftOf(Live, heap, c, i)
  BY <1>2, NewStep
<1> QED BY <1>1, <1>3

\* A move: the contact c is taken out, k is what is left, and in it c is linked again.  A stays
\* where it is, and B goes with c.
Moved(c, k, A, B, under) ==
  /\ c \in Live
  /\ A = Stay(heap, contacts, heap[c].id) /\ B = Inside(heap, c)
  /\ Deleted(heap, heap[c].id, k, Skip(heap, contacts, heap[c].id), A)
  /\ c \in Nodes \ (A \cup B) /\ A \cap B = {} /\ B \subseteq Live
  /\ IsTree(k, B, heap[c].inner) /\ \A n \in B : k[n] = heap[n]
  /\ under \in A \cup {None}
  /\ Link(c, heap[c].id, heap[c].inner, under, Skip(heap, contacts, heap[c].id), k)

LEMMA MoveIs ==
  ASSUME TreeInv, NEW m, NEW place, Move(m, place)
  PROVE  \E c, k, A, B, under : Moved(c, k, A, B, under) /\ heap[c].id = Chosen(m)
<1> DEFINE i == Chosen(m)
           c == GetContact(heap, contacts, i)
           rest == DelContact(heap, contacts, i)
           k == rest.heap
           top == Skip(heap, contacts, i)
           A == Stay(heap, contacts, i)
           B == Inside(heap, c)
           under == IF place = Junk THEN None ELSE GetContact(k, rest.first, place)
           inner == heap[c].inner
<1>1. /\ IsHeap(heap) /\ IsTree(heap, DOMAIN heap, contacts)
      /\ contacts \in DOMAIN heap \cup {None} /\ Acyclic(heap, DOMAIN heap)
  BY DEF TreeInv, IsTree, Live
<1>2. c # None /\ Link(c, i, k[c].inner, under, rest.first, k)
  BY DEF Move
<1> HIDE DEF i
<1>3. c \in DOMAIN heap /\ heap[c].id = i
  BY <1>1, <1>2, GetContactIs, ReachIs
<1>4. rest.first = top /\ Deleted(heap, i, k, top, A)
  BY <1>1, DelContactIs
<1> HIDE DEF c, rest, top, A
<1>5. c \notin B /\ B \subseteq DOMAIN heap /\ B \cap A = {} /\ IsTree(heap, B, inner)
  BY <1>1, <1>3, InsideGoes DEF A
<1> HIDE DEF B
<1>6. /\ DOMAIN k = DOMAIN heap /\ IsHeap(k) /\ Acyclic(k, DOMAIN k) /\ A = Reach(k, top) /\ IsTree(k, A, top)
      /\ \A n \in DOMAIN heap : k[n].id = heap[n].id
      /\ \A n \in A : heap[n].id # i
      /\ \A n \in DOMAIN heap \ A : k[n] = heap[n]
  BY <1>4 DEF Deleted
<1>7. A \subseteq DOMAIN heap /\ c \notin A /\ top \in A \cup {None}
  BY <1>3, <1>6 DEF IsTree
<1>8. IsTree(k, B, inner) /\ k[c].inner = inner
  <2>1. k[c] = heap[c] /\ \A n \in B : k[n] = heap[n]
    BY <1>3, <1>5, <1>6, <1>7
  <2>2. B \subseteq DOMAIN k /\ Closed(k, B) /\ inner \in B \cup {None}
    BY <1>5, <1>6, <2>1 DEF IsTree, Closed
  <2>3. B \in SUBSET B /\ \A n \in B : k[n].next = heap[n].next /\ k[n].inner = heap[n].inner
    BY <2>1
  <2> HIDE DEF k
  <2> QED BY <1>5, <2>1, <2>2, <2>3, TreePart
<1>9. under \in A \cup {None}
  <2> HIDE DEF k, under
  <2>1. CASE place = Junk
    BY <2>1 DEF under
  <2>2. CASE place # Junk
    <3>1. under = GetContact(k, top, place)
      BY <1>4, <2>2 DEF under, k
    <3>2. under \in Reach(k, top) \cup {None}
      BY <1>6, <1>7, <3>1, GetContactIs
    <3> QED BY <1>6, <3>2
  <2> QED BY <2>1, <2>2
<1>10. c \in Nodes \ (A \cup B) /\ i \in Ints
  BY <1>1, <1>3, <1>5, <1>7, Pointers DEF IsHeap
<1> HIDE DEF k, under, inner, top
<1>11. /\ c \in Live /\ B \subseteq Live /\ \A n \in B : k[n] = heap[n]
       /\ Link(c, i, inner, under, top, k)
  <2>1. \A n \in B : n \in DOMAIN heap \ A
    BY <1>5
  <2> QED BY <1>2, <1>3, <1>4, <1>5, <1>6, <1>8, <2>1 DEF Live
<1>12. Moved(c, k, A, B, under)
  BY <1>3, <1>4, <1>5, <1>8, <1>9, <1>10, <1>11 DEF Moved, A, B, top, inner
<1> QED BY <1>3, <1>12 DEF i

LEMMA MoveStep ==
  ASSUME TreeInv, NEW m, NEW place, Move(m, place)
  PROVE  /\ TreeInv' /\ Live' \subseteq Live
         /\ \A n \in Live' : heap'[n].id = heap[n].id
<1>1. PICK c, k, A, B, under : Moved(c, k, A, B, under)
  BY MoveIs
<1>2. PICK i : i = heap[c].id
  OBVIOUS
<1>3. PICK inner : inner = heap[c].inner
  OBVIOUS
<1>4. PICK top : top = Skip(heap, contacts, i)
  OBVIOUS
<1>5. /\ c \in Live /\ Deleted(heap, i, k, top, A) /\ B \subseteq Live
      /\ c \in Nodes \ (A \cup B) /\ A \cap B = {} /\ IsTree(k, B, inner)
      /\ under \in A \cup {None} /\ Link(c, i, inner, under, top, k)
  BY <1>1, <1>2, <1>3, <1>4 DEF Moved
<1>6. /\ DOMAIN k = Live /\ IsHeap(k) /\ IsTree(k, A, top)
      /\ \A n \in Live : k[n].id = heap[n].id
  BY <1>5 DEF Deleted, Live
<1>7. i \in Ints /\ A \subseteq Live
  BY <1>2, <1>5, <1>6, Pointers DEF IsTree, TreeInv, Live
<1>8. TreeInv' /\ LeftOf(A \cup B, k, c, i)
  BY <1>5, <1>6, <1>7, LinkStep
<1> QED BY <1>2, <1>5, <1>6, <1>7, <1>8 DEF LeftOf

LEMMA StepTreeInv == TreeInv /\ [Next]_vars => TreeInv'
<1> SUFFICES ASSUME TreeInv, [Next]_vars PROVE TreeInv'
  OBVIOUS
<1>1. ASSUME NEW m, Delete(m) PROVE TreeInv'
  BY <1>1, DeleteStep
<1>2. ASSUME NEW m \in Ids \cup {-1}, NEW place, Create(m, place) PROVE TreeInv'
  BY <1>2, CreateStep
<1>3. ASSUME NEW m, NEW place, Move(m, place) PROVE TreeInv'
  BY <1>3, MoveStep
<1>4. CASE Reverse
  BY <1>4, ReverseStep
<1>5. CASE UNCHANGED vars
  BY <1>5 DEF vars, TreeInv, Live
<1> QED BY <1>1, <1>2, <1>3, <1>4, <1>5 DEF Next

\* The contacts of a profile are a tree whose pointers lead to contacts, after any
\* requests, whatever ids they name.
THEOREM TreeInvariant == Spec => []TreeInv
<1> QED BY InitTreeInv, StepTreeInv, PTL DEF Spec

\* Every contact hangs on one pointer (delContact and the moves of processContact).
THEOREM StaysATree == Spec => []TreeShaped
<1> QED BY TreeInvariant, TreeShapedHolds, PTL

\* What is inside lies one deeper, and what is next as deep.
LEMMA Depths ==
  ASSUME TreeInv, NEW n \in Live
  PROVE  /\ Depth(n) \in Nat
         /\ heap[n].next # None => Depth(heap[n].next) = Depth(n)
         /\ heap[n].inner # None => Depth(heap[n].inner) = Depth(n) + 1
<1>1. /\ IsHeap(heap) /\ IsTree(heap, DOMAIN heap, contacts)
      /\ Apart(heap, DOMAIN heap) /\ Live = DOMAIN heap
  BY DEF TreeInv, IsTree, Live
<1>2. /\ None \notin Live
      /\ \A m \in Live : heap[m].next \in Live \cup {None} /\ heap[m].inner \in Live \cup {None}
  BY <1>1, Pointers
<1>3. IsFiniteSet(Live)
  <2>1. Live \subseteq Nodes /\ IsFiniteSet(Nodes)
    BY <1>1, ContactsAssumption DEF IsHeap
  <2> QED BY <2>1, FS_Subset
<1>4. \A m \in Live : IsFiniteSet(Above(m)) /\ Cardinality(Above(m)) \in Nat
  <2>1. \A m \in Live : Above(m) \subseteq Live
    BY DEF Above
  <2>2. \A m \in Live : IsFiniteSet(Above(m))
    BY <1>3, <2>1, FS_Subset
  <2> QED BY <2>2, FS_CardinalityType
<1>5. ASSUME NEW m \in Live, NEW p \in {heap[n].next, heap[n].inner}, p # None, p \in Reach(heap, heap[m].inner)
      PROVE  p = heap[m].inner \/ m \in Above(n)
  <2> SUFFICES ASSUME p # heap[m].inner PROVE n \in Reach(heap, heap[m].inner)
    BY DEF Above
  <2>1. PICK k \in Reach(heap, heap[m].inner) : heap[k].next = p \/ heap[k].inner = p
    BY <1>1, <1>2, <1>5, ReachBack
  <2>2. k \in Live
    BY <1>1, <1>2, <2>1, ReachIs
  <2>3. k = n
    BY <1>1, <1>5, <2>1, <2>2 DEF Apart
  <2> QED BY <2>1, <2>3
<1>6. ASSUME NEW m \in Above(n), NEW p \in {heap[n].next, heap[n].inner}, p # None
      PROVE  m \in Above(p)
  <2>1. m \in Live /\ n \in Reach(heap, heap[m].inner) /\ heap[m].inner \in DOMAIN heap \cup {None}
    BY <1>1, <1>2 DEF Above
  <2>2. p \in Reach(heap, heap[m].inner)
    BY <1>1, <1>6, <2>1, ReachIs DEF Closed
  <2> QED BY <2>1, <2>2 DEF Above
<1>7. ASSUME heap[n].next # None PROVE Above(heap[n].next) = Above(n)
  <2>1. ASSUME NEW m \in Above(heap[n].next) PROVE m \in Above(n)
    <3>1. m \in Live /\ heap[n].next \in Reach(heap, heap[m].inner)
      BY DEF Above
    <3>2. heap[n].next # heap[m].inner
      BY <1>1, <1>7, <3>1 DEF Apart
    <3> QED BY <1>5, <1>7, <3>1, <3>2
  <2> QED BY <1>6, <1>7, <2>1
<1>8. ASSUME heap[n].inner # None PROVE Above(heap[n].inner) = Above(n) \cup {n}
  <2>1. ASSUME NEW m \in Above(heap[n].inner) PROVE m \in Above(n) \cup {n}
    <3>1. m \in Live /\ heap[n].inner \in Reach(heap, heap[m].inner)
      BY DEF Above
    <3>2. CASE heap[n].inner = heap[m].inner
      BY <1>1, <1>8, <3>1, <3>2 DEF Apart
    <3>3. CASE heap[n].inner # heap[m].inner
      BY <1>5, <1>8, <3>1, <3>3
    <3> QED BY <3>2, <3>3
  <2>2. n \in Above(heap[n].inner)
    BY <1>1, <1>2, <1>8, ReachIs DEF Above
  <2> QED BY <1>6, <1>8, <2>1, <2>2
<1>9. n \notin Above(n)
  BY <1>1, InsideGoes DEF Above, Inside
<1>10. Cardinality(Above(n) \cup {n}) = Cardinality(Above(n)) + 1
  BY <1>4, <1>9, FS_AddElement
<1> QED BY <1>4, <1>7, <1>8, <1>10 DEF Depth

LEMMA FreshIds == TreeInv => NewIdFresh
<1> SUFFICES ASSUME TreeInv, HasRoom PROVE \A n \in Live : heap[n].id # GetNewId(heap, contacts)
  BY DEF NewIdFresh
<1>1. /\ IsHeap(heap) /\ Acyclic(heap, DOMAIN heap) /\ Live = DOMAIN heap
      /\ contacts \in Live \cup {None} /\ Live \subseteq Reach(heap, contacts)
  BY DEF TreeInv, IsTree, Live
<1>2. /\ None \notin Live
      /\ \A m \in Live : /\ heap[m].id \in Ints
                         /\ heap[m].next \in Live \cup {None} /\ heap[m].inner \in Live \cup {None}
  BY <1>1, Pointers
<1>2a. PICK f : News(f, heap)
  BY <1>1, GetNewIdIs
<1>3. /\ f \in [Live \cup {None} -> [Ints -> Ints]]
      /\ \A p \in Live \cup {None} : GetNewId(heap, p) = f[p][1]
      /\ \A r \in Ints : f[None][r] = r
      /\ \A n \in Live : \A r \in Ints : f[n][r] = f[heap[n].next][PastAll(heap[n], f[heap[n].inner][1], r)]
  BY <1>2a DEF News, Live
<1>4. PICK M \in Nat \ {0} : M = MaxInt
  BY ContactsAssumption
<1>5. /\ Ints = (-M - 1)..M /\ 1 \in Ints
      /\ \A x \in Ints : Wrap(x) = x
  BY <1>4, WrapIs DEF Ints
<1>6. \A n \in Live : Depth(n) \in Nat /\ 0 + Depth(n) < M /\ heap[n].id + Depth(n) < M
  <2> SUFFICES ASSUME NEW n \in Live PROVE Depth(n) \in Nat /\ 0 + Depth(n) < M /\ heap[n].id + Depth(n) < M
    OBVIOUS
  <2>1. PICK d \in Nat : d = Depth(n)
    BY Depths
  <2>2. PICK i \in Ints : i = heap[n].id
    BY <1>2
  <2>3. (IF i > 0 THEN i ELSE 0) + d < M
    BY ONLY HasRoom, <1>4, <2>1, <2>2, n \in Live DEF HasRoom
  <2>4. i \in Int
    BY <1>5
  <2>5. d < M /\ i + d < M
    BY ONLY <2>3, <2>4, d \in Nat, M \in Nat \ {0}
  <2> QED BY <2>1, <2>2, <2>5
<1> DEFINE Fresh(n) ==
      \A r \in Ints : r + Depth(n) <= M =>
        /\ r <= f[n][r] /\ f[n][r] + Depth(n) <= M
        /\ \A y \in Reach(heap, n) : heap[y].id < f[n][r]
<1>7. ASSUME NEW n \in Live,
             heap[n].next = None \/ Fresh(heap[n].next), heap[n].inner = None \/ Fresh(heap[n].inner)
      PROVE  Fresh(n)
  <2> SUFFICES ASSUME NEW r \in Ints, r + Depth(n) <= M
               PROVE  /\ r <= f[n][r] /\ f[n][r] + Depth(n) <= M
                      /\ \A y \in Reach(heap, n) : heap[y].id < f[n][r]
    OBVIOUS
  <2>1. PICK d \in Nat : d = Depth(n)
    BY <1>6
  <2>2. PICK i \in Ints : i = heap[n].id
    BY <1>2
  <2>3. i \in Int /\ r \in Int /\ i + d < M /\ d < M /\ r + d <= M
    BY <1>5, <1>6, <2>1, <2>2
  <2>4. PICK s \in Ints : s = Past(i, r) /\ r <= s /\ i < s /\ s + d <= M
    <3>1. CASE i >= r
      <4>1. i + 1 \in Ints
        BY <1>5, <2>3
      <4>2. Past(i, r) = i + 1
        BY <1>5, <3>1, <4>1 DEF Past
      <4> QED BY <2>3, <3>1, <4>1, <4>2
    <3>2. CASE ~(i >= r)
      BY <2>3, <3>2 DEF Past
    <3> QED BY <3>1, <3>2
  <2>5. PICK t \in Ints : t = f[heap[n].inner][1]
    <3>1. f[heap[n].inner] \in [Ints -> Ints]
      BY <1>2, <1>3
    <3> QED BY <1>5, <3>1
  <2>6. heap[n].inner # None =>
          t + (d + 1) <= M /\ \A y \in Reach(heap, heap[n].inner) : heap[y].id < t
    <3> SUFFICES ASSUME heap[n].inner # None
                 PROVE  t + (d + 1) <= M /\ \A y \in Reach(heap, heap[n].inner) : heap[y].id < t
      OBVIOUS
    <3>1. Depth(heap[n].inner) = d + 1
      BY <2>1, Depths
    <3>2. heap[n].inner \in Live /\ 0 + (d + 1) < M
      BY <1>2, <1>6, <3>1
    <3>3. 1 + (d + 1) <= M
      BY <3>2
    <3> QED BY <1>5, <1>7, <2>5, <3>1, <3>3
  <2>7. PICK u \in Ints : /\ u = PastInner(heap[n].inner, t, s) /\ s <= u /\ u + d <= M
                          /\ \A y \in Reach(heap, heap[n].inner) : heap[y].id < u
    <3>1. t \in Int /\ s \in Int
      BY <1>5
    <3>2. CASE heap[n].inner = None
      <4>1. PastInner(heap[n].inner, t, s) = s /\ Reach(heap, heap[n].inner) = {}
        BY <1>1, <3>2, ReachNone DEF PastInner
      <4> QED BY <2>4, <3>1, <4>1
    <3>3. CASE heap[n].inner # None /\ t >= s
      <4>1. t + 1 \in Ints /\ (t + 1) + d <= M /\ s <= t + 1
        BY <1>5, <2>3, <2>6, <3>1, <3>3
      <4>2. PastInner(heap[n].inner, t, s) = t + 1
        BY <1>5, <3>3, <4>1 DEF PastInner
      <4>3. \A y \in Reach(heap, heap[n].inner) : heap[y].id < t + 1
        <5> SUFFICES ASSUME NEW y \in Reach(heap, heap[n].inner) PROVE heap[y].id < t + 1
          OBVIOUS
        <5>1. y \in Live
          BY <1>1, <1>2, <3>3, ReachIs
        <5>2. heap[y].id \in Int
          BY <1>2, <1>5, <5>1
        <5>3. heap[y].id < t
          BY <2>6, <3>3
        <5> QED BY <3>1, <5>2, <5>3
      <4> QED BY <4>1, <4>2, <4>3
    <3>4. CASE heap[n].inner # None /\ ~(t >= s)
      <4>1. PastInner(heap[n].inner, t, s) = s
        BY <3>4 DEF PastInner
      <4>2. \A y \in Reach(heap, heap[n].inner) : heap[y].id < s
        <5> SUFFICES ASSUME NEW y \in Reach(heap, heap[n].inner) PROVE heap[y].id < s
          OBVIOUS
        <5>1. y \in Live
          BY <1>1, <1>2, <3>4, ReachIs
        <5>2. heap[y].id \in Int
          BY <1>2, <1>5, <5>1
        <5>3. heap[y].id < t
          BY <2>6, <3>4
        <5> QED BY <3>1, <3>4, <5>2, <5>3
      <4> QED BY <2>4, <3>1, <4>1, <4>2
    <3> QED BY <3>2, <3>3, <3>4
  <2>8. f[n][r] = f[heap[n].next][u]
    BY <1>3, <2>2, <2>4, <2>5, <2>7 DEF PastAll
  <2>9. PICK v \in Ints : /\ v = f[heap[n].next][u] /\ u <= v /\ v + d <= M
                          /\ \A y \in Reach(heap, heap[n].next) : heap[y].id < v
    <3>1. CASE heap[n].next = None
      <4>1. Reach(heap, heap[n].next) = {} /\ u \in Int
        BY <1>1, <1>5, <3>1, ReachNone
      <4> QED BY <1>3, <2>7, <3>1, <4>1
    <3>2. CASE heap[n].next # None
      <4>1. Depth(heap[n].next) = d
        BY <2>1, <3>2, Depths
      <4>2. f[heap[n].next][u] \in Ints
        <5>1. f[heap[n].next] \in [Ints -> Ints]
          BY <1>2, <1>3
        <5> QED BY <5>1
      <4> QED BY <1>7, <2>7, <3>2, <4>1, <4>2
    <3> QED BY <3>1, <3>2
  <2>10. s \in Int /\ u \in Int /\ v \in Int
    BY <1>5
  <2>11. r <= v /\ i < v
    BY <2>3, <2>4, <2>7, <2>9, <2>10
  <2>12. \A y \in Reach(heap, n) : heap[y].id < v
    <3> SUFFICES ASSUME NEW y \in Reach(heap, n) PROVE heap[y].id < v
      OBVIOUS
    <3>1. y = n \/ y \in Reach(heap, heap[n].next) \/ y \in Reach(heap, heap[n].inner)
      BY <1>1, ReachFrom
    <3>2. heap[y].id \in Int
      BY <1>1, <1>2, <1>5, ReachIs
    <3>3. CASE y \in Reach(heap, heap[n].inner)
      <4>1. heap[y].id < u
        BY <2>7, <3>3
      <4> QED BY <2>9, <2>10, <3>2, <4>1
    <3> QED BY <2>2, <2>9, <2>11, <3>1, <3>3
  <2> QED BY <2>1, <2>8, <2>9, <2>11, <2>12
<1> HIDE DEF Fresh
<1>8. \A n \in Live : Fresh(n)
  <2> DEFINE S == {n \in Live : ~Fresh(n)}
  <2>1. ASSUME NEW n \in S, heap[n].next \notin S, heap[n].inner \notin S PROVE FALSE
    BY <1>2, <1>7, <2>1
  <2>2. S = {}
    <3> HIDE DEF S
    <3>1. S \in SUBSET DOMAIN heap
      BY <1>1 DEF S
    <3> QED BY <1>1, <2>1, <3>1 DEF Acyclic
  <2> QED BY <2>2
<1>9. ASSUME NEW n \in Live PROVE heap[n].id # GetNewId(heap, contacts)
  <2>1. contacts \in Live /\ n \in Reach(heap, contacts)
    BY <1>1, ReachNone
  <2>2. PICK d \in Nat : d = Depth(contacts) /\ d < M
    BY <1>6, <2>1
  <2>3. 1 + d <= M
    BY <2>2
  <2>4. heap[n].id < f[contacts][1]
    BY <1>5, <1>8, <2>1, <2>2, <2>3 DEF Fresh
  <2>5. heap[n].id \in Int
    BY <1>2, <1>5
  <2>6. GetNewId(heap, contacts) = f[contacts][1]
    BY <1>3, <2>1
  <2> QED BY <2>4, <2>5, <2>6
<1> QED BY <1>9

\* A new id is the id of no contact, however deep, as long as ids leave room (getNewId).
THEOREM NewIdsAreFresh == Spec => []NewIdFresh
<1> QED BY TreeInvariant, FreshIds, PTL

(***************************************************************************)
(* No two contacts have the same id.                                       *)
(***************************************************************************)
UniqueInv == \A m, n \in Live : heap[m].id = heap[n].id => m = n

LEMMA UniqueFound == TreeInv /\ UniqueInv => FoundById
<1> SUFFICES ASSUME TreeInv, UniqueInv, NEW n \in Live PROVE GetContact(heap, contacts, heap[n].id) = n
  BY DEF FoundById
<1>1. /\ IsHeap(heap) /\ Acyclic(heap, DOMAIN heap) /\ contacts \in DOMAIN heap \cup {None}
      /\ n \in Reach(heap, contacts) /\ Reach(heap, contacts) \subseteq Live
  BY ReachIs DEF TreeInv, IsTree, Live
<1>2. PICK i : i = heap[n].id
  OBVIOUS
<1>3. PICK c : c = GetContact(heap, contacts, i)
  OBVIOUS
<1>4. IF c = None THEN \A m \in Reach(heap, contacts) : heap[m].id # i
                  ELSE c \in Reach(heap, contacts) /\ heap[c].id = i
  BY <1>1, <1>3, GetContactIs
<1>5. c \in Live /\ heap[c].id = i
  BY <1>1, <1>2, <1>4
<1> QED BY <1>2, <1>3, <1>5 DEF UniqueInv

\* Requests that link no new contact.
LEMMA FewerUnique ==
  ASSUME UniqueInv, Live' \subseteq Live, \A n \in Live' : heap'[n].id = heap[n].id
  PROVE  UniqueInv'
<1>1. \A m, n \in Live' : heap'[m].id = heap'[n].id => m = n
  BY DEF UniqueInv
<1> QED BY <1>1 DEF UniqueInv

\* Requests that link one.
LEMMA OneMoreUnique ==
  ASSUME UniqueInv, NEW c \in Nodes \ Live, NEW i, LeftOf(Live, heap, c, i), \A n \in Live : heap[n].id # i
  PROVE  UniqueInv'
<1>1. /\ Live' \subseteq Live \cup {c}
      /\ \A n \in Live' : heap'[n].id = IF n = c THEN i ELSE heap[n].id
  BY DEF LeftOf
<1>2. ASSUME NEW m \in Live', NEW n \in Live', heap'[m].id = heap'[n].id PROVE m = n
  <2>1. CASE m = c
    BY <1>1, <1>2, <2>1
  <2>2. CASE n = c
    BY <1>1, <1>2, <2>2
  <2>3. CASE m # c /\ n # c
    BY <1>1, <1>2, <2>3 DEF UniqueInv
  <2> QED BY <2>1, <2>2, <2>3
<1> QED BY <1>2 DEF UniqueInv

LEMMA CreateUnique ==
  ASSUME TreeInv, UniqueInv, NEW m \in Ids \cup {-1}, NEW place, Create(m, place)
  PROVE  UniqueInv'
<1>1. PICK i : i = Chosen(m)
  OBVIOUS
<1>2. PICK c \in Nodes \ Live : LeftOf(Live, heap, c, i)
  BY <1>1, CreateStep
<1>3. /\ IsHeap(heap) /\ Acyclic(heap, DOMAIN heap) /\ contacts \in DOMAIN heap \cup {None}
      /\ Live \subseteq Reach(heap, contacts) /\ Reach(heap, contacts) \subseteq DOMAIN heap
      /\ None \notin DOMAIN heap
  BY ReachIs, Pointers DEF TreeInv, IsTree, Live
<1>4. GetContact(heap, contacts, i) = None
  BY <1>1 DEF Create
<1>5. \A n \in Reach(heap, contacts) : heap[n].id # i
  BY <1>3, <1>4, GetContactIs
<1>6. \A n \in Live : heap[n].id # i
  BY <1>3, <1>5
<1> QED BY <1>2, <1>6, OneMoreUnique

LEMMA ReverseUnique ==
  ASSUME TreeInv, UniqueInv, HasRoom, Reverse
  PROVE  UniqueInv'
<1>1. PICK i : i = GetNewId(heap, contacts)
  OBVIOUS
<1>2. PICK c \in Nodes \ Live : LeftOf(Live, heap, c, i)
  BY <1>1, ReverseStep
<1>3. \A n \in Live : heap[n].id # i
  BY <1>1, FreshIds DEF NewIdFresh
<1> QED BY <1>2, <1>3, OneMoreUnique

LEMMA StepUniqueInv == TreeInv /\ UniqueInv /\ HasRoom /\ [Next]_vars => UniqueInv'
<1> SUFFICES ASSUME TreeInv, UniqueInv, HasRoom, [Next]_vars PROVE UniqueInv'
  OBVIOUS
<1>1. ASSUME NEW m, Delete(m) PROVE UniqueInv'
  BY <1>1, DeleteStep, FewerUnique
<1>2. ASSUME NEW m \in Ids \cup {-1}, NEW place, Create(m, place) PROVE UniqueInv'
  BY <1>2, CreateUnique
<1>3. ASSUME NEW m, NEW place, Move(m, place) PROVE UniqueInv'
  BY <1>3, MoveStep, FewerUnique
<1>4. CASE Reverse
  BY <1>4, ReverseUnique
<1>5. CASE UNCHANGED vars
  BY <1>5 DEF vars, UniqueInv, Live
<1> QED BY <1>1, <1>2, <1>3, <1>4, <1>5 DEF Next

LEMMA FoundUnique == FoundById => UniqueInv
<1> SUFFICES ASSUME FoundById, NEW m \in Live, NEW n \in Live, heap[m].id = heap[n].id PROVE m = n
  BY DEF UniqueInv
<1>1. PICK i : i = heap[m].id
  OBVIOUS
<1>2. GetContact(heap, contacts, i) = m /\ GetContact(heap, contacts, i) = n
  BY <1>1 DEF FoundById
<1> QED BY <1>2

LEMMA NextUniqueFound == TreeInv' /\ UniqueInv' => FoundById'
BY UniqueFound, PTL

\* As long as ids leave room for the ones that getNewId makes, no request of processContact or
\* processContactReverse links a contact whose id leads getContact to another one: it is
\* Reverse that links an id it has not looked for.
THEOREM IdsKeepLeading == Spec => FoundStays
<1>1. TreeInv /\ TreeInv' /\ [Next]_vars => [FoundById /\ HasRoom => FoundById']_vars
  <2> SUFFICES ASSUME TreeInv, TreeInv', [Next]_vars, FoundById, HasRoom PROVE FoundById'
    OBVIOUS
  <2>1. UniqueInv'
    BY FoundUnique, StepUniqueInv
  <2> QED BY <2>1, NextUniqueFound
<1> QED BY <1>1, TreeInvariant, PTL DEF Spec, FoundStays

\* While there is room, the id of every contact leads getContact to it.
THEOREM IdsLead == Spec /\ []HasRoom => []FoundById
<1>1. Init => FoundById
  BY DEF Init, FoundById, Live
<1>2. UNCHANGED vars /\ FoundById => FoundById'
  BY DEF vars, FoundById, Live
<1> QED BY <1>1, <1>2, IdsKeepLeading, PTL DEF Spec, FoundStays

(***************************************************************************)
(* Lists and places.                                                       *)
(***************************************************************************)
LEMMA SiblingsIs ==
  ASSUME NEW h, IsHeap(h), NEW p \in DOMAIN h \cup {None}
  PROVE  /\ Siblings(h, p) \subseteq DOMAIN h
         /\ p \in Siblings(h, p) \cup {None}
         /\ Along(h, Siblings(h, p))
<1>1. Siblings(h, p) \subseteq DOMAIN h /\ p \in Siblings(h, p) \cup {None}
  BY DEF Siblings
<1>2. ASSUME NEW n \in Siblings(h, p), h[n].next # None PROVE h[n].next \in Siblings(h, p)
  <2>1. n \in DOMAIN h /\ h[n].next \in DOMAIN h
    BY <1>1, <1>2, Pointers
  <2>2. ASSUME NEW S \in SUBSET DOMAIN h, p \in S \cup {None}, Along(h, S) PROVE h[n].next \in S
    <3>1. n \in S
      BY <2>2 DEF Siblings
    <3> QED BY <1>2, <2>2, <3>1 DEF Along
  <2> QED BY <2>1, <2>2 DEF Siblings
<1> QED BY <1>1, <1>2 DEF Along

\* What is in a list comes first, or after another one.
LEMMA SiblingsBack ==
  ASSUME NEW h, IsHeap(h), NEW p \in DOMAIN h \cup {None}, NEW n \in Siblings(h, p), n # p
  PROVE  \E m \in Siblings(h, p) : h[m].next = n
<1> SUFFICES ASSUME \A m \in Siblings(h, p) : h[m].next # n PROVE FALSE
  OBVIOUS
<1> DEFINE S == Siblings(h, p) \ {n}
<1>1. S \in SUBSET DOMAIN h /\ p \in S \cup {None} /\ Along(h, S)
  BY SiblingsIs DEF Along
<1>2. n \in S
  BY <1>1 DEF Siblings
<1> QED BY <1>2

LEMMA SiblingsReach ==
  ASSUME NEW h, IsHeap(h), NEW p \in DOMAIN h \cup {None}
  PROVE  Siblings(h, p) \subseteq Reach(h, p)
<1>1. /\ Reach(h, p) \in SUBSET DOMAIN h /\ p \in Reach(h, p) \cup {None} /\ Along(h, Reach(h, p))
  BY ReachIs DEF Along, Closed
<1> QED BY <1>1 DEF Siblings

\* P gives the place of every contact in U: what is first is there, what is next is in
\* the same place, and what is inside is in the contact.
Placed(P, h, U, first, there) ==
  /\ first # None => P[first] = there
  /\ \A n \in U : /\ h[n].next # None => P[h[n].next] = P[n]
                  /\ h[n].inner # None => P[h[n].inner] = h[n].id

LEMMA PlaceIs ==
  ASSUME NEW h, IsHeap(h), NEW first, IsTree(h, DOMAIN h, first)
  PROVE  Placed([n \in DOMAIN h |-> Place(h, n)], h, DOMAIN h, first, None)
<1> DEFINE D == DOMAIN h
           around(n) == {m \in D : n \in Siblings(h, h[m].inner)}
<1>1. first \in D \cup {None} /\ Apart(h, D) /\ Rooted(h, D, first)
  BY DEF IsTree
<1>2. /\ None \notin D
      /\ \A n \in D : h[n].next \in D \cup {None} /\ h[n].inner \in D \cup {None}
  BY Pointers
<1>3. ASSUME NEW m \in D, NEW n \in Siblings(h, h[m].inner), n # h[m].inner
      PROVE  \E k \in D : h[k].next = n
  BY <1>2, <1>3, SiblingsIs, SiblingsBack
<1>4. ASSUME first # None PROVE around(first) = {}
  <2> SUFFICES ASSUME NEW m \in D, first \in Siblings(h, h[m].inner) PROVE FALSE
    OBVIOUS
  <2> QED BY <1>1, <1>3, <1>4 DEF Rooted
<1>5. ASSUME NEW n \in D, h[n].next # None PROVE around(h[n].next) = around(n)
  <2>1. ASSUME NEW m \in D, h[n].next \in Siblings(h, h[m].inner) PROVE n \in Siblings(h, h[m].inner)
    <3>1. h[n].next # h[m].inner
      BY <1>1, <1>5 DEF Apart
    <3>2. PICK k \in Siblings(h, h[m].inner) : h[k].next = h[n].next
      BY <1>2, <2>1, <3>1, SiblingsBack
    <3>3. k \in D
      BY <1>2, <3>2, SiblingsIs
    <3>4. k = n
      BY <1>1, <1>5, <3>2, <3>3 DEF Apart
    <3> QED BY <3>2, <3>4
  <2>2. ASSUME NEW m \in D, n \in Siblings(h, h[m].inner) PROVE h[n].next \in Siblings(h, h[m].inner)
    BY <1>2, <1>5, <2>2, SiblingsIs DEF Along
  <2> QED BY <2>1, <2>2
<1>6. ASSUME NEW n \in D, h[n].inner # None PROVE around(h[n].inner) = {n}
  <2>1. ASSUME NEW m \in D, h[n].inner \in Siblings(h, h[m].inner) PROVE m = n
    <3>1. CASE h[n].inner = h[m].inner
      BY <1>1, <1>6, <3>1 DEF Apart
    <3>2. CASE h[n].inner # h[m].inner
      <4>1. PICK k \in D : h[k].next = h[n].inner
        BY <1>3, <2>1, <3>2
      <4> QED BY <1>1, <1>6, <4>1 DEF Apart
    <3> QED BY <3>1, <3>2
  <2>2. h[n].inner \in Siblings(h, h[n].inner)
    BY <1>2, <1>6, SiblingsIs
  <2> QED BY <2>1, <2>2
<1>7. \A n \in D : Place(h, n) = IF around(n) = {} THEN None ELSE h[CHOOSE m \in around(n) : TRUE].id
  BY DEF Place
<1> HIDE DEF around
<1>8. ASSUME first # None PROVE Place(h, first) = None
  BY <1>1, <1>4, <1>7, <1>8
<1>9. ASSUME NEW n \in D, h[n].next # None PROVE Place(h, h[n].next) = Place(h, n)
  <2>1. h[n].next \in D /\ around(h[n].next) = around(n)
    BY <1>2, <1>5, <1>9
  <2> QED BY <1>7, <2>1
<1>10. ASSUME NEW n \in D, h[n].inner # None PROVE Place(h, h[n].inner) = h[n].id
  <2>1. h[n].inner \in D /\ around(h[n].inner) = {n}
    BY <1>2, <1>6, <1>10
  <2>2. (CHOOSE m \in {n} : TRUE) = n
    OBVIOUS
  <2> QED BY <1>7, <2>1, <2>2
<1> QED BY <1>1, <1>2, <1>8, <1>9, <1>10 DEF Placed

\* There is one way to place the contacts of a tree.
LEMMA PlacesAgree ==
  ASSUME NEW h, NEW first, DOMAIN h \subseteq Reach(h, first), IsHeap(h), first \in DOMAIN h \cup {None},
         NEW P, Placed(P, h, DOMAIN h, first, None), NEW Q, Placed(Q, h, DOMAIN h, first, None)
  PROVE  \A n \in DOMAIN h : P[n] = Q[n]
<1> DEFINE S == {n \in DOMAIN h : P[n] = Q[n]}
<1>1. first \in S \cup {None}
  BY DEF Placed
<1>2. Closed(h, S)
  <2>1. ASSUME NEW n \in S PROVE h[n].next \in S \cup {None} /\ h[n].inner \in S \cup {None}
    <3>1. n \in DOMAIN h /\ P[n] = Q[n]
      OBVIOUS
    <3>2. h[n].next \in DOMAIN h \cup {None} /\ h[n].inner \in DOMAIN h \cup {None}
      BY <3>1, Pointers
    <3> QED BY <3>1, <3>2 DEF Placed
  <2> QED BY <2>1 DEF Closed
<1>3. Reach(h, first) \subseteq S
  <2> HIDE DEF S
  <2>1. S \in SUBSET DOMAIN h
    BY DEF S
  <2> QED BY <1>1, <1>2, <2>1, ReachLeast
<1> QED BY <1>3

\* A contact that is not at the top is in the contact whose id is its place.
LEMMA PlaceUp ==
  ASSUME NEW h, IsHeap(h), NEW n \in DOMAIN h, Place(h, n) # None
  PROVE  \E m \in DOMAIN h : Place(h, n) = h[m].id /\ n \in Inside(h, m)
<1> DEFINE around == {m \in DOMAIN h : n \in Siblings(h, h[m].inner)}
<1>1. Place(h, n) = IF around = {} THEN None ELSE h[CHOOSE m \in around : TRUE].id
  BY DEF Place
<1>2. PICK m : m = (CHOOSE k \in around : TRUE)
  OBVIOUS
<1>3. m \in around /\ Place(h, n) = h[m].id
  BY <1>1, <1>2
<1>4. m \in DOMAIN h /\ n \in Siblings(h, h[m].inner) /\ h[m].inner \in DOMAIN h \cup {None}
  BY <1>3, Pointers
<1> QED BY <1>3, <1>4, SiblingsReach DEF Inside

(***************************************************************************)
(* The tree that a heap is.                                                *)
(***************************************************************************)
Sound(h, first) ==
  /\ IsHeap(h) /\ IsTree(h, DOMAIN h, first) /\ DOMAIN h \subseteq Reach(h, first)
  /\ \A m, n \in DOMAIN h : h[m].id = h[n].id => m = n

IdsOf(h, S) == {h[n].id : n \in S}
ParentOf(h, first) == [i \in IdsOf(h, DOMAIN h) |-> Place(h, GetContact(h, first, i))]

LEMMA SoundNow == TreeInv /\ UniqueInv => Sound(heap, contacts) /\ Parent = ParentOf(heap, contacts)
BY DEF TreeInv, UniqueInv, Sound, Live, Parent, ParentOf, IdsOf

LEMMA SoundNext ==
  TreeInv' /\ UniqueInv' => Sound(heap', contacts') /\ Parent' = ParentOf(heap', contacts')
BY DEF TreeInv, UniqueInv, Sound, Live, Parent, ParentOf, IdsOf

LEMMA SoundFound ==
  ASSUME NEW h, NEW first, Sound(h, first), NEW n \in DOMAIN h
  PROVE  GetContact(h, first, h[n].id) = n
<1>1. /\ IsHeap(h) /\ Acyclic(h, DOMAIN h) /\ first \in DOMAIN h \cup {None}
      /\ n \in Reach(h, first)
  BY DEF Sound, IsTree
<1>2. Reach(h, first) \subseteq DOMAIN h
  BY <1>1, ReachIs
<1>3. PICK i : i = h[n].id
  OBVIOUS
<1>4. PICK c : c = GetContact(h, first, i)
  OBVIOUS
<1>5. IF c = None THEN \A m \in Reach(h, first) : h[m].id # i
                  ELSE c \in Reach(h, first) /\ h[c].id = i
  BY <1>1, <1>4, GetContactIs
<1>6. c \in DOMAIN h /\ h[c].id = i
  BY <1>1, <1>2, <1>3, <1>5
<1> QED BY <1>3, <1>4, <1>6 DEF Sound

LEMMA ParentIs ==
  ASSUME NEW h, NEW first, Sound(h, first)
  PROVE  /\ ParentOf(h, first) = [i \in IdsOf(h, DOMAIN h) |-> ParentOf(h, first)[i]]
         /\ DOMAIN ParentOf(h, first) = IdsOf(h, DOMAIN h)
         /\ \A n \in DOMAIN h : ParentOf(h, first)[h[n].id] = Place(h, n)
<1>1. ASSUME NEW n \in DOMAIN h PROVE ParentOf(h, first)[h[n].id] = Place(h, n)
  <2>1. h[n].id \in IdsOf(h, DOMAIN h)
    BY DEF IdsOf
  <2>2. GetContact(h, first, h[n].id) = n
    BY SoundFound
  <2> QED BY <2>1, <2>2 DEF ParentOf
<1> QED BY <1>1 DEF ParentOf

\* However the places are computed.
LEMMA ParentPlaced ==
  ASSUME NEW h, NEW first, Sound(h, first), NEW P, Placed(P, h, DOMAIN h, first, None)
  PROVE  \A n \in DOMAIN h : ParentOf(h, first)[h[n].id] = P[n]
<1> DEFINE Q == [n \in DOMAIN h |-> Place(h, n)]
<1>1. IsHeap(h) /\ IsTree(h, DOMAIN h, first) /\ DOMAIN h \subseteq Reach(h, first) /\ first \in DOMAIN h \cup {None}
  BY DEF Sound, IsTree
<1>2. Placed(Q, h, DOMAIN h, first, None)
  BY <1>1, PlaceIs
<1>3. \A n \in DOMAIN h : ParentOf(h, first)[h[n].id] = Q[n]
  BY ParentIs
<1> HIDE DEF Q
<1>4. \A n \in DOMAIN h : Q[n] = P[n]
  BY <1>1, <1>2, PlacesAgree
<1> QED BY <1>3, <1>4

(***************************************************************************)
(* What lies in a contact.                                                 *)
(***************************************************************************)
LEMMA WithinIs ==
  ASSUME TreeInv, UniqueInv, NEW c \in Live
  PROVE  Abstract!Within(heap[c].id) = IdsOf(heap, Inside(heap, c) \cup {c})
<1> DEFINE B == Inside(heap, c)
           W == IdsOf(heap, B \cup {c})
<1>1. /\ IsHeap(heap) /\ IsTree(heap, DOMAIN heap, contacts) /\ Live = DOMAIN heap
      /\ \A m, n \in Live : heap[m].id = heap[n].id => m = n
  BY SoundNow DEF Sound, Live
<1>2. /\ DOMAIN Parent = IdsOf(heap, Live)
      /\ \A n \in Live : Parent[heap[n].id] = Place(heap, n)
  BY <1>1, SoundNow, ParentIs
<1>3. /\ None \notin Live /\ None \notin Ints
      /\ \A n \in Live : /\ heap[n].id \in Ints
                         /\ heap[n].next \in Live \cup {None} /\ heap[n].inner \in Live \cup {None}
  BY <1>1, Pointers, ContactsAssumption
<1>4. B \subseteq Live /\ heap[c].inner \in B \cup {None} /\ Closed(heap, B)
  BY <1>1, <1>3, ReachIs DEF Inside
<1>5. /\ \A n \in Live : heap[n].next # None => Place(heap, heap[n].next) = Place(heap, n)
      /\ \A n \in Live : heap[n].inner # None => Place(heap, heap[n].inner) = heap[n].id
  <2>1. PICK P : P = [n \in Live |-> Place(heap, n)]
    OBVIOUS
  <2>2. Placed(P, heap, Live, contacts, None)
    BY <1>1, <2>1, PlaceIs
  <2>3. \A n \in Live : P[n] = Place(heap, n)
    BY <2>1
  <2> QED BY <1>3, <2>2, <2>3 DEF Placed
<1>6. PICK i : i = heap[c].id
  OBVIOUS
<1>7. W \in SUBSET (DOMAIN Parent \cup {i}) /\ i \in W
  BY <1>2, <1>4, <1>6 DEF IdsOf
<1>8. Abstract!Whole(W)
  <2> SUFFICES ASSUME NEW j \in DOMAIN Parent, Parent[j] \in W PROVE j \in W
    BY DEF Abstract!Whole
  <2>1. PICK n \in Live : j = heap[n].id
    BY <1>2 DEF IdsOf
  <2>2. PICK m \in B \cup {c} : Place(heap, n) = heap[m].id
    BY <1>2, <2>1 DEF IdsOf
  <2>3. m \in Live /\ Place(heap, n) # None
    BY <1>3, <1>4, <2>2
  <2>4. PICK k \in Live : Place(heap, n) = heap[k].id /\ n \in Inside(heap, k)
    BY <1>1, <2>3, PlaceUp
  <2>5. n \in Inside(heap, m)
    BY <1>1, <2>2, <2>3, <2>4
  <2>6. CASE m \in B
    <3>1. heap[m].inner \in B \cup {None}
      BY <1>4, <2>6 DEF Closed
    <3>2. B \in SUBSET DOMAIN heap
      BY <1>1, <1>4
    <3>3. Reach(heap, heap[m].inner) \subseteq B
      BY <1>4, <3>1, <3>2, ReachLeast
    <3>4. n \in B
      BY <2>5, <3>3 DEF Inside
    <3> QED BY <2>1, <3>4 DEF IdsOf
  <2>7. CASE m = c
    BY <2>1, <2>5, <2>7 DEF IdsOf
  <2> QED BY <2>6, <2>7
<1>9. ASSUME NEW S, i \in S, Abstract!Whole(S) PROVE W \subseteq S
  <2> DEFINE T == {n \in B : heap[n].id \in S /\ Place(heap, n) \in S}
  <2>1. ASSUME NEW p \in Live, Place(heap, p) \in S PROVE heap[p].id \in S
    <3>1. heap[p].id \in DOMAIN Parent /\ Parent[heap[p].id] \in S
      BY <1>2, <2>1 DEF IdsOf
    <3> QED BY <1>9, <3>1 DEF Abstract!Whole
  <2>2. heap[c].inner \in T \cup {None}
    <3>1. CASE heap[c].inner # None
      <4>1. heap[c].inner \in B /\ heap[c].inner \in Live /\ Place(heap, heap[c].inner) \in S
        BY <1>4, <1>5, <1>6, <1>9, <3>1
      <4> QED BY <2>1, <4>1
    <3> QED BY <3>1
  <2>3. Closed(heap, T)
    <3>1. ASSUME NEW n \in T, heap[n].next # None PROVE heap[n].next \in T
      <4>1. heap[n].next \in B /\ heap[n].next \in Live /\ Place(heap, heap[n].next) \in S
        BY <1>4, <1>5, <3>1 DEF Closed
      <4> QED BY <2>1, <4>1
    <3>2. ASSUME NEW n \in T, heap[n].inner # None PROVE heap[n].inner \in T
      <4>1. heap[n].inner \in B /\ heap[n].inner \in Live /\ Place(heap, heap[n].inner) \in S
        BY <1>4, <1>5, <3>2 DEF Closed
      <4> QED BY <2>1, <4>1
    <3> QED BY <3>1, <3>2 DEF Closed
  <2>4. B \subseteq T
    <3> HIDE DEF T
    <3>1. T \in SUBSET DOMAIN heap
      BY <1>1, <1>4 DEF T
    <3> QED BY <2>2, <2>3, <3>1, ReachLeast DEF Inside
  <2> QED BY <1>6, <1>9, <2>4 DEF IdsOf
<1> HIDE DEF W
<1>10. Abstract!Within(i) = W
  BY <1>7, <1>8, <1>9 DEF Abstract!Within
<1> QED BY <1>6, <1>10 DEF W

LEMMA WithinNone ==
  ASSUME TreeInv, UniqueInv, NEW i \in Ints, \A n \in Live : heap[n].id # i
  PROVE  Abstract!Within(i) = {i}
<1>1. IsHeap(heap) /\ Live = DOMAIN heap
  BY DEF TreeInv, Live
<1>2. /\ DOMAIN Parent = IdsOf(heap, Live)
      /\ \A n \in Live : Parent[heap[n].id] = Place(heap, n)
  BY <1>1, SoundNow, ParentIs
<1>3. ASSUME NEW n \in Live PROVE Place(heap, n) # i
  <2>1. CASE Place(heap, n) = None
    BY <2>1, ContactsAssumption
  <2>2. CASE Place(heap, n) # None
    <3>1. \E m \in Live : Place(heap, n) = heap[m].id
      BY <1>1, <2>2, PlaceUp
    <3> QED BY <3>1
  <2> QED BY <2>1, <2>2
<1>4. Abstract!Whole({i})
  BY <1>2, <1>3 DEF Abstract!Whole, IdsOf
<1> QED BY <1>4 DEF Abstract!Within

(***************************************************************************)
(* Deletion.                                                               *)
(***************************************************************************)

\* Of a tree whose ids differ, all stays but the contact and what is in it.
LEMMA StayIs ==
  ASSUME NEW h, NEW first, Sound(h, first), NEW c \in DOMAIN h
  PROVE  /\ DOMAIN h \subseteq Stay(h, first, h[c].id) \cup Inside(h, c) \cup {c}
         /\ Stay(h, first, h[c].id) \cap (Inside(h, c) \cup {c}) = {}
         /\ Stay(h, first, h[c].id) \subseteq DOMAIN h
<1> DEFINE D == DOMAIN h
           i == h[c].id
           B == Inside(h, c)
           J == Jump(h, i)
           top == Skip(h, first, i)
           A == Stay(h, first, i)
<1>1. /\ IsHeap(h) /\ IsTree(h, D, first) /\ D \subseteq Reach(h, first)
      /\ first \in D \cup {None} /\ Acyclic(h, D)
      /\ \A m, n \in D : h[m].id = h[n].id => m = n
  BY DEF Sound, IsTree
<1>2. /\ None \notin D
      /\ \A n \in D : h[n].next \in D \cup {None} /\ h[n].inner \in D \cup {None}
  BY <1>1, Pointers
<1>3. c \notin B /\ B \subseteq D /\ B \cap A = {} /\ h[c].inner \in B \cup {None} /\ Closed(h, B)
  <2>1. c \notin B /\ B \subseteq D /\ B \cap A = {}
    BY <1>1, InsideGoes
  <2>2. h[c].inner \in B \cup {None} /\ Closed(h, B)
    BY <1>1, <1>2, ReachIs DEF Inside
  <2> QED BY <2>1, <2>2
<1>4. Deleted(h, i, DelContact(h, first, i).heap, top, A)
  BY <1>1, DelContactIs
<1>5. A \subseteq D /\ c \notin A
  BY <1>4 DEF Deleted, IsTree
<1>6. /\ DOMAIN J = D /\ IsHeap(J)
      /\ \A n \in D : J[n].next = Skip(h, h[n].next, i) /\ J[n].inner = Skip(h, h[n].inner, i)
  BY <1>1, JumpIs
<1>7. /\ Skip(h, None, i) = None
      /\ \A n \in D : n # c => Skip(h, n, i) = n
      /\ Skip(h, c, i) = h[c].next
  <2>1. /\ Skip(h, None, i) = None
        /\ \A n \in D : h[n].id # i => Skip(h, n, i) = n
        /\ \A n \in D : h[n].id = i => Skip(h, n, i) = Skip(h, h[n].next, i)
    BY <1>1, SkipIs
  <2>2. h[c].next # c
    <3>1. {c} \in SUBSET D /\ {c} # {}
      OBVIOUS
    <3> QED BY <1>1, <3>1 DEF Acyclic
  <2> QED BY <1>1, <1>2, <2>1, <2>2
<1>8. top \in D \cup {None}
  BY <1>1, <1>2, <1>7
<1>9. A = Reach(J, top) /\ top \in A \cup {None} /\ Closed(J, A)
  BY <1>6, <1>8, ReachIs DEF Stay
<1> HIDE DEF A, B, J, top, i
<1>10. PICK C : C = IF h[c].next \in A \cup {None} THEN B \cup {c} ELSE {}
  OBVIOUS
<1> DEFINE S == A \cup C
<1>11. first \in S \cup {None}
  BY <1>1, <1>7, <1>9, <1>10 DEF top
<1>12. ASSUME NEW n \in A, NEW p \in {h[n].next, h[n].inner} PROVE p \in S \cup {None}
  <2>1. p \in D \cup {None} /\ Skip(h, p, i) \in A \cup {None}
    BY <1>2, <1>5, <1>6, <1>9 DEF Closed
  <2>2. CASE p = c
    BY <1>7, <1>10, <2>1, <2>2
  <2>3. CASE p # c
    BY <1>7, <2>1, <2>3
  <2> QED BY <2>2, <2>3
<1>13. ASSUME NEW n \in C PROVE h[n].next \in S \cup {None} /\ h[n].inner \in S \cup {None}
  <2>1. C = B \cup {c} /\ h[c].next \in A \cup {None}
    BY <1>10
  <2>2. CASE n = c
    BY <1>3, <2>1, <2>2
  <2>3. CASE n \in B
    BY <1>3, <2>1, <2>3 DEF Closed
  <2> QED BY <2>1, <2>2, <2>3
<1>14. Closed(h, S)
  BY <1>12, <1>13 DEF Closed
<1>15. D \subseteq S
  <2>1. S \in SUBSET D
    BY <1>3, <1>5, <1>10
  <2> HIDE DEF S
  <2> QED BY <1>1, <1>11, <1>14, <2>1, ReachLeast
<1> QED BY <1>3, <1>5, <1>10, <1>15 DEF A, B, i

\* Places are as before when pointers jump.
LEMMA StayPlaced ==
  ASSUME NEW h, IsHeap(h), NEW first, IsTree(h, DOMAIN h, first), NEW i, NEW P, Placed(P, h, DOMAIN h, first, None),
         NEW k, NEW top, top = Skip(h, first, i), NEW stay, Deleted(h, i, k, top, stay)
  PROVE  Placed(P, k, stay, top, None)
<1> DEFINE D == DOMAIN h
<1>1. first \in D \cup {None} /\ Acyclic(h, D)
  BY DEF IsTree
<1>2. \A n \in D : h[n].next \in D \cup {None} /\ h[n].inner \in D \cup {None}
  BY Pointers
<1>3. /\ Skip(h, None, i) = None
      /\ \A n \in D : h[n].id # i => Skip(h, n, i) = n
      /\ \A n \in D : h[n].id = i => Skip(h, n, i) = Skip(h, h[n].next, i)
  BY <1>1, SkipIs
<1>4. \A n \in D : Skip(h, n, i) # None => P[Skip(h, n, i)] = P[n]
  <2> DEFINE S == {n \in D : Skip(h, n, i) # None /\ P[Skip(h, n, i)] # P[n]}
  <2>1. ASSUME NEW n \in S, h[n].next \notin S, h[n].inner \notin S PROVE FALSE
    <3>1. n \in D /\ h[n].id = i /\ Skip(h, n, i) = Skip(h, h[n].next, i)
      BY <1>3
    <3>2. h[n].next # None /\ h[n].next \in D
      BY <1>2, <1>3, <3>1
    <3>3. P[h[n].next] = P[n]
      BY <3>1, <3>2 DEF Placed
    <3> QED BY <2>1, <3>1, <3>2, <3>3
  <2>2. S \in SUBSET D
    OBVIOUS
  <2>3. S = {}
    <3> HIDE DEF S
    <3> QED BY <1>1, <2>1, <2>2 DEF Acyclic
  <2> QED BY <2>3
<1>5. /\ stay \subseteq D
      /\ \A n \in stay : /\ k[n].next = Skip(h, h[n].next, i) /\ k[n].inner = Skip(h, h[n].inner, i)
                         /\ k[n].id = h[n].id
  BY DEF Deleted, IsTree
<1>6. ASSUME top # None PROVE P[top] = None
  <2>1. first \in D
    BY <1>1, <1>3, <1>6
  <2>2. P[first] = None
    BY <2>1, Pointers DEF Placed
  <2> QED BY <1>4, <1>6, <2>1, <2>2
<1>7. ASSUME NEW n \in stay, k[n].next # None PROVE P[k[n].next] = P[n]
  <2>1. n \in D /\ h[n].next \in D /\ h[n].next # None /\ k[n].next = Skip(h, h[n].next, i)
    BY <1>2, <1>3, <1>5, <1>7, Pointers
  <2>2. P[h[n].next] = P[n]
    BY <2>1 DEF Placed
  <2> QED BY <1>4, <1>7, <2>1, <2>2
<1>8. ASSUME NEW n \in stay, k[n].inner # None PROVE P[k[n].inner] = k[n].id
  <2>1. n \in D /\ h[n].inner \in D /\ h[n].inner # None /\ k[n].inner = Skip(h, h[n].inner, i)
    BY <1>2, <1>3, <1>5, <1>8, Pointers
  <2>2. P[h[n].inner] = h[n].id
    BY <2>1 DEF Placed
  <2> QED BY <1>4, <1>5, <1>8, <2>1, <2>2
<1> QED BY <1>6, <1>7, <1>8 DEF Placed
(***************************************************************************)
(* Every step of Contacts is one of Tree.                                  *)
(***************************************************************************)
LEMMA DeleteMaps ==
  ASSUME TreeInv, UniqueInv, UniqueInv', NEW m, Delete(m)
  PROVE  [Abstract!Next]_Parent
<1> DEFINE i == Chosen(m)
           k == DelContact(heap, contacts, i).heap
<1>1. Sound(heap, contacts) /\ Parent = ParentOf(heap, contacts)
  BY SoundNow
<1>2. /\ IsHeap(heap) /\ IsTree(heap, DOMAIN heap, contacts) /\ Live = DOMAIN heap
      /\ contacts \in DOMAIN heap \cup {None} /\ Acyclic(heap, DOMAIN heap)
      /\ DOMAIN heap \subseteq Reach(heap, contacts)
  BY <1>1 DEF Sound, IsTree, Live
<1>3. Become(DelContact(heap, contacts, i).first, k)
  BY DEF Delete
<1> HIDE DEF i
<1>4. PICK top, stay : top = Skip(heap, contacts, i) /\ stay = Stay(heap, contacts, i)
  OBVIOUS
<1>5. DelContact(heap, contacts, i).first = top /\ Deleted(heap, i, k, top, stay)
  BY <1>2, <1>4, DelContactIs
<1> HIDE DEF k
<1>6. PICK P : P = [n \in DOMAIN heap |-> Place(heap, n)]
  OBVIOUS
<1>7. Placed(P, heap, DOMAIN heap, contacts, None)
  BY <1>2, <1>6, PlaceIs
<1>8. Placed(P, k, stay, top, None)
  BY <1>2, <1>4, <1>5, <1>7, StayPlaced
<1>9. /\ IsHeap(k) /\ IsTree(k, stay, top) /\ stay = Reach(k, top) /\ stay \subseteq Live
      /\ \A n \in stay : k[n].id = heap[n].id
      /\ \A n \in stay : k[n].next = Skip(heap, heap[n].next, i) /\ k[n].inner = Skip(heap, heap[n].inner, i)
  BY <1>2, <1>5 DEF Deleted, IsTree
<1>10. TreeInv' /\ Live' = stay /\ \A n \in Live' : heap'[n] = k[n]
  BY <1>3, <1>5, <1>9, BecomesTree
<1>11. contacts' = top /\ DOMAIN heap' = stay
  BY <1>3, <1>5, <1>10 DEF Become, Live
<1>12. Sound(heap', contacts') /\ Parent' = ParentOf(heap', contacts')
  BY <1>10, SoundNext
<1>13. Placed(P, heap', DOMAIN heap', contacts', None)
  BY <1>8, <1>10, <1>11 DEF Placed
<1>14. \A n \in stay : Parent'[heap'[n].id] = P[n] /\ heap'[n].id = heap[n].id
  BY <1>9, <1>10, <1>11, <1>12, <1>13, ParentPlaced
<1>15. /\ Parent = [j \in IdsOf(heap, Live) |-> Parent[j]]
       /\ \A n \in Live : Parent[heap[n].id] = P[n]
  BY <1>1, <1>2, <1>6, ParentIs
<1>16. Parent' = [j \in IdsOf(heap', stay) |-> Parent'[j]]
  BY <1>11, <1>12, ParentIs
<1>17. Parent' = [j \in IdsOf(heap, stay) |-> Parent[j]]
  <2>1. IdsOf(heap', stay) = IdsOf(heap, stay)
    BY <1>14 DEF IdsOf
  <2>2. ASSUME NEW j \in IdsOf(heap, stay) PROVE Parent'[j] = Parent[j]
    <3>1. PICK n \in stay : j = heap[n].id
      BY DEF IdsOf
    <3> QED BY <1>9, <1>14, <1>15, <3>1
  <2> QED BY <1>16, <2>1, <2>2
<1>18. CASE \E c \in Live : heap[c].id = i
  <2>1. PICK c \in Live : heap[c].id = i
    BY <1>18
  <2>2. Abstract!Within(i) = IdsOf(heap, Inside(heap, c) \cup {c})
    BY <2>1, WithinIs
  <2>3. /\ Live \subseteq stay \cup Inside(heap, c) \cup {c}
        /\ stay \cap (Inside(heap, c) \cup {c}) = {}
    BY <1>1, <1>2, <1>4, <2>1, StayIs
  <2>4. Inside(heap, c) \subseteq Live /\ \A n, p \in Live : heap[n].id = heap[p].id => n = p
    BY <1>1, <1>2, <2>1, InsideGoes DEF Sound
  <2>5. IdsOf(heap, stay) = IdsOf(heap, Live) \ Abstract!Within(i)
    BY <1>9, <2>1, <2>2, <2>3, <2>4 DEF IdsOf
  <2>6. DOMAIN Parent = IdsOf(heap, Live)
    BY <1>15
  <2>7. Parent' = [j \in DOMAIN Parent \ Abstract!Within(i) |-> Parent[j]]
    BY ONLY <1>17, <2>5, <2>6
  <2>8. Abstract!Remove(i)
    BY ONLY <2>7 DEF Abstract!Remove, Abstract!Restrict
  <2>9. i \in Ints
    BY <1>2, <2>1, Pointers
  <2> QED BY <2>8, <2>9 DEF Abstract!Next
<1>19. CASE \A c \in Live : heap[c].id # i
  <2>1. /\ \A n \in Live : Skip(heap, n, i) = n
        /\ Skip(heap, None, i) = None
    BY <1>2, <1>19, SkipIs
  <2>2. \A n \in Live : heap[n].next \in Live \cup {None} /\ heap[n].inner \in Live \cup {None}
    BY <1>2, Pointers
  <2>3. top = contacts /\ \A n \in stay : k[n].next = heap[n].next /\ k[n].inner = heap[n].inner
    BY <1>2, <1>4, <1>9, <2>1, <2>2
  <2>4. Closed(k, stay) /\ top \in stay \cup {None}
    BY <1>9 DEF IsTree
  <2>5. Closed(heap, stay) /\ stay \in SUBSET DOMAIN heap
    BY <1>2, <1>9, <2>3, <2>4 DEF Closed
  <2>6. Live \subseteq stay
    BY <1>2, <2>3, <2>4, <2>5, ReachLeast
  <2>7. stay = Live
    BY <1>9, <2>6
  <2> QED BY <1>15, <1>17, <2>7
<1> QED BY <1>18, <1>19

\* What Link does, when what it joins is all reached.
LinkedTo(U, h, c, i, inner, under, first) ==
  /\ Live' = U \cup {c} /\ contacts' = IF under = None THEN c ELSE first
  /\ heap'[c].id = i /\ heap'[c].next = Old(under, first, h) /\ heap'[c].inner = inner
  /\ \A n \in U : /\ heap'[n].id = h[n].id /\ heap'[n].next = h[n].next
                  /\ heap'[n].inner = IF n = under THEN c ELSE h[n].inner

LEMMA LinkAll ==
  ASSUME NEW h, IsHeap(h), NEW A, NEW first, IsTree(h, A, first), A \subseteq Reach(h, first),
         NEW B, NEW inner, IsTree(h, B, inner), B \subseteq Reach(h, inner), A \cap B = {},
         NEW c \in Nodes \ (A \cup B), NEW i \in Ints, NEW under \in A \cup {None},
         Link(c, i, inner, under, first, h)
  PROVE  TreeInv' /\ LinkedTo(A \cup B, h, c, i, inner, under, first)
<1> DEFINE k == Linked(c, i, inner, under, first, h)
           top == IF under = None THEN c ELSE first
           U == A \cup B \cup {c}
           R == Reach(k, top)
<1>1. IsHeap(k) /\ IsTree(k, U, top)
  BY LinksTree
<1>2. /\ A \subseteq DOMAIN h /\ B \subseteq DOMAIN h /\ first \in A \cup {None} /\ inner \in B \cup {None}
      /\ Closed(h, A) /\ Closed(h, B) /\ None \notin DOMAIN h /\ c # None
  BY NoneIsNoNode, Pointers DEF IsTree
<1>3. inner \in DOMAIN h \cup {None} /\ under \in DOMAIN h \cup {None} /\ first \in DOMAIN h \cup {None} /\ c # under
  BY <1>2
<1>4. Joined(k, c, i, inner, under, first, h)
  BY <1>3, LinkedIs
<1>5. Become(top, k)
  BY LinkBecomes
<1> HIDE DEF k, R
<1>6. TreeInv' /\ Live' = R /\ Live' \subseteq U /\ \A n \in Live' : heap'[n] = k[n]
  BY <1>1, <1>5, BecomesTree DEF R
<1>7. R \subseteq DOMAIN k /\ top \in R \cup {None} /\ Closed(k, R)
  BY <1>1, ReachIs DEF R, IsTree
<1>8. /\ k[c].id = i /\ k[c].next = Old(under, first, h) /\ k[c].inner = inner
      /\ \A n \in A \cup B : /\ n # c /\ k[n].id = h[n].id /\ k[n].next = h[n].next
                             /\ k[n].inner = IF n = under THEN c ELSE h[n].inner
  BY <1>2, <1>4 DEF Joined
<1>9. A \subseteq R
  <2> DEFINE T == A \cap R
  <2>1. first \in T \cup {None}
    <3>1. CASE under = None
      <4>1. c \in R /\ k[c].next = first
        BY <1>2, <1>7, <1>8, <3>1 DEF Old
      <4> QED BY <1>2, <1>7, <4>1 DEF Closed
    <3>2. CASE under # None
      BY <1>2, <1>7, <3>2
    <3> QED BY <3>1, <3>2
  <2>2. ASSUME NEW n \in T PROVE h[n].next \in T \cup {None} /\ h[n].inner \in T \cup {None}
    <3>1. h[n].next \in A \cup {None} /\ h[n].inner \in A \cup {None}
      BY <1>2 DEF Closed
    <3>2. k[n].next \in R \cup {None} /\ k[n].inner \in R \cup {None}
      BY <1>7 DEF Closed
    <3>3. CASE n = under
      <4>1. c \in R /\ k[c].next = h[n].inner
        BY <1>2, <1>8, <3>2, <3>3 DEF Old
      <4> QED BY <1>7, <1>8, <3>1, <3>2, <4>1 DEF Closed
    <3>4. CASE n # under
      BY <1>8, <3>1, <3>2, <3>4
    <3> QED BY <3>3, <3>4
  <2>3. T \in SUBSET DOMAIN h /\ Closed(h, T)
    BY <1>2, <2>2 DEF Closed
  <2> HIDE DEF T
  <2>4. Reach(h, first) \subseteq T
    BY <2>1, <2>3, ReachLeast
  <2> QED BY <2>4 DEF T
<1>10. c \in R
  <2>1. CASE under = None
    BY <1>2, <1>7, <2>1
  <2>2. CASE under # None
    <3>1. under \in R /\ k[under].inner = c
      BY <1>8, <1>9, <2>2
    <3> QED BY <1>2, <1>7, <3>1 DEF Closed
  <2> QED BY <2>1, <2>2
<1>11. B \subseteq R
  <2> DEFINE T == B \cap R
  <2>1. inner \in T \cup {None}
    BY <1>2, <1>7, <1>8, <1>10 DEF Closed
  <2>2. ASSUME NEW n \in T PROVE h[n].next \in T \cup {None} /\ h[n].inner \in T \cup {None}
    <3>1. h[n].next \in B \cup {None} /\ h[n].inner \in B \cup {None}
      BY <1>2 DEF Closed
    <3>2. k[n].next \in R \cup {None} /\ k[n].inner \in R \cup {None}
      BY <1>7 DEF Closed
    <3>3. n # under
      BY <1>2
    <3> QED BY <1>8, <3>1, <3>2, <3>3
  <2>3. T \in SUBSET DOMAIN h /\ Closed(h, T)
    BY <1>2, <2>2 DEF Closed
  <2> HIDE DEF T
  <2>4. Reach(h, inner) \subseteq T
    BY <2>1, <2>3, ReachLeast
  <2> QED BY <2>4 DEF T
<1>12. Live' = A \cup B \cup {c}
  BY <1>6, <1>9, <1>10, <1>11
<1>13. contacts' = top
  BY <1>5 DEF Become
<1>14. heap'[c] = k[c] /\ \A n \in A \cup B : heap'[n] = k[n]
  BY <1>6, <1>12
<1> QED BY <1>6, <1>8, <1>12, <1>13, <1>14 DEF LinkedTo

\* Where c is put.
Under(under, h) == IF under = None THEN None ELSE h[under].id

\* The places when c is put there.
Extends(Q, P, U, c, under, h) == Q = [n \in U \cup {c} |-> IF n = c THEN Under(under, h) ELSE P[n]]

LEMMA LinkPlaced ==
  ASSUME NEW h, IsHeap(h), NEW A, NEW first, IsTree(h, A, first),
         NEW B, NEW inner, IsTree(h, B, inner), A \cap B = {},
         NEW c \in Nodes \ (A \cup B), NEW i, NEW under \in A \cup {None},
         LinkedTo(A \cup B, h, c, i, inner, under, first),
         NEW P, Placed(P, h, A, first, None), Placed(P, h, B, inner, i),
         NEW Q, Extends(Q, P, A \cup B, c, under, h)
  PROVE  Placed(Q, heap', DOMAIN heap', contacts', None)
<1>1. /\ A \subseteq DOMAIN h /\ B \subseteq DOMAIN h /\ first \in A \cup {None} /\ inner \in B \cup {None}
      /\ Closed(h, A) /\ Closed(h, B) /\ None \notin DOMAIN h /\ c # None /\ c \notin A \cup B
  BY NoneIsNoNode, Pointers DEF IsTree
<1>2. /\ DOMAIN heap' = A \cup B \cup {c} /\ contacts' = IF under = None THEN c ELSE first
      /\ heap'[c].id = i /\ heap'[c].next = Old(under, first, h) /\ heap'[c].inner = inner
      /\ \A n \in A \cup B : /\ heap'[n].id = h[n].id /\ heap'[n].next = h[n].next
                             /\ heap'[n].inner = IF n = under THEN c ELSE h[n].inner
  BY DEF LinkedTo, Live
<1>3. Q[c] = Under(under, h) /\ \A n \in A \cup B : Q[n] = P[n]
  BY <1>1 DEF Extends
<1>4. ASSUME contacts' # None PROVE Q[contacts'] = None
  <2>1. CASE under = None
    BY <1>2, <1>3, <2>1 DEF Under
  <2>2. CASE under # None
    <3>1. contacts' = first /\ first \in A
      BY <1>1, <1>2, <1>4, <2>2
    <3> QED BY <1>1, <1>3, <3>1 DEF Placed
  <2> QED BY <2>1, <2>2
<1>5. ASSUME heap'[c].next # None PROVE Q[heap'[c].next] = Q[c]
  <2>1. CASE under = None
    <3>1. heap'[c].next = first /\ first \in A
      BY <1>1, <1>2, <1>5, <2>1 DEF Old
    <3>2. P[first] = None
      BY <1>1, <3>1 DEF Placed
    <3> QED BY <1>3, <2>1, <3>1, <3>2 DEF Under
  <2>2. CASE under # None
    <3>1. under \in A /\ heap'[c].next = h[under].inner /\ h[under].inner \in A
      BY <1>1, <1>2, <1>5, <2>2 DEF Old, Closed
    <3>2. P[h[under].inner] = h[under].id
      BY <1>1, <3>1 DEF Placed
    <3> QED BY <1>3, <2>2, <3>1, <3>2 DEF Under
  <2> QED BY <2>1, <2>2
<1>6. ASSUME heap'[c].inner # None PROVE Q[heap'[c].inner] = heap'[c].id
  <2>1. heap'[c].inner = inner /\ inner \in B
    BY <1>1, <1>2, <1>6
  <2>2. P[inner] = i
    BY <1>1, <2>1 DEF Placed
  <2> QED BY <1>2, <1>3, <2>1, <2>2
<1>7. ASSUME NEW n \in A \cup B, heap'[n].next # None PROVE Q[heap'[n].next] = Q[n]
  <2>1. heap'[n].next = h[n].next /\ h[n].next \in A \cup B
    BY <1>1, <1>2, <1>7 DEF Closed
  <2>2. P[h[n].next] = P[n]
    BY <1>1, <1>7, <2>1 DEF Placed
  <2> QED BY <1>3, <2>1, <2>2
<1>8. ASSUME NEW n \in A \cup B, heap'[n].inner # None PROVE Q[heap'[n].inner] = heap'[n].id
  <2>1. CASE n = under
    <3>1. heap'[n].inner = c /\ heap'[n].id = h[under].id /\ under # None
      BY <1>1, <1>2, <2>1
    <3> QED BY <1>3, <3>1 DEF Under
  <2>2. CASE n # under
    <3>1. heap'[n].inner = h[n].inner /\ h[n].inner \in A \cup B /\ heap'[n].id = h[n].id
      BY <1>1, <1>2, <1>8, <2>2 DEF Closed
    <3>2. P[h[n].inner] = h[n].id
      BY <1>1, <1>8, <3>1 DEF Placed
    <3> QED BY <1>3, <3>1, <3>2
  <2> QED BY <2>1, <2>2
<1> QED BY <1>2, <1>4, <1>5, <1>6, <1>7, <1>8 DEF Placed

\* What the request joins is the present tree but for c, with its ids and places.
Joins(h, A, first, B, inner, c, i, under, P) ==
  /\ IsHeap(h) /\ IsTree(h, A, first) /\ IsTree(h, B, inner) /\ A \cap B = {}
  /\ A \subseteq Reach(h, first) /\ B \subseteq Reach(h, inner)
  /\ c \in Nodes \ (A \cup B) /\ i \in Ints /\ under \in A \cup {None}
  /\ Link(c, i, inner, under, first, h)
  /\ A \cup B = Live \ {c} /\ (c \in Live => heap[c].id = i)
  /\ \A n \in A \cup B : h[n].id = heap[n].id
  /\ P = [n \in DOMAIN heap |-> Place(heap, n)]
  /\ Placed(P, h, A, first, None) /\ Placed(P, h, B, inner, i)

LEMMA LinkMaps ==
  ASSUME TreeInv, UniqueInv, UniqueInv',
         NEW h, NEW A, NEW first, NEW B, NEW inner, NEW c, NEW i, NEW under, NEW P,
         Joins(h, A, first, B, inner, c, i, under, P)
  PROVE  /\ Parent' = [j \in DOMAIN Parent \cup {i} |-> IF j = i THEN Under(under, heap) ELSE Parent[j]]
         /\ Under(under, heap) \in DOMAIN Parent \cup {None}
<1>1. /\ IsHeap(h) /\ IsTree(h, A, first) /\ IsTree(h, B, inner) /\ A \cap B = {}
      /\ A \subseteq Reach(h, first) /\ B \subseteq Reach(h, inner)
      /\ c \in Nodes \ (A \cup B) /\ i \in Ints /\ under \in A \cup {None}
      /\ Link(c, i, inner, under, first, h)
      /\ Placed(P, h, A, first, None) /\ Placed(P, h, B, inner, i)
  BY DEF Joins
<1>2. /\ A \cup B = Live \ {c} /\ (c \in Live => heap[c].id = i)
      /\ \A n \in A \cup B : h[n].id = heap[n].id
      /\ P = [n \in Live |-> Place(heap, n)]
  BY DEF Joins, Live
<1>3. TreeInv' /\ LinkedTo(A \cup B, h, c, i, inner, under, first)
  BY <1>1, LinkAll
<1>4. /\ Sound(heap, contacts) /\ Parent = ParentOf(heap, contacts)
      /\ Sound(heap', contacts') /\ Parent' = ParentOf(heap', contacts')
  BY <1>3, SoundNow, SoundNext
<1>5. PICK Q : Extends(Q, P, A \cup B, c, under, h)
  BY DEF Extends
<1>6. Placed(Q, heap', DOMAIN heap', contacts', None)
  BY <1>1, <1>3, <1>5, LinkPlaced
<1>7. /\ DOMAIN heap' = A \cup B \cup {c} /\ heap'[c].id = i
      /\ \A n \in A \cup B : heap'[n].id = heap[n].id
  BY <1>2, <1>3 DEF LinkedTo, Live
<1>8. \A n \in DOMAIN heap' : Parent'[heap'[n].id] = Q[n]
  BY <1>4, <1>6, ParentPlaced
<1>9. /\ DOMAIN Parent = IdsOf(heap, Live)
      /\ \A n \in Live : Parent[heap[n].id] = P[n]
  BY <1>2, <1>4, ParentIs DEF Live
<1>10. Parent' = [j \in IdsOf(heap', DOMAIN heap') |-> Parent'[j]]
  BY <1>4, ParentIs
<1>11. IdsOf(heap', DOMAIN heap') = DOMAIN Parent \cup {i}
  BY <1>2, <1>7, <1>9 DEF IdsOf
<1>12. under \in Live \cup {None}
  BY <1>1, <1>2
<1>13. Under(under, heap) = Under(under, h) /\ Under(under, heap) \in DOMAIN Parent \cup {None}
  BY <1>1, <1>2, <1>9, <1>12 DEF Under, IdsOf
<1>14. ASSUME NEW n \in A \cup B PROVE Parent'[heap[n].id] = Parent[heap[n].id] /\ heap[n].id # i
  <2>1. n \in DOMAIN heap' /\ n # c /\ n \in Live /\ c \in DOMAIN heap'
    BY <1>1, <1>2, <1>7
  <2>2. heap'[n].id # heap'[c].id
    BY <2>1 DEF UniqueInv, Live
  <2>3. Q[n] = P[n]
    BY <1>5, <2>1 DEF Extends
  <2> QED BY <1>7, <1>8, <1>9, <2>1, <2>2, <2>3
<1>15. Parent'[i] = Under(under, heap)
  <2>1. Q[c] = Under(under, h)
    BY <1>5 DEF Extends
  <2> QED BY <1>7, <1>8, <1>13, <2>1
<1>16. ASSUME NEW j \in DOMAIN Parent \cup {i}
       PROVE  Parent'[j] = IF j = i THEN Under(under, heap) ELSE Parent[j]
  <2>1. CASE j = i
    BY <1>15, <2>1
  <2>2. CASE j # i
    <3>1. PICK n \in Live : j = heap[n].id
      BY <1>9, <2>2 DEF IdsOf
    <3>2. n \in A \cup B
      BY <1>2, <2>2, <3>1
    <3> QED BY <1>14, <2>2, <3>1, <3>2
  <2> QED BY <2>1, <2>2
<1> QED BY <1>10, <1>11, <1>13, <1>16

\* A new contact.
LEMMA NewMaps ==
  ASSUME TreeInv, UniqueInv, UniqueInv', NEW c \in Nodes \ Live, NEW i \in Ints,
         NEW under \in Live \cup {None}, Link(c, i, None, under, contacts, heap),
         \A n \in Live : heap[n].id # i
  PROVE  Abstract!Next
<1>1. /\ IsHeap(heap) /\ IsTree(heap, Live, contacts) /\ Live \subseteq Reach(heap, contacts)
      /\ Live = DOMAIN heap
  BY DEF TreeInv, Live
<1>2. None \notin Ints
  BY ContactsAssumption
<1>3. PICK B : B = {}
  OBVIOUS
<1>4. PICK P : P = [n \in DOMAIN heap |-> Place(heap, n)]
  OBVIOUS
<1>5. Placed(P, heap, Live, contacts, None) /\ Placed(P, heap, B, None, i)
  <2>1. IsTree(heap, DOMAIN heap, contacts)
    BY <1>1
  <2>2. Placed(P, heap, DOMAIN heap, contacts, None)
    BY <1>1, <1>4, <2>1, PlaceIs
  <2>3. Placed(P, heap, B, None, i)
    BY <1>3 DEF Placed
  <2> QED BY <1>1, <2>2, <2>3
<1>6. IsTree(heap, B, None) /\ B \subseteq Reach(heap, None)
  BY <1>3, EmptyTree
<1>7. Joins(heap, Live, contacts, B, None, c, i, under, P)
  BY <1>1, <1>2, <1>3, <1>4, <1>5, <1>6 DEF Joins
<1>8. /\ Parent' = [j \in DOMAIN Parent \cup {i} |-> IF j = i THEN Under(under, heap) ELSE Parent[j]]
      /\ Under(under, heap) \in DOMAIN Parent \cup {None}
  BY <1>7, LinkMaps
<1>9. Abstract!Within(i) = {i}
  BY <1>2, WithinNone
<1>10. Under(under, heap) # i
  BY <1>2 DEF Under
<1>11. Abstract!Put(i, Under(under, heap))
  BY <1>8, <1>9, <1>10 DEF Abstract!Put
<1> QED BY <1>8, <1>11 DEF Abstract!Next

LEMMA CreateMaps ==
  ASSUME TreeInv, UniqueInv, UniqueInv', NEW m \in Ids \cup {-1}, NEW place, Create(m, place)
  PROVE  Abstract!Next
<1> DEFINE under == IF place \in {Absent, Junk} THEN None ELSE GetContact(heap, contacts, place)
<1>1. /\ IsHeap(heap) /\ Acyclic(heap, DOMAIN heap) /\ contacts \in DOMAIN heap \cup {None}
      /\ Live \subseteq Reach(heap, contacts) /\ Reach(heap, contacts) \subseteq DOMAIN heap
      /\ None \notin DOMAIN heap /\ Live = DOMAIN heap
  BY ReachIs, Pointers DEF TreeInv, IsTree, Live
<1>2. PICK c \in Nodes \ Live : Link(c, Chosen(m), None, under, contacts, heap)
  BY DEF Create
<1>3. Chosen(m) \in Ints /\ GetContact(heap, contacts, Chosen(m)) = None
  BY ChosenIs DEF Create
<1>4. PICK i \in Ints : i = Chosen(m)
  BY <1>3
<1>5. under \in Live \cup {None}
  <2>1. GetContact(heap, contacts, place) \in DOMAIN heap \cup {None}
    BY <1>1, GetContactIs
  <2> QED BY <1>1, <2>1
<1>6. \A n \in Live : heap[n].id # i
  <2>1. GetContact(heap, contacts, i) = None
    BY <1>3, <1>4
  <2>2. \A n \in Reach(heap, contacts) : heap[n].id # i
    BY <1>1, <2>1, GetContactIs
  <2> QED BY <1>1, <2>2
<1> HIDE DEF under
<1> QED BY <1>2, <1>4, <1>5, <1>6, NewMaps

LEMMA ReverseMaps ==
  ASSUME TreeInv, UniqueInv, UniqueInv', HasRoom, Reverse
  PROVE  Abstract!Next
<1>1. PICK i \in Ints : i = GetNewId(heap, contacts)
  BY ChosenIs
<1>2. PICK c \in Nodes \ Live : Link(c, i, None, None, contacts, heap)
  BY <1>1 DEF Reverse
<1>3. \A n \in Live : heap[n].id # i
  BY <1>1, FreshIds DEF NewIdFresh
<1> QED BY <1>2, <1>3, NewMaps

LEMMA MoveMaps ==
  ASSUME TreeInv, UniqueInv, UniqueInv', NEW m, NEW place, Move(m, place)
  PROVE  Abstract!Next
<1>1. PICK c, k, A, B, under : Moved(c, k, A, B, under)
  BY MoveIs
<1>2. PICK i : i = heap[c].id
  OBVIOUS
<1>3. PICK inner : inner = heap[c].inner
  OBVIOUS
<1>4. PICK top : top = Skip(heap, contacts, i)
  OBVIOUS
<1>5. /\ c \in Live /\ Deleted(heap, i, k, top, A) /\ B \subseteq Live
      /\ A = Stay(heap, contacts, i) /\ B = Inside(heap, c)
      /\ c \in Nodes \ (A \cup B) /\ A \cap B = {} /\ IsTree(k, B, inner) /\ \A n \in B : k[n] = heap[n]
      /\ under \in A \cup {None} /\ Link(c, i, inner, under, top, k)
  BY <1>1, <1>2, <1>3, <1>4 DEF Moved
<1>6. /\ DOMAIN k = Live /\ IsHeap(k) /\ IsTree(k, A, top) /\ A = Reach(k, top)
      /\ \A n \in Live : k[n].id = heap[n].id
  BY <1>5 DEF Deleted, Live
<1>7. /\ Sound(heap, contacts) /\ IsHeap(heap) /\ IsTree(heap, DOMAIN heap, contacts) /\ Live = DOMAIN heap
      /\ \A n, p \in Live : heap[n].id = heap[p].id => n = p
      /\ \A n \in Live : heap[n].id \in Ints /\ heap[n].inner \in Live \cup {None}
      /\ None \notin Live
  BY SoundNow, Pointers DEF Sound, Live
<1>8. /\ Live \subseteq A \cup B \cup {c} /\ A \subseteq Live
  BY <1>2, <1>5, <1>7, StayIs
<1>9. PICK P : P = [n \in DOMAIN heap |-> Place(heap, n)]
  OBVIOUS
<1>10. Placed(P, heap, DOMAIN heap, contacts, None)
  BY <1>7, <1>9, PlaceIs
<1>11. Placed(P, k, A, top, None)
  BY <1>4, <1>5, <1>7, <1>10, StayPlaced
<1>12. Placed(P, k, B, inner, i)
  BY <1>2, <1>3, <1>5, <1>7, <1>10 DEF Placed
<1>13. B \subseteq Reach(k, inner)
  <2>1. inner \in B \cup {None} /\ Closed(k, B) /\ inner \in DOMAIN k \cup {None}
    BY <1>5, <1>6 DEF IsTree
  <2>2. inner \in Reach(k, inner) \cup {None} /\ Closed(k, Reach(k, inner))
    BY <1>6, <2>1, ReachIs
  <2> DEFINE T == B \cap Reach(k, inner)
  <2>3. inner \in T \cup {None} /\ T \in SUBSET DOMAIN heap
    BY <1>5, <1>7, <2>1, <2>2
  <2>4. Closed(heap, T)
    BY <1>5, <2>1, <2>2 DEF Closed
  <2> HIDE DEF T
  <2>5. Reach(heap, inner) \subseteq T
    BY <2>3, <2>4, ReachLeast
  <2> QED BY <1>3, <1>5, <2>5 DEF T, Inside
<1>14. i \in Ints
  BY <1>2, <1>5, <1>7
<1>15. Joins(k, A, top, B, inner, c, i, under, P)
  BY <1>2, <1>5, <1>6, <1>8, <1>9, <1>11, <1>12, <1>13, <1>14 DEF Joins
<1>16. /\ Parent' = [j \in DOMAIN Parent \cup {i} |-> IF j = i THEN Under(under, heap) ELSE Parent[j]]
       /\ Under(under, heap) \in DOMAIN Parent \cup {None}
  BY <1>15, LinkMaps
<1>17. Abstract!Within(i) = IdsOf(heap, B \cup {c})
  BY <1>2, <1>5, WithinIs
<1>18. Under(under, heap) \notin IdsOf(heap, B \cup {c})
  <2>1. CASE under = None
    BY <1>5, <1>7, <2>1, ContactsAssumption DEF Under, IdsOf
  <2>2. CASE under # None
    BY <1>5, <1>7, <1>8, <2>2 DEF Under, IdsOf
  <2> QED BY <2>1, <2>2
<1>19. Abstract!Put(i, Under(under, heap))
  BY <1>16, <1>17, <1>18 DEF Abstract!Put
<1> QED BY <1>14, <1>16, <1>19 DEF Abstract!Next

LEMMA StepMaps ==
  TreeInv /\ UniqueInv /\ HasRoom /\ UniqueInv' /\ [Next]_vars => [Abstract!Next]_Parent
<1> SUFFICES ASSUME TreeInv, UniqueInv, HasRoom, UniqueInv', [Next]_vars
             PROVE  [Abstract!Next]_Parent
  OBVIOUS
<1>1. ASSUME NEW m, Delete(m) PROVE [Abstract!Next]_Parent
  BY <1>1, DeleteMaps
<1>2. ASSUME NEW m \in Ids \cup {-1}, NEW place, Create(m, place) PROVE [Abstract!Next]_Parent
  BY <1>2, CreateMaps
<1>3. ASSUME NEW m, NEW place, Move(m, place) PROVE [Abstract!Next]_Parent
  BY <1>3, MoveMaps
<1>4. CASE Reverse
  BY <1>4, ReverseMaps
<1>5. CASE UNCHANGED vars
  BY <1>5 DEF vars, Parent, Live
<1> QED BY <1>1, <1>2, <1>3, <1>4, <1>5 DEF Next

LEMMA InitMaps == Init => Abstract!Init
<1> SUFFICES ASSUME Init PROVE Parent = <<>>
  BY DEF Abstract!Init
<1>1. Live = {}
  BY DEF Init, Live
<1>2. Parent = [i \in {} |-> Place(heap, GetContact(heap, contacts, i))]
  BY <1>1 DEF Parent
<1> QED BY <1>2

\* Every request does to the owner's tree what it asks (processContact), as long as ids lead to
\* their contacts and leave room for those that processContactReverse makes.
THEOREM ContactsImplementTree == Spec => ImplementsTree
<1>1. TreeInv /\ [Next]_vars => [FoundById /\ HasRoom => Abstract!Next]_Parent
  <2> SUFFICES ASSUME TreeInv, [Next]_vars, FoundById, HasRoom PROVE [Abstract!Next]_Parent
    OBVIOUS
  <2>1. UniqueInv /\ UniqueInv'
    BY FoundUnique, StepUniqueInv
  <2> QED BY <2>1, StepMaps
<1> QED BY <1>1, InitMaps, TreeInvariant, PTL DEF Spec, ImplementsTree
=============================================================================

--------------------------- MODULE CountersProofs ---------------------------
(***************************************************************************)
(* Proofs about Counters, for any clients and any lengths of the rings.    *)
(***************************************************************************)
EXTENDS Counters, FiniteSetTheorems, WellFoundedInduction, TLAPS

HourRing == 0..(Hours - 1)
DayRing == 0..(Days - 1)

Rings == [bytes : [HourRing -> Nat], clients : [HourRing -> Nat],
          dayBytes : [DayRing -> Nat], dayClients : [DayRing -> Nat]]

Types ==
  /\ clock \in Nat /\ currentPos \in Nat
  /\ counterData \in Rings /\ countersFile.data \in Rings
  /\ stored \subseteq Clients
  /\ astray \in BOOLEAN
  /\ status \in {"up", "ending", "down"}

\* Nobody is connected to a server that is down.
NobodyWhenDown == ~Up => stored = {}

IInv == Types /\ NobodyWhenDown /\ ClientsExact

(***************************************************************************)
(* Positions, and the sizes of sets of clients.                            *)
(***************************************************************************)
LEMMA Positions == \A t \in Nat : Hour(t) \in HourRing /\ Day(t) \in DayRing
  BY CountersAssumption DEF Hour, Day, HourRing, DayRing

LEMMA SameDaySamePosition == \A t, u \in Nat : SameDay(t, u) => Day(t) = Day(u)
  BY DEF SameDay, Day

LEMMA Sizes ==
  ASSUME NEW S \in SUBSET Clients
  PROVE  /\ Cardinality(S) \in Nat
         /\ \A c \in Clients \ S : Cardinality(S \cup {c}) = Cardinality(S) + 1
         /\ \A c \in S : Cardinality(S \ {c}) = Cardinality(S) - 1 /\ Cardinality(S) > 0
<1>1. IsFiniteSet(S)
  BY CountersAssumption, FS_Subset
<1>2. Cardinality(S) \in Nat
  BY <1>1, FS_CardinalityType
<1>3. \A c \in Clients \ S : Cardinality(S \cup {c}) = Cardinality(S) + 1
  BY <1>1, FS_AddElement
<1>4. ASSUME NEW c \in S PROVE Cardinality(S \ {c}) = Cardinality(S) - 1 /\ Cardinality(S) > 0
  <2>1. IsFiniteSet(S \ {c}) /\ Cardinality(S \ {c}) = Cardinality(S) - 1
    BY <1>1, FS_RemoveElement
  <2>2. Cardinality(S \ {c}) \in Nat
    BY <2>1, FS_CardinalityType
  <2> QED BY <1>2, <2>1, <2>2
<1> QED BY <1>2, <1>3, <1>4

LEMMA InitIInv == Init => IInv
<1> SUFFICES ASSUME Init PROVE IInv
  OBVIOUS
<1>1. counterData \in Rings
  BY CountersAssumption DEF Init, Rings, HourRing, DayRing
<1>2. Types /\ NobodyWhenDown
  BY <1>1 DEF Init, Types, NobodyWhenDown, Up
<1>3. ClientsExact
  BY Positions, FS_EmptySet DEF Init, ClientsExact, HourRing, DayRing
<1> QED BY <1>2, <1>3 DEF IInv

(***************************************************************************)
(* Every step preserves the invariant.                                     *)
(***************************************************************************)
LEMMA StoreStep ==
  ASSUME IInv, NEW c \in Clients, StoreClient(c)
  PROVE  IInv'
<1> DEFINE h == Hour(currentPos)
           d == Day(currentPos)
           count == counterData.clients[h] + 1
<1> USE DEF IInv
<1>1. h \in HourRing /\ d \in DayRing
  BY Positions DEF Types
<1>2. count \in Nat /\ counterData.dayClients[d] \in Nat
  BY <1>1 DEF Types, Rings
<1>3. counterData' = [counterData EXCEPT !.clients[h] = count,
                                         !.dayClients[d] = IF @ < count THEN count ELSE @]
  BY DEF StoreClient, UpdateCounterClient
<1> HIDE DEF count, h, d
<1>4. /\ counterData' \in Rings /\ counterData'.clients[h] = count
      /\ counterData'.dayClients[d] >= count
  <2> DEFINE ring == [counterData.clients EXCEPT ![h] = count]
             top == IF counterData.dayClients[d] < count THEN count ELSE counterData.dayClients[d]
             days == [counterData.dayClients EXCEPT ![d] = top]
  <2>1. top \in Nat /\ top >= count
    BY <1>2
  <2>2. counterData' = [counterData EXCEPT !.clients = ring, !.dayClients = days]
    BY <1>3
  <2> HIDE DEF top
  <2>3. /\ ring \in [HourRing -> Nat] /\ ring[h] = count
        /\ days \in [DayRing -> Nat] /\ days[d] = top
    BY <1>1, <1>2, <2>1 DEF Types, Rings
  <2> HIDE DEF ring, days
  <2> QED BY <2>1, <2>2, <2>3 DEF Types, Rings
<1>5. Types' /\ NobodyWhenDown'
  BY <1>4 DEF StoreClient, Types, NobodyWhenDown, Up
<1>6. stored' = stored \cup {c} /\ c \notin stored /\ UNCHANGED <<currentPos, astray, status>>
  BY DEF StoreClient
<1>7. Cardinality(stored') = Cardinality(stored) + 1 /\ Cardinality(stored) \in Nat
  BY <1>6, Sizes DEF Types
<1>8. ClientsExact'
  BY <1>4, <1>6, <1>7 DEF ClientsExact, Up, h, d, count
<1> QED BY <1>5, <1>8

LEMMA RemoveStep ==
  ASSUME IInv, NEW c \in Clients, RemoveClient(c)
  PROVE  IInv'
<1> DEFINE h == Hour(currentPos)
           count == counterData.clients[h]
<1> USE DEF IInv
<1>1. h \in HourRing /\ Day(currentPos) \in DayRing
  BY Positions DEF Types
<1>2. count \in Nat
  BY <1>1 DEF Types, Rings
<1>3. counterData' = [counterData EXCEPT !.clients[h] = IF @ > 0 THEN @ - 1 ELSE @]
  BY DEF RemoveClient, UpdateCounterClient
<1> HIDE DEF h
<1>4. /\ counterData' \in Rings /\ counterData'.dayClients = counterData.dayClients
      /\ counterData'.clients[h] = IF count > 0 THEN count - 1 ELSE count
  BY <1>1, <1>2, <1>3 DEF Types, Rings
<1>5. Types' /\ NobodyWhenDown'
  BY <1>4 DEF RemoveClient, Types, NobodyWhenDown, Up
<1>6. stored' = stored \ {c} /\ c \in stored /\ UNCHANGED <<currentPos, astray, status>>
  BY DEF RemoveClient
<1>7. /\ Cardinality(stored') = Cardinality(stored) - 1 /\ Cardinality(stored) \in Nat
      /\ Cardinality(stored) > 0 /\ counterData.dayClients[Day(currentPos)] \in Nat
  BY <1>1, <1>6, Sizes DEF Types, Rings
<1>8. ClientsExact'
  BY <1>2, <1>4, <1>6, <1>7 DEF ClientsExact, Up, h
<1> QED BY <1>5, <1>8

LEMMA AddStep ==
  ASSUME IInv, NEW bytes \in Amounts, AddCounter(bytes)
  PROVE  IInv'
<1> USE DEF IInv
<1>1. Hour(currentPos) \in HourRing /\ Day(currentPos) \in DayRing /\ bytes \in Nat
  BY Positions, CountersAssumption DEF Types
<1>2. /\ counterData' \in Rings /\ counterData'.clients = counterData.clients
      /\ counterData'.dayClients = counterData.dayClients
  <2> DEFINE ring == [counterData.bytes EXCEPT ![Hour(currentPos)] = @ + bytes]
             days == [counterData.dayBytes EXCEPT ![Day(currentPos)] = @ + bytes]
  <2>1. counterData' = [counterData EXCEPT !.bytes = ring, !.dayBytes = days]
    BY DEF AddCounter
  <2>2. ring \in [HourRing -> Nat] /\ days \in [DayRing -> Nat]
    BY <1>1 DEF Types, Rings
  <2> HIDE DEF ring, days
  <2> QED BY <2>1, <2>2 DEF Types, Rings
<1> QED BY <1>2 DEF AddCounter, Types, NobodyWhenDown, ClientsExact, Up

\* The number of clients goes along to the new hour.
LEMMA SwiftStep ==
  ASSUME IInv, SwiftCounter
  PROVE  IInv'
<1> USE DEF IInv
<1>1. PICK turn \in 1..5 :
       LET now == clock
           at(i) == IF i < turn THEN now ELSE now + 1
           bytes == [counterData EXCEPT !.bytes[Hour(at(1))] = 0]
           clients == [bytes EXCEPT !.clients[Hour(at(2))] = bytes.clients[Hour(currentPos)]]
       IN /\ clock' = at(5)
          /\ counterData' =
               IF SameDay(now, currentPos) THEN clients
               ELSE [clients EXCEPT !.dayBytes[Day(at(3))] = 0,
                                    !.dayClients[Day(at(4))] = clients.clients[Hour(currentPos)]]
          /\ currentPos' = now
          /\ astray' = (astray \/ turn < 5)
          /\ SaveCounters(counterData', currentPos')
  BY DEF SwiftCounter
<1> DEFINE at(i) == IF i < turn THEN clock ELSE clock + 1
           h == Hour(currentPos)
           h1 == Hour(at(1))
           h2 == Hour(at(2))
           d3 == Day(at(3))
           d4 == Day(at(4))
           bytes == [counterData EXCEPT !.bytes[h1] = 0]
           clients == [bytes EXCEPT !.clients[h2] = bytes.clients[h]]
<1>2. /\ h \in HourRing /\ h1 \in HourRing /\ h2 \in HourRing
      /\ d3 \in DayRing /\ d4 \in DayRing /\ clock' \in Nat
  BY <1>1, Positions DEF Types
<1>3. turn = 5 => h2 = Hour(clock) /\ d4 = Day(clock)
  OBVIOUS
<1>4. counterData' = IF SameDay(clock, currentPos) THEN clients
                     ELSE [clients EXCEPT !.dayBytes[d3] = 0, !.dayClients[d4] = clients.clients[h]]
  BY <1>1
<1> HIDE DEF h, h1, h2, d3, d4
<1>5. /\ clients \in Rings /\ clients.clients[h2] = counterData.clients[h]
      /\ clients.clients[h] \in Nat /\ clients.dayClients = counterData.dayClients
      /\ clients.clients[h] = counterData.clients[h]
  BY <1>2 DEF Types, Rings
<1> HIDE DEF clients, bytes
<1>6. /\ counterData' \in Rings /\ counterData'.clients[h2] = counterData.clients[h]
      /\ IF SameDay(clock, currentPos) THEN counterData'.dayClients = counterData.dayClients
                                       ELSE counterData'.dayClients[d4] = counterData.clients[h]
  BY <1>2, <1>4, <1>5 DEF Rings
<1>7. countersFile'.data \in Rings
  BY <1>1, <1>6 DEF SaveCounters, Types
<1>8. currentPos' = clock /\ astray' = (astray \/ turn < 5) /\ Up /\ UNCHANGED <<stored, status>>
  BY <1>1 DEF SwiftCounter
<1>9. Types' /\ NobodyWhenDown'
  BY <1>2, <1>6, <1>7, <1>8 DEF Types, NobodyWhenDown, Up
<1>10. ClientsExact'
  <2> SUFFICES ASSUME ~astray, turn = 5
               PROVE  /\ counterData'.clients[Hour(clock)] = Cardinality(stored)
                      /\ counterData'.dayClients[Day(clock)] >= Cardinality(stored)
    <3>1. ~astray' => ~astray /\ turn = 5
      <4>1. ~astray' => ~astray /\ ~(turn < 5)
        BY <1>8, Zenon
      <4>2. ~(turn < 5) => turn = 5
        OBVIOUS
      <4> QED BY <4>1, <4>2
    <3> QED BY <1>8, <3>1 DEF ClientsExact
  <2>1. counterData.clients[h] = Cardinality(stored)
        /\ counterData.dayClients[Day(currentPos)] >= Cardinality(stored)
        /\ Cardinality(stored) \in Nat
    BY <1>8, Sizes DEF ClientsExact, Types, h
  <2>2. SameDay(clock, currentPos) => Day(clock) = Day(currentPos)
    BY SameDaySamePosition DEF Types
  <2> QED BY <1>3, <1>6, <2>1, <2>2
<1> QED BY <1>9, <1>10

LEMMA LoadStep ==
  ASSUME IInv, LoadCounters
  PROVE  IInv'
<1> USE DEF IInv
<1>1. Hour(clock) \in HourRing /\ Day(clock) \in DayRing
  BY Positions DEF Types
<1>2. /\ counterData' \in Rings /\ counterData'.clients[Hour(clock)] = 0
      /\ counterData'.dayClients[Day(clock)] \in Nat
  BY <1>1 DEF LoadCounters, Types, Rings
<1>3. stored' = {} /\ currentPos' = clock
  BY DEF LoadCounters, NobodyWhenDown, Up
<1>4. Types' /\ NobodyWhenDown'
  BY <1>2, <1>3 DEF LoadCounters, Types, NobodyWhenDown
<1>5. ClientsExact'
  BY <1>2, <1>3, FS_EmptySet DEF ClientsExact
<1> QED BY <1>4, <1>5

LEMMA StepIInv == IInv /\ [Next]_vars => IInv'
<1> SUFFICES ASSUME IInv, [Next]_vars PROVE IInv'
  OBVIOUS
<1>1. CASE Tick
  BY <1>1 DEF Tick, IInv, Types, NobodyWhenDown, ClientsExact, Up
<1>2. CASE Signal
  BY <1>2 DEF Signal, SaveCounters, IInv, Types, NobodyWhenDown, ClientsExact, Up
<1>3. CASE Exit
  BY <1>3 DEF Exit, IInv, Types, NobodyWhenDown, ClientsExact, Up
<1>4. CASE UNCHANGED vars
  BY <1>4 DEF vars, IInv, Types, NobodyWhenDown, ClientsExact, Up
<1> QED BY <1>1, <1>2, <1>3, <1>4, StoreStep, RemoveStep, AddStep, SwiftStep, LoadStep DEF Next

\* The invariant holds in every state, before and after any crash.
THEOREM CountersInvariant == Spec => []IInv
  BY InitIInv, StepIInv, PTL DEF Spec

\* The statistics show the clients that are connected, whatever hours and days pass.
THEOREM ClientsAreExact == Spec => []ClientsExact
<1>1. IInv => ClientsExact
  BY DEF IInv
<1> QED BY <1>1, CountersInvariant, PTL

(***************************************************************************)
(* Sums.  FoldLeft is a recursive function on the sets of positions; that  *)
(* it exists, and what it is, is shown by induction.                       *)
(***************************************************************************)
LEMMA Induction ==
  ASSUME NEW T, 0 \in T, \A n \in Nat : n \in T => n + 1 \in T
  PROVE  Nat \subseteq T
<1> DEFINE R == {p \in Nat \X Nat : p[1] < p[2]}
           U == Nat \ T
<1>1. \A i, j \in Nat : i < j => <<i, j>> \in R
  OBVIOUS
<1>2. IsWellFoundedOn(R, Nat)
  BY NatLessThanWellFounded DEF OpToRel
<1> HIDE DEF R
<1> SUFFICES ASSUME U # {} PROVE FALSE
  OBVIOUS
<1>3. PICK n \in U : \A m \in U : ~ (<<m, n>> \in R)
  BY <1>2, WFMin
<1>4. n \in Nat \ {0} /\ n - 1 \in Nat /\ n - 1 < n
  OBVIOUS
<1>5. n - 1 \in T
  BY <1>1, <1>3, <1>4
<1> QED BY <1>4, <1>5

\* The sums of the finite sets of positions that FoldLeft goes down by.
Sums(it, seq, n) ==
  it = [s \in SUBSET (1..n) |-> IF s = {} THEN 0 ELSE it[s \ {Max(s)}] + seq[Max(s)]]

Total(seq) == FoldLeft(+, 0, seq)

LEMMA TotalIsSums ==
  ASSUME NEW n \in Nat, NEW seq, DOMAIN seq = 1..n
  PROVE  Total(seq) = (CHOOSE it : Sums(it, seq, n))[1..n]
BY DEF Total, FoldLeft, MapThenFoldSet, Sums

LEMMA MaxTop ==
  ASSUME NEW n \in Nat, NEW s \in SUBSET (1..n), n \in s
  PROVE  Max(s) = n
<1>1. \A y \in s : n >= y
  OBVIOUS
<1>2. \A x \in s : (\A y \in s : x >= y) => x = n
  OBVIOUS
<1> QED BY <1>1, <1>2 DEF Max

LEMMA NoSum ==
  ASSUME NEW n \in Nat, NEW seq, NEW it, Sums(it, seq, n)
  PROVE  it[1..0] = 0
<1>1. 1..0 \in SUBSET (1..n) /\ 1..0 = {}
  OBVIOUS
<1> QED BY <1>1 DEF Sums

Climbs(it, seq, n) == \A k \in Nat : k < n => it[1..(k + 1)] = it[1..k] + seq[k + 1]

LEMMA TopSum ==
  ASSUME NEW n \in Nat, NEW seq, NEW it, Sums(it, seq, n)
  PROVE  Climbs(it, seq, n)
<1> SUFFICES ASSUME NEW k \in Nat, k < n PROVE it[1..(k + 1)] = it[1..k] + seq[k + 1]
  BY DEF Climbs
<1>1. /\ 1..(k + 1) \in SUBSET (1..n) /\ 1..(k + 1) # {}
      /\ k + 1 \in 1..(k + 1) /\ (1..(k + 1)) \ {k + 1} = 1..k
  OBVIOUS
<1>2. Max(1..(k + 1)) = k + 1
  BY <1>1, MaxTop
<1> QED BY <1>1, <1>2 DEF Sums

LEMMA SumsExist ==
  ASSUME NEW n \in Nat, NEW seq \in [1..n -> Nat]
  PROVE  \E it : Sums(it, seq, n)
<1> DEFINE Ok(it, m) == \A s \in SUBSET (1..m) : it[s] = IF s = {} THEN 0 ELSE it[s \ {Max(s)}] + seq[Max(s)]
           Has(m) == \E it : it = [s \in SUBSET (1..m) |-> it[s]] /\ Ok(it, m)
           T == {m \in Nat : m <= n => Has(m)}
<1>1. Has(0)
  <2> DEFINE it == [s \in SUBSET (1..0) |-> 0]
  <2>1. \A s \in SUBSET (1..0) : it[s] = 0 /\ s = {}
    OBVIOUS
  <2>2. it = [s \in SUBSET (1..0) |-> it[s]]
    OBVIOUS
  <2> HIDE DEF it
  <2> QED BY <2>1, <2>2
<1>2. ASSUME NEW m \in Nat, m + 1 <= n, Has(m) PROVE Has(m + 1)
  <2>1. PICK f : Ok(f, m)
    BY <1>2
  <2> DEFINE it == [s \in SUBSET (1..(m + 1)) |->
                      IF m + 1 \in s THEN f[s \ {m + 1}] + seq[m + 1] ELSE f[s]]
  <2>2. it = [s \in SUBSET (1..(m + 1)) |-> it[s]]
    OBVIOUS
  <2>3. ASSUME NEW s \in SUBSET (1..(m + 1))
        PROVE  it[s] = IF s = {} THEN 0 ELSE it[s \ {Max(s)}] + seq[Max(s)]
    <3>1. CASE m + 1 \in s
      <4>1. Max(s) = m + 1
        BY <3>1, MaxTop
      <4>2. s \ {m + 1} \in SUBSET (1..(m + 1)) /\ m + 1 \notin s \ {m + 1}
        OBVIOUS
      <4>3. it[s \ {m + 1}] = f[s \ {m + 1}] /\ it[s] = f[s \ {m + 1}] + seq[m + 1]
        BY <3>1, <4>2
      <4> QED BY <3>1, <4>1, <4>3
    <3>2. CASE m + 1 \notin s
      <4>1. s \in SUBSET (1..m)
        BY <3>2
      <4>2. s \ {Max(s)} \in SUBSET (1..(m + 1)) /\ m + 1 \notin s \ {Max(s)}
        BY <3>2
      <4>3. it[s] = f[s] /\ it[s \ {Max(s)}] = f[s \ {Max(s)}]
        BY <3>2, <4>2
      <4>4. f[s] = IF s = {} THEN 0 ELSE f[s \ {Max(s)}] + seq[Max(s)]
        BY <2>1, <4>1
      <4> QED BY <4>3, <4>4
    <3> QED BY <3>1, <3>2
  <2> HIDE DEF it
  <2> QED BY <2>2, <2>3
<1> HIDE DEF Has
<1>3. Has(n)
  <2>1. 0 \in T /\ \A m \in Nat : m \in T => m + 1 \in T
    BY <1>1, <1>2
  <2> HIDE DEF T
  <2>2. n \in T
    BY <2>1, Induction
  <2> QED BY <2>2 DEF T
<1>4. PICK it : it = [s \in SUBSET (1..n) |-> it[s]] /\ Ok(it, n)
  BY <1>3 DEF Has
<1>5. [s \in SUBSET (1..n) |-> it[s]]
        = [s \in SUBSET (1..n) |-> IF s = {} THEN 0 ELSE it[s \ {Max(s)}] + seq[Max(s)]]
  BY <1>4
<1> QED BY <1>4, <1>5 DEF Sums

Starts(seq, short, n) == \A i \in 1..n : short[i] = seq[i]

\* One more number adds to the sum.
LEMMA TotalAppend ==
  ASSUME NEW n \in Nat, NEW m \in Nat, m = n + 1,
         NEW seq \in [1..m -> Nat], NEW short \in [1..n -> Nat], Starts(seq, short, n)
  PROVE  Total(short) \in Nat /\ Total(seq) = Total(short) + seq[m]
<1>0. DOMAIN seq = 1..m /\ DOMAIN short = 1..n
  OBVIOUS
<1>1. PICK it : Sums(it, seq, m) /\ Total(seq) = it[1..m]
  BY <1>0, SumsExist, TotalIsSums
<1>2. PICK jt : Sums(jt, short, n) /\ Total(short) = jt[1..n]
  BY <1>0, SumsExist, TotalIsSums
<1>3. \A k \in Nat : k < m => it[1..(k + 1)] = it[1..k] + seq[k + 1]
  <2>1. Climbs(it, seq, m)
    BY <1>1, TopSum
  <2> QED BY <2>1 DEF Climbs
<1>4. \A k \in Nat : k < n => jt[1..(k + 1)] = jt[1..k] + short[k + 1]
  <2>1. Climbs(jt, short, n)
    BY <1>2, TopSum
  <2> QED BY <2>1 DEF Climbs
<1>5. it[1..0] = 0 /\ jt[1..0] = 0
  BY <1>1, <1>2, NoSum
<1>6. \A k \in Nat : k <= n => jt[1..k] \in Nat /\ it[1..k] = jt[1..k]
  <2> DEFINE T == {k \in Nat : k <= n => jt[1..k] \in Nat /\ it[1..k] = jt[1..k]}
  <2>1. 0 \in T
    BY <1>5
  <2>2. ASSUME NEW k \in Nat, k \in T PROVE k + 1 \in T
    <3>1. CASE k + 1 <= n
      <4>1. k <= n /\ k < n /\ k < m /\ seq[k + 1] \in Nat /\ short[k + 1] = seq[k + 1]
        BY <3>1 DEF Starts
      <4> QED BY <1>3, <1>4, <2>2, <4>1
    <3> QED BY <3>1
  <2> HIDE DEF T
  <2>3. Nat \subseteq T
    BY <2>1, <2>2, Induction
  <2> QED BY <2>3 DEF T
<1>7. it[1..m] = it[1..n] + seq[m]
  BY <1>3
<1>8. jt[1..n] \in Nat /\ it[1..n] = jt[1..n]
  BY <1>6
<1> QED BY <1>1, <1>2, <1>7, <1>8

LEMMA TotalEmpty == Total([i \in 1..0 |-> 0]) = 0
<1> DEFINE none == [i \in 1..0 |-> 0]
<1>1. DOMAIN none = 1..0 /\ none \in [1..0 -> Nat]
  OBVIOUS
<1> HIDE DEF none
<1>2. \A n \in Nat : n = 0 => Total(none) = 0
  <2> SUFFICES ASSUME NEW n \in Nat, n = 0 PROVE Total(none) = 0
    OBVIOUS
  <2>1. PICK it : Sums(it, none, n) /\ Total(none) = it[1..n]
    BY <1>1, SumsExist, TotalIsSums
  <2> QED BY <2>1, NoSum
<1> QED BY <1>2 DEF none

(***************************************************************************)
(* Positions in the rings, one after the other.                            *)
(***************************************************************************)
LEMMA Multiples ==
  ASSUME NEW n \in Nat \ {0}, NEW d \in Int
  PROVE  (d >= 2 => n * d >= 2 * n) /\ (d <= -1 => n * d <= -n)
OBVIOUS

LEMMA Remainder ==
  ASSUME NEW n \in Nat \ {0}, NEW t \in Nat
  PROVE  /\ t \div n \in Nat /\ t % n \in 0..(n - 1)
         /\ t = n * (t \div n) + (t % n)
<1>1. t % n \in 0..(n - 1)
  OBVIOUS
<1>2. t = n * (t \div n) + (t % n)
  OBVIOUS
<1>3. t \div n \in Int
  OBVIOUS
<1>4. t \div n >= 0
  OBVIOUS
<1>5. t \div n \in Nat
  BY <1>3, <1>4
<1> QED BY <1>1, <1>2, <1>5

LEMMA NextRemainder ==
  ASSUME NEW n \in Nat \ {0}, NEW t \in Nat
  PROVE  IF (t + 1) \div n = t \div n THEN (t + 1) % n = (t % n) + 1 ELSE (t + 1) % n = 0
<1> DEFINE q == t \div n
           r == t % n
           p == (t + 1) \div n
           s == (t + 1) % n
           d == p - q
<1>1. q \in Nat /\ r \in 0..(n - 1) /\ t = n * q + r
  BY Remainder
<1>2. p \in Nat /\ s \in 0..(n - 1) /\ t + 1 = n * p + s
  <2>1. t + 1 \in Nat
    OBVIOUS
  <2> QED BY <2>1, Remainder
<1> HIDE DEF q, r, p, s
<1>3. d \in Int /\ n * p = n * q + n * d
  BY <1>1, <1>2
<1>4. d = 0 => p = q /\ s = r + 1
  BY <1>1, <1>2
<1>5. n * d = r + 1 - s
  BY <1>1, <1>2, <1>3
<1> HIDE DEF d
<1>6. d = 0 \/ d = 1
  BY <1>1, <1>2, <1>3, <1>5, Multiples
<1>7. d = 1 => p # q /\ s = 0
  BY <1>1, <1>2, <1>5 DEF d
<1> QED BY <1>4, <1>6, <1>7 DEF q, r, p, s

LEMMA AroundTheRing ==
  ASSUME NEW n \in Nat \ {0}, NEW i \in 0..(n - 1)
  PROVE  (i + n) % n = i /\ i % n = i
OBVIOUS

(***************************************************************************)
(* The bytes of today: as the sum of its hours, in memory and in the file. *)
(***************************************************************************)
Today(data, pos) == data.dayBytes[Day(pos)] = Total(HourBytes(data, pos))

\* The counting is at most an hour behind, and the file is not ahead of it.
InStep ==
  /\ countersFile.hour \in Nat /\ countersFile.hour <= currentPos /\ currentPos <= clock
  /\ Up => clock <= currentPos + 1
  /\ gap \in BOOLEAN

\* The file counts as long as the server can go on from it: within its hour.
DayInv ==
  /\ InStep
  /\ Up /\ ~gap => Today(counterData, currentPos)
  /\ ~gap /\ countersFile.hour = currentPos => Today(countersFile.data, currentPos)

\* Today's hours, up to the one before and with the last.
LEMMA HourAdds ==
  ASSUME NEW data \in Rings, NEW pos \in Nat
  PROVE  LET before == [i \in 1..Hour(pos) |-> data.bytes[i - 1]]
         IN /\ Total(before) \in Nat
            /\ Total(HourBytes(data, pos)) = Total(before) + data.bytes[Hour(pos)]
<1> DEFINE before == [i \in 1..Hour(pos) |-> data.bytes[i - 1]]
           n == Hour(pos)
           m == n + 1
           seq == HourBytes(data, pos)
<1>1. n \in Nat /\ n <= Hours - 1 /\ m \in Nat /\ Hours \in Nat
  BY Positions, CountersAssumption DEF HourRing
<1>2. \A i \in 0..(Hours - 1) : data.bytes[i] \in Nat
  BY DEF Rings, HourRing
<1>3. seq \in [1..m -> Nat] /\ before \in [1..n -> Nat] /\ Starts(seq, before, n)
  <2>1. \A i \in 1..m : data.bytes[i - 1] \in Nat
    BY <1>1, <1>2
  <2>2. seq = [i \in 1..m |-> data.bytes[i - 1]]
    BY DEF HourBytes
  <2> QED BY <1>1, <2>1, <2>2 DEF Starts
<1>4. seq[m] = data.bytes[Hour(pos)]
  BY <1>1 DEF HourBytes
<1>5. m = n + 1
  OBVIOUS
<1> HIDE DEF n, m, seq, before
<1>6. Total(before) \in Nat /\ Total(seq) = Total(before) + seq[m]
  BY <1>1, <1>3, <1>5, TotalAppend
<1> QED BY <1>4, <1>6 DEF n, seq, before

\* A new hour of the same day, or the first of a new one.
LEMMA NewHour ==
  ASSUME NEW data \in Rings, NEW pos \in Nat, NEW new \in Rings, Today(data, pos) \/ ~SameDay(pos + 1, pos),
         new.bytes = [data.bytes EXCEPT ![Hour(pos + 1)] = 0],
         new.dayBytes = IF SameDay(pos + 1, pos) THEN data.dayBytes
                                                 ELSE [data.dayBytes EXCEPT ![Day(pos + 1)] = 0]
  PROVE  Today(new, pos + 1)
<1> DEFINE h == Hour(pos)
           g == Hour(pos + 1)
           before == [i \in 1..g |-> new.bytes[i - 1]]
<1>1. pos + 1 \in Nat
  OBVIOUS
<1>2. h \in HourRing /\ g \in HourRing /\ Day(pos + 1) \in DayRing
  BY <1>1, Positions
<1>3. IF SameDay(pos + 1, pos) THEN g = h + 1 ELSE g = 0
  BY NextRemainder, CountersAssumption DEF SameDay, Hour
<1>4. new.bytes[g] = 0 /\ \A i \in HourRing : i # g => new.bytes[i] = data.bytes[i]
  BY <1>2 DEF Rings
<1>5. /\ Total(before) \in Nat
      /\ Total(HourBytes(new, pos + 1)) = Total(before) + 0
  BY <1>1, <1>4, HourAdds
<1>6. CASE SameDay(pos + 1, pos)
  <2>1. before = HourBytes(data, pos)
    <3>1. \A i \in 1..g : new.bytes[i - 1] = data.bytes[i - 1]
      BY <1>2, <1>4 DEF HourRing
    <3>2. g = h + 1
      BY <1>3, <1>6
    <3> HIDE DEF g, h
    <3>3. HourBytes(data, pos) = [i \in 1..g |-> data.bytes[i - 1]]
      BY <3>2 DEF HourBytes, h
    <3> QED BY <3>1, <3>3
  <2>2. Day(pos + 1) = Day(pos)
    BY <1>1, <1>6, SameDaySamePosition
  <2> HIDE DEF before
  <2>3. Total(HourBytes(new, pos + 1)) = Total(HourBytes(data, pos))
    BY <1>5, <2>1
  <2> QED BY <1>6, <2>2, <2>3 DEF Today
<1>7. CASE ~SameDay(pos + 1, pos)
  <2>1. g = 0
    BY <1>3, <1>7
  <2>2. before = [i \in 1..0 |-> 0]
    BY <2>1
  <2>3. new.dayBytes[Day(pos + 1)] = 0
    BY <1>2, <1>7 DEF Rings
  <2>4. Total(before) = 0
    BY <2>2, TotalEmpty
  <2> HIDE DEF before
  <2> QED BY <1>5, <2>3, <2>4 DEF Today
<1> QED BY <1>6, <1>7

LEMMA InitDay == Init => DayInv
<1> SUFFICES ASSUME Init PROVE DayInv
  OBVIOUS
<1>1. /\ counterData \in Rings /\ countersFile.data = counterData /\ countersFile.hour = 0
      /\ clock = 0 /\ currentPos = 0 /\ gap = FALSE /\ Up
  BY InitIInv DEF Init, IInv, Types, Up
<1>2. InStep
  <2>1. gap \in BOOLEAN
    BY <1>1, Zenon
  <2> QED BY <1>1, <2>1 DEF InStep
<1>3. Hour(currentPos) = 0 /\ Day(currentPos) \in DayRing /\ counterData.bytes[0] = 0 /\ counterData.dayBytes[Day(currentPos)] = 0
  <2>1. Hour(currentPos) = 0 /\ Day(currentPos) \in DayRing /\ 0 \in HourRing
    BY <1>1, Positions, CountersAssumption DEF Hour, HourRing
  <2> QED BY <2>1 DEF Init, HourRing, DayRing
<1>4. Total(HourBytes(counterData, currentPos))
        = Total([i \in 1..Hour(currentPos) |-> counterData.bytes[i - 1]]) + counterData.bytes[Hour(currentPos)]
  <2>1. currentPos \in Nat /\ counterData \in Rings
    BY <1>1
  <2> QED BY ONLY <2>1, HourAdds
<1>5. [i \in 1..Hour(currentPos) |-> counterData.bytes[i - 1]] = [i \in 1..0 |-> 0]
  BY <1>3
<1>6. Total(HourBytes(counterData, currentPos)) = 0 + 0
  BY <1>3, <1>4, <1>5, TotalEmpty
<1>7. Today(counterData, currentPos)
  BY <1>3, <1>6 DEF Today
<1> QED BY <1>1, <1>2, <1>7 DEF DayInv

LEMMA MoreBytes ==
  ASSUME NEW data \in Rings, NEW pos \in Nat, NEW new \in Rings, Today(data, pos), NEW bytes \in Nat,
         new.bytes = [data.bytes EXCEPT ![Hour(pos)] = @ + bytes],
         new.dayBytes = [data.dayBytes EXCEPT ![Day(pos)] = @ + bytes]
  PROVE  Today(new, pos)
<1> DEFINE h == Hour(pos)
           before == [i \in 1..h |-> data.bytes[i - 1]]
<1>1. h \in HourRing /\ Day(pos) \in DayRing
  BY Positions
<1>2. /\ new.bytes[h] = data.bytes[h] + bytes /\ data.bytes[h] \in Nat
      /\ \A i \in HourRing : i # h => new.bytes[i] = data.bytes[i]
      /\ new.dayBytes[Day(pos)] = data.dayBytes[Day(pos)] + bytes
  BY <1>1 DEF Rings
<1>3. Total(before) \in Nat /\ Total(HourBytes(data, pos)) = Total(before) + data.bytes[h]
  BY HourAdds
<1>4. Total(HourBytes(new, pos)) = Total([i \in 1..h |-> new.bytes[i - 1]]) + new.bytes[h]
  BY HourAdds
<1>5. [i \in 1..h |-> new.bytes[i - 1]] = before
  <2>1. \A i \in 1..h : i - 1 \in HourRing /\ i - 1 # h
    BY <1>1, CountersAssumption DEF HourRing
  <2> QED BY <1>2, <2>1
<1>6. Total(HourBytes(new, pos)) = Total(before) + new.bytes[h]
  BY <1>4, <1>5
<1> HIDE DEF before, h
<1>7. Total(HourBytes(new, pos)) = Total(HourBytes(data, pos)) + bytes
  BY <1>2, <1>3, <1>6
<1> QED BY <1>2, <1>7 DEF Today

LEMMA AddDay ==
  ASSUME IInv, DayInv, NEW bytes \in Amounts, AddCounter(bytes)
  PROVE  DayInv'
<1>1. /\ counterData' = [counterData EXCEPT !.bytes[Hour(currentPos)] = @ + bytes,
                                            !.dayBytes[Day(currentPos)] = @ + bytes]
      /\ UNCHANGED <<clock, currentPos, countersFile, gap, status>>
  BY DEF AddCounter
<1>2. counterData \in Rings /\ counterData' \in Rings /\ currentPos \in Nat /\ bytes \in Nat
  BY AddStep, CountersAssumption DEF IInv, Types
<1>3. /\ counterData'.bytes = [counterData.bytes EXCEPT ![Hour(currentPos)] = @ + bytes]
      /\ counterData'.dayBytes = [counterData.dayBytes EXCEPT ![Day(currentPos)] = @ + bytes]
  BY <1>1, <1>2 DEF Rings
<1>4. Today(counterData, currentPos) => Today(counterData', currentPos)
  BY <1>2, <1>3, MoreBytes
<1>5. InStep'
  BY <1>1 DEF DayInv, InStep, Up
<1> QED BY <1>1, <1>4, <1>5 DEF DayInv, Up, Today, HourBytes

LEMMA SwiftDay ==
  ASSUME IInv, DayInv, SwiftCounter
  PROVE  DayInv'
<1>1. PICK turn \in 1..5 :
       LET now == clock
           at(i) == IF i < turn THEN now ELSE now + 1
           bytes == [counterData EXCEPT !.bytes[Hour(at(1))] = 0]
           clients == [bytes EXCEPT !.clients[Hour(at(2))] = bytes.clients[Hour(currentPos)]]
       IN /\ clock' = at(5)
          /\ counterData' =
               IF SameDay(now, currentPos) THEN clients
               ELSE [clients EXCEPT !.dayBytes[Day(at(3))] = 0,
                                    !.dayClients[Day(at(4))] = clients.clients[Hour(currentPos)]]
          /\ currentPos' = now
          /\ gap' = (turn < 5 \/ (gap /\ SameDay(now, currentPos)))
          /\ SaveCounters(counterData', currentPos')
  BY DEF SwiftCounter
<1>2. /\ counterData \in Rings /\ counterData' \in Rings /\ currentPos \in Nat /\ clock \in Nat
      /\ Up /\ clock # currentPos /\ status' = status
  BY SwiftStep DEF IInv, Types, SwiftCounter
<1>3. clock = currentPos + 1 /\ countersFile.hour \in Nat /\ countersFile.hour <= currentPos
  BY <1>2 DEF DayInv, InStep
<1>4. currentPos' = currentPos + 1 /\ clock' \in {clock, clock + 1}
  BY <1>1, <1>2, <1>3
<1>5. ~gap' => turn = 5 /\ (~gap \/ ~SameDay(currentPos + 1, currentPos))
  <2>1. ~gap' => ~(turn < 5) /\ (~gap \/ ~SameDay(clock, currentPos))
    BY <1>1, Zenon
  <2> QED BY <1>3, <2>1
<1>6. gap' \in BOOLEAN
  BY <1>1, Zenon
<1>7. \/ countersFile'.data = counterData' /\ countersFile'.hour = currentPos'
      \/ UNCHANGED countersFile
  BY <1>1 DEF SaveCounters
<1>8. InStep'
  BY <1>2, <1>3, <1>4, <1>6, <1>7 DEF InStep
<1>9. ASSUME ~gap' PROVE Today(counterData', currentPos')
  <2>1. counterData' =
          LET bytes == [counterData EXCEPT !.bytes[Hour(clock)] = 0]
              clients == [bytes EXCEPT !.clients[Hour(clock)] = bytes.clients[Hour(currentPos)]]
          IN IF SameDay(clock, currentPos) THEN clients
             ELSE [clients EXCEPT !.dayBytes[Day(clock)] = 0,
                                  !.dayClients[Day(clock)] = clients.clients[Hour(currentPos)]]
    BY <1>1, <1>5, <1>9
  <2>2. /\ counterData'.bytes = [counterData.bytes EXCEPT ![Hour(clock)] = 0]
        /\ counterData'.dayBytes = IF SameDay(clock, currentPos) THEN counterData.dayBytes
                                   ELSE [counterData.dayBytes EXCEPT ![Day(clock)] = 0]
    BY <1>2, <2>1 DEF Rings
  <2>3. Today(counterData, currentPos) \/ ~SameDay(currentPos + 1, currentPos)
    BY <1>2, <1>5, <1>9 DEF DayInv
  <2>4. Today(counterData', currentPos + 1)
    BY <1>2, <1>3, <2>2, <2>3, NewHour
  <2> QED BY <1>4, <2>4
<1>10. ~gap' /\ countersFile'.hour = currentPos' => Today(countersFile'.data, currentPos')
  BY <1>2, <1>3, <1>4, <1>7, <1>9
<1> QED BY <1>8, <1>9, <1>10 DEF DayInv, Today, HourBytes

LEMMA LoadDay ==
  ASSUME IInv, DayInv, LoadCounters
  PROVE  DayInv'
<1>1. /\ counterData' = [countersFile.data EXCEPT !.clients[Hour(clock)] = 0]
      /\ currentPos' = clock /\ UNCHANGED <<clock, countersFile>>
      /\ status = "down"
  BY DEF LoadCounters
<1>2. gap' = (gap \/ countersFile.hour # clock)
  BY DEF LoadCounters
<1>3. ~gap' => ~gap /\ countersFile.hour = clock
  BY <1>2, Zenon
<1>4. gap' \in BOOLEAN
  BY <1>2, Zenon
<1>5. /\ clock \in Nat /\ currentPos \in Nat /\ countersFile.hour \in Nat /\ countersFile.data \in Rings
      /\ countersFile.hour <= currentPos /\ currentPos <= clock
  BY DEF IInv, Types, DayInv, InStep
<1>6. InStep'
  BY <1>1, <1>4, <1>5 DEF InStep
<1>7. counterData'.bytes = countersFile.data.bytes /\ counterData'.dayBytes = countersFile.data.dayBytes
  BY <1>1, <1>5 DEF Rings
<1>8. ~gap' => Today(countersFile.data, currentPos) /\ currentPos = clock
  BY <1>3, <1>5 DEF DayInv
<1>9. ~gap' => Today(countersFile'.data, currentPos')
  BY <1>1, <1>8
<1>10. Today(countersFile'.data, currentPos') => Today(counterData', currentPos')
  BY <1>1, <1>7 DEF Today, HourBytes
<1> QED BY <1>6, <1>9, <1>10 DEF DayInv, Today, HourBytes

LEMMA StepDay == IInv /\ DayInv /\ [Next]_vars => DayInv'
<1> SUFFICES ASSUME IInv, DayInv, [Next]_vars PROVE DayInv'
  OBVIOUS
<1>1. counterData \in Rings /\ clock \in Nat /\ currentPos \in Nat
  BY DEF IInv, Types
<1>2. CASE \E c \in Clients : StoreClient(c) \/ RemoveClient(c)
  <2>1. /\ counterData'.bytes = counterData.bytes /\ counterData'.dayBytes = counterData.dayBytes
        /\ UNCHANGED <<clock, currentPos, countersFile, gap, status>>
    BY <1>1, <1>2 DEF StoreClient, RemoveClient, UpdateCounterClient, Rings
  <2>2. InStep'
    BY <2>1 DEF DayInv, InStep, Up
  <2> QED BY <2>1, <2>2 DEF DayInv, Today, HourBytes, Up
<1>3. CASE Tick
  <2>1. /\ UNCHANGED <<counterData, currentPos, countersFile, gap, status>>
        /\ clock' = clock + 1 /\ (Up => clock = currentPos)
    BY <1>3 DEF Tick
  <2>2. InStep'
    BY <1>1, <2>1 DEF DayInv, InStep, Up
  <2> QED BY <2>1, <2>2 DEF DayInv, Today, HourBytes, Up
<1>4. CASE Signal
  <2>1. /\ UNCHANGED <<clock, counterData, currentPos, gap>> /\ Up /\ Up'
        /\ \/ countersFile'.data = counterData /\ countersFile'.hour = currentPos
           \/ UNCHANGED countersFile
    BY <1>4 DEF Signal, SaveCounters, Up
  <2>2. InStep'
    BY <1>1, <2>1 DEF DayInv, InStep
  <2> QED BY <2>1, <2>2 DEF DayInv, Today, HourBytes
<1>5. CASE Exit
  <2>1. UNCHANGED <<clock, counterData, currentPos, countersFile, gap>> /\ ~Up'
    BY <1>5 DEF Exit, Up
  <2>2. InStep'
    BY <2>1 DEF DayInv, InStep
  <2> QED BY <2>1, <2>2 DEF DayInv, Today, HourBytes
<1>6. CASE UNCHANGED vars
  BY <1>6 DEF vars, DayInv, InStep, Today, HourBytes, Up
<1> QED BY <1>2, <1>3, <1>4, <1>5, <1>6, AddDay, SwiftDay, LoadDay DEF Next

LEMMA RingOfHours == Cardinality(HourRing) = Hours /\ Cardinality(DayRing) = Days
<1>1. Hours - 1 >= 0 - 1 /\ Days - 1 >= 0 - 1
  BY CountersAssumption
<1> QED BY CountersAssumption, FS_Interval DEF HourRing, DayRing

(***************************************************************************)
(* The charts.                                                             *)
(***************************************************************************)
Shown(x) == (x \div 2) \div Megabyte
Pair == 2 * Megabyte

\* A number of the chart stands for less than one unit more.
LEMMA Rounding ==
  ASSUME NEW x \in Nat
  PROVE  /\ Shown(x) \in Nat
         /\ Pair * Shown(x) <= x
         /\ x <= Pair * Shown(x) + Pair - 1
<1>1. PICK u \in Nat \ {0} : u = Megabyte
  BY CountersAssumption
<1>2. PICK a \in Nat : a = x \div 2 /\ 2 * a <= x /\ x <= 2 * a + 1
  OBVIOUS
<1>3. PICK v \in Nat, q \in 0..(u - 1) : v = a \div u /\ a = u * v + q
  BY Remainder
<1>4. Shown(x) = v
  BY ONLY <1>1, <1>2, <1>3 DEF Shown
<1>5. 2 * u * v <= x /\ x <= 2 * u * v + 2 * u - 1
  <2>1. PICK w \in Nat : w = u * v
    OBVIOUS
  <2>2. a = w + q /\ 2 * u * v = 2 * w
    BY <1>3, <2>1
  <2> QED BY <1>2, <2>2
<1> QED BY <1>1, <1>4, <1>5 DEF Pair

\* Rounded numbers lose less than a unit each.
Loses(seq, shown, n) ==
  /\ Total(seq) \in Nat /\ Total(shown) \in Nat
  /\ Pair * Total(shown) <= Total(seq)
  /\ Total(seq) <= Pair * Total(shown) + n * (Pair - 1)

LEMMA SumsLose ==
  ASSUME NEW n \in Nat, NEW seq \in [1..n -> Nat]
  PROVE  Loses(seq, [i \in 1..n |-> Shown(seq[i])], n)
<1> DEFINE Cut(m) == [i \in 1..m |-> seq[i]]
           Show(m) == [i \in 1..m |-> Shown(seq[i])]
           T == {m \in Nat : m <= n => Loses(Cut(m), Show(m), m)}
<1>1. 0 \in T
  <2>1. Cut(0) = [i \in 1..0 |-> 0] /\ Show(0) = [i \in 1..0 |-> 0]
    OBVIOUS
  <2>2. Total(Cut(0)) = 0 /\ Total(Show(0)) = 0
    BY <2>1, TotalEmpty
  <2> HIDE DEF Cut, Show
  <2>3. PICK w \in Nat : w = Pair
    BY CountersAssumption DEF Pair
  <2>4. w * 0 <= 0 /\ 0 <= w * 0 + 0 * (w - 1)
    OBVIOUS
  <2>5. Loses(Cut(0), Show(0), 0)
    BY ONLY <2>2, <2>3, <2>4 DEF Loses
  <2> QED BY <2>5
<1>2. ASSUME NEW m \in Nat, m \in T PROVE m + 1 \in T
  <2> SUFFICES ASSUME m + 1 <= n PROVE Loses(Cut(m + 1), Show(m + 1), m + 1)
    <3> HIDE DEF Cut, Show
    <3> QED OBVIOUS
  <2>1. PICK k \in Nat : k = m + 1
    OBVIOUS
  <2>2. Loses(Cut(m), Show(m), m)
    BY <1>2
  <2>3. PICK x \in Nat : x = seq[k]
    BY <2>1
  <2>4. /\ Cut(k) \in [1..k -> Nat] /\ Cut(m) \in [1..m -> Nat] /\ Starts(Cut(k), Cut(m), m)
        /\ Cut(k)[k] = x
    BY <2>1, <2>3 DEF Starts
  <2>5. /\ Show(k) \in [1..k -> Nat] /\ Show(m) \in [1..m -> Nat] /\ Starts(Show(k), Show(m), m)
        /\ Show(k)[k] = Shown(x)
    <3>1. \A i \in 1..n : Shown(seq[i]) \in Nat
      BY Rounding
    <3> QED BY <2>1, <2>3, <3>1 DEF Starts
  <2> HIDE DEF Cut, Show
  <2>6. Total(Cut(k)) = Total(Cut(m)) + x /\ Total(Show(k)) = Total(Show(m)) + Shown(x)
    <3>1. PICK a, b : a = Cut(k) /\ b = Cut(m)
      OBVIOUS
    <3>2. PICK c, d : c = Show(k) /\ d = Show(m)
      OBVIOUS
    <3>3. Total(a) = Total(b) + a[k]
      <4>1. a \in [1..k -> Nat] /\ b \in [1..m -> Nat] /\ Starts(a, b, m)
        BY <2>4, <3>1
      <4> QED BY ONLY <2>1, <4>1, m \in Nat, k \in Nat, TotalAppend
    <3>4. Total(c) = Total(d) + c[k]
      <4>1. c \in [1..k -> Nat] /\ d \in [1..m -> Nat] /\ Starts(c, d, m)
        BY <2>5, <3>2
      <4> QED BY ONLY <2>1, <4>1, m \in Nat, k \in Nat, TotalAppend
    <3> QED BY <2>4, <2>5, <3>1, <3>2, <3>3, <3>4
  <2>7. PICK w \in Nat : w = Pair /\ w > 0
    BY CountersAssumption DEF Pair
  <2>8. PICK v \in Nat : v = Shown(x) /\ w * v <= x /\ x <= w * v + w - 1
    BY <2>7, Rounding
  <2>9. PICK s \in Nat, t \in Nat : /\ s = Total(Cut(m)) /\ t = Total(Show(m))
                                    /\ w * t <= s /\ s <= w * t + m * (w - 1)
    BY <2>2, <2>7 DEF Loses
  <2>10. w * (t + v) <= s + x /\ s + x <= w * (t + v) + (m + 1) * (w - 1)
    <3>1. PICK p \in Nat, q \in Nat, r \in Int : p = w * t /\ q = w * v /\ r = m * (w - 1)
      OBVIOUS
    <3>2. w * (t + v) = p + q /\ (m + 1) * (w - 1) = r + w - 1
      BY <3>1
    <3>3. p <= s /\ s <= p + r /\ q <= x /\ x <= q + w - 1
      BY <2>8, <2>9, <3>1
    <3> QED BY ONLY <3>2, <3>3, p \in Nat, q \in Nat, r \in Int, w \in Nat, s \in Nat, x \in Nat
  <2>11. Loses(Cut(k), Show(k), k)
    <3>1. Total(Cut(k)) = s + x /\ Total(Show(k)) = t + v
      BY <2>6, <2>8, <2>9
    <3>2. Pair * (t + v) <= s + x /\ s + x <= Pair * (t + v) + k * (Pair - 1)
      BY <2>1, <2>7, <2>10
    <3> QED BY ONLY <3>1, <3>2, s \in Nat, t \in Nat, x \in Nat, v \in Nat DEF Loses
  <2> QED BY <2>1, <2>11
<1> HIDE DEF T
<1>3. n \in T
  BY <1>1, <1>2, Induction
<1>4. Cut(n) = seq
  OBVIOUS
<1> QED BY <1>3, <1>4 DEF T

\* So their sum is at most as much below the sum that is rounded as there are others.
LEMMA SumShown ==
  ASSUME NEW h \in Nat, NEW seq \in [1..(h + 1) -> Nat], NEW day \in Nat, day = Total(seq)
  PROVE  LET hours == Total([i \in 1..(h + 1) |-> Shown(seq[i])])
         IN Shown(day) \in hours..(hours + h)
<1>1. PICK n \in Nat : n = h + 1
  OBVIOUS
<1>2. PICK shown : shown = [i \in 1..n |-> Shown(seq[i])]
  OBVIOUS
<1>3. Loses(seq, shown, n)
  BY <1>1, <1>2, SumsLose
<1>4. PICK w \in Nat : w = Pair /\ w > 0
  BY CountersAssumption DEF Pair
<1>5. PICK t \in Nat : t = Total(shown) /\ w * t <= day /\ day <= w * t + n * (w - 1)
  BY <1>3, <1>4 DEF Loses
<1>6. PICK v \in Nat : v = Shown(day) /\ w * v <= day /\ day <= w * v + w - 1
  BY <1>4, Rounding
<1>7. t <= v
  <2> SUFFICES ASSUME v + 1 <= t PROVE FALSE
    OBVIOUS
  <2>1. PICK e \in Nat : t = (v + 1) + e
    BY t - (v + 1) \in Nat
  <2>2. PICK p \in Nat, q \in Nat : p = w * v /\ q = w * e
    OBVIOUS
  <2>3. w * t = p + w + q
    BY <2>1, <2>2
  <2>4. p + w + q <= day /\ day <= p + w - 1
    BY <1>5, <1>6, <2>2, <2>3
  <2> QED BY <2>4
<1>8. v <= t + h
  <2> SUFFICES ASSUME t + n <= v PROVE FALSE
    BY <1>1
  <2>1. PICK e \in Nat : v = (t + n) + e
    BY v - (t + n) \in Nat
  <2>2. PICK p \in Nat, q \in Nat, r \in Nat : p = w * t /\ q = w * e /\ r = w * n
    OBVIOUS
  <2>3. w * v = p + r + q /\ n * (w - 1) = r - n
    BY <2>1, <2>2
  <2>4. p + r + q <= day /\ day <= p + r - n
    BY <1>5, <1>6, <2>2, <2>3
  <2> QED BY <1>1, <2>4
<1>9. v \in t..(t + h)
  BY <1>7, <1>8
<1> QED BY <1>1, <1>2, <1>5, <1>6, <1>9

\* What getCounter makes of the rings.
LEMMA TodayShown == IInv /\ DayInv => TodayAddsUp
<1> SUFFICES ASSUME IInv, DayInv, Up, ~gap
             PROVE  /\ counterData.dayBytes[Day(currentPos)] = Total(HourBytes(counterData, currentPos))
                    /\ LET hours == Total(SubSeq(GetCounterHour, Hours - Hour(currentPos), Hours))
                       IN Last(GetCounterDay) \in hours..(hours + Hour(currentPos))
  BY DEF TodayAddsUp, Total
<1> DEFINE h == Hour(currentPos)
           d == Day(currentPos)
           seq == HourBytes(counterData, currentPos)
           day == counterData.dayBytes[d]
<1>1. /\ h \in 0..(Hours - 1) /\ d \in 0..(Days - 1) /\ Hours \in Nat \ {0} /\ Days \in Nat \ {0}
      /\ counterData \in Rings
  BY Positions, CountersAssumption DEF IInv, Types, HourRing, DayRing
<1>2. /\ DOMAIN counterData.bytes = HourRing /\ DOMAIN counterData.dayBytes = DayRing
      /\ \A i \in HourRing : counterData.bytes[i] \in Nat
      /\ \A i \in DayRing : counterData.dayBytes[i] \in Nat
  BY <1>1 DEF Rings
<1>3. day = Total(seq)
  BY DEF DayInv, Today
<1>4. seq = [i \in 1..(h + 1) |-> counterData.bytes[i - 1]]
  BY DEF HourBytes
<1> HIDE DEF h, d, seq
<1>5. /\ GetCounterDay = [i \in 1..Days |-> Shown(counterData.dayBytes[(d + i) % Days])]
      /\ GetCounterHour = [i \in 1..Hours |-> Shown(counterData.bytes[(h + i) % Hours])]
  BY <1>2, RingOfHours DEF GetCounterDay, GetCounterHour, GetCounter, Shown, h, d
<1>6. Last(GetCounterDay) = Shown(day)
  <2>1. Len(GetCounterDay) = Days
    BY ONLY <1>1, <1>5
  <2>2. (d + Days) % Days = d
    BY <1>1, AroundTheRing
  <2>3. GetCounterDay[Days] = Shown(counterData.dayBytes[d])
    <3>1. Days \in 1..Days
      BY <1>1
    <3>2. GetCounterDay[Days] = Shown(counterData.dayBytes[(d + Days) % Days])
      BY ONLY <1>5, <3>1
    <3> QED BY ONLY <2>2, <3>2
  <2> QED BY ONLY <2>1, <2>3 DEF Last, day
<1>7. SubSeq(GetCounterHour, Hours - h, Hours) = [i \in 1..(h + 1) |-> Shown(seq[i])]
  <2>1. SubSeq(GetCounterHour, Hours - h, Hours) = [i \in 1..(h + 1) |-> GetCounterHour[Hours - h + i - 1]]
    BY <1>1, <1>5
  <2>2. ASSUME NEW i \in 1..(h + 1)
        PROVE  GetCounterHour[Hours - h + i - 1] = Shown(seq[i])
    <3>1. Hours - h + i - 1 \in 1..Hours /\ i - 1 \in 0..(Hours - 1)
          /\ h + (Hours - h + i - 1) = (i - 1) + Hours
      BY <1>1
    <3>2. ((i - 1) + Hours) % Hours = i - 1
      BY <1>1, <3>1, AroundTheRing
    <3>3. GetCounterHour[Hours - h + i - 1] = Shown(counterData.bytes[i - 1])
      BY <1>5, <3>1, <3>2
    <3> QED BY <1>4, <3>3
  <2> QED BY <2>1, <2>2
<1>8. seq \in [1..(h + 1) -> Nat] /\ h \in Nat /\ day \in Nat
  <2>1. \A i \in 1..(h + 1) : i - 1 \in HourRing
    BY <1>1 DEF HourRing
  <2> QED BY <1>1, <1>2, <1>4, <2>1 DEF DayRing
<1> HIDE DEF day
<1>9. Shown(day) \in Total([i \in 1..(h + 1) |-> Shown(seq[i])])..(Total([i \in 1..(h + 1) |-> Shown(seq[i])]) + h)
  BY <1>3, <1>8, SumShown
<1> QED BY <1>3, <1>6, <1>7, <1>9 DEF day, h, d, seq

\* The hours of today add up to today's bytes, after any number of turns of both rings, crashes
\* and restarts, and their chart to that of the day but for what every hour of it rounds off.
THEOREM TodaysHoursAddUp == Spec => []TodayAddsUp
<1>1. Spec => []DayInv
  BY InitDay, StepDay, CountersInvariant, PTL DEF Spec
<1> QED BY <1>1, CountersInvariant, TodayShown, PTL
=============================================================================

----------------------------- MODULE Counters ------------------------------
(***************************************************************************)
(* Traffic counters (utils.go): bytes and connected clients in a ring of   *)
(* hours and a ring of days, moved on by SwiftCounter, which HelperThread  *)
(* calls, kept in memory and saved when the hour changes and on shutdown.  *)
(*                                                                         *)
(* The rings of week, month and year days and of months differ only in     *)
(* their length from the ring of days here.  Connections are counted like  *)
(* bytes, one by one, and shown in units of one.                           *)
(***************************************************************************)
EXTENDS Integers, FiniteSetsExt, SequencesExt

CONSTANTS Clients,  \* connections of clients
          Hours,    \* hours of a day
          Days,     \* length of the ring of days
          Megabyte, \* bytes that the charts show as one
          Amounts,  \* bound: bytes of a data connection
          MaxClock, \* bound: hours that pass
          MaxCalls  \* bound: calls of AddCounter

ASSUME CountersAssumption ==
  /\ Hours \in Nat \ {0} /\ Days \in Nat \ {0}
  /\ Megabyte \in Nat \ {0} /\ Amounts \subseteq Nat
  /\ MaxClock \in Nat /\ MaxCalls \in Nat
  /\ IsFiniteSet(Clients)

VARIABLES clock,        \* time.Now(), in hours
          counterData,  \* the rings
          currentPos,   \* hour that is counted
          stored,       \* clients that StoreClient put in the map
          countersFile, \* what was saved last
          spent,        \* calls of AddCounter so far
          astray,       \* history: did the hour change in the middle of SwiftCounter?
          gap,          \* history: are the rings of today without a part of it, or with older days?
          status        \* "up", "ending" after a signal, or "down"

vars == <<clock, counterData, currentPos, stored, countersFile, spent, astray, gap, status>>

Hour(t) == t % Hours
Day(t) == (t \div Hours) % Days
SameDay(t, u) == t \div Hours = u \div Hours

Init ==
  /\ clock = 0
  /\ counterData = [bytes |-> [i \in 0..(Hours - 1) |-> 0], clients |-> [i \in 0..(Hours - 1) |-> 0],
                    dayBytes |-> [i \in 0..(Days - 1) |-> 0], dayClients |-> [i \in 0..(Days - 1) |-> 0]]
  /\ currentPos = 0
  /\ stored = {}
  /\ countersFile = [data |-> counterData, hour |-> 0]
  /\ spent = 0
  /\ astray = FALSE /\ gap = FALSE
  /\ status = "up"

\* SaveFile replaces the file, or fails.
SaveCounters(data, pos) ==
  \/ countersFile' = [data |-> data, hour |-> pos]
  \/ UNCHANGED countersFile

Up == status # "down"

(***************************************************************************)
(* Counting.                                                               *)
(***************************************************************************)

\* UpdateCounterClient: the clients of the hour, and the most of them in the day.
UpdateCounterClient(adding) ==
  LET h == Hour(currentPos)
      count == counterData.clients[h] + 1
  IN counterData' =
       IF adding
       THEN [counterData EXCEPT !.clients[h] = count,
                                !.dayClients[Day(currentPos)] = IF @ < count THEN count ELSE @]
       ELSE [counterData EXCEPT !.clients[h] = IF @ > 0 THEN @ - 1 ELSE @]

\* A client that is in the map is not stored again, ...
StoreClient(c) ==
  /\ Up /\ c \notin stored
  /\ stored' = stored \cup {c}
  /\ UpdateCounterClient(TRUE)
  /\ UNCHANGED <<clock, currentPos, countersFile, spent, astray, gap, status>>

\* ... and one that is not in the map is not removed.
RemoveClient(c) ==
  /\ Up /\ c \in stored
  /\ stored' = stored \ {c}
  /\ UpdateCounterClient(FALSE)
  /\ UNCHANGED <<clock, currentPos, countersFile, spent, astray, gap, status>>

\* AddCounter, by a data connection that ends, or for a node that reports one.
AddCounter(bytes) ==
  /\ Up
  /\ spent < MaxCalls
  /\ spent' = spent + 1
  /\ counterData' = [counterData EXCEPT !.bytes[Hour(currentPos)] = @ + bytes,
                                        !.dayBytes[Day(currentPos)] = @ + bytes]
  /\ UNCHANGED <<clock, currentPos, stored, countersFile, astray, gap, status>>

(***************************************************************************)
(* Time.                                                                   *)
(***************************************************************************)

\* Mutant of SwiftCounter: the position moves before the number of clients is read.
SwiftMoved ==
  /\ Up /\ clock # currentPos
  /\ currentPos' = clock
  /\ counterData' = [counterData EXCEPT
       !.bytes[Hour(clock)] = 0,
       !.dayBytes[Day(clock)] = IF SameDay(clock, currentPos) THEN @ ELSE 0,
       !.dayClients[Day(clock)] = IF SameDay(clock, currentPos) THEN @ ELSE counterData.clients[Hour(clock)]]
  /\ gap' = (gap /\ SameDay(clock, currentPos))
  /\ SaveCounters(counterData', currentPos')
  /\ UNCHANGED <<clock, stored, spent, astray, status>>

\* Mutant of SwiftCounter: the day's ring is not cleared.
SwiftHourOnly ==
  /\ Up /\ clock # currentPos
  /\ currentPos' = clock
  /\ counterData' = [counterData EXCEPT
       !.bytes[Hour(clock)] = 0,
       !.clients[Hour(clock)] = counterData.clients[Hour(currentPos)]]
  /\ gap' = (gap /\ SameDay(clock, currentPos))
  /\ SaveCounters(counterData', currentPos')
  /\ UNCHANGED <<clock, stored, spent, astray, status>>

\* SwiftCounter after the hour changed: the new positions are cleared, and the number of
\* clients goes on from the old hour.  The time is read once for the position and anew
\* for every index; the hour may change before any of those readings.
SwiftCounter ==
  /\ Up /\ clock # currentPos
  /\ \E turn \in 1..5 :
       LET now == clock
           at(i) == IF i < turn THEN now ELSE now + 1
           bytes == [counterData EXCEPT !.bytes[Hour(at(1))] = 0]
           clients == [bytes EXCEPT !.clients[Hour(at(2))] = bytes.clients[Hour(currentPos)]]
       IN /\ clock' = at(5) /\ clock' <= MaxClock
          /\ counterData' =
               IF SameDay(now, currentPos) THEN clients
               ELSE [clients EXCEPT !.dayBytes[Day(at(3))] = 0,
                                    !.dayClients[Day(at(4))] = clients.clients[Hour(currentPos)]]
          /\ currentPos' = now
          /\ astray' = (astray \/ turn < 5)
          /\ gap' = (turn < 5 \/ (gap /\ SameDay(now, currentPos)))
          /\ SaveCounters(counterData', currentPos')
  /\ UNCHANGED <<stored, spent, status>>

\* HelperThread calls SwiftCounter every few seconds (WaitHelperCycle), so the server
\* does not run through an hour without it.
Tick ==
  /\ clock < MaxClock /\ (Up => clock = currentPos)
  /\ clock' = clock + 1
  /\ UNCHANGED <<counterData, currentPos, stored, countersFile, spent, astray, gap, status>>

(***************************************************************************)
(* Start and end of the process.                                           *)
(***************************************************************************)

\* main on a signal: the counters are saved, while the goroutines go on.
Signal ==
  /\ status = "up"
  /\ status' = "ending"
  /\ SaveCounters(counterData, currentPos)
  /\ UNCHANGED <<clock, counterData, currentPos, stored, spent, astray, gap>>

\* The end of main, or a crash.
Exit ==
  /\ Up
  /\ status' = "down"
  /\ stored' = {}
  /\ UNCHANGED <<clock, counterData, currentPos, countersFile, spent, astray, gap>>

\* LoadCounters: nobody is connected yet, and the other counters of the hour and the day
\* go on from what the file holds there, of whatever day it is.
LoadCounters ==
  /\ status = "down" /\ status' = "up"
  /\ counterData' = [countersFile.data EXCEPT !.clients[Hour(clock)] = 0]
  /\ currentPos' = clock
  /\ gap' = (gap \/ countersFile.hour # clock)
  /\ astray' = FALSE
  /\ UNCHANGED <<clock, stored, countersFile, spent>>

Next ==
  \/ \E c \in Clients : StoreClient(c) \/ RemoveClient(c)
  \/ \E bytes \in Amounts : AddCounter(bytes)
  \/ SwiftCounter \/ Tick
  \/ Signal \/ Exit \/ LoadCounters

Spec == Init /\ [][Next]_vars

(***************************************************************************)
(* Properties.                                                             *)
(***************************************************************************)

\* getCounter: a ring as a sequence that ends with the current position, every number halved
\* and in whole units.
GetCounter(ring, cur, unit) ==
  LET n == Cardinality(DOMAIN ring) IN [i \in 1..n |-> (ring[(cur + i) % n] \div 2) \div unit]
GetCounterHour == GetCounter(counterData.bytes, Hour(currentPos), Megabyte)
GetCounterDay == GetCounter(counterData.dayBytes, Day(currentPos), Megabyte)

\* The clients that the statistics show are the clients that are connected, and the day's
\* number of clients is at least that, over changes of hour and day and restarts, unless
\* the hour changed in the middle of a SwiftCounter since the start.
ClientsExact ==
  Up /\ ~astray =>
    /\ counterData.clients[Hour(currentPos)] = Cardinality(stored)
    /\ counterData.dayClients[Day(currentPos)] >= Cardinality(stored)

\* The bytes of today's hours, from midnight on.
HourBytes(data, pos) == [i \in 1..(Hour(pos) + 1) |-> data.bytes[i - 1]]

\* The hours of today add up to the bytes of today, after any number of turns of both rings,
\* crashes and restarts within the hour; a server that was down or did not get its counters
\* saved at a change of hour is in step again with the next day.  On the charts, where every
\* hour loses what is no whole unit, the day shows as much as its hours or up to one more
\* for every hour but one.
TodayAddsUp ==
  Up /\ ~gap =>
    /\ counterData.dayBytes[Day(currentPos)] = FoldLeft(+, 0, HourBytes(counterData, currentPos))
    /\ LET hours == FoldLeft(+, 0, SubSeq(GetCounterHour, Hours - Hour(currentPos), Hours))
       IN Last(GetCounterDay) \in hours..(hours + Hour(currentPos))
=============================================================================

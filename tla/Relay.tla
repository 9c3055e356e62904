------------------------------- MODULE Relay -------------------------------
(***************************************************************************)
(* The data sessions of one server: the map `channels` from a code to the  *)
(* pair (dConn) of data connections that share it, and every goroutine     *)
(* that works on a pair.  A step of a goroutine is one atomic operation of *)
(* the code on shared state: an operation of sync.Map, one critical        *)
(* section of dConn.mutex, one select, one network call.                   *)
(*                                                                         *)
(* Mode is the role of the server.  A "Regular" server creates the         *)
(* sessions its own clients ask for; a "Node" gets its codes from a        *)
(* master.  (A "Master" runs no data server.)                              *)
(*                                                                         *)
(* A code is 64 random characters made for one session, so a code here     *)
(* stands for its pair too, and Load followed by CompareAndDelete of the   *)
(* pair that was loaded is one test of `channels`.                         *)
(***************************************************************************)
EXTENDS Integers

CONSTANTS Codes,     \* codes, and the goroutine of checkConnection of each
          Conns,     \* TCP connections to the data server, and their dataHandler
          Handlers,  \* goroutines that serve control connections
          Mode,      \* role of this server
          None       \* the nil pointer

Threads == Codes \cup Conns \cup Handlers

ASSUME RelayAssumption ==
  /\ Mode \in {"Regular", "Node"}
  /\ Codes \cap Conns = {} /\ Codes \cap Handlers = {} /\ Conns \cap Handlers = {}
  /\ None \notin Threads

VARIABLES channels,  \* the codes that are in the map
          pointer,   \* dConn.pointer
          closed,    \* dConn.closed
          ready,     \* how often dConn.ready was closed; Go panics at the second
          conn,      \* state of a connection
          pc,        \* where a goroutine is
          session,   \* the code a goroutine works on
          index,     \* the seat of a dataHandler in its pair
          links,     \* the connections a goroutine copied out of the pair to close
          asked,     \* codes that somebody asked to disconnect
          told       \* codes whose end was reported to the master

vars == <<channels, pointer, closed, ready, conn, pc, session, index, links, asked, told>>

Label == {"off", "idle", "done", "join", "announce", "wait", "look", "copy", "watch",
          "check", "reap", "invite", "cad", "teardown", "hangup"}

TypeOK ==
  /\ channels \in SUBSET Codes
  /\ pointer \in [Codes -> [{0, 1} -> Conns \cup {None}]]
  /\ closed \in [Codes -> BOOLEAN]
  /\ ready \in [Codes -> Nat]
  /\ conn \in [Conns -> {"new", "open", "remote", "closed"}]
  /\ pc \in [Threads -> Label]
  /\ session \in [Threads -> Codes \cup {None}]
  /\ index \in [Conns -> {0, 1}]
  /\ links \in [Threads -> SUBSET Conns]
  /\ asked \in SUBSET Codes
  /\ told \in SUBSET Codes

(***************************************************************************)
(* The server starts with no session; handlers serve their connections,    *)
(* checkConnection of a code does not run yet.                             *)
(***************************************************************************)
Init ==
  /\ channels = {}
  /\ pointer = [c \in Codes |-> [i \in {0, 1} |-> None]]
  /\ closed = [c \in Codes |-> FALSE]
  /\ ready = [c \in Codes |-> 0]
  /\ conn = [d \in Conns |-> "new"]
  /\ pc = [t \in Threads |-> IF t \in Codes THEN "off" ELSE "idle"]
  /\ session = [t \in Threads |-> IF t \in Codes THEN t ELSE None]
  /\ index = [d \in Conns |-> 0]
  /\ links = [t \in Threads |-> {}]
  /\ asked = {}
  /\ told = {}

Goto(t, label) == pc' = [pc EXCEPT ![t] = label]

Empty(c, i) == pointer[c][i] = None
Members(c) == {pointer[c][0], pointer[c][1]} \ {None}

\* close(c.ready)
CloseReady(c) == ready' = [ready EXCEPT ![c] = @ + 1]

\* (*conn).Close() of every connection in S
Close(S) == conn' = [d \in Conns |-> IF d \in S THEN "closed" ELSE conn[d]]

\* The goroutine is through: a dataHandler closes its own connection.
Exit(t) == Goto(t, IF t \in Handlers THEN "idle" ELSE "done")
Own(t) == {t} \cap Conns

(***************************************************************************)
(* Control connections.                                                    *)
(***************************************************************************)

\* processConnect, for one peer: connectPeers with a fresh code.
Connect(h, c) ==
  /\ Mode = "Regular" /\ pc[h] = "idle" /\ pc[c] = "off"
  /\ channels' = channels \cup {c}
  /\ pc' = [pc EXCEPT ![h] = "invite", ![c] = "watch"]
  /\ session' = [session EXCEPT ![h] = c]
  /\ UNCHANGED <<pointer, closed, ready, conn, index, links, asked, told>>

\* processConnect: TMessConnect to the sending peer; disconnectPeers if it fails.
Invite(h) ==
  /\ pc[h] = "invite"
  /\ \E label \in {"idle", "cad"} : Goto(h, label)
  /\ UNCHANGED <<channels, pointer, closed, ready, conn, session, index, links, asked, told>>

\* processAgentAddCode: a session of the master.
AddCode(h, c) ==
  /\ Mode = "Node" /\ pc[h] = "idle" /\ pc[c] = "off"
  /\ channels' = channels \cup {c}
  /\ Goto(c, "watch")
  /\ UNCHANGED <<pointer, closed, ready, conn, session, index, links, asked, told>>

\* processDisconnect of a client, processAgentDelCode of the master: disconnectPeers.
Disconnect(h, c) ==
  /\ pc[h] = "idle"
  /\ Goto(h, "cad")
  /\ session' = [session EXCEPT ![h] = c]
  /\ asked' = asked \cup {c}
  /\ UNCHANGED <<channels, pointer, closed, ready, conn, index, links, told>>

(***************************************************************************)
(* disconnectPair, run by any goroutine t on the pair of its session.      *)
(***************************************************************************)

\* channels.CompareAndDelete: the first to get here ends the session.
CompareAndDelete(t) ==
  /\ pc[t] = "cad"
  /\ \/ /\ session[t] \in channels
        /\ channels' = channels \ {session[t]}
        /\ Goto(t, "teardown")
        /\ UNCHANGED conn
     \/ /\ session[t] \notin channels
        /\ Exit(t)
        /\ Close(Own(t))
        /\ UNCHANGED channels
  /\ UNCHANGED <<pointer, closed, ready, session, index, links, asked, told>>

\* Mutant of Teardown: the nil pointer of an empty seat is closed like a connection.
TeardownNil(t) ==
  LET c == session[t] IN
  /\ pc[t] = "teardown"
  /\ closed' = [closed EXCEPT ![c] = TRUE]
  /\ links' = [links EXCEPT ![t] = {pointer[c][0], pointer[c][1]}]
  /\ IF Empty(c, 0) \/ Empty(c, 1) THEN CloseReady(c) ELSE UNCHANGED ready
  /\ Goto(t, "hangup")
  /\ UNCHANGED <<channels, pointer, conn, session, index, asked, told>>

\* The critical section.
Teardown(t) ==
  LET c == session[t] IN
  /\ pc[t] = "teardown"
  /\ closed' = [closed EXCEPT ![c] = TRUE]
  /\ links' = [links EXCEPT ![t] = Members(c)]
  /\ IF Empty(c, 0) \/ Empty(c, 1) THEN CloseReady(c) ELSE UNCHANGED ready
  /\ Goto(t, "hangup")
  /\ UNCHANGED <<channels, pointer, conn, session, index, asked, told>>

\* Mutant of Hangup: a dataHandler leaves it to its partner to close the other connection.
HangupOwn(t) ==
  /\ pc[t] = "hangup"
  /\ Close(Own(t))
  /\ links' = [links EXCEPT ![t] = {}]
  /\ told' = IF Mode = "Node" THEN told \cup {session[t]} ELSE told
  /\ Exit(t)
  /\ UNCHANGED <<channels, pointer, closed, ready, session, index, asked>>

\* Closing both connections and, on a node, telling the master.
Hangup(t) ==
  /\ pc[t] = "hangup"
  /\ Close(links[t] \cup Own(t))
  /\ links' = [links EXCEPT ![t] = {}]
  /\ told' = IF Mode = "Node" THEN told \cup {session[t]} ELSE told
  /\ Exit(t)
  /\ UNCHANGED <<channels, pointer, closed, ready, session, index, asked>>

DisconnectPair(t) == CompareAndDelete(t) \/ Teardown(t) \/ Hangup(t)

(***************************************************************************)
(* checkConnection of code c.                                              *)
(***************************************************************************)

\* select: the pair became ready, or WaitConnection ran out; if both, either.
WatchReady(c) ==
  /\ pc[c] = "watch" /\ ready[c] > 0
  /\ Goto(c, "done")
  /\ UNCHANGED <<channels, pointer, closed, ready, conn, session, index, links, asked, told>>

WatchTimeout(c) ==
  /\ pc[c] = "watch"
  /\ Goto(c, "check")
  /\ UNCHANGED <<channels, pointer, closed, ready, conn, session, index, links, asked, told>>

Expired(c) == ~closed[c] /\ (Empty(c, 0) \/ Empty(c, 1))
Unused(c) == Empty(c, 0) /\ Empty(c, 1)

\* Mutants of Check: an unused code of a node is ended with a report, or the timer of
\* an unused session does nothing.
CheckEager(c) ==
  /\ pc[c] = "check"
  /\ Goto(c, IF Expired(c) THEN "cad" ELSE "done")
  /\ UNCHANGED <<channels, pointer, closed, ready, conn, session, index, links, asked, told>>

CheckUsed(c) ==
  /\ pc[c] = "check"
  /\ Goto(c, IF Expired(c) /\ ~Unused(c) THEN "cad" ELSE "done")
  /\ UNCHANGED <<channels, pointer, closed, ready, conn, session, index, links, asked, told>>

\* The read section, and what follows from what it saw: a node forgets an
\* unused code, else the viewer is alerted and the session ended.
Check(c) ==
  /\ pc[c] = "check"
  /\ \/ ~Expired(c) /\ Goto(c, "done")
     \/ Expired(c) /\ Mode = "Node" /\ Unused(c) /\ Goto(c, "reap")
     \/ Expired(c) /\ ~(Mode = "Node" /\ Unused(c)) /\ Goto(c, "cad")
  /\ UNCHANGED <<channels, pointer, closed, ready, conn, session, index, links, asked, told>>

\* Mutant of Reap: the seat is not looked at again.
ReapBlind(c) ==
  /\ pc[c] = "reap" /\ c \in channels
  /\ channels' = channels \ {c}
  /\ closed' = [closed EXCEPT ![c] = TRUE]
  /\ CloseReady(c)
  /\ Goto(c, "done")
  /\ UNCHANGED <<pointer, conn, session, index, links, asked, told>>

\* The critical section of a node.  CompareAndDelete is its only operation that
\* others see before the mutex is released, so the section is one step.
Reap(c) ==
  /\ pc[c] = "reap"
  /\ \/ /\ Empty(c, 0) /\ c \in channels
        /\ channels' = channels \ {c}
        /\ closed' = [closed EXCEPT ![c] = TRUE]
        /\ CloseReady(c)
     \/ /\ ~(Empty(c, 0) /\ c \in channels)
        /\ UNCHANGED <<channels, closed, ready>>
  /\ Goto(c, "done")
  /\ UNCHANGED <<pointer, conn, session, index, links, asked, told>>

(***************************************************************************)
(* dataHandler of connection d.                                            *)
(***************************************************************************)

\* A peer connects and sends a code; channels.Load.
Dial(d, c) ==
  /\ pc[d] = "idle"
  /\ \/ /\ c \in channels
        /\ session' = [session EXCEPT ![d] = c]
        /\ conn' = [conn EXCEPT ![d] = "open"]
        /\ Goto(d, "join")
     \/ /\ c \notin channels
        /\ Close({d})
        /\ Goto(d, "done")
        /\ UNCHANGED session
  /\ UNCHANGED <<channels, pointer, closed, ready, index, links, asked, told>>

\* Mutant of Refused: a full pair is refused, a closed one is not.
RefusedFull(c) == ~Empty(c, 1)

Refused(c) == closed[c] \/ ~Empty(c, 1)

\* The critical section: the connection takes the first free seat.
Join(d) ==
  LET c == session[d]
      seat == IF Empty(c, 0) THEN 0 ELSE 1
  IN
  /\ pc[d] = "join"
  /\ \/ /\ Refused(c)
        /\ Exit(d) /\ Close({d})
        /\ UNCHANGED <<pointer, ready, index>>
     \/ /\ ~Refused(c)
        /\ pointer' = [pointer EXCEPT ![c][seat] = d]
        /\ index' = [index EXCEPT ![d] = seat]
        /\ IF seat = 1 THEN CloseReady(c) ELSE UNCHANGED ready
        /\ Goto(d, IF seat = 0 THEN "announce" ELSE "wait")
        /\ UNCHANGED conn
  /\ UNCHANGED <<channels, closed, session, links, asked, told>>

\* A regular server invites the viewer and gives up if it cannot; a node sends
\* TMessAgentNewConn and does not look whether the master got it.
Announce(d) ==
  /\ pc[d] = "announce"
  /\ \E label \in {"wait"} \cup (IF Mode = "Regular" THEN {"cad"} ELSE {}) : Goto(d, label)
  /\ UNCHANGED <<channels, pointer, closed, ready, conn, session, index, links, asked, told>>

\* select: ready, or WaitCount * WaitIdle ran out; if both, either.
WaitReady(d) ==
  /\ pc[d] = "wait" /\ ready[session[d]] > 0
  /\ Goto(d, "look")
  /\ UNCHANGED <<channels, pointer, closed, ready, conn, session, index, links, asked, told>>

WaitTimeout(d) ==
  /\ pc[d] = "wait"
  /\ Goto(d, "cad")
  /\ UNCHANGED <<channels, pointer, closed, ready, conn, session, index, links, asked, told>>

\* Mutant of Look: the pair is not asked whether it was closed meanwhile.
LookSeat(d) ==
  LET c == session[d] IN
  /\ pc[d] = "look"
  /\ Goto(d, IF Empty(c, 1 - index[d]) THEN "cad" ELSE "copy")
  /\ UNCHANGED <<channels, pointer, closed, ready, conn, session, index, links, asked, told>>

\* The read section after ready.
Look(d) ==
  LET c == session[d] IN
  /\ pc[d] = "look"
  /\ Goto(d, IF closed[c] \/ Empty(c, 1 - index[d]) THEN "cad" ELSE "copy")
  /\ UNCHANGED <<channels, pointer, closed, ready, conn, session, index, links, asked, told>>

\* Mutant of CopyEnds: no deferred disconnectPair.
CopyEndsAlone(d) ==
  /\ pc[d] = "copy" /\ conn[d] # "open"
  /\ Exit(d) /\ Close({d})
  /\ UNCHANGED <<channels, pointer, closed, ready, session, index, links, asked, told>>

\* io.CopyBuffer returns: its own connection ended, ...
CopyEnds(d) ==
  /\ pc[d] = "copy" /\ conn[d] # "open"
  /\ Goto(d, "cad")
  /\ UNCHANGED <<channels, pointer, closed, ready, conn, session, index, links, asked, told>>

\* ... or a write to the other one failed or took WriteTimeout.
WriteFails(d) ==
  /\ pc[d] = "copy"
  /\ Goto(d, "cad")
  /\ UNCHANGED <<channels, pointer, closed, ready, conn, session, index, links, asked, told>>

\* The peer ends its connection.
PeerLeaves(d) ==
  /\ conn[d] = "open"
  /\ conn' = [conn EXCEPT ![d] = "remote"]
  /\ UNCHANGED <<channels, pointer, closed, ready, pc, session, index, links, asked, told>>

(***************************************************************************)
(* What the server does by itself, and the whole.                          *)
(***************************************************************************)
HandlerStep(h) == Invite(h) \/ DisconnectPair(h)
WatchStep(c) == WatchReady(c) \/ WatchTimeout(c) \/ Check(c) \/ Reap(c) \/ DisconnectPair(c)
ConnStep(d) == \/ Join(d) \/ Announce(d) \/ WaitReady(d) \/ WaitTimeout(d)
               \/ Look(d) \/ CopyEnds(d) \/ DisconnectPair(d)

Next ==
  \/ \E h \in Handlers : HandlerStep(h)
  \/ \E c \in Codes : WatchStep(c)
  \/ \E d \in Conns : ConnStep(d) \/ WriteFails(d) \/ PeerLeaves(d)
  \/ \E h \in Handlers, c \in Codes : Connect(h, c) \/ AddCode(h, c) \/ Disconnect(h, c)
  \/ \E d \in Conns, c \in Codes : Dial(d, c)

\* Every select has a timer and every write a deadline, so a goroutine that is
\* not waiting for its peer goes on.  Nothing is assumed of the peers.
Fairness ==
  /\ \A h \in Handlers : WF_vars(HandlerStep(h))
  /\ \A c \in Codes : WF_vars(WatchStep(c))
  /\ \A d \in Conns : WF_vars(ConnStep(d))

Spec == Init /\ [][Next]_vars /\ Fairness

(***************************************************************************)
(* Safety.                                                                 *)
(***************************************************************************)
Made(c) == pc[c] # "off"
TearsDown(t, c) == session[t] = c /\ pc[t] \in {"teardown", "hangup"}

\* A dataHandler that sits in a pair and whose deferred disconnectPair is to come.
Owing == {"announce", "wait", "look", "copy", "cad"}

\* dConn.ready is closed by the second dataHandler, by disconnectPair and by
\* checkConnection, in whatever order they come: it is closed once, and it is
\* closed exactly when the pair is complete or closed.  A second close panics with
\* the mutex held, or ends the process when checkConnection does it.
ReadyClosedOnce ==
  \A c \in Codes : ready[c] = IF closed[c] \/ ~Empty(c, 1) THEN 1 ELSE 0

\* No session stays in `channels` that nobody is going to remove: its timer is
\* still to come, or a dataHandler that sits in it still owes its disconnectPair.
NoOrphanSession ==
  \A c \in channels :
    \/ pc[c] \in {"watch", "check", "reap", "cad"}
    \/ \E d \in Members(c) : pc[d] \in Owing

\* Once a session is out of `channels` and nobody is tearing it down any more, every
\* connection that ever sat in it is closed, however late it joined.
EndedSessionHungUp ==
  \A c \in Codes :
    (Made(c) /\ c \notin channels /\ \A t \in Threads : ~TearsDown(t, c))
      => closed[c] /\ \A d \in Members(c) : conn[d] = "closed"

\* server.go: "Other nodes received this code too; an unused copy must not end their
\* session."  A node reports the end of a code to the master only if a peer used its
\* copy, or if the end was asked for.
UnusedCopySilent ==
  \A c \in told : ~Empty(c, 0) \/ c \in asked

\* The converse: a node never drops a copy that a peer used without telling the
\* master, whose own pair and invitation would otherwise live on.
UsedCopyReported ==
  Mode = "Node" =>
    \A c \in Codes :
      (Made(c) /\ c \notin channels /\ ~Empty(c, 0) /\ \A t \in Threads : ~TearsDown(t, c))
        => c \in told

(***************************************************************************)
(* Liveness.                                                               *)
(***************************************************************************)

\* Every session is complete or gone some time after it was made: two peers meet, or
\* one of the timers of checkConnection and dataHandler ends it.
MeetOrEnd ==
  \A c \in Codes : (c \in channels) ~> (c \notin channels \/ ~Empty(c, 1))

\* When one connection of a session breaks, the session ends and the partner, idle as
\* it may be, is closed too.
BreakEndsSession ==
  \A d \in Conns, c \in Codes :
    (d \in Members(c) /\ conn[d] # "open")
      ~> (c \notin channels /\ \A e \in Members(c) : conn[e] = "closed")

(***************************************************************************)
(* What the goroutines do, seen from outside, is what Session promises.    *)
(***************************************************************************)
Phase == [c \in Codes |->
  IF ~Made(c) THEN "absent" ELSE IF c \in channels THEN "open"
  ELSE IF closed[c] THEN "over" ELSE "ending"]

Abstract == INSTANCE Session WITH
  phase      <- Phase,
  members    <- [c \in Codes |-> Members(c)],
  forwarding <- {d \in Conns : pc[d] = "copy"},
  ended      <- {d \in Conns : conn[d] = "closed" /\ \E c \in Codes : d \in Members(c)}

\* Every behaviour of the goroutines is one that Session allows, and a session that
\* starts to end is ended to the last connection.
ImplementsSession == Abstract!Spec

(***************************************************************************)
(* The inductive invariant behind the safety properties.                   *)
(***************************************************************************)
Ending == {"cad", "teardown", "hangup"}
Seated == Owing \cup Ending

\* Which labels the three kinds of goroutines have, and that they know their code.
LocalInv ==
  /\ \A h \in Handlers : pc[h] \in {"idle", "invite"} \cup Ending
  /\ \A c \in Codes :
       /\ pc[c] \in {"off", "watch", "check", "reap", "done"} \cup Ending
       /\ session[c] = c
  /\ \A d \in Conns :
       /\ pc[d] \in {"idle", "join", "done"} \cup Seated
       /\ session[d] # None => Made(session[d])
       /\ pc[d] = "join" => conn[d] # "closed"
  /\ \A t \in Threads : pc[t] \notin {"off", "idle", "done"} => session[t] \in Codes

\* A seat and the dataHandler in it know each other; the first seat is taken first.
SeatInv ==
  /\ \A d \in Conns : pc[d] \in Seated => pointer[session[d]][index[d]] = d
  /\ \A c \in Codes, i \in {0, 1} :
       ~Empty(c, i) => /\ session[pointer[c][i]] = c
                       /\ index[pointer[c][i]] = i
                       /\ pc[pointer[c][i]] \in Seated \cup {"done"}
  /\ \A c \in Codes : Empty(c, 0) => Empty(c, 1)

\* One goroutine at most ends a session, and it alone closes the pair.
EndInv ==
  /\ \A c \in channels : Made(c)
  /\ \A c \in Codes : closed[c] => Made(c) /\ c \notin channels
  /\ \A t \in Threads, c \in Codes : TearsDown(t, c) =>
       /\ Made(c) /\ c \notin channels
       /\ pc[t] = "teardown" => ~closed[c]
       /\ pc[t] = "hangup" => closed[c] /\ links[t] = Members(c)
       /\ \A u \in Threads : TearsDown(u, c) => u = t

\* The timer guards a session nobody joined; whoever joined owes its end.
GuardInv ==
  \A c \in channels :
    /\ \A d \in Members(c) : pc[d] \in Owing
    /\ Empty(c, 0) => pc[c] \in {"watch", "check", "reap", "cad"}

\* Whoever ends a code with a report to the master has a reason to.
ReportInv ==
  /\ told # {} => Mode = "Node"
  /\ Mode = "Node" => /\ \A c \in Codes : pc[c] \in Ending => ~Empty(c, 0)
                      /\ \A h \in Handlers : pc[h] # "invite" /\ (pc[h] \in Ending => session[h] \in asked)

IInv == /\ TypeOK /\ LocalInv /\ SeatInv /\ ReadyClosedOnce /\ EndInv
        /\ EndedSessionHungUp /\ GuardInv /\ ReportInv
        /\ UnusedCopySilent /\ UsedCopyReported
=============================================================================

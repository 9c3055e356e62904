------------------------------ MODULE Cluster ------------------------------
(***************************************************************************)
(* A master and its nodes.  The master has the control connections and     *)
(* decides which sessions there are; it tells their codes to every node,   *)
(* machines connect to a node, and what master and nodes know of a session *)
(* is kept together by messages over one TCP connection (a link) from each *)
(* node.  Links break, nodes crash and dial again.                         *)
(*                                                                         *)
(* Here a node's copy of a session is a single value: Relay has the        *)
(* goroutines behind it (its Mode = "Node").  The master has no data       *)
(* connections, so its pairs keep their pointers nil.                      *)
(***************************************************************************)
EXTENDS Integers, Sequences

CONSTANTS Nodes,     \* node processes
          Links,     \* TCP connections to MasterServer, and their masterHandler
          Fragile,   \* bound: the links that may break
          Lossy,     \* bound: the links that may lose a message and stay up
          Codes,     \* codes, and the master's checkConnection of each
          Handlers,  \* goroutines that serve the master's control connections
          None       \* nil

Threads == Links \cup Codes \cup Handlers

ASSUME ClusterAssumption ==
  /\ Fragile \subseteq Links /\ Lossy \subseteq Links
  /\ Links \cap Codes = {} /\ Links \cap Handlers = {} /\ Codes \cap Handlers = {}
  /\ None \notin Threads \cup Nodes
  /\ Nodes \cap {"waits", "invited"} = {}

VARIABLES channels,  \* master: the codes in its map
          closed,    \* master: dConn.closed
          node,      \* master: dConn.node, by its link
          nodes,     \* master: the map of links that authorized
          pc,        \* where a goroutine of the master is
          session,   \* the code it works on
          todo,      \* links its Range over `nodes` has still to reach
          visit,     \* codes its Range over `channels` has still to reach
          side,      \* the node that dialed a link
          up,        \* the link carries messages
          toMaster,  \* messages on their way, ...
          toNode,    \* ... in either direction
          missedByMaster, \* codes whose DelCode was lost on a link that stayed up, ...
          missedByNode,   \* ... in either direction
          master,    \* node: the variable `master`
          client,    \* node: where NodeClient is
          copy,      \* node: its own pair of a code
          owed,      \* node: messages its goroutines are about to send to the master
          machine    \* what the two machines of a session were told, and where they went

masters == <<channels, closed, node, nodes>>
threads == <<pc, session, todo, visit>>
reports == <<toMaster, missedByMaster>>
orders == <<toNode, missedByNode>>
queues == <<reports, orders>>
locals == <<master, client, copy, owed>>
vars == <<masters, threads, side, up, queues, locals, machine>>

Roles == {"server", "viewer"}
Message == [kind : {"auth", "add", "del", "new"}, code : Codes \cup {None}]
Msg(kind, c) == [kind |-> kind, code |-> c]

Label == {"off", "idle", "done", "adding", "cad", "teardown", "deleting",
          "watch", "new", "read", "farewell", "range"}

TypeOK ==
  /\ channels \in SUBSET Codes
  /\ closed \in [Codes -> BOOLEAN]
  /\ node \in [Codes -> Links \cup {None}]
  /\ nodes \in SUBSET Links
  /\ pc \in [Threads -> Label]
  /\ session \in [Threads -> Codes \cup {None}]
  /\ todo \in [Threads -> SUBSET Links]
  /\ visit \in [Links -> SUBSET Codes]
  /\ side \in [Links -> Nodes \cup {None}]
  /\ up \in [Links -> BOOLEAN]
  /\ toMaster \in [Links -> Seq(Message)]
  /\ toNode \in [Links -> Seq(Message)]
  /\ missedByMaster \in [Links -> SUBSET (Codes \cup {None})]
  /\ missedByNode \in [Links -> SUBSET (Codes \cup {None})]
  /\ master \in [Nodes -> Links \cup {None}]
  /\ client \in [Nodes -> {"dial", "auth", "hello", "read"}]
  /\ copy \in [Nodes -> [Codes -> {"none", "unused", "waiting", "relaying"}]]
  /\ owed \in [Nodes -> SUBSET Message]
  /\ machine \in [Codes -> [Roles -> {"waits", "invited"} \cup Nodes]]

Init ==
  /\ channels = {}
  /\ closed = [c \in Codes |-> FALSE]
  /\ node = [c \in Codes |-> None]
  /\ nodes = {}
  /\ pc = [t \in Threads |-> IF t \in Handlers THEN "idle" ELSE "off"]
  /\ session = [t \in Threads |-> IF t \in Codes THEN t ELSE None]
  /\ todo = [t \in Threads |-> {}]
  /\ visit = [l \in Links |-> {}]
  /\ side = [l \in Links |-> None]
  /\ up = [l \in Links |-> FALSE]
  /\ toMaster = [l \in Links |-> <<>>]
  /\ toNode = [l \in Links |-> <<>>]
  /\ missedByMaster = [l \in Links |-> {}]
  /\ missedByNode = [l \in Links |-> {}]
  /\ master = [n \in Nodes |-> None]
  /\ client = [n \in Nodes |-> "dial"]
  /\ copy = [n \in Nodes |-> [c \in Codes |-> "none"]]
  /\ owed = [n \in Nodes |-> {}]
  /\ machine = [c \in Codes |-> [r \in Roles |-> "waits"]]

Goto(t, label) == pc' = [pc EXCEPT ![t] = label]

\* A goroutine is through with a session: a masterHandler reads on, or, if it has left
\* `nodes` already, continues with its other sessions.
Return(t) ==
  /\ Goto(t, IF t \in Handlers THEN "idle"
             ELSE IF t \in Codes THEN "done"
             ELSE IF t \in nodes THEN "read" ELSE "range")
  /\ session' = [session EXCEPT ![t] = IF t \in Codes THEN t ELSE None]

(***************************************************************************)
(* The network.  A message sent on a link that is down is lost; one that   *)
(* is under way when it breaks may still be read, or not (see Leave and    *)
(* LoseMaster, which drop the rest).  A link that is up may lose a message *)
(* too: a write whose deadline passes before its first byte is out leaves  *)
(* the connection as it is (Control), and sendMessageToNodes and           *)
(* sendMessageToMaster do not look at the error.                           *)
(***************************************************************************)
Carry(queue, l, m) == IF l # None /\ up[l] THEN [queue EXCEPT ![l] = Append(@, m)] ELSE queue

\* m is lost on link l, which stays up.
Lose(missed, l, m) ==
  /\ l \in Lossy /\ up[l]
  /\ missed' = [missed EXCEPT ![l] = IF m.kind = "del" THEN @ \cup {m.code} ELSE @]

\* sendMessage to the node of link l
SendToNode(l, m) ==
  \/ toNode' = Carry(toNode, l, m) /\ UNCHANGED missedByNode
  \/ Lose(missedByNode, l, m) /\ UNCHANGED toNode

\* sendMessageToMaster on node n
SendToMaster(n, m) ==
  \/ toMaster' = Carry(toMaster, master[n], m) /\ UNCHANGED missedByMaster
  \/ Lose(missedByMaster, master[n], m) /\ UNCHANGED toMaster

\* The link of node n closes, if it has one.
HangUp(n) == up' = [l \in Links |-> l # master[n] /\ up[l]]

\* A message of some kind is next on the queue q, and is read.
Reads(q, kind) == q # <<>> /\ Head(q).kind = kind

Break(l) ==
  /\ l \in Fragile /\ up[l]
  /\ up' = [up EXCEPT ![l] = FALSE]
  /\ UNCHANGED <<masters, threads, side, queues, locals, machine>>

(***************************************************************************)
(* The master: requests of clients.                                        *)
(***************************************************************************)

\* processConnect: connectPeers puts the new code into the map, starts its timer and
\* begins to tell the nodes.
Connect(h, c) ==
  /\ pc[h] = "idle" /\ pc[c] = "off"
  /\ channels' = channels \cup {c}
  /\ pc' = [pc EXCEPT ![h] = "adding", ![c] = "watch"]
  /\ session' = [session EXCEPT ![h] = c]
  /\ todo' = [todo EXCEPT ![h] = nodes]
  /\ UNCHANGED <<closed, node, nodes, visit, side, up, queues, locals, machine>>

\* connectPeers: sendMessageToNodes(TMessAgentAddCode), one node after the other.
SendAdd(h) ==
  /\ pc[h] = "adding"
  /\ \E l \in todo[h] :
       /\ todo' = [todo EXCEPT ![h] = @ \ {l}]
       /\ SendToNode(l, Msg("add", session[h]))
  /\ UNCHANGED <<masters, pc, session, visit, side, up, reports, locals, machine>>

\* processConnect: then TMessConnect to the machine that serves; disconnectPeers if it
\* fails.
Invite(h) ==
  /\ pc[h] = "adding" /\ todo[h] = {}
  /\ \/ /\ machine' = [machine EXCEPT ![session[h]]["server"] = "invited"]
        /\ Return(h)
     \/ Goto(h, "cad") /\ UNCHANGED <<machine, session>>
  /\ UNCHANGED <<masters, todo, visit, side, up, queues, locals>>

\* processDisconnect, by a client that was told the code: disconnectPeers, if channels.Load
\* finds it.
Disconnect(h, c) ==
  /\ pc[h] = "idle" /\ machine[c]["server"] # "waits" /\ c \in channels
  /\ session' = [session EXCEPT ![h] = c]
  /\ Goto(h, "cad")
  /\ UNCHANGED <<masters, todo, visit, side, up, queues, locals, machine>>

(***************************************************************************)
(* The master: disconnectPair, by any goroutine t.                         *)
(***************************************************************************)

CompareAndDelete(t) ==
  /\ pc[t] = "cad"
  /\ \/ /\ session[t] \in channels
        /\ channels' = channels \ {session[t]}
        /\ Goto(t, "teardown")
        /\ UNCHANGED session
     \/ /\ session[t] \notin channels
        /\ Return(t)
        /\ UNCHANGED channels
  /\ UNCHANGED <<closed, node, nodes, todo, visit, side, up, queues, locals, machine>>

\* Mutant of Teardown: the node that has the session is not told.
TeardownOthers(t) ==
  /\ pc[t] = "teardown"
  /\ closed' = [closed EXCEPT ![session[t]] = TRUE]
  /\ todo' = [todo EXCEPT ![t] = nodes \ {node[session[t]]}]
  /\ Goto(t, "deleting")
  /\ UNCHANGED <<channels, node, nodes, session, visit, side, up, queues, locals, machine>>

\* The critical section, and the start of sendMessageToNodes.
Teardown(t) ==
  /\ pc[t] = "teardown"
  /\ closed' = [closed EXCEPT ![session[t]] = TRUE]
  /\ todo' = [todo EXCEPT ![t] = nodes]
  /\ Goto(t, "deleting")
  /\ UNCHANGED <<channels, node, nodes, session, visit, side, up, queues, locals, machine>>

\* sendMessageToNodes(TMessAgentDelCode)
SendDel(t) ==
  /\ pc[t] = "deleting"
  /\ \/ \E l \in todo[t] :
          /\ todo' = [todo EXCEPT ![t] = @ \ {l}]
          /\ SendToNode(l, Msg("del", session[t]))
          /\ UNCHANGED <<pc, session>>
     \/ /\ todo[t] = {}
        /\ Return(t)
        /\ UNCHANGED <<todo, orders>>
  /\ UNCHANGED <<masters, visit, side, up, reports, locals, machine>>

DisconnectPair(t) == CompareAndDelete(t) \/ Teardown(t) \/ SendDel(t)

(***************************************************************************)
(* The master: checkConnection of code c.                                  *)
(***************************************************************************)

\* select: `ready` is closed with the pair, or WaitConnection ran out; then the read
\* section, which leaves a session alone that a node has taken.
Watch(c) ==
  /\ pc[c] = "watch"
  /\ Goto(c, IF closed[c] \/ node[c] # None THEN "done" ELSE "cad")
  /\ UNCHANGED <<masters, session, todo, visit, side, up, queues, locals, machine>>

(***************************************************************************)
(* The master: masterHandler of link l.                                    *)
(***************************************************************************)

\* processAgentAuth: the reply, which nobody but this node sees, and nodes.Store.  (What
\* clients are told of nodes is left out.)
AgentAuth(l) ==
  /\ pc[l] = "new" /\ Reads(toMaster[l], "auth")
  /\ toMaster' = [toMaster EXCEPT ![l] = Tail(@)]
  /\ toNode' = Carry(toNode, l, Msg("auth", None))
  /\ nodes' = nodes \cup {l}
  /\ Goto(l, "read")
  /\ UNCHANGED <<channels, closed, node, session, todo, visit, side, up, missedByMaster, missedByNode,
                 locals, machine>>

\* The link ends before it has authorized: it breaks (a read deadline that passes, or a
\* reply that cannot be sent, is a break too), or something else came before Auth.
GiveUp(l) ==
  /\ pc[l] = "new"
  /\ ~up[l] \/ (toMaster[l] # <<>> /\ ~Reads(toMaster[l], "auth"))
  /\ up' = [up EXCEPT ![l] = FALSE]
  /\ toMaster' = [toMaster EXCEPT ![l] = <<>>]
  /\ Goto(l, "done")
  /\ UNCHANGED <<masters, session, todo, visit, side, orders, missedByMaster, locals, machine>>

\* Mutant of AgentNewConn: the pair remembers the node, not its link.
AgentNewConnName(l) ==
  /\ pc[l] = "read" /\ Reads(toMaster[l], "new")
  /\ LET c == Head(toMaster[l]).code IN
       \/ /\ pc[c] # "off" /\ ~closed[c] /\ node[c] = None
          /\ node' = [node EXCEPT ![c] = side[l]]
          /\ machine' = [machine EXCEPT ![c]["viewer"] = "invited"]
       \/ /\ c \notin channels \/ node[c] # None
          /\ UNCHANGED <<node, machine>>
  /\ toMaster' = [toMaster EXCEPT ![l] = Tail(@)]
  /\ UNCHANGED <<channels, closed, nodes, threads, side, up, orders, missedByMaster, locals>>

\* processAgentNewConn: the first node with a machine of the session takes it, and the
\* viewer is invited, if the message arrives.  A pair that was loaded just before it left
\* the map counts until it is closed; without a pair there is nothing to load.
AgentNewConn(l) ==
  /\ pc[l] = "read" /\ Reads(toMaster[l], "new")
  /\ LET c == Head(toMaster[l]).code IN
       \/ /\ pc[c] # "off" /\ ~closed[c] /\ node[c] = None
          /\ node' = [node EXCEPT ![c] = l]
          /\ machine' \in {machine, [machine EXCEPT ![c]["viewer"] = "invited"]}
       \/ /\ c \notin channels \/ node[c] # None
          /\ UNCHANGED <<node, machine>>
  /\ toMaster' = [toMaster EXCEPT ![l] = Tail(@)]
  /\ UNCHANGED <<channels, closed, nodes, threads, side, up, orders, missedByMaster, locals>>

\* processAgentDelCode: disconnectPeers, for whatever node.
AgentDelCode(l) ==
  /\ pc[l] = "read" /\ Reads(toMaster[l], "del")
  /\ LET c == Head(toMaster[l]).code IN
       IF c \in channels
       THEN Goto(l, "cad") /\ session' = [session EXCEPT ![l] = c]
       ELSE UNCHANGED <<pc, session>>
  /\ toMaster' = [toMaster EXCEPT ![l] = Tail(@)]
  /\ UNCHANGED <<masters, todo, visit, side, up, orders, missedByMaster, locals, machine>>

\* The deferred function of masterHandler: readMessage failed, the node is deleted, ...
Leave(l) ==
  /\ pc[l] = "read" /\ ~up[l]
  /\ toMaster' = [toMaster EXCEPT ![l] = <<>>]
  /\ nodes' = nodes \ {l}
  /\ Goto(l, "farewell")
  /\ UNCHANGED <<channels, closed, node, session, todo, visit, side, up, orders, missedByMaster, locals, machine>>

\* Mutant of Farewell: the sessions of the node stay.
FarewellOnly(l) ==
  /\ pc[l] = "farewell"
  /\ Goto(l, "done")
  /\ UNCHANGED <<channels, closed, node, nodes, session, todo, visit, side, up, queues, locals, machine>>

\* ... the clients are told, and the Range over the sessions begins, ...
Farewell(l) ==
  /\ pc[l] = "farewell"
  /\ visit' = [visit EXCEPT ![l] = channels]
  /\ Goto(l, "range")
  /\ UNCHANGED <<masters, session, todo, side, up, queues, locals, machine>>

\* ... and each session of the node is disconnected.
Visit(l) ==
  /\ pc[l] = "range"
  /\ \/ \E c \in visit[l] :
          /\ visit' = [visit EXCEPT ![l] = @ \ {c}]
          /\ IF node[c] = l
             THEN Goto(l, "cad") /\ session' = [session EXCEPT ![l] = c]
             ELSE UNCHANGED <<pc, session>>
     \/ /\ visit[l] = {}
        /\ Goto(l, "done")
        /\ UNCHANGED <<visit, session>>
  /\ UNCHANGED <<masters, todo, side, up, queues, locals, machine>>

(***************************************************************************)
(* A node n: its link.                                                     *)
(***************************************************************************)

\* NodeClient dials, and `master` is set.  NodeClient has slept for WaitIdleAgent
\* (2 s) before it dials again; a dataHandler that took a seat sends its NewConn at
\* once, so none is half way through that here.  (Which unused link is taken is a matter
\* of names.)
Dial(n) ==
  LET l == CHOOSE k \in Links : pc[k] = "off" IN
  /\ client[n] = "dial" /\ \E k \in Links : pc[k] = "off"
  /\ \A m \in owed[n] : m.kind # "new"
  /\ side' = [side EXCEPT ![l] = n]
  /\ up' = [up EXCEPT ![l] = TRUE]
  /\ master' = [master EXCEPT ![n] = l]
  /\ client' = [client EXCEPT ![n] = "auth"]
  /\ Goto(l, "new")
  /\ UNCHANGED <<masters, session, todo, visit, queues, copy, owed, machine>>

SendAuth(n) ==
  /\ client[n] = "auth"
  /\ toMaster' = Carry(toMaster, master[n], Msg("auth", None))
  /\ client' = [client EXCEPT ![n] = "hello"]
  /\ UNCHANGED <<masters, threads, side, up, orders, missedByMaster, master, copy, owed, machine>>

\* nodeReadLoop gets the answer.
Authorized(n) ==
  /\ client[n] = "hello" /\ Reads(toNode[master[n]], "auth")
  /\ toNode' = [toNode EXCEPT ![master[n]] = Tail(@)]
  /\ client' = [client EXCEPT ![n] = "read"]
  /\ UNCHANGED <<masters, threads, side, up, reports, missedByNode, master, copy, owed, machine>>

\* nodeReadLoop ends with the link, which is closed, and `master` is reset.  (Nothing
\* comes before the answer to Auth: the master sends it before it knows the node.)
LoseMaster(n) ==
  /\ client[n] \in {"hello", "read"} /\ ~up[master[n]]
  /\ HangUp(n)
  /\ toNode' = [toNode EXCEPT ![master[n]] = <<>>]
  /\ master' = [master EXCEPT ![n] = None]
  /\ client' = [client EXCEPT ![n] = "dial"]
  /\ UNCHANGED <<masters, threads, side, reports, missedByNode, copy, owed, machine>>

\* The process ends, and starts anew.
Crash(n) ==
  /\ master[n] \in Fragile \cup {None}
  /\ master[n] # None \/ \E c \in Codes : copy[n][c] # "none"
  /\ HangUp(n)
  /\ toNode' = [l \in Links |-> IF l = master[n] THEN <<>> ELSE toNode[l]]
  /\ master' = [master EXCEPT ![n] = None]
  /\ client' = [client EXCEPT ![n] = "dial"]
  /\ copy' = [copy EXCEPT ![n] = [c \in Codes |-> "none"]]
  /\ owed' = [owed EXCEPT ![n] = {}]
  /\ UNCHANGED <<masters, threads, side, reports, missedByNode, machine>>

(***************************************************************************)
(* A node n: its copies of sessions.                                       *)
(***************************************************************************)
Turn(n, c, state) == copy' = [copy EXCEPT ![n][c] = state]

\* processAgentAddCode: LoadOrStore.
AgentAddCode(n) ==
  /\ client[n] = "read" /\ Reads(toNode[master[n]], "add")
  /\ LET c == Head(toNode[master[n]]).code IN
       IF copy[n][c] = "none" THEN Turn(n, c, "unused") ELSE UNCHANGED copy
  /\ toNode' = [toNode EXCEPT ![master[n]] = Tail(@)]
  /\ UNCHANGED <<masters, threads, side, up, reports, missedByNode, master, client, owed, machine>>

\* disconnectPair on a node: the copy goes, and the master will be told.
End(n, c) ==
  /\ Turn(n, c, "none")
  /\ owed' = [owed EXCEPT ![n] = @ \cup {Msg("del", c)}]

\* processAgentDelCode on a node.
NodeDelCode(n) ==
  /\ client[n] = "read" /\ Reads(toNode[master[n]], "del")
  /\ LET c == Head(toNode[master[n]]).code IN
       IF copy[n][c] # "none" THEN End(n, c) ELSE UNCHANGED <<copy, owed>>
  /\ toNode' = [toNode EXCEPT ![master[n]] = Tail(@)]
  /\ UNCHANGED <<masters, threads, side, up, reports, missedByNode, master, client, machine>>

\* dataHandler: a machine that was invited connects to a node with the code.  The first
\* of the two is announced.  (One that is refused leaves no trace and may try again.)
Arrive(n, c, r) ==
  /\ machine[c][r] = "invited"
  /\ machine' = [machine EXCEPT ![c][r] = n]
  /\ \/ /\ copy[n][c] = "unused"
        /\ Turn(n, c, "waiting")
        /\ owed' = [owed EXCEPT ![n] = @ \cup {Msg("new", c)}]
     \/ copy[n][c] = "waiting" /\ Turn(n, c, "relaying") /\ UNCHANGED owed
  /\ UNCHANGED <<masters, threads, side, up, queues, master, client>>

\* sendMessageToMaster, which does not say whether anybody got the message.
Send(n, m) ==
  /\ m \in owed[n]
  /\ owed' = [owed EXCEPT ![n] = @ \ {m}]
  /\ SendToMaster(n, m)
  /\ UNCHANGED <<masters, threads, side, up, orders, master, client, copy, machine>>

\* The partner did not come in time, ...
WaitTimeout(n, c) ==
  /\ copy[n][c] = "waiting"
  /\ End(n, c)
  /\ UNCHANGED <<masters, threads, side, up, queues, master, client, machine>>

\* ... or one of them went.
CopyEnds(n, c) ==
  /\ copy[n][c] = "relaying"
  /\ End(n, c)
  /\ UNCHANGED <<masters, threads, side, up, queues, master, client, machine>>

\* Mutants of Reap: a copy to which a machine came in time is forgotten too, or the
\* master is told.
ReapUsed(n, c) ==
  /\ copy[n][c] \in {"unused", "waiting"}
  /\ Turn(n, c, "none")
  /\ UNCHANGED <<masters, threads, side, up, queues, master, client, owed, machine>>

ReapTold(n, c) ==
  /\ copy[n][c] = "unused"
  /\ End(n, c)
  /\ UNCHANGED <<masters, threads, side, up, queues, master, client, machine>>

\* checkConnection forgets an unused copy.
Reap(n, c) ==
  /\ copy[n][c] = "unused"
  /\ Turn(n, c, "none")
  /\ UNCHANGED <<masters, threads, side, up, queues, master, client, owed, machine>>

(***************************************************************************)
(* The whole.                                                              *)
(***************************************************************************)
HandlerStep(h) == SendAdd(h) \/ Invite(h) \/ DisconnectPair(h)
WatchStep(c) == Watch(c) \/ DisconnectPair(c)
LinkStep(l) ==
  \/ AgentAuth(l) \/ GiveUp(l)
  \/ AgentNewConn(l) \/ AgentDelCode(l)
  \/ Leave(l) \/ Farewell(l) \/ Visit(l) \/ DisconnectPair(l)
ClientStep(n) ==
  SendAuth(n) \/ Authorized(n) \/ LoseMaster(n) \/ AgentAddCode(n) \/ NodeDelCode(n)
CopyStep(n, c) == WaitTimeout(n, c) \/ Reap(n, c)

Next ==
  \/ \E h \in Handlers : HandlerStep(h) \/ \E c \in Codes : Connect(h, c) \/ Disconnect(h, c)
  \/ \E c \in Codes : WatchStep(c)
  \/ \E l \in Links : LinkStep(l) \/ Break(l)
  \/ \E n \in Nodes :
       \/ ClientStep(n) \/ Dial(n) \/ Crash(n)
       \/ \E m \in owed[n] : Send(n, m)
       \/ \E c \in Codes :
            CopyStep(n, c) \/ CopyEnds(n, c) \/ \E r \in Roles : Arrive(n, c, r)

\* Goroutines go on, timers fire, and a broken link is noticed: both sides ping.
\* Nothing is assumed of clients, machines and the network, nor that a node dials.
Fairness ==
  /\ \A h \in Handlers : WF_vars(HandlerStep(h))
  /\ \A c \in Codes : WF_vars(WatchStep(c))
  /\ \A l \in Links : WF_vars(LinkStep(l))
  /\ \A n \in Nodes : WF_vars(ClientStep(n))
  /\ \A n \in Nodes, c \in Codes :
       /\ WF_vars(CopyStep(n, c))
       /\ \A kind \in {"new", "del"} : WF_vars(Send(n, Msg(kind, c)))

Spec == Init /\ [][Next]_vars /\ Fairness

(***************************************************************************)
(* Properties.                                                             *)
(***************************************************************************)
UnderWay(queue, m) == \E i \in 1 .. Len(queue) : queue[i] = m

\* t is in disconnectPair of c and will still tell link l.
WillTell(t, c, l) == session[t] = c /\ (pc[t] = "teardown" \/ (pc[t] = "deleting" /\ l \in todo[t]))

\* No session of the master is forgotten: its timer will look at it, or somebody is about
\* to end it, or it belongs to a link whose masterHandler has still to come past it when
\* the link ends - although the timer leaves a session alone as soon as a node has it,
\* and a node may take it at any moment before the link ends.
SessionGuarded ==
  \A c \in channels :
    \/ pc[c] = "watch"
    \/ \E t \in Threads : pc[t] = "cad" /\ session[t] = c
    \/ \E l \in Links : node[c] = l /\ (l \in nodes \/ pc[l] = "farewell" \/ c \in visit[l])

\* A session that the master believes to be on a node is there, as long as the link to
\* the node holds, or the news of its end is on its way - unless that news was lost on
\* the link, which is the only way to a session of the master that no node has.
NodeServes ==
  \A c \in channels, l \in nodes :
    node[c] = l /\ up[l] =>
      \/ copy[side[l]][c] \in {"waiting", "relaying"}
      \/ Msg("del", c) \in owed[side[l]] \/ UnderWay(toMaster[l], Msg("del", c))
      \/ pc[l] = "cad" /\ session[l] = c
      \/ c \in missedByMaster[l]

\* Conversely a node that goes on with a session which the master ended, be it a copy that
\* it made after DelCode, is the one that the master had it on; and its link broke since,
\* or the news are on their way or were lost.
EndReachesNode ==
  \A n \in Nodes, c \in Codes :
    copy[n][c] = "relaying" /\ c \notin channels =>
      \E l \in Links :
        /\ node[c] = l /\ side[l] = n
        /\ \/ ~up[l] \/ l \notin nodes
           \/ UnderWay(toNode[l], Msg("del", c)) \/ c \in missedByNode[l]
           \/ \E t \in Threads : WillTell(t, c, l)

\* checkConnection: "Other nodes received this code too; an unused copy must not end
\* their session."  Nodes to which no machine of a session came do not end it.
OnlyUsersEnd ==
  \A c \in channels, l \in Links :
    UnderWay(toMaster[l], Msg("del", c)) => \E r \in Roles : machine[c][r] = side[l]

\* Each session of the master ends or comes to be relayed, whatever breaks - but for one
\* whose node lost the news of its end on a link that holds: that one ends with the link.
SessionSettles ==
  \A c \in Codes : (c \in channels) ~>
    \/ c \notin channels
    \/ \E n \in Nodes : copy[n][c] = "relaying"
    \/ \E l \in nodes : node[c] = l /\ up[l] /\ c \in missedByMaster[l]

(***************************************************************************)
(* The inductive invariant behind the safety properties of the master.     *)
(***************************************************************************)
Ending == {"cad", "teardown", "deleting"}
Working(t, c) == pc[t] \in Ending \cup {"adding"} /\ session[t] = c

\* Which labels the three kinds of goroutines have, that they know their code, that a
\* masterHandler reads while its link is registered, and that a node in touch has a link.
LocalInv ==
  /\ \A h \in Handlers : pc[h] \in {"idle", "adding"} \cup Ending
  /\ \A c \in Codes : pc[c] \in {"off", "watch", "done"} \cup Ending /\ session[c] = c
  /\ \A l \in Links :
       /\ pc[l] \in {"off", "new", "read", "farewell", "range", "done"} \cup Ending
       /\ pc[l] # "off" => side[l] \in Nodes
       /\ pc[l] = "read" => l \in nodes
       /\ pc[l] \in {"off", "new", "farewell", "range", "done"} => l \notin nodes
  /\ \A t \in Threads : pc[t] \in Ending \cup {"adding"} => session[t] \in Codes
  /\ \A n \in Nodes : client[n] # "dial" => master[n] \in Links

\* A code that connectPeers has not made is nowhere, and one that has ended is over for good.
CodeInv ==
  /\ \A c \in Codes : pc[c] = "off" =>
       /\ c \notin channels /\ ~closed[c] /\ node[c] = None
       /\ \A t \in Threads : ~Working(t, c)
  /\ \A c \in channels : ~closed[c]
  /\ \A t \in Threads : pc[t] = "teardown" => session[t] \notin channels

\* Who will end a session: its timer as long as it is nobody's, ...
GuardInv ==
  \A c \in channels :
    \/ pc[c] = "watch" \/ node[c] # None
    \/ \E t \in Threads : pc[t] = "cad" /\ session[t] = c

\* ... and once a link has it, the masterHandler of the link.
OwnerInv ==
  \A c \in channels, l \in Links : node[c] = l =>
    \/ l \in nodes \/ pc[l] = "farewell" \/ c \in visit[l]
    \/ \E t \in Threads : pc[t] = "cad" /\ session[t] = c

IInv == TypeOK /\ LocalInv /\ CodeInv /\ GuardInv /\ OwnerInv

(***************************************************************************)
(* The inductive invariant behind the properties that relate the master to *)
(* its nodes, on top of IInv.                                              *)
(***************************************************************************)
Mentions(queue, c) == \E i \in 1 .. Len(queue) : queue[i].code = c
Once(queue, m) == \A i, j \in 1 .. Len(queue) : queue[i] = m /\ queue[j] = m => i = j

Adding(h, c) == pc[h] = "adding" /\ session[h] = c

\* The node of a link that holds is in touch over it, and over no other one; a link that
\* is not dialed yet carries nothing.
LinkInv ==
  /\ \A l \in Links :
       /\ up[l] => master[side[l]] = l
       /\ pc[l] = "off" =>
            /\ ~up[l] /\ toMaster[l] = <<>> /\ toNode[l] = <<>>
            /\ \A t \in Threads : l \notin todo[t]
            /\ \A n \in Nodes : master[n] # l
  /\ \A n \in Nodes :
       /\ client[n] = "dial" => master[n] = None
       /\ master[n] # None => side[master[n]] = n

\* Nobody speaks of a code that was not made, and the end of a session is told when it
\* is out of the map.
NewsInv ==
  /\ \A c \in Codes : pc[c] = "off" =>
       /\ \A n \in Nodes : copy[n][c] = "none" /\ \A m \in owed[n] : m.code # c
       /\ \A l \in Links : ~Mentions(toMaster[l], c) /\ ~Mentions(toNode[l], c)
  /\ \A c \in Codes, l \in Links : UnderWay(toNode[l], Msg("del", c)) => c \notin channels
  /\ \A t \in Threads : pc[t] = "deleting" => session[t] \notin channels

\* A session is added by one handler, before its machines are invited: the one that
\* serves when that is done, the viewer when a node has the session, and links can have
\* sessions only while their nodes are known.
InvitedInv ==
  /\ \A c \in Codes, r \in Roles : pc[c] = "off" => machine[c][r] = "waits"
  /\ \A g, h \in Handlers, c \in Codes : Adding(g, c) /\ Adding(h, c) => g = h
  /\ \A h \in Handlers, c \in Codes : Adding(h, c) => machine[c]["server"] = "waits"
  /\ \A c \in Codes : machine[c]["viewer"] # "waits" => node[c] # None
  /\ \A c \in Codes, l \in Links : node[c] = l => pc[l] \notin {"off", "new"}

\* A session that left the map is about to be closed, or is closed.
ClosedInv ==
  \A c \in Codes : pc[c] # "off" /\ c \notin channels =>
    closed[c] \/ \E t \in Threads : pc[t] = "teardown" /\ session[t] = c

\* AddCode is under way over link l, or will be sent.
ToCome(l, c) ==
  UnderWay(toNode[l], Msg("add", c)) \/ \E h \in Handlers : Adding(h, c) /\ l \in todo[h]

\* The node of link l spoke of a machine of the session.
Claims(l, c) ==
  node[c] = l \/ UnderWay(toMaster[l], Msg("new", c)) \/ Msg("new", c) \in owed[side[l]]

\* A node gets AddCode at most once over a link that holds, and until then knows nothing
\* of the session.
AddInv ==
  \A l \in Links, c \in Codes : up[l] =>
    /\ ToCome(l, c) => copy[side[l]][c] = "none" /\ ~Claims(l, c)
    /\ Once(toNode[l], Msg("add", c))
    /\ UnderWay(toNode[l], Msg("add", c)) => \A h \in Handlers : Adding(h, c) => l \notin todo[h]

\* Two machines that are relayed are on the node they went to, and the node that has the
\* session is the one of the machine that serves.
PlaceInv ==
  /\ \A n \in Nodes, c \in Codes, r \in Roles : copy[n][c] = "relaying" => machine[c][r] = n
  /\ \A c \in Codes, l \in Links : node[c] = l => machine[c]["server"] = side[l]
  /\ \A c \in Codes, n \in Nodes : node[c] = None /\ Msg("new", c) \in owed[n] =>
       machine[c]["server"] = n
  /\ \A c \in Codes, l \in Links : node[c] = None /\ UnderWay(toMaster[l], Msg("new", c)) =>
       machine[c]["server"] = side[l]

\* NodeServes, from the moment when the node begins to speak of the session.
ServeInv ==
  \A c \in channels, l \in Links : up[l] /\ Claims(l, c) =>
    \/ copy[side[l]][c] \in {"waiting", "relaying"}
    \/ Msg("del", c) \in owed[side[l]] \/ UnderWay(toMaster[l], Msg("del", c))
    \/ pc[l] = "cad" /\ session[l] = c
    \/ c \in missedByMaster[l]

\* EndReachesNode, of every copy: what the node has not heard of yet it will hear, or missed.
ReachInv ==
  \A l \in nodes, c \in Codes : node[c] = l /\ up[l] /\ copy[side[l]][c] # "none" =>
    \/ c \in channels
    \/ UnderWay(toNode[l], Msg("del", c)) \/ c \in missedByNode[l]
    \/ \E t \in Threads : WillTell(t, c, l)

\* OnlyUsersEnd, of copies and of what nodes are about to send.
Uses(n, c) ==
  \/ copy[n][c] \in {"waiting", "relaying"}
  \/ c \in channels /\ Msg("del", c) \in owed[n]
  \/ c \in channels /\ \E l \in Links : side[l] = n /\ UnderWay(toMaster[l], Msg("del", c))

UserInv == \A c \in Codes, n \in Nodes : Uses(n, c) => \E r \in Roles : machine[c][r] = n

SharedInv ==
  /\ IInv /\ LinkInv /\ NewsInv /\ InvitedInv /\ ClosedInv
  /\ AddInv /\ ServeInv /\ ReachInv /\ UserInv
=============================================================================

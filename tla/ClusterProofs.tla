---------------------------- MODULE ClusterProofs ----------------------------
(***************************************************************************)
(* Proofs about Cluster, for any numbers of nodes, links, codes and        *)
(* handlers, whatever links break.                                         *)
(***************************************************************************)
EXTENDS Cluster, TLAPS

USE ClusterAssumption DEF Threads

\* A master that starts, with no session and no node, satisfies the invariant.
THEOREM InitIInv == Init => IInv
<1> SUFFICES ASSUME Init PROVE IInv
  OBVIOUS
<1> USE DEF Init, Ending, Working
<1>1. TypeOK  BY DEF TypeOK, Label, Message
<1>2. LocalInv  BY DEF LocalInv
<1>3. CodeInv  BY DEF CodeInv
<1>4. GuardInv /\ OwnerInv  BY DEF GuardInv, OwnerInv
<1> QED BY <1>1, <1>2, <1>3, <1>4 DEF IInv

\* A goroutine that is through with a session keeps the types.
LEMMA ReturnTypes ==
  ASSUME TypeOK, NEW t \in Threads, Return(t)
  PROVE  pc' \in [Threads -> Label] /\ session' \in [Threads -> Codes \cup {None}]
<1> DEFINE label == IF t \in Handlers THEN "idle" ELSE IF t \in Codes THEN "done"
                    ELSE IF t \in nodes THEN "read" ELSE "range"
<1>1. label \in Label
  BY DEF Label
<1>2. pc' = [pc EXCEPT ![t] = label]
  BY DEF Return, Goto
<1> HIDE DEF label
<1>3. pc' \in [Threads -> Label]
  BY <1>1, <1>2 DEF TypeOK
<1> QED BY <1>3 DEF TypeOK, Return

\* So does a message that is sent, or lost.
LEMMA SendTypes ==
  ASSUME TypeOK, NEW m \in Message
  PROVE  /\ \A l : Carry(toNode, l, m) \in [Links -> Seq(Message)] /\ Carry(toMaster, l, m) \in [Links -> Seq(Message)]
         /\ \A l : SendToNode(l, m) =>
              /\ toNode' \in [Links -> Seq(Message)]
              /\ missedByNode' \in [Links -> SUBSET (Codes \cup {None})]
         /\ \A n : SendToMaster(n, m) =>
              /\ toMaster' \in [Links -> Seq(Message)]
              /\ missedByMaster' \in [Links -> SUBSET (Codes \cup {None})]
<1>1. ASSUME NEW l, NEW queue \in [Links -> Seq(Message)]
      PROVE  Carry(queue, l, m) \in [Links -> Seq(Message)]
  <2>1. CASE l \in Links
    <3>1. Append(queue[l], m) \in Seq(Message)
      BY <2>1
    <3> QED BY <3>1 DEF Carry
  <2>2. CASE l \notin Links
    <3>1. [queue EXCEPT ![l] = Append(@, m)] = queue
      BY <2>2
    <3> QED BY <3>1 DEF Carry
  <2> QED BY <2>1, <2>2
<1>2. m.code \in Codes \cup {None}
  BY DEF Message
<1>3. ASSUME NEW l, SendToNode(l, m)
      PROVE  /\ toNode' \in [Links -> Seq(Message)]
             /\ missedByNode' \in [Links -> SUBSET (Codes \cup {None})]
  <2>1. CASE Lose(missedByNode, l, m) /\ UNCHANGED toNode
    BY <1>2, <2>1 DEF Lose, TypeOK
  <2>2. CASE toNode' = Carry(toNode, l, m) /\ UNCHANGED missedByNode
    BY <1>1, <2>2 DEF TypeOK
  <2> QED BY <1>3, <2>1, <2>2 DEF SendToNode
<1>4. ASSUME NEW n, SendToMaster(n, m)
      PROVE  /\ toMaster' \in [Links -> Seq(Message)]
             /\ missedByMaster' \in [Links -> SUBSET (Codes \cup {None})]
  <2>1. CASE Lose(missedByMaster, master[n], m) /\ UNCHANGED toMaster
    BY <1>2, <2>1 DEF Lose, TypeOK
  <2>2. CASE toMaster' = Carry(toMaster, master[n], m) /\ UNCHANGED missedByMaster
    BY <1>1, <2>2 DEF TypeOK
  <2> QED BY <1>4, <2>1, <2>2 DEF SendToMaster
<1> QED BY <1>1, <1>3, <1>4 DEF TypeOK

\* Requests of clients keep the types.
LEMMA RequestTypes ==
  ASSUME TypeOK, LocalInv, NEW h \in Handlers,
         SendAdd(h) \/ Invite(h) \/ \E c \in Codes : Connect(h, c) \/ Disconnect(h, c)
  PROVE  TypeOK'
<1> USE DEF TypeOK, masters, threads, queues, reports, orders, locals, Goto, Label
<1>1. ASSUME NEW c \in Codes, Connect(h, c) PROVE TypeOK'
  BY <1>1 DEF Connect
<1>2. ASSUME NEW c \in Codes, Disconnect(h, c) PROVE TypeOK'
  BY <1>2 DEF Disconnect
<1>3. CASE SendAdd(h)
  <2>1. Msg("add", session[h]) \in Message  BY DEF Msg, Message
  <2>2. PICK l \in todo[h] : todo' = [todo EXCEPT ![h] = @ \ {l}] /\ SendToNode(l, Msg("add", session[h]))
    BY <1>3 DEF SendAdd
  <2>3. toNode' \in [Links -> Seq(Message)] /\ missedByNode' \in [Links -> SUBSET (Codes \cup {None})]
    <3>1. PICK m \in Message : m = Msg("add", session[h])
      BY <2>1
    <3>2. SendToNode(l, m)
      BY <2>2, <3>1 DEF SendToNode, Lose
    <3> QED BY ONLY TypeOK, <3>1, <3>2, SendTypes
  <2> QED BY <1>3, <2>2, <2>3 DEF SendAdd
<1>4. CASE Invite(h)
  <2>1. session[h] \in Codes
    BY <1>4 DEF LocalInv, Invite
  <2>2. CASE machine' = [machine EXCEPT ![session[h]]["server"] = "invited"] /\ Return(h)
    <3>1. machine' \in [Codes -> [Roles -> {"waits", "invited"} \cup Nodes]]
      BY <2>1, <2>2 DEF Roles
    <3> QED BY <1>4, <2>2, <3>1, ReturnTypes DEF Invite
  <2>3. CASE Goto(h, "cad") /\ UNCHANGED <<machine, session>>
    BY <1>4, <2>3 DEF Invite
  <2> QED BY <1>4, <2>2, <2>3 DEF Invite
<1> QED BY <1>1, <1>2, <1>3, <1>4

\* disconnectPair and the timer keep the types.
LEMMA PairTypes ==
  ASSUME TypeOK, LocalInv, NEW t \in Threads,
         DisconnectPair(t) \/ (t \in Codes /\ Watch(t))
  PROVE  TypeOK'
<1> USE DEF TypeOK, masters, threads, queues, reports, orders, locals, Goto, Label
<1>1. CASE CompareAndDelete(t)
  <2>1. CASE session[t] \in channels /\ Goto(t, "teardown") /\ UNCHANGED session
    BY <1>1, <2>1 DEF CompareAndDelete
  <2>2. CASE session[t] \notin channels /\ Return(t)
    BY <1>1, <2>2, ReturnTypes DEF CompareAndDelete
  <2> QED BY <1>1, <2>1, <2>2 DEF CompareAndDelete
<1>2. CASE Teardown(t)  BY <1>2 DEF Teardown
<1>3. CASE SendDel(t)
  <2>1. Msg("del", session[t]) \in Message  BY DEF Msg, Message
  <2>2. ASSUME NEW l \in todo[t], todo' = [todo EXCEPT ![t] = @ \ {l}],
               SendToNode(l, Msg("del", session[t])), UNCHANGED <<pc, session>>
        PROVE  TypeOK'
    <3>1. toNode' \in [Links -> Seq(Message)] /\ missedByNode' \in [Links -> SUBSET (Codes \cup {None})]
      <4>1. PICK m \in Message : m = Msg("del", session[t])
        BY <2>1
      <4>2. SendToNode(l, m)
        BY <2>2, <4>1 DEF SendToNode, Lose
      <4> QED BY ONLY TypeOK, <4>1, <4>2, SendTypes
    <3>2. todo' \in [Threads -> SUBSET Links]
      BY <2>2
    <3> QED BY <1>3, <2>2, <3>1, <3>2 DEF SendDel
  <2>3. CASE todo[t] = {} /\ Return(t) /\ UNCHANGED <<todo, orders>>
    BY <1>3, <2>3, ReturnTypes DEF SendDel
  <2> QED BY <1>3, <2>2, <2>3 DEF SendDel
<1>4. CASE t \in Codes /\ Watch(t)  BY <1>4 DEF Watch
<1> QED BY <1>1, <1>2, <1>3, <1>4 DEF DisconnectPair

\* The rest of a masterHandler and the network keep the types.
LEMMA LinkTypes ==
  ASSUME TypeOK, LocalInv, NEW l \in Links,
         AgentAuth(l) \/ GiveUp(l) \/ AgentNewConn(l) \/ AgentDelCode(l)
           \/ Leave(l) \/ Farewell(l) \/ Visit(l) \/ Break(l)
  PROVE  TypeOK'
<1> USE DEF TypeOK, masters, threads, queues, reports, orders, locals, Goto, Label, Reads
<1>0. toMaster[l] # <<>> => Tail(toMaster[l]) \in Seq(Message)
  OBVIOUS
<1>1. CASE AgentAuth(l)
  <2>1. Msg("auth", None) \in Message  BY DEF Msg, Message
  <2> QED BY <1>0, <1>1, <2>1, SendTypes DEF AgentAuth
<1>3. CASE GiveUp(l)  BY <1>3 DEF GiveUp
<1>4. CASE AgentNewConn(l)
  <2> DEFINE c == Head(toMaster[l]).code
  <2>1. toMaster' \in [Links -> Seq(Message)]
    BY <1>0, <1>4 DEF AgentNewConn
  <2>2. CASE /\ node' = [node EXCEPT ![c] = l]
             /\ machine' \in {machine, [machine EXCEPT ![c]["viewer"] = "invited"]}
    <3>1. machine' \in [Codes -> [Roles -> {"waits", "invited"} \cup Nodes]]
      <4>1. CASE machine' = [machine EXCEPT ![c]["viewer"] = "invited"]
        BY <4>1 DEF Roles
      <4> QED BY <2>2, <4>1
    <3> QED BY <1>4, <2>1, <2>2, <3>1 DEF AgentNewConn
  <2>3. CASE UNCHANGED <<node, machine>>
    BY <1>4, <2>1, <2>3 DEF AgentNewConn
  <2> QED BY <1>4, <2>2, <2>3 DEF AgentNewConn
<1>5. CASE AgentDelCode(l)
  <2> DEFINE c == Head(toMaster[l]).code
  <2>1. toMaster' \in [Links -> Seq(Message)]
    BY <1>0, <1>5 DEF AgentDelCode
  <2>2. CASE c \in channels
    <3>1. c \in Codes  BY <2>2
    <3>2. session' = [session EXCEPT ![l] = c] /\ Goto(l, "cad")
      BY <1>5, <2>2 DEF AgentDelCode
    <3> HIDE DEF c
    <3> QED BY <1>5, <2>1, <3>1, <3>2 DEF AgentDelCode
  <2>3. CASE c \notin channels
    BY <1>5, <2>1, <2>3 DEF AgentDelCode
  <2> QED BY <2>2, <2>3
<1>6. CASE Leave(l)  BY <1>6 DEF Leave
<1>7. CASE Farewell(l)  BY <1>7 DEF Farewell
<1>8. CASE Visit(l)
  <2>1. /\ visit' \in [Links -> SUBSET Codes] /\ pc' \in [Threads -> Label]
        /\ session' \in [Threads -> Codes \cup {None}]
    <3>1. CASE visit[l] = {} /\ Goto(l, "done") /\ UNCHANGED <<visit, session>>
      BY <3>1
    <3>2. ASSUME NEW c \in visit[l], visit' = [visit EXCEPT ![l] = @ \ {c}],
                 \/ Goto(l, "cad") /\ session' = [session EXCEPT ![l] = c]
                 \/ UNCHANGED <<pc, session>>
          PROVE  /\ visit' \in [Links -> SUBSET Codes] /\ pc' \in [Threads -> Label]
                 /\ session' \in [Threads -> Codes \cup {None}]
      <4>1. c \in Codes  OBVIOUS
      <4>2. visit' \in [Links -> SUBSET Codes]
        BY <3>2
      <4>3. CASE Goto(l, "cad") /\ session' = [session EXCEPT ![l] = c]
        BY <4>1, <4>2, <4>3
      <4>4. CASE UNCHANGED <<pc, session>>
        BY <4>2, <4>4
      <4> QED BY <3>2, <4>3, <4>4
    <3> QED BY <1>8, <3>1, <3>2 DEF Visit
  <2> QED BY <1>8, <2>1 DEF Visit
<1>9. CASE Break(l)  BY <1>9 DEF Break
<1> QED BY <1>1, <1>3, <1>4, <1>5, <1>6, <1>7, <1>8, <1>9

\* A copy that changes keeps the types.
LEMMA CopyTypes ==
  ASSUME TypeOK, NEW n \in Nodes, NEW c,
         NEW state \in {"none", "unused", "waiting", "relaying"}, Turn(n, c, state)
  PROVE  copy' \in [Nodes -> [Codes -> {"none", "unused", "waiting", "relaying"}]]
<1>1. [copy[n] EXCEPT ![c] = state] \in [Codes -> {"none", "unused", "waiting", "relaying"}]
  BY DEF TypeOK
<1>2. copy' = [copy EXCEPT ![n] = [copy[n] EXCEPT ![c] = state]]
  BY DEF Turn
<1> QED BY <1>1, <1>2 DEF TypeOK

\* A node keeps the types.
LEMMA NodeTypes ==
  ASSUME TypeOK, LocalInv, NEW n \in Nodes,
         \/ ClientStep(n) \/ Dial(n) \/ Crash(n)
         \/ \E m \in owed[n] : Send(n, m)
         \/ \E c \in Codes :
              CopyStep(n, c) \/ CopyEnds(n, c) \/ \E r \in Roles : Arrive(n, c, r)
  PROVE  TypeOK'
<1> USE DEF TypeOK, masters, threads, queues, reports, orders, locals
<1>0. \A c \in Codes \cup {None} :
        Msg("auth", c) \in Message /\ Msg("del", c) \in Message /\ Msg("new", c) \in Message
  BY DEF Msg, Message
<1>1. ASSUME client[n] # "dial", toNode[master[n]] # <<>>
      PROVE  /\ master[n] \in Links /\ Tail(toNode[master[n]]) \in Seq(Message)
             /\ Head(toNode[master[n]]).code \in Codes \cup {None}
  <2>1. toNode[master[n]] \in Seq(Message) /\ master[n] \in Links
    BY <1>1 DEF LocalInv
  <2>2. Head(toNode[master[n]]) \in Message /\ Tail(toNode[master[n]]) \in Seq(Message)
    BY <1>1, <2>1
  <2> QED BY <2>1, <2>2 DEF Message
<1>2. CASE SendAuth(n)
  BY <1>0, <1>2, SendTypes DEF SendAuth
<1>3. CASE Authorized(n)
  BY <1>1, <1>3 DEF Authorized, Reads
<1>4. CASE LoseMaster(n) \/ Crash(n)
  <2>1. up' \in [Links -> BOOLEAN]
    <3>1. HangUp(n)  BY <1>4 DEF LoseMaster, Crash
    <3> QED BY <3>1 DEF HangUp
  <2>2. toNode' \in [Links -> Seq(Message)]
    <3>1. <<>> \in Seq(Message)
      OBVIOUS
    <3>2. CASE toNode' = [toNode EXCEPT ![master[n]] = <<>>]
      BY <3>1, <3>2
    <3>3. CASE toNode' = [l \in Links |-> IF l = master[n] THEN <<>> ELSE toNode[l]]
      BY <3>1, <3>3
    <3> QED BY <1>4, <3>2, <3>3 DEF LoseMaster, Crash
  <2>3. CASE LoseMaster(n)  BY <2>1, <2>2, <2>3 DEF LoseMaster
  <2>4. CASE Crash(n)  BY <2>1, <2>2, <2>4 DEF Crash
  <2> QED BY <1>4, <2>3, <2>4
<1>5. CASE AgentAddCode(n)
  <2> DEFINE c == Head(toNode[master[n]]).code
  <2>1. toNode' \in [Links -> Seq(Message)]
    BY <1>1, <1>5 DEF AgentAddCode, Reads
  <2>2. copy' \in [Nodes -> [Codes -> {"none", "unused", "waiting", "relaying"}]]
    BY <1>5, CopyTypes DEF AgentAddCode
  <2> QED BY <1>5, <2>1, <2>2 DEF AgentAddCode
<1>6. CASE NodeDelCode(n)
  <2> DEFINE c == Head(toNode[master[n]]).code
  <2>1. toNode' \in [Links -> Seq(Message)] /\ Msg("del", c) \in Message
    BY <1>0, <1>1, <1>6 DEF NodeDelCode, Reads
  <2>2. CASE copy[n][c] # "none"
    <3>1. End(n, c)  BY <1>6, <2>2 DEF NodeDelCode
    <3>2. copy' \in [Nodes -> [Codes -> {"none", "unused", "waiting", "relaying"}]]
      BY <3>1, CopyTypes DEF End
    <3>3. owed' \in [Nodes -> SUBSET Message]
      BY <2>1, <3>1 DEF End
    <3> QED BY <1>6, <2>1, <3>2, <3>3 DEF NodeDelCode
  <2>3. CASE copy[n][c] = "none"
    BY <1>6, <2>1, <2>3 DEF NodeDelCode
  <2> QED BY <2>2, <2>3
<1>7. CASE Dial(n)
  <2>1. (CHOOSE k \in Links : pc[k] = "off") \in Links
    BY <1>7 DEF Dial
  <2> QED BY <1>7, <2>1 DEF Dial, Goto, Label
<1>8. ASSUME NEW m \in owed[n], Send(n, m) PROVE TypeOK'
  BY <1>8, SendTypes DEF Send
<1>9. ASSUME NEW c \in Codes, NEW r \in Roles, Arrive(n, c, r) PROVE TypeOK'
  <2>1. machine' \in [Codes -> [Roles -> {"waits", "invited"} \cup Nodes]]
    BY <1>9 DEF Arrive
  <2>2. copy' \in [Nodes -> [Codes -> {"none", "unused", "waiting", "relaying"}]]
    BY <1>9, CopyTypes DEF Arrive
  <2>3. owed' \in [Nodes -> SUBSET Message]
    <3>1. CASE owed' = [owed EXCEPT ![n] = @ \cup {Msg("new", c)}]
      BY <1>0, <3>1
    <3> QED BY <1>9, <3>1 DEF Arrive
  <2> QED BY <1>9, <2>1, <2>2, <2>3 DEF Arrive
<1>10. ASSUME NEW c \in Codes, CopyStep(n, c) \/ CopyEnds(n, c) PROVE TypeOK'
  <2>1. copy' \in [Nodes -> [Codes -> {"none", "unused", "waiting", "relaying"}]]
    BY <1>10, CopyTypes DEF CopyStep, CopyEnds, WaitTimeout, Reap, End
  <2>2. owed' \in [Nodes -> SUBSET Message]
    <3>1. CASE owed' = [owed EXCEPT ![n] = @ \cup {Msg("del", c)}]
      BY <1>0, <3>1
    <3> QED BY <1>10, <3>1 DEF CopyStep, CopyEnds, WaitTimeout, Reap, End
  <2> QED BY <1>10, <2>1, <2>2 DEF CopyStep, CopyEnds, WaitTimeout, Reap, End
<1> QED BY <1>2, <1>3, <1>4, <1>5, <1>6, <1>7, <1>8, <1>9, <1>10 DEF ClientStep

\* Every step keeps the types.
LEMMA TypeStep ==
  ASSUME TypeOK, LocalInv, Next
  PROVE  TypeOK'
  BY RequestTypes, PairTypes, LinkTypes, NodeTypes
  DEF Next, HandlerStep, WatchStep, LinkStep

\* Steps that leave the master's maps and goroutines alone keep the invariant, if a node
\* that is in touch still has a link.
LEMMA ApartInv ==
  ASSUME IInv, TypeOK', UNCHANGED <<masters, pc, session, visit, side>>,
         \A n \in Nodes : client'[n] # "dial" => master'[n] \in Links
  PROVE  IInv'
<1> USE DEF IInv, masters, Ending, Working
<1>1. LocalInv'  BY DEF LocalInv
<1>2. CodeInv'  BY DEF CodeInv
<1>3. GuardInv' /\ OwnerInv'  BY DEF GuardInv, OwnerInv
<1> QED BY <1>1, <1>2, <1>3

\* GuardInv, in a step that takes the guard of no session.
LEMMA GuardKept ==
  ASSUME GuardInv, channels' \subseteq channels,
         \A c \in channels' :
           /\ node[c] # None => node'[c] # None
           /\ pc[c] = "watch" => pc'[c] = "watch",
         \A u \in Threads : pc[u] = "cad" /\ session[u] \in channels' =>
           pc'[u] = "cad" /\ session'[u] = session[u]
  PROVE  GuardInv'
  BY DEF GuardInv

\* OwnerInv, in a step after which every session that has a link can be reached from it.
LEMMA OwnerKept ==
  ASSUME OwnerInv, channels' \subseteq channels,
         \A c \in channels', l \in Links :
           /\ node'[c] = l => node[c] = l \/ l \in nodes'
           /\ c \in visit[l] => c \in visit'[l] \/ node'[c] # l
           /\ l \in nodes \/ pc[l] = "farewell" =>
                l \in nodes' \/ pc'[l] = "farewell" \/ c \in visit'[l],
         \A u \in Threads : pc[u] = "cad" /\ session[u] \in channels' =>
           pc'[u] = "cad" /\ session'[u] = session[u]
  PROVE  OwnerInv'
<1> SUFFICES ASSUME NEW c \in channels', NEW l \in Links, node'[c] = l
             PROVE  \/ l \in nodes' \/ pc'[l] = "farewell" \/ c \in visit'[l]
                    \/ \E t \in Threads : pc'[t] = "cad" /\ session'[t] = c
  BY DEF OwnerInv
<1>1. CASE l \in nodes'
  BY <1>1
<1>2. CASE node[c] = l
  <2>1. c \in channels
    OBVIOUS
  <2>2. CASE \E t \in Threads : pc[t] = "cad" /\ session[t] = c
    BY <2>2
  <2>3. CASE l \in nodes \/ pc[l] = "farewell" \/ c \in visit[l]
    BY <2>3
  <2> QED BY <1>2, <2>1, <2>2, <2>3 DEF OwnerInv
<1> QED BY <1>1, <1>2

\* connectPeers on the master keeps the invariant: the new session has its timer.
LEMMA ConnectInv ==
  ASSUME IInv, TypeOK', NEW h \in Handlers, NEW c \in Codes, Connect(h, c)
  PROVE  IInv'
<1> USE DEF IInv, TypeOK, Connect, locals, Ending, Working
<1>1. LocalInv'
  <2>1. /\ pc'[h] = "adding" /\ pc'[c] = "watch" /\ session'[h] = c
        /\ \A u \in Threads \ {h, c} : pc'[u] = pc[u]
        /\ \A u \in Threads \ {h} : session'[u] = session[u]
    OBVIOUS
  <2>2. UNCHANGED <<nodes, side, master, client>> /\ LocalInv
    OBVIOUS
  <2> HIDE DEF IInv, TypeOK, Connect
  <2> QED BY ONLY <2>1, <2>2, ClusterAssumption, h \in Handlers, c \in Codes DEF LocalInv, Ending, Threads
<1>2. CodeInv'  BY DEF LocalInv, CodeInv
<1>3. GuardInv'  BY DEF LocalInv, GuardInv
<1>4. OwnerInv'
  <2>1. node[c] = None  BY DEF CodeInv
  <2>2. \A u \in Threads : pc[u] = "cad" => pc'[u] = "cad" /\ session'[u] = session[u]
    BY DEF LocalInv
  <2>3. \A l \in Links : pc'[l] = pc[l]
    OBVIOUS
  <2>4. \A b \in channels' \ {c} : b \in channels
    OBVIOUS
  <2>5. \A b \in channels, k \in Links : node[b] = k =>
          \/ k \in nodes \/ pc[k] = "farewell" \/ b \in visit[k]
          \/ \E u \in Threads : pc'[u] = "cad" /\ session'[u] = b
    BY <2>2 DEF OwnerInv
  <2>6. UNCHANGED <<node, nodes, visit>>
    OBVIOUS
  <2> HIDE DEF Connect, IInv, TypeOK
  <2> QED BY <2>1, <2>3, <2>4, <2>5, <2>6 DEF OwnerInv
<1> QED BY <1>1, <1>2, <1>3, <1>4

\* A goroutine that goes to disconnectPair with the code of a session, or on to disconnectPair
\* after an invitation that failed, keeps the invariant.
LEMMA ToEndInv ==
  ASSUME IInv, TypeOK', UNCHANGED <<masters, side, locals>>,
         NEW t \in Threads, pc[t] \in {"idle", "adding", "watch", "read", "range"},
         NEW c \in Codes, pc[c] # "off", t \in Codes => c = t,
         Goto(t, "cad"), session' = [session EXCEPT ![t] = c],
         \A b \in Codes, l \in Links : b \in visit[l] => b \in visit'[l] \/ b = c
  PROVE  IInv'
<1> USE DEF IInv, TypeOK, masters, locals, Goto, Ending, Working
<1>1. LocalInv'  BY DEF LocalInv
<1>2. CodeInv'  BY DEF LocalInv, CodeInv
<1>3. GuardInv'
  <2>1. pc'[t] = "cad" /\ session'[t] = c  OBVIOUS
  <2>2. \A u \in Threads \ {t} : pc'[u] = pc[u] /\ session'[u] = session[u]  OBVIOUS
  <2> QED BY <2>1, <2>2 DEF LocalInv, GuardInv
<1>4. OwnerInv'
  <2>1. pc'[t] = "cad" /\ session'[t] = c  OBVIOUS
  <2>2. \A u \in Threads \ {t} : pc'[u] = pc[u] /\ session'[u] = session[u]  OBVIOUS
  <2> QED BY <2>1, <2>2 DEF LocalInv, OwnerInv
<1> QED BY <1>1, <1>2, <1>3, <1>4

\* A goroutine that is through with a session that is not in `channels`, or that another
\* one guards, keeps the invariant.
LEMMA ReturnInv ==
  ASSUME IInv, TypeOK', UNCHANGED <<masters, visit, side, locals>>,
         NEW t \in Threads, pc[t] \in Ending \cup {"adding"}, t \in Handlers \/ pc[t] # "adding",
         pc[t] = "cad" => session[t] \notin channels,
         Return(t)
  PROVE  IInv'
<1> USE DEF IInv, TypeOK, masters, locals, Return, Goto, Ending, Working
<1>1. LocalInv'  BY DEF LocalInv
<1>2. CodeInv'  BY DEF LocalInv, CodeInv
<1>3. GuardInv'  BY DEF LocalInv, GuardInv
<1>4. OwnerInv'  BY OwnerKept DEF LocalInv
<1> QED BY <1>1, <1>2, <1>3, <1>4

\* CompareAndDelete that finds the session keeps the invariant: it is gone from the map.
LEMMA DeleteInv ==
  ASSUME IInv, TypeOK', NEW t \in Threads, pc[t] = "cad", Goto(t, "teardown"),
         channels' = channels \ {session[t]},
         UNCHANGED <<closed, node, nodes, session, visit, side, locals>>
  PROVE  IInv'
<1> USE DEF IInv, TypeOK, locals, Goto, Ending, Working
<1>1. LocalInv'  BY DEF LocalInv
<1>2. CodeInv'  BY DEF LocalInv, CodeInv
<1>3. GuardInv'  BY DEF LocalInv, GuardInv
<1>4. OwnerInv'  BY OwnerKept DEF LocalInv
<1> QED BY <1>1, <1>2, <1>3, <1>4

\* The critical section of disconnectPair keeps the invariant.
LEMMA TeardownInv ==
  ASSUME IInv, TypeOK', NEW t \in Threads, Teardown(t)
  PROVE  IInv'
<1> USE DEF IInv, TypeOK, Teardown, locals, Goto, Ending, Working
<1>1. LocalInv'  BY DEF LocalInv
<1>2. CodeInv'  BY DEF LocalInv, CodeInv
<1>3. GuardInv'  BY DEF LocalInv, GuardInv
<1>4. OwnerInv'  BY OwnerKept DEF LocalInv
<1> QED BY <1>1, <1>2, <1>3, <1>4

\* disconnectPair and the timer keep the invariant.
LEMMA PairInv ==
  ASSUME IInv, TypeOK', NEW t \in Threads,
         DisconnectPair(t) \/ (t \in Codes /\ Watch(t))
  PROVE  IInv'
<1>1. CASE CompareAndDelete(t)
  BY <1>1, DeleteInv, ReturnInv DEF CompareAndDelete, masters, Ending
<1>2. CASE Teardown(t)
  BY <1>2, TeardownInv
<1>3. CASE SendDel(t)
  <2>1. CASE Return(t) /\ UNCHANGED <<todo, orders>>
    BY <1>3, <2>1, ReturnInv DEF SendDel, Ending
  <2>2. CASE UNCHANGED <<pc, session>>
    BY <1>3, <2>2, ApartInv DEF SendDel, locals, IInv, LocalInv
  <2> QED BY <1>3, <2>1, <2>2 DEF SendDel
<1>4. CASE t \in Codes /\ Watch(t)
  <2>1. CASE closed[t] \/ node[t] # None
    <3> USE <2>1 DEF IInv, TypeOK, masters, locals, Watch, Goto, Ending, Working
    <3>1. LocalInv'  BY <1>4 DEF LocalInv
    <3>2. CodeInv'  BY <1>4 DEF LocalInv, CodeInv
    <3>3. GuardInv'  BY <1>4 DEF LocalInv, CodeInv, GuardInv
    <3>4. OwnerInv'  BY <1>4, OwnerKept DEF LocalInv
    <3> QED BY <3>1, <3>2, <3>3, <3>4
  <2>2. CASE ~(closed[t] \/ node[t] # None)
    <3>1. session' = [session EXCEPT ![t] = t]
      BY <1>4, <2>2 DEF Watch, IInv, TypeOK, LocalInv
    <3> QED BY <1>4, <2>2, <3>1, ToEndInv DEF Watch
  <2> QED BY <2>1, <2>2
<1> QED BY <1>1, <1>2, <1>3, <1>4 DEF DisconnectPair

\* processAgentAuth keeps the invariant: the link is registered.
LEMMA AuthInv ==
  ASSUME IInv, TypeOK', NEW l \in Links, AgentAuth(l)
  PROVE  IInv'
<1> USE DEF IInv, TypeOK, AgentAuth, locals, Goto, Ending, Working
<1>1. LocalInv'  BY DEF LocalInv
<1>2. CodeInv'  BY DEF LocalInv, CodeInv
<1>3. GuardInv'  BY GuardKept DEF LocalInv
<1>4. OwnerInv'  BY OwnerKept DEF LocalInv
<1> QED BY <1>1, <1>2, <1>3, <1>4

\* A link that ends before it has authorized keeps the invariant.
LEMMA GiveUpInv ==
  ASSUME IInv, TypeOK', NEW l \in Links, GiveUp(l)
  PROVE  IInv'
<1> USE DEF IInv, TypeOK, GiveUp, masters, locals, Goto, Ending, Working
<1>1. LocalInv'  BY DEF LocalInv
<1>2. CodeInv'  BY DEF LocalInv, CodeInv
<1>3. GuardInv'  BY GuardKept DEF LocalInv
<1>4. OwnerInv'  BY OwnerKept DEF LocalInv
<1> QED BY <1>1, <1>2, <1>3, <1>4

\* processAgentNewConn keeps the invariant: the link that takes a session is registered,
\* and its masterHandler will come past the session.
LEMMA NewConnInv ==
  ASSUME IInv, TypeOK', NEW l \in Links, AgentNewConn(l)
  PROVE  IInv'
<1> USE DEF IInv, TypeOK, AgentNewConn, threads, locals, Ending, Working
<1> DEFINE c == Head(toMaster[l]).code
<1>1. CASE UNCHANGED <<node, machine>>
  BY <1>1, ApartInv DEF LocalInv, masters
<1>2. CASE /\ pc[c] # "off" /\ ~closed[c] /\ node[c] = None
           /\ node' = [node EXCEPT ![c] = l]
  <2>1. l \in nodes  BY DEF LocalInv
  <2> HIDE DEF c
  <2>2. \A b \in Codes : node'[b] = node[b] \/ (b = c /\ node'[b] = l)
    BY <1>2
  <2>3. LocalInv'  BY DEF LocalInv
  <2>4. CodeInv'  BY <1>2, <2>2 DEF CodeInv
  <2>5. GuardInv'  BY <2>2, GuardKept
  <2>6. OwnerInv'  BY <2>1, <2>2, OwnerKept
  <2> QED BY <2>3, <2>4, <2>5, <2>6
<1> QED BY <1>1, <1>2

\* A node's DelCode, for a session or for none, keeps the invariant.
LEMMA DelCodeInv ==
  ASSUME IInv, TypeOK', NEW l \in Links, AgentDelCode(l)
  PROVE  IInv'
<1> DEFINE c == Head(toMaster[l]).code
<1>1. CASE c \in channels
  <2>1. c \in Codes /\ pc[c] # "off"
    BY <1>1 DEF IInv, TypeOK, CodeInv
  <2>2. Goto(l, "cad") /\ session' = [session EXCEPT ![l] = c]
    BY <1>1 DEF AgentDelCode
  <2> HIDE DEF c
  <2> QED BY <2>1, <2>2, ToEndInv DEF AgentDelCode
<1>2. CASE c \notin channels
  BY <1>2, ApartInv DEF AgentDelCode, locals, IInv, LocalInv
<1> QED BY <1>1, <1>2

\* The end of a link keeps the invariant: its sessions are still to be visited.
LEMMA LeaveInv ==
  ASSUME IInv, TypeOK', NEW l \in Links, Leave(l)
  PROVE  IInv'
<1> USE DEF IInv, TypeOK, Leave, locals, Goto, Ending, Working
<1>1. LocalInv'  BY DEF LocalInv
<1>2. CodeInv'  BY DEF LocalInv, CodeInv
<1>3. GuardInv'  BY GuardKept DEF LocalInv
<1>4. OwnerInv'
  <2>1. \A u \in Threads : pc[u] = "cad" => pc'[u] = "cad" /\ session'[u] = session[u]
    OBVIOUS
  <2>2. \A k \in Links : pc[k] = "farewell" \/ k = l => pc'[k] = "farewell"
    OBVIOUS
  <2> QED BY <2>1, <2>2 DEF OwnerInv
<1> QED BY <1>1, <1>2, <1>3, <1>4

\* The news of its end keeps the invariant: every session of the map is to be visited.
LEMMA FarewellInv ==
  ASSUME IInv, TypeOK', NEW l \in Links, Farewell(l)
  PROVE  IInv'
<1> USE DEF IInv, TypeOK, Farewell, masters, locals, Goto, Ending, Working
<1>1. LocalInv'  BY DEF LocalInv
<1>2. CodeInv'  BY DEF LocalInv, CodeInv
<1>3. GuardInv'  BY GuardKept DEF LocalInv
<1>4. OwnerInv'
  <2>1. \A u \in Threads : pc[u] = "cad" => pc'[u] = "cad" /\ session'[u] = session[u]
    OBVIOUS
  <2>2. \A k \in Links \ {l} : pc'[k] = pc[k] /\ visit'[k] = visit[k]
    OBVIOUS
  <2>3. visit'[l] = channels
    OBVIOUS
  <2> QED BY <2>1, <2>2, <2>3 DEF OwnerInv
<1> QED BY <1>1, <1>2, <1>3, <1>4

\* A visited session keeps the invariant: if it is the link's, its masterHandler ends it.
LEMMA VisitInv ==
  ASSUME IInv, TypeOK', NEW l \in Links, Visit(l)
  PROVE  IInv'
<1> USE DEF IInv, TypeOK, masters, locals, Ending, Working
<1>1. CASE visit[l] = {} /\ Goto(l, "done") /\ UNCHANGED <<visit, session>>
  <2> USE DEF Visit, Goto
  <2>1. LocalInv'  BY <1>1 DEF LocalInv
  <2>2. CodeInv'  BY <1>1 DEF LocalInv, CodeInv
  <2>3. GuardInv'  BY <1>1 DEF LocalInv, GuardInv
  <2>4. OwnerInv'  BY <1>1, OwnerKept DEF LocalInv
  <2> QED BY <2>1, <2>2, <2>3, <2>4
<1>2. ASSUME NEW c \in visit[l], visit' = [visit EXCEPT ![l] = @ \ {c}], node[c] = l,
             Goto(l, "cad"), session' = [session EXCEPT ![l] = c]
      PROVE  IInv'
  <2>1. c \in Codes /\ pc[c] # "off"
    BY <1>2 DEF CodeInv
  <2>2. pc[l] = "range" /\ UNCHANGED <<masters, side, locals>>
    BY DEF Visit
  <2>3. \A b \in Codes, k \in Links : b \in visit[k] => b \in visit'[k] \/ b = c
    BY <1>2
  <2>4. l \in Threads /\ l \notin Codes
    OBVIOUS
  <2> HIDE DEF IInv, TypeOK, masters, locals, Ending, Working
  <2> QED BY <1>2, <2>1, <2>2, <2>3, <2>4, ToEndInv
<1>3. ASSUME NEW c \in visit[l], visit' = [visit EXCEPT ![l] = @ \ {c}], node[c] # l,
             UNCHANGED <<pc, session>>
      PROVE  IInv'
  <2> USE DEF Visit
  <2>1. LocalInv'  BY <1>3 DEF LocalInv
  <2>2. CodeInv'  BY <1>3 DEF LocalInv, CodeInv
  <2>3. GuardInv'  BY <1>3 DEF LocalInv, GuardInv
  <2>4. OwnerInv'
    <3>1. \A b \in Codes, k \in Links : b \in visit[k] => b \in visit'[k] \/ (b = c /\ k = l)
      BY <1>3
    <3> QED BY <1>3, <3>1, OwnerKept
  <2> QED BY <2>1, <2>2, <2>3, <2>4
<1> QED BY <1>1, <1>2, <1>3 DEF Visit

\* A link that a node dials keeps the invariant: it is not registered yet.
LEMMA DialInv ==
  ASSUME IInv, TypeOK', NEW n \in Nodes, Dial(n)
  PROVE  IInv'
<1> DEFINE l == CHOOSE k \in Links : pc[k] = "off"
<1>1. l \in Links /\ pc[l] = "off"
  BY DEF Dial
<1>2. /\ side' = [side EXCEPT ![l] = n] /\ Goto(l, "new")
      /\ master' = [master EXCEPT ![n] = l] /\ client' = [client EXCEPT ![n] = "auth"]
      /\ UNCHANGED <<masters, session, visit>>
  BY DEF Dial
<1> HIDE DEF l
<1> USE <1>1, <1>2 DEF IInv, TypeOK, masters, Goto, Ending, Working
<1>3. LocalInv'  BY DEF LocalInv
<1>4. CodeInv'  BY DEF LocalInv, CodeInv
<1>5. GuardInv'  BY GuardKept DEF LocalInv
<1>6. OwnerInv'  BY OwnerKept DEF LocalInv
<1> QED BY <1>3, <1>4, <1>5, <1>6

\* The other steps of nodes keep the invariant.
LEMMA NodeInv ==
  ASSUME IInv, TypeOK', NEW n \in Nodes,
         \/ ClientStep(n) \/ Crash(n)
         \/ \E m \in owed[n] : Send(n, m)
         \/ \E c \in Codes :
              CopyStep(n, c) \/ CopyEnds(n, c) \/ \E r \in Roles : Arrive(n, c, r)
  PROVE  IInv'
<1>1. UNCHANGED <<masters, pc, session, visit, side>>
  BY DEF ClientStep, SendAuth, Authorized, LoseMaster, AgentAddCode, NodeDelCode, Crash,
         Send, CopyStep, WaitTimeout, Reap, CopyEnds, Arrive, threads
<1>2. \A k \in Nodes : client[k] # "dial" => master[k] \in Links
  BY DEF IInv, LocalInv
<1> USE DEF IInv, TypeOK, locals
<1>3. CASE UNCHANGED <<master, client>>
  BY <1>1, <1>2, <1>3, ApartInv
<1>4. CASE SendAuth(n) \/ Authorized(n)
  BY <1>1, <1>2, <1>4, ApartInv DEF SendAuth, Authorized
<1>5. CASE LoseMaster(n) \/ Crash(n)
  <2>1. master' = [master EXCEPT ![n] = None] /\ client' = [client EXCEPT ![n] = "dial"]
    BY <1>5 DEF LoseMaster, Crash
  <2>2. \A k \in Nodes : client'[k] # "dial" => master'[k] \in Links
    BY <1>2, <2>1
  <2> QED BY ONLY IInv, TypeOK', <1>1, <2>2, ApartInv
<1> QED BY <1>3, <1>4, <1>5 DEF ClientStep, AgentAddCode, NodeDelCode, Send, CopyStep,
                               WaitTimeout, Reap, CopyEnds, Arrive

\* Every step keeps the invariant.
THEOREM StepInv == IInv /\ [Next]_vars => IInv'
<1> SUFFICES ASSUME IInv, [Next]_vars PROVE IInv'
  OBVIOUS
<1>1. CASE UNCHANGED vars
  BY <1>1 DEF vars, masters, threads, queues, reports, orders, locals, IInv, TypeOK, LocalInv, CodeInv, GuardInv,
       OwnerInv, Working
<1> SUFFICES ASSUME Next PROVE IInv'
  BY <1>1
<1>2. TypeOK'
  BY TypeStep DEF IInv
<1>3. ASSUME NEW h \in Handlers,
             SendAdd(h) \/ Invite(h) \/ \E c \in Codes : Connect(h, c) \/ Disconnect(h, c)
      PROVE  IInv'
  <2>1. CASE SendAdd(h)
    BY <1>2, <2>1, ApartInv DEF SendAdd, locals, IInv, LocalInv
  <2>2. CASE Invite(h)
    <3>1. session[h] \in Codes /\ pc[session[h]] # "off"
      BY <2>2 DEF Invite, IInv, LocalInv, CodeInv, Working
    <3>2. session = [session EXCEPT ![h] = session[h]]
      BY DEF IInv, TypeOK
    <3> QED BY <1>2, <2>2, <3>1, <3>2, ToEndInv, ReturnInv DEF Invite
  <2>3. ASSUME NEW c \in Codes, Connect(h, c) PROVE IInv'
    BY <1>2, <2>3, ConnectInv
  <2>4. ASSUME NEW c \in Codes, Disconnect(h, c) PROVE IInv'
    <3>1. pc[c] # "off"
      BY <2>4 DEF Disconnect, IInv, CodeInv
    <3> QED BY <1>2, <2>4, <3>1, ToEndInv DEF Disconnect
  <2> QED BY <1>3, <2>1, <2>2, <2>3, <2>4
<1>4. ASSUME NEW t \in Threads, DisconnectPair(t) \/ (t \in Codes /\ Watch(t)) PROVE IInv'
  BY <1>2, <1>4, PairInv
<1>5. ASSUME NEW l \in Links, LinkStep(l) PROVE IInv'
  BY <1>2, <1>4, <1>5, AuthInv, GiveUpInv, NewConnInv, DelCodeInv, LeaveInv, FarewellInv, VisitInv
  DEF LinkStep
<1>6. ASSUME NEW n \in Nodes, Dial(n) PROVE IInv'
  BY <1>2, <1>6, DialInv
<1>7. ASSUME NEW l \in Links, Break(l) PROVE IInv'
  BY <1>2, <1>7, ApartInv DEF Break, threads, locals, IInv, LocalInv
<1> QED BY <1>2, <1>3, <1>4, <1>5, <1>6, <1>7, NodeInv DEF Next, HandlerStep, WatchStep

\* The invariant holds in every state that the cluster can reach.
THEOREM ClusterInvariant == Spec => []IInv
  BY InitIInv, StepInv, PTL DEF Spec

\* The variables keep their types: goroutines know their code, and a node that waits for
\* the answer to Auth, or reads, has a link.
THEOREM TypeCorrect == Spec => []TypeOK
<1>1. IInv => TypeOK
  BY DEF IInv
<1> QED BY <1>1, ClusterInvariant, PTL

\* Whatever links break and whenever nodes take sessions, every session in the master's
\* map has a goroutine that will end it or come past it.
THEOREM SessionsAreGuarded == Spec => []SessionGuarded
<1>1. ASSUME IInv, NEW c \in channels
      PROVE  \/ pc[c] = "watch"
             \/ \E t \in Threads : pc[t] = "cad" /\ session[t] = c
             \/ \E l \in Links : node[c] = l /\ (l \in nodes \/ pc[l] = "farewell" \/ c \in visit[l])
  <2>1. CASE node[c] = None
    BY <1>1, <2>1 DEF IInv, GuardInv
  <2>2. CASE node[c] # None
    <3>1. node[c] \in Links
      BY <1>1, <2>2 DEF IInv, TypeOK
    <3> QED BY <1>1, <3>1 DEF IInv, OwnerInv
  <2> QED BY <2>1, <2>2
<1>2. IInv => SessionGuarded
  BY <1>1 DEF SessionGuarded
<1> QED BY <1>2, ClusterInvariant, PTL

(***************************************************************************)
(* Queues.                                                                 *)
(***************************************************************************)

\* What a message that is sent changes of what is under way, ...
LEMMA Appended ==
  ASSUME NEW q \in Seq(Message), NEW m \in Message
  PROVE  /\ \A x : UnderWay(Append(q, m), x) <=> UnderWay(q, x) \/ x = m
         /\ \A c : Mentions(Append(q, m), c) <=> Mentions(q, c) \/ m.code = c
         /\ \A x : Once(q, x) /\ (x = m => ~UnderWay(q, x)) => Once(Append(q, m), x)
<1> DEFINE r == Append(q, m)
<1>1. /\ Len(q) \in Nat /\ Len(r) = Len(q) + 1
      /\ \A i \in 1 .. Len(q) : r[i] = q[i]
      /\ r[Len(q) + 1] = m
  OBVIOUS
<1> HIDE DEF r
<1>2. \A i : i \in 1 .. Len(r) <=> i \in 1 .. Len(q) \/ i = Len(q) + 1
  BY <1>1
<1> QED BY <1>1, <1>2 DEF UnderWay, Mentions, Once, r

\* ... and a message that is read.
LEMMA Taken ==
  ASSUME NEW q \in Seq(Message), q # <<>>
  PROVE  /\ Head(q) \in Message /\ Tail(q) \in Seq(Message)
         /\ UnderWay(q, Head(q)) /\ Mentions(q, Head(q).code)
         /\ \A x : UnderWay(q, x) <=> UnderWay(Tail(q), x) \/ x = Head(q)
         /\ \A c : Mentions(Tail(q), c) => Mentions(q, c)
         /\ \A x : Once(q, x) => Once(Tail(q), x)
         /\ \A x : Once(q, x) /\ x = Head(q) => ~UnderWay(Tail(q), x)
<1> DEFINE r == Tail(q)
<1>1. /\ Len(q) \in Nat \ {0} /\ Len(r) = Len(q) - 1 /\ Head(q) = q[1]
      /\ \A i \in 1 .. Len(r) : r[i] = q[i + 1]
      /\ Head(q) \in Message /\ r \in Seq(Message)
  OBVIOUS
<1> HIDE DEF r
<1>2. \A i \in 1 .. Len(r) : i + 1 \in 1 .. Len(q) /\ i + 1 # 1
  BY <1>1
<1>3. \A i \in 1 .. Len(q) : i = 1 \/ (i - 1 \in 1 .. Len(r) /\ q[i] = r[i - 1])
  BY <1>1
<1>4. 1 \in 1 .. Len(q)
  BY <1>1
<1>5. \A x : UnderWay(q, x) <=> UnderWay(r, x) \/ x = Head(q)
  BY <1>1, <1>2, <1>3, <1>4 DEF UnderWay
<1>6. \A c : Mentions(r, c) => Mentions(q, c)
  BY <1>1, <1>2 DEF Mentions
<1>7. ASSUME NEW x, Once(q, x) PROVE Once(r, x)
  <2>1. ASSUME NEW i \in 1 .. Len(r), NEW j \in 1 .. Len(r), r[i] = x, r[j] = x PROVE i = j
    <3>1. q[i + 1] = x /\ q[j + 1] = x
      BY <1>1, <2>1
    <3>2. i + 1 = j + 1
      BY <1>2, <1>7, <3>1 DEF Once
    <3> QED BY <1>1, <3>2
  <2> QED BY <2>1 DEF Once
<1>8. ASSUME NEW x, Once(q, x), x = Head(q) PROVE ~UnderWay(r, x)
  BY <1>1, <1>2, <1>4, <1>8 DEF Once, UnderWay
<1> QED BY <1>1, <1>4, <1>5, <1>6, <1>7, <1>8 DEF UnderWay, Mentions, r

LEMMA NothingUnderWay ==
  \A x : ~UnderWay(<<>>, x) /\ ~Mentions(<<>>, x) /\ Once(<<>>, x)
  BY DEF UnderWay, Mentions, Once

\* Messages of different kinds or codes differ, and one under way mentions its code.
LEMMA Kinds ==
  /\ \A kind, c : Msg(kind, c).kind = kind /\ Msg(kind, c).code = c
  /\ \A kind \in {"add", "del", "new"}, c \in Codes : Msg(kind, c) \in Message
  /\ Msg("auth", None) \in Message
  /\ \A q, kind, c : UnderWay(q, Msg(kind, c)) => Mentions(q, c)
  BY DEF Msg, Message, UnderWay, Mentions

\* A message that was read is of its kind and speaks of a code.
LEMMA ReadMessage ==
  ASSUME NEW q \in Seq(Message), NEW kind \in {"auth", "add", "del", "new"}, Reads(q, kind)
  PROVE  /\ q # <<>> /\ Head(q) = Msg(kind, Head(q).code) /\ Head(q).code \in Codes \cup {None}
<1>1. Head(q) \in Message
  BY DEF Reads
<1> QED BY <1>1 DEF Reads, Msg, Message

\* The same of the queues of all links: one of them gets a message, ...
LEMMA SentToNode ==
  ASSUME TypeOK, NEW l \in Links, NEW m \in Message, SendToNode(l, m)
  PROVE  /\ \A k \in Links : k # l \/ ~up[k] => toNode'[k] = toNode[k]
         /\ \A k \in Links : \A x : UnderWay(toNode[k], x) => UnderWay(toNode'[k], x)
         /\ \A k \in Links : \A x :
              UnderWay(toNode'[k], x) => UnderWay(toNode[k], x) \/ (k = l /\ up[k] /\ x = m)
         /\ \A k \in Links : \A c :
              Mentions(toNode'[k], c) => Mentions(toNode[k], c) \/ (k = l /\ up[k] /\ m.code = c)
         /\ \A k \in Links : \A x :
              Once(toNode[k], x) /\ (k = l /\ x = m => ~UnderWay(toNode[k], x)) => Once(toNode'[k], x)
         /\ \A k \in Links : missedByNode[k] \subseteq missedByNode'[k]
         /\ up[l] /\ m.kind = "del" => UnderWay(toNode'[l], m) \/ m.code \in missedByNode'[l]
<1>1. \A k \in Links : toNode[k] \in Seq(Message)
  BY DEF TypeOK
<1>2. CASE toNode' = Carry(toNode, l, m) /\ UNCHANGED missedByNode
  <2>1. \A k \in Links : toNode'[k] = IF k = l /\ up[k] THEN Append(toNode[k], m) ELSE toNode[k]
    BY <1>2, ClusterAssumption DEF Carry, TypeOK
  <2> QED BY ONLY <1>1, <1>2, <2>1, l \in Links, m \in Message, Appended
<1>3. CASE Lose(missedByNode, l, m) /\ UNCHANGED toNode
  <2>1. missedByNode' = [missedByNode EXCEPT ![l] = IF m.kind = "del" THEN @ \cup {m.code} ELSE @]
    BY <1>3 DEF Lose
  <2> QED BY ONLY <1>3, <2>1, TypeOK, l \in Links DEF TypeOK
<1> QED BY <1>2, <1>3 DEF SendToNode

LEMMA SentToMaster ==
  ASSUME TypeOK, NEW n \in Nodes, NEW m \in Message, SendToMaster(n, m)
  PROVE  /\ \A k \in Links : k # master[n] \/ ~up[k] => toMaster'[k] = toMaster[k]
         /\ \A k \in Links : \A x : UnderWay(toMaster[k], x) => UnderWay(toMaster'[k], x)
         /\ \A k \in Links : \A x :
              UnderWay(toMaster'[k], x) => UnderWay(toMaster[k], x) \/ (k = master[n] /\ up[k] /\ x = m)
         /\ \A k \in Links : \A c :
              Mentions(toMaster'[k], c) => Mentions(toMaster[k], c) \/ (k = master[n] /\ up[k] /\ m.code = c)
         /\ \A k \in Links : missedByMaster[k] \subseteq missedByMaster'[k]
         /\ \A k \in Links : k = master[n] /\ up[k] /\ m.kind = "del" =>
              UnderWay(toMaster'[k], m) \/ m.code \in missedByMaster'[k]
<1>1. \A k \in Links : toMaster[k] \in Seq(Message)
  BY DEF TypeOK
<1>2. CASE toMaster' = Carry(toMaster, master[n], m) /\ UNCHANGED missedByMaster
  <2>1. \A k \in Links : toMaster'[k] = IF k = master[n] /\ up[k] THEN Append(toMaster[k], m) ELSE toMaster[k]
    BY <1>2, ClusterAssumption DEF Carry, TypeOK
  <2> QED BY ONLY <1>1, <1>2, <2>1, m \in Message, Appended
<1>3. CASE Lose(missedByMaster, master[n], m) /\ UNCHANGED toMaster
  <2>1. missedByMaster' = [missedByMaster EXCEPT ![master[n]] = IF m.kind = "del" THEN @ \cup {m.code} ELSE @]
    BY <1>3 DEF Lose
  <2> QED BY ONLY <1>3, <2>1, TypeOK DEF TypeOK
<1> QED BY <1>2, <1>3 DEF SendToMaster

\* ... or loses its first.
LEMMA TakenByNode ==
  ASSUME TypeOK, NEW l \in Links, toNode[l] # <<>>, toNode' = [toNode EXCEPT ![l] = Tail(@)]
  PROVE  /\ \A k \in Links \ {l} : toNode'[k] = toNode[k]
         /\ UnderWay(toNode[l], Head(toNode[l])) /\ Mentions(toNode[l], Head(toNode[l]).code)
         /\ \A k \in Links : \A x : UnderWay(toNode'[k], x) => UnderWay(toNode[k], x)
         /\ \A k \in Links : \A x :
              UnderWay(toNode[k], x) => UnderWay(toNode'[k], x) \/ (k = l /\ x = Head(toNode[l]))
         /\ \A k \in Links : \A c : Mentions(toNode'[k], c) => Mentions(toNode[k], c)
         /\ \A k \in Links : \A x : Once(toNode[k], x) => Once(toNode'[k], x)
         /\ \A x : Once(toNode[l], x) /\ x = Head(toNode[l]) => ~UnderWay(toNode'[l], x)
<1>1. \A k \in Links : toNode'[k] = IF k = l THEN Tail(toNode[k]) ELSE toNode[k]
  BY DEF TypeOK
<1>2. \A k \in Links : toNode[k] \in Seq(Message)
  BY DEF TypeOK
<1> QED BY ONLY <1>1, <1>2, toNode[l] # <<>>, l \in Links, Taken

LEMMA TakenByMaster ==
  ASSUME TypeOK, NEW l \in Links, toMaster[l] # <<>>, toMaster' = [toMaster EXCEPT ![l] = Tail(@)]
  PROVE  /\ \A k \in Links \ {l} : toMaster'[k] = toMaster[k]
         /\ UnderWay(toMaster[l], Head(toMaster[l])) /\ Mentions(toMaster[l], Head(toMaster[l]).code)
         /\ \A k \in Links : \A x : UnderWay(toMaster'[k], x) => UnderWay(toMaster[k], x)
         /\ \A k \in Links : \A x :
              UnderWay(toMaster[k], x) => UnderWay(toMaster'[k], x) \/ (k = l /\ x = Head(toMaster[l]))
         /\ \A k \in Links : \A c : Mentions(toMaster'[k], c) => Mentions(toMaster[k], c)
         /\ \A k \in Links : \A x : Once(toMaster[k], x) => Once(toMaster'[k], x)
         /\ \A x : Once(toMaster[l], x) /\ x = Head(toMaster[l]) => ~UnderWay(toMaster'[l], x)
<1>1. \A k \in Links : toMaster'[k] = IF k = l THEN Tail(toMaster[k]) ELSE toMaster[k]
  BY DEF TypeOK
<1>2. \A k \in Links : toMaster[k] \in Seq(Message)
  BY DEF TypeOK
<1> QED BY ONLY <1>1, <1>2, toMaster[l] # <<>>, l \in Links, Taken

(***************************************************************************)
(* What keeps each part of the invariant.                                  *)
(***************************************************************************)
LEMMA LinkKept ==
  ASSUME LinkInv, LocalInv, UNCHANGED <<side, master, client>>,
         \A l \in Links :
           /\ up'[l] => up[l]
           /\ pc'[l] = "off" => pc[l] = "off"
           /\ pc[l] = "off" => toMaster'[l] = toMaster[l] /\ toNode'[l] = toNode[l]
           /\ \A t \in Threads : l \in todo'[t] => l \in todo[t] \/ l \in nodes
  PROVE  LinkInv'
  BY DEF LinkInv, LocalInv

LEMMA NewsKept ==
  ASSUME NewsInv,
         \A c \in channels' : c \in channels \/ pc[c] = "off",
         \A c \in Codes : pc'[c] = "off" =>
           /\ pc[c] = "off"
           /\ \A n \in Nodes : copy'[n][c] = copy[n][c] \/ copy'[n][c] = "none"
           /\ \A n \in Nodes : \A m \in owed'[n] : m \in owed[n] \/ m.code # c
           /\ \A l \in Links : /\ Mentions(toMaster'[l], c) => Mentions(toMaster[l], c)
                               /\ Mentions(toNode'[l], c) => Mentions(toNode[l], c),
         \A c \in channels', l \in Links :
           UnderWay(toNode'[l], Msg("del", c)) => UnderWay(toNode[l], Msg("del", c)),
         channels' \subseteq Codes,
         \A t \in Threads : pc'[t] = "deleting" => session'[t] \notin channels'
  PROVE  NewsInv'
<1>1. \A c \in Codes : pc[c] = "off" => \A l \in Links : ~UnderWay(toNode[l], Msg("del", c))
  BY Kinds DEF NewsInv
<1>2. \A c \in Codes : pc'[c] = "off" =>
        /\ \A n \in Nodes : copy'[n][c] = "none" /\ \A m \in owed'[n] : m.code # c
        /\ \A l \in Links : ~Mentions(toMaster'[l], c) /\ ~Mentions(toNode'[l], c)
  BY DEF NewsInv
<1>3. \A c \in Codes, l \in Links : UnderWay(toNode'[l], Msg("del", c)) => c \notin channels'
  BY <1>1 DEF NewsInv
<1> HIDE DEF NewsInv
<1> QED BY <1>2, <1>3 DEF NewsInv, Msg

LEMMA InvitedKept ==
  ASSUME InvitedInv, machine' = machine,
         \A c \in Codes : node[c] # None => node'[c] # None,
         \A c \in Codes, l \in Links : node'[c] = l => node[c] = l \/ pc'[l] \notin {"off", "new"},
         \A t \in Links : pc'[t] \in {"off", "new"} => pc[t] \in {"off", "new"},
         \A c \in Codes : pc'[c] = "off" => pc[c] = "off",
         \A h \in Handlers, c \in Codes : Adding(h, c)' => Adding(h, c)
  PROVE  InvitedInv'
  BY DEF InvitedInv

LEMMA ClosedKept ==
  ASSUME ClosedInv, TypeOK,
         \A c \in Codes \ channels' : pc'[c] # "off" => c \notin channels /\ pc[c] # "off",
         \A c \in Codes : closed[c] => closed'[c],
         \A t \in Threads : pc[t] = "teardown" =>
           (pc'[t] = "teardown" /\ session'[t] = session[t]) \/ closed'[session[t]]
  PROVE  ClosedInv'
  BY DEF ClosedInv

LEMMA AddKept ==
  ASSUME AddInv, side' = side,
         \A l \in Links : up'[l] =>
           /\ up[l]
           /\ \A c \in Codes :
                /\ UnderWay(toNode'[l], Msg("add", c)) => UnderWay(toNode[l], Msg("add", c))
                /\ Once(toNode[l], Msg("add", c)) => Once(toNode'[l], Msg("add", c))
                /\ \A h \in Handlers :
                     Adding(h, c)' /\ l \in todo'[h] => Adding(h, c) /\ l \in todo[h]
                /\ ToCome(l, c)' /\ ToCome(l, c) /\ copy[side[l]][c] = "none" /\ ~Claims(l, c) =>
                     copy'[side[l]][c] = "none" /\ ~Claims(l, c)'
  PROVE  AddInv'
<1> SUFFICES ASSUME NEW l \in Links, NEW c \in Codes, up'[l]
             PROVE  /\ ToCome(l, c)' => copy'[side'[l]][c] = "none" /\ ~Claims(l, c)'
                    /\ Once(toNode'[l], Msg("add", c))
                    /\ UnderWay(toNode'[l], Msg("add", c)) =>
                         \A h \in Handlers : Adding(h, c)' => l \notin todo'[h]
  BY DEF AddInv, Msg
<1>1. /\ ToCome(l, c) => copy[side[l]][c] = "none" /\ ~Claims(l, c)
      /\ Once(toNode[l], Msg("add", c))
      /\ UnderWay(toNode[l], Msg("add", c)) => \A h \in Handlers : Adding(h, c) => l \notin todo[h]
  BY DEF AddInv
<1>2. ToCome(l, c)' => ToCome(l, c)
  BY DEF ToCome, Msg
<1> QED BY <1>1, <1>2

LEMMA ServeKept ==
  ASSUME ServeInv, side' = side, channels' \subseteq channels,
         \A l \in Links, c \in channels' : up'[l] =>
           /\ up[l]
           /\ Claims(l, c)' => Claims(l, c) \/ copy'[side[l]][c] \in {"waiting", "relaying"}
           /\ copy[side[l]][c] \in {"waiting", "relaying"} =>
                copy'[side[l]][c] \in {"waiting", "relaying"} \/ Msg("del", c) \in owed'[side[l]]
           /\ Msg("del", c) \in owed[side[l]] =>
                \/ Msg("del", c) \in owed'[side[l]] \/ UnderWay(toMaster'[l], Msg("del", c))
                \/ c \in missedByMaster'[l]
           /\ c \in missedByMaster[l] => c \in missedByMaster'[l]
           /\ UnderWay(toMaster[l], Msg("del", c)) =>
                UnderWay(toMaster'[l], Msg("del", c)) \/ (pc'[l] = "cad" /\ session'[l] = c)
           /\ pc[l] = "cad" /\ session[l] = c => pc'[l] = "cad" /\ session'[l] = c
  PROVE  ServeInv'
<1> SUFFICES ASSUME NEW c \in channels', NEW l \in Links, up'[l], Claims(l, c)'
             PROVE  \/ copy'[side[l]][c] \in {"waiting", "relaying"}
                    \/ Msg("del", c) \in owed'[side[l]] \/ UnderWay(toMaster'[l], Msg("del", c))
                    \/ pc'[l] = "cad" /\ session'[l] = c
                    \/ c \in missedByMaster'[l]
  BY DEF ServeInv, Msg
<1>1. CASE Claims(l, c)
  <2>1. \/ copy[side[l]][c] \in {"waiting", "relaying"}
        \/ Msg("del", c) \in owed[side[l]] \/ UnderWay(toMaster[l], Msg("del", c))
        \/ pc[l] = "cad" /\ session[l] = c
        \/ c \in missedByMaster[l]
    BY <1>1 DEF ServeInv
  <2> QED BY <2>1
<1>2. CASE ~Claims(l, c)
  BY <1>2
<1> QED BY <1>1, <1>2

LEMMA ReachKept ==
  ASSUME ReachInv, side' = side,
         \A l \in nodes', c \in Codes : node'[c] = l /\ up'[l] /\ copy'[side[l]][c] # "none" =>
           /\ l \in nodes /\ node[c] = l /\ up[l] /\ copy[side[l]][c] # "none"
           /\ c \in channels => c \in channels' \/ \E t \in Threads : WillTell(t, c, l)'
           /\ UnderWay(toNode[l], Msg("del", c)) => UnderWay(toNode'[l], Msg("del", c))
           /\ \A t \in Threads : WillTell(t, c, l) =>
                WillTell(t, c, l)' \/ UnderWay(toNode'[l], Msg("del", c)) \/ c \in missedByNode'[l]
           /\ c \in missedByNode[l] => c \in missedByNode'[l]
  PROVE  ReachInv'
<1> SUFFICES ASSUME NEW l \in nodes', NEW c \in Codes,
                    node'[c] = l, up'[l], copy'[side[l]][c] # "none"
             PROVE  \/ c \in channels' \/ UnderWay(toNode'[l], Msg("del", c)) \/ c \in missedByNode'[l]
                    \/ \E t \in Threads : WillTell(t, c, l)'
  BY DEF ReachInv, Msg
<1>1. \/ c \in channels \/ UnderWay(toNode[l], Msg("del", c)) \/ c \in missedByNode[l]
      \/ \E t \in Threads : WillTell(t, c, l)
  BY DEF ReachInv
<1> QED BY <1>1

LEMMA UserKept ==
  ASSUME UserInv, \A c \in Codes, r \in Roles : machine[c][r] \in Nodes => machine'[c][r] = machine[c][r],
         \A c \in Codes, n \in Nodes :
           Uses(n, c)' => Uses(n, c) \/ \E r \in Roles : machine'[c][r] = n
  PROVE  UserInv'
  BY DEF UserInv

(***************************************************************************)
(* Steps of the master.                                                    *)
(***************************************************************************)

\* A goroutine of the master goes on, without a message and without a machine.
LEMMA QuietStep ==
  ASSUME SharedInv, IInv', NEW t \in Threads,
         UNCHANGED <<node, side, up, queues, locals, machine>>,
         channels' \subseteq channels, nodes' \subseteq nodes,
         \A c \in Codes : closed[c] => closed'[c],
         \A u \in Threads \ {t} : pc'[u] = pc[u] /\ session'[u] = session[u] /\ todo'[u] = todo[u],
         pc[t] \notin {"off", "new"}, pc'[t] \notin {"off", "new", "adding"},
         todo'[t] \subseteq todo[t] \cup nodes,
         pc'[t] = "deleting" => session'[t] \notin channels',
         \A c \in channels \ channels' : pc'[t] = "teardown" /\ session'[t] = c,
         pc[t] = "cad" => session[t] \notin channels',
         pc[t] = "teardown" =>
           /\ closed'[session[t]] /\ pc'[t] = "deleting" /\ session'[t] = session[t]
           /\ nodes' \subseteq todo'[t],
         pc[t] = "deleting" => todo[t] = {}
  PROVE  SharedInv'
<1>1. /\ UNCHANGED <<node, side, up, machine, toMaster, toNode, missedByMaster, missedByNode, master, client, copy, owed>>
      /\ TypeOK /\ LocalInv /\ LinkInv /\ NewsInv /\ InvitedInv /\ ClosedInv
      /\ AddInv /\ ServeInv /\ ReachInv /\ UserInv
      /\ channels' \subseteq channels /\ nodes' \subseteq nodes
  BY DEF SharedInv, IInv, queues, reports, orders, locals
<1>2. /\ \A u \in Threads : pc'[u] \in {"off", "new", "adding"} =>
           pc'[u] = pc[u] /\ session'[u] = session[u] /\ todo'[u] = todo[u]
      /\ \A u \in Threads : pc[u] \in {"off", "new"} => pc'[u] = pc[u]
      /\ \A u \in Threads : todo'[u] \subseteq todo[u] \cup nodes
      /\ \A u \in Threads : pc'[u] = "deleting" =>
           session'[u] \notin channels' \/ (pc[u] = "deleting" /\ session'[u] = session[u])
      /\ \A u \in Threads : pc[u] = "teardown" =>
           (pc'[u] = "teardown" /\ session'[u] = session[u]) \/ closed'[session[u]]
      /\ \A u \in Threads : pc[u] = "cad" /\ session[u] \in channels' =>
           pc'[u] = "cad" /\ session'[u] = session[u]
      /\ \A c \in channels \ channels' : pc'[t] = "teardown" /\ session'[t] = c
      /\ \A c \in Codes : closed[c] => closed'[c]
  OBVIOUS
<1>3. \A h \in Handlers, c \in Codes : Adding(h, c)' => Adding(h, c) /\ todo'[h] = todo[h]
  BY ONLY <1>2 DEF Adding, Threads
<1>4. \A l \in Links, c \in Codes : (Claims(l, c)' <=> Claims(l, c))
  BY ONLY <1>1 DEF Claims, Msg
<1>5. \A l \in nodes', c \in Codes, u \in Threads : WillTell(u, c, l) => WillTell(u, c, l)'
  BY DEF WillTell
<1>6. \A l \in nodes', c \in channels \ channels' : WillTell(t, c, l)'
  BY DEF WillTell
<1>7. LinkInv'
  BY ONLY <1>1, <1>2, LinkKept DEF Threads
<1>8. NewsInv'
  <2>1. \A u \in Threads : pc'[u] = "deleting" => session'[u] \notin channels'
    BY ONLY <1>1, <1>2 DEF NewsInv
  <2> QED BY ONLY <1>1, <1>2, <2>1, NewsKept DEF TypeOK, Threads
<1>9. InvitedInv'
  BY ONLY <1>1, <1>2, <1>3, InvitedKept DEF Threads
<1>10. ClosedInv'
  BY ONLY <1>1, <1>2, t \in Threads DEF ClosedInv, Threads
<1>11. AddInv'
  BY ONLY <1>1, <1>3, <1>4, AddKept
<1>12. ServeInv'
  <2>1. \A l \in Links, c \in channels' :
          pc[l] = "cad" /\ session[l] = c => pc'[l] = "cad" /\ session'[l] = c
    BY ONLY <1>2 DEF Threads
  <2>2. channels' \subseteq Codes
    BY ONLY <1>1 DEF TypeOK
  <2> QED BY ONLY <1>1, <1>4, <2>1, <2>2, ServeKept
<1>13. ReachInv'
  BY ONLY <1>1, <1>5, <1>6, ReachKept
<1>14. UserInv'
  BY ONLY <1>1, UserKept DEF Uses, Msg
<1> QED BY <1>7, <1>8, <1>9, <1>10, <1>11, <1>12, <1>13, <1>14 DEF SharedInv

\* A new session: nobody has spoken of its code, so every node is to hear of it first.
LEMMA ConnectStep ==
  ASSUME SharedInv, IInv', NEW h \in Handlers, NEW c \in Codes, Connect(h, c)
  PROVE  SharedInv'
<1>1. /\ UNCHANGED <<closed, node, nodes, side, up, machine, toMaster, toNode, missedByMaster, missedByNode, master, client, copy, owed>>
      /\ TypeOK /\ LocalInv /\ LinkInv /\ NewsInv /\ InvitedInv /\ ClosedInv
      /\ AddInv /\ ServeInv /\ ReachInv /\ UserInv
      /\ channels' = channels \cup {c} /\ pc[c] = "off" /\ pc[h] = "idle"
  BY DEF SharedInv, IInv, Connect, queues, reports, orders, locals
<1>2. /\ pc'[h] = "adding" /\ pc'[c] = "watch" /\ session'[h] = c /\ todo'[h] = nodes
      /\ \A u \in Threads \ {h, c} : pc'[u] = pc[u]
      /\ \A u \in Threads \ {h} : session'[u] = session[u] /\ todo'[u] = todo[u]
  BY ONLY <1>1, Connect(h, c), h \in Handlers, c \in Codes DEF Connect, TypeOK, Threads
<1>3. /\ c \notin channels /\ node[c] = None
      /\ \A t \in Threads : ~Working(t, c)
  BY <1>1 DEF SharedInv, IInv, CodeInv
<1>4. /\ \A n \in Nodes : copy[n][c] = "none" /\ \A m \in owed[n] : m.code # c
      /\ \A l \in Links : ~Mentions(toMaster[l], c) /\ ~Mentions(toNode[l], c)
  BY ONLY <1>1, c \in Codes DEF NewsInv
<1>5. \A l \in Links : /\ ~UnderWay(toNode[l], Msg("add", c)) /\ ~UnderWay(toNode[l], Msg("del", c))
                       /\ ~UnderWay(toMaster[l], Msg("new", c)) /\ ~UnderWay(toMaster[l], Msg("del", c))
  BY ONLY <1>4, Kinds
<1>6. \A n \in Nodes : Msg("new", c) \notin owed[n] /\ Msg("del", c) \notin owed[n]
  BY ONLY <1>4, Kinds
<1>7. \A l \in Links : pc'[l] = pc[l] /\ (up[l] => pc[l] # "off" /\ side[l] \in Nodes)
  BY ONLY <1>1, <1>2, ClusterAssumption, h \in Handlers, c \in Codes DEF LinkInv, LocalInv, Threads
<1>8. \A l \in Links : up[l] => ~Claims(l, c)
  BY ONLY <1>3, <1>5, <1>6, <1>7, ClusterAssumption DEF Claims, Threads
<1>9. \A g \in Handlers, b \in Codes :
        Adding(g, b)' <=> (g = h /\ b = c) \/ (g # h /\ b # c /\ Adding(g, b))
  BY ONLY <1>1, <1>2, <1>3, ClusterAssumption, h \in Handlers, c \in Codes
  DEF Adding, Working, Threads
<1>10. \A l \in Links, b \in Codes : (Claims(l, b)' <=> Claims(l, b))
  BY ONLY <1>1 DEF Claims, Msg
<1>11. LinkInv'
  <2>1. \A l \in Links, t \in Threads : l \in todo'[t] => l \in todo[t] \/ l \in nodes
    BY ONLY <1>2
  <2> QED BY ONLY <1>1, <1>7, <2>1, LinkKept
<1>12. NewsInv'
  <2>1. \A b \in Codes : pc'[b] = "off" => pc[b] = "off"
    BY ONLY <1>1, <1>2, c \in Codes, h \in Handlers DEF Threads
  <2>2. \A t \in Threads : pc'[t] = "deleting" => session'[t] \notin channels'
    <3>1. ASSUME NEW t \in Threads, pc'[t] = "deleting" PROVE session'[t] \notin channels'
      <4>1. pc[t] = "deleting" /\ session'[t] = session[t]
        BY ONLY <1>2, <3>1, t \in Threads
      <4>2. session[t] # c
        BY ONLY <1>3, <4>1, t \in Threads DEF Working, Ending
      <4> QED BY ONLY <1>1, <4>1, <4>2, t \in Threads DEF NewsInv
    <3> QED BY <3>1
  <2>3. channels' \subseteq Codes
    BY <1>1 DEF TypeOK
  <2> QED BY ONLY <1>1, <2>1, <2>2, <2>3, NewsKept
<1>13. InvitedInv'
  <2>1. \A r \in Roles : machine[c][r] = "waits"
    BY ONLY <1>1, c \in Codes DEF InvitedInv
  <2>2. \A b \in Codes : pc'[b] = "off" => pc[b] = "off"
    BY ONLY <1>1, <1>2, c \in Codes, h \in Handlers DEF Threads
  <2> QED BY ONLY <1>1, <1>7, <1>9, <2>1, <2>2 DEF InvitedInv, Roles
<1>14. ClosedInv'
  <2>1. \A t \in Threads : pc[t] = "teardown" => pc'[t] = "teardown" /\ session'[t] = session[t]
    BY ONLY <1>1, <1>2
  <2>2. \A b \in Codes \ channels' : pc'[b] # "off" => pc[b] # "off"
    BY ONLY <1>1, <1>2, h \in Handlers, c \in Codes, ClusterAssumption DEF Threads
  <2> QED BY ONLY <1>1, <2>1, <2>2 DEF ClosedInv, Threads
<1>15. AddInv'
  <2>1. ASSUME NEW l \in Links, NEW b \in Codes, up[l], b # c
        PROVE  /\ ToCome(l, b)' => copy[side[l]][b] = "none" /\ ~Claims(l, b)
               /\ Once(toNode[l], Msg("add", b))
               /\ UnderWay(toNode[l], Msg("add", b)) => \A g \in Handlers : Adding(g, b)' => l \notin todo'[g]
    <3>1. \A g \in Handlers : Adding(g, b)' => Adding(g, b) /\ todo'[g] = todo[g]
      BY ONLY <1>2, <1>9, <2>1 DEF Threads
    <3>2. ToCome(l, b)' => ToCome(l, b)
      BY ONLY <1>1, <3>1 DEF ToCome, Msg
    <3> QED BY ONLY <1>1, <2>1, <3>1, <3>2 DEF AddInv
  <2>2. ASSUME NEW l \in Links, up[l]
        PROVE  /\ copy[side[l]][c] = "none" /\ ~Claims(l, c)
               /\ Once(toNode[l], Msg("add", c))
               /\ ~UnderWay(toNode[l], Msg("add", c))
    BY ONLY <1>1, <1>4, <1>5, <1>7, <1>8, <2>2, c \in Codes DEF AddInv
  <2> QED BY ONLY <1>1, <1>10, <2>1, <2>2 DEF AddInv, Msg
<1>16. ServeInv'
  <2>1. \A l \in Links : pc'[l] = pc[l] /\ session'[l] = session[l]
    BY ONLY <1>2, <1>7, h \in Handlers, ClusterAssumption DEF Threads
  <2>2. ASSUME NEW b \in channels, NEW l \in Links, up[l], Claims(l, b)
        PROVE  \/ copy[side[l]][b] \in {"waiting", "relaying"}
               \/ Msg("del", b) \in owed[side[l]] \/ UnderWay(toMaster[l], Msg("del", b))
               \/ pc'[l] = "cad" /\ session'[l] = b
               \/ b \in missedByMaster[l]
    BY ONLY <1>1, <2>1, <2>2 DEF ServeInv
  <2>3. \A b \in channels', l \in Links : up'[l] /\ Claims(l, b)' => b \in channels /\ up[l] /\ Claims(l, b)
    BY ONLY <1>1, <1>8, <1>10, c \in Codes DEF TypeOK
  <2> QED BY ONLY <1>1, <2>2, <2>3 DEF ServeInv, Msg
<1>17. ReachInv'
  <2>1. \A l \in Links, b \in Codes, t \in Threads : WillTell(t, b, l) => WillTell(t, b, l)'
    BY ONLY <1>1, <1>2 DEF WillTell
  <2>2. nodes \subseteq Links
    BY <1>1 DEF TypeOK
  <2> QED BY ONLY <1>1, <2>1, <2>2, ReachKept
<1>18. UserInv'
  <2>1. \A b \in Codes, n \in Nodes : Uses(n, b)' => Uses(n, b) \/ b = c
    BY ONLY <1>1 DEF Uses, Msg
  <2>2. \A n \in Nodes : ~Uses(n, c)'
    BY ONLY <1>1, <1>4, <1>5, <1>6 DEF Uses, Msg
  <2> QED BY ONLY <1>1, <2>1, <2>2, UserKept
<1> QED BY ONLY <1>11, <1>12, <1>13, <1>14, <1>15, <1>16, <1>17, <1>18, IInv' DEF SharedInv

\* AddCode for one node: the link gets what was to come.
LEMMA SendAddStep ==
  ASSUME SharedInv, IInv', NEW h \in Handlers, SendAdd(h)
  PROVE  SharedInv'
<1>0. PICK l \in todo[h] : todo' = [todo EXCEPT ![h] = @ \ {l}] /\ SendToNode(l, Msg("add", session[h]))
  BY DEF SendAdd
<1> DEFINE c == session[h]
<1>1. /\ UNCHANGED <<channels, closed, node, nodes, pc, session, visit, side, up, toMaster, missedByMaster,
                     master, client, copy, owed, machine>>
      /\ TypeOK /\ LocalInv /\ LinkInv /\ NewsInv /\ InvitedInv /\ ClosedInv
      /\ AddInv /\ ServeInv /\ ReachInv /\ UserInv
      /\ pc[h] = "adding"
  BY DEF SharedInv, IInv, SendAdd, masters, locals, reports
<1>2. c \in Codes /\ pc[c] # "off" /\ l \in Links /\ h \in Threads
  <2>1. l \in Links /\ h \in Threads /\ CodeInv
    <3>1. h \in Threads /\ CodeInv
      BY DEF SharedInv, IInv
    <3> QED BY ONLY <1>1, <3>1, l \in todo[h] DEF TypeOK
  <2>2. c \in Codes
    BY ONLY <1>1, <2>1 DEF LocalInv
  <2> QED BY ONLY <1>1, <2>1, <2>2 DEF CodeInv, Working
<1>3. /\ todo'[h] = todo[h] \ {l}
      /\ \A u \in Threads \ {h} : todo'[u] = todo[u]
  BY ONLY <1>0, <1>1, <1>2 DEF TypeOK
<1>4. /\ \A k \in Links : k # l \/ ~up[l] => toNode'[k] = toNode[k]
      /\ \A k \in Links : \A x : UnderWay(toNode[k], x) => UnderWay(toNode'[k], x)
      /\ \A k \in Links : \A x : UnderWay(toNode'[k], x) =>
           UnderWay(toNode[k], x) \/ (k = l /\ up[k] /\ x = Msg("add", c))
      /\ \A k \in Links : missedByNode[k] \subseteq missedByNode'[k]
      /\ \A k \in Links : \A b : Mentions(toNode'[k], b) =>
           Mentions(toNode[k], b) \/ (k = l /\ up[k] /\ b = c)
      /\ \A k \in Links : \A x : Once(toNode[k], x) /\ (k = l /\ x = Msg("add", c) => ~UnderWay(toNode[k], x))
           => Once(toNode'[k], x)
  <2>1. Msg("add", c) \in Message /\ Msg("add", c).code = c
    BY ONLY <1>2, Kinds
  <2>2. PICK m \in Message : m = Msg("add", c)
    BY <2>1
  <2>3. SendToNode(l, m)
    BY <1>0, <2>2 DEF SendToNode, Lose
  <2> HIDE DEF c
  <2>4. /\ \A k \in Links : k # l \/ ~up[k] => toNode'[k] = toNode[k]
        /\ \A k \in Links : \A x : UnderWay(toNode[k], x) => UnderWay(toNode'[k], x)
        /\ \A k \in Links : \A x : UnderWay(toNode'[k], x) => UnderWay(toNode[k], x) \/ (k = l /\ up[k] /\ x = m)
        /\ \A k \in Links : missedByNode[k] \subseteq missedByNode'[k]
        /\ \A k \in Links : \A b : Mentions(toNode'[k], b) => Mentions(toNode[k], b) \/ (k = l /\ up[k] /\ m.code = b)
        /\ \A k \in Links : \A x : Once(toNode[k], x) /\ (k = l /\ x = m => ~UnderWay(toNode[k], x)) => Once(toNode'[k], x)
    BY ONLY <1>1, <1>2, <2>2, <2>3, SentToNode
  <2> QED BY ONLY <2>1, <2>2, <2>4
<1>5. \A k \in Links : pc[k] = "off" => ~up[k] /\ toNode'[k] = toNode[k]
  BY ONLY <1>1, <1>2, <1>4 DEF LinkInv
<1>6. \A g \in Handlers, b \in Codes : Adding(g, b)' = Adding(g, b)
  BY ONLY <1>1 DEF Adding
<1>7. Adding(h, c) /\ l \in todo[h]
  BY ONLY <1>0, <1>1, <1>2 DEF Adding
<1>8. \A k \in Links, b \in Codes : (Claims(k, b)' <=> Claims(k, b))
  BY ONLY <1>1 DEF Claims, Msg
<1>9. \A b \in Codes, k \in Links : UnderWay(toNode'[k], Msg("del", b)) <=> UnderWay(toNode[k], Msg("del", b))
  BY ONLY <1>4, Kinds
<1> HIDE DEF c
<1>11. LinkInv'
  BY ONLY <1>1, <1>3, <1>5, LinkKept DEF Threads
<1>12. NewsInv'
  <2>1. channels' \subseteq Codes /\ \A t \in Threads : pc'[t] = "deleting" => session'[t] \notin channels'
    BY <1>1 DEF TypeOK, NewsInv
  <2> QED BY ONLY <1>1, <1>2, <1>4, <1>9, <2>1, NewsKept
<1>13. InvitedInv'
  BY ONLY <1>1, <1>6, InvitedKept
<1>14. ClosedInv'
  BY ONLY <1>1, ClosedKept
<1>15. AddInv'
  <2>1. ASSUME NEW k \in Links, NEW b \in Codes, up[k]
        PROVE  /\ ToCome(k, b)' => copy[side[k]][b] = "none" /\ ~Claims(k, b)
               /\ Once(toNode'[k], Msg("add", b))
               /\ UnderWay(toNode'[k], Msg("add", b)) => \A g \in Handlers : Adding(g, b) => k \notin todo'[g]
    <3>1. /\ ToCome(k, b) => copy[side[k]][b] = "none" /\ ~Claims(k, b)
          /\ Once(toNode[k], Msg("add", b))
          /\ UnderWay(toNode[k], Msg("add", b)) => \A g \in Handlers : Adding(g, b) => k \notin todo[g]
      BY ONLY <1>1, <2>1 DEF AddInv
    <3>2. \A g \in Handlers : todo'[g] \subseteq todo[g]
      BY ONLY <1>3 DEF Threads
    <3>3. k = l => ToCome(k, c) /\ ~UnderWay(toNode[k], Msg("add", c))
      BY ONLY <1>1, <1>2, <1>7, <2>1, h \in Handlers DEF ToCome, AddInv
    <3>4. CASE k = l /\ b = c
      <4>1. \A g \in Handlers : Adding(g, b) => g = h
        BY ONLY <1>1, <1>7, <3>4, b \in Codes, h \in Handlers DEF InvitedInv
      <4>2. k \notin todo'[h]
        BY ONLY <1>3, <3>4
      <4> QED BY ONLY <1>4, <2>1, <3>1, <3>3, <3>4, <4>1, <4>2
    <3>5. CASE k # l \/ b # c
      <4>1. Msg("add", b) = Msg("add", c) => b = c
        BY Kinds
      <4>2. UnderWay(toNode'[k], Msg("add", b)) <=> UnderWay(toNode[k], Msg("add", b))
        BY ONLY <1>4, <2>1, <3>5, <4>1
      <4>3. ToCome(k, b)' => ToCome(k, b)
        BY ONLY <1>6, <3>2, <4>2, b \in Codes DEF ToCome, Msg
      <4>4. Once(toNode'[k], Msg("add", b))
        BY ONLY <1>4, <2>1, <3>1, <3>5, <4>1
      <4> QED BY ONLY <3>1, <3>2, <4>2, <4>3, <4>4
    <3> QED BY ONLY <3>4, <3>5
  <2> QED BY ONLY <1>1, <1>6, <1>8, <2>1 DEF AddInv, Msg
<1>16. ServeInv'
  BY ONLY <1>1, <1>8, ServeKept DEF TypeOK
<1>17. ReachInv'
  <2>1. \A k \in Links, b \in Codes, t \in Threads : WillTell(t, b, k) => WillTell(t, b, k)'
    BY ONLY <1>1, <1>3 DEF WillTell
  <2>2. nodes \subseteq Links
    BY <1>1 DEF TypeOK
  <2> QED BY ONLY <1>1, <1>4, <1>9, <2>1, <2>2, ReachKept
<1>18. UserInv'
  BY ONLY <1>1, UserKept DEF Uses, Msg
<1> QED BY ONLY <1>11, <1>12, <1>13, <1>14, <1>15, <1>16, <1>17, <1>18, IInv' DEF SharedInv

\* DelCode for one node: a session that left the map, of which the node will hear.
LEMMA SendDelStep ==
  ASSUME SharedInv, IInv', NEW t \in Threads, SendDel(t), todo[t] # {}
  PROVE  SharedInv'
<1>0. PICK l \in todo[t] : /\ todo' = [todo EXCEPT ![t] = @ \ {l}]
                           /\ SendToNode(l, Msg("del", session[t])) /\ UNCHANGED <<pc, session>>
  BY DEF SendDel
<1> DEFINE c == session[t]
<1>1. /\ UNCHANGED <<channels, closed, node, nodes, pc, session, visit, side, up, toMaster, missedByMaster,
                     master, client, copy, owed, machine>>
      /\ TypeOK /\ LocalInv /\ CodeInv /\ LinkInv /\ NewsInv /\ InvitedInv /\ ClosedInv
      /\ AddInv /\ ServeInv /\ ReachInv /\ UserInv
      /\ pc[t] = "deleting"
  BY <1>0 DEF SharedInv, IInv, SendDel, masters, locals, reports
<1>2. c \in Codes /\ c \notin channels /\ pc[c] # "off" /\ l \in Links
  <2>1. l \in Links
    BY ONLY <1>0, <1>1, t \in Threads DEF TypeOK
  <2>2. c \in Codes
    BY ONLY <1>1, t \in Threads DEF LocalInv, Ending
  <2> QED BY ONLY <1>1, <2>1, <2>2, t \in Threads DEF CodeInv, NewsInv, Working, Ending
<1>3. /\ todo'[t] = todo[t] \ {l}
      /\ \A u \in Threads \ {t} : todo'[u] = todo[u]
  BY ONLY <1>0, <1>1, <1>2, t \in Threads DEF TypeOK
<1>4. /\ \A k \in Links : k # l \/ ~up[k] => toNode'[k] = toNode[k]
      /\ \A k \in Links : \A x : UnderWay(toNode[k], x) => UnderWay(toNode'[k], x)
      /\ \A k \in Links : \A x : UnderWay(toNode'[k], x) =>
           UnderWay(toNode[k], x) \/ (k = l /\ up[k] /\ x = Msg("del", c))
      /\ \A k \in Links : missedByNode[k] \subseteq missedByNode'[k]
      /\ \A k \in Links : \A b : Mentions(toNode'[k], b) =>
           Mentions(toNode[k], b) \/ (k = l /\ up[k] /\ b = c)
      /\ \A k \in Links : \A x : Once(toNode[k], x) /\ (k = l /\ x = Msg("del", c) => ~UnderWay(toNode[k], x))
           => Once(toNode'[k], x)
      /\ up[l] => UnderWay(toNode'[l], Msg("del", c)) \/ c \in missedByNode'[l]
  <2>1. Msg("del", c) \in Message /\ Msg("del", c).code = c /\ Msg("del", c).kind = "del"
    BY ONLY <1>2, Kinds
  <2>2. PICK m \in Message : m = Msg("del", c)
    BY <2>1
  <2>3. SendToNode(l, m)
    BY <1>0, <2>2 DEF SendToNode, Lose
  <2> HIDE DEF c
  <2>4. /\ \A k \in Links : k # l \/ ~up[k] => toNode'[k] = toNode[k]
        /\ \A k \in Links : \A x : UnderWay(toNode[k], x) => UnderWay(toNode'[k], x)
        /\ \A k \in Links : \A x : UnderWay(toNode'[k], x) => UnderWay(toNode[k], x) \/ (k = l /\ up[k] /\ x = m)
        /\ \A k \in Links : missedByNode[k] \subseteq missedByNode'[k]
        /\ \A k \in Links : \A b : Mentions(toNode'[k], b) => Mentions(toNode[k], b) \/ (k = l /\ up[k] /\ m.code = b)
        /\ \A k \in Links : \A x : Once(toNode[k], x) /\ (k = l /\ x = m => ~UnderWay(toNode[k], x)) => Once(toNode'[k], x)
        /\ up[l] /\ m.kind = "del" => UnderWay(toNode'[l], m) \/ m.code \in missedByNode'[l]
    BY ONLY <1>1, <1>2, <2>2, <2>3, SentToNode
  <2> QED BY ONLY <2>1, <2>2, <2>4
<1>5. \A k \in Links : pc[k] = "off" => ~up[k] /\ toNode'[k] = toNode[k]
  BY ONLY <1>1, <1>2, <1>4 DEF LinkInv
<1>6. \A g \in Handlers, b \in Codes : Adding(g, b)' = Adding(g, b) /\ (Adding(g, b) => g # t)
  BY ONLY <1>1 DEF Adding
<1>8. \A k \in Links, b \in Codes : (Claims(k, b)' <=> Claims(k, b))
  BY ONLY <1>1 DEF Claims, Msg
<1>9. \A k \in Links, b \in Codes :
        /\ UnderWay(toNode'[k], Msg("add", b)) <=> UnderWay(toNode[k], Msg("add", b))
        /\ Once(toNode[k], Msg("add", b)) => Once(toNode'[k], Msg("add", b))
        /\ UnderWay(toNode'[k], Msg("del", b)) => UnderWay(toNode[k], Msg("del", b)) \/ b = c
        /\ UnderWay(toNode[k], Msg("del", b)) => UnderWay(toNode'[k], Msg("del", b))
  <2>1. \A b : Msg("add", b) # Msg("del", c) /\ (Msg("del", b) = Msg("del", c) => b = c)
    BY Kinds
  <2> QED BY ONLY <1>4, <2>1
<1> HIDE DEF c
<1>11. LinkInv'
  BY ONLY <1>1, <1>3, <1>5, LinkKept DEF Threads
<1>12. NewsInv'
  <2>1. channels' \subseteq Codes /\ \A u \in Threads : pc'[u] = "deleting" => session'[u] \notin channels'
    BY ONLY <1>1 DEF TypeOK, NewsInv
  <2> QED BY ONLY <1>1, <1>2, <1>4, <1>9, <2>1, NewsKept
<1>13. InvitedInv'
  BY ONLY <1>1, <1>6, InvitedKept
<1>14. ClosedInv'
  BY ONLY <1>1, ClosedKept
<1>15. AddInv'
  <2>1. \A g \in Handlers, b \in Codes : Adding(g, b) => todo'[g] = todo[g]
    BY ONLY <1>3, <1>6 DEF Threads
  <2> QED BY ONLY <1>1, <1>6, <1>8, <1>9, <2>1, AddKept
<1>16. ServeInv'
  BY ONLY <1>1, <1>8, ServeKept DEF TypeOK
<1>17. ReachInv'
  <2>1. \A k \in Links, b \in Codes, u \in Threads : up[k] /\ WillTell(u, b, k) =>
          WillTell(u, b, k)' \/ UnderWay(toNode'[k], Msg("del", b)) \/ b \in missedByNode'[k]
    BY ONLY <1>1, <1>3, <1>4 DEF WillTell, c
  <2>2. nodes \subseteq Links
    BY <1>1 DEF TypeOK
  <2> QED BY ONLY <1>1, <1>4, <1>9, <2>1, <2>2, ReachKept
<1>18. UserInv'
  BY ONLY <1>1, UserKept DEF Uses, Msg
<1> QED BY ONLY <1>11, <1>12, <1>13, <1>14, <1>15, <1>16, <1>17, <1>18, IInv' DEF SharedInv

\* The machine that serves is invited when every node was told.
LEMMA InviteStep ==
  ASSUME SharedInv, IInv', NEW h \in Handlers, Invite(h), Return(h),
         machine' = [machine EXCEPT ![session[h]]["server"] = "invited"]
  PROVE  SharedInv'
<1>1. /\ UNCHANGED <<channels, closed, node, nodes, todo, visit, side, up, toMaster, toNode,
                     missedByMaster, missedByNode,
                     master, client, copy, owed>>
      /\ TypeOK /\ LocalInv /\ CodeInv /\ LinkInv /\ NewsInv /\ InvitedInv /\ ClosedInv
      /\ AddInv /\ ServeInv /\ ReachInv /\ UserInv
      /\ pc[h] = "adding" /\ h \in Threads
  BY DEF SharedInv, IInv, Invite, masters, locals, queues, reports, orders
<1>2. PICK c \in Codes : c = session[h] /\ pc[c] # "off"
  <2>1. session[h] \in Codes
    BY ONLY <1>1 DEF LocalInv
  <2> QED BY ONLY <1>1, <2>1 DEF CodeInv, Working
<1>3. /\ pc'[h] = "idle"
      /\ \A u \in Threads \ {h} : pc'[u] = pc[u] /\ session'[u] = session[u]
  BY ONLY <1>1, Return(h), h \in Handlers DEF Return, Goto, TypeOK
<1>4. Adding(h, c)
  BY ONLY <1>1, <1>2 DEF Adding
<1>5. \A b \in Codes, r \in Roles :
        machine'[b][r] = IF b = c /\ r = "server" THEN "invited" ELSE machine[b][r]
  BY ONLY <1>1, <1>2, machine' = [machine EXCEPT ![session[h]]["server"] = "invited"] DEF TypeOK
<1>6. machine[c]["server"] = "waits"
  BY ONLY <1>1, <1>2, <1>4, h \in Handlers DEF InvitedInv
<1>7. \A g \in Handlers, b \in Codes : Adding(g, b)' => g # h /\ Adding(g, b)
  BY ONLY <1>3 DEF Adding, Threads
<1>8. /\ \A u \in Threads : pc[u] \in {"off", "new", "cad", "teardown", "deleting"}
             => pc'[u] = pc[u] /\ session'[u] = session[u]
      /\ \A u \in Threads : pc'[u] \in {"off", "new", "deleting"} => pc[u] = pc'[u] /\ session'[u] = session[u]
  BY ONLY <1>1, <1>3
<1>9. \A l \in Links, b \in Codes : (Claims(l, b)' <=> Claims(l, b))
  BY ONLY <1>1 DEF Claims, Msg
<1>11. LinkInv'
  BY ONLY <1>1, <1>8, LinkKept DEF Threads
<1>12. NewsInv'
  <2>1. channels' \subseteq Codes /\ \A u \in Threads : pc'[u] = "deleting" => session'[u] \notin channels'
    BY ONLY <1>1, <1>8 DEF TypeOK, NewsInv
  <2> QED BY ONLY <1>1, <1>8, <2>1, NewsKept DEF Threads
<1>13. InvitedInv'
  <2>1. \A g \in Handlers : ~Adding(g, c)'
    <3>1. \A g \in Handlers : Adding(g, c) => g = h
      BY ONLY <1>1, <1>2, <1>4, h \in Handlers DEF InvitedInv
    <3> QED BY ONLY <1>2, <1>7, <3>1
  <2>2. \A b \in Codes : machine'[b]["viewer"] = machine[b]["viewer"]
    BY ONLY <1>5 DEF Roles
  <2>3. \A b \in Codes \ {c}, r \in Roles : machine'[b][r] = machine[b][r]
    BY ONLY <1>5
  <2>4. \A b \in Codes : pc'[b] = "off" => pc[b] = "off" /\ b # c
    BY ONLY <1>2, <1>8 DEF Threads
  <2>5. \A l \in Links : pc'[l] \in {"off", "new"} => pc[l] \in {"off", "new"}
    BY ONLY <1>8 DEF Threads
  <2>6. \A g, k \in Handlers, b \in Codes : Adding(g, b)' /\ Adding(k, b)' => g = k
    BY ONLY <1>1, <1>7 DEF InvitedInv
  <2>7. \A g \in Handlers, b \in Codes : Adding(g, b)' => machine'[b]["server"] = "waits"
    BY ONLY <1>1, <1>7, <2>1, <2>3 DEF InvitedInv, Roles
  <2> QED BY ONLY <1>1, <2>2, <2>3, <2>4, <2>5, <2>6, <2>7 DEF InvitedInv
<1>14. ClosedInv'
  BY ONLY <1>1, <1>8, ClosedKept DEF Threads
<1>15. AddInv'
  BY ONLY <1>1, <1>7, <1>9, AddKept
<1>16. ServeInv'
  <2>1. \A l \in Links : pc[l] = "cad" => pc'[l] = "cad" /\ session'[l] = session[l]
    BY ONLY <1>8 DEF Threads
  <2> QED BY ONLY <1>1, <1>9, <2>1, ServeKept DEF TypeOK
<1>17. ReachInv'
  <2>1. \A l \in Links, b \in Codes, u \in Threads : WillTell(u, b, l) => WillTell(u, b, l)'
    BY ONLY <1>1, <1>8 DEF WillTell
  <2>2. nodes \subseteq Links
    BY <1>1 DEF TypeOK
  <2> QED BY ONLY <1>1, <2>1, <2>2, ReachKept
<1>18. UserInv'
  <2>1. \A b \in Codes, n \in Nodes : Uses(n, b)' => Uses(n, b)
    BY ONLY <1>1 DEF Uses, Msg
  <2>2. \A b \in Codes, r \in Roles : machine[b][r] \in Nodes => machine'[b][r] = machine[b][r]
    BY ONLY <1>5, <1>6, ClusterAssumption
  <2> QED BY ONLY <1>1, <2>1, <2>2, UserKept
<1> QED BY ONLY <1>11, <1>12, <1>13, <1>14, <1>15, <1>16, <1>17, <1>18, IInv' DEF SharedInv

(***************************************************************************)
(* Steps of the nodes.                                                     *)
(***************************************************************************)

\* What a node does without its link changes neither what the master knows nor whom it
\* can reach.
LEMMA NodeSide ==
  ASSUME SharedInv, UNCHANGED <<masters, threads, side, up, master>>,
         \A n \in Nodes : client'[n] = "dial" => client[n] = "dial",
         \A l \in Links : pc[l] = "off" => toMaster'[l] = toMaster[l] /\ toNode'[l] = toNode[l]
  PROVE  /\ UNCHANGED <<channels, closed, node, nodes, pc, session, todo, visit, side, up, master>>
         /\ TypeOK /\ LocalInv /\ CodeInv /\ LinkInv /\ NewsInv /\ InvitedInv /\ ClosedInv
         /\ AddInv /\ ServeInv /\ ReachInv /\ UserInv
         /\ channels \subseteq Codes /\ nodes \subseteq Links
         /\ \A t \in Threads : pc[t] = "deleting" => session[t] \notin channels
         /\ LinkInv' /\ ClosedInv' /\ (machine' = machine => InvitedInv')
<1>1. /\ UNCHANGED <<channels, closed, node, nodes, pc, session, todo, visit, side, up, master>>
      /\ TypeOK /\ LocalInv /\ CodeInv /\ LinkInv /\ NewsInv /\ InvitedInv /\ ClosedInv
      /\ AddInv /\ ServeInv /\ ReachInv /\ UserInv
  BY DEF SharedInv, IInv, masters, threads
<1>2. /\ channels \subseteq Codes /\ nodes \subseteq Links
      /\ \A t \in Threads : pc[t] = "deleting" => session[t] \notin channels
  BY ONLY <1>1 DEF TypeOK, NewsInv
<1>3. LinkInv'
  BY ONLY <1>1, \A n \in Nodes : client'[n] = "dial" => client[n] = "dial",
          \A l \in Links : pc[l] = "off" => toMaster'[l] = toMaster[l] /\ toNode'[l] = toNode[l]
  DEF LinkInv
<1>4. ClosedInv'
  BY ONLY <1>1 DEF ClosedInv
<1>5. machine' = machine => InvitedInv'
  BY ONLY <1>1 DEF InvitedInv, Adding
<1> QED BY ONLY <1>1, <1>2, <1>3, <1>4, <1>5

\* A link that is up is the one over which its node is in touch.
LEMMA InTouch ==
  ASSUME LinkInv, LocalInv
  PROVE  /\ \A l \in Links : up[l] => side[l] \in Nodes /\ master[side[l]] = l /\ pc[l] # "off"
         /\ \A n \in Nodes : master[n] # None => side[master[n]] = n
         /\ \A n \in Nodes : client[n] # "dial" => master[n] \in Links /\ pc[master[n]] # "off"
         /\ \A n \in Nodes : \A l \in Links : master[n] = l => pc[l] # "off"
  BY DEF LinkInv, LocalInv

\* Auth and its answer concern no session.
LEMMA SendAuthStep ==
  ASSUME SharedInv, IInv', NEW n \in Nodes, SendAuth(n)
  PROVE  SharedInv'
<1>1. /\ UNCHANGED <<masters, threads, side, up, toNode, missedByMaster, missedByNode, master, copy, owed, machine>>
      /\ SendToMaster(n, Msg("auth", None)) /\ client' = [client EXCEPT ![n] = "hello"]
      /\ TypeOK /\ LocalInv /\ LinkInv
  BY DEF SharedInv, IInv, SendAuth, SendToMaster, orders
<1>2. Msg("auth", None) \in Message /\ Msg("auth", None).code = None
  BY ONLY Kinds
<1>3. /\ \A k \in Links : k # master[n] \/ ~up[k] => toMaster'[k] = toMaster[k]
      /\ \A k \in Links, b \in Codes, kind \in {"new", "del"} :
           UnderWay(toMaster'[k], Msg(kind, b)) <=> UnderWay(toMaster[k], Msg(kind, b))
      /\ \A k \in Links, b \in Codes : Mentions(toMaster'[k], b) => Mentions(toMaster[k], b)
  <2> DEFINE m == Msg("auth", None)
  <2>1. \A b \in Codes, kind \in {"new", "del"} : Msg(kind, b) # m /\ m.code # b
    BY Kinds DEF Message
  <2> HIDE DEF m
  <2>2. /\ \A k \in Links : k # master[n] \/ ~up[k] => toMaster'[k] = toMaster[k]
        /\ \A k \in Links : \A x :
             UnderWay(toMaster'[k], x) => UnderWay(toMaster[k], x) \/ (k = master[n] /\ up[k] /\ x = m)
        /\ \A k \in Links : \A x : UnderWay(toMaster[k], x) => UnderWay(toMaster'[k], x)
        /\ \A k \in Links : \A c :
             Mentions(toMaster'[k], c) => Mentions(toMaster[k], c) \/ (k = master[n] /\ up[k] /\ m.code = c)
    BY ONLY <1>1, <1>2, n \in Nodes, SentToMaster DEF m
  <2> QED BY ONLY <2>1, <2>2
<1>4. /\ \A k \in Links : pc[k] = "off" => toMaster'[k] = toMaster[k] /\ toNode'[k] = toNode[k]
      /\ \A m \in Nodes : client'[m] = "dial" => client[m] = "dial"
  BY ONLY <1>1, <1>3, InTouch DEF TypeOK
<1>5. /\ UNCHANGED <<channels, closed, node, nodes, pc, session, todo, visit, side, up, master>>
      /\ TypeOK /\ LocalInv /\ CodeInv /\ LinkInv /\ NewsInv /\ InvitedInv /\ ClosedInv
      /\ AddInv /\ ServeInv /\ ReachInv /\ UserInv
      /\ channels \subseteq Codes /\ nodes \subseteq Links
      /\ \A t \in Threads : pc[t] = "deleting" => session[t] \notin channels
      /\ LinkInv' /\ ClosedInv' /\ InvitedInv'
      /\ UNCHANGED <<toNode, missedByMaster, missedByNode, copy, owed, machine>>
  BY ONLY SharedInv, <1>1, <1>4, NodeSide
<1>6. NewsInv'
  BY ONLY <1>3, <1>5, NewsKept
<1>7. \A k \in Links, b \in Codes : (Claims(k, b)' <=> Claims(k, b))
  BY ONLY <1>3, <1>5 DEF Claims, Msg
<1>8. AddInv'
  BY ONLY <1>5, <1>7, AddKept DEF Adding
<1>9. ServeInv'
  BY ONLY <1>3, <1>5, <1>7, ServeKept
<1>10. ReachInv'
  BY ONLY <1>5, ReachKept DEF WillTell
<1>11. UserInv'
  BY ONLY <1>3, <1>5, UserKept DEF Uses, Msg
<1> QED BY ONLY <1>5, <1>6, <1>8, <1>9, <1>10, <1>11, IInv' DEF SharedInv

LEMMA AuthorizedStep ==
  ASSUME SharedInv, IInv', NEW n \in Nodes, Authorized(n)
  PROVE  SharedInv'
<1>0. PICK l \in Links : l = master[n] /\ pc[l] # "off"
  BY InTouch DEF SharedInv, IInv, Authorized
<1>1. /\ UNCHANGED <<masters, threads, side, up, toMaster, missedByMaster, missedByNode, master, copy, owed, machine>>
      /\ toNode' = [toNode EXCEPT ![l] = Tail(@)] /\ client' = [client EXCEPT ![n] = "read"]
      /\ toNode[l] # <<>> /\ Head(toNode[l]).kind = "auth"
      /\ TypeOK
  BY <1>0 DEF SharedInv, IInv, Authorized, Reads, reports
<1>2. /\ \A k \in Links \ {l} : toNode'[k] = toNode[k]
      /\ \A k \in Links, b \in Codes, kind \in {"add", "del"} :
           UnderWay(toNode'[k], Msg(kind, b)) <=> UnderWay(toNode[k], Msg(kind, b))
      /\ \A k \in Links : \A x : Once(toNode[k], x) => Once(toNode'[k], x)
      /\ \A k \in Links : \A c : Mentions(toNode'[k], c) => Mentions(toNode[k], c)
  <2>1. \A b \in Codes, kind \in {"add", "del"} : Msg(kind, b) # Head(toNode[l])
    BY ONLY <1>1, Kinds
  <2>2. /\ \A k \in Links \ {l} : toNode'[k] = toNode[k]
        /\ \A k \in Links : \A x : UnderWay(toNode'[k], x) => UnderWay(toNode[k], x)
        /\ \A k \in Links : \A x :
             UnderWay(toNode[k], x) => UnderWay(toNode'[k], x) \/ (k = l /\ x = Head(toNode[l]))
        /\ \A k \in Links : \A x : Once(toNode[k], x) => Once(toNode'[k], x)
        /\ \A k \in Links : \A c : Mentions(toNode'[k], c) => Mentions(toNode[k], c)
    BY ONLY <1>1, l \in Links, TakenByNode
  <2> QED BY ONLY <2>1, <2>2
<1>3. /\ \A k \in Links : pc[k] = "off" => toMaster'[k] = toMaster[k] /\ toNode'[k] = toNode[k]
      /\ \A m \in Nodes : client'[m] = "dial" => client[m] = "dial"
  BY ONLY <1>0, <1>1, <1>2 DEF TypeOK
<1>4. /\ UNCHANGED <<channels, closed, node, nodes, pc, session, todo, visit, side, up, master>>
      /\ TypeOK /\ LocalInv /\ CodeInv /\ LinkInv /\ NewsInv /\ InvitedInv /\ ClosedInv
      /\ AddInv /\ ServeInv /\ ReachInv /\ UserInv
      /\ channels \subseteq Codes /\ nodes \subseteq Links
      /\ \A t \in Threads : pc[t] = "deleting" => session[t] \notin channels
      /\ LinkInv' /\ ClosedInv' /\ InvitedInv'
      /\ UNCHANGED <<toMaster, missedByMaster, missedByNode, copy, owed, machine>>
  BY ONLY SharedInv, <1>1, <1>3, NodeSide
<1>5. NewsInv'
  BY ONLY <1>2, <1>4, NewsKept
<1>6. \A k \in Links, b \in Codes : (Claims(k, b)' <=> Claims(k, b))
  BY ONLY <1>4 DEF Claims, Msg
<1>7. AddInv'
  BY ONLY <1>2, <1>4, <1>6, AddKept DEF Adding
<1>8. ServeInv'
  BY ONLY <1>4, <1>6, ServeKept
<1>9. ReachInv'
  BY ONLY <1>2, <1>4, ReachKept DEF WillTell
<1>10. UserInv'
  BY ONLY <1>4, UserKept DEF Uses, Msg
<1> QED BY ONLY <1>4, <1>5, <1>7, <1>8, <1>9, <1>10, IInv' DEF SharedInv

\* AddCode: the one time that the node makes a copy, of a session it has not spoken of.
LEMMA AddCodeStep ==
  ASSUME SharedInv, IInv', NEW n \in Nodes, AgentAddCode(n)
  PROVE  SharedInv'
<1>0. PICK l \in Links : l = master[n] /\ pc[l] # "off" /\ side[l] = n
  BY InTouch DEF SharedInv, IInv, AgentAddCode
<1>1. PICK c : c = Head(toNode[l]).code
  OBVIOUS
<1>2. /\ UNCHANGED <<masters, threads, side, up, toMaster, missedByMaster, missedByNode, master, client, owed, machine>>
      /\ toNode' = [toNode EXCEPT ![l] = Tail(@)]
      /\ IF copy[n][c] = "none" THEN Turn(n, c, "unused") ELSE UNCHANGED copy
      /\ Reads(toNode[l], "add")
      /\ TypeOK
  BY <1>0, <1>1 DEF SharedInv, IInv, AgentAddCode, reports
<1>3. toNode[l] # <<>> /\ Head(toNode[l]) = Msg("add", c)
  BY ONLY <1>1, <1>2, l \in Links, ReadMessage DEF TypeOK
<1>4. /\ \A k \in Links \ {l} : toNode'[k] = toNode[k]
      /\ UnderWay(toNode[l], Msg("add", c)) /\ Mentions(toNode[l], c)
      /\ \A k \in Links : \A x : UnderWay(toNode'[k], x) => UnderWay(toNode[k], x)
      /\ \A k \in Links : \A b :
           UnderWay(toNode[k], Msg("del", b)) => UnderWay(toNode'[k], Msg("del", b))
      /\ \A k \in Links : \A x : Once(toNode[k], x) => Once(toNode'[k], x)
      /\ \A k \in Links : \A b : Mentions(toNode'[k], b) => Mentions(toNode[k], b)
      /\ Once(toNode[l], Msg("add", c)) => ~UnderWay(toNode'[l], Msg("add", c))
  <2>1. \A b : Msg("del", b) # Head(toNode[l])
    BY ONLY <1>3, Kinds
  <2>2. /\ \A k \in Links \ {l} : toNode'[k] = toNode[k]
        /\ UnderWay(toNode[l], Head(toNode[l])) /\ Mentions(toNode[l], Head(toNode[l]).code)
        /\ \A k \in Links : \A x : UnderWay(toNode'[k], x) => UnderWay(toNode[k], x)
        /\ \A k \in Links : \A x :
             UnderWay(toNode[k], x) => UnderWay(toNode'[k], x) \/ (k = l /\ x = Head(toNode[l]))
        /\ \A k \in Links : \A x : Once(toNode[k], x) => Once(toNode'[k], x)
        /\ \A k \in Links : \A b : Mentions(toNode'[k], b) => Mentions(toNode[k], b)
        /\ \A x : Once(toNode[l], x) /\ x = Head(toNode[l]) => ~UnderWay(toNode'[l], x)
    <3>1. toNode[l] # <<>> /\ toNode' = [toNode EXCEPT ![l] = Tail(@)] /\ TypeOK
      BY <1>2, <1>3
    <3> QED BY ONLY <3>1, l \in Links, TakenByNode
  <2> QED BY ONLY <1>1, <1>3, <2>1, <2>2
<1>5. /\ \A k \in Links : pc[k] = "off" => toMaster'[k] = toMaster[k] /\ toNode'[k] = toNode[k]
      /\ \A m \in Nodes : client'[m] = "dial" => client[m] = "dial"
  BY ONLY <1>0, <1>2, <1>4
<1>6. /\ UNCHANGED <<channels, closed, node, nodes, pc, session, todo, visit, side, up, master>>
      /\ TypeOK /\ LocalInv /\ CodeInv /\ LinkInv /\ NewsInv /\ InvitedInv /\ ClosedInv
      /\ AddInv /\ ServeInv /\ ReachInv /\ UserInv
      /\ channels \subseteq Codes /\ nodes \subseteq Links
      /\ \A t \in Threads : pc[t] = "deleting" => session[t] \notin channels
      /\ LinkInv' /\ ClosedInv' /\ InvitedInv'
      /\ UNCHANGED <<toMaster, missedByMaster, missedByNode, owed, machine>>
  BY ONLY SharedInv, <1>2, <1>5, NodeSide
<1>7. /\ \A m \in Nodes, b \in Codes : copy'[m][b] =
           IF m = n /\ b = c /\ copy[n][c] = "none" THEN "unused" ELSE copy[m][b]
      /\ c \in Codes => pc[c] # "off"
  <2>1. \A m \in Nodes, b \in Codes : copy'[m][b] =
           IF m = n /\ b = c /\ copy[n][c] = "none" THEN "unused" ELSE copy[m][b]
    BY ONLY <1>2, n \in Nodes DEF Turn, TypeOK
  <2>2. c \in Codes => pc[c] # "off"
    BY ONLY <1>4, <1>6, l \in Links DEF NewsInv
  <2> QED BY ONLY <2>1, <2>2
<1>8. \A k \in Links, b \in Codes : (Claims(k, b)' <=> Claims(k, b))
  BY ONLY <1>6 DEF Claims, Msg
\* The only link over which n is in touch is l, and what came over it was to come.
<1>9. /\ \A k \in Links : up[k] => side[k] \in Nodes /\ (side[k] = n => k = l)
      /\ up[l] /\ c \in Codes => ~Claims(l, c) /\ ~ToCome(l, c)'
  <2>1. \A k \in Links : up[k] => side[k] \in Nodes /\ (side[k] = n => k = l)
    BY ONLY <1>0, <1>6, InTouch
  <2>2. ASSUME up[l], c \in Codes PROVE ~Claims(l, c) /\ ~ToCome(l, c)'
    <3>1. ToCome(l, c)
      BY ONLY <1>4 DEF ToCome
    <3>2. /\ ~Claims(l, c) /\ Once(toNode[l], Msg("add", c))
          /\ \A h \in Handlers : Adding(h, c) => l \notin todo[h]
      BY ONLY <1>4, <1>6, <2>2, <3>1, l \in Links DEF AddInv
    <3> QED BY ONLY <1>4, <1>6, <3>2 DEF ToCome, Adding, Msg
  <2> QED BY ONLY <2>1, <2>2
<1>10. NewsInv'
  BY ONLY <1>4, <1>6, <1>7, NewsKept
<1>11. AddInv'
  <2>1. \A k \in Links, b \in Codes : up[k] /\ ToCome(k, b)' => copy'[side[k]][b] = copy[side[k]][b]
    BY ONLY <1>7, <1>9
  <2> QED BY ONLY <1>4, <1>6, <1>8, <2>1, AddKept DEF Adding
<1>12. ServeInv'
  <2>1. \A k \in Links, b \in Codes : up[k] /\ copy[side[k]][b] \in {"waiting", "relaying"} =>
          copy'[side[k]][b] = copy[side[k]][b]
    BY ONLY <1>7, <1>9
  <2> QED BY ONLY <1>6, <1>8, <2>1, ServeKept
<1>13. ReachInv'
  <2>1. \A k \in Links, b \in Codes : up[k] /\ node[b] = k /\ copy'[side[k]][b] # "none" =>
          copy[side[k]][b] # "none"
    BY ONLY <1>7, <1>9 DEF Claims
  <2> QED BY ONLY <1>4, <1>6, <2>1, ReachKept DEF WillTell
<1>14. UserInv'
  <2>1. \A b \in Codes, m \in Nodes : copy'[m][b] \in {"waiting", "relaying"} => copy[m][b] = copy'[m][b]
    BY ONLY <1>7
  <2> QED BY ONLY <1>6, <2>1, UserKept DEF Uses, Msg
<1> QED BY ONLY <1>6, <1>10, <1>11, <1>12, <1>13, <1>14, IInv' DEF SharedInv

\* DelCode: the copy goes, of a session that is not in the master's map any more.
LEMMA NodeDelCodeStep ==
  ASSUME SharedInv, IInv', NEW n \in Nodes, NodeDelCode(n)
  PROVE  SharedInv'
<1>0. PICK l \in Links : l = master[n] /\ pc[l] # "off" /\ side[l] = n
  BY InTouch DEF SharedInv, IInv, NodeDelCode
<1>1. PICK c : c = Head(toNode[l]).code
  OBVIOUS
<1>2. /\ UNCHANGED <<masters, threads, side, up, toMaster, missedByMaster, missedByNode, master, client, machine>>
      /\ toNode' = [toNode EXCEPT ![l] = Tail(@)]
      /\ IF copy[n][c] # "none" THEN End(n, c) ELSE UNCHANGED <<copy, owed>>
      /\ Reads(toNode[l], "del")
      /\ TypeOK
  BY <1>0, <1>1 DEF SharedInv, IInv, NodeDelCode, reports
<1>3. toNode[l] # <<>> /\ Head(toNode[l]) = Msg("del", c)
  BY ONLY <1>1, <1>2, l \in Links, ReadMessage DEF TypeOK
<1>4. /\ \A k \in Links \ {l} : toNode'[k] = toNode[k]
      /\ UnderWay(toNode[l], Msg("del", c)) /\ Mentions(toNode[l], c)
      /\ \A k \in Links : \A x : UnderWay(toNode'[k], x) => UnderWay(toNode[k], x)
      /\ \A k \in Links : \A b : UnderWay(toNode[k], Msg("del", b)) =>
           UnderWay(toNode'[k], Msg("del", b)) \/ (k = l /\ b = c)
      /\ \A k \in Links : \A x : Once(toNode[k], x) => Once(toNode'[k], x)
      /\ \A k \in Links : \A b : Mentions(toNode'[k], b) => Mentions(toNode[k], b)
  <2>1. \A b : Msg("del", b) = Head(toNode[l]) => b = c
    BY ONLY <1>3, Kinds
  <2>2. /\ \A k \in Links \ {l} : toNode'[k] = toNode[k]
        /\ UnderWay(toNode[l], Head(toNode[l])) /\ Mentions(toNode[l], Head(toNode[l]).code)
        /\ \A k \in Links : \A x : UnderWay(toNode'[k], x) => UnderWay(toNode[k], x)
        /\ \A k \in Links : \A x :
             UnderWay(toNode[k], x) => UnderWay(toNode'[k], x) \/ (k = l /\ x = Head(toNode[l]))
        /\ \A k \in Links : \A x : Once(toNode[k], x) => Once(toNode'[k], x)
        /\ \A k \in Links : \A b : Mentions(toNode'[k], b) => Mentions(toNode[k], b)
    BY ONLY <1>2, <1>3, l \in Links, TakenByNode
  <2> QED BY ONLY <1>1, <1>3, <2>1, <2>2
<1>5. /\ \A k \in Links : pc[k] = "off" => toMaster'[k] = toMaster[k] /\ toNode'[k] = toNode[k]
      /\ \A m \in Nodes : client'[m] = "dial" => client[m] = "dial"
  BY ONLY <1>0, <1>2, <1>4
<1>6. /\ UNCHANGED <<channels, closed, node, nodes, pc, session, todo, visit, side, up, master>>
      /\ TypeOK /\ LocalInv /\ CodeInv /\ LinkInv /\ NewsInv /\ InvitedInv /\ ClosedInv
      /\ AddInv /\ ServeInv /\ ReachInv /\ UserInv
      /\ channels \subseteq Codes /\ nodes \subseteq Links
      /\ \A t \in Threads : pc[t] = "deleting" => session[t] \notin channels
      /\ LinkInv' /\ ClosedInv' /\ InvitedInv'
      /\ UNCHANGED <<toMaster, missedByMaster, missedByNode, machine>>
  BY ONLY SharedInv, <1>2, <1>5, NodeSide
<1>7. /\ \A m \in Nodes, b \in Codes : copy'[m][b] = IF m = n /\ b = c THEN "none" ELSE copy[m][b]
      /\ \A m \in Nodes : owed[m] \subseteq owed'[m]
      /\ \A m \in Nodes : \A x : x \in owed'[m] => x \in owed[m] \/ (m = n /\ x = Msg("del", c))
      /\ copy[n][c] # "none" => Msg("del", c) \in owed'[n]
  <2>1. CASE copy[n][c] # "none"
    <3>1. copy' = [copy EXCEPT ![n][c] = "none"] /\ owed' = [owed EXCEPT ![n] = @ \cup {Msg("del", c)}]
      BY ONLY <1>2, <2>1 DEF End, Turn
    <3> QED BY ONLY <1>2, <2>1, <3>1, n \in Nodes DEF TypeOK
  <2>2. CASE copy[n][c] = "none"
    BY ONLY <1>2, <2>2
  <2> QED BY ONLY <2>1, <2>2
<1>8. /\ c \in Codes => pc[c] # "off"
      /\ c \notin channels
      /\ Msg("del", c).code = c
  BY ONLY <1>4, <1>6, l \in Links, Kinds DEF NewsInv
<1>9. \A k \in Links : up[k] => side[k] \in Nodes /\ (side[k] = n => k = l)
  BY ONLY <1>0, <1>6, InTouch
<1>10. \A m \in Nodes, b \in Codes : Msg("new", b) \in owed'[m] <=> Msg("new", b) \in owed[m]
  BY ONLY <1>7, Kinds
<1>11. \A k \in Links, b \in Codes : up[k] => (Claims(k, b)' <=> Claims(k, b))
  BY ONLY <1>6, <1>9, <1>10 DEF Claims, Msg
<1>12. NewsInv'
  BY ONLY <1>4, <1>6, <1>7, <1>8, NewsKept
<1>13. AddInv'
  <2>1. \A k \in Links, b \in Codes : up[k] /\ copy[side[k]][b] = "none" => copy'[side[k]][b] = "none"
    BY ONLY <1>7, <1>9
  <2> QED BY ONLY <1>4, <1>6, <1>11, <2>1, AddKept DEF Adding
<1>14. ServeInv'
  <2>1. \A k \in Links, b \in channels : up[k] =>
          /\ copy'[side[k]][b] = copy[side[k]][b]
          /\ Msg("del", b) \in owed[side[k]] => Msg("del", b) \in owed'[side[k]]
    BY ONLY <1>6, <1>7, <1>8, <1>9
  <2> QED BY ONLY <1>6, <1>11, <2>1, ServeKept
<1>15. ReachInv'
  <2>1. \A k \in Links, b \in Codes : up[k] /\ copy'[side[k]][b] # "none" =>
          copy[side[k]][b] # "none" /\ (UnderWay(toNode[k], Msg("del", b)) => UnderWay(toNode'[k], Msg("del", b)))
    BY ONLY <1>0, <1>4, <1>7, <1>9
  <2> QED BY ONLY <1>6, <2>1, ReachKept DEF WillTell
<1>16. UserInv'
  <2>1. \A b \in Codes, m \in Nodes :
          /\ copy'[m][b] # "none" => copy[m][b] = copy'[m][b]
          /\ b \in channels /\ Msg("del", b) \in owed'[m] => Msg("del", b) \in owed[m]
    BY ONLY <1>7, <1>8, Kinds
  <2> QED BY ONLY <1>6, <2>1, UserKept DEF Uses, Msg
<1> QED BY ONLY <1>6, <1>12, <1>13, <1>14, <1>15, <1>16, IInv' DEF SharedInv

\* A copy goes: the master will be told if a machine had come, and only then.
LEMMA EndStep ==
  ASSUME SharedInv, IInv', NEW n \in Nodes, NEW c \in Codes,
         WaitTimeout(n, c) \/ CopyEnds(n, c) \/ Reap(n, c)
  PROVE  SharedInv'
<1>1. /\ UNCHANGED <<masters, threads, side, up, toMaster, toNode, missedByMaster, missedByNode, master, client, machine>>
      /\ copy[n][c] # "none" /\ Turn(n, c, "none")
      /\ TypeOK
      /\ \/ copy[n][c] = "unused" /\ owed' = owed
         \/ /\ copy[n][c] \in {"waiting", "relaying"}
            /\ owed' = [owed EXCEPT ![n] = @ \cup {Msg("del", c)}]
  BY DEF SharedInv, IInv, WaitTimeout, CopyEnds, Reap, End, queues, reports, orders
<1>2. /\ \A k \in Links : pc[k] = "off" => toMaster'[k] = toMaster[k] /\ toNode'[k] = toNode[k]
      /\ \A m \in Nodes : client'[m] = "dial" => client[m] = "dial"
  BY ONLY <1>1
<1>3. /\ UNCHANGED <<channels, closed, node, nodes, pc, session, todo, visit, side, up, master>>
      /\ TypeOK /\ LocalInv /\ CodeInv /\ LinkInv /\ NewsInv /\ InvitedInv /\ ClosedInv
      /\ AddInv /\ ServeInv /\ ReachInv /\ UserInv
      /\ channels \subseteq Codes /\ nodes \subseteq Links
      /\ \A t \in Threads : pc[t] = "deleting" => session[t] \notin channels
      /\ LinkInv' /\ ClosedInv' /\ InvitedInv'
      /\ UNCHANGED <<toMaster, toNode, missedByMaster, missedByNode, machine>>
  BY ONLY SharedInv, <1>1, <1>2, NodeSide
<1>4. /\ \A m \in Nodes, b \in Codes : copy'[m][b] = IF m = n /\ b = c THEN "none" ELSE copy[m][b]
      /\ \A m \in Nodes : owed[m] \subseteq owed'[m]
      /\ \A m \in Nodes : \A x : x \in owed'[m] =>
           x \in owed[m] \/ (m = n /\ x = Msg("del", c) /\ copy[n][c] \in {"waiting", "relaying"})
      /\ copy[n][c] # "unused" => Msg("del", c) \in owed'[n]
  <2>1. \A m \in Nodes, b \in Codes : copy'[m][b] = IF m = n /\ b = c THEN "none" ELSE copy[m][b]
    BY ONLY <1>1, n \in Nodes DEF Turn, TypeOK
  <2>2. CASE owed' = owed /\ copy[n][c] = "unused"
    BY ONLY <2>1, <2>2
  <2>3. CASE /\ copy[n][c] \in {"waiting", "relaying"}
             /\ owed' = [owed EXCEPT ![n] = @ \cup {Msg("del", c)}]
    <3>1. \A m \in Nodes : owed'[m] = IF m = n THEN owed[m] \cup {Msg("del", c)} ELSE owed[m]
      BY ONLY <1>1, <2>3, n \in Nodes DEF TypeOK
    <3> QED BY ONLY <2>1, <2>3, <3>1, n \in Nodes
  <2> QED BY ONLY <1>1, <2>2, <2>3
<1>5. pc[c] # "off" /\ Msg("del", c).code = c
  BY ONLY <1>1, <1>3, n \in Nodes, c \in Codes, Kinds DEF NewsInv
<1>6. \A k \in Links : up[k] => side[k] \in Nodes
  BY ONLY <1>3, InTouch
<1>7. \A m \in Nodes, b \in Codes : Msg("new", b) \in owed'[m] <=> Msg("new", b) \in owed[m]
  BY ONLY <1>4, Kinds
<1>8. \A k \in Links, b \in Codes : up[k] => (Claims(k, b)' <=> Claims(k, b))
  BY ONLY <1>3, <1>6, <1>7 DEF Claims, Msg
<1>9. NewsInv'
  BY ONLY <1>3, <1>4, <1>5, NewsKept
<1>10. AddInv'
  <2>1. \A k \in Links, b \in Codes : up[k] /\ copy[side[k]][b] = "none" => copy'[side[k]][b] = "none"
    BY ONLY <1>4, <1>6
  <2> QED BY ONLY <1>3, <1>8, <2>1, AddKept DEF Adding
<1>11. ServeInv'
  <2>1. \A k \in Links, b \in Codes : up[k] =>
          /\ copy[side[k]][b] \in {"waiting", "relaying"} =>
               copy'[side[k]][b] = copy[side[k]][b] \/ Msg("del", b) \in owed'[side[k]]
          /\ Msg("del", b) \in owed[side[k]] => Msg("del", b) \in owed'[side[k]]
    BY ONLY <1>4, <1>6
  <2> QED BY ONLY <1>3, <1>8, <2>1, ServeKept
<1>12. ReachInv'
  <2>1. \A k \in Links, b \in Codes : up[k] /\ copy'[side[k]][b] # "none" => copy[side[k]][b] # "none"
    BY ONLY <1>4, <1>6
  <2> QED BY ONLY <1>3, <2>1, ReachKept DEF WillTell
<1>13. UserInv'
  <2>1. \A b \in Codes, m \in Nodes : copy'[m][b] # "none" => copy[m][b] = copy'[m][b]
    BY ONLY <1>4
  <2>2. \A b \in Codes, m \in Nodes : Msg("del", b) \in owed'[m] =>
          Msg("del", b) \in owed[m] \/ copy[m][b] \in {"waiting", "relaying"}
    BY ONLY <1>4, Kinds
  <2>3. \A b \in Codes, m \in Nodes : Uses(m, b)' => Uses(m, b)
    BY ONLY <1>3, <2>1, <2>2 DEF Uses, Msg
  <2> QED BY ONLY <1>3, <2>3, UserKept
<1> QED BY ONLY <1>3, <1>9, <1>10, <1>11, <1>12, <1>13, IInv' DEF SharedInv

\* What a node owes gets under way, if its link holds.
LEMMA SendStep ==
  ASSUME SharedInv, IInv', NEW n \in Nodes, NEW m \in owed[n], Send(n, m)
  PROVE  SharedInv'
<1>1. /\ UNCHANGED <<masters, threads, side, up, toNode, missedByNode, master, client, copy, machine>>
      /\ SendToMaster(n, m) /\ owed' = [owed EXCEPT ![n] = @ \ {m}]
      /\ TypeOK
  BY DEF SharedInv, IInv, Send, orders
<1>2. m \in Message
  BY ONLY <1>1, m \in owed[n], n \in Nodes DEF TypeOK
<1>3. /\ \A k \in Links : k # master[n] \/ ~up[k] => toMaster'[k] = toMaster[k]
      /\ \A k \in Links : \A x :
           UnderWay(toMaster'[k], x) => UnderWay(toMaster[k], x) \/ (k = master[n] /\ up[k] /\ x = m)
      /\ \A k \in Links : \A x : UnderWay(toMaster[k], x) => UnderWay(toMaster'[k], x)
      /\ \A k \in Links : missedByMaster[k] \subseteq missedByMaster'[k]
      /\ \A k \in Links : k = master[n] /\ up[k] /\ m.kind = "del" =>
           UnderWay(toMaster'[k], m) \/ m.code \in missedByMaster'[k]
      /\ \A k \in Links : \A c :
           Mentions(toMaster'[k], c) => Mentions(toMaster[k], c) \/ (k = master[n] /\ up[k] /\ m.code = c)
      /\ \A j \in Nodes : owed'[j] = IF j = n THEN owed[j] \ {m} ELSE owed[j]
  <2>1. \A j \in Nodes : owed'[j] = IF j = n THEN owed[j] \ {m} ELSE owed[j]
    BY ONLY <1>1, n \in Nodes DEF TypeOK
  <2> QED BY ONLY <1>1, <1>2, <2>1, n \in Nodes, SentToMaster
<1>4. /\ \A k \in Links : up[k] => side[k] \in Nodes /\ (side[k] = n <=> k = master[n])
      /\ \A k \in Links : pc[k] = "off" => ~up[k]
      /\ master[n] # None => side[master[n]] = n
  <2>1. LinkInv /\ LocalInv
    BY DEF SharedInv, IInv
  <2> QED BY ONLY <2>1, InTouch, ClusterAssumption DEF Threads
<1>5. /\ \A k \in Links : pc[k] = "off" => toMaster'[k] = toMaster[k] /\ toNode'[k] = toNode[k]
      /\ \A j \in Nodes : client'[j] = "dial" => client[j] = "dial"
  BY ONLY <1>1, <1>3, <1>4
<1>6. /\ UNCHANGED <<channels, closed, node, nodes, pc, session, todo, visit, side, up, master>>
      /\ TypeOK /\ LocalInv /\ CodeInv /\ LinkInv /\ NewsInv /\ InvitedInv /\ ClosedInv
      /\ AddInv /\ ServeInv /\ ReachInv /\ UserInv
      /\ channels \subseteq Codes /\ nodes \subseteq Links
      /\ \A t \in Threads : pc[t] = "deleting" => session[t] \notin channels
      /\ LinkInv' /\ ClosedInv' /\ InvitedInv'
      /\ UNCHANGED <<toNode, missedByNode, copy, machine>>
  BY ONLY SharedInv, <1>1, <1>5, NodeSide
\* Over a link that holds, what is not owed any more is under way; or it was lost, and
\* then the end of a session was recorded as missed.
<1>7. \A k \in Links : \A x : up[k] =>
         /\ UnderWay(toMaster[k], x) => UnderWay(toMaster'[k], x)
         /\ UnderWay(toMaster'[k], x) => UnderWay(toMaster[k], x) \/ x \in owed[side[k]]
         /\ x \in owed'[side[k]] => x \in owed[side[k]]
         /\ x \in owed[side[k]] /\ x.kind = "del" =>
              x \in owed'[side[k]] \/ UnderWay(toMaster'[k], x) \/ x.code \in missedByMaster'[k]
  <2>1. ASSUME NEW k \in Links, up[k], side[k] = n, k = master[n]
        PROVE  /\ \A x : UnderWay(toMaster[k], x) => UnderWay(toMaster'[k], x)
               /\ \A x : UnderWay(toMaster'[k], x) => UnderWay(toMaster[k], x) \/ x = m
               /\ \A x : x \in owed'[side[k]] <=> x \in owed[side[k]] /\ x # m
               /\ m \in owed[side[k]]
               /\ m.kind = "del" => UnderWay(toMaster'[k], m) \/ m.code \in missedByMaster'[k]
    <3>1. /\ \A x : UnderWay(toMaster[k], x) => UnderWay(toMaster'[k], x)
          /\ \A x : UnderWay(toMaster'[k], x) => UnderWay(toMaster[k], x) \/ x = m
          /\ m.kind = "del" => UnderWay(toMaster'[k], m) \/ m.code \in missedByMaster'[k]
      BY ONLY <1>3, <2>1
    <3>2. owed'[n] = owed[n] \ {m}
      BY ONLY <1>3, n \in Nodes
    <3> QED BY ONLY <2>1, <3>1, <3>2, m \in owed[n]
  <2>2. ASSUME NEW k \in Links, up[k], side[k] # n, k # master[n]
        PROVE  toMaster'[k] = toMaster[k] /\ owed'[side[k]] = owed[side[k]]
    BY ONLY <1>3, <1>4, <2>2
  <2> QED BY ONLY <1>4, <2>1, <2>2
<1>8. \A k \in Links, b \in Codes : up[k] => (Claims(k, b)' => Claims(k, b))
  <2>1. \A k \in Links, b \in Codes : up[k] =>
          (Msg("new", b) \in owed'[side[k]] \/ UnderWay(toMaster'[k], Msg("new", b)) =>
           Msg("new", b) \in owed[side[k]] \/ UnderWay(toMaster[k], Msg("new", b)))
    BY ONLY <1>7
  <2> QED BY ONLY <1>6, <2>1 DEF Claims, Msg
<1>9. NewsInv'
  <2>1. \A c \in Codes : pc[c] = "off" => m.code # c
    BY ONLY <1>6, n \in Nodes, m \in owed[n] DEF NewsInv
  <2>2. \A j \in Nodes : owed'[j] \subseteq owed[j]
    BY ONLY <1>3
  <2>3. \A c \in Codes, k \in Links : pc[c] = "off" => (Mentions(toMaster'[k], c) => Mentions(toMaster[k], c))
    BY ONLY <1>3, <2>1
  <2> QED BY ONLY <1>6, <2>2, <2>3, NewsKept
<1>10. AddInv'
  BY ONLY <1>6, <1>8, AddKept DEF Adding
<1>11. ServeInv'
  <2>1. \A k \in Links, b \in Codes : up[k] =>
          /\ Msg("del", b) \in owed[side[k]] =>
               \/ Msg("del", b) \in owed'[side[k]] \/ UnderWay(toMaster'[k], Msg("del", b))
               \/ b \in missedByMaster'[k]
          /\ UnderWay(toMaster[k], Msg("del", b)) => UnderWay(toMaster'[k], Msg("del", b))
          /\ b \in missedByMaster[k] => b \in missedByMaster'[k]
    BY ONLY <1>3, <1>7, Kinds
  <2> QED BY ONLY <1>6, <1>8, <2>1, ServeKept
<1>12. ReachInv'
  BY ONLY <1>6, ReachKept DEF WillTell
<1>13. UserInv'
  <2>1. \A b \in Codes, j \in Nodes : Uses(j, b)' => Uses(j, b)
    <3>1. \A j \in Nodes : \A b : Msg("del", b) \in owed'[j] => Msg("del", b) \in owed[j]
      BY ONLY <1>3
    <3>2. \A k \in Links : \A b : UnderWay(toMaster'[k], Msg("del", b)) =>
            UnderWay(toMaster[k], Msg("del", b)) \/ (side[k] = n /\ Msg("del", b) \in owed[n])
      BY ONLY <1>3, <1>4, m \in owed[n]
    <3> QED BY ONLY <1>6, <3>1, <3>2 DEF Uses, Msg
  <2> QED BY ONLY <1>6, <2>1, UserKept
<1> QED BY ONLY <1>6, <1>9, <1>10, <1>11, <1>12, <1>13, IInv' DEF SharedInv

\* A machine that was invited comes to a node that has a copy.
LEMMA ArriveStep ==
  ASSUME SharedInv, IInv', NEW n \in Nodes, NEW c \in Codes, NEW r \in Roles, Arrive(n, c, r)
  PROVE  SharedInv'
<1>1. /\ UNCHANGED <<masters, threads, side, up, toMaster, toNode, missedByMaster, missedByNode, master, client>>
      /\ machine[c][r] = "invited" /\ machine' = [machine EXCEPT ![c][r] = n]
      /\ \/ /\ copy[n][c] = "unused" /\ Turn(n, c, "waiting")
            /\ owed' = [owed EXCEPT ![n] = @ \cup {Msg("new", c)}]
         \/ copy[n][c] = "waiting" /\ Turn(n, c, "relaying") /\ owed' = owed
      /\ TypeOK
  BY DEF SharedInv, IInv, Arrive, queues, reports, orders
<1>2. /\ \A k \in Links : pc[k] = "off" => toMaster'[k] = toMaster[k] /\ toNode'[k] = toNode[k]
      /\ \A m \in Nodes : client'[m] = "dial" => client[m] = "dial"
  BY ONLY <1>1
<1>3. /\ UNCHANGED <<channels, closed, node, nodes, pc, session, todo, visit, side, up, master>>
      /\ TypeOK /\ LocalInv /\ CodeInv /\ LinkInv /\ NewsInv /\ InvitedInv /\ ClosedInv
      /\ AddInv /\ ServeInv /\ ReachInv /\ UserInv
      /\ channels \subseteq Codes /\ nodes \subseteq Links
      /\ \A t \in Threads : pc[t] = "deleting" => session[t] \notin channels
      /\ LinkInv' /\ ClosedInv'
      /\ UNCHANGED <<toMaster, toNode, missedByMaster, missedByNode>>
  BY ONLY SharedInv, <1>1, <1>2, NodeSide
<1>4. \A b \in Codes, q \in Roles : machine'[b][q] = IF b = c /\ q = r THEN n ELSE machine[b][q]
  BY ONLY <1>1, c \in Codes, r \in Roles DEF TypeOK
<1>5. /\ copy[n][c] \in {"unused", "waiting"} /\ copy'[n][c] \in {"waiting", "relaying"}
      /\ \A m \in Nodes, b \in Codes : m # n \/ b # c => copy'[m][b] = copy[m][b]
      /\ \A m \in Nodes : owed[m] \subseteq owed'[m]
      /\ \A m \in Nodes : \A x : x \in owed'[m] => x \in owed[m] \/ (m = n /\ x = Msg("new", c))
  <2>1. /\ copy[n][c] \in {"unused", "waiting"} /\ copy'[n][c] \in {"waiting", "relaying"}
        /\ \A m \in Nodes, b \in Codes : m # n \/ b # c => copy'[m][b] = copy[m][b]
    BY ONLY <1>1, n \in Nodes, c \in Codes DEF Turn, TypeOK
  <2>2. CASE owed' = owed
    BY ONLY <2>1, <2>2
  <2>3. CASE owed' = [owed EXCEPT ![n] = @ \cup {Msg("new", c)}]
    <3>1. \A m \in Nodes : owed'[m] = IF m = n THEN owed[m] \cup {Msg("new", c)} ELSE owed[m]
      BY ONLY <1>1, <2>3, n \in Nodes DEF TypeOK
    <3> QED BY ONLY <2>1, <3>1
  <2> QED BY ONLY <1>1, <2>1, <2>2, <2>3
<1>6. pc[c] # "off" /\ Msg("new", c).code = c
  BY ONLY <1>3, <1>5, n \in Nodes, c \in Codes, Kinds DEF NewsInv
<1>7. \A k \in Links : up[k] => side[k] \in Nodes
  BY ONLY <1>3, InTouch
<1>8. \A k \in Links, b \in Codes : up[k] =>
        (Claims(k, b)' <=> Claims(k, b) \/ (side[k] = n /\ b = c /\ Claims(k, b)'))
  <2>1. \A m \in Nodes, b \in Codes : m # n \/ b # c =>
          (Msg("new", b) \in owed'[m] <=> Msg("new", b) \in owed[m])
    BY ONLY <1>5, Kinds
  <2>2. \A m \in Nodes, b \in Codes : Msg("new", b) \in owed[m] => Msg("new", b) \in owed'[m]
    BY ONLY <1>5
  <2> QED BY ONLY <1>3, <1>7, <2>1, <2>2 DEF Claims, Msg
<1>9. NewsInv'
  BY ONLY <1>3, <1>5, <1>6, NewsKept
<1>10. InvitedInv'
  <2>1. r = "server" => \A h \in Handlers : ~Adding(h, c)
    BY ONLY <1>1, <1>3, c \in Codes DEF InvitedInv
  <2>2. r = "viewer" => node[c] # None
    BY ONLY <1>1, <1>3, c \in Codes DEF InvitedInv
  <2> QED BY ONLY <1>3, <1>4, <1>6, <2>1, <2>2, r \in Roles DEF InvitedInv, Adding, Roles
<1>11. AddInv'
  <2>1. \A k \in Links, b \in Codes : up[k] /\ copy[side[k]][b] = "none" =>
          copy'[side[k]][b] = "none" /\ (~Claims(k, b) => ~Claims(k, b)')
    BY ONLY <1>5, <1>7, <1>8
  <2> QED BY ONLY <1>3, <2>1, AddKept DEF Adding
<1>12. ServeInv'
  <2>1. \A k \in Links, b \in Codes : up[k] =>
          /\ copy[side[k]][b] \in {"waiting", "relaying"} => copy'[side[k]][b] \in {"waiting", "relaying"}
          /\ Msg("del", b) \in owed[side[k]] => Msg("del", b) \in owed'[side[k]]
          /\ Claims(k, b)' => Claims(k, b) \/ copy'[side[k]][b] \in {"waiting", "relaying"}
    BY ONLY <1>5, <1>7, <1>8
  <2> QED BY ONLY <1>3, <2>1, ServeKept
<1>13. ReachInv'
  <2>1. \A k \in Links, b \in Codes : up[k] /\ copy'[side[k]][b] # "none" => copy[side[k]][b] # "none"
    BY ONLY <1>5, <1>7
  <2> QED BY ONLY <1>3, <2>1, ReachKept DEF WillTell
<1>14. UserInv'
  <2>1. \A b \in Codes, q \in Roles : machine[b][q] \in Nodes => machine'[b][q] = machine[b][q]
    BY ONLY <1>1, <1>4, ClusterAssumption
  <2>2. \A b \in Codes, m \in Nodes : Msg("del", b) \in owed'[m] => Msg("del", b) \in owed[m]
    BY ONLY <1>5, Kinds
  <2>3. \A b \in Codes, m \in Nodes : Uses(m, b)' => Uses(m, b) \/ (b = c /\ m = n)
    BY ONLY <1>3, <1>5, <2>2 DEF Uses, Msg
  <2>4. machine'[c][r] = n
    BY ONLY <1>4, c \in Codes, r \in Roles
  <2> QED BY ONLY <1>3, <2>1, <2>3, <2>4, r \in Roles, UserKept
<1> QED BY ONLY <1>3, <1>9, <1>10, <1>11, <1>12, <1>13, <1>14, IInv' DEF SharedInv

\* A link that is dialed is fresh: nothing is on its way over it, and nothing to come.
LEMMA DialStep ==
  ASSUME SharedInv, IInv', NEW n \in Nodes, Dial(n)
  PROVE  SharedInv'
<1>0. PICK l \in Links : /\ pc[l] = "off" /\ Goto(l, "new")
                         /\ side' = [side EXCEPT ![l] = n] /\ up' = [up EXCEPT ![l] = TRUE]
                         /\ master' = [master EXCEPT ![n] = l]
                         /\ client' = [client EXCEPT ![n] = "auth"]
  BY DEF Dial
<1>1. /\ UNCHANGED <<channels, closed, node, nodes, session, todo, visit,
                     toMaster, toNode, missedByMaster, missedByNode, copy, owed, machine>>
      /\ client[n] = "dial" /\ \A m \in owed[n] : m.kind # "new"
      /\ TypeOK /\ LocalInv /\ CodeInv /\ LinkInv /\ NewsInv /\ InvitedInv /\ ClosedInv
      /\ AddInv /\ ServeInv /\ ReachInv /\ UserInv
  BY DEF SharedInv, IInv, Dial, masters, queues, reports, orders
<1>2. /\ pc'[l] = "new" /\ side'[l] = n /\ up'[l] /\ l \in Threads
      /\ \A t \in Threads \ {l} : pc'[t] = pc[t]
      /\ \A k \in Links \ {l} : side'[k] = side[k] /\ up'[k] = up[k]
      /\ master'[n] = l /\ client'[n] = "auth"
      /\ \A m \in Nodes \ {n} : master'[m] = master[m] /\ client'[m] = client[m]
  BY ONLY <1>0, <1>1, l \in Links, n \in Nodes DEF Goto, TypeOK, Threads
<1>3. /\ toMaster[l] = <<>> /\ toNode[l] = <<>> /\ ~up[l] /\ master[n] = None /\ l \notin nodes
      /\ \A t \in Threads : l \notin todo[t]
      /\ \A m \in Nodes : master[m] # l
      /\ \A c \in Codes : node[c] # l
  <2>1. /\ toMaster[l] = <<>> /\ toNode[l] = <<>> /\ ~up[l] /\ master[n] = None
        /\ \A t \in Threads : l \notin todo[t]
        /\ \A m \in Nodes : master[m] # l
    BY ONLY <1>0, <1>1, l \in Links, n \in Nodes DEF LinkInv
  <2>2. l \notin nodes
    BY ONLY <1>0, <1>1, l \in Links DEF LocalInv
  <2>3. \A c \in Codes : node[c] # l
    BY ONLY <1>0, <1>1, l \in Links DEF InvitedInv
  <2> QED BY ONLY <2>1, <2>2, <2>3
<1>4. /\ \A c \in Codes : pc'[c] = pc[c]
      /\ \A t \in Threads : pc'[t] # "new" => pc[t] = pc'[t]
      /\ \A t \in Threads : pc[t] # "off" => pc'[t] = pc[t]
      /\ \A h \in Handlers, c \in Codes : Adding(h, c)' <=> Adding(h, c)
  <2>1. l \notin Codes /\ l \notin Handlers
    BY ONLY ClusterAssumption, l \in Links
  <2> QED BY ONLY <1>0, <1>1, <1>2, <2>1 DEF Adding, Threads
<1>5. \A k \in Links, c \in Codes : up'[k] /\ Claims(k, c)' => k # l /\ up[k] /\ Claims(k, c)
  BY ONLY <1>1, <1>2, <1>3, NothingUnderWay, Kinds DEF Claims
<1>6. LinkInv'
  <2>1. ASSUME NEW k \in Links, k # l
        PROVE  /\ up'[k] => master'[side'[k]] = k
               /\ pc'[k] = "off" =>
                    /\ ~up'[k] /\ toMaster'[k] = <<>> /\ toNode'[k] = <<>>
                    /\ \A t \in Threads : k \notin todo'[t]
                    /\ \A m \in Nodes : master'[m] # k
    <3>1. up[k] => side[k] \in Nodes /\ master[side[k]] = k
      BY ONLY <1>1, InTouch
    <3>2. up[k] => side[k] # n
      BY ONLY <1>3, <3>1, ClusterAssumption DEF Threads
    <3>3. pc'[k] = pc[k] /\ side'[k] = side[k] /\ up'[k] = up[k]
      BY ONLY <1>2, <2>1 DEF Threads
    <3> QED BY ONLY <1>1, <1>2, <2>1, <3>1, <3>2, <3>3 DEF LinkInv
  <2>2. \A m \in Nodes : /\ client'[m] = "dial" => master'[m] = None
                         /\ master'[m] # None => side'[master'[m]] = m
    <3>1. \A m \in Nodes \ {n} : master[m] # None => master[m] \in Links \ {l}
      BY ONLY <1>1, <1>3 DEF TypeOK
    <3> QED BY ONLY <1>1, <1>2, <3>1, ClusterAssumption DEF LinkInv
  <2> QED BY ONLY <1>2, <2>1, <2>2 DEF LinkInv
<1>7. NewsInv'
  <2>1. channels' \subseteq Codes /\ \A t \in Threads : pc'[t] = "deleting" => session'[t] \notin channels'
    BY ONLY <1>1, <1>4 DEF TypeOK, NewsInv
  <2> QED BY ONLY <1>1, <1>4, <2>1, NewsKept
<1>8. InvitedInv'
  BY ONLY <1>1, <1>2, <1>3, <1>4 DEF InvitedInv, Threads
<1>9. ClosedInv'
  BY ONLY <1>1, <1>4, ClosedKept
<1>10. AddInv'
  <2>1. \A c \in Codes : ~ToCome(l, c)'
    BY ONLY <1>1, <1>3, NothingUnderWay DEF ToCome, Threads
  <2>2. \A k \in Links, c \in Codes : ToCome(k, c)' => ToCome(k, c)
    BY ONLY <1>1, <1>4 DEF ToCome, Msg
  <2>3. ASSUME NEW k \in Links, NEW c \in Codes, up'[k]
        PROVE  /\ ToCome(k, c)' => copy[side'[k]][c] = "none" /\ ~Claims(k, c)'
               /\ Once(toNode[k], Msg("add", c))
               /\ UnderWay(toNode[k], Msg("add", c)) => \A h \in Handlers : Adding(h, c) => k \notin todo[h]
    <3>1. CASE k = l
      BY ONLY <1>3, <2>1, <3>1, c \in Codes, NothingUnderWay
    <3>2. CASE k # l
      <4>1. up[k] /\ side'[k] = side[k]
        BY ONLY <1>2, <2>3, <3>2
      <4> QED BY ONLY <1>1, <1>5, <2>2, <2>3, <4>1 DEF AddInv
    <3> QED BY ONLY <3>1, <3>2
  <2> QED BY ONLY <1>1, <1>4, <2>3 DEF AddInv, Msg
<1>11. ServeInv'
  <2>1. ASSUME NEW k \in Links, NEW c \in channels, up'[k], Claims(k, c)'
        PROVE  \/ copy[side'[k]][c] \in {"waiting", "relaying"}
               \/ Msg("del", c) \in owed[side'[k]] \/ UnderWay(toMaster[k], Msg("del", c))
               \/ pc'[k] = "cad" /\ session[k] = c
               \/ c \in missedByMaster[k]
    <3>1. c \in Codes /\ k \in Threads
      BY ONLY <1>1 DEF TypeOK, Threads
    <3>2. k # l /\ up[k] /\ Claims(k, c)
      BY ONLY <1>5, <2>1, <3>1
    <3>3. side'[k] = side[k] /\ pc'[k] = pc[k]
      BY ONLY <1>2, <3>1, <3>2
    <3> QED BY ONLY <1>1, <3>2, <3>3, c \in channels, k \in Links DEF ServeInv
  <2> QED BY ONLY <1>1, <2>1 DEF ServeInv, Msg
<1>12. ReachInv'
  <2>1. \A k \in nodes, c \in Codes, t \in Threads : WillTell(t, c, k) => WillTell(t, c, k)'
    BY ONLY <1>1, <1>4 DEF WillTell
  <2>2. \A k \in nodes : k # l /\ k \in Links /\ side'[k] = side[k] /\ (up'[k] <=> up[k])
    BY ONLY <1>1, <1>2, <1>3 DEF TypeOK
  <2> QED BY ONLY <1>1, <2>1, <2>2 DEF ReachInv, Msg
<1>13. UserInv'
  <2>1. \A c \in Codes, m \in Nodes : Uses(m, c)' => Uses(m, c)
    <3>1. \A k \in Links, c \in Codes : UnderWay(toMaster[k], Msg("del", c)) => side'[k] = side[k]
      BY ONLY <1>2, <1>3, NothingUnderWay
    <3> QED BY ONLY <1>1, <3>1 DEF Uses, Msg
  <2> QED BY ONLY <1>1, <2>1, UserKept
<1> QED BY ONLY <1>6, <1>7, <1>8, <1>9, <1>10, <1>11, <1>12, <1>13, IInv' DEF SharedInv

(***************************************************************************)
(* The messages of nodes, at the master.                                   *)
(***************************************************************************)

\* A node that authorizes has no session yet.
LEMMA AuthStep ==
  ASSUME SharedInv, IInv', NEW l \in Links, AgentAuth(l)
  PROVE  SharedInv'
<1>1. /\ UNCHANGED <<channels, closed, node, session, todo, visit, side, up, missedByMaster, missedByNode,
                     master, client, copy, owed, machine>>
      /\ pc[l] = "new" /\ Goto(l, "read") /\ nodes' = nodes \cup {l}
      /\ toMaster' = [toMaster EXCEPT ![l] = Tail(@)] /\ SendToNode(l, Msg("auth", None))
      /\ toMaster[l] # <<>> /\ Head(toMaster[l]).kind = "auth"
      /\ TypeOK /\ LocalInv /\ CodeInv /\ LinkInv /\ NewsInv /\ InvitedInv /\ ClosedInv
      /\ AddInv /\ ServeInv /\ ReachInv /\ UserInv
  BY DEF SharedInv, IInv, AgentAuth, Reads, SendToNode, locals
<1>2. /\ pc'[l] = "read" /\ l \in Threads
      /\ \A t \in Threads \ {l} : pc'[t] = pc[t]
  BY ONLY <1>1, l \in Links DEF Goto, TypeOK, Threads
<1>3. /\ \A k \in Links \ {l} : toMaster'[k] = toMaster[k]
      /\ \A k \in Links, b \in Codes, kind \in {"new", "del"} :
           UnderWay(toMaster'[k], Msg(kind, b)) <=> UnderWay(toMaster[k], Msg(kind, b))
      /\ \A k \in Links : \A c : Mentions(toMaster'[k], c) => Mentions(toMaster[k], c)
  <2>1. \A b \in Codes, kind \in {"new", "del"} : Msg(kind, b) # Head(toMaster[l])
    BY ONLY <1>1, Kinds
  <2>2. /\ \A k \in Links \ {l} : toMaster'[k] = toMaster[k]
        /\ \A k \in Links : \A x : UnderWay(toMaster'[k], x) => UnderWay(toMaster[k], x)
        /\ \A k \in Links : \A x :
             UnderWay(toMaster[k], x) => UnderWay(toMaster'[k], x) \/ (k = l /\ x = Head(toMaster[l]))
        /\ \A k \in Links : \A c : Mentions(toMaster'[k], c) => Mentions(toMaster[k], c)
    BY ONLY <1>1, l \in Links, TakenByMaster
  <2> QED BY ONLY <2>1, <2>2
<1>4. /\ \A k \in Links : k # l \/ ~up[k] => toNode'[k] = toNode[k]
      /\ \A k \in Links, b \in Codes, kind \in {"add", "del"} :
           UnderWay(toNode'[k], Msg(kind, b)) <=> UnderWay(toNode[k], Msg(kind, b))
      /\ \A k \in Links, b \in Codes : Once(toNode[k], Msg("add", b)) => Once(toNode'[k], Msg("add", b))
      /\ \A k \in Links, b \in Codes : Mentions(toNode'[k], b) => Mentions(toNode[k], b)
  <2>0. PICK m \in Message : m = Msg("auth", None)
    BY Kinds
  <2>1. SendToNode(l, m) /\ \A b \in Codes, kind \in {"add", "del"} : Msg(kind, b) # m /\ m.code # b
    <3>1. SendToNode(l, m)
      BY <1>1, <2>0 DEF SendToNode, Lose
    <3> QED BY <2>0, <3>1, Kinds
  <2>2. /\ \A k \in Links : k # l \/ ~up[k] => toNode'[k] = toNode[k]
        /\ \A k \in Links : \A x :
             UnderWay(toNode'[k], x) => UnderWay(toNode[k], x) \/ (k = l /\ up[k] /\ x = m)
        /\ \A k \in Links : \A x : UnderWay(toNode[k], x) => UnderWay(toNode'[k], x)
        /\ \A k \in Links : \A c :
             Mentions(toNode'[k], c) => Mentions(toNode[k], c) \/ (k = l /\ up[k] /\ m.code = c)
        /\ \A k \in Links : \A x :
             Once(toNode[k], x) /\ (k = l /\ x = m => ~UnderWay(toNode[k], x)) => Once(toNode'[k], x)
    <3>1. TypeOK
      BY <1>1
    <3> QED BY ONLY <2>0, <2>1, <3>1, l \in Links, SentToNode
  <2> QED BY ONLY <2>1, <2>2
<1>5. /\ \A t \in Threads : pc'[t] \in {"off", "new", "cad", "deleting", "teardown", "adding"} => pc[t] = pc'[t]
      /\ \A t \in Threads : pc[t] # "new" => pc'[t] = pc[t]
      /\ \A h \in Handlers, c \in Codes : Adding(h, c)' <=> Adding(h, c)
  BY ONLY <1>1, <1>2 DEF Adding, Threads
<1>6. \A c \in Codes : node[c] # l
  BY ONLY <1>1, l \in Links DEF InvitedInv
<1>7. \A k \in Links, b \in Codes : (Claims(k, b)' <=> Claims(k, b))
  BY ONLY <1>1, <1>3 DEF Claims, Msg
<1>8. LinkInv'
  <2>1. \A k \in Links : pc[k] = "off" => toMaster'[k] = toMaster[k] /\ toNode'[k] = toNode[k]
    BY ONLY <1>1, <1>3, <1>4
  <2> QED BY ONLY <1>1, <1>5, <2>1, LinkKept DEF Threads
<1>9. NewsInv'
  <2>1. channels' \subseteq Codes /\ \A t \in Threads : pc'[t] = "deleting" => session'[t] \notin channels'
    BY ONLY <1>1, <1>5 DEF TypeOK, NewsInv
  <2> QED BY ONLY <1>1, <1>3, <1>4, <1>5, <2>1, NewsKept DEF Threads
<1>10. InvitedInv'
  BY ONLY <1>1, <1>5, InvitedKept DEF Threads
<1>11. ClosedInv'
  BY ONLY <1>1, <1>5, ClosedKept DEF Threads
<1>12. AddInv'
  BY ONLY <1>1, <1>4, <1>5, <1>7, AddKept
<1>13. ServeInv'
  BY ONLY <1>1, <1>3, <1>5, <1>7, ServeKept DEF TypeOK, Threads
<1>14. ReachInv'
  <2>1. \A k \in nodes, b \in Codes, t \in Threads : WillTell(t, b, k) => WillTell(t, b, k)'
    BY ONLY <1>1, <1>5 DEF WillTell
  <2>2. \A k \in nodes', b \in Codes : node[b] = k => k \in nodes /\ k \in Links
    BY ONLY <1>1, <1>6 DEF TypeOK
  <2> QED BY ONLY <1>1, <1>4, <2>1, <2>2, ReachKept
<1>15. UserInv'
  BY ONLY <1>1, <1>3, UserKept DEF Uses, Msg
<1> QED BY ONLY <1>8, <1>9, <1>10, <1>11, <1>12, <1>13, <1>14, <1>15, IInv' DEF SharedInv

\* NewConn: the first link to speak of a session has it, and only now is the viewer
\* invited.  The session may have left the map, but then it will still be closed, and
\* the link is told.
LEMMA NewConnStep ==
  ASSUME SharedInv, IInv', NEW l \in Links, AgentNewConn(l)
  PROVE  SharedInv'
<1>0. PICK c : c = Head(toMaster[l]).code
  OBVIOUS
<1>1. /\ UNCHANGED <<channels, closed, nodes, pc, session, todo, visit, side, up, toNode,
                     missedByMaster, missedByNode,
                     master, client, copy, owed>>
      /\ pc[l] = "read" /\ Reads(toMaster[l], "new") /\ toMaster' = [toMaster EXCEPT ![l] = Tail(@)]
      /\ \/ /\ ~closed[c] /\ node[c] = None
            /\ node' = [node EXCEPT ![c] = l]
            /\ machine' \in {machine, [machine EXCEPT ![c]["viewer"] = "invited"]}
         \/ node' = node /\ machine' = machine
      /\ TypeOK /\ LocalInv /\ CodeInv /\ LinkInv /\ NewsInv /\ InvitedInv /\ ClosedInv
      /\ AddInv /\ ServeInv /\ ReachInv /\ UserInv
  BY <1>0 DEF SharedInv, IInv, AgentNewConn, Reads, locals, threads, orders
<1>2. toMaster[l] # <<>> /\ Head(toMaster[l]) = Msg("new", c)
  BY ONLY <1>0, <1>1, l \in Links, ReadMessage DEF TypeOK
<1>3. /\ UnderWay(toMaster[l], Msg("new", c)) /\ Mentions(toMaster[l], c)
      /\ \A k \in Links \ {l} : toMaster'[k] = toMaster[k]
      /\ \A k \in Links : \A x : UnderWay(toMaster'[k], x) => UnderWay(toMaster[k], x)
      /\ \A k \in Links : \A b : UnderWay(toMaster[k], Msg("del", b)) => UnderWay(toMaster'[k], Msg("del", b))
      /\ \A k \in Links : \A b : Mentions(toMaster'[k], b) => Mentions(toMaster[k], b)
  <2>1. \A b : Msg("del", b) # Head(toMaster[l])
    BY ONLY <1>2, Kinds
  <2>2. /\ UnderWay(toMaster[l], Head(toMaster[l])) /\ Mentions(toMaster[l], Head(toMaster[l]).code)
        /\ \A k \in Links \ {l} : toMaster'[k] = toMaster[k]
        /\ \A k \in Links : \A x : UnderWay(toMaster'[k], x) => UnderWay(toMaster[k], x)
        /\ \A k \in Links : \A x :
             UnderWay(toMaster[k], x) => UnderWay(toMaster'[k], x) \/ (k = l /\ x = Head(toMaster[l]))
        /\ \A k \in Links : \A b : Mentions(toMaster'[k], b) => Mentions(toMaster[k], b)
    BY ONLY <1>1, <1>2, l \in Links, TakenByMaster
  <2> QED BY ONLY <1>0, <1>2, <2>1, <2>2
<1>4. /\ \A b \in Codes : node'[b] = node[b] \/ (b = c /\ ~closed[b] /\ node[b] = None /\ node'[b] = l)
      /\ \A b \in Codes, r \in Roles : machine'[b][r] = machine[b][r] \/
           (b = c /\ r = "viewer" /\ node[b] = None /\ node'[b] = l)
  <2>1. CASE node' = node /\ machine' = machine
    BY ONLY <2>1
  <2>2. CASE /\ ~closed[c] /\ node[c] = None /\ node' = [node EXCEPT ![c] = l]
             /\ machine' \in {machine, [machine EXCEPT ![c]["viewer"] = "invited"]}
    <3>1. \A b \in Codes : node'[b] = IF b = c THEN l ELSE node[b]
      BY ONLY <1>1, <2>2 DEF TypeOK
    <3>2. \A b \in Codes \ {c} : machine'[b] = machine[b]
      BY ONLY <1>1, <2>2 DEF TypeOK
    <3>3. c \in Codes => machine'[c]["server"] = machine[c]["server"]
      BY ONLY <1>1, <2>2 DEF TypeOK, Roles
    <3> QED BY ONLY <2>2, <3>1, <3>2, <3>3 DEF Roles
  <2> QED BY ONLY <1>1, <2>1, <2>2
<1>5. c \in Codes => pc[c] # "off"
  BY ONLY <1>1, <1>3, l \in Links DEF NewsInv
<1>6. \A k \in Links, b \in Codes : Claims(k, b)' => Claims(k, b)
  BY ONLY <1>1, <1>3, <1>4 DEF Claims, Msg
<1>7. LinkInv'
  BY ONLY <1>1, <1>3, LinkKept
<1>8. NewsInv'
  <2>1. channels' \subseteq Codes /\ \A t \in Threads : pc'[t] = "deleting" => session'[t] \notin channels'
    BY ONLY <1>1 DEF TypeOK, NewsInv
  <2> QED BY ONLY <1>1, <1>3, <2>1, NewsKept
<1>9. InvitedInv'
  BY ONLY <1>1, <1>4, <1>5, l \in Links, ClusterAssumption DEF InvitedInv, Adding, Roles, Threads
<1>10. ClosedInv'
  BY ONLY <1>1, ClosedKept
<1>11. AddInv'
  BY ONLY <1>1, <1>6, AddKept DEF Adding
<1>12. ServeInv'
  BY ONLY <1>1, <1>3, <1>6, ServeKept DEF TypeOK
<1>13. ReachInv'
  <2>1. ASSUME NEW k \in nodes, NEW b \in Codes, node'[b] = k, up[k], copy[side[k]][b] # "none"
        PROVE  \/ b \in channels \/ UnderWay(toNode[k], Msg("del", b)) \/ b \in missedByNode[k]
               \/ \E t \in Threads : WillTell(t, b, k)
    <3>1. CASE node[b] = k
      BY ONLY <1>1, <2>1, <3>1 DEF ReachInv
    <3>2. CASE node[b] # k
      <4>1. b = c /\ ~closed[b]
        BY ONLY <1>4, <2>1, <3>2
      <4>2. b \in channels \/ \E t \in Threads : pc[t] = "teardown" /\ session[t] = b
        BY ONLY <1>1, <1>5, <4>1, b \in Codes DEF ClosedInv
      <4> QED BY ONLY <4>2 DEF WillTell
    <3> QED BY ONLY <3>1, <3>2
  <2> QED BY ONLY <1>1, <2>1 DEF ReachInv, WillTell, Msg
<1>14. UserInv'
  <2>1. \A b \in Codes, r \in Roles : machine[b][r] \in Nodes => machine'[b][r] = machine[b][r]
    BY ONLY <1>1, <1>4, ClusterAssumption DEF InvitedInv, Roles
  <2> QED BY ONLY <1>1, <1>3, <2>1, UserKept DEF Uses, Msg
<1> QED BY ONLY <1>7, <1>8, <1>9, <1>10, <1>11, <1>12, <1>13, <1>14, IInv' DEF SharedInv

\* DelCode: the session that a node ends is disconnected.
LEMMA DelCodeStep ==
  ASSUME SharedInv, IInv', NEW l \in Links, AgentDelCode(l)
  PROVE  SharedInv'
<1>0. PICK c : c = Head(toMaster[l]).code
  OBVIOUS
<1>1. /\ UNCHANGED <<channels, closed, node, nodes, todo, visit, side, up, toNode,
                     missedByMaster, missedByNode,
                     master, client, copy, owed, machine>>
      /\ pc[l] = "read" /\ Reads(toMaster[l], "del") /\ toMaster' = [toMaster EXCEPT ![l] = Tail(@)]
      /\ IF c \in channels THEN Goto(l, "cad") /\ session' = [session EXCEPT ![l] = c]
                           ELSE UNCHANGED <<pc, session>>
      /\ TypeOK /\ LocalInv /\ CodeInv /\ LinkInv /\ NewsInv /\ InvitedInv /\ ClosedInv
      /\ AddInv /\ ServeInv /\ ReachInv /\ UserInv
  BY <1>0 DEF SharedInv, IInv, AgentDelCode, Reads, locals, masters, orders
<1>2. toMaster[l] # <<>> /\ Head(toMaster[l]) = Msg("del", c)
  BY ONLY <1>0, <1>1, l \in Links, ReadMessage DEF TypeOK
<1>3. /\ \A k \in Links \ {l} : toMaster'[k] = toMaster[k]
      /\ \A k \in Links : \A x : UnderWay(toMaster'[k], x) => UnderWay(toMaster[k], x)
      /\ \A k \in Links : \A b : UnderWay(toMaster[k], Msg("del", b)) =>
           UnderWay(toMaster'[k], Msg("del", b)) \/ (k = l /\ b = c)
      /\ \A k \in Links : \A b : Mentions(toMaster'[k], b) => Mentions(toMaster[k], b)
  <2>1. \A b : Msg("del", b) = Head(toMaster[l]) => b = c
    BY ONLY <1>2, Kinds
  <2>2. /\ \A k \in Links \ {l} : toMaster'[k] = toMaster[k]
        /\ \A k \in Links : \A x : UnderWay(toMaster'[k], x) => UnderWay(toMaster[k], x)
        /\ \A k \in Links : \A x :
             UnderWay(toMaster[k], x) => UnderWay(toMaster'[k], x) \/ (k = l /\ x = Head(toMaster[l]))
        /\ \A k \in Links : \A b : Mentions(toMaster'[k], b) => Mentions(toMaster[k], b)
    BY ONLY <1>1, <1>2, l \in Links, TakenByMaster
  <2> QED BY ONLY <2>1, <2>2
<1>4. /\ \A t \in Threads \ {l} : pc'[t] = pc[t] /\ session'[t] = session[t]
      /\ pc'[l] \in {"read", "cad"} /\ l \in Threads
      /\ c \in channels => pc'[l] = "cad" /\ session'[l] = c
  BY ONLY <1>1, l \in Links DEF Goto, TypeOK, Threads
<1>5. /\ \A t \in Threads : pc'[t] \in {"off", "new", "teardown", "deleting", "adding"} =>
           pc[t] = pc'[t] /\ session[t] = session'[t]
      /\ \A t \in Threads : pc[t] \in {"off", "new", "cad", "teardown", "deleting", "adding"} =>
           pc'[t] = pc[t] /\ session'[t] = session[t]
  BY ONLY <1>1, <1>4
<1>6. \A h \in Handlers, b \in Codes : Adding(h, b)' <=> Adding(h, b)
  BY ONLY <1>5 DEF Adding, Threads
<1>7. \A k \in Links, b \in Codes : Claims(k, b)' => Claims(k, b)
  BY ONLY <1>1, <1>3 DEF Claims, Msg
<1>8. LinkInv'
  BY ONLY <1>1, <1>3, <1>5, LinkKept DEF Threads
<1>9. NewsInv'
  <2>1. channels' \subseteq Codes /\ \A t \in Threads : pc'[t] = "deleting" => session'[t] \notin channels'
    BY ONLY <1>1, <1>5 DEF TypeOK, NewsInv
  <2> QED BY ONLY <1>1, <1>3, <1>5, <2>1, NewsKept DEF Threads
<1>10. InvitedInv'
  BY ONLY <1>1, <1>5, <1>6, InvitedKept DEF Threads
<1>11. ClosedInv'
  BY ONLY <1>1, <1>5, ClosedKept DEF Threads
<1>12. AddInv'
  BY ONLY <1>1, <1>6, <1>7, AddKept
<1>13. ServeInv'
  BY ONLY <1>1, <1>3, <1>4, <1>5, <1>7, ServeKept DEF TypeOK, Threads
<1>14. ReachInv'
  <2>1. \A k \in Links, b \in Codes, t \in Threads : WillTell(t, b, k) => WillTell(t, b, k)'
    BY ONLY <1>1, <1>5 DEF WillTell
  <2>2. nodes \subseteq Links
    BY ONLY <1>1 DEF TypeOK
  <2> QED BY ONLY <1>1, <2>1, <2>2, ReachKept
<1>15. UserInv'
  BY ONLY <1>1, <1>3, UserKept DEF Uses, Msg
<1> QED BY ONLY <1>8, <1>9, <1>10, <1>11, <1>12, <1>13, <1>14, <1>15, IInv' DEF SharedInv

(***************************************************************************)
(* Links that break, and nodes that crash.                                 *)
(***************************************************************************)

\* What is lost belongs to a link that is down, of which nothing is promised any more.
LEMMA DownKept ==
  ASSUME SharedInv, IInv', LinkInv',
         UNCHANGED <<channels, closed, node, session, todo, side, missedByMaster, missedByNode, machine>>,
         nodes' \subseteq nodes,
         \A t \in Threads : pc'[t] = pc[t] \/ (pc[t] \in {"new", "read"} /\ pc'[t] \in {"done", "farewell"}),
         \A l \in Links : up'[l] =>
           /\ up[l] /\ toMaster'[l] = toMaster[l] /\ toNode'[l] = toNode[l]
           /\ owed'[side[l]] = owed[side[l]] /\ copy'[side[l]] = copy[side[l]],
         \A l \in Links : /\ toMaster'[l] = toMaster[l] \/ toMaster'[l] = <<>>
                          /\ toNode'[l] = toNode[l] \/ toNode'[l] = <<>>,
         \A n \in Nodes : /\ owed'[n] \subseteq owed[n]
                          /\ \A c \in Codes : copy'[n][c] = copy[n][c] \/ copy'[n][c] = "none"
  PROVE  SharedInv'
<1>1. /\ TypeOK /\ LocalInv /\ CodeInv /\ LinkInv /\ NewsInv /\ InvitedInv /\ ClosedInv
      /\ AddInv /\ ServeInv /\ ReachInv /\ UserInv
      /\ UNCHANGED <<channels, closed, node, session, todo, side, missedByMaster, missedByNode, machine>> /\ nodes' \subseteq nodes
  BY DEF SharedInv, IInv
<1>2. /\ \A t \in Threads : pc'[t] \in {"off", "new", "cad", "teardown", "deleting", "adding"} => pc[t] = pc'[t]
      /\ \A t \in Threads : pc[t] \notin {"new", "read"} => pc'[t] = pc[t]
  OBVIOUS
<1>3. /\ \A h \in Handlers, c \in Codes : Adding(h, c)' => Adding(h, c)
      /\ \A t \in Threads, c \in Codes, l \in Links : WillTell(t, c, l) => WillTell(t, c, l)'
  BY ONLY <1>1, <1>2 DEF Adding, WillTell, Threads
<1>4. \A l \in Links : up'[l] =>
        /\ up[l] /\ toMaster'[l] = toMaster[l] /\ toNode'[l] = toNode[l]
        /\ owed'[side[l]] = owed[side[l]] /\ copy'[side[l]] = copy[side[l]]
  OBVIOUS
<1>5. /\ \A l \in Links : \A x : UnderWay(toMaster'[l], x) => UnderWay(toMaster[l], x)
      /\ \A l \in Links : \A x : UnderWay(toNode'[l], x) => UnderWay(toNode[l], x)
      /\ \A l \in Links : \A c : Mentions(toMaster'[l], c) => Mentions(toMaster[l], c)
      /\ \A l \in Links : \A c : Mentions(toNode'[l], c) => Mentions(toNode[l], c)
  BY NothingUnderWay
<1>6. \A l \in Links, c \in Codes : up'[l] => (Claims(l, c)' <=> Claims(l, c))
  BY ONLY <1>1, <1>4 DEF Claims, Msg
<1>7. \A n \in Nodes : /\ owed'[n] \subseteq owed[n]
                       /\ \A c \in Codes : copy'[n][c] = copy[n][c] \/ copy'[n][c] = "none"
  OBVIOUS
<1>8. NewsInv'
  <2>1. channels' \subseteq Codes /\ \A t \in Threads : pc'[t] = "deleting" => session'[t] \notin channels'
    BY ONLY <1>1, <1>2 DEF TypeOK, NewsInv
  <2> QED BY ONLY <1>1, <1>2, <1>5, <1>7, <2>1, NewsKept DEF Threads
<1>9. InvitedInv'
  BY ONLY <1>1, <1>2, <1>3, InvitedKept DEF Threads
<1>10. ClosedInv'
  BY ONLY <1>1, <1>2, ClosedKept DEF Threads
<1>11. AddInv'
  BY ONLY <1>1, <1>3, <1>4, <1>6, AddKept
<1>12. ServeInv'
  BY ONLY <1>1, <1>2, <1>4, <1>6, ServeKept DEF TypeOK, Threads
<1>13. ReachInv'
  BY ONLY <1>1, <1>3, <1>4, ReachKept DEF TypeOK
<1>14. UserInv'
  <2>1. \A c \in Codes, n \in Nodes : Uses(n, c)' => Uses(n, c)
    BY ONLY <1>1, <1>5, <1>7 DEF Uses, Msg
  <2> QED BY ONLY <1>1, <2>1, UserKept
<1> QED BY ONLY <1>8, <1>9, <1>10, <1>11, <1>12, <1>13, <1>14, IInv', LinkInv' DEF SharedInv

LEMMA BreakStep ==
  ASSUME SharedInv, IInv', NEW l \in Links, Break(l) \/ GiveUp(l) \/ Leave(l)
  PROVE  SharedInv'
<1>1. /\ UNCHANGED <<channels, closed, node, session, todo, side, toNode, missedByMaster, missedByNode, master, client, copy, owed, machine>>
      /\ up' = up \/ up' = [up EXCEPT ![l] = FALSE]
      /\ toMaster' = toMaster \/ (pc[l] # "off" /\ ~up'[l] /\ toMaster' = [toMaster EXCEPT ![l] = <<>>])
      /\ pc' = pc \/ (pc[l] = "new" /\ Goto(l, "done")) \/ (pc[l] = "read" /\ Goto(l, "farewell"))
      /\ nodes' \subseteq nodes
      /\ TypeOK /\ LinkInv /\ LocalInv
  BY DEF SharedInv, IInv, TypeOK, Break, GiveUp, Leave, masters, threads, queues, reports, orders, locals
<1>a. /\ \A k \in Links : up'[k] => up[k]
      /\ \A k \in Links \ {l} : up'[k] = up[k]
  BY ONLY <1>1, l \in Links DEF TypeOK
<1>b. /\ \A k \in Links \ {l} : toMaster'[k] = toMaster[k]
      /\ toMaster'[l] = toMaster[l] \/ (pc[l] # "off" /\ ~up'[l] /\ toMaster'[l] = <<>>)
  BY ONLY <1>1, l \in Links DEF TypeOK
<1>c. \A t \in Threads : pc'[t] = pc[t] \/ (pc[t] \in {"new", "read"} /\ pc'[t] \in {"done", "farewell"})
  BY ONLY <1>1, l \in Links DEF TypeOK, Goto
<1>2. /\ \A k \in Links : up'[k] => up[k] /\ toMaster'[k] = toMaster[k]
      /\ \A k \in Links : toMaster'[k] = toMaster[k] \/ (pc[k] # "off" /\ toMaster'[k] = <<>>)
      /\ \A t \in Threads : pc'[t] = pc[t] \/ (pc[t] \in {"new", "read"} /\ pc'[t] \in {"done", "farewell"})
  BY ONLY <1>a, <1>b, <1>c, l \in Links
<1>3. LinkInv'
  BY ONLY <1>1, <1>2, LinkKept DEF Threads
<1> QED BY ONLY SharedInv, IInv', <1>1, <1>2, <1>3, DownKept

LEMMA LoseStep ==
  ASSUME SharedInv, IInv', NEW n \in Nodes, LoseMaster(n) \/ Crash(n)
  PROVE  SharedInv'
<1>1. /\ UNCHANGED <<channels, closed, node, nodes, pc, session, todo, side, toMaster, missedByMaster, missedByNode, machine>>
      /\ HangUp(n) /\ master' = [master EXCEPT ![n] = None] /\ client' = [client EXCEPT ![n] = "dial"]
      /\ TypeOK /\ LinkInv /\ LocalInv
  BY DEF SharedInv, IInv, LoseMaster, Crash, masters, threads, reports
<1>2. \A k \in Links : toNode'[k] = toNode[k] \/ (k = master[n] /\ toNode'[k] = <<>>)
  BY ONLY <1>1, LoseMaster(n) \/ Crash(n) DEF LoseMaster, Crash, TypeOK
<1>3. /\ \A m \in Nodes : m # n => owed'[m] = owed[m] /\ copy'[m] = copy[m]
      /\ \A m \in Nodes : /\ owed'[m] \subseteq owed[m]
                          /\ \A c \in Codes : copy'[m][c] = copy[m][c] \/ copy'[m][c] = "none"
  <2>1. CASE LoseMaster(n)
    BY ONLY <2>1 DEF LoseMaster
  <2>2. CASE Crash(n)
    BY ONLY <1>1, <2>2, n \in Nodes DEF Crash, TypeOK
  <2> QED BY ONLY <2>1, <2>2, LoseMaster(n) \/ Crash(n)
<1>4. /\ \A k \in Links : up'[k] => up[k] /\ k # master[n] /\ side[k] \in Nodes \ {n}
      /\ \A k \in Links : pc[k] = "off" => k # master[n]
  BY ONLY <1>1, n \in Nodes, InTouch DEF HangUp
<1>5. /\ master'[n] = None /\ client'[n] = "dial"
      /\ \A m \in Nodes \ {n} : master'[m] = master[m] /\ client'[m] = client[m]
  BY ONLY <1>1, n \in Nodes DEF TypeOK
<1>6. LinkInv'
  BY ONLY <1>1, <1>2, <1>4, <1>5, ClusterAssumption DEF LinkInv, Threads
<1> QED BY ONLY SharedInv, IInv', <1>1, <1>2, <1>3, <1>4, <1>6, DownKept

(***************************************************************************)
(* All steps.                                                              *)
(***************************************************************************)

\* The steps of the master that QuietStep describes.
LEMMA QuietSteps ==
  ASSUME SharedInv, IInv', NEW t \in Threads,
         \/ CompareAndDelete(t) \/ Teardown(t) \/ (SendDel(t) /\ todo[t] = {})
         \/ t \in Handlers /\ Invite(t) /\ Goto(t, "cad") /\ UNCHANGED <<machine, session>>
         \/ t \in Handlers /\ \E c \in Codes : Disconnect(t, c)
         \/ t \in Codes /\ Watch(t)
         \/ t \in Links /\ (Farewell(t) \/ Visit(t))
  PROVE  SharedInv'
<1>1. TypeOK /\ LocalInv /\ CodeInv
  BY DEF SharedInv, IInv
<1>2. /\ DOMAIN pc = Threads /\ DOMAIN session = Threads /\ DOMAIN todo = Threads
      /\ DOMAIN closed = Codes /\ closed \in [Codes -> BOOLEAN] /\ todo[t] \subseteq Links
  BY ONLY <1>1, t \in Threads DEF TypeOK
<1>3. /\ t \in Handlers => pc[t] \notin {"off", "new", "watch"}
      /\ pc[t] = "teardown" => session[t] \notin channels /\ session[t] \in Codes
  BY ONLY <1>1, t \in Threads DEF LocalInv, CodeInv, Ending
<1>4. \A u \in Threads \ {t} : todo' = [todo EXCEPT ![t] = nodes] => todo'[u] = todo[u]
  BY ONLY <1>2, t \in Threads
<1>5. \A label : Goto(t, label) => /\ pc'[t] = label
                                  /\ \A u \in Threads \ {t} : pc'[u] = pc[u]
  BY ONLY <1>2, t \in Threads DEF Goto
<1>6. Return(t) => /\ pc'[t] \in {"idle", "done", "read", "range"}
                   /\ \A u \in Threads \ {t} : pc'[u] = pc[u] /\ session'[u] = session[u]
  BY ONLY <1>2, <1>5, t \in Threads DEF Return
<1>7. CASE CompareAndDelete(t)
  <2>1. CASE /\ session[t] \in channels /\ channels' = channels \ {session[t]}
             /\ Goto(t, "teardown") /\ UNCHANGED session
    BY <1>2, <1>5, <1>7, <2>1, QuietStep DEF CompareAndDelete
  <2>2. CASE session[t] \notin channels /\ Return(t) /\ UNCHANGED channels
    BY <1>2, <1>6, <1>7, <2>2, QuietStep DEF CompareAndDelete
  <2> QED BY <1>7, <2>1, <2>2 DEF CompareAndDelete
<1>8. CASE Teardown(t)
  <2>1. /\ todo'[t] = nodes /\ closed'[session[t]]
        /\ \A c \in Codes : closed[c] => closed'[c]
    BY ONLY <1>2, <1>3, <1>8, t \in Threads DEF Teardown
  <2> QED BY <1>2, <1>3, <1>4, <1>5, <1>8, <2>1, QuietStep DEF Teardown
<1>9. CASE SendDel(t) /\ todo[t] = {}
  BY <1>2, <1>6, <1>9, QuietStep DEF SendDel, masters, queues, reports, orders
<1>10. CASE t \in Handlers /\ Invite(t) /\ Goto(t, "cad") /\ UNCHANGED <<machine, session>>
  BY <1>2, <1>5, <1>10, QuietStep DEF Invite, masters
<1>11. CASE t \in Handlers /\ \E c \in Codes : Disconnect(t, c)
  BY <1>2, <1>5, <1>11, QuietStep DEF Disconnect, masters
<1>12. CASE t \in Codes /\ Watch(t)
  BY <1>2, <1>5, <1>12, QuietStep DEF Watch, masters
<1>13. CASE t \in Links /\ Farewell(t)
  BY <1>2, <1>5, <1>13, QuietStep DEF Farewell, masters
<1>14. CASE t \in Links /\ Visit(t)
  <2>1. CASE /\ \/ Goto(t, "cad") /\ \E c \in visit[t] : session' = [session EXCEPT ![t] = c]
                \/ UNCHANGED <<pc, session>>
                \/ Goto(t, "done") /\ UNCHANGED session
             /\ pc[t] = "range"
    BY <1>2, <1>5, <1>14, <2>1, QuietStep DEF Visit, masters
  <2> QED BY <1>14, <2>1 DEF Visit
<1> QED BY <1>7, <1>8, <1>9, <1>10, <1>11, <1>12, <1>13, <1>14

\* Initially nothing is under way and nobody knows anything.
THEOREM InitSharedInv == Init => SharedInv
<1> SUFFICES ASSUME Init PROVE SharedInv
  OBVIOUS
<1>1. IInv
  BY InitIInv
<1>2. \A t \in Threads : pc[t] \in {"off", "idle"}
  BY DEF Init
<1>3. \A h \in Handlers, c \in Codes : ~Adding(h, c)
  BY <1>2 DEF Adding
<1>4. LinkInv /\ ClosedInv
  BY DEF Init, LinkInv, ClosedInv
<1>5. NewsInv /\ InvitedInv
  BY <1>2, <1>3, NothingUnderWay DEF Init, NewsInv, InvitedInv, Roles
<1>6. AddInv /\ ServeInv /\ ReachInv
  BY DEF Init, AddInv, ServeInv, ReachInv
<1>7. UserInv
  BY NothingUnderWay DEF Init, UserInv, Uses
<1> QED BY <1>1, <1>4, <1>5, <1>6, <1>7 DEF SharedInv

\* Every step keeps the invariant.
THEOREM StepSharedInv == SharedInv /\ [Next]_vars => SharedInv'
<1> SUFFICES ASSUME SharedInv, [Next]_vars PROVE SharedInv'
  OBVIOUS
<1>1. IInv'
  BY StepInv DEF SharedInv
<1>2. CASE UNCHANGED vars
  BY <1>1, <1>2 DEF vars, masters, threads, queues, reports, orders, locals, SharedInv, LinkInv, NewsInv, InvitedInv,
       ClosedInv, AddInv, ServeInv, ReachInv, UserInv, ToCome, Claims, Uses, Adding, WillTell, Msg
<1> SUFFICES ASSUME Next PROVE SharedInv'
  BY <1>2
<1>3. ASSUME NEW t \in Threads, DisconnectPair(t) PROVE SharedInv'
  <2>1. CASE SendDel(t) /\ todo[t] # {}
    BY <1>1, <2>1, SendDelStep
  <2> QED BY <1>1, <1>3, <2>1, QuietSteps DEF DisconnectPair
<1>4. ASSUME NEW h \in Handlers,
             HandlerStep(h) \/ \E c \in Codes : Connect(h, c) \/ Disconnect(h, c)
      PROVE  SharedInv'
  <2>1. CASE SendAdd(h)
    BY <1>1, <2>1, SendAddStep
  <2>2. CASE Invite(h)
    <3>1. CASE machine' = [machine EXCEPT ![session[h]]["server"] = "invited"] /\ Return(h)
      BY <1>1, <2>2, <3>1, InviteStep
    <3>2. CASE Goto(h, "cad") /\ UNCHANGED <<machine, session>>
      BY <1>1, <2>2, <3>2, QuietSteps
    <3> QED BY <2>2, <3>1, <3>2 DEF Invite
  <2>3. ASSUME NEW c \in Codes, Connect(h, c) PROVE SharedInv'
    BY <1>1, <2>3, ConnectStep
  <2>4. ASSUME NEW c \in Codes, Disconnect(h, c) PROVE SharedInv'
    BY <1>1, <2>4, QuietSteps
  <2> QED BY <1>3, <1>4, <2>1, <2>2, <2>3, <2>4 DEF HandlerStep
<1>5. ASSUME NEW c \in Codes, WatchStep(c) PROVE SharedInv'
  BY <1>1, <1>3, <1>5, QuietSteps DEF WatchStep
<1>6. ASSUME NEW l \in Links, LinkStep(l) \/ Break(l) PROVE SharedInv'
  <2>1. CASE Farewell(l) \/ Visit(l)
    BY <1>1, <2>1, QuietSteps
  <2>2. CASE AgentAuth(l) \/ AgentNewConn(l) \/ AgentDelCode(l)
    BY <1>1, <2>2, AuthStep, NewConnStep, DelCodeStep
  <2>3. CASE GiveUp(l) \/ Leave(l) \/ Break(l)
    BY <1>1, <2>3, BreakStep
  <2> QED BY <1>3, <1>6, <2>1, <2>2, <2>3 DEF LinkStep
<1>7. ASSUME NEW n \in Nodes, ClientStep(n) \/ Dial(n) \/ Crash(n) PROVE SharedInv'
  BY <1>1, <1>7, SendAuthStep, AuthorizedStep, LoseStep, AddCodeStep, NodeDelCodeStep, DialStep DEF ClientStep
<1>8. ASSUME NEW n \in Nodes,
             \/ \E m \in owed[n] : Send(n, m)
             \/ \E c \in Codes :
                  CopyStep(n, c) \/ CopyEnds(n, c) \/ \E r \in Roles : Arrive(n, c, r)
      PROVE  SharedInv'
  BY <1>1, <1>8, SendStep, EndStep, ArriveStep DEF CopyStep
<1> QED BY <1>4, <1>5, <1>6, <1>7, <1>8 DEF Next

\* What master and nodes know of sessions is related by SharedInv in every state.
THEOREM SharedInvariant == Spec => []SharedInv
  BY InitSharedInv, StepSharedInv, PTL DEF Spec

(***************************************************************************)
(* Where the machines of a session are.                                    *)
(***************************************************************************)

\* A step that invites nobody, moves no machine and gives no session to a node.
LEMMA PlaceKept ==
  ASSUME PlaceInv, UNCHANGED <<node, side, machine>>,
         \A n \in Nodes, c \in Codes :
           /\ copy'[n][c] = "relaying" => copy[n][c] = "relaying"
           /\ Msg("new", c) \in owed'[n] => Msg("new", c) \in owed[n],
         \A l \in Links, c \in Codes : UnderWay(toMaster'[l], Msg("new", c)) =>
           \/ UnderWay(toMaster[l], Msg("new", c))
           \/ side[l] \in Nodes /\ Msg("new", c) \in owed[side[l]]
  PROVE  PlaceInv'
<1>1. \A n \in Nodes, c \in Codes, r \in Roles : copy'[n][c] = "relaying" => machine'[c][r] = n
  BY DEF PlaceInv
<1>2. \A c \in Codes, l \in Links : node'[c] = l => machine'[c]["server"] = side'[l]
  BY DEF PlaceInv
<1>3. \A c \in Codes, n \in Nodes : node'[c] = None /\ Msg("new", c) \in owed'[n] =>
        machine'[c]["server"] = n
  BY DEF PlaceInv
<1>4. \A c \in Codes, l \in Links : node'[c] = None /\ UnderWay(toMaster'[l], Msg("new", c)) =>
        machine'[c]["server"] = side'[l]
  BY DEF PlaceInv
<1> QED BY ONLY <1>1, <1>2, <1>3, <1>4 DEF PlaceInv, Msg

\* A link over which something is under way, or that has a session, was dialed by a node.
LEMMA Dialed ==
  ASSUME SharedInv
  PROVE  /\ \A l \in Links : \A x : UnderWay(toMaster[l], x) => side[l] \in Nodes
         /\ \A l \in Links, c \in Codes : node[c] = l => side[l] \in Nodes
<1>1. LinkInv /\ LocalInv /\ InvitedInv
  BY DEF SharedInv, IInv
<1>2. \A l \in Links : \A x : UnderWay(toMaster[l], x) => pc[l] # "off"
  BY ONLY <1>1, NothingUnderWay DEF LinkInv
<1>3. \A l \in Links, c \in Codes : node[c] = l => pc[l] # "off"
  BY ONLY <1>1 DEF InvitedInv
<1> QED BY ONLY <1>1, <1>2, <1>3 DEF LocalInv

\* The machine that serves is invited while it is nowhere.
LEMMA PlaceInvite ==
  ASSUME SharedInv, PlaceInv, NEW h \in Handlers, Invite(h),
         machine' = [machine EXCEPT ![session[h]]["server"] = "invited"]
  PROVE  PlaceInv'
<1>1. /\ UNCHANGED <<node, side, copy, owed, toMaster>> /\ pc[h] = "adding"
      /\ TypeOK /\ LocalInv /\ InvitedInv /\ PlaceInv
  BY DEF SharedInv, IInv, Invite, masters, locals, queues, reports
<1>2. PICK c \in Codes : c = session[h]
  BY ONLY <1>1, h \in Handlers DEF LocalInv, Threads
<1>3. machine[c]["server"] = "waits"
  BY ONLY <1>1, <1>2, h \in Handlers DEF InvitedInv, Adding
<1>4. \A b \in Codes, q \in Roles : machine'[b][q] = machine[b][q] \/ (b = c /\ q = "server")
  BY ONLY <1>1, <1>2, machine' = [machine EXCEPT ![session[h]]["server"] = "invited"] DEF TypeOK
<1>5. /\ \A n \in Nodes, q \in Roles : machine[c][q] = n => machine'[c][q] = n
      /\ \A n \in Nodes : n # "waits"
      /\ "server" \in Roles
  BY ONLY <1>3, <1>4, ClusterAssumption DEF Roles
<1>6. \A n \in Nodes, b \in Codes, q \in Roles : machine[b][q] = n => machine'[b][q] = n
  BY ONLY <1>4, <1>5
<1>7. \A n \in Nodes, b \in Codes, q \in Roles : copy[n][b] = "relaying" => machine'[b][q] = n
  BY ONLY <1>1, <1>6 DEF PlaceInv
<1>8. \A b \in Codes, n \in Nodes : node[b] = None /\ Msg("new", b) \in owed[n] => machine'[b]["server"] = n
  BY ONLY <1>1, <1>5, <1>6 DEF PlaceInv
<1>9. /\ \A b \in Codes, l \in Links : node[b] = l => machine'[b]["server"] = side[l]
      /\ \A b \in Codes, l \in Links : node[b] = None /\ UnderWay(toMaster[l], Msg("new", b)) =>
           machine'[b]["server"] = side[l]
  BY ONLY SharedInv, <1>1, <1>5, <1>6, Dialed DEF PlaceInv
<1> QED BY ONLY <1>1, <1>7, <1>8, <1>9 DEF PlaceInv, Msg

\* A node takes a session over the link that told of the machine that serves; the viewer
\* is nowhere yet.
LEMMA PlaceNewConn ==
  ASSUME SharedInv, PlaceInv, NEW l \in Links, AgentNewConn(l)
  PROVE  PlaceInv'
<1>0. PICK c : c = Head(toMaster[l]).code
  OBVIOUS
<1>1. /\ UNCHANGED <<side, copy, owed>>
      /\ Reads(toMaster[l], "new") /\ toMaster' = [toMaster EXCEPT ![l] = Tail(@)]
      /\ \/ /\ node[c] = None /\ node' = [node EXCEPT ![c] = l]
            /\ machine' \in {machine, [machine EXCEPT ![c]["viewer"] = "invited"]}
         \/ node' = node /\ machine' = machine
      /\ TypeOK /\ InvitedInv /\ PlaceInv
  BY <1>0 DEF SharedInv, IInv, AgentNewConn, Reads, locals, threads
<1>2. toMaster[l] # <<>> /\ Head(toMaster[l]) = Msg("new", c)
  BY ONLY <1>0, <1>1, l \in Links, ReadMessage DEF TypeOK
<1>3. /\ UnderWay(toMaster[l], Msg("new", c))
      /\ \A k \in Links : \A x : UnderWay(toMaster'[k], x) => UnderWay(toMaster[k], x)
  <2>1. TypeOK /\ toMaster' = [toMaster EXCEPT ![l] = Tail(@)]
    BY ONLY <1>1
  <2>2. toMaster[l] # <<>>
    BY ONLY <1>2
  <2>3. /\ UnderWay(toMaster[l], Head(toMaster[l]))
        /\ \A k \in Links : \A x : UnderWay(toMaster'[k], x) => UnderWay(toMaster[k], x)
    BY ONLY <2>1, <2>2, l \in Links, TakenByMaster
  <2> QED BY ONLY <1>2, <2>3
<1>4. CASE node' = node /\ machine' = machine
  BY ONLY <1>1, <1>3, <1>4, PlaceKept
<1>5. CASE /\ node[c] = None /\ node' = [node EXCEPT ![c] = l]
           /\ machine' \in {machine, [machine EXCEPT ![c]["viewer"] = "invited"]}
  <2>1. /\ \A b \in Codes : node'[b] = IF b = c THEN l ELSE node[b]
        /\ \A b \in Codes : machine'[b]["server"] = machine[b]["server"]
        /\ \A b \in Codes \ {c} : machine'[b] = machine[b]
    <3>1. \A b \in Codes : node'[b] = IF b = c THEN l ELSE node[b]
      BY ONLY <1>1, <1>5 DEF TypeOK
    <3>2. CASE machine' = machine
      BY ONLY <3>1, <3>2
    <3>3. CASE machine' = [machine EXCEPT ![c]["viewer"] = "invited"]
      <4>1. \A b \in Codes \ {c} : machine'[b] = machine[b]
        BY ONLY <1>1, <3>3 DEF TypeOK
      <4>2. c \in Codes => machine'[c]["server"] = machine[c]["server"]
        BY ONLY <1>1, <3>3 DEF TypeOK, Roles
      <4> QED BY ONLY <3>1, <4>1, <4>2
    <3> QED BY ONLY <1>5, <3>2, <3>3
  <2>2. c \in Codes => machine[c]["server"] = side[l] /\ machine[c]["viewer"] = "waits"
    BY ONLY <1>1, <1>3, <1>5, l \in Links DEF PlaceInv, InvitedInv
  <2>3. c \in Codes => \A n \in Nodes : copy[n][c] # "relaying"
    BY ONLY <1>1, <2>2, ClusterAssumption DEF PlaceInv, Roles
  <2> QED BY ONLY <1>1, <1>3, <1>5, <2>1, <2>2, <2>3, l \in Links, ClusterAssumption DEF PlaceInv, Threads, Msg
<1> QED BY ONLY <1>1, <1>4, <1>5

\* A machine that comes to a node meets the other one there, or nobody; and the viewer
\* was invited when a node had the session.
LEMMA PlaceArrive ==
  ASSUME SharedInv, PlaceInv, NEW n \in Nodes, NEW c \in Codes, NEW r \in Roles, Arrive(n, c, r)
  PROVE  PlaceInv'
<1>1. /\ UNCHANGED <<node, side, toMaster>>
      /\ machine[c][r] = "invited" /\ machine' = [machine EXCEPT ![c][r] = n]
      /\ \/ /\ copy[n][c] = "unused" /\ Turn(n, c, "waiting")
            /\ owed' = [owed EXCEPT ![n] = @ \cup {Msg("new", c)}]
         \/ copy[n][c] = "waiting" /\ Turn(n, c, "relaying") /\ owed' = owed
      /\ TypeOK /\ InvitedInv /\ UserInv /\ PlaceInv
  BY DEF SharedInv, IInv, Arrive, queues, reports, masters
<1>2. \A b \in Codes, q \in Roles : machine'[b][q] = IF b = c /\ q = r THEN n ELSE machine[b][q]
  BY ONLY <1>1, c \in Codes, r \in Roles DEF TypeOK
<1>3. \A m \in Nodes, b \in Codes : copy'[m][b] = "relaying" =>
        copy[m][b] = "relaying" \/ (m = n /\ b = c /\ copy[n][c] = "waiting")
  BY ONLY <1>1, n \in Nodes, c \in Codes DEF Turn, TypeOK
<1>4. \A m \in Nodes : \A x : x \in owed'[m] => x \in owed[m] \/ (m = n /\ x = Msg("new", c))
  <2>1. CASE owed' = owed
    BY ONLY <2>1
  <2>2. CASE owed' = [owed EXCEPT ![n] = @ \cup {Msg("new", c)}]
    <3>1. \A m \in Nodes : owed'[m] = IF m = n THEN owed[m] \cup {Msg("new", c)} ELSE owed[m]
      BY ONLY <1>1, <2>2, n \in Nodes DEF TypeOK
    <3> QED BY ONLY <3>1
  <2> QED BY ONLY <1>1, <2>1, <2>2
<1>5. \A m \in Nodes, b \in Codes, q \in Roles : machine[b][q] = m => machine'[b][q] = m
  BY ONLY <1>1, <1>2, ClusterAssumption
<1>6. copy[n][c] = "waiting" => \A q \in Roles : machine'[c][q] = n
  BY ONLY <1>1, <1>2, n \in Nodes, c \in Codes, r \in Roles, ClusterAssumption DEF UserInv, Uses, Roles
<1>7. r = "viewer" => node[c] # None
  BY ONLY <1>1, c \in Codes DEF InvitedInv
<1>8. \A m \in Nodes, b \in Codes, q \in Roles : copy'[m][b] = "relaying" => machine'[b][q] = m
  BY ONLY <1>1, <1>3, <1>5, <1>6 DEF PlaceInv
<1>9. \A b \in Codes, m \in Nodes : node[b] = None /\ Msg("new", b) \in owed'[m] => machine'[b]["server"] = m
  <2>1. \A b : Msg("new", b) = Msg("new", c) => b = c
    BY Kinds
  <2>2. r # "viewer" => r = "server"
    BY ONLY r \in Roles DEF Roles
  <2> QED BY ONLY <1>1, <1>2, <1>4, <1>5, <1>7, <2>1, <2>2, n \in Nodes, c \in Codes, r \in Roles DEF PlaceInv, Roles
<1>10. /\ \A b \in Codes, l \in Links : node[b] = l => machine'[b]["server"] = side[l]
       /\ \A b \in Codes, l \in Links : node[b] = None /\ UnderWay(toMaster[l], Msg("new", b)) =>
            machine'[b]["server"] = side[l]
  BY ONLY SharedInv, <1>1, <1>5, Dialed DEF PlaceInv, Roles
<1> QED BY ONLY <1>1, <1>8, <1>9, <1>10 DEF PlaceInv, Msg

\* A link that is dialed has no session yet.
LEMMA PlaceDial ==
  ASSUME SharedInv, PlaceInv, NEW n \in Nodes, Dial(n)
  PROVE  PlaceInv'
<1>1. PICK l \in Links : pc[l] = "off" /\ side' = [side EXCEPT ![l] = n]
  BY DEF Dial
<1>2. /\ UNCHANGED <<node, machine, copy, owed, toMaster>>
      /\ TypeOK /\ LinkInv /\ InvitedInv /\ PlaceInv
  BY DEF SharedInv, IInv, Dial, masters, queues, reports
<1>3. /\ \A c \in Codes : node[c] # l
      /\ \A x : ~UnderWay(toMaster[l], x)
      /\ \A k \in Links \ {l} : side'[k] = side[k]
  BY ONLY <1>1, <1>2, NothingUnderWay, l \in Links DEF LinkInv, InvitedInv, TypeOK
<1> QED BY ONLY <1>2, <1>3 DEF PlaceInv, Msg

\* What nodes say, and what they forget.
LEMMA PlaceNode ==
  ASSUME SharedInv, PlaceInv, NEW n \in Nodes,
         \/ ClientStep(n) \/ Crash(n)
         \/ \E m \in owed[n] : Send(n, m)
         \/ \E c \in Codes : CopyStep(n, c) \/ CopyEnds(n, c)
  PROVE  PlaceInv'
<1>1. /\ UNCHANGED <<node, side, machine>>
      /\ TypeOK /\ LinkInv /\ LocalInv /\ PlaceInv
  BY DEF SharedInv, IInv, ClientStep, SendAuth, Authorized, LoseMaster, AgentAddCode, NodeDelCode, Crash,
         Send, CopyStep, WaitTimeout, Reap, CopyEnds, masters
<1>2. ASSUME NEW c, Turn(n, c, "none") \/ Turn(n, c, "unused")
      PROVE  \A m \in Nodes, b \in Codes : copy'[m][b] = "relaying" => copy[m][b] = "relaying"
  <2>1. PICK state : copy' = [copy EXCEPT ![n][c] = state] /\ state # "relaying"
    BY ONLY <1>2 DEF Turn
  <2>2. \A m \in Nodes, b \in Codes : copy'[m][b] = IF m = n /\ b = c THEN state ELSE copy[m][b]
    BY ONLY <1>1, <2>1, n \in Nodes DEF TypeOK
  <2> QED BY ONLY <2>1, <2>2
<1>3. ASSUME NEW c, End(n, c)
      PROVE  \A m \in Nodes, b \in Codes :
               /\ copy'[m][b] = "relaying" => copy[m][b] = "relaying"
               /\ Msg("new", b) \in owed'[m] => Msg("new", b) \in owed[m]
  <2>1. \A m \in Nodes, b \in Codes : copy'[m][b] = "relaying" => copy[m][b] = "relaying"
    BY <1>2, <1>3 DEF End
  <2>2. \A m \in Nodes : owed'[m] = IF m = n THEN owed[m] \cup {Msg("del", c)} ELSE owed[m]
    BY ONLY <1>1, <1>3, n \in Nodes DEF End, TypeOK
  <2>3. \A b : Msg("new", b) # Msg("del", c)
    BY Kinds
  <2> QED BY ONLY <2>1, <2>2, <2>3
<1>4. CASE AgentAddCode(n) \/ NodeDelCode(n) \/ \E c \in Codes : CopyStep(n, c) \/ CopyEnds(n, c)
  <2>1. /\ toMaster' = toMaster
        /\ \/ copy' = copy /\ owed' = owed
           \/ owed' = owed /\ \E c : Turn(n, c, "none") \/ Turn(n, c, "unused")
           \/ \E c : End(n, c)
    BY ONLY <1>4 DEF AgentAddCode, NodeDelCode, CopyStep, CopyEnds, WaitTimeout, Reap, queues, reports
  <2>2. \A m \in Nodes, b \in Codes :
          /\ copy'[m][b] = "relaying" => copy[m][b] = "relaying"
          /\ Msg("new", b) \in owed'[m] => Msg("new", b) \in owed[m]
    BY <1>2, <1>3, <2>1
  <2> QED BY ONLY <1>1, <2>1, <2>2, PlaceKept
<1>5. CASE LoseMaster(n) \/ Crash(n) \/ Authorized(n)
  <2>1. toMaster' = toMaster
    BY ONLY <1>5 DEF LoseMaster, Crash, Authorized, reports
  <2>2. \A m \in Nodes, b \in Codes :
          /\ copy'[m][b] = "relaying" => copy[m][b] = "relaying"
          /\ owed'[m] \subseteq owed[m]
    <3>1. CASE LoseMaster(n) \/ Authorized(n)
      BY ONLY <3>1 DEF LoseMaster, Authorized
    <3>2. CASE Crash(n)
      BY ONLY <1>1, <3>2, n \in Nodes DEF Crash, TypeOK
    <3> QED BY ONLY <1>5, <3>1, <3>2
  <2> QED BY ONLY <1>1, <2>1, <2>2, PlaceKept
<1>6. ASSUME NEW m \in Message, SendToMaster(n, m)
      PROVE  \A l \in Links : \A x : UnderWay(toMaster'[l], x) =>
               UnderWay(toMaster[l], x) \/ (side[l] = n /\ x = m)
  <2>1. \A l \in Links : l = master[n] => side[l] = n
    BY ONLY <1>1, n \in Nodes, ClusterAssumption DEF LinkInv, Threads
  <2>2. \A l \in Links : \A x : UnderWay(toMaster'[l], x) => UnderWay(toMaster[l], x) \/ (l = master[n] /\ x = m)
    BY ONLY <1>1, <1>6, n \in Nodes, SentToMaster
  <2> QED BY ONLY <2>1, <2>2
<1>7. CASE SendAuth(n)
  <2>1. UNCHANGED <<copy, owed>>
    BY ONLY <1>7 DEF SendAuth
  <2>2. PICK m \in Message : m = Msg("auth", None)
    BY Kinds
  <2>3. SendToMaster(n, m)
    BY <1>7, <2>2 DEF SendAuth, SendToMaster
  <2>4. \A b : Msg("new", b) # m
    BY <2>2, Kinds
  <2> QED BY ONLY <1>1, <1>6, <2>1, <2>3, <2>4, m \in Message, PlaceKept
<1>8. ASSUME NEW m \in owed[n], Send(n, m) PROVE PlaceInv'
  <2>1. /\ copy' = copy /\ SendToMaster(n, m) /\ m \in Message
        /\ \A j \in Nodes : owed'[j] \subseteq owed[j]
    BY ONLY <1>1, <1>8, n \in Nodes DEF Send, TypeOK
  <2>2. \A l \in Links : \A x : UnderWay(toMaster'[l], x) =>
          UnderWay(toMaster[l], x) \/ (side[l] \in Nodes /\ x \in owed[side[l]])
    BY ONLY <1>6, <2>1, n \in Nodes, m \in owed[n]
  <2> QED BY ONLY <1>1, <2>1, <2>2, PlaceKept
<1> QED BY <1>4, <1>5, <1>7, <1>8 DEF ClientStep

\* What the master does otherwise.
LEMMA PlaceMaster ==
  ASSUME SharedInv, PlaceInv,
         \/ \E h \in Handlers :
              \/ SendAdd(h) \/ (Invite(h) /\ machine' = machine)
              \/ \E c \in Codes : Connect(h, c) \/ Disconnect(h, c)
         \/ \E t \in Threads : DisconnectPair(t)
         \/ \E c \in Codes : Watch(c)
         \/ \E l \in Links : \/ AgentAuth(l) \/ GiveUp(l) \/ AgentDelCode(l)
                             \/ Leave(l) \/ Farewell(l) \/ Visit(l) \/ Break(l)
  PROVE  PlaceInv'
<1>1. UNCHANGED <<node, side, machine, copy, owed>>
  BY DEF Connect, SendAdd, Invite, Disconnect, DisconnectPair, CompareAndDelete, Teardown, SendDel, Watch,
         AgentAuth, GiveUp, AgentDelCode, Leave, Farewell, Visit, Break, masters, locals
<1>2. \/ toMaster' = toMaster
      \/ \E l \in Links : \/ toMaster' = [toMaster EXCEPT ![l] = <<>>]
                          \/ toMaster[l] # <<>> /\ toMaster' = [toMaster EXCEPT ![l] = Tail(@)]
  BY DEF Connect, SendAdd, Invite, Disconnect, DisconnectPair, CompareAndDelete, Teardown, SendDel, Watch,
         AgentAuth, GiveUp, AgentDelCode, Leave, Farewell, Visit, Break, Reads, queues, reports
<1>3. TypeOK
  BY DEF SharedInv, IInv
<1>4. \A l \in Links : \A x : UnderWay(toMaster'[l], x) => UnderWay(toMaster[l], x)
  <2>1. ASSUME NEW k \in Links, toMaster' = [toMaster EXCEPT ![k] = <<>>]
        PROVE  \A l \in Links : \A x : UnderWay(toMaster'[l], x) => UnderWay(toMaster[l], x)
    <3>1. \A l \in Links : toMaster'[l] = toMaster[l] \/ toMaster'[l] = <<>>
      BY ONLY <1>3, <2>1 DEF TypeOK
    <3> QED BY ONLY <3>1, NothingUnderWay
  <2>2. ASSUME NEW k \in Links, toMaster[k] # <<>>, toMaster' = [toMaster EXCEPT ![k] = Tail(@)]
        PROVE  \A l \in Links : \A x : UnderWay(toMaster'[l], x) => UnderWay(toMaster[l], x)
    BY ONLY <1>3, <2>2, TakenByMaster
  <2> QED BY <1>2, <2>1, <2>2
<1> QED BY ONLY PlaceInv, <1>1, <1>4, PlaceKept

\* Every step keeps PlaceInv.
LEMMA StepPlaceInv ==
  ASSUME SharedInv, PlaceInv, [Next]_vars
  PROVE  PlaceInv'
<1>1. CASE UNCHANGED vars
  <2>1. UNCHANGED <<node, side, machine, copy, owed, toMaster>>
    BY <1>1 DEF vars, masters, queues, reports, locals
  <2> QED BY ONLY PlaceInv, <2>1, PlaceKept
<1> SUFFICES ASSUME Next PROVE PlaceInv'
  BY <1>1
<1>2. ASSUME NEW h \in Handlers,
             HandlerStep(h) \/ \E c \in Codes : Connect(h, c) \/ Disconnect(h, c)
      PROVE  PlaceInv'
  <2>1. CASE Invite(h) /\ machine' # machine
    BY <2>1, PlaceInvite DEF Invite
  <2> QED BY <1>2, <2>1, PlaceMaster DEF HandlerStep
<1>3. ASSUME NEW c \in Codes, WatchStep(c) PROVE PlaceInv'
  BY <1>3, PlaceMaster DEF WatchStep
<1>4. ASSUME NEW l \in Links, LinkStep(l) \/ Break(l) PROVE PlaceInv'
  BY <1>4, PlaceMaster, PlaceNewConn DEF LinkStep
<1>5. ASSUME NEW n \in Nodes,
             \/ ClientStep(n) \/ Dial(n) \/ Crash(n)
             \/ \E m \in owed[n] : Send(n, m)
             \/ \E c \in Codes :
                  CopyStep(n, c) \/ CopyEnds(n, c) \/ \E r \in Roles : Arrive(n, c, r)
      PROVE  PlaceInv'
  BY <1>5, PlaceNode, PlaceDial, PlaceArrive
<1> QED BY <1>2, <1>3, <1>4, <1>5 DEF Next

\* The two machines of a session that is relayed are on one node, the one that the master
\* gave the session to: a machine comes only where a copy is, and the viewer is invited
\* only when NewConn of the other one was read.
THEOREM MachinesMeet == Spec => []PlaceInv
<1>1. Init => PlaceInv
  <2> SUFFICES ASSUME Init PROVE PlaceInv
    OBVIOUS
  <2> QED BY NothingUnderWay, ClusterAssumption DEF Init, PlaceInv, Threads
<1>2. SharedInv /\ PlaceInv /\ [Next]_vars => PlaceInv'
  BY StepPlaceInv
<1> QED BY <1>1, <1>2, SharedInvariant, PTL DEF Spec

\* A session that the master believes to be on a node is there as long as the link
\* holds, or its end is being told: the node that took it (AgentNewConn) never heard
\* AddCode again, and every way to lose the copy (End) owes DelCode.
THEOREM NodesServe == Spec => []NodeServes
<1>1. SharedInv => NodeServes
  BY DEF SharedInv, IInv, TypeOK, ServeInv, NodeServes, Claims
<1> QED BY <1>1, SharedInvariant, PTL

\* A node that goes on with a session which the master ended is the one the master had it
\* on, and hears of the end if neither its link breaks nor the message is lost - also of a
\* session that it took after it had left the map (AgentNewConn with a stale pair).
THEOREM EndsReachNodes == Spec => []EndReachesNode
<1>1. ASSUME SharedInv, PlaceInv, NEW n \in Nodes, NEW c \in Codes,
             copy[n][c] = "relaying", c \notin channels
      PROVE  \E l \in Links :
               /\ node[c] = l /\ side[l] = n
               /\ \/ ~up[l] \/ l \notin nodes
                  \/ UnderWay(toNode[l], Msg("del", c)) \/ c \in missedByNode[l]
                  \/ \E t \in Threads : WillTell(t, c, l)
  <2>1. TypeOK /\ InvitedInv /\ ReachInv
    BY <1>1 DEF SharedInv, IInv
  <2>2. machine[c]["server"] = n /\ machine[c]["viewer"] = n
    BY ONLY <1>1, n \in Nodes, c \in Codes DEF PlaceInv, Roles
  <2>3. node[c] # None
    BY ONLY <2>1, <2>2, n \in Nodes, c \in Codes, ClusterAssumption DEF InvitedInv
  <2>4. node[c] \in Links /\ side[node[c]] = n
    BY ONLY <1>1, <2>1, <2>2, <2>3, c \in Codes DEF PlaceInv, TypeOK
  <2> QED BY ONLY <1>1, <2>1, <2>4, c \in Codes DEF ReachInv
<1>2. SharedInv /\ PlaceInv => EndReachesNode
  BY <1>1 DEF EndReachesNode
<1> QED BY <1>2, SharedInvariant, MachinesMeet, PTL

\* Only a node to which a machine of a session came ends it: an unused copy is forgotten
\* (Reap) without a word, on whatever node and after whatever crash.
THEOREM OnlyUsersEndSessions == Spec => []OnlyUsersEnd
<1>1. ASSUME SharedInv, NEW c \in channels, NEW l \in Links, UnderWay(toMaster[l], Msg("del", c))
      PROVE  \E r \in Roles : machine[c][r] = side[l]
  <2>1. c \in Codes /\ side[l] \in Nodes
    <3>1. c \in Codes
      BY <1>1 DEF SharedInv, IInv, TypeOK
    <3>2. pc[l] # "off"
      BY <1>1, NothingUnderWay DEF SharedInv, LinkInv
    <3> QED BY <1>1, <3>1, <3>2 DEF SharedInv, IInv, LocalInv
  <2>2. Uses(side[l], c)
    BY <1>1 DEF Uses
  <2> QED BY <1>1, <2>1, <2>2 DEF SharedInv, UserInv
<1>2. SharedInv => OnlyUsersEnd
  BY <1>1 DEF OnlyUsersEnd
<1> QED BY <1>2, SharedInvariant, PTL
=============================================================================

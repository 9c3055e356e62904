---------------------------- MODULE RelayProofs ----------------------------
(***************************************************************************)
(* Proofs about Relay, for any numbers of codes, connections and handlers. *)
(***************************************************************************)
EXTENDS Relay, TLAPS

USE RelayAssumption DEF Threads

\* A server that starts, with no session and every goroutine idle, satisfies the invariant.
THEOREM InitIInv == Init => IInv
<1> SUFFICES ASSUME Init PROVE IInv
  OBVIOUS
<1> USE DEF Init, Empty, Members, Made, TearsDown
<1>1. TypeOK  BY DEF TypeOK, Label
<1>2. LocalInv  BY DEF LocalInv
<1>3. SeatInv  BY DEF SeatInv, Seated, Owing, Ending
<1>4. ReadyClosedOnce  BY DEF ReadyClosedOnce
<1>5. EndInv /\ EndedSessionHungUp  BY DEF EndInv, EndedSessionHungUp
<1>6. GuardInv /\ ReportInv  BY DEF GuardInv, ReportInv, Ending
<1>7. UnusedCopySilent /\ UsedCopyReported  BY DEF UnusedCopySilent, UsedCopyReported
<1> QED BY <1>1, <1>2, <1>3, <1>4, <1>5, <1>6, <1>7 DEF IInv

\* EndInv in a step that begins no teardown and leaves the codes being torn down alone.
LEMMA EndInvKept ==
  ASSUME EndInv,
         \A c \in channels' : Made(c)',
         \A c \in Codes : closed'[c] => Made(c)' /\ c \notin channels',
         \A t \in Threads, c \in Codes : TearsDown(t, c)' =>
           /\ TearsDown(t, c) /\ pc'[t] = pc[t] /\ links'[t] = links[t]
           /\ Made(c)' /\ c \notin channels' /\ closed'[c] = closed[c] /\ Members(c)' = Members(c)
  PROVE  EndInv'
  BY DEF EndInv

\* connectPeers in processConnect keeps the invariant: the new session has its timer.
LEMMA ConnectInv ==
  ASSUME IInv, NEW h \in Handlers, NEW c \in Codes, Connect(h, c)
  PROVE  IInv'
<1> USE DEF IInv, Connect, Goto, Empty, Members, Made, TearsDown, Owing, Ending, Seated
<1>0. \A t \in Threads, b \in Codes : TearsDown(t, b)' <=> TearsDown(t, b)
  BY DEF TypeOK, LocalInv, Label
<1>1. TypeOK'
  BY DEF TypeOK, Label
<1>2. LocalInv'
  BY DEF TypeOK, LocalInv
<1>3. SeatInv'
  BY DEF TypeOK, LocalInv, SeatInv
<1>4. ReadyClosedOnce'
  BY DEF TypeOK, LocalInv, SeatInv, ReadyClosedOnce, EndInv
<1>5. EndInv'
  <2>1. \A b \in channels' : Made(b)'  BY DEF TypeOK, EndInv
  <2>2. \A b \in Codes : closed'[b] => Made(b)' /\ b \notin channels'  BY DEF TypeOK, EndInv
  <2>3. ASSUME NEW t \in Threads, NEW b \in Codes, TearsDown(t, b)
        PROVE  b # c /\ pc'[t] = pc[t] /\ links'[t] = links[t]
    BY <2>3 DEF TypeOK, EndInv
  <2> HIDE DEF TearsDown
  <2> QED BY <1>0, <2>1, <2>2, <2>3 DEF TypeOK, EndInv
<1>6. EndedSessionHungUp'
  BY <1>0 DEF TypeOK, LocalInv, SeatInv, EndInv, EndedSessionHungUp
<1>7. GuardInv'
  BY <1>0 DEF TypeOK, LocalInv, SeatInv, EndInv, GuardInv
<1>8. ReportInv'
  BY <1>0 DEF TypeOK, LocalInv, SeatInv, EndInv, ReportInv
<1>9. UnusedCopySilent'
  BY <1>0 DEF TypeOK, LocalInv, SeatInv, ReportInv, UnusedCopySilent
<1>10. UsedCopyReported'
  BY <1>0 DEF TypeOK, LocalInv, SeatInv, EndInv, UsedCopyReported
<1> QED BY <1>1, <1>2, <1>3, <1>4, <1>5, <1>6, <1>7, <1>8, <1>9, <1>10

\* connectPeers for a code of the master keeps the invariant.
LEMMA AddCodeInv ==
  ASSUME IInv, NEW h \in Handlers, NEW c \in Codes, AddCode(h, c)
  PROVE  IInv'
<1> USE DEF IInv, AddCode, Goto, Empty, Members, Made, TearsDown, Owing, Ending, Seated
<1>0. \A t \in Threads, b \in Codes : TearsDown(t, b)' <=> TearsDown(t, b)
  BY DEF TypeOK, LocalInv, Label
<1>1. TypeOK'
  BY DEF TypeOK, Label
<1>2. LocalInv'
  BY DEF TypeOK, LocalInv
<1>3. SeatInv'
  BY DEF TypeOK, LocalInv, SeatInv
<1>4. ReadyClosedOnce'
  BY DEF TypeOK, LocalInv, SeatInv, ReadyClosedOnce, EndInv
<1>5. EndInv'
  BY <1>0 DEF TypeOK, LocalInv, SeatInv, EndInv
<1>6. EndedSessionHungUp'
  BY <1>0 DEF TypeOK, LocalInv, SeatInv, EndInv, EndedSessionHungUp
<1>7. GuardInv'
  BY <1>0 DEF TypeOK, LocalInv, SeatInv, EndInv, GuardInv
<1>8. ReportInv'
  BY <1>0 DEF TypeOK, LocalInv, SeatInv, EndInv, ReportInv
<1>9. UnusedCopySilent'
  BY <1>0 DEF TypeOK, LocalInv, SeatInv, ReportInv, UnusedCopySilent
<1>10. UsedCopyReported'
  BY <1>0 DEF TypeOK, LocalInv, SeatInv, EndInv, UsedCopyReported
<1> QED BY <1>1, <1>2, <1>3, <1>4, <1>5, <1>6, <1>7, <1>8, <1>9, <1>10

\* A handler that is asked for disconnectPeers, of whatever code, keeps the invariant.
LEMMA DisconnectInv ==
  ASSUME IInv, NEW h \in Handlers, NEW c \in Codes, Disconnect(h, c)
  PROVE  IInv'
<1> USE DEF IInv, Disconnect, Goto, Empty, Members, Made, TearsDown, Owing, Ending, Seated
<1>0. \A t \in Threads, b \in Codes : TearsDown(t, b)' <=> TearsDown(t, b)
  BY DEF TypeOK, LocalInv, Label
<1>1. TypeOK'
  BY DEF TypeOK, Label
<1>2. LocalInv'
  BY DEF TypeOK, LocalInv
<1>3. SeatInv'
  BY DEF TypeOK, LocalInv, SeatInv
<1>4. ReadyClosedOnce'
  BY DEF TypeOK, LocalInv, SeatInv, ReadyClosedOnce, EndInv
<1>5. EndInv'
  <2>1. \A b \in Codes : Made(b)' <=> Made(b)
    BY DEF TypeOK
  <2>2. \A t \in Threads, b \in Codes : TearsDown(t, b)' =>
          TearsDown(t, b) /\ pc'[t] = pc[t] /\ Made(b) /\ b \notin channels
    BY <1>0 DEF TypeOK, EndInv
  <2>3. \A b \in channels : b \in Codes /\ Made(b)
    BY DEF TypeOK, EndInv
  <2>4. \A b \in Codes : closed[b] => Made(b) /\ b \notin channels
    BY DEF EndInv
  <2>5. \A b \in Codes : Members(b)' = Members(b)
    OBVIOUS
  <2>6. channels' = channels /\ closed' = closed /\ links' = links
    OBVIOUS
  <2> HIDE DEF TearsDown, Made, Members, IInv, Disconnect
  <2> QED BY <2>1, <2>2, <2>3, <2>4, <2>5, <2>6, EndInvKept DEF IInv
<1>6. EndedSessionHungUp'
  BY <1>0 DEF TypeOK, LocalInv, SeatInv, EndInv, EndedSessionHungUp
<1>7. GuardInv'
  BY <1>0 DEF TypeOK, LocalInv, SeatInv, EndInv, GuardInv
<1>8. ReportInv'
  BY <1>0 DEF TypeOK, LocalInv, SeatInv, EndInv, ReportInv
<1>9. UnusedCopySilent'
  BY <1>0 DEF TypeOK, LocalInv, SeatInv, ReportInv, UnusedCopySilent
<1>10. UsedCopyReported'
  BY <1>0 DEF TypeOK, LocalInv, SeatInv, EndInv, UsedCopyReported
<1> QED BY <1>1, <1>2, <1>3, <1>4, <1>5, <1>6, <1>7, <1>8, <1>9, <1>10

\* A goroutine that goes on to a label before its disconnectPair keeps the invariant.
LEMMA MoveInv ==
  ASSUME IInv, NEW t \in Threads, NEW label \in Label, Goto(t, label),
         UNCHANGED <<channels, pointer, closed, ready, conn, session, index, links, asked, told>>,
         t \in Handlers => Mode = "Regular" /\ pc[t] = "invite" /\ label \in {"idle", "cad"},
         t \in Conns => pc[t] \in Owing /\ label \in Owing,
         t \in Codes => /\ pc[t] \in {"watch", "check"} /\ label \in {"check", "reap", "cad", "done"}
                        /\ label = "done" => t \notin channels \/ ~Empty(t, 0)
                        /\ label = "cad" /\ Mode = "Node" => ~Empty(t, 0)
  PROVE  IInv'
<1> USE DEF IInv, Goto, Goto, Empty, Members, Made, TearsDown, Owing, Ending, Seated
<1>0. \A u \in Threads, b \in Codes : TearsDown(u, b)' <=> TearsDown(u, b)
  BY DEF TypeOK, LocalInv, Label
<1>1. TypeOK'
  BY DEF TypeOK, Label
<1>2. LocalInv'
  BY DEF TypeOK, LocalInv
<1>3. SeatInv'
  BY DEF TypeOK, LocalInv, SeatInv
<1>4. ReadyClosedOnce'
  BY DEF TypeOK, LocalInv, SeatInv, ReadyClosedOnce, EndInv
<1>5. EndInv'
  BY <1>0 DEF TypeOK, LocalInv, SeatInv, EndInv
<1>6. EndedSessionHungUp'
  BY <1>0 DEF TypeOK, LocalInv, SeatInv, EndInv, EndedSessionHungUp
<1>7. GuardInv'
  BY <1>0 DEF TypeOK, LocalInv, SeatInv, EndInv, GuardInv
<1>8. ReportInv'
  BY <1>0 DEF TypeOK, LocalInv, SeatInv, EndInv, ReportInv
<1>9. UnusedCopySilent'
  BY <1>0 DEF TypeOK, LocalInv, SeatInv, ReportInv, UnusedCopySilent
<1>10. UsedCopyReported'
  BY <1>0 DEF TypeOK, LocalInv, SeatInv, EndInv, UsedCopyReported
<1> QED BY <1>1, <1>2, <1>3, <1>4, <1>5, <1>6, <1>7, <1>8, <1>9, <1>10

\* The critical section of disconnectPair keeps the invariant: `ready` is closed there
\* exactly when the second dataHandler did not.
LEMMA TeardownInv ==
  ASSUME IInv, NEW t \in Threads, Teardown(t)
  PROVE  IInv'
<1> USE DEF IInv, Teardown, CloseReady, Goto, Empty, Members, Made, TearsDown, Owing, Ending, Seated
<1>0. \A u \in Threads, b \in Codes : TearsDown(u, b)' <=> TearsDown(u, b)
  BY DEF TypeOK, LocalInv, Label
<1>1. TypeOK'
  BY DEF TypeOK, LocalInv, Label
<1>2. LocalInv'
  BY DEF TypeOK, LocalInv
<1>3. SeatInv'
  BY DEF TypeOK, LocalInv, SeatInv
<1>4. ReadyClosedOnce'
  BY DEF TypeOK, LocalInv, SeatInv, ReadyClosedOnce, EndInv
<1>5. EndInv'
  BY <1>0 DEF TypeOK, LocalInv, SeatInv, EndInv
<1>6. EndedSessionHungUp'
  BY <1>0 DEF TypeOK, LocalInv, SeatInv, EndInv, EndedSessionHungUp
<1>7. GuardInv'
  BY <1>0 DEF TypeOK, LocalInv, SeatInv, EndInv, GuardInv
<1>8. ReportInv'
  BY <1>0 DEF TypeOK, LocalInv, SeatInv, EndInv, ReportInv
<1>9. UnusedCopySilent'
  BY <1>0 DEF TypeOK, LocalInv, SeatInv, ReportInv, UnusedCopySilent
<1>10. UsedCopyReported'
  BY <1>0 DEF TypeOK, LocalInv, SeatInv, EndInv, UsedCopyReported
<1> QED BY <1>1, <1>2, <1>3, <1>4, <1>5, <1>6, <1>7, <1>8, <1>9, <1>10

\* disconnectPair, which closes the connections and reports, keeps the invariant: after
\* it nothing of the session is left open.
LEMMA HangupInv ==
  ASSUME IInv, NEW t \in Threads, Hangup(t)
  PROVE  IInv'
<1> USE DEF IInv, Hangup, Exit, Close, Own, Goto, Empty, Members, Made, TearsDown, Owing, Ending, Seated
<1>1. TypeOK'
  BY DEF TypeOK, LocalInv, Label
<1>2. LocalInv'
  <2>1. \A d \in Conns : d \in links[t] \cup Own(t) => pc[d] # "join"
    BY DEF TypeOK, LocalInv, SeatInv, EndInv
  <2>2. \A d \in Conns : pc'[d] = "join" => pc[d] = "join" /\ d # t
    BY DEF TypeOK
  <2> QED BY <2>1, <2>2 DEF TypeOK, LocalInv
<1>3. SeatInv'
  BY DEF TypeOK, LocalInv, SeatInv
<1>4. ReadyClosedOnce'
  BY DEF TypeOK, LocalInv, SeatInv, ReadyClosedOnce, EndInv
<1>5. EndInv'
  BY DEF TypeOK, LocalInv, SeatInv, EndInv
<1>6. EndedSessionHungUp'
  BY DEF TypeOK, LocalInv, SeatInv, EndInv, EndedSessionHungUp
<1>7. GuardInv'
  BY DEF TypeOK, LocalInv, SeatInv, EndInv, GuardInv
<1>8. ReportInv'
  BY DEF TypeOK, LocalInv, SeatInv, EndInv, ReportInv
<1>9. UnusedCopySilent'
  BY DEF TypeOK, LocalInv, SeatInv, ReportInv, UnusedCopySilent
<1>10. UsedCopyReported'
  BY DEF TypeOK, LocalInv, SeatInv, EndInv, UsedCopyReported
<1> QED BY <1>1, <1>2, <1>3, <1>4, <1>5, <1>6, <1>7, <1>8, <1>9, <1>10

\* CompareAndDelete keeps the invariant: one goroutine at most goes on to tear down.
LEMMA CompareAndDeleteInv ==
  ASSUME IInv, NEW t \in Threads, CompareAndDelete(t)
  PROVE  IInv'
<1> USE DEF IInv, CompareAndDelete, Exit, Close, Own, Goto, Empty, Members, Made, TearsDown, Owing, Ending, Seated
<1>1. TypeOK'
  BY DEF TypeOK, Label
<1>2. LocalInv'
  BY DEF TypeOK, LocalInv
<1>3. SeatInv'
  BY DEF TypeOK, LocalInv, SeatInv
<1>4. ReadyClosedOnce'
  BY DEF TypeOK, LocalInv, SeatInv, ReadyClosedOnce, EndInv
<1>5. EndInv'
  <2>1. CASE session[t] \in channels
    <3>1. \A b \in channels' : Made(b)'  BY <2>1 DEF TypeOK, EndInv
    <3>2. \A b \in Codes : closed'[b] => Made(b)' /\ b \notin channels'  BY <2>1 DEF TypeOK, EndInv
    <3>3. ASSUME NEW u \in Threads, NEW b \in Codes, TearsDown(u, b)'
          PROVE  \/ u = t /\ b = session[t] /\ pc'[u] = "teardown"
                 \/ TearsDown(u, b) /\ b # session[t] /\ pc'[u] = pc[u]
      BY <2>1, <3>3 DEF TypeOK, EndInv
    <3>4. \A b \in Codes : b = session[t] =>
            /\ Made(b)' /\ b \notin channels' /\ ~closed'[b]
            /\ \A u \in Threads : ~TearsDown(u, b)
      BY <2>1 DEF TypeOK, LocalInv, EndInv
    <3>5. \A u \in Threads, b \in Codes : TearsDown(u, b) =>
            /\ Made(b)' /\ b \notin channels' /\ closed'[b] = closed[b]
            /\ links'[u] = links[u] /\ Members(b)' = Members(b)
      BY <2>1 DEF TypeOK, EndInv
    <3>6. ASSUME NEW u \in Threads, NEW b \in Codes, TearsDown(u, b)'
          PROVE  /\ Made(b)' /\ b \notin channels'
                 /\ pc'[u] = "teardown" => ~closed'[b]
                 /\ pc'[u] = "hangup" => closed'[b] /\ links'[u] = Members(b)'
                 /\ \A v \in Threads : TearsDown(v, b)' => v = u
      <4> HIDE DEF TearsDown, Made, Members, CompareAndDelete, Goto
      <4>1. CASE b = session[t]
        BY <3>3, <3>4, <3>6, <4>1
      <4>2. CASE b # session[t]
        BY <3>3, <3>5, <3>6, <4>2 DEF EndInv
      <4> QED BY <4>1, <4>2
    <3> HIDE DEF TearsDown, Made, Members, CompareAndDelete, IInv
    <3> QED BY <3>1, <3>2, <3>6 DEF EndInv
  <2>2. CASE session[t] \notin channels
    <3>1. \A u \in Threads, b \in Codes : TearsDown(u, b)' <=> TearsDown(u, b)
      BY <2>2 DEF TypeOK, LocalInv, Label
    <3> QED BY <2>2, <3>1 DEF TypeOK, LocalInv, EndInv
  <2> QED BY <2>1, <2>2
<1>6. EndedSessionHungUp'
  BY DEF TypeOK, LocalInv, SeatInv, EndInv, EndedSessionHungUp
<1>7. GuardInv'
  <2>1. \A c \in channels' : c \in channels /\ c # session[t]
    OBVIOUS
  <2>2. \A c \in channels' : t \notin Members(c) /\ t # c
    BY <2>1 DEF TypeOK, LocalInv, SeatInv
  <2>3. \A c \in channels' : Members(c)' = Members(c) /\ Members(c) \subseteq Conns
    BY <2>1 DEF TypeOK
  <2>4. \A u \in Threads : u # t => pc'[u] = pc[u]
    BY DEF TypeOK
  <2>5. pointer' = pointer
    OBVIOUS
  <2> HIDE DEF CompareAndDelete, Members
  <2> QED BY <2>1, <2>2, <2>3, <2>4, <2>5 DEF TypeOK, GuardInv
<1>8. ReportInv'
  BY DEF TypeOK, LocalInv, SeatInv, EndInv, ReportInv
<1>9. UnusedCopySilent'
  BY DEF TypeOK, LocalInv, SeatInv, ReportInv, UnusedCopySilent
<1>10. UsedCopyReported'
  BY DEF TypeOK, LocalInv, SeatInv, EndInv, UsedCopyReported
<1> QED BY <1>1, <1>2, <1>3, <1>4, <1>5, <1>6, <1>7, <1>8, <1>9, <1>10

\* The critical section of checkConnection on a node keeps the invariant: a code that
\* is forgotten has no member.
LEMMA ReapInv ==
  ASSUME IInv, NEW c \in Codes, Reap(c)
  PROVE  IInv'
<1> USE DEF IInv, Reap, CloseReady, Goto, Empty, Members, Made, TearsDown, Owing, Ending, Seated
<1>0. \A t \in Threads, b \in Codes : TearsDown(t, b)' <=> TearsDown(t, b)
  BY DEF TypeOK, LocalInv, Label
<1>1. TypeOK'
  <2>1. channels' \in SUBSET Codes  BY DEF TypeOK
  <2>2. closed' \in [Codes -> BOOLEAN]  BY DEF TypeOK
  <2>3. ready' \in [Codes -> Nat]  BY DEF TypeOK
  <2>4. pc' \in [Threads -> Label]  BY DEF TypeOK, Label
  <2> QED BY <2>1, <2>2, <2>3, <2>4 DEF TypeOK
<1>2. LocalInv'
  BY DEF TypeOK, LocalInv
<1>3. SeatInv'
  BY DEF TypeOK, LocalInv, SeatInv
<1>4. ReadyClosedOnce'
  BY DEF TypeOK, LocalInv, SeatInv, ReadyClosedOnce, EndInv
<1>5. EndInv'
  BY <1>0 DEF TypeOK, LocalInv, SeatInv, EndInv
<1>6. EndedSessionHungUp'
  BY <1>0 DEF TypeOK, LocalInv, SeatInv, EndInv, EndedSessionHungUp
<1>7. GuardInv'
  BY <1>0 DEF TypeOK, LocalInv, SeatInv, EndInv, GuardInv
<1>8. ReportInv'
  BY <1>0 DEF TypeOK, LocalInv, SeatInv, EndInv, ReportInv
<1>9. UnusedCopySilent'
  BY <1>0 DEF TypeOK, LocalInv, SeatInv, ReportInv, UnusedCopySilent
<1>10. UsedCopyReported'
  BY <1>0 DEF TypeOK, LocalInv, SeatInv, EndInv, UsedCopyReported
<1> QED BY <1>1, <1>2, <1>3, <1>4, <1>5, <1>6, <1>7, <1>8, <1>9, <1>10

\* A dataHandler that is refused a code or a seat keeps the invariant: it leaves alone.
LEMMA LeaveInv ==
  ASSUME IInv, NEW d \in Conns, pc[d] \in {"idle", "join"}, Goto(d, "done"), Close({d}),
         UNCHANGED <<channels, pointer, closed, ready, session, index, links, asked, told>>
  PROVE  IInv'
<1> USE DEF IInv, Close, Goto, Empty, Members, Made, TearsDown, Owing, Ending, Seated
<1>0. \A t \in Threads, b \in Codes : TearsDown(t, b)' <=> TearsDown(t, b)
  BY DEF TypeOK, LocalInv, Label
<1>1. TypeOK'
  BY DEF TypeOK, LocalInv, Label
<1>2. LocalInv'
  BY DEF TypeOK, LocalInv
<1>3. SeatInv'
  BY DEF TypeOK, LocalInv, SeatInv
<1>4. ReadyClosedOnce'
  BY DEF TypeOK, LocalInv, SeatInv, ReadyClosedOnce, EndInv
<1>5. EndInv'
  BY <1>0 DEF TypeOK, LocalInv, SeatInv, EndInv
<1>6. EndedSessionHungUp'
  BY <1>0 DEF TypeOK, LocalInv, SeatInv, EndInv, EndedSessionHungUp
<1>7. GuardInv'
  BY <1>0 DEF TypeOK, LocalInv, SeatInv, EndInv, GuardInv
<1>8. ReportInv'
  BY <1>0 DEF TypeOK, LocalInv, SeatInv, EndInv, ReportInv
<1>9. UnusedCopySilent'
  BY <1>0 DEF TypeOK, LocalInv, SeatInv, ReportInv, UnusedCopySilent
<1>10. UsedCopyReported'
  BY <1>0 DEF TypeOK, LocalInv, SeatInv, EndInv, UsedCopyReported
<1> QED BY <1>1, <1>2, <1>3, <1>4, <1>5, <1>6, <1>7, <1>8, <1>9, <1>10

\* A dataHandler that finds its code in `channels` keeps the invariant.
LEMMA FoundInv ==
  ASSUME IInv, NEW d \in Conns, NEW c \in channels, pc[d] = "idle", Goto(d, "join"),
         session' = [session EXCEPT ![d] = c], conn' = [conn EXCEPT ![d] = "open"],
         UNCHANGED <<channels, pointer, closed, ready, index, links, asked, told>>
  PROVE  IInv'
<1> USE DEF IInv, Goto, Goto, Empty, Members, Made, TearsDown, Owing, Ending, Seated
<1>0. \A t \in Threads, b \in Codes : TearsDown(t, b)' <=> TearsDown(t, b)
  BY DEF TypeOK, LocalInv, Label
<1>1. TypeOK'
  BY DEF TypeOK, LocalInv, Label
<1>2. LocalInv'
  BY DEF TypeOK, LocalInv, EndInv
<1>3. SeatInv'
  BY DEF TypeOK, LocalInv, SeatInv
<1>4. ReadyClosedOnce'
  BY DEF TypeOK, LocalInv, SeatInv, ReadyClosedOnce, EndInv
<1>5. EndInv'
  <2>1. \A b \in Codes : Made(b)' <=> Made(b)
    BY DEF TypeOK
  <2>2. \A t \in Threads, b \in Codes : TearsDown(t, b)' =>
          TearsDown(t, b) /\ pc'[t] = pc[t] /\ Made(b) /\ b \notin channels
    BY <1>0 DEF TypeOK, EndInv
  <2>3. \A b \in channels : b \in Codes /\ Made(b)
    BY DEF TypeOK, EndInv
  <2>4. \A b \in Codes : closed[b] => Made(b) /\ b \notin channels
    BY DEF EndInv
  <2>5. \A b \in Codes : Members(b)' = Members(b)
    OBVIOUS
  <2>6. channels' = channels /\ closed' = closed /\ links' = links
    OBVIOUS
  <2> HIDE DEF TearsDown, Made, Members, IInv, Goto
  <2> QED BY <2>1, <2>2, <2>3, <2>4, <2>5, <2>6, EndInvKept DEF IInv
<1>6. EndedSessionHungUp'
  <2>1. \A b \in Codes : Made(b)' <=> Made(b)  BY DEF TypeOK
  <2>2. \A b \in Codes : \A e \in Members(b) : e \in Conns /\ e # d  BY DEF TypeOK, SeatInv
  <2>3. \A e \in Conns : e # d => conn'[e] = conn[e]  BY DEF TypeOK
  <2> HIDE DEF TearsDown, Made
  <2> QED BY <1>0, <2>1, <2>2, <2>3 DEF TypeOK, EndedSessionHungUp
<1>7. GuardInv'
  BY <1>0 DEF TypeOK, LocalInv, SeatInv, EndInv, GuardInv
<1>8. ReportInv'
  BY <1>0 DEF TypeOK, LocalInv, SeatInv, EndInv, ReportInv
<1>9. UnusedCopySilent'
  BY <1>0 DEF TypeOK, LocalInv, SeatInv, ReportInv, UnusedCopySilent
<1>10. UsedCopyReported'
  BY <1>0 DEF TypeOK, LocalInv, SeatInv, EndInv, UsedCopyReported
<1> QED BY <1>1, <1>2, <1>3, <1>4, <1>5, <1>6, <1>7, <1>8, <1>9, <1>10

\* A dataHandler that takes a seat keeps the invariant: the pair is open, so it owes the
\* disconnectPair that the session needs.
LEMMA SeatedInv ==
  ASSUME IInv, NEW d \in Conns, NEW seat \in {0, 1}, NEW c \in Codes,
         pc[d] = "join", c = session[d], ~closed[c], Empty(c, 1), seat = IF Empty(c, 0) THEN 0 ELSE 1,
         pointer' = [pointer EXCEPT ![c][seat] = d],
         index' = [index EXCEPT ![d] = seat],
         IF seat = 1 THEN CloseReady(c) ELSE UNCHANGED ready,
         Goto(d, IF seat = 0 THEN "announce" ELSE "wait"),
         UNCHANGED <<channels, closed, conn, session, links, asked, told>>
  PROVE  IInv'
<1> USE DEF IInv, CloseReady, Goto, Empty, Members, Made, TearsDown, Owing, Ending, Seated
<1>0. \A t \in Threads, b \in Codes : TearsDown(t, b)' <=> TearsDown(t, b)
  BY DEF TypeOK, LocalInv, Label
<1>1. TypeOK'
  BY DEF TypeOK, LocalInv, Label
<1>2. LocalInv'
  BY DEF TypeOK, LocalInv
<1>3. SeatInv'
  BY DEF TypeOK, LocalInv, SeatInv
<1>4. ReadyClosedOnce'
  BY DEF TypeOK, LocalInv, SeatInv, ReadyClosedOnce, EndInv
<1>5. EndInv'
  BY <1>0 DEF TypeOK, LocalInv, SeatInv, EndInv
<1>6. EndedSessionHungUp'
  BY <1>0 DEF TypeOK, LocalInv, SeatInv, EndInv, EndedSessionHungUp
<1>7. GuardInv'
  BY <1>0 DEF TypeOK, LocalInv, SeatInv, EndInv, GuardInv
<1>8. ReportInv'
  BY <1>0 DEF TypeOK, LocalInv, SeatInv, EndInv, ReportInv
<1>9. UnusedCopySilent'
  BY <1>0 DEF TypeOK, LocalInv, SeatInv, ReportInv, UnusedCopySilent
<1>10. UsedCopyReported'
  <2>1. \A b \in Codes : Made(b)' <=> Made(b)  BY DEF TypeOK
  <2>2. \A b \in Codes : b # c => pointer'[b] = pointer[b]  BY DEF TypeOK
  <2> HIDE DEF TearsDown, Made
  <2> QED BY <1>0, <2>1, <2>2 DEF TypeOK, EndedSessionHungUp, UsedCopyReported
<1> QED BY <1>1, <1>2, <1>3, <1>4, <1>5, <1>6, <1>7, <1>8, <1>9, <1>10

\* A peer that ends its connection keeps the invariant, at whatever moment it does.
LEMMA PeerLeavesInv ==
  ASSUME IInv, NEW d \in Conns, PeerLeaves(d)
  PROVE  IInv'
<1> USE DEF IInv, PeerLeaves, Goto, Empty, Members, Made, TearsDown, Owing, Ending, Seated
<1>0. \A t \in Threads, b \in Codes : TearsDown(t, b)' <=> TearsDown(t, b)
  BY DEF TypeOK, LocalInv, Label
<1>1. TypeOK'
  BY DEF TypeOK, Label
<1>2. LocalInv'
  BY DEF TypeOK, LocalInv
<1>3. SeatInv'
  BY DEF TypeOK, LocalInv, SeatInv
<1>4. ReadyClosedOnce'
  BY DEF TypeOK, LocalInv, SeatInv, ReadyClosedOnce, EndInv
<1>5. EndInv'
  BY <1>0 DEF TypeOK, LocalInv, SeatInv, EndInv
<1>6. EndedSessionHungUp'
  BY <1>0 DEF TypeOK, LocalInv, SeatInv, EndInv, EndedSessionHungUp
<1>7. GuardInv'
  BY <1>0 DEF TypeOK, LocalInv, SeatInv, EndInv, GuardInv
<1>8. ReportInv'
  BY <1>0 DEF TypeOK, LocalInv, SeatInv, EndInv, ReportInv
<1>9. UnusedCopySilent'
  BY <1>0 DEF TypeOK, LocalInv, SeatInv, ReportInv, UnusedCopySilent
<1>10. UsedCopyReported'
  BY <1>0 DEF TypeOK, LocalInv, SeatInv, EndInv, UsedCopyReported
<1> QED BY <1>1, <1>2, <1>3, <1>4, <1>5, <1>6, <1>7, <1>8, <1>9, <1>10

\* Both outcomes of channels.Load in dataHandler keep the invariant.
LEMMA DialInv ==
  ASSUME IInv, NEW d \in Conns, NEW c \in Codes, Dial(d, c)
  PROVE  IInv'
<1>1. CASE c \in channels
  BY <1>1, FoundInv DEF Dial, Goto
<1>2. CASE c \notin channels
  BY <1>2, LeaveInv DEF Dial
<1> QED BY <1>1, <1>2

\* Both outcomes of the critical section of dataHandler keep the invariant.
LEMMA JoinInv ==
  ASSUME IInv, NEW d \in Conns, Join(d)
  PROVE  IInv'
<1>1. session[d] \in Codes
  BY DEF IInv, TypeOK, LocalInv, Join
<1>2. CASE Refused(session[d])
  <2>1. Goto(d, "done")
    BY <1>2 DEF Join, Exit
  <2> QED BY <1>2, <2>1, LeaveInv DEF Join
<1>3. CASE ~Refused(session[d])
  <2> DEFINE seat == IF Empty(session[d], 0) THEN 0 ELSE 1
  <2>1. seat \in {0, 1}
    OBVIOUS
  <2>2. /\ pc[d] = "join" /\ ~closed[session[d]] /\ Empty(session[d], 1)
        /\ pointer' = [pointer EXCEPT ![session[d]][seat] = d]
        /\ index' = [index EXCEPT ![d] = seat]
        /\ IF seat = 1 THEN CloseReady(session[d]) ELSE UNCHANGED ready
        /\ Goto(d, IF seat = 0 THEN "announce" ELSE "wait")
        /\ UNCHANGED <<channels, closed, conn, session, links, asked, told>>
    BY <1>3 DEF Join, Refused
  <2> HIDE DEF seat
  <2>3. seat = IF Empty(session[d], 0) THEN 0 ELSE 1
    BY DEF seat
  <2> QED BY <1>1, <2>1, <2>2, <2>3, SeatedInv
<1> QED BY <1>2, <1>3

\* The steps of select, of the read sections and of io.CopyBuffer keep the invariant:
\* they only move a goroutine on.
LEMMA MovesInv ==
  ASSUME IInv,
         \/ \E h \in Handlers : Invite(h)
         \/ \E c \in Codes : WatchReady(c) \/ WatchTimeout(c) \/ Check(c)
         \/ \E d \in Conns : \/ Announce(d) \/ WaitReady(d) \/ WaitTimeout(d) \/ Look(d)
                             \/ CopyEnds(d) \/ WriteFails(d)
  PROVE  IInv'
<1>1. ASSUME NEW h \in Handlers, Invite(h) PROVE IInv'
  <2>1. Mode = "Regular"
    BY <1>1, RelayAssumption DEF Invite, IInv, ReportInv
  <2>2. PICK label \in {"idle", "cad"} : Goto(h, label)
    BY <1>1 DEF Invite
  <2> QED BY <1>1, <2>1, <2>2, MoveInv DEF Invite, Label
<1>2. ASSUME NEW c \in Codes, WatchReady(c) PROVE IInv'
  <2>1. c \notin channels \/ ~Empty(c, 0)
    BY <1>2 DEF IInv, TypeOK, SeatInv, ReadyClosedOnce, EndInv, WatchReady
  <2> QED BY <1>2, <2>1, MoveInv DEF WatchReady, Label
<1>3. ASSUME NEW c \in Codes, WatchTimeout(c) PROVE IInv'
  BY <1>3, MoveInv DEF WatchTimeout, Label
<1>4. ASSUME NEW c \in Codes, Check(c) PROVE IInv'
  <2>1. ~Expired(c) => c \notin channels \/ ~Empty(c, 0)
    BY DEF IInv, EndInv, Expired
  <2>2. ~Unused(c) => ~Empty(c, 0)
    BY DEF IInv, SeatInv, Unused
  <2>3. PICK label \in {"done", "reap", "cad"} :
          /\ Goto(c, label)
          /\ label = "done" => ~Expired(c)
          /\ label = "cad" /\ Mode = "Node" => ~Unused(c)
    BY <1>4 DEF Check
  <2> QED BY <1>4, <2>1, <2>2, <2>3, MoveInv DEF Check, Label
<1>5. ASSUME NEW d \in Conns,
             Announce(d) \/ WaitReady(d) \/ WaitTimeout(d) \/ Look(d) \/ CopyEnds(d) \/ WriteFails(d)
      PROVE  IInv'
  <2>1. PICK label \in Owing : Goto(d, label)
    BY <1>5 DEF Announce, WaitReady, WaitTimeout, Look, CopyEnds, WriteFails, Owing
  <2>2. /\ pc[d] \in Owing
        /\ UNCHANGED <<channels, pointer, closed, ready, conn, session, index, links, asked, told>>
    BY <1>5 DEF Announce, WaitReady, WaitTimeout, Look, CopyEnds, WriteFails, Owing
  <2> QED BY <2>1, <2>2, MoveInv DEF Owing, Label
<1> QED BY <1>1, <1>2, <1>3, <1>4, <1>5

\* Every step of every goroutine keeps the invariant.
THEOREM StepInv == IInv /\ [Next]_vars => IInv'
<1> SUFFICES ASSUME IInv, [Next]_vars PROVE IInv'
  OBVIOUS
<1>1. ASSUME NEW t \in Threads, DisconnectPair(t) PROVE IInv'
  BY <1>1, CompareAndDeleteInv, TeardownInv, HangupInv DEF DisconnectPair
<1>2. ASSUME NEW h \in Handlers, HandlerStep(h) PROVE IInv'
  BY <1>1, <1>2, MovesInv DEF HandlerStep
<1>3. ASSUME NEW c \in Codes, WatchStep(c) PROVE IInv'
  BY <1>1, <1>3, MovesInv, ReapInv DEF WatchStep
<1>4. ASSUME NEW d \in Conns, ConnStep(d) \/ WriteFails(d) \/ PeerLeaves(d) PROVE IInv'
  BY <1>1, <1>4, MovesInv, JoinInv, PeerLeavesInv DEF ConnStep
<1>5. ASSUME NEW h \in Handlers, NEW c \in Codes, Connect(h, c) \/ AddCode(h, c) \/ Disconnect(h, c)
      PROVE  IInv'
  BY <1>5, ConnectInv, AddCodeInv, DisconnectInv
<1>6. ASSUME NEW d \in Conns, NEW c \in Codes, Dial(d, c) PROVE IInv'
  BY <1>6, DialInv
<1>7. CASE UNCHANGED vars
  BY <1>7 DEF vars, IInv, TypeOK, LocalInv, SeatInv, ReadyClosedOnce, EndInv, EndedSessionHungUp,
       GuardInv, ReportInv, UnusedCopySilent, UsedCopyReported, Made, TearsDown, Empty, Members
<1> QED BY <1>2, <1>3, <1>4, <1>5, <1>6, <1>7 DEF Next

\* The invariant holds in every state that the server can reach.
THEOREM RelayInvariant == Spec => []IInv
  BY InitIInv, StepInv, PTL DEF Spec

\* The variables of Relay keep their types: a goroutine past its first step knows its
\* code, and no nil pointer is among the connections that disconnectPair closes.
THEOREM TypeCorrect == Spec => []TypeOK
<1>1. IInv => TypeOK
  BY DEF IInv
<1> QED BY <1>1, RelayInvariant, PTL

\* dConn.ready is closed once, by the second dataHandler, by disconnectPair or by
\* checkConnection, whichever comes first.
THEOREM ReadyNeverClosedTwice == Spec => []ReadyClosedOnce
<1>1. IInv => ReadyClosedOnce
  BY DEF IInv
<1> QED BY <1>1, RelayInvariant, PTL

\* Every session in `channels` has a goroutine that will remove it.
THEOREM SessionsAreGuarded == Spec => []NoOrphanSession
<1>1. ASSUME IInv, NEW c \in channels
      PROVE  \/ pc[c] \in {"watch", "check", "reap", "cad"}
             \/ \E d \in Members(c) : pc[d] \in Owing
  <2>1. CASE Empty(c, 0)
    BY <1>1, <2>1 DEF IInv, GuardInv
  <2>2. CASE ~Empty(c, 0)
    <3>1. pointer[c][0] \in Members(c)
      BY <2>2 DEF Empty, Members
    <3> QED BY <1>1, <3>1 DEF IInv, GuardInv
  <2> QED BY <2>1, <2>2
<1>2. IInv => NoOrphanSession
  BY <1>1 DEF NoOrphanSession
<1> QED BY <1>2, RelayInvariant, PTL

\* A session that is out of `channels` and torn down has no open connection.
THEOREM EndingsAreComplete == Spec => []EndedSessionHungUp
<1>1. IInv => EndedSessionHungUp
  BY DEF IInv
<1> QED BY <1>1, RelayInvariant, PTL

\* A node reports a code that nobody used only if it was asked to disconnect it.
THEOREM UnusedCopiesAreSilent == Spec => []UnusedCopySilent
<1>1. IInv => UnusedCopySilent
  BY DEF IInv
<1> QED BY <1>1, RelayInvariant, PTL

\* A node reports every code that a peer used once the session has ended.
THEOREM UsedCopiesAreReported == Spec => []UsedCopyReported
<1>1. IInv => UsedCopyReported
  BY DEF IInv
<1> QED BY <1>1, RelayInvariant, PTL

(***************************************************************************)
(* The goroutines of Relay implement Session: initial states map to        *)
(* initial states, and every step maps to a step of Session or a stutter.  *)
(***************************************************************************)

Joined == {d \in Conns : conn[d] = "closed" /\ \E c \in Codes : d \in Members(c)}
Copying == {d \in Conns : pc[d] = "copy"}
Seats == [c \in Codes |-> Members(c)]

\* The refinement mapping as one tuple.
mapped == <<Phase, Seats, Copying, Joined>>

\* The mapped state is the tuple of the variables of Session.
LEMMA MapIsAbstractVars == mapped = Abstract!vars
  BY DEF mapped, Abstract!vars, Seats, Copying, Joined

\* A server with no session is what Session starts with.
LEMMA InitMaps == Init => Abstract!Init
<1> SUFFICES ASSUME Init PROVE Abstract!Init
  OBVIOUS
<1>1. Phase = [c \in Codes |-> "absent"]
  BY DEF Init, Phase, Made
<1>2. Seats = [c \in Codes |-> {}]
  BY DEF Init, Seats, Members
<1>3. Copying = {} /\ Joined = {}
  BY DEF Init, Copying, Joined
<1> QED BY <1>1, <1>2, <1>3 DEF Abstract!Init, Seats, Copying, Joined

\* One session changes its phase.
LEMMA PhaseSet ==
  ASSUME NEW c \in Codes, NEW p, Phase'[c] = p, \A b \in Codes \ {c} : Phase'[b] = Phase[b]
  PROVE  Phase' = [Phase EXCEPT ![c] = p]
  BY DEF Phase

\* A step that moves goroutines without changing what Session sees.
LEMMA StutterMaps ==
  ASSUME TypeOK, TypeOK',
         UNCHANGED <<channels, pointer, closed>>,
         \A c \in Codes : Made(c)' <=> Made(c),
         \A d \in Conns : (pc'[d] = "copy") <=> (pc[d] = "copy"),
         \A d \in Conns : (\E c \in Codes : d \in Members(c)) =>
                            ((conn'[d] = "closed") <=> (conn[d] = "closed"))
  PROVE  UNCHANGED Abstract!vars
<1>1. Phase' = Phase
  BY DEF Phase
<1>2. Seats' = Seats
  BY DEF Seats, Members
<1>3. Copying' = Copying
  BY DEF Copying
<1>4. Joined' = Joined
  BY DEF Joined, Members
<1> QED BY <1>1, <1>2, <1>3, <1>4 DEF Abstract!vars, Seats, Copying, Joined

\* The actions that Session does not see.
LEMMA MovesMap ==
  ASSUME IInv, IInv',
         \/ \E h \in Handlers : Invite(h)
         \/ \E h \in Handlers, c \in Codes : Disconnect(h, c)
         \/ \E c \in Codes : WatchReady(c) \/ WatchTimeout(c) \/ Check(c)
         \/ \E d \in Conns : Announce(d) \/ WaitReady(d) \/ WaitTimeout(d) \/ PeerLeaves(d)
         \/ \E d \in Conns, c \in Codes : Dial(d, c)
  PROVE  UNCHANGED Abstract!vars
<1> USE DEF Goto, Made, Members
<1>1. ASSUME NEW h \in Handlers, Invite(h) PROVE UNCHANGED Abstract!vars
  BY <1>1, StutterMaps DEF Invite, IInv, TypeOK
<1>2. ASSUME NEW h \in Handlers, NEW c \in Codes, Disconnect(h, c) PROVE UNCHANGED Abstract!vars
  BY <1>2, StutterMaps DEF Disconnect, IInv, TypeOK
<1>3. ASSUME NEW c \in Codes, WatchReady(c) \/ WatchTimeout(c) \/ Check(c)
      PROVE  UNCHANGED Abstract!vars
  BY <1>3, StutterMaps DEF WatchReady, WatchTimeout, Check, IInv, TypeOK
<1>4. ASSUME NEW d \in Conns, Announce(d) \/ WaitReady(d) \/ WaitTimeout(d)
      PROVE  UNCHANGED Abstract!vars
  BY <1>4, StutterMaps DEF Announce, WaitReady, WaitTimeout, IInv, TypeOK
<1>5. ASSUME NEW d \in Conns, PeerLeaves(d) PROVE UNCHANGED Abstract!vars
  BY <1>5, StutterMaps DEF PeerLeaves, IInv, TypeOK
<1>6. ASSUME NEW d \in Conns, NEW c \in Codes, Dial(d, c) PROVE UNCHANGED Abstract!vars
  <2>1. \A b \in Codes : d \notin Members(b)
    <3>1. pc[d] = "idle"
      BY <1>6 DEF Dial
    <3>2. \A b \in Codes, i \in {0, 1} : pointer[b][i] # d
      BY <3>1 DEF IInv, SeatInv, Empty, Seated, Owing, Ending
    <3> QED BY <3>2
  <2>2. /\ \A e \in Conns \ {d} : conn'[e] = conn[e]
        /\ pc[d] = "idle" /\ pc'[d] # "copy" /\ \A t \in Threads \ {d} : pc'[t] = pc[t]
        /\ UNCHANGED <<channels, pointer, closed>>
    BY <1>6 DEF Dial, Close, IInv, TypeOK
  <2> QED BY <2>1, <2>2, StutterMaps DEF IInv
<1> QED BY <1>1, <1>2, <1>3, <1>4, <1>5, <1>6

\* connectPeers opens the session.
LEMMA MakeMaps ==
  ASSUME IInv, NEW h \in Handlers, NEW c \in Codes, Connect(h, c) \/ AddCode(h, c)
  PROVE  Abstract!Open(c)
<1> USE DEF IInv, TypeOK, Connect, AddCode, Goto
<1>1. Phase[c] = "absent" /\ Phase' = [Phase EXCEPT ![c] = "open"]
  <2>1. Phase[c] = "absent" /\ Phase'[c] = "open"
    BY DEF Phase, Made
  <2>2. \A b \in Codes \ {c} : (Made(b)' <=> Made(b)) /\ (b \in channels' <=> b \in channels)
    BY DEF Made
  <2>3. \A b \in Codes \ {c} : Phase'[b] = Phase[b]
    BY <2>2 DEF Phase
  <2> QED BY <2>1, <2>3, PhaseSet
<1>2. Seats' = Seats
  BY DEF Seats, Members
<1>3. Copying' = Copying
  BY DEF Copying
<1>4. Joined' = Joined
  BY DEF Joined, Members
<1> QED BY <1>1, <1>2, <1>3, <1>4 DEF Abstract!Open, Seats, Copying, Joined

\* Closing connections of sessions that are over is a step of Session.
LEMMA HangUpIsNext ==
  ASSUME NEW c \in Codes, NEW S, S \subseteq Members(c), Abstract!HangUp(c, S)
  PROVE  Abstract!Next
<1>1. S \in SUBSET [b \in Codes |-> Members(b)][c]
  OBVIOUS
<1>2. \E T \in SUBSET [b \in Codes |-> Members(b)][c] : Abstract!HangUp(c, T)
  BY <1>1, Zenon
<1> QED BY <1>2, Zenon DEF Abstract!Next

\* CompareAndDelete begins the end of a session; when it comes too late, a dataHandler
\* only closes its connection.
LEMMA CompareAndDeleteMaps ==
  ASSUME IInv, NEW t \in Threads, CompareAndDelete(t)
  PROVE  [Abstract!Next]_(Abstract!vars)
<1>0. session[t] \in Codes
  BY DEF CompareAndDelete, IInv, LocalInv, TypeOK
<1>c. PICK c \in Codes : c = session[t]
  BY <1>0
<1>1. c \in Codes
  BY <1>0, <1>c
<1>2. Seats' = Seats
  BY DEF CompareAndDelete, Seats, Members
<1>3. Copying' = Copying
  BY DEF CompareAndDelete, Copying, Exit, Goto, IInv, TypeOK
<1>4. CASE c \in channels
  <2>1. Phase[c] = "open" /\ Phase' = [Phase EXCEPT ![c] = "ending"]
    <3>1. Made(c) /\ Made(c)' /\ ~closed[c]
      BY <1>1, <1>c, <1>4 DEF CompareAndDelete, Goto, IInv, TypeOK, EndInv, Made
    <3>2. \A b \in Codes : Made(b)' <=> Made(b)
      BY <1>c, <1>4 DEF CompareAndDelete, Goto, IInv, TypeOK, Made
    <3>3. channels' = channels \ {c} /\ closed' = closed
      BY <1>c, <1>4 DEF CompareAndDelete
    <3>4. Phase[c] = "open" /\ Phase'[c] = "ending"
      BY <1>1, <1>c, <1>4, <3>1, <3>2, <3>3 DEF Phase
    <3>5. \A b \in Codes \ {c} : Phase'[b] = Phase[b]
      BY <3>2, <3>3 DEF Phase
    <3> QED BY <1>1, <1>c, <3>4, <3>5, PhaseSet
  <2>2. Joined' = Joined
    BY <1>c, <1>4 DEF CompareAndDelete, Joined, Members
  <2>3. Abstract!End(c)
    BY <1>2, <1>3, <2>1, <2>2 DEF Abstract!End, Seats, Copying, Joined
  <2> QED BY <1>1, <1>c, <2>3 DEF Abstract!Next
<1>5. CASE c \notin channels
  <2>1. Phase' = Phase
    BY <1>c, <1>5 DEF CompareAndDelete, Exit, Goto, IInv, TypeOK, LocalInv, Phase, Made
  <2>2. CASE t \in Conns
    <3>1. t \in Members(c) /\ Made(c)
      BY <1>1, <1>c, <2>2 DEF CompareAndDelete, IInv, TypeOK, LocalInv, SeatInv, Seated, Ending, Members, Made
    <3>2. Phase[c] \in {"ending", "over"}
      BY <1>1, <1>c, <1>5, <3>1 DEF Phase
    <3>3. Joined' = Joined \cup {t}
      BY <1>1, <1>c, <1>5, <2>2, <3>1 DEF CompareAndDelete, Close, Own, Joined, Members, IInv, TypeOK
    <3>4. Abstract!HangUp(c, {t})
      BY <1>1, <1>c, <1>2, <1>3, <2>1, <3>1, <3>2, <3>3 DEF Abstract!HangUp, Seats, Copying, Joined
    <3>5. {t} \subseteq Members(c)
      BY <3>1
    <3> QED BY <1>1, <1>c, <3>4, <3>5, HangUpIsNext
  <2>3. CASE t \notin Conns
    <3>1. Joined' = Joined
      BY <1>5, <2>3 DEF CompareAndDelete, Close, Own, Joined, Members, IInv, TypeOK
    <3> QED BY <1>2, <1>3, <2>1, <3>1 DEF Abstract!vars, Seats, Copying, Joined
  <2> QED BY <2>2, <2>3
<1> QED BY <1>4, <1>5

\* The critical section of disconnectPair, which sets `closed`, finishes a session.
LEMMA TeardownMaps ==
  ASSUME IInv, NEW t \in Threads, Teardown(t)
  PROVE  \E c \in Codes : Abstract!Finish(c)
<1> DEFINE c == session[t]
<1>1. c \in Codes
  BY DEF Teardown, IInv, LocalInv, TypeOK
<1>2. Phase[c] = "ending" /\ Phase' = [Phase EXCEPT ![c] = "over"]
  <2>1. Made(c) /\ c \notin channels /\ ~closed[c]
    BY <1>1 DEF Teardown, IInv, EndInv, TearsDown
  <2>2. \A b \in Codes : Made(b)' <=> Made(b)
    BY DEF Teardown, Goto, IInv, TypeOK, LocalInv, Made
  <2>3. channels' = channels /\ closed' = [closed EXCEPT ![c] = TRUE] /\ closed \in [Codes -> BOOLEAN]
    BY DEF Teardown, IInv, TypeOK
  <2>4. Phase[c] = "ending" /\ Phase'[c] = "over"
    BY <1>1, <2>1, <2>2, <2>3 DEF Phase
  <2>5. \A b \in Codes \ {c} : Phase'[b] = Phase[b]
    BY <2>2, <2>3 DEF Phase
  <2> QED BY <1>1, <2>4, <2>5, PhaseSet
<1>3. Seats' = Seats
  BY DEF Teardown, Seats, Members
<1>4. Copying' = Copying
  BY DEF Teardown, Copying, Goto, IInv, TypeOK
<1>5. Joined' = Joined
  BY DEF Teardown, Joined, Members
<1>6. Abstract!Finish(c)
  BY <1>2, <1>3, <1>4, <1>5 DEF Abstract!Finish, Seats, Copying, Joined
<1> QED BY <1>1, <1>6

\* Closing both connections in disconnectPair hangs up members of a session that is over.
LEMMA HangupMaps ==
  ASSUME IInv, NEW t \in Threads, Hangup(t)
  PROVE  Abstract!Next
<1>0. session[t] \in Codes
  BY DEF Hangup, IInv, LocalInv, TypeOK
<1>c. PICK c \in Codes : c = session[t]
  BY <1>0
<1>1. c \in Codes
  BY <1>0, <1>c
<1>2. Made(c) /\ c \notin channels /\ closed[c] /\ links[t] = Members(c)
  BY <1>1, <1>c DEF Hangup, IInv, EndInv, TearsDown
<1>3. Own(t) \subseteq Members(c) /\ Members(c) \subseteq Conns
  <2>1. t \in Conns => \E i \in {0, 1} : pointer[c][i] = t
    BY <1>1, <1>c DEF Hangup, IInv, TypeOK, SeatInv, Seated, Ending
  <2>2. Members(c) \subseteq Conns
    BY <1>1, <1>c DEF IInv, TypeOK, Members
  <2> QED BY <2>1, <2>2 DEF Own, Members
<1>4. Phase' = Phase /\ Phase[c] = "over"
  <2>1. \A b \in Codes : Made(b)' <=> Made(b)
    BY DEF Hangup, Exit, Goto, IInv, TypeOK, LocalInv, Made
  <2>2. channels' = channels /\ closed' = closed
    BY DEF Hangup
  <2> QED BY <1>1, <1>c, <1>2, <2>1, <2>2 DEF Phase
<1>5. Seats' = Seats
  BY DEF Hangup, Seats, Members
<1>6. Copying' = Copying
  BY DEF Hangup, Copying, Exit, Goto, IInv, TypeOK
<1>7. Joined' = Joined \cup Members(c)
  BY <1>1, <1>c, <1>2, <1>3 DEF Hangup, Close, Joined, Members
<1>8. PICK S : S = Members(c)
  OBVIOUS
<1>9. Abstract!HangUp(c, S)
  BY <1>1, <1>4, <1>5, <1>6, <1>7, <1>8 DEF Abstract!HangUp, Seats, Copying, Joined
<1> QED BY <1>8, <1>9, HangUpIsNext

\* checkConnection of a node forgets a code that nobody joined.
LEMMA ReapMaps ==
  ASSUME IInv, NEW c \in Codes, Reap(c)
  PROVE  Abstract!Finish(c) \/ UNCHANGED Abstract!vars
<1>1. Seats' = Seats
  BY DEF Reap, Seats, Members
<1>2. Copying' = Copying
  BY DEF Reap, Copying, Goto, IInv, TypeOK
<1>3. Joined' = Joined
  BY DEF Reap, Joined, Members
<1>4. \A b \in Codes : Made(b)' <=> Made(b)
  BY DEF Reap, Goto, IInv, TypeOK, Made
<1>5. CASE Empty(c, 0) /\ c \in channels
  <2>1. channels' = channels \ {c} /\ closed' = [closed EXCEPT ![c] = TRUE]
        /\ closed \in [Codes -> BOOLEAN] /\ Made(c)
    BY <1>5 DEF Reap, IInv, TypeOK, EndInv
  <2>2. Phase[c] = "open" /\ Phase'[c] = "over"
    BY <1>4, <1>5, <2>1 DEF Phase
  <2>3. \A b \in Codes \ {c} : Phase'[b] = Phase[b]
    BY <1>4, <2>1 DEF Phase
  <2>4. Phase' = [Phase EXCEPT ![c] = "over"]
    BY <2>2, <2>3, PhaseSet
  <2>5. Members(c) = {}
    BY <1>5 DEF IInv, SeatInv, Empty, Members
  <2> QED BY <1>1, <1>2, <1>3, <2>2, <2>4, <2>5 DEF Abstract!Finish, Seats, Copying, Joined
<1>6. CASE ~(Empty(c, 0) /\ c \in channels)
  <2>1. Phase' = Phase
    BY <1>4, <1>6 DEF Reap, Phase
  <2> QED BY <1>1, <1>2, <1>3, <2>1 DEF Abstract!vars, Seats, Copying, Joined
<1> QED BY <1>5, <1>6

\* A dataHandler that takes a seat is admitted; one that is refused is not seen.
LEMMA JoinMaps ==
  ASSUME IInv, IInv', NEW d \in Conns, Join(d)
  PROVE  [Abstract!Next]_(Abstract!vars)
<1>0. session[d] \in Codes /\ Made(session[d]) /\ conn[d] # "closed"
  BY DEF Join, IInv, LocalInv, TypeOK
<1>c. PICK c \in Codes : c = session[d]
  BY <1>0
<1>1. c \in Codes /\ Made(c) /\ conn[d] # "closed"
  BY <1>0, <1>c
<1>2. \A b \in Codes, i \in {0, 1} : pointer[b][i] # d
  BY DEF Join, IInv, SeatInv, Empty, Seated, Owing, Ending
<1>3. \A b \in Codes : Made(b)' <=> Made(b)
  BY DEF Join, Exit, Goto, IInv, TypeOK, Made
<1>4. CASE Refused(c)
  <2>1. /\ UNCHANGED <<channels, pointer, closed>>
        /\ pc' = [pc EXCEPT ![d] = "done"] /\ pc[d] = "join"
        /\ \A e \in Conns \ {d} : conn'[e] = conn[e]
    BY <1>c, <1>4 DEF Join, Exit, Close, Goto
  <2>2. \A b \in Codes : d \notin Members(b)
    BY <1>2 DEF Members
  <2> QED BY <1>3, <2>1, <2>2, StutterMaps DEF IInv, TypeOK
<1>5. CASE ~Refused(c)
  <2> DEFINE seat == IF Empty(c, 0) THEN 0 ELSE 1
  <2>1. /\ UNCHANGED <<channels, closed, conn>> /\ ~closed[c] /\ Empty(c, 1)
        /\ pointer' = [pointer EXCEPT ![c][seat] = d]
        /\ pc' = [pc EXCEPT ![d] = IF seat = 0 THEN "announce" ELSE "wait"] /\ pc[d] = "join"
    BY <1>c, <1>5 DEF Join, Refused, Goto
  <2>2. Members(c)' = Members(c) \cup {d} /\ \A b \in Codes \ {c} : Members(b)' = Members(b)
    BY <1>1, <1>c, <2>1 DEF Members, Empty, IInv, TypeOK
  <2>3. Phase' = Phase /\ Phase[c] \in {"open", "ending"}
    BY <1>1, <1>c, <1>3, <2>1 DEF Phase
  <2>4. Seats' = [Seats EXCEPT ![c] = @ \cup {d}]
    BY <1>1, <1>c, <2>2 DEF Seats
  <2>5. Copying' = Copying
    BY <2>1 DEF Copying, IInv, TypeOK
  <2>6. Joined' = Joined
    BY <1>1, <1>c, <2>1, <2>2 DEF Joined
  <2>7. (\E e \in Conns : Members(c) \subseteq {e}) /\ \A b \in Codes : d \notin Members(b)
    BY <1>1, <1>c, <1>2, <2>1 DEF Members, Empty, IInv, TypeOK
  <2>8. Abstract!Admit(c, d)
    BY <1>1, <1>c, <2>3, <2>4, <2>5, <2>6, <2>7 DEF Abstract!Admit, Seats, Copying, Joined
  <2> QED BY <1>1, <1>c, <2>8 DEF Abstract!Next
<1> QED BY <1>4, <1>5

\* A dataHandler that finds its pair complete and open after `ready` forwards.
LEMMA LookMaps ==
  ASSUME IInv, NEW d \in Conns, Look(d)
  PROVE  [Abstract!Next]_(Abstract!vars)
<1> DEFINE c == session[d]
<1>1. /\ c \in Codes /\ Made(c) /\ pointer[c][index[d]] = d
      /\ \A b \in Codes : Made(b)' <=> Made(b)
  BY DEF Look, Goto, IInv, TypeOK, LocalInv, SeatInv, Seated, Owing, Made
<1>2. Phase' = Phase /\ Seats' = Seats /\ Joined' = Joined
  BY <1>1 DEF Look, Phase, Seats, Joined, Members
<1>3. CASE closed[c] \/ Empty(c, 1 - index[d])
  <2>1. Copying' = Copying
    BY <1>3 DEF Look, Goto, Copying, IInv, TypeOK
  <2> QED BY <1>2, <2>1 DEF Abstract!vars, Seats, Copying, Joined
<1>4. CASE ~(closed[c] \/ Empty(c, 1 - index[d]))
  <2>1. Copying' = Copying \cup {d}
    BY <1>4 DEF Look, Goto, Copying, IInv, TypeOK
  <2>2. Phase[c] \in {"open", "ending"}
    BY <1>1, <1>4 DEF Phase
  <2>3. d \in Members(c) /\ Members(c) # {d}
    <3>1. index[d] \in {0, 1} /\ 1 - index[d] \in {0, 1}
      BY DEF IInv, TypeOK
    <3>2. pointer[c][1 - index[d]] # d
      BY <1>1, <1>4, <3>1 DEF IInv, SeatInv
    <3> QED BY <1>1, <1>4, <3>1, <3>2 DEF Members, Empty
  <2>4. Abstract!Forward(c, d)
    BY <1>1, <1>2, <2>1, <2>2, <2>3 DEF Abstract!Forward, Seats, Copying, Joined
  <2> QED BY <1>1, <2>4 DEF Abstract!Next
<1> QED BY <1>3, <1>4

\* A dataHandler whose io.CopyBuffer returns stops forwarding.
LEMMA StopMaps ==
  ASSUME IInv, NEW d \in Conns, CopyEnds(d) \/ WriteFails(d)
  PROVE  Abstract!Stop(d)
<1>1. \A b \in Codes : Made(b)' <=> Made(b)
  BY DEF CopyEnds, WriteFails, Goto, IInv, TypeOK, Made
<1>2. Phase' = Phase /\ Seats' = Seats /\ Joined' = Joined
  BY <1>1 DEF CopyEnds, WriteFails, Phase, Seats, Joined, Members
<1>3. d \in Copying /\ Copying' = Copying \ {d}
  BY DEF CopyEnds, WriteFails, Goto, Copying, IInv, TypeOK
<1> QED BY <1>2, <1>3 DEF Abstract!Stop, Seats, Copying, Joined

\* Every step of the goroutines is a step of Session or one it does not see.
THEOREM StepMaps == IInv /\ IInv' /\ [Next]_vars => [Abstract!Next]_(Abstract!vars)
<1> SUFFICES ASSUME IInv, IInv', [Next]_vars PROVE [Abstract!Next]_(Abstract!vars)
  OBVIOUS
<1>1. ASSUME NEW t \in Threads, DisconnectPair(t) PROVE [Abstract!Next]_(Abstract!vars)
  <2>1. CASE CompareAndDelete(t)
    BY <2>1, CompareAndDeleteMaps
  <2>2. CASE Teardown(t)
    BY <2>2, TeardownMaps DEF Abstract!Next
  <2>3. CASE Hangup(t)
    BY <2>3, HangupMaps
  <2> QED BY <1>1, <2>1, <2>2, <2>3 DEF DisconnectPair
<1>2. ASSUME NEW h \in Handlers, HandlerStep(h) PROVE [Abstract!Next]_(Abstract!vars)
  BY <1>1, <1>2, MovesMap DEF HandlerStep
<1>3. ASSUME NEW c \in Codes, WatchStep(c) PROVE [Abstract!Next]_(Abstract!vars)
  <2>1. CASE Reap(c)
    BY <2>1, ReapMaps DEF Abstract!Next
  <2>2. CASE WatchReady(c) \/ WatchTimeout(c) \/ Check(c)
    BY <2>2, MovesMap
  <2> QED BY <1>1, <1>3, <2>1, <2>2 DEF WatchStep
<1>4. ASSUME NEW d \in Conns, ConnStep(d) \/ WriteFails(d) \/ PeerLeaves(d)
      PROVE  [Abstract!Next]_(Abstract!vars)
  <2>1. CASE CopyEnds(d) \/ WriteFails(d)
    BY <2>1, StopMaps DEF Abstract!Next
  <2>2. CASE Announce(d) \/ WaitReady(d) \/ WaitTimeout(d) \/ PeerLeaves(d)
    BY <2>2, MovesMap
  <2> QED BY <1>1, <1>4, <2>1, <2>2, JoinMaps, LookMaps DEF ConnStep
<1>5. ASSUME NEW h \in Handlers, NEW c \in Codes, Connect(h, c) \/ AddCode(h, c) \/ Disconnect(h, c)
      PROVE  [Abstract!Next]_(Abstract!vars)
  <2>1. CASE Connect(h, c) \/ AddCode(h, c)
    BY <2>1, MakeMaps DEF Abstract!Next
  <2>2. CASE Disconnect(h, c)
    BY <2>2, MovesMap
  <2> QED BY <1>5, <2>1, <2>2
<1>6. ASSUME NEW d \in Conns, NEW c \in Codes, Dial(d, c) PROVE [Abstract!Next]_(Abstract!vars)
  BY <1>6, MovesMap
<1>7. CASE UNCHANGED vars
  BY <1>7, StutterMaps DEF vars, IInv, Made, Members
<1> QED BY <1>2, <1>3, <1>4, <1>5, <1>6, <1>7 DEF Next

\* Spec implements the safety part of Session: its initial states and its steps.
THEOREM RelayRefinesSession == Spec => Abstract!Init /\ [][Abstract!Next]_(Abstract!vars)
  BY InitMaps, StepMaps, RelayInvariant, PTL DEF Spec
=============================================================================

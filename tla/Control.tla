------------------------------ MODULE Control ------------------------------
(***************************************************************************)
(* One direction of a control connection: the goroutines that send on it   *)
(* (sendMessage, sendRawBytes, ping, over controlConn), the bytes on their *)
(* way, and the loop at the other end that cuts them into messages         *)
(* (readMessage) and gives up on the first that is none.                   *)
(*                                                                         *)
(* A message is a sequence of bytes, a byte one of the five that           *)
(* readMessage tells apart.  The model is of the link between master and   *)
(* node, where both ends are this program.                                 *)
(***************************************************************************)
EXTENDS Naturals, SequencesExt

CONSTANTS Writers,   \* goroutines that send on the connection
          Pinger,    \* the one of them that runs ping
          Batches,   \* what one call sends: one message, or several (checkStatuses)
          PingBatch, \* the batch that ping sends
          Capacity,  \* bound: bytes that the kernels hold for a reader that stalls
          Limit,     \* maxMessageSize
          MaxSends,  \* bound: calls of sendRawBytes whose bytes are followed
          None

ASSUME ControlAssumption ==
  /\ Pinger \in Writers /\ None \notin Writers
  /\ PingBatch \in Batches
  /\ Capacity \in Nat \ {0} /\ Limit \in Nat \ {0} /\ MaxSends \in Nat

Bytes == {"{", "}", "quote", "backslash", "other"}
Messages == UNION {Range(b) : b \in Batches}

VARIABLES pc,        \* where the sendRawBytes of a writer is
          batch,     \* what it sends
          mutex,     \* controlConn.writeMutex
          rest,      \* bytes the holder of the mutex has still to write
          deadline,  \* the write deadline of the socket: "ahead", "near" or "passed"
          wire,      \* bytes written and not read
          link,      \* "open", "lost" by the network, or "rejected" by the reader
          parser,    \* the variables of readMessage
          sends,     \* calls made so far by the writers
          order,     \* messages that went on the wire, in the order of their first bytes
          torn,      \* position in order of the first that was cut off, 0 for none
          delivered  \* messages that readMessage returned

writing == <<pc, batch, mutex, rest, deadline, sends>>
reading == <<parser, delivered>>
vars == <<writing, wire, link, reading, order, torn>>

(***************************************************************************)
(* readMessage.                                                            *)
(***************************************************************************)
Start == [frame |-> <<>>, depth |-> 0, quoted |-> FALSE, escaped |-> FALSE, size |-> 0]

\* One turn of the loop: what is between objects is skipped, and braces inside strings
\* are payload.
NextByte(p, b) ==
  LET q == [p EXCEPT !.size = @ + 1, !.frame = Append(@, b)] IN
  CASE p.depth = 0 /\ b # "{" -> [p EXCEPT !.size = @ + 1]
    [] p.quoted -> [q EXCEPT !.escaped = ~p.escaped /\ b = "backslash",
                             !.quoted = p.escaped \/ b # "quote"]
    [] OTHER -> [q EXCEPT !.quoted = b = "quote",
                          !.depth = IF b = "{" THEN @ + 1 ELSE IF b = "}" THEN @ - 1 ELSE @]

\* The loop over the bytes of s, after each of them.
Parse(s) ==
  LET after[i \in 0..Len(s)] == IF i = 0 THEN Start ELSE NextByte(after[i - 1], s[i])
  IN after

\* One JSON object, and nothing before it and behind it.
IsObject(s) ==
  /\ s # <<>> /\ s[1] = "{"
  /\ \A i \in 1..Len(s) : Parse(s)[i].depth = 0 <=> i = Len(s)

\* What json.Marshal makes of a Message: an object with the numbers and strings of a
\* Message in it, that the reader does not find too long.  A message does not end with the
\* beginning of another: every message begins with an open brace, a quote and the name of
\* its first field, while after its own beginning a message has an open brace only in a
\* string, and after a quote that ends a string there comes no name.
ASSUME MessagesAssumption ==
  /\ Batches \subseteq Seq(Seq(Bytes))
  /\ \A m \in Messages : IsObject(m) /\ Len(m) <= Limit
  /\ \A m, n \in Messages : \A i \in 2..Len(m) : ~IsPrefix(SubSeq(m, i, Len(m)), n)

\* json.Unmarshal takes what json.Marshal made.  A message that was cut off leaves an
\* open string or an open brace, and with what follows it is no JSON.
Unmarshals(frame) == frame \in Messages

(***************************************************************************)
(* Types and initial states.                                               *)
(***************************************************************************)
TypeOK ==
  /\ pc \in [Writers -> {"idle", "lock", "write", "stopped"}]
  /\ batch \in [Writers -> Batches \cup {<<>>}]
  /\ mutex \in Writers \cup {None}
  /\ rest \in Seq(Bytes) /\ wire \in Seq(Bytes) /\ Len(wire) <= Capacity
  /\ deadline \in {"ahead", "near", "passed"}
  /\ link \in {"open", "lost", "rejected"}
  /\ parser \in [frame : Seq(Bytes), depth : Nat, quoted : BOOLEAN, escaped : BOOLEAN, size : 0..(Limit - 1)]
  /\ sends \in 0..MaxSends
  /\ order \in Seq(Messages) /\ delivered \in Seq(Messages)
  /\ torn \in 0..Len(order)

Init ==
  /\ pc = [w \in Writers |-> "idle"]
  /\ batch = [w \in Writers |-> <<>>]
  /\ mutex = None
  /\ rest = <<>>
  /\ deadline = "ahead"
  /\ wire = <<>>
  /\ link = "open"
  /\ parser = Start
  /\ sends = 0
  /\ order = <<>> /\ torn = 0 /\ delivered = <<>>

(***************************************************************************)
(* sendMessage and sendRawBytes.                                           *)
(***************************************************************************)

\* The call returns; ping gives up for good when it was told false.
Return(w, success) ==
  /\ pc' = [pc EXCEPT ![w] = IF w = Pinger /\ ~success THEN "stopped" ELSE "idle"]
  /\ batch' = [batch EXCEPT ![w] = <<>>]

\* sendRawBytes moves the deadline of the socket, the one of a writer that is in the
\* middle of its bytes too, and calls Write; on a closed connection it fails.
Send(w, b) ==
  /\ pc[w] = "idle" /\ sends < MaxSends
  /\ w = Pinger => b = PingBatch
  /\ sends' = sends + 1
  /\ IF link = "open"
     THEN /\ deadline' = "ahead"
          /\ batch' = [batch EXCEPT ![w] = b]
          /\ pc' = [pc EXCEPT ![w] = "lock"]
     ELSE Return(w, FALSE) /\ UNCHANGED deadline
  /\ UNCHANGED <<mutex, rest, wire, link, reading, order, torn>>

\* Any number of other goroutines do the same while the connection is busy.  They wait for
\* the mutex behind the writers, and only what they do to the deadline is followed.
QueueUp ==
  /\ mutex # None /\ link = "open"
  /\ deadline' = "ahead"
  /\ UNCHANGED <<pc, batch, mutex, rest, sends, wire, link, reading, order, torn>>

Unlock(w, success) ==
  /\ Return(w, success)
  /\ mutex' = None
  /\ rest' = <<>>

\* Mutant of Lock: Write does not take the mutex of the connection (the last to come
\* drives out the one that writes).
LockTaken(w) ==
  /\ pc[w] = "lock" /\ link = "open"
  /\ mutex' = w
  /\ pc' = [pc EXCEPT ![w] = "write"]
  /\ deadline' = "ahead"
  /\ rest' = FlattenSeq(batch[w])
  /\ order' = order \o batch[w]
  /\ UNCHANGED <<batch, sends, wire, link, reading, torn>>

\* controlConn.Write: the mutex, and the deadline once more.
Lock(w) ==
  /\ pc[w] = "lock" /\ mutex = None
  /\ IF link = "open"
     THEN /\ mutex' = w
          /\ pc' = [pc EXCEPT ![w] = "write"]
          /\ deadline' = "ahead"
          /\ rest' = FlattenSeq(batch[w])
          /\ order' = order \o batch[w]
          /\ UNCHANGED batch
     ELSE Return(w, FALSE) /\ UNCHANGED <<mutex, deadline, rest, order>>
  /\ UNCHANGED <<sends, wire, link, reading, torn>>

\* writeAll: the kernel takes as much as it has room for.
Write(w) ==
  /\ mutex = w /\ rest # <<>>
  /\ link = "open" /\ deadline # "passed" /\ Len(wire) < Capacity
  /\ wire' = Append(wire, Head(rest))
  /\ rest' = Tail(rest)
  /\ UNCHANGED <<pc, batch, mutex, deadline, sends, link, reading, order, torn>>

Written(w) ==
  /\ mutex = w /\ rest = <<>>
  /\ Unlock(w, TRUE)
  /\ UNCHANGED <<deadline, sends, wire, link, reading, order, torn>>

\* Mutant of WriteFails: a write on which the deadline passes is not ended.
WriteFailsNever(w) ==
  /\ mutex = w /\ rest # <<>>
  /\ link # "open"
  /\ Unlock(w, FALSE)
  /\ UNCHANGED <<deadline, sends, wire, link, reading, order, torn>>

\* The deadline passed, or the connection is closed: an error, and nothing is done about
\* the part that has been written.  What has no byte on the wire does not count as sent.
WriteFails(w) ==
  /\ mutex = w /\ rest # <<>>
  /\ deadline = "passed" \/ link # "open"
  /\ LET before == Len(order) - Len(batch[w])
         put == Len(FlattenSeq(batch[w])) - Len(rest)
         begun == {i \in 1..Len(batch[w]) : Len(FlattenSeq(SubSeq(batch[w], 1, i - 1))) < put}
         whole == {i \in begun : Len(FlattenSeq(SubSeq(batch[w], 1, i))) <= put}
     IN /\ order' = SubSeq(order, 1, before + Cardinality(begun))
        /\ torn' = IF torn = 0 /\ begun # whole THEN before + Cardinality(begun) ELSE torn
  /\ Unlock(w, FALSE)
  /\ UNCHANGED <<deadline, sends, wire, link, reading>>

\* Time brings the deadline near and lets it pass, if nobody moves it before.
Expire ==
  /\ mutex # None /\ deadline # "passed"
  /\ deadline' = (IF deadline = "ahead" THEN "near" ELSE "passed")
  /\ UNCHANGED <<pc, batch, mutex, rest, sends, wire, link, reading, order, torn>>

(***************************************************************************)
(* nodeReadLoop, or masterHandler.                                         *)
(***************************************************************************)

\* Mutant of Read: without a limit on the size of a message.
ReadUnlimited ==
  /\ wire # <<>> /\ link # "rejected"
  /\ wire' = Tail(wire)
  /\ LET p == NextByte(parser, Head(wire))
         complete == p.frame # <<>> /\ p.depth = 0
     IN IF complete
        THEN /\ parser' = Start
             /\ IF Unmarshals(p.frame)
                THEN delivered' = Append(delivered, p.frame) /\ UNCHANGED link
                ELSE link' = "rejected" /\ UNCHANGED delivered
        ELSE parser' = p /\ UNCHANGED <<link, delivered>>
  /\ UNCHANGED <<writing, order, torn>>

\* Mutant of Read: an object that is no message is skipped.
ReadSkips ==
  /\ wire # <<>> /\ link # "rejected"
  /\ wire' = Tail(wire)
  /\ LET p == NextByte(parser, Head(wire))
         complete == p.frame # <<>> /\ p.depth = 0
     IN CASE complete ->
               /\ delivered' = IF Unmarshals(p.frame) THEN Append(delivered, p.frame) ELSE delivered
               /\ parser' = Start
               /\ UNCHANGED link
          [] ~complete /\ p.size < Limit ->
               parser' = p /\ UNCHANGED <<link, delivered>>
          [] OTHER ->
               link' = "rejected" /\ parser' = Start /\ UNCHANGED delivered
  /\ UNCHANGED <<writing, order, torn>>

\* A byte is read.  The object that it closes is handed to its handler; an object that is
\* no message, or a message that is too long, ends the loop, and the connection with it.
Read ==
  /\ wire # <<>> /\ link # "rejected"
  /\ wire' = Tail(wire)
  /\ LET p == NextByte(parser, Head(wire))
         complete == p.frame # <<>> /\ p.depth = 0
     IN CASE complete /\ Unmarshals(p.frame) ->
               /\ delivered' = Append(delivered, p.frame)
               /\ parser' = Start
               /\ UNCHANGED link
          [] ~complete /\ p.size < Limit ->
               parser' = p /\ UNCHANGED <<link, delivered>>
          [] OTHER ->
               link' = "rejected" /\ parser' = Start /\ UNCHANGED delivered
  /\ UNCHANGED <<writing, order, torn>>

\* The network breaks; the reader may still get what was on its way.
Lose ==
  /\ link = "open"
  /\ link' = "lost"
  /\ UNCHANGED <<writing, wire, reading, order, torn>>

Writing(w) == Lock(w) \/ Write(w) \/ Written(w) \/ WriteFails(w)

Next ==
  \/ \E w \in Writers : Writing(w) \/ \E b \in Batches : Send(w, b)
  \/ QueueUp \/ Expire \/ Read \/ Lose

\* A goroutine goes on, time passes, and a mutex is not kept from one that waits for it
\* for ever; the reader may stop to read.
Fairness ==
  /\ WF_vars(Expire)
  /\ \A w \in Writers : WF_vars(Writing(w)) /\ SF_vars(Lock(w))

Spec == Init /\ [][Next]_vars /\ Fairness

(***************************************************************************)
(* Properties.                                                             *)
(***************************************************************************)
Undelivered == SubSeq(order, Len(delivered) + 1, Len(order))

\* The messages arrive in the order in which their writers got the connection, none twice
\* and none left out, and after one that was cut off nothing is taken for a message any
\* more ("Preserve command order", nodes.go).
Ordered == IsPrefix(delivered, order) /\ (torn # 0 => Len(delivered) < torn)

\* As long as no write was cut off, the reader does not give up, and what was sent and not
\* delivered is exactly what it has in its hands, what is on the wire and what the writer
\* still has to write: no byte is lost, mixed with those of another writer, taken for the
\* wrong side of a string, or refused though the message is just as long as it may be.
Whole ==
  torn = 0 =>
    link # "rejected" /\ FlattenSeq(Undelivered) = parser.frame \o wire \o rest

\* Each goroutine that queues up moves the deadline of the writer that is stuck, and their
\* number has no bound.  Unless new ones come for ever, and fast enough, every call of
\* sendMessage returns, though the reader may have stopped for ever.
SendReturns ==
  \/ []<><<QueueUp>>_vars
  \/ \A w \in Writers : pc[w] \in {"lock", "write"} ~> pc[w] \in {"idle", "stopped"}
=============================================================================

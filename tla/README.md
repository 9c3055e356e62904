# srvisit in TLA+

srvisit is the server of a remote-desktop system.  Clients keep a *control connection* to it
over which they authorize, log in to a *profile*, edit the *contacts* of the profile, learn who
is online, and ask to be connected to another machine.  For each such request the server makes a
*code* and tells it to both machines; each opens a *data connection*, sends the code, and the
server copies bytes between the two connections that sent the same code.  A server runs as
*regular* (all of this in one process), or as a *master* (control connections) with *nodes*
(data connections) that the master sends its codes to.

Everything is goroutines over shared maps: nearly every hard question about this program is what
happens when two of them use the same map or the same pair of connections in an order that no
test produces.

## 1. Inventory

| Component | State | Operations | Interacts with | What makes it correct |
|---|---|---|---|---|
| Data relay, `processor/server.go` | `channels` (code → `dConn`): two seats, `ready`, `closed`, mutex | `connectPeers`, `dataHandler`, `disconnectPair`, `disconnectPeers`, `checkConnection` | control connections (invitations), master/node links | `ready` is closed once; no session is orphaned; nothing survives the end of its session; a session is completed or ended in bounded time; a broken side ends the other |
| Presence, `client/*.go`, `addClientToProfile`, cleanup of `mainHandler` | `clients`, `authorized`, `contained`, each with a mutex | `StoreClient`, `RemoveClient`, `Add/DelAuthorizedClient`, `Add/DelContainedProfile(s)` | profiles (scanned), contacts, control connections (statuses) | the maps agree with who is connected, logged in and listed; whoever was told that a contact is online is told when it goes, whether the server said so by itself or in an answer |
| Contact tree, `contact/contact.go`, `processContact`, `processContactReverse` | linked contacts (`Inner`, `Next`), ids | look up, delete, move, create, new id | presence, profile lock | stays a tree; requests change what they name and nothing else; ids are unique as long as they leave room for new ones |
| Cluster, `processor/nodes.go` | `nodes`, `master`, owner of a session (`dConn.node`) | agent messages Auth, AddCode, DelCode, NewConn, AddBytes; `masterHandler`, `NodeClient` | relay on both sides | one node serves a session; sessions of a lost node end; copies on other nodes disappear; a message that is lost does no more harm than it must |
| Control connections, `processor/protocol.go`, `sendMessage`, `ping` | write mutex and deadline of a connection | `sendRawBytes`, `controlConn.Write`, `writeAll`, `ping` | everybody who notifies | messages are whole and in order; after a message that was cut off nothing is taken for one; a send returns unless others keep moving its deadline |
| Framing, `readMessage` | reader state | next message | read loops | adjacent JSON objects are split where they end, and a message of exactly the limit passes |
| Profile store and registration, `profile/profile.go`, `processReg`, `SaveFile` | profiles by e-mail, the file | new, delete, save every 5 s and on a signal, load | contacts, mail, options | a confirmed account stays, in memory and in the file, which is whole at any moment; a failed mail leaves no account |
| Counters, `common/utils.go` | rings over hour, day, month, year | add, roll over, save, load | relay, presence | the number of clients is that of the connected ones; the hours of a day add up to the day |
| Options, `common/options.go` | one record, the file | get, set, save, load | all (Mode, SMTP) | the file is one the program starts from, and agrees with memory after an undisturbed save |
| HTTP API and administration | none of its own | read and render | all | – |
| Geolocation, mail, logs, VNC list, start and stop | caches, files | I/O | – | – |

What is hard here, in general terms: interleavings of handlers over maps that are each locked but
not together (relay, presence); values that are read under a lock and used after it; timers that
race the event they wait for; peers that vanish at any step; mutable linked lists; messages
between master and nodes that are lost, with the link or on it; and a crash, of the process or of
the machine, between a change in memory and its next save.  `PROJECT.json` lists each of these at its line, under `hazards`.

## 2. Plan

Modules, in the order of their importance.

1. **Session, Relay, RelayProofs** – the data relay, its abstract specification,
   its invariant and refinement proofs.  *Done.*
2. **Presence, PresenceProofs** – the three maps and the goroutines that keep them.  *Done; every
   safety property is proved, for the case without overlap where the code needs it.*
3. **Tree, Contacts, ContactsProofs** – the contact tree.  *Done; every
   safety property is proved.*
4. **Cluster, ClusterProofs** – master and nodes, joined by ordered links that break and come
   back; the goroutines behind a node's copy of a session are `Relay` in Node mode.  *Done; every
   safety property is proved.*
5. **Profiles, ProfilesProofs** – registration, edits, the saves and crashes at any step.  *Done;
   every safety property is proved.*
6. **Control, ControlProofs** – concurrent writers on one connection, deadlines, partial writes,
   `ping`, and `readMessage` at the other end.  *Done; every safety property is proved.*
7. **Counters, CountersProofs** – the rings.  *Done; every safety property is proved.*
8. **Options, OptionsProofs** – overlapping requests, saves, restarts.  *Done; proved.*
9. To do: the effect of a change of Mode on sessions that run (Options with Relay), the web token
   in Presence, what clients are told of nodes, and Control, byte by byte, in the place of the
   queues of Cluster.

One run per question, on instances of one or two of each kind.

## 3. What is modelled

### Relay (`Relay.tla`)

A step is one atomic operation of a goroutine on shared state.  There are three kinds of
goroutines: `Handlers` serve control connections (or, on a node, the link to the master), every
code has its `checkConnection`, and every data connection its `dataHandler`.

| Action | Code |
|---|---|
| `Connect`, `Invite` | `processConnect`: `connectPeers` with a new code, then `TMessConnect`, and `disconnectPeers` if it cannot be sent |
| `AddCode` | `processAgentAddCode` on a node |
| `Disconnect` | `processDisconnect`, `processAgentDelCode` |
| `CompareAndDelete`, `Teardown`, `Hangup` | `disconnectPair`: removing the pair, the critical section, closing the connections and the report to the master |
| `WatchReady`, `WatchTimeout`, `Check`, `Reap` | `checkConnection`: its select, the read section, the critical section of a node |
| `Dial`, `Join`, `Announce` | `dataHandler` up to the invitation of the viewer |
| `WaitReady`, `WaitTimeout`, `Look`, `CopyEnds`, `WriteFails` | the rest of `dataHandler`; its deferred `disconnectPair` is the label `cad` |
| `PeerLeaves` | a peer closes or loses its connection (external) |

`ready` counts how often the channel was closed, since a second close panics.  Timers may fire at
any time: the model has no clock, so a result does not depend on 25 s or 30 s.

Abstractions, and why they are sound.  A code is 64 random characters drawn for one session, so a
code is used once and stands for its pair; `channels.Load` followed by `CompareAndDelete` of the
loaded pair is then one test of the map.  A data connection dials once.  `Reap` is one step
because its `CompareAndDelete` is the only operation in the section that others see before the
mutex is released.  A `processConnect` that reaches several machines of one PID makes one code
for each, one after the other.  Bytes, counters and the alerts to the viewer are left out.  Mode
is fixed while the server runs.

### Session (`Session.tla`)

What the relay promises, without goroutines: a session is absent, open, ending or over; it admits
two connections at most, forwards only while both are members, and, once it ends, is over for good
and lets go of both.  `Relay!Abstract` is the refinement mapping.

### Presence (`Presence.tla`)

| Action | Code |
|---|---|
| `Auth`, `Scan`, `Scanned`, `Add`, `List`, `Push` | `processAuth` and `addClientToProfile`: store the client, then for every profile look for its PID under the lock of the profile, add it to `contained`, list who is logged in and notify each |
| `Login`, `Relogin`, `LoggedIn`; `Logout`, `LoggedOut` | `processLogin`: `SetProfile`, `DelAuthorizedClient` of the profile before, `AddAuthorizedClient`, then `processContacts`; `processLogout` |
| `AskAll`, `AskOne`, `ReadStatus`, `Answer` | `processContacts`, `processStatuses`, `checkStatuses`; `processStatus`: the contacts under the lock of the profile, then `GetClientsList` of each, then the status of each in the answer |
| `DelContact`, `EditContact`, `Peers`, `Found` | `processContact`: the change, the lookup of online peers and `AddContainedProfile`, all with the lock of the profile held, but not those of the maps |
| `ContactReverse`, `Reversed` | `processContactReverse` |
| `Disconnect`, `RemoveClient`, `Last`, `Lookup`, `Leave`, `LeaveList`, `LeavePush` | the deferred function of `mainHandler`, one step per use of a map |

A tree is the set of PIDs in it (the shape is `Contacts`).  The maps store lists or maps whose
order no property depends on, hence sets.  `told` is the last status of a contact that a client
was sent, in an answer or because the contact came or went; it is the only part of the clients' own
state, and is forgotten when the client logs in anew, logs out or goes, or the contact is deleted.
An answer is read first and sent later (`answer`), so a "1" may be out of date when it is sent:
`told` is then "stale", until the next status.  It is out of date too if the contact was meanwhile
given another PID, or if its owner is only now making it a contact and `contained` does not have
the profile yet.  The constant `Overlap` says whether
a machine may reconnect before the server has cleaned up after its last connection; with TCP both
happen.

### Contacts and Tree

`Contacts.tla` is the heap: contacts with an id and the pointers `inner` and `next`.
`GetContact`, `DelContact` and `GetNewId` follow the functions of package `contact`; `Delete`,
`Create`, `Move` and `Reverse` are the outcomes of `processContact` and `processContactReverse`
(an edit that moves nothing and a request that is refused change nothing here).  Each is one step
because it runs under the lock of the profile.  Ids are ints of `Width` bits, and wrap; a client may name any of
them (`Ids`), negative ones and the largest too.
`Tree.tla` is what the owner of the profile sees: each contact lies in another one or at the top.

### Cluster (`Cluster.tla`)

Three places hold a part of the truth about a session: the master's pair (`channels`, `closed`,
`node`), each node's copy of it (`copy`), and the machines, which know only what they were told
(`machine`).  Messages between master and nodes are in `toMaster` and `toNode`, in order, one
queue per link and direction.

| Action | Code |
|---|---|
| `Connect`, `SendAdd`, `Invite` | `processConnect`: `connectPeers` puts the code in the map and sends AddCode to one node after the other; then the machine is invited, or `disconnectPeers` |
| `Disconnect` | `processDisconnect` |
| `CompareAndDelete`, `Teardown`, `SendDel` | `disconnectPair` on the master: out of the map, the critical section, DelCode to one node after the other |
| `Watch` | `checkConnection` on the master |
| `AgentAuth`, `GiveUp` | `processAgentAuth`: the node is stored and answered; a link that ends before that |
| `AgentNewConn`, `AgentDelCode` | the handlers of these messages: the first node takes the session; the session is disconnected |
| `Leave`, `Farewell`, `Visit` | the deferred function of `masterHandler`: out of `nodes`, then each session of the node is disconnected |
| `Dial`, `SendAuth`, `Authorized`, `LoseMaster` | `NodeClient` and `nodeReadLoop`: the link, `master`, Auth, the answer, the end |
| `AgentAddCode`, `NodeDelCode` | `nodeReadLoop`: a copy appears, or ends |
| `Arrive`, `Send` | a machine connects to a node with the code; NewConn or DelCode by `sendMessageToMaster`, which does not tell whether it was sent |
| `WaitTimeout`, `CopyEnds`, `Reap` | how a node's copy ends: the partner does not come, a machine goes, or nobody came (silently) |
| `Carry`, `Lose` | a message is sent: it gets on the link, is lost because the link is down, or is lost on a link that stays up |
| `Break`, `Crash` | a link breaks; a node's process ends and starts anew (external) |

Abstractions, and why they are sound.  A copy is one value: that its goroutines get from one to
the next, and report its end exactly when it was used, is what `Relay` shows.  A link carries
what was sent before it broke or drops it: both ends may read on (`AgentNewConn` and so on do not
ask whether the link is up) or notice the break (`Leave`, `LoseMaster`), as a deadline or an error
does.  A link that is up may lose any message, as long as it is in `Lossy`: a write whose deadline passes before
its first byte is out fails, `sendMessageToNodes` and `sendMessageToMaster` ignore the error, and
nobody closes the connection.  (A write that is cut off in the middle loses what comes after it as
well, until the reader gives up the link; that is one `Lose` after the other, and a `Break`.)
`missedByMaster` and `missedByNode` record which DelCode was lost that way.  Auth and its answer are
not lost like this, since either end closes a link on which they cannot be sent.  Links are used
once, in some fixed order.  A `Range` over a `sync.Map` visits what was in it
when it began: a session that is added later has no node yet, and a node that is stored meanwhile is
either passed over or, if it is reached, might as well have been stored before.  A refused machine
leaves no trace.  The reply to Auth and
the `Store` after it are one step, since nothing is sent to a node that is not stored.  A pair that
`processAgentNewConn` loaded just before it left the map is used until it is closed, hence both
outcomes for it.  `AddBytes`, names, addresses and coordinates, and what clients are told of nodes,
are left out.

### Profiles (`Profiles.tla`)

Three parties work on the accounts: the handlers of control connections that register (`pc`,
`email`, `account`), those who are logged in and edit, and two goroutines that save, `HelperThread`
every few seconds and `main` once on a signal (`stage`, `todo`, `temp`).

| Action | Code |
|---|---|
| `Register`, `Check`, `New`, `Mail`, `Undo`, `Reply` | `processReg`: it reads whether SMTP is set, looks for the address, `NewProfileWithPassword` under the mutex, `SendEmail`, which reads the options again, `DelProfile` after a mail that failed, or the answer "success" |
| `Login`, `Edit` | `processLogin` or the check of a web request, and the changes of a profile under its lock: they need no mutex of the store |
| `SwitchSmtp` | `processApiOptionsSave` |
| `SaveProfiles`, `Marshal`, `Write`, `Sync`, `Rename`, `SaveFails` | `SaveProfiles` holds the mutex of the store from the list of profiles to the rename; `MarshalJSON` takes the lock of one profile after the other; then `SaveFile`, whose errors are logged |
| `Settle` | the file system makes the last rename durable, some time later: `SaveFile` syncs the file and not its directory (external) |
| `Exit`, `Crash`, `PowerFails`, `Start` | the end of `main`, the end of the process or a failure of the power at any moment, `LoadProfiles` |

An account is the object that one `NewProfileWithPassword` made; what its owner keeps in it is a
`version`, which every edit raises.  A mail may arrive although its sender is told that it failed.
`file` is what a process finds under the name of the file, `durable` what it would find there after
the power failed.  A crash of the process leaves `file`; a failure of the power brings `durable`
back, which may be the file before the last rename, and in which a part that was not synced is
lost (so a file renamed before its sync would not be whole).
Four variables are history only: `mailed`, `silent` (made for a request that began when no SMTP was
set, so that no mail was sent), `confirmed` (answered "success"; the end of the process takes out
those that what is left on the disk does not have, such as the accounts of the documented five
seconds), `reloaded`.

### Control (`Control.tla`)

One direction of a connection.  `Send`, `Lock`, `Write`, `Written`, `WriteFails` are
`sendRawBytes`, `controlConn.Write` and `writeAll`: the deadline is set before the mutex is taken
and again after it; the kernel takes one byte after the other as long as it has room; a deadline
that passes ends the write wherever it is, and nobody closes the connection for it.  The writers
whose messages are followed send `MaxSends` times at most; `QueueUp` is all the other goroutines, in any
number, that call `sendRawBytes` meanwhile, wait behind them for the mutex and, before that, move the
deadline (`deadline` is ahead, near or passed).  `ping` is one
of the writers, and stops for good after a failure.  `Read` is one turn of the loop of
`readMessage`, with the read loop that ends at the first object that is no message; `NextByte`
tells apart the five kinds of bytes that the code does, and `Parse` is the reader's state after
each byte of a frame.  `json.Unmarshal` is external: it accepts what `json.Marshal` made.  `order` and `torn` are history: which messages went on the wire, and the
first that was cut off.  `MCControl` also compares `NextByte` with the definition of the first
complete object (an assumption that TLC evaluates, for all inputs of up to six bytes).

`MessagesAssumption` says what `readMessage` relies on of what is sent to it.  A message is one JSON
object (`IsObject`: its braces outside strings match at its last byte and not before), since it is
`json.Marshal` of a struct.  It is no longer than the limit; that is an assumption about the
senders, which no code checks.  And no message ends with the beginning of another: such a beginning
is a brace, a quote and a field name, while a brace inside a message is in a string, where quotes
are escaped, and the quote that ends a string is followed by a comma or a bracket.  Without this a
message that was cut off could be completed by a later one.  All three hold of the messages in the
runs, where TLC evaluates them.

### Counters (`Counters.tla`)

`StoreClient`, `RemoveClient` (with `UpdateCounterClient`), `AddCounter` and `SwiftCounter` work on
two rings, of hours and of days, under the mutex of the counters; `SaveCounters`, `Exit` and
`LoadCounters` take them through the file.  Time is a count of hours.  `SwiftCounter` reads the
clock once for the position and again for every index it writes, so the hour may change between any
two of them (`turn`).  `GetCounter` makes a chart of a ring: each number is halved and then
divided down to whole units (`Megabyte`), so an hour loses what is not a whole unit.  `astray` and `gap` are history and mark where the statistics are allowed to
be wrong: after such a change, and after a restart in another hour or day.

### Options (`Options.tla`)

The options are a text and the mode, which `SetOptions` checks.  `GetOptions`, `SetOptions`,
`SaveOptions`, `Rename` are the steps of `processApiOptionsSave`, `Resave` is
`processApiSaveOptions`, and `LoadOptions` is the start of `main` with the mode of the command
line, which is in memory only.  A save may fail.  `alone` and `agreed` are history.

## 4. What the runs show

| Run | Instance | Shows |
|---|---|---|
| `relay_regular` | 1 code, 2 connections, 2 handlers, regular | `ReadyClosedOnce`, `NoOrphanSession`, `EndedSessionHungUp`, `MeetOrEnd`, `BreakEndsSession`, `ImplementsSession` with liveness |
| `relay_node` | 1 code, 3 connections, 1 handler, node | `UnusedCopySilent`, `UsedCopyReported`, `ImplementsSession`; the other invariants are proved for both modes |
| `presence_apart` | 4 connections, 2 PIDs, 1 profile, no overlap | `ContainedComplete`, `OfflineIsPushed` |
| `presence_profiles` | 2 connections of one PID, 2 profiles, overlap | `AuthorizedExact`, `AuthCompletes` |
| `contacts_tree` | 4 contacts, 4-bit ids, of which clients name -2, 1 and 7 (the largest) | `TreeShaped`, `FoundStays`, `NewIdFresh`, `ImplementsTree` |
| `cluster_links` | 2 nodes, 2 links, one of which may break and both of which may lose messages, 1 code, 1 handler | `SessionGuarded`, `NodeServes`, `EndReachesNode`, `OnlyUsersEnd` |
| `cluster_live` | 1 node, 2 links that may both break and lose messages, 1 code, 1 handler | `SessionSettles` |
| `store` | 1 address, 2 handlers, 2 accounts, 1 edit of each, both savers | `ConfirmedStay`, `AccountMailed`, `SavedStay`, `FileFollows` |
| `link` | 2 senders and `ping`, 3 sends of 1 or 2 messages and any number of other senders, a kernel that holds 2 bytes | `Ordered`, `Whole`, `SendReturns` |
| `counters` | 2 clients, 2 hours a day, 2 days, 5 hours, 2 reports of 3 bytes, charts in units of 2 | `ClientsExact`, `TodayAddsUp` |
| `options` | 3 requests, 2 texts, 2 modes | `OptionsKept` |
| `presence_reconnect` | 3 connections, 2 PIDs, 1 profile, overlap | the first disagreement below |

Why the bounds are enough.  Sessions share nothing but the map, whose entries are independent, so
one code is the general case (a run with two codes and three connections passes as well, in
minutes, and the proofs hold for any number).  A pair seats two connections; a third
is one that comes too late or is refused.  Two handlers race each other, the timer and both
`dataHandler`s for the same `disconnectPair`.  In Presence, two machines, one of which edits the
profile while the other comes, goes and comes again, make every pair of handlers meet; three and
four connections add the viewers.  Four contacts hold a contact that moves with a subtree, its old
and its new parent.  A client that names the largest int makes `getNewId` wrap, so `HasRoom` is
false in some states and true in others, and ids that were made with room may lose it later.  In Cluster, two links
are one node that comes back (with the old link still unnoticed by the master) or two nodes that
compete for a session (three links, which are both, pass as well, in minutes); `Fragile` and `Lossy` bound which of the links may break
or lose messages, to keep two nodes within reach.  The handler of the run can ask for the end of a session while the timer, the link and the
node's own reports do the same.  In Profiles, two registrations of one address are what can harm
each other (different addresses share only the mutex), and two accounts let one be undone, lost or
reloaded while another takes its address.  In Control, the longest message is as long as the
limit, so both sides of the limit occur; three sends queue two writers behind one that is stuck,
and `QueueUp` stands for any number of others.  In
Counters, three bytes in each of two hours show as 0 in both and as 1 in the day, so the charts do
differ.
Two hours and two days turn each ring around at least once, with the days at every phase of the
hours.  With three requests one overlaps two that overlap each other or not.

All runs have `CHECK_DEADLOCK FALSE`: connections and codes are finite constants that are used up
(and nobody has to ask for anything), so the model stops where the server waits for the next
client.  That nothing gets stuck before that is `MeetOrEnd`, `BreakEndsSession`, `AuthCompletes`,
`SessionSettles`, `SendReturns`, `FileFollows` and the liveness half of `ImplementsSession`.

### Fairness

Relay: weak fairness for the server's own steps, per goroutine.  Every `select` has a timer and
every write a deadline, so a goroutine that is not waiting for its peer goes on; nothing is
assumed of peers, of `WriteFails`, or of requests.  Presence: strong fairness for the loop of
`addClientToProfile` and for handlers, which wait for the `sync.Mutex` of a profile; that mutex hands itself
to a waiter after a millisecond (starvation mode), so a waiter is not overtaken for ever; weak
fairness for the cleanup, which takes no such lock.
Cluster: weak fairness for the goroutines of master and nodes and for timers, and
for noticing that a link broke, since both sides ping and have deadlines.  Nothing is assumed of
clients, machines or the network, nor that a node dials again.
Profiles: weak fairness for the two savers, since `HelperThread` saves in a loop that nothing ends
and `main` finishes what it began; strong fairness for taking the mutex (`sync.Mutex`, as above).
The disk may fail any step, but not all the saves: if `HelperThread` begins saves again and again,
it ends some.  Nothing is
assumed of registrations.  Control: weak fairness for a goroutine in a call and for the clock, strong
for the mutex of the connection; nothing is assumed of the reader, which may stop for ever, nor of
`QueueUp`: that the deadline is not moved for ever is the condition that `SendReturns` states.

### An assumption about time

`NodeClient` sleeps for `WaitIdleAgent` (2 s) before it dials again, and `Dial` takes it that in
this time every `dataHandler` that has taken a seat has sent its NewConn, the next thing it does.
The code relies on it: without that guard TLC finds a NewConn that is delayed until the next link
while the DelCode of the same session was lost with the old one, and `NodeServes` is violated – the
master keeps the session, on a node that no longer has it, until the new link ends too.

### Disagreements found

* `presence_reconnect` (a run): the last connection of a PID decides that it is the last, and later
  deletes the PID from `contained`; a machine that is back in between loses its entries although it
  is online (`contained.go:10` calls the map the list of online clients in profiles).

The others are kept as definitions without a run of their own; name the property in the
configuration given to see TLC violate it.

* `ContainedOnline` (`MCPresence_apart.cfg`): `processContact` reads who is online and adds its
  profile later, when the peer may be gone and cleaned up: an entry for an offline PID.
* `ContainedListed` (same): no request calls `DelContainedProfile`, so a deleted contact's profile
  is still returned for its PID (`contained.go:44` says: the profiles where the PID is).
* `FoundById` (`MCContacts_tree.cfg`): `getNewId` wraps
  after the largest int, which a client may choose as an id, and returns an id that is in use;
  `processContactReverse` then makes a duplicate.  `FoundStays`, which is proved, says that this is the only way: a
  request that finds room for new ids below the largest int (`HasRoom`) leaves ids that lead to their contacts.

The next ones are exceptions that a property names; without the exception TLC finds each of them.

* A status may be wrong for good (`OfflineIsPushed`, `told` "stale").  `checkStatuses` and
  `processStatus` read `GetClientsList` and send the answer later (`common.go:246`,
  `processing.go:485`); the contact may go in between, and its "0" reach the client before the "1".
* A message is lost on a link that stays up (`missedByMaster` in `NodeServes` and `SessionSettles`,
  `missedByNode` in `EndReachesNode`).  A write of which the deadline passes with nothing
  written fails, and nobody looks (`nodes.go:200`, `nodes.go:209`): if it was the node's DelCode, the
  master keeps a session that no node has until the link ends; if it was the master's, the node
  goes on with a session that has ended until one of the machines goes.
* A stuck writer need not return (`QueueUp` in `SendReturns`).  `sendRawBytes` moves the deadline
  before it waits for the mutex (`common.go:265`), so goroutines that come within 13 s of each other keep
  it, and themselves, waiting for as long as they come.
* A save may be taken back by a failure of the power (`PowerFails` in `SavedStay`): `SaveFile` never
  syncs the directory (`utils.go:560`).  The file is then one of those before it, whole, and not
  older than what had reached the disk.
* An account may be made without a mail while SMTP is set (`silent` in `AccountMailed`):
  `processReg` goes by the value of `smtpEnabled` that it read when the request began.  And one that is
  registered while SMTP is off is reported as created although no password was sent.
* When the hour changes inside `SwiftCounter`, the number of clients of the new hour is lost (`astray` in `ClientsExact`).
* The charts do not add up (`TodayAddsUp`): every hour is halved and cut to whole units, so the
  day may show more than its hours together, by up to one unit for every hour but one.

By reading only, since what clients are told of nodes is not modelled: a node that is back before
the master has noticed the end of its old link is announced, and then taken from the clients' list
by the farewell of the old link, although it is registered (`common.go:48` says that clients get
the list of agents and its changes); and `processServers` may read its list before a node's
farewell and send it after, so that a client is left with a node that is gone.

Without overlap (`presence_apart`, and proved) the lookups on both sides never miss each other: the
stale and dangling entries above are the only flaw of the map, which may hold too much.

One more observation.  After a write that was cut off, the connection stays open and later messages
are appended to the half one, against the comment of `readMessage` that messages are adjacent JSON
objects; the reader then gives up the connection at the next complete object or at the size limit
(`Ordered`), which may take as long as the sender is silent.

## 5. What is proved

`RelayProofs.tla`, for any sets of codes, connections and handlers and
both modes, from `RelayAssumption` only (the three sets and `None` are disjoint, the mode is one
of two):

* `RelayInvariant`: `Spec => []IInv`, and from it `TypeCorrect`, `ReadyNeverClosedTwice`,
  `SessionsAreGuarded`, `EndingsAreComplete`, `UnusedCopiesAreSilent`, `UsedCopiesAreReported` –
  every safety invariant the relay runs check.
* `RelayRefinesSession`: every behaviour of the relay is one of `Session`'s initial states and
  steps.

The safety properties are not inductive: that `ready` is closed once depends on how many goroutines
can be tearing down a pair, which depends on who is in the map.  `IInv` adds

* `LocalInv` – which labels each kind of goroutine has, and that it knows its code;
* `SeatInv` – a seat and the `dataHandler` in it know each other, and seat 0 is filled first, so a
  pair is complete exactly when seat 1 is taken;
* `EndInv` – at most one goroutine is past `CompareAndDelete`, the code is then out of the map, and
  only that goroutine (or `Reap`, in one step) closes the pair: before the critical section the
  pair is open, after it `links` holds exactly the members, because a closed pair admits nobody;
* `GuardInv` – a session in the map either has its timer still to come or members that owe a
  `disconnectPair`, which is why `checkConnection` may leave when the pair is ready;
* `ReportInv` – on a node, whoever goes to end a code has either seen a member or was asked to,
  which is what separates a silent forgetting from a report.

There is one lemma per action (or per outcome of it) and in it one step per conjunct; `StepInv`
puts them together.  The refinement takes `IInv` before and after a step and shows, action by
action, the step of `Session` or the stutter it is.

`ClusterProofs.tla`, for any sets of nodes, links, codes and handlers and any sets of links that
may break and that may lose messages, from `ClusterAssumption` only (links, codes and handlers are disjoint, `None` is none of
them nor a node, and no node is called like a state of a machine, "waits" or "invited"):

* `ClusterInvariant`: `Spec => []IInv`, and from it `TypeCorrect` and `SessionsAreGuarded`.

`SessionGuarded` is not inductive: the timer leaves as soon as a node has the session, a node can
take it as long as the pair is not closed, and a code could be visited, or worked on, before it is
made.  `LocalInv` says that a `masterHandler` reads only while its link is registered, so a link
that takes a session is still to be left; `CodeInv` that a code nobody made is nowhere and that
what was removed stays removed; `GuardInv` and `OwnerInv` are the two halves of the property, for
sessions without and with a node.  This invariant says nothing of the queues: whatever message
arrives, in whatever order, no session is forgotten.

* `SharedInvariant`: `Spec => []SharedInv`, and from it `NodesServe` and `OnlyUsersEndSessions`;
* `MachinesMeet`: `Spec => []PlaceInv`, and from both `EndsReachNodes`.  These relate the master's
  pair, the copies on nodes and the machines.

`SharedInv` is `IInv` and what the queues may hold.  A property that speaks of a session a node
*has* says nothing of the moment before, so each is stated from the first step that leads there:
`ServeInv` from when the node is about to send NewConn (`Claims`), `ReachInv` for copies nobody
came to, `UserInv` for reports a node has not sent yet.  They rest on the order of a queue, which
a lost message does not change; what they say of a DelCode that was lost is that it was
(`missedByMaster`, `missedByNode`).
`AddInv`: a node gets AddCode once over a link, and until then neither has a copy nor speaks of
the session, so no AddCode arrives behind a DelCode and revives what has ended.  `NewsInv`: nobody
speaks of a code that was not made, and DelCode is sent only when the code is out of the map.
`InvitedInv`: one handler adds a session, and machines are invited after that, so a machine never
finds a node without the code.  `ClosedInv` and `LinkInv`: what left the map is closed or about to
be, and a link that holds is the one its node is in touch over.

`EndReachesNode` is about every node, so it also has to exclude one that made its copy after the
session ended.  Such a copy may appear, and a timer ends it; but two machines never meet on it.
The viewer is invited only when a node has the session, and that is the node of the machine that
serves (`PlaceInv`), so wherever two machines meet, that node is the master's `node`.

`PresenceProofs.tla`, for any sets of connections, PIDs and profiles, from `PresenceAssumption` only:

* `PresenceInvariant`, and from it `TypeCorrect`, `AuthorizedIsExact`, and under `~Overlap`
  `ContainedIsComplete` and `OfflineArrives`.

The last two say something of the moments when nothing is going on; what keeps them true is what
goroutines are about to do.  `Complete` says that a profile which lists an online PID is in
`contained`, or a goroutine is on its way to add it (`Adds`); `Told` that whoever was shown a PID
as online, by an answer that was not out of date, will be found when it goes, or a goroutine is on its way to tell them (`Tells`).
`Apart` is what `~Overlap` gives: a PID has one connection at a time, so the goroutine that empties
the entry of a PID is the one whose going it is about.  A step is one of a single goroutine
(`Only`), so each action has to answer for its own part of `Adds` and `Tells`.

`ProfilesProofs.tla`, for any addresses, handlers and numbers of accounts and edits, from
`ProfilesAssumption` only:

* `ProfilesInvariant`, and from it `TypeCorrect`, `FileAlwaysWhole`, `ConfirmedAccountsStay`,
  `AccountsAreMailed`, and the action property `SavedAccountsStay`.

`Registering` says that the account of a handler is under the address it registers and no other
handler's, so `DelProfile` by address removes no one else's; `Saving` who holds the mutex and that
what is renamed is synced; `Snapshot` that as long as a saver holds the mutex each profile is
marshalled or still to be; `Placed` that an account has one address wherever it occurs; `Versions`
that `durable` is never ahead of the file, the file never of what replaces it, nor that of memory.
`SavedAccountsStay` takes a failure of the power as a step like the others: it may replace the
file, by what is durable, and what is durable never goes back.

`CountersProofs.tla`, for any finite set of clients and any lengths of the rings: `ClientsAreExact`
and `TodaysHoursAddUp`.  The second has its own invariant, `DayInv`: the day's bytes are the sum of
its hours in memory, and also in the file as long as the file is of the present hour, because that
is what a restart goes on from; and the counting is at most one hour behind the clock, so no hour
of the day is left with the entry of an older day.  That the chart of the day shows its hours, but
for less than a unit of each, follows from it by a lemma about sums of quotients.  The sum is a fold over a sequence;
`FoldLeft` is a recursive function of the length, and the lemmas about it (it is the sum of what is
before the last entry and of that entry) go by the least length at which they would fail, from `WFMin`: an induction over a set, which needs no operator as a parameter.

`OptionsProofs.tla`, for any requests and options: `OptionsStartAgain` and `SavedOptionsAgree`; their
invariant adds that a request which is alone holds what is in memory when it renames.

`ControlProofs.tla`, for any writers, any messages as in `MessagesAssumption`, any capacity of the
network, any limit of the reader, any number of sends and any others that move the deadline:

* `ControlInvariant`: `Spec => []IInv`, and from it `ControlTypes`, `ArrivesInOrder` and `NothingLost`.

`Ordered` speaks of messages, while writers and reader handle bytes, and a write may end within
one.  `LockInv` says that whoever writes has the mutex; `MineInv` that the messages of the one who
has it are the last of `order`, and which bytes of them are written; `ParserInv` that the reader is
inside one object, with the state that `Parse` gives for its bytes.  `FlowInv` relates both ends.
Until a write is cut off, the messages not delivered, one after the other, are the bytes the reader
has, those on the wire and those to be written (`Entire`).  After that, there are whole messages,
then the beginning of the one cut off, then beginnings of messages (`Damaged`): so the next object
that the reader completes after the whole ones begins with the cut and goes on with the beginning of
a message, and by `MessagesAssumption` no message does that (`BeyondCut`); the reader rejects it.
The lemmas are about the concatenation of messages (`FlattenSeq`, again by `WFMin`): where a number of
bytes falls among messages, that two decompositions agree on the first message, and that `Parse`
reaches depth zero at the end of a message and not before.

`ContactsProofs.tla`, for any addresses, any ids and any `MaxInt`, from
`ContactsAssumption` only (no address and no id is nil; a contact's id is an int; the largest int is not 0,
which follows from `Width` but not for a prover that knows no powers):

* `TreeInvariant`: `Spec => []TreeInv`, and from it `StaysATree` and `NewIdsAreFresh`;
* `IdsKeepLeading`: `Spec => FoundStays`, and from it `IdsLead`: `Spec /\ []HasRoom => []FoundById`.
  Without room the latter is false, as section 4 shows;
* `ContactsImplementTree`: `Spec => ImplementsTree`, of the steps that find ids which lead to their
  contacts and leave room.

`TreeShaped` counts pointers; what keeps it true is that the heap is a tree.  `Acyclic` says so
without a path: every set of contacts has one that points to none of them.  It gives induction
over the heap (take the set of contacts for which a claim fails), and with it that the recursive
functions of the model are defined at all (`Recursion`: what they compute below a contact agrees
wherever it is computed, so there is one function for the whole heap); `SkipIs`, `GetContactIs` and `GetNewIdIs`
are their equations.  `Apart` and `Rooted` say that no two pointers meet, and the last part of `TreeInv` that
nothing is in the heap but the tree.  A deletion makes pointers jump: `SkipMeets` says that two that
did not meet do not meet after their jump, and `InsideGoes` that what lies in the deleted contact
is apart from what stays, which is why a move may take the one and hang it into the other.
`FreshIds` goes over the heap once more: what `getNewId` returns for a list, plus how deep the list
lies, is at most the largest int, so it does not wrap, and it is beyond all ids that lie there.

For the refinement, `Placed` says of a function on the heap that it gives every contact its place:
what is first lies at the top, what is next lies where its predecessor does, and what is inside lies
in the contact.  In a tree there is one such function (`PlacesAgree`), so a step is followed by giving
one for the new heap: after a deletion the old places still do (`StayPlaced`; `StayIs` and `WithinIs`
say that what stays is all but what `Tree` takes away), and a link changes the place of the contact
linked only (`LinkPlaced`; `LinkAll` says that both parts it joins are kept whole).  Ids must be unique
for the tree of ids to be that of the contacts, which is what needs `FoundById` before and, by `HasRoom`, after the step.

Only model-checked: liveness (TLAPS proves none here).

## 6. Not modelled

* Requests that only look up a peer and forward to it (notification, infoContact, infoAnswer, manage,
  statuses) and the web token: they change no state that others see.
* Of the cluster, `AddBytes`, names and addresses, and what clients are told of nodes: `TMessServers`
  when one comes or goes, and `processServers`, which answers with the list.
* Of presence, a status that is lost because its write failed: the sender does not look at that
  either, so a client that does not read may miss a "0" and keep its connection.
* A change of Mode while sessions run: Options knows the mode, Relay and Cluster take it as fixed.
* Of the profiles, a file that is whole and cannot be read at the start: it is logged, and the next
  save replaces the file by the profiles in memory.  Several addresses in one run (the proofs
  cover them).
* Of the counters, the rings of week, month and year, which differ in their length only, time zones
  off the hour, and clocks that go back.
* The end of a control connection that is a client, which is another program, and the pages of the
  HTTP interface, which read and render.
* Geolocation and its cache, logs and their rotation, the VNC list: input and output.

## 7. Running

`tlc -config <cfg> <module>` for the runs of `PROJECT.json`, for instance
`tlc -config MCRelay_node.cfg MCRelay`; the longest, `store` and `presence_apart`, take about three minutes.  `tlapm RelayProofs.tla` and the same
for the other seven modules with proofs check these, in up to four minutes each.  Operators whose comment
says *mutant* are wrong on purpose: put in the place of the operator they follow, each breaks a
property, as `PROJECT.json` lists.

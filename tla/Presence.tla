----------------------------- MODULE Presence ------------------------------
(***************************************************************************)
(* Who is online, and who is told: the maps `clients` (PID to connections),*)
(* `authorized` (profile to connections logged in to it) and `contained`   *)
(* (PID to profiles that list it), and the goroutines of mainHandler that  *)
(* keep them.  Each map has a mutex of its own, so a handler that uses two *)
(* of them, or one of them twice, can be overtaken in between.             *)
(*                                                                         *)
(* A connection of the model connects once.  A contact tree is the set of  *)
(* PIDs in it.  Of the messages only the statuses are kept: those that a   *)
(* connection causes for others by coming and going, and those that answer *)
(* a client's own requests.                                                *)
(***************************************************************************)
CONSTANTS Conns,    \* control connections: the goroutine, its Client
          Pids,     \* identifiers of machines
          Emails,   \* profiles
          Overlap,  \* may a machine be back before the server cleaned up after it?
          None

ASSUME PresenceAssumption ==
  /\ Overlap \in BOOLEAN
  /\ None \notin Conns \cup Pids \cup Emails

VARIABLES clients,     \* clients[pid]
          authorized,  \* authorized[email]
          contained,   \* contained[pid]
          contacts,    \* PIDs in the contact tree of a profile
          holder,      \* who holds the lock of a profile
          pid,         \* Client.Pid
          profile,     \* Client.Profile
          pc,          \* where the goroutine of a connection is
          todo,        \* profiles its loop has still to visit
          email,       \* the profile it works on
          subject,     \* the PID it works on
          receivers,   \* connections it has still to notify
          answer,      \* PIDs whose status it has still to look up ("ask") or to send
          told         \* last status of a PID that one logged in to a profile was sent, first "0"

registry == <<clients, authorized, contained>>
locals == <<pid, profile, pc, todo, email, subject, receivers, answer>>
vars == <<registry, contacts, holder, locals, told>>

Label == {"fresh", "scan", "add", "list", "push", "idle", "relogin", "login", "contacts", "statuses",
          "status", "peers", "found", "changed", "reverse", "logout",
          "remove", "last", "lookup", "leave", "leaveList", "leavePush", "gone"}

TypeOK ==
  /\ clients \in [Pids -> SUBSET Conns]
  /\ authorized \in [Emails -> SUBSET Conns]
  /\ contained \in [Pids -> SUBSET Emails]
  /\ contacts \in [Emails -> SUBSET Pids]
  /\ holder \in [Emails -> Conns \cup {None}]
  /\ pid \in [Conns -> Pids \cup {None}]
  /\ profile \in [Conns -> Emails \cup {None}]
  /\ pc \in [Conns -> Label]
  /\ todo \in [Conns -> SUBSET Emails]
  /\ email \in [Conns -> Emails \cup {None}]
  /\ subject \in [Conns -> Pids \cup {None}]
  /\ receivers \in [Conns -> SUBSET Conns]
  /\ answer \in [Conns -> [Pids -> {"none", "ask", "0", "1"}]]
  /\ told \in [Emails -> [Pids -> [Conns -> {"0", "1", "stale"}]]]

\* The server starts with the profiles of the last run and nobody connected.
Init ==
  /\ clients = [q \in Pids |-> {}]
  /\ authorized = [e \in Emails |-> {}]
  /\ contained = [q \in Pids |-> {}]
  /\ contacts \in [Emails -> SUBSET Pids]
  /\ holder = [e \in Emails |-> None]
  /\ pid = [k \in Conns |-> None]
  /\ profile = [k \in Conns |-> None]
  /\ pc = [k \in Conns |-> "fresh"]
  /\ todo = [k \in Conns |-> {}]
  /\ email = [k \in Conns |-> None]
  /\ subject = [k \in Conns |-> None]
  /\ receivers = [k \in Conns |-> {}]
  /\ answer = [k \in Conns |-> [q \in Pids |-> "none"]]
  /\ told = [e \in Emails |-> [q \in Pids |-> [k \in Conns |-> "0"]]]

Goto(k, label) == pc' = [pc EXCEPT ![k] = label]
Free(e) == holder[e] = None

\* client.AddContainedProfile
AddContainedProfile(q, e) == contained' = [contained EXCEPT ![q] = @ \cup {e}]

\* client.DelAuthorizedClient, if there is a profile
DelAuthorizedClient(k, e) ==
  authorized' = [f \in Emails |-> IF f = e THEN authorized[f] \ {k} ELSE authorized[f]]

(***************************************************************************)
(* processAuth and addClientToProfile.                                     *)
(***************************************************************************)
Present(q) == \E k \in Conns : pid[k] = q /\ pc[k] # "gone"

\* SetIdentity and StoreClient.
Auth(k, q) ==
  /\ pc[k] = "fresh" /\ (Overlap \/ ~Present(q))
  /\ pid' = [pid EXCEPT ![k] = q]
  /\ clients' = [clients EXCEPT ![q] = @ \cup {k}]
  /\ todo' = [todo EXCEPT ![k] = Emails]
  /\ Goto(k, "scan")
  /\ UNCHANGED <<authorized, contained, contacts, holder, profile, email, subject, receivers, answer, told>>

\* One profile of the loop: GetContactByPid under the lock of the profile.
Scan(k, e) ==
  /\ pc[k] = "scan" /\ e \in todo[k] /\ Free(e)
  /\ todo' = [todo EXCEPT ![k] = @ \ {e}]
  /\ IF pid[k] \in contacts[e]
     THEN email' = [email EXCEPT ![k] = e] /\ Goto(k, "add")
     ELSE UNCHANGED <<email, pc>>
  /\ UNCHANGED <<registry, contacts, holder, pid, profile, subject, receivers, answer, told>>

Scanned(k) ==
  /\ pc[k] = "scan" /\ todo[k] = {}
  /\ Goto(k, "idle")
  /\ UNCHANGED <<registry, contacts, holder, pid, profile, todo, email, subject, receivers, answer, told>>

Add(k) ==
  /\ pc[k] = "add"
  /\ AddContainedProfile(pid[k], email[k])
  /\ Goto(k, "list")
  /\ UNCHANGED <<clients, authorized, contacts, holder, pid, profile, todo, email, subject, receivers, answer, told>>

\* GetAuthorizedClientList
List(k) ==
  /\ pc[k] = "list"
  /\ receivers' = [receivers EXCEPT ![k] = authorized[email[k]]]
  /\ Goto(k, "push")
  /\ UNCHANGED <<registry, contacts, holder, pid, profile, todo, email, subject, answer, told>>

\* sendMessage(TMessStatus, pid, status) to one of the list, or the end of the list.
Notify(k, status, next) ==
  /\ \/ \E w \in receivers[k] :
          /\ told' = [told EXCEPT ![email[k]][pid[k]][w] = status]
          /\ receivers' = [receivers EXCEPT ![k] = @ \ {w}]
          /\ UNCHANGED <<pc, email>>
     \/ /\ receivers[k] = {}
        /\ Goto(k, next)
        /\ email' = [email EXCEPT ![k] = None]
        /\ UNCHANGED <<receivers, answer, told>>
  /\ UNCHANGED <<registry, contacts, holder, pid, profile, todo, subject, answer>>

Push(k) == pc[k] = "push" /\ Notify(k, "1", "scan")

(***************************************************************************)
(* Requests of a client that is idle in its read loop.                     *)
(***************************************************************************)

\* processLogin: SetProfile, ...
Login(k, e) ==
  /\ pc[k] = "idle"
  /\ profile' = [profile EXCEPT ![k] = e]
  /\ email' = [email EXCEPT ![k] = profile[k]]
  /\ Goto(k, IF profile[k] = None THEN "login" ELSE "relogin")
  /\ UNCHANGED <<registry, contacts, holder, pid, todo, subject, receivers, answer, told>>

\* Mutant of Relogin: the client stays in the list of the profile it had.
ReloginKeeps(k) ==
  /\ pc[k] = "relogin"
  /\ email' = [email EXCEPT ![k] = None]
  /\ Goto(k, "login")
  /\ UNCHANGED <<registry, contacts, holder, pid, profile, todo, subject, receivers, answer, told>>

\* ... DelAuthorizedClient of the profile before, ...
Relogin(k) ==
  /\ pc[k] = "relogin"
  /\ DelAuthorizedClient(k, email[k])
  /\ email' = [email EXCEPT ![k] = None]
  /\ Goto(k, "login")
  /\ UNCHANGED <<clients, contained, contacts, holder, pid, profile, todo, subject, receivers, answer, told>>

\* A client forgets the statuses it was sent when it logs in, logs out or is gone.
Forget(k) == told' = [e \in Emails |-> [q \in Pids |-> [told[e][q] EXCEPT ![k] = "0"]]]

\* ... AddAuthorizedClient, and processContacts.
LoggedIn(k) ==
  /\ pc[k] = "login"
  /\ authorized' = [authorized EXCEPT ![profile[k]] = @ \cup {k}]
  /\ Forget(k)
  /\ Goto(k, "contacts")
  /\ UNCHANGED <<clients, contained, contacts, holder, pid, profile, todo, email, subject, receivers, answer>>

\* processLogout: DelAuthorizedClient, ...
Logout(k) ==
  /\ pc[k] = "idle" /\ profile[k] # None
  /\ DelAuthorizedClient(k, profile[k])
  /\ Forget(k)
  /\ Goto(k, "logout")
  /\ UNCHANGED <<clients, contained, contacts, holder, pid, profile, todo, email, subject, receivers, answer>>

\* ... and SetProfile(nil).
LoggedOut(k) ==
  /\ pc[k] = "logout"
  /\ profile' = [profile EXCEPT ![k] = None]
  /\ Goto(k, "idle")
  /\ UNCHANGED <<registry, contacts, holder, pid, todo, email, subject, receivers, answer, told>>

(***************************************************************************)
(* Statuses as answers.                                                    *)
(***************************************************************************)

\* k goes on with a, which is still to be answered, if there is anything in it.
Answering(k, a, label) ==
  /\ answer' = [answer EXCEPT ![k] = a]
  /\ Goto(k, IF \A q \in Pids : a[q] = "none" THEN "idle" ELSE label)

\* processContacts or processStatuses: a copy of the contacts under the lock of the profile.
AskAll(k) ==
  LET e == profile[k] IN
  /\ pc[k] \in {"idle", "contacts"} /\ e # None /\ Free(e)
  /\ Answering(k, [q \in Pids |-> IF q \in contacts[e] THEN "ask" ELSE "none"], "statuses")
  /\ UNCHANGED <<registry, contacts, holder, pid, profile, todo, email, subject, receivers, told>>

\* processStatus of one contact, which processContact calls for the contact that it changed;
\* that one may be different or gone by then.
AskOne(k) ==
  LET e == profile[k] IN
  /\ pc[k] \in {"idle", "changed"} /\ e # None /\ Free(e)
  /\ \E S \in SUBSET contacts[e] :
       /\ S = {} \/ \E q \in S : S = {q}
       /\ subject[k] \in contacts[e] => S = {subject[k]}
       /\ Answering(k, [q \in Pids |-> IF q \in S THEN "ask" ELSE "none"], "status")
  /\ subject' = [subject EXCEPT ![k] = None]
  /\ UNCHANGED <<registry, contacts, holder, pid, profile, todo, email, receivers, told>>

\* GetClientsList of one of them.  checkStatuses leaves out who is offline.
ReadStatus(k, q) ==
  LET offline == IF pc[k] = "status" THEN "0" ELSE "none" IN
  /\ pc[k] \in {"statuses", "status"} /\ answer[k][q] = "ask"
  /\ Answering(k, [answer[k] EXCEPT ![q] = IF clients[q] = {} THEN offline ELSE "1"], pc[k])
  /\ UNCHANGED <<registry, contacts, holder, pid, profile, todo, email, subject, receivers, told>>

\* Is q online and a contact of e, and nobody is just making it one?
Current(q, e) ==
  /\ clients[q] # {} /\ q \in contacts[e]
  /\ \A k \in Conns : pc[k] \in {"peers", "found"} => subject[k] # q \/ profile[k] # e

\* The answer is sent (checkStatuses sends level by level); a "1" may be out of date by then.
Answer(k, q) ==
  LET status == answer[k][q]
      e == profile[k] IN
  /\ pc[k] \in {"statuses", "status"} /\ status \in {"0", "1"}
  /\ Answering(k, [answer[k] EXCEPT ![q] = "none"], pc[k])
  /\ told' = [told EXCEPT ![e][q][k] = IF status = "1" /\ ~Current(q, e) THEN "stale" ELSE status]
  /\ UNCHANGED <<registry, contacts, holder, pid, profile, todo, email, subject, receivers>>

(***************************************************************************)
(* Changes of contacts.                                                    *)
(***************************************************************************)

\* A contact that is deleted takes along what was shown of it.
Drop(e, S) ==
  told' = [told EXCEPT ![e] = [q \in Pids |-> IF q \in S THEN [k \in Conns |-> "0"] ELSE @[q]]]

\* processContact "del": the contact and everything in it leave the tree.
DelContact(k, S) ==
  LET e == profile[k] IN
  /\ pc[k] = "idle" /\ e # None /\ Free(e)
  /\ S # {} /\ S \subseteq contacts[e]
  /\ contacts' = [contacts EXCEPT ![e] = @ \ S]
  /\ Drop(e, S)
  /\ UNCHANGED <<registry, holder, locals>>

\* processContact: under the lock the tree gets q, in a new contact (old = None) or
\* in one that had the PID old, ...
EditContact(k, old, q) ==
  LET e == profile[k] IN
  /\ pc[k] = "idle" /\ e # None /\ Free(e)
  /\ old \in contacts[e] \cup {None}
  /\ contacts' = [contacts EXCEPT ![e] = (@ \ {old}) \cup {q}]
  /\ holder' = [holder EXCEPT ![e] = k]
  /\ Drop(e, {old} \ {q})
  /\ subject' = [subject EXCEPT ![k] = q]
  /\ Goto(k, "peers")
  /\ UNCHANGED <<registry, pid, profile, todo, email, receivers, answer>>

\* processContact unlocks its profile, and answers with the status of the contact.
Release(k) ==
  /\ holder' = [holder EXCEPT ![profile[k]] = None]
  /\ Goto(k, "changed")

\* ... GetClientsList says whether q is online, ...
Peers(k) ==
  /\ pc[k] = "peers"
  /\ IF clients[subject[k]] = {}
     THEN Release(k)
     ELSE Goto(k, "found") /\ UNCHANGED holder
  /\ UNCHANGED <<registry, contacts, pid, profile, todo, email, subject, receivers, answer, told>>

\* Mutants of Found: the lock is not released, or the profile is not added.
FoundHold(k) ==
  /\ pc[k] = "found"
  /\ AddContainedProfile(subject[k], profile[k])
  /\ Goto(k, "changed")
  /\ UNCHANGED <<clients, authorized, contacts, holder, pid, profile, todo, email, subject, receivers, answer, told>>

FoundOnly(k) ==
  /\ pc[k] = "found"
  /\ Release(k)
  /\ UNCHANGED <<registry, contacts, pid, profile, todo, email, subject, receivers, answer, told>>

\* ... AddContainedProfile for it, and the lock is released.
Found(k) ==
  /\ pc[k] = "found"
  /\ AddContainedProfile(subject[k], profile[k])
  /\ Release(k)
  /\ UNCHANGED <<clients, authorized, contacts, pid, profile, todo, email, subject, receivers, answer, told>>

\* Mutant of ContactReverse: the client need not have authorized.
ContactReverseAny(k, e) ==
  /\ pc[k] \in {"fresh", "idle"} /\ Free(e)
  /\ contacts' = [contacts EXCEPT ![e] = @ \cup {pid[k]}]
  /\ email' = [email EXCEPT ![k] = e]
  /\ Goto(k, "reverse")
  /\ UNCHANGED <<registry, holder, pid, profile, todo, subject, receivers, answer, told>>

\* processContactReverse: the client puts itself into a profile, under its lock, ...
ContactReverse(k, e) ==
  /\ pc[k] = "idle" /\ Free(e)
  /\ contacts' = [contacts EXCEPT ![e] = @ \cup {pid[k]}]
  /\ email' = [email EXCEPT ![k] = e]
  /\ Goto(k, "reverse")
  /\ UNCHANGED <<registry, holder, pid, profile, todo, subject, receivers, answer, told>>

\* ... and AddContainedProfile after it.  (The status it sends names the contact, not
\* the PID.)
Reversed(k) ==
  /\ pc[k] = "reverse"
  /\ AddContainedProfile(pid[k], email[k])
  /\ email' = [email EXCEPT ![k] = None]
  /\ Goto(k, "idle")
  /\ UNCHANGED <<clients, authorized, contacts, holder, pid, profile, todo, subject, receivers, answer, told>>

(***************************************************************************)
(* The connection ends: the deferred function of mainHandler.              *)
(***************************************************************************)

\* DelAuthorizedClient.  A connection that never authorized leaves nothing behind.
Disconnect(k) ==
  /\ pc[k] \in {"fresh", "idle"}
  /\ DelAuthorizedClient(k, profile[k])
  /\ Forget(k)
  /\ Goto(k, IF pid[k] = None THEN "gone" ELSE "remove")
  /\ UNCHANGED <<clients, contained, contacts, holder, pid, profile, todo, email, subject, receivers, answer>>

RemoveClient(k) ==
  /\ pc[k] = "remove"
  /\ clients' = [clients EXCEPT ![pid[k]] = @ \ {k}]
  /\ Goto(k, "last")
  /\ UNCHANGED <<authorized, contained, contacts, holder, pid, profile, todo, email, subject, receivers, answer, told>>

\* len(GetClientsList(pid)) == 0
Last(k) ==
  /\ pc[k] = "last"
  /\ Goto(k, IF clients[pid[k]] = {} THEN "lookup" ELSE "gone")
  /\ UNCHANGED <<registry, contacts, holder, pid, profile, todo, email, subject, receivers, answer, told>>

\* Mutant of Lookup: DelContainedProfiles comes first.
LookupLate(k) ==
  /\ pc[k] = "lookup"
  /\ contained' = [contained EXCEPT ![pid[k]] = {}]
  /\ todo' = [todo EXCEPT ![k] = {}]
  /\ Goto(k, "leave")
  /\ UNCHANGED <<clients, authorized, contacts, holder, pid, profile, email, subject, receivers, answer, told>>

\* GetContainedProfileList
Lookup(k) ==
  /\ pc[k] = "lookup"
  /\ todo' = [todo EXCEPT ![k] = contained[pid[k]]]
  /\ Goto(k, "leave")
  /\ UNCHANGED <<registry, contacts, holder, pid, profile, email, subject, receivers, answer, told>>

\* The next profile of the loop, or DelContainedProfiles after it.
Leave(k) ==
  /\ pc[k] = "leave"
  /\ \/ \E e \in todo[k] :
          /\ todo' = [todo EXCEPT ![k] = @ \ {e}]
          /\ email' = [email EXCEPT ![k] = e]
          /\ Goto(k, "leaveList")
          /\ UNCHANGED contained
     \/ /\ todo[k] = {}
        /\ contained' = [contained EXCEPT ![pid[k]] = {}]
        /\ Goto(k, "gone")
        /\ UNCHANGED <<todo, email>>
  /\ UNCHANGED <<clients, authorized, contacts, holder, pid, profile, subject, receivers, answer, told>>

LeaveList(k) ==
  /\ pc[k] = "leaveList"
  /\ receivers' = [receivers EXCEPT ![k] = authorized[email[k]]]
  /\ Goto(k, "leavePush")
  /\ UNCHANGED <<registry, contacts, holder, pid, profile, todo, email, subject, answer, told>>

LeavePush(k) == pc[k] = "leavePush" /\ Notify(k, "0", "leave")

(***************************************************************************)
(* The whole.                                                              *)
(***************************************************************************)
Joining(k) == Scanned(k) \/ Add(k) \/ List(k) \/ Push(k) \/ \E e \in Emails : Scan(k, e)
Handling(k) ==
  \/ Relogin(k) \/ LoggedIn(k) \/ LoggedOut(k) \/ Peers(k) \/ Found(k) \/ Reversed(k)
  \/ pc[k] = "contacts" /\ AskAll(k)
  \/ pc[k] = "changed" /\ AskOne(k)
  \/ \E q \in Pids : ReadStatus(k, q) \/ Answer(k, q)
Leaving(k) == RemoveClient(k) \/ Last(k) \/ Lookup(k) \/ Leave(k) \/ LeaveList(k) \/ LeavePush(k)

Request(k) ==
  \/ \E q \in Pids : Auth(k, q)
  \/ \E e \in Emails : Login(k, e) \/ ContactReverse(k, e)
  \/ \E q \in Pids, old \in Pids \cup {None} : EditContact(k, old, q)
  \/ \E S \in SUBSET Pids : DelContact(k, S)
  \/ pc[k] = "idle" /\ (AskAll(k) \/ AskOne(k))
  \/ Logout(k)
  \/ Disconnect(k)

Next == \E k \in Conns : Joining(k) \/ Handling(k) \/ Leaving(k) \/ Request(k)

\* A handler goes on by itself; the lock of a profile is a sync.Mutex, which hands
\* itself to whoever has waited too long, hence strong fairness where it is taken.
Fairness ==
  \A k \in Conns : /\ SF_vars(Joining(k))
                   /\ SF_vars(Handling(k))
                   /\ WF_vars(Leaving(k))

Spec == Init /\ [][Next]_vars /\ Fairness

(***************************************************************************)
(* Properties.                                                             *)
(***************************************************************************)
Online(q) == clients[q] # {}

\* No goroutine is in the middle of something.
Settled == \A k \in Conns : pc[k] \in {"fresh", "idle", "gone"}

\* A connection is in `authorized` of the profile it is logged in to and of no other,
\* through logins to a second profile, logouts and disconnects at any point; only while it
\* changes from one profile to another it may still be in the list of the one before.
AuthorizedExact ==
  \A k \in Conns, e \in Emails :
    k \in authorized[e] <=>
      \/ pc[k] = "relogin" /\ email[k] = e
      \/ /\ profile[k] = e
         /\ pc[k] \notin {"relogin", "login", "logout", "remove", "last", "lookup", "leave",
                          "leaveList", "leavePush", "gone"}

\* contained.go: "держим список онлайн клиентов которые присутствуют в профилях": every
\* profile that lists a PID which is online is found when the PID has news.  The scan of
\* addClientToProfile and the edit of processContact, which use the maps in opposite
\* order, do not miss each other.
ContainedComplete ==
  Settled => \A q \in Pids, e \in Emails : Online(q) /\ q \in contacts[e] => e \in contained[q]

\* The same list holds online clients only.
ContainedOnline ==
  Settled => \A q \in Pids : contained[q] # {} => Online(q)

\* contained.go: "GetContainedProfileList возвращает список профилей где есть указанный
\* pid".
ContainedListed ==
  Settled => \A q \in Pids, e \in Emails : e \in contained[q] => q \in contacts[e]

\* What the list is for: nobody who is logged in is left with a contact that the server
\* said is online, by itself or as an answer, and that has gone since.  The one exception is
\* an answer that was out of date when it was sent.
OfflineIsPushed ==
  Settled => \A e \in Emails, q \in Pids : \A w \in authorized[e] :
    q \in contacts[e] /\ told[e][q][w] = "1" => Online(q)

\* Authorization ends, though it takes the lock of every profile in turn while others
\* edit them without end.
AuthCompletes == \A k \in Conns : (pc[k] = "scan") ~> (pc[k] = "idle")
=============================================================================

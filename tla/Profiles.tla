----------------------------- MODULE Profiles ------------------------------
(***************************************************************************)
(* The profile store: accounts in memory (profile.go), their registration  *)
(* by mail (processReg), the edits of those who are logged in, and the     *)
(* file that SaveProfiles writes every few seconds and once more on a      *)
(* signal, with crashes of the process and of the machine at any point.    *)
(*                                                                         *)
(* An account is the object made by one NewProfileWithPassword; what its   *)
(* owner keeps in it (contacts, caption, a new password) is a version that *)
(* every edit raises.  A restart makes new objects with the old contents:  *)
(* nothing holds on to the objects before, so they keep their names.       *)
(***************************************************************************)
EXTENDS Naturals

CONSTANTS Emails,       \* addresses, as processReg normalises them
          Handlers,     \* control connections
          Helper, Main, \* goroutines that save: HelperThread, and main on a signal
          MaxAccounts,  \* bound: accounts made
          MaxEdits,     \* bound: edits of an account
          None

Savers == {Helper, Main}
Accounts == 1..MaxAccounts

ASSUME ProfilesAssumption ==
  /\ MaxAccounts \in Nat \ {0} /\ MaxEdits \in Nat
  /\ None \notin Emails \cup Handlers \cup Savers
  /\ Helper # Main

VARIABLES profiles,  \* the map: account of an address, 0 for none
          version,   \* contents of an account in memory
          made,      \* accounts made so far
          mutex,     \* profile.mutex
          smtp,      \* is options.ServerSMTP set?
          pc,        \* where the handler of a connection is
          email,     \* address it registers
          seen,      \* its smtpEnabled
          account,   \* its newProfile
          session,   \* account the connection is logged in to, 0 for none
          stage,     \* where a saver is
          todo,      \* profiles it has still to marshal
          temp,      \* what it marshalled, and how far that is in its temporary file
          file,      \* what a reader finds under the name of the file
          durable,   \* what a reader would find there after a failure of the power
          running,   \* is the server up?
          mailed,    \* accounts whose password was delivered
          silent,    \* accounts of requests that began when no mail could be sent
          confirmed, \* accounts reported as registered, and not lost in a crash since
          reloaded   \* accounts that were read from the file

memory == <<profiles, version, made, mutex>>
registering == <<pc, email, seen, account>>
saving == <<stage, todo, temp>>
disk == <<file, durable>>
history == <<mailed, silent, confirmed, reloaded>>
vars == <<memory, smtp, registering, session, saving, disk, running, history>>

Entry == [account : Accounts \cup {0}, version : 0..MaxEdits]
Nobody == [account |-> 0, version |-> 0]
Content == [Emails -> Entry]
Empty == [e \in Emails |-> Nobody]
File == [content : Content, state : {"partial", "written", "synced"}]
NoFile == [content |-> Empty, state |-> "partial"]

TypeOK ==
  /\ profiles \in [Emails -> Accounts \cup {0}]
  /\ version \in [Accounts -> 0..MaxEdits]
  /\ made \in 0..MaxAccounts
  /\ mutex \in Savers \cup {None}
  /\ smtp \in BOOLEAN
  /\ pc \in [Handlers -> {"idle", "check", "new", "mail", "undo", "reply"}]
  /\ email \in [Handlers -> Emails \cup {None}]
  /\ seen \in [Handlers -> BOOLEAN]
  /\ account \in [Handlers -> Accounts \cup {0}]
  /\ session \in [Handlers -> Accounts \cup {0}]
  /\ stage \in [Savers -> {"idle", "marshal", "sync", "rename", "exit"}]
  /\ todo \in [Savers -> SUBSET (Emails \X Accounts)]
  /\ temp \in [Savers -> File]
  /\ file \in File /\ durable \in File
  /\ running \in BOOLEAN
  /\ mailed \subseteq Accounts /\ silent \subseteq Accounts
  /\ confirmed \subseteq Accounts /\ reloaded \subseteq Accounts

\* The server starts without accounts, or with one that an earlier run saved.
Init ==
  \E e0 \in Emails \cup {None} :
    LET first == [e \in Emails |-> IF e = e0 THEN 1 ELSE 0]
        owned == IF e0 = None THEN {} ELSE {1} IN
    /\ profiles = first
    /\ version = [a \in Accounts |-> 0]
    /\ made = (IF e0 = None THEN 0 ELSE 1)
    /\ mutex = None
    /\ smtp \in BOOLEAN
    /\ pc = [h \in Handlers |-> "idle"]
    /\ email = [h \in Handlers |-> None]
    /\ seen = [h \in Handlers |-> FALSE]
    /\ account = [h \in Handlers |-> 0]
    /\ session = [h \in Handlers |-> 0]
    /\ stage = [s \in Savers |-> "idle"]
    /\ todo = [s \in Savers |-> {}]
    /\ temp = [s \in Savers |-> NoFile]
    /\ file = [content |-> [e \in Emails |-> [account |-> first[e], version |-> 0]], state |-> "synced"]
    /\ durable = file
    /\ running = TRUE
    /\ mailed = owned /\ silent = {} /\ confirmed = owned /\ reloaded = owned

Goto(h, label) == pc' = [pc EXCEPT ![h] = label] /\ UNCHANGED <<email, seen, account>>

\* processReg ends, and its variables with it.
Return(h) ==
  /\ pc' = [pc EXCEPT ![h] = "idle"]
  /\ email' = [email EXCEPT ![h] = None]
  /\ seen' = [seen EXCEPT ![h] = FALSE]
  /\ account' = [account EXCEPT ![h] = 0]

(***************************************************************************)
(* processReg.                                                             *)
(***************************************************************************)

\* smtpEnabled is read, ...
Register(h, e) ==
  /\ pc[h] = "idle" /\ running
  /\ email' = [email EXCEPT ![h] = e]
  /\ seen' = [seen EXCEPT ![h] = smtp]
  /\ pc' = [pc EXCEPT ![h] = IF smtp THEN "new" ELSE "check"]
  /\ UNCHANGED <<memory, smtp, account, session, saving, disk, running, history>>

\* ... without SMTP an address that has no profile is refused, ...
Check(h) ==
  /\ pc[h] = "check"
  /\ IF profiles[email[h]] = 0 THEN Return(h) ELSE Goto(h, "new")
  /\ UNCHANGED <<memory, smtp, session, saving, disk, running, history>>

\* NewProfileWithPassword stores a new account for h, ...
Store(h) ==
  /\ made < MaxAccounts
  /\ made' = made + 1
  /\ profiles' = [profiles EXCEPT ![email[h]] = made']
  /\ account' = [account EXCEPT ![h] = made']
  /\ silent' = (IF seen[h] THEN silent ELSE silent \cup {made'})
  /\ pc' = [pc EXCEPT ![h] = IF seen[h] THEN "mail" ELSE "reply"]
  /\ UNCHANGED <<email, seen>>

\* Mutant of New: the address is not looked up again under the mutex.
NewUnchecked(h) ==
  /\ pc[h] = "new" /\ mutex = None
  /\ Store(h)
  /\ UNCHANGED <<version, mutex, smtp, session, saving, disk, running, mailed,
                 confirmed, reloaded>>

\* ... unless the address has one, which is only reported.
New(h) ==
  /\ pc[h] = "new" /\ mutex = None
  /\ IF profiles[email[h]] = 0
     THEN Store(h)
     ELSE Return(h) /\ UNCHANGED <<profiles, made, silent>>
  /\ UNCHANGED <<version, mutex, smtp, session, saving, disk, running, mailed,
                 confirmed, reloaded>>

\* Mutant of Mail: the error of SendEmail is ignored.
MailIgnored(h) ==
  /\ pc[h] = "mail"
  /\ \/ smtp /\ mailed' = mailed \cup {account[h]}
     \/ UNCHANGED mailed
  /\ Goto(h, "reply")
  /\ UNCHANGED <<memory, smtp, session, saving, disk, running, silent, confirmed, reloaded>>

\* SendEmail reads the options again.  A mail may arrive although its sender lost the
\* answer of the SMTP server and takes it for lost.
Mail(h) ==
  /\ pc[h] = "mail"
  /\ \/ smtp /\ mailed' = mailed \cup {account[h]} /\ Goto(h, "reply")
     \/ smtp /\ mailed' = mailed \cup {account[h]} /\ Goto(h, "undo")
     \/ UNCHANGED mailed /\ Goto(h, "undo")
  /\ UNCHANGED <<memory, smtp, session, saving, disk, running,
                 silent, confirmed, reloaded>>

\* Mutant of Undo: the address keeps an entry without a profile.
UndoNil(h) ==
  /\ pc[h] = "undo" /\ mutex = None
  /\ profiles' = [profiles EXCEPT ![email[h]] = None]
  /\ Return(h)
  /\ UNCHANGED <<version, made, mutex, smtp, session, saving, disk, running, history>>

\* DelProfile removes what the address has, and the client is told that the mail failed.
Undo(h) ==
  /\ pc[h] = "undo" /\ mutex = None
  /\ profiles' = [profiles EXCEPT ![email[h]] = 0]
  /\ Return(h)
  /\ UNCHANGED <<version, made, mutex, smtp, session, saving, disk, running, history>>

\* "success": the account is created and its password is in the mail.
Reply(h) ==
  /\ pc[h] = "reply"
  /\ confirmed' = confirmed \cup {account[h]}
  /\ Return(h)
  /\ UNCHANGED <<memory, smtp, session, saving, disk, running, mailed,
                 silent, reloaded>>

(***************************************************************************)
(* Use of an account, and the options.                                     *)
(***************************************************************************)

\* processLogin, or checkProfileAuth of a web request: only the owner of a password
\* that was delivered knows it.
Login(h, e) ==
  /\ pc[h] = "idle" /\ running /\ profiles[e] \in mailed
  /\ session' = [session EXCEPT ![h] = profiles[e]]
  /\ UNCHANGED <<memory, smtp, registering, saving, disk, running, history>>

\* processContact, processContactReverse, processApiProfileSave: under the lock of the
\* profile, on the object that the login found.
Edit(h) ==
  LET a == session[h] IN
  /\ pc[h] = "idle" /\ a # 0 /\ version[a] < MaxEdits
  /\ version' = [version EXCEPT ![a] = @ + 1]
  /\ UNCHANGED <<profiles, made, mutex, smtp, registering, session, saving, disk, running, history>>

\* processApiOptionsSave sets or clears ServerSMTP.
SwitchSmtp ==
  /\ running
  /\ smtp' = ~smtp
  /\ UNCHANGED <<memory, registering, session, saving, disk, running, history>>

(***************************************************************************)
(* SaveProfiles, by HelperThread again and again and by main on a signal.  *)
(***************************************************************************)
At(s, label) == stage' = [stage EXCEPT ![s] = label]

\* Mutant of SaveProfiles: without the mutex.
SaveProfilesUnlocked(s) ==
  /\ stage[s] = "idle" /\ running
  /\ todo' = [todo EXCEPT ![s] = {<<e, profiles[e]>> : e \in {d \in Emails : profiles[d] # 0}}]
  /\ At(s, "marshal")
  /\ UNCHANGED <<temp, memory, smtp, registering, session, disk, running, history>>

\* The mutex, and GetProfileList; ...
SaveProfiles(s) ==
  /\ stage[s] = "idle" /\ running /\ mutex = None
  /\ mutex' = s
  /\ todo' = [todo EXCEPT ![s] = {<<e, profiles[e]>> : e \in {d \in Emails : profiles[d] # 0}}]
  /\ At(s, "marshal")
  /\ UNCHANGED <<temp, profiles, version, made, smtp, registering, session, disk, running, history>>

\* ... MarshalJSON of one profile after the other, each under its own lock; ...
Marshal(s, e, a) ==
  /\ stage[s] = "marshal" /\ <<e, a>> \in todo[s]
  /\ temp' = [temp EXCEPT ![s].content[e] = [account |-> a, version |-> version[a]]]
  /\ todo' = [todo EXCEPT ![s] = @ \ {<<e, a>>}]
  /\ UNCHANGED <<memory, smtp, registering, session, stage, disk, running, history>>

\* ... SaveFile: a temporary file is made and written, ...
Write(s) ==
  /\ stage[s] = "marshal" /\ todo[s] = {}
  /\ temp' = [temp EXCEPT ![s].state = "written"]
  /\ At(s, "sync")
  /\ UNCHANGED <<memory, smtp, registering, session, todo, disk, running, history>>

\* ... synced and closed, ...
Sync(s) ==
  /\ stage[s] = "sync"
  /\ temp' = [temp EXCEPT ![s].state = "synced"]
  /\ At(s, "rename")
  /\ UNCHANGED <<memory, smtp, registering, session, todo, disk, running, history>>

\* The mutex is released; main goes on to its end.
Release(s) ==
  /\ mutex' = None
  /\ temp' = [temp EXCEPT ![s] = NoFile]
  /\ todo' = [todo EXCEPT ![s] = {}]
  /\ At(s, IF s = Main THEN "exit" ELSE "idle")

\* ... and takes the name of the file.  SaveFile does not sync the directory, ...
Rename(s) ==
  /\ stage[s] = "rename"
  /\ file' = temp[s]
  /\ Release(s)
  /\ UNCHANGED <<profiles, version, made, smtp, registering, session, durable, running, history>>

\* ... so it is the file system that makes the new name durable, some time later.
Settle ==
  /\ durable' = file
  /\ UNCHANGED <<memory, smtp, registering, session, saving, file, running, history>>

\* Mutant of SaveFails: the error path leaves the mutex locked.
SaveFailsLocked(s) ==
  /\ stage[s] \in {"marshal", "sync", "rename"}
  /\ todo[s] = {}
  /\ temp' = [temp EXCEPT ![s] = NoFile]
  /\ At(s, IF s = Main THEN "exit" ELSE "idle")
  /\ UNCHANGED <<todo, memory, smtp, registering, session, disk, running, history>>

\* An error of the disk at any step is logged, and the temporary file removed.
SaveFails(s) ==
  /\ stage[s] \in {"marshal", "sync", "rename"}
  /\ todo[s] = {}
  /\ Release(s)
  /\ UNCHANGED <<profiles, version, made, smtp, registering, session, disk, running, history>>

(***************************************************************************)
(* The process ends, by itself after the signal or in a crash, and starts  *)
(* again.                                                                  *)
(***************************************************************************)
Whole(f) == f.state # "partial"
Holds(f, a) == Whole(f) /\ \E e \in Emails : f.content[e].account = a
Readable == Whole(file)
InFile(a) == Holds(file, a)

\* What is left of the process is the file.
Down(left) ==
  /\ running' = FALSE
  /\ profiles' = [e \in Emails |-> 0]
  /\ version' = [a \in Accounts |-> 0]
  /\ mutex' = None
  /\ pc' = [h \in Handlers |-> "idle"]
  /\ email' = [h \in Handlers |-> None]
  /\ seen' = [h \in Handlers |-> FALSE]
  /\ account' = [h \in Handlers |-> 0]
  /\ session' = [h \in Handlers |-> 0]
  /\ stage' = [s \in Savers |-> "idle"]
  /\ todo' = [s \in Savers |-> {}]
  /\ temp' = [s \in Savers |-> NoFile]
  /\ file' = left
  /\ confirmed' = {a \in confirmed : Holds(left, a)}
  /\ UNCHANGED <<made, smtp, mailed, silent, reloaded>>

Exit == running /\ stage[Main] = "exit" /\ Down(file) /\ UNCHANGED durable

\* The process crashes: what it wrote stays in the file system.
Crash == running /\ Down(file) /\ UNCHANGED durable

\* The power fails, the server up or down: the directory may be the one before the last
\* rename, and of a file that was not synced a part is lost.
PowerFails ==
  LET left == [durable EXCEPT !.state = IF @ = "written" THEN "partial" ELSE @]
  IN Down(left) /\ durable' = left

\* LoadProfiles; a file that cannot be read is an error that is only logged.
Start ==
  /\ ~running
  /\ running' = TRUE
  /\ IF Readable
     THEN /\ profiles' = [e \in Emails |-> file.content[e].account]
          /\ version' = [a \in Accounts |->
               IF InFile(a) THEN file.content[CHOOSE e \in Emails : file.content[e].account = a].version
                            ELSE 0]
          /\ reloaded' = reloaded \cup {a \in Accounts : InFile(a)}
     ELSE UNCHANGED <<profiles, version, reloaded>>
  /\ UNCHANGED <<made, mutex, smtp, registering, session, saving, disk, mailed, silent, confirmed>>

(***************************************************************************)
(* The whole.                                                              *)
(***************************************************************************)
Request(h) == Edit(h) \/ \E e \in Emails : Register(h, e) \/ Login(h, e)
Handling(h) == Check(h) \/ New(h) \/ Mail(h) \/ Undo(h) \/ Reply(h)
Save(s) ==
  \/ SaveProfiles(s) \/ Write(s) \/ Sync(s) \/ Rename(s) \/ SaveFails(s)
  \/ \E e \in Emails, a \in Accounts : Marshal(s, e, a)

Next ==
  \/ \E h \in Handlers : Request(h) \/ Handling(h)
  \/ \E s \in Savers : Save(s)
  \/ SwitchSmtp \/ Settle \/ Exit \/ Crash \/ PowerFails \/ Start

\* HelperThread saves for ever and gets the mutex from whoever else saves; the disk does not
\* fail all the saves that it begins.
Fairness ==
  /\ WF_vars(Save(Helper)) /\ WF_vars(stage[Main] # "idle" /\ Save(Main))
  /\ SF_vars(SaveProfiles(Helper))
  /\ []<><<SaveProfiles(Helper)>>_vars => []<><<Rename(Helper)>>_vars

Spec == Init /\ [][Next]_vars /\ Fairness

(***************************************************************************)
(* Properties.                                                             *)
(***************************************************************************)

\* SaveFile: whatever the moment of a crash, there is a whole file to start from.
FileWhole == Readable

\* Who was told that an account is created has it, under the address that was registered,
\* for as long as the server runs: no other registration of the address replaces the
\* account or removes it together with its own (NewProfileWithPassword looks under the
\* mutex, DelProfile goes by address).
ConfirmedStay == running => \A a \in confirmed : \E e \in Emails : profiles[e] = a

\* An account whose password nobody was sent is still being registered, was made for a
\* request that began when no mail could be sent, or survived the end of the process in the file.
AccountMailed ==
  \A e \in Emails : profiles[e] \in mailed \cup silent \cup reloaded \cup {0}
    \/ \E h \in Handlers : account[h] = profiles[e] /\ pc[h] \in {"mail", "undo"}

\* A confirmed account that one file holds is in the file that follows, which can be read,
\* with contents that are not older.
Keeps(f, next) ==
  \A e \in Emails : f.content[e].account \in confirmed =>
    /\ Whole(next)
    /\ next.content[e].account = f.content[e].account
    /\ next.content[e].version >= f.content[e].version

\* What was saved of a confirmed account is never lost or replaced by something older, with
\* two goroutines that save and crashes of the process at any step of theirs.  A failure
\* of the power may take the file back, but not behind what the disk already has.
SavedStay ==
  /\ [][PowerFails \/ Keeps(file, file')]_file
  /\ [][Keeps(durable, durable')]_durable

\* What the server has for an address, or that it has nothing, is what the file says again
\* and again, unless it is the accounts that change for ever, or the process is down.
Current(e) == [account |-> profiles[e], version |-> IF profiles[e] = 0 THEN 0 ELSE version[profiles[e]]]
FileFollows ==
  \A e \in Emails :
    \/ []<>(~running \/ (Readable /\ file.content[e] = Current(e)))
    \/ []<><<Current(e)' # Current(e)>>_vars
=============================================================================

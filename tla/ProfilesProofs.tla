--------------------------- MODULE ProfilesProofs ---------------------------
(***************************************************************************)
(* Proofs about Profiles, for any addresses, handlers and numbers of       *)
(* accounts and edits: no registration harms another, and no save or crash *)
(* harms what was saved.                                                   *)
(***************************************************************************)
EXTENDS Profiles, TLAPS

(***************************************************************************)
(* The inductive invariant.                                                *)
(***************************************************************************)
Busy == {"marshal", "sync", "rename"}

\* A handler with an account registers it: the address has it, no other handler has it,
\* and it is not confirmed yet.
Registering ==
  \A h \in Handlers :
    /\ pc[h] # "idle" => email[h] \in Emails /\ running
    /\ pc[h] \in {"mail", "undo", "reply"} <=> account[h] # 0
    /\ account[h] # 0 => profiles[email[h]] = account[h] /\ account[h] \notin confirmed
    /\ \A g \in Handlers : g # h /\ account[h] # 0 => account[g] # account[h]

\* The saver in the middle of its work has the mutex, what it renames is synced, and so
\* is the file.
Saving ==
  /\ \A s \in Savers :
       /\ stage[s] \in Busy <=> mutex = s
       /\ stage[s] # "idle" => running
       /\ stage[s] \notin Busy => temp[s] = NoFile
       /\ stage[s] # "marshal" => todo[s] = {}
       /\ stage[s] = "rename" => temp[s].state = "synced"
  /\ file.state = "synced" /\ durable.state = "synced"

\* While it works nobody adds or removes a profile: each is marshalled or still to be, and
\* nothing else is.
Snapshot ==
  \A s \in Savers, e \in Emails : mutex = s =>
    /\ profiles[e] # 0 => <<e, profiles[e]>> \in todo[s] \/ temp[s].content[e].account = profiles[e]
    /\ temp[s].content[e].account \in {0, profiles[e]}
    /\ \A a \in Accounts : <<e, a>> \in todo[s] => a = profiles[e]

\* Where an account can be: in memory, in the hands of a saver, or in the file.
Occurs(e, a) ==
  \/ profiles[e] = a
  \/ \E s \in Savers : <<e, a>> \in todo[s] \/ temp[s].content[e].account = a
  \/ file.content[e].account = a
  \/ durable.content[e].account = a

\* An account was made, and has one address, wherever it is.
Placed ==
  \A a \in Accounts, e \in Emails : Occurs(e, a) =>
    a <= made /\ \A f \in Emails : Occurs(f, a) => f = e

\* The file is never ahead of memory, nor of what is about to replace it.
Versions ==
  \A e \in Emails : running /\ profiles[e] # 0 =>
    /\ file.content[e].account = profiles[e] => file.content[e].version <= version[profiles[e]]
    /\ \A s \in Savers : mutex = s /\ temp[s].content[e].account = profiles[e] =>
         /\ temp[s].content[e].version <= version[profiles[e]]
         /\ file.content[e].account = profiles[e] =>
              file.content[e].version <= temp[s].content[e].version

\* What the disk has of an account that lives is in the file, and not newer there.
Settled ==
  \A e \in Emails : durable.content[e].account # 0 =>
    /\ file.content[e].account = durable.content[e].account =>
         durable.content[e].version <= file.content[e].version
    /\ running /\ profiles[e] = durable.content[e].account =>
         file.content[e].account = durable.content[e].account

\* The end of the process leaves the confirmed accounts that the file has.
Remembered == ~running => \A a \in confirmed : InFile(a)

IInv == /\ TypeOK /\ Registering /\ Saving /\ Snapshot /\ Placed /\ Versions
        /\ Settled /\ Remembered /\ ConfirmedStay /\ AccountMailed

LEMMA InitIInv == Init => IInv
<1> SUFFICES ASSUME Init PROVE IInv
  OBVIOUS
<1> USE ProfilesAssumption DEF Init, Accounts, Savers
<1>1. TypeOK
  BY DEF TypeOK, File, NoFile, Content, Empty, Entry, Nobody
<1>2. Registering /\ Saving /\ Snapshot /\ Versions /\ Settled /\ Remembered
  BY DEF Registering, Saving, Snapshot, Versions, Settled, Remembered, Whole, Busy, NoFile, Empty, Nobody
<1>3. Placed
  BY DEF Placed, Occurs, NoFile, Empty, Nobody
<1>4. ConfirmedStay /\ AccountMailed
  BY DEF ConfirmedStay, AccountMailed
<1> QED BY <1>1, <1>2, <1>3, <1>4 DEF IInv

\* No account is 0.
LEMMA ZeroIsNone == Accounts \subseteq Nat /\ 0 \notin Accounts
  BY ProfilesAssumption DEF Accounts

(***************************************************************************)
(* What a step leaves alone.                                               *)
(***************************************************************************)

\* The steps of a handler that neither add, remove nor confirm an account.
LEMMA StoreKept ==
  IInv /\ UNCHANGED <<profiles, made, mutex, saving, disk, running, confirmed>>
    => Saving' /\ Snapshot' /\ Placed' /\ Settled' /\ Remembered' /\ ConfirmedStay'
  BY DEF IInv, Saving, Snapshot, Placed, Occurs, Settled, Remembered, ConfirmedStay, InFile, Holds, Whole,
         saving, disk

LEMMA VersionsKept ==
  IInv /\ UNCHANGED <<profiles, version, mutex, saving, disk, running>> => Versions'
  BY DEF IInv, Versions, saving, disk

\* The steps of a saver.
LEMMA AccountsKept ==
  IInv /\ UNCHANGED <<profiles, registering, running, history>>
    => Registering' /\ ConfirmedStay' /\ AccountMailed'
  BY DEF IInv, Registering, ConfirmedStay, AccountMailed, registering, history

\* The steps of a saver before it replaces the file.
LEMMA FileKept ==
  IInv /\ UNCHANGED <<profiles, disk, running, confirmed>> => Settled' /\ Remembered'
  BY DEF IInv, Settled, Remembered, InFile, Holds, Whole, disk

(***************************************************************************)
(* Every step preserves the invariant.                                     *)
(***************************************************************************)
LEMMA RegisterStep ==
  ASSUME IInv, NEW h \in Handlers, NEW e \in Emails, Register(h, e)
  PROVE  IInv'
<1> USE DEF IInv, disk
<1>1. TypeOK'
  BY DEF Register, TypeOK, memory, saving, history
<1>2. Registering' /\ AccountMailed'
  BY DEF Register, TypeOK, Registering, AccountMailed, memory, history
<1> QED BY <1>1, <1>2, StoreKept, VersionsKept DEF Register, memory, history

LEMMA CheckStep ==
  ASSUME IInv, NEW h \in Handlers, Check(h)
  PROVE  IInv'
<1> USE DEF IInv, disk
<1>1. TypeOK'
  BY DEF Check, Return, Goto, TypeOK, memory, saving, history
<1>2. Registering'
  BY DEF Check, Return, Goto, TypeOK, Registering, memory, history
<1>3. AccountMailed'
  BY DEF Check, Return, Goto, TypeOK, AccountMailed, memory, history
<1> QED BY <1>1, <1>2, <1>3, StoreKept, VersionsKept DEF Check, memory, history

LEMMA NewStep ==
  ASSUME IInv, NEW h \in Handlers, New(h)
  PROVE  IInv'
<1> USE ProfilesAssumption DEF IInv, disk, Accounts
<1>1. CASE profiles[email[h]] # 0
  <2>1. Return(h) /\ UNCHANGED <<memory, smtp, session, saving, disk, running, history>>
        /\ pc[h] = "new"
    BY <1>1 DEF New, memory, history
  <2>2. TypeOK'
    BY <2>1 DEF Return, TypeOK, memory, saving, history
  <2>3. Registering'
    BY <2>1 DEF Return, TypeOK, Registering, memory, history
  <2>4. AccountMailed'
    BY <2>1 DEF Return, TypeOK, AccountMailed, memory, history
  <2> QED BY <2>1, <2>2, <2>3, <2>4, StoreKept, VersionsKept DEF memory, history
<1>2. CASE profiles[email[h]] = 0
  <2>1. /\ pc[h] = "new" /\ mutex = None /\ Store(h)
        /\ UNCHANGED <<version, mutex, smtp, session, saving, disk, running, mailed,
                       confirmed, reloaded>>
    BY <1>2 DEF New
  <2>2. email[h] \in Emails /\ account[h] = 0 /\ running
    BY <2>1 DEF TypeOK, Registering
  <2>3. made' = made + 1 /\ made' \in Accounts
    BY <2>1 DEF Store, TypeOK
  <2>4. \A e \in Emails : ~Occurs(e, made')
    BY <2>3 DEF TypeOK, Placed
  <2>5. \A s \in Savers : temp[s] = NoFile /\ todo[s] = {}
    BY <2>1 DEF Saving, Savers, Busy
  <2>6. TypeOK'
    BY <2>1, <2>2, <2>3 DEF Store, TypeOK, saving
  <2>7. Registering'
    <3>1. made' # 0 /\ made' \notin confirmed
      BY <2>2, <2>3, <2>4, ZeroIsNone DEF ConfirmedStay, Occurs
    <3>2. \A g \in Handlers : account[g] # 0 => account[g] # made' /\ email[g] # email[h]
      <4> SUFFICES ASSUME NEW g \in Handlers, account[g] # 0
                   PROVE  account[g] # made' /\ email[g] # email[h]
        OBVIOUS
      <4>1. email[g] \in Emails /\ profiles[email[g]] = account[g]
        BY DEF Registering
      <4> QED BY <1>2, <2>4, <4>1 DEF Occurs
    <3>3. /\ account' = [account EXCEPT ![h] = made']
          /\ profiles' = [profiles EXCEPT ![email[h]] = made']
          /\ pc' \in [Handlers -> {"idle", "check", "new", "mail", "undo", "reply"}]
          /\ pc'[h] \in {"mail", "reply"} /\ \A g \in Handlers : g # h => pc'[g] = pc[g]
          /\ UNCHANGED <<email, running, confirmed>>
      BY <2>1 DEF Store, TypeOK
    <3> QED BY <2>2, <3>1, <3>2, <3>3 DEF TypeOK, Registering
  <2>8. Saving' /\ Snapshot' /\ Remembered'
    BY <2>1, <2>2 DEF Saving, Snapshot, Remembered, saving, Savers
  <2>13. Settled'
    <3>1. /\ \A e \in Emails : profiles'[e] \in {profiles[e], made'}
          /\ UNCHANGED <<file, durable, running>>
      BY <2>1, <2>2 DEF Store, TypeOK, disk
    <3>2. \A e \in Emails : durable.content[e].account # made'
      BY <2>4 DEF Occurs
    <3>3. Settled
      OBVIOUS
    <3> QED BY ONLY <3>1, <3>2, <3>3 DEF Settled
  <2>9. Placed'
    BY <2>1, <2>2, <2>3, <2>4 DEF Store, TypeOK, Placed, Occurs, saving
  <2>10. Versions'
    BY <2>1, <2>2, <2>3, <2>4 DEF Store, TypeOK, Versions, Occurs, saving, Savers
  <2>11. ConfirmedStay'
    <3>1. /\ \A e \in Emails : e # email[h] => profiles'[e] = profiles[e]
          /\ UNCHANGED <<running, confirmed>>
      BY <2>1, <2>2 DEF Store, TypeOK
    <3>2. ConfirmedStay /\ 0 \notin confirmed
      BY ZeroIsNone DEF TypeOK
    <3> QED BY ONLY <1>2, <3>1, <3>2 DEF ConfirmedStay
  <2>12. AccountMailed'
    <3>1. \A e \in Emails : e # email[h] => profiles'[e] = profiles[e]
      BY <2>1 DEF Store, TypeOK
    <3>2. profiles'[email[h]] \in silent' \/ (account'[h] = profiles'[email[h]] /\ pc'[h] = "mail")
      BY <2>1, <2>2 DEF Store, TypeOK
    <3>3. \A g \in Handlers : pc[g] \in {"mail", "undo"} =>
            pc'[g] = pc[g] /\ account'[g] = account[g]
      BY <2>1 DEF Store, TypeOK
    <3>4. silent \subseteq silent' /\ UNCHANGED <<mailed, reloaded>>
      BY <2>1 DEF Store
    <3> QED BY <3>1, <3>2, <3>3, <3>4 DEF AccountMailed
  <2> QED BY <2>6, <2>7, <2>8, <2>9, <2>10, <2>11, <2>12, <2>13
<1> QED BY <1>1, <1>2

LEMMA MailStep ==
  ASSUME IInv, NEW h \in Handlers, Mail(h)
  PROVE  IInv'
<1> USE DEF IInv, disk
<1>1. /\ pc[h] = "mail" /\ pc' \in {[pc EXCEPT ![h] = "reply"], [pc EXCEPT ![h] = "undo"]}
      /\ mailed' \in {mailed, mailed \cup {account[h]}}
      /\ mailed' = mailed => pc'[h] = "undo" \/ account[h] \in mailed
      /\ UNCHANGED <<email, seen, account, memory, smtp, session, saving, disk, running,
                     silent, confirmed, reloaded>>
  BY DEF Mail, Goto, TypeOK
<1>2. TypeOK'
  BY <1>1 DEF TypeOK, Registering, memory, saving
<1>3. Registering'
  BY <1>1 DEF TypeOK, Registering, memory
<1>4. AccountMailed'
  BY <1>1 DEF TypeOK, AccountMailed, memory
<1> QED BY <1>1, <1>2, <1>3, <1>4, StoreKept, VersionsKept DEF memory

LEMMA UndoStep ==
  ASSUME IInv, NEW h \in Handlers, Undo(h)
  PROVE  IInv'
<1> USE ProfilesAssumption DEF IInv, disk
<1>1. /\ email[h] \in Emails /\ account[h] # 0 /\ profiles[email[h]] = account[h]
      /\ account[h] \in Accounts /\ account[h] \notin confirmed
      /\ profiles' = [profiles EXCEPT ![email[h]] = 0]
      /\ Return(h) /\ mutex = None
      /\ UNCHANGED <<version, made, mutex, smtp, session, saving, disk, running, history>>
  BY DEF Undo, TypeOK, Registering
<1>2. \A e \in Emails : profiles[e] = account[h] => e = email[h]
  BY <1>1 DEF Placed, Occurs
<1>3. TypeOK'
  BY <1>1 DEF Return, TypeOK, saving, history
<1>4. Registering'
  <2>1. \A g \in Handlers : g # h /\ account[g] # 0 => email[g] # email[h]
    BY <1>1 DEF Registering
  <2> QED BY <1>1, <2>1 DEF Return, TypeOK, Registering, history
<1>5. Saving' /\ Snapshot' /\ Remembered'
  BY <1>1 DEF Saving, Snapshot, Remembered, InFile, Holds, Whole, saving, history, Savers
<1>6. Placed'
  <2>1. \A f \in Emails, b \in Accounts : Occurs(f, b)' => Occurs(f, b)
    BY <1>1, ZeroIsNone DEF TypeOK, Occurs, saving
  <2>2. made' = made
    BY <1>1
  <2> HIDE DEF IInv
  <2>3. Placed
    BY DEF IInv
  <2> QED BY ONLY <2>1, <2>2, <2>3 DEF Placed
<1>7. Versions'
  BY <1>1 DEF TypeOK, Versions, saving, Savers
<1>8. ConfirmedStay'
  <2>1. \A e \in Emails : profiles[e] # account[h] => profiles'[e] = profiles[e]
    BY <1>1 DEF TypeOK
  <2>2. running' = running /\ confirmed' = confirmed
    BY <1>1 DEF history
  <2> QED BY ONLY <1>1, <2>1, <2>2, IInv DEF IInv, ConfirmedStay
<1>9. AccountMailed'
  BY <1>1, <1>2 DEF Return, TypeOK, AccountMailed, history
<1>10. Settled'
  BY <1>1 DEF TypeOK, Settled
<1> QED BY <1>3, <1>4, <1>5, <1>6, <1>7, <1>8, <1>9, <1>10

LEMMA ReplyStep ==
  ASSUME IInv, NEW h \in Handlers, Reply(h)
  PROVE  IInv'
<1> USE DEF IInv, disk
<1>1. /\ pc[h] = "reply" /\ email[h] \in Emails /\ running
      /\ account[h] \in Accounts /\ profiles[email[h]] = account[h]
      /\ confirmed' = confirmed \cup {account[h]} /\ Return(h)
      /\ UNCHANGED <<memory, smtp, session, saving, disk, running, mailed, silent, reloaded>>
  BY DEF Reply, TypeOK, Registering
<1>2. TypeOK'
  BY <1>1 DEF Return, TypeOK, memory, saving
<1>3. Registering'
  BY <1>1 DEF Return, TypeOK, Registering, memory
<1>4. Saving' /\ Snapshot' /\ Placed' /\ Settled'
  BY <1>1 DEF Saving, Snapshot, Placed, Occurs, Settled, memory, saving
<1>5. Remembered' /\ ConfirmedStay' /\ AccountMailed'
  BY <1>1 DEF Return, TypeOK, Remembered, ConfirmedStay, AccountMailed, memory
<1> QED BY <1>1, <1>2, <1>3, <1>4, <1>5, VersionsKept DEF memory

LEMMA EditStep ==
  ASSUME IInv, NEW h \in Handlers, Edit(h)
  PROVE  IInv'
<1> USE DEF IInv, disk
<1>1. PICK a \in Accounts : version[a] < MaxEdits /\ version' = [version EXCEPT ![a] = @ + 1]
  BY DEF Edit, TypeOK
<1>2. \A b \in Accounts : version'[b] \in 0..MaxEdits /\ version[b] <= version'[b]
  BY <1>1, ProfilesAssumption DEF TypeOK
<1>3. TypeOK'
  BY <1>1, <1>2 DEF Edit, TypeOK, registering, saving, history
<1>4. Versions'
  BY <1>2, ProfilesAssumption DEF Edit, TypeOK, Versions, saving, File, Content, Entry
<1> QED BY <1>3, <1>4, StoreKept, AccountsKept DEF Edit, history

LEMMA OtherStep ==
  ASSUME IInv,
         \/ \E h \in Handlers, e \in Emails : Login(h, e)
         \/ SwitchSmtp
         \/ UNCHANGED vars
  PROVE  IInv'
<1> USE DEF IInv, disk
<1>1. UNCHANGED <<memory, registering, saving, disk, running, history>>
  BY DEF Login, SwitchSmtp, vars
<1>2. TypeOK'
  BY <1>1 DEF Login, SwitchSmtp, vars, TypeOK, memory, registering, saving, history
<1> QED BY <1>1, <1>2, StoreKept, VersionsKept, AccountsKept DEF memory, history

(***************************************************************************)
(* The steps of a saver.                                                   *)
(***************************************************************************)
LEMMA SaveProfilesStep ==
  ASSUME IInv, NEW s \in Savers, SaveProfiles(s)
  PROVE  IInv'
<1> USE DEF IInv, disk
<1>1. /\ mutex = None /\ mutex' = s /\ running /\ stage[s] = "idle"
      /\ stage' = [stage EXCEPT ![s] = "marshal"]
      /\ todo' = [todo EXCEPT ![s] = {<<e, profiles[e]>> : e \in {d \in Emails : profiles[d] # 0}}]
      /\ UNCHANGED <<temp, profiles, version, made, smtp, registering, session, disk, running, history>>
  BY DEF SaveProfiles, At
<1>2. \A e \in Emails, a \in Accounts : <<e, a>> \in todo'[s] <=> profiles[e] = a
  BY <1>1 DEF TypeOK, Accounts
<1>3. temp[s] = NoFile
  BY <1>1 DEF Saving, Busy
<1>4. TypeOK'
  BY <1>1 DEF TypeOK, registering, history
<1>5. Saving'
  BY <1>1, ProfilesAssumption DEF TypeOK, Saving, Busy, Savers
<1>6. Snapshot'
  <2>1. \A e \in Emails : temp'[s].content[e].account = 0
    BY <1>1, <1>3 DEF NoFile, Empty, Nobody
  <2>2. \A e \in Emails : profiles[e] \in Accounts \cup {0}
    BY DEF TypeOK
  <2>3. mutex' = s /\ profiles' = profiles
    BY <1>1
  <2>4. \A e \in Emails, a \in Accounts : <<e, a>> \in todo'[s] <=> profiles'[e] = a
    BY <1>2, <2>3
  <2> QED BY ONLY <2>1, <2>2, <2>3, <2>4 DEF Snapshot
<1>7. Placed'
  <2>1. \A t \in Savers : t # s => todo'[t] = todo[t]
    BY <1>1 DEF TypeOK
  <2>2. \A f \in Emails, b \in Accounts : Occurs(f, b)' => Occurs(f, b)
    BY <1>1, <1>2, <2>1 DEF Occurs
  <2> QED BY <2>2, <1>1 DEF Placed
<1>8. Versions'
  BY <1>1, <1>3 DEF TypeOK, Versions, NoFile, Empty, Nobody
<1> QED BY <1>1, <1>4, <1>5, <1>6, <1>7, <1>8, AccountsKept, FileKept DEF history

LEMMA MarshalStep ==
  ASSUME IInv, NEW s \in Savers, NEW e \in Emails, NEW a \in Accounts, Marshal(s, e, a)
  PROVE  IInv'
<1> USE DEF IInv, disk
<1>1. /\ stage[s] = "marshal" /\ mutex = s /\ running /\ <<e, a>> \in todo[s]
      /\ todo' = [todo EXCEPT ![s] = @ \ {<<e, a>>}]
      /\ UNCHANGED <<memory, smtp, registering, session, stage, disk, running, history>>
  BY DEF Marshal, Saving, Busy
<1>2. /\ profiles[e] = a /\ a # 0
  BY <1>1, ZeroIsNone DEF Snapshot
<1>3. /\ temp' \in [Savers -> File]
      /\ \A t \in Savers : t # s => temp'[t] = temp[t]
      /\ temp'[s].state = temp[s].state
      /\ temp'[s].content[e] = [account |-> a, version |-> version[a]]
      /\ \A f \in Emails : f # e => temp'[s].content[f] = temp[s].content[f]
  BY DEF Marshal, TypeOK, File, Content, Entry
<1>4. TypeOK'
  BY <1>1, <1>3 DEF TypeOK, memory, registering, history
<1>5. Saving'
  BY <1>1, <1>3, ProfilesAssumption DEF TypeOK, Saving, Busy, memory
<1>6. Snapshot'
  BY <1>1, <1>2, <1>3, ProfilesAssumption DEF TypeOK, Snapshot, memory
<1>7. Placed'
  <2>3. /\ \A t \in Savers : todo'[t] \subseteq todo[t]
        /\ UNCHANGED <<profiles, file, durable>>
    BY <1>1 DEF TypeOK, memory
  <2>1. \A f \in Emails, b \in Accounts : Occurs(f, b)' => Occurs(f, b)
    BY ONLY <1>2, <1>3, <2>3 DEF Occurs
  <2> QED BY <2>1, <1>1 DEF Placed, memory
<1>8. Versions'
  BY <1>1, <1>2, <1>3 DEF TypeOK, Versions, memory, Accounts
<1> QED BY <1>1, <1>4, <1>5, <1>6, <1>7, <1>8, AccountsKept, FileKept DEF memory, history

\* Write and Sync only move the temporary file on.
LEMMA WriteStep ==
  ASSUME IInv, NEW s \in Savers, Write(s) \/ Sync(s)
  PROVE  IInv'
<1> USE DEF IInv, disk
<1>1. /\ stage[s] \in Busy /\ todo[s] = {}
      /\ \/ stage' = [stage EXCEPT ![s] = "sync"]
         \/ stage' = [stage EXCEPT ![s] = "rename"] /\ temp'[s].state = "synced"
      /\ UNCHANGED <<memory, smtp, registering, session, todo, disk, running, history>>
  BY DEF Write, Sync, At, TypeOK, Saving, Busy, File
<1>2. /\ temp' \in [Savers -> File]
      /\ \A t \in Savers : temp'[t].content = temp[t].content /\ (t # s => temp'[t] = temp[t])
  <2>1. \E state \in {"written", "synced"} : temp' = [temp EXCEPT ![s] = [temp[s] EXCEPT !.state = state]]
    BY DEF Write, Sync
  <2>2. \A state \in {"written", "synced"} :
          LET new == [temp[s] EXCEPT !.state = state]
          IN new \in File /\ new.content = temp[s].content
    BY DEF TypeOK, File
  <2> QED BY <2>1, <2>2 DEF TypeOK
<1>3. TypeOK'
  BY <1>1, <1>2 DEF TypeOK, memory, registering, history
<1>4. Saving'
  BY <1>1, <1>2 DEF TypeOK, Saving, Busy, memory
<1>5. Snapshot' /\ Versions'
  BY <1>1, <1>2 DEF TypeOK, Snapshot, Versions, memory
<1>6. Placed'
  BY <1>1, <1>2 DEF Placed, Occurs, memory
<1> QED BY <1>1, <1>3, <1>4, <1>5, <1>6, AccountsKept, FileKept DEF memory, history

\* Rename and SaveFails release the mutex.
LEMMA ReleaseStep ==
  ASSUME IInv, NEW s \in Savers, Rename(s) \/ SaveFails(s)
  PROVE  IInv'
<1> USE ProfilesAssumption DEF IInv, disk
<1>1. /\ stage[s] \in Busy /\ todo[s] = {} /\ mutex = s /\ running
      /\ Release(s)
      /\ (file' = temp[s] /\ temp[s].state = "synced") \/ file' = file
      /\ UNCHANGED <<profiles, version, made, smtp, registering, session, durable, running, history>>
  BY DEF Rename, SaveFails, Saving, Busy
<1>2. /\ temp' = [temp EXCEPT ![s] = NoFile] /\ todo' = todo /\ mutex' = None
      /\ stage' \in [Savers -> {"idle", "marshal", "sync", "rename", "exit"}]
      /\ stage'[s] \in {"idle", "exit"} /\ \A t \in Savers : t # s => stage'[t] = stage[t]
  BY <1>1 DEF Release, At, TypeOK
<1>3. NoFile \in File /\ \A e \in Emails : NoFile.content[e].account = 0
  BY DEF NoFile, File, Content, Empty, Entry, Nobody
<1>4. TypeOK'
  BY <1>1, <1>2, <1>3 DEF TypeOK, registering, history
<1>5. Saving'
  BY <1>1, <1>2 DEF TypeOK, Saving, Busy, Savers
<1>6. Snapshot'
  BY <1>2 DEF Snapshot, Savers
<1>7. Placed'
  <2>1. \A f \in Emails, b \in Accounts : Occurs(f, b)' => Occurs(f, b)
    <3> SUFFICES ASSUME NEW f \in Emails, NEW b \in Accounts, Occurs(f, b)'
                 PROVE  Occurs(f, b)
      OBVIOUS
    <3>1. b # 0
      BY ZeroIsNone
    <3>2. file'.content[f].account = b => Occurs(f, b)
      BY <1>1 DEF Occurs
    <3>3. \A t \in Savers : temp'[t].content[f].account = b => temp[t].content[f].account = b
      BY <1>2, <1>3, <3>1 DEF TypeOK
    <3> QED BY <1>1, <1>2, <3>2, <3>3 DEF Occurs
  <2>2. made' = made
    BY <1>1
  <2> HIDE DEF IInv
  <2>3. Placed
    BY DEF IInv
  <2> QED BY ONLY <2>1, <2>2, <2>3 DEF Placed
<1>8. Versions'
  BY <1>1, <1>2 DEF TypeOK, Versions, Savers
<1>9. Remembered'
  BY <1>1 DEF Remembered
<1>10. Settled'
  <2>1. CASE file' = file
    BY <1>1, <2>1 DEF Settled
  <2>2. CASE file' = temp[s]
    <3> SUFFICES ASSUME NEW e \in Emails, NEW a, a = durable.content[e].account, a # 0
                 PROVE  /\ temp[s].content[e].account = a =>
                             durable.content[e].version <= temp[s].content[e].version
                        /\ profiles[e] = a => temp[s].content[e].account = a
      BY <1>1, <2>2 DEF Settled
    <3>1. profiles[e] = a => file.content[e].account = a /\ durable.content[e].version <= file.content[e].version
      BY <1>1 DEF Settled
    <3>2. temp[s].content[e].account \in {0, profiles[e]}
      BY <1>1 DEF Snapshot
    <3>3. profiles[e] = a => temp[s].content[e].account = a
      BY <1>1 DEF Snapshot
    <3>4. profiles[e] = a => file.content[e].version <= temp[s].content[e].version
      BY <1>1, <3>1, <3>3 DEF Versions
    <3>5. /\ durable.content[e].version \in Nat /\ file.content[e].version \in Nat
          /\ temp[s].content[e].version \in Nat
      BY ProfilesAssumption DEF TypeOK, File, Content, Entry
    <3> HIDE DEF IInv
    <3> QED BY <3>1, <3>2, <3>3, <3>4, <3>5
  <2> QED BY <1>1, <2>1, <2>2
<1> QED BY <1>1, <1>4, <1>5, <1>6, <1>7, <1>8, <1>9, <1>10, AccountsKept DEF history

(***************************************************************************)
(* The end of the process and its start.                                   *)
(***************************************************************************)
LEMMA SettleStep ==
  ASSUME IInv, Settle
  PROVE  IInv'
<1> USE DEF IInv, disk
<1>1. /\ durable' = file
      /\ UNCHANGED <<memory, smtp, registering, session, saving, file, running, history>>
  BY DEF Settle
<1>2. TypeOK'
  BY <1>1 DEF TypeOK, memory, registering, saving, history
<1>3. Saving' /\ Snapshot' /\ Versions' /\ Remembered'
  BY <1>1 DEF Saving, Snapshot, Versions, Remembered, InFile, Holds, Whole, memory, saving, history
<1>4. Settled'
  BY <1>1, ProfilesAssumption DEF Settled, TypeOK, File, Content, Entry
<1>5. Placed'
  <2>1. \A f \in Emails, b \in Accounts : Occurs(f, b)' => Occurs(f, b)
    BY <1>1 DEF Occurs, memory, saving
  <2>2. made' = made
    BY <1>1 DEF memory
  <2> HIDE DEF IInv
  <2>3. Placed
    BY DEF IInv
  <2> QED BY ONLY <2>1, <2>2, <2>3 DEF Placed
<1> QED BY <1>1, <1>2, <1>3, <1>4, <1>5, AccountsKept DEF memory

LEMMA DownStep ==
  ASSUME IInv, Exit \/ Crash \/ PowerFails
  PROVE  IInv'
<1> USE ProfilesAssumption DEF IInv, disk
<1>1. Down(file') /\ file' \in {file, durable} /\ durable' = durable
  BY DEF Exit, Crash, PowerFails, Down, Saving, TypeOK, File
<1>2. TypeOK'
  <2>1. NoFile \in File
    BY DEF NoFile, File, Content, Empty, Entry, Nobody
  <2>2. {a \in confirmed : Holds(file', a)} \subseteq Accounts
    BY DEF TypeOK
  <2>3. /\ profiles' \in [Emails -> Accounts \cup {0}] /\ version' \in [Accounts -> 0..MaxEdits]
        /\ mutex' = None /\ running' = FALSE
        /\ pc' \in [Handlers -> {"idle", "check", "new", "mail", "undo", "reply"}]
        /\ email' \in [Handlers -> Emails \cup {None}] /\ seen' \in [Handlers -> BOOLEAN]
        /\ account' \in [Handlers -> Accounts \cup {0}]
        /\ session' \in [Handlers -> Accounts \cup {0}]
        /\ stage' \in [Savers -> {"idle", "marshal", "sync", "rename", "exit"}]
    BY <1>1 DEF Down
  <2>4. /\ todo' \in [Savers -> SUBSET (Emails \X Accounts)] /\ temp' \in [Savers -> File]
        /\ confirmed' \subseteq Accounts
        /\ UNCHANGED <<made, smtp, mailed, silent, reloaded>>
    BY <1>1, <2>1, <2>2 DEF Down
  <2> QED BY <1>1, <2>3, <2>4 DEF TypeOK
<1>3. Registering' /\ Saving' /\ Snapshot' /\ Versions'
  BY <1>1 DEF Down, Registering, Saving, Snapshot, Versions, Busy, Savers
<1>6. Settled'
  <2>1. running' = FALSE /\ durable' = durable /\ file' \in {file, durable}
    BY <1>1 DEF Down
  <2>2. \A e \in Emails : durable.content[e].version \in Nat
    BY ProfilesAssumption DEF TypeOK, File, Content, Entry
  <2>3. Settled
    OBVIOUS
  <2> QED BY ONLY <2>1, <2>2, <2>3 DEF Settled
<1>4. Placed'
  <2>1. \A f \in Emails, b \in Accounts : Occurs(f, b)' => Occurs(f, b)
    BY <1>1 DEF Down, Occurs, Accounts, NoFile, Empty, Nobody
  <2> QED BY <2>1, <1>1 DEF Down, Placed
<1>5. Remembered' /\ ConfirmedStay' /\ AccountMailed'
  BY <1>1 DEF Down, Remembered, ConfirmedStay, AccountMailed, InFile, Holds
<1> QED BY <1>2, <1>3, <1>4, <1>5, <1>6

LEMMA StartStep ==
  ASSUME IInv, Start
  PROVE  IInv'
<1> USE ProfilesAssumption DEF IInv, disk
<1>1. /\ ~running /\ running' /\ Readable
      /\ profiles' = [e \in Emails |-> file.content[e].account]
      /\ reloaded' = reloaded \cup {a \in Accounts : InFile(a)}
      /\ UNCHANGED <<made, mutex, smtp, registering, session, saving, disk, mailed, silent, confirmed>>
  BY DEF Start, Saving, Readable, Whole
<1>2. \A e \in Emails : file.content[e].account \in Accounts \cup {0}
                       /\ file.content[e].version \in 0..MaxEdits
  BY ProfilesAssumption DEF TypeOK, File, Content, Entry
<1>3. /\ version' \in [Accounts -> 0..MaxEdits]
      /\ \A e \in Emails : file.content[e].account # 0 =>
           version'[file.content[e].account] = file.content[e].version
  <2>1. \A a \in Accounts, e \in Emails : file.content[e].account = a =>
          InFile(a) /\ e = CHOOSE f \in Emails : file.content[f].account = a
    BY <1>1 DEF Placed, Occurs, InFile, Holds, Readable
  <2>2. version' = [a \in Accounts |->
          IF InFile(a) THEN file.content[CHOOSE e \in Emails : file.content[e].account = a].version
                       ELSE 0]
    BY <1>1 DEF Start
  <2>3. \A a \in Accounts : version'[a] \in 0..MaxEdits
    BY <1>2, <2>1, <2>2 DEF InFile, Holds
  <2> QED BY <1>2, <2>1, <2>2, <2>3
<1>4. TypeOK'
  BY <1>1, <1>2, <1>3 DEF TypeOK, registering, saving
<1>5. \A h \in Handlers : pc[h] = "idle" /\ account[h] = 0
  BY <1>1 DEF Registering, TypeOK
<1>6. \A s \in Savers : stage[s] = "idle" /\ mutex # s
  BY <1>1 DEF Saving, Busy
<1>7. Registering' /\ Saving' /\ Snapshot'
  BY <1>1, <1>5, <1>6 DEF Registering, Saving, Snapshot, registering, saving
<1>8. Placed'
  <2>1. \A f \in Emails, b \in Accounts : Occurs(f, b)' => Occurs(f, b)
    BY <1>1 DEF Occurs, saving
  <2>2. made' = made
    BY <1>1
  <2> HIDE DEF IInv
  <2>3. Placed
    BY DEF IInv
  <2> QED BY ONLY <2>1, <2>2, <2>3 DEF Placed
<1>9. Versions'
  BY <1>1, <1>2, <1>3, <1>6 DEF Versions
<1>10. Remembered' /\ ConfirmedStay'
  BY <1>1 DEF Remembered, ConfirmedStay, InFile, Holds
<1>11. AccountMailed'
  BY <1>1, <1>2 DEF AccountMailed, InFile, Holds, Readable
<1>12. Settled'
  BY <1>1 DEF Settled
<1> QED BY <1>4, <1>7, <1>8, <1>9, <1>10, <1>11, <1>12

LEMMA StepIInv == IInv /\ [Next]_vars => IInv'
<1> SUFFICES ASSUME IInv, [Next]_vars PROVE IInv'
  OBVIOUS
<1>1. CASE \E h \in Handlers : Request(h)
  BY <1>1, RegisterStep, EditStep, OtherStep DEF Request
<1>2. CASE \E h \in Handlers : Handling(h)
  BY <1>2, CheckStep, NewStep, MailStep, UndoStep, ReplyStep DEF Handling
<1>3. CASE \E s \in Savers : Save(s)
  BY <1>3, SaveProfilesStep, MarshalStep, WriteStep, ReleaseStep DEF Save
<1>4. CASE Settle \/ Exit \/ Crash \/ PowerFails \/ Start
  BY <1>4, SettleStep, DownStep, StartStep
<1>5. CASE SwitchSmtp \/ UNCHANGED vars
  BY <1>5, OtherStep
<1> QED BY <1>1, <1>2, <1>3, <1>4, <1>5 DEF Next

(***************************************************************************)
(* The theorems.                                                           *)
(***************************************************************************)
THEOREM ProfilesInvariant == Spec => []IInv
  BY InitIInv, StepIInv, PTL DEF Spec

\* The variables keep their types: no entry without a profile, no save without a file.
THEOREM TypeCorrect == Spec => []TypeOK
<1>1. IInv => TypeOK
  BY DEF IInv
<1> QED BY <1>1, ProfilesInvariant, PTL

\* There is a whole file to start from, whatever step a crash interrupts.
THEOREM FileAlwaysWhole == Spec => []FileWhole
<1>1. IInv => FileWhole
  BY DEF IInv, Saving, FileWhole, Readable, Whole
<1> QED BY <1>1, ProfilesInvariant, PTL

\* A confirmed account is not replaced or removed by another registration.
THEOREM ConfirmedAccountsStay == Spec => []ConfirmedStay
<1>1. IInv => ConfirmedStay
  BY DEF IInv
<1> QED BY <1>1, ProfilesInvariant, PTL

\* No account is left without anybody who was sent its password.
THEOREM AccountsAreMailed == Spec => []AccountMailed
<1>1. IInv => AccountMailed
  BY DEF IInv
<1> QED BY <1>1, ProfilesInvariant, PTL

\* A confirmed account is at the address where the file has it, or the disk.
LEMMA ConfirmedHere ==
  ASSUME IInv, NEW e \in Emails, NEW a \in confirmed, Occurs(e, a)
  PROVE  /\ running => profiles[e] = a
         /\ ~running => file.content[e].account = a
<1>1. a \in Accounts
  BY DEF IInv, TypeOK
<1>2. CASE running
  <2>1. PICK f \in Emails : profiles[f] = a
    BY <1>2 DEF IInv, ConfirmedStay
  <2>2. Occurs(f, a)
    BY <2>1 DEF Occurs
  <2> QED BY <1>1, <1>2, <2>1, <2>2 DEF IInv, Placed
<1>3. CASE ~running
  <2>1. PICK f \in Emails : file.content[f].account = a
    BY <1>3 DEF IInv, Remembered, InFile, Holds
  <2>2. Occurs(f, a)
    BY <2>1 DEF Occurs
  <2> QED BY <1>1, <1>3, <2>1, <2>2 DEF IInv, Placed
<1> QED BY <1>2, <1>3

\* A file is replaced only by one that has its confirmed accounts, as new or newer.
LEMMA RenameKeeps ==
  ASSUME IInv, NEW s \in Savers, Rename(s)
  PROVE  Keeps(file, file')
<1> SUFFICES ASSUME NEW e \in Emails, file.content[e].account \in confirmed
             PROVE  /\ Whole(file')
                    /\ file'.content[e].account = file.content[e].account
                    /\ file'.content[e].version >= file.content[e].version
  BY DEF Keeps
<1> DEFINE a == file.content[e].account
<1> USE ProfilesAssumption DEF IInv
<1>1. file' = temp[s] /\ temp[s].state = "synced" /\ mutex = s /\ running /\ todo[s] = {}
  BY DEF Rename, Saving, Busy
<1>2. a \in Accounts /\ a # 0
  BY ZeroIsNone DEF TypeOK
<1>3. profiles[e] = a
  BY <1>1, ConfirmedHere DEF Occurs
<1>4. temp[s].content[e].account = a
  BY <1>1, <1>2, <1>3 DEF Snapshot
<1>5. file.content[e].version <= temp[s].content[e].version
  BY <1>1, <1>2, <1>3, <1>4 DEF Versions
<1>6. file.content[e].version \in Nat /\ temp[s].content[e].version \in Nat
  BY ProfilesAssumption DEF TypeOK, File, Content, Entry
<1> QED BY <1>1, <1>4, <1>5, <1>6 DEF Whole

\* And what the disk has is in the file that it takes up.
LEMMA SettleKeeps ==
  ASSUME IInv, Settle
  PROVE  Keeps(durable, durable')
<1> SUFFICES ASSUME NEW e \in Emails, durable.content[e].account \in confirmed
             PROVE  /\ Whole(file)
                    /\ file.content[e].account = durable.content[e].account
                    /\ file.content[e].version >= durable.content[e].version
  BY DEF Keeps, Settle
<1> DEFINE a == durable.content[e].account
<1>1. a # 0 /\ Whole(file)
  BY ZeroIsNone DEF IInv, TypeOK, Saving, Whole
<1>2. file.content[e].account = a
  <2>1. /\ running => profiles[e] = a
        /\ ~running => file.content[e].account = a
    BY ConfirmedHere DEF Occurs
  <2> QED BY <1>1, <2>1 DEF IInv, Settled
<1>3. durable.content[e].version <= file.content[e].version
  BY <1>1, <1>2 DEF IInv, Settled
<1>4. file.content[e].version \in Nat /\ durable.content[e].version \in Nat
  BY ProfilesAssumption DEF IInv, TypeOK, File, Content, Entry
<1> QED BY <1>1, <1>2, <1>3, <1>4

\* What a confirmed account was saved with is never lost or replaced by older contents while
\* the machine is on, and what the disk has of it is not lost in a power failure either
\* (SaveFile by two goroutines, which does not sync the directory).
THEOREM SavedAccountsStay == Spec => SavedStay
<1>1. IInv /\ [Next]_vars => [PowerFails \/ Keeps(file, file')]_file
  <2> SUFFICES ASSUME IInv, [Next]_vars, file' # file, ~PowerFails PROVE Keeps(file, file')
    OBVIOUS
  <2>1. PICK s \in Savers : Rename(s)
    BY DEF disk, vars, Next, Request, Handling, Save, Register, Check, New,
           Mail, Undo, Reply, Login, Edit, SwitchSmtp, SaveProfiles, Marshal, Write, Sync,
           SaveFails, Settle, Exit, Crash, Down, Start
  <2> QED BY <2>1, RenameKeeps
<1>2. IInv /\ [Next]_vars => [Keeps(durable, durable')]_durable
  <2> SUFFICES ASSUME IInv, [Next]_vars, durable' # durable PROVE Keeps(durable, durable')
    OBVIOUS
  <2>2. ~PowerFails
    BY DEF IInv, Saving, TypeOK, File, PowerFails
  <2>1. Settle
    BY <2>2 DEF disk, vars, Next, Request, Handling, Save, Register, Check, New,
           Mail, Undo, Reply, Login, Edit, SwitchSmtp, SaveProfiles, Marshal, Write, Sync,
           Rename, SaveFails, Exit, Crash, Start
  <2> QED BY <2>1, SettleKeeps
<1> QED BY <1>1, <1>2, ProfilesInvariant, PTL DEF Spec, SavedStay
=============================================================================

--------------------------- MODULE PresenceProofs ---------------------------
(***************************************************************************)
(* Proofs about Presence, for any numbers of connections, machines and     *)
(* profiles.                                                               *)
(***************************************************************************)
EXTENDS Presence, TLAPS

(***************************************************************************)
(* The inductive invariant.                                                *)
(***************************************************************************)
Joins == {"scan", "add", "list", "push"}
Leaves == {"leave", "leaveList", "leavePush"}
Left == Leaves \cup {"last", "lookup", "gone"}

\* What a goroutine has in its variables where it needs them.
Working ==
  \A k \in Conns :
    /\ pc[k] = "fresh" => pid[k] = None /\ profile[k] = None
    /\ pc[k] \notin {"fresh", "gone"} => pid[k] \in Pids
    /\ pc[k] \in {"relogin", "login", "contacts", "statuses", "status", "changed"} => profile[k] \in Emails
    /\ pc[k] \in {"add", "list", "push", "reverse", "relogin", "leaveList", "leavePush"} => email[k] \in Emails
    /\ pc[k] \in {"peers", "found"} => subject[k] \in Pids /\ profile[k] \in Emails
    /\ pc[k] \in Joins => profile[k] = None

\* The connections in `clients` are those that authorized and have not been removed.
ClientsListed ==
  \A q \in Pids, k \in Conns : k \in clients[q] <=> pid[k] = q /\ pc[k] \notin Left

\* Without overlap a machine has one connection at a time.
Apart ==
  ~Overlap => \A j, k \in Conns :
    pid[j] = pid[k] /\ pid[k] # None /\ pc[j] # "gone" /\ pc[k] # "gone" => j = k

\* k will add e to the profiles of q.
Adds(k, q, e) ==
  \/ pid[k] = q /\ pc[k] \in Joins /\ e \in todo[k]
  \/ pid[k] = q /\ pc[k] \in {"add", "reverse"} /\ email[k] = e
  \/ subject[k] = q /\ pc[k] \in {"peers", "found"} /\ profile[k] = e

Complete ==
  ~Overlap => \A q \in Pids, e \in Emails :
    Online(q) /\ q \in contacts[e] => e \in contained[q] \/ \E k \in Conns : Adds(k, q, e)

\* A machine is announced to a profile that its end will find.
Announced ==
  ~Overlap => \A k \in Conns : pc[k] \in {"list", "push"} => email[k] \in contained[pid[k]]

\* k will tell w, who is logged in to e, that q is gone, or see to it that its end does.
Tells(k, q, e, w) ==
  /\ pid[k] = q
  /\ \/ pc[k] \in Joins /\ e \in todo[k] /\ q \in contacts[e]
     \/ pc[k] \in {"add", "reverse"} /\ email[k] = e
     \/ pc[k] \in {"last", "lookup"} /\ e \in contained[q]
     \/ pc[k] \in Leaves /\ e \in todo[k]
     \/ pc[k] = "leaveList" /\ email[k] = e
     \/ pc[k] = "leavePush" /\ email[k] = e /\ w \in receivers[k]

\* The end of q will find e.
Kept(q, e) == Online(q) /\ e \in contained[q]

Told ==
  ~Overlap => \A q \in Pids, e \in Emails, w \in Conns :
    w \in authorized[e] /\ told[e][q][w] = "1" =>
      Kept(q, e) \/ \E k \in Conns : Tells(k, q, e, w)

IInv == /\ TypeOK /\ Working /\ ClientsListed /\ Apart /\ AuthorizedExact
        /\ Complete /\ Announced /\ Told

(***************************************************************************)
(* A step is one of a single goroutine.                                    *)
(***************************************************************************)
Only(k) ==
  \A j \in Conns \ {k} :
    /\ pid'[j] = pid[j] /\ profile'[j] = profile[j] /\ pc'[j] = pc[j] /\ todo'[j] = todo[j]
    /\ email'[j] = email[j] /\ subject'[j] = subject[j] /\ receivers'[j] = receivers[j]

\* What k has to see to for Complete, ...
CompleteBy(k) ==
  ~Overlap => \A q \in Pids, e \in Emails : Online(q)' /\ q \in contacts'[e] =>
    /\ (Online(q) /\ q \in contacts[e]) \/ e \in contained'[q] \/ Adds(k, q, e)'
    /\ e \in contained[q] => e \in contained'[q]
    /\ Adds(k, q, e) => e \in contained'[q] \/ Adds(k, q, e)'

LEMMA CompleteStep ==
  ASSUME Complete, NEW k \in Conns, Only(k), CompleteBy(k)
  PROVE  Complete'
<1> SUFFICES ASSUME ~Overlap, NEW q \in Pids, NEW e \in Emails, Online(q)', q \in contacts'[e],
                    e \notin contained'[q]
             PROVE  \E j \in Conns : Adds(j, q, e)'
  BY DEF Complete
<1>1. CASE Adds(k, q, e)'
  BY <1>1
<1>2. CASE ~Adds(k, q, e)'
  <2>1. PICK j \in Conns : Adds(j, q, e)
    BY <1>2 DEF Complete, CompleteBy
  <2>2. j # k
    BY <1>2, <2>1 DEF CompleteBy
  <2>3. Adds(j, q, e)'
    BY <2>1, <2>2 DEF Only, Adds
  <2> QED BY <2>3
<1> QED BY <1>1, <1>2

\* ... and for Told.
ToldBy(k) ==
  ~Overlap => \A q \in Pids, e \in Emails, w \in Conns : w \in authorized'[e] /\ told'[e][q][w] = "1" =>
    /\ (w \in authorized[e] /\ told[e][q][w] = "1") \/ Kept(q, e)'
    /\ q \in contacts[e] => q \in contacts'[e]
    /\ Kept(q, e) => Kept(q, e)' \/ Tells(k, q, e, w)'
    /\ Tells(k, q, e, w) => Kept(q, e)' \/ Tells(k, q, e, w)'
    /\ \A j \in Conns \ {k} : pid[j] = q /\ pc[j] \in {"last", "lookup"} /\ e \in contained[q]
                                => e \in contained'[q]

LEMMA ToldStep ==
  ASSUME Told, NEW k \in Conns, Only(k), ToldBy(k)
  PROVE  Told'
<1> SUFFICES ASSUME ~Overlap, NEW q \in Pids, NEW e \in Emails, NEW w \in Conns,
                    w \in authorized'[e], told'[e][q][w] = "1", ~Kept(q, e)'
             PROVE  \E j \in Conns : Tells(j, q, e, w)'
  BY DEF Told
<1>1. CASE Tells(k, q, e, w)'
  BY <1>1
<1>2. CASE ~Tells(k, q, e, w)'
  <2>1. PICK j \in Conns : Tells(j, q, e, w)
    BY <1>2 DEF Told, ToldBy
  <2>2. j # k
    BY <1>2, <2>1 DEF ToldBy
  <2>3. Tells(j, q, e, w)'
    BY <2>1, <2>2 DEF Only, Tells, ToldBy
  <2> QED BY <2>3
<1> QED BY <1>1, <1>2

\* One receiver is notified, or the list is done.
LEMMA NotifyMoves ==
  ASSUME TypeOK, NEW k \in Conns, NEW status \in {"0", "1"}, NEW next \in Label,
         email[k] \in Emails, pid[k] \in Pids, Notify(k, status, next)
  PROVE  /\ told' \in [Emails -> [Pids -> [Conns -> {"0", "1", "stale"}]]]
         /\ receivers' \in [Conns -> SUBSET Conns]
         /\ \A j \in Conns \ {k} : receivers'[j] = receivers[j]
         /\ pc' \in [Conns -> Label] /\ \A j \in Conns \ {k} : pc'[j] = pc[j]
         /\ \/ pc' = pc /\ email' = email
            \/ /\ pc'[k] = next /\ email' = [email EXCEPT ![k] = None]
               /\ receivers[k] = {} /\ receivers' = receivers
         /\ \A e \in Emails, q \in Pids, w \in Conns :
              \/ told'[e][q][w] = told[e][q][w] /\ (e = email[k] /\ w \in receivers[k] /\ q = pid[k] => w \in receivers'[k])
              \/ told'[e][q][w] = status /\ e = email[k] /\ q = pid[k]
         /\ UNCHANGED <<clients, authorized, contained, contacts, holder, pid, profile, todo, subject, answer>>
<1> USE PresenceAssumption DEF TypeOK, Label, registry
<1>1. CASE \E w \in receivers[k] :
             /\ told' = [told EXCEPT ![email[k]][pid[k]][w] = status]
             /\ receivers' = [receivers EXCEPT ![k] = @ \ {w}]
             /\ UNCHANGED <<pc, email>>
  <2>1. PICK w \in receivers[k] :
             /\ told' = [told EXCEPT ![email[k]][pid[k]][w] = status]
             /\ receivers' = [receivers EXCEPT ![k] = @ \ {w}]
             /\ UNCHANGED <<pc, email>>
    BY <1>1
  <2> DEFINE row == [told[email[k]][pid[k]] EXCEPT ![w] = status]
             sheet == [told[email[k]] EXCEPT ![pid[k]] = row]
  <2>2. told' = [told EXCEPT ![email[k]] = sheet]
    BY <2>1
  <2>3. row \in [Conns -> {"0", "1", "stale"}] /\ \A v \in Conns : row[v] = IF v = w THEN status ELSE told[email[k]][pid[k]][v]
    OBVIOUS
  <2> HIDE DEF row
  <2>4. sheet \in [Pids -> [Conns -> {"0", "1", "stale"}]]
        /\ \A q \in Pids : sheet[q] = IF q = pid[k] THEN row ELSE told[email[k]][q]
    BY <2>3
  <2> HIDE DEF sheet
  <2>5. told' \in [Emails -> [Pids -> [Conns -> {"0", "1", "stale"}]]]
        /\ \A e \in Emails : told'[e] = IF e = email[k] THEN sheet ELSE told[e]
    BY <2>2, <2>4
  <2>6. receivers' \in [Conns -> SUBSET Conns] /\ receivers'[k] = receivers[k] \ {w}
        /\ \A j \in Conns \ {k} : receivers'[j] = receivers[j]
    BY <2>1
  <2>7. \A e \in Emails, q \in Pids, v \in Conns :
              \/ told'[e][q][v] = told[e][q][v] /\ (e = email[k] /\ v \in receivers[k] /\ q = pid[k] => v \in receivers'[k])
              \/ told'[e][q][v] = status /\ e = email[k] /\ q = pid[k]
    BY <2>3, <2>4, <2>5, <2>6
  <2>8. UNCHANGED <<clients, authorized, contained, contacts, holder, pid, profile, todo, subject, answer>>
    BY DEF Notify
  <2> QED BY <2>1, <2>5, <2>6, <2>7, <2>8
<1>2. CASE ~ \E w \in receivers[k] :
             /\ told' = [told EXCEPT ![email[k]][pid[k]][w] = status]
             /\ receivers' = [receivers EXCEPT ![k] = @ \ {w}]
             /\ UNCHANGED <<pc, email>>
  <2>1. receivers[k] = {} /\ pc' = [pc EXCEPT ![k] = next] /\ email' = [email EXCEPT ![k] = None]
        /\ UNCHANGED <<receivers, answer, told>>
    BY <1>2 DEF Notify, Goto
  <2>2. UNCHANGED <<clients, authorized, contained, contacts, holder, pid, profile, todo, subject, answer>>
    BY DEF Notify
  <2> QED BY <2>1, <2>2
<1> QED BY <1>1, <1>2

(***************************************************************************)
(* Every step preserves the invariant.                                     *)
(***************************************************************************)
LEMMA InitIInv == Init => IInv
<1> SUFFICES ASSUME Init PROVE IInv
  OBVIOUS
<1> USE PresenceAssumption DEF Init
<1>1. TypeOK /\ Working
  BY DEF TypeOK, Working, Joins, Label
<1>2. ClientsListed /\ Apart /\ AuthorizedExact
  BY DEF ClientsListed, Apart, AuthorizedExact
<1>3. Complete /\ Announced /\ Told
  BY DEF Complete, Announced, Told, Online
<1> QED BY <1>1, <1>2, <1>3 DEF IInv

LEMMA ScanStep ==
  ASSUME IInv, NEW k \in Conns, NEW e \in Emails, Scan(k, e)
  PROVE  IInv'
<1> USE PresenceAssumption DEF IInv, Joins, Leaves, Left, Label
<1>1. /\ pc[k] = "scan" /\ e \in todo[k] /\ pc'[k] \in {"scan", "add"}
      /\ pc' \in [Conns -> Label] /\ \A j \in Conns \ {k} : pc'[j] = pc[j]
      /\ todo' = [todo EXCEPT ![k] = @ \ {e}]
      /\ \/ pid[k] \in contacts[e] /\ email' = [email EXCEPT ![k] = e] /\ pc'[k] = "add"
         \/ pid[k] \notin contacts[e] /\ email' = email /\ pc' = pc
      /\ UNCHANGED <<clients, authorized, contained, contacts, holder, pid, profile, subject, receivers, answer, told>>
  BY DEF Scan, Goto, TypeOK, registry
<1>2. TypeOK'
  BY <1>1 DEF TypeOK, Working
<1>3. Working'
  BY <1>1 DEF TypeOK, Working
<1>4. ClientsListed'
  BY <1>1 DEF TypeOK, Working, ClientsListed
<1>5. Apart'
  BY <1>1 DEF TypeOK, Working, Apart
<1>6. AuthorizedExact'
  BY <1>1 DEF TypeOK, Working, AuthorizedExact
<1>7. Only(k)
  BY <1>1 DEF TypeOK, Only
<1>8. CompleteBy(k)
  BY <1>1 DEF TypeOK, Working, ClientsListed, Apart, CompleteBy, Adds, Online
<1>9. Announced'
  BY <1>1 DEF TypeOK, Working, Apart, Announced
<1>10. ToldBy(k)
  BY <1>1 DEF TypeOK, Working, ClientsListed, Apart, Announced, ToldBy, Tells, Kept, Online
<1> QED BY <1>2, <1>3, <1>4, <1>5, <1>6, <1>7, <1>8, <1>9, <1>10, CompleteStep, ToldStep

LEMMA ScannedStep ==
  ASSUME IInv, NEW k \in Conns, Scanned(k)
  PROVE  IInv'
<1> USE PresenceAssumption DEF IInv, Scanned, Goto, registry, locals, Joins, Leaves, Left, Label
<1>1. TypeOK' /\ Working'
  BY DEF TypeOK, Working
<1>2. ClientsListed' /\ Apart' /\ AuthorizedExact'
  BY DEF TypeOK, Working, ClientsListed, Apart, AuthorizedExact
<1>3. Only(k)
  BY DEF TypeOK, Only
<1>4. CompleteBy(k)
  BY DEF TypeOK, Working, ClientsListed, Apart, CompleteBy, Adds, Online
<1>5. Announced'
  BY DEF TypeOK, Working, Apart, Announced
<1>6. ToldBy(k)
  BY DEF TypeOK, Working, ClientsListed, Apart, Announced, ToldBy, Tells, Kept, Online
<1> QED BY <1>1, <1>2, <1>3, <1>4, <1>5, <1>6, CompleteStep, ToldStep

LEMMA AddStep ==
  ASSUME IInv, NEW k \in Conns, Add(k)
  PROVE  IInv'
<1> USE PresenceAssumption DEF IInv, Add, Goto, AddContainedProfile, registry, locals, Joins, Leaves, Left, Label
<1>1. TypeOK' /\ Working'
  BY DEF TypeOK, Working
<1>2. ClientsListed' /\ Apart' /\ AuthorizedExact'
  BY DEF TypeOK, Working, ClientsListed, Apart, AuthorizedExact
<1>3. Only(k)
  BY DEF TypeOK, Only
<1>4. CompleteBy(k)
  BY DEF TypeOK, Working, ClientsListed, Apart, CompleteBy, Adds, Online
<1>5. Announced'
  BY DEF TypeOK, Working, Apart, Announced
<1>6. ToldBy(k)
  <2>5. pc[k] = "add" /\ pc' = [pc EXCEPT ![k] = "list"] /\ UNCHANGED <<clients, authorized, contacts, pid, todo, told>>
    OBVIOUS
  <2>6. pc'[k] = "list"
    BY <2>5 DEF TypeOK
  <2>7. email[k] \in Emails /\ pid[k] \in Pids
    BY <2>5 DEF Working
  <2>8. k \in clients[pid[k]]
    BY <2>5, <2>7 DEF ClientsListed
  <2>1. /\ pc[k] = "add" /\ pc'[k] = "list" /\ email[k] \in Emails /\ pid[k] \in Pids /\ k \in clients[pid[k]]
        /\ UNCHANGED <<clients, authorized, contacts, pid, todo, told>>
    BY ONLY <2>5, <2>6, <2>7, <2>8
  <2>2. /\ \A q \in Pids, e \in Emails : e \in contained[q] => e \in contained'[q]
        /\ email[k] \in contained'[pid[k]]
    BY <2>1 DEF TypeOK
  <2>3. \A q \in Pids, e \in Emails : Kept(q, e) => Kept(q, e)'
    BY <2>1, <2>2 DEF Kept, Online
  <2>4. \A q \in Pids, e \in Emails, w \in Conns : Tells(k, q, e, w) => Kept(q, e)' \/ Tells(k, q, e, w)'
    BY <2>1, <2>2 DEF Tells, Kept, Online
  <2> QED BY ONLY <2>1, <2>2, <2>3, <2>4 DEF ToldBy
<1> QED BY <1>1, <1>2, <1>3, <1>4, <1>5, <1>6, CompleteStep, ToldStep

LEMMA ListStep ==
  ASSUME IInv, NEW k \in Conns, List(k)
  PROVE  IInv'
<1> USE PresenceAssumption DEF IInv, List, Goto, registry, locals, Joins, Leaves, Left, Label
<1>1. TypeOK' /\ Working'
  BY DEF TypeOK, Working
<1>2. ClientsListed' /\ Apart' /\ AuthorizedExact'
  BY DEF TypeOK, Working, ClientsListed, Apart, AuthorizedExact
<1>3. Only(k)
  BY DEF TypeOK, Only
<1>4. CompleteBy(k)
  BY DEF TypeOK, Working, ClientsListed, Apart, CompleteBy, Adds, Online
<1>5. Announced'
  BY DEF TypeOK, Working, Apart, Announced
<1>6. ToldBy(k)
  BY DEF TypeOK, Working, ClientsListed, Apart, Announced, ToldBy, Tells, Kept, Online
<1> QED BY <1>1, <1>2, <1>3, <1>4, <1>5, <1>6, CompleteStep, ToldStep

LEMMA PushStep ==
  ASSUME IInv, NEW k \in Conns, Push(k)
  PROVE  IInv'
<1> USE PresenceAssumption DEF IInv, Joins, Leaves, Left, Label
<1>1. email[k] \in Emails /\ pid[k] \in Pids /\ pc[k] = "push" /\ Notify(k, "1", "scan")
  BY DEF Push, Working
<1>2. /\ told' \in [Emails -> [Pids -> [Conns -> {"0", "1", "stale"}]]]
      /\ receivers' \in [Conns -> SUBSET Conns]
      /\ \A j \in Conns \ {k} : receivers'[j] = receivers[j]
      /\ pc' \in [Conns -> Label] /\ \A j \in Conns \ {k} : pc'[j] = pc[j]
      /\ \/ pc' = pc /\ email' = email
         \/ /\ pc'[k] = "scan" /\ email' = [email EXCEPT ![k] = None]
            /\ receivers[k] = {} /\ receivers' = receivers
      /\ \A e \in Emails, q \in Pids, w \in Conns :
           \/ /\ told'[e][q][w] = told[e][q][w]
              /\ e = email[k] /\ w \in receivers[k] /\ q = pid[k] => w \in receivers'[k]
           \/ told'[e][q][w] = "1" /\ e = email[k] /\ q = pid[k]
      /\ UNCHANGED <<clients, authorized, contained, contacts, holder, pid, profile, todo, subject, answer>>
  BY <1>1, NotifyMoves
<1>3. k \in clients[pid[k]] /\ (~Overlap => email[k] \in contained[pid[k]])
  BY <1>1 DEF ClientsListed, Announced
<1>4. TypeOK' /\ Working'
  <2>1. TypeOK'
    BY <1>1, <1>2 DEF TypeOK
  <2>2. Working'
    BY <1>1, <1>2 DEF Working, TypeOK
  <2> QED BY <2>1, <2>2
<1>5. ClientsListed'
  BY <1>1, <1>2, <1>3 DEF TypeOK, Working, ClientsListed
<1>6. Apart'
  BY <1>1, <1>2, <1>3 DEF TypeOK, Working, Apart
<1>7. AuthorizedExact'
  BY <1>1, <1>2, <1>3 DEF TypeOK, Working, AuthorizedExact
<1>8. Only(k)
  BY <1>1, <1>2, <1>3 DEF TypeOK, Only
<1>9. CompleteBy(k)
  BY <1>1, <1>2, <1>3 DEF TypeOK, Working, ClientsListed, Apart, CompleteBy, Adds, Online
<1>10. Announced'
  BY <1>1, <1>2, <1>3 DEF TypeOK, Working, Apart, Announced
<1>11. ToldBy(k)
  <2>1. \A q \in Pids, e \in Emails : Kept(q, e)' <=> Kept(q, e)
    BY <1>2 DEF Kept, Online
  <2>2. ~Overlap => Kept(pid[k], email[k])
    BY <1>3 DEF Kept, Online
  <2>3. \A q \in Pids, e \in Emails, w \in Conns : Tells(k, q, e, w) => Tells(k, q, e, w)'
    BY <1>1, <1>2 DEF Tells, Joins, Leaves
  <2> QED BY <1>1, <1>2, <2>1, <2>2, <2>3 DEF ToldBy
<1> QED BY <1>4, <1>5, <1>6, <1>7, <1>8, <1>9, <1>10, <1>11, CompleteStep, ToldStep

LEMMA LoggedInStep ==
  ASSUME IInv, NEW k \in Conns, LoggedIn(k)
  PROVE  IInv'
<1> USE PresenceAssumption DEF IInv, LoggedIn, Goto, Forget, registry, locals, Joins, Leaves, Left, Label
<1>1. TypeOK' /\ Working'
  BY DEF TypeOK, Working
<1>2. ClientsListed' /\ Apart' /\ AuthorizedExact'
  BY DEF TypeOK, Working, ClientsListed, Apart, AuthorizedExact
<1>3. Only(k)
  BY DEF TypeOK, Only
<1>4. CompleteBy(k)
  BY DEF TypeOK, Working, ClientsListed, Apart, CompleteBy, Adds, Online
<1>5. Announced'
  BY DEF TypeOK, Working, Apart, Announced
<1>6. ToldBy(k)
  BY DEF TypeOK, Working, ClientsListed, Apart, Announced, ToldBy, Tells, Kept, Online
<1> QED BY <1>1, <1>2, <1>3, <1>4, <1>5, <1>6, CompleteStep, ToldStep

LEMMA ReloginStep ==
  ASSUME IInv, NEW k \in Conns, Relogin(k)
  PROVE  IInv'
<1> USE PresenceAssumption DEF IInv, Relogin, Goto, DelAuthorizedClient, registry, locals, Joins, Leaves, Left, Label
<1>1. TypeOK' /\ Working'
  BY DEF TypeOK, Working
<1>2. ClientsListed' /\ Apart' /\ AuthorizedExact'
  BY DEF TypeOK, Working, ClientsListed, Apart, AuthorizedExact
<1>3. Only(k)
  BY DEF TypeOK, Only
<1>4. CompleteBy(k)
  BY DEF TypeOK, Working, ClientsListed, Apart, CompleteBy, Adds, Online
<1>5. Announced'
  BY DEF TypeOK, Working, Apart, Announced
<1>6. ToldBy(k)
  BY DEF TypeOK, Working, ClientsListed, Apart, Announced, ToldBy, Tells, Kept, Online
<1> QED BY <1>1, <1>2, <1>3, <1>4, <1>5, <1>6, CompleteStep, ToldStep

LEMMA LoggedOutStep ==
  ASSUME IInv, NEW k \in Conns, LoggedOut(k)
  PROVE  IInv'
<1> USE PresenceAssumption DEF IInv, LoggedOut, Goto, registry, locals, Joins, Leaves, Left, Label
<1>1. TypeOK' /\ Working'
  BY DEF TypeOK, Working
<1>2. ClientsListed' /\ Apart' /\ AuthorizedExact'
  BY DEF TypeOK, Working, ClientsListed, Apart, AuthorizedExact
<1>3. Only(k)
  BY DEF TypeOK, Only
<1>4. CompleteBy(k)
  BY DEF TypeOK, Working, ClientsListed, Apart, CompleteBy, Adds, Online
<1>5. Announced'
  BY DEF TypeOK, Working, Apart, Announced
<1>6. ToldBy(k)
  BY DEF TypeOK, Working, ClientsListed, Apart, Announced, ToldBy, Tells, Kept, Online
<1> QED BY <1>1, <1>2, <1>3, <1>4, <1>5, <1>6, CompleteStep, ToldStep

\* A handler that only prepares an answer.
LEMMA AnsweringMoves ==
  ASSUME TypeOK, NEW k \in Conns, NEW a \in [Pids -> {"none", "ask", "0", "1"}], NEW label \in Label,
         Answering(k, a, label)
  PROVE  /\ answer' \in [Conns -> [Pids -> {"none", "ask", "0", "1"}]]
         /\ pc' \in [Conns -> Label] /\ pc'[k] \in {"idle", label}
         /\ \A j \in Conns \ {k} : pc'[j] = pc[j] /\ answer'[j] = answer[j]
  BY DEF TypeOK, Answering, Goto, Label

Answers == {"contacts", "statuses", "status", "changed"}

Prepares(k) ==
  /\ pc[k] \in Answers \cup {"idle"} /\ pc'[k] \in Answers \cup {"idle"} /\ profile[k] \in Emails
  /\ answer' \in [Conns -> [Pids -> {"none", "ask", "0", "1"}]]
  /\ pc' \in [Conns -> Label] /\ \A j \in Conns \ {k} : pc'[j] = pc[j] /\ answer'[j] = answer[j]
  /\ subject' \in [Conns -> Pids \cup {None}] /\ \A j \in Conns \ {k} : subject'[j] = subject[j]
  /\ UNCHANGED <<clients, authorized, contained, contacts, holder, pid, profile, todo, email, receivers>>

LEMMA PreparesKeeps ==
  ASSUME IInv, NEW k \in Conns, Prepares(k)
  PROVE  /\ Working' /\ ClientsListed' /\ Apart' /\ AuthorizedExact' /\ Announced' /\ Complete'
         /\ Only(k)
         /\ \A q \in Pids, e \in Emails, w \in Conns :
              (Kept(q, e) <=> Kept(q, e)') /\ ~Tells(k, q, e, w)
<1> USE PresenceAssumption DEF IInv, Joins, Leaves, Left, Answers
<1>1. /\ pc[k] \in Answers \cup {"idle"} /\ pc'[k] \in Answers \cup {"idle"} /\ profile[k] \in Emails
      /\ \A j \in Conns \ {k} : pc'[j] = pc[j] /\ subject'[j] = subject[j]
      /\ UNCHANGED <<clients, authorized, contained, contacts, holder, pid, profile, todo, email, receivers>>
  BY DEF Prepares
<1>2. Working'
  BY <1>1 DEF Working
<1>3. ClientsListed' /\ Apart' /\ Announced'
  BY <1>1 DEF ClientsListed, Apart, Announced
<1>4. AuthorizedExact'
  BY <1>1 DEF AuthorizedExact
<1>5. Only(k)
  BY <1>1 DEF Only
<1>6. CompleteBy(k)
  BY <1>1 DEF CompleteBy, Adds, Online
<1>7. \A q \in Pids, e \in Emails, w \in Conns : (Kept(q, e) <=> Kept(q, e)') /\ ~Tells(k, q, e, w)
  BY <1>1 DEF Kept, Tells, Online
<1> QED BY <1>2, <1>3, <1>4, <1>5, <1>6, <1>7, CompleteStep

LEMMA QuietStep ==
  ASSUME IInv, NEW k \in Conns, Prepares(k), UNCHANGED told
  PROVE  IInv'
<1>1. /\ Working' /\ ClientsListed' /\ Apart' /\ AuthorizedExact' /\ Announced' /\ Complete' /\ Only(k)
      /\ \A q \in Pids, e \in Emails, w \in Conns : (Kept(q, e) <=> Kept(q, e)') /\ ~Tells(k, q, e, w)
  BY PreparesKeeps
<1>2. TypeOK'
  BY DEF IInv, Prepares, TypeOK
<1>3. UNCHANGED <<authorized, contained, contacts, told>>
  BY DEF Prepares
<1>4. ToldBy(k)
  BY ONLY <1>1, <1>3 DEF ToldBy
<1>5. Told
  BY DEF IInv
<1>6. Told'
  BY <1>1, <1>4, <1>5, ToldStep
<1> QED BY <1>1, <1>2, <1>6 DEF IInv

LEMMA AskAllStep ==
  ASSUME IInv, NEW k \in Conns, AskAll(k)
  PROVE  IInv'
<1> DEFINE a == [q \in Pids |-> IF q \in contacts[profile[k]] THEN "ask" ELSE "none"]
<1>1. a \in [Pids -> {"none", "ask", "0", "1"}]
  OBVIOUS
<1>2. Answering(k, a, "statuses") /\ pc[k] \in {"idle", "contacts"} /\ profile[k] \in Emails
      /\ UNCHANGED <<clients, authorized, contained, contacts, holder, pid, profile, todo, email, subject, receivers, told>>
  BY DEF AskAll, IInv, TypeOK, registry
<1> HIDE DEF a
<1>3. TypeOK /\ "statuses" \in Label
  BY DEF IInv, Label
<1>4. /\ answer' \in [Conns -> [Pids -> {"none", "ask", "0", "1"}]]
      /\ pc' \in [Conns -> Label] /\ pc'[k] \in {"idle", "statuses"}
      /\ \A j \in Conns \ {k} : pc'[j] = pc[j] /\ answer'[j] = answer[j]
  BY <1>1, <1>2, <1>3, AnsweringMoves
<1>5. Prepares(k)
  BY <1>2, <1>3, <1>4 DEF Prepares, Answers, TypeOK
<1> QED BY <1>2, <1>5, QuietStep

LEMMA AskOneStep ==
  ASSUME IInv, NEW k \in Conns, AskOne(k)
  PROVE  IInv'
<1>1. PICK S \in SUBSET contacts[profile[k]] :
        Answering(k, [q \in Pids |-> IF q \in S THEN "ask" ELSE "none"], "status")
  BY DEF AskOne
<1>2. /\ pc[k] \in {"idle", "changed"} /\ profile[k] \in Emails
      /\ subject' \in [Conns -> Pids \cup {None}] /\ \A j \in Conns \ {k} : subject'[j] = subject[j]
      /\ UNCHANGED <<clients, authorized, contained, contacts, holder, pid, profile, todo, email, receivers, told>>
  BY DEF AskOne, IInv, TypeOK, registry
<1> DEFINE a == [q \in Pids |-> IF q \in S THEN "ask" ELSE "none"]
<1>3. a \in [Pids -> {"none", "ask", "0", "1"}] /\ Answering(k, a, "status")
  BY <1>1
<1> HIDE DEF a
<1>4. TypeOK /\ "status" \in Label
  BY DEF IInv, Label
<1>5. /\ answer' \in [Conns -> [Pids -> {"none", "ask", "0", "1"}]]
      /\ pc' \in [Conns -> Label] /\ pc'[k] \in {"idle", "status"}
      /\ \A j \in Conns \ {k} : pc'[j] = pc[j] /\ answer'[j] = answer[j]
  BY <1>3, <1>4, AnsweringMoves
<1>6. Prepares(k)
  BY <1>2, <1>5 DEF Prepares, Answers
<1> QED BY <1>2, <1>6, QuietStep

LEMMA ReadStatusStep ==
  ASSUME IInv, NEW k \in Conns, NEW q \in Pids, ReadStatus(k, q)
  PROVE  IInv'
<1>1. PICK a : /\ a \in [Pids -> {"none", "ask", "0", "1"}] /\ Answering(k, a, pc[k])
  BY DEF ReadStatus, IInv, TypeOK
<1>2. /\ pc[k] \in {"statuses", "status"} /\ profile[k] \in Emails
      /\ UNCHANGED <<clients, authorized, contained, contacts, holder, pid, profile, todo, email, subject, receivers, told>>
  BY DEF ReadStatus, IInv, Working, registry
<1>3. TypeOK /\ pc[k] \in Label
  BY <1>2 DEF IInv, Label
<1>4. /\ answer' \in [Conns -> [Pids -> {"none", "ask", "0", "1"}]]
      /\ pc' \in [Conns -> Label] /\ pc'[k] \in {"idle", pc[k]}
      /\ \A j \in Conns \ {k} : pc'[j] = pc[j] /\ answer'[j] = answer[j]
  BY <1>1, <1>3, AnsweringMoves
<1>5. Prepares(k)
  BY <1>2, <1>3, <1>4 DEF Prepares, Answers, TypeOK
<1> QED BY <1>2, <1>5, QuietStep

\* A "1" that is sent while the contact is online is one that its end will find.
LEMMA AnswerStep ==
  ASSUME IInv, NEW k \in Conns, NEW p \in Pids, Answer(k, p)
  PROVE  IInv'
<1>1. PICK a : /\ a \in [Pids -> {"none", "ask", "0", "1"}] /\ Answering(k, a, pc[k])
  BY DEF Answer, IInv, TypeOK
<1>12. PICK f : f = profile[k]
  OBVIOUS
<1>2. PICK s : s = IF answer[k][p] = "1" /\ ~Current(p, f) THEN "stale" ELSE answer[k][p]
  OBVIOUS
<1>13. answer[k][p] \in {"0", "1"}
  BY DEF Answer
<1>14. s \in {"0", "1", "stale"}
  BY <1>2, <1>13
<1>15. s = "1" => Current(p, f)
  BY <1>2
<1>16. told' = [told EXCEPT ![f][p][k] = s]
  BY <1>2, <1>12 DEF Answer
<1>3. /\ pc[k] \in {"statuses", "status"} /\ f \in Emails /\ profile[k] = f
      /\ UNCHANGED <<clients, authorized, contained, contacts, holder, pid, profile, todo, email, subject, receivers>>
  BY <1>12 DEF Answer, IInv, Working, registry
<1>4. TypeOK /\ pc[k] \in Label
  BY <1>3 DEF IInv, Label
<1>5. /\ answer' \in [Conns -> [Pids -> {"none", "ask", "0", "1"}]]
      /\ pc' \in [Conns -> Label] /\ pc'[k] \in {"idle", pc[k]}
      /\ \A j \in Conns \ {k} : pc'[j] = pc[j] /\ answer'[j] = answer[j]
  BY <1>1, <1>4, AnsweringMoves
<1>6. Prepares(k)
  BY <1>3, <1>4, <1>5 DEF Prepares, Answers, TypeOK
<1>7. /\ Working' /\ ClientsListed' /\ Apart' /\ AuthorizedExact' /\ Announced' /\ Complete' /\ Only(k)
      /\ \A q \in Pids, e \in Emails, w \in Conns : (Kept(q, e) <=> Kept(q, e)') /\ ~Tells(k, q, e, w)
  BY <1>6, PreparesKeeps
<1>8. /\ told' \in [Emails -> [Pids -> [Conns -> {"0", "1", "stale"}]]]
      /\ \A e \in Emails, q \in Pids, w \in Conns :
           told'[e][q][w] = told[e][q][w] \/ (e = f /\ q = p /\ w = k /\ told'[e][q][w] = s)
  <2> DEFINE row == [told[f][p] EXCEPT ![k] = s]
             sheet == [told[f] EXCEPT ![p] = row]
  <2>5. told \in [Emails -> [Pids -> [Conns -> {"0", "1", "stale"}]]]
    BY <1>4 DEF TypeOK
  <2>6. told' = [told EXCEPT ![f][p][k] = s]
    BY <1>16
  <2>7. told' = [told EXCEPT ![f] = sheet]
    BY ONLY <2>6
  <2>1. told' = [told EXCEPT ![f] = sheet] /\ told \in [Emails -> [Pids -> [Conns -> {"0", "1", "stale"}]]]
    BY <2>5, <2>7
  <2>2. row \in [Conns -> {"0", "1", "stale"}] /\ \A v \in Conns : row[v] = IF v = k THEN s ELSE told[f][p][v]
    BY <1>3, <1>14, <2>1
  <2> HIDE DEF row
  <2>3. sheet \in [Pids -> [Conns -> {"0", "1", "stale"}]]
        /\ \A q \in Pids : sheet[q] = IF q = p THEN row ELSE told[f][q]
    BY <1>3, <2>1, <2>2
  <2> HIDE DEF sheet
  <2>4. told' \in [Emails -> [Pids -> [Conns -> {"0", "1", "stale"}]]]
        /\ \A e \in Emails : told'[e] = IF e = f THEN sheet ELSE told[e]
    BY <2>1, <2>3
  <2> QED BY <2>2, <2>3, <2>4
<1>9. TypeOK'
  BY <1>6, <1>8 DEF IInv, Prepares, TypeOK
<1>10. ASSUME ~Overlap, s = "1"
       PROVE  Kept(p, f)' \/ \E j \in Conns : Tells(j, p, f, k)'
  <2>1. /\ clients[p] # {} /\ p \in contacts[f]
        /\ \A j \in Conns : pc[j] \in {"peers", "found"} => subject[j] # p \/ profile[j] # f
    <3>1. Current(p, f)
      BY <1>15, <1>10
    <3> QED BY <3>1 DEF Current
  <2>2. f \in contained[p] \/ \E j \in Conns : Adds(j, p, f)
    BY <1>3, <1>10, <2>1 DEF IInv, Complete, Online
  <2>3. CASE f \in contained[p]
    BY <1>3, <1>7, <2>1, <2>3 DEF Kept, Online
  <2>4. ASSUME NEW j \in Conns, Adds(j, p, f) PROVE \E i \in Conns : Tells(i, p, f, k)'
    <3>1. Tells(j, p, f, k)
      BY <2>1, <2>4 DEF Adds, Tells
    <3>2. j # k
      BY <1>3, <1>7, <3>1
    <3>3. UNCHANGED <<contacts, contained, profile>>
      BY <1>3
    <3> QED BY <1>7, <3>1, <3>2, <3>3 DEF Only, Tells
  <2> QED BY <2>2, <2>3, <2>4
<1>11. Told'
  <2> SUFFICES ASSUME ~Overlap, NEW q \in Pids, NEW e \in Emails, NEW w \in Conns,
                      w \in authorized'[e], told'[e][q][w] = "1"
               PROVE  Kept(q, e)' \/ \E j \in Conns : Tells(j, q, e, w)'
    BY DEF Told
  <2>1. CASE e = f /\ q = p /\ w = k /\ told'[e][q][w] = s
    BY <1>10, <2>1
  <2>2. CASE told'[e][q][w] = told[e][q][w]
    <3>1. w \in authorized[e] /\ told[e][q][w] = "1"
      BY <1>3, <2>2
    <3>2. Kept(q, e) \/ \E j \in Conns : Tells(j, q, e, w)
      BY <3>1 DEF IInv, Told
    <3>3. ASSUME NEW j \in Conns, Tells(j, q, e, w) PROVE Tells(j, q, e, w)'
      <4>1. j # k
        BY <1>7, <3>3
      <4>2. UNCHANGED <<contacts, contained>>
        BY <1>3
      <4> QED BY <1>7, <3>3, <4>1, <4>2 DEF Only, Tells
    <3> QED BY <1>7, <3>2, <3>3
  <2> QED BY <1>8, <2>1, <2>2
<1> QED BY <1>7, <1>9, <1>11 DEF IInv

LEMMA PeersStep ==
  ASSUME IInv, NEW k \in Conns, Peers(k)
  PROVE  IInv'
<1> USE PresenceAssumption DEF IInv, Release, Joins, Leaves, Left, Label
<1>1. /\ pc[k] = "peers" /\ pc'[k] \in {"changed", "found"}
      /\ pc' \in [Conns -> Label] /\ \A j \in Conns \ {k} : pc'[j] = pc[j]
      /\ \/ clients[subject[k]] = {} /\ Release(k) /\ pc'[k] = "changed"
         \/ clients[subject[k]] # {} /\ UNCHANGED holder /\ pc'[k] = "found"
      /\ UNCHANGED <<clients, authorized, contained, contacts, pid, profile, todo, email, subject, receivers, answer, told>>
  BY ZenonT(30) DEF Peers, Release, Goto, TypeOK, registry
<1>2. TypeOK'
  BY <1>1 DEF TypeOK, Working
<1>3. Working'
  BY <1>1 DEF TypeOK, Working
<1>4. ClientsListed'
  BY <1>1 DEF ClientsListed
<1>5. Apart'
  BY <1>1, SMTT(30) DEF TypeOK, Working, Apart
<1>6. AuthorizedExact'
  BY <1>1 DEF AuthorizedExact
<1>7. Only(k)
  BY <1>1 DEF TypeOK, Only
<1>8. CompleteBy(k)
  BY <1>1 DEF TypeOK, Working, ClientsListed, Apart, CompleteBy, Adds, Online
<1>9. Announced'
  BY <1>1 DEF TypeOK, Working, Apart, Announced
<1>10. ToldBy(k)
  BY <1>1 DEF TypeOK, Working, ClientsListed, Apart, Announced, ToldBy, Tells, Kept, Online
<1> QED BY <1>2, <1>3, <1>4, <1>5, <1>6, <1>7, <1>8, <1>9, <1>10, CompleteStep, ToldStep

LEMMA FoundStep ==
  ASSUME IInv, NEW k \in Conns, Found(k)
  PROVE  IInv'
<1> USE PresenceAssumption DEF IInv, Found, Goto, Release, AddContainedProfile, registry, locals, Joins, Leaves, Left, Label
<1>1. TypeOK' /\ Working'
  BY DEF TypeOK, Working
<1>2. ClientsListed' /\ Apart' /\ AuthorizedExact'
  BY DEF TypeOK, Working, ClientsListed, Apart, AuthorizedExact
<1>3. Only(k)
  BY DEF TypeOK, Only
<1>4. CompleteBy(k)
  BY DEF TypeOK, Working, ClientsListed, Apart, CompleteBy, Adds, Online
<1>5. Announced'
  BY DEF TypeOK, Working, Apart, Announced
<1>6. ToldBy(k)
  BY DEF TypeOK, Working, ClientsListed, Apart, Announced, ToldBy, Tells, Kept, Online
<1> QED BY <1>1, <1>2, <1>3, <1>4, <1>5, <1>6, CompleteStep, ToldStep

LEMMA ReversedStep ==
  ASSUME IInv, NEW k \in Conns, Reversed(k)
  PROVE  IInv'
<1> USE PresenceAssumption DEF IInv, Reversed, Goto, AddContainedProfile, registry, locals, Joins, Leaves, Left, Label
<1>1. TypeOK' /\ Working'
  BY ZenonT(30) DEF TypeOK, Working
<1>2. ClientsListed' /\ Apart' /\ AuthorizedExact'
  BY DEF TypeOK, Working, ClientsListed, Apart, AuthorizedExact
<1>3. Only(k)
  BY DEF TypeOK, Only
<1>4. CompleteBy(k)
  BY DEF TypeOK, Working, ClientsListed, Apart, CompleteBy, Adds, Online
<1>5. Announced'
  BY DEF TypeOK, Working, Apart, Announced
<1>6. ToldBy(k)
  <2>5. pc[k] = "reverse" /\ pc' = [pc EXCEPT ![k] = "idle"] /\ UNCHANGED <<clients, authorized, contacts, pid, todo, told>>
    OBVIOUS
  <2>6. pc'[k] = "idle"
    BY <2>5 DEF TypeOK
  <2>7. email[k] \in Emails /\ pid[k] \in Pids
    BY <2>5 DEF Working
  <2>8. k \in clients[pid[k]]
    BY <2>5, <2>7 DEF ClientsListed
  <2>1. /\ pc[k] = "reverse" /\ pc'[k] = "idle" /\ email[k] \in Emails /\ pid[k] \in Pids /\ k \in clients[pid[k]]
        /\ UNCHANGED <<clients, authorized, contacts, pid, todo, told>>
    BY ONLY <2>5, <2>6, <2>7, <2>8
  <2>2. /\ \A q \in Pids, e \in Emails : e \in contained[q] => e \in contained'[q]
        /\ email[k] \in contained'[pid[k]]
    BY <2>1 DEF TypeOK
  <2>3. \A q \in Pids, e \in Emails : Kept(q, e) => Kept(q, e)'
    BY <2>1, <2>2 DEF Kept, Online
  <2>4. \A q \in Pids, e \in Emails, w \in Conns : Tells(k, q, e, w) => Kept(q, e)' \/ Tells(k, q, e, w)'
    BY <2>1, <2>2 DEF Tells, Kept, Online
  <2> QED BY ONLY <2>1, <2>2, <2>3, <2>4 DEF ToldBy
<1> QED BY <1>1, <1>2, <1>3, <1>4, <1>5, <1>6, CompleteStep, ToldStep

LEMMA RemoveClientStep ==
  ASSUME IInv, NEW k \in Conns, RemoveClient(k)
  PROVE  IInv'
<1> USE PresenceAssumption DEF IInv, RemoveClient, Goto, registry, locals, Joins, Leaves, Left, Label
<1>1. TypeOK' /\ Working'
  BY DEF TypeOK, Working
<1>2. ClientsListed' /\ Apart' /\ AuthorizedExact'
  BY DEF TypeOK, Working, ClientsListed, Apart, AuthorizedExact
<1>3. Only(k)
  BY DEF TypeOK, Only
<1>4. CompleteBy(k)
  BY DEF TypeOK, Working, ClientsListed, Apart, CompleteBy, Adds, Online
<1>5. Announced'
  BY DEF TypeOK, Working, Apart, Announced
<1>6. ToldBy(k)
  BY DEF TypeOK, Working, ClientsListed, Apart, Announced, ToldBy, Tells, Kept, Online
<1> QED BY <1>1, <1>2, <1>3, <1>4, <1>5, <1>6, CompleteStep, ToldStep

LEMMA LastStep ==
  ASSUME IInv, NEW k \in Conns, Last(k)
  PROVE  IInv'
<1> USE PresenceAssumption DEF IInv, Last, Goto, registry, locals, Joins, Leaves, Left, Label
<1>1. TypeOK' /\ Working'
  BY DEF TypeOK, Working
<1>2. ClientsListed' /\ Apart' /\ AuthorizedExact'
  BY DEF TypeOK, Working, ClientsListed, Apart, AuthorizedExact
<1>3. Only(k)
  BY DEF TypeOK, Only
<1>4. CompleteBy(k)
  BY DEF TypeOK, Working, ClientsListed, Apart, CompleteBy, Adds, Online
<1>5. Announced'
  BY DEF TypeOK, Working, Apart, Announced
<1>6. ToldBy(k)
  BY DEF TypeOK, Working, ClientsListed, Apart, Announced, ToldBy, Tells, Kept, Online
<1> QED BY <1>1, <1>2, <1>3, <1>4, <1>5, <1>6, CompleteStep, ToldStep

LEMMA LookupStep ==
  ASSUME IInv, NEW k \in Conns, Lookup(k)
  PROVE  IInv'
<1> USE PresenceAssumption DEF IInv, Lookup, Goto, registry, locals, Joins, Leaves, Left, Label
<1>1. TypeOK' /\ Working'
  BY DEF TypeOK, Working
<1>2. ClientsListed' /\ Apart' /\ AuthorizedExact'
  BY DEF TypeOK, Working, ClientsListed, Apart, AuthorizedExact
<1>3. Only(k)
  BY DEF TypeOK, Only
<1>4. CompleteBy(k)
  BY DEF TypeOK, Working, ClientsListed, Apart, CompleteBy, Adds, Online
<1>5. Announced'
  BY DEF TypeOK, Working, Apart, Announced
<1>6. ToldBy(k)
  BY DEF TypeOK, Working, ClientsListed, Apart, Announced, ToldBy, Tells, Kept, Online
<1> QED BY <1>1, <1>2, <1>3, <1>4, <1>5, <1>6, CompleteStep, ToldStep

LEMMA LeaveNextStep ==
  ASSUME IInv, NEW k \in Conns, NEW e \in todo[k], pc[k] = "leave",
         todo' = [todo EXCEPT ![k] = @ \ {e}], email' = [email EXCEPT ![k] = e], Goto(k, "leaveList"),
         UNCHANGED <<registry, contacts, holder, pid, profile, subject, receivers, answer, told>>
  PROVE  IInv'
<1> USE PresenceAssumption DEF IInv, Goto, registry, locals, Joins, Leaves, Left, Label
<1>1. TypeOK' /\ Working'
  BY DEF TypeOK, Working
<1>2. ClientsListed' /\ Apart' /\ AuthorizedExact'
  BY DEF TypeOK, Working, ClientsListed, Apart, AuthorizedExact
<1>3. Only(k)
  BY DEF TypeOK, Only
<1>4. CompleteBy(k)
  BY DEF TypeOK, Working, ClientsListed, Apart, CompleteBy, Adds, Online
<1>5. Announced'
  BY DEF TypeOK, Working, Apart, Announced
<1>6. ToldBy(k)
  BY DEF TypeOK, Working, ClientsListed, Apart, Announced, ToldBy, Tells, Kept, Online
<1> QED BY <1>1, <1>2, <1>3, <1>4, <1>5, <1>6, CompleteStep, ToldStep

LEMMA LeaveEndStep ==
  ASSUME IInv, NEW k \in Conns, pc[k] = "leave", todo[k] = {},
         contained' = [contained EXCEPT ![pid[k]] = {}], Goto(k, "gone"),
         UNCHANGED <<clients, authorized, contacts, holder, pid, profile, todo, email, subject,
                     receivers, answer, told>>
  PROVE  IInv'
<1> USE PresenceAssumption DEF IInv, Goto, registry, locals, Joins, Leaves, Left, Label
<1>1. pid[k] \in Pids /\ pid[k] # None /\ pc'[k] = "gone" /\ contained' \in [Pids -> SUBSET Emails]
  BY DEF TypeOK, Working
<1>2. /\ \A q \in Pids : q # pid[k] => contained'[q] = contained[q]
      /\ ~Overlap => clients[pid[k]] = {}
  <2>1. pc[k] \in Left /\ pc[k] # "gone"
    OBVIOUS
  <2>2. ~Overlap => \A j \in Conns : j \notin clients[pid[k]]
    BY <1>1, <2>1 DEF ClientsListed, Apart
  <2>3. clients[pid[k]] \subseteq Conns
    BY <1>1 DEF TypeOK
  <2>4. \A q \in Pids : q # pid[k] => contained'[q] = contained[q]
    BY <1>1 DEF TypeOK
  <2> QED BY <2>2, <2>3, <2>4
<1>3. TypeOK' /\ Working'
  BY <1>1, <1>2 DEF TypeOK, Working
<1>4. ClientsListed' /\ Apart' /\ AuthorizedExact'
  BY <1>1, <1>2 DEF TypeOK, Working, ClientsListed, Apart, AuthorizedExact
<1>5. Only(k)
  BY <1>1, <1>2 DEF TypeOK, Only
<1>6. CompleteBy(k)
  BY <1>1, <1>2 DEF CompleteBy, Adds, Online
<1>7. Announced'
  BY <1>1, <1>2, ZenonT(30) DEF TypeOK, Working, Apart, Announced
<1>8. ToldBy(k)
  <2>1. ~Overlap => \A j \in Conns \ {k} : pid[j] = pid[k] => pc[j] = "gone"
    BY <1>1 DEF Apart
  <2>2. ~Overlap => \A q \in Pids, e \in Emails : Kept(q, e) => Kept(q, e)'
    BY <1>1, <1>2 DEF Kept, Online
  <2>3. \A q \in Pids, e \in Emails, w \in Conns : ~Tells(k, q, e, w)
    BY <1>1 DEF Tells
  <2> QED BY <1>1, <1>2, <2>1, <2>2, <2>3 DEF ToldBy
<1> QED BY <1>3, <1>4, <1>5, <1>6, <1>7, <1>8, CompleteStep, ToldStep

LEMMA LeaveListStep ==
  ASSUME IInv, NEW k \in Conns, LeaveList(k)
  PROVE  IInv'
<1> USE PresenceAssumption DEF IInv, LeaveList, Goto, registry, locals, Joins, Leaves, Left, Label
<1>1. TypeOK' /\ Working'
  BY DEF TypeOK, Working
<1>2. ClientsListed' /\ Apart' /\ AuthorizedExact'
  BY DEF TypeOK, Working, ClientsListed, Apart, AuthorizedExact
<1>3. Only(k)
  BY DEF TypeOK, Only
<1>4. CompleteBy(k)
  BY DEF TypeOK, Working, ClientsListed, Apart, CompleteBy, Adds, Online
<1>5. Announced'
  BY DEF TypeOK, Working, Apart, Announced
<1>6. ToldBy(k)
  BY DEF TypeOK, Working, ClientsListed, Apart, Announced, ToldBy, Tells, Kept, Online
<1> QED BY <1>1, <1>2, <1>3, <1>4, <1>5, <1>6, CompleteStep, ToldStep

LEMMA LeavePushStep ==
  ASSUME IInv, NEW k \in Conns, LeavePush(k)
  PROVE  IInv'
<1> USE PresenceAssumption DEF IInv, Joins, Leaves, Left, Label
<1>1. email[k] \in Emails /\ pid[k] \in Pids /\ pc[k] = "leavePush" /\ Notify(k, "0", "leave")
  BY DEF LeavePush, Working
<1>2. /\ told' \in [Emails -> [Pids -> [Conns -> {"0", "1", "stale"}]]]
      /\ receivers' \in [Conns -> SUBSET Conns]
      /\ \A j \in Conns \ {k} : receivers'[j] = receivers[j]
      /\ pc' \in [Conns -> Label] /\ \A j \in Conns \ {k} : pc'[j] = pc[j]
      /\ \/ pc' = pc /\ email' = email
         \/ /\ pc'[k] = "leave" /\ email' = [email EXCEPT ![k] = None]
            /\ receivers[k] = {} /\ receivers' = receivers
      /\ \A e \in Emails, q \in Pids, w \in Conns :
           \/ /\ told'[e][q][w] = told[e][q][w]
              /\ e = email[k] /\ w \in receivers[k] /\ q = pid[k] => w \in receivers'[k]
           \/ told'[e][q][w] = "0" /\ e = email[k] /\ q = pid[k]
      /\ UNCHANGED <<clients, authorized, contained, contacts, holder, pid, profile, todo, subject, answer>>
  BY <1>1, NotifyMoves
<1>3. TypeOK'
  BY <1>1, <1>2 DEF TypeOK, Working
<1>4. Working'
  BY <1>1, <1>2 DEF TypeOK, Working
<1>5. ClientsListed'
  BY <1>1, <1>2 DEF TypeOK, Working, ClientsListed
<1>6. Apart'
  BY <1>1, <1>2 DEF TypeOK, Working, Apart
<1>7. AuthorizedExact'
  BY <1>1, <1>2 DEF TypeOK, Working, AuthorizedExact
<1>8. Only(k)
  BY <1>1, <1>2 DEF TypeOK, Only
<1>9. CompleteBy(k)
  BY <1>1, <1>2 DEF TypeOK, Working, ClientsListed, Apart, CompleteBy, Adds, Online
<1>10. Announced'
  BY <1>1, <1>2 DEF TypeOK, Working, Apart, Announced
<1>11. ToldBy(k)
  BY <1>1, <1>2 DEF TypeOK, Working, ClientsListed, Apart, Announced, ToldBy, Tells, Kept, Online
<1> QED BY <1>3, <1>4, <1>5, <1>6, <1>7, <1>8, <1>9, <1>10, <1>11, CompleteStep, ToldStep

LEMMA AuthStep ==
  ASSUME IInv, NEW k \in Conns, NEW q \in Pids, Auth(k, q)
  PROVE  IInv'
<1> USE PresenceAssumption DEF IInv, Auth, Goto, Present, registry, locals, Joins, Leaves, Left, Label
<1>1. TypeOK' /\ Working'
  BY DEF TypeOK, Working
<1>2. ClientsListed' /\ Apart' /\ AuthorizedExact'
  BY DEF TypeOK, Working, ClientsListed, Apart, AuthorizedExact
<1>3. Only(k)
  BY DEF TypeOK, Only
<1>4. CompleteBy(k)
  BY DEF TypeOK, Working, ClientsListed, Apart, CompleteBy, Adds, Online
<1>5. Announced'
  BY DEF TypeOK, Working, Apart, Announced
<1>6. ToldBy(k)
  BY DEF TypeOK, Working, ClientsListed, Apart, Announced, ToldBy, Tells, Kept, Online
<1> QED BY <1>1, <1>2, <1>3, <1>4, <1>5, <1>6, CompleteStep, ToldStep

LEMMA LoginStep ==
  ASSUME IInv, NEW k \in Conns, NEW e \in Emails, Login(k, e)
  PROVE  IInv'
<1> USE PresenceAssumption DEF IInv, Login, Goto, registry, locals, Joins, Leaves, Left, Label
<1>1. TypeOK' /\ Working'
  BY DEF TypeOK, Working
<1>2. ClientsListed' /\ Apart' /\ AuthorizedExact'
  BY DEF TypeOK, Working, ClientsListed, Apart, AuthorizedExact
<1>3. Only(k)
  BY DEF TypeOK, Only
<1>4. CompleteBy(k)
  BY DEF TypeOK, Working, ClientsListed, Apart, CompleteBy, Adds, Online
<1>5. Announced'
  BY DEF TypeOK, Working, Apart, Announced
<1>6. ToldBy(k)
  BY DEF TypeOK, Working, ClientsListed, Apart, Announced, ToldBy, Tells, Kept, Online
<1> QED BY <1>1, <1>2, <1>3, <1>4, <1>5, <1>6, CompleteStep, ToldStep

LEMMA ContactReverseStep ==
  ASSUME IInv, NEW k \in Conns, NEW e \in Emails, ContactReverse(k, e)
  PROVE  IInv'
<1> USE PresenceAssumption DEF IInv, ContactReverse, Goto, Free, registry, locals, Joins, Leaves, Left, Label
<1>1. TypeOK' /\ Working'
  BY DEF TypeOK, Working
<1>2. ClientsListed' /\ Apart' /\ AuthorizedExact'
  BY DEF TypeOK, Working, ClientsListed, Apart, AuthorizedExact
<1>3. Only(k)
  BY DEF TypeOK, Only
<1>4. CompleteBy(k)
  BY DEF TypeOK, Working, ClientsListed, Apart, CompleteBy, Adds, Online
<1>5. Announced'
  BY DEF TypeOK, Working, Apart, Announced
<1>6. ToldBy(k)
  BY DEF TypeOK, Working, ClientsListed, Apart, Announced, ToldBy, Tells, Kept, Online
<1> QED BY <1>1, <1>2, <1>3, <1>4, <1>5, <1>6, CompleteStep, ToldStep

LEMMA EditContactStep ==
  ASSUME IInv, NEW k \in Conns, NEW q \in Pids, NEW old \in Pids \cup {None}, EditContact(k, old, q)
  PROVE  IInv'
<1> USE PresenceAssumption DEF IInv, EditContact, Goto, Free, Drop, registry, locals, Joins, Leaves, Left, Label
<1>1. TypeOK' /\ Working'
  BY DEF TypeOK, Working
<1>2. ClientsListed' /\ Apart' /\ AuthorizedExact'
  BY DEF TypeOK, Working, ClientsListed, Apart, AuthorizedExact
<1>3. Only(k)
  BY DEF TypeOK, Only
<1>4. CompleteBy(k)
  BY DEF TypeOK, Working, ClientsListed, Apart, CompleteBy, Adds, Online
<1>5. Announced'
  BY DEF TypeOK, Working, Apart, Announced
<1>6. ToldBy(k)
  BY DEF TypeOK, Working, ClientsListed, Apart, Announced, ToldBy, Tells, Kept, Online
<1> QED BY <1>1, <1>2, <1>3, <1>4, <1>5, <1>6, CompleteStep, ToldStep

LEMMA DelContactStep ==
  ASSUME IInv, NEW k \in Conns, NEW S \in SUBSET Pids, DelContact(k, S)
  PROVE  IInv'
<1> USE PresenceAssumption DEF IInv, DelContact, Free, Drop, registry, locals, Joins, Leaves, Left, Label
<1>1. TypeOK' /\ Working'
  BY DEF TypeOK, Working
<1>2. ClientsListed' /\ Apart' /\ AuthorizedExact'
  BY DEF TypeOK, Working, ClientsListed, Apart, AuthorizedExact
<1>3. Only(k)
  BY DEF TypeOK, Only
<1>4. CompleteBy(k)
  BY DEF TypeOK, Working, ClientsListed, Apart, CompleteBy, Adds, Online
<1>5. Announced'
  BY DEF TypeOK, Working, Apart, Announced
<1>6. ToldBy(k)
  BY DEF TypeOK, Working, ClientsListed, Apart, Announced, ToldBy, Tells, Kept, Online
<1> QED BY <1>1, <1>2, <1>3, <1>4, <1>5, <1>6, CompleteStep, ToldStep

LEMMA LogoutStep ==
  ASSUME IInv, NEW k \in Conns, Logout(k)
  PROVE  IInv'
<1> USE PresenceAssumption DEF IInv, Logout, Forget, Goto, DelAuthorizedClient, registry, locals, Joins, Leaves, Left, Label
<1>1. TypeOK' /\ Working'
  BY DEF TypeOK, Working
<1>2. ClientsListed' /\ Apart' /\ AuthorizedExact'
  BY DEF TypeOK, Working, ClientsListed, Apart, AuthorizedExact
<1>3. Only(k)
  BY DEF TypeOK, Only
<1>4. CompleteBy(k)
  BY DEF TypeOK, Working, ClientsListed, Apart, CompleteBy, Adds, Online
<1>5. Announced'
  BY DEF TypeOK, Working, Apart, Announced
<1>6. ToldBy(k)
  BY DEF TypeOK, Working, ClientsListed, Apart, Announced, ToldBy, Tells, Kept, Online
<1> QED BY <1>1, <1>2, <1>3, <1>4, <1>5, <1>6, CompleteStep, ToldStep

LEMMA DisconnectStep ==
  ASSUME IInv, NEW k \in Conns, Disconnect(k)
  PROVE  IInv'
<1> USE PresenceAssumption DEF IInv, Disconnect, Goto, Forget, DelAuthorizedClient, registry, locals, Joins, Leaves, Left, Label
<1>1. TypeOK' /\ Working'
  BY DEF TypeOK, Working
<1>2. ClientsListed' /\ Apart' /\ AuthorizedExact'
  BY DEF TypeOK, Working, ClientsListed, Apart, AuthorizedExact
<1>3. Only(k)
  BY DEF TypeOK, Only
<1>4. CompleteBy(k)
  BY DEF TypeOK, Working, ClientsListed, Apart, CompleteBy, Adds, Online
<1>5. Announced'
  BY DEF TypeOK, Working, Apart, Announced
<1>6. ToldBy(k)
  BY DEF TypeOK, Working, ClientsListed, Apart, Announced, ToldBy, Tells, Kept, Online
<1> QED BY <1>1, <1>2, <1>3, <1>4, <1>5, <1>6, CompleteStep, ToldStep

LEMMA StepIInv == IInv /\ [Next]_vars => IInv'
<1> SUFFICES ASSUME IInv, [Next]_vars PROVE IInv'
  OBVIOUS
<1>1. ASSUME NEW k \in Conns, Joining(k) PROVE IInv'
  BY <1>1, ScannedStep, AddStep, ListStep, PushStep, ScanStep DEF Joining
<1>2. ASSUME NEW k \in Conns, Handling(k) PROVE IInv'
  BY <1>2, LoggedInStep, ReloginStep, LoggedOutStep, PeersStep, FoundStep, ReversedStep, AskAllStep,
     AskOneStep, ReadStatusStep, AnswerStep DEF Handling
<1>3. ASSUME NEW k \in Conns, Leaving(k) PROVE IInv'
  <2>1. CASE Leave(k)
    <3>1. pc[k] = "leave" /\ UNCHANGED <<clients, authorized, contacts, holder, pid, profile,
                                         subject, receivers, answer, told>>
      BY <2>1 DEF Leave
    <3>2. ASSUME NEW e \in todo[k], todo' = [todo EXCEPT ![k] = @ \ {e}],
                 email' = [email EXCEPT ![k] = e], Goto(k, "leaveList"), UNCHANGED contained
          PROVE  IInv'
      BY <3>1, <3>2, LeaveNextStep DEF registry
    <3>3. ASSUME todo[k] = {}, contained' = [contained EXCEPT ![pid[k]] = {}], Goto(k, "gone"),
                 UNCHANGED <<todo, email>>
          PROVE  IInv'
      BY <3>1, <3>3, LeaveEndStep
    <3> QED BY <2>1, <3>2, <3>3 DEF Leave
  <2> QED BY <1>3, <2>1, RemoveClientStep, LastStep, LookupStep, LeaveListStep, LeavePushStep DEF Leaving
<1>4. ASSUME NEW k \in Conns, Request(k) PROVE IInv'
  BY <1>4, AuthStep, LoginStep, ContactReverseStep, EditContactStep, DelContactStep, LogoutStep,
     DisconnectStep, AskAllStep, AskOneStep DEF Request
<1>5. ASSUME UNCHANGED vars PROVE IInv'
  <2>1. TypeOK' /\ Working' /\ ClientsListed' /\ Apart' /\ AuthorizedExact' /\ Announced'
    BY <1>5 DEF IInv, TypeOK, Working, ClientsListed, Apart, AuthorizedExact, Announced, vars, registry, locals
  <2>2. Complete' /\ Told'
    BY <1>5 DEF IInv, Complete, Adds, Told, Tells, Kept, Online, vars, registry, locals
  <2> QED BY <2>1, <2>2 DEF IInv
<1> QED BY <1>1, <1>2, <1>3, <1>4, <1>5 DEF Next

(***************************************************************************)
(* The theorems.                                                           *)
(***************************************************************************)
THEOREM PresenceInvariant == Spec => []IInv
  BY InitIInv, StepIInv, PTL DEF Spec

\* The variables keep their types: a goroutine never looks up a PID or a profile it lacks.
THEOREM TypeCorrect == Spec => []TypeOK
<1>1. IInv => TypeOK
  BY DEF IInv
<1> QED BY <1>1, PresenceInvariant, PTL

\* A connection is in the list of the profile it is logged in to and of no other.
THEOREM AuthorizedIsExact == Spec => []AuthorizedExact
<1>1. IInv => AuthorizedExact
  BY DEF IInv
<1> QED BY <1>1, PresenceInvariant, PTL

\* Where a machine is not back before the server cleaned up after it, every profile that
\* lists a PID which is online is found when the PID has news.
THEOREM ContainedIsComplete == Spec => [](~Overlap => ContainedComplete)
<1>1. IInv => (~Overlap => ContainedComplete)
  <2> SUFFICES ASSUME IInv, ~Overlap, Settled PROVE
                 \A q \in Pids, e \in Emails : Online(q) /\ q \in contacts[e] => e \in contained[q]
    BY DEF ContainedComplete
  <2>1. \A k \in Conns, q \in Pids, e \in Emails : ~Adds(k, q, e)
    BY DEF Settled, Adds, Joins
  <2> QED BY <2>1 DEF IInv, Complete
<1> QED BY <1>1, PresenceInvariant, PTL

\* Likewise nobody who is logged in is left with a contact shown online that has gone.
THEOREM OfflineArrives == Spec => [](~Overlap => OfflineIsPushed)
<1>1. IInv => (~Overlap => OfflineIsPushed)
  <2> SUFFICES ASSUME IInv, ~Overlap, Settled PROVE OfflineIsPushed
    BY DEF OfflineIsPushed
  <2>1. \A k, w \in Conns, q \in Pids, e \in Emails : ~Tells(k, q, e, w)
    BY DEF Settled, Tells, Joins, Leaves
  <2>2. \A q \in Pids, e \in Emails, w \in Conns :
          w \in authorized[e] /\ told[e][q][w] = "1" => Online(q)
    BY <2>1 DEF IInv, Told, Kept
  <2>3. \A e \in Emails : authorized[e] \subseteq Conns
    BY DEF IInv, TypeOK
  <2> QED BY <2>2, <2>3 DEF OfflineIsPushed
<1> QED BY <1>1, PresenceInvariant, PTL
=============================================================================

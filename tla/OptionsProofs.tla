---------------------------- MODULE OptionsProofs ----------------------------
(***************************************************************************)
(* Proofs about Options, for any number of requests and any options.       *)
(***************************************************************************)
EXTENDS Options, TLAPS

\* A request that is alone is the only one that does anything, and what it is about to
\* give the name of the file is what is in memory.
AloneWorks ==
  \A a \in Admins : alone[a] =>
    /\ \A b \in Admins : b # a => pc[b] = "idle"
    /\ pc[a] = "rename" => config[a] = options

\* Options that agree are equal, and none agree while the server is down, from which it
\* may come back with another mode.
Agreed == (agreed => optionsFile = options) /\ (~up => ~agreed)

\* No request is served while the server is down.
DownIdle == ~up => \A a \in Admins : pc[a] = "idle"

IInv == TypeOK /\ AloneWorks /\ Agreed /\ DownIdle

LEMMA InitIInv == Init => IInv
  BY DEF Init, IInv, TypeOK, AloneWorks, Agreed, DownIdle

\* The options that a form makes of a copy are of the right type once they are valid.
LEMMA OverlayValid ==
  ASSUME NEW c \in Config, NEW form \in [text : Texts, mode : Modes \cup {Absent, Bad}],
         Valid(Overlay(c, form))
  PROVE  Overlay(c, form) \in Config
  BY DEF Overlay, Valid, Config

LEMMA StepIInv == IInv /\ [Next]_vars => IInv'
<1> SUFFICES ASSUME IInv, [Next]_vars PROVE IInv'
  OBVIOUS
<1> USE DEF IInv
<1>1. ASSUME NEW a \in Admins, GetOptions(a) PROVE IInv'
  BY <1>1 DEF TypeOK, AloneWorks, Agreed, DownIdle, GetOptions, Begin
<1>2. ASSUME NEW a \in Admins, SaveOptions(a) PROVE IInv'
  BY <1>2 DEF TypeOK, AloneWorks, Agreed, DownIdle, SaveOptions
<1>3. ASSUME NEW a \in Admins, Rename(a) PROVE IInv'
  <2>1. TypeOK'
    BY <1>3 DEF TypeOK, Rename, End
  <2>2. AloneWorks'
    BY <1>3 DEF TypeOK, AloneWorks, Rename, End
  <2>3. Agreed'
    BY <1>3 DEF TypeOK, AloneWorks, Agreed, DownIdle, Rename, End
  <2>4. DownIdle'
    BY <1>3 DEF TypeOK, DownIdle, Rename, End
  <2> QED BY <2>1, <2>2, <2>3, <2>4
<1>4. ASSUME NEW a \in Admins, Resave(a) PROVE IInv'
  BY <1>4 DEF TypeOK, AloneWorks, Agreed, DownIdle, Resave, Begin
<1>5. ASSUME NEW a \in Admins, NEW form \in [text : Texts, mode : Modes \cup {Absent, Bad}],
             SetOptions(a, form)
      PROVE  IInv'
  <2>1. CASE Valid(Overlay(config[a], form))
    <3>1. Overlay(config[a], form) \in Config
      BY <2>1, OverlayValid DEF TypeOK
    <3>2. /\ options' = Overlay(config[a], form) /\ agreed' = FALSE
          /\ pc[a] = "set" /\ pc' = [pc EXCEPT ![a] = "save"]
          /\ UNCHANGED <<alone, config, optionsFile, up>>
      BY <1>5, <2>1 DEF SetOptions
    <3> QED BY <3>1, <3>2 DEF TypeOK, AloneWorks, Agreed, DownIdle
  <2>2. CASE ~Valid(Overlay(config[a], form))
    <3>1. /\ End(a) /\ UNCHANGED <<options, agreed, config, optionsFile, up>>
          /\ pc[a] = "set"
      BY <1>5, <2>2 DEF SetOptions
    <3> QED BY <3>1 DEF TypeOK, AloneWorks, Agreed, DownIdle, End
  <2> QED BY <2>1, <2>2
<1>6. ASSUME Exit PROVE IInv'
  BY <1>6 DEF TypeOK, AloneWorks, Agreed, DownIdle, Exit
<1>7. ASSUME LoadOptions PROVE IInv'
  <2>1. PICK flag \in Modes \cup {Absent} :
          options' = [optionsFile EXCEPT !.mode = IF flag = Absent THEN @ ELSE flag]
    BY <1>7 DEF LoadOptions
  <2>2. options' \in Config
    BY <2>1 DEF TypeOK, Config
  <2> QED BY <1>7, <2>2 DEF TypeOK, AloneWorks, Agreed, DownIdle, LoadOptions
<1>8. ASSUME UNCHANGED vars PROVE IInv'
  BY <1>8 DEF TypeOK, AloneWorks, Agreed, DownIdle, vars
<1> QED BY <1>1, <1>2, <1>3, <1>4, <1>5, <1>6, <1>7, <1>8 DEF Next

\* The invariant holds in every state, whatever requests, saves and restarts overlap.
THEOREM OptionsInvariant == Spec => []IInv
  BY InitIInv, StepIInv, PTL DEF Spec

\* What SetOptions refuses never reaches the memory or the file: the program always
\* starts from what it saved.
THEOREM OptionsStartAgain == Spec => []TypeOK
<1>1. IInv => TypeOK
  BY DEF IInv
<1> QED BY <1>1, OptionsInvariant, PTL

\* A save that nothing overlapped leaves the file equal to the memory.
THEOREM SavedOptionsAgree == Spec => []OptionsKept
<1>1. IInv => OptionsKept
  BY DEF IInv, Agreed, OptionsKept
<1> QED BY <1>1, OptionsInvariant, PTL
=============================================================================

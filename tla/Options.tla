------------------------------ MODULE Options ------------------------------
(***************************************************************************)
(* The options (options.go): a value that every reader copies, the two     *)
(* requests of an administrator that change and save it                    *)
(* (processApiOptionsSave, processApiSaveOptions), and the file it is      *)
(* loaded from.  The value is cut down to a text, which a form always has, *)
(* and the mode, which a form may lack and which SetOptions checks.        *)
(***************************************************************************)
EXTENDS Naturals

CONSTANTS Admins, \* requests of administrators that may run at once
          Texts, Modes,
          Absent, \* a form without a number for the mode
          Bad     \* a number that is no mode

ASSUME OptionsAssumption == {Absent, Bad} \cap Modes = {} /\ Absent # Bad

Config == [text : Texts, mode : Modes]

VARIABLES options,     \* the value in memory
          pc,          \* where a request is
          config,      \* its copy of the options
          optionsFile, \* what options.json holds
          alone,       \* history: has no other request run since this one began?
          agreed,      \* history: was the last change saved by a request that was alone?
          up           \* is the server running?

vars == <<options, pc, config, optionsFile, alone, agreed, up>>

Valid(c) == c.mode \in Modes

\* What SetOptions refuses is never in memory or in the file, from which the program
\* would not start again.
TypeOK ==
  /\ options \in Config /\ optionsFile \in Config
  /\ pc \in [Admins -> {"idle", "set", "save", "rename"}]
  /\ config \in [Admins -> Config]
  /\ alone \in [Admins -> BOOLEAN] /\ agreed \in BOOLEAN /\ up \in BOOLEAN

Init ==
  /\ options \in Config /\ optionsFile = options
  /\ pc = [a \in Admins |-> "idle"]
  /\ config = [a \in Admins |-> options]
  /\ alone = [a \in Admins |-> FALSE]
  /\ agreed = TRUE /\ up = TRUE

\* A request begins at label.
Begin(a, label) ==
  /\ up /\ pc[a] = "idle"
  /\ pc' = [pc EXCEPT ![a] = label]
  /\ alone' = [b \in Admins |-> b = a /\ \A c \in Admins : pc[c] = "idle"]

End(a) ==
  /\ pc' = [pc EXCEPT ![a] = "idle"]
  /\ alone' = [alone EXCEPT ![a] = FALSE]

\* processApiOptionsSave: GetOptions, ...
GetOptions(a) ==
  /\ Begin(a, "set")
  /\ config' = [config EXCEPT ![a] = options]
  /\ UNCHANGED <<options, optionsFile, agreed, up>>

\* The values of the form over the copy.
Overlay(c, form) == [text |-> form.text, mode |-> IF form.mode = Absent THEN c.mode ELSE form.mode]

\* Mutant of SetOptions: the mode is not checked.
SetAny(a, form) ==
  /\ pc[a] = "set"
  /\ options' = Overlay(config[a], form)
  /\ agreed' = FALSE
  /\ pc' = [pc EXCEPT ![a] = "save"]
  /\ UNCHANGED <<config, optionsFile, alone, up>>

\* ... then SetOptions, which replaces all options or refuses all; ...
SetOptions(a, form) ==
  LET new == Overlay(config[a], form) IN
  /\ pc[a] = "set"
  /\ IF Valid(new)
     THEN /\ options' = new
          /\ agreed' = FALSE
          /\ pc' = [pc EXCEPT ![a] = "save"]
          /\ UNCHANGED alone
     ELSE End(a) /\ UNCHANGED <<options, agreed>>
  /\ UNCHANGED <<config, optionsFile, up>>

\* Mutant of SaveOptions: the copy of the request is saved.
SaveCopy(a) ==
  /\ pc[a] = "save"
  /\ pc' = [pc EXCEPT ![a] = "rename"]
  /\ UNCHANGED <<options, config, optionsFile, alone, agreed, up>>

\* ... SaveOptions: a copy again, ...
SaveOptions(a) ==
  /\ pc[a] = "save"
  /\ config' = [config EXCEPT ![a] = options]
  /\ pc' = [pc EXCEPT ![a] = "rename"]
  /\ UNCHANGED <<options, optionsFile, alone, agreed, up>>

\* ... that SaveFile gives the name of the file, or fails to.
Rename(a) ==
  /\ pc[a] = "rename"
  /\ \/ optionsFile' = config[a] /\ agreed' = alone[a]
     \/ UNCHANGED <<optionsFile, agreed>>
  /\ End(a)
  /\ UNCHANGED <<options, config, up>>

\* processApiSaveOptions: only saves.
Resave(a) == Begin(a, "save") /\ UNCHANGED <<options, config, optionsFile, agreed, up>>

\* The process ends or crashes.
Exit ==
  /\ up /\ up' = FALSE
  /\ pc' = [a \in Admins |-> "idle"]
  /\ config' = [a \in Admins |-> optionsFile]
  /\ alone' = [a \in Admins |-> FALSE]
  /\ agreed' = FALSE
  /\ UNCHANGED <<options, optionsFile>>

\* main: LoadOptions, and the mode that the command line asks for, which is not saved.
\* Options that SetOptions refuses end the program before it starts.
LoadOptions ==
  /\ ~up /\ Valid(optionsFile)
  /\ up' = TRUE
  /\ \E flag \in Modes \cup {Absent} :
       options' = [optionsFile EXCEPT !.mode = IF flag = Absent THEN @ ELSE flag]
  /\ UNCHANGED <<pc, config, optionsFile, alone, agreed>>

Next ==
  \/ \E a \in Admins :
       \/ GetOptions(a) \/ SaveOptions(a) \/ Rename(a) \/ Resave(a)
       \/ \E form \in [text : Texts, mode : Modes \cup {Absent, Bad}] : SetOptions(a, form)
  \/ Exit \/ LoadOptions

Spec == Init /\ [][Next]_vars

(***************************************************************************)
(* Properties.                                                             *)
(***************************************************************************)

\* When the last change was saved by a request that no other overlapped, the file holds
\* what the server works with, however requests overlapped, failed to save or were cut
\* off by a restart before.
OptionsKept == up /\ agreed => optionsFile = options
=============================================================================

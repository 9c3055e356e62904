------------------------------ MODULE Session ------------------------------
(***************************************************************************)
(* What a data server promises about sessions, without its goroutines: a   *)
(* session admits at most two connections, forwards only between the two   *)
(* that it admitted together, is over for good once it ends, and then lets *)
(* go of both.                                                             *)
(***************************************************************************)
CONSTANTS Codes,  \* one session each
          Conns   \* data connections

VARIABLES phase,       \* of a session: absent, open, ending (no longer found), over
          members,     \* the connections a session admitted
          forwarding,  \* connections whose bytes the server copies to the partner
          ended        \* members that the server closed

vars == <<phase, members, forwarding, ended>>

Init ==
  /\ phase = [c \in Codes |-> "absent"]
  /\ members = [c \in Codes |-> {}]
  /\ forwarding = {}
  /\ ended = {}

Open(c) ==
  /\ phase[c] = "absent"
  /\ phase' = [phase EXCEPT ![c] = "open"]
  /\ UNCHANGED <<members, forwarding, ended>>

\* A connection that found the code in time is let in until the session is over.
Admit(c, d) ==
  /\ phase[c] \in {"open", "ending"}
  /\ \E e \in Conns : members[c] \subseteq {e}
  /\ \A b \in Codes : d \notin members[b]
  /\ members' = [members EXCEPT ![c] = @ \cup {d}]
  /\ UNCHANGED <<phase, forwarding, ended>>

Forward(c, d) ==
  /\ phase[c] \in {"open", "ending"}
  /\ d \in members[c] /\ members[c] # {d}
  /\ forwarding' = forwarding \cup {d}
  /\ UNCHANGED <<phase, members, ended>>

Stop(d) ==
  /\ d \in forwarding
  /\ forwarding' = forwarding \ {d}
  /\ UNCHANGED <<phase, members, ended>>

End(c) ==
  /\ phase[c] = "open"
  /\ phase' = [phase EXCEPT ![c] = "ending"]
  /\ UNCHANGED <<members, forwarding, ended>>

Finish(c) ==
  /\ phase[c] = "ending" \/ (phase[c] = "open" /\ members[c] = {})
  /\ phase' = [phase EXCEPT ![c] = "over"]
  /\ UNCHANGED <<members, forwarding, ended>>

\* Only a session that ends loses connections to the server itself.
HangUp(c, S) ==
  /\ phase[c] \in {"ending", "over"}
  /\ S \subseteq members[c]
  /\ ended' = ended \cup S
  /\ UNCHANGED <<phase, members, forwarding>>

Next ==
  \/ \E c \in Codes : Open(c) \/ End(c) \/ Finish(c)
  \/ \E c \in Codes, d \in Conns : Admit(c, d) \/ Forward(c, d)
  \/ \E d \in Conns : Stop(d)
  \/ \E c \in Codes : \E S \in SUBSET members[c] : HangUp(c, S)

\* An ending is completed: the session is over, its connections are closed, and
\* nothing is forwarded from them.
Fairness ==
  /\ \A c \in Codes : WF_vars(phase[c] = "ending" /\ Finish(c))
  /\ \A c \in Codes : WF_vars(phase[c] = "over" /\ HangUp(c, members[c]))
  /\ \A d \in Conns : WF_vars(d \in ended /\ Stop(d))

Spec == Init /\ [][Next]_vars /\ Fairness
=============================================================================

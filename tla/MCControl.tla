----------------------------- MODULE MCControl -----------------------------
(***************************************************************************)
(* Control for TLC: a message without a string, and one whose string holds *)
(* a brace and a quote behind a backslash.                                 *)
(***************************************************************************)
EXTENDS Control

CONSTANTS PingLoop, Handler1, Handler2

Short == <<"{", "}">>
Quoting == <<"{", "quote", "}", "backslash", "quote", "quote", "}">>
MCBatches == {<<Short>>, <<Quoting>>, <<Short, Quoting>>}
MCPing == <<Short>>
MCWriters == {PingLoop, Handler1, Handler2}

\* readMessage against its definition: of bytes that begin with an object, the first
\* prefix that closes it, where a quote counts if an even number of backslashes is
\* before it, and a brace if an even number of such quotes is.
MaxBytes == 6

Unescaped(s, i) ==
  LET run == {n \in 0..(i - 1) : \A k \in 1..n : s[i - k] = "backslash"}
  IN (CHOOSE n \in run : \A k \in run : k <= n) % 2 = 0
Quotes(s, i) == {k \in 1..i : s[k] = "quote" /\ Unescaped(s, k)}
Counted(s, i, b) == {k \in 1..i : s[k] = b /\ Cardinality(Quotes(s, k)) % 2 = 0}
Closes(s, i) == Cardinality(Counted(s, i, "{")) = Cardinality(Counted(s, i, "}"))
FirstObject(s) == {i \in 1..Len(s) : Closes(s, i) /\ \A k \in 1..(i - 1) : ~Closes(s, k)}

\* Strings open and close inside the object, and no backslash is outside of them.
Objects == {s \in BoundedSeq(Bytes, MaxBytes) :
              /\ s # <<>> /\ s[1] = "{"
              /\ \A i \in 1..Len(s) : s[i] = "backslash" => Cardinality(Quotes(s, i)) % 2 = 1}

ASSUME FramingAssumption ==
  \A s \in Objects :
    LET p == Parse(s) IN
    FirstObject(s) = {i \in 1..Len(s) : p[i].depth = 0 /\ \A k \in 1..(i - 1) : p[k].depth # 0}
=============================================================================

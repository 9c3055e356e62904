--------------------------- MODULE ControlProofs ---------------------------
(***************************************************************************)
(* Proofs about Control.                                                   *)
(***************************************************************************)
EXTENDS Control, Integers, SequenceTheorems, FiniteSetTheorems, WellFoundedInduction, TLAPS

(***************************************************************************)
(* Induction, for a set in the place of a predicate.                       *)
(***************************************************************************)
LEMMA Induction ==
  ASSUME NEW T, 0 \in T, \A n \in Nat : n \in T => n + 1 \in T
  PROVE  Nat \subseteq T
<1> DEFINE R == {p \in Nat \X Nat : p[1] < p[2]}
           U == Nat \ T
<1>1. \A i, j \in Nat : i < j => <<i, j>> \in R
  OBVIOUS
<1>2. IsWellFoundedOn(R, Nat)
  BY NatLessThanWellFounded DEF OpToRel
<1> HIDE DEF R
<1> SUFFICES ASSUME U # {} PROVE FALSE
  OBVIOUS
<1>3. PICK n \in U : \A m \in U : ~ (<<m, n>> \in R)
  BY <1>2, WFMin
<1>4. n \in Nat \ {0} /\ n - 1 \in Nat /\ n - 1 < n
  OBVIOUS
<1>5. n - 1 \in T
  BY <1>1, <1>3, <1>4
<1> QED BY <1>4, <1>5

LEMMA Associates ==
  ASSUME NEW S, NEW x \in Seq(S), NEW y \in Seq(S), NEW z \in Seq(S)
  PROVE  (x \o y) \o z = x \o (y \o z)
OBVIOUS

(***************************************************************************)
(* FlattenSeq.                                                             *)
(***************************************************************************)

\* The recursive function that FlattenSeq takes the last value of, up to position m.
Flattens(f, s, m) == \A i \in 1..m : f[i] = IF i = 1 THEN s[i] ELSE f[i - 1] \o s[i]
Flattening(f, s) == f = [i \in 1..Len(s) |-> IF i = 1 THEN s[i] ELSE f[i - 1] \o s[i]]

LEMMA FlattenIs ==
  ASSUME NEW s, Len(s) # 0
  PROVE  FlattenSeq(s) = (CHOOSE f : Flattening(f, s))[Len(s)]
BY DEF FlattenSeq, Flattening

LEMMA FlatteningExists ==
  ASSUME NEW S, NEW s \in Seq(S)
  PROVE  \E f : Flattening(f, s)
<1> DEFINE n == Len(s)
           Has(m) == \E f : f = [i \in 1..m |-> f[i]] /\ Flattens(f, s, m)
           T == {m \in Nat : m <= n => Has(m)}
<1>1. n \in Nat
  OBVIOUS
<1> HIDE DEF n
<1>2. Has(0)
  <2> DEFINE f == [i \in 1..0 |-> i]
  <2>1. f = [i \in 1..0 |-> f[i]] /\ Flattens(f, s, 0)
    BY DEF Flattens
  <2> QED BY <2>1
<1>3. ASSUME NEW m \in Nat, m + 1 <= n, Has(m) PROVE Has(m + 1)
  <2>1. PICK f : Flattens(f, s, m)
    BY <1>3
  <2> DEFINE g == [i \in 1..(m + 1) |-> IF i = m + 1
                                        THEN IF i = 1 THEN s[i] ELSE f[m] \o s[i]
                                        ELSE f[i]]
  <2>2. g = [i \in 1..(m + 1) |-> g[i]]
    OBVIOUS
  <2>3. \A i \in 1..m : g[i] = f[i]
    OBVIOUS
  <2>4. g[m + 1] = IF m + 1 = 1 THEN s[m + 1] ELSE f[m] \o s[m + 1]
    OBVIOUS
  <2> HIDE DEF g
  <2>5. ASSUME NEW i \in 1..(m + 1) PROVE g[i] = IF i = 1 THEN s[i] ELSE g[i - 1] \o s[i]
    <3>1. CASE i = m + 1
      <4>1. i # 1 => m \in 1..m
        BY <3>1
      <4> QED BY <2>3, <2>4, <3>1, <4>1
    <3>2. CASE i # m + 1
      <4>1. i \in 1..m /\ (i # 1 => i - 1 \in 1..m)
        BY <3>2
      <4> QED BY <2>1, <2>3, <4>1 DEF Flattens
    <3> QED BY <3>1, <3>2
  <2> QED BY <2>2, <2>5 DEF Flattens
<1> HIDE DEF Has
<1>4. Has(n)
  <2>1. 0 \in T /\ \A m \in Nat : m \in T => m + 1 \in T
    BY <1>1, <1>2, <1>3
  <2> HIDE DEF T
  <2>2. n \in T
    BY <1>1, <2>1, Induction
  <2> QED BY <2>2 DEF T
<1>5. PICK f : f = [i \in 1..n |-> f[i]] /\ Flattens(f, s, n)
  BY <1>4 DEF Has
<1>6. [i \in 1..n |-> f[i]] = [i \in 1..n |-> IF i = 1 THEN s[i] ELSE f[i - 1] \o s[i]]
  BY <1>5 DEF Flattens
<1> QED BY <1>5, <1>6 DEF Flattening, n

LEMMA FlattenValue ==
  ASSUME NEW S, NEW s \in Seq(S), Len(s) # 0
  PROVE  \E f : Flattens(f, s, Len(s)) /\ FlattenSeq(s) = f[Len(s)]
<1>1. PICK f : Flattening(f, s) /\ FlattenSeq(s) = f[Len(s)]
  BY FlattenIs, FlatteningExists
<1> QED BY <1>1 DEF Flattening, Flattens

LEMMA FlattenEmpty == FlattenSeq(<<>>) = <<>>
  BY DEF FlattenSeq

LEMMA FlattenAppend ==
  ASSUME NEW S, NEW s \in Seq(Seq(S)), NEW e \in Seq(S)
  PROVE  FlattenSeq(s) \in Seq(S) /\ FlattenSeq(Append(s, e)) = FlattenSeq(s) \o e
<1> DEFINE t == Append(s, e)
           n == Len(s)
           m == Len(t)
<1>1. /\ t \in Seq(Seq(S)) /\ n \in Nat /\ m = n + 1 /\ m # 0 /\ t[m] = e
      /\ \A i \in 1..n : t[i] = s[i] /\ s[i] \in Seq(S)
  BY AppendProperties, ElementOfSeq
<1>2. CASE n = 0
  <2>1. s = <<>>
    BY <1>2
  <2>2. PICK f : Flattens(f, t, m) /\ FlattenSeq(t) = f[m]
    BY <1>1, FlattenValue
  <2>3. FlattenSeq(t) = e
    BY <1>1, <1>2, <2>2 DEF Flattens
  <2>4. <<>> \in Seq(S) /\ <<>> \o e = e
    OBVIOUS
  <2> QED BY <2>1, <2>3, <2>4, FlattenEmpty
<1>3. CASE n # 0
  <2>1. PICK f : Flattens(f, s, n) /\ FlattenSeq(s) = f[n]
    BY <1>3, FlattenValue
  <2>2. PICK g : Flattens(g, t, m) /\ FlattenSeq(t) = g[m]
    BY <1>1, FlattenValue
  <2> HIDE DEF n, m, t
  <2> DEFINE T == {k \in Nat : k + 1 <= n => f[k + 1] \in Seq(S) /\ f[k + 1] = g[k + 1]}
  <2>3. 0 \in T
    <3>1. 1 \in 1..n /\ 1 \in 1..m
      BY <1>1, <1>3
    <3>2. f[1] = s[1] /\ g[1] = t[1]
      BY <2>1, <2>2, <3>1 DEF Flattens
    <3> QED BY <1>1, <3>1, <3>2
  <2>4. ASSUME NEW k \in Nat, k \in T PROVE k + 1 \in T
    <3> SUFFICES ASSUME k + 2 <= n PROVE f[k + 2] \in Seq(S) /\ f[k + 2] = g[k + 2]
      OBVIOUS
    <3>1. k + 2 \in 1..n /\ k + 2 \in 1..m /\ k + 2 # 1 /\ (k + 2) - 1 = k + 1 /\ k + 1 <= n
      BY <1>1
    <3>2. f[k + 2] = f[k + 1] \o s[k + 2] /\ g[k + 2] = g[k + 1] \o t[k + 2]
      BY <2>1, <2>2, <3>1 DEF Flattens
    <3>3. f[k + 1] \in Seq(S) /\ f[k + 1] = g[k + 1]
      BY <2>4, <3>1
    <3>4. s[k + 2] \in Seq(S) /\ t[k + 2] = s[k + 2]
      BY <1>1, <3>1
    <3> QED BY <3>2, <3>3, <3>4
  <2> HIDE DEF T
  <2>5. n - 1 \in T
    <3>1. Nat \subseteq T
      BY <2>3, <2>4, Induction
    <3> QED BY <1>1, <1>3, <3>1
  <2>6. f[n] \in Seq(S) /\ f[n] = g[n]
    BY <1>1, <1>3, <2>5 DEF T
  <2>7. g[m] = g[n] \o t[m]
    <3>1. m \in 1..m /\ m # 1 /\ m - 1 = n
      BY <1>1, <1>3
    <3> QED BY <2>2, <3>1 DEF Flattens
  <2> QED BY <1>1, <2>1, <2>2, <2>6, <2>7 DEF t
<1> QED BY <1>2, <1>3

LEMMA FlattenConcat ==
  ASSUME NEW S, NEW s \in Seq(Seq(S)), NEW t \in Seq(Seq(S))
  PROVE  /\ FlattenSeq(s) \in Seq(S) /\ FlattenSeq(t) \in Seq(S)
         /\ FlattenSeq(s \o t) = FlattenSeq(s) \o FlattenSeq(t)
<1>1. FlattenSeq(s) \in Seq(S)
  <2>1. <<>> \in Seq(S)
    OBVIOUS
  <2> QED BY <2>1, FlattenAppend
<1>5. ASSUME NEW x \in Seq(S), NEW y \in Seq(S)
      PROVE  (FlattenSeq(s) \o x) \o y = FlattenSeq(s) \o (x \o y)
  BY <1>1, Associates
<1> DEFINE T == {n \in Nat : \A u \in Seq(Seq(S)) : Len(u) = n =>
                   /\ FlattenSeq(u) \in Seq(S)
                   /\ FlattenSeq(s \o u) = FlattenSeq(s) \o FlattenSeq(u)}
<1>2. 0 \in T
  <2> SUFFICES ASSUME NEW u \in Seq(Seq(S)), Len(u) = 0
               PROVE  FlattenSeq(u) \in Seq(S) /\ FlattenSeq(s \o u) = FlattenSeq(s) \o FlattenSeq(u)
    OBVIOUS
  <2>1. u = <<>> /\ s \o <<>> = s /\ <<>> \in Seq(S)
    OBVIOUS
  <2>2. FlattenSeq(s) \o <<>> = FlattenSeq(s)
    BY <1>1
  <2> QED BY <2>1, <2>2, FlattenEmpty
<1>3. ASSUME NEW n \in Nat, n \in T PROVE n + 1 \in T
  <2> SUFFICES ASSUME NEW u \in Seq(Seq(S)), Len(u) = n + 1
               PROVE  FlattenSeq(u) \in Seq(S) /\ FlattenSeq(s \o u) = FlattenSeq(s) \o FlattenSeq(u)
    OBVIOUS
  <2>1. u # <<>>
    OBVIOUS
  <2>2. PICK v \in Seq(Seq(S)), e \in Seq(S) : u = Append(v, e)
    BY <2>1, SequenceEmptyOrAppend
  <2>3. Len(v) = n
    BY <2>2
  <2>4. FlattenSeq(v) \in Seq(S) /\ FlattenSeq(s \o v) = FlattenSeq(s) \o FlattenSeq(v)
    BY <1>3, <2>3
  <2>5. FlattenSeq(u) = FlattenSeq(v) \o e
    BY <2>2, FlattenAppend
  <2>6. s \o u = Append(s \o v, e) /\ s \o v \in Seq(Seq(S))
    BY <2>2
  <2>7. FlattenSeq(s \o u) = FlattenSeq(s \o v) \o e
    BY <2>6, FlattenAppend
  <2>8. (FlattenSeq(s) \o FlattenSeq(v)) \o e = FlattenSeq(s) \o (FlattenSeq(v) \o e)
    BY <1>5, <2>4
  <2>9. FlattenSeq(v) \o e \in Seq(S)
    BY <2>4
  <2> QED BY <2>4, <2>5, <2>7, <2>8, <2>9
<1> HIDE DEF T
<1>4. Len(t) \in T
  <2>1. Nat \subseteq T
    BY <1>2, <1>3, Induction
  <2> QED BY <2>1
<1> QED BY <1>1, <1>4 DEF T

(***************************************************************************)
(* Parse.                                                                  *)
(***************************************************************************)
Parses(f, s, m) == \A i \in 0..m : f[i] = IF i = 0 THEN Start ELSE NextByte(f[i - 1], s[i])
Parsing(f, s) == f = [i \in 0..Len(s) |-> IF i = 0 THEN Start ELSE NextByte(f[i - 1], s[i])]

LEMMA ParseIs ==
  ASSUME NEW s
  PROVE  Parse(s) = (CHOOSE f : Parsing(f, s))
BY DEF Parse, Parsing

LEMMA ParsingExists ==
  ASSUME NEW S, NEW s \in Seq(S)
  PROVE  \E f : Parsing(f, s)
<1> DEFINE n == Len(s)
           Has(m) == \E f : f = [i \in 0..m |-> f[i]] /\ Parses(f, s, m)
           T == {m \in Nat : m <= n => Has(m)}
<1>1. n \in Nat
  OBVIOUS
<1> HIDE DEF n
<1>2. Has(0)
  <2> DEFINE f == [i \in 0..0 |-> Start]
  <2>1. f = [i \in 0..0 |-> f[i]] /\ Parses(f, s, 0)
    BY DEF Parses
  <2> QED BY <2>1
<1>3. ASSUME NEW m \in Nat, m + 1 <= n, Has(m) PROVE Has(m + 1)
  <2>1. PICK f : Parses(f, s, m)
    BY <1>3
  <2> DEFINE g == [i \in 0..(m + 1) |-> IF i = m + 1 THEN NextByte(f[m], s[m + 1]) ELSE f[i]]
  <2>2. g = [i \in 0..(m + 1) |-> g[i]]
    OBVIOUS
  <2>3. \A i \in 0..m : g[i] = f[i]
    OBVIOUS
  <2>4. g[m + 1] = NextByte(f[m], s[m + 1])
    OBVIOUS
  <2> HIDE DEF g
  <2>5. ASSUME NEW i \in 0..(m + 1) PROVE g[i] = IF i = 0 THEN Start ELSE NextByte(g[i - 1], s[i])
    <3>1. CASE i = m + 1
      <4>1. i # 0 /\ i - 1 = m /\ m \in 0..m
        BY <3>1
      <4> QED BY <2>3, <2>4, <3>1, <4>1
    <3>2. CASE i # m + 1
      <4>1. i \in 0..m /\ (i # 0 => i - 1 \in 0..m)
        BY <3>2
      <4> QED BY <2>1, <2>3, <4>1 DEF Parses
    <3> QED BY <3>1, <3>2
  <2> QED BY <2>2, <2>5 DEF Parses
<1> HIDE DEF Has
<1>4. Has(n)
  <2>1. 0 \in T /\ \A m \in Nat : m \in T => m + 1 \in T
    BY <1>1, <1>2, <1>3
  <2> HIDE DEF T
  <2>2. n \in T
    BY <1>1, <2>1, Induction
  <2> QED BY <2>2 DEF T
<1>5. PICK f : f = [i \in 0..n |-> f[i]] /\ Parses(f, s, n)
  BY <1>4 DEF Has
<1>6. [i \in 0..n |-> f[i]] = [i \in 0..n |-> IF i = 0 THEN Start ELSE NextByte(f[i - 1], s[i])]
  BY <1>5 DEF Parses
<1> QED BY <1>5, <1>6 DEF Parsing, n

LEMMA ParseValue ==
  ASSUME NEW S, NEW s \in Seq(S)
  PROVE  Parses(Parse(s), s, Len(s))
<1>1. Parsing(Parse(s), s)
  BY ParseIs, ParsingExists
<1> QED BY <1>1 DEF Parsing, Parses

\* s and t have the same bytes up to position k.
Agree(s, t, k) == \A i \in 1..k : s[i] = t[i]

LEMMA ParseAgree ==
  ASSUME NEW S, NEW s \in Seq(S), NEW t \in Seq(S), NEW k \in Nat,
         k <= Len(s), k <= Len(t), Agree(s, t, k)
  PROVE  Agree(Parse(s), Parse(t), k) /\ Parse(s)[k] = Parse(t)[k]
<1> DEFINE f == Parse(s)
           g == Parse(t)
           T == {i \in Nat : i <= k => f[i] = g[i]}
<1>1. Parses(f, s, Len(s)) /\ Parses(g, t, Len(t)) /\ Len(s) \in Nat /\ Len(t) \in Nat
  BY ParseValue
<1>2. f[0] = g[0]
  BY <1>1 DEF Parses
<1>3. ASSUME NEW i \in Nat, i + 1 <= k, f[i] = g[i] PROVE f[i + 1] = g[i + 1]
  <2>1. i + 1 \in 0..Len(s) /\ i + 1 \in 0..Len(t) /\ i + 1 # 0 /\ (i + 1) - 1 = i /\ i + 1 \in 1..k
    BY <1>1, <1>3
  <2>2. f[i + 1] = NextByte(f[i], s[i + 1]) /\ g[i + 1] = NextByte(g[i], t[i + 1])
    BY <1>1, <2>1 DEF Parses
  <2>3. s[i + 1] = t[i + 1]
    BY <2>1 DEF Agree
  <2> QED BY <1>3, <2>2, <2>3
<1> HIDE DEF f, g
<1>4. Nat \subseteq T
  <2>1. 0 \in T /\ \A i \in Nat : i \in T => i + 1 \in T
    BY <1>2, <1>3
  <2> HIDE DEF T
  <2> QED BY <2>1, Induction
<1>5. \A i \in 0..k : f[i] = g[i]
  BY <1>4
<1> QED BY <1>5 DEF Agree, f, g

(***************************************************************************)
(* Sequences in two parts.                                                 *)
(***************************************************************************)

\* \o as a name: what follows needs little of it, and the provers know too much.
Cat(a, b) == a \o b

LEMMA CatIs ==
  ASSUME NEW S, NEW a \in Seq(S), NEW b \in Seq(S)
  PROVE  /\ Cat(a, b) \in Seq(S) /\ Len(Cat(a, b)) = Len(a) + Len(b)
         /\ Len(a) \in Nat /\ Len(b) \in Nat
         /\ \A i \in 1..(Len(a) + Len(b)) : Cat(a, b)[i] = IF i <= Len(a) THEN a[i] ELSE b[i - Len(a)]
BY ConcatProperties, LenProperties DEF Cat

LEMMA CatType ==
  ASSUME NEW S, NEW a \in Seq(S), NEW b \in Seq(S)
  PROVE  Cat(a, b) \in Seq(S)
BY DEF Cat

LEMMA One ==
  ASSUME NEW S, NEW e \in S
  PROVE  <<e>> \in Seq(S) /\ Len(<<e>>) = 1 /\ <<e>>[1] = e
OBVIOUS

LEMMA CatAssoc ==
  ASSUME NEW S, NEW a \in Seq(S), NEW b \in Seq(S), NEW c \in Seq(S)
  PROVE  Cat(Cat(a, b), c) = Cat(a, Cat(b, c)) /\ Cat(a, b) \in Seq(S)
BY DEF Cat

LEMMA LongerByOne ==
  ASSUME NEW S, NEW a \in Seq(S), NEW b \in Seq(S), NEW c \in Seq(S), NEW d \in Seq(S), Cat(a, b) = Cat(c, d)
  PROVE  Len(a) + (Len(b) + 1) = Len(c) + Len(d) + 1
<1>1. /\ Len(Cat(a, b)) = Len(a) + Len(b) /\ Len(Cat(c, d)) = Len(c) + Len(d)
      /\ Len(a) \in Nat /\ Len(b) \in Nat /\ Len(c) \in Nat /\ Len(d) \in Nat
  BY CatIs
<1>2. Len(a) + Len(b) = Len(c) + Len(d)
  BY ONLY <1>1, Cat(a, b) = Cat(c, d)
<1>3. PICK i \in Nat, j \in Nat, k \in Nat, l \in Nat : i = Len(a) /\ j = Len(b) /\ k = Len(c) /\ l = Len(d)
  BY <1>1
<1>4. i + j = k + l
  BY <1>2, <1>3
<1>5. i + (j + 1) = k + l + 1
  BY ONLY <1>4, i \in Nat, j \in Nat, k \in Nat, l \in Nat
<1> QED BY <1>3, <1>5

LEMMA CatNothing ==
  ASSUME NEW S, NEW a \in Seq(S)
  PROVE  Cat(a, <<>>) = a /\ Cat(<<>>, a) = a /\ <<>> \in Seq(S)
BY DEF Cat

LEMMA CatCancel ==
  ASSUME NEW S, NEW a \in Seq(S), NEW b \in Seq(S), NEW c \in Seq(S)
  PROVE  /\ Cat(a, b) = Cat(a, c) => b = c
         /\ Cat(b, a) = Cat(c, a) => b = c
BY ConcatSimplifications DEF Cat

LEMMA CatSplit ==
  ASSUME NEW S, NEW a \in Seq(S), NEW b \in Seq(S), NEW c \in Seq(S), NEW d \in Seq(S),
         Cat(a, b) = Cat(c, d), Len(a) <= Len(c)
  PROVE  \E x \in Seq(S) : c = Cat(a, x) /\ b = Cat(x, d)
<1>0. a \o b = c \o d
  BY DEF Cat
<1> DEFINE x == SubSeq(c, Len(a) + 1, Len(c))
<1>1. /\ Len(a) \in Nat /\ Len(b) \in Nat /\ Len(c) \in Nat /\ Len(d) \in Nat
      /\ Len(a) + Len(b) = Len(c) + Len(d)
  <2>1. Len(a \o b) = Len(a) + Len(b) /\ Len(c \o d) = Len(c) + Len(d)
    OBVIOUS
  <2> QED BY <1>0, <2>1, LenProperties
<1>2. /\ x \in Seq(S) /\ Len(x) = Len(c) - Len(a)
      /\ \A i \in 1..Len(x) : x[i] = c[Len(a) + i]
  BY <1>1
<1>3. \A i \in 1..(Len(a) + Len(b)) :
        (IF i <= Len(a) THEN a[i] ELSE b[i - Len(a)]) = (IF i <= Len(c) THEN c[i] ELSE d[i - Len(c)])
  <2>1. \A i \in 1..(Len(a) + Len(b)) :
          /\ (a \o b)[i] = IF i <= Len(a) THEN a[i] ELSE b[i - Len(a)]
          /\ (c \o d)[i] = IF i <= Len(c) THEN c[i] ELSE d[i - Len(c)]
    BY <1>1, ConcatProperties
  <2> QED BY <1>0, <2>1
<1> HIDE DEF x
<1>4. c = a \o x
  <2>1. a \o x \in Seq(S) /\ Len(a \o x) = Len(c)
    BY <1>1, <1>2
  <2>2. ASSUME NEW i \in 1..Len(c) PROVE c[i] = (a \o x)[i]
    <3>1. CASE i <= Len(a)
      <4>1. (a \o x)[i] = a[i]
        BY <1>1, <1>2, <3>1
      <4>2. i \in 1..(Len(a) + Len(b)) /\ i <= Len(c)
        BY <1>1
      <4> QED BY <1>3, <3>1, <4>1, <4>2
    <3>2. CASE i > Len(a)
      <4>1. (a \o x)[i] = x[i - Len(a)]
        BY <1>1, <1>2, <3>2
      <4>2. i - Len(a) \in 1..Len(x) /\ Len(a) + (i - Len(a)) = i
        BY <1>1, <1>2, <3>2
      <4> QED BY <1>2, <4>1, <4>2
    <3>3. i <= Len(a) \/ i > Len(a)
      BY <1>1
    <3> QED BY ONLY <3>1, <3>2, <3>3
  <2> QED BY <2>1, <2>2, SeqEqual
<1>5. b = x \o d
  <2>1. x \o d \in Seq(S) /\ Len(x \o d) = Len(b)
    BY <1>1, <1>2
  <2>2. ASSUME NEW i \in 1..Len(b) PROVE b[i] = (x \o d)[i]
    <3>1. i + Len(a) \in 1..(Len(a) + Len(b)) /\ i + Len(a) > Len(a) /\ (i + Len(a)) - Len(a) = i
      BY <1>1
    <3>2. b[i] = IF i + Len(a) <= Len(c) THEN c[i + Len(a)] ELSE d[i + Len(a) - Len(c)]
      BY <1>1, <1>3, <3>1
    <3>3. (x \o d)[i] = IF i <= Len(x) THEN x[i] ELSE d[i - Len(x)]
      BY <1>1, <1>2
    <3>4. i <= Len(x) <=> i + Len(a) <= Len(c)
      BY <1>1, <1>2
    <3>5. i + Len(a) - Len(c) = i - Len(x)
      BY <1>1, <1>2
    <3>6. i <= Len(x) => x[i] = c[i + Len(a)]
      BY <1>1, <1>2
    <3> QED BY <3>2, <3>3, <3>4, <3>5, <3>6
  <2> QED BY <2>1, <2>2, SeqEqual
<1> QED BY <1>2, <1>4, <1>5 DEF Cat

LEMMA MessageTypes ==
  /\ Messages \subseteq Seq(Bytes)
  /\ \A b \in Batches : b \in Seq(Messages)
<1>1. ASSUME NEW b \in Batches PROVE b \in Seq(Messages) /\ Range(b) \subseteq Seq(Bytes)
  <2>1. b \in Seq(Seq(Bytes))
    BY MessagesAssumption
  <2>2. b \in Seq(Range(b)) /\ Range(b) \in SUBSET Seq(Bytes)
    BY <2>1, SeqOfRange, RangeOfSeq
  <2>3. Range(b) \subseteq Messages
    BY DEF Messages
  <2> QED BY <2>2, <2>3, SeqMonotonic
<1> QED BY <1>1 DEF Messages

LEMMA FlattenCat ==
  ASSUME NEW s \in Seq(Messages), NEW t \in Seq(Messages)
  PROVE  /\ FlattenSeq(s) \in Seq(Bytes) /\ FlattenSeq(t) \in Seq(Bytes)
         /\ FlattenSeq(Cat(s, t)) = Cat(FlattenSeq(s), FlattenSeq(t))
<1>1. s \in Seq(Seq(Bytes)) /\ t \in Seq(Seq(Bytes))
  BY MessageTypes, SeqMonotonic
<1> QED BY <1>1, FlattenConcat DEF Cat

LEMMA FlattenOne ==
  ASSUME NEW m \in Messages
  PROVE  <<m>> \in Seq(Messages) /\ FlattenSeq(<<m>>) = m /\ m \in Seq(Bytes)
<1>1. /\ m \in Seq(Bytes) /\ <<>> \in Seq(Seq(Bytes)) /\ <<>> \in Seq(Bytes)
      /\ <<m>> = Append(<<>>, m) /\ <<m>> \in Seq(Messages) /\ <<>> \o m = m
  BY MessageTypes
<1> QED BY <1>1, FlattenAppend, FlattenEmpty

LEMMA OrderGrows ==
  ASSUME NEW d \in Seq(Messages), NEW ahead \in Seq(Messages), NEW m \in Messages,
         NEW later \in Seq(Messages), NEW b \in Seq(Messages)
  PROVE  Cat(Cat(d, Cat(ahead, Cat(<<m>>, later))), b) = Cat(d, Cat(ahead, Cat(<<m>>, Cat(later, b))))
<1>1. PICK x \in Seq(Messages) : x = <<m>>
  BY One
<1>2. Cat(Cat(d, Cat(ahead, Cat(x, later))), b) = Cat(d, Cat(Cat(ahead, Cat(x, later)), b))
  BY CatAssoc
<1>3. Cat(Cat(ahead, Cat(x, later)), b) = Cat(ahead, Cat(Cat(x, later), b))
  BY CatAssoc
<1>4. Cat(Cat(x, later), b) = Cat(x, Cat(later, b))
  BY CatAssoc
<1> QED BY <1>1, <1>2, <1>3, <1>4

LEMMA FirstOf ==
  ASSUME NEW S, NEW s \in Seq(S), s # <<>>
  PROVE  /\ <<Head(s)>> \in Seq(S) /\ Tail(s) \in Seq(S) /\ s = Cat(<<Head(s)>>, Tail(s))
<1>1. Head(s) \in S /\ Tail(s) \in Seq(S) /\ <<Head(s)>> \in Seq(S)
  OBVIOUS
<1>2. s = <<Head(s)>> \o Tail(s)
  <2>1. Len(s) \in Nat \ {0} /\ Len(Tail(s)) = Len(s) - 1 /\ Head(s) = s[1]
        /\ \A i \in 1..Len(Tail(s)) : Tail(s)[i] = s[i + 1]
    BY EmptySeq, HeadTailProperties
  <2>2. Len(<<Head(s)>>) = 1 /\ <<Head(s)>>[1] = Head(s)
    OBVIOUS
  <2>3. /\ <<Head(s)>> \o Tail(s) \in Seq(S)
        /\ Len(<<Head(s)>> \o Tail(s)) = 1 + Len(Tail(s))
        /\ \A i \in 1..(1 + Len(Tail(s))) :
             (<<Head(s)>> \o Tail(s))[i] = IF i <= 1 THEN <<Head(s)>>[i] ELSE Tail(s)[i - 1]
    BY <1>1, <2>2, ConcatProperties
  <2>4. ASSUME NEW i \in 1..Len(s) PROVE s[i] = (<<Head(s)>> \o Tail(s))[i]
    <3>1. i = 1 \/ (i - 1 \in 1..Len(Tail(s)) /\ ~(i <= 1))
      BY <2>1
    <3> QED BY <2>1, <2>2, <2>3, <3>1
  <2> QED BY <2>1, <2>3, <2>4, SeqEqual
<1> QED BY <1>1, <1>2 DEF Cat

\* The first element of s goes to the end of a.
Moves(s, a, one, t) ==
  /\ Append(a, Head(s)) = Cat(a, one) /\ Tail(s) = t /\ s = Cat(one, t)
  /\ Len(one) = 1 /\ one[1] = Head(s)

LEMMA FirstMoves ==
  ASSUME NEW S, NEW s \in Seq(S), s # <<>>, NEW a \in Seq(S)
  PROVE  \E one \in Seq(S), t \in Seq(S) : Moves(s, a, one, t)
<1> DEFINE one == <<Head(s)>>
           t == Tail(s)
<1>1. one \in Seq(S) /\ t \in Seq(S) /\ s = Cat(one, t)
  BY FirstOf
<1>2. Append(a, Head(s)) = a \o one /\ Len(one) = 1 /\ one[1] = Head(s)
  OBVIOUS
<1> HIDE DEF one
<1>3. Append(a, Head(s)) = Cat(a, one)
  BY <1>2 DEF Cat
<1> HIDE DEF t
<1>4. Moves(s, a, one, t)
  BY <1>1, <1>2, <1>3 DEF t, Moves
<1> QED BY <1>1, <1>4

LEMMA LastOf ==
  ASSUME NEW S, NEW s \in Seq(S), s # <<>>
  PROVE  \E a \in Seq(S), e \in S : s = Append(a, e)
BY SequenceEmptyOrAppend

(***************************************************************************)
(* Messages.                                                               *)
(***************************************************************************)
LEMMA MessageShape ==
  ASSUME NEW m \in Messages
  PROVE  /\ m \in Seq(Bytes) /\ Len(m) \in Nat \ {0} /\ Len(m) <= Limit /\ m[1] = "{"
         /\ \A i \in 1..Len(m) : Parse(m)[i].depth = 0 <=> i = Len(m)
<1>1. IsObject(m) /\ Len(m) <= Limit /\ m \in Seq(Bytes)
  BY MessagesAssumption, MessageTypes
<1>2. m # <<>> /\ m[1] = "{" /\ \A i \in 1..Len(m) : Parse(m)[i].depth = 0 <=> i = Len(m)
  BY <1>1 DEF IsObject
<1>3. Len(m) \in Nat \ {0}
  BY <1>1, <1>2, EmptySeq
<1> QED BY ONLY <1>1, <1>2, <1>3

\* Every byte of s is in, or at the end of, the beginning of a message.
Beginnings(s) ==
  \A i \in 1..Len(s) : \E a \in 1..i, m \in Messages :
    i - a + 1 <= Len(m) /\ \A k \in a..i : s[k] = m[k - a + 1]

LEMMA BeginningsFirst ==
  ASSUME NEW s \in Seq(Bytes), NEW t \in Seq(Bytes), Beginnings(Cat(s, t))
  PROVE  Beginnings(s)
<1> SUFFICES ASSUME NEW i \in 1..Len(s)
             PROVE  \E a \in 1..i, m \in Messages :
                      i - a + 1 <= Len(m) /\ \A k \in a..i : s[k] = m[k - a + 1]
  BY DEF Beginnings
<1>1. i \in 1..Len(s \o t) /\ \A k \in 1..i : (s \o t)[k] = s[k]
  OBVIOUS
<1>2. PICK a \in 1..i, m \in Messages :
        i - a + 1 <= Len(m) /\ \A k \in a..i : (s \o t)[k] = m[k - a + 1]
  BY <1>1 DEF Beginnings, Cat
<1>3. \A k \in a..i : s[k] = m[k - a + 1]
  BY <1>1, <1>2
<1> QED BY <1>2, <1>3

LEMMA BeginningsConcat ==
  ASSUME NEW s \in Seq(Bytes), NEW t \in Seq(Bytes), Beginnings(s), Beginnings(t)
  PROVE  Beginnings(Cat(s, t))
<1> SUFFICES ASSUME NEW i \in 1..Len(s \o t)
             PROVE  \E a \in 1..i, m \in Messages :
                      i - a + 1 <= Len(m) /\ \A k \in a..i : (s \o t)[k] = m[k - a + 1]
  BY DEF Beginnings, Cat
<1> DEFINE n == Len(s)
<1>1. n \in Nat /\ Len(t) \in Nat /\ i \in 1..(n + Len(t))
  BY LenProperties
<1>2. \A k \in 1..i : (s \o t)[k] = IF k <= n THEN s[k] ELSE t[k - n]
  BY <1>1, ConcatProperties
<1> HIDE DEF n
<1>3. CASE i <= n
  <2>1. PICK a \in 1..i, m \in Messages : i - a + 1 <= Len(m) /\ \A k \in a..i : s[k] = m[k - a + 1]
    <3>1. i \in 1..Len(s)
      BY <1>1, <1>3 DEF n
    <3> QED BY <3>1 DEF Beginnings
  <2>2. \A k \in a..i : (s \o t)[k] = m[k - a + 1]
    BY <1>1, <1>2, <1>3, <2>1
  <2> QED BY <2>1, <2>2
<1>4. CASE i > n
  <2>1. i - n \in 1..Len(t)
    BY <1>1, <1>4
  <2>2. PICK a \in 1..(i - n), m \in Messages :
          (i - n) - a + 1 <= Len(m) /\ \A k \in a..(i - n) : t[k] = m[k - a + 1]
    BY <2>1 DEF Beginnings
  <2>3. ASSUME NEW k \in (a + n)..i PROVE (s \o t)[k] = m[k - (a + n) + 1]
    <3>1. k \in 1..i /\ ~(k <= n) /\ k - n \in a..(i - n) /\ (k - n) - a + 1 = k - (a + n) + 1
      BY <1>1, <1>4
    <3> QED BY <1>2, <2>2, <3>1
  <2>4. a + n \in 1..i /\ i - (a + n) + 1 <= Len(m)
    BY <1>1, <1>4, <2>2
  <2> QED BY <2>3, <2>4
<1>5. i <= n \/ i > n
  BY <1>1
<1> QED BY ONLY <1>3, <1>4, <1>5

LEMMA BeginningsFlatten ==
  ASSUME NEW b \in Seq(Messages)
  PROVE  Beginnings(FlattenSeq(b))
<1> DEFINE T == {n \in Nat : \A u \in Seq(Messages) : Len(u) = n => Beginnings(FlattenSeq(u))}
<1>1. 0 \in T
  <2>1. \A u \in Seq(Messages) : Len(u) = 0 => u = <<>>
    OBVIOUS
  <2>2. Beginnings(<<>>)
    BY DEF Beginnings
  <2> QED BY <2>1, <2>2, FlattenEmpty
<1>2. ASSUME NEW n \in Nat, n \in T PROVE n + 1 \in T
  <2> SUFFICES ASSUME NEW u \in Seq(Messages), Len(u) = n + 1 PROVE Beginnings(FlattenSeq(u))
    OBVIOUS
  <2>1. PICK v \in Seq(Messages), m \in Messages : u = Append(v, m)
    <3>1. u # <<>>
      OBVIOUS
    <3> QED BY <3>1, LastOf
  <2>2. Len(v) = n
    BY <2>1
  <2>3. Beginnings(FlattenSeq(v))
    BY <1>2, <2>2
  <2>4. v \in Seq(Seq(Bytes)) /\ m \in Seq(Bytes) /\ Len(m) \in Nat
    BY MessageTypes, MessageShape, SeqMonotonic
  <2>5. FlattenSeq(v) \in Seq(Bytes) /\ FlattenSeq(u) = Cat(FlattenSeq(v), m)
    BY <2>1, <2>4, FlattenAppend DEF Cat
  <2>6. Beginnings(m)
    <3> SUFFICES ASSUME NEW i \in 1..Len(m)
                 PROVE  \E a \in 1..i, l \in Messages :
                          i - a + 1 <= Len(l) /\ \A k \in a..i : m[k] = l[k - a + 1]
      BY DEF Beginnings
    <3>1. 1 \in 1..i /\ i - 1 + 1 <= Len(m) /\ \A k \in 1..i : m[k] = m[k - 1 + 1]
      BY <2>4
    <3> QED BY <3>1
  <2> HIDE DEF T
  <2> QED BY <2>3, <2>4, <2>5, <2>6, BeginningsConcat
<1> HIDE DEF T
<1>3. Nat \subseteq T
  BY <1>1, <1>2, Induction
<1> QED BY <1>3 DEF T

(***************************************************************************)
(* The inductive invariant.                                                *)
(***************************************************************************)

\* One writer has the mutex, and one that sends has something to send.
LockInv ==
  /\ mutex = None => rest = <<>>
  /\ \A w \in Writers : pc[w] = "write" <=> mutex = w
  /\ \A w \in Writers : pc[w] \in {"lock", "write"} => batch[w] \in Batches

\* Its messages are the last that went on the wire, and the first bytes of them are written.
Holds(old, done) ==
  /\ order = Cat(old, batch[mutex]) /\ torn <= Len(old)
  /\ FlattenSeq(batch[mutex]) = Cat(done, rest)
MineInv == mutex # None => \E old \in Seq(Messages), done \in Seq(Bytes) : Holds(old, done)

\* The reader is in the middle of an object, of which it has all bytes.
ParserInv ==
  /\ parser = Parse(parser.frame)[Len(parser.frame)]
  /\ parser.size = Len(parser.frame)
  /\ \A i \in 1..Len(parser.frame) : Parse(parser.frame)[i].depth # 0

\* What is written and not delivered: whole messages, and if one was cut off, the whole
\* messages before it, its beginning, and beginnings of messages.
Unread == Cat(parser.frame, wire)
AllThere(ahead) == order = Cat(delivered, ahead) /\ FlattenSeq(ahead) = Cat(Unread, rest)
InTwo(cut, m) == Len(cut) >= 1 /\ Len(cut) < Len(m) /\ Agree(cut, m, Len(cut))
Spoiled(ahead, m, cut, g) ==
  Unread = Cat(FlattenSeq(ahead), Cat(cut, g)) /\ Beginnings(Cat(g, rest)) /\ InTwo(cut, m)
CutOff(ahead, m, later, cut, g) ==
  /\ order = Cat(delivered, Cat(ahead, Cat(<<m>>, later)))
  /\ torn = Len(delivered) + Len(ahead) + 1
  /\ link # "rejected" => Spoiled(ahead, m, cut, g)
Entire == link # "rejected" /\ \E ahead \in Seq(Messages) : AllThere(ahead)
Damaged ==
  \E ahead \in Seq(Messages), later \in Seq(Messages), m \in Messages,
     cut \in Seq(Bytes), g \in Seq(Bytes) : CutOff(ahead, m, later, cut, g)
FlowInv == IF torn = 0 THEN Entire ELSE Damaged

IInv == TypeOK /\ LockInv /\ MineInv /\ ParserInv /\ FlowInv

LEMMA Typing ==
  ASSUME TypeOK
  PROVE  /\ rest \in Seq(Bytes) /\ wire \in Seq(Bytes) /\ parser.frame \in Seq(Bytes)
         /\ Unread \in Seq(Bytes)
         /\ order \in Seq(Messages) /\ delivered \in Seq(Messages) /\ torn \in Nat
BY CatIs DEF TypeOK, Unread

LEMMA InitIInv == Init => IInv
<1> SUFFICES ASSUME Init PROVE IInv
  OBVIOUS
<1>1. parser = Start /\ Start.frame = <<>> /\ Start.depth = 0 /\ Start.size = 0
  BY DEF Init, Start
<1>2. TypeOK
  <2>1. Len(<<>>) = 0 /\ <<>> \in Seq(Bytes) /\ <<>> \in Seq(Messages)
    OBVIOUS
  <2>2. parser \in [frame : Seq(Bytes), depth : Nat, quoted : BOOLEAN, escaped : BOOLEAN, size : 0..(Limit - 1)]
    BY <1>1, <2>1, ControlAssumption DEF Start
  <2> QED BY <2>1, <2>2, ControlAssumption DEF Init, TypeOK
<1>3. LockInv /\ MineInv
  BY ControlAssumption DEF Init, LockInv, MineInv
<1>4. ParserInv
  <2>1. <<>> \in Seq(Bytes) /\ Len(<<>>) = 0
    OBVIOUS
  <2>2. Parses(Parse(<<>>), <<>>, Len(<<>>))
    BY <2>1, ParseValue
  <2>3. Parse(<<>>)[0] = Start
    BY <2>1, <2>2 DEF Parses
  <2> QED BY <1>1, <2>1, <2>3 DEF ParserInv
<1>5. FlowInv
  <2>1. <<>> \in Seq(Messages) /\ Cat(<<>>, <<>>) = <<>>
    BY DEF Cat
  <2>2. AllThere(<<>>)
    BY <1>1, <2>1, FlattenEmpty DEF Init, AllThere, Unread
  <2> QED BY <2>1, <2>2 DEF Init, FlowInv, Entire
<1> QED BY <1>2, <1>3, <1>4, <1>5 DEF IInv

(***************************************************************************)
(* Steps that do not touch the bytes.                                      *)
(***************************************************************************)
LEMMA FlowKept ==
  ASSUME FlowInv, ParserInv, UNCHANGED <<order, delivered, parser, wire, rest, torn>>,
         link' = link \/ (link = "open" /\ link' = "lost")
  PROVE  FlowInv' /\ ParserInv'
<1>1. ParserInv'
  BY DEF ParserInv
<1>2. link' = "rejected" <=> link = "rejected"
  OBVIOUS
<1>3. Unread' = Unread
  BY DEF Unread
<1>4. ASSUME NEW ahead PROVE AllThere(ahead)' <=> AllThere(ahead)
  BY <1>3 DEF AllThere
<1>5. ASSUME NEW ahead, NEW m, NEW later, NEW cut, NEW g, CutOff(ahead, m, later, cut, g)
      PROVE  CutOff(ahead, m, later, cut, g)'
  <2>1. Spoiled(ahead, m, cut, g) => Spoiled(ahead, m, cut, g)'
    BY <1>3 DEF Spoiled
  <2>2. UNCHANGED order /\ UNCHANGED delivered /\ UNCHANGED torn
    OBVIOUS
  <2>3. order = Cat(delivered, Cat(ahead, Cat(<<m>>, later))) /\ torn = Len(delivered) + Len(ahead) + 1
    BY <1>5 DEF CutOff
  <2>4. link # "rejected" => Spoiled(ahead, m, cut, g)
    BY <1>5 DEF CutOff
  <2>5. ASSUME link' # "rejected" PROVE Spoiled(ahead, m, cut, g)'
    <3>1. Spoiled(ahead, m, cut, g)
      BY ONLY <1>2, <2>4, <2>5
    <3> QED BY <2>1, <3>1
  <2>6. order' = Cat(delivered', Cat(ahead, Cat(<<m>>, later)))
    BY ONLY <2>2, <2>3
  <2>7. torn' = Len(delivered') + Len(ahead) + 1
    BY ONLY <2>2, <2>3
  <2> QED BY ONLY <2>5, <2>6, <2>7 DEF CutOff
<1>6. CASE torn = 0
  <2>1. link # "rejected" /\ \E ahead \in Seq(Messages) : AllThere(ahead)
    BY <1>6 DEF FlowInv, Entire
  <2> QED BY <1>1, <1>2, <1>4, <1>6, <2>1 DEF FlowInv, Entire
<1>7. CASE torn # 0
  <2>1. PICK ahead \in Seq(Messages), later \in Seq(Messages), m \in Messages,
             cut \in Seq(Bytes), g \in Seq(Bytes) : CutOff(ahead, m, later, cut, g)
    BY <1>7 DEF FlowInv, Damaged
  <2>2. CutOff(ahead, m, later, cut, g)'
    BY <1>5, <2>1
  <2> QED BY <1>1, <1>7, <2>2 DEF FlowInv, Damaged
<1> QED BY <1>6, <1>7

LEMMA SendStep ==
  ASSUME IInv, NEW w \in Writers, NEW b \in Batches, Send(w, b)
  PROVE  IInv'
<1>1. /\ TypeOK /\ LockInv /\ MineInv /\ ParserInv /\ FlowInv
      /\ pc[w] = "idle"
      /\ UNCHANGED <<order, delivered, parser, wire, rest, torn, link, mutex>>
  BY DEF IInv, Send, reading
<1>2. FlowInv' /\ ParserInv'
  BY <1>1, FlowKept
<1>3. TypeOK'
  <2>1. sends' \in 0..MaxSends /\ deadline' \in {"ahead", "near", "passed"}
    <3>1. sends \in 0..MaxSends /\ deadline \in {"ahead", "near", "passed"} /\ MaxSends \in Nat
      BY <1>1, ControlAssumption DEF TypeOK
    <3>2. sends' = sends + 1 /\ sends < MaxSends /\ deadline' \in {deadline, "ahead"}
      BY DEF Send
    <3> QED BY <3>1, <3>2
  <2>2. pc' \in [Writers -> {"idle", "lock", "write", "stopped"}]
    BY <1>1 DEF TypeOK, Send, Return
  <2>3. batch' \in [Writers -> Batches \cup {<<>>}]
    BY <1>1 DEF TypeOK, Send, Return
  <2> QED BY <1>1, <2>1, <2>2, <2>3 DEF TypeOK
<1>4. /\ pc'[w] # "write" /\ (pc'[w] \in {"lock", "write"} => batch'[w] \in Batches)
      /\ \A v \in Writers : v # w => pc'[v] = pc[v] /\ batch'[v] = batch[v]
  BY <1>1 DEF Send, Return, TypeOK
<1>5. mutex # w
  BY <1>1 DEF LockInv
<1>6. LockInv'
  BY <1>1, <1>4, <1>5 DEF LockInv
<1>7. MineInv'
  <2>1. mutex # None => batch'[mutex] = batch[mutex]
    BY <1>1, <1>4, <1>5 DEF TypeOK
  <2> QED BY <1>1, <2>1 DEF MineInv, Holds
<1> QED BY <1>2, <1>3, <1>6, <1>7 DEF IInv

LEMMA QuietSteps ==
  ASSUME IInv, QueueUp \/ Expire \/ Lose \/ UNCHANGED vars
  PROVE  IInv'
<1>1. /\ TypeOK /\ LockInv /\ MineInv /\ ParserInv /\ FlowInv
      /\ UNCHANGED <<order, delivered, parser, wire, rest, torn, mutex, pc, batch, sends>>
      /\ (link' = link \/ (link = "open" /\ link' = "lost")) /\ deadline' \in {deadline, "ahead", "near", "passed"}
  BY DEF IInv, QueueUp, Expire, Lose, vars, reading, writing
<1>2. FlowInv' /\ ParserInv'
  BY <1>1, FlowKept
<1>3. TypeOK' /\ LockInv' /\ MineInv'
  BY <1>1 DEF TypeOK, LockInv, MineInv, Holds
<1> QED BY <1>2, <1>3 DEF IInv

(***************************************************************************)
(* Writing.                                                                *)
(***************************************************************************)

\* What goes back from a call that does not write (any more).
LEMMA ReturnKept ==
  ASSUME TypeOK, LockInv, NEW w \in Writers, NEW success \in BOOLEAN, Return(w, success)
  PROVE  /\ pc' \in [Writers -> {"idle", "lock", "write", "stopped"}]
         /\ batch' \in [Writers -> Batches \cup {<<>>}]
         /\ pc'[w] \in {"idle", "stopped"}
         /\ \A v \in Writers : v # w => pc'[v] = pc[v] /\ batch'[v] = batch[v]
BY DEF TypeOK, Return

LEMMA LockStep ==
  ASSUME IInv, NEW w \in Writers, Lock(w)
  PROVE  IInv'
<1>1. /\ TypeOK /\ LockInv /\ MineInv /\ ParserInv /\ FlowInv
      /\ pc[w] = "lock" /\ mutex = None
      /\ UNCHANGED <<delivered, parser, wire, torn, link, sends>>
  BY DEF IInv, Lock, reading
<1>2. CASE link # "open"
  <2>1. Return(w, FALSE) /\ UNCHANGED <<mutex, deadline, rest, order>>
    BY <1>2 DEF Lock
  <2>2. FlowInv' /\ ParserInv'
    BY <1>1, <2>1, FlowKept
  <2>3. /\ pc' \in [Writers -> {"idle", "lock", "write", "stopped"}]
        /\ batch' \in [Writers -> Batches \cup {<<>>}]
        /\ pc'[w] \in {"idle", "stopped"}
        /\ \A v \in Writers : v # w => pc'[v] = pc[v] /\ batch'[v] = batch[v]
    BY <1>1, <2>1, ReturnKept
  <2>4. TypeOK'
    BY <1>1, <2>1, <2>3 DEF TypeOK
  <2>5. LockInv' /\ MineInv'
    BY <1>1, <2>1, <2>3, ControlAssumption DEF LockInv, MineInv
  <2> QED BY <2>2, <2>4, <2>5 DEF IInv
<1>3. CASE link = "open"
  <2>0. batch[w] \in Batches
    BY <1>1 DEF LockInv
  <2>a. PICK b \in Batches : b = batch[w]
    BY <2>0
  <2>1. /\ mutex' = w /\ pc' = [pc EXCEPT ![w] = "write"] /\ deadline' = "ahead"
        /\ rest' = FlattenSeq(b) /\ order' = Cat(order, b) /\ UNCHANGED batch
    BY <1>3, <2>a DEF Lock, Cat
  <2>2. b \in Batches /\ b \in Seq(Messages) /\ b \in Seq(Seq(Bytes)) /\ rest = <<>>
    BY <1>1, MessageTypes, MessagesAssumption DEF LockInv
  <2>3. /\ rest \in Seq(Bytes) /\ wire \in Seq(Bytes) /\ parser.frame \in Seq(Bytes)
        /\ Unread \in Seq(Bytes)
        /\ order \in Seq(Messages) /\ delivered \in Seq(Messages) /\ torn \in Nat
    BY <1>1, Typing
  <2>4. FlattenSeq(b) \in Seq(Bytes)
    <3>1. <<>> \in Seq(Bytes)
      OBVIOUS
    <3> QED BY <2>2, <3>1, FlattenAppend
  <2>5. order' \in Seq(Messages) /\ Len(order') = Len(order) + Len(b) /\ Len(order) \in Nat /\ Len(b) \in Nat
    BY <2>1, <2>2, <2>3, CatIs
  <2>6. TypeOK'
    <3>1. pc' \in [Writers -> {"idle", "lock", "write", "stopped"}]
      BY <1>1, <2>1 DEF TypeOK
    <3>2. torn \in 0..Len(order')
      BY <1>1, <2>5 DEF TypeOK
    <3> QED BY <1>1, <2>1, <2>4, <2>5, <3>1, <3>2 DEF TypeOK
  <2>7. LockInv'
    <3>1. pc'[w] = "write" /\ \A v \in Writers : v # w => pc'[v] = pc[v]
      BY <1>1, <2>1 DEF TypeOK
    <3>2. \A v \in Writers : pc[v] # "write"
      BY <1>1, ControlAssumption DEF LockInv
    <3> QED BY <1>1, <2>1, <2>2, <2>a, <3>1, <3>2, ControlAssumption DEF LockInv
  <2>8. MineInv'
    <3>1. <<>> \in Seq(Bytes) /\ FlattenSeq(b) = Cat(<<>>, FlattenSeq(b))
      BY <2>4, CatNothing
    <3>2. torn <= Len(order)
      BY <1>1 DEF TypeOK
    <3> PICK old \in Seq(Messages) : old = order
      BY <2>3
    <3>3. Holds(old, <<>>)'
      BY <1>1, <2>1, <2>a, <3>1, <3>2 DEF Holds
    <3> QED BY <3>1, <3>3 DEF MineInv
  <2>9. ParserInv'
    BY <1>1 DEF ParserInv
  <2>10. Unread' = Unread
    BY <1>1 DEF Unread
  <2>11. CASE torn = 0
    <3>1. PICK ahead \in Seq(Messages) : AllThere(ahead)
      BY <1>1, <2>11 DEF FlowInv, Entire
    <3>2. Cat(ahead, b) \in Seq(Messages) /\ Cat(Cat(delivered, ahead), b) = Cat(delivered, Cat(ahead, b))
      BY <2>2, <2>3, CatAssoc
    <3>3. FlattenSeq(Cat(ahead, b)) = Cat(FlattenSeq(ahead), FlattenSeq(b))
      BY <2>2, FlattenCat
    <3>4. FlattenSeq(ahead) = Unread
      BY <2>2, <2>3, <3>1, CatNothing DEF AllThere
    <3> PICK more \in Seq(Messages) : more = Cat(ahead, b)
      BY <3>2
    <3>5. AllThere(more)'
      BY <1>1, <2>1, <2>10, <3>1, <3>2, <3>3, <3>4 DEF AllThere
    <3> QED BY <1>1, <1>3, <2>11, <3>2, <3>5, <2>6, <2>7, <2>8, <2>9 DEF IInv, FlowInv, Entire
  <2>12. CASE torn # 0
    <3>1. PICK ahead \in Seq(Messages), later \in Seq(Messages), m \in Messages,
               cut \in Seq(Bytes), g \in Seq(Bytes) : CutOff(ahead, m, later, cut, g)
      BY <1>1, <2>12 DEF FlowInv, Damaged
    <3>2. Cat(later, b) \in Seq(Messages) /\ <<m>> \in Seq(Messages)
      BY <2>2, CatType, One
    <3>3. Cat(order, b) = Cat(delivered, Cat(ahead, Cat(<<m>>, Cat(later, b))))
      <4>1. order = Cat(delivered, Cat(ahead, Cat(<<m>>, later)))
        BY <3>1 DEF CutOff
      <4>2. b \in Seq(Messages) /\ delivered \in Seq(Messages)
        BY <2>2, <2>3
      <4>3. PICK d \in Seq(Messages) : d = delivered
        BY <4>2
      <4>4. Cat(Cat(d, Cat(ahead, Cat(<<m>>, later))), b) = Cat(d, Cat(ahead, Cat(<<m>>, Cat(later, b))))
        BY <4>2, OrderGrows
      <4> QED BY ONLY <4>1, <4>3, <4>4
    <3>4. Spoiled(ahead, m, cut, g)
      BY <1>3, <3>1 DEF CutOff
    <3>5. Beginnings(Cat(g, FlattenSeq(b)))
      <4>1. Cat(g, <<>>) = g
        BY CatNothing
      <4>2. Beginnings(g)
        BY <2>2, <3>4, <4>1 DEF Spoiled
      <4> QED BY <2>2, <2>4, <4>2, BeginningsFlatten, BeginningsConcat
    <3> PICK more \in Seq(Messages) : more = Cat(later, b)
      BY <3>2
    <3>6. CutOff(ahead, m, more, cut, g)'
      BY <1>1, <2>1, <2>10, <3>1, <3>3, <3>4, <3>5 DEF CutOff, Spoiled
    <3> QED BY <1>1, <2>12, <3>2, <3>6, <2>6, <2>7, <2>8, <2>9 DEF IInv, FlowInv, Damaged
  <2> QED BY <2>11, <2>12
<1> QED BY <1>2, <1>3

LEMMA WriteStep ==
  ASSUME IInv, NEW w \in Writers, Write(w)
  PROVE  IInv'
<1>1. /\ TypeOK /\ LockInv /\ MineInv /\ ParserInv /\ FlowInv
      /\ mutex = w /\ rest # <<>> /\ link = "open" /\ Len(wire) < Capacity
      /\ wire' = Append(wire, Head(rest)) /\ rest' = Tail(rest)
      /\ UNCHANGED <<pc, batch, mutex, deadline, sends, link, parser, delivered, order, torn>>
  BY DEF IInv, Write, reading
<1>2. /\ rest \in Seq(Bytes) /\ wire \in Seq(Bytes) /\ parser.frame \in Seq(Bytes)
      /\ Unread \in Seq(Bytes)
      /\ order \in Seq(Messages) /\ delivered \in Seq(Messages) /\ torn \in Nat
  BY <1>1, Typing
<1>a. PICK v \in Seq(Bytes), r \in Seq(Bytes), f \in Seq(Bytes) : v = wire /\ r = rest /\ f = parser.frame
  BY <1>2
<1>b. r # <<>> /\ wire' = Append(v, Head(r)) /\ rest' = Tail(r) /\ Unread = Cat(f, v)
  BY <1>1, <1>a DEF Unread
<1>3. PICK one \in Seq(Bytes), t \in Seq(Bytes) :
        wire' = Cat(v, one) /\ rest' = t /\ r = Cat(one, t) /\ Len(one) = 1
  <2>1. PICK one \in Seq(Bytes), t \in Seq(Bytes) : Moves(r, v, one, t)
    BY <1>b, FirstMoves
  <2>2. wire' = Cat(v, one) /\ rest' = t /\ r = Cat(one, t) /\ Len(one) = 1
    BY <1>b, <2>1 DEF Moves
  <2> QED BY <2>2
<1>4. \A a \in Seq(Bytes) : Cat(a, one) \in Seq(Bytes) /\ Cat(Cat(a, one), t) = Cat(a, r)
  BY <1>3, CatAssoc
<1>5. Unread' = Cat(Unread, one)
  <2>1. Cat(Cat(f, v), one) = Cat(f, Cat(v, one))
    BY CatAssoc
  <2>2. Unread' = Cat(f, Cat(v, one))
    BY <1>1, <1>3, <1>a DEF Unread
  <2> QED BY <1>b, <2>1, <2>2
<1>6. TypeOK'
  <2>1. wire' \in Seq(Bytes) /\ Len(wire') = Len(wire) + 1 /\ Len(wire) \in Nat
    <3>1. Cat(v, one) \in Seq(Bytes) /\ Len(Cat(v, one)) = Len(v) + Len(one) /\ Len(v) \in Nat
      BY CatIs
    <3> QED BY <1>3, <1>a, <3>1
  <2>2. Len(wire') <= Capacity
    BY <1>1, <2>1, ControlAssumption
  <2> QED BY <1>1, <1>3, <1>5, <2>1, <2>2 DEF TypeOK
<1>7. LockInv' /\ ParserInv'
  BY <1>1, ControlAssumption DEF LockInv, ParserInv
<1>8. MineInv'
  <2>1. PICK old \in Seq(Messages), done \in Seq(Bytes) : Holds(old, done)
    BY <1>1, ControlAssumption DEF MineInv
  <2>2. PICK more \in Seq(Bytes) : more = Cat(done, one)
    BY <1>4
  <2>3. FlattenSeq(batch[mutex]) = Cat(more, t)
    BY <1>4, <1>a, <2>1, <2>2 DEF Holds
  <2>4. Holds(old, more)'
    BY <1>1, <1>3, <2>1, <2>3 DEF Holds
  <2> QED BY <2>4 DEF MineInv
<1>9. FlowInv'
  <2>1. CASE torn = 0
    <3>1. PICK ahead \in Seq(Messages) : AllThere(ahead)
      BY <1>1, <2>1 DEF FlowInv, Entire
    <3>2. FlattenSeq(ahead) = Cat(Cat(Unread, one), t)
      BY <1>2, <1>4, <1>a, <3>1 DEF AllThere
    <3>3. AllThere(ahead)'
      BY <1>1, <1>3, <1>5, <3>1, <3>2 DEF AllThere
    <3> QED BY <1>1, <2>1, <3>3 DEF FlowInv, Entire
  <2>2. CASE torn # 0
    <3>1. PICK ahead \in Seq(Messages), later \in Seq(Messages), m \in Messages,
               cut \in Seq(Bytes), g \in Seq(Bytes) : CutOff(ahead, m, later, cut, g)
      BY <1>1, <2>2 DEF FlowInv, Damaged
    <3>2. Spoiled(ahead, m, cut, g)
      BY <1>1, <3>1 DEF CutOff
    <3>3. PICK more \in Seq(Bytes), F \in Seq(Bytes), c \in Seq(Bytes) :
            more = Cat(g, one) /\ F = FlattenSeq(ahead) /\ c = Cat(cut, g)
      BY <1>4, FlattenCat, CatType
    <3>4. Cat(Unread, one) = Cat(FlattenSeq(ahead), Cat(cut, more))
      <4>1. Cat(Cat(F, c), one) = Cat(F, Cat(c, one)) /\ Cat(Cat(cut, g), one) = Cat(cut, Cat(g, one))
        BY CatAssoc
      <4>2. Unread = Cat(F, c)
        BY <3>2, <3>3 DEF Spoiled
      <4> QED BY <3>3, <4>1, <4>2
    <3>5. Cat(more, t) = Cat(g, rest)
      BY <1>4, <1>a, <3>3
    <3>6. Spoiled(ahead, m, cut, more)'
      BY <1>3, <1>5, <3>2, <3>4, <3>5 DEF Spoiled
    <3>7. CutOff(ahead, m, later, cut, more)'
      BY <1>1, <3>1, <3>6 DEF CutOff
    <3> QED BY <1>1, <2>2, <3>7 DEF FlowInv, Damaged
  <2> QED BY <2>1, <2>2
<1> QED BY <1>6, <1>7, <1>8, <1>9 DEF IInv

LEMMA WrittenStep ==
  ASSUME IInv, NEW w \in Writers, Written(w)
  PROVE  IInv'
<1>1. /\ TypeOK /\ LockInv /\ MineInv /\ ParserInv /\ FlowInv
      /\ mutex = w /\ rest = <<>> /\ mutex' = None /\ rest' = <<>> /\ Return(w, TRUE)
      /\ UNCHANGED <<deadline, sends, wire, link, parser, delivered, order, torn>>
  BY DEF IInv, Written, Unlock, reading
<1>2. FlowInv' /\ ParserInv'
  BY <1>1, FlowKept
<1>3. /\ pc' \in [Writers -> {"idle", "lock", "write", "stopped"}]
      /\ batch' \in [Writers -> Batches \cup {<<>>}]
      /\ pc'[w] \in {"idle", "stopped"}
      /\ \A v \in Writers : v # w => pc'[v] = pc[v] /\ batch'[v] = batch[v]
  BY <1>1, ReturnKept
<1>4. TypeOK' /\ MineInv'
  BY <1>1, <1>3 DEF TypeOK, MineInv
<1>5. LockInv'
  BY <1>1, <1>3, ControlAssumption DEF LockInv
<1> QED BY <1>2, <1>4, <1>5 DEF IInv

(***************************************************************************)
(* A write that fails: what of a batch is on the wire.                     *)
(***************************************************************************)
LEMMA FlattenLong ==
  ASSUME NEW s \in Seq(Messages)
  PROVE  /\ Len(FlattenSeq(s)) \in Nat
         /\ s # <<>> => Len(FlattenSeq(s)) > 0
<1>1. FlattenSeq(s) \in Seq(Bytes) /\ Len(FlattenSeq(s)) \in Nat
  BY FlattenCat, LenProperties
<1>2. ASSUME s # <<>> PROVE Len(FlattenSeq(s)) > 0
  <2>1. PICK a \in Seq(Messages), e \in Messages : s = Append(a, e)
    BY <1>2, LastOf
  <2>2. e \in Seq(Bytes) /\ Len(e) \in Nat \ {0} /\ FlattenSeq(a) \in Seq(Bytes)
    BY MessageShape, FlattenCat
  <2>3. a \in Seq(Seq(Bytes))
    BY MessageTypes, SeqMonotonic
  <2>4. FlattenSeq(s) = Cat(FlattenSeq(a), e)
    BY <2>1, <2>2, <2>3, FlattenAppend DEF Cat
  <2>5. Len(Cat(FlattenSeq(a), e)) = Len(FlattenSeq(a)) + Len(e) /\ Len(FlattenSeq(a)) \in Nat
    BY <2>2, CatIs
  <2> QED BY ONLY <2>2, <2>4, <2>5
<1> QED BY <1>1, <1>2

\* The message of b that comes after p, in or before which the first put bytes end.
Falls(b, put, p, m, q) ==
  /\ b = Cat(p, Cat(<<m>>, q))
  /\ Len(FlattenSeq(p)) <= put /\ put < Len(FlattenSeq(p)) + Len(m)

LEMMA FallsSomewhere ==
  ASSUME NEW b \in Seq(Messages), NEW put \in Nat, put < Len(FlattenSeq(b))
  PROVE  \E p \in Seq(Messages), m \in Messages, q \in Seq(Messages) : Falls(b, put, p, m, q)
<1> DEFINE Has(u) == \E p \in Seq(Messages), m \in Messages, q \in Seq(Messages) : Falls(u, put, p, m, q)
           T == {n \in Nat : \A u \in Seq(Messages) :
                   Len(u) = n /\ put < Len(FlattenSeq(u)) => Has(u)}
<1>1. 0 \in T
  <2>1. \A u \in Seq(Messages) : Len(u) = 0 => u = <<>>
    OBVIOUS
  <2>2. ~(put < Len(FlattenSeq(<<>>)))
    BY FlattenEmpty
  <2> QED BY <2>1, <2>2
<1>2. ASSUME NEW n \in Nat, n \in T PROVE n + 1 \in T
  <2> SUFFICES ASSUME NEW u \in Seq(Messages), Len(u) = n + 1, put < Len(FlattenSeq(u)) PROVE Has(u)
    OBVIOUS
  <2>1. PICK v \in Seq(Messages), e \in Messages : u = Append(v, e)
    <3>1. u # <<>>
      OBVIOUS
    <3> QED BY <3>1, LastOf
  <2>2. Len(v) = n
    BY <2>1
  <2>3. PICK x \in Seq(Messages) : x = <<e>>
    BY One
  <2>4. u = Cat(v, x)
    BY <2>1, <2>3 DEF Cat
  <2>5. CASE put < Len(FlattenSeq(v))
    <3>1. PICK p \in Seq(Messages), m \in Messages, q \in Seq(Messages) : Falls(v, put, p, m, q)
      BY <1>2, <2>2, <2>5
    <3>2. PICK y \in Seq(Messages) : y = <<m>>
      BY One
    <3>3. Cat(Cat(p, Cat(y, q)), x) = Cat(p, Cat(Cat(y, q), x)) /\ Cat(Cat(y, q), x) = Cat(y, Cat(q, x))
      BY CatAssoc
    <3>4. u = Cat(p, Cat(<<m>>, Cat(q, x)))
      BY <2>4, <3>1, <3>2, <3>3 DEF Falls
    <3>5. Cat(q, x) \in Seq(Messages)
      BY CatType
    <3> QED BY <3>1, <3>4, <3>5 DEF Falls
  <2>6. CASE ~(put < Len(FlattenSeq(v)))
    <3>1. Cat(x, <<>>) = x /\ <<>> \in Seq(Messages)
      BY CatNothing
    <3>2. FlattenSeq(x) = e /\ e \in Seq(Bytes)
      BY <2>3, FlattenOne
    <3>3. FlattenSeq(u) = Cat(FlattenSeq(v), e) /\ FlattenSeq(v) \in Seq(Bytes)
      BY <2>4, <3>2, FlattenCat
    <3>4. /\ Len(Cat(FlattenSeq(v), e)) = Len(FlattenSeq(v)) + Len(e)
          /\ Len(FlattenSeq(v)) \in Nat /\ Len(e) \in Nat
      BY <3>2, <3>3, CatIs
    <3>5. Falls(u, put, v, e, <<>>)
      <4>1. u = Cat(v, Cat(<<e>>, <<>>))
        BY ONLY <2>3, <2>4, <3>1
      <4>2. Len(FlattenSeq(v)) <= put /\ put < Len(FlattenSeq(v)) + Len(e)
        BY <2>6, <3>3, <3>4
      <4> QED BY ONLY <4>1, <4>2 DEF Falls
    <3> QED BY <3>1, <3>5
  <2> QED BY <2>5, <2>6
<1> HIDE DEF T
<1>3. Nat \subseteq T
  BY <1>1, <1>2, Induction
<1>4. Len(b) \in Nat /\ Len(b) \in T
  BY <1>3, LenProperties
<1> QED BY <1>4 DEF T

\* The bytes of the first k messages of b.
BytesOf(b, k) == Len(FlattenSeq(SubSeq(b, 1, k)))

LEMMA BytesGrow ==
  ASSUME NEW b \in Seq(Messages), NEW i \in 0..Len(b), NEW j \in 0..Len(b), i < j
  PROVE  BytesOf(b, i) \in Nat /\ BytesOf(b, j) \in Nat /\ BytesOf(b, i) < BytesOf(b, j)
<1>1. /\ SubSeq(b, 1, i) \in Seq(Messages) /\ SubSeq(b, i + 1, j) \in Seq(Messages)
      /\ SubSeq(b, 1, j) \in Seq(Messages) /\ Len(SubSeq(b, i + 1, j)) # 0
      /\ Len(b) \in Nat
  BY LenProperties
<1>2. SubSeq(b, 1, j) = Cat(SubSeq(b, 1, i), SubSeq(b, i + 1, j))
  BY <1>1, ConcatAdjacentSubSeq DEF Cat
<1> DEFINE x == SubSeq(b, 1, i)
           y == SubSeq(b, i + 1, j)
           z == SubSeq(b, 1, j)
<1>3. y # <<>>
  BY <1>1
<1> HIDE DEF x, y, z
<1>4. /\ x \in Seq(Messages) /\ y \in Seq(Messages) /\ z = Cat(x, y) /\ z \in Seq(Messages)
  BY <1>1, <1>2 DEF x, y, z
<1>5. FlattenSeq(z) = Cat(FlattenSeq(x), FlattenSeq(y)) /\ FlattenSeq(x) \in Seq(Bytes) /\ FlattenSeq(y) \in Seq(Bytes)
  BY <1>4, FlattenCat
<1>6. Len(FlattenSeq(y)) > 0 /\ Len(FlattenSeq(x)) \in Nat /\ Len(FlattenSeq(y)) \in Nat
  BY <1>3, <1>4, FlattenLong
<1>7. Len(FlattenSeq(z)) = Len(FlattenSeq(x)) + Len(FlattenSeq(y))
  BY <1>5, CatIs
<1>8. BytesOf(b, i) = Len(FlattenSeq(x)) /\ BytesOf(b, j) = Len(FlattenSeq(z))
  BY DEF BytesOf, x, z
<1> QED BY ONLY <1>6, <1>7, <1>8

LEMMA FirstPart ==
  ASSUME NEW S, NEW a \in Seq(S), NEW b \in Seq(S)
  PROVE  SubSeq(Cat(a, b), 1, Len(a)) = a
<1>1. Len(a) \in Nat /\ SubSeq(a \o b, 1, Len(a)) = SubSeq(a, 1, Len(a))
  BY LenProperties, SubSeqOfConcat1
<1>2. SubSeq(a, 1, Len(a)) = a
  BY SubSeqFull
<1> QED BY <1>1, <1>2 DEF Cat

Begun(b, put) == {i \in 1..Len(b) : BytesOf(b, i - 1) < put}
Completed(b, put) == {i \in Begun(b, put) : BytesOf(b, i) <= put}

\* The messages that are begun are p, and m unless put ends with p; those that are whole are p.
LEMMA BegunIs ==
  ASSUME NEW b \in Seq(Messages), NEW put \in Nat, NEW p \in Seq(Messages), NEW m \in Messages,
         NEW q \in Seq(Messages), Falls(b, put, p, m, q)
  PROVE  /\ Begun(b, put) = 1..(IF put = Len(FlattenSeq(p)) THEN Len(p) ELSE Len(p) + 1)
         /\ Completed(b, put) = 1..Len(p)
<1>1. PICK x \in Seq(Messages) : x = <<m>>
  BY One
<1>2. Len(x) = 1 /\ FlattenSeq(x) = m /\ m \in Seq(Bytes) /\ Len(m) \in Nat
  BY <1>1, FlattenOne, MessageShape
<1>3. b = Cat(p, Cat(x, q)) /\ b = Cat(Cat(p, x), q)
  <2>1. Cat(Cat(p, x), q) = Cat(p, Cat(x, q))
    BY CatAssoc
  <2> QED BY <1>1, <2>1 DEF Falls
<1>4. Cat(p, x) \in Seq(Messages) /\ Cat(x, q) \in Seq(Messages)
  BY CatType
<1>5. /\ Len(Cat(p, x)) = Len(p) + 1 /\ Len(b) = Len(p) + 1 + Len(q)
      /\ Len(p) \in Nat /\ Len(q) \in Nat
  <2>1. Len(Cat(p, x)) = Len(p) + Len(x) /\ Len(p) \in Nat
    BY CatIs
  <2>2. Len(Cat(Cat(p, x), q)) = Len(Cat(p, x)) + Len(q) /\ Len(q) \in Nat
    BY <1>4, CatIs
  <2> QED BY ONLY <1>2, <1>3, <2>1, <2>2
<1> DEFINE n == Len(p)
           f == Len(FlattenSeq(p))
<1>6. BytesOf(b, n) = f
  BY <1>3, <1>4, FirstPart DEF BytesOf
<1>7. BytesOf(b, n + 1) = f + Len(m)
  <2>1. SubSeq(b, 1, n + 1) = Cat(p, x)
    BY <1>3, <1>4, <1>5, FirstPart
  <2>2. FlattenSeq(Cat(p, x)) = Cat(FlattenSeq(p), m) /\ FlattenSeq(p) \in Seq(Bytes)
    BY <1>2, FlattenCat
  <2>3. Len(Cat(FlattenSeq(p), m)) = Len(FlattenSeq(p)) + Len(m)
    BY <1>2, <2>2, CatIs
  <2> QED BY <2>1, <2>2, <2>3 DEF BytesOf
<1>8. f <= put /\ put < f + Len(m) /\ f \in Nat
  BY FlattenLong DEF Falls
<1>9. \A i, j \in 0..Len(b) : i < j => BytesOf(b, i) \in Nat /\ BytesOf(b, j) \in Nat /\ BytesOf(b, i) < BytesOf(b, j)
  BY BytesGrow
<1> HIDE DEF n, f
<1>10. n \in Nat /\ n + 1 <= Len(b) /\ Len(b) \in Nat /\ n \in 0..Len(b) /\ n + 1 \in 0..Len(b)
  BY <1>5 DEF n
<1>11. ASSUME NEW i \in 1..Len(b)
       PROVE  /\ BytesOf(b, i - 1) < put <=> IF put = f THEN i <= n ELSE i <= n + 1
              /\ i <= n => BytesOf(b, i) <= put
              /\ i = n + 1 => ~(BytesOf(b, i) <= put)
  <2>1. i \in 0..Len(b) /\ i - 1 \in 0..Len(b) /\ (i <= n \/ i = n + 1 \/ i > n + 1)
    BY <1>10
  <2>2. CASE i <= n
    <3>1. i - 1 < n /\ (i = n \/ i < n)
      BY <1>10, <2>1, <2>2
    <3>2. BytesOf(b, i - 1) \in Nat /\ BytesOf(b, i - 1) < f
      BY <1>6, <1>9, <1>10, <2>1, <3>1
    <3>3. BytesOf(b, i) \in Nat /\ BytesOf(b, i) <= f
      BY <1>6, <1>8, <1>9, <1>10, <2>1, <3>1
    <3> QED BY <1>8, <1>10, <2>2, <3>2, <3>3
  <2>3. CASE i = n + 1
    <3>1. i - 1 = n
      BY <1>10, <2>3
    <3> QED BY <1>2, <1>6, <1>7, <1>8, <1>10, <2>3, <3>1
  <2>4. CASE i > n + 1
    <3>1. i - 1 = n + 1 \/ n + 1 < i - 1
      BY <1>10, <2>1, <2>4
    <3>2. BytesOf(b, i - 1) \in Nat /\ BytesOf(b, i - 1) >= f + Len(m)
      BY <1>2, <1>7, <1>8, <1>9, <1>10, <2>1, <3>1
    <3> QED BY <1>2, <1>8, <1>10, <2>4, <3>2
  <2> QED BY ONLY <2>1, <2>2, <2>3, <2>4
<1>12. Begun(b, put) = 1..(IF put = f THEN n ELSE n + 1)
  BY <1>10, <1>11 DEF Begun
<1>13. Completed(b, put) = 1..n
  BY <1>10, <1>11, <1>12 DEF Completed
<1> QED BY <1>12, <1>13 DEF n, f

\* The first bytes of b are done and r is not: p is done, and cut, which is a part of m.
Parts(b, done, r, p, m, q, cut, tail) ==
  /\ Falls(b, Len(done), p, m, q)
  /\ done = Cat(FlattenSeq(p), cut) /\ m = Cat(cut, tail) /\ r = Cat(tail, FlattenSeq(q))
  /\ Len(cut) < Len(m)

LEMMA HasParts ==
  ASSUME NEW b \in Seq(Messages), NEW done \in Seq(Bytes), NEW r \in Seq(Bytes),
         FlattenSeq(b) = Cat(done, r), r # <<>>
  PROVE  \E p \in Seq(Messages), m \in Messages, q \in Seq(Messages), cut \in Seq(Bytes), tail \in Seq(Bytes) :
           Parts(b, done, r, p, m, q, cut, tail)
<1>1. Len(done) \in Nat /\ Len(done) < Len(FlattenSeq(b))
  <2>1. Len(Cat(done, r)) = Len(done) + Len(r) /\ Len(done) \in Nat /\ Len(r) \in Nat
    BY CatIs
  <2>2. Len(r) # 0
    BY EmptySeq
  <2> QED BY ONLY <2>1, <2>2, FlattenSeq(b) = Cat(done, r)
<1>2. PICK p \in Seq(Messages), m \in Messages, q \in Seq(Messages) : Falls(b, Len(done), p, m, q)
  BY <1>1, FallsSomewhere
<1>3. PICK x \in Seq(Messages) : x = <<m>> /\ FlattenSeq(x) = m /\ m \in Seq(Bytes)
  BY FlattenOne
<1>4. PICK F \in Seq(Bytes), G \in Seq(Bytes), n \in Seq(Bytes) :
        F = FlattenSeq(p) /\ G = FlattenSeq(q) /\ n = m
  BY <1>3, FlattenCat
<1>5. Cat(x, q) \in Seq(Messages)
  BY CatType
<1>6. FlattenSeq(Cat(x, q)) = Cat(FlattenSeq(x), FlattenSeq(q))
  BY FlattenCat
<1>7. FlattenSeq(Cat(p, Cat(x, q))) = Cat(FlattenSeq(p), FlattenSeq(Cat(x, q)))
  BY <1>5, FlattenCat
<1>8. Cat(F, Cat(n, G)) = Cat(done, r)
  <2>1. b = Cat(p, Cat(x, q))
    BY <1>2, <1>3 DEF Falls
  <2> QED BY <1>3, <1>4, <1>6, <1>7, <2>1
<1>9. Len(F) <= Len(done) /\ Len(done) < Len(F) + Len(n) /\ Len(F) \in Nat /\ Len(n) \in Nat
  BY <1>2, <1>4, LenProperties DEF Falls
<1>10. Cat(n, G) \in Seq(Bytes)
  BY CatType
<1>11. PICK cut \in Seq(Bytes) : done = Cat(F, cut) /\ Cat(n, G) = Cat(cut, r)
  BY <1>8, <1>9, <1>10, CatSplit
<1>12. Len(cut) < Len(n)
  <2>1. Len(Cat(F, cut)) = Len(F) + Len(cut) /\ Len(cut) \in Nat
    BY CatIs
  <2> QED BY ONLY <1>9, <1>11, <2>1
<1>13. Len(cut) <= Len(n)
  BY <1>9, <1>12, LenProperties
<1>14. PICK tail \in Seq(Bytes) : n = Cat(cut, tail) /\ r = Cat(tail, G)
  BY <1>11, <1>13, CatSplit
<1>15. Parts(b, done, r, p, m, q, cut, tail)
  BY ONLY <1>2, <1>4, <1>11, <1>12, <1>14 DEF Parts
<1> QED BY <1>15

\* What of b counts as sent.
Sent(p, m, cut) == IF Len(cut) = 0 THEN p ELSE Cat(p, <<m>>)

CountsAs(s, old, b, put, p, cut) ==
  /\ Len(s) = IF Len(cut) = 0 THEN Len(p) ELSE Len(p) + 1
  /\ \E d \in Seq(Messages) : b = Cat(s, d)
  /\ Cardinality(Begun(b, put)) = Len(s)
  /\ Begun(b, put) # Completed(b, put) <=> Len(cut) # 0
  /\ SubSeq(Cat(old, b), 1, Len(old) + Len(s)) = Cat(old, s)

LEMMA SentIs ==
  ASSUME NEW old \in Seq(Messages), NEW b \in Seq(Messages), NEW done \in Seq(Bytes), NEW r \in Seq(Bytes),
         NEW p \in Seq(Messages), NEW m \in Messages, NEW q \in Seq(Messages),
         NEW cut \in Seq(Bytes), NEW tail \in Seq(Bytes), Parts(b, done, r, p, m, q, cut, tail)
  PROVE  Sent(p, m, cut) \in Seq(Messages) /\ CountsAs(Sent(p, m, cut), old, b, Len(done), p, cut)
<1> DEFINE s == Sent(p, m, cut)
<1>1. PICK x \in Seq(Messages) : x = <<m>> /\ Len(x) = 1
  BY One
<1>2. Cat(p, x) \in Seq(Messages) /\ Cat(x, q) \in Seq(Messages) /\ Cat(Cat(p, x), q) = Cat(p, Cat(x, q))
  BY CatAssoc, CatType
<1>3. b = Cat(p, Cat(x, q))
  BY <1>1 DEF Parts, Falls
<1>4. Len(Cat(p, x)) = Len(p) + Len(x) /\ Len(p) \in Nat /\ Len(cut) \in Nat
  BY CatIs, LenProperties
<1>5. s = IF Len(cut) = 0 THEN p ELSE Cat(p, x)
  BY <1>1 DEF Sent
<1> HIDE DEF s
<1>6. s \in Seq(Messages) /\ Len(s) = IF Len(cut) = 0 THEN Len(p) ELSE Len(p) + 1
  BY ONLY <1>1, <1>2, <1>4, <1>5, p \in Seq(Messages)
<1>7. PICK d \in Seq(Messages) : b = Cat(s, d)
  BY <1>2, <1>3, <1>5
<1>8. Len(done) = Len(FlattenSeq(p)) <=> Len(cut) = 0
  <2>1. FlattenSeq(p) \in Seq(Bytes)
    BY FlattenCat
  <2>2. Len(Cat(FlattenSeq(p), cut)) = Len(FlattenSeq(p)) + Len(cut) /\ Len(FlattenSeq(p)) \in Nat
    BY <2>1, CatIs
  <2>3. done = Cat(FlattenSeq(p), cut)
    BY DEF Parts
  <2> QED BY ONLY <1>4, <2>2, <2>3
<1>9. Begun(b, Len(done)) = 1..Len(s) /\ Completed(b, Len(done)) = 1..Len(p)
  <2>1. Len(done) \in Nat /\ Falls(b, Len(done), p, m, q)
    BY LenProperties DEF Parts
  <2>2. /\ Begun(b, Len(done)) = 1..(IF Len(done) = Len(FlattenSeq(p)) THEN Len(p) ELSE Len(p) + 1)
        /\ Completed(b, Len(done)) = 1..Len(p)
    BY <2>1, BegunIs
  <2> QED BY ONLY <1>6, <1>8, <2>2
<1>10. Cardinality(1..Len(s)) = Len(s) /\ Len(s) \in Nat
  <2>1. Len(s) \in Nat
    BY <1>4, <1>6
  <2>2. \A a, k \in Int : Cardinality(a..k) = IF a > k THEN 0 ELSE k - a + 1
    BY FS_Interval
  <2>3. PICK a \in Int, k \in Int : a = 1 /\ k = Len(s)
    BY <2>1
  <2>4. Cardinality(a..k) = IF a > k THEN 0 ELSE k - a + 1
    BY <2>2
  <2> QED BY <2>1, <2>3, <2>4
<1>11. 1..Len(s) # 1..Len(p) <=> Len(cut) # 0
  <2>1. Len(p) + 1 \in 1..(Len(p) + 1) /\ Len(p) + 1 \notin 1..Len(p)
    BY <1>4
  <2> QED BY ONLY <1>6, <2>1
<1>12. SubSeq(Cat(old, b), 1, Len(old) + Len(s)) = Cat(old, s)
  <2>1. Cat(old, b) = Cat(Cat(old, s), d) /\ Cat(old, s) \in Seq(Messages)
    BY <1>6, <1>7, CatAssoc
  <2>2. Len(Cat(old, s)) = Len(old) + Len(s)
    BY <1>6, CatIs
  <2>3. SubSeq(Cat(Cat(old, s), d), 1, Len(Cat(old, s))) = Cat(old, s)
    BY <2>1, FirstPart
  <2> QED BY <2>1, <2>2, <2>3
<1> QED BY <1>6, <1>7, <1>9, <1>10, <1>11, <1>12 DEF s, CountsAs

\* x is what was sent and not delivered, and cut comes behind it.
Between(old, p, d, u, cut, x) == Cat(old, p) = Cat(d, x) /\ u = Cat(FlattenSeq(x), cut)

\* With nothing cut off before: what was delivered is behind what was sent of the batch.
LEMMA CutInFlow ==
  ASSUME NEW old \in Seq(Messages), NEW b \in Seq(Messages), NEW done \in Seq(Bytes), NEW r \in Seq(Bytes),
         NEW p \in Seq(Messages), NEW m \in Messages, NEW q \in Seq(Messages),
         NEW cut \in Seq(Bytes), NEW tail \in Seq(Bytes), Parts(b, done, r, p, m, q, cut, tail),
         NEW d \in Seq(Messages), NEW ahead \in Seq(Messages), NEW u \in Seq(Bytes),
         Cat(old, b) = Cat(d, ahead), FlattenSeq(ahead) = Cat(u, r)
  PROVE  \E x \in Seq(Messages) : Between(old, p, d, u, cut, x)
<1>1. PICK y \in Seq(Messages) : y = <<m>> /\ FlattenSeq(y) = m /\ m \in Seq(Bytes) /\ Len(y) = 1 /\ y[1] = m
  BY FlattenOne, One
<1>2. Cat(y, q) \in Seq(Messages) /\ Cat(old, p) \in Seq(Messages)
  BY CatType
<1>3. Cat(Cat(old, p), Cat(y, q)) = Cat(d, ahead)
  <2>1. b = Cat(p, Cat(y, q))
    BY <1>1 DEF Parts, Falls
  <2>2. Cat(Cat(old, p), Cat(y, q)) = Cat(old, Cat(p, Cat(y, q)))
    BY <1>2, CatAssoc
  <2> QED BY <2>1, <2>2
<1>4. PICK G \in Seq(Bytes), n \in Seq(Bytes) : G = FlattenSeq(q) /\ n = m
  BY <1>1, FlattenCat
<1>5. FlattenSeq(Cat(y, q)) = Cat(n, G) /\ n = Cat(cut, tail) /\ r = Cat(tail, G) /\ Len(cut) < Len(n)
  BY <1>1, <1>4, FlattenCat DEF Parts
<1>6. Cat(n, G) = Cat(cut, r)
  BY <1>5, CatAssoc
<1>7. Len(d) <= Len(Cat(old, p))
  <2> SUFFICES ASSUME ~(Len(d) <= Len(Cat(old, p))) PROVE FALSE
    OBVIOUS
  <2>1. Len(Cat(old, p)) <= Len(d) /\ Len(Cat(old, p)) # Len(d)
    BY <1>2, LenProperties
  <2>2. PICK z \in Seq(Messages) : d = Cat(Cat(old, p), z) /\ Cat(y, q) = Cat(z, ahead)
    BY <1>2, <1>3, <2>1, CatSplit
  <2>3. Len(y) <= Len(z)
    <3>1. Len(Cat(Cat(old, p), z)) = Len(Cat(old, p)) + Len(z) /\ Len(z) \in Nat /\ Len(Cat(old, p)) \in Nat
      BY <1>2, CatIs
    <3> QED BY ONLY <1>1, <2>1, <2>2, <3>1
  <2>4. PICK v \in Seq(Messages) : z = Cat(y, v)
    BY <2>2, <2>3, CatSplit
  <2>5. PICK V \in Seq(Bytes), A \in Seq(Bytes), Z \in Seq(Bytes) :
          V = FlattenSeq(v) /\ A = FlattenSeq(ahead) /\ Z = FlattenSeq(z)
    BY FlattenCat
  <2>6. Z = Cat(n, V) /\ FlattenSeq(Cat(z, ahead)) = Cat(Z, A)
    <3>1. FlattenSeq(Cat(y, v)) = Cat(FlattenSeq(y), FlattenSeq(v))
      BY FlattenCat
    <3>2. FlattenSeq(Cat(z, ahead)) = Cat(FlattenSeq(z), FlattenSeq(ahead))
      BY FlattenCat
    <3> QED BY <1>1, <1>4, <2>4, <2>5, <3>1, <3>2
  <2>7. Cat(cut, r) = Cat(Z, A) /\ A = Cat(u, r)
    BY <1>5, <1>6, <2>2, <2>5, <2>6
  <2>8. /\ Len(Cat(cut, r)) = Len(cut) + Len(r) /\ Len(Cat(Z, A)) = Len(Z) + Len(A)
        /\ Len(Cat(n, V)) = Len(n) + Len(V) /\ Len(Cat(u, r)) = Len(u) + Len(r)
        /\ Len(cut) \in Nat /\ Len(r) \in Nat /\ Len(V) \in Nat /\ Len(n) \in Nat /\ Len(u) \in Nat
    BY CatIs
  <2> QED BY ONLY <1>5, <2>6, <2>7, <2>8
<1>8. PICK x \in Seq(Messages) : Cat(old, p) = Cat(d, x) /\ ahead = Cat(x, Cat(y, q))
  BY <1>2, <1>3, <1>7, CatSplit
<1>9. PICK X \in Seq(Bytes) : X = FlattenSeq(x) /\ FlattenSeq(ahead) = Cat(X, Cat(n, G))
  BY <1>2, <1>5, <1>8, FlattenCat
<1>10. Cat(u, r) = Cat(Cat(X, cut), r) /\ Cat(X, cut) \in Seq(Bytes)
  <2>1. Cat(Cat(X, cut), r) = Cat(X, Cat(cut, r)) /\ Cat(X, cut) \in Seq(Bytes)
    BY ONLY CatAssoc, X \in Seq(Bytes), cut \in Seq(Bytes), r \in Seq(Bytes)
  <2> QED BY <1>6, <1>9, <2>1
<1>11. u = Cat(X, cut)
  BY <1>10, CatCancel
<1> QED BY <1>8, <1>9, <1>11 DEF Between

Overlap(d, ahead, m, later, old, s, e) ==
  Cat(d, Cat(ahead, Cat(<<m>>, later))) = Cat(old, Cat(s, e)) /\ Len(d) + Len(ahead) + 1 <= Len(old)
Behind(old, s, d, ahead, m, x) == Cat(old, s) = Cat(d, Cat(ahead, Cat(<<m>>, x)))

\* With a message cut off before: the batch came behind it.
LEMMA CutBehind ==
  ASSUME NEW d \in Seq(Messages), NEW ahead \in Seq(Messages), NEW m \in Messages,
         NEW later \in Seq(Messages), NEW old \in Seq(Messages), NEW s \in Seq(Messages),
         NEW e \in Seq(Messages),
         Overlap(d, ahead, m, later, old, s, e)
  PROVE  \E x \in Seq(Messages) : Behind(old, s, d, ahead, m, x)
<1>1. PICK y \in Seq(Messages) : y = <<m>> /\ Len(y) = 1
  BY One
<1>2. Cat(ahead, y) \in Seq(Messages) /\ Cat(s, e) \in Seq(Messages)
  BY CatType
<1>3. PICK a \in Seq(Messages) : a = Cat(d, Cat(ahead, y))
  BY <1>2, CatType
<1>4. Len(a) <= Len(old)
  <2>1. Len(Cat(d, Cat(ahead, y))) = Len(d) + Len(Cat(ahead, y)) /\ Len(d) \in Nat
    BY <1>2, CatIs
  <2>2. Len(Cat(ahead, y)) = Len(ahead) + Len(y) /\ Len(ahead) \in Nat
    BY CatIs
  <2>3. Len(d) + Len(ahead) + 1 <= Len(old)
    BY DEF Overlap
  <2> QED BY ONLY <1>1, <1>3, <2>1, <2>2, <2>3
<1>5. ASSUME NEW z \in Seq(Messages) PROVE Cat(a, z) = Cat(d, Cat(ahead, Cat(<<m>>, z)))
  <2>1. Cat(Cat(d, Cat(ahead, y)), z) = Cat(d, Cat(Cat(ahead, y), z))
    BY <1>2, CatAssoc
  <2>2. Cat(Cat(ahead, y), z) = Cat(ahead, Cat(y, z))
    BY CatAssoc
  <2> QED BY <1>1, <1>3, <2>1, <2>2
<1>6. Cat(a, later) = Cat(old, Cat(s, e))
  BY <1>5 DEF Overlap
<1>7. PICK x \in Seq(Messages) : old = Cat(a, x)
  BY <1>2, <1>4, <1>6, CatSplit
<1>8. Cat(old, s) = Cat(a, Cat(x, s)) /\ Cat(x, s) \in Seq(Messages)
  BY <1>7, CatAssoc, CatType
<1>9. PICK z \in Seq(Messages) : z = Cat(x, s)
  BY <1>8
<1>10. Behind(old, s, d, ahead, m, z)
  BY <1>5, <1>8, <1>9 DEF Behind
<1> QED BY <1>10

LEMMA WriteFailsStep ==
  ASSUME IInv, NEW w \in Writers, WriteFails(w)
  PROVE  IInv'
<1>1. /\ TypeOK /\ LockInv /\ MineInv /\ ParserInv /\ FlowInv
      /\ mutex = w /\ rest # <<>> /\ mutex' = None /\ rest' = <<>> /\ Return(w, FALSE)
      /\ UNCHANGED <<deadline, sends, wire, link, parser, delivered>>
  BY DEF IInv, WriteFails, Unlock, reading
<1>2. /\ rest \in Seq(Bytes) /\ Unread \in Seq(Bytes)
      /\ order \in Seq(Messages) /\ delivered \in Seq(Messages) /\ torn \in Nat
  BY <1>1, Typing
<1>3. batch[w] \in Batches /\ pc[w] = "write"
  BY <1>1 DEF LockInv
<1>4. PICK b \in Batches : b = batch[w]
  BY <1>3
<1>5. b \in Seq(Messages)
  BY MessageTypes
<1>6. PICK r \in Seq(Bytes), u \in Seq(Bytes), d \in Seq(Messages), o \in Seq(Messages) :
        r = rest /\ u = Unread /\ d = delivered /\ o = order
  BY <1>2
<1>7. PICK old \in Seq(Messages), done \in Seq(Bytes) : Holds(old, done)
  BY <1>1, ControlAssumption DEF MineInv
<1>8. o = Cat(old, b) /\ torn <= Len(old) /\ FlattenSeq(b) = Cat(done, r)
  BY <1>1, <1>4, <1>6, <1>7 DEF Holds
<1>9. PICK p \in Seq(Messages), m \in Messages, q \in Seq(Messages), cut \in Seq(Bytes), tail \in Seq(Bytes) :
        Parts(b, done, r, p, m, q, cut, tail)
  BY <1>1, <1>5, <1>6, <1>8, HasParts
<1>10. PICK s \in Seq(Messages) : s = Sent(p, m, cut) /\ CountsAs(s, old, b, Len(done), p, cut)
  BY <1>5, <1>9, SentIs
<1>11. /\ Len(s) = IF Len(cut) = 0 THEN Len(p) ELSE Len(p) + 1
       /\ \E e \in Seq(Messages) : b = Cat(s, e)
       /\ Cardinality(Begun(b, Len(done))) = Len(s)
       /\ Begun(b, Len(done)) # Completed(b, Len(done)) <=> Len(cut) # 0
       /\ SubSeq(Cat(old, b), 1, Len(old) + Len(s)) = Cat(old, s)
  BY <1>10 DEF CountsAs
<1>12. Len(o) - Len(b) = Len(old) /\ Len(FlattenSeq(b)) - Len(r) = Len(done) /\ Len(old) \in Nat
  <2>1. Len(Cat(old, b)) = Len(old) + Len(b) /\ Len(old) \in Nat /\ Len(b) \in Nat
    BY <1>5, CatIs
  <2>2. Len(Cat(done, r)) = Len(done) + Len(r) /\ Len(done) \in Nat /\ Len(r) \in Nat
    BY CatIs
  <2> QED BY ONLY <1>8, <2>1, <2>2
<1>13. /\ order' = SubSeq(o, 1, Len(o) - Len(b) + Cardinality(Begun(b, Len(FlattenSeq(b)) - Len(r))))
       /\ torn' = IF torn = 0 /\ Begun(b, Len(FlattenSeq(b)) - Len(r)) # Completed(b, Len(FlattenSeq(b)) - Len(r))
                  THEN Len(o) - Len(b) + Cardinality(Begun(b, Len(FlattenSeq(b)) - Len(r)))
                  ELSE torn
  BY <1>4, <1>6 DEF WriteFails, Begun, Completed, BytesOf
<1>14. /\ order' = Cat(old, s)
       /\ torn' = IF torn = 0 /\ Len(cut) # 0 THEN Len(old) + Len(s) ELSE torn
  BY ONLY <1>8, <1>11, <1>12, <1>13
<1>15. Cat(old, s) \in Seq(Messages) /\ Len(Cat(old, s)) = Len(old) + Len(s) /\ Len(s) \in Nat
  BY CatIs
<1>16. /\ pc' \in [Writers -> {"idle", "lock", "write", "stopped"}]
       /\ batch' \in [Writers -> Batches \cup {<<>>}]
       /\ pc'[w] \in {"idle", "stopped"}
       /\ \A v \in Writers : v # w => pc'[v] = pc[v] /\ batch'[v] = batch[v]
  BY <1>1, ReturnKept
<1>17. TypeOK'
  <2>1. torn' \in 0..Len(order')
    <3>1. torn \in Nat /\ torn <= Len(old) /\ Len(old) \in Nat /\ Len(order') = Len(old) + Len(s) /\ Len(s) \in Nat
      BY ONLY <1>2, <1>8, <1>12, <1>14, <1>15
    <3>2. torn' = torn \/ torn' = Len(old) + Len(s)
      BY ONLY <1>14
    <3> QED BY ONLY <3>1, <3>2
  <2>2. order' \in Seq(Messages) /\ <<>> \in Seq(Bytes)
    BY <1>14, <1>15
  <2> QED BY <1>1, <1>16, <2>1, <2>2 DEF TypeOK
<1>18. LockInv' /\ MineInv'
  BY <1>1, <1>16, ControlAssumption DEF LockInv, MineInv
<1>19. ParserInv' /\ Unread' = u
  BY <1>1, <1>6 DEF ParserInv, Unread
<1>20. <<>> \in Seq(Bytes) /\ <<>> \in Seq(Messages)
  OBVIOUS
<1>21. CASE torn = 0
  <2>1. PICK ahead \in Seq(Messages) : o = Cat(d, ahead) /\ FlattenSeq(ahead) = Cat(u, r)
    BY <1>1, <1>6, <1>21 DEF FlowInv, Entire, AllThere
  <2>2. link # "rejected"
    BY <1>1, <1>21 DEF FlowInv, Entire
  <2>3. PICK x \in Seq(Messages) : Cat(old, p) = Cat(d, x) /\ u = Cat(FlattenSeq(x), cut)
    <3>1. Cat(old, b) = Cat(d, ahead) /\ FlattenSeq(ahead) = Cat(u, r)
      BY <1>8, <2>1
    <3>2. \E x \in Seq(Messages) : Between(old, p, d, u, cut, x)
      BY <1>5, <1>9, <3>1, CutInFlow
    <3> QED BY <3>2 DEF Between
  <2>4. FlattenSeq(x) \in Seq(Bytes)
    BY FlattenCat
  <2>5. CASE Len(cut) = 0
    <3>1. cut = <<>> /\ s = p
      BY <1>10, <2>5, EmptySeq DEF Sent
    <3>2. FlattenSeq(x) = Cat(u, <<>>)
      BY <2>3, <2>4, <3>1, CatNothing
    <3>3. AllThere(x)'
      BY <1>1, <1>6, <1>14, <1>19, <2>3, <3>1, <3>2 DEF AllThere
    <3>4. torn' = 0
      BY <1>14, <1>21, <2>5
    <3> QED BY <1>1, <2>2, <3>3, <3>4, <1>17, <1>18, <1>19 DEF IInv, FlowInv, Entire
  <2>6. CASE Len(cut) # 0
    <3>1. s = Cat(p, <<m>>) /\ Len(s) = Len(p) + 1
      BY <1>10, <1>11, <2>6 DEF Sent
    <3>2. PICK y \in Seq(Messages) : y = <<m>>
      BY One
    <3>3. order' = Cat(d, Cat(x, Cat(<<m>>, <<>>)))
      <4>1. Cat(Cat(old, p), y) = Cat(old, Cat(p, y)) /\ Cat(Cat(d, x), y) = Cat(d, Cat(x, y))
        BY CatAssoc
      <4>2. Cat(y, <<>>) = y
        BY CatNothing
      <4> QED BY ONLY <1>14, <2>3, <3>1, <3>2, <4>1, <4>2
    <3>4. torn' = Len(d) + Len(x) + 1
      <4>1. torn' = Len(old) + Len(s) /\ Len(s) = Len(p) + 1 /\ Cat(old, p) = Cat(d, x)
        BY ONLY <1>14, <1>21, <2>3, <2>6, <3>1
      <4>2. Len(old) + (Len(p) + 1) = Len(d) + Len(x) + 1
        BY <4>1, LongerByOne
      <4> QED BY ONLY <4>1, <4>2
    <3>5. Spoiled(x, m, cut, <<>>)'
      <4>1. Cat(cut, <<>>) = cut /\ Cat(<<>>, <<>>) = <<>>
        BY <1>20, CatNothing
      <4>2. Beginnings(<<>>)
        BY DEF Beginnings
      <4>3. InTwo(cut, m)
        <5>1. m = Cat(cut, tail) /\ Len(cut) < Len(m) /\ Len(cut) \in Nat
          BY <1>9, LenProperties DEF Parts
        <5>2. /\ Len(cut) \in Nat /\ Len(tail) \in Nat
              /\ \A i \in 1..(Len(cut) + Len(tail)) : Cat(cut, tail)[i] = IF i <= Len(cut) THEN cut[i] ELSE tail[i - Len(cut)]
          BY CatIs
        <5>3. Agree(cut, m, Len(cut))
          <6>1. ASSUME NEW i \in 1..Len(cut) PROVE cut[i] = Cat(cut, tail)[i]
            <7>1. i \in 1..(Len(cut) + Len(tail)) /\ i <= Len(cut)
              BY ONLY <5>2, i \in 1..Len(cut)
            <7> QED BY ONLY <5>2, <7>1
          <6> QED BY <5>1, <6>1 DEF Agree
        <5> QED BY <2>6, <5>1, <5>3 DEF InTwo
      <4>4. u = Cat(FlattenSeq(x), Cat(cut, <<>>))
        BY <2>3, <4>1
      <4> QED BY <1>1, <1>19, <4>1, <4>2, <4>3, <4>4 DEF Spoiled
    <3>6. CutOff(x, m, <<>>, cut, <<>>)'
      BY <1>1, <1>6, <3>3, <3>4, <3>5 DEF CutOff
    <3>7. torn' # 0
      BY <3>4, LenProperties
    <3>8. Damaged'
      BY <1>20, <3>6 DEF Damaged
    <3> QED BY <3>7, <3>8, <1>17, <1>18, <1>19 DEF IInv, FlowInv
  <2> QED BY <2>5, <2>6
<1>22. CASE torn # 0
  <2>1. PICK ahead \in Seq(Messages), later \in Seq(Messages), n \in Messages,
             half \in Seq(Bytes), g \in Seq(Bytes) : CutOff(ahead, n, later, half, g)
    BY <1>1, <1>22 DEF FlowInv, Damaged
  <2>2. PICK e \in Seq(Messages) : b = Cat(s, e)
    BY <1>11
  <2>3. Cat(d, Cat(ahead, Cat(<<n>>, later))) = Cat(old, Cat(s, e)) /\ Len(d) + Len(ahead) + 1 <= Len(old)
    BY <1>6, <1>8, <2>1, <2>2 DEF CutOff
  <2>4. PICK x \in Seq(Messages) : Cat(old, s) = Cat(d, Cat(ahead, Cat(<<n>>, x)))
    <3>1. Overlap(d, ahead, n, later, old, s, e)
      BY <2>3 DEF Overlap
    <3>2. \E x \in Seq(Messages) : Behind(old, s, d, ahead, n, x)
      BY <3>1, CutBehind
    <3> QED BY <3>2 DEF Behind
  <2>5. torn' = torn
    BY <1>14, <1>22
  <2>6. link' # "rejected" => Spoiled(ahead, n, half, g)'
    <3> SUFFICES ASSUME link # "rejected" PROVE Spoiled(ahead, n, half, g)'
      BY <1>1
    <3>1. Spoiled(ahead, n, half, g)
      BY <2>1 DEF CutOff
    <3>2. Beginnings(Cat(g, r))
      BY <1>6, <3>1 DEF Spoiled
    <3>3. Beginnings(Cat(g, <<>>))
      <4>1. Cat(g, <<>>) = g
        BY CatNothing
      <4> QED BY <3>2, <4>1, BeginningsFirst
    <3> QED BY <1>1, <1>6, <1>19, <3>1, <3>3 DEF Spoiled
  <2>7. CutOff(ahead, n, x, half, g)'
    BY <1>1, <1>6, <1>14, <2>1, <2>4, <2>5, <2>6 DEF CutOff
  <2>8. Damaged'
    BY <2>7 DEF Damaged
  <2> QED BY <1>22, <2>5, <2>8, <1>17, <1>18, <1>19 DEF IInv, FlowInv
<1> QED BY <1>21, <1>22

(***************************************************************************)
(* Reading.                                                                *)
(***************************************************************************)
States == [frame : Seq(Bytes), depth : Nat, quoted : BOOLEAN, escaped : BOOLEAN, size : Nat]

\* P are the variables of readMessage when it has f.
Reads(P, f) ==
  /\ P \in States /\ P.frame = f /\ P.size = Len(f) /\ P = Parse(f)[Len(f)]
  /\ \A i \in 1..Len(f) : Parse(f)[i].depth # 0

LEMMA StartReads == Reads(Start, <<>>) /\ Start.depth = 0
<1>1. <<>> \in Seq(Bytes) /\ Len(<<>>) = 0
  OBVIOUS
<1>2. Parses(Parse(<<>>), <<>>, Len(<<>>))
  BY <1>1, ParseValue
<1>3. Parse(<<>>)[0] = Start
  BY <1>1, <1>2 DEF Parses
<1>4. Start \in States /\ Start.frame = <<>> /\ Start.size = 0 /\ Start.depth = 0
  BY <1>1 DEF Start, States
<1> QED BY <1>1, <1>3, <1>4 DEF Reads

LEMMA NextByteIs ==
  ASSUME NEW P \in States, NEW b \in Bytes, P.depth # 0 \/ (P = Start /\ b = "{")
  PROVE  NextByte(P, b) \in States /\ NextByte(P, b).frame = Append(P.frame, b) /\ NextByte(P, b).size = P.size + 1
<1>1. PICK f \in Seq(Bytes), d \in Nat, x \in BOOLEAN, y \in BOOLEAN, n \in Nat :
        P = [frame |-> f, depth |-> d, quoted |-> x, escaped |-> y, size |-> n]
  BY DEF States
<1>2. Append(f, b) \in Seq(Bytes)
  BY AppendProperties
<1>3. PICK g \in Seq(Bytes) : g = Append(f, b)
  BY <1>2
<1>4. d # 0 \/ b = "{"
  BY <1>1
<1>5. CASE x = TRUE
  <2>1. NextByte(P, b) = [frame |-> g, depth |-> d, quoted |-> (y \/ b # "quote"),
                          escaped |-> (~y /\ b = "backslash"), size |-> n + 1]
    BY <1>1, <1>3, <1>4, <1>5 DEF NextByte
  <2>2. (y \/ b # "quote") \in BOOLEAN /\ (~y /\ b = "backslash") \in BOOLEAN
    BY ONLY TRUE, Zenon
  <2>3. n + 1 \in Nat
    BY ONLY n \in Nat
  <2> PICK u \in BOOLEAN, v \in BOOLEAN : u = (y \/ b # "quote") /\ v = (~y /\ b = "backslash")
    BY <2>2, Zenon
  <2>4. NextByte(P, b) = [frame |-> g, depth |-> d, quoted |-> u, escaped |-> v, size |-> n + 1]
    BY <2>1
  <2>5. NextByte(P, b) \in States
    BY ONLY <2>3, <2>4, g \in Seq(Bytes), d \in Nat, u \in BOOLEAN, v \in BOOLEAN DEF States
  <2> QED BY ONLY <1>1, <1>3, <2>4, <2>5
<1>6. CASE x = FALSE
  <2>1. PICK k \in Nat : k = IF b = "{" THEN d + 1 ELSE IF b = "}" THEN d - 1 ELSE d
    <3>1. d + 1 \in Nat /\ (d # 0 => d - 1 \in Nat)
      BY ONLY d \in Nat
    <3>2. CASE b = "{"
      BY <3>1, <3>2
    <3>3. CASE b # "{" /\ b = "}"
      BY ONLY <1>4, <3>1, <3>3
    <3>4. CASE b # "{" /\ b # "}"
      BY ONLY d \in Nat, <3>4
    <3> QED BY ONLY <3>2, <3>3, <3>4
  <2>2. NextByte(P, b) = [frame |-> g, depth |-> k, quoted |-> (b = "quote"), escaped |-> y, size |-> n + 1]
    BY <1>1, <1>3, <1>4, <1>6, <2>1 DEF NextByte
  <2>3. (b = "quote") \in BOOLEAN
    BY ONLY TRUE, Zenon
  <2>4. n + 1 \in Nat
    BY ONLY n \in Nat
  <2> PICK u \in BOOLEAN : u = (b = "quote")
    BY <2>3, Zenon
  <2>5. NextByte(P, b) = [frame |-> g, depth |-> k, quoted |-> u, escaped |-> y, size |-> n + 1]
    BY <2>2
  <2>6. NextByte(P, b) \in States
    BY ONLY <2>4, <2>5, g \in Seq(Bytes), k \in Nat, u \in BOOLEAN, y \in BOOLEAN DEF States
  <2> QED BY ONLY <1>1, <1>3, <2>5, <2>6
<1> QED BY <1>5, <1>6

\* The byte b is one of an object, and with it the reader has e.
Follows(e, f, b) == e = Append(f, b) /\ (f # <<>> \/ b = "{")

\* The loop goes on with the next byte.
LEMMA NextReads ==
  ASSUME NEW P, NEW f \in Seq(Bytes), NEW b \in Bytes, NEW e, Reads(P, f), Follows(e, f, b)
  PROVE  /\ e \in Seq(Bytes) /\ Len(e) = Len(f) + 1 /\ Len(f) \in Nat
         /\ NextByte(P, b) = Parse(e)[Len(e)] /\ NextByte(P, b).frame = e
         /\ NextByte(P, b).depth # 0 => Reads(NextByte(P, b), e)
<1>1. /\ e \in Seq(Bytes) /\ Len(e) = Len(f) + 1 /\ Len(f) \in Nat /\ e[Len(f) + 1] = b
      /\ \A i \in 1..Len(f) : e[i] = f[i]
  <2>1. Len(f) \in Nat
    BY LenProperties
  <2>2. /\ Append(f, b) \in Seq(Bytes) /\ Len(Append(f, b)) = Len(f) + 1
        /\ \A i \in 1..Len(f) : Append(f, b)[i] = f[i]
        /\ Append(f, b)[Len(f) + 1] = b
    BY ONLY f \in Seq(Bytes), b \in Bytes, AppendProperties
  <2>3. e = Append(f, b)
    BY DEF Follows
  <2> QED BY ONLY <2>1, <2>2, <2>3
<1>0. PICK k \in Nat : k = Len(f)
  BY <1>1
<1>2. Agree(e, f, k)
  BY <1>0, <1>1 DEF Agree
<1>3. Agree(Parse(e), Parse(f), k) /\ Parse(e)[k] = Parse(f)[k]
  <2>1. k <= Len(e) /\ k <= Len(f)
    BY ONLY <1>0, <1>1
  <2> QED BY <1>1, <1>2, <2>1, ParseAgree
<1>4. Parse(e)[k + 1] = NextByte(Parse(e)[k], e[k + 1])
  <2>1. Parses(Parse(e), e, Len(e))
    BY <1>1, ParseValue
  <2>2. k + 1 \in 0..Len(e) /\ k + 1 # 0 /\ (k + 1) - 1 = k
    BY ONLY <1>0, <1>1, k \in Nat
  <2> QED BY <2>1, <2>2 DEF Parses
<1>5. NextByte(P, b) = Parse(e)[k + 1]
  BY <1>0, <1>1, <1>3, <1>4 DEF Reads
<1>6. P.depth # 0 \/ (P = Start /\ b = "{")
  <2>1. CASE f # <<>>
    <3>1. k \in 1..Len(f)
      <4>1. Len(f) # 0
        BY <2>1, EmptySeq
      <4> QED BY ONLY <1>0, <4>1, k \in Nat
    <3> QED BY <1>0, <3>1 DEF Reads
  <2>2. CASE f = <<>>
    <3>1. Len(<<>>) = 0
      OBVIOUS
    <3>2. Reads(P, <<>>) /\ Reads(Start, <<>>)
      BY <2>2, StartReads
    <3>3. P = Start
      BY <3>2 DEF Reads
    <3> QED BY <2>2, <3>3 DEF Follows
  <2> QED BY <2>1, <2>2
<1>7. P \in States /\ P.frame = f /\ P.size = Len(f)
  BY DEF Reads
<1>8. NextByte(P, b) \in States /\ NextByte(P, b).frame = e /\ NextByte(P, b).size = Len(e)
  BY <1>1, <1>6, <1>7, NextByteIs DEF Follows
<1>9. ASSUME NextByte(P, b).depth # 0, NEW i \in 1..Len(e) PROVE Parse(e)[i].depth # 0
  <2>1. CASE i = k + 1
    BY <1>5, <1>9, <2>1
  <2>2. CASE i # k + 1
    <3>1. i \in 1..k
      BY ONLY <1>0, <1>1, <2>2, k \in Nat, i \in 1..Len(e)
    <3> QED BY <1>0, <1>3, <3>1 DEF Agree, Reads
  <2> QED BY <2>1, <2>2
<1>10. NextByte(P, b).depth # 0 => Reads(NextByte(P, b), e)
  BY <1>0, <1>1, <1>5, <1>8, <1>9 DEF Reads
<1> QED BY <1>0, <1>1, <1>5, <1>8, <1>10

\* A part of a message is parsed like the message.
LEMMA PartOfMessage ==
  ASSUME NEW m \in Messages, NEW e \in Seq(Bytes), Len(e) \in 1..Len(m), Agree(e, m, Len(e))
  PROVE  e[1] = "{" /\ (Parse(e)[Len(e)].depth = 0 <=> Len(e) = Len(m))
<1>1. /\ m \in Seq(Bytes) /\ Len(m) \in Nat \ {0}
      /\ \A i \in 1..Len(m) : Parse(m)[i].depth = 0 <=> i = Len(m)
  BY MessageShape
<1>a. m[1] = "{"
  BY MessageShape
<1>2. PICK k \in Nat : k = Len(e)
  BY LenProperties
<1>3. k \in 1..Len(m) /\ k <= Len(e) /\ k <= Len(m) /\ Agree(e, m, k)
  <2>1. k \in 1..Len(m) /\ Agree(e, m, k)
    BY <1>2
  <2>2. Len(m) \in Nat
    BY <1>1
  <2>3. k <= Len(m)
    BY ONLY <2>1, <2>2, k \in Nat
  <2>4. k <= Len(e)
    BY ONLY <1>2, k \in Nat
  <2> QED BY ONLY <2>1, <2>3, <2>4
<1>4. Parse(e)[k] = Parse(m)[k]
  BY ONLY <1>1, <1>3, ParseAgree, e \in Seq(Bytes), k \in Nat
<1>5. e[1] = m[1]
  <2>1. 1 \in 1..k
    BY ONLY <1>1, <1>3, k \in Nat
  <2> QED BY <1>3, <2>1 DEF Agree
<1>6. Parse(m)[k].depth = 0 <=> k = Len(m)
  BY <1>1, <1>3
<1> QED BY ONLY <1>a, <1>2, <1>4, <1>5, <1>6

\* The reader has not got past the end of a message.
LEMMA FrameShort ==
  ASSUME NEW P, NEW f \in Seq(Bytes), Reads(P, f), NEW m \in Messages, Len(m) <= Len(f), Agree(f, m, Len(m))
  PROVE  FALSE
<1>1. /\ m \in Seq(Bytes) /\ Len(m) \in Nat \ {0}
      /\ \A i \in 1..Len(m) : Parse(m)[i].depth = 0 <=> i = Len(m)
  BY MessageShape
<1>2. PICK k \in Nat : k = Len(m)
  BY <1>1
<1>3. k <= Len(f) /\ k <= Len(m) /\ k \in 1..Len(m) /\ Len(f) \in Nat /\ Agree(f, m, k)
  BY <1>1, <1>2, LenProperties
<1>4. Parse(f)[k] = Parse(m)[k]
  BY <1>1, <1>3, ParseAgree
<1>5. Parse(m)[k].depth = 0
  BY <1>1, <1>2, <1>3
<1>6. k \in 1..Len(f)
  BY ONLY <1>3, k \in Nat
<1> QED BY <1>4, <1>5, <1>6 DEF Reads

\* What begins with a message: the next byte is one of it.
Within(f, one, z, m, G) ==
  /\ Len(f) + 1 <= Len(m) /\ Agree(Cat(f, one), m, Len(f) + 1)
  /\ Len(f) + 1 = Len(m) => Cat(f, one) = m /\ z = G

LEMMA NextMessage ==
  ASSUME NEW P, NEW f \in Seq(Bytes), Reads(P, f), NEW one \in Seq(Bytes), Len(one) = 1,
         NEW z \in Seq(Bytes), NEW m \in Messages, NEW G \in Seq(Bytes), Cat(f, Cat(one, z)) = Cat(m, G)
  PROVE  Within(f, one, z, m, G)
<1>1. m \in Seq(Bytes)
  BY MessageShape
<1>2. PICK n \in Seq(Bytes) : n = m
  BY <1>1
<1>3. PICK e \in Seq(Bytes) : e = Cat(f, one)
  BY CatType
<1>4. Len(e) = Len(f) + 1 /\ Len(f) \in Nat /\ Len(n) \in Nat /\ Len(e) \in Nat
  <2>1. Len(Cat(f, one)) = Len(f) + Len(one) /\ Len(f) \in Nat
    BY CatIs
  <2>2. Len(n) \in Nat /\ Len(e) \in Nat
    BY LenProperties
  <2> QED BY ONLY <1>3, <2>1, <2>2, Len(one) = 1
<1>5. Cat(one, z) \in Seq(Bytes) /\ Cat(f, Cat(one, z)) = Cat(n, G)
  BY <1>2, CatType
<1>6. Len(f) < Len(n)
  <2> SUFFICES ASSUME Len(n) <= Len(f) PROVE FALSE
    BY <1>4
  <2>1. Cat(n, G) = Cat(f, Cat(one, z))
    BY <1>5
  <2>2. PICK x \in Seq(Bytes) : f = Cat(n, x)
    BY <1>5, <2>1, CatSplit
  <2>3. Agree(f, n, Len(n))
    <3>1. /\ Len(n) \in Nat /\ Len(x) \in Nat
          /\ \A i \in 1..(Len(n) + Len(x)) : Cat(n, x)[i] = IF i <= Len(n) THEN n[i] ELSE x[i - Len(n)]
      BY CatIs
    <3>2. ASSUME NEW i \in 1..Len(n) PROVE f[i] = n[i]
      <4>1. i \in 1..(Len(n) + Len(x)) /\ i <= Len(n)
        BY ONLY <3>1, i \in 1..Len(n)
      <4> QED BY ONLY <2>2, <3>1, <4>1
    <3> QED BY <3>2 DEF Agree
  <2> QED BY <1>2, <2>3, FrameShort
<1>7. Cat(e, z) = Cat(n, G)
  <2>1. Cat(Cat(f, one), z) = Cat(f, Cat(one, z))
    BY ONLY CatAssoc, f \in Seq(Bytes), one \in Seq(Bytes), z \in Seq(Bytes)
  <2> QED BY <1>3, <1>5, <2>1
<1>8. Len(e) <= Len(n)
  BY ONLY <1>4, <1>6
<1>9. PICK x \in Seq(Bytes) : n = Cat(e, x) /\ z = Cat(x, G)
  BY <1>7, <1>8, CatSplit
<1>10. Agree(e, n, Len(e))
  <2>1. /\ Len(e) \in Nat /\ Len(x) \in Nat
        /\ \A i \in 1..(Len(e) + Len(x)) : Cat(e, x)[i] = IF i <= Len(e) THEN e[i] ELSE x[i - Len(e)]
    BY CatIs
  <2>2. ASSUME NEW i \in 1..Len(e) PROVE e[i] = n[i]
    <3>1. i \in 1..(Len(e) + Len(x)) /\ i <= Len(e)
      BY ONLY <2>1, i \in 1..Len(e)
    <3> QED BY ONLY <1>9, <2>1, <3>1
  <2> QED BY <2>2 DEF Agree
<1>11. ASSUME Len(e) = Len(n) PROVE e = n /\ z = G
  <2>1. Len(Cat(e, x)) = Len(e) + Len(x) /\ Len(x) \in Nat
    BY CatIs
  <2>2. Len(x) = 0
    BY ONLY <1>4, <1>9, <1>11, <2>1
  <2>3. x = <<>>
    BY <2>2, EmptySeq
  <2> QED BY <1>9, <2>3, CatNothing
<1> QED BY <1>2, <1>3, <1>4, <1>8, <1>10, <1>11 DEF Within

\* A sequence that agrees with the beginning of another is its beginning.
LEMMA PrefixBytewise ==
  ASSUME NEW s \in Seq(Bytes), NEW t \in Seq(Bytes),
         Len(s) <= Len(t), \A i \in 1..Len(s) : s[i] = t[i]
  PROVE  IsPrefix(s, t)
<1>1. PICK n \in Nat : n = Len(s)
  BY LenProperties
<1>2. Len(t) \in Nat /\ \A i \in 1..Len(s) : s[i] \in Bytes
  BY ONLY s \in Seq(Bytes), t \in Seq(Bytes), LenProperties, ElementOfSeq
<1>3. \A i \in 1..Len(t) : t[i] \in Bytes
  BY ONLY t \in Seq(Bytes), ElementOfSeq
<1>4. \A i \in 1..n : s[i] \in Bytes /\ t[i] \in Bytes /\ s[i] = t[i]
  BY ONLY <1>1, <1>2, <1>3, n \in Nat, Len(s) <= Len(t), \A i \in 1..Len(s) : s[i] = t[i]
<1>5. PICK one \in Int : one = 1
  OBVIOUS
<1>6. /\ SubSeq(s, one, n) \in Seq(Bytes) /\ Len(SubSeq(s, one, n)) = n
      /\ \A i \in 1..n : SubSeq(s, one, n)[i] = s[i]
  <2>1. \A i \in one..n : s[i] \in Bytes
    BY ONLY <1>4, <1>5
  <2>2. /\ SubSeq(s, one, n) \in Seq(Bytes)
        /\ Len(SubSeq(s, one, n)) = IF one <= n THEN n - one + 1 ELSE 0
        /\ \A i \in 1..(n - one + 1) : SubSeq(s, one, n)[i] = s[one + i - 1]
    BY ONLY <2>1, n \in Nat, one \in Int, SubSeqProperties
  <2> QED BY ONLY <1>5, <2>2, n \in Nat
<1>7. /\ SubSeq(t, one, n) \in Seq(Bytes) /\ Len(SubSeq(t, one, n)) = n
      /\ \A i \in 1..n : SubSeq(t, one, n)[i] = t[i]
  <2>1. \A i \in one..n : t[i] \in Bytes
    BY ONLY <1>4, <1>5
  <2>2. /\ SubSeq(t, one, n) \in Seq(Bytes)
        /\ Len(SubSeq(t, one, n)) = IF one <= n THEN n - one + 1 ELSE 0
        /\ \A i \in 1..(n - one + 1) : SubSeq(t, one, n)[i] = t[one + i - 1]
    BY ONLY <2>1, n \in Nat, one \in Int, SubSeqProperties
  <2> QED BY ONLY <1>5, <2>2, n \in Nat
<1>8. SubSeq(s, one, n) = SubSeq(t, one, n)
  <2>1. \A i \in 1..Len(SubSeq(s, one, n)) : SubSeq(s, one, n)[i] = SubSeq(t, one, n)[i]
    BY ONLY <1>4, <1>6, <1>7
  <2> QED BY ONLY <1>6, <1>7, <2>1, SeqEqual
<1> QED BY ONLY <1>1, <1>5, <1>8, Len(s) <= Len(t) DEF IsPrefix

\* Nothing that begins with a message that was cut off, and goes on, is a message.
LEMMA BeyondCut ==
  ASSUME NEW e \in Messages, NEW cut \in Seq(Bytes), NEW x \in Seq(Bytes), NEW t \in Seq(Bytes),
         e = Cat(cut, x), Len(cut) >= 1, Len(x) >= 1, Beginnings(Cat(x, t))
  PROVE  FALSE
<1>1. Beginnings(x)
  BY BeginningsFirst
<1>2. /\ Len(cut) \in Nat /\ Len(x) \in Nat /\ Len(e) = Len(cut) + Len(x) /\ e \in Seq(Bytes)
      /\ \A i \in 1..(Len(cut) + Len(x)) : e[i] = IF i <= Len(cut) THEN cut[i] ELSE x[i - Len(cut)]
  BY CatIs
<1>3. PICK c \in Nat, n \in Nat : c = Len(cut) /\ n = Len(x) /\ c >= 1 /\ n >= 1
  BY <1>2
<1>4. n \in 1..Len(x)
  BY ONLY <1>3, n \in Nat
<1>5. PICK a \in 1..n, m \in Messages : n - a + 1 <= Len(m) /\ \A k \in a..n : x[k] = m[k - a + 1]
  BY <1>1, <1>4 DEF Beginnings
<1>6. m \in Seq(Bytes) /\ Len(m) \in Nat
  BY MessageShape
<1> DEFINE s == SubSeq(e, c + a, Len(e))
<1>7. c + a \in 2..Len(e) /\ c + a \in Nat /\ Len(e) = c + n
  BY ONLY <1>2, <1>3, n \in Nat, c \in Nat, a \in 1..n
<1>8. s \in Seq(Bytes) /\ Len(s) = n - a + 1 /\ \A i \in 1..(n - a + 1) : s[i] = e[c + a + i - 1]
  BY ONLY <1>2, <1>3, <1>7, n \in Nat, c \in Nat, a \in 1..n, SubSeqProperties
<1> HIDE DEF s
<1>9. ASSUME NEW i \in 1..(n - a + 1) PROVE s[i] = m[i]
  <2>1. /\ c + a + i - 1 \in 1..(c + n) /\ ~(c + a + i - 1 <= c) /\ (c + a + i - 1) - c = a + i - 1
        /\ a + i - 1 \in a..n /\ (a + i - 1) - a + 1 = i
    BY ONLY n \in Nat, c \in Nat, a \in 1..n, i \in 1..(n - a + 1)
  <2>2. e[c + a + i - 1] = x[a + i - 1]
    BY ONLY <1>2, <1>3, <2>1
  <2>3. x[a + i - 1] = m[i]
    BY ONLY <1>5, <2>1
  <2> QED BY ONLY <1>8, <2>2, <2>3, i \in 1..(n - a + 1)
<1>10. IsPrefix(s, m)
  <2>1. Len(s) <= Len(m) /\ Len(s) \in Nat
    BY ONLY <1>5, <1>8, n \in Nat, a \in 1..n
  <2>2. \A i \in 1..Len(s) : s[i] = m[i]
    BY ONLY <1>8, <1>9
  <2> QED BY ONLY <1>6, <1>8, <2>1, <2>2, PrefixBytewise
<1> QED BY <1>7, <1>10, MessagesAssumption DEF s

\* e is f and h, and the beginning of m.
Continues(e, f, h, m) == e = Append(f, h) /\ Len(f) + 1 <= Len(m) /\ Agree(e, m, Len(f) + 1)

LEMMA ByteWithin ==
  ASSUME NEW P, NEW f \in Seq(Bytes), Reads(P, f), NEW h \in Bytes, NEW e \in Seq(Bytes),
         NEW m \in Messages, Continues(e, f, h, m)
  PROVE  /\ Follows(e, f, h)
         /\ NextByte(P, h).depth = 0 <=> Len(f) + 1 = Len(m)
         /\ NextByte(P, h).depth # 0 => Len(e) < Limit
<1>0. e = Append(f, h) /\ Len(f) + 1 <= Len(m) /\ Agree(e, m, Len(f) + 1)
  BY DEF Continues
<1>1. Len(e) = Len(f) + 1 /\ Len(f) \in Nat /\ e[Len(f) + 1] = h
  <2>1. Len(f) \in Nat
    BY LenProperties
  <2>2. Len(Append(f, h)) = Len(f) + 1 /\ Append(f, h)[Len(f) + 1] = h
    BY ONLY f \in Seq(Bytes), h \in Bytes, AppendProperties
  <2> QED BY ONLY <1>0, <2>1, <2>2
<1>2. Len(m) \in Nat /\ Len(m) <= Limit
  BY MessageShape
<1>3. Len(e) \in 1..Len(m) /\ Agree(e, m, Len(e))
  BY ONLY <1>0, <1>1, <1>2
<1>4. e[1] = "{" /\ (Parse(e)[Len(e)].depth = 0 <=> Len(e) = Len(m))
  BY <1>3, PartOfMessage
<1>5. Follows(e, f, h)
  <2>1. f = <<>> => Len(f) = 0
    OBVIOUS
  <2>2. Len(f) = 0 => e[1] = h
    BY ONLY <1>1
  <2> QED BY ONLY <1>0, <1>4, <2>1, <2>2 DEF Follows
<1>6. NextByte(P, h) = Parse(e)[Len(e)]
  BY <1>5, NextReads
<1>7. Len(e) # Len(m) => Len(e) < Limit
  BY ONLY <1>1, <1>2, <1>3, ControlAssumption
<1> QED BY ONLY <1>1, <1>4, <1>5, <1>6, <1>7

First(ahead, n, tl, G) ==
  ahead = Cat(<<n>>, tl) /\ G = FlattenSeq(tl) /\ FlattenSeq(ahead) = Cat(n, G) /\ Len(ahead) = Len(tl) + 1

LEMMA HasFirst ==
  ASSUME NEW ahead \in Seq(Messages), ahead # <<>>
  PROVE  \E n \in Messages, tl \in Seq(Messages), G \in Seq(Bytes) : First(ahead, n, tl, G)
<1>1. PICK n \in Messages : n = Head(ahead)
  BY HeadTailProperties
<1>2. PICK tl \in Seq(Messages) : tl = Tail(ahead)
  BY HeadTailProperties
<1>3. PICK x \in Seq(Messages) : x = <<n>> /\ FlattenSeq(x) = n /\ Len(x) = 1
  BY FlattenOne, One
<1>4. ahead = Cat(x, tl)
  BY <1>1, <1>2, <1>3, FirstOf
<1>5. FlattenSeq(tl) \in Seq(Bytes) /\ FlattenSeq(Cat(x, tl)) = Cat(FlattenSeq(x), FlattenSeq(tl))
  BY FlattenCat
<1>6. PICK G \in Seq(Bytes) : G = FlattenSeq(tl)
  BY <1>5
<1>7. Len(Cat(x, tl)) = Len(x) + Len(tl) /\ Len(tl) \in Nat
  BY CatIs
<1>8. Len(ahead) = Len(tl) + 1
  BY ONLY <1>3, <1>4, <1>7
<1>9. First(ahead, n, tl, G)
  BY ONLY <1>3, <1>4, <1>5, <1>6, <1>8 DEF First
<1> QED BY <1>9

\* The first message goes over from those ahead to those delivered.
LEMMA Delivering ==
  ASSUME NEW d \in Seq(Messages), NEW n \in Messages, NEW tl \in Seq(Messages), NEW x \in Seq(Messages)
  PROVE  /\ Append(d, n) \in Seq(Messages) /\ Len(Append(d, n)) = Len(d) + 1
         /\ Cat(d, Cat(Cat(<<n>>, tl), x)) = Cat(Append(d, n), Cat(tl, x))
         /\ Cat(d, Cat(<<n>>, tl)) = Cat(Append(d, n), tl)
<1>1. PICK y \in Seq(Messages) : y = <<n>>
  BY One
<1>2. Append(d, n) = Cat(d, y) /\ Append(d, n) \in Seq(Messages) /\ Len(Append(d, n)) = Len(d) + 1
  BY <1>1 DEF Cat
<1>3. Cat(tl, x) \in Seq(Messages)
  BY CatType
<1>4. Cat(Cat(d, y), Cat(tl, x)) = Cat(d, Cat(y, Cat(tl, x)))
  BY <1>3, CatAssoc
<1>5. Cat(Cat(y, tl), x) = Cat(y, Cat(tl, x)) /\ Cat(Cat(d, y), tl) = Cat(d, Cat(y, tl))
  BY CatAssoc
<1> QED BY ONLY <1>1, <1>2, <1>4, <1>5

\* What Read does with the byte h of the wire, for the parser P.
Taken(P, h) ==
  parser' = NextByte(P, h) /\ UNCHANGED <<link, delivered>>
Given(P, h) ==
  parser' = Start /\ delivered' = Append(delivered, NextByte(P, h).frame) /\ UNCHANGED link
Refused == parser' = Start /\ link' = "rejected" /\ UNCHANGED delivered

LEMMA ReadIs ==
  ASSUME NEW P, P = parser, Read, NEW h, h = Head(wire), NEW e, NextByte(P, h).frame = e, e # <<>>
  PROVE  IF NextByte(P, h).depth = 0
         THEN IF e \in Messages THEN Given(P, h) ELSE Refused
         ELSE IF NextByte(P, h).size < Limit THEN Taken(P, h) ELSE Refused
BY DEF Read, Unmarshals, Given, Taken, Refused

LEMMA ReadKeeps ==
  ASSUME IInv, Read, NEW Q, NEW x \in Seq(Bytes), parser' = Q, Reads(Q, x), Len(x) < Limit,
         NEW t \in Seq(Bytes), wire' = t, NEW v \in Seq(Bytes), wire = v, Len(t) <= Len(v),
         delivered' \in Seq(Messages), link' \in {link, "rejected"}, FlowInv'
  PROVE  IInv'
<1>1. /\ TypeOK /\ LockInv /\ MineInv
      /\ UNCHANGED <<pc, batch, mutex, rest, deadline, sends, order, torn>>
  BY DEF IInv, Read, writing
<1>2. parser' \in [frame : Seq(Bytes), depth : Nat, quoted : BOOLEAN, escaped : BOOLEAN, size : 0..(Limit - 1)]
  <2>1. Q.size \in 0..(Limit - 1)
    <3>1. Q.size = Len(x) /\ Len(x) \in Nat
      BY LenProperties DEF Reads
    <3> QED BY <3>1, ControlAssumption
  <2>2. Q \in States
    BY DEF Reads
  <2>3. Q \in [frame : Seq(Bytes), depth : Nat, quoted : BOOLEAN, escaped : BOOLEAN, size : 0..(Limit - 1)]
    BY ONLY <2>1, <2>2 DEF States
  <2> QED BY <2>3
<1>3. ParserInv'
  <2>1. Q.frame = x
    BY DEF Reads
  <2> QED BY <2>1 DEF ParserInv, Reads
<1>4. TypeOK'
  <2>1. wire' \in Seq(Bytes) /\ Len(wire') <= Capacity
    <3>1. Len(v) <= Capacity
      BY <1>1 DEF TypeOK
    <3>2. Len(t) \in Nat /\ Len(v) \in Nat
      BY LenProperties
    <3>3. Len(t) <= Capacity
      BY ONLY <3>1, <3>2, Len(t) <= Len(v), ControlAssumption
    <3> QED BY <3>3
  <2>2. link' \in {"open", "lost", "rejected"}
    BY <1>1 DEF TypeOK
  <2> QED BY <1>1, <1>2, <2>1, <2>2 DEF TypeOK
<1>5. LockInv' /\ MineInv'
  BY <1>1 DEF LockInv, MineInv, Holds
<1> QED BY <1>3, <1>4, <1>5 DEF IInv

LEMMA LimitPositive == <<>> \in Seq(Bytes) /\ Len(<<>>) = 0 /\ Len(<<>>) < Limit
<1>1. Len(<<>>) = 0 /\ <<>> \in Seq(Bytes)
  OBVIOUS
<1>2. 0 < Limit
  BY ControlAssumption
<1> QED BY ONLY <1>1, <1>2

LEMMA ReadStep ==
  ASSUME IInv, Read
  PROVE  IInv'
<1>1. /\ TypeOK /\ ParserInv /\ FlowInv
      /\ wire # <<>> /\ link # "rejected" /\ wire' = Tail(wire)
      /\ UNCHANGED <<rest, order, torn>>
  BY DEF IInv, Read, writing
<1>2. /\ rest \in Seq(Bytes) /\ wire \in Seq(Bytes) /\ parser.frame \in Seq(Bytes)
      /\ Unread \in Seq(Bytes)
      /\ order \in Seq(Messages) /\ delivered \in Seq(Messages) /\ torn \in Nat
  BY <1>1, Typing
<1>3. PICK v \in Seq(Bytes), f \in Seq(Bytes), r \in Seq(Bytes), d \in Seq(Messages), o \in Seq(Messages) :
        v = wire /\ f = parser.frame /\ r = rest /\ d = delivered /\ o = order
  BY <1>2
<1>4. v # <<>> /\ wire' = Tail(v) /\ Unread = Cat(f, v)
  BY <1>1, <1>3 DEF Unread
<1>5. PICK P \in States : P = parser /\ Reads(P, f)
  <2>1. parser \in States
    BY <1>1, ControlAssumption DEF TypeOK, States
  <2>2. Reads(parser, f)
    BY <1>1, <1>3, <2>1 DEF ParserInv, Reads
  <2> QED BY <2>1, <2>2
<1>6. PICK one \in Seq(Bytes), t \in Seq(Bytes) : Moves(v, f, one, t)
  BY <1>4, FirstMoves
<1>7. PICK h \in Bytes : h = Head(v)
  BY <1>4, HeadTailProperties
<1>8. Append(f, h) = Cat(f, one) /\ wire' = t /\ v = Cat(one, t) /\ Len(one) = 1
  BY <1>4, <1>6, <1>7 DEF Moves
<1>9. PICK e \in Seq(Bytes) : e = Cat(f, one) /\ e = Append(f, h)
  BY <1>8, CatType
<1>10. Len(t) <= Len(v) /\ Len(e) = Len(f) + 1 /\ Len(f) \in Nat /\ e # <<>>
  <2>1. Len(Cat(one, t)) = Len(one) + Len(t) /\ Len(t) \in Nat /\ Len(Cat(f, one)) = Len(f) + Len(one) /\ Len(f) \in Nat
    BY CatIs
  <2>2. Len(e) # 0 => e # <<>>
    BY EmptySeq
  <2> QED BY ONLY <1>8, <1>9, <2>1, <2>2
<1>11. Unread = Cat(e, t)
  <2>1. Cat(Cat(f, one), t) = Cat(f, Cat(one, t))
    BY ONLY CatAssoc, f \in Seq(Bytes), one \in Seq(Bytes), t \in Seq(Bytes)
  <2> QED BY ONLY <1>4, <1>8, <1>9, <2>1
<1>12. ASSUME Follows(e, f, h)
       PROVE  /\ NextByte(P, h).frame = e
              /\ NextByte(P, h).depth # 0 => Reads(NextByte(P, h), e)
              /\ IF NextByte(P, h).depth = 0
                 THEN IF e \in Messages THEN Given(P, h) ELSE Refused
                 ELSE IF NextByte(P, h).size < Limit THEN Taken(P, h) ELSE Refused
  <2>1. NextByte(P, h).frame = e /\ (NextByte(P, h).depth # 0 => Reads(NextByte(P, h), e))
    BY <1>5, <1>12, NextReads
  <2>2. h = Head(wire)
    BY <1>3, <1>7
  <2>3. IF NextByte(P, h).depth = 0
        THEN IF e \in Messages THEN Given(P, h) ELSE Refused
        ELSE IF NextByte(P, h).size < Limit THEN Taken(P, h) ELSE Refused
    BY <1>5, <1>10, <2>1, <2>2, ReadIs
  <2> QED BY <2>1, <2>3
\* The byte is taken.
<1>13. ASSUME Taken(P, h), NextByte(P, h).frame = e, Reads(NextByte(P, h), e), Len(e) < Limit
       PROVE  IInv'
  <2>1. parser' = NextByte(P, h) /\ parser'.frame = e /\ UNCHANGED <<link, delivered>>
    BY <1>13 DEF Taken
  <2>2. Unread' = Unread
    BY <1>8, <1>11, <2>1 DEF Unread
  <2>3. FlowInv'
    <3>1. CASE torn = 0
      <4>1. PICK ahead \in Seq(Messages) : AllThere(ahead)
        BY <1>1, <3>1 DEF FlowInv, Entire
      <4>2. AllThere(ahead)'
        BY <1>1, <2>1, <2>2, <4>1 DEF AllThere
      <4> QED BY <1>1, <2>1, <3>1, <4>2 DEF FlowInv, Entire
    <3>2. CASE torn # 0
      <4>1. PICK ahead \in Seq(Messages), later \in Seq(Messages), m \in Messages,
                 cut \in Seq(Bytes), g \in Seq(Bytes) : CutOff(ahead, m, later, cut, g)
        BY <1>1, <3>2 DEF FlowInv, Damaged
      <4>2. Spoiled(ahead, m, cut, g)
        BY <1>1, <4>1 DEF CutOff
      <4>3. Spoiled(ahead, m, cut, g)'
        BY <1>1, <2>2, <4>2 DEF Spoiled
      <4>4. CutOff(ahead, m, later, cut, g)'
        BY <1>1, <2>1, <4>1, <4>3 DEF CutOff
      <4> QED BY <1>1, <3>2, <4>4 DEF FlowInv, Damaged
    <3> QED BY <3>1, <3>2
  <2>4. delivered' \in Seq(Messages) /\ link' \in {link, "rejected"}
    BY <1>2, <2>1
  <2>5. PICK Q : Q = NextByte(P, h)
    OBVIOUS
  <2>6. parser' = Q /\ Reads(Q, e) /\ wire' = t /\ wire = v
    BY <1>3, <1>8, <1>13, <2>1, <2>5
  <2> QED BY <1>10, <1>13, <2>3, <2>4, <2>6, ReadKeeps
\* The byte is the last of a message.
<1>14. ASSUME Given(P, h), NextByte(P, h).frame = e, e \in Messages, FlowInv' PROVE IInv'
  <2>1. parser' = Start /\ delivered' = Append(d, e) /\ UNCHANGED link
    BY <1>3, <1>14 DEF Given
  <2>2. delivered' \in Seq(Messages) /\ link' \in {link, "rejected"}
    BY <1>14, <2>1, Delivering
  <2>3. Reads(Start, <<>>) /\ wire' = t /\ wire = v
    BY <1>3, <1>8, StartReads
  <2> QED BY <1>10, <1>14, <2>1, <2>2, <2>3, LimitPositive, ReadKeeps
\* In the middle of a message, or at its end.
<1>15. ASSUME NEW n \in Messages, NEW z \in Seq(Bytes), NEW G \in Seq(Bytes), Within(f, one, z, n, G),
              e = n /\ z = G /\ parser' = Start /\ delivered' = Append(d, n) /\ link' = link => FlowInv'
       PROVE  IInv'
  <2>1. Len(f) + 1 <= Len(n) /\ Agree(e, n, Len(f) + 1) /\ (Len(f) + 1 = Len(n) => e = n /\ z = G)
    BY <1>9, <1>15 DEF Within
  <2>2. /\ Follows(e, f, h)
        /\ NextByte(P, h).depth = 0 <=> Len(f) + 1 = Len(n)
        /\ NextByte(P, h).depth # 0 => Len(e) < Limit
    <3>1. Continues(e, f, h, n)
      BY ONLY <1>9, <2>1 DEF Continues
    <3> QED BY <1>5, <3>1, ByteWithin
  <2>3. CASE NextByte(P, h).depth = 0
    <3>1. e = n /\ z = G
      BY ONLY <2>1, <2>2, <2>3
    <3>2. Given(P, h) /\ NextByte(P, h).frame = e
      BY <1>12, <2>2, <2>3, <3>1
    <3>3. parser' = Start /\ delivered' = Append(d, n) /\ link' = link
      BY <1>3, <3>1, <3>2 DEF Given
    <3> QED BY <1>14, <1>15, <3>1, <3>2, <3>3
  <2>4. CASE NextByte(P, h).depth # 0
    <3>1. NextByte(P, h).frame = e /\ Reads(NextByte(P, h), e) /\ Len(e) < Limit
      BY <1>12, <2>2, <2>4
    <3>2. NextByte(P, h).size = Len(e)
      BY <3>1 DEF Reads
    <3>3. Taken(P, h)
      BY <1>12, <2>2, <2>4, <3>1, <3>2
    <3> QED BY <1>13, <3>1, <3>3
  <2> QED BY <2>3, <2>4
<1>16. Unread' = Cat(parser'.frame, t) /\ Start.frame = <<>> /\ Cat(<<>>, t) = t
  BY <1>8, CatNothing DEF Unread, Start
<1>17. CASE torn = 0
  <2>1. PICK ahead \in Seq(Messages) : o = Cat(d, ahead) /\ FlattenSeq(ahead) = Cat(Cat(f, v), r)
    BY <1>1, <1>3, <1>4, <1>17 DEF FlowInv, Entire, AllThere
  <2>2. PICK z \in Seq(Bytes) : z = Cat(t, r)
    BY CatType
  <2>3. FlattenSeq(ahead) = Cat(f, Cat(one, z))
    <3>1. Cat(Cat(f, v), r) = Cat(f, Cat(v, r))
      BY ONLY CatAssoc, f \in Seq(Bytes), v \in Seq(Bytes), r \in Seq(Bytes)
    <3>2. Cat(Cat(one, t), r) = Cat(one, Cat(t, r))
      BY ONLY CatAssoc, one \in Seq(Bytes), t \in Seq(Bytes), r \in Seq(Bytes)
    <3> QED BY ONLY <1>8, <2>1, <2>2, <3>1, <3>2
  <2>4. ahead # <<>>
    <3>1. Len(Cat(one, z)) = Len(one) + Len(z) /\ Len(z) \in Nat /\ Cat(one, z) \in Seq(Bytes)
      BY CatIs
    <3>2. Len(Cat(f, Cat(one, z))) = Len(f) + Len(Cat(one, z))
      BY <3>1, CatIs
    <3>3. Len(<<>>) = 0
      OBVIOUS
    <3> QED BY ONLY <1>8, <1>10, <2>3, <3>1, <3>2, <3>3, FlattenEmpty
  <2>5. PICK n \in Messages, tl \in Seq(Messages), G \in Seq(Bytes) : First(ahead, n, tl, G)
    BY <2>4, HasFirst
  <2>6. Cat(f, Cat(one, z)) = Cat(n, G)
    BY ONLY <2>3, <2>5 DEF First
  <2>7. Within(f, one, z, n, G)
    BY <1>5, <1>8, <2>6, NextMessage
  <2>8. ASSUME e = n, z = G, parser' = Start, delivered' = Append(d, n), link' = link PROVE FlowInv'
    <3>1. Cat(d, Cat(<<n>>, tl)) = Cat(Append(d, n), tl)
      BY Delivering
    <3>2. Unread' = t
      BY ONLY <1>16, <2>8
    <3>3. order' = Cat(delivered', tl)
      BY <1>1, <1>3, <2>1, <2>5, <2>8, <3>1 DEF First
    <3>4. FlattenSeq(tl) = Cat(t, r)
      BY ONLY <2>2, <2>5, <2>8 DEF First
    <3>5. AllThere(tl)'
      BY <1>1, <1>3, <3>2, <3>3, <3>4 DEF AllThere
    <3> QED BY <1>1, <1>17, <2>8, <3>5 DEF FlowInv, Entire
  <2> QED BY <1>15, <2>7, <2>8
<1>18. CASE torn # 0
  <2>1. PICK ahead \in Seq(Messages), later \in Seq(Messages), m \in Messages,
             cut \in Seq(Bytes), g \in Seq(Bytes) : CutOff(ahead, m, later, cut, g)
    BY <1>1, <1>18 DEF FlowInv, Damaged
  <2>2. Spoiled(ahead, m, cut, g)
    BY <1>1, <2>1 DEF CutOff
  <2>3. PICK C \in Seq(Bytes) : C = Cat(cut, g)
    BY CatType
  <2>4. Cat(e, t) = Cat(FlattenSeq(ahead), C) /\ Beginnings(Cat(g, r)) /\ InTwo(cut, m)
    BY <1>3, <1>11, <2>2, <2>3 DEF Spoiled
  <2>5. CASE ahead # <<>>
    <3>1. PICK n \in Messages, tl \in Seq(Messages), G \in Seq(Bytes) : First(ahead, n, tl, G)
      BY <2>5, HasFirst
    <3>2. PICK H \in Seq(Bytes) : H = Cat(G, C)
      BY CatType
    <3>3. Cat(f, Cat(one, t)) = Cat(n, H)
      <4>1. n \in Seq(Bytes)
        BY MessageShape
      <4>2. Cat(Cat(n, G), C) = Cat(n, Cat(G, C))
        BY <4>1, CatAssoc
      <4>3. Cat(Cat(f, one), t) = Cat(f, Cat(one, t))
        BY ONLY CatAssoc, f \in Seq(Bytes), one \in Seq(Bytes), t \in Seq(Bytes)
      <4>4. FlattenSeq(ahead) = Cat(n, G)
        BY ONLY <3>1 DEF First
      <4> QED BY ONLY <1>9, <2>4, <3>2, <4>2, <4>3, <4>4
    <3>4. Within(f, one, t, n, H)
      BY <1>5, <1>8, <3>3, NextMessage
    <3>5. ASSUME e = n, t = H, parser' = Start, delivered' = Append(d, n), link' = link PROVE FlowInv'
      <4>1. <<m>> \in Seq(Messages)
        BY One
      <4>2. PICK x \in Seq(Messages) : x = Cat(<<m>>, later)
        BY <4>1, CatType
      <4>3. /\ Append(d, n) \in Seq(Messages) /\ Len(Append(d, n)) = Len(d) + 1
            /\ Cat(d, Cat(Cat(<<n>>, tl), x)) = Cat(Append(d, n), Cat(tl, x))
        BY Delivering
      <4>4. o = Cat(d, Cat(ahead, x)) /\ torn = Len(d) + Len(ahead) + 1
        BY <1>3, <2>1, <4>2 DEF CutOff
      <4>5. ahead = Cat(<<n>>, tl) /\ Len(ahead) = Len(tl) + 1 /\ G = FlattenSeq(tl)
        BY ONLY <3>1 DEF First
      <4>6. order' = Cat(delivered', Cat(tl, Cat(<<m>>, later)))
        BY ONLY <1>1, <1>3, <3>5, <4>2, <4>3, <4>4, <4>5
      <4>7. torn' = Len(delivered') + Len(tl) + 1
        <5>1. Len(d) \in Nat /\ Len(tl) \in Nat
          BY LenProperties
        <5>2. torn = Len(d) + (Len(tl) + 1) + 1
          BY ONLY <4>4, <4>5
        <5>3. PICK i \in Nat, j \in Nat : i = Len(d) /\ j = Len(tl)
          BY <5>1
        <5>4. i + (j + 1) + 1 = (i + 1) + j + 1
          BY ONLY i \in Nat, j \in Nat
        <5> QED BY ONLY <1>1, <3>5, <4>3, <5>2, <5>3, <5>4
      <4>8. Unread' = t
        BY ONLY <1>16, <3>5
      <4>9. Spoiled(tl, m, cut, g)'
        <5>1. t = Cat(FlattenSeq(tl), Cat(cut, g))
          BY ONLY <2>3, <3>2, <3>5, <4>5
        <5>2. rest' = r
          BY <1>1, <1>3
        <5> QED BY ONLY <2>4, <4>8, <5>1, <5>2 DEF Spoiled
      <4>10. CutOff(tl, m, later, cut, g)'
        BY ONLY <4>6, <4>7, <4>9 DEF CutOff
      <4> QED BY <1>1, <1>18, <4>10 DEF FlowInv, Damaged
    <3> QED BY <1>15, <3>4, <3>5
  <2>6. CASE ahead = <<>>
    <3>1. Cat(e, t) = Cat(cut, g)
      BY <2>3, <2>4, <2>6, FlattenEmpty, CatNothing
    <3>2. Len(cut) >= 1 /\ Len(cut) < Len(m) /\ Agree(cut, m, Len(cut)) /\ Len(cut) \in Nat /\ Len(m) \in Nat /\ Len(e) \in Nat
      BY <2>4, MessageShape, LenProperties DEF InTwo
    <3>3. CASE Len(e) <= Len(cut)
      <4>1. PICK x \in Seq(Bytes) : cut = Cat(e, x)
        BY <3>1, <3>3, CatSplit
      <4>2. Agree(e, m, Len(e))
        <5>1. /\ Len(e) \in Nat /\ Len(x) \in Nat
              /\ \A i \in 1..(Len(e) + Len(x)) : Cat(e, x)[i] = IF i <= Len(e) THEN e[i] ELSE x[i - Len(e)]
          BY CatIs
        <5>2. ASSUME NEW i \in 1..Len(e) PROVE e[i] = m[i]
          <6>1. i \in 1..(Len(e) + Len(x)) /\ i <= Len(e) /\ i \in 1..Len(cut)
            BY ONLY <3>2, <3>3, <5>1, i \in 1..Len(e)
          <6>2. cut[i] = m[i]
            BY ONLY <3>2, <6>1 DEF Agree
          <6> QED BY ONLY <4>1, <5>1, <6>1, <6>2
        <5> QED BY <5>2 DEF Agree
      <4>3. Within(f, one, t, m, <<>>)
        BY ONLY <1>9, <1>10, <3>2, <3>3, <4>2 DEF Within
      <4>4. e # m
        BY <3>2, <3>3
      <4>5. <<>> \in Seq(Bytes)
        OBVIOUS
      <4> QED BY <1>15, <4>3, <4>4, <4>5
    <3>4. CASE ~(Len(e) <= Len(cut))
      <4>1. Len(cut) <= Len(e)
        BY ONLY <3>2, <3>4
      <4>2. Cat(cut, g) = Cat(e, t)
        BY <3>1
      <4>3. PICK x \in Seq(Bytes) : e = Cat(cut, x) /\ g = Cat(x, t)
        BY <4>1, <4>2, CatSplit
      <4>4. Len(x) >= 1
        <5>1. Len(Cat(cut, x)) = Len(cut) + Len(x) /\ Len(x) \in Nat
          BY CatIs
        <5> QED BY ONLY <3>2, <3>4, <4>3, <5>1
      <4>5. Follows(e, f, h)
        <5>1. f = <<>> => Len(f) = 0
          OBVIOUS
        <5>2. Len(f) # 0
          BY ONLY <1>10, <3>2, <3>4
        <5> QED BY <1>9, <5>1, <5>2 DEF Follows
      <4>6. e \notin Messages
        <5>1. Cat(Cat(x, t), r) = Cat(x, Cat(t, r)) /\ Cat(t, r) \in Seq(Bytes)
          BY ONLY CatAssoc, x \in Seq(Bytes), t \in Seq(Bytes), r \in Seq(Bytes)
        <5>2. PICK z \in Seq(Bytes) : z = Cat(t, r)
          BY <5>1
        <5>3. Beginnings(Cat(x, z))
          BY ONLY <2>4, <4>3, <5>1, <5>2
        <5> QED BY <3>2, <4>3, <4>4, <5>3, BeyondCut
      <4>7. CASE Refused
        <5>1. parser' = Start /\ link' = "rejected" /\ delivered' = delivered
          BY <4>7 DEF Refused
        <5>2. CutOff(ahead, m, later, cut, g)'
          BY <1>1, <2>1, <5>1 DEF CutOff
        <5>3. FlowInv'
          BY <1>1, <1>18, <5>2 DEF FlowInv, Damaged
        <5>4. Reads(Start, <<>>) /\ wire' = t /\ wire = v
          BY <1>3, <1>8, StartReads
        <5>5. delivered' \in Seq(Messages) /\ link' \in {link, "rejected"}
          BY <1>2, <5>1
        <5> QED BY <1>10, <5>1, <5>3, <5>4, <5>5, LimitPositive, ReadKeeps
      <4>8. CASE NextByte(P, h).depth # 0 /\ NextByte(P, h).size < Limit /\ Taken(P, h)
        <5>1. NextByte(P, h).frame = e /\ Reads(NextByte(P, h), e)
          BY <1>12, <4>5, <4>8
        <5>2. Len(e) < Limit
          BY <4>8, <5>1 DEF Reads
        <5> QED BY <1>13, <4>8, <5>1, <5>2
      <4> QED BY <1>12, <4>5, <4>6, <4>7, <4>8
    <3> QED BY <3>3, <3>4
  <2> QED BY <2>5, <2>6
<1> QED BY <1>17, <1>18

(***************************************************************************)
(* The theorems.                                                           *)
(***************************************************************************)
LEMMA StepIInv == IInv /\ [Next]_vars => IInv'
<1> SUFFICES ASSUME IInv, [Next]_vars PROVE IInv'
  OBVIOUS
<1>1. ASSUME NEW w \in Writers, Writing(w) PROVE IInv'
  BY <1>1, LockStep, WriteStep, WrittenStep, WriteFailsStep DEF Writing
<1>2. ASSUME NEW w \in Writers, NEW b \in Batches, Send(w, b) PROVE IInv'
  BY <1>2, SendStep
<1>3. CASE QueueUp \/ Expire \/ Lose \/ UNCHANGED vars
  BY <1>3, QuietSteps
<1>4. CASE Read
  BY <1>4, ReadStep
<1> QED BY <1>1, <1>2, <1>3, <1>4 DEF Next

\* The inductive invariant holds: the mutex belongs to one writer, whose bytes are the last
\* on the wire, the reader is in the middle of one object, and what is on its way is whole
\* messages, or whole messages and what came after one that was cut off.
THEOREM ControlInvariant == Spec => []IInv
<1>1. Init => IInv
  BY InitIInv
<1>2. IInv /\ [Next]_vars => IInv'
  BY StepIInv
<1> QED BY <1>1, <1>2, PTL DEF Spec

\* The variables of sendRawBytes, controlConn and readMessage stay in their types: among
\* them, the reader never holds an object of maxMessageSize or more, and its depth never
\* goes below zero.
THEOREM ControlTypes == Spec => []TypeOK
<1>1. IInv => TypeOK
  BY DEF IInv
<1> QED BY <1>1, ControlInvariant, PTL

LEMMA SecondPart ==
  ASSUME NEW S, NEW a \in Seq(S), NEW b \in Seq(S)
  PROVE  SubSeq(Cat(a, b), Len(a) + 1, Len(Cat(a, b))) = b
<1> DEFINE s == Cat(a, b)
<1>1. /\ s \in Seq(S) /\ Len(s) = Len(a) + Len(b) /\ Len(a) \in Nat /\ Len(b) \in Nat
      /\ \A i \in 1..(Len(a) + Len(b)) : s[i] = IF i <= Len(a) THEN a[i] ELSE b[i - Len(a)]
  BY CatIs
<1> HIDE DEF s
<1>2. PICK n \in Nat, m \in Nat : n = Len(a) /\ m = Len(b)
  BY <1>1
<1>3. \A i \in (n + 1)..(n + m) : s[i] \in S
  BY <1>1, <1>2, ElementOfSeq
<1>4. /\ SubSeq(s, n + 1, n + m) \in Seq(S)
      /\ Len(SubSeq(s, n + 1, n + m)) = m
      /\ \A i \in 1..m : SubSeq(s, n + 1, n + m)[i] = s[n + i]
  BY ONLY <1>3, n \in Nat, m \in Nat, SubSeqProperties
<1>5. ASSUME NEW i \in 1..m PROVE SubSeq(s, n + 1, n + m)[i] = b[i]
  <2>1. n + i \in 1..(n + m) /\ ~(n + i <= n) /\ (n + i) - n = i
    BY ONLY i \in 1..m, n \in Nat, m \in Nat
  <2>2. s[n + i] = b[i]
    BY ONLY <1>1, <1>2, <2>1
  <2> QED BY ONLY <1>4, <2>2, i \in 1..m
<1>6. SubSeq(s, n + 1, n + m) = b
  BY <1>2, <1>4, <1>5, SeqEqual
<1> QED BY <1>1, <1>2, <1>6 DEF s

\* Messages are delivered in the order in which their writers got the connection, none
\* twice and none left out, and none after one that was cut off, whatever the writers send,
\* when the network breaks and where a deadline cuts a write off.
THEOREM ArrivesInOrder == Spec => []Ordered
<1>1. IInv => Ordered
  <2> SUFFICES ASSUME IInv PROVE Ordered
    OBVIOUS
  <2>1. TypeOK /\ FlowInv
    BY DEF IInv
  <2>2. order \in Seq(Messages) /\ delivered \in Seq(Messages) /\ torn \in Nat
    BY <2>1, Typing
  <2>3. PICK d \in Seq(Messages), o \in Seq(Messages) : d = delivered /\ o = order
    BY <2>2
  <2>4. \E x \in Seq(Messages) : o = Cat(d, x) /\ (torn # 0 => Len(d) < torn)
    <3>1. CASE torn = 0
      BY <2>1, <2>3, <3>1 DEF FlowInv, Entire, AllThere
    <3>2. CASE torn # 0
      <4>1. PICK ahead \in Seq(Messages), later \in Seq(Messages), m \in Messages,
                 cut \in Seq(Bytes), g \in Seq(Bytes) : CutOff(ahead, m, later, cut, g)
        BY <2>1, <3>2 DEF FlowInv, Damaged
      <4>2. <<m>> \in Seq(Messages)
        BY One
      <4>3. Cat(<<m>>, later) \in Seq(Messages)
        BY <4>2, CatType
      <4>4. PICK x \in Seq(Messages) : x = Cat(ahead, Cat(<<m>>, later))
        BY <4>3, CatType
      <4>5. o = Cat(d, x) /\ torn = Len(d) + Len(ahead) + 1
        BY <2>3, <4>1, <4>4 DEF CutOff
      <4>6. Len(d) \in Nat /\ Len(ahead) \in Nat
        BY LenProperties
      <4>7. Len(d) < torn
        BY ONLY <4>5, <4>6
      <4> QED BY <4>5, <4>7
    <3> QED BY <3>1, <3>2
  <2>5. PICK x \in Seq(Messages) : o = Cat(d, x) /\ (torn # 0 => Len(d) < torn)
    BY <2>4
  <2>6. SubSeq(Cat(d, x), 1, Len(d)) = d /\ SubSeq(d, 1, Len(d)) = d
    BY FirstPart, SubSeqFull
  <2>7. Len(Cat(d, x)) = Len(d) + Len(x) /\ Len(d) \in Nat /\ Len(x) \in Nat
    BY CatIs
  <2>8. Len(d) <= Len(o)
    BY ONLY <2>5, <2>7
  <2>9. IsPrefix(d, o)
    BY ONLY <2>5, <2>6, <2>8 DEF IsPrefix
  <2> QED BY ONLY <2>3, <2>5, <2>9 DEF Ordered
<1> QED BY <1>1, ControlInvariant, PTL

\* Without a write that was cut off the reader does not give up, and what was sent and not
\* delivered is, byte for byte, what it holds, what is on the wire and what is being
\* written.
THEOREM NothingLost == Spec => []Whole
<1>1. IInv => Whole
  <2> SUFFICES ASSUME IInv, torn = 0
               PROVE  link # "rejected" /\ FlattenSeq(Undelivered) = parser.frame \o wire \o rest
    BY DEF Whole
  <2>1. TypeOK /\ FlowInv
    BY DEF IInv
  <2>2. delivered \in Seq(Messages)
    BY <2>1, Typing
  <2>3. link # "rejected" /\ \E ahead \in Seq(Messages) : AllThere(ahead)
    BY <2>1 DEF FlowInv, Entire
  <2>4. PICK ahead \in Seq(Messages) : AllThere(ahead)
    BY <2>3
  <2>5. PICK d \in Seq(Messages) : d = delivered
    BY <2>2
  <2>6. order = Cat(d, ahead) /\ FlattenSeq(ahead) = parser.frame \o wire \o rest
    BY <2>4, <2>5 DEF AllThere, Unread, Cat
  <2>7. SubSeq(Cat(d, ahead), Len(d) + 1, Len(Cat(d, ahead))) = ahead
    BY SecondPart
  <2>8. Undelivered = ahead
    BY ONLY <2>5, <2>6, <2>7 DEF Undelivered
  <2> QED BY ONLY <2>3, <2>6, <2>8
<1> QED BY <1>1, ControlInvariant, PTL
=============================================================================

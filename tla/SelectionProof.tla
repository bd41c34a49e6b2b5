-------------------------- MODULE SelectionProof --------------------------
(***************************************************************************)
(* Induction over the naturals and over sequences, for a set; lemmas about *)
(* sequences; what Selection computes.                                     *)
(***************************************************************************)
EXTENDS Selection, FunctionTheorems, SequenceTheorems, TLAPS

\* A set that holds 0, and n + 1 with n, holds every natural number.  If it
\* did not hold n, moving the numbers outside it down by one would put
\* 0..n into 0 .. n - 1 without a collision.
LEMMA Induction ==
    ASSUME NEW S, 0 \in S, \A n \in Nat : n \in S => n + 1 \in S
    PROVE  \A n \in Nat : n \in S
<1> SUFFICES ASSUME NEW n \in Nat, n \notin S PROVE FALSE
  OBVIOUS
<1>1. n # 0
  OBVIOUS
<1> DEFINE f == [i \in 1 .. n + 1 |-> IF i - 1 \in S THEN i ELSE i - 1]
<1>2. ASSUME NEW i \in 1 .. n + 1, i - 1 \notin S
      PROVE  /\ i - 1 \in 1..n
             /\ i - 2 \in Nat /\ i - 2 \notin S
  <2>1. i - 1 # 0
    BY <1>2
  <2>2. i - 2 \in Nat /\ (i - 2) + 1 = i - 1
    BY <2>1
  <2> QED
    BY <1>2, <2>1, <2>2
<1>3. ASSUME NEW i \in 1 .. n + 1, i - 1 \in S
      PROVE  i \in 1..n
  <2>1. i # n + 1
    BY <1>3
  <2> QED
    BY <2>1
<1>4. f \in [1 .. n + 1 -> 1..n]
  BY <1>2, <1>3
<1>5. ASSUME NEW i \in 1 .. n + 1, NEW j \in 1 .. n + 1, f[i] = f[j]
      PROVE  i = j
  <2>1. CASE i - 1 \in S <=> j - 1 \in S
    BY <1>5, <2>1
  <2>2. CASE i - 1 \in S /\ j - 1 \notin S
    <3>1. i = j - 1
      BY <1>5, <2>2
    <3>2. j - 2 \notin S
      BY <1>2, <2>2
    <3> QED
      BY <2>2, <3>1, <3>2
  <2>3. CASE i - 1 \notin S /\ j - 1 \in S
    <3>1. j = i - 1
      BY <1>5, <2>3
    <3>2. i - 2 \notin S
      BY <1>2, <2>3
    <3> QED
      BY <2>3, <3>1, <3>2
  <2> QED
    BY <2>1, <2>2, <2>3
<1> HIDE DEF f
<1>6. f \in Injection(1 .. n + 1, 1..n)
  BY <1>4, <1>5, Fun_IsInj, Zenon
<1>7. ExistsInjection(1 .. n + 1, 1..n)
  BY <1>6, Fun_ExistsInj, Zenon
<1>8. n + 1 <= n
  BY <1>7, Fun_NatInjLeq
<1> QED
  BY <1>8

\* A set that holds the empty sequence, and with a sequence each one that
\* is an element longer, holds every sequence.
LEMMA SeqInduction ==
    ASSUME NEW T, NEW S, <<>> \in S,
           \A s \in Seq(T), e \in T : s \in S => Append(s, e) \in S
    PROVE  \A s \in Seq(T) : s \in S
<1> DEFINE L == {n \in Nat : \A s \in Seq(T) : Len(s) = n => s \in S}
<1>1. 0 \in L
  <2>1. \A s \in Seq(T) : Len(s) = 0 => s = <<>>
    OBVIOUS
  <2> QED
    BY <2>1
<1>2. ASSUME NEW n \in Nat, n \in L
      PROVE  n + 1 \in L
  <2> SUFFICES ASSUME NEW s \in Seq(T), Len(s) = n + 1 PROVE s \in S
    OBVIOUS
  <2>1. s # <<>>
    BY EmptySeq
  <2>2. PICK r \in Seq(T), e \in T : s = Append(r, e)
    BY <2>1, SequenceEmptyOrAppend, Zenon
  <2>3. Len(r) = n
    BY <2>2
  <2>4. r \in S
    BY <1>2, <2>3
  <2> QED
    BY <2>2, <2>4
<1> HIDE DEF L
<1>3. \A n \in Nat : n \in L
  BY <1>1, <1>2, Induction, Zenon
<1> QED
  BY <1>3 DEF L
----------------------------------------------------------------------------
(* Sequences: one element more at the end of a part *)

LEMMA SubSeqAppend ==
    ASSUME NEW T, NEW s \in Seq(T), NEW b \in T, NEW i \in 1 .. Len(s) + 1
    PROVE  /\ SubSeq(Append(s, b), i, Len(s) + 1) = Append(SubSeq(s, i, Len(s)), b)
           /\ SubSeq(Append(s, b), 1, i - 1) = SubSeq(s, 1, i - 1)
<1> DEFINE a == Append(s, b)
<1>1. a \in Seq(T) /\ Len(a) = Len(s) + 1 /\ a[Len(s) + 1] = b
      /\ \A j \in 1..Len(s) : a[j] = s[j]
    BY AppendProperties
<1> HIDE DEF a
<1>2. SubSeq(a, i, Len(s) + 1) = Append(SubSeq(s, i, Len(s)), b)
    <2> DEFINE x == SubSeq(a, i, Len(s) + 1)
               y == SubSeq(s, i, Len(s))
    <2>1. x \in Seq(T) /\ Len(x) = Len(s) + 2 - i
          /\ \A j \in 1 .. Len(s) + 2 - i : x[j] = a[i + j - 1]
        <3>1. \A j \in i .. Len(s) + 1 : a[j] \in T
            BY <1>1
        <3> QED BY <3>1, SubSeqProperties
    <2>2. y \in Seq(T) /\ Len(y) = Len(s) + 1 - i
          /\ \A j \in 1 .. Len(s) + 1 - i : y[j] = s[i + j - 1]
        <3>1. \A j \in i .. Len(s) : s[j] \in T
            OBVIOUS
        <3> QED BY <3>1, SubSeqProperties
    <2> HIDE DEF x, y
    <2>0. PICK z : z = Append(y, b)
        OBVIOUS
    <2>3. z \in Seq(T) /\ Len(z) = Len(y) + 1 /\ z[Len(y) + 1] = b
          /\ \A j \in 1..Len(y) : z[j] = y[j]
        <3>1. y \in Seq(T)
            BY <2>2
        <3> QED BY <2>0, <3>1, AppendProperties
    <2>4. ASSUME NEW j \in 1..Len(x) PROVE x[j] = z[j]
        <3>1. CASE j = Len(x)
            <4>1. Len(x) = Len(y) + 1 /\ Len(x) = Len(s) + 2 - i /\ Len(s) \in Nat
                BY <2>1, <2>2
            <4>2. x[j] = a[i + j - 1] /\ i + j - 1 = Len(s) + 1
                BY <2>1, <3>1, <4>1
            <4>3. z[j] = b
                BY <2>3, <3>1, <4>1
            <4> QED BY <1>1, <4>2, <4>3
        <3>2. CASE j # Len(x)
            <4>0. Len(s) \in Nat /\ Len(x) = Len(s) + 2 - i /\ j # Len(x)
                BY <2>1, <3>2
            <4>1. j \in 1 .. Len(s) + 1 - i /\ i + j - 1 \in 1..Len(s)
                BY <4>0
            <4> QED BY <1>1, <2>1, <2>2, <2>3, <4>1
        <3> QED BY <3>1, <3>2
    <2>5. x = z
        <3>1. Len(x) = Len(z)
            BY <2>1, <2>2, <2>3
        <3> QED BY <2>1, <2>3, <2>4, <3>1, SeqEqual
    <2> QED BY <2>0, <2>5 DEF x, y
<1>3. SubSeq(a, 1, i - 1) = SubSeq(s, 1, i - 1)
    <2> DEFINE x == SubSeq(a, 1, i - 1)
               y == SubSeq(s, 1, i - 1)
    <2>1. x \in Seq(T) /\ Len(x) = i - 1 /\ \A j \in 1 .. i - 1 : x[j] = a[j]
        <3>1. \A j \in 1 .. i - 1 : a[j] \in T
            BY <1>1
        <3> QED BY <3>1, SubSeqProperties
    <2>2. y \in Seq(T) /\ Len(y) = i - 1 /\ \A j \in 1 .. i - 1 : y[j] = s[j]
        <3>1. \A j \in 1 .. i - 1 : s[j] \in T
            OBVIOUS
        <3> QED BY <3>1, SubSeqProperties
    <2> HIDE DEF x, y
    <2>3. x = y
        <3>1. \A j \in 1..Len(x) : x[j] = y[j]
            BY <1>1, <2>1, <2>2
        <3> QED BY <2>1, <2>2, <3>1, SeqEqual
    <2> QED BY <2>3 DEF x, y
<1> QED BY <1>2, <1>3 DEF a

LEMMA ConcatAppend ==
    ASSUME NEW T, NEW s \in Seq(T), NEW t \in Seq(T), NEW e \in T
    PROVE  s \o Append(t, e) = Append(s \o t, e)
<1>0. PICK r : r = <<e>>
    OBVIOUS
<1>1. Append(t, e) = t \o r /\ r \in Seq(T)
    BY <1>0, AppendIsConcat
<1>2. s \o t \in Seq(T)
    BY ConcatProperties
<1>3. Append(s \o t, e) = (s \o t) \o r
    BY <1>0, <1>2, AppendIsConcat, Zenon
<1>4. (s \o t) \o r = s \o (t \o r)
    BY <1>1, ConcatAssociative
<1> QED BY <1>1, <1>3, <1>4

\* A part of a sequence depends on the elements in it.
LEMMA SubSeqSame ==
    ASSUME NEW T, NEW s, NEW t, NEW m \in Int, NEW n \in Int,
           \A i \in m..n : s[i] \in T /\ t[i] = s[i]
    PROVE  SubSeq(s, m, n) = SubSeq(t, m, n)
<1>1. PICK x, y : x = SubSeq(s, m, n) /\ y = SubSeq(t, m, n)
    OBVIOUS
<1>2. /\ x \in Seq(T)
      /\ Len(x) = IF m <= n THEN n - m + 1 ELSE 0
      /\ \A i \in 1 .. n - m + 1 : x[i] = s[m + i - 1]
    BY <1>1, SubSeqProperties
<1>3. /\ y \in Seq(T)
      /\ Len(y) = IF m <= n THEN n - m + 1 ELSE 0
      /\ \A i \in 1 .. n - m + 1 : y[i] = t[m + i - 1]
    BY <1>1, SubSeqProperties
<1>4. \A i \in 1..Len(x) : x[i] = y[i]
    <2> TAKE i \in 1..Len(x)
    <2>1. i \in 1 .. n - m + 1 /\ m + i - 1 \in m..n
        BY <1>2
    <2> QED BY <1>2, <1>3, <2>1
<1>5. x = y
    BY <1>2, <1>3, <1>4, SeqEqual
<1> QED BY <1>1, <1>5

\* One element moves from the head of a sequence to the end of another.
LEMMA MoveHead ==
    ASSUME NEW T, NEW s \in Seq(T), NEW t \in Seq(T), t # <<>>
    PROVE  /\ Append(s, Head(t)) \in Seq(T) /\ Tail(t) \in Seq(T)
           /\ Append(s, Head(t)) \o Tail(t) = s \o t
<1>1. PICK e, r, h : e = Head(t) /\ r = Tail(t) /\ h = <<Head(t)>>
    OBVIOUS
<1>2. e \in T /\ r \in Seq(T) /\ h \in Seq(T)
    BY <1>1, HeadTailProperties
<1>3. Append(s, e) = s \o h /\ Append(s, e) \in Seq(T)
    BY <1>1, <1>2, AppendIsConcat, AppendProperties
<1>4. (s \o h) \o r = s \o (h \o r)
    <2>1. h \in Seq(T) /\ r \in Seq(T)
        BY <1>2
    <2> HIDE <1>1
    <2> QED BY <2>1, ConcatAssociative
<1>5. h \o r = t
    <2>1. PICK c : c = h \o r
        OBVIOUS
    <2>2. Len(h) = 1 /\ h[1] = t[1] /\ Len(r) = Len(t) - 1 /\ Len(t) \in Nat \ {0}
          /\ \A i \in 1 .. Len(t) - 1 : r[i] = t[i + 1]
        BY <1>1, HeadTailProperties, EmptySeq
    <2>3. /\ c \in Seq(T) /\ Len(c) = Len(h) + Len(r)
          /\ \A i \in 1 .. Len(h) + Len(r) : c[i] = IF i <= Len(h) THEN h[i] ELSE r[i - Len(h)]
        BY <1>2, <2>1, ConcatProperties
    <2>4. \A i \in 1..Len(c) : c[i] = t[i]
        <3> TAKE i \in 1..Len(c)
        <3>1. CASE i = 1
            BY <2>2, <2>3, <3>1
        <3>2. CASE i # 1
            <4>1. i - 1 \in 1 .. Len(t) - 1 /\ i \in 1 .. Len(h) + Len(r) /\ ~(i <= Len(h))
                BY <2>2, <2>3, <3>2
            <4>2. c[i] = r[i - 1] /\ r[i - 1] = t[(i - 1) + 1] /\ (i - 1) + 1 = i
                BY <2>2, <2>3, <4>1
            <4> QED BY <4>2
        <3> QED BY <3>1, <3>2
    <2>5. c = t
        <3>1. Len(c) = Len(t)
            BY <2>2, <2>3
        <3> QED BY <2>3, <2>4, <3>1, SeqEqual
    <2> QED BY <2>1, <2>5
<1> QED BY <1>1, <1>2, <1>3, <1>4, <1>5
----------------------------------------------------------------------------
(* The recursion in Selection has a solution, and only one. *)

Solves(F, n, K, v) ==
    F = [i \in 0..n |-> IF i = 0 THEN <<>>
                        ELSE IF i \in K THEN Append(F[i - 1], v[i])
                        ELSE F[i - 1]]

LEMMA SolutionExists ==
    ASSUME NEW K, NEW v
    PROVE  \A n \in Nat : \E F : Solves(F, n, K, v)
<1> DEFINE S == {n \in Nat : \E F : Solves(F, n, K, v)}
<1>1. 0 \in S
  <2>1. Solves([i \in 0..0 |-> <<>>], 0, K, v)
    BY DEF Solves
  <2> QED
    BY <2>1
<1>2. ASSUME NEW n \in Nat, n \in S
      PROVE  n + 1 \in S
  <2>1. PICK F : Solves(F, n, K, v)
    BY <1>2
  <2> DEFINE last == IF n + 1 \in K THEN Append(F[n], v[n + 1]) ELSE F[n]
             G == [i \in 0 .. n + 1 |-> IF i = n + 1 THEN last ELSE F[i]]
  <2>2. ASSUME NEW i \in 0 .. n + 1
        PROVE  G[i] = IF i = 0 THEN <<>>
                      ELSE IF i \in K THEN Append(G[i - 1], v[i]) ELSE G[i - 1]
    <3>1. CASE i = n + 1
      <4>1. G[i] = last /\ i # 0 /\ i - 1 = n /\ G[n] = F[n]
        BY <3>1
      <4> QED
        BY <3>1, <4>1
    <3>2. CASE i \in 0..n
      <4>1. G[i] = F[i] /\ (i # 0 => G[i - 1] = F[i - 1])
        BY <3>2
      <4> HIDE DEF G
      <4> QED
        BY <2>1, <3>2, <4>1 DEF Solves
    <3> QED
      BY <3>1, <3>2
  <2>3. G = [i \in 0 .. n + 1 |-> G[i]]
    OBVIOUS
  <2> HIDE DEF G
  <2>4. Solves(G, n + 1, K, v)
    BY <2>2, <2>3 DEF Solves
  <2> QED
    BY <2>4
<1> HIDE DEF S
<1>3. \A n \in Nat : n \in S
  BY <1>1, <1>2, Induction, Zenon
<1> QED
  BY <1>3 DEF S

\* A solution depends on the positions it has passed and their values.
LEMMA SolutionsAgree ==
    ASSUME NEW n \in Nat, NEW m \in Nat, n <= m, NEW K, NEW L, NEW v, NEW w,
           \A i \in 1..n : (i \in K <=> i \in L) /\ (i \in K => v[i] = w[i]),
           NEW F, Solves(F, n, K, v), NEW G, Solves(G, m, L, w)
    PROVE  F[n] = G[n]
<1> DEFINE S == {i \in Nat : i <= n => F[i] = G[i]}
<1>1. 0 \in S
  BY DEF Solves
<1>2. ASSUME NEW i \in Nat, i \in S
      PROVE  i + 1 \in S
  <2> SUFFICES ASSUME i + 1 <= n PROVE F[i + 1] = G[i + 1]
    OBVIOUS
  <2>1. F[i] = G[i] /\ i + 1 \in 0..n /\ i + 1 \in 0..m /\ i + 1 # 0 /\ (i + 1) - 1 = i
    BY <1>2
  <2>2. F[i + 1] = IF i + 1 \in K THEN Append(F[i], v[i + 1]) ELSE F[i]
    BY <2>1 DEF Solves
  <2>3. G[i + 1] = IF i + 1 \in L THEN Append(G[i], w[i + 1]) ELSE G[i]
    BY <2>1 DEF Solves
  <2>4. i + 1 \in 1..n
    OBVIOUS
  <2> QED
    BY <2>1, <2>2, <2>3, <2>4
<1> HIDE DEF S
<1>3. \A i \in Nat : i \in S
  BY <1>1, <1>2, Induction, Zenon
<1> QED
  BY <1>3 DEF S

LEMMA SelectionSolves ==
    ASSUME NEW n \in Nat, NEW K, NEW v
    PROVE  \E F : Solves(F, n, K, v) /\ Selection(n, K, v) = F[n]
<1> DEFINE F == CHOOSE F : Solves(F, n, K, v)
<1>1. Solves(F, n, K, v)
  BY SolutionExists
<1>2. Selection(n, K, v) = F[n]
  BY DEF Selection, Solves
<1> QED
  BY <1>1, <1>2
----------------------------------------------------------------------------
(* What Selection computes *)

\* Only the selected positions and their values count.
LEMMA SelectionSame ==
    ASSUME NEW n \in Nat, NEW K, NEW L, NEW v, NEW w,
           \A i \in 1..n : (i \in K <=> i \in L) /\ (i \in K => v[i] = w[i])
    PROVE  Selection(n, K, v) = Selection(n, L, w)
<1>1. PICK F : Solves(F, n, K, v) /\ Selection(n, K, v) = F[n]
  BY SelectionSolves
<1>2. PICK G : Solves(G, n, L, w) /\ Selection(n, L, w) = G[n]
  BY SelectionSolves
<1>3. n <= n
  OBVIOUS
<1>4. F[n] = G[n]
  BY <1>1, <1>2, <1>3, SolutionsAgree
<1> QED
  BY <1>1, <1>2, <1>4

LEMMA SelectionNone ==
    ASSUME NEW K, NEW v
    PROVE  Selection(0, K, v) = <<>>
<1>1. PICK F : Solves(F, 0, K, v) /\ Selection(0, K, v) = F[0]
  BY SelectionSolves
<1> QED
  BY <1>1 DEF Solves

LEMMA SelectionNext ==
    ASSUME NEW n \in Nat, NEW K, NEW v
    PROVE  Selection(n + 1, K, v) =
               IF n + 1 \in K THEN Append(Selection(n, K, v), v[n + 1])
               ELSE Selection(n, K, v)
<1>1. n + 1 \in Nat /\ n <= n + 1 /\ (n + 1) - 1 = n /\ n + 1 # 0 /\ n + 1 \in 0 .. n + 1
  OBVIOUS
<1>2. PICK F : Solves(F, n, K, v) /\ Selection(n, K, v) = F[n]
  BY SelectionSolves
<1>3. PICK G : Solves(G, n + 1, K, v) /\ Selection(n + 1, K, v) = G[n + 1]
  BY <1>1, SelectionSolves
<1>4. F[n] = G[n]
  BY <1>1, <1>2, <1>3, SolutionsAgree
<1>5. G[n + 1] = IF n + 1 \in K THEN Append(G[n], v[n + 1]) ELSE G[n]
  BY <1>1, <1>3 DEF Solves
<1> QED
  BY <1>2, <1>3, <1>4, <1>5

LEMMA SelectionType ==
    ASSUME NEW n \in Nat, NEW K, NEW v, NEW T,
           \A i \in 1..n : i \in K => v[i] \in T
    PROVE  Selection(n, K, v) \in Seq(T)
<1> DEFINE S == {i \in Nat : i <= n => Selection(i, K, v) \in Seq(T)}
<1>1. 0 \in S
  <2>1. Selection(0, K, v) = <<>> /\ <<>> \in Seq(T)
    BY SelectionNone, EmptySeq, Zenon
  <2> QED
    BY <2>1
<1>2. ASSUME NEW i \in Nat, i \in S
      PROVE  i + 1 \in S
  <2> SUFFICES ASSUME i + 1 <= n PROVE Selection(i + 1, K, v) \in Seq(T)
    OBVIOUS
  <2>1. Selection(i, K, v) \in Seq(T) /\ i + 1 \in 1..n
    BY <1>2
  <2>2. Selection(i + 1, K, v) = IF i + 1 \in K THEN Append(Selection(i, K, v), v[i + 1])
                                 ELSE Selection(i, K, v)
    BY SelectionNext
  <2>3. i + 1 \in K => Append(Selection(i, K, v), v[i + 1]) \in Seq(T)
    BY <2>1, AppendProperties
  <2> QED
    BY <2>1, <2>2, <2>3, Zenon
<1> HIDE DEF S
<1>3. \A i \in Nat : i \in S
  BY <1>1, <1>2, Induction, Zenon
<1> QED
  BY <1>3 DEF S

\* s begins t.
Begins(s, t) == Len(s) <= Len(t) /\ \A k \in 1..Len(s) : t[k] = s[k]

\* The positions passed first give the values pushed first.
LEMMA SelectionPrefix ==
    ASSUME NEW m \in Nat, NEW K, NEW v, NEW T,
           NEW n \in Nat, m <= n, \A i \in 1..n : i \in K => v[i] \in T
    PROVE  Begins(Selection(m, K, v), Selection(n, K, v))
<1>1. PICK s : s = Selection(m, K, v)
  OBVIOUS
<1>2. s \in Seq(T)
  BY <1>1, SelectionType
<1> DEFINE S == {d \in Nat : m + d <= n => Begins(s, Selection(m + d, K, v))}
<1>3. 0 \in S
  <2>1. m + 0 = m /\ Len(s) <= Len(s)
    BY <1>2
  <2> QED
    BY <1>1, <2>1 DEF Begins
<1>4. ASSUME NEW d \in Nat, d \in S
      PROVE  d + 1 \in S
  <2> SUFFICES ASSUME m + (d + 1) <= n PROVE Begins(s, Selection(m + (d + 1), K, v))
    OBVIOUS
  <2>1. PICK i : i = m + d
    OBVIOUS
  <2>2. i \in Nat /\ m + (d + 1) = i + 1 /\ i <= n /\ i + 1 \in 1..n
    BY <2>1
  <2>3. PICK t : t = Selection(i, K, v)
    OBVIOUS
  <2>4. Begins(s, t)
    BY <1>4, <2>1, <2>2, <2>3
  <2>5. t \in Seq(T)
    <3>1. \A j \in 1..i : j \in K => v[j] \in T
      BY <2>2
    <3> QED
      BY <2>2, <2>3, <3>1, SelectionType
  <2>6. Selection(i + 1, K, v) = IF i + 1 \in K THEN Append(t, v[i + 1]) ELSE t
    BY <2>2, <2>3, SelectionNext
  <2>7. ASSUME i + 1 \in K
        PROVE  Begins(s, Append(t, v[i + 1]))
    <3>1. v[i + 1] \in T
      BY <2>2, <2>7
    <3>2. PICK a : a = Append(t, v[i + 1])
      OBVIOUS
    <3>3. Len(a) = Len(t) + 1 /\ \A k \in 1..Len(t) : a[k] = t[k]
      BY <2>5, <3>1, <3>2, AppendProperties
    <3>4. Begins(s, a)
      BY <1>2, <2>4, <2>5, <3>3 DEF Begins
    <3> QED
      BY <3>2, <3>4
  <2>8. Begins(s, Selection(i + 1, K, v))
    BY <2>4, <2>6, <2>7
  <2> QED
    BY <2>2, <2>8
<1> HIDE DEF S
<1>5. \A d \in Nat : d \in S
  BY <1>3, <1>4, Induction, Zenon
<1>6. n - m \in Nat /\ m + (n - m) = n
  OBVIOUS
<1>7. Begins(s, Selection(n, K, v))
  <2>1. n - m \in S
    BY <1>5, <1>6
  <2> QED
    BY <1>6, <2>1 DEF S
<1> QED
  BY <1>1, <1>7
============================================================================

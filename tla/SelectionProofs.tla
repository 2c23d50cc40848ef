-------------------------- MODULE SelectionProofs --------------------------
(* Induction over numbers and sequences, with sets in the place of          *)
(* predicates, and what Only and FlattenSeq compute.                        *)
EXTENDS Selection, SequencesExt, SequenceTheorems, WellFoundedInduction, TLAPS

\* A set with 0 and the successor of each of its numbers has all numbers.
LEMMA NumberInduction ==
  ASSUME NEW P, 0 \in P, \A n \in Nat : n \in P => n + 1 \in P
  PROVE  \A n \in Nat : n \in P
<1> DEFINE Rest == Nat \ P
           Less == {pair \in Nat \X Nat : pair[1] < pair[2]}
<1>1. IsWellFoundedOn(Less, Nat)
  BY NatLessThanWellFounded DEF OpToRel
<1>2. ASSUME Rest # {} PROVE FALSE
  <2>1. PICK x \in Rest : \A y \in Rest : <<y, x>> \notin Less
    <3> HIDE DEF Less
    <3>1. Rest \subseteq Nat
      OBVIOUS
    <3>2. QED
      BY <1>1, <1>2, <3>1, WFMin
  <2>2. x - 1 \in Rest
    OBVIOUS
  <2>3. <<x - 1, x>> \in Less
    OBVIOUS
  <2>4. QED
    BY <2>1, <2>2, <2>3
<1>3. QED
  BY <1>2

\* A function on the first numbers is a sequence.
LEMMA FunctionSeq ==
  ASSUME NEW A, NEW n \in Nat, NEW f \in [1 .. n -> A]
  PROVE  f \in Seq(A) /\ Len(f) = n
<1>1. f \in Seq(A)
  BY SeqDef
<1>2. DOMAIN f = 1 .. n /\ DOMAIN f = 1 .. Len(f) /\ Len(f) \in Nat
  BY <1>1, LenProperties
<1>3. QED
  BY <1>1, <1>2

\* A sequence that is not empty is one appended to its front.
LEMMA FrontAndLast ==
  ASSUME NEW A, NEW s \in Seq(A), NEW n \in Nat, Len(s) = n + 1
  PROVE  \E t \in Seq(A), e \in A : Len(t) = n /\ s = Append(t, e)
<1> DEFINE t == [i \in 1 .. n |-> s[i]]
<1>1. s \in [1 .. n + 1 -> A]
  BY LenProperties
<1>2. t \in [1 .. n -> A]
  BY <1>1
<1>3. t \in Seq(A) /\ Len(t) = n
  BY <1>2, SeqDef
<1>4. s[n + 1] \in A
  BY <1>1
<1>5. /\ Append(t, s[n + 1]) \in Seq(A) /\ Len(Append(t, s[n + 1])) = n + 1
      /\ \A i \in 1 .. n : Append(t, s[n + 1])[i] = t[i]
      /\ Append(t, s[n + 1])[n + 1] = s[n + 1]
  BY <1>3, <1>4, AppendProperties
<1>6. \A i \in 1 .. n : t[i] = s[i]
  OBVIOUS
<1> HIDE DEF t
<1>7. \A i \in 1 .. n + 1 : Append(t, s[n + 1])[i] = s[i]
  <2>1. \A i \in 1 .. n + 1 : i \in 1 .. n \/ i = n + 1
    OBVIOUS
  <2>2. QED
    BY <1>5, <1>6, <2>1
<1>8. s = Append(t, s[n + 1])
  BY <1>5, <1>7, SeqEqual
<1>9. QED
  BY <1>3, <1>4, <1>8

\* A set with the empty sequence, and with every sequence one longer than one
\* of its own, has all sequences.
LEMMA SequenceInduction ==
  ASSUME NEW A, NEW P, <<>> \in P,
         \A s \in Seq(A), e \in A : s \in P => Append(s, e) \in P
  PROVE  \A s \in Seq(A) : s \in P
<1> DEFINE Lengths == {n \in Nat : \A s \in Seq(A) : Len(s) = n => s \in P}
<1>1. 0 \in Lengths
  BY EmptySeq
<1>2. ASSUME NEW n \in Nat, n \in Lengths PROVE n + 1 \in Lengths
  <2>1. ASSUME NEW s \in Seq(A), Len(s) = n + 1 PROVE s \in P
    <3>1. PICK t \in Seq(A), e \in A : Len(t) = n /\ s = Append(t, e)
      BY <2>1, FrontAndLast
    <3>2. QED
      BY <1>2, <3>1
  <2>2. QED
    BY <2>1
<1> HIDE DEF Lengths
<1>3. \A n \in Nat : n \in Lengths
  BY <1>1, <1>2, NumberInduction
<1>4. QED
  BY <1>3, LenProperties DEF Lengths

\* Concatenation, for steps that need no more of it than the next lemma.
Cat(s, t) == s \o t

LEMMA CatAssociative ==
  \A A : \A s, t, u \in Seq(A) : Cat(s, t) \in Seq(A) /\ Cat(Cat(s, t), u) = Cat(s, Cat(t, u))
<1>1. ASSUME NEW A, NEW s \in Seq(A), NEW t \in Seq(A), NEW u \in Seq(A)
      PROVE  Cat(s, t) \in Seq(A) /\ Cat(Cat(s, t), u) = Cat(s, Cat(t, u))
  BY SMTT(30), ConcatAssociative, ConcatProperties DEF Cat
<1>2. QED
  BY <1>1

\* Appending to the second of two sequences in a row.
LEMMA ConcatAppend ==
  ASSUME NEW A, NEW s \in Seq(A), NEW t \in Seq(A), NEW e \in A
  PROVE  s \o Append(t, e) = Append(s \o t, e)
<1>1. Len(s) \in Nat /\ Len(t) \in Nat
  BY LenProperties
<1>2. /\ Append(t, e) \in Seq(A) /\ Len(Append(t, e)) = Len(t) + 1
      /\ \A i \in 1 .. Len(t) : Append(t, e)[i] = t[i]
      /\ Append(t, e)[Len(t) + 1] = e
  BY AppendProperties
<1>3. /\ s \o t \in Seq(A) /\ Len(s \o t) = Len(s) + Len(t)
      /\ \A i \in 1 .. Len(s) + Len(t) :
           (s \o t)[i] = IF i <= Len(s) THEN s[i] ELSE t[i - Len(s)]
  BY ConcatProperties
<1> DEFINE a == Append(t, e)
           b == s \o t
<1>4. /\ s \o a \in Seq(A) /\ Len(s \o a) = Len(s) + Len(a)
      /\ \A i \in 1 .. Len(s) + Len(a) :
           (s \o a)[i] = IF i <= Len(s) THEN s[i] ELSE a[i - Len(s)]
  BY <1>2, ConcatProperties
<1>5. /\ Append(b, e) \in Seq(A) /\ Len(Append(b, e)) = Len(b) + 1
      /\ \A i \in 1 .. Len(b) : Append(b, e)[i] = b[i]
      /\ Append(b, e)[Len(b) + 1] = e
  BY <1>3, AppendProperties
<1> HIDE DEF a, b
<1>6. ASSUME NEW i \in 1 .. Len(s) + Len(t) + 1
      PROVE  (s \o a)[i] = Append(b, e)[i]
  <2>1. CASE i <= Len(s)
    BY <1>1, <1>2, <1>3, <1>4, <1>5, <2>1 DEF a, b
  <2>2. CASE i > Len(s) /\ i # Len(s) + Len(t) + 1
    <3>1. i - Len(s) \in 1 .. Len(t) /\ i \in 1 .. Len(s) + Len(t) /\ ~(i <= Len(s))
      BY <1>1, <2>2
    <3>2. b[i] = t[i - Len(s)] /\ Append(b, e)[i] = b[i]
      BY <1>3, <1>5, <3>1 DEF b
    <3>3. (s \o a)[i] = a[i - Len(s)] /\ a[i - Len(s)] = t[i - Len(s)]
      BY <1>1, <1>2, <1>4, <3>1 DEF a
    <3>4. QED
      BY <3>2, <3>3
  <2>3. CASE i = Len(s) + Len(t) + 1
    <3>1. i - Len(s) = Len(t) + 1 /\ ~(i <= Len(s))
      BY <1>1, <2>3
    <3>2. (s \o a)[i] = e
      BY <1>1, <1>2, <1>4, <2>3, <3>1 DEF a
    <3>3. QED
      BY <1>3, <1>5, <2>3, <3>2 DEF b
  <2>4. i <= Len(s) \/ (i > Len(s) /\ i # Len(s) + Len(t) + 1) \/ i = Len(s) + Len(t) + 1
    BY <1>1
  <2>5. QED
    BY <2>1, <2>2, <2>3, <2>4, Zenon
<1>7. s \o a = Append(b, e)
  <2>1. Len(s \o a) = Len(s) + Len(t) + 1 /\ Len(Append(b, e)) = Len(s) + Len(t) + 1
    BY <1>1, <1>2, <1>3, <1>4, <1>5 DEF a, b
  <2>2. QED
    BY <1>4, <1>5, <1>6, <2>1, SeqEqual
<1>8. QED
  BY <1>7 DEF a, b

-----------------------------------------------------------------------------
(* Only *)

\* The function Only is defined by, up to the n-th element.
Selecting(f, s, S, n) ==
  f = [i \in 0 .. n |-> IF i = 0 THEN <<>>
                        ELSE IF s[i] \in S THEN Append(f[i - 1], s[i]) ELSE f[i - 1]]

LEMMA SelectingExists ==
  ASSUME NEW s, NEW S
  PROVE  \A n \in Nat : \E f : Selecting(f, s, S, n)
<1> DEFINE P == {n \in Nat : \E f : Selecting(f, s, S, n)}
<1>1. 0 \in P
  <2>1. Selecting([i \in 0 .. 0 |-> <<>>], s, S, 0)
    BY DEF Selecting
  <2>2. QED
    BY <2>1
<1>2. ASSUME NEW n \in Nat, n \in P PROVE n + 1 \in P
  <2>1. PICK f : Selecting(f, s, S, n)
    BY <1>2
  <2> DEFINE new == IF s[n + 1] \in S THEN Append(f[n], s[n + 1]) ELSE f[n]
             g == [i \in 0 .. n + 1 |-> IF i = n + 1 THEN new ELSE f[i]]
  <2>2. \A i \in 0 .. n + 1 :
          g[i] = IF i = 0 THEN <<>>
                 ELSE IF s[i] \in S THEN Append(g[i - 1], s[i]) ELSE g[i - 1]
    <3>1. \A i \in 0 .. n : f[i] = IF i = 0 THEN <<>>
             ELSE IF s[i] \in S THEN Append(f[i - 1], s[i]) ELSE f[i - 1]
      BY <2>1 DEF Selecting
    <3>2. \A i \in 0 .. n : g[i] = f[i]
      OBVIOUS
    <3>3. g[n + 1] = new
      OBVIOUS
    <3> HIDE DEF g
    <3>4. QED
      BY <3>1, <3>2, <3>3
  <2>3. g = [i \in 0 .. n + 1 |-> g[i]]
    OBVIOUS
  <2> HIDE DEF g
  <2>4. Selecting(g, s, S, n + 1)
    BY <2>2, <2>3 DEF Selecting
  <2>5. QED
    BY <2>4
<1> HIDE DEF P
<1>3. \A n \in Nat : n \in P
  BY <1>1, <1>2, NumberInduction
<1>4. QED
  BY <1>3 DEF P

LEMMA OnlySelecting ==
  ASSUME NEW A, NEW s \in Seq(A), NEW S
  PROVE  \E f : Selecting(f, s, S, Len(s)) /\ Only(s, S) = f[Len(s)]
<1> DEFINE f == CHOOSE f : Selecting(f, s, S, Len(s))
<1>1. Len(s) \in Nat
  BY LenProperties
<1>2. Selecting(f, s, S, Len(s))
  BY <1>1, SelectingExists
<1>3. Only(s, S) = f[Len(s)]
  BY DEF Only, Selecting
<1>4. QED
  BY <1>2, <1>3

LEMMA OnlyEmpty ==
  ASSUME NEW S
  PROVE  Only(<<>>, S) = <<>>
<1>1. <<>> \in Seq({}) /\ Len(<<>>) = 0
  BY EmptySeq
<1>2. PICK f : Selecting(f, <<>>, S, 0) /\ Only(<<>>, S) = f[0]
  BY <1>1, OnlySelecting
<1>3. QED
  BY <1>2 DEF Selecting

\* One element more is taken or left.
LEMMA OnlyAppend ==
  ASSUME NEW A, NEW s \in Seq(A), NEW e \in A, NEW S
  PROVE  Only(Append(s, e), S)
           = IF e \in S THEN Append(Only(s, S), e) ELSE Only(s, S)
<1> DEFINE n == Len(s)
           t == Append(s, e)
<1>1. /\ n \in Nat /\ t \in Seq(A) /\ Len(t) = n + 1 /\ t[n + 1] = e
      /\ \A i \in 1 .. n : t[i] = s[i]
  BY LenProperties, AppendProperties
<1>2. PICK f : Selecting(f, s, S, n) /\ Only(s, S) = f[n]
  BY OnlySelecting
<1>3. PICK g : Selecting(g, t, S, n + 1) /\ Only(t, S) = g[n + 1]
  BY <1>1, OnlySelecting
<1> HIDE DEF n, t
<1>4. \A i \in 0 .. n : f[i] = IF i = 0 THEN <<>>
         ELSE IF s[i] \in S THEN Append(f[i - 1], s[i]) ELSE f[i - 1]
  BY <1>2 DEF Selecting
<1>5. \A i \in 0 .. n + 1 : g[i] = IF i = 0 THEN <<>>
         ELSE IF t[i] \in S THEN Append(g[i - 1], t[i]) ELSE g[i - 1]
  BY <1>3 DEF Selecting
<1> DEFINE P == {i \in Nat : i <= n => f[i] = g[i]}
<1>6. 0 \in P
  BY <1>1, <1>4, <1>5
<1>7. ASSUME NEW i \in Nat, i \in P PROVE i + 1 \in P
  <2>1. CASE i + 1 <= n
    <3>1. i + 1 \in 0 .. n /\ i + 1 \in 0 .. n + 1 /\ i + 1 \in 1 .. n
          /\ (i + 1) - 1 = i /\ i + 1 # 0 /\ i <= n
      BY <1>1, <2>1
    <3>2. t[i + 1] = s[i + 1] /\ f[i] = g[i]
      BY <1>1, <1>7, <3>1
    <3>3. f[i + 1] = g[i + 1]
      BY <1>4, <1>5, <3>1, <3>2
    <3>4. QED
      BY <3>3
  <2>2. QED
    BY <2>1
<1> HIDE DEF P
<1>8. n \in P
  BY <1>1, <1>6, <1>7, NumberInduction
<1>9. f[n] = g[n]
  BY <1>1, <1>8 DEF P
<1>10. n + 1 \in 0 .. n + 1 /\ (n + 1) - 1 = n /\ n + 1 # 0
  BY <1>1
<1>11. g[n + 1] = IF e \in S THEN Append(g[n], e) ELSE g[n]
  BY <1>1, <1>5, <1>10
<1>12. QED
  BY <1>2, <1>3, <1>9, <1>11 DEF t

\* What is taken are elements of both, and no more than there were.
LEMMA OnlyType ==
  ASSUME NEW A, NEW s \in Seq(A), NEW S
  PROVE  Only(s, S) \in Seq(A \cap S) /\ Len(Only(s, S)) <= Len(s)
<1> DEFINE Q(t) == Only(t, S) \in Seq(A \cap S) /\ Len(Only(t, S)) <= Len(t)
           P == {t \in Seq(A) : Q(t)}
<1>1. Q(<<>>) /\ <<>> \in Seq(A)
  <2>1. <<>> \in Seq(A \cap S) /\ <<>> \in Seq(A) /\ Len(<<>>) = 0
    BY EmptySeq
  <2>2. Only(<<>>, S) = <<>>
    BY OnlyEmpty
  <2>3. Only(<<>>, S) \in Seq(A \cap S)
    BY <2>1, <2>2
  <2>4. Len(Only(<<>>, S)) = 0
    BY <2>1, <2>2
  <2>5. QED
    BY <2>1, <2>3, <2>4
<1>2. ASSUME NEW t \in Seq(A), NEW e \in A, Q(t)
      PROVE  Q(Append(t, e)) /\ Append(t, e) \in Seq(A)
  <2>1. Append(t, e) \in Seq(A) /\ Len(Append(t, e)) = Len(t) + 1
    BY AppendProperties
  <2>2. Len(t) \in Nat /\ Len(Only(t, S)) \in Nat
    BY <1>2, LenProperties
  <2>3. CASE e \in S
    <3>1. Only(Append(t, e), S) = Append(Only(t, S), e)
      BY <2>3, OnlyAppend
    <3>2. /\ Append(Only(t, S), e) \in Seq(A \cap S)
          /\ Len(Append(Only(t, S), e)) = Len(Only(t, S)) + 1
      BY <1>2, <2>3, AppendProperties
    <3>3. QED
      BY <1>2, <2>1, <2>2, <3>1, <3>2
  <2>4. CASE e \notin S
    <3>1. Only(Append(t, e), S) = Only(t, S)
      BY <2>4, OnlyAppend
    <3>2. QED
      BY <1>2, <2>1, <2>2, <3>1
  <2>5. QED
    BY <2>3, <2>4
<1> HIDE DEF Q
<1>3. \A t \in Seq(A) : t \in P
  BY <1>1, <1>2, SequenceInduction
<1>4. Q(s)
  BY <1>3
<1>5. QED
  BY <1>4 DEF Q

\* What is taken from two sequences in a row.
LEMMA OnlyConcat ==
  ASSUME NEW A, NEW s \in Seq(A), NEW t \in Seq(A), NEW S
  PROVE  Only(s \o t, S) = Only(s, S) \o Only(t, S)
<1> DEFINE Q(u) == Only(s \o u, S) = Only(s, S) \o Only(u, S)
           P == {u \in Seq(A) : Q(u)}
<1>1. Q(<<>>) /\ <<>> \in Seq(A)
  <2>1. s \o <<>> = s /\ Only(s, S) \o <<>> = Only(s, S)
    BY OnlyType, ConcatEmptySeq
  <2>2. QED
    BY <2>1, OnlyEmpty, EmptySeq
<1>2. ASSUME NEW u \in Seq(A), NEW e \in A, Q(u)
      PROVE  Q(Append(u, e)) /\ Append(u, e) \in Seq(A)
  <2>1. /\ s \o u \in Seq(A)
        /\ s \o Append(u, e) = Append(s \o u, e)
        /\ Append(u, e) \in Seq(A)
    BY ConcatProperties, AppendProperties, ConcatAppend
  <2>2. Only(s, S) \in Seq(A \cap S) /\ Only(u, S) \in Seq(A \cap S)
    BY OnlyType
  <2>3. CASE e \in S
    <3>1. Only(Append(u, e), S) = Append(Only(u, S), e)
      BY <2>3, OnlyAppend
    <3>2. Only(Append(s \o u, e), S) = Append(Only(s \o u, S), e)
      BY <2>1, <2>3, OnlyAppend
    <3>3. Only(s, S) \o Append(Only(u, S), e) = Append(Only(s, S) \o Only(u, S), e)
      BY <2>2, <2>3, ConcatAppend
    <3>4. QED
      BY <1>2, <2>1, <3>1, <3>2, <3>3
  <2>4. CASE e \notin S
    <3>1. Only(Append(u, e), S) = Only(u, S)
      BY <2>4, OnlyAppend
    <3>2. Only(Append(s \o u, e), S) = Only(s \o u, S)
      BY <2>1, <2>4, OnlyAppend
    <3>3. QED
      BY <1>2, <2>1, <3>1, <3>2
  <2>5. QED
    BY <2>3, <2>4
<1> HIDE DEF Q
<1>3. \A u \in Seq(A) : u \in P
  BY <1>1, <1>2, SequenceInduction
<1>4. Q(t)
  BY <1>3
<1>5. QED
  BY <1>4 DEF Q

\* A sequence of which all is taken, or nothing.
LEMMA OnlyAll ==
  ASSUME NEW A, NEW s \in Seq(A), NEW S, A \subseteq S
  PROVE  Only(s, S) = s
<1> DEFINE P == {t \in Seq(A) : Only(t, S) = t}
<1>1. <<>> \in P
  BY OnlyEmpty, EmptySeq
<1>2. \A t \in Seq(A), e \in A : t \in P => Append(t, e) \in P
  BY OnlyAppend, AppendProperties
<1> HIDE DEF P
<1>3. s \in P
  BY <1>1, <1>2, SequenceInduction
<1>4. QED
  BY <1>3 DEF P

LEMMA OnlyNone ==
  ASSUME NEW A, NEW s \in Seq(A), NEW S, A \cap S = {}
  PROVE  Only(s, S) = <<>>
<1> DEFINE P == {t \in Seq(A) : Only(t, S) = <<>>}
<1>1. <<>> \in P
  BY OnlyEmpty, EmptySeq
<1>2. \A t \in Seq(A), e \in A : t \in P => Append(t, e) \in P
  BY OnlyAppend, AppendProperties
<1> HIDE DEF P
<1>3. s \in P
  BY <1>1, <1>2, SequenceInduction
<1>4. QED
  BY <1>3 DEF P

\* A sequence is its first element and the rest.
LEMMA FirstAndRest ==
  ASSUME NEW A, NEW s \in Seq(A), s # <<>>
  PROVE  /\ Head(s) \in A /\ Tail(s) \in Seq(A) /\ Len(Tail(s)) = Len(s) - 1
         /\ s = <<Head(s)>> \o Tail(s)
<1>1. /\ Head(s) \in A /\ Tail(s) \in Seq(A) /\ Len(Tail(s)) = Len(s) - 1
      /\ \A i \in 1 .. Len(Tail(s)) : Tail(s)[i] = s[i + 1]
  BY HeadTailProperties
<1> DEFINE h == <<Head(s)>>
           t == Tail(s)
<1>2. h \in Seq(A) /\ Len(h) = 1 /\ h[1] = s[1]
  BY <1>1
<1>3. /\ h \o t \in Seq(A) /\ Len(h \o t) = Len(h) + Len(t)
      /\ \A i \in 1 .. Len(h) + Len(t) :
           (h \o t)[i] = IF i <= Len(h) THEN h[i] ELSE t[i - Len(h)]
  BY <1>1, <1>2, ConcatProperties
<1> HIDE DEF h
<1>4. Len(s) \in Nat
  BY LenProperties
<1>5. ASSUME NEW i \in 1 .. Len(s) PROVE (h \o t)[i] = s[i]
  <2>1. CASE i = 1
    BY <1>1, <1>2, <1>3, <1>4, <2>1
  <2>2. CASE i > 1
    <3>1. i - 1 \in 1 .. Len(t) /\ i \in 1 .. Len(h) + Len(t) /\ ~(i <= Len(h))
      BY <1>1, <1>2, <1>4, <2>2
    <3>2. (h \o t)[i] = t[i - 1] /\ t[i - 1] = s[i]
      BY <1>1, <1>2, <1>3, <1>4, <3>1
    <3>3. QED
      BY <3>2
  <2>3. i = 1 \/ i > 1
    BY <1>4
  <2>4. QED
    BY <2>1, <2>2, <2>3, Zenon
<1>6. Len(h \o t) = Len(s)
  BY <1>1, <1>2, <1>3, <1>4
<1>7. h \o t = s
  BY <1>3, <1>5, <1>6, SeqEqual
<1>8. QED
  BY <1>1, <1>7 DEF h

\* The first element is taken or left.
LEMMA OnlyHead ==
  ASSUME NEW A, NEW s \in Seq(A), NEW S, s # <<>>
  PROVE  /\ Head(s) \in A /\ Tail(s) \in Seq(A)
         /\ Head(s) \in S => Only(s, S) = <<Head(s)>> \o Only(Tail(s), S)
         /\ Head(s) \notin S => Only(s, S) = Only(Tail(s), S)
<1> DEFINE h == <<Head(s)>>
<1>1. /\ Head(s) \in A /\ Tail(s) \in Seq(A) /\ s = h \o Tail(s)
  BY FirstAndRest
<1>2. h \in Seq(A) /\ h = Append(<<>>, Head(s))
  BY <1>1
<1>3. <<>> \in Seq(A) /\ Only(<<>>, S) = <<>>
  BY OnlyEmpty, EmptySeq
<1>4. Only(Append(<<>>, Head(s)), S) = IF Head(s) \in S THEN Append(<<>>, Head(s)) ELSE <<>>
  BY ZenonT(40), <1>1, <1>3, OnlyAppend
<1>5. Only(Tail(s), S) \in Seq(A \cap S)
  BY <1>1, OnlyType
<1> HIDE DEF h
<1>6. Only(s, S) = Only(h, S) \o Only(Tail(s), S)
  <2> DEFINE t == Tail(s)
  <2>1. t \in Seq(A) /\ s = h \o t
    BY <1>1
  <2> HIDE DEF t
  <2>2. Only(h \o t, S) = Only(h, S) \o Only(t, S)
    <3>1. h \in Seq(A) /\ t \in Seq(A)
      BY <1>2, <2>1
    <3>2. \A u, v \in Seq(A) : Only(u \o v, S) = Only(u, S) \o Only(v, S)
      BY OnlyConcat
    <3>3. QED
      BY <3>1, <3>2
  <2>3. Only(s, S) = Only(h, S) \o Only(t, S)
    BY <2>1, <2>2
  <2>4. QED
    BY <2>3 DEF t
<1>7. /\ Head(s) \in S => Only(s, S) = h \o Only(Tail(s), S)
      /\ Head(s) \notin S => Only(s, S) = Only(Tail(s), S)
  BY <1>2, <1>4, <1>5, <1>6, ConcatEmptySeq
<1>8. QED
  BY <1>1, <1>7 DEF h

\* What is taken was there, and what was there is taken.
LEMMA OnlyHas ==
  ASSUME NEW A, NEW s \in Seq(A), NEW S, NEW e \in A \cap S,
         \E i \in 1 .. Len(s) : s[i] = e
  PROVE  \E j \in 1 .. Len(Only(s, S)) : Only(s, S)[j] = e
<1> DEFINE Has(t) == \E i \in 1 .. Len(t) : t[i] = e
           P == {t \in Seq(A) : Has(t) => Has(Only(t, S))}
<1>1. <<>> \in P
  BY EmptySeq
<1>2. ASSUME NEW t \in Seq(A), NEW d \in A, t \in P PROVE Append(t, d) \in P
  <2>1. Only(t, S) \in Seq(A)
    <3>1. Only(t, S) \in Seq(A \cap S)
      BY OnlyType
    <3>2. QED
      BY <3>1, SeqMonotonic
  <2>2. CASE d = e
    <3>1. Only(Append(t, d), S) = Append(Only(t, S), e)
      BY <2>2, OnlyAppend
    <3>2. Has(Append(Only(t, S), e))
      <4>1. Len(Only(t, S)) \in Nat
        BY <2>1, LenProperties
      <4>2. /\ Len(Append(Only(t, S), e)) = Len(Only(t, S)) + 1
            /\ Append(Only(t, S), e)[Len(Only(t, S)) + 1] = e
        BY <2>1, AppendProperties
      <4>3. QED
        BY <4>1, <4>2
    <3>3. QED
      BY <3>1, <3>2, AppendProperties
  <2>3. CASE d # e
    <3>1. Has(Append(t, d)) => Has(t)
      BY <2>3, AppendProperties, LenProperties
    <3>2. Has(Only(t, S)) => Has(Append(Only(t, S), d))
      <4>1. Len(Only(t, S)) \in Nat
        BY <2>1, LenProperties
      <4>2. /\ Len(Append(Only(t, S), d)) = Len(Only(t, S)) + 1
            /\ \A i \in 1 .. Len(Only(t, S)) : Append(Only(t, S), d)[i] = Only(t, S)[i]
        BY <2>1, AppendProperties
      <4>3. QED
        BY <4>1, <4>2
    <3>3. Has(Only(t, S)) => Has(Only(Append(t, d), S))
      <4>1. Only(Append(t, d), S) = IF d \in S THEN Append(Only(t, S), d) ELSE Only(t, S)
        BY OnlyAppend
      <4> HIDE DEF Has
      <4>2. QED
        BY <3>2, <4>1
    <3>4. Has(t) => Has(Only(t, S))
      BY <1>2
    <3>5. QED
      BY <3>1, <3>3, <3>4, AppendProperties
  <2>4. QED
    BY <2>2, <2>3
<1> HIDE DEF P
<1>3. s \in P
  BY <1>1, <1>2, SequenceInduction
<1>4. QED
  BY <1>3 DEF P

-----------------------------------------------------------------------------
(* Flattening *)

\* f[i] is the concatenation of the first i sequences of ss.
Flattening(f, ss, n) ==
  f = [i \in 1 .. n |-> IF i = 1 THEN ss[i] ELSE f[i - 1] \o ss[i]]

LEMMA FlatteningExists ==
  ASSUME NEW ss
  PROVE  \A n \in Nat : \E f : Flattening(f, ss, n)
<1> DEFINE P == {n \in Nat : \E f : Flattening(f, ss, n)}
<1>1. 0 \in P
  <2>1. Flattening([i \in 1 .. 0 |-> <<>>], ss, 0)
    BY DEF Flattening
  <2>2. QED
    BY <2>1
<1>2. ASSUME NEW n \in Nat, n \in P PROVE n + 1 \in P
  <2>1. PICK f : Flattening(f, ss, n)
    BY <1>2
  <2> DEFINE new == IF n + 1 = 1 THEN ss[n + 1] ELSE f[n] \o ss[n + 1]
             g == [i \in 1 .. n + 1 |-> IF i = n + 1 THEN new ELSE f[i]]
             h == [i \in 1 .. n + 1 |-> IF i = 1 THEN ss[i] ELSE g[i - 1] \o ss[i]]
  <2>2. \A i \in 1 .. n + 1 : g[i] = IF i = n + 1 THEN new ELSE f[i]
    OBVIOUS
  <2>3. \A i \in 1 .. n : f[i] = IF i = 1 THEN ss[i] ELSE f[i - 1] \o ss[i]
    BY <2>1 DEF Flattening
  <2>4. g = [i \in 1 .. n + 1 |-> g[i]] /\ h = [i \in 1 .. n + 1 |-> h[i]]
    OBVIOUS
  <2>5. \A i \in 1 .. n + 1 : h[i] = IF i = 1 THEN ss[i] ELSE g[i - 1] \o ss[i]
    OBVIOUS
  <2>6. ASSUME NEW i \in 1 .. n + 1 PROVE g[i] = h[i]
    <3> HIDE DEF g, h
    <3>1. CASE i = n + 1
      <4>1. CASE i = 1
        BY <2>2, <2>5, <3>1, <4>1
      <4>2. CASE i # 1
        <5>1. n \in 1 .. n + 1 /\ n # n + 1 /\ i - 1 = n /\ n + 1 # 1
          BY <1>2, <3>1, <4>2
        <5>2. g[n] = f[n]
          BY <2>2, <5>1
        <5>3. g[i] = f[n] \o ss[n + 1]
          BY <2>2, <3>1, <5>1
        <5>4. h[i] = g[n] \o ss[n + 1]
          BY <2>5, <3>1, <4>2, <5>1
        <5>5. QED
          BY <5>2, <5>3, <5>4
      <4>3. QED
        BY <4>1, <4>2
    <3>2. CASE i # n + 1
      <4>1. i \in 1 .. n /\ g[i] = f[i]
        BY <2>2, <3>2
      <4>2. CASE i = 1
        BY <2>3, <2>5, <4>1, <4>2
      <4>3. CASE i # 1
        <5>1. i - 1 \in 1 .. n + 1 /\ i - 1 # n + 1
          BY <4>1, <4>3
        <5>2. g[i - 1] = f[i - 1]
          BY <2>2, <5>1
        <5>3. QED
          BY <2>3, <2>5, <4>1, <4>3, <5>2
      <4>4. QED
        BY <4>2, <4>3
    <3>3. QED
      BY <3>1, <3>2
  <2>7. g = h
    <3> HIDE DEF g, h
    <3>1. QED
      BY <2>4, <2>6
  <2>8. Flattening(g, ss, n + 1)
    BY <2>7 DEF Flattening
  <2>9. QED
    BY <2>8
<1> HIDE DEF P
<1>3. \A n \in Nat : n \in P
  BY <1>1, <1>2, NumberInduction
<1>4. QED
  BY <1>3 DEF P

LEMMA FlattenIs ==
  ASSUME NEW ss, NEW n \in Nat, n # 0, Len(ss) = n
  PROVE  \E f : Flattening(f, ss, n) /\ FlattenSeq(ss) = f[n]
<1> DEFINE f == CHOOSE f : Flattening(f, ss, n)
<1>1. Flattening(f, ss, n)
  BY FlatteningExists
<1>2. FlattenSeq(ss) = f[n]
  BY DEF FlattenSeq, Flattening
<1>3. QED
  BY <1>1, <1>2

\* The last sequence comes last.
LEMMA FlattenAppend ==
  ASSUME NEW B, NEW ss \in Seq(Seq(B)), NEW s \in Seq(B)
  PROVE  FlattenSeq(Append(ss, s)) = FlattenSeq(ss) \o s
<1> DEFINE n == Len(ss)
           tt == Append(ss, s)
<1>1. /\ n \in Nat /\ tt \in Seq(Seq(B)) /\ Len(tt) = n + 1 /\ tt[n + 1] = s
      /\ \A i \in 1 .. n : tt[i] = ss[i]
  BY LenProperties, AppendProperties
<1>2. PICK g : Flattening(g, tt, n + 1) /\ FlattenSeq(tt) = g[n + 1]
  <2>1. n + 1 \in Nat /\ n + 1 # 0 /\ Len(tt) = n + 1
    BY <1>1
  <2> HIDE DEF n, tt
  <2>2. QED
    BY <2>1, FlattenIs
<1>3. CASE n = 0
  <2>1. ss = <<>>
    BY <1>3, EmptySeq
  <2>2. FlattenSeq(ss) = <<>>
    BY <1>3, <2>1 DEF FlattenSeq
  <2>3. g[1] = tt[1]
    BY <1>1, <1>2, <1>3 DEF Flattening
  <2>4. <<>> \o s = s
    BY ConcatEmptySeq
  <2>5. n + 1 = 1
    BY <1>3
  <2> HIDE DEF n, tt
  <2>6. FlattenSeq(tt) = s
    BY <1>1, <1>2, <2>3, <2>5
  <2>7. QED
    BY <2>2, <2>4, <2>6 DEF tt
<1>4. CASE n # 0
  <2>1. PICK f : Flattening(f, ss, n) /\ FlattenSeq(ss) = f[n]
    <3>1. n \in Nat /\ Len(ss) = n
      BY <1>1
    <3> HIDE DEF n
    <3>2. QED
      BY <1>4, <3>1, FlattenIs
  <2> HIDE DEF n, tt
  <2>2. \A i \in 1 .. n : f[i] = IF i = 1 THEN ss[i] ELSE f[i - 1] \o ss[i]
    BY <2>1 DEF Flattening
  <2>3. \A i \in 1 .. n + 1 : g[i] = IF i = 1 THEN tt[i] ELSE g[i - 1] \o tt[i]
    BY <1>2 DEF Flattening
  <2> DEFINE P == {k \in Nat : k + 1 \in 1 .. n => f[k + 1] = g[k + 1]}
  <2>4. 0 \in P
    <3>1. 0 + 1 \in 1 .. n => f[1] = ss[1] /\ g[1] = tt[1] /\ tt[1] = ss[1]
      BY <1>1, <2>2, <2>3
    <3>2. QED
      BY <3>1
  <2>5. ASSUME NEW k \in Nat, k \in P PROVE k + 1 \in P
    <3> DEFINE j == k + 1
               i == j + 1
    <3>1. SUFFICES ASSUME i \in 1 .. n PROVE f[i] = g[i]
      OBVIOUS
    <3>2. i \in 1 .. n /\ i \in 1 .. n + 1 /\ i # 1 /\ i - 1 = j /\ j \in 1 .. n
      BY <1>1, <3>1
    <3>3. f[j] = g[j]
      BY <2>5, <3>2
    <3> HIDE DEF i, j
    <3>4. f[i] = f[i - 1] \o ss[i]
      BY <2>2, <3>2, Zenon
    <3>5. g[i] = g[i - 1] \o tt[i]
      BY <2>3, <3>2, Zenon
    <3>6. tt[i] = ss[i]
      BY <1>1, <3>2
    <3>7. QED
      BY <3>2, <3>3, <3>4, <3>5, <3>6
  <2> HIDE DEF P
  <2>6. \A k \in Nat : k \in P
    BY <2>4, <2>5, NumberInduction
  <2>7. f[n] = g[n]
    <3>1. n - 1 \in Nat /\ n - 1 + 1 = n /\ n \in 1 .. n
      BY <1>1, <1>4
    <3>2. n - 1 \in P
      BY <2>6, <3>1
    <3>3. n - 1 + 1 \in 1 .. n => f[n - 1 + 1] = g[n - 1 + 1]
      BY <3>2 DEF P
    <3>4. QED
      BY <3>1, <3>3
  <2>8. g[n + 1] = g[n] \o s
    <3> DEFINE i == n + 1
    <3>1. i \in 1 .. n + 1 /\ i # 1 /\ i - 1 = n /\ tt[i] = s
      BY <1>1, <1>4
    <3> HIDE DEF i
    <3>2. g[i] = g[i - 1] \o tt[i]
      BY <2>3, <3>1, Zenon
    <3>3. QED
      BY <3>1, <3>2 DEF i
  <2>9. QED
    BY <1>2, <2>1, <2>7, <2>8 DEF tt
<1>5. QED
  BY <1>3, <1>4
=============================================================================

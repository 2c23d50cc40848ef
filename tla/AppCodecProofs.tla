--------------------------- MODULE AppCodecProofs ---------------------------
(* Proofs about application fragments, for any messages and fragments of    *)
(* other stations, of any length.                                           *)
EXTENDS AppCodec, SelectionProofs

-----------------------------------------------------------------------------
(* Recursive functions *)

\* Induction up to a number.
LEMMA InductionUpTo ==
  ASSUME NEW n \in Nat, NEW P, 0 \in P, \A i \in 1 .. n : i - 1 \in P => i \in P
  PROVE  \A i \in 0 .. n : i \in P
<1> DEFINE Q == {i \in Nat : i <= n => i \in P}
<1>1. 0 \in Q
  OBVIOUS
<1>2. ASSUME NEW i \in Nat, i \in Q PROVE i + 1 \in Q
  <2>1. i + 1 <= n => i + 1 \in 1 .. n /\ (i + 1) - 1 = i /\ i <= n
    OBVIOUS
  <2>2. QED
    BY <1>2, <2>1
<1> HIDE DEF Q
<1>3. \A i \in Nat : i \in Q
  BY <1>1, <1>2, NumberInduction
<1>4. QED
  BY <1>3 DEF Q

\* f starts at base and goes on by the steps.
Steps(f, base, step, n) == f[0] = base /\ \A i \in 1 .. n : f[i] = step[i][f[i - 1]]

\* A function can be defined by its first value and a step from each value to
\* the next.
LEMMA RecursionExists ==
  ASSUME NEW S, NEW base \in S, NEW step \in [Nat -> [S -> S]]
  PROVE  \A n \in Nat : \E f \in [0 .. n -> S] : Steps(f, base, step, n)
<1> DEFINE Recursive(f, n) == Steps(f, base, step, n)
           P == {n \in Nat : \E f \in [0 .. n -> S] : Recursive(f, n)}
<1>1. 0 \in P
  <2>1. [i \in 0 .. 0 |-> base] \in [0 .. 0 -> S] /\ Recursive([i \in 0 .. 0 |-> base], 0)
    BY DEF Steps
  <2> HIDE DEF Recursive
  <2>2. QED
    BY <2>1
<1>2. ASSUME NEW n \in Nat, n \in P PROVE n + 1 \in P
  <2>1. PICK f \in [0 .. n -> S] : Recursive(f, n)
    BY <1>2
  <2> DEFINE new == step[n + 1][f[n]]
             g == [i \in 0 .. n + 1 |-> IF i = n + 1 THEN new ELSE f[i]]
  <2>2. f[n] \in S /\ n + 1 \in Nat /\ step[n + 1] \in [S -> S]
    OBVIOUS
  <2>3. new \in S
    BY <2>2
  <2>4. g \in [0 .. n + 1 -> S]
    <3> HIDE DEF new
    <3>1. \A i \in 0 .. n + 1 : i # n + 1 => i \in 0 .. n
      OBVIOUS
    <3>2. QED
      BY <2>3, <3>1
  <2>5. g[n + 1] = new /\ \A i \in 0 .. n : g[i] = f[i]
    <3> HIDE DEF new
    <3>1. n + 1 \in 0 .. n + 1 /\ \A i \in 0 .. n : i \in 0 .. n + 1 /\ i # n + 1
      OBVIOUS
    <3>2. QED
      BY <3>1
  <2> HIDE DEF g
  <2>6. ASSUME NEW i \in 1 .. n + 1 PROVE g[i] = step[i][g[i - 1]]
    <3>1. CASE i = n + 1
      <4>1. i - 1 = n /\ n \in 0 .. n
        BY <3>1
      <4>2. g[i - 1] = f[n] /\ g[i] = new
        BY <2>5, <3>1, <4>1
      <4>3. QED
        BY <3>1, <4>2
    <3>2. CASE i # n + 1
      <4>1. i \in 1 .. n /\ i \in 0 .. n /\ i - 1 \in 0 .. n
        BY <3>2
      <4>2. g[i] = f[i] /\ g[i - 1] = f[i - 1]
        BY <2>5, <4>1
      <4>3. QED
        BY <2>1, <4>1, <4>2 DEF Steps
    <3>3. QED
      BY <3>1, <3>2
  <2>7. g[0] = base
    <3>1. 0 \in 0 .. n
      OBVIOUS
    <3>2. QED
      BY <2>1, <2>5, <3>1 DEF Steps
  <2>8. Recursive(g, n + 1)
    BY <2>6, <2>7 DEF Steps
  <2> HIDE DEF Recursive
  <2>9. QED
    BY <2>4, <2>8
<1> HIDE DEF P, Recursive
<1>3. \A n \in Nat : n \in P
  BY <1>1, <1>2, NumberInduction
<1>4. QED
  BY <1>3 DEF P, Recursive

-----------------------------------------------------------------------------
(* Numbers and their octets *)

\* s[i] is v without its low i octets.
Shifting(s, v, n) == s = [k \in 0 .. n |-> IF k = 0 THEN v ELSE s[k - 1] \div 256]

LEMMA ShiftingExists ==
  ASSUME NEW v \in Int, NEW n \in Nat
  PROVE  \E s : Shifting(s, v, n)
<1> DEFINE step == [i \in Nat |-> [x \in Int |-> x \div 256]]
<1>1. step \in [Nat -> [Int -> Int]]
  OBVIOUS
<1>2. ASSUME NEW i \in Nat, NEW x \in Int PROVE step[i][x] = x \div 256
  OBVIOUS
<1> HIDE DEF step
<1>3. PICK s \in [0 .. n -> Int] : Steps(s, v, step, n)
  BY <1>1, RecursionExists
<1>4. s[0] = v /\ \A i \in 1 .. n : s[i] = step[i][s[i - 1]]
  BY <1>3 DEF Steps
<1>5. ASSUME NEW i \in 1 .. n PROVE s[i] = s[i - 1] \div 256
  <2>1. i \in Nat /\ s[i - 1] \in Int
    OBVIOUS
  <2>2. step[i][s[i - 1]] = s[i - 1] \div 256
    BY ZenonT(60), <1>2, <2>1
  <2>3. QED
    BY <1>4, <2>2
<1>6. \A k \in 0 .. n : s[k] = IF k = 0 THEN v ELSE s[k - 1] \div 256
  BY <1>4, <1>5
<1>7. s = [k \in 0 .. n |-> IF k = 0 THEN v ELSE s[k - 1] \div 256]
  BY <1>6
<1>8. QED
  BY <1>7 DEF Shifting

LEMMA ShiftedShifting ==
  ASSUME NEW v \in Int, NEW n \in Nat
  PROVE  \E s : Shifting(s, v, n) /\ Shifted(v, n) = s[n]
<1> DEFINE s == CHOOSE s : Shifting(s, v, n)
<1>1. Shifting(s, v, n)
  BY ShiftingExists
<1>2. Shifted(v, n) = s[n]
  BY DEF Shifted, Shifting
<1>3. QED
  BY <1>1, <1>2

\* Each octet less divides by 256.
LEMMA ShiftedIs ==
  ASSUME NEW v \in Int
  PROVE  /\ Shifted(v, 0) = v
         /\ \A i \in Nat : Shifted(v, i) \in Int /\ Shifted(v, i + 1) = Shifted(v, i) \div 256
<1>1. Shifted(v, 0) = v
  BY ShiftedShifting DEF Shifting
<1>2. ASSUME NEW i \in Nat PROVE Shifted(v, i + 1) = Shifted(v, i) \div 256
  <2>1. PICK s : Shifting(s, v, i) /\ Shifted(v, i) = s[i]
    BY ShiftedShifting
  <2>2. PICK t : Shifting(t, v, i + 1) /\ Shifted(v, i + 1) = t[i + 1]
    BY ShiftedShifting
  <2>3. \A k \in 0 .. i : s[k] = IF k = 0 THEN v ELSE s[k - 1] \div 256
    BY <2>1 DEF Shifting
  <2>4. \A k \in 0 .. i + 1 : t[k] = IF k = 0 THEN v ELSE t[k - 1] \div 256
    BY <2>2 DEF Shifting
  <2> DEFINE P == {k \in 0 .. i : s[k] = t[k]}
  <2>5. 0 \in P
    BY <2>3, <2>4
  <2>6. \A k \in 1 .. i : k - 1 \in P => k \in P
    BY <2>3, <2>4
  <2> HIDE DEF P
  <2>7. i \in P
    BY <2>5, <2>6, InductionUpTo
  <2>8. t[i + 1] = t[i] \div 256
    BY <2>4
  <2>9. QED
    BY <2>1, <2>2, <2>7, <2>8 DEF P
<1> DEFINE P == {i \in Nat : Shifted(v, i) \in Int}
<1>3. 0 \in P
  BY <1>1
<1>4. \A i \in Nat : i \in P => i + 1 \in P
  BY <1>2
<1> HIDE DEF P
<1>5. \A i \in Nat : i \in P
  BY <1>3, <1>4, NumberInduction
<1>6. QED
  BY <1>1, <1>2, <1>5 DEF P

Divides(v, i) == Shifted(v, i) \in Int /\ Shifted(v, i + 1) = Shifted(v, i) \div 256

\* The same, for steps that need one octet.
LEMMA ShiftedNext == \A v \in Int, i \in Nat : Divides(v, i)
<1>1. ASSUME NEW v \in Int, NEW i \in Nat PROVE Divides(v, i)
  BY ShiftedIs DEF Divides
<1>2. QED
  BY <1>1

LEMMA DivideOctets ==
  \A a \in 0 .. 255, b \in Int : (a + 256 * b) \div 256 = b /\ (a + 256 * b) % 256 = a
OBVIOUS

\* Octets and what is above them determine a number.
LEMMA ShiftedDetermines ==
  ASSUME NEW u \in Int, NEW v \in Int, NEW n \in Nat, Shifted(u, n) = Shifted(v, n),
         \A i \in 1 .. n : Shifted(u, i - 1) % 256 = Shifted(v, i - 1) % 256
  PROVE  u = v
<1> DEFINE P == {i \in 0 .. n : Shifted(u, n - i) = Shifted(v, n - i)}
<1>1. 0 \in P
  OBVIOUS
<1>2. ASSUME NEW i \in 1 .. n, i - 1 \in P PROVE i \in P
  <2>1. PICK k \in Nat : k = n - i
    OBVIOUS
  <2>2. k + 1 \in 1 .. n /\ (k + 1) - 1 = k /\ k + 1 = n - (i - 1)
    BY <2>1
  <2>3. Shifted(u, k + 1) = Shifted(v, k + 1)
    BY <1>2, <2>2
  <2>4. Shifted(u, k) % 256 = Shifted(v, k) % 256
    BY <2>2
  <2>5. /\ Shifted(u, k) \in Int /\ Shifted(u, k + 1) = Shifted(u, k) \div 256
        /\ Shifted(v, k) \in Int /\ Shifted(v, k + 1) = Shifted(v, k) \div 256
    <3>1. Divides(u, k) /\ Divides(v, k)
      BY ShiftedNext
    <3>2. QED
      BY <3>1 DEF Divides
  <2>6. Shifted(u, k) = Shifted(v, k)
    BY <2>3, <2>4, <2>5
  <2>7. QED
    BY <2>1, <2>6
<1> HIDE DEF P
<1>3. n \in P
  BY <1>1, <1>2, InductionUpTo
<1>4. Shifted(u, 0) = Shifted(v, 0)
  BY <1>3 DEF P
<1>5. QED
  BY <1>4, ShiftedIs

\* top[i] is the number that the last i octets of o stand for.
Numbering(top, o, type, n) ==
  top = [i \in 0 .. n |-> IF i = 0 THEN IF type \in Signed /\ o[n] >= 128 THEN -1 ELSE 0
                          ELSE o[n + 1 - i] + 256 * top[i - 1]]

LEMMA NumberingExists ==
  ASSUME NEW o \in Seq(Octet), NEW type
  PROVE  \E top : Numbering(top, o, type, Len(o))
<1> DEFINE n == Len(o)
           base == IF type \in Signed /\ o[n] >= 128 THEN -1 ELSE 0
           add(i) == IF i \in 1 .. n THEN o[n + 1 - i] ELSE 0
           step == [i \in Nat |-> [x \in Int |-> add(i) + 256 * x]]
<1>1. n \in Nat /\ o \in [1 .. n -> Octet]
  BY LenProperties
<1> HIDE DEF n
<1>2. ASSUME NEW i \in Nat PROVE add(i) \in Int
  <2>1. CASE i \in 1 .. n
    <3>1. n + 1 - i \in 1 .. n
      BY <1>1, <2>1
    <3>2. o[n + 1 - i] \in Octet
      BY <1>1, <3>1
    <3>3. o[n + 1 - i] \in Int
      <4>1. Octet \subseteq Int
        BY DEF Octet
      <4>2. QED
        BY <3>2, <4>1
    <3>4. QED
      BY <2>1, <3>3
  <2>2. CASE i \notin 1 .. n
    BY <2>2
  <2>3. QED
    BY <2>1, <2>2
<1> HIDE DEF add
<1>3. step \in [Nat -> [Int -> Int]]
  BY <1>2
<1>4. ASSUME NEW i \in Nat, NEW x \in Int PROVE step[i][x] = add(i) + 256 * x
  OBVIOUS
<1>5. base \in Int
  OBVIOUS
<1> HIDE DEF step, base
<1>6. PICK top \in [0 .. n -> Int] : Steps(top, base, step, n)
  BY <1>1, <1>3, <1>5, RecursionExists
<1>7. top[0] = base /\ \A i \in 1 .. n : top[i] = step[i][top[i - 1]]
  BY <1>6 DEF Steps
<1>8. ASSUME NEW i \in 1 .. n PROVE top[i] = o[n + 1 - i] + 256 * top[i - 1]
  <2>1. i \in Nat /\ top[i - 1] \in Int
    BY <1>1
  <2>2. step[i][top[i - 1]] = add(i) + 256 * top[i - 1]
    BY ZenonT(60), <1>4, <2>1
  <2>3. QED
    BY <1>7, <2>2 DEF add
<1>9. \A i \in 0 .. n : top[i] = IF i = 0 THEN IF type \in Signed /\ o[n] >= 128 THEN -1 ELSE 0
                                 ELSE o[n + 1 - i] + 256 * top[i - 1]
  BY <1>1, <1>7, <1>8 DEF base
<1>10. top = [i \in 0 .. n |-> IF i = 0 THEN IF type \in Signed /\ o[n] >= 128 THEN -1 ELSE 0
                               ELSE o[n + 1 - i] + 256 * top[i - 1]]
  BY <1>9
<1>11. QED
  BY <1>10 DEF Numbering, n

\* The octets of the number are those it was made of; above them are its signs.
LEMMA NumberIs ==
  ASSUME NEW o \in Seq(Octet), NEW type, o # <<>>
  PROVE  /\ Number(o, type) \in Int
         /\ \A j \in 1 .. Len(o) : Shifted(Number(o, type), j - 1) % 256 = o[j]
         /\ Shifted(Number(o, type), Len(o))
              = IF type \in Signed /\ o[Len(o)] >= 128 THEN -1 ELSE 0
<1> DEFINE n == Len(o)
           top == CHOOSE top : Numbering(top, o, type, n)
           number == Number(o, type)
<1>1. Numbering(top, o, type, n)
  BY NumberingExists
<1>2. number = top[n]
  BY DEF Number, Numbering
<1>3. n \in Nat /\ n >= 1 /\ o \in [1 .. n -> Octet]
  BY LenProperties, EmptySeq
<1> HIDE DEF top
<1>4. \A i \in 0 .. n : top[i] = IF i = 0 THEN IF type \in Signed /\ o[n] >= 128 THEN -1 ELSE 0
                                 ELSE o[n + 1 - i] + 256 * top[i - 1]
  BY ZenonT(40), <1>1 DEF Numbering
<1> HIDE DEF n, number
<1> DEFINE Q == {i \in 0 .. n : top[i] \in Int}
<1>5. 0 \in Q
  BY <1>3, <1>4
<1>6. ASSUME NEW i \in 1 .. n, i - 1 \in Q PROVE i \in Q
  <2>1. top[i] = o[n + 1 - i] + 256 * top[i - 1]
    BY <1>3, <1>4
  <2>2. o[n + 1 - i] \in 0 .. 255 /\ top[i - 1] \in Int
    BY SMTT(30), <1>3, <1>6 DEF Octet
  <2>3. \A a \in 0 .. 255, b \in Int : a + 256 * b \in Int
    OBVIOUS
  <2>4. top[i] \in Int
    BY ZenonT(60), <2>1, <2>2, <2>3
  <2>5. QED
    BY <1>3, <2>4
<1> HIDE DEF Q
<1>7. \A i \in 0 .. n : i \in Q
  BY <1>3, <1>5, <1>6, InductionUpTo
<1>8. \A i \in 0 .. n : top[i] \in Int
  BY <1>7 DEF Q
<1>9. number \in Int
  BY <1>2, <1>3, <1>8
<1> DEFINE P == {j \in 0 .. n : Shifted(number, j) = top[n - j]}
<1>10. 0 \in P
  <2>1. Shifted(number, 0) = number
    BY <1>9, ShiftedIs
  <2>2. n - 0 = n
    BY <1>3
  <2>3. QED
    BY <1>2, <1>3, <2>1, <2>2
<1>11. ASSUME NEW j \in 1 .. n
       PROVE  top[n - (j - 1)] = o[j] + 256 * top[n - j] /\ o[j] \in 0 .. 255 /\ top[n - j] \in Int
  <2> DEFINE i == n - (j - 1)
  <2>1. i \in 1 .. n /\ n + 1 - i = j /\ i - 1 = n - j /\ n - j \in 0 .. n
    BY <1>3
  <2> HIDE DEF i
  <2>2. i \in 0 .. n /\ i # 0
    BY <2>1
  <2>3. top[i] = o[n + 1 - i] + 256 * top[i - 1]
    BY <1>4, <2>2
  <2>4. QED
    BY SMTT(30), <1>3, <1>8, <2>1, <2>3 DEF Octet, i
<1>12. ASSUME NEW j \in 1 .. n, j - 1 \in P PROVE j \in P
  <2>1. Shifted(number, j - 1) = top[n - (j - 1)]
    BY <1>12
  <2>2. Shifted(number, (j - 1) + 1) = Shifted(number, j - 1) \div 256
    BY <1>9, ShiftedIs
  <2>3. (j - 1) + 1 = j
    BY <1>3
  <2>4. (o[j] + 256 * top[n - j]) \div 256 = top[n - j]
    <3>1. o[j] \in 0 .. 255 /\ top[n - j] \in Int
      BY <1>11
    <3>2. QED
      BY <3>1, DivideOctets, ZenonT(60)
  <2>5. Shifted(number, j) = top[n - j]
    BY <1>11, <2>1, <2>2, <2>3, <2>4
  <2>6. QED
    BY <1>3, <2>5
<1> HIDE DEF P
<1>13. \A j \in 0 .. n : j \in P
  BY <1>3, <1>10, <1>12, InductionUpTo
<1>14. \A j \in 0 .. n : Shifted(number, j) = top[n - j]
  BY <1>13 DEF P
<1>15. ASSUME NEW j \in 1 .. n PROVE Shifted(number, j - 1) % 256 = o[j]
  <2>1. j - 1 \in 0 .. n
    BY <1>3
  <2>2. Shifted(number, j - 1) = top[n - (j - 1)]
    BY <1>14, <2>1
  <2>3. (o[j] + 256 * top[n - j]) % 256 = o[j]
    BY ZenonT(60), <1>11, DivideOctets
  <2>4. QED
    BY <1>11, <2>2, <2>3
<1>16. Shifted(number, n) = IF type \in Signed /\ o[n] >= 128 THEN -1 ELSE 0
  BY <1>3, <1>4, <1>14
<1>17. QED
  BY <1>9, <1>15, <1>16 DEF n, number

Types == {"uint8", "state", "uint16", "int16", "uint32", "int32", "float32", "uint48",
          "time", "float64"}

LEMMA WidthIs ==
  /\ \A type \in Types : Width[type] \in {1, 2, 4, 6, 8}
  /\ Width["uint8"] = 1 /\ Width["uint16"] = 2 /\ Width["time"] = 6 /\ Width["state"] = 1
BY DEF Types, Width

LEMMA OctetsAre ==
  ASSUME NEW v \in Int, NEW w \in Nat
  PROVE  /\ Octets(v, w) \in Seq(Octet) /\ Len(Octets(v, w)) = w
         /\ \A i \in 1 .. w : Octets(v, w)[i] = Shifted(v, i - 1) % 256
<1>1. ASSUME NEW i \in 1 .. w PROVE Shifted(v, i - 1) % 256 \in Octet
  <2>1. i - 1 \in Nat
    OBVIOUS
  <2>2. Shifted(v, i - 1) \in Int
    BY <2>1, ShiftedNext DEF Divides
  <2>3. QED
    BY <2>2 DEF Octet
<1>2. Octets(v, w) \in [1 .. w -> Octet]
  BY <1>1 DEF Octets
<1>3. Octets(v, w) \in Seq(Octet) /\ Len(Octets(v, w)) = w
  BY <1>2, FunctionSeq
<1>4. QED
  BY <1>3 DEF Octets

LEMMA OctetsType ==
  \A v \in Int, w \in Nat : Octets(v, w) \in Seq(Octet) /\ Len(Octets(v, w)) = w
<1>1. ASSUME NEW v \in Int, NEW w \in Nat
      PROVE  Octets(v, w) \in Seq(Octet) /\ Len(Octets(v, w)) = w
  BY OctetsAre
<1>2. QED
  BY <1>1

\* What is read of the octets of a number in its width is the number.
LEMMA NumberOctets ==
  ASSUME NEW v \in Int, NEW type \in Types, InWidth(v, type)
  PROVE  Number(Octets(v, Width[type]), type) = v
<1>1. PICK w \in Nat : w = Width[type] /\ w \in {1, 2, 4, 6, 8}
  BY WidthIs
<1>2. PICK o : o = Octets(v, w)
  OBVIOUS
<1>3. o \in Seq(Octet) /\ Len(o) = w /\ \A i \in 1 .. w : o[i] = Shifted(v, i - 1) % 256
  BY ZenonT(60), <1>2, OctetsAre
<1>4. PICK number \in Int :
        /\ number = Number(o, type)
        /\ \A j \in 1 .. w : Shifted(number, j - 1) % 256 = o[j]
        /\ Shifted(number, w) = IF type \in Signed /\ o[w] >= 128 THEN -1 ELSE 0
  <2>1. o # <<>>
    BY <1>1, <1>3, EmptySeq
  <2>2. /\ Number(o, type) \in Int
        /\ \A j \in 1 .. Len(o) : Shifted(Number(o, type), j - 1) % 256 = o[j]
        /\ Shifted(Number(o, type), Len(o))
             = IF type \in Signed /\ o[Len(o)] >= 128 THEN -1 ELSE 0
    BY <1>3, <2>1, NumberIs
  <2>3. QED
    BY <1>3, <2>2
<1>5. w - 1 \in Nat /\ (w - 1) + 1 = w /\ w \in 1 .. w
  BY <1>1
<1>6. Shifted(v, w - 1) \in Int /\ Shifted(v, w) = Shifted(v, w - 1) \div 256
  <2>1. Divides(v, w - 1)
    BY <1>5, ShiftedNext
  <2>2. QED
    BY <1>5, <2>1 DEF Divides
<1>7. o[w] = Shifted(v, w - 1) % 256
  BY <1>3, <1>5
<1>8. Shifted(v, w - 1) \in IF type \in Signed THEN -128 .. 127 ELSE 0 .. 255
  BY <1>1 DEF InWidth
<1>9. Shifted(v, w) = IF type \in Signed /\ o[w] >= 128 THEN -1 ELSE 0
  BY <1>6, <1>7, <1>8
<1>10. \A j \in 1 .. w : Shifted(number, j - 1) % 256 = Shifted(v, j - 1) % 256
  BY ZenonT(60), <1>3, <1>4
<1>11. number = v
  BY <1>4, <1>9, <1>10, ShiftedDetermines
<1>12. QED
  BY <1>1, <1>2, <1>4, <1>11

\* A number that was read is in its width and has the octets it was read from.
LEMMA NumberInWidth ==
  ASSUME NEW type \in Types, NEW o \in Seq(Octet), Len(o) = Width[type]
  PROVE  /\ Number(o, type) \in Int
         /\ InWidth(Number(o, type), type)
         /\ Octets(Number(o, type), Width[type]) = o
<1>1. PICK w \in Nat : w = Width[type] /\ w \in {1, 2, 4, 6, 8}
  BY WidthIs
<1>2. PICK v \in Int :
        /\ v = Number(o, type)
        /\ \A j \in 1 .. w : Shifted(v, j - 1) % 256 = o[j]
        /\ Shifted(v, w) = IF type \in Signed /\ o[w] >= 128 THEN -1 ELSE 0
  <2>1. o # <<>>
    BY <1>1, EmptySeq
  <2>2. QED
    BY <1>1, <2>1, NumberIs
<1>3. w - 1 \in Nat /\ (w - 1) + 1 = w /\ w \in 1 .. w
  BY <1>1
<1>4. Shifted(v, w - 1) \in Int /\ Shifted(v, w) = Shifted(v, w - 1) \div 256
  <2>1. Divides(v, w - 1)
    BY <1>3, ShiftedNext
  <2>2. QED
    BY <1>3, <2>1 DEF Divides
<1>5. Shifted(v, w - 1) % 256 = o[w]
  BY <1>2, <1>3
<1>6. Shifted(v, w - 1) \in IF type \in Signed THEN -128 .. 127 ELSE 0 .. 255
  <2>1. PICK x \in Int : x = Shifted(v, w - 1)
    BY <1>4
  <2>2. PICK y \in Int : y = o[w]
    BY <1>5, <2>1
  <2>3. x \div 256 = (IF type \in Signed /\ y >= 128 THEN -1 ELSE 0) /\ x % 256 = y
    BY <1>2, <1>4, <1>5, <2>1, <2>2
  <2>4. x \in IF type \in Signed THEN -128 .. 127 ELSE 0 .. 255
    <3>1. CASE type \in Signed
      BY <2>3, <3>1
    <3>2. CASE type \notin Signed
      BY <2>3, <3>2
    <3>3. QED
      BY <3>1, <3>2
  <2>5. QED
    BY <2>1, <2>4
<1>7. InWidth(v, type)
  BY <1>1, <1>6 DEF InWidth
<1>8. Octets(v, w) = o
  <2>1. /\ Octets(v, w) \in Seq(Octet) /\ Len(Octets(v, w)) = w
        /\ \A i \in 1 .. w : Octets(v, w)[i] = Shifted(v, i - 1) % 256
    BY ZenonT(60), <1>1, <1>2, OctetsAre
  <2>2. \A i \in 1 .. w : Octets(v, w)[i] = o[i]
    BY <1>2, <2>1
  <2>3. QED
    BY <1>1, <2>1, <2>2, SeqEqual
<1>9. QED
  BY <1>1, <1>2, <1>7, <1>8

\* No more than a day and a millisecond apart.
Near(u, v) == -86400001 <= u - v /\ u - v <= 86400001

\* Two numbers with the same four octets at the bottom differ by 2^32 at least.
LEMMA OctetsDetermine ==
  ASSUME NEW u \in Int, NEW v \in Int, Near(u, v), Octets(u, 6) = Octets(v, 6)
  PROVE  u = v
<1> DEFINE s(i) == Shifted(u, i)
           t(i) == Shifted(v, i)
<1>1. \A i \in 1 .. 6 : Shifted(u, i - 1) % 256 = Shifted(v, i - 1) % 256
  <2>1. /\ \A i \in 1 .. 6 : Octets(u, 6)[i] = Shifted(u, i - 1) % 256
        /\ \A i \in 1 .. 6 : Octets(v, 6)[i] = Shifted(v, i - 1) % 256
    BY ZenonT(60), OctetsAre
  <2>2. QED
    BY <2>1
<1>2. s(0) % 256 = t(0) % 256 /\ s(1) % 256 = t(1) % 256
      /\ s(2) % 256 = t(2) % 256 /\ s(3) % 256 = t(3) % 256
  <2>1. /\ Shifted(u, 1 - 1) % 256 = Shifted(v, 1 - 1) % 256
        /\ Shifted(u, 2 - 1) % 256 = Shifted(v, 2 - 1) % 256
        /\ Shifted(u, 3 - 1) % 256 = Shifted(v, 3 - 1) % 256
        /\ Shifted(u, 4 - 1) % 256 = Shifted(v, 4 - 1) % 256
    BY <1>1
  <2>2. QED
    BY <2>1
<1>3. s(0) = u /\ t(0) = v
  BY ShiftedIs
<1>4. /\ Divides(u, 0) /\ Divides(u, 1) /\ Divides(u, 2) /\ Divides(u, 3)
      /\ Divides(v, 0) /\ Divides(v, 1) /\ Divides(v, 2) /\ Divides(v, 3)
  BY ShiftedNext
<1>5. /\ s(0) \in Int /\ s(1) = s(0) \div 256 /\ t(0) \in Int /\ t(1) = t(0) \div 256
      /\ s(1) \in Int /\ s(2) = s(1) \div 256 /\ t(1) \in Int /\ t(2) = t(1) \div 256
      /\ s(2) \in Int /\ s(3) = s(2) \div 256 /\ t(2) \in Int /\ t(3) = t(2) \div 256
      /\ s(3) \in Int /\ s(4) = s(3) \div 256 /\ t(3) \in Int /\ t(4) = t(3) \div 256
  BY <1>4 DEF Divides
<1> HIDE DEF s, t
<1>6. s(0) - t(0) = 256 * (s(1) - t(1)) /\ s(1) - t(1) = 256 * (s(2) - t(2))
  BY <1>2, <1>5
<1>7. s(2) - t(2) = 256 * (s(3) - t(3)) /\ s(3) - t(3) = 256 * (s(4) - t(4))
  BY <1>2, <1>5
<1>8. s(4) \in Int /\ t(4) \in Int
  BY <1>5
<1> DEFINE a == s(1) - t(1)
           b == s(2) - t(2)
           c == s(3) - t(3)
           d == s(4) - t(4)
<1>9. a \in Int /\ b \in Int /\ c \in Int /\ d \in Int
  BY <1>5, <1>8
<1>10. u - v = 256 * a /\ a = 256 * b /\ b = 256 * c /\ c = 256 * d
  BY <1>3, <1>6, <1>7
<1> HIDE DEF a, b, c, d
<1>11. d = 0
  <2>1. PICK e \in Int : e = u - v
    OBVIOUS
  <2>2. -86400001 <= e /\ e <= 86400001
    BY <2>1, SMT DEF Near
  <2>3. -337501 <= a /\ a <= 337501
    BY <1>9, <1>10, <2>1, <2>2, SMT
  <2>4. -1319 <= b /\ b <= 1319
    BY <1>9, <1>10, <2>3, SMT
  <2>5. QED
    BY <1>9, <1>10, <2>4, SMT
<1>12. QED
  BY <1>9, <1>10, <1>11

-----------------------------------------------------------------------------
(* Octets one after another *)

Begins(s, t) == Len(s) <= Len(t) /\ \A j \in 1 .. Len(s) : t[j] = s[j]

\* f[i] is the concatenation of the first i of n sequences.
Concats(f, ss, n, B) ==
  /\ f \in [0 .. n -> Seq(B)]
  /\ f[0] = <<>>
  /\ \A i \in 1 .. n : f[i] = f[i - 1] \o ss[i]

LEMMA FlattenSteps ==
  ASSUME NEW B, NEW ss \in Seq(Seq(B))
  PROVE  \E f : Concats(f, ss, Len(ss), B) /\ f[Len(ss)] = FlattenSeq(ss)
<1> DEFINE n == Len(ss)
<1>1. n \in Nat /\ \A i \in 1 .. n : ss[i] \in Seq(B)
  BY LenProperties
<1>2. <<>> \in Seq(B)
  BY EmptySeq
<1>3. CASE n = 0
  <2>1. ss = <<>> /\ FlattenSeq(ss) = <<>>
    BY <1>3, EmptySeq DEF FlattenSeq
  <2>2. PICK f : f = [i \in 0 .. 0 |-> <<>>]
    OBVIOUS
  <2>3. f \in [0 .. 0 -> Seq(B)] /\ f[0] = <<>>
    BY <1>2, <2>2
  <2>4. Concats(f, ss, 0, B)
    BY <2>3 DEF Concats
  <2>5. QED
    BY <1>3, <2>1, <2>3, <2>4
<1>4. CASE n # 0
  <2>1. PICK g : Flattening(g, ss, n) /\ FlattenSeq(ss) = g[n]
    BY <1>1, <1>4, FlattenIs
  <2>2. PICK f : f = [i \in 0 .. n |-> IF i = 0 THEN <<>> ELSE g[i]]
    OBVIOUS
  <2> HIDE DEF n
  <2>3. \A i \in 1 .. n : g[i] = IF i = 1 THEN ss[i] ELSE g[i - 1] \o ss[i]
    BY <2>1 DEF Flattening
  <2>4. f[0] = <<>> /\ \A i \in 1 .. n : f[i] = g[i]
    BY <1>1, <2>2
  <2>5. ASSUME NEW i \in 1 .. n PROVE f[i] = f[i - 1] \o ss[i]
    <3>1. CASE i = 1
      <4>1. i - 1 = 0 /\ f[i] = ss[i]
        BY <2>3, <2>4, <3>1
      <4>2. <<>> \o ss[i] = ss[i]
        BY <1>1, ConcatEmptySeq
      <4>3. QED
        BY <2>4, <4>1, <4>2
    <3>2. CASE i # 1
      <4>1. i - 1 \in 1 .. n
        BY <1>1, <3>2
      <4>2. QED
        BY <2>3, <2>4, <3>2, <4>1
    <3>3. QED
      BY <3>1, <3>2
  <2> DEFINE P == {i \in 0 .. n : f[i] \in Seq(B)}
  <2>6. 0 \in P
    <3>1. 0 \in 0 .. n
      BY <1>1
    <3>2. f[0] \in Seq(B)
      BY <1>2, <2>4
    <3>3. QED
      BY <3>1, <3>2
  <2>7. ASSUME NEW i \in 1 .. n, i - 1 \in P PROVE i \in P
    <3>1. f[i - 1] \in Seq(B) /\ ss[i] \in Seq(B)
      BY <1>1, <2>7
    <3>2. f[i - 1] \o ss[i] \in Seq(B)
      BY <3>1, ConcatProperties
    <3>3. f[i] = f[i - 1] \o ss[i]
      BY <2>5, Zenon
    <3>4. i \in 0 .. n
      BY <1>1
    <3>5. QED
      BY <3>2, <3>3, <3>4
  <2> HIDE DEF P
  <2>8. \A i \in 0 .. n : i \in P
    BY <1>1, <2>6, <2>7, InductionUpTo
  <2>9. f \in [0 .. n -> Seq(B)]
    BY <2>2, <2>8 DEF P
  <2>10. Concats(f, ss, n, B)
    BY <2>4, <2>5, <2>9 DEF Concats
  <2>11. f[n] = FlattenSeq(ss)
    BY <1>1, <1>4, <2>1, <2>4
  <2>12. QED
    BY <2>10, <2>11 DEF n
<1>5. QED
  BY <1>3, <1>4

LEMMA ConcatOctets ==
  \A s, t \in Seq(Octet) :
    s \o t \in Seq(Octet) /\ Len(s \o t) = Len(s) + Len(t) /\ Len(s) \in Nat /\ Len(t) \in Nat
<1>1. ASSUME NEW s \in Seq(Octet), NEW t \in Seq(Octet)
      PROVE  /\ s \o t \in Seq(Octet) /\ Len(s \o t) = Len(s) + Len(t)
             /\ Len(s) \in Nat /\ Len(t) \in Nat
  BY ConcatProperties, LenProperties
<1>2. QED
  BY <1>1

LEMMA BeginsConcat ==
  ASSUME NEW B, NEW s \in Seq(B), NEW t \in Seq(B), NEW u \in Seq(B), Begins(s, t)
  PROVE  Begins(s, t \o u)
<1>1. Len(s) \in Nat /\ Len(t) \in Nat /\ Len(u) \in Nat
  BY LenProperties
<1>2. /\ Len(t \o u) = Len(t) + Len(u)
      /\ \A i \in 1 .. Len(t) + Len(u) : (t \o u)[i] = IF i <= Len(t) THEN t[i] ELSE u[i - Len(t)]
  BY ConcatProperties
<1>3. ASSUME NEW j \in 1 .. Len(s) PROVE (t \o u)[j] = s[j]
  <2>1. j \in 1 .. Len(t) + Len(u) /\ j <= Len(t)
    BY <1>1 DEF Begins
  <2>2. QED
    BY <1>2, <2>1 DEF Begins
<1>4. Len(s) <= Len(t \o u)
  BY <1>1, <1>2 DEF Begins
<1>5. QED
  BY <1>3, <1>4 DEF Begins

\* Each of f is the one before with one of ss after it.
Grows(f, ss, n, B) ==
  f \in [0 .. n -> Seq(B)] /\ \A i \in 1 .. n : f[i] = f[i - 1] \o ss[i]

\* Every concatenation begins the longer ones.
LEMMA GrowsBegin ==
  ASSUME NEW B, NEW ss, NEW n \in Nat, NEW f, Grows(f, ss, n, B),
         \A i \in 1 .. n : ss[i] \in Seq(B)
  PROVE  \A i \in 0 .. n : Begins(f[i], f[n])
<1> DEFINE P == {k \in 0 .. n : \A i \in 0 .. k : Begins(f[i], f[k])}
<1>1. \A i \in 0 .. n : f[i] \in Seq(B)
  BY DEF Grows
<1>2. \A i \in 0 .. n : Begins(f[i], f[i])
  <2>1. \A s \in Seq(B) : Begins(s, s)
    BY LenProperties DEF Begins
  <2>2. QED
    BY <1>1, <2>1
<1>3. 0 \in P
  BY <1>2
<1>4. ASSUME NEW k \in 1 .. n, k - 1 \in P PROVE k \in P
  <2>1. f[k] = f[k - 1] \o ss[k] /\ f[k - 1] \in Seq(B) /\ ss[k] \in Seq(B)
    <3>1. k - 1 \in 0 .. n
      OBVIOUS
    <3>2. f[k] = f[k - 1] \o ss[k]
      BY Zenon DEF Grows
    <3>3. QED
      BY <1>1, <3>1, <3>2
  <2>2. ASSUME NEW i \in 0 .. k PROVE Begins(f[i], f[k])
    <3>1. CASE i = k
      BY <1>2, <3>1
    <3>2. CASE i # k
      <4>1. i \in 0 .. k - 1 /\ i \in 0 .. n
        BY <3>2
      <4>2. Begins(f[i], f[k - 1]) /\ f[i] \in Seq(B)
        BY <1>1, <1>4, <4>1
      <4>3. QED
        BY <2>1, <4>2, BeginsConcat
    <3>3. QED
      BY <3>1, <3>2
  <2>3. QED
    BY <2>2
<1> HIDE DEF P
<1>5. \A i \in 0 .. n : i \in P
  BY <1>3, <1>4, InductionUpTo
<1>6. n \in P
  BY <1>5
<1>7. QED
  BY <1>6 DEF P

LEMMA ConcatsBegin ==
  ASSUME NEW B, NEW ss, NEW n \in Nat, NEW f, Concats(f, ss, n, B),
         \A i \in 1 .. n : ss[i] \in Seq(B)
  PROVE  \A i \in 0 .. n : Begins(f[i], f[n])
<1>1. Grows(f, ss, n, B)
  BY DEF Concats, Grows
<1>2. QED
  BY <1>1, GrowsBegin

\* As far as there are data, s is at the offset.
Agrees(offset, s) ==
  \A j \in 1 .. Len(s) : offset + j <= Len(data) => data[offset + j] = s[j]

LEMMA AgreesBegin ==
  ASSUME NEW offset, NEW s \in Seq(Octet), NEW t \in Seq(Octet), Begins(s, t), Agrees(offset, t)
  PROVE  Agrees(offset, s)
<1>1. Len(s) \in Nat /\ Len(t) \in Nat
  BY LenProperties
<1>2. \A j \in 1 .. Len(s) : j \in 1 .. Len(t) /\ t[j] = s[j]
  BY <1>1 DEF Begins
<1>3. QED
  BY <1>2 DEF Agrees

LEMMA AgreesConcat ==
  ASSUME NEW offset \in Nat, NEW s \in Seq(Octet), NEW t \in Seq(Octet)
  PROVE  Agrees(offset, s \o t) <=> Agrees(offset, s) /\ Agrees(offset + Len(s), t)
<1>1. Len(s) \in Nat /\ Len(t) \in Nat
  BY LenProperties
<1>2. /\ Len(s \o t) = Len(s) + Len(t)
      /\ \A i \in 1 .. Len(s) + Len(t) : (s \o t)[i] = IF i <= Len(s) THEN s[i] ELSE t[i - Len(s)]
  BY ConcatProperties
<1>3. \A j \in 1 .. Len(s) : j \in 1 .. Len(s) + Len(t) /\ (s \o t)[j] = s[j]
  BY <1>1, <1>2
<1>4. ASSUME NEW j \in 1 .. Len(t)
      PROVE  /\ Len(s) + j \in 1 .. Len(s) + Len(t) /\ (s \o t)[Len(s) + j] = t[j]
             /\ offset + Len(s) + j = offset + (Len(s) + j)
  <2>1. Len(s) + j \in 1 .. Len(s) + Len(t) /\ ~(Len(s) + j <= Len(s)) /\ (Len(s) + j) - Len(s) = j
    BY <1>1
  <2>2. (s \o t)[Len(s) + j] = t[(Len(s) + j) - Len(s)]
    BY <1>2, <2>1
  <2>3. QED
    BY <1>1, <2>1, <2>2
<1>5. ASSUME Agrees(offset, s \o t) PROVE Agrees(offset, s)
  <2>1. \A j \in 1 .. Len(s) : offset + j <= Len(data) => data[offset + j] = (s \o t)[j]
    BY <1>2, <1>3, <1>5 DEF Agrees
  <2>2. QED
    BY <1>3, <2>1 DEF Agrees
<1>6. ASSUME Agrees(offset, s \o t) PROVE Agrees(offset + Len(s), t)
  <2>1. ASSUME NEW j \in 1 .. Len(t), offset + Len(s) + j <= Len(data)
        PROVE  data[offset + Len(s) + j] = t[j]
    <3>1. PICK k \in 1 .. Len(s) + Len(t) :
            k = Len(s) + j /\ (s \o t)[k] = t[j] /\ offset + Len(s) + j = offset + k
      BY <1>4
    <3>2. offset + k <= Len(data) => data[offset + k] = (s \o t)[k]
      BY <1>2, <1>6 DEF Agrees
    <3>3. QED
      BY <2>1, <3>1, <3>2
  <2>2. QED
    BY <2>1 DEF Agrees
<1>7. ASSUME Agrees(offset, s), Agrees(offset + Len(s), t) PROVE Agrees(offset, s \o t)
  <2>1. ASSUME NEW k \in 1 .. Len(s) + Len(t), offset + k <= Len(data)
        PROVE  data[offset + k] = (s \o t)[k]
    <3>1. CASE k <= Len(s)
      <4>1. k \in 1 .. Len(s)
        BY <1>1, <3>1
      <4>2. QED
        BY <1>3, <1>7, <2>1, <4>1 DEF Agrees
    <3>2. CASE ~(k <= Len(s))
      <4>1. PICK j \in 1 .. Len(t) : k = Len(s) + j
        <5>1. k - Len(s) \in 1 .. Len(t) /\ k = Len(s) + (k - Len(s))
          BY <1>1, <3>2
        <5>2. QED
          BY <5>1
      <4>2. (s \o t)[k] = t[j] /\ offset + Len(s) + j = offset + k
        BY <1>4, <4>1
      <4>3. QED
        BY <1>7, <2>1, <4>2 DEF Agrees
    <3>3. QED
      BY <3>1, <3>2
  <2>2. QED
    BY <1>2, <2>1 DEF Agrees
<1>8. QED
  BY <1>5, <1>6, <1>7

-----------------------------------------------------------------------------
(* Writing and reading numbers *)

\* f[i] are the octets of the first i numbers.
Writes(f, values, types) ==
  /\ f \in [0 .. Len(types) -> Seq(Octet)]
  /\ f[0] = <<>>
  /\ \A i \in 1 .. Len(types) : f[i] = f[i - 1] \o Octets(values[i], Width[types[i]])
  /\ f[Len(types)] = WriteAll(values, types)

LEMMA WriteSteps ==
  ASSUME NEW types \in Seq(Types), NEW values, \A i \in 1 .. Len(types) : values[i] \in Int
  PROVE  /\ \E f : Writes(f, values, types)
         /\ WriteAll(values, types) \in Seq(Octet)
<1> DEFINE n == Len(types)
           piece(i) == Octets(values[i], Width[types[i]])
           ss == [i \in 1 .. n |-> piece(i)]
<1>1. n \in Nat /\ \A i \in 1 .. n : types[i] \in Types
  BY LenProperties
<1>2. ASSUME NEW i \in 1 .. n PROVE piece(i) \in Seq(Octet)
  <2>1. Width[types[i]] \in Nat
    BY <1>1, WidthIs
  <2>2. QED
    BY ZenonT(40), <2>1, OctetsAre
<1>3. ss \in [1 .. n -> Seq(Octet)]
  <2> HIDE DEF n, piece
  <2>1. QED
    BY <1>2
<1>4. ss \in Seq(Seq(Octet)) /\ Len(ss) = n
  <2> HIDE DEF n, ss
  <2>1. QED
    BY <1>1, <1>3, FunctionSeq
<1>5. PICK f : Concats(f, ss, n, Octet) /\ f[n] = FlattenSeq(ss)
  <2> HIDE DEF n, ss
  <2>1. \E f : Concats(f, ss, Len(ss), Octet) /\ f[Len(ss)] = FlattenSeq(ss)
    BY <1>4, FlattenSteps
  <2>2. QED
    BY <1>4, <2>1
<1>6. FlattenSeq(ss) = WriteAll(values, types)
  BY DEF WriteAll
<1>7. \A i \in 1 .. n : ss[i] = piece(i)
  OBVIOUS
<1> HIDE DEF n, ss
<1>8. f \in [0 .. n -> Seq(Octet)] /\ f[0] = <<>> /\ \A i \in 1 .. n : f[i] = f[i - 1] \o ss[i]
  BY <1>5, Zenon DEF Concats
<1>9. \A i \in 1 .. n : f[i] = f[i - 1] \o piece(i)
  <2> HIDE DEF piece
  <2>1. QED
    BY <1>7, <1>8, Zenon
<1>10. f[n] = WriteAll(values, types) /\ f[n] \in Seq(Octet)
  BY <1>1, <1>5, <1>6, <1>8
<1>11. Writes(f, values, types)
  BY <1>8, <1>9, <1>10, Zenon DEF Writes, n
<1>12. QED
  BY <1>10, <1>11

\* What the numbers are leaves the number of octets alone.
LEMMA WriteAllLength ==
  ASSUME NEW types \in Seq(Types), NEW u, NEW v,
         \A i \in 1 .. Len(types) : u[i] \in Int /\ v[i] \in Int
  PROVE  Len(WriteAll(u, types)) = Len(WriteAll(v, types))
<1>1. PICK f : Writes(f, u, types)
  BY WriteSteps
<1>2. PICK g : Writes(g, v, types)
  BY WriteSteps
<1> DEFINE n == Len(types)
           P == {i \in 0 .. n : Len(f[i]) = Len(g[i])}
<1>3. n \in Nat /\ \A i \in 1 .. n : types[i] \in Types
  BY LenProperties
<1>4. 0 \in P
  BY <1>1, <1>2, <1>3 DEF Writes
<1>5. ASSUME NEW i \in 1 .. n, i - 1 \in P PROVE i \in P
  <2>1. PICK w \in Nat : w = Width[types[i]]
    BY <1>3, WidthIs
  <2>2. PICK a, b : a = Octets(u[i], w) /\ b = Octets(v[i], w)
    OBVIOUS
  <2>3. a \in Seq(Octet) /\ b \in Seq(Octet) /\ Len(a) = w /\ Len(b) = w
    <3>1. u[i] \in Int /\ v[i] \in Int
      OBVIOUS
    <3>2. QED
      BY <2>1, <2>2, <3>1, OctetsType
  <2>4. i - 1 \in 0 .. n /\ i \in 0 .. n
    BY <1>3
  <2>5. f[i] = f[i - 1] \o a /\ f[i - 1] \in Seq(Octet)
    BY <1>1, <2>1, <2>2, <2>4 DEF Writes
  <2>6. g[i] = g[i - 1] \o b /\ g[i - 1] \in Seq(Octet)
    BY <1>2, <2>1, <2>2, <2>4 DEF Writes
  <2>7. Len(f[i]) = Len(f[i - 1]) + w /\ Len(g[i]) = Len(g[i - 1]) + w
    BY ZenonT(40), <2>3, <2>5, <2>6, ConcatOctets
  <2>8. Len(f[i - 1]) = Len(g[i - 1])
    BY <1>5
  <2>9. QED
    BY <2>4, <2>7, <2>8
<1> HIDE DEF P
<1>6. \A i \in 0 .. n : i \in P
  BY <1>3, <1>4, <1>5, InductionUpTo
<1>7. n \in P
  BY <1>3, <1>6
<1>8. QED
  BY <1>1, <1>2, <1>7 DEF P, Writes

\* The octets of numbers of these types.
Size(types) == Len(WriteAll([i \in 1 .. Len(types) |-> 0], types))

LEMMA WriteAllSize ==
  ASSUME NEW types \in Seq(Types), NEW values, \A i \in 1 .. Len(types) : values[i] \in Int
  PROVE  /\ WriteAll(values, types) \in Seq(Octet)
         /\ Len(WriteAll(values, types)) = Size(types) /\ Size(types) \in Nat
<1> DEFINE zeros == [i \in 1 .. Len(types) |-> 0]
<1>1. \A i \in 1 .. Len(types) : zeros[i] \in Int
  OBVIOUS
<1>2. WriteAll(values, types) \in Seq(Octet) /\ WriteAll(zeros, types) \in Seq(Octet)
  <2> HIDE DEF zeros
  <2>1. QED
    BY <1>1, WriteSteps
<1>3. Len(WriteAll(values, types)) = Len(WriteAll(zeros, types))
  <2> HIDE DEF zeros
  <2>1. \A i \in 1 .. Len(types) : values[i] \in Int /\ zeros[i] \in Int
    BY <1>1
  <2>2. QED
    BY <2>1, WriteAllLength
<1>4. QED
  BY <1>2, <1>3, LenProperties DEF Size

\* Octets at a place in the data.
LEMMA OctetsAt ==
  ASSUME data \in Seq(Octet), NEW offset \in Nat, NEW w \in Nat, offset + w <= Len(data)
  PROVE  /\ SubSeq(data, offset + 1, offset + w) \in Seq(Octet)
         /\ Len(SubSeq(data, offset + 1, offset + w)) = w
         /\ \A j \in 1 .. w : SubSeq(data, offset + 1, offset + w)[j] = data[offset + j]
<1>1. Len(data) \in Nat /\ \A i \in 1 .. Len(data) : data[i] \in Octet
  BY LenProperties
<1>2. PICK m \in Int, n \in Int : m = offset + 1 /\ n = offset + w
  OBVIOUS
<1>3. \A i \in m .. n : i \in 1 .. Len(data)
  BY <1>1, <1>2
<1>4. /\ SubSeq(data, m, n) \in Seq(Octet)
      /\ Len(SubSeq(data, m, n)) = IF m <= n THEN n - m + 1 ELSE 0
      /\ \A i \in 1 .. n - m + 1 : SubSeq(data, m, n)[i] = data[m + i - 1]
  <2>1. \A i \in m .. n : data[i] \in Octet
    BY <1>1, <1>3
  <2>2. QED
    BY <2>1, SubSeqProperties
<1>5. n - m + 1 = w /\ (IF m <= n THEN n - m + 1 ELSE 0) = w
  BY <1>2
<1>6. \A i \in 1 .. w : m + i - 1 = offset + i
  BY <1>2
<1>7. Len(SubSeq(data, m, n)) = w
  BY <1>4, <1>5
<1>8. \A i \in 1 .. w : SubSeq(data, m, n)[i] = data[offset + i]
  BY <1>4, <1>5, <1>6
<1>9. QED
  BY <1>2, <1>4, <1>7, <1>8

LEMMA AppendNumber ==
  \A s \in Seq(Int), v \in Int :
    /\ Len(Append(s, v)) = Len(s) + 1 /\ Append(s, v)[Len(s) + 1] = v
    /\ \A i \in 1 .. Len(s) : Append(s, v)[i] = s[i]
<1>1. ASSUME NEW s \in Seq(Int), NEW v \in Int
      PROVE  /\ Len(Append(s, v)) = Len(s) + 1 /\ Append(s, v)[Len(s) + 1] = v
             /\ \A i \in 1 .. Len(s) : Append(s, v)[i] = s[i]
  BY AppendProperties
<1>2. QED
  BY <1>1, Zenon

Reading == [at : Nat, values : Seq(Int), fault : {"none", "refused", "escaped"}]

\* v could have been written in the type, and is not a time that cannot be read.
Exact(v, type) ==
  v \in Int /\ InWidth(v, type) /\ (type = "time" => ~Late(Octets(v, Width.time)))

\* x is r with the number v read, that the octets at r.at stand for.
Takes(r, x, type, v) ==
  /\ Exact(v, type)
  /\ x.values = Append(r.values, v)
  /\ x.at = r.at + Width[type]
  /\ Agrees(r.at, Octets(v, Width[type]))

LEMMA ReadIs ==
  ASSUME data \in Seq(Octet), NEW r \in Reading, r.at <= Len(data), NEW type \in Types
  PROVE  /\ Read(r, type) \in Reading /\ Read(r, type).at <= Len(data)
         /\ r.fault # "none" => Read(r, type) = r
         /\ Read(r, type).fault = "none" =>
              r.fault = "none" /\ \E v \in Int : Takes(r, Read(r, type), type, v)
<1>1. CASE r.fault # "none"
  <2>1. Read(r, type) = r
    BY <1>1 DEF Read
  <2>2. QED
    BY <1>1, <2>1
<1>2. CASE r.fault = "none"
  <2>1. PICK w \in Nat : w = Width[type] /\ w \in {1, 2, 4, 6, 8}
    BY WidthIs
  <2>2. PICK end \in Nat : end = r.at + w
    BY DEF Reading
  <2>3. PICK octets : octets = SubSeq(data, r.at + 1, end)
    OBVIOUS
  <2>4. Read(r, type)
          = IF end > Len(data)
            THEN [r EXCEPT !.fault = IF w = 1 THEN "refused" ELSE "escaped"]
            ELSE IF type = "time" /\ Late(octets) THEN [r EXCEPT !.fault = "refused"]
            ELSE [r EXCEPT !.at = end, !.values = Append(@, Number(octets, type))]
    BY <1>2, <2>1, <2>2, <2>3 DEF Read
  <2>5. CASE end > Len(data)
    <3>1. Read(r, type) = [r EXCEPT !.fault = IF w = 1 THEN "refused" ELSE "escaped"]
      BY <2>4, <2>5
    <3>2. QED
      BY <1>2, <3>1 DEF Reading
  <2>6. CASE ~(end > Len(data)) /\ type = "time" /\ Late(octets)
    <3>1. Read(r, type) = [r EXCEPT !.fault = "refused"]
      BY <2>4, <2>6
    <3>2. QED
      BY <1>2, <3>1 DEF Reading
  <2>7. CASE ~(end > Len(data)) /\ ~(type = "time" /\ Late(octets))
    <3>1. r.at \in Nat /\ Len(data) \in Nat /\ end <= Len(data)
      BY <2>7, LenProperties DEF Reading
    <3>2. /\ octets \in Seq(Octet) /\ Len(octets) = w
          /\ \A j \in 1 .. w : octets[j] = data[r.at + j]
      <4>1. r.at + w <= Len(data) /\ octets = SubSeq(data, r.at + 1, r.at + w)
        BY <2>2, <2>3, <3>1
      <4>2. QED
        BY <2>1, <3>1, <4>1, OctetsAt
    <3>3. PICK v : v = Number(octets, type)
      OBVIOUS
    <3>4. v \in Int /\ InWidth(v, type) /\ Octets(v, w) = octets
      BY <2>1, <3>2, <3>3, NumberInWidth
    <3>5. type = "time" => w = Width.time
      BY <2>1
    <3>6. Exact(v, type)
      BY <2>7, <3>4, <3>5 DEF Exact
    <3>7. Read(r, type) = [r EXCEPT !.at = end, !.values = Append(@, v)]
      BY <2>4, <2>7, <3>3
    <3>8. /\ Read(r, type).at = end /\ Read(r, type).values = Append(r.values, v)
          /\ Read(r, type).fault = "none" /\ Read(r, type) \in Reading
      <4>1. Append(r.values, v) \in Seq(Int)
        BY <3>4, AppendProperties DEF Reading
      <4>2. QED
        BY <1>2, <3>7, <4>1 DEF Reading
    <3>9. Agrees(r.at, Octets(v, w))
      BY <3>2, <3>4 DEF Agrees
    <3>10. Takes(r, Read(r, type), type, v)
      BY <2>1, <2>2, <3>6, <3>8, <3>9 DEF Takes
    <3>11. QED
      BY <1>2, <3>1, <3>4, <3>8, <3>10
  <2>8. QED
    BY <2>5, <2>6, <2>7
<1>3. QED
  BY <1>1, <1>2

\* Where the octets of a number are, that number is read, if they are all there.
LEMMA ReadBackOne ==
  ASSUME data \in Seq(Octet), NEW r \in Reading, r.at <= Len(data), NEW type \in Types,
         r.fault = "none", NEW v, Exact(v, type), Agrees(r.at, Octets(v, Width[type]))
  PROVE  /\ r.at + Width[type] <= Len(data) => Read(r, type).fault = "none"
         /\ Read(r, type).fault = "none" => Takes(r, Read(r, type), type, v)
<1>1. PICK w \in Nat : w = Width[type] /\ w \in {1, 2, 4, 6, 8}
  BY WidthIs
<1>2. v \in Int /\ InWidth(v, type) /\ r.at \in Nat /\ Len(data) \in Nat
  BY LenProperties DEF Exact, Reading
<1>3. PICK s : s = Octets(v, w)
  OBVIOUS
<1>4. s \in Seq(Octet) /\ Len(s) = w
  BY <1>2, <1>3, OctetsType
<1>5. ASSUME r.at + w <= Len(data) PROVE Read(r, type).fault = "none"
  <2>1. PICK octets : octets = SubSeq(data, r.at + 1, r.at + w)
    OBVIOUS
  <2>3. /\ octets \in Seq(Octet) /\ Len(octets) = w
        /\ \A j \in 1 .. w : octets[j] = data[r.at + j]
    BY <1>1, <1>2, <1>5, <2>1, OctetsAt
  <2>5. ASSUME NEW j \in 1 .. w PROVE octets[j] = s[j]
    <3>1. r.at + j <= Len(data)
      BY <1>2, <1>5
    <3>2. data[r.at + j] = s[j]
      BY <1>1, <1>3, <1>4, <3>1 DEF Agrees
    <3>3. QED
      BY <2>3, <3>2
  <2>6. octets = s
    BY <1>4, <2>3, <2>5, SeqEqual
  <2>7. ~(type = "time" /\ Late(octets))
    BY <1>1, <1>3, <2>6 DEF Exact
  <2>8. ~(r.at + w > Len(data))
    BY <1>2, <1>5
  <2>9. Read(r, type) = [r EXCEPT !.at = r.at + w, !.values = Append(@, Number(octets, type))]
    BY <1>1, <2>1, <2>7, <2>8 DEF Read
  <2>10. QED
    BY <2>9 DEF Reading
<1>6. ASSUME Read(r, type).fault = "none" PROVE Takes(r, Read(r, type), type, v)
  <2>1. PICK u \in Int : Takes(r, Read(r, type), type, u)
    BY <1>6, ReadIs
  <2>2. Read(r, type) \in Reading /\ Read(r, type).at <= Len(data)
    BY ReadIs
  <2>3. r.at + w <= Len(data)
    BY <1>1, <2>1, <2>2 DEF Takes
  <2>4. PICK t : t = Octets(u, w)
    OBVIOUS
  <2>5. t \in Seq(Octet) /\ Len(t) = w
    BY <2>4, OctetsType
  <2>6. ASSUME NEW j \in 1 .. w PROVE t[j] = s[j]
    <3>1. r.at + j <= Len(data)
      BY <1>2, <2>3
    <3>2. data[r.at + j] = s[j]
      BY <1>1, <1>3, <1>4, <3>1 DEF Agrees
    <3>3. data[r.at + j] = t[j]
      BY <1>1, <2>1, <2>4, <2>5, <3>1 DEF Agrees, Takes
    <3>4. QED
      BY <3>2, <3>3
  <2>7. t = s
    BY <1>4, <2>5, <2>6, SeqEqual
  <2>8. InWidth(u, type)
    BY <2>1 DEF Takes, Exact
  <2>9. Number(t, type) = u /\ Number(s, type) = v
    BY <1>1, <1>2, <1>3, <2>4, <2>8, NumberOctets
  <2>10. QED
    BY <2>1, <2>7, <2>9
<1>7. QED
  BY <1>1, <1>5, <1>6

LEMMA WriteAllEmpty == ASSUME NEW values PROVE WriteAll(values, <<>>) = <<>>
<1>1. Len(<<>>) = 0
  OBVIOUS
<1>2. [i \in 1 .. Len(<<>>) |-> Octets(values[i], Width[<<>>[i]])] = <<>>
  BY <1>1
<1>3. FlattenSeq(<<>>) = <<>>
  BY DEF FlattenSeq
<1>4. QED
  BY <1>2, <1>3 DEF WriteAll

LEMMA WriteAllSame ==
  ASSUME NEW types, NEW u, NEW v, \A i \in 1 .. Len(types) : u[i] = v[i]
  PROVE  WriteAll(u, types) = WriteAll(v, types)
<1>1. [i \in 1 .. Len(types) |-> Octets(u[i], Width[types[i]])]
        = [i \in 1 .. Len(types) |-> Octets(v[i], Width[types[i]])]
  OBVIOUS
<1>2. QED
  BY <1>1 DEF WriteAll

LEMMA WriteAllAppend ==
  ASSUME NEW types \in Seq(Types), NEW type \in Types, NEW values,
         \A i \in 1 .. Len(types) + 1 : values[i] \in Int
  PROVE  WriteAll(values, Append(types, type))
           = WriteAll(values, types) \o Octets(values[Len(types) + 1], Width[type])
<1>1. PICK n \in Nat : n = Len(types)
  BY LenProperties
<1>2. /\ Len(Append(types, type)) = n + 1 /\ Append(types, type)[n + 1] = type
      /\ \A i \in 1 .. n : Append(types, type)[i] = types[i] /\ types[i] \in Types
  BY <1>1, AppendProperties, LenProperties
<1>3. PICK last \in Seq(Octet) : last = Octets(values[n + 1], Width[type])
  <2>1. Width[type] \in Nat /\ values[n + 1] \in Int
    BY <1>1, WidthIs
  <2>2. QED
    BY <2>1, OctetsType
<1> DEFINE ss == [i \in 1 .. n |-> Octets(values[i], Width[types[i]])]
           tt == [i \in 1 .. n + 1 |-> Octets(values[i], Width[Append(types, type)[i]])]
<1>4. \A i \in 1 .. n : ss[i] \in Seq(Octet)
  <2>1. ASSUME NEW i \in 1 .. n PROVE Octets(values[i], Width[types[i]]) \in Seq(Octet)
    <3>1. Width[types[i]] \in Nat /\ values[i] \in Int
      BY <1>1, <1>2, WidthIs
    <3>2. QED
      BY <3>1, OctetsType
  <2>2. QED
    BY <2>1
<1>5. ss \in Seq(Seq(Octet)) /\ Len(ss) = n
  <2>1. ss \in [1 .. n -> Seq(Octet)]
    BY <1>4
  <2> HIDE DEF ss
  <2>2. QED
    BY <2>1, FunctionSeq
<1>6. \A i \in 1 .. n : tt[i] = ss[i]
  <2>1. \A i \in 1 .. n : i \in 1 .. n + 1 /\ Append(types, type)[i] = types[i]
    BY <1>2
  <2>2. QED
    BY <2>1
<1>7. tt[n + 1] = last
  BY <1>2, <1>3
<1>8. tt \in Seq(Seq(Octet)) /\ Len(tt) = n + 1
  <2>1. \A i \in 1 .. n + 1 : tt[i] \in Seq(Octet)
    <3> HIDE DEF ss, tt
    <3>1. \A i \in 1 .. n + 1 : i \in 1 .. n \/ i = n + 1
      BY <1>1
    <3>2. QED
      BY <1>3, <1>4, <1>6, <1>7, <3>1
  <2>2. tt = [i \in 1 .. n + 1 |-> tt[i]]
    OBVIOUS
  <2> HIDE DEF tt
  <2>3. tt \in [1 .. n + 1 -> Seq(Octet)] /\ n + 1 \in Nat
    BY <1>1, <2>1, <2>2
  <2>4. QED
    BY <2>3, FunctionSeq
<1>9. WriteAll(values, types) = FlattenSeq(ss)
  BY <1>1 DEF WriteAll
<1>10. WriteAll(values, Append(types, type)) = FlattenSeq(tt)
  BY <1>2 DEF WriteAll
<1> HIDE DEF ss, tt
<1>13. tt = Append(ss, last)
  <2>1. /\ Append(ss, last) \in Seq(Seq(Octet)) /\ Len(Append(ss, last)) = n + 1
        /\ Append(ss, last)[n + 1] = last /\ \A i \in 1 .. n : Append(ss, last)[i] = ss[i]
    BY <1>5, AppendProperties
  <2>2. \A i \in 1 .. n + 1 : i \in 1 .. n \/ i = n + 1
    BY <1>1
  <2>3. \A i \in 1 .. n + 1 : tt[i] = Append(ss, last)[i]
    BY <1>6, <1>7, <2>1, <2>2
  <2>4. QED
    BY <1>8, <2>1, <2>3, SeqEqual
<1>14. FlattenSeq(Append(ss, last)) = FlattenSeq(ss) \o last
  BY <1>5, FlattenAppend
<1>15. QED
  BY <1>1, <1>3, <1>9, <1>10, <1>13, <1>14

\* r[i] is what has been read after i numbers.
Reads(r, offset, types, n) ==
  r = [i \in 0 .. n |-> IF i = 0 THEN [at |-> offset, values |-> <<>>, fault |-> "none"]
                        ELSE Read(r[i - 1], types[i])]

\* Readings that have not gone past the end of the data.
Within == {x \in Reading : x.at <= Len(data)}

LEMMA ReadsExist ==
  ASSUME data \in Seq(Octet), NEW offset \in 0 .. Len(data), NEW types \in Seq(Types)
  PROVE  \E r \in [0 .. Len(types) -> Within] : Reads(r, offset, types, Len(types))
<1> DEFINE n == Len(types)
           base == [at |-> offset, values |-> <<>>, fault |-> "none"]
           step == [i \in Nat |-> [x \in Within |->
                      IF i \in 1 .. n THEN Read(x, types[i]) ELSE x]]
<1>1. n \in Nat /\ Len(data) \in Nat /\ \A i \in 1 .. n : types[i] \in Types
  BY LenProperties
<1>2. base \in Within
  <2>1. <<>> \in Seq(Int)
    BY EmptySeq
  <2>2. QED
    BY <1>1, <2>1 DEF Within, Reading
<1>3. ASSUME NEW i \in 1 .. n, NEW x \in Within PROVE Read(x, types[i]) \in Within
  <2>1. types[i] \in Types /\ x \in Reading /\ x.at <= Len(data)
    BY <1>1 DEF Within
  <2>2. QED
    BY <2>1, ReadIs DEF Within
<1> HIDE DEF n, base
<1>4. step \in [Nat -> [Within -> Within]]
  BY <1>3
<1>5. ASSUME NEW i \in 1 .. n, NEW x \in Within PROVE step[i][x] = Read(x, types[i])
  <2>1. i \in Nat
    BY <1>1
  <2>2. QED
    BY <2>1
<1> HIDE DEF step
<1>6. PICK r \in [0 .. n -> Within] : Steps(r, base, step, n)
  BY <1>1, <1>2, <1>4, RecursionExists
<1>7. r[0] = base /\ \A i \in 1 .. n : r[i] = step[i][r[i - 1]]
  BY <1>6 DEF Steps
<1>8. ASSUME NEW i \in 1 .. n PROVE r[i] = Read(r[i - 1], types[i])
  <2>1. i - 1 \in 0 .. n
    BY <1>1
  <2>2. r[i - 1] \in Within
    BY <1>6, <2>1
  <2>3. QED
    BY <1>5, <1>7, <2>2
<1>9. \A i \in 0 .. n : r[i] = IF i = 0 THEN base ELSE Read(r[i - 1], types[i])
  <2>1. \A i \in 0 .. n : i = 0 \/ i \in 1 .. n
    BY <1>1
  <2>2. QED
    BY <1>1, <1>7, <1>8, <2>1
<1>10. r = [i \in 0 .. n |-> IF i = 0 THEN base ELSE Read(r[i - 1], types[i])]
  BY <1>6, <1>9
<1>11. QED
  BY <1>6, <1>10 DEF Reads, n, base

\* Numbers are read one after the other.
LEMMA ReadAllReads ==
  ASSUME data \in Seq(Octet), NEW offset \in 0 .. Len(data), NEW types \in Seq(Types)
  PROVE  \E r : /\ Reads(r, offset, types, Len(types))
                /\ r \in [0 .. Len(types) -> Within]
                /\ ReadAll(offset, types) = r[Len(types)]
<1> DEFINE n == Len(types)
           r == CHOOSE r : Reads(r, offset, types, n)
<1>1. PICK q \in [0 .. n -> Within] : Reads(q, offset, types, n)
  BY ReadsExist
<1>2. Reads(r, offset, types, n)
  BY <1>1
<1>3. ReadAll(offset, types) = r[n]
  BY DEF ReadAll, Reads
<1>4. n \in Nat
  BY LenProperties
<1> HIDE DEF r, n
<1>5. \A i \in 0 .. n : r[i] = IF i = 0 THEN [at |-> offset, values |-> <<>>, fault |-> "none"]
                               ELSE Read(r[i - 1], types[i])
  BY <1>2 DEF Reads
<1>6. \A i \in 0 .. n : q[i] = IF i = 0 THEN [at |-> offset, values |-> <<>>, fault |-> "none"]
                               ELSE Read(q[i - 1], types[i])
  BY <1>1 DEF Reads
<1> DEFINE P == {i \in 0 .. n : r[i] = q[i]}
<1>7. 0 \in P
  <2>1. 0 \in 0 .. n
    BY <1>4
  <2>2. r[0] = q[0]
    BY <1>5, <1>6, <2>1
  <2>3. QED
    BY <2>1, <2>2
<1>8. ASSUME NEW i \in 1 .. n, i - 1 \in P PROVE i \in P
  <2>1. i \in 0 .. n /\ i # 0
    BY <1>4
  <2>2. r[i - 1] = q[i - 1]
    BY <1>8
  <2>3. QED
    BY <1>5, <1>6, <2>1, <2>2
<1> HIDE DEF P
<1>9. \A i \in 0 .. n : i \in P
  BY <1>4, <1>7, <1>8, InductionUpTo
<1>10. \A i \in 0 .. n : r[i] = q[i]
  BY <1>9 DEF P
<1>11. DOMAIN r = 0 .. n
  BY <1>2 DEF Reads
<1>12. r = [i \in 0 .. n |-> r[i]]
  BY <1>2 DEF Reads
<1>13. r \in [0 .. n -> Within]
  BY <1>10, <1>12
<1>14. QED
  BY <1>2, <1>3, <1>13 DEF n

LEMMA ReadAllEmpty ==
  ASSUME data \in Seq(Octet), NEW offset \in 0 .. Len(data)
  PROVE  ReadAll(offset, <<>>) = [at |-> offset, values |-> <<>>, fault |-> "none"]
<1>1. <<>> \in Seq(Types) /\ Len(<<>>) = 0
  BY EmptySeq
<1>2. PICK r : Reads(r, offset, <<>>, 0) /\ ReadAll(offset, <<>>) = r[0]
  BY <1>1, ReadAllReads
<1>3. QED
  BY <1>2 DEF Reads

LEMMA ReadAllAppend ==
  ASSUME data \in Seq(Octet), NEW offset \in 0 .. Len(data), NEW types \in Seq(Types),
         NEW type \in Types
  PROVE  ReadAll(offset, Append(types, type)) = Read(ReadAll(offset, types), type)
<1>1. PICK n \in Nat : n = Len(types)
  BY LenProperties
<1>2. PICK more \in Seq(Types) :
        /\ more = Append(types, type) /\ Len(more) = n + 1 /\ more[n + 1] = type
        /\ \A i \in 1 .. n : more[i] = types[i]
  <2>1. /\ Append(types, type) \in Seq(Types) /\ Len(Append(types, type)) = n + 1
        /\ Append(types, type)[n + 1] = type
        /\ \A i \in 1 .. n : Append(types, type)[i] = types[i]
    BY <1>1, AppendProperties
  <2>2. QED
    BY <2>1
<1>3. PICK r : Reads(r, offset, types, n) /\ ReadAll(offset, types) = r[n]
  BY <1>1, ReadAllReads
<1>4. PICK q : Reads(q, offset, more, n + 1) /\ ReadAll(offset, more) = q[n + 1]
  BY <1>2, ReadAllReads
<1>5. \A i \in 0 .. n : r[i] = IF i = 0 THEN [at |-> offset, values |-> <<>>, fault |-> "none"]
                               ELSE Read(r[i - 1], types[i])
  BY <1>3 DEF Reads
<1>6. \A i \in 0 .. n + 1 :
        q[i] = IF i = 0 THEN [at |-> offset, values |-> <<>>, fault |-> "none"]
               ELSE Read(q[i - 1], more[i])
  BY <1>4 DEF Reads
<1> DEFINE P == {i \in 0 .. n : r[i] = q[i]}
<1>7. 0 \in P
  BY <1>5, <1>6
<1>8. ASSUME NEW i \in 1 .. n, i - 1 \in P PROVE i \in P
  <2>1. i \in 0 .. n /\ i \in 0 .. n + 1 /\ i # 0 /\ more[i] = types[i]
    BY <1>2
  <2>2. r[i - 1] = q[i - 1]
    BY <1>8
  <2>3. QED
    BY <1>5, <1>6, <2>1, <2>2
<1> HIDE DEF P
<1>9. \A i \in 0 .. n : i \in P
  BY <1>7, <1>8, InductionUpTo
<1>10. n \in P
  BY <1>9
<1>11. r[n] = q[n]
  BY <1>10 DEF P
<1>12. q[n + 1] = Read(q[n], type)
  <2>1. n + 1 \in 0 .. n + 1 /\ n + 1 # 0 /\ (n + 1) - 1 = n
    OBVIOUS
  <2>2. QED
    BY <1>2, <1>6, <2>1
<1>13. QED
  BY <1>2, <1>3, <1>4, <1>11, <1>12

\* x has read, from the offset on, numbers that could have been written there.
ReadsWell(x, offset, types) ==
  /\ x \in Within
  /\ x.fault = "none" =>
       /\ Len(x.values) = Len(types)
       /\ \A i \in 1 .. Len(types) : Exact(x.values[i], types[i])
       /\ Agrees(offset, WriteAll(x.values, types))
       /\ x.at = offset + Size(types)

LEMMA SizeEmpty == Size(<<>>) = 0
BY WriteAllEmpty DEF Size

LEMMA SizeAppend ==
  ASSUME NEW types \in Seq(Types), NEW type \in Types
  PROVE  Size(Append(types, type)) = Size(types) + Width[type]
<1>1. PICK n \in Nat : n = Len(types)
  BY LenProperties
<1>2. PICK zeros : zeros = [i \in 1 .. n + 1 |-> 0]
  OBVIOUS
<1>3. PICK more \in Seq(Types) : more = Append(types, type) /\ Len(more) = n + 1
  <2>1. Append(types, type) \in Seq(Types) /\ Len(Append(types, type)) = n + 1
    BY <1>1, AppendProperties
  <2>2. QED
    BY <2>1
<1>4. \A i \in 1 .. n + 1 : zeros[i] \in Int
  BY <1>2
<1>5. Size(more) = Len(WriteAll(zeros, more))
  BY <1>3, <1>4, WriteAllSize
<1>6. Size(types) = Len(WriteAll(zeros, types)) /\ WriteAll(zeros, types) \in Seq(Octet)
  BY <1>1, <1>4, WriteAllSize
<1>7. WriteAll(zeros, more) = WriteAll(zeros, types) \o Octets(zeros[n + 1], Width[type])
  BY <1>1, <1>3, <1>4, WriteAllAppend
<1>8. Octets(zeros[n + 1], Width[type]) \in Seq(Octet)
      /\ Len(Octets(zeros[n + 1], Width[type])) = Width[type]
  <2>1. zeros[n + 1] \in Int /\ Width[type] \in Nat
    BY <1>4, WidthIs
  <2>2. QED
    BY <2>1, OctetsType
<1>9. Len(WriteAll(zeros, more)) = Len(WriteAll(zeros, types)) + Width[type]
  BY <1>6, <1>7, <1>8, ConcatOctets
<1>10. QED
  BY <1>3, <1>5, <1>6, <1>9

LEMMA ReadAllIs ==
  ASSUME data \in Seq(Octet), NEW offset \in 0 .. Len(data), NEW types \in Seq(Types)
  PROVE  ReadsWell(ReadAll(offset, types), offset, types)
<1> DEFINE P == {ts \in Seq(Types) : ReadsWell(ReadAll(offset, ts), offset, ts)}
<1>1. <<>> \in P
  <2>1. <<>> \in Seq(Types) /\ <<>> \in Seq(Int) /\ Len(<<>>) = 0
    BY EmptySeq
  <2>2. PICK x : x = [at |-> offset, values |-> <<>>, fault |-> "none"]
    OBVIOUS
  <2>3. x \in Within
    BY <2>1, <2>2, LenProperties DEF Within, Reading
  <2>4. Agrees(offset, WriteAll(x.values, <<>>)) /\ x.at = offset + Size(<<>>)
    BY <2>1, <2>2, WriteAllEmpty, SizeEmpty DEF Agrees
  <2>5. ReadsWell(x, offset, <<>>)
    BY <2>1, <2>2, <2>3, <2>4 DEF ReadsWell
  <2>6. QED
    BY <2>1, <2>2, <2>5, ReadAllEmpty
<1>2. ASSUME NEW ts \in Seq(Types), NEW type \in Types, ts \in P
      PROVE  Append(ts, type) \in P
  <2>1. PICK n \in Nat : n = Len(ts)
    BY LenProperties
  <2>2. PICK more \in Seq(Types) :
          /\ more = Append(ts, type) /\ Len(more) = n + 1 /\ more[n + 1] = type
          /\ \A i \in 1 .. n : more[i] = ts[i]
    <3>1. /\ Append(ts, type) \in Seq(Types) /\ Len(Append(ts, type)) = n + 1
          /\ Append(ts, type)[n + 1] = type
          /\ \A i \in 1 .. n : Append(ts, type)[i] = ts[i]
      BY <2>1, AppendProperties
    <3>2. QED
      BY <3>1
  <2>3. PICK r : r = ReadAll(offset, ts) /\ ReadsWell(r, offset, ts)
    BY <1>2
  <2>4. PICK x : x = Read(r, type) /\ x = ReadAll(offset, more)
    BY <2>2, <2>3, ReadAllAppend
  <2>5. r \in Reading /\ r.at <= Len(data) /\ r.values \in Seq(Int) /\ r.at \in Nat
    BY <2>3 DEF ReadsWell, Within, Reading
  <2>6. x \in Within
    BY <2>4, <2>5, ReadIs DEF Within
  <2>7. ASSUME x.fault = "none"
        PROVE  /\ Len(x.values) = n + 1
               /\ \A i \in 1 .. n + 1 : Exact(x.values[i], more[i])
               /\ Agrees(offset, WriteAll(x.values, more))
               /\ x.at = offset + Size(more)
    <3>1. r.fault = "none" /\ \E v \in Int : Takes(r, x, type, v)
      BY <2>4, <2>5, <2>7, ReadIs
    <3>2. PICK v \in Int : Takes(r, x, type, v)
      BY <3>1
    <3>3. /\ Len(r.values) = n /\ \A i \in 1 .. n : Exact(r.values[i], ts[i])
          /\ Agrees(offset, WriteAll(r.values, ts)) /\ r.at = offset + Size(ts)
      BY <2>1, <2>3, <3>1 DEF ReadsWell
    <3>4. /\ Len(x.values) = n + 1 /\ x.values[n + 1] = v
          /\ \A i \in 1 .. n : x.values[i] = r.values[i]
      <4>1. x.values = Append(r.values, v) /\ r.values \in Seq(Int) /\ Len(r.values) = n
        BY <2>5, <3>2, <3>3 DEF Takes
      <4>2. QED
        BY <4>1, AppendProperties
    <3>5. \A i \in 1 .. n + 1 : Exact(x.values[i], more[i])
      <4>1. Exact(v, type)
        BY <3>2 DEF Takes
      <4>2. \A i \in 1 .. n + 1 : i \in 1 .. n \/ i = n + 1
        OBVIOUS
      <4>3. \A i \in 1 .. n : Exact(x.values[i], more[i])
        BY <2>2, <3>3, <3>4, Zenon
      <4>4. Exact(x.values[n + 1], more[n + 1])
        BY <2>2, <3>4, <4>1
      <4>5. QED
        BY <4>2, <4>3, <4>4, Zenon
    <3>6. \A i \in 1 .. n + 1 : x.values[i] \in Int
      BY <3>5 DEF Exact
    <3>7. WriteAll(x.values, ts) = WriteAll(r.values, ts)
      BY <2>1, <3>4, WriteAllSame
    <3>8. WriteAll(x.values, more) = WriteAll(r.values, ts) \o Octets(v, Width[type])
      <4>1. PICK u : u = x.values
        OBVIOUS
      <4>2. WriteAll(u, more) = WriteAll(u, ts) \o Octets(u[n + 1], Width[type])
        BY <2>1, <2>2, <3>6, <4>1, WriteAllAppend
      <4>3. QED
        BY <3>4, <3>7, <4>1, <4>2
    <3>9. \A i \in 1 .. n : r.values[i] \in Int
      <4>1. \A i \in 1 .. n : i \in 1 .. n + 1
        OBVIOUS
      <4>2. QED
        BY <3>4, <3>6, <4>1
    <3>10. WriteAll(r.values, ts) \in Seq(Octet) /\ Len(WriteAll(r.values, ts)) = Size(ts)
           /\ Size(ts) \in Nat
      BY <2>1, <3>9, WriteAllSize
    <3>11. Octets(v, Width[type]) \in Seq(Octet) /\ Width[type] \in Nat
      <4>1. Width[type] \in Nat
        BY SMTT(30), WidthIs
      <4>2. QED
        BY <4>1, OctetsType
    <3>12. Agrees(r.at, Octets(v, Width[type])) /\ x.at = r.at + Width[type]
      BY <3>2 DEF Takes
    <3>13. offset \in Nat
      OBVIOUS
    <3>14. Agrees(offset, WriteAll(x.values, more))
      <4>1. PICK s \in Seq(Octet), t \in Seq(Octet) :
              s = WriteAll(r.values, ts) /\ t = Octets(v, Width[type])
        BY <3>10, <3>11
      <4>2. Agrees(offset, s) /\ Agrees(offset + Len(s), t)
        BY <3>3, <3>10, <3>12, <4>1
      <4>3. Agrees(offset, s \o t)
        BY <3>13, <4>2, AgreesConcat
      <4>4. QED
        BY <3>8, <4>1, <4>3
    <3>15. Size(more) = Size(ts) + Width[type]
      BY <2>2, SizeAppend
    <3>16. QED
      BY <3>3, <3>4, <3>5, <3>10, <3>11, <3>12, <3>13, <3>14, <3>15
  <2>8. ReadsWell(x, offset, more)
    BY <2>2, <2>6, <2>7 DEF ReadsWell
  <2>9. QED
    BY <2>2, <2>4, <2>8
<1> HIDE DEF P
<1>3. \A ts \in Seq(Types) : ts \in P
  BY <1>1, <1>2, SequenceInduction
<1>4. QED
  BY <1>3 DEF P

\* What is read where numbers are that could have been written: those numbers.
Returns(x, offset, types, values) ==
  /\ offset + Size(types) <= Len(data) => x.fault = "none"
  /\ x.fault = "none" => \A i \in 1 .. Len(types) : x.values[i] = values[i]

LEMMA ReadAllBack ==
  ASSUME data \in Seq(Octet), NEW offset \in 0 .. Len(data), NEW types \in Seq(Types), NEW values,
         \A i \in 1 .. Len(types) : Exact(values[i], types[i]),
         Agrees(offset, WriteAll(values, types))
  PROVE  Returns(ReadAll(offset, types), offset, types, values)
<1> DEFINE There(ts) == /\ \A i \in 1 .. Len(ts) : Exact(values[i], ts[i])
                        /\ Agrees(offset, WriteAll(values, ts))
           P == {ts \in Seq(Types) :
                   There(ts) => Returns(ReadAll(offset, ts), offset, ts, values)}
<1>1. <<>> \in P
  <2>1. <<>> \in Seq(Types) /\ Len(<<>>) = 0
    BY EmptySeq
  <2>2. ReadAll(offset, <<>>).fault = "none"
    BY ReadAllEmpty
  <2>3. Returns(ReadAll(offset, <<>>), offset, <<>>, values)
    BY <2>1, <2>2 DEF Returns
  <2>4. QED
    BY <2>1, <2>3
<1>2. ASSUME NEW ts \in Seq(Types), NEW type \in Types, ts \in P
      PROVE  Append(ts, type) \in P
  <2>1. PICK n \in Nat : n = Len(ts)
    BY LenProperties
  <2>2. PICK more \in Seq(Types) :
          /\ more = Append(ts, type) /\ Len(more) = n + 1 /\ more[n + 1] = type
          /\ \A i \in 1 .. n : more[i] = ts[i]
    <3>1. /\ Append(ts, type) \in Seq(Types) /\ Len(Append(ts, type)) = n + 1
          /\ Append(ts, type)[n + 1] = type
          /\ \A i \in 1 .. n : Append(ts, type)[i] = ts[i]
      BY <2>1, AppendProperties
    <3>2. QED
      BY <3>1
  <2>3. ASSUME There(more) PROVE Returns(ReadAll(offset, more), offset, more, values)
    <3>1. PICK v : v = values[n + 1]
      OBVIOUS
    <3>2. Exact(v, type) /\ \A i \in 1 .. n : Exact(values[i], ts[i])
      <4>1. n + 1 \in 1 .. n + 1 /\ \A i \in 1 .. n : i \in 1 .. n + 1
        OBVIOUS
      <4>2. \A i \in 1 .. n + 1 : Exact(values[i], more[i])
        BY <2>2, <2>3
      <4>3. QED
        BY <2>2, <3>1, <4>1, <4>2
    <3>3. \A i \in 1 .. n + 1 : values[i] \in Int
      BY <2>2, <2>3 DEF Exact
    <3>4. WriteAll(values, more) = WriteAll(values, ts) \o Octets(v, Width[type])
      BY <2>1, <2>2, <3>1, <3>3, WriteAllAppend
    <3>5. WriteAll(values, ts) \in Seq(Octet) /\ Len(WriteAll(values, ts)) = Size(ts)
          /\ Size(ts) \in Nat
      BY <2>1, <3>3, WriteAllSize
    <3>6. Octets(v, Width[type]) \in Seq(Octet) /\ Width[type] \in Nat
      <4>1. Width[type] \in Nat
        BY SMTT(30), WidthIs
      <4>3. v \in Int
        BY <3>2 DEF Exact
      <4>2. QED
        BY <4>1, <4>3, OctetsType
    <3>7. offset \in Nat
      OBVIOUS
    <3>8. Agrees(offset, WriteAll(values, ts))
          /\ Agrees(offset + Size(ts), Octets(v, Width[type]))
      <4>1. PICK s \in Seq(Octet), t \in Seq(Octet) :
              s = WriteAll(values, ts) /\ t = Octets(v, Width[type])
        BY <3>5, <3>6
      <4>2. Agrees(offset, s \o t)
        BY <2>3, <3>4, <4>1
      <4>3. Agrees(offset, s) /\ Agrees(offset + Len(s), t)
        BY <3>7, <4>2, AgreesConcat
      <4>4. QED
        BY <3>5, <4>1, <4>3
    <3>9. PICK r : r = ReadAll(offset, ts) /\ ReadsWell(r, offset, ts)
      BY ReadAllIs
    <3>10. Returns(r, offset, ts, values)
      <4>1. There(ts)
        BY <2>1, <3>2, <3>8
      <4>2. QED
        BY <1>2, <3>9, <4>1
    <3>11. PICK x : x = ReadAll(offset, more) /\ x = Read(r, type)
      BY <2>2, <3>9, ReadAllAppend
    <3>12. r \in Reading /\ r.at <= Len(data) /\ Len(data) \in Nat /\ r.values \in Seq(Int)
      BY <3>9, LenProperties DEF ReadsWell, Within, Reading
    <3>13. Size(more) = Size(ts) + Width[type]
      BY <2>2, SizeAppend
    <3>14. r.fault = "none" =>
             /\ r.at + Width[type] <= Len(data) => x.fault = "none"
             /\ x.fault = "none" => Takes(r, x, type, v)
             /\ r.at = offset + Size(ts) /\ Len(r.values) = n
      <4>1. r.fault = "none" => r.at = offset + Size(ts) /\ Len(r.values) = n
        BY <2>1, <3>9 DEF ReadsWell
      <4>2. QED
        BY <3>2, <3>8, <3>11, <3>12, <4>1, ReadBackOne
    <3>15. ASSUME offset + Size(more) <= Len(data) PROVE x.fault = "none"
      <4>1. offset + Size(ts) <= Len(data)
        BY <3>5, <3>6, <3>7, <3>12, <3>13, <3>15
      <4>2. r.fault = "none"
        BY <3>10, <4>1 DEF Returns
      <4>3. r.at + Width[type] <= Len(data)
        BY <3>5, <3>6, <3>7, <3>12, <3>13, <3>14, <3>15, <4>2
      <4>4. QED
        BY <3>14, <4>2, <4>3
    <3>16. ASSUME x.fault = "none" PROVE \A i \in 1 .. n + 1 : x.values[i] = values[i]
      <4>1. r.fault = "none"
        BY <3>11, <3>12, <3>16, ReadIs
      <4>2. x.values = Append(r.values, v) /\ Len(r.values) = n
        BY <3>14, <3>16, <4>1 DEF Takes
      <4>3. v \in Int /\ r.values \in Seq(Int)
        BY <3>2, <3>12 DEF Exact
      <4>4. x.values[n + 1] = v /\ \A i \in 1 .. n : x.values[i] = r.values[i]
        BY <4>2, <4>3, AppendNumber
      <4>5. \A i \in 1 .. n : r.values[i] = values[i]
        BY <2>1, <3>10, <4>1 DEF Returns
      <4>6. \A i \in 1 .. n + 1 : i \in 1 .. n \/ i = n + 1
        OBVIOUS
      <4>7. QED
        BY <3>1, <4>4, <4>5, <4>6
    <3>17. QED
      BY <2>2, <3>11, <3>15, <3>16 DEF Returns
  <2>4. QED
    BY <2>2, <2>3
<1>3. types \in P
  <2> HIDE DEF P
  <2>1. \A ts \in Seq(Types) : ts \in P
    BY <1>1, <1>2, SequenceInduction
  <2>2. QED
    BY <2>1
<1>4. QED
  BY <1>3

-----------------------------------------------------------------------------
(* Object headers *)

Fixed == <<"uint8", "uint8", "uint8">>

LEMMA FixedTypes == Fixed \in Seq(Types) /\ Len(Fixed) = 3
<1>1. Fixed \in [1 .. 3 -> Types]
  BY DEF Fixed, Types
<1>2. QED
  BY <1>1, FunctionSeq

LEMMA RangeTypesAre ==
  \A q : /\ RangeTypes(q) \in Seq(Types)
         /\ RangeTypes(q) = <<>> \/ (IsRange(q) /\ Len(RangeTypes(q)) = 2)
              \/ (~IsRange(q) /\ Len(RangeTypes(q)) = 1)
         /\ IsRange(q) => Len(RangeTypes(q)) = 2
         /\ \A i \in 1 .. Len(RangeTypes(q)) : RangeTypes(q)[i] # "time"
<1>1. ASSUME NEW t \in {"uint8", "uint16", "uint32"}
      PROVE  /\ <<t>> \in Seq(Types) /\ Len(<<t>>) = 1 /\ <<t, t>> \in Seq(Types) /\ Len(<<t, t>>) = 2
             /\ \A i \in 1 .. 1 : <<t>>[i] # "time"
             /\ \A i \in 1 .. 2 : <<t, t>>[i] # "time"
  <2>1. t \in Types /\ t # "time"
    BY DEF Types
  <2>2. <<t>> \in [1 .. 1 -> Types] /\ <<t, t>> \in [1 .. 2 -> Types]
    BY <2>1
  <2>3. QED
    BY <2>1, <2>2, FunctionSeq
<1>2. <<>> \in Seq(Types) /\ Len(<<>>) = 0
  BY EmptySeq
<1>3. ASSUME NEW q
      PROVE  \/ RangeTypes(q) = <<>> /\ ~IsRange(q)
             \/ \E t \in {"uint8", "uint16", "uint32"} :
                  (RangeTypes(q) = <<t, t>> /\ IsRange(q)) \/ (RangeTypes(q) = <<t>> /\ ~IsRange(q))
  BY DEF RangeTypes, IsRange, RANGE_8, RANGE_16, RANGE_32, COUNT_8, COUNT_16, COUNT_32,
         INDEX_8, INDEX_16, INDEX_32, FREE_8, FREE_16
<1>4. ASSUME NEW q
      PROVE  /\ RangeTypes(q) \in Seq(Types)
             /\ RangeTypes(q) = <<>> \/ (IsRange(q) /\ Len(RangeTypes(q)) = 2)
                  \/ (~IsRange(q) /\ Len(RangeTypes(q)) = 1)
             /\ IsRange(q) => Len(RangeTypes(q)) = 2
             /\ \A i \in 1 .. Len(RangeTypes(q)) : RangeTypes(q)[i] # "time"
  <2>1. CASE RangeTypes(q) = <<>> /\ ~IsRange(q)
    BY <1>2, <2>1
  <2>2. CASE \E t \in {"uint8", "uint16", "uint32"} :
               (RangeTypes(q) = <<t, t>> /\ IsRange(q)) \/ (RangeTypes(q) = <<t>> /\ ~IsRange(q))
    <3>1. PICK t \in {"uint8", "uint16", "uint32"} :
            (RangeTypes(q) = <<t, t>> /\ IsRange(q)) \/ (RangeTypes(q) = <<t>> /\ ~IsRange(q))
      BY <2>2
    <3>2. CASE RangeTypes(q) = <<t, t>> /\ IsRange(q)
      BY <1>1, <3>2
    <3>3. CASE RangeTypes(q) = <<t>> /\ ~IsRange(q)
      BY <1>1, <3>3
    <3>4. QED
      BY <3>1, <3>2, <3>3
  <2>3. QED
    BY <1>3, <2>1, <2>2
<1>5. QED
  BY <1>4, Zenon

LEMMA SizeAtLeast ==
  ASSUME NEW types \in Seq(Types)
  PROVE  Size(types) \in Nat /\ Size(types) >= Len(types)
<1> DEFINE P == {ts \in Seq(Types) : Size(ts) \in Nat /\ Size(ts) >= Len(ts)}
<1>1. <<>> \in P
  BY SizeEmpty, EmptySeq
<1>2. ASSUME NEW ts \in Seq(Types), NEW type \in Types, ts \in P
      PROVE  Append(ts, type) \in P
  <2>1. Append(ts, type) \in Seq(Types) /\ Len(Append(ts, type)) = Len(ts) + 1 /\ Len(ts) \in Nat
    BY AppendProperties, LenProperties
  <2>2. PICK w \in Nat : w = Width[type] /\ w >= 1
    BY WidthIs
  <2>3. Size(Append(ts, type)) = Size(ts) + w
    BY <2>2, SizeAppend
  <2>4. Size(ts) \in Nat /\ Size(ts) >= Len(ts)
    BY <1>2
  <2>5. QED
    BY <2>1, <2>2, <2>3, <2>4
<1> HIDE DEF P
<1>3. \A ts \in Seq(Types) : ts \in P
  BY <1>1, <1>2, SequenceInduction
<1>4. QED
  BY <1>3 DEF P

\* Group, variation and qualifier, and what follows them.
FixedOctets(h) == WriteAll(<<h.group, h.var, h.qual>>, Fixed)
RangeOctets(h) == WriteAll(Numbers(h), RangeTypes(h.qual))

\* A header as it can be read: its numbers are in their widths.
Announces(h) ==
  /\ h.group \in Octet /\ h.var \in Octet /\ h.qual \in Qualifiers
  /\ h.start \in Int /\ h.stop \in Int /\ h.count \in Int
  /\ \A i \in 1 .. Len(RangeTypes(h.qual)) : InWidth(Numbers(h)[i], RangeTypes(h.qual)[i])
  /\ h.count = Announced(h)
  /\ ~IsRange(h.qual) => h.start = 0 /\ h.stop = 0

\* The octet a number below 256 is written as.
LEMMA Uint8Is ==
  \A v \in Int : InWidth(v, "uint8") <=> v \in Octet
<1>1. ASSUME NEW v \in Int PROVE InWidth(v, "uint8") <=> v \in Octet
  <2>1. Shifted(v, 0) = v
    BY ShiftedIs
  <2>2. Width["uint8"] - 1 = 0 /\ "uint8" \notin Signed
    BY WidthIs DEF Signed
  <2>3. QED
    BY <2>1, <2>2 DEF InWidth, Octet
<1>2. QED
  BY <1>1

LEMMA ExactUint8 == \A v : Exact(v, "uint8") <=> v \in Octet
<1>1. Octet \subseteq Int
  BY DEF Octet
<1>2. QED
  BY <1>1, Uint8Is DEF Exact

LEMMA QualifierOctets == Qualifiers \subseteq Octet
BY DEF Qualifiers, Octet, INDEX_8, INDEX_16, INDEX_32, FREE_8, FREE_16

LEMMA HeaderNumbers ==
  ASSUME NEW h, h.group \in Octet, h.var \in Octet, h.qual \in Qualifiers,
         h.start \in Int, h.stop \in Int, h.count \in Int
  PROVE  /\ FixedOctets(h) \in Seq(Octet) /\ Len(FixedOctets(h)) = Size(Fixed)
         /\ \A i \in 1 .. Len(RangeTypes(h.qual)) : Numbers(h)[i] \in Int
         /\ RangeOctets(h) \in Seq(Octet) /\ Len(RangeOctets(h)) = Size(RangeTypes(h.qual))
<1>1. Octet \subseteq Int /\ h.qual \in Octet
  <2>1. Octet \subseteq Int
    BY DEF Octet
  <2>2. QED
    BY <2>1, QualifierOctets
<1>2. \A i \in 1 .. Len(Fixed) : <<h.group, h.var, h.qual>>[i] \in Int
  <2>1. h.group \in Int /\ h.var \in Int /\ h.qual \in Int
    BY <1>1
  <2>2. QED
    BY <2>1, FixedTypes
<1>3. FixedOctets(h) \in Seq(Octet) /\ Len(FixedOctets(h)) = Size(Fixed)
  <2>1. PICK values : values = <<h.group, h.var, h.qual>>
    OBVIOUS
  <2>2. \A i \in 1 .. Len(Fixed) : values[i] \in Int
    BY <1>2, <2>1
  <2>3. QED
    BY <2>1, <2>2, FixedTypes, WriteAllSize DEF FixedOctets
<1>4. \A i \in 1 .. Len(RangeTypes(h.qual)) : Numbers(h)[i] \in Int
  <2>1. CASE IsRange(h.qual)
    <3>1. Numbers(h) = <<h.start, h.stop>> /\ Len(RangeTypes(h.qual)) = 2
      BY <2>1, RangeTypesAre DEF Numbers
    <3>2. QED
      BY <3>1
  <2>2. CASE ~IsRange(h.qual)
    <3>1. Numbers(h) = <<h.count>>
          /\ (Len(RangeTypes(h.qual)) = 1 \/ Len(RangeTypes(h.qual)) = 0)
      BY <2>2, RangeTypesAre DEF Numbers
    <3>2. \A i \in 1 .. Len(RangeTypes(h.qual)) : i = 1
      <4>1. PICK n \in {0, 1} : n = Len(RangeTypes(h.qual))
        BY <3>1
      <4>2. \A i \in 1 .. n : i = 1
        OBVIOUS
      <4>3. QED
        BY <4>1, <4>2
    <3>3. Numbers(h)[1] \in Int
      BY <3>1
    <3>4. QED
      BY <3>2, <3>3
  <2>3. QED
    BY <2>1, <2>2
<1>5. RangeTypes(h.qual) \in Seq(Types)
  BY RangeTypesAre
<1>6. RangeOctets(h) \in Seq(Octet) /\ Len(RangeOctets(h)) = Size(RangeTypes(h.qual))
  <2>1. PICK values, types : values = Numbers(h) /\ types = RangeTypes(h.qual)
    OBVIOUS
  <2>2. QED
    BY <1>4, <1>5, <2>1, WriteAllSize DEF RangeOctets
<1>7. QED
  BY <1>3, <1>4, <1>6

LEMMA HeaderOctetsAre ==
  ASSUME NEW h, h.group \in Octet, h.var \in Octet, h.qual \in Qualifiers,
         h.start \in Int, h.stop \in Int, h.count \in Int
  PROVE  /\ HeaderOctets(h) \in Seq(Octet)
         /\ IF RangeTypes(h.qual) # <<>> => WritesRange(h.qual)
            THEN /\ HeaderOctets(h) = FixedOctets(h) \o RangeOctets(h)
                 /\ Len(HeaderOctets(h)) = Size(Fixed) + Size(RangeTypes(h.qual))
            ELSE Len(HeaderOctets(h)) < Size(Fixed) + Size(RangeTypes(h.qual))
         /\ Len(HeaderOctets(h)) >= 3 /\ Len(HeaderOctets(h)) <= Size(Fixed) + Size(RangeTypes(h.qual))
<1>1. PICK s \in Seq(Octet), t \in Seq(Octet) : s = FixedOctets(h) /\ t = RangeOctets(h)
  BY HeaderNumbers
<1>2. /\ Len(s) = Size(Fixed) /\ Size(Fixed) \in Nat /\ Size(Fixed) >= 3
      /\ Len(t) = Size(RangeTypes(h.qual)) /\ Size(RangeTypes(h.qual)) \in Nat
      /\ Size(RangeTypes(h.qual)) >= Len(RangeTypes(h.qual))
  <2>1. /\ Size(Fixed) \in Nat /\ Size(Fixed) >= 3
    BY FixedTypes, SizeAtLeast
  <2>2. RangeTypes(h.qual) \in Seq(Types)
    BY RangeTypesAre
  <2>3. Size(RangeTypes(h.qual)) \in Nat /\ Size(RangeTypes(h.qual)) >= Len(RangeTypes(h.qual))
    BY <2>2, SizeAtLeast
  <2>4. QED
    BY <1>1, <2>1, <2>3, HeaderNumbers
<1>3. CASE RangeTypes(h.qual) # <<>> => WritesRange(h.qual)
  <2>1. HeaderOctets(h) = s \o t
    <3>1. CASE WritesRange(h.qual)
      BY <1>1, <3>1 DEF HeaderOctets, FixedOctets, RangeOctets, Fixed
    <3>2. CASE ~WritesRange(h.qual)
      <4>1. RangeTypes(h.qual) = <<>>
        BY <1>3, <3>2
      <4>2. QED
        BY <1>1, <3>2, <4>1 DEF HeaderOctets, FixedOctets, RangeOctets, Fixed
    <3>3. QED
      BY <3>1, <3>2
  <2>2. s \o t \in Seq(Octet) /\ Len(s \o t) = Len(s) + Len(t)
    BY ConcatOctets
  <2>3. QED
    BY <1>1, <1>2, <1>3, <2>1, <2>2
<1>4. CASE ~(RangeTypes(h.qual) # <<>> => WritesRange(h.qual))
  <2>1. HeaderOctets(h) = s \o WriteAll(Numbers(h), <<>>)
    BY <1>1, <1>4 DEF HeaderOctets, FixedOctets, Fixed
  <2>2. WriteAll(Numbers(h), <<>>) = <<>>
    BY WriteAllEmpty
  <2>3. s \o <<>> = s
    BY ConcatEmptySeq
  <2>4. Len(RangeTypes(h.qual)) >= 1
    BY <1>4, RangeTypesAre
  <2>5. HeaderOctets(h) = s
    BY <2>1, <2>2, <2>3
  <2>6. PICK m \in Nat, n \in Nat : m = Size(Fixed) /\ n = Size(RangeTypes(h.qual))
    BY <1>2
  <2>7. Len(s) = m /\ m >= 3 /\ n >= 1
    BY <1>2, <2>4, <2>6
  <2>8. m < m + n /\ m <= m + n
    BY <2>7
  <2>9. QED
    BY <1>4, <2>5, <2>6, <2>7, <2>8
<1>5. QED
  BY <1>3, <1>4

\* A header that was read, and where it ends: it could have been written there.
HeadIs(x, offset) ==
  /\ x.fault \in {"none", "refused", "escaped"}
  /\ x.fault = "none" =>
       /\ Announces(x.header)
       /\ Agrees(offset, FixedOctets(x.header) \o RangeOctets(x.header))
       /\ x.at = offset + Size(Fixed) + Size(RangeTypes(x.header.qual))
       /\ x.at \in 0 .. Len(data)

LEMMA ParseHeaderIs ==
  ASSUME data \in Seq(Octet), NEW offset \in 0 .. Len(data)
  PROVE  HeadIs(ParseHeader(offset), offset)
<1>1. PICK fixed : fixed = ReadAll(offset, Fixed) /\ ReadsWell(fixed, offset, Fixed)
  BY FixedTypes, ReadAllIs
<1>2. PICK qual : qual = fixed.values[3]
  OBVIOUS
<1>3. PICK types \in Seq(Types) : types = RangeTypes(qual)
  BY RangeTypesAre
<1>4. fixed.at \in 0 .. Len(data) /\ Len(data) \in Nat
      /\ fixed.fault \in {"none", "refused", "escaped"}
  BY <1>1, LenProperties DEF ReadsWell, Within, Reading
<1>5. PICK r : r = ReadAll(fixed.at, types) /\ ReadsWell(r, fixed.at, types)
  BY <1>4, ReadAllIs
<1>6. PICK header :
        header = [group |-> fixed.values[1], var |-> fixed.values[2], qual |-> qual,
                  start |-> IF IsRange(qual) THEN r.values[1] ELSE 0,
                  stop  |-> IF IsRange(qual) THEN r.values[2] ELSE 0,
                  count |-> IF IsRange(qual) THEN RangeCount(r.values[1], r.values[2])
                            ELSE IF types = <<>> THEN 0 ELSE r.values[1]]
  OBVIOUS
<1>7. PICK x : x = ParseHeader(offset)
  OBVIOUS
<1>8. x = IF fixed.fault # "none" \/ qual \notin Qualifiers
          THEN [fault |-> "refused", at |-> offset]
          ELSE IF r.fault # "none" THEN [fault |-> r.fault, at |-> offset]
          ELSE [fault |-> "none", at |-> r.at, header |-> header]
  BY <1>1, <1>2, <1>3, <1>5, <1>6, <1>7 DEF ParseHeader, Fixed
<1>9. CASE fixed.fault # "none" \/ qual \notin Qualifiers
  BY <1>7, <1>8, <1>9 DEF HeadIs
<1>10. CASE fixed.fault = "none" /\ qual \in Qualifiers /\ r.fault # "none"
  <2>1. x = [fault |-> r.fault, at |-> offset]
    BY <1>8, <1>10
  <2>2. r.fault \in {"none", "refused", "escaped"}
    BY <1>5 DEF ReadsWell, Within, Reading
  <2>3. QED
    BY <1>7, <1>10, <2>1, <2>2 DEF HeadIs
<1>11. CASE fixed.fault = "none" /\ qual \in Qualifiers /\ r.fault = "none"
  <2>1. x = [fault |-> "none", at |-> r.at, header |-> header]
    BY <1>8, <1>11
  <2>2. /\ Len(fixed.values) = 3 /\ \A i \in 1 .. 3 : Exact(fixed.values[i], "uint8")
        /\ Agrees(offset, WriteAll(fixed.values, Fixed)) /\ fixed.at = offset + Size(Fixed)
    <3>1. \A i \in 1 .. 3 : Fixed[i] = "uint8"
      BY DEF Fixed
    <3>2. QED
      BY <1>1, <1>11, <3>1, FixedTypes DEF ReadsWell
  <2>3. fixed.values[1] \in Octet /\ fixed.values[2] \in Octet
    BY <2>2, ExactUint8
  <2>4. /\ Len(r.values) = Len(types) /\ \A i \in 1 .. Len(types) : Exact(r.values[i], types[i])
        /\ Agrees(fixed.at, WriteAll(r.values, types)) /\ r.at = fixed.at + Size(types)
        /\ r.at \in 0 .. Len(data)
    BY <1>5, <1>11, <1>4 DEF ReadsWell, Within, Reading
  <2>5. /\ header.group = fixed.values[1] /\ header.var = fixed.values[2] /\ header.qual = qual
        /\ header.start = IF IsRange(qual) THEN r.values[1] ELSE 0
        /\ header.stop = IF IsRange(qual) THEN r.values[2] ELSE 0
        /\ header.count = IF IsRange(qual) THEN RangeCount(r.values[1], r.values[2])
                          ELSE IF types = <<>> THEN 0 ELSE r.values[1]
    BY <1>6
  <2>6. /\ \A i \in 1 .. Len(types) : Numbers(header)[i] = r.values[i]
        /\ header.start \in Int /\ header.stop \in Int /\ header.count \in Int
        /\ header.count = Announced(header)
        /\ ~IsRange(qual) => header.start = 0 /\ header.stop = 0
    <3>1. CASE IsRange(qual)
      <4>1. Len(types) = 2
        BY <1>3, <3>1, RangeTypesAre
      <4>2. r.values[1] \in Int /\ r.values[2] \in Int
        BY <2>4, <4>1 DEF Exact
      <4>3. header.start = r.values[1] /\ header.stop = r.values[2]
            /\ header.count = RangeCount(r.values[1], r.values[2])
        BY <2>5, <3>1
      <4>4. Numbers(header) = <<r.values[1], r.values[2]>>
        BY <2>5, <3>1, <4>3 DEF Numbers
      <4>5. \A i \in 1 .. Len(types) : Numbers(header)[i] = r.values[i]
        BY <4>1, <4>4
      <4>6. QED
        BY <2>5, <3>1, <4>2, <4>3, <4>5 DEF Announced, RangeCount
    <3>2. CASE ~IsRange(qual) /\ types = <<>>
      <4>1. header.start = 0 /\ header.stop = 0 /\ header.count = 0
        BY <2>5, <3>2
      <4>2. Len(types) = 0
        BY <3>2
      <4>3. QED
        BY <1>3, <2>5, <3>2, <4>1, <4>2 DEF Announced
    <3>3. CASE ~IsRange(qual) /\ types # <<>>
      <4>1. header.start = 0 /\ header.stop = 0 /\ header.count = r.values[1]
        BY <2>5, <3>3
      <4>2. Len(types) = 1
        BY <1>3, <3>3, RangeTypesAre
      <4>3. r.values[1] \in Int
        BY <2>4, <4>2 DEF Exact
      <4>4. Numbers(header) = <<r.values[1]>>
        BY <2>5, <3>3, <4>1 DEF Numbers
      <4>5. \A i \in 1 .. Len(types) : Numbers(header)[i] = r.values[i]
        BY <4>2, <4>4
      <4>6. QED
        BY <1>3, <2>5, <3>3, <4>1, <4>3, <4>5 DEF Announced
    <3>4. QED
      BY <3>1, <3>2, <3>3
  <2>7. \A i \in 1 .. Len(types) : InWidth(Numbers(header)[i], types[i])
    BY <2>4, <2>6 DEF Exact
  <2>8. Announces(header)
    BY <1>3, <1>11, <2>3, <2>5, <2>6, <2>7 DEF Announces
  <2>9. FixedOctets(header) = WriteAll(fixed.values, Fixed)
    <3>1. PICK u, v : u = <<header.group, header.var, header.qual>> /\ v = fixed.values
      OBVIOUS
    <3>2. \A i \in 1 .. 3 : u[i] = v[i]
      BY <1>2, <2>5, <3>1
    <3>3. WriteAll(u, Fixed) = WriteAll(v, Fixed)
      BY <3>2, FixedTypes, WriteAllSame
    <3>4. QED
      BY <3>1, <3>3 DEF FixedOctets
  <2>10. RangeOctets(header) = WriteAll(r.values, types)
    <3>1. PICK u, v : u = Numbers(header) /\ v = r.values
      OBVIOUS
    <3>2. QED
      BY <1>3, <2>5, <2>6, <3>1, WriteAllSame DEF RangeOctets
  <2>11. Agrees(offset, FixedOctets(header) \o RangeOctets(header))
    <3>1. PICK s \in Seq(Octet), t \in Seq(Octet) :
            s = FixedOctets(header) /\ t = RangeOctets(header) /\ Len(s) = Size(Fixed)
      BY <2>8, HeaderNumbers DEF Announces
    <3>2. Agrees(offset, s) /\ Agrees(offset + Len(s), t)
      BY <2>2, <2>4, <2>9, <2>10, <3>1
    <3>3. Agrees(offset, s \o t)
      BY <3>2, AgreesConcat
    <3>4. QED
      BY <3>1, <3>3
  <2>12. QED
    BY <1>3, <1>7, <2>1, <2>2, <2>4, <2>5, <2>8, <2>11 DEF HeadIs
<1>12. QED
  BY <1>4, <1>9, <1>10, <1>11

AnyHeader == [group: Octet, var: Octet, qual: Qualifiers, start: Int, stop: Int, count: Int]

\* Where a header was written, and a parser can tell, that header is read.
LEMMA ParseHeaderBack ==
  ASSUME data \in Seq(Octet), NEW offset \in 0 .. Len(data), NEW h \in AnyHeader,
         Announces(h), RangeTypes(h.qual) # <<>> => WritesRange(h.qual),
         Agrees(offset, HeaderOctets(h))
  PROVE  /\ offset + Len(HeaderOctets(h)) <= Len(data) => ParseHeader(offset).fault = "none"
         /\ ParseHeader(offset).fault = "none" =>
              /\ ParseHeader(offset).header = h
              /\ ParseHeader(offset).at = offset + Len(HeaderOctets(h))
<1>1. PICK fixed : fixed = ReadAll(offset, Fixed) /\ ReadsWell(fixed, offset, Fixed)
  BY FixedTypes, ReadAllIs
<1>2. PICK qual : qual = fixed.values[3]
  OBVIOUS
<1>3. PICK types \in Seq(Types) : types = RangeTypes(qual)
  BY RangeTypesAre
<1>4. fixed.at \in 0 .. Len(data) /\ Len(data) \in Nat
      /\ fixed.fault \in {"none", "refused", "escaped"}
  BY <1>1, LenProperties DEF ReadsWell, Within, Reading
<1>5. PICK r : r = ReadAll(fixed.at, types) /\ ReadsWell(r, fixed.at, types)
  BY <1>4, ReadAllIs
<1>6. PICK header :
        header = [group |-> fixed.values[1], var |-> fixed.values[2], qual |-> qual,
                  start |-> IF IsRange(qual) THEN r.values[1] ELSE 0,
                  stop  |-> IF IsRange(qual) THEN r.values[2] ELSE 0,
                  count |-> IF IsRange(qual) THEN RangeCount(r.values[1], r.values[2])
                            ELSE IF types = <<>> THEN 0 ELSE r.values[1]]
  OBVIOUS
<1>7. PICK x : x = ParseHeader(offset)
  OBVIOUS
<1>8. x = IF fixed.fault # "none" \/ qual \notin Qualifiers
          THEN [fault |-> "refused", at |-> offset]
          ELSE IF r.fault # "none" THEN [fault |-> r.fault, at |-> offset]
          ELSE [fault |-> "none", at |-> r.at, header |-> header]
  BY <1>1, <1>2, <1>3, <1>5, <1>6, <1>7 DEF ParseHeader, Fixed
<1>9. /\ h.group \in Octet /\ h.var \in Octet /\ h.qual \in Qualifiers
      /\ h.start \in Int /\ h.stop \in Int /\ h.count \in Int
  BY DEF AnyHeader
<1>10. PICK s \in Seq(Octet), t \in Seq(Octet) :
         /\ s = FixedOctets(h) /\ t = RangeOctets(h)
         /\ Len(s) = Size(Fixed) /\ Len(t) = Size(RangeTypes(h.qual))
         /\ HeaderOctets(h) = s \o t /\ Len(HeaderOctets(h)) = Len(s) + Len(t)
  BY <1>9, HeaderNumbers, HeaderOctetsAre
<1>11. Agrees(offset, s) /\ Agrees(offset + Len(s), t)
  <2>1. Agrees(offset, s \o t)
    BY <1>10
  <2>2. QED
    BY <2>1, AgreesConcat
<1>12. Returns(fixed, offset, Fixed, <<h.group, h.var, h.qual>>)
  <2>1. PICK values : values = <<h.group, h.var, h.qual>>
    OBVIOUS
  <2>2. \A i \in 1 .. 3 : Fixed[i] = "uint8"
    BY DEF Fixed
  <2>3. \A i \in 1 .. 3 : values[i] \in Octet
    BY <1>9, <2>1, QualifierOctets
  <2>4. \A i \in 1 .. Len(Fixed) : Exact(values[i], Fixed[i])
    BY <2>2, <2>3, ExactUint8, FixedTypes
  <2>5. Agrees(offset, WriteAll(values, Fixed))
    BY <1>10, <1>11, <2>1 DEF FixedOctets
  <2>6. QED
    BY <1>1, <2>1, <2>4, <2>5, FixedTypes, ReadAllBack
<1>13. fixed.fault = "none" =>
         /\ fixed.values[1] = h.group /\ fixed.values[2] = h.var /\ qual = h.qual
         /\ fixed.at = offset + Len(s) /\ types = RangeTypes(h.qual)
  <2>1. fixed.fault = "none" => fixed.at = offset + Len(s)
    BY <1>1, <1>10 DEF ReadsWell
  <2>2. fixed.fault = "none" =>
          \A i \in 1 .. 3 : fixed.values[i] = <<h.group, h.var, h.qual>>[i]
    BY <1>12, FixedTypes DEF Returns
  <2>3. QED
    BY <1>2, <1>3, <2>1, <2>2
<1>14. ASSUME fixed.fault = "none" PROVE Returns(r, fixed.at, types, Numbers(h))
  <2>1. PICK values : values = Numbers(h)
    OBVIOUS
  <2>2. \A i \in 1 .. Len(types) : Exact(values[i], types[i])
    <3>1. \A i \in 1 .. Len(types) : InWidth(values[i], types[i]) /\ values[i] \in Int
      BY <1>9, <1>13, <1>14, <2>1, HeaderNumbers DEF Announces
    <3>2. \A i \in 1 .. Len(types) : types[i] # "time"
      BY <1>3, RangeTypesAre
    <3>3. QED
      BY <3>1, <3>2 DEF Exact
  <2>3. Agrees(fixed.at, WriteAll(values, types))
    BY <1>10, <1>11, <1>13, <1>14, <2>1 DEF RangeOctets
  <2>4. QED
    BY <1>4, <1>5, <2>1, <2>2, <2>3, ReadAllBack
<1>15. ASSUME offset + Len(HeaderOctets(h)) <= Len(data) PROVE x.fault = "none"
  <2>1. Len(s) \in Nat /\ Len(t) \in Nat
    BY LenProperties
  <2>2. offset + Size(Fixed) <= Len(data)
    BY <1>4, <1>10, <1>15, <2>1
  <2>3. fixed.fault = "none"
    BY <1>12, <2>2 DEF Returns
  <2>4. fixed.at + Size(types) <= Len(data)
    BY <1>4, <1>10, <1>13, <1>15, <2>1, <2>3
  <2>5. r.fault = "none"
    BY <1>14, <2>3, <2>4 DEF Returns
  <2>6. QED
    BY <1>8, <1>9, <1>13, <2>3, <2>5
<1>16. ASSUME x.fault = "none" PROVE x.header = h /\ x.at = offset + Len(HeaderOctets(h))
  <2>1. /\ fixed.fault = "none" /\ r.fault = "none"
        /\ x = [fault |-> "none", at |-> r.at, header |-> header]
    <3>1. CASE fixed.fault # "none" \/ qual \notin Qualifiers
      BY <1>8, <1>16, <3>1
    <3>2. CASE ~(fixed.fault # "none" \/ qual \notin Qualifiers) /\ r.fault # "none"
      BY <1>8, <1>16, <3>2
    <3>3. QED
      BY <1>8, <3>1, <3>2
  <2>2. \A i \in 1 .. Len(types) : r.values[i] = Numbers(h)[i]
    BY <1>14, <2>1 DEF Returns
  <2>3. r.at = fixed.at + Size(types)
    BY <1>5, <2>1 DEF ReadsWell
  <2>4. Len(s) \in Nat /\ Len(t) \in Nat
    BY LenProperties
  <2>5. r.at = offset + Len(HeaderOctets(h))
    BY <1>10, <1>13, <2>1, <2>3, <2>4
  <2>6. /\ h.count = Announced(h)
        /\ ~IsRange(h.qual) => h.start = 0 /\ h.stop = 0
    BY DEF Announces
  <2>7. header.start = h.start /\ header.stop = h.stop /\ header.count = h.count
    <3>1. CASE IsRange(qual)
      <4>1. Len(types) = 2 /\ Numbers(h) = <<h.start, h.stop>>
        BY <1>3, <1>13, <2>1, <3>1, RangeTypesAre DEF Numbers
      <4>2. r.values[1] = h.start /\ r.values[2] = h.stop
        BY <2>2, <4>1
      <4>3. QED
        BY <1>6, <1>13, <2>1, <2>6, <3>1, <4>2 DEF Announced, RangeCount
    <3>2. CASE ~IsRange(qual) /\ types = <<>>
      BY <1>6, <1>13, <2>1, <2>6, <3>2 DEF Announced
    <3>3. CASE ~IsRange(qual) /\ types # <<>>
      <4>1. Len(types) = 1 /\ Numbers(h) = <<h.count>>
        BY <1>3, <1>13, <2>1, <3>3, RangeTypesAre DEF Numbers
      <4>2. r.values[1] = h.count
        BY <2>2, <4>1
      <4>3. QED
        BY <1>6, <1>13, <2>1, <2>6, <3>3, <4>2
    <3>4. QED
      BY <3>1, <3>2, <3>3
  <2>8. header.group = h.group /\ header.var = h.var /\ header.qual = h.qual
    BY <1>6, <1>13, <2>1
  <2>9. header = [group |-> h.group, var |-> h.var, qual |-> h.qual,
                  start |-> h.start, stop |-> h.stop, count |-> h.count]
    BY <1>6, <2>7, <2>8
  <2>10. h = [group |-> h.group, var |-> h.var, qual |-> h.qual,
              start |-> h.start, stop |-> h.stop, count |-> h.count]
    BY DEF AnyHeader
  <2>11. QED
    BY <2>1, <2>5, <2>9, <2>10
<1>17. QED
  BY <1>7, <1>15, <1>16

-----------------------------------------------------------------------------
(* The fields of a point *)

Names == {"index", "state", "value", "flags", "time", "control", "count", "on_time_ms",
          "off_time_ms", "status", "ms_since_epoch"}

\* Only the field of that name is a time.
FieldOf == {f \in [name : Names, type : Types] : f.type = "time" <=> f.name = "time"}

\* fs has one field for each of the names.
Named(fs, names) ==
  /\ fs \in Seq(FieldOf)
  /\ \A j, k \in 1 .. Len(fs) : fs[j].name = fs[k].name => j = k
  /\ names = {fs[j].name : j \in 1 .. Len(fs)}

LEMMA NamedEmpty == Named(<<>>, {})
<1>1. <<>> \in Seq(FieldOf) /\ Len(<<>>) = 0
  BY EmptySeq
<1>2. QED
  BY <1>1 DEF Named

LEMMA NamedOne ==
  \A name \in Names, type \in Types :
    (type = "time" <=> name = "time") => Named(<<[name |-> name, type |-> type]>>, {name})
<1>1. ASSUME NEW name \in Names, NEW type \in Types, type = "time" <=> name = "time"
      PROVE  Named(<<[name |-> name, type |-> type]>>, {name})
  <2>1. PICK f \in FieldOf : f = [name |-> name, type |-> type]
    BY <1>1 DEF FieldOf
  <2>2. <<f>> \in [1 .. 1 -> FieldOf]
    BY <2>1
  <2>3. <<f>> \in Seq(FieldOf) /\ Len(<<f>>) = 1 /\ <<f>>[1] = f
    BY <2>2, FunctionSeq
  <2>4. f.name = name
    BY <2>1
  <2>5. PICK fs \in Seq(FieldOf) : fs = <<f>>
    BY <2>3
  <2>6. Len(fs) = 1 /\ fs[1] = f
    BY <2>3, <2>5
  <2>7. \A j, k \in 1 .. Len(fs) : j = k
    BY <2>6
  <2>8. {name} = {fs[j].name : j \in 1 .. Len(fs)}
    BY <2>4, <2>6
  <2>9. QED
    BY <2>1, <2>5, <2>7, <2>8 DEF Named
<1>2. QED
  BY <1>1

LEMMA NamedConcat ==
  ASSUME NEW s, NEW t, NEW M, NEW N, Named(s, M), Named(t, N), M \cap N = {}
  PROVE  Named(s \o t, M \cup N)
<1>1. s \in Seq(FieldOf) /\ t \in Seq(FieldOf)
  BY DEF Named
<1>2. Len(s) \in Nat /\ Len(t) \in Nat
  BY <1>1, LenProperties
<1>3. PICK u \in Seq(FieldOf) :
        /\ u = s \o t /\ Len(u) = Len(s) + Len(t)
        /\ \A i \in 1 .. Len(s) + Len(t) : u[i] = IF i <= Len(s) THEN s[i] ELSE t[i - Len(s)]
  <2>1. /\ s \o t \in Seq(FieldOf) /\ Len(s \o t) = Len(s) + Len(t)
        /\ \A i \in 1 .. Len(s) + Len(t) :
             (s \o t)[i] = IF i <= Len(s) THEN s[i] ELSE t[i - Len(s)]
    BY <1>1, ConcatProperties
  <2>2. QED
    BY <2>1
<1>4. \A i \in 1 .. Len(s) : i \in 1 .. Len(u) /\ u[i] = s[i]
  BY <1>2, <1>3
<1>5. ASSUME NEW i \in 1 .. Len(t) PROVE Len(s) + i \in 1 .. Len(u) /\ u[Len(s) + i] = t[i]
  <2>1. PICK k \in 1 .. Len(s) + Len(t) : k = Len(s) + i /\ ~(k <= Len(s)) /\ k - Len(s) = i
    BY <1>2
  <2>2. QED
    BY <1>3, <2>1
<1>6. ASSUME NEW i \in 1 .. Len(u)
      PROVE  \/ i \in 1 .. Len(s) /\ u[i] = s[i]
             \/ \E k \in 1 .. Len(t) : i = Len(s) + k /\ u[i] = t[k]
  <2>1. CASE i <= Len(s)
    BY <1>2, <1>4, <2>1
  <2>2. CASE ~(i <= Len(s))
    <3>1. PICK k \in 1 .. Len(t) : i = Len(s) + k
      <4>1. i - Len(s) \in 1 .. Len(t) /\ i = Len(s) + (i - Len(s))
        BY <1>2, <1>3, <2>2
      <4>2. QED
        BY <4>1
    <3>2. QED
      BY <1>5, <3>1
  <2>3. QED
    BY <2>1, <2>2
<1>7. (\A i \in 1 .. Len(s) : s[i].name \in M) /\ (\A i \in 1 .. Len(t) : t[i].name \in N)
  BY DEF Named
<1>8. ASSUME NEW j \in 1 .. Len(u), NEW k \in 1 .. Len(u), u[j].name = u[k].name PROVE j = k
  <2>1. CASE j \in 1 .. Len(s) /\ u[j] = s[j] /\ k \in 1 .. Len(s) /\ u[k] = s[k]
    BY <1>8, <2>1 DEF Named
  <2>2. CASE /\ \E l \in 1 .. Len(t) : j = Len(s) + l /\ u[j] = t[l]
             /\ \E l \in 1 .. Len(t) : k = Len(s) + l /\ u[k] = t[l]
    <3>1. PICK l \in 1 .. Len(t), m \in 1 .. Len(t) :
            j = Len(s) + l /\ u[j] = t[l] /\ k = Len(s) + m /\ u[k] = t[m]
      BY <2>2
    <3>2. l = m
      BY <1>8, <3>1 DEF Named
    <3>3. QED
      BY <3>1, <3>2
  <2>3. CASE /\ j \in 1 .. Len(s) /\ u[j] = s[j]
             /\ \E l \in 1 .. Len(t) : k = Len(s) + l /\ u[k] = t[l]
    BY <1>7, <1>8, <2>3
  <2>4. CASE /\ k \in 1 .. Len(s) /\ u[k] = s[k]
             /\ \E l \in 1 .. Len(t) : j = Len(s) + l /\ u[j] = t[l]
    BY <1>7, <1>8, <2>4
  <2>5. QED
    BY <1>6, <2>1, <2>2, <2>3, <2>4
<1>9. M \cup N = {u[j].name : j \in 1 .. Len(u)}
  <2>1. \A x \in M : \E j \in 1 .. Len(u) : x = u[j].name
    <3>1. \A x \in M : \E j \in 1 .. Len(s) : x = s[j].name
      BY DEF Named
    <3>2. QED
      BY <1>4, <3>1
  <2>2. \A x \in N : \E j \in 1 .. Len(u) : x = u[j].name
    <3>1. \A x \in N : \E j \in 1 .. Len(t) : x = t[j].name
      BY DEF Named
    <3>2. QED
      BY SMTT(30), <1>5, <3>1
  <2>3. \A j \in 1 .. Len(u) : u[j].name \in M \cup N
    BY <1>6, <1>7
  <2>4. QED
    BY <2>1, <2>2, <2>3
<1>10. Named(u, M \cup N)
  BY <1>8, <1>9, Zenon DEF Named
<1>11. QED
  BY <1>3, <1>10

\* A field that is there or not.
LEMMA NamedField ==
  ASSUME NEW name \in Names, NEW type \in Types, type = "time" <=> name = "time"
  PROVE  Named(Field(name, type, TRUE), {name}) /\ Named(Field(name, type, FALSE), {})
BY NamedOne, NamedEmpty DEF Field

LEMMA Group1Named ==
  ASSUME NEW v
  PROVE  \E names : /\ Named(Group1Fields(v), names)
                    /\ names = (IF v = 2 THEN {"state"} ELSE {})
<1>1. PICK f1, n1 : /\ f1 = Field("state", "state", v = 2)
                    /\ n1 = (IF v = 2 THEN {"state"} ELSE {}) /\ Named(f1, n1)
  <2>1. Named(Field("state", "state", TRUE), {"state"}) /\ Named(Field("state", "state", FALSE), {})
    BY NamedField DEF Names, Types
  <2>2. QED
    BY <2>1 DEF Field
<1>2. QED
  BY <1>1 DEF Group1Fields

LEMMA Group2Named ==
  ASSUME NEW v \in Nat
  PROVE  \E names : /\ Named(Group2Fields(v), names)
                    /\ names = {"state"} \cup (IF v >= 2 THEN {"time"} ELSE {})
<1>1. PICK f1, n1 : /\ f1 = Field("state", "state", TRUE)
                    /\ n1 = {"state"} /\ Named(f1, n1)
  BY NamedField DEF Names, Types
<1>2. PICK f2, n2 : /\ f2 = Field("time", "time", v >= 2)
                    /\ n2 = (IF v >= 2 THEN {"time"} ELSE {}) /\ Named(f2, n2)
  <2>1. Named(Field("time", "time", TRUE), {"time"}) /\ Named(Field("time", "time", FALSE), {})
    BY NamedField DEF Names, Types
  <2>2. QED
    BY <2>1 DEF Field
<1>3. Named(f1 \o f2, n1 \cup n2)
  <2>1. n1 \cap n2 = {}
    BY <1>1, <1>2
  <2>2. QED
    BY <1>1, <1>2, <2>1, NamedConcat
<1>4. QED
  BY <1>1, <1>2, <1>3 DEF Group2Fields

LEMMA Group10Named ==
  ASSUME NEW v
  PROVE  \E names : /\ Named(Group10Fields(v), names)
                    /\ names = {"state"}
<1>1. PICK f1, n1 : /\ f1 = Field("state", "state", TRUE)
                    /\ n1 = {"state"} /\ Named(f1, n1)
  BY NamedField DEF Names, Types
<1>2. QED
  BY <1>1 DEF Group10Fields

LEMMA Group12Named ==
  ASSUME NEW v
  PROVE  \E names : /\ Named(Group12Fields(v), names)
                    /\ names = {"control"} \cup {"count"} \cup {"on_time_ms"}
                             \cup {"off_time_ms"} \cup {"status"}
<1>1. PICK f1, n1 : /\ f1 = Field("control", "uint8", TRUE)
                    /\ n1 = {"control"} /\ Named(f1, n1)
  BY ZenonT(40), NamedField DEF Names, Types
<1>2. PICK f2, n2 : /\ f2 = Field("count", "uint8", TRUE)
                    /\ n2 = {"count"} /\ Named(f2, n2)
  BY NamedField DEF Names, Types
<1>3. PICK f3, n3 : /\ f3 = Field("on_time_ms", "uint32", TRUE)
                    /\ n3 = {"on_time_ms"} /\ Named(f3, n3)
  BY NamedField DEF Names, Types
<1>4. PICK f4, n4 : /\ f4 = Field("off_time_ms", "uint32", TRUE)
                    /\ n4 = {"off_time_ms"} /\ Named(f4, n4)
  BY NamedField DEF Names, Types
<1>5. PICK f5, n5 : /\ f5 = Field("status", "uint8", TRUE)
                    /\ n5 = {"status"} /\ Named(f5, n5)
  BY NamedField DEF Names, Types
<1>6. Named(f1 \o f2, n1 \cup n2)
  <2>1. n1 \cap n2 = {}
    BY <1>1, <1>2
  <2>2. QED
    BY <1>1, <1>2, <2>1, NamedConcat
<1>7. Named(f1 \o f2 \o f3, n1 \cup n2 \cup n3)
  <2>1. (n1 \cup n2) \cap n3 = {}
    BY <1>1, <1>2, <1>3
  <2>2. QED
    BY <1>3, <1>6, <2>1, NamedConcat
<1>8. Named(f1 \o f2 \o f3 \o f4, n1 \cup n2 \cup n3 \cup n4)
  <2>1. (n1 \cup n2 \cup n3) \cap n4 = {}
    BY <1>1, <1>2, <1>3, <1>4
  <2>2. QED
    BY <1>4, <1>7, <2>1, NamedConcat
<1>9. Named(f1 \o f2 \o f3 \o f4 \o f5, n1 \cup n2 \cup n3 \cup n4 \cup n5)
  <2>1. (n1 \cup n2 \cup n3 \cup n4) \cap n5 = {}
    BY <1>1, <1>2, <1>3, <1>4, <1>5
  <2>2. QED
    BY <1>5, <1>8, <2>1, NamedConcat
<1>10. QED
  BY <1>1, <1>2, <1>3, <1>4, <1>5, <1>9 DEF Group12Fields

LEMMA Group20Named ==
  ASSUME NEW v
  PROVE  \E names : /\ Named(Group20Fields(v), names)
                    /\ names = (IF v \in {1, 2} THEN {"flags"} ELSE {})
                             \cup (IF v \in {1, 5} THEN {"value"} ELSE {})
                             \cup (IF v \in {2, 6} THEN {"value"} ELSE {})
<1>1. PICK f1, n1 : /\ f1 = Field("flags", "uint8", v \in {1, 2})
                    /\ n1 = (IF v \in {1, 2} THEN {"flags"} ELSE {}) /\ Named(f1, n1)
  <2>1. Named(Field("flags", "uint8", TRUE), {"flags"}) /\ Named(Field("flags", "uint8", FALSE), {})
    BY NamedField DEF Names, Types
  <2>2. QED
    BY <2>1 DEF Field
<1>2. PICK f2, n2 : /\ f2 = Field("value", "uint32", v \in {1, 5})
                    /\ n2 = (IF v \in {1, 5} THEN {"value"} ELSE {}) /\ Named(f2, n2)
  <2>1. Named(Field("value", "uint32", TRUE), {"value"}) /\ Named(Field("value", "uint32", FALSE), {})
    BY NamedField DEF Names, Types
  <2>2. QED
    BY <2>1 DEF Field
<1>3. PICK f3, n3 : /\ f3 = Field("value", "uint16", v \in {2, 6})
                    /\ n3 = (IF v \in {2, 6} THEN {"value"} ELSE {}) /\ Named(f3, n3)
  <2>1. Named(Field("value", "uint16", TRUE), {"value"}) /\ Named(Field("value", "uint16", FALSE), {})
    BY NamedField DEF Names, Types
  <2>2. QED
    BY <2>1 DEF Field
<1>4. Named(f1 \o f2, n1 \cup n2)
  <2>1. n1 \cap n2 = {}
    BY <1>1, <1>2
  <2>2. QED
    BY <1>1, <1>2, <2>1, NamedConcat
<1>5. Named(f1 \o f2 \o f3, n1 \cup n2 \cup n3)
  <2>1. (n1 \cup n2) \cap n3 = {}
    BY <1>1, <1>2, <1>3
  <2>2. QED
    BY <1>3, <1>4, <2>1, NamedConcat
<1>6. QED
  BY <1>1, <1>2, <1>3, <1>5 DEF Group20Fields

LEMMA Group21Named ==
  ASSUME NEW v
  PROVE  \E names : /\ Named(Group21Fields(v), names)
                    /\ names = (IF v \in {1, 2, 5, 6} THEN {"flags"} ELSE {}) \cup {"value"}
                             \cup (IF v \in {5, 6} THEN {"time"} ELSE {})
<1>1. PICK f1, n1 : /\ f1 = Field("flags", "uint8", v \in {1, 2, 5, 6})
                    /\ n1 = (IF v \in {1, 2, 5, 6} THEN {"flags"} ELSE {}) /\ Named(f1, n1)
  <2>1. Named(Field("flags", "uint8", TRUE), {"flags"}) /\ Named(Field("flags", "uint8", FALSE), {})
    BY NamedField DEF Names, Types
  <2>2. QED
    BY <2>1 DEF Field
<1>2. PICK f2, n2 : /\ f2 = Field("value", IF v \in {1, 5, 9} THEN "uint32" ELSE "uint16", TRUE)
                    /\ n2 = {"value"} /\ Named(f2, n2)
  <2>1. PICK type : type = (IF v \in {1, 5, 9} THEN "uint32" ELSE "uint16") /\ type \in Types /\ type # "time"
    BY DEF Types
  <2>2. Named(Field("value", type, TRUE), {"value"})
    BY <2>1, NamedField DEF Names
  <2>3. QED
    BY <2>1, <2>2
<1>3. PICK f3, n3 : /\ f3 = Field("time", "time", v \in {5, 6})
                    /\ n3 = (IF v \in {5, 6} THEN {"time"} ELSE {}) /\ Named(f3, n3)
  <2>1. Named(Field("time", "time", TRUE), {"time"}) /\ Named(Field("time", "time", FALSE), {})
    BY NamedField DEF Names, Types
  <2>2. QED
    BY <2>1 DEF Field
<1>4. Named(f1 \o f2, n1 \cup n2)
  <2>1. n1 \cap n2 = {}
    BY <1>1, <1>2
  <2>2. QED
    BY <1>1, <1>2, <2>1, NamedConcat
<1>5. Named(f1 \o f2 \o f3, n1 \cup n2 \cup n3)
  <2>1. (n1 \cup n2) \cap n3 = {}
    BY <1>1, <1>2, <1>3
  <2>2. QED
    BY <1>3, <1>4, <2>1, NamedConcat
<1>6. QED
  BY <1>1, <1>2, <1>3, <1>5 DEF Group21Fields

LEMMA Group30Named ==
  ASSUME NEW v
  PROVE  \E names : /\ Named(Group30Fields(v), names)
                    /\ names = (IF v \in {1, 2, 5, 6} THEN {"flags"} ELSE {})
                             \cup (IF v \in {1, 3} THEN {"value"} ELSE {})
                             \cup (IF v \in {2, 4} THEN {"value"} ELSE {})
                             \cup (IF v = 5 THEN {"value"} ELSE {})
                             \cup (IF v = 6 THEN {"value"} ELSE {})
<1>1. PICK f1, n1 : /\ f1 = Field("flags", "uint8", v \in {1, 2, 5, 6})
                    /\ n1 = (IF v \in {1, 2, 5, 6} THEN {"flags"} ELSE {}) /\ Named(f1, n1)
  <2>1. Named(Field("flags", "uint8", TRUE), {"flags"}) /\ Named(Field("flags", "uint8", FALSE), {})
    BY NamedField DEF Names, Types
  <2>2. QED
    BY <2>1 DEF Field
<1>2. PICK f2, n2 : /\ f2 = Field("value", "int32", v \in {1, 3})
                    /\ n2 = (IF v \in {1, 3} THEN {"value"} ELSE {}) /\ Named(f2, n2)
  <2>1. Named(Field("value", "int32", TRUE), {"value"}) /\ Named(Field("value", "int32", FALSE), {})
    BY NamedField DEF Names, Types
  <2>2. QED
    BY <2>1 DEF Field
<1>3. PICK f3, n3 : /\ f3 = Field("value", "int16", v \in {2, 4})
                    /\ n3 = (IF v \in {2, 4} THEN {"value"} ELSE {}) /\ Named(f3, n3)
  <2>1. Named(Field("value", "int16", TRUE), {"value"}) /\ Named(Field("value", "int16", FALSE), {})
    BY NamedField DEF Names, Types
  <2>2. QED
    BY <2>1 DEF Field
<1>4. PICK f4, n4 : /\ f4 = Field("value", "float32", v = 5)
                    /\ n4 = (IF v = 5 THEN {"value"} ELSE {}) /\ Named(f4, n4)
  <2>1. Named(Field("value", "float32", TRUE), {"value"}) /\ Named(Field("value", "float32", FALSE), {})
    BY NamedField DEF Names, Types
  <2>2. QED
    BY <2>1 DEF Field
<1>5. PICK f5, n5 : /\ f5 = Field("value", "float64", v = 6)
                    /\ n5 = (IF v = 6 THEN {"value"} ELSE {}) /\ Named(f5, n5)
  <2>1. Named(Field("value", "float64", TRUE), {"value"}) /\ Named(Field("value", "float64", FALSE), {})
    BY NamedField DEF Names, Types
  <2>2. QED
    BY <2>1 DEF Field
<1>6. Named(f1 \o f2, n1 \cup n2)
  <2>1. n1 \cap n2 = {}
    BY <1>1, <1>2
  <2>2. QED
    BY <1>1, <1>2, <2>1, NamedConcat
<1>7. Named(f1 \o f2 \o f3, n1 \cup n2 \cup n3)
  <2>1. (n1 \cup n2) \cap n3 = {}
    BY <1>1, <1>2, <1>3
  <2>2. QED
    BY <1>3, <1>6, <2>1, NamedConcat
<1>8. Named(f1 \o f2 \o f3 \o f4, n1 \cup n2 \cup n3 \cup n4)
  <2>1. (n1 \cup n2 \cup n3) \cap n4 = {}
    BY <1>1, <1>2, <1>3, <1>4
  <2>2. QED
    BY <1>4, <1>7, <2>1, NamedConcat
<1>9. Named(f1 \o f2 \o f3 \o f4 \o f5, n1 \cup n2 \cup n3 \cup n4 \cup n5)
  <2>1. (n1 \cup n2 \cup n3 \cup n4) \cap n5 = {}
    BY <1>1, <1>2, <1>3, <1>4, <1>5
  <2>2. QED
    BY <1>5, <1>8, <2>1, NamedConcat
<1>10. QED
  BY <1>1, <1>2, <1>3, <1>4, <1>5, <1>9 DEF Group30Fields

LEMMA Group32Named ==
  ASSUME NEW v
  PROVE  \E names : /\ Named(Group32Fields(v), names)
                    /\ names = {"flags"} \cup (IF v \in {1, 3} THEN {"value"} ELSE {})
                             \cup (IF v \in {2, 4} THEN {"value"} ELSE {})
                             \cup (IF v \in {5, 7} THEN {"value"} ELSE {})
                             \cup (IF v \in {6, 8} THEN {"value"} ELSE {})
                             \cup (IF v \in {3, 4, 7, 8} THEN {"time"} ELSE {})
<1>1. PICK f1, n1 : /\ f1 = Field("flags", "uint8", TRUE)
                    /\ n1 = {"flags"} /\ Named(f1, n1)
  BY NamedField DEF Names, Types
<1>2. PICK f2, n2 : /\ f2 = Field("value", "int32", v \in {1, 3})
                    /\ n2 = (IF v \in {1, 3} THEN {"value"} ELSE {}) /\ Named(f2, n2)
  <2>1. Named(Field("value", "int32", TRUE), {"value"}) /\ Named(Field("value", "int32", FALSE), {})
    BY NamedField DEF Names, Types
  <2>2. QED
    BY <2>1 DEF Field
<1>3. PICK f3, n3 : /\ f3 = Field("value", "int16", v \in {2, 4})
                    /\ n3 = (IF v \in {2, 4} THEN {"value"} ELSE {}) /\ Named(f3, n3)
  <2>1. Named(Field("value", "int16", TRUE), {"value"}) /\ Named(Field("value", "int16", FALSE), {})
    BY NamedField DEF Names, Types
  <2>2. QED
    BY <2>1 DEF Field
<1>4. PICK f4, n4 : /\ f4 = Field("value", "float32", v \in {5, 7})
                    /\ n4 = (IF v \in {5, 7} THEN {"value"} ELSE {}) /\ Named(f4, n4)
  <2>1. Named(Field("value", "float32", TRUE), {"value"}) /\ Named(Field("value", "float32", FALSE), {})
    BY NamedField DEF Names, Types
  <2>2. QED
    BY <2>1 DEF Field
<1>5. PICK f5, n5 : /\ f5 = Field("value", "float64", v \in {6, 8})
                    /\ n5 = (IF v \in {6, 8} THEN {"value"} ELSE {}) /\ Named(f5, n5)
  <2>1. Named(Field("value", "float64", TRUE), {"value"}) /\ Named(Field("value", "float64", FALSE), {})
    BY NamedField DEF Names, Types
  <2>2. QED
    BY <2>1 DEF Field
<1>6. PICK f6, n6 : /\ f6 = Field("time", "time", v \in {3, 4, 7, 8})
                    /\ n6 = (IF v \in {3, 4, 7, 8} THEN {"time"} ELSE {}) /\ Named(f6, n6)
  <2>1. Named(Field("time", "time", TRUE), {"time"}) /\ Named(Field("time", "time", FALSE), {})
    BY NamedField DEF Names, Types
  <2>2. QED
    BY <2>1 DEF Field
<1>7. Named(f1 \o f2, n1 \cup n2)
  <2>1. n1 \cap n2 = {}
    BY <1>1, <1>2
  <2>2. QED
    BY <1>1, <1>2, <2>1, NamedConcat
<1>8. Named(f1 \o f2 \o f3, n1 \cup n2 \cup n3)
  <2>1. (n1 \cup n2) \cap n3 = {}
    BY <1>1, <1>2, <1>3
  <2>2. QED
    BY <1>3, <1>7, <2>1, NamedConcat
<1>9. Named(f1 \o f2 \o f3 \o f4, n1 \cup n2 \cup n3 \cup n4)
  <2>1. (n1 \cup n2 \cup n3) \cap n4 = {}
    BY <1>1, <1>2, <1>3, <1>4
  <2>2. QED
    BY <1>4, <1>8, <2>1, NamedConcat
<1>10. Named(f1 \o f2 \o f3 \o f4 \o f5, n1 \cup n2 \cup n3 \cup n4 \cup n5)
  <2>1. (n1 \cup n2 \cup n3 \cup n4) \cap n5 = {}
    BY <1>1, <1>2, <1>3, <1>4, <1>5
  <2>2. QED
    BY <1>5, <1>9, <2>1, NamedConcat
<1>11. Named(f1 \o f2 \o f3 \o f4 \o f5 \o f6, n1 \cup n2 \cup n3 \cup n4 \cup n5 \cup n6)
  <2>1. (n1 \cup n2 \cup n3 \cup n4 \cup n5) \cap n6 = {}
    BY <1>1, <1>2, <1>3, <1>4, <1>5, <1>6
  <2>2. QED
    BY <1>10, <1>6, <2>1, NamedConcat
<1>12. QED
  BY ZenonT(40), <1>1, <1>2, <1>3, <1>4, <1>5, <1>6, <1>11 DEF Group32Fields

LEMMA Group40Named ==
  ASSUME NEW v
  PROVE  \E names : /\ Named(Group40Fields(v), names)
                    /\ names = {"flags"} \cup (IF v = 1 THEN {"value"} ELSE {})
                             \cup (IF v = 2 THEN {"value"} ELSE {})
                             \cup (IF v = 3 THEN {"value"} ELSE {})
                             \cup (IF v = 4 THEN {"value"} ELSE {})
<1>1. PICK f1, n1 : /\ f1 = Field("flags", "uint8", TRUE)
                    /\ n1 = {"flags"} /\ Named(f1, n1)
  BY NamedField DEF Names, Types
<1>2. PICK f2, n2 : /\ f2 = Field("value", "int32", v = 1)
                    /\ n2 = (IF v = 1 THEN {"value"} ELSE {}) /\ Named(f2, n2)
  <2>1. Named(Field("value", "int32", TRUE), {"value"}) /\ Named(Field("value", "int32", FALSE), {})
    BY NamedField DEF Names, Types
  <2>2. QED
    BY <2>1 DEF Field
<1>3. PICK f3, n3 : /\ f3 = Field("value", "int16", v = 2)
                    /\ n3 = (IF v = 2 THEN {"value"} ELSE {}) /\ Named(f3, n3)
  <2>1. Named(Field("value", "int16", TRUE), {"value"}) /\ Named(Field("value", "int16", FALSE), {})
    BY NamedField DEF Names, Types
  <2>2. QED
    BY <2>1 DEF Field
<1>4. PICK f4, n4 : /\ f4 = Field("value", "float32", v = 3)
                    /\ n4 = (IF v = 3 THEN {"value"} ELSE {}) /\ Named(f4, n4)
  <2>1. Named(Field("value", "float32", TRUE), {"value"}) /\ Named(Field("value", "float32", FALSE), {})
    BY NamedField DEF Names, Types
  <2>2. QED
    BY <2>1 DEF Field
<1>5. PICK f5, n5 : /\ f5 = Field("value", "float64", v = 4)
                    /\ n5 = (IF v = 4 THEN {"value"} ELSE {}) /\ Named(f5, n5)
  <2>1. Named(Field("value", "float64", TRUE), {"value"}) /\ Named(Field("value", "float64", FALSE), {})
    BY NamedField DEF Names, Types
  <2>2. QED
    BY <2>1 DEF Field
<1>6. Named(f1 \o f2, n1 \cup n2)
  <2>1. n1 \cap n2 = {}
    BY <1>1, <1>2
  <2>2. QED
    BY <1>1, <1>2, <2>1, NamedConcat
<1>7. Named(f1 \o f2 \o f3, n1 \cup n2 \cup n3)
  <2>1. (n1 \cup n2) \cap n3 = {}
    BY <1>1, <1>2, <1>3
  <2>2. QED
    BY <1>3, <1>6, <2>1, NamedConcat
<1>8. Named(f1 \o f2 \o f3 \o f4, n1 \cup n2 \cup n3 \cup n4)
  <2>1. (n1 \cup n2 \cup n3) \cap n4 = {}
    BY <1>1, <1>2, <1>3, <1>4
  <2>2. QED
    BY <1>4, <1>7, <2>1, NamedConcat
<1>9. Named(f1 \o f2 \o f3 \o f4 \o f5, n1 \cup n2 \cup n3 \cup n4 \cup n5)
  <2>1. (n1 \cup n2 \cup n3 \cup n4) \cap n5 = {}
    BY <1>1, <1>2, <1>3, <1>4, <1>5
  <2>2. QED
    BY <1>5, <1>8, <2>1, NamedConcat
<1>10. QED
  BY <1>1, <1>2, <1>3, <1>4, <1>5, <1>9 DEF Group40Fields

LEMMA Group41Named ==
  ASSUME NEW v, NEW reading
  PROVE  \E names : /\ Named(Group41Fields(v, reading), names)
                    /\ names = (IF v = 1 THEN {"value"} ELSE {})
                             \cup (IF v = 2 THEN {"value"} ELSE {})
                             \cup (IF v = 3 THEN {"value"} ELSE {})
                             \cup (IF v = 4 THEN {"value"} ELSE {})
                             \cup (IF v \in 1 .. 4 \/ ~reading THEN {"status"} ELSE {})
<1>1. PICK f1, n1 : /\ f1 = Field("value", "int32", v = 1)
                    /\ n1 = (IF v = 1 THEN {"value"} ELSE {}) /\ Named(f1, n1)
  <2>1. Named(Field("value", "int32", TRUE), {"value"}) /\ Named(Field("value", "int32", FALSE), {})
    BY NamedField DEF Names, Types
  <2>2. QED
    BY <2>1 DEF Field
<1>2. PICK f2, n2 : /\ f2 = Field("value", "int16", v = 2)
                    /\ n2 = (IF v = 2 THEN {"value"} ELSE {}) /\ Named(f2, n2)
  <2>1. Named(Field("value", "int16", TRUE), {"value"}) /\ Named(Field("value", "int16", FALSE), {})
    BY NamedField DEF Names, Types
  <2>2. QED
    BY <2>1 DEF Field
<1>3. PICK f3, n3 : /\ f3 = Field("value", "float32", v = 3)
                    /\ n3 = (IF v = 3 THEN {"value"} ELSE {}) /\ Named(f3, n3)
  <2>1. Named(Field("value", "float32", TRUE), {"value"}) /\ Named(Field("value", "float32", FALSE), {})
    BY NamedField DEF Names, Types
  <2>2. QED
    BY <2>1 DEF Field
<1>4. PICK f4, n4 : /\ f4 = Field("value", "float64", v = 4)
                    /\ n4 = (IF v = 4 THEN {"value"} ELSE {}) /\ Named(f4, n4)
  <2>1. Named(Field("value", "float64", TRUE), {"value"}) /\ Named(Field("value", "float64", FALSE), {})
    BY NamedField DEF Names, Types
  <2>2. QED
    BY <2>1 DEF Field
<1>5. PICK f5, n5 : /\ f5 = Field("status", "uint8", v \in 1 .. 4 \/ ~reading)
                    /\ n5 = (IF v \in 1 .. 4 \/ ~reading THEN {"status"} ELSE {}) /\ Named(f5, n5)
  <2>1. Named(Field("status", "uint8", TRUE), {"status"}) /\ Named(Field("status", "uint8", FALSE), {})
    BY NamedField DEF Names, Types
  <2>2. QED
    BY <2>1 DEF Field
<1>6. Named(f1 \o f2, n1 \cup n2)
  <2>1. n1 \cap n2 = {}
    BY <1>1, <1>2
  <2>2. QED
    BY <1>1, <1>2, <2>1, NamedConcat
<1>7. Named(f1 \o f2 \o f3, n1 \cup n2 \cup n3)
  <2>1. (n1 \cup n2) \cap n3 = {}
    BY <1>1, <1>2, <1>3
  <2>2. QED
    BY <1>3, <1>6, <2>1, NamedConcat
<1>8. Named(f1 \o f2 \o f3 \o f4, n1 \cup n2 \cup n3 \cup n4)
  <2>1. (n1 \cup n2 \cup n3) \cap n4 = {}
    BY <1>1, <1>2, <1>3, <1>4
  <2>2. QED
    BY <1>4, <1>7, <2>1, NamedConcat
<1>9. Named(f1 \o f2 \o f3 \o f4 \o f5, n1 \cup n2 \cup n3 \cup n4 \cup n5)
  <2>1. (n1 \cup n2 \cup n3 \cup n4) \cap n5 = {}
    BY <1>1, <1>2, <1>3, <1>4, <1>5
  <2>2. QED
    BY <1>5, <1>8, <2>1, NamedConcat
<1>10. QED
  BY <1>1, <1>2, <1>3, <1>4, <1>5, <1>9 DEF Group41Fields

LEMMA Group50Named ==
  ASSUME NEW v
  PROVE  \E names : /\ Named(Group50Fields(v), names)
                    /\ names = {"ms_since_epoch"}
<1>1. PICK f1, n1 : /\ f1 = Field("ms_since_epoch", "uint48", TRUE)
                    /\ n1 = {"ms_since_epoch"} /\ Named(f1, n1)
  BY NamedField DEF Names, Types
<1>2. QED
  BY <1>1 DEF Group50Fields

\* What a group's field names are for its attributes: a state stands for value
\* and flags.  Of a known unpacked variation every attribute has a field, or a
\* meaning when left out: index, flags, time, or the value a state stands for.
Describes(g, v, names) ==
  /\ names \subseteq Attributes(g) \cup {"state"}
  /\ "state" \in names =>
       g \in {1, 2, 10} /\ "value" \notin names /\ "flags" \notin names
  /\ Known(g, v) /\ ~Packed(g, v) =>
       Attributes(g) \subseteq names \cup {"index", "flags", "time"}
                           \cup (IF "state" \in names THEN {"value"} ELSE {})

Written == Handled \ {60}

LEMMA FieldsAre ==
  ASSUME NEW g \in Written, NEW v \in Nat, NEW reading
  PROVE  \E names : /\ Named(Fields(g, v, reading), names) /\ Describes(g, v, names)
                    /\ "index" \notin names
<1>1. CASE g = 1
  <2>1. PICK names : Named(Group1Fields(v), names) /\ names = IF v = 2 THEN {"state"} ELSE {}
    BY Group1Named
  <2>2. Describes(g, v, names)
    BY <1>1, <2>1 DEF Describes, Attributes, Known, Packed
  <2>3. QED
    BY <1>1, <2>1, <2>2 DEF Fields
<1>2. CASE g = 2
  <2>1. PICK names : Named(Group2Fields(v), names)
                     /\ names = {"state"} \cup (IF v >= 2 THEN {"time"} ELSE {})
    BY Group2Named
  <2>2. Describes(g, v, names)
    BY <1>2, <2>1 DEF Describes, Attributes
  <2>3. QED
    BY <1>2, <2>1, <2>2 DEF Fields
<1>3. CASE g = 10
  <2>1. PICK names : Named(Group10Fields(v), names) /\ names = {"state"}
    BY Group10Named
  <2>2. Describes(g, v, names)
    BY <1>3, <2>1 DEF Describes, Attributes
  <2>3. QED
    BY <1>3, <2>1, <2>2 DEF Fields
<1>4. CASE g = 12
  <2>1. PICK names : Named(Group12Fields(v), names)
          /\ names = {"control"} \cup {"count"} \cup {"on_time_ms"} \cup {"off_time_ms"} \cup {"status"}
    BY Group12Named
  <2>2. Describes(g, v, names)
    BY <1>4, <2>1 DEF Describes, Attributes
  <2>3. QED
    BY <1>4, <2>1, <2>2 DEF Fields
<1>5. CASE g = 20
  <2>1. PICK names : /\ Named(Group20Fields(v), names)
                     /\ names = (IF v \in {1, 2} THEN {"flags"} ELSE {})
                             \cup (IF v \in {1, 5} THEN {"value"} ELSE {})
                             \cup (IF v \in {2, 6} THEN {"value"} ELSE {})
    BY Group20Named
  <2>2. Describes(g, v, names)
    <3>1. names \subseteq {"flags", "value"} /\ (v \in {1, 2, 5, 6} => "value" \in names)
      BY <2>1
    <3>2. QED
      BY <1>5, <3>1 DEF Describes, Attributes, Known
  <2>3. "index" \notin names
    BY <2>1
  <2>4. QED
    BY <1>5, <2>1, <2>2, <2>3 DEF Fields
<1>6. CASE g = 21
  <2>1. PICK names : /\ Named(Group21Fields(v), names)
                     /\ names = (IF v \in {1, 2, 5, 6} THEN {"flags"} ELSE {}) \cup {"value"}
                             \cup (IF v \in {5, 6} THEN {"time"} ELSE {})
    BY Group21Named
  <2>2. Describes(g, v, names)
    <3>1. names \subseteq {"flags", "value", "time"} /\ "value" \in names
      BY <2>1
    <3>2. QED
      BY <1>6, <3>1 DEF Describes, Attributes
  <2>3. "index" \notin names
    BY <2>1
  <2>4. QED
    BY <1>6, <2>1, <2>2, <2>3 DEF Fields
<1>7. CASE g = 30
  <2>1. PICK names : /\ Named(Group30Fields(v), names)
                     /\ names = (IF v \in {1, 2, 5, 6} THEN {"flags"} ELSE {})
                             \cup (IF v \in {1, 3} THEN {"value"} ELSE {})
                             \cup (IF v \in {2, 4} THEN {"value"} ELSE {})
                             \cup (IF v = 5 THEN {"value"} ELSE {})
                             \cup (IF v = 6 THEN {"value"} ELSE {})
    BY Group30Named
  <2>2. Describes(g, v, names)
    <3>1. names \subseteq {"flags", "value"} /\ (v \in 1 .. 6 => "value" \in names)
      BY <2>1
    <3>2. QED
      BY <1>7, <3>1 DEF Describes, Attributes, Known
  <2>3. "index" \notin names
    BY <2>1
  <2>4. QED
    BY <1>7, <2>1, <2>2, <2>3 DEF Fields
<1>8. CASE g = 32
  <2>1. PICK names : /\ Named(Group32Fields(v), names)
                     /\ names = {"flags"} \cup (IF v \in {1, 3} THEN {"value"} ELSE {})
                             \cup (IF v \in {2, 4} THEN {"value"} ELSE {})
                             \cup (IF v \in {5, 7} THEN {"value"} ELSE {})
                             \cup (IF v \in {6, 8} THEN {"value"} ELSE {})
                             \cup (IF v \in {3, 4, 7, 8} THEN {"time"} ELSE {})
    BY Group32Named
  <2>2. Describes(g, v, names)
    <3>1. names \subseteq {"flags", "value", "time"} /\ (v \in 1 .. 8 => "value" \in names)
      BY <2>1
    <3>2. QED
      BY <1>8, <3>1 DEF Describes, Attributes, Known
  <2>3. "index" \notin names
    BY <2>1
  <2>4. QED
    BY <1>8, <2>1, <2>2, <2>3 DEF Fields
<1>9. CASE g = 40
  <2>1. PICK names : /\ Named(Group40Fields(v), names)
                     /\ names = {"flags"} \cup (IF v = 1 THEN {"value"} ELSE {})
                             \cup (IF v = 2 THEN {"value"} ELSE {})
                             \cup (IF v = 3 THEN {"value"} ELSE {})
                             \cup (IF v = 4 THEN {"value"} ELSE {})
    BY Group40Named
  <2>2. Describes(g, v, names)
    <3>1. names \subseteq {"flags", "value"} /\ (v \in 1 .. 4 => "value" \in names)
      BY <2>1
    <3>2. QED
      BY <1>9, <3>1 DEF Describes, Attributes, Known
  <2>3. "index" \notin names
    BY <2>1
  <2>4. QED
    BY <1>9, <2>1, <2>2, <2>3 DEF Fields
<1>10. CASE g = 41
  <2>1. PICK names : /\ Named(Group41Fields(v, reading), names)
                     /\ names = (IF v = 1 THEN {"value"} ELSE {})
                             \cup (IF v = 2 THEN {"value"} ELSE {})
                             \cup (IF v = 3 THEN {"value"} ELSE {})
                             \cup (IF v = 4 THEN {"value"} ELSE {})
                             \cup (IF v \in 1 .. 4 \/ ~reading THEN {"status"} ELSE {})
    BY Group41Named
  <2>2. Describes(g, v, names)
    <3>1. names \subseteq {"value", "status"} /\ (v \in 1 .. 4 => {"value", "status"} \subseteq names)
      BY <2>1
    <3>2. QED
      BY <1>10, <3>1 DEF Describes, Attributes, Known
  <2>3. "index" \notin names
    BY <2>1
  <2>4. QED
    BY <1>10, <2>1, <2>2, <2>3 DEF Fields
<1>11. CASE g = 50
  <2>1. PICK names : Named(Group50Fields(v), names) /\ names = {"ms_since_epoch"}
    BY Group50Named
  <2>2. Describes(g, v, names)
    BY <1>11, <2>1 DEF Describes, Attributes
  <2>3. QED
    BY <1>11, <2>1, <2>2 DEF Fields
<1>12. CASE g = 80
  <2>1. Fields(g, v, reading) = <<>>
    BY <1>12 DEF Fields
  <2>2. Describes(g, v, {})
    BY <1>12 DEF Describes, Packed
  <2>3. QED
    BY <2>1, <2>2, NamedEmpty
<1>13. g \in {1, 2, 10, 12, 20, 21, 30, 32, 40, 41, 50, 80}
  BY DEF Written, Handled
<1>14. QED
  BY <1>1, <1>2, <1>3, <1>4, <1>5, <1>6, <1>7, <1>8, <1>9, <1>10, <1>11, <1>12, <1>13

LEMMA PrefixIs ==
  ASSUME NEW h, h.group \in Written
  PROVE  \E names : /\ Named(Prefix(h), names) /\ names \subseteq {"index"}
                    /\ names \subseteq Attributes(h.group)
<1>1. CASE Prefix(h) = <<>>
  BY <1>1, NamedEmpty
<1>2. CASE Prefix(h) # <<>>
  <2>1. ~(h.group = 50 \/ (h.group = 1 /\ ~Known(1, h.var)))
    BY <1>2 DEF Prefix
  <2>2. Prefix(h) = Field("index", "uint8", h.qual = INDEX_8)
                    \o Field("index", "uint16", h.qual = INDEX_16)
    BY <2>1 DEF Prefix
  <2>3. /\ Named(Field("index", "uint8", TRUE), {"index"}) /\ Named(Field("index", "uint8", FALSE), {})
        /\ Named(Field("index", "uint16", TRUE), {"index"}) /\ Named(Field("index", "uint16", FALSE), {})
    BY NamedField DEF Names, Types
  <2>4. PICK f, m : f = Field("index", "uint8", h.qual = INDEX_8) /\ Named(f, m)
                    /\ m = (IF h.qual = INDEX_8 THEN {"index"} ELSE {})
    BY <2>3 DEF Field
  <2>5. PICK g, n : g = Field("index", "uint16", h.qual = INDEX_16) /\ Named(g, n)
                    /\ n = (IF h.qual = INDEX_16 THEN {"index"} ELSE {})
    BY <2>3 DEF Field
  <2>6. m \cap n = {} /\ m \cup n \subseteq {"index"}
    BY <2>4, <2>5 DEF INDEX_8, INDEX_16
  <2>7. Named(f \o g, m \cup n)
    BY <2>4, <2>5, <2>6, NamedConcat
  <2>8. h.group \in {1, 2, 10, 12, 20, 21, 30, 32, 40, 41, 80}
    BY <2>1 DEF Written, Handled
  <2>9. "index" \in Attributes(h.group)
    BY <2>8 DEF Attributes
  <2>10. QED
    BY <2>2, <2>4, <2>5, <2>6, <2>7, <2>9
<1>3. QED
  BY <1>1, <1>2

\* The fields of a point with its prefix.
LEMMA PointFieldsAre ==
  ASSUME NEW h \in AnyHeader, h.group \in Written, NEW reading
  PROVE  \E names : /\ Named(Prefix(h) \o Fields(h.group, h.var, reading), names)
                    /\ Describes(h.group, h.var, names)
<1>1. h.var \in Nat
  <2>1. h.var \in Octet
    BY DEF AnyHeader
  <2>2. QED
    BY <2>1 DEF Octet
<1>2. PICK s, m : /\ s = Prefix(h) /\ Named(s, m) /\ m \subseteq {"index"}
                  /\ m \subseteq Attributes(h.group)
  BY PrefixIs
<1>3. PICK t, n : /\ t = Fields(h.group, h.var, reading) /\ Named(t, n)
                  /\ Describes(h.group, h.var, n) /\ "index" \notin n
  BY <1>1, FieldsAre
<1>4. Named(s \o t, m \cup n)
  BY <1>2, <1>3, NamedConcat
<1>5. Describes(h.group, h.var, m \cup n)
  BY <1>2, <1>3 DEF Describes
<1>6. QED
  BY <1>2, <1>3, <1>4, <1>5

\* A parser reads the fields that are written, of the variations it knows.
LEMMA SameFields ==
  ASSUME NEW h, Known(h.group, h.var), ~Packed(h.group, h.var)
  PROVE  WriteFields(h) = Prefix(h) \o Fields(h.group, h.var, TRUE)
<1>1. Fields(h.group, h.var, FALSE) = Fields(h.group, h.var, TRUE)
  <2>1. CASE h.group = 41
    <3>1. h.var \in 1 .. 4
      BY <2>1 DEF Known
    <3>2. Group41Fields(h.var, FALSE) = Group41Fields(h.var, TRUE)
      BY <3>1 DEF Group41Fields, Field
    <3>3. QED
      BY <2>1, <3>2 DEF Fields
  <2>2. CASE h.group # 41
    BY <2>2 DEF Fields
  <2>3. QED
    BY <2>1, <2>2
<1>2. QED
  BY <1>1 DEF WriteFields

LEMMA WriteFieldsAre ==
  ASSUME NEW h \in AnyHeader, h.group \in Written
  PROVE  \E names : Named(WriteFields(h), names) /\ Describes(h.group, h.var, names)
<1>1. CASE Packed(h.group, h.var)
  <2>1. WriteFields(h) = <<>>
    BY <1>1 DEF WriteFields
  <2>2. Describes(h.group, h.var, {})
    BY <1>1 DEF Describes
  <2>3. QED
    BY <2>1, <2>2, NamedEmpty
<1>2. CASE ~Packed(h.group, h.var)
  <2>1. PICK fs : fs = Prefix(h) \o Fields(h.group, h.var, FALSE)
    OBVIOUS
  <2>2. WriteFields(h) = fs
    BY <1>2, <2>1 DEF WriteFields
  <2>3. QED
    BY <2>1, <2>2, PointFieldsAre
<1>3. QED
  BY <1>1, <1>2

-----------------------------------------------------------------------------
(* Points *)

\* A point of the group as a message may have it.
GoodPoint(g, p) == p \in [Attributes(g) -> Int \cup {Nothing}] /\ IsPoint(g, p)

TypesOf(fs) == [j \in 1 .. Len(fs) |-> fs[j].type]

LEMMA TypesOfAre ==
  ASSUME NEW fs, NEW names, Named(fs, names)
  PROVE  /\ TypesOf(fs) \in Seq(Types) /\ Len(TypesOf(fs)) = Len(fs) /\ Len(fs) \in Nat
         /\ \A j \in 1 .. Len(fs) :
              /\ TypesOf(fs)[j] = fs[j].type /\ fs[j].type \in Types /\ fs[j].name \in names
              /\ fs[j].type = "time" <=> fs[j].name = "time"
<1>1. fs \in Seq(FieldOf)
  BY DEF Named
<1>2. Len(fs) \in Nat /\ \A j \in 1 .. Len(fs) : fs[j] \in FieldOf
  BY <1>1, LenProperties
<1>3. \A j \in 1 .. Len(fs) :
        fs[j].type \in Types /\ (fs[j].type = "time" <=> fs[j].name = "time")
  BY <1>2 DEF FieldOf
<1>4. TypesOf(fs) \in [1 .. Len(fs) -> Types]
  BY <1>3 DEF TypesOf
<1>5. TypesOf(fs) \in Seq(Types) /\ Len(TypesOf(fs)) = Len(fs)
  BY <1>2, <1>4, FunctionSeq
<1>6. \A j \in 1 .. Len(fs) : TypesOf(fs)[j] = fs[j].type
  BY DEF TypesOf
<1>7. \A j \in 1 .. Len(fs) : fs[j].name \in names
  BY DEF Named
<1>8. QED
  BY <1>2, <1>3, <1>5, <1>6, <1>7

\* What becomes of a time, and when it stays what it is.
LEMMA MillisecondsIs ==
  /\ \A t \in Int \cup {Nothing} : Milliseconds(t) \in Int
  /\ \A t \in Int : /\ t # Nothing
                    /\ Milliseconds(t) = t <=> Zone = 0 /\ t \notin Truncated
                    /\ Near(t, Milliseconds(t))
<1>1. Nothing \notin Int
  BY NothingAssumption
<1>2. Zone \in Int /\ -86400000 <= Zone /\ Zone <= 86400000 /\ Zone % 1000 = 0
  BY ZoneAssumption, SMT
<1>3. Zone \in Int /\ Zone # -1
  BY <1>2, SMT
<1>4. ASSUME NEW t \in Int
      PROVE  /\ t # Nothing /\ Milliseconds(t) \in Int
             /\ Milliseconds(t) = t <=> Zone = 0 /\ t \notin Truncated
             /\ Near(t, Milliseconds(t))
  <2>1. t # Nothing
    BY <1>1
  <2>2. CASE t - Zone \in Truncated
    <3>1. Milliseconds(t) = t - Zone - 1
      BY <2>1, <2>2 DEF Milliseconds
    <3>2. t - Zone - 1 # t
      BY <1>2, <1>3, SMT
    <3>3. ~(Zone = 0 /\ t \notin Truncated)
      BY <2>2
    <3>4. Near(t, t - Zone - 1)
      BY <1>2, SMT DEF Near
    <3>5. QED
      BY <1>3, <2>1, <3>1, <3>2, <3>3, <3>4
  <2>3. CASE t - Zone \notin Truncated
    <3>1. Milliseconds(t) = t - Zone
      BY <2>1, <2>3 DEF Milliseconds
    <3>2. t - Zone = t <=> Zone = 0
      BY <1>2, SMT
    <3>3. Zone = 0 => t \notin Truncated
      BY <2>3
    <3>4. Near(t, t - Zone)
      BY <1>2, SMT DEF Near
    <3>5. QED
      BY <1>3, <2>1, <3>1, <3>2, <3>3, <3>4
  <2>4. QED
    BY <2>2, <2>3
<1>5. Milliseconds(Nothing) \in Int
  BY DEF Milliseconds
<1>6. QED
  BY <1>4, <1>5

LEMMA StateNumbers ==
  \A f \in Int, v \in {0, 1} :
    /\ (f % 128) + (128 * v) \in Int
    /\ ((f % 128) + (128 * v)) % 128 = f % 128 /\ ((f % 128) + (128 * v)) \div 128 = v
    /\ f \in 0 .. 127 => f % 128 = f
OBVIOUS

LEMMA StateParts ==
  \A s \in Int : (s % 128) \in 0 .. 127 /\ (s \div 128) \in Int
                 /\ ((s % 128) % 128) + (128 * (s \div 128)) = s
OBVIOUS

LEMMA NoState == \A g \in Written : "state" \notin Attributes(g)
BY DEF Written, Handled, Attributes

LEMMA StateAttributes ==
  \A g \in {1, 2, 10} : /\ Attributes(g) = {"index", "value", "flags", "time"}
                        /\ \A p : GoodPoint(g, p) => p.flags \in Int /\ p.value \in {0, 1}
<1>1. ASSUME NEW g \in {1, 2, 10}
      PROVE  Attributes(g) = {"index", "value", "flags", "time"}
  BY DEF Attributes
<1>2. ASSUME NEW g \in {1, 2, 10}, NEW p, GoodPoint(g, p)
      PROVE  p.flags \in Int /\ p.value \in {0, 1}
  <2>1. "flags" \in Attributes(g) \ {"time"}
    BY <1>1
  <2>2. p["flags"] \in Int
    BY <1>2, <2>1 DEF GoodPoint, IsPoint
  <2>3. p.value \in {0, 1}
    BY <1>2 DEF GoodPoint, IsPoint
  <2>4. QED
    BY <2>2, <2>3
<1>3. QED
  BY <1>1, <1>2

\* What is written of a point are integers.
LEMMA FieldValueIs ==
  ASSUME NEW g \in Written, NEW v, NEW names, Describes(g, v, names), NEW p, GoodPoint(g, p),
         NEW name \in names
  PROVE  FieldValue(p, name) \in Int
<1>1. CASE name = "state"
  <2>1. g \in {1, 2, 10}
    BY <1>1 DEF Describes
  <2>2. p.flags \in Int /\ p.value \in {0, 1}
    BY <2>1, StateAttributes
  <2>3. FieldValue(p, name) = (p.flags % 128) + (128 * p.value)
    BY <1>1 DEF FieldValue, StateOctet
  <2>4. QED
    BY <2>2, <2>3, StateNumbers
<1>2. CASE name = "time"
  <2>1. "time" \in Attributes(g)
    BY <1>2 DEF Describes
  <2>2. p.time \in Int \cup {Nothing}
    BY <2>1 DEF GoodPoint
  <2>3. FieldValue(p, name) = Milliseconds(p.time)
    BY <1>2 DEF FieldValue
  <2>4. QED
    BY <2>2, <2>3, MillisecondsIs
<1>3. CASE name \notin {"state", "time"}
  <2>1. name \in Attributes(g) \ {"time"}
    BY <1>3 DEF Describes
  <2>2. p[name] \in Int
    BY <2>1 DEF GoodPoint, IsPoint
  <2>3. FieldValue(p, name) = p[name]
    BY <1>3 DEF FieldValue
  <2>4. QED
    BY <2>2, <2>3
<1>4. QED
  BY <1>1, <1>2, <1>3

ValuesOf(fs, p) == [j \in 1 .. Len(fs) |-> FieldValue(p, fs[j].name)]

LEMMA SerializePointIs ==
  ASSUME NEW h \in AnyHeader, h.group \in Written, NEW p, GoodPoint(h.group, p)
  PROVE  /\ SerializePoint(h, p) = WriteAll(ValuesOf(WriteFields(h), p), TypesOf(WriteFields(h)))
         /\ SerializePoint(h, p) \in Seq(Octet)
         /\ Len(SerializePoint(h, p)) = Size(TypesOf(WriteFields(h)))
         /\ \A j \in 1 .. Len(WriteFields(h)) : ValuesOf(WriteFields(h), p)[j] \in Int
<1>1. PICK fs, names : fs = WriteFields(h) /\ Named(fs, names) /\ Describes(h.group, h.var, names)
  BY WriteFieldsAre
<1>2. PICK types \in Seq(Types) : /\ types = TypesOf(fs) /\ Len(types) = Len(fs)
                                  /\ \A j \in 1 .. Len(fs) : fs[j].name \in names
  BY <1>1, TypesOfAre
<1>3. PICK values : values = ValuesOf(fs, p)
  OBVIOUS
<1>4. \A j \in 1 .. Len(fs) : values[j] \in Int
  <2>1. \A j \in 1 .. Len(fs) : values[j] = FieldValue(p, fs[j].name)
    BY <1>3 DEF ValuesOf
  <2>2. \A name \in names : FieldValue(p, name) \in Int
    BY <1>1, FieldValueIs
  <2>3. QED
    BY <1>2, <2>1, <2>2
<1>5. SerializePoint(h, p) = WriteAll(values, types)
  BY <1>1, <1>2, <1>3 DEF SerializePoint, ValuesOf, TypesOf
<1>6. WriteAll(values, types) \in Seq(Octet) /\ Len(WriteAll(values, types)) = Size(types)
  BY <1>2, <1>4, WriteAllSize
<1>7. QED
  BY <1>1, <1>2, <1>3, <1>4, <1>5, <1>6

\* The values read, by the names of their fields.
ByName(fs, values) ==
  [name \in {fs[j].name : j \in 1 .. Len(fs)} |->
     values[CHOOSE j \in 1 .. Len(fs) : fs[j].name = name]]

LEMMA ByNameIs ==
  ASSUME NEW fs, NEW names, Named(fs, names), NEW values
  PROVE  /\ DOMAIN ByName(fs, values) = names
         /\ \A j \in 1 .. Len(fs) : ByName(fs, values)[fs[j].name] = values[j]
         /\ \A name \in names : \E j \in 1 .. Len(fs) : name = fs[j].name
<1>1. names = {fs[j].name : j \in 1 .. Len(fs)}
  BY DEF Named
<1>2. ASSUME NEW j \in 1 .. Len(fs) PROVE ByName(fs, values)[fs[j].name] = values[j]
  <2>1. PICK k : k = CHOOSE m \in 1 .. Len(fs) : fs[m].name = fs[j].name
    OBVIOUS
  <2>2. k \in 1 .. Len(fs) /\ fs[k].name = fs[j].name
    BY <2>1
  <2>3. k = j
    BY <2>2 DEF Named
  <2>4. ByName(fs, values)[fs[j].name] = values[k]
    BY <2>1 DEF ByName
  <2>5. QED
    BY <2>3, <2>4
<1>3. DOMAIN ByName(fs, values) = names
  BY <1>1 DEF ByName
<1>4. QED
  BY <1>1, <1>2, <1>3

\* What a parser makes of the attributes of a point.
Parses(h, i, fs, values, names, read, index) ==
  /\ ParsedPoint(h, i, fs, values) = [a \in Attributes(h.group) |-> Attribute(a, index, read)]
  /\ Attribute("index", index, read) = index
  /\ \A a \in names \ {"index"} : Attribute(a, index, read) = read[a]
  /\ "value" \notin names /\ "state" \in names =>
       Attribute("value", index, read) = read.state \div 128
  /\ "flags" \notin names =>
       Attribute("flags", index, read) = IF "state" \in names THEN read.state % 128 ELSE 1
  /\ "time" \notin names => Attribute("time", index, read) = Nothing

LEMMA ParsedPointIs ==
  ASSUME NEW h, NEW i, NEW fs, NEW names, Named(fs, names), NEW values, NEW read,
         read = ByName(fs, values),
         NEW index, index = IF "index" \in names THEN read["index"] ELSE h.start + i - 1
  PROVE  Parses(h, i, fs, values, names, read, index)
<1>1. DOMAIN read = names
  BY ByNameIs
<1>2. ParsedPoint(h, i, fs, values) = [a \in Attributes(h.group) |-> Attribute(a, index, read)]
  BY <1>1 DEF ParsedPoint, ByName
<1>3. /\ Attribute("index", index, read) = index
      /\ \A a \in names \ {"index"} : Attribute(a, index, read) = read[a]
      /\ "value" \notin names /\ "state" \in names =>
           Attribute("value", index, read) = read.state \div 128
      /\ "flags" \notin names =>
           Attribute("flags", index, read) = IF "state" \in names THEN read.state % 128 ELSE 1
      /\ "time" \notin names => Attribute("time", index, read) = Nothing
  BY <1>1 DEF Attribute
<1>4. QED
  BY <1>2, <1>3 DEF Parses

\* The values p is written as can be read, and a parser makes p of them.
ComesBack(h, i, fs, p) ==
  /\ \A j \in 1 .. Len(fs) : Exact(FieldValue(p, fs[j].name), fs[j].type)
  /\ \A values : (\A j \in 1 .. Len(fs) : values[j] = FieldValue(p, fs[j].name)) =>
       ParsedPoint(h, i, fs, values) = p

LEMMA ParsedPointBack ==
  ASSUME NEW h \in AnyHeader, h.group \in Written, Known(h.group, h.var),
         ~Packed(h.group, h.var), NEW p, GoodPoint(h.group, p), NEW i, PointFits(h, i, p),
         NEW fs, fs = WriteFields(h)
  PROVE  ComesBack(h, i, fs, p)
<1>1. PICK names : Named(fs, names) /\ Describes(h.group, h.var, names)
  BY WriteFieldsAre
<1>2. PICK g \in Written : g = h.group
  OBVIOUS
<1>3. names = {fs[j].name : j \in 1 .. Len(fs)}
  BY <1>1 DEF Named
<1>4. /\ "index" \in Attributes(g) \ names => p.index = h.start + i - 1
      /\ "flags" \in Attributes(g) \ names =>
           IF "state" \in names THEN p.flags \in 0 .. 127 ELSE p.flags = 1
      /\ "time" \in Attributes(g) \ names => p.time = Nothing
      /\ "time" \in names => /\ p.time # Nothing /\ Zone = 0 /\ p.time \notin Truncated
                             /\ ~Late(Octets(p.time, Width.time))
      /\ \A j \in 1 .. Len(fs) : InWidth(FieldValue(p, fs[j].name), fs[j].type)
  BY <1>2, <1>3 DEF PointFits
<1>5. \A j \in 1 .. Len(fs) :
        /\ fs[j].name \in names /\ FieldValue(p, fs[j].name) \in Int
        /\ fs[j].type = "time" <=> fs[j].name = "time"
  <2>1. \A j \in 1 .. Len(fs) : fs[j].name \in names /\ (fs[j].type = "time" <=> fs[j].name = "time")
    BY <1>1, TypesOfAre
  <2>2. \A name \in names : FieldValue(p, name) \in Int
    BY <1>1, FieldValueIs
  <2>3. QED
    BY <2>1, <2>2
<1>6. "time" \in names => FieldValue(p, "time") = p.time
  <2>1. ASSUME "time" \in names PROVE FieldValue(p, "time") = p.time
    <3>1. "time" \in Attributes(g)
      BY <1>1, <1>2, <2>1 DEF Describes
    <3>2. p.time \in Int
      BY <1>2, <1>4, <2>1, <3>1 DEF GoodPoint
    <3>3. Milliseconds(p.time) = p.time
      BY <1>4, <2>1, <3>2, MillisecondsIs
    <3>4. QED
      BY <3>3 DEF FieldValue
  <2>2. QED
    BY <2>1
<1>7. ASSUME NEW j \in 1 .. Len(fs) PROVE Exact(FieldValue(p, fs[j].name), fs[j].type)
  <2>1. FieldValue(p, fs[j].name) \in Int /\ InWidth(FieldValue(p, fs[j].name), fs[j].type)
    BY <1>4, <1>5
  <2>2. fs[j].type = "time" => ~Late(Octets(FieldValue(p, fs[j].name), Width.time))
    BY <1>4, <1>5, <1>6
  <2>3. QED
    BY <2>1, <2>2 DEF Exact
<1>8. ASSUME NEW values, \A j \in 1 .. Len(fs) : values[j] = FieldValue(p, fs[j].name)
      PROVE  ParsedPoint(h, i, fs, values) = p
  <2>1. PICK read : read = ByName(fs, values)
    OBVIOUS
  <2>2. \A name \in names : read[name] = FieldValue(p, name)
    BY <1>1, <1>8, <2>1, ByNameIs
  <2>3. PICK index : index = IF "index" \in names THEN read["index"] ELSE h.start + i - 1
    OBVIOUS
  <2>4. /\ ParsedPoint(h, i, fs, values) = [a \in Attributes(g) |-> Attribute(a, index, read)]
        /\ Attribute("index", index, read) = index
        /\ \A a \in names \ {"index"} : Attribute(a, index, read) = read[a]
        /\ "value" \notin names /\ "state" \in names =>
             Attribute("value", index, read) = read.state \div 128
        /\ "flags" \notin names =>
             Attribute("flags", index, read) = IF "state" \in names THEN read.state % 128 ELSE 1
        /\ "time" \notin names => Attribute("time", index, read) = Nothing
    <3>1. Parses(h, i, fs, values, names, read, index)
      BY <1>1, <2>1, <2>3, ParsedPointIs
    <3>2. QED
      BY <1>2, <3>1 DEF Parses
  <2>5. "state" \in names =>
          /\ p.flags \in Int /\ p.value \in {0, 1}
          /\ read.state = (p.flags % 128) + (128 * p.value)
    <3>1. ASSUME "state" \in names PROVE p.flags \in Int /\ p.value \in {0, 1}
      <4>1. g \in {1, 2, 10}
        BY <1>1, <1>2, <3>1 DEF Describes
      <4>2. QED
        BY <1>2, <4>1, StateAttributes
    <3>2. "state" \in names => read["state"] = StateOctet(p)
      BY <2>2 DEF FieldValue
    <3>3. QED
      BY <3>1, <3>2 DEF StateOctet
  <2>6. ASSUME NEW a \in Attributes(g) PROVE Attribute(a, index, read) = p[a]
    <3>1. CASE a \in names
      <4>1. FieldValue(p, a) = p[a]
        <5>1. a # "state"
          BY NoState
        <5>2. CASE a = "time"
          BY <1>6, <3>1, <5>2
        <5>3. CASE a # "time"
          BY <5>1, <5>3 DEF FieldValue
        <5>4. QED
          BY <5>2, <5>3
      <4>2. CASE a = "index"
        BY <2>2, <2>3, <2>4, <3>1, <4>1, <4>2
      <4>3. CASE a # "index"
        BY <2>2, <2>4, <3>1, <4>1, <4>3
      <4>4. QED
        BY <4>2, <4>3
    <3>2. CASE a \notin names /\ a = "index"
      BY <1>4, <2>3, <2>4, <3>2
    <3>3. CASE a \notin names /\ a = "flags"
      <4>1. Attribute(a, index, read) = IF "state" \in names THEN read.state % 128 ELSE 1
        BY <2>4, <3>3
      <4>2. CASE "state" \in names
        <5>1. p.flags \in 0 .. 127
          BY <1>4, <3>3, <4>2
        <5>2. read.state % 128 = p.flags
          BY <2>5, <4>2, <5>1, StateNumbers
        <5>3. QED
          BY <3>3, <4>1, <4>2, <5>2
      <4>3. CASE "state" \notin names
        BY <1>4, <3>3, <4>1, <4>3
      <4>4. QED
        BY <4>2, <4>3
    <3>4. CASE a \notin names /\ a = "time"
      BY <1>4, <2>4, <3>4
    <3>5. CASE a \notin names /\ a \notin {"index", "flags", "time"}
      <4>1. a = "value" /\ "state" \in names
        BY <1>1, <1>2, <3>5 DEF Describes
      <4>2. read.state \div 128 = p.value
        BY <2>5, <4>1, StateNumbers
      <4>3. QED
        BY <2>4, <3>5, <4>1, <4>2
    <3>6. QED
      BY <3>1, <3>2, <3>3, <3>4, <3>5
  <2>7. p = [a \in Attributes(g) |-> p[a]]
    BY <1>2 DEF GoodPoint
  <2>8. QED
    BY <2>4, <2>6, <2>7
<1>9. QED
  BY <1>7, <1>8 DEF ComesBack

LEMMA ConcatParts ==
  ASSUME NEW s \in Seq(Octet), NEW t \in Seq(Octet), NEW a \in Seq(Octet), NEW b \in Seq(Octet),
         Len(s) = Len(t), s \o a = t \o b
  PROVE  s = t /\ a = b
<1>1. /\ Len(s) \in Nat /\ Len(a) \in Nat /\ Len(b) \in Nat
      /\ Len(s \o a) = Len(s) + Len(a) /\ Len(t \o b) = Len(t) + Len(b)
  BY ConcatOctets
<1>2. /\ \A i \in 1 .. Len(s) + Len(a) : (s \o a)[i] = IF i <= Len(s) THEN s[i] ELSE a[i - Len(s)]
      /\ \A i \in 1 .. Len(t) + Len(b) : (t \o b)[i] = IF i <= Len(t) THEN t[i] ELSE b[i - Len(t)]
  BY ConcatProperties
<1>3. Len(a) = Len(b)
  BY <1>1
<1>4. \A i \in 1 .. Len(s) : s[i] = t[i]
  BY <1>1, <1>2
<1>5. ASSUME NEW i \in 1 .. Len(a) PROVE a[i] = b[i]
  <2>1. PICK k \in Nat : k = Len(s) + i
    BY <1>1
  <2>2. k \in 1 .. Len(s) + Len(a) /\ ~(k <= Len(s)) /\ k - Len(s) = i
    BY <1>1, <2>1
  <2>3. (s \o a)[k] = a[i] /\ (t \o b)[k] = b[i]
    BY <1>2, <1>3, <2>2
  <2>4. QED
    BY <2>3
<1>6. QED
  BY <1>3, <1>4, <1>5, SeqEqual

\* Numbers written as the same octets have the same octets each.
LEMMA WriteAllInjective ==
  ASSUME NEW types \in Seq(Types), NEW u, NEW v,
         \A i \in 1 .. Len(types) : u[i] \in Int /\ v[i] \in Int,
         WriteAll(u, types) = WriteAll(v, types)
  PROVE  \A i \in 1 .. Len(types) : Octets(u[i], Width[types[i]]) = Octets(v[i], Width[types[i]])
<1> DEFINE Same(ts) == \A i \in 1 .. Len(ts) : Octets(u[i], Width[ts[i]]) = Octets(v[i], Width[ts[i]])
           Good(ts) == /\ \A i \in 1 .. Len(ts) : u[i] \in Int /\ v[i] \in Int
                       /\ WriteAll(u, ts) = WriteAll(v, ts)
           P == {ts \in Seq(Types) : Good(ts) => Same(ts)}
<1>1. <<>> \in P
  BY EmptySeq
<1>2. ASSUME NEW ts \in Seq(Types), NEW type \in Types, ts \in P
      PROVE  Append(ts, type) \in P
  <2>1. PICK n \in Nat : n = Len(ts)
    BY LenProperties
  <2>2. PICK more \in Seq(Types) :
          /\ more = Append(ts, type) /\ Len(more) = n + 1 /\ more[n + 1] = type
          /\ \A i \in 1 .. n : more[i] = ts[i]
    <3>1. /\ Append(ts, type) \in Seq(Types) /\ Len(Append(ts, type)) = n + 1
          /\ Append(ts, type)[n + 1] = type
          /\ \A i \in 1 .. n : Append(ts, type)[i] = ts[i]
      BY <2>1, AppendProperties
    <3>2. QED
      BY <3>1
  <2>3. ASSUME Good(more) PROVE Same(more)
    <3>1. \A i \in 1 .. n + 1 : u[i] \in Int /\ v[i] \in Int
      BY <2>2, <2>3
    <3>2. \A i \in 1 .. n : u[i] \in Int /\ v[i] \in Int
      BY <3>1
    <3>3. PICK a, b : a = Octets(u[n + 1], Width[type]) /\ b = Octets(v[n + 1], Width[type])
      OBVIOUS
    <3>4. WriteAll(u, more) = WriteAll(u, ts) \o a /\ WriteAll(v, more) = WriteAll(v, ts) \o b
      BY <2>1, <2>2, <3>1, <3>3, WriteAllAppend
    <3>5. PICK s \in Seq(Octet), t \in Seq(Octet) :
            s = WriteAll(u, ts) /\ t = WriteAll(v, ts) /\ Len(s) = Len(t)
      BY <2>1, <3>2, WriteAllSize
    <3>6. a \in Seq(Octet) /\ b \in Seq(Octet)
      <4>1. n + 1 \in 1 .. n + 1
        OBVIOUS
      <4>2. u[n + 1] \in Int /\ v[n + 1] \in Int
        BY <3>1, <4>1
      <4>3. PICK w \in Nat : w = Width[type]
        <5>1. Width[type] \in {1, 2, 4, 6, 8}
          BY WidthIs
        <5>2. QED
          BY <5>1
      <4>4. QED
        BY <3>3, <4>2, <4>3, OctetsType
    <3>7. s = t /\ a = b
      <4>1. s \o a = t \o b
        BY <2>3, <3>4, <3>5
      <4>2. QED
        BY ZenonT(40), <3>5, <3>6, <4>1, ConcatParts
    <3>8. Same(ts)
      BY <1>2, <2>1, <3>2, <3>5, <3>7
    <3>9. ASSUME NEW i \in 1 .. n + 1
          PROVE  Octets(u[i], Width[more[i]]) = Octets(v[i], Width[more[i]])
      <4>1. CASE i = n + 1
        BY <2>2, <3>3, <3>7, <4>1
      <4>2. CASE i \in 1 .. n
        BY <2>1, <2>2, <3>8, <4>2
      <4>3. QED
        BY <4>1, <4>2
    <3>10. QED
      BY <2>2, <3>9
  <2>4. QED
    BY <2>2, <2>3
<1> HIDE DEF P
<1>3. types \in P
  BY <1>1, <1>2, SequenceInduction
<1>4. QED
  BY <1>3 DEF P

\* A point that was read back from the octets it was written as fits.
LEMMA ParsedPointFits ==
  ASSUME NEW h \in AnyHeader, h.group \in Written, Known(h.group, h.var),
         ~Packed(h.group, h.var), NEW p, GoodPoint(h.group, p), NEW i,
         NEW fs, fs = WriteFields(h), NEW values,
         \A j \in 1 .. Len(fs) : Exact(values[j], fs[j].type),
         ParsedPoint(h, i, fs, values) = p,
         WriteAll(ValuesOf(fs, p), TypesOf(fs)) = WriteAll(values, TypesOf(fs))
  PROVE  PointFits(h, i, p)
<1>1. PICK names : Named(fs, names) /\ Describes(h.group, h.var, names)
  BY WriteFieldsAre
<1>2. PICK g \in Written : g = h.group
  OBVIOUS
<1>3. names = {fs[j].name : j \in 1 .. Len(fs)}
  BY <1>1 DEF Named
<1>4. \A j \in 1 .. Len(fs) :
        /\ fs[j].name \in names /\ fs[j].type \in Types
        /\ fs[j].type = "time" <=> fs[j].name = "time"
  BY <1>1, TypesOfAre
<1>5. PICK read, index :
        /\ read = ByName(fs, values)
        /\ index = IF "index" \in names THEN read["index"] ELSE h.start + i - 1
  OBVIOUS
<1>6. Parses(h, i, fs, values, names, read, index)
  BY <1>1, <1>5, ParsedPointIs
<1>7. /\ \A j \in 1 .. Len(fs) : read[fs[j].name] = values[j]
      /\ \A name \in names : \E j \in 1 .. Len(fs) : name = fs[j].name
  BY <1>1, <1>5, ByNameIs
<1>8. \A j \in 1 .. Len(fs) :
        /\ values[j] \in Int /\ InWidth(values[j], fs[j].type)
        /\ fs[j].type = "time" => ~Late(Octets(values[j], Width.time))
  BY DEF Exact
<1>9. \A a \in Attributes(g) : p[a] = Attribute(a, index, read)
  BY <1>2, <1>6 DEF Parses
<1>10. \A a \in names \ {"state"} : a \in Attributes(g) /\ p[a] = read[a]
  <2>1. ASSUME NEW a \in names \ {"state"} PROVE a \in Attributes(g) /\ p[a] = read[a]
    <3>1. a \in Attributes(g)
      BY <1>1, <1>2 DEF Describes
    <3>2. CASE a = "index"
      BY <1>5, <1>6, <1>9, <3>1, <3>2 DEF Parses
    <3>3. CASE a # "index"
      BY <1>6, <1>9, <3>1, <3>3 DEF Parses
    <3>4. QED
      BY <3>1, <3>2, <3>3
  <2>2. QED
    BY <2>1
<1>11. "index" \in Attributes(h.group) \ names => p.index = h.start + i - 1
  BY <1>2, <1>5, <1>6, <1>9 DEF Parses
<1>12. "flags" \in Attributes(h.group) \ names =>
         p.flags = IF "state" \in names THEN read.state % 128 ELSE 1
  BY <1>2, <1>6, <1>9 DEF Parses
<1>13. "state" \in names =>
         /\ read.state \in Int /\ read.state % 128 \in 0 .. 127
         /\ FieldValue(p, "state") = read.state
  <2>1. ASSUME "state" \in names
        PROVE  /\ read.state \in Int /\ read.state % 128 \in 0 .. 127
               /\ FieldValue(p, "state") = read.state
    <3>1. read["state"] \in Int
      BY <1>7, <1>8, <2>1
    <3>2. g \in {1, 2, 10} /\ "value" \notin names /\ "flags" \notin names
      BY <1>1, <1>2, <2>1 DEF Describes
    <3>3. "flags" \in Attributes(g) /\ "value" \in Attributes(g)
      BY <3>2, StateAttributes
    <3>4. p.flags = read.state % 128
      BY <1>2, <1>12, <2>1, <3>2, <3>3
    <3>5. p.value = read.state \div 128
      BY <1>6, <1>9, <2>1, <3>2, <3>3 DEF Parses
    <3>6. FieldValue(p, "state") = (p.flags % 128) + (128 * p.value)
      BY DEF FieldValue, StateOctet
    <3>7. PICK s \in Int : s = read.state
      BY <3>1
    <3>8. FieldValue(p, "state") = ((s % 128) % 128) + (128 * (s \div 128))
      BY <3>4, <3>5, <3>6, <3>7
    <3>9. s % 128 \in 0 .. 127 /\ ((s % 128) % 128) + (128 * (s \div 128)) = s
      BY StateParts
    <3>10. QED
      BY <3>7, <3>8, <3>9
  <2>2. QED
    BY <2>1
<1>14. "time" \in Attributes(h.group) \ names => p.time = Nothing
  BY <1>2, <1>6, <1>9 DEF Parses
<1>15. "time" \in names => /\ p.time # Nothing /\ Zone = 0 /\ p.time \notin Truncated
                           /\ ~Late(Octets(p.time, Width.time))
                           /\ FieldValue(p, "time") = read["time"]
  <2>1. ASSUME "time" \in names
        PROVE  /\ p.time # Nothing /\ Zone = 0 /\ p.time \notin Truncated
               /\ ~Late(Octets(p.time, Width.time))
               /\ FieldValue(p, "time") = read["time"]
    <3>1. PICK j \in 1 .. Len(fs) : fs[j].name = "time"
      BY <1>7, <2>1
    <3>2. PICK t \in Int : t = values[j] /\ ~Late(Octets(t, Width.time))
      BY <1>4, <1>8, <3>1
    <3>3. p.time = t /\ read["time"] = t
      BY <1>7, <1>10, <2>1, <3>1, <3>2
    <3>4. FieldValue(p, "time") = Milliseconds(t)
      BY <3>3 DEF FieldValue
    <3>5. PICK u \in Int : u = Milliseconds(t) /\ Near(t, u)
      BY MillisecondsIs
    <3>6. Octets(u, 6) = Octets(t, 6)
      <4>1. PICK types \in Seq(Types) : /\ types = TypesOf(fs) /\ Len(types) = Len(fs)
                                        /\ types[j] = "time"
        BY <1>1, <1>4, <3>1, TypesOfAre
      <4>2. PICK w : w = ValuesOf(fs, p)
        OBVIOUS
      <4>3. \A k \in 1 .. Len(types) : w[k] \in Int /\ values[k] \in Int
        <5>1. \A name \in names : FieldValue(p, name) \in Int
          BY <1>1, FieldValueIs
        <5>2. \A k \in 1 .. Len(fs) : w[k] = FieldValue(p, fs[k].name)
          BY <4>2 DEF ValuesOf
        <5>3. QED
          BY <1>4, <1>8, <4>1, <5>1, <5>2
      <4>4. WriteAll(w, types) = WriteAll(values, types)
        BY <4>1, <4>2
      <4>5. \A k \in 1 .. Len(types) :
              Octets(w[k], Width[types[k]]) = Octets(values[k], Width[types[k]])
        BY <4>3, <4>4, WriteAllInjective
      <4>6. w[j] = u
        BY <3>1, <3>4, <3>5, <4>2 DEF ValuesOf
      <4>7. Width["time"] = 6
        BY WidthIs
      <4>8. QED
        BY <3>2, <4>1, <4>5, <4>6, <4>7
    <3>7. u = t
      BY <3>5, <3>6, OctetsDetermine
    <3>8. t # Nothing /\ Zone = 0 /\ t \notin Truncated
      BY <3>5, <3>7, MillisecondsIs
    <3>9. QED
      BY <3>2, <3>3, <3>4, <3>5, <3>7, <3>8
  <2>2. QED
    BY <2>1
<1>16. \A j \in 1 .. Len(fs) : FieldValue(p, fs[j].name) = values[j]
  <2>1. ASSUME NEW j \in 1 .. Len(fs) PROVE FieldValue(p, fs[j].name) = values[j]
    <3>1. PICK name \in names : name = fs[j].name /\ read[name] = values[j]
      BY <1>4, <1>7
    <3>2. CASE name \in {"state", "time"}
      BY <1>13, <1>15, <3>1, <3>2
    <3>3. CASE name \notin {"state", "time"}
      BY <1>10, <3>1, <3>3 DEF FieldValue
    <3>4. QED
      BY <3>2, <3>3
  <2>2. QED
    BY <2>1
<1>17. \A j \in 1 .. Len(fs) : InWidth(FieldValue(p, fs[j].name), fs[j].type)
  BY <1>8, <1>16
<1>18. "flags" \in Attributes(h.group) \ names =>
         IF "state" \in names THEN p.flags \in 0 .. 127 ELSE p.flags = 1
  BY <1>12, <1>13
<1>19. QED
  BY <1>3, <1>11, <1>14, <1>15, <1>17, <1>18 DEF PointFits

-----------------------------------------------------------------------------
(* Points with fields, one after another *)

\* r[i] is what has been read after i points.
Rounds(r, offset, types, n) ==
  /\ r \in [0 .. n -> Within]
  /\ r[0] = [at |-> offset, values |-> <<>>, fault |-> "none"]
  /\ \A i \in 1 .. n : r[i] = ReadNext(r[i - 1], types)

LEMMA ReadNextWithin ==
  ASSUME data \in Seq(Octet), NEW types \in Seq(Types), NEW x \in Within
  PROVE  /\ ReadNext(x, types) \in Within
         /\ IF x.fault = "none" THEN ReadsWell(ReadNext(x, types), x.at, types)
            ELSE ReadNext(x, types) = x
<1>1. CASE x.fault # "none"
  BY <1>1 DEF ReadNext
<1>2. CASE x.fault = "none"
  <2>1. x.at \in 0 .. Len(data)
    BY LenProperties DEF Within, Reading
  <2>2. ReadsWell(ReadAll(x.at, types), x.at, types)
    BY <2>1, ReadAllIs
  <2>3. ReadNext(x, types) = ReadAll(x.at, types)
    BY <1>2 DEF ReadNext
  <2>4. QED
    BY <1>2, <2>2, <2>3 DEF ReadsWell
<1>3. QED
  BY <1>1, <1>2

LEMMA StartWithin ==
  ASSUME data \in Seq(Octet), NEW offset \in 0 .. Len(data)
  PROVE  [at |-> offset, values |-> <<>>, fault |-> "none"] \in Within
<1>1. <<>> \in Seq(Int) /\ Len(data) \in Nat
  BY EmptySeq, LenProperties
<1>2. QED
  BY <1>1 DEF Within, Reading

LEMMA RoundsExist ==
  ASSUME data \in Seq(Octet), NEW offset \in 0 .. Len(data), NEW types \in Seq(Types), NEW n \in Nat
  PROVE  \E r : Rounds(r, offset, types, n)
<1> DEFINE base == [at |-> offset, values |-> <<>>, fault |-> "none"]
           step == [i \in Nat |-> [x \in Within |-> ReadNext(x, types)]]
<1>1. base \in Within
  BY StartWithin
<1>2. \A x \in Within : ReadNext(x, types) \in Within
  BY ReadNextWithin
<1> HIDE DEF base
<1>3. step \in [Nat -> [Within -> Within]]
  BY <1>2
<1>4. \A i \in Nat, x \in Within : step[i][x] = ReadNext(x, types)
  OBVIOUS
<1> HIDE DEF step
<1>5. PICK r \in [0 .. n -> Within] : Steps(r, base, step, n)
  BY <1>1, <1>3, RecursionExists
<1>6. r[0] = base /\ \A i \in 1 .. n : r[i] = step[i][r[i - 1]]
  BY <1>5 DEF Steps
<1>7. ASSUME NEW i \in 1 .. n PROVE r[i] = ReadNext(r[i - 1], types)
  <2>1. i \in Nat /\ i - 1 \in 0 .. n
    OBVIOUS
  <2>2. r[i - 1] \in Within
    BY <1>5, <2>1
  <2>3. QED
    BY <1>4, <1>6, <2>1, <2>2
<1>8. QED
  BY <1>5, <1>6, <1>7 DEF Rounds, base

\* The same as one equation.
Rereads(r, offset, types, n) ==
  r = [i \in 0 .. n |-> IF i = 0 THEN [at |-> offset, values |-> <<>>, fault |-> "none"]
                        ELSE ReadNext(r[i - 1], types)]

LEMMA RoundsSame ==
  ASSUME NEW offset, NEW types, NEW n \in Nat, NEW q, Rounds(q, offset, types, n), NEW r,
         Rereads(r, offset, types, n)
  PROVE  r = q
<1> DEFINE base == [at |-> offset, values |-> <<>>, fault |-> "none"]
<1>1. \A i \in 0 .. n : r[i] = IF i = 0 THEN base ELSE ReadNext(r[i - 1], types)
  BY DEF Rereads
<1>2. q[0] = base /\ \A i \in 1 .. n : q[i] = ReadNext(q[i - 1], types)
  BY DEF Rounds
<1>3. DOMAIN r = 0 .. n /\ r = [i \in 0 .. n |-> r[i]]
  BY DEF Rereads
<1> HIDE DEF base
<1> DEFINE P == {i \in 0 .. n : r[i] = q[i]}
<1>4. 0 \in P
  <2>1. 0 \in 0 .. n
    OBVIOUS
  <2>2. r[0] = base
    BY <1>1, <2>1
  <2>3. QED
    BY <1>2, <2>1, <2>2
<1>5. ASSUME NEW i \in 1 .. n, i - 1 \in P PROVE i \in P
  <2>1. i \in 0 .. n /\ i # 0
    OBVIOUS
  <2>2. r[i - 1] = q[i - 1]
    BY <1>5
  <2>3. r[i] = ReadNext(r[i - 1], types)
    BY <1>1, <2>1
  <2>4. QED
    BY <1>2, <2>1, <2>2, <2>3
<1> HIDE DEF P
<1>6. \A i \in 0 .. n : i \in P
  BY <1>4, <1>5, InductionUpTo
<1>7. \A i \in 0 .. n : r[i] = q[i]
  BY <1>6 DEF P
<1>8. q = [i \in 0 .. n |-> q[i]]
  BY DEF Rounds
<1>9. QED
  BY <1>3, <1>7, <1>8

LEMMA PointCountIs ==
  ASSUME NEW h, h.count \in Int
  PROVE  PointCount(h) \in Nat /\ PointCount(h) = (IF h.count >= 0 THEN h.count ELSE 0)
<1>1. \E x \in {h.count, 0} : \A y \in {h.count, 0} : x >= y
  OBVIOUS
<1>2. PointCount(h) \in {h.count, 0} /\ \A y \in {h.count, 0} : PointCount(h) >= y
  BY <1>1 DEF PointCount, Max
<1>3. QED
  BY <1>2

\* What a parser makes of points with fields.
FieldsRead(x, h, fs, n, r) ==
  x = [fault |-> r[n].fault, at |-> r[n].at,
       points |-> IF r[n].fault = "none" /\ Known(h.group, h.var)
                  THEN [i \in 1 .. n |-> ParsedPoint(h, i, fs, r[i].values)]
                  ELSE <<>>]

LEMMA ParseFieldsIs ==
  ASSUME data \in Seq(Octet), NEW offset \in 0 .. Len(data), NEW h, h.count \in Int,
         NEW fs, fs = Prefix(h) \o Fields(h.group, h.var, TRUE), TypesOf(fs) \in Seq(Types)
  PROVE  \E n \in Nat : \E r :
           /\ n = PointCount(h) /\ Rounds(r, offset, TypesOf(fs), n)
           /\ FieldsRead(ParseFields(h, offset), h, fs, n, r)
<1>1. PICK n \in Nat : n = PointCount(h)
  BY PointCountIs
<1>2. PICK types \in Seq(Types) : types = TypesOf(fs)
  OBVIOUS
<1>3. PICK q : Rounds(q, offset, types, n)
  BY RoundsExist
<1> DEFINE r == CHOOSE r : Rereads(r, offset, types, n)
<1>4. Rereads(q, offset, types, n)
  <2>1. \A i \in 0 .. n : q[i] = IF i = 0 THEN [at |-> offset, values |-> <<>>, fault |-> "none"]
                                 ELSE ReadNext(q[i - 1], types)
    BY <1>3 DEF Rounds
  <2>2. q = [i \in 0 .. n |-> q[i]]
    BY <1>3 DEF Rounds
  <2>3. QED
    BY <2>1, <2>2 DEF Rereads
<1>5. ParseFields(h, offset)
        = [fault |-> r[n].fault, at |-> r[n].at,
           points |-> IF r[n].fault = "none" /\ Known(h.group, h.var)
                      THEN [i \in 1 .. n |-> ParsedPoint(h, i, fs, r[i].values)]
                      ELSE <<>>]
  BY <1>1, <1>2 DEF ParseFields, TypesOf, Rereads
<1>6. Rereads(r, offset, types, n)
  BY <1>4
<1> HIDE DEF r
<1>7. r = q
  BY <1>3, <1>6, RoundsSame
<1>8. QED
  BY <1>1, <1>2, <1>3, <1>5, <1>7 DEF FieldsRead

\* A fault ends the reading.
ReadsOn(r, types, n) ==
  \A i \in 1 .. n : r[i].fault = "none" =>
    r[i - 1].fault = "none" /\ ReadsWell(r[i], r[i - 1].at, types)

Unbroken(r, n) == \A i \in 0 .. n : r[i].fault = "none"

LEMMA RoundsFault ==
  ASSUME data \in Seq(Octet), NEW offset, NEW types \in Seq(Types), NEW n \in Nat,
         NEW r, Rounds(r, offset, types, n)
  PROVE  ReadsOn(r, types, n) /\ (r[n].fault = "none" => Unbroken(r, n))
<1>1. ASSUME NEW i \in 1 .. n, r[i].fault = "none"
      PROVE  r[i - 1].fault = "none" /\ ReadsWell(r[i], r[i - 1].at, types)
  <2>1. i - 1 \in 0 .. n
    OBVIOUS
  <2>2. PICK x \in Within : x = r[i - 1]
    BY <2>1 DEF Rounds
  <2>3. r[i] = ReadNext(x, types)
    BY <2>2 DEF Rounds
  <2>4. QED
    BY <1>1, <2>2, <2>3, ReadNextWithin
<1>2. ASSUME r[n].fault = "none" PROVE \A i \in 0 .. n : r[i].fault = "none"
  <2> DEFINE P == {k \in 0 .. n : r[n - k].fault = "none"}
  <2>1. 0 \in P
    BY <1>2
  <2>2. ASSUME NEW k \in 1 .. n, k - 1 \in P PROVE k \in P
    <3>1. PICK i \in 1 .. n : i = n - (k - 1) /\ i - 1 = n - k
      OBVIOUS
    <3>2. r[i].fault = "none"
      BY <2>2, <3>1
    <3>3. r[i - 1].fault = "none"
      BY <1>1, <3>2
    <3>4. QED
      BY <3>1, <3>3
  <2> HIDE DEF P
  <2>3. \A k \in 0 .. n : k \in P
    BY <2>1, <2>2, InductionUpTo
  <2>4. ASSUME NEW i \in 0 .. n PROVE r[i].fault = "none"
    <3>1. n - i \in P
      BY <2>3
    <3>2. n - (n - i) = i
      OBVIOUS
    <3>3. QED
      BY <3>1, <3>2 DEF P
  <2>5. QED
    BY <2>4
<1>3. QED
  BY <1>1, <1>2 DEF ReadsOn, Unbroken

\* n sequences of w octets each.
Sized(ss, n, w) == \A i \in 1 .. n : ss[i] \in Seq(Octet) /\ Len(ss[i]) = w

\* Points of the same size end where those written end.
At(r, offset, f, n) == \A i \in 0 .. n : r[i].fault = "none" => r[i].at = offset + Len(f[i])

LEMMA RoundsAt ==
  ASSUME data \in Seq(Octet), NEW offset \in Nat, NEW types \in Seq(Types), NEW n \in Nat,
         NEW r, Rounds(r, offset, types, n), NEW ss, NEW f, Concats(f, ss, n, Octet),
         Sized(ss, n, Size(types))
  PROVE  At(r, offset, f, n)
<1> DEFINE P == {i \in 0 .. n : r[i].fault = "none" => r[i].at = offset + Len(f[i])}
<1>1. 0 \in P
  <2>1. f[0] = <<>> /\ r[0].at = offset
    BY DEF Concats, Rounds
  <2>2. Len(f[0]) = 0
    BY <2>1, EmptySeq
  <2>3. r[0].at = offset + Len(f[0]) /\ 0 \in 0 .. n
    BY <2>1, <2>2
  <2>4. QED
    BY <2>3
<1>2. ASSUME NEW i \in 1 .. n, i - 1 \in P PROVE i \in P
  <2>1. i - 1 \in 0 .. n /\ i \in 0 .. n
    OBVIOUS
  <2>2. ASSUME r[i].fault = "none" PROVE r[i].at = offset + Len(f[i])
    <3>1. r[i - 1].fault = "none" /\ ReadsWell(r[i], r[i - 1].at, types)
      BY <2>2, RoundsFault DEF ReadsOn
    <3>2. r[i - 1].at = offset + Len(f[i - 1])
      BY <1>2, <3>1
    <3>3. r[i].at = r[i - 1].at + Size(types)
      BY <2>2, <3>1 DEF ReadsWell
    <3>4. PICK s \in Seq(Octet), t \in Seq(Octet) :
            s = f[i - 1] /\ t = ss[i] /\ f[i] = s \o t /\ Len(t) = Size(types)
      BY <2>1 DEF Concats, Sized
    <3>5. Len(s \o t) = Len(s) + Len(t) /\ Len(s) \in Nat /\ Len(t) \in Nat
      BY ConcatOctets
    <3>6. Len(f[i]) = Len(s) + Len(t)
      BY <3>4, <3>5
    <3>7. QED
      BY <3>2, <3>3, <3>4, <3>5, <3>6
  <2>3. QED
    BY <2>1, <2>2
<1> HIDE DEF P
<1>3. \A i \in 0 .. n : i \in P
  BY <1>1, <1>2, InductionUpTo
<1>4. QED
  BY <1>3 DEF P, At

\* The octets of points with fields, point by point.
PointOctets(h, points) == [i \in 1 .. Len(points) |-> SerializePoint(h, points[i])]

LEMMA PointOctetsAre ==
  ASSUME NEW h \in AnyHeader, h.group \in Written, NEW n \in Nat, NEW points, Len(points) = n,
         \A i \in 1 .. n : GoodPoint(h.group, points[i])
  PROVE  /\ FlattenSeq(PointOctets(h, points)) \in Seq(Octet)
         /\ Sized(PointOctets(h, points), n, Size(TypesOf(WriteFields(h))))
         /\ \E f : /\ Concats(f, PointOctets(h, points), n, Octet)
                   /\ f[n] = FlattenSeq(PointOctets(h, points))
<1>1. PICK ss : ss = PointOctets(h, points)
  OBVIOUS
<1>2. \A i \in 1 .. n : /\ SerializePoint(h, points[i]) \in Seq(Octet)
                        /\ Len(SerializePoint(h, points[i])) = Size(TypesOf(WriteFields(h)))
  BY SerializePointIs
<1>3. ss \in [1 .. n -> Seq(Octet)]
      /\ \A i \in 1 .. n : ss[i] \in Seq(Octet) /\ Len(ss[i]) = Size(TypesOf(WriteFields(h)))
  BY <1>1, <1>2 DEF PointOctets
<1>4. ss \in Seq(Seq(Octet)) /\ Len(ss) = n
  BY <1>3, FunctionSeq
<1>5. PICK f : Concats(f, ss, n, Octet) /\ f[n] = FlattenSeq(ss)
  BY <1>4, FlattenSteps
<1>6. FlattenSeq(ss) \in Seq(Octet)
  BY <1>5 DEF Concats
<1>7. QED
  BY <1>1, <1>3, <1>5, <1>6 DEF Sized

GoodPoints(g, points) == \A i \in 1 .. Len(points) : GoodPoint(g, points[i])

FittingPoints(h, points) ==
  /\ Len(points) = PointCount(h)
  /\ \A i \in 1 .. Len(points) : PointFits(h, i, points[i])

\* x has read the points that are written as s, if all of it is there.
Recovers(x, offset, s, points) ==
  /\ offset + Len(s) <= Len(data) => x.fault = "none"
  /\ x.fault = "none" => x.points = points /\ x.at = offset + Len(s)

\* The points read end where they would if they had been written, and fit if
\* they were.
Suits(x, offset, s, h, points) ==
  /\ Len(points) = PointCount(h) /\ x.at = offset + Len(s)
  /\ Agrees(offset, s) => FittingPoints(h, points)

\* Where points that fit were written, those points are read.
LEMMA FieldsBack ==
  ASSUME data \in Seq(Octet), NEW offset \in 0 .. Len(data), NEW h \in AnyHeader,
         h.group \in Written, Known(h.group, h.var), ~Packed(h.group, h.var), NEW points,
         points = [i \in 1 .. Len(points) |-> points[i]], GoodPoints(h.group, points),
         FittingPoints(h, points),
         NEW s, s = FlattenSeq(PointOctets(h, points)), Agrees(offset, s),
         NEW x, x = ParseFields(h, offset)
  PROVE  Recovers(x, offset, s, points)
<1>1. PICK fs, names : /\ fs = WriteFields(h) /\ Named(fs, names)
                       /\ fs = Prefix(h) \o Fields(h.group, h.var, TRUE)
  BY WriteFieldsAre, SameFields
<1>2. PICK types \in Seq(Types) : types = TypesOf(fs) /\ Len(types) = Len(fs)
                                  /\ \A j \in 1 .. Len(fs) : types[j] = fs[j].type
  BY <1>1, TypesOfAre
<1>0. PICK n \in Nat :
        \E r : n = PointCount(h) /\ Rounds(r, offset, types, n) /\ FieldsRead(x, h, fs, n, r)
  <2>1. h.count \in Int
    BY DEF AnyHeader
  <2>2. QED
    BY <1>1, <1>2, <2>1, ParseFieldsIs
<1>3. PICK r :
        n = PointCount(h) /\ Rounds(r, offset, types, n) /\ FieldsRead(x, h, fs, n, r)
  BY <1>0
<1>4. PICK ss, f :
        /\ ss = PointOctets(h, points) /\ Concats(f, ss, n, Octet) /\ f[n] = s
        /\ Sized(ss, n, Size(types))
  <2>1. Len(points) = n /\ \A i \in 1 .. n : GoodPoint(h.group, points[i])
    BY <1>3 DEF GoodPoints, FittingPoints
  <2>2. QED
    BY <1>1, <1>2, <2>1, PointOctetsAre
<1>5. offset \in Nat /\ Len(data) \in Nat /\ s \in Seq(Octet) /\ Size(types) \in Nat
      /\ \A i \in 0 .. n : f[i] \in Seq(Octet) /\ Len(f[i]) \in Nat
  <2>1. \A i \in 0 .. n : f[i] \in Seq(Octet)
    BY <1>4 DEF Concats
  <2>2. \A t \in Seq(Octet) : Len(t) \in Nat
    BY LenProperties
  <2>3. Size(types) \in Nat
    BY SizeAtLeast
  <2>4. QED
    BY <1>4, <2>1, <2>2, <2>3
<1>6. At(r, offset, f, n)
  BY <1>3, <1>4, <1>5, RoundsAt
<1>7. ASSUME NEW i \in 1 .. n
      PROVE  /\ f[i] = f[i - 1] \o ss[i] /\ Len(f[i]) = Len(f[i - 1]) + Size(types)
             /\ Agrees(offset + Len(f[i - 1]), ss[i])
             /\ i - 1 \in 0 .. n /\ i \in 0 .. n
  <2>1. i - 1 \in 0 .. n /\ i \in 0 .. n
    OBVIOUS
  <2>2. PICK a \in Seq(Octet), b \in Seq(Octet), c \in Seq(Octet) :
          a = f[i - 1] /\ b = ss[i] /\ c = f[i]
    BY <1>4, <1>5, <2>1 DEF Sized
  <2>3. c = a \o b
    BY <1>4, <2>2 DEF Concats
  <2>4. Len(a \o b) = Len(a) + Len(b)
    BY ConcatOctets
  <2>5. Begins(c, s)
    <3>1. \A k \in 1 .. n : ss[k] \in Seq(Octet)
      BY <1>4 DEF Sized
    <3>2. \A k \in 0 .. n : Begins(f[k], f[n])
      BY <1>4, <3>1, ConcatsBegin
    <3>3. QED
      BY <1>4, <2>1, <2>2, <3>2
  <2>6. Agrees(offset, a \o b)
    BY <1>5, <2>3, <2>5, AgreesBegin
  <2>7. Agrees(offset + Len(a), b)
    BY <1>5, <2>6, AgreesConcat
  <2>8. QED
    BY <1>4, <2>1, <2>2, <2>3, <2>4, <2>7 DEF Sized
<1>8. ASSUME NEW i \in 1 .. n
      PROVE  /\ ComesBack(h, i, fs, points[i])
             /\ ss[i] = WriteAll(ValuesOf(fs, points[i]), types)
  <2>1. PICK p : p = points[i] /\ GoodPoint(h.group, p) /\ PointFits(h, i, p)
    BY <1>3 DEF GoodPoints, FittingPoints
  <2>2. SerializePoint(h, p) = WriteAll(ValuesOf(fs, p), types)
    BY <1>1, <1>2, <2>1, SerializePointIs
  <2>3. ss[i] = SerializePoint(h, p)
    BY <1>3, <1>4, <2>1 DEF PointOctets, FittingPoints
  <2>4. ComesBack(h, i, fs, p)
    BY <1>1, <2>1, ParsedPointBack
  <2>5. QED
    BY <2>1, <2>2, <2>3, <2>4
<1>9. ASSUME NEW i \in 1 .. n, r[i - 1].fault = "none"
      PROVE  Returns(r[i], offset + Len(f[i - 1]), types, ValuesOf(fs, points[i]))
  <2>1. PICK here \in 0 .. Len(data) : here = r[i - 1].at /\ here = offset + Len(f[i - 1])
    <3>1. i - 1 \in 0 .. n
      OBVIOUS
    <3>2. r[i - 1] \in Within
      BY <1>3, <3>1 DEF Rounds
    <3>3. r[i - 1].at \in 0 .. Len(data)
      BY <3>2, <1>5 DEF Within, Reading
    <3>4. QED
      BY <1>6, <1>9, <3>1, <3>3 DEF At
  <2>2. r[i] = ReadAll(here, types)
    <3>1. r[i] = ReadNext(r[i - 1], types)
      BY <1>3 DEF Rounds
    <3>2. QED
      BY <1>9, <2>1, <3>1 DEF ReadNext
  <2>3. PICK values : values = ValuesOf(fs, points[i])
    OBVIOUS
  <2>4. \A j \in 1 .. Len(types) : Exact(values[j], types[j])
    <3>1. \A j \in 1 .. Len(fs) : values[j] = FieldValue(points[i], fs[j].name)
      BY <2>3 DEF ValuesOf
    <3>2. QED
      BY <1>2, <1>8, <3>1 DEF ComesBack
  <2>5. Agrees(here, WriteAll(values, types))
    BY <1>7, <1>8, <2>1, <2>3
  <2>6. Returns(ReadAll(here, types), here, types, values)
    BY <2>4, <2>5, ReadAllBack
  <2>7. QED
    BY <2>1, <2>2, <2>3, <2>6
<1>10. ASSUME offset + Len(s) <= Len(data) PROVE r[n].fault = "none"
  <2> DEFINE P == {i \in 0 .. n : offset + Len(f[i]) <= Len(data) => r[i].fault = "none"}
  <2>1. 0 \in P
    BY <1>3 DEF Rounds
  <2>2. ASSUME NEW i \in 1 .. n, i - 1 \in P PROVE i \in P
    <3>1. ASSUME offset + Len(f[i]) <= Len(data) PROVE r[i].fault = "none"
      <4>1. offset + Len(f[i - 1]) <= Len(data)
            /\ offset + Len(f[i - 1]) + Size(types) <= Len(data)
        <5>1. PICK a \in Nat, b \in Nat, w \in Nat :
                a = Len(f[i - 1]) /\ b = Len(f[i]) /\ w = Size(types) /\ b = a + w
          BY <1>5, <1>7
        <5>2. offset + b <= Len(data)
          BY <3>1, <5>1
        <5>3. PICK d \in Nat, k \in Nat : d = Len(data) /\ k = offset
          BY <1>5
        <5>4. k + b <= d /\ b = a + w
          BY <5>1, <5>2, <5>3
        <5>5. k + a <= d /\ k + a + w <= d
          BY SMTT(30), <5>4
        <5>6. QED
          BY <5>1, <5>3, <5>5
      <4>2. r[i - 1].fault = "none"
        BY <2>2, <4>1
      <4>3. QED
        BY <1>9, <4>1, <4>2 DEF Returns
    <3>2. QED
      BY <1>7, <3>1
  <2> HIDE DEF P
  <2>3. \A i \in 0 .. n : i \in P
    BY <2>1, <2>2, InductionUpTo
  <2>4. n \in P
    BY <2>3
  <2>5. QED
    BY <1>4, <1>10, <2>4 DEF P
<1>11. ASSUME r[n].fault = "none" PROVE x.points = points /\ x.at = offset + Len(s)
  <2>1. \A i \in 1 .. n : r[i].fault = "none" /\ r[i - 1].fault = "none"
    <3>1. \A i \in 0 .. n : r[i].fault = "none"
      BY <1>3, <1>11, RoundsFault DEF Unbroken
    <3>2. QED
      BY SMTT(30), <3>1
  <2>2. ASSUME NEW i \in 1 .. n PROVE ParsedPoint(h, i, fs, r[i].values) = points[i]
    <3>1. \A j \in 1 .. Len(fs) : r[i].values[j] = ValuesOf(fs, points[i])[j]
      BY <1>2, <1>9, <2>1 DEF Returns
    <3>2. \A j \in 1 .. Len(fs) : r[i].values[j] = FieldValue(points[i], fs[j].name)
      BY <3>1 DEF ValuesOf
    <3>3. QED
      BY <1>8, <3>2 DEF ComesBack
  <2>3. x.points = [i \in 1 .. n |-> ParsedPoint(h, i, fs, r[i].values)]
    BY <1>3, <1>11 DEF FieldsRead
  <2>4. x.points = [i \in 1 .. n |-> points[i]]
    BY <2>2, <2>3
  <2>5. x.at = offset + Len(s)
    <3>1. x.at = r[n].at /\ n \in 0 .. n
      BY <1>3 DEF FieldsRead
    <3>2. QED
      BY <1>4, <1>6, <1>11, <3>1 DEF At
  <2>6. QED
    BY <1>3, <2>4, <2>5 DEF FittingPoints
<1>12. x.fault = r[n].fault
  BY <1>3 DEF FieldsRead
<1>13. QED
  BY <1>10, <1>11, <1>12 DEF Recovers

\* Points with fields that were read take as many octets as when they are
\* written, and fit if those are the octets read.
LEMMA FieldsFit ==
  ASSUME data \in Seq(Octet), NEW offset \in 0 .. Len(data), NEW h \in AnyHeader,
         h.group \in Written, Known(h.group, h.var), ~Packed(h.group, h.var), NEW points,
         GoodPoints(h.group, points), NEW s, s = FlattenSeq(PointOctets(h, points)),
         NEW x, x = ParseFields(h, offset), x.fault = "none", x.points = points
  PROVE  Suits(x, offset, s, h, points)
<1>1. PICK fs, names : /\ fs = WriteFields(h) /\ Named(fs, names)
                       /\ fs = Prefix(h) \o Fields(h.group, h.var, TRUE)
  BY WriteFieldsAre, SameFields
<1>2. PICK types \in Seq(Types) : types = TypesOf(fs) /\ Len(types) = Len(fs)
                                  /\ \A j \in 1 .. Len(fs) : types[j] = fs[j].type
  BY <1>1, TypesOfAre
<1>0. PICK n \in Nat :
        \E r : n = PointCount(h) /\ Rounds(r, offset, types, n) /\ FieldsRead(x, h, fs, n, r)
  <2>1. h.count \in Int
    BY DEF AnyHeader
  <2>2. QED
    BY <1>1, <1>2, <2>1, ParseFieldsIs
<1>3. PICK r :
        n = PointCount(h) /\ Rounds(r, offset, types, n) /\ FieldsRead(x, h, fs, n, r)
  BY <1>0
<1>4. /\ r[n].fault = "none" /\ x.at = r[n].at
      /\ points = [i \in 1 .. n |-> ParsedPoint(h, i, fs, r[i].values)]
  BY <1>3 DEF FieldsRead
<1>5. Len(points) = n
  <2>1. PICK A : A = {ParsedPoint(h, i, fs, r[i].values) : i \in 1 .. n}
    OBVIOUS
  <2>2. points \in [1 .. n -> A]
    BY <1>4, <2>1
  <2>3. QED
    BY <2>2, FunctionSeq
<1>6. PICK ss, f :
        /\ ss = PointOctets(h, points) /\ Concats(f, ss, n, Octet) /\ f[n] = s
        /\ Sized(ss, n, Size(types)) /\ s \in Seq(Octet)
  <2>1. \A i \in 1 .. n : GoodPoint(h.group, points[i])
    BY <1>5 DEF GoodPoints
  <2>2. /\ FlattenSeq(PointOctets(h, points)) \in Seq(Octet)
        /\ Sized(PointOctets(h, points), n, Size(TypesOf(WriteFields(h))))
    BY <1>5, <2>1, PointOctetsAre
  <2>3. PICK f : Concats(f, PointOctets(h, points), n, Octet)
                 /\ f[n] = FlattenSeq(PointOctets(h, points))
    BY <1>5, <2>1, PointOctetsAre
  <2>4. QED
    BY <1>1, <1>2, <2>2, <2>3
<1>7. offset \in Nat /\ Len(data) \in Nat
  BY LenProperties
<1>8. At(r, offset, f, n)
  BY <1>3, <1>6, <1>7, RoundsAt
<1>9. x.at = offset + Len(s)
  <2>1. n \in 0 .. n
    OBVIOUS
  <2>2. QED
    BY <1>4, <1>6, <1>8, <2>1 DEF At
<1>10. ASSUME Agrees(offset, s), NEW i \in 1 .. n PROVE PointFits(h, i, points[i])
  <2>1. i - 1 \in 0 .. n /\ i \in 0 .. n
    OBVIOUS
  <2>2. PICK here : here = r[i - 1].at /\ r[i].fault = "none" /\ r[i - 1].fault = "none"
    <3>1. Unbroken(r, n)
      BY <1>3, <1>4, RoundsFault
    <3>2. QED
      BY <2>1, <3>1 DEF Unbroken
  <2>3. PICK values : values = r[i].values
    OBVIOUS
  <2>4. /\ \A j \in 1 .. Len(types) : Exact(values[j], types[j])
        /\ Agrees(here, WriteAll(values, types)) /\ Len(values) = Len(types)
        /\ r[i].at = here + Size(types) /\ r[i] \in Within
    <3>1. ReadsWell(r[i], here, types)
      BY <1>3, <2>2, RoundsFault DEF ReadsOn
    <3>2. QED
      BY <2>2, <2>3, <3>1 DEF ReadsWell
  <2>5. PICK p : /\ p = points[i] /\ GoodPoint(h.group, p)
                 /\ ParsedPoint(h, i, fs, values) = p
    BY <1>4, <1>5, <2>3 DEF GoodPoints
  <2>6. PICK a \in Seq(Octet), b \in Seq(Octet), c \in Seq(Octet) :
          a = f[i - 1] /\ b = ss[i] /\ c = f[i]
    BY <1>6, <2>1 DEF Concats, Sized
  <2>7. /\ b = WriteAll(ValuesOf(fs, p), types)
        /\ \A j \in 1 .. Len(fs) : ValuesOf(fs, p)[j] \in Int
    <3>1. SerializePoint(h, p) = WriteAll(ValuesOf(fs, p), types)
      BY <1>1, <1>2, <2>5, SerializePointIs
    <3>2. b = SerializePoint(h, p)
      BY <1>5, <1>6, <2>5, <2>6 DEF PointOctets
    <3>3. \A j \in 1 .. Len(fs) : ValuesOf(fs, p)[j] \in Int
      BY <1>1, <2>5, SerializePointIs
    <3>4. QED
      BY <3>1, <3>2, <3>3
  <2>8. Agrees(here, b)
    <3>1. c = a \o b
      BY <1>6, <2>6 DEF Concats
    <3>2. Begins(c, s)
      <4>1. \A k \in 1 .. n : ss[k] \in Seq(Octet)
        BY <1>6 DEF Sized
      <4>2. \A k \in 0 .. n : Begins(f[k], f[n])
        BY <1>6, <4>1, ConcatsBegin
      <4>3. QED
        BY <1>6, <2>1, <2>6, <4>2
    <3>3. Agrees(offset, a \o b)
      BY <1>6, <1>10, <2>6, <3>1, <3>2, AgreesBegin
    <3>4. Agrees(offset + Len(a), b)
      BY <1>7, <3>3, AgreesConcat
    <3>5. here = offset + Len(a)
      BY <1>8, <2>1, <2>2, <2>6 DEF At
    <3>6. QED
      BY <3>4, <3>5
  <2>9. b = WriteAll(values, types)
    <3>1. PICK t \in Seq(Octet) : /\ t = WriteAll(values, types) /\ Len(t) = Size(types)
                                  /\ Size(types) \in Nat
      <4>1. \A j \in 1 .. Len(types) : values[j] \in Int
        BY <2>4 DEF Exact
      <4>2. QED
        BY <4>1, WriteAllSize
    <3>2. Len(b) = Size(types)
      BY <1>6, <2>6 DEF Sized
    <3>3. here \in Nat /\ here + Size(types) <= Len(data)
      <4>1. r[i - 1] \in Within
        BY <1>3, <2>1 DEF Rounds
      <4>2. QED
        BY <2>2, <2>4, <4>1 DEF Within, Reading
    <3>4. ASSUME NEW j \in 1 .. Len(b) PROVE b[j] = t[j]
      <4>1. PICK w \in Nat, d \in Nat, k \in Nat : w = Size(types) /\ d = Len(data) /\ k = here
        BY <1>7, <3>1, <3>3
      <4>2. k + w <= d /\ j \in 1 .. w
        BY <3>2, <3>3, <4>1
      <4>3. k + j <= d
        BY <4>2
      <4>4. here + j <= Len(data) /\ j \in 1 .. Len(t)
        BY <3>1, <4>1, <4>2, <4>3
      <4>5. Agrees(here, t)
        BY <2>4, <3>1
      <4>6. QED
        BY <2>8, <4>4, <4>5 DEF Agrees
    <3>5. b = t
      BY <3>1, <3>2, <3>4, SeqEqual
    <3>6. QED
      BY <3>1, <3>5
  <2>10. PointFits(h, i, p)
    <3>1. \A j \in 1 .. Len(fs) : Exact(values[j], fs[j].type)
      BY <1>2, <2>4
    <3>2. WriteAll(ValuesOf(fs, p), TypesOf(fs)) = WriteAll(values, TypesOf(fs))
      BY <1>2, <2>7, <2>9
    <3>3. QED
      BY <1>1, <2>5, <3>1, <3>2, ParsedPointFits
  <2>11. QED
    BY <2>5, <2>10
<1>11. QED
  BY <1>3, <1>5, <1>9, <1>10 DEF Suits, FittingPoints

\* Variations a parser does not know leave no points, and fit only where there
\* is nothing to read.
NothingRead(x, offset, h, fs) ==
  /\ x.points = <<>>
  /\ x.fault = "none" => x.at >= offset
  /\ PointCount(h) = 0 \/ fs = <<>> => x.fault = "none" /\ x.at = offset
  /\ x.fault = "none" /\ x.at = offset => PointCount(h) = 0 \/ fs = <<>>

LEMMA UnknownFields ==
  ASSUME data \in Seq(Octet), NEW offset \in 0 .. Len(data), NEW h \in AnyHeader,
         h.group \in Written, ~Known(h.group, h.var), NEW fs,
         fs = Prefix(h) \o Fields(h.group, h.var, TRUE), NEW x, x = ParseFields(h, offset)
  PROVE  NothingRead(x, offset, h, fs)
<1>1. PICK names : Named(fs, names)
  BY PointFieldsAre
<1>2. PICK types \in Seq(Types) : types = TypesOf(fs) /\ Len(types) = Len(fs)
  BY <1>1, TypesOfAre
<1>0. PICK n \in Nat :
        \E r : n = PointCount(h) /\ Rounds(r, offset, types, n) /\ FieldsRead(x, h, fs, n, r)
  <2>1. h.count \in Int
    BY DEF AnyHeader
  <2>2. QED
    BY <1>2, <2>1, ParseFieldsIs
<1>3. PICK r :
        n = PointCount(h) /\ Rounds(r, offset, types, n) /\ FieldsRead(x, h, fs, n, r)
  BY <1>0
<1>4. x.points = <<>> /\ x.at = r[n].at /\ x.fault = r[n].fault /\ n \in 0 .. n
  BY <1>3 DEF FieldsRead
<1>5. \A i \in 0 .. n : r[i] \in Within /\ r[i].at \in Nat /\ r[i].at <= Len(data)
  <2>1. \A i \in 0 .. n : r[i] \in Within
    BY <1>3 DEF Rounds
  <2>2. QED
    BY <2>1 DEF Within, Reading
<1>6. r[0].fault = "none" /\ r[0].at = offset /\ offset \in Nat /\ Len(data) \in Nat
  BY <1>3, LenProperties DEF Rounds
<1>7. PICK l \in Nat : l = Len(types) /\ (fs = <<>> <=> l = 0)
  <2>1. fs \in Seq(FieldOf)
    BY <1>1 DEF Named
  <2>2. fs = <<>> <=> Len(fs) = 0
    BY <2>1, EmptySeq
  <2>3. Len(types) \in Nat
    BY LenProperties
  <2>4. QED
    BY <1>2, <2>2, <2>3
<1>8. Size(types) \in Nat /\ (l # 0 => Size(types) >= 1) /\ (l = 0 => types = <<>>)
  <2>1. Size(types) \in Nat /\ Size(types) >= Len(types) /\ Len(types) \in Nat
    BY SizeAtLeast, LenProperties
  <2>2. Len(types) = 0 => types = <<>>
    BY EmptySeq
  <2>3. QED
    BY <1>7, <2>1, <2>2
<1>9. ASSUME NEW i \in 1 .. n, r[i].fault = "none"
      PROVE  r[i - 1].fault = "none" /\ r[i].at = r[i - 1].at + Size(types)
  <2>1. r[i - 1].fault = "none" /\ ReadsWell(r[i], r[i - 1].at, types)
    BY <1>3, <1>9, RoundsFault DEF ReadsOn
  <2>2. QED
    BY <1>9, <2>1 DEF ReadsWell
<1> DEFINE Past(i) == r[i].fault = "none" =>
             r[i].at >= offset /\ (i > 0 /\ l # 0 => r[i].at >= offset + 1)
           P == {i \in 0 .. n : Past(i)}
<1>10. 0 \in P
  BY <1>6
<1>11. ASSUME NEW i \in 1 .. n, i - 1 \in P PROVE i \in P
  <2>1. i - 1 \in 0 .. n /\ i \in 0 .. n
    OBVIOUS
  <2>2. PICK k \in Nat, m \in Nat, w \in Nat :
          k = r[i - 1].at /\ m = r[i].at /\ w = Size(types)
    BY <1>5, <1>8, <2>1
  <2>3. r[i].fault = "none" => k >= offset /\ m = k + w
    BY <1>9, <1>11, <2>2
  <2>4. l # 0 => w >= 1
    BY <1>8, <2>2
  <2>5. PICK o \in Nat : o = offset
    BY <1>6
  <2>6. r[i].fault = "none" => m >= o /\ (l # 0 => m >= o + 1)
    BY <2>3, <2>4, <2>5
  <2>7. Past(i)
    BY <2>2, <2>5, <2>6
  <2>8. QED
    BY <2>1, <2>7
<1> HIDE DEF P, Past
<1>12. \A i \in 0 .. n : i \in P
  BY <1>10, <1>11, InductionUpTo
<1>13. Past(n)
  BY <1>4, <1>12 DEF P
<1>14. x.fault = "none" => x.at >= offset /\ (n > 0 /\ l # 0 => x.at >= offset + 1)
  BY <1>4, <1>13 DEF Past
<1>15. ASSUME l = 0 PROVE r[n].fault = "none" /\ r[n].at = offset
  <2> DEFINE Q == {i \in 0 .. n : r[i].fault = "none" /\ r[i].at = offset}
  <2>1. 0 \in Q
    BY <1>6
  <2>2. ASSUME NEW i \in 1 .. n, i - 1 \in Q PROVE i \in Q
    <3>1. r[i] = ReadNext(r[i - 1], types)
      BY <1>3 DEF Rounds
    <3>2. r[i] = ReadAll(offset, <<>>)
      BY <1>8, <1>15, <2>2, <3>1 DEF ReadNext
    <3>3. r[i].fault = "none" /\ r[i].at = offset
      BY <3>2, ReadAllEmpty
    <3>4. QED
      BY <3>3
  <2> HIDE DEF Q
  <2>3. \A i \in 0 .. n : i \in Q
    BY <2>1, <2>2, InductionUpTo
  <2>4. QED
    BY <1>4, <2>3 DEF Q
<1>16. PICK here \in Nat : here = x.at /\ here <= Len(data)
  BY <1>4, <1>5
<1>17. n = 0 \/ fs = <<>> => x.fault = "none" /\ x.at = offset
  BY <1>4, <1>6, <1>7, <1>15
<1>18. x.fault = "none" /\ x.at = offset => n = 0 \/ fs = <<>>
  <2>1. PICK o \in Nat : o = offset
    BY <1>6
  <2>2. x.fault = "none" /\ n > 0 /\ l # 0 => here >= o + 1
    BY <1>14, <1>16, <2>1
  <2>3. n = 0 \/ n > 0
    OBVIOUS
  <2>4. ~(o >= o + 1)
    OBVIOUS
  <2>5. QED
    BY <1>7, <1>16, <2>1, <2>2, <2>3, <2>4
<1>19. QED
  BY <1>3, <1>4, <1>14, <1>17, <1>18 DEF NothingRead

-----------------------------------------------------------------------------
(* Packed points *)

Bytes(n) == [k \in 1 .. n |-> "uint8"]

LEMMA BytesAre ==
  \A n \in Nat : /\ Bytes(n) \in Seq(Types) /\ Len(Bytes(n)) = n
                 /\ \A k \in 1 .. n : Bytes(n)[k] = "uint8"
<1>1. ASSUME NEW n \in Nat
      PROVE  /\ Bytes(n) \in Seq(Types) /\ Len(Bytes(n)) = n
             /\ \A k \in 1 .. n : Bytes(n)[k] = "uint8"
  <2>1. Bytes(n) \in [1 .. n -> Types]
    BY DEF Bytes, Types
  <2>2. Bytes(n) \in Seq(Types) /\ Len(Bytes(n)) = n
    BY <2>1, FunctionSeq
  <2>3. QED
    BY <2>2 DEF Bytes
<1>2. QED
  BY <1>1

LEMMA BytesNext == \A n \in Nat : Bytes(n + 1) = Append(Bytes(n), "uint8")
<1>1. ASSUME NEW n \in Nat PROVE Bytes(n + 1) = Append(Bytes(n), "uint8")
  <2>1. PICK s \in Seq(Types) : s = Bytes(n) /\ Len(s) = n /\ \A k \in 1 .. n : s[k] = "uint8"
    BY BytesAre
  <2>2. n + 1 \in Nat
    OBVIOUS
  <2>3. PICK t \in Seq(Types) :
          t = Bytes(n + 1) /\ Len(t) = n + 1 /\ \A k \in 1 .. n + 1 : t[k] = "uint8"
    BY <2>2, BytesAre
  <2>4. "uint8" \in Types
    BY DEF Types
  <2>5. /\ Append(s, "uint8") \in Seq(Types) /\ Len(Append(s, "uint8")) = n + 1
        /\ \A k \in 1 .. n : Append(s, "uint8")[k] = s[k]
        /\ Append(s, "uint8")[n + 1] = "uint8"
    BY <2>1, <2>4, AppendProperties
  <2>6. \A k \in 1 .. n + 1 : Append(s, "uint8")[k] = t[k]
    BY <2>1, <2>3, <2>5
  <2>7. Append(s, "uint8") = t
    BY <2>3, <2>5, <2>6, SeqEqual
  <2>8. QED
    BY <2>1, <2>3, <2>7
<1>2. QED
  BY <1>1

\* An octet is written as itself.
LEMMA OctetIs == \A e \in Octet : Octets(e, 1) = <<e>>
<1>1. ASSUME NEW e \in Octet PROVE Octets(e, 1) = <<e>>
  <2>1. e \in Int /\ e % 256 = e
    BY DEF Octet
  <2>2. Shifted(e, 0) = e
    BY <2>1, ShiftedIs
  <2>3. Octets(e, 1) = [i \in 1 .. 1 |-> Shifted(e, i - 1) % 256]
    BY DEF Octets
  <2>4. \A i \in 1 .. 1 : Shifted(e, i - 1) % 256 = e
    BY <2>1, <2>2
  <2>5. Octets(e, 1) = [i \in 1 .. 1 |-> e]
    BY <2>3, <2>4
  <2>6. QED
    BY <2>5
<1>2. QED
  BY <1>1

\* Octets are written as they are.
LEMMA WriteBytes == \A s \in Seq(Octet) : WriteAll(s, Bytes(Len(s))) = s
<1> DEFINE P == {s \in Seq(Octet) : WriteAll(s, Bytes(Len(s))) = s}
<1>1. <<>> \in P
  <2>1. Bytes(0) = <<>>
    BY DEF Bytes
  <2>2. <<>> \in Seq(Octet) /\ Len(<<>>) = 0
    BY EmptySeq
  <2>3. QED
    BY <2>1, <2>2, WriteAllEmpty
<1>2. ASSUME NEW s \in Seq(Octet), NEW e \in Octet, s \in P PROVE Append(s, e) \in P
  <2>1. PICK n \in Nat : n = Len(s)
    BY LenProperties
  <2>2. PICK t \in Seq(Octet) : /\ t = Append(s, e) /\ Len(t) = n + 1 /\ t[n + 1] = e
                                /\ \A i \in 1 .. n : t[i] = s[i]
    <3>1. /\ Append(s, e) \in Seq(Octet) /\ Len(Append(s, e)) = n + 1
          /\ Append(s, e)[n + 1] = e
          /\ \A i \in 1 .. n : Append(s, e)[i] = s[i]
      BY <2>1, AppendProperties
    <3>2. QED
      BY <3>1
  <2>3. PICK types \in Seq(Types) : types = Bytes(n) /\ Len(types) = n
    BY BytesAre
  <2>4. Bytes(n + 1) = Append(types, "uint8")
    BY <2>3, BytesNext
  <2>5. \A i \in 1 .. n + 1 : t[i] \in Int
    <3>1. \A i \in 1 .. n + 1 : t[i] \in Octet
      BY <2>2, LenProperties
    <3>2. Octet \subseteq Int
      BY DEF Octet
    <3>3. QED
      BY <3>1, <3>2
  <2>6. "uint8" \in Types
    BY DEF Types
  <2>7. WriteAll(t, Append(types, "uint8"))
          = WriteAll(t, types) \o Octets(t[n + 1], Width["uint8"])
    BY <2>3, <2>5, <2>6, WriteAllAppend
  <2>8. WriteAll(t, types) = WriteAll(s, types)
    BY <2>2, <2>3, WriteAllSame
  <2>9. WriteAll(s, types) = s
    BY <1>2, <2>1, <2>3
  <2>10. Octets(t[n + 1], Width["uint8"]) = <<e>>
    BY <2>2, OctetIs, WidthIs
  <2>11. WriteAll(t, Bytes(n + 1)) = s \o <<e>>
    BY <2>4, <2>7, <2>8, <2>9, <2>10
  <2>12. s \o <<e>> = t
    BY <2>2, AppendIsConcat
  <2>13. QED
    BY <2>2, <2>11, <2>12
<1> HIDE DEF P
<1>3. \A s \in Seq(Octet) : s \in P
  BY <1>1, <1>2, SequenceInduction
<1>4. QED
  BY <1>3 DEF P

LEMMA BytesSize == \A n \in Nat : Size(Bytes(n)) = n
<1>1. ASSUME NEW n \in Nat PROVE Size(Bytes(n)) = n
  <2>1. PICK zeros : zeros = [k \in 1 .. n |-> 0]
    OBVIOUS
  <2>2. zeros \in [1 .. n -> Octet]
    BY <2>1 DEF Octet
  <2>3. zeros \in Seq(Octet) /\ Len(zeros) = n
    BY <2>2, FunctionSeq
  <2>4. WriteAll(zeros, Bytes(n)) = zeros
    BY <2>3, WriteBytes
  <2>5. Len(Bytes(n)) = n
    BY BytesAre
  <2>6. QED
    BY <2>1, <2>3, <2>4, <2>5 DEF Size
<1>2. QED
  BY <1>1

LEMMA PackedSizeIs ==
  /\ \A n \in Nat : PackedSize(n) \in Nat
  /\ \A n \in Int : n <= 0 => PackedSize(n) <= 0 /\ PackedSize(n) \in Int
  /\ \A n \in Nat : \A i \in 0 .. n - 1 : (i \div 8) + 1 \in 1 .. PackedSize(n)
<1>1. \A n \in Int : PackedSize(n) \in Int /\ (n <= 0 => PackedSize(n) <= 0)
                     /\ (n >= 0 => PackedSize(n) >= 0)
  BY DEF PackedSize
<1>2. ASSUME NEW n \in Nat, NEW i \in 0 .. n - 1 PROVE (i \div 8) + 1 \in 1 .. PackedSize(n)
  <2>1. (i \div 8) + 1 >= 1 /\ (i \div 8) + 1 <= (n + 7) \div 8 /\ (i \div 8) + 1 \in Int
    OBVIOUS
  <2>2. QED
    BY <2>1 DEF PackedSize
<1>3. QED
  BY <1>1, <1>2

\* The bit of the point after the first i, and the octet that begins with it.
Sent(points, i) == IF i < Len(points) /\ points[i + 1].value = 1 THEN 1 ELSE 0

PackedOctet(points, i) ==
  Sent(points, i) + 2 * Sent(points, i + 1) + 4 * Sent(points, i + 2)
    + 8 * Sent(points, i + 3) + 16 * Sent(points, i + 4) + 32 * Sent(points, i + 5)
    + 64 * Sent(points, i + 6) + 128 * Sent(points, i + 7)

\* The bit a parser reads.
BitAt(values, i) == (values[(i \div 8) + 1] \div PowerOf2[(i % 8) + 1]) % 2

LEMMA PackedOctetBits ==
  ASSUME NEW points, NEW k \in Int
  PROVE  /\ PackedOctet(points, k) \in Octet
         /\ \A j \in 0 .. 7 :
              (PackedOctet(points, k) \div PowerOf2[j + 1]) % 2 = Sent(points, k + j)
<1>1. \A i : Sent(points, i) \in {0, 1}
  BY DEF Sent
<1>2. PICK b0 \in {0, 1} : b0 = Sent(points, k)
  BY <1>1
<1>3. PICK b1 \in {0, 1} : b1 = Sent(points, k + 1)
  BY <1>1
<1>4. PICK b2 \in {0, 1} : b2 = Sent(points, k + 2)
  BY <1>1
<1>5. PICK b3 \in {0, 1} : b3 = Sent(points, k + 3)
  BY <1>1
<1>6. PICK b4 \in {0, 1} : b4 = Sent(points, k + 4)
  BY <1>1
<1>7. PICK b5 \in {0, 1} : b5 = Sent(points, k + 5)
  BY <1>1
<1>8. PICK b6 \in {0, 1} : b6 = Sent(points, k + 6)
  BY <1>1
<1>9. PICK b7 \in {0, 1} : b7 = Sent(points, k + 7)
  BY <1>1
<1>10. PICK o : o = PackedOctet(points, k)
  OBVIOUS
<1>11. o = b0 + 2 * b1 + 4 * b2 + 8 * b3 + 16 * b4 + 32 * b5 + 64 * b6 + 128 * b7
  BY <1>10, <1>2, <1>3, <1>4, <1>5, <1>6, <1>7, <1>8, <1>9 DEF PackedOctet
<1>12. (o \div 1) % 2 = b0
  BY <1>11
<1>13. (o \div 2) % 2 = b1
  BY <1>11
<1>14. (o \div 4) % 2 = b2
  BY <1>11
<1>15. (o \div 8) % 2 = b3
  BY <1>11
<1>16. (o \div 16) % 2 = b4
  BY <1>11
<1>17. (o \div 32) % 2 = b5
  BY <1>11
<1>18. (o \div 64) % 2 = b6
  BY <1>11
<1>19. (o \div 128) % 2 = b7
  BY <1>11
<1>20. /\ PowerOf2[1] = 1 /\ PowerOf2[2] = 2 /\ PowerOf2[3] = 4 /\ PowerOf2[4] = 8
      /\ PowerOf2[5] = 16 /\ PowerOf2[6] = 32 /\ PowerOf2[7] = 64 /\ PowerOf2[8] = 128
  BY DEF PowerOf2
<1>21. ASSUME NEW j \in 0 .. 7 PROVE (o \div PowerOf2[j + 1]) % 2 = Sent(points, k + j)
  <2>1. k + 0 = k
    OBVIOUS
  <2>2. CASE j = 0
    BY <1>2, <1>12, <1>20, <2>2, <2>1
  <2>3. CASE j = 1
    BY <1>3, <1>13, <1>20, <2>3
  <2>4. CASE j = 2
    BY <1>4, <1>14, <1>20, <2>4
  <2>5. CASE j = 3
    BY <1>5, <1>15, <1>20, <2>5
  <2>6. CASE j = 4
    BY <1>6, <1>16, <1>20, <2>6
  <2>7. CASE j = 5
    BY <1>7, <1>17, <1>20, <2>7
  <2>8. CASE j = 6
    BY <1>8, <1>18, <1>20, <2>8
  <2>9. CASE j = 7
    BY <1>9, <1>19, <1>20, <2>9
  <2>10. j \in {0, 1, 2, 3, 4, 5, 6, 7}
    OBVIOUS
  <2>11. QED
    BY <2>2, <2>3, <2>4, <2>5, <2>6, <2>7, <2>8, <2>9, <2>10
<1>22. o \in 0 .. 255
  BY <1>11
<1>23. QED
  BY <1>10, <1>21, <1>22 DEF Octet

\* The points are in the octets bit by bit.
Holds(values, points, n) == \A i \in 0 .. n - 1 : BitAt(values, i) = Sent(points, i)

LEMMA SerializePackedIs ==
  ASSUME NEW n \in Nat, NEW points, Len(points) = n
  PROVE  /\ SerializePacked(points) \in Seq(Octet)
         /\ Len(SerializePacked(points)) = PackedSize(n)
         /\ Holds(SerializePacked(points), points, n)
<1>1. PICK m \in Nat : m = PackedSize(n)
  BY PackedSizeIs
<1>2. PICK s : s = SerializePacked(points)
  OBVIOUS
<1>3. s = [k \in 1 .. m |-> PackedOctet(points, 8 * (k - 1))]
  BY <1>1, <1>2 DEF SerializePacked, PackedOctet, Sent
<1>4. \A k \in 1 .. m : PackedOctet(points, 8 * (k - 1)) \in Octet
  <2>1. \A k \in 1 .. m : 8 * (k - 1) \in Int
    OBVIOUS
  <2>2. QED
    BY <2>1, PackedOctetBits
<1>5. s \in [1 .. m -> Octet]
  BY <1>3, <1>4
<1>6. s \in Seq(Octet) /\ Len(s) = m
  BY <1>5, FunctionSeq
<1>7. ASSUME NEW i \in 0 .. n - 1 PROVE BitAt(s, i) = Sent(points, i)
  <2>1. PICK k \in Int, j \in 0 .. 7 : k = i \div 8 /\ j = i % 8 /\ 8 * k + j = i
    OBVIOUS
  <2>2. k + 1 \in 1 .. m /\ (k + 1) - 1 = k
    BY <1>1, <2>1, PackedSizeIs
  <2>3. s[k + 1] = PackedOctet(points, 8 * k)
    BY <1>3, <2>2
  <2>4. 8 * k \in Int
    OBVIOUS
  <2>5. (PackedOctet(points, 8 * k) \div PowerOf2[j + 1]) % 2 = Sent(points, 8 * k + j)
    BY <2>4, PackedOctetBits
  <2>6. QED
    BY <2>1, <2>3, <2>5 DEF BitAt
<1>8. QED
  BY <1>1, <1>2, <1>6, <1>7 DEF Holds

\* What a parser makes of packed points.
PackedPoint(h, i, bit) ==
  [a \in Attributes(h.group) |->
     IF a = "value" THEN bit ELSE Attribute(a, h.start + i - 1, <<>>)]

PackedRead(x, h, n, r) ==
  /\ x.fault = r.fault /\ x.at = r.at
  /\ r.fault = "none" =>
       x.points = [i \in 1 .. n |-> PackedPoint(h, i, BitAt(r.values, i - 1))]

LEMMA ParsePackedIs ==
  ASSUME NEW h, h.count \in Int, NEW offset, NEW n \in Nat, n = PointCount(h)
  PROVE  PackedRead(ParsePacked(h, offset), h, n, ReadAll(offset, Bytes(PackedSize(n))))
<1>1. [k \in 1 .. PackedSize(h.count) |-> "uint8"] = Bytes(PackedSize(n))
  <2>1. CASE h.count >= 0
    BY <2>1, PointCountIs DEF Bytes
  <2>2. CASE ~(h.count >= 0)
    <3>1. n = 0 /\ h.count <= 0
      BY <2>2, PointCountIs
    <3>2. \A c \in Int : c <= 0 => 1 .. c = {}
      OBVIOUS
    <3>3. 1 .. PackedSize(h.count) = {} /\ 1 .. PackedSize(n) = {}
      BY <3>1, <3>2, PackedSizeIs
    <3>4. QED
      BY <3>3 DEF Bytes
  <2>3. QED
    BY <2>1, <2>2
<1>2. 1 .. h.count = 1 .. n
  <2>1. CASE h.count >= 0
    BY <2>1, PointCountIs
  <2>2. CASE ~(h.count >= 0)
    <3>1. n = 0
      BY <2>2, PointCountIs
    <3>2. QED
      BY <2>2, <3>1
  <2>3. QED
    BY <2>1, <2>2
<1>3. PICK r : r = ReadAll(offset, Bytes(PackedSize(n)))
  OBVIOUS
<1>4. PICK x : x = ParsePacked(h, offset)
  OBVIOUS
<1>5. x = [fault |-> r.fault, at |-> r.at,
           points |-> [i \in 1 .. IF r.fault = "none" THEN h.count ELSE 0 |->
                         PackedPoint(h, i, BitAt(r.values, i - 1))]]
  BY <1>1, <1>3, <1>4 DEF ParsePacked, PackedPoint, BitAt
<1>6. QED
  BY <1>2, <1>3, <1>4, <1>5 DEF PackedRead

\* A packed point fits if a parser makes it of its bit.
LEMMA PackedPointIs ==
  ASSUME NEW h, h.group \in Written, Packed(h.group, h.var), NEW p, GoodPoint(h.group, p),
         NEW i, NEW bit
  PROVE  p = PackedPoint(h, i, bit) <=> PointFits(h, i, p) /\ p.value = bit
<1>1. PICK g : g = h.group /\ g \in {1, 10, 80}
  BY DEF Packed
<1>2. /\ "index" \in Attributes(g) /\ "value" \in Attributes(g)
      /\ Attributes(g) \subseteq {"index", "value", "flags", "time"}
      /\ "time" \in Attributes(g) <=> "flags" \in Attributes(g)
  BY <1>1 DEF Attributes
<1>3. WriteFields(h) = <<>> /\ Len(<<>>) = 0
  BY EmptySeq DEF WriteFields
<1>4. PointFits(h, i, p) <=> /\ p.index = h.start + i - 1
                             /\ "flags" \in Attributes(g) => p.flags = 1
                             /\ "time" \in Attributes(g) => p.time = Nothing
  BY <1>1, <1>2, <1>3 DEF PointFits
<1>5. PICK q : q = PackedPoint(h, i, bit)
  OBVIOUS
<1>6. /\ q.index = h.start + i - 1 /\ q.value = bit
      /\ "flags" \in Attributes(g) => q.flags = 1
      /\ "time" \in Attributes(g) => q.time = Nothing
      /\ q = [a \in Attributes(g) |-> q[a]]
  BY <1>1, <1>2, <1>5 DEF PackedPoint, Attribute
<1>7. p = [a \in Attributes(g) |-> p[a]]
  BY <1>1 DEF GoodPoint
<1>8. ASSUME PointFits(h, i, p), p.value = bit PROVE p = q
  <2>1. ASSUME NEW a \in Attributes(g) PROVE p[a] = q[a]
    <3>1. a \in {"index", "value", "flags", "time"}
      BY <1>2
    <3>2. QED
      BY <1>4, <1>6, <1>8, <3>1
  <2>2. QED
    BY <1>6, <1>7, <2>1
<1>9. QED
  BY <1>4, <1>5, <1>6, <1>8

\* Where packed points that fit were written, those points are read.
LEMMA PackedBack ==
  ASSUME data \in Seq(Octet), NEW offset \in 0 .. Len(data), NEW h \in AnyHeader,
         h.group \in Written, Packed(h.group, h.var), NEW points,
         points = [i \in 1 .. Len(points) |-> points[i]], GoodPoints(h.group, points),
         FittingPoints(h, points),
         NEW s, s = SerializePacked(points), Agrees(offset, s),
         NEW x, x = ParsePacked(h, offset)
  PROVE  Recovers(x, offset, s, points)
<1>1. PICK n \in Nat : n = PointCount(h)
  <2>1. h.count \in Int
    BY DEF AnyHeader
  <2>2. QED
    BY <2>1, PointCountIs
<1>2. PICK m \in Nat : m = PackedSize(n)
  BY PackedSizeIs
<1>3. s \in Seq(Octet) /\ Len(s) = m /\ Holds(s, points, n) /\ Len(points) = n
  BY <1>1, <1>2, SerializePackedIs DEF FittingPoints
<1>4. PICK types \in Seq(Types) : /\ types = Bytes(m) /\ Len(types) = m
                                  /\ \A k \in 1 .. m : types[k] = "uint8"
  BY BytesAre
<1>5. PICK r : /\ r = ReadAll(offset, types) /\ ReadsWell(r, offset, types)
               /\ PackedRead(x, h, n, r)
  <2>1. h.count \in Int
    BY DEF AnyHeader
  <2>2. PackedRead(x, h, n, ReadAll(offset, types))
    BY <1>1, <1>2, <1>4, <2>1, ParsePackedIs
  <2>3. QED
    BY <2>2, ReadAllIs
<1>6. Returns(r, offset, types, s)
  <2>1. \A k \in 1 .. Len(types) : Exact(s[k], types[k])
    <3>1. \A k \in 1 .. m : s[k] \in Octet
      BY <1>3, LenProperties
    <3>2. QED
      BY <1>4, <3>1, ExactUint8
  <2>2. Agrees(offset, WriteAll(s, types))
    BY <1>3, <1>4, WriteBytes
  <2>3. QED
    BY <1>5, <2>1, <2>2, ReadAllBack
<1>7. Size(types) = m
  BY <1>4, BytesSize
<1>8. offset + Len(s) <= Len(data) => x.fault = "none"
  BY <1>3, <1>5, <1>6, <1>7 DEF Returns, PackedRead
<1>9. ASSUME x.fault = "none" PROVE x.points = points /\ x.at = offset + Len(s)
  <2>1. r.fault = "none" /\ x.at = r.at
        /\ x.points = [i \in 1 .. n |-> PackedPoint(h, i, BitAt(r.values, i - 1))]
    BY <1>5, <1>9 DEF PackedRead
  <2>2. r.at = offset + m
    BY <1>5, <1>7, <2>1 DEF ReadsWell
  <2>3. ASSUME NEW i \in 1 .. n PROVE points[i] = PackedPoint(h, i, BitAt(r.values, i - 1))
    <3>1. PICK p : p = points[i] /\ GoodPoint(h.group, p) /\ PointFits(h, i, p)
      BY <1>3 DEF GoodPoints, FittingPoints
    <3>2. PICK k \in 0 .. n - 1 : k = i - 1 /\ k < n /\ k + 1 = i
      OBVIOUS
    <3>3. p.value \in {0, 1}
      BY <3>1 DEF GoodPoint, IsPoint, Packed
    <3>4. Sent(points, k) = p.value
      BY <1>3, <3>1, <3>2, <3>3 DEF Sent
    <3>5. BitAt(s, k) = Sent(points, k)
      BY <1>3 DEF Holds
    <3>6. BitAt(r.values, k) = BitAt(s, k)
      <4>1. (k \div 8) + 1 \in 1 .. m
        BY <1>2, PackedSizeIs
      <4>2. r.values[(k \div 8) + 1] = s[(k \div 8) + 1]
        BY <1>4, <1>6, <2>1, <4>1 DEF Returns
      <4>3. QED
        BY <4>2 DEF BitAt
    <3>7. QED
      BY <3>1, <3>2, <3>4, <3>5, <3>6, PackedPointIs
  <2>4. x.points = [i \in 1 .. n |-> points[i]]
    BY <2>1, <2>3
  <2>5. QED
    BY <1>3, <2>1, <2>2, <2>4
<1>10. QED
  BY <1>8, <1>9 DEF Recovers

\* Packed points that were read take as many octets as when they are written,
\* and fit.
LEMMA PackedFit ==
  ASSUME data \in Seq(Octet), NEW offset \in 0 .. Len(data), NEW h \in AnyHeader,
         h.group \in Written, Packed(h.group, h.var), NEW points,
         GoodPoints(h.group, points), NEW x, x = ParsePacked(h, offset),
         x.fault = "none", x.points = points
  PROVE  Suits(x, offset, SerializePacked(points), h, points)
<1>1. PICK n \in Nat : n = PointCount(h)
  <2>1. h.count \in Int
    BY DEF AnyHeader
  <2>2. QED
    BY <2>1, PointCountIs
<1>2. PICK m \in Nat : m = PackedSize(n)
  BY PackedSizeIs
<1>3. PICK types \in Seq(Types) : types = Bytes(m)
  BY BytesAre
<1>4. PICK r : /\ r = ReadAll(offset, types) /\ ReadsWell(r, offset, types)
               /\ PackedRead(x, h, n, r)
  <2>1. h.count \in Int
    BY DEF AnyHeader
  <2>2. PackedRead(x, h, n, ReadAll(offset, types))
    BY <1>1, <1>2, <1>3, <2>1, ParsePackedIs
  <2>3. QED
    BY <2>2, ReadAllIs
<1>5. r.fault = "none" /\ x.at = r.at
      /\ points = [i \in 1 .. n |-> PackedPoint(h, i, BitAt(r.values, i - 1))]
  BY <1>4 DEF PackedRead
<1>6. Len(points) = n
  <2>1. PICK A : A = {PackedPoint(h, i, BitAt(r.values, i - 1)) : i \in 1 .. n}
    OBVIOUS
  <2>2. points \in [1 .. n -> A]
    BY <1>5, <2>1
  <2>3. QED
    BY <2>2, FunctionSeq
<1>7. r.at = offset + m
  BY <1>3, <1>4, <1>5, BytesSize DEF ReadsWell
<1>8. Len(SerializePacked(points)) = m
  BY <1>2, <1>6, SerializePackedIs
<1>9. ASSUME NEW i \in 1 .. n PROVE PointFits(h, i, points[i])
  <2>1. PICK p, bit : p = points[i] /\ bit = BitAt(r.values, i - 1) /\ GoodPoint(h.group, p)
    BY <1>6 DEF GoodPoints
  <2>2. p = PackedPoint(h, i, bit)
    BY <1>5, <2>1
  <2>3. QED
    BY <2>1, <2>2, PackedPointIs
<1>10. QED
  BY <1>1, <1>5, <1>6, <1>7, <1>8, <1>9 DEF Suits, FittingPoints

-----------------------------------------------------------------------------
(* Objects *)

\* An object as a message may have it.
GoodObject(o) ==
  /\ o.header \in AnyHeader
  /\ o = [header |-> o.header, points |-> o.points]
  /\ o.points \in Seq([Attributes(o.header.group) -> Int \cup {Nothing}])
  /\ GoodPoints(o.header.group, o.points)

LEMMA PackedKnown == \A g, v : Packed(g, v) => Known(g, v) /\ g \in Written
BY DEF Packed, Known, Written, Handled

\* No points are no octets.
LEMMA SerializeNothing ==
  ASSUME NEW o, o.points = <<>>
  PROVE  SerializePoints(o) = <<>>
<1>1. Len(o.points) = 0
  BY EmptySeq
<1>2. CASE o.header.group \notin Handled \ {60}
  BY <1>2, PackedKnown DEF SerializePoints, Written
<1>3. CASE o.header.group \in Handled \ {60} /\ Packed(o.header.group, o.header.var)
  <2>1. SerializePoints(o) = SerializePacked(o.points)
    BY <1>3 DEF SerializePoints
  <2>2. 0 \in Nat /\ PackedSize(0) = 0
    BY DEF PackedSize
  <2>3. SerializePacked(o.points) \in Seq(Octet) /\ Len(SerializePacked(o.points)) = 0
    BY <1>1, <2>2, SerializePackedIs
  <2>4. QED
    BY <2>1, <2>3, EmptySeq
<1>4. CASE o.header.group \in Handled \ {60} /\ ~Packed(o.header.group, o.header.var)
  <2>1. SerializePoints(o) = FlattenSeq([i \in 1 .. 0 |-> SerializePoint(o.header, o.points[i])])
    BY <1>1, <1>4 DEF SerializePoints
  <2>2. [i \in 1 .. 0 |-> SerializePoint(o.header, o.points[i])] = <<>>
    OBVIOUS
  <2>3. FlattenSeq(<<>>) = <<>>
    BY DEF FlattenSeq
  <2>4. QED
    BY <2>1, <2>2, <2>3
<1>5. QED
  BY <1>2, <1>3, <1>4

LEMMA SerializePointsAre ==
  ASSUME NEW o, GoodObject(o)
  PROVE  /\ SerializePoints(o) \in Seq(Octet)
         /\ o.header.group \notin Written => SerializePoints(o) = <<>>
         /\ Packed(o.header.group, o.header.var) => SerializePoints(o) = SerializePacked(o.points)
         /\ o.header.group \in Written /\ ~Packed(o.header.group, o.header.var) =>
              SerializePoints(o) = FlattenSeq(PointOctets(o.header, o.points))
<1>1. PICK n \in Nat : n = Len(o.points)
  BY LenProperties DEF GoodObject
<1>2. o.header.group \notin Written => SerializePoints(o) = <<>>
  BY PackedKnown DEF SerializePoints, Written
<1>3. Packed(o.header.group, o.header.var) => SerializePoints(o) = SerializePacked(o.points)
  BY PackedKnown DEF SerializePoints, Written
<1>4. o.header.group \in Written /\ ~Packed(o.header.group, o.header.var) =>
        SerializePoints(o) = FlattenSeq(PointOctets(o.header, o.points))
  BY DEF SerializePoints, PointOctets, Written
<1>5. CASE o.header.group \notin Written
  BY <1>2, <1>3, <1>4, <1>5, EmptySeq
<1>6. CASE Packed(o.header.group, o.header.var)
  BY <1>1, <1>2, <1>3, <1>4, <1>6, SerializePackedIs
<1>7. CASE o.header.group \in Written /\ ~Packed(o.header.group, o.header.var)
  <2>1. o.header \in AnyHeader /\ \A i \in 1 .. n : GoodPoint(o.header.group, o.points[i])
    BY <1>1 DEF GoodObject, GoodPoints
  <2>2. FlattenSeq(PointOctets(o.header, o.points)) \in Seq(Octet)
    BY <1>1, <1>7, <2>1, PointOctetsAre
  <2>3. QED
    BY <1>2, <1>3, <1>4, <1>7, <2>2
<1>8. QED
  BY <1>5, <1>6, <1>7

\* Whatever a header announces, its points end within the data.
LEMMA ParsePointsType ==
  ASSUME data \in Seq(Octet), NEW offset \in 0 .. Len(data), NEW h \in AnyHeader,
         NEW x, x = ParsePoints(h, offset)
  PROVE  x.at \in 0 .. Len(data) /\ x.fault \in {"none", "refused", "escaped"}
<1>1. h.count \in Int /\ Len(data) \in Nat
  BY LenProperties DEF AnyHeader
<1>2. \A y \in Within : y.at \in 0 .. Len(data) /\ y.fault \in {"none", "refused", "escaped"}
  BY <1>1 DEF Within, Reading
<1>3. CASE h.group \notin Written \/ h.count = 0
  BY <1>3 DEF ParsePoints, Written
<1>4. CASE h.group \in Written /\ h.count # 0 /\ Packed(h.group, h.var)
  <2>1. x = ParsePacked(h, offset)
    BY <1>4 DEF ParsePoints, Written
  <2>2. PICK n \in Nat : n = PointCount(h)
    BY <1>1, PointCountIs
  <2>3. PICK m \in Nat : m = PackedSize(n)
    BY PackedSizeIs
  <2>4. PICK types \in Seq(Types) : types = Bytes(m)
    BY BytesAre
  <2>5. PICK r : r = ReadAll(offset, types) /\ ReadsWell(r, offset, types)
    BY ReadAllIs
  <2>6. PackedRead(x, h, n, r)
    BY <1>1, <2>1, <2>2, <2>3, <2>4, <2>5, ParsePackedIs
  <2>7. r \in Within /\ x.at = r.at /\ x.fault = r.fault
    BY <2>5, <2>6 DEF ReadsWell, PackedRead
  <2>8. QED
    BY <1>2, <2>7
<1>5. CASE h.group \in Written /\ h.count # 0 /\ ~Packed(h.group, h.var)
  <2>1. x = ParseFields(h, offset)
    BY <1>5 DEF ParsePoints, Written
  <2>2. PICK fs, names : fs = Prefix(h) \o Fields(h.group, h.var, TRUE) /\ Named(fs, names)
    BY <1>5, PointFieldsAre
  <2>3. PICK types \in Seq(Types) : types = TypesOf(fs)
    BY <2>2, TypesOfAre
  <2>0. PICK n \in Nat : \E r : Rounds(r, offset, types, n) /\ FieldsRead(x, h, fs, n, r)
    BY <1>1, <2>1, <2>2, <2>3, ParseFieldsIs
  <2>4. PICK r : Rounds(r, offset, types, n) /\ FieldsRead(x, h, fs, n, r)
    BY <2>0
  <2>5. n \in 0 .. n /\ r \in [0 .. n -> Within]
    BY <2>4 DEF Rounds
  <2>6. r[n] \in Within /\ x.at = r[n].at /\ x.fault = r[n].fault
    BY <2>4, <2>5 DEF FieldsRead
  <2>7. QED
    BY <1>2, <2>6
<1>6. QED
  BY <1>3, <1>4, <1>5

\* Points that are written where a parser looks for them are read, if they are
\* those it finds after the header.
LEMMA PointsBack ==
  ASSUME data \in Seq(Octet), NEW offset \in 0 .. Len(data), NEW o, GoodObject(o), PointsFit(o),
         NEW s, s = SerializePoints(o), Agrees(offset, s),
         NEW x, x = ParsePoints(o.header, offset)
  PROVE  Recovers(x, offset, s, o.points)
<1>1. PICK h \in AnyHeader : h = o.header
  BY DEF GoodObject
<1>2. PICK points : /\ points = o.points /\ points = [i \in 1 .. Len(points) |-> points[i]]
                    /\ GoodPoints(h.group, points)
  <2>1. o.points = [i \in 1 .. Len(o.points) |-> o.points[i]]
    BY LenProperties DEF GoodObject
  <2>2. QED
    BY <1>1, <2>1 DEF GoodObject
<1>3. offset + 0 = offset /\ Len(<<>>) = 0
  BY EmptySeq
<1>4. CASE h.group \notin Handled \/ h.count = 0
  <2>1. points = <<>>
    BY <1>1, <1>2, <1>4 DEF PointsFit, Handled
  <2>2. s = <<>>
    BY <1>2, <2>1, SerializeNothing
  <2>3. x = [fault |-> "none", at |-> offset, points |-> <<>>]
    BY <1>1, <1>4 DEF ParsePoints, Handled
  <2>4. QED
    BY <1>2, <1>3, <2>1, <2>2, <2>3 DEF Recovers
<1>5. CASE h.group = 60 /\ h.count # 0
  <2>1. points = <<[variation |-> h.var]>>
    BY <1>1, <1>2, <1>5 DEF PointsFit, Handled
  <2>2. s = <<>>
    BY <1>1, <1>5, SerializePointsAre DEF Written
  <2>3. x = [fault |-> "none", at |-> offset, points |-> <<[variation |-> h.var]>>]
    BY <1>1, <1>5 DEF ParsePoints, Handled
  <2>4. QED
    BY <1>2, <1>3, <2>1, <2>2, <2>3 DEF Recovers
<1>6. CASE h.group \in Written /\ h.count # 0 /\ ~Known(h.group, h.var)
  <2>1. PICK fs : fs = Prefix(h) \o Fields(h.group, h.var, TRUE)
    OBVIOUS
  <2>2. points = <<>> /\ (h.count < 0 \/ fs = <<>>)
    BY <1>1, <1>2, <1>6, <2>1 DEF PointsFit, Written
  <2>3. s = <<>>
    BY <1>2, <2>2, SerializeNothing
  <2>4. x = ParseFields(h, offset)
    BY <1>1, <1>6, PackedKnown DEF ParsePoints, Written
  <2>5. PointCount(h) = 0 \/ fs = <<>>
    <3>1. h.count \in Int
      BY DEF AnyHeader
    <3>2. QED
      BY <2>2, <3>1, PointCountIs
  <2>6. x.points = <<>> /\ x.fault = "none" /\ x.at = offset
    <3>1. NothingRead(x, offset, h, fs)
      BY <1>6, <2>1, <2>4, UnknownFields
    <3>2. QED
      BY <2>5, <3>1 DEF NothingRead
  <2>7. QED
    BY <1>2, <1>3, <2>2, <2>3, <2>6 DEF Recovers
<1>7. CASE h.group \in Written /\ h.count # 0 /\ Known(h.group, h.var)
  <2>1. FittingPoints(h, points)
    BY <1>1, <1>2, <1>7 DEF PointsFit, Written, FittingPoints
  <2>2. CASE Packed(h.group, h.var)
    <3>1. x = ParsePacked(h, offset)
      BY <1>1, <1>7, <2>2 DEF ParsePoints, Written
    <3>2. s = SerializePacked(points)
      BY <1>1, <1>2, <2>2, SerializePointsAre
    <3>3. QED
      BY <1>2, <1>7, <2>1, <2>2, <3>1, <3>2, PackedBack
  <2>3. CASE ~Packed(h.group, h.var)
    <3>1. x = ParseFields(h, offset)
      BY <1>1, <1>7, <2>3 DEF ParsePoints, Written
    <3>2. s = FlattenSeq(PointOctets(h, points))
      BY <1>1, <1>2, <1>7, <2>3, SerializePointsAre
    <3>3. QED
      BY <1>2, <1>7, <2>1, <2>3, <3>1, <3>2, FieldsBack
  <2>4. QED
    BY <2>2, <2>3
<1>8. QED
  BY <1>4, <1>5, <1>6, <1>7 DEF Written

\* Points that were read take at least as many octets as when they are written;
\* if they take those octets, they are what a parser finds after the header.
LEMMA PointsFitBack ==
  ASSUME data \in Seq(Octet), NEW offset \in 0 .. Len(data), NEW o, GoodObject(o),
         NEW s, s = SerializePoints(o), NEW x, x = ParsePoints(o.header, offset),
         x.fault = "none", x.points = o.points
  PROVE  /\ x.at >= offset + Len(s)
         /\ x.at = offset + Len(s) /\ Agrees(offset, s) => PointsFit(o)
<1>1. PICK h \in AnyHeader : h = o.header
  BY DEF GoodObject
<1>2. PICK points : /\ points = o.points /\ points = x.points
                    /\ GoodPoints(h.group, points)
  BY <1>1 DEF GoodObject
<1>3. offset + 0 = offset /\ Len(<<>>) = 0 /\ offset \in Nat /\ offset >= offset
  BY EmptySeq, LenProperties
<1>4. CASE h.group \notin Handled \/ h.count = 0
  <2>1. x = [fault |-> "none", at |-> offset, points |-> <<>>]
    BY <1>1, <1>4 DEF ParsePoints, Handled
  <2>2. points = <<>> /\ x.at = offset
    BY <1>2, <2>1
  <2>3. s = <<>>
    BY <1>2, <2>2, SerializeNothing
  <2>4. PointsFit(o)
    BY <1>1, <1>2, <1>4, <2>2 DEF PointsFit, Handled
  <2>5. QED
    BY <1>3, <2>2, <2>3, <2>4
<1>5. CASE h.group = 60 /\ h.count # 0
  <2>1. x = [fault |-> "none", at |-> offset, points |-> <<[variation |-> h.var]>>]
    BY <1>1, <1>5 DEF ParsePoints, Handled
  <2>2. points = <<[variation |-> h.var]>> /\ x.at = offset
    BY <1>2, <2>1
  <2>3. s = <<>>
    BY <1>1, <1>5, SerializePointsAre DEF Written
  <2>4. PointsFit(o)
    BY <1>1, <1>2, <1>5, <2>2 DEF PointsFit, Handled
  <2>5. QED
    BY <1>3, <2>2, <2>3, <2>4
<1>6. CASE h.group \in Written /\ h.count # 0 /\ ~Known(h.group, h.var)
  <2>1. PICK fs : fs = Prefix(h) \o Fields(h.group, h.var, TRUE)
    OBVIOUS
  <2>2. x = ParseFields(h, offset)
    BY <1>1, <1>6, PackedKnown DEF ParsePoints, Written
  <2>3. /\ x.points = <<>> /\ x.at >= offset
        /\ x.at = offset => PointCount(h) = 0 \/ fs = <<>>
    <3>1. NothingRead(x, offset, h, fs)
      BY <1>6, <2>1, <2>2, UnknownFields
    <3>2. QED
      BY <3>1 DEF NothingRead
  <2>4. s = <<>>
    BY <1>2, <2>3, SerializeNothing
  <2>5. x.at = offset => h.count < 0 \/ fs = <<>>
    <3>1. h.count \in Int
      BY DEF AnyHeader
    <3>2. QED
      BY <1>6, <2>3, <3>1, PointCountIs
  <2>6. x.at = offset => PointsFit(o)
    BY <1>1, <1>2, <1>6, <2>1, <2>3, <2>5 DEF PointsFit, Written
  <2>7. QED
    BY <1>3, <2>3, <2>4, <2>6
<1>7. CASE h.group \in Written /\ h.count # 0 /\ Known(h.group, h.var)
  <2>1. ASSUME FittingPoints(h, points) PROVE PointsFit(o)
    BY <1>1, <1>2, <1>7, <2>1 DEF PointsFit, Written, FittingPoints
  <2>2. CASE Packed(h.group, h.var)
    <3>1. x = ParsePacked(h, offset)
      BY <1>1, <1>7, <2>2 DEF ParsePoints, Written
    <3>2. s = SerializePacked(points)
      BY <1>1, <1>2, <2>2, SerializePointsAre
    <3>3. Suits(x, offset, s, h, points)
      BY <1>2, <1>7, <2>2, <3>1, <3>2, PackedFit
    <3>4. s \in Seq(Octet)
      BY SerializePointsAre
    <3>5. Len(s) \in Nat
      BY <3>4, LenProperties
    <3>6. QED
      BY <1>3, <2>1, <3>3, <3>5 DEF Suits
  <2>3. CASE ~Packed(h.group, h.var)
    <3>1. x = ParseFields(h, offset)
      BY <1>1, <1>7, <2>3 DEF ParsePoints, Written
    <3>2. s = FlattenSeq(PointOctets(h, points))
      BY <1>1, <1>2, <1>7, <2>3, SerializePointsAre
    <3>3. Suits(x, offset, s, h, points)
      BY <1>2, <1>7, <2>3, <3>1, <3>2, FieldsFit
    <3>4. s \in Seq(Octet)
      BY SerializePointsAre
    <3>5. Len(s) \in Nat
      BY <3>4, LenProperties
    <3>6. QED
      BY <1>3, <2>1, <3>3, <3>5 DEF Suits
  <2>4. QED
    BY <2>2, <2>3
<1>8. QED
  BY <1>4, <1>5, <1>6, <1>7 DEF Written

\* What is written of an object, and what a parser finds at an offset.
ObjectOctets(o) == HeaderOctets(o.header) \o SerializePoints(o)

Body(offset) == ParsePoints(ParseHeader(offset).header, ParseHeader(offset).at)

Found(offset) == ParseHeader(offset).fault = "none" /\ Body(offset).fault = "none"

ObjectAt(offset) == [header |-> ParseHeader(offset).header, points |-> Body(offset).points]

LEMMA ObjectOctetsAre ==
  ASSUME NEW o, GoodObject(o)
  PROVE  /\ HeaderOctets(o.header) \in Seq(Octet) /\ SerializePoints(o) \in Seq(Octet)
         /\ ObjectOctets(o) \in Seq(Octet)
         /\ Len(ObjectOctets(o)) = Len(HeaderOctets(o.header)) + Len(SerializePoints(o))
         /\ Len(HeaderOctets(o.header)) \in Nat /\ Len(SerializePoints(o)) \in Nat
         /\ Len(ObjectOctets(o)) >= 3
<1>1. PICK h \in AnyHeader : h = o.header
  BY DEF GoodObject
<1>2. HeaderOctets(h) \in Seq(Octet) /\ Len(HeaderOctets(h)) >= 3
  BY HeaderOctetsAre DEF AnyHeader
<1>3. SerializePoints(o) \in Seq(Octet)
  BY SerializePointsAre
<1>4. PICK s \in Seq(Octet), t \in Seq(Octet) : s = HeaderOctets(o.header) /\ t = SerializePoints(o)
  BY <1>1, <1>2, <1>3
<1>5. s \o t \in Seq(Octet) /\ Len(s \o t) = Len(s) + Len(t) /\ Len(s) \in Nat /\ Len(t) \in Nat
  BY ConcatOctets
<1>6. QED
  BY <1>1, <1>2, <1>4, <1>5 DEF ObjectOctets

LEMMA ParsedHeaderIs ==
  ASSUME data \in Seq(Octet), NEW offset \in 0 .. Len(data)
  PROVE  /\ ParseHeader(offset).fault \in {"none", "refused", "escaped"}
         /\ ParseHeader(offset).fault = "none" =>
              /\ ParseHeader(offset).header \in AnyHeader
              /\ ParseHeader(offset).at \in 0 .. Len(data)
              /\ Announces(ParseHeader(offset).header)
<1>1. PICK x : x = ParseHeader(offset) /\ HeadIs(x, offset)
  BY ParseHeaderIs
<1>2. ASSUME x.fault = "none" PROVE x.header \in AnyHeader
  <2>1. \E g, v, q, a, b, c : x.header = [group |-> g, var |-> v, qual |-> q,
                                          start |-> a, stop |-> b, count |-> c]
    <3>1. PICK fixed : fixed = ReadAll(offset, <<"uint8", "uint8", "uint8">>)
      OBVIOUS
    <3>2. PICK r : r = ReadAll(fixed.at, RangeTypes(fixed.values[3]))
      OBVIOUS
    <3>3. PICK header :
            /\ \E g, v, q, a, b, c : header = [group |-> g, var |-> v, qual |-> q,
                                               start |-> a, stop |-> b, count |-> c]
            /\ x = IF fixed.fault # "none" \/ fixed.values[3] \notin Qualifiers
                   THEN [fault |-> "refused", at |-> offset]
                   ELSE IF r.fault # "none" THEN [fault |-> r.fault, at |-> offset]
                   ELSE [fault |-> "none", at |-> r.at, header |-> header]
      BY ZenonT(40), <1>1, <3>1, <3>2 DEF ParseHeader
    <3>4. CASE fixed.fault # "none" \/ fixed.values[3] \notin Qualifiers
      BY <1>2, <3>3, <3>4
    <3>5. CASE ~(fixed.fault # "none" \/ fixed.values[3] \notin Qualifiers) /\ r.fault # "none"
      BY <1>2, <3>3, <3>5
    <3>6. CASE ~(fixed.fault # "none" \/ fixed.values[3] \notin Qualifiers) /\ r.fault = "none"
      <4>1. x.header = header
        BY <3>3, <3>6
      <4>2. QED
        BY <3>3, <4>1
    <3>7. QED
      BY <3>4, <3>5, <3>6
  <2>2. Announces(x.header)
    BY <1>1, <1>2 DEF HeadIs
  <2>3. QED
    BY <2>1, <2>2 DEF Announces, AnyHeader
<1>3. QED
  BY <1>1, <1>2 DEF HeadIs

LEMMA BodyType ==
  ASSUME data \in Seq(Octet), NEW offset \in 0 .. Len(data), ParseHeader(offset).fault = "none"
  PROVE  Body(offset).at \in 0 .. Len(data) /\ Body(offset).fault \in {"none", "refused", "escaped"}
<1>1. PICK h \in AnyHeader, here \in 0 .. Len(data) :
        h = ParseHeader(offset).header /\ here = ParseHeader(offset).at
  BY ParsedHeaderIs
<1>2. PICK x : x = Body(offset) /\ x = ParsePoints(h, here)
  BY <1>1 DEF Body
<1>3. QED
  BY <1>2, ParsePointsType

\* Where an object that fits was written, that object is read.
LEMMA ObjectBack ==
  ASSUME data \in Seq(Octet), NEW offset \in 0 .. Len(data), NEW o, GoodObject(o),
         HeaderFits(o.header), PointsFit(o), Agrees(offset, ObjectOctets(o))
  PROVE  /\ offset + Len(ObjectOctets(o)) <= Len(data) => Found(offset)
         /\ Found(offset) => /\ ObjectAt(offset) = o
                             /\ Body(offset).at = offset + Len(ObjectOctets(o))
<1>1. PICK h \in AnyHeader : h = o.header
  BY DEF GoodObject
<1>2. PICK s \in Seq(Octet), t \in Seq(Octet) :
        /\ s = HeaderOctets(h) /\ t = SerializePoints(o) /\ ObjectOctets(o) = s \o t
        /\ Len(ObjectOctets(o)) = Len(s) + Len(t) /\ Len(s) \in Nat /\ Len(t) \in Nat
  BY <1>1, ObjectOctetsAre DEF ObjectOctets
<1>3. offset \in Nat /\ Len(data) \in Nat
  BY LenProperties
<1>4. Agrees(offset, s) /\ Agrees(offset + Len(s), t)
  BY <1>2, <1>3, AgreesConcat
<1>5. Announces(h) /\ (RangeTypes(h.qual) # <<>> => WritesRange(h.qual))
  BY <1>1 DEF HeaderFits, Announces, AnyHeader
<1>6. PICK head : head = ParseHeader(offset)
  OBVIOUS
<1>7. /\ offset + Len(s) <= Len(data) => head.fault = "none"
      /\ head.fault = "none" => head.header = h /\ head.at = offset + Len(s)
  BY <1>2, <1>4, <1>5, <1>6, ParseHeaderBack
<1>8. PICK body : body = Body(offset)
  OBVIOUS
<1>9. ASSUME head.fault = "none" PROVE Recovers(body, offset + Len(s), t, o.points)
  <2>1. body = ParsePoints(o.header, offset + Len(s))
    BY <1>1, <1>6, <1>7, <1>8, <1>9 DEF Body
  <2>2. PICK k \in 0 .. Len(data) : k = offset + Len(s)
    BY <1>6, <1>7, <1>9, ParsedHeaderIs
  <2>3. QED
    BY <1>2, <1>4, <2>1, <2>2, PointsBack
<1>10. ASSUME offset + Len(ObjectOctets(o)) <= Len(data) PROVE Found(offset)
  <2>1. PICK k \in Nat, m \in Nat, n \in Nat, d \in Nat :
          k = offset /\ m = Len(s) /\ n = Len(t) /\ d = Len(data)
    BY <1>2, <1>3
  <2>2. k + (m + n) <= d
    BY <1>2, <1>10, <2>1
  <2>3. k + m <= d /\ (k + m) + n <= d
    BY <2>2
  <2>4. head.fault = "none"
    BY <1>7, <2>1, <2>3
  <2>5. body.fault = "none"
    BY <1>9, <2>1, <2>3, <2>4 DEF Recovers
  <2>6. QED
    BY <1>6, <1>8, <2>4, <2>5 DEF Found
<1>11. ASSUME Found(offset)
       PROVE  ObjectAt(offset) = o /\ Body(offset).at = offset + Len(ObjectOctets(o))
  <2>1. head.fault = "none" /\ body.fault = "none"
    BY <1>6, <1>8, <1>11 DEF Found
  <2>2. head.header = h /\ body.points = o.points /\ body.at = (offset + Len(s)) + Len(t)
    BY <1>7, <1>9, <2>1 DEF Recovers
  <2>3. (offset + Len(s)) + Len(t) = offset + (Len(s) + Len(t))
    BY <1>2, <1>3
  <2>4. o = [header |-> o.header, points |-> o.points]
    BY DEF GoodObject
  <2>5. ObjectAt(offset) = [header |-> head.header, points |-> body.points]
    BY <1>6, <1>8 DEF ObjectAt
  <2>6. ObjectAt(offset) = o
    BY <1>1, <2>2, <2>4, <2>5
  <2>7. QED
    BY <1>2, <1>8, <2>2, <2>3, <2>6
<1>12. QED
  BY <1>10, <1>11

\* An object that was read takes at least the octets it is written as; if it
\* takes those, it fits.
LEMMA ObjectFits ==
  ASSUME data \in Seq(Octet), NEW offset \in 0 .. Len(data), NEW o, GoodObject(o),
         Found(offset), ObjectAt(offset) = o
  PROVE  /\ Body(offset).at >= offset + Len(ObjectOctets(o))
         /\ Body(offset).at = offset + Len(ObjectOctets(o)) /\ Agrees(offset, ObjectOctets(o)) =>
              HeaderFits(o.header) /\ PointsFit(o)
<1>1. PICK h \in AnyHeader : h = o.header
  BY DEF GoodObject
<1>2. PICK s \in Seq(Octet), t \in Seq(Octet) :
        /\ s = HeaderOctets(h) /\ t = SerializePoints(o) /\ ObjectOctets(o) = s \o t
        /\ Len(ObjectOctets(o)) = Len(s) + Len(t) /\ Len(s) \in Nat /\ Len(t) \in Nat
  BY <1>1, ObjectOctetsAre DEF ObjectOctets
<1>3. offset \in Nat /\ Len(data) \in Nat
  BY LenProperties
<1>4. PICK head, body : /\ head = ParseHeader(offset) /\ body = Body(offset)
                        /\ head.fault = "none" /\ body.fault = "none"
                        /\ head.header = h /\ body.points = o.points
  BY <1>1 DEF Found, ObjectAt
<1>5. HeadIs(head, offset)
  BY <1>4, ParseHeaderIs
<1>6. PICK k \in 0 .. Len(data) :
        k = head.at /\ k = offset + Size(Fixed) + Size(RangeTypes(h.qual)) /\ k \in Nat
  BY <1>3, <1>4, <1>5 DEF HeadIs
<1>7. body = ParsePoints(o.header, k)
  BY <1>1, <1>4, <1>6 DEF Body
<1>8. /\ body.at >= k + Len(t)
      /\ body.at = k + Len(t) /\ Agrees(k, t) => PointsFit(o)
  BY <1>2, <1>4, <1>7, PointsFitBack
<1>9. PICK m \in Nat, n \in Nat : m = Size(Fixed) /\ n = Size(RangeTypes(h.qual))
  <2>1. RangeTypes(h.qual) \in Seq(Types)
    BY RangeTypesAre
  <2>2. QED
    BY <2>1, FixedTypes, SizeAtLeast
<1>10. /\ Len(s) <= m + n
       /\ Len(s) = m + n => (RangeTypes(h.qual) # <<>> => WritesRange(h.qual))
  <2>1. /\ Len(s) <= Size(Fixed) + Size(RangeTypes(h.qual))
        /\ ~(RangeTypes(h.qual) # <<>> => WritesRange(h.qual)) =>
             Len(s) < Size(Fixed) + Size(RangeTypes(h.qual))
    BY <1>2, HeaderOctetsAre DEF AnyHeader
  <2>2. QED
    BY <1>2, <1>9, <2>1
<1>11. PICK a \in Nat, b \in Nat, p \in Nat : a = Len(s) /\ b = Len(t) /\ p = offset
  BY <1>2, <1>3
<1>12. PICK e \in Nat : e = body.at
  <2>1. body.at \in 0 .. Len(data)
    BY <1>4, BodyType
  <2>2. QED
    BY <1>3, <2>1
<1>13. k = p + m + n /\ a <= m + n /\ e >= k + b
  BY <1>6, <1>8, <1>9, <1>10, <1>11, <1>12
<1>14. e >= p + (a + b) /\ (e = p + (a + b) => a = m + n /\ e = k + b /\ k = p + a)
  BY <1>13
<1>15. Body(offset).at >= offset + Len(ObjectOctets(o))
  BY <1>2, <1>4, <1>11, <1>12, <1>14
<1>16. ASSUME Body(offset).at = offset + Len(ObjectOctets(o)), Agrees(offset, ObjectOctets(o))
       PROVE  HeaderFits(o.header) /\ PointsFit(o)
  <2>1. e = p + (a + b)
    BY <1>2, <1>4, <1>11, <1>12, <1>16
  <2>2. a = m + n /\ e = k + b /\ k = p + a
    BY <1>14, <2>1
  <2>3. RangeTypes(h.qual) # <<>> => WritesRange(h.qual)
    BY <1>10, <1>11, <2>2
  <2>4. Announces(h)
    BY <1>4, <1>5 DEF HeadIs
  <2>5. HeaderFits(h)
    BY <2>3, <2>4 DEF HeaderFits, Announces
  <2>6. Agrees(offset + Len(s), t)
    BY <1>2, <1>3, <1>16, AgreesConcat
  <2>7. Agrees(k, t) /\ body.at = k + Len(t)
    BY <1>11, <1>12, <2>2, <2>6
  <2>8. QED
    BY <1>1, <1>8, <2>5, <2>7
<1>17. QED
  BY <1>15, <1>16

-----------------------------------------------------------------------------
(* Messages *)

\* A message as MessageAssumption says they are.
GoodMessage(m) ==
  /\ m.fc \in FunctionCodes /\ m.seq \in Nat /\ m.con \in BOOLEAN /\ m.uns \in BOOLEAN
  /\ m.iin \in {<<>>} \cup (Octet \X Octet)
  /\ m.iin = <<>> <=> ~IsResponse(m.fc)
  /\ m = [fc |-> m.fc, seq |-> m.seq, con |-> m.con, uns |-> m.uns, iin |-> m.iin,
          objects |-> m.objects]
  /\ m.objects \in Seq(ToSet(m.objects))
  /\ \A k \in 1 .. Len(m.objects) : GoodObject(m.objects[k])

LEMMA ObjectIsGood ==
  ASSUME NEW o, o.header.group \in Octet, o \in ObjectsOf(o.header.group),
         \A p \in ToSet(o.points) : IsPoint(o.header.group, p)
  PROVE  GoodObject(o)
<1>1. o.header \in Headers(o.header.group) /\ o = [header |-> o.header, points |-> o.points]
  BY DEF ObjectsOf
<1>2. o.points \in Seq([Attributes(o.header.group) -> Int \cup {Nothing}])
  BY DEF ObjectsOf
<1>3. o.header \in AnyHeader
  BY <1>1 DEF Headers, AnyHeader
<1>4. ASSUME NEW i \in 1 .. Len(o.points) PROVE GoodPoint(o.header.group, o.points[i])
  <2>1. o.points[i] \in [Attributes(o.header.group) -> Int \cup {Nothing}]
    BY <1>2, <1>4, ElementOfSeq
  <2>2. i \in DOMAIN o.points
    BY <1>2, <1>4, LenProperties
  <2>3. o.points[i] \in ToSet(o.points)
    BY <2>2 DEF ToSet
  <2>4. QED
    BY <2>1, <2>3 DEF GoodPoint
<1>5. QED
  BY <1>1, <1>2, <1>3, <1>4 DEF GoodObject, GoodPoints

LEMMA MessageIsGood == \A m \in Message : GoodMessage(m)
<1> SUFFICES ASSUME NEW m \in Message PROVE GoodMessage(m)
  OBVIOUS
<1>1. /\ m \in MessagesOf(ToSet(m.objects))
      /\ m.iin = <<>> <=> ~IsResponse(m.fc)
      /\ \A o \in ToSet(m.objects) :
           /\ o.header.group \in Octet /\ o \in ObjectsOf(o.header.group)
           /\ \A p \in ToSet(o.points) : IsPoint(o.header.group, p)
  BY MessageAssumption
<1>2. PICK S : S = ToSet(m.objects)
  OBVIOUS
<1>3. /\ m.fc \in FunctionCodes /\ m.seq \in Nat /\ m.con \in BOOLEAN /\ m.uns \in BOOLEAN
      /\ m.iin \in {<<>>} \cup (Octet \X Octet) /\ m.objects \in Seq(S)
      /\ m = [fc |-> m.fc, seq |-> m.seq, con |-> m.con, uns |-> m.uns, iin |-> m.iin,
              objects |-> m.objects]
  BY <1>1, <1>2 DEF MessagesOf
<1>4. ASSUME NEW k \in 1 .. Len(m.objects) PROVE GoodObject(m.objects[k])
  <2>1. k \in DOMAIN m.objects
    BY <1>3, <1>4, LenProperties
  <2>2. m.objects[k] \in ToSet(m.objects)
    BY <2>1 DEF ToSet
  <2>3. QED
    BY <1>1, <2>2, ObjectIsGood
<1>5. QED
  BY <1>1, <1>2, <1>3, <1>4 DEF GoodMessage

\* What fits is written.
LEMMA FittingSerializable ==
  ASSUME NEW o, GoodObject(o), PointsFit(o)
  PROVE  Serializable(o)
<1>1. PICK h : h = o.header
  OBVIOUS
<1>2. ASSUME h.group \in Written, NEW i \in 1 .. Len(o.points),
             NEW j \in 1 .. Len(WriteFields(h))
      PROVE  Writable(FieldValue(o.points[i], WriteFields(h)[j].name), WriteFields(h)[j].type)
  <2>1. CASE h.count # 0 /\ Known(h.group, h.var)
    <3>1. h.group \in Handled /\ h.group # 60
      BY <1>2 DEF Written
    <3>2. \A k \in 1 .. Len(o.points) : PointFits(h, k, o.points[k])
      BY <1>1, <2>1, <3>1 DEF PointsFit
    <3>3. PointFits(h, i, o.points[i])
      BY <1>2, <3>2
    <3>4. InWidth(FieldValue(o.points[i], WriteFields(h)[j].name), WriteFields(h)[j].type)
      BY <1>2, <3>3 DEF PointFits
    <3>5. QED
      BY <3>4 DEF Writable
  <2>2. CASE h.count = 0 \/ ~Known(h.group, h.var)
    <3>1. h.group \in Handled /\ h.group # 60
      BY <1>2 DEF Written
    <3>2. o.points = <<>>
      BY <1>1, <2>2, <3>1 DEF PointsFit
    <3>3. QED
      BY <1>2, <3>2
  <2>3. QED
    BY <2>1, <2>2
<1>3. QED
  BY <1>1, <1>2 DEF Serializable, Written

\* What is written before the objects.
HeadOctets(m) == <<Control(m), m.fc>> \o m.iin

\* What is written with the first k objects of a message.
Part(m) ==
  LET part[k \in 0 .. Len(m.objects)] ==
        IF k = 0 THEN HeadOctets(m) ELSE part[k - 1] \o ObjectOctets(m.objects[k])
  IN part

Whole(m) == Part(m)[Len(m.objects)]

LEMMA ControlIs ==
  ASSUME NEW m, GoodMessage(m)
  PROVE  /\ Control(m) \in Octet /\ Control(m) % 16 = m.seq % 16 /\ m.seq % 16 \in 0 .. 15
         /\ (Control(m) \div 32) % 2 = 1 <=> m.con
         /\ (Control(m) \div 16) % 2 = 1 <=> m.uns
<1>1. PICK c \in {0, 32}, u \in {0, 16}, s \in 0 .. 15 :
        /\ Control(m) = 192 + c + u + s /\ s = m.seq % 16
        /\ c = 32 <=> m.con
        /\ u = 16 <=> m.uns
  <2>1. m.seq % 16 \in 0 .. 15
    BY SMTT(30) DEF GoodMessage
  <2>2. PICK c : c = IF m.con THEN 32 ELSE 0
    OBVIOUS
  <2>3. PICK u : u = IF m.uns THEN 16 ELSE 0
    OBVIOUS
  <2>4. c \in {0, 32} /\ u \in {0, 16} /\ (c = 32 <=> m.con) /\ (u = 16 <=> m.uns)
    BY <2>2, <2>3
  <2>5. Control(m) = 192 + c + u + (m.seq % 16)
    BY <2>2, <2>3 DEF Control
  <2>6. QED
    BY <2>1, <2>4, <2>5
<1>2. \A n \in 0 .. 31 : (192 + n) % 16 = n % 16 /\ (224 + n) % 16 = n % 16
  OBVIOUS
<1>3. /\ 192 + c + u + s \in Octet /\ (192 + c + u + s) % 16 = s
      /\ (192 + c + u + s) \div 32 = (IF c = 32 THEN 7 ELSE 6)
      /\ (192 + c + u + s) \div 16 = (IF c = 32 THEN 14 ELSE 12) + (IF u = 16 THEN 1 ELSE 0)
  BY DEF Octet
<1>4. QED
  BY <1>1, <1>3

LEMMA HeadOctetsAre ==
  ASSUME NEW m, GoodMessage(m)
  PROVE  /\ HeadOctets(m) \in Seq(Octet)
         /\ Len(HeadOctets(m)) = IF IsResponse(m.fc) THEN 4 ELSE 2
         /\ HeadOctets(m)[1] = Control(m) /\ HeadOctets(m)[2] = m.fc
         /\ IsResponse(m.fc) => m.iin = <<HeadOctets(m)[3], HeadOctets(m)[4]>>
<1>1. Control(m) \in Octet /\ m.fc \in Octet
  <2>1. Control(m) \in Octet
    BY ControlIs
  <2>2. m.fc \in FunctionCodes
    BY DEF GoodMessage
  <2>3. QED
    BY <2>1, <2>2 DEF FunctionCodes, Octet
<1>2. <<Control(m), m.fc>> \in Seq(Octet)
  BY <1>1
<1>3. CASE IsResponse(m.fc)
  <2>1. PICK a \in Octet, b \in Octet : m.iin = <<a, b>>
    BY <1>3 DEF GoodMessage
  <2>2. PICK s \in Seq(Octet) : s = <<Control(m), m.fc>>
    BY <1>2
  <2>3. PICK t \in Seq(Octet) : t = <<a, b>>
    <3>1. <<a, b>> \in Seq(Octet)
      OBVIOUS
    <3>2. QED
      BY <3>1
  <2>4. Len(s) = 2 /\ Len(t) = 2 /\ s[1] = Control(m) /\ s[2] = m.fc /\ t[1] = a /\ t[2] = b
    BY <2>2, <2>3
  <2>5. HeadOctets(m) = s \o t
    BY <2>1, <2>2, <2>3 DEF HeadOctets
  <2>6. /\ s \o t \in Seq(Octet) /\ Len(s \o t) = Len(s) + Len(t)
        /\ \A i \in 1 .. Len(s) + Len(t) : (s \o t)[i] = IF i <= Len(s) THEN s[i] ELSE t[i - Len(s)]
    BY ConcatProperties
  <2>7. /\ Len(s \o t) = 4 /\ (s \o t)[1] = s[1] /\ (s \o t)[2] = s[2]
        /\ (s \o t)[3] = t[1] /\ (s \o t)[4] = t[2]
    BY <2>4, <2>6
  <2>8. QED
    BY <1>3, <2>1, <2>4, <2>5, <2>6, <2>7
<1>4. CASE ~IsResponse(m.fc)
  <2>1. m.iin = <<>>
    BY <1>4 DEF GoodMessage
  <2>2. HeadOctets(m) = <<Control(m), m.fc>>
    BY <1>2, <2>1, ConcatEmptySeq DEF HeadOctets
  <2>3. QED
    BY <1>1, <1>4, <2>2
<1>5. QED
  BY <1>3, <1>4

\* f has the parts of a message.
Parts(f, m) ==
  /\ f \in [0 .. Len(m.objects) -> Seq(Octet)]
  /\ f[0] = HeadOctets(m)
  /\ \A k \in 1 .. Len(m.objects) : f[k] = f[k - 1] \o ObjectOctets(m.objects[k])

LEMMA PartsExist ==
  ASSUME NEW m, GoodMessage(m)
  PROVE  \E f : Parts(f, m)
<1>1. PICK n \in Nat : n = Len(m.objects)
  BY LenProperties DEF GoodMessage
<1> DEFINE step == [k \in Nat |-> [s \in Seq(Octet) |->
                      s \o (IF k \in 1 .. n THEN ObjectOctets(m.objects[k]) ELSE <<>>)]]
<1>2. ASSUME NEW k \in 1 .. n PROVE ObjectOctets(m.objects[k]) \in Seq(Octet)
  BY <1>1, ObjectOctetsAre DEF GoodMessage
<1>3. ASSUME NEW k \in Nat, NEW s \in Seq(Octet)
      PROVE  s \o (IF k \in 1 .. n THEN ObjectOctets(m.objects[k]) ELSE <<>>) \in Seq(Octet)
  <2>1. PICK t \in Seq(Octet) : t = IF k \in 1 .. n THEN ObjectOctets(m.objects[k]) ELSE <<>>
    BY <1>2, EmptySeq
  <2>2. QED
    BY <2>1, ConcatOctets
<1>4. step \in [Nat -> [Seq(Octet) -> Seq(Octet)]]
  BY <1>3
<1>5. ASSUME NEW k \in 1 .. n, NEW s \in Seq(Octet)
      PROVE  step[k][s] = s \o ObjectOctets(m.objects[k])
  OBVIOUS
<1> HIDE DEF step
<1>6. PICK f \in [0 .. n -> Seq(Octet)] : Steps(f, HeadOctets(m), step, n)
  BY <1>4, HeadOctetsAre, RecursionExists
<1>7. f[0] = HeadOctets(m) /\ \A k \in 1 .. n : f[k] = step[k][f[k - 1]]
  BY <1>6 DEF Steps
<1>8. ASSUME NEW k \in 1 .. n PROVE f[k] = f[k - 1] \o ObjectOctets(m.objects[k])
  <2>1. f[k - 1] \in Seq(Octet)
    BY <1>6
  <2>2. QED
    BY <1>5, <1>7, <2>1
<1>9. QED
  BY <1>1, <1>6, <1>7, <1>8 DEF Parts

LEMMA PartIs ==
  ASSUME NEW m, GoodMessage(m)
  PROVE  Parts(Part(m), m)
<1>1. PICK n \in Nat : n = Len(m.objects)
  BY LenProperties DEF GoodMessage
<1> DEFINE Recursive(f) == f = [k \in 0 .. n |-> IF k = 0 THEN HeadOctets(m)
                                                 ELSE f[k - 1] \o ObjectOctets(m.objects[k])]
           part == CHOOSE f : Recursive(f)
<1>2. PICK f : Parts(f, m)
  BY PartsExist
<1>3. f \in [0 .. n -> Seq(Octet)]
  BY <1>1, <1>2 DEF Parts
<1>4. Recursive(f)
  <2>1. f[0] = HeadOctets(m)
    BY <1>2 DEF Parts
  <2>2. \A k \in 1 .. n : f[k] = f[k - 1] \o ObjectOctets(m.objects[k])
    BY <1>1, <1>2 DEF Parts
  <2>3. ASSUME NEW k \in 0 .. n
        PROVE  f[k] = IF k = 0 THEN HeadOctets(m) ELSE f[k - 1] \o ObjectOctets(m.objects[k])
    <3>1. k = 0 \/ k \in 1 .. n
      OBVIOUS
    <3>2. QED
      BY <2>1, <2>2, <3>1
  <2>4. QED
    BY <1>3, <2>3
<1>5. Recursive(part)
  BY <1>4
<1>6. Part(m) = part
  BY <1>1 DEF Part
<1> HIDE DEF part
<1>7. /\ part[0] = HeadOctets(m)
      /\ \A k \in 1 .. n : part[k] = part[k - 1] \o ObjectOctets(m.objects[k])
  <2>1. \A k \in 0 .. n : part[k] = IF k = 0 THEN HeadOctets(m)
                                    ELSE part[k - 1] \o ObjectOctets(m.objects[k])
    BY <1>5
  <2>2. 0 \in 0 .. n /\ \A k \in 1 .. n : k \in 0 .. n /\ k # 0
    OBVIOUS
  <2>3. QED
    BY <2>1, <2>2
<1> DEFINE P == {k \in 0 .. n : part[k] \in Seq(Octet)}
<1>8. 0 \in P
  BY <1>7, HeadOctetsAre
<1>9. ASSUME NEW k \in 1 .. n, k - 1 \in P PROVE k \in P
  <2>1. PICK s \in Seq(Octet) : s = part[k - 1]
    BY <1>9
  <2>2. PICK t \in Seq(Octet) : t = ObjectOctets(m.objects[k])
    BY <1>1, ObjectOctetsAre DEF GoodMessage
  <2>3. part[k] = s \o t
    BY <1>7, <2>1, <2>2
  <2>4. s \o t \in Seq(Octet)
    BY ConcatOctets
  <2>5. part[k] \in Seq(Octet)
    BY <2>3, <2>4
  <2>6. QED
    BY <2>5
<1> HIDE DEF P
<1>10. \A k \in 0 .. n : k \in P
  BY <1>8, <1>9, InductionUpTo
<1>11. part \in [0 .. n -> Seq(Octet)]
  BY <1>5, <1>10 DEF P
<1>12. Parts(part, m)
  BY <1>1, <1>7, <1>11 DEF Parts
<1>13. QED
  BY <1>6, <1>12

\* The octets of a message after k of its objects.
Stands(m, k) ==
  /\ Part(m)[k] \in Seq(Octet) /\ Len(Part(m)[k]) \in Nat
  /\ Begins(Part(m)[k], Whole(m))
  /\ k < Len(m.objects) =>
       /\ Part(m)[k + 1] = Part(m)[k] \o ObjectOctets(m.objects[k + 1])
       /\ Len(Part(m)[k + 1]) = Len(Part(m)[k]) + Len(ObjectOctets(m.objects[k + 1]))
       /\ Len(Part(m)[k]) < Len(Whole(m))

LEMMA PartStands ==
  ASSUME NEW m, GoodMessage(m)
  PROVE  \A k \in 0 .. Len(m.objects) : Stands(m, k)
<1>0. PICK n \in Nat : n = Len(m.objects)
  BY LenProperties DEF GoodMessage
<1>1. PICK f : n = Len(m.objects) /\ f = Part(m)
  BY <1>0
<1> DEFINE ss == [k \in 1 .. n |-> ObjectOctets(m.objects[k])]
<1>2. ASSUME NEW k \in 1 .. n
      PROVE  ObjectOctets(m.objects[k]) \in Seq(Octet) /\ Len(ObjectOctets(m.objects[k])) >= 3
  BY <1>1, ObjectOctetsAre DEF GoodMessage
<1>3. \A k \in 1 .. n : ss[k] = ObjectOctets(m.objects[k])
  OBVIOUS
<1> HIDE DEF ss
<1>4. /\ f \in [0 .. n -> Seq(Octet)]
      /\ \A k \in 1 .. n : f[k] = f[k - 1] \o ObjectOctets(m.objects[k])
  BY <1>1, PartIs DEF Parts
<1>5. Grows(f, ss, n, Octet)
  BY <1>3, <1>4 DEF Grows
<1>6. \A k \in 0 .. n : Begins(f[k], f[n])
  BY <1>2, <1>3, <1>5, GrowsBegin
<1>7. ASSUME NEW k \in 0 .. n PROVE f[k] \in Seq(Octet) /\ Len(f[k]) \in Nat
  BY <1>4, LenProperties
<1>8. ASSUME NEW k \in 0 .. n - 1
      PROVE  /\ f[k + 1] = f[k] \o ObjectOctets(m.objects[k + 1])
             /\ Len(f[k + 1]) = Len(f[k]) + Len(ObjectOctets(m.objects[k + 1]))
             /\ Len(f[k]) < Len(f[n])
  <2>1. PICK j \in 1 .. n : j = k + 1 /\ j - 1 = k
    OBVIOUS
  <2>2. f[j] = f[k] \o ObjectOctets(m.objects[j])
    BY <1>4, <2>1
  <2>3. PICK s \in Seq(Octet), t \in Seq(Octet) : s = f[k] /\ t = ObjectOctets(m.objects[j])
    BY <1>2, <1>7
  <2>4. Len(s \o t) = Len(s) + Len(t) /\ Len(s) \in Nat /\ Len(t) \in Nat
    BY ConcatOctets
  <2>5. Len(t) >= 3
    BY <1>2, <2>3
  <2>6. j \in 0 .. n /\ n \in 0 .. n
    OBVIOUS
  <2>7. Len(f[j]) <= Len(f[n]) /\ Len(f[n]) \in Nat /\ Len(f[j]) \in Nat
    BY <1>6, <1>7, <2>6 DEF Begins
  <2>8. Len(f[j]) = Len(s) + Len(t)
    BY <2>2, <2>3, <2>4
  <2>9. Len(s) < Len(f[n])
    BY <2>4, <2>5, <2>7, <2>8
  <2>10. QED
    BY <2>1, <2>2, <2>3, <2>8, <2>9
<1>9. Whole(m) = f[n]
  BY <1>1 DEF Whole
<1>10. ASSUME NEW k \in 0 .. n PROVE Stands(m, k)
  <2>1. f[k] \in Seq(Octet) /\ Len(f[k]) \in Nat /\ Begins(f[k], Whole(m))
    BY <1>6, <1>7, <1>9
  <2>2. CASE k = n
    <3>1. ~(k < Len(m.objects))
      BY <1>1, <2>2
    <3>2. QED
      BY <1>1, <2>1, <3>1 DEF Stands
  <2>3. CASE k # n
    <3>1. k \in 0 .. n - 1
      BY <2>3
    <3>2. QED
      BY <1>1, <1>8, <1>9, <2>1, <3>1 DEF Stands
  <2>4. QED
    BY <2>2, <2>3
<1>11. QED
  BY <1>1, <1>10

-----------------------------------------------------------------------------
(* The inductive invariant *)

\* The first k objects parsed are those of the message.
Matches(m, k) == k <= Len(m.objects) /\ \A i \in 1 .. k : parsed.objects[i] = m.objects[i]

FirstFit(m, k) ==
  \A i \in 1 .. k : HeaderFits(m.objects[i].header) /\ PointsFit(m.objects[i])

ParsedShape ==
  /\ parsed = [fc |-> parsed.fc, seq |-> parsed.seq, con |-> parsed.con, uns |-> parsed.uns,
               iin |-> parsed.iin, objects |-> parsed.objects]
  /\ parsed.seq \in 0 .. 15
  /\ parsed.objects \in Seq(ToSet(parsed.objects))

Building(m) ==
  /\ ~cut /\ at = 0
  /\ \/ data = <<>> /\ written = 0
     \/ data # <<>> /\ data = Part(m)[written] /\ written \in 0 .. Len(m.objects)

Received(m) == Begins(data, Whole(m)) /\ (~cut => data = Whole(m))

\* After k objects a parser of a message that fits is where they end; no parser
\* that found the first k objects is before that, and if it is there they fit.
Progress(m, k) ==
  /\ parsed = [m EXCEPT !.seq = m.seq % 16, !.objects = parsed.objects]
  /\ Fits(m) => Matches(m, k) /\ at = Len(Part(m)[k])
  /\ Matches(m, k) => /\ at >= Len(Part(m)[k])
                      /\ at = Len(Part(m)[k]) => FirstFit(m, k)

OfMessage(m) ==
  /\ phase = "build" => Building(m)
  /\ phase \in {"header", "objects", "parsed", "refused", "escaped"} => Received(m)
  /\ phase \in {"objects", "parsed"} => Progress(m, Len(parsed.objects))
  /\ phase = "parsed" => at = Len(data)
  /\ phase = "unbuilt" \/ (phase \in {"refused", "escaped"} /\ ~cut) => ~Fits(m)

CodecInv ==
  /\ CodecTypeOK
  /\ phase = "build" => message # Nothing
  /\ phase \in {"objects", "parsed"} => ParsedShape
  /\ message # Nothing => OfMessage(message)

LEMMA InitInv == CodecInit => CodecInv
<1> SUFFICES ASSUME CodecInit PROVE CodecInv
  OBVIOUS
<1>1. Len(<<>>) = 0 /\ <<>> \in Seq(Octet)
  BY EmptySeq
<1>2. CASE message \in Message /\ phase = "build" /\ data = <<>>
  <2>1. message # Nothing
    BY <1>2, NothingAssumption
  <2>2. CodecTypeOK
    <3>1. 0 \in 0 .. Len(data) /\ data \in Seq(Octet)
      BY <1>1, <1>2
    <3>2. QED
      BY <1>2, <3>1 DEF CodecInit, CodecTypeOK
  <2>3. OfMessage(message)
    BY <1>2 DEF CodecInit, OfMessage, Building
  <2>4. QED
    BY <1>2, <2>1, <2>2, <2>3 DEF CodecInv
<1>3. CASE message = Nothing /\ phase = "header" /\ data \in Foreign
  <2>1. data \in Seq(Octet)
    BY <1>3, ForeignAssumption
  <2>2. Len(data) \in Nat
    BY <2>1, LenProperties
  <2>3. 0 \in 0 .. Len(data)
    BY <2>2
  <2>4. CodecTypeOK
    BY <1>3, <2>1, <2>3 DEF CodecInit, CodecTypeOK
  <2>5. QED
    BY <1>3, <2>4 DEF CodecInv
<1>4. QED
  BY <1>2, <1>3 DEF CodecInit

\* While a message is built.
LEMMA BuildingIs ==
  ASSUME CodecInv, phase = "build"
  PROVE  /\ message \in Message /\ GoodMessage(message) /\ Building(message)
         /\ data \in Seq(Octet) /\ at = 0 /\ cut = FALSE
<1>1. message \in Message /\ data \in Seq(Octet) /\ cut \in BOOLEAN
  BY DEF CodecInv, CodecTypeOK
<1>2. Building(message)
  BY DEF CodecInv, OfMessage
<1>3. GoodMessage(message)
  BY <1>1, MessageIsGood
<1>4. QED
  BY <1>1, <1>2, <1>3 DEF Building

\* Building keeps the invariant when it leaves a part of the message.
LEMMA StillBuilding ==
  ASSUME CodecInv, phase = "build", UNCHANGED <<message, phase, cut, at>>,
         data' \in Seq(Octet), data' # <<>>, written' \in 0 .. Len(message.objects),
         data' = Part(message)[written']
  PROVE  CodecInv'
<1>1. message \in Message /\ at = 0 /\ cut = FALSE /\ Len(message.objects) \in Nat
  BY BuildingIs, LenProperties DEF GoodMessage
<1>2. message # Nothing
  BY <1>1, NothingAssumption
<1>3. Len(data') \in Nat
  BY LenProperties
<1>4. CodecTypeOK'
  BY SMTT(30), <1>1, <1>3 DEF CodecInv, CodecTypeOK
<1>5. Building(message)'
  BY <1>1 DEF Building, Part
<1>6. OfMessage(message)'
  BY <1>5 DEF OfMessage
<1>7. QED
  BY <1>2, <1>4, <1>6 DEF CodecInv

LEMMA BuildHeaderInv == CodecInv /\ BuildHeader => CodecInv'
<1> SUFFICES ASSUME CodecInv, BuildHeader PROVE CodecInv'
  OBVIOUS
<1>1. phase = "build" /\ GoodMessage(message) /\ Building(message)
  BY BuildingIs DEF BuildHeader
<1>2. written = 0
  BY <1>1 DEF BuildHeader, Building
<1>3. data' = HeadOctets(message)
  BY DEF BuildHeader, HeadOctets
<1>4. /\ data' \in Seq(Octet)
      /\ Len(data') = IF IsResponse(message.fc) THEN 4 ELSE 2
  BY <1>1, <1>3, HeadOctetsAre
<1>5. data' # <<>>
  BY <1>4, EmptySeq
<1>6. Part(message)[0] = HeadOctets(message)
  BY <1>1, PartIs DEF Parts
<1>7. Len(message.objects) \in Nat
  BY <1>1, LenProperties DEF GoodMessage
<1>8. written' = 0 /\ UNCHANGED <<message, phase, cut, at>>
  BY <1>2 DEF BuildHeader
<1>9. QED
  BY <1>1, <1>3, <1>4, <1>5, <1>6, <1>7, <1>8, StillBuilding

LEMMA WriteObjectInv == CodecInv /\ WriteObject => CodecInv'
<1> SUFFICES ASSUME CodecInv, WriteObject PROVE CodecInv'
  OBVIOUS
<1>1. phase = "build" /\ GoodMessage(message) /\ Building(message)
  BY BuildingIs DEF WriteObject
<1>2. PICK n \in Nat, k \in Nat :
        n = Len(message.objects) /\ k = written /\ k < n /\ data = Part(message)[k]
  <2>1. Len(message.objects) \in Nat
    BY <1>1, LenProperties DEF GoodMessage
  <2>2. QED
    BY <1>1, <2>1 DEF WriteObject, Building
<1>3. PICK o : o = message.objects[k + 1] /\ GoodObject(o)
  BY <1>1, <1>2 DEF GoodMessage
<1>4. PICK s \in Seq(Octet), t \in Seq(Octet) : s = HeaderOctets(o.header) /\ t = SerializePoints(o)
  BY <1>3, ObjectOctetsAre
<1>5. data' = data \o s \o t
  BY <1>2, <1>3, <1>4 DEF WriteObject
<1>6. data \in Seq(Octet)
  BY BuildingIs DEF WriteObject
<1>7. data' = data \o (s \o t)
  BY SMTT(30), <1>4, <1>5, <1>6, ConcatAssociative
<1>8. Stands(message, k)
  BY <1>1, <1>2, PartStands
<1>9. s \o t = ObjectOctets(o)
  BY <1>4 DEF ObjectOctets
<1>10. data' = Part(message)[k + 1]
  BY <1>2, <1>3, <1>7, <1>8, <1>9 DEF Stands
<1>11. data' \in Seq(Octet) /\ data' # <<>>
  <2>1. k + 1 \in 0 .. n
    BY <1>2
  <2>2. Stands(message, k + 1)
    BY <1>1, <1>2, <2>1, PartStands
  <2>3. data' \in Seq(Octet)
    BY <1>10, <2>2 DEF Stands
  <2>4. Len(data') = Len(data) + Len(ObjectOctets(o)) /\ Len(data) \in Nat
    BY <1>2, <1>3, <1>8, <1>10 DEF Stands
  <2>5. Len(ObjectOctets(o)) >= 3 /\ Len(ObjectOctets(o)) \in Nat
    BY <1>3, ObjectOctetsAre
  <2>6. Len(data') # 0
    BY <2>4, <2>5
  <2>7. QED
    BY <2>3, <2>6, EmptySeq
<1>12. written' = k + 1 /\ UNCHANGED <<message, phase, cut, at>>
  BY <1>2 DEF WriteObject
<1>13. QED
  BY <1>1, <1>2, <1>10, <1>11, <1>12, StillBuilding

LEMMA FailWriteInv == CodecInv /\ FailWrite => CodecInv'
<1> SUFFICES ASSUME CodecInv, FailWrite PROVE CodecInv'
  OBVIOUS
<1>1. phase = "build" /\ GoodMessage(message) /\ Building(message)
  BY BuildingIs DEF FailWrite
<1>2. PICK n \in Nat, k \in Nat : n = Len(message.objects) /\ k = written /\ k < n
  <2>1. Len(message.objects) \in Nat
    BY <1>1, LenProperties DEF GoodMessage
  <2>2. QED
    BY <2>1 DEF FailWrite, CodecInv, CodecTypeOK
<1>3. PICK o : o = message.objects[k + 1] /\ GoodObject(o) /\ ~Serializable(o)
  BY <1>1, <1>2 DEF GoodMessage, FailWrite
<1>4. ~Fits(message)
  <2>1. SUFFICES ASSUME Fits(message) PROVE FALSE
    OBVIOUS
  <2>2. PointsFit(o)
    BY <1>2, <1>3, <2>1 DEF Fits
  <2>3. QED
    BY <1>3, <2>2, FittingSerializable
<1>5. CodecTypeOK'
  BY DEF CodecInv, CodecTypeOK, FailWrite
<1>6. OfMessage(message)'
  BY <1>4 DEF FailWrite, OfMessage
<1>7. QED
  BY <1>5, <1>6 DEF CodecInv, FailWrite

LEMMA DeliverInv == \A n \in 0 .. Len(data) : CodecInv /\ Deliver(n) => CodecInv'
<1> SUFFICES ASSUME NEW n \in 0 .. Len(data), CodecInv, Deliver(n) PROVE CodecInv'
  OBVIOUS
<1>1. /\ phase = "build" /\ GoodMessage(message) /\ Building(message) /\ data \in Seq(Octet)
      /\ at = 0
  BY BuildingIs DEF Deliver
<1>2. data = Whole(message) /\ Len(data) \in Nat
  BY <1>1, LenProperties DEF Deliver, Building, Whole
<1>3. \A j \in 1 .. n : data[j] \in Octet
  BY <1>1, <1>2, ElementOfSeq
<1>4. /\ SubSeq(data, 1, n) \in Seq(Octet) /\ Len(SubSeq(data, 1, n)) = n
      /\ \A j \in 1 .. n : SubSeq(data, 1, n)[j] = data[j]
  <2>1. /\ SubSeq(data, 1, n) \in Seq(Octet)
        /\ Len(SubSeq(data, 1, n)) = IF 1 <= n THEN n - 1 + 1 ELSE 0
        /\ \A j \in 1 .. n - 1 + 1 : SubSeq(data, 1, n)[j] = data[1 + j - 1]
    BY <1>2, <1>3, SubSeqProperties
  <2>2. n \in Nat /\ \A j \in 1 .. n : j \in 1 .. n - 1 + 1 /\ 1 + j - 1 = j
    BY <1>2
  <2>3. QED
    BY <2>1, <2>2
<1>5. Begins(SubSeq(data, 1, n), data)
  BY <1>2, <1>4 DEF Begins
<1>6. n = Len(data) => SubSeq(data, 1, n) = data
  BY <1>1, SubSeqFull
<1>7. /\ message' = message /\ data' = SubSeq(data, 1, n) /\ cut' = (n < Len(data))
      /\ phase' = "header" /\ written' = written /\ at' = 0
  BY <1>1 DEF Deliver
<1>8. ~cut' => n = Len(data)
  <2>1. n < Len(data) \/ n = Len(data)
    BY <1>2
  <2>2. cut' = (n < Len(data))
    BY <1>7
  <2>3. QED
    BY <2>1, <2>2
<1>9. Received(message)'
  <2>1. Begins(data', Whole(message))
    BY <1>2, <1>5, <1>7
  <2>2. ~cut' => data' = Whole(message)
    BY <1>2, <1>6, <1>7, <1>8
  <2>3. QED
    BY <1>7, <2>1, <2>2 DEF Received
<1>10. CodecTypeOK'
  <2>1. data' \in Seq(Octet) /\ 0 \in 0 .. Len(data') /\ cut' \in BOOLEAN
    BY <1>2, <1>4, <1>7
  <2>2. QED
    BY <1>7, <2>1 DEF CodecInv, CodecTypeOK
<1>11. OfMessage(message)'
  BY <1>7, <1>9 DEF OfMessage
<1>12. QED
  BY <1>7, <1>10, <1>11 DEF CodecInv

\* What is received begins with the octets before the objects.
LEMMA ReceivedHead ==
  ASSUME NEW m, GoodMessage(m), Received(m), data \in Seq(Octet)
  PROVE  /\ Len(data) >= 2 => data[1] = Control(m) /\ data[2] = m.fc
         /\ Len(data) >= 4 /\ IsResponse(m.fc) => m.iin = <<data[3], data[4]>>
         /\ ~cut => Len(data) >= 2 /\ (IsResponse(m.fc) => Len(data) >= 4)
         /\ Len(Part(m)[0]) = IF IsResponse(m.fc) THEN 4 ELSE 2
<1>1. PICK head, w : head = HeadOctets(m) /\ w = Whole(m)
  OBVIOUS
<1>2. PICK h \in {2, 4}, d \in Nat : /\ h = Len(head) /\ d = Len(data)
                                    /\ h = IF IsResponse(m.fc) THEN 4 ELSE 2
  BY <1>1, HeadOctetsAre, LenProperties
<1>3. Part(m)[0] = head
  BY <1>1, PartIs DEF Parts
<1>4. Begins(head, w)
  <2>1. 0 \in 0 .. Len(m.objects)
    BY LenProperties DEF GoodMessage
  <2>2. Stands(m, 0)
    BY <2>1, PartStands
  <2>3. QED
    BY <1>1, <1>3, <2>2 DEF Stands
<1>5. h <= Len(w) /\ \A j \in 1 .. h : w[j] = head[j]
  BY <1>2, <1>4 DEF Begins
<1>6. \A j \in 1 .. d : w[j] = data[j]
  BY <1>1, <1>2 DEF Received, Begins
<1>7. d >= 2 => data[1] = head[1] /\ data[2] = head[2]
  <2>1. d >= 2 => 1 \in 1 .. d /\ 2 \in 1 .. d
    OBVIOUS
  <2>2. 1 \in 1 .. h /\ 2 \in 1 .. h
    BY <1>2
  <2>3. QED
    BY <1>5, <1>6, <2>1, <2>2
<1>8. d >= 4 /\ h = 4 => data[3] = head[3] /\ data[4] = head[4]
  <2>1. d >= 4 => 3 \in 1 .. d /\ 4 \in 1 .. d
    OBVIOUS
  <2>2. h = 4 => 3 \in 1 .. h /\ 4 \in 1 .. h
    OBVIOUS
  <2>3. QED
    BY <1>5, <1>6, <2>1, <2>2
<1>9. ~cut => h <= d
  BY <1>1, <1>2, <1>5 DEF Received
<1>10. /\ head[1] = Control(m) /\ head[2] = m.fc
       /\ IsResponse(m.fc) => m.iin = <<head[3], head[4]>>
  BY <1>1, HeadOctetsAre
<1>11. Len(data) >= 2 => data[1] = Control(m) /\ data[2] = m.fc
  BY <1>2, <1>7, <1>10
<1>12. Len(data) >= 4 /\ IsResponse(m.fc) => m.iin = <<data[3], data[4]>>
  BY <1>2, <1>8, <1>10
<1>13. ~cut => Len(data) >= 2 /\ (IsResponse(m.fc) => Len(data) >= 4)
  <2>1. h >= 2 /\ (IsResponse(m.fc) => h = 4)
    BY <1>2
  <2>2. h <= d => d >= 2 /\ (h = 4 => d >= 4)
    BY <2>1
  <2>3. QED
    BY <1>2, <1>9, <2>1, <2>2
<1>14. Len(Part(m)[0]) = IF IsResponse(m.fc) THEN 4 ELSE 2
  BY <1>2, <1>3
<1>15. QED
  BY <1>11, <1>12, <1>13, <1>14

\* A fragment of a message, while it is parsed.
LEMMA ReceivingIs ==
  ASSUME CodecInv, phase \in {"header", "objects"}
  PROVE  /\ data \in Seq(Octet) /\ Len(data) \in Nat /\ at \in 0 .. Len(data)
         /\ cut \in BOOLEAN /\ written \in Nat /\ message \in Message \cup {Nothing}
         /\ message # Nothing => GoodMessage(message) /\ Received(message)
<1>1. data \in Seq(Octet) /\ cut \in BOOLEAN /\ message \in Message \cup {Nothing}
  BY DEF CodecInv, CodecTypeOK
<1>2. at \in 0 .. Len(data) /\ written \in Nat
  BY DEF CodecInv, CodecTypeOK
<1>3. Len(data) \in Nat
  BY <1>1, LenProperties
<1>4. message # Nothing => GoodMessage(message)
  BY <1>1, MessageIsGood
<1>5. message # Nothing => Received(message)
  BY DEF CodecInv, OfMessage
<1>6. QED
  BY <1>1, <1>2, <1>3, <1>4, <1>5

LEMMA RefuseAppHeaderInv == CodecInv /\ RefuseAppHeader => CodecInv'
<1> SUFFICES ASSUME CodecInv, RefuseAppHeader PROVE CodecInv'
  OBVIOUS
<1>1. phase = "header" /\ phase' = "refused" /\ UNCHANGED <<message, data, written, cut, at, parsed>>
  BY DEF RefuseAppHeader
<1>2. ASSUME message # Nothing PROVE cut
  <2>1. GoodMessage(message) /\ Received(message) /\ data \in Seq(Octet)
    BY <1>1, <1>2, ReceivingIs
  <2>2. message.fc \in FunctionCodes
    BY <2>1 DEF GoodMessage
  <2>3. SUFFICES ASSUME ~cut PROVE HasAppHeader
    BY <1>1 DEF RefuseAppHeader
  <2>4. Len(data) >= 2 /\ (IsResponse(message.fc) => Len(data) >= 4) /\ data[2] = message.fc
    BY <2>1, <2>3, ReceivedHead
  <2>5. QED
    BY <2>2, <2>4 DEF HasAppHeader
<1>3. CodecTypeOK'
  BY <1>1 DEF CodecInv, CodecTypeOK
<1>4. message # Nothing => Received(message)'
  <2>1. message # Nothing => Received(message)
    BY <1>1, ReceivingIs
  <2>2. UNCHANGED <<message, data, written, cut>>
    BY <1>1
  <2>3. Received(message)' = Received(message)
    BY <2>2 DEF Received, Whole, Part
  <2>4. QED
    BY <2>1, <2>3
<1>5. message # Nothing => OfMessage(message)'
  BY <1>1, <1>2, <1>4 DEF OfMessage
<1>6. QED
  BY <1>1, <1>3, <1>5 DEF CodecInv

\* What was read of the header is what was built, but for the sequence number.
LEMMA HeaderParsed ==
  ASSUME NEW m, GoodMessage(m), Received(m), data \in Seq(Octet), HasAppHeader, ParseAppHeader
  PROVE  /\ parsed' = [m EXCEPT !.seq = m.seq % 16, !.objects = <<>>]
         /\ at' = Len(Part(m)[0])
<1>1. /\ Len(data) >= 2 /\ data[1] = Control(m) /\ data[2] = m.fc
      /\ IsResponse(m.fc) => Len(data) >= 4
  BY ReceivedHead DEF HasAppHeader
<1>2. /\ data[1] % 16 = m.seq % 16
      /\ ((data[1] \div 32) % 2 = 1) = m.con /\ ((data[1] \div 16) % 2 = 1) = m.uns
  <2>1. /\ Control(m) % 16 = m.seq % 16
        /\ (Control(m) \div 32) % 2 = 1 <=> m.con
        /\ (Control(m) \div 16) % 2 = 1 <=> m.uns
    BY ControlIs
  <2>2. m.con \in BOOLEAN /\ m.uns \in BOOLEAN
    BY DEF GoodMessage
  <2>3. QED
    BY <1>1, <2>1, <2>2, Zenon
<1>3. (IF IsResponse(data[2]) THEN SubSeq(data, 3, 4) ELSE <<>>) = m.iin
  <2>1. CASE IsResponse(m.fc)
    <3>1. m.iin = <<data[3], data[4]>>
      BY <1>1, <2>1, ReceivedHead
    <3>2. SubSeq(data, 3, 4) = <<data[3], data[4]>>
      <4>1. data[3] \in Octet /\ data[4] \in Octet
        <5>1. 3 \in 1 .. Len(data) /\ 4 \in 1 .. Len(data)
          BY <1>1, <2>1, LenProperties
        <5>2. QED
          BY <5>1, ElementOfSeq
      <4>2. PICK t \in Seq(Octet) : t = <<data[3], data[4]>> /\ Len(t) = 2
        <5>1. <<data[3], data[4]>> \in Seq(Octet) /\ Len(<<data[3], data[4]>>) = 2
          BY <4>1
        <5>2. QED
          BY <5>1
      <4>3. \A i \in 3 .. 4 : data[i] \in Octet
        BY <4>1
      <4>4. /\ SubSeq(data, 3, 4) \in Seq(Octet)
            /\ Len(SubSeq(data, 3, 4)) = IF 3 <= 4 THEN 4 - 3 + 1 ELSE 0
            /\ \A i \in 1 .. 4 - 3 + 1 : SubSeq(data, 3, 4)[i] = data[3 + i - 1]
        BY <4>3, SubSeqProperties
      <4>5. /\ SubSeq(data, 3, 4) \in Seq(Octet) /\ Len(SubSeq(data, 3, 4)) = 2
            /\ SubSeq(data, 3, 4)[1] = data[3] /\ SubSeq(data, 3, 4)[2] = data[4]
        BY <4>4
      <4>6. \A i \in 1 .. Len(t) : t[i] = SubSeq(data, 3, 4)[i]
        BY <4>2, <4>5
      <4>7. QED
        BY <4>2, <4>5, <4>6, SeqEqual
    <3>3. QED
      BY <1>1, <2>1, <3>1, <3>2
  <2>2. CASE ~IsResponse(m.fc)
    BY <1>1, <2>2 DEF GoodMessage
  <2>3. QED
    BY <2>1, <2>2
<1>4. parsed' = [fc |-> m.fc, seq |-> m.seq % 16, con |-> m.con, uns |-> m.uns, iin |-> m.iin,
                 objects |-> <<>>]
  BY <1>1, <1>2, <1>3 DEF ParseAppHeader
<1>5. PICK fc, seq, con, uns, iin, objects :
        m = [fc |-> fc, seq |-> seq, con |-> con, uns |-> uns, iin |-> iin, objects |-> objects]
  BY DEF GoodMessage
<1>6. [m EXCEPT !.seq = m.seq % 16, !.objects = <<>>]
        = [fc |-> m.fc, seq |-> m.seq % 16, con |-> m.con, uns |-> m.uns, iin |-> m.iin,
           objects |-> <<>>]
  <2>1. PICK s, x : s = m.seq % 16 /\ x = [m EXCEPT !.seq = s]
    OBVIOUS
  <2>2. x = [fc |-> fc, seq |-> s, con |-> con, uns |-> uns, iin |-> iin, objects |-> objects]
    BY <1>5, <2>1
  <2>3. [x EXCEPT !.objects = <<>>]
          = [fc |-> fc, seq |-> s, con |-> con, uns |-> uns, iin |-> iin, objects |-> <<>>]
    BY <2>2
  <2>4. m.fc = fc /\ m.con = con /\ m.uns = uns /\ m.iin = iin
    BY <1>5
  <2>5. [m EXCEPT !.seq = m.seq % 16, !.objects = <<>>] = [x EXCEPT !.objects = <<>>]
    BY <2>1
  <2>6. QED
    BY <2>1, <2>3, <2>4, <2>5
<1>7. at' = Len(Part(m)[0])
  BY <1>1, ReceivedHead DEF ParseAppHeader
<1>8. QED
  BY <1>4, <1>6, <1>7

LEMMA ParseAppHeaderInv == CodecInv /\ ParseAppHeader => CodecInv'
<1> SUFFICES ASSUME CodecInv, ParseAppHeader PROVE CodecInv'
  OBVIOUS
<1>1. /\ phase = "header" /\ HasAppHeader /\ phase' = "objects" /\ at' \in {2, 4}
      /\ UNCHANGED <<message, data, written, cut>>
  BY DEF ParseAppHeader
<1>2. /\ data \in Seq(Octet) /\ Len(data) \in Nat /\ written \in Nat /\ cut \in BOOLEAN
      /\ message \in Message \cup {Nothing}
      /\ message # Nothing => GoodMessage(message) /\ Received(message)
  BY <1>1, ReceivingIs
<1>3. at' \in 0 .. Len(data)
  BY <1>2 DEF ParseAppHeader, HasAppHeader
<1>4. parsed'.objects = <<>> /\ parsed'.seq = data[1] % 16
  BY DEF ParseAppHeader
<1>5. data[1] % 16 \in 0 .. 15
  <2>1. 1 \in 1 .. Len(data)
    BY <1>1, <1>2 DEF HasAppHeader
  <2>2. data[1] \in Octet
    BY <1>2, <2>1, ElementOfSeq
  <2>3. QED
    BY <2>2 DEF Octet
<1>6. ParsedShape'
  <2>1. parsed' = [fc |-> parsed'.fc, seq |-> parsed'.seq, con |-> parsed'.con,
                   uns |-> parsed'.uns, iin |-> parsed'.iin, objects |-> parsed'.objects]
    BY DEF ParseAppHeader
  <2>2. parsed'.objects \in Seq(ToSet(parsed'.objects))
    BY <1>4, EmptySeq
  <2>3. QED
    BY <1>4, <1>5, <2>1, <2>2 DEF ParsedShape
<1>7. CodecTypeOK'
  BY <1>1, <1>2, <1>3, <1>4, <1>5 DEF CodecTypeOK
<1>8. ASSUME message # Nothing PROVE OfMessage(message)'
  <2>1. PICK m : m = message /\ GoodMessage(m) /\ Received(m)
    BY <1>2, <1>8
  <2>2. parsed' = [m EXCEPT !.seq = m.seq % 16, !.objects = <<>>] /\ at' = Len(Part(m)[0])
    BY <1>1, <1>2, <2>1, HeaderParsed
  <2>3. 0 <= Len(m.objects) /\ Len(Part(m)[0]) >= Len(Part(m)[0])
    <3>1. 0 \in 0 .. Len(m.objects) /\ Len(m.objects) \in Nat
      BY <2>1, LenProperties DEF GoodMessage
    <3>2. Len(Part(m)[0]) \in Nat
      BY <2>1, <3>1, PartStands DEF Stands
    <3>3. QED
      BY <3>1, <3>2
  <2>4. Len(parsed'.objects) = 0
    BY <1>4, EmptySeq
  <2>5. /\ parsed' = [m EXCEPT !.seq = m.seq % 16, !.objects = parsed'.objects]
        /\ at' >= Len(Part(m)[0])
    BY <1>4, <2>2, <2>3
  <2>6. Progress(m, 0)'
    BY <2>2, <2>3, <2>5 DEF Progress, Matches, FirstFit
  <2>7. Received(m)'
    BY <1>1, <2>1 DEF Received
  <2>8. QED
    BY <1>1, <2>1, <2>4, <2>6, <2>7 DEF OfMessage
<1>9. QED
  BY <1>1, <1>6, <1>7, <1>8 DEF CodecInv

LEMMA EndParseInv == CodecInv /\ EndParse => CodecInv'
<1> SUFFICES ASSUME CodecInv, EndParse PROVE CodecInv'
  OBVIOUS
<1>1. /\ phase = "objects" /\ phase' = "parsed" /\ at >= Len(data)
      /\ UNCHANGED <<message, data, written, cut, at, parsed>>
  BY DEF EndParse
<1>2. /\ data \in Seq(Octet) /\ Len(data) \in Nat /\ at \in 0 .. Len(data)
      /\ message # Nothing => GoodMessage(message) /\ Received(message)
  BY <1>1, ReceivingIs
<1>3. at = Len(data)
  BY <1>1, <1>2
<1>4. CodecTypeOK'
  BY <1>1 DEF CodecInv, CodecTypeOK
<1>5. ParsedShape'
  BY <1>1 DEF CodecInv, ParsedShape
<1>6. ASSUME message # Nothing PROVE OfMessage(message)'
  <2>1. PICK m, objects :
          /\ m = message /\ objects = parsed.objects /\ Received(m) /\ Progress(m, Len(objects))
    BY <1>1, <1>2, <1>6 DEF CodecInv, OfMessage
  <2>2. Received(m)'
    BY <1>1, <2>1 DEF Received
  <2>3. Progress(m, Len(objects))'
    BY <1>1, <2>1 DEF Progress, Matches
  <2>4. QED
    BY <1>1, <1>3, <2>1, <2>2, <2>3 DEF OfMessage
<1>7. QED
  BY <1>1, <1>4, <1>5, <1>6 DEF CodecInv

\* A sequence of whatever is in it, and the next one.
LEMMA AppendOwn ==
  ASSUME NEW s, s \in Seq(ToSet(s)), NEW x, NEW t, t = Append(s, x)
  PROVE  /\ t \in Seq(ToSet(t)) /\ Len(t) = Len(s) + 1 /\ Len(s) \in Nat
         /\ t[Len(s) + 1] = x /\ \A i \in 1 .. Len(s) : t[i] = s[i]
<1>1. PICK S : S = ToSet(s) \cup {x}
  OBVIOUS
<1>2. s \in Seq(S) /\ x \in S
  BY <1>1, SeqMonotonic
<1>3. /\ t \in Seq(S) /\ Len(t) = Len(s) + 1 /\ Len(s) \in Nat
      /\ t[Len(s) + 1] = x /\ \A i \in 1 .. Len(s) : t[i] = s[i]
  BY <1>2, AppendProperties, LenProperties
<1>4. Len(t) \in Nat /\ t \in [1 .. Len(t) -> S]
  BY <1>3, LenProperties
<1>5. DOMAIN t = 1 .. Len(t)
  BY <1>4
<1>6. t \in [1 .. Len(t) -> ToSet(t)]
  BY <1>4, <1>5 DEF ToSet
<1>7. t \in Seq(ToSet(t))
  BY <1>4, <1>6, FunctionSeq
<1>8. QED
  BY <1>3, <1>7

\* Where a part of a message ends, the next object was written.
LEMMA NextObject ==
  ASSUME NEW m, GoodMessage(m), Received(m), data \in Seq(Octet), at \in Nat,
         NEW k \in 0 .. Len(m.objects), k < Len(m.objects), at = Len(Part(m)[k])
  PROVE  /\ Agrees(at, ObjectOctets(m.objects[k + 1]))
         /\ at + Len(ObjectOctets(m.objects[k + 1])) = Len(Part(m)[k + 1])
         /\ Len(Part(m)[k + 1]) <= Len(Whole(m))
<1>1. PICK n \in Nat : n = Len(m.objects) /\ n \in 0 .. n /\ k + 1 \in 0 .. n /\ k + 1 \in 1 .. n
  BY SMTT(30), LenProperties DEF GoodMessage
<1>2. Stands(m, k) /\ Stands(m, k + 1) /\ Stands(m, n)
  BY <1>1, PartStands
<1>3. PICK t : t = ObjectOctets(m.objects[k + 1]) /\ t \in Seq(Octet)
  BY <1>1, ObjectOctetsAre DEF GoodMessage
<1>4. PICK s \in Seq(Octet), w \in Seq(Octet) : s = Part(m)[k] /\ w = Whole(m) /\ Len(s) \in Nat
  BY <1>1, <1>2 DEF Stands, Whole
<1>5. s \o t \in Seq(Octet) /\ Part(m)[k + 1] = s \o t /\ Len(s \o t) = Len(s) + Len(t)
  BY <1>2, <1>3, <1>4, ConcatOctets DEF Stands
<1>6. Begins(s \o t, w)
  BY <1>2, <1>4, <1>5 DEF Stands
<1>7. Agrees(0, w)
  <2>1. Len(data) \in Nat /\ Len(w) \in Nat
    BY LenProperties
  <2>2. \A j \in 1 .. Len(data) : w[j] = data[j]
    BY <1>4 DEF Received, Begins
  <2>3. ASSUME NEW j \in 1 .. Len(w), 0 + j <= Len(data) PROVE data[0 + j] = w[j]
    <3>1. j \in 1 .. Len(data) /\ 0 + j = j
      BY <2>1, <2>3
    <3>2. QED
      BY <2>2, <3>1
  <2>4. QED
    BY <2>3 DEF Agrees
<1>8. Agrees(0, s \o t)
  BY <1>5, <1>6, <1>7, AgreesBegin
<1>9. Agrees(0 + Len(s), t)
  BY <1>3, <1>8, AgreesConcat
<1>10. 0 + Len(s) = at
  BY <1>4
<1>11. Len(s \o t) <= Len(w)
  BY <1>6 DEF Begins
<1>12. QED
  BY <1>3, <1>4, <1>5, <1>9, <1>10, <1>11

\* A parser of a message that fits finds the next object, as far as there are
\* data.
LEMMA FindsNext ==
  ASSUME NEW m, GoodMessage(m), Received(m), data \in Seq(Octet), at \in 0 .. Len(data),
         at < Len(data), Fits(m), NEW k \in Nat, k <= Len(m.objects), at = Len(Part(m)[k])
  PROVE  /\ k + 1 <= Len(m.objects)
         /\ ~cut => Found(at)
         /\ Found(at) => /\ ObjectAt(at) = m.objects[k + 1]
                         /\ Body(at).at = Len(Part(m)[k + 1])
<1>1. PICK n \in Nat, d \in Nat : n = Len(m.objects) /\ d = Len(data) /\ k \in 0 .. n /\ at \in Nat
  BY LenProperties DEF GoodMessage
<1>2. Len(data) <= Len(Whole(m)) /\ (~cut => Len(data) = Len(Whole(m)))
  BY DEF Received, Begins
<1>3. Len(Whole(m)) \in Nat
  <2>1. n \in 0 .. n
    BY <1>1
  <2>2. Stands(m, n)
    BY <1>1, <2>1, PartStands
  <2>3. QED
    BY <1>1, <2>2 DEF Stands, Whole
<1>4. k # n
  <2>1. SUFFICES ASSUME k = n PROVE FALSE
    OBVIOUS
  <2>2. at = Len(Whole(m))
    BY <1>1, <2>1 DEF Whole
  <2>3. QED
    BY <1>1, <1>2, <1>3, <2>2
<1>5. k < n /\ k + 1 \in 1 .. n
  BY <1>1, <1>4
<1>6. PICK o : o = m.objects[k + 1] /\ GoodObject(o) /\ HeaderFits(o.header) /\ PointsFit(o)
  BY <1>1, <1>5 DEF GoodMessage, Fits
<1>7. /\ Agrees(at, ObjectOctets(o))
      /\ at + Len(ObjectOctets(o)) = Len(Part(m)[k + 1])
      /\ Len(Part(m)[k + 1]) <= Len(Whole(m))
  BY <1>1, <1>5, <1>6, NextObject
<1>8. /\ at + Len(ObjectOctets(o)) <= Len(data) => Found(at)
      /\ Found(at) => ObjectAt(at) = o /\ Body(at).at = at + Len(ObjectOctets(o))
  BY <1>6, <1>7, ObjectBack
<1>9. ~cut => at + Len(ObjectOctets(o)) <= Len(data)
  BY <1>2, <1>7
<1>10. k + 1 <= Len(m.objects)
  BY <1>1, <1>5
<1>11. QED
  BY <1>6, <1>7, <1>8, <1>9, <1>10

\* A parser that finds the next object of a message is not before its end, and
\* if it is there the object fits.
LEMMA NextFits ==
  ASSUME NEW m, GoodMessage(m), Received(m), data \in Seq(Octet), at \in 0 .. Len(data),
         NEW k \in Nat, k + 1 <= Len(m.objects), at >= Len(Part(m)[k]),
         at = Len(Part(m)[k]) => FirstFit(m, k),
         Found(at), ObjectAt(at) = m.objects[k + 1]
  PROVE  /\ Body(at).at >= Len(Part(m)[k + 1])
         /\ Body(at).at = Len(Part(m)[k + 1]) => FirstFit(m, k + 1)
<1>1. PICK n \in Nat, d \in Nat :
        /\ n = Len(m.objects) /\ d = Len(data) /\ k \in 0 .. n /\ k + 1 \in 1 .. n /\ k < n /\ at \in Nat
  <2>1. Len(m.objects) \in Nat /\ Len(data) \in Nat
    BY LenProperties DEF GoodMessage
  <2>2. k < Len(m.objects) /\ at \in Nat
    BY <2>1
  <2>3. QED
    BY <2>1, <2>2
<1>2. PICK o : o = m.objects[k + 1] /\ GoodObject(o)
  BY <1>1 DEF GoodMessage
<1>3. /\ Body(at).at >= at + Len(ObjectOctets(o))
      /\ Body(at).at = at + Len(ObjectOctets(o)) /\ Agrees(at, ObjectOctets(o)) =>
           HeaderFits(o.header) /\ PointsFit(o)
  BY <1>2, ObjectFits
<1>4. PICK a \in Nat, b \in Nat : a = Len(Part(m)[k]) /\ b = Len(ObjectOctets(o))
  <2>1. Stands(m, k)
    BY <1>1, PartStands
  <2>2. Len(Part(m)[k]) \in Nat
    BY <2>1 DEF Stands
  <2>3. ObjectOctets(o) \in Seq(Octet)
    BY <1>2, ObjectOctetsAre
  <2>4. QED
    BY <2>2, <2>3, LenProperties
<1>5. Len(Part(m)[k + 1]) = a + b
  <2>1. Stands(m, k)
    BY <1>1, PartStands
  <2>2. QED
    BY <1>1, <1>2, <1>4, <2>1 DEF Stands
<1>6. PICK e \in Nat : e = Body(at).at
  <2>1. Body(at).at \in 0 .. Len(data)
    BY BodyType DEF Found
  <2>2. QED
    BY <1>1, <2>1
<1>7. PICK p \in Nat : p = at
  BY <1>1
<1>8. e >= p + b /\ p >= a
  BY <1>3, <1>4, <1>6, <1>7
<1>9. e >= a + b /\ (e = a + b => p = a /\ e = p + b)
  BY <1>8
<1>10. ASSUME e = a + b PROVE FirstFit(m, k + 1)
  <2>1. at = Len(Part(m)[k]) /\ Body(at).at = at + Len(ObjectOctets(o))
    BY <1>4, <1>6, <1>7, <1>9, <1>10
  <2>2. Agrees(at, ObjectOctets(o))
    BY <1>1, <1>2, <2>1, NextObject
  <2>3. HeaderFits(o.header) /\ PointsFit(o)
    BY <1>3, <2>1, <2>2
  <2>4. FirstFit(m, k)
    BY <2>1
  <2>5. ASSUME NEW i \in 1 .. k + 1
        PROVE  HeaderFits(m.objects[i].header) /\ PointsFit(m.objects[i])
    <3>1. i \in 1 .. k \/ i = k + 1
      OBVIOUS
    <3>2. QED
      BY <1>2, <2>3, <2>4, <3>1 DEF FirstFit
  <2>6. QED
    BY <2>5 DEF FirstFit
<1>11. QED
  BY <1>5, <1>6, <1>9, <1>10

\* One object more.
LEMMA ProgressNext ==
  ASSUME NEW m, GoodMessage(m), Received(m), data \in Seq(Octet), at \in 0 .. Len(data),
         at < Len(data), ParsedShape, NEW k \in Nat, k = Len(parsed.objects), Progress(m, k),
         Found(at), at' = Body(at).at,
         parsed' = [parsed EXCEPT !.objects = Append(@, ObjectAt(at))],
         NEW objects, objects = Append(parsed.objects, ObjectAt(at)), parsed'.objects = objects
  PROVE  Progress(m, k + 1)'
<1>1. /\ objects[k + 1] = ObjectAt(at)
      /\ \A i \in 1 .. k : objects[i] = parsed.objects[i]
  BY AppendOwn DEF ParsedShape
<1>2. parsed' = [m EXCEPT !.seq = m.seq % 16, !.objects = objects]
  <2>1. PICK fc, seq, con, uns, iin, old :
          m = [fc |-> fc, seq |-> seq, con |-> con, uns |-> uns, iin |-> iin, objects |-> old]
    BY DEF GoodMessage
  <2>2. PICK s, x, now :
          s = m.seq % 16 /\ x = [m EXCEPT !.seq = s] /\ now = parsed.objects
    OBVIOUS
  <2>3. x = [fc |-> fc, seq |-> s, con |-> con, uns |-> uns, iin |-> iin, objects |-> old]
    BY <2>1, <2>2
  <2>4. parsed = [x EXCEPT !.objects = now]
    BY <2>2 DEF Progress
  <2>5. parsed = [fc |-> fc, seq |-> s, con |-> con, uns |-> uns, iin |-> iin, objects |-> now]
    BY <2>3, <2>4
  <2>6. parsed' = [parsed EXCEPT !.objects = objects]
    OBVIOUS
  <2>7. parsed' = [fc |-> fc, seq |-> s, con |-> con, uns |-> uns, iin |-> iin, objects |-> objects]
    BY <2>5, <2>6
  <2>8. [x EXCEPT !.objects = objects]
          = [fc |-> fc, seq |-> s, con |-> con, uns |-> uns, iin |-> iin, objects |-> objects]
    <3>1. PICK y : y = [x EXCEPT !.objects = objects]
      OBVIOUS
    <3>2. y = [fc |-> fc, seq |-> s, con |-> con, uns |-> uns, iin |-> iin, objects |-> objects]
      BY <2>3, <3>1
    <3>3. QED
      BY <3>1, <3>2
  <2>9. [m EXCEPT !.seq = m.seq % 16, !.objects = objects] = [x EXCEPT !.objects = objects]
    BY <2>2
  <2>10. QED
    BY <2>7, <2>8, <2>9
<1>3. ASSUME Fits(m) PROVE Matches(m, k + 1)' /\ at' = Len(Part(m)[k + 1])
  <2>1. Matches(m, k) /\ at = Len(Part(m)[k])
    BY <1>3 DEF Progress
  <2>2. /\ k + 1 <= Len(m.objects) /\ ObjectAt(at) = m.objects[k + 1]
        /\ Body(at).at = Len(Part(m)[k + 1])
    BY <1>3, <2>1, FindsNext DEF Matches
  <2>3. ASSUME NEW i \in 1 .. k + 1 PROVE objects[i] = m.objects[i]
    <3>1. i \in 1 .. k \/ i = k + 1
      OBVIOUS
    <3>2. QED
      BY <1>1, <2>1, <2>2, <3>1 DEF Matches
  <2>4. QED
    BY <2>2, <2>3 DEF Matches
<1>4. ASSUME Matches(m, k + 1)'
      PROVE  /\ at' >= Len(Part(m)[k + 1])
             /\ at' = Len(Part(m)[k + 1]) => FirstFit(m, k + 1)
  <2>1. k + 1 <= Len(m.objects) /\ \A i \in 1 .. k + 1 : objects[i] = m.objects[i]
    BY <1>4 DEF Matches
  <2>2. ObjectAt(at) = m.objects[k + 1]
    <3>1. k + 1 \in 1 .. k + 1
      OBVIOUS
    <3>2. QED
      BY <1>1, <2>1, <3>1
  <2>3. k <= Len(m.objects)
    <3>1. Len(m.objects) \in Nat
      BY LenProperties DEF GoodMessage
    <3>2. QED
      BY <2>1, <3>1
  <2>4. \A i \in 1 .. k : parsed.objects[i] = m.objects[i]
    <3>1. \A i \in 1 .. k : i \in 1 .. k + 1
      OBVIOUS
    <3>2. QED
      BY <1>1, <2>1, <3>1
  <2>5. /\ at >= Len(Part(m)[k])
        /\ at = Len(Part(m)[k]) => FirstFit(m, k)
    BY <2>3, <2>4 DEF Progress, Matches
  <2>6. QED
    BY <2>1, <2>2, <2>5, NextFits
<1>5. QED
  BY <1>2, <1>3, <1>4 DEF Progress

LEMMA ParseObjectInv == CodecInv /\ ParseObject => CodecInv'
<1> SUFFICES ASSUME CodecInv, ParseObject PROVE CodecInv'
  OBVIOUS
<1>1. phase = "objects" /\ at < Len(data) /\ UNCHANGED <<message, data, written, cut>>
  BY DEF ParseObject
<1>2. /\ data \in Seq(Octet) /\ Len(data) \in Nat /\ at \in 0 .. Len(data)
      /\ cut \in BOOLEAN /\ written \in Nat /\ message \in Message \cup {Nothing}
      /\ message # Nothing => GoodMessage(message) /\ Received(message)
  BY <1>1, ReceivingIs
<1>3. /\ ParsedShape
      /\ message # Nothing => Progress(message, Len(parsed.objects))
  BY <1>1 DEF CodecInv, OfMessage
<1>4. message # Nothing => Received(message)'
  BY <1>1, <1>2 DEF Received
<1>5. CASE ~Found(at)
  <2>1. phase' \in {"refused", "escaped"} /\ UNCHANGED <<at, parsed>>
    <3>1. CASE ParseHeader(at).fault # "none"
      <4>1. ParseHeader(at).fault \in {"none", "refused", "escaped"}
        BY <1>2, ParsedHeaderIs
      <4>2. phase' = ParseHeader(at).fault /\ UNCHANGED <<at, parsed>>
        BY <3>1 DEF ParseObject
      <4>3. QED
        BY <3>1, <4>1, <4>2
    <3>2. CASE ParseHeader(at).fault = "none" /\ Body(at).fault # "none"
      <4>1. Body(at).fault \in {"none", "refused", "escaped"}
        BY <1>2, <3>2, BodyType
      <4>2. phase' = Body(at).fault /\ UNCHANGED <<at, parsed>>
        BY <3>2 DEF ParseObject, Body
      <4>3. QED
        BY <3>2, <4>1, <4>2
    <3>3. QED
      BY <1>5, <3>1, <3>2 DEF Found
  <2>2. CodecTypeOK'
    BY <1>1, <1>2, <2>1 DEF CodecTypeOK
  <2>3. ASSUME message # Nothing, ~cut PROVE ~Fits(message)
    <3>1. SUFFICES ASSUME Fits(message) PROVE FALSE
      OBVIOUS
    <3>2. PICK m, k : m = message /\ k = Len(parsed.objects)
      OBVIOUS
    <3>3. GoodMessage(m) /\ Received(m) /\ Progress(m, k) /\ Fits(m)
      BY <1>2, <1>3, <2>3, <3>1, <3>2
    <3>4. k <= Len(m.objects) /\ at = Len(Part(m)[k])
      BY <3>3 DEF Progress, Matches
    <3>5. k \in Nat
      BY <1>3, <3>2, LenProperties DEF ParsedShape
    <3>6. QED
      BY <1>1, <1>2, <1>5, <2>3, <3>3, <3>4, <3>5, FindsNext
  <2>4. message # Nothing => OfMessage(message)'
    BY <1>1, <1>4, <2>1, <2>3 DEF OfMessage
  <2>5. QED
    BY <1>1, <2>1, <2>2, <2>4 DEF CodecInv
<1>6. CASE Found(at)
  <2>1. PICK objects : objects = Append(parsed.objects, ObjectAt(at))
    OBVIOUS
  <2>2. /\ at' = Body(at).at /\ phase' = phase
        /\ parsed' = [parsed EXCEPT !.objects = Append(@, ObjectAt(at))]
    BY <1>6 DEF ParseObject, Found, Body, ObjectAt
  <2>3. /\ parsed' = [fc |-> parsed.fc, seq |-> parsed.seq, con |-> parsed.con,
                      uns |-> parsed.uns, iin |-> parsed.iin, objects |-> objects]
    <3>1. PICK fc, seq, con, uns, iin, old :
            /\ parsed = [fc |-> fc, seq |-> seq, con |-> con, uns |-> uns, iin |-> iin,
                         objects |-> old]
      BY <1>3 DEF ParsedShape
    <3>2. parsed' = [parsed EXCEPT !.objects = objects]
      BY <2>1, <2>2
    <3>3. QED
      BY <3>1, <3>2
  <2>4. parsed'.objects = objects /\ parsed'.seq = parsed.seq
    BY <2>3
  <2>5. /\ objects \in Seq(ToSet(objects)) /\ Len(objects) = Len(parsed.objects) + 1
        /\ Len(parsed.objects) \in Nat
    BY ZenonT(60), <1>3, <2>1, AppendOwn DEF ParsedShape
  <2>6. ParsedShape'
    <3>1. parsed'.seq \in 0 .. 15
      BY <1>3, <2>4 DEF ParsedShape
    <3>2. parsed' = [fc |-> parsed'.fc, seq |-> parsed'.seq, con |-> parsed'.con,
                     uns |-> parsed'.uns, iin |-> parsed'.iin, objects |-> parsed'.objects]
      BY <2>3
    <3>3. QED
      BY <2>4, <2>5, <3>1, <3>2 DEF ParsedShape
  <2>7. at' \in 0 .. Len(data)
    BY <1>2, <1>6, <2>2, BodyType DEF Found
  <2>8. CodecTypeOK'
    BY <1>1, <1>2, <2>2, <2>6, <2>7 DEF CodecTypeOK, ParsedShape
  <2>9. ASSUME message # Nothing PROVE OfMessage(message)'
    <3>1. PICK m \in {message}, k \in Nat : m = message /\ k = Len(parsed.objects)
      BY <2>5
    <3>2. GoodMessage(m) /\ Received(m) /\ Progress(m, k)
      BY <1>2, <1>3, <2>9, <3>1
    <3>3. Progress(m, k + 1)'
      BY <1>1, <1>2, <1>3, <1>6, <2>1, <2>2, <2>4, <3>1, <3>2, ProgressNext
    <3>4. Len(parsed'.objects) = k + 1
      BY <2>4, <2>5, <3>1
    <3>5. Progress(m, Len(parsed.objects))'
      BY <3>3, <3>4 DEF Progress, Matches
    <3>6. QED
      BY <1>1, <1>4, <2>2, <2>9, <3>1, <3>5 DEF OfMessage
  <2>10. QED
    BY <1>1, <2>2, <2>6, <2>8, <2>9 DEF CodecInv
<1>7. QED
  BY <1>5, <1>6

\* The invariant is inductive.
LEMMA NextInv == CodecInv /\ [CodecNext]_codecVars => CodecInv'
<1> SUFFICES ASSUME CodecInv, [CodecNext]_codecVars PROVE CodecInv'
  OBVIOUS
<1>1. CASE BuildHeader
  BY <1>1, BuildHeaderInv
<1>2. CASE WriteObject
  BY <1>2, WriteObjectInv
<1>3. CASE FailWrite
  BY <1>3, FailWriteInv
<1>4. CASE \E n \in 0 .. Len(data) : Deliver(n)
  BY <1>4, DeliverInv
<1>5. CASE ParseAppHeader
  BY <1>5, ParseAppHeaderInv
<1>6. CASE RefuseAppHeader
  BY <1>6, RefuseAppHeaderInv
<1>7. CASE ParseObject
  BY <1>7, ParseObjectInv
<1>8. CASE EndParse
  BY <1>8, EndParseInv
<1>9. CASE UNCHANGED codecVars
  BY <1>9 DEF codecVars, CodecInv, CodecTypeOK, ParsedShape, OfMessage, Building, Received,
    Progress, Matches
<1>10. QED
  BY <1>1, <1>2, <1>3, <1>4, <1>5, <1>6, <1>7, <1>8, <1>9 DEF CodecNext

LEMMA CodecInvariance == CodecSpec => []CodecInv
<1>1. CodecInit => CodecInv
  BY InitInv
<1>2. CodecInv /\ [CodecNext]_codecVars => CodecInv'
  BY NextInv
<1>3. QED
  BY <1>1, <1>2, PTL DEF CodecSpec

\* A message of which all was parsed.
LEMMA ParsedMessage ==
  ASSUME CodecInv, phase = "parsed", NEW m, m = message, m # Nothing
  PROVE  /\ GoodMessage(m) /\ Received(m) /\ ParsedShape /\ at = Len(data) /\ Len(data) \in Nat
         /\ Progress(m, Len(parsed.objects)) /\ Len(parsed.objects) \in Nat
<1>1. message \in Message /\ data \in Seq(Octet)
  BY DEF CodecInv, CodecTypeOK
<1>2. GoodMessage(m)
  BY <1>1, MessageIsGood
<1>3. Received(m) /\ ParsedShape /\ at = Len(data) /\ Progress(m, Len(parsed.objects))
  BY DEF CodecInv, OfMessage
<1>4. Len(data) \in Nat /\ Len(parsed.objects) \in Nat
  BY <1>1, <1>3, LenProperties DEF ParsedShape
<1>5. QED
  BY <1>2, <1>3, <1>4

\* A message that fits is what was parsed, up to the objects there were data for.
LEMMA FittingParsed ==
  ASSUME CodecInv, phase = "parsed", NEW m, m = message, m # Nothing, Fits(m)
  PROVE  /\ parsed = [m EXCEPT !.objects = SubSeq(m.objects, 1, Len(parsed.objects))]
         /\ ~cut => parsed = m
<1>1. /\ GoodMessage(m) /\ Received(m) /\ ParsedShape /\ at = Len(data) /\ Len(data) \in Nat
      /\ Progress(m, Len(parsed.objects))
  BY ParsedMessage
<1> DEFINE S == ToSet(parsed.objects) \cup ToSet(m.objects)
<1>2. PICK objects \in Seq(S), old \in Seq(S) : objects = parsed.objects /\ old = m.objects
  <2>1. parsed.objects \in Seq(S) /\ m.objects \in Seq(S)
    BY <1>1, SeqMonotonic DEF ParsedShape, GoodMessage
  <2>2. QED
    BY <2>1
<1> HIDE DEF S
<1>3. PICK n \in Nat, k \in Nat : n = Len(old) /\ k = Len(objects)
  BY LenProperties
<1>4. k <= n /\ (\A i \in 1 .. k : objects[i] = old[i]) /\ at = Len(Part(m)[k])
  BY <1>1, <1>2, <1>3 DEF Progress, Matches
<1>5. objects = SubSeq(old, 1, k)
  <2>1. \A i \in 1 .. k : old[i] \in S
    BY <1>3, <1>4, ElementOfSeq
  <2>2. /\ SubSeq(old, 1, k) \in Seq(S)
        /\ Len(SubSeq(old, 1, k)) = IF 1 <= k THEN k - 1 + 1 ELSE 0
        /\ \A i \in 1 .. k - 1 + 1 : SubSeq(old, 1, k)[i] = old[1 + i - 1]
    BY <2>1, SubSeqProperties
  <2>3. Len(SubSeq(old, 1, k)) = k
    BY <2>2
  <2>4. \A i \in 1 .. k : i \in 1 .. k - 1 + 1 /\ 1 + i - 1 = i
    OBVIOUS
  <2>5. \A i \in 1 .. Len(objects) : objects[i] = SubSeq(old, 1, k)[i]
    BY <1>3, <1>4, <2>2, <2>4
  <2>6. QED
    BY <1>3, <2>2, <2>3, <2>5, SeqEqual
<1>6. m.seq % 16 = m.seq
  <2>1. m.seq \in 0 .. 15
    BY DEF Fits
  <2>2. QED
    BY <2>1
<1>7. PICK fc, seq, con, uns, iin :
        m = [fc |-> fc, seq |-> seq, con |-> con, uns |-> uns, iin |-> iin, objects |-> old]
  BY <1>1, <1>2 DEF GoodMessage
<1>8. parsed = [m EXCEPT !.objects = objects]
  <2>1. parsed = [m EXCEPT !.seq = m.seq % 16, !.objects = objects]
    BY <1>1, <1>2 DEF Progress
  <2>2. PICK x : x = [m EXCEPT !.seq = m.seq % 16]
    OBVIOUS
  <2>3. x = m
    BY <1>6, <1>7, <2>2
  <2>4. QED
    BY <2>1, <2>2, <2>3
<1>9. ASSUME ~cut PROVE parsed = m
  <2>1. at = Len(Whole(m))
    BY <1>1, <1>9 DEF Received
  <2>2. k = n
    <3>1. SUFFICES ASSUME k # n PROVE FALSE
      OBVIOUS
    <3>2. k < n /\ k \in 0 .. n
      BY <1>4, <3>1
    <3>3. Stands(m, k)
      BY <1>1, <1>2, <1>3, <3>2, PartStands
    <3>4. Len(Part(m)[k]) < Len(Whole(m)) /\ Len(Part(m)[k]) \in Nat
      BY <1>2, <1>3, <3>2, <3>3 DEF Stands
    <3>5. QED
      BY <1>4, <2>1, <3>4
  <2>3. objects = old
    BY <1>3, <1>5, <2>2, SubSeqFull
  <2>4. QED
    BY <1>7, <1>8, <2>3
<1>10. QED
  BY <1>2, <1>3, <1>5, <1>8, <1>9

\* A message that was parsed whole and unchanged fits.
LEMMA ParsedFits ==
  ASSUME CodecInv, phase = "parsed", ~cut, NEW m, m = message, m # Nothing, parsed = m
  PROVE  Fits(m)
<1>1. /\ GoodMessage(m) /\ Received(m) /\ ParsedShape /\ at = Len(data)
      /\ Progress(m, Len(parsed.objects)) /\ Len(parsed.objects) \in Nat
  BY ParsedMessage
<1>2. PICK n \in Nat : n = Len(m.objects) /\ Progress(m, n)
  BY <1>1
<1>3. Matches(m, n)
  BY <1>2 DEF Matches
<1>4. at = Len(Part(m)[n])
  BY <1>1, <1>2 DEF Received, Whole
<1>5. FirstFit(m, n)
  BY <1>2, <1>3, <1>4 DEF Progress
<1>6. m.seq \in 0 .. 15
  BY <1>1 DEF ParsedShape
<1>7. QED
  BY <1>2, <1>5, <1>6 DEF Fits, FirstFit

-----------------------------------------------------------------------------
(* The theorems *)

\* What is written are octets, the parser never leaves the fragment, and the
\* sequence number it finds has four bits.
THEOREM CodecTypeCorrect == CodecSpec => []CodecTypeOK
<1>1. CodecInv => CodecTypeOK
  BY DEF CodecInv
<1>2. QED
  BY <1>1, CodecInvariance, PTL

\* Parsing inverts building for exactly the messages that fit their headers and
\* variations.
THEOREM RoundTripCorrect == CodecSpec => []RoundTrip
<1>1. CodecInv => RoundTrip
  <2>1. SUFFICES ASSUME CodecInv, Over, message # Nothing, ~cut
                 PROVE  ReadBack(message) <=> Fits(message)
    BY DEF RoundTrip
  <2>2. CASE phase = "parsed"
    <3>1. Fits(message) => parsed = message
      BY <2>1, <2>2, FittingParsed
    <3>2. parsed = message => Fits(message)
      BY <2>1, <2>2, ParsedFits
    <3>3. QED
      BY <2>2, <3>1, <3>2 DEF ReadBack
  <2>3. CASE phase \in {"unbuilt", "refused", "escaped"}
    BY <2>1, <2>3 DEF CodecInv, OfMessage, ReadBack
  <2>4. QED
    BY <2>1, <2>2, <2>3 DEF Over
<1>2. QED
  BY <1>1, CodecInvariance, PTL

\* Of a message that fits a fragment without its end is refused, or read as the
\* first objects of the message.
THEOREM CutNeverInventsCorrect == CodecSpec => []CutNeverInvents
<1>1. CodecInv => CutNeverInvents
  <2>1. SUFFICES ASSUME CodecInv, Over, message # Nothing, cut, Fits(message),
                        phase \notin {"refused", "escaped"}
                 PROVE  /\ phase = "parsed"
                        /\ parsed = [message EXCEPT !.objects = SubSeq(@, 1, Len(parsed.objects))]
    BY DEF CutNeverInvents
  <2>2. phase # "unbuilt"
    BY <2>1 DEF CodecInv, OfMessage
  <2>3. phase = "parsed"
    BY <2>1, <2>2 DEF Over
  <2>4. QED
    BY <2>1, <2>3, FittingParsed
<1>2. QED
  BY <1>1, CodecInvariance, PTL
=============================================================================

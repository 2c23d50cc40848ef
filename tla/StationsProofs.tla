--------------------------- MODULE StationsProofs ---------------------------
(* Proofs about a master and an outstation, for any points, polls, commands *)
(* and connections.                                                         *)
EXTENDS Stations, SessionProofs

-----------------------------------------------------------------------------
(* The invariant *)

\* The read loop and the calls of open() and close().
ClientIInv ==
  /\ running \in BOOLEAN /\ raised \in BOOLEAN
  /\ writer \in {"none", "open", "closing"}
  /\ loop \in {"none", "reading", "callback", "cancelled", "ended"}
  /\ call \in {"none", "opening", "closing"}
  /\ connection \in {"none", "up", "ended", "lost"}
  /\ Serving => running
  /\ loop = "cancelled" => call = "closing"
  /\ call = "closing" => writer = "closing"
  /\ OpenIsServed

ControlObject == [group : {12, 41}, index : Nat]
ControlCodes == {"DIRECT_OPERATE", "SELECT", "OPERATE"}
OtherCodes == {"READ", "ENABLE_UNSOLICITED", "DISABLE_UNSOLICITED", "CONFIRM"}

\* The requests a master sends.
MasterRequest ==
  [fc : ControlCodes, seq : Nat, objs : Seq(ControlObject), nth : Nat]
    \cup [fc : OtherCodes, seq : Nat, objs : Seq(ReadObject), nth : Nat]

\* n numbers were used when seq is the next.
Numbered(n, seq) ==
  /\ seq \in 0 .. SeqCount - 1
  /\ \E rounds \in Nat : n = rounds * SeqCount + seq

\* Every request but a CONFIRM has the next number.
SendingIInv ==
  /\ used \in 0 .. MaxUsed
  /\ Numbered(used, masterSeq)
  /\ sent \in Seq(MasterRequest)
  /\ \A k \in 1 .. Len(sent) :
       sent[k].fc # "CONFIRM" =>
         sent[k].nth \in 1 .. used /\ Numbered(sent[k].nth - 1, sent[k].seq)
  /\ \A j, k \in 1 .. Len(sent) :
       j < k /\ sent[j].fc # "CONFIRM" /\ sent[k].fc # "CONFIRM"
         => sent[j].nth < sent[k].nth

Ordered(s) == \A i, j \in 1 .. Len(s) : i < j => s[i] < s[j]

\* Requests on their way, received and handled, in the order they were sent.
Queue == (received \o buffered) \o incoming

QueueIInv ==
  /\ received \in Seq(1 .. Len(sent))
  /\ buffered \in Seq(1 .. Len(sent))
  /\ incoming \in Seq(1 .. Len(sent))
  /\ Ordered(Queue)
  /\ Len(requests) = Len(received)
  /\ \A i \in 1 .. Len(received) : requests[i] = sent[received[i]]

Message == [uns : BOOLEAN, con : BOOLEAN, seq : Nat, number : Nat]

\* What the master has heard and will hear.
Messages == heard \o toMaster

\* A response is to a request that was handled and asks for one.
Answers ==
  {m \in Message : m \in Response =>
     \E i \in 1 .. Len(received) :
       /\ m.number = received[i]
       /\ m.seq = sent[received[i]].seq
       /\ NeedsAnswer(sent[received[i]])
       /\ phase # "idle" => i < Len(received)}

\* Responses come in the order of their requests.
InOrder(s) ==
  \A i, j \in 1 .. Len(s) :
    i < j /\ s[i] \in Response /\ s[j] \in Response => s[i].number < s[j].number

RepliesIInv ==
  /\ heard \in Seq(Answers)
  /\ toMaster \in Seq(Answers)
  /\ InOrder(Messages)

Calls == [op : {"direct", "select", "operate"}, index : Nat]

CommandsIInv == handled \in Seq(Calls) /\ CommandsOnce

StationsIInv ==
  /\ ClientIInv
  /\ SendingIInv
  /\ QueueIInv
  /\ RepliesIInv
  /\ CommandsIInv
  /\ SessionIInv(MasterRequest)
  /\ prompted \in 0 .. MaxUnsolicited
  /\ faulted \in 0 .. Len(sent)

-----------------------------------------------------------------------------
(* Sequences that lose elements *)

\* t is what is left of s.
Thinned(t, s) ==
  \E place \in [1 .. Len(t) -> 1 .. Len(s)] :
    /\ \A i, j \in 1 .. Len(t) : i < j => place[i] < place[j]
    /\ \A i \in 1 .. Len(t) : t[i] = s[place[i]]

LEMMA ThinPrefix ==
  ASSUME NEW A, NEW s \in Seq(A), NEW m \in 0 .. Len(s)
  PROVE  /\ SubSeq(s, 1, m) \in Seq(A)
         /\ Thinned(SubSeq(s, 1, m), s)
<1> DEFINE t == SubSeq(s, 1, m)
<1>1. Len(s) \in Nat
  BY LenProperties
<1>2. t \in Seq(A) /\ Len(t) = m /\ \A i \in 1 .. m : t[i] = s[i]
  BY <1>1, SubSeqProperties, ElementOfSeq, FunctionSeq
<1>3. [i \in 1 .. m |-> i] \in [1 .. m -> 1 .. Len(s)]
  BY <1>1
<1> HIDE DEF t
<1>4. Thinned(t, s)
  <2> DEFINE place == [i \in 1 .. m |-> i]
  <2>1. \A i \in 1 .. m : place[i] = i
    OBVIOUS
  <2> HIDE DEF place
  <2>2. /\ \A i, j \in 1 .. m : i < j => place[i] < place[j]
        /\ \A i \in 1 .. m : t[i] = s[place[i]]
    BY <1>2, <2>1
  <2>3. QED
    BY <1>2, <1>3, <2>2 DEF Thinned, place
<1>5. QED
  BY <1>2, <1>4 DEF t

\* What RemoveAt leaves.
LEMMA RemoveLeaves ==
  ASSUME NEW A, NEW s \in Seq(A), NEW k \in 1 .. Len(s)
  PROVE  /\ RemoveAt(s, k) \in Seq(A) /\ Len(RemoveAt(s, k)) = Len(s) - 1
         /\ \A i \in 1 .. Len(s) - 1 :
              RemoveAt(s, k)[i] = s[IF i < k THEN i ELSE i + 1]
<1> DEFINE n == Len(s)
           a == SubSeq(s, 1, k - 1)
           b == SubSeq(s, k + 1, n)
<1>1. n \in Nat /\ k \in 1 .. n
  BY LenProperties
<1>2. /\ a \in Seq(A) /\ Len(a) = k - 1 /\ \A i \in 1 .. k - 1 : a[i] = s[i]
  <2>1. k - 1 \in 0 .. n
    BY <1>1
  <2>2. a = [i \in 1 .. k - 1 |-> s[i]]
    BY <1>1, <2>1
  <2>3. \A i \in 1 .. k - 1 : s[i] \in A
    BY <1>1, ElementOfSeq
  <2>4. k - 1 \in Nat /\ [i \in 1 .. k - 1 |-> s[i]] \in [1 .. k - 1 -> A]
    BY <1>1, <2>3
  <2> HIDE DEF a
  <2>5. QED
    BY <2>2, <2>4, FunctionSeq
<1>3. /\ b \in Seq(A) /\ Len(b) = n - k /\ \A i \in 1 .. n - k : b[i] = s[k + i]
  <2>1. b = [i \in 1 .. n - k |-> s[k + i]]
    BY <1>1
  <2>2. \A i \in 1 .. n - k : s[k + i] \in A
    BY <1>1, ElementOfSeq
  <2>3. n - k \in Nat /\ [i \in 1 .. n - k |-> s[k + i]] \in [1 .. n - k -> A]
    BY <1>1, <2>2
  <2> HIDE DEF b
  <2>4. QED
    BY <2>1, <2>3, FunctionSeq
<1>4. RemoveAt(s, k) = a \o b
  BY DEF RemoveAt
<1> HIDE DEF a, b
<1>5. /\ a \o b \in Seq(A) /\ Len(a \o b) = Len(a) + Len(b)
      /\ \A i \in 1 .. Len(a) + Len(b) :
           (a \o b)[i] = IF i <= Len(a) THEN a[i] ELSE b[i - Len(a)]
  BY <1>2, <1>3, ConcatProperties
<1> DEFINE c == a \o b
<1>6. c \in Seq(A) /\ Len(c) = n - 1
  BY <1>1, <1>2, <1>3, <1>5
<1>7. ASSUME NEW i \in 1 .. n - 1 PROVE c[i] = s[IF i < k THEN i ELSE i + 1]
  <2>1. CASE i < k
    BY <1>1, <1>2, <1>3, <1>5, <2>1
  <2>2. CASE ~(i < k)
    <3>1. i - (k - 1) \in 1 .. n - k /\ k + (i - (k - 1)) = i + 1 /\ ~(i <= Len(a))
      BY <1>1, <1>2, <2>2
    <3>2. c[i] = b[i - (k - 1)]
      BY SMTT(30), <1>1, <1>2, <1>3, <1>5, <3>1
    <3>3. QED
      BY <1>3, <2>2, <3>1, <3>2
  <2>3. QED
    BY <2>1, <2>2
<1>8. QED
  BY <1>4, <1>6, <1>7

LEMMA ThinRemove ==
  ASSUME NEW A, NEW s \in Seq(A), NEW k \in 1 .. Len(s)
  PROVE  /\ RemoveAt(s, k) \in Seq(A)
         /\ Thinned(RemoveAt(s, k), s)
<1> DEFINE n == Len(s)
           t == RemoveAt(s, k)
           place == [i \in 1 .. n - 1 |-> IF i < k THEN i ELSE i + 1]
<1>1. n \in Nat /\ k \in 1 .. n
  BY LenProperties
<1>2. /\ t \in Seq(A) /\ Len(t) = n - 1
      /\ \A i \in 1 .. n - 1 : t[i] = s[IF i < k THEN i ELSE i + 1]
  BY RemoveLeaves
<1> HIDE DEF n, t
<1>3. place \in [1 .. n - 1 -> 1 .. n]
  BY <1>1
<1>4. \A i \in 1 .. n - 1 : place[i] = IF i < k THEN i ELSE i + 1
  OBVIOUS
<1> HIDE DEF place
<1>5. \A i, j \in 1 .. n - 1 : i < j => place[i] < place[j]
  BY <1>1, <1>4
<1>6. \A i \in 1 .. n - 1 : t[i] = s[place[i]]
  BY <1>2, <1>4
<1>7. Thinned(t, s)
  BY <1>2, <1>3, <1>5, <1>6 DEF Thinned, n
<1>8. QED
  BY <1>2, <1>7 DEF t

LEMMA ThinEmpty ==
  ASSUME NEW A, NEW s \in Seq(A)
  PROVE  <<>> \in Seq(A) /\ Thinned(<<>>, s)
<1>1. Len(<<>>) = 0 /\ <<>> \in Seq(A)
  BY EmptySeq
<1> DEFINE none == [i \in 1 .. 0 |-> i]
<1>2. none \in [1 .. Len(<<>>) -> 1 .. Len(s)]
  BY <1>1
<1> HIDE DEF none
<1>3. /\ \A i, j \in 1 .. Len(<<>>) : i < j => none[i] < none[j]
      /\ \A i \in 1 .. Len(<<>>) : <<>>[i] = s[none[i]]
  BY <1>1
<1>4. QED
  BY <1>1, <1>2, <1>3 DEF Thinned

\* What stands before is not touched.
LEMMA ThinAfter ==
  ASSUME NEW A, NEW p \in Seq(A), NEW s \in Seq(A), NEW t \in Seq(A), Thinned(t, s)
  PROVE  Thinned(p \o t, p \o s)
<1> DEFINE k == Len(p)
           n == Len(s)
           m == Len(t)
           a == p \o s
           b == p \o t
<1>1. k \in Nat /\ n \in Nat /\ m \in Nat
  BY LenProperties
<1>2. /\ Len(a) = k + n
      /\ \A i \in 1 .. k + n : a[i] = IF i <= k THEN p[i] ELSE s[i - k]
  BY ConcatProperties
<1>3. /\ Len(b) = k + m
      /\ \A i \in 1 .. k + m : b[i] = IF i <= k THEN p[i] ELSE t[i - k]
  BY ConcatProperties
<1>4. PICK f \in [1 .. m -> 1 .. n] :
        /\ \A i, j \in 1 .. m : i < j => f[i] < f[j]
        /\ \A i \in 1 .. m : t[i] = s[f[i]]
  BY DEF Thinned
<1> HIDE DEF k, n, m, a, b
<1> DEFINE g == [i \in 1 .. k + m |-> IF i <= k THEN i ELSE k + f[i - k]]
<1>5. \A i \in 1 .. k + m : i > k => i - k \in 1 .. m /\ f[i - k] \in 1 .. n
  BY <1>1, <1>4
<1>6. g \in [1 .. k + m -> 1 .. k + n]
  BY <1>1, <1>5
<1>7. \A i \in 1 .. k + m : g[i] = IF i <= k THEN i ELSE k + f[i - k]
  OBVIOUS
<1> HIDE DEF g
<1>8. ASSUME NEW i \in 1 .. k + m, NEW j \in 1 .. k + m, i < j PROVE g[i] < g[j]
  <2>1. CASE i <= k
    BY SMTT(30), <1>1, <1>5, <1>7, <1>8, <2>1
  <2>2. CASE i > k
    <3>1. i - k \in 1 .. m /\ j - k \in 1 .. m /\ i - k < j - k
      BY <1>1, <1>8, <2>2
    <3>2. f[i - k] < f[j - k]
      BY <1>4, <3>1
    <3>3. f[i - k] \in 1 .. n /\ f[j - k] \in 1 .. n
      BY <1>4, <3>1
    <3>4. g[i] = k + f[i - k] /\ g[j] = k + f[j - k]
      BY <1>1, <1>7, <1>8, <2>2
    <3>5. QED
      BY SMTT(30), <1>1, <3>2, <3>3, <3>4
  <2>3. QED
    BY <1>1, <2>1, <2>2
<1>9. ASSUME NEW i \in 1 .. k + m PROVE b[i] = a[g[i]]
  <2>1. CASE i <= k
    <3>1. i \in 1 .. k + n /\ g[i] = i
      BY <1>1, <1>7, <2>1
    <3>2. a[i] = p[i] /\ b[i] = p[i]
      BY <1>2, <1>3, <2>1, <3>1
    <3>3. QED
      BY <3>1, <3>2
  <2>2. CASE i > k
    <3>1. i - k \in 1 .. m /\ f[i - k] \in 1 .. n /\ b[i] = t[i - k]
      BY <1>1, <1>3, <1>5, <2>2
    <3>2. g[i] = k + f[i - k] /\ g[i] \in 1 .. k + n /\ ~(g[i] <= k) /\ g[i] - k = f[i - k]
      BY <1>1, <1>7, <2>2, <3>1
    <3>3. a[g[i]] = s[f[i - k]]
      BY <1>2, <3>2
    <3>4. QED
      BY <1>4, <3>1, <3>3
  <2>3. QED
    BY <1>1, <2>1, <2>2
<1>10. Len(a) = k + n /\ Len(b) = k + m
  BY <1>2, <1>3
<1>11. Thinned(b, a)
  BY <1>6, <1>8, <1>9, <1>10 DEF Thinned
<1>12. QED
  BY <1>11 DEF a, b

\* What is left keeps its order, and so do answers.
LEMMA ThinOrdered ==
  ASSUME NEW s, NEW t, Thinned(t, s)
  PROVE  /\ Ordered(s) => Ordered(t)
         /\ InOrder(s) => InOrder(t)
<1>1. PICK place \in [1 .. Len(t) -> 1 .. Len(s)] :
        /\ \A i, j \in 1 .. Len(t) : i < j => place[i] < place[j]
        /\ \A i \in 1 .. Len(t) : t[i] = s[place[i]]
  BY DEF Thinned
<1>2. \A i \in 1 .. Len(t) : place[i] \in 1 .. Len(s)
  BY <1>1
<1>3. Ordered(s) => Ordered(t)
  BY <1>1, <1>2 DEF Ordered
<1>4. InOrder(s) => InOrder(t)
  BY <1>1, <1>2 DEF InOrder
<1>5. QED
  BY <1>3, <1>4

-----------------------------------------------------------------------------
(* Sequences that grow *)

\* One element more, larger than all.
LEMMA OrderedAppend ==
  ASSUME NEW s \in Seq(Nat), Ordered(s), NEW n \in Nat,
         \A i \in 1 .. Len(s) : s[i] < n
  PROVE  Ordered(Append(s, n))
<1>1. Len(s) \in Nat
  BY LenProperties
<1>2. /\ Len(Append(s, n)) = Len(s) + 1
      /\ \A i \in 1 .. Len(s) : Append(s, n)[i] = s[i]
      /\ Append(s, n)[Len(s) + 1] = n
  BY AppendProperties
<1> DEFINE k == Len(s)
           t == Append(s, n)
<1>3. /\ k \in Nat /\ Len(t) = k + 1 /\ t[k + 1] = n
      /\ \A i \in 1 .. k : t[i] = s[i] /\ s[i] < n
      /\ \A i, j \in 1 .. k : i < j => s[i] < s[j]
  BY <1>1, <1>2 DEF Ordered
<1> HIDE DEF k, t
<1>4. ASSUME NEW i \in 1 .. k + 1, NEW j \in 1 .. k + 1, i < j PROVE t[i] < t[j]
  <2>1. i \in 1 .. k /\ (j \in 1 .. k \/ j = k + 1)
    BY <1>3, <1>4
  <2>2. QED
    BY <1>3, <1>4, <2>1
<1>5. QED
  BY <1>3, <1>4 DEF Ordered, t

LEMMA OrderedIncreasing ==
  ASSUME NEW s, Len(s) \in Nat, Ordered(s)
  PROVE  Increasing(s)
<1>1. \A i \in 1 .. Len(s) - 1 : i \in 1 .. Len(s) /\ i + 1 \in 1 .. Len(s) /\ i < i + 1
  OBVIOUS
<1>2. QED
  BY <1>1 DEF Ordered, Increasing

\* A part of an ordered sequence is ordered.
LEMMA OrderedParts ==
  ASSUME NEW A, NEW s \in Seq(A), NEW t \in Seq(A), Ordered(s \o t)
  PROVE  /\ Ordered(s)
         /\ \A i \in 1 .. Len(s), j \in 1 .. Len(t) : s[i] < t[j]
<1> DEFINE k == Len(s)
           n == Len(t)
           a == s \o t
<1>1. /\ k \in Nat /\ n \in Nat /\ Len(a) = k + n
      /\ \A i \in 1 .. k + n : a[i] = IF i <= k THEN s[i] ELSE t[i - k]
  BY LenProperties, ConcatProperties
<1>2. \A i, j \in 1 .. k + n : i < j => a[i] < a[j]
  BY <1>1 DEF Ordered
<1> HIDE DEF k, n, a
<1>3. \A i \in 1 .. k : i \in 1 .. k + n /\ a[i] = s[i]
  BY <1>1
<1>4. \A j \in 1 .. n : j + k \in 1 .. k + n /\ a[j + k] = t[j]
  <2>1. ASSUME NEW j \in 1 .. n PROVE j + k \in 1 .. k + n /\ a[j + k] = t[j]
    <3>1. j + k \in 1 .. k + n /\ ~(j + k <= k) /\ j + k - k = j
      BY <1>1
    <3>2. QED
      BY <1>1, <3>1
  <2>2. QED
    BY <2>1
<1>5. \A i, j \in 1 .. k : i < j => s[i] < s[j]
  BY <1>2, <1>3
<1>6. \A i \in 1 .. k, j \in 1 .. n : s[i] < t[j]
  <2>1. \A i \in 1 .. k, j \in 1 .. n : i < j + k
    BY <1>1
  <2>2. QED
    BY <1>2, <1>3, <1>4, <2>1
<1>7. QED
  BY <1>5, <1>6 DEF Ordered, k, n

\* A sequence is its first n elements and the others.
LEMMA SplitAt ==
  ASSUME NEW A, NEW s \in Seq(A), NEW n \in 0 .. Len(s)
  PROVE  /\ SubSeq(s, 1, n) \in Seq(A) /\ SubSeq(s, n + 1, Len(s)) \in Seq(A)
         /\ SubSeq(s, 1, n) \o SubSeq(s, n + 1, Len(s)) = s
<1> DEFINE m == Len(s)
           a == SubSeq(s, 1, n)
           b == SubSeq(s, n + 1, m)
<1>1. m \in Nat /\ n \in 0 .. m
  BY LenProperties
<1>2. a \in Seq(A) /\ Len(a) = n /\ \A i \in 1 .. n : a[i] = s[i]
  <2>1. a = [i \in 1 .. n |-> s[i]]
    BY <1>1
  <2>2. \A i \in 1 .. n : s[i] \in A
    BY <1>1, ElementOfSeq
  <2>3. n \in Nat /\ [i \in 1 .. n |-> s[i]] \in [1 .. n -> A]
    BY <1>1, <2>2
  <2> HIDE DEF a
  <2>4. QED
    BY <2>1, <2>3, FunctionSeq
<1>3. b \in Seq(A) /\ Len(b) = m - n /\ \A i \in 1 .. m - n : b[i] = s[n + i]
  <2>1. b = [i \in 1 .. m - n |-> s[n + i]]
    BY <1>1
  <2>2. \A i \in 1 .. m - n : s[n + i] \in A
    BY <1>1, ElementOfSeq
  <2>3. m - n \in Nat /\ [i \in 1 .. m - n |-> s[n + i]] \in [1 .. m - n -> A]
    BY <1>1, <2>2
  <2> HIDE DEF b
  <2>4. QED
    BY <2>1, <2>3, FunctionSeq
<1> HIDE DEF a, b
<1>4. /\ a \o b \in Seq(A) /\ Len(a \o b) = Len(a) + Len(b)
      /\ \A i \in 1 .. Len(a) + Len(b) :
           (a \o b)[i] = IF i <= Len(a) THEN a[i] ELSE b[i - Len(a)]
  BY <1>2, <1>3, ConcatProperties
<1> DEFINE c == a \o b
<1>5. c \in Seq(A) /\ Len(c) = m
  BY <1>1, <1>2, <1>3, <1>4
<1>6. ASSUME NEW i \in 1 .. m PROVE c[i] = s[i]
  <2>1. CASE i <= n
    BY <1>1, <1>2, <1>3, <1>4, <2>1
  <2>2. CASE i > n
    <3>1. i - n \in 1 .. m - n /\ n + (i - n) = i
      BY <1>1, <2>2
    <3>2. c[i] = b[i - n]
      BY <1>1, <1>2, <1>3, <1>4, <2>2
    <3>3. QED
      BY <1>3, <3>1, <3>2
  <2>3. i <= n \/ i > n
    BY <1>1
  <2>4. QED
    BY <2>1, <2>2, <2>3
<1> HIDE DEF c
<1>7. c = s
  BY <1>5, <1>6, SeqEqual
<1>8. QED
  BY <1>2, <1>3, <1>7 DEF a, b, c

\* The first element moves from one sequence to the end of the other.
LEMMA MoveFirst ==
  ASSUME NEW A, NEW s \in Seq(A), NEW t \in Seq(A), t # <<>>
  PROVE  /\ Head(t) \in A /\ Tail(t) \in Seq(A) /\ Append(s, Head(t)) \in Seq(A)
         /\ Append(s, Head(t)) \o Tail(t) = s \o t
<1>1. Head(t) \in A /\ Tail(t) \in Seq(A) /\ t = <<Head(t)>> \o Tail(t)
  BY FirstAndRest
<1> DEFINE h == <<Head(t)>>
           u == Tail(t)
<1>2. h \in Seq(A)
  BY <1>1
<1>3. Append(s, Head(t)) = s \o h /\ Append(s, Head(t)) \in Seq(A)
  BY <1>1, AppendIsConcat, AppendProperties
<1> HIDE DEF h, u
<1>4. u \in Seq(A) /\ t = h \o u
  BY <1>1 DEF h, u
<1>5. (s \o h) \o u = s \o (h \o u)
  BY SMTT(30), <1>2, <1>4, ConcatAssociative
<1>6. QED
  BY <1>1, <1>3, <1>4, <1>5 DEF u

\* An answer more, to a later request than all others.
LEMMA InOrderAppend ==
  ASSUME NEW s \in Seq(Message), InOrder(s), NEW m \in Message,
         \A i \in 1 .. Len(s) : s[i] \in Response /\ m \in Response => s[i].number < m.number
  PROVE  InOrder(Append(s, m)) /\ Append(s, m) \in Seq(Message)
<1>1. Append(s, m) \in Seq(Message)
  BY AppendProperties
<1>2. /\ Len(s) \in Nat
      /\ Len(Append(s, m)) = Len(s) + 1
      /\ \A i \in 1 .. Len(s) : Append(s, m)[i] = s[i]
      /\ Append(s, m)[Len(s) + 1] = m
  BY LenProperties, AppendProperties
<1> DEFINE k == Len(s)
           t == Append(s, m)
<1>3. /\ k \in Nat /\ Len(t) = k + 1 /\ t[k + 1] = m
      /\ \A i \in 1 .. k : t[i] = s[i]
  BY <1>2
<1>4. /\ \A i \in 1 .. k : s[i] \in Response /\ m \in Response => s[i].number < m.number
      /\ \A i, j \in 1 .. k : i < j /\ s[i] \in Response /\ s[j] \in Response
                                => s[i].number < s[j].number
  BY DEF InOrder
<1> HIDE DEF k, t
<1>5. ASSUME NEW i \in 1 .. k + 1, NEW j \in 1 .. k + 1, i < j,
             t[i] \in Response, t[j] \in Response
      PROVE  t[i].number < t[j].number
  <2>1. i \in 1 .. k /\ (j \in 1 .. k \/ j = k + 1)
    BY <1>3, <1>5
  <2>2. QED
    BY <1>3, <1>4, <1>5, <2>1
<1>6. InOrder(t)
  BY <1>3, <1>5 DEF InOrder
<1>7. QED
  BY <1>1, <1>6 DEF t

-----------------------------------------------------------------------------
(* The master's numbers *)

LEMMA NumberedNext ==
  ASSUME NEW n \in Nat, NEW seq, Numbered(n, seq)
  PROVE  Numbered(n + 1, (seq + 1) % SeqCount)
<1>1. SeqCount \in Nat /\ SeqCount > 0 /\ seq \in 0 .. SeqCount - 1
  BY SeqCountAssumption DEF Numbered
<1>2. PICK rounds \in Nat : n = rounds * SeqCount + seq
  BY DEF Numbered
<1>3. CASE seq + 1 < SeqCount
  <2>1. (seq + 1) % SeqCount = seq + 1
    BY <1>1, <1>3
  <2>2. seq + 1 \in 0 .. SeqCount - 1 /\ n + 1 = rounds * SeqCount + (seq + 1)
    BY <1>1, <1>2, <1>3
  <2>3. QED
    BY <2>1, <2>2 DEF Numbered
<1>4. CASE seq + 1 = SeqCount
  <2>1. (seq + 1) % SeqCount = 0
    BY <1>1, <1>4
  <2>2. (rounds + 1) * SeqCount = rounds * SeqCount + SeqCount
    BY <1>1
  <2>3. n + 1 = (rounds + 1) * SeqCount + 0 /\ rounds + 1 \in Nat /\ 0 \in 0 .. SeqCount - 1
    BY <1>1, <1>2, <1>4, <2>2
  <2>4. QED
    BY <2>1, <2>3 DEF Numbered
<1>5. QED
  BY <1>1, <1>3, <1>4

\* A number comes again only after all the others.
LEMMA NumbersApart ==
  ASSUME NEW m \in Nat, NEW n \in Nat, NEW seq, Numbered(m, seq), Numbered(n, seq), m < n
  PROVE  n - m >= SeqCount
<1>1. SeqCount \in Nat /\ SeqCount > 0 /\ seq \in 0 .. SeqCount - 1
  BY SeqCountAssumption DEF Numbered
<1>2. PICK j \in Nat : m = j * SeqCount + seq
  BY DEF Numbered
<1>3. PICK k \in Nat : n = k * SeqCount + seq
  BY DEF Numbered
<1>4. j < k
  <2>1. SUFFICES ASSUME k <= j PROVE FALSE
    OBVIOUS
  <2>2. k * SeqCount <= j * SeqCount
    BY <1>1, <2>1
  <2>3. j * SeqCount \in Nat /\ k * SeqCount \in Nat
    BY <1>1
  <2>4. QED
    BY <1>1, <1>2, <1>3, <2>2, <2>3
<1>5. (j + 1) * SeqCount <= k * SeqCount
  BY <1>1, <1>4
<1>6. (j + 1) * SeqCount = j * SeqCount + SeqCount
  BY <1>1
<1>7. j * SeqCount \in Nat /\ k * SeqCount \in Nat
  BY <1>1
<1>8. QED
  BY <1>1, <1>2, <1>3, <1>5, <1>6, <1>7

\* The next number is used, for a request or for none.
LEMMA NumberUsed ==
  ASSUME SendingIInv, TakeSeq
  PROVE  /\ used \in Nat /\ used' = used + 1 /\ used' \in 0 .. MaxUsed
         /\ Numbered(used', masterSeq')
<1>1. /\ used \in 0 .. MaxUsed /\ used < MaxUsed /\ used' = used + 1
      /\ masterSeq' = (masterSeq + 1) % SeqCount /\ Numbered(used, masterSeq)
  BY DEF SendingIInv, TakeSeq, NextSeq
<1>2. used \in Nat /\ used' \in 0 .. MaxUsed
  BY <1>1, MaxUsedAssumption
<1>3. Numbered(used + 1, (masterSeq + 1) % SeqCount)
  BY <1>1, <1>2, NumberedNext
<1>4. QED
  BY <1>1, <1>2, <1>3

\* A master's request that was sent is one of those in the list, or the last.
LEMMA SentAppend ==
  ASSUME sent \in Seq(MasterRequest), NEW r \in MasterRequest, sent' = Append(sent, r)
  PROVE  /\ sent' \in Seq(MasterRequest)
         /\ Len(sent) \in Nat /\ Len(sent') = Len(sent) + 1
         /\ sent'[Len(sent) + 1] = r
         /\ \A k \in 1 .. Len(sent) : sent'[k] = sent[k] /\ sent[k] \in MasterRequest
         /\ \A k \in 1 .. Len(sent') : k \in 1 .. Len(sent) \/ k = Len(sent) + 1
<1>1. /\ sent' \in Seq(MasterRequest) /\ Len(sent') = Len(sent) + 1
      /\ sent'[Len(sent) + 1] = r
      /\ \A k \in 1 .. Len(sent) : sent'[k] = sent[k]
  BY AppendProperties
<1>2. Len(sent) \in Nat /\ \A k \in 1 .. Len(sent) : sent[k] \in MasterRequest
  BY LenProperties, ElementOfSeq
<1>3. \A k \in 1 .. Len(sent') : k \in 1 .. Len(sent) \/ k = Len(sent) + 1
  BY <1>1, <1>2
<1>4. QED
  BY <1>1, <1>2, <1>3

LEMMA RequestNumbered ==
  ASSUME SendingIInv, NEW fc, NEW objects, SendRequest(fc, objects), fc # "CONFIRM",
         [fc |-> fc, seq |-> masterSeq, objs |-> objects, nth |-> used + 1] \in MasterRequest
  PROVE  /\ SendingIInv' /\ UNCHANGED heard
         /\ \E r \in MasterRequest : sent' = Append(sent, r)
<1> DEFINE r == [fc |-> fc, seq |-> masterSeq, objs |-> objects, nth |-> used + 1]
<1>1. /\ TakeSeq /\ sent' = Append(sent, r) /\ UNCHANGED heard
  BY DEF SendRequest
<1>2. /\ r \in MasterRequest /\ r.fc = fc /\ r.seq = masterSeq /\ r.nth = used + 1
  OBVIOUS
<1> HIDE DEF r
<1>3. /\ used \in Nat /\ used' = used + 1 /\ used' \in 0 .. MaxUsed
      /\ Numbered(used', masterSeq')
  BY <1>1, NumberUsed
<1>4. sent \in Seq(MasterRequest)
  BY DEF SendingIInv
<1>5. /\ sent' \in Seq(MasterRequest)
      /\ Len(sent) \in Nat /\ Len(sent') = Len(sent) + 1
      /\ sent'[Len(sent) + 1] = r
      /\ \A k \in 1 .. Len(sent) : sent'[k] = sent[k]
      /\ \A k \in 1 .. Len(sent') : k \in 1 .. Len(sent) \/ k = Len(sent) + 1
  BY <1>1, <1>2, <1>4, SentAppend
<1>6. \A k \in 1 .. Len(sent) :
        sent[k].fc # "CONFIRM" =>
          sent[k].nth \in 1 .. used /\ Numbered(sent[k].nth - 1, sent[k].seq)
  BY DEF SendingIInv
<1>7. ASSUME NEW k \in 1 .. Len(sent'), sent'[k].fc # "CONFIRM"
      PROVE  sent'[k].nth \in 1 .. used' /\ Numbered(sent'[k].nth - 1, sent'[k].seq)
  <2>1. CASE k \in 1 .. Len(sent)
    <3>1. sent'[k] = sent[k]
      BY <1>5, <2>1
    <3>2. sent[k].nth \in 1 .. used /\ Numbered(sent[k].nth - 1, sent[k].seq)
      BY <1>6, <1>7, <2>1, <3>1
    <3>3. sent[k].nth \in 1 .. used'
      BY <1>3, <3>2
    <3>4. QED
      BY <3>1, <3>2, <3>3
  <2>2. CASE k = Len(sent) + 1
    <3>1. sent'[k] = r
      BY <1>5, <2>2
    <3>2. Numbered(used, masterSeq)
      BY DEF SendingIInv
    <3>3. used + 1 \in 1 .. used' /\ used + 1 - 1 = used
      BY <1>3
    <3>4. r.nth - 1 = used /\ r.nth \in 1 .. used'
      <4>1. r.nth = used + 1
        BY <1>2
      <4>2. QED
        BY <1>3, <4>1
    <3>5. Numbered(r.nth - 1, r.seq)
      BY <1>2, <3>2, <3>4
    <3>6. QED
      BY <3>1, <3>4, <3>5
  <2>3. QED
    BY <1>5, <2>1, <2>2
<1>8. ASSUME NEW j \in 1 .. Len(sent'), NEW k \in 1 .. Len(sent'), j < k,
             sent'[j].fc # "CONFIRM", sent'[k].fc # "CONFIRM"
      PROVE  sent'[j].nth < sent'[k].nth
  <2>1. j \in 1 .. Len(sent) /\ sent'[j] = sent[j]
    BY <1>5, <1>8
  <2>2. CASE k \in 1 .. Len(sent)
    BY <1>5, <1>8, <2>1, <2>2 DEF SendingIInv
  <2>3. CASE k = Len(sent) + 1
    <3>1. sent'[k].nth = used + 1
      BY <1>2, <1>5, <2>3
    <3>2. sent[j].nth \in 1 .. used
      BY <1>6, <1>8, <2>1
    <3>3. QED
      BY <1>3, <2>1, <3>1, <3>2
  <2>4. QED
    BY <1>5, <2>2, <2>3
<1>9. masterSeq' \in 0 .. SeqCount - 1
  BY <1>3 DEF Numbered
<1>10. SendingIInv'
  BY <1>3, <1>5, <1>7, <1>8 DEF SendingIInv
<1>11. QED
  BY <1>1, <1>2, <1>10

\* What the master polls, with any number, is a request it may send.
LEMMA PollsReadable ==
  ASSUME NEW fc \in OtherCodes, NEW objects \in Seq(ReadObject), SendingIInv
  PROVE  [fc |-> fc, seq |-> masterSeq, objs |-> objects, nth |-> used + 1] \in MasterRequest
<1>1. masterSeq \in Nat /\ used + 1 \in Nat
  BY SeqCountAssumption, MaxUsedAssumption DEF SendingIInv, Numbered
<1>2. QED
  BY <1>1 DEF MasterRequest

LEMMA ControlsReadable ==
  ASSUME NEW fc \in ControlCodes, NEW objects \in Seq(ControlObject), SendingIInv
  PROVE  [fc |-> fc, seq |-> masterSeq, objs |-> objects, nth |-> used + 1] \in MasterRequest
<1>1. masterSeq \in Nat /\ used + 1 \in Nat
  BY SeqCountAssumption, MaxUsedAssumption DEF SendingIInv, Numbered
<1>2. QED
  BY <1>1 DEF MasterRequest

LEMMA ClassObjects ==
  /\ \A class \in 0 .. 3 : ClassObject(class) \in ReadObject
  /\ \A classes \in Seq(1 .. 3) :
       [i \in 1 .. Len(classes) |-> ClassObject(classes[i])] \in Seq(ReadObject)
  /\ EventClasses \in Seq(ReadObject)
<1>1. AllPoints \in SUBSET Int
  BY DEF AllPoints
<1>2. ASSUME NEW class \in 0 .. 3 PROVE ClassObject(class) \in ReadObject
  BY <1>1 DEF ClassObject, ReadObject
<1>3. ASSUME NEW classes \in Seq(1 .. 3)
      PROVE  [i \in 1 .. Len(classes) |-> ClassObject(classes[i])] \in Seq(ReadObject)
  <2>1. Len(classes) \in Nat /\ \A i \in 1 .. Len(classes) : classes[i] \in 0 .. 3
    BY <1>3, LenProperties, ElementOfSeq
  <2>2. [i \in 1 .. Len(classes) |-> ClassObject(classes[i])]
          \in [1 .. Len(classes) -> ReadObject]
    BY <1>2, <2>1
  <2>3. QED
    BY <2>1, <2>2, SeqDef
<1>4. EventClasses \in Seq(ReadObject)
  <2>1. /\ ClassObject(1) \in ReadObject /\ ClassObject(2) \in ReadObject
        /\ ClassObject(3) \in ReadObject
    BY <1>2
  <2>2. QED
    BY <2>1 DEF EventClasses
<1>5. QED
  BY <1>2, <1>3, <1>4

\* A poll or a command sends a request with the next number, or wastes one.
LEMMA MasterSendsNumbered ==
  ASSUME SendingIInv, Poll \/ Command
  PROVE  /\ SendingIInv' /\ UNCHANGED heard
         /\ \/ sent' = sent
            \/ \E r \in MasterRequest : sent' = Append(sent, r)
<1>1. ASSUME NEW objects \in Seq(ReadObject), NEW fc \in OtherCodes, fc # "CONFIRM",
             SendRequest(fc, objects)
      PROVE  /\ SendingIInv' /\ UNCHANGED heard
             /\ \E r \in MasterRequest : sent' = Append(sent, r)
  BY <1>1, PollsReadable, RequestNumbered
<1>2. ASSUME NEW objects \in Seq(ControlObject), NEW fc \in ControlCodes,
             SendRequest(fc, objects)
      PROVE  /\ SendingIInv' /\ UNCHANGED heard
             /\ \E r \in MasterRequest : sent' = Append(sent, r)
  <2>1. fc # "CONFIRM"
    BY DEF ControlCodes
  <2>2. QED
    BY <1>2, <2>1, ControlsReadable, RequestNumbered
<1>3. CASE Poll
  <2>1. PICK objects \in Seq(ReadObject) : SendRequest("READ", objects)
    <3>1. CASE SendIntegrityPoll
      <4>1. <<ClassObject(0)>> \in Seq(ReadObject)
        BY ClassObjects
      <4>2. QED
        BY <3>1, <4>1 DEF SendIntegrityPoll
    <3>2. CASE \E classes \in PollClasses : SendEventPoll(classes)
      BY <3>2, ClassObjects, PollAssumption DEF SendEventPoll
    <3>3. CASE \E class \in PollClass : SendClassPoll(class)
      <4>1. PICK class \in PollClass : SendClassPoll(class)
        BY <3>3
      <4>2. ClassObject(class) \in ReadObject
        BY ClassObjects, PollAssumption
      <4>3. <<ClassObject(class)>> \in Seq(ReadObject)
        BY <4>2
      <4>4. QED
        BY <4>1, <4>3 DEF SendClassPoll
    <3>4. CASE \E scan \in Scan : SendAnalogInputScan(scan)
      <4>1. PICK scan \in Scan : SendAnalogInputScan(scan)
        BY <3>4
      <4> DEFINE o == [group |-> 30, var |-> scan.var, range |-> scan.start .. scan.stop]
      <4>2. scan.var \in Nat /\ scan.start \in Nat /\ scan.stop \in Nat
        BY ScanAssumption
      <4>3. scan.start .. scan.stop \in SUBSET Int
        BY <4>2
      <4>4. o \in ReadObject
        BY <4>2, <4>3 DEF ReadObject
      <4>5. SendRequest("READ", <<o>>)
        BY <4>1 DEF SendAnalogInputScan
      <4> HIDE DEF o
      <4>6. <<o>> \in Seq(ReadObject)
        BY <4>4
      <4>7. QED
        BY <4>5, <4>6
    <3>5. QED
      BY <1>3, <3>1, <3>2, <3>3, <3>4 DEF Poll
  <2>2. "READ" \in OtherCodes /\ "READ" # "CONFIRM"
    BY DEF OtherCodes
  <2>3. QED
    BY <1>1, <2>1, <2>2
<1>4. CASE \E index \in OutputIndex :
             \/ SendDirectOperateBinary(index)
             \/ SendDirectOperateAnalog(index)
             \/ SendSelectBinary(index)
             \/ SendOperateBinary(index)
  <2>1. PICK index \in OutputIndex :
             \/ SendDirectOperateBinary(index)
             \/ SendDirectOperateAnalog(index)
             \/ SendSelectBinary(index)
             \/ SendOperateBinary(index)
    BY <1>4
  <2>2. BinaryControl(index) \in ControlObject /\ AnalogControl(index) \in ControlObject
    BY OutputAssumption DEF BinaryControl, AnalogControl, ControlObject
  <2>3. /\ <<BinaryControl(index)>> \in Seq(ControlObject)
        /\ <<AnalogControl(index)>> \in Seq(ControlObject)
    BY <2>2
  <2>4. PICK fc \in ControlCodes, objects \in Seq(ControlObject) : SendRequest(fc, objects)
    BY <2>1, <2>3 DEF SendDirectOperateBinary, SendDirectOperateAnalog, SendSelectBinary,
                      SendOperateBinary, ControlCodes
  <2>5. QED
    BY <1>2, <2>4
<1>5. CASE FailDirectOperateAnalog
  <2>1. TakeSeq /\ UNCHANGED <<sent, heard>>
    BY <1>5 DEF FailDirectOperateAnalog
  <2>2. /\ used \in Nat /\ used' = used + 1 /\ used' \in 0 .. MaxUsed
        /\ Numbered(used', masterSeq')
    BY <2>1, NumberUsed
  <2>3. \A k \in 1 .. Len(sent) :
          sent[k].fc # "CONFIRM" =>
            sent[k].nth \in 1 .. used' /\ Numbered(sent[k].nth - 1, sent[k].seq)
    BY <2>2 DEF SendingIInv
  <2>4. SendingIInv'
    BY <2>1, <2>2, <2>3 DEF SendingIInv
  <2>5. QED
    BY <2>1, <2>4
<1>6. CASE SendEnableUnsolicited \/ SendDisableUnsolicited
  <2>1. PICK fc \in OtherCodes : fc # "CONFIRM" /\ SendRequest(fc, EventClasses)
    BY <1>6 DEF SendEnableUnsolicited, SendDisableUnsolicited, OtherCodes
  <2>2. QED
    BY <1>1, <2>1, ClassObjects
<1>7. QED
  BY <1>3, <1>4, <1>5, <1>6 DEF Command

\* A response is heard, and confirmed when it asks for it.
LEMMA MasterHears ==
  ASSUME SendingIInv, NEW m \in Message, OnMessage(m)
  PROVE  /\ SendingIInv' /\ heard' = Append(heard, m)
         /\ \/ sent' = sent
            \/ m \notin Response /\ \E r \in MasterRequest : sent' = Append(sent, r)
<1>1. CASE m.uns /\ m.con
  <2> DEFINE r == [fc |-> "CONFIRM", seq |-> m.seq, objs |-> <<>>, nth |-> 0]
  <2>1. /\ sent' = Append(sent, r) /\ UNCHANGED <<masterSeq, used>>
        /\ heard' = Append(heard, m)
    BY <1>1 DEF OnMessage, SendConfirm
  <2>2. r \in MasterRequest
    <3>1. <<>> \in Seq(ReadObject) /\ m.seq \in Nat
      BY EmptySeq DEF Message
    <3>2. QED
      BY <3>1 DEF MasterRequest, OtherCodes
  <2>3. m \notin Response
    BY <1>1 DEF Response
  <2>4. r.fc = "CONFIRM"
    OBVIOUS
  <2> HIDE DEF r
  <2>5. sent \in Seq(MasterRequest)
    BY DEF SendingIInv
  <2>6. /\ sent' \in Seq(MasterRequest)
        /\ Len(sent) \in Nat /\ Len(sent') = Len(sent) + 1
        /\ sent'[Len(sent) + 1] = r
        /\ \A k \in 1 .. Len(sent) : sent'[k] = sent[k]
        /\ \A k \in 1 .. Len(sent') : k \in 1 .. Len(sent) \/ k = Len(sent) + 1
    BY <2>1, <2>2, <2>5, SentAppend
  <2>7. \A k \in 1 .. Len(sent') :
          sent'[k].fc # "CONFIRM" => k \in 1 .. Len(sent) /\ sent'[k] = sent[k]
    BY <2>4, <2>6
  <2>8. SendingIInv'
    BY <2>1, <2>6, <2>7 DEF SendingIInv
  <2>9. QED
    BY <2>1, <2>2, <2>3, <2>8
<1>2. CASE ~(m.uns /\ m.con)
  <2>1. heard' = Append(heard, m) /\ UNCHANGED <<masterSeq, used, sent>>
    BY <1>2 DEF OnMessage
  <2>2. QED
    BY <2>1 DEF SendingIInv
<1>3. QED
  BY <1>1, <1>2

SentGrows == sent' = sent \/ \E r \in MasterRequest : sent' = Append(sent, r)

LEMMA SentStays ==
  ASSUME sent \in Seq(MasterRequest), SentGrows
  PROVE  /\ Len(sent) \in Nat /\ Len(sent') \in Nat
         /\ Len(sent') = Len(sent) \/ Len(sent') = Len(sent) + 1
         /\ 1 .. Len(sent) \subseteq 1 .. Len(sent')
         /\ \A k \in 1 .. Len(sent) : sent'[k] = sent[k]
<1>1. CASE sent' = sent
  BY <1>1, LenProperties
<1>2. CASE \E r \in MasterRequest : sent' = Append(sent, r)
  <2>1. /\ Len(sent) \in Nat /\ Len(sent') = Len(sent) + 1
        /\ \A k \in 1 .. Len(sent) : sent'[k] = sent[k]
    BY <1>2, SentAppend
  <2>2. QED
    BY <2>1
<1>3. QED
  BY <1>1, <1>2 DEF SentGrows

-----------------------------------------------------------------------------
(* The steps, component by component *)

\* Every step but the master's leaves it alone.
MasterIdle == UNCHANGED <<masterSeq, used, sent, heard>>

LEMMA SendingStep ==
  ASSUME SendingIInv, toMaster \in Seq(Message), [StationsNext]_allVars
  PROVE  SendingIInv' /\ SentGrows
<1>1. CASE MasterSends
  BY <1>1, MasterSendsNumbered DEF MasterSends, SentGrows
<1>2. CASE MasterReceives
  <2>1. Head(toMaster) \in Message /\ OnMessage(Head(toMaster))
    BY <1>2, FirstAndRest DEF MasterReceives
  <2>2. QED
    BY <2>1, MasterHears DEF SentGrows
<1>3. CASE MasterIdle
  BY <1>3 DEF MasterIdle, SendingIInv, SentGrows
<1>4. ASSUME ~MasterSends, ~MasterReceives PROVE MasterIdle
  BY <1>4 DEF StationsNext, MasterIdle, masterVars, allVars, OpenClient, ClientOpened,
       CloseClient, LoopStep, ReceiveRequests, HandleRequest, ContinueRead, FinishCallback,
       EndReading, UseDatabase, Unsolicited, BreakConnection, LoseRequest, LoseResponse
<1>5. QED
  BY <1>1, <1>2, <1>3, <1>4

\* The parts of the client the invariant is about.
ClientRests == UNCHANGED <<running, writer, loop, call, connection, raised>>

LEMMA ClientStep ==
  ASSUME ClientIInv, [StationsNext]_allVars
  PROVE  ClientIInv'
<1> USE DEF ClientIInv, OpenIsServed, IsOpen, Serving
<1>1. CASE Open \/ FailOpen
  BY <1>1 DEF Open, FailOpen
<1>2. CASE Opened
  BY <1>2 DEF Opened, StartLoop
<1>3. CASE Close
  BY <1>3 DEF Close, Cancel
<1>4. CASE Closed
  BY <1>4 DEF Closed
<1>5. CASE \E n \in 1 .. Len(incoming) : ReadData(n)
  BY <1>5 DEF ReadData
<1>6. CASE CallbackRaises
  BY <1>6 DEF CallbackRaises, EndLoop
<1>7. CASE CallbackReturns
  BY <1>7 DEF CallbackReturns
<1>8. CASE StopReading
  BY <1>8 DEF StopReading, EndLoop
<1>9. CASE (\E n \in 0 .. Len(incoming) : PeerCloses(n)) \/ ConnectionLost
  BY <1>9 DEF PeerCloses, ConnectionLost
<1>10. CASE ClientRests
  BY <1>10 DEF ClientRests
<1>11. \/ Open \/ FailOpen \/ Opened \/ Close \/ Closed
       \/ \E n \in 1 .. Len(incoming) : ReadData(n)
       \/ CallbackRaises \/ CallbackReturns \/ StopReading
       \/ (\E n \in 0 .. Len(incoming) : PeerCloses(n)) \/ ConnectionLost
       \/ ClientRests
  BY DEF StationsNext, allVars, clientVars, ClientRests, ClientKeeps, MasterSends,
       MasterReceives, OpenClient, ClientOpened,
       CloseClient, LoopStep, ReceiveRequests, HandleRequest, ContinueRead, FinishCallback,
       EndReading, UseDatabase, Unsolicited, BreakConnection, LoseRequest, LoseResponse
<1>12. QED
  BY <1>1, <1>2, <1>3, <1>4, <1>5, <1>6, <1>7, <1>8, <1>9, <1>10, <1>11

LEMMA BoundsStep ==
  ASSUME SendingIInv, SentGrows, [StationsNext]_allVars,
         prompted \in 0 .. MaxUnsolicited, faulted \in 0 .. Len(sent)
  PROVE  prompted' \in 0 .. MaxUnsolicited /\ faulted' \in 0 .. Len(sent')
<1>1. /\ Len(sent) \in Nat /\ Len(sent') \in Nat
      /\ Len(sent') = Len(sent) \/ Len(sent') = Len(sent) + 1
  BY SentStays DEF SendingIInv
<1>2. \/ prompted' = prompted
      \/ prompted < MaxUnsolicited /\ prompted' = prompted + 1
  BY DEF StationsNext, allVars, stationVars, MasterSends, MasterReceives, OpenClient, ClientOpened,
       CloseClient, LoopStep, ReceiveRequests, HandleRequest, ContinueRead, FinishCallback,
       EndReading, UseDatabase, Unsolicited, BreakConnection, LoseRequest, LoseResponse
<1>3. faulted' = faulted \/ faulted' = Len(sent')
  BY DEF StationsNext, allVars, stationVars, MasterSends, MasterReceives, OpenClient, ClientOpened,
       CloseClient, LoopStep, ReceiveRequests, HandleRequest, ContinueRead, FinishCallback,
       EndReading, UseDatabase, Unsolicited, BreakConnection, LoseRequest, LoseResponse,
       Transmit, Fault, NoFault
<1>4. prompted' \in 0 .. MaxUnsolicited
  BY <1>2, MaxUnsolicitedAssumption
<1>5. faulted' \in 0 .. Len(sent')
  BY <1>1, <1>3
<1>6. QED
  BY <1>4, <1>5

LEMMA MasterReadable == Readable(MasterRequest)
<1>1. SUFFICES ASSUME NEW r \in MasterRequest, r.fc = "READ"
               PROVE  r.objs \in Seq(ReadObject)
  BY DEF Readable
<1>2. QED
  BY <1>1 DEF MasterRequest, ControlCodes

LEMMA HeadIsSent ==
  ASSUME SendingIInv, QueueIInv, buffered # <<>>
  PROVE  Head(buffered) \in 1 .. Len(sent) /\ sent[Head(buffered)] \in MasterRequest
<1>1. Head(buffered) \in 1 .. Len(sent)
  BY FirstAndRest DEF QueueIInv
<1>2. QED
  BY <1>1, ElementOfSeq DEF SendingIInv

LEMMA SessionStep ==
  ASSUME SendingIInv, QueueIInv, SessionIInv(MasterRequest), [StationsNext]_allVars
  PROVE  SessionIInv(MasterRequest)'
<1>1. CASE HandleRequest
  <2>1. PICK r \in MasterRequest : HandleAtOnce(r) \/ StartRead(r) \/ FailParse(r)
    BY <1>1, HeadIsSent DEF HandleRequest
  <2>2. QED
    BY <2>1, MasterReadable, SessionPreserves
<1>2. CASE ContinueRead
  BY <1>2, MasterReadable, SessionPreserves DEF ContinueRead
<1>3. CASE UseDatabase
  BY <1>3, MasterReadable, SessionPreserves DEF UseDatabase
<1>4. CASE UNCHANGED <<databaseAll, sessionVars>>
  BY <1>4, MasterReadable, SessionPreserves
<1>5. ASSUME ~HandleRequest, ~ContinueRead, ~UseDatabase
      PROVE  UNCHANGED <<databaseAll, sessionVars>>
  BY <1>5 DEF StationsNext, allVars, outstationVars, vars, MasterSends, MasterReceives,
       OpenClient, ClientOpened, CloseClient, LoopStep, ReceiveRequests, FinishCallback,
       EndReading, Unsolicited, BreakConnection, LoseRequest, LoseResponse
<1>6. QED
  BY <1>1, <1>2, <1>3, <1>4, <1>5

-----------------------------------------------------------------------------
(* Requests on their way *)

LEMMA QueueType ==
  ASSUME QueueIInv
  PROVE  /\ received \in Seq(1 .. Len(sent)) /\ buffered \in Seq(1 .. Len(sent))
         /\ incoming \in Seq(1 .. Len(sent))
         /\ received \o buffered \in Seq(1 .. Len(sent))
         /\ Queue \in Seq(1 .. Len(sent))
<1>1. /\ received \in Seq(1 .. Len(sent)) /\ buffered \in Seq(1 .. Len(sent))
      /\ incoming \in Seq(1 .. Len(sent))
  BY DEF QueueIInv
<1>2. received \o buffered \in Seq(1 .. Len(sent))
  BY <1>1, ConcatProperties
<1>3. QED
  BY <1>1, <1>2, ConcatProperties DEF Queue

\* Requests are lost on the way, and the master may send another that is lost
\* at once.
LEMMA QueueThins ==
  ASSUME SendingIInv, QueueIInv, SentGrows, UNCHANGED <<received, requests, buffered>>,
         incoming' \in Seq(1 .. Len(sent)), Thinned(incoming', incoming)
  PROVE  QueueIInv'
<1>1. /\ 1 .. Len(sent) \subseteq 1 .. Len(sent')
      /\ \A k \in 1 .. Len(sent) : sent'[k] = sent[k]
  BY SentStays DEF SendingIInv
<1>2. /\ received \in Seq(1 .. Len(sent)) /\ buffered \in Seq(1 .. Len(sent))
      /\ incoming \in Seq(1 .. Len(sent)) /\ received \o buffered \in Seq(1 .. Len(sent))
  BY QueueType
<1>3. /\ received' \in Seq(1 .. Len(sent')) /\ buffered' \in Seq(1 .. Len(sent'))
      /\ incoming' \in Seq(1 .. Len(sent'))
  BY <1>1, <1>2, SeqMonotonic
<1>4. Ordered(Queue')
  <2> DEFINE p == received \o buffered
  <2>1. p \in Seq(1 .. Len(sent)) /\ Queue = p \o incoming /\ Queue' = p \o incoming'
    BY <1>2 DEF Queue
  <2> HIDE DEF p
  <2>2. Thinned(p \o incoming', p \o incoming)
    BY <1>2, <2>1, ThinAfter
  <2>3. QED
    BY <2>1, <2>2, ThinOrdered DEF QueueIInv
<1>5. \A i \in 1 .. Len(received) : received[i] \in 1 .. Len(sent)
  BY <1>2, ElementOfSeq
<1>6. QED
  BY <1>1, <1>3, <1>4, <1>5 DEF QueueIInv

LEMMA ThinSame ==
  ASSUME NEW s, Len(s) \in Nat
  PROVE  Thinned(s, s)
<1> DEFINE place == [i \in 1 .. Len(s) |-> i]
<1>1. place \in [1 .. Len(s) -> 1 .. Len(s)]
  OBVIOUS
<1>2. \A i \in 1 .. Len(s) : place[i] = i
  OBVIOUS
<1> HIDE DEF place
<1>3. /\ \A i, j \in 1 .. Len(s) : i < j => place[i] < place[j]
      /\ \A i \in 1 .. Len(s) : s[i] = s[place[i]]
  BY <1>2
<1>4. QED
  BY <1>1, <1>3 DEF Thinned

\* What the master sends follows what it sent before.
LEMMA QueueGrows ==
  ASSUME SendingIInv, QueueIInv, SentGrows, UNCHANGED <<received, requests, buffered>>,
         Transmit
  PROVE  QueueIInv'
<1>1. /\ Len(sent) \in Nat /\ Len(sent') \in Nat
      /\ Len(sent') = Len(sent) \/ Len(sent') = Len(sent) + 1
      /\ 1 .. Len(sent) \subseteq 1 .. Len(sent')
      /\ \A k \in 1 .. Len(sent) : sent'[k] = sent[k]
  BY SentStays DEF SendingIInv
<1>2. /\ received \in Seq(1 .. Len(sent)) /\ buffered \in Seq(1 .. Len(sent))
      /\ incoming \in Seq(1 .. Len(sent)) /\ received \o buffered \in Seq(1 .. Len(sent))
      /\ Queue \in Seq(1 .. Len(sent))
  BY QueueType
<1>3. CASE incoming' = incoming
  <2>1. Thinned(incoming', incoming)
    BY <1>2, <1>3, LenProperties, ThinSame
  <2>2. QED
    BY <1>2, <1>3, <2>1, QueueThins
<1>4. CASE Len(sent') = Len(sent) /\ incoming' = incoming \o NewRequests
  <2>1. NewRequests = <<>>
    <3> DEFINE new == NewRequests
    <3>1. Len(sent') - Len(sent) = 0
      BY <1>1, <1>4
    <3>2. new \in [1 .. 0 -> Nat]
      BY <1>1, <3>1 DEF NewRequests
    <3> HIDE DEF new
    <3>3. new \in Seq(Nat) /\ Len(new) = 0
      BY <3>2, FunctionSeq
    <3>4. QED
      BY <3>3, EmptySeq DEF new
  <2>2. incoming' = incoming
    BY <1>2, <1>4, <2>1, ConcatEmptySeq
  <2>3. QED
    BY <1>3, <2>2
<1>5. CASE Len(sent') = Len(sent) + 1 /\ incoming' = incoming \o NewRequests
  <2> DEFINE n == Len(sent) + 1
  <2>1. NewRequests = <<n>>
    <3>1. Len(sent') - Len(sent) = 1
      BY <1>1, <1>5
    <3>2. QED
      BY <3>1 DEF NewRequests
  <2>2. n \in 1 .. Len(sent') /\ n \in Nat
    BY <1>1, <1>5
  <2>3. incoming \in Seq(1 .. Len(sent')) /\ Queue \in Seq(1 .. Len(sent'))
    BY <1>1, <1>2, SeqMonotonic
  <2> HIDE DEF n
  <2>4. incoming' = Append(incoming, n)
    BY <1>5, <2>1, <2>2, <2>3, AppendIsConcat
  <2>5. incoming' \in Seq(1 .. Len(sent'))
    BY <2>2, <2>3, <2>4, AppendProperties
  <2>6. Queue' = Append(Queue, n)
    <3> DEFINE p == received \o buffered
    <3>1. p \in Seq(1 .. Len(sent')) /\ Queue = p \o incoming /\ Queue' = p \o incoming'
      BY <1>1, <1>2, SeqMonotonic DEF Queue
    <3> HIDE DEF p
    <3>2. p \o Append(incoming, n) = Append(p \o incoming, n)
      BY SMTT(30), <2>2, <2>3, <3>1, ConcatAppend
    <3>3. QED
      BY <2>4, <3>1, <3>2
  <2>7. Ordered(Queue')
    <3>1. Queue \in Seq(Nat) /\ Ordered(Queue)
      <4>1. 1 .. Len(sent) \subseteq Nat
        BY <1>1
      <4>2. QED
        BY <1>2, <4>1, SeqMonotonic DEF QueueIInv
    <3>2. \A i \in 1 .. Len(Queue) : Queue[i] < n
      <4>1. \A i \in 1 .. Len(Queue) : Queue[i] \in 1 .. Len(sent)
        BY <1>2, ElementOfSeq
      <4>2. QED
        BY <1>1, <4>1 DEF n
    <3>3. QED
      BY <2>2, <2>6, <3>1, <3>2, OrderedAppend
  <2>8. received' \in Seq(1 .. Len(sent')) /\ buffered' \in Seq(1 .. Len(sent'))
    BY <1>1, <1>2, SeqMonotonic
  <2>9. \A i \in 1 .. Len(received) : received[i] \in 1 .. Len(sent)
    BY <1>2, ElementOfSeq
  <2>10. QED
    BY <1>1, <2>5, <2>7, <2>8, <2>9 DEF QueueIInv
<1>6. QED
  BY <1>1, <1>3, <1>4, <1>5 DEF Transmit

\* Requests that are read join those that wait.
LEMMA QueueReads ==
  ASSUME QueueIInv, UNCHANGED <<sent, received, requests>>,
         NEW n \in 1 .. Len(incoming), ReceiveRequests(n)
  PROVE  QueueIInv'
<1> DEFINE M == 1 .. Len(sent)
           a == SubSeq(incoming, 1, n)
           b == SubSeq(incoming, n + 1, Len(incoming))
<1>1. /\ received \in Seq(M) /\ buffered \in Seq(M) /\ incoming \in Seq(M)
      /\ received \o buffered \in Seq(M)
  BY QueueType
<1>2. a \in Seq(M) /\ b \in Seq(M) /\ a \o b = incoming
  <2>1. n \in 0 .. Len(incoming)
    BY <1>1, LenProperties
  <2>2. QED
    BY <1>1, <2>1, SplitAt
<1>3. buffered' = buffered \o a /\ incoming' = b
  BY DEF ReceiveRequests, ReadData
<1> HIDE DEF a, b, M
<1>4. buffered' \in Seq(M) /\ incoming' \in Seq(M)
  BY <1>1, <1>2, <1>3, ConcatProperties
<1>5. Queue' = Queue
  <2>1. /\ Queue' = Cat(Cat(received, Cat(buffered, a)), b)
        /\ Queue = Cat(Cat(received, buffered), incoming)
        /\ Cat(a, b) = incoming
    BY <1>2, <1>3 DEF Queue, Cat
  <2>2. /\ received \in Seq(M) /\ buffered \in Seq(M)
        /\ a \in Seq(M) /\ b \in Seq(M)
    BY <1>1, <1>2
  <2>3. \A s, t, u \in Seq(M) :
          Cat(s, t) \in Seq(M) /\ Cat(Cat(s, t), u) = Cat(s, Cat(t, u))
    BY CatAssociative
  <2>4. Cat(Cat(received, buffered), a) = Cat(received, Cat(buffered, a))
    BY <2>2, <2>3
  <2>5. Cat(received, buffered) \in Seq(M)
    BY <2>2, <2>3
  <2>6. Cat(Cat(Cat(received, buffered), a), b) = Cat(Cat(received, buffered), Cat(a, b))
    BY <2>2, <2>3, <2>5
  <2>7. QED
    BY <2>1, <2>4, <2>6, Zenon
<1>6. QED
  BY <1>1, <1>4, <1>5 DEF QueueIInv, M

\* The first request that waits is handled.
LEMMA QueueHandles ==
  ASSUME SendingIInv, QueueIInv, buffered # <<>>, UNCHANGED <<sent, incoming>>,
         received' = Append(received, Head(buffered)), buffered' = Tail(buffered),
         requests' = Append(requests, sent[Head(buffered)]),
         requests \in Seq(MasterRequest)
  PROVE  /\ QueueIInv'
         /\ Len(received) \in Nat /\ Len(received') = Len(received) + 1
         /\ received'[Len(received) + 1] = Head(buffered)
         /\ \A i \in 1 .. Len(received) :
              received'[i] = received[i] /\ received[i] < Head(buffered)
<1>1. received \in Seq(1 .. Len(sent)) /\ buffered \in Seq(1 .. Len(sent))
  BY QueueType
<1>2. /\ Head(buffered) \in 1 .. Len(sent) /\ buffered' \in Seq(1 .. Len(sent))
      /\ received' \in Seq(1 .. Len(sent))
      /\ received' \o buffered' = received \o buffered
  <2> DEFINE M == 1 .. Len(sent)
  <2>1. received \in Seq(M) /\ buffered \in Seq(M)
    BY <1>1
  <2> HIDE DEF M
  <2>2. /\ Head(buffered) \in M /\ Tail(buffered) \in Seq(M)
        /\ Append(received, Head(buffered)) \in Seq(M)
        /\ Append(received, Head(buffered)) \o Tail(buffered) = received \o buffered
    BY <2>1, MoveFirst
  <2>3. QED
    BY <2>2 DEF M
<1>3. Queue' = Queue
  BY <1>2 DEF Queue
<1>4. /\ Len(received) \in Nat /\ Len(received') = Len(received) + 1
      /\ received'[Len(received) + 1] = Head(buffered)
      /\ \A i \in 1 .. Len(received) : received'[i] = received[i]
  BY <1>1, <1>2, AppendProperties, LenProperties
<1>5. /\ Len(requests') = Len(requests) + 1
      /\ requests'[Len(requests) + 1] = sent[Head(buffered)]
      /\ \A i \in 1 .. Len(requests) : requests'[i] = requests[i]
  BY HeadIsSent, AppendProperties
<1>6. /\ Len(requests) = Len(received)
      /\ \A i \in 1 .. Len(received) : requests[i] = sent[received[i]]
  BY DEF QueueIInv
<1>7. ASSUME NEW i \in 1 .. Len(received') PROVE requests'[i] = sent'[received'[i]]
  <2>1. i \in 1 .. Len(received) \/ i = Len(received) + 1
    BY <1>4
  <2>2. QED
    BY <1>4, <1>5, <1>6, <2>1
<1>8. QueueIInv'
  <2>1. Len(requests') = Len(received')
    BY <1>4, <1>5, <1>6
  <2>2. incoming' \in Seq(1 .. Len(sent'))
    BY QueueType
  <2>3. Ordered(Queue')
    BY <1>3 DEF QueueIInv
  <2>4. QED
    BY <1>2, <1>7, <2>1, <2>2, <2>3 DEF QueueIInv
<1>9. ASSUME NEW i \in 1 .. Len(received) PROVE received[i] < Head(buffered)
  <2> DEFINE p == received \o buffered
  <2>1. Ordered(p)
    <3>1. p \in Seq(1 .. Len(sent)) /\ incoming \in Seq(1 .. Len(sent)) /\ Ordered(p \o incoming)
      BY QueueType DEF QueueIInv, Queue
    <3> HIDE DEF p
    <3>2. QED
      BY <3>1, OrderedParts
  <2>2. /\ Ordered(received)
        /\ \A j \in 1 .. Len(received), k \in 1 .. Len(buffered) : received[j] < buffered[k]
    BY <1>1, <2>1, OrderedParts
  <2>3. 1 \in 1 .. Len(buffered) /\ Head(buffered) = buffered[1]
    BY <1>1, EmptySeq, LenProperties, HeadTailProperties
  <2>4. QED
    BY <2>2, <2>3
<1>10. QED
  BY <1>4, <1>8, <1>9

-----------------------------------------------------------------------------
(* Responses on their way *)

LEMMA MessagesType ==
  ASSUME RepliesIInv
  PROVE  /\ heard \in Seq(Answers) /\ toMaster \in Seq(Answers) /\ Messages \in Seq(Answers)
         /\ heard \in Seq(Message) /\ toMaster \in Seq(Message) /\ Messages \in Seq(Message)
<1>1. heard \in Seq(Answers) /\ toMaster \in Seq(Answers)
  BY DEF RepliesIInv
<1>2. Messages \in Seq(Answers)
  BY <1>1, ConcatProperties DEF Messages
<1>3. Answers \subseteq Message
  BY DEF Answers
<1>4. QED
  BY <1>1, <1>2, <1>3, SeqMonotonic

\* A response on its way answers a request, whatever is sent after it.
LEMMA AnswersStay ==
  ASSUME SendingIInv, QueueIInv, SentGrows, UNCHANGED <<received, phase>>
  PROVE  Answers \subseteq Answers'
<1>1. \A k \in 1 .. Len(sent) : sent'[k] = sent[k]
  BY SentStays DEF SendingIInv
<1>2. \A i \in 1 .. Len(received) : received[i] \in 1 .. Len(sent)
  BY QueueType, ElementOfSeq
<1>3. ASSUME NEW i \in 1 .. Len(received)
      PROVE  sent'[received'[i]] = sent[received[i]]
  BY <1>1, <1>2
<1>4. QED
  BY <1>3 DEF Answers, NeedsAnswer, Response, Message

\* Responses are lost, or come to the master.
LEMMA RepliesThin ==
  ASSUME SendingIInv, QueueIInv, RepliesIInv, SentGrows, UNCHANGED <<received, phase>>,
         heard' \in Seq(Answers), toMaster' \in Seq(Answers), Thinned(Messages', Messages)
  PROVE  RepliesIInv'
<1>1. heard' \in Seq(Answers') /\ toMaster' \in Seq(Answers')
  BY AnswersStay, SeqMonotonic
<1>2. InOrder(Messages')
  BY ThinOrdered DEF RepliesIInv
<1>3. InOrder(Messages)'
  BY <1>2 DEF InOrder, Response
<1>4. QED
  BY <1>1, <1>3 DEF RepliesIInv

\* A message follows the others.
LEMMA RepliesAppend ==
  ASSUME RepliesIInv, UNCHANGED heard, Answers \subseteq Answers',
         NEW m \in Answers', toMaster' = Append(toMaster, m),
         \A i \in 1 .. Len(Messages) :
           Messages[i] \in Response /\ m \in Response => Messages[i].number < m.number
  PROVE  RepliesIInv'
<1>1. heard \in Seq(Message) /\ toMaster \in Seq(Message) /\ Messages \in Seq(Message)
  BY MessagesType
<1>2. m \in Message
  BY DEF Answers, Message
<1>3. Messages' = Append(Messages, m)
  BY <1>1, <1>2, ConcatAppend DEF Messages
<1>4. heard \in Seq(Answers') /\ toMaster \in Seq(Answers')
  BY MessagesType, SeqMonotonic
<1>5. heard' \in Seq(Answers') /\ toMaster' \in Seq(Answers')
  BY <1>4, AppendProperties
<1>6. InOrder(Append(Messages, m))
  BY <1>1, <1>2, InOrderAppend DEF RepliesIInv
<1>7. InOrder(Messages)'
  BY <1>3, <1>6 DEF InOrder, Response
<1>8. QED
  BY <1>5, <1>7 DEF RepliesIInv

-----------------------------------------------------------------------------
(* Handling requests *)

\* The outstation tells its application what a request commands.
Told == [DIRECT_OPERATE |-> "direct", SELECT |-> "select", OPERATE |-> "operate"]

\* What the requests that were received command.
Commands == [i \in 1 .. Len(received) |-> Controls(sent[received[i]], Told)]

LEMMA CommandsOnceIs ==
  CommandsOnce <=> Increasing(received) /\ handled = FlattenSeq(Commands)
  BY DEF CommandsOnce, Commands, Told

LEMMA ControlsType ==
  ASSUME NEW r \in MasterRequest
  PROVE  /\ Controls(r, Told) \in Seq(Calls)
         /\ r.fc \notin ControlCodes => Controls(r, Told) = <<>>
<1>1. DOMAIN Told = ControlCodes
  BY DEF Told, ControlCodes
<1>2. CASE r.fc \in ControlCodes
  <2>1. r.objs \in Seq(ControlObject)
    BY <1>2 DEF MasterRequest, ControlCodes, OtherCodes
  <2>2. Len(r.objs) \in Nat /\ \A j \in 1 .. Len(r.objs) : r.objs[j].index \in Nat
    <3>1. Len(r.objs) \in Nat /\ \A j \in 1 .. Len(r.objs) : r.objs[j] \in ControlObject
      BY <2>1, LenProperties, ElementOfSeq
    <3>2. QED
      BY <3>1 DEF ControlObject
  <2>3. Told[r.fc] \in {"direct", "select", "operate"}
    BY <1>2 DEF Told, ControlCodes
  <2>4. Controls(r, Told)
          = [j \in 1 .. Len(r.objs) |-> [op |-> Told[r.fc], index |-> r.objs[j].index]]
    BY <1>1, <1>2 DEF Controls
  <2>5. Controls(r, Told) \in [1 .. Len(r.objs) -> Calls]
    BY <2>2, <2>3, <2>4 DEF Calls
  <2>6. QED
    BY <1>2, <2>2, <2>5, FunctionSeq
<1>3. CASE r.fc \notin ControlCodes
  <2> DEFINE c == Controls(r, Told)
  <2>1. c \in [1 .. 0 -> Calls]
    BY <1>1, <1>3 DEF Controls
  <2> HIDE DEF c
  <2>2. c \in Seq(Calls) /\ Len(c) = 0
    BY <2>1, FunctionSeq
  <2>3. QED
    BY <2>2, EmptySeq DEF c
<1>4. QED
  BY <1>2, <1>3

\* All objects of a command are controls the application is called for.
LEMMA HandlerCalled ==
  ASSUME NEW r \in MasterRequest, r.fc \in ControlCodes, CallHandler(Told[r.fc], r)
  PROVE  handled' = handled \o Controls(r, Told)
<1>1. r.objs \in Seq(ControlObject)
  BY DEF MasterRequest, ControlCodes, OtherCodes
<1>2. Only(r.objs, [group : {12, 41}, index : Nat]) = r.objs
  BY <1>1, OnlyAll DEF ControlObject
<1>3. DOMAIN Told = ControlCodes
  BY DEF Told, ControlCodes
<1>4. Controls(r, Told)
        = [j \in 1 .. Len(r.objs) |-> [op |-> Told[r.fc], index |-> r.objs[j].index]]
  BY <1>3 DEF Controls
<1>5. QED
  BY <1>2, <1>4 DEF CallHandler

\* A request is handled as it commands, whether it is answered or not.
LEMMA HandledOnce ==
  ASSUME handled \in Seq(Calls), NEW r \in MasterRequest,
         HandleAtOnce(r) \/ StartRead(r) \/ FailParse(r)
  PROVE  handled' = handled \o Controls(r, Told)
<1>1. r.fc \in ControlCodes \cup OtherCodes
  BY DEF MasterRequest
<1>2. ASSUME r.fc \notin ControlCodes, handled' = handled
      PROVE  handled' = handled \o Controls(r, Told)
  <2>1. Controls(r, Told) = <<>>
    BY <1>2, ControlsType
  <2>2. handled \o <<>> = handled
    BY ConcatEmptySeq
  <2>3. QED
    BY <1>2, <2>1, <2>2
<1>3. CASE StartRead(r) \/ FailParse(r)
  <2>1. r.fc \notin ControlCodes /\ handled' = handled
    BY <1>3 DEF StartRead, FailParse, Unreadable, ControlCodes
  <2>2. QED
    BY <1>2, <2>1
<1>4. CASE HandleAtOnce(r)
  <2>1. CASE HandleDirectOperate(r)
    <3>1. r.fc = "DIRECT_OPERATE" /\ CallHandler("direct", r)
      BY <1>1, <2>1 DEF HandleDirectOperate, ControlCodes, OtherCodes
    <3>2. r.fc \in ControlCodes /\ Told[r.fc] = "direct"
      BY <3>1 DEF Told, ControlCodes
    <3>3. QED
      BY <3>1, <3>2, HandlerCalled
  <2>2. CASE HandleSelect(r)
    <3>1. r.fc = "SELECT" /\ CallHandler("select", r)
      BY <2>2 DEF HandleSelect
    <3>2. r.fc \in ControlCodes /\ Told[r.fc] = "select"
      BY <3>1 DEF Told, ControlCodes
    <3>3. QED
      BY <3>1, <3>2, HandlerCalled
  <2>3. CASE HandleOperate(r)
    <3>1. r.fc = "OPERATE" /\ CallHandler("operate", r)
      BY <2>3 DEF HandleOperate
    <3>2. r.fc \in ControlCodes /\ Told[r.fc] = "operate"
      BY <3>1 DEF Told, ControlCodes
    <3>3. QED
      BY <3>1, <3>2, HandlerCalled
  <2>4. CASE HandleWrite(r) \/ HandleDelayMeasure(r) \/ HandleRestartOrFreeze(r)
             \/ HandleUnsupported(r)
    <3>1. r.fc \in {"WRITE", "DELAY_MEASURE", "COLD_RESTART", "WARM_RESTART", "FREEZE",
                    "UNSUPPORTED"}
      BY <2>4 DEF HandleWrite, HandleDelayMeasure, HandleRestartOrFreeze, HandleUnsupported
    <3>2. QED
      BY <1>1, <3>1 DEF ControlCodes, OtherCodes
  <2>5. CASE HandleUnsolicited(r)
    <3>1. r.fc \notin ControlCodes /\ handled' = handled
      BY <2>5 DEF HandleUnsolicited, NoCalls, ControlCodes
    <3>2. QED
      BY <1>2, <3>1
  <2>6. CASE HandleConfirm(r)
    <3>1. r.fc \notin ControlCodes /\ handled' = handled
      BY <2>6 DEF HandleConfirm, NoCalls, ControlCodes
    <3>2. QED
      BY <1>2, <3>1
  <2>7. QED
    BY <1>4, <2>1, <2>2, <2>3, <2>4, <2>5, <2>6 DEF HandleAtOnce
<1>5. QED
  BY <1>3, <1>4

\* The commands of the requests received stay what they are.
LEMMA CommandsStay ==
  ASSUME SendingIInv, QueueIInv, CommandsIInv, SentGrows, UNCHANGED <<received, handled>>
  PROVE  CommandsIInv'
<1>1. \A k \in 1 .. Len(sent) : sent'[k] = sent[k]
  BY SentStays DEF SendingIInv
<1>2. \A i \in 1 .. Len(received) : received[i] \in 1 .. Len(sent)
  BY QueueType, ElementOfSeq
<1>3. \A i \in 1 .. Len(received) :
        Controls(sent'[received[i]], Told) = Controls(sent[received[i]], Told)
  BY <1>1, <1>2
<1>4. Commands' = Commands
  BY <1>3 DEF Commands, Controls, Told
<1>5. CommandsOnce
  BY DEF CommandsIInv
<1>6. Increasing(received) /\ handled = FlattenSeq(Commands)
  BY <1>5, CommandsOnceIs
<1>7. Increasing(received)' /\ handled' = FlattenSeq(Commands')
  BY <1>4, <1>6 DEF Increasing
<1>8. CommandsOnce'
  BY <1>7 DEF CommandsOnce, Commands, Told
<1>9. QED
  BY <1>8 DEF CommandsIInv, Calls

\* A request more was received: what it commands was told, and no answer it
\* gets comes before those to other requests.
LEMMA CommandsReceived ==
  ASSUME SendingIInv, QueueIInv, CommandsIInv, buffered # <<>>, sent' = sent,
         QueueIInv', received' = Append(received, Head(buffered)),
         handled' = handled \o Controls(sent[Head(buffered)], Told)
  PROVE  CommandsIInv'
<1> DEFINE r == sent[Head(buffered)]
           new == Controls(r, Told)
<1>1. r \in MasterRequest
  BY HeadIsSent
<1>2. new \in Seq(Calls)
  BY <1>1, ControlsType
<1>3. /\ received \in Seq(1 .. Len(sent)) /\ Head(buffered) \in 1 .. Len(sent)
      /\ Len(received) \in Nat
      /\ Len(received') = Len(received) + 1
      /\ \A i \in 1 .. Len(received) : received'[i] = received[i]
      /\ received'[Len(received) + 1] = Head(buffered)
  BY QueueType, HeadIsSent, AppendProperties, LenProperties
<1>4. Commands' = Append(Commands, new)
  <2> DEFINE n == Len(received)
             a == Commands'
             b == Append(Commands, new)
  <2>1. Commands \in Seq(Seq(Calls)) /\ Len(Commands) = n
    <3>1. \A i \in 1 .. n : Controls(sent[received[i]], Told) \in Seq(Calls)
      <4>1. \A i \in 1 .. n : sent[received[i]] \in MasterRequest
        BY <1>3, ElementOfSeq DEF SendingIInv
      <4>2. QED
        BY <4>1, ControlsType
    <3>2. Commands \in [1 .. n -> Seq(Calls)]
      BY <3>1 DEF Commands
    <3>3. QED
      BY <1>3, <3>2, FunctionSeq
  <2>2. /\ b \in Seq(Seq(Calls)) /\ Len(b) = n + 1 /\ b[n + 1] = new
        /\ \A i \in 1 .. n : b[i] = Commands[i]
    <3> HIDE DEF new, n
    <3>1. QED
      BY SMTT(30), <1>2, <2>1, AppendProperties
  <2>3. a = [i \in 1 .. n + 1 |-> Controls(sent[received'[i]], Told)]
    BY <1>3 DEF Commands, Controls, Told
  <2>4. \A i \in 1 .. n : Commands[i] = Controls(sent[received[i]], Told)
    BY DEF Commands
  <2> HIDE DEF b, n
  <2>5. ASSUME NEW i \in 1 .. n + 1 PROVE a[i] = b[i]
    <3>1. a[i] = Controls(sent[received'[i]], Told)
      <4> HIDE DEF a
      <4>1. QED
        BY <2>3
    <3>2. i \in 1 .. n \/ i = n + 1
      BY <1>3 DEF n
    <3>3. CASE i \in 1 .. n
      <4>1. received'[i] = received[i]
        BY <1>3, <3>3 DEF n
      <4>2. QED
        BY <2>2, <2>4, <3>1, <3>3, <4>1
    <3>4. CASE i = n + 1
      <4>1. received'[i] = Head(buffered)
        BY <1>3, <3>4 DEF n
      <4>2. QED
        BY <2>2, <3>1, <3>4, <4>1
    <3>5. QED
      BY <3>2, <3>3, <3>4
  <2>6. b = [i \in 1 .. n + 1 |-> b[i]]
    BY <2>2, SeqDef
  <2>7. a = [i \in 1 .. n + 1 |-> a[i]]
    <3> HIDE DEF a
    <3>1. QED
      BY <2>3
  <2>8. a = b
    <3> HIDE DEF a
    <3>1. QED
      BY <2>5, <2>6, <2>7
  <2>9. QED
    BY <2>8 DEF b
<1>5. Commands \in Seq(Seq(Calls))
  <2> DEFINE n == Len(received)
  <2>1. \A i \in 1 .. n : sent[received[i]] \in MasterRequest
    BY <1>3, ElementOfSeq DEF SendingIInv
  <2>2. \A i \in 1 .. n : Controls(sent[received[i]], Told) \in Seq(Calls)
    BY <2>1, ControlsType
  <2>3. Commands \in [1 .. n -> Seq(Calls)]
    BY <2>2 DEF Commands
  <2>4. QED
    BY <1>3, <2>3, FunctionSeq
<1> HIDE DEF new
<1>6. FlattenSeq(Append(Commands, new)) = FlattenSeq(Commands) \o new
  BY <1>2, <1>5, FlattenAppend
<1>7. handled = FlattenSeq(Commands)
  BY CommandsOnceIs DEF CommandsIInv
<1>8. handled' = FlattenSeq(Commands')
  BY <1>4, <1>6, <1>7 DEF new
<1>9. Increasing(received)'
  <2>1. /\ received' \in Seq(1 .. Len(sent')) /\ buffered' \in Seq(1 .. Len(sent'))
        /\ incoming' \in Seq(1 .. Len(sent'))
        /\ Ordered((received' \o buffered') \o incoming')
    BY DEF QueueIInv, Queue, Ordered
  <2> DEFINE p == received' \o buffered'
             M == 1 .. Len(sent')
  <2>2. p \in Seq(M) /\ incoming' \in Seq(M) /\ Ordered(p \o incoming')
    BY <2>1, ConcatProperties
  <2>3. Ordered(p)
    <3> HIDE DEF p, M
    <3>1. QED
      BY <2>2, OrderedParts
  <2>4. Ordered(received')
    BY <2>1, <2>3, OrderedParts
  <2>5. Len(received') \in Nat
    BY <2>1, LenProperties
  <2>6. Increasing(received')
    BY <2>4, <2>5, OrderedIncreasing
  <2>7. QED
    BY <2>6 DEF Increasing
<1>10. CommandsOnce'
  BY <1>8, <1>9 DEF CommandsOnce, Commands, Told, Increasing
<1>11. handled' \in Seq(Calls)
  BY <1>2, ConcatProperties DEF CommandsIInv, new
<1>12. QED
  BY <1>10, <1>11 DEF CommandsIInv, Calls

\* A request that waited is handled and, if at once, answered.
LEMMA HandleStep ==
  ASSUME SendingIInv, QueueIInv, RepliesIInv, CommandsIInv, SessionIInv(MasterRequest),
         HandleRequest
  PROVE  QueueIInv' /\ RepliesIInv' /\ CommandsIInv'
<1> DEFINE n == Head(buffered)
           r == sent[n]
<1>1. /\ phase = "idle" /\ buffered # <<>>
      /\ received' = Append(received, n) /\ buffered' = Tail(buffered)
      /\ HandleAtOnce(r) \/ StartRead(r) \/ FailParse(r)
      /\ UNCHANGED <<masterVars, incoming>>
      /\ Respond
  BY DEF HandleRequest, Rest, clientVars, CallbackRaises
<1>2. UNCHANGED <<sent, heard, masterSeq, used>>
  BY <1>1 DEF masterVars
<1>3. n \in 1 .. Len(sent) /\ r \in MasterRequest /\ Len(sent) \in Nat
  BY <1>1, HeadIsSent, LenProperties DEF SendingIInv
<1>4. ControlIInv(MasterRequest) /\ requests \in Seq(MasterRequest)
  BY DEF SessionIInv, ControlIInv
<1>5. requests' = Append(requests, r)
  BY <1>1 DEF HandleAtOnce, StartRead, FailParse, Arrives
<1>6. /\ QueueIInv'
      /\ Len(received) \in Nat /\ Len(received') = Len(received) + 1
      /\ received'[Len(received) + 1] = n
      /\ \A i \in 1 .. Len(received) : received'[i] = received[i] /\ received[i] < n
  BY <1>1, <1>2, <1>4, <1>5, QueueHandles
<1>7. CommandsIInv'
  <2>1. handled' = handled \o Controls(r, Told)
    BY <1>1, <1>3, HandledOnce DEF CommandsIInv
  <2>2. QED
    BY <1>1, <1>2, <1>6, <2>1, CommandsReceived
<1>8. Answers \subseteq Answers'
  <2>1. \A i \in 1 .. Len(received) :
          /\ i \in 1 .. Len(received') /\ i < Len(received')
          /\ sent'[received'[i]] = sent[received[i]] /\ received'[i] = received[i]
    BY <1>2, <1>6
  <2>2. QED
    BY <2>1 DEF Answers, NeedsAnswer, Response, Message
<1>9. RepliesIInv'
  <2>1. CASE toMaster' = toMaster
    <3>1. heard \in Seq(Answers') /\ toMaster \in Seq(Answers')
      BY <1>8, MessagesType, SeqMonotonic
    <3>2. Messages' = Messages
      BY <1>2, <2>1 DEF Messages
    <3>3. InOrder(Messages) => InOrder(Messages)'
      BY <3>2 DEF InOrder, Response
    <3>4. QED
      BY <1>2, <2>1, <3>1, <3>3 DEF RepliesIInv
  <2>2. CASE toMaster' # toMaster
    <3> DEFINE m == [uns |-> FALSE, con |-> FALSE, seq |-> last'.seq,
                     number |-> received'[last'.number]]
    <3>1. toMaster' = Append(toMaster, m) /\ answered' # answered
      BY <1>1, <2>2 DEF Respond
    <3>2. HandleAtOnce(r)
      BY <1>1, <3>1 DEF StartRead, FailParse
    <3>3. /\ phase' = "idle" /\ NeedsAnswer(r)
          /\ last'.number = Len(requests) + 1 /\ last'.seq = r.seq
      BY <1>3, <1>4, <3>1, <3>2, AtOnceEffect
    <3>4. Len(requests) = Len(received)
      BY DEF QueueIInv
    <3>5. received'[last'.number] = n
      BY <1>6, <3>3, <3>4
    <3>6. m.number = n /\ m.seq = r.seq /\ m = [uns |-> FALSE, con |-> FALSE,
                                               seq |-> r.seq, number |-> n]
      BY <3>3, <3>5
    <3>7. r.seq \in Nat /\ n \in Nat
      BY <1>3 DEF MasterRequest
    <3>8. m \in Message
      BY <3>6, <3>7 DEF Message
    <3> HIDE DEF m
    <3>9. m \in Answers'
      <4> DEFINE k == Len(received')
      <4>1. k \in 1 .. Len(received') /\ received'[k] = n
        BY <1>6
      <4>2. sent'[received'[k]] = r
        BY <1>2, <4>1
      <4>3. NeedsAnswer(sent'[received'[k]])
        BY <3>3, <4>2
      <4> HIDE DEF k
      <4>4. m.number = received'[k] /\ m.seq = sent'[received'[k]].seq
        BY <3>6, <4>1, <4>2
      <4>5. QED
        BY <3>3, <3>8, <4>1, <4>3, <4>4 DEF Answers, Message, NeedsAnswer
    <3>10. ASSUME NEW i \in 1 .. Len(Messages), Messages[i] \in Response
           PROVE  Messages[i].number < m.number
      <4>1. Messages[i] \in Answers
        BY MessagesType, ElementOfSeq
      <4>2. \E j \in 1 .. Len(received) : Messages[i].number = received[j]
        BY <3>10, <4>1 DEF Answers
      <4>3. QED
        BY <1>6, <3>6, <4>2
    <3>11. QED
      BY <1>2, <1>8, <3>1, <3>9, <3>10, RepliesAppend DEF m
  <2>3. QED
    BY <2>1, <2>2
<1>10. QED
  BY <1>6, <1>7, <1>9

\* A READ goes on, and is answered when its response is complete.
LEMMA ReadingStep ==
  ASSUME SendingIInv, QueueIInv, RepliesIInv, CommandsIInv, SessionIInv(MasterRequest),
         ContinueRead
  PROVE  QueueIInv' /\ RepliesIInv' /\ CommandsIInv'
<1>1. /\ ReadStep /\ Respond
      /\ UNCHANGED <<masterVars, buffered, received, incoming>>
  BY DEF ContinueRead, clientVars, CallbackRaises
<1>2. UNCHANGED <<sent, heard, masterSeq, used>>
  BY SMTT(30), <1>1 DEF masterVars
<1>3. phase # "idle" /\ UNCHANGED <<requests, handled>>
  BY <1>1 DEF ReadStep, ExpandClass0, GatherEvents, GatherPoints, SkipObject, Gathering,
       StartFlags, RefreshFlag, StartResponse, WriteEvent, FailEvent, ReadPointFlags,
       ReadPointValue, FailPoint, Serializing, SendResponse
<1>4. QueueIInv'
  BY <1>1, <1>2, <1>3 DEF QueueIInv, Queue, Ordered
<1>5. CommandsIInv'
  BY <1>1, <1>2, <1>3, CommandsStay DEF SentGrows
<1>6. Answers \subseteq Answers'
  BY <1>1, <1>2, <1>3 DEF Answers, NeedsAnswer, Response, Message
<1>7. RepliesIInv'
  <2>1. CASE toMaster' = toMaster
    <3>1. heard \in Seq(Answers') /\ toMaster \in Seq(Answers')
      BY <1>6, MessagesType, SeqMonotonic
    <3>2. Messages' = Messages
      BY <1>2, <2>1 DEF Messages
    <3>3. InOrder(Messages) => InOrder(Messages)'
      BY <3>2 DEF InOrder, Response
    <3>4. QED
      BY <1>2, <2>1, <3>1, <3>3 DEF RepliesIInv
  <2>2. CASE toMaster' # toMaster
    <3> DEFINE m == [uns |-> FALSE, con |-> FALSE, seq |-> last'.seq,
                     number |-> received'[last'.number]]
               k == Len(received)
               r == sent[received[k]]
    <3>1. toMaster' = Append(toMaster, m) /\ answered' # answered
      BY SMTT(30), <1>1, <2>2 DEF Respond
    <3>2. SendResponse
      BY <1>1, <3>1 DEF ReadStep, ExpandClass0, GatherEvents, GatherPoints, SkipObject,
           Gathering, StartFlags, RefreshFlag, StartResponse, WriteEvent, FailEvent,
           ReadPointFlags, ReadPointValue, FailPoint, Serializing
    <3>3. /\ phase = "serialize" /\ phase' = "idle" /\ last' = response
      BY <3>2 DEF SendResponse
    <3>4. /\ requests # <<>> /\ requests \in Seq(MasterRequest)
          /\ current.request = requests[Len(requests)] /\ current.request.fc = "READ"
      BY <3>3 DEF SessionIInv, ControlIInv
    <3>5. response.number = Len(requests) /\ response.seq = current.request.seq
      <4>1. response = ResponseFor(response)
        BY <3>3 DEF SessionIInv, AnswerIInv
      <4>2. /\ ResponseFor(response).number = Len(requests)
            /\ ResponseFor(response).seq = current.request.seq
        BY DEF ResponseFor
      <4>3. QED
        BY <4>1, <4>2
    <3>6. k = Len(requests) /\ \A i \in 1 .. k : requests[i] = sent[received[i]]
      BY DEF QueueIInv
    <3>7. k \in 1 .. k /\ k \in Nat
      BY <3>4, <3>6, EmptySeq, LenProperties
    <3>8. received[k] \in 1 .. Len(sent) /\ r \in MasterRequest
      BY <3>7, QueueType, ElementOfSeq DEF SendingIInv
    <3>9. current.request = r /\ r.fc = "READ"
      BY <3>4, <3>6, <3>7
    <3>10. last'.number = k /\ last'.seq = r.seq
      BY <3>3, <3>5, <3>6, <3>9
    <3>11. m = [uns |-> FALSE, con |-> FALSE, seq |-> r.seq, number |-> received[k]]
      BY <1>1, <3>10
    <3>12. r.seq \in Nat /\ received[k] \in Nat
      <4>1. Len(sent) \in Nat
        BY LenProperties DEF SendingIInv
      <4>2. QED
        BY <3>8, <4>1 DEF MasterRequest
    <3>13. m \in Message /\ m.seq = r.seq /\ m.number = received[k]
      BY <3>11, <3>12 DEF Message
    <3> HIDE DEF m
    <3>14. m \in Answers'
      <4>1. NeedsAnswer(sent'[received'[k]])
        BY <1>1, <1>2, <3>9 DEF NeedsAnswer
      <4>2. m.number = received'[k] /\ m.seq = sent'[received'[k]].seq
        BY <1>1, <1>2, <3>13
      <4>3. k \in 1 .. Len(received')
        BY <1>1, <3>7
      <4> HIDE DEF k
      <4>4. QED
        BY <3>3, <3>13, <4>1, <4>2, <4>3 DEF Answers, Message, NeedsAnswer
    <3>15. ASSUME NEW i \in 1 .. Len(Messages), Messages[i] \in Response
           PROVE  Messages[i].number < m.number
      <4>1. Messages[i] \in Answers
        BY MessagesType, ElementOfSeq
      <4>2. PICK j \in 1 .. Len(received) : Messages[i].number = received[j] /\ j < k
        BY <1>3, <3>15, <4>1 DEF Answers
      <4>3. Ordered(received)
        <5>1. /\ received \in Seq(1 .. Len(sent)) /\ buffered \in Seq(1 .. Len(sent))
              /\ incoming \in Seq(1 .. Len(sent))
              /\ received \o buffered \in Seq(1 .. Len(sent))
          BY QueueType
        <5>2. Ordered((received \o buffered) \o incoming)
          BY DEF QueueIInv, Queue
        <5> DEFINE p == received \o buffered
                   M == 1 .. Len(sent)
        <5>3. p \in Seq(M) /\ incoming \in Seq(M) /\ Ordered(p \o incoming)
          BY <5>1, <5>2
        <5>4. Ordered(p)
          <6> HIDE DEF p, M
          <6>1. QED
            BY <5>3, OrderedParts
        <5>5. QED
          BY <5>1, <5>4, OrderedParts
      <4>4. received[j] < received[k]
        BY <3>7, <4>2, <4>3 DEF Ordered
      <4>5. QED
        BY <3>13, <4>2, <4>4
    <3>16. QED
      BY <1>2, <1>6, <3>1, <3>14, <3>15, RepliesAppend DEF m
  <2>3. QED
    BY <2>1, <2>2
<1>8. QED
  BY <1>4, <1>5, <1>7

-----------------------------------------------------------------------------
(* The network and the rest *)

\* Nothing that is on its way moves.
NothingMoves ==
  UNCHANGED <<sent, heard, received, requests, buffered, incoming, toMaster, phase, handled>>

\* Requests and responses are lost, at most.
LEMMA LosingStep ==
  ASSUME SendingIInv, QueueIInv, RepliesIInv, CommandsIInv,
         UNCHANGED <<sent, heard, received, requests, buffered, phase, handled>>,
         incoming' \in Seq(1 .. Len(sent)), Thinned(incoming', incoming),
         toMaster' \in Seq(Answers), Thinned(toMaster', toMaster)
  PROVE  QueueIInv' /\ RepliesIInv' /\ CommandsIInv'
<1>1. SentGrows
  BY DEF SentGrows
<1>2. QueueIInv'
  BY <1>1, QueueThins
<1>3. CommandsIInv'
  BY <1>1, CommandsStay
<1>4. heard' \in Seq(Answers) /\ toMaster \in Seq(Answers)
  BY MessagesType
<1>5. Thinned(Messages', Messages)
  BY <1>4, ThinAfter DEF Messages
<1>6. QED
  BY <1>1, <1>2, <1>3, <1>4, <1>5, RepliesThin

LEMMA WaysType ==
  ASSUME QueueIInv, RepliesIInv
  PROVE  /\ incoming \in Seq(1 .. Len(sent)) /\ Thinned(incoming, incoming)
         /\ toMaster \in Seq(Answers) /\ Thinned(toMaster, toMaster)
         /\ <<>> \in Seq(1 .. Len(sent)) /\ Thinned(<<>>, incoming)
<1>1. incoming \in Seq(1 .. Len(sent)) /\ toMaster \in Seq(Answers)
  BY QueueType, MessagesType
<1>2. QED
  BY <1>1, LenProperties, ThinSame, ThinEmpty

LEMMA TrafficStep ==
  ASSUME SendingIInv, QueueIInv, RepliesIInv, CommandsIInv, SessionIInv(MasterRequest),
         SentGrows, [StationsNext]_allVars
  PROVE  QueueIInv' /\ RepliesIInv' /\ CommandsIInv'
<1>1. CASE NothingMoves
  BY <1>1, WaysType, LosingStep DEF NothingMoves
<1>2. CASE MasterSends
  <2>1. /\ Transmit
        /\ UNCHANGED <<heard, received, requests, buffered, toMaster, phase, handled>>
    BY <1>2, MasterSendsNumbered DEF MasterSends, outstationVars, vars, sessionVars
  <2>2. QueueIInv'
    BY <2>1, QueueGrows
  <2>3. heard' \in Seq(Answers) /\ toMaster' \in Seq(Answers)
    BY <2>1, MessagesType
  <2>4. Thinned(Messages', Messages)
    <3>1. Messages' = Messages /\ Len(Messages) \in Nat
      BY <2>1, MessagesType, LenProperties DEF Messages
    <3>2. QED
      BY <3>1, ThinSame
  <2>5. QED
    BY <2>1, <2>2, <2>3, <2>4, RepliesThin, CommandsStay
<1>3. CASE MasterReceives
  <2>1. /\ Transmit /\ toMaster # <<>> /\ toMaster' = Tail(toMaster)
        /\ heard' = Append(heard, Head(toMaster))
        /\ UNCHANGED <<received, requests, buffered, phase, handled>>
    BY <1>3 DEF MasterReceives, OnMessage, outstationVars, vars, sessionVars
  <2>2. QueueIInv'
    BY <2>1, QueueGrows
  <2>3. heard \in Seq(Answers) /\ toMaster \in Seq(Answers) /\ Messages \in Seq(Answers)
    BY MessagesType
  <2>4. /\ heard' \in Seq(Answers) /\ toMaster' \in Seq(Answers)
        /\ heard' \o toMaster' = heard \o toMaster
    <3>1. /\ Tail(toMaster) \in Seq(Answers) /\ Append(heard, Head(toMaster)) \in Seq(Answers)
          /\ Append(heard, Head(toMaster)) \o Tail(toMaster) = heard \o toMaster
      BY <2>1, <2>3, MoveFirst
    <3>2. QED
      BY <2>1, <3>1
  <2>5. Thinned(Messages', Messages)
    <3>1. Messages' = Messages /\ Len(Messages) \in Nat
      BY <2>3, <2>4, LenProperties DEF Messages
    <3>2. QED
      BY <3>1, ThinSame
  <2>6. QED
    BY <2>1, <2>2, <2>4, <2>5, RepliesThin, CommandsStay
<1>4. CASE ClientOpened \/ CloseClient
  <2>1. /\ UNCHANGED <<sent, heard, received, requests, buffered, phase, handled, toMaster>>
        /\ incoming' = <<>>
    BY <1>4 DEF ClientOpened, CloseClient, Opened, Close, masterVars, outstationVars, vars,
         sessionVars
  <2>2. QED
    BY <2>1, WaysType, LosingStep
<1>5. CASE \E n \in 1 .. Len(incoming) : ReceiveRequests(n)
  <2>1. PICK n \in 1 .. Len(incoming) : ReceiveRequests(n)
    BY <1>5
  <2>2. UNCHANGED <<sent, heard, received, requests, toMaster, phase, handled>>
    BY <2>1 DEF ReceiveRequests, masterVars, outstationVars, vars, sessionVars
  <2>3. QueueIInv'
    BY <2>1, <2>2, QueueReads
  <2>4. heard' \in Seq(Answers) /\ toMaster' \in Seq(Answers)
    BY <2>2, MessagesType
  <2>5. Thinned(Messages', Messages)
    <3>1. Messages' = Messages /\ Len(Messages) \in Nat
      BY <2>2, MessagesType, LenProperties DEF Messages
    <3>2. QED
      BY <3>1, ThinSame
  <2>6. QED
    BY <2>2, <2>3, <2>4, <2>5, RepliesThin, CommandsStay
<1>6. CASE HandleRequest
  BY <1>6, HandleStep
<1>7. CASE ContinueRead
  BY <1>7, ReadingStep
<1>8. CASE \E seq \in 0 .. SeqCount - 1, con \in BOOLEAN : Unsolicited(seq, con)
  <2>1. PICK seq \in 0 .. SeqCount - 1, con \in BOOLEAN : Unsolicited(seq, con)
    BY <1>8
  <2> DEFINE m == [uns |-> TRUE, con |-> con, seq |-> seq, number |-> 0]
  <2>2. /\ UNCHANGED <<sent, heard, received, requests, buffered, incoming, phase, handled>>
        /\ toMaster' = Append(toMaster, m)
    BY <2>1 DEF Unsolicited, masterVars, outstationVars, vars, sessionVars, clientVars
  <2>3. m \in Message
    BY SeqCountAssumption DEF Message
  <2>4. m \notin Response
    BY DEF Response
  <2> HIDE DEF m
  <2>5. Answers \subseteq Answers' /\ m \in Answers'
    <3>1. Answers \subseteq Answers'
      BY <2>2, AnswersStay
    <3>2. m \in Answers
      BY <2>3, <2>4 DEF Answers
    <3>3. QED
      BY <3>1, <3>2
  <2>6. RepliesIInv'
    BY <2>2, <2>4, <2>5, RepliesAppend
  <2>7. QueueIInv'
    BY <2>2, WaysType, QueueThins
  <2>8. QED
    BY <2>2, <2>6, <2>7, CommandsStay
<1>9. CASE \E m \in 0 .. Len(toMaster) : BreakConnection(m)
  <2>1. PICK m \in 0 .. Len(toMaster) : BreakConnection(m)
    BY <1>9
  <2>2. /\ UNCHANGED <<sent, heard, received, requests, buffered, phase, handled>>
        /\ toMaster' = SubSeq(toMaster, 1, m)
        /\ \/ \E n \in 0 .. Len(incoming) : incoming' = SubSeq(incoming, 1, n)
           \/ incoming' = <<>>
    BY <2>1 DEF BreakConnection, PeerCloses, ConnectionLost, masterVars, outstationVars, vars,
         sessionVars
  <2>3. toMaster' \in Seq(Answers) /\ Thinned(toMaster', toMaster)
    BY <2>2, WaysType, ThinPrefix
  <2>4. incoming' \in Seq(1 .. Len(sent)) /\ Thinned(incoming', incoming)
    BY <2>2, WaysType, ThinPrefix
  <2>5. QED
    BY <2>2, <2>3, <2>4, LosingStep
<1>10. CASE \E i \in 1 .. Len(incoming) : LoseRequest(i)
  <2>1. PICK i \in 1 .. Len(incoming) : LoseRequest(i)
    BY <1>10
  <2>2. /\ UNCHANGED <<sent, heard, received, requests, buffered, phase, handled, toMaster>>
        /\ incoming' = RemoveAt(incoming, i)
    BY <2>1 DEF LoseRequest, masterVars, outstationVars, vars, sessionVars
  <2>3. incoming' \in Seq(1 .. Len(sent)) /\ Thinned(incoming', incoming)
    BY <2>2, WaysType, ThinRemove
  <2>4. QED
    BY <2>2, <2>3, WaysType, LosingStep
<1>11. CASE \E i \in 1 .. Len(toMaster) : LoseResponse(i)
  <2>1. PICK i \in 1 .. Len(toMaster) : LoseResponse(i)
    BY <1>11
  <2>2. /\ UNCHANGED <<sent, heard, received, requests, buffered, phase, handled, incoming>>
        /\ toMaster' = RemoveAt(toMaster, i)
    BY <2>1 DEF LoseResponse, masterVars, outstationVars, vars, sessionVars, clientVars
  <2>3. toMaster' \in Seq(Answers) /\ Thinned(toMaster', toMaster)
    BY <2>2, WaysType, ThinRemove
  <2>4. QED
    BY <2>2, <2>3, WaysType, LosingStep
<1>12. ASSUME \/ OpenClient \/ FinishCallback \/ EndReading \/ UseDatabase
              \/ UNCHANGED allVars
       PROVE  NothingMoves
  BY <1>12 DEF NothingMoves, OpenClient, Open, FailOpen, Closed, FinishCallback,
       CallbackReturns, EndReading, StopReading, UseDatabase, allVars, masterVars,
       outstationVars, vars, sessionVars, clientVars, stationVars
<1>13. QED
  BY <1>1, <1>2, <1>3, <1>4, <1>5, <1>6, <1>7, <1>8, <1>9, <1>10, <1>11, <1>12
     DEF StationsNext, LoopStep

-----------------------------------------------------------------------------
(* Theorems *)

LEMMA StationsInitInv == StationsInit => StationsIInv
<1>1. SUFFICES ASSUME StationsInit PROVE StationsIInv
  OBVIOUS
<1>2. /\ masterSeq = 0 /\ used = 0 /\ sent = <<>> /\ heard = <<>>
      /\ received = <<>> /\ buffered = <<>> /\ incoming = <<>> /\ toMaster = <<>>
      /\ requests = <<>> /\ handled = <<>> /\ prompted = 0 /\ faulted = 0
      /\ DatabaseInit /\ SessionInit /\ ClientInit
  BY <1>1 DEF StationsInit, MasterInit, Init, ClientInit, SessionInit
<1>3. Len(<<>>) = 0 /\ (\A S : <<>> \in Seq(S)) /\ <<>> \o <<>> = <<>>
  BY EmptySeq, ConcatEmptySeq
<1>4. ClientIInv
  BY <1>2 DEF ClientInit, ClientIInv, Serving, IsOpen, OpenIsServed
<1>5. SendingIInv
  <2>1. 0 = 0 * SeqCount + 0 /\ 0 \in 0 .. SeqCount - 1 /\ 0 \in 0 .. MaxUsed
    BY SeqCountAssumption, MaxUsedAssumption
  <2>2. Numbered(used, masterSeq)
    BY <1>2, <2>1 DEF Numbered
  <2>3. QED
    BY <1>2, <1>3, <2>1, <2>2 DEF SendingIInv
<1>6. QueueIInv
  BY <1>2, <1>3 DEF QueueIInv, Queue, Ordered
<1>7. RepliesIInv
  BY <1>2, <1>3 DEF RepliesIInv, Messages, InOrder
<1>8. CommandsIInv
  <2>1. Increasing(received)
    BY <1>2, <1>3 DEF Increasing
  <2> DEFINE c == Commands
  <2>2. c \in [1 .. 0 -> Seq(Calls)]
    BY <1>2, <1>3 DEF Commands
  <2> HIDE DEF c
  <2>3. c = <<>>
    BY <2>2, FunctionSeq, EmptySeq
  <2>4. FlattenSeq(c) = <<>>
    BY <1>3, <2>3 DEF FlattenSeq
  <2>5. QED
    BY <1>2, <1>3, <2>1, <2>4, CommandsOnceIs DEF CommandsIInv, c
<1>9. SessionIInv(MasterRequest)
  BY <1>2, SessionInitInv
<1>10. prompted \in 0 .. MaxUnsolicited /\ faulted \in 0 .. Len(sent)
  BY <1>2, <1>3, MaxUnsolicitedAssumption
<1>11. QED
  BY <1>4, <1>5, <1>6, <1>7, <1>8, <1>9, <1>10 DEF StationsIInv

LEMMA StationsStep == StationsIInv /\ [StationsNext]_allVars => StationsIInv'
<1>1. SUFFICES ASSUME StationsIInv, [StationsNext]_allVars PROVE StationsIInv'
  OBVIOUS
<1>2. /\ ClientIInv /\ SendingIInv /\ QueueIInv /\ RepliesIInv /\ CommandsIInv
      /\ SessionIInv(MasterRequest)
      /\ prompted \in 0 .. MaxUnsolicited /\ faulted \in 0 .. Len(sent)
  BY <1>1 DEF StationsIInv
<1>3. ClientIInv'
  BY <1>1, <1>2, ClientStep
<1>4. SendingIInv' /\ SentGrows
  BY <1>1, <1>2, MessagesType, SendingStep
<1>5. QueueIInv' /\ RepliesIInv' /\ CommandsIInv'
  BY <1>1, <1>2, <1>4, TrafficStep
<1>6. SessionIInv(MasterRequest)'
  BY <1>1, <1>2, SessionStep
<1>7. prompted' \in 0 .. MaxUnsolicited /\ faulted' \in 0 .. Len(sent')
  BY <1>1, <1>2, <1>4, BoundsStep
<1>8. QED
  BY <1>3, <1>4, <1>5, <1>6, <1>7 DEF StationsIInv

\* The invariant of the two stations through every break, loss, exception and
\* reopening (master/session.py:32-171, outstation/session.py:64-242,
\* io/tcp_client.py:41-97).
THEOREM StationsInvariance == StationsSpec => []StationsIInv
<1>1. QED
  BY StationsInitInv, StationsStep, PTL DEF StationsSpec

\* Every variable keeps its type, and requests wait in the order they were sent.
THEOREM StationsTypeCorrect == StationsSpec => []StationsTypeOK
<1>1. ASSUME StationsIInv PROVE StationsTypeOK
  <2>1. ClientIInv /\ SendingIInv /\ QueueIInv
        /\ prompted \in 0 .. MaxUnsolicited /\ faulted \in 0 .. Len(sent)
    BY <1>1 DEF StationsIInv
  <2>2. masterSeq \in 0 .. SeqCount - 1 /\ used \in 0 .. MaxUsed
    BY <2>1 DEF SendingIInv, Numbered
  <2>3. Queue \in Seq(1 .. Len(sent)) /\ Len(Queue) \in Nat
    BY <2>1, QueueType, LenProperties
  <2>4. ToSet(Queue) \subseteq 1 .. Len(sent)
    <3>1. DOMAIN Queue = 1 .. Len(Queue)
      BY <2>3, LenProperties
    <3>2. \A i \in 1 .. Len(Queue) : Queue[i] \in 1 .. Len(sent)
      BY <2>3, ElementOfSeq
    <3>3. QED
      BY <3>1, <3>2 DEF ToSet
  <2>5. Increasing(Queue)
    BY <2>1, <2>3, OrderedIncreasing DEF QueueIInv
  <2>6. QED
    BY <2>1, <2>2, <2>4, <2>5 DEF StationsTypeOK, ClientIInv, Queue
<1>2. QED
  BY <1>1, StationsInvariance, PTL

\* Whatever the calls of open() and close() and the connection's end do to one
\* another, an open channel on a live connection is read, until the callback
\* raises (io/tcp_client.py:41-97).
THEOREM ChannelServed == StationsSpec => []OpenIsServed
<1>1. StationsIInv => OpenIsServed
  BY DEF StationsIInv, ClientIInv
<1>2. QED
  BY <1>1, StationsInvariance, PTL

\* The application is told every command that came, once and in order, through
\* exceptions that leave requests in the buffer (outstation/session.py:143-190,
\* link/layer.py:41-54, 116-135).
THEOREM CommandsToldOnce == StationsSpec => []CommandsOnce
<1>1. StationsIInv => CommandsOnce
  BY DEF StationsIInv, CommandsIInv
<1>2. QED
  BY <1>1, StationsInvariance, PTL

\* The number of a response tells the master its request from all those sent
\* within SeqCount numbers (master/session.py:32-37, 157-162; outstation/session.py:99-242).
THEOREM AnswersIdentified == StationsSpec => []AnswerIdentified
<1>1. ASSUME StationsIInv PROVE AnswerIdentified
  <2> DEFINE responses == Only(Messages, Response)
  <2>1. SendingIInv /\ QueueIInv /\ RepliesIInv
    BY <1>1 DEF StationsIInv
  <2>2. responses \in Seq(Answers \cap Response)
    BY <2>1, MessagesType, OnlyType
  <2>3. \A i \in 1 .. Len(responses) : responses[i] \in Answers \cap Response
    <3> HIDE DEF responses
    <3>1. QED
      BY <2>2, ElementOfSeq
  <2>4. ASSUME NEW i \in 1 .. Len(responses), NEW k \in responses[i].number + 1 .. Len(sent),
               sent[k].fc # "CONFIRM", sent[k].seq = responses[i].seq
        PROVE  sent[k].nth - sent[responses[i].number].nth >= SeqCount
    <3> DEFINE n == responses[i].number
    <3>1. PICK j \in 1 .. Len(received) :
            /\ n = received[j] /\ responses[i].seq = sent[received[j]].seq
            /\ NeedsAnswer(sent[received[j]])
      BY <2>3 DEF Answers
    <3>2. n \in 1 .. Len(sent) /\ Len(sent) \in Nat
      BY <2>1, <3>1, QueueType, ElementOfSeq, LenProperties DEF SendingIInv
    <3>3. sent[n].fc # "CONFIRM" /\ sent[n].seq = sent[k].seq
      BY <2>4, <3>1 DEF NeedsAnswer
    <3>4. k \in 1 .. Len(sent) /\ n < k
      BY <3>2
    <3> HIDE DEF n
    <3> DEFINE a == sent[n].nth
               b == sent[k].nth
               q == sent[k].seq
    <3>5. /\ a \in 1 .. used /\ Numbered(a - 1, q)
          /\ b \in 1 .. used /\ Numbered(b - 1, q)
          /\ a < b
      BY <2>1, <2>4, <3>2, <3>3, <3>4 DEF SendingIInv
    <3>6. used \in Nat
      BY <2>1, MaxUsedAssumption DEF SendingIInv
    <3> HIDE DEF a, b, q
    <3>7. a - 1 \in Nat /\ b - 1 \in Nat /\ a - 1 < b - 1
      BY <3>5, <3>6
    <3>8. (b - 1) - (a - 1) >= SeqCount
      BY <3>5, <3>7, NumbersApart
    <3>9. b - a >= SeqCount
      BY <3>5, <3>6, <3>8, SeqCountAssumption
    <3>10. QED
      BY <3>9 DEF a, b, n
  <2>5. QED
    BY <2>4 DEF AnswerIdentified, Messages
<1>2. QED
  BY <1>1, StationsInvariance, PTL

-----------------------------------------------------------------------------
(* Refinement of the request service *)

\* What the outstation took and the master got, as the service sees them.
Taken == [i \in 1 .. Len(received) |-> [number |-> received[i], request |-> requests[i]]]
Got == [i \in 1 .. Len(Replies) |-> [number |-> Replies[i].number, seq |-> Replies[i].seq]]

LEMMA ServiceSees ==
  /\ Service!serviceVars = <<sent, Taken, Got>>
  /\ Service!Init <=> sent = <<>> /\ Taken = <<>> /\ Got = <<>>
  BY DEF Service!serviceVars, Service!Init, Taken, Got

\* A sequence that got one element more begins with what it was.
LEMMA AppendBegins ==
  ASSUME NEW A, NEW s \in Seq(A), NEW e \in A
  PROVE  Len(Append(s, e)) = Len(s) + 1 /\ SubSeq(Append(s, e), 1, Len(s)) = s
<1> DEFINE n == Len(s)
           t == Append(s, e)
           u == SubSeq(t, 1, n)
<1>1. /\ n \in Nat /\ t \in Seq(A) /\ Len(t) = n + 1
      /\ \A i \in 1 .. n : t[i] = s[i] /\ s[i] \in A
  BY LenProperties, AppendProperties, ElementOfSeq
<1>2. u = [i \in 1 .. n |-> t[i]]
  BY <1>1
<1>3. [i \in 1 .. n |-> t[i]] \in [1 .. n -> A]
  BY <1>1
<1> HIDE DEF n, t, u
<1>4. u \in Seq(A) /\ Len(u) = n /\ \A i \in 1 .. n : u[i] = s[i]
  BY <1>1, <1>2, <1>3, FunctionSeq
<1>5. u = s
  BY <1>1, <1>4, SeqEqual DEF n
<1>6. QED
  BY <1>1, <1>5 DEF n, t, u

LEMMA SubmitRefines ==
  ASSUME SendingIInv, SentGrows, UNCHANGED <<Taken, Got>>
  PROVE  Service!Submit \/ UNCHANGED Service!serviceVars
<1>1. CASE sent' = sent
  BY <1>1 DEF Service!serviceVars, Taken, Got
<1>2. CASE \E r \in MasterRequest : sent' = Append(sent, r)
  <2>1. Len(sent') = Len(sent) + 1 /\ SubSeq(sent', 1, Len(sent)) = sent
    BY <1>2, AppendBegins DEF SendingIInv
  <2>2. QED
    BY <2>1 DEF Service!Submit, Taken, Got
<1>3. QED
  BY <1>1, <1>2 DEF SentGrows

LEMMA TakeRefines ==
  ASSUME SendingIInv, QueueIInv, RepliesIInv, CommandsIInv, SessionIInv(MasterRequest),
         HandleRequest
  PROVE  Head(buffered) \in 1 .. Len(sent) /\ Service!Take(Head(buffered))
<1> DEFINE n == Head(buffered)
           k == Len(received)
           e == [number |-> n, request |-> sent[n]]
<1>1. /\ buffered # <<>> /\ phase = "idle"
      /\ received' = Append(received, n) /\ buffered' = Tail(buffered)
      /\ HandleAtOnce(sent[n]) \/ StartRead(sent[n]) \/ FailParse(sent[n])
      /\ UNCHANGED <<masterVars, incoming>>
  BY DEF HandleRequest, Rest, clientVars, CallbackRaises
<1>2. UNCHANGED <<sent, heard>>
  BY <1>1 DEF masterVars
<1>3. requests \in Seq(MasterRequest) /\ requests' = Append(requests, sent[n])
  BY <1>1 DEF HandleAtOnce, StartRead, FailParse, Arrives, SessionIInv, ControlIInv
<1>4. /\ k \in Nat /\ Len(received') = k + 1 /\ received'[k + 1] = n
      /\ \A i \in 1 .. k : received'[i] = received[i] /\ received[i] < n
  BY <1>1, <1>2, <1>3, QueueHandles
<1>5. n \in 1 .. Len(sent) /\ sent[n] \in MasterRequest
  BY <1>1, HeadIsSent
<1>6. Len(requests) = k
  BY DEF QueueIInv
<1>7. requests'[k + 1] = sent[n] /\ \A i \in 1 .. k : requests'[i] = requests[i]
  BY <1>3, <1>5, <1>6, AppendProperties
<1> HIDE DEF n
<1>8. /\ Taken \in Seq([number : Nat, request : MasterRequest]) /\ Len(Taken) = k
      /\ \A i \in 1 .. k : Taken[i] = [number |-> received[i], request |-> requests[i]]
  <2>1. \A i \in 1 .. k : received[i] \in Nat /\ requests[i] \in MasterRequest
    <3>1. Len(sent) \in Nat /\ \A i \in 1 .. k : received[i] \in 1 .. Len(sent)
      BY QueueType, ElementOfSeq, LenProperties DEF SendingIInv
    <3>2. \A i \in 1 .. k : requests[i] \in MasterRequest
      BY <1>3, <1>6, ElementOfSeq
    <3>3. QED
      BY <3>1, <3>2
  <2>2. Taken \in [1 .. k -> [number : Nat, request : MasterRequest]]
    BY <2>1 DEF Taken
  <2>3. QED
    BY <1>4, <2>2, FunctionSeq DEF Taken
<1>9. e \in [number : Nat, request : MasterRequest]
  <2>1. n \in Nat
    BY <1>5, LenProperties DEF SendingIInv
  <2>2. QED
    BY <1>5, <2>1
<1>10. Taken' = Append(Taken, e)
  <2> DEFINE a == Taken'
             b == Append(Taken, e)
  <2> HIDE DEF e
  <2>1. /\ b \in Seq([number : Nat, request : MasterRequest]) /\ Len(b) = k + 1
        /\ b[k + 1] = e /\ \A i \in 1 .. k : b[i] = Taken[i]
    BY <1>8, <1>9, AppendProperties
  <2>2. a = [i \in 1 .. k + 1 |-> [number |-> received'[i], request |-> requests'[i]]]
    BY <1>4 DEF Taken
  <2> HIDE DEF a, b, k
  <2>3. ASSUME NEW i \in 1 .. k + 1 PROVE a[i] = b[i]
    <3>1. a[i] = [number |-> received'[i], request |-> requests'[i]]
      BY <2>2
    <3>2. i \in 1 .. k \/ i = k + 1
      BY <1>4
    <3>3. CASE i \in 1 .. k
      BY <1>4, <1>7, <1>8, <2>1, <3>1, <3>3
    <3>4. CASE i = k + 1
      BY <1>4, <1>7, <2>1, <3>1, <3>4 DEF e
    <3>5. QED
      BY <3>2, <3>3, <3>4
  <2>4. b = [i \in 1 .. k + 1 |-> b[i]]
    BY <2>1, SeqDef
  <2>5. a = [i \in 1 .. k + 1 |-> a[i]]
    BY <2>2
  <2>6. a = b
    BY <2>3, <2>4, <2>5
  <2>7. QED
    BY <2>6 DEF a, b
<1>11. n > Service!LastNumber(Taken)
  <2>1. CASE Taken = <<>>
    <3>1. Service!LastNumber(Taken) = 0
      BY <2>1 DEF Service!LastNumber
    <3>2. n \in 1 .. Len(sent) /\ Len(sent) \in Nat
      BY <1>5, LenProperties DEF SendingIInv
    <3>3. QED
      BY <3>1, <3>2
  <2>2. CASE Taken # <<>>
    <3>1. k \in 1 .. k
      BY <1>4, <1>8, <2>2, EmptySeq
    <3>2. Service!LastNumber(Taken) = Taken[k].number
      BY <1>8, <2>2 DEF Service!LastNumber
    <3>3. Taken[k].number = received[k]
      <4> HIDE DEF k
      <4>1. Taken[k] = [number |-> received[k], request |-> requests[k]]
        BY <1>8, <3>1
      <4>2. QED
        BY <4>1
    <3>4. received[k] < n
      BY <1>4, <3>1
    <3>5. received[k] \in 1 .. Len(sent) /\ n \in 1 .. Len(sent) /\ Len(sent) \in Nat
      BY <1>5, <3>1, QueueType, ElementOfSeq, LenProperties DEF SendingIInv
    <3>6. QED
      BY <3>2, <3>3, <3>4, <3>5
  <2>3. QED
    BY <2>1, <2>2
<1>12. Got' = Got
  BY <1>2 DEF Got, Replies, Only, Response
<1>13. Service!Take(n)
  BY <1>2, <1>10, <1>11, <1>12 DEF Service!Take, Taken, Got
<1>14. QED
  BY <1>5, <1>13 DEF n

\* Taken names what was received.
LEMMA TakenNumbers ==
  ASSUME QueueIInv, NEW i \in 1 .. Len(received)
  PROVE  Len(Taken) = Len(received) /\ Taken[i].number = received[i]
<1> DEFINE k == Len(received)
           A == {[number |-> received[j], request |-> requests[j]] : j \in 1 .. k}
<1>1. k \in Nat
  BY QueueType, LenProperties
<1>2. Taken \in [1 .. k -> A]
  BY DEF Taken
<1>3. Taken[i].number = received[i]
  <2>1. Taken[i] = [number |-> received[i], request |-> requests[i]]
    BY DEF Taken
  <2>2. QED
    BY <2>1
<1> HIDE DEF k, A
<1>4. Len(Taken) = k
  BY <1>1, <1>2, FunctionSeq
<1>5. QED
  BY <1>3, <1>4 DEF k

\* The next response is to a later request than those the master has heard.
LEMMA HeardBefore ==
  ASSUME heard \in Seq(Message), toMaster \in Seq(Message), InOrder(Messages),
         toMaster # <<>>, Head(toMaster) \in Response,
         NEW j \in 1 .. Len(heard), heard[j] \in Response
  PROVE  heard[j].number < Head(toMaster).number
<1> DEFINE k == Len(heard)
<1>1. /\ k \in Nat /\ Len(toMaster) \in Nat /\ Len(toMaster) > 0
      /\ Head(toMaster) = toMaster[1]
  BY EmptySeq, LenProperties
<1>2. /\ Len(Messages) = k + Len(toMaster)
      /\ \A i \in 1 .. k + Len(toMaster) :
           Messages[i] = IF i <= k THEN heard[i] ELSE toMaster[i - k]
  BY ConcatProperties DEF Messages
<1>3. j \in 1 .. Len(Messages) /\ k + 1 \in 1 .. Len(Messages) /\ j < k + 1
  BY <1>1, <1>2
<1>4. Messages[j] = heard[j] /\ Messages[k + 1] = Head(toMaster)
  <2>1. (k + 1) - k = 1 /\ ~(k + 1 <= k)
    BY <1>1
  <2>2. QED
    BY <1>1, <1>2, <1>3, <2>1
<1>5. QED
  BY <1>3, <1>4 DEF InOrder

\* The answers in what the master hears.
Named(s) == [i \in 1 .. Len(s) |-> [number |-> s[i].number, seq |-> s[i].seq]]

LEMMA NamedAppend ==
  ASSUME NEW s \in Seq(Message), NEW m \in Message
  PROVE  /\ Named(s) \in Seq([number : Nat, seq : Nat]) /\ Len(Named(s)) = Len(s)
         /\ \A i \in 1 .. Len(s) : Named(s)[i].number = s[i].number
         /\ Named(Append(s, m)) = Append(Named(s), [number |-> m.number, seq |-> m.seq])
<1> DEFINE A == [number : Nat, seq : Nat]
           k == Len(s)
           e == [number |-> m.number, seq |-> m.seq]
           t == Append(s, m)
           a == Named(t)
           b == Append(Named(s), e)
<1>1. k \in Nat /\ Len(t) = k + 1 /\ t[k + 1] = m /\ \A i \in 1 .. k : t[i] = s[i]
  BY LenProperties, AppendProperties
<1>2. e \in A /\ \A i \in 1 .. k : [number |-> s[i].number, seq |-> s[i].seq] \in A
  <2>1. \A i \in 1 .. k : s[i] \in Message
    BY ElementOfSeq
  <2>2. QED
    BY <2>1 DEF Message
<1>3. Named(s) = [i \in 1 .. k |-> [number |-> s[i].number, seq |-> s[i].seq]]
  BY DEF Named
<1>4. a = [i \in 1 .. k + 1 |-> [number |-> t[i].number, seq |-> t[i].seq]]
  BY <1>1 DEF Named
<1>5. Named(s) \in [1 .. k -> A]
  BY <1>2, <1>3
<1> HIDE DEF A, k, t, a, e
<1>6. Named(s) \in Seq(A) /\ Len(Named(s)) = k
  BY <1>1, <1>5, FunctionSeq
<1>7. /\ b \in Seq(A) /\ Len(b) = k + 1 /\ b[k + 1] = e
      /\ \A i \in 1 .. k : b[i] = Named(s)[i]
  BY <1>2, <1>6, AppendProperties
<1>8. \A i \in 1 .. k : Named(s)[i] = [number |-> s[i].number, seq |-> s[i].seq]
  BY <1>3
<1> HIDE DEF b
<1>9. ASSUME NEW i \in 1 .. k + 1 PROVE a[i] = b[i]
  <2>1. a[i] = [number |-> t[i].number, seq |-> t[i].seq]
    BY <1>4
  <2>2. i \in 1 .. k \/ i = k + 1
    BY <1>1
  <2>3. CASE i \in 1 .. k
    BY <1>1, <1>7, <1>8, <2>1, <2>3
  <2>4. CASE i = k + 1
    BY <1>1, <1>7, <2>1, <2>4 DEF e
  <2>5. QED
    BY <2>2, <2>3, <2>4
<1>10. b = [i \in 1 .. k + 1 |-> b[i]]
  BY <1>7, SeqDef
<1>11. a = [i \in 1 .. k + 1 |-> a[i]]
  BY <1>4
<1>12. a = b
  BY <1>9, <1>10, <1>11
<1>13. ASSUME NEW i \in 1 .. k PROVE Named(s)[i].number = s[i].number
  <2>1. Named(s)[i] = [number |-> s[i].number, seq |-> s[i].seq]
    BY <1>8
  <2>2. QED
    BY <2>1
<1>14. QED
  BY <1>6, <1>12, <1>13 DEF A, k, t, a, b, e

LEMMA AnswerRefines ==
  ASSUME RepliesIInv, QueueIInv, SendingIInv, MasterReceives
  PROVE  \/ Service!Submit
         \/ UNCHANGED Service!serviceVars
         \/ /\ Head(toMaster).number \in 1 .. Len(sent)
            /\ Service!Answer(Head(toMaster).number)
<1> DEFINE m == Head(toMaster)
<1>1. /\ toMaster # <<>> /\ OnMessage(m)
      /\ UNCHANGED <<received, requests>>
  BY DEF MasterReceives, outstationVars, vars, sessionVars
<1>2. /\ heard \in Seq(Message) /\ toMaster \in Seq(Message)
      /\ heard \in Seq(Answers) /\ toMaster \in Seq(Answers)
  BY MessagesType
<1>3. m \in Message /\ m \in Answers
  BY <1>1, <1>2, FirstAndRest
<1> HIDE DEF m
<1>4. /\ heard' = Append(heard, m)
      /\ \/ sent' = sent
         \/ m \notin Response /\ \E r \in MasterRequest : sent' = Append(sent, r)
  BY <1>1, <1>3, MasterHears
<1>5. Taken' = Taken
  BY <1>1 DEF Taken
<1>6. Replies' = Only(heard', Response) /\ Replies = Only(heard, Response)
  BY DEF Replies, Only, Response
<1>7. Got = Named(Replies) /\ Got' = Named(Replies')
  BY DEF Got, Named
<1>8. CASE m \notin Response
  <2>1. Replies' = Replies
    BY <1>2, <1>3, <1>4, <1>6, <1>8, OnlyAppend
  <2>2. SentGrows /\ UNCHANGED <<Taken, Got>>
    BY <1>4, <1>5, <1>7, <2>1 DEF SentGrows
  <2>3. QED
    BY <2>2, SubmitRefines
<1>9. CASE m \in Response
  <2> DEFINE n == m.number
  <2>1. sent' = sent
    BY <1>4, <1>9
  <2>2. Replies' = Append(Replies, m)
    <3>1. Only(Append(heard, m), Response) = Append(Only(heard, Response), m)
      BY <1>2, <1>3, <1>9, OnlyAppend
    <3>2. QED
      BY <1>4, <1>6, <3>1
  <2>3. PICK i \in 1 .. Len(received) :
          n = received[i] /\ m.seq = sent[n].seq /\ NeedsAnswer(sent[n])
    BY <1>3, <1>9 DEF Answers
  <2>4. n \in 1 .. Len(sent) /\ n \in Nat
    BY SMTT(30), <2>3, QueueType, ElementOfSeq, LenProperties DEF SendingIInv
  <2>5. \E j \in 1 .. Len(Taken) : Taken[j].number = n
    <3>1. Len(Taken) = Len(received) /\ Taken[i].number = received[i]
      BY TakenNumbers
    <3>2. QED
      BY <2>3, <3>1
  <2>6. \A j \in 1 .. Len(heard) : heard[j] \in Response => heard[j].number < n
    BY <1>1, <1>2, <1>9, HeardBefore DEF RepliesIInv, m
  <2>7. Replies \in Seq(Message) /\ \A j \in 1 .. Len(Replies) : Replies[j].number < n
    <3> DEFINE A == {x \in Message : x \in Response => x.number < n}
               S == Response
               s == heard
               R == Replies
    <3>1. \A j \in 1 .. Len(s) : s[j] \in A
      BY <1>2, <2>6, ElementOfSeq
    <3>2. s \in Seq(A)
      <4>1. Len(s) \in Nat /\ s = [j \in 1 .. Len(s) |-> s[j]]
        BY <1>2, LenProperties, SeqDef
      <4> HIDE DEF A, s
      <4>2. [j \in 1 .. Len(s) |-> s[j]] \in [1 .. Len(s) -> A]
        BY <3>1
      <4>3. QED
        BY <4>1, <4>2, FunctionSeq
    <3>3. R \in Seq(A \cap S)
      <4>1. R = Only(s, S)
        BY <1>6
      <4> HIDE DEF A, S, s, R
      <4>2. QED
        BY <3>2, <4>1, OnlyType
    <3>4. \A x \in A \cap S : x \in Message /\ x.number < n
      OBVIOUS
    <3>5. A \cap S \subseteq Message
      BY <3>4
    <3> HIDE DEF A, S, R
    <3>6. R \in Seq(Message) /\ \A j \in 1 .. Len(R) : R[j] \in A \cap S
      BY <3>3, <3>5, SeqMonotonic, ElementOfSeq
    <3>7. QED
      BY <3>4, <3>6 DEF R
  <2> DEFINE e == [number |-> n, seq |-> sent[n].seq]
  <2>8. /\ Got \in Seq([number : Nat, seq : Nat]) /\ Len(Got) = Len(Replies)
        /\ \A j \in 1 .. Len(Replies) : Got[j].number = Replies[j].number
        /\ Got' = Append(Got, e)
    BY <1>3, <1>7, <2>2, <2>3, <2>7, NamedAppend
  <2>9. n > Service!LastNumber(Got)
    <3>1. CASE Got = <<>>
      BY <2>4, <3>1 DEF Service!LastNumber
    <3>2. CASE Got # <<>>
      <4>1. Len(Got) \in 1 .. Len(Got)
        BY <2>8, <3>2, EmptySeq, LenProperties
      <4>2. Service!LastNumber(Got) = Got[Len(Got)].number
        BY <3>2 DEF Service!LastNumber
      <4> DEFINE l == Len(Got)
      <4>3. Got[l].number = Replies[l].number /\ Replies[l].number < n
        BY <2>7, <2>8, <4>1
      <4>4. Got[l] \in [number : Nat, seq : Nat]
        BY <2>8, <4>1, ElementOfSeq
      <4>5. Got[l].number \in Nat
        BY <4>4
      <4>6. QED
        BY <2>4, <4>2, <4>3, <4>5
    <3>3. QED
      BY <3>1, <3>2
  <2> HIDE DEF n, e
  <2>10. Service!Answer(n)
    BY <1>5, <2>1, <2>3, <2>5, <2>8, <2>9 DEF Service!Answer, Taken, Got, e
  <2>11. QED
    BY <2>4, <2>10 DEF n, m
<1>10. QED
  BY <1>8, <1>9

\* The service sees a request sent, one handled and an answer heard.
LEMMA StepRefines ==
  StationsIInv /\ [StationsNext]_allVars => [Service!Next]_(Service!serviceVars)
<1>1. SUFFICES ASSUME StationsIInv, [StationsNext]_allVars
               PROVE  Service!Next \/ UNCHANGED Service!serviceVars
  OBVIOUS
<1>2. /\ SendingIInv /\ QueueIInv /\ RepliesIInv /\ CommandsIInv
      /\ SessionIInv(MasterRequest)
  BY <1>1 DEF StationsIInv
<1>3. CASE MasterSends
  <2>1. SentGrows /\ UNCHANGED <<heard, received, requests>>
    BY <1>2, <1>3, MasterSendsNumbered DEF MasterSends, SentGrows, outstationVars, vars,
       sessionVars
  <2>2. UNCHANGED <<Taken, Got>>
    BY <2>1 DEF Taken, Got, Replies, Only, Response
  <2>3. QED
    BY <1>2, <2>1, <2>2, SubmitRefines DEF Service!Next
<1>4. CASE MasterReceives
  <2> DEFINE n == Head(toMaster).number
  <2>1. \/ Service!Submit
        \/ UNCHANGED Service!serviceVars
        \/ n \in 1 .. Len(sent) /\ Service!Answer(n)
    BY <1>2, <1>4, AnswerRefines
  <2> HIDE DEF n
  <2>2. QED
    BY <2>1 DEF Service!Next, Service!Answer
<1>5. CASE HandleRequest
  <2> DEFINE n == Head(buffered)
  <2>1. n \in 1 .. Len(sent) /\ Service!Take(n)
    BY <1>2, <1>5, TakeRefines
  <2> HIDE DEF n
  <2>2. QED
    BY <2>1 DEF Service!Next, Service!Take
<1>6. CASE UNCHANGED <<sent, heard, received, requests>>
  <2>1. UNCHANGED <<Taken, Got>>
    BY <1>6 DEF Taken, Got, Replies, Only, Response
  <2>2. QED
    BY <1>6, <2>1 DEF Service!serviceVars, Taken, Got
<1>7. ASSUME ContinueRead PROVE UNCHANGED <<sent, heard, received, requests>>
  BY <1>7 DEF ContinueRead, masterVars, ReadStep, ExpandClass0, GatherEvents, GatherPoints,
     SkipObject, Gathering, StartFlags, RefreshFlag, StartResponse, WriteEvent, FailEvent,
     ReadPointFlags, ReadPointValue, FailPoint, Serializing, SendResponse
<1>8. ASSUME \/ OpenClient \/ ClientOpened \/ CloseClient
             \/ \E n \in 1 .. Len(incoming) : ReceiveRequests(n)
             \/ FinishCallback \/ EndReading \/ UseDatabase
             \/ \E seq \in 0 .. SeqCount - 1, con \in BOOLEAN : Unsolicited(seq, con)
             \/ \E m \in 0 .. Len(toMaster) : BreakConnection(m)
             \/ \E i \in 1 .. Len(incoming) : LoseRequest(i)
             \/ \E i \in 1 .. Len(toMaster) : LoseResponse(i)
             \/ UNCHANGED allVars
      PROVE  UNCHANGED <<sent, heard, received, requests>>
  BY <1>8 DEF OpenClient, ClientOpened, CloseClient, ReceiveRequests, FinishCallback,
     EndReading, UseDatabase, Unsolicited, BreakConnection, LoseRequest, LoseResponse,
     allVars, masterVars, outstationVars, vars, sessionVars, stationVars
<1>9. QED
  BY <1>1, <1>3, <1>4, <1>5, <1>6, <1>7, <1>8 DEF StationsNext, LoopStep

LEMMA InitRefines == StationsInit => Service!Init
<1>1. SUFFICES ASSUME StationsInit PROVE Service!Init
  OBVIOUS
<1>2. sent = <<>> /\ heard = <<>> /\ received = <<>> /\ requests = <<>>
  BY <1>1 DEF StationsInit, MasterInit, Init, SessionInit
<1>3. Len(<<>>) = 0 /\ \A S : <<>> \in Seq(S)
  BY EmptySeq
<1>4. Taken = <<>>
  <2> DEFINE t == Taken
  <2>1. t \in [1 .. 0 -> {}]
    BY <1>2, <1>3 DEF Taken
  <2> HIDE DEF t
  <2>2. QED
    BY <2>1, FunctionSeq, EmptySeq DEF t
<1>5. Got = <<>>
  <2> DEFINE g == Got
  <2>1. Replies = <<>>
    BY <1>2, OnlyEmpty DEF Replies
  <2>2. g \in [1 .. 0 -> {}]
    BY <1>3, <2>1 DEF Got
  <2> HIDE DEF g
  <2>3. QED
    BY <2>2, FunctionSeq, EmptySeq DEF g
<1>6. QED
  BY <1>2, <1>4, <1>5 DEF Service!Init, Taken, Got

\* Through every break, loss, exception and reopening the two stations give the
\* service: requests are taken unaltered, in order and at most once, also those
\* an exception left in the buffer, and answers come in order with the numbers
\* of their requests (link/layer.py:41-54, 116-135, outstation/session.py:64-242,
\* master/session.py:32-171).
THEOREM ServiceGiven == StationsSpec => RequestsServed
<1>1. QED
  BY InitRefines, StepRefines, StationsInvariance, PTL
     DEF StationsSpec, RequestsServed, Service!Spec
=============================================================================

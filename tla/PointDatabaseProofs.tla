------------------------- MODULE PointDatabaseProofs -------------------------
(* Proofs about the event queues, for any classes, sizes and events, and    *)
(* about the point database, for any points, threads and values.            *)
EXTENDS PointDatabase, TLAPS, SequenceTheorems

-----------------------------------------------------------------------------
(* The event queues *)

BufferIInv == BufferTypeOK /\ NewestKept

-----------------------------------------------------------------------------
(* Ends of sequences *)

\* The last k elements of a sequence.
LEMMA EndType ==
  ASSUME NEW S, NEW l \in Seq(S), NEW k \in 0 .. Len(l)
  PROVE  /\ SubSeq(l, Len(l) - k + 1, Len(l)) \in Seq(S)
         /\ Len(SubSeq(l, Len(l) - k + 1, Len(l))) = k
         /\ \A i \in 1 .. k : SubSeq(l, Len(l) - k + 1, Len(l))[i] = l[Len(l) - k + i]
<1>1. Len(l) \in Nat
  BY LenProperties
<1> DEFINE m == Len(l) - k + 1
<1>2. m \in 1 .. Len(l) + 1
  BY <1>1
<1>3. /\ SubSeq(l, m, Len(l)) \in Seq(S)
      /\ Len(SubSeq(l, m, Len(l))) = IF m <= Len(l) THEN Len(l) - m + 1 ELSE 0
      /\ \A i \in 1 .. Len(l) - m + 1 : SubSeq(l, m, Len(l))[i] = l[m + i - 1]
  BY <1>1, <1>2, SubSeqProperties
<1>4. Len(l) - m + 1 = k /\ \A i \in 1 .. k : m + i - 1 = Len(l) - k + i
  BY <1>1
<1>5. Len(SubSeq(l, m, Len(l))) = k
  BY <1>1, <1>2, <1>3
<1>6. QED
  BY <1>3, <1>4, <1>5

\* The last no elements of a sequence.
LEMMA EndEmpty ==
  ASSUME NEW S, NEW l \in Seq(S)
  PROVE  SubSeq(l, Len(l) - 0 + 1, Len(l)) = <<>>
<1>1. 0 \in 0 .. Len(l)
  BY LenProperties
<1>2. QED
  BY <1>1, EndType, EmptySeq

\* Appending to the last k elements gives the last k + 1 of the longer sequence.
LEMMA EndAppend ==
  ASSUME NEW S, NEW l \in Seq(S), NEW e \in S, NEW k \in 0 .. Len(l)
  PROVE  Append(SubSeq(l, Len(l) - k + 1, Len(l)), e)
           = SubSeq(Append(l, e), Len(Append(l, e)) - (k + 1) + 1, Len(Append(l, e)))
<1> DEFINE t == SubSeq(l, Len(l) - k + 1, Len(l))
           a == Append(l, e)
           u == SubSeq(a, Len(a) - (k + 1) + 1, Len(a))
<1>1. Len(l) \in Nat /\ k \in Nat
  BY LenProperties
<1>2. /\ t \in Seq(S) /\ Len(t) = k
      /\ \A i \in 1 .. k : t[i] = l[Len(l) - k + i]
  BY EndType
<1>3. /\ a \in Seq(S) /\ Len(a) = Len(l) + 1 /\ a[Len(l) + 1] = e
      /\ \A i \in 1 .. Len(l) : a[i] = l[i]
  BY AppendProperties
<1>4. k + 1 \in 0 .. Len(a)
  BY <1>1, <1>3
<1>5. /\ u \in Seq(S) /\ Len(u) = k + 1
      /\ \A i \in 1 .. k + 1 : u[i] = a[Len(a) - (k + 1) + i]
  BY <1>3, <1>4, EndType
<1>6. /\ Append(t, e) \in Seq(S) /\ Len(Append(t, e)) = k + 1
      /\ \A i \in 1 .. k : Append(t, e)[i] = t[i]
      /\ Append(t, e)[k + 1] = e
  BY <1>2, AppendProperties
<1> HIDE DEF t, a, u
<1>7. ASSUME NEW i \in 1 .. k + 1
      PROVE  Append(t, e)[i] = u[i]
  <2>1. Len(a) - (k + 1) + i = Len(l) - k + i
    BY <1>1, <1>3
  <2>2. u[i] = a[Len(l) - k + i]
    BY <1>5, <2>1
  <2>3. CASE i = k + 1
    <3>1. Len(l) - k + i = Len(l) + 1
      BY <1>1, <2>3
    <3>2. QED
      BY <1>3, <1>6, <2>2, <2>3, <3>1
  <2>4. CASE i # k + 1
    <3>1. i \in 1 .. k /\ Len(l) - k + i \in 1 .. Len(l)
      BY <1>1, <2>4
    <3>2. QED
      BY <1>2, <1>3, <1>6, <2>2, <3>1
  <2>5. QED
    BY <2>3, <2>4
<1>8. Append(t, e) = u
  BY <1>5, <1>6, <1>7, SeqEqual
<1>9. QED
  BY <1>8 DEF t, a, u

\* Dropping the first of the last k elements leaves the last k - 1.
LEMMA EndTail ==
  ASSUME NEW S, NEW l \in Seq(S), NEW k \in 1 .. Len(l)
  PROVE  Tail(SubSeq(l, Len(l) - k + 1, Len(l)))
           = SubSeq(l, Len(l) - (k - 1) + 1, Len(l))
<1> DEFINE t == SubSeq(l, Len(l) - k + 1, Len(l))
           u == SubSeq(l, Len(l) - (k - 1) + 1, Len(l))
<1>1. Len(l) \in Nat /\ k \in Nat /\ k - 1 \in 0 .. Len(l) /\ k \in 0 .. Len(l)
  BY LenProperties
<1>2. /\ t \in Seq(S) /\ Len(t) = k
      /\ \A i \in 1 .. k : t[i] = l[Len(l) - k + i]
  BY <1>1, EndType
<1>3. /\ u \in Seq(S) /\ Len(u) = k - 1
      /\ \A i \in 1 .. k - 1 : u[i] = l[Len(l) - (k - 1) + i]
  BY <1>1, EndType
<1> HIDE DEF t, u
<1>4. t # <<>>
  BY <1>1, <1>2, EmptySeq
<1>5. /\ Tail(t) \in Seq(S) /\ Len(Tail(t)) = k - 1
      /\ \A i \in 1 .. k - 1 : Tail(t)[i] = t[i + 1]
  BY <1>2, <1>4, HeadTailProperties
<1>6. ASSUME NEW i \in 1 .. k - 1
      PROVE  Tail(t)[i] = u[i]
  <2>1. i + 1 \in 1 .. k /\ Len(l) - (k - 1) + i = Len(l) - k + (i + 1)
    BY <1>1
  <2>2. Tail(t)[i] = l[Len(l) - k + (i + 1)]
    BY <1>2, <1>5, <2>1
  <2>3. QED
    BY <1>3, <2>1, <2>2
<1>7. Tail(t) = u
  BY <1>3, <1>5, <1>6, SeqEqual
<1>8. QED
  BY <1>7 DEF t, u

-----------------------------------------------------------------------------
(* The queues *)

\* The number of events in a queue, and what it says of the events missing.
LEMMA QueueLength ==
  ASSUME BufferTypeOK, NewestKept, NEW c \in Class
  PROVE  /\ log[c] \in Seq(Event) /\ buffers[c] \in Seq(Event)
         /\ Len(log[c]) \in Nat /\ cleared[c] \in Nat /\ ClassMax[c] \in Nat
         /\ cleared[c] <= Len(log[c])
         /\ Kept(c) \in 0 .. Len(log[c])
         /\ Len(buffers[c]) = Kept(c)
<1>1. /\ log[c] \in Seq(Event) /\ buffers[c] \in Seq(Event)
      /\ cleared[c] \in Nat /\ cleared[c] <= Len(log[c])
      /\ ClassMax[c] \in Nat
  BY ClassMaxAssumption DEF BufferTypeOK
<1>2. Len(log[c]) \in Nat
  BY <1>1, LenProperties
<1>3. Kept(c) \in 0 .. Len(log[c])
  BY <1>1, <1>2 DEF Kept
<1>4. Len(buffers[c]) = Kept(c)
  BY <1>1, <1>3, EndType DEF NewestKept
<1>5. QED
  BY <1>1, <1>2, <1>3, <1>4

LEMMA BufferInitInv == BufferInit => BufferIInv
<1> SUFFICES ASSUME BufferInit PROVE BufferIInv
  OBVIOUS
<1>1. <<>> \in Seq(Event) /\ Len(<<>>) = 0
  BY EmptySeq
<1>2. \A c \in Class : buffers[c] = <<>> /\ log[c] = <<>> /\ cleared[c] = 0
  BY DEF BufferInit
<1>3. BufferTypeOK
  <2>1. buffers \in [Class -> Seq(Event)] /\ log \in [Class -> Seq(Event)]
    BY <1>1 DEF BufferInit
  <2>2. cleared \in [Class -> Nat] /\ dropped \subseteq Class \X Nat /\ overflow \in BOOLEAN
    BY DEF BufferInit
  <2>5. confirming \in BOOLEAN /\ overlapped \in BOOLEAN /\ toClear \subseteq Class
    BY DEF BufferInit
  <2>3. ASSUME NEW c \in Class
        PROVE  Len(buffers[c]) <= ClassMax[c] /\ cleared[c] <= Len(log[c])
    <3>1. Len(buffers[c]) = 0 /\ Len(log[c]) = 0 /\ cleared[c] = 0
      BY <1>1, <1>2
    <3>2. QED
      BY <3>1, ClassMaxAssumption
  <2>4. QED
    BY <2>1, <2>2, <2>3, <2>5 DEF BufferTypeOK
<1>4. ASSUME NEW c \in Class
      PROVE  buffers[c] = SubSeq(log[c], Len(log[c]) - Kept(c) + 1, Len(log[c]))
  <2>1. log[c] \in Seq(Event) /\ Len(log[c]) = 0 /\ cleared[c] = 0
    BY <1>1, <1>2
  <2>2. Kept(c) = 0
    BY <2>1, ClassMaxAssumption DEF Kept
  <2>3. QED
    BY <1>2, <2>1, <2>2, EndEmpty
<1>5. QED
  BY <1>3, <1>4 DEF BufferIInv, NewestKept

\* Adding to one queue keeps it the newest unconfirmed events of its class.
LEMMA AddQueue ==
  ASSUME BufferTypeOK, NewestKept, NEW c \in Class, NEW e \in Event,
         AppendEvent(c, e)
  PROVE  /\ buffers'[c] = SubSeq(log'[c], Len(log'[c]) - Kept(c)' + 1, Len(log'[c]))
         /\ buffers'[c] \in Seq(Event) /\ Len(buffers'[c]) <= ClassMax[c]
         /\ Len(log'[c]) = Len(log[c]) + 1
         /\ Len(buffers'[c]) = Kept(c)'
         /\ IF Len(buffers[c]) = ClassMax[c]
            THEN Missing(c) # {} ELSE Missing(c) = {}
<1>1. /\ log[c] \in Seq(Event) /\ buffers[c] \in Seq(Event)
      /\ Len(log[c]) \in Nat /\ cleared[c] \in Nat /\ ClassMax[c] \in Nat
      /\ cleared[c] <= Len(log[c])
      /\ Kept(c) \in 0 .. Len(log[c])
      /\ Len(buffers[c]) = Kept(c)
  BY QueueLength
<1>2. /\ buffers'[c] = BoundedAppend(buffers[c], e, ClassMax[c])
      /\ log'[c] = Append(log[c], e)
      /\ cleared'[c] = cleared[c]
  BY DEF AppendEvent, BufferTypeOK
<1>3. log'[c] \in Seq(Event) /\ Len(log'[c]) = Len(log[c]) + 1
  BY <1>1, <1>2, AppendProperties
<1>4. buffers[c] = SubSeq(log[c], Len(log[c]) - Kept(c) + 1, Len(log[c]))
  BY DEF NewestKept
<1>5. Append(buffers[c], e)
        = SubSeq(log'[c], Len(log'[c]) - (Kept(c) + 1) + 1, Len(log'[c]))
  BY <1>1, <1>2, <1>4, EndAppend
<1>6. /\ Len(log[c]) + 1 - cleared[c] < ClassMax[c]
           => Kept(c)' = Len(log[c]) + 1 - cleared[c]
      /\ Len(log[c]) + 1 - cleared[c] >= ClassMax[c] => Kept(c)' = ClassMax[c]
  <2>1. Len(log'[c]) - cleared'[c] = Len(log[c]) + 1 - cleared[c]
    <3>1. cleared'[c] = cleared[c]
      BY <1>2
    <3>2. Len(log'[c]) = Len(log[c]) + 1
      BY <1>3
    <3>3. Len(log[c]) \in Nat /\ cleared[c] \in Nat
      BY <1>1
    <3>4. QED
      BY <3>1, <3>2, <3>3
  <2>2. Kept(c)' = IF Len(log[c]) + 1 - cleared[c] < ClassMax[c]
                   THEN Len(log[c]) + 1 - cleared[c] ELSE ClassMax[c]
    BY <2>1, Zenon DEF Kept
  <2>3. QED
    BY <1>1, <2>2
<1>7. /\ Len(log[c]) - cleared[c] < ClassMax[c] => Kept(c) = Len(log[c]) - cleared[c]
      /\ Len(log[c]) - cleared[c] >= ClassMax[c] => Kept(c) = ClassMax[c]
  BY <1>1 DEF Kept
<1>8. buffers'[c] = SubSeq(log'[c], Len(log'[c]) - Kept(c)' + 1, Len(log'[c]))
  <2>1. CASE Len(buffers[c]) < ClassMax[c]
    <3>1. Kept(c)' = Kept(c) + 1
      BY <1>1, <1>6, <1>7, <2>1
    <3>2. QED
      BY <1>2, <1>5, <2>1, <3>1 DEF BoundedAppend
  <2>2. CASE Len(buffers[c]) = ClassMax[c] /\ ClassMax[c] = 0
    <3>1. Kept(c)' = 0
      BY <1>1, <1>6, <1>7, <2>2
    <3>2. buffers'[c] = <<>>
      BY <1>1, <1>2, <2>2 DEF BoundedAppend
    <3>3. QED
      BY <1>3, <3>1, <3>2, EndEmpty
  <2>3. CASE Len(buffers[c]) = ClassMax[c] /\ ClassMax[c] > 0
    <3>1. Kept(c)' = Kept(c) /\ Kept(c) \in 1 .. Len(log[c])
      BY <1>1, <1>6, <1>7, <2>3
    <3>2. buffers'[c] = Append(Tail(buffers[c]), e)
      BY <1>1, <1>2, <2>3 DEF BoundedAppend
    <3>3. Tail(buffers[c]) = SubSeq(log[c], Len(log[c]) - (Kept(c) - 1) + 1, Len(log[c]))
      BY <1>1, <1>4, <3>1, EndTail
    <3>4. Append(Tail(buffers[c]), e)
            = SubSeq(log'[c], Len(log'[c]) - ((Kept(c) - 1) + 1) + 1, Len(log'[c]))
      <4>1. Kept(c) - 1 \in 0 .. Len(log[c])
        BY <1>1, <3>1
      <4>2. QED
        BY <1>1, <1>2, <3>3, <4>1, EndAppend
    <3>5. (Kept(c) - 1) + 1 = Kept(c)'
      BY <3>1
    <3>6. QED
      BY <3>2, <3>4, <3>5
  <2>4. QED
    BY <1>1, <2>1, <2>2, <2>3 DEF BufferTypeOK
<1>9. Kept(c)' \in 0 .. Len(log'[c]) /\ Kept(c)' <= ClassMax[c]
  BY <1>1, <1>3, <1>6
<1>10. buffers'[c] \in Seq(Event) /\ Len(buffers'[c]) = Kept(c)'
  BY ZenonT(40), <1>3, <1>8, <1>9, EndType
<1>11. IF Len(buffers[c]) = ClassMax[c] THEN Missing(c) # {} ELSE Missing(c) = {}
  <2>1. Missing(c) = cleared[c] + 1 .. Len(log[c]) + 1 - Kept(c)'
    BY <1>2, <1>3, <1>10 DEF Missing
  <2>2. CASE Len(buffers[c]) = ClassMax[c]
    <3>1. Kept(c)' = ClassMax[c] /\ ClassMax[c] <= Len(log[c]) - cleared[c]
      BY <1>1, <1>6, <1>7, <2>2
    <3>2. cleared[c] + 1 \in Missing(c)
      BY <1>1, <2>1, <3>1
    <3>3. QED
      BY <2>2, <3>2
  <2>3. CASE Len(buffers[c]) # ClassMax[c]
    <3>1. Kept(c)' = Len(log[c]) + 1 - cleared[c]
      BY SMTT(30), <1>1, <1>6, <1>7, <2>3
    <3>2. QED
      BY <1>1, <2>1, <2>3, <3>1
  <2>4. QED
    BY <2>2, <2>3
<1>12. QED
  BY <1>1, <1>3, <1>8, <1>9, <1>10, <1>11

LEMMA AppendPreserves ==
  ASSUME BufferIInv, NEW d \in Class, NEW e \in Event, AppendEvent(d, e)
  PROVE  BufferIInv'
<1>1. BufferTypeOK /\ NewestKept
  BY DEF BufferIInv
<1>2. QED
  <2>1. /\ buffers' = [buffers EXCEPT ![d] = BoundedAppend(@, e, ClassMax[d])]
        /\ log' = [log EXCEPT ![d] = Append(@, e)]
        /\ cleared' = cleared
        /\ dropped' = dropped \cup ({d} \X Missing(d))
        /\ UNCHANGED <<overflow, overlapped, confirming, toClear>>
    BY DEF AppendEvent, flagVars, confirmVars
  <2>2. /\ buffers'[d] = SubSeq(log'[d], Len(log'[d]) - Kept(d)' + 1, Len(log'[d]))
        /\ buffers'[d] \in Seq(Event) /\ Len(buffers'[d]) <= ClassMax[d]
        /\ Len(log'[d]) = Len(log[d]) + 1
        /\ IF Len(buffers[d]) = ClassMax[d]
           THEN Missing(d) # {} ELSE Missing(d) = {}
    BY <1>1, AddQueue
  <2>3. \A c \in Class \ {d} : buffers'[c] = buffers[c] /\ log'[c] = log[c]
    BY <1>1, <2>1 DEF BufferTypeOK
  <2>4. /\ log[d] \in Seq(Event) /\ Append(log[d], e) \in Seq(Event)
        /\ Len(log[d]) \in Nat /\ cleared[d] \in Nat
    BY <1>1, QueueLength, AppendProperties
  <2>5. BufferTypeOK'
    <3>1. buffers' \in [Class -> Seq(Event)] /\ log' \in [Class -> Seq(Event)]
      <4>1. BoundedAppend(buffers[d], e, ClassMax[d]) \in Seq(Event)
        BY <1>1, <2>1, <2>2 DEF BufferTypeOK
      <4>2. QED
        BY <1>1, <2>1, <2>4, <4>1 DEF BufferTypeOK
    <3>2. ASSUME NEW c \in Class
          PROVE  Len(buffers'[c]) <= ClassMax[c] /\ cleared'[c] <= Len(log'[c])
      <4>1. CASE c = d
        BY <1>1, <2>1, <2>2, <2>4, <4>1 DEF BufferTypeOK
      <4>2. CASE c # d
        BY <1>1, <2>1, <2>3, <4>2 DEF BufferTypeOK
      <4>3. QED
        BY <4>1, <4>2
    <3>3. dropped' \subseteq Class \X Nat
      <4>1. Missing(d) \subseteq Nat
        <5>1. /\ cleared[d] \in Nat /\ Len(log'[d]) \in Nat
              /\ Len(buffers'[d]) \in Nat
          BY <2>1, <2>2, <2>4, LenProperties
        <5>2. Missing(d) = cleared[d] + 1 .. Len(log'[d]) - Len(buffers'[d])
          BY DEF Missing
        <5>3. ASSUME NEW m \in Nat, NEW n \in Int
              PROVE  m + 1 .. n \subseteq Nat
          OBVIOUS
        <5>4. Len(log'[d]) - Len(buffers'[d]) \in Int
          BY <5>1
        <5>5. QED
          BY <5>1, <5>2, <5>3, <5>4
      <4>2. QED
        BY <1>1, <2>1, <4>1 DEF BufferTypeOK
    <3>4. /\ overflow' \in BOOLEAN /\ cleared' \in [Class -> Nat]
          /\ confirming' \in BOOLEAN /\ overlapped' \in BOOLEAN
          /\ toClear' \subseteq Class
      BY <1>1, <2>1 DEF BufferTypeOK
    <3>5. QED
      BY <3>1, <3>2, <3>3, <3>4 DEF BufferTypeOK
  <2>6. NewestKept'
    <3>1. ASSUME NEW c \in Class
          PROVE  buffers'[c] = SubSeq(log'[c], Len(log'[c]) - Kept(c)' + 1, Len(log'[c]))
      <4>1. CASE c = d
        BY <2>2, <4>1
      <4>2. CASE c # d
        BY <1>1, <2>1, <2>3, <4>2 DEF NewestKept, Kept
      <4>3. QED
        BY <4>1, <4>2
    <3>2. QED
      BY <3>1 DEF NewestKept
  <2>7. QED
    BY <2>5, <2>6 DEF BufferIInv

\* Looking at a queue and raising the flag move no event.
LEMMA FlagsPreserve ==
  ASSUME BufferIInv, LookAtQueue \/ RaiseOverflow
  PROVE  BufferIInv'
<1>1. /\ UNCHANGED <<buffers, log, cleared, dropped, confirming, toClear>>
      /\ overflow' \in BOOLEAN /\ overlapped' \in BOOLEAN
  BY DEF LookAtQueue, RaiseOverflow, confirmVars, BufferIInv, BufferTypeOK
<1>2. QED
  BY <1>1 DEF BufferIInv, BufferTypeOK, NewestKept, Kept

\* Confirming events in the middle of anything leaves the queues right.
LEMMA ConfirmPreserves ==
  ASSUME BufferIInv, NEW a \in BOOLEAN,
         \/ BeginConfirmAll(a)
         \/ ClearQueue
         \/ LowerOverflow
         \/ \E c \in Class : ConfirmClass(c, a)
  PROVE  BufferIInv' /\ log' = log
<1>1. BufferTypeOK /\ NewestKept
  BY DEF BufferIInv
<1>2. <<>> \in Seq(Event) /\ Len(<<>>) = 0
  BY EmptySeq
<1>3. log' = log
  BY DEF BeginConfirmAll, ClearQueue, LowerOverflow, ConfirmClass
<1>4. /\ buffers' \in [Class -> Seq(Event)] /\ cleared' \in [Class -> Nat]
      /\ \A c \in Class :
           \/ buffers'[c] = buffers[c] /\ cleared'[c] = cleared[c]
           \/ buffers'[c] = <<>> /\ cleared'[c] = Len(log[c])
  <2>1. \A c \in Class : Len(log[c]) \in Nat
    BY <1>1, QueueLength
  <2>2. CASE UNCHANGED <<buffers, cleared>>
    BY <1>1, <2>2 DEF BufferTypeOK
  <2>3. CASE \E c \in Class : /\ buffers' = [buffers EXCEPT ![c] = <<>>]
                              /\ cleared' = [cleared EXCEPT ![c] = Len(log[c])]
    BY <1>1, <1>2, <2>1, <2>3 DEF BufferTypeOK
  <2>4. QED
    BY <1>1, <2>2, <2>3
       DEF BeginConfirmAll, ClearQueue, LowerOverflow, ConfirmClass, BufferTypeOK
<1>5. /\ overflow' \in BOOLEAN /\ dropped' \subseteq Class \X Nat
      /\ confirming' \in BOOLEAN /\ overlapped' \in BOOLEAN /\ toClear' \subseteq Class
  BY <1>1 DEF BeginConfirmAll, ClearQueue, LowerOverflow, ConfirmClass, BufferTypeOK,
              flagVars, confirmVars
<1>6. ASSUME NEW c \in Class
      PROVE  /\ Len(buffers'[c]) <= ClassMax[c] /\ cleared'[c] <= Len(log'[c])
             /\ buffers'[c] = SubSeq(log'[c], Len(log'[c]) - Kept(c)' + 1, Len(log'[c]))
  <2>1. CASE buffers'[c] = buffers[c] /\ cleared'[c] = cleared[c]
    BY <1>1, <1>3, <2>1 DEF BufferTypeOK, NewestKept, Kept
  <2>2. CASE buffers'[c] = <<>> /\ cleared'[c] = Len(log[c])
    <3>1. log[c] \in Seq(Event) /\ Len(log[c]) \in Nat /\ ClassMax[c] \in Nat
      BY <1>1, QueueLength
    <3>2. Kept(c)' = 0
      BY <1>3, <2>2, <3>1 DEF Kept
    <3>3. Len(buffers'[c]) = 0
      BY <1>2, <2>2
    <3>4. buffers'[c] = SubSeq(log'[c], Len(log'[c]) - Kept(c)' + 1, Len(log'[c]))
      BY <1>3, <2>2, <3>1, <3>2, EndEmpty
    <3>5. Len(buffers'[c]) <= ClassMax[c] /\ cleared'[c] <= Len(log'[c])
      BY <1>3, <2>2, <3>1, <3>3
    <3>6. QED
      BY <3>4, <3>5
  <2>3. QED
    BY <1>4, <2>1, <2>2
<1>7. BufferTypeOK'
  BY <1>1, <1>3, <1>4, <1>5, <1>6 DEF BufferTypeOK
<1>8. QED
  BY <1>3, <1>6, <1>7 DEF BufferIInv, NewestKept

-----------------------------------------------------------------------------
(* The database *)

\* Only the thread that holds the lock is inside a with block.
Exclusive == \A t \in Thread : Inside(t) => lock = t

\* A point that was added has all its objects, and a thread inside works on one.
PointsThere ==
  /\ \A p \in Point : store[p] # Absent => added[p] # Absent
  /\ \A c \in Counter : store[c] # Absent => frozen[c] # Absent
  /\ \A t \in Thread : Inside(t) => store[task[t].point] # Absent

\* Only inputs raise events, and only those of a class with a queue reach it.
InputsNotify ==
  \A t \in Thread :
    /\ At(t, "update", "notify") => task[t].point \in Input
    /\ At(t, "update", "raise") \/ At(t, "update", "append") =>
         task[t].point \in Input /\ EventClass[task[t].point] \in Class

\* What every call relies on.
CoreIInv ==
  BufferIInv /\ DatabaseTypeOK /\ Exclusive /\ PointsThere /\ InputsNotify

\* Whole points are readings of the history.
HadCurrent ==
  \A p \in Point :
    \/ store[p] = Absent
    \/ \E t \in Thread : At(t, "update", "flags") /\ task[t].point = p
    \/ store[p] \in had[p]

\* A freeze between its two assignments copied the value the counter has.
FreezeHalfDone ==
  \A t \in Thread :
    At(t, "freeze", "flags") =>
      frozen[task[t].point].value = store[task[t].point].value

FreezeIInv == HadCurrent /\ FreezeHalfDone /\ FrozenWhole

\* The events of a point are logged after it was added.
AddedBefore ==
  \A p \in Input :
    EventClass[p] \in Class /\ added[p] # Absent =>
      added[p].logged <= Len(log[EventClass[p]])

\* The callback, its two assignments done.
NotifySteps == {"notify", "raise", "append"}

\* An update on its way differs from what was last reported, which the point
\* holds until it is overwritten.
UpdatesReported ==
  \A t \in Thread :
    Inside(t) /\ task[t].op = "update" =>
      LET p == task[t].point
          r == task[t].reading
      IN p \in Input /\ EventClass[p] \in Class =>
           \E old \in Reading :
             /\ Reported(p, old)
             /\ Differ(p, old, r)
             /\ store[p] = CASE task[t].step = "value"  -> old
                             [] task[t].step = "flags"  -> [old EXCEPT !.value = r.value]
                             [] task[t].step \in NotifySteps -> r

EventsIInv ==
  AddedBefore /\ LastEventCurrent /\ UpdatesReported /\ NoRedundantEvents

DatabaseIInv == CoreIInv /\ FreezeIInv /\ EventsIInv

-----------------------------------------------------------------------------
(* Calls in progress *)

UpdateTask ==
  [point : Point, op : {"update"},
   step : {"wait", "value", "flags", "notify", "raise", "append"}, reading : Reading]
FreezeTask == [point : Counter, op : {"freeze"}, step : {"wait", "value", "flags"}]

\* A thread's operation tells what its task holds.
LEMMA TaskKinds ==
  ASSUME DatabaseTypeOK, NEW t \in Thread
  PROVE  /\ task[t].op = "idle" => task[t] = Idle
         /\ task[t].op = "update" => task[t] \in UpdateTask
         /\ task[t].op = "freeze" => task[t] \in FreezeTask
         /\ task[t].op \in {"idle", "update", "freeze"}
<1>1. task[t] \in {Idle} \cup UpdateTask \cup FreezeTask
  BY DEF DatabaseTypeOK, Task, UpdateTask, FreezeTask
<1>2. QED
  BY <1>1 DEF Idle, UpdateTask, FreezeTask

\* A call that goes on keeps all but its step.
LEMMA UpdateGoesOn ==
  ASSUME DatabaseTypeOK, NEW t \in Thread, task[t].op = "update",
         NEW s \in {"wait", "value", "flags", "notify", "raise", "append"}, NextStep(t, s)
  PROVE  /\ task' \in [Thread -> Task]
         /\ task'[t].op = "update" /\ task'[t].step = s
         /\ task'[t].point = task[t].point /\ task'[t].reading = task[t].reading
         /\ \A u \in Thread \ {t} : task'[u] = task[u]
<1>1. task \in [Thread -> Task] /\ task[t] \in UpdateTask
  BY TaskKinds DEF DatabaseTypeOK
<1>2. task' = [task EXCEPT ![t] = [task[t] EXCEPT !.step = s]]
  BY DEF NextStep
<1>3. [task[t] EXCEPT !.step = s] \in UpdateTask
  BY <1>1 DEF UpdateTask
<1>4. UpdateTask \subseteq Task
  BY DEF Task, UpdateTask
<1>5. QED
  BY <1>1, <1>2, <1>3, <1>4 DEF UpdateTask

LEMMA FreezeGoesOn ==
  ASSUME DatabaseTypeOK, NEW t \in Thread, task[t].op = "freeze",
         NEW s \in {"wait", "value", "flags"}, NextStep(t, s)
  PROVE  /\ task' \in [Thread -> Task]
         /\ task'[t].op = "freeze" /\ task'[t].step = s
         /\ task'[t].point = task[t].point
         /\ \A u \in Thread \ {t} : task'[u] = task[u]
<1>1. task \in [Thread -> Task] /\ task[t] \in FreezeTask
  BY TaskKinds DEF DatabaseTypeOK
<1>2. task' = [task EXCEPT ![t] = [task[t] EXCEPT !.step = s]]
  BY DEF NextStep
<1>3. [task[t] EXCEPT !.step = s] \in FreezeTask
  BY <1>1 DEF FreezeTask
<1>4. FreezeTask \subseteq Task
  BY DEF Task, FreezeTask
<1>5. QED
  BY <1>1, <1>2, <1>3, <1>4 DEF FreezeTask

LEMMA CallReturned ==
  ASSUME DatabaseTypeOK, NEW t \in Thread, Return(t)
  PROVE  /\ task' \in [Thread -> Task]
         /\ task'[t] = Idle /\ task'[t].op = "idle"
         /\ \A u \in Thread \ {t} : task'[u] = task[u]
         /\ lock' = Free
  BY DEF DatabaseTypeOK, Return, Task, Idle

-----------------------------------------------------------------------------
(* Locking *)

\* Nobody is inside while the lock is free, and nobody but a thread that is.
LEMMA Alone ==
  ASSUME Exclusive, NEW t \in Thread, Inside(t)
  PROVE  lock = t /\ \A u \in Thread \ {t} : ~Inside(u)
  BY DEF Exclusive

LEMMA NobodyInside ==
  ASSUME Exclusive, lock = Free
  PROVE  \A u \in Thread : ~Inside(u)
  BY FreeAssumption DEF Exclusive

\* The lock keeps the threads apart when one of them, alone inside or free to
\* enter, takes a step.
LEMMA ExclusiveKept ==
  ASSUME Exclusive, NEW t \in Thread, lock = Free \/ Inside(t),
         \A u \in Thread \ {t} : task'[u] = task[u],
         Inside(t)' => lock' = t
  PROVE  /\ Exclusive'
         /\ \A u \in Thread : Inside(u)' => u = t
<1>1. \A u \in Thread \ {t} : ~Inside(u)
  BY Alone, NobodyInside
<1>2. \A u \in Thread \ {t} : ~Inside(u)'
  BY <1>1 DEF Inside
<1>3. QED
  BY <1>2 DEF Exclusive

LEMMA BufferKept ==
  ASSUME BufferIInv, UNCHANGED bufferVars
  PROVE  BufferIInv' /\ BufferTypeOK'
  BY DEF bufferVars, flagVars, confirmVars, BufferIInv, BufferTypeOK, NewestKept, Kept

-----------------------------------------------------------------------------
(* What each step of a thread does *)

LEMMA EnterUpdateEffect ==
  ASSUME CoreIInv, NEW t \in Thread, EnterUpdate(t)
  PROVE  /\ lock = Free
         /\ task' \in [Thread -> Task]
         /\ \A u \in Thread \ {t} : task'[u] = task[u]
         /\ \/ ~Inside(t)' /\ lock' = Free
            \/ /\ lock' = t
               /\ task'[t].op = "update" /\ task'[t].step = "value"
               /\ task'[t].point = task[t].point
               /\ task'[t].reading = task[t].reading
               /\ task[t] \in UpdateTask
               /\ store[task[t].point] # Absent
               /\ Changes(task[t].point, task[t].reading)
         /\ UNCHANGED <<bufferVars, store, frozen, order, former, added, calls, had>>
<1>1. task[t].op = "update" /\ lock = Free
  BY DEF EnterUpdate, At
<1>2. task[t] \in UpdateTask
  BY <1>1, TaskKinds DEF CoreIInv
<1>3. CASE Return(t)
  BY <1>1, <1>3, CallReturned DEF CoreIInv, EnterUpdate, Inside, addVars
<1>4. CASE NextStep(t, "value") /\ lock' = t
           /\ store[task[t].point] # Absent
           /\ Changes(task[t].point, task[t].reading)
  BY <1>1, <1>2, <1>4, UpdateGoesOn DEF CoreIInv, EnterUpdate, addVars
<1>5. QED
  BY <1>3, <1>4 DEF EnterUpdate

LEMMA WriteValueEffect ==
  ASSUME CoreIInv, NEW t \in Thread, WriteValue(t)
  PROVE  /\ Inside(t) /\ task[t].op = "update" /\ task[t].step = "value"
         /\ task[t] \in UpdateTask
         /\ task' \in [Thread -> Task]
         /\ \A u \in Thread \ {t} : task'[u] = task[u]
         /\ task'[t].op = "update" /\ task'[t].step = "flags"
         /\ task'[t].point = task[t].point /\ task'[t].reading = task[t].reading
         /\ store[task[t].point] \in Reading
         /\ store' = [store EXCEPT ![task[t].point] =
              [value |-> task[t].reading.value, flags |-> store[task[t].point].flags]]
         /\ UNCHANGED <<bufferVars, frozen, order, former, added, lock, calls, had>>
<1>1. /\ task[t].op = "update" /\ task[t].step = "value" /\ NextStep(t, "flags")
      /\ store' = [store EXCEPT ![task[t].point] =
                     [store[task[t].point] EXCEPT !.value = task[t].reading.value]]
      /\ UNCHANGED <<bufferVars, frozen, order, former, added, lock, calls, had>>
  BY DEF WriteValue, At, addVars
<1>2. task[t] \in UpdateTask /\ Inside(t)
  BY <1>1, TaskKinds DEF CoreIInv, Inside
<1>3. store[task[t].point] \in Reading
  BY <1>2 DEF CoreIInv, PointsThere, DatabaseTypeOK, UpdateTask
<1>4. [store[task[t].point] EXCEPT !.value = task[t].reading.value]
        = [value |-> task[t].reading.value, flags |-> store[task[t].point].flags]
  BY <1>3 DEF Reading
<1>5. QED
  BY <1>1, <1>2, <1>3, <1>4, UpdateGoesOn DEF CoreIInv

LEMMA WriteFlagsEffect ==
  ASSUME CoreIInv, NEW t \in Thread, WriteFlags(t)
  PROVE  LET p == task[t].point
             new == [value |-> store[p].value, flags |-> task[t].reading.flags]
         IN /\ Inside(t) /\ task[t].op = "update" /\ task[t].step = "flags"
            /\ task[t] \in UpdateTask
            /\ task' \in [Thread -> Task]
            /\ \A u \in Thread \ {t} : task'[u] = task[u]
            /\ \/ /\ p \in Input /\ lock' = lock
                  /\ task'[t].op = "update" /\ task'[t].step = "notify"
                  /\ task'[t].point = p /\ task'[t].reading = task[t].reading
               \/ p \notin Input /\ lock' = Free /\ ~Inside(t)' /\ task'[t] = Idle
            /\ store[p] \in Reading /\ new \in Reading
            /\ store' = [store EXCEPT ![p] = new]
            /\ had' = [had EXCEPT ![p] = had[p] \cup {new}]
            /\ UNCHANGED <<bufferVars, frozen, order, former, added, calls>>
<1> DEFINE p == task[t].point
           new == [value |-> store[p].value, flags |-> task[t].reading.flags]
<1>1. /\ task[t].op = "update" /\ task[t].step = "flags"
      /\ store' = [store EXCEPT ![p] = [store[p] EXCEPT !.flags = task[t].reading.flags]]
      /\ had' = [had EXCEPT ![p] = had[p] \cup {store'[p]}]
      /\ \/ p \in Input /\ NextStep(t, "notify") /\ lock' = lock
         \/ p \notin Input /\ Return(t)
      /\ UNCHANGED <<bufferVars, frozen, order, former, added, calls>>
  BY DEF WriteFlags, At, addVars
<1>2. task[t] \in UpdateTask /\ Inside(t)
  BY <1>1, TaskKinds DEF CoreIInv, Inside
<1>3. store[p] \in Reading
  BY <1>2 DEF CoreIInv, PointsThere, DatabaseTypeOK, UpdateTask
<1>4. [store[p] EXCEPT !.flags = task[t].reading.flags] = new /\ new \in Reading
  BY <1>2, <1>3 DEF Reading, UpdateTask
<1>5. store' = [store EXCEPT ![p] = new]
  BY <1>1, <1>4
<1>6. store'[p] = new
  BY <1>2, <1>5 DEF CoreIInv, DatabaseTypeOK, UpdateTask
<1>7. had' = [had EXCEPT ![p] = had[p] \cup {new}]
  BY <1>1, <1>6
<1>8. CASE p \in Input /\ NextStep(t, "notify") /\ lock' = lock
  BY <1>1, <1>2, <1>3, <1>4, <1>5, <1>7, <1>8, UpdateGoesOn DEF CoreIInv
<1>9. CASE p \notin Input /\ Return(t)
  BY <1>1, <1>2, <1>3, <1>4, <1>5, <1>7, <1>9, CallReturned DEF CoreIInv, Inside
<1>10. QED
  BY <1>1, <1>8, <1>9

LEMMA NotifyEffect ==
  ASSUME CoreIInv, NEW t \in Thread, Notify(t)
  PROVE  LET p == task[t].point
             r == task[t].reading
         IN /\ Inside(t) /\ task[t].op = "update" /\ task[t].step = "notify"
            /\ task[t] \in UpdateTask /\ p \in Input
            /\ task' \in [Thread -> Task]
            /\ \A u \in Thread \ {t} : task'[u] = task[u]
            /\ \/ /\ EventClass[p] \notin Class /\ UNCHANGED bufferVars
                  /\ task'[t] = Idle /\ ~Inside(t)' /\ lock' = Free
               \/ /\ EventClass[p] \in Class /\ LookAtQueue /\ lock' = lock
                  /\ task'[t].op = "update"
                  /\ task'[t].step = IF IsFull(buffers[EventClass[p]],
                                               ClassMax[EventClass[p]])
                                     THEN "raise" ELSE "append"
                  /\ task'[t].point = p /\ task'[t].reading = r
            /\ UNCHANGED <<store, frozen, order, former, added, log, calls, had>>
<1> DEFINE c == EventClass[task[t].point]
<1>1. task[t].op = "update" /\ task[t].step = "notify"
  BY DEF Notify, At
<1>2. /\ task[t] \in UpdateTask /\ Inside(t) /\ task[t].point \in Input
      /\ DatabaseTypeOK
  BY <1>1, TaskKinds DEF CoreIInv, Inside, InputsNotify, At
<1>3. UNCHANGED <<store, frozen, order, former, added, log, calls, had>>
  BY DEF Notify, addVars, LookAtQueue, bufferVars
<1>4. CASE c \notin Class /\ UNCHANGED bufferVars /\ Return(t)
  BY <1>1, <1>2, <1>3, <1>4, CallReturned DEF Inside
<1>5. CASE /\ c \in Class /\ LookAtQueue /\ lock' = lock
           /\ NextStep(t, IF IsFull(buffers[c], ClassMax[c]) THEN "raise" ELSE "append")
  <2>1. PICK s \in {"raise", "append"} :
          /\ s = IF IsFull(buffers[c], ClassMax[c]) THEN "raise" ELSE "append"
          /\ NextStep(t, s)
    BY <1>5
  <2>2. QED
    BY <1>1, <1>2, <1>3, <1>5, <2>1, UpdateGoesOn
<1>6. QED
  BY <1>4, <1>5 DEF Notify

LEMMA NotifyFullEffect ==
  ASSUME CoreIInv, NEW t \in Thread, NotifyFull(t)
  PROVE  LET p == task[t].point
         IN /\ Inside(t) /\ task[t].op = "update" /\ task[t].step = "raise"
            /\ task[t] \in UpdateTask /\ p \in Input /\ EventClass[p] \in Class
            /\ task' \in [Thread -> Task]
            /\ \A u \in Thread \ {t} : task'[u] = task[u]
            /\ RaiseOverflow
            /\ task'[t].op = "update" /\ task'[t].step = "append"
            /\ task'[t].point = p /\ task'[t].reading = task[t].reading
            /\ UNCHANGED <<store, frozen, order, former, added, log, lock, calls, had>>
<1>1. /\ task[t].op = "update" /\ task[t].step = "raise" /\ NextStep(t, "append")
      /\ RaiseOverflow
  BY DEF NotifyFull, At
<1>2. /\ task[t] \in UpdateTask /\ Inside(t)
      /\ task[t].point \in Input /\ EventClass[task[t].point] \in Class
  BY <1>1, TaskKinds DEF CoreIInv, Inside, InputsNotify, At
<1>3. UNCHANGED <<store, frozen, order, former, added, log, lock, calls, had>>
  BY DEF NotifyFull, RaiseOverflow, addVars
<1>4. QED
  BY <1>1, <1>2, <1>3, UpdateGoesOn DEF CoreIInv

LEMMA NotifyAppendEffect ==
  ASSUME CoreIInv, NEW t \in Thread, NotifyAppend(t)
  PROVE  LET p == task[t].point
             r == task[t].reading
         IN /\ Inside(t) /\ task[t].op = "update" /\ task[t].step = "append"
            /\ task[t] \in UpdateTask /\ p \in Input /\ EventClass[p] \in Class
            /\ task' \in [Thread -> Task]
            /\ \A u \in Thread \ {t} : task'[u] = task[u]
            /\ task'[t] = Idle /\ ~Inside(t)' /\ lock' = Free
            /\ AppendEvent(EventClass[p],
                           [point |-> p, value |-> r.value, flags |-> r.flags])
            /\ [point |-> p, value |-> r.value, flags |-> r.flags] \in Event
            /\ UNCHANGED <<store, frozen, order, former, added, calls, had>>
<1>1. task[t].op = "update" /\ task[t].step = "append" /\ Return(t)
  BY DEF NotifyAppend, At
<1>2. /\ task[t] \in UpdateTask /\ Inside(t)
      /\ task[t].point \in Input /\ EventClass[task[t].point] \in Class
  BY <1>1, TaskKinds DEF CoreIInv, Inside, InputsNotify, At
<1>3. [point |-> task[t].point, value |-> task[t].reading.value,
       flags |-> task[t].reading.flags] \in Event
  BY <1>2, EventAssumption DEF UpdateTask, Reading
<1>4. QED
  BY <1>1, <1>2, <1>3, CallReturned DEF CoreIInv, NotifyAppend, Inside, addVars

LEMMA EnterFreezeEffect ==
  ASSUME CoreIInv, NEW t \in Thread, EnterFreeze(t)
  PROVE  /\ lock = Free
         /\ task' \in [Thread -> Task]
         /\ \A u \in Thread \ {t} : task'[u] = task[u]
         /\ \/ task'[t] = Idle /\ ~Inside(t)' /\ lock' = Free
            \/ /\ lock' = t
               /\ task'[t].op = "freeze" /\ task'[t].step = "value"
               /\ task'[t].point = task[t].point
               /\ task[t] \in FreezeTask
               /\ store[task[t].point] # Absent
         /\ UNCHANGED <<bufferVars, store, frozen, order, former, added, calls, had>>
<1>1. task[t].op = "freeze" /\ lock = Free
  BY DEF EnterFreeze, At
<1>2. task[t] \in FreezeTask
  BY <1>1, TaskKinds DEF CoreIInv
<1>3. CASE Return(t)
  BY <1>1, <1>3, CallReturned DEF CoreIInv, EnterFreeze, Inside, addVars
<1>4. CASE NextStep(t, "value") /\ lock' = t /\ store[task[t].point] # Absent
  BY <1>1, <1>2, <1>4, FreezeGoesOn DEF CoreIInv, EnterFreeze, addVars
<1>5. QED
  BY <1>3, <1>4 DEF EnterFreeze

\* Both assignments of a freeze write to a frozen counter that is there.
LEMMA FreezeAt ==
  ASSUME CoreIInv, NEW t \in Thread, task[t].op = "freeze", Inside(t)
  PROVE  /\ task[t] \in FreezeTask
         /\ task[t].point \in Counter
         /\ store[task[t].point] \in Reading /\ frozen[task[t].point] \in Reading
<1>1. task[t] \in FreezeTask /\ task[t].point \in Counter
  BY TaskKinds DEF CoreIInv, FreezeTask
<1>2. QED
  BY <1>1 DEF CoreIInv, PointsThere, DatabaseTypeOK, Point

LEMMA FreezeValueEffect ==
  ASSUME CoreIInv, NEW t \in Thread, FreezeValue(t)
  PROVE  LET c == task[t].point
         IN /\ Inside(t) /\ task[t].op = "freeze" /\ task[t].step = "value"
            /\ task' \in [Thread -> Task]
            /\ \A u \in Thread \ {t} : task'[u] = task[u]
            /\ task'[t].op = "freeze" /\ task'[t].step = "flags" /\ task'[t].point = c
            /\ frozen' = [frozen EXCEPT ![c] =
                            [value |-> store[c].value, flags |-> frozen[c].flags]]
            /\ UNCHANGED <<bufferVars, store, order, former, added, lock, calls, had>>
<1> DEFINE c == task[t].point
<1>1. /\ task[t].op = "freeze" /\ task[t].step = "value" /\ NextStep(t, "flags")
      /\ frozen' = [frozen EXCEPT ![c] = [frozen[c] EXCEPT !.value = store[c].value]]
      /\ UNCHANGED <<bufferVars, store, order, former, added, lock, calls, had>>
  BY DEF FreezeValue, At, addVars
<1>2. Inside(t)
  BY <1>1 DEF Inside
<1>3. [frozen[c] EXCEPT !.value = store[c].value]
        = [value |-> store[c].value, flags |-> frozen[c].flags]
  BY <1>1, <1>2, FreezeAt DEF Reading
<1>4. QED
  BY <1>1, <1>2, <1>3, FreezeGoesOn DEF CoreIInv

LEMMA FreezeFlagsEffect ==
  ASSUME CoreIInv, NEW t \in Thread, FreezeFlags(t)
  PROVE  LET c == task[t].point
         IN /\ Inside(t) /\ task[t].op = "freeze" /\ task[t].step = "flags"
            /\ task' \in [Thread -> Task]
            /\ \A u \in Thread \ {t} : task'[u] = task[u]
            /\ task'[t] = Idle /\ ~Inside(t)' /\ lock' = Free
            /\ frozen' = [frozen EXCEPT ![c] =
                            [value |-> frozen[c].value, flags |-> store[c].flags]]
            /\ UNCHANGED <<bufferVars, store, order, former, added, calls, had>>
<1> DEFINE c == task[t].point
<1>1. /\ task[t].op = "freeze" /\ task[t].step = "flags" /\ Return(t)
      /\ frozen' = [frozen EXCEPT ![c] = [frozen[c] EXCEPT !.flags = store[c].flags]]
      /\ UNCHANGED <<bufferVars, store, order, former, added, calls, had>>
  BY DEF FreezeFlags, At, addVars
<1>2. Inside(t)
  BY <1>1 DEF Inside
<1>3. [frozen[c] EXCEPT !.flags = store[c].flags]
        = [value |-> frozen[c].value, flags |-> store[c].flags]
  BY <1>1, <1>2, FreezeAt DEF Reading
<1>4. QED
  BY <1>1, <1>2, <1>3, CallReturned DEF CoreIInv, Inside

LEMMA CallEffect ==
  ASSUME CoreIInv, NEW t \in Thread, NEW job \in UpdateTask \cup FreezeTask,
         job.step = "wait", Call(t, job)
  PROVE  /\ ~Inside(t) /\ ~Inside(t)'
         /\ task' \in [Thread -> Task]
         /\ \A u \in Thread \ {t} : task'[u] = task[u]
         /\ calls' \in 0 .. MaxCalls
         /\ UNCHANGED <<bufferVars, store, frozen, order, former, added, lock, had>>
<1>1. job \in Task /\ task \in [Thread -> Task] /\ calls \in 0 .. MaxCalls
  BY DEF Task, UpdateTask, FreezeTask, CoreIInv, DatabaseTypeOK
<1>2. /\ task[t] = Idle /\ calls < MaxCalls /\ calls' = calls + 1
      /\ task' = [task EXCEPT ![t] = job]
      /\ UNCHANGED <<bufferVars, store, frozen, order, former, added, lock, had>>
  BY DEF Call, addVars
<1>3. ~Inside(t) /\ ~Inside(t)'
  BY <1>1, <1>2 DEF Inside, Idle
<1>4. QED
  BY <1>1, <1>2, <1>3, CallsAssumption

Zero == [value |-> 0, flags |-> Online]

LEMMA AddPointEffect ==
  ASSUME CoreIInv, NEW p \in Point, NEW v \in Value, AddPoint(p, v)
  PROVE  LET r == [value |-> v, flags |-> Online]
         IN /\ lock = Free
            /\ r \in Reading /\ Zero \in Reading /\ EventCount(p) \in Nat
            /\ store' = [store EXCEPT ![p] = r]
            /\ had' = [had EXCEPT ![p] = had[p] \cup {r}]
            /\ added' = [added EXCEPT ![p] = [reading |-> r, logged |-> EventCount(p)]]
            /\ frozen' = IF p \in Counter THEN [frozen EXCEPT ![p] = Zero] ELSE frozen
            /\ order' \in Seq(Point)
            /\ former' \in [Point -> Seq([live : Reading, frozen : Reading \cup {Absent}])]
            /\ UNCHANGED <<bufferVars, lock, task, calls>>
<1> DEFINE r == [value |-> v, flags |-> Online]
           Replaced == [live : Reading, frozen : Reading \cup {Absent}]
<1>1. /\ lock = Free
      /\ store' = [store EXCEPT ![p] = r]
      /\ had' = [had EXCEPT ![p] = had[p] \cup {r}]
      /\ added' = [added EXCEPT ![p] = [reading |-> r, logged |-> EventCount(p)]]
      /\ frozen' = IF p \in Counter THEN [frozen EXCEPT ![p] = Zero] ELSE frozen
      /\ UNCHANGED <<bufferVars, lock, task, calls>>
  BY DEF AddPoint, Zero
<1>2. r \in Reading /\ Zero \in Reading
  BY OnlineAssumption DEF Reading, Zero
<1>3. EventCount(p) \in Nat
  BY LenProperties DEF EventCount, CoreIInv, DatabaseTypeOK, BufferTypeOK
<1>4. order' \in Seq(Point)
  <2>1. order' = order \/ order' = Append(order, p)
    BY DEF AddPoint
  <2>2. order \in Seq(Point)
    BY DEF CoreIInv, DatabaseTypeOK
  <2>3. Append(order, p) \in Seq(Point)
    BY <2>2, AppendProperties
  <2>4. QED
    BY <2>1, <2>2, <2>3
<1>5. former' \in [Point -> Seq(Replaced)]
  <2>1. former \in [Point -> Seq(Replaced)]
    BY DEF CoreIInv, DatabaseTypeOK
  <2>2. CASE store[p] = Absent
    BY <2>1, <2>2 DEF AddPoint
  <2>3. CASE store[p] # Absent
    <3>1. Objects(p) \in Replaced
      BY <2>3 DEF Objects, CoreIInv, DatabaseTypeOK
    <3>2. Append(former[p], Objects(p)) \in Seq(Replaced)
      BY <2>1, <3>1, AppendProperties
    <3>3. former' = [former EXCEPT ![p] = Append(former[p], Objects(p))]
      BY <2>3 DEF AddPoint
    <3>4. QED
      BY <2>1, <3>2, <3>3
  <2>4. QED
    BY <2>2, <2>3
<1>6. QED
  BY <1>1, <1>2, <1>3, <1>4, <1>5

-----------------------------------------------------------------------------
(* Types, the lock and the points: the core of the invariant *)

LEMMA CoreInit == DatabaseInit => CoreIInv
<1> SUFFICES ASSUME DatabaseInit PROVE CoreIInv
  OBVIOUS
<1>1. BufferIInv /\ BufferTypeOK
  BY BufferInitInv DEF DatabaseInit, BufferIInv
<1>2. \A S : <<>> \in Seq(S)
  BY EmptySeq
<1>3. DatabaseTypeOK
  <2>1. task \in [Thread -> Task]
    BY DEF DatabaseInit, Task
  <2>2. calls \in 0 .. MaxCalls
    BY CallsAssumption DEF DatabaseInit
  <2>3. /\ order \in Seq(Point)
        /\ former \in [Point -> Seq([live : Reading, frozen : Reading \cup {Absent}])]
    BY <1>2 DEF DatabaseInit
  <2>4. QED
    BY <1>1, <2>1, <2>2, <2>3 DEF DatabaseInit, DatabaseTypeOK
<1>4. \A t \in Thread : ~Inside(t)
  BY DEF DatabaseInit, Inside, Idle
<1>5. Exclusive /\ PointsThere
  BY <1>4 DEF DatabaseInit, Exclusive, PointsThere, Point
<1>6. InputsNotify
  BY DEF DatabaseInit, InputsNotify, At, Idle
<1>7. QED
  BY <1>1, <1>3, <1>5, <1>6 DEF CoreIInv

LEMMA CoreAddPoint ==
  ASSUME CoreIInv, NEW p \in Point, NEW v \in Value, AddPoint(p, v)
  PROVE  CoreIInv'
<1> DEFINE r == [value |-> v, flags |-> Online]
<1>1. /\ lock = Free
      /\ r \in Reading /\ Zero \in Reading /\ EventCount(p) \in Nat
      /\ store' = [store EXCEPT ![p] = r]
      /\ had' = [had EXCEPT ![p] = had[p] \cup {r}]
      /\ added' = [added EXCEPT ![p] = [reading |-> r, logged |-> EventCount(p)]]
      /\ frozen' = IF p \in Counter THEN [frozen EXCEPT ![p] = Zero] ELSE frozen
      /\ order' \in Seq(Point)
      /\ former' \in [Point -> Seq([live : Reading, frozen : Reading \cup {Absent}])]
      /\ UNCHANGED <<bufferVars, lock, task, calls>>
  BY AddPointEffect
<1>2. BufferIInv' /\ BufferTypeOK'
  BY <1>1, BufferKept DEF CoreIInv
<1>3. Absent # r /\ Absent # Zero /\ Absent # [reading |-> r, logged |-> EventCount(p)]
  <2>1. [reading |-> r, logged |-> EventCount(p)] \in [reading : Reading, logged : Nat]
    BY <1>1
  <2>2. QED
    BY <1>1, <2>1, AbsentAssumption
<1> HIDE DEF r
<1>4. /\ store \in [Point -> Reading \cup {Absent}]
      /\ frozen \in [Counter -> Reading \cup {Absent}]
      /\ added \in [Point -> [reading : Reading, logged : Nat] \cup {Absent}]
      /\ had \in [Point -> SUBSET Reading]
  BY DEF CoreIInv, DatabaseTypeOK
<1>5. /\ store' \in [Point -> Reading \cup {Absent}]
      /\ frozen' \in [Counter -> Reading \cup {Absent}]
  BY <1>1, <1>4
<1>6. /\ added' \in [Point -> [reading : Reading, logged : Nat] \cup {Absent}]
      /\ had' \in [Point -> SUBSET Reading]
  BY <1>1, <1>4
<1>7. DatabaseTypeOK'
  BY <1>1, <1>2, <1>5, <1>6 DEF CoreIInv, DatabaseTypeOK
<1>8. \A t \in Thread : ~Inside(t) /\ ~Inside(t)'
  BY <1>1, NobodyInside DEF CoreIInv, Inside
<1>9. Exclusive' /\ PointsThere'
  BY <1>1, <1>3, <1>4, <1>8 DEF CoreIInv, Exclusive, PointsThere, Point
<1>10. InputsNotify'
  BY <1>1 DEF CoreIInv, InputsNotify, At
<1>11. QED
  BY <1>2, <1>7, <1>9, <1>10 DEF CoreIInv

\* A thread that is alone inside, or free to enter, and leaves the points where
\* they are keeps the core.
LEMMA CoreKept ==
  ASSUME CoreIInv, NEW t \in Thread,
         lock = Free \/ Inside(t),
         task' \in [Thread -> Task],
         \A u \in Thread \ {t} : task'[u] = task[u],
         lock' \in Thread \cup {Free},
         Inside(t)' => lock' = t /\ store[task'[t].point] # Absent,
         Inside(t)' /\ task'[t].op = "update" /\ task'[t].step \in NotifySteps
           => task'[t].point \in Input,
         Inside(t)' /\ task'[t].op = "update" /\ task'[t].step \in {"raise", "append"}
           => EventClass[task'[t].point] \in Class,
         store' \in [Point -> Reading \cup {Absent}],
         \A p \in Point : store'[p] = Absent <=> store[p] = Absent,
         frozen' \in [Counter -> Reading \cup {Absent}],
         \A c \in Counter : frozen[c] # Absent => frozen'[c] # Absent,
         had' \in [Point -> SUBSET Reading],
         BufferIInv',
         UNCHANGED <<order, former, added, calls>>
  PROVE  CoreIInv'
<1>1. Exclusive' /\ \A u \in Thread : Inside(u)' => u = t
  BY ExclusiveKept DEF CoreIInv
<1>2. DatabaseTypeOK'
  BY DEF CoreIInv, BufferIInv, DatabaseTypeOK
<1>3. PointsThere'
  <2>1. ASSUME NEW u \in Thread, Inside(u)'
        PROVE  store'[task'[u].point] # Absent
    <3>1. u = t
      BY <1>1, <2>1
    <3>2. task'[t].point \in Point
      <4>1. task'[t] \in Task /\ task'[t].op # "idle"
        BY <2>1, <3>1 DEF Inside
      <4>2. QED
        BY <4>1 DEF Task, Idle, Point
    <3>3. QED
      BY <2>1, <3>1, <3>2
  <2>2. QED
    BY <2>1, Zenon DEF CoreIInv, PointsThere, Point
<1>4. InputsNotify'
  BY DEF CoreIInv, InputsNotify, Inside, At, NotifySteps
<1>5. QED
  BY <1>1, <1>2, <1>3, <1>4 DEF CoreIInv

\* A step of a call takes the core to the core.
LEMMA CoreThreadStep ==
  ASSUME CoreIInv, NEW t \in Thread, ThreadStep(t)
  PROVE  CoreIInv'
<1>1. /\ DatabaseTypeOK /\ BufferIInv
      /\ store \in [Point -> Reading \cup {Absent}]
      /\ frozen \in [Counter -> Reading \cup {Absent}]
      /\ had \in [Point -> SUBSET Reading]
      /\ lock \in Thread \cup {Free}
      /\ Absent \notin Reading
  BY AbsentAssumption DEF CoreIInv, DatabaseTypeOK
<1>2. Inside(t) => store[task[t].point] # Absent
  BY DEF CoreIInv, PointsThere
<1>3. CASE EnterUpdate(t)
  BY <1>1, <1>3, EnterUpdateEffect, BufferKept, CoreKept DEF NotifySteps
<1>4. CASE WriteValue(t)
  <2>1. [value |-> task[t].reading.value, flags |-> store[task[t].point].flags] \in Reading
    BY <1>4, WriteValueEffect DEF Reading, UpdateTask
  <2>2. /\ store' \in [Point -> Reading \cup {Absent}]
        /\ \A p \in Point : store'[p] = Absent <=> store[p] = Absent
    BY <1>1, <1>2, <1>4, <2>1, WriteValueEffect
  <2>3. Inside(t) /\ lock' = t /\ store[task'[t].point] # Absent
    BY <1>2, <1>4, WriteValueEffect, Alone DEF CoreIInv
  <2>4. BufferIInv'
    BY <1>1, <1>4, WriteValueEffect, BufferKept
  <2>5. /\ task' \in [Thread -> Task] /\ task'[t].step = "flags"
        /\ \A u \in Thread \ {t} : task'[u] = task[u]
        /\ UNCHANGED <<frozen, order, former, added, calls, had>>
    BY <1>4, WriteValueEffect
  <2>6. QED
    BY <1>1, <2>2, <2>3, <2>4, <2>5, CoreKept DEF NotifySteps
<1>5. CASE WriteFlags(t)
  <2> DEFINE p == task[t].point
             new == [value |-> store[p].value, flags |-> task[t].reading.flags]
  <2>1. /\ Inside(t) /\ task[t] \in UpdateTask
        /\ store[p] \in Reading /\ new \in Reading
        /\ store' = [store EXCEPT ![p] = new]
        /\ had' = [had EXCEPT ![p] = had[p] \cup {new}]
    BY <1>5, WriteFlagsEffect
  <2>2. lock = t /\ p \in Point
    BY <2>1, Alone DEF CoreIInv, UpdateTask
  <2> HIDE DEF p, new
  <2>3. /\ store' \in [Point -> Reading \cup {Absent}]
        /\ \A q \in Point : store'[q] = Absent <=> store[q] = Absent
        /\ had' \in [Point -> SUBSET Reading]
    BY <1>1, <2>1, <2>2
  <2>4. /\ task' \in [Thread -> Task]
        /\ \A u \in Thread \ {t} : task'[u] = task[u]
        /\ \/ /\ lock' = lock /\ task'[t].point = task[t].point /\ task[t].point \in Input
              /\ task'[t].step = "notify"
           \/ lock' = Free /\ ~Inside(t)'
        /\ UNCHANGED <<bufferVars, frozen, order, former, added, calls>>
    BY <1>5, WriteFlagsEffect
  <2>5. BufferIInv'
    BY <1>1, <2>4, BufferKept
  <2>6. QED
    BY <1>1, <1>2, <2>1, <2>2, <2>3, <2>4, <2>5, CoreKept
<1>6. CASE Notify(t) \/ NotifyFull(t)
  <2>1. /\ Inside(t) /\ task[t].point \in Input
        /\ task' \in [Thread -> Task]
        /\ \A u \in Thread \ {t} : task'[u] = task[u]
        /\ \/ ~Inside(t)' /\ lock' = Free
           \/ /\ lock' = lock /\ task'[t].point = task[t].point
              /\ EventClass[task[t].point] \in Class
        /\ UNCHANGED <<store, frozen, order, former, added, calls, had>>
    BY <1>6, NotifyEffect, NotifyFullEffect
  <2>2. BufferIInv'
    BY <1>1, <1>6, NotifyEffect, NotifyFullEffect, FlagsPreserve, BufferKept
  <2>3. lock = t
    BY <2>1, Alone DEF CoreIInv
  <2>4. QED
    BY <1>1, <1>2, <2>1, <2>2, <2>3, CoreKept
<1>10. CASE NotifyAppend(t)
  <2>1. /\ Inside(t) /\ ~Inside(t)' /\ lock' = Free
        /\ task' \in [Thread -> Task]
        /\ \A u \in Thread \ {t} : task'[u] = task[u]
        /\ UNCHANGED <<store, frozen, order, former, added, calls, had>>
    BY <1>10, NotifyAppendEffect
  <2>2. BufferIInv'
    BY <1>1, <1>10, NotifyAppendEffect, AppendPreserves
  <2>3. QED
    BY <1>1, <2>1, <2>2, CoreKept
<1>7. CASE EnterFreeze(t)
  BY <1>1, <1>7, EnterFreezeEffect, BufferKept, CoreKept
<1>8. CASE FreezeValue(t) \/ FreezeFlags(t)
  <2> DEFINE c == task[t].point
  <2>1. PICK new \in Reading : frozen' = [frozen EXCEPT ![c] = new]
    <3>1. Inside(t) /\ task[t].op = "freeze"
      BY <1>8, FreezeValueEffect, FreezeFlagsEffect
    <3>2. /\ [value |-> store[c].value, flags |-> frozen[c].flags] \in Reading
          /\ [value |-> frozen[c].value, flags |-> store[c].flags] \in Reading
      BY <3>1, FreezeAt DEF Reading
    <3>3. QED
      BY <1>8, <3>2, FreezeValueEffect, FreezeFlagsEffect
  <2>2. /\ Inside(t)
        /\ task' \in [Thread -> Task]
        /\ \A u \in Thread \ {t} : task'[u] = task[u]
        /\ \/ lock' = lock /\ task'[t].point = c /\ task'[t].op = "freeze"
           \/ lock' = Free /\ ~Inside(t)'
        /\ UNCHANGED <<bufferVars, store, order, former, added, calls, had>>
    BY <1>8, FreezeValueEffect, FreezeFlagsEffect
  <2>3. BufferIInv'
    BY <1>1, <2>2, BufferKept
  <2>4. lock = t
    BY <2>2, Alone DEF CoreIInv
  <2> HIDE DEF c
  <2>5. /\ frozen' \in [Counter -> Reading \cup {Absent}]
        /\ \A d \in Counter : frozen[d] # Absent => frozen'[d] # Absent
    BY <1>1, <2>1
  <2>6. QED
    BY <1>1, <1>2, <2>2, <2>3, <2>4, <2>5, CoreKept DEF c
<1>9. QED
  BY <1>3, <1>4, <1>5, <1>6, <1>7, <1>8, <1>10 DEF ThreadStep

\* Calls begin with a task that waits.
LEMMA CallBegins ==
  ASSUME CoreIInv, NEW t \in Thread,
         (\E p \in Point, r \in Reading : CallUpdate(t, p, r))
           \/ (\E c \in Counter : CallFreeze(t, c))
  PROVE  /\ ~Inside(t) /\ ~Inside(t)'
         /\ task' \in [Thread -> Task]
         /\ \A u \in Thread \ {t} : task'[u] = task[u]
         /\ calls' \in 0 .. MaxCalls
         /\ UNCHANGED <<bufferVars, store, frozen, order, former, added, lock, had>>
<1>1. CASE \E p \in Point, r \in Reading : CallUpdate(t, p, r)
  <2>1. PICK p \in Point, r \in Reading : CallUpdate(t, p, r)
    BY <1>1
  <2>2. [point |-> p, op |-> "update", step |-> "wait", reading |-> r] \in UpdateTask
    BY DEF UpdateTask
  <2>3. QED
    BY <2>1, <2>2, CallEffect DEF CallUpdate
<1>2. CASE \E c \in Counter : CallFreeze(t, c)
  <2>1. PICK c \in Counter : CallFreeze(t, c)
    BY <1>2
  <2>2. [point |-> c, op |-> "freeze", step |-> "wait"] \in FreezeTask
    BY DEF FreezeTask
  <2>3. QED
    BY <2>1, <2>2, CallEffect DEF CallFreeze
<1>3. QED
  BY <1>1, <1>2

LEMMA CoreCall ==
  ASSUME CoreIInv, NEW t \in Thread,
         (\E p \in Point, r \in Reading : CallUpdate(t, p, r))
           \/ (\E c \in Counter : CallFreeze(t, c))
  PROVE  CoreIInv'
<1>1. /\ ~Inside(t) /\ ~Inside(t)'
      /\ task' \in [Thread -> Task]
      /\ \A u \in Thread \ {t} : task'[u] = task[u]
      /\ calls' \in 0 .. MaxCalls
      /\ UNCHANGED <<bufferVars, store, frozen, order, former, added, lock, had>>
  BY CallBegins
<1>2. BufferIInv' /\ BufferTypeOK'
  BY <1>1, BufferKept DEF CoreIInv
<1>3. DatabaseTypeOK'
  BY <1>1, <1>2 DEF CoreIInv, DatabaseTypeOK
<1>4. \A u \in Thread : Inside(u)' => Inside(u) /\ task'[u] = task[u]
  BY <1>1 DEF Inside
<1>5. Exclusive' /\ PointsThere'
  BY <1>1, <1>4 DEF CoreIInv, Exclusive, PointsThere
<1>6. InputsNotify'
  BY <1>1 DEF CoreIInv, InputsNotify, Inside, At
<1>7. QED
  BY <1>2, <1>3, <1>5, <1>6 DEF CoreIInv

-----------------------------------------------------------------------------
(* Frozen counters *)

\* A thread that copies or overwrites nothing leaves the frozen counters whole.
LEMMA FreezeKept ==
  ASSUME CoreIInv, FreezeIInv, NEW t \in Thread,
         \A u \in Thread \ {t} : task'[u] = task[u],
         ~At(t, "update", "flags"), ~(Inside(t) /\ task[t].op = "freeze"),
         ~At(t, "freeze", "flags")',
         UNCHANGED <<store, frozen, had>>
  PROVE  FreezeIInv'
<1>1. HadCurrent'
  BY DEF FreezeIInv, HadCurrent, At
<1>2. FreezeHalfDone'
  BY DEF FreezeIInv, FreezeHalfDone, At
<1>3. FrozenWhole'
  BY DEF FreezeIInv, FrozenWhole, Inside
<1>4. QED
  BY <1>1, <1>2, <1>3 DEF FreezeIInv

LEMMA FreezeAddPoint ==
  ASSUME CoreIInv, FreezeIInv, NEW p \in Point, NEW v \in Value, AddPoint(p, v)
  PROVE  FreezeIInv'
<1> DEFINE r == [value |-> v, flags |-> Online]
<1>1. /\ store' = [store EXCEPT ![p] = r]
      /\ had' = [had EXCEPT ![p] = had[p] \cup {r}]
      /\ frozen' = IF p \in Counter THEN [frozen EXCEPT ![p] = Zero] ELSE frozen
      /\ lock = Free /\ UNCHANGED task
  BY AddPointEffect
<1>2. /\ store \in [Point -> Reading \cup {Absent}]
      /\ frozen \in [Counter -> Reading \cup {Absent}]
      /\ had \in [Point -> SUBSET Reading]
  BY DEF CoreIInv, DatabaseTypeOK
<1>3. \A t \in Thread : ~Inside(t) /\ ~Inside(t)'
  BY <1>1, NobodyInside DEF CoreIInv, Inside
<1>4. HadCurrent'
  BY <1>1, <1>2 DEF FreezeIInv, HadCurrent, At
<1>5. FreezeHalfDone'
  BY <1>3 DEF FreezeHalfDone, Inside, At
<1>6. FrozenWhole'
  BY <1>1, <1>2, <1>3 DEF FreezeIInv, FrozenWhole, Zero, Point
<1>7. QED
  BY <1>4, <1>5, <1>6 DEF FreezeIInv

LEMMA FreezeWriteValue ==
  ASSUME CoreIInv, FreezeIInv, NEW t \in Thread, WriteValue(t)
  PROVE  FreezeIInv'
<1> DEFINE p == task[t].point
           new == [value |-> task[t].reading.value, flags |-> store[p].flags]
<1>1. /\ Inside(t) /\ task[t].op = "update" /\ task[t].step = "value"
      /\ \A u \in Thread \ {t} : task'[u] = task[u]
      /\ task'[t].op = "update" /\ task'[t].step = "flags" /\ task'[t].point = p
      /\ store' = [store EXCEPT ![p] = new]
      /\ UNCHANGED <<frozen, had>>
  BY WriteValueEffect
<1>2. store \in [Point -> Reading \cup {Absent}]
  BY DEF CoreIInv, DatabaseTypeOK
<1>3. \A u \in Thread \ {t} : ~Inside(u)
  BY <1>1, Alone DEF CoreIInv
<1> HIDE DEF p, new
<1>4. HadCurrent'
  BY <1>1, <1>2 DEF FreezeIInv, HadCurrent, At
<1>5. FreezeHalfDone'
  BY <1>1, <1>3 DEF FreezeHalfDone, Inside, At
<1>6. FrozenWhole'
  BY <1>1, <1>3 DEF FreezeIInv, FrozenWhole, Inside
<1>7. QED
  BY <1>4, <1>5, <1>6 DEF FreezeIInv

LEMMA FreezeWriteFlags ==
  ASSUME CoreIInv, FreezeIInv, NEW t \in Thread, WriteFlags(t)
  PROVE  FreezeIInv'
<1> DEFINE p == task[t].point
           new == [value |-> store[p].value, flags |-> task[t].reading.flags]
<1>1. /\ Inside(t) /\ task[t].op = "update" /\ task[t].step = "flags"
      /\ \A u \in Thread \ {t} : task'[u] = task[u]
      /\ task'[t].op # "freeze"
      /\ store' = [store EXCEPT ![p] = new]
      /\ had' = [had EXCEPT ![p] = had[p] \cup {new}]
      /\ UNCHANGED frozen
  BY WriteFlagsEffect DEF Idle
<1>2. store \in [Point -> Reading \cup {Absent}] /\ had \in [Point -> SUBSET Reading]
  BY DEF CoreIInv, DatabaseTypeOK
<1>3. \A u \in Thread \ {t} : ~Inside(u)
  BY <1>1, Alone DEF CoreIInv
<1>4. \A q \in Point : had[q] \subseteq had'[q]
  BY <1>1, <1>2
<1> HIDE DEF new
<1>5. HadCurrent'
  <2>1. ASSUME NEW q \in Point, q # p
        PROVE  store'[q] = Absent \/ store'[q] \in had'[q]
    <3>1. \A u \in Thread : ~(At(u, "update", "flags") /\ task[u].point = q)
      BY <1>3, <2>1 DEF Inside, At
    <3>2. QED
      BY <1>1, <1>2, <1>4, <2>1, <3>1 DEF FreezeIInv, HadCurrent
  <2>2. p \in Point => store'[p] \in had'[p]
    BY <1>1, <1>2
  <2>3. QED
    BY <2>1, <2>2 DEF HadCurrent
<1> HIDE DEF p
<1>6. FreezeHalfDone'
  BY <1>1, <1>3 DEF FreezeHalfDone, Inside, At
<1>7. FrozenWhole'
  BY <1>1, <1>3, <1>4 DEF FreezeIInv, FrozenWhole, Inside, Point
<1>8. QED
  BY <1>5, <1>6, <1>7 DEF FreezeIInv

LEMMA FreezeFreezeValue ==
  ASSUME CoreIInv, FreezeIInv, NEW t \in Thread, FreezeValue(t)
  PROVE  FreezeIInv'
<1> DEFINE c == task[t].point
           new == [value |-> store[c].value, flags |-> frozen[c].flags]
<1>1. /\ Inside(t) /\ task[t].op = "freeze"
      /\ \A u \in Thread \ {t} : task'[u] = task[u]
      /\ task'[t].op = "freeze" /\ task'[t].step = "flags" /\ task'[t].point = c
      /\ frozen' = [frozen EXCEPT ![c] = new]
      /\ UNCHANGED <<store, had>>
  BY FreezeValueEffect
<1>2. c \in Counter /\ frozen \in [Counter -> Reading \cup {Absent}]
  BY <1>1, FreezeAt DEF CoreIInv, DatabaseTypeOK
<1>3. \A u \in Thread \ {t} : ~Inside(u)
  BY <1>1, Alone DEF CoreIInv
<1>4. frozen'[c].value = store[c].value
  BY <1>1, <1>2
<1> HIDE DEF c, new
<1>5. HadCurrent'
  BY <1>1 DEF FreezeIInv, HadCurrent, At
<1>6. FreezeHalfDone'
  BY <1>1, <1>3, <1>4 DEF FreezeHalfDone, Inside, At
<1>7. FrozenWhole'
  <2>1. Inside(t)' /\ task'[t].op = "freeze" /\ task'[t].point = c
    BY <1>1 DEF Inside
  <2>2. \A d \in Counter \ {c} : frozen'[d] = frozen[d]
    BY <1>1, <1>2
  <2>3. QED
    BY <1>1, <1>3, <2>1, <2>2 DEF FreezeIInv, FrozenWhole, c
<1>8. QED
  BY <1>5, <1>6, <1>7 DEF FreezeIInv

\* The second assignment completes a copy of the counter: nobody updated it
\* since the first, and it is a reading of its history.
LEMMA FreezeFreezeFlags ==
  ASSUME CoreIInv, FreezeIInv, NEW t \in Thread, FreezeFlags(t)
  PROVE  FreezeIInv'
<1> DEFINE c == task[t].point
           new == [value |-> frozen[c].value, flags |-> store[c].flags]
<1>1. /\ Inside(t) /\ task[t].op = "freeze" /\ task[t].step = "flags"
      /\ \A u \in Thread \ {t} : task'[u] = task[u]
      /\ task'[t] = Idle
      /\ frozen' = [frozen EXCEPT ![c] = new]
      /\ UNCHANGED <<store, had>>
  BY FreezeFlagsEffect
<1>2. /\ c \in Counter /\ c \in Point
      /\ store[c] \in Reading
      /\ frozen \in [Counter -> Reading \cup {Absent}]
      /\ Absent \notin Reading
  BY <1>1, FreezeAt, AbsentAssumption DEF CoreIInv, DatabaseTypeOK, Point
<1>3. \A u \in Thread \ {t} : ~Inside(u)
  BY <1>1, Alone DEF CoreIInv
<1>4. frozen[c].value = store[c].value
  BY <1>1 DEF FreezeIInv, FreezeHalfDone, At
<1>5. new = store[c]
  BY <1>2, <1>4 DEF Reading
<1>6. store[c] \in had[c]
  <2>1. ~\E u \in Thread : At(u, "update", "flags") /\ task[u].point = c
    BY <1>1, <1>3 DEF Inside, At
  <2>2. QED
    BY <1>2, <2>1 DEF FreezeIInv, HadCurrent
<1> HIDE DEF c, new
<1>7. HadCurrent'
  BY <1>1 DEF FreezeIInv, HadCurrent, At
<1>8. FreezeHalfDone'
  BY <1>1, <1>3 DEF FreezeHalfDone, Inside, At, Idle
<1>9. FrozenWhole'
  <2>1. frozen'[c] \in had'[c]
    BY <1>1, <1>2, <1>5, <1>6
  <2>2. \A d \in Counter \ {c} : frozen'[d] = frozen[d]
    BY <1>1, <1>2
  <2>3. QED
    BY <1>1, <1>3, <2>1, <2>2 DEF FreezeIInv, FrozenWhole, Inside, c
<1>10. QED
  BY <1>7, <1>8, <1>9 DEF FreezeIInv

LEMMA FreezeThreadStep ==
  ASSUME CoreIInv, FreezeIInv, NEW t \in Thread, ThreadStep(t)
  PROVE  FreezeIInv'
<1>1. CASE EnterUpdate(t)
  <2>1. /\ \A u \in Thread \ {t} : task'[u] = task[u]
        /\ ~At(t, "freeze", "flags")'
        /\ UNCHANGED <<store, frozen, had>>
    BY <1>1, EnterUpdateEffect DEF Inside, At
  <2>2. ~Inside(t)
    BY <1>1 DEF EnterUpdate, At, Inside
  <2>3. QED
    BY <2>1, <2>2, FreezeKept DEF Inside, At
<1>2. CASE Notify(t) \/ NotifyFull(t) \/ NotifyAppend(t)
  <2>1. /\ task[t].op = "update" /\ task[t].step # "flags"
        /\ \A u \in Thread \ {t} : task'[u] = task[u]
        /\ task'[t].op # "freeze"
        /\ UNCHANGED <<store, frozen, had>>
    <3>1. CASE Notify(t)
      BY <3>1, NotifyEffect DEF Idle
    <3>2. CASE NotifyFull(t)
      BY <3>2, NotifyFullEffect
    <3>3. CASE NotifyAppend(t)
      <4>1. task'[t] = Idle /\ task[t].op = "update" /\ task[t].step = "append"
        BY <3>3, NotifyAppendEffect
      <4>2. /\ \A u \in Thread \ {t} : task'[u] = task[u]
            /\ UNCHANGED <<store, frozen, had>>
        BY <3>3, NotifyAppendEffect
      <4>3. QED
        BY <4>1, <4>2 DEF Idle
    <3>4. QED
      BY <1>2, <3>1, <3>2, <3>3
  <2>2. QED
    BY <2>1, FreezeKept DEF Inside, At
<1>3. CASE EnterFreeze(t)
  <2>1. /\ \A u \in Thread \ {t} : task'[u] = task[u]
        /\ ~At(t, "freeze", "flags")'
        /\ UNCHANGED <<store, frozen, had>>
    BY <1>3, EnterFreezeEffect DEF Inside, At
  <2>2. ~Inside(t)
    BY <1>3 DEF EnterFreeze, At, Inside
  <2>3. QED
    BY <2>1, <2>2, FreezeKept DEF Inside, At
<1>4. QED
  BY <1>1, <1>2, <1>3, FreezeWriteValue, FreezeWriteFlags, FreezeFreezeValue,
     FreezeFreezeFlags DEF ThreadStep

LEMMA FreezeCall ==
  ASSUME CoreIInv, FreezeIInv, NEW t \in Thread,
         (\E p \in Point, r \in Reading : CallUpdate(t, p, r))
           \/ (\E c \in Counter : CallFreeze(t, c))
  PROVE  FreezeIInv'
<1>1. /\ ~Inside(t) /\ ~Inside(t)'
      /\ \A u \in Thread \ {t} : task'[u] = task[u]
      /\ UNCHANGED <<store, frozen, had>>
  BY CallBegins
<1>2. QED
  BY <1>1, FreezeKept DEF Inside, At

LEMMA FreezeInit == DatabaseInit => FreezeIInv
<1> SUFFICES ASSUME DatabaseInit PROVE FreezeIInv
  OBVIOUS
<1>1. HadCurrent /\ FrozenWhole
  BY DEF DatabaseInit, HadCurrent, FrozenWhole
<1>2. FreezeHalfDone
  BY DEF DatabaseInit, FreezeHalfDone, At, Idle
<1>3. QED
  BY <1>1, <1>2 DEF FreezeIInv

-----------------------------------------------------------------------------
(* Events *)

\* What was reported of a point hangs on when it was added and on the log of
\* its class.
LEMMA ReportsKept ==
  ASSUME NEW p, added'[p] = added[p], log'[EventClass[p]] = log[EventClass[p]]
  PROVE  /\ EventPlaces(p)' = EventPlaces(p)
         /\ \A r : Reported(p, r)' <=> Reported(p, r)
<1>1. EventPlaces(p)' = EventPlaces(p)
  BY DEF EventPlaces
<1>2. QED
  BY <1>1 DEF Reported

\* Nobody updates an input when a thread that does not is inside, or none is.
LEMMA NotBusy ==
  ASSUME \A u \in Thread : ~(Inside(u) /\ task[u].op = "update")
  PROVE  \A p : ~Busy(p)
  BY DEF Busy

\* Steps that are no part of an update leave the reports as they are.
LEMMA EventsKept ==
  ASSUME EventsIInv, NEW t \in Thread,
         \A u \in Thread \ {t} : task'[u] = task[u],
         ~(Inside(t) /\ task[t].op = "update"),
         ~(Inside(t) /\ task[t].op = "update")',
         UNCHANGED <<store, added, log>>
  PROVE  EventsIInv'
<1>1. \A p : /\ EventPlaces(p)' = EventPlaces(p)
             /\ \A r : Reported(p, r)' <=> Reported(p, r)
  BY ReportsKept
<1>2. \A p : Busy(p)' <=> Busy(p)
  BY DEF Busy, Inside
<1>3. AddedBefore'
  BY DEF EventsIInv, AddedBefore
<1>4. LastEventCurrent'
  BY <1>1, <1>2 DEF EventsIInv, LastEventCurrent
<1>5. UpdatesReported'
  <2>1. ASSUME NEW u \in Thread, Inside(u)', task'[u].op = "update"
        PROVE  u # t /\ task'[u] = task[u] /\ Inside(u) /\ task[u].op = "update"
    BY <2>1 DEF Inside
  <2>2. QED
    BY <1>1, <2>1 DEF EventsIInv, UpdatesReported
<1>6. NoRedundantEvents'
  BY <1>1 DEF EventsIInv, NoRedundantEvents, Differ
<1>7. QED
  BY <1>3, <1>4, <1>5, <1>6 DEF EventsIInv

LEMMA EventsInit == DatabaseInit => EventsIInv
<1> SUFFICES ASSUME DatabaseInit PROVE EventsIInv
  OBVIOUS
<1>1. \A p \in Input : store[p] = Absent /\ added[p] = Absent /\ EventPlaces(p) = {}
  BY DEF DatabaseInit, Point, EventPlaces
<1>2. AddedBefore /\ LastEventCurrent /\ NoRedundantEvents
  BY <1>1 DEF AddedBefore, LastEventCurrent, NoRedundantEvents
<1>3. UpdatesReported
  BY DEF DatabaseInit, UpdatesReported, Inside, Idle
<1>4. QED
  BY <1>2, <1>3 DEF EventsIInv

\* A point that is added has no event since, and holds what it was added with.
LEMMA EventsAddPoint ==
  ASSUME CoreIInv, EventsIInv, NEW p \in Point, NEW v \in Value, AddPoint(p, v)
  PROVE  EventsIInv'
<1> DEFINE r == [value |-> v, flags |-> Online]
           a == [reading |-> r, logged |-> EventCount(p)]
<1>1. /\ lock = Free /\ UNCHANGED <<task, log>>
      /\ store' = [store EXCEPT ![p] = r]
      /\ added' = [added EXCEPT ![p] = a]
      /\ EventCount(p) \in Nat
  BY AddPointEffect DEF bufferVars
<1>2. \A t \in Thread : ~Inside(t) /\ ~Inside(t)'
  BY <1>1, NobodyInside DEF CoreIInv, Inside
<1>3. /\ added \in [Point -> [reading : Reading, logged : Nat] \cup {Absent}]
      /\ store \in [Point -> Reading \cup {Absent}]
  BY DEF CoreIInv, DatabaseTypeOK
<1>4. /\ a.reading = r /\ a.logged = EventCount(p)
      /\ added'[p] = a /\ store'[p] = r
      /\ \A q \in Point \ {p} : added'[q] = added[q] /\ store'[q] = store[q]
  BY <1>1, <1>3
<1> HIDE DEF r, a
<1>5. \A q \in Point \ {p} : /\ EventPlaces(q)' = EventPlaces(q)
                             /\ \A x : Reported(q, x)' <=> Reported(q, x)
  BY <1>1, <1>4, ReportsKept
<1>6. p \in Input /\ EventClass[p] \in Class => a.logged = Len(log'[EventClass[p]])
  BY <1>1, <1>4 DEF EventCount
<1>7. p \in Input /\ EventClass[p] \in Class => EventPlaces(p)' = {}
  BY <1>1, <1>4, <1>6 DEF EventPlaces
<1>8. p \in Input /\ EventClass[p] \in Class => Reported(p, r)'
  BY <1>4, <1>7 DEF Reported
<1>9. AddedBefore'
  <2>1. ASSUME NEW q \in Input, EventClass[q] \in Class, added'[q] # Absent
        PROVE  added'[q].logged <= Len(log'[EventClass[q]])
    <3>1. q \in Point
      BY DEF Point
    <3>2. CASE q = p
      BY <1>1, <1>4, <1>6, <2>1, <3>2
    <3>3. CASE q # p
      BY <1>1, <1>4, <2>1, <3>1, <3>3 DEF EventsIInv, AddedBefore
    <3>4. QED
      BY <3>2, <3>3
  <2>2. QED
    BY <2>1 DEF AddedBefore
<1>10. LastEventCurrent'
  <2>1. ASSUME NEW q \in Input, EventClass[q] \in Class, store'[q] # Absent
        PROVE  Reported(q, store[q])'
    <3>1. q \in Point /\ ~Busy(q)
      BY <1>2, NotBusy DEF Point
    <3>2. CASE q = p
      BY <1>4, <1>8, <2>1, <3>2
    <3>3. CASE q # p
      BY <1>4, <1>5, <2>1, <3>1, <3>3 DEF EventsIInv, LastEventCurrent
    <3>4. QED
      BY <3>2, <3>3
  <2>2. QED
    BY <2>1 DEF LastEventCurrent
<1>11. UpdatesReported'
  BY <1>2 DEF UpdatesReported
<1>12. NoRedundantEvents'
  <2>1. \A q \in Input : EventClass[q] \in Class =>
          EventPlaces(q)' = EventPlaces(q) \/ EventPlaces(q)' = {}
    BY <1>5, <1>7 DEF Point
  <2>2. QED
    BY <1>1, <2>1 DEF EventsIInv, NoRedundantEvents, Differ
<1>13. QED
  BY <1>9, <1>10, <1>11, <1>12 DEF EventsIInv

\* While updates go in or write, the reports stay as they were.
LEMMA EventsWhileUpdating ==
  ASSUME EventsIInv, NEW t \in Thread,
         \A u \in Thread : Inside(u)' => u = t,
         \A u \in Thread \ {t} : ~Inside(u),
         Inside(t)', task'[t].op = "update",
         \A q \in Input \ {task'[t].point} : store'[q] = store[q],
         Inside(t) => task[t].point = task'[t].point,
         UNCHANGED <<added, log>>,
         UpdatesReported'
  PROVE  EventsIInv'
<1>1. \A p : /\ EventPlaces(p)' = EventPlaces(p)
             /\ \A r : Reported(p, r)' <=> Reported(p, r)
  BY ReportsKept
<1>2. AddedBefore'
  BY DEF EventsIInv, AddedBefore
<1>3. LastEventCurrent'
  <2>1. ASSUME NEW q \in Input, EventClass[q] \in Class, store'[q] # Absent, ~Busy(q)'
        PROVE  Reported(q, store[q])'
    <3>1. q # task'[t].point
      BY <2>1 DEF Busy
    <3>2. ~Busy(q) /\ store'[q] = store[q]
      BY <3>1 DEF Busy
    <3>3. QED
      BY <1>1, <2>1, <3>2 DEF EventsIInv, LastEventCurrent
  <2>2. QED
    BY <2>1 DEF LastEventCurrent
<1>4. NoRedundantEvents'
  BY <1>1 DEF EventsIInv, NoRedundantEvents, Differ
<1>5. QED
  BY <1>2, <1>3, <1>4 DEF EventsIInv

\* An update goes in when its reading differs from what the point holds, which
\* is what was last reported of it.
LEMMA ChangesDiffer ==
  ASSUME NEW p \in Input, NEW r \in Reading, store[p] \in Reading, Changes(p, r)
  PROVE  Differ(p, store[p], r)
<1>1. /\ store[p].value \in Int /\ r.value \in Int
      /\ p \in BinaryInput <=> p \notin AnalogInput
      /\ p \in AnalogInput => Deadband[p] \in Nat
  BY DeadbandAssumption, InputAssumption DEF Reading, Input
<1>2. QED
  BY <1>1 DEF Changes, Differ, Distance

LEMMA EventsEnterUpdate ==
  ASSUME CoreIInv, EventsIInv, NEW t \in Thread, EnterUpdate(t)
  PROVE  EventsIInv'
<1>0. PICK p, r : p = task[t].point /\ r = task[t].reading
  OBVIOUS
<1>1. /\ lock = Free
      /\ \A u \in Thread \ {t} : task'[u] = task[u]
      /\ UNCHANGED <<store, added, log>>
  BY EnterUpdateEffect DEF bufferVars
<1>2. \A u \in Thread : ~Inside(u)
  BY <1>1, NobodyInside DEF CoreIInv
<1>3. \A u \in Thread \ {t} : ~Inside(u)'
  BY <1>1, <1>2 DEF Inside
<1>4. CASE ~Inside(t)'
  BY <1>1, <1>2, <1>4, EventsKept
<1>5. CASE /\ task'[t].op = "update" /\ task'[t].step = "value"
           /\ task'[t].point = p /\ task'[t].reading = r
           /\ task[t] \in UpdateTask /\ store[p] # Absent /\ Changes(p, r)
  <2>1. Inside(t)'
    BY <1>5 DEF Inside
  <2>2. UpdatesReported'
    <3>1. ASSUME p \in Input, EventClass[p] \in Class
          PROVE  /\ store[p] \in Reading
                 /\ Reported(p, store[p])'
                 /\ Differ(p, store[p], r)
      <4>1. store[p] \in Reading /\ r \in Reading
        BY <1>0, <1>5, <3>1 DEF CoreIInv, DatabaseTypeOK, Point, UpdateTask
      <4>2. Reported(p, store[p])
        BY <1>2, <1>5, <3>1, NotBusy DEF EventsIInv, LastEventCurrent
      <4>3. Reported(p, store[p])'
        BY <1>1, <4>2 DEF Reported, EventPlaces
      <4>4. QED
        BY <1>5, <3>1, <4>1, <4>3, ChangesDiffer
    <3>2. p \in Input /\ EventClass[p] \in Class =>
            \E old \in Reading :
              /\ Reported(p, old)'
              /\ Differ(p, old, r)
              /\ store'[p] = old
      BY <1>1, <3>1
    <3>3. QED
      BY <1>3, <1>5, <3>2 DEF UpdatesReported, Differ, NotifySteps
  <2>3. QED
    BY <1>1, <1>2, <1>3, <1>5, <2>1, <2>2, EventsWhileUpdating
<1>6. QED
  BY <1>0, <1>4, <1>5, EnterUpdateEffect

\* What an update of an input overwrites.
LEMMA UpdateInput ==
  ASSUME EventsIInv, NEW t \in Thread, Inside(t), task[t].op = "update",
         task[t].point \in Input, EventClass[task[t].point] \in Class
  PROVE  LET p == task[t].point
             r == task[t].reading
         IN \E old \in Reading :
              /\ Reported(p, old) /\ Differ(p, old, r)
              /\ task[t].step = "value" => store[p] = old
              /\ task[t].step = "flags" => store[p] = [old EXCEPT !.value = r.value]
              /\ task[t].step \in NotifySteps => store[p] = r
  BY DEF EventsIInv, UpdatesReported, NotifySteps

LEMMA EventsWriteValue ==
  ASSUME CoreIInv, EventsIInv, NEW t \in Thread, WriteValue(t)
  PROVE  EventsIInv'
<1>0. PICK p, r : p = task[t].point /\ r = task[t].reading
  OBVIOUS
<1> DEFINE new == [value |-> r.value, flags |-> store[p].flags]
<1>1. /\ Inside(t) /\ task[t].op = "update" /\ task[t].step = "value"
      /\ task[t] \in UpdateTask
      /\ \A u \in Thread \ {t} : task'[u] = task[u]
      /\ task'[t].op = "update" /\ task'[t].step = "flags"
      /\ task'[t].point = p /\ task'[t].reading = r
      /\ store' = [store EXCEPT ![p] = new]
      /\ UNCHANGED <<added, log>>
  BY <1>0, WriteValueEffect DEF bufferVars
<1>2. /\ \A u \in Thread \ {t} : ~Inside(u) /\ ~Inside(u)'
      /\ Inside(t)'
  BY <1>1, Alone DEF CoreIInv, Inside
<1>3. /\ p \in Point /\ store'[p] = new
      /\ \A q \in Input \ {p} : store'[q] = store[q]
  BY <1>0, <1>1 DEF CoreIInv, DatabaseTypeOK, UpdateTask, Point
<1>4. p \in Input /\ EventClass[p] \in Class =>
        \E old \in Reading :
          /\ Reported(p, old)'
          /\ Differ(p, old, r)
          /\ store'[p] = [old EXCEPT !.value = r.value]
  <2>1. SUFFICES ASSUME p \in Input, EventClass[p] \in Class
                 PROVE  \E old \in Reading :
                          /\ Reported(p, old)'
                          /\ Differ(p, old, r)
                          /\ store'[p] = [old EXCEPT !.value = r.value]
    OBVIOUS
  <2>2. PICK old \in Reading : Reported(p, old) /\ Differ(p, old, r) /\ store[p] = old
    BY <1>0, <1>1, <2>1, UpdateInput
  <2>3. Reported(p, old)'
    BY <1>1, <2>2 DEF Reported, EventPlaces
  <2>4. new = [old EXCEPT !.value = r.value]
    BY <2>2 DEF Reading
  <2>5. QED
    BY <1>3, <2>2, <2>3, <2>4
<1>5. UpdatesReported'
  BY <1>1, <1>2, <1>4 DEF UpdatesReported, Differ, NotifySteps
<1>6. QED
  BY <1>0, <1>1, <1>2, <1>3, <1>5, EventsWhileUpdating

\* Both assignments done, the point holds the update's reading.
LEMMA EventsWriteFlags ==
  ASSUME CoreIInv, EventsIInv, NEW t \in Thread, WriteFlags(t)
  PROVE  EventsIInv'
<1>0. PICK p, r : p = task[t].point /\ r = task[t].reading
  OBVIOUS
<1> DEFINE new == [value |-> store[p].value, flags |-> r.flags]
<1>1. /\ Inside(t) /\ task[t].op = "update" /\ task[t].step = "flags"
      /\ task[t] \in UpdateTask
      /\ \A u \in Thread \ {t} : task'[u] = task[u]
      /\ store' = [store EXCEPT ![p] = new]
      /\ UNCHANGED <<added, log>>
  BY <1>0, WriteFlagsEffect DEF bufferVars
<1>2. \A u \in Thread \ {t} : ~Inside(u) /\ ~Inside(u)'
  BY <1>1, Alone DEF CoreIInv, Inside
<1>3. /\ p \in Point /\ store'[p] = new
      /\ \A q \in Input \ {p} : store'[q] = store[q]
  BY <1>0, <1>1 DEF CoreIInv, DatabaseTypeOK, UpdateTask, Point
<1>4. CASE /\ p \in Input
           /\ task'[t].op = "update" /\ task'[t].step = "notify"
           /\ task'[t].point = p /\ task'[t].reading = r
  <2>1. EventClass[p] \in Class =>
          \E old \in Reading :
            /\ Reported(p, old)'
            /\ Differ(p, old, r)
            /\ store'[p] = r
    <3>1. SUFFICES ASSUME EventClass[p] \in Class
                   PROVE  \E old \in Reading :
                            /\ Reported(p, old)'
                            /\ Differ(p, old, r)
                            /\ store'[p] = r
      OBVIOUS
    <3>2. PICK old \in Reading : /\ Reported(p, old) /\ Differ(p, old, r)
                                 /\ store[p] = [old EXCEPT !.value = r.value]
      BY <1>0, <1>1, <1>4, <3>1, UpdateInput
    <3>3. Reported(p, old)'
      BY <1>1, <3>2 DEF Reported, EventPlaces
    <3>4. new = r
      BY <1>0, <1>1, <3>2 DEF Reading, UpdateTask
    <3>5. QED
      BY <1>3, <3>2, <3>3, <3>4
  <2>2. Inside(t)'
    BY <1>4 DEF Inside
  <2>3. UpdatesReported'
    BY <1>2, <1>4, <2>1 DEF UpdatesReported, Differ, NotifySteps
  <2>4. QED
    BY <1>0, <1>1, <1>2, <1>3, <1>4, <2>2, <2>3, EventsWhileUpdating
<1>5. CASE p \notin Input /\ ~Inside(t)'
  <2>1. \A q : /\ EventPlaces(q)' = EventPlaces(q)
               /\ \A x : Reported(q, x)' <=> Reported(q, x)
    BY <1>1, ReportsKept
  <2>2. \A q \in Input : ~Busy(q) /\ store'[q] = store[q]
    BY <1>0, <1>1, <1>2, <1>3, <1>5 DEF Busy
  <2>3. AddedBefore' /\ UpdatesReported'
    BY <1>1, <1>2, <1>5 DEF EventsIInv, AddedBefore, UpdatesReported
  <2>4. LastEventCurrent' /\ NoRedundantEvents'
    BY <1>1, <2>1, <2>2 DEF EventsIInv, LastEventCurrent, NoRedundantEvents, Differ
  <2>5. QED
    BY <2>3, <2>4 DEF EventsIInv
<1>6. QED
  BY <1>0, <1>4, <1>5, WriteFlagsEffect

\* Looking at the queue and raising the flag are between the update and its
\* event; an input of another class has none.
LEMMA EventsNotify ==
  ASSUME CoreIInv, EventsIInv, NEW t \in Thread, Notify(t) \/ NotifyFull(t)
  PROVE  EventsIInv'
<1>0. PICK p, r : p = task[t].point /\ r = task[t].reading
  OBVIOUS
<1>1. /\ Inside(t) /\ task[t].op = "update" /\ task[t].step \in NotifySteps
      /\ \A u \in Thread \ {t} : task'[u] = task[u]
      /\ UNCHANGED <<store, added, log>>
  BY NotifyEffect, NotifyFullEffect DEF NotifySteps
<1>2. \A u \in Thread \ {t} : ~Inside(u) /\ ~Inside(u)'
  BY <1>1, Alone DEF CoreIInv, Inside
<1>3. \A q : /\ EventPlaces(q)' = EventPlaces(q)
             /\ \A x : Reported(q, x)' <=> Reported(q, x)
  BY <1>1, ReportsKept
<1>4. CASE EventClass[p] \notin Class /\ ~Inside(t)'
  <2>1. UpdatesReported'
    BY <1>2, <1>4 DEF UpdatesReported
  <2>2. \A q \in Input \ {p} : ~Busy(q)
    BY <1>0, <1>1, <1>2 DEF Busy
  <2>3. AddedBefore' /\ NoRedundantEvents'
    BY <1>1, <1>3 DEF EventsIInv, AddedBefore, NoRedundantEvents, Differ
  <2>4. LastEventCurrent'
    BY <1>1, <1>3, <1>4, <2>2 DEF EventsIInv, LastEventCurrent
  <2>5. QED
    BY <2>1, <2>3, <2>4 DEF EventsIInv
<1>5. CASE /\ task'[t].op = "update" /\ task'[t].step \in NotifySteps
           /\ task'[t].point = p /\ task'[t].reading = r
  <2>1. Inside(t)'
    BY <1>5 DEF Inside, NotifySteps
  <2>2. p \in Input /\ EventClass[p] \in Class =>
          \E old \in Reading :
            /\ Reported(p, old)'
            /\ Differ(p, old, r)
            /\ store'[p] = r
    BY <1>0, <1>1, <1>3, UpdateInput
  <2>3. UpdatesReported'
    BY <1>2, <1>5, <2>2 DEF UpdatesReported, Differ, NotifySteps
  <2>4. QED
    BY <1>0, <1>1, <1>2, <1>5, <2>1, <2>3, EventsWhileUpdating
<1>6. QED
  BY <1>0, <1>4, <1>5, NotifyEffect, NotifyFullEffect DEF NotifySteps

\* The event of an update becomes the newest of its point, and differs from the
\* one before it; those of other points stay where they are.
LEMMA EventsAppend ==
  ASSUME CoreIInv, EventsIInv, NEW t \in Thread, NotifyAppend(t)
  PROVE  EventsIInv'
<1>0. PICK p, r : p = task[t].point /\ r = task[t].reading
  OBVIOUS
<1> DEFINE c == EventClass[p]
           e == [point |-> p, value |-> r.value, flags |-> r.flags]
<1>1. /\ Inside(t) /\ task[t].op = "update" /\ task[t].step = "append"
      /\ task[t] \in UpdateTask /\ p \in Point /\ r \in Reading
      /\ \A u \in Thread \ {t} : task'[u] = task[u]
      /\ ~Inside(t)'
      /\ AppendEvent(c, e) /\ e \in Event
      /\ UNCHANGED <<store, added>>
  BY <1>0, NotifyAppendEffect DEF UpdateTask
<1>2. p \in Input /\ c \in Class
  BY <1>0, NotifyAppendEffect
<1>3. \A u \in Thread : ~Inside(u)'
  BY <1>1, Alone DEF CoreIInv, Inside
<1>4. UpdatesReported'
  BY <1>3 DEF UpdatesReported
<1>5. \A q \in Input \ {p} : ~Busy(q)
  BY <1>0, <1>1, Alone DEF CoreIInv, Busy
<1>6. QED
  <2> DEFINE n == Len(log[c])
  <2>1. /\ log \in [Class -> Seq(Event)] /\ log[c] \in Seq(Event) /\ n \in Nat
        /\ e \in Event
    BY <1>1, <1>2, LenProperties
       DEF CoreIInv, DatabaseTypeOK, BufferTypeOK, Reading
  <2>2. log' = [log EXCEPT ![c] = Append(log[c], e)]
    BY <1>1, <1>2 DEF AppendEvent
  <2>3. /\ log'[c] = Append(log[c], e)
        /\ \A d \in Class \ {c} : log'[d] = log[d]
    BY <1>2, <2>1, <2>2
  <2>4. /\ Len(log'[c]) = n + 1 /\ log'[c][n + 1] = e
        /\ \A i \in 1 .. n : log'[c][i] = log[c][i]
    BY <2>1, <2>3, AppendProperties
  <2>5. added \in [Point -> [reading : Reading, logged : Nat] \cup {Absent}]
    BY DEF CoreIInv, DatabaseTypeOK
  <2> HIDE DEF c, n, e
  <2>6. ASSUME NEW q \in Input, EventClass[q] \in Class, added[q] # Absent
        PROVE  /\ added[q].logged \in Nat
               /\ added[q].logged <= Len(log[EventClass[q]])
    BY <2>5, <2>6 DEF EventsIInv, AddedBefore, Point
  \* The places of the other points do not move.
  <2>7. ASSUME NEW q \in Input, q # p, EventClass[q] \in Class
        PROVE  /\ EventPlaces(q)' = EventPlaces(q)
               /\ \A x : Reported(q, x)' <=> Reported(q, x)
               /\ \A i \in EventPlaces(q) : log'[EventClass[q]][i] = log[EventClass[q]][i]
    <3>1. CASE EventClass[q] # c
      BY <1>1, <2>3, <2>7, <3>1, ReportsKept
    <3>2. CASE EventClass[q] = c
      <4>1. e.point = p
        BY DEF e
      <4>2. EventPlaces(q)' = EventPlaces(q)
        <5>1. CASE added[q] = Absent
          BY <1>1, <5>1 DEF EventPlaces
        <5>2. CASE added[q] # Absent
          <6>1. added[q].logged \in Nat /\ added[q].logged <= n
            BY <2>6, <2>7, <3>2, <5>2 DEF n
          <6>2. EventPlaces(q) = {i \in added[q].logged + 1 .. n : log[c][i].point = q}
            BY <3>2, <5>2 DEF EventPlaces, n
          <6>3. EventPlaces(q)'
                  = {i \in added[q].logged + 1 .. n + 1 : log'[c][i].point = q}
            BY <1>1, <2>4, <3>2, <5>2 DEF EventPlaces
          <6>4. ASSUME NEW i \in added[q].logged + 1 .. n + 1, i # n + 1
                PROVE  i \in added[q].logged + 1 .. n /\ log'[c][i] = log[c][i]
            BY <2>1, <2>4, <6>1, <6>4
          <6>5. log'[c][n + 1].point # q
            BY <2>4, <2>7, <4>1
          <6>6. added[q].logged + 1 .. n \subseteq added[q].logged + 1 .. n + 1
                  /\ \A i \in added[q].logged + 1 .. n : i # n + 1
            BY <2>1, <6>1
          <6>7. QED
            BY <6>2, <6>3, <6>4, <6>5, <6>6
        <5>3. QED
          BY <5>1, <5>2
      <4>3. \A i \in EventPlaces(q) : i \in 1 .. n
        BY <2>1, <2>6, <2>7, <3>2 DEF EventPlaces, n
      <4>4. \A i \in EventPlaces(q) : log'[c][i] = log[c][i]
        BY <2>4, <4>3
      <4>5. QED
        BY <1>1, <3>2, <4>2, <4>4 DEF Reported
    <3>3. QED
      BY <3>1, <3>2
  \* Those of the point gain one, behind the others.
  <2>8. added[p] # Absent
    <3>1. store[p] # Absent
      BY <1>0, <1>1 DEF CoreIInv, PointsThere
    <3>2. QED
      BY <1>1, <3>1 DEF CoreIInv, PointsThere
  <2>9. /\ EventPlaces(p)' = EventPlaces(p) \cup {n + 1}
        /\ \A i \in EventPlaces(p) : i \in 1 .. n
    <3>1. added[p].logged \in Nat /\ added[p].logged <= n /\ e.point = p
      BY <1>2, <2>6, <2>8 DEF c, e, n
    <3>2. EventPlaces(p) = {i \in added[p].logged + 1 .. n : log[c][i].point = p}
      BY <2>8 DEF EventPlaces, c, n
    <3>3. EventPlaces(p)'
            = {i \in added[p].logged + 1 .. n + 1 : log'[c][i].point = p}
      BY <1>1, <2>4, <2>8 DEF EventPlaces, c
    <3>4. ASSUME NEW i \in added[p].logged + 1 .. n
          PROVE  i \in 1 .. n /\ log'[c][i] = log[c][i]
      BY <2>1, <2>4, <3>1
    <3>5. added[p].logged + 1 .. n + 1 = (added[p].logged + 1 .. n) \cup {n + 1}
      BY <2>1, <3>1
    <3>6. QED
      BY <2>4, <3>1, <3>2, <3>3, <3>4, <3>5
  <2>10. PICK old \in Reading : /\ Reported(p, old) /\ Differ(p, old, r)
                                /\ store[p] = r
    BY <1>0, <1>1, <1>2, UpdateInput DEF c, NotifySteps
  <2>11. AddedBefore'
    <3>1. ASSUME NEW q \in Input, EventClass[q] \in Class, added[q] # Absent
          PROVE  added[q].logged <= Len(log'[EventClass[q]])
      <4>1. CASE EventClass[q] = c
        BY <2>1, <2>4, <2>6, <3>1, <4>1 DEF n
      <4>2. CASE EventClass[q] # c
        BY <2>3, <2>6, <3>1, <4>2
      <4>3. QED
        BY <4>1, <4>2
    <3>2. QED
      BY <1>1, <3>1 DEF AddedBefore
  <2>12. Reported(p, r)'
    <3>1. ASSUME NEW i \in EventPlaces(p)', \A j \in EventPlaces(p)' : j <= i
          PROVE  log'[c][i] = e
      BY <2>1, <2>4, <2>9, <3>1
    <3>2. QED
      BY <2>9, <3>1 DEF Reported, c, e
  <2>13. LastEventCurrent'
    <3>1. ASSUME NEW q \in Input, EventClass[q] \in Class, store[q] # Absent
          PROVE  Reported(q, store[q])'
      <4>1. CASE q = p
        BY <1>1, <2>10, <2>12, <4>1
      <4>2. CASE q # p
        BY <1>1, <1>5, <2>7, <3>1, <4>2 DEF EventsIInv, LastEventCurrent
      <4>3. QED
        BY <4>1, <4>2
    <3>2. QED
      BY <1>1, <3>1 DEF LastEventCurrent
  <2>14. ASSUME NEW i \in EventPlaces(p)', NEW j \in EventPlaces(p)', i < j,
                \A k \in EventPlaces(p)' : k <= i \/ j <= k
         PROVE  Differ(p, log'[c][i], log'[c][j])
    <3>1. i \in EventPlaces(p) /\ i \in 1 .. n
      BY <2>1, <2>9, <2>14
    <3>2. CASE j = n + 1
      <4>1. \A k \in EventPlaces(p) : k <= i
        BY <2>1, <2>9, <2>14, <3>2
      <4>2. log[c][i] = [point |-> p, value |-> old.value, flags |-> old.flags]
        BY <2>10, <3>1, <4>1 DEF Reported, c
      <4>3. /\ log'[c][i].flags = old.flags /\ log'[c][i].value = old.value
            /\ log'[c][j].flags = r.flags /\ log'[c][j].value = r.value
        BY <2>4, <3>1, <3>2, <4>2 DEF e
      <4>4. QED
        BY <2>10, <4>3 DEF Differ
    <3>3. CASE j # n + 1
      <4>1. j \in EventPlaces(p) /\ j \in 1 .. n
        BY <2>9, <3>3
      <4>2. Differ(p, log[c][i], log[c][j])
        BY <1>2, <2>9, <2>14, <3>1, <4>1 DEF EventsIInv, NoRedundantEvents, c
      <4>3. QED
        BY <2>4, <3>1, <4>1, <4>2
    <3>4. QED
      BY <3>2, <3>3
  <2>15. NoRedundantEvents'
    <3>1. ASSUME NEW q \in Input, EventClass[q] \in Class, q # p,
                 NEW i \in EventPlaces(q), NEW j \in EventPlaces(q), i < j,
                 \A k \in EventPlaces(q) : k <= i \/ j <= k
          PROVE  Differ(q, log'[EventClass[q]][i], log'[EventClass[q]][j])
      <4>1. Differ(q, log[EventClass[q]][i], log[EventClass[q]][j])
        BY <3>1 DEF EventsIInv, NoRedundantEvents
      <4>2. QED
        BY <2>7, <3>1, <4>1
    <3>2. ASSUME NEW q \in Input, EventClass[q] \in Class,
                 NEW i \in EventPlaces(q)', NEW j \in EventPlaces(q)', i < j,
                 \A k \in EventPlaces(q)' : k <= i \/ j <= k
          PROVE  Differ(q, log'[EventClass[q]][i], log'[EventClass[q]][j])
      <4>1. CASE q = p
        BY <2>14, <3>2, <4>1 DEF c
      <4>2. CASE q # p
        BY <2>7, <3>1, <3>2, <4>2
      <4>3. QED
        BY <4>1, <4>2
    <3>3. QED
      BY <3>2 DEF NoRedundantEvents, Differ
  <2>16. QED
    BY <1>4, <2>11, <2>13, <2>15 DEF EventsIInv

LEMMA EventsThreadStep ==
  ASSUME CoreIInv, EventsIInv, NEW t \in Thread, ThreadStep(t)
  PROVE  EventsIInv'
<1>1. CASE EnterFreeze(t)
  <2>1. ~Inside(t) /\ ~(Inside(t) /\ task[t].op = "update")'
    BY <1>1, EnterFreezeEffect DEF EnterFreeze, At, Inside
  <2>2. QED
    BY <1>1, <2>1, EnterFreezeEffect, EventsKept DEF bufferVars
<1>2. CASE FreezeValue(t)
  BY <1>2, FreezeValueEffect, EventsKept DEF bufferVars
<1>3. CASE FreezeFlags(t)
  BY <1>3, FreezeFlagsEffect, EventsKept DEF bufferVars
<1>4. QED
  BY <1>1, <1>2, <1>3, EventsEnterUpdate, EventsWriteValue, EventsWriteFlags,
     EventsNotify, EventsAppend DEF ThreadStep

LEMMA EventsCall ==
  ASSUME CoreIInv, EventsIInv, NEW t \in Thread,
         (\E p \in Point, r \in Reading : CallUpdate(t, p, r))
           \/ (\E c \in Counter : CallFreeze(t, c))
  PROVE  EventsIInv'
  BY CallBegins, EventsKept DEF bufferVars

-----------------------------------------------------------------------------
(* The whole invariant *)

LEMMA DatabaseInitInv == DatabaseInit => DatabaseIInv
  BY CoreInit, FreezeInit, EventsInit DEF DatabaseIInv

\* A step that moves neither the points, the threads nor the log keeps the
\* invariant: confirming events does, and so does standing still.
LEMMA DatabaseStands ==
  ASSUME DatabaseIInv, BufferIInv', UNCHANGED <<databaseVars, log>>
  PROVE  DatabaseIInv'
<1>1. UNCHANGED <<store, frozen, lock, task, calls, had, order, former, added, log>>
  BY DEF databaseVars, addVars
<1>2. \A p : Busy(p)' <=> Busy(p)
  BY <1>1 DEF Busy, Inside
<1>3. CoreIInv'
  <2>1. DatabaseTypeOK'
    BY <1>1 DEF DatabaseIInv, CoreIInv, DatabaseTypeOK, BufferIInv
  <2>2. Exclusive' /\ PointsThere' /\ InputsNotify'
    BY <1>1 DEF DatabaseIInv, CoreIInv, Exclusive, PointsThere, InputsNotify, Inside, At
  <2>3. QED
    BY <2>1, <2>2 DEF CoreIInv
<1>4. FreezeIInv'
  BY <1>1 DEF DatabaseIInv, FreezeIInv, HadCurrent, FreezeHalfDone, FrozenWhole, Inside, At
<1>5. \A p : /\ EventPlaces(p)' = EventPlaces(p)
             /\ \A r : Reported(p, r)' <=> Reported(p, r)
  BY <1>1, ReportsKept
<1>6. AddedBefore' /\ LastEventCurrent' /\ NoRedundantEvents'
  BY <1>1, <1>2, <1>5
     DEF DatabaseIInv, EventsIInv, AddedBefore, LastEventCurrent, NoRedundantEvents, Differ
<1>7. UpdatesReported'
  BY <1>1, <1>5 DEF DatabaseIInv, EventsIInv, UpdatesReported, Inside, Differ
<1>8. QED
  BY <1>3, <1>4, <1>6, <1>7 DEF DatabaseIInv, EventsIInv

LEMMA DatabaseConfirm ==
  ASSUME DatabaseIInv, ConfirmStep \/ Confirm
  PROVE  DatabaseIInv'
<1>1. UNCHANGED databaseVars
  BY DEF ConfirmStep, Confirm
<1>2. BufferIInv' /\ log' = log
  <2>1. BufferIInv /\ Adding \in BOOLEAN
    BY DEF DatabaseIInv, CoreIInv, Adding
  <2>2. \/ BeginConfirmAll(Adding) \/ ClearQueue \/ LowerOverflow
        \/ \E c \in Class : ConfirmClass(c, Adding)
    BY DEF ConfirmStep, Confirm
  <2>3. QED
    BY <2>1, <2>2, ConfirmPreserves
<1>3. QED
  BY <1>1, <1>2, DatabaseStands

LEMMA DatabasePreserves ==
  ASSUME DatabaseIInv, DatabaseNext
  PROVE  DatabaseIInv'
<1>1. CASE \E p \in Point, v \in Value : AddPoint(p, v)
  BY <1>1, CoreAddPoint, FreezeAddPoint, EventsAddPoint DEF DatabaseIInv
<1>2. CASE \E t \in Thread : \/ \E p \in Point, r \in Reading : CallUpdate(t, p, r)
                             \/ \E c \in Counter : CallFreeze(t, c)
  BY <1>2, CoreCall, FreezeCall, EventsCall DEF DatabaseIInv
<1>3. CASE \E t \in Thread : ThreadStep(t)
  BY <1>3, CoreThreadStep, FreezeThreadStep, EventsThreadStep DEF DatabaseIInv
<1>4. CASE ConfirmStep
  BY <1>4, DatabaseConfirm
<1>5. QED
  BY <1>1, <1>2, <1>3, <1>4 DEF DatabaseNext

\* The locking protocol, the queues, whole freezes and exact events, as one
\* inductive invariant, whenever events are confirmed (database.py:51-148,
\* event_buffer.py:39-65, session.py:445-460).
THEOREM DatabaseInvariance == DatabaseSpec => []DatabaseIInv
<1>1. DatabaseIInv /\ [DatabaseNext \/ Confirm]_<<bufferVars, databaseVars>>
        => DatabaseIInv'
  <2> SUFFICES ASSUME DatabaseIInv,
                      [DatabaseNext \/ Confirm]_<<bufferVars, databaseVars>>
               PROVE  DatabaseIInv'
    OBVIOUS
  <2>1. CASE UNCHANGED <<bufferVars, databaseVars>>
    <3>1. BufferIInv'
      BY <2>1, BufferKept DEF DatabaseIInv, CoreIInv
    <3>2. QED
      BY <2>1, <3>1, DatabaseStands DEF bufferVars
  <2>2. QED
    BY <2>1, DatabasePreserves, DatabaseConfirm
<1>2. QED
  BY <1>1, DatabaseInitInv, PTL DEF DatabaseSpec

\* Every variable of the database keeps its type (database.py:34-148).
THEOREM DatabaseTypeCorrect == DatabaseSpec => []DatabaseTypeOK
<1>1. DatabaseIInv => DatabaseTypeOK
  BY DEF DatabaseIInv, CoreIInv
<1>2. QED
  BY <1>1, DatabaseInvariance, PTL

\* A frozen counter is a reading the counter had, whatever threads updated it
\* meanwhile (database.py:142-148).
THEOREM FreezeAtomic == DatabaseSpec => []FrozenWhole
<1>1. DatabaseIInv => FrozenWhole
  BY DEF DatabaseIInv, FreezeIInv
<1>2. QED
  BY <1>1, DatabaseInvariance, PTL

\* The newest event of a point is what the point holds when nobody is updating
\* it: racing updates queue their events in the order they write
\* (database.py:86-122).
THEOREM EventsCurrent == DatabaseSpec => []LastEventCurrent
<1>1. DatabaseIInv => LastEventCurrent
  BY DEF DatabaseIInv, EventsIInv
<1>2. QED
  BY <1>1, DatabaseInvariance, PTL

\* Racing updates never report one change twice (database.py:86-122).
THEOREM EventsDiffer == DatabaseSpec => []NoRedundantEvents
<1>1. DatabaseIInv => NoRedundantEvents
  BY DEF DatabaseIInv, EventsIInv
<1>2. QED
  BY <1>1, DatabaseInvariance, PTL

\* In every reachable state a queue is the newest unconfirmed events of its
\* class, whenever events are confirmed (event_buffer.py:39-46, 55-65).
THEOREM NewestKeptAlways == DatabaseSpec => []NewestKept
<1>1. DatabaseIInv => NewestKept
  BY DEF DatabaseIInv, CoreIInv, BufferIInv
<1>2. QED
  BY <1>1, DatabaseInvariance, PTL

-----------------------------------------------------------------------------
(* The overflow flag *)

\* Thread t works on an event of a full queue.
Full(t) == LET c == EventClass[task[t].point] IN IsFull(buffers[c], ClassMax[c])

\* As long as no add() and no confirmation overlap, a thread that is to raise
\* the flag still finds its queue full, one that finds it full has raised the
\* flag, and confirm_all() leaves no loss unaccounted for.
FlagIInv ==
  ~overlapped =>
    /\ \A t \in Thread : At(t, "update", "raise") => Full(t)
    /\ \A t \in Thread : At(t, "update", "append") /\ Full(t) => overflow
    /\ confirming => ~Adding /\ \A lost \in dropped : lost[1] \in toClear
    /\ OverflowMeansLoss

\* When no thread is in add(), the flag is exact or confirm_all() is to make it so.
LEMMA FlagQuiet ==
  ASSUME ~overlapped' => ~Adding',
         ~overlapped' /\ confirming' => \A lost \in dropped' : lost[1] \in toClear',
         ~overlapped' /\ ~confirming' => (overflow' <=> dropped' # {})
  PROVE  FlagIInv'
<1>1. ~overlapped' => \A t \in Thread : /\ ~At(t, "update", "raise")'
                                       /\ ~At(t, "update", "append")'
  BY DEF Adding
<1>2. QED
  BY <1>1, Zenon DEF FlagIInv, OverflowMeansLoss

\* Steps that no thread takes in add() and that leave the buffer alone.
LEMMA FlagKept ==
  ASSUME FlagIInv, UNCHANGED bufferVars,
         \A t \in Thread : \/ task'[t] = task[t]
                          \/ /\ ~At(t, "update", "raise") /\ ~At(t, "update", "append")
                             /\ ~At(t, "update", "raise")' /\ ~At(t, "update", "append")'
  PROVE  FlagIInv'
<1>1. UNCHANGED <<buffers, dropped, overflow, overlapped, confirming, toClear>>
  BY DEF bufferVars, flagVars, confirmVars
<1>2. \A t \in Thread : /\ At(t, "update", "raise")' <=> At(t, "update", "raise")
                       /\ At(t, "update", "append")' <=> At(t, "update", "append")
  BY DEF At
<1>3. \A t \in Thread :
        At(t, "update", "raise") \/ At(t, "update", "append") => (Full(t)' <=> Full(t))
  BY <1>1 DEF Full, IsFull, At
<1>4. Adding' <=> Adding
  BY DEF Adding, At
<1>5. Losing' <=> Losing
  <2>1. \A t \in Thread :
          (At(t, "update", "append") /\ Full(t))' <=> At(t, "update", "append") /\ Full(t)
    BY <1>2, <1>3 DEF At, Full, IsFull
  <2>2. Losing <=> \E t \in Thread : At(t, "update", "append") /\ Full(t)
    BY Zenon DEF Losing, Full
  <2>3. Losing' <=> \E t \in Thread : (At(t, "update", "append") /\ Full(t))'
    BY Zenon DEF Losing, Full
  <2>4. QED
    BY <2>1, <2>2, <2>3
<1>6. OverflowMeansLoss' <=> OverflowMeansLoss
  BY <1>1, <1>5 DEF OverflowMeansLoss
<1>7. CASE ~overlapped
  <2>1. /\ \A t \in Thread : At(t, "update", "raise")' => Full(t)'
        /\ \A t \in Thread : At(t, "update", "append")' /\ Full(t)' => overflow'
    <3>1. ASSUME NEW t \in Thread
          PROVE  /\ At(t, "update", "raise")' => Full(t)'
                 /\ At(t, "update", "append")' /\ Full(t)' => overflow'
      <4>1. /\ At(t, "update", "raise") => Full(t)
            /\ At(t, "update", "append") /\ Full(t) => overflow
        BY <1>7 DEF FlagIInv
      <4>2. QED
        BY <1>1, <1>2, <1>3, <4>1 DEF At, Full, IsFull
    <3>2. QED
      BY <3>1
  <2>2. confirming' => ~Adding' /\ \A lost \in dropped' : lost[1] \in toClear'
    BY <1>1, <1>4, <1>7, Zenon DEF FlagIInv
  <2>3. QED
    BY <1>6, <1>7, <2>1, <2>2, Zenon DEF FlagIInv
<1>8. QED
  BY <1>1, <1>7, Zenon DEF FlagIInv

LEMMA FlagNotify ==
  ASSUME CoreIInv, FlagIInv, NEW t \in Thread, Notify(t)
  PROVE  FlagIInv'
<1> DEFINE c == EventClass[task[t].point]
<1>1. /\ task[t].op = "update" /\ task[t].step = "notify"
      /\ \A u \in Thread \ {t} : task'[u] = task[u]
      /\ Inside(t)
  BY NotifyEffect
<1>2. CASE UNCHANGED bufferVars /\ task'[t] = Idle
  BY <1>1, <1>2, FlagKept DEF At, Idle
<1>3. CASE /\ LookAtQueue /\ task'[t].op = "update" /\ task'[t].point = task[t].point
           /\ task'[t].step = IF IsFull(buffers[c], ClassMax[c]) THEN "raise" ELSE "append"
  <2>1. /\ UNCHANGED <<buffers, dropped, overflow, confirming, toClear>>
        /\ overlapped' = (overlapped \/ confirming)
    BY <1>3 DEF LookAtQueue, confirmVars
  <2>2. SUFFICES ASSUME ~overlapped, ~confirming PROVE FlagIInv'
    BY <2>1 DEF FlagIInv
  <2>3. \A u \in Thread \ {t} : ~Inside(u)
    BY <1>1, Alone DEF CoreIInv
  <2>4. \A u \in Thread : ~At(u, "update", "append")
    BY <1>1, <2>3 DEF At, Inside
  <2>5. Full(t)' <=> IsFull(buffers[c], ClassMax[c])
    BY <1>3, <2>1 DEF Full, IsFull
  <2>6. \A u \in Thread \ {t} : ~At(u, "update", "raise")' /\ ~At(u, "update", "append")'
    BY <1>1, <2>3 DEF At, Inside
  <2>7. overflow <=> dropped # {}
    BY <2>2, <2>4 DEF FlagIInv, OverflowMeansLoss, Losing
  <2>8. ~confirming' /\ OverflowMeansLoss'
    BY <2>1, <2>2, <2>7 DEF OverflowMeansLoss
  <2>9. QED
    BY <1>3, <2>5, <2>6, <2>8 DEF FlagIInv, At
<1>4. QED
  BY <1>2, <1>3, NotifyEffect

LEMMA FlagNotifyFull ==
  ASSUME CoreIInv, FlagIInv, NEW t \in Thread, NotifyFull(t)
  PROVE  FlagIInv'
<1>1. /\ task[t].op = "update" /\ task[t].step = "raise" /\ Inside(t)
      /\ \A u \in Thread \ {t} : task'[u] = task[u]
      /\ RaiseOverflow
      /\ task'[t].op = "update" /\ task'[t].step = "append"
      /\ task'[t].point = task[t].point
  BY NotifyFullEffect
<1>2. /\ UNCHANGED <<buffers, dropped, overlapped, confirming, toClear>> /\ overflow' = TRUE
  BY <1>1 DEF RaiseOverflow, confirmVars
<1>3. SUFFICES ASSUME ~overlapped PROVE FlagIInv'
  BY <1>2 DEF FlagIInv
<1>4. ~confirming
  BY <1>1, <1>3 DEF FlagIInv, Adding, At
<1>5. Full(t)
  BY <1>1, <1>3 DEF FlagIInv, At
<1>6. Full(t)' /\ At(t, "update", "append")'
  BY <1>1, <1>2, <1>5 DEF Full, IsFull, At
<1>7. Losing'
  BY <1>6 DEF Losing, Full
<1>8. \A u \in Thread : ~At(u, "update", "raise")'
  BY <1>1, Alone DEF CoreIInv, At, Inside
<1>9. QED
  BY <1>2, <1>4, <1>7, <1>8 DEF FlagIInv, OverflowMeansLoss

LEMMA FlagNotifyAppend ==
  ASSUME CoreIInv, FlagIInv, NEW t \in Thread, NotifyAppend(t)
  PROVE  FlagIInv'
<1>0. PICK c, e : /\ c = EventClass[task[t].point]
                  /\ e = [point |-> task[t].point, value |-> task[t].reading.value,
                          flags |-> task[t].reading.flags]
  OBVIOUS
<1>1. /\ task[t].op = "update" /\ task[t].step = "append" /\ Inside(t)
      /\ \A u \in Thread \ {t} : task'[u] = task[u]
      /\ ~Inside(t)'
      /\ c \in Class /\ e \in Event /\ AppendEvent(c, e)
  BY <1>0, NotifyAppendEffect
<1>2. /\ dropped' = dropped \cup ({c} \X Missing(c))
      /\ UNCHANGED <<overflow, overlapped, confirming, toClear>>
  BY <1>1 DEF AppendEvent, flagVars, confirmVars
<1>3. SUFFICES ASSUME ~overlapped PROVE FlagIInv'
  BY <1>2 DEF FlagIInv
<1>4. ~confirming
  BY <1>1, <1>3 DEF FlagIInv, Adding, At
<1>5. IF Full(t) THEN Missing(c) # {} ELSE Missing(c) = {}
  <2>1. IF Len(buffers[c]) = ClassMax[c] THEN Missing(c) # {} ELSE Missing(c) = {}
    BY <1>1, AddQueue DEF CoreIInv, BufferIInv
  <2>2. QED
    BY <1>0, <2>1 DEF Full, IsFull
<1>6. \A u \in Thread : ~Inside(u)'
  BY <1>1, Alone DEF CoreIInv, Inside
<1>7. ~Adding'
  BY <1>6 DEF At, Inside, Adding
<1>8. Full(t) => overflow /\ dropped' # {}
  <2>1. Full(t) => overflow
    BY <1>1, <1>3 DEF FlagIInv, At
  <2>2. ASSUME NEW i \in Missing(c) PROVE dropped' # {}
    <3>1. <<c, i>> \in dropped'
      BY <1>2, <2>2
    <3>2. QED
      BY <3>1
  <2>3. QED
    BY <1>5, <2>1, <2>2
<1>9. ~Full(t) => dropped' = dropped /\ ~Losing
  <2>1. \A u \in Thread \ {t} : ~At(u, "update", "append")
    BY <1>1, Alone DEF CoreIInv, At, Inside
  <2>2. QED
    BY <1>2, <1>5, <2>1 DEF Losing, Full
<1>10. overflow <=> dropped' # {}
  <2>1. /\ dropped # {} => overflow
        /\ overflow => dropped # {} \/ Losing
    BY <1>3, <1>4 DEF FlagIInv, OverflowMeansLoss
  <2>2. QED
    BY <1>8, <1>9, <2>1
<1>11. QED
  BY <1>2, <1>4, <1>7, <1>10, FlagQuiet

LEMMA FlagConfirm ==
  ASSUME CoreIInv, FlagIInv, ConfirmStep \/ Confirm
  PROVE  FlagIInv'
<1>1. Adding' <=> Adding
  BY DEF ConfirmStep, Confirm, databaseVars, Adding, At
<1>2. \A lost \in dropped : lost[1] \in Class
  BY DEF CoreIInv, DatabaseTypeOK, BufferTypeOK
<1>3. ~Adding => ~Losing
  BY DEF Adding, Losing
<1>4. CASE BeginConfirmAll(Adding)
  <2>1. /\ confirming' /\ toClear' = Class /\ overlapped' = Adding /\ dropped' = dropped
    BY <1>4 DEF BeginConfirmAll
  <2>2. QED
    BY <1>1, <1>2, <2>1, FlagQuiet
<1>5. CASE \E c \in Class : ConfirmClass(c, Adding)
  <2>1. /\ ~confirming /\ ~confirming' /\ overlapped' = (overlapped \/ Adding)
        /\ UNCHANGED <<dropped, overflow>>
    BY <1>5 DEF ConfirmClass, confirmVars
  <2>2. ~overlapped /\ ~Adding => (overflow <=> dropped # {})
    BY <1>3, <2>1 DEF FlagIInv, OverflowMeansLoss
  <2>3. QED
    BY <1>1, <2>1, <2>2, FlagQuiet
<1>6. CASE ClearQueue
  <2>1. PICK c \in toClear : /\ dropped' = {lost \in dropped : lost[1] # c}
                             /\ toClear' = toClear \ {c}
    BY <1>6 DEF ClearQueue
  <2>2. confirming /\ confirming' /\ overlapped' = overlapped
    BY <1>6 DEF ClearQueue, flagVars
  <2>3. ~overlapped => ~Adding /\ \A lost \in dropped : lost[1] \in toClear
    BY <2>2 DEF FlagIInv
  <2>4. QED
    BY <1>1, <2>1, <2>2, <2>3, FlagQuiet
<1>7. CASE LowerOverflow
  <2>1. /\ confirming /\ toClear = {} /\ ~confirming' /\ ~overflow'
        /\ UNCHANGED <<dropped, overlapped>>
    BY <1>7 DEF LowerOverflow
  <2>2. ~overlapped => dropped = {} /\ ~Adding
    BY <2>1 DEF FlagIInv
  <2>3. QED
    BY <1>1, <2>1, <2>2, FlagQuiet
<1>8. QED
  BY <1>4, <1>5, <1>6, <1>7 DEF ConfirmStep, Confirm

\* Every other step leaves the buffer alone and is taken outside add().
LEMMA FlagOther ==
  ASSUME CoreIInv, FlagIInv,
         \/ \E p \in Point, v \in Value : AddPoint(p, v)
         \/ \E t \in Thread, p \in Point, r \in Reading : CallUpdate(t, p, r)
         \/ \E t \in Thread, c \in Counter : CallFreeze(t, c)
         \/ \E t \in Thread : \/ EnterUpdate(t) \/ WriteValue(t) \/ WriteFlags(t)
                              \/ EnterFreeze(t) \/ FreezeValue(t) \/ FreezeFlags(t)
  PROVE  FlagIInv'
<1>1. CASE \E p \in Point, v \in Value : AddPoint(p, v)
  BY <1>1, AddPointEffect, FlagKept
<1>2. CASE \E t \in Thread : \/ \E p \in Point, r \in Reading : CallUpdate(t, p, r)
                             \/ \E c \in Counter : CallFreeze(t, c)
  BY <1>2, CallBegins, FlagKept DEF Inside, At
<1>3. ASSUME NEW t \in Thread,
             \/ EnterUpdate(t) \/ WriteValue(t) \/ WriteFlags(t)
             \/ EnterFreeze(t) \/ FreezeValue(t) \/ FreezeFlags(t)
      PROVE  FlagIInv'
  <2>1. /\ \A u \in Thread \ {t} : task'[u] = task[u]
        /\ UNCHANGED bufferVars
    BY <1>3, EnterUpdateEffect, WriteValueEffect, WriteFlagsEffect, EnterFreezeEffect,
       FreezeValueEffect, FreezeFlagsEffect
  <2>2. ~At(t, "update", "raise") /\ ~At(t, "update", "append")
    BY <1>3
       DEF EnterUpdate, WriteValue, WriteFlags, EnterFreeze, FreezeValue, FreezeFlags, At
  <2>3. ~At(t, "update", "raise")' /\ ~At(t, "update", "append")'
    BY <1>3, EnterUpdateEffect, WriteValueEffect, WriteFlagsEffect, EnterFreezeEffect,
       FreezeValueEffect, FreezeFlagsEffect DEF At, Inside, Idle
  <2>4. QED
    BY <2>1, <2>2, <2>3, FlagKept
<1>4. QED
  BY <1>1, <1>2, <1>3

\* Unless a confirmation and an add() overlapped, the overflow flag tells of
\* every event lost unconfirmed since confirm_all, and of nothing else
\* (event_buffer.py:39-46, 55-65).
THEOREM OverflowExact == DatabaseSpec => []OverflowMeansLoss
<1>1. DatabaseInit => FlagIInv
  <2> SUFFICES ASSUME DatabaseInit PROVE FlagIInv
    OBVIOUS
  <2>1. \A t \in Thread : ~At(t, "update", "raise") /\ ~At(t, "update", "append")
    BY DEF DatabaseInit, At, Idle
  <2>2. ~confirming /\ dropped = {} /\ ~overflow
    BY DEF DatabaseInit, BufferInit
  <2>3. QED
    BY <2>1, <2>2 DEF FlagIInv, OverflowMeansLoss
<1>2. DatabaseIInv /\ FlagIInv /\ [DatabaseNext \/ Confirm]_<<bufferVars, databaseVars>>
        => FlagIInv'
  <2> SUFFICES ASSUME CoreIInv, FlagIInv,
                      [DatabaseNext \/ Confirm]_<<bufferVars, databaseVars>>
               PROVE  FlagIInv'
    BY DEF DatabaseIInv
  <2>1. CASE UNCHANGED <<bufferVars, databaseVars>>
    BY <2>1, FlagKept DEF databaseVars
  <2>2. CASE \E t \in Thread : Notify(t) \/ NotifyFull(t) \/ NotifyAppend(t)
    BY <2>2, FlagNotify, FlagNotifyFull, FlagNotifyAppend
  <2>3. CASE ConfirmStep \/ Confirm
    BY <2>3, FlagConfirm
  <2>4. QED
    BY <2>1, <2>2, <2>3, FlagOther, Zenon DEF DatabaseNext, ThreadStep
<1>3. FlagIInv => OverflowMeansLoss
  BY DEF FlagIInv, OverflowMeansLoss
<1>4. QED
  BY <1>1, <1>2, <1>3, DatabaseInvariance, PTL DEF DatabaseSpec
=============================================================================

-------------------------- MODULE TransportProofs --------------------------
(* Proofs about one direction of the transport layer, for every set of     *)
(* fragments and every size, under SeqAssumption.  The theorems that need  *)
(* it assume SafeReuse: connections are never opened again, or             *)
(* TransportLayer.reset() is called when they are.                         *)
EXTENDS Transport, TLAPS, SequenceTheorems

SafeReuse == Reconnects => ResetOnReconnect

-----------------------------------------------------------------------------
(* Sequence numbers *)

\* The masked increment is a sequence number and wraps only at the top.
LEMMA IncValue ==
  ASSUME NEW q \in SeqNum
  PROVE  /\ Inc(q) \in SeqNum
         /\ Inc(q) = IF q + 1 = SeqMod THEN 0 ELSE q + 1
<1>1. CASE q + 1 < SeqMod
  <2>1. (q + 1) % SeqMod = q + 1
    BY <1>1, SeqAssumption DEF SeqNum
  <2>2. QED
    BY <1>1, <2>1, SeqAssumption DEF Inc, SeqNum
<1>2. CASE q + 1 = SeqMod
  <2>1. SeqMod % SeqMod = 0
    BY SeqAssumption
  <2>2. QED
    BY <1>2, <2>1, SeqAssumption DEF Inc, SeqNum
<1>3. QED
  BY <1>1, <1>2, SeqAssumption DEF SeqNum

\* Advancing by one frame more is incrementing the result.
LEMMA AdvanceOne ==
  ASSUME NEW q \in SeqNum, NEW n \in Nat, n + 1 < SeqMod
  PROVE  Inc(Advance(q, n)) = Advance(q, n + 1)
<1>1. Advance(q, n) \in SeqNum
  BY SeqAssumption DEF Advance, SeqNum
<1>2. Inc(Advance(q, n)) = IF Advance(q, n) + 1 = SeqMod THEN 0 ELSE Advance(q, n) + 1
  BY <1>1, IncValue
<1>3. QED
  BY <1>2, SeqAssumption DEF Advance, SeqNum

\* Fewer than SeqMod lost frames always show in the sequence number.
LEMMA AdvanceVisible ==
  ASSUME NEW q \in SeqNum, NEW n \in Nat, n < SeqMod, Advance(q, n) = q
  PROVE  n = 0
BY SeqAssumption DEF Advance, SeqNum

LEMMA AdvanceZero ==
  ASSUME NEW q \in SeqNum
  PROVE  Advance(q, 0) = q
BY SeqAssumption DEF Advance, SeqNum
-----------------------------------------------------------------------------
(* Pieces of a fragment *)

\* A piece of a sequence is a sequence over the same set, of the length asked.
LEMMA PieceType ==
  ASSUME NEW S, NEW f \in Seq(S), NEW m \in Nat, NEW n \in Nat,
         m <= n, n <= Len(f)
  PROVE  /\ SubSeq(f, m + 1, n) \in Seq(S)
         /\ Len(SubSeq(f, m + 1, n)) = n - m
BY SubSeqProperties

\* The first m bytes followed by the next ones, up to n, are the first n bytes.
LEMMA PieceConcat ==
  ASSUME NEW S, NEW f \in Seq(S), NEW m \in Nat, NEW n \in Nat,
         m <= n, n <= Len(f)
  PROVE  SubSeq(f, 1, m) \o SubSeq(f, m + 1, n) = SubSeq(f, 1, n)
BY ConcatAdjacentSubSeq

\* All the bytes of a sequence are the sequence.
LEMMA PieceAll ==
  ASSUME NEW S, NEW f \in Seq(S)
  PROVE  SubSeq(f, 1, Len(f)) = f
BY SubSeqFull

-----------------------------------------------------------------------------
(* Type correctness *)

\* A segment built by the loop has the type of a segment.
LEMMA ChunkType ==
  ASSUME TypeOK, SenderOK, sending
  PROVE  /\ Len(sent) > 0
         /\ Current \in Fragments
         /\ Current \in Seq(Byte)
         /\ ChunkSize \in Nat
         /\ offset + ChunkSize <= Len(Current)
         /\ offset + ChunkSize < Len(Current) => ChunkSize > 0
         /\ SubSeq(Current, offset + 1, offset + ChunkSize) \in Seq(Byte)
         /\ Len(SubSeq(Current, offset + 1, offset + ChunkSize)) = ChunkSize
<1>1. Len(sent) > 0
  BY DEF SenderOK
<1>2. sent \in Seq(Fragments) /\ Len(sent) \in Nat /\ offset \in Nat
  BY DEF TypeOK
<1>3. Current \in Fragments
  BY <1>1, <1>2, ElementOfSeq DEF Current
<1>4. Current \in Seq(Byte) /\ Len(Current) \in Nat
  BY <1>3, FragmentsAssumption
<1>5. offset <= Len(Current)
  BY <1>2, <1>4 DEF SenderOK
<1>6. /\ ChunkSize \in Nat
      /\ offset + ChunkSize <= Len(Current)
      /\ offset + ChunkSize < Len(Current) => ChunkSize > 0
  BY <1>2, <1>4, <1>5, SizesAssumption DEF ChunkSize
<1>7. /\ SubSeq(Current, offset + 1, offset + ChunkSize) \in Seq(Byte)
      /\ Len(SubSeq(Current, offset + 1, offset + ChunkSize)) = ChunkSize
  <2>1. /\ offset <= offset + ChunkSize
        /\ (offset + ChunkSize) - offset = ChunkSize
        /\ offset + ChunkSize \in Nat
    BY <1>2, <1>6
  <2>2. QED
    BY <1>2, <1>4, <1>6, <2>1, PieceType
<1>8. QED
  BY <1>1, <1>3, <1>4, <1>6, <1>7

\* The head of the channel is a segment, and so is every other frame in it.
LEMMA ChannelType ==
  ASSUME TypeOK, chan # <<>>
  PROVE  /\ Head(chan) \in Segment
         /\ Head(chan) = chan[1]
         /\ Tail(chan) \in Seq(Segment)
         /\ Len(chan) \in Nat /\ Len(chan) > 0
         /\ Len(Tail(chan)) = Len(chan) - 1
         /\ \A i \in 1 .. Len(chan) - 1 : Tail(chan)[i] = chan[i + 1]
<1>1. chan \in Seq(Segment)
  BY DEF TypeOK
<1>2. QED
  BY <1>1, HeadTailProperties, EmptySeq, LenProperties

\* reset() leaves the receiver well typed.
LEMMA ResetType ==
  ASSUME Reset
  PROVE  /\ active' \in BOOLEAN
         /\ buffer' \in Seq(Byte) /\ Len(buffer') <= MaxFragment
         /\ expected' \in SeqNum \cup {None}
<1>1. <<>> \in Seq(Byte) /\ Len(<<>>) = 0
  BY EmptySeq
<1>2. active' = FALSE /\ buffer' = <<>> /\ expected' = None
  BY DEF Reset
<1>3. buffer' \in Seq(Byte) /\ Len(buffer') = 0
  BY <1>1, <1>2
<1>4. active' \in BOOLEAN /\ expected' \in SeqNum \cup {None}
  BY <1>2
<1>5. Len(buffer') <= MaxFragment
  BY <1>3, SizesAssumption
<1>6. QED
  BY <1>3, <1>4, <1>5

LEMMA InitType == Init => TypeOK /\ SenderOK
<1> SUFFICES ASSUME Init PROVE TypeOK /\ SenderOK
  OBVIOUS
<1>1. 0 \in SeqNum
  BY SeqAssumption DEF SeqNum
<1>2. /\ <<>> \in Seq(Fragments) /\ <<>> \in Seq(Segment) /\ <<>> \in Seq(Byte)
      /\ <<>> \in Seq([frag : Nat \ {0}, data : Seq(Byte)])
      /\ Len(<<>>) = 0
  BY EmptySeq
<1>3. TypeOK
  <2>1. /\ sent \in Seq(Fragments) /\ Len(sent) = 0
        /\ chan \in Seq(Segment)
        /\ buffer \in Seq(Byte) /\ Len(buffer) = 0
        /\ delivered \in Seq([frag : Nat \ {0}, data : Seq(Byte)])
    BY <1>2 DEF Init
  <2>2. sending \in BOOLEAN /\ active \in BOOLEAN /\ expected \in SeqNum \cup {None}
    BY DEF Init
  <2>3. Len(sent) <= MaxSent /\ Len(buffer) <= MaxFragment
    BY <2>1, SizesAssumption
  <2>4. offset \in Nat /\ txSeq \in SeqNum /\ burst \in 0 .. MaxBurst /\ damaged \subseteq Nat
    BY <1>1, SeqAssumption DEF Init
  <2>5. QED
    BY <2>1, <2>2, <2>3, <2>4 DEF TypeOK
<1>4. SenderOK
  BY DEF Init, SenderOK
<1>5. QED
  BY <1>3, <1>4

\* What the receiver assembles is a sequence of bytes.
LEMMA AssembledType ==
  ASSUME TypeOK, NEW s \in Segment
  PROVE  /\ Assembled(s) \in Seq(Byte)
         /\ Len(Assembled(s)) \in Nat
         /\ Len(Assembled(s)) = IF s.fir THEN Len(s.payload)
                                ELSE Len(buffer) + Len(s.payload)
<1>1. s.payload \in Seq(Byte) /\ buffer \in Seq(Byte)
  BY DEF TypeOK, Segment
<1>2. QED
  BY <1>1, ConcatProperties, LenProperties DEF Assembled

LEMMA NextType == TypeOK /\ SenderOK /\ [Next]_vars => TypeOK' /\ SenderOK'
<1> SUFFICES ASSUME TypeOK, SenderOK, [Next]_vars
             PROVE  TypeOK' /\ SenderOK'
  OBVIOUS
<1>1. ASSUME NEW f \in Fragments, Submit(f)
      PROVE  TypeOK' /\ SenderOK'
  <2>1. sent' \in Seq(Fragments) /\ Len(sent') = Len(sent) + 1
    BY <1>1, AppendProperties DEF TypeOK, Submit
  <2>2. TypeOK'
    BY <1>1, <2>1, SizesAssumption DEF TypeOK, Submit, receiver
  <2>3. SenderOK'
    BY <1>1, <2>1 DEF TypeOK, SenderOK, Submit
  <2>4. QED
    BY <2>2, <2>3
<1>2. CASE SendSegment
  <2> DEFINE s == [fir     |-> offset = 0,
                   fin     |-> IsFin(offset + ChunkSize),
                   seq     |-> txSeq,
                   payload |-> SubSeq(Current, offset + 1, offset + ChunkSize),
                   frag    |-> Len(sent),
                   off     |-> offset]
  <2>1. sending
    BY <1>2 DEF SendSegment
  <2>2. s \in Segment
    BY <2>1, ChunkType DEF Segment, TypeOK, IsFin
  <2>3. chan' = Append(chan, s)
    BY <1>2 DEF SendSegment
  <2>4. chan' \in Seq(Segment)
    BY <2>2, <2>3, AppendProperties DEF TypeOK
  <2>5. txSeq' \in SeqNum
    BY <1>2, IncValue DEF TypeOK, SendSegment
  <2>6. offset' \in Nat
    BY SMTT(30), <1>2, <2>1, ChunkType DEF TypeOK, SendSegment
  <2>7. TypeOK'
    BY <1>2, <2>4, <2>5, <2>6 DEF TypeOK, SendSegment, receiver
  <2>8. SenderOK'
    <3>1. sent' = sent /\ Current' = Current
      BY <1>2 DEF SendSegment, Current
    <3>2. QED
      BY <1>2, <2>1, <3>1, ChunkType DEF SenderOK, SendSegment
  <2>9. QED
    BY <2>7, <2>8
<1>3. CASE Receive
  <2> DEFINE s == Head(chan)
  <2>1. chan # <<>> /\ s \in Segment /\ chan' \in Seq(Segment)
    BY <1>3, ChannelType DEF Receive, TakeHead
  <2> HIDE DEF s
  <2>2. SenderOK'
    BY <1>3 DEF Receive, TakeHead, sender, SenderOK, Current
  <2>3. burst' \in 0 .. MaxBurst
    BY <1>3, SeqAssumption DEF Receive, TakeHead
  <2>4. /\ active' \in BOOLEAN
        /\ buffer' \in Seq(Byte) /\ Len(buffer') <= MaxFragment
        /\ expected' \in SeqNum \cup {None}
        /\ delivered' \in Seq([frag : Nat \ {0}, data : Seq(Byte)])
    <3>1. AddSegment(s)
      BY <1>3 DEF Receive, s
    <3>2. CASE Discard(s)
      BY <3>2 DEF Discard, TypeOK, receiver
    <3>3. CASE Mismatch(s)
      BY <3>3, ResetType DEF Mismatch, TypeOK
    <3>4. CASE Overflow(s)
      BY <3>4, ResetType DEF Overflow, TypeOK
    <3>5. CASE Complete(s)
      <4>1. [frag |-> s.frag, data |-> Assembled(s)]
              \in [frag : Nat \ {0}, data : Seq(Byte)]
        BY <2>1, AssembledType DEF Segment
      <4>2. delivered' \in Seq([frag : Nat \ {0}, data : Seq(Byte)])
        BY <3>5, <4>1, AppendProperties DEF Complete, TypeOK
      <4>3. QED
        BY <3>5, <4>2, ResetType DEF Complete
    <3>6. CASE Extend(s)
      <4>1. Inc(s.seq) \in SeqNum
        BY <2>1, IncValue DEF Segment
      <4>2. QED
        BY <2>1, <3>6, <4>1, AssembledType, SizesAssumption DEF Extend, TooLong, TypeOK
    <3>7. QED
      BY <3>1, <3>2, <3>3, <3>4, <3>5, <3>6 DEF AddSegment
  <2>5. TypeOK'
    BY <1>3, <2>1, <2>3, <2>4 DEF Receive, TakeHead, sender, TypeOK
  <2>6. QED
    BY <2>2, <2>5
<1>4. CASE Lose
  <2>1. Head(chan) \in Segment /\ Tail(chan) \in Seq(Segment)
    BY <1>4, ChannelType DEF Lose
  <2>2. damaged' \subseteq Nat
    BY <1>4, <2>1 DEF Lose, TypeOK, Segment
  <2>3. TypeOK'
    BY <1>4, <2>1, <2>2, SeqAssumption DEF Lose, sender, receiver, TypeOK
  <2>4. SenderOK'
    BY <1>4 DEF Lose, sender, SenderOK, Current
  <2>5. QED
    BY <2>3, <2>4
<1>5. CASE Reconnect
  <2>1. 0 \in SeqNum
    BY SeqAssumption DEF SeqNum
  <2>2. NextPos.frag \in Nat
    <3>1. CASE chan = <<>>
      BY <3>1 DEF NextPos, SenderPos, TypeOK
    <3>2. CASE chan # <<>>
      BY <3>2, ChannelType DEF NextPos, Pos, Segment
    <3>3. QED
      BY <3>1, <3>2
  <2>3. damaged' \subseteq Nat
    <3>1. Len(sent) \in Nat
      BY LenProperties DEF TypeOK
    <3>2. NextPos.frag .. Len(sent) \subseteq Nat
      BY <2>2, <3>1
    <3>3. QED
      BY <1>5, <3>2 DEF Reconnect, TypeOK
  <2>4. /\ active' \in BOOLEAN
        /\ buffer' \in Seq(Byte) /\ Len(buffer') <= MaxFragment
        /\ expected' \in SeqNum \cup {None}
    BY <1>5, ResetType DEF Reconnect, receiver, TypeOK
  <2>5. TypeOK'
    BY <1>5, <2>1, <2>3, <2>4, SeqAssumption DEF Reconnect, TypeOK
  <2>6. SenderOK'
    BY <1>5 DEF Reconnect, SenderOK, Current
  <2>7. QED
    BY <2>5, <2>6
<1>6. CASE UNCHANGED vars
  BY <1>6 DEF vars, sender, receiver, TypeOK, SenderOK, Current
<1>7. QED
  BY <1>1, <1>2, <1>3, <1>4, <1>5, <1>6 DEF Next

\* Every variable keeps its type in every reachable state, and the receive
\* buffer never grows beyond MAX_FRAGMENT_SIZE (reassembler.py:68-71).
THEOREM TypeCorrect == Spec => []TypeOK
<1>1. Spec => [](TypeOK /\ SenderOK)
  BY InitType, NextType, PTL DEF Spec
<1>2. QED
  BY <1>1, PTL

-----------------------------------------------------------------------------
(* The channel *)

\* Where the next frame comes from is always a place in what was submitted.
LEMMA NextPosType ==
  ASSUME TypeOK, SenderOK, ChannelOK
  PROVE  /\ Len(sent) \in Nat
         /\ NextPos.frag \in 1 .. Len(sent) + 1
         /\ NextPos.off \in Nat
         /\ NextPos.seq \in SeqNum
         /\ NextPos.off > 0 => NextPos.frag <= Len(sent)
<1>1. Len(sent) \in Nat /\ offset \in Nat /\ txSeq \in SeqNum
  BY LenProperties DEF TypeOK
<1>2. CASE chan = <<>>
  BY <1>1, <1>2 DEF NextPos, SenderPos, SenderOK
<1>3. CASE chan # <<>>
  <2>1. Head(chan) \in Segment /\ SegmentOK(Head(chan))
    BY <1>3, ChannelType DEF ChannelOK
  <2>2. NextPos = Pos(Head(chan))
    BY <1>3 DEF NextPos
  <2>3. QED
    BY <1>1, <2>1, <2>2 DEF Pos, Segment, SegmentOK
<1>4. QED
  BY <1>2, <1>3

\* The oldest frame is a piece of a submitted fragment.
LEMMA HeadPiece ==
  ASSUME TypeOK, ChannelOK, chan # <<>>, NEW s, s = Head(chan)
  PROVE  /\ s \in Segment
         /\ SegmentOK(s)
         /\ NextPos = Pos(s)
         /\ sent[s.frag] \in Seq(Byte)
         /\ Len(sent[s.frag]) \in Nat
         /\ Len(s.payload) \in Nat
         /\ s.off \in Nat
<1>1. s \in Segment /\ SegmentOK(s)
  BY ChannelType DEF ChannelOK
<1>2. sent[s.frag] \in Seq(Byte)
  BY <1>1, ElementOfSeq, FragmentsAssumption DEF TypeOK, SegmentOK
<1>3. QED
  BY <1>1, <1>2, LenProperties DEF NextPos, Segment

\* Taking the oldest frame off leaves a channel of consecutive pieces, and
\* the next frame is the one after it.
LEMMA ChannelShift ==
  ASSUME TypeOK, ChannelOK, chan # <<>>,
         chan' = Tail(chan), UNCHANGED sender
  PROVE  /\ ChannelOK'
         /\ NextPos' = After(Head(chan))
<1>1. /\ Head(chan) = chan[1]
      /\ Len(chan) \in Nat /\ Len(chan) > 0
      /\ chan' \in Seq(Segment)
      /\ Len(chan') = Len(chan) - 1
      /\ \A i \in 1 .. Len(chan) - 1 : chan'[i] = chan[i + 1]
  BY ChannelType
<1>2. SenderPos' = SenderPos /\ sent' = sent
  BY DEF sender, SenderPos
<1>3. (\A i \in 1 .. Len(chan) : SegmentOK(chan[i]))'
  <2>1. \A i \in 1 .. Len(chan') : SegmentOK(chan'[i])
    BY <1>1 DEF ChannelOK
  <2>2. QED
    BY <1>2, <2>1 DEF SegmentOK
<1>4. \A i \in 1 .. Len(chan') - 1 : After(chan'[i]) = Pos(chan'[i + 1])
  BY <1>1 DEF ChannelOK
<1>5. chan' # <<>> => After(chan'[Len(chan')]) = SenderPos'
  <2>1. SUFFICES ASSUME chan' # <<>> PROVE After(chan'[Len(chan')]) = SenderPos
    BY <1>2
  <2>2. Len(chan') > 0
    BY <1>1, <2>1, EmptySeq
  <2>3. chan'[Len(chan')] = chan[Len(chan)]
    BY <1>1, <2>2
  <2>4. QED
    BY <2>3 DEF ChannelOK
<1>6. ChannelOK'
  BY <1>3, <1>4, <1>5 DEF ChannelOK, After, Pos
<1>7. NextPos' = After(Head(chan))
  <2>1. CASE chan' = <<>>
    <3>1. Len(chan) = 1
      <4>1. Len(chan') = 0
        BY <2>1, EmptySeq
      <4>2. QED
        BY <1>1, <4>1
    <3>2. QED
      BY <1>1, <1>2, <2>1, <3>1 DEF NextPos, ChannelOK
  <2>2. CASE chan' # <<>>
    <3>1. Len(chan') > 0 /\ Head(chan') = chan'[1]
      BY <1>1, <2>2, EmptySeq, HeadTailProperties
    <3>2. chan'[1] = chan[2] /\ After(chan[1]) = Pos(chan[2])
      BY <1>1, <3>1 DEF ChannelOK
    <3>3. QED
      BY <1>1, <2>2, <3>1, <3>2 DEF NextPos
  <2>3. QED
    BY <2>1, <2>2
<1>8. QED
  BY <1>6, <1>7

\* What an in-sequence frame completes the buffer to is the head of its
\* fragment, up to the end of the frame.
LEMMA AssembledPiece ==
  ASSUME TypeOK, SenderOK, ChannelOK, ReceiverOK, chan # <<>>,
         NEW s, s = Head(chan), InSequence(s)
  PROVE  /\ Assembled(s) = SubSeq(sent[s.frag], 1, s.off + Len(s.payload))
         /\ Len(Assembled(s)) = s.off + Len(s.payload)
<1>1. /\ s \in Segment /\ SegmentOK(s)
      /\ NextPos = Pos(s)
      /\ sent[s.frag] \in Seq(Byte) /\ Len(sent[s.frag]) \in Nat
      /\ Len(s.payload) \in Nat /\ s.off \in Nat
  BY HeadPiece
<1> DEFINE f == sent[s.frag]
           end == s.off + Len(s.payload)
<1>2. end \in Nat /\ s.off <= end /\ end <= Len(f)
  BY <1>1 DEF SegmentOK
<1>3. s.payload = SubSeq(f, s.off + 1, end)
  BY <1>1 DEF SegmentOK
<1>4. Assembled(s) = SubSeq(f, 1, end)
  <2>1. CASE s.fir
    <3>1. s.off = 0
      BY <1>1, <2>1 DEF SegmentOK
    <3>2. s.payload = SubSeq(f, 1, end)
      <4>1. s.off + 1 = 1
        BY <3>1
      <4>2. QED
        BY <1>3, <4>1, Zenon
    <3>3. QED
      BY <2>1, <3>2 DEF Assembled
  <2>2. CASE ~s.fir
    <3>1. active /\ s.seq = expected
      BY <2>2 DEF InSequence
    <3>2. expected \in SeqNum /\ Advance(expected, burst) = expected
      BY <1>1, <3>1 DEF ReceiverOK, Pos
    <3>3. burst = 0
      BY <3>2, AdvanceVisible, SeqAssumption DEF TypeOK
    <3>4. buffer = SubSeq(f, 1, s.off)
      BY <1>1, <3>1, <3>3 DEF ReceiverOK, Pos
    <3>5. buffer \o s.payload = SubSeq(f, 1, end)
      <4>1. SubSeq(f, 1, s.off) \o SubSeq(f, s.off + 1, end) = SubSeq(f, 1, end)
        BY <1>1, <1>2, PieceConcat
      <4>2. QED
        BY <1>3, <3>4, <4>1
    <3>6. QED
      BY <2>2, <3>5 DEF Assembled
  <2>3. QED
    BY <2>1, <2>2
<1>5. Len(SubSeq(f, 1, end)) = end
  <2>1. Len(SubSeq(f, 0 + 1, end)) = end - 0
    BY <1>1, <1>2, PieceType
  <2>2. QED
    BY <1>2, <2>1
<1>6. QED
  BY <1>4, <1>5

\* A frame is rejected only if its fragment lost an earlier frame, or was
\* already longer than MAX_FRAGMENT_SIZE before it.
LEMMA RejectedPiece ==
  ASSUME TypeOK, SenderOK, ChannelOK, ReceiverOK, ProgressOK, chan # <<>>,
         NEW s, s = Head(chan), ~InSequence(s)
  PROVE  s.frag \in damaged \/ s.off > MaxFragment
<1>1. s \in Segment /\ SegmentOK(s) /\ NextPos = Pos(s) /\ s.off \in Nat
  BY HeadPiece
<1>2. ~s.fir /\ s.off > 0
  BY <1>1 DEF InSequence, SegmentOK
<1>3. ~(active /\ burst = 0)
  <2>1. SUFFICES ASSUME active, burst = 0 PROVE FALSE
    OBVIOUS
  <2>2. expected \in SeqNum /\ s.seq = Advance(expected, 0)
    BY <1>1, <2>1 DEF ReceiverOK, Pos
  <2>3. s.seq = expected
    BY <2>2, AdvanceZero
  <2>4. QED
    BY <2>1, <2>3 DEF InSequence
<1>4. QED
  BY <1>1, <1>2, <1>3, SizesAssumption DEF ProgressOK, Pos

-----------------------------------------------------------------------------
(* The invariant is inductive *)

\* The conjuncts of IInv about the receiver and the history it leaves.
History == ReceiverOK /\ DeliveredOK /\ ProgressOK /\ Integrity /\ NoCollateralLoss

LEMMA InitInvariant == Init => IInv
<1> SUFFICES ASSUME Init PROVE IInv
  OBVIOUS
<1>1. TypeOK /\ SenderOK
  BY InitType
<1>2. Len(sent) = 0 /\ Len(chan) = 0 /\ Len(delivered) = 0
  BY EmptySeq DEF Init
<1>3. ChannelOK
  BY <1>2 DEF Init, ChannelOK
<1>4. NextPos.off = 0
  BY DEF Init, NextPos, SenderPos
<1>5. ReceiverOK /\ ProgressOK
  BY <1>4 DEF Init, ReceiverOK, ProgressOK
<1>6. DeliveredOK /\ Integrity /\ NoCollateralLoss
  BY <1>2 DEF DeliveredOK, Integrity, NoCollateralLoss
<1>7. QED
  BY <1>1, <1>3, <1>5, <1>6 DEF IInv

\* A new submission disturbs neither the frames in flight nor the receiver.
LEMMA SubmitPreserves ==
  ASSUME IInv, NEW f \in Fragments, Submit(f)
  PROVE  ChannelOK' /\ History'
<1>1. TypeOK /\ SenderOK /\ ChannelOK /\ History
  BY DEF IInv, History
<1>2. /\ Len(sent) \in Nat
      /\ Len(sent') = Len(sent) + 1
      /\ \A k \in 1 .. Len(sent) : sent'[k] = sent[k]
  BY <1>1, AppendProperties, LenProperties DEF TypeOK, Submit
<1>3. SenderPos' = SenderPos
  BY <1>2 DEF Submit, SenderPos
<1>4. NextPos' = NextPos
  BY <1>3 DEF Submit, NextPos, Pos
<1>5. ChannelOK'
  <2>1. \A i \in 1 .. Len(chan) : SegmentOK(chan[i])'
    <3>1. SUFFICES ASSUME NEW i \in 1 .. Len(chan) PROVE SegmentOK(chan[i])'
      OBVIOUS
    <3>2. SegmentOK(chan[i])
      BY <1>1 DEF ChannelOK
    <3>3. chan[i].frag \in 1 .. Len(sent)
      BY <3>2 DEF SegmentOK
    <3>4. sent'[chan[i].frag] = sent[chan[i].frag] /\ chan' = chan
      BY <1>2, <3>3 DEF Submit
    <3>5. QED
      BY <1>2, <3>2, <3>4 DEF SegmentOK
  <2>2. QED
    BY <1>1, <1>3, <2>1 DEF ChannelOK, After, Pos, Submit
<1>6. NextPos.frag \in 1 .. Len(sent) + 1 /\ (NextPos.off > 0 => NextPos.frag <= Len(sent))
  BY <1>1, NextPosType
<1>7. ReceiverOK'
  BY <1>1, <1>2, <1>4, <1>6 DEF History, ReceiverOK, Submit, receiver
<1>8. DeliveredOK' /\ ProgressOK'
  BY <1>1, <1>4 DEF History, DeliveredOK, ProgressOK, Submit, receiver
<1>9. Integrity'
  BY <1>1, <1>2 DEF History, Integrity, Submit
<1>10. NoCollateralLoss'
  BY <1>1, <1>2, <1>4, <1>6
     DEF History, NoCollateralLoss, Oversize, IsDelivered, Submit
<1>11. QED
  BY <1>5, <1>7, <1>8, <1>9, <1>10 DEF History

\* What the loop of segment() appends is the next piece of its fragment.
LEMMA SendSegmentPreserves ==
  ASSUME IInv, SendSegment
  PROVE  ChannelOK' /\ History'
<1>1. TypeOK /\ SenderOK /\ ChannelOK /\ History /\ sending
  BY DEF IInv, History, SendSegment
<1> DEFINE s == [fir     |-> offset = 0,
                 fin     |-> IsFin(offset + ChunkSize),
                 seq     |-> txSeq,
                 payload |-> SubSeq(Current, offset + 1, offset + ChunkSize),
                 frag    |-> Len(sent),
                 off     |-> offset]
<1>2. chan' = Append(chan, s)
  BY DEF SendSegment
<1>3. /\ Len(sent) \in Nat /\ Len(sent) > 0
      /\ offset \in Nat
      /\ ChunkSize \in Nat
      /\ Len(Current) \in Nat
      /\ offset + ChunkSize <= Len(Current)
      /\ offset + ChunkSize < Len(Current) => ChunkSize > 0
      /\ Len(s.payload) = ChunkSize
  BY <1>1, ChunkType, LenProperties DEF TypeOK
<1>4. s \in Segment
  BY <1>1, ChunkType DEF Segment, TypeOK, IsFin
<1>fin. /\ s.fin = IsFin(offset + ChunkSize)
       /\ IsFin(offset + ChunkSize) <=> (offset + ChunkSize = Len(Current))
  <2>1. IsFin(offset + ChunkSize) <=> (offset + ChunkSize = Len(Current))
    BY <1>3 DEF IsFin
  <2>2. QED
    BY <2>1, Zenon
<1>5. SegmentOK(s)
  <2>1. s.fin <=> (offset + ChunkSize = Len(Current))
    BY <1>fin
  <2>2. /\ s.payload = SubSeq(sent[s.frag], s.off + 1, s.off + Len(s.payload))
        /\ s.fir <=> (s.off = 0)
    BY <1>3 DEF Current
  <2>3. QED
    BY <1>3, <2>1, <2>2 DEF SegmentOK, Current
<1>6. Pos(s) = SenderPos
  BY <1>1 DEF Pos, SenderPos
<1>7. After(s) = SenderPos'
  <2>1. /\ sent' = sent
        /\ txSeq' = Inc(txSeq)
        /\ sending' = (offset + ChunkSize < Len(Current))
        /\ offset' = IF offset + ChunkSize < Len(Current)
                       THEN offset + ChunkSize ELSE 0
    BY DEF SendSegment
  <2>2. CASE offset + ChunkSize = Len(Current)
    <3>1. ~(offset + ChunkSize < Len(Current)) /\ IsFin(offset + ChunkSize)
      BY <1>3, <1>fin, <2>2
    <3>2. ~sending' /\ s.fin
      BY <1>fin, <2>1, <3>1, Zenon
    <3>3. QED
      BY <2>1, <3>2 DEF After, SenderPos
  <2>3. CASE offset + ChunkSize # Len(Current)
    <3>1. offset + ChunkSize < Len(Current) /\ ~IsFin(offset + ChunkSize)
      BY <1>3, <1>fin, <2>3
    <3>2. sending' /\ ~s.fin /\ offset' = offset + ChunkSize
      BY <1>fin, <2>1, <3>1, Zenon
    <3>3. QED
      BY <1>3, <2>1, <3>2 DEF After, SenderPos
  <2>4. QED
    BY <2>2, <2>3
<1> HIDE DEF s
<1>8. /\ Len(chan) \in Nat
      /\ Len(chan') = Len(chan) + 1
      /\ \A i \in 1 .. Len(chan) : chan'[i] = chan[i]
      /\ chan'[Len(chan) + 1] = s
      /\ chan' # <<>>
  <2>1. /\ Len(chan') = Len(chan) + 1
        /\ \A i \in 1 .. Len(chan) : chan'[i] = chan[i]
        /\ chan'[Len(chan) + 1] = s
    BY <1>1, <1>2, <1>4, AppendProperties DEF TypeOK
  <2>2. Len(chan) \in Nat
    BY <1>1, LenProperties DEF TypeOK
  <2>3. chan' # <<>>
    BY <2>1, <2>2, EmptySeq
  <2>4. QED
    BY <2>1, <2>2, <2>3
<1>9. sent' = sent
  BY DEF SendSegment
<1>10. ChannelOK'
  <2>1. \A i \in 1 .. Len(chan') : SegmentOK(chan'[i])
    BY <1>1, <1>5, <1>8 DEF ChannelOK
  <2>2. (\A i \in 1 .. Len(chan) : SegmentOK(chan[i]))'
    BY <1>9, <2>1 DEF SegmentOK
  <2>3. ASSUME NEW i \in 1 .. Len(chan') - 1
        PROVE  After(chan'[i]) = Pos(chan'[i + 1])
    <3>1. CASE i < Len(chan)
      BY <1>1, <1>8, <2>3, <3>1 DEF ChannelOK
    <3>2. CASE i = Len(chan)
      <4>1. chan # <<>>
        BY <2>3, <3>2, EmptySeq
      <4>2. After(chan[Len(chan)]) = SenderPos
        BY <1>1, <4>1 DEF ChannelOK
      <4>3. QED
        BY <1>6, <1>8, <2>3, <3>2, <4>2
    <3>3. QED
      BY <1>8, <2>3, <3>1, <3>2
  <2>4. After(chan'[Len(chan')]) = SenderPos'
    BY <1>7, <1>8
  <2>5. QED
    BY <2>2, <2>3, <2>4 DEF ChannelOK, After, Pos
<1>11. NextPos' = NextPos
  <2>1. Head(chan') = chan'[1]
    BY <1>8, HeadTailProperties, <1>1, <1>2, <1>4, AppendProperties DEF TypeOK
  <2>2. CASE chan = <<>>
    <3>1. chan'[1] = s
      BY <1>8, <2>2, EmptySeq
    <3>2. QED
      BY <1>6, <1>8, <2>1, <2>2, <3>1 DEF NextPos, Pos
  <2>3. CASE chan # <<>>
    <3>1. Head(chan) = chan[1] /\ Len(chan) > 0
      BY <1>1, <2>3, ChannelType
    <3>2. Head(chan') = Head(chan)
      BY <1>8, <2>1, <3>1
    <3>3. QED
      BY <1>8, <2>3, <3>2 DEF NextPos, Pos
  <2>4. QED
    BY <2>2, <2>3
<1>12. /\ receiver' = receiver /\ burst' = burst
       /\ delivered' = delivered /\ damaged' = damaged
  BY DEF SendSegment
<1>13. ReceiverOK' /\ DeliveredOK' /\ ProgressOK'
  BY <1>1, <1>9, <1>11, <1>12
     DEF History, ReceiverOK, DeliveredOK, ProgressOK, receiver
<1>14. Integrity' /\ NoCollateralLoss'
  BY <1>1, <1>9, <1>11, <1>12
     DEF History, Integrity, NoCollateralLoss, Oversize, IsDelivered
<1>15. QED
  BY <1>10, <1>13, <1>14 DEF History

\* add_segment keeps the receiver in step with the sender, whatever it does
\* with the frame.
LEMMA ReceivePreserves ==
  ASSUME IInv, Receive
  PROVE  ChannelOK' /\ History'
<1>1. TypeOK /\ SenderOK /\ ChannelOK /\ History
  BY DEF IInv, History
<1>2. /\ chan # <<>> /\ chan' = Tail(chan) /\ burst' = 0
      /\ UNCHANGED sender /\ sent' = sent /\ damaged' = damaged
  BY DEF Receive, TakeHead, sender
<1> DEFINE s == Head(chan)
           end == s.off + Len(s.payload)
<1>3. ChannelOK' /\ NextPos' = After(s)
  BY <1>1, <1>2, ChannelShift
<1>4. /\ s \in Segment /\ SegmentOK(s) /\ NextPos = Pos(s)
      /\ sent[s.frag] \in Seq(Byte) /\ Len(sent[s.frag]) \in Nat
      /\ Len(s.payload) \in Nat /\ s.off \in Nat /\ Len(sent) \in Nat
  BY <1>1, <1>2, HeadPiece, LenProperties DEF TypeOK
<1>5. /\ s.frag \in 1 .. Len(sent) /\ NextPos.frag = s.frag
      /\ end \in Nat /\ s.off <= end /\ end <= Len(sent[s.frag])
      /\ s.fin <=> (end = Len(sent[s.frag]))
  BY SMTT(30), <1>4 DEF SegmentOK, Pos
<1>6. CASE s.fin
  <2>1. NextPos'.frag = s.frag + 1 /\ NextPos'.off = 0
    BY <1>3, <1>6 DEF After
  <2>2. ProgressOK'
    BY <2>1 DEF ProgressOK
  <2>3. CASE ~InSequence(s)
    <3>1. ~active' /\ delivered' = delivered
      BY <1>6, <2>3
         DEF Receive, AddSegment, Discard, Mismatch, Overflow, Complete, Extend,
             Reset, receiver, InSequence
    <3>2. s.frag \in damaged \/ Oversize(s.frag)
      BY <1>1, <1>2, <1>4, <1>5, <2>3, RejectedPiece, SizesAssumption
         DEF History, Oversize
    <3>3. ReceiverOK' /\ DeliveredOK' /\ Integrity'
      <4>1. ReceiverOK'
        BY <3>1 DEF ReceiverOK
      <4>2. DeliveredOK'
        <5>1. \A i \in 1 .. Len(delivered) : delivered[i].frag < s.frag
          BY <1>1, <1>5 DEF History, DeliveredOK
        <5>2. \A i \in 1 .. Len(delivered) : delivered[i].frag \in Int
          BY <1>1, <1>4 DEF History, Integrity
        <5>3. s.frag \in Int
          BY <1>5
        <5>4. \A i \in 1 .. Len(delivered) : delivered[i].frag < s.frag + 1
          BY <5>1, <5>2, <5>3
        <5>5. QED
          BY <2>1, <3>1, <5>4 DEF DeliveredOK
      <4>3. Integrity'
        BY <1>1, <1>2, <3>1 DEF History, Integrity
      <4>4. QED
        BY <4>1, <4>2, <4>3
    <3>4. NoCollateralLoss'
      BY SMTT(30), <1>1, <1>2, <1>5, <2>1, <3>1, <3>2
         DEF History, NoCollateralLoss, Oversize, IsDelivered
    <3>5. QED
      BY <1>3, <2>2, <3>3, <3>4 DEF History
  <2>4. CASE InSequence(s) /\ TooLong(Assembled(s))
    <3>1. ~active' /\ delivered' = delivered
      BY <2>4
         DEF Receive, AddSegment, Discard, Mismatch, Overflow, Complete, Extend,
             Reset, receiver, InSequence
    <3>2. Oversize(s.frag)
      BY <1>1, <1>2, <1>5, <1>6, <2>4, AssembledPiece DEF History, Oversize, TooLong
    <3>3. ReceiverOK' /\ DeliveredOK' /\ Integrity'
      <4>1. ReceiverOK'
        BY <3>1 DEF ReceiverOK
      <4>2. DeliveredOK'
        <5>1. \A i \in 1 .. Len(delivered) : delivered[i].frag < s.frag
          BY <1>1, <1>5 DEF History, DeliveredOK
        <5>2. \A i \in 1 .. Len(delivered) : delivered[i].frag \in Int
          BY <1>1, <1>4 DEF History, Integrity
        <5>3. s.frag \in Int
          BY <1>5
        <5>4. \A i \in 1 .. Len(delivered) : delivered[i].frag < s.frag + 1
          BY <5>1, <5>2, <5>3
        <5>5. QED
          BY <2>1, <3>1, <5>4 DEF DeliveredOK
      <4>3. Integrity'
        BY <1>1, <1>2, <3>1 DEF History, Integrity
      <4>4. QED
        BY <4>1, <4>2, <4>3
    <3>4. NoCollateralLoss'
      BY <1>1, <1>2, <1>5, <2>1, <3>1, <3>2
         DEF History, NoCollateralLoss, Oversize, IsDelivered
    <3>5. QED
      BY <1>3, <2>2, <3>3, <3>4 DEF History
  <2>5. CASE InSequence(s) /\ ~TooLong(Assembled(s))
    <3> DEFINE d == [frag |-> s.frag, data |-> Assembled(s)]
    <3>1. ~active' /\ delivered' = Append(delivered, d)
      BY <1>6, <2>5
         DEF Receive, AddSegment, Discard, Mismatch, Overflow, Complete, Extend,
             Reset, InSequence
    <3>2. d.data = sent[d.frag]
      BY <1>1, <1>2, <1>4, <1>5, <1>6, <2>5, AssembledPiece, PieceAll DEF History
    <3>3. d.frag = s.frag /\ d \in [frag : Nat \ {0}, data : Seq(Byte)]
      BY <1>1, <1>4, AssembledType DEF Segment
    <3> HIDE DEF d
    <3>4. /\ Len(delivered) \in Nat
          /\ Len(delivered') = Len(delivered) + 1
          /\ \A i \in 1 .. Len(delivered) : delivered'[i] = delivered[i]
          /\ delivered'[Len(delivered) + 1] = d
      BY <1>1, <3>1, <3>3, AppendProperties, LenProperties DEF TypeOK
    <3>5. \A i \in 1 .. Len(delivered') :
             i <= Len(delivered) \/ i = Len(delivered')
      BY <3>4
    <3>6. \A i \in 1 .. Len(delivered) :
            /\ delivered[i].frag \in 1 .. Len(sent)
            /\ delivered[i].frag < s.frag
            /\ delivered[i].data = sent[delivered[i].frag]
      BY <1>1, <1>5 DEF History, DeliveredOK, Integrity
    <3>7. ReceiverOK'
      BY <3>1 DEF ReceiverOK
    <3>8. DeliveredOK'
      BY SMTT(30), <1>5, <2>1, <3>3, <3>4, <3>5, <3>6 DEF DeliveredOK
    <3>9. Integrity'
      <4>1. \A i \in 1 .. Len(delivered') :
              /\ delivered'[i].frag \in 1 .. Len(sent')
              /\ delivered'[i].data = sent'[delivered'[i].frag]
        BY SMTT(30), <1>2, <1>5, <3>2, <3>3, <3>4, <3>5, <3>6
      <4>2. ASSUME NEW i \in 1 .. Len(delivered'), NEW j \in 1 .. Len(delivered'), i < j
            PROVE  delivered'[i].frag < delivered'[j].frag
        <5>1. i <= Len(delivered) /\ delivered'[i] = delivered[i]
          BY <3>4, <4>2
        <5>2. CASE j <= Len(delivered)
          BY <1>1, <3>4, <4>2, <5>1, <5>2 DEF History, Integrity
        <5>3. CASE j = Len(delivered')
          BY <3>3, <3>4, <3>6, <4>2, <5>1, <5>3
        <5>4. QED
          BY <3>5, <5>2, <5>3
      <4>3. QED
        BY <4>1, <4>2 DEF Integrity
    <3>10. NoCollateralLoss'
      <4>1. ASSUME NEW k \in 1 .. Len(sent), k < s.frag
            PROVE  (k \in damaged \/ Oversize(k) \/ IsDelivered(k))'
        <5>1. k \in damaged \/ Oversize(k) \/ IsDelivered(k)
          BY <1>1, <1>5, <4>1 DEF History, NoCollateralLoss
        <5>2. Oversize(k) => Oversize(k)'
          BY <1>2 DEF Oversize
        <5>3. IsDelivered(k) => IsDelivered(k)'
          BY <3>4 DEF IsDelivered
        <5>4. QED
          BY <1>2, <5>1, <5>2, <5>3
      <4>2. \E i \in 1 .. Len(delivered') : delivered'[i].frag = s.frag
        BY <3>3, <3>4
      <4>3. ASSUME NEW k \in 1 .. Len(sent'), k < NextPos'.frag
            PROVE  k \in damaged' \/ Oversize(k)' \/ IsDelivered(k)'
        <5>1. CASE k = s.frag
          BY <4>2, <5>1 DEF IsDelivered
        <5>2. CASE k < s.frag
          BY <1>2, <4>1, <5>2
        <5>3. QED
          BY <1>2, <1>4, <1>5, <2>1, <4>3, <5>1, <5>2
      <4>4. QED
        BY <4>3 DEF NoCollateralLoss
    <3>11. QED
      BY <1>3, <2>2, <3>7, <3>8, <3>9, <3>10 DEF History
  <2>6. QED
    BY <2>3, <2>4, <2>5
<1>7. CASE ~s.fin
  <2>1. /\ NextPos'.frag = s.frag /\ NextPos'.off = end
        /\ NextPos'.seq = Inc(s.seq)
    BY <1>3, <1>7 DEF After
  <2>2. delivered' = delivered
    BY <1>7
       DEF Receive, AddSegment, Discard, Mismatch, Overflow, Complete, Extend
  <2>3. DeliveredOK' /\ Integrity' /\ NoCollateralLoss'
    BY <1>1, <1>2, <1>5, <2>1, <2>2
       DEF History, DeliveredOK, Integrity, NoCollateralLoss, Oversize, IsDelivered
  <2>4. CASE ~InSequence(s)
    <3>1. ~active'
      BY <2>4
         DEF Receive, AddSegment, Discard, Mismatch, Overflow, Complete, Extend,
             Reset, receiver, InSequence
    <3>2. s.frag \in damaged \/ s.off > MaxFragment
      BY <1>1, <1>2, <2>4, RejectedPiece DEF History
    <3>3. ReceiverOK' /\ ProgressOK'
      BY <1>2, <1>4, <1>5, <2>1, <3>1, <3>2, SizesAssumption DEF ReceiverOK, ProgressOK
    <3>4. QED
      BY <1>3, <2>3, <3>3 DEF History
  <2>5. CASE InSequence(s) /\ TooLong(Assembled(s))
    <3>1. ~active'
      BY <2>5
         DEF Receive, AddSegment, Discard, Mismatch, Overflow, Complete, Extend,
             Reset, receiver, InSequence
    <3>2. end > MaxFragment
      BY <1>1, <1>2, <2>5, AssembledPiece DEF History, TooLong
    <3>3. ReceiverOK' /\ ProgressOK'
      BY <1>5, <2>1, <3>1, <3>2, SizesAssumption DEF ReceiverOK, ProgressOK
    <3>4. QED
      BY <1>3, <2>3, <3>3 DEF History
  <2>6. CASE InSequence(s) /\ ~TooLong(Assembled(s))
    <3>1. active' /\ buffer' = Assembled(s) /\ expected' = Inc(s.seq)
      BY <1>7, <2>6
         DEF Receive, AddSegment, Discard, Mismatch, Overflow, Complete, Extend,
             InSequence
    <3>2. Inc(s.seq) \in SeqNum /\ Advance(Inc(s.seq), 0) = Inc(s.seq)
      BY <1>4, IncValue, AdvanceZero DEF Segment
    <3>3. end > 0
      <4>1. Len(s.payload) > 0
        BY <1>4, <1>7 DEF SegmentOK
      <4>2. QED
        BY <1>4, <4>1
    <3>4. buffer' = SubSeq(sent[s.frag], 1, end)
      BY <1>1, <1>2, <2>6, <3>1, AssembledPiece DEF History
    <3>5. ReceiverOK'
      <4>1. NextPos'.seq = Advance(expected', burst')
        BY <1>2, <2>1, <3>1, <3>2
      <4>2. NextPos'.off > 0 /\ buffer' = SubSeq(sent'[NextPos'.frag], 1, NextPos'.off)
        BY <1>2, <2>1, <3>3, <3>4
      <4>3. expected' \in SeqNum
        BY <3>1, <3>2
      <4>4. QED
        BY <4>1, <4>2, <4>3 DEF ReceiverOK, Advance
    <3>6. ProgressOK'
      BY <1>2, <3>1 DEF ProgressOK
    <3>7. QED
      BY <1>3, <2>3, <3>5, <3>6 DEF History
  <2>7. QED
    BY <2>4, <2>5, <2>6
<1>8. QED
  BY <1>3, <1>6, <1>7

\* A lost frame moves the sequence number on, and its fragment is damaged.
LEMMA LosePreserves ==
  ASSUME IInv, Lose
  PROVE  ChannelOK' /\ History'
<1>1. TypeOK /\ SenderOK /\ ChannelOK /\ History
  BY DEF IInv, History
<1> DEFINE s == Head(chan)
<1>2. /\ chan # <<>> /\ chan' = Tail(chan)
      /\ burst < MaxBurst /\ burst' = burst + 1
      /\ damaged' = damaged \cup {s.frag}
      /\ UNCHANGED sender /\ sent' = sent
      /\ active' = active /\ buffer' = buffer /\ expected' = expected
      /\ delivered' = delivered
  BY DEF Lose, sender, receiver
<1>3. ChannelOK' /\ NextPos' = After(s)
  BY <1>1, <1>2, ChannelShift
<1>4. s \in Segment /\ SegmentOK(s) /\ NextPos = Pos(s) /\ burst \in Nat
  BY <1>1, <1>2, HeadPiece DEF TypeOK
<1>5. /\ s.frag \in 1 .. Len(sent) /\ NextPos.frag = s.frag /\ NextPos.seq = s.seq
      /\ NextPos'.frag \in Nat
      /\ s.frag <= NextPos'.frag /\ NextPos'.frag <= s.frag + 1
      /\ NextPos'.off > 0 => NextPos'.frag = s.frag
      /\ NextPos'.seq = Inc(s.seq)
      /\ Len(sent) \in Nat
  BY SMTT(30), <1>1, <1>3, <1>4, LenProperties DEF SegmentOK, Pos, After, TypeOK
<1>6. ReceiverOK'
  <2>1. burst' # 0
    BY <1>2, <1>4
  <2>2. ASSUME active
        PROVE  expected \in SeqNum /\ Inc(s.seq) = Advance(expected, burst + 1)
    <3>1. expected \in SeqNum /\ s.seq = Advance(expected, burst)
      BY <1>1, <1>5, <2>2 DEF History, ReceiverOK
    <3>2. QED
      BY <1>2, <1>4, <3>1, AdvanceOne, SeqAssumption
  <2>3. active' => expected' \in SeqNum /\ NextPos'.seq = Advance(expected', burst')
    BY <1>2, <1>5, <2>2
  <2>4. QED
    BY <2>1, <2>3 DEF ReceiverOK, Advance
<1>7. DeliveredOK' /\ Integrity'
  <2>1. \A i \in 1 .. Len(delivered) :
          delivered[i].frag \in 1 .. Len(sent) /\ delivered[i].frag < s.frag
    BY <1>1, <1>5 DEF History, DeliveredOK, Integrity
  <2>2. DeliveredOK'
    BY <1>2, <1>5, <2>1 DEF DeliveredOK
  <2>3. Integrity'
    BY <1>1, <1>2 DEF History, Integrity
  <2>4. QED
    BY <2>2, <2>3
<1>8. ProgressOK'
  BY <1>2, <1>5 DEF ProgressOK
<1>9. NoCollateralLoss'
  BY <1>1, <1>2, <1>5 DEF History, NoCollateralLoss, Oversize, IsDelivered
<1>10. QED
  BY <1>3, <1>6, <1>7, <1>8, <1>9 DEF History

\* A new connection starts with an empty channel, an idle receiver and a
\* sender at the start of a fragment.
LEMMA ReconnectPreserves ==
  ASSUME IInv, Reconnect, SafeReuse
  PROVE  ChannelOK' /\ History'
<1>1. TypeOK /\ SenderOK /\ ChannelOK /\ History
  BY DEF IInv, History
<1>2. /\ ~sending' /\ chan' = <<>> /\ sent' = sent /\ delivered' = delivered
      /\ damaged' = damaged \cup (NextPos.frag .. Len(sent))
      /\ ~active'
  BY DEF Reconnect, SafeReuse, Reset
<1>3. NextPos'.frag = Len(sent) + 1 /\ NextPos'.off = 0
  BY <1>2 DEF NextPos, SenderPos
<1>4. Len(sent) \in Nat /\ NextPos.frag \in Nat
  BY <1>1, NextPosType
<1>5. ChannelOK'
  <2>1. Len(chan') = 0
    BY <1>2, EmptySeq
  <2>2. QED
    BY <1>2, <2>1 DEF ChannelOK
<1>6. ReceiverOK' /\ ProgressOK'
  BY <1>2, <1>3 DEF ReceiverOK, ProgressOK
<1>7. DeliveredOK' /\ Integrity'
  BY <1>1, <1>2, <1>3, <1>4 DEF History, DeliveredOK, Integrity
<1>8. NoCollateralLoss'
  BY <1>1, <1>2, <1>4 DEF History, NoCollateralLoss, Oversize, IsDelivered
<1>9. QED
  BY <1>5, <1>6, <1>7, <1>8 DEF History

LEMMA NextInvariant ==
  ASSUME SafeReuse
  PROVE  IInv /\ [Next]_vars => IInv'
<1> SUFFICES ASSUME IInv, [Next]_vars PROVE IInv'
  OBVIOUS
<1>1. TypeOK' /\ SenderOK'
  BY NextType DEF IInv
<1>2. ChannelOK' /\ History'
  <2>1. ASSUME NEW f \in Fragments, Submit(f) PROVE ChannelOK' /\ History'
    BY <2>1, SubmitPreserves
  <2>2. CASE SendSegment
    BY <2>2, SendSegmentPreserves
  <2>3. CASE Receive
    BY <2>3, ReceivePreserves
  <2>4. CASE Lose
    BY <2>4, LosePreserves
  <2>5. CASE Reconnect
    BY <2>5, ReconnectPreserves, SafeReuse
  <2>6. CASE UNCHANGED vars
    BY <2>6
       DEF vars, sender, receiver, IInv, History, ChannelOK, SegmentOK, After, Pos,
           SenderPos, NextPos, ReceiverOK, DeliveredOK, ProgressOK, Integrity,
           NoCollateralLoss, Oversize, IsDelivered
  <2>7. QED
    BY <2>1, <2>2, <2>3, <2>4, <2>5, <2>6 DEF Next
<1>3. QED
  BY <1>1, <1>2 DEF IInv, History

\* The inductive invariant holds of every run whose connections are fresh.
THEOREM Invariance ==
  ASSUME SafeReuse
  PROVE  Spec => []IInv
<1>1. IInv /\ [Next]_vars => IInv'
  BY NextInvariant, SafeReuse
<1>2. QED
  BY <1>1, InitInvariant, PTL DEF Spec

\* No fragment handed to the application mixes bytes of two, and none is
\* handed up twice or out of order (reassembler.py:45-76).
THEOREM FragmentsIntact ==
  ASSUME SafeReuse
  PROVE  Spec => []Integrity
<1>1. IInv => Integrity
  BY DEF IInv
<1>2. QED
  BY <1>1, Invariance, SafeReuse, PTL

\* A lost frame costs its own fragment only: the reassembler is ready for the
\* first frame of the next one (reassembler.py:45-63).
THEOREM LossContained ==
  ASSUME SafeReuse
  PROVE  Spec => []NoCollateralLoss
<1>1. IInv => NoCollateralLoss
  BY DEF IInv
<1>2. QED
  BY <1>1, Invariance, SafeReuse, PTL

-----------------------------------------------------------------------------
(* Refinement of the fragment service *)

\* A frame that completes a fragment is a delivery of the service.
LEMMA CompleteRefines ==
  ASSUME IInv, Receive, delivered' # delivered
  PROVE  \E k \in 1 .. Len(sent) : Service!Deliver(k)
<1>1. TypeOK /\ SenderOK /\ ChannelOK /\ ReceiverOK /\ DeliveredOK
  BY DEF IInv
<1>2. chan # <<>> /\ sent' = sent
  BY DEF Receive, TakeHead, sender
<1> DEFINE s == Head(chan)
<1>3. Complete(s)
  BY DEF Receive, AddSegment, Discard, Mismatch, Overflow, Extend
<1>4. InSequence(s) /\ s.fin
  BY <1>3 DEF Complete
<1>5. /\ s.frag \in 1 .. Len(sent) /\ NextPos.frag = s.frag
      /\ Assembled(s) = sent[s.frag]
  <2>1. /\ SegmentOK(s) /\ NextPos = Pos(s) /\ sent[s.frag] \in Seq(Byte)
    BY <1>1, <1>2, HeadPiece
  <2>2. Assembled(s) = SubSeq(sent[s.frag], 1, s.off + Len(s.payload))
    BY <1>1, <1>2, <1>4, AssembledPiece
  <2>3. s.off + Len(s.payload) = Len(sent[s.frag])
    BY <1>4, <2>1 DEF SegmentOK
  <2>4. QED
    BY <2>1, <2>2, <2>3, PieceAll DEF SegmentOK, Pos
<1>6. s.frag > Service!LastDelivered
  <2>1. Len(sent) \in Nat /\ Len(delivered) \in Nat /\ (delivered # <<>> => Len(delivered) > 0)
    BY <1>1, LenProperties, EmptySeq DEF TypeOK
  <2>2. CASE delivered = <<>>
    BY <1>5, <2>1, <2>2 DEF Service!LastDelivered
  <2>3. CASE delivered # <<>>
    BY <1>1, <1>5, <2>1, <2>3 DEF DeliveredOK, Service!LastDelivered
  <2>4. QED
    BY <2>2, <2>3
<1>7. delivered' = Append(delivered, [frag |-> s.frag, data |-> sent[s.frag]])
  BY <1>3, <1>5 DEF Complete
<1>8. QED
  BY <1>2, <1>5, <1>6, <1>7 DEF Service!Deliver

LEMMA StepRefines ==
  ASSUME IInv, [Next]_vars
  PROVE  [Service!Next]_(Service!svars)
<1>1. ASSUME NEW f \in Fragments, Submit(f) PROVE Service!Submit(f)
  BY <1>1 DEF Submit, Service!Submit
<1>2. CASE SendSegment
  BY <1>2 DEF SendSegment, Service!svars
<1>3. CASE Receive
  <2>1. sent' = sent
    BY <1>3 DEF Receive, TakeHead, sender
  <2>2. CASE delivered' = delivered
    BY <2>1, <2>2 DEF Service!svars
  <2>3. CASE delivered' # delivered
    BY <1>3, <2>3, CompleteRefines DEF Service!Next
  <2>4. QED
    BY <2>2, <2>3
<1>4. CASE Lose
  BY <1>4 DEF Lose, sender, Service!svars
<1>5. CASE Reconnect
  BY <1>5 DEF Reconnect, Service!svars
<1>6. CASE UNCHANGED vars
  BY <1>6 DEF vars, sender, Service!svars
<1>7. QED
  BY <1>1, <1>2, <1>3, <1>4, <1>5, <1>6 DEF Next, Service!Next

\* The segmenter, the lossy channel and the reassembler together implement
\* the fragment service (transport/layer.py:13-18).
THEOREM Refinement ==
  ASSUME SafeReuse
  PROVE  Spec => ServiceSpec
<1>1. Init => Service!Init
  BY DEF Init, Service!Init
<1>2. IInv /\ [Next]_vars => [Service!Next]_(Service!svars)
  BY StepRefines
<1>3. QED
  BY <1>1, <1>2, Invariance, SafeReuse, PTL DEF Spec, ServiceSpec, Service!Spec
=============================================================================

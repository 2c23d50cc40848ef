----------------------------- MODULE Transport -----------------------------
(* One direction of the transport layer: the Segmenter of one peer, the    *)
(* channel of link frames, and the Reassembler of the other peer           *)
(* (transport/segmenter.py, reassembler.py, layer.py).                     *)
(*                                                                         *)
(* The channel is a TCP stream: frames keep their order.  The link layer   *)
(* drops a frame whose CRC fails (link/layer.py:126-129) and a connection  *)
(* may break and be opened again with the same stack objects.              *)
EXTENDS Integers, Sequences

CONSTANTS
  Byte,             \* the bytes of a fragment
  Fragments,        \* the fragments the application submits
  MaxPayload,       \* MAX_PAYLOAD_PER_SEGMENT (249)
  MaxFragment,      \* MAX_FRAGMENT_SIZE (2048)
  SeqMod,           \* TH_SEQ_MASK + 1 (64)
  MaxBurst,         \* frames lost in a row before one gets through
  Reconnects,       \* may the connection break and be opened again?
  ResetOnReconnect, \* is TransportLayer.reset() called when it is?
  MaxSent           \* bound on the number of fragments submitted

ASSUME FragmentsAssumption == Fragments \subseteq Seq(Byte)
ASSUME SizesAssumption ==
  /\ MaxPayload \in Nat \ {0}
  /\ MaxFragment \in Nat
  /\ MaxSent \in Nat
\* A burst of SeqMod lost frames brings the sequence number back to the
\* expected one: no check of the receiver can see it.
ASSUME SeqAssumption == SeqMod \in Nat \ {0} /\ MaxBurst \in Nat /\ MaxBurst < SeqMod
ASSUME FlagsAssumption == Reconnects \in BOOLEAN /\ ResetOnReconnect \in BOOLEAN

VARIABLES
  sent,       \* history: the fragments submitted so far
  sending,    \* is segment() in its loop over the last of them?
  offset,     \* segment()'s local offset
  txSeq,      \* Segmenter._sequence
  chan,       \* link frames in flight, oldest first
  active,     \* Reassembler._active
  buffer,     \* Reassembler._buffer
  expected,   \* Reassembler._expected_seq
  burst,      \* history: frames lost since the last one received
  delivered,  \* history: the fragments passed to on_fragment
  damaged     \* history: numbers of the fragments that lost a frame

sender   == <<sent, sending, offset, txSeq>>
receiver == <<active, buffer, expected>>
vars     == <<sender, chan, receiver, burst, delivered, damaged>>

None == -1   \* Python's None in _expected_seq

SeqNum == 0 .. SeqMod - 1

\* frag and off are history: which bytes of which fragment the payload is.
Segment == [fir : BOOLEAN, fin : BOOLEAN, seq : SeqNum, payload : Seq(Byte),
            frag : Nat \ {0}, off : Nat]

IncMutant(q) == q + 1
Inc(q) == (q + 1) % SeqMod      \* (seq + 1) & TH_SEQ_MASK

-----------------------------------------------------------------------------
(* The sender *)

Current == sent[Len(sent)]

ChunkSize ==
  IF Len(Current) - offset < MaxPayload THEN Len(Current) - offset ELSE MaxPayload

IsFinMutant(end) == end > Len(Current)
IsFin(end) == end >= Len(Current)

\* send_fragment() is called; it does not return before the loop is done.
Submit(f) ==
  /\ ~sending
  /\ Len(sent) < MaxSent
  /\ sent' = Append(sent, f)
  /\ sending' = TRUE
  /\ offset' = 0
  /\ UNCHANGED <<txSeq, chan, receiver, burst, delivered, damaged>>

\* One iteration of the loop of segment(), with the frame it ends up in; an
\* empty fragment gets one empty segment.
SendSegment ==
  LET end == offset + ChunkSize
  IN /\ sending
     /\ chan' = Append(chan, [fir     |-> offset = 0,
                              fin     |-> IsFin(end),
                              seq     |-> txSeq,
                              payload |-> SubSeq(Current, offset + 1, end),
                              frag    |-> Len(sent),
                              off     |-> offset])
     /\ txSeq' = Inc(txSeq)
     /\ sending' = (end < Len(Current))
     /\ offset' = IF end < Len(Current) THEN end ELSE 0
     /\ UNCHANGED <<sent, receiver, burst, delivered, damaged>>

-----------------------------------------------------------------------------
(* The receiver: one call of add_segment for the oldest frame *)

Reset ==
  /\ active' = FALSE
  /\ buffer' = <<>>
  /\ expected' = None

InSequenceMutant(s) == s.fir \/ active
InSequence(s) == s.fir \/ (active /\ s.seq = expected)

AssembledMutant(s) == buffer \o s.payload
Assembled(s) == IF s.fir THEN s.payload ELSE buffer \o s.payload

TooLongMutant(b) == Len(b) >= MaxFragment
TooLong(b) == Len(b) > MaxFragment

TakeHead ==
  /\ chan # <<>>
  /\ chan' = Tail(chan)
  /\ burst' = 0
  /\ UNCHANGED <<sender, damaged>>

Discard(s) ==
  /\ ~s.fir
  /\ ~active
  /\ UNCHANGED <<receiver, delivered>>

MismatchMutant(s) ==
  /\ ~s.fir
  /\ active
  /\ s.seq # expected
  /\ UNCHANGED <<receiver, delivered>>

Mismatch(s) ==
  /\ ~s.fir
  /\ active
  /\ s.seq # expected
  /\ Reset
  /\ UNCHANGED delivered

Overflow(s) ==
  /\ InSequence(s)
  /\ TooLong(Assembled(s))
  /\ Reset
  /\ UNCHANGED delivered

Complete(s) ==
  /\ InSequence(s)
  /\ ~TooLong(Assembled(s))
  /\ s.fin
  /\ Reset
  /\ delivered' = Append(delivered, [frag |-> s.frag, data |-> Assembled(s)])

Extend(s) ==
  /\ InSequence(s)
  /\ ~TooLong(Assembled(s))
  /\ ~s.fin
  /\ active' = TRUE
  /\ buffer' = Assembled(s)
  /\ expected' = Inc(s.seq)
  /\ UNCHANGED delivered

AddSegment(s) ==
  \/ Discard(s)
  \/ Mismatch(s)
  \/ Overflow(s)
  \/ Complete(s)
  \/ Extend(s)

Receive == TakeHead /\ AddSegment(Head(chan))

-----------------------------------------------------------------------------
(* The environment *)

\* The frame the receiver takes next: its fragment, offset and number.
SenderPos ==
  [frag |-> IF sending THEN Len(sent) ELSE Len(sent) + 1,
   off  |-> IF sending THEN offset ELSE 0,
   seq  |-> txSeq]

Pos(s) == [frag |-> s.frag, off |-> s.off, seq |-> s.seq]

NextPos == IF chan = <<>> THEN SenderPos ELSE Pos(Head(chan))

\* The link layer drops a frame whose body CRC is wrong.
Lose ==
  /\ chan # <<>>
  /\ burst < MaxBurst
  /\ chan' = Tail(chan)
  /\ burst' = burst + 1
  /\ damaged' = damaged \cup {Head(chan).frag}
  /\ UNCHANGED <<sender, receiver, delivered>>

\* The connection breaks and is opened again.  Frames in flight are gone.  The
\* peer either kept its Segmenter or is a new process with a new one.
Reconnect ==
  /\ Reconnects
  /\ ~sending
  /\ chan' = <<>>
  /\ txSeq' \in {txSeq, 0}
  /\ burst' = 0
  /\ damaged' = damaged \cup (NextPos.frag .. Len(sent))
  /\ IF ResetOnReconnect THEN Reset ELSE UNCHANGED receiver
  /\ UNCHANGED <<sent, sending, offset, delivered>>

-----------------------------------------------------------------------------
Init ==
  /\ sent = <<>> /\ sending = FALSE /\ offset = 0 /\ txSeq = 0
  /\ chan = <<>>
  /\ active = FALSE /\ buffer = <<>> /\ expected = None
  /\ burst = 0 /\ delivered = <<>> /\ damaged = {}

Next ==
  \/ \E f \in Fragments : Submit(f)
  \/ SendSegment
  \/ Receive
  \/ Lose
  \/ Reconnect

Spec == Init /\ [][Next]_vars

\* A call of send_fragment runs to its end, and the reader loop takes what the
\* socket holds.  Losing frames and reconnecting are never required.
Fairness == WF_vars(SendSegment) /\ WF_vars(Receive)

FairSpec == Spec /\ Fairness

-----------------------------------------------------------------------------
(* Properties *)

\* Every variable has its type; a buffer never holds more than a fragment.
TypeOK ==
  /\ sent \in Seq(Fragments) /\ Len(sent) <= MaxSent
  /\ sending \in BOOLEAN
  /\ offset \in Nat
  /\ txSeq \in SeqNum
  /\ chan \in Seq(Segment)
  /\ active \in BOOLEAN
  /\ buffer \in Seq(Byte) /\ Len(buffer) <= MaxFragment
  /\ expected \in SeqNum \cup {None}
  /\ burst \in 0 .. MaxBurst
  /\ delivered \in Seq([frag : Nat \ {0}, data : Seq(Byte)])
  /\ damaged \subseteq Nat

\* What on_fragment gets is what send_fragment was given, whole: no fragment
\* is assembled from pieces of two, and none is handed up twice or late.
Integrity ==
  /\ \A i \in 1 .. Len(delivered) :
       /\ delivered[i].frag \in 1 .. Len(sent)
       /\ delivered[i].data = sent[delivered[i].frag]
  /\ \A i, j \in 1 .. Len(delivered) :
       i < j => delivered[i].frag < delivered[j].frag

IsDelivered(k) == \E i \in 1 .. Len(delivered) : delivered[i].frag = k

Oversize(k) == Len(sent[k]) > MaxFragment

\* A fragment whose last frame is behind the receiver has been handed up,
\* unless one of its own frames was lost or it is longer than MAX_FRAGMENT_SIZE:
\* a loss in one fragment never costs the one after it.
NoCollateralLoss ==
  \A k \in 1 .. Len(sent) :
    k < NextPos.frag => \/ k \in damaged
                        \/ Oversize(k)
                        \/ IsDelivered(k)

Service == INSTANCE FragmentService

\* The transport layer implements the fragment service.
ServiceSpec == Service!Spec

\* Every submitted fragment is in the end handed up, unless it lost a frame
\* or is too long: the receiver is never stuck in a stale assembly.
Resolved ==
  \A k \in 1 .. MaxSent :
    k <= Len(sent) ~> /\ k <= Len(sent)
                      /\ k \in damaged \/ Oversize(k) \/ IsDelivered(k)

-----------------------------------------------------------------------------
(* The inductive invariant *)

\* Sequence number q advanced by n < SeqMod frames.
Advance(q, n) == IF q + n < SeqMod THEN q + n ELSE q + n - SeqMod

\* The position after segment s.
After(s) ==
  [frag |-> IF s.fin THEN s.frag + 1 ELSE s.frag,
   off  |-> IF s.fin THEN 0 ELSE s.off + Len(s.payload),
   seq  |-> Inc(s.seq)]

SegmentOK(s) ==
  /\ s.frag \in 1 .. Len(sent)
  /\ s.fir <=> (s.off = 0)
  /\ s.off + Len(s.payload) <= Len(sent[s.frag])
  /\ s.fin <=> (s.off + Len(s.payload) = Len(sent[s.frag]))
  /\ s.payload = SubSeq(sent[s.frag], s.off + 1, s.off + Len(s.payload))
  /\ s.fin \/ Len(s.payload) > 0

SenderOK ==
  /\ ~sending => offset = 0
  /\ sending => Len(sent) > 0 /\ (offset = 0 \/ offset < Len(Current))

\* The frames in flight are consecutive pieces, and the sender's next piece
\* follows the last of them.
ChannelOK ==
  /\ \A i \in 1 .. Len(chan) : SegmentOK(chan[i])
  /\ \A i \in 1 .. Len(chan) - 1 : After(chan[i]) = Pos(chan[i + 1])
  /\ chan # <<>> => After(chan[Len(chan)]) = SenderPos

\* An assembly in progress is the head of the fragment the next frame belongs
\* to, unless frames were lost; then the sequence number shows how many.
ReceiverOK ==
  /\ active => expected \in SeqNum /\ NextPos.seq = Advance(expected, burst)
  /\ active /\ burst = 0 =>
       /\ NextPos.off > 0
       /\ buffer = SubSeq(sent[NextPos.frag], 1, NextPos.off)

\* What was handed up is behind the receiver.
DeliveredOK ==
  \A i \in 1 .. Len(delivered) : delivered[i].frag < NextPos.frag

\* A receiver in the middle of an undamaged fragment is assembling it.
ProgressOK ==
  NextPos.off > 0 /\ NextPos.frag \notin damaged /\ NextPos.off <= MaxFragment
    => active /\ burst = 0

IInv ==
  /\ TypeOK
  /\ SenderOK
  /\ ChannelOK
  /\ ReceiverOK
  /\ DeliveredOK
  /\ ProgressOK
  /\ Integrity
  /\ NoCollateralLoss
=============================================================================

---------------------------- MODULE LinkReceiver ----------------------------
(* The receiver of the link layer: it cuts the byte stream of a connection  *)
(* into frames whose header and blocks carry CRCs, and finds the next frame *)
(* again after damage (link/layer.py, link/frame.py).                       *)
(*                                                                          *)
(* A CRC is one symbol of the stream, equal to the CRC of what it covers    *)
(* and of nothing else: the model has no undetected damage.  Control,       *)
(* destination and source are one symbol too, the number of the frame.      *)
EXTENDS Integers, Sequences

CONSTANTS
  Frame,            \* the frames a peer may send
  Octet,            \* the values of user data octets
  Sync1, Sync2,     \* SYNC_1, SYNC_2
  Noise,            \* an octet that damage leaves in the stream
  MinLength,        \* MIN_LENGTH_FIELD (5)
  MaxUserData,      \* MAX_USER_DATA (250)
  BlockSize,        \* DATA_BLOCK_SIZE (16)
  ResetOnReconnect, \* is LinkLayer.reset() called for a new connection?
  MaxSent, MaxErrors, MaxReconnects   \* bounds of the environment

ASSUME FrameAssumption == Frame \subseteq [length : Nat, data : Seq(Octet)]
ASSUME OctetAssumption == {Sync1, Sync2} \subseteq Octet /\ Sync1 # Sync2
ASSUME LinkSizesAssumption ==
  /\ MinLength \in Nat /\ MaxUserData \in Nat
  /\ BlockSize \in Nat \ {0}
  /\ MaxSent \in Nat /\ MaxErrors \in Nat /\ MaxReconnects \in Nat
ASSUME ResetAssumption == ResetOnReconnect \in BOOLEAN

VARIABLES
  sent,       \* history: all frames the peer sent
  ends,       \* history: for each of them, the symbols sent up to its end
  wire,       \* symbols in flight
  damaged,    \* history: numbers of frames hit by damage or a broken connection
  errors, reconnects,   \* history: how much damage was done
  state,      \* LinkLayer._state
  buf,        \* LinkLayer._buf
  header,     \* LinkLayer._header
  bodySize,   \* LinkLayer._expected_body_size
  working,    \* is data_received() in its loop?
  delivered   \* history: frames passed to on_frame

environment == <<sent, ends, wire, damaged, errors, reconnects>>
receiver    == <<state, buf, header, bodySize>>
vars        == <<environment, receiver, working, delivered>>

NoHeader == [length |-> 0, number |-> 0]

-----------------------------------------------------------------------------
(* The stream *)

\* Symbols: octets, numbers (the length field and the number of a frame) and
\* CRCs.  No symbol of one kind is one of another.
O(octet) == <<"octet", octet>>
N(n) == <<"number", n>>
Crc(block) == <<"crc", block>>

Shorter(m, n) == IF m < n THEN m ELSE n

DataBlock(data, i) ==
  LET first == (i - 1) * BlockSize
  IN [j \in 1 .. Shorter(BlockSize, Len(data) - first) |-> O(data[first + j])]

DataBlockCount(data) == (Len(data) + BlockSize - 1) \div BlockSize

\* Every block of 16 octets is followed by its CRC.
Blocks(data) ==
  [p \in 1 .. Len(data) + DataBlockCount(data) |->
     LET block == DataBlock(data, ((p - 1) \div (BlockSize + 1)) + 1)
         j == ((p - 1) % (BlockSize + 1)) + 1
     IN IF j <= Len(block) THEN block[j] ELSE Crc(block)]

HeaderBlock(length, number) == <<O(Sync1), O(Sync2), N(length), N(number)>>

\* HEADER_SIZE: the header block and its CRC.
HeaderSize == 5

Serialize(f, number) ==
  Append(HeaderBlock(f.length, number), Crc(HeaderBlock(f.length, number))) \o Blocks(f.data)

\* LinkFrame.create: a length that is accepted is that of the data.
ASSUME LengthAssumption ==
  \A f \in Frame :
    f.length - MinLength \in 0 .. MaxUserData => Len(f.data) = f.length - MinLength

\* Octets on the wire after the header.
BodySizeMutant(n) == n + n \div BlockSize + 1
BodySize(n) ==
  (n \div BlockSize) * (BlockSize + 1)
    + (IF n % BlockSize > 0 THEN (n % BlockSize) + 1 ELSE 0)

VerifyCrc(symbols) ==
  symbols[Len(symbols)] = Crc(SubSeq(symbols, 1, Len(symbols) - 1))

-----------------------------------------------------------------------------
(* The receiver: data_received and the three steps of its loop *)

\* The places where the two sync octets stand in the buffer.
Syncs == {i \in 1 .. Len(buf) - 1 : buf[i] = O(Sync1) /\ buf[i + 1] = O(Sync2)}

From(i) == SubSeq(buf, i, Len(buf))

\* n octets are read from the socket and handed to data_received().
DataReceived(n) ==
  /\ ~working
  /\ n \in 1 .. Len(wire)
  /\ buf' = buf \o SubSeq(wire, 1, n)
  /\ wire' = SubSeq(wire, n + 1, Len(wire))
  /\ working' = TRUE
  /\ UNCHANGED <<sent, ends, damaged, errors, reconnects, state, header, bodySize, delivered>>

\* The loop leaves with what it cannot use yet.
Break ==
  /\ working' = FALSE
  /\ UNCHANGED <<environment, state, header, bodySize, delivered>>

FoundSync ==
  /\ working /\ state = "SYNC_HUNT"
  /\ Syncs # {}
  /\ buf' = From(CHOOSE i \in Syncs : \A j \in Syncs : i <= j)
  /\ state' = "HEADER"
  /\ UNCHANGED <<environment, header, bodySize, working, delivered>>

LeftOverMutant == buf
\* A last octet that may be the first half of the sync is kept.
LeftOver ==
  IF Len(buf) = 1 \/ (buf # <<>> /\ buf[Len(buf)] = O(Sync1)) THEN <<buf[Len(buf)]>> ELSE <<>>

NoSync ==
  /\ working /\ state = "SYNC_HUNT"
  /\ Syncs = {}
  /\ buf' = LeftOver
  /\ Break

AwaitHeader ==
  /\ working /\ state = "HEADER"
  /\ Len(buf) < HeaderSize
  /\ UNCHANGED buf
  /\ Break

\* parse_header: the header the first octets of the buffer hold.
HeaderValid == Len(buf) >= HeaderSize /\ VerifyCrc(SubSeq(buf, 1, HeaderSize))
Parsed == [length |-> buf[3][2], number |-> buf[4][2]]

RejectedMutant == ~HeaderValid \/ Parsed.length - MinLength > MaxUserData
Rejected ==
  \/ ~HeaderValid
  \/ Parsed.length < MinLength
  \/ Parsed.length - MinLength > MaxUserData

ShedMutant == UNCHANGED buf
\* One octet is dropped, so that the hunt goes on behind the sync.
Shed == buf' = Tail(buf)

RejectHeader ==
  /\ working /\ state = "HEADER"
  /\ Len(buf) >= HeaderSize
  /\ Rejected
  /\ Shed
  /\ state' = "SYNC_HUNT"
  /\ UNCHANGED <<environment, header, bodySize, working, delivered>>

Deliver(h, data) == delivered' = Append(delivered, [number |-> h.number, data |-> data])

\* A frame without user data is complete with its header.
LinkOnly ==
  /\ working /\ state = "HEADER"
  /\ Len(buf) >= HeaderSize
  /\ ~Rejected
  /\ Parsed.length = MinLength
  /\ header' = Parsed
  /\ buf' = From(HeaderSize + 1)
  /\ state' = "SYNC_HUNT"
  /\ Deliver(Parsed, <<>>)
  /\ UNCHANGED <<environment, bodySize, working>>

AcceptHeader ==
  /\ working /\ state = "HEADER"
  /\ Len(buf) >= HeaderSize
  /\ ~Rejected
  /\ Parsed.length # MinLength
  /\ header' = Parsed
  /\ bodySize' = BodySize(Parsed.length - MinLength)
  /\ buf' = From(HeaderSize + 1)
  /\ state' = "BODY"
  /\ UNCHANGED <<environment, working, delivered>>

AwaitBody ==
  /\ working /\ state = "BODY"
  /\ Len(buf) < bodySize
  /\ UNCHANGED buf
  /\ Break

\* extract_user_data: block i of the body with its CRC.
BlockCount == (header.length - MinLength + BlockSize - 1) \div BlockSize
BlockWithCrc(i) ==
  SubSeq(buf, (i - 1) * (BlockSize + 1) + 1, Shorter(i * (BlockSize + 1), bodySize))

BodyValidMutant == VerifyCrc(BlockWithCrc(1))
BodyValid == \A i \in 1 .. BlockCount : VerifyCrc(BlockWithCrc(i))

\* The octets of the body without the CRCs.
UserData ==
  [k \in 1 .. header.length - MinLength |-> buf[k + (k - 1) \div BlockSize][2]]

AcceptBody ==
  /\ working /\ state = "BODY"
  /\ Len(buf) >= bodySize
  /\ BodyValid
  /\ Deliver(header, UserData)
  /\ buf' = From(bodySize + 1)
  /\ header' = NoHeader
  /\ state' = "SYNC_HUNT"
  /\ UNCHANGED <<environment, bodySize, working>>

\* The whole body is dropped; the old header stays in _header.
RejectBody ==
  /\ working /\ state = "BODY"
  /\ Len(buf) >= bodySize
  /\ ~BodyValid
  /\ buf' = From(bodySize + 1)
  /\ state' = "SYNC_HUNT"
  /\ UNCHANGED <<environment, header, bodySize, working, delivered>>

LoopStep ==
  \/ FoundSync
  \/ NoSync
  \/ AwaitHeader
  \/ RejectHeader
  \/ LinkOnly
  \/ AcceptHeader
  \/ AwaitBody
  \/ AcceptBody
  \/ RejectBody

-----------------------------------------------------------------------------
(* The environment: it moves between the calls, as no call reads the wire *)

StreamLength == IF ends = <<>> THEN 0 ELSE ends[Len(ends)]

Send(f) ==
  /\ ~working
  /\ Len(sent) < MaxSent
  /\ sent' = Append(sent, f)
  /\ LET symbols == Serialize(f, Len(sent) + 1)
     IN wire' = wire \o symbols /\ ends' = Append(ends, StreamLength + Len(symbols))
  /\ UNCHANGED <<damaged, errors, reconnects, receiver, working, delivered>>

\* The frames that have symbols among the last n of what was sent.
FramesOf(n) == {k \in 1 .. Len(sent) : StreamLength - ends[k] < n}

FrameAt(i) ==
  CHOOSE k \in FramesOf(Len(wire) - i + 1) : \A m \in FramesOf(Len(wire) - i + 1) : k <= m

\* A symbol in flight is damaged; what is left may look like a sync octet.
Damage(i, octet) ==
  /\ ~working
  /\ errors < MaxErrors
  /\ i \in 1 .. Len(wire)
  /\ wire[i] # O(octet)
  /\ wire' = [wire EXCEPT ![i] = O(octet)]
  /\ damaged' = damaged \cup {FrameAt(i)}
  /\ errors' = errors + 1
  /\ UNCHANGED <<sent, ends, reconnects, receiver, working, delivered>>

LinkReset ==
  /\ state' = "SYNC_HUNT"
  /\ buf' = <<>>
  /\ header' = NoHeader
  /\ bodySize' = 0

\* The connection breaks and is opened again: symbols in flight are lost.
Reconnect ==
  /\ ~working
  /\ reconnects < MaxReconnects
  /\ reconnects' = reconnects + 1
  /\ wire' = <<>>
  /\ damaged' = damaged \cup FramesOf(Len(wire))
  /\ IF ResetOnReconnect THEN LinkReset ELSE UNCHANGED receiver
  /\ UNCHANGED <<sent, ends, errors, working, delivered>>

-----------------------------------------------------------------------------
Init ==
  /\ sent = <<>> /\ ends = <<>> /\ wire = <<>> /\ damaged = {} /\ errors = 0 /\ reconnects = 0
  /\ state = "SYNC_HUNT" /\ buf = <<>> /\ header = NoHeader /\ bodySize = 0
  /\ working = FALSE /\ delivered = <<>>

Next ==
  \/ \E f \in Frame : Send(f)
  \/ \E n \in 1 .. Len(wire) : DataReceived(n)
  \/ LoopStep
  \/ \E i \in 1 .. Len(wire), octet \in {Sync1, Noise} : Damage(i, octet)
  \/ Reconnect

Spec == Init /\ [][Next]_vars

\* A call of data_received, once made, is not interrupted.
FairSpec == Spec /\ WF_vars(LoopStep)

-----------------------------------------------------------------------------
(* Properties *)

WellFormed(f) == f.length = MinLength + Len(f.data) /\ Len(f.data) <= MaxUserData

\* What on_frame gets is a frame the peer sent, unaltered; frames keep their
\* order and none comes twice ("validated LinkFrames", link/layer.py:22).
FramesGenuine ==
  /\ \A i \in 1 .. Len(delivered) :
       /\ delivered[i].number \in 1 .. Len(sent)
       /\ delivered[i].data = sent[delivered[i].number].data
  /\ \A i, j \in 1 .. Len(delivered) :
       i < j => delivered[i].number < delivered[j].number

\* A block of user data that, with its CRC, is the image of a header.
HeaderImage(f) ==
  \E i \in 1 .. DataBlockCount(f.data) :
    LET block == DataBlock(f.data, i)
    IN Len(block) = HeaderSize - 1 /\ block[1] = O(Sync1) /\ block[2] = O(Sync2)

\* When the header of a frame is refused, the hunt goes on in its user data.
Exposed(k) == k \in damaged \/ ~WellFormed(sent[k])

\* Nothing on the wire tells a header from its image, or the octets of two
\* connections apart.  So far the receiver was spared both: no frame that was
\* damaged or malformed carries an image, and no connection was opened on what
\* the one before had left.
Unmistakable ==
  /\ reconnects > 0 => ResetOnReconnect
  /\ \A k \in 1 .. Len(sent) : Exposed(k) => ~HeaderImage(sent[k])

\* Every variable has its type; what is delivered consists of octets unless the
\* stream was mistaken.
LinkTypeOK ==
  /\ sent \in Seq(Frame)
  /\ damaged \subseteq 1 .. Len(sent)
  /\ errors \in 0 .. MaxErrors /\ reconnects \in 0 .. MaxReconnects
  /\ state \in {"SYNC_HUNT", "HEADER", "BODY"}
  /\ header \in [length : Nat, number : Nat]
  /\ bodySize \in Nat
  /\ state = "BODY" => bodySize = BodySize(header.length - MinLength)
  /\ working \in BOOLEAN
  /\ Unmistakable => delivered \in Seq([number : Nat, data : Seq(Octet)])

\* Frames are genuine whatever user data undamaged frames carry, wherever the
\* reads are cut and whatever the damage, as long as no image of a header is
\* exposed by damage and no connection inherits the rest of another.
GenuineUnlessMistaken == Unmistakable => FramesGenuine

\* When everything sent has arrived, however it was cut into reads, every
\* undamaged frame has been delivered: damage or a malformed frame never costs
\* the frames around it, and no frame waits for the next to be seen.
NoFrameMissed ==
  Unmistakable /\ ~working /\ wire = <<>> =>
    \A k \in 1 .. Len(sent) :
      WellFormed(sent[k]) /\ k \notin damaged =>
        \E i \in 1 .. Len(delivered) : delivered[i].number = k

\* The buffer never holds more than one frame between two reads: what cannot
\* become a frame is not kept.
BufferBounded ==
  ~working => Len(buf) < HeaderSize \/ (state = "BODY" /\ Len(buf) < bodySize)

\* data_received returns: every turn of its loop uses up octets or leaves.
CallReturns == working ~> ~working
=============================================================================

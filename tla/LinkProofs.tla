----------------------------- MODULE LinkProofs -----------------------------
(* Proofs about the receiver of the link layer, for any frames, sizes of    *)
(* blocks and damage.                                                       *)
EXTENDS LinkReceiver, SelectionProofs

\* What damage leaves, and what a stream consists of.
Damaged == {O(Sync1), O(Noise)}
Plain == {O(x) : x \in Octet} \cup {N(n) : n \in Nat} \cup Damaged
Symbol == Plain \cup {Crc(block) : block \in Seq(Plain)}

\* The symbols of frame k, and how many were sent before them.
Symbols(k) == Serialize(sent[k], k)
Start(k) == IF k = 1 THEN 0 ELSE ends[k - 1]

\* The frames sent, one after the other.
StreamIInv ==
  /\ sent \in Seq(Frame)
  /\ ends \in Seq(Nat) /\ Len(ends) = Len(sent)
  /\ \A k \in 1 .. Len(sent) : ends[k] = Start(k) + Len(Symbols(k))
  /\ \A j, k \in 1 .. Len(sent) : j < k => ends[j] <= Start(k)
  /\ \A p \in 1 .. StreamLength :
       \E k \in 1 .. Len(sent) : Start(k) < p /\ p <= ends[k]

\* What is in the buffer and in flight is the end of the stream.
Unread == buf \o wire
Base == StreamLength - (Len(buf) + Len(wire))

\* It is what was sent, but for the damage.
WireIInv ==
  /\ buf \in Seq(Symbol) /\ wire \in Seq(Symbol)
  /\ Base \in Nat
  /\ damaged \subseteq 1 .. Len(sent)
  /\ \A k \in 1 .. Len(sent) : \A j \in 1 .. Len(Symbols(k)) :
       Start(k) + j > Base =>
         \/ Unread[Start(k) + j - Base] = Symbols(k)[j]
         \/ k \in damaged /\ Unread[Start(k) + j - Base] \in Damaged

\* The receiver waits for the body of frame k.
InBody(k) ==
  /\ state = "BODY" /\ header.number = k /\ header.length = sent[k].length
  /\ WellFormed(sent[k]) /\ sent[k].data # <<>>
  /\ bodySize = BodySize(Len(sent[k].data))
  /\ Base = Start(k) + HeaderSize

\* A header is looked for behind a sync; a body belongs to the frame whose header
\* was just read.
PlaceIInv ==
  /\ state = "HEADER" => Len(buf) >= 2 /\ buf[1] = O(Sync1) /\ buf[2] = O(Sync2)
  /\ state = "BODY" => \E k \in 1 .. Len(sent) : InBody(k)

Got(k) == \E i \in 1 .. Len(delivered) : delivered[i].number = k

\* What was delivered has been used up, what is undamaged and was not has not.
FramesIInv ==
  /\ FramesGenuine
  /\ \A i \in 1 .. Len(delivered) : ends[delivered[i].number] <= Base
  /\ \A k \in 1 .. Len(sent) :
       WellFormed(sent[k]) /\ k \notin damaged => Got(k) \/ Base <= Start(k) \/ InBody(k)

\* Between two calls the buffer holds less than what the receiver waits for.
WaitIInv ==
  ~working =>
    /\ state = "SYNC_HUNT" => Len(buf) < 2
    /\ state = "HEADER" => Len(buf) < HeaderSize
    /\ state = "BODY" => Len(buf) < bodySize

TypesIInv ==
  /\ sent \in Seq(Frame)
  /\ damaged \subseteq 1 .. Len(sent)
  /\ errors \in 0 .. MaxErrors /\ reconnects \in 0 .. MaxReconnects
  /\ state \in {"SYNC_HUNT", "HEADER", "BODY"}
  /\ header \in [length : Nat, number : Nat]
  /\ bodySize \in Nat
  /\ state = "BODY" => bodySize = BodySize(header.length - MinLength)
  /\ working \in BOOLEAN
  /\ delivered \in Seq([number : Nat, data : Seq(Octet)])

LinkIInv ==
  /\ TypesIInv
  /\ WaitIInv
  /\ StreamIInv
  /\ WireIInv
  /\ PlaceIInv
  /\ FramesIInv

-----------------------------------------------------------------------------
(* Places in a sequence of blocks *)

LEMMA Division ==
  ASSUME NEW n \in Nat, NEW d \in Nat \ {0}
  PROVE  n \div d \in Nat /\ n % d \in 0 .. d - 1 /\ n = d * (n \div d) + (n % d)
  OBVIOUS

LEMMA DivisionUnique ==
  ASSUME NEW d \in Nat \ {0}, NEW q \in Nat, NEW r \in 0 .. d - 1
  PROVE  (d * q + r) \div d = q /\ (d * q + r) % d = r
  OBVIOUS

\* Blocks for n octets, and the octets in block i.
Count(n) == (n + BlockSize - 1) \div BlockSize
Filled(n, i) == Shorter(BlockSize, n - (i - 1) * BlockSize)

LEMMA CountBounds ==
  ASSUME NEW n \in Nat
  PROVE  /\ Count(n) \in Nat
         /\ n <= Count(n) * BlockSize
         /\ n > 0 => Count(n) > 0 /\ (Count(n) - 1) * BlockSize < n
         /\ n = 0 => Count(n) = 0
<1> DEFINE c == Count(n)
           r == (n + BlockSize - 1) % BlockSize
<1>1. BlockSize \in Nat \ {0} /\ n + BlockSize - 1 \in Nat
  BY LinkSizesAssumption
<1>2. c \in Nat /\ r \in 0 .. BlockSize - 1 /\ n + BlockSize - 1 = BlockSize * c + r
  BY <1>1, Division DEF Count
<1> HIDE DEF c, r
<1>3. (c - 1) * BlockSize = BlockSize * c - BlockSize /\ c * BlockSize = BlockSize * c
  BY <1>1, <1>2
<1>4. BlockSize * c \in Nat
  BY <1>1, <1>2
<1>5. n <= c * BlockSize /\ (n > 0 => (c - 1) * BlockSize < n)
  BY <1>1, <1>2, <1>3, <1>4
<1>6. n > 0 => c > 0
  BY <1>1, <1>2, <1>5
<1>7. n = 0 => c = 0
  BY <1>1, <1>2
<1>8. QED
  BY <1>2, <1>5, <1>6, <1>7 DEF c

LEMMA FilledBounds ==
  ASSUME NEW n \in Nat, NEW i \in 1 .. Count(n)
  PROVE  /\ Filled(n, i) \in 1 .. BlockSize
         /\ (i - 1) * BlockSize + Filled(n, i) <= n
         /\ i < Count(n) => Filled(n, i) = BlockSize
         /\ i = Count(n) => (i - 1) * BlockSize + Filled(n, i) = n
<1> DEFINE c == Count(n)
           b == (i - 1) * BlockSize
<1>1. BlockSize \in Nat \ {0} /\ c \in Nat /\ i \in 1 .. c
  BY LinkSizesAssumption, CountBounds
<1>2. n <= c * BlockSize /\ (c - 1) * BlockSize < n
  <2>1. n > 0
    BY <1>1, CountBounds
  <2>2. QED
    BY <2>1, CountBounds
<1> HIDE DEF c
<1>3. b \in Nat /\ b + BlockSize = i * BlockSize
  BY <1>1
<1>4. i < c => i * BlockSize <= (c - 1) * BlockSize
  <2>1. ASSUME i < c PROVE i * BlockSize <= (c - 1) * BlockSize
    <3>1. (c - 1) - i \in Nat
      BY <1>1, <2>1
    <3>2. ((c - 1) - i) * BlockSize \in Nat
      BY <1>1, <3>1
    <3>3. ((c - 1) - i) * BlockSize = (c - 1) * BlockSize - i * BlockSize
      BY <1>1
    <3>4. (c - 1) * BlockSize \in Int /\ i * BlockSize \in Int
      BY <1>1
    <3>5. QED
      BY <3>2, <3>3, <3>4
  <2>2. QED
    BY <2>1
<1>5. i * BlockSize \in Int /\ (c - 1) * BlockSize \in Int /\ c * BlockSize \in Int
  BY <1>1
<1>6. CASE i < c
  <2>1. b + BlockSize < n
    BY <1>1, <1>2, <1>3, <1>4, <1>5, <1>6
  <2>2. Filled(n, i) = BlockSize
    BY <1>1, <1>3, <2>1 DEF Filled, Shorter
  <2>3. QED
    BY <1>1, <1>3, <1>6, <2>1, <2>2 DEF c
<1>7. CASE i = c
  <2>1. b < n /\ n <= b + BlockSize
    BY <1>1, <1>2, <1>3, <1>5, <1>7
  <2> HIDE DEF b
  <2>2. Filled(n, i) = n - b
    BY <1>1, <1>3, <2>1 DEF Filled, Shorter, b
  <2>3. n - b \in 1 .. BlockSize /\ b + (n - b) = n
    BY <1>1, <1>3, <2>1
  <2>4. QED
    BY <1>7, <2>2, <2>3 DEF c, b
<1>8. QED
  BY <1>1, <1>6, <1>7

\* Block i with its CRC ends where the next begins, or the body does.
LEMMA BlockEnd ==
  ASSUME NEW n \in Nat, NEW i \in 1 .. Count(n)
  PROVE  /\ (i - 1) * (BlockSize + 1) \in Nat
         /\ (i - 1) * (BlockSize + 1) + Filled(n, i) + 1 \in 1 .. n + Count(n)
         /\ Shorter(i * (BlockSize + 1), n + Count(n))
              = (i - 1) * (BlockSize + 1) + Filled(n, i) + 1
<1> DEFINE c == Count(n)
           b == (i - 1) * BlockSize
           l == Filled(n, i)
<1>1. BlockSize \in Nat \ {0} /\ c \in Nat /\ i \in 1 .. c
  BY LinkSizesAssumption, CountBounds
<1>2. /\ l \in 1 .. BlockSize /\ b + l <= n
      /\ i < c => l = BlockSize
      /\ i = c => b + l = n
  BY FilledBounds
<1> HIDE DEF c, l
<1>3. /\ b \in Nat /\ (i - 1) * (BlockSize + 1) = b + (i - 1)
      /\ i * (BlockSize + 1) = b + BlockSize + i
  BY <1>1
<1> HIDE DEF b
<1>4. b + (i - 1) + l + 1 \in 1 .. n + c
  BY <1>1, <1>2, <1>3
<1>5. Shorter(b + BlockSize + i, n + c) = b + (i - 1) + l + 1
  <2>1. CASE i < c
    BY <1>1, <1>2, <1>3, <2>1 DEF Shorter
  <2>2. CASE i = c
    BY <1>1, <1>2, <1>3, <2>2 DEF Shorter
  <2>3. QED
    BY <1>1, <2>1, <2>2
<1>6. QED
  BY <1>1, <1>3, <1>4, <1>5 DEF c, l

\* wire_frame_size agrees with serialize.
LEMMA BodySizeIs ==
  ASSUME NEW n \in Nat
  PROVE  BodySize(n) \in Nat /\ BodySize(n) = n + Count(n)
<1> DEFINE q == n \div BlockSize
           r == n % BlockSize
<1>1. BlockSize \in Nat \ {0}
  BY LinkSizesAssumption
<1>2. q \in Nat /\ r \in 0 .. BlockSize - 1 /\ n = BlockSize * q + r
  BY <1>1, Division
<1>3. Count(n) = IF r > 0 THEN q + 1 ELSE q
  <2> HIDE DEF q, r
  <2>1. CASE r = 0
    <3>1. n + BlockSize - 1 = BlockSize * q + (BlockSize - 1)
      BY <1>1, <1>2, <2>1
    <3>2. (BlockSize * q + (BlockSize - 1)) \div BlockSize = q
      BY <1>1, <1>2, DivisionUnique
    <3>3. QED
      BY <2>1, <3>1, <3>2 DEF Count
  <2>2. CASE r > 0
    <3>1. n + BlockSize - 1 = BlockSize * (q + 1) + (r - 1)
      BY <1>1, <1>2, <2>2
    <3>2. r - 1 \in 0 .. BlockSize - 1 /\ q + 1 \in Nat
      BY <1>1, <1>2, <2>2
    <3>3. (BlockSize * (q + 1) + (r - 1)) \div BlockSize = q + 1
      BY <1>1, <3>2, DivisionUnique
    <3>4. QED
      BY <2>2, <3>1, <3>3 DEF Count
  <2>3. QED
    BY <1>2, <2>1, <2>2
<1>4. BodySize(n) = q * (BlockSize + 1) + (IF r > 0 THEN r + 1 ELSE 0)
  BY DEF BodySize
<1> HIDE DEF q, r
<1>5. q * (BlockSize + 1) = BlockSize * q + q
  BY <1>1, <1>2
<1>6. BlockSize * q \in Nat
  BY <1>1, <1>2
<1>7. QED
  BY <1>1, <1>2, <1>3, <1>4, <1>5, <1>6

\* The block a place belongs to and its place there.
LEMMA PlaceIn ==
  ASSUME NEW n \in Nat, NEW p \in 1 .. n + Count(n)
  PROVE  LET i == ((p - 1) \div (BlockSize + 1)) + 1
             j == ((p - 1) % (BlockSize + 1)) + 1
         IN /\ i \in 1 .. Count(n) /\ j \in 1 .. Filled(n, i) + 1
            /\ p = (i - 1) * (BlockSize + 1) + j
<1> DEFINE d == BlockSize + 1
           i == ((p - 1) \div d) + 1
           j == ((p - 1) % d) + 1
           c == Count(n)
           l == Filled(n, i)
<1>1. BlockSize \in Nat \ {0} /\ c \in Nat /\ n <= c * BlockSize /\ p - 1 \in Nat
  BY LinkSizesAssumption, CountBounds
<1>2. d \in Nat \ {0}
  BY <1>1
<1>3. /\ i \in Nat /\ j \in Nat /\ i - 1 \in Nat /\ j - 1 \in 0 .. d - 1
      /\ p - 1 = d * (i - 1) + (j - 1)
  <2> HIDE DEF d
  <2>1. /\ (p - 1) \div d \in Nat /\ (p - 1) % d \in 0 .. d - 1
        /\ p - 1 = d * ((p - 1) \div d) + ((p - 1) % d)
    BY <1>1, <1>2, Division
  <2>2. i \in Nat /\ j \in Nat /\ i - 1 = (p - 1) \div d /\ j - 1 = (p - 1) % d
    BY <1>2, <2>1
  <2>3. QED
    BY <2>1, <2>2
<1> HIDE DEF c, i, j
<1>4. i - 1 < c
  <2>1. ASSUME i - 1 >= c PROVE FALSE
    <3>1. (i - 1) - c \in Nat
      BY <1>1, <1>3, <2>1
    <3>2. ((i - 1) - c) * BlockSize \in Nat
      BY <1>1, <3>1
    <3>3. d * (i - 1) = ((i - 1) - c) * BlockSize + c * BlockSize + (i - 1)
      BY <1>1, <1>3
    <3>4. c * BlockSize \in Nat
      BY <1>1
    <3>5. d * (i - 1) >= n + c
      BY <1>1, <1>3, <2>1, <3>2, <3>3, <3>4
    <3>6. p - 1 >= n + c
      BY <1>1, <1>3, <3>5
    <3>7. QED
      BY <1>1, <3>6 DEF c
  <2>2. QED
    BY <1>1, <1>3, <2>1
<1>5. i \in 1 .. c
  BY <1>1, <1>3, <1>4
<1>6. /\ l \in 1 .. BlockSize
      /\ i < c => l = BlockSize
      /\ i = c => (i - 1) * BlockSize + l = n
  BY <1>5, FilledBounds DEF c
<1> HIDE DEF l
<1>7. (i - 1) * d = (i - 1) * BlockSize + (i - 1) /\ (i - 1) * d = d * (i - 1)
  BY <1>1, <1>3
<1>8. (i - 1) * BlockSize \in Nat
  BY <1>1, <1>3
<1>9. j \in 1 .. l + 1
  <2>1. CASE i < c
    BY <1>1, <1>3, <1>6, <2>1
  <2>2. CASE i = c
    <3>1. p <= n + c
      BY <1>1 DEF c
    <3>2. (i - 1) * BlockSize + (i - 1) + j <= n + c
      BY <1>1, <1>3, <1>7, <1>8, <3>1
    <3>3. j <= l + 1
      BY <1>1, <1>3, <1>6, <1>8, <2>2, <3>2
    <3>4. QED
      BY <1>1, <1>3, <1>6, <3>3
  <2>3. QED
    BY <1>1, <1>5, <2>1, <2>2
<1>10. p = (i - 1) * d + j
  BY <1>1, <1>3, <1>7, <1>8
<1>11. QED
  BY <1>5, <1>9, <1>10 DEF c, i, j, l

LEMMA PlaceOf ==
  ASSUME NEW i \in Nat \ {0}, NEW j \in 1 .. BlockSize + 1
  PROVE  LET p == (i - 1) * (BlockSize + 1) + j
         IN /\ ((p - 1) \div (BlockSize + 1)) + 1 = i
            /\ ((p - 1) % (BlockSize + 1)) + 1 = j
<1> DEFINE d == BlockSize + 1
           p == (i - 1) * d + j
<1>1. BlockSize \in Nat \ {0}
  BY LinkSizesAssumption
<1>2. d \in Nat \ {0} /\ i - 1 \in Nat /\ j - 1 \in 0 .. d - 1
  BY <1>1
<1>3. p - 1 = d * (i - 1) + (j - 1)
  BY <1>1
<1> HIDE DEF p, d
<1>4. (d * (i - 1) + (j - 1)) \div d = i - 1 /\ (d * (i - 1) + (j - 1)) % d = j - 1
  BY <1>2, DivisionUnique
<1>5. ((p - 1) \div d) + 1 = i /\ ((p - 1) % d) + 1 = j
  BY <1>3, <1>4
<1>6. QED
  BY <1>5 DEF p, d

\* Where extract_user_data finds an octet.
LEMMA OctetPlace ==
  ASSUME NEW n \in Nat, NEW m \in 1 .. n
  PROVE  \E i \in 1 .. Count(n) : \E j \in 1 .. Filled(n, i) :
           /\ m = (i - 1) * BlockSize + j
           /\ m + ((m - 1) \div BlockSize) = (i - 1) * (BlockSize + 1) + j
<1> DEFINE q == (m - 1) \div BlockSize
           r == (m - 1) % BlockSize
           i == q + 1
           j == r + 1
           c == Count(n)
           l == Filled(n, i)
<1>1. BlockSize \in Nat \ {0} /\ c \in Nat /\ n <= c * BlockSize /\ m - 1 \in Nat
  BY LinkSizesAssumption, CountBounds
<1>2. q \in Nat /\ r \in 0 .. BlockSize - 1 /\ m - 1 = BlockSize * q + r
  BY <1>1, Division
<1> HIDE DEF q, r, c
<1>3. q < c
  <2>1. ASSUME q >= c PROVE FALSE
    <3>1. (q - c) * BlockSize \in Nat
      <4>1. q - c \in Nat
        BY <1>1, <1>2, <2>1
      <4>2. QED
        BY <1>1, <4>1
    <3>2. BlockSize * q = (q - c) * BlockSize + c * BlockSize /\ c * BlockSize \in Nat
      BY <1>1, <1>2
    <3>3. m - 1 >= n
      BY <1>1, <1>2, <3>1, <3>2
    <3>4. QED
      BY <1>1, <3>3
  <2>2. QED
    BY <1>1, <1>2, <2>1
<1>4. i \in 1 .. c /\ i - 1 = q
  BY <1>1, <1>2, <1>3
<1>5. /\ l \in 1 .. BlockSize
      /\ i < c => l = BlockSize
      /\ i = c => (i - 1) * BlockSize + l = n
  BY <1>4, FilledBounds DEF c
<1> HIDE DEF l, i
<1>6. (i - 1) * BlockSize = BlockSize * q /\ BlockSize * q \in Nat
  BY <1>1, <1>2, <1>4
<1>7. (i - 1) * (BlockSize + 1) = BlockSize * q + q
  BY <1>1, <1>2, <1>4
<1>8. m = BlockSize * q + j /\ m + q = BlockSize * q + q + j
  BY <1>1, <1>2, <1>6
<1>9. j \in 1 .. l
  <2>1. CASE i < c
    BY <1>1, <1>2, <1>5, <2>1
  <2>2. CASE i = c
    BY <1>1, <1>2, <1>5, <1>6, <1>8, <2>2
  <2>3. QED
    BY <1>1, <1>4, <2>1, <2>2
<1>10. m = (i - 1) * BlockSize + j /\ m + q = (i - 1) * (BlockSize + 1) + j
  BY <1>6, <1>7, <1>8
<1> HIDE DEF j
<1>11. QED
  BY <1>4, <1>9, <1>10 DEF l, c, q

-----------------------------------------------------------------------------
(* Symbols *)

\* A symbol of one kind is none of another.
LEMMA Kinds ==
  ASSUME NEW x, NEW y
  PROVE  /\ O(x) = O(y) => x = y
         /\ N(x) = N(y) => x = y
         /\ Crc(x) = Crc(y) => x = y
         /\ O(x) # N(y) /\ O(x) # Crc(y) /\ N(x) # Crc(y)
         /\ O(x)[2] = x /\ N(x)[2] = x
  BY DEF O, N, Crc

LEMMA DataBlockIs ==
  ASSUME NEW data \in Seq(Octet), NEW i \in 1 .. Count(Len(data))
  PROVE  /\ DataBlock(data, i) \in Seq(Plain)
         /\ Len(DataBlock(data, i)) = Filled(Len(data), i)
         /\ \A j \in 1 .. Filled(Len(data), i) :
              /\ (i - 1) * BlockSize + j \in 1 .. Len(data)
              /\ DataBlock(data, i)[j] = O(data[(i - 1) * BlockSize + j])
              /\ data[(i - 1) * BlockSize + j] \in Octet
<1> DEFINE n == Len(data)
           l == Filled(n, i)
           b == (i - 1) * BlockSize
           t == DataBlock(data, i)
<1>1. n \in Nat /\ BlockSize \in Nat \ {0}
  BY LenProperties, LinkSizesAssumption
<1>2. /\ l \in 1 .. BlockSize /\ b + l <= n /\ b \in Nat
  <2>1. l \in 1 .. BlockSize /\ b + l <= n
    BY <1>1, FilledBounds
  <2>2. b \in Nat
    BY <1>1, CountBounds
  <2>3. QED
    BY <2>1, <2>2
<1>3. t = [j \in 1 .. l |-> O(data[b + j])]
  BY DEF DataBlock, Filled
<1> HIDE DEF n, l, b, t
<1>4. ASSUME NEW j \in 1 .. l
      PROVE  b + j \in 1 .. n /\ data[b + j] \in Octet
  <2>1. b + j \in 1 .. n
    BY <1>1, <1>2
  <2>2. QED
    BY <2>1, ElementOfSeq DEF n
<1>5. t \in [1 .. l -> Plain]
  BY <1>3, <1>4 DEF Plain
<1>6. t \in Seq(Plain) /\ Len(t) = l
  BY <1>1, <1>2, <1>5, FunctionSeq
<1>7. QED
  BY <1>3, <1>4, <1>6 DEF n, l, b, t

LEMMA BlocksAre ==
  ASSUME NEW data \in Seq(Octet)
  PROVE  /\ Blocks(data) \in Seq(Symbol)
         /\ Len(Blocks(data)) = Len(data) + Count(Len(data))
         /\ \A i \in 1 .. Count(Len(data)) :
              /\ \A j \in 1 .. Filled(Len(data), i) :
                   Blocks(data)[(i - 1) * (BlockSize + 1) + j] = DataBlock(data, i)[j]
              /\ Blocks(data)[(i - 1) * (BlockSize + 1) + Filled(Len(data), i) + 1]
                   = Crc(DataBlock(data, i))
         /\ \A p \in 1 .. Len(data) + Count(Len(data)) :
              \/ Blocks(data)[p] \in {O(x) : x \in Octet}
              \/ \E i \in 1 .. Count(Len(data)) : Blocks(data)[p] = Crc(DataBlock(data, i))
<1> DEFINE n == Len(data)
           c == Count(n)
           w == BlockSize + 1
           I(p) == ((p - 1) \div w) + 1
           J(p) == ((p - 1) % w) + 1
           s == Blocks(data)
<1>1. n \in Nat /\ BlockSize \in Nat \ {0} /\ c \in Nat
  BY LenProperties, LinkSizesAssumption, CountBounds
<1>2. s = [p \in 1 .. n + c |->
             IF J(p) <= Len(DataBlock(data, I(p))) THEN DataBlock(data, I(p))[J(p)]
             ELSE Crc(DataBlock(data, I(p)))]
  BY DEF Blocks, DataBlockCount, Count
<1>3. ASSUME NEW p \in 1 .. n + c
      PROVE  /\ I(p) \in 1 .. c /\ J(p) \in 1 .. Filled(n, I(p)) + 1
             /\ p = (I(p) - 1) * w + J(p)
  BY <1>1, PlaceIn
<1>4. ASSUME NEW i \in 1 .. c, NEW j \in 1 .. Filled(n, i) + 1
      PROVE  /\ (i - 1) * w + j \in 1 .. n + c
             /\ I((i - 1) * w + j) = i /\ J((i - 1) * w + j) = j
  <2>1. /\ (i - 1) * w \in Nat /\ (i - 1) * w + Filled(n, i) + 1 \in 1 .. n + c
        /\ Filled(n, i) \in 1 .. BlockSize
    BY <1>1, BlockEnd, FilledBounds
  <2>2. (i - 1) * w + j \in 1 .. n + c
    <3> DEFINE b == (i - 1) * w
    <3> HIDE DEF b, c, n
    <3>1. b \in Nat /\ b + Filled(n, i) + 1 \in 1 .. n + c /\ Filled(n, i) \in 1 .. BlockSize
      BY <2>1 DEF b, c, n
    <3>2. b + j \in 1 .. n + c
      BY <1>1, <3>1
    <3>3. QED
      BY <3>2 DEF b
  <2>3. i \in Nat \ {0} /\ j \in 1 .. BlockSize + 1
    BY SMTT(30), <1>1, <2>1
  <2>4. QED
    BY <2>2, <2>3, PlaceOf
<1>5. \A i \in 1 .. c : /\ DataBlock(data, i) \in Seq(Plain)
                        /\ Len(DataBlock(data, i)) = Filled(n, i)
                        /\ Filled(n, i) \in 1 .. BlockSize
                        /\ \A j \in 1 .. Filled(n, i) : DataBlock(data, i)[j] \in {O(x) : x \in Octet}
  <2>1. ASSUME NEW i \in 1 .. c
        PROVE  /\ DataBlock(data, i) \in Seq(Plain)
               /\ Len(DataBlock(data, i)) = Filled(n, i)
               /\ Filled(n, i) \in 1 .. BlockSize
               /\ \A j \in 1 .. Filled(n, i) : DataBlock(data, i)[j] \in {O(x) : x \in Octet}
    <3>1. \A j \in 1 .. Filled(n, i) :
            /\ DataBlock(data, i)[j] = O(data[(i - 1) * BlockSize + j])
            /\ data[(i - 1) * BlockSize + j] \in Octet
      BY DataBlockIs
    <3>2. \A j \in 1 .. Filled(n, i) : DataBlock(data, i)[j] \in {O(x) : x \in Octet}
      BY <3>1
    <3>3. QED
      BY <1>1, <3>2, DataBlockIs, FilledBounds
  <2>2. QED
    BY <2>1
<1> HIDE DEF n, c, w, I, J, s
<1>6. ASSUME NEW i \in 1 .. c
      PROVE  /\ \A j \in 1 .. Filled(n, i) : s[(i - 1) * w + j] = DataBlock(data, i)[j]
             /\ s[(i - 1) * w + (Filled(n, i) + 1)] = Crc(DataBlock(data, i))
  <2>1. ASSUME NEW j \in 1 .. Filled(n, i)
        PROVE  s[(i - 1) * w + j] = DataBlock(data, i)[j]
    <3>1. j \in 1 .. Filled(n, i) + 1 /\ j <= Filled(n, i)
      BY <1>5
    <3>2. QED
      BY <1>2, <1>4, <1>5, <3>1
  <2>2. s[(i - 1) * w + (Filled(n, i) + 1)] = Crc(DataBlock(data, i))
    <3>1. Filled(n, i) + 1 \in 1 .. Filled(n, i) + 1 /\ ~(Filled(n, i) + 1 <= Filled(n, i))
      BY <1>5
    <3>2. QED
      BY <1>2, <1>4, <1>5, <3>1
  <2>3. QED
    BY <2>1, <2>2
<1>7. ASSUME NEW p \in 1 .. n + c
      PROVE  \/ s[p] \in {O(x) : x \in Octet}
             \/ \E i \in 1 .. c : s[p] = Crc(DataBlock(data, i))
  <2>1. I(p) \in 1 .. c /\ J(p) \in 1 .. Filled(n, I(p)) + 1
    BY <1>3
  <2>2. CASE J(p) <= Filled(n, I(p))
    <3>1. J(p) \in 1 .. Filled(n, I(p))
      BY <1>5, <2>1, <2>2
    <3>2. QED
      BY <1>2, <1>5, <2>1, <2>2, <3>1
  <2>3. CASE ~(J(p) <= Filled(n, I(p)))
    BY <1>2, <1>5, <2>1, <2>3
  <2>4. QED
    BY <2>2, <2>3
<1>8. s \in Seq(Symbol) /\ Len(s) = n + c
  <2>1. \A p \in 1 .. n + c : s[p] \in Symbol
    BY <1>5, <1>7 DEF Symbol, Plain
  <2>2. s \in [1 .. n + c -> Symbol]
    BY <1>2, <2>1
  <2>3. n + c \in Nat
    BY <1>1
  <2>4. QED
    BY <2>2, <2>3, FunctionSeq
<1>9. ASSUME NEW i \in 1 .. c
      PROVE (i - 1) * w + (Filled(n, i) + 1) = (i - 1) * w + Filled(n, i) + 1
  <2>1. (i - 1) * w \in Int /\ Filled(n, i) \in Int
    BY <1>1, <1>5 DEF w
  <2>2. QED
    BY <2>1
<1>10. QED
  BY <1>6, <1>7, <1>8, <1>9 DEF n, c, w, s

LEMMA SerializeIs ==
  ASSUME NEW f \in Frame, NEW k \in Nat
  PROVE  LET s == Serialize(f, k)
             n == Len(f.data)
         IN /\ s \in Seq(Symbol) /\ f.data \in Seq(Octet) /\ n \in Nat /\ Count(n) \in Nat
            /\ Len(s) = HeaderSize + n + Count(n)
            /\ s[1] = O(Sync1) /\ s[2] = O(Sync2) /\ s[3] = N(f.length) /\ s[4] = N(k)
            /\ s[5] = Crc(HeaderBlock(f.length, k))
            /\ \A p \in 1 .. n + Count(n) : s[HeaderSize + p] = Blocks(f.data)[p]
<1> DEFINE h == HeaderBlock(f.length, k)
           a == Append(h, Crc(h))
           b == Blocks(f.data)
           n == Len(f.data)
           s == Serialize(f, k)
<1>1. f.length \in Nat /\ f.data \in Seq(Octet) /\ n \in Nat /\ Count(n) \in Nat
  BY FrameAssumption, LenProperties, CountBounds
<1>2. b \in Seq(Symbol) /\ Len(b) = n + Count(n)
  BY <1>1, BlocksAre
<1>3. O(Sync1) \in Plain /\ O(Sync2) \in Plain /\ N(f.length) \in Plain /\ N(k) \in Plain
  BY <1>1, OctetAssumption DEF Plain
<1>4. /\ h \in Seq(Plain) /\ Len(h) = 4
      /\ h[1] = O(Sync1) /\ h[2] = O(Sync2) /\ h[3] = N(f.length) /\ h[4] = N(k)
  BY <1>3 DEF HeaderBlock
<1>5. h \in Seq(Symbol) /\ Crc(h) \in Symbol
  <2>1. Plain \subseteq Symbol /\ Crc(h) \in Symbol
    BY <1>4 DEF Symbol
  <2>2. QED
    BY <1>4, <2>1, SeqMonotonic
<1>6. s = a \o b
  BY DEF Serialize
<1> HIDE DEF h, b, n, s
<1>7. /\ a \in Seq(Symbol) /\ Len(a) = 5 /\ a[5] = Crc(h)
      /\ \A i \in 1 .. 4 : a[i] = h[i]
  <2>1. /\ a \in Seq(Symbol) /\ Len(a) = Len(h) + 1 /\ a[Len(h) + 1] = Crc(h)
        /\ \A i \in 1 .. Len(h) : a[i] = h[i]
    BY <1>5, AppendProperties
  <2>2. QED
    BY <1>4, <2>1
<1> HIDE DEF a
<1>8. /\ s \in Seq(Symbol) /\ Len(s) = 5 + (n + Count(n))
      /\ \A i \in 1 .. 5 + (n + Count(n)) : s[i] = IF i <= 5 THEN a[i] ELSE b[i - 5]
  <2>1. /\ a \o b \in Seq(Symbol) /\ Len(a \o b) = Len(a) + Len(b)
        /\ \A i \in 1 .. Len(a) + Len(b) :
             (a \o b)[i] = IF i <= Len(a) THEN a[i] ELSE b[i - Len(a)]
    BY <1>2, <1>7, ConcatProperties
  <2>2. QED
    BY <1>2, <1>6, <1>7, <2>1
<1>9. \A i \in 1 .. 5 : s[i] = a[i]
  BY <1>1, <1>8
<1>10. \A p \in 1 .. n + Count(n) : s[5 + p] = b[p]
  BY <1>1, <1>8
<1>11. Len(s) = 5 + n + Count(n)
  BY <1>1, <1>8
<1>12. /\ s[1] = O(Sync1) /\ s[2] = O(Sync2) /\ s[3] = N(f.length) /\ s[4] = N(k)
       /\ s[5] = Crc(h)
  BY <1>4, <1>7, <1>9
<1>13. s \in Seq(Symbol)
  BY <1>8
<1>14. QED
  BY <1>1, <1>10, <1>11, <1>12, <1>13 DEF HeaderSize, h, b, n, s

-----------------------------------------------------------------------------
(* The stream *)

\* A CRC in a frame is that of the header or of a block of data.
LEMMA CrcsAre ==
  ASSUME NEW f \in Frame, NEW k \in Nat, NEW p \in 1 .. Len(Serialize(f, k)),
         NEW block, Serialize(f, k)[p] = Crc(block)
  PROVE  \/ p = HeaderSize /\ block = HeaderBlock(f.length, k)
         \/ /\ HeaderSize < p
            /\ \E i \in 1 .. Count(Len(f.data)) : block = DataBlock(f.data, i)
<1> DEFINE s == Serialize(f, k)
           n == Len(f.data)
           c == Count(n)
<1>1. /\ f.data \in Seq(Octet) /\ n \in Nat /\ c \in Nat
      /\ Len(s) = 5 + n + c
      /\ s[1] = O(Sync1) /\ s[2] = O(Sync2) /\ s[3] = N(f.length) /\ s[4] = N(k)
      /\ s[5] = Crc(HeaderBlock(f.length, k))
      /\ \A q \in 1 .. n + c : s[5 + q] = Blocks(f.data)[q]
  BY SerializeIs DEF HeaderSize
<1>2. \A q \in 1 .. n + c :
        \/ Blocks(f.data)[q] \in {O(x) : x \in Octet}
        \/ \E i \in 1 .. c : Blocks(f.data)[q] = Crc(DataBlock(f.data, i))
  BY <1>1, BlocksAre
<1>3. p \in 1 .. Len(s) /\ s[p] = Crc(block)
  OBVIOUS
<1> HIDE DEF s, n, c
<1>4. p \in 1 .. 4 \/ p = 5 \/ p - 5 \in 1 .. n + c
  BY <1>1, <1>3
<1>5. CASE p \in 1 .. 4
  <2>1. p = 1 \/ p = 2 \/ p = 3 \/ p = 4
    BY <1>5
  <2>2. \A x : O(x) # Crc(block) /\ N(x) # Crc(block)
    BY Kinds
  <2>3. QED
    BY <1>1, <1>3, <2>1, <2>2
<1>6. CASE p = 5
  <2>1. Crc(block) = Crc(HeaderBlock(f.length, k))
    BY <1>1, <1>3, <1>6
  <2>2. block = HeaderBlock(f.length, k)
    BY <2>1, Kinds
  <2>3. p = HeaderSize
    BY <1>6 DEF HeaderSize
  <2>4. QED
    BY <2>2, <2>3
<1>7. CASE p - 5 \in 1 .. n + c
  <2>1. s[p] = Blocks(f.data)[p - 5]
    <3>1. 5 + (p - 5) = p
      BY <1>3
    <3>2. QED
      BY <1>1, <1>7, <3>1
  <2>2. \A x : Crc(block) # O(x)
    BY Kinds
  <2>3. PICK i \in 1 .. c : Crc(block) = Crc(DataBlock(f.data, i))
    BY <1>2, <1>3, <1>7, <2>1, <2>2
  <2>4. block = DataBlock(f.data, i)
    BY <2>3, Kinds
  <2>5. HeaderSize < p
    BY <1>1, <1>3, <1>7 DEF HeaderSize
  <2>6. QED
    BY <2>4, <2>5 DEF n, c
<1>8. QED
  BY <1>4, <1>5, <1>6, <1>7

\* Four symbols behind a sync, with their CRC, are the header of a frame or the
\* image of one.
LEMMA HeaderFound ==
  ASSUME NEW f \in Frame, NEW k \in Nat, NEW p \in 1 .. Len(Serialize(f, k)),
         NEW block, Serialize(f, k)[p] = Crc(block), Len(block) = HeaderSize - 1,
         block[1] = O(Sync1), block[2] = O(Sync2)
  PROVE  \/ p = HeaderSize /\ block = HeaderBlock(f.length, k)
         \/ HeaderSize < p /\ HeaderImage(f)
<1>1. ASSUME NEW i \in 1 .. Count(Len(f.data)), block = DataBlock(f.data, i)
      PROVE  HeaderImage(f)
  BY <1>1 DEF HeaderImage, DataBlockCount, Count
<1>2. QED
  BY <1>1, CrcsAre

LEMMA FrameIs ==
  ASSUME StreamIInv, NEW k \in 1 .. Len(sent)
  PROVE  /\ sent[k] \in Frame /\ k \in Nat
         /\ Symbols(k) \in Seq(Symbol) /\ Len(Symbols(k)) \in Nat
         /\ Len(Symbols(k)) = HeaderSize + BodySize(Len(sent[k].data))
         /\ Len(sent[k].data) \in Nat /\ BodySize(Len(sent[k].data)) \in Nat
         /\ Start(k) \in Nat /\ ends[k] \in Nat /\ StreamLength \in Nat
         /\ ends[k] = Start(k) + Len(Symbols(k))
         /\ ends[k] <= StreamLength
<1>1. Len(sent) \in Nat /\ sent[k] \in Frame /\ k \in Nat
  BY LenProperties, ElementOfSeq DEF StreamIInv
<1>2. /\ Symbols(k) \in Seq(Symbol) /\ Len(sent[k].data) \in Nat
      /\ Count(Len(sent[k].data)) \in Nat
      /\ Len(Symbols(k)) = HeaderSize + Len(sent[k].data) + Count(Len(sent[k].data))
  BY <1>1, SerializeIs DEF Symbols
<1>3. /\ BodySize(Len(sent[k].data)) \in Nat
      /\ BodySize(Len(sent[k].data)) = Len(sent[k].data) + Count(Len(sent[k].data))
  BY <1>2, BodySizeIs
<1>4. Len(Symbols(k)) = HeaderSize + BodySize(Len(sent[k].data)) /\ Len(Symbols(k)) \in Nat
  BY SMTT(30), <1>2, <1>3 DEF HeaderSize
<1>5. \A j \in 1 .. Len(sent) : ends[j] \in Nat
  BY ElementOfSeq DEF StreamIInv
<1>6. Start(k) \in Nat
  BY <1>1, <1>5 DEF Start
<1>7. ends[k] = Start(k) + Len(Symbols(k))
  BY DEF StreamIInv
<1>8. StreamLength = ends[Len(sent)]
  BY <1>1, EmptySeq DEF StreamLength, StreamIInv
<1>9. ends[k] <= ends[Len(sent)]
  <2>1. CASE k = Len(sent)
    BY <1>5, <2>1
  <2>2. CASE k < Len(sent)
    <3> DEFINE l == Len(sent)
    <3>1. l \in 1 .. Len(sent) /\ k < l
      BY <1>1, <2>2
    <3>2. ends[k] <= Start(l) /\ ends[l] = Start(l) + Len(Symbols(l))
      BY <3>1 DEF StreamIInv
    <3>3. Len(Symbols(l)) \in Nat
      <4>1. Symbols(l) \in Seq(Symbol)
        BY <3>1, SerializeIs, ElementOfSeq DEF Symbols, StreamIInv
      <4>2. QED
        BY <4>1, LenProperties
    <3>4. Start(l) \in Nat
      BY <1>1, <1>5, <3>1 DEF Start
    <3>5. QED
      BY <1>5, <3>1, <3>2, <3>3, <3>4
  <2>3. QED
    BY <1>1, <2>1, <2>2
<1>10. ends[Len(sent)] \in Nat
  BY <1>1, <1>5
<1>11. QED
  BY <1>1, <1>2, <1>3, <1>4, <1>5, <1>6, <1>7, <1>8, <1>9, <1>10

LEMMA UnreadIs ==
  ASSUME StreamIInv, WireIInv
  PROVE  /\ Unread \in Seq(Symbol)
         /\ Len(buf) \in Nat /\ Len(wire) \in Nat /\ StreamLength \in Nat /\ Base \in Nat
         /\ Len(Unread) = Len(buf) + Len(wire) /\ StreamLength = Base + Len(buf) + Len(wire)
         /\ \A i \in 1 .. Len(buf) : Unread[i] = buf[i] /\ buf[i] \in Symbol
         /\ \A i \in 1 .. Len(wire) : Unread[Len(buf) + i] = wire[i]
<1>1. buf \in Seq(Symbol) /\ wire \in Seq(Symbol) /\ Base \in Nat
  BY DEF WireIInv
<1>2. Len(buf) \in Nat /\ Len(wire) \in Nat
  BY <1>1, LenProperties
<1>3. /\ Unread \in Seq(Symbol) /\ Len(Unread) = Len(buf) + Len(wire)
      /\ \A i \in 1 .. Len(buf) + Len(wire) :
           Unread[i] = IF i <= Len(buf) THEN buf[i] ELSE wire[i - Len(buf)]
  BY <1>1, ConcatProperties DEF Unread
<1>4. \A i \in 1 .. Len(buf) : Unread[i] = buf[i] /\ buf[i] \in Symbol
  BY <1>1, <1>2, <1>3, ElementOfSeq
<1>5. \A i \in 1 .. Len(wire) : Unread[Len(buf) + i] = wire[i]
  BY <1>2, <1>3
<1>6. StreamLength \in Nat
  <2>1. CASE ends = <<>>
    BY <2>1 DEF StreamLength
  <2>2. CASE ends # <<>>
    <3>1. ends \in Seq(Nat) /\ Len(ends) \in 1 .. Len(ends)
      BY <2>2, EmptySeq, LenProperties DEF StreamIInv
    <3>2. QED
      BY <2>2, <3>1, ElementOfSeq DEF StreamLength
  <2>3. QED
    BY <2>1, <2>2
<1>7. StreamLength = Base + Len(buf) + Len(wire)
  BY <1>2, <1>6 DEF Base
<1>8. QED
  BY <1>1, <1>2, <1>3, <1>4, <1>5, <1>6, <1>7

\* A symbol of the buffer is one of a frame, or damage.
LEMMA InBuffer ==
  ASSUME StreamIInv, WireIInv, NEW k \in 1 .. Len(sent), NEW j \in 1 .. Len(Symbols(k)),
         Start(k) + j > Base, Start(k) + j - Base <= Len(buf)
  PROVE  /\ Start(k) + j - Base \in 1 .. Len(buf)
         /\ \/ buf[Start(k) + j - Base] = Symbols(k)[j]
            \/ k \in damaged /\ buf[Start(k) + j - Base] \in Damaged
<1> DEFINE i == Start(k) + j - Base
<1>1. Start(k) \in Nat /\ Base \in Nat /\ j \in Nat /\ Len(buf) \in Nat
  BY FrameIs, UnreadIs
<1>2. i \in 1 .. Len(buf)
  BY <1>1
<1>3. \/ Unread[i] = Symbols(k)[j]
      \/ k \in damaged /\ Unread[i] \in Damaged
  BY DEF WireIInv
<1>4. Unread[i] = buf[i]
  BY <1>2, UnreadIs
<1>5. QED
  BY <1>2, <1>3, <1>4

LEMMA Owner ==
  ASSUME StreamIInv, WireIInv, NEW i \in 1 .. Len(buf)
  PROVE  \E k \in 1 .. Len(sent) : \E j \in 1 .. Len(Symbols(k)) :
           /\ Base + i = Start(k) + j
           /\ \/ buf[i] = Symbols(k)[j]
              \/ k \in damaged /\ buf[i] \in Damaged
<1>1. /\ Base \in Nat /\ Len(buf) \in Nat /\ Len(wire) \in Nat
      /\ StreamLength = Base + Len(buf) + Len(wire)
  BY UnreadIs
<1>2. Base + i \in 1 .. StreamLength
  BY <1>1
<1>3. PICK k \in 1 .. Len(sent) : Start(k) < Base + i /\ Base + i <= ends[k]
  BY <1>2 DEF StreamIInv
<1>4. Start(k) \in Nat /\ Len(Symbols(k)) \in Nat /\ ends[k] = Start(k) + Len(Symbols(k))
  BY FrameIs
<1> DEFINE j == Base + i - Start(k)
<1>5. j \in 1 .. Len(Symbols(k)) /\ Start(k) + j = Base + i
  BY SMTT(30), <1>1, <1>3, <1>4
<1> HIDE DEF j
<1>6. Start(k) + j > Base /\ Start(k) + j - Base = i
  BY SMTT(30), <1>1, <1>4, <1>5
<1>7. \/ buf[i] = Symbols(k)[j]
      \/ k \in damaged /\ buf[i] \in Damaged
  BY SMTT(30), <1>1, <1>5, <1>6, InBuffer
<1>8. QED
  BY <1>5, <1>7

-----------------------------------------------------------------------------
(* Headers and bodies that are read *)

\* The symbols that the CRC behind l symbols covers.
Covered(s, a, l) == SubSeq(SubSeq(s, a + 1, a + l + 1), 1, l)

LEMMA VerifyIs ==
  ASSUME NEW s \in Seq(Symbol), NEW a \in Nat, NEW l \in Nat, NEW m, NEW n,
         m = a + 1, n = a + l + 1, n <= Len(s)
  PROVE  /\ VerifyCrc(SubSeq(s, m, n)) <=> s[n] = Crc(Covered(s, a, l))
         /\ Covered(s, a, l) \in Seq(Symbol) /\ Len(Covered(s, a, l)) = l
         /\ \A j \in 1 .. l : Covered(s, a, l)[j] = s[a + j]
<1> DEFINE t == SubSeq(s, m, n)
           b == SubSeq(t, 1, l)
<1>1. Len(s) \in Nat /\ m \in Int /\ n \in Int /\ m <= n /\ n - m + 1 = l + 1
  BY LenProperties
<1>2. \A i \in m .. n : s[i] \in Symbol
  <2>1. \A i \in m .. n : i \in 1 .. Len(s)
    BY <1>1
  <2>2. QED
    BY <2>1, ElementOfSeq
<1>3. n = a + (l + 1) /\ m = a + 1
  OBVIOUS
<1>4. /\ t \in Seq(Symbol) /\ Len(t) = l + 1
      /\ \A i \in 1 .. n - m + 1 : t[i] = s[m + i - 1]
  BY <1>1, <1>2, SubSeqProperties
<1>5. \A i \in 1 .. l + 1 : t[i] = s[a + i]
  BY <1>1, <1>3, <1>4
<1> HIDE DEF t
<1>6. \A i \in 1 .. l : t[i] \in Symbol
  <2>1. \A i \in 1 .. l : i \in 1 .. Len(t)
    BY <1>4
  <2>2. QED
    BY <1>4, <2>1, ElementOfSeq
<1>7. /\ b \in Seq(Symbol) /\ Len(b) = l
      /\ \A i \in 1 .. l : b[i] = t[i]
  <2>1. /\ b \in Seq(Symbol) /\ Len(b) = IF 1 <= l THEN l - 1 + 1 ELSE 0
        /\ \A i \in 1 .. l - 1 + 1 : b[i] = t[1 + i - 1]
    BY <1>6, SubSeqProperties
  <2>2. QED
    BY <2>1
<1> HIDE DEF b
<1>8. VerifyCrc(t) <=> t[l + 1] = Crc(b)
  <2>1. Len(t) = l + 1 /\ Len(t) - 1 = l
    BY <1>4
  <2>2. QED
    BY <2>1 DEF VerifyCrc, b
<1>9. t[l + 1] = s[n]
  BY <1>3, <1>5
<1>10. \A j \in 1 .. l : b[j] = s[a + j]
  <2>1. \A j \in 1 .. l : j \in 1 .. l + 1
    OBVIOUS
  <2>2. \A j \in 1 .. l : b[j] = t[j] /\ t[j] = s[a + j]
    BY <1>5, <1>7, <2>1 DEF b
  <2>3. QED
    BY <2>2
<1>11. QED
  BY <1>7, <1>8, <1>9, <1>10 DEF Covered, b, t

LEMMA HeaderIs ==
  ASSUME NEW s \in Seq(Symbol), Len(s) >= HeaderSize
  PROVE  /\ VerifyCrc(SubSeq(s, 1, HeaderSize)) <=> s[5] = Crc(Covered(s, 0, 4))
         /\ Covered(s, 0, 4) \in Seq(Symbol) /\ Len(Covered(s, 0, 4)) = HeaderSize - 1
         /\ \A j \in 1 .. 4 : Covered(s, 0, 4)[j] = s[j]
<1>1. Len(s) \in Nat /\ HeaderSize = 5 /\ 5 <= Len(s) /\ 1 = 0 + 1 /\ 5 = 0 + 4 + 1
  BY LenProperties DEF HeaderSize
<1> DEFINE a == 0
           l == 4
           m == 1
           n == 5
<1>0. a \in Nat /\ l \in Nat /\ m = a + 1 /\ n = a + l + 1 /\ n <= Len(s)
  BY <1>1
<1> HIDE DEF a, l, m, n
<1>2. /\ VerifyCrc(SubSeq(s, m, n)) <=> s[n] = Crc(Covered(s, a, l))
      /\ Covered(s, a, l) \in Seq(Symbol) /\ Len(Covered(s, a, l)) = l
      /\ \A j \in 1 .. l : Covered(s, a, l)[j] = s[a + j]
  BY <1>0, VerifyIs
<1>3. \A j \in 1 .. 4 : 0 + j = j
  OBVIOUS
<1>4. QED
  BY <1>1, <1>2, <1>3 DEF a, l, m, n

\* The hunt is never inside a frame that is neither damaged nor malformed.
LEMMA HuntOutside ==
  ASSUME StreamIInv, WireIInv, FramesIInv, state # "BODY", NEW k \in 1 .. Len(sent),
         Start(k) < Base, Base < ends[k]
  PROVE  Exposed(k)
<1>1. Start(k) \in Nat /\ ends[k] \in Nat /\ Base \in Nat
  BY FrameIs, UnreadIs
<1>2. ~(Base <= Start(k)) /\ ~InBody(k)
  BY <1>1 DEF InBody
<1>3. ~Got(k)
  <2>1. \A i \in 1 .. Len(delivered) : delivered[i].number = k => ends[k] <= Base
    BY DEF FramesIInv
  <2>2. QED
    BY <1>1, <2>1 DEF Got
<1>4. QED
  BY <1>2, <1>3 DEF FramesIInv, Exposed

\* What parse_header accepts is the header of the frame that begins there.
LEMMA HeaderGenuine ==
  ASSUME Unmistakable, StreamIInv, WireIInv, PlaceIInv, FramesIInv, state = "HEADER", HeaderValid
  PROVE  \E k \in 1 .. Len(sent) :
           Base = Start(k) /\ Parsed = [length |-> sent[k].length, number |-> k]
<1> DEFINE block == Covered(buf, 0, 4)
<1>1. /\ buf \in Seq(Symbol) /\ Len(buf) >= HeaderSize /\ Len(buf) \in Nat
      /\ buf[1] = O(Sync1) /\ buf[2] = O(Sync2)
  BY UnreadIs DEF WireIInv, PlaceIInv, HeaderValid
<1>2. /\ buf[5] = Crc(block)
      /\ Len(block) = HeaderSize - 1
      /\ block[1] = O(Sync1) /\ block[2] = O(Sync2)
      /\ block[3] = buf[3] /\ block[4] = buf[4]
  <2>1. \A j \in 1 .. 4 : block[j] = buf[j]
    BY <1>1, HeaderIs
  <2>2. QED
    BY <1>1, <2>1, HeaderIs DEF HeaderValid
<1> HIDE DEF block
<1>3. 5 \in 1 .. Len(buf)
  BY <1>1 DEF HeaderSize
<1>40. PICK k \in 1 .. Len(sent) : \E p \in 1 .. Len(Symbols(k)) :
         /\ Base + 5 = Start(k) + p
         /\ \/ buf[5] = Symbols(k)[p]
            \/ k \in damaged /\ buf[5] \in Damaged
  BY <1>3, Owner
<1>4. PICK p \in 1 .. Len(Symbols(k)) :
        /\ Base + 5 = Start(k) + p
        /\ \/ buf[5] = Symbols(k)[p]
           \/ k \in damaged /\ buf[5] \in Damaged
  BY <1>40
<1>5. Symbols(k)[p] = Crc(block)
  <2>1. \A x : Crc(block) # O(x)
    BY Kinds
  <2>2. QED
    BY <1>2, <1>4, <2>1 DEF Damaged
<1>6. sent[k] \in Frame /\ k \in Nat /\ Start(k) \in Nat /\ Base \in Nat
  BY FrameIs, UnreadIs
<1>7. p = HeaderSize /\ block = HeaderBlock(sent[k].length, k)
  <2>1. \/ p = HeaderSize /\ block = HeaderBlock(sent[k].length, k)
        \/ HeaderSize < p /\ HeaderImage(sent[k])
    BY <1>2, <1>5, <1>6, HeaderFound DEF Symbols
  <2>2. ASSUME HeaderSize < p, HeaderImage(sent[k]) PROVE FALSE
    <3>1. /\ Len(Symbols(k)) \in Nat /\ ends[k] = Start(k) + Len(Symbols(k))
          /\ p \in 1 .. Len(Symbols(k)) /\ ends[k] \in Nat
      BY FrameIs
    <3>2. Start(k) < Base /\ Base < ends[k]
      BY <1>4, <1>6, <2>2, <3>1 DEF HeaderSize
    <3>3. Exposed(k)
      BY <3>2, HuntOutside
    <3>4. QED
      BY <2>2, <3>3 DEF Unmistakable
  <2>3. QED
    BY <2>1, <2>2
<1>8. Base = Start(k)
  BY <1>4, <1>6, <1>7 DEF HeaderSize
<1>9. block[3] = N(sent[k].length) /\ block[4] = N(k)
  BY <1>7 DEF HeaderBlock
<1>10. Parsed = [length |-> sent[k].length, number |-> k]
  BY SMTT(30), <1>2, <1>9, Kinds DEF Parsed
<1>11. QED
  BY <1>8, <1>10

\* The header of an undamaged frame is accepted where the frame begins.
LEMMA HeaderRead ==
  ASSUME StreamIInv, WireIInv, NEW k \in 1 .. Len(sent), k \notin damaged,
         Base = Start(k), Len(buf) >= HeaderSize
  PROVE  HeaderValid /\ Parsed = [length |-> sent[k].length, number |-> k]
<1> DEFINE block == Covered(buf, 0, 4)
           h == HeaderBlock(sent[k].length, k)
<1>1. /\ sent[k] \in Frame /\ k \in Nat /\ Start(k) \in Nat
      /\ Len(Symbols(k)) = HeaderSize + BodySize(Len(sent[k].data))
      /\ BodySize(Len(sent[k].data)) \in Nat
      /\ buf \in Seq(Symbol) /\ Len(buf) \in Nat
  BY FrameIs, UnreadIs DEF WireIInv
<1>2. /\ Symbols(k)[1] = O(Sync1) /\ Symbols(k)[2] = O(Sync2)
      /\ Symbols(k)[3] = N(sent[k].length) /\ Symbols(k)[4] = N(k)
      /\ Symbols(k)[5] = Crc(h)
  BY SMTT(30), <1>1, SerializeIs DEF Symbols
<1>3. ASSUME NEW j \in 1 .. 5 PROVE buf[j] = Symbols(k)[j]
  <2>1. j \in 1 .. Len(Symbols(k)) /\ Start(k) + j > Base /\ Start(k) + j - Base = j
        /\ j <= Len(buf)
    BY <1>1 DEF HeaderSize
  <2>2. QED
    BY <2>1, InBuffer
<1>4. /\ block \in Seq(Symbol) /\ Len(block) = 4
      /\ \A j \in 1 .. 4 : block[j] = buf[j]
      /\ VerifyCrc(SubSeq(buf, 1, HeaderSize)) <=> buf[5] = Crc(block)
  BY <1>1, HeaderIs DEF HeaderSize
<1>5. block = h
  <2>1. \A j \in 1 .. 4 : block[j] = h[j]
    <3> HIDE DEF block
    <3>1. ASSUME NEW j \in 1 .. 4 PROVE block[j] = Symbols(k)[j]
      BY <1>3, <1>4
    <3>2. block[1] = h[1] /\ block[2] = h[2] /\ block[3] = h[3] /\ block[4] = h[4]
      BY <1>2, <3>1 DEF HeaderBlock
    <3>3. \A j \in 1 .. 4 : j = 1 \/ j = 2 \/ j = 3 \/ j = 4
      OBVIOUS
    <3>4. QED
      BY <3>2, <3>3
  <2>2. h \in Seq(Symbol) /\ Len(h) = 4
    <3>1. \A j \in 1 .. 4 : Symbols(k)[j] \in Symbol
      <4>1. \A j \in 1 .. 4 : j \in 1 .. Len(buf)
        BY <1>1 DEF HeaderSize
      <4>2. \A j \in 1 .. 4 : buf[j] \in Symbol
        BY <1>1, <4>1, ElementOfSeq
      <4>3. QED
        BY <1>3, <4>2
    <3>2. O(Sync1) \in Symbol /\ O(Sync2) \in Symbol /\ N(sent[k].length) \in Symbol /\ N(k) \in Symbol
      BY <1>2, <3>1
    <3>3. QED
      BY <3>2 DEF HeaderBlock
  <2>3. QED
    BY <1>4, <2>1, <2>2, SeqEqual
<1>6. HeaderValid
  BY SMTT(30), <1>1, <1>2, <1>3, <1>4, <1>5 DEF HeaderValid
<1>7. Parsed = [length |-> sent[k].length, number |-> k]
  BY SMTT(30), <1>2, <1>3, Kinds DEF Parsed
<1>8. QED
  BY <1>6, <1>7

\* A body that is read is the one of its frame if its CRCs are right, and they
\* are if the frame is undamaged.
LEMMA BodyRead ==
  ASSUME StreamIInv, WireIInv, NEW k \in 1 .. Len(sent), InBody(k), Len(buf) >= bodySize
  PROVE  /\ k \notin damaged => BodyValid
         /\ BodyValid => UserData = sent[k].data
<1> DEFINE data == sent[k].data
           n == Len(data)
           w == BlockSize + 1
<1>1. /\ sent[k] \in Frame /\ k \in Nat /\ Start(k) \in Nat
      /\ Len(Symbols(k)) = HeaderSize + BodySize(n) /\ BodySize(n) \in Nat
      /\ buf \in Seq(Symbol) /\ Len(buf) \in Nat /\ Base \in Nat
  BY FrameIs, UnreadIs DEF WireIInv
<1>2. /\ data \in Seq(Octet) /\ n \in Nat /\ Count(n) \in Nat
      /\ \A p \in 1 .. n + Count(n) : Symbols(k)[HeaderSize + p] = Blocks(data)[p]
  BY <1>1, SerializeIs DEF Symbols
<1>3. bodySize = n + Count(n) /\ BodySize(n) = n + Count(n)
  BY <1>2, BodySizeIs DEF InBody
<1>4. header.length - MinLength = n /\ BlockCount = Count(n)
  <2>1. header.length = MinLength + n
    BY DEF InBody, WellFormed
  <2>2. header.length - MinLength = n
    BY <1>2, <2>1, LinkSizesAssumption
  <2>3. QED
    BY <2>2 DEF BlockCount, Count
<1>5. Base = Start(k) + HeaderSize
  BY DEF InBody
<1> HIDE DEF n, data, w
<1>6. ASSUME NEW p \in 1 .. n + Count(n)
      PROVE  \/ buf[p] = Blocks(data)[p]
             \/ k \in damaged /\ buf[p] \in Damaged
  <2> DEFINE j == HeaderSize + p
  <2>0. p \in Nat \ {0} /\ p <= BodySize(n) /\ p <= bodySize /\ bodySize \in Nat
    BY <1>2, <1>3
  <2>1. j \in 1 .. Len(Symbols(k)) /\ Start(k) + j > Base /\ Start(k) + j - Base = p
        /\ p <= Len(buf)
    BY SMTT(30), <1>1, <1>5, <2>0 DEF HeaderSize
  <2> HIDE DEF j
  <2>2. \/ buf[p] = Symbols(k)[j]
        \/ k \in damaged /\ buf[p] \in Damaged
    BY <2>1, InBuffer
  <2>3. QED
    BY <1>2, <2>2 DEF j
<1>7. ASSUME NEW i \in 1 .. Count(n)
      PROVE  LET a == (i - 1) * w
                 l == Filled(n, i)
             IN /\ a \in Nat /\ l \in Nat /\ a + l + 1 \in 1 .. n + Count(n)
                /\ \A j \in 1 .. l : a + j \in 1 .. n + Count(n)
                /\ VerifyCrc(BlockWithCrc(i)) <=> buf[a + l + 1] = Crc(Covered(buf, a, l))
                /\ Covered(buf, a, l) \in Seq(Symbol) /\ Len(Covered(buf, a, l)) = l
                /\ \A j \in 1 .. l : Covered(buf, a, l)[j] = buf[a + j]
  <2> DEFINE a == (i - 1) * w
             l == Filled(n, i)
  <2>1. a \in Nat /\ a + l + 1 \in 1 .. n + Count(n) /\ Shorter(i * w, n + Count(n)) = a + l + 1
    BY <1>2, BlockEnd DEF w
  <2>2. l \in Nat
    BY <1>2, FilledBounds, LinkSizesAssumption
  <2>3. BlockWithCrc(i) = SubSeq(buf, a + 1, a + l + 1)
    BY <1>3, <2>1 DEF BlockWithCrc, w
  <2> HIDE DEF a, l
  <2>4. a + l + 1 <= Len(buf)
    BY SMTT(30), <1>1, <1>2, <1>3, <2>1, <2>2
  <2>5. \A j \in 1 .. l : a + j \in 1 .. n + Count(n)
    BY SMTT(30), <1>2, <2>1, <2>2
  <2> DEFINE p == a + 1
             q == a + l + 1
  <2>60. p = a + 1 /\ q = a + l + 1 /\ q <= Len(buf)
    BY <2>4
  <2> HIDE DEF p, q
  <2>6. /\ VerifyCrc(SubSeq(buf, p, q)) <=> buf[q] = Crc(Covered(buf, a, l))
        /\ Covered(buf, a, l) \in Seq(Symbol) /\ Len(Covered(buf, a, l)) = l
        /\ \A j \in 1 .. l : Covered(buf, a, l)[j] = buf[a + j]
    BY <1>1, <2>1, <2>2, <2>60, VerifyIs
  <2>7. QED
    BY <2>1, <2>2, <2>3, <2>5, <2>6 DEF a, l, p, q
<1>8. ASSUME NEW i \in 1 .. Count(n)
      PROVE  LET a == (i - 1) * w
                 l == Filled(n, i)
             IN /\ DataBlock(data, i) \in Seq(Symbol) /\ Len(DataBlock(data, i)) = l
                /\ Blocks(data)[a + l + 1] = Crc(DataBlock(data, i))
                /\ \A j \in 1 .. l :
                     /\ Blocks(data)[a + j] = DataBlock(data, i)[j]
                     /\ DataBlock(data, i)[j] = O(data[(i - 1) * BlockSize + j])
  <2>1. i \in 1 .. Count(Len(data))
    BY DEF n
  <2>2. DataBlock(data, i) \in Seq(Symbol)
    <3>1. DataBlock(data, i) \in Seq(Plain) /\ Plain \subseteq Symbol
      BY <1>2, <2>1, DataBlockIs DEF Symbol
    <3>2. QED
      BY <3>1, SeqMonotonic
  <2>3. QED
    BY <1>2, <2>1, <2>2, DataBlockIs, BlocksAre DEF n, w
<1>9. ASSUME k \notin damaged, NEW i \in 1 .. Count(n)
      PROVE  VerifyCrc(BlockWithCrc(i))
  <2> DEFINE a == (i - 1) * w
             l == Filled(n, i)
             b == Covered(buf, a, l)
  <2>1. /\ a + l + 1 \in 1 .. n + Count(n)
        /\ \A j \in 1 .. l : a + j \in 1 .. n + Count(n)
        /\ VerifyCrc(BlockWithCrc(i)) <=> buf[a + l + 1] = Crc(b)
        /\ b \in Seq(Symbol) /\ Len(b) = l
        /\ \A j \in 1 .. l : b[j] = buf[a + j]
    BY <1>7
  <2>2. /\ DataBlock(data, i) \in Seq(Symbol) /\ Len(DataBlock(data, i)) = l
        /\ Blocks(data)[a + l + 1] = Crc(DataBlock(data, i))
        /\ \A j \in 1 .. l : Blocks(data)[a + j] = DataBlock(data, i)[j]
    BY <1>8
  <2> HIDE DEF a, l, b
  <2>3. \A j \in 1 .. l : b[j] = DataBlock(data, i)[j]
    BY <1>6, <1>9, <2>1, <2>2
  <2>4. b = DataBlock(data, i)
    BY <2>1, <2>2, <2>3, SeqEqual
  <2>5. buf[a + l + 1] = Crc(DataBlock(data, i))
    BY <1>6, <1>9, <2>1, <2>2
  <2>6. QED
    BY <2>1, <2>4, <2>5
<1>10. ASSUME BodyValid, NEW m \in 1 .. n
       PROVE  buf[m + ((m - 1) \div BlockSize)][2] = data[m]
  <2>0. PICK i \in 1 .. Count(n) : \E j \in 1 .. Filled(n, i) :
          /\ m = (i - 1) * BlockSize + j
          /\ m + ((m - 1) \div BlockSize) = (i - 1) * w + j
    BY <1>2, OctetPlace DEF w
  <2>1. PICK j \in 1 .. Filled(n, i) :
          /\ m = (i - 1) * BlockSize + j
          /\ m + ((m - 1) \div BlockSize) = (i - 1) * w + j
    BY <2>0
  <2> DEFINE a == (i - 1) * w
             l == Filled(n, i)
             b == Covered(buf, a, l)
  <2>2. /\ a + l + 1 \in 1 .. n + Count(n)
        /\ VerifyCrc(BlockWithCrc(i)) <=> buf[a + l + 1] = Crc(b)
        /\ b[j] = buf[a + j]
    BY <1>7
  <2>3. /\ Blocks(data)[a + l + 1] = Crc(DataBlock(data, i))
        /\ DataBlock(data, i)[j] = O(data[(i - 1) * BlockSize + j])
    BY <1>8
  <2>4. VerifyCrc(BlockWithCrc(i))
    BY <1>4, <1>10 DEF BodyValid
  <2> HIDE DEF a, l, b
  <2>5. buf[a + l + 1] = Crc(DataBlock(data, i))
    <3>1. \A x : Crc(b) # O(x)
      BY Kinds
    <3>2. buf[a + l + 1] \notin Damaged
      BY <2>2, <2>4, <3>1 DEF Damaged
    <3>3. QED
      BY <1>6, <2>2, <2>3, <3>2
  <2>6. b = DataBlock(data, i)
    BY <2>2, <2>4, <2>5, Kinds
  <2>7. buf[a + j] = O(data[m])
    BY <2>1, <2>2, <2>3, <2>6
  <2>8. QED
    BY <2>1, <2>7, Kinds DEF a
<1>11. ASSUME BodyValid PROVE UserData = data
  <2>1. UserData = [m \in 1 .. n |-> buf[m + ((m - 1) \div BlockSize)][2]]
    BY <1>4 DEF UserData
  <2>2. data = [m \in 1 .. n |-> data[m]]
    BY <1>2, LenProperties DEF n
  <2>3. UserData = [m \in 1 .. n |-> data[m]]
    BY <1>10, <1>11, <2>1
  <2>4. QED
    BY <2>2, <2>3
<1>12. QED
  BY <1>4, <1>9, <1>11 DEF BodyValid, data

-----------------------------------------------------------------------------
(* What the steps leave alone *)

\* Frames begin where the one before ends.
LEMMA FramesApart ==
  ASSUME StreamIInv, NEW j \in 1 .. Len(sent), NEW k \in 1 .. Len(sent)
  PROVE  /\ Start(k) < ends[k] /\ Start(k) + HeaderSize <= ends[k]
         /\ j < k => ends[j] <= Start(k)
         /\ ends[j] <= ends[k] => j <= k
         /\ Start(j) < ends[k] => j <= k
<1>1. /\ Start(k) \in Nat /\ ends[k] \in Nat /\ k \in Nat
      /\ ends[k] = Start(k) + Len(Symbols(k))
      /\ Len(Symbols(k)) = HeaderSize + BodySize(Len(sent[k].data))
      /\ BodySize(Len(sent[k].data)) \in Nat
  BY FrameIs
<1>2. /\ Start(j) \in Nat /\ ends[j] \in Nat /\ j \in Nat
      /\ ends[j] = Start(j) + Len(Symbols(j))
      /\ Len(Symbols(j)) = HeaderSize + BodySize(Len(sent[j].data))
      /\ BodySize(Len(sent[j].data)) \in Nat
  BY FrameIs
<1>3. Start(k) < ends[k] /\ Start(k) + HeaderSize <= ends[k] /\ Start(j) < ends[j]
  <2> DEFINE a == BodySize(Len(sent[k].data))
             b == BodySize(Len(sent[j].data))
  <2>1. a \in Nat /\ b \in Nat /\ HeaderSize = 5
    BY <1>1, <1>2 DEF HeaderSize
  <2>0. Start(k) \in Nat /\ ends[k] \in Nat /\ Start(j) \in Nat /\ ends[j] \in Nat
    BY <1>1, <1>2
  <2>2. ends[k] = Start(k) + (5 + a) /\ ends[j] = Start(j) + (5 + b)
    BY <1>1, <1>2, <2>1
  <2> HIDE DEF a, b
  <2>3. QED
    BY <2>0, <2>1, <2>2
<1>4. /\ j < k => ends[j] <= Start(k)
      /\ k < j => ends[k] <= Start(j)
  BY DEF StreamIInv
<1>5. QED
  BY SMTT(30), <1>1, <1>2, <1>3, <1>4

LEMMA StreamStays ==
  ASSUME UNCHANGED <<sent, ends>>
  PROVE  /\ StreamLength' = StreamLength
         /\ \A k : Start(k)' = Start(k) /\ Symbols(k)' = Symbols(k)
         /\ StreamIInv => StreamIInv'
<1>1. StreamLength' = StreamLength
  BY DEF StreamLength
<1>2. \A k : Start(k)' = Start(k) /\ Symbols(k)' = Symbols(k)
  BY DEF Start, Symbols
<1>3. ASSUME StreamIInv PROVE StreamIInv'
  BY <1>1, <1>2, <1>3 DEF StreamIInv
<1>4. QED
  BY <1>1, <1>2, <1>3

\* The first d symbols of the buffer are used up.
LEMMA Consumed ==
  ASSUME StreamIInv, WireIInv, NEW d \in 0 .. Len(buf), buf' = From(d + 1),
         UNCHANGED <<sent, ends, wire, damaged>>
  PROVE  /\ StreamIInv' /\ WireIInv'
         /\ Base' = Base + d
         /\ Len(buf') = Len(buf) - d
         /\ \A i \in 1 .. Len(buf) - d : buf'[i] = buf[d + i]
<1>1. /\ StreamLength' = StreamLength /\ StreamIInv'
      /\ \A k : Start(k)' = Start(k) /\ Symbols(k)' = Symbols(k)
  BY StreamStays
<1>2. /\ buf \in Seq(Symbol) /\ wire \in Seq(Symbol) /\ Len(buf) \in Nat /\ Len(wire) \in Nat
      /\ StreamLength \in Nat /\ Base \in Nat /\ StreamLength = Base + Len(buf) + Len(wire)
      /\ \A i \in 1 .. Len(buf) : Unread[i] = buf[i] /\ buf[i] \in Symbol
      /\ \A i \in 1 .. Len(wire) : Unread[Len(buf) + i] = wire[i]
  BY UnreadIs DEF WireIInv
<1>3. /\ buf' \in Seq(Symbol) /\ Len(buf') = Len(buf) - d
      /\ \A i \in 1 .. Len(buf) - d : buf'[i] = buf[d + i]
  <2> DEFINE m == d + 1
             n == Len(buf)
  <2>1. m \in Int /\ n \in Int /\ n - m + 1 = n - d /\ m \in 1 .. n + 1
    BY <1>2
  <2>2. \A i \in m .. n : buf[i] \in Symbol
    BY <1>2
  <2> HIDE DEF m, n
  <2>3. /\ SubSeq(buf, m, n) \in Seq(Symbol)
        /\ Len(SubSeq(buf, m, n)) = IF m <= n THEN n - m + 1 ELSE 0
        /\ \A i \in 1 .. n - m + 1 : SubSeq(buf, m, n)[i] = buf[m + i - 1]
    BY SMTT(30), <2>1, <2>2, SubSeqProperties
  <2>4. Len(SubSeq(buf, m, n)) = n - d
    BY <2>1, <2>3
  <2>5. \A i \in 1 .. n - d : m + i - 1 = d + i
    BY <1>2, <2>1 DEF m
  <2>6. \A i \in 1 .. n - d : SubSeq(buf, m, n)[i] = buf[d + i]
    BY <2>1, <2>3, <2>5
  <2>7. buf' = SubSeq(buf, m, n)
    BY DEF From, m, n
  <2>8. QED
    BY <2>3, <2>4, <2>6, <2>7 DEF n
<1>30. d \in Nat /\ Len(buf) - d \in Nat
  BY <1>2
<1>4. Base' = Base + d
  <2>1. Base' = StreamLength - (Len(buf) - d + Len(wire))
    BY <1>1, <1>3 DEF Base
  <2>2. QED
    BY <1>2, <1>30, <2>1
<1>5. /\ Len(Unread') = Len(buf) - d + Len(wire)
      /\ \A i \in 1 .. Len(buf) - d + Len(wire) : Unread'[i] = Unread[d + i]
  <2>1. /\ Len(buf' \o wire) = Len(buf') + Len(wire)
        /\ \A i \in 1 .. Len(buf') + Len(wire) :
             (buf' \o wire)[i] = IF i <= Len(buf') THEN buf'[i] ELSE wire[i - Len(buf')]
    BY <1>2, <1>3, ConcatProperties
  <2>2. Unread' = buf' \o wire
    BY DEF Unread
  <2>3. ASSUME NEW i \in 1 .. Len(buf) - d + Len(wire)
        PROVE  (buf' \o wire)[i] = Unread[d + i]
    <3>1. CASE i <= Len(buf) - d
      <4>1. i \in 1 .. Len(buf) - d /\ d + i \in 1 .. Len(buf) /\ i \in 1 .. Len(buf') + Len(wire)
        BY <1>2, <1>3, <3>1
      <4>2. QED
        BY <1>2, <1>3, <2>1, <3>1, <4>1
    <3>2. CASE i > Len(buf) - d
      <4> DEFINE q == i - (Len(buf) - d)
      <4>1. q \in 1 .. Len(wire) /\ Len(buf) + q = d + i
        BY <1>2, <3>2
      <4>2. (buf' \o wire)[i] = wire[q]
        <5>0. Len(buf') = Len(buf) - d /\ Len(buf) \in Nat /\ Len(wire) \in Nat
          BY <1>2, <1>3
        <5>1. i \in 1 .. Len(buf') + Len(wire) /\ ~(i <= Len(buf')) /\ i - Len(buf') = q
          BY <1>30, <3>2, <5>0
        <5>2. QED
          BY <2>1, <5>1
      <4>3. QED
        BY <1>2, <4>1, <4>2
    <3>3. i <= Len(buf) - d \/ i > Len(buf) - d
      BY <1>2, <1>30
    <3>4. QED
      BY <3>1, <3>2, <3>3
  <2>4. QED
    BY <1>3, <2>1, <2>2, <2>3
<1>6. ASSUME NEW k \in 1 .. Len(sent), NEW j \in 1 .. Len(Symbols(k)), Start(k) + j > Base'
      PROVE  \/ Unread'[Start(k) + j - Base'] = Symbols(k)[j]
             \/ k \in damaged /\ Unread'[Start(k) + j - Base'] \in Damaged
  <2>1. /\ Start(k) \in Nat /\ ends[k] = Start(k) + Len(Symbols(k)) /\ ends[k] <= StreamLength
        /\ Len(Symbols(k)) \in Nat
    BY FrameIs
  <2> DEFINE i == Start(k) + j - Base'
  <2>2. i \in 1 .. Len(buf) - d + Len(wire) /\ d + i = Start(k) + j - Base /\ Start(k) + j > Base
    <3>1. Start(k) + j > Base + d /\ i = Start(k) + j - (Base + d)
      BY <1>4, <1>6
    <3>2. Start(k) + j <= Base + Len(buf) + Len(wire) /\ j \in Nat
      BY SMTT(30), <1>2, <2>1
    <3> HIDE DEF i
    <3>3. /\ Start(k) \in Nat /\ Base \in Nat /\ j \in Nat /\ d \in Nat
          /\ Len(buf) \in Nat /\ Len(wire) \in Nat
      BY <1>2, <1>30, <2>1, <3>2
    <3>4. i \in Int /\ d + i = Start(k) + j - Base /\ Start(k) + j > Base
      BY SMTT(30), <3>1, <3>3
    <3>5. i >= 1
      BY SMTT(30), <3>1, <3>3
    <3>6. i <= Len(buf) - d + Len(wire)
      BY SMTT(30), <3>1, <3>2, <3>3
    <3>7. QED
      BY <3>3, <3>4, <3>5, <3>6
  <2>3. \/ Unread[Start(k) + j - Base] = Symbols(k)[j]
        \/ k \in damaged /\ Unread[Start(k) + j - Base] \in Damaged
    BY <2>2 DEF WireIInv
  <2> HIDE DEF i
  <2>4. Unread'[i] = Unread[d + i]
    BY <1>5, <2>2
  <2>5. QED
    BY <2>2, <2>3, <2>4 DEF i
<1>7. WireIInv'
  BY SMTT(30), <1>1, <1>2, <1>3, <1>4, <1>6 DEF WireIInv
<1>8. QED
  BY <1>1, <1>3, <1>4, <1>7

\* A sync in the buffer is seen where an undamaged frame begins.
LEMMA SyncAhead ==
  ASSUME StreamIInv, WireIInv, NEW k \in 1 .. Len(sent), k \notin damaged,
         Base <= Start(k), Start(k) + 1 - Base <= Len(buf)
  PROVE  /\ Start(k) + 1 - Base \in 1 .. Len(buf)
         /\ buf[Start(k) + 1 - Base] = O(Sync1)
         /\ Start(k) + 2 - Base <= Len(buf) => Start(k) + 1 - Base \in Syncs
<1>1. /\ Start(k) \in Nat /\ Base \in Nat /\ Len(buf) \in Nat
      /\ Len(Symbols(k)) = HeaderSize + BodySize(Len(sent[k].data))
      /\ BodySize(Len(sent[k].data)) \in Nat /\ sent[k] \in Frame /\ k \in Nat
  BY FrameIs, UnreadIs
<1>2. Symbols(k)[1] = O(Sync1) /\ Symbols(k)[2] = O(Sync2)
  BY <1>1, SerializeIs DEF Symbols
<1>3. 1 \in 1 .. Len(Symbols(k)) /\ 2 \in 1 .. Len(Symbols(k))
  BY <1>1 DEF HeaderSize
<1>4. Start(k) + 1 > Base /\ Start(k) + 2 > Base /\ Start(k) + 1 - Base \in 1 .. Len(buf)
  BY <1>1
<1>5. buf[Start(k) + 1 - Base] = O(Sync1)
  BY <1>2, <1>3, <1>4, InBuffer
<1>6. ASSUME Start(k) + 2 - Base <= Len(buf)
      PROVE  Start(k) + 1 - Base \in Syncs
  <2>1. buf[Start(k) + 2 - Base] = O(Sync2)
    BY <1>2, <1>3, <1>4, <1>6, InBuffer
  <2>2. /\ Start(k) + 1 - Base \in 1 .. Len(buf) - 1
        /\ (Start(k) + 1 - Base) + 1 = Start(k) + 2 - Base
    BY SMTT(30), <1>1, <1>6
  <2>3. QED
    BY <1>5, <2>1, <2>2 DEF Syncs
<1>7. QED
  BY <1>4, <1>5, <1>6

\* No frame is delivered, none is skipped.
LEMMA FramesKept ==
  ASSUME FramesIInv, StreamIInv, WireIInv, UNCHANGED <<sent, ends, delivered>>, Base <= Base',
         Base' \in Nat, damaged \subseteq damaged',
         \A k \in 1 .. Len(sent) :
           /\ WellFormed(sent[k]) /\ k \notin damaged' /\ ~Got(k)
           /\ Base <= Start(k) \/ InBody(k)
           => Base' <= Start(k) \/ InBody(k)'
  PROVE  FramesIInv'
<1>1. FramesGenuine'
  BY DEF FramesIInv, FramesGenuine
<1>2. \A k : Start(k)' = Start(k) /\ Got(k)' = Got(k)
  BY StreamStays DEF Got
<1>3. ASSUME NEW i \in 1 .. Len(delivered)
      PROVE  ends[delivered[i].number] <= Base'
  <2>1. delivered[i].number \in 1 .. Len(sent) /\ ends[delivered[i].number] <= Base
    BY DEF FramesIInv, FramesGenuine
  <2>2. ends[delivered[i].number] \in Nat /\ Base \in Nat
    BY <2>1, FrameIs, UnreadIs
  <2>3. QED
    BY <2>1, <2>2
<1>4. ASSUME NEW k \in 1 .. Len(sent), WellFormed(sent[k]), k \notin damaged'
      PROVE  Got(k) \/ Base' <= Start(k) \/ InBody(k)'
  <2>1. Got(k) \/ Base <= Start(k) \/ InBody(k)
    BY <1>4 DEF FramesIInv
  <2>2. QED
    BY <1>4, <2>1
<1>5. QED
  BY <1>1, <1>2, <1>3, <1>4 DEF FramesIInv, WellFormed

\* Frame k is delivered.
LEMMA FrameDelivered ==
  ASSUME FramesIInv, StreamIInv, WireIInv, UNCHANGED <<sent, ends, damaged>>,
         delivered \in Seq([number : Nat, data : Seq(Octet)]),
         NEW k \in 1 .. Len(sent),
         delivered' = Append(delivered, [number |-> k, data |-> sent[k].data]),
         Start(k) <= Base, Base < ends[k], Base' = ends[k],
         \A m \in 1 .. Len(sent) : InBody(m) => m = k
  PROVE  FramesIInv' /\ delivered' \in Seq([number : Nat, data : Seq(Octet)])
<1> DEFINE e == [number |-> k, data |-> sent[k].data]
           l == Len(delivered)
<1>1. /\ sent[k] \in Frame /\ k \in Nat /\ Start(k) \in Nat /\ ends[k] \in Nat /\ Base \in Nat
      /\ sent[k].data \in Seq(Octet)
  BY FrameIs, UnreadIs, SerializeIs
<1>2. /\ delivered' \in Seq([number : Nat, data : Seq(Octet)])
      /\ Len(delivered') = l + 1 /\ l \in Nat
      /\ \A i \in 1 .. l : delivered'[i] = delivered[i]
      /\ delivered'[l + 1] = e
  <2>1. e \in [number : Nat, data : Seq(Octet)]
    BY <1>1
  <2> HIDE DEF e
  <2>2. delivered' = Append(delivered, e)
    BY DEF e
  <2>3. QED
    BY <2>1, <2>2, AppendProperties, LenProperties
<1>3. ASSUME NEW i \in 1 .. l
      PROVE  /\ delivered[i].number \in 1 .. Len(sent)
             /\ delivered[i].data = sent[delivered[i].number].data
             /\ ends[delivered[i].number] <= ends[k]
             /\ delivered[i].number < k
  <2>1. /\ delivered[i].number \in 1 .. Len(sent)
        /\ delivered[i].data = sent[delivered[i].number].data
        /\ ends[delivered[i].number] <= Base
    BY DEF FramesIInv, FramesGenuine
  <2>2. ends[delivered[i].number] \in Nat /\ delivered[i].number \in Nat
    BY <2>1, FrameIs
  <2>3. delivered[i].number # k
    BY SMTT(30), <1>1, <2>1, <2>2
  <2>30. Base \in Nat /\ ends[k] \in Nat
    BY <1>1
  <2>31. ends[delivered[i].number] <= ends[k]
    <3> DEFINE x == ends[delivered[i].number]
    <3>1. x \in Nat /\ x <= Base
      BY <2>1, <2>2
    <3> HIDE DEF x
    <3>2. x <= ends[k]
      BY SMTT(30), <2>30, <3>1
    <3>3. QED
      BY <3>2 DEF x
  <2>4. delivered[i].number <= k
    BY <2>1, <2>31, FramesApart
  <2>5. QED
    BY SMTT(30), <1>1, <2>1, <2>2, <2>3, <2>31, <2>4
<1> HIDE DEF l
<1>4. \A i \in 1 .. l + 1 : i \in 1 .. l \/ i = l + 1
  BY <1>2
<1>5. ASSUME NEW i \in 1 .. l + 1
      PROVE  /\ delivered'[i].number \in 1 .. Len(sent)
             /\ delivered'[i].data = sent[delivered'[i].number].data
             /\ ends[delivered'[i].number] <= ends[k]
  <2>1. CASE i \in 1 .. l
    <3>1. ends[delivered[i].number] \in Nat
      BY <1>3, <2>1, FrameIs
    <3>2. ends[delivered[i].number] <= ends[k]
      BY <1>3, <2>1
    <3>3. QED
      BY <1>2, <1>3, <2>1, <3>2
  <2>2. CASE i = l + 1
    <3>1. e.number = k /\ e.data = sent[k].data /\ ends[k] <= ends[k]
      BY <1>1
    <3>2. QED
      BY <1>2, <2>2, <3>1
  <2>3. QED
    BY <1>4, <2>1, <2>2
<1>6. ASSUME NEW i \in 1 .. l + 1, NEW j \in 1 .. l + 1, i < j
      PROVE  delivered'[i].number < delivered'[j].number
  <2>1. i \in 1 .. l
    BY <1>2, <1>6
  <2>2. CASE j \in 1 .. l
    <3>1. delivered[i].number < delivered[j].number
      BY <1>6, <2>1, <2>2 DEF FramesIInv, FramesGenuine, l
    <3>2. QED
      BY <1>2, <2>1, <2>2, <3>1
  <2>3. CASE j = l + 1
    <3>1. delivered'[j].number = k
      BY <1>2, <2>3
    <3>2. delivered'[i].number = delivered[i].number
      BY <1>2, <2>1
    <3>3. QED
      BY <1>3, <2>1, <3>1, <3>2
  <2>4. QED
    BY <1>4, <2>2, <2>3
<1>7. FramesGenuine'
  BY <1>2, <1>5, <1>6 DEF FramesGenuine
<1>8. \A m : Start(m)' = Start(m)
  BY StreamStays
<1>9. ASSUME NEW m \in 1 .. Len(sent), WellFormed(sent[m]), m \notin damaged
      PROVE  Got(m)' \/ ends[k] <= Start(m)
  <2>1. CASE Got(m)
    <3>1. PICK i \in 1 .. l : delivered[i].number = m
      BY <2>1 DEF Got, l
    <3>2. i \in 1 .. l + 1 /\ delivered'[i].number = m
      BY <1>2, <3>1
    <3>3. QED
      BY <1>2, <3>2 DEF Got
  <2>2. CASE m = k
    <3>1. l + 1 \in 1 .. l + 1 /\ delivered'[l + 1].number = m
      BY <1>2, <2>2
    <3>2. QED
      BY <1>2, <3>1 DEF Got
  <2>3. CASE m # k /\ Base <= Start(m)
    <3>1. Start(m) \in Nat /\ ends[m] \in Nat /\ m \in Nat
      BY FrameIs
    <3>2. Start(m) < ends[m] /\ (m < k => ends[m] <= Start(k)) /\ (k < m => ends[k] <= Start(m))
      BY FramesApart
    <3>3. QED
      BY <1>1, <2>3, <3>1, <3>2
  <2>4. Got(m) \/ Base <= Start(m) \/ InBody(m)
    BY <1>9 DEF FramesIInv
  <2>5. QED
    BY <2>1, <2>2, <2>3, <2>4
<1>10. FramesIInv'
  BY <1>2, <1>5, <1>7, <1>8, <1>9 DEF FramesIInv, WellFormed
<1>11. QED
  BY <1>2, <1>10

-----------------------------------------------------------------------------
(* The steps of data_received *)

LEMMA LeastExists ==
  ASSUME NEW A, A \subseteq Nat, A # {}
  PROVE  \E i \in A : \A j \in A : i <= j
<1> DEFINE Less == {pair \in Nat \X Nat : pair[1] < pair[2]}
<1>1. IsWellFoundedOn(Less, Nat)
  BY NatLessThanWellFounded DEF OpToRel
<1>2. PICK i \in A : \A j \in A : <<j, i>> \notin Less
  <2> HIDE DEF Less
  <2>1. QED
    BY <1>1, WFMin
<1>3. ASSUME NEW j \in A PROVE i <= j
  <2>1. i \in Nat /\ j \in Nat /\ <<j, i>> \notin Less
    BY <1>2
  <2>2. QED
    BY <2>1
<1>4. QED
  BY <1>3

LEMMA Paused ==
  ASSUME StreamIInv, WireIInv, UNCHANGED <<sent, ends, wire, damaged, buf>>
  PROVE  StreamIInv' /\ WireIInv' /\ Base' = Base
<1>1. /\ StreamLength' = StreamLength /\ StreamIInv'
      /\ \A k : Start(k)' = Start(k) /\ Symbols(k)' = Symbols(k)
  BY StreamStays
<1>2. Base' = Base /\ Unread' = Unread
  BY <1>1 DEF Base, Unread
<1>3. WireIInv'
  BY <1>1, <1>2 DEF WireIInv
<1>4. QED
  BY <1>1, <1>2, <1>3

LEMMA BodyStays ==
  ASSUME UNCHANGED <<sent, ends, state, header, bodySize>>, Base' = Base
  PROVE  \A k : InBody(k)' <=> InBody(k)
<1>1. \A k : Start(k)' = Start(k)
  BY StreamStays
<1>2. QED
  BY <1>1 DEF InBody, WellFormed

LEMMA FoundSyncStep ==
  ASSUME LinkIInv, FoundSync
  PROVE  LinkIInv'
<1>1. /\ TypesIInv /\ StreamIInv /\ WireIInv /\ FramesIInv
      /\ working /\ state = "SYNC_HUNT" /\ state' = "HEADER"
      /\ UNCHANGED <<sent, ends, wire, damaged, errors, reconnects>>
      /\ UNCHANGED <<header, bodySize, working, delivered>>
  BY DEF LinkIInv, FoundSync, environment
<1>2. Len(buf) \in Nat /\ Base \in Nat
  BY <1>1, UnreadIs
<1>3. PICK i \in Syncs : (\A j \in Syncs : i <= j) /\ buf' = From(i)
  <2>1. Syncs # {} /\ buf' = From(CHOOSE i \in Syncs : \A j \in Syncs : i <= j)
    BY DEF FoundSync
  <2>2. Syncs \subseteq Nat
    BY <1>2 DEF Syncs
  <2>3. \E i \in Syncs : \A j \in Syncs : i <= j
    BY <2>1, <2>2, LeastExists
  <2>4. QED
    BY <2>1, <2>3
<1>4. i \in 1 .. Len(buf) - 1 /\ buf[i] = O(Sync1) /\ buf[i + 1] = O(Sync2)
  BY DEF Syncs
<1> DEFINE d == i - 1
<1>5. d \in 0 .. Len(buf) /\ d + 1 = i /\ d \in Nat
  BY <1>2, <1>4
<1> HIDE DEF d
<1>6. /\ StreamIInv' /\ WireIInv' /\ Base' = Base + d /\ Len(buf') = Len(buf) - d
      /\ \A j \in 1 .. Len(buf) - d : buf'[j] = buf[d + j]
  BY <1>1, <1>3, <1>5, Consumed
<1>7. PlaceIInv'
  <2>1. Len(buf') >= 2 /\ 1 \in 1 .. Len(buf) - d /\ 2 \in 1 .. Len(buf) - d /\ d + 2 = i + 1
    BY <1>2, <1>4, <1>5, <1>6
  <2>2. buf'[1] = O(Sync1) /\ buf'[2] = O(Sync2)
    BY <1>4, <1>5, <1>6, <2>1
  <2>3. QED
    BY <1>1, <2>1, <2>2 DEF PlaceIInv
<1>8. ASSUME NEW k \in 1 .. Len(sent), k \notin damaged, Base <= Start(k)
      PROVE  Base' <= Start(k)
  <2>1. Start(k) \in Nat
    BY <1>1, FrameIs
  <2>2. ASSUME Base + d > Start(k) PROVE FALSE
    <3>1. Start(k) + 1 - Base <= Len(buf) /\ Start(k) + 2 - Base <= Len(buf)
      BY <1>2, <1>4, <1>5, <2>1, <2>2
    <3>2. Start(k) + 1 - Base \in Syncs
      BY <1>1, <1>8, <3>1, SyncAhead
    <3>3. i <= Start(k) + 1 - Base
      BY <1>3, <3>2
    <3>4. QED
      BY <1>2, <1>5, <2>1, <2>2, <3>3
  <2>3. QED
    BY <1>2, <1>5, <1>6, <2>1, <2>2
<1>9. FramesIInv'
  <2>1. Base' \in Nat /\ Base <= Base'
    BY <1>2, <1>5, <1>6
  <2>2. \A k \in 1 .. Len(sent) : ~InBody(k)
    BY <1>1 DEF InBody
  <2>3. QED
    BY <1>1, <1>8, <2>1, <2>2, FramesKept
<1>10. TypesIInv' /\ WaitIInv'
  BY <1>1 DEF TypesIInv, WaitIInv
<1>11. QED
  BY <1>6, <1>7, <1>9, <1>10 DEF LinkIInv

LEMMA NoSyncStep ==
  ASSUME LinkIInv, NoSync
  PROVE  LinkIInv'
<1>1. /\ TypesIInv /\ StreamIInv /\ WireIInv /\ FramesIInv
      /\ working /\ state = "SYNC_HUNT" /\ Syncs = {} /\ working' = FALSE
      /\ UNCHANGED <<sent, ends, wire, damaged, errors, reconnects>>
      /\ UNCHANGED <<state, header, bodySize, delivered>>
      /\ buf' = LeftOver
  BY DEF LinkIInv, NoSync, Break, environment
<1>2. Len(buf) \in Nat /\ Base \in Nat /\ buf \in Seq(Symbol)
  BY <1>1, UnreadIs DEF WireIInv
<1> DEFINE keep == Len(buf) = 1 \/ (buf # <<>> /\ buf[Len(buf)] = O(Sync1))
           d == IF keep THEN Len(buf) - 1 ELSE Len(buf)
<1>3. keep => Len(buf) \in Nat \ {0}
  BY <1>2, EmptySeq
<1>4. d \in 0 .. Len(buf) /\ d \in Nat /\ Len(buf) - d < 2
  BY <1>2, <1>3
<1>5. buf' = From(d + 1)
  <2>1. CASE keep
    <3>1. d + 1 = Len(buf) /\ Len(buf) \in 1 .. Len(buf)
      BY <1>2, <1>3, <2>1
    <3>2. From(d + 1) = <<buf[Len(buf)]>>
      <4> DEFINE l == Len(buf)
                 t == SubSeq(buf, l, l)
      <4>1. l \in Int /\ l <= l /\ l - l + 1 = 1 /\ l + 1 - 1 = l /\ buf[l] \in Symbol
        BY <1>2, <3>1, ElementOfSeq
      <4> HIDE DEF l
      <4>2. \A i \in l .. l : buf[i] \in Symbol
        BY <4>1
      <4>3. /\ SubSeq(buf, l, l) \in Seq(Symbol)
            /\ Len(SubSeq(buf, l, l)) = IF l <= l THEN l - l + 1 ELSE 0
            /\ \A i \in 1 .. l - l + 1 : SubSeq(buf, l, l)[i] = buf[l + i - 1]
        BY <4>1, <4>2, SubSeqProperties
      <4>4. Len(t) = 1 /\ t[1] = buf[l]
        BY <4>1, <4>3
      <4>5. <<buf[l]>> \in Seq(Symbol) /\ Len(<<buf[l]>>) = 1 /\ <<buf[l]>>[1] = buf[l]
        BY <4>1
      <4>6. t \in Seq(Symbol)
        BY <4>3
      <4> HIDE DEF t
      <4>7. \A i \in 1 .. Len(t) : t[i] = <<buf[l]>>[i]
        BY <4>4, <4>5
      <4>8. t = <<buf[l]>>
        BY <4>4, <4>5, <4>6, <4>7, SeqEqual
      <4>9. From(d + 1) = t
        BY <3>1 DEF From, t, l
      <4>10. QED
        BY <4>8, <4>9 DEF l
    <3>3. QED
      BY <1>1, <2>1, <3>2 DEF LeftOver
  <2>2. CASE ~keep
    <3>1. d + 1 \in Int /\ Len(buf) \in Int /\ Len(buf) < d + 1
      BY <1>2, <2>2
    <3> HIDE DEF d
    <3>2. From(d + 1) = <<>>
      BY <3>1, SubSeqEmpty DEF From
    <3>3. QED
      BY <1>1, <2>2, <3>2 DEF LeftOver
  <2>3. QED
    BY <2>1, <2>2
<1>6. ASSUME NEW k \in 1 .. Len(sent), k \notin damaged, Base <= Start(k)
      PROVE  Base + d <= Start(k)
  <2>1. Start(k) \in Nat
    BY <1>1, FrameIs
  <2>2. ASSUME Base + d > Start(k) PROVE FALSE
    <3>1. Start(k) + 1 - Base <= Len(buf)
      BY <1>2, <1>4, <2>1, <2>2
    <3>2. /\ Start(k) + 1 - Base \in 1 .. Len(buf)
          /\ buf[Start(k) + 1 - Base] = O(Sync1)
          /\ ~(Start(k) + 2 - Base <= Len(buf))
      BY <1>1, <1>6, <3>1, SyncAhead
    <3>3. Start(k) + 1 - Base = Len(buf)
      BY <1>2, <2>1, <3>1, <3>2
    <3>4. buf # <<>>
      BY <1>2, <3>2, EmptySeq
    <3>5. keep
      BY <3>2, <3>3, <3>4
    <3>6. QED
      BY <1>2, <2>1, <2>2, <3>3, <3>5
  <2>3. QED
    BY <1>2, <1>4, <2>1, <2>2
<1> HIDE DEF d, keep
<1>7. StreamIInv' /\ WireIInv' /\ Base' = Base + d /\ Len(buf') = Len(buf) - d
  BY <1>1, <1>4, <1>5, Consumed
<1>8. FramesIInv'
  <2>1. Base' \in Nat /\ Base <= Base'
    BY <1>2, <1>4, <1>7
  <2>2. \A k \in 1 .. Len(sent) : ~InBody(k)
    BY <1>1 DEF InBody
  <2>3. QED
    BY <1>1, <1>6, <1>7, <2>1, <2>2, FramesKept
<1>9. TypesIInv' /\ WaitIInv' /\ PlaceIInv'
  BY <1>1, <1>4, <1>7 DEF TypesIInv, WaitIInv, PlaceIInv
<1>10. QED
  BY <1>7, <1>8, <1>9 DEF LinkIInv

LEMMA AwaitStep ==
  ASSUME LinkIInv, AwaitHeader \/ AwaitBody
  PROVE  LinkIInv'
<1>1. /\ TypesIInv /\ StreamIInv /\ WireIInv /\ PlaceIInv /\ FramesIInv
      /\ working' = FALSE
      /\ UNCHANGED <<sent, ends, wire, damaged, errors, reconnects>>
      /\ UNCHANGED <<state, buf, header, bodySize, delivered>>
      /\ \/ state = "HEADER" /\ Len(buf) < HeaderSize
         \/ state = "BODY" /\ Len(buf) < bodySize
  BY DEF LinkIInv, AwaitHeader, AwaitBody, Break, environment
<1>2. StreamIInv' /\ WireIInv' /\ Base' = Base
  BY <1>1, Paused
<1>3. \A k : InBody(k)' <=> InBody(k)
  BY <1>1, <1>2, BodyStays
<1>4. FramesIInv'
  <2>1. Base \in Nat /\ Base <= Base
    BY <1>1, UnreadIs
  <2>2. QED
    BY <1>1, <1>2, <1>3, <2>1, FramesKept
<1>5. PlaceIInv'
  BY <1>1, <1>3 DEF PlaceIInv
<1>6. TypesIInv' /\ WaitIInv'
  BY <1>1 DEF TypesIInv, WaitIInv
<1>7. QED
  BY <1>2, <1>4, <1>5, <1>6 DEF LinkIInv

LEMMA RejectHeaderStep ==
  ASSUME LinkIInv, RejectHeader
  PROVE  LinkIInv'
<1>1. /\ TypesIInv /\ StreamIInv /\ WireIInv /\ FramesIInv
      /\ working /\ state = "HEADER" /\ state' = "SYNC_HUNT" /\ Rejected
      /\ Len(buf) >= HeaderSize /\ buf' = Tail(buf)
      /\ UNCHANGED <<sent, ends, wire, damaged, errors, reconnects>>
      /\ UNCHANGED <<header, bodySize, working, delivered>>
  BY DEF LinkIInv, RejectHeader, Shed, environment
<1>2. Len(buf) \in Nat /\ Base \in Nat /\ buf \in Seq(Symbol)
  BY <1>1, UnreadIs DEF WireIInv
<1>3. 1 \in 0 .. Len(buf) /\ buf # <<>>
  BY <1>1, <1>2, EmptySeq DEF HeaderSize
<1>4. buf' = From(1 + 1)
  BY <1>1, <1>2, <1>3, TailIsSubSeq DEF From
<1>5. StreamIInv' /\ WireIInv' /\ Base' = Base + 1
  BY <1>1, <1>3, <1>4, Consumed
<1>6. ASSUME NEW k \in 1 .. Len(sent), WellFormed(sent[k]), k \notin damaged, Base <= Start(k)
      PROVE  Base' <= Start(k)
  <2>1. Start(k) \in Nat /\ Len(sent[k].data) \in Nat
    BY <1>1, FrameIs
  <2>2. ASSUME Base = Start(k) PROVE FALSE
    <3>1. HeaderValid /\ Parsed = [length |-> sent[k].length, number |-> k]
      BY <1>1, <1>6, <2>2, HeaderRead
    <3>2. Parsed.length = MinLength + Len(sent[k].data) /\ Len(sent[k].data) <= MaxUserData
      BY <1>6, <3>1 DEF WellFormed
    <3>3. ~Rejected
      BY <2>1, <3>1, <3>2, LinkSizesAssumption DEF Rejected
    <3>4. QED
      BY <1>1, <3>3
  <2>3. QED
    BY <1>2, <1>5, <1>6, <2>1, <2>2
<1>7. FramesIInv'
  <2>1. Base' \in Nat /\ Base <= Base'
    BY <1>2, <1>5
  <2>2. \A k \in 1 .. Len(sent) : ~InBody(k)
    BY <1>1 DEF InBody
  <2>3. QED
    BY <1>1, <1>6, <2>1, <2>2, FramesKept
<1>8. TypesIInv' /\ WaitIInv' /\ PlaceIInv'
  BY <1>1 DEF TypesIInv, WaitIInv, PlaceIInv
<1>9. QED
  BY <1>5, <1>7, <1>8 DEF LinkIInv

\* A header that is not rejected belongs to a frame whose length is that of its
\* data.
LEMMA HeaderAccepted ==
  ASSUME Unmistakable, StreamIInv, WireIInv, PlaceIInv, FramesIInv, state = "HEADER", ~Rejected
  PROVE  \E k \in 1 .. Len(sent) :
           /\ Base = Start(k) /\ Parsed = [length |-> sent[k].length, number |-> k]
           /\ WellFormed(sent[k])
<1>1. HeaderValid /\ ~(Parsed.length < MinLength) /\ ~(Parsed.length - MinLength > MaxUserData)
  BY DEF Rejected
<1>2. PICK k \in 1 .. Len(sent) :
        Base = Start(k) /\ Parsed = [length |-> sent[k].length, number |-> k]
  BY <1>1, HeaderGenuine
<1>3. sent[k] \in Frame
  BY FrameIs
<1>4. sent[k].length \in Nat /\ Len(sent[k].data) \in Nat
  BY <1>3, FrameIs, FrameAssumption
<1>5. sent[k].length - MinLength \in 0 .. MaxUserData
  BY <1>1, <1>2, <1>4, LinkSizesAssumption
<1>6. Len(sent[k].data) = sent[k].length - MinLength
  BY <1>3, <1>5, LengthAssumption
<1>7. WellFormed(sent[k])
  BY <1>4, <1>5, <1>6, LinkSizesAssumption DEF WellFormed
<1>8. QED
  BY <1>2, <1>7

LEMMA LinkOnlyStep ==
  ASSUME Unmistakable, LinkIInv, LinkOnly
  PROVE  LinkIInv'
<1>1. /\ TypesIInv /\ StreamIInv /\ WireIInv /\ PlaceIInv /\ FramesIInv
      /\ working /\ state = "HEADER" /\ state' = "SYNC_HUNT" /\ ~Rejected
      /\ Parsed.length = MinLength /\ header' = Parsed
      /\ Len(buf) >= HeaderSize /\ buf' = From(HeaderSize + 1)
      /\ delivered' = Append(delivered, [number |-> Parsed.number, data |-> <<>>])
      /\ UNCHANGED <<sent, ends, wire, damaged, errors, reconnects>>
      /\ UNCHANGED <<bodySize, working>>
  BY DEF LinkIInv, LinkOnly, Deliver, environment
<1>2. PICK k \in 1 .. Len(sent) :
        /\ Base = Start(k) /\ Parsed = [length |-> sent[k].length, number |-> k]
        /\ WellFormed(sent[k])
  BY <1>1, HeaderAccepted
<1>3. /\ sent[k] \in Frame /\ k \in Nat /\ Start(k) \in Nat /\ ends[k] \in Nat
      /\ Len(sent[k].data) \in Nat
      /\ ends[k] = Start(k) + Len(Symbols(k))
      /\ Len(Symbols(k)) = HeaderSize + BodySize(Len(sent[k].data))
      /\ sent[k].data \in Seq(Octet) /\ sent[k].length \in Nat
      /\ Start(k) < ends[k]
  BY <1>1, FrameIs, FrameAssumption, FramesApart, SerializeIs
<1>4. Len(sent[k].data) = 0 /\ sent[k].data = <<>>
  <2>1. Len(sent[k].data) = 0
    BY SMTT(30), <1>1, <1>2, <1>3, LinkSizesAssumption DEF WellFormed
  <2>2. QED
    BY <1>3, <2>1, EmptySeq
<1>5. ends[k] = Start(k) + HeaderSize
  <2>1. BodySize(0) = 0
    BY BodySizeIs, CountBounds
  <2>2. QED
    BY <1>3, <1>4, <2>1 DEF HeaderSize
<1>6. Len(buf) \in Nat /\ HeaderSize \in 0 .. Len(buf)
  BY <1>1, UnreadIs DEF HeaderSize
<1>7. StreamIInv' /\ WireIInv' /\ Base' = Base + HeaderSize
  BY <1>1, <1>6, Consumed
<1>8. delivered \in Seq([number : Nat, data : Seq(Octet)])
  BY <1>1 DEF TypesIInv
<1>9. FramesIInv' /\ delivered' \in Seq([number : Nat, data : Seq(Octet)])
  <2>1. delivered' = Append(delivered, [number |-> k, data |-> sent[k].data])
    BY <1>1, <1>2, <1>4
  <2>2. Start(k) <= Base /\ Base < ends[k] /\ Base' = ends[k]
    BY <1>2, <1>3, <1>5, <1>7
  <2>3. \A m \in 1 .. Len(sent) : InBody(m) => m = k
    BY <1>1 DEF InBody
  <2>4. QED
    BY <1>1, <1>8, <2>1, <2>2, <2>3, FrameDelivered
<1>10. header' \in [length : Nat, number : Nat]
  BY <1>1, <1>2, <1>3
<1>11. TypesIInv' /\ WaitIInv' /\ PlaceIInv'
  BY <1>1, <1>9, <1>10 DEF TypesIInv, WaitIInv, PlaceIInv
<1>12. QED
  BY <1>7, <1>9, <1>11 DEF LinkIInv

LEMMA AcceptHeaderStep ==
  ASSUME Unmistakable, LinkIInv, AcceptHeader
  PROVE  LinkIInv'
<1>1. /\ TypesIInv /\ StreamIInv /\ WireIInv /\ PlaceIInv /\ FramesIInv
      /\ working /\ state = "HEADER" /\ state' = "BODY" /\ ~Rejected
      /\ Parsed.length # MinLength /\ header' = Parsed
      /\ bodySize' = BodySize(Parsed.length - MinLength)
      /\ Len(buf) >= HeaderSize /\ buf' = From(HeaderSize + 1)
      /\ UNCHANGED <<sent, ends, wire, damaged, errors, reconnects>>
      /\ UNCHANGED <<working, delivered>>
  BY DEF LinkIInv, AcceptHeader, environment
<1>2. PICK k \in 1 .. Len(sent) :
        /\ Base = Start(k) /\ Parsed = [length |-> sent[k].length, number |-> k]
        /\ WellFormed(sent[k])
  BY <1>1, HeaderAccepted
<1>3. /\ sent[k] \in Frame /\ k \in Nat /\ Start(k) \in Nat /\ ends[k] \in Nat
      /\ Len(sent[k].data) \in Nat /\ sent[k].data \in Seq(Octet) /\ sent[k].length \in Nat
      /\ Start(k) + HeaderSize <= ends[k]
  <2>1. /\ sent[k] \in Frame /\ k \in Nat /\ Start(k) \in Nat /\ ends[k] \in Nat
        /\ Len(sent[k].data) \in Nat
    BY <1>1, FrameIs
  <2>2. sent[k].data \in Seq(Octet) /\ sent[k].length \in Nat
    BY <2>1, FrameAssumption
  <2>3. Start(k) + HeaderSize <= ends[k]
    BY <1>1, FramesApart
  <2>4. QED
    BY <2>1, <2>2, <2>3
<1>4. Parsed.length - MinLength = Len(sent[k].data) /\ sent[k].data # <<>>
  <2>1. Parsed.length - MinLength = Len(sent[k].data) /\ Len(sent[k].data) # 0
    BY <1>1, <1>2, <1>3, LinkSizesAssumption DEF WellFormed
  <2>2. QED
    BY <2>1, EmptySeq
<1>5. Len(buf) \in Nat /\ HeaderSize \in 0 .. Len(buf) /\ Base \in Nat /\ HeaderSize \in Nat
  BY <1>1, UnreadIs DEF HeaderSize
<1>6. StreamIInv' /\ WireIInv' /\ Base' = Base + HeaderSize
  BY <1>1, <1>5, Consumed
<1>7. InBody(k)'
  <2>1. Start(k)' = Start(k)
    BY <1>1, StreamStays
  <2>2. WellFormed(sent[k])'
    BY <1>1, <1>2 DEF WellFormed
  <2>3. Base' = Start(k)' + HeaderSize
    BY <1>2, <1>6, <2>1
  <2>4. header'.number = k /\ header'.length = sent[k].length
    BY <1>1, <1>2
  <2>5. bodySize' = BodySize(Len(sent[k].data))
    BY <1>1, <1>4
  <2>6. QED
    BY <1>1, <1>4, <2>2, <2>3, <2>4, <2>5 DEF InBody
<1>8. ASSUME NEW m \in 1 .. Len(sent), Base <= Start(m)
      PROVE  Base' <= Start(m) \/ InBody(m)'
  <2>1. Start(m) \in Nat /\ ends[m] \in Nat /\ m \in Nat
    BY <1>1, FrameIs
  <2>2. Start(m) < ends[m] /\ (m < k => ends[m] <= Start(k)) /\ (k < m => ends[k] <= Start(m))
    BY <1>1, FramesApart
  <2>3. CASE m = k
    BY <1>7, <2>3
  <2>4. CASE m # k
    <3>1. ends[k] <= Start(m)
      BY <1>2, <1>3, <1>8, <2>1, <2>2, <2>4
    <3>2. Base' <= Start(m)
      BY <1>2, <1>3, <1>5, <1>6, <2>1, <3>1
    <3>3. QED
      BY <3>2
  <2>5. QED
    BY <2>3, <2>4
<1>9. FramesIInv'
  <2>1. Base' \in Nat /\ Base <= Base'
    BY <1>5, <1>6
  <2>2. \A m \in 1 .. Len(sent) : ~InBody(m)
    BY <1>1 DEF InBody
  <2>3. QED
    BY <1>1, <1>8, <2>1, <2>2, FramesKept
<1>10. PlaceIInv'
  BY <1>1, <1>7 DEF PlaceIInv
<1>11. TypesIInv' /\ WaitIInv'
  <2>1. header' \in [length : Nat, number : Nat]
    BY <1>1, <1>2, <1>3
  <2>2. bodySize' \in Nat
    BY <1>1, <1>3, <1>4, BodySizeIs
  <2>3. QED
    BY <1>1, <2>1, <2>2 DEF TypesIInv, WaitIInv
<1>12. QED
  BY <1>6, <1>9, <1>10, <1>11 DEF LinkIInv

\* The body that is waited for ends where its frame does.
LEMMA BodyAway ==
  ASSUME StreamIInv, WireIInv, NEW k \in 1 .. Len(sent), InBody(k)
  PROVE  /\ bodySize \in Nat /\ Start(k) <= Base /\ Base < ends[k]
         /\ Base + bodySize = ends[k]
<1> DEFINE n == Len(sent[k].data)
           b == BodySize(n)
<1>1. /\ Start(k) \in Nat /\ ends[k] \in Nat /\ Base \in Nat
      /\ ends[k] = Start(k) + Len(Symbols(k))
      /\ Len(Symbols(k)) = HeaderSize + b
      /\ b \in Nat /\ n \in Nat /\ sent[k] \in Frame
  BY FrameIs, UnreadIs
<1>2. bodySize = b /\ Base = Start(k) + HeaderSize /\ sent[k].data # <<>>
  BY DEF InBody
<1>3. n > 0
  <2>1. sent[k].data \in Seq(Octet)
    BY <1>1, FrameAssumption
  <2>2. QED
    BY <1>2, <2>1, EmptySeq
<1>4. b > 0
  <2>1. b = n + Count(n) /\ Count(n) \in Nat
    BY <1>1, BodySizeIs, CountBounds
  <2>2. QED
    BY <1>1, <1>3, <2>1
<1>5. Base = Start(k) + 5 /\ ends[k] = Start(k) + (5 + b)
  BY <1>1, <1>2 DEF HeaderSize
<1>6. Start(k) \in Nat /\ Base \in Nat /\ b \in Nat
  BY <1>1
<1> HIDE DEF b, n
<1>7. QED
  BY <1>2, <1>4, <1>5, <1>6

LEMMA AcceptBodyStep ==
  ASSUME LinkIInv, AcceptBody
  PROVE  LinkIInv'
<1>1. /\ TypesIInv /\ StreamIInv /\ WireIInv /\ PlaceIInv /\ FramesIInv
      /\ working /\ state = "BODY" /\ state' = "SYNC_HUNT" /\ BodyValid
      /\ header' = NoHeader
      /\ Len(buf) >= bodySize /\ buf' = From(bodySize + 1)
      /\ delivered' = Append(delivered, [number |-> header.number, data |-> UserData])
      /\ UNCHANGED <<sent, ends, wire, damaged, errors, reconnects>>
      /\ UNCHANGED <<bodySize, working>>
  BY DEF LinkIInv, AcceptBody, Deliver, environment
<1>2. PICK k \in 1 .. Len(sent) : InBody(k)
  BY <1>1 DEF PlaceIInv
<1>3. bodySize \in Nat /\ Start(k) <= Base /\ Base < ends[k] /\ Base + bodySize = ends[k]
  BY <1>1, <1>2, BodyAway
<1>4. UserData = sent[k].data /\ header.number = k
  BY <1>1, <1>2, BodyRead DEF InBody
<1>5. Len(buf) \in Nat /\ bodySize \in 0 .. Len(buf)
  BY <1>1, <1>3, UnreadIs
<1>6. StreamIInv' /\ WireIInv' /\ Base' = Base + bodySize
  BY <1>1, <1>5, Consumed
<1>7. delivered \in Seq([number : Nat, data : Seq(Octet)])
  BY <1>1 DEF TypesIInv
<1>8. FramesIInv' /\ delivered' \in Seq([number : Nat, data : Seq(Octet)])
  <2>1. delivered' = Append(delivered, [number |-> k, data |-> sent[k].data])
    BY <1>1, <1>4
  <2>2. Base' = ends[k]
    BY <1>3, <1>6
  <2>3. \A m \in 1 .. Len(sent) : InBody(m) => m = k
    BY <1>4 DEF InBody
  <2>4. QED
    BY <1>1, <1>3, <1>7, <2>1, <2>2, <2>3, FrameDelivered
<1>9. header' \in [length : Nat, number : Nat]
  BY <1>1 DEF NoHeader
<1>10. TypesIInv' /\ WaitIInv' /\ PlaceIInv'
  BY <1>1, <1>8, <1>9 DEF TypesIInv, WaitIInv, PlaceIInv
<1>11. QED
  BY <1>6, <1>8, <1>10 DEF LinkIInv

LEMMA RejectBodyStep ==
  ASSUME LinkIInv, RejectBody
  PROVE  LinkIInv'
<1>1. /\ TypesIInv /\ StreamIInv /\ WireIInv /\ PlaceIInv /\ FramesIInv
      /\ working /\ state = "BODY" /\ state' = "SYNC_HUNT" /\ ~BodyValid
      /\ Len(buf) >= bodySize /\ buf' = From(bodySize + 1)
      /\ UNCHANGED <<sent, ends, wire, damaged, errors, reconnects>>
      /\ UNCHANGED <<header, bodySize, working, delivered>>
  BY DEF LinkIInv, RejectBody, environment
<1>2. PICK k \in 1 .. Len(sent) : InBody(k)
  BY <1>1 DEF PlaceIInv
<1>3. bodySize \in Nat /\ Start(k) <= Base /\ Base < ends[k] /\ Base + bodySize = ends[k]
  BY <1>1, <1>2, BodyAway
<1>4. k \in damaged
  BY <1>1, <1>2, BodyRead
<1>5. Len(buf) \in Nat /\ bodySize \in 0 .. Len(buf) /\ Base \in Nat
  BY <1>1, <1>3, UnreadIs
<1>6. StreamIInv' /\ WireIInv' /\ Base' = Base + bodySize
  BY <1>1, <1>5, Consumed
<1>7. ASSUME NEW m \in 1 .. Len(sent), m \notin damaged, Base <= Start(m) \/ InBody(m)
      PROVE  Base' <= Start(m)
  <2>1. Start(m) \in Nat /\ ends[m] \in Nat /\ m \in Nat /\ k \in Nat /\ Start(k) \in Nat
    BY <1>1, FrameIs
  <2>2. Start(m) < ends[m] /\ (m < k => ends[m] <= Start(k)) /\ (k < m => ends[k] <= Start(m))
    BY <1>1, FramesApart
  <2>3. m # k /\ Base <= Start(m)
    BY <1>2, <1>4, <1>7 DEF InBody
  <2>4. ends[k] <= Start(m)
    BY <1>3, <1>5, <2>1, <2>2, <2>3
  <2>5. QED
    BY <1>3, <1>6, <2>4
<1>8. FramesIInv'
  <2>1. Base' \in Nat /\ Base <= Base'
    BY <1>5, <1>6
  <2>2. QED
    BY <1>1, <1>7, <2>1, FramesKept
<1>9. TypesIInv' /\ WaitIInv' /\ PlaceIInv'
  BY <1>1 DEF TypesIInv, WaitIInv, PlaceIInv
<1>10. QED
  BY <1>6, <1>8, <1>9 DEF LinkIInv

-----------------------------------------------------------------------------
(* The steps of the environment *)

LEMMA DataReceivedStep ==
  ASSUME LinkIInv, NEW n \in 1 .. Len(wire), DataReceived(n)
  PROVE  LinkIInv'
<1>1. /\ TypesIInv /\ StreamIInv /\ WireIInv /\ PlaceIInv /\ FramesIInv
      /\ working' = TRUE
      /\ buf' = buf \o SubSeq(wire, 1, n) /\ wire' = SubSeq(wire, n + 1, Len(wire))
      /\ UNCHANGED <<sent, ends, damaged, errors, reconnects>>
      /\ UNCHANGED <<state, header, bodySize, delivered>>
  BY DEF LinkIInv, DataReceived
<1>2. /\ buf \in Seq(Symbol) /\ wire \in Seq(Symbol) /\ Len(buf) \in Nat /\ Len(wire) \in Nat
      /\ StreamLength \in Nat /\ Base \in Nat
  BY <1>1, UnreadIs DEF WireIInv
<1> DEFINE l == Len(wire)
           first == SubSeq(wire, 1, n)
           rest == SubSeq(wire, n + 1, l)
<1>3. first \in Seq(Symbol) /\ rest \in Seq(Symbol) /\ Len(first) = n /\ Len(rest) = l - n
  <2>1. \A i \in 1 .. l : wire[i] \in Symbol
    BY <1>2, ElementOfSeq
  <2>2. l \in Nat /\ n \in Nat /\ n <= l /\ n >= 1
    BY <1>2
  <2> HIDE DEF l
  <2>3. \A i \in 1 .. n : wire[i] \in Symbol
    BY <2>1, <2>2
  <2>4. first \in Seq(Symbol) /\ Len(first) = IF 1 <= n THEN n - 1 + 1 ELSE 0
    BY <2>2, <2>3, SubSeqProperties
  <2> DEFINE m == n + 1
  <2>5. m \in Int /\ l \in Int
    BY <2>2
  <2>6. \A i \in m .. l : wire[i] \in Symbol
    BY <2>1, <2>2
  <2>7. SubSeq(wire, m, l) \in Seq(Symbol)
        /\ Len(SubSeq(wire, m, l)) = IF m <= l THEN l - m + 1 ELSE 0
    <3> HIDE DEF m
    <3>1. QED
      BY <2>5, <2>6, SubSeqProperties
  <2>8. QED
    BY <2>2, <2>4, <2>7
<1>4. first \o rest = wire
  <2>1. 1 \in 1 .. Len(wire) + 1 /\ n \in 1 - 1 .. Len(wire) /\ Len(wire) \in n .. Len(wire)
    BY <1>2
  <2>2. first \o rest = SubSeq(wire, 1, Len(wire))
    BY <1>2, <2>1, ConcatAdjacentSubSeq
  <2>3. QED
    BY <1>2, <2>2, SubSeqFull
<1> HIDE DEF first, rest
<1>5. buf' \in Seq(Symbol) /\ Len(buf') = Len(buf) + n
  BY <1>1, <1>2, <1>3, ConcatProperties DEF first
<1>6. Unread' = Unread
  <2>1. (buf \o first) \o rest = buf \o (first \o rest)
    <3>1. buf \in Seq(Symbol) /\ first \in Seq(Symbol) /\ rest \in Seq(Symbol)
      BY <1>2, <1>3
    <3>2. Cat(Cat(buf, first), rest) = Cat(buf, Cat(first, rest))
      BY <3>1, CatAssociative
    <3>3. QED
      BY <3>2 DEF Cat
  <2>2. QED
    BY <1>1, <1>4, <2>1 DEF Unread, first, rest
<1>7. /\ StreamLength' = StreamLength /\ StreamIInv'
      /\ \A k : Start(k)' = Start(k) /\ Symbols(k)' = Symbols(k)
  BY <1>1, StreamStays
<1>8. wire' \in Seq(Symbol) /\ Len(wire') = Len(wire) - n
  BY <1>1, <1>3 DEF rest
<1>9. Base' = Base
  <2>1. Base' = StreamLength - ((Len(buf) + n) + (Len(wire) - n))
    BY <1>5, <1>7, <1>8 DEF Base
  <2>2. QED
    BY <1>2, <2>1 DEF Base
<1>10. WireIInv'
  BY <1>1, <1>5, <1>6, <1>7, <1>8, <1>9 DEF WireIInv
<1>11. \A k : InBody(k)' <=> InBody(k)
  BY <1>1, <1>9, BodyStays
<1>12. FramesIInv'
  BY <1>1, <1>2, <1>9, <1>11, FramesKept
<1>13. PlaceIInv'
  <2>1. ASSUME state = "HEADER"
        PROVE  Len(buf') >= 2 /\ buf'[1] = O(Sync1) /\ buf'[2] = O(Sync2)
    <3>1. Len(buf) >= 2 /\ buf[1] = O(Sync1) /\ buf[2] = O(Sync2)
      BY <1>1, <2>1 DEF PlaceIInv
    <3>2. \A i \in 1 .. Len(buf) + n :
            (buf \o first)[i] = IF i <= Len(buf) THEN buf[i] ELSE first[i - Len(buf)]
      BY <1>2, <1>3, ConcatProperties
    <3>3. 1 \in 1 .. Len(buf) + n /\ 2 \in 1 .. Len(buf) + n /\ 1 <= Len(buf) /\ 2 <= Len(buf)
      BY <1>2, <3>1
    <3>4. buf' = buf \o first
      BY <1>1 DEF first
    <3>5. buf'[1] = buf[1] /\ buf'[2] = buf[2]
      BY <3>2, <3>3, <3>4
    <3>6. QED
      BY <1>2, <1>5, <3>1, <3>5
  <2>2. QED
    BY <1>1, <1>11, <2>1 DEF PlaceIInv
<1>14. TypesIInv' /\ WaitIInv'
  BY <1>1 DEF TypesIInv, WaitIInv
<1>15. QED
  BY <1>7, <1>10, <1>12, <1>13, <1>14 DEF LinkIInv

\* Between two calls, what has arrived as a whole and was not damaged has been
\* delivered.
LEMMA ArrivedDelivered ==
  ASSUME LinkIInv, ~working, NEW k \in 1 .. Len(sent), WellFormed(sent[k]), k \notin damaged,
         ends[k] <= Base + Len(buf)
  PROVE  Got(k)
<1>1. /\ TypesIInv /\ StreamIInv /\ WireIInv /\ PlaceIInv /\ FramesIInv
      /\ state = "SYNC_HUNT" => Len(buf) < 2
      /\ state = "HEADER" => Len(buf) < HeaderSize
      /\ state = "BODY" => Len(buf) < bodySize
  BY DEF LinkIInv, WaitIInv
<1>2. /\ Start(k) \in Nat /\ ends[k] \in Nat /\ Base \in Nat /\ Len(buf) \in Nat /\ k \in Nat
  BY <1>1, FrameIs, UnreadIs
<1>3. ASSUME InBody(k) PROVE FALSE
  <2>1. bodySize \in Nat /\ Base + bodySize = ends[k]
    BY <1>1, <1>3, BodyAway
  <2>2. Len(buf) < bodySize
    BY <1>1, <1>3 DEF InBody
  <2>3. QED
    BY <1>2, <2>1, <2>2
<1>4. ASSUME Base <= Start(k) PROVE FALSE
  <2>1. Start(k) + HeaderSize <= ends[k]
    BY <1>1, FramesApart
  <2>2. Len(buf) >= 5
    BY <1>2, <1>4, <2>1 DEF HeaderSize
  <2>3. state = "BODY"
    BY SMTT(30), <1>1, <1>2, <2>2 DEF TypesIInv, HeaderSize
  <2>4. PICK m \in 1 .. Len(sent) : InBody(m)
    BY <1>1, <2>3 DEF PlaceIInv
  <2>5. bodySize \in Nat /\ Start(m) <= Base /\ Base < ends[m] /\ Base + bodySize = ends[m]
    BY <1>1, <2>4, BodyAway
  <2>6. Start(m) \in Nat /\ ends[m] \in Nat /\ m \in Nat
    BY <1>1, FrameIs
  <2>7. ends[k] < ends[m]
    BY SMTT(30), <1>1, <1>2, <2>3, <2>5, <2>6
  <2>8. k <= m /\ (k < m => ends[k] <= Start(m)) /\ Start(k) < ends[k]
    BY <1>1, <1>2, <2>6, <2>7, FramesApart
  <2>9. k # m
    BY <1>2, <2>6, <2>7
  <2>10. QED
    BY <1>2, <1>4, <2>5, <2>6, <2>8, <2>9
<1>5. QED
  BY <1>1, <1>3, <1>4 DEF FramesIInv

\* A frame that is sent follows the others.
LEMMA StreamGrows ==
  ASSUME StreamIInv, NEW l \in Nat, Len(sent) = l, NEW f \in Frame,
         sent' = Append(sent, f),
         ends' = Append(ends, StreamLength + Len(Serialize(f, l + 1)))
  PROVE  /\ StreamIInv'
         /\ Len(sent') = l + 1
         /\ StreamLength' = StreamLength + Len(Serialize(f, l + 1))
         /\ \A k \in 1 .. l :
              /\ Start(k)' = Start(k) /\ Symbols(k)' = Symbols(k)
              /\ sent'[k] = sent[k] /\ ends'[k] = ends[k]
         /\ Start(l + 1)' = StreamLength
         /\ Symbols(l + 1)' = Serialize(f, l + 1)
         /\ sent'[l + 1] = f
<1> DEFINE symbols == Serialize(f, l + 1)
           m == Len(symbols)
           e == StreamLength + m
<1>1. sent \in Seq(Frame) /\ ends \in Seq(Nat) /\ Len(ends) = l /\ l \in Nat
  BY LenProperties DEF StreamIInv
<1>2. symbols \in Seq(Symbol) /\ m \in Nat
  <2>1. symbols \in Seq(Symbol)
    BY <1>1, SerializeIs
  <2>2. QED
    BY <2>1, LenProperties
<1>3. StreamLength \in Nat /\ (l = 0 => StreamLength = 0) /\ (l # 0 => StreamLength = ends[l])
  <2>1. CASE l = 0
    <3>1. ends = <<>>
      BY <1>1, <2>1, EmptySeq
    <3>2. QED
      BY <2>1, <3>1 DEF StreamLength
  <2>2. CASE l # 0
    <3>1. ends # <<>> /\ l \in 1 .. Len(ends)
      BY <1>1, <2>2, EmptySeq
    <3>2. StreamLength = ends[l]
      BY <1>1, <3>1 DEF StreamLength
    <3>3. QED
      BY <1>1, <2>2, <3>1, <3>2, ElementOfSeq
  <2>3. QED
    BY <2>1, <2>2
<1>4. e \in Nat
  BY <1>2, <1>3
<1>5. sent' = Append(sent, f) /\ ends' = Append(ends, e)
  OBVIOUS
<1> HIDE DEF e, symbols, m
<1>6. /\ sent' \in Seq(Frame) /\ Len(sent') = l + 1 /\ sent'[l + 1] = f
      /\ \A i \in 1 .. l : sent'[i] = sent[i]
  BY <1>1, <1>5, AppendProperties
<1>7. /\ ends' \in Seq(Nat) /\ Len(ends') = l + 1 /\ ends'[l + 1] = e
      /\ \A i \in 1 .. l : ends'[i] = ends[i]
  <2>1. /\ ends' \in Seq(Nat) /\ Len(ends') = Len(ends) + 1 /\ ends'[Len(ends) + 1] = e
        /\ \A i \in 1 .. Len(ends) : ends'[i] = ends[i]
    BY <1>1, <1>4, <1>5, AppendProperties
  <2>2. QED
    BY <1>1, <2>1
<1>8. StreamLength' = e
  <2>1. ends' # <<>>
    BY <1>1, <1>7, EmptySeq
  <2>2. QED
    BY <1>7, <2>1 DEF StreamLength
<1>9. ASSUME NEW k \in 1 .. l
      PROVE  /\ Start(k)' = Start(k) /\ Symbols(k)' = Symbols(k)
             /\ sent'[k] = sent[k] /\ ends'[k] = ends[k]
  <2>1. sent'[k] = sent[k] /\ ends'[k] = ends[k]
    BY <1>6, <1>7
  <2>2. Symbols(k)' = Symbols(k)
    BY <2>1 DEF Symbols
  <2>3. k = 1 \/ k - 1 \in 1 .. l
    BY <1>1
  <2>4. Start(k)' = Start(k)
    BY <1>7, <2>3 DEF Start
  <2>5. QED
    BY <2>1, <2>2, <2>4
<1>10. Start(l + 1)' = StreamLength
  <2>1. CASE l = 0
    BY <1>3, <2>1 DEF Start
  <2>2. CASE l # 0
    <3>1. l \in 1 .. l /\ l + 1 # 1 /\ (l + 1) - 1 = l
      BY <1>1, <2>2
    <3>2. Start(l + 1)' = ends'[(l + 1) - 1]
      BY <3>1 DEF Start
    <3>3. QED
      BY <1>3, <1>7, <2>2, <3>1, <3>2
  <2>3. QED
    BY <2>1, <2>2
<1>11. Symbols(l + 1)' = symbols
  BY <1>6 DEF Symbols, symbols
<1>12. \A k \in 1 .. l + 1 : k \in 1 .. l \/ k = l + 1
  BY <1>1
<1>13. ASSUME NEW k \in 1 .. l + 1
       PROVE  ends'[k] = Start(k)' + Len(Symbols(k)')
  <2>1. CASE k \in 1 .. l
    <3>1. ends[k] = Start(k) + Len(Symbols(k))
      BY <2>1 DEF StreamIInv
    <3>2. QED
      BY <1>9, <2>1, <3>1
  <2>2. CASE k = l + 1
    <3>1. ends'[k] = e /\ Start(k)' = StreamLength /\ Symbols(k)' = symbols
      BY <1>7, <1>10, <1>11, <2>2
    <3>2. QED
      BY <3>1 DEF e, m
  <2>3. QED
    BY <1>12, <2>1, <2>2
<1>14. ASSUME NEW j \in 1 .. l + 1, NEW k \in 1 .. l + 1, j < k
       PROVE  ends'[j] <= Start(k)'
  <2>1. j \in 1 .. l
    BY <1>1, <1>14
  <2>2. CASE k \in 1 .. l
    <3>1. ends[j] <= Start(k)
      BY <1>14, <2>1, <2>2 DEF StreamIInv
    <3>2. QED
      BY <1>9, <2>1, <2>2, <3>1
  <2>3. CASE k = l + 1
    <3>1. ends[j] <= StreamLength
      BY <2>1, FrameIs
    <3>2. QED
      BY <1>9, <1>10, <2>1, <2>3, <3>1
  <2>4. QED
    BY <1>12, <2>2, <2>3
<1>15. ASSUME NEW p \in 1 .. e
       PROVE  \E k \in 1 .. l + 1 : Start(k)' < p /\ p <= ends'[k]
  <2>1. CASE p <= StreamLength
    <3>1. p \in 1 .. StreamLength
      BY <1>3, <1>4, <2>1
    <3>2. PICK k \in 1 .. l : Start(k) < p /\ p <= ends[k]
      BY <3>1 DEF StreamIInv
    <3>3. k \in 1 .. l + 1 /\ Start(k)' < p /\ p <= ends'[k]
      BY <1>1, <1>9, <3>2
    <3>4. QED
      BY <3>3
  <2>2. CASE p > StreamLength
    <3>1. l + 1 \in 1 .. l + 1 /\ p <= e
      BY <1>1, <1>4
    <3>2. Start(l + 1)' < p /\ p <= ends'[l + 1]
      BY <1>3, <1>4, <1>7, <1>10, <2>2, <3>1
    <3>3. QED
      BY <3>1, <3>2
  <2>3. p <= StreamLength \/ p > StreamLength
    BY <1>3, <1>4
  <2>4. QED
    BY <2>1, <2>2, <2>3
<1>16. StreamIInv'
  BY <1>6, <1>7, <1>8, <1>13, <1>14, <1>15 DEF StreamIInv
<1>17. QED
  BY <1>6, <1>8, <1>9, <1>10, <1>11, <1>16 DEF e, m, symbols

LEMMA SendStep ==
  ASSUME LinkIInv, NEW f \in Frame, Send(f)
  PROVE  LinkIInv'
<1>1. PICK l \in Nat : Len(sent) = l
  BY LenProperties DEF LinkIInv, StreamIInv
<1> DEFINE symbols == Serialize(f, l + 1)
           m == Len(symbols)
<1>2. /\ TypesIInv /\ StreamIInv /\ WireIInv /\ PlaceIInv /\ FramesIInv /\ WaitIInv
      /\ sent' = Append(sent, f) /\ wire' = wire \o symbols /\ ends' = Append(ends, StreamLength + m)
      /\ UNCHANGED <<damaged, errors, reconnects>>
      /\ UNCHANGED <<state, buf, header, bodySize, working, delivered>>
  BY <1>1 DEF LinkIInv, Send, receiver
<1>3. /\ StreamIInv' /\ Len(sent') = l + 1
      /\ StreamLength' = StreamLength + m
      /\ \A k \in 1 .. l :
           /\ Start(k)' = Start(k) /\ Symbols(k)' = Symbols(k)
           /\ sent'[k] = sent[k] /\ ends'[k] = ends[k]
      /\ Start(l + 1)' = StreamLength
      /\ Symbols(l + 1)' = symbols
      /\ sent'[l + 1] = f
  BY <1>1, <1>2, StreamGrows
<1>4. symbols \in Seq(Symbol) /\ m \in Nat
  <2>1. symbols \in Seq(Symbol)
    BY SerializeIs
  <2>2. QED
    BY <2>1, LenProperties
<1>5. /\ buf \in Seq(Symbol) /\ wire \in Seq(Symbol) /\ Len(buf) \in Nat /\ Len(wire) \in Nat
      /\ StreamLength \in Nat /\ Base \in Nat /\ StreamLength = Base + Len(buf) + Len(wire)
      /\ Unread \in Seq(Symbol) /\ Len(Unread) = Len(buf) + Len(wire)
  BY <1>2, UnreadIs DEF WireIInv
<1> HIDE DEF symbols, m
<1>6. wire' \in Seq(Symbol) /\ Len(wire') = Len(wire) + m
  BY <1>2, <1>4, <1>5, ConcatProperties DEF m
<1>7. Base' = Base
  <2>0. buf' = buf /\ StreamLength' = StreamLength + m /\ Len(wire') = Len(wire) + m
    BY <1>2, <1>3, <1>6 DEF m
  <2>1. Base' = (StreamLength + m) - (Len(buf) + (Len(wire) + m))
    BY <2>0 DEF Base
  <2>2. QED
    BY <1>4, <1>5, <2>1 DEF Base
<1>8. /\ \A i \in 1 .. Len(Unread) : Unread'[i] = Unread[i]
      /\ \A j \in 1 .. m : Unread'[Len(Unread) + j] = symbols[j]
  <2>1. Cat(buf, Cat(wire, symbols)) = Cat(Cat(buf, wire), symbols)
    BY <1>4, <1>5, CatAssociative
  <2>2. Unread' = Unread \o symbols
    BY <1>2, <2>1 DEF Cat, Unread, symbols
  <2>3. \A i \in 1 .. Len(Unread) + m :
          (Unread \o symbols)[i] = IF i <= Len(Unread) THEN Unread[i] ELSE symbols[i - Len(Unread)]
    BY <1>4, <1>5, ConcatProperties DEF m
  <2>4. Len(Unread) \in Nat
    BY <1>5
  <2>5. \A i \in 1 .. Len(Unread) : i \in 1 .. Len(Unread) + m /\ i <= Len(Unread)
    BY <1>4, <2>4
  <2>6. \A j \in 1 .. m : /\ Len(Unread) + j \in 1 .. Len(Unread) + m
                          /\ ~(Len(Unread) + j <= Len(Unread))
                          /\ (Len(Unread) + j) - Len(Unread) = j
    BY <1>4, <2>4
  <2>7. QED
    BY <2>2, <2>3, <2>5, <2>6
<1>9. \A k \in 1 .. l + 1 : k \in 1 .. l \/ k = l + 1
  BY <1>1
<1>10. ASSUME NEW k \in 1 .. l + 1, NEW j \in 1 .. Len(Symbols(k)'), Start(k)' + j > Base
       PROVE  \/ Unread'[Start(k)' + j - Base] = Symbols(k)'[j]
              \/ k \in damaged /\ Unread'[Start(k)' + j - Base] \in Damaged
  <2>1. CASE k \in 1 .. l
    <3> DEFINE i == Start(k) + j - Base
    <3>1. Start(k)' = Start(k) /\ Symbols(k)' = Symbols(k) /\ k \in 1 .. Len(sent)
      BY <1>1, <1>3, <2>1
    <3>2. /\ Start(k) \in Nat /\ Len(Symbols(k)) \in Nat /\ ends[k] \in Nat
          /\ ends[k] = Start(k) + Len(Symbols(k)) /\ ends[k] <= StreamLength
      BY <1>2, <3>1, FrameIs
    <3>3. j \in 1 .. Len(Symbols(k)) /\ Start(k) + j > Base
      BY <1>10, <3>1
    <3>4. i \in 1 .. Len(Unread)
      <4>1. Len(Unread) = Len(buf) + Len(wire) /\ StreamLength = Base + Len(buf) + Len(wire)
            /\ Len(buf) \in Nat /\ Len(wire) \in Nat /\ Base \in Nat
        BY <1>5
      <4>2. QED
        BY SMTT(30), <3>2, <3>3, <4>1
    <3>5. \/ Unread[i] = Symbols(k)[j]
          \/ k \in damaged /\ Unread[i] \in Damaged
      BY <1>2, <3>1, <3>3 DEF WireIInv
    <3> HIDE DEF i
    <3>6. Unread'[i] = Unread[i]
      BY <1>8, <3>4
    <3>7. QED
      BY <3>1, <3>5, <3>6 DEF i
  <2>2. CASE k = l + 1
    <3>1. Start(k)' = StreamLength /\ Symbols(k)' = symbols
      BY <1>3, <2>2 DEF symbols
    <3>2. j \in 1 .. m
      BY <1>10, <3>1 DEF m
    <3>3. StreamLength + j - Base = Len(Unread) + j
      <4>1. Len(Unread) = Len(buf) + Len(wire) /\ StreamLength = Base + Len(buf) + Len(wire)
            /\ Len(buf) \in Nat /\ Len(wire) \in Nat /\ Base \in Nat /\ j \in Nat
        BY <1>4, <1>5, <3>2
      <4>2. QED
        BY <4>1
    <3>4. Unread'[StreamLength + j - Base] = symbols[j]
      BY <1>8, <3>2, <3>3
    <3>5. QED
      BY <3>1, <3>4
  <2>3. QED
    BY <1>9, <2>1, <2>2
<1>11. damaged \subseteq 1 .. l + 1
  <2>1. damaged \subseteq 1 .. l
    BY <1>1, <1>2 DEF WireIInv
  <2>2. QED
    BY <1>1, <2>1
<1>12. WireIInv'
  BY <1>2, <1>3, <1>5, <1>6, <1>7, <1>10, <1>11 DEF WireIInv
<1>13. ASSUME NEW k \in 1 .. l PROVE InBody(k)' <=> InBody(k)
  BY <1>2, <1>3, <1>7 DEF InBody, WellFormed
<1>14. PlaceIInv'
  BY <1>1, <1>2, <1>3, <1>9, <1>13 DEF PlaceIInv
<1>15. \A i \in 1 .. Len(delivered) :
         /\ delivered[i].number \in 1 .. l /\ delivered[i].number \in 1 .. l + 1
         /\ delivered[i].data = sent[delivered[i].number].data
         /\ ends[delivered[i].number] <= Base
  <2>1. \A i \in 1 .. Len(delivered) :
         /\ delivered[i].number \in 1 .. l
         /\ delivered[i].data = sent[delivered[i].number].data
         /\ ends[delivered[i].number] <= Base
    BY <1>1, <1>2 DEF FramesIInv, FramesGenuine
  <2>2. \A k \in 1 .. l : k \in 1 .. l + 1
    BY <1>1
  <2>3. QED
    BY <2>1, <2>2
<1>16. FramesGenuine'
  <2>1. \A i \in 1 .. Len(delivered) :
          delivered[i].data = sent'[delivered[i].number].data
    BY <1>3, <1>15
  <2>2. \A i, j \in 1 .. Len(delivered) :
          i < j => delivered[i].number < delivered[j].number
    BY <1>2 DEF FramesIInv, FramesGenuine
  <2>3. QED
    BY <1>2, <1>3, <1>15, <2>1, <2>2 DEF FramesGenuine
<1>17. \A i \in 1 .. Len(delivered) : ends'[delivered[i].number] <= Base
  BY <1>3, <1>15
<1>18. ASSUME NEW k \in 1 .. l + 1, WellFormed(sent'[k]), k \notin damaged
       PROVE  Got(k)' \/ Base <= Start(k)' \/ InBody(k)'
  <2>1. CASE k \in 1 .. l
    <3>1. Got(k) \/ Base <= Start(k) \/ InBody(k)
      BY <1>1, <1>2, <1>3, <1>18, <2>1 DEF FramesIInv
    <3>2. Got(k)' <=> Got(k)
      BY <1>2 DEF Got
    <3>3. QED
      BY <1>3, <1>13, <2>1, <3>1, <3>2
  <2>2. CASE k = l + 1
    BY <1>3, <1>5, <2>2
  <2>3. QED
    BY <1>9, <2>1, <2>2
<1>19. FramesIInv'
  BY <1>2, <1>3, <1>7, <1>16, <1>17, <1>18 DEF FramesIInv, WellFormed
<1>20. TypesIInv' /\ WaitIInv'
  <2>1. sent' \in Seq(Frame)
    BY <1>3 DEF StreamIInv
  <2>2. QED
    BY <1>2, <1>3, <1>11, <2>1 DEF TypesIInv, WaitIInv
<1>21. QED
  BY <1>3, <1>12, <1>14, <1>19, <1>20 DEF LinkIInv

\* The frame that FrameAt names is the one whose symbol is hit.
LEMMA FrameHit ==
  ASSUME StreamIInv, WireIInv, NEW i \in 1 .. Len(wire)
  PROVE  /\ FrameAt(i) \in 1 .. Len(sent)
         /\ \A k \in 1 .. Len(sent) : \A j \in 1 .. Len(Symbols(k)) :
              Start(k) + j - Base = Len(buf) + i => k = FrameAt(i)
<1> DEFINE p == Base + Len(buf) + i
           hits == FramesOf(Len(wire) - i + 1)
<1>1. /\ Base \in Nat /\ Len(buf) \in Nat /\ Len(wire) \in Nat /\ StreamLength \in Nat
      /\ StreamLength = Base + Len(buf) + Len(wire)
  BY UnreadIs
<1>2. p \in 1 .. StreamLength /\ p \in Nat
  BY <1>1
<1>3. ASSUME NEW k \in 1 .. Len(sent) PROVE k \in hits <=> p <= ends[k]
  <2>1. ends[k] \in Nat
    BY FrameIs
  <2>2. k \in hits <=> StreamLength - ends[k] < Len(wire) - i + 1
    BY DEF FramesOf
  <2>3. StreamLength - ends[k] < Len(wire) - i + 1 <=> p <= ends[k]
    BY <1>1, <2>1
  <2>4. QED
    BY <2>2, <2>3
<1> HIDE DEF p
<1>4. PICK o \in 1 .. Len(sent) : Start(o) < p /\ p <= ends[o]
  BY <1>2 DEF StreamIInv
<1>5. ASSUME NEW k \in hits PROVE k \in 1 .. Len(sent) /\ o <= k
  <2>1. k \in 1 .. Len(sent)
    BY DEF FramesOf
  <2>2. p <= ends[k]
    BY <1>3, <2>1
  <2>3. Start(o) \in Nat /\ ends[k] \in Nat
    BY <2>1, FrameIs
  <2>4. Start(o) < ends[k]
    BY <1>2, <1>4, <2>2, <2>3
  <2>5. QED
    BY <2>1, <2>4, FramesApart
<1>6. o \in hits /\ o \in Nat
  BY <1>3, <1>4, FrameIs
<1> DEFINE Least(k) == k \in hits /\ \A m \in hits : k <= m
<1>7. Least(o)
  BY <1>5, <1>6
<1>8. \A k : Least(k) => k = o
  <2>1. ASSUME NEW k, Least(k) PROVE k = o
    <3>1. k <= o /\ o <= k /\ k \in 1 .. Len(sent)
      BY <1>5, <1>6, <2>1
    <3>2. k \in Nat
      BY <3>1
    <3>3. QED
      BY <1>6, <3>1, <3>2
  <2>2. QED
    BY <2>1
<1>9. FrameAt(i) = o
  <2>1. FrameAt(i) = CHOOSE k \in hits : \A m \in hits : k <= m
    BY DEF FrameAt
  <2>2. Least(FrameAt(i))
    BY <1>7, <2>1
  <2> HIDE DEF Least
  <2>3. QED
    BY <1>8, <2>2
<1> HIDE DEF hits, Least
<1>10. ASSUME NEW k \in 1 .. Len(sent), NEW j \in 1 .. Len(Symbols(k)),
              Start(k) + j - Base = Len(buf) + i
       PROVE  k = o
  <2>1. /\ Start(k) \in Nat /\ Len(Symbols(k)) \in Nat /\ ends[k] \in Nat /\ k \in Nat
        /\ ends[k] = Start(k) + Len(Symbols(k))
    BY FrameIs
  <2>2. Start(k) + j = p
    <3>1. Start(k) \in Nat /\ j \in Nat /\ Base \in Nat /\ Len(buf) \in Nat /\ i \in Nat
      BY <1>1, <2>1
    <3>2. Start(k) + j - Base = Len(buf) + i
      BY <1>10
    <3>3. QED
      BY SMTT(30), <3>1, <3>2 DEF p
  <2>3. Start(k) < p /\ p <= ends[k]
    BY <2>1, <2>2
  <2>4. Start(o) \in Nat /\ ends[o] \in Nat
    BY FrameIs
  <2>5. Start(o) < ends[k] /\ Start(k) < ends[o]
    BY SMTT(30), <1>2, <1>4, <2>1, <2>3, <2>4
  <2>6. o <= k /\ k <= o
    BY <2>5, FramesApart
  <2>7. QED
    BY <1>6, <2>1, <2>6
<1>11. QED
  BY <1>4, <1>9, <1>10

LEMMA DamageStep ==
  ASSUME LinkIInv, NEW i \in 1 .. Len(wire), NEW octet \in {Sync1, Noise}, Damage(i, octet)
  PROVE  LinkIInv'
<1>1. /\ TypesIInv /\ StreamIInv /\ WireIInv /\ PlaceIInv /\ FramesIInv /\ WaitIInv
      /\ errors < MaxErrors /\ errors' = errors + 1
      /\ wire' = [wire EXCEPT ![i] = O(octet)] /\ damaged' = damaged \cup {FrameAt(i)}
      /\ UNCHANGED <<sent, ends, reconnects>>
      /\ UNCHANGED <<state, buf, header, bodySize, working, delivered>>
  BY DEF LinkIInv, Damage, receiver
<1>2. /\ buf \in Seq(Symbol) /\ wire \in Seq(Symbol) /\ Len(buf) \in Nat /\ Len(wire) \in Nat
      /\ Base \in Nat /\ StreamLength = Base + Len(buf) + Len(wire)
      /\ Unread \in Seq(Symbol) /\ Len(Unread) = Len(buf) + Len(wire)
  BY <1>1, UnreadIs DEF WireIInv
<1>3. O(octet) \in Damaged /\ O(octet) \in Symbol
  BY DEF Damaged, Symbol, Plain
<1>4. /\ wire' \in Seq(Symbol) /\ Len(wire') = Len(wire)
      /\ \A n \in 1 .. Len(wire) : wire'[n] = IF n = i THEN O(octet) ELSE wire[n]
  BY <1>1, <1>2, <1>3, ExceptSeq
<1>5. /\ StreamLength' = StreamLength /\ StreamIInv'
      /\ \A k : Start(k)' = Start(k) /\ Symbols(k)' = Symbols(k)
  BY <1>1, StreamStays
<1>6. Base' = Base
  BY <1>1, <1>4, <1>5 DEF Base
<1>7. \A n \in 1 .. Len(Unread) :
        Unread'[n] = IF n = Len(buf) + i THEN O(octet) ELSE Unread[n]
  <2>1. \A n \in 1 .. Len(buf) + Len(wire) :
          Unread[n] = IF n <= Len(buf) THEN buf[n] ELSE wire[n - Len(buf)]
    BY <1>2, ConcatProperties DEF Unread
  <2>2. \A n \in 1 .. Len(buf) + Len(wire') :
          (buf \o wire')[n] = IF n <= Len(buf) THEN buf[n] ELSE wire'[n - Len(buf)]
    BY <1>2, <1>4, ConcatProperties
  <2>3. Unread' = buf \o wire'
    BY <1>1 DEF Unread
  <2>4. ASSUME NEW n \in 1 .. Len(Unread)
        PROVE  Unread'[n] = IF n = Len(buf) + i THEN O(octet) ELSE Unread[n]
    <3>1. n \in 1 .. Len(buf) + Len(wire) /\ n \in 1 .. Len(buf) + Len(wire')
      BY <1>2, <1>4
    <3>2. CASE n <= Len(buf)
      <4>1. n # Len(buf) + i
        BY <1>2, <3>1, <3>2
      <4>2. QED
        BY <2>1, <2>2, <2>3, <3>1, <3>2, <4>1
    <3>3. CASE ~(n <= Len(buf))
      <4>1. n - Len(buf) \in 1 .. Len(wire) /\ (n = Len(buf) + i <=> n - Len(buf) = i)
        BY <1>2, <3>1, <3>3
      <4>2. Unread'[n] = wire'[n - Len(buf)] /\ Unread[n] = wire[n - Len(buf)]
        BY <2>1, <2>2, <2>3, <3>1, <3>3
      <4>3. QED
        BY <1>4, <4>1, <4>2
    <3>4. QED
      BY <3>2, <3>3
  <2>5. QED
    BY <2>4
<1>8. ASSUME NEW k \in 1 .. Len(sent), NEW j \in 1 .. Len(Symbols(k)), Start(k) + j > Base
      PROVE  \/ Unread'[Start(k) + j - Base] = Symbols(k)[j]
             \/ k \in damaged' /\ Unread'[Start(k) + j - Base] \in Damaged
  <2> DEFINE n == Start(k) + j - Base
  <2>1. /\ Start(k) \in Nat /\ Len(Symbols(k)) \in Nat /\ ends[k] \in Nat
        /\ ends[k] = Start(k) + Len(Symbols(k)) /\ ends[k] <= StreamLength
    BY <1>1, FrameIs
  <2>2. n \in 1 .. Len(Unread)
    <3>1. Len(Unread) = Len(buf) + Len(wire) /\ StreamLength = Base + Len(buf) + Len(wire)
          /\ Len(buf) \in Nat /\ Len(wire) \in Nat /\ Base \in Nat
      BY <1>2
    <3>2. QED
      BY SMTT(30), <1>8, <2>1, <3>1
  <2>3. \/ Unread[n] = Symbols(k)[j]
        \/ k \in damaged /\ Unread[n] \in Damaged
    BY <1>1, <1>8 DEF WireIInv
  <2>4. n = Len(buf) + i => k = FrameAt(i)
    BY <1>1, FrameHit
  <2> HIDE DEF n
  <2>5. CASE n = Len(buf) + i
    <3>1. k \in damaged'
      BY <1>1, <2>4, <2>5
    <3>2. Unread'[n] = O(octet)
      BY <1>7, <2>2, <2>5
    <3>3. QED
      BY <1>3, <3>1, <3>2 DEF n
  <2>6. CASE n # Len(buf) + i
    <3>1. Unread'[n] = Unread[n]
      BY <1>7, <2>2, <2>6
    <3>2. QED
      BY <1>1, <2>3, <3>1 DEF n
  <2>7. QED
    BY <2>5, <2>6
<1>9. damaged' \subseteq 1 .. Len(sent)
  BY <1>1, FrameHit DEF WireIInv
<1>10. WireIInv'
  BY <1>1, <1>2, <1>4, <1>5, <1>6, <1>8, <1>9 DEF WireIInv
<1>11. \A k : InBody(k)' <=> InBody(k)
  BY <1>1, <1>6, BodyStays
<1>12. FramesIInv'
  <2>1. Base' \in Nat /\ Base <= Base' /\ damaged \subseteq damaged'
    BY <1>1, <1>2, <1>6
  <2>2. QED
    BY <1>1, <1>6, <1>11, <2>1, FramesKept
<1>13. PlaceIInv'
  BY <1>1, <1>11 DEF PlaceIInv
<1>14. TypesIInv' /\ WaitIInv'
  <2>1. errors' \in 0 .. MaxErrors
    BY <1>1, LinkSizesAssumption DEF TypesIInv
  <2>2. QED
    BY <1>1, <1>9, <2>1 DEF TypesIInv, WaitIInv
<1>15. QED
  BY <1>5, <1>10, <1>12, <1>13, <1>14 DEF LinkIInv

\* A new connection finds the receiver reset.
LEMMA ReconnectStep ==
  ASSUME LinkIInv, Unmistakable', Reconnect
  PROVE  LinkIInv'
<1>1. /\ TypesIInv /\ StreamIInv /\ WireIInv /\ PlaceIInv /\ FramesIInv /\ WaitIInv /\ ~working
      /\ reconnects < MaxReconnects /\ reconnects' = reconnects + 1
      /\ wire' = <<>> /\ damaged' = damaged \cup FramesOf(Len(wire))
      /\ UNCHANGED <<sent, ends, errors, working, delivered>>
  BY DEF LinkIInv, Reconnect
<1>2. reconnects' \in 0 .. MaxReconnects /\ reconnects' > 0
  BY <1>1, LinkSizesAssumption DEF TypesIInv
<1>3. state' = "SYNC_HUNT" /\ buf' = <<>> /\ header' = NoHeader /\ bodySize' = 0
  BY <1>2 DEF Unmistakable, Reconnect, LinkReset
<1>4. /\ Len(buf) \in Nat /\ Len(wire) \in Nat /\ StreamLength \in Nat /\ Base \in Nat
      /\ StreamLength = Base + Len(buf) + Len(wire)
  BY <1>1, UnreadIs
<1>5. /\ StreamLength' = StreamLength /\ StreamIInv'
      /\ \A k : Start(k)' = Start(k) /\ Symbols(k)' = Symbols(k)
  BY <1>1, StreamStays
<1>6. buf' \in Seq(Symbol) /\ wire' \in Seq(Symbol) /\ Len(buf') = 0 /\ Len(wire') = 0
  BY <1>1, <1>3, EmptySeq
<1>7. Base' = StreamLength
  <2>1. Base' = StreamLength - (0 + 0)
    BY <1>5, <1>6 DEF Base
  <2>2. QED
    BY <1>4, <2>1
<1>8. damaged' \subseteq 1 .. Len(sent)
  BY <1>1 DEF WireIInv, FramesOf
<1>9. ASSUME NEW k \in 1 .. Len(sent), NEW j \in 1 .. Len(Symbols(k))
      PROVE  ~(Start(k) + j > StreamLength)
  <2>1. /\ Start(k) \in Nat /\ Len(Symbols(k)) \in Nat
        /\ ends[k] = Start(k) + Len(Symbols(k)) /\ ends[k] <= StreamLength
    BY <1>1, FrameIs
  <2>2. QED
    BY <1>4, <2>1
<1>10. WireIInv'
  BY <1>1, <1>4, <1>5, <1>6, <1>7, <1>8, <1>9 DEF WireIInv
<1>11. ASSUME NEW k \in 1 .. Len(sent), WellFormed(sent[k]), k \notin damaged'
       PROVE  Got(k)
  <2>1. ends[k] \in Nat
    BY <1>1, FrameIs
  <2>2. k \notin damaged /\ ~(StreamLength - ends[k] < Len(wire))
    BY <1>1, <1>11 DEF FramesOf
  <2>3. ends[k] <= Base + Len(buf)
    BY <1>4, <2>1, <2>2
  <2>4. QED
    BY <1>1, <1>11, <2>2, <2>3, ArrivedDelivered
<1>12. FramesIInv'
  <2>1. Base' \in Nat /\ Base <= Base' /\ damaged \subseteq damaged'
    BY <1>1, <1>4, <1>7
  <2>2. QED
    BY <1>1, <1>11, <2>1, FramesKept
<1>13. TypesIInv' /\ WaitIInv' /\ PlaceIInv'
  <2>1. header' \in [length : Nat, number : Nat] /\ bodySize' \in Nat
    BY <1>3 DEF NoHeader
  <2>2. QED
    BY <1>1, <1>2, <1>3, <1>6, <1>8, <2>1 DEF TypesIInv, WaitIInv, PlaceIInv
<1>14. QED
  BY <1>5, <1>10, <1>12, <1>13 DEF LinkIInv

-----------------------------------------------------------------------------
(* The theorems *)

LEMMA LinkInitInv == Init => LinkIInv
<1> SUFFICES ASSUME Init PROVE LinkIInv
  OBVIOUS
<1>1. /\ sent = <<>> /\ ends = <<>> /\ wire = <<>> /\ damaged = {} /\ errors = 0 /\ reconnects = 0
      /\ state = "SYNC_HUNT" /\ buf = <<>> /\ header = NoHeader /\ bodySize = 0
      /\ working = FALSE /\ delivered = <<>>
  BY DEF Init
<1>2. /\ Len(sent) = 0 /\ Len(ends) = 0 /\ Len(buf) = 0 /\ Len(wire) = 0 /\ Len(delivered) = 0
      /\ sent \in Seq(Frame) /\ ends \in Seq(Nat) /\ buf \in Seq(Symbol) /\ wire \in Seq(Symbol)
      /\ delivered \in Seq([number : Nat, data : Seq(Octet)])
  BY <1>1, EmptySeq
<1>3. StreamLength = 0 /\ Base = 0
  <2>1. StreamLength = 0
    BY <1>1 DEF StreamLength
  <2>2. Base = 0 - (0 + 0)
    BY <1>2, <2>1 DEF Base
  <2>3. QED
    BY <2>1, <2>2
<1>4. 1 .. 0 = {}
  OBVIOUS
<1>5. StreamIInv
  BY <1>2, <1>3, <1>4 DEF StreamIInv
<1>6. WireIInv
  BY <1>1, <1>2, <1>3, <1>4 DEF WireIInv
<1>7. FramesIInv
  BY <1>2, <1>4 DEF FramesIInv, FramesGenuine
<1>8. PlaceIInv /\ WaitIInv
  BY <1>1, <1>2 DEF PlaceIInv, WaitIInv
<1>9. TypesIInv
  <2>1. header \in [length : Nat, number : Nat]
    BY <1>1 DEF NoHeader
  <2>2. errors \in 0 .. MaxErrors /\ reconnects \in 0 .. MaxReconnects
    BY <1>1, LinkSizesAssumption
  <2>3. QED
    BY <1>1, <1>2, <2>1, <2>2 DEF TypesIInv
<1>10. QED
  BY <1>5, <1>6, <1>7, <1>8, <1>9 DEF LinkIInv

LEMMA LinkStays == LinkIInv /\ UNCHANGED vars => LinkIInv'
<1> SUFFICES ASSUME LinkIInv, UNCHANGED vars PROVE LinkIInv'
  OBVIOUS
<1>1. /\ TypesIInv /\ StreamIInv /\ WireIInv /\ PlaceIInv /\ FramesIInv /\ WaitIInv
      /\ UNCHANGED <<sent, ends, wire, damaged, errors, reconnects>>
      /\ UNCHANGED <<state, buf, header, bodySize, working, delivered>>
  BY DEF LinkIInv, vars, environment, receiver
<1>2. StreamIInv' /\ WireIInv' /\ Base' = Base
  BY <1>1, Paused
<1>3. \A k : InBody(k)' <=> InBody(k)
  BY <1>1, <1>2, BodyStays
<1>4. FramesIInv'
  <2>1. Base \in Nat /\ Base <= Base
    BY <1>1, UnreadIs
  <2>2. QED
    BY <1>1, <1>2, <1>3, <2>1, FramesKept
<1>5. PlaceIInv' /\ TypesIInv' /\ WaitIInv'
  BY <1>1, <1>3 DEF PlaceIInv, TypesIInv, WaitIInv
<1>6. QED
  BY <1>2, <1>4, <1>5 DEF LinkIInv

LEMMA LinkStep ==
  ASSUME LinkIInv, Unmistakable, Unmistakable', [Next]_vars
  PROVE  LinkIInv'
<1>1. ASSUME NEW f \in Frame, Send(f) PROVE LinkIInv'
  BY <1>1, SendStep
<1>2. ASSUME NEW n \in 1 .. Len(wire), DataReceived(n) PROVE LinkIInv'
  BY <1>2, DataReceivedStep
<1>3. ASSUME LoopStep PROVE LinkIInv'
  <2>1. CASE FoundSync
    BY <2>1, FoundSyncStep
  <2>2. CASE NoSync
    BY <2>2, NoSyncStep
  <2>3. CASE AwaitHeader \/ AwaitBody
    BY <2>3, AwaitStep
  <2>4. CASE RejectHeader
    BY <2>4, RejectHeaderStep
  <2>5. CASE LinkOnly
    BY <2>5, LinkOnlyStep
  <2>6. CASE AcceptHeader
    BY <2>6, AcceptHeaderStep
  <2>7. CASE AcceptBody
    BY <2>7, AcceptBodyStep
  <2>8. CASE RejectBody
    BY <2>8, RejectBodyStep
  <2>9. QED
    BY <1>3, <2>1, <2>2, <2>3, <2>4, <2>5, <2>6, <2>7, <2>8 DEF LoopStep
<1>4. ASSUME NEW i \in 1 .. Len(wire), NEW octet \in {Sync1, Noise}, Damage(i, octet)
      PROVE  LinkIInv'
  BY <1>4, DamageStep
<1>5. ASSUME Reconnect PROVE LinkIInv'
  BY <1>5, ReconnectStep
<1>6. CASE UNCHANGED vars
  BY <1>6, LinkStays
<1>7. QED
  BY <1>1, <1>2, <1>3, <1>4, <1>5, <1>6 DEF Next

\* What was sent, and how often the connection broke: known of every run.
SentIInv == sent \in Seq(Frame) /\ reconnects \in Nat

LEMMA SentStep == SentIInv /\ [Next]_vars => SentIInv'
<1> SUFFICES ASSUME SentIInv, [Next]_vars PROVE SentIInv'
  OBVIOUS
<1>1. CASE UNCHANGED <<sent, reconnects>>
  BY <1>1 DEF SentIInv
<1>2. ASSUME NEW f \in Frame, Send(f) PROVE SentIInv'
  BY <1>2, AppendProperties DEF Send, SentIInv
<1>3. CASE Reconnect
  BY <1>3 DEF Reconnect, SentIInv
<1>4. CASE LoopStep
  BY <1>1, <1>4 DEF LoopStep, FoundSync, NoSync, Break, AwaitHeader, RejectHeader, LinkOnly,
                    AcceptHeader, AwaitBody, AcceptBody, RejectBody, environment
<1>5. ASSUME NEW n \in 1 .. Len(wire), DataReceived(n) PROVE SentIInv'
  BY <1>1, <1>5 DEF DataReceived
<1>6. ASSUME NEW i \in 1 .. Len(wire), NEW octet \in {Sync1, Noise}, Damage(i, octet)
      PROVE  SentIInv'
  BY <1>1, <1>6 DEF Damage
<1>7. CASE UNCHANGED vars
  BY <1>1, <1>7 DEF vars, environment
<1>8. QED
  BY <1>2, <1>3, <1>4, <1>5, <1>6, <1>7 DEF Next

\* A stream that can be mistaken stays one: frames, damage and connections are
\* only added to it.
LEMMA MistakesLast ==
  ASSUME SentIInv, [Next]_vars, Unmistakable'
  PROVE  Unmistakable
<1> DEFINE Grown == /\ reconnects <= reconnects' /\ damaged \subseteq damaged'
                   /\ \A k \in 1 .. Len(sent) : k \in 1 .. Len(sent') /\ sent'[k] = sent[k]
<1>1. ASSUME UNCHANGED <<sent, reconnects>>, damaged \subseteq damaged' PROVE Grown
  BY <1>1 DEF SentIInv
<1>2. ASSUME NEW f \in Frame, Send(f) PROVE Grown
  <2>1. sent' = Append(sent, f) /\ UNCHANGED <<damaged, reconnects>> /\ Len(sent) \in Nat
    BY <1>2, LenProperties DEF Send, SentIInv
  <2>2. Len(sent') = Len(sent) + 1 /\ \A k \in 1 .. Len(sent) : sent'[k] = sent[k]
    BY <2>1, AppendProperties DEF SentIInv
  <2>3. QED
    BY <2>1, <2>2 DEF SentIInv
<1>3. ASSUME Reconnect PROVE Grown
  BY <1>3 DEF Reconnect, SentIInv
<1>4. ASSUME LoopStep PROVE Grown
  BY <1>1, <1>4 DEF LoopStep, FoundSync, NoSync, Break, AwaitHeader, RejectHeader, LinkOnly,
                    AcceptHeader, AwaitBody, AcceptBody, RejectBody, environment
<1>5. ASSUME NEW n \in 1 .. Len(wire), DataReceived(n) PROVE Grown
  BY <1>1, <1>5 DEF DataReceived
<1>6. ASSUME NEW i \in 1 .. Len(wire), NEW octet \in {Sync1, Noise}, Damage(i, octet)
      PROVE  Grown
  BY <1>1, <1>6 DEF Damage
<1>7. ASSUME UNCHANGED vars PROVE Grown
  BY <1>1, <1>7 DEF vars, environment
<1>8. Grown
  BY <1>2, <1>3, <1>4, <1>5, <1>6, <1>7 DEF Next
<1>9. Unmistakable
  <2>1. ASSUME NEW k \in 1 .. Len(sent), Exposed(k) PROVE ~HeaderImage(sent[k])
    <3>1. k \in 1 .. Len(sent') /\ sent'[k] = sent[k] /\ damaged \subseteq damaged'
      BY <1>8
    <3>2. k \in damaged' \/ ~WellFormed(sent'[k])
      BY <2>1, <3>1 DEF Exposed
    <3>3. \A m \in 1 .. Len(sent') :
            m \in damaged' \/ ~WellFormed(sent'[m]) => ~HeaderImage(sent'[m])
      BY DEF Unmistakable, Exposed, WellFormed, HeaderImage
    <3>4. QED
      BY <3>1, <3>2, <3>3
  <2>2. reconnects > 0 => ResetOnReconnect
    BY <1>8, SentStep DEF Unmistakable, SentIInv
  <2>3. QED
    BY <2>1, <2>2 DEF Unmistakable
<1>10. QED
  BY <1>9

\* The inductive invariant holds for as long as the stream cannot be mistaken.
THEOREM LinkInvariance == Spec => [](Unmistakable => LinkIInv)
<1> DEFINE I == SentIInv /\ (Unmistakable => LinkIInv)
<1>1. Init => I
  <2>1. Init => SentIInv
    BY EmptySeq DEF Init, SentIInv
  <2>2. QED
    BY <2>1, LinkInitInv
<1>2. I /\ [Next]_vars => I'
  <2>1. ASSUME I, [Next]_vars, Unmistakable' PROVE LinkIInv'
    BY <2>1, MistakesLast, LinkStep
  <2>2. QED
    BY <2>1, SentStep
<1>3. I => (Unmistakable => LinkIInv)
  OBVIOUS
<1>4. QED
  BY <1>1, <1>2, <1>3, PTL DEF Spec

\* The receiver's state, buffer, header and expected body size have their types,
\* and a body that is waited for has the size its header says
\* (layer.py:28-39, 110-114).
THEOREM LinkTypeCorrect == Spec => [](Unmistakable => LinkTypeOK)
<1>1. (Unmistakable => LinkIInv) => (Unmistakable => LinkTypeOK)
  BY DEF LinkIInv, TypesIInv, LinkTypeOK
<1>2. QED
  BY <1>1, LinkInvariance, PTL

\* Whatever user data frames carry and wherever the reads are cut: until a frame
\* that carries the image of a header is damaged or refused, or a connection
\* inherits what another left, on_frame gets what the peer sent, unaltered, in
\* order and once (layer.py:75-135).
THEOREM FramesAreGenuine == Spec => []GenuineUnlessMistaken
<1>1. (Unmistakable => LinkIInv) => GenuineUnlessMistaken
  BY DEF LinkIInv, FramesIInv, GenuineUnlessMistaken
<1>2. QED
  BY <1>1, LinkInvariance, PTL

\* Until then every undamaged frame that has arrived has been delivered: the hunt
\* for a sync never skips one (layer.py:41-73).
THEOREM NoneMissed == Spec => []NoFrameMissed
<1>1. (Unmistakable => LinkIInv) => NoFrameMissed
  <2> SUFFICES ASSUME LinkIInv, ~working, wire = <<>>, NEW k \in 1 .. Len(sent),
                      WellFormed(sent[k]), k \notin damaged
               PROVE  \E i \in 1 .. Len(delivered) : delivered[i].number = k
    BY DEF NoFrameMissed
  <2>1. StreamIInv /\ WireIInv
    BY DEF LinkIInv
  <2>2. Len(wire) = 0
    BY EmptySeq
  <2>3. ends[k] <= Base + Len(buf)
    <3>1. ends[k] \in Nat /\ ends[k] <= StreamLength
      BY <2>1, FrameIs
    <3>2. Base \in Nat /\ Len(buf) \in Nat /\ StreamLength = Base + Len(buf) + Len(wire)
      BY <2>1, UnreadIs
    <3>3. QED
      BY <2>2, <3>1, <3>2
  <2>4. QED
    BY <2>3, ArrivedDelivered DEF Got
<1>2. QED
  BY <1>1, LinkInvariance, PTL

\* Between two reads the buffer holds less than what the receiver waits for, also
\* when a connection is opened again without a reset (layer.py:41-73, 118).
THEOREM BufferStaysSmall == Spec => []BufferBounded
<1> DEFINE I == WaitIInv /\ state \in {"SYNC_HUNT", "HEADER", "BODY"}
<1>1. Init => I
  <2>1. buf = <<>> => Len(buf) = 0
    BY EmptySeq
  <2>2. QED
    BY <2>1 DEF Init, WaitIInv
<1>2. I /\ [Next]_vars => I'
  <2> SUFFICES ASSUME I, [Next]_vars PROVE I'
    OBVIOUS
  <2>1. ASSUME NEW f \in Frame, Send(f) PROVE I'
    BY <2>1 DEF Send, WaitIInv, receiver
  <2>2. ASSUME NEW n \in 1 .. Len(wire), DataReceived(n) PROVE I'
    BY <2>2 DEF DataReceived, WaitIInv
  <2>3. ASSUME NEW i \in 1 .. Len(wire), NEW octet \in {Sync1, Noise}, Damage(i, octet)
        PROVE  I'
    BY <2>3 DEF Damage, WaitIInv, receiver
  <2>4. CASE Reconnect
    <3>1. Len(<<>>) = 0
      BY EmptySeq
    <3>2. CASE ResetOnReconnect
      BY <2>4, <3>1, <3>2 DEF Reconnect, LinkReset, WaitIInv
    <3>3. CASE ~ResetOnReconnect
      BY <2>4, <3>3 DEF Reconnect, WaitIInv, receiver
    <3>4. QED
      BY <3>2, <3>3
  <2>5. CASE NoSync
    <3>1. LeftOver = <<>> \/ LeftOver = <<buf[Len(buf)]>>
      BY DEF LeftOver
    <3>2. Len(LeftOver) < 2
      <4>1. \A x : Len(<<x>>) = 1
        OBVIOUS
      <4>2. Len(<<>>) = 0
        BY EmptySeq
      <4>3. Len(LeftOver) = 0 \/ Len(LeftOver) = 1
        BY <3>1, <4>1, <4>2
      <4>4. 0 < 2 /\ 1 < 2
        OBVIOUS
      <4>5. QED
        BY <4>3, <4>4, Zenon
    <3>3. buf' = LeftOver /\ state' = state /\ state = "SYNC_HUNT"
      BY <2>5 DEF NoSync, Break
    <3>4. QED
      BY <3>2, <3>3 DEF WaitIInv
  <2>6. CASE AwaitHeader \/ AwaitBody
    BY <2>6 DEF AwaitHeader, AwaitBody, Break, WaitIInv
  <2>7. CASE FoundSync \/ RejectHeader \/ LinkOnly
    BY <2>7 DEF FoundSync, RejectHeader, LinkOnly, WaitIInv
  <2>8. CASE AcceptHeader \/ AcceptBody \/ RejectBody
    BY <2>8 DEF AcceptHeader, AcceptBody, RejectBody, WaitIInv
  <2>9. CASE UNCHANGED vars
    BY <2>9 DEF vars, receiver, WaitIInv
  <2>10. QED
    BY <2>1, <2>2, <2>3, <2>4, <2>5, <2>6, <2>7, <2>8, <2>9 DEF Next, LoopStep
<1>3. I => BufferBounded
  BY DEF WaitIInv, BufferBounded, HeaderSize
<1>4. QED
  BY <1>1, <1>2, <1>3, PTL DEF Spec
=============================================================================

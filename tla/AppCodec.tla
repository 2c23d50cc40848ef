------------------------------ MODULE AppCodec ------------------------------
(* Application fragments: build_request and build_response write objects    *)
(* one after another, parse_fragment reads them back, with one handler for  *)
(* each object group (app/fragment.py, app/object_header.py, app/header.py, *)
(* objects/group*.py, util/buffer.py).                                      *)
(*                                                                          *)
(* A fragment is a sequence of octets.  A float is written as the whole     *)
(* number it holds, in as many octets: its own encoding is not modelled.    *)
EXTENDS Integers, SequencesExt

CONSTANTS
  Message,   \* the messages built: header fields and objects with points
  Foreign,   \* fragments of other stations, as octets
  Zone,      \* milliseconds the local clock is ahead of UTC
  Truncated, \* times of which int(seconds * 1000) is a millisecond less
  Nothing    \* Python's None

\* A message is [fc, seq, con |-> BOOLEAN, iin |-> two octets or <<>>, objects],
\* an object [header |-> [group, var, qual, start, stop, count], points]; points
\* have the attributes of their Python class, with 0 and 1 for booleans.

\* No place on earth is a day ahead of or behind UTC, or a part of a second.
ASSUME ZoneAssumption ==
  /\ Zone \in Int /\ -86400000 <= Zone /\ Zone <= 86400000
  /\ Zone % 1000 = 0

\* Full seconds are exact.
ASSUME TruncatedAssumption == Truncated \subseteq {n \in Nat : n % 1000 # 0}

VARIABLES
  message,   \* the message being built, or Nothing for a foreign fragment
  phase,     \* "build", in parse_fragment "header" or "objects", or the outcome:
             \* "unbuilt", "parsed", "refused" (an exception that is caught) or
             \* "escaped" (one that is not)
  data,      \* the octets written, then those received
  written,   \* objects written so far
  cut,       \* history: was the fragment cut before it was received?
  at,        \* ReadBuffer._offset
  parsed     \* the AppMessage parsed so far: header fields and objects

codecVars == <<message, phase, data, written, cut, at, parsed>>

-----------------------------------------------------------------------------
(* Constants of the protocol (app/constants.py) *)

FunctionCodes == 0 .. 30 \cup {129, 130}
IsResponse(fc) == fc >= 128

RANGE_8 == 0
RANGE_16 == 1
RANGE_32 == 2
ALL_POINTS == 6
COUNT_8 == 7
COUNT_16 == 8
COUNT_32 == 9
INDEX_8 == 23
INDEX_16 == 40
INDEX_32 == 57
FREE_8 == 27
FREE_16 == 91
Qualifiers == 0 .. 9 \cup {INDEX_8, INDEX_16, INDEX_32, FREE_8, FREE_16}

-----------------------------------------------------------------------------
(* Numbers as octets (util/buffer.py) *)

Octet == 0 .. 255

Width == [uint8 |-> 1, state |-> 1, uint16 |-> 2, int16 |-> 2, uint32 |-> 4, int32 |-> 4,
          float32 |-> 4, uint48 |-> 6, time |-> 6, float64 |-> 8]

Signed == {"int16", "int32", "float32", "float64"}

\* v without its low i octets.
Shifted(v, i) ==
  LET s[k \in 0 .. i] == IF k = 0 THEN v ELSE s[k - 1] \div 256
  IN s[i]

OctetsMutant(v, w) ==
  [i \in 1 .. w |-> IF i < w THEN Shifted(v, i - 1) % 256 ELSE Shifted(v, i - 1)]
\* The low w octets of v, least significant first; of a negative number those
\* of its two's complement.
Octets(v, w) == [i \in 1 .. w |-> Shifted(v, i - 1) % 256]

\* The number a sequence of octets stands for: above its last octet there are
\* only ones if it is negative.
Number(o, type) ==
  LET n == Len(o)
      top[i \in 0 .. n] == IF i = 0 THEN IF type \in Signed /\ o[n] >= 128 THEN -1 ELSE 0
                           ELSE o[n + 1 - i] + 256 * top[i - 1]
  IN top[n]

\* The octets a type has hold all of v.
InWidth(v, type) ==
  Shifted(v, Width[type] - 1) \in IF type \in Signed THEN -128 .. 127 ELSE 0 .. 255

\* struct.pack refuses a signed integer; the unsigned ones are masked.
Writable(v, type) == type \in {"int16", "int32"} => InWidth(v, type)

\* DNP3Timestamp.to_datetime raises ValueError for the year 10000, which starts
\* at 58999 * 2^32 + 53791 * 2^16 + 56320 milliseconds.
Late(o) ==
  LET Word(i) == o[2 * i - 1] + 256 * o[2 * i]
  IN \/ Word(3) > 58999
     \/ Word(3) = 58999 /\ (Word(2) > 53791 \/ (Word(2) = 53791 /\ Word(1) >= 56320))

\* ReadBuffer: reading past the end raises IndexError for one octet and
\* struct.error for more.  r is [at, values, fault].
\* The mutant does not check the end for single octets.
ReadMutant(r, type) ==
  LET end == r.at + Width[type]
      octets == SubSeq(data, r.at + 1, end)
  IN IF r.fault # "none" THEN r
     ELSE IF end > Len(data) /\ Width[type] > 1 THEN [r EXCEPT !.fault = "escaped"]
     ELSE IF type = "time" /\ Late(octets) THEN [r EXCEPT !.fault = "refused"]
     ELSE [r EXCEPT !.at = end,
                    !.values = Append(@, IF end > Len(data) THEN 0 ELSE Number(octets, type))]

Read(r, type) ==
  LET end == r.at + Width[type]
      octets == SubSeq(data, r.at + 1, end)
  IN IF r.fault # "none" THEN r
     ELSE IF end > Len(data)
          THEN [r EXCEPT !.fault = IF Width[type] = 1 THEN "refused" ELSE "escaped"]
     ELSE IF type = "time" /\ Late(octets) THEN [r EXCEPT !.fault = "refused"]
     ELSE [r EXCEPT !.at = end, !.values = Append(@, Number(octets, type))]

ReadAll(offset, types) ==
  LET r[i \in 0 .. Len(types)] ==
        IF i = 0 THEN [at |-> offset, values |-> <<>>, fault |-> "none"]
        ELSE Read(r[i - 1], types[i])
  IN r[Len(types)]

\* What WriteBuffer makes of the numbers.
WriteAll(values, types) ==
  FlattenSeq([i \in 1 .. Len(types) |-> Octets(values[i], Width[types[i]])])

-----------------------------------------------------------------------------
(* Object headers *)

\* The numbers that follow group, variation and qualifier.
RangeTypes(q) ==
  CASE q = RANGE_8  -> <<"uint8", "uint8">>
    [] q = RANGE_16 -> <<"uint16", "uint16">>
    [] q = RANGE_32 -> <<"uint32", "uint32">>
    [] q \in {COUNT_8, INDEX_8, FREE_8}    -> <<"uint8">>
    [] q \in {COUNT_16, INDEX_16, FREE_16} -> <<"uint16">>
    [] q \in {COUNT_32, INDEX_32}          -> <<"uint32">>
    [] OTHER -> <<>>

IsRange(q) == q \in {RANGE_8, RANGE_16, RANGE_32}

\* write_object_header knows fewer qualifiers than parse_object_header.
WritesRange(q) == q \in {RANGE_8, RANGE_16, COUNT_8, COUNT_16, INDEX_8, INDEX_16}

Numbers(h) == IF IsRange(h.qual) THEN <<h.start, h.stop>> ELSE <<h.count>>

HeaderOctets(h) ==
  WriteAll(<<h.group, h.var, h.qual>>, <<"uint8", "uint8", "uint8">>)
  \o WriteAll(Numbers(h), IF WritesRange(h.qual) THEN RangeTypes(h.qual) ELSE <<>>)

StopMutant(start, stop) == stop - start
\* stop - start + 1: not positive for a reversed range.
RangeCount(start, stop) == stop - start + 1

\* parse_object_header at an offset: the header, where it ends, and its fault.
ParseHeader(offset) ==
  LET fixed == ReadAll(offset, <<"uint8", "uint8", "uint8">>)
      qual == fixed.values[3]
      r == ReadAll(fixed.at, RangeTypes(qual))
      n == r.values
      header == [group |-> fixed.values[1], var |-> fixed.values[2], qual |-> qual,
                 start |-> IF IsRange(qual) THEN n[1] ELSE 0,
                 stop  |-> IF IsRange(qual) THEN n[2] ELSE 0,
                 count |-> IF IsRange(qual) THEN RangeCount(n[1], n[2])
                           ELSE IF RangeTypes(qual) = <<>> THEN 0 ELSE n[1]]
  IN IF fixed.fault # "none" \/ qual \notin Qualifiers
     THEN [fault |-> "refused", at |-> offset]
     ELSE IF r.fault # "none" THEN [fault |-> r.fault, at |-> offset]
     ELSE [fault |-> "none", at |-> r.at, header |-> header]

-----------------------------------------------------------------------------
(* Object groups: what follows the index of a point, attribute by attribute *)

Field(name, type, present) ==
  IF present THEN <<[name |-> name, type |-> type]>> ELSE <<>>

Group1Fields(v)  == Field("state", "state", v = 2)
Group2Fields(v)  == Field("state", "state", TRUE) \o Field("time", "time", v >= 2)
Group10Fields(v) == Field("state", "state", TRUE)

Group12Fields(v) ==
  Field("control", "uint8", TRUE) \o Field("count", "uint8", TRUE)
  \o Field("on_time_ms", "uint32", TRUE) \o Field("off_time_ms", "uint32", TRUE)
  \o Field("status", "uint8", TRUE)

Group20Fields(v) ==
  Field("flags", "uint8", v \in {1, 2}) \o Field("value", "uint32", v \in {1, 5})
  \o Field("value", "uint16", v \in {2, 6})

Group21Fields(v) ==
  Field("flags", "uint8", v \in {1, 2, 5, 6})
  \o Field("value", IF v \in {1, 5, 9} THEN "uint32" ELSE "uint16", TRUE)
  \o Field("time", "time", v \in {5, 6})

Group30Fields(v) ==
  Field("flags", "uint8", v \in {1, 2, 5, 6}) \o Field("value", "int32", v \in {1, 3})
  \o Field("value", "int16", v \in {2, 4}) \o Field("value", "float32", v = 5)
  \o Field("value", "float64", v = 6)

Group32Fields(v) ==
  Field("flags", "uint8", TRUE) \o Field("value", "int32", v \in {1, 3})
  \o Field("value", "int16", v \in {2, 4}) \o Field("value", "float32", v \in {5, 7})
  \o Field("value", "float64", v \in {6, 8}) \o Field("time", "time", v \in {3, 4, 7, 8})

Group40Fields(v) ==
  Field("flags", "uint8", TRUE) \o Field("value", "int32", v = 1)
  \o Field("value", "int16", v = 2) \o Field("value", "float32", v = 3)
  \o Field("value", "float64", v = 4)

\* Of an unknown variation serialize writes the status, parse reads nothing.
Group41Fields(v, reading) ==
  Field("value", "int32", v = 1) \o Field("value", "int16", v = 2)
  \o Field("value", "float32", v = 3) \o Field("value", "float64", v = 4)
  \o Field("status", "uint8", v \in 1 .. 4 \/ ~reading)

Group50Fields(v) == Field("ms_since_epoch", "uint48", TRUE)

Handled == {1, 2, 10, 12, 20, 21, 30, 32, 40, 41, 50, 60, 80}

Fields(g, v, reading) ==
  CASE g = 1  -> Group1Fields(v)   [] g = 2  -> Group2Fields(v)
    [] g = 10 -> Group10Fields(v)  [] g = 12 -> Group12Fields(v)
    [] g = 20 -> Group20Fields(v)  [] g = 21 -> Group21Fields(v)
    [] g = 30 -> Group30Fields(v)  [] g = 32 -> Group32Fields(v)
    [] g = 40 -> Group40Fields(v)  [] g = 41 -> Group41Fields(v, reading)
    [] g = 50 -> Group50Fields(v)  [] OTHER  -> <<>>

\* One bit for each point, without index.
Packed(g, v) == g = 80 \/ (g \in {1, 10} /\ v = 1)

\* Variations parse makes points of; of others it passes over what it reads.
Known(g, v) ==
  CASE g = 1 -> v \in {1, 2}  [] g = 20 -> v \in {1, 2, 5, 6}
    [] g = 30 -> v \in 1 .. 6 [] g = 32 -> v \in 1 .. 8
    [] g \in {40, 41} -> v \in 1 .. 4 [] OTHER -> TRUE

\* The index before each point.  INDEX_32 has none here.
Prefix(h) ==
  IF h.group = 50 \/ (h.group = 1 /\ ~Known(1, h.var)) THEN <<>>
  ELSE Field("index", "uint8", h.qual = INDEX_8)
       \o Field("index", "uint16", h.qual = INDEX_16)

\* Attributes of the Python class a group's points have (objects/types.py).
Attributes(g) ==
  CASE g \in {1, 2, 10, 20, 21, 30, 32, 40} -> {"index", "value", "flags", "time"}
    [] g = 12 -> {"index", "control", "count", "on_time_ms", "off_time_ms", "status"}
    [] g = 41 -> {"index", "value", "status"}
    [] g = 80 -> {"index", "value"}
    [] g = 50 -> {"ms_since_epoch"}
    [] g = 60 -> {"variation"}
    [] OTHER -> {}

-----------------------------------------------------------------------------
(* Serializing *)

\* DNP3Timestamp.from_datetime takes the naive time for local time, and cuts off
\* what a float of seconds lacks to the next millisecond.
Milliseconds(t) ==
  IF t = Nothing THEN 0 ELSE IF t - Zone \in Truncated THEN t - Zone - 1 ELSE t - Zone

StateOctet(p) == (p.flags % 128) + (128 * p.value)

FieldValue(p, name) ==
  CASE name = "state" -> StateOctet(p)
    [] name = "time"  -> Milliseconds(p.time)
    [] OTHER -> p[name]

\* Packed points are written without fields.
WriteFields(h) ==
  IF Packed(h.group, h.var) THEN <<>> ELSE Prefix(h) \o Fields(h.group, h.var, FALSE)

Serializable(o) ==
  o.header.group \in Handled \ {60} =>
    \A i \in 1 .. Len(o.points) :
      \A j \in 1 .. Len(WriteFields(o.header)) :
        LET f == WriteFields(o.header)[j]
        IN Writable(FieldValue(o.points[i], f.name), f.type)

SerializePoint(h, p) ==
  LET fs == WriteFields(h)
  IN WriteAll([j \in 1 .. Len(fs) |-> FieldValue(p, fs[j].name)],
              [j \in 1 .. Len(fs) |-> fs[j].type])

PackedSize(n) == (n + 7) \div 8

PowerOf2 == <<1, 2, 4, 8, 16, 32, 64, 128>>

\* _serialize_packed: the first point is the lowest bit.
SerializePacked(points) ==
  LET Bit(i) == IF i < Len(points) /\ points[i + 1].value = 1 THEN 1 ELSE 0
      octet(i) == Bit(i) + 2 * Bit(i + 1) + 4 * Bit(i + 2) + 8 * Bit(i + 3)
                    + 16 * Bit(i + 4) + 32 * Bit(i + 5) + 64 * Bit(i + 6) + 128 * Bit(i + 7)
  IN [k \in 1 .. PackedSize(Len(points)) |-> octet(8 * (k - 1))]

SerializePoints(o) ==
  CASE o.header.group \notin Handled \ {60} -> <<>>
    [] Packed(o.header.group, o.header.var) -> SerializePacked(o.points)
    [] OTHER -> FlattenSeq([i \in 1 .. Len(o.points) |->
                              SerializePoint(o.header, o.points[i])])

-----------------------------------------------------------------------------
(* Messages *)

Headers(g) ==
  [group: {g}, var: Octet, qual: Qualifiers, start: Int, stop: Int, count: Int]

ObjectsOf(g) ==
  [header: Headers(g), points: Seq([Attributes(g) -> Int \cup {Nothing}])]

MessagesOf(objects) ==
  [fc: FunctionCodes, seq: Nat, con: BOOLEAN, uns: BOOLEAN,
   iin: {<<>>} \cup (Octet \X Octet), objects: Seq(objects)]

\* Only a time may be missing; binary points are on or off.
IsPoint(g, p) ==
  /\ \A a \in Attributes(g) \ {"time"} : p[a] \in Int
  /\ g \in {1, 2, 10, 80} => p.value \in {0, 1}

\* Floats hold the numbers written as floats: whole ones up to 2^24 and 2^53.
\* Of a time they hold the milliseconds up to 2^33 seconds.
IsExact(h, p) ==
  /\ \A j \in 1 .. Len(WriteFields(h)) :
       LET f == WriteFields(h)[j]
       IN /\ f.type = "float32" => Shifted(p[f.name], 3) \in {-1, 0}
          /\ f.type = "float64" => Shifted(p[f.name], 6) \in -32 .. 31
          /\ f.type = "time" /\ p.time # Nothing /\ p.time % 1000 # 0 =>
               Shifted(p.time \div 1000, 4) < 2

ASSUME NothingAssumption == Nothing \notin Int \cup Message

ASSUME MessageAssumption ==
  \A m \in Message :
    /\ m \in MessagesOf(ToSet(m.objects))
    /\ m.iin = <<>> <=> ~IsResponse(m.fc)
    /\ \A o \in ToSet(m.objects) :
         /\ o.header.group \in Octet /\ o \in ObjectsOf(o.header.group)
         /\ \A p \in ToSet(o.points) : IsPoint(o.header.group, p) /\ IsExact(o.header, p)

ASSUME ForeignAssumption == Foreign \subseteq Seq(Octet)

-----------------------------------------------------------------------------
(* Parsing *)

\* An attribute of a point whose fields have the values read.
Attribute(a, index, read) ==
  LET hasState == "state" \in DOMAIN read
  IN IF a = "index" THEN index
     ELSE IF a \in DOMAIN read THEN read[a]
     ELSE CASE a = "value" /\ hasState -> read.state \div 128
            [] a = "flags" -> IF hasState THEN read.state % 128 ELSE 1
            [] a = "time"  -> Nothing

ParsePacked(h, offset) ==
  LET r == ReadAll(offset, [k \in 1 .. PackedSize(h.count) |-> "uint8"])
      Bit(i) == (r.values[(i \div 8) + 1] \div PowerOf2[(i % 8) + 1]) % 2
  IN [fault |-> r.fault, at |-> r.at,
      points |-> [i \in 1 .. IF r.fault = "none" THEN h.count ELSE 0 |->
        [a \in Attributes(h.group) |->
           IF a = "value" THEN Bit(i - 1) ELSE Attribute(a, h.start + i - 1, <<>>)]]]

\* The fields of the next point, read where those of the last one end.
ReadNext(r, types) == IF r.fault # "none" THEN r ELSE ReadAll(r.at, types)

\* A reversed range has no points.
PointCount(h) == Max({h.count, 0})

ParsedPoint(h, i, fs, values) ==
  LET read == [name \in {fs[j].name : j \in 1 .. Len(fs)} |->
                 values[CHOOSE j \in 1 .. Len(fs) : fs[j].name = name]]
      index == IF "index" \in DOMAIN read THEN read["index"] ELSE h.start + i - 1
  IN [a \in Attributes(h.group) |-> Attribute(a, index, read)]

ParseFields(h, offset) ==
  LET fs == Prefix(h) \o Fields(h.group, h.var, TRUE)
      types == [j \in 1 .. Len(fs) |-> fs[j].type]
      r[i \in 0 .. PointCount(h)] ==
        IF i = 0 THEN [at |-> offset, values |-> <<>>, fault |-> "none"]
        ELSE ReadNext(r[i - 1], types)
      last == r[PointCount(h)]
  IN [fault |-> last.fault, at |-> last.at,
      points |-> IF last.fault = "none" /\ Known(h.group, h.var)
                 THEN [i \in 1 .. PointCount(h) |-> ParsedPoint(h, i, fs, r[i].values)]
                 ELSE <<>>]

\* The points after a header; a handler is asked only when there is a count.
ParsePoints(h, offset) ==
  CASE h.group \notin Handled \/ h.count = 0 ->
         [fault |-> "none", at |-> offset, points |-> <<>>]
    [] h.group = 60 /\ h.count # 0 ->
         [fault |-> "none", at |-> offset, points |-> <<[variation |-> h.var]>>]
    [] OTHER ->
         IF Packed(h.group, h.var) THEN ParsePacked(h, offset) ELSE ParseFields(h, offset)

-----------------------------------------------------------------------------
(* Building a fragment *)

\* AppControl: FIR and FIN are set, CON and UNS as asked.
Control(m) ==
  192 + (IF m.con THEN 32 ELSE 0) + (IF m.uns THEN 16 ELSE 0) + (m.seq % 16)

BuildHeader ==
  /\ phase = "build"
  /\ data = <<>>
  /\ data' = <<Control(message), message.fc>> \o message.iin
  /\ UNCHANGED <<message, phase, written, cut, at, parsed>>

WriteObject ==
  /\ phase = "build"
  /\ data # <<>>
  /\ written < Len(message.objects)
  /\ LET o == message.objects[written + 1]
     IN /\ Serializable(o)
        /\ data' = data \o HeaderOctets(o.header) \o SerializePoints(o)
  /\ written' = written + 1
  /\ UNCHANGED <<message, phase, cut, at, parsed>>

\* struct.error: the caller gets no fragment.
FailWrite ==
  /\ phase = "build"
  /\ data # <<>>
  /\ written < Len(message.objects)
  /\ ~Serializable(message.objects[written + 1])
  /\ phase' = "unbuilt"
  /\ UNCHANGED <<message, data, written, cut, at, parsed>>

\* The fragment as the transport layer delivers it, whole or, from a station
\* that went wrong, without its end.
Deliver(n) ==
  /\ phase = "build"
  /\ data # <<>>
  /\ written = Len(message.objects)
  /\ data' = SubSeq(data, 1, n)
  /\ cut' = (n < Len(data))
  /\ phase' = "header"
  /\ UNCHANGED <<message, written, at, parsed>>

-----------------------------------------------------------------------------
(* parse_fragment *)

HasAppHeader ==
  /\ Len(data) >= 2
  /\ data[2] \in FunctionCodes
  /\ IsResponse(data[2]) => Len(data) >= 4

ParseAppHeader ==
  /\ phase = "header"
  /\ HasAppHeader
  /\ phase' = "objects"
  /\ parsed' = [fc |-> data[2], seq |-> data[1] % 16, con |-> (data[1] \div 32) % 2 = 1,
                uns |-> (data[1] \div 16) % 2 = 1,
                iin |-> IF IsResponse(data[2]) THEN SubSeq(data, 3, 4) ELSE <<>>,
                objects |-> <<>>]
  /\ at' = IF IsResponse(data[2]) THEN 4 ELSE 2
  /\ UNCHANGED <<message, data, written, cut>>

\* IndexError or ValueError, which ApplicationLayer catches.
RefuseAppHeader ==
  /\ phase = "header"
  /\ ~HasAppHeader
  /\ phase' = "refused"
  /\ UNCHANGED <<message, data, written, cut, at, parsed>>

ParseObject ==
  /\ phase = "objects"
  /\ at < Len(data)
  /\ LET head == ParseHeader(at)
         body == ParsePoints(head.header, head.at)
     IN IF head.fault # "none" THEN phase' = head.fault /\ UNCHANGED <<at, parsed>>
        ELSE IF body.fault # "none" THEN phase' = body.fault /\ UNCHANGED <<at, parsed>>
        ELSE /\ at' = body.at
             /\ parsed' = [parsed EXCEPT !.objects =
                  Append(@, [header |-> head.header, points |-> body.points])]
             /\ UNCHANGED phase
  /\ UNCHANGED <<message, data, written, cut>>

EndParse ==
  /\ phase = "objects"
  /\ at >= Len(data)
  /\ phase' = "parsed"
  /\ UNCHANGED <<message, data, written, cut, at, parsed>>

-----------------------------------------------------------------------------
CodecInit ==
  /\ written = 0 /\ cut = FALSE /\ at = 0 /\ parsed = Nothing
  /\ \/ message \in Message /\ phase = "build" /\ data = <<>>
     \/ message = Nothing /\ phase = "header" /\ data \in Foreign

CodecNext ==
  \/ BuildHeader
  \/ WriteObject
  \/ FailWrite
  \/ \E n \in 0 .. Len(data) : Deliver(n)
  \/ ParseAppHeader
  \/ RefuseAppHeader
  \/ ParseObject
  \/ EndParse

CodecSpec == CodecInit /\ [][CodecNext]_codecVars
-----------------------------------------------------------------------------
(* Objects the outstation writes (outstation/session.py) *)

StaticVariation(g) ==
  CASE g = 1 -> 2 [] g = 10 -> 2 [] g = 20 -> 1 [] g = 21 -> 1 [] g = 30 -> 5 [] g = 40 -> 3

\* _read_binary_inputs and the others: a range from the first point to the last,
\* whatever lies between.
StaticObject(g, points) ==
  LET n == Len(points)
  IN [header |-> [group |-> g, var |-> StaticVariation(g), qual |-> RANGE_8,
                  start |-> IF n = 0 THEN 0 ELSE points[1].index,
                  stop |-> IF n = 0 THEN 0 ELSE points[n].index, count |-> n],
      points |-> points]

\* _read_class0: groups in this order, without those that have no points.
Class0(pointsOf) ==
  LET objects == [i \in 1 .. 6 |->
                    StaticObject(<<1, 10, 30, 40, 20, 21>>[i],
                                 pointsOf[<<1, 10, 30, 40, 20, 21>>[i]])]
  IN SelectSeq(objects, LAMBDA o : o.points # <<>>)

\* _read_events: 16-bit values and flags, with indexes, and without times.
EventObject(g, points) ==
  [header |-> [group |-> g, var |-> IF g = 32 THEN 2 ELSE 1, qual |-> INDEX_8,
               start |-> 0, stop |-> 0, count |-> Len(points)],
   points |-> points]

EventObjects(analog, binary) ==
  SelectSeq(<<EventObject(32, analog), EventObject(2, binary)>>,
            LAMBDA o : o.points # <<>>)

-----------------------------------------------------------------------------
(* Properties *)

\* Every variable has its type; in particular all that is written are octets.
CodecTypeOK ==
  /\ message \in Message \cup {Nothing}
  /\ phase \in {"build", "header", "objects", "unbuilt", "parsed", "refused", "escaped"}
  /\ data \in Seq(Octet)
  /\ written \in Nat /\ at \in 0 .. Len(data)
  /\ cut \in BOOLEAN
  /\ phase \in {"objects", "parsed"} => parsed.seq \in 0 .. 15

\* The count the header announces to a parser.
Announced(h) ==
  IF IsRange(h.qual) THEN h.stop - h.start + 1
  ELSE IF RangeTypes(h.qual) = <<>> THEN 0 ELSE h.count

\* A header is written in full, and has what a parser makes of that.
HeaderFits(h) ==
  /\ RangeTypes(h.qual) # <<>> => WritesRange(h.qual)
  /\ \A i \in 1 .. Len(RangeTypes(h.qual)) : InWidth(Numbers(h)[i], RangeTypes(h.qual)[i])
  /\ h.count = Announced(h)
  /\ ~IsRange(h.qual) => h.start = 0 /\ h.stop = 0

\* A point loses nothing in its variation, and has the index its place implies
\* where none is written.
PointFits(h, i, p) ==
  LET fs == WriteFields(h)
      names == {fs[j].name : j \in 1 .. Len(fs)}
  IN /\ "index" \in Attributes(h.group) \ names => p.index = h.start + i - 1
     /\ "flags" \in Attributes(h.group) \ names =>
          IF "state" \in names THEN p.flags \in 0 .. 127 ELSE p.flags = 1
     /\ "time" \in Attributes(h.group) \ names => p.time = Nothing
     /\ "time" \in names => /\ p.time # Nothing /\ Zone = 0 /\ p.time \notin Truncated
                           /\ ~Late(Octets(p.time, Width.time))
     /\ \A j \in 1 .. Len(fs) : InWidth(FieldValue(p, fs[j].name), fs[j].type)

\* There are the points a parser finds after the header.
PointsFit(o) ==
  LET h == o.header
  IN CASE h.group \notin Handled \/ h.count = 0 -> o.points = <<>>
       [] h.group = 60 /\ h.count # 0 -> o.points = <<[variation |-> h.var]>>
       [] h.group \in Handled \ {60} /\ h.count # 0 /\ ~Known(h.group, h.var) ->
            o.points = <<>> /\ (h.count < 0 \/ Prefix(h) \o Fields(h.group, h.var, TRUE) = <<>>)
       [] OTHER -> /\ Len(o.points) = PointCount(h)
                   /\ \A i \in 1 .. Len(o.points) : PointFits(h, i, o.points[i])

Fits(m) ==
  /\ m.seq \in 0 .. 15
  /\ \A k \in 1 .. Len(m.objects) :
       /\ HeaderFits(m.objects[k].header)
       /\ PointsFit(m.objects[k])

Over == phase \in {"unbuilt", "parsed", "refused", "escaped"}

\* What parse_fragment returned is the message that was built.
ReadBack(m) == phase = "parsed" /\ parsed = m

\* Parsing inverts building for exactly the messages that fit their headers and
\* variations: every header, qualifier, prefix and width is read as written.
RoundTrip ==
  Over /\ message # Nothing /\ ~cut => (ReadBack(message) <=> Fits(message))

\* A fragment that lost its end is never taken for another message: it is
\* refused, or the cut fell between two objects and those before it are right.
CutNeverInvents ==
  Over /\ message # Nothing /\ cut /\ Fits(message) =>
    \/ phase \in {"refused", "escaped"}
    \/ /\ phase = "parsed"
       /\ parsed = [message EXCEPT !.objects = SubSeq(@, 1, Len(parsed.objects))]

\* A header the outstation writes is followed by as many objects as it announces
\* (object_header.py:20).
ResponsesReadBack == Over /\ message # Nothing /\ ~cut => ReadBack(message)
=============================================================================

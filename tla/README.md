# A verification project for pydnp3-pure

pydnp3-pure (`src/src/pydnp3_pure`) is a pure Python implementation of DNP3
(IEEE 1815): the link, transport and application layers, an outstation with its
point database and event queues, a master, and asyncio channels over TCP and
TLS.  This directory holds TLA+ models of it, TLC configurations that check
them on small instances and TLAPS proofs for every instance.  Paths below are
relative to `src/src/pydnp3_pure` unless they start with `src/`.

`tlc -workers 2 -config X.cfg M.tla` runs a configuration, `tlapm M.tla` checks
proofs.  `PROJECT.json` lists components, runs, hazards, findings, theorems and
the source lines each definition stands for.

## 1. The system

Bytes go up and down one stack of objects, wired by callbacks:

    TcpServer / TcpClient  --data_received-->  LinkLayer  --on_frame-->
    TransportLayer  --on_fragment-->  ApplicationLayer  --on_message-->
    OutstationSession or MasterSession  --send_fragment-->  TransportLayer
    --send_frame-->  channel.send

Every call in either direction is synchronous on the asyncio event loop.  The
only concurrency is (a) between the loop and application threads that call the
database, and (b) between the loop's own tasks at each `await`.

| Component | State | Operations | What is hard | What makes it correct |
|---|---|---|---|---|
| TCP server (`io/tcp_server.py`) | `_running`, `_server`, `_writer`, `_connected_event`, `_connection_id` | `open`, `close`, `_handle_client`, `wait_for_connection`, `send` | a client replaces another whose task ends later; clients that come while `close()` waits; a receive callback that raises | the newest open connection is the one served; the event agrees; nothing sent before an end of file is lost unless the callback raised; `close()` returns and leaves nothing open |
| TCP client (`io/tcp_client.py`) | `_running`, `_reader`, `_writer`, `_read_task` | `open`, `close`, `_read_loop`, `send` | end of file, errors, reopening | while the channel says it is open and the connection is up, somebody reads; no loop outlives its connection |
| Link receiver (`link/layer.py`, `frame.py`, `crc.py`) | `_state`, `_buf`, `_header`, `_expected_body_size` | `data_received`, `reset` | reads that cut a frame anywhere, noise, damage, sync octets and header images in data, a new connection | only genuine frames are delivered and no undamaged frame is missed (section 5 says when not), the buffer stays small, every call returns |
| Transport (`transport/`) | `Segmenter._sequence`; `Reassembler._active`, `_buffer`, `_expected_seq` | `send_fragment`, `on_frame_received`, `reset` | lost frames, a 6-bit sequence number, size limit, a new connection | fragments come out whole, in order, at most once; loss stays inside the fragment it hits |
| Application codec (`app/`, `objects/`, `util/buffer.py`) | none | `parse_fragment`, `build_response`, `build_request`, group handlers | counts and ranges that wrap, truncated input, values that do not fit | parsing inverts building; bad input is refused |
| Event buffer (`outstation/event_buffer.py`) | three bounded deques, `_overflow` | `add`, `get_class_events`, `confirm_class`, `confirm_all` | eviction at the limit, confirmation per class, `add` in a thread while the loop confirms without the lock | newest unconfirmed events kept; the flag is exact, unless the two overlap |
| Point database (`outstation/database.py`) | dicts of points, frozen counters, a lock | `add_*`, `update_*`, `freeze_counter`, `get_*` | threads; a callback made with the lock held; live points handed out | events queued in update order, none redundant; freezes whole; every call returns |
| Outstation session (`outstation/session.py`) | `_iin`, `_state`, `_unsolicited_enabled` | `on_message` and a handler per function code | updates while a READ is handled; serialization that fails half way; indications shared by all responses | answers match requests, report the queue as it was at one moment, with class bits that agree; a READ that fails costs no later request its answer |
| Master session (`master/session.py`) | `_seq` | `send_*` polls and commands, `on_message` | responses late or missing, numbers repeated by CONFIRMs and wasted by failed commands | the number of a response tells its request; every request is answered unless a fault tells why not |
| Timer (`util/timer.py`) | `_task` | `start`, `cancel`, `restart` | use from its own callback | fires once, not after cancel (no user in the library) |
| TLS, mocks, debugging, examples | configuration, test doubles | | | outside the models |

Hazards, one by one and at their lines, are in `PROJECT.json`.

## 2. Plan

Modules in the order they matter: what corrupts data silently first.

1. `FragmentService` (abstract) and `Transport`, with proofs. *Done.*
2. `EventBuffer`, with proofs. *Done.*
3. `PointDatabase`, which extends `EventBuffer`: threads, lock, callback, with
   proofs. *Done.*
4. `OutstationSession`, which extends `PointDatabase`: requests, READ step by
   step, with proofs. *Done.*
5. `LinkReceiver`: the byte stream, with proofs. *Done.*
6. `TcpServer`, with proofs. *Done.*
7. `AppCodec`: building and parsing of fragments, octet by octet, with proofs.
   *Done.*
8. `MasterSession`, `TcpClient`, and `Stations`, which composes both with
   `OutstationSession`, over connections that break and are opened again; the
   abstract `RequestService` it implements, with proofs. *Done.*
9. Left: the frame service and the atomic database named below, with the proofs
   that `LinkReceiver` and `PointDatabase` implement them.

Abstract specifications: `FragmentService` for transport and `RequestService`
for master and outstation (done); a frame service for the link receiver and an
atomic database for `PointDatabase` are worth having.

## 3. Modules and their correspondence to the code

**FragmentService** is what transport promises: fragments submitted in order,
each delivered whole or dropped, in order, never twice.

**Transport** is one direction: `Segmenter.segment` of one peer (`Submit` is the
call, `SendSegment` one turn of its loop, with the frame it leads to), the
channel, and `Reassembler.add_segment` of the other (`Discard`, `Mismatch`,
`Overflow`, `Complete`, `Extend`: the branches in the order of the code).  The
channel keeps order, as TCP does; `Lose` is the link layer dropping a frame with
a bad CRC.  `Reconnect` opens a new connection with the same objects; the
constant `ResetOnReconnect` says whether `TransportLayer.reset()` is called then.
`MaxBurst < SeqMod` (`SeqAssumption`): 64 frames lost in a row bring the 6-bit
number back to the expected one, and no receiver could tell.

**EventBuffer** has the deques, the overflow flag and how far `confirm_all()` has
got (`confirming`, `toClear`).  `add()` runs in an application thread under the
database's lock, the confirmations on the event loop without it, so each statement
that looks at or changes the buffer is a step: `LookAtQueue`, `RaiseOverflow`,
`AppendEvent`; `BeginConfirmAll`, `ClearQueue` for one class after the other,
`LowerOverflow`; `ConfirmClass`, which is one statement.  `log`, `cleared`,
`dropped` and `overlapped` are history; `overlapped` says that since
`confirm_all()` was last called a confirmation ran while a thread was in `add()`.

**PointDatabase** lets each thread be inside one call.  A call takes the lock,
compares, writes value, writes flags, calls the event callback and returns, in
that order and with other threads in between; calls to a point that does not
exist or does not change return early.  The callback is `Notify`, `NotifyFull`
and `NotifyAppend`, the three steps of `add()`; `Confirm` and `ConfirmStep` are the
event loop confirming between any two of them.  A point that is added again gets a new
object (`former` keeps the old ones, which a reader may still hold).  `get_*` is the session's part.

**Selection** has one operator, what a loop with a condition takes from a list:
`SelectSeq` written so that proofs can unfold it.

**OutstationSession** receives one request at a time.  All requests but READ are
one step: they neither wait nor look at what threads change, apart from
CONFIRM, which would go on with the steps of `confirm_all()`.  READ is `StartRead`, then one step
per object gathered (events are copied, points are references to live objects),
one per class bit, `StartResponse`, one step per event written and two per point
(flags first, then value, as the `serialize` methods do), `SendResponse`.
`SkipObject` passes over the objects `_handle_read` does not know, group 60 with
another variation than 1 to 4 among them.  `FailEvent` is the `struct.error` of an
analog event outside 16 bits and `FailPoint` the `OverflowError` of a value beyond
a 32-bit float, both of which leave `on_message`; `FailParse` is a request that `parse_fragment` refuses, so
that `on_message` is never called.  An OPERATE is passed to the application's
handler whatever was selected: the code leaves the match to the handler.

**AppCodec** follows one fragment from the message it is built from
(`BuildHeader`, `WriteObject` once per object, `FailWrite` when a value does not
fit) over the transport, which may cut it, to `parse_fragment` (`ParseAppHeader`,
`ParseObject` once per turn of its loop, `EndParse`).  What a read past the end
raises decides the outcome: `IndexError` for one octet, which `ApplicationLayer`
catches ("refused"), `struct.error` for more, which it does not ("escaped").
The handlers of the object groups differ only in the fields of a point and in
the variations they know: `GroupNFields` lists them, `Prefix` is the index before
a point, `Packed` the two groups with one bit for each.  `StaticObject`, `Class0` and
`EventObjects` are the objects `OutstationSession` writes.

`Milliseconds` is `DNP3Timestamp.from_datetime`: it takes the time for local time
(`Zone`), and `int(seconds * 1000)` is a millisecond too few for the times in
`Truncated`, 1.001 seconds among them.  `Late` is the year 10000, at which
`to_datetime` raises.  `MessageAssumption` says what a message is: header fields
and points of the types the Python classes declare, binary values of 0 or 1, and
numbers a float holds exactly where one is written; `Foreign` may be any octets.
`Fits` is the receiver's side of the round trip, stated without parsing: a
header's counts and octets suffice for its points, and every attribute is written
in its width or is what the parser puts in its place.  The outcomes are "unbuilt"
(`struct.error` while writing), "parsed", "refused" and "escaped".

**MasterSession** has the next sequence number and, as history, what was sent
and heard.  It awaits nothing: a request is one step, a response is one step.

**TcpClient** is cut at its awaits: `Open` and `Opened` or `FailOpen`, `Close`
and `Closed`, and the read loop, which is between two calls of `read()`, in the
receive callback, or cancelled and not yet told.

**Stations** composes the two with `OutstationSession` (and through it with the
database and the event queues).  The outstation opens the connection, as in
`src/examples/`; all that its callback does happens between `ReadData` and
`CallbackReturns`, request by request, with READ in the steps of
`OutstationSession`.  `buffered` are the frames in `LinkLayer._buf`: an exception
that ends the read loop (`CallbackRaises`) leaves them there, and a later
connection's data brings them up.  Messages stay whole; `LoseRequest` and
`LoseResponse` stand for all that `LinkReceiver` and `Transport` drop.
`Unsolicited` is a peer of another make: this outstation never sends such a
response.  `RequestService` is what the pair promises: requests are taken as they
were sent, in order and at most once, answers arrive in the order of their
requests and with their numbers.

**LinkReceiver** works on symbols: an octet, a number (length, frame number) or
a CRC, which equals the CRC of what it covers and of nothing else.  `DataReceived`
appends any prefix of what is in flight; `LoopStep` is one turn of the loop of
`data_received` in its three states.  `Send`, `Damage` and `Reconnect` are the
environment; `Send` takes the length of a frame that is accepted to be that of its
data, as `LinkFrame.create` makes it (`LengthAssumption`).  `Blocks` gives the
symbol at each place instead of building the sequence block by block, and `ends`
records where each frame ends in the stream, so that both can be reasoned about.

**TcpServer** has one task per client.  A task runs from one `await` to the next
(`HandleClient`, `Resume`, both through `Loop`); `close()` is cut at its awaits
(`BeginClose`, `CloseServer`, `FinishClose`).  What asyncio does is external:
data arrives in readers, ends of file and errors too, a closed transport is lost
in the end.  The receive callback may raise on any data it gets (`Raises`): the
loop is left, the connection closed and what the reader still holds dropped.
`Server.wait_closed()` returns at once before Python 3.12 and waits
for all connections since; both are modelled.

`MC*` modules hold the values of constants.  Definitions whose names end in
`Mutant` are plausible bugs; nothing uses them, and substituting one for its
original makes TLC report the property `PROJECT.json` pairs it with.

## 4. Runs

| Run | Instance | Shows |
|---|---|---|
| `transport` | 3 fragments out of 5 of lengths 0, 1, 3, 4, 5; segments of 2, limit 4, sequence numbers mod 4, bursts up to 3, reconnections with reset | integrity, containment of losses, the inductive invariant of the proofs, refinement of `FragmentService`, and that every frame is resolved in the end |
| `database`, races | an analog input with a deadband and a counter, two threads, 3 calls, each point added once or twice | update order, redundancy, whole freezes, all calls return |
| `database`, overflows | the analog input, of a class that keeps two events, and a binary input of one that keeps one, two threads, 4 updates, `confirm_class()` and `confirm_all()` between any two statements | newest events kept, in order and class by class; overflow exact unless a confirmation ran during an `add()` |
| `session`, pairs | all pairs out of 18 requests, one analog input and one counter that are there from the start, one update or freeze between any two steps, a value that cannot be encoded | answers match requests, no indication leaks |
| `session`, full queue | a READ of events, or of live points, an unknown object and events; an analog and a binary input of one class whose queue keeps two; three updates | class bits, the reported queue |
| `session`, unfit values | all pairs of five requests (polls of two classes and of an unknown variation, class 0, a range, one without objects); two updates to 0, 1 or 2, of which 1 and 2 do not fit an event and 2 does not fit a float | every request is answered unless something it asks for itself cannot be encoded |
| `link` | two frames out of nine (empty, header-sized, full block, two blocks, two malformed; sync octets and three images of headers as data), one damaged symbol, one reconnection with reset | genuine frames only, none missed, unless an image is exposed; bounded buffer, termination |
| `server` | two connections with two pieces of data each, any of which may make the callback raise, server opened twice | see section 1 |
| `codec` | every group, variation and qualifier with two points, values at and beyond the limits of their fields, 9 and 256 points, two objects, the session's responses over seven sets of indexes; a time that loses a millisecond; every cut; six foreign fragments, one with a time in the year 10889 | parsing inverts building for exactly the messages that fit; no cut invents a message |
| `stations` | up to 3 requests (the first of any kind, then polls and OPERATEs), numbers modulo 2, two connections, one unsolicited response | order, at most once, identified answers, commands once, a reader while open, every request answered; refinement of `RequestService` |
| `sparse` (violation) | class 0 over inputs 0 and 1, or 0 and 2 | the master reads other points than were sent |
| `torn_read` (violation) | one analog input, one update during a READ | a response with the flags of one reading and the value of the next |
| `confirm_clears` (violation) | a poll and a CONFIRM | a CONFIRM removes nothing |
| `scan` (violation) | one range scan with variation 3 | an open channel that nobody reads |
| `link_mistaken` (violation) | two frames out of three, one with the image of a header as its data, one damaged symbol, one reconnection without reset | a frame nobody sent |

*Bounds.*  Transport: three fragments are an old, a current and a next one; the
lengths give no segment, one, two, exactly the limit and above it; modulus 4
with bursts of 3 is the largest burst that must be seen.  Every mixture of
fragments is visible since no two share a byte.  Database: two threads and three
calls are the least for two racing updates after an earlier one; flags and
values are few but differ enough for changes inside and outside the deadband;
points start from 0, and are added again once (in the session's runs never).
The runs `database` and `session` have parts: `Within` keeps a behaviour inside the
points, values, calls and requests of one of them, and no step that fairness
obliges leaves a part.
Four updates overflow the queue of one event before and after a confirmation, or
that of two while the other class gets events of its own.
Session: two requests show what one leaves behind for the next; three updates
overflow a queue of two while it is read; two updates
make a value that does not fit before or after it is gathered.  Link: two frames and one error give a
frame before, in and after the damage; blocks of five with frames of 0, 4, 5 and
6 octets cover a missing, a partial, a full and a second block, and make header
and block equal in size, as 8 octets of data are in the code.  Codec: two points are the least for a range and
for an index to be wrong, 9 packed points need two octets and 256 wrap a count;
limits are tried one below and one above.  Stations: `MCBounds` lets only the
first request be of any kind, since requests leave nothing behind for one another
but the queue of the read loop, and lets three go out; with numbers modulo 2 the third repeats the first's,
while an exception, a break or a loss may come between any two steps; the station
has no points, since what a READ gathers is the matter of the session's runs; the
second connection, opened after `close()` or after the loop ended without it, is
the one that finds what the first left.  Server: two
connections are enough for one to replace the other at any moment of `close()`.

*Deadlock* is not checked in runs whose bounds stop them.

*Fairness* is weak everywhere and only for what the program itself does: a
Python call that began goes on (`SendSegment`, `LoopStep`, `ReadStep`,
`ThreadStep`, the loop of the stations' client), a response that arrived is handed to the
master, a task whose await is over is resumed by the event loop, data in
a socket is read.  Nothing obliges peers, losses, reconnections or the
application.  Weak fairness is enough for the lock since calls are bounded: no
thread can be overtaken for ever.  `TcpServer` also assumes that a transport
that was closed is lost in the end (its write buffer drains or the connection
fails).

## 5. What the checks found

Each but the last is a run and a finding in `PROJECT.json`; all but the thread
race of `torn_read` were also reproduced with the library itself.

* `send_analog_input_scan` is never answered with variations 1 to 6: the parser
  expects points after a range header even in a request.  With the default
  variation the request is dropped; with 3 and 4 the `struct.error` ends the read
  loop of the outstation's client while `is_open` stays true (`scan`).
* A response over inputs whose indexes have gaps announces a range that counts
  the gaps: the parser takes the octets of one point, and then those of the next
  header, for points that do not exist (`sparse`).
* A CONFIRM never clears events: nothing enters `WAIT_CONFIRM` (`confirm_clears`).
* A READ may return a point's flags from before an update with its value from
  after it: the database hands out live objects (`torn_read`).
* Nothing on the wire tells a header from a data block of 8 octets that begins
  with the two sync octets: the format has no octet stuffing, and both are followed
  by their CRC.  When a header is refused, the receiver drops one octet of it and
  hunts on through the frame's data; it takes such a block for a header and
  delivers a frame nobody sent (`link_mistaken`).
* Nothing calls `LinkLayer.reset()` or `TransportLayer.reset()`, and the examples
  keep one stack for all connections.  A body cut short then takes octets of the
  next connection, without any damage, and when exactly one block is missing a
  header passes its CRC as that block (`link_mistaken` with `MaxErrors = 0`).  The transport run and its
  proofs assume that `reset()` is called for the same reason: without it `Integrity`
  fails when a stale assembly meets a segment with the number it expects.
* An analog event outside 16 bits makes the answer fail; the event stays queued
  and fails every later poll of its class.  `AnsweredIfEncodable` is true only
  with that exception in its statement.

The two findings about the link receiver bound what can be said of it.  `link`
keeps the frames with images and leaves the choice to `Unmistakable`: connections
that were reopened used `reset()`, and no frame that was damaged or malformed holds
an image (`Exposed`, `HeaderImage`).  Frames with images that arrive undamaged are
covered, and so is everything before the first image is exposed.

`confirm_all()` is not called under the lock `add()` runs under.  When they overlap
the overflow flag goes wrong both ways: `add()` finds a queue full, `confirm_all()`
empties it and lowers the flag, `add()` raises it though nothing is lost; or the
queues are cleared, threads fill one and overflow it, and the flag is lowered last,
though an event was lost.  No doc says what `overflow` promises and nothing in the
library reads it, so this is no finding; `OverflowMeansLoss` says when the flag is
exact (`~overlapped`).  The queues themselves stay right in any case (`NewestKept`).
As long as no CONFIRM clears anything (`confirm_clears`) the two never meet in the
library itself, only when an application confirms.

More facts the models show without a property that judges them: a write of
0 to any indication clears the restart bit (`IsRestartWrite`), and data the
reader of a replaced connection already holds is delivered after the new
connection became active (`Resume`); a time such as 1.001 seconds comes back a
millisecond earlier, since `from_datetime` cuts 1000.9999999999999 down
(`Milliseconds`); requests an exception left in the receive
buffer are handled, and answered, on a later connection (`received` in `Stations`).

## 6. What is proved

Every theorem holds for all values of the constants that satisfy the assumptions
named in the modules; TLC evaluates those for the instances.  Each inductive
invariant was checked with TLC before it was proved.  The proof that a step keeps
an invariant has a step per action and, below it, one per conjunct the action can
disturb; what is needed more than once is a lemma.

**TransportProofs**, for every set of fragments, segment size, limit and modulus:

* `TypeCorrect`: `Spec => []TypeOK`.
* `Invariance`: `Spec => []IInv`, assuming `SafeReuse == Reconnects =>
  ResetOnReconnect`.  `Integrity` is not inductive: it does not say why the
  buffer may be completed.  `IInv` adds the sender's position inside its
  fragment, that each frame in flight is the piece of its fragment it claims to
  be and that frames in flight follow one another up to the sender's position,
  that an assembly in progress is a proper prefix of a submitted fragment, and
  that the distance between the expected number and the next frame's is the
  number of frames lost in a row.  Since that is below `SeqMod`, equal numbers
  mean that nothing was lost, so only the right piece extends the buffer.
* `FragmentsIntact`, `LossContained`: `Integrity` and `NoCollateralLoss` follow.
* `Refinement`: the layer implements `FragmentService`; steps of sender,
  channel and assembly stutter, a delivery and a submission map to their
  abstract counterparts.

**TcpServerProofs**, for any finite set of connections and any number of pieces
of data and of calls of `open()`: `ServerInvariance` of `ServerIInv`, and from it
`ServerTypeCorrect`, `OneServed`, `EventExact`, `DataDelivered` and
`NoneServedClosed`.  `ClosedServesNone` alone says nothing of the time in which
`close()` waits; `StoppedServesNone` does: from the moment `_running` is lowered
until `open()` raises it again, whatever is still read is being closed.
`DataKept` (every piece is in the reader or was delivered, and a task that is done
left none there unless it was cut short or its callback raised), `EndedClosed` and
`FailedLost` carry `NoDataLost`; `IdsCounted` ties `_connection_id` to the tasks
that began, which makes the newest connection unique.

**PointDatabaseProofs**, for any points, threads, values, deadbands, classes and
capacities, with the event loop confirming at any moment: `DatabaseInvariance` of
`DatabaseIInv`, and from it `DatabaseTypeCorrect`, `FreezeAtomic` (`FrozenWhole`),
`EventsCurrent` (`LastEventCurrent`), `EventsDiffer` (`NoRedundantEvents`) and
`NewestKeptAlways` (`NewestKept`).  `CoreIInv` is the queues' own invariant and the
locking protocol: who is inside a call holds the lock, so half-done work is the
work of one thread.  `FreezeIInv` says what is half done: every point no thread is
writing is a reading of its history, and a freeze between its two assignments copied
the value the counter still has.  `EventsIInv` says of an update on its way that it
differs from what was last reported, and how much of it the point already holds.

`OverflowExact` (`OverflowMeansLoss`) rests on `FlagIInv`, which says what holds
while nothing overlapped: a thread about to raise the flag found its queue full and
it still is, one about to append to a full queue has raised the flag, and while
`confirm_all()` runs no thread is in `add()` and only classes still to be cleared
have lost events.

**SelectionProofs** has the lemmas on `Only`, on `FlattenSeq` and on sequences that
`SessionProofs`, `StationsProofs` and `AppCodecProofs` use.

**SessionProofs**, for any requests, points, threads and queues.
`SessionInvariance` of `SessionIInv`, which takes the set of requests as a
parameter, and from it:

* `SessionTypeCorrect`, `AnswersRight` (`AnswersMatch`), `FlagsRight`
  (`FlagsMatchEvents`), `PollsRight` (`PollReportsQueue`).  A READ takes many
  steps between which threads update points and push events, so each property of
  the response needs its form in every phase: `ReferencesIInv` says that what is
  gathered still can be read though points may be added again meanwhile,
  `FlagsIInv` which class bits are up or still to be computed, `PollsIInv` that
  what is gathered of a class is its queue at a moment since the request came.
  That `confirm_all()` is never running is a part of the invariant, so queues only
  grow and evict.
* `NothingConfirmed`: no requests whatever make the session wait for a
  confirmation or clear an event.  It is the finding of `confirm_clears`, without
  its bounds.
* `SessionUsesDatabase`: the outstation implements `DatabaseSpec`, as handling a
  request changes no point and no queue; `OutstationEvents` brings the theorems
  about the database over.

**StationsProofs**, for any polls, commands, points, numbers of connections and
bounds: `StationsInvariance` of `StationsIInv`, and from it `StationsTypeCorrect`,
`ChannelServed` (`OpenIsServed`), `CommandsToldOnce` (`CommandsOnce`) and
`AnswersIdentified` (`AnswerIdentified`).

* `ClientIInv`: which states of the read loop, the writer and the calls of
  `open()` and `close()` occur together.
* `SendingIInv`: request `nth` has the number `nth - 1` modulo `SeqCount`, whatever
  CONFIRMs repeat and failed commands waste.
* `QueueIInv`: the requests handled, buffered and on their way are one increasing
  sequence, of which losses only take elements.
* `RepliesIInv`: every response on its way or heard is to a request that was
  handled, with its number; a request still being handled has no response yet.
  That last part is what keeps responses in order.
* `CommandsIInv`: what the application was told is what the handled requests say.
* `SessionIInv(MasterRequest)`: the invariant of `SessionProofs` holds of the
  outstation under the requests of this master, by the same lemmas.

`ServiceGiven`: the two stations implement `RequestService`.  Sending maps to
`Submit` (a response that is heard may send a CONFIRM, which is one too),
`HandleRequest` to `Take`, a solicited response heard to `Answer`; all the rest
stutters.  The step that needs the invariant is `Answer`: that the request was
taken, asks for an answer, has this number and is later than those answered.

**LinkProofs**, for any frames, sizes of blocks and reads, damage and connections:
`LinkInvariance` of `LinkIInv`, and from it `LinkTypeCorrect`, `FramesAreGenuine`
(`GenuineUnlessMistaken`) and `NoneMissed` (`NoFrameMissed`).  They have no
hypotheses about the constants: what section 5 says of images and of reset is a
condition on the behaviour so far, `Unmistakable`.  It can become false but never
true again (`MistakesLast`), so `Unmistakable => LinkIInv` is inductive.
`FramesGenuine` speaks of what was delivered and says nothing of why the next frame
will be right; `LinkIInv` does:

* `StreamIInv`: the frames stand one after the other in the stream, so each place
  belongs to one of them.
* `WireIInv`: buffer and wire are the end of the stream; at each place stands what
  was sent there or, in a damaged frame, what damage leaves.  No CRC symbol comes
  of damage, so a CRC that is found is one that was sent, at a known place.
* `PlaceIInv`: a header is looked for behind a sync; the body that is waited for
  belongs to the frame whose header was just read, and starts there.
* `FramesIInv`: what was delivered has been used up, and an undamaged frame is
  delivered, still ahead as a whole, or the one whose body is waited for.
* `WaitIInv`: between two calls the buffer holds less than is waited for.

The lemmas `BlockEnd` to `CrcsAre` say which symbol stands at which place of a
frame (division by the block size), `HeaderGenuine`, `HeaderRead` and `BodyRead` what
the receiver's checks tell, `HuntOutside` that the hunt is never inside an
undamaged frame that is accepted, `SyncAhead` that the hunt never runs past the start of
an undamaged frame.  `BufferStaysSmall` (`BufferBounded`) needs `WaitIInv` only, and
holds whatever is mistaken.

**AppCodecProofs**, for all messages, fragments of other stations, time zones and
times that lose a millisecond, with any number of objects, points and octets:
`CodecInvariance` of `CodecInv`, and from it `CodecTypeCorrect` (`CodecTypeOK`),
`RoundTripCorrect` (`RoundTrip`) and `CutNeverInventsCorrect` (`CutNeverInvents`).
`RoundTrip` speaks of the outcome; `CodecInv` says where building and parsing are:

* `Building`: what is written is `Part(message)[written]`, header and first objects.
* `Received`: the data begin the whole message, and are all of it unless cut.
* `Progress`, after `k` objects: if the message fits, they are its first `k` and
  the parser is where they end.  If they are its first `k`, whether it fits or
  not, the parser is not before their end, and if it is at their end they fit.
  The second half is the converse direction: a parser could make up for an
  object it read too long only by reading another one too short, and none is.

The lemmas follow the code's layers.  *Numbers*: `NumberOctets` and `NumberInWidth`,
octets and number determine each other within a width; `OctetsDetermine`, six
octets and less than a day apart determine a time.  *Buffer*: `ReadAllIs` and
`ReadAllBack`, a sequence of fields reads back and what it read is what stands
there; reading past the end faults.  *Headers*: `ParseHeaderBack`, `ParseHeaderIs`.
*Points*: `ParsedPointBack` and `ParsedPointFits`, a point comes back exactly if it
fits, from `FieldsAre`, what the fields of each group and variation are;
`FieldsBack` and `FieldsFit`, the same for the points of an object, whose turns of
the loop `Rounds` follows; `PackedBack` and `PackedFit`, for bits.  *Objects*:
`ObjectBack` and `ObjectFits`, one object in both directions.

A recursive function `f[i \in 0 .. n]` is taken to be the one its equation
describes after `RecursionExists` has shown that there is one; facts about it are
proved by `InductionUpTo`.

Facts about all sequences are proved by induction over the set of numbers or
sequences that have them, since the library's induction theorems take an operator.

The proofs corrected the models: in `TcpServer` (`Pieces`) and `AppCodec`
(`Attribute`) a CASE had arms that overlap, where TLC takes the first and the
logic any; what the constants must satisfy (indexes that exist, `Event` as a
set of records, `0 \in Value`) is now assumed by name.  The converse half of
`RoundTrip` corrected `Fits`, which had called messages fitting that do not come
back, or the reverse, and which no instance had contained: sequence numbers above
15, reversed ranges without points, counts of variations the handler passes over,
times from the year 10000 on, times that lose a millisecond.  The instance has
all of them now, the late time as a fragment of another station.

## 7. Only model-checked, and not modelled

Checked by TLC only: all liveness (`Resolved`, `CallsReturn`, `CallReturns`,
`AnsweredIfEncodable`, `CloseReturns`, `TasksEnd`,
`RequestsAnswered`), since TLAPS
has no rule here for fairness and ENABLED; and the five runs whose property the
code violates.  Every other property of a run is a theorem.

Not modelled: the encoding of floats (a float is written as the whole number it
holds); in the run of `AppCodec`, integers and times beyond 31 bits and a clock
that is not at UTC (`Zone` is 0 there), which its proofs include; in `Stations`, segments and frames, and
points; `open()` of a client whose loop still reads, and `close()` from within the
receive callback; the timer, which no part of the library uses; adding a point
again with another configuration; what the application's handler does, in particular calls back into
the session or the database; `clear_restart_iin()` called from another thread than
the loop's; damage that a 16-bit CRC does not detect; a server's `open()` that
cannot listen; cancellation of the server's tasks when the loop shuts down; TLS,
mocks, debugging aids and examples.

------------------------------ MODULE Stations ------------------------------
(* A master and an outstation over a TCP connection the outstation opens.   *)
(* The outstation is OutstationSession above TcpClient, one event loop; the *)
(* master is MasterSession, its end of the connection is external.          *)
(*                                                                          *)
(* Messages stay whole: what the link and transport layers do to one they   *)
(* cannot put together is to lose it (Lose), also the first of a new        *)
(* connection after a message that was cut short.                           *)
EXTENDS MasterSession, OutstationSession, TcpClient

CONSTANT MaxUnsolicited   \* bound on the unsolicited responses

ASSUME RequestsAssumption == MaxRequests >= MaxUsed + MaxUnsolicited
ASSUME MaxUnsolicitedAssumption == MaxUnsolicited \in Nat

VARIABLES
  buffered,    \* LinkLayer._buf of the outstation: requests read, not yet handled
  received,    \* history: the numbers, in sent, of the requests handled
  toMaster,    \* responses on their way
  prompted,    \* history: unsolicited responses sent
  faulted      \* history: the requests sent before the last fault

\* incoming and buffered hold numbers of requests.

stationVars == <<buffered, received, toMaster, prompted, faulted>>
allVars == <<masterVars, vars, clientVars, stationVars>>

outstationVars == <<vars, received>>

Fault == faulted' = Len(sent')
NoFault == UNCHANGED faulted

-----------------------------------------------------------------------------
(* The master *)

NewRequests == [i \in 1 .. Len(sent') - Len(sent) |-> Len(sent) + i]

\* What is sent without a connection goes nowhere.
Transmit ==
  IF connection = "up"
  THEN incoming' = incoming \o NewRequests /\ NoFault
  ELSE UNCHANGED incoming /\ IF sent' = sent THEN NoFault ELSE Fault

ClientKeeps == UNCHANGED <<running, writer, loop, call, connection, opens, raised>>

MasterSends ==
  /\ Poll \/ Command
  /\ Transmit
  /\ ClientKeeps
  /\ UNCHANGED <<outstationVars, buffered, toMaster, prompted>>

MasterReceives ==
  /\ toMaster # <<>>
  /\ OnMessage(Head(toMaster))
  /\ toMaster' = Tail(toMaster)
  /\ Transmit
  /\ ClientKeeps
  /\ UNCHANGED <<outstationVars, buffered, prompted>>

-----------------------------------------------------------------------------
(* The outstation's event loop *)

OpenClient ==
  /\ Open \/ FailOpen \/ Closed
  /\ UNCHANGED <<masterVars, outstationVars, buffered, toMaster, prompted, faulted>>

\* The master handed up what the last connection brought.
ClientOpened ==
  /\ toMaster = <<>>
  /\ Opened
  /\ UNCHANGED <<masterVars, outstationVars, buffered, toMaster, prompted>>
  /\ Fault

CloseClient ==
  /\ Close
  /\ UNCHANGED <<masterVars, outstationVars, buffered, toMaster, prompted>>
  /\ Fault

\* data_received: the requests join those an exception left in the buffer.
ReceiveRequests(n) ==
  /\ ReadData(n)
  /\ buffered' = buffered \o SubSeq(incoming, 1, n)
  /\ UNCHANGED <<masterVars, outstationVars, toMaster, prompted, faulted>>

\* channel.send
Respond ==
  toMaster' =
    IF answered' # answered /\ connection = "up"
    THEN Append(toMaster, [uns |-> FALSE, con |-> FALSE, seq |-> last'.seq,
                           number |-> received'[last'.number]])
    ELSE toMaster

\* A range read whose first missing field is longer than one octet: struct.error,
\* which ApplicationLayer does not catch.
Escapes(r) ==
  /\ r.fc = "READ"
  /\ \E i \in 1 .. Len(r.objs) :
       /\ r.objs[i].range # AllPoints
       /\ r.objs[i].group = 30 /\ r.objs[i].var \in {3, 4}

\* A frame is removed from the buffer when its handler has returned.
LateRestMutant(queue) == IF Escapes(sent[Head(queue)]) THEN queue ELSE Tail(queue)
\* One request for each read.
DropRestMutant(queue) == <<>>
\* _process_body removes a frame before it is handled.
Rest(queue) == Tail(queue)

HandleRequest ==
  /\ loop = "callback"
  /\ phase = "idle"
  /\ buffered # <<>>
  /\ received' = Append(received, Head(buffered))
  /\ buffered' = Rest(buffered)
  /\ LET r == sent[Head(buffered)]
     IN /\ HandleAtOnce(r) \/ StartRead(r) \/ FailParse(r)
        /\ IF Escapes(r) THEN CallbackRaises ELSE UNCHANGED clientVars
  /\ Respond
  /\ UNCHANGED <<masterVars, prompted, faulted>>

ReadFails ==
  /\ phase = "serialize"
  /\ gathered # <<>>
  /\ LET item == Head(gathered)
     IN IF item.kind = "event" THEN ~Encodable(item.event)
        ELSE readFlags # Nothing /\ ~Writable(item)

ContinueRead ==
  /\ ReadStep
  /\ IF ReadFails THEN CallbackRaises ELSE UNCHANGED clientVars
  /\ UNCHANGED <<masterVars, buffered, received, prompted, faulted>>
  /\ Respond

\* data_received returns.
FinishCallback ==
  /\ phase = "idle" /\ ~confirming
  /\ buffered = <<>>
  /\ CallbackReturns
  /\ UNCHANGED <<masterVars, outstationVars, stationVars>>

EndReading ==
  /\ StopReading
  /\ UNCHANGED <<masterVars, outstationVars, stationVars>>

\* The application's threads.
UseDatabase ==
  /\ DatabaseNext
  /\ UNCHANGED <<masterVars, sessionVars, clientVars, stationVars>>

-----------------------------------------------------------------------------
(* The network, and an outstation of another make behind the same address *)

Unsolicited(seq, con) ==
  /\ connection = "up"
  /\ prompted < MaxUnsolicited
  /\ prompted' = prompted + 1
  /\ toMaster' = Append(toMaster, [uns |-> TRUE, con |-> con, seq |-> seq, number |-> 0])
  /\ UNCHANGED <<masterVars, outstationVars, clientVars, buffered, faulted>>

\* A part of what was on its way arrives before the end of the connection.
BreakConnection(m) ==
  /\ (\E n \in 0 .. Len(incoming) : PeerCloses(n)) \/ ConnectionLost
  /\ toMaster' = SubSeq(toMaster, 1, m)
  /\ UNCHANGED <<masterVars, outstationVars, buffered, prompted>>
  /\ Fault

LoseRequest(i) ==
  /\ incoming' = RemoveAt(incoming, i)
  /\ ClientKeeps
  /\ UNCHANGED <<masterVars, outstationVars, buffered, toMaster, prompted>>
  /\ Fault

LoseResponse(i) ==
  /\ toMaster' = RemoveAt(toMaster, i)
  /\ UNCHANGED <<masterVars, outstationVars, clientVars, buffered, prompted>>
  /\ Fault

-----------------------------------------------------------------------------
StationsInit ==
  /\ MasterInit /\ Init /\ ClientInit
  /\ buffered = <<>> /\ received = <<>> /\ toMaster = <<>>
  /\ prompted = 0 /\ faulted = 0

LoopStep ==
  \/ \E n \in 1 .. Len(incoming) : ReceiveRequests(n)
  \/ HandleRequest
  \/ ContinueRead
  \/ FinishCallback
  \/ EndReading

StationsNext ==
  \/ MasterSends
  \/ MasterReceives
  \/ OpenClient
  \/ ClientOpened
  \/ CloseClient
  \/ LoopStep
  \/ UseDatabase
  \/ \E seq \in 0 .. SeqCount - 1, con \in BOOLEAN : Unsolicited(seq, con)
  \/ \E m \in 0 .. Len(toMaster) : BreakConnection(m)
  \/ \E i \in 1 .. Len(incoming) : LoseRequest(i)
  \/ \E i \in 1 .. Len(toMaster) : LoseResponse(i)

\* The outstation's event loop and the master's go on; nothing obliges the
\* applications, the threads or the network.
StationsSpec ==
  /\ StationsInit /\ [][StationsNext]_allVars
  /\ WF_allVars(LoopStep)
  /\ WF_allVars(MasterReceives)

-----------------------------------------------------------------------------
(* Properties *)

Increasing(s) == \A i \in 1 .. Len(s) - 1 : s[i] < s[i + 1]

\* Every variable has its type; requests wait in the order they were sent.
StationsTypeOK ==
  /\ masterSeq \in 0 .. SeqCount - 1
  /\ used \in 0 .. MaxUsed
  /\ prompted \in 0 .. MaxUnsolicited
  /\ running \in BOOLEAN /\ raised \in BOOLEAN
  /\ writer \in {"none", "open", "closing"}
  /\ loop \in {"none", "reading", "callback", "cancelled", "ended"}
  /\ call \in {"none", "opening", "closing"}
  /\ connection \in {"none", "up", "ended", "lost"}
  /\ faulted \in 0 .. Len(sent)
  /\ ToSet(received \o buffered \o incoming) \subseteq 1 .. Len(sent)
  /\ Increasing(received \o buffered \o incoming)

Response == [uns : {FALSE}, con : {FALSE}, seq : Nat, number : Nat]

Replies == Only(heard, Response)

Service ==
  INSTANCE RequestService WITH
    Answered <- NeedsAnswer,
    submitted <- sent,
    taken <- [i \in 1 .. Len(received) |->
                [number |-> received[i], request |-> requests[i]]],
    answers <- [i \in 1 .. Len(Replies) |->
                  [number |-> Replies[i].number, seq |-> Replies[i].seq]]

\* Through every break, loss, exception and reopening, requests are taken
\* unaltered, in order and at most once, also those an exception left in the
\* buffer, and answers come back in order with the numbers of their requests.
RequestsServed == Service!Spec

\* The sequence number of a response on its way or received tells the master
\* which request it answers: a later request with this number went out only
\* after SeqCount numbers were used.  Confirmations and failed commands, which
\* repeat or waste numbers, do not change that.
AnswerIdentified ==
  LET responses == Only(heard \o toMaster, Response)
  IN \A i \in 1 .. Len(responses) :
       LET n == responses[i].number
       IN \A k \in n + 1 .. Len(sent) :
            sent[k].fc # "CONFIRM" /\ sent[k].seq = responses[i].seq
              => sent[k].nth - sent[n].nth >= SeqCount

Controls(r, op) ==
  [j \in 1 .. IF r.fc \in DOMAIN op THEN Len(r.objs) ELSE 0 |->
     [op |-> op[r.fc], index |-> r.objs[j].index]]

\* What the application was told to do are the commands that were received,
\* with their outputs, in the order they were sent and each once.
CommandsOnce ==
  /\ Increasing(received)
  /\ handled = FlattenSeq([i \in 1 .. Len(received) |->
       Controls(sent[received[i]], [DIRECT_OPERATE |-> "direct", SELECT |-> "select",
                                    OPERATE |-> "operate"])])

\* While the connection is up and the channel open, somebody reads from it,
\* unless the receive callback raised an exception.
OpenIsServed == connection = "up" /\ IsOpen /\ ~raised => Serving

\* While the connection is up and the channel open, somebody reads from it
\* (tcp_client.py:83).
OpenIsRead == connection = "up" /\ IsOpen => Serving

\* Request n is unanswered, and neither a fault that befell the connection
\* after it was sent nor the end of the read loop tells why.
Awaited(n) ==
  /\ NeedsAnswer(sent[n]) /\ ~Unreadable(sent[n])
  /\ n \notin {heard[i].number : i \in 1 .. Len(heard)}
  /\ n > faulted /\ Serving

\* Every request that asks for an answer and can be parsed gets it to the
\* master: since the requests are bounded, in the end none is awaited.
RequestsAnswered ==
  (\E n \in 1 .. Len(sent) : Awaited(n)) ~> ~(\E n \in 1 .. Len(sent) : Awaited(n))
=============================================================================

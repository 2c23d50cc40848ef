----------------------------- MODULE TcpServer -----------------------------
(* The TCP server of a station, which serves one connection at a time      *)
(* (io/tcp_server.py).  Every client gets a _handle_client task; a new one *)
(* closes the connection it replaces, whose task ends later.  The tasks,   *)
(* open() and close() share the event loop: each runs until it awaits.     *)
(* What asyncio and the peers do is external.                              *)
EXTENDS Integers, FiniteSets

CONSTANTS
  Conn,       \* the connections clients make
  None,       \* Python's None
  MaxData,    \* bound on the pieces of data a peer sends
  MaxOpens    \* bound on the calls of open()

ASSUME ConnAssumption == IsFiniteSet(Conn) /\ None \notin Conn /\ "no" \notin Conn
ASSUME BoundsAssumption == MaxData \in Nat /\ MaxOpens \in Nat

VARIABLES
  running,       \* TcpServer._running
  listening,     \* the asyncio server accepts connections
  writer,        \* TcpServer._writer
  connected,     \* TcpServer._connected_event
  connectionId,  \* TcpServer._connection_id
  closer,        \* close(): "no", the connection it awaits, or "server"
  opens,         \* calls of open() so far
  handler,       \* where each connection's task is
  closing,       \* writer.is_closing() of each connection
  lost,          \* connection_lost() was called
  ended,         \* what the reader returns once its data is read
  inbox,         \* pieces of data in the reader
  sent,          \* history: pieces received from the peer
  taken,         \* history: pieces given to the receive callback
  cut,           \* history: the task ended because close() was called
  raised         \* history: the receive callback raised

serverVars == <<running, listening, writer, connected, connectionId, closer, opens>>
readerVars == <<lost, ended, inbox, sent>>
vars == <<serverVars, handler, closing, readerVars, taken, cut, raised>>

-----------------------------------------------------------------------------
(* asyncio and the peers *)

Accept(c) ==
  /\ listening
  /\ handler[c] = "none"
  /\ handler' = [handler EXCEPT ![c] = "started"]
  /\ UNCHANGED <<serverVars, closing, readerVars, taken, cut, raised>>

Connected(c) == handler[c] # "none" /\ ~closing[c] /\ ended[c] = "no"

Receive(c) ==
  /\ Connected(c)
  /\ sent[c] < MaxData
  /\ sent' = [sent EXCEPT ![c] = @ + 1]
  /\ inbox' = [inbox EXCEPT ![c] = @ + 1]
  /\ UNCHANGED <<serverVars, handler, closing, lost, ended, taken, cut, raised>>

\* The peer's end of file.  Over TLS the transport closes by itself.
PeerCloses(c) ==
  /\ Connected(c)
  /\ ended' = [ended EXCEPT ![c] = "eof"]
  /\ \E b \in BOOLEAN : closing' = [closing EXCEPT ![c] = b]
  /\ UNCHANGED <<serverVars, handler, lost, inbox, sent, taken, cut, raised>>

Break(c) ==
  /\ handler[c] # "none" /\ ~closing[c]
  /\ closing' = [closing EXCEPT ![c] = TRUE]
  /\ UNCHANGED <<serverVars, handler, readerVars, taken, cut, raised>>

\* A closing transport is gone in the end; the reader sees an end of file, or
\* an error that hides the data it still has.
ConnectionLost(c) ==
  /\ closing[c] /\ ~lost[c]
  /\ lost' = [lost EXCEPT ![c] = TRUE]
  /\ \E e \in {"eof", "failed"} : ended' = [ended EXCEPT ![c] = e]
  /\ UNCHANGED <<serverVars, handler, closing, inbox, sent, taken, cut, raised>>

-----------------------------------------------------------------------------
(* _handle_client *)

PiecesMutant(c) == IF ended[c] = "no" THEN {inbox[c]} ELSE {0}

\* How much the task reads before it waits or ends.  With _running down it
\* finishes the read it awaited; a failed reader gives nothing else either.
Pieces(c) ==
  IF running /\ ended[c] # "failed" THEN {inbox[c]}
  ELSE IF handler[c] = "started" THEN {0}
  ELSE {k \in 0 .. inbox[c] : k = 0 => inbox[c] = 0}

RemainingMutant(c, k) == inbox[c]
Remaining(c, k) == inbox[c] - k

\* The loop is left.
OverMutant(c) == ended[c] # "no"
DeafMutant(c) == ~running
Over(c) == ~running \/ ended[c] # "no"

DetachMutant(c, w, event) == writer' = None /\ connected' = FALSE

\* The finally block: only the active connection's task clears the state.
Detach(c, w, event) ==
  IF w = c THEN writer' = None /\ connected' = FALSE
           ELSE writer' = w /\ connected' = event

\* The loop is left and the finally block run.
Leave(c, w, event, shut) ==
  /\ handler' = [handler EXCEPT ![c] = "done"]
  /\ closing' = [shut EXCEPT ![c] = TRUE]
  /\ cut' = [cut EXCEPT ![c] = ~running]
  /\ Detach(c, w, event)

Wait(c, w, event, shut) ==
  /\ handler' = [handler EXCEPT ![c] = "reading"]
  /\ closing' = shut
  /\ writer' = w /\ connected' = event
  /\ UNCHANGED cut

\* The receive callback raises on the last of the k pieces it gets.  That is
\* logged, and the loop left with what the reader still holds.
Raises(c, k) == k > 0 /\ Pieces(c) # {0}

\* The loop, up to its next wait or its end, when the active writer is w, the
\* event is as given and the closing transports are those of shut.
Loop(c, w, event, shut) ==
  /\ \E k \in 0 .. inbox[c] :
       /\ inbox' = [inbox EXCEPT ![c] = Remaining(c, k)]
       /\ taken' = [taken EXCEPT ![c] = @ + k]
       /\ \/ /\ k \in Pieces(c)
             /\ IF Over(c) THEN Leave(c, w, event, shut) ELSE Wait(c, w, event, shut)
             /\ UNCHANGED raised
          \/ /\ Raises(c, k)
             /\ Leave(c, w, event, shut)
             /\ raised' = [raised EXCEPT ![c] = TRUE]
  /\ UNCHANGED <<running, listening, closer, opens, lost, ended, sent>>

\* A client's task begins: its connection replaces the active one.
HandleClient(c) ==
  /\ handler[c] = "started"
  /\ connectionId' = connectionId + 1
  /\ Loop(c, c, TRUE, [d \in Conn |-> closing[d] \/ d = writer])

\* reader.read() returns or raises.
Resume(c) ==
  /\ handler[c] = "reading"
  /\ inbox[c] > 0 \/ ended[c] # "no"
  /\ Loop(c, writer, connected, closing)
  /\ UNCHANGED connectionId

-----------------------------------------------------------------------------
(* open and close *)

Open ==
  /\ closer = "no" /\ ~listening
  /\ opens < MaxOpens
  /\ opens' = opens + 1
  /\ running' = TRUE
  /\ listening' = TRUE
  /\ UNCHANGED <<writer, connected, connectionId, closer, handler, closing,
                 readerVars, taken, cut, raised>>

DoneMutant == writer' = None /\ closer' = "no" /\ UNCHANGED connected
Done == writer' = None /\ closer' = "no" /\ connected' = FALSE

\* The asyncio server stops.  Its wait_closed() returns at once before Python
\* 3.12, and waits for every connection from then on.
StopServer ==
  /\ listening' = FALSE
  /\ \/ Done
     \/ closer' = "server" /\ UNCHANGED <<writer, connected>>

ShutMutant(c) == closing
Shut(c) == [closing EXCEPT ![c] = TRUE]

\* close() up to its first wait.
BeginClose ==
  /\ closer = "no" /\ listening
  /\ running' = FALSE
  /\ IF writer # None
     THEN /\ closing' = Shut(writer)
          /\ closer' = writer
          /\ UNCHANGED <<listening, writer, connected>>
     ELSE StopServer /\ UNCHANGED closing
  /\ UNCHANGED <<connectionId, opens, handler, readerVars, taken, cut, raised>>

\* The awaited connection is lost, or was already.
CloseServer ==
  /\ closer \in Conn
  /\ lost[closer]
  /\ StopServer
  /\ UNCHANGED <<running, connectionId, opens, handler, closing, readerVars,
                 taken, cut, raised>>

FinishClose ==
  /\ closer = "server"
  /\ \A c \in Conn : handler[c] # "none" => lost[c]
  /\ Done
  /\ UNCHANGED <<running, listening, connectionId, opens, handler, closing,
                 readerVars, taken, cut, raised>>

-----------------------------------------------------------------------------
Init ==
  /\ running = FALSE /\ listening = FALSE
  /\ writer = None /\ connected = FALSE /\ connectionId = 0
  /\ closer = "no" /\ opens = 0
  /\ handler = [c \in Conn |-> "none"]
  /\ closing = [c \in Conn |-> FALSE]
  /\ lost = [c \in Conn |-> FALSE]
  /\ ended = [c \in Conn |-> "no"]
  /\ inbox = [c \in Conn |-> 0] /\ sent = [c \in Conn |-> 0]
  /\ taken = [c \in Conn |-> 0]
  /\ cut = [c \in Conn |-> FALSE] /\ raised = [c \in Conn |-> FALSE]

Task(c) == HandleClient(c) \/ Resume(c)

Network(c) ==
  \/ Accept(c)
  \/ Receive(c)
  \/ PeerCloses(c)
  \/ Break(c)

CloseStep == CloseServer \/ FinishClose

Next ==
  \/ \E c \in Conn : Task(c) \/ Network(c) \/ ConnectionLost(c)
  \/ Open
  \/ BeginClose
  \/ CloseStep

Spec == Init /\ [][Next]_vars

\* The event loop runs every task that can go on, and a transport that was
\* closed is torn down in the end.
FairSpec ==
  /\ Spec
  /\ WF_vars(CloseStep)
  /\ \A c \in Conn : WF_vars(Task(c)) /\ WF_vars(ConnectionLost(c))

-----------------------------------------------------------------------------
(* Properties *)

\* Every variable has its type.
ServerTypeOK ==
  /\ {running, listening, connected} \subseteq BOOLEAN
  /\ writer \in Conn \cup {None}
  /\ connectionId \in 0 .. Cardinality(Conn)
  /\ closer \in {"no", "server"} \cup Conn
  /\ opens \in 0 .. MaxOpens
  /\ handler \in [Conn -> {"none", "started", "reading", "done"}]
  /\ {closing, lost, cut, raised} \subseteq [Conn -> BOOLEAN]
  /\ ended \in [Conn -> {"no", "eof", "failed"}]
  /\ {inbox, sent, taken} \subseteq [Conn -> 0 .. MaxData]

\* A connection the server reads and has not closed is the one send() writes
\* to: a task that ends late never takes the place of its successor away, and
\* no two connections are served at once.
ActiveServed ==
  \A c \in Conn : handler[c] = "reading" /\ ~closing[c] => writer = c

\* wait_for_connection() lets its caller go on exactly when there is an active
\* connection, through replacements and close() alike.
EventMeansActive == connected <=> writer # None

\* Data the peer sent before its end of file is all delivered, unless the
\* connection failed, the server was closed, or the callback raised on data of
\* this very connection.
NoDataLost ==
  \A c \in Conn :
    handler[c] = "done" =>
      taken[c] = sent[c] \/ ended[c] = "failed" \/ cut[c] \/ raised[c]

\* Once close() has returned no connection is left open by a task that reads
\* it, even one accepted while close() waited.
ClosedServesNone ==
  ~running /\ closer = "no" =>
    \A c \in Conn : handler[c] = "reading" => closing[c]

\* close() returns.
CloseReturns == closer # "no" ~> closer = "no"

\* The task of a closed or replaced connection ends.
TasksEnd ==
  \A c \in Conn : closing[c] /\ handler[c] = "reading" ~> handler[c] = "done"
=============================================================================

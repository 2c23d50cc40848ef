----------------------------- MODULE TcpClient -----------------------------
(* The outstation's TCP client and the connection it opens                  *)
(* (io/tcp_client.py).  Its coroutines run on one event loop, from one      *)
(* await to the next; the application never opens it while its loop reads.  *)
(* What the peer and asyncio do is external.                                *)
EXTENDS Integers, Sequences

CONSTANT MaxOpens   \* bound on the calls of open()

VARIABLES
  running,      \* TcpClient._running
  writer,       \* _writer: "none", "open" or "closing"
  loop,         \* _read_loop(): "none", "reading" (awaiting read()),
                \* "callback", "cancelled" (not yet told) or "ended"
  call,         \* the application's call: "none", "opening" or "closing"
  connection,   \* "none", "up", "ended" (by the peer) or "lost"
  incoming,     \* what the peer sent and the loop has not read
  opens,        \* calls of open() so far
  raised        \* history: did the callback raise during this connection?

clientVars == <<running, writer, loop, call, connection, incoming, opens, raised>>

IsOpen == writer = "open" /\ connection # "lost"

Serving == loop \in {"reading", "callback"}

-----------------------------------------------------------------------------
(* open() and close() *)

\* Also without close(), once the loop ended.
Open ==
  /\ call = "none"
  /\ writer = "none" \/ loop = "ended"
  /\ opens < MaxOpens
  /\ call' = "opening"
  /\ opens' = opens + 1
  /\ UNCHANGED <<running, writer, loop, connection, incoming, raised>>

\* The flag of an earlier connection stays.
StartLoopMutant == UNCHANGED running /\ loop' = "reading"
StartLoop == running' = TRUE /\ loop' = "reading"

\* The connection is made; an earlier one is forgotten, with what it brought.
\* A cancelled loop was told long before: it was ready when open() began to wait.
Opened ==
  /\ call = "opening"
  /\ loop # "cancelled"
  /\ StartLoop
  /\ writer' = "open" /\ call' = "none"
  /\ connection' = "up" /\ incoming' = <<>> /\ raised' = FALSE
  /\ UNCHANGED opens

\* open_connection raises; the client is as before.
FailOpen ==
  /\ call = "opening"
  /\ call' = "none"
  /\ UNCHANGED <<running, writer, loop, connection, incoming, opens, raised>>

Cancel == IF loop = "reading" THEN "cancelled" ELSE loop

\* close() up to its await; the loop is not in the callback, which never waits.
Close ==
  /\ call = "none" /\ loop # "callback" /\ writer = "open"
  /\ running' = FALSE
  /\ loop' = Cancel
  /\ writer' = "closing" /\ call' = "closing"
  /\ connection' = "none" /\ incoming' = <<>>
  /\ UNCHANGED <<opens, raised>>

\* wait_closed() is over.
Closed ==
  /\ call = "closing"
  /\ loop # "cancelled"
  /\ writer' = "none" /\ call' = "none"
  /\ UNCHANGED <<running, loop, connection, incoming, opens, raised>>

-----------------------------------------------------------------------------
(* _read_loop() *)

\* read() returns the first n pieces and the callback is called.
ReadData(n) ==
  /\ loop = "reading"
  /\ n \in 1 .. Len(incoming)
  /\ incoming' = SubSeq(incoming, n + 1, Len(incoming))
  /\ loop' = "callback"
  /\ UNCHANGED <<running, writer, call, connection, opens, raised>>

\* The callback returned: while self._running.
CallbackReturns ==
  /\ loop = "callback"
  /\ loop' = IF running THEN "reading" ELSE "ended"
  /\ UNCHANGED <<running, writer, call, connection, incoming, opens, raised>>

EndLoop == loop' = "ended" /\ running' = FALSE

\* An exception of the callback ends the loop and nothing else.
CallbackRaises ==
  /\ EndLoop
  /\ raised' = TRUE
  /\ UNCHANGED <<writer, call, connection, incoming, opens>>

\* read() returns no data, raises, or is cancelled.
StopReading ==
  /\ \/ loop = "reading" /\ incoming = <<>> /\ connection \in {"ended", "lost"}
     \/ loop = "cancelled"
  /\ EndLoop
  /\ UNCHANGED <<writer, call, connection, incoming, opens, raised>>

-----------------------------------------------------------------------------
(* The peer and the network *)

\* The peer closes: what it sent arrives in part.
PeerCloses(n) ==
  /\ connection = "up"
  /\ connection' = "ended"
  /\ incoming' = SubSeq(incoming, 1, n)
  /\ UNCHANGED <<running, writer, loop, call, opens, raised>>

\* The connection fails; the exception goes before what was not read.
ConnectionLost ==
  /\ connection \in {"up", "ended"}
  /\ connection' = "lost"
  /\ incoming' = <<>>
  /\ UNCHANGED <<running, writer, loop, call, opens, raised>>

-----------------------------------------------------------------------------
ClientInit ==
  /\ running = FALSE /\ writer = "none" /\ loop = "none" /\ call = "none"
  /\ connection = "none" /\ incoming = <<>> /\ opens = 0 /\ raised = FALSE
=============================================================================

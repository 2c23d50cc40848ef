--------------------------- MODULE TcpServerProofs ---------------------------
(* Proofs about the TCP server, for any connections and bounds.             *)
EXTENDS TcpServer, TLAPS, FiniteSetTheorems

\* The tasks that have begun, one per connection id.
Begun == {c \in Conn : handler[c] \in {"reading", "done"}}

\* Every piece of data is in the reader or was delivered.
DataKept == \A c \in Conn : inbox[c] + taken[c] = sent[c]

\* A task that ended closed its connection.
EndedClosed == \A c \in Conn : handler[c] = "done" => closing[c]

\* From the moment close() lowers _running until open() raises it again, no
\* connection is read that is not being closed.
StoppedServesNone ==
  ~running => \A c \in Conn : handler[c] = "reading" => closing[c]

ClosingStopped == closer # "no" => ~running

\* A reader fails only when the connection is lost.
FailedLost == \A c \in Conn : ended[c] = "failed" => lost[c]

IdsCounted == connectionId = Cardinality(Begun)

ServerIInv ==
  /\ ServerTypeOK
  /\ ActiveServed
  /\ EventMeansActive
  /\ NoDataLost
  /\ StoppedServesNone
  /\ ClosingStopped
  /\ EndedClosed
  /\ DataKept
  /\ FailedLost
  /\ IdsCounted

-----------------------------------------------------------------------------
(* The loop of a client's task *)

\* A run of the loop moves the pieces it reads from the reader to the callback.
LEMMA LoopMovesData ==
  ASSUME ServerIInv, NEW c \in Conn, NEW w, NEW event, NEW shut,
         Loop(c, w, event, shut)
  PROVE  /\ inbox' \in [Conn -> 0 .. MaxData] /\ taken' \in [Conn -> 0 .. MaxData]
         /\ raised' \in [Conn -> BOOLEAN]
         /\ \A d \in Conn : inbox'[d] + taken'[d] = sent[d]
         /\ \A d \in Conn \ {c} : taken'[d] = taken[d] /\ raised'[d] = raised[d]
         /\ running /\ ended[c] # "failed" => taken'[c] = sent[c] \/ raised'[c]
<1>1. /\ inbox \in [Conn -> 0 .. MaxData] /\ taken \in [Conn -> 0 .. MaxData]
      /\ sent \in [Conn -> 0 .. MaxData] /\ raised \in [Conn -> BOOLEAN]
      /\ MaxData \in Nat
      /\ \A d \in Conn : inbox[d] + taken[d] = sent[d]
  BY BoundsAssumption DEF ServerIInv, ServerTypeOK, DataKept
<1>2. PICK k \in 0 .. inbox[c] :
        /\ inbox' = [inbox EXCEPT ![c] = inbox[c] - k]
        /\ taken' = [taken EXCEPT ![c] = taken[c] + k]
        /\ \/ k \in Pieces(c) /\ raised' = raised
           \/ raised' = [raised EXCEPT ![c] = TRUE]
  BY DEF Loop, Remaining
<1>3. \/ raised' = [raised EXCEPT ![c] = TRUE]
      \/ raised' = raised /\ (running /\ ended[c] # "failed" => k = inbox[c])
  BY <1>2 DEF Pieces
<1>4. inbox[c] - k \in 0 .. MaxData /\ taken[c] + k \in 0 .. MaxData
  BY <1>1, <1>2
<1>5. /\ raised' \in [Conn -> BOOLEAN]
      /\ \A d \in Conn \ {c} : raised'[d] = raised[d]
      /\ running /\ ended[c] # "failed" => k = inbox[c] \/ raised'[c]
  BY <1>1, <1>3
<1>6. /\ inbox' \in [Conn -> 0 .. MaxData] /\ taken' \in [Conn -> 0 .. MaxData]
      /\ \A d \in Conn : inbox'[d] + taken'[d] = sent[d]
      /\ \A d \in Conn \ {c} : taken'[d] = taken[d]
      /\ k = inbox[c] => taken'[c] = sent[c]
  BY <1>1, <1>2, <1>4
<1>7. QED
  BY <1>5, <1>6

\* A task that leaves the loop closes its connection and has delivered all data,
\* unless the connection failed, the server was closed or the callback raised.
LEMMA LoopMovesTask ==
  ASSUME ServerIInv, NEW c \in Conn, NEW w, NEW event,
         NEW shut \in [Conn -> BOOLEAN],
         Loop(c, w, event, shut)
  PROVE  /\ handler' \in [Conn -> {"none", "started", "reading", "done"}]
         /\ closing' \in [Conn -> BOOLEAN] /\ cut' \in [Conn -> BOOLEAN]
         /\ \A d \in Conn \ {c} :
              handler'[d] = handler[d] /\ closing'[d] = shut[d] /\ cut'[d] = cut[d]
         /\ \/ /\ handler'[c] = "done" /\ closing'[c]
               /\ taken'[c] = sent[c] \/ ended[c] = "failed" \/ cut'[c] \/ raised'[c]
               /\ Detach(c, w, event)
            \/ /\ ~Over(c)
               /\ handler'[c] = "reading" /\ closing'[c] = shut[c]
               /\ writer' = w /\ connected' = event
<1>1. /\ handler \in [Conn -> {"none", "started", "reading", "done"}]
      /\ cut \in [Conn -> BOOLEAN] /\ running \in BOOLEAN
  BY DEF ServerIInv, ServerTypeOK
<1>2. CASE Leave(c, w, event, shut)
  <2>1. /\ handler' = [handler EXCEPT ![c] = "done"]
        /\ closing' = [shut EXCEPT ![c] = TRUE]
        /\ cut' = [cut EXCEPT ![c] = ~running]
        /\ Detach(c, w, event)
    BY <1>2, Zenon DEF Leave
  <2>2. taken'[c] = sent[c] \/ ended[c] = "failed" \/ cut'[c] \/ raised'[c]
    BY <1>1, <2>1, LoopMovesData
  <2>3. QED
    BY <1>1, <2>1, <2>2
<1>3. CASE ~Over(c) /\ Wait(c, w, event, shut)
  <2>1. /\ handler' = [handler EXCEPT ![c] = "reading"]
        /\ closing' = shut /\ cut' = cut
        /\ writer' = w /\ connected' = event
    BY <1>3, Zenon DEF Wait
  <2>2. QED
    BY <1>1, <1>3, <2>1
<1>4. Leave(c, w, event, shut) \/ (~Over(c) /\ Wait(c, w, event, shut))
  BY Zenon DEF Loop
<1>5. QED
  BY <1>2, <1>3, <1>4

\* Data stays in its place, or is delivered, whichever tasks end.
LEMMA LoopKeepsData ==
  ASSUME ServerIInv, NEW c \in Conn, NEW w, NEW event,
         NEW shut \in [Conn -> BOOLEAN],
         \A d \in Conn : handler[d] = "done" => shut[d],
         Loop(c, w, event, shut)
  PROVE  NoDataLost' /\ EndedClosed' /\ DataKept' /\ FailedLost'
<1>1. sent' = sent /\ ended' = ended
  BY DEF Loop
<1>2. DataKept'
  BY <1>1, LoopMovesData DEF DataKept
<1>3. ASSUME NEW d \in Conn, handler'[d] = "done"
      PROVE  /\ closing'[d]
             /\ taken'[d] = sent[d] \/ ended[d] = "failed" \/ cut'[d] \/ raised'[d]
  <2>1. CASE d = c
    BY <1>3, <2>1, LoopMovesTask
  <2>2. CASE d # c
    <3>1. /\ handler'[d] = handler[d] /\ closing'[d] = shut[d] /\ cut'[d] = cut[d]
          /\ taken'[d] = taken[d] /\ raised'[d] = raised[d]
      BY <2>2, LoopMovesTask, LoopMovesData
    <3>2. QED
      BY <1>3, <3>1 DEF ServerIInv, NoDataLost
  <2>3. QED
    BY <2>1, <2>2
<1>4. FailedLost'
  BY DEF Loop, ServerIInv, FailedLost
<1>5. QED
  BY <1>1, <1>2, <1>3, <1>4 DEF NoDataLost, EndedClosed

-----------------------------------------------------------------------------
(* Connection ids *)

\* Only a task that begins adds to the tasks begun.
LEMMA BegunFinite == IsFiniteSet(Begun) /\ Begun \subseteq Conn
  BY ConnAssumption, FS_Subset DEF Begun

LEMMA IdsKept ==
  ASSUME ServerIInv, connectionId' = connectionId,
         \A d \in Conn : handler'[d] \in {"reading", "done"}
                           <=> handler[d] \in {"reading", "done"}
  PROVE  IdsCounted' /\ connectionId' \in 0 .. Cardinality(Conn)
<1>1. Begun' = Begun
  BY DEF Begun
<1>2. QED
  BY <1>1 DEF ServerIInv, ServerTypeOK, IdsCounted

LEMMA IdsGrow ==
  ASSUME ServerIInv, NEW c \in Conn, handler[c] = "started",
         handler'[c] \in {"reading", "done"},
         \A d \in Conn \ {c} : handler'[d] = handler[d],
         connectionId' = connectionId + 1
  PROVE  IdsCounted' /\ connectionId' \in 0 .. Cardinality(Conn)
<1>1. Begun' = Begun \cup {c} /\ c \notin Begun
  BY DEF Begun
<1>2. Cardinality(Begun') = Cardinality(Begun) + 1
  BY <1>1, BegunFinite, FS_AddElement
<1>3. connectionId' = Cardinality(Begun') /\ connectionId' \in Nat
  BY <1>2 DEF ServerIInv, ServerTypeOK, IdsCounted
<1>4. Cardinality(Begun') <= Cardinality(Conn) /\ Cardinality(Conn) \in Nat
  <2>1. Begun' \subseteq Conn
    BY DEF Begun
  <2>2. QED
    BY <2>1, ConnAssumption, FS_Subset, FS_CardinalityType
<1>5. QED
  BY <1>3, <1>4 DEF IdsCounted

-----------------------------------------------------------------------------
(* The steps *)

LEMMA ServerInitInv == Init => ServerIInv
<1> SUFFICES ASSUME Init PROVE ServerIInv
  OBVIOUS
<1>1. Begun = {}
  BY DEF Init, Begun
<1>2. IdsCounted /\ connectionId \in 0 .. Cardinality(Conn)
  BY <1>1, ConnAssumption, FS_EmptySet, FS_CardinalityType DEF Init, IdsCounted
<1>3. ServerTypeOK
  <2>1. /\ 0 \in 0 .. MaxOpens
        /\ [c \in Conn |-> 0] \in [Conn -> 0 .. MaxData]
        /\ [c \in Conn |-> FALSE] \in [Conn -> BOOLEAN]
    BY BoundsAssumption
  <2>2. QED
    BY <1>2, <2>1, Zenon DEF Init, ServerTypeOK
<1>4. QED
  BY <1>2, <1>3, ConnAssumption
     DEF Init, ServerIInv, ActiveServed, EventMeansActive, NoDataLost,
         StoppedServesNone, ClosingStopped, EndedClosed, DataKept, FailedLost

LEMMA HandleClientPreserves ==
  ASSUME ServerIInv, NEW c \in Conn, HandleClient(c)
  PROVE  ServerIInv'
<1> DEFINE shut == [d \in Conn |-> closing[d] \/ d = writer]
<1>1. /\ handler[c] = "started"
      /\ connectionId' = connectionId + 1
      /\ Loop(c, c, TRUE, shut)
  BY DEF HandleClient
<1>2. shut \in [Conn -> BOOLEAN] /\ \A d \in Conn : shut[d] <=> closing[d] \/ d = writer
  BY DEF ServerIInv, ServerTypeOK
<1> HIDE DEF shut
<1>3. UNCHANGED <<running, listening, closer, opens, lost, ended, sent>>
  BY <1>1 DEF Loop
<1>4. ASSUME NEW d \in Conn, handler'[d] = "reading", ~closing'[d]
      PROVE  d = c /\ ~Over(c)
  <2>1. CASE d # c
    <3>1. handler'[d] = handler[d] /\ closing'[d] = shut[d]
      <4>1. \A e \in Conn \ {c} :
              handler'[e] = handler[e] /\ closing'[e] = shut[e] /\ cut'[e] = cut[e]
        BY <1>1, <1>2, LoopMovesTask, Zenon
      <4>2. QED
        BY <2>1, <4>1
    <3>2. writer = d /\ writer # d
      BY <1>2, <1>4, <3>1 DEF ServerIInv, ActiveServed
    <3>3. QED
      BY <3>2
  <2>2. CASE d = c
    BY <1>1, <1>2, <1>4, <2>2, LoopMovesTask
  <2>3. QED
    BY <2>1, <2>2
<1>5. IF handler'[c] = "done" THEN writer' = None /\ connected' = FALSE
                            ELSE writer' = c /\ connected' = TRUE
  BY <1>1, <1>2, LoopMovesTask DEF Detach
<1>6. IdsCounted' /\ connectionId' \in 0 .. Cardinality(Conn)
  BY ZenonT(40), <1>1, <1>2, LoopMovesTask, IdsGrow
<1>7. ServerTypeOK'
  <2>1. /\ inbox' \in [Conn -> 0 .. MaxData] /\ taken' \in [Conn -> 0 .. MaxData]
        /\ handler' \in [Conn -> {"none", "started", "reading", "done"}]
        /\ closing' \in [Conn -> BOOLEAN] /\ cut' \in [Conn -> BOOLEAN]
        /\ raised' \in [Conn -> BOOLEAN]
    BY <1>1, <1>2, LoopMovesData, LoopMovesTask
  <2>2. writer' \in Conn \cup {None} /\ connected' \in BOOLEAN
    BY <1>5
  <2>3. QED
    BY <1>3, <1>6, <2>1, <2>2, Zenon DEF ServerIInv, ServerTypeOK
<1>8. ActiveServed' /\ EventMeansActive'
  BY <1>4, <1>5, ConnAssumption DEF ActiveServed, EventMeansActive
<1>9. NoDataLost' /\ EndedClosed' /\ DataKept' /\ FailedLost'
  <2>1. \A d \in Conn : handler[d] = "done" => shut[d]
    BY <1>2 DEF ServerIInv, EndedClosed
  <2>2. QED
    BY <1>1, <1>2, <2>1, LoopKeepsData
<1>10. StoppedServesNone' /\ ClosingStopped'
  BY <1>3, <1>4 DEF ServerIInv, StoppedServesNone, ClosingStopped, Over
<1>11. QED
  BY <1>6, <1>7, <1>8, <1>9, <1>10 DEF ServerIInv

LEMMA ResumePreserves ==
  ASSUME ServerIInv, NEW c \in Conn, Resume(c)
  PROVE  ServerIInv'
<1>1. /\ handler[c] = "reading"
      /\ connectionId' = connectionId
      /\ Loop(c, writer, connected, closing)
  BY DEF Resume
<1>2. closing \in [Conn -> BOOLEAN] /\ connected \in BOOLEAN
  BY DEF ServerIInv, ServerTypeOK
<1>3. UNCHANGED <<running, listening, closer, opens, lost, ended, sent>>
  BY <1>1 DEF Loop
<1>4. ASSUME NEW d \in Conn, handler'[d] = "reading", ~closing'[d]
      PROVE  handler[d] = "reading" /\ ~closing[d]
  <2>1. CASE d # c
    <3>1. handler'[d] = handler[d] /\ closing'[d] = closing[d]
      BY <1>1, <1>2, <2>1, LoopMovesTask
    <3>2. QED
      BY <1>4, <2>1, <3>1
  <2>2. CASE d = c
    BY <1>1, <1>2, <1>4, <2>2, LoopMovesTask
  <2>3. QED
    BY <2>1, <2>2
<1>5. IF handler'[c] = "done" /\ writer = c THEN writer' = None /\ connected' = FALSE
                                      ELSE writer' = writer /\ connected' = connected
  <2>0. \/ handler'[c] = "done" /\ Detach(c, writer, connected)
        \/ handler'[c] = "reading" /\ writer' = writer /\ connected' = connected
    BY <1>1, <1>2, LoopMovesTask, Zenon
  <2>1. handler'[c] # "done" => writer' = writer /\ connected' = connected
    BY <2>0, Zenon
  <2>2. handler'[c] = "done" => Detach(c, writer, connected)
    BY <2>0, Zenon
  <2>3. QED
    BY <2>1, <2>2, Zenon DEF Detach
<1>6. IdsCounted' /\ connectionId' \in 0 .. Cardinality(Conn)
  <2>1. \A d \in Conn : handler'[d] \in {"reading", "done"}
                           <=> handler[d] \in {"reading", "done"}
    BY <1>1, <1>2, LoopMovesTask
  <2>2. QED
    BY <1>1, <2>1, IdsKept
<1>7. ServerTypeOK'
  <2>1. /\ inbox' \in [Conn -> 0 .. MaxData] /\ taken' \in [Conn -> 0 .. MaxData]
        /\ handler' \in [Conn -> {"none", "started", "reading", "done"}]
        /\ closing' \in [Conn -> BOOLEAN] /\ cut' \in [Conn -> BOOLEAN]
        /\ raised' \in [Conn -> BOOLEAN]
    BY <1>1, <1>2, LoopMovesData, LoopMovesTask
  <2>2. writer' \in Conn \cup {None} /\ connected' \in BOOLEAN
    BY <1>2, <1>5 DEF ServerIInv, ServerTypeOK
  <2>3. QED
    BY <1>3, <1>6, <2>1, <2>2, Zenon DEF ServerIInv, ServerTypeOK
<1>8. ActiveServed' /\ EventMeansActive'
  BY <1>4, <1>5 DEF ServerIInv, ActiveServed, EventMeansActive
<1>9. NoDataLost' /\ EndedClosed' /\ DataKept' /\ FailedLost'
  BY <1>1, <1>2, LoopKeepsData DEF ServerIInv, EndedClosed
<1>10. StoppedServesNone' /\ ClosingStopped'
  BY <1>3, <1>4 DEF ServerIInv, StoppedServesNone, ClosingStopped
<1>11. QED
  BY <1>6, <1>7, <1>8, <1>9, <1>10 DEF ServerIInv

\* What the peers and asyncio may do to the connections: start one, close one,
\* fill a reader.
NetworkEffect ==
  /\ handler' \in [Conn -> {"none", "started", "reading", "done"}]
  /\ closing' \in [Conn -> BOOLEAN] /\ lost' \in [Conn -> BOOLEAN]
  /\ ended' \in [Conn -> {"no", "eof", "failed"}]
  /\ inbox' \in [Conn -> 0 .. MaxData] /\ sent' \in [Conn -> 0 .. MaxData]
  /\ \A d \in Conn :
       /\ handler'[d] = handler[d] \/ (handler[d] = "none" /\ handler'[d] = "started")
       /\ closing[d] => closing'[d] /\ sent'[d] = sent[d]
       /\ ended[d] = "failed" => ended'[d] = "failed"
       /\ ended'[d] = "failed" => lost'[d]
       /\ inbox'[d] + taken[d] = sent'[d]

LEMMA NetworkMoves ==
  ASSUME ServerIInv, NEW c \in Conn, Network(c) \/ ConnectionLost(c)
  PROVE  NetworkEffect
<1>1. /\ handler \in [Conn -> {"none", "started", "reading", "done"}]
      /\ closing \in [Conn -> BOOLEAN] /\ lost \in [Conn -> BOOLEAN]
      /\ ended \in [Conn -> {"no", "eof", "failed"}]
      /\ inbox \in [Conn -> 0 .. MaxData] /\ sent \in [Conn -> 0 .. MaxData]
      /\ taken \in [Conn -> 0 .. MaxData]
      /\ \A d \in Conn : /\ inbox[d] + taken[d] = sent[d]
                         /\ ended[d] = "failed" => lost[d]
  BY DEF ServerIInv, ServerTypeOK, DataKept, FailedLost
<1>2. CASE Accept(c)
  <2>1. /\ handler[c] = "none" /\ handler' = [handler EXCEPT ![c] = "started"]
        /\ UNCHANGED <<closing, lost, ended, inbox, sent>>
    BY <1>2 DEF Accept, readerVars
  <2>2. QED
    BY <1>1, <2>1 DEF NetworkEffect
<1>3. CASE Receive(c)
  <2>1. /\ ~closing[c] /\ sent[c] < MaxData
        /\ sent' = [sent EXCEPT ![c] = sent[c] + 1]
        /\ inbox' = [inbox EXCEPT ![c] = inbox[c] + 1]
        /\ UNCHANGED <<handler, closing, lost, ended>>
    BY <1>3 DEF Receive, Connected
  <2>2. sent[c] + 1 \in 0 .. MaxData /\ inbox[c] + 1 \in 0 .. MaxData
    BY <1>1, <2>1, BoundsAssumption
  <2>3. QED
    BY <1>1, <2>1, <2>2 DEF NetworkEffect
<1>4. CASE PeerCloses(c)
  <2>1. PICK b \in BOOLEAN :
          /\ ~closing[c] /\ ended[c] = "no"
          /\ ended' = [ended EXCEPT ![c] = "eof"]
          /\ closing' = [closing EXCEPT ![c] = b]
          /\ UNCHANGED <<handler, lost, inbox, sent>>
    BY <1>4 DEF PeerCloses, Connected
  <2>2. QED
    BY <1>1, <2>1 DEF NetworkEffect
<1>5. CASE Break(c)
  <2>1. /\ closing' = [closing EXCEPT ![c] = TRUE]
        /\ UNCHANGED <<handler, lost, ended, inbox, sent>>
    BY <1>5 DEF Break, readerVars
  <2>2. QED
    BY <1>1, <2>1 DEF NetworkEffect
<1>6. CASE ConnectionLost(c)
  <2>1. PICK e \in {"eof", "failed"} :
          /\ ~lost[c]
          /\ lost' = [lost EXCEPT ![c] = TRUE]
          /\ ended' = [ended EXCEPT ![c] = e]
          /\ UNCHANGED <<handler, closing, inbox, sent>>
    BY <1>6 DEF ConnectionLost
  <2>2. QED
    BY <1>1, <2>1 DEF NetworkEffect
<1>7. QED
  BY <1>2, <1>3, <1>4, <1>5, <1>6 DEF Network

LEMMA NetworkPreserves ==
  ASSUME ServerIInv, NEW c \in Conn, Network(c) \/ ConnectionLost(c)
  PROVE  ServerIInv'
<1>1. /\ UNCHANGED <<running, listening, writer, connected, connectionId, closer, opens>>
      /\ taken' = taken /\ cut' = cut /\ raised' = raised
  BY DEF Network, Accept, Receive, PeerCloses, Break, ConnectionLost,
         serverVars, readerVars
<1>2. \A d \in Conn :
        /\ handler'[d] \in {"reading", "done"} <=> handler[d] \in {"reading", "done"}
        /\ handler[d] \in {"reading", "done"} => handler'[d] = handler[d]
        /\ ~closing'[d] => ~closing[d]
  BY NetworkMoves DEF NetworkEffect
<1>3. IdsCounted' /\ connectionId' \in 0 .. Cardinality(Conn)
  BY <1>1, <1>2, IdsKept
<1>4. ServerTypeOK'
  <2>1. /\ handler' \in [Conn -> {"none", "started", "reading", "done"}]
        /\ closing' \in [Conn -> BOOLEAN] /\ lost' \in [Conn -> BOOLEAN]
        /\ ended' \in [Conn -> {"no", "eof", "failed"}]
        /\ inbox' \in [Conn -> 0 .. MaxData] /\ sent' \in [Conn -> 0 .. MaxData]
    BY NetworkMoves DEF NetworkEffect
  <2>2. QED
    BY <1>1, <1>3, <2>1, Zenon DEF ServerIInv, ServerTypeOK
<1>5. ActiveServed' /\ EventMeansActive'
  BY <1>1, <1>2 DEF ServerIInv, ActiveServed, EventMeansActive
<1>6. NoDataLost' /\ EndedClosed' /\ DataKept' /\ FailedLost'
  BY <1>1, <1>2, NetworkMoves
     DEF NetworkEffect, ServerIInv, NoDataLost, EndedClosed, DataKept, FailedLost
<1>7. StoppedServesNone' /\ ClosingStopped'
  BY <1>1, <1>2 DEF ServerIInv, StoppedServesNone, ClosingStopped
<1>8. QED
  BY <1>3, <1>4, <1>5, <1>6, <1>7 DEF ServerIInv

LEMMA OpenPreserves ==
  ASSUME ServerIInv, Open
  PROVE  ServerIInv'
<1>1. /\ closer = "no" /\ opens < MaxOpens
      /\ opens' = opens + 1 /\ running' = TRUE /\ listening' = TRUE
      /\ UNCHANGED <<writer, connected, connectionId, closer, handler, closing,
                     lost, ended, inbox, sent, taken, cut, raised>>
  BY DEF Open, readerVars
<1>2. IdsCounted' /\ connectionId' \in 0 .. Cardinality(Conn)
  BY <1>1, IdsKept
<1>3. opens' \in 0 .. MaxOpens
  BY <1>1, BoundsAssumption DEF ServerIInv, ServerTypeOK
<1>4. ServerTypeOK'
  BY <1>1, <1>2, <1>3, Zenon DEF ServerIInv, ServerTypeOK
<1>5. QED
  BY <1>1, <1>2, <1>4
     DEF ServerIInv, ActiveServed, EventMeansActive, NoDataLost, StoppedServesNone,
         ClosingStopped, EndedClosed, DataKept, FailedLost

\* _running is down and every connection that is read is being closed.
StopsServing ==
  running' = FALSE /\ \A c \in Conn : handler[c] = "reading" => closing[c]

\* The end of close() finds nobody to serve.
LEMMA DonePreserves ==
  ASSUME ServerIInv, StopsServing, Done, listening' \in BOOLEAN,
         UNCHANGED <<connectionId, opens, handler, closing, readerVars,
                     taken, cut, raised>>
  PROVE  ServerIInv'
<1>1. /\ writer' = None /\ closer' = "no" /\ connected' = FALSE /\ running' = FALSE
      /\ \A c \in Conn : handler[c] = "reading" => closing[c]
      /\ UNCHANGED <<connectionId, opens, handler, closing,
                     lost, ended, inbox, sent, taken, cut, raised>>
  BY DEF Done, StopsServing, readerVars
<1>2. IdsCounted' /\ connectionId' \in 0 .. Cardinality(Conn)
  BY <1>1, IdsKept
<1>3. ServerTypeOK'
  BY <1>1, <1>2, Zenon DEF ServerIInv, ServerTypeOK
<1>4. ActiveServed'
  BY <1>1 DEF ActiveServed
<1>5. QED
  BY <1>1, <1>2, <1>3, <1>4
     DEF ServerIInv, EventMeansActive, NoDataLost, StoppedServesNone,
         ClosingStopped, EndedClosed, DataKept, FailedLost

\* close() goes on to wait for the server.
LEMMA AwaitPreserves ==
  ASSUME ServerIInv, StopsServing, closer' = "server", listening' \in BOOLEAN,
         UNCHANGED <<writer, connected>>,
         UNCHANGED <<connectionId, opens, handler, closing, readerVars,
                     taken, cut, raised>>
  PROVE  ServerIInv'
<1>1. /\ closer' = "server" /\ running' = FALSE
      /\ \A c \in Conn : handler[c] = "reading" => closing[c]
      /\ UNCHANGED <<writer, connected, connectionId, opens, handler,
                     closing, lost, ended, inbox, sent, taken, cut, raised>>
  BY DEF StopsServing, readerVars
<1>2. IdsCounted' /\ connectionId' \in 0 .. Cardinality(Conn)
  BY <1>1, IdsKept
<1>3. ServerTypeOK'
  BY <1>1, <1>2, Zenon DEF ServerIInv, ServerTypeOK
<1>4. QED
  BY <1>1, <1>2, <1>3
     DEF ServerIInv, ActiveServed, EventMeansActive, NoDataLost, StoppedServesNone,
         ClosingStopped, EndedClosed, DataKept, FailedLost

LEMMA CloseStepPreserves ==
  ASSUME ServerIInv, CloseStep
  PROVE  ServerIInv'
<1>1. running' = running /\ closer # "no"
  BY ConnAssumption DEF CloseStep, CloseServer, FinishClose
<1>2. StopsServing
  <2>1. running = FALSE
    BY <1>1 DEF ServerIInv, ServerTypeOK, ClosingStopped
  <2>2. QED
    BY <1>1, <2>1 DEF StopsServing, ServerIInv, StoppedServesNone
<1>3. CASE CloseServer
  BY <1>2, <1>3, DonePreserves, AwaitPreserves DEF CloseServer, StopServer
<1>4. CASE FinishClose
  BY <1>2, <1>4, DonePreserves DEF FinishClose, ServerIInv, ServerTypeOK
<1>5. QED
  BY <1>3, <1>4 DEF CloseStep

LEMMA BeginClosePreserves ==
  ASSUME ServerIInv, BeginClose
  PROVE  ServerIInv'
<1>1. /\ running' = FALSE
      /\ UNCHANGED <<connectionId, opens, handler, readerVars, taken, cut, raised>>
      /\ handler \in [Conn -> {"none", "started", "reading", "done"}]
      /\ closing \in [Conn -> BOOLEAN]
      /\ writer \in Conn \cup {None}
  BY DEF BeginClose, ServerIInv, ServerTypeOK
<1>2. CASE writer = None
  <2>1. StopServer /\ closing' = closing
    BY <1>2 DEF BeginClose
  <2>2. StopsServing
    BY <1>1, <1>2, ConnAssumption DEF StopsServing, ServerIInv, ActiveServed
  <2>3. QED
    BY <1>1, <2>1, <2>2, DonePreserves, AwaitPreserves DEF StopServer
<1>3. CASE writer # None
  <2>1. /\ closing' = [closing EXCEPT ![writer] = TRUE]
        /\ closer' = writer
        /\ UNCHANGED <<listening, writer, connected, connectionId, opens, handler,
                       lost, ended, inbox, sent, taken, cut, raised>>
    BY <1>1, <1>3 DEF BeginClose, Shut, readerVars
  <2>2. closing' \in [Conn -> BOOLEAN] /\ \A c \in Conn : closing[c] => closing'[c]
    BY <1>1, <2>1
  <2>3. \A c \in Conn : handler'[c] = "reading" => closing'[c]
    BY <1>1, <2>1 DEF ServerIInv, ActiveServed
  <2>4. IdsCounted' /\ connectionId' \in 0 .. Cardinality(Conn)
    BY <2>1, IdsKept
  <2>5. closer' \in {"no", "server"} \cup Conn
    BY <1>1, <1>3, <2>1
  <2>6. ServerTypeOK'
    <3>1. running' = FALSE /\ closing' \in [Conn -> BOOLEAN]
          /\ closer' \in {"no", "server"} \cup Conn
          /\ connectionId' \in 0 .. Cardinality(Conn)
          /\ UNCHANGED <<listening, writer, connected, opens, handler, lost, ended,
                         inbox, sent, taken, cut, raised>>
      BY <1>1, <2>1, <2>2, <2>4, <2>5
    <3>2. QED
      BY <3>1, Zenon DEF ServerIInv, ServerTypeOK
  <2>7. QED
    BY <1>1, <2>1, <2>2, <2>3, <2>4, <2>6
       DEF ServerIInv, ActiveServed, EventMeansActive, NoDataLost, StoppedServesNone,
           ClosingStopped, EndedClosed, DataKept, FailedLost
<1>4. QED
  BY <1>2, <1>3

LEMMA ServerStepPreserves ==
  ASSUME ServerIInv, [Next]_vars
  PROVE  ServerIInv'
<1>1. ASSUME NEW c \in Conn, Task(c)
      PROVE  ServerIInv'
  BY <1>1, HandleClientPreserves, ResumePreserves DEF Task
<1>2. ASSUME NEW c \in Conn, Network(c) \/ ConnectionLost(c)
      PROVE  ServerIInv'
  BY <1>2, NetworkPreserves
<1>3. CASE UNCHANGED vars
  <2>1. UNCHANGED <<running, listening, writer, connected, connectionId, closer, opens,
                    handler, closing, lost, ended, inbox, sent, taken, cut, raised>>
    BY <1>3 DEF vars, serverVars, readerVars
  <2>2. IdsCounted' /\ connectionId' \in 0 .. Cardinality(Conn)
    BY <2>1, IdsKept
  <2>3. ServerTypeOK'
    BY <2>1, Zenon DEF ServerIInv, ServerTypeOK
  <2>4. QED
    BY <2>1, <2>2, <2>3
       DEF ServerIInv, ActiveServed, EventMeansActive, NoDataLost, StoppedServesNone,
           ClosingStopped, EndedClosed, DataKept, FailedLost
<1>4. QED
  BY <1>1, <1>2, <1>3, OpenPreserves, BeginClosePreserves, CloseStepPreserves DEF Next

-----------------------------------------------------------------------------
\* All invariants of the server, with what keeps them (tcp_server.py:52-122).
THEOREM ServerInvariance == Spec => []ServerIInv
  BY ServerInitInv, ServerStepPreserves, PTL DEF Spec

\* The type invariant: one connection id for every task that began.
THEOREM ServerTypeCorrect == Spec => []ServerTypeOK
<1>1. ServerIInv => ServerTypeOK
  BY DEF ServerIInv
<1>2. QED
  BY <1>1, ServerInvariance, PTL

\* The one connection that is read and not closing is the one send() writes to,
\* however many clients replace one another (tcp_server.py:88-122).
THEOREM OneServed == Spec => []ActiveServed
<1>1. ServerIInv => ActiveServed
  BY DEF ServerIInv
<1>2. QED
  BY <1>1, ServerInvariance, PTL

\* The connected event is set exactly while there is an active connection.
THEOREM EventExact == Spec => []EventMeansActive
<1>1. ServerIInv => EventMeansActive
  BY DEF ServerIInv
<1>2. QED
  BY <1>1, ServerInvariance, PTL

\* A task ends with all data delivered, unless its connection failed, the server
\* was closed or the callback raised on its data (tcp_server.py:104-122).
THEOREM DataDelivered == Spec => []NoDataLost
<1>1. ServerIInv => NoDataLost
  BY DEF ServerIInv
<1>2. QED
  BY <1>1, ServerInvariance, PTL

\* close() leaves no connection open that a task reads.
THEOREM NoneServedClosed == Spec => []ClosedServesNone
<1>1. ServerIInv => ClosedServesNone
  BY DEF ServerIInv, StoppedServesNone, ClosedServesNone
<1>2. QED
  BY <1>1, ServerInvariance, PTL
=============================================================================

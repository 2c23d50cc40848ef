------------------------ MODULE MCOutstationSession ------------------------
(* One application thread beside the event loop.  An analog and a binary     *)
(* input share class 1, which keeps two events; another analog input is of   *)
(* class 2, which keeps one.  The run has three parts, with as many points,  *)
(* updates and requests as the question of each needs.                       *)
EXTENDS OutstationSession

CONSTANTS ai, bi, ai2, ctr

MCClass == {1, 2}
MCClassMax == [c \in Class |-> IF c = 1 THEN 2 ELSE 1]
MCEventClass == [p \in Input |-> IF p = ai2 THEN 2 ELSE 1]
MCDeadband == [p \in AnalogInput |-> 0]
MCEvent == [point : Input, value : Value, flags : Flag]

Req(code, number, objects) == [fc |-> code, seq |-> number, objs |-> objects]

Poll(v) == [group |-> 60, var |-> v, range |-> All]
Static(g, r) == [group |-> g, var |-> 0, range |-> r]

MCIndex == [p \in Point |-> IF p = ai2 THEN 1 ELSE 0]

RestartBit(n) == [group |-> 80, var |-> 1, bit |-> n, on |-> FALSE]

\* Polls: events of both classes, events and static data, one group, an
\* object the session does not know.
Reads ==
  { Req("READ", 0, <<Poll(2), Poll(3)>>),
    Req("READ", 1, <<Poll(3), Poll(1)>>),
    Req("READ", 2, <<Static(21, All), Static(30, 0 .. 1), Static(50, All)>>) }

\* Event polls, one of them with live points and an object that is passed over.
Polls ==
  { Req("READ", 0, <<Poll(2), Poll(3)>>),
    Req("READ", 1, <<Static(50, All), Static(30, All), Poll(2)>>) }

\* Polls of one class or the other, static data, and a request without objects,
\* one after the other.
MixedRequests ==
  { Req("READ", 0, <<Poll(2)>>),
    Req("READ", 1, <<Poll(3), Poll(5)>>),
    Req("READ", 2, <<Poll(1)>>),
    Req("READ", 3, <<Static(30, 1 .. 1)>>),
    Req("DELAY_MEASURE", 4, <<>>) }

\* One request of every other kind.
Others ==
  { Req("WRITE", 0, <<RestartBit(7)>>),
    Req("WRITE", 1, <<RestartBit(4)>>),
    Req("WRITE", 2, <<[group |-> 50, var |-> 1]>>),
    Req("DIRECT_OPERATE", 3, <<[group |-> 12, index |-> 0]>>),
    Req("DIRECT_OPERATE_NO_ACK", 4, <<[group |-> 41, index |-> 1]>>),
    Req("SELECT", 5, <<[group |-> 12, index |-> 0]>>),
    Req("OPERATE", 6, <<[group |-> 12, index |-> 0], [group |-> 41, index |-> 1]>>),
    Req("ENABLE_UNSOLICITED", 7, <<>>),
    Req("DISABLE_UNSOLICITED", 8, <<>>),
    Req("DELAY_MEASURE", 9, <<>>),
    Req("COLD_RESTART", 10, <<>>),
    Req("FREEZE", 11, <<>>),
    Req("CONFIRM", 12, <<>>),
    Req("UNSUPPORTED", 13, <<>>) }

PollAndConfirm == { Req("READ", 0, <<Poll(2)>>), Req("CONFIRM", 0, <<>>) }

StaticRead == { Req("READ", 0, <<Static(30, All)>>) }

\* MasterSession.send_analog_input_scan with its default variation.
Scan == { Req("READ", 0, <<[group |-> 30, var |-> 5, range |-> 0 .. 1]>>) }

AllRequests == Reads \cup Scan \cup Others

AnyRequest == AllRequests \cup Polls \cup MixedRequests

\* Two requests of any kind with one update or freeze; in the other parts points
\* may also be added late, while requests are handled.
Pairs ==
  [points |-> {ai2, ctr}, values |-> {0, 1}, calls |-> 1,
   requests |-> AllRequests, number |-> 2, restart |-> BOOLEAN, late |-> FALSE]

\* One poll with more updates than the queue of its class keeps.
FullQueue ==
  [points |-> {ai, bi}, values |-> {0, 1}, calls |-> 3,
   requests |-> Polls, number |-> 1, restart |-> {TRUE}, late |-> TRUE]

\* Two requests with values that fit an event, only a float, or neither.
Unfit ==
  [points |-> {ai}, values |-> {0, 1, 2}, calls |-> 2,
   requests |-> MixedRequests, number |-> 2, restart |-> {TRUE}, late |-> TRUE]

\* No step of a READ or of a thread that is in a call leaves a part.
Within(part) ==
  /\ ToSet(order) \subseteq part.points
  /\ part.late \/ requests = <<>> \/ ToSet(order) = part.points
  /\ \A p \in Point : had[p] \subseteq [value : part.values, flags : Flag]
  /\ \A t \in Thread : task[t].op # "idle" => task[t].point \in part.points
  /\ \A t \in Thread : task[t].op = "update" => task[t].reading.value \in part.values
  /\ calls <= part.calls
  /\ ToSet(requests) \subseteq part.requests /\ Len(requests) <= part.number
  /\ iin.restart \in part.restart

\* Points are added with the value 0.
MCBounds ==
  /\ \E part \in {Pairs, FullQueue, Unfit} : Within(part)'
  /\ \A p \in Point : added'[p] # added[p] => added'[p].reading.value = 0

MCSpec ==
  /\ Init /\ [][Next /\ MCBounds]_vars
  /\ WF_vars(ReadStep)
  /\ \A t \in Thread : WF_vars(ThreadStep(t) /\ UNCHANGED sessionVars)
=============================================================================

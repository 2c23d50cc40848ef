------------------------- MODULE OutstationSession -------------------------
(* The outstation's session: the event loop takes one request of the       *)
(* master at a time and builds its response, while application threads     *)
(* update the database and so queue events (outstation/session.py).        *)
(*                                                                         *)
(* Handling a request is one call, but only the global interpreter lock    *)
(* and the database lock keep other threads out: a READ is modelled step   *)
(* by step, up to the reads of one point's flags and value.                *)
EXTENDS PointDatabase, Selection, SequencesExt

CONSTANTS
  Request,      \* the requests the master may send
  Index,        \* the index of every point in its dict
  MaxIndex,     \* the largest index of a point
  Int16,        \* the values that fit a 16-bit integer (g32v2)
  Float32,      \* the values that fit a 32-bit float (g30v5, g40v3)
  Nothing,      \* Python's None
  MaxRequests   \* bound on the number of requests

\* A request is a function code, a sequence number and a sequence of objects:
\*   READ     [group |-> g, var |-> v, range |-> the indexes asked for, or All]
\*   WRITE    [group |-> 80, var |-> 1, bit |-> n, on |-> b] or another group
\*   controls [group |-> 12 or 41, index |-> n]

ReadObject == [group : Nat, var : Nat, range : SUBSET Int]

All == -1 .. -1   \* the qualifier ALL_POINTS; no point has such an index

ASSUME IndexAssumption ==
  /\ MaxIndex \in Nat
  /\ Index \in [Point -> 0 .. MaxIndex]
  /\ \A dict \in {BinaryInput, BinaryOutput, AnalogInput, AnalogOutput, Counter} :
       \A p, q \in dict : Index[p] = Index[q] => p = q
ASSUME RequestAssumption ==
  \A r \in Request : r.fc = "READ" => r.objs \in Seq(ReadObject)

VARIABLES
  phase,        \* where the handling of the current request is
  current,      \* the current request, and how many events were logged before it
  todo,         \* READ: request objects and point sets still to be gathered
  gathered,     \* response_objects: references to points, copies of events
  readFlags,    \* flags byte of the point being serialized, once read
  response,     \* the response built so far
  iin,          \* OutstationSession._iin
  unsolicited,  \* OutstationSession._unsolicited_enabled
  state,        \* OutstationSession._state
  requests,     \* history: all requests received
  answered,     \* history: numbers of the requests answered
  last,         \* history: the last response sent
  handled       \* history: the calls made to the application's handler

readVars == <<current, todo, gathered, readFlags, response>>
sessionVars == <<phase, readVars, iin, unsolicited, state, requests, answered,
                 last, handled>>
databaseAll == <<bufferVars, databaseVars>>
vars == <<databaseAll, sessionVars>>

-----------------------------------------------------------------------------
(* Requests handled in one step *)

\* on_message is called with a request; the event loop does nothing else.
Arrives(r) ==
  /\ phase = "idle" /\ ~confirming
  /\ Len(requests) < MaxRequests
  /\ requests' = Append(requests, r)

\* The parser expects points after a range header of a variation it knows; a
\* READ has none (no other header follows such a header).
ExpectsPoints(o) ==
  \/ o.group = 1 /\ o.var \in {1, 2}
  \/ o.group = 20 /\ o.var \in {1, 2, 5, 6}
  \/ o.group = 30 /\ o.var \in 1 .. 6
  \/ o.group \in {10, 21, 40}

Unreadable(r) ==
  /\ r.fc = "READ"
  /\ \E i \in 1 .. Len(r.objs) :
       ExpectsPoints(r.objs[i]) /\ r.objs[i].range # All

LogLengths == [c \in Class |-> Len(log[c])]

\* build_response without objects, and _send.
AnswerWith(r, flags) ==
  /\ last' = [number |-> Len(requests) + 1, seq |-> r.seq, iin |-> flags,
              logged |-> LogLengths, items |-> <<>>]
  /\ answered' = answered \cup {Len(requests) + 1}

Answer(r) == AnswerWith(r, iin)

NoAnswer == UNCHANGED <<last, answered>>

NoCalls == UNCHANGED handled

CallHandlerMutant(op, r) ==
  handled' = handled \o
    LET controls == Only(r.objs, [group : {12}, index : Nat])
    IN [i \in 1 .. Len(controls) |-> [op |-> op, index |-> controls[i].index]]

\* The application's handler is called for every control of groups 12 and 41.
CallHandler(op, r) ==
  handled' = handled \o
    LET controls == Only(r.objs, [group : {12, 41}, index : Nat])
    IN [i \in 1 .. Len(controls) |-> [op |-> op, index |-> controls[i].index]]

IsRestartWriteMutant(o) == o.group = 80 /\ o.var = 1
\* The index of the point is not looked at.
IsRestartWrite(o) == o.group = 80 /\ o.var = 1 /\ ~o.on

HandleWrite(r) ==
  LET clears == \E i \in 1 .. Len(r.objs) : IsRestartWrite(r.objs[i])
      flags == [iin EXCEPT !.restart = @ /\ ~clears]
  IN /\ r.fc = "WRITE"
     /\ iin' = flags
     /\ AnswerWith(r, flags)
     /\ NoCalls
     /\ UNCHANGED <<unsolicited, state, bufferVars>>

HandleDirectOperate(r) ==
  /\ r.fc \in {"DIRECT_OPERATE", "DIRECT_OPERATE_NO_ACK"}
  /\ CallHandler("direct", r)
  /\ IF r.fc = "DIRECT_OPERATE" THEN Answer(r) ELSE NoAnswer
  /\ UNCHANGED <<iin, unsolicited, state, bufferVars>>

HandleSelect(r) ==
  /\ r.fc = "SELECT"
  /\ CallHandler("select", r)
  /\ Answer(r)
  /\ UNCHANGED <<iin, unsolicited, state, bufferVars>>

HandleOperate(r) ==
  /\ r.fc = "OPERATE"
  /\ CallHandler("operate", r)
  /\ Answer(r)
  /\ UNCHANGED <<iin, unsolicited, state, bufferVars>>

HandleUnsolicited(r) ==
  /\ r.fc \in {"ENABLE_UNSOLICITED", "DISABLE_UNSOLICITED"}
  /\ unsolicited' = (r.fc = "ENABLE_UNSOLICITED")
  /\ Answer(r)
  /\ NoCalls
  /\ UNCHANGED <<iin, state, bufferVars>>

HandleDelayMeasure(r) ==
  /\ r.fc = "DELAY_MEASURE"
  /\ Answer(r)
  /\ NoCalls
  /\ UNCHANGED <<iin, unsolicited, state, bufferVars>>

\* on_cold_restart, on_warm_restart, on_freeze: the session keeps its state.
HandleRestartOrFreeze(r) ==
  /\ r.fc \in {"COLD_RESTART", "WARM_RESTART", "FREEZE"}
  /\ handled' = Append(handled, [op |-> r.fc, index |-> 0])
  /\ Answer(r)
  /\ UNCHANGED <<iin, unsolicited, state, bufferVars>>

\* confirm_all() goes on as ConfirmStep; nothing ever sets WAIT_CONFIRM.
HandleConfirm(r) ==
  /\ r.fc = "CONFIRM"
  /\ IF state = "WAIT_CONFIRM"
     THEN BeginConfirmAll(Adding) /\ state' = "IDLE"
     ELSE UNCHANGED <<state, bufferVars>>
  /\ NoAnswer
  /\ NoCalls
  /\ UNCHANGED <<iin, unsolicited>>

ErrorFlagsMutant == iin
ErrorFlags == [iin EXCEPT !.unsupported = TRUE]

\* The indication is set in the session's own IIN.
HandleUnsupportedMutant(r) ==
  /\ r.fc = "UNSUPPORTED"
  /\ AnswerWith(r, ErrorFlags)
  /\ iin' = ErrorFlags
  /\ NoCalls
  /\ UNCHANGED <<unsolicited, state, bufferVars>>

\* The indication is set in a copy, for this response only.
HandleUnsupported(r) ==
  /\ r.fc = "UNSUPPORTED"
  /\ AnswerWith(r, ErrorFlags)
  /\ NoCalls
  /\ UNCHANGED <<iin, unsolicited, state, bufferVars>>

\* clear_restart_iin(), called by the application on the event loop's thread.
ClearRestart ==
  /\ phase = "idle" /\ ~confirming
  /\ iin.restart
  /\ iin' = [iin EXCEPT !.restart = FALSE]
  /\ UNCHANGED <<databaseAll, phase, readVars, unsolicited, state, requests,
                 answered, last, handled>>

\* parse_fragment runs off the end of the request: on_message is not called.
FailParse(r) ==
  /\ Arrives(r)
  /\ Unreadable(r)
  /\ UNCHANGED <<databaseAll, phase, readVars, iin, unsolicited, state,
                 answered, last, handled>>

HandleAtOnce(r) ==
  /\ Arrives(r)
  /\ \/ HandleWrite(r)
     \/ HandleDirectOperate(r)
     \/ HandleSelect(r)
     \/ HandleOperate(r)
     \/ HandleUnsolicited(r)
     \/ HandleDelayMeasure(r)
     \/ HandleRestartOrFreeze(r)
     \/ HandleConfirm(r)
     \/ HandleUnsupported(r)
  /\ UNCHANGED <<databaseVars, phase, readVars>>

-----------------------------------------------------------------------------
(* READ: gathering the objects *)

ClassOrder == Only(<<1, 2, 3>>, Class)

Class0Objects ==
  [i \in 1 .. 6 |-> [group |-> <<1, 10, 30, 40, 20, 21>>[i], var |-> 0, range |-> All]]

\* The list of objects is kept from one call to the next.
StartReadMutant(r) ==
  /\ Arrives(r)
  /\ r.fc = "READ" /\ ~Unreadable(r)
  /\ phase' = "gather"
  /\ current' = [request |-> r, logged |-> LogLengths]
  /\ todo' = r.objs
  /\ UNCHANGED <<databaseAll, gathered, readFlags, response, iin, unsolicited, state,
                 answered, last, handled>>

StartRead(r) ==
  /\ Arrives(r)
  /\ r.fc = "READ" /\ ~Unreadable(r)
  /\ phase' = "gather"
  /\ current' = [request |-> r, logged |-> LogLengths]
  /\ todo' = r.objs
  /\ gathered' = <<>>
  /\ UNCHANGED <<databaseAll, readFlags, response, iin, unsolicited, state,
                 answered, last, handled>>

Gathering ==
  /\ phase = "gather"
  /\ todo # <<>>
  /\ UNCHANGED <<databaseAll, phase, current, readFlags, response, iin,
                 unsolicited, state, requests, answered, last, handled>>

\* _read_class0: six reads of the database, each under the lock.
ExpandClass0 ==
  /\ Gathering
  /\ Head(todo).group = 60 /\ Head(todo).var = 1
  /\ todo' = Class0Objects \o Tail(todo)
  /\ UNCHANGED gathered

EventItem(c, e) == [kind |-> "event", class |-> c, event |-> e]
ItemsOf(c, events) == [i \in 1 .. Len(events) |-> EventItem(c, events[i])]

EventItemsMutant(c) == ItemsOf(c, ClassEvents(c))

EventsOn(points) == {e \in Event : e.point \in points}
ByType(events) ==
  Only(events, EventsOn(AnalogInput)) \o Only(events, EventsOn(BinaryInput))

EventItems(c) == ItemsOf(c, ByType(ClassEvents(c)))

\* _read_events: analog events first, then binary ones.
GatherEvents ==
  /\ Gathering
  /\ Head(todo).group = 60 /\ Head(todo).var \in {2, 3, 4}
  /\ gathered' = gathered \o EventItems(Head(todo).var - 1)
  /\ todo' = Tail(todo)

\* The dict a group is read from.
PointsOf(group) ==
  CASE group = 1  -> BinaryInput
    [] group = 10 -> BinaryOutput
    [] group = 30 -> AnalogInput
    [] group = 40 -> AnalogOutput
    [] OTHER      -> Counter

\* _get_range: all points in the order they were added, those of a range in
\* the order of their indexes.
GetRange(group, range) ==
  LET points == Only(order, PointsOf(group))
      indexes == Only([i \in 1 .. MaxIndex + 1 |-> i - 1],
                      {Index[p] : p \in ToSet(points)} \cap range)
  IN IF range = All THEN points
     ELSE [i \in 1 .. Len(indexes) |->
             CHOOSE p \in ToSet(points) : Index[p] = indexes[i]]

PointItems(group, range) ==
  LET ps == GetRange(group, range)
  IN [i \in 1 .. Len(ps) |->
        [kind |-> IF group = 21 THEN "frozen" ELSE "point", point |-> ps[i],
         nth |-> Len(former[ps[i]]) + 1]]

\* get_binary_inputs and the others: references to the live points, taken
\* under the lock.
GatherPoints ==
  /\ Gathering
  /\ Head(todo).group \in {1, 10, 20, 21, 30, 40}
  /\ lock = Free
  /\ gathered' = gathered \o PointItems(Head(todo).group, Head(todo).range)
  /\ todo' = Tail(todo)

\* Objects _handle_read does not know are passed over.
SkipObject ==
  /\ Gathering
  /\ \/ Head(todo).group \notin {1, 10, 20, 21, 30, 40, 60}
     \/ Head(todo).group = 60 /\ Head(todo).var \notin 1 .. 4
  /\ todo' = Tail(todo)
  /\ UNCHANGED gathered

-----------------------------------------------------------------------------
(* READ: indications and response *)

StartFlags ==
  /\ phase = "gather"
  /\ todo = <<>>
  /\ phase' = "flags"
  /\ todo' = ClassOrder
  /\ UNCHANGED <<databaseAll, current, gathered, readFlags, response, iin,
                 unsolicited, state, requests, answered, last, handled>>

EventFlagMutant(c) == HasEvents(Head(ClassOrder))
EventFlag(c) == HasEvents(c)

\* _update_iin_event_flags, one class at a time.
RefreshFlag ==
  /\ phase = "flags"
  /\ todo # <<>>
  /\ iin' = [iin EXCEPT !.events[Head(todo)] = EventFlag(Head(todo))]
  /\ todo' = Tail(todo)
  /\ UNCHANGED <<databaseAll, phase, current, gathered, readFlags, response,
                 unsolicited, state, requests, answered, last, handled>>

StartResponse ==
  /\ phase = "flags"
  /\ todo = <<>>
  /\ phase' = "serialize"
  /\ response' = [number |-> Len(requests), seq |-> current.request.seq, iin |-> iin,
                  logged |-> current.logged, items |-> <<>>]
  /\ UNCHANGED <<databaseAll, current, todo, gathered, readFlags, iin,
                 unsolicited, state, requests, answered, last, handled>>

Serializing(kinds) ==
  /\ phase = "serialize"
  /\ gathered # <<>>
  /\ Head(gathered).kind \in kinds
  /\ UNCHANGED <<databaseAll, current, todo, iin, unsolicited, state, requests,
                 answered, last, handled>>

\* write_int16 fails for a value outside the 16-bit range.
Encodable(e) == e.point \in AnalogInput => e.value \in Int16

WriteEvent ==
  /\ Serializing({"event"})
  /\ Encodable(Head(gathered).event)
  /\ response' = [response EXCEPT !.items = Append(@, Head(gathered))]
  /\ gathered' = Tail(gathered)
  /\ UNCHANGED <<phase, readFlags>>

\* An exception leaves on_message; nothing is sent.
Abandon ==
  /\ phase' = "idle"
  /\ readFlags' = Nothing
  /\ response' = Nothing
  /\ UNCHANGED gathered

FailEvent ==
  /\ Serializing({"event"})
  /\ ~Encodable(Head(gathered).event)
  /\ Abandon

\* The object a reference stands for: the point may have got another since.
Referenced(item) ==
  LET objects == Append(former[item.point], Objects(item.point))[item.nth]
  IN IF item.kind = "frozen" THEN objects.frozen ELSE objects.live

\* The object's flags are read first, then its value, without the lock.
ReadPointFlags ==
  /\ Serializing({"point", "frozen"})
  /\ readFlags = Nothing
  /\ readFlags' = Referenced(Head(gathered)).flags
  /\ UNCHANGED <<phase, gathered, response>>

\* write_float32 fails for a number beyond the 32-bit range; the values of
\* counters are masked, those of binary points are a bit.
Writable(item) ==
  item.point \in AnalogInput \cup AnalogOutput => Referenced(item).value \in Float32

ReadPointValue ==
  /\ Serializing({"point", "frozen"})
  /\ readFlags # Nothing
  /\ Writable(Head(gathered))
  /\ LET item == Head(gathered)
         reading == [value |-> Referenced(item).value, flags |-> readFlags]
     IN response' = [response EXCEPT !.items =
                       Append(@, [kind |-> item.kind, point |-> item.point,
                                  reading |-> reading])]
  /\ readFlags' = Nothing
  /\ gathered' = Tail(gathered)
  /\ UNCHANGED phase

FailPoint ==
  /\ Serializing({"point", "frozen"})
  /\ readFlags # Nothing
  /\ ~Writable(Head(gathered))
  /\ Abandon

SendResponse ==
  /\ phase = "serialize"
  /\ gathered = <<>>
  /\ last' = response
  /\ answered' = answered \cup {response.number}
  /\ phase' = "idle"
  /\ current' = Nothing
  /\ response' = Nothing
  /\ UNCHANGED <<databaseAll, todo, gathered, readFlags, iin, unsolicited,
                 state, requests, handled>>

-----------------------------------------------------------------------------
SessionInit ==
  /\ phase = "idle" /\ current = Nothing /\ todo = <<>> /\ gathered = <<>>
  /\ readFlags = Nothing /\ response = Nothing
  /\ iin = [restart |-> TRUE, unsupported |-> FALSE,
            events |-> [c \in Class |-> FALSE]]
  /\ unsolicited = FALSE
  /\ state = "IDLE"
  /\ requests = <<>> /\ answered = {} /\ last = Nothing /\ handled = <<>>

Init == DatabaseInit /\ SessionInit

\* The rest of a READ, once begun.
ReadStep ==
  \/ ExpandClass0
  \/ GatherEvents
  \/ GatherPoints
  \/ SkipObject
  \/ StartFlags
  \/ RefreshFlag
  \/ StartResponse
  \/ WriteEvent
  \/ FailEvent
  \/ ReadPointFlags
  \/ ReadPointValue
  \/ FailPoint
  \/ SendResponse

Next ==
  \/ DatabaseNext /\ UNCHANGED sessionVars
  \/ \E r \in Request : HandleAtOnce(r) \/ StartRead(r) \/ FailParse(r)
  \/ ReadStep
  \/ ClearRestart

Spec == Init /\ [][Next]_vars

\* The event loop and the threads that run go on.
FairSpec ==
  /\ Spec
  /\ WF_vars(ReadStep)
  /\ \A t \in Thread : WF_vars(ThreadStep(t) /\ UNCHANGED sessionVars)

-----------------------------------------------------------------------------
(* Properties *)

\* Every variable has its type.
SessionTypeOK ==
  /\ DatabaseTypeOK
  /\ phase \in {"idle", "gather", "flags", "serialize"}
  /\ phase # "idle" => current.request \in Request
  /\ readFlags \in Flag \cup {Nothing}
  /\ iin \in [restart : BOOLEAN, unsupported : {FALSE}, events : [Class -> BOOLEAN]]
  /\ unsolicited \in BOOLEAN
  /\ state \in {"IDLE", "WAIT_CONFIRM"}
  /\ requests \in Seq(Request)
  /\ answered \subseteq 1 .. Len(requests)

PollOf(c) == [group : {60}, var : {c + 1}, range : SUBSET Int]

\* A request polls class c once.
AsksClass(r, c) == Len(Only(r.objs, PollOf(c))) = 1

ClassItem(c) == [kind : {"event"}, class : {c}, event : Event]

ReportedClass(resp, c) == Only(resp.items, ClassItem(c))

LastIsRead == last # Nothing /\ requests[last.number].fc = "READ"

\* The class bits of the answer to a READ agree with its events: events of a
\* class are never reported with its bit down, and the bit is never up for a
\* class that had no event.  Updates may come at any time in between.
FlagsMatchEvents ==
  LastIsRead =>
    \A c \in Class :
      /\ ReportedClass(last, c) # <<>> => last.iin.events[c]
      /\ last.iin.events[c] => log[c] # <<>>

\* The newest events of class c among its first m.
NewestOf(c, m) ==
  LET n == IF m < ClassMax[c] THEN m ELSE ClassMax[c] IN SubSeq(log[c], m - n + 1, m)

\* The answer to a class poll reports, in order of type, the queue of the class
\* as it was at some moment of the handling: every event queued before the
\* request came is there, unless newer ones pushed it out.
PollReportsQueue ==
  LastIsRead =>
    \A c \in Class :
      AsksClass(requests[last.number], c) =>
        \E m \in last.logged[c] .. Len(log[c]) :
          ReportedClass(last, c) = ItemsOf(c, ByType(NewestOf(c, m)))

NeedsAnswer(r) == r.fc \notin {"CONFIRM", "DIRECT_OPERATE_NO_ACK"}

\* A response belongs to a request that asks for one, repeats its sequence
\* number, and says "function not supported" for that request only.
AnswersMatch ==
  last # Nothing =>
    LET r == requests[last.number]
    IN /\ NeedsAnswer(r)
       /\ last.seq = r.seq
       /\ last.iin.unsupported <=> r.fc = "UNSUPPORTED"

\* Request r asks for an item: for the events of its class, for all points, or
\* for its group and index.
AsksFor(r, item) ==
  \E i \in 1 .. Len(r.objs) :
    LET o == r.objs[i]
    IN \/ item.kind = "event" /\ o.group = 60 /\ o.var = item.class + 1
       \/ item.kind # "event" /\ o.group = 60 /\ o.var = 1
       \/ /\ item.kind # "event" /\ item.point \in PointsOf(o.group)
          /\ o.range = All \/ Index[item.point] \in o.range

\* The session is at request n, and something that n asks for does not fit its
\* encoding.
CannotEncode(n) ==
  /\ phase # "idle" /\ n = Len(requests)
  /\ \E i \in 1 .. Len(gathered) :
       /\ AsksFor(requests[n], gathered[i])
       /\ IF gathered[i].kind = "event" THEN ~Encodable(gathered[i].event)
          ELSE ~Writable(gathered[i])

\* Request n is to be answered: a READ for as long as the session is at it.
Due(n) ==
  /\ n = Len(requests)
  /\ NeedsAnswer(requests[n])
  /\ requests[n].fc = "READ" => phase # "idle"

\* Every request that asks for a response gets one, whatever the threads do
\* meanwhile, unless something it asks for itself cannot be encoded: a READ
\* that failed costs no later one its response.
AnsweredIfEncodable ==
  \A n \in 1 .. MaxRequests : Due(n) ~> (n \in answered \/ CannotEncode(n))

\* The points of a response are readings the points had (database.py:24).
ReadsUntorn ==
  last # Nothing =>
    \A i \in 1 .. Len(last.items) :
      last.items[i].kind = "point" =>
        LET p == last.items[i].point
        IN last.items[i].reading \in
             had[p] \cup {task[t].reading : t \in {u \in Thread :
               task[u].op = "update" /\ task[u].point = p /\ Inside(u)}}

\* A CONFIRM after a response that reported events removes events of each
\* class it reported (event_buffer.py:56).
ConfirmClearsEvents ==
  [][Len(requests') > Len(requests) /\ requests'[Len(requests')].fc = "CONFIRM"
       /\ last # Nothing
     => \A c \in Class : ReportedClass(last, c) # <<>> =>
          Len(buffers'[c]) < Len(buffers[c])]_vars
=============================================================================

--------------------------- MODULE SessionProofs ---------------------------
(* Proofs about the outstation's session, for any requests, points, threads *)
(* and queues.                                                              *)
EXTENDS OutstationSession, PointDatabaseProofs, SelectionProofs

IIN == [restart : BOOLEAN, unsupported : {FALSE}, events : [Class -> BOOLEAN]]

\* What the session is doing.  R is the set of requests that may come.
ControlIInv(R) ==
  /\ phase \in {"idle", "gather", "flags", "serialize"}
  /\ requests \in Seq(R)
  /\ answered \subseteq 1 .. Len(requests)
  /\ iin \in IIN
  /\ unsolicited \in BOOLEAN
  /\ state = "IDLE"
  /\ phase # "idle" => /\ requests # <<>>
                       /\ current.request = requests[Len(requests)]
                       /\ current.request.fc = "READ"

\* A response to the request that is handled.
ResponseFor(resp) ==
  [number |-> Len(requests), seq |-> current.request.seq, iin |-> resp.iin,
   logged |-> current.logged, items |-> resp.items]

\* The response that is built belongs to the request that is handled, and the
\* last response to one that was.
AnswerIInv ==
  /\ phase = "serialize" => response = ResponseFor(response) /\ response.iin \in IIN
  /\ last # Nothing => last.number \in 1 .. Len(requests)
  /\ AnswersMatch

\* References to a point of the database: its nth object.
Reference ==
  {x \in [kind : {"point", "frozen"}, point : Point, nth : Nat \ {0}] :
     /\ store[x.point] # Absent
     /\ x.nth <= Len(former[x.point]) + 1
     /\ x.kind = "frozen" => x.point \in Counter}

QueuedEvent == [kind : {"event"}, class : Class, event : Event]
ReadPoint == [kind : {"point", "frozen"}, point : Point, reading : Reading]

\* What is gathered can be read, and what was read is a reading.
ReferencesIInv ==
  /\ order \in Seq({p \in Point : store[p] # Absent})
  /\ \A c \in Counter : former[c] \in Seq([live : Reading, frozen : Reading])
  /\ readFlags \in Flag \cup {Nothing}
  /\ gathered \in Seq(QueuedEvent \cup Reference)
  /\ phase = "gather" => todo \in Seq(ReadObject)
  /\ phase = "flags" => todo \in Seq(Class)
  /\ phase = "serialize" => response.items \in Seq(QueuedEvent \cup ReadPoint)
  /\ LastIsRead => last.items \in Seq(QueuedEvent \cup ReadPoint)

\* The events of class c among the objects of a response.
EventsIn(items, c) == Only(items, ClassItem(c))

\* A class bit is up when events of the class are gathered, and only when the
\* class had events.
FlagsIInv ==
  /\ \A c \in Class : iin.events[c] => log[c] # <<>>
  /\ phase \in {"gather", "flags"} =>
       \A c \in Class : EventsIn(gathered, c) # <<>> => buffers[c] # <<>>
  /\ phase = "flags" =>
       \A c \in Class :
         EventsIn(gathered, c) # <<>> => iin.events[c] \/ c \in Range(todo)
  /\ phase = "serialize" =>
       \A c \in Class :
         /\ EventsIn(response.items, c) \o EventsIn(gathered, c) # <<>>
              => response.iin.events[c]
         /\ response.iin.events[c] => log[c] # <<>>
  /\ FlagsMatchEvents

\* The queue of class c as it was when m events had been logged.
QueueAt(c, m) == ItemsOf(c, ByType(NewestOf(c, m)))

\* Items are the queue of class c at a moment of the handling.
Polled(items, c) == \E m \in current.logged[c] .. Len(log[c]) : items = QueueAt(c, m)

\* A class that is polled once is still to be gathered, or was.
PollsIInv ==
  /\ \A c \in Class : cleared[c] = 0
  /\ phase # "idle" => \A c \in Class : current.logged[c] \in 0 .. Len(log[c])
  /\ phase = "gather" =>
       \A c \in Class : AsksClass(current.request, c) =>
         \/ Len(Only(todo, PollOf(c))) = 1 /\ EventsIn(gathered, c) = <<>>
         \/ Only(todo, PollOf(c)) = <<>> /\ Polled(EventsIn(gathered, c), c)
  /\ phase = "flags" =>
       \A c \in Class : AsksClass(current.request, c) => Polled(EventsIn(gathered, c), c)
  /\ phase = "serialize" =>
       \A c \in Class : AsksClass(current.request, c) =>
         Polled(EventsIn(response.items, c) \o EventsIn(gathered, c), c)
  /\ LastIsRead => \A c \in Class : last.logged[c] \in 0 .. Len(log[c])
  /\ PollReportsQueue

-----------------------------------------------------------------------------
(* Requests handled in one step *)

LEMMA FlagsKept ==
  ASSUME iin \in IIN
  PROVE  /\ ErrorFlags.unsupported = TRUE
         /\ ErrorFlags.events = iin.events
         /\ iin.unsupported = FALSE
  BY DEF IIN, ErrorFlags

\* A request that is answered at once, or not at all, leaves the points and
\* events alone: the session never waits for a confirmation.
LEMMA AtOnceEffect ==
  ASSUME NEW R, ControlIInv(R), NEW r \in R, HandleAtOnce(r)
  PROVE  /\ phase = "idle" /\ phase' = "idle"
         /\ requests' = Append(requests, r)
         /\ iin' \in IIN /\ iin'.events = iin.events
         /\ unsolicited' \in BOOLEAN
         /\ state' = "IDLE"
         /\ r.fc # "READ"
         /\ \/ UNCHANGED <<last, answered>>
            \/ /\ NeedsAnswer(r)
               /\ answered' = answered \cup {Len(requests) + 1}
               /\ last'.number = Len(requests) + 1
               /\ last'.seq = r.seq
               /\ last'.iin.unsupported <=> r.fc = "UNSUPPORTED"
               /\ last'.items = <<>>
         /\ UNCHANGED <<databaseAll, readVars>>
<1>1. /\ phase = "idle" /\ state = "IDLE" /\ iin \in IIN /\ unsolicited \in BOOLEAN
      /\ requests' = Append(requests, r)
      /\ UNCHANGED <<databaseVars, phase, readVars>>
  BY DEF HandleAtOnce, Arrives, ControlIInv
<1>2. CASE HandleWrite(r)
  <2> DEFINE clears == \E i \in 1 .. Len(r.objs) : IsRestartWrite(r.objs[i])
             flags == [iin EXCEPT !.restart = @ /\ ~clears]
  <2>1. /\ r.fc = "WRITE" /\ iin' = flags /\ AnswerWith(r, flags)
        /\ UNCHANGED <<unsolicited, state, bufferVars>>
    BY <1>2 DEF HandleWrite
  <2>2. flags \in IIN /\ flags.events = iin.events /\ flags.unsupported = FALSE
    BY <1>1 DEF IIN
  <2> HIDE DEF flags
  <2>3. QED
    BY <1>1, <2>1, <2>2 DEF AnswerWith, NeedsAnswer, databaseAll
<1>3. CASE HandleUnsupported(r)
  BY <1>1, <1>3, FlagsKept DEF HandleUnsupported, AnswerWith, NeedsAnswer, databaseAll
<1>4. CASE HandleConfirm(r)
  BY <1>1, <1>4 DEF HandleConfirm, NoAnswer, databaseAll
<1>5. CASE HandleDirectOperate(r)
  <2>1. /\ r.fc \in {"DIRECT_OPERATE", "DIRECT_OPERATE_NO_ACK"}
        /\ UNCHANGED <<iin, unsolicited, state, bufferVars>>
        /\ \/ r.fc = "DIRECT_OPERATE" /\ AnswerWith(r, iin)
           \/ UNCHANGED <<last, answered>>
    BY <1>5, Zenon DEF HandleDirectOperate, Answer, NoAnswer
  <2>2. CASE r.fc = "DIRECT_OPERATE" /\ AnswerWith(r, iin)
    BY <1>1, <2>1, <2>2, FlagsKept DEF AnswerWith, NeedsAnswer, databaseAll
  <2>3. CASE UNCHANGED <<last, answered>>
    BY <1>1, <2>1, <2>3, FlagsKept DEF databaseAll
  <2>4. QED
    BY <2>1, <2>2, <2>3
<1>6. CASE HandleUnsolicited(r)
  <2>1. /\ r.fc \in {"ENABLE_UNSOLICITED", "DISABLE_UNSOLICITED"}
        /\ AnswerWith(r, iin)
        /\ UNCHANGED <<iin, state, bufferVars>>
    BY <1>6 DEF HandleUnsolicited, Answer
  <2>2. unsolicited' \in BOOLEAN
    BY <1>6, Zenon DEF HandleUnsolicited
  <2>3. QED
    BY <1>1, <2>1, <2>2, FlagsKept DEF AnswerWith, NeedsAnswer, databaseAll
<1>7. CASE HandleSelect(r) \/ HandleOperate(r) \/ HandleDelayMeasure(r)
           \/ HandleRestartOrFreeze(r)
  <2>1. /\ r.fc \in {"SELECT", "OPERATE", "DELAY_MEASURE", "COLD_RESTART",
                     "WARM_RESTART", "FREEZE"}
        /\ AnswerWith(r, iin)
        /\ UNCHANGED <<iin, unsolicited, state, bufferVars>>
    BY <1>7, Zenon DEF HandleSelect, HandleOperate, HandleDelayMeasure,
                       HandleRestartOrFreeze, Answer
  <2>2. QED
    BY <1>1, <2>1, FlagsKept DEF AnswerWith, NeedsAnswer, databaseAll
<1>8. QED
  BY <1>2, <1>3, <1>4, <1>5, <1>6, <1>7 DEF HandleAtOnce

-----------------------------------------------------------------------------
(* Control and answers *)

\* A request that has come is the last one; those before it stay.
LEMMA RequestComes ==
  ASSUME NEW R, requests \in Seq(R), NEW r \in R, requests' = Append(requests, r)
  PROVE  /\ requests' \in Seq(R) /\ requests' # <<>>
         /\ Len(requests) \in Nat /\ Len(requests') = Len(requests) + 1
         /\ requests'[Len(requests')] = r
         /\ \A i \in 1 .. Len(requests) : requests'[i] = requests[i]
  BY AppendProperties, LenProperties

\* The response sent last stays a match while requests come.
LEMMA AnswerStays ==
  ASSUME NEW R, ControlIInv(R), AnswerIInv,
         NEW r \in R, requests' = Append(requests, r), UNCHANGED last
  PROVE  /\ last' # Nothing => last'.number \in 1 .. Len(requests')
         /\ AnswersMatch'
<1>1. /\ Len(requests) \in Nat /\ Len(requests') = Len(requests) + 1
      /\ \A i \in 1 .. Len(requests) : requests'[i] = requests[i]
  BY RequestComes DEF ControlIInv
<1>2. SUFFICES ASSUME last # Nothing
               PROVE  last.number \in 1 .. Len(requests') /\ AnswersMatch'
  BY DEF AnswersMatch
<1>3. last.number \in 1 .. Len(requests)
  BY <1>2 DEF AnswerIInv
<1>4. requests'[last'.number] = requests[last.number]
  BY <1>1, <1>3
<1>5. QED
  BY <1>1, <1>2, <1>3, <1>4 DEF AnswerIInv, AnswersMatch

LEMMA ControlAtOnce ==
  ASSUME NEW R, ControlIInv(R), AnswerIInv, NEW r \in R, HandleAtOnce(r)
  PROVE  ControlIInv(R)' /\ AnswerIInv'
<1>1. /\ requests' \in Seq(R) /\ Len(requests) \in Nat
      /\ Len(requests') = Len(requests) + 1
      /\ requests'[Len(requests')] = r
  BY AtOnceEffect, RequestComes DEF ControlIInv
<1>2. /\ phase' = "idle" /\ requests' = Append(requests, r) /\ iin' \in IIN
      /\ unsolicited' \in BOOLEAN /\ state' = "IDLE" /\ r.fc # "READ"
  BY AtOnceEffect
<1>3. CASE UNCHANGED <<last, answered>>
  <2>1. ControlIInv(R)'
    BY <1>1, <1>2, <1>3 DEF ControlIInv
  <2>2. QED
    BY <1>2, <1>3, <2>1, AnswerStays DEF AnswerIInv
<1>4. CASE /\ NeedsAnswer(r)
           /\ answered' = answered \cup {Len(requests) + 1}
           /\ last'.number = Len(requests) + 1
           /\ last'.seq = r.seq
           /\ last'.iin.unsupported <=> r.fc = "UNSUPPORTED"
  <2>1. ControlIInv(R)'
    <3>1. answered' = answered \cup {Len(requests) + 1}
      BY <1>4
    <3>2. answered \subseteq 1 .. Len(requests)
      BY DEF ControlIInv
    <3>3. answered' \subseteq 1 .. Len(requests')
      <4>1. Len(requests) \in Nat /\ Len(requests') = Len(requests) + 1
        BY <1>1
      <4>2. 1 .. Len(requests) \subseteq 1 .. Len(requests')
        BY <4>1
      <4>3. Len(requests) + 1 \in 1 .. Len(requests')
        BY <4>1
      <4>4. QED
        BY <3>1, <3>2, <4>2, <4>3
    <3>4. QED
      BY <1>1, <1>2, <3>3 DEF ControlIInv
  <2>2. requests'[last'.number] = r /\ last'.number \in 1 .. Len(requests')
    <3>1. last'.number = Len(requests) + 1
      BY <1>4
    <3>2. QED
      BY <1>1, <3>1
  <2>3. NeedsAnswer(r)'
    BY <1>4 DEF NeedsAnswer
  <2>4. AnswersMatch'
    <3>1. last'.seq = r.seq /\ (last'.iin.unsupported <=> r.fc = "UNSUPPORTED")
      BY <1>4
    <3>2. QED
      BY <2>2, <2>3, <3>1, Zenon DEF AnswersMatch, NeedsAnswer
  <2>5. QED
    BY <1>2, <2>1, <2>2, <2>4 DEF AnswerIInv
<1>5. QED
  BY <1>3, <1>4, AtOnceEffect

\* A request that cannot be parsed, and a READ, wait for their answer.
LEMMA ControlArrival ==
  ASSUME NEW R, ControlIInv(R), AnswerIInv, NEW r \in R, StartRead(r) \/ FailParse(r)
  PROVE  ControlIInv(R)' /\ AnswerIInv'
<1>1. /\ requests' = Append(requests, r) /\ phase = "idle"
      /\ UNCHANGED <<iin, unsolicited, state, answered, last>>
  BY DEF StartRead, FailParse, Arrives
<1>2. /\ requests' \in Seq(R) /\ requests' # <<>> /\ Len(requests) \in Nat
      /\ Len(requests') = Len(requests) + 1
      /\ requests'[Len(requests')] = r
  BY <1>1, RequestComes DEF ControlIInv
<1>3. \/ phase' = "idle"
      \/ phase' = "gather" /\ current'.request = r /\ r.fc = "READ"
  BY <1>1 DEF StartRead, FailParse
<1>4. ControlIInv(R)'
  BY <1>1, <1>2, <1>3 DEF ControlIInv
<1>5. QED
  BY <1>1, <1>3, <1>4, AnswerStays DEF AnswerIInv

LEMMA ControlReadStep ==
  ASSUME NEW R, ControlIInv(R), AnswerIInv, ReadStep
  PROVE  ControlIInv(R)' /\ AnswerIInv'
<1>1. Len(requests) \in Nat
  BY LenProperties DEF ControlIInv
<1>2. CASE ExpandClass0 \/ GatherEvents \/ GatherPoints \/ SkipObject
  <2>1. phase = "gather" /\ UNCHANGED <<phase, current, response, iin, unsolicited,
                                      state, requests, answered, last>>
    BY <1>2 DEF ExpandClass0, GatherEvents, GatherPoints, SkipObject, Gathering
  <2>2. QED
    BY <2>1 DEF ControlIInv, AnswerIInv, AnswersMatch
<1>3. CASE StartFlags
  BY <1>3 DEF StartFlags, ControlIInv, AnswerIInv, AnswersMatch
<1>4. CASE RefreshFlag
  <2>1. phase = "flags" /\ UNCHANGED <<phase, current, response, unsolicited,
                                     state, requests, answered, last>>
    BY <1>4 DEF RefreshFlag
  <2>2. iin' \in IIN
    <3> DEFINE flag == EventFlag(Head(todo))
               events == [iin.events EXCEPT ![Head(todo)] = flag]
    <3>1. flag \in BOOLEAN
      BY DEF EventFlag, HasEvents
    <3>2. iin' = [iin EXCEPT !.events = events]
      BY <1>4 DEF RefreshFlag
    <3>3. iin \in IIN
      BY DEF ControlIInv
    <3>4. events \in [Class -> BOOLEAN]
      <4>1. iin.events \in [Class -> BOOLEAN]
        BY <3>3 DEF IIN
      <4> HIDE DEF flag
      <4>2. QED
        BY <3>1, <4>1, Zenon
    <3> HIDE DEF events
    <3>5. QED
      BY <3>2, <3>3, <3>4 DEF IIN
  <2>3. QED
    BY <2>1, <2>2 DEF ControlIInv, AnswerIInv, AnswersMatch
<1>5. CASE StartResponse
  <2>1. /\ phase = "flags" /\ phase' = "serialize"
        /\ response' = [number |-> Len(requests), seq |-> current.request.seq, iin |-> iin,
                        logged |-> current.logged, items |-> <<>>]
        /\ UNCHANGED <<current, iin, unsolicited, state, requests, answered, last>>
    BY <1>5 DEF StartResponse
  <2>2. response'.iin = iin /\ response' = ResponseFor(response)'
    BY <2>1 DEF ResponseFor
  <2>3. QED
    BY <2>1, <2>2 DEF ControlIInv, AnswerIInv, AnswersMatch
<1>6. CASE FailEvent \/ FailPoint
  BY <1>6 DEF FailEvent, FailPoint, Abandon, Serializing, ControlIInv, AnswerIInv, AnswersMatch
<1>7. CASE WriteEvent \/ ReadPointFlags \/ ReadPointValue
  <2>1. /\ phase = "serialize"
        /\ \/ UNCHANGED response
           \/ \E item : response' = [response EXCEPT !.items = Append(@, item)]
        /\ UNCHANGED <<phase, current, iin, unsolicited, state, requests, answered, last>>
    BY <1>7 DEF WriteEvent, ReadPointFlags, ReadPointValue, Serializing
  <2>2. response.iin \in IIN /\ response = ResponseFor(response)
    BY <2>1 DEF AnswerIInv
  <2>3. response'.iin = response.iin /\ response' = ResponseFor(response)'
    BY <2>1, <2>2 DEF ResponseFor
  <2>4. QED
    BY <2>1, <2>2, <2>3 DEF ControlIInv, AnswerIInv, AnswersMatch
<1>8. CASE SendResponse
  <2>1. /\ phase = "serialize" /\ phase' = "idle" /\ last' = response
        /\ answered' = answered \cup {response.number}
        /\ UNCHANGED <<iin, unsolicited, state, requests>>
    BY <1>8 DEF SendResponse
  <2>2. /\ response.number = Len(requests) /\ Len(requests) \in 1 .. Len(requests)
        /\ response.seq = current.request.seq /\ response.iin \in IIN
        /\ current.request = requests[Len(requests)] /\ current.request.fc = "READ"
    BY <1>1, <2>1, EmptySeq DEF ControlIInv, AnswerIInv, ResponseFor
  <2>3. ControlIInv(R)'
    BY <2>1, <2>2 DEF ControlIInv
  <2>4. response.iin.unsupported = FALSE
    BY <2>2 DEF IIN
  <2>5. AnswersMatch'
    BY <2>1, <2>2, <2>4 DEF AnswersMatch, NeedsAnswer
  <2>6. QED
    BY <2>1, <2>2, <2>3, <2>5 DEF AnswerIInv
<1>9. QED
  BY <1>2, <1>3, <1>4, <1>5, <1>6, <1>7, <1>8 DEF ReadStep

LEMMA ControlStays ==
  ASSUME NEW R, ControlIInv(R), AnswerIInv, ClearRestart \/ UNCHANGED sessionVars
  PROVE  ControlIInv(R)' /\ AnswerIInv'
<1>1. UNCHANGED <<phase, current, response, unsolicited, state, requests, answered, last>>
  BY DEF ClearRestart, sessionVars, readVars
<1>2. iin' \in IIN
  BY DEF ClearRestart, sessionVars, ControlIInv, IIN
<1>3. ControlIInv(R)'
  BY <1>1, <1>2 DEF ControlIInv
<1>4. AnswersMatch'
  BY <1>1 DEF AnswerIInv, AnswersMatch
<1>5. QED
  BY <1>1, <1>3, <1>4 DEF AnswerIInv, ResponseFor

-----------------------------------------------------------------------------
(* What threads do while a request is handled *)

\* Points are added and never removed, objects replaced and events queued, as
\* long as nothing is confirmed.
LEMMA ThreadsGrow ==
  ASSUME DatabaseIInv, DatabaseNext, ~confirming
  PROVE  /\ \A p \in Point : store[p] # Absent => store'[p] # Absent
         /\ \/ UNCHANGED <<order, former>>
            \/ \E p \in Point : /\ store'[p] # Absent
                               /\ order' = Append(order, p) /\ UNCHANGED former
            \/ \E p \in Point : /\ store[p] # Absent
                               /\ former' = [former EXCEPT ![p] = Append(@, Objects(p))]
                               /\ UNCHANGED order
         /\ \/ UNCHANGED <<buffers, log, cleared>>
            \/ \E c \in Class, e \in Event : AppendEvent(c, e)
         /\ confirming' = confirming
<1>1. /\ CoreIInv /\ store \in [Point -> Reading \cup {Absent}] /\ Absent \notin Reading
  BY AbsentAssumption DEF DatabaseIInv, CoreIInv, DatabaseTypeOK
<1>0. UNCHANGED bufferVars => UNCHANGED <<buffers, log, cleared, confirming>>
  BY DEF bufferVars, confirmVars
<1>2. CASE \E p \in Point, v \in Value : AddPoint(p, v)
  <2>1. PICK p \in Point, v \in Value : AddPoint(p, v)
    BY <1>2
  <2>2. PICK r \in Reading : store' = [store EXCEPT ![p] = r]
    BY <1>1, <2>1, AddPointEffect
  <2>3. UNCHANGED bufferVars
    BY <1>1, <2>1, AddPointEffect
  <2>4. \/ order' = Append(order, p) /\ UNCHANGED former
        \/ /\ store[p] # Absent /\ UNCHANGED order
           /\ former' = [former EXCEPT ![p] = Append(@, Objects(p))]
    BY <2>1 DEF AddPoint
  <2>5. QED
    BY <1>0, <1>1, <2>2, <2>3, <2>4
<1>3. CASE \E t \in Thread : \/ \E p \in Point, r \in Reading : CallUpdate(t, p, r)
                             \/ \E c \in Counter : CallFreeze(t, c)
  <2>1. UNCHANGED <<bufferVars, store, order, former>>
    BY <1>1, <1>3, CallBegins
  <2>2. QED
    BY <1>0, <2>1
<1>4. CASE \E t \in Thread : ThreadStep(t)
  <2>1. PICK t \in Thread : ThreadStep(t)
    BY <1>4
  <2>2. CASE EnterUpdate(t) \/ EnterFreeze(t) \/ FreezeValue(t) \/ FreezeFlags(t)
    <3>1. UNCHANGED <<bufferVars, store, order, former>>
      BY <1>1, <2>2, EnterUpdateEffect, EnterFreezeEffect, FreezeValueEffect, FreezeFlagsEffect
    <3>2. QED
      BY <1>0, <3>1
  <2>3. CASE WriteValue(t)
    <3>1. [value |-> task[t].reading.value, flags |-> store[task[t].point].flags] \in Reading
      BY <1>1, <2>3, WriteValueEffect DEF Reading, UpdateTask
    <3>2. /\ \A p \in Point : store[p] # Absent => store'[p] # Absent
          /\ UNCHANGED <<bufferVars, order, former>>
      BY <1>1, <2>3, <3>1, WriteValueEffect
    <3>3. QED
      BY <1>0, <3>2
  <2>4. CASE WriteFlags(t)
    <3> DEFINE q0 == task[t].point
               new == [value |-> store[q0].value, flags |-> task[t].reading.flags]
    <3>1. new \in Reading /\ store' = [store EXCEPT ![q0] = new]
      BY <1>1, <2>4, WriteFlagsEffect
    <3> HIDE DEF q0, new
    <3>2. \A q \in Point : store[q] # Absent => store'[q] # Absent
      BY <1>1, <3>1
    <3>3. UNCHANGED <<bufferVars, order, former>>
      BY <1>1, <2>4, WriteFlagsEffect
    <3>4. QED
      BY <1>0, <3>2, <3>3
  <2>5. CASE Notify(t) \/ NotifyFull(t)
    <3>1. /\ UNCHANGED bufferVars \/ LookAtQueue \/ RaiseOverflow
          /\ UNCHANGED <<store, order, former>>
      BY <1>1, <2>5, NotifyEffect, NotifyFullEffect
    <3>2. UNCHANGED <<buffers, log, cleared, confirming>>
      BY <1>0, <3>1 DEF LookAtQueue, RaiseOverflow, confirmVars
    <3>3. QED
      BY <3>1, <3>2
  <2>6. CASE NotifyAppend(t)
    <3> DEFINE p == task[t].point
               e == [point |-> p, value |-> task[t].reading.value,
                     flags |-> task[t].reading.flags]
    <3>1. /\ EventClass[p] \in Class /\ e \in Event /\ AppendEvent(EventClass[p], e)
          /\ UNCHANGED <<store, order, former>>
      BY <1>1, <2>6, NotifyAppendEffect
    <3> HIDE DEF e
    <3>2. confirming' = confirming
      BY <3>1 DEF AppendEvent, confirmVars
    <3>3. QED
      BY <3>1, <3>2
  <2>7. QED
    BY <2>1, <2>2, <2>3, <2>4, <2>5, <2>6 DEF ThreadStep
<1>5. CASE ConfirmStep
  BY <1>5 DEF ConfirmStep, ClearQueue, LowerOverflow
<1>6. QED
  BY <1>2, <1>3, <1>4, <1>5 DEF DatabaseNext

-----------------------------------------------------------------------------
(* References *)

\* A reference stands for an object that is there.
LEMMA ReferencedType ==
  ASSUME DatabaseIInv, ReferencesIInv, NEW x \in Reference
  PROVE  Referenced(x) \in Reading
<1> DEFINE p == x.point
<1>1. /\ p \in Point /\ store[p] \in Reading
      /\ x.nth \in Nat \ {0} /\ x.nth <= Len(former[p]) + 1
      /\ x.kind \in {"point", "frozen"} /\ (x.kind = "frozen" => p \in Counter)
  BY DEF Reference, DatabaseIInv, CoreIInv, DatabaseTypeOK
<1>2. p \in Counter => frozen[p] \in Reading
  BY <1>1 DEF DatabaseIInv, CoreIInv, PointsThere, DatabaseTypeOK
<1>3. former[p] \in Seq([live : Reading, frozen : Reading \cup {Absent}])
  BY <1>1 DEF DatabaseIInv, CoreIInv, DatabaseTypeOK
<1>4. p \in Counter => former[p] \in Seq([live : Reading, frozen : Reading])
  BY DEF ReferencesIInv
<1> DEFINE objects == Append(former[p], Objects(p))[x.nth]
<1>5. CASE x.nth <= Len(former[p])
  <2>1. Len(former[p]) \in Nat /\ x.nth \in 1 .. Len(former[p])
    BY <1>1, <1>3, <1>5, LenProperties
  <2>2. objects = former[p][x.nth]
    BY <1>3, <2>1
  <2>3. former[p][x.nth].live \in Reading
    <3>1. former[p][x.nth] \in [live : Reading, frozen : Reading \cup {Absent}]
      BY <1>3, <2>1, ElementOfSeq
    <3>2. QED
      BY <3>1
  <2>4. p \in Counter => former[p][x.nth].frozen \in Reading
    <3>1. p \in Counter => former[p][x.nth] \in [live : Reading, frozen : Reading]
      BY <1>4, <2>1, ElementOfSeq
    <3>2. QED
      BY <3>1
  <2>5. QED
    BY <1>1, <2>2, <2>3, <2>4 DEF Referenced
<1>6. CASE x.nth = Len(former[p]) + 1
  <2>1. objects = Objects(p)
    BY <1>3, <1>6
  <2>2. Objects(p).live \in Reading /\ (p \in Counter => Objects(p).frozen \in Reading)
    BY <1>1, <1>2 DEF Objects
  <2>3. QED
    BY <1>1, <2>1, <2>2 DEF Referenced
<1>7. Len(former[p]) \in Nat
  BY <1>3, LenProperties
<1>8. QED
  BY <1>1, <1>5, <1>6, <1>7

\* Threads invalidate no reference.
LEMMA ReferencesGrow ==
  ASSUME DatabaseIInv, DatabaseNext, ~confirming, ReferencesIInv
  PROVE  /\ Reference \subseteq Reference'
         /\ order' \in Seq({p \in Point : store'[p] # Absent})
         /\ \A c \in Counter : former'[c] \in Seq([live : Reading, frozen : Reading])
<1>1. \A p \in Point : store[p] # Absent => store'[p] # Absent
  BY ThreadsGrow
<1> DEFINE Stored == {p \in Point : store[p] # Absent}
           Stored1 == {p \in Point : store'[p] # Absent}
<1>2. order \in Seq(Stored) /\ order \in Seq(Stored1)
  <2>1. order \in Seq(Stored) /\ Stored \subseteq Stored1
    BY <1>1 DEF ReferencesIInv
  <2> HIDE DEF Stored, Stored1
  <2>2. QED
    BY <2>1, SeqMonotonic
<1>3. \A p \in Point : former[p] \in Seq([live : Reading, frozen : Reading \cup {Absent}])
  BY DEF DatabaseIInv, CoreIInv, DatabaseTypeOK
<1>4. former \in [Point -> Seq([live : Reading, frozen : Reading \cup {Absent}])]
  BY DEF DatabaseIInv, CoreIInv, DatabaseTypeOK
<1>5. CASE UNCHANGED <<order, former>>
  BY <1>1, <1>2, <1>5 DEF Reference, ReferencesIInv
<1>6. CASE \E p \in Point : /\ store'[p] # Absent
                          /\ order' = Append(order, p) /\ UNCHANGED former
  <2>1. PICK p \in Stored1 : order' = Append(order, p) /\ UNCHANGED former
    BY <1>6
  <2>2. order' \in Seq(Stored1)
    BY <1>2, <2>1, AppendProperties
  <2>3. QED
    BY <1>1, <2>1, <2>2 DEF Reference, ReferencesIInv
<1>7. CASE \E p \in Point : /\ store[p] # Absent
                          /\ former' = [former EXCEPT ![p] = Append(@, Objects(p))]
                          /\ UNCHANGED order
  <2>1. PICK p \in Point : /\ store[p] # Absent
                          /\ former' = [former EXCEPT ![p] = Append(@, Objects(p))]
                          /\ UNCHANGED order
    BY <1>7
  <2>2. p \in Counter => Objects(p) \in [live : Reading, frozen : Reading]
    BY <2>1 DEF Objects, DatabaseIInv, CoreIInv, PointsThere, DatabaseTypeOK
  <2>3. p \in Counter => former'[p] \in Seq([live : Reading, frozen : Reading])
    <3>1. p \in Counter => former[p] \in Seq([live : Reading, frozen : Reading])
      BY DEF ReferencesIInv
    <3>2. former'[p] = Append(former[p], Objects(p))
      BY <1>4, <2>1
    <3>3. QED
      BY <2>2, <3>1, <3>2, AppendProperties
  <2>4. \A q \in Point \ {p} : former'[q] = former[q]
    BY <1>4, <2>1
  <2>5. \A c \in Counter : former'[c] \in Seq([live : Reading, frozen : Reading])
    BY <2>3, <2>4 DEF ReferencesIInv, Point
  <2>6. \A q \in Point : Len(former[q]) \in Nat /\ Len(former'[q]) \in Nat
                       /\ Len(former[q]) <= Len(former'[q])
    <3>1. Len(former[p]) \in Nat /\ Len(Append(former[p], Objects(p))) = Len(former[p]) + 1
      BY <1>3, LenProperties
    <3>2. former'[p] = Append(former[p], Objects(p))
      BY <1>4, <2>1
    <3>3. \A q \in Point : Len(former[q]) \in Nat
      BY <1>3, LenProperties
    <3>4. QED
      BY <2>4, <3>1, <3>2, <3>3
  <2>7. Reference \subseteq Reference'
    BY <1>1, <2>6 DEF Reference
  <2>8. QED
    BY <1>2, <2>1, <2>5, <2>7
<1>8. QED
  BY <1>5, <1>6, <1>7, ThreadsGrow

\* The events of a queue, by type.
LEMMA ByTypeEvents ==
  ASSUME NEW q \in Seq(Event)
  PROVE  ByType(q) \in Seq(Event)
<1>1. /\ Only(q, EventsOn(AnalogInput)) \in Seq(Event \cap EventsOn(AnalogInput))
      /\ Only(q, EventsOn(BinaryInput)) \in Seq(Event \cap EventsOn(BinaryInput))
  BY OnlyType
<1>2. /\ Only(q, EventsOn(AnalogInput)) \in Seq(Event)
      /\ Only(q, EventsOn(BinaryInput)) \in Seq(Event)
  BY <1>1, SeqMonotonic
<1>3. QED
  BY <1>2, ConcatProperties DEF ByType

LEMMA ItemsOfEvents ==
  ASSUME NEW c, NEW q \in Seq(Event)
  PROVE  /\ ItemsOf(c, q) \in Seq(ClassItem(c))
         /\ Len(ItemsOf(c, q)) = Len(q)
<1>1. Len(q) \in Nat /\ \A i \in 1 .. Len(q) : q[i] \in Event
  BY LenProperties, ElementOfSeq
<1>2. \A i \in 1 .. Len(q) : EventItem(c, q[i]) \in ClassItem(c)
  BY <1>1 DEF EventItem, ClassItem
<1>3. ItemsOf(c, q) \in [1 .. Len(q) -> ClassItem(c)]
  BY <1>2 DEF ItemsOf
<1>4. QED
  BY <1>1, <1>3, SeqDef

\* Events are gathered as they stand in the queue of their class.
LEMMA EventItemsType ==
  ASSUME DatabaseIInv, NEW c
  PROVE  /\ EventItems(c) \in Seq(ClassItem(c))
         /\ EventItems(c) \in Seq(QueuedEvent)
         /\ c \notin Class => EventItems(c) = <<>>
<1>1. ClassEvents(c) \in Seq(Event)
  BY EmptySeq DEF ClassEvents, DatabaseIInv, CoreIInv, BufferIInv, BufferTypeOK
<1>2. ByType(ClassEvents(c)) \in Seq(Event)
  BY <1>1, ByTypeEvents
<1>3. EventItems(c) \in Seq(ClassItem(c)) /\ Len(EventItems(c)) = Len(ByType(ClassEvents(c)))
  BY <1>2, ItemsOfEvents DEF EventItems
<1>4. CASE c \in Class
  <2>1. ClassItem(c) \subseteq QueuedEvent
    BY <1>4 DEF ClassItem, QueuedEvent
  <2>2. QED
    BY <1>3, <1>4, <2>1, SeqMonotonic
<1>5. CASE c \notin Class
  <2>1. ClassEvents(c) = <<>>
    BY <1>5 DEF ClassEvents
  <2>2. ByType(<<>>) = <<>> \o <<>>
    BY OnlyEmpty DEF ByType
  <2>3. <<>> \in Seq(Event) /\ Len(<<>>) = 0
    BY EmptySeq
  <2>4. <<>> \o <<>> = <<>>
    BY <2>3, ConcatEmptySeq
  <2>5. Len(EventItems(c)) = 0
    BY <1>3, <2>1, <2>2, <2>3, <2>4
  <2>6. EventItems(c) = <<>>
    BY <1>3, <2>5, EmptySeq
  <2>7. QED
    BY <1>3, <2>6, EmptySeq
<1>6. QED
  BY <1>4, <1>5

\* The points of a group that were added.
LEMMA GetRangeType ==
  ASSUME ReferencesIInv, NEW group, NEW range
  PROVE  GetRange(group, range)
           \in Seq({p \in Point : store[p] # Absent} \cap PointsOf(group))
<1> DEFINE There == {p \in Point : store[p] # Absent} \cap PointsOf(group)
           points == Only(order, PointsOf(group))
           numbers == [i \in 1 .. MaxIndex + 1 |-> i - 1]
           wanted == {Index[p] : p \in ToSet(points)} \cap range
           indexes == Only(numbers, wanted)
<1>1. points \in Seq(There)
  BY OnlyType DEF ReferencesIInv
<1>2. ToSet(points) \subseteq There
  <2> HIDE DEF points, There
  <2>1. \A i \in 1 .. Len(points) : points[i] \in There
    BY <1>1, ElementOfSeq
  <2>2. DOMAIN points = 1 .. Len(points)
    BY <1>1, LenProperties
  <2>3. QED
    BY <2>1, <2>2 DEF ToSet
<1>3. indexes \in Seq(Int \cap wanted) /\ Len(indexes) \in Nat
  <2>1. numbers \in Seq(Int)
    <3>1. MaxIndex + 1 \in Nat
      BY IndexAssumption
    <3>2. numbers \in [1 .. MaxIndex + 1 -> Int]
      BY <3>1
    <3>3. QED
      BY <3>1, <3>2, SeqDef
  <2> HIDE DEF numbers, wanted
  <2>2. QED
    BY <2>1, OnlyType, LenProperties
<1>4. \A i \in 1 .. Len(indexes) : \E p \in ToSet(points) : Index[p] = indexes[i]
  <2> HIDE DEF indexes, points
  <2>1. \A i \in 1 .. Len(indexes) : indexes[i] \in Int \cap wanted
    BY <1>3, ElementOfSeq
  <2>2. QED
    BY <2>1
<1> DEFINE chosen == [i \in 1 .. Len(indexes) |->
                        CHOOSE p \in ToSet(points) : Index[p] = indexes[i]]
<1>5. chosen \in Seq(There)
  <2> HIDE DEF There, points, indexes
  <2>1. \A i \in 1 .. Len(indexes) :
          (CHOOSE p \in ToSet(points) : Index[p] = indexes[i]) \in ToSet(points)
    BY <1>4
  <2>2. chosen \in [1 .. Len(indexes) -> There]
    BY <1>2, <2>1
  <2> HIDE DEF chosen
  <2>3. QED
    BY <1>3, <2>2, FunctionSeq
<1>6. GetRange(group, range) = IF range = All THEN points ELSE chosen
  BY DEF GetRange
<1> HIDE DEF There, points, chosen
<1>7. GetRange(group, range) \in Seq(There)
  BY <1>1, <1>5, <1>6
<1>8. QED
  BY <1>7 DEF There

LEMMA PointItemsType ==
  ASSUME DatabaseIInv, ReferencesIInv, NEW group, NEW range
  PROVE  PointItems(group, range) \in Seq(Reference)
<1> DEFINE ps == GetRange(group, range)
           item(p) == [kind |-> IF group = 21 THEN "frozen" ELSE "point", point |-> p,
                       nth |-> Len(former[p]) + 1]
<1>1. ps \in Seq({p \in Point : store[p] # Absent} \cap PointsOf(group))
  BY GetRangeType
<1>2. Len(ps) \in Nat /\ \A i \in 1 .. Len(ps) : /\ ps[i] \in Point /\ store[ps[i]] # Absent
                                              /\ ps[i] \in PointsOf(group)
  <2> HIDE DEF ps
  <2>1. QED
    BY <1>1, LenProperties, ElementOfSeq
<1>3. \A p \in Point : Len(former[p]) \in Nat
  BY LenProperties DEF DatabaseIInv, CoreIInv, DatabaseTypeOK
<1>4. group = 21 => PointsOf(group) = Counter
  BY DEF PointsOf
<1> HIDE DEF ps
<1>5. \A i \in 1 .. Len(ps) : item(ps[i]) \in Reference
  BY <1>2, <1>3, <1>4 DEF Reference
<1>6. PointItems(group, range) = [i \in 1 .. Len(ps) |-> item(ps[i])]
  BY DEF PointItems, ps
<1> HIDE DEF item
<1>7. PointItems(group, range) \in [1 .. Len(ps) -> Reference]
  BY <1>5, <1>6
<1>8. QED
  BY <1>2, <1>7, SeqDef

LEMMA Class0ObjectsType ==
  /\ Class0Objects \in Seq(ReadObject)
  /\ Class0Objects \in Seq({o \in ReadObject : o.group # 60})
<1> DEFINE Static == {o \in ReadObject : o.group # 60}
<1>1. \A i \in 1 .. 6 :
        [group |-> <<1, 10, 30, 40, 20, 21>>[i], var |-> 0, range |-> All] \in Static
  <2>1. All \in SUBSET Int
    BY DEF All
  <2>2. \A i \in 1 .. 6 : /\ <<1, 10, 30, 40, 20, 21>>[i] \in Nat
                         /\ <<1, 10, 30, 40, 20, 21>>[i] # 60
    OBVIOUS
  <2>3. QED
    BY <2>1, <2>2 DEF ReadObject
<1>2. Class0Objects \in [1 .. 6 -> Static]
  BY <1>1 DEF Class0Objects
<1> HIDE DEF Static
<1>3. Class0Objects \in Seq(Static)
  BY <1>2, FunctionSeq
<1>4. Static \subseteq ReadObject
  BY DEF Static
<1>5. Class0Objects \in Seq(ReadObject)
  BY <1>3, <1>4, SeqMonotonic
<1>6. QED
  BY <1>3, <1>5 DEF Static

LEMMA ClassOrderType == ClassOrder \in Seq(Class)
<1>1. <<1, 2, 3>> \in Seq(1 .. 3)
  OBVIOUS
<1>2. ClassOrder \in Seq((1 .. 3) \cap Class)
  BY <1>1, OnlyType DEF ClassOrder
<1>3. (1 .. 3) \cap Class \subseteq Class
  OBVIOUS
<1>4. QED
  BY <1>2, <1>3, SeqMonotonic

LEMMA ReferencesDatabase ==
  ASSUME DatabaseIInv, ReferencesIInv, DatabaseNext, ~confirming, UNCHANGED sessionVars
  PROVE  ReferencesIInv'
<1>1. /\ Reference \subseteq Reference'
      /\ order' \in Seq({p \in Point : store'[p] # Absent})
      /\ \A c \in Counter : former'[c] \in Seq([live : Reading, frozen : Reading])
  BY ReferencesGrow
<1>2. UNCHANGED <<phase, todo, gathered, readFlags, response, requests, last>>
  BY DEF sessionVars, readVars
<1>3. gathered' \in Seq(QueuedEvent \cup Reference')
  <2>1. gathered \in Seq(QueuedEvent \cup Reference)
    BY DEF ReferencesIInv
  <2>2. QueuedEvent \cup Reference \subseteq QueuedEvent \cup Reference'
    BY <1>1
  <2>3. gathered \in Seq(QueuedEvent \cup Reference')
    BY <2>1, <2>2, SeqMonotonic
  <2>4. QED
    BY <1>2, <2>3
<1>4. LastIsRead' <=> LastIsRead
  BY <1>2 DEF LastIsRead
<1>5. (QueuedEvent \cup Reference)' = QueuedEvent \cup Reference'
  BY DEF QueuedEvent
<1>6. QED
  BY <1>1, <1>2, <1>3, <1>4, <1>5 DEF ReferencesIInv

\* The database stands still.
LEMMA DatabaseFixed ==
  ASSUME UNCHANGED databaseAll
  PROVE  /\ UNCHANGED <<store, frozen, order, former, buffers, log, cleared, confirming>>
         /\ Reference' = Reference
<1>1. UNCHANGED <<store, frozen, order, former, buffers, log, cleared, confirming>>
  BY DEF databaseAll, databaseVars, addVars, bufferVars, confirmVars
<1>2. QED
  BY <1>1 DEF Reference

\* What the session does to its own variables keeps references good if it
\* gathers good ones.
LEMMA ReferencesStand ==
  ASSUME ReferencesIInv, UNCHANGED databaseAll,
         readFlags' \in Flag \cup {Nothing},
         gathered' \in Seq(QueuedEvent \cup Reference),
         phase' = "gather" => todo' \in Seq(ReadObject),
         phase' = "flags" => todo' \in Seq(Class),
         phase' = "serialize" => response'.items \in Seq(QueuedEvent \cup ReadPoint),
         LastIsRead' => last'.items \in Seq(QueuedEvent \cup ReadPoint)
  PROVE  ReferencesIInv'
<1>1. UNCHANGED <<store, order, former>> /\ Reference' = Reference
  BY DatabaseFixed
<1>2. QED
  BY <1>1 DEF ReferencesIInv, QueuedEvent, ReadPoint

\* Requests that come later do not change what the last response answers.
LEMMA LastReadStays ==
  ASSUME NEW R, ControlIInv(R), AnswerIInv,
         NEW r \in R, requests' = Append(requests, r), UNCHANGED last
  PROVE  /\ LastIsRead' <=> LastIsRead
         /\ LastIsRead => requests'[last.number] = requests[last.number]
<1>1. CASE last = Nothing
  BY <1>1 DEF LastIsRead
<1>2. CASE last # Nothing
  <2>1. last.number \in 1 .. Len(requests)
    BY <1>2 DEF AnswerIInv
  <2>2. requests'[last.number] = requests[last.number]
    BY <2>1, RequestComes DEF ControlIInv
  <2>3. QED
    BY <2>2 DEF LastIsRead
<1>3. QED
  BY <1>1, <1>2

\* The answer to another request than READ is not one to a READ.
LEMMA LastIsOther ==
  ASSUME NEW R, ControlIInv(R), NEW r \in R, requests' = Append(requests, r),
         r.fc # "READ", last'.number = Len(requests) + 1
  PROVE  ~LastIsRead'
<1>1. requests'[Len(requests')] = r /\ Len(requests') = Len(requests) + 1
  BY RequestComes DEF ControlIInv
<1>2. QED
  BY <1>1 DEF LastIsRead

LEMMA ReferencesAtOnce ==
  ASSUME NEW R, ControlIInv(R), AnswerIInv, ReferencesIInv, NEW r \in R, HandleAtOnce(r)
  PROVE  ReferencesIInv'
<1>1. /\ phase' = "idle" /\ UNCHANGED <<databaseAll, readVars>>
      /\ requests' = Append(requests, r) /\ r.fc # "READ"
  BY AtOnceEffect
<1>2. UNCHANGED <<gathered, readFlags>>
  BY <1>1 DEF readVars
<1>3. LastIsRead' => last'.items \in Seq(QueuedEvent \cup ReadPoint)
  <2>1. CASE UNCHANGED <<last, answered>>
    BY <1>1, <2>1, LastReadStays DEF ReferencesIInv
  <2>2. CASE last'.number = Len(requests) + 1
    BY <1>1, <2>2, LastIsOther
  <2>3. QED
    BY <2>1, <2>2, AtOnceEffect
<1>4. QED
  BY <1>1, <1>2, <1>3, ReferencesStand DEF ReferencesIInv

\* The objects of a READ are group, variation and range.
Readable(R) == \A r \in R : r.fc = "READ" => r.objs \in Seq(ReadObject)

LEMMA ReferencesArrival ==
  ASSUME NEW R, Readable(R), ControlIInv(R), AnswerIInv, ReferencesIInv,
         NEW r \in R, StartRead(r) \/ FailParse(r)
  PROVE  ReferencesIInv'
<1>1. /\ requests' = Append(requests, r) /\ phase = "idle"
      /\ UNCHANGED <<databaseAll, last, readFlags>>
  BY DEF StartRead, FailParse, Arrives, readVars
<1>2. LastIsRead' => last'.items \in Seq(QueuedEvent \cup ReadPoint)
  BY <1>1, LastReadStays DEF ReferencesIInv
<1>3. CASE StartRead(r)
  <2>1. /\ phase' = "gather" /\ todo' = r.objs /\ gathered' = <<>> /\ r.fc = "READ"
    BY <1>3 DEF StartRead
  <2>2. <<>> \in Seq(QueuedEvent \cup Reference)
    BY EmptySeq
  <2>3. QED
    BY <1>1, <1>2, <2>1, <2>2, ReferencesStand DEF ReferencesIInv, Readable
<1>4. CASE FailParse(r)
  <2>1. phase' = "idle" /\ UNCHANGED gathered
    BY <1>1, <1>4 DEF FailParse, readVars
  <2>2. QED
    BY <1>1, <1>2, <2>1, ReferencesStand DEF ReferencesIInv
<1>5. QED
  BY <1>3, <1>4

LEMMA ReferencesStays ==
  ASSUME ReferencesIInv, ClearRestart \/ UNCHANGED <<databaseAll, sessionVars>>
  PROVE  ReferencesIInv'
<1>1. UNCHANGED <<databaseAll, phase, todo, gathered, readFlags, response, requests, last>>
  BY DEF ClearRestart, sessionVars, readVars
<1>2. LastIsRead' <=> LastIsRead
  BY <1>1 DEF LastIsRead
<1>3. QED
  BY <1>1, <1>2, ReferencesStand DEF ReferencesIInv

\* What the steps of a READ leave to the type of what they gather.
LEMMA GatheringKeeps ==
  ASSUME Gathering, ReferencesIInv
  PROVE  /\ phase' = "gather" /\ todo \in Seq(ReadObject)
         /\ Head(todo) \in ReadObject /\ Tail(todo) \in Seq(ReadObject)
         /\ gathered \in Seq(QueuedEvent \cup Reference)
         /\ UNCHANGED <<databaseAll, readFlags, response, requests, last>>
         /\ LastIsRead' <=> LastIsRead
<1>1. /\ phase = "gather" /\ todo # <<>>
      /\ UNCHANGED <<databaseAll, phase, readFlags, response, requests, last>>
  BY DEF Gathering
<1>2. todo \in Seq(ReadObject) /\ gathered \in Seq(QueuedEvent \cup Reference)
  BY <1>1 DEF ReferencesIInv
<1>3. LastIsRead' <=> LastIsRead
  BY <1>1 DEF LastIsRead
<1>4. QED
  BY <1>1, <1>2, <1>3, HeadTailProperties

LEMMA ReferencesGather ==
  ASSUME DatabaseIInv, ReferencesIInv,
         ExpandClass0 \/ GatherEvents \/ GatherPoints \/ SkipObject
  PROVE  ReferencesIInv'
<1> DEFINE Item == QueuedEvent \cup Reference
<1>1. Gathering
  BY DEF ExpandClass0, GatherEvents, GatherPoints, SkipObject
<1>2. /\ todo' \in Seq(ReadObject)
      /\ gathered' \in Seq(Item)
  <2>1. /\ Tail(todo) \in Seq(ReadObject) /\ gathered \in Seq(Item)
    BY <1>1, GatheringKeeps
  <2>2. QueuedEvent \subseteq Item /\ Reference \subseteq Item
    OBVIOUS
  <2> HIDE DEF Item
  <2>3. CASE ExpandClass0
    <3>1. todo' = Class0Objects \o Tail(todo) /\ UNCHANGED gathered
      BY <2>3 DEF ExpandClass0
    <3>2. QED
      BY <2>1, <3>1, Class0ObjectsType, ConcatProperties
  <2>4. CASE GatherEvents
    <3> DEFINE es == EventItems(Head(todo).var - 1)
    <3>1. todo' = Tail(todo) /\ gathered' = gathered \o es
      BY <2>4 DEF GatherEvents
    <3>2. es \in Seq(QueuedEvent)
      BY EventItemsType
    <3> HIDE DEF es
    <3>3. es \in Seq(Item)
      BY <2>2, <3>2, SeqMonotonic
    <3>4. QED
      BY <2>1, <3>1, <3>3, ConcatProperties
  <2>5. CASE GatherPoints
    <3> DEFINE ps == PointItems(Head(todo).group, Head(todo).range)
    <3>1. todo' = Tail(todo) /\ gathered' = gathered \o ps
      BY <2>5 DEF GatherPoints
    <3>2. ps \in Seq(Reference)
      BY PointItemsType
    <3> HIDE DEF ps
    <3>3. ps \in Seq(Item)
      BY <2>2, <3>2, SeqMonotonic
    <3>4. QED
      BY <2>1, <3>1, <3>3, ConcatProperties
  <2>6. CASE SkipObject
    BY <2>1, <2>6 DEF SkipObject
  <2>7. QED
    BY <2>3, <2>4, <2>5, <2>6
<1>3. /\ phase' = "gather" /\ UNCHANGED <<databaseAll, readFlags, last>>
      /\ LastIsRead' <=> LastIsRead
  BY <1>1, GatheringKeeps
<1>4. QED
  BY <1>2, <1>3, ReferencesStand DEF ReferencesIInv

\* What writing an object leaves, and what is left to write.
LEMMA SerializingKeeps ==
  ASSUME NEW R, ControlIInv(R), AnswerIInv, ReferencesIInv, NEW kinds, Serializing(kinds)
  PROVE  /\ phase = "serialize" /\ Head(gathered).kind \in kinds
         /\ gathered # <<>> /\ gathered \in Seq(QueuedEvent \cup Reference)
         /\ Head(gathered) \in QueuedEvent \cup Reference
         /\ Tail(gathered) \in Seq(QueuedEvent \cup Reference)
         /\ response = ResponseFor(response)
         /\ response.items \in Seq(QueuedEvent \cup ReadPoint)
         /\ UNCHANGED <<databaseAll, current, todo, iin, requests, last>>
         /\ LastIsRead' <=> LastIsRead
<1>1. /\ phase = "serialize" /\ gathered # <<>> /\ Head(gathered).kind \in kinds
      /\ UNCHANGED <<databaseAll, current, todo, iin, requests, last>>
  BY DEF Serializing
<1>2. /\ gathered \in Seq(QueuedEvent \cup Reference)
      /\ response.items \in Seq(QueuedEvent \cup ReadPoint)
      /\ response = ResponseFor(response)
  BY <1>1 DEF ReferencesIInv, AnswerIInv
<1>3. LastIsRead' <=> LastIsRead
  BY <1>1 DEF LastIsRead
<1>4. Head(gathered) \in QueuedEvent \cup Reference
      /\ Tail(gathered) \in Seq(QueuedEvent \cup Reference)
  BY <1>1, <1>2, HeadTailProperties
<1>5. QED
  BY <1>1, <1>2, <1>3, <1>4

\* A point of a response is a reading.
LEMMA ReadPointEffect ==
  ASSUME NEW R, DatabaseIInv, ControlIInv(R), AnswerIInv, ReferencesIInv,
         ReadPointFlags \/ ReadPointValue
  PROVE  /\ Head(gathered) \in Reference
         /\ readFlags' \in Flag \cup {Nothing}
         /\ \/ UNCHANGED <<gathered, response>>
            \/ /\ gathered' = Tail(gathered)
               /\ \E x \in ReadPoint :
                    response' = [response EXCEPT !.items = Append(@, x)]
         /\ Serializing({"point", "frozen"})
         /\ UNCHANGED phase
<1> DEFINE item == Head(gathered)
<1>1. Serializing({"point", "frozen"})
  BY DEF ReadPointFlags, ReadPointValue
<1>2. item \in QueuedEvent \cup Reference /\ item.kind \in {"point", "frozen"}
  BY <1>1, SerializingKeeps
<1>3. item \in Reference
  BY <1>2 DEF QueuedEvent
<1>4. Referenced(item) \in Reading
  BY <1>3, ReferencedType
<1>5. CASE ReadPointFlags
  <2>1. readFlags' = Referenced(item).flags /\ UNCHANGED <<phase, gathered, response>>
    BY <1>5 DEF ReadPointFlags
  <2>2. QED
    BY <1>1, <1>3, <1>4, <2>1 DEF Reading
<1>6. CASE ReadPointValue
  <2> DEFINE reading == [value |-> Referenced(item).value, flags |-> readFlags]
             x == [kind |-> item.kind, point |-> item.point, reading |-> reading]
  <2>1. /\ readFlags # Nothing /\ readFlags' = Nothing
        /\ response' = [response EXCEPT !.items = Append(@, x)]
        /\ gathered' = Tail(gathered) /\ UNCHANGED phase
    BY <1>6 DEF ReadPointValue
  <2>2. reading \in Reading
    BY <1>4, <2>1 DEF Reading, ReferencesIInv
  <2>3. item.kind \in {"point", "frozen"} /\ item.point \in Point
    BY <1>3 DEF Reference
  <2> HIDE DEF reading
  <2>4. x \in ReadPoint
    BY <2>2, <2>3 DEF ReadPoint
  <2> HIDE DEF x
  <2>5. QED
    BY <1>1, <1>3, <2>1, <2>4
<1>7. QED
  BY <1>5, <1>6

LEMMA ReferencesReadStep ==
  ASSUME NEW R, DatabaseIInv, ControlIInv(R), AnswerIInv, ReferencesIInv, ReadStep
  PROVE  ReferencesIInv'
<1>1. CASE ExpandClass0 \/ GatherEvents \/ GatherPoints \/ SkipObject
  BY <1>1, ReferencesGather
<1>2. CASE StartFlags
  <2>1. /\ phase' = "flags" /\ todo' = ClassOrder
        /\ UNCHANGED <<databaseAll, gathered, readFlags, requests, last>>
    BY <1>2 DEF StartFlags
  <2>2. LastIsRead' <=> LastIsRead
    BY <2>1 DEF LastIsRead
  <2>3. QED
    BY <2>1, <2>2, ClassOrderType, ReferencesStand DEF ReferencesIInv
<1>3. CASE RefreshFlag
  <2>1. /\ phase = "flags" /\ phase' = "flags" /\ todo # <<>> /\ todo' = Tail(todo)
        /\ UNCHANGED <<databaseAll, gathered, readFlags, requests, last>>
    BY <1>3 DEF RefreshFlag
  <2>2. LastIsRead' <=> LastIsRead
    BY <2>1 DEF LastIsRead
  <2>3. Tail(todo) \in Seq(Class)
    BY <2>1, HeadTailProperties DEF ReferencesIInv
  <2>4. QED
    BY <2>1, <2>2, <2>3, ReferencesStand DEF ReferencesIInv
<1>4. CASE StartResponse
  <2>1. /\ phase' = "serialize" /\ response'.items = <<>>
        /\ UNCHANGED <<databaseAll, gathered, readFlags, requests, last>>
    BY <1>4 DEF StartResponse
  <2>2. LastIsRead' <=> LastIsRead
    BY <2>1 DEF LastIsRead
  <2>3. QED
    BY <2>1, <2>2, EmptySeq, ReferencesStand DEF ReferencesIInv
<1>5. CASE WriteEvent
  <2>1. /\ Serializing({"event"}) /\ gathered' = Tail(gathered)
        /\ response' = [response EXCEPT !.items = Append(@, Head(gathered))]
        /\ UNCHANGED <<phase, readFlags>>
    BY <1>5 DEF WriteEvent
  <2>2. Head(gathered) \in QueuedEvent
    <3>1. /\ Head(gathered) \in QueuedEvent \cup Reference
          /\ Head(gathered).kind = "event"
      BY <2>1, SerializingKeeps
    <3>2. QED
      BY <3>1 DEF Reference
  <2>3. response'.items = Append(response.items, Head(gathered))
    BY <2>1, SerializingKeeps DEF ResponseFor
  <2>4. response'.items \in Seq(QueuedEvent \cup ReadPoint)
    BY <2>1, <2>2, <2>3, SerializingKeeps, AppendProperties
  <2>5. UNCHANGED <<databaseAll, last>> /\ (LastIsRead' <=> LastIsRead)
        /\ gathered' \in Seq(QueuedEvent \cup Reference) /\ phase' = "serialize"
    BY <2>1, SerializingKeeps
  <2>6. QED
    BY <2>1, <2>4, <2>5, ReferencesStand DEF ReferencesIInv
<1>6. CASE FailEvent \/ FailPoint
  <2>1. /\ \E kinds : Serializing(kinds)
        /\ phase' = "idle" /\ readFlags' = Nothing /\ UNCHANGED gathered
    BY <1>6 DEF FailEvent, FailPoint, Abandon
  <2>2. UNCHANGED <<databaseAll, last>> /\ (LastIsRead' <=> LastIsRead)
    BY <2>1, SerializingKeeps
  <2>3. QED
    BY <2>1, <2>2, ReferencesStand DEF ReferencesIInv
<1>7. CASE ReadPointFlags \/ ReadPointValue
  <2>1. /\ Serializing({"point", "frozen"}) /\ UNCHANGED phase
        /\ readFlags' \in Flag \cup {Nothing}
    BY <1>7, ReadPointEffect
  <2>2. /\ UNCHANGED <<databaseAll, last>> /\ (LastIsRead' <=> LastIsRead)
        /\ phase' = "serialize"
    BY <2>1, SerializingKeeps
  <2>3. /\ gathered' \in Seq(QueuedEvent \cup Reference)
        /\ response'.items \in Seq(QueuedEvent \cup ReadPoint)
    <3>1. CASE UNCHANGED <<gathered, response>>
      BY <2>1, <3>1, SerializingKeeps
    <3>2. CASE /\ gathered' = Tail(gathered)
               /\ \E x \in ReadPoint : response' = [response EXCEPT !.items = Append(@, x)]
      <4>1. PICK x \in ReadPoint : response' = [response EXCEPT !.items = Append(@, x)]
        BY <3>2
      <4>2. response'.items = Append(response.items, x)
        BY <2>1, <4>1, SerializingKeeps DEF ResponseFor
      <4>3. QED
        BY <2>1, <3>2, <4>2, SerializingKeeps, AppendProperties
    <3>3. QED
      BY <1>7, <3>1, <3>2, ReadPointEffect
  <2>4. QED
    BY <2>1, <2>2, <2>3, ReferencesStand DEF ReferencesIInv
<1>8. CASE SendResponse
  <2>1. /\ phase = "serialize" /\ phase' = "idle" /\ last' = response
        /\ UNCHANGED <<databaseAll, gathered, readFlags>>
    BY <1>8 DEF SendResponse
  <2>2. QED
    BY <2>1, ReferencesStand DEF ReferencesIInv
<1>9. QED
  BY <1>1, <1>2, <1>3, <1>4, <1>5, <1>6, <1>7, <1>8 DEF ReadStep

-----------------------------------------------------------------------------
(* Events gathered and reported *)

\* No other item is an event of class c, and no other event.
LEMMA EventItemsIn ==
  ASSUME DatabaseIInv, NEW c \in Class, NEW d
  PROVE  EventsIn(EventItems(d), c) = IF d = c THEN EventItems(c) ELSE <<>>
<1>1. EventItems(d) \in Seq(ClassItem(d))
  BY EventItemsType
<1>2. d # c => ClassItem(d) \cap ClassItem(c) = {}
  BY DEF ClassItem
<1>3. CASE d = c
  BY <1>1, <1>3, OnlyAll DEF EventsIn
<1>4. CASE d # c
  BY <1>1, <1>2, <1>4, OnlyNone DEF EventsIn
<1>5. QED
  BY <1>3, <1>4

LEMMA PointItemsIn ==
  ASSUME NEW c, NEW ps \in Seq(Reference)
  PROVE  EventsIn(ps, c) = <<>>
<1>1. Reference \cap ClassItem(c) = {}
  BY DEF Reference, ClassItem
<1>2. QED
  BY <1>1, OnlyNone DEF EventsIn

LEMMA EventsInConcat ==
  ASSUME NEW c, NEW items \in Seq(QueuedEvent \cup Reference),
         NEW more \in Seq(QueuedEvent \cup Reference)
  PROVE  EventsIn(items \o more, c) = EventsIn(items, c) \o EventsIn(more, c)
  BY OnlyConcat DEF EventsIn

LEMMA EventsInType ==
  ASSUME NEW c, NEW A, NEW items \in Seq(A)
  PROVE  EventsIn(items, c) \in Seq(ClassItem(c))
<1>1. EventsIn(items, c) \in Seq(A \cap ClassItem(c))
  BY OnlyType DEF EventsIn
<1>2. QED
  BY <1>1, SeqMonotonic

\* Nothing is gathered from an empty queue.
LEMMA NothingQueued ==
  ASSUME DatabaseIInv, NEW c \in Class, buffers[c] = <<>>
  PROVE  EventItems(c) = <<>>
<1>1. ClassEvents(c) = <<>> /\ <<>> \in Seq(Event)
  BY EmptySeq DEF ClassEvents
<1>2. ByType(<<>>) = <<>>
  <2>1. ByType(<<>>) = <<>> \o <<>>
    BY OnlyEmpty DEF ByType
  <2>2. QED
    BY <1>1, <2>1, ConcatEmptySeq
<1>3. ItemsOf(c, <<>>) = <<>>
  BY <1>1, ItemsOfEvents, EmptySeq
<1>4. QED
  BY <1>1, <1>2, <1>3 DEF EventItems

\* A step that gathers takes the first object: with a poll of class c it takes
\* the queue of that class, with anything else no event of it.
LEMMA GatherEffect ==
  ASSUME DatabaseIInv, ReferencesIInv,
         ExpandClass0 \/ GatherEvents \/ GatherPoints \/ SkipObject,
         NEW c \in Class
  PROVE  /\ phase = "gather" /\ phase' = "gather"
         /\ UNCHANGED <<databaseAll, current, response, iin, requests, last>>
         /\ \/ /\ EventsIn(gathered', c) = EventsIn(gathered, c) \o EventItems(c)
               /\ Only(todo, PollOf(c)) = <<Head(todo)>> \o Only(todo', PollOf(c))
            \/ /\ EventsIn(gathered', c) = EventsIn(gathered, c)
               /\ Only(todo', PollOf(c)) = Only(todo, PollOf(c))
<1>1. Gathering
  BY DEF ExpandClass0, GatherEvents, GatherPoints, SkipObject
<1>2. /\ phase = "gather" /\ phase' = "gather" /\ todo # <<>>
      /\ UNCHANGED <<databaseAll, current, response, iin, requests, last>>
  BY <1>1 DEF Gathering
<1> DEFINE o == Head(todo)
           rest == Only(Tail(todo), PollOf(c))
<1>3. /\ o \in ReadObject /\ Tail(todo) \in Seq(ReadObject) /\ todo \in Seq(ReadObject)
      /\ gathered \in Seq(QueuedEvent \cup Reference)
  BY <1>1, GatheringKeeps
<1>4. /\ o \in PollOf(c) => Only(todo, PollOf(c)) = <<o>> \o rest
      /\ o \notin PollOf(c) => Only(todo, PollOf(c)) = rest
  BY <1>2, <1>3, OnlyHead
<1>5. c \in 1 .. 3
  BY ClassAssumption
<1>6. o \in PollOf(c) <=> o.group = 60 /\ o.var = c + 1
  BY <1>3 DEF PollOf, ReadObject
<1> HIDE DEF o
<1>7. CASE ExpandClass0
  <2>1. /\ o.var = 1 /\ todo' = Class0Objects \o Tail(todo) /\ UNCHANGED gathered
    BY <1>7 DEF ExpandClass0, o
  <2>2. o \notin PollOf(c)
    BY <1>5, <1>6, <2>1
  <2>3. Only(todo', PollOf(c)) = Only(Class0Objects, PollOf(c)) \o rest
    <3> DEFINE tail == Tail(todo)
    <3>1. tail \in Seq(ReadObject) /\ Class0Objects \in Seq(ReadObject)
      BY <1>3, Class0ObjectsType
    <3> HIDE DEF tail
    <3>2. Only(Class0Objects \o tail, PollOf(c))
            = Only(Class0Objects, PollOf(c)) \o Only(tail, PollOf(c))
      BY <3>1, OnlyConcat
    <3>3. QED
      BY <2>1, <3>2 DEF tail
  <2>4. {x \in ReadObject : x.group # 60} \cap PollOf(c) = {}
    BY DEF PollOf
  <2>5. Only(Class0Objects, PollOf(c)) = <<>>
    BY <2>4, Class0ObjectsType, OnlyNone
  <2>6. rest \in Seq(ReadObject \cap PollOf(c))
    BY <1>3, OnlyType
  <2> HIDE DEF rest
  <2>7. <<>> \o rest = rest
    BY <2>6, ConcatEmptySeq
  <2>8. QED
    BY <1>2, <1>4, <2>1, <2>2, <2>3, <2>5, <2>7
<1>8. CASE GatherEvents
  <2>1. /\ o.group = 60 /\ todo' = Tail(todo) /\ o.var \in {2, 3, 4}
        /\ gathered' = gathered \o EventItems(o.var - 1)
    BY <1>8 DEF GatherEvents, o
  <2>2. EventItems(o.var - 1) \in Seq(QueuedEvent \cup Reference)
    <3>1. EventItems(o.var - 1) \in Seq(QueuedEvent)
      BY EventItemsType
    <3>2. QED
      BY <3>1, SeqMonotonic
  <2>3. EventsIn(gathered', c)
          = EventsIn(gathered, c) \o EventsIn(EventItems(o.var - 1), c)
    BY <1>3, <2>1, <2>2, EventsInConcat
  <2>4. CASE o.var - 1 = c
    <3>1. o \in PollOf(c)
      BY <1>5, <1>6, <2>1, <2>4
    <3>2. EventsIn(EventItems(o.var - 1), c) = EventItems(c)
      BY <2>4, EventItemsIn
    <3>3. QED
      BY <1>2, <1>4, <2>1, <2>3, <3>1, <3>2 DEF o
  <2>5. CASE o.var - 1 # c
    <3>1. o \notin PollOf(c)
      BY <1>5, <1>6, <2>1, <2>5
    <3>2. EventsIn(EventItems(o.var - 1), c) = <<>>
      BY <2>5, EventItemsIn
    <3>3. EventsIn(gathered, c) \o <<>> = EventsIn(gathered, c)
      BY <1>3, EventsInType, ConcatEmptySeq
    <3>4. QED
      BY <1>2, <1>4, <2>1, <2>3, <3>1, <3>2, <3>3
  <2>6. QED
    BY <2>4, <2>5
<1>9. CASE GatherPoints
  <2> DEFINE ps == PointItems(o.group, o.range)
  <2>1. /\ o.group # 60 /\ todo' = Tail(todo) /\ gathered' = gathered \o ps
    BY <1>9 DEF GatherPoints, o
  <2>2. ps \in Seq(Reference)
    BY PointItemsType
  <2> HIDE DEF ps
  <2>3. ps \in Seq(QueuedEvent \cup Reference)
    BY <2>2, SeqMonotonic
  <2>4. EventsIn(gathered', c) = EventsIn(gathered, c) \o <<>>
    <3>1. EventsIn(gathered \o ps, c) = EventsIn(gathered, c) \o EventsIn(ps, c)
      BY <1>3, <2>3, EventsInConcat
    <3>2. EventsIn(ps, c) = <<>>
      BY <2>2, PointItemsIn
    <3>3. QED
      BY <2>1, <3>1, <3>2
  <2>5. EventsIn(gathered, c) \o <<>> = EventsIn(gathered, c)
    BY <1>3, EventsInType, ConcatEmptySeq
  <2>6. QED
    BY <1>2, <1>4, <1>6, <2>1, <2>4, <2>5
<1>10. CASE SkipObject
  <2>1. /\ o.group # 60 \/ o.var \notin 1 .. 4
        /\ todo' = Tail(todo) /\ UNCHANGED gathered
    BY <1>10 DEF SkipObject, o
  <2>2. o \notin PollOf(c)
    BY <1>5, <1>6, <2>1
  <2>3. QED
    BY <1>2, <1>4, <2>1, <2>2
<1>11. QED
  BY <1>7, <1>8, <1>9, <1>10

\* Writing an object moves it from what is gathered to the response: what both
\* hold of the events of a class stays the same.
LEMMA WriteEffect ==
  ASSUME NEW R, DatabaseIInv, ControlIInv(R), AnswerIInv, ReferencesIInv,
         WriteEvent \/ ReadPointFlags \/ ReadPointValue, NEW c \in Class
  PROVE  /\ phase = "serialize" /\ phase' = "serialize"
         /\ response'.iin = response.iin
         /\ UNCHANGED <<databaseAll, current, iin, requests, last>>
         /\ EventsIn(response'.items, c) \o EventsIn(gathered', c)
              = EventsIn(response.items, c) \o EventsIn(gathered, c)
<1> DEFINE x == Head(gathered)
           a == EventsIn(response.items, c)
           b == EventsIn(Tail(gathered), c)
<1>1. /\ Serializing({"event"}) \/ Serializing({"point", "frozen"})
      /\ UNCHANGED phase
  BY DEF WriteEvent, ReadPointFlags, ReadPointValue
<1>2. /\ phase = "serialize" /\ gathered # <<>>
      /\ gathered \in Seq(QueuedEvent \cup Reference)
      /\ x \in QueuedEvent \cup Reference
      /\ response = ResponseFor(response)
      /\ response.items \in Seq(QueuedEvent \cup ReadPoint)
      /\ UNCHANGED <<databaseAll, current, iin, requests, last>>
  BY <1>1, SerializingKeeps
<1>3. /\ x \in ClassItem(c) => EventsIn(gathered, c) = <<x>> \o b
      /\ x \notin ClassItem(c) => EventsIn(gathered, c) = b
      /\ Tail(gathered) \in Seq(QueuedEvent \cup Reference)
  BY <1>2, OnlyHead DEF EventsIn
<1>4. a \in Seq(ClassItem(c)) /\ b \in Seq(ClassItem(c))
  BY <1>2, <1>3, EventsInType
<1>5. CASE WriteEvent
  <2>1. /\ gathered' = Tail(gathered) /\ Serializing({"event"})
        /\ response' = [response EXCEPT !.items = Append(@, x)]
    BY <1>5 DEF WriteEvent
  <2>2. response'.items = Append(response.items, x) /\ response'.iin = response.iin
    BY <1>2, <2>1 DEF ResponseFor
  <2>3. x \in QueuedEvent
    <3>1. x.kind = "event"
      BY <2>1, SerializingKeeps
    <3>2. QED
      BY <1>2, <3>1 DEF Reference
  <2> HIDE DEF x
  <2>4. EventsIn(Append(response.items, x), c) = IF x \in ClassItem(c) THEN Append(a, x) ELSE a
    <3>1. response.items \in Seq(QueuedEvent \cup ReadPoint) /\ x \in QueuedEvent \cup ReadPoint
      BY <1>2, <2>3
    <3>2. Only(Append(response.items, x), ClassItem(c))
            = IF x \in ClassItem(c) THEN Append(Only(response.items, ClassItem(c)), x)
              ELSE Only(response.items, ClassItem(c))
      BY ZenonT(40), <3>1, OnlyAppend
    <3>3. QED
      BY <3>2 DEF EventsIn
  <2> HIDE DEF a, b
  <2>5. x \in ClassItem(c) => Append(a, x) \o b = a \o (<<x>> \o b)
    <3>1. SUFFICES ASSUME x \in ClassItem(c)
                   PROVE  Append(a, x) \o b = a \o (<<x>> \o b)
      OBVIOUS
    <3>2. Append(a, x) = a \o <<x>> /\ <<x>> \in Seq(ClassItem(c))
      BY <1>4, <3>1, AppendIsConcat
    <3>3. (a \o <<x>>) \o b = a \o (<<x>> \o b)
      BY <1>4, <3>2, ConcatAssociative
    <3>4. QED
      BY <3>2, <3>3
  <2>6. EventsIn(gathered', c) = b
    BY <2>1 DEF b
  <2>7. EventsIn(response'.items, c) \o EventsIn(gathered', c) = a \o EventsIn(gathered, c)
    BY <1>3, <2>2, <2>4, <2>5, <2>6
  <2>8. QED
    BY <1>1, <1>2, <2>2, <2>7 DEF a
<1>6. CASE ReadPointFlags \/ ReadPointValue
  <2>1. CASE UNCHANGED <<gathered, response>>
    BY <1>1, <1>2, <2>1
  <2>2. CASE /\ gathered' = Tail(gathered)
             /\ \E y \in ReadPoint : response' = [response EXCEPT !.items = Append(@, y)]
    <3>1. PICK y \in ReadPoint : response' = [response EXCEPT !.items = Append(@, y)]
      BY <2>2
    <3>2. response'.items = Append(response.items, y) /\ response'.iin = response.iin
      BY <1>2, <3>1 DEF ResponseFor
    <3>3. x \notin ClassItem(c)
      <4>1. x \in Reference
        BY <1>6, ReadPointEffect
      <4>2. QED
        BY <4>1 DEF Reference, ClassItem
    <3>4. y \notin ClassItem(c)
      BY DEF ReadPoint, ClassItem
    <3>5. EventsIn(Append(response.items, y), c) = a
      BY SMTT(30), <1>2, <3>4, OnlyAppend DEF EventsIn
    <3>6. EventsIn(gathered', c) = EventsIn(gathered, c)
      BY <1>3, <2>2, <3>3
    <3> HIDE DEF x, a, b
    <3>7. QED
      BY <1>1, <1>2, <3>2, <3>5, <3>6 DEF a
  <2>3. QED
    BY <1>6, <2>1, <2>2, ReadPointEffect
<1>7. QED
  BY <1>5, <1>6

\* Threads only add to the log, and no queue becomes empty.
LEMMA QueuesGrow ==
  ASSUME DatabaseIInv, DatabaseNext, ~confirming, NEW c \in Class
  PROVE  /\ Len(log[c]) \in Nat /\ Len(log'[c]) \in Nat /\ Len(log[c]) <= Len(log'[c])
         /\ \A i \in 1 .. Len(log[c]) : log'[c][i] = log[c][i]
         /\ log[c] # <<>> => log'[c] # <<>>
         /\ buffers[c] # <<>> => buffers'[c] # <<>>
         /\ cleared' = cleared
<1>1. /\ log \in [Class -> Seq(Event)] /\ buffers \in [Class -> Seq(Event)]
      /\ Len(buffers[c]) <= ClassMax[c] /\ ClassMax[c] \in Nat
  BY ClassMaxAssumption DEF DatabaseIInv, CoreIInv, BufferIInv, BufferTypeOK
<1>2. Len(log[c]) \in Nat /\ log[c] \in Seq(Event)
  BY <1>1, LenProperties
<1>3. CASE UNCHANGED <<buffers, log, cleared>>
  BY <1>2, <1>3
<1>4. CASE \E d \in Class, e \in Event : AppendEvent(d, e)
  <2>1. PICK d \in Class, e \in Event : AppendEvent(d, e)
    BY <1>4
  <2>2. /\ log' = [log EXCEPT ![d] = Append(@, e)]
        /\ buffers' = [buffers EXCEPT ![d] = BoundedAppend(@, e, ClassMax[d])]
        /\ cleared' = cleared
    BY <2>1 DEF AppendEvent
  <2>3. CASE c # d
    BY <1>1, <1>2, <2>2, <2>3
  <2>4. CASE c = d
    <3>1. log'[c] = Append(log[c], e)
      BY <1>1, <2>2, <2>4
    <3>2. buffers'[c] = BoundedAppend(buffers[c], e, ClassMax[c])
      BY <1>1, <2>2, <2>4
    <3>3. buffers[c] # <<>> => buffers'[c] # <<>>
      <4>1. SUFFICES ASSUME buffers[c] # <<>> PROVE buffers'[c] # <<>>
        OBVIOUS
      <4>2. buffers[c] \in Seq(Event) /\ Len(buffers[c]) \in Nat \ {0}
        BY <1>1, <4>1, EmptySeq
      <4>3. ClassMax[c] # 0
        BY <1>1, <4>2
      <4>4. \/ buffers'[c] = Append(buffers[c], e)
            \/ buffers'[c] = Append(Tail(buffers[c]), e)
        BY <3>2, <4>3 DEF BoundedAppend
      <4>5. Tail(buffers[c]) \in Seq(Event)
        BY <4>1, <4>2, HeadTailProperties
      <4>6. QED
        BY <4>2, <4>4, <4>5, AppendProperties
    <3>4. /\ Len(log'[c]) = Len(log[c]) + 1 /\ log'[c] # <<>>
          /\ \A i \in 1 .. Len(log[c]) : log'[c][i] = log[c][i]
      BY <1>2, <3>1, AppendProperties
    <3>5. QED
      BY <1>2, <2>2, <3>3, <3>4
  <2>5. QED
    BY <2>3, <2>4
<1>5. QED
  BY <1>3, <1>4, ThreadsGrow

\* A class with a queue had events.
LEMMA QueuedLogged ==
  ASSUME DatabaseIInv, NEW c \in Class, buffers[c] # <<>>
  PROVE  log[c] # <<>>
<1>1. /\ BufferTypeOK /\ NewestKept
  BY DEF DatabaseIInv, CoreIInv, BufferIInv
<1>2. /\ buffers[c] \in Seq(Event) /\ Len(buffers[c]) \in 0 .. Len(log[c])
      /\ Len(log[c]) \in Nat
  BY <1>1, QueueLength
<1>3. Len(buffers[c]) \in Nat \ {0}
  BY <1>2, EmptySeq
<1>4. Len(<<>>) = 0
  BY EmptySeq
<1>5. QED
  BY <1>2, <1>3, <1>4

-----------------------------------------------------------------------------
(* Class bits *)

\* The last response stays right while it is the last and the log grows.
LEMMA FlagsLastStays ==
  ASSUME FlagsMatchEvents, LastIsRead' => LastIsRead, UNCHANGED last,
         \A c \in Class : log[c] # <<>> => log'[c] # <<>>
  PROVE  FlagsMatchEvents'
  BY DEF FlagsMatchEvents, ReportedClass

LEMMA FlagsDatabase ==
  ASSUME DatabaseIInv, FlagsIInv, DatabaseNext, ~confirming, UNCHANGED sessionVars
  PROVE  FlagsIInv'
<1>1. UNCHANGED <<phase, todo, gathered, response, iin, requests, last>>
  BY DEF sessionVars, readVars
<1>2. \A c \in Class : /\ log[c] # <<>> => log'[c] # <<>>
                       /\ buffers[c] # <<>> => buffers'[c] # <<>>
  BY QueuesGrow
<1>3. LastIsRead' <=> LastIsRead
  BY <1>1 DEF LastIsRead
<1>4. FlagsMatchEvents'
  BY <1>1, <1>2, <1>3, FlagsLastStays DEF FlagsIInv
<1>5. \A c : /\ EventsIn(gathered', c) = EventsIn(gathered, c)
             /\ EventsIn(response'.items, c) = EventsIn(response.items, c)
  BY <1>1
<1>6. QED
  BY <1>1, <1>2, <1>4, <1>5 DEF FlagsIInv, EventsIn, ClassItem

LEMMA FlagsAtOnce ==
  ASSUME NEW R, ControlIInv(R), AnswerIInv, FlagsIInv, NEW r \in R, HandleAtOnce(r)
  PROVE  FlagsIInv'
<1>1. /\ phase' = "idle" /\ UNCHANGED databaseAll /\ iin'.events = iin.events
      /\ requests' = Append(requests, r) /\ r.fc # "READ"
  BY AtOnceEffect
<1>2. UNCHANGED log
  BY <1>1, DatabaseFixed
<1>3. FlagsMatchEvents'
  <2>1. CASE UNCHANGED <<last, answered>>
    BY <1>1, <1>2, <2>1, LastReadStays, FlagsLastStays DEF FlagsIInv
  <2>2. CASE last'.number = Len(requests) + 1
    BY <1>1, <2>2, LastIsOther DEF FlagsMatchEvents
  <2>3. QED
    BY <2>1, <2>2, AtOnceEffect
<1>4. QED
  BY <1>1, <1>2, <1>3 DEF FlagsIInv

LEMMA FlagsArrival ==
  ASSUME NEW R, ControlIInv(R), AnswerIInv, FlagsIInv,
         NEW r \in R, StartRead(r) \/ FailParse(r)
  PROVE  FlagsIInv'
<1>1. /\ requests' = Append(requests, r) /\ phase = "idle"
      /\ UNCHANGED <<databaseAll, last, iin>>
  BY DEF StartRead, FailParse, Arrives
<1>2. phase' = "idle" \/ (phase' = "gather" /\ gathered' = <<>>)
  BY <1>1 DEF StartRead, FailParse
<1>3. UNCHANGED log /\ FlagsMatchEvents'
  BY <1>1, DatabaseFixed, LastReadStays, FlagsLastStays DEF FlagsIInv
<1>4. \A c : Only(<<>>, ClassItem(c)) = <<>>
  BY OnlyEmpty
<1>5. QED
  BY <1>1, <1>2, <1>3, <1>4 DEF FlagsIInv, EventsIn, ClassItem

LEMMA FlagsStays ==
  ASSUME NEW R, ControlIInv(R), FlagsIInv,
         ClearRestart \/ UNCHANGED <<databaseAll, sessionVars>>
  PROVE  FlagsIInv'
<1>1. /\ UNCHANGED <<databaseAll, phase, todo, gathered, response, requests, last>>
      /\ iin'.events = iin.events
  BY DEF ClearRestart, sessionVars, readVars, ControlIInv, IIN
<1>2. UNCHANGED <<log, buffers>> /\ (LastIsRead' <=> LastIsRead)
  BY <1>1, DatabaseFixed DEF LastIsRead
<1>3. FlagsMatchEvents'
  BY <1>1, <1>2, FlagsLastStays DEF FlagsIInv
<1>4. QED
  BY <1>1, <1>2, <1>3 DEF FlagsIInv, EventsIn, ClassItem

\* Every class is asked for its bit.
LEMMA ClassOrderAll ==
  ASSUME NEW c \in Class
  PROVE  c \in Range(ClassOrder)
<1> DEFINE s == <<1, 2, 3>>
<1>1. c \in (1 .. 3) \cap Class /\ s \in Seq(1 .. 3)
  BY ClassAssumption
<1>2. \E i \in 1 .. Len(s) : s[i] = c
  BY <1>1
<1> HIDE DEF s
<1>3. \E j \in 1 .. Len(Only(s, Class)) : Only(s, Class)[j] = c
  BY <1>1, <1>2, OnlyHas
<1>4. PICK j \in 1 .. Len(ClassOrder) : ClassOrder[j] = c
  BY <1>3 DEF ClassOrder, s
<1>5. DOMAIN ClassOrder = 1 .. Len(ClassOrder)
  BY ClassOrderType, LenProperties
<1>6. QED
  BY <1>4, <1>5 DEF Range

\* What is asked next and after it.
LEMMA RangeFirst ==
  ASSUME NEW A, NEW s \in Seq(A), s # <<>>
  PROVE  Range(s) \subseteq {Head(s)} \cup Range(Tail(s))
<1>1. /\ Tail(s) \in Seq(A) /\ Len(Tail(s)) = Len(s) - 1 /\ Head(s) = s[1]
      /\ \A i \in 1 .. Len(Tail(s)) : Tail(s)[i] = s[i + 1]
  BY HeadTailProperties
<1>2. /\ DOMAIN s = 1 .. Len(s) /\ DOMAIN Tail(s) = 1 .. Len(Tail(s))
      /\ Len(s) \in Nat
  BY <1>1, LenProperties
<1> DEFINE t == Tail(s)
<1> HIDE DEF t
<1>3. ASSUME NEW i \in 1 .. Len(s) PROVE s[i] \in {s[1]} \cup Range(t)
  <2>1. CASE i = 1
    BY <2>1
  <2>2. CASE i # 1
    <3>1. i - 1 \in DOMAIN t
      BY <1>1, <1>2, <2>2 DEF t
    <3>2. t[i - 1] = s[i]
      BY <1>1, <1>2, <3>1 DEF t
    <3>3. QED
      BY <3>1, <3>2 DEF Range
  <2>3. QED
    BY <2>1, <2>2
<1>4. QED
  BY <1>1, <1>2, <1>3 DEF Range, t

LEMMA FlagsGather ==
  ASSUME DatabaseIInv, ReferencesIInv, FlagsIInv,
         ExpandClass0 \/ GatherEvents \/ GatherPoints \/ SkipObject
  PROVE  FlagsIInv'
<1>1. /\ phase = "gather" /\ phase' = "gather"
      /\ UNCHANGED <<databaseAll, iin, requests, last>>
  BY DEF ExpandClass0, GatherEvents, GatherPoints, SkipObject, Gathering
<1>2. UNCHANGED <<log, buffers>> /\ (LastIsRead' <=> LastIsRead)
  BY <1>1, DatabaseFixed DEF LastIsRead
<1>3. FlagsMatchEvents'
  BY <1>1, <1>2, FlagsLastStays DEF FlagsIInv
<1>4. ASSUME NEW c \in Class, EventsIn(gathered', c) # <<>>
      PROVE  buffers'[c] # <<>>
  <2>1. CASE EventsIn(gathered, c) # <<>>
    BY <1>1, <1>2, <2>1 DEF FlagsIInv
  <2>2. CASE EventsIn(gathered, c) = <<>>
    <3>1. EventsIn(gathered', c) = <<>> \o EventItems(c)
      BY <1>4, <2>2, GatherEffect
    <3>2. EventItems(c) # <<>>
      <4>1. <<>> \in Seq(Event) /\ <<>> \o <<>> = <<>>
        BY EmptySeq, ConcatEmptySeq
      <4>2. QED
        BY <1>4, <3>1, <4>1
    <3>3. QED
      BY <1>2, <3>2, NothingQueued
  <2>3. QED
    BY <2>1, <2>2
<1>5. QED
  BY <1>1, <1>2, <1>3, <1>4 DEF FlagsIInv, EventsIn, ClassItem

LEMMA FlagsReadStep ==
  ASSUME NEW R, DatabaseIInv, ControlIInv(R), AnswerIInv, ReferencesIInv, FlagsIInv,
         ReadStep
  PROVE  FlagsIInv'
<1>1. CASE ExpandClass0 \/ GatherEvents \/ GatherPoints \/ SkipObject
  BY <1>1, FlagsGather
<1>2. CASE StartFlags
  <2>1. /\ phase = "gather" /\ phase' = "flags" /\ todo' = ClassOrder
        /\ UNCHANGED <<databaseAll, gathered, iin, requests, last>>
    BY <1>2 DEF StartFlags
  <2>2. UNCHANGED <<log, buffers>> /\ (LastIsRead' <=> LastIsRead)
    BY <2>1, DatabaseFixed DEF LastIsRead
  <2>3. FlagsMatchEvents'
    BY <2>1, <2>2, FlagsLastStays DEF FlagsIInv
  <2>4. \A c \in Class : c \in Range(todo')
    BY <2>1, ClassOrderAll
  <2>5. QED
    BY <2>1, <2>2, <2>3, <2>4 DEF FlagsIInv, EventsIn, ClassItem
<1>3. CASE RefreshFlag
  <2> DEFINE d == Head(todo)
             events == [iin.events EXCEPT ![d] = EventFlag(d)]
  <2>1. /\ phase = "flags" /\ phase' = "flags" /\ todo # <<>> /\ todo' = Tail(todo)
        /\ iin' = [iin EXCEPT !.events = events]
        /\ UNCHANGED <<databaseAll, gathered, requests, last>>
    BY <1>3 DEF RefreshFlag
  <2>2. UNCHANGED <<log, buffers>> /\ (LastIsRead' <=> LastIsRead)
    BY <2>1, DatabaseFixed DEF LastIsRead
  <2>3. FlagsMatchEvents'
    BY <2>1, <2>2, FlagsLastStays DEF FlagsIInv
  <2>4. iin'.events = events /\ iin.events \in [Class -> BOOLEAN]
    BY <2>1 DEF ControlIInv, IIN
  <2>5. todo \in Seq(Class) /\ d \in Class
    BY <2>1, HeadTailProperties DEF ReferencesIInv
  <2>6. Range(todo) \subseteq {d} \cup Range(todo')
    BY <2>1, <2>5, RangeFirst
  <2>7. /\ iin'.events[d] <=> buffers[d] # <<>>
        /\ \A c \in Class \ {d} : iin'.events[c] = iin.events[c]
    <3>1. iin'.events[d] = EventFlag(d)
      BY <2>4, <2>5
    <3>2. EventFlag(d) <=> Len(buffers[d]) > 0
      BY DEF EventFlag, HasEvents
    <3>3. buffers[d] \in Seq(Event)
      BY <2>5 DEF DatabaseIInv, CoreIInv, BufferIInv, BufferTypeOK
    <3>4. Len(buffers[d]) > 0 <=> buffers[d] # <<>>
      BY <3>3, EmptySeq, LenProperties
    <3>5. \A c \in Class \ {d} : iin'.events[c] = iin.events[c]
      BY <2>4, <2>5
    <3>6. QED
      BY <3>1, <3>2, <3>4, <3>5
  <2> HIDE DEF d, events
  <2>8. ASSUME NEW c \in Class, iin'.events[c] PROVE log'[c] # <<>>
    <3>1. CASE c = d
      BY <2>2, <2>7, <2>8, <3>1, QueuedLogged
    <3>2. CASE c # d
      BY <2>2, <2>7, <2>8, <3>2 DEF FlagsIInv
    <3>3. QED
      BY <3>1, <3>2
  <2>9. ASSUME NEW c \in Class, EventsIn(gathered, c) # <<>>
        PROVE  iin'.events[c] \/ c \in Range(todo')
    <3>1. buffers[c] # <<>> /\ (iin.events[c] \/ c \in Range(todo))
      BY <2>1, <2>9 DEF FlagsIInv
    <3>2. CASE c = d
      BY <2>7, <3>1, <3>2
    <3>3. CASE c # d
      BY <2>6, <2>7, <3>1, <3>3
    <3>4. QED
      BY <3>2, <3>3
  <2>10. \A c : EventsIn(gathered', c) = EventsIn(gathered, c)
    BY <2>1
  <2>11. \A c \in Class : EventsIn(gathered, c) # <<>> => buffers'[c] # <<>>
    BY <2>1, <2>2 DEF FlagsIInv
  <2>12. QED
    BY <2>1, <2>3, <2>8, <2>9, <2>10, <2>11 DEF FlagsIInv
<1>4. CASE StartResponse
  <2>1. /\ phase = "flags" /\ phase' = "serialize" /\ todo = <<>>
        /\ response'.iin = iin /\ response'.items = <<>>
        /\ UNCHANGED <<databaseAll, gathered, iin, requests, last>>
    BY <1>4 DEF StartResponse
  <2>2. UNCHANGED <<log, buffers>> /\ (LastIsRead' <=> LastIsRead)
    BY <2>1, DatabaseFixed DEF LastIsRead
  <2>3. FlagsMatchEvents'
    BY <2>1, <2>2, FlagsLastStays DEF FlagsIInv
  <2>4. Range(todo) = {}
    BY <2>1 DEF Range
  <2>5. ASSUME NEW c \in Class,
               EventsIn(response'.items, c) \o EventsIn(gathered', c) # <<>>
        PROVE  response'.iin.events[c]
    <3> DEFINE es == EventsIn(gathered, c)
    <3>1. EventsIn(response'.items, c) = <<>> /\ EventsIn(gathered', c) = es
      BY <2>1, OnlyEmpty DEF EventsIn
    <3>2. es \in Seq(ClassItem(c))
      BY EventsInType DEF ReferencesIInv
    <3>3. es # <<>>
      <4> HIDE DEF es
      <4>1. <<>> \o es = es
        BY <3>2, ConcatEmptySeq
      <4>2. QED
        BY <2>5, <3>1, <4>1
    <3>4. iin.events[c]
      BY <2>1, <2>4, <3>3 DEF FlagsIInv
    <3>5. QED
      BY <2>1, <3>4
  <2>6. \A c \in Class : iin'.events[c] => log'[c] # <<>>
    BY <2>1, <2>2 DEF FlagsIInv
  <2>7. QED
    BY <2>1, <2>3, <2>5, <2>6 DEF FlagsIInv
<1>5. CASE WriteEvent \/ ReadPointFlags \/ ReadPointValue
  <2>1. CASE Class = {}
    BY <1>5, <2>1 DEF FlagsIInv, FlagsMatchEvents
  <2>2. CASE Class # {}
    <3>1. /\ phase = "serialize" /\ phase' = "serialize"
          /\ response'.iin = response.iin
          /\ UNCHANGED <<databaseAll, iin, requests, last>>
      BY <1>5, <2>2, WriteEffect
    <3>2. \A c \in Class :
            EventsIn(response'.items, c) \o EventsIn(gathered', c)
              = EventsIn(response.items, c) \o EventsIn(gathered, c)
      BY <1>5, WriteEffect
    <3>3. UNCHANGED <<log, buffers>> /\ (LastIsRead' <=> LastIsRead)
      BY <3>1, DatabaseFixed DEF LastIsRead
    <3>4. FlagsMatchEvents'
      BY <3>1, <3>3, FlagsLastStays DEF FlagsIInv
    <3>5. QED
      BY <3>1, <3>2, <3>3, <3>4 DEF FlagsIInv
  <2>3. QED
    BY <2>1, <2>2
<1>6. CASE FailEvent \/ FailPoint
  <2>1. phase' = "idle" /\ UNCHANGED <<databaseAll, iin, requests, last>>
    BY <1>6 DEF FailEvent, FailPoint, Abandon, Serializing
  <2>2. UNCHANGED <<log, buffers>> /\ (LastIsRead' <=> LastIsRead)
    BY <2>1, DatabaseFixed DEF LastIsRead
  <2>3. FlagsMatchEvents'
    BY <2>1, <2>2, FlagsLastStays DEF FlagsIInv
  <2>4. QED
    BY <2>1, <2>2, <2>3 DEF FlagsIInv
<1>7. CASE SendResponse
  <2>1. /\ phase = "serialize" /\ phase' = "idle" /\ last' = response /\ gathered = <<>>
        /\ UNCHANGED <<databaseAll, iin, requests>>
    BY <1>7 DEF SendResponse
  <2>2. UNCHANGED <<log, buffers>>
    BY <2>1, DatabaseFixed
  <2>3. ASSUME NEW c \in Class
        PROVE  /\ ReportedClass(last', c) # <<>> => last'.iin.events[c]
               /\ last'.iin.events[c] => log'[c] # <<>>
    <3>1. ReportedClass(last', c) = EventsIn(response.items, c) \o EventsIn(gathered, c)
      <4> DEFINE items == EventsIn(response.items, c)
      <4>1. items \in Seq(ClassItem(c))
        BY <2>1, EventsInType DEF ReferencesIInv
      <4>2. EventsIn(gathered, c) = <<>>
        BY <2>1, OnlyEmpty DEF EventsIn
      <4>3. ReportedClass(last', c) = items
        BY <2>1 DEF ReportedClass, EventsIn
      <4> HIDE DEF items
      <4>4. items \o <<>> = items
        BY <4>1, ConcatEmptySeq
      <4>5. QED
        BY <4>2, <4>3, <4>4 DEF items
    <3>2. QED
      BY <2>1, <2>2, <3>1 DEF FlagsIInv
  <2>4. FlagsMatchEvents'
    BY <2>3 DEF FlagsMatchEvents, ReportedClass, ClassItem
  <2>5. QED
    BY <2>1, <2>2, <2>4 DEF FlagsIInv
<1>8. QED
  BY <1>1, <1>2, <1>3, <1>4, <1>5, <1>6, <1>7 DEF ReadStep

-----------------------------------------------------------------------------
(* Class polls *)

\* What a queue was when m events had been logged does not change.
LEMMA QueueAtStays ==
  ASSUME DatabaseIInv, DatabaseNext, ~confirming,
         NEW c \in Class, NEW m \in 0 .. Len(log[c])
  PROVE  QueueAt(c, m)' = QueueAt(c, m)
<1> DEFINE n == IF m < ClassMax[c] THEN m ELSE ClassMax[c]
           old == log[c]
           new == log'[c]
<1>1. /\ Len(old) \in Nat /\ Len(new) \in Nat /\ Len(old) <= Len(new)
      /\ \A i \in 1 .. Len(old) : new[i] = old[i]
  BY QueuesGrow
<1>2. ClassMax[c] \in Nat /\ m \in Nat /\ m <= Len(old)
  BY <1>1, ClassMaxAssumption
<1>3. n \in 0 .. m
  BY <1>2
<1>4. old \in Seq(Event)
  BY DEF DatabaseIInv, CoreIInv, BufferIInv, BufferTypeOK
<1>5. \A i \in 1 .. Len(old) : old[i] \in Event
  BY <1>4, ElementOfSeq
<1> DEFINE k == m - n + 1
<1> HIDE DEF n, old, new
<1>6. k \in Int /\ k >= 1 /\ m \in Int
  BY <1>2, <1>3
<1> HIDE DEF k
<1>7. \A i \in k .. m : old[i] \in Event /\ new[i] = old[i] /\ new[i] \in Event
  BY <1>1, <1>2, <1>5, <1>6
<1>8. /\ SubSeq(old, k, m) \in Seq(Event)
      /\ Len(SubSeq(old, k, m)) = IF k <= m THEN m - k + 1 ELSE 0
      /\ \A i \in 1 .. m - k + 1 : SubSeq(old, k, m)[i] = old[k + i - 1]
  BY <1>6, <1>7, SubSeqProperties
<1>9. /\ SubSeq(new, k, m) \in Seq(Event)
      /\ Len(SubSeq(new, k, m)) = IF k <= m THEN m - k + 1 ELSE 0
      /\ \A i \in 1 .. m - k + 1 : SubSeq(new, k, m)[i] = new[k + i - 1]
  BY <1>6, <1>7, SubSeqProperties
<1>10. ASSUME NEW i \in 1 .. Len(SubSeq(new, k, m))
       PROVE  SubSeq(new, k, m)[i] = SubSeq(old, k, m)[i]
  <2>1. i \in 1 .. m - k + 1 /\ k + i - 1 \in k .. m
    BY <1>2, <1>6, <1>9
  <2>2. QED
    BY <1>7, <1>8, <1>9, <2>1
<1>11. SubSeq(new, k, m) = SubSeq(old, k, m)
  BY <1>8, <1>9, <1>10, SeqEqual
<1>12. NewestOf(c, m)' = NewestOf(c, m)
  BY <1>11 DEF NewestOf, k, n, old, new
<1>13. QED
  BY <1>12 DEF QueueAt, ItemsOf, ByType, EventsOn, EventItem

\* Items that were a queue at a moment are so when the log has grown.
LEMMA PolledStays ==
  ASSUME DatabaseIInv, DatabaseNext, ~confirming,
         NEW c \in Class, NEW k \in Nat, NEW items,
         \E m \in k .. Len(log[c]) : items = QueueAt(c, m)
  PROVE  \E m \in k .. Len(log'[c]) : items = QueueAt(c, m)'
<1>1. PICK m \in k .. Len(log[c]) : items = QueueAt(c, m)
  OBVIOUS
<1>2. Len(log[c]) \in Nat /\ Len(log'[c]) \in Nat /\ Len(log[c]) <= Len(log'[c])
  BY QueuesGrow
<1>3. m \in 0 .. Len(log[c]) /\ m \in k .. Len(log'[c])
  BY <1>2
<1>4. QueueAt(c, m)' = QueueAt(c, m)
  BY <1>3, QueueAtStays
<1>5. QED
  BY <1>1, <1>3, <1>4

\* What is gathered from a queue is the queue as it is now.
LEMMA QueueNow ==
  ASSUME DatabaseIInv, NEW c \in Class, cleared[c] = 0
  PROVE  EventItems(c) = QueueAt(c, Len(log[c])) /\ Len(log[c]) \in Nat
<1>1. BufferTypeOK /\ NewestKept
  BY DEF DatabaseIInv, CoreIInv, BufferIInv
<1>2. Len(log[c]) \in Nat /\ ClassMax[c] \in Nat
  BY <1>1, QueueLength
<1>3. Kept(c) = IF Len(log[c]) < ClassMax[c] THEN Len(log[c]) ELSE ClassMax[c]
  BY <1>2 DEF Kept
<1>4. buffers[c] = SubSeq(log[c], Len(log[c]) - Kept(c) + 1, Len(log[c]))
  BY <1>1 DEF NewestKept
<1>5. ClassEvents(c) = NewestOf(c, Len(log[c]))
  BY <1>3, <1>4 DEF ClassEvents, NewestOf
<1>6. QED
  BY <1>2, <1>5 DEF EventItems, QueueAt

\* While the log stands, the last response stays right.
LEMMA PollsLastStays ==
  ASSUME PollsIInv, LastIsRead' => LastIsRead, UNCHANGED <<log, last>>,
         LastIsRead' => requests'[last.number] = requests[last.number]
  PROVE  /\ LastIsRead' => \A c \in Class : last'.logged[c] \in 0 .. Len(log'[c])
         /\ PollReportsQueue'
<1>1. \A c, m : NewestOf(c, m)' = NewestOf(c, m)
  BY DEF NewestOf
<1>2. SUFFICES ASSUME LastIsRead'
               PROVE  /\ \A c \in Class : last'.logged[c] \in 0 .. Len(log'[c])
                      /\ PollReportsQueue'
  BY DEF PollReportsQueue
<1>3. LastIsRead /\ requests'[last'.number] = requests[last.number]
  BY <1>2
<1>4. \A c \in Class : last'.logged[c] \in 0 .. Len(log'[c])
  BY <1>3 DEF PollsIInv
<1>5. ASSUME NEW c \in Class, AsksClass(requests[last.number], c)'
      PROVE  \E m \in last'.logged[c] .. Len(log'[c]) :
               ReportedClass(last, c)' = ItemsOf(c, ByType(NewestOf(c, m)))'
  <2>1. AsksClass(requests[last.number], c)
    BY <1>3, <1>5 DEF AsksClass, PollOf
  <2>2. PICK m \in last.logged[c] .. Len(log[c]) :
          ReportedClass(last, c) = ItemsOf(c, ByType(NewestOf(c, m)))
    BY <1>3, <2>1 DEF PollsIInv, PollReportsQueue
  <2>3. ReportedClass(last, c)' = ReportedClass(last, c)
    BY DEF ReportedClass, ClassItem
  <2>4. ItemsOf(c, ByType(NewestOf(c, m)))' = ItemsOf(c, ByType(NewestOf(c, m)))
    BY <1>1 DEF ItemsOf, ByType, EventsOn, EventItem
  <2>5. QED
    BY <2>2, <2>3, <2>4
<1>6. QED
  BY <1>4, <1>5 DEF PollReportsQueue

LEMMA PollsDatabase ==
  ASSUME NEW R, DatabaseIInv, PollsIInv, ControlIInv(R), DatabaseNext, ~confirming,
         UNCHANGED sessionVars
  PROVE  PollsIInv'
<1>1. UNCHANGED <<phase, current, todo, gathered, response, requests, last>>
  BY DEF sessionVars, readVars
<1>2. LastIsRead' <=> LastIsRead
  BY <1>1 DEF LastIsRead
<1>3. ASSUME NEW c \in Class
      PROVE  /\ Len(log[c]) \in Nat /\ Len(log'[c]) \in Nat /\ Len(log[c]) <= Len(log'[c])
             /\ cleared' = cleared
  BY QueuesGrow
<1>4. \A c \in Class : cleared'[c] = 0
  BY <1>3 DEF PollsIInv
<1>5. \A c : /\ EventsIn(gathered', c) = EventsIn(gathered, c)
             /\ EventsIn(response'.items, c) = EventsIn(response.items, c)
             /\ ReportedClass(last', c) = ReportedClass(last, c)
  BY <1>1
<1>6. ASSUME phase # "idle", NEW c \in Class, NEW items, Polled(items, c)
      PROVE  \E m \in current.logged[c] .. Len(log'[c]) : items = QueueAt(c, m)'
  <2>1. current.logged[c] \in Nat
    BY <1>3, <1>6 DEF PollsIInv
  <2>2. PICK k \in Nat : k = current.logged[c]
    BY <2>1
  <2>3. PICK m \in k .. Len(log[c]) : items = QueueAt(c, m)
    BY <1>6, <2>2 DEF Polled
  <2>4. m \in 0 .. Len(log[c]) /\ m \in k .. Len(log'[c])
    BY <1>3
  <2>5. QueueAt(c, m)' = QueueAt(c, m)
    BY <2>4, QueueAtStays
  <2>6. QED
    BY <2>2, <2>3, <2>4, <2>5
<1>7. ASSUME phase # "idle", NEW c \in Class, NEW items, Polled(items, c)
      PROVE  Polled(items, c)'
  BY <1>1, <1>6, <1>7 DEF Polled
<1>8. /\ LastIsRead' => \A c \in Class : last'.logged[c] \in 0 .. Len(log'[c])
      /\ PollReportsQueue'
  <2>1. SUFFICES ASSUME LastIsRead
                 PROVE  /\ \A c \in Class : last.logged[c] \in 0 .. Len(log'[c])
                        /\ PollReportsQueue'
    BY <1>1, <1>2 DEF PollReportsQueue
  <2>2. ASSUME NEW c \in Class, AsksClass(requests[last.number], c)
        PROVE  \E m \in last.logged[c] .. Len(log'[c]) :
                 ReportedClass(last, c) = QueueAt(c, m)'
    <3>1. last.logged[c] \in Nat
      BY <1>3, <2>1 DEF PollsIInv
    <3>2. \E m \in last.logged[c] .. Len(log[c]) : ReportedClass(last, c) = QueueAt(c, m)
      BY <2>1, <2>2 DEF PollsIInv, PollReportsQueue, QueueAt
    <3>3. QED
      BY SMTT(30), <3>1, <3>2, PolledStays
  <2>3. \A c \in Class : last.logged[c] \in 0 .. Len(log'[c])
    BY <1>3, <2>1 DEF PollsIInv
  <2>4. \A c : AsksClass(requests[last.number], c)' => AsksClass(requests[last.number], c)
    BY <1>1
  <2>5. QED
    BY <1>1, <1>5, <2>2, <2>3, <2>4 DEF PollReportsQueue, QueueAt
<1>9. phase # "idle" => \A c \in Class : current'.logged[c] \in 0 .. Len(log'[c])
  BY <1>1, <1>3 DEF PollsIInv
<1>10. \A c : /\ AsksClass(current.request, c)' => AsksClass(current.request, c)
              /\ Only(todo, PollOf(c))' = Only(todo, PollOf(c))
  BY <1>1
<1>11. phase' = "gather" =>
         \A c \in Class : AsksClass(current.request, c)' =>
           \/ Len(Only(todo, PollOf(c))') = 1 /\ EventsIn(gathered, c)' = <<>>
           \/ Only(todo, PollOf(c))' = <<>> /\ Polled(EventsIn(gathered, c), c)'
  BY <1>1, <1>5, <1>7, <1>10 DEF PollsIInv
<1>12. phase' = "flags" =>
         \A c \in Class : AsksClass(current.request, c)' => Polled(EventsIn(gathered, c), c)'
  BY <1>1, <1>5, <1>7, <1>10 DEF PollsIInv
<1>13. phase' = "serialize" =>
         \A c \in Class : AsksClass(current.request, c)' =>
           Polled(EventsIn(response.items, c) \o EventsIn(gathered, c), c)'
  BY <1>1, <1>5, <1>7, <1>10 DEF PollsIInv
<1>14. QED
  BY <1>1, <1>4, <1>8, <1>9, <1>11, <1>12, <1>13 DEF PollsIInv

\* What the session does to its own variables keeps what was polled.
LEMMA PolledKept ==
  ASSUME UNCHANGED <<log, current>>, NEW c, NEW items, Polled(items, c)
  PROVE  Polled(items, c)'
<1>1. \A m : QueueAt(c, m)' = QueueAt(c, m)
  BY DEF QueueAt, NewestOf, ItemsOf, ByType, EventsOn, EventItem
<1>2. QED
  BY <1>1 DEF Polled

LEMMA PollsAtOnce ==
  ASSUME NEW R, ControlIInv(R), AnswerIInv, PollsIInv, NEW r \in R, HandleAtOnce(r)
  PROVE  PollsIInv'
<1>1. /\ phase' = "idle" /\ UNCHANGED databaseAll
      /\ requests' = Append(requests, r) /\ r.fc # "READ"
  BY AtOnceEffect
<1>2. UNCHANGED <<log, cleared>>
  BY <1>1, DatabaseFixed
<1>3. /\ LastIsRead' => \A c \in Class : last'.logged[c] \in 0 .. Len(log'[c])
      /\ PollReportsQueue'
  <2>1. CASE UNCHANGED <<last, answered>>
    BY <1>1, <1>2, <2>1, LastReadStays, PollsLastStays
  <2>2. CASE last'.number = Len(requests) + 1
    BY <1>1, <2>2, LastIsOther DEF PollReportsQueue
  <2>3. QED
    BY <2>1, <2>2, AtOnceEffect
<1>4. QED
  BY <1>1, <1>2, <1>3 DEF PollsIInv

LEMMA PollsArrival ==
  ASSUME NEW R, DatabaseIInv, ControlIInv(R), AnswerIInv, PollsIInv,
         NEW r \in R, StartRead(r) \/ FailParse(r)
  PROVE  PollsIInv'
<1>1. /\ requests' = Append(requests, r) /\ phase = "idle"
      /\ UNCHANGED <<databaseAll, last>>
  BY DEF StartRead, FailParse, Arrives
<1>2. UNCHANGED <<log, cleared>>
  BY <1>1, DatabaseFixed
<1>3. /\ LastIsRead' => \A c \in Class : last'.logged[c] \in 0 .. Len(log'[c])
      /\ PollReportsQueue'
  BY <1>1, <1>2, LastReadStays, PollsLastStays
<1>4. CASE StartRead(r)
  <2>1. /\ phase' = "gather" /\ todo' = r.objs /\ gathered' = <<>>
        /\ current' = [request |-> r, logged |-> LogLengths]
    BY <1>4 DEF StartRead
  <2>2. ASSUME NEW c \in Class PROVE current'.logged[c] \in 0 .. Len(log'[c])
    <3>1. current'.logged[c] = Len(log[c])
      BY <2>1 DEF LogLengths
    <3>2. Len(log[c]) \in Nat
      BY QueueLength DEF DatabaseIInv, CoreIInv, BufferIInv
    <3>3. QED
      BY <1>2, <3>1, <3>2
  <2>3. \A c : EventsIn(gathered', c) = <<>>
    BY <2>1, OnlyEmpty DEF EventsIn
  <2>4. ASSUME NEW c \in Class, AsksClass(current'.request, c)
        PROVE  Len(Only(todo', PollOf(c))) = 1
    BY <2>1, <2>4 DEF AsksClass
  <2>5. QED
    BY <1>2, <1>3, <2>1, <2>2, <2>3, <2>4 DEF PollsIInv, EventsIn, ClassItem, AsksClass, PollOf
<1>5. CASE FailParse(r)
  <2>1. phase' = "idle"
    BY <1>1, <1>5 DEF FailParse
  <2>2. QED
    BY <1>2, <1>3, <2>1 DEF PollsIInv
<1>6. QED
  BY <1>4, <1>5

LEMMA PollsStays ==
  ASSUME PollsIInv, ClearRestart \/ UNCHANGED <<databaseAll, sessionVars>>
  PROVE  PollsIInv'
<1>1. UNCHANGED <<databaseAll, phase, current, todo, gathered, response, requests, last>>
  BY DEF ClearRestart, sessionVars, readVars
<1>2. UNCHANGED <<log, cleared>> /\ (LastIsRead' <=> LastIsRead)
  BY <1>1, DatabaseFixed DEF LastIsRead
<1>3. /\ LastIsRead' => \A c \in Class : last'.logged[c] \in 0 .. Len(log'[c])
      /\ PollReportsQueue'
  BY <1>1, <1>2, PollsLastStays
<1>4. \A c, items : Polled(items, c) => Polled(items, c)'
  BY <1>1, <1>2, PolledKept
<1>5. \A c : /\ EventsIn(gathered, c)' = EventsIn(gathered, c)
             /\ EventsIn(response.items, c)' = EventsIn(response.items, c)
             /\ AsksClass(current.request, c)' => AsksClass(current.request, c)
             /\ Only(todo, PollOf(c))' = Only(todo, PollOf(c))
  BY <1>1
<1>6. QED
  BY <1>1, <1>2, <1>3, <1>4, <1>5 DEF PollsIInv

LEMMA PollsGather ==
  ASSUME DatabaseIInv, ReferencesIInv, ReferencesIInv', PollsIInv,
         ExpandClass0 \/ GatherEvents \/ GatherPoints \/ SkipObject
  PROVE  PollsIInv'
<1>1. /\ phase = "gather" /\ phase' = "gather"
      /\ UNCHANGED <<databaseAll, current, requests, last>>
  BY DEF ExpandClass0, GatherEvents, GatherPoints, SkipObject, Gathering
<1>2. UNCHANGED <<log, cleared>> /\ (LastIsRead' <=> LastIsRead)
  BY <1>1, DatabaseFixed DEF LastIsRead
<1>3. /\ LastIsRead' => \A c \in Class : last'.logged[c] \in 0 .. Len(log'[c])
      /\ PollReportsQueue'
  BY <1>1, <1>2, PollsLastStays
<1>4. ASSUME NEW c \in Class, AsksClass(current.request, c)
      PROVE  \/ Len(Only(todo', PollOf(c))) = 1 /\ EventsIn(gathered', c) = <<>>
             \/ Only(todo', PollOf(c)) = <<>> /\ Polled(EventsIn(gathered, c), c)'
  <2> DEFINE more == Only(todo', PollOf(c))
  <2>1. more \in Seq(ReadObject \cap PollOf(c))
    BY <1>1, OnlyType DEF ReferencesIInv
  <2>2. Len(more) \in Nat /\ (Len(more) = 0 => more = <<>>)
    BY <2>1, LenProperties, EmptySeq
  <2>3. \/ Len(Only(todo, PollOf(c))) = 1 /\ EventsIn(gathered, c) = <<>>
        \/ Only(todo, PollOf(c)) = <<>> /\ Polled(EventsIn(gathered, c), c)
    BY <1>1, <1>4 DEF PollsIInv
  <2>4. CASE /\ EventsIn(gathered', c) = EventsIn(gathered, c)
             /\ Only(todo', PollOf(c)) = Only(todo, PollOf(c))
    BY <1>1, <1>2, <2>3, <2>4, PolledKept
  <2>5. CASE /\ EventsIn(gathered', c) = EventsIn(gathered, c) \o EventItems(c)
             /\ Only(todo, PollOf(c)) = <<Head(todo)>> \o Only(todo', PollOf(c))
    <3>1. Len(Only(todo, PollOf(c))) = 1 + Len(more)
      <4> DEFINE x == Head(todo)
      <4> HIDE DEF x, more
      <4>1. <<x>> \in Seq({x} \cup ReadObject) /\ Len(<<x>>) = 1
        OBVIOUS
      <4>2. more \in Seq({x} \cup ReadObject)
        BY <2>1, SeqMonotonic
      <4>3. Len(<<x>> \o more) = 1 + Len(more)
        BY <4>1, <4>2, ConcatProperties
      <4>4. QED
        BY <2>5, <4>3 DEF x, more
    <3>2. Only(todo, PollOf(c)) # <<>>
      <4>1. Len(<<>>) = 0
        BY EmptySeq
      <4>2. QED
        BY <2>2, <3>1, <4>1
    <3>3. /\ Len(Only(todo, PollOf(c))) = 1 /\ EventsIn(gathered, c) = <<>>
      BY <2>3, <3>2
    <3>4. more = <<>>
      <4> DEFINE n == Len(Only(todo, PollOf(c)))
                 k == Len(more)
      <4>1. n = 1 + k /\ n = 1 /\ k \in Nat
        BY <2>2, <3>1, <3>3
      <4> HIDE DEF n, k
      <4>2. k = 0
        BY <4>1
      <4>3. QED
        BY <2>2, <4>2 DEF k
    <3>5. EventsIn(gathered', c) = EventItems(c)
      <4> DEFINE es == EventItems(c)
      <4>1. es \in Seq(QueuedEvent)
        BY EventItemsType
      <4> HIDE DEF es
      <4>2. <<>> \o es = es
        BY <4>1, ConcatEmptySeq
      <4>3. QED
        BY <2>5, <3>3, <4>2 DEF es
    <3>6. Polled(EventItems(c), c)
      <4>1. EventItems(c) = QueueAt(c, Len(log[c])) /\ Len(log[c]) \in Nat
        BY QueueNow DEF PollsIInv
      <4>2. current.logged[c] \in 0 .. Len(log[c])
        BY <1>1 DEF PollsIInv
      <4>3. Len(log[c]) \in current.logged[c] .. Len(log[c])
        BY <4>1, <4>2
      <4>4. QED
        BY <4>1, <4>3 DEF Polled
    <3>7. QED
      BY <1>1, <1>2, <3>4, <3>5, <3>6, PolledKept
  <2>6. QED
    BY <2>4, <2>5, GatherEffect
<1>5. \A c : AsksClass(current.request, c)' => AsksClass(current.request, c)
  BY <1>1
<1>6. \A c \in Class : cleared'[c] = 0 /\ current'.logged[c] \in 0 .. Len(log'[c])
  BY <1>1, <1>2 DEF PollsIInv
<1>7. \A c : Only(todo, PollOf(c))' = Only(todo', PollOf(c))
  BY DEF PollOf
<1>8. \A c : EventsIn(gathered, c)' = EventsIn(gathered', c)
  BY DEF EventsIn, ClassItem
<1>9. phase' = "gather" =>
        \A c \in Class : AsksClass(current.request, c)' =>
          \/ Len(Only(todo, PollOf(c))') = 1 /\ EventsIn(gathered, c)' = <<>>
          \/ Only(todo, PollOf(c))' = <<>> /\ Polled(EventsIn(gathered, c), c)'
  BY <1>4, <1>5, <1>7, <1>8
<1>10. QED
  BY <1>1, <1>3, <1>6, <1>9 DEF PollsIInv

LEMMA PollsReadStep ==
  ASSUME NEW R, DatabaseIInv, ControlIInv(R), AnswerIInv, ReferencesIInv, PollsIInv,
         ReadStep
  PROVE  PollsIInv'
<1>1. CASE ExpandClass0 \/ GatherEvents \/ GatherPoints \/ SkipObject
  <2>1. ReferencesIInv'
    BY <1>1, ReferencesGather
  <2>2. QED
    BY <1>1, <2>1, PollsGather
<1>2. CASE StartFlags
  <2>1. /\ phase = "gather" /\ phase' = "flags" /\ todo = <<>>
        /\ UNCHANGED <<databaseAll, current, gathered, requests, last>>
    BY <1>2 DEF StartFlags
  <2>2. UNCHANGED <<log, cleared>> /\ (LastIsRead' <=> LastIsRead)
    BY <2>1, DatabaseFixed DEF LastIsRead
  <2>3. /\ LastIsRead' => \A c \in Class : last'.logged[c] \in 0 .. Len(log'[c])
        /\ PollReportsQueue'
    BY <2>1, <2>2, PollsLastStays
  <2>4. \A c : Len(Only(todo, PollOf(c))) = 0
    <3>1. Len(<<>>) = 0
      BY EmptySeq
    <3>2. QED
      BY <2>1, <3>1, OnlyEmpty
  <2>5. ASSUME NEW c \in Class, AsksClass(current.request, c)
        PROVE  Polled(EventsIn(gathered, c), c)
    BY <2>1, <2>4, <2>5 DEF PollsIInv
  <2>6. \A c, items : Polled(items, c) => Polled(items, c)'
    BY <2>1, <2>2, PolledKept
  <2>7. \A c : /\ AsksClass(current.request, c)' => AsksClass(current.request, c)
               /\ EventsIn(gathered, c)' = EventsIn(gathered, c)
    BY <2>1
  <2>8. QED
    BY <2>1, <2>2, <2>3, <2>5, <2>6, <2>7 DEF PollsIInv
<1>3. CASE RefreshFlag
  <2>1. /\ phase = "flags" /\ phase' = "flags"
        /\ UNCHANGED <<databaseAll, current, gathered, requests, last>>
    BY <1>3 DEF RefreshFlag
  <2>2. UNCHANGED <<log, cleared>> /\ (LastIsRead' <=> LastIsRead)
    BY <2>1, DatabaseFixed DEF LastIsRead
  <2>3. /\ LastIsRead' => \A c \in Class : last'.logged[c] \in 0 .. Len(log'[c])
        /\ PollReportsQueue'
    BY <2>1, <2>2, PollsLastStays
  <2>4. \A c, items : Polled(items, c) => Polled(items, c)'
    BY <2>1, <2>2, PolledKept
  <2>5. \A c : /\ AsksClass(current.request, c)' => AsksClass(current.request, c)
               /\ EventsIn(gathered, c)' = EventsIn(gathered, c)
    BY <2>1
  <2>6. QED
    BY <2>1, <2>2, <2>3, <2>4, <2>5 DEF PollsIInv
<1>4. CASE StartResponse
  <2>1. /\ phase = "flags" /\ phase' = "serialize" /\ response'.items = <<>>
        /\ UNCHANGED <<databaseAll, current, gathered, requests, last>>
    BY <1>4 DEF StartResponse
  <2>2. UNCHANGED <<log, cleared>> /\ (LastIsRead' <=> LastIsRead)
    BY <2>1, DatabaseFixed DEF LastIsRead
  <2>3. /\ LastIsRead' => \A c \in Class : last'.logged[c] \in 0 .. Len(log'[c])
        /\ PollReportsQueue'
    BY <2>1, <2>2, PollsLastStays
  <2>4. \A c, items : Polled(items, c) => Polled(items, c)'
    BY <2>1, <2>2, PolledKept
  <2>5. \A c : AsksClass(current.request, c)' => AsksClass(current.request, c)
    BY <2>1
  <2>6. ASSUME NEW c
        PROVE  EventsIn(response'.items, c) \o EventsIn(gathered', c) = EventsIn(gathered, c)
    <3> DEFINE es == EventsIn(gathered, c)
    <3>1. EventsIn(response'.items, c) = <<>> /\ EventsIn(gathered', c) = es
      BY <2>1, OnlyEmpty DEF EventsIn
    <3>2. es \in Seq(ClassItem(c))
      BY EventsInType DEF ReferencesIInv
    <3> HIDE DEF es
    <3>3. <<>> \o es = es
      BY <3>2, ConcatEmptySeq
    <3>4. QED
      BY <3>1, <3>3 DEF es
  <2>7. ASSUME NEW c \in Class, AsksClass(current.request, c)
        PROVE  Polled(EventsIn(response.items, c) \o EventsIn(gathered, c), c)'
    <3>1. Polled(EventsIn(gathered, c), c)
      BY <2>1, <2>7 DEF PollsIInv
    <3>2. QED
      BY <2>4, <2>6, <3>1
  <2>8. QED
    BY <2>1, <2>2, <2>3, <2>5, <2>7 DEF PollsIInv
<1>5. CASE WriteEvent \/ ReadPointFlags \/ ReadPointValue
  <2>1. /\ phase = "serialize" /\ phase' = "serialize"
        /\ UNCHANGED <<databaseAll, current, requests, last>>
    BY <1>5 DEF WriteEvent, ReadPointFlags, ReadPointValue, Serializing
  <2>2. UNCHANGED <<log, cleared>> /\ (LastIsRead' <=> LastIsRead)
    BY <2>1, DatabaseFixed DEF LastIsRead
  <2>3. /\ LastIsRead' => \A c \in Class : last'.logged[c] \in 0 .. Len(log'[c])
        /\ PollReportsQueue'
    BY <2>1, <2>2, PollsLastStays
  <2>4. \A c, items : Polled(items, c) => Polled(items, c)'
    BY <2>1, <2>2, PolledKept
  <2>5. \A c : AsksClass(current.request, c)' => AsksClass(current.request, c)
    BY <2>1
  <2>6. \A c \in Class :
          EventsIn(response'.items, c) \o EventsIn(gathered', c)
            = EventsIn(response.items, c) \o EventsIn(gathered, c)
    BY <1>5, WriteEffect
  <2>7. ASSUME NEW c \in Class, AsksClass(current.request, c)
        PROVE  Polled(EventsIn(response.items, c) \o EventsIn(gathered, c), c)'
    <3>1. Polled(EventsIn(response.items, c) \o EventsIn(gathered, c), c)
      BY <2>1, <2>7 DEF PollsIInv
    <3>2. QED
      BY <2>4, <2>6, <3>1
  <2>8. QED
    BY <2>1, <2>2, <2>3, <2>5, <2>7 DEF PollsIInv
<1>6. CASE FailEvent \/ FailPoint
  <2>1. phase' = "idle" /\ UNCHANGED <<databaseAll, requests, last>>
    BY <1>6 DEF FailEvent, FailPoint, Abandon, Serializing
  <2>2. UNCHANGED <<log, cleared>> /\ (LastIsRead' <=> LastIsRead)
    BY <2>1, DatabaseFixed DEF LastIsRead
  <2>3. /\ LastIsRead' => \A c \in Class : last'.logged[c] \in 0 .. Len(log'[c])
        /\ PollReportsQueue'
    BY <2>1, <2>2, PollsLastStays
  <2>4. QED
    BY <2>1, <2>2, <2>3 DEF PollsIInv
<1>7. CASE SendResponse
  <2>1. /\ phase = "serialize" /\ phase' = "idle" /\ last' = response /\ gathered = <<>>
        /\ UNCHANGED <<databaseAll, requests>>
    BY <1>7 DEF SendResponse
  <2>2. UNCHANGED <<log, cleared>>
    BY <2>1, DatabaseFixed
  <2>3. /\ response.number = Len(requests) /\ response.logged = current.logged
        /\ current.request = requests[Len(requests)]
    BY <2>1 DEF AnswerIInv, ResponseFor, ControlIInv
  <2>4. \A c \in Class : last'.logged[c] \in 0 .. Len(log'[c])
    BY <2>1, <2>2, <2>3 DEF PollsIInv
  <2>5. ASSUME NEW c \in Class, AsksClass(requests'[last'.number], c)
        PROVE  \E m \in last'.logged[c] .. Len(log'[c]) :
                 ReportedClass(last', c) = QueueAt(c, m)'
    <3>1. AsksClass(current.request, c)
      BY <2>1, <2>3, <2>5 DEF AsksClass
    <3>2. ReportedClass(last', c) = EventsIn(response.items, c) \o EventsIn(gathered, c)
      <4> DEFINE items == EventsIn(response.items, c)
      <4>1. items \in Seq(ClassItem(c))
        BY <2>1, EventsInType DEF ReferencesIInv
      <4>2. EventsIn(gathered, c) = <<>>
        BY <2>1, OnlyEmpty DEF EventsIn
      <4>3. ReportedClass(last', c) = items
        BY <2>1 DEF ReportedClass, EventsIn
      <4> HIDE DEF items
      <4>4. items \o <<>> = items
        BY <4>1, ConcatEmptySeq
      <4>5. QED
        BY <4>2, <4>3, <4>4 DEF items
    <3>3. Polled(ReportedClass(last', c), c)
      BY <2>1, <3>1, <3>2 DEF PollsIInv
    <3>4. \A m : QueueAt(c, m)' = QueueAt(c, m)
      BY <2>2 DEF QueueAt, NewestOf, ItemsOf, ByType, EventsOn, EventItem
    <3>5. QED
      BY <2>1, <2>2, <2>3, <3>3, <3>4 DEF Polled
  <2>6. PollReportsQueue'
    BY <2>5 DEF PollReportsQueue, QueueAt, ReportedClass, AsksClass, PollOf, ClassItem
  <2>7. QED
    BY <2>1, <2>2, <2>4, <2>6 DEF PollsIInv
<1>8. QED
  BY <1>1, <1>2, <1>3, <1>4, <1>5, <1>6, <1>7 DEF ReadStep

-----------------------------------------------------------------------------
(* The session's invariant *)

\* What the session relies on, whatever requests of R come.
SessionIInv(R) ==
  /\ DatabaseIInv
  /\ ~confirming
  /\ ControlIInv(R)
  /\ AnswerIInv
  /\ ReferencesIInv
  /\ FlagsIInv
  /\ PollsIInv

\* The steps of the session leave the database and the queues as they are.
LEMMA SessionLeavesDatabase ==
  ASSUME NEW R, ControlIInv(R),
         \/ \E r \in R : HandleAtOnce(r) \/ StartRead(r) \/ FailParse(r)
         \/ ReadStep
         \/ ClearRestart
         \/ UNCHANGED <<databaseAll, sessionVars>>
  PROVE  UNCHANGED databaseAll
<1>1. CASE \E r \in R : HandleAtOnce(r)
  BY <1>1, AtOnceEffect
<1>2. CASE \E r \in R : StartRead(r) \/ FailParse(r)
  BY <1>2 DEF StartRead, FailParse
<1>3. CASE ReadStep
  <2>1. CASE ExpandClass0 \/ GatherEvents \/ GatherPoints \/ SkipObject
    BY <2>1 DEF ExpandClass0, GatherEvents, GatherPoints, SkipObject, Gathering
  <2>2. CASE StartFlags \/ RefreshFlag \/ StartResponse \/ SendResponse
    BY <2>2 DEF StartFlags, RefreshFlag, StartResponse, SendResponse
  <2>3. CASE WriteEvent \/ FailEvent \/ ReadPointFlags \/ ReadPointValue \/ FailPoint
    BY <2>3 DEF WriteEvent, FailEvent, ReadPointFlags, ReadPointValue, FailPoint, Serializing
  <2>4. QED
    BY <1>3, <2>1, <2>2, <2>3 DEF ReadStep
<1>4. CASE ClearRestart
  BY <1>4 DEF ClearRestart
<1>5. QED
  BY <1>1, <1>2, <1>3, <1>4

LEMMA DatabaseInvStands ==
  ASSUME DatabaseIInv, UNCHANGED databaseAll
  PROVE  DatabaseIInv'
<1>1. UNCHANGED <<bufferVars, databaseVars>>
  BY DEF databaseAll
<1>2. UNCHANGED log
  BY <1>1 DEF bufferVars
<1>3. BufferIInv'
  BY <1>1, BufferKept DEF DatabaseIInv, CoreIInv
<1>4. QED
  BY <1>1, <1>2, <1>3, DatabaseStands

\* The steps of the session, and of the threads next to it, keep its invariant.
LEMMA SessionPreserves ==
  ASSUME NEW R, Readable(R), SessionIInv(R),
         \/ DatabaseNext /\ UNCHANGED sessionVars
         \/ \E r \in R : HandleAtOnce(r) \/ StartRead(r) \/ FailParse(r)
         \/ ReadStep
         \/ ClearRestart
         \/ UNCHANGED <<databaseAll, sessionVars>>
  PROVE  SessionIInv(R)'
<1>1. /\ DatabaseIInv /\ ~confirming /\ ControlIInv(R) /\ AnswerIInv
      /\ ReferencesIInv /\ FlagsIInv /\ PollsIInv
  BY DEF SessionIInv
<1>2. CASE DatabaseNext /\ UNCHANGED sessionVars
  <2>1. DatabaseIInv'
    BY <1>1, <1>2, DatabasePreserves
  <2>2. ControlIInv(R)' /\ AnswerIInv'
    BY <1>1, <1>2 DEF sessionVars, readVars, ControlIInv, AnswerIInv, AnswersMatch, ResponseFor
  <2>3. ReferencesIInv' /\ FlagsIInv' /\ PollsIInv' /\ ~confirming'
    BY <1>1, <1>2, ReferencesDatabase, FlagsDatabase, PollsDatabase, ThreadsGrow
  <2>4. QED
    BY <2>1, <2>2, <2>3 DEF SessionIInv
<1>3. ASSUME UNCHANGED databaseAll PROVE DatabaseIInv' /\ ~confirming'
  BY <1>1, <1>3, DatabaseInvStands, DatabaseFixed
<1>4. CASE \E r \in R : HandleAtOnce(r)
  <2>1. PICK r \in R : HandleAtOnce(r)
    BY <1>4
  <2>2. DatabaseIInv' /\ ~confirming'
    BY <1>1, <1>3, <1>4, SessionLeavesDatabase
  <2>3. QED
    BY <1>1, <2>1, <2>2, ControlAtOnce, ReferencesAtOnce, FlagsAtOnce, PollsAtOnce
       DEF SessionIInv
<1>5. CASE \E r \in R : StartRead(r) \/ FailParse(r)
  <2>1. PICK r \in R : StartRead(r) \/ FailParse(r)
    BY <1>5
  <2>2. DatabaseIInv' /\ ~confirming'
    BY <1>1, <1>3, <1>5, SessionLeavesDatabase
  <2>3. QED
    BY <1>1, <2>1, <2>2, ControlArrival, ReferencesArrival, FlagsArrival, PollsArrival
       DEF SessionIInv
<1>6. CASE ReadStep
  <2>1. DatabaseIInv' /\ ~confirming'
    BY <1>1, <1>3, <1>6, SessionLeavesDatabase
  <2>2. QED
    BY <1>1, <1>6, <2>1, ControlReadStep, ReferencesReadStep, FlagsReadStep, PollsReadStep
       DEF SessionIInv
<1>7. CASE ClearRestart \/ UNCHANGED <<databaseAll, sessionVars>>
  <2>1. DatabaseIInv' /\ ~confirming'
    BY <1>1, <1>3, <1>7, SessionLeavesDatabase
  <2>2. QED
    BY <1>1, <1>7, <2>1, ControlStays, ReferencesStays, FlagsStays, PollsStays
       DEF SessionIInv
<1>8. QED
  BY <1>2, <1>4, <1>5, <1>6, <1>7

LEMMA RequestsReadable == Readable(Request)
  BY RequestAssumption DEF Readable

LEMMA SessionInitInv ==
  ASSUME NEW R, DatabaseInit, SessionInit
  PROVE  SessionIInv(R)
<1>1. /\ phase = "idle" /\ gathered = <<>> /\ readFlags = Nothing /\ last = Nothing
      /\ iin \in IIN /\ iin.events = [c \in Class |-> FALSE]
      /\ unsolicited \in BOOLEAN /\ state = "IDLE" /\ requests = <<>> /\ answered = {}
  BY DEF SessionInit, IIN
<1>2. /\ order = <<>> /\ former = [p \in Point |-> <<>>]
      /\ cleared = [c \in Class |-> 0]
  BY DEF DatabaseInit, BufferInit
<1>3. \A S : <<>> \in Seq(S)
  BY EmptySeq
<1>4. ControlIInv(R)
  BY <1>1, <1>3 DEF ControlIInv
<1>5. AnswerIInv
  BY <1>1 DEF AnswerIInv, AnswersMatch
<1>6. ReferencesIInv
  BY <1>1, <1>2, <1>3 DEF ReferencesIInv, LastIsRead, Point
<1>7. FlagsIInv
  BY <1>1 DEF FlagsIInv, FlagsMatchEvents, LastIsRead
<1>8. PollsIInv
  BY <1>1, <1>2 DEF PollsIInv, PollReportsQueue, LastIsRead
<1>9. ~confirming
  BY DEF DatabaseInit, BufferInit
<1>10. QED
  BY <1>4, <1>5, <1>6, <1>7, <1>8, <1>9, DatabaseInitInv DEF SessionIInv

\* The invariant of the session together with its database: the handling of a
\* READ, interleaved with the calls of application threads (session.py:61-242,
\* 300-327, 462-478; database.py:51-220).
THEOREM SessionInvariance == Spec => []SessionIInv(Request)
<1>1. Init => SessionIInv(Request)
  BY SessionInitInv DEF Init
<1>2. SessionIInv(Request) /\ [Next]_vars => SessionIInv(Request)'
  <2>1. SUFFICES ASSUME SessionIInv(Request), [Next]_vars
                 PROVE  SessionIInv(Request)'
    OBVIOUS
  <2>2. \/ DatabaseNext /\ UNCHANGED sessionVars
        \/ \E r \in Request : HandleAtOnce(r) \/ StartRead(r) \/ FailParse(r)
        \/ ReadStep
        \/ ClearRestart
        \/ UNCHANGED <<databaseAll, sessionVars>>
    BY <2>1 DEF Next, vars
  <2>3. QED
    BY <2>1, <2>2, RequestsReadable, SessionPreserves
<1>3. QED
  BY <1>1, <1>2, PTL DEF Spec

\* Every variable of the session keeps its type, whatever is requested while
\* threads use the database (session.py:36-59).
THEOREM SessionTypeCorrect == Spec => []SessionTypeOK
<1>1. ASSUME SessionIInv(Request) PROVE SessionTypeOK
  <2>1. DatabaseTypeOK
    BY <1>1 DEF SessionIInv, DatabaseIInv, CoreIInv
  <2>2. ControlIInv(Request)
    BY <1>1 DEF SessionIInv
  <2>3. phase # "idle" => current.request \in Request
    <3>1. SUFFICES ASSUME phase # "idle" PROVE current.request \in Request
      OBVIOUS
    <3>2. /\ requests \in Seq(Request) /\ requests # <<>>
          /\ current.request = requests[Len(requests)]
      BY <2>2, <3>1 DEF ControlIInv
    <3>3. Len(requests) \in 1 .. Len(requests)
      BY <3>2, EmptySeq, LenProperties
    <3>4. QED
      BY <3>2, <3>3, ElementOfSeq
  <2>4. readFlags \in Flag \cup {Nothing}
    BY <1>1 DEF SessionIInv, ReferencesIInv
  <2>5. QED
    BY <2>1, <2>2, <2>3, <2>4 DEF SessionTypeOK, ControlIInv, IIN
<1>2. QED
  BY <1>1, SessionInvariance, PTL

\* Every response answers a request that asks for one, with its sequence number,
\* and no request is blamed for one before it that was not supported
\* (session.py:131-242).
THEOREM AnswersRight == Spec => []AnswersMatch
<1>1. SessionIInv(Request) => AnswersMatch
  BY DEF SessionIInv, AnswerIInv
<1>2. QED
  BY <1>1, SessionInvariance, PTL

\* The class bits of an answer to a READ agree with the events in it, whatever
\* the threads add between gathering and flagging (session.py:103-129, 462-478).
THEOREM FlagsRight == Spec => []FlagsMatchEvents
<1>1. SessionIInv(Request) => FlagsMatchEvents
  BY DEF SessionIInv, FlagsIInv
<1>2. QED
  BY <1>1, SessionInvariance, PTL

\* The answer to a class poll is the whole queue of the class as it was at one
\* moment of the handling (session.py:300-327, event_buffer.py:39-77).
THEOREM PollsRight == Spec => []PollReportsQueue
<1>1. SessionIInv(Request) => PollReportsQueue
  BY DEF SessionIInv, PollsIInv
<1>2. QED
  BY <1>1, SessionInvariance, PTL

\* A confirmation clears nothing: the session never waits for one, so every
\* event ever queued is still there or was pushed out of a full queue
\* (session.py:232-235).
THEOREM NothingConfirmed ==
  Spec => [](state = "IDLE" /\ \A c \in Class : cleared[c] = 0)
<1>1. SessionIInv(Request) => state = "IDLE" /\ \A c \in Class : cleared[c] = 0
  BY DEF SessionIInv, ControlIInv, PollsIInv
<1>2. QED
  BY <1>1, SessionInvariance, PTL

\* Under the session the database is the one of PointDatabase: handling a
\* request changes no point and no queue (session.py:64-129).
THEOREM SessionUsesDatabase == Spec => DatabaseSpec
<1>1. Init => DatabaseInit
  BY DEF Init
<1>2. SessionIInv(Request) /\ [Next]_vars
        => [DatabaseNext \/ Confirm]_<<bufferVars, databaseVars>>
  <2>1. SUFFICES ASSUME SessionIInv(Request), [Next]_vars
                 PROVE  DatabaseNext \/ UNCHANGED databaseAll
    BY DEF databaseAll
  <2>2. CASE DatabaseNext /\ UNCHANGED sessionVars
    BY <2>2
  <2>3. CASE \/ \E r \in Request : HandleAtOnce(r) \/ StartRead(r) \/ FailParse(r)
             \/ ReadStep
             \/ ClearRestart
             \/ UNCHANGED <<databaseAll, sessionVars>>
    BY <2>1, <2>3, SessionLeavesDatabase DEF SessionIInv
  <2>4. QED
    BY <2>1, <2>2, <2>3 DEF Next, vars
<1>3. QED
  BY <1>1, <1>2, SessionInvariance, PTL DEF Spec, DatabaseSpec

\* Freezes stay whole and events exact under any requests: what is proved of
\* the database holds of the outstation (database.py:86-148).
THEOREM OutstationEvents ==
  Spec => [](FrozenWhole /\ LastEventCurrent /\ NoRedundantEvents)
<1>1. QED
  BY SessionUsesDatabase, FreezeAtomic, EventsCurrent, EventsDiffer, PTL
=============================================================================

--------------------------- MODULE PointDatabase ---------------------------
(* The outstation's point database, updated by application threads, and    *)
(* the event callback OutstationSession registers with it                  *)
(* (outstation/database.py, outstation/session.py:445-460).                *)
(*                                                                         *)
(* A thread takes the lock, compares, writes value and flags one after the *)
(* other, and calls on_event before it lets the lock go.  Other threads    *)
(* run between any two of these.  A point added again is a new object,     *)
(* with the configuration of the old one.                                  *)
EXTENDS EventBuffer

CONSTANTS
  BinaryInput, BinaryOutput, AnalogInput, AnalogOutput, Counter,
  Value,      \* the values an application gives to points
  Flag,       \* the flag bytes it gives them
  Online,     \* PointFlags.ONLINE, the default
  EventClass, \* PointConfig.event_class of every input
  Deadband,   \* PointConfig.deadband of every analog input
  Thread,     \* the application's threads
  Free,       \* no thread: the lock is not held
  Absent,     \* no such key in a dict
  MaxCalls,   \* bound on the calls of update_* and freeze_counter
  MaxAgain    \* bound on how often a point is added again

Input == BinaryInput \cup AnalogInput
Point == Input \cup BinaryOutput \cup AnalogOutput \cup Counter

Reading == [value : Value, flags : Flag]

ASSUME EventClassAssumption == EventClass \in [Input -> Class \cup {NoClass}]
ASSUME DeadbandAssumption == Value \subseteq Int /\ Deadband \in [AnalogInput -> Nat]
ASSUME InputAssumption == BinaryInput \cap AnalogInput = {}
ASSUME FreeAssumption == Free \notin Thread
ASSUME EventAssumption == Event = [point : Input, value : Value, flags : Flag]
ASSUME OnlineAssumption == Online \in Flag /\ 0 \in Value
ASSUME AbsentAssumption == Absent \notin Reading \cup [reading : Reading, logged : Nat]
ASSUME CallsAssumption == MaxCalls \in Nat

VARIABLES
  store,      \* _binary_inputs, ..., _counters: index -> point
  frozen,     \* _frozen_counters
  order,      \* the points in the order they were added (dict order)
  lock,       \* PointDatabase._lock
  task,       \* what each thread is doing
  calls,      \* calls made so far
  former,     \* the objects of each point that adding it again replaced
  added,      \* history: the reading each point was last added with, and the
              \* events of its class there were then
  had         \* history: the readings each point had between updates

addVars == <<order, former, added>>
databaseVars == <<store, frozen, lock, task, calls, had, addVars>>

Idle == [op |-> "idle"]
Task == {Idle}
        \cup [point : Point, op : {"update"},
              step : {"wait", "value", "flags", "notify", "raise", "append"},
              reading : Reading]
        \cup [point : Counter, op : {"freeze"}, step : {"wait", "value", "flags"}]

\* The events logged in the class of a point.
EventCount(p) ==
  IF p \in Input /\ EventClass[p] \in Class THEN Len(log[EventClass[p]]) ELSE 0

\* The objects a point has now.
Objects(p) ==
  [live |-> store[p], frozen |-> IF p \in Counter THEN frozen[p] ELSE Absent]

Distance(x, y) == IF x < y THEN y - x ELSE x - y

-----------------------------------------------------------------------------
(* Adding points *)

\* add_binary_input and the others: one assignment of a new point object.  A
\* key that was there keeps its place, and no event tells of the change.
AddPoint(p, v) ==
  /\ lock = Free
  /\ Len(former[p]) < MaxAgain \/ store[p] = Absent
  /\ LET r == [value |-> v, flags |-> Online]
     IN /\ store' = [store EXCEPT ![p] = r]
        /\ had' = [had EXCEPT ![p] = @ \cup {r}]
        /\ added' = [added EXCEPT ![p] = [reading |-> r, logged |-> EventCount(p)]]
  /\ frozen' = IF p \in Counter
               THEN [frozen EXCEPT ![p] = [value |-> 0, flags |-> Online]]
               ELSE frozen
  /\ IF store[p] = Absent
     THEN order' = Append(order, p) /\ UNCHANGED former
     ELSE UNCHANGED order /\ former' = [former EXCEPT ![p] = Append(@, Objects(p))]
  /\ UNCHANGED <<bufferVars, lock, task, calls>>

-----------------------------------------------------------------------------
(* Updates *)

\* Does an update with reading r change point p?  Outputs and counters are
\* written whatever they hold.
ChangesMutant(p, r) ==
  \/ p \notin Input
  \/ store[p].flags # r.flags
  \/ p \in AnalogInput /\ Distance(store[p].value, r.value) >= Deadband[p]
  \/ p \in BinaryInput /\ store[p].value # r.value
Changes(p, r) ==
  \/ p \notin Input
  \/ store[p].flags # r.flags
  \/ p \in AnalogInput /\ Distance(store[p].value, r.value) > Deadband[p]
  \/ p \in BinaryInput /\ store[p].value # r.value

Call(t, job) ==
  /\ task[t] = Idle
  /\ calls < MaxCalls
  /\ calls' = calls + 1
  /\ task' = [task EXCEPT ![t] = job]
  /\ UNCHANGED <<bufferVars, store, frozen, addVars, lock, had>>

CallUpdate(t, p, r) ==
  Call(t, [point |-> p, op |-> "update", step |-> "wait", reading |-> r])

CallFreeze(t, c) == Call(t, [point |-> c, op |-> "freeze", step |-> "wait"])

At(t, op, step) == task[t].op = op /\ task[t].step = step

NextStep(t, step) == task' = [task EXCEPT ![t].step = step]

ReturnMutant(t) == task' = [task EXCEPT ![t] = Idle] /\ UNCHANGED lock
Return(t) == task' = [task EXCEPT ![t] = Idle] /\ lock' = Free

\* with self._lock: look the point up and compare; nothing to do returns.
EnterUpdate(t) ==
  /\ At(t, "update", "wait")
  /\ lock = Free
  /\ LET p == task[t].point
     IN IF store[p] # Absent /\ Changes(p, task[t].reading)
        THEN NextStep(t, "value") /\ lock' = t
        ELSE Return(t)
  /\ UNCHANGED <<bufferVars, store, frozen, addVars, calls, had>>

WriteValue(t) ==
  /\ At(t, "update", "value")
  /\ store' = [store EXCEPT ![task[t].point].value = task[t].reading.value]
  /\ NextStep(t, "flags")
  /\ UNCHANGED <<bufferVars, frozen, addVars, lock, calls, had>>

\* The callback made after the lock is let go.
WriteFlagsMutant(t) ==
  LET p == task[t].point
  IN /\ At(t, "update", "flags")
     /\ store' = [store EXCEPT ![p].flags = task[t].reading.flags]
     /\ had' = [had EXCEPT ![p] = @ \cup {store'[p]}]
     /\ IF p \in Input THEN NextStep(t, "notify") /\ lock' = Free ELSE Return(t)
     /\ UNCHANGED <<bufferVars, frozen, addVars, calls>>

\* Updates of outputs and counters end here, those of inputs raise an event.
WriteFlags(t) ==
  LET p == task[t].point
  IN /\ At(t, "update", "flags")
     /\ store' = [store EXCEPT ![p].flags = task[t].reading.flags]
     /\ had' = [had EXCEPT ![p] = @ \cup {store'[p]}]
     /\ IF p \in Input THEN NextStep(t, "notify") /\ UNCHANGED lock ELSE Return(t)
     /\ UNCHANGED <<bufferVars, frozen, addVars, calls>>

\* _on_database_event, called with the lock held: add() looks whether the
\* queue is full.
Notify(t) ==
  LET c == EventClass[task[t].point]
  IN /\ At(t, "update", "notify")
     /\ IF c \in Class
        THEN /\ LookAtQueue
             /\ NextStep(t, IF IsFull(buffers[c], ClassMax[c]) THEN "raise" ELSE "append")
             /\ UNCHANGED lock
        ELSE UNCHANGED bufferVars /\ Return(t)
     /\ UNCHANGED <<store, frozen, addVars, calls, had>>

NotifyFull(t) ==
  /\ At(t, "update", "raise")
  /\ RaiseOverflow
  /\ NextStep(t, "append")
  /\ UNCHANGED <<store, frozen, addVars, lock, calls, had>>

\* The event is queued, and the update ends.
NotifyAppend(t) ==
  LET p == task[t].point
      r == task[t].reading
  IN /\ At(t, "update", "append")
     /\ AppendEvent(EventClass[p], [point |-> p, value |-> r.value, flags |-> r.flags])
     /\ Return(t)
     /\ UNCHANGED <<store, frozen, addVars, calls, had>>

-----------------------------------------------------------------------------
(* freeze_counter *)

EnterFreezeMutant(t) ==
  /\ At(t, "freeze", "wait")
  /\ IF store[task[t].point] # Absent
     THEN NextStep(t, "value") /\ UNCHANGED lock
     ELSE task' = [task EXCEPT ![t] = Idle] /\ UNCHANGED lock
  /\ UNCHANGED <<bufferVars, store, frozen, addVars, calls, had>>

EnterFreeze(t) ==
  /\ At(t, "freeze", "wait")
  /\ lock = Free
  /\ IF store[task[t].point] # Absent
     THEN NextStep(t, "value") /\ lock' = t
     ELSE Return(t)
  /\ UNCHANGED <<bufferVars, store, frozen, addVars, calls, had>>

FreezeValue(t) ==
  LET c == task[t].point
  IN /\ At(t, "freeze", "value")
     /\ frozen' = [frozen EXCEPT ![c].value = store[c].value]
     /\ NextStep(t, "flags")
     /\ UNCHANGED <<bufferVars, store, addVars, lock, calls, had>>

FreezeFlags(t) ==
  LET c == task[t].point
  IN /\ At(t, "freeze", "flags")
     /\ frozen' = [frozen EXCEPT ![c].flags = store[c].flags]
     /\ Return(t)
     /\ UNCHANGED <<bufferVars, store, addVars, calls, had>>

-----------------------------------------------------------------------------
DatabaseInit ==
  /\ BufferInit
  /\ store = [p \in Point |-> Absent]
  /\ frozen = [c \in Counter |-> Absent]
  /\ order = <<>>
  /\ lock = Free
  /\ task = [t \in Thread |-> Idle]
  /\ calls = 0
  /\ former = [p \in Point |-> <<>>]
  /\ added = [p \in Point |-> Absent]
  /\ had = [p \in Point |-> {}]

\* The rest of a call, once made.
ThreadStep(t) ==
  \/ EnterUpdate(t)
  \/ WriteValue(t)
  \/ WriteFlags(t)
  \/ Notify(t)
  \/ NotifyFull(t)
  \/ NotifyAppend(t)
  \/ EnterFreeze(t)
  \/ FreezeValue(t)
  \/ FreezeFlags(t)

\* A thread that is in add(), having looked at its queue.
Adding == \E t \in Thread : At(t, "update", "raise") \/ At(t, "update", "append")

\* The event loop calls confirm_all() or confirm_class().
Confirm ==
  /\ BeginConfirmAll(Adding) \/ \E c \in Class : ConfirmClass(c, Adding)
  /\ UNCHANGED databaseVars

\* The rest of a call of confirm_all().
ConfirmStep == (ClearQueue \/ LowerOverflow) /\ UNCHANGED databaseVars

DatabaseNext ==
  \/ \E p \in Point, v \in Value : AddPoint(p, v)
  \/ \E t \in Thread, p \in Point, r \in Reading : CallUpdate(t, p, r)
  \/ \E t \in Thread, c \in Counter : CallFreeze(t, c)
  \/ \E t \in Thread : ThreadStep(t)
  \/ ConfirmStep

\* The event loop may confirm events at any time.
DatabaseSpec ==
  DatabaseInit /\ [][DatabaseNext \/ Confirm]_<<bufferVars, databaseVars>>

\* A thread that runs goes on.  Weak fairness is enough for the lock too: the
\* calls are bounded, so in the end nobody takes it before a waiting thread.
DatabaseFairSpec ==
  /\ DatabaseSpec
  /\ \A t \in Thread : WF_<<bufferVars, databaseVars>>(ThreadStep(t))

-----------------------------------------------------------------------------
(* Properties *)

\* Every variable has its type.
DatabaseTypeOK ==
  /\ BufferTypeOK
  /\ store \in [Point -> Reading \cup {Absent}]
  /\ frozen \in [Counter -> Reading \cup {Absent}]
  /\ order \in Seq(Point)
  /\ lock \in Thread \cup {Free}
  /\ task \in [Thread -> Task]
  /\ calls \in 0 .. MaxCalls
  /\ former \in [Point -> Seq([live : Reading, frozen : Reading \cup {Absent}])]
  /\ added \in [Point -> [reading : Reading, logged : Nat] \cup {Absent}]
  /\ had \in [Point -> SUBSET Reading]

\* Threads in the body of a with self._lock block.
Inside(t) == task[t].op # "idle" /\ task[t].step # "wait"

Busy(p) == \E t \in Thread : Inside(t) /\ task[t].op = "update" /\ task[t].point = p

\* The places in the log of the events of a point since it was last added.
EventPlaces(p) ==
  IF added[p] = Absent THEN {}
  ELSE {i \in added[p].logged + 1 .. Len(log[EventClass[p]]) :
          log[EventClass[p]][i].point = p}

\* The last that was reported of point p is reading r: its newest event since
\* it was added, or what it was added with if there is none.
Reported(p, r) ==
  /\ EventPlaces(p) = {} => r = added[p].reading
  /\ \A i \in EventPlaces(p) :
       (\A j \in EventPlaces(p) : j <= i) =>
         log[EventClass[p]][i] = [point |-> p, value |-> r.value, flags |-> r.flags]

\* Two readings or events of point p differ in flags or by more than its deadband.
Differ(p, x, y) ==
  \/ x.flags # y.flags
  \/ Distance(x.value, y.value) > (IF p \in AnalogInput THEN Deadband[p] ELSE 0)

\* The newest event of a point is what the point holds, when nobody is
\* updating it; a point without events since it was added never changed.  So
\* the events of two racing updates are queued in the order they were made.
LastEventCurrent ==
  \A p \in Input :
    EventClass[p] \in Class /\ store[p] # Absent /\ ~Busy(p) => Reported(p, store[p])

\* Two events of a point in a row differ in flags or by more than its
\* deadband: racing updates do not report the same change twice.
NoRedundantEvents ==
  \A p \in Input :
    EventClass[p] \in Class =>
      \A i, j \in EventPlaces(p) :
        i < j /\ (\A k \in EventPlaces(p) : k <= i \/ j <= k) =>
          Differ(p, log[EventClass[p]][i], log[EventClass[p]][j])

\* A frozen counter is a reading the counter had, never the value of one
\* update with the flags of another.
FrozenWhole ==
  \A c \in Counter :
    \/ frozen[c] = Absent
    \/ \E t \in Thread : Inside(t) /\ task[t].op = "freeze" /\ task[t].point = c
    \/ frozen[c] \in had[c] \cup {[value |-> 0, flags |-> Online]}

\* A thread that has looked at its queue, and raised the flag for it if it was
\* full, is about to push an event out of it.
Losing ==
  \E t \in Thread :
    /\ At(t, "update", "append")
    /\ LET c == EventClass[task[t].point] IN IsFull(buffers[c], ClassMax[c])

\* Unless confirm_all or confirm_class ran while a thread was in add(), the
\* overflow flag tells of every event that was lost unconfirmed since
\* confirm_all, in whatever class, and is up only if one was or is just being
\* lost; confirming one class does not hide the loss.
OverflowMeansLoss ==
  ~confirming /\ ~overlapped =>
    /\ dropped # {} => overflow
    /\ overflow => dropped # {} \/ Losing

\* A call of update_* or freeze_counter returns: the callback made under the
\* lock never waits for it.
CallsReturn == \A t \in Thread : task[t] # Idle ~> task[t] = Idle
=============================================================================

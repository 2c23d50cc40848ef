-------------------------- MODULE MCPointDatabase --------------------------
(* Threads that update points, and the event loop, which confirms events.    *)
(* An analog input has a deadband and class 1, which keeps two events, a     *)
(* binary input class 2, which keeps one.  The run has two parts, with as    *)
(* many points, values and calls as the questions of each need.              *)
EXTENDS PointDatabase

CONSTANTS ai, bi, ao, bo, ctr

MCClass == {1, 2}
MCClassMax == [c \in Class |-> IF c = 1 THEN 2 ELSE 1]
MCEventClass == [p \in Input |-> IF p = bi THEN 2 ELSE 1]
MCDeadband == [p \in AnalogInput |-> 1]

MCEvent == [point : Input, value : Value, flags : Flag]

\* Races of updates, freezes and adding again, nothing confirmed.
Races ==
  [points |-> {ai, ctr}, values |-> {0, 1, 2}, flags |-> {1, 2}, calls |-> 3,
   again |-> 1, confirms |-> FALSE]

\* Updates that overflow both queues, with confirmations in the middle of them.
Overflows ==
  [points |-> {ai, bi}, values |-> {0, 2}, flags |-> {1}, calls |-> 4,
   again |-> 0, confirms |-> TRUE]

\* No step of a thread that is in a call leaves a part.
Within(part) ==
  /\ \A p \in Point \ part.points : store[p] = Absent
  /\ \A p \in Point : had[p] \subseteq [value : part.values, flags : part.flags]
  /\ \A p \in Point : Len(former[p]) <= part.again
  /\ \A t \in Thread : task[t].op # "idle" => task[t].point \in part.points
  /\ \A t \in Thread :
       task[t].op = "update" =>
         task[t].reading \in [value : part.values, flags : part.flags]
  /\ calls <= part.calls
  /\ ~part.confirms => ~confirming /\ ~overlapped /\ \A c \in Class : cleared[c] = 0

\* Points are added, and added again, with the value 0.
MCBounds ==
  /\ \E part \in {Races, Overflows} : Within(part)'
  /\ \A p \in Point : added'[p] # added[p] => added'[p].reading.value = 0

MCSpec ==
  /\ DatabaseInit
  /\ [][(DatabaseNext \/ Confirm) /\ MCBounds]_<<bufferVars, databaseVars>>
  /\ \A t \in Thread : WF_<<bufferVars, databaseVars>>(ThreadStep(t))
=============================================================================

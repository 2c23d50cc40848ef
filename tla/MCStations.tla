----------------------------- MODULE MCStations -----------------------------
(* A master and an outstation without points: polls, commands, and the      *)
(* scans that are answered, dropped and fatal.                              *)
EXTENDS Stations

MCClassMax == [c \in Class |-> 1]

NoPoint == <<>>

\* An unknown variation, which is answered, and the default one.
MCScans == {[start |-> 0, stop |-> 1, var |-> v] : v \in {3, 5, 7}}

FatalScans == {[start |-> 0, stop |-> 1, var |-> 3]}

EventPoll == {<<1, 2, 3>>}

\* The first request is of any kind; those after it are polls of class 1 and
\* OPERATE.  Unsolicited responses have number 0 and
\* ask for confirmation.
MCBounds ==
  /\ \A n \in 2 .. Len(sent') :
       sent'[n].fc \in {"CONFIRM", "OPERATE"} \/ sent'[n].objs = <<ClassObject(1)>>
  /\ used' + prompted' <= MaxUsed
  /\ \A i \in 1 .. Len(toMaster') :
       toMaster'[i].uns => toMaster'[i].con /\ toMaster'[i].seq = 0

MCSpec ==
  /\ StationsInit /\ [][StationsNext /\ MCBounds]_allVars
  /\ WF_allVars(LoopStep)
  /\ WF_allVars(MasterReceives)
=============================================================================

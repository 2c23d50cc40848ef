--------------------------- MODULE MasterSession ---------------------------
(* The master's session: polls and commands, each with the next sequence    *)
(* number, and what it does with what it receives (master/session.py).      *)
(* It keeps nothing but the next number: no request is awaited, repeated    *)
(* or matched with its answer.                                              *)
EXTENDS Integers, Sequences

CONSTANTS
  SeqCount,      \* sequence numbers are modulo this: 16
  PollClasses,   \* the classes an event poll may name: sequences of 1, 2, 3
  PollClass,     \* the classes polled alone: 0 to 3
  Scan,          \* the scans asked for: [start, stop, var]
  OutputIndex,   \* the outputs that are commanded
  MaxUsed        \* bound on the sequence numbers used

ASSUME SeqCountAssumption == SeqCount \in Nat \ {0}
ASSUME MaxUsedAssumption == MaxUsed \in Nat
ASSUME PollAssumption == PollClasses \subseteq Seq(1 .. 3) /\ PollClass \subseteq 0 .. 3
ASSUME ScanAssumption == Scan \subseteq [start : Nat, stop : Nat, var : Nat]
ASSUME OutputAssumption == OutputIndex \subseteq Nat

VARIABLES
  masterSeq,     \* MasterSession._seq
  used,          \* history: sequence numbers used
  sent,          \* history: the requests passed to send_fragment
  heard          \* history: the responses passed to the handler

\* A request has a function code, a sequence number and objects as in
\* OutstationSession, and nth, the numbers used up to it (of a CONFIRM 0).

masterVars == <<masterSeq, used, sent, heard>>

AllPoints == -1 .. -1   \* the qualifier ALL_POINTS

-----------------------------------------------------------------------------
UnwrappedSeqMutant == masterSeq' = masterSeq + 1
ShortSeqMutant == masterSeq' = (masterSeq + 1) % (SeqCount - 1)
NextSeq == masterSeq' = (masterSeq + 1) % SeqCount

TakeSeq ==
  /\ used < MaxUsed
  /\ used' = used + 1
  /\ NextSeq

SendRequest(fc, objects) ==
  /\ TakeSeq
  /\ sent' = Append(sent, [fc |-> fc, seq |-> masterSeq, objs |-> objects,
                           nth |-> used + 1])
  /\ UNCHANGED heard

ClassObject(class) == [group |-> 60, var |-> class + 1, range |-> AllPoints]

SendIntegrityPoll == SendRequest("READ", <<ClassObject(0)>>)

SendEventPoll(classes) ==
  SendRequest("READ", [i \in 1 .. Len(classes) |-> ClassObject(classes[i])])

SendClassPoll(class) == SendRequest("READ", <<ClassObject(class)>>)

\* A reversed range is refused before a number is used.
SendAnalogInputScan(scan) ==
  /\ scan.stop >= scan.start
  /\ SendRequest("READ", <<[group |-> 30, var |-> scan.var,
                            range |-> scan.start .. scan.stop]>>)

BinaryControl(index) == [group |-> 12, index |-> index]
AnalogControl(index) == [group |-> 41, index |-> index]

SendDirectOperateBinary(index) == SendRequest("DIRECT_OPERATE", <<BinaryControl(index)>>)
SendDirectOperateAnalog(index) == SendRequest("DIRECT_OPERATE", <<AnalogControl(index)>>)
SendSelectBinary(index) == SendRequest("SELECT", <<BinaryControl(index)>>)
SendOperateBinary(index) == SendRequest("OPERATE", <<BinaryControl(index)>>)

\* An analog value that does not fit its variation: build_request raises
\* struct.error to the caller, after the number was taken.
FailDirectOperateAnalog ==
  /\ TakeSeq
  /\ UNCHANGED <<sent, heard>>

EventClasses == <<ClassObject(1), ClassObject(2), ClassObject(3)>>

SendEnableUnsolicited == SendRequest("ENABLE_UNSOLICITED", EventClasses)
SendDisableUnsolicited == SendRequest("DISABLE_UNSOLICITED", EventClasses)

\* send_confirm: repeats a number and uses none.
SendConfirm(seq) ==
  /\ sent' = Append(sent, [fc |-> "CONFIRM", seq |-> seq, objs |-> <<>>, nth |-> 0])
  /\ UNCHANGED <<masterSeq, used>>

\* on_message: an unsolicited response is confirmed when it asks for it; the
\* number of another is not looked at.
OnMessage(m) ==
  /\ heard' = Append(heard, m)
  /\ IF m.uns /\ m.con THEN SendConfirm(m.seq)
     ELSE UNCHANGED <<masterSeq, used, sent>>

-----------------------------------------------------------------------------
MasterInit == masterSeq = 0 /\ used = 0 /\ sent = <<>> /\ heard = <<>>

Poll ==
  \/ SendIntegrityPoll
  \/ \E classes \in PollClasses : SendEventPoll(classes)
  \/ \E class \in PollClass : SendClassPoll(class)
  \/ \E scan \in Scan : SendAnalogInputScan(scan)

Command ==
  \/ \E index \in OutputIndex :
       \/ SendDirectOperateBinary(index)
       \/ SendDirectOperateAnalog(index)
       \/ SendSelectBinary(index)
       \/ SendOperateBinary(index)
  \/ FailDirectOperateAnalog
  \/ SendEnableUnsolicited
  \/ SendDisableUnsolicited
=============================================================================

--------------------------- MODULE RequestService ---------------------------
(* What a master and an outstation promise each other, whatever becomes of  *)
(* the connections between them: the outstation takes requests as they were *)
(* sent, in the order they were sent and each at most once; the master gets *)
(* answers in the same order, each to a request the outstation took and     *)
(* with its sequence number.  Requests and answers may be lost.             *)
EXTENDS Integers, Sequences

CONSTANT Answered(_)   \* does a request ask for an answer?

VARIABLES
  submitted,   \* the requests sent
  taken,       \* those the outstation took, each with its number
  answers      \* the answers the master got, with the number of the request

serviceVars == <<submitted, taken, answers>>

LastNumber(s) == IF s = <<>> THEN 0 ELSE s[Len(s)].number

Init == submitted = <<>> /\ taken = <<>> /\ answers = <<>>

\* A request of any kind.
Submit ==
  /\ Len(submitted') = Len(submitted) + 1
  /\ SubSeq(submitted', 1, Len(submitted)) = submitted
  /\ UNCHANGED <<taken, answers>>

Take(n) ==
  /\ n > LastNumber(taken)
  /\ taken' = Append(taken, [number |-> n, request |-> submitted[n]])
  /\ UNCHANGED <<submitted, answers>>

Answer(n) ==
  /\ n > LastNumber(answers)
  /\ \E i \in 1 .. Len(taken) : taken[i].number = n
  /\ Answered(submitted[n])
  /\ answers' = Append(answers, [number |-> n, seq |-> submitted[n].seq])
  /\ UNCHANGED <<submitted, taken>>

Next ==
  \/ Submit
  \/ \E n \in 1 .. Len(submitted) : Take(n) \/ Answer(n)

Spec == Init /\ [][Next]_serviceVars
=============================================================================

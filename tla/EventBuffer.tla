---------------------------- MODULE EventBuffer ----------------------------
(* The outstation's event queues, one per class, each a deque with a        *)
(* maximum length that drops its oldest event when full                     *)
(* (outstation/event_buffer.py).                                            *)
(*                                                                          *)
(* Application threads call add() under the database's lock, one at a time; *)
(* the event loop calls confirm_all() and confirm_class() without it.  Each *)
(* statement of the two that looks at or changes the buffer is a step.      *)
EXTENDS Integers, Sequences

CONSTANTS
  Class,      \* the classes with a queue: 1, 2 and 3
  NoClass,    \* event_class 0: events of such points are not kept
  ClassMax,   \* class_<n>_max of EventBuffer.__init__
  Event       \* the events that can be added

ASSUME ClassMaxAssumption == ClassMax \in [Class -> Nat]
ASSUME ClassAssumption == Class \subseteq 1 .. 3
ASSUME NoClassAssumption == NoClass \notin Class

VARIABLES
  buffers,    \* EventBuffer._buffers
  overflow,   \* EventBuffer._overflow
  confirming, \* the event loop is in confirm_all()
  toClear,    \* the classes confirm_all() has still to clear
  log,        \* history: all events ever added, by class
  cleared,    \* history: how many of them the last confirmation covered
  dropped,    \* history: places in log dropped unconfirmed, until confirm_all
              \* clears their class
  overlapped  \* history: since confirm_all was last called, the event loop
              \* confirmed events while a thread was in add()

flagVars == <<overflow, overlapped>>
confirmVars == <<confirming, toClear>>
bufferVars == <<buffers, log, cleared, dropped, flagVars, confirmVars>>

-----------------------------------------------------------------------------
(* Operations *)

UnboundedMutant(q, e, n) == Append(q, e)
BoundedMutant(q, e, n) == IF Len(q) >= n THEN q ELSE Append(q, e)
\* deque(maxlen=n).append(e)
BoundedAppend(q, e, n) ==
  IF Len(q) < n THEN Append(q, e)
  ELSE IF n = 0 THEN <<>> ELSE Append(Tail(q), e)

IsFull(q, n) == Len(q) = n

\* Places of class c neither confirmed before the step nor kept after it.
Missing(c) == cleared[c] + 1 .. Len(log'[c]) - Len(buffers'[c])

\* add(), at first: an event of a class without a queue is ignored.
LookAtQueue ==
  /\ overlapped' = (overlapped \/ confirming)
  /\ UNCHANGED <<buffers, log, cleared, dropped, overflow, confirmVars>>

\* The queue was full.
RaiseOverflow ==
  /\ overflow' = TRUE
  /\ UNCHANGED <<buffers, log, cleared, dropped, overlapped, confirmVars>>

AppendEvent(c, e) ==
  /\ buffers' = [buffers EXCEPT ![c] = BoundedAppend(@, e, ClassMax[c])]
  /\ log' = [log EXCEPT ![c] = Append(@, e)]
  /\ dropped' = dropped \cup ({c} \X Missing(c))
  /\ UNCHANGED <<cleared, flagVars, confirmVars>>

\* get_class_events(): a copy, nothing is removed.
ClassEvents(c) == IF c \in Class THEN buffers[c] ELSE <<>>

\* has_class_1, has_class_2, has_class_3
HasEvents(c) == Len(buffers[c]) > 0

ConfirmClassMutant(c, adding) ==
  /\ ~confirming
  /\ buffers' = [buffers EXCEPT ![c] = <<>>]
  /\ cleared' = [cleared EXCEPT ![c] = Len(log[c])]
  /\ overflow' = FALSE
  /\ overlapped' = (overlapped \/ adding)
  /\ UNCHANGED <<log, dropped, confirmVars>>

\* confirm_class(), while a thread is in add() or not.
ConfirmClass(c, adding) ==
  /\ ~confirming
  /\ buffers' = [buffers EXCEPT ![c] = <<>>]
  /\ cleared' = [cleared EXCEPT ![c] = Len(log[c])]
  /\ overlapped' = (overlapped \/ adding)
  /\ UNCHANGED <<log, dropped, overflow, confirmVars>>

\* confirm_all(): one queue after the other, then the flag.
BeginConfirmAll(adding) ==
  /\ ~confirming
  /\ confirming' = TRUE
  /\ toClear' = Class
  /\ overlapped' = adding
  /\ UNCHANGED <<buffers, log, cleared, dropped, overflow>>

ClearQueue ==
  /\ confirming
  /\ \E c \in toClear :
       /\ \A d \in toClear : c <= d
       /\ buffers' = [buffers EXCEPT ![c] = <<>>]
       /\ cleared' = [cleared EXCEPT ![c] = Len(log[c])]
       /\ dropped' = {lost \in dropped : lost[1] # c}
       /\ toClear' = toClear \ {c}
  /\ UNCHANGED <<log, flagVars, confirming>>

LowerOverflow ==
  /\ confirming
  /\ toClear = {}
  /\ overflow' = FALSE
  /\ confirming' = FALSE
  /\ UNCHANGED <<buffers, log, cleared, dropped, overlapped, toClear>>

-----------------------------------------------------------------------------
BufferInit ==
  /\ buffers = [c \in Class |-> <<>>]
  /\ overflow = FALSE
  /\ log = [c \in Class |-> <<>>]
  /\ cleared = [c \in Class |-> 0]
  /\ dropped = {}
  /\ confirming = FALSE /\ toClear = {} /\ overlapped = FALSE

-----------------------------------------------------------------------------
(* Properties *)

\* The queues hold events and never more of them than configured.
BufferTypeOK ==
  /\ buffers \in [Class -> Seq(Event)]
  /\ \A c \in Class : Len(buffers[c]) <= ClassMax[c]
  /\ overflow \in BOOLEAN
  /\ log \in [Class -> Seq(Event)]
  /\ cleared \in [Class -> Nat]
  /\ \A c \in Class : cleared[c] <= Len(log[c])
  /\ dropped \subseteq Class \X Nat
  /\ confirming \in BOOLEAN /\ overlapped \in BOOLEAN
  /\ toClear \subseteq Class

\* How many events class c should hold: all unconfirmed ones, as far as they fit.
Kept(c) ==
  LET unconfirmed == Len(log[c]) - cleared[c]
  IN IF unconfirmed < ClassMax[c] THEN unconfirmed ELSE ClassMax[c]

\* A queue is the newest unconfirmed events of its class, in the order they
\* happened: eviction never takes a newer event, nor one of another class.
NewestKept ==
  \A c \in Class :
    buffers[c] = SubSeq(log[c], Len(log[c]) - Kept(c) + 1, Len(log[c]))
=============================================================================

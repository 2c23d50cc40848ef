-------------------------- MODULE FragmentService --------------------------
(* What the transport layer promises to the application layer: every       *)
(* fragment handed up is one fragment the peer submitted, whole and        *)
(* unaltered, in submission order and at most once.  Fragments may be      *)
(* dropped (the link layer discards frames whose CRC fails, and a          *)
(* connection may break), never mixed.                                     *)
EXTENDS Integers, Sequences

CONSTANTS Fragments,  \* the fragments an application may submit
          MaxSent     \* bound on the number of submissions

VARIABLES sent,       \* fragments submitted to TransportLayer.send_fragment
          delivered   \* fragments passed to on_fragment, each with its number

svars == <<sent, delivered>>

LastDelivered ==
  IF delivered = <<>> THEN 0 ELSE delivered[Len(delivered)].frag

Init == sent = <<>> /\ delivered = <<>>

Submit(f) ==
  /\ Len(sent) < MaxSent
  /\ sent' = Append(sent, f)
  /\ UNCHANGED delivered

Deliver(k) ==
  /\ k > LastDelivered
  /\ delivered' = Append(delivered, [frag |-> k, data |-> sent[k]])
  /\ UNCHANGED sent

Next ==
  \/ \E f \in Fragments : Submit(f)
  \/ \E k \in 1..Len(sent) : Deliver(k)

Spec == Init /\ [][Next]_svars
=============================================================================

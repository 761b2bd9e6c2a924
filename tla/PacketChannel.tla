--------------------------- MODULE PacketChannel ---------------------------
(***************************************************************************)
(* What a component promises to the components that route packets to it:   *)
(* a channel that may lose packets and never reorders, repeats or invents  *)
(* any. PrivilegedThread implements it (MediaProcessor::receivePacket on   *)
(* one side, receive on the other).                                        *)
(***************************************************************************)
EXTENDS Integers, Sequences

VARIABLES
  accepted,  \* how many packets have been handed over
  pending,   \* the packets on their way
  received   \* the packets received, in order

chan == <<accepted, pending, received>>

Init == accepted = 0 /\ pending = {} /\ received = <<>>

Accept ==
  /\ accepted' = accepted + 1
  /\ pending' = pending \cup {accepted + 1}
  /\ UNCHANGED received

Deliver ==
  \E n \in pending :
    /\ \A m \in pending : n <= m
    /\ pending' = pending \ {n}
    /\ received' = Append(received, n)
    /\ UNCHANGED accepted

Lose ==
  /\ pending' \subseteq pending
  /\ UNCHANGED <<accepted, received>>

Next == Accept \/ Deliver \/ Lose

Spec == Init /\ [][Next]_chan
=============================================================================

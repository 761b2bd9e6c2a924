---------------------------- MODULE MergedStreams ----------------------------
(***************************************************************************)
(* What a multiplexer promises to the component behind it: it forwards the *)
(* next packet of one stream only when it knows the next packet of every   *)
(* stream that has not ended, and then one that comes no later than those; *)
(* the streams reach their reset or end together, as one packet.           *)
(***************************************************************************)
EXTENDS Integers, Sequences

CONSTANT Streams  \* a packet is a record with its type and its key, a number

VARIABLES
  waiting,  \* per stream, the packets handed over and not yet forwarded
  over,     \* the streams whose end has been forwarded
  merged    \* what was forwarded

Control(p) == p.type # "media"

Init == waiting = [s \in Streams |-> <<>>] /\ over = {} /\ merged = <<>>

Accept ==
  \E s \in Streams \ over :
    /\ Len(waiting'[s]) = Len(waiting[s]) + 1
    /\ SubSeq(waiting'[s], 1, Len(waiting[s])) = waiting[s]
    /\ waiting' = [waiting EXCEPT ![s] = waiting'[s]]
    /\ UNCHANGED <<over, merged>>

Known == \A s \in Streams \ over : waiting[s] # <<>>
NextOf(s) == Head(waiting[s])

Forward ==
  \E s \in Streams \ over :
    /\ Known /\ ~Control(NextOf(s))
    /\ \A t \in Streams \ over : Control(NextOf(t)) \/ NextOf(s).key <= NextOf(t).key
    /\ merged' = Append(merged, NextOf(s))
    /\ waiting' = [waiting EXCEPT ![s] = Tail(@)]
    /\ UNCHANGED over

Together ==
  LET live == Streams \ over
      ends == {s \in live : NextOf(s).type = "end"}
  IN  /\ live # {} /\ Known /\ \A s \in live : Control(NextOf(s))
      /\ \E s \in live : merged' = Append(merged, NextOf(s))
      /\ over' = over \cup ends
      /\ waiting' = [s \in Streams |-> IF s \in ends THEN <<>>
                       ELSE IF s \in live THEN Tail(waiting[s]) ELSE waiting[s]]

Next == Accept \/ Forward \/ Together

Spec == Init /\ [][Next]_<<waiting, over, merged>>
=============================================================================

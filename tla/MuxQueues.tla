------------------------------ MODULE MuxQueues ------------------------------
(***************************************************************************)
(* The queues of a multiplexer (Multiplexer::mMux) and the three decisions *)
(* every multiplexer takes on them: may a packet be released (checkMux),   *)
(* of which stream (selectMux, in the two classes std-multiplexer and      *)
(* unit-multiplexer), and what becomes of the control packets (resetMux).  *)
(* A stream enters the table with its first packet and leaves it with its  *)
(* end packet. iMarker is the number of control packets in a queue: the    *)
(* code counts them in receive() and resetMux(), here they are looked up.  *)
(***************************************************************************)
EXTENDS Integers, Sequences, FiniteSets, SequencesExt

CONSTANTS
  Streams,   \* the streams (xstream), numbers: the order of the map
  Required,  \* the parameter "streams": -1, or how many streams there must be
  Delay      \* iDelay: the time a queue must span before it is ready

ASSUME MuxAssumption ==
  /\ IsFiniteSet(Streams) /\ Streams \subseteq Nat
  /\ Required \in Int /\ Delay \in Nat

VARIABLE mux  \* mMux: for each stream in the table its queue, a sequence of packets

None == -1
Control(p) == p.type # "media"
HasControl(q) == \E i \in DOMAIN q : Control(q[i])
Held(m, s) == IF s \in DOMAIN m THEN m[s] ELSE <<>>

(* receive(), receive_reset() and receive_end(): a stream's first packet    *)
(* creates its queue.                                                       *)
Received(m, s, p) == [t \in DOMAIN m \cup {s} |->
                        IF t = s THEN Append(Held(m, s), p) ELSE m[t]]

(* Faulty variant of CheckMux: a stream that has not started yet is ignored. *)
CheckMuxLate(m) ==
  /\ DOMAIN m # {}
  /\ \A s \in DOMAIN m : /\ m[s] # <<>>
                         /\ \/ Last(m[s]).dts - Head(m[s]).dts >= Delay
                            \/ HasControl(m[s])

(* Faulty variant of CheckMux: a control packet does not make a queue ready. *)
CheckMuxNoMarker(m) ==
  /\ DOMAIN m # {} /\ (Required > 0 => Cardinality(DOMAIN m) >= Required)
  /\ \A s \in DOMAIN m : m[s] # <<>> /\ Last(m[s]).dts - Head(m[s]).dts >= Delay

CheckMux(m) ==
  /\ DOMAIN m # {} /\ (Required > 0 => Cardinality(DOMAIN m) >= Required)
  /\ \A s \in DOMAIN m : /\ m[s] # <<>>
                         /\ \/ Last(m[s]).dts - Head(m[s]).dts >= Delay
                            \/ HasControl(m[s])

(* Streams whose queue has its control packet in front wait for the others. *)
MediaFirst(m) == {s \in DOMAIN m : ~Control(Head(m[s]))}

(* The lowest key, the first in the map among equals. The key is the field  *)
(* the class compares: dts (std, TS) or unitnumber (unit). The search       *)
(* starts from 0x7FFFFFFF, and the keys are taken to stay below it: beyond, *)
(* after 6.6 hours of timestamps, it finds none, and resetMux() throws.     *)
SelectMux(m) ==
  LET key(s) == Head(m[s]).key
      lowest == {s \in MediaFirst(m) : \A t \in MediaFirst(m) : key(s) <= key(t)}
  IN  IF lowest = {} THEN None
      ELSE CHOOSE s \in lowest : \A t \in lowest : s <= t

(* The unified control packet is that of the stream with the highest dts,   *)
(* of the last one in the map among equals.                                 *)
UnifiedOf(m) ==
  LET dts(s) == Head(m[s]).dts
      highest == {s \in DOMAIN m : \A t \in DOMAIN m : dts(t) <= dts(s)}
  IN  Head(m[CHOOSE s \in highest : \A t \in highest : t <= s])

(* An end takes its stream, and whatever follows it in the queue, away.     *)
AfterReset(m) == [s \in {t \in DOMAIN m : Head(m[t]).type # "end"} |-> Tail(m[s])]
=============================================================================

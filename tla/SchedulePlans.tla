---------------------------- MODULE SchedulePlans ----------------------------
(***************************************************************************)
(* makeSchedule() of the schedulers: which packets at the front of vBuffer *)
(* form the next group, and at which time after the start each of them is  *)
(* sent. A packet is [dts, inc, frame, intra, layer0, size]: its decoding  *)
(* time, the duration of its frame, the frame's number, whether the frame  *)
(* is an I frame, whether it is in temporal layer 0, and its bytes. Times  *)
(* count units of which Ms make a millisecond (90 in the code): some plans *)
(* are exact, others are rounded down to milliseconds.                     *)
(***************************************************************************)
EXTENDS Integers, Sequences, FiniteSetsExt, SequencesExt

CONSTANTS
  Ms,      \* time units in a millisecond
  Window   \* the window scheduler's window, in units

ASSUME PlanAssumption == Ms \in Nat \ {0} /\ Window \in Nat \ {0}

Variants == {"basic", "frame", "gop", "svc", "window"}

(* Packet b[i] continues the group that starts with b[1].                   *)
Continues(variant, b, i) ==
  CASE variant = "basic"  -> b[i].dts = b[1].dts
    [] variant = "frame"  -> b[i].frame = b[1].frame
    [] variant = "gop"    -> b[i].intra => b[i].frame = b[1].frame
    [] variant = "svc"    -> b[i].layer0 => b[i].frame <= b[i - 1].frame
    [] variant = "window" -> b[i].dts - b[1].dts < Window

GroupLength(variant, b) ==
  Max({k \in 1..Len(b) : \A i \in 2..k : Continues(variant, b, i)})

Group(variant, b) == SubSeq(b, 1, GroupLength(variant, b))

Floor(x) == (x \div Ms) * Ms

(* The bytes of the first k packets of a group, summed up one by one.       *)
Bytes(g, k) ==
  LET sum[i \in 0..Len(g)] == IF i = 0 THEN 0 ELSE sum[i - 1] + g[i].size IN sum[k]
Total(g) == IF Bytes(g, Len(g)) = 0 THEN 1 ELSE Bytes(g, Len(g))

(* The duration over which the group's bytes are spread.                    *)
Span(variant, g) ==
  LET whole == Last(g).dts + Last(g).inc - g[1].dts IN
  CASE variant = "basic"  -> 0
    [] variant = "frame"  -> Last(g).inc
    [] variant \in {"gop", "svc"} -> Max({Ms, Floor(whole)})
    [] variant = "window" -> Floor(whole)

(* Faulty variant of Offset: the group starts at its last frame. *)
OffsetOfLast(variant, g, base) == Last(g).dts - base

(* When the group starts: iBase is the smallest dts received.               *)
Offset(variant, g, base) ==
  IF variant \in {"basic", "frame"} THEN g[1].dts - base ELSE Floor(g[1].dts - base)

(* Faulty variant of Share: iSize is set to a packet's size, not increased by it. *)
ShareOfPacket(variant, g, k) == (Span(variant, g) * g[k].size) \div Total(g)

Share(variant, g, k) ==
  LET x == Span(variant, g) * Bytes(g, k - 1) IN
  IF variant \in {"gop", "svc"} THEN Floor(x \div Total(g)) ELSE x \div Total(g)

Plan(variant, b, base) ==
  LET g == Group(variant, b) IN
  [k \in DOMAIN g |-> [pkt |-> g[k], at |-> Offset(variant, g, base) + Share(variant, g, k)]]
=============================================================================

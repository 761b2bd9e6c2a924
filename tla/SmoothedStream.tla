--------------------------- MODULE SmoothedStream ---------------------------
(***************************************************************************)
(* A stream that passes through one of the schedulers, as a succession of  *)
(* plans: packets arrive in decoding order, and whenever the last plan is  *)
(* sent makeSchedule() plans a group of what is in vBuffer at that moment, *)
(* which may be a part of a GOP, of a pyramid or of a window. (The code's  *)
(* comments ask for a delay that is longer than a group; what is assumed   *)
(* here is weaker: the packets of one frame arrive together.) Init, Next   *)
(* and the like are StreamInit, StreamNext: SchedulerProofs extends        *)
(* this module and Scheduler both.                                         *)
(***************************************************************************)
EXTENDS SchedulePlans, SchedulerInput

CONSTANTS
  Incs,     \* durations of a frame
  Sizes,    \* bytes of a packet
  Length    \* bound: the packets of the stream, at most two to a frame

(* Where packets carry no bytes (reset and end packets), a frame lasts at   *)
(* least a millisecond: below that gop and svc would plan past its end.     *)
ASSUME StreamAssumption ==
  /\ Incs \subseteq Nat /\ Sizes \subseteq Nat /\ Length \in Nat
  /\ 0 \in Sizes => \A inc \in Incs : inc >= Ms

VARIABLES
  variant,  \* which scheduler this is
  count,    \* how many packets have arrived
  newest,   \* the last packet that arrived
  plan,     \* the last plan
  before    \* when the plan before it ended

streamVars == <<variant, count, newest, vBuffer, iBase, plan, before>>

None == [dts |-> 0, inc |-> 0, frame |-> 0, intra |-> FALSE, layer0 |-> FALSE, size |-> 0]

StreamInit ==
  /\ variant \in Variants
  /\ count = 0 /\ newest = None
  /\ InputInit
  /\ plan = <<>> /\ before = 0

(* The packets of the next frame, whose dts continues the last frame's.     *)
PacketsOfFrame(inc, intra, layer0, size) ==
  [k \in DOMAIN size |->
    [dts |-> newest.dts + newest.inc, inc |-> inc, frame |-> newest.frame + 1,
     intra |-> intra, layer0 |-> layer0, size |-> size[k]]]

ReceivePackets(frame) ==
  /\ count' = count + Len(frame) /\ newest' = Last(frame)
  /\ vBuffer' = vBuffer \o frame
  /\ iBase' = BaseWith(frame[1].dts)
  /\ UNCHANGED <<variant, plan, before>>

ReceiveFrame ==
  \E inc \in Incs, intra, layer0 \in BOOLEAN, n \in 1..2 : \E size \in [1..n -> Sizes] :
    /\ count + n <= Length
    /\ intra => layer0
    /\ ReceivePackets(PacketsOfFrame(inc, intra, layer0, size))

MakePlan ==
  /\ vBuffer # <<>>
  /\ plan' = Plan(variant, vBuffer, iBase)
  /\ vBuffer' = SubSeq(vBuffer, Len(plan') + 1, Len(vBuffer))
  /\ before' = IF plan = <<>> THEN 0 ELSE Last(plan).at
  /\ UNCHANGED <<variant, count, newest, iBase>>

Complete == count = Length /\ vBuffer = <<>> /\ UNCHANGED streamVars

StreamNext == ReceiveFrame \/ MakePlan \/ Complete

StreamSpec == StreamInit /\ [][StreamNext]_streamVars

-----------------------------------------------------------------------------
(* The values every variable ranges over; the buffer and the plan never     *)
(* hold more than has arrived.                                              *)
StreamTypeOK ==
  /\ variant \in Variants /\ count \in 0..Length /\ before \in Nat
  /\ iBase \in Nat \cup {-1}
  /\ Len(vBuffer) + Len(plan) <= count
  /\ \A k \in DOMAIN plan : plan[k].at \in Nat

(* The times rise within a plan and from one plan to the next, however      *)
(* little of a group was in the buffer when it was planned and although     *)
(* offset and duration are rounded to milliseconds: smoothing never makes   *)
(* a packet wait for one that is sent after it.                             *)
TimesRise ==
  \A k \in DOMAIN plan : (IF k = 1 THEN before ELSE plan[k - 1].at) <= plan[k].at

(* The smoothing stays inside the group: no packet is sent before the       *)
(* millisecond in which its group starts, nor after the end of the group's  *)
(* last frame.                                                              *)
StaysInGroup ==
  \A k \in DOMAIN plan :
    /\ Floor(plan[1].pkt.dts - iBase) <= plan[k].at
    /\ plan[k].at <= Last(plan).pkt.dts + Last(plan).pkt.inc - iBase
=============================================================================

--------------------------- MODULE SchedulerInput ---------------------------
(***************************************************************************)
(* What every scheduler keeps of the packets that receive() gives it and   *)
(* makeSchedule() has not planned yet. In module Scheduler a packet is     *)
(* [id, dts], in module SmoothedStream it has the parts that a plan uses.  *)
(***************************************************************************)
EXTENDS Integers, Sequences

VARIABLES
  vBuffer,  \* packets that are not planned yet
  iBase     \* the smallest dts received, -1 before the first packet

InputInit == vBuffer = <<>> /\ iBase = -1

(* iBase once a packet with this dts has come.                              *)
BaseWith(dts) == IF iBase < 0 \/ dts < iBase THEN dts ELSE iBase
=============================================================================

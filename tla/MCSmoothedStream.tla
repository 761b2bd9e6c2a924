-------------------------- MODULE MCSmoothedStream --------------------------
(* All streams of Length packets through every scheduler: frames of exactly *)
(* one millisecond (3 units) and of a millisecond and a part of the next,   *)
(* packets with bytes and without (reset and end packets carry none).       *)
EXTENDS SmoothedStream
=============================================================================

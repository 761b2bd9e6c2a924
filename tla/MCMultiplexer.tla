--------------------------- MODULE MCMultiplexer ---------------------------
(***************************************************************************)
(* Multiplexer with two streams. Each is reset at most once and ends when  *)
(* it likes, so that one may end when the other is reset.                  *)
(***************************************************************************)
EXTENDS Multiplexer

TwoStreams == {1, 2}
=============================================================================

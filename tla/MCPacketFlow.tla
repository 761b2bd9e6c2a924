---------------------------- MODULE MCPacketFlow ----------------------------
(***************************************************************************)
(* PacketFlow on two graphs.                                               *)
(*   Join: a threaded capture and a scheduled file reader feed one         *)
(*     multiplexer, which feeds a threaded transcoder, which feeds two     *)
(*     sinks: both kinds of calls, a join of two threads and a fan-out.    *)
(*   Two: two threaded readers, audio and video, and one multiplexer,      *)
(*     which is initialised before video, and a writer, after it: the      *)
(*     startup that may block (StartupEnds).                               *)
(***************************************************************************)
EXTENDS PacketFlow

JoinComps == {"capture", "file", "mux", "encode", "view", "write"}
JoinRoute == [c \in JoinComps |->
  CASE c \in {"capture", "file"} -> <<"mux">>
    [] c = "mux" -> <<"encode">>
    [] c = "encode" -> <<"view", "write">>
    [] OTHER -> <<>>]
JoinOrder == <<"capture", "encode", "file", "mux", "view", "write">>

(* One path leads from either source to any component.                      *)
JoinDepth == [c \in JoinComps |->
  CASE c \in {"capture", "file"} -> 0 [] c = "mux" -> 1 [] c = "encode" -> 2 [] OTHER -> 3]
ASSUME JoinIsTree == \A s \in Sources : Tree(s, Reached(s), JoinDepth)

TwoComps == {"audio", "mux", "video", "writer"}
TwoRoute == [c \in TwoComps |->
  CASE c \in {"audio", "video"} -> <<"mux">>
    [] c = "mux" -> <<"writer">> [] OTHER -> <<>>]
TwoOrder == <<"audio", "mux", "video", "writer">>
=============================================================================

--------------------------- MODULE MCChunkStream ----------------------------
(***************************************************************************)
(* A session that answers, plays and answers again, while the server's     *)
(* thread pings and sends audio and video; one with a seek, which may come *)
(* in the middle of a frame; and one whose timestamps reach the extended   *)
(* range.                                                                  *)
(***************************************************************************)
EXTENDS ChunkStream
Message(cs, kind, len, ts) == [cs |-> cs, kind |-> kind, len |-> len, ts |-> ts]
Frame(cs, len, ts, n, flush) == Message(cs, "frame", len, ts) @@ [n |-> n, flush |-> flush, extra |-> FALSE]

Answers == <<Message(3, "result", 3, 0), Message(3, "result", 3, 0)>>
Ordinary ==
  [before |-> Answers,
   replies |-> <<Message(4, "play", 4, 0)>>,
   after  |-> <<Message(4, "length", 4, 2), Message(4, "length", 4, 0)>>,
   notes  |-> <<Message(2, "ping", 1, 0), Message(2, "ping", 1, 0)>>,
   frames |-> <<Frame(5, 4, 1, 0, FALSE), Frame(6, 2, 1, 0, FALSE), Frame(5, 4, 2, 1, FALSE),
                Frame(5, 4, 3, 3, FALSE)>>]
Seeking ==
  [before |-> <<>>, replies |-> <<>>, after |-> <<Message(4, "length", 4, 0)>>, notes |-> <<Message(4, "status", 4, 0)>>,
   frames |-> <<Frame(5, 2, 1, 0, FALSE), Frame(5, 2, 2, 1, FALSE), Frame(5, 2, 4, 3, FALSE), Frame(6, 4, 4, 3, FALSE),
                Frame(5, 4, 6, 5, FALSE), Frame(5, 2, 3, 1, TRUE), Frame(5, 3, 4, 3, FALSE)>>]
Long ==
  [before |-> <<>>, replies |-> <<>>, after |-> <<>>, notes |-> <<Message(4, "status", 1, 7)>>,
   frames |-> <<Frame(5, 1, 6, 0, FALSE), Frame(5, 1, 7, 1, FALSE), Frame(5, 1, 8, 3, FALSE)>>]
SomeLoads == {Ordinary, Seeking, Long}
=============================================================================

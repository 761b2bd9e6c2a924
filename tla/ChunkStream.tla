---------------------------- MODULE ChunkStream -----------------------------
(***************************************************************************)
(* One direction of an RTMP connection between two programs of this code:  *)
(* from an RTMP session to an RTMP client, both RTMPChunkStreams. Messages *)
(* are cut into chunks; a chunk stream's headers are compressed against    *)
(* the header before (the chunk's format, "fmt"). The session writes to    *)
(* its socket from two threads: its own, which answers commands, and the   *)
(* server's, which sends the chunks the RTMP-packetizers made of the media *)
(* frames, and notifications. sendMessage() is under oSendMutex, the media *)
(* are written without it, and a write may be done in parts. The chunks of *)
(* a frame wait in the frame scheduler and leave it one by one; a seek,    *)
(* which the server's thread handles between two of its passes, drops      *)
(* those that are still there.                                             *)
(*                                                                         *)
(* A byte of payload, and a whole header, is one unit of the socket. The   *)
(* acknowledgements in the other direction are left out.                   *)
(***************************************************************************)
EXTENDS Integers, Sequences, SequencesExt, FiniteSets

CONSTANTS
  Room,       \* the units the socket holds
  FirstSize,  \* the chunk size both sides start with (128)
  PlaySize,   \* the chunk size of "play" and of the packetizers (1024)
  Wrap,       \* timestamps are written modulo Wrap (2^24)
  Refresh,    \* every so many frames have a full header
  Late,       \* how often a read may run into its time-out
  Loads       \* what is sent: [before, replies, after, notes, frames]

ASSUME ChunkAssumption ==
  {Room, FirstSize, PlaySize, Wrap, Refresh} \subseteq Nat \ {0} /\ Late \in Nat /\ FirstSize <= PlaySize

Own == "own"         \* the session's thread, mainThreadA()
Server == "server"   \* the server's thread: process(), receive()
Writers == {Own, Server}

VARIABLES
  todo,            \* what is still to be sent, see Init
  playing,         \* "no", "sized" (the chunk size is sent), "yes"
  iSelfChunkSize,  \* of the session
  mSendChunk,      \* the header of the last message, per chunk stream
  packetizer,      \* the RTMPPacketizers, per chunk stream
  vBuffer,         \* of the frame scheduler: chunks [m, first, units]
  writes,          \* per thread: the calls of sendSmart() under way
  begun,           \* per thread: its first write is done in part
  holder,          \* the thread that holds oSendMutex, or "none"
  wire,            \* the units in the socket
  rx,              \* where receiveChunk() is
  iOtherChunkSize, \* of the client
  mReceiveChunk,   \* the message under way, per chunk stream
  sent, arrived,   \* per chunk stream: the messages and their timestamps
  late,            \* reads that have returned with a part
  torn,            \* a write was done inside another one
  resized,         \* a message was cut to a size not announced yet
  cut              \* the chunk streams on which a seek dropped the rest of a message

sender == <<todo, playing, iSelfChunkSize, mSendChunk, packetizer, vBuffer, sent, cut>>
socket == <<writes, begun, holder, wire, torn>>
receiver == <<rx, iOtherChunkSize, mReceiveChunk, arrived, late>>
vars == <<sender, socket, receiver, resized>>

(* Chunk streams: 2 control, 3 and 4 commands, 5 video, 6 audio. A message  *)
(* is [cs, kind, len, ts], of the kind "size" for the chunk size.           *)
ChunkStreams == 2..6
NoHeader == [len |-> 0, kind |-> "none"]
NoMessage == [new |-> TRUE, len |-> 0, kind |-> "none", ts |-> 0, delta |-> 0, buf |-> <<>>]
Fresh == [size |-> -1, delta |-> 0, summed |-> 0, reset |-> TRUE]
Header == [state |-> "head", cs |-> 0, left |-> 0]

Init ==
  /\ todo \in Loads /\ playing = "no"
  /\ iSelfChunkSize = FirstSize /\ iOtherChunkSize = FirstSize
  /\ mSendChunk = [c \in ChunkStreams |-> NoHeader] /\ packetizer = [c \in ChunkStreams |-> Fresh]
  /\ vBuffer = <<>> /\ cut = {}
  /\ writes = [w \in Writers |-> <<>>] /\ begun = [w \in Writers |-> FALSE]
  /\ holder = "none" /\ wire = <<>> /\ torn = FALSE /\ resized = FALSE /\ late = 0
  /\ rx = Header /\ mReceiveChunk = [c \in ChunkStreams |-> NoMessage]
  /\ sent = [c \in ChunkStreams |-> <<>>] /\ arrived = [c \in ChunkStreams |-> <<>>]

-----------------------------------------------------------------------------
(* The chunks of a message: a header and at most size units of payload; all *)
(* but the first have a header of format 3.                                 *)

Least(a, b) == IF a < b THEN a ELSE b
HeaderOf(m, fmt, ts) == [unit |-> "head", cs |-> m.cs, fmt |-> fmt, ts |-> ts % Wrap, len |-> m.len, kind |-> m.kind]
Byte(m, i) == [unit |-> "byte", of |-> m, i |-> i]
Chunk(m, fmt, ts, from, size) ==
  <<HeaderOf(m, IF from = 0 THEN fmt ELSE 3, ts)>> \o [i \in 1..Least(size, m.len - from) |-> Byte(m, from + i)]

(* Faulty variant of Chunks: a last chunk that is not full is left out. *)
ChunksFull(m, fmt, ts, k, size) ==
  [j \in 1..((m.len - k * FirstSize) \div size) |-> Chunk(m, fmt, ts, k * FirstSize + (j - 1) * size, size)]

(* The size is read for every chunk: k of them may be cut to the first size *)
(* before another thread sets the new one.                                  *)
Chunks(m, fmt, ts, k, size) ==
  LET rest == m.len - k * FirstSize
  IN  [j \in 1..k |-> Chunk(m, fmt, ts, (j - 1) * FirstSize, FirstSize)]
      \o [j \in 1..((rest + size - 1) \div size) |-> Chunk(m, fmt, ts, k * FirstSize + (j - 1) * size, size)]

(* Faulty variant of Format: the type of the message is not compared. *)
FormatByLength(m) ==
  LET last == mSendChunk[m.cs] IN
  CASE last.len = 0 \/ m.ts > 0 -> 0
    [] last.len > 0 /\ m.ts = 0 -> 3

(* sendMessage(): a timestamp of 0 means "as before".                       *)
Format(m) ==
  LET last == mSendChunk[m.cs] IN
  CASE last.len = 0 \/ m.ts > 0 -> 0
    [] last.len > 0 /\ m.ts = 0 /\ last.kind = m.kind /\ last.len = m.len -> 3
    [] OTHER -> 1

(* A message is one write, made of all its chunks, under the lock.          *)
SendMessage(w, m, k, size) ==
  /\ writes[w] = <<>> /\ holder = "none"
  /\ holder' = w
  /\ writes' = [writes EXCEPT ![w] = <<FlattenSeq(Chunks(m, Format(m), m.ts, k, size))>>]
  /\ mSendChunk' = [mSendChunk EXCEPT ![m.cs] = [len |-> m.len, kind |-> m.kind]]
  /\ sent' = [sent EXCEPT ![m.cs] = Append(@, m)]
  /\ UNCHANGED <<packetizer, vBuffer, cut, begun, wire, torn, receiver>>

(* The session's thread: the answers before "play"; then the chunk size,    *)
(* which it sets before it takes the lock; then the replies to "play"; then *)
(* the streamer plays, and later commands are answered beside the media.    *)
Answer(phase, queue, rest) ==
  /\ playing = phase /\ queue # <<>> /\ SendMessage(Own, Head(queue), 0, iSelfChunkSize)
  /\ todo' = rest
  /\ UNCHANGED <<playing, iSelfChunkSize, resized>>
AnswerCommand ==
  \/ Answer("no", todo.before, [todo EXCEPT !.before = Tail(@)])
  \/ Answer("sized", todo.replies, [todo EXCEPT !.replies = Tail(@)])
  \/ Answer("yes", todo.after, [todo EXCEPT !.after = Tail(@)])

SizeMessage == [cs |-> 2, kind |-> "size", len |-> 1, ts |-> 0]
ReadyToResize == playing = "no" /\ todo.before = <<>> /\ iSelfChunkSize # PlaySize /\ writes[Own] = <<>>
SetChunkSize ==
  /\ ReadyToResize
  /\ iSelfChunkSize' = PlaySize
  /\ UNCHANGED <<todo, playing, mSendChunk, packetizer, vBuffer, sent, cut, socket, receiver, resized>>

SendSetChunkSize ==
  /\ playing = "no" /\ iSelfChunkSize = PlaySize
  /\ SendMessage(Own, SizeMessage, 0, iSelfChunkSize)
  /\ playing' = "sized"
  /\ UNCHANGED <<todo, iSelfChunkSize, resized>>

StreamPlay ==
  /\ playing = "sized" /\ todo.replies = <<>> /\ writes[Own] = <<>>
  /\ playing' = "yes"
  /\ UNCHANGED <<todo, iSelfChunkSize, mSendChunk, packetizer, vBuffer, sent, cut, socket, receiver, resized>>

(* The server's thread: a ping, a notification, the report of an error. The *)
(* session's thread may set the chunk size while the message is cut.        *)
Resizing == playing = "no" /\ iSelfChunkSize = PlaySize
Note(k, size) ==
  /\ todo.notes # <<>> /\ SendMessage(Server, Head(todo.notes), k, size)
  /\ todo' = [todo EXCEPT !.notes = Tail(@)]
  /\ UNCHANGED playing
Notify ==
  /\ Note(0, iSelfChunkSize)
  /\ resized' = (resized \/ (Resizing /\ Head(todo.notes).len > FirstSize))
  /\ UNCHANGED iSelfChunkSize
NotifyResized ==
  /\ ReadyToResize /\ todo.notes # <<>> /\ iSelfChunkSize' = PlaySize
  /\ \E k \in 1..(Head(todo.notes).len - 1) \div FirstSize :
       /\ Note(k, PlaySize)
       /\ resized' = (resized \/ Head(todo.notes).len - k * FirstSize > FirstSize)

-----------------------------------------------------------------------------
(* RTMPPacketizer: a frame is [cs, kind, len, ts, n, flush, extra]; the     *)
(* header is full after a reset and every Refresh frames; it leaves out the *)
(* length when it is the same as before, and the timestamp when its delta   *)
(* is.                                                                      *)

FullHeader(p, f) == p.reset \/ (f.n # 0 /\ f.n % Refresh = 0)

(* Faulty variant of MediaFormat: a new delta is not written. *)
MediaFormatNoDelta(p, f) ==
  CASE FullHeader(p, f) -> 0
    [] ~FullHeader(p, f) /\ p.size # f.len -> 1
    [] OTHER -> 3

MediaFormat(p, f) ==
  CASE FullHeader(p, f) -> 0
    [] ~FullHeader(p, f) /\ p.size # f.len -> 1
    [] ~FullHeader(p, f) /\ p.size = f.len /\ f.ts - p.summed # p.delta -> 2
    [] OTHER -> 3
Packed(p, f) ==
  [size |-> f.len, summed |-> f.ts, reset |-> FALSE,
   delta |-> IF MediaFormat(p, f) = 0 THEN -1 ELSE f.ts - p.summed]
Pack(p, f) ==
  LET fmt == MediaFormat(p, f)
      chunks == Chunks(f, fmt, IF fmt = 0 THEN f.ts ELSE f.ts - p.summed, 0, PlaySize)
  IN  [j \in DOMAIN chunks |-> [m |-> f, first |-> j = 1, units |-> chunks[j]]]

(* After a reset the codec's global header goes before the frame.           *)
Extra(f) == [f EXCEPT !.extra = TRUE, !.len = 1]

(* A frame is packed, and its chunks wait in the scheduler. The scheduler   *)
(* holds the chunks of many frames; what is packed does not depend on when, *)
(* and a flush resets the packetizers too, so one frame at a time is enough. *)
PackFrame ==
  /\ playing = "yes" /\ todo.frames # <<>> /\ vBuffer = <<>> /\ writes[Server] = <<>>
  /\ LET f == Head(todo.frames)
         p == packetizer[f.cs]
         q == IF p.reset THEN Packed(p, Extra(f)) ELSE p
     IN  /\ ~f.flush
         /\ vBuffer' = (IF p.reset THEN Pack(p, Extra(f)) ELSE <<>>) \o Pack(q, f)
         /\ packetizer' = [packetizer EXCEPT ![f.cs] = Packed(q, f)]
  /\ todo' = [todo EXCEPT !.frames = Tail(@)]
  /\ UNCHANGED <<playing, iSelfChunkSize, mSendChunk, sent, cut, socket, receiver, resized>>

(* A chunk whose time has come is a write of its own, without the lock.     *)
SendChunk ==
  /\ vBuffer # <<>> /\ writes[Server] = <<>>
  /\ LET chunk == Head(vBuffer)
     IN  /\ writes' = [writes EXCEPT ![Server] = <<chunk.units>>]
         /\ sent' = IF chunk.first THEN [sent EXCEPT ![chunk.m.cs] = Append(@, chunk.m)] ELSE sent
  /\ vBuffer' = Tail(vBuffer)
  /\ UNCHANGED <<todo, playing, iSelfChunkSize, mSendChunk, packetizer, cut, begun, holder, wire, torn, receiver, resized>>

(* A seek, between two chunks: it flushes the scheduler and the packetizers, *)
(* and the streamer goes on with the frames of another place (the ones from *)
(* the first that is marked "flush").                                       *)
Flushed(p) == [p EXCEPT !.size = -1, !.delta = -1, !.reset = TRUE]
StreamSeek ==
  /\ playing = "yes" /\ writes[Server] = <<>>
  /\ \E i \in DOMAIN todo.frames :
       /\ todo.frames[i].flush /\ \A j \in 1..(i - 1) : ~todo.frames[j].flush
       /\ todo' = [todo EXCEPT !.frames =
            <<[todo.frames[i] EXCEPT !.flush = FALSE]>> \o SubSeq(@, i + 1, Len(@))]
  /\ cut' = IF vBuffer # <<>> /\ ~Head(vBuffer).first THEN cut \cup {Head(vBuffer).m.cs} ELSE cut
  /\ vBuffer' = <<>>
  /\ packetizer' = [c \in ChunkStreams |-> IF c >= 5 THEN Flushed(packetizer[c]) ELSE packetizer[c]]
  /\ UNCHANGED <<playing, iSelfChunkSize, mSendChunk, sent, socket, receiver, resized>>

-----------------------------------------------------------------------------
(* sendSmart(): the socket takes what it has room for, and the rest later.  *)

Write(w) ==
  LET units == Head(writes[w])
      n == Least(Room - Len(wire), Len(units))
      done == n = Len(units)
  IN  /\ writes[w] # <<>> /\ n > 0
      /\ wire' = wire \o SubSeq(units, 1, n)
      /\ writes' = [writes EXCEPT ![w] = IF done THEN Tail(@) ELSE <<SubSeq(units, n + 1, Len(units))>> \o Tail(@)]
      /\ begun' = [begun EXCEPT ![w] = ~done]
      /\ holder' = IF done /\ holder = w THEN "none" ELSE holder
      /\ torn' = (torn \/ \E v \in Writers \ {w} : begun[v])
      /\ UNCHANGED <<sender, receiver, resized>>

-----------------------------------------------------------------------------
(* receiveChunk(). What is read where a header is expected is a header to   *)
(* the client: once it is anything else the client is out of step, and what *)
(* it makes of the rest is not followed ("lost").                           *)

Reading == rx.state \in {"head", "body"}
Stop(how) == rx' = [Header EXCEPT !.state = how]

(* The message under way, after the header h.                               *)
Continued(r, h) ==
  CASE h.fmt = 0 -> [r EXCEPT !.new = FALSE, !.ts = h.ts, !.delta = 0, !.len = h.len, !.kind = h.kind]
    [] h.fmt = 1 -> [r EXCEPT !.delta = h.ts, !.len = h.len, !.kind = h.kind]
    [] h.fmt = 2 -> [r EXCEPT !.delta = h.ts]
    [] OTHER -> r

(* A chunk of a new message before the last one is complete, or a first one *)
(* without a full header: the client gives the connection up.               *)
Refused(r, h) == (h.fmt < 3 /\ r.buf # <<>>) \/ (r.new /\ h.fmt > 0)

ReadHeader ==
  LET h == Head(wire) IN
  /\ rx.state = "head" /\ wire # <<>> /\ h.unit = "head"
  /\ LET r == Continued(mReceiveChunk[h.cs], h) IN
     /\ ~Refused(mReceiveChunk[h.cs], h) /\ r.ts < Wrap - 1
     /\ mReceiveChunk' = [mReceiveChunk EXCEPT ![h.cs] = r]
     /\ rx' = [state |-> "body", cs |-> h.cs, left |-> Least(r.len - Len(r.buf), iOtherChunkSize)]
  /\ wire' = Tail(wire)
  /\ UNCHANGED <<sender, writes, begun, holder, torn, iOtherChunkSize, arrived, late, resized>>

(* A timestamp of Wrap - 1 or more announces four bytes that were not sent. *)
ReadNonsense ==
  LET h == Head(wire) IN
  /\ rx.state = "head" /\ wire # <<>>
  /\ \/ h.unit = "byte"
     \/ /\ h.unit = "head"
        /\ \/ Refused(mReceiveChunk[h.cs], h)
           \/ Continued(mReceiveChunk[h.cs], h).ts >= Wrap - 1
  /\ Stop("lost")
  /\ UNCHANGED <<sender, socket, iOtherChunkSize, mReceiveChunk, arrived, late, resized>>

Whole(buf) == buf # <<>> /\ buf = [i \in 1..buf[1].of.len |-> Byte(buf[1].of, i)]

(* The units there are, up to the end of the chunk; at the end of the       *)
(* message its handler is called: the one of the chunk size sets the size.  *)
ReadPayload ==
  LET c == rx.cs
      n == Least(rx.left, Len(wire))
      r == mReceiveChunk[c]
      buf == r.buf \o SubSeq(wire, 1, n)
      complete == n = rx.left /\ Len(buf) = r.len
  IN  /\ rx.state = "body" /\ wire # <<>>
      /\ wire' = SubSeq(wire, n + 1, Len(wire))
      /\ IF (\E i \in 1..n : wire[i].unit = "head") \/ (complete /\ ~Whole(buf))
         THEN Stop("lost") /\ UNCHANGED <<mReceiveChunk, arrived, iOtherChunkSize>>
         ELSE /\ rx' = IF n = rx.left THEN Header ELSE [rx EXCEPT !.left = @ - n]
              /\ mReceiveChunk' = [mReceiveChunk EXCEPT ![c] =
                   IF complete THEN [r EXCEPT !.buf = <<>>, !.ts = @ + r.delta] ELSE [r EXCEPT !.buf = buf]]
              /\ arrived' = [arrived EXCEPT ![c] =
                   IF complete THEN Append(@, [buf[1].of EXCEPT !.ts = r.ts + r.delta, !.kind = r.kind]) ELSE @]
              /\ iOtherChunkSize' = IF complete /\ r.kind = "size" THEN PlaySize ELSE iOtherChunkSize
      /\ UNCHANGED <<sender, writes, begun, holder, torn, late, resized>>

(* A read whose time is over: with nothing new it throws and the connection *)
(* ends; with a part just received it returns as if it had all of it.       *)
ReadTimeout ==
  /\ Reading /\ wire = <<>> /\ late < Late
  /\ late' = late + 1 /\ Stop("closed")
  /\ UNCHANGED <<sender, socket, iOtherChunkSize, mReceiveChunk, arrived, resized>>

ReadPart ==
  /\ rx.state = "body" /\ wire # <<>> /\ Len(wire) < rx.left /\ late < Late
  /\ late' = late + 1 /\ Stop("lost") /\ wire' = <<>>
  /\ UNCHANGED <<sender, writes, begun, holder, torn, iOtherChunkSize, mReceiveChunk, arrived, resized>>

-----------------------------------------------------------------------------
Sent == /\ todo.after = <<>> /\ todo.notes = <<>> /\ todo.frames = <<>> /\ playing = "yes"
        /\ vBuffer = <<>>
        /\ \A w \in Writers : writes[w] = <<>>
Done == (~Reading \/ (Sent /\ wire = <<>>)) /\ UNCHANGED vars

Next ==
  \/ AnswerCommand \/ SetChunkSize \/ SendSetChunkSize \/ StreamPlay \/ Notify \/ NotifyResized
  \/ PackFrame \/ SendChunk \/ StreamSeek
  \/ \E w \in Writers : Write(w)
  \/ ReadHeader \/ ReadNonsense \/ ReadPayload \/ ReadTimeout \/ ReadPart
  \/ Done

Spec == Init /\ [][Next]_vars

(* The threads run and the client reads; the lock is granted in the end.    *)
Fairness ==
  /\ SF_vars(AnswerCommand) /\ WF_vars(SetChunkSize) /\ SF_vars(SendSetChunkSize) /\ WF_vars(StreamPlay)
  /\ SF_vars(Notify) /\ WF_vars(PackFrame) /\ WF_vars(SendChunk) /\ WF_vars(StreamSeek)
  /\ \A w \in Writers : SF_vars(Write(w))
  /\ WF_vars(ReadHeader) /\ WF_vars(ReadNonsense) /\ WF_vars(ReadPayload)
FairSpec == Spec /\ Fairness

-----------------------------------------------------------------------------
(* A timestamp is received that needs, or seems to need, four bytes more.   *)
Stretched == \E c \in ChunkStreams : \E i \in DOMAIN sent[c] : sent[c][i].ts >= Wrap - 1

(* The timestamp a message has for the client: 0 stands for the one before. *)
Meant(c, i) ==
  LET known == {j \in 1..i : c >= 5 \/ sent[c][j].ts > 0}
  IN  IF known = {} THEN 0 ELSE sent[c][CHOOSE j \in known : \A k \in known : k <= j].ts

(* What arrives on a chunk stream is what was sent on it, in order, with    *)
(* its length and its timestamp: the compressed headers mean the same to    *)
(* both sides, through the cuts, the change of the chunk size, the resets   *)
(* and the chunks of the other streams in between.                          *)
ArrivesAsSent ==
  ~Stretched => \A c \in ChunkStreams :
    /\ Len(arrived[c]) <= Len(sent[c])
    /\ \A i \in DOMAIN arrived[c] : arrived[c][i] = [sent[c][i] EXCEPT !.ts = Meant(c, i)]

(* The client loses its step only if one thread wrote inside another's      *)
(* write, if the server's thread sent a message of which a chunk had the    *)
(* new size when that was not announced yet, if a read ran out of its time  *)
(* in the middle of a chunk, if a timestamp reached the extended range,     *)
(* which is never written, or if a seek dropped the rest of a message: the  *)
(* next one on that chunk stream is refused.                                *)
InStep == rx.state = "lost" => torn \/ resized \/ late > 0 \/ Stretched \/ cut # {}

(* All that is sent arrives, whatever the two threads do, unless the client *)
(* has lost its step or the connection is closed; on a chunk stream with a  *)
(* message cut by a seek, all that came before that message.                *)
AllArrives ==
  <>(~Reading \/ (Sent /\ \A c \in ChunkStreams : Len(arrived[c]) = Len(sent[c]) - (IF c \in cut THEN 1 ELSE 0)))
=============================================================================

------------------------- MODULE RTMPSessionProofs -------------------------
(***************************************************************************)
(* Theorems about an RTMP session, for any stream, any number of commands  *)
(* and queues of any length: what a client is sent while it pauses, and    *)
(* after the answer to its "play" or its seek.                             *)
(***************************************************************************)
EXTENDS RTMPSession, TLAPS, SequenceTheorems, FiniteSetTheorems

-----------------------------------------------------------------------------
(* TypeOK, by the variables it is about, and what else they range over.     *)
Kinds == {"Play.Start", "Seek.Notify", "Unpause.Notify", "Pause.Notify", "media"}
Messages == [kind : Kinds, from : 0..MaxPlays, pos : -1..Last]
Packets == [from : Streamers, pos : 0..Last]
Sends == {"pausing", "pauseStream", "sending"}

Points ==
  /\ control \in {"idle", "created", "built", "noSeek", "noPauseAfterSeek", "reset", "answered",
                  "notify", "unpause", "unpauseFlag"}
  /\ thread \in {"receive", "pausing", "pauseStream", "sending", "process", "take", "taken", "flush",
                 "seek", "answer", "play", "played"}
  /\ commands \in 0..MaxCommands
Flags == bPause \in BOOLEAN /\ bPauseAfterSeek \in BOOLEAN /\ bUnpause \in BOOLEAN /\ rawPaused \in BOOLEAN
Table ==
  /\ table \subseteq Streamers /\ built \subseteq table
  /\ pStreamer \in 0..MaxPlays /\ pStreamerInterface \in 0..pStreamer
  /\ pStreamer > 0 => pStreamer \in table
  /\ control # "idle" => pStreamer > 0
Playback ==
  /\ seekTo \in -1..Last /\ iSeek \in -1..Last
  /\ paused \in [Streamers -> BOOLEAN] /\ position \in [Streamers -> 0..(Last + 1)]
Data ==
  /\ vPacketQueue \in Seq(Packets) /\ sent \in Seq(Messages)
  /\ thread \in Sends => packet \in Packets

Typed == Points /\ Flags /\ Table /\ Playback /\ Data

(* The parts are more than TypeOK.                                          *)
LEMMA TypedIsOK == Typed => TypeOK
BY DEF Typed, TypeOK, Points, Flags, Table, Playback, Data, Packets

(* The steps of the control thread and those of the privileged thread.      *)
Control ==
  \/ PlayCreate \/ PlayBuild \/ PlayReset \/ PlayResetAfterSeek \/ PlayResetPause \/ PlayAnswer \/ PlayStart
  \/ Pause \/ PauseNotify \/ Unpause \/ UnpauseSeek \/ UnpauseFlag \/ Seek \/ PauseRaw
Streams == \E s \in Streamers : Stream(s)

(* A step of the session is one of either.                                  *)
LEMMA Steps == Next <=> Control \/ ThreadStep \/ Streams
BY DEF Next, ControlStep, PlaySteps, ThreadStep, SeekSteps, Control, Streams

(* Where the threads are.                                                   *)
LEMMA PointsKept == ASSUME Points, Next PROVE Points'
<1>1. control' \in {"idle", "created", "built", "noSeek", "noPauseAfterSeek", "reset", "answered",
               "notify", "unpause", "unpauseFlag"}
  BY DEF Points, Next, ControlStep, PlaySteps, ThreadStep, SeekSteps, Commanded, PlayCreate,
     PlayBuild, PlayReset, PlayResetAfterSeek, PlayResetPause, PlayAnswer, PlayStart, Pause,
     PauseNotify, Unpause, UnpauseSeek, UnpauseFlag, Seek, PauseRaw, Receive, PauseAfterFrame,
     PauseStream, Send, BeginPass, Stream, EndPass, TakeSeek, ClearSeek, SeekFlush, SeekStream,
     SeekAnswer, SeekPlay, SeekDone
<1>2. thread' \in {"receive", "pausing", "pauseStream", "sending", "process", "take", "taken", "flush",
                 "seek", "answer", "play", "played"}
  BY DEF Points, Next, ControlStep, PlaySteps, ThreadStep, SeekSteps, mine, PlayCreate, PlayBuild,
     PlayReset, PlayResetAfterSeek, PlayResetPause, PlayAnswer, PlayStart, Pause, PauseNotify,
     Unpause, UnpauseSeek, UnpauseFlag, Seek, PauseRaw, Receive, PauseAfterFrame, PauseStream, Send,
     BeginPass, Stream, EndPass, TakeSeek, ClearSeek, SeekFlush, SeekStream, SeekAnswer, SeekPlay,
     SeekDone
<1>3. commands' = commands \/ (commands < MaxCommands /\ commands' = commands + 1)
  BY DEF Next, ControlStep, PlaySteps, ThreadStep, SeekSteps, Commanded, PlayCreate, PlayBuild,
     PlayReset, PlayResetAfterSeek, PlayResetPause, PlayAnswer, PlayStart, Pause, PauseNotify,
     Unpause, UnpauseSeek, UnpauseFlag, Seek, PauseRaw, Receive, PauseAfterFrame, PauseStream, Send,
     BeginPass, Stream, EndPass, TakeSeek, ClearSeek, SeekFlush, SeekStream, SeekAnswer, SeekPlay,
     SeekDone
<1>4. commands' \in 0..MaxCommands
  BY <1>3, SessionAssumption DEF Points
<1> QED BY <1>1, <1>2, <1>4 DEF Points

(* The flags the threads share.                                             *)
LEMMA FlagsKept == ASSUME Flags, Next PROVE Flags'
<1>1. bPause' \in BOOLEAN /\ bPauseAfterSeek' \in BOOLEAN /\ bUnpause' \in BOOLEAN
  BY DEF Flags, Next, ControlStep, PlaySteps, ThreadStep, SeekSteps, flags, PlayCreate, PlayBuild,
     PlayReset, PlayResetAfterSeek, PlayResetPause, PlayAnswer, PlayStart, Pause, PauseNotify,
     Unpause, UnpauseSeek, UnpauseFlag, Seek, PauseRaw, Receive, PauseAfterFrame, PauseStream, Send,
     BeginPass, Stream, EndPass, TakeSeek, ClearSeek, SeekFlush, SeekStream, SeekAnswer, SeekPlay,
     SeekDone
<1>2. rawPaused' \in BOOLEAN
  BY DEF Flags, Next, ControlStep, PlaySteps, ThreadStep, SeekSteps, PlayCreate, PlayBuild,
     PlayReset, PlayResetAfterSeek, PlayResetPause, PlayAnswer, PlayStart, Pause, PauseNotify,
     Unpause, UnpauseSeek, UnpauseFlag, Seek, PauseRaw, Receive, PauseAfterFrame, PauseStream, Send,
     BeginPass, Stream, EndPass, TakeSeek, ClearSeek, SeekFlush, SeekStream, SeekAnswer, SeekPlay,
     SeekDone
<1> QED BY <1>1, <1>2 DEF Flags

(* The streamers.                                                           *)
LEMMA TableKept == ASSUME Table, Next PROVE Table'
<1>1. CASE PlayCreate
  <2>1. /\ pStreamer < MaxPlays /\ pStreamer' = pStreamer + 1 /\ table' = table \cup {pStreamer + 1}
        /\ pStreamerInterface' = pStreamerInterface /\ built' = built
    BY <1>1 DEF PlayCreate
  <2>2. pStreamer + 1 \in Streamers /\ pStreamer + 1 \in 0..MaxPlays /\ pStreamerInterface \in 0..pStreamer + 1
    BY <2>1, SessionAssumption DEF Table, Streamers
  <2> QED BY <2>1, <2>2 DEF Table
<1>2. CASE PlayBuild
  <2>1. /\ built' = built \cup {pStreamer} /\ pStreamerInterface' = pStreamer /\ table' = table /\ pStreamer' = pStreamer
        /\ control = "created"
    BY <1>2 DEF PlayBuild
  <2> QED BY <2>1 DEF Table
<1>3. CASE ~PlayCreate /\ ~PlayBuild
  <2>1. UNCHANGED streamers
    BY <1>3 DEF Next, ControlStep, PlaySteps, ThreadStep, SeekSteps, PlayReset, PlayResetAfterSeek,
       PlayResetPause, PlayAnswer, PlayStart, Pause, PauseNotify, Unpause, UnpauseSeek, UnpauseFlag,
       Seek, PauseRaw, Receive, PauseAfterFrame, PauseStream, Send, BeginPass, Stream, EndPass,
       TakeSeek, ClearSeek, SeekFlush, SeekStream, SeekAnswer, SeekPlay, SeekDone
  <2>2. control' = "idle" \/ control' = control \/ control # "idle" \/ pStreamer > 0
    BY <1>3 DEF Next, ControlStep, PlaySteps, ThreadStep, SeekSteps, Commanded, PlayReset,
       PlayResetAfterSeek, PlayResetPause, PlayAnswer, PlayStart, Pause, PauseNotify, Unpause,
       UnpauseSeek, UnpauseFlag, Seek, PauseRaw, Receive, PauseAfterFrame, PauseStream, Send,
       BeginPass, Stream, EndPass, TakeSeek, ClearSeek, SeekFlush, SeekStream, SeekAnswer, SeekPlay,
       SeekDone
  <2> QED BY <2>1, <2>2 DEF Table, streamers
<1> QED BY <1>1, <1>2, <1>3
(* The flags of the schedulers and the positions; what a seek asks for.     *)
LEMMA PlaybackKept == ASSUME Table, Playback, Next PROVE Playback'
<1>1. paused' \in [Streamers -> BOOLEAN]
  <2>1. CASE PauseRaw
    BY <2>1 DEF PauseRaw, SetPaused, Playback
  <2>2. CASE ~PauseRaw
    <3>1. paused' = paused \/ \E s \in {pStreamer, pStreamerInterface}, b \in BOOLEAN : paused' = [paused EXCEPT ![s] = b]
      BY <2>2 DEF Next, ControlStep, PlaySteps, ThreadStep, SeekSteps, SetPaused, playback,
         PlayCreate, PlayBuild, PlayReset, PlayResetAfterSeek, PlayResetPause, PlayAnswer,
         PlayStart, Pause, PauseNotify, Unpause, UnpauseSeek, UnpauseFlag, Seek, Receive,
         PauseAfterFrame, PauseStream, Send, BeginPass, Stream, EndPass, TakeSeek, ClearSeek,
         SeekFlush, SeekStream, SeekAnswer, SeekPlay, SeekDone
    <3> QED BY <3>1 DEF Playback
  <2> QED BY <2>1, <2>2
<1>2. position' \in [Streamers -> 0..(Last + 1)]
  <2>1. CASE Streams
    <3>1. PICK s \in Streamers : position[s] <= Last /\ position' = [position EXCEPT ![s] = @ + 1]
      BY <2>1 DEF Streams, Stream
    <3>2. position[s] \in 0..(Last + 1)
      BY DEF Playback
    <3>3. position[s] + 1 \in 0..(Last + 1)
      BY <3>1, <3>2, SessionAssumption
    <3> QED BY <3>1, <3>3 DEF Playback
  <2>2. CASE SeekStream
    <3>1. PICK n \in 0..(Last + 1) : position' = [position EXCEPT ![pStreamerInterface] = n]
      <4>1. (IF seekTo < 0 THEN 0 ELSE seekTo) \in 0..(Last + 1)
        BY SessionAssumption DEF Playback
      <4> QED BY <2>2, <4>1 DEF SeekStream
    <3> QED BY <3>1 DEF Playback
  <2>3. CASE ~Streams /\ ~SeekStream
    <3>1. position' = position
      BY <2>3 DEF Streams, Next, ControlStep, PlaySteps, ThreadStep, SeekSteps, playback,
         PlayCreate, PlayBuild, PlayReset, PlayResetAfterSeek, PlayResetPause, PlayAnswer,
         PlayStart, Pause, PauseNotify, Unpause, UnpauseSeek, UnpauseFlag, Seek, PauseRaw, Receive,
         PauseAfterFrame, PauseStream, Send, BeginPass, EndPass, TakeSeek, ClearSeek, SeekFlush,
         SeekAnswer, SeekPlay, SeekDone
    <3> QED BY <3>1 DEF Playback
  <2> QED BY <2>1, <2>2, <2>3
<1>3. iSeek' \in -1..Last
  <2>1. iSeek' = iSeek \/ iSeek' = -1 \/ iSeek' \in Targets
    BY DEF Next, ControlStep, PlaySteps, ThreadStep, SeekSteps, flags, PlayCreate, PlayBuild,
       PlayReset, PlayResetAfterSeek, PlayResetPause, PlayAnswer, PlayStart, Pause, PauseNotify,
       Unpause, UnpauseSeek, UnpauseFlag, Seek, PauseRaw, Receive, PauseAfterFrame, PauseStream,
       Send, BeginPass, Stream, EndPass, TakeSeek, ClearSeek, SeekFlush, SeekStream, SeekAnswer,
       SeekPlay, SeekDone
  <2>2. -1 \in -1..Last /\ \A p \in Targets : p \in -1..Last
    BY SessionAssumption
  <2> QED BY <2>1, <2>2 DEF Playback
<1>4. seekTo' \in -1..Last
  <2>1. seekTo' = seekTo \/ seekTo' = iSeek \/ seekTo' = -1
    BY DEF Next, ControlStep, PlaySteps, ThreadStep, SeekSteps, mine, PlayCreate, PlayBuild,
       PlayReset, PlayResetAfterSeek, PlayResetPause, PlayAnswer, PlayStart, Pause, PauseNotify,
       Unpause, UnpauseSeek, UnpauseFlag, Seek, PauseRaw, Receive, PauseAfterFrame, PauseStream,
       Send, BeginPass, Stream, EndPass, TakeSeek, ClearSeek, SeekFlush, SeekStream, SeekAnswer,
       SeekPlay, SeekDone
  <2> QED BY <2>1, SessionAssumption DEF Playback
<1> QED BY <1>1, <1>2, <1>3, <1>4 DEF Playback

(* A message behind others.                                                 *)
LEMMA Behind ==
  ASSUME NEW S, NEW q \in Seq(S), NEW m \in S
  PROVE  /\ Append(q, m) \in Seq(S) /\ Len(q) \in Nat /\ Len(Append(q, m)) = Len(q) + 1
         /\ DOMAIN q = 1..Len(q) /\ DOMAIN Append(q, m) = 1..Len(q) + 1
         /\ \A i \in DOMAIN q : Append(q, m)[i] = q[i]
         /\ Append(q, m)[Len(q) + 1] = m
<1>1. Len(q) \in Nat /\ DOMAIN q = 1..Len(q)
  BY LenProperties
<1>2. /\ Append(q, m) \in Seq(S) /\ Len(Append(q, m)) = Len(q) + 1 /\ \A i \in 1..Len(q) : Append(q, m)[i] = q[i]
      /\ Append(q, m)[Len(q) + 1] = m
  BY AppendProperties
<1>3. DOMAIN Append(q, m) = 1..Len(q) + 1
  BY <1>2, LenProperties
<1> QED BY <1>1, <1>2, <1>3

Answered(k, p) == [kind |-> k, from |-> pStreamer, pos |-> p]
Shown(p) == [kind |-> "media", from |-> p.from, pos |-> p.pos]

(* Answers are sent by four steps, packets by one.                          *)
LEMMA Sending ==
  ASSUME Table, Playback, Data, Next
  PROVE  \/ /\ sent' = sent
            /\ ~PlayAnswer /\ ~PauseNotify /\ ~SeekAnswer /\ ~Send
         \/ PlayAnswer /\ Answered("Play.Start", 0) \in Messages /\ sent' = Append(sent, Answered("Play.Start", 0))
         \/ PauseNotify /\ Answered("Pause.Notify", 0) \in Messages /\ sent' = Append(sent, Answered("Pause.Notify", 0))
         \/ /\ SeekAnswer
            /\ \E k \in {"Seek.Notify", "Unpause.Notify"} :
                 Answered(k, seekTo) \in Messages /\ sent' = Append(sent, Answered(k, seekTo))
         \/ Send /\ packet \in Packets /\ Shown(packet) \in Messages /\ sent' = Append(sent, Shown(packet))
<1>0. pStreamer \in 0..MaxPlays /\ seekTo \in -1..Last /\ (thread \in Sends => packet \in Packets)
  BY DEF Table, Playback, Data
<1>1. CASE PlayAnswer
  <2>1. sent' = Append(sent, Answered("Play.Start", 0))
    BY <1>1 DEF PlayAnswer, Answer, Answered
  <2>2. Answered("Play.Start", 0) \in Messages
    BY <1>0, SessionAssumption DEF Messages, Kinds, Answered
  <2> QED BY <1>1, <2>1, <2>2
<1>2. CASE PauseNotify
  <2>1. sent' = Append(sent, Answered("Pause.Notify", 0))
    BY <1>2 DEF PauseNotify, Answer, Answered
  <2>2. Answered("Pause.Notify", 0) \in Messages
    BY <1>0, SessionAssumption DEF Messages, Kinds, Answered
  <2> QED BY <1>2, <2>1, <2>2
<1>3. CASE SeekAnswer
  <2>1. PICK k \in {"Seek.Notify", "Unpause.Notify"} : sent' = Append(sent, Answered(k, seekTo))
    BY <1>3 DEF SeekAnswer, Answer, Answered
  <2>2. Answered(k, seekTo) \in Messages
    BY <1>0 DEF Messages, Kinds, Answered
  <2> QED BY <1>3, <2>1, <2>2
<1>4. CASE Send
  <2>1. packet \in Packets /\ sent' = Append(sent, Shown(packet))
    BY <1>0, <1>4 DEF Send, Sends, Shown
  <2>2. Shown(packet) \in Messages
    BY <2>1, SessionAssumption DEF Messages, Kinds, Packets, Streamers, Shown
  <2> QED BY <1>4, <2>1, <2>2
<1>5. CASE ~PlayAnswer /\ ~PauseNotify /\ ~SeekAnswer /\ ~Send
  BY <1>5 DEF Next, ControlStep, PlaySteps, ThreadStep, SeekSteps, PlayCreate, PlayBuild, PlayReset,
     PlayResetAfterSeek, PlayResetPause, PlayStart, Pause, Unpause, UnpauseSeek, UnpauseFlag, Seek,
     PauseRaw, Receive, PauseAfterFrame, PauseStream, BeginPass, Stream, EndPass, TakeSeek,
     ClearSeek, SeekFlush, SeekStream, SeekPlay, SeekDone
<1> QED BY <1>1, <1>2, <1>3, <1>4, <1>5

(* What the queue, the hand of the privileged thread and the client's       *)
(* connection carry.                                                        *)
LEMMA DataKept == ASSUME Table, Playback, Data, Next PROVE Data'
<1>0. /\ \A q \in Seq(Packets) : q # <<>> => Head(q) \in Packets /\ Tail(q) \in Seq(Packets)
      /\ \A q \in Seq(Packets), p \in Packets : Append(q, p) \in Seq(Packets)
      /\ \A q \in Seq(Messages), m \in Messages : Append(q, m) \in Seq(Messages)
  <2>1. \A q \in Seq(Packets) : q # <<>> => Head(q) \in Packets /\ Tail(q) \in Seq(Packets)
    BY HeadTailProperties
  <2>2. \A q \in Seq(Packets), p \in Packets : Append(q, p) \in Seq(Packets)
    BY AppendProperties
  <2>3. \A q \in Seq(Messages), m \in Messages : Append(q, m) \in Seq(Messages)
    BY AppendProperties
  <2> QED BY <2>1, <2>2, <2>3
<1>1. vPacketQueue' \in Seq(Packets)
  <2>1. CASE Streams
    <3>1. PICK s \in Streamers : position[s] <= Last /\ vPacketQueue' = Append(vPacketQueue, [from |-> s, pos |-> position[s]])
      BY <2>1 DEF Streams, Stream
    <3>2. position[s] \in 0..(Last + 1)
      BY DEF Playback
    <3>3. position[s] \in 0..Last
      BY <3>1, <3>2, SessionAssumption
    <3>4. [from |-> s, pos |-> position[s]] \in Packets
      BY <3>3 DEF Packets
    <3> QED BY <1>0, <3>1, <3>4 DEF Data
  <2>2. CASE ~Streams
    <3>1. vPacketQueue' = vPacketQueue \/ vPacketQueue' = <<>> \/ (vPacketQueue # <<>> /\ vPacketQueue' = Tail(vPacketQueue))
      BY <2>2 DEF Streams, Next, ControlStep, PlaySteps, ThreadStep, SeekSteps, PlayCreate,
         PlayBuild, PlayReset, PlayResetAfterSeek, PlayResetPause, PlayAnswer, PlayStart, Pause,
         PauseNotify, Unpause, UnpauseSeek, UnpauseFlag, Seek, PauseRaw, Receive, PauseAfterFrame,
         PauseStream, Send, BeginPass, EndPass, TakeSeek, ClearSeek, SeekFlush, SeekStream,
         SeekAnswer, SeekPlay, SeekDone
    <3> QED BY <1>0, <3>1, EmptySeq DEF Data
  <2> QED BY <2>1, <2>2
<1>2. sent' \in Seq(Messages)
  <2>1. sent' = sent \/ \E m \in Messages : sent' = Append(sent, m)
    BY Sending
  <2> QED BY <1>0, <2>1 DEF Data
<1>3. thread' \in Sends => packet' \in Packets
  <2>1. CASE Receive
    BY <1>0, <2>1 DEF Receive, Data, Sends
  <2>2. CASE ~Receive
    <3>1. thread' \in Sends => thread \in Sends /\ packet' = packet
      BY <2>2 DEF Sends, Next, ControlStep, PlaySteps, ThreadStep, SeekSteps, mine, PlayCreate,
         PlayBuild, PlayReset, PlayResetAfterSeek, PlayResetPause, PlayAnswer, PlayStart, Pause,
         PauseNotify, Unpause, UnpauseSeek, UnpauseFlag, Seek, PauseRaw, PauseAfterFrame,
         PauseStream, Send, BeginPass, Stream, EndPass, TakeSeek, ClearSeek, SeekFlush, SeekStream,
         SeekAnswer, SeekPlay, SeekDone
    <3> QED BY <3>1 DEF Data
  <2> QED BY <2>1, <2>2
<1> QED BY <1>1, <1>2, <1>3 DEF Data

(* At the start nothing plays.                                              *)
LEMMA TypedAtStart == Init => Typed
<1> SUFFICES ASSUME Init PROVE Typed
  OBVIOUS
<1>1. Points /\ Flags
  <2>1. Flags
    BY DEF Init, Flags
  <2>2. control = "idle" /\ thread = "receive" /\ commands = 0 /\ 0 \in 0..MaxCommands
    BY SessionAssumption DEF Init
  <2> QED BY <2>1, <2>2 DEF Points
<1>2. Table
  BY SessionAssumption DEF Init, Table
<1>3. Playback /\ Data
  BY SessionAssumption, EmptySeq DEF Init, Playback, Data, Sends
<1> QED BY <1>1, <1>2, <1>3 DEF Typed

(* Every step, and every stuttering one, keeps them.                        *)
LEMMA TypedKept == Typed /\ [Next]_vars => Typed'
<1> SUFFICES ASSUME Typed, [Next]_vars PROVE Typed'
  OBVIOUS
<1>1. CASE Next
  BY <1>1, PointsKept, FlagsKept, TableKept, PlaybackKept, DataKept DEF Typed
<1>2. CASE UNCHANGED vars
  BY <1>2 DEF Typed, Points, Flags, Table, Playback, Data, vars, mine, streamers, playback, flags
<1> QED BY <1>1, <1>2

(* Every variable keeps to its values.                                      *)
THEOREM TypeCorrect == Spec => []TypeOK
BY TypedAtStart, TypedKept, TypedIsOK, PTL DEF Spec
-----------------------------------------------------------------------------
(* The pause.                                                               *)

(* What reaches the client after a message, of the main stream.             *)
MainAfter(i) == {k \in DOMAIN sent : k > i /\ sent[k].pos \in MainFrames}

(* The client pauses, and the answer is the last one it was sent.           *)
Pauses(i) ==
  /\ bPause /\ control \notin {"notify", "noPauseAfterSeek"}
  /\ sent[i].kind = "Pause.Notify" /\ \A k \in DOMAIN sent : k > i => IsMedia(k)

(* A frame of the main stream is in the hand of the thread, and the pause   *)
(* has been noticed: nothing that is still queued will be sent.             *)
InHand == thread \in Sends /\ packet.pos \in MainFrames
Noticed == thread = "pausing" \/ bPauseAfterSeek

(* Until the thread notices the pause it has sent one frame at most, whose  *)
(* sending had begun before; and between the answer to a seek and the end   *)
(* of the seek, which forgets that the pause was noticed, it sends nothing. *)
Quiet ==
  /\ \A i \in DOMAIN sent : Pauses(i) =>
       Cardinality(MainAfter(i)) + (IF InHand THEN 1 ELSE 0) <= (IF Noticed THEN 2 ELSE 1)
  /\ thread \in {"play", "played"} => sent # <<>> /\ ~IsMedia(Len(sent))

(* What is sent is finite, and a frame more is one more.                    *)
LEMMA CountMain ==
  ASSUME Data, NEW i \in DOMAIN sent
  PROVE  /\ IsFiniteSet(MainAfter(i)) /\ Cardinality(MainAfter(i)) \in Nat
         /\ \A x : x \notin MainAfter(i) => Cardinality(MainAfter(i) \cup {x}) = Cardinality(MainAfter(i)) + 1
<1>1. Len(sent) \in Nat /\ DOMAIN sent = 1..Len(sent)
  BY LenProperties DEF Data
<1>2. IsFiniteSet(DOMAIN sent)
  BY <1>1, FS_Interval
<1>3. IsFiniteSet(MainAfter(i))
  BY <1>2, FS_Subset DEF MainAfter
<1> QED BY <1>3, FS_CardinalityType, FS_AddElement

(* A step that sends nothing.                                               *)
LEMMA QuietSilent == ASSUME Typed, Quiet, Next, sent' = sent, ~PlayAnswer, ~PauseNotify, ~SeekAnswer, ~Send PROVE Quiet'
<1>1. thread' \in {"play", "played"} => thread \in {"play", "played"}
  BY DEF Next, ControlStep, PlaySteps, ThreadStep, SeekSteps, mine, PlayCreate, PlayBuild,
     PlayReset, PlayResetAfterSeek, PlayResetPause, PlayStart, Pause, Unpause, UnpauseSeek,
     UnpauseFlag, Seek, PauseRaw, Receive, PauseAfterFrame, PauseStream, BeginPass, Stream, EndPass,
     TakeSeek, ClearSeek, SeekFlush, SeekStream, SeekPlay, SeekDone
<1>2. bPause' /\ control' \notin {"notify", "noPauseAfterSeek"} => bPause /\ control \notin {"notify", "noPauseAfterSeek"}
  BY DEF Next, ControlStep, PlaySteps, ThreadStep, SeekSteps, flags, Commanded, PlayCreate,
     PlayBuild, PlayReset, PlayResetAfterSeek, PlayResetPause, PlayStart, Pause, Unpause,
     UnpauseSeek, UnpauseFlag, Seek, PauseRaw, Receive, PauseAfterFrame, PauseStream, BeginPass,
     Stream, EndPass, TakeSeek, ClearSeek, SeekFlush, SeekStream, SeekPlay, SeekDone
<1>3. ASSUME NEW i \in DOMAIN sent, Pauses(i)'
      PROVE  Cardinality(MainAfter(i)) + (IF InHand' THEN 1 ELSE 0) <= (IF Noticed' THEN 2 ELSE 1)
  <2>1. Pauses(i) /\ bPause
    BY <1>2, <1>3 DEF Pauses, IsMedia
  <2>2. /\ Cardinality(MainAfter(i)) \in Nat
        /\ Cardinality(MainAfter(i)) + (IF InHand THEN 1 ELSE 0) <= (IF Noticed THEN 2 ELSE 1)
    BY <2>1, CountMain DEF Typed, Quiet
  <2>3. CASE Receive
    <3>1. thread = "receive" /\ bPauseAfterSeek' = bPauseAfterSeek /\ ~InHand
      BY <2>3 DEF Receive, flags, InHand, Sends
    <3>2. CASE bPauseAfterSeek
      <4>1. thread' = thread
        BY <2>3, <3>2 DEF Receive
      <4> QED BY <2>2, <3>1, <3>2, <4>1 DEF InHand, Noticed, Sends
    <3>3. CASE ~bPauseAfterSeek
      <4>1. Cardinality(MainAfter(i)) <= 1
        BY <2>2, <3>1, <3>3 DEF Noticed
      <4>2. thread' = IF packet'.pos \in MainFrames THEN "pausing" ELSE "sending"
        BY <2>1, <2>3, <3>3 DEF Receive
      <4>3. InHand' => Noticed'
        BY <4>2 DEF InHand, Noticed
      <4> QED BY <2>2, <4>1, <4>3
    <3> QED BY <3>2, <3>3
  <2>4. CASE SeekDone
    <3>1. sent # <<>> /\ ~IsMedia(Len(sent)) /\ thread' = "receive"
      BY <2>4 DEF SeekDone, Quiet
    <3>2. Len(sent) \in DOMAIN sent /\ DOMAIN sent = 1..Len(sent) /\ Len(sent) \in Nat
      BY <3>1, LenProperties, EmptySeq DEF Typed, Data
    <3>3. i = Len(sent)
      BY <2>1, <3>1, <3>2 DEF Pauses
    <3>4. MainAfter(i) = {}
      BY <3>2, <3>3 DEF MainAfter
    <3>5. Cardinality(MainAfter(i)) = 0
      BY <3>4, FS_EmptySet
    <3> QED BY <3>1, <3>5 DEF InHand, Sends
  <2>5. CASE ~Receive /\ ~SeekDone
    <3>1. /\ thread \in Sends <=> thread' \in Sends
          /\ thread \in Sends => packet' = packet
      BY <2>5 DEF Sends, Next, ControlStep, PlaySteps, ThreadStep, SeekSteps, mine, PlayCreate,
         PlayBuild, PlayReset, PlayResetAfterSeek, PlayResetPause, PlayStart, Pause, Unpause,
         UnpauseSeek, UnpauseFlag, Seek, PauseRaw, PauseAfterFrame, PauseStream, BeginPass, Stream,
         EndPass, TakeSeek, ClearSeek, SeekFlush, SeekStream, SeekPlay
    <3>0. ~PlayResetAfterSeek
      BY <1>3 DEF Pauses, PlayResetAfterSeek
    <3>2. thread = "pausing" \/ bPauseAfterSeek => thread' = "pausing" \/ bPauseAfterSeek'
      BY <2>5, <3>0 DEF Next, ControlStep, PlaySteps, ThreadStep, SeekSteps, mine, flags, PlayCreate,
         PlayBuild, PlayReset, PlayResetAfterSeek, PlayResetPause, PlayStart, Pause, Unpause,
         UnpauseSeek, UnpauseFlag, Seek, PauseRaw, PauseAfterFrame, PauseStream, BeginPass, Stream,
         EndPass, TakeSeek, ClearSeek, SeekFlush, SeekStream, SeekPlay
    <3>3. (InHand' <=> InHand) /\ (Noticed => Noticed')
      BY <3>1, <3>2 DEF InHand, Noticed
    <3> QED BY <2>2, <3>3
  <2> QED BY <2>3, <2>4, <2>5
<1>4. \A i \in DOMAIN sent : MainAfter(i)' = MainAfter(i)
  BY DEF MainAfter
<1> QED BY <1>1, <1>3, <1>4 DEF Quiet, IsMedia
(* An answer ends the count.                                                *)
LEMMA QuietAnswer ==
  ASSUME Typed, NEW m \in Messages, sent' = Append(sent, m), m.kind # "media", m.kind = "Pause.Notify" => PauseNotify
  PROVE  Quiet'
<1>1. /\ Len(sent) \in Nat /\ DOMAIN sent = 1..Len(sent) /\ DOMAIN sent' = 1..Len(sent) + 1 /\ Len(sent') = Len(sent) + 1
      /\ sent'[Len(sent) + 1] = m /\ sent' # <<>>
  <2>1. sent \in Seq(Messages)
    BY DEF Typed, Data
  <2>2. sent' # <<>>
    BY <2>1, AppendProperties
  <2> QED BY <2>1, <2>2, Behind
<1>2. ASSUME NEW i \in DOMAIN sent', Pauses(i)'
      PROVE  Cardinality(MainAfter(i))' + (IF InHand' THEN 1 ELSE 0) <= (IF Noticed' THEN 2 ELSE 1)
  <2>1. Len(sent) + 1 \in DOMAIN sent' /\ ~(Len(sent) + 1 > i)
    BY <1>1, <1>2 DEF Pauses, IsMedia
  <2>2. i = Len(sent) + 1
    BY <1>1, <2>1
  <2>3. MainAfter(i)' = {}
    BY <1>1, <2>2 DEF MainAfter
  <2>4. Cardinality(MainAfter(i))' = 0
    BY <2>3, FS_EmptySet
  <2> QED BY <2>4
<1>3. ~IsMedia(Len(sent))'
  BY <1>1 DEF IsMedia
<1> QED BY <1>1, <1>2, <1>3 DEF Quiet

(* Every step keeps the count.                                              *)
LEMMA QuietKept == ASSUME Typed, Quiet, Next PROVE Quiet'
<1>1. \/ sent' = sent /\ ~PlayAnswer /\ ~PauseNotify /\ ~SeekAnswer /\ ~Send
      \/ \E m \in Messages : sent' = Append(sent, m) /\ m.kind # "media" /\ (m.kind = "Pause.Notify" => PauseNotify)
      \/ Send /\ packet \in Packets /\ Shown(packet) \in Messages /\ sent' = Append(sent, Shown(packet))
  BY Sending DEF Typed, Answered
<1>2. CASE Send /\ packet \in Packets /\ Shown(packet) \in Messages /\ sent' = Append(sent, Shown(packet))
  <2>1. /\ Len(sent) \in Nat /\ DOMAIN sent = 1..Len(sent) /\ DOMAIN sent' = 1..Len(sent) + 1
        /\ (\A i \in DOMAIN sent : sent'[i] = sent[i]) /\ sent'[Len(sent) + 1] = Shown(packet)
    BY <1>2, Behind DEF Typed, Data
  <2>2. /\ thread = "sending" /\ thread' = "receive" /\ control' = control
        /\ bPause' = bPause /\ bPauseAfterSeek' = bPauseAfterSeek
    BY <1>2 DEF Send, flags
  <2>3. ASSUME NEW i \in DOMAIN sent', Pauses(i)'
        PROVE  Cardinality(MainAfter(i))' + (IF InHand' THEN 1 ELSE 0) <= (IF Noticed' THEN 2 ELSE 1)
    <3>1. i \in DOMAIN sent
      <4>1. sent'[i].kind = "Pause.Notify" /\ sent'[Len(sent) + 1].kind = "media"
        BY <2>1, <2>3 DEF Pauses, Shown
      <4> QED BY <2>1, <4>1
    <3>2. Pauses(i)
      BY <2>1, <2>2, <2>3, <3>1 DEF Pauses, IsMedia
    <3>3. /\ Cardinality(MainAfter(i)) \in Nat
          /\ Cardinality(MainAfter(i)) + (IF InHand THEN 1 ELSE 0) <= (IF Noticed THEN 2 ELSE 1)
      BY <3>1, <3>2, CountMain DEF Typed, Quiet
    <3>4. ~InHand' /\ (Noticed' <=> Noticed)
      BY <2>2 DEF InHand, Noticed, Sends
    <3>5. CASE InHand
      <4>1. MainAfter(i)' = MainAfter(i) \cup {Len(sent) + 1} /\ Len(sent) + 1 \notin MainAfter(i)
        BY <2>1, <3>1, <3>5 DEF MainAfter, InHand, Shown
      <4>2. Cardinality(MainAfter(i))' = Cardinality(MainAfter(i)) + 1
        BY <3>1, <4>1, CountMain DEF Typed
      <4> QED BY <3>3, <3>4, <3>5, <4>2
    <3>6. CASE ~InHand
      <4>1. MainAfter(i)' = MainAfter(i)
        BY <2>1, <2>2, <3>1, <3>6 DEF MainAfter, InHand, Shown, Sends
      <4> QED BY <3>3, <3>4, <3>6, <4>1
    <3> QED BY <3>5, <3>6
  <2> QED BY <2>2, <2>3 DEF Quiet
<1> QED BY <1>1, <1>2, QuietSilent, QuietAnswer

(* From the answer to a "pause" until the next answer at most two frames of *)
(* the main stream are sent, whatever the privileged thread was doing.      *)
THEOREM PauseIsPrompt == Spec => []PausedIsQuiet
<1>1. Init => Quiet
  BY EmptySeq DEF Init, Quiet
<1>2. Typed /\ Quiet /\ [Next]_vars => Quiet'
  <2> SUFFICES ASSUME Typed, Quiet, [Next]_vars PROVE Quiet'
    OBVIOUS
  <2>1. CASE Next
    BY <2>1, QuietKept
  <2>2. CASE UNCHANGED vars
    <3>1. /\ bPause' = bPause /\ bPauseAfterSeek' = bPauseAfterSeek /\ control' = control /\ thread' = thread
          /\ packet' = packet /\ sent' = sent
      BY <2>2 DEF vars, mine, flags
    <3>2. \A i \in DOMAIN sent : MainAfter(i)' = MainAfter(i)
      BY <3>1 DEF MainAfter
    <3>3. (InHand' <=> InHand) /\ (Noticed' <=> Noticed) /\ \A i \in DOMAIN sent : Pauses(i)' <=> Pauses(i)
      BY <3>1 DEF InHand, Noticed, Pauses, IsMedia
    <3> QED BY <3>1, <3>2, <3>3 DEF Quiet, IsMedia
  <2> QED BY <2>1, <2>2
<1>3. Typed /\ Quiet => PausedIsQuiet
  <2> SUFFICES ASSUME Typed, Quiet, NEW i \in DOMAIN sent, bPause, control \notin {"notify", "noPauseAfterSeek"}, sent[i].kind = "Pause.Notify",
                      \A k \in {j \in DOMAIN sent : j > i} : IsMedia(k)
               PROVE  Cardinality({k \in {j \in DOMAIN sent : j > i} : sent[k].pos \in MainFrames}) <= 2
    BY DEF PausedIsQuiet
  <2>1. {k \in {j \in DOMAIN sent : j > i} : sent[k].pos \in MainFrames} = MainAfter(i)
    BY DEF MainAfter
  <2>2. Pauses(i)
    BY DEF Pauses
  <2>3. Cardinality(MainAfter(i)) \in Nat /\ Cardinality(MainAfter(i)) + (IF InHand THEN 1 ELSE 0) <= (IF Noticed THEN 2 ELSE 1)
    BY <2>2, CountMain DEF Typed, Quiet
  <2>4. Cardinality(MainAfter(i)) <= 2
    BY <2>3
  <2> QED BY ONLY <2>1, <2>4, Zenon
<1> QED BY <1>1, <1>2, <1>3, TypedAtStart, TypedKept, PTL DEF Spec
-----------------------------------------------------------------------------
(* The stream, as long as the client has asked for one.                     *)
Once == pStreamer <= 1

(* Before the answer to "play" nothing is under way.                        *)
Unbegun == pStreamer = 0 \/ control \in {"created", "built", "noSeek", "noPauseAfterSeek", "reset"}
Begins ==
  /\ Unbegun => /\ vPacketQueue = <<>> /\ thread \in {"receive", "process"} /\ sent = <<>>
                /\ \A s \in Streamers : position[s] = 0 /\ paused[s]
                /\ iSeek = -1 /\ ~bPauseAfterSeek
  /\ pStreamer = 1 /\ control # "created" => pStreamerInterface = 1
  /\ table \subseteq {1}

(* A seek that is being done is one that was asked for: no "play" comes in  *)
(* between.                                                                 *)
Sought ==
  /\ thread = "take" => iSeek >= 0
  /\ thread \in {"taken", "flush", "seek", "answer"} => seekTo >= 0

(* The last answer, and the position that is due after it.                  *)
MediaAfter(i) == {k \in DOMAIN sent : k > i /\ IsMedia(k)}
Latest(i) == sent[i].kind \in Answers /\ \A k \in DOMAIN sent : k > i => sent[k].kind \notin Answers
Due(i) == sent[i].pos + Cardinality(MediaAfter(i))

(* What is in the hand of the thread, in the queue and before the streamer  *)
(* is the stream from a position on, unless a seek is being done or the     *)
(* queue is dropped; both end in an empty queue before the next answer.     *)
Hand == IF thread \in Sends THEN 1 ELSE 0
Ahead(d) ==
  /\ thread \in {"play", "played"} => d = seekTo
  /\ thread \in Sends => packet.pos = d
  /\ thread \notin {"flush", "seek", "answer"} /\ ~bPauseAfterSeek =>
       /\ \A k \in DOMAIN vPacketQueue : vPacketQueue[k].pos = d + Hand + k - 1
       /\ position[1] = d + Hand + Len(vPacketQueue)
FromOne ==
  /\ thread \in {"seek", "answer", "play", "played"} => vPacketQueue = <<>>
  /\ thread \in {"answer", "play", "played"} => position[1] = seekTo
  /\ \A k \in DOMAIN vPacketQueue : vPacketQueue[k].from = 1
  /\ thread \in Sends => packet.from = 1
Follows == FromOne /\ \A i \in DOMAIN sent : Latest(i) => sent[i].from = 1 /\ Ahead(Due(i))

(* With one streamer the number of streamers does not go down, and once it  *)
(* has begun it has begun.                                                  *)
LEMMA BeginsKept == ASSUME Typed, Begins, Once, Next, Once' PROVE Begins'
<1>0. /\ pStreamer \in {0, 1} /\ (control # "idle" => pStreamer = 1) /\ pStreamer \in 0..MaxPlays
      /\ (pStreamer = 1 => 1 \in Streamers)
  BY SessionAssumption DEF Typed, Table, Once, Streamers
<1>1. CASE PlayCreate
  <2>1. /\ control = "idle" /\ control' = "created" /\ pStreamer' = pStreamer + 1 /\ table' = table \cup {pStreamer + 1}
        /\ UNCHANGED <<mine, playback, flags, vPacketQueue, sent>>
    BY <1>1 DEF PlayCreate
  <2>2. pStreamer = 0
    BY <1>0, <2>1 DEF Once
  <2>3. Unbegun
    BY <2>2 DEF Unbegun
  <2> QED BY <2>1, <2>2, <2>3 DEF Begins, mine, playback, flags, Unbegun
<1>2. CASE PlayBuild
  <2>1. /\ control = "created" /\ control' = "built"
        /\ pStreamer' = pStreamer /\ table' = table /\ pStreamerInterface' = pStreamer
        /\ UNCHANGED <<mine, playback, flags, vPacketQueue, sent>>
    BY <1>2 DEF PlayBuild
  <2>2. Unbegun
    BY <2>1 DEF Unbegun
  <2> QED BY <1>0, <2>1, <2>2 DEF Begins, mine, playback, flags
<1>3. CASE PlayReset \/ PlayResetAfterSeek \/ PlayResetPause
  <2>1. /\ UNCHANGED <<streamers, mine, playback, vPacketQueue, sent>> /\ Unbegun /\ control' # "created"
        /\ (iSeek' = iSeek \/ iSeek' = -1) /\ (bPauseAfterSeek' => bPauseAfterSeek)
    BY <1>3 DEF PlayReset, PlayResetAfterSeek, PlayResetPause, Unbegun
  <2>2. /\ vPacketQueue' = <<>> /\ thread' \in {"receive", "process"} /\ sent' = <<>>
        /\ (\A x \in Streamers : position'[x] = 0 /\ paused'[x]) /\ iSeek' = -1 /\ ~bPauseAfterSeek'
    BY <2>1 DEF Begins, mine, playback
  <2>3. (pStreamer' = 1 /\ control' # "created" => pStreamerInterface' = 1) /\ table' \subseteq {1}
    BY <1>3, <2>1 DEF Begins, streamers, PlayReset, PlayResetAfterSeek, PlayResetPause
  <2> QED BY <2>2, <2>3 DEF Begins
<1>4. CASE Control /\ ~PlayCreate /\ ~PlayBuild /\ ~PlayReset /\ ~PlayResetAfterSeek /\ ~PlayResetPause
  <2>1. /\ pStreamer' = pStreamer /\ table' = table /\ pStreamerInterface' = pStreamerInterface
        /\ control # "created" /\ control' \notin {"created", "built", "noSeek", "noPauseAfterSeek", "reset"}
        /\ (control # "idle" \/ pStreamer > 0)
    BY <1>4 DEF Control, streamers, Commanded, PlayReset, PlayResetAfterSeek, PlayResetPause,
       PlayAnswer, PlayStart, Pause, PauseNotify, Unpause, UnpauseSeek, UnpauseFlag, Seek, PauseRaw
  <2>2. ~Unbegun'
    BY <1>0, <2>1 DEF Unbegun
  <2> QED BY <1>0, <2>1, <2>2 DEF Begins
<1>5. CASE ThreadStep \/ Streams
  <2>1. UNCHANGED <<control, streamers>>
    BY <1>5 DEF ThreadStep, SeekSteps, Streams, Receive, PauseAfterFrame, PauseStream, Send,
       BeginPass, Stream, EndPass, TakeSeek, ClearSeek, SeekFlush, SeekStream, SeekAnswer, SeekPlay,
       SeekDone
  <2>2. ASSUME Unbegun
        PROVE  UNCHANGED <<vPacketQueue, sent, position, paused, iSeek, bPauseAfterSeek>> /\ thread' \in {"receive", "process"}
    <3>1. /\ vPacketQueue = <<>> /\ thread \in {"receive", "process"} /\ (\A s \in Streamers : paused[s]) /\ iSeek = -1
      BY <2>2 DEF Begins
    <3>2. ~Streams
      BY <3>1 DEF Streams, Stream
    <3>3. BeginPass \/ EndPass
      BY <1>5, <3>1, <3>2 DEF ThreadStep, SeekSteps, Receive, PauseAfterFrame, PauseStream, Send,
         TakeSeek, ClearSeek, SeekFlush, SeekStream, SeekAnswer, SeekPlay, SeekDone
    <3>4. CASE BeginPass
      BY <3>4 DEF BeginPass, playback, flags
    <3>5. CASE EndPass
      BY <3>1, <3>5 DEF EndPass, playback, flags
    <3> QED BY <3>3, <3>4, <3>5
  <2> QED BY <2>1, <2>2 DEF Begins, Unbegun, streamers
<1> QED BY <1>1, <1>2, <1>3, <1>4, <1>5, Steps

(* Only before the answer to "play" is iSeek reset by another thread than   *)
(* the one that has read it.                                                *)
LEMMA SoughtKept == ASSUME Typed, Begins, Once, Sought, Next PROVE Sought'
<1>1. CASE PlayReset
  <2>1. Unbegun /\ UNCHANGED <<thread, seekTo>>
    BY <1>1 DEF PlayReset, Unbegun, mine
  <2> QED BY <2>1 DEF Begins, Sought
<1>2. CASE EndPass \/ TakeSeek \/ ClearSeek \/ SeekDone
  BY <1>2 DEF EndPass, TakeSeek, ClearSeek, SeekDone, flags, Sought
<1>3. CASE ~PlayReset /\ ~EndPass /\ ~TakeSeek /\ ~ClearSeek /\ ~SeekDone
  <2>1. iSeek' = iSeek \/ iSeek' \in Targets
    BY <1>3 DEF Next, ControlStep, PlaySteps, ThreadStep, SeekSteps, flags, PlayCreate, PlayBuild,
       PlayResetAfterSeek, PlayResetPause, PlayAnswer, PlayStart, Pause, PauseNotify,
       Unpause, UnpauseSeek, UnpauseFlag, Seek, PauseRaw, Receive, PauseAfterFrame, PauseStream,
       Send, BeginPass, Stream, SeekFlush, SeekStream, SeekAnswer, SeekPlay
  <2>2. /\ seekTo' = seekTo /\ (thread' = "take" => thread = "take")
        /\ thread' \in {"taken", "flush", "seek", "answer"} => thread \in {"taken", "flush", "seek", "answer"}
    BY <1>3 DEF Next, ControlStep, PlaySteps, ThreadStep, SeekSteps, mine, PlayCreate, PlayBuild,
       PlayResetAfterSeek, PlayResetPause, PlayAnswer, PlayStart, Pause, PauseNotify,
       Unpause, UnpauseSeek, UnpauseFlag, Seek, PauseRaw, Receive, PauseAfterFrame, PauseStream,
       Send, BeginPass, Stream, SeekFlush, SeekStream, SeekAnswer, SeekPlay
  <2>3. \A n \in Targets : n >= 0
    BY SessionAssumption
  <2> QED BY <2>1, <2>2, <2>3 DEF Sought
<1> QED BY <1>1, <1>2, <1>3

(* The first of a queue, and the others move up.                            *)
LEMMA Shift ==
  ASSUME NEW S, NEW q \in Seq(S), q # <<>>
  PROVE  /\ 1 \in DOMAIN q /\ Head(q) = q[1] /\ Len(q) \in Nat /\ Len(Tail(q)) = Len(q) - 1 /\ Tail(q) \in Seq(S)
         /\ \A k \in DOMAIN Tail(q) : k \in Nat /\ k + 1 \in DOMAIN q /\ Tail(q)[k] = q[k + 1]
<1>1. Len(q) \in Nat /\ Len(q) # 0 /\ DOMAIN q = 1..Len(q)
  BY LenProperties, EmptySeq
<1>2. Head(q) = q[1]
  OBVIOUS
<1>3. /\ Tail(q) \in Seq(S) /\ Len(Tail(q)) = Len(q) - 1
      /\ \A k \in 1..Len(Tail(q)) : Tail(q)[k] = q[k + 1]
  BY HeadTailProperties
<1>4. DOMAIN Tail(q) = 1..(Len(q) - 1)
  BY <1>3, LenProperties
<1> QED BY <1>1, <1>2, <1>3, <1>4

(* What is queued, in the hand and before the only streamer stays ahead of  *)
(* a position, whatever is done but sending and answering.                  *)
LEMMA AheadKept ==
  ASSUME Typed, Begins, FromOne, pStreamer = 1, ~Unbegun, NEW d \in Int, Ahead(d), Next,
         ~PlayAnswer, ~PauseNotify, ~SeekAnswer, ~Send
  PROVE  Ahead(d)'
<1>0. /\ vPacketQueue \in Seq(Packets) /\ 1 \in Streamers /\ Len(vPacketQueue) \in Nat
      /\ DOMAIN vPacketQueue = 1..Len(vPacketQueue) /\ position \in [Streamers -> 0..(Last + 1)]
  BY SessionAssumption, LenProperties DEF Typed, Data, Table, Playback, Streamers
<1>1. CASE Control
  <2>1. UNCHANGED <<mine, position, vPacketQueue, bPauseAfterSeek>>
    BY <1>1 DEF Unbegun, Control, playback, flags, PlayCreate, PlayBuild, PlayReset, PlayResetAfterSeek,
       PlayResetPause, PlayStart, Pause, Unpause, UnpauseSeek, UnpauseFlag, Seek, PauseRaw
  <2> QED BY <2>1 DEF Ahead, Hand, mine
<1>2. CASE Receive
  <2>1. /\ thread = "receive" /\ vPacketQueue # <<>> /\ vPacketQueue' = Tail(vPacketQueue)
        /\ bPauseAfterSeek' = bPauseAfterSeek /\ position' = position /\ Hand = 0
    BY <1>2 DEF Receive, playback, flags, Hand, Sends
  <2>2. CASE bPauseAfterSeek
    BY <1>2, <2>1, <2>2 DEF Receive, Ahead, Sends
  <2>3. CASE ~bPauseAfterSeek
    <3>1. packet' = Head(vPacketQueue) /\ thread' \in Sends /\ Hand' = 1
      BY <1>2, <2>3 DEF Receive, Hand, Sends
    <3>2. /\ \A k \in DOMAIN vPacketQueue : vPacketQueue[k].pos = d + 0 + k - 1
          /\ position[1] = d + 0 + Len(vPacketQueue)
      BY <2>1, <2>3 DEF Ahead
    <3>3. /\ 1 \in DOMAIN vPacketQueue /\ Head(vPacketQueue) = vPacketQueue[1]
          /\ Len(Tail(vPacketQueue)) = Len(vPacketQueue) - 1
          /\ \A k \in DOMAIN Tail(vPacketQueue) :
               k \in Nat /\ k + 1 \in DOMAIN vPacketQueue /\ Tail(vPacketQueue)[k] = vPacketQueue[k + 1]
      BY <1>0, <2>1, Shift
    <3>4. packet'.pos = d
      BY <3>1, <3>2, <3>3
    <3>5. \A k \in DOMAIN vPacketQueue' : vPacketQueue'[k].pos = d + 1 + k - 1
      BY <2>1, <3>2, <3>3
    <3>6. position'[1] = d + 1 + Len(vPacketQueue')
      BY <1>0, <2>1, <3>2, <3>3
    <3> QED BY <3>1, <3>4, <3>5, <3>6 DEF Ahead, Sends
  <2> QED BY <2>2, <2>3
<1>3. CASE Streams
  <2>1. PICK s \in Streamers : Stream(s)
    BY <1>3 DEF Streams
  <2>2. s = 1
    BY <2>1 DEF Stream, Begins
  <2>3. /\ thread = "process" /\ thread' = "process" /\ bPauseAfterSeek' = bPauseAfterSeek
        /\ vPacketQueue' = Append(vPacketQueue, [from |-> 1, pos |-> position[1]])
        /\ position' = [position EXCEPT ![1] = @ + 1] /\ position[1] <= Last
    BY <2>1, <2>2 DEF Stream, mine, flags
  <2>4. [from |-> 1, pos |-> position[1]] \in Packets /\ position[1] \in Nat
    BY <1>0, <2>3, SessionAssumption DEF Packets
  <2>5. /\ Len(vPacketQueue') = Len(vPacketQueue) + 1 /\ DOMAIN vPacketQueue' = 1..Len(vPacketQueue) + 1
        /\ \A k \in DOMAIN vPacketQueue : vPacketQueue'[k] = vPacketQueue[k]
        /\ vPacketQueue'[Len(vPacketQueue) + 1] = [from |-> 1, pos |-> position[1]]
    BY <1>0, <2>3, <2>4, Behind
  <2>6. Hand = 0 /\ Hand' = 0
    BY <2>3 DEF Hand, Sends
  <2>7. CASE ~bPauseAfterSeek
    <3>1. /\ \A k \in DOMAIN vPacketQueue : vPacketQueue[k].pos = d + 0 + k - 1
          /\ position[1] = d + 0 + Len(vPacketQueue)
      BY <2>3, <2>6, <2>7 DEF Ahead
    <3>2. \A k \in DOMAIN vPacketQueue' : vPacketQueue'[k].pos = d + 0 + k - 1
      <4> SUFFICES ASSUME NEW k \in DOMAIN vPacketQueue' PROVE vPacketQueue'[k].pos = d + 0 + k - 1
        OBVIOUS
      <4>1. k \in DOMAIN vPacketQueue \/ k = Len(vPacketQueue) + 1
        BY <1>0, <2>5
      <4>2. CASE k \in DOMAIN vPacketQueue
        BY <2>5, <3>1, <4>2
      <4>3. CASE k = Len(vPacketQueue) + 1
        BY <1>0, <2>5, <3>1, <4>3
      <4> QED BY <4>1, <4>2, <4>3
    <3>3. position'[1] = d + 0 + Len(vPacketQueue')
      BY <1>0, <2>3, <2>4, <2>5, <3>1
    <3> QED BY <2>3, <2>6, <3>2, <3>3 DEF Ahead, Sends
  <2>8. CASE bPauseAfterSeek
    BY <2>3, <2>8 DEF Ahead, Sends
  <2> QED BY <2>7, <2>8
<1>4. CASE SeekDone
  <2>1. thread = "played" /\ thread' = "receive" /\ UNCHANGED <<position, vPacketQueue>>
    BY <1>4 DEF SeekDone, playback
  <2>2. d = seekTo /\ vPacketQueue = <<>> /\ position[1] = seekTo
    BY <2>1 DEF FromOne, Ahead
  <2>3. Hand' = 0 /\ Len(vPacketQueue) = 0 /\ DOMAIN vPacketQueue = {}
    BY <1>0, <2>1, <2>2, EmptySeq DEF Hand, Sends
  <2> QED BY <2>1, <2>2, <2>3 DEF Ahead, Sends
<1>5. CASE PauseAfterFrame \/ PauseStream \/ BeginPass \/ EndPass \/ TakeSeek \/ ClearSeek \/ SeekFlush \/ SeekStream \/ SeekPlay
  <2>1. CASE SeekFlush \/ SeekStream
    BY <2>1 DEF SeekFlush, SeekStream, Ahead, Sends
  <2>2. CASE PauseAfterFrame
    BY <2>2 DEF PauseAfterFrame, Ahead, Sends
  <2>3. CASE PauseStream \/ BeginPass \/ SeekPlay
    <3>1. /\ UNCHANGED <<packet, seekTo, position, vPacketQueue, bPauseAfterSeek>> /\ (thread' \in Sends <=> thread \in Sends)
          /\ thread \notin {"flush", "seek", "answer"} /\ (thread' \in {"play", "played"} => thread \in {"play", "played"})
      BY <2>3 DEF PauseStream, BeginPass, SeekPlay, flags, playback, Sends
    <3> QED BY <3>1 DEF Ahead, Hand
  <2>4. CASE EndPass \/ TakeSeek \/ ClearSeek
    BY <2>4 DEF EndPass, TakeSeek, ClearSeek, Ahead, Hand, playback, flags, Sends
  <2> QED BY <1>5, <2>1, <2>2, <2>3, <2>4
<1> QED BY <1>1, <1>2, <1>3, <1>4, <1>5, Steps DEF ThreadStep, SeekSteps
(* What is queued and sent is of the only streamer, and a seek empties the  *)
(* queue before it moves the streamer.                                      *)
LEMMA FromOneKept == ASSUME Typed, Begins, Once, Sought, FromOne, Next, Once' PROVE FromOne'
<1>0. /\ vPacketQueue \in Seq(Packets) /\ Len(vPacketQueue) \in Nat /\ DOMAIN vPacketQueue = 1..Len(vPacketQueue)
      /\ position \in [Streamers -> 0..(Last + 1)] /\ (pStreamer = 1 => 1 \in Streamers) /\ pStreamer \in {0, 1}
  BY SessionAssumption, LenProperties DEF Typed, Data, Table, Playback, Streamers, Once
<1>1. CASE Control
  <2>1. UNCHANGED <<mine, position, vPacketQueue>>
    BY <1>1 DEF Control, playback, PlayCreate, PlayBuild, PlayReset, PlayResetAfterSeek,
       PlayResetPause, PlayAnswer, PlayStart, Pause, PauseNotify, Unpause, UnpauseSeek, UnpauseFlag,
       Seek, PauseRaw
  <2> QED BY <2>1 DEF FromOne, mine
<1>2. CASE Receive
  <2>1. /\ thread = "receive" /\ thread' \in Sends \cup {"receive"} /\ vPacketQueue # <<>>
        /\ vPacketQueue' = Tail(vPacketQueue) /\ (thread' \in Sends => packet' = Head(vPacketQueue))
    BY <1>2 DEF Receive, Sends
  <2>2. /\ 1 \in DOMAIN vPacketQueue /\ Head(vPacketQueue) = vPacketQueue[1]
        /\ \A k \in DOMAIN Tail(vPacketQueue) : k + 1 \in DOMAIN vPacketQueue /\ Tail(vPacketQueue)[k] = vPacketQueue[k + 1]
    BY <1>0, <2>1, Shift
  <2> QED BY <2>1, <2>2 DEF FromOne, Sends
<1>3. CASE Streams
  <2>1. PICK s \in Streamers : Stream(s)
    BY <1>3 DEF Streams
  <2>2. s = 1
    BY <2>1 DEF Stream, Begins
  <2>3. /\ thread = "process" /\ thread' = "process" /\ position[1] <= Last /\ 1 \in Streamers
        /\ vPacketQueue' = Append(vPacketQueue, [from |-> 1, pos |-> position[1]])
    BY <2>1, <2>2 DEF Stream, mine
  <2>4. [from |-> 1, pos |-> position[1]] \in Packets
    BY <1>0, <2>3, SessionAssumption DEF Packets
  <2>5. /\ DOMAIN vPacketQueue' = 1..Len(vPacketQueue) + 1
        /\ \A k \in DOMAIN vPacketQueue : vPacketQueue'[k] = vPacketQueue[k]
        /\ vPacketQueue'[Len(vPacketQueue) + 1] = [from |-> 1, pos |-> position[1]]
    BY <1>0, <2>3, <2>4, Behind
  <2>6. \A k \in DOMAIN vPacketQueue' : vPacketQueue'[k].from = 1
    BY <1>0, <2>5 DEF FromOne
  <2> QED BY <2>3, <2>6 DEF FromOne, Sends
<1>4. CASE SeekFlush
  <2>1. thread' = "seek" /\ vPacketQueue' = <<>>
    BY <1>4 DEF SeekFlush
  <2>2. DOMAIN vPacketQueue' = {}
    BY <2>1
  <2> QED BY <2>1, <2>2 DEF FromOne, Sends
<1>5. CASE SeekStream
  <2>1. /\ thread = "seek" /\ thread' = "answer" /\ position' = [position EXCEPT ![pStreamerInterface] = seekTo]
        /\ UNCHANGED <<seekTo, vPacketQueue>>
    <3>1. thread = "seek" /\ seekTo >= 0 /\ seekTo \in Int
      BY <1>5 DEF SeekStream, Sought, Typed, Playback
    <3>2. (IF seekTo < 0 THEN 0 ELSE seekTo) = seekTo
      BY <3>1
    <3> QED BY <1>5, <3>1, <3>2 DEF SeekStream
  <2>2. ~Unbegun
    BY <2>1 DEF Begins
  <2>3. pStreamerInterface = 1 /\ 1 \in Streamers
    BY <1>0, <2>2 DEF Unbegun, Begins
  <2>4. position'[1] = seekTo'
    BY <1>0, <2>1, <2>3
  <2> QED BY <2>1, <2>4 DEF FromOne, Sends
<1>6. CASE PauseAfterFrame \/ PauseStream \/ Send \/ BeginPass \/ EndPass \/ TakeSeek \/ ClearSeek
  <2>1. /\ UNCHANGED vPacketQueue /\ (thread' \in Sends => thread \in Sends /\ packet' = packet)
        /\ thread' \notin {"seek", "answer", "play", "played"}
    BY <1>6 DEF PauseAfterFrame, PauseStream, Send, BeginPass, EndPass, TakeSeek, ClearSeek, Sends
  <2> QED BY <2>1 DEF FromOne
<1>7. CASE SeekAnswer \/ SeekPlay \/ SeekDone
  <2>1. /\ UNCHANGED <<vPacketQueue, position>> /\ thread' \notin Sends
        /\ (thread' \in {"seek", "answer", "play", "played"} => thread \in {"answer", "play", "played"} /\ seekTo' = seekTo)
    BY <1>7 DEF SeekAnswer, SeekPlay, SeekDone, playback, Sends
  <2> QED BY <2>1 DEF FromOne
<1> QED BY <1>1, <1>2, <1>3, <1>4, <1>5, <1>6, <1>7, Steps DEF ThreadStep, SeekSteps

(* What is sent is finite, and a packet more is one more.                   *)
LEMMA CountMedia ==
  ASSUME Data, NEW i \in DOMAIN sent
  PROVE  /\ IsFiniteSet(MediaAfter(i)) /\ Cardinality(MediaAfter(i)) \in Nat /\ Due(i) \in Int
         /\ \A x : x \notin MediaAfter(i) => Cardinality(MediaAfter(i) \cup {x}) = Cardinality(MediaAfter(i)) + 1
<1>1. Len(sent) \in Nat /\ DOMAIN sent = 1..Len(sent) /\ sent[i] \in Messages
  BY LenProperties, ElementOfSeq DEF Data
<1>2. IsFiniteSet(MediaAfter(i))
  <2>1. IsFiniteSet(DOMAIN sent)
    BY <1>1, FS_Interval
  <2> QED BY <2>1, FS_Subset DEF MediaAfter
<1>3. Cardinality(MediaAfter(i)) \in Nat
  BY <1>2, FS_CardinalityType
<1>4. sent[i].pos \in Int
  BY <1>1, SessionAssumption DEF Messages
<1> QED BY <1>2, <1>3, <1>4, FS_AddElement DEF Due

(* A message that is not a packet is not asked about.                       *)
LEMMA StillFollows ==
  ASSUME Typed, StreamFollowsAnswer, NEW m \in Messages, sent' = Append(sent, m),
         m.kind # "media" \/
           \A i \in DOMAIN sent : Latest(i) => m.from = sent[i].from /\ m.pos = Due(i)
  PROVE  StreamFollowsAnswer'
<1>1. /\ Len(sent) \in Nat /\ DOMAIN sent = 1..Len(sent) /\ DOMAIN sent' = 1..Len(sent) + 1
      /\ (\A i \in DOMAIN sent : sent'[i] = sent[i]) /\ sent'[Len(sent) + 1] = m
  BY Behind DEF Typed, Data
<1> SUFFICES ASSUME NEW i \in DOMAIN sent', NEW j \in DOMAIN sent', i < j, sent'[i].kind \in Answers, IsMedia(j)',
                    \A k \in Between(i, j)' : sent'[k].kind \notin Answers
             PROVE  /\ sent'[j].from = sent'[i].from
                    /\ sent'[j].pos = sent'[i].pos + Cardinality({k \in Between(i, j)' : IsMedia(k)'})
  BY DEF StreamFollowsAnswer
<1>2. i \in DOMAIN sent /\ sent'[i] = sent[i]
  BY <1>1
<1>3. CASE j \in DOMAIN sent
  <2>1. Between(i, j)' = Between(i, j) /\ \A k \in Between(i, j) : k \in DOMAIN sent /\ sent'[k] = sent[k]
    BY <1>1, <1>3 DEF Between
  <2>2. {k \in Between(i, j)' : IsMedia(k)'} = {k \in Between(i, j) : IsMedia(k)}
    BY <2>1 DEF IsMedia
  <2>3. IsMedia(j) /\ sent[i].kind \in Answers /\ \A k \in Between(i, j) : sent[k].kind \notin Answers
    BY <1>1, <1>2, <1>3, <2>1 DEF IsMedia
  <2>4. sent[j].from = sent[i].from /\ sent[j].pos = sent[i].pos + Cardinality({k \in Between(i, j) : IsMedia(k)})
    BY <1>2, <1>3, <2>3 DEF StreamFollowsAnswer
  <2> QED BY <1>1, <1>2, <1>3, <2>2, <2>4
<1>4. CASE j = Len(sent) + 1
  <2>1. m.kind = "media"
    BY <1>1, <1>4 DEF IsMedia
  <2>2. /\ \A k \in DOMAIN sent : k > i => k \in Between(i, j)' /\ sent'[k] = sent[k]
        /\ Between(i, j)' = {k \in DOMAIN sent : k > i}
    BY <1>1, <1>2, <1>4 DEF Between
  <2>3. Latest(i)
    BY <1>2, <2>2 DEF Latest
  <2>4. {k \in Between(i, j)' : IsMedia(k)'} = MediaAfter(i)
    BY <2>2 DEF MediaAfter, IsMedia
  <2>5. m.from = sent[i].from /\ m.pos = sent[i].pos + Cardinality(MediaAfter(i))
    BY <1>2, <2>1, <2>3 DEF Due
  <2> QED BY <1>1, <1>2, <1>4, <2>4, <2>5
<1> QED BY <1>1, <1>3, <1>4
(* A step that sends nothing.                                               *)
LEMMA FollowsSilent ==
  ASSUME Typed, Begins, Once, Follows, Next, sent' = sent, ~PlayAnswer, ~PauseNotify, ~SeekAnswer, ~Send, FromOne'
  PROVE  Follows'
<1> SUFFICES ASSUME NEW i \in DOMAIN sent, Latest(i)'
             PROVE  sent[i].from = 1 /\ Ahead(Due(i))'
  BY DEF Follows
<1>1. Latest(i) /\ Due(i)' = Due(i)
  BY DEF Latest, Due, MediaAfter, IsMedia
<1>2. sent # <<>>
  BY DEF Typed, Data
<1>3. ~Unbegun /\ pStreamer = 1
  BY <1>2, SessionAssumption DEF Begins, Unbegun, Once, Typed, Table
<1>4. Due(i) \in Int
  BY CountMedia DEF Typed
<1>5. sent[i].from = 1 /\ Ahead(Due(i))
  BY <1>1 DEF Follows
<1>6. \A d \in Int : Ahead(d) => Ahead(d)'
  BY <1>3, AheadKept DEF Follows
<1>7. PICK d \in Int : d = Due(i)
  BY <1>4
<1>8. Ahead(d)'
  BY <1>5, <1>6, <1>7
<1>9. Due(i)' = d
  BY <1>1, <1>7
<1> QED BY <1>5, <1>8, <1>9 DEF Ahead

(* An answer: before the first one nothing is under way, a seek is answered *)
(* when the streamer is where it was asked to be, and the answer to "pause" *)
(* is not followed.                                                         *)
LEMMA FollowsAnswer ==
  ASSUME Typed, Begins, Once, Follows, FromOne', NEW m \in Messages, sent' = Append(sent, m), m.from = pStreamer,
         \/ PlayAnswer /\ m.kind = "Play.Start" /\ m.pos = 0
         \/ PauseNotify /\ m.kind = "Pause.Notify"
         \/ SeekAnswer /\ m.kind \in {"Seek.Notify", "Unpause.Notify"} /\ m.pos = seekTo
  PROVE  Follows'
<1>1. /\ Len(sent) \in Nat /\ DOMAIN sent = 1..Len(sent) /\ DOMAIN sent' = 1..Len(sent) + 1
      /\ (\A i \in DOMAIN sent : sent'[i] = sent[i]) /\ sent'[Len(sent) + 1] = m
  BY Behind DEF Typed, Data
<1>2. /\ pStreamer \in {0, 1} /\ (control # "idle" => pStreamer = 1) /\ (pStreamer = 1 => 1 \in Streamers)
      /\ vPacketQueue \in Seq(Packets)
  BY SessionAssumption DEF Typed, Table, Data, Once, Streamers
<1> SUFFICES ASSUME NEW i \in DOMAIN sent', Latest(i)'
             PROVE  sent'[i].from = 1 /\ Ahead(Due(i))'
  BY DEF Follows
<1>3. CASE PauseNotify
  <2>1. m.kind = "Pause.Notify"
    BY <1>3 DEF PauseNotify, PlayAnswer, SeekAnswer
  <2>2. m.kind \notin Answers /\ m.kind # "media"
    BY <2>1 DEF Answers
  <2>3. i \in DOMAIN sent
    BY <1>1, <2>2 DEF Latest
  <2>4. Latest(i) /\ MediaAfter(i)' = MediaAfter(i) /\ sent'[i] = sent[i]
    <3>1. sent'[i] = sent[i]
      BY <1>1, <2>3
    <3>2. Latest(i)
      BY <1>1, <2>3, <3>1 DEF Latest
    <3>3. MediaAfter(i)' = MediaAfter(i)
      BY <1>1, <2>2 DEF MediaAfter, IsMedia
    <3> QED BY <3>1, <3>2, <3>3
  <2>5. Due(i)' = Due(i) /\ sent[i].from = 1 /\ Ahead(Due(i))
    BY <2>3, <2>4 DEF Due, Follows
  <2>6. UNCHANGED <<mine, position, vPacketQueue, bPauseAfterSeek>>
    BY <1>3 DEF PauseNotify, playback, flags
  <2> QED BY <2>4, <2>5, <2>6 DEF Ahead, Hand, mine
<1>4. CASE PlayAnswer \/ SeekAnswer
  <2>1. m.kind \in Answers
    BY <1>4 DEF Answers, PauseNotify, PlayAnswer, SeekAnswer
  <2>2. i = Len(sent) + 1
    BY <1>1, <2>1 DEF Latest
  <2>3. MediaAfter(i)' = {} /\ sent'[i] = m
    BY <1>1, <2>2 DEF MediaAfter
  <2>4. Due(i)' = m.pos
    <3>1. Cardinality(MediaAfter(i))' = 0
      BY <2>3, FS_EmptySet
    <3>2. m.pos \in Int
      BY SessionAssumption DEF Messages
    <3> QED BY <2>3, <3>1, <3>2 DEF Due
  <2>5. CASE PlayAnswer
    <3>1. /\ control = "reset" /\ m.pos = 0 /\ UNCHANGED <<mine, position, vPacketQueue>>
      BY <2>5 DEF PlayAnswer, playback, PauseNotify, SeekAnswer
    <3>2. m.from = 1 /\ 1 \in Streamers
      BY <1>2, <3>1
    <3>3. /\ vPacketQueue = <<>> /\ thread \in {"receive", "process"} /\ position[1] = 0
      BY <3>1, <3>2 DEF Begins, Unbegun
    <3>4. /\ vPacketQueue' = <<>> /\ thread' \in {"receive", "process"} /\ position'[1] = 0 /\ Hand' = 0
          /\ DOMAIN vPacketQueue' = {} /\ Len(vPacketQueue') = 0
      BY <3>1, <3>3 DEF Hand, Sends, mine
    <3>5. Due(i)' = 0
      BY <2>4, <3>1
    <3> QED BY <2>3, <3>2, <3>4, <3>5 DEF Ahead, Sends
  <2>6. CASE SeekAnswer
    <3>1. /\ thread = "answer" /\ thread' = "play" /\ m.pos = seekTo /\ UNCHANGED <<seekTo, position, vPacketQueue>>
      BY <2>6 DEF SeekAnswer, playback, PauseNotify, PlayAnswer
    <3>2. m.from = 1
      BY <1>2, <3>1 DEF Begins, Unbegun
    <3>3. vPacketQueue = <<>> /\ position[1] = seekTo /\ seekTo \in Int
      BY <3>1 DEF Follows, FromOne, Typed, Playback
    <3>4. /\ vPacketQueue' = <<>> /\ position'[1] = seekTo' /\ Hand' = 0 /\ Len(vPacketQueue') = 0 /\ DOMAIN vPacketQueue' = {}
      BY <3>1, <3>3 DEF Hand, Sends
    <3>5. Due(i)' = seekTo'
      BY <2>4, <3>1
    <3> QED BY <2>3, <3>1, <3>2, <3>3, <3>4, <3>5 DEF Ahead, Sends
  <2> QED BY <1>4, <2>5, <2>6
<1> QED BY <1>3, <1>4

(* One more packet after a message makes the next position due.             *)
LEMMA OneMore == \A p \in Int : \A n \in Nat : p + (n + 1) = p + n + 1
OBVIOUS

(* A packet that is sent is the one that was due, and the next one is due.  *)
LEMMA FollowsSend ==
  ASSUME Typed, Follows, FromOne', Send, packet \in Packets, Shown(packet) \in Messages, sent' = Append(sent, Shown(packet))
  PROVE  /\ Follows'
         /\ \A i \in DOMAIN sent : Latest(i) => Shown(packet).from = sent[i].from /\ Shown(packet).pos = Due(i)
<1>1. /\ Len(sent) \in Nat /\ DOMAIN sent = 1..Len(sent) /\ DOMAIN sent' = 1..Len(sent) + 1
      /\ (\A i \in DOMAIN sent : sent'[i] = sent[i]) /\ sent'[Len(sent) + 1] = Shown(packet)
  BY Behind DEF Typed, Data
<1>2. /\ thread = "sending" /\ thread' = "receive" /\ UNCHANGED <<position, vPacketQueue, bPauseAfterSeek>>
      /\ Hand = 1 /\ Hand' = 0
  BY DEF Send, playback, flags, Hand, Sends
<1>3. \A i \in DOMAIN sent : Latest(i) => Shown(packet).from = sent[i].from /\ Shown(packet).pos = Due(i)
  BY <1>2 DEF Follows, FromOne, Ahead, Shown, Sends
<1>4. ASSUME NEW i \in DOMAIN sent', Latest(i)'
      PROVE  sent'[i].from = 1 /\ Ahead(Due(i))'
  <2>1. i \in DOMAIN sent /\ sent'[i] = sent[i]
    BY <1>1, <1>4 DEF Latest, Answers, Shown
  <2>2. Latest(i)
    BY <1>1, <1>4, <2>1 DEF Latest
  <2>3. MediaAfter(i)' = MediaAfter(i) \cup {Len(sent) + 1} /\ Len(sent) + 1 \notin MediaAfter(i)
    BY <1>1, <2>1 DEF MediaAfter, IsMedia, Shown
  <2>4. Cardinality(MediaAfter(i))' = Cardinality(MediaAfter(i)) + 1
    BY <2>1, <2>3, CountMedia DEF Typed
  <2>5. Due(i) \in Int /\ Cardinality(MediaAfter(i)) \in Nat /\ sent[i].pos \in Int
    <3>1. sent[i] \in Messages
      BY <2>1, ElementOfSeq, <1>1 DEF Typed, Data
    <3> QED BY <2>1, <3>1, CountMedia, SessionAssumption DEF Typed, Messages
  <2>6. Due(i)' = Due(i) + 1
    <3>1. sent'[i].pos = sent[i].pos
      BY <2>1
    <3>2. Due(i)' = sent'[i].pos + Cardinality(MediaAfter(i))'
      BY Zenon DEF Due
    <3>3. Due(i) = sent[i].pos + Cardinality(MediaAfter(i))
      BY Zenon DEF Due
    <3>4. sent[i].pos + (Cardinality(MediaAfter(i)) + 1) = sent[i].pos + Cardinality(MediaAfter(i)) + 1
      BY <2>5, OneMore, Zenon
    <3> QED BY <3>1, <3>2, <3>3, <3>4, <2>4, Zenon
  <2>7. sent[i].from = 1 /\ Ahead(Due(i))
    BY <2>1, <2>2 DEF Follows
  <2>8. ASSUME ~bPauseAfterSeek
        PROVE  /\ \A k \in DOMAIN vPacketQueue : vPacketQueue[k].pos = Due(i) + 1 + k - 1
               /\ position[1] = Due(i) + 1 + Len(vPacketQueue)
    BY <1>2, <2>7, <2>8 DEF Ahead
  <2>9. vPacketQueue \in Seq(Packets) /\ Len(vPacketQueue) \in Nat /\ DOMAIN vPacketQueue = 1..Len(vPacketQueue)
    BY LenProperties DEF Typed, Data
  <2>10. ASSUME ~bPauseAfterSeek'
         PROVE  /\ \A k \in DOMAIN vPacketQueue' : vPacketQueue'[k].pos = Due(i)' + 0 + k - 1
                /\ position'[1] = Due(i)' + 0 + Len(vPacketQueue')
    BY <1>2, <2>5, <2>6, <2>8, <2>9, <2>10
  <2> QED BY <1>2, <2>1, <2>7, <2>10 DEF Ahead, Sends
<1> QED BY <1>3, <1>4 DEF Follows
(* The stream of the first "play", with what it needs.                      *)
Plays == Once => Begins /\ Sought /\ Follows /\ StreamFollowsAnswer

(* Every step keeps it.                                                     *)
LEMMA PlaysKept == ASSUME Typed, Plays, Next PROVE Plays'
<1> SUFFICES ASSUME Once' PROVE Begins' /\ Sought' /\ Follows' /\ StreamFollowsAnswer'
  BY DEF Plays
<1>1. Once
  <2>1. pStreamer' = pStreamer \/ pStreamer' = pStreamer + 1
    BY DEF Next, ControlStep, PlaySteps, ThreadStep, SeekSteps, streamers, PlayCreate, PlayBuild,
       PlayReset, PlayResetAfterSeek, PlayResetPause, PlayAnswer, PlayStart, Pause, PauseNotify,
       Unpause, UnpauseSeek, UnpauseFlag, Seek, PauseRaw, Receive, PauseAfterFrame, PauseStream,
       Send, BeginPass, Stream, EndPass, TakeSeek, ClearSeek, SeekFlush, SeekStream, SeekAnswer,
       SeekPlay, SeekDone
  <2> QED BY <2>1, SessionAssumption DEF Once, Typed, Table
<1>2. Begins /\ Sought /\ Follows /\ StreamFollowsAnswer
  BY <1>1 DEF Plays
<1>3. Begins' /\ Sought' /\ FromOne'
  BY <1>1, <1>2, BeginsKept, SoughtKept, FromOneKept DEF Follows
<1>4. CASE sent' = sent /\ ~PlayAnswer /\ ~PauseNotify /\ ~SeekAnswer /\ ~Send
  <2>1. Follows'
    BY <1>1, <1>2, <1>3, <1>4, FollowsSilent
  <2>2. StreamFollowsAnswer'
    BY <1>2, <1>4 DEF StreamFollowsAnswer, IsMedia, Between
  <2> QED BY <1>3, <2>1, <2>2
<1>5. ASSUME NEW m \in Messages, sent' = Append(sent, m), m.from = pStreamer,
             \/ PlayAnswer /\ m.kind = "Play.Start" /\ m.pos = 0
             \/ PauseNotify /\ m.kind = "Pause.Notify"
             \/ SeekAnswer /\ m.kind \in {"Seek.Notify", "Unpause.Notify"} /\ m.pos = seekTo
      PROVE  Follows' /\ StreamFollowsAnswer'
  <2>1. Follows'
    BY <1>1, <1>2, <1>3, <1>5, FollowsAnswer
  <2>2. m.kind # "media"
    BY <1>5
  <2> QED BY <1>2, <1>5, <2>1, <2>2, StillFollows
<1>6. CASE Send /\ packet \in Packets /\ Shown(packet) \in Messages /\ sent' = Append(sent, Shown(packet))
  BY <1>2, <1>3, <1>6, FollowsSend, StillFollows
<1>7. \/ sent' = sent /\ ~PlayAnswer /\ ~PauseNotify /\ ~SeekAnswer /\ ~Send
      \/ \E m \in Messages :
           /\ sent' = Append(sent, m) /\ m.from = pStreamer
           /\ \/ PlayAnswer /\ m.kind = "Play.Start" /\ m.pos = 0
              \/ PauseNotify /\ m.kind = "Pause.Notify"
              \/ SeekAnswer /\ m.kind \in {"Seek.Notify", "Unpause.Notify"} /\ m.pos = seekTo
      \/ Send /\ packet \in Packets /\ Shown(packet) \in Messages /\ sent' = Append(sent, Shown(packet))
  BY Sending DEF Typed, Answered
<1> QED BY <1>3, <1>4, <1>5, <1>6, <1>7

(* While the client has asked for one stream, what it is sent after an      *)
(* answer is that stream from the answered position on, packet by packet,   *)
(* whatever it pauses, resumes and seeks. With a second "play" this is not  *)
(* so: the streamer of the first one goes on.                               *)
THEOREM StreamAsAnswered == Spec => [](Once => StreamFollowsAnswer)
<1>1. Init => Plays
  <2> SUFFICES ASSUME Init PROVE Begins /\ Sought /\ Follows /\ StreamFollowsAnswer
    BY DEF Plays
  <2>1. sent = <<>> /\ DOMAIN sent = {} /\ vPacketQueue = <<>> /\ DOMAIN vPacketQueue = {} /\ thread = "receive"
    BY DEF Init
  <2>2. Begins /\ Sought
    BY DEF Init, Begins, Sought
  <2>3. Follows
    BY <2>1 DEF Follows, FromOne, Sends
  <2> QED BY <2>1, <2>2, <2>3 DEF StreamFollowsAnswer
<1>2. Typed /\ Plays /\ [Next]_vars => Plays'
  <2> SUFFICES ASSUME Typed, Plays, [Next]_vars PROVE Plays'
    OBVIOUS
  <2>1. CASE UNCHANGED vars
    <3>1. UNCHANGED <<control, thread, packet, seekTo, table, pStreamer, pStreamerInterface, position, paused,
                      bPauseAfterSeek, iSeek, vPacketQueue, sent>>
      BY <2>1 DEF vars, mine, streamers, playback, flags
    <3>2. (Once' <=> Once) /\ (Begins' <=> Begins) /\ (Sought' <=> Sought) /\ (FromOne' <=> FromOne)
      BY <3>1 DEF Once, Begins, Sought, Unbegun, FromOne
    <3>3. \A i \in DOMAIN sent : (Latest(i)' <=> Latest(i)) /\ Due(i)' = Due(i)
      BY <3>1 DEF Latest, Due, MediaAfter, IsMedia
    <3>4. Follows' <=> Follows
      BY <3>1, <3>2, <3>3 DEF Follows, Ahead, Hand
    <3>5. StreamFollowsAnswer' <=> StreamFollowsAnswer
      BY <3>1 DEF StreamFollowsAnswer, Between, IsMedia
    <3> QED BY <3>2, <3>4, <3>5 DEF Plays
  <2> QED BY <2>1, PlaysKept
<1>3. Plays => (Once => StreamFollowsAnswer)
  BY DEF Plays
<1> QED BY <1>1, <1>2, <1>3, TypedAtStart, TypedKept, PTL DEF Spec
=============================================================================

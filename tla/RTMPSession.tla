----------------------------- MODULE RTMPSession -----------------------------
(***************************************************************************)
(* An RTMP session that plays a file (Communicator/RTMP/RTMPSession.cpp):  *)
(* the control thread mainThreadA(), which handles the commands of the     *)
(* client one after the other, and the session's privileged thread, which  *)
(* runs receive() for every packet in the queue and then process(), in     *)
(* turns (module PrivilegedThread).                                        *)
(*                                                                         *)
(* process() schedules the streamers of the session, nested components     *)
(* without threads whose packets end in the session's queue, and then does *)
(* the seek the control thread has asked for. The two threads share flags  *)
(* and pointers without a lock; every access of theirs that the other one  *)
(* can disturb is a step. A streamer is its play position and whether its  *)
(* scheduler is paused. A packet is its position in the stream.            *)
(***************************************************************************)
EXTENDS Integers, Sequences, FiniteSets

CONSTANTS
  Last,        \* the last position of the stream
  MainFrames,  \* the positions that end a frame of the main stream (iMainStream)
  Targets,     \* the positions a client seeks to
  MaxPlays,    \* bound: "play" commands, each makes a streamer
  MaxCommands, \* bound: the other commands
  MaxQueue     \* bound: packets a pass of the streamers makes

ASSUME SessionAssumption ==
  /\ Last \in Nat /\ MainFrames \subseteq 0..Last /\ Targets \subseteq 0..Last
  /\ MaxPlays \in Nat /\ MaxCommands \in Nat /\ MaxQueue \in Nat

VARIABLES
  control,         \* where mainThreadA() is in a handler
  commands,        \* how many commands it has handled
  thread,          \* where the privileged thread is
  packet,          \* the packet it receives
  seekTo,          \* handleSeek()'s local iLocalSeek
  table,           \* streamers of oProcessorManager that are not stopped
  pStreamer,       \* the number of the newest streamer, 0 if none
  pStreamerInterface, \* the streamer that play() and pause() go to, 0 if none
  built,           \* the streamers whose createComponents() has returned
  paused,          \* per streamer: its scheduler's bPause
  position,        \* per streamer: the next frame it sends
  bPause, bPauseAfterSeek, bUnpause, iSeek,
  vPacketQueue,    \* the session's queue
  rawPaused,       \* history: the last pauseRaw asked to pause
  sent             \* what the client was sent: answers, media

Streamers == 1..MaxPlays

flags == <<bPause, bPauseAfterSeek, bUnpause, iSeek>>
streamers == <<table, pStreamer, pStreamerInterface, built>>
playback == <<paused, position>>
mine == <<thread, packet, seekTo>>
vars == <<control, commands, mine, streamers, playback, flags, vPacketQueue, rawPaused, sent>>

Init ==
  /\ control = "idle" /\ commands = 0
  /\ thread = "receive" /\ packet = <<>> /\ seekTo = -1
  /\ table = {} /\ pStreamer = 0 /\ pStreamerInterface = 0 /\ built = {}
  /\ paused = [s \in Streamers |-> TRUE] /\ position = [s \in Streamers |-> 0]
  /\ bPause = FALSE /\ bPauseAfterSeek = FALSE /\ bUnpause = FALSE /\ iSeek = -1
  /\ vPacketQueue = <<>> /\ rawPaused = FALSE /\ sent = <<>>

Answer(kind, p) == sent' = Append(sent, [kind |-> kind, from |-> pStreamer, pos |-> p])

(* streamPlay() and streamPause() reach the streamer, if there is one.      *)
SetPaused(b) ==
  paused' = IF pStreamer = 0 THEN paused ELSE [paused EXCEPT ![pStreamerInterface] = b]

-----------------------------------------------------------------------------
(* The control thread. "play": createStream() asks for the current streamer *)
(* to be stopped, by its full name, and the manager, which knows it by the  *)
(* short one, does not find it. Then it makes the next one ...              *)
PlayCreate ==
  /\ control = "idle" /\ pStreamer < MaxPlays
  /\ thread # "process"
  /\ control' = "created"
  /\ pStreamer' = pStreamer + 1
  /\ table' = table \cup {pStreamer + 1}
  /\ UNCHANGED <<commands, mine, pStreamerInterface, built, playback, flags, vPacketQueue,
                 rawPaused, sent>>

(* ... builds its components ...                                            *)
PlayBuild ==
  /\ control = "created" /\ control' = "built"
  /\ pStreamerInterface' = pStreamer
  /\ built' = built \cup {pStreamer}
  /\ UNCHANGED <<commands, mine, table, pStreamer, playback, flags, vPacketQueue, rawPaused, sent>>

(* ... resets the seek and both pauses, one after the other, answers, and   *)
(* plays.                                                                   *)
PlayReset ==
  /\ control = "built" /\ control' = "noSeek"
  /\ iSeek' = -1
  /\ UNCHANGED <<commands, mine, streamers, playback, bPause, bPauseAfterSeek, bUnpause,
                 vPacketQueue, rawPaused, sent>>

PlayResetAfterSeek ==
  /\ control = "noSeek" /\ control' = "noPauseAfterSeek"
  /\ bPauseAfterSeek' = FALSE
  /\ UNCHANGED <<commands, mine, streamers, playback, bPause, bUnpause, iSeek, vPacketQueue,
                 rawPaused, sent>>

PlayResetPause ==
  /\ control = "noPauseAfterSeek" /\ control' = "reset"
  /\ bPause' = FALSE
  /\ UNCHANGED <<commands, mine, streamers, playback, bPauseAfterSeek, bUnpause, iSeek,
                 vPacketQueue, rawPaused, sent>>

PlayAnswer ==
  /\ control = "reset" /\ control' = "answered"
  /\ Answer("Play.Start", 0)
  /\ UNCHANGED <<commands, mine, streamers, playback, flags, vPacketQueue, rawPaused>>

PlayStart ==
  /\ control = "answered" /\ control' = "idle"
  /\ SetPaused(FALSE) /\ rawPaused' = FALSE
  /\ UNCHANGED <<commands, mine, streamers, position, flags, vPacketQueue, sent>>

(* The other commands come when the stream plays (a client that seeks       *)
(* before its first "play" is answered has it handled without a streamer).  *)
Commanded == control = "idle" /\ pStreamer > 0 /\ commands < MaxCommands /\ commands' = commands + 1

Pause ==
  /\ Commanded /\ control' = "notify"
  /\ bPause' = TRUE
  /\ UNCHANGED <<mine, streamers, playback, bPauseAfterSeek, bUnpause, iSeek, vPacketQueue,
                 rawPaused, sent>>

PauseNotify ==
  /\ control = "notify" /\ control' = "idle"
  /\ Answer("Pause.Notify", 0)
  /\ UNCHANGED <<commands, mine, streamers, playback, flags, vPacketQueue, rawPaused>>

Unpause ==
  /\ Commanded /\ control' = "unpause"
  /\ bPause' = FALSE
  /\ UNCHANGED <<mine, streamers, playback, bPauseAfterSeek, bUnpause, iSeek, vPacketQueue,
                 rawPaused, sent>>

UnpauseSeek ==
  \E p \in Targets :
    /\ control = "unpause" /\ control' = "unpauseFlag"
    /\ iSeek' = p
    /\ UNCHANGED <<commands, mine, streamers, playback, bPause, bPauseAfterSeek, bUnpause,
                   vPacketQueue, rawPaused, sent>>

UnpauseFlag ==
  /\ control = "unpauseFlag" /\ control' = "idle"
  /\ bUnpause' = TRUE
  /\ UNCHANGED <<commands, mine, streamers, playback, bPause, bPauseAfterSeek, iSeek,
                 vPacketQueue, rawPaused, sent>>

Seek ==
  \E p \in Targets :
    /\ Commanded /\ UNCHANGED control
    /\ iSeek' = p
    /\ UNCHANGED <<mine, streamers, playback, bPause, bPauseAfterSeek, bUnpause,
                   vPacketQueue, rawPaused, sent>>

PauseRaw ==
  \E b \in BOOLEAN :
    /\ Commanded /\ UNCHANGED control
    /\ SetPaused(b) /\ rawPaused' = b
    /\ UNCHANGED <<mine, streamers, position, flags, vPacketQueue, sent>>

-----------------------------------------------------------------------------
(* The privileged thread. receive(): drop the packet, or send it, or, while *)
(* the client pauses, send the end of one frame and pause the streamer.     *)
Receive ==
  /\ thread = "receive" /\ vPacketQueue # <<>>
  /\ vPacketQueue' = Tail(vPacketQueue)
  /\ IF bPauseAfterSeek
       THEN UNCHANGED <<thread, packet>>
       ELSE /\ packet' = Head(vPacketQueue)
            /\ thread' = IF bPause /\ packet'.pos \in MainFrames THEN "pausing" ELSE "sending"
  /\ UNCHANGED <<control, commands, seekTo, streamers, playback, flags, rawPaused, sent>>

(* Faulty: the streamer is paused, but what is queued is still sent.        *)
PauseAfterFrameUnmarked ==
  /\ thread = "pausing" /\ thread' = "pauseStream"
  /\ UNCHANGED <<control, commands, packet, seekTo, streamers, playback, flags, vPacketQueue,
                 rawPaused, sent>>

PauseAfterFrame ==
  /\ thread = "pausing" /\ thread' = "pauseStream"
  /\ bPauseAfterSeek' = TRUE
  /\ UNCHANGED <<control, commands, packet, seekTo, streamers, playback, bPause, bUnpause,
                 iSeek, vPacketQueue, rawPaused, sent>>

PauseStream ==
  /\ thread = "pauseStream" /\ thread' = "sending"
  /\ SetPaused(TRUE)
  /\ UNCHANGED <<control, commands, packet, seekTo, streamers, position, flags, vPacketQueue,
                 rawPaused, sent>>

Send ==
  /\ thread = "sending" /\ thread' = "receive"
  /\ sent' = Append(sent, [kind |-> "media", from |-> packet.from, pos |-> packet.pos])
  /\ packet' = <<>>
  /\ UNCHANGED <<control, commands, seekTo, streamers, playback, flags, vPacketQueue, rawPaused>>

(* process(): a pass over the streamers, under the lock of their table ...  *)
BeginPass ==
  /\ thread = "receive" /\ vPacketQueue = <<>> /\ thread' = "process"
  /\ UNCHANGED <<control, commands, packet, seekTo, streamers, playback, flags, vPacketQueue,
                 rawPaused, sent>>

Stream(s) ==
  /\ thread = "process" /\ Len(vPacketQueue) < MaxQueue
  /\ s \in table \cap built /\ ~paused[s] /\ position[s] <= Last
  /\ vPacketQueue' = Append(vPacketQueue, [from |-> s, pos |-> position[s]])
  /\ position' = [position EXCEPT ![s] = @ + 1]
  /\ UNCHANGED <<control, commands, mine, streamers, paused, flags, rawPaused, sent>>

(* ... and then the seek, if one is asked for. It is tested, read and reset *)
(* one after the other: what is asked for between the last two is lost.     *)
EndPass ==
  /\ thread = "process" /\ thread' = IF iSeek >= 0 THEN "take" ELSE "receive"
  /\ UNCHANGED <<control, commands, packet, seekTo, streamers, playback, flags, vPacketQueue,
                 rawPaused, sent>>

TakeSeek ==
  /\ thread = "take" /\ thread' = "taken"
  /\ seekTo' = iSeek
  /\ UNCHANGED <<control, commands, packet, streamers, playback, flags, vPacketQueue, rawPaused, sent>>

ClearSeek ==
  /\ thread = "taken" /\ thread' = "flush"
  /\ iSeek' = -1
  /\ UNCHANGED <<control, commands, packet, seekTo, streamers, playback, bPause, bPauseAfterSeek,
                 bUnpause, vPacketQueue, rawPaused, sent>>

(* Faulty: the session's own queue is not flushed.                          *)
SeekFlushStreamerOnly ==
  /\ thread = "flush" /\ thread' = "seek"
  /\ paused' = [paused EXCEPT ![pStreamer] = FALSE]
  /\ UNCHANGED <<control, commands, packet, seekTo, streamers, position, flags, vPacketQueue,
                 rawPaused, sent>>

(* streamSeek(): the flush of the streamer takes what it has read ahead,    *)
(* which its position does not count, and resets its scheduler; the flush   *)
(* of the session empties the queue; then pause and seek.                   *)
SeekFlush ==
  /\ thread = "flush" /\ thread' = "seek"
  /\ paused' = [paused EXCEPT ![pStreamer] = FALSE]
  /\ vPacketQueue' = <<>>
  /\ UNCHANGED <<control, commands, packet, seekTo, streamers, position, flags, rawPaused, sent>>

(* A "play" may have reset iSeek between test and read: 0xFFFFFFFF plus the *)
(* duration of a frame, modulo 2^32 (FFmpegReader::seek), is the beginning. *)
SeekStream ==
  /\ thread = "seek" /\ thread' = "answer"
  /\ paused' = [paused EXCEPT ![pStreamerInterface] = TRUE]
  /\ position' = [position EXCEPT ![pStreamerInterface] = IF seekTo < 0 THEN 0 ELSE seekTo]
  /\ UNCHANGED <<control, commands, packet, seekTo, streamers, flags, vPacketQueue, rawPaused, sent>>

(* The answers, and the streamer plays again: while the client pauses, up   *)
(* to the first frame.                                                      *)
SeekAnswer ==
  /\ thread = "answer" /\ thread' = "play"
  /\ Answer(IF bUnpause THEN "Unpause.Notify" ELSE "Seek.Notify", seekTo)
  /\ UNCHANGED <<control, commands, packet, seekTo, streamers, playback, flags, vPacketQueue, rawPaused>>

SeekPlay ==
  /\ thread = "play" /\ thread' = "played"
  /\ SetPaused(FALSE)
  /\ UNCHANGED <<control, commands, packet, seekTo, streamers, position, flags, vPacketQueue,
                 rawPaused, sent>>

(* Faulty: what the pause has set is not reset by the seek that ends it.    *)
SeekDoneStillPaused ==
  /\ thread = "played" /\ thread' = "receive"
  /\ bUnpause' = FALSE /\ seekTo' = -1
  /\ UNCHANGED <<control, commands, packet, streamers, playback, bPause, bPauseAfterSeek, iSeek,
                 vPacketQueue, rawPaused, sent>>

SeekDone ==
  /\ thread = "played" /\ thread' = "receive"
  /\ bUnpause' = FALSE /\ bPauseAfterSeek' = FALSE /\ seekTo' = -1
  /\ UNCHANGED <<control, commands, packet, streamers, playback, bPause, iSeek, vPacketQueue,
                 rawPaused, sent>>

-----------------------------------------------------------------------------
PlaySteps == PlayBuild \/ PlayReset \/ PlayResetAfterSeek \/ PlayResetPause \/ PlayAnswer \/ PlayStart
ControlStep == PlaySteps \/ PauseNotify \/ UnpauseSeek \/ UnpauseFlag
SeekSteps == TakeSeek \/ ClearSeek \/ SeekFlush \/ SeekStream \/ SeekAnswer \/ SeekPlay \/ SeekDone
ThreadStep == Receive \/ PauseAfterFrame \/ PauseStream \/ Send \/ BeginPass \/ EndPass \/ SeekSteps

Next ==
  \/ PlayCreate \/ Pause \/ Unpause \/ Seek \/ PauseRaw
  \/ ControlStep \/ ThreadStep
  \/ \E s \in Streamers : Stream(s)

Spec == Init /\ [][Next]_vars

(* Both threads run, and a streamer that plays has a packet due in some of  *)
(* the passes (Scheduler: OverdueIsSent). The client need not do anything.  *)
FairSpec ==
  /\ Spec /\ WF_vars(ControlStep) /\ WF_vars(ThreadStep)
  /\ \A s \in Streamers : SF_vars(Stream(s))

-----------------------------------------------------------------------------
(* The values every variable ranges over.                                   *)
TypeOK ==
  /\ control \in {"idle", "created", "built", "noSeek", "noPauseAfterSeek", "reset", "answered",
                  "notify", "unpause", "unpauseFlag"}
  /\ thread \in {"receive", "pausing", "pauseStream", "sending", "process", "take", "taken", "flush",
                 "seek", "answer", "play", "played"}
  /\ commands \in 0..MaxCommands /\ seekTo \in -1..Last /\ iSeek \in -1..Last
  /\ table \subseteq Streamers /\ built \subseteq table
  /\ pStreamer \in 0..MaxPlays /\ pStreamerInterface \in 0..pStreamer
  /\ paused \in [Streamers -> BOOLEAN] /\ position \in [Streamers -> 0..(Last + 1)]
  /\ vPacketQueue \in Seq([from : Streamers, pos : 0..Last])

IsMedia(i) == sent[i].kind = "media"
Answers == {"Play.Start", "Seek.Notify", "Unpause.Notify"}
Between(i, j) == {k \in DOMAIN sent : i < k /\ k < j}

(* After the answer to "play" or to a seek the client is sent the stream    *)
(* from the asked position on, frame by frame, and no frame from before:    *)
(* "so no messages arrive before the RTMP response is sent" (streamSeek).   *)
StreamFollowsAnswer ==
  \A i, j \in DOMAIN sent :
    (i < j /\ sent[i].kind \in Answers /\ IsMedia(j)
      /\ \A k \in Between(i, j) : sent[k].kind \notin Answers)
    => /\ sent[j].from = sent[i].from
       /\ sent[j].pos = sent[i].pos + Cardinality({k \in Between(i, j) : IsMedia(k)})

(* While the client pauses, at most two frames of the main stream reach it  *)
(* after the answer to its "pause": the one receive() was about to send,    *)
(* and the one after which it pauses the streamer. (A second "play" ends a  *)
(* pause in two writes; in between it is half undone.)                      *)
PausedIsQuiet ==
  \A i \in DOMAIN sent :
    LET after == {k \in DOMAIN sent : k > i} IN
    (/\ bPause /\ control \notin {"notify", "noPauseAfterSeek"}
     /\ sent[i].kind = "Pause.Notify" /\ \A k \in after : IsMedia(k))
    => Cardinality({k \in after : sent[k].pos \in MainFrames}) <= 2

(* A client that has ended with the stream running is sent all of it,       *)
(* whatever pauses, seeks and resumptions the two threads had to sort out.  *)
Resumed == control = "idle" /\ pStreamer > 0 /\ commands = MaxCommands /\ ~bPause /\ ~rawPaused

ResumedIsSent ==
  Resumed ~> (Len(sent) > 0 /\ sent[Len(sent)].pos = Last /\ IsMedia(Len(sent)))

(* A seek that is asked for is done, or replaced by one that is asked for   *)
(* later (handleCommandSeek() and the answer to it).                        *)
NoSeekIsLost == [][ClearSeek => seekTo = iSeek]_vars

(* Packets are dropped while the client pauses, or until its seek is done   *)
(* ("only send one frame after the pause", receive()). With a second "play" *)
(* the pause of the first may be noticed when it has been reset.            *)
DroppedWhilePaused ==
  control = "idle" /\ thread = "receive" /\ bPauseAfterSeek => bPause \/ iSeek >= 0

(* When a "play" is done, the streamer it replaces is stopped ("Kill the    *)
(* current streamer", createStream()).                                      *)
ReplacedIsStopped == control = "built" => table = {pStreamer}
=============================================================================

------------------------------ MODULE Segmenter ------------------------------
(***************************************************************************)
(* The pipeline of the TS-segmenter (Segmenter.cpp), for one bit rate: an  *)
(* ffmpeg-reader, a TS-multiplexer, a time-splitter, a fragmented writer   *)
(* and a sink. One thread schedules them in turn; what a component routes  *)
(* is handled at once by the components behind it. So a pass of the        *)
(* multiplexer (process()) runs in steps that nothing interrupts: it tests *)
(* its queues once, takes frames until they cover Shape, then releases the *)
(* transport stream packets it made through splitter, writer and sink.     *)
(* Init, Next and the like are PipelineInit, PipelineNext:                 *)
(* MultiplexerProofs extends this module and Multiplexer both.             *)
(***************************************************************************)
EXTENDS MuxQueues

CONSTANTS
  Shape,     \* iShape: the time one pass of the multiplexer covers
  Interval,  \* iInterval: the duration of a segment
  Loops,     \* the reader's parameter "loop"
  Inc,       \* inc of the media descriptors: how long a frame of a stream lasts
  Files      \* the media files: sequences of frames [stream, dts, key]

Video == 1
Audio == 2
ASSUME SegmenterAssumption ==
  /\ Shape \in Nat \ {0} /\ Interval \in Nat \ {0} /\ Loops \in Nat
  /\ Inc \in [{Video, Audio} -> Nat \ {0}]
  /\ Files \subseteq Seq([stream : {Video, Audio}, dts : Nat, key : BOOLEAN]) \ {<<>>}

(* How Segmenter::init() and TSMultiplexer::init() set up the multiplexer.  *)
VideoAndAudio == Streams = {Video, Audio} /\ Required = 2 /\ Delay > Shape

VARIABLES
  file,     \* the file that is segmented
  pos,      \* the next frame to read
  loop,     \* iLoop
  old,      \* iOldVideoDts, iOldAudioDts; old[0] is iOldDts
  reading,  \* bSchedule of the reader
  pass,     \* the locals of the multiplexer's process(), or NoPass
  psi,      \* the SI counters are 0: the next frame is preceded by the tables
  out,      \* vOut
  cutAt,    \* iDts of the time-splitter
  segs,     \* the files written: sequences of transport stream packets
  open,     \* the writer's oFile is not NULL
  stopped,  \* the sink has called stopProcessors()
  failed    \* selectMux() has thrown "queue should not be empty at this point!"

reader == <<file, pos, loop, old, reading>>
disk == <<cutAt, segs, open, stopped>>
pipelineVars == <<reader, mux, pass, psi, out, disk, failed>>

NoPass == [phase |-> "none", ref |-> None, start |-> 0, refDts |-> 0]

PipelineInit ==
  /\ file \in Files /\ pos = 1 /\ loop = 0 /\ reading = TRUE
  /\ old = [s \in {0, Video, Audio} |-> -1]
  /\ mux = [s \in {} |-> <<>>] /\ pass = NoPass /\ psi = TRUE /\ out = <<>>
  /\ cutAt = -1 /\ segs = <<>> /\ open = FALSE /\ stopped = FALSE /\ failed = FALSE

Idle == pass = NoPass /\ ~stopped /\ ~failed

-----------------------------------------------------------------------------
(* The reader. A dts that does not rise is replaced by one that does: after *)
(* a loop the file's own dts are late until they have caught up, and each   *)
(* stream goes on at the pace of its own frames.                            *)

Frame(f) ==
  LET d == IF f.dts <= old[f.stream] THEN old[f.stream] + Inc[f.stream] ELSE f.dts
  IN  [stream |-> f.stream, type |-> "media", loop |-> loop, n |-> pos,
       frame |-> f.key, dts |-> d, key |-> d]

ReadFrame ==
  LET f == file[pos]
      p == Frame(f)
  IN  /\ Idle /\ reading /\ pos <= Len(file)
      /\ mux' = Received(mux, f.stream, p)
      /\ old' = [old EXCEPT ![0] = p.dts, ![f.stream] = p.dts]
      /\ pos' = pos + 1
      /\ UNCHANGED <<file, loop, reading, pass, psi, out, disk, failed>>

(* The file ends: both streams get a reset or an end, with the last dts.    *)
ReadEnd ==
  LET again == loop < Loops
      c == [type |-> IF again THEN "reset" ELSE "end", loop |-> loop, dts |-> old[0], key |-> old[0]]
  IN  /\ Idle /\ reading /\ pos > Len(file)
      /\ mux' = Received(Received(mux, Video, c), Audio, c)
      /\ pos' = 1 /\ loop' = loop + 1 /\ reading' = again
      /\ UNCHANGED <<file, old, pass, psi, out, disk, failed>>

-----------------------------------------------------------------------------
(* TSMultiplexer::process(). The queues are tested once, for all the frames *)
(* of the pass; the stream with the lowest dts is the reference of the pass. *)

BeginPass ==
  LET s == SelectMux(mux) IN
  /\ Idle /\ CheckMux(mux)
  /\ pass' = [NoPass EXCEPT !.phase = "take", !.ref = s,
                            !.start = IF s = None THEN 0 ELSE Head(mux[s]).dts]
  /\ UNCHANGED <<reader, mux, psi, out, disk, failed>>

Taking == pass.phase = "take" /\ ~failed
Dry == \E s \in DOMAIN mux : mux[s] = <<>>

(* selectMux() throws when it meets an empty queue.                         *)
RunDry ==
  /\ Taking /\ Dry /\ failed' = TRUE
  /\ UNCHANGED <<reader, mux, pass, psi, out, disk>>

(* Faulty variant of Enough: a pass is not limited to Shape. *)
EnoughAtControl(s) == Control(Head(mux[pass.ref]))

Enough(s) ==
  \/ s = pass.ref /\ Head(mux[s]).dts >= pass.start + Shape
  \/ Control(Head(mux[pass.ref]))

(* A frame becomes a few transport stream packets; before a key frame of    *)
(* the video, and when the counters say so, come the tables. All of them    *)
(* have the frame's metadata. (The cyclic repetition of the tables, the     *)
(* clock references and the stuffing are left out.)                         *)
PacketsOf(p) ==
  LET parts == IF psi \/ (p.stream = Video /\ p.frame) THEN <<"psi", "start", "rest">>
                                                       ELSE <<"start", "rest">>
  IN  [i \in DOMAIN parts |-> [stream |-> p.stream, type |-> p.type, loop |-> p.loop, n |-> p.n,
                               frame |-> p.frame, dts |-> p.dts, part |-> parts[i]]]

TakeFrame ==
  LET s == SelectMux(mux) IN
  /\ Taking /\ ~Dry /\ s # None /\ ~Enough(s)
  /\ out' = out \o PacketsOf(Head(mux[s]))
  /\ mux' = [mux EXCEPT ![s] = Tail(@)]
  /\ psi' = FALSE
  /\ UNCHANGED <<reader, pass, disk, failed>>

(* Faulty variant of TakeEnough: the frame has left its queue already. *)
TakeEnoughLost ==
  LET s == SelectMux(mux) IN
  /\ Taking /\ ~Dry /\ s # None /\ Enough(s)
  /\ pass' = [pass EXCEPT !.phase = "release"]
  /\ mux' = [mux EXCEPT ![s] = Tail(@)]
  /\ UNCHANGED <<reader, psi, out, disk, failed>>

TakeEnough ==
  LET s == SelectMux(mux) IN
  /\ Taking /\ ~Dry /\ s # None /\ Enough(s)
  /\ pass' = [pass EXCEPT !.phase = "release"]
  /\ UNCHANGED <<reader, mux, psi, out, disk, failed>>

TakeControl ==
  /\ Taking /\ ~Dry /\ SelectMux(mux) = None
  /\ out' = Append(out, UnifiedOf(mux))
  /\ mux' = AfterReset(mux)
  /\ psi' = TRUE
  /\ pass' = [pass EXCEPT !.phase = "release"]
  /\ UNCHANGED <<reader, disk, failed>>

-----------------------------------------------------------------------------
(* The release of a packet: the splitter starts a new segment before a key  *)
(* frame once Interval has passed, by a reset; the writer closes its file   *)
(* at a reset and opens the next one for the next packet.                   *)

(* Packets of other streams than the reference get the time of the last     *)
(* packet of the reference ("continuous-timestamps" is off).                *)
Stamp(p) == IF p.stream = pass.ref THEN p.dts ELSE pass.refDts
Base(d) == IF cutAt < 0 THEN d ELSE cutAt

(* Faulty variant of Cuts: a cut at any packet, not only at a key frame. *)
CutsAnywhere(p) == Stamp(p) - Base(Stamp(p)) > Interval

Cuts(p) == Stamp(p) - Base(Stamp(p)) > Interval /\ p.frame /\ p.stream = Video

CutBase(p) == Base(Stamp(p)) + (IF Cuts(p) THEN Interval ELSE 0)

Written(p) ==
  IF open /\ ~Cuts(p) THEN [segs EXCEPT ![Len(segs)] = Append(@, p)] ELSE Append(segs, <<p>>)

Releasing == pass.phase = "release" /\ out # <<>>

ReleaseMedia ==
  LET p == Head(out) IN
  /\ Releasing /\ ~Control(p)
  /\ pass' = [pass EXCEPT !.refDts = Stamp(p)]
  /\ cutAt' = CutBase(p) /\ segs' = Written(p) /\ open' = TRUE
  /\ out' = Tail(out)
  /\ UNCHANGED <<reader, mux, psi, stopped, failed>>

(* The splitter sends a reset on twice, an end as a reset and an end; the   *)
(* writer closes its file at each, the sink stops the program at the end.   *)
ReleaseControl ==
  LET p == Head(out) IN
  /\ Releasing /\ Control(p)
  /\ open' = FALSE
  /\ stopped' = (stopped \/ p.type = "end")
  /\ out' = Tail(out)
  /\ UNCHANGED <<reader, mux, pass, psi, cutAt, segs, failed>>

EndPass ==
  /\ pass.phase = "release" /\ out = <<>>
  /\ pass' = NoPass
  /\ UNCHANGED <<reader, mux, psi, out, disk, failed>>

(* Nothing is left to do in the turns of the scheduler.                     *)
PipelineDone ==
  /\ failed \/ (pass = NoPass /\ (stopped \/ (~reading /\ ~CheckMux(mux))))
  /\ UNCHANGED pipelineVars

PipelineNext ==
  \/ ReadFrame \/ ReadEnd
  \/ BeginPass \/ TakeFrame \/ TakeEnough \/ TakeControl \/ RunDry
  \/ ReleaseMedia \/ ReleaseControl \/ EndPass
  \/ PipelineDone

(* The manager schedules the components in turn until they are stopped.     *)
PipelineFairness ==
  /\ WF_pipelineVars(ReadFrame) /\ WF_pipelineVars(ReadEnd) /\ WF_pipelineVars(BeginPass)
  /\ WF_pipelineVars(TakeFrame) /\ WF_pipelineVars(TakeEnough) /\ WF_pipelineVars(TakeControl) /\ WF_pipelineVars(RunDry)
  /\ WF_pipelineVars(ReleaseMedia) /\ WF_pipelineVars(ReleaseControl) /\ WF_pipelineVars(EndPass)

PipelineSpec == PipelineInit /\ [][PipelineNext]_pipelineVars
PipelineFairSpec == PipelineSpec /\ PipelineFairness

-----------------------------------------------------------------------------
Segments == DOMAIN segs
Content(k) == {i \in DOMAIN segs[k] : segs[k][i].part # "psi"}
Before(p, q) ==
  \/ p.loop < q.loop
  \/ p.loop = q.loop /\ p.n < q.n
  \/ p.loop = q.loop /\ p.n = q.n /\ p.part = "start" /\ q.part = "rest"

(* "queue should not be empty at this point!" (Multiplexer.cpp)             *)
NeverDry == ~failed

(* Frame j of file f is the next of its stream after frame i.               *)
Neighbours(f, i, j) ==
  /\ i \in DOMAIN f /\ j \in DOMAIN f /\ i < j /\ f[i].stream = f[j].stream
  /\ \A k \in i + 1..j - 1 : f[k].stream # f[j].stream

(* The most by which the dts of neighbours i and j part: what the file      *)
(* says, or a frame's duration when the reader raises the second one's.     *)
Step(f, i, j) ==
  LET apart == f[j].dts - f[i].dts IN IF apart > Inc[f[j].stream] THEN apart ELSE Inc[f[j].stream]

(* The multiplexer tests its queues once and then takes many frames: a      *)
(* queue runs empty before the pass is over only if a stream has a step     *)
(* that the delay, less what a pass covers, does not bridge.                *)
Gap == \E i, j \in DOMAIN file : Neighbours(file, i, j) /\ Step(file, i, j) > Delay - Shape
DryOnlyAtGaps == failed => Gap

(* Where cuts can keep up with the key frames of file f, in every loop: the *)
(* video begins with one, no frame of it is further than its reach from the *)
(* key frame before it, and a group of pictures - to the next key frame, or *)
(* over the end of the file - and a step of the audio, by which a packet of *)
(* the video can be stamped too early, fit in a segment.                    *)
GroupsFit(f, gap, reach) ==
  /\ \A i, j \in DOMAIN f : i < j /\ f[i].stream = f[j].stream => f[i].dts < f[j].dts
  /\ \A i, j \in DOMAIN f : Neighbours(f, i, j) =>
       \/ f[j].stream = Audio /\ Step(f, i, j) <= gap
       \/ f[j].stream = Video /\ f[j].key /\ reach[i] + Step(f, i, j) + gap <= Interval
       \/ f[j].stream = Video /\ ~f[j].key /\ reach[i] + Step(f, i, j) <= reach[j]
  /\ \A i \in DOMAIN f : reach[i] \in Nat
  /\ \A i \in DOMAIN f : f[i].stream = Video /\ (\A k \in 1..i - 1 : f[k].stream # Video)
                           => f[i].key /\ f[i].dts <= 2 * Interval
  /\ \A i \in DOMAIN f : f[i].stream = Video /\ (\A k \in i + 1..Len(f) : f[k].stream # Video)
                           => reach[i] + Inc[Video] + gap <= Interval

(* A segment can be played on its own: it starts with the tables and, after *)
(* a cut, with a key frame; no frame is cut in two.                         *)
SegmentsStartClean ==
  \A k \in Segments :
    /\ Head(segs[k]).part = "psi"
    /\ k > 1 => \/ Head(segs[k]).stream = Video /\ Head(segs[k]).frame
                \/ Head(segs[k]).loop # Last(segs[k - 1]).loop

(* What was written is in the order of its stream, each frame once; and     *)
(* when the sink stops the program the segments hold everything that was    *)
(* read - through queues, cuts, the loops of the reader and the end that    *)
(* overtakes nothing.                                                       *)
Recorded ==
  /\ \A k, l \in Segments : \A i \in Content(k), j \in Content(l) :
       (k < l \/ (k = l /\ i < j)) /\ segs[k][i].stream = segs[l][j].stream
         => Before(segs[k][i], segs[l][j])
  /\ stopped => \A again \in 0..Loops, n \in DOMAIN file, part \in {"start", "rest"} :
       \E k \in Segments : \E i \in DOMAIN segs[k] :
         segs[k][i].loop = again /\ segs[k][i].n = n /\ segs[k][i].part = part

(* The segmenter comes to its end: every frame leaves the multiplexer and   *)
(* the end gets through to the sink, unless the multiplexer throws.         *)
Terminates == <>(stopped \/ failed)
=============================================================================

# Sirannon: models, checks and proofs

Sirannon is a modular media server and proxy. A configuration is a graph of
*components* (readers, packetizers, schedulers, multiplexers, transmitters,
servers); a component receives media packets, changes or delays them and routes
them to the next ones. Components run in the main thread or in a thread of
their own, servers create sessions with graphs of their own, and clients play,
pause, seek and leave while the graph runs.

This directory holds TLA+ modules that model the core of that program, TLC
configurations that check them on small instances, and proofs for TLAPS. Paths
below are relative to the repository; `PROJECT.json` maps every definition to
the lines it models, and lists hazards, findings, runs and theorems.

    tlc -workers 2 -config Thread.cfg MCPrivilegedThread.tla    # check a run
    tlapm PrivilegedThreadProofs.tla                            # check the proofs

Contents: 1 the system, 2 the modules, 3 the runs, 4 fairness, 5 the proofs,
6 what the code does against its own words, 7 what is not modelled, 8 the plan.

## 1. The system

### 1.1 Who shares what with whom

* **Threads.** The main thread initialises all components of a graph in the
  order of their names, then calls `schedule()` on each that has no thread of
  its own, once per quantum of the clock. A *privileged* thread does this for
  one component with `bThread`. A server's session adds a control thread that
  reads requests (RTMP's `mainThreadA`, HTTP's `requestHandler`). HTTP
  connections of the RTMPT tunnel add one thread each. A server passes over its
  sessions, and from inside over the components of each session, in one thread.
* **Locks.** Every component has a recursive `oFlowMutex`, held during every
  handler, an `oQueueMutex` for its packet queue and an `oThreadMutex` for its
  table of threads. A manager has a mutex for its table of components. A handler
  routes from inside itself, so the stack of handlers of a thread is also the
  set of flow locks it holds: lock order follows the graph downstream. The few
  calls that go *upstream* are where it can go wrong.
* **Calls.** `route()` calls `receivePacket()` of each receiver, which either
  runs the receiver's handler in this thread or queues the packet. Readers walk
  the graph downstream (`getDownstream`, `findSchedulers`) to ask schedulers
  whether they are full. Sessions call `play`, `pause`, `seek` on a streamer,
  which hands them to its scheduler and reader.
* **Lifetime.** `end()` only sets `bStop`; the manager that owns the component
  joins its threads and deletes it in a later pass.

### 1.2 Components

For each: state; operations; what is hard; what makes it correct.

**Component threads** (`src/Core/MediaProcessor*`). Flags `bStop`, `bReceive`,
`bSchedule`; `vPacketQueue`; `mThreads`. `receivePacket`, the privileged loop,
`flush`, `end`, `createThread`, `endThread`, `cancelThreads`, the destructor.
Hard: pop and delivery are two critical sections, `flush()` locks another mutex
than the queue's, a thread removes itself from the table under the lock that is
held while it is joined. Correct: no packet lost, repeated or reordered except
by a flush; deleted only when its thread is gone; a stop ends in a delete.

**Packet routing and startup** (`MediaProcessor::route`, `initProcessors`).
Routing tables with a cache, recursive locks, `bReceive`. Hard: threads of early
components run while later ones are not initialised; a packet is handled
directly or queued according to a flag that changes meanwhile. Correct: order
per source, no handler before `init()`, startup ends.

**Component manager** (`src/Core/ProcessorManager*`). The table of components by
short name, errors, `bStop`. Create (static and dynamic), stop, look up,
schedule, propagate errors. Hard: changed by control threads while a pass runs,
two critical sections in `createProcessorDynamic`, re-entry from a handler, an
exception that ends a pass. Correct: what is stopped is found and goes, and is
never called after it went; a nested error reaches the owner once.

**Schedulers** (`src/Scheduler`). `vBuffer`, `vSend`, `oStarttime`, `oPause`,
`oPrev`, `fSpeed`. `receive`, `process`, `pause`, `play(speed)`, `flush`,
`bufferFull`, five ways to plan. Hard: unsigned clock arithmetic over pauses and
speeds, re-entry from inside `route()`, rounding. Correct: every packet once, in
order, neither early nor late; commands do not move the position.

**Virtual time** (`src/Core/SirannonTime*`). A quantised clock, a simulation mode.

**Live source, live readers, readers** (`src/Reader`). A reader's rate and its
list of schedulers; a live reader's queue, `bSync` and the packets it stores per
stream until it has a key frame of each. Hard: viewers link and unlink while the
source routes; the lock order viewer -> source. Correct: a viewer is sent a
decodable stream without gaps, and the source never meets a dead viewer.

**RTMP session** (`src/Communicator/RTMP/RTMPSession*`). `pStreamer`,
`pStreamerInterface`, `bPause`, `bPauseAfterSeek`, `bUnpause`, `iSeek`; commands
in one thread, media in the other, no lock between them. Hard: flags that one thread
tests, reads and resets in separate steps while the other writes them. Correct: what is
sent follows from the last answer; a pause is quiet; a resumed client is served; no seek
is lost (which one is, section 6).

**File streamer, proxy streamer** (`src/HighLevel`). Build a graph, forward
commands to it.

**Multiplexers** (`src/Multiplexer`). One queue per stream; `checkMux` waits for
data of every known stream, `selectMux` takes the smallest dts, `resetMux` turns
the resets or ends of all streams into one. Hard: streams that join late, end
early, are reset at different moments or stay silent. Correct: dts rise, a reset
separates the same packets before and after, nothing is held for ever unless a stream
has ended before the others.

**Segmenter** (`HighLevel/Segmenter`, with `TSMultiplexer`, `TimeSplitter`,
`FFmpegReader`, `Writer`). A file becomes transport stream segments. Hard: a pass
of the multiplexer tests its queues once and takes many frames; a key frame is
stamped with the dts of earlier audio; the end overtakes nothing. Correct: each
segment can be played on its own, nothing is lost, the program ends.

**RTMPT tunnel** (`RTMPTServer`, `RTMPTConnection`, `RTMPTClient`). Two bounded
buffers between HTTP threads and a session; two flags decide who deletes; one
response object, and one table of header fields, for all threads. Hard: both may
delete, or neither, one side may delete while the other still signals, and clients
may be told each other's hash, or the length of each other's reply. Correct: bytes in
order, a connection is deleted once, and not while its buffers or flags are used.

**RTMP chunk streams** (`RTMPChunkStream`, `RTMPPacketizer`, `RTMPClient`,
`ConnectionInterface`). Headers compressed against the last one, a chunk size that
changes, two threads that write of which one does not lock, reads and writes done
in parts, a seek between two chunks of a frame. Correct: what arrives is what was sent, with its timestamp.

**Blocks and servers, HTTP** (`Core/Block`, `MediaServer`, `MediaSession`,
`HTTPSession`). A component that owns a manager: nested passes, errors upward. An
HTTP session reads requests in one thread, and its streamer sends media in the
server's. Hard: a second request while the streamer of the first still runs;
sessions that fail in either thread; a client that does not read. Correct: nothing
is used after it was deleted, replies are whole and in order, a session ends for
what its own client did.

**RTSP, RTMP client**. Request/response protocols.

**Transmitters and receivers** (`TCPTransmitter`, RTP, UDP, gigabit), **file
readers and writers**, **containers**, **packetizers**, **transcoders**,
**classifiers**, **splitters and restamp**, **configuration**, **helpers**,
**GUI**: see section 7.

## 2. The modules

| module | models | role |
| --- | --- | --- |
| `PrivilegedThread` | one threaded component of `Core/MediaProcessor` | detailed specification |
| `PacketChannel` | what that component promises: a lossy FIFO channel | abstract specification |
| `PrivilegedThreadProofs` | - | theorems about the two |
| `PacketFlow` | packets through a graph, and its startup | detailed specification |
| `SchedulePlans` | the five `makeSchedule()` | operators |
| `SchedulerInput` | what a scheduler keeps of unplanned packets | variables and helpers of the next two |
| `SmoothedStream` | a stream that is planned bit by bit | detailed specification of the plans |
| `Scheduler` | the clock and the commands of a scheduler | detailed specification |
| `LiveSource` | a reader, its link, the viewers that tap it | composition of Reader, Block link, LiveReader, scheduler |
| `RTMPSession` | a session and its streamers | composition of control thread, session, FileStreamer |
| `MuxQueues` | the decisions of every multiplexer on its queues | operators |
| `Multiplexer` | std- and unit-multiplexer with their streams | detailed specification |
| `MergedStreams` | what a multiplexer promises: streams merged by key | abstract specification |
| `Segmenter` | reader, TS-multiplexer, splitter, writer and sink | composition over `MuxQueues` |
| `RTMPTunnel` | HTTP threads, connections and sessions of the tunnel | composition of RTMPTServer, RTMPTConnection, session, clients |
| `ChunkStream` | chunks from a session to a client | composition of two RTMPChunkStreams, RTMPPacketizer, ConnectionInterface |
| `HTTPServer` | a server, its sessions and their streamers | composition of MediaServer, HTTPSession, ProcessorManager |
| `PacketFlowProofs`, `SchedulerProofs`, `LiveSourceProofs`, `RTMPSessionProofs`, `RTMPTunnelProofs`, `HTTPServerProofs` | - | theorems about the module of that name (`SchedulerProofs`: and `SmoothedStream`) |
| `MultiplexerProofs` | - | theorems about `Multiplexer` and `Segmenter` |
| `MC*` | - | graphs, constants and symmetry for TLC |

The modules fit together by what they assume of each other. `PacketFlow` takes
the queue of a threaded component as the FIFO that `PrivilegedThread` is shown to
implement, and `PrivilegedThread` starts where `PacketFlow` ends: no packet before
`init()`. `LiveSource` lets a scheduler answer "full" or "not full" at will, as
`Scheduler` could. `Segmenter` uses the queues of `MuxQueues`, which
`Multiplexer` is shown to turn into a merge. `HTTPServer` takes the life of a
component from `PrivilegedThread` (a stop is a mark, a later pass joins and
deletes) and puts tables of such components inside each other. `RTMPSession` and
`ChunkStream` have the same two threads: the first says what is sent, the second
what becomes of it on the socket. `RTMPSession` relies on `Scheduler`'s
`OverdueIsSent` for the
fairness of a streamer that plays.

Operators whose comment begins with "Faulty" are not part of a
specification: each is a definition as a plausible bug would have it. Put in its
place, it makes the run named beside it in `PROJECT.json` fail, which shows that
the property can fail.

### PrivilegedThread

State: the component's fields under their own names; the owner of each mutex; a
program point for the privileged thread, the manager and the flusher; history
variables (`delivered`, `dropped`, `stale`, `late`).

| actions | code |
| --- | --- |
| `LockPush`, `Push` | `receivePacket()`, the branch that queues |
| `OuterLoop`, `InnerLoop`, `LockPop`, `Pop` | `mainThreadPriviliged()`: two loops, the pop under `oQueueMutex` |
| `EnterReceive`, `Receive`, `EnterProcess`, `Process` | `receive` and `process` under `oFlowMutex`; a handler may route, fail, end the component, or be interrupted where it waits |
| `FailHandler`, `InterruptHandler`, `InterruptionPoint` | exceptions and boost interruption, unwound by `mainThread()` |
| `LockEnd`, `EraseEntry` | `endThread()` |
| `Spawn`, `Insert`, `Flip` | `initProcessor()`, `createThread()`; the flip of `bReceive` and `bSchedule` |
| `PassStopped`, `Teardown`, `Cancel`, `Join`, `Delete` | `scheduleProcessors()` for a stopped component, `~ProcessorManager()`, `cancelThreads()`, the destructor |
| `BeginFlush`, `FlushStep` | `flush()`, which locks `oFlowMutex` and empties a queue that belongs to `oQueueMutex` |

`broken` is undefined behaviour: the data race of `flush()`, and a delete while an
upstream thread queues or a flusher is in `flush()`, for neither of which the destructor
waits. Both are possible, and once one has happened nothing is claimed any more.

### PacketFlow

The stack of handlers of each thread is the state: a frame holds the component,
the packet and the receivers still to be called, and by being on the stack says
that the thread holds the component's recursive lock. `InitComp`, `StartThread`,
`OpenComp` are `initProcessor()`; `Produce` is a source's `process()`; `Take` the
pop of a privileged thread; `Enqueue`, `Spin`, `Call`, `Return` are `route()` and
`receivePacket()`. `Spin` commits the caller to a direct call before the receiver
has set `bThread`, as the order of the tests in the code does. `InSourceOrder`
says that the n-th packet of a source to reach a component is its n-th packet; `Tree`
describes the part of a graph in which one path leads from a source to each component.

### SchedulePlans, SchedulerInput, SmoothedStream, Scheduler

`Plan(variant, b, base)` gives, for the packets in `vBuffer`, the group that is
planned next and the time of each packet. Times count units of which `Ms` make a
millisecond, so that both roundings of the code (per byte, per millisecond) occur.
`SmoothedStream` feeds every short stream through every variant, with plans made
of incomplete groups. Its specification is `StreamSpec`, with `StreamInit`, `StreamNext`
and so on, so that `SchedulerProofs` can extend it and `Scheduler` both; `vBuffer` and
`iBase`, which both have, are in `SchedulerInput`. `Scheduler` has the clock: `Tick`, `Process` (takes the time
once), `MakeSchedule`, `Send`, `Routed`, `Return`, and `Pause`, `Play`, `Flush` from
outside or, for the first two, from inside `route()`. The difference of two times
wraps (`Wrap`), as the unsigned type does.

### LiveSource

One thread for the source, one per viewer; `held` says which locks each has.
`BeginProcess`, `CheckNext`, `DoStep`, `RouteNext`, `EndRoute`, `EndProcess` are
`Reader::process()` with the route to each LiveReader; `Open` is `setRoute`,
`CreateBuffer` the wait for synchronisation, `BeginFind`, `WalkNext`, `EndFind` the
walk that adds the viewer's scheduler, `Feed` the LiveReader's `process()`, `Unlink`
and `Delete` its end (which walks once more). What a viewer stores and queues is kept
per stream; `Dropped` takes the viewer's one route out of the link.

### RTMPSession

Two threads and the streamers they share. A step is what lies between two
accesses the other thread can disturb. `PlayCreate` ... `PlayStart`, `Pause`,
`PauseNotify`, `Unpause`, `UnpauseSeek`, `UnpauseFlag`, `Seek`, `PauseRaw` are the handlers of
`mainThreadA()`; `Receive`, `PauseAfterFrame`, `PauseStream`, `Send` are
`receive()`; `BeginPass`, `Stream`, `EndPass` the pass of the session's manager; `EndPass`, `TakeSeek`,
`ClearSeek` the test, the read and the reset of `iSeek` (what is asked for between the last two
is lost), as a "play" resets the seek and the two pauses one after the other;
`SeekFlush` ... `SeekDone` are `handleSeek()`. A packet is its position in the
stream; `sent` is what the client was sent, answers and media in one line.

### MuxQueues, Multiplexer, MergedStreams

`CheckMux`, `SelectMux`, `UnifiedOf` and `AfterReset` are the functions of those
names (`resetMux()` is the last two) on a map from streams to queues. `Arrive` and
`ArriveControl` are what the components above send, at any moment the multiplexer
is not in `process()`; `BeginProcess`, `Release`, `ResetMux`, `EndProcess` are
`process()`, which holds the lock. `MergedStreams` forgets the queues' readiness:
a packet may be forwarded when no stream can still send an earlier one, and control
packets go when all streams have theirs in front. The mapping takes `waiting` from
the queues and `over` from the streams that left the map.

### Segmenter

One thread; a step is a frame or a packet. `ReadFrame`, `ReadEnd` are the reader
(a dts that does not rise raised by the duration of a frame of its stream, `Inc`; a loop, the end), `BeginPass`, `TakeFrame`,
`TakeEnough`, `TakeControl`, `RunDry` the multiplexer's pass over `MuxQueues`, whose
`mux` holds the queues, `ReleaseMedia` and `ReleaseControl` the way through splitter,
writer and sink, which is one call. Initial states, steps and specification are called
`PipelineInit`, `PipelineNext`, `PipelineSpec`, since `MultiplexerProofs` extends
`Multiplexer` as well. Every packet has the number of the reader's loop and a frame its
place in the file, which the properties compare. A frame makes two packets ("start" and "rest") and, first in a
segment, one of tables ("psi").

### RTMPTunnel

An HTTP thread is at a label `pc[t]` with a pointer `ptr[t]` to a connection that
may be deleted under it. `Hail`, `Open`, `Find`, `FindClose`, `NotFound`,
`NotFoundClose` are the parsing of a request, `Send`, `Idle`, `Reply`, `FlagClose` and `Notify`
its handling under the connection's lock, `Test` and `Kill` the test after the lock
was let go. A reply is sent in three steps: `SetLength` writes its length into the table of
header fields that all threads share, `SendHeader` makes the header of what is there by then
(`HTTPConnection::send`), and `ReplyHail`, `ReplyOpen`, `ReplyClose` or `Reply` sends the
body. A client takes what the header says (`Headed`); `misled` are those who were told the
length of another reply. `FlagClose` sets the flag of a close; the signal and the unlock that
follow are `Notify`, since `endSession()` takes no lock and may delete in between. `SessionReceive`, `SessionSend` are `receive()` and `send()` of the
connection, `EndSessionDelete`, `EndSessionDefer`, `EndSessionFlag` are
`endSession()`. `Fault` marks a thread that used a deleted object. Clients send one
request at a time, may give up on one (`GiveUp`) and go on with the next.

### ChunkStream

The session's own thread: `AnswerCommand`, `SetChunkSize`, `SendSetChunkSize`,
`StreamPlay`. The server's thread: `Notify`; `PackFrame` (with `Pack`, the
packetizer), after which the chunks of a frame wait in the frame scheduler
(`vBuffer`); `SendChunk`, which lets one of them go; and `StreamSeek`, which may come
between any two of them, flushes scheduler and packetizers and goes on with the frames
of another place. `NotifyResized` is a message during whose cutting the session's
thread sets the chunk size, which is read for every chunk (the two reads of one
`MIN()` are taken as one). All end in `Write`, which puts a part of a chunk into a
socket of `Room` units. The scheduler holds one frame at a time: what is packed does
not depend on when, and a flush resets the packetizers as well. The client: `ReadHeader`, `ReadPayload`, `ReadTimeout`, `ReadPart`
(a read that returns with a part) and `ReadNonsense` (a header that is none, since
the client has lost its step).

### HTTPServer

Per session a control thread at a label `control[s]`, and one thread for the
server at `pass` with the sessions still ahead in `todo`. `Receive`, `SendList`,
`Create`, `InitStreamer`, `Build`, `Reply`, `Play` and their failures are
`requestHandler()`; `Create` and `InitStreamer` are the two critical sections of
`createProcessorDynamic()`. `Accept`, `BeginPass`, `Skip`, `Cancel`, `Delete`,
`Enter`, `EndPass` are the server's `process()`, `Pause`, `RemoveStreamer`,
`Stream`, `StreamFails`, `StreamEnds` the pass inside a session. Clients ask, break
off and stop reading. `interrupted` and `Interrupt` are the boost interruption that
`cancelThreads()` relies on.

## 3. The runs

| run | question | states |
| --- | --- | --- |
| `thread` | is a threaded component a lossy FIFO that always goes when stopped? | 76 thousand |
| `flow` | do packets stay in order and arrive while the graph is starting? | 3 thousand |
| `smoothing` | do the times of the plans rise and stay in their group? | 490 thousand |
| `viewer` | does a scheduler send in order, on time, whatever the client asks? | 270 thousand |
| `live` | is what viewers see of a live source whole, and the source safe from them? | 1.1 million |
| `session` | does the client get the stream that the last answer promised? | 740 thousand |
| `mux` | are streams merged in order, through joins, resets and ends? | 261 thousand |
| `segments` | can every segment be played, is nothing lost, is there an end? | 90 thousand |
| `tunnel` | do bytes and connections survive the threads that share them? | 350 thousand |
| `chunks` | does a client read what two threads write? | 152 thousand |
| `server` | are sessions served or ended for what their own client did? | 148 thousand |
| `live_deadlock` | the lock order of section 6, a counterexample | |

What each passing run shows:

* **thread** (2 upstream threads, 3 packets, one flusher, any handler may fail).
  `EveryPacketOnce`: a packet is in exactly one of queue, hand, received, freed.
  `ReceivedInOrder`. `AtMostOneStale`: after `flush()` one packet from before it
  can still be received, the one in hand. `AtMostOneLate`: one handler can begin
  after `end()`. `NeverDeletedAlive`. `ImplementsChannel`: the refinement.
  `StopLeadsToDelete`: the thread's own end and the manager's cancellation, which
  take the same mutex, do not wait for each other. `PushedIsConsumed`.
* **flow** (a threaded capture and a scheduled file reader, a multiplexer, a
  threaded transcoder, two sinks; 2 packets each). `InSourceOrder`: across the
  change from direct to queued calls, at both receivers of a fan-out.
  `EverythingArrives`.
* **smoothing** (all streams of 4 packets, frames of 1 or 2 packets of 0 or 2
  bytes, durations 3 or 4, 3 units to a millisecond, a window of 6).
  `TimesRise`: within and across plans. `StaysInGroup`: no packet is planned
  before its group starts or after it ends.
* **viewer** (3 packets, 5 ticks, one flush, double speed, starts paused).
  `InOrderOnce`, `NotEarly`, `OverdueIsSent`, `CommandsKeepPosition`.
* **live** (2 interchangeable viewers, 2 streams, 4 packets). `StartsAtKey`,
  `RisingPerStream`, `SameForAll`, `NeverRoutedToDead`.
* **session** (a stream of 4 positions of which 2 are sought, 3 commands after "play", 2
  packets per pass). `StreamFollowsAnswer`, `PausedIsQuiet`, and `ResumedIsSent`, which
  holds although a seek may be lost: the one that was being taken plays the stream all the
  same. That the client gets the answer to the one it asked for last is not so (section 6).
* **mux** (both classes; two streams of up to 5 packets, each reset at most once and
  ending when it likes). `Merges`: order, and resets that are aligned. `Drains`: when all
  streams have ended, what was sent up to the first end has come through. What a stream
  sends after another has ended stays behind for good: that end took its stream out of
  the table (`Multiplexer.cpp:337`), and `checkMux()` (`:187`) then counts fewer streams
  than there must be. Without the exception TLC refutes the property.
* **segments** (all files of 5 video frames 1 or 4 apart, any choice of key frames
  that leaves no group longer than a segment, audio every 2, read twice; the container gives
  a video frame the duration 2 and one of the audio 1, so that in the second loop, where the
  reader counts in durations, the groups are longer or shorter than in the first and the
  streams part).
  `DryOnlyAtGaps`: the multiplexer's exception needs a step of a stream that the delay does not
  bridge. `SegmentsStartClean`, `Recorded`, `Terminates`.
* **tunnel** (two HTTP threads; one client with 3 bytes to send and 2 to receive
  through buffers of 2 and 1, who may give up once; or two clients).
  `BytesInOrder`, for a client that was told the right lengths; `OnlyTheEndDangles`: apart
  from the end of an answered request - the signal and unlock after the flag of a close was
  set, and the tests without a lock - no thread uses a deleted connection;
  `MixedOnlyTogether`: a wrong hash, or a wrong length, needs two
  replies at once; `Reclaimed`: a closed connection is deleted, or both sides have
  passed each other. The last three are as strong as the code allows: without their
  exceptions TLC refutes each.
* **chunks** (chunk sizes 2 and 3, messages of up to 4 units, timestamps modulo 8;
  three loads: commands around a play, a seek at any moment and so also in the middle of
  a frame, long timestamps). `ArrivesAsSent`; `InStep`: the five ways in which a client
  loses its step are the only ones, and each occurs; `AllArrives`, where a message that a
  seek cut off is the one that may be missing.
* **server** (one client with two requests of any kind, patient or not, one with a
  single file; files of one packet; one client may break off or stop reading).
  `NothingDangles`: tables, pointers and threads agree, in every interleaving of
  the pass with the control threads. `RepliesInOrder`. `Served`: liveness of every
  request, whatever the other session does.

**Bounds, and why they are enough.** Every bound is a CONSTANT. Two upstream
threads contend for a mutex as more would; three packets allow one received, one
in hand and one queued at the moment of a flush or stop. Two packets per source
are enough to be reordered, and a third component behind a queue gives each of
the paths direct-direct, direct-queued, queued-direct. Four packets allow a group
to be cut in the middle, and a plan to follow a plan that was cut. Five ticks hold
a start, a pause, a resumption and a packet due after it. Two streams are needed
for the moment when one has its key frame and the other has not; two viewers for
one to leave while the other is routed to. Three commands are what it takes to
pause, seek during the pause and resume, in every order. Two streams with one
reset each, at different places, are enough for two control packets in one queue.
Five video frames give a cut that comes late, one that comes in time and the jump
of the loop. A buffer of 2 for 3 bytes is shifted, filled and refused; two HTTP
threads are one for each of the two accesses that race. Chunk sizes of 2 and 3 cut
a message of 4 differently, and a modulus of 8 is passed within a stream. Two
requests on a connection meet the streamer of the first in every stage of its life,
and the second session is there to suffer, or not, from the first.

**Where deadlock is not checked.** `viewer`: the bounded clock ends. `live` and
`live_deadlock`: the deadlock of section 6 is in the code, so the safety properties
of `live` speak about the states up to it. The other runs check for deadlock; their
terminal states are actions of their own (`Done`, `Complete`). In `server` one of
these is the pass that waits for a client who does not read.

**What the runs leave out on purpose.** `viewer` has `EarlyPause = FALSE` and
`AnySpeed = FALSE`: no pause begins before the start and ends after it, and a first
speed is not asked for during a pause, nor given up. The first is a finding, the
second listed among the hazards: with it `CommandsKeepPosition` fails. `session`
has one "play", since a second one leaves the first streamer running.

## 4. Fairness

Fairness stands for the operating system running every thread, and for mutexes
that are handed over; never for what a client, a source or a failing handler does.

* *A thread goes on when it can* is weak fairness of its steps.
* *A mutex that is released again and again is obtained* is strong fairness of
  the steps that lock one: another thread may take and release it for ever in
  between. This is boost's mutex under any scheduler that is not adversarial.
* *Handlers return*: article 3 of the contract in `src/Core/ProcessorManager.cpp`.
* *The clock runs, and process() is called every quantum*: weak fairness of `Tick`
  and `Process`.
* *A playing streamer has a packet due in infinitely many passes*: strong
  fairness of `Stream`; `OverdueIsSent` of the run `viewer` is the reason.
* *The pass of a server and the control threads of its sessions run* (`HTTPServer`),
  the latter strongly, since the pass takes a session's lock in every round. A client
  that does not read disables both where they send to it.
* *HTTP threads handle what they have read, a session polls its connection and is
  destroyed when it has ended* (`RTMPTunnel`): weak fairness; what clients ask is free.
* *Both writers of a socket run and the client reads* (`ChunkStream`), strongly for
  the steps that need the lock or room in the socket.
* *The scheduler's turns come* (`Multiplexer`, `Segmenter`): weak fairness.
* Not fair: `End`, `Teardown`, `BeginFlush`, `Produce`, viewers opening or leaving,
  all commands and requests of a client, breaking off, `Arrive` of the
  streams of a multiplexer, `Accept`.

## 5. The proofs

TLC checks the instances of section 3; the eight modules `*Proofs` prove for every
value of the constants: any graph, any number of threads, viewers, sessions,
streams and packets, any files, buffers and queues of any length. All theorems are of
the form `Spec => []P` or `Spec => Q`, where `Spec` has no fairness.

| module | theorem | property |
| --- | --- | --- |
| `PrivilegedThreadProofs` | `TypeCorrectness` | `TypeOK` |
| | `OrderIsKept` | `ReceivedInOrder` |
| | `PacketsAreConserved` | `EveryPacketOnce` |
| | `FlushRecallsAllButOne` | `AtMostOneStale` |
| | `StopIsPrompt` | `AtMostOneLate` |
| | `DestructorIsSafe` | `NeverDeletedAlive` |
| | `Refinement` | `ImplementsChannel` |
| `PacketFlowProofs` | `TypeCorrect` | `TypeOK`, with the exclusion of the locks |
| | `OrderAlongPaths` | `InSourceOrder`, if `OnePath` |
| | `NoneBeforeInit` | `NotBeforeInit` |
| `SchedulerProofs` | `TypeCorrect` | `TypeOK` |
| | `EveryPacketInOrder` | `InOrderOnce` |
| | `NoneEarly` | `NotEarly`, if `Steady` |
| | `CommandsKeep` | `CommandsKeepPosition`, if `Steady` |
| | `PlansRise` | `TimesRise` |
| | `PlansStay` | `StaysInGroup` |
| `LiveSourceProofs` | `TypeCorrect` | `TypeOK`, with who is alone in the reader |
| | `NoneRoutedDead` | `NeverRoutedToDead` |
| | `BeginsWithKey` | `StartsAtKey` |
| | `NoneTwice` | `RisingPerStream` |
| | `AllSeeTheSame` | `SameForAll` |
| `RTMPSessionProofs` | `TypeCorrect` | `TypeOK` |
| | `PauseIsPrompt` | `PausedIsQuiet` |
| | `StreamAsAnswered` | `StreamFollowsAnswer`, in states with `Once` |
| `MultiplexerProofs` | `TypeCorrect` | `TypeOK`, with nothing lost in a queue |
| | `MergesAll` | `Merges`, if `Complete` |
| | `EverythingRecorded` | `Recorded`, if `VideoAndAudio` |
| | `DriesAtGaps` | `DryOnlyAtGaps`, if `VideoAndAudio` |
| | `SegmentsClean` | `SegmentsStartClean`, if `VideoAndAudio` and `GroupsFit` |
| `RTMPTunnelProofs` | `TypeCorrect` | `TypeOK` |
| | `MixedTogether` | `MixedOnlyTogether` |
| | `DeletedLast` | `OnlyTheEndDangles` |
| | `BytesArrive` | `BytesInOrder` |
| `HTTPServerProofs` | `TypeCorrect` | `TypeOK` |
| | `NeverDangles` | `NothingDangles` |
| | `AlwaysInOrder` | `RepliesInOrder` |

**Assumptions.** Each module names what it assumes of its constants
(`FlowAssumption`, `SchedulerAssumption`, `LiveAssumption`, `SessionAssumption`,
`MuxAssumption`, `SegmenterAssumption`, `PlanAssumption`, `StreamAssumption`, `TunnelAssumption`, `HTTPServerAssumption`, and the
three of `PrivilegedThread`): the sets the constants are from, that a graph is one,
that names which the model uses for owners are not names of components. TLC
evaluates them in the runs. `StreamAssumption` says more than a set where packets carry no
bytes: a frame then lasts a millisecond at least. The group of a gop- or svc-scheduler
is given a millisecond and a byte if it has less, and TLC finds a plan past the end of
its group when such a frame is shorter. Some theorems have a hypothesis of their own, which the
run of their module meets:

* `OnePath` (`OrderAlongPaths`): the components that a source reaches form a tree.
  If two paths of different length led from a source to a component, it would receive
  each packet twice, and the order of the two would be that of the threads. In
  `MCPacketFlow` it is the assumption `JoinIsTree`.
* `Steady` (`NoneEarly`, `CommandsKeep`): no pause begins before the start and ends after
  it, and there is one speed beside the natural one, not asked for first during a pause.
  Section 6 and the hazards say what happens otherwise.
* `Complete` (`MergesAll`): the parameter `streams` counts all streams. With a smaller
  number a multiplexer starts before it knows all its streams; what comes late is then
  merged too late.
* `VideoAndAudio` (the three of `Segmenter`): a multiplexer with a stream of video and one
  of audio that waits for both, as `Segmenter::init()` and `TSMultiplexer::init()` set it up,
  and a delay longer than the time a pass covers. `MCSegmenter` states it as an assumption.
* `GroupsFit` (`SegmentsClean`): the dts of a stream rise, the video begins with a key frame, and a
  group of pictures is shorter than a segment, over the end of a loop as well, by as much as
  the `gap` between two audio frames; the theorem holds for every `gap`. The length of a group counts
  at each frame the longer of two steps (`Step`): the file's, and the duration of a frame (`desc->inc`),
  by which the reader raises a dts that is late - after a loop all of them are, since the reader keeps
  the last dts of each stream when it opens the file again (`FFmpegReader.cpp:511-513`). `reach` bounds
  the sum from the key frame to each frame of its group; `MCSegmenter` computes it. The time-splitter
  cuts at most once for a key frame and moves its limit by one interval then, however long the last
  segment was: with longer groups it lags behind more and more, and a cut
  is then due at every packet of a key frame. The second half of a key frame, without tables,
  would begin a segment. The run takes the files that satisfy it with a gap of 2.
* `Once` (`StreamAsAnswered`): one "play". A second leaves the first streamer running
  (section 6).

**The inductive invariants.** None of the properties is inductive by itself.

*PrivilegedThread.* `Mutexes` ties each mutex to the program points of its owner: without
it two threads could be in one critical section. `Table` says what the thread table
holds at each point of the manager; a deletion is safe because `delete` is only
reached with a thread that has finished, and `joining` with the mutex held is the
case where the thread waits to erase itself. `InHand`: a packet is in hand between
the two critical sections of the loop, and nowhere else. `Ordered`: what was
received is below the packet in hand, which is below what is queued, and the queue
rises; `ReceivedInOrder` follows. `Fresh`: everything queued is younger than the
last flush, so that only the packet in hand can be stale, and only once.
`OnTheWayOut`: after one late handler the thread cannot reach another. `Room` keeps
the bound while a thread is about to push. The refinement maps `accepted` to the
number of pushes, `pending` to what is queued or in hand, `received` to what was given
to `receive()`. `StepMoves` shows that each step does one of four things to these:
nothing, one more on its way, the oldest arrives, some vanish. The two critical
sections of the loop are one step of the channel: the pop is a stutter.

*PacketFlow.* `Exclusive` comes from the recursive locks, which a thread holds as long as
a handler is on its stack. For each source, `Chains` says that the handlers of one thread
are about one packet and lie along the routes, and that each has its receivers still to
call once; so by the locks a component handles one packet of the source at a time
(`UniqueFrame`). `Below`: packets of the source are only where a route leads. `Numbers`: a
handler is about the packet its component began last. `Sendings` is the heart: what waits
for a receiver is, without gap and in order, what its upstream has passed on
(`Passed`: all it began, but for the one whose turn has not come) less what the receiver
has begun. `Committed` covers the change from direct to queued calls: a thread that decided
for a direct call before the receiver's thread started finds nothing queued before it.

*Scheduler.* What was sent, planned and buffered is one rising line that holds with
the flushed packets all that arrived, each once (`Good`). `InTime`: neither the clock's
reading that `process()` took nor the position computed at any moment is ahead of what the
viewer saw pass. `PositionNow`, `PositionNext` and `OneTick` reduce the differences of
unsigned times, wrapped or not, to one function of the clock.

*SmoothedStream.* `StreamInv`: the buffer is made of frames, each of which starts when the
one before it ends (`InFrames`), and what is buffered continues what was planned last; the
last time of a plan is not past the end of its group as the variant counts it (`GroupEnd`),
which is where the next group starts at the earliest. The work is in the plan itself: `Bytes`
is a function that recurs on the index, so its equation can be had from the
existence of the function (`SumsExist`, `BytesStep`); from it the sums rise (`BytesRise`) and are
at most their total, and by the lemmas on quotients and roundings so do the shares (`Shares`),
within the duration of the group (`Durations`). `PlanTimes` puts these together.

*LiveSource.* `Guarded` says which program points hold which lock, `Exclusive` that a
lock has one holder; of the threads that check, route or walk only one is at it
(`OneAlone`). `Routes`: who is linked at which point, and that the source has still to visit
linked viewers only, each once. `Flow` is about what viewers have: `Begun` nothing before they are
linked, `Ordered` rising and from a key frame on, `Routed` the packet being routed exactly
where it was already visited, `Shared` for two viewers and every packet of one that is not
older than what the other has: the other has it too, or is about to be routed it, or has
left. `Shared` is `SameForAll` made inductive: it speaks of what is stored and of what is
under way.

*RTMPSession.* `Quiet` counts the frames of the main stream since a pause, and the one in
hand of the privileged thread: at most two together if the session has noticed the pause, at
most one before; the second comes from the thread that was past its test. `Follows`: after
the last answer, what is in hand, what is queued and the position of the streamer continue
the stream where the messages since that answer end (`Ahead`, `Due`), except while a seek
has the queue to drop, which is empty before the next answer. `Sought`: a seek that is done is
one that was asked for, since `iSeek` is reset by a "play" only before anything is under way.

*Multiplexer.* The type invariant holds more than types: each queue is an `Ending`
of what its stream sent, and a stream in the table has `Begun`. `Ended` relates a stream
that left the table to its end, and `ReadyKnowsAll` is why the
merge is right: a multiplexer that finds itself ready has a packet of every stream in
front. Each step maps to a step of `MergedStreams` (arrive, release, reset, end) or a stutter.

*Segmenter.* Everything that was read is one line through queues, pass and files. For `Recorded`,
`InLine`: what is written is before what is made (`vOut`), that before what is queued, and that
before what the reader reads next; and `Kept`: a frame that was read is in a queue, made, or
written, with both its parts. When the end comes through nothing is left but the files, by `AtTheEnd`
and `Generations` (the control packets of the same loops wait in both queues). For `DryOnlyAtGaps`,
`QueuesFollow`: what is next to one another in a queue is next to one another in its stream, and the
dts rise to what the file says or by a frame's duration; and `InPass`: since the queues were tested each holds a
control packet, or still reaches `Delay` behind the start of the pass, while the reference is `Covered`, at most one
step behind what a pass may take. A stream that runs empty has then a step wider than the
difference. For `SegmentsStartClean` a segment must not begin inside a frame, so that a cut must not be due twice
in one. `KeysNear` and `ReaderNear` relate a key frame under way, or about to be read, to an earlier
one: an interval at most between them, less the gap; what the reader has read of a group is within
`reach` of its key frame (`GroupOpen`), whichever of the two steps each frame took. `Stamps` and `Reference` say how far the times that packets
are given, those of the reference, are behind their own: a gap at most. So the
limit of the splitter keeps up with the key frames written (`CutsUp`), and is an interval at most behind when
it has cut (`CutOnce`). `TablesFirst` and `LoopsApart` are about the other way to begin a file, after a reset:
the multiplexer repeats the tables, and what comes is of another loop.

*RTMPTunnel.* `Mixing` says of each thread in a reply that its client met another's answer or
what it sends is its own: for the answer in `sResponse` (`AnswerOrMet`) and for the length in
`mFields` until the header is made, and in the header (`LengthOrMet`, `HeaderLast`). It needs
that a client has one request at a time (`Alone`, `OneEach`) and no hash before it opens
(`Unhashed`). The deletion is shown for
clients that have one request at a time and know their hash (`Sane`, which a state only
has if all before it had: `SaneBefore`): `Single` ties a thread with a request to the
client that waits for it, `Mapped`, `Unmapped`, `Unstarted` say when a hash is known, `FlagsOnce`,
`Flagged`, `DeletedOnce` that both ends are flagged once and the last deletes. A client that
waits for more than what came never asks again (`Stuck`), so it is done with its connection
like one that was told of the close (`Over`). For the bytes,
`AllKept` covers `buffer_in` whatever clients do (its two positions, and the shift), and
`Counted`, `Numbered`, `Delivered` the sane ones from end to end; `Sized` says that a reply that
holds the lock keeps the size of what is in `buffer_out`, so that who is told the right length
gets all of it.

*HTTPServer.* Per session, `Present`: who works in a session finds it in the table. `Serving`:
the streamer belongs to the request in hand while the control thread makes it, and
to an earlier one before that; `pStreamer` is current wherever it is used. `Sent` and
`Sending`: what has been sent is of requests that were read, whole up to the streamer's own,
and of that one up to its position.

**How the proofs are laid out.** For each module there are lemmas on the operators
and on sequences (what appending, taking the head or cutting does to order and counts);
the values at the start and after a step, one step of the proof per action; what the
actions do to the part of the state an invariant is about, so that actions which leave it
alone are dealt with together; and the theorem, which combines these by `PTL`.

**Only model-checked.**

* Liveness: `StopLeadsToDelete`, `PushedIsConsumed`, `EverythingArrives`,
  `OverdueIsSent`, `SourceReturns`, `ResumedIsSent`, `Drains`, `Terminates`,
  `Reclaimed`, `AllArrives`, `Served`. Fairness and ENABLED are out of the prover's
  reach.
* `ArrivesAsSent`, `InStep` (`ChunkStream`): headers are compressed against the last one
  and read through changing chunk sizes and cut writes. The invariant would relate every
  part of the bytes on the socket to the state both ends will be in when the client gets
  there, which is a recursion over what is in the socket.

No module declares a RECURSIVE operator, so that none is closed to proof.

## 6. Where the code departs from its own words

The run `live_deadlock` is refuted by TLC: source and viewer lock the reader and the
live reader in opposite orders, and both wait for ever. The quotation is in
`PROJECT.json`.

Others have no run of their own; TLC refutes the predicate in a moment:

| predicate, module | constants that differ from the run's | what the code does |
| --- | --- | --- |
| `ClosedUntilConnected`, `PrivilegedThread` | `thread`: `Tcp = TRUE` | The thread of a TCP transmitter runs before the flag that keeps it closed until it is connected is flipped (`MediaProcessor.cpp:83`), and may send on a socket that is NULL. If it connects first, the flip comes last and closes the transmitter for good. |
| `StartupEnds`, `PacketFlow` | `flow`: graph `Two*`, `Quota = 1`, FairSpec, no deadlock check | With two threaded readers and a multiplexer initialised between them one thread waits, locks in hand, for a component whose initialisation waits for one of these locks. |
| `NotEarly`, `Scheduler` | `viewer`: `EarlyPause = TRUE`, `Delay = 2`, `StartPaused = FALSE` | A pause that begins in the start delay and ends after it is not counted; what it covered leaves in one burst. |
| `SchedulersExist`, `LiveSource` | `live`: one viewer, one stream | A viewer's scheduler stays in the reader's list after its deletion ("Reset the scheduler list in the reader"). |
| `ReplacedIsStopped`, `RTMPSession` | `session`: `MaxPlays = 2`, `MaxCommands = 0` | The streamer that a second "play" replaces ("Kill the current streamer") is looked up by a name the table does not know, and goes on. |
| `NoSeekIsLost`, `RTMPSession` | `session`: Spec | A seek, or an unpause, that the control thread asks for between `iLocalSeek = iSeek` and `iSeek = -1` (`RTMPSession.cpp:453`) is never done nor answered. |
| `DroppedWhilePaused`, `RTMPSession` | `session`: `MaxPlays = 2`, `MaxCommands = 1` | The pause of the first stream is noticed while, or after, a second "play" resets it: `bPauseAfterSeek` stays set and all of the new stream is dropped, until a seek. |
| `NeverDry`, `Segmenter` | `segments` | The multiplexer throws "queue should not be empty at this point!" when a stream has a step - a gap of the file, or a frame's duration after a loop - longer than the delay less what a pass covers. |

What else came to light while modelling, as exceptions in the properties:

* *Multiplexer.* With the parameter `streams` set, the end of one stream stops the
  multiplexer for the others, whatever they have still to send (`Drains`). The search for
  the lowest key starts at 0x7FFFFFFF (`Multiplexer.cpp:215, 245`): timestamps of 90 kHz
  pass it after 6.6 hours, and `resetMux()` then throws at the media it finds in front.
  The keys of the modules are taken to stay below.
* *Tunnel.* `sendReply()` never returns a negative value (`HTTPConnection.cpp:255`) and
  the sockets do not throw, so the tests for a lost reply (`RTMPTServer.cpp:139, 148,
  192, 205`) never hold and the output is dropped with the reply. `sResponse` is shared
  without a lock, and so are the header fields (`RTMPTServer.h:43`): the length that a reply
  is sent with may be that of another (`HTTPConnection.cpp:240, 243`), which cuts a hash or a
  body short, or leaves a client waiting. `endSession()` takes no lock and may delete the
  connection between the flag of a close and the signal and unlock that follow it
  (`RTMPTServer.cpp:211-213`). The test at line 217 is made on an object another request may
  have deleted. `endSession()` and a closing request may pass each other, and the connection
  leaks.
* *Chunks.* Media are written without the lock that commands take, so a write in parts
  is torn. `sendSetChunkSize()` sets the size before it has the lock. Extended
  timestamps are never written but expected, and the test for them reads the sum, not
  the field. A read with a time-out returns a part as if it were all. A seek flushes
  the frame scheduler (`RTMPSession.cpp:284`, `Scheduler.cpp:134`) although the first
  chunks of a frame may have left; the client is then inside a message, and takes the
  next full header for an error (`RTMPChunkStream.cpp:167`).
* *HTTP.* A client that keeps its connection alive and asks again before a pass has
  removed the last streamer loses its session, since all are named "streamer". A client
  that stops reading stops the server's pass, and with it all sessions.

## 7. What is not modelled

* *Left out of modelled parts*: what two HTTP threads of the tunnel that change the table
  of header fields at the same moment do to the table itself; the parameters `drop` and `loss-buffer` of
  schedulers; two links of one URL; the conversion of frames in
  `LiveReader::enqueue`; handshake, connect, metadata, ping and the end of the
  stream in a session; the route cache and the fallback to route 0; `flush()` of a
  multiplexer; the acknowledgement window; the client's side of the tunnel and of
  HTTP; `stopProcessor()` outside the RTMP session. Some of these are in the plan.
* *Device and file I/O*: gigabit transmitter, sockets, the files of readers and
  writers, displays and loggers. Nothing but system calls and wrapped libraries.
* *Formats*: containers, packetizers, payloads, handshake cryptography, SDP,
  headers, XML. Each is a function of its input; a few packetizers may be worth
  an operator (a fragmented frame is put together again).
* *Configuration graphs*: transcoder session, most of the streamers:
  straight-line creation of components.
* *Random loss models*, *the GUI*, *bundled libraries*.

## 8. The plan

The order is that of importance: what every component relies on (threads, flow,
schedulers) came first, then the places where clients meet running graphs
(`LiveSource`, `RTMPSession`), then what they talk through (`RTMPTunnel`,
`ChunkStream`), what merges streams (`Multiplexer`, `Segmenter`) and the server that
owns the sessions (`HTTPServer`). What follows:

1. The theorems named at the end.
2. `RouteTable` - cache, `setRoute`, `clearRoute`, route 0, the empty entry left behind
   by a failed look-up; refinement of a plain map from routes to receivers.
3. `RTSPSession` - SETUP, PLAY, PAUSE, TEARDOWN against the session's thread.
4. `Restamp` - reordering; a pass that an exception cuts short, with an RTMP session
   under the server of `HTTPServer`.
5. `RTMPClient` - the requests that wait for each answer; `RTMPSession` with its end of
   stream, and a second play once streamers stop.

Bounds: two actors of each kind, three or four packets, one reset, as above. Runs
that answer a neighbouring question of one module are merged, and the departures
that are variants of one another are kept in the table of section 6.

Theorems, after those of section 5: `ChunkStream` (`InStep` while commands and media do not
meet on the socket), and `PacketFlow` as an implementation of one `PacketChannel` per route.

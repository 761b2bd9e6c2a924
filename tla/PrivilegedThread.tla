-------------------------- MODULE PrivilegedThread --------------------------
(***************************************************************************)
(* A threaded component (bThread = true) of Core/MediaProcessor: its       *)
(* packet queue, its privileged thread, and the way the ProcessorManager   *)
(* that owns it creates, stops, joins and deletes it.                      *)
(*                                                                         *)
(* Four kinds of threads meet here:                                        *)
(*   - the upstream threads, which call receivePacket() and only queue;    *)
(*   - the privileged thread, mainThread(mainThreadPriviliged), which pops *)
(*     the queue, calls receive() and process(), and sleeps one quantum;   *)
(*   - the manager's thread, which runs initProcessor(), then the passes   *)
(*     of scheduleProcessors(), and at the end cancelThreads() and delete; *)
(*   - a flusher, the thread that seeks (RTMPSession::streamSeek).         *)
(* They share three mutexes: oQueueMutex, oFlowMutex and oThreadMutex.     *)
(*                                                                         *)
(* Packets are numbered in the order in which they enter the queue.        *)
(* Environment, named here because the code leaves it to its callers: no   *)
(* packet arrives before init() has set bThread (PacketFlow has that case) *)
(* and none after the delete (ComponentTable has that one).                *)
(***************************************************************************)
EXTENDS Integers, Sequences

CONSTANTS
  Upstream,    \* the threads that route packets to this component
  MaxPackets,  \* bound: the packets that are ever pushed
  Tcp          \* TRUE: the component is a TCPTransmitter (connects in process)

ASSUME MaxPacketsAssumption == MaxPackets \in Nat
ASSUME TcpAssumption == Tcp \in BOOLEAN

None == "none"
Thread == "thread"
Manager == "manager"
Flusher == "flusher"

ASSUME UpstreamAssumption ==
  Upstream \cap {None, Thread, Manager, Flusher} = {}

VARIABLES
  bStop, bReceive, bSchedule, \* the flags of the component
  connected,     \* TCPTransmitter: pSocket is set
  vPacketQueue,  \* the queued packets
  pushed,        \* how many packets entered the queue
  oQueueMutex, oFlowMutex, oThreadMutex,  \* the owner of each mutex
  inTable,       \* mThreads holds the privileged thread
  interrupted,   \* thread::interrupt() was called on it
  pPckt,         \* the packet popped and not yet received, 0 if none
  thread, manager, flusher,  \* where each thread is
  ready,         \* the next component is initialised (its bReceive)
  delivered,     \* the packets given to receive(), in order
  dropped,       \* the packets destroyed without being received
  flushMark,     \* the packets pushed before the last flush() returned
  stale,         \* of those, the ones received after it returned
  late,          \* receive() and process() calls begun after end()
  broken         \* undefined behaviour: a data race on the queue, or a use
                 \* of the component while it is deleted

flags == <<bStop, bReceive, bSchedule, connected>>
queueVars == <<vPacketQueue, pushed, oQueueMutex>>
tableVars == <<oThreadMutex, inTable, interrupted>>
history == <<delivered, dropped, flushMark, stale, late>>
vars == <<flags, queueVars, oFlowMutex, tableVars, pPckt, thread, manager,
          flusher, ready, history, broken>>

(* The thread function has returned: join() on it does not block. *)
Finished == {"cancelled", "failed", "gone"}

(* The program points of the privileged thread. "unborn": not created;      *)
(* "outer" and "inner" are the two loop heads; "locking", "popping" the     *)
(* queue's critical section; "waitFlow", "receiving" the delivery; "tick",  *)
(* "waitTick", "processing" the scheduling; "point" and "resync" the        *)
(* interruption points; "ending", "erasing" endThread().                    *)
ThreadPoints ==
  {"unborn", "outer", "inner", "locking", "popping", "waitFlow", "receiving",
   "point", "tick", "waitTick", "processing", "resync", "ending", "erasing"}
  \cup Finished

ManagerPoints ==
  {"init", "spawned", "flip", "pass", "cancel", "joining", "delete", "deleted"}

Init ==
  /\ bStop = FALSE
  /\ bReceive = Tcp     \* TCPTransmitter::init sets it, see Flip
  /\ bSchedule \in (IF Tcp THEN {TRUE} ELSE BOOLEAN)
  /\ connected = FALSE
  /\ vPacketQueue = <<>> /\ pushed = 0
  /\ oQueueMutex = None /\ oFlowMutex = None /\ oThreadMutex = None
  /\ inTable = FALSE /\ interrupted = FALSE
  /\ pPckt = 0
  /\ thread = "unborn" /\ manager = "init" /\ flusher = "idle"
  /\ ready \in BOOLEAN
  /\ delivered = <<>> /\ dropped = {}
  /\ flushMark = 0 /\ stale = 0 /\ late = 0
  /\ broken = FALSE

-----------------------------------------------------------------------------
(* receivePacket() with bThread set, in an upstream thread.                *)

LockPush(u) ==
  /\ ~broken
  /\ manager # "deleted"
  /\ pushed < MaxPackets
  /\ oQueueMutex = None
  /\ oQueueMutex' = u
  /\ UNCHANGED <<flags, vPacketQueue, pushed, oFlowMutex, tableVars, pPckt,
                 thread, manager, flusher, ready, history, broken>>
(* Faulty variants of push(): it queues the packet twice, or in front.     *)
PushTwice(u) ==
  /\ ~broken
  /\ oQueueMutex = u
  /\ vPacketQueue' = vPacketQueue \o <<pushed + 1, pushed + 2>>
  /\ pushed' = pushed + 2
  /\ oQueueMutex' = None
  /\ UNCHANGED <<flags, oFlowMutex, tableVars, pPckt, thread, manager,
                 flusher, ready, history, broken>>

PushInFront(u) ==
  /\ ~broken
  /\ oQueueMutex = u
  /\ vPacketQueue' = <<pushed + 1>> \o vPacketQueue
  /\ pushed' = pushed + 1
  /\ oQueueMutex' = None
  /\ UNCHANGED <<flags, oFlowMutex, tableVars, pPckt, thread, manager,
                 flusher, ready, history, broken>>

Push(u) ==
  /\ ~broken
  /\ oQueueMutex = u
  /\ vPacketQueue' = Append(vPacketQueue, pushed + 1)
  /\ pushed' = pushed + 1
  /\ oQueueMutex' = None
  /\ UNCHANGED <<flags, oFlowMutex, tableVars, pPckt, thread, manager,
                 flusher, ready, history, broken>>

-----------------------------------------------------------------------------
(* mainThreadPriviliged(), in the privileged thread.                       *)

Goto(from, to) == ~broken /\ thread = from /\ thread' = to

OuterLoop ==
  /\ Goto("outer", IF bStop THEN "ending" ELSE "inner")
  /\ UNCHANGED <<flags, queueVars, oFlowMutex, tableVars, pPckt, manager,
                 flusher, ready, history, broken>>
(* Faulty variant: the inner loop forgets to look at bStop. *)
InnerLoopIgnoresStop ==
  /\ Goto("inner", IF bReceive THEN "locking" ELSE "tick")
  /\ UNCHANGED <<flags, queueVars, oFlowMutex, tableVars, pPckt, manager,
                 flusher, ready, history, broken>>

InnerLoop ==
  /\ Goto("inner", IF bReceive /\ ~bStop THEN "locking" ELSE "tick")
  /\ UNCHANGED <<flags, queueVars, oFlowMutex, tableVars, pPckt, manager,
                 flusher, ready, history, broken>>

LockPop ==
  /\ Goto("locking", "popping")
  /\ oQueueMutex = None
  /\ oQueueMutex' = Thread
  /\ UNCHANGED <<flags, vPacketQueue, pushed, oFlowMutex, tableVars, pPckt,
                 manager, flusher, ready, history, broken>>
(* Faulty variants of the pop: it leaves the packet in the queue, or takes *)
(* the last one.                                                           *)
PopPeeks ==
  /\ IF vPacketQueue = <<>>
       THEN Goto("popping", "tick") /\ UNCHANGED pPckt
       ELSE Goto("popping", "waitFlow") /\ pPckt' = Head(vPacketQueue)
  /\ oQueueMutex' = None
  /\ UNCHANGED <<flags, vPacketQueue, pushed, oFlowMutex, tableVars, manager,
                 flusher, ready, history, broken>>

PopLast ==
  /\ IF vPacketQueue = <<>>
       THEN Goto("popping", "tick") /\ UNCHANGED <<vPacketQueue, pPckt>>
       ELSE /\ Goto("popping", "waitFlow")
            /\ pPckt' = vPacketQueue[Len(vPacketQueue)]
            /\ vPacketQueue' = SubSeq(vPacketQueue, 1, Len(vPacketQueue) - 1)
  /\ oQueueMutex' = None
  /\ UNCHANGED <<flags, pushed, oFlowMutex, tableVars, manager, flusher, ready,
                 history, broken>>

Pop ==
  /\ IF vPacketQueue = <<>>
       THEN /\ Goto("popping", "tick")
            /\ UNCHANGED <<vPacketQueue, pPckt>>
       ELSE /\ Goto("popping", "waitFlow")
            /\ pPckt' = Head(vPacketQueue)
            /\ vPacketQueue' = Tail(vPacketQueue)
  /\ oQueueMutex' = None
  /\ UNCHANGED <<flags, pushed, oFlowMutex, tableVars, manager, flusher, ready,
                 history, broken>>

(* The handler that begins after end() is counted, to bound how late it is. *)
EnterReceive ==
  /\ Goto("waitFlow", "receiving")
  /\ oFlowMutex = None
  /\ oFlowMutex' = Thread
  /\ late' = IF bStop THEN late + 1 ELSE late
  /\ UNCHANGED <<flags, queueVars, tableVars, pPckt, manager, flusher, ready,
                 delivered, dropped, flushMark, stale, broken>>

(* receive() routes onwards, which spins while the next component is not    *)
(* ready; the packet is then gone from this component.                      *)
Receive ==
  /\ Goto("receiving", "point")
  /\ ready
  /\ delivered' = Append(delivered, pPckt)
  /\ stale' = IF pPckt <= flushMark THEN stale + 1 ELSE stale
  /\ pPckt' = 0
  /\ oFlowMutex' = None
  /\ UNCHANGED <<flags, queueVars, tableVars, manager, flusher, ready, dropped,
                 flushMark, late, broken>>

(* An exception unwinds the thread function: the lock is released and the   *)
(* packet destroyed. The spin on the next component is an interruption      *)
(* point; a SirannonException goes to handleError(), which may end() us.    *)
Unwind(from, to) ==
  /\ Goto(from, to)
  /\ oFlowMutex' = None
  /\ dropped' = dropped \cup ({pPckt} \ {0})
  /\ pPckt' = 0
  /\ UNCHANGED <<bReceive, bSchedule, connected, queueVars, tableVars, manager,
                 flusher, ready, delivered, flushMark, stale, late, broken>>

InterruptHandler(from) ==
  /\ interrupted /\ ~ready
  /\ Unwind(from, "cancelled")
  /\ UNCHANGED bStop

FailHandler(from) ==
  /\ Unwind(from, "failed")
  /\ bStop' \in {bStop, TRUE}

InterruptionPoint(from, to) ==
  /\ Goto(from, IF interrupted THEN "cancelled" ELSE to)
  /\ UNCHANGED <<flags, queueVars, oFlowMutex, tableVars, pPckt, manager,
                 flusher, ready, history, broken>>

Tick ==
  /\ Goto("tick", IF ~bStop /\ bSchedule THEN "waitTick" ELSE "resync")
  /\ UNCHANGED <<flags, queueVars, oFlowMutex, tableVars, pPckt, manager,
                 flusher, ready, history, broken>>

EnterProcess ==
  /\ Goto("waitTick", "processing")
  /\ oFlowMutex = None
  /\ oFlowMutex' = Thread
  /\ late' = IF bStop THEN late + 1 ELSE late
  /\ UNCHANGED <<flags, queueVars, tableVars, pPckt, manager, flusher, ready,
                 delivered, dropped, flushMark, stale, broken>>

(* TCPTransmitter::process() connects once; other components do their work. *)
Process ==
  /\ Goto("processing", "resync")
  /\ IF Tcp /\ ~connected
       THEN connected' = TRUE /\ bReceive' = TRUE /\ bSchedule' = FALSE
       ELSE UNCHANGED <<connected, bReceive, bSchedule>>
  /\ oFlowMutex' = None
  /\ UNCHANGED <<bStop, queueVars, tableVars, pPckt, manager, flusher, ready,
                 history, broken>>

(* endThread(): try_lock, and an interruptible sleep while it fails.        *)
LockEnd ==
  /\ Goto("ending", "erasing")
  /\ oThreadMutex = None
  /\ oThreadMutex' = Thread
  /\ UNCHANGED <<flags, queueVars, oFlowMutex, inTable, interrupted, pPckt,
                 manager, flusher, ready, history, broken>>
(* Faulty variant: the wait for oThreadMutex is no interruption point. *)
InterruptEndIgnored ==
  /\ thread = "ending" /\ oThreadMutex # None /\ interrupted
  /\ UNCHANGED vars

InterruptEnd ==
  /\ Goto("ending", "cancelled")
  /\ oThreadMutex # None /\ interrupted
  /\ UNCHANGED <<flags, queueVars, oFlowMutex, tableVars, pPckt, manager,
                 flusher, ready, history, broken>>

EraseEntry ==
  /\ Goto("erasing", "gone")
  /\ inTable' = FALSE
  /\ oThreadMutex' = None
  /\ UNCHANGED <<flags, queueVars, oFlowMutex, interrupted, pPckt, manager,
                 flusher, ready, history, broken>>

ThreadProgress ==
  \/ OuterLoop \/ InnerLoop \/ LockPop \/ Pop
  \/ EnterReceive \/ Receive \/ InterruptionPoint("point", "inner")
  \/ Tick \/ EnterProcess \/ Process \/ InterruptionPoint("resync", "outer")
  \/ LockEnd \/ InterruptEnd \/ EraseEntry
  \/ \E p \in {"receiving", "processing"} : InterruptHandler(p)

ThreadStep ==
  \/ ThreadProgress
  \/ \E p \in {"receiving", "processing"} : FailHandler(p)

-----------------------------------------------------------------------------
(* initProcessor(), scheduleProcessors() and the destructor of the manager, *)
(* in the manager's thread.                                                 *)

(* createThread() keeps oThreadMutex until the new thread is in mThreads.   *)
Spawn ==
  /\ ~broken
  /\ manager = "init" /\ manager' = "spawned"
  /\ oThreadMutex = None /\ oThreadMutex' = Manager
  /\ thread' = "outer"
  /\ UNCHANGED <<flags, queueVars, oFlowMutex, inTable, interrupted, pPckt,
                 flusher, ready, history, broken>>
(* Faulty variant: the new thread is not entered in mThreads. *)
InsertForgotten ==
  /\ ~broken
  /\ manager = "spawned" /\ manager' = "flip"
  /\ oThreadMutex' = None
  /\ UNCHANGED <<flags, queueVars, oFlowMutex, inTable, interrupted, pPckt,
                 thread, flusher, ready, history, broken>>

Insert ==
  /\ ~broken
  /\ manager = "spawned" /\ manager' = "flip"
  /\ inTable' = TRUE
  /\ oThreadMutex' = None
  /\ UNCHANGED <<flags, queueVars, oFlowMutex, interrupted, pPckt, thread,
                 flusher, ready, history, broken>>
(* Faulty variant: initProcessor() never opens the component. *)
FlipForgotten ==
  /\ ~broken
  /\ manager = "flip" /\ manager' = "pass"
  /\ UNCHANGED <<flags, queueVars, oFlowMutex, tableVars, pPckt, thread,
                 flusher, ready, history, broken>>

(* "bReceive = not bReceive; // Kludge to fix TCP-transmitter"              *)
Flip ==
  /\ ~broken
  /\ manager = "flip" /\ manager' = "pass"
  /\ bReceive' = ~bReceive
  /\ UNCHANGED <<bStop, bSchedule, connected, queueVars, oFlowMutex, tableVars,
                 pPckt, thread, flusher, ready, history, broken>>

(* A pass finds is_stopped(), or ~ProcessorManager takes everything down.   *)
BeginCancel ==
  /\ ~broken
  /\ manager = "pass" /\ manager' = "cancel"
  /\ UNCHANGED <<flags, queueVars, oFlowMutex, tableVars, pPckt, thread,
                 flusher, ready, history, broken>>

PassStopped == bStop /\ BeginCancel
Teardown == ~bStop /\ BeginCancel

(* cancelThreads(): interrupts and joins while it holds oThreadMutex.       *)
Cancel ==
  /\ ~broken
  /\ manager = "cancel"
  /\ oThreadMutex = None
  /\ IF inTable
       THEN manager' = "joining" /\ oThreadMutex' = Manager /\ interrupted' = TRUE
       ELSE manager' = "delete" /\ UNCHANGED <<oThreadMutex, interrupted>>
  /\ UNCHANGED <<flags, queueVars, oFlowMutex, inTable, pPckt, thread, flusher,
                 ready, history, broken>>

Join ==
  /\ ~broken
  /\ manager = "joining" /\ manager' = "delete"
  /\ thread \in Finished
  /\ inTable' = FALSE
  /\ oThreadMutex' = None
  /\ UNCHANGED <<flags, queueVars, oFlowMutex, interrupted, pPckt, thread,
                 flusher, ready, history, broken>>

(* ~MediaProcessor() deletes what is left in the queue. It waits for nobody: *)
(* who is inside the component at that moment uses freed memory.            *)
Delete ==
  /\ ~broken
  /\ manager = "delete" /\ manager' = "deleted"
  /\ broken' = (flusher = "flushing" \/ oQueueMutex \in Upstream)
  /\ dropped' = dropped \cup {vPacketQueue[i] : i \in DOMAIN vPacketQueue}
  /\ vPacketQueue' = <<>>
  /\ UNCHANGED <<flags, pushed, oQueueMutex, oFlowMutex, tableVars, pPckt,
                 thread, flusher, ready, delivered, flushMark, stale, late>>

ManagerStep ==
  Spawn \/ Insert \/ Flip \/ PassStopped \/ Teardown \/ Cancel \/ Join \/ Delete

-----------------------------------------------------------------------------
(* flush(), which takes oFlowMutex and not the mutex of the queue.          *)

BeginFlush ==
  /\ ~broken
  /\ manager = "pass" /\ flusher = "idle" /\ flusher' = "flushing"
  /\ oFlowMutex = None /\ oFlowMutex' = Flusher
  /\ UNCHANGED <<flags, queueVars, tableVars, pPckt, thread, manager, ready,
                 history, broken>>
(* Faulty variant: flush() drops one packet instead of all of them. *)
FlushOnce ==
  /\ ~broken
  /\ flusher = "flushing" /\ flusher' = "idle" /\ oFlowMutex' = None
  /\ oQueueMutex = None
  /\ IF vPacketQueue = <<>>
       THEN UNCHANGED <<vPacketQueue, dropped>>
       ELSE /\ dropped' = dropped \cup {Head(vPacketQueue)}
            /\ vPacketQueue' = Tail(vPacketQueue)
  /\ flushMark' = pushed /\ stale' = 0
  /\ UNCHANGED <<flags, pushed, oQueueMutex, tableVars, pPckt, thread, manager,
                 ready, delivered, late, broken>>

(* One turn of the loop. Touching the queue while another thread is inside  *)
(* its critical section is a data race, after which nothing is promised.    *)
FlushStep ==
  /\ ~broken
  /\ flusher = "flushing"
  /\ CASE oQueueMutex # None ->
            /\ broken' = TRUE
            /\ UNCHANGED <<vPacketQueue, dropped, flushMark, stale, flusher,
                           oFlowMutex>>
       [] oQueueMutex = None /\ vPacketQueue # <<>> ->
            /\ dropped' = dropped \cup {Head(vPacketQueue)}
            /\ vPacketQueue' = Tail(vPacketQueue)
            /\ UNCHANGED <<flushMark, stale, flusher, oFlowMutex, broken>>
       [] oQueueMutex = None /\ vPacketQueue = <<>> ->
            /\ flushMark' = pushed /\ stale' = 0
            /\ flusher' = "idle" /\ oFlowMutex' = None
            /\ UNCHANGED <<vPacketQueue, dropped, broken>>
  /\ UNCHANGED <<flags, pushed, oQueueMutex, tableVars, pPckt, thread, manager,
                 ready, delivered, late>>

(* end(), from the component itself, its scope or another thread.           *)
End ==
  /\ ~broken
  /\ manager \in {"flip", "pass"} /\ ~bStop
  /\ bStop' = TRUE
  /\ UNCHANGED <<bReceive, bSchedule, connected, queueVars, oFlowMutex,
                 tableVars, pPckt, thread, manager, flusher, ready, history,
                 broken>>

(* The next component is initialised by its own manager.                    *)
DownstreamReady ==
  /\ ~broken
  /\ ~ready /\ ready' = TRUE
  /\ UNCHANGED <<flags, queueVars, oFlowMutex, tableVars, pPckt, thread,
                 manager, flusher, history, broken>>

Done == (manager = "deleted" \/ broken) /\ UNCHANGED vars

Next ==
  \/ \E u \in Upstream : LockPush(u) \/ Push(u)
  \/ ThreadStep \/ ManagerStep
  \/ BeginFlush \/ FlushStep \/ End \/ DownstreamReady
  \/ Done

Spec == Init /\ [][Next]_vars

(* Every thread that can move does, and no handler has to fail. A mutex     *)
(* that is released again and again is not withheld for ever from a thread  *)
(* that waits for it; the handlers return (art. 3 of the contract in        *)
(* ProcessorManager.cpp); every component of the graph gets initialised.    *)
(* Nobody has to stop or flush.                                             *)
Fairness ==
  /\ WF_vars(ThreadProgress)
  /\ SF_vars(LockPop \/ EnterReceive \/ EnterProcess \/ LockEnd)
  /\ WF_vars(Spawn \/ Insert \/ Flip \/ PassStopped \/ Join \/ Delete)
  /\ SF_vars(Cancel)
  /\ WF_vars(FlushStep)
  /\ \A u \in Upstream : WF_vars(Push(u))
  /\ WF_vars(DownstreamReady)

FairSpec == Spec /\ Fairness

-----------------------------------------------------------------------------
Packets == 1..MaxPackets
Queued == {vPacketQueue[i] : i \in DOMAIN vPacketQueue}
Pending == Queued \cup ({pPckt} \ {0})
Delivered == {delivered[i] : i \in DOMAIN delivered}

(* The values every variable ranges over. *)
TypeOK ==
  /\ bStop \in BOOLEAN /\ bReceive \in BOOLEAN
  /\ bSchedule \in BOOLEAN /\ connected \in BOOLEAN
  /\ vPacketQueue \in Seq(Packets) /\ delivered \in Seq(Packets)
  /\ pushed \in 0..MaxPackets /\ pPckt \in 0..MaxPackets
  /\ oQueueMutex \in {None, Thread} \cup Upstream
  /\ oFlowMutex \in {None, Thread, Flusher}
  /\ oThreadMutex \in {None, Thread, Manager}
  /\ inTable \in BOOLEAN /\ interrupted \in BOOLEAN
  /\ thread \in ThreadPoints /\ manager \in ManagerPoints
  /\ flusher \in {"idle", "flushing"}
  /\ ready \in BOOLEAN /\ broken \in BOOLEAN
  /\ dropped \subseteq Packets
  /\ flushMark \in 0..MaxPackets /\ stale \in Nat /\ late \in Nat

(* Whatever stops, fails or flushes when, every packet that was pushed is   *)
(* in exactly one place: received, in the thread's hand, queued, or freed;  *)
(* none is lost between two of them and none is received or freed twice.    *)
EveryPacketOnce ==
  /\ 1..pushed = Delivered \cup Pending \cup dropped
  /\ Delivered \cap Pending = {} /\ Delivered \cap dropped = {}
  /\ Pending \cap dropped = {} /\ pPckt \notin Queued
  /\ \A i, j \in DOMAIN delivered : delivered[i] = delivered[j] => i = j

(* The component receives packets in the order in which they were queued,   *)
(* across the queue, the packet in the thread's hand and any flush between. *)
ReceivedInOrder ==
  \A i, j \in DOMAIN delivered : i < j => delivered[i] < delivered[j]

(* flush() cannot recall the packet that the thread has already popped, so  *)
(* after it returns one packet from before it can still arrive; never two.  *)
AtMostOneStale == stale <= 1

(* end() is only a flag: the thread reads it at the two loop heads, so one  *)
(* more receive() or process() may begin after it; never a second one.      *)
AtMostOneLate == late <= 1

(* The destructor never runs while the privileged thread still runs or is   *)
(* registered ("Destructor called while threads still active").             *)
NeverDeletedAlive ==
  manager \in {"delete", "deleted"} => thread \in Finished /\ ~inTable

(* A component that is told to stop is joined and deleted: the thread that  *)
(* ends on its own and the manager that cancels it never wait for each      *)
(* other, whoever gets oThreadMutex first.                                  *)
StopLeadsToDelete == bStop ~> (manager = "deleted" \/ broken)

(* A packet that was queued does not stay there for ever: it is received or *)
(* freed, as long as the thread lives.                                      *)
PushedIsConsumed ==
  \A n \in Packets :
    pushed >= n ~> (n \in Delivered \cup dropped \/ thread \in Finished \/ broken)

(* The component is a lossy first-in first-out channel towards its upstream *)
(* threads: they may rely on PacketChannel and forget the threads in here.  *)
Channel == INSTANCE PacketChannel
  WITH accepted <- pushed, pending <- Pending, received <- delivered
ImplementsChannel == Channel!Spec

(* TCPTransmitter::init() says of the flag that it "will be flipped to      *)
(* false, the actual desired setting": no packet reaches receive(), which   *)
(* writes to the socket, before process() has opened the socket.            *)
ClosedUntilConnected == Tcp /\ thread = "receiving" => connected
=============================================================================

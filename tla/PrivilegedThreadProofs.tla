----------------------- MODULE PrivilegedThreadProofs -----------------------
(***************************************************************************)
(* Proofs about PrivilegedThread, for any number of upstream threads and   *)
(* any bound on the packets. The inductive invariant Inv adds to the type *)
(* invariant who holds which mutex at which program point, what the thread *)
(* table says about the thread, and how the numbers of the packets that    *)
(* are received, in hand and queued follow each other.                     *)
(***************************************************************************)
EXTENDS PrivilegedThread, TLAPS

(* Each mutex is held exactly between the points that lock and unlock it.  *)
Mutexes ==
  /\ (oQueueMutex = Thread) <=> (thread = "popping")
  /\ (oFlowMutex = Thread) <=> (thread \in {"receiving", "processing"})
  /\ (oFlowMutex = Flusher) <=> (flusher = "flushing")
  /\ (oThreadMutex = Manager) <=> (manager \in {"spawned", "joining"})
  /\ (oThreadMutex = Thread) <=> (thread = "erasing")

(* mThreads holds the thread from Insert until the thread or the manager   *)
(* erases it, which neither does while the thread can still run.           *)
Table ==
  /\ (thread = "unborn") <=> (manager = "init")
  /\ manager = "spawned" => thread # "gone"
  /\ manager \in {"flip", "pass", "cancel", "joining"} =>
       (inTable <=> thread # "gone")
  /\ manager \in {"delete", "deleted"} => thread \in Finished /\ ~inTable

(* The thread that is about to push stays below the bound. *)
Room == oQueueMutex \in Upstream => pushed < MaxPackets

(* The thread has a packet in hand between its two critical sections. *)
InHand == (pPckt # 0) <=> (thread \in {"waitFlow", "receiving"})

Increasing(s) == \A i, j \in DOMAIN s : i < j => s[i] < s[j]

(* Received, in hand, queued: in this order, and each in order.            *)
Ordered ==
  /\ \A i \in DOMAIN vPacketQueue : pPckt < vPacketQueue[i] /\ vPacketQueue[i] <= pushed
  /\ Increasing(vPacketQueue)
  /\ pPckt <= pushed
  /\ \A i \in DOMAIN delivered :
       /\ pPckt # 0 => delivered[i] < pPckt
       /\ delivered[i] <= pushed
       /\ \A j \in DOMAIN vPacketQueue : delivered[i] < vPacketQueue[j]
  /\ ReceivedInOrder

(* Only the packet in hand can predate the last flush.                     *)
Fresh ==
  /\ flushMark <= pushed
  /\ \A i \in DOMAIN vPacketQueue : flushMark < vPacketQueue[i]
  /\ pPckt \in 1..flushMark => stale = 0
  /\ stale <= 1

(* Once a handler began after end(), the thread is on its way out.         *)
OnTheWayOut ==
  /\ late <= 1
  /\ late = 1 => bStop /\ thread \notin
       {"unborn", "locking", "popping", "waitFlow", "waitTick"}

Inv == TypeOK /\ Room /\ InHand /\ Mutexes /\ Table /\ Ordered /\ Fresh /\ OnTheWayOut

(* The first element and the rest of a nonempty sequence. *)
LEMMA HeadTail ==
  ASSUME NEW S, NEW s \in Seq(S), s # <<>>
  PROVE  /\ Head(s) \in S /\ Head(s) = s[1] /\ Tail(s) \in Seq(S)
         /\ 1 \in DOMAIN s
         /\ \A i \in DOMAIN Tail(s) : i + 1 \in DOMAIN s /\ Tail(s)[i] = s[i + 1]
         /\ \A i \in DOMAIN s : i # 1 => i - 1 \in DOMAIN Tail(s) /\ Tail(s)[i - 1] = s[i]
  OBVIOUS

(* What appending an element does to a sequence. *)
LEMMA AppendLast ==
  ASSUME NEW S, NEW s \in Seq(S), NEW e \in S
  PROVE  /\ Append(s, e) \in Seq(S)
         /\ DOMAIN Append(s, e) = DOMAIN s \cup {Len(s) + 1}
         /\ DOMAIN s = 1..Len(s) /\ Len(s) \in Nat
         /\ \A i \in DOMAIN s : Append(s, e)[i] = s[i]
         /\ Append(s, e)[Len(s) + 1] = e
  OBVIOUS


(* The elements of a sequence. *)
LEMMA Elements ==
  ASSUME NEW S, NEW s \in Seq(S)
  PROVE  \A i \in DOMAIN s : i \in Nat /\ s[i] \in S
  OBVIOUS

(* The elements of a nonempty sequence are its first and those of the rest. *)
LEMMA ElementsSplit ==
  ASSUME NEW S, NEW s \in Seq(S), s # <<>>
  PROVE  {s[i] : i \in DOMAIN s}
           = {Tail(s)[i] : i \in DOMAIN Tail(s)} \cup {Head(s)}
<1>1. \A i \in DOMAIN s : s[i] \in {Tail(s)[j] : j \in DOMAIN Tail(s)} \cup {Head(s)}
  <2> TAKE i \in DOMAIN s
  <2>1. CASE i = 1
    BY <2>1, HeadTail
  <2>2. CASE i # 1
    BY <2>2, HeadTail
  <2> QED
    BY <2>1, <2>2
<1>2. \A i \in DOMAIN Tail(s) : Tail(s)[i] \in {s[j] : j \in DOMAIN s}
  BY HeadTail
<1>3. Head(s) \in {s[j] : j \in DOMAIN s}
  BY HeadTail
<1> QED
  BY <1>1, <1>2, <1>3

(* The initial states satisfy the invariant. *)
LEMMA InitInv == Init => Inv
<1> USE MaxPacketsAssumption, TcpAssumption
    DEF Init, None, Thread, Manager, Flusher, ThreadPoints, ManagerPoints,
        Finished
<1>1. Init => TypeOK
  <2>1. Init => bReceive \in BOOLEAN /\ bSchedule \in BOOLEAN /\ ready \in BOOLEAN
    BY Zenon
  <2> QED
    <3> SUFFICES ASSUME Init PROVE TypeOK
      OBVIOUS
    <3>1. connected \in BOOLEAN /\ bStop \in BOOLEAN /\ inTable \in BOOLEAN
          /\ interrupted \in BOOLEAN /\ broken \in BOOLEAN
      BY Zenon
    <3>2. /\ vPacketQueue \in Seq(Packets) /\ delivered \in Seq(Packets)
          /\ dropped \subseteq Packets
      OBVIOUS
    <3>3. /\ pushed \in 0..MaxPackets /\ pPckt \in 0..MaxPackets
          /\ flushMark \in 0..MaxPackets /\ stale \in Nat /\ late \in Nat
      BY MaxPacketsAssumption
    <3>4. thread \in ThreadPoints /\ manager \in ManagerPoints
      OBVIOUS
    <3> QED
      BY <2>1, <3>1, <3>2, <3>3, <3>4, Zenon DEF TypeOK
<1>2. Init => Room /\ InHand /\ Mutexes /\ Table /\ Fresh /\ OnTheWayOut
  BY UpstreamAssumption DEF Room, InHand, Mutexes, Table, Fresh, OnTheWayOut
<1>3. Init => Ordered
  BY UpstreamAssumption DEF Ordered, ReceivedInOrder, Increasing
<1> QED
  BY <1>1, <1>2, <1>3 DEF Inv

(* Every step keeps the types. *)
LEMMA NextType == TypeOK /\ Room /\ InHand /\ [Next]_vars => TypeOK'
<1> SUFFICES ASSUME TypeOK, Room, InHand, [Next]_vars PROVE TypeOK'
  OBVIOUS
<1> USE MaxPacketsAssumption DEF TypeOK, flags, queueVars, tableVars, history
<1>1. ASSUME OuterLoop PROVE TypeOK'
  BY <1>1 DEF OuterLoop, Goto, ThreadPoints
<1>2. ASSUME InnerLoop PROVE TypeOK'
  BY <1>2 DEF InnerLoop, Goto, ThreadPoints
<1>3. ASSUME LockPop PROVE TypeOK'
  BY <1>3 DEF LockPop, Goto, ThreadPoints, Thread
<1>4. ASSUME Pop PROVE TypeOK'
  <2>1. CASE vPacketQueue = <<>>
    BY <1>4, <2>1 DEF Pop, Goto, ThreadPoints, None
  <2>2. CASE vPacketQueue # <<>>
    <3>1. Head(vPacketQueue) \in Packets /\ Tail(vPacketQueue) \in Seq(Packets)
      BY <2>2, HeadTail
    <3> QED
      <4>1. pPckt' \in 0..MaxPackets /\ thread' \in ThreadPoints
        BY <1>4, <2>2, <3>1 DEF Pop, Packets, Goto, ThreadPoints
      <4>2. vPacketQueue' \in Seq(Packets) /\ oQueueMutex' = None
        BY <1>4, <2>2, <3>1 DEF Pop
      <4> QED
        BY <1>4, <4>1, <4>2 DEF Pop
  <2> QED
    BY <2>1, <2>2
<1>5. ASSUME EnterReceive PROVE TypeOK'
  BY <1>5 DEF EnterReceive, Goto, ThreadPoints, Thread
<1>6. ASSUME Receive PROVE TypeOK'
  <2>1. delivered' \in Seq(Packets)
    BY <1>6, AppendLast, MaxPacketsAssumption DEF Receive, Packets, Goto, InHand
  <2> QED
    BY <1>6, <2>1 DEF Receive, Goto, ThreadPoints, None
<1>7. ASSUME Tick PROVE TypeOK'
  BY <1>7 DEF Tick, Goto, ThreadPoints
<1>8. ASSUME EnterProcess PROVE TypeOK'
  BY <1>8 DEF EnterProcess, Goto, ThreadPoints, Thread
<1>9. ASSUME Process PROVE TypeOK'
  <2>1. CASE Tcp /\ ~connected
    BY <1>9, <2>1 DEF Process, Goto, ThreadPoints, None
  <2>2. CASE ~(Tcp /\ ~connected)
    BY <1>9, <2>2 DEF Process, Goto, ThreadPoints, None
  <2> QED
    BY <2>1, <2>2
<1>10. ASSUME LockEnd PROVE TypeOK'
  BY <1>10 DEF LockEnd, Goto, ThreadPoints, Thread
<1>11. ASSUME InterruptEnd PROVE TypeOK'
  BY <1>11 DEF InterruptEnd, Goto, ThreadPoints, Finished
<1>12. ASSUME EraseEntry PROVE TypeOK'
  BY <1>12, ZenonT(30) DEF EraseEntry, Goto, ThreadPoints, Finished, None
<1>13. ASSUME Spawn PROVE TypeOK'
  BY <1>13 DEF Spawn, ManagerPoints, Manager, None, ThreadPoints
<1>14. ASSUME Insert PROVE TypeOK'
  BY <1>14 DEF Insert, ManagerPoints, Manager, None
<1>15. ASSUME Flip PROVE TypeOK'
  BY <1>15 DEF Flip, ManagerPoints, Manager, None
<1>16. ASSUME PassStopped PROVE TypeOK'
  BY <1>16 DEF PassStopped, BeginCancel, ManagerPoints, Manager, None
<1>17. ASSUME Teardown PROVE TypeOK'
  BY <1>17 DEF Teardown, BeginCancel, ManagerPoints, Manager, None
<1>18. ASSUME Cancel PROVE TypeOK'
  <2>1. CASE inTable
    BY <1>18, <2>1 DEF Cancel, ManagerPoints, Manager, None
  <2>2. CASE ~inTable
    BY <1>18, <2>2 DEF Cancel, ManagerPoints, Manager, None
  <2> QED
    BY <2>1, <2>2
<1>19. ASSUME Join PROVE TypeOK'
  BY <1>19, Zenon DEF Join, ManagerPoints, Manager, None
<1>20. ASSUME Delete PROVE TypeOK'
  <2>1. dropped' \subseteq Packets
    <3>1. \A i \in DOMAIN vPacketQueue : vPacketQueue[i] \in Packets
      OBVIOUS
    <3> QED
      BY <1>20, <3>1, Zenon DEF Delete
  <2> QED
    BY <1>20, <2>1 DEF Delete, ManagerPoints
<1>21. ASSUME BeginFlush PROVE TypeOK'
  BY <1>21 DEF BeginFlush, Flusher
<1>22. ASSUME FlushStep PROVE TypeOK'
  <2>1. CASE oQueueMutex # None
    <3>1. broken' \in BOOLEAN
      BY <1>22, <2>1, Zenon DEF FlushStep
    <3>2. UNCHANGED <<vPacketQueue, dropped, flushMark, stale, flusher, oFlowMutex>>
      BY <1>22, <2>1 DEF FlushStep
    <3> QED
      BY <1>22, <3>1, <3>2 DEF FlushStep
  <2>2. CASE oQueueMutex = None /\ vPacketQueue # <<>>
    <3>1. Head(vPacketQueue) \in Packets /\ Tail(vPacketQueue) \in Seq(Packets)
      BY <2>2, HeadTail
    <3> QED
      BY <1>22, <2>2, <3>1, ZenonT(30) DEF FlushStep
  <2>3. CASE oQueueMutex = None /\ vPacketQueue = <<>>
    BY <1>22, <2>3 DEF FlushStep, None
  <2> QED
    BY <2>1, <2>2, <2>3
<1>23. ASSUME End PROVE TypeOK'
  BY <1>23 DEF End
<1>24. ASSUME DownstreamReady PROVE TypeOK'
  BY <1>24 DEF DownstreamReady
<1>25. ASSUME NEW u \in Upstream, LockPush(u) PROVE TypeOK'
  BY <1>25 DEF LockPush
<1>26. ASSUME NEW u \in Upstream, Push(u) PROVE TypeOK'
  <2>1. vPacketQueue' \in Seq(Packets) /\ pushed' \in 0..MaxPackets
    <3>1. pushed + 1 \in Packets
      BY <1>26, MaxPacketsAssumption DEF Push, Packets, Room
    <3> QED
      BY <1>26, <3>1, AppendLast DEF Push, Packets
  <2> QED
    BY <1>26, <2>1 DEF Push, None
<1>27. ASSUME NEW p \in {"receiving", "processing"}, InterruptHandler(p) PROVE TypeOK'
  <2>1. dropped' \subseteq Packets
    BY <1>27 DEF InterruptHandler, Unwind, Packets
  <2>2. thread' \in ThreadPoints
    BY <1>27 DEF InterruptHandler, Unwind, Goto, ThreadPoints, Finished
  <2> QED
    BY <1>27, <2>1, <2>2 DEF InterruptHandler, Unwind, None
<1>28. ASSUME NEW p \in {"receiving", "processing"}, FailHandler(p) PROVE TypeOK'
  <2>1. bStop' \in BOOLEAN
    BY <1>28, Zenon DEF FailHandler
  <2>2. dropped' \subseteq Packets
    BY <1>28 DEF FailHandler, Unwind, Packets
  <2>3. thread' \in ThreadPoints
    BY <1>28 DEF FailHandler, Unwind, Goto, ThreadPoints, Finished
  <2> QED
    BY <1>28, <2>1, <2>2, <2>3 DEF FailHandler, Unwind, None
<1>29. ASSUME InterruptionPoint("point", "inner") PROVE TypeOK'
  BY <1>29 DEF InterruptionPoint, Goto, ThreadPoints, Finished
<1>30. ASSUME InterruptionPoint("resync", "outer") PROVE TypeOK'
  BY <1>30 DEF InterruptionPoint, Goto, ThreadPoints, Finished
<1>31. CASE UNCHANGED vars
  BY <1>31 DEF vars
<1> HIDE DEF TypeOK
<1> QED
  BY <1>1, <1>2, <1>3, <1>4, <1>5, <1>6, <1>7, <1>8, <1>9, <1>10, <1>11, <1>12, <1>13, <1>14, <1>15,
     <1>16, <1>17, <1>18, <1>19, <1>20, <1>21, <1>22, <1>23, <1>24, <1>25, <1>26, <1>27, <1>28,
     <1>29, <1>30, <1>31 DEF Next, ThreadStep, ThreadProgress, ManagerStep, Done

(* The rest of an increasing sequence is increasing and after its first. *)
LEMMA TailIncreasing ==
  ASSUME NEW s \in Seq(Packets), s # <<>>, Increasing(s)
  PROVE  /\ Increasing(Tail(s))
         /\ \A i \in DOMAIN Tail(s) : Head(s) < Tail(s)[i]
         /\ \A i \in DOMAIN Tail(s) : \E j \in DOMAIN s : Tail(s)[i] = s[j]
         /\ \E j \in DOMAIN s : Head(s) = s[j]
<1>1. /\ Head(s) = s[1] /\ 1 \in DOMAIN s
      /\ \A i \in DOMAIN Tail(s) : i + 1 \in DOMAIN s /\ Tail(s)[i] = s[i + 1]
  BY HeadTail
<1>2. DOMAIN s = 1..Len(s) /\ Len(s) \in Nat /\ DOMAIN Tail(s) \subseteq Nat \ {0}
  OBVIOUS
<1> QED
  BY <1>1, <1>2 DEF Increasing

(* Taking the first packet of the queue keeps the order of the packets. *)
LEMMA PopOrder == Inv /\ Pop => Ordered' /\ Fresh'
<1> SUFFICES ASSUME Inv, Pop PROVE Ordered' /\ Fresh'
  OBVIOUS
<1>1. pPckt = 0 /\ UNCHANGED <<pushed, delivered, flushMark, stale>>
  BY DEF Inv, InHand, Pop, Goto, history
<1>2. vPacketQueue \in Seq(Packets) /\ Increasing(vPacketQueue)
  BY DEF Inv, TypeOK, Ordered
<1>3. CASE vPacketQueue = <<>>
  <2>1. UNCHANGED <<vPacketQueue, pPckt>>
    BY <1>3 DEF Pop
  <2> QED
    BY <1>1, <2>1 DEF Inv, Ordered, Fresh, ReceivedInOrder, Increasing
<1>4. CASE vPacketQueue # <<>>
  <2>1. pPckt' = Head(vPacketQueue) /\ vPacketQueue' = Tail(vPacketQueue)
    BY <1>4 DEF Pop
  <2>2. Ordered'
    BY <1>1, <1>2, <1>4, <2>1, TailIncreasing
    DEF Inv, Ordered, ReceivedInOrder
  <2>3. Fresh'
    <3>1. flushMark < pPckt' /\ \A i \in DOMAIN vPacketQueue' : flushMark < vPacketQueue'[i]
      BY <1>2, <1>4, <2>1, TailIncreasing DEF Inv, Fresh
    <3>2. flushMark \in Nat /\ pPckt' \in Int
      BY <1>2, <1>4, <2>1, HeadTail, MaxPacketsAssumption DEF Inv, TypeOK, Packets
    <3> QED
      BY <1>1, <3>1, <3>2 DEF Inv, Fresh
  <2> QED
    BY <2>2, <2>3
<1> QED
  BY <1>3, <1>4

(* So does dropping it, and when the queue is empty the mark moves on. *)
LEMMA FlushOrder == Inv /\ FlushStep => Ordered' /\ Fresh'
<1> SUFFICES ASSUME Inv, FlushStep PROVE Ordered' /\ Fresh'
  OBVIOUS
<1>1. UNCHANGED <<pushed, delivered, pPckt>>
  BY DEF FlushStep
<1>2. vPacketQueue \in Seq(Packets) /\ Increasing(vPacketQueue)
  BY DEF Inv, TypeOK, Ordered
<1>3. CASE oQueueMutex # None
  <2>1. UNCHANGED <<vPacketQueue, flushMark, stale>>
    BY <1>3 DEF FlushStep
  <2> QED
    BY <1>1, <2>1 DEF Inv, Ordered, Fresh, ReceivedInOrder, Increasing
<1>4. CASE oQueueMutex = None /\ vPacketQueue # <<>>
  <2>1. vPacketQueue' = Tail(vPacketQueue) /\ UNCHANGED <<flushMark, stale>>
    BY <1>4 DEF FlushStep
  <2> QED
    BY <1>1, <1>2, <1>4, <2>1, TailIncreasing
    DEF Inv, Ordered, Fresh, ReceivedInOrder
<1>5. CASE oQueueMutex = None /\ vPacketQueue = <<>>
  <2>1. vPacketQueue' = <<>> /\ flushMark' = pushed /\ stale' = 0
    BY <1>5 DEF FlushStep
  <2> QED
    BY <1>1, <1>5, <2>1, MaxPacketsAssumption
    DEF Inv, TypeOK, Ordered, Fresh, ReceivedInOrder, Increasing
<1> QED
  BY <1>3, <1>4, <1>5

(* Every step preserves the invariant. *)
LEMMA NextInv == Inv /\ [Next]_vars => Inv'
<1> SUFFICES ASSUME Inv, [Next]_vars PROVE Inv'
  OBVIOUS
<1> TypeOK'
  BY NextType DEF Inv
<1> USE MaxPacketsAssumption, TcpAssumption, UpstreamAssumption
    DEF Inv, TypeOK, Room, InHand, Mutexes, Table, Ordered, Fresh, OnTheWayOut,
        Increasing, ReceivedInOrder, None, Thread, Manager, Flusher, ThreadPoints,
        ManagerPoints, Finished, Packets, Goto,
        flags, queueVars, tableVars, history
<1>1. ASSUME OuterLoop PROVE Inv'
  BY <1>1 DEF OuterLoop
<1>2. ASSUME InnerLoop PROVE Inv'
  BY <1>2 DEF InnerLoop
<1>3. ASSUME LockPop PROVE Inv'
  BY <1>3 DEF LockPop
<1>4. ASSUME Pop PROVE Inv'
  <2>1. Room' /\ InHand'
    BY <1>4, HeadTail DEF Pop
  <2>2. Mutexes'
    BY <1>4, HeadTail DEF Pop
  <2>3. Table'
    BY <1>4, HeadTail DEF Pop
  <2>4. Ordered'
    BY <1>4, PopOrder
  <2>5. Fresh'
    BY <1>4, PopOrder
  <2>6. OnTheWayOut'
    BY <1>4, HeadTail DEF Pop
  <2> HIDE DEF TypeOK, Room, InHand, Mutexes, Table, Ordered, Fresh, OnTheWayOut
  <2> QED
    BY <2>1, <2>2, <2>3, <2>4, <2>5, <2>6
<1>5. ASSUME EnterReceive PROVE Inv'
  BY <1>5 DEF EnterReceive
<1>6. ASSUME Receive PROVE Inv'
  <2>1. Room' /\ InHand'
    BY <1>6, AppendLast DEF Receive
  <2>2. Mutexes'
    BY <1>6, AppendLast DEF Receive
  <2>3. Table'
    BY <1>6, AppendLast DEF Receive
  <2>4. Ordered'
    <3>1. \A i \in DOMAIN delivered' :
            \/ i \in DOMAIN delivered /\ delivered'[i] = delivered[i]
            \/ i = Len(delivered) + 1 /\ delivered'[i] = pPckt
      BY <1>6, AppendLast DEF Receive
    <3>2. DOMAIN delivered = 1..Len(delivered) /\ Len(delivered) \in Nat
      BY AppendLast
    <3> QED
      BY <1>6, <3>1, <3>2 DEF Receive
  <2>5. Fresh'
    BY <1>6, AppendLast DEF Receive
  <2>6. OnTheWayOut'
    BY <1>6, AppendLast DEF Receive
  <2> HIDE DEF TypeOK, Room, InHand, Mutexes, Table, Ordered, Fresh, OnTheWayOut
  <2> QED
    BY <2>1, <2>2, <2>3, <2>4, <2>5, <2>6
<1>7. ASSUME Tick PROVE Inv'
  BY <1>7 DEF Tick
<1>8. ASSUME EnterProcess PROVE Inv'
  BY <1>8 DEF EnterProcess
<1>9. ASSUME Process PROVE Inv'
  <2>1. Room' /\ InHand'
    BY <1>9 DEF Process
  <2>2. Mutexes'
    BY <1>9 DEF Process
  <2>3. Table'
    BY <1>9 DEF Process
  <2>4. Ordered'
    BY <1>9 DEF Process
  <2>5. Fresh'
    BY <1>9 DEF Process
  <2>6. OnTheWayOut'
    BY <1>9 DEF Process
  <2> HIDE DEF TypeOK, Room, InHand, Mutexes, Table, Ordered, Fresh, OnTheWayOut
  <2> QED
    BY <2>1, <2>2, <2>3, <2>4, <2>5, <2>6
<1>10. ASSUME LockEnd PROVE Inv'
  BY <1>10 DEF LockEnd
<1>11. ASSUME InterruptEnd PROVE Inv'
  BY <1>11 DEF InterruptEnd
<1>12. ASSUME EraseEntry PROVE Inv'
  <2>1. Room' /\ InHand'
    BY <1>12 DEF EraseEntry
  <2>2. Mutexes'
    BY <1>12 DEF EraseEntry
  <2>3. Table'
    BY <1>12 DEF EraseEntry
  <2>4. Ordered'
    BY <1>12 DEF EraseEntry
  <2>5. Fresh'
    BY <1>12 DEF EraseEntry
  <2>6. OnTheWayOut'
    BY <1>12 DEF EraseEntry
  <2> HIDE DEF TypeOK, Room, InHand, Mutexes, Table, Ordered, Fresh, OnTheWayOut
  <2> QED
    BY <2>1, <2>2, <2>3, <2>4, <2>5, <2>6
<1>13. ASSUME Spawn PROVE Inv'
  BY <1>13 DEF Spawn
<1>14. ASSUME Insert PROVE Inv'
  BY <1>14 DEF Insert
<1>15. ASSUME Flip PROVE Inv'
  BY <1>15 DEF Flip
<1>16. ASSUME PassStopped PROVE Inv'
  BY <1>16 DEF PassStopped, BeginCancel
<1>17. ASSUME Teardown PROVE Inv'
  BY <1>17 DEF Teardown, BeginCancel
<1>18. ASSUME Cancel PROVE Inv'
  <2>1. Room' /\ InHand'
    BY <1>18 DEF Cancel
  <2>2. Mutexes'
    BY <1>18 DEF Cancel
  <2>3. Table'
    BY <1>18 DEF Cancel
  <2>4. Ordered'
    BY <1>18 DEF Cancel
  <2>5. Fresh'
    BY <1>18 DEF Cancel
  <2>6. OnTheWayOut'
    BY <1>18 DEF Cancel
  <2> HIDE DEF TypeOK, Room, InHand, Mutexes, Table, Ordered, Fresh, OnTheWayOut
  <2> QED
    BY <2>1, <2>2, <2>3, <2>4, <2>5, <2>6
<1>19. ASSUME Join PROVE Inv'
  <2>1. Room' /\ InHand'
    BY <1>19 DEF Join
  <2>2. Mutexes'
    BY <1>19 DEF Join
  <2>3. Table'
    BY <1>19 DEF Join
  <2>4. Ordered'
    BY <1>19 DEF Join
  <2>5. Fresh'
    BY <1>19 DEF Join
  <2>6. OnTheWayOut'
    BY <1>19 DEF Join
  <2> HIDE DEF TypeOK, Room, InHand, Mutexes, Table, Ordered, Fresh, OnTheWayOut
  <2> QED
    BY <2>1, <2>2, <2>3, <2>4, <2>5, <2>6
<1>20. ASSUME Delete PROVE Inv'
  <2>1. Room' /\ InHand'
    BY <1>20 DEF Delete
  <2>2. Mutexes'
    BY <1>20 DEF Delete
  <2>3. Table'
    BY <1>20 DEF Delete
  <2>4. Ordered'
    BY <1>20 DEF Delete
  <2>5. Fresh'
    BY <1>20 DEF Delete
  <2>6. OnTheWayOut'
    BY <1>20 DEF Delete
  <2> HIDE DEF TypeOK, Room, InHand, Mutexes, Table, Ordered, Fresh, OnTheWayOut
  <2> QED
    BY <2>1, <2>2, <2>3, <2>4, <2>5, <2>6
<1>21. ASSUME BeginFlush PROVE Inv'
  BY <1>21 DEF BeginFlush
<1>22. ASSUME FlushStep PROVE Inv'
  <2>1. Room' /\ InHand'
    BY <1>22 DEF FlushStep
  <2>2. Mutexes'
    BY <1>22 DEF FlushStep
  <2>3. Table'
    BY <1>22 DEF FlushStep
  <2>4. Ordered'
    BY <1>22, FlushOrder
  <2>5. Fresh'
    BY <1>22, FlushOrder
  <2>6. OnTheWayOut'
    BY <1>22 DEF FlushStep
  <2> HIDE DEF TypeOK, Room, InHand, Mutexes, Table, Ordered, Fresh, OnTheWayOut
  <2> QED
    BY <2>1, <2>2, <2>3, <2>4, <2>5, <2>6
<1>23. ASSUME End PROVE Inv'
  BY <1>23 DEF End
<1>24. ASSUME DownstreamReady PROVE Inv'
  BY <1>24 DEF DownstreamReady
<1>25. ASSUME NEW u \in Upstream, LockPush(u) PROVE Inv'
  BY <1>25 DEF LockPush
<1>26. ASSUME NEW u \in Upstream, Push(u) PROVE Inv'
  <2>1. Room' /\ InHand'
    BY <1>26, AppendLast DEF Push
  <2>2. Mutexes'
    BY <1>26, AppendLast DEF Push
  <2>3. Table'
    BY <1>26, AppendLast DEF Push
  <2>4. Ordered'
    <3>1. \A i \in DOMAIN vPacketQueue' :
            \/ i \in DOMAIN vPacketQueue /\ vPacketQueue'[i] = vPacketQueue[i]
            \/ i = Len(vPacketQueue) + 1 /\ vPacketQueue'[i] = pushed + 1
      BY <1>26, AppendLast DEF Push
    <3>2. DOMAIN vPacketQueue = 1..Len(vPacketQueue) /\ Len(vPacketQueue) \in Nat
      BY AppendLast
    <3> QED
      BY <1>26, <3>1, <3>2, SMTT(30) DEF Push
  <2>5. Fresh'
    BY <1>26, AppendLast DEF Push
  <2>6. OnTheWayOut'
    BY <1>26, AppendLast DEF Push
  <2> HIDE DEF TypeOK, Room, InHand, Mutexes, Table, Ordered, Fresh, OnTheWayOut
  <2> QED
    BY <2>1, <2>2, <2>3, <2>4, <2>5, <2>6
<1>27. ASSUME NEW p \in {"receiving", "processing"}, InterruptHandler(p) PROVE Inv'
  BY <1>27 DEF InterruptHandler, Unwind
<1>28. ASSUME NEW p \in {"receiving", "processing"}, FailHandler(p) PROVE Inv'
  <2>1. Room' /\ InHand'
    BY <1>28 DEF FailHandler, Unwind
  <2>2. Mutexes'
    BY <1>28 DEF FailHandler, Unwind
  <2>3. Table'
    BY <1>28 DEF FailHandler, Unwind
  <2>4. Ordered'
    BY <1>28 DEF FailHandler, Unwind
  <2>5. Fresh'
    BY <1>28 DEF FailHandler, Unwind
  <2>6. OnTheWayOut'
    <3>1. bStop => bStop'
      BY <1>28, Zenon DEF FailHandler
    <3>2. late' = late /\ thread' = "failed"
      BY <1>28 DEF FailHandler, Unwind
    <3> QED
      BY <3>1, <3>2 DEF OnTheWayOut
  <2> HIDE DEF TypeOK, Room, InHand, Mutexes, Table, Ordered, Fresh, OnTheWayOut
  <2> QED
    BY <2>1, <2>2, <2>3, <2>4, <2>5, <2>6
<1>29. ASSUME InterruptionPoint("point", "inner") PROVE Inv'
  BY <1>29 DEF InterruptionPoint
<1>30. ASSUME InterruptionPoint("resync", "outer") PROVE Inv'
  BY <1>30 DEF InterruptionPoint
<1>31. CASE UNCHANGED vars
  BY <1>31 DEF vars
<1> HIDE DEF Inv
<1> QED
  BY <1>1, <1>2, <1>3, <1>4, <1>5, <1>6, <1>7, <1>8, <1>9, <1>10, <1>11, <1>12, <1>13, <1>14, <1>15,
     <1>16, <1>17, <1>18, <1>19, <1>20, <1>21, <1>22, <1>23, <1>24, <1>25, <1>26, <1>27, <1>28,
     <1>29, <1>30, <1>31 DEF Next, ThreadStep, ThreadProgress, ManagerStep, Done

(* The invariant holds in every reachable state. *)
THEOREM Invariance == Spec => []Inv
  BY InitInv, NextInv, PTL DEF Spec

(* Every variable keeps its type: no handler, race to stop or flush puts the *)
(* component's fields outside the values the code can read.                  *)
THEOREM TypeCorrectness == Spec => []TypeOK
  BY Invariance, PTL DEF Inv

(* Packets are received in the order in which upstream threads queued them.  *)
THEOREM OrderIsKept == Spec => []ReceivedInOrder
<1>1. Inv => ReceivedInOrder
  BY DEF Inv, Ordered
<1> QED
  BY <1>1, Invariance, PTL

(* flush() lets at most the packet through that was already popped.          *)
THEOREM FlushRecallsAllButOne == Spec => []AtMostOneStale
<1>1. Inv => AtMostOneStale
  BY DEF Inv, Fresh, AtMostOneStale
<1> QED
  BY <1>1, Invariance, PTL

(* end() lets at most one more handler begin.                                *)
THEOREM StopIsPrompt == Spec => []AtMostOneLate
<1>1. Inv => AtMostOneLate
  BY DEF Inv, OnTheWayOut, AtMostOneLate
<1> QED
  BY <1>1, Invariance, PTL

(* The component is not destroyed while its thread runs or is registered.    *)
THEOREM DestructorIsSafe == Spec => []NeverDeletedAlive
<1>1. Inv => NeverDeletedAlive
  BY DEF Inv, Table, NeverDeletedAlive
<1> QED
  BY <1>1, Invariance, PTL

-----------------------------------------------------------------------------
(* The four things a step can do to the packets.                           *)
Stays == pushed' = pushed /\ Pending' = Pending /\ delivered' = delivered
         /\ dropped' = dropped

Enters == pushed' = pushed + 1 /\ Pending' = Pending \cup {pushed + 1}
          /\ delivered' = delivered /\ dropped' = dropped

Arrives(n) == /\ n \in Pending /\ \A m \in Pending : n <= m
              /\ pushed' = pushed /\ Pending' = Pending \ {n}
              /\ delivered' = Append(delivered, n) /\ dropped' = dropped

Vanish(S) == /\ S \subseteq Pending
             /\ pushed' = pushed /\ Pending' = Pending \ S
             /\ delivered' = delivered /\ dropped' = dropped \cup S

Moves == Stays \/ Enters \/ (\E n \in Pending : Arrives(n))
         \/ (\E S \in SUBSET Pending : Vanish(S))

(* Pushing adds one packet to those on their way. *)
LEMMA PushMoves ==
  ASSUME Inv, NEW u \in Upstream, Push(u)
  PROVE  Enters
<1>1. vPacketQueue \in Seq(Packets)
  BY DEF Inv, TypeOK
<1>2. pushed + 1 \in Packets
  BY MaxPacketsAssumption DEF Inv, TypeOK, Room, Push, Packets
<1>3. Queued' = Queued \cup {pushed + 1}
  BY <1>1, <1>2, AppendLast DEF Push, Queued
<1> QED
  BY <1>3 DEF Push, Enters, Pending, history

(* Popping moves a packet from the queue to the hand of the thread. *)
LEMMA PopMoves ==
  ASSUME Inv, Pop
  PROVE  Stays
<1>1. vPacketQueue \in Seq(Packets) /\ pPckt = 0
  BY DEF Inv, TypeOK, InHand, Pop, Goto
<1>2. CASE vPacketQueue = <<>>
  BY <1>2 DEF Pop, Stays, Pending, Queued, history
<1>3. CASE vPacketQueue # <<>>
  <2>1. Queued = Queued' \cup {Head(vPacketQueue)} /\ Head(vPacketQueue) # 0
    <3>1. Head(vPacketQueue) \in Packets
      BY <1>1, <1>3, HeadTail
    <3>2. Queued = {Tail(vPacketQueue)[i] : i \in DOMAIN Tail(vPacketQueue)}
                     \cup {Head(vPacketQueue)}
      BY <1>1, <1>3, ElementsSplit DEF Queued
    <3>3. vPacketQueue' = Tail(vPacketQueue)
      BY <1>3 DEF Pop
    <3>4. Queued' = {Tail(vPacketQueue)[i] : i \in DOMAIN Tail(vPacketQueue)}
      BY <3>3 DEF Queued
    <3>5. Head(vPacketQueue) # 0
      BY <3>1 DEF Packets
    <3> QED
      BY <3>2, <3>4, <3>5
  <2> QED
    BY <1>1, <1>3, <2>1 DEF Pop, Stays, Pending, history
<1> QED
  BY <1>2, <1>3

(* The packet in hand is the oldest on its way. *)
LEMMA ReceiveMoves ==
  ASSUME Inv, Receive
  PROVE  Arrives(pPckt)
<1>1. pPckt # 0 /\ pPckt \notin Queued /\ pPckt \in Int
  BY DEF Inv, TypeOK, InHand, Ordered, Receive, Goto, Queued
<1>2. Pending = Queued \cup {pPckt} /\ Queued' = Queued /\ Pending' = Queued
  BY <1>1 DEF Receive, Pending, Queued, queueVars
<1>3. \A m \in Pending : pPckt <= m
  <2>1. \A m \in Queued : pPckt < m /\ m \in Int
    <3>1. \A i \in DOMAIN vPacketQueue : vPacketQueue[i] \in Packets
      BY Elements DEF Inv, TypeOK
    <3>2. \A i \in DOMAIN vPacketQueue : pPckt < vPacketQueue[i]
      BY DEF Inv, Ordered
    <3> QED
      BY <3>1, <3>2 DEF Queued, Packets
  <2> QED
    BY <1>1, <1>2, <2>1
<1> QED
  BY <1>1, <1>2, <1>3 DEF Receive, Arrives, queueVars

(* Unwinding destroys the packet in hand, if there is one. *)
LEMMA UnwindMoves ==
  ASSUME Inv, NEW p, NEW q, Unwind(p, q)
  PROVE  Vanish({pPckt} \ {0})
<1>1. pPckt \notin Queued
  BY DEF Inv, TypeOK, Ordered, Queued, Packets
<1>2. Queued' = Queued /\ pPckt' = 0
  BY DEF Unwind, Queued, queueVars
<1> QED
  BY <1>1, <1>2 DEF Unwind, Vanish, Pending, queueVars

(* A turn of flush() drops the first packet of the queue. *)
LEMMA FlushMoves ==
  ASSUME Inv, FlushStep
  PROVE  Moves
<1>1. vPacketQueue \in Seq(Packets) /\ Increasing(vPacketQueue)
  BY DEF Inv, TypeOK, Ordered
<1>2. CASE oQueueMutex = None /\ vPacketQueue # <<>>
  <2> DEFINE h == Head(vPacketQueue)
  <2>1. Queued = Queued' \cup {h} /\ h \notin Queued'
    <3>1. vPacketQueue' = Tail(vPacketQueue)
      BY <1>2 DEF FlushStep
    <3>2. \A i \in DOMAIN Tail(vPacketQueue) : h < Tail(vPacketQueue)[i]
      BY <1>1, <1>2, TailIncreasing
    <3>3. \A i \in DOMAIN Tail(vPacketQueue) : h # Tail(vPacketQueue)[i]
      <4>1. \A i \in DOMAIN Tail(vPacketQueue) : Tail(vPacketQueue)[i] \in Packets
        BY <1>1, <1>2, HeadTail, Elements
      <4>2. h \in Packets
        BY <1>1, <1>2, HeadTail
      <4> QED
        BY <3>2, <4>1, <4>2 DEF Packets
    <3> QED
      BY <1>1, <1>2, <3>1, <3>3, ElementsSplit DEF Queued
  <2>2. h # pPckt
    BY <1>1, <1>2, HeadTail DEF Inv, TypeOK, Ordered, Packets
  <2>3. Vanish({h})
    BY <1>2, <2>1, <2>2 DEF FlushStep, Vanish, Pending
  <2> QED
    BY <2>3 DEF Moves, Vanish
<1>3. CASE ~(oQueueMutex = None /\ vPacketQueue # <<>>)
  <2>1. UNCHANGED <<vPacketQueue, pPckt, pushed, delivered, dropped>>
    BY <1>3 DEF FlushStep
  <2> QED
    BY <2>1 DEF Moves, Stays, Pending, Queued
<1> QED
  BY <1>2, <1>3

(* The destructor drops the whole queue. *)
LEMMA DeleteMoves ==
  ASSUME Inv, Delete
  PROVE  Vanish(Queued)
<1>1. pPckt = 0
  BY DEF Inv, Table, InHand, Delete, Finished
<1>2. Queued' = {} /\ Pending = Queued /\ Pending' = {}
  BY <1>1 DEF Delete, Queued, Pending
<1> QED
  BY <1>2 DEF Delete, Vanish, Queued

(* Every step moves the packets in one of the four ways. *)
LEMMA StepMoves == Inv /\ [Next]_vars => Moves
<1> SUFFICES ASSUME Inv, [Next]_vars PROVE Moves
  OBVIOUS
<1>1. ASSUME UNCHANGED <<vPacketQueue, pPckt, pushed, delivered, dropped>>
      PROVE  Moves
  BY <1>1 DEF Moves, Stays, Pending, Queued
<1>2. CASE UNCHANGED vars
  BY <1>1, <1>2 DEF vars, queueVars, history
<1>3. CASE \E u \in Upstream : LockPush(u)
  BY <1>1, <1>3 DEF LockPush, history
<1>4. CASE \E u \in Upstream : Push(u)
  BY <1>4, PushMoves DEF Moves
<1>5. CASE Pop
  BY <1>5, PopMoves DEF Moves
<1>6. CASE Receive
  BY <1>6, ReceiveMoves DEF Moves, Arrives
<1>7. CASE \E p \in {"receiving", "processing"} : InterruptHandler(p) \/ FailHandler(p)
  BY <1>7, UnwindMoves DEF InterruptHandler, FailHandler, Moves, Vanish
<1>8. CASE FlushStep
  BY <1>8, FlushMoves
<1>9. CASE Delete
  BY <1>9, DeleteMoves DEF Moves, Vanish
<1>10. CASE OuterLoop \/ InnerLoop \/ LockPop \/ EnterReceive \/ Tick
            \/ EnterProcess \/ Process \/ LockEnd \/ InterruptEnd \/ EraseEntry
            \/ InterruptionPoint("point", "inner") \/ InterruptionPoint("resync", "outer")
  BY <1>1, <1>10
  DEF OuterLoop, InnerLoop, LockPop, EnterReceive, Tick, EnterProcess, Process,
      LockEnd, InterruptEnd, EraseEntry, InterruptionPoint, queueVars, history
<1>11. CASE Spawn \/ Insert \/ Flip \/ PassStopped \/ Teardown \/ Cancel \/ Join
            \/ BeginFlush \/ End \/ DownstreamReady
  BY <1>1, <1>11
  DEF Spawn, Insert, Flip, PassStopped, Teardown, BeginCancel, Cancel, Join,
      BeginFlush, End, DownstreamReady, queueVars, history
<1> QED
  BY <1>2, <1>3, <1>4, <1>5, <1>6, <1>7, <1>8, <1>9, <1>10, <1>11
  DEF Next, ThreadStep, ThreadProgress, ManagerStep, Done

(* Whatever stops, fails or flushes when, no packet is lost between the      *)
(* queue, the hand and the handler, and none is received or freed twice.     *)
THEOREM PacketsAreConserved == Spec => []EveryPacketOnce
<1> DEFINE Account == /\ 1..pushed = Delivered \cup Pending \cup dropped
                      /\ dropped \cap (Delivered \cup Pending) = {}
<1>1. Init => Account
  BY DEF Init, Delivered, Pending, Queued
<1>2. Inv /\ Account /\ Moves => Account'
  <2> SUFFICES ASSUME Inv, Account, Moves PROVE Account'
    OBVIOUS
  <2>0. pushed \in Nat /\ delivered \in Seq(Packets) /\ Pending \subseteq Packets
    <3>1. Queued \subseteq Packets
      BY Elements DEF Inv, TypeOK, Queued
    <3> QED
      BY <3>1, MaxPacketsAssumption DEF Inv, TypeOK, Pending, Packets
  <2>1. CASE Stays
    BY <2>1 DEF Stays, Delivered
  <2>2. CASE Enters
    <3>1. 1..(pushed + 1) = (1..pushed) \cup {pushed + 1} /\ pushed + 1 \notin 1..pushed
      BY <2>0
    <3> QED
      BY <2>2, <3>1 DEF Enters, Delivered
  <2>3. ASSUME NEW n \in Pending, Arrives(n) PROVE Account'
    <3>1. Delivered' = Delivered \cup {n}
      BY <2>0, <2>3, AppendLast DEF Arrives, Delivered
    <3> QED
      BY <2>3, <3>1 DEF Arrives
  <2>4. ASSUME NEW S \in SUBSET Pending, Vanish(S) PROVE Account'
    <3>1. Delivered \cap Pending = {}
      BY DEF Inv, TypeOK, Ordered, Delivered, Pending, Queued, Packets
    <3> QED
      BY <2>4, <3>1 DEF Vanish, Delivered
  <2> QED
    BY <2>1, <2>2, <2>3, <2>4 DEF Moves
<1>3. Inv /\ Account => EveryPacketOnce
  <2> SUFFICES ASSUME Inv, Account PROVE EveryPacketOnce
    OBVIOUS
  <2>1. Delivered \cap Pending = {} /\ pPckt \notin Queued
    BY DEF Inv, TypeOK, Ordered, Delivered, Pending, Queued, Packets
  <2>2. \A i, j \in DOMAIN delivered : delivered[i] = delivered[j] => i = j
    <3>1. \A i \in DOMAIN delivered : i \in Nat /\ delivered[i] \in Nat
      <4>1. \A i \in DOMAIN delivered : i \in Nat /\ delivered[i] \in Packets
        BY Elements DEF Inv, TypeOK
      <4> QED
        BY <4>1 DEF Packets
    <3> QED
      BY <3>1 DEF Inv, Ordered, ReceivedInOrder
  <2> QED
    BY <2>1, <2>2 DEF EveryPacketOnce
<1> QED
  BY <1>1, <1>2, <1>3, StepMoves, Invariance, PTL DEF Spec

(* Seen from its upstream threads, the component with all its locks, loops   *)
(* and races is a channel that may lose packets but keeps them in order.     *)
THEOREM Refinement == Spec => ImplementsChannel
<1>1. Init => Channel!Init
  BY DEF Init, Channel!Init, Pending, Queued
<1>2. Moves => [Channel!Next]_Channel!chan
  BY DEF Moves, Stays, Enters, Arrives, Vanish, Channel!Next, Channel!Accept,
         Channel!Deliver, Channel!Lose, Channel!chan
<1> QED
  BY <1>1, <1>2, StepMoves, Invariance, PTL
  DEF Spec, ImplementsChannel, Channel!Spec
=============================================================================

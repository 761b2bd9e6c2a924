----------------------------- MODULE PacketFlow -----------------------------
(***************************************************************************)
(* How packets travel through a graph of components: MediaProcessor's      *)
(* route(), receivePacket(), schedule() and initProcessor(), and           *)
(* ProcessorManager::initProcessors().                                     *)
(*                                                                         *)
(* A component's handler runs under its recursive oFlowMutex, and routes   *)
(* by calling receivePacket() of the next components from inside it: the   *)
(* thread's stack of handlers is also the set of locks it holds. A packet  *)
(* for a threaded component is queued (PrivilegedThread), any other one is *)
(* handled at once in the sender's thread, after spinning until the        *)
(* receiver is initialised. The main thread initialises the components one *)
(* by one, in the order of their names, while the threads of those already *)
(* initialised run; then it schedules the components without a thread.     *)
(***************************************************************************)
EXTENDS Integers, Sequences, FiniteSets, SequencesExt

CONSTANTS
  Comps,      \* the components
  Threaded,   \* those that run in their own thread
  Sources,    \* those that create packets in process()
  Readers,    \* those whose init() calls findSchedulers()
  Route,      \* Comps -> Seq(Comps): the routes, in order
  InitOrder,  \* the components in the order of their names
  Quota       \* bound: the packets every source creates

Main == "main"
ASSUME FlowAssumption ==
  /\ Threaded \subseteq Comps /\ Sources \subseteq Comps /\ Readers \subseteq Comps
  /\ Main \notin Comps /\ Quota \in Nat
  /\ Route \in [Comps -> Seq(Comps)]
  /\ InitOrder \in Seq(Comps) /\ ToSet(InitOrder) = Comps

Threads == {Main} \cup Threaded
Visit == <<"visit", 0>>   \* getDownstream() walks the routes like a packet

VARIABLES
  done,     \* how many components the main thread has initialised
  inited,   \* init() has begun: bThread is set
  alive,    \* the threaded components whose thread exists
  receive,  \* bReceive
  queue,    \* vPacketQueue of the threaded components
  made,     \* how many packets a source has created
  stack,    \* per thread: the handlers it is in, outermost first
  got       \* per component: the packets its handlers received, in order

vars == <<done, inited, alive, receive, queue, made, stack, got>>

(* A handler that runs: its component, the packet it routes, the receivers  *)
(* it still has to call, and whether it has committed to a direct call.     *)
Frame(c, p) == [comp |-> c, pkt |-> p, todo |-> Route[c], direct |-> FALSE]
Holds(t, c) == \E i \in DOMAIN stack[t] : stack[t][i].comp = c
FreeFor(t, c) == \A u \in Threads \ {t} : ~Holds(u, c)
Runner(c) == IF c \in Threaded THEN c ELSE Main

Init ==
  /\ done = 0
  /\ inited = [c \in Comps |-> FALSE] /\ receive = [c \in Comps |-> FALSE]
  /\ alive = {}
  /\ queue = [c \in Threaded |-> <<>>]
  /\ made = [s \in Sources |-> 0]
  /\ stack = [t \in Threads |-> <<>>]
  /\ got = [c \in Comps |-> <<>>]

-----------------------------------------------------------------------------
(* The main thread initialises the next component: init(), which for a      *)
(* reader walks the graph below it, then the thread, then the flag bReceive. *)

Starting == done < Len(InitOrder)
Newcomer == InitOrder[done + 1]

InitComp ==
  /\ Starting /\ ~inited[Newcomer] /\ stack[Main] = <<>>
  /\ inited' = [inited EXCEPT ![Newcomer] = TRUE]
  /\ IF Newcomer \in Readers
       THEN /\ FreeFor(Main, Newcomer)
            /\ stack' = [stack EXCEPT ![Main] = <<Frame(Newcomer, Visit)>>]
       ELSE UNCHANGED stack
  /\ UNCHANGED <<done, alive, receive, queue, made, got>>

StartThread ==
  /\ Starting /\ inited[Newcomer] /\ stack[Main] = <<>>
  /\ Newcomer \in Threaded \ alive
  /\ alive' = alive \cup {Newcomer}
  /\ UNCHANGED <<done, inited, receive, queue, made, stack, got>>

OpenComp ==
  /\ Starting /\ inited[Newcomer] /\ stack[Main] = <<>>
  /\ Newcomer \in Threaded => Newcomer \in alive
  /\ receive' = [receive EXCEPT ![Newcomer] = TRUE]
  /\ done' = done + 1
  /\ UNCHANGED <<inited, alive, queue, made, stack, got>>

-----------------------------------------------------------------------------
(* schedule() and the tick of the privileged thread: a source's process()   *)
(* creates a packet and routes it.                                          *)
Produce(s) ==
  LET t == Runner(s) IN
  /\ stack[t] = <<>> /\ made[s] < Quota
  /\ IF s \in Threaded THEN s \in alive ELSE ~Starting
  /\ FreeFor(t, s)
  /\ made' = [made EXCEPT ![s] = @ + 1]
  /\ stack' = [stack EXCEPT ![t] = <<Frame(s, <<s, made[s] + 1>>)>>]
  /\ UNCHANGED <<done, inited, alive, receive, queue, got>>

(* The privileged thread takes a packet from its queue and handles it.      *)
Take(c) ==
  /\ stack[c] = <<>> /\ c \in alive /\ receive[c] /\ queue[c] # <<>>
  /\ FreeFor(c, c)
  /\ queue' = [queue EXCEPT ![c] = Tail(@)]
  /\ stack' = [stack EXCEPT ![c] = <<Frame(c, Head(queue[c]))>>]
  /\ got' = [got EXCEPT ![c] = Append(@, Head(queue[c]))]
  /\ UNCHANGED <<done, inited, alive, receive, made>>

-----------------------------------------------------------------------------
(* One turn of the loop over the routes, in the handler on top of t's stack. *)

Busy(t) == stack[t] # <<>> /\ Last(stack[t]).todo # <<>>
Top(t) == Last(stack[t])
Target(t) == Head(Top(t).todo)
(* Faulty variant of Sent: the loop ends after the first receiver. *)
SentOnce(t) == [stack[t] EXCEPT ![Len(stack[t])].todo = <<>>,
                                ![Len(stack[t])].direct = FALSE]

Sent(t) == [stack[t] EXCEPT ![Len(stack[t])].todo = Tail(@),
                            ![Len(stack[t])].direct = FALSE]

(* receivePacket() reads bThread once, on entry.                            *)
Queues(t) == Target(t) \in Threaded /\ inited[Target(t)] /\ ~Top(t).direct
(* Faulty variant of Enqueue: a packet overtakes those that wait. *)
EnqueueInFront(t) ==
  /\ Busy(t) /\ Top(t).pkt # Visit /\ Queues(t)
  /\ queue' = [queue EXCEPT ![Target(t)] = <<Top(t).pkt>> \o @]
  /\ stack' = [stack EXCEPT ![t] = Sent(t)]
  /\ UNCHANGED <<done, inited, alive, receive, made, got>>

Enqueue(t) ==
  /\ Busy(t) /\ Top(t).pkt # Visit /\ Queues(t)
  /\ queue' = [queue EXCEPT ![Target(t)] = Append(@, Top(t).pkt)]
  /\ stack' = [stack EXCEPT ![t] = Sent(t)]
  /\ UNCHANGED <<done, inited, alive, receive, made, got>>

(* Not threaded, or not yet: the caller spins until bReceive is set.        *)
Spin(t) ==
  /\ Busy(t) /\ Top(t).pkt # Visit /\ ~Queues(t) /\ ~receive[Target(t)]
  /\ ~Top(t).direct
  /\ stack' = [stack EXCEPT ![t][Len(stack[t])].direct = TRUE]
  /\ UNCHANGED <<done, inited, alive, receive, queue, made, got>>
Call(t) ==
  LET d == Target(t) IN
  /\ Busy(t) /\ FreeFor(t, d)
  /\ \/ Top(t).pkt = Visit /\ UNCHANGED got
     \/ /\ Top(t).pkt # Visit /\ ~Queues(t) /\ receive[d]
        /\ got' = [got EXCEPT ![d] = Append(@, Top(t).pkt)]
  /\ stack' = [stack EXCEPT ![t] = Append(Sent(t), Frame(d, Top(t).pkt))]
  /\ UNCHANGED <<done, inited, alive, receive, queue, made>>

Return(t) ==
  /\ stack[t] # <<>> /\ Top(t).todo = <<>>
  /\ stack' = [stack EXCEPT ![t] = Front(@)]
  /\ UNCHANGED <<done, inited, alive, receive, queue, made, got>>

-----------------------------------------------------------------------------
Quiet ==
  /\ ~Starting /\ \A s \in Sources : made[s] = Quota
  /\ \A t \in Threads : stack[t] = <<>>
  /\ \A c \in Threaded : queue[c] = <<>>

Done == Quiet /\ UNCHANGED vars

Next ==
  \/ InitComp \/ StartThread \/ OpenComp
  \/ \E s \in Sources : Produce(s)
  \/ \E c \in Threaded : Take(c)
  \/ \E t \in Threads : Enqueue(t) \/ Spin(t) \/ Call(t) \/ Return(t)
  \/ Done

(* Every thread goes on when it can. Locks are released again and again, so *)
(* a thread that waits for one gets it: strong fairness where locks are     *)
(* taken. Sources need not produce.                                         *)
Fairness ==
  /\ SF_vars(InitComp) /\ WF_vars(StartThread) /\ WF_vars(OpenComp)
  /\ \A c \in Threaded : SF_vars(Take(c))
  /\ \A t \in Threads : WF_vars(Enqueue(t) \/ Return(t)) /\ SF_vars(Call(t))

Spec == Init /\ [][Next]_vars
FairSpec == Spec /\ Fairness

-----------------------------------------------------------------------------
Packets == Sources \X (1..Quota)
Frames == [comp : Comps, pkt : Packets \cup {Visit}, todo : Seq(Comps), direct : BOOLEAN]

(* The values every variable ranges over, and the locks: no two threads     *)
(* are in handlers of one component.                                        *)
TypeOK ==
  /\ done \in 0..Len(InitOrder) /\ alive \subseteq Threaded
  /\ inited \in [Comps -> BOOLEAN] /\ receive \in [Comps -> BOOLEAN]
  /\ queue \in [Threaded -> Seq(Packets)] /\ got \in [Comps -> Seq(Packets)]
  /\ made \in [Sources -> 0..Quota]
  /\ stack \in [Threads -> Seq(Frames)]
  /\ \A t, u \in Threads : t # u => \A i \in DOMAIN stack[t] : ~Holds(u, stack[t][i].comp)

(* The graph: who is reached from c by the routes.                          *)
Reached(c) ==
  LET step(S) == S \cup UNION {ToSet(Route[d]) : d \in S}
      up[n \in 0..Len(InitOrder)] == IF n = 0 THEN {c} ELSE step(up[n - 1])
  IN  up[Len(InitOrder)]

From(s, c) == SelectSeq(got[c], LAMBDA p : p[1] = s)

(* Along every chain of queues, direct calls and startup spins, and with    *)
(* other threads in between, a component receives the packets of a source   *)
(* in the order they were made, without a gap and without a repetition.     *)
(* (For the graphs in which one path leads from the source to it.)          *)
InSourceOrder ==
  \A c \in Comps : \A i \in DOMAIN got[c] :
    got[c][i][2] = Cardinality({k \in 1..i : got[c][k][1] = got[c][i][1]})

(* One path: R is closed under the routes, in R none of them leads back,    *)
(* and no component is the receiver of two.                                 *)
Tree(s, R, depth) ==
  /\ s \in R
  /\ \A c \in R : \A k \in DOMAIN Route[c] :
       /\ Route[c][k] \in R \ {s} /\ depth[Route[c][k]] > depth[c]
       /\ \A d \in R : \A l \in DOMAIN Route[d] : Route[d][l] = Route[c][k] => d = c /\ l = k

(* No handler runs before its component is initialised, although its        *)
(* upstream may already run in a thread.                                    *)
NotBeforeInit == \A c \in Comps : got[c] # <<>> => receive[c]

(* Every packet that is made arrives at every component below its source.   *)
EverythingArrives ==
  \A s \in Sources : \A c \in Reached(s) \ {s} : \A n \in 1..Quota :
    (made[s] >= n) ~> (Len(From(s, c)) >= n)

(* Startup ends: initProcessors() returns and the scheduling begins. The    *)
(* contract of the components (ProcessorManager.cpp, art. 3) says that they *)
(* "MUST NOT block inside the calls of receive, ..., process".              *)
StartupEnds == <>(~Starting)
=============================================================================

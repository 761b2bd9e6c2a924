----------------------------- MODULE LiveSource -----------------------------
(***************************************************************************)
(* A live source that is tapped by viewers: a Reader whose OutLink feeds   *)
(* the LiveReader of every viewer, and through it the viewer's scheduler,  *)
(* on whose fullness the Reader's rate depends.                            *)
(*                                                                         *)
(* The source's thread runs Reader::process() under the reader's lock and  *)
(* routes under the lock of the link. A viewer's thread links its          *)
(* LiveReader, waits until it is synchronised, lets the reader walk down   *)
(* to find the new scheduler, and later unlinks and deletes both (the      *)
(* server's thread deletes them, after it has joined the viewer's thread;  *)
(* the two are one actor here). Locks are the components' oFlowMutex. What  *)
(* a LiveReader stores and queues, and what its scheduler receives, is kept *)
(* per stream: how the streams lie between each other is left out.          *)
(***************************************************************************)
EXTENDS Integers, Sequences

CONSTANTS
  Source,      \* the thread that runs the reader
  Viewers,     \* the threads of the viewers, one LiveReader and scheduler each
  Streams,     \* numbers of the streams of the container
  MaxPackets   \* bound: packets the reader creates

ASSUME LiveAssumption ==
  /\ Source \notin Viewers /\ Streams \subseteq Nat /\ Streams # {}
  /\ MaxPackets \in Nat

Threads == {Source} \cup Viewers
Reader == <<"reader", Source>>
Link == <<"link", Source>>
Live(v) == <<"live", v>>
Sched(v) == <<"scheduler", v>>

VARIABLES
  pc,          \* per thread, what it does next
  held,        \* per thread, the locks it holds
  todo,        \* per thread, viewers it still has to visit (route, check, walk)
  found,       \* per viewer's thread, the schedulers its walk has met
  packet,      \* the packet the reader routes
  made,        \* packets created
  vRouting,    \* the link's routes: viewers in the order of setRoute()
  vSchedulers, \* Reader::vSchedulers
  alive,       \* the LiveReaders and schedulers that exist
  bSync,       \* per viewer: its LiveReader is synchronised
  dStreams, vQueue,  \* per viewer and stream: the packets of its LiveReader
  buffer       \* per viewer and stream: what its scheduler received

live == <<bSync, dStreams, vQueue>>
vars == <<pc, held, todo, found, packet, made, vRouting, vSchedulers, alive, live, buffer>>

Nothing == [s \in Streams |-> <<>>]

Init ==
  /\ pc = [t \in Threads |-> IF t = Source THEN "idle" ELSE "closed"]
  /\ held = [t \in Threads |-> {}] /\ todo = [t \in Threads |-> <<>>]
  /\ found = [v \in Viewers |-> <<>>]
  /\ packet = <<>> /\ made = 0
  /\ vRouting = <<>> /\ vSchedulers = <<>> /\ alive = {}
  /\ bSync = [v \in Viewers |-> FALSE]
  /\ dStreams = [v \in Viewers |-> Nothing]
  /\ vQueue = [v \in Viewers |-> Nothing]
  /\ buffer = [v \in Viewers |-> Nothing]

Free(t, l) == \A u \in Threads \ {t} : l \notin held[u]
Goto(t, from, to) == pc[t] = from /\ pc' = [pc EXCEPT ![t] = to]
Grab(t, l) == Free(t, l) /\ held' = [held EXCEPT ![t] = @ \cup {l}]

-----------------------------------------------------------------------------
(* The source: process() checks every scheduler, creates a packet, and      *)
(* routes it to one viewer after the other.                                 *)

BeginProcess ==
  /\ Goto(Source, "idle", "check") /\ Grab(Source, Reader)
  /\ todo' = [todo EXCEPT ![Source] = vSchedulers]
  /\ UNCHANGED <<found, packet, made, vRouting, vSchedulers, alive, live, buffer>>

(* bufferFull() of the next scheduler, under its lock: its answer depends   *)
(* on the pace of the viewer (module Scheduler), and either is allowed.     *)
CheckNext ==
  /\ pc[Source] = "check" /\ todo[Source] # <<>>
  /\ Free(Source, Sched(Head(todo[Source])))
  /\ \/ /\ pc' = [pc EXCEPT ![Source] = "idle"]
        /\ held' = [held EXCEPT ![Source] = {}]
        /\ todo' = [todo EXCEPT ![Source] = <<>>]
     \/ /\ todo' = [todo EXCEPT ![Source] = Tail(@)]
        /\ UNCHANGED <<pc, held>>
  /\ UNCHANGED <<found, packet, made, vRouting, vSchedulers, alive, live, buffer>>

DoStep ==
  \E s \in Streams, key \in BOOLEAN :
    /\ Goto(Source, "check", "route") /\ todo[Source] = <<>> /\ made < MaxPackets
    /\ Grab(Source, Link)
    /\ made' = made + 1
    /\ packet' = [stream |-> s, key |-> key, dts |-> made + 1]
    /\ todo' = [todo EXCEPT ![Source] = vRouting]
    /\ UNCHANGED <<found, vRouting, vSchedulers, alive, live, buffer>>

(* LiveReader::receive(): before it is synchronised it stores packets per   *)
(* stream; when every stream has had a key frame it queues every stream     *)
(* from its last one on.                                                    *)
LastKey(seq) ==
  CHOOSE i \in DOMAIN seq : seq[i].key /\ \A j \in DOMAIN seq : seq[j].key => j <= i

(* Faulty: what came before the key frame is kept.                          *)
FromStart(seq) == seq

FromLastKey(seq) == SubSeq(seq, LastKey(seq), Len(seq))
Synced(stored) == \A s \in Streams : \E i \in DOMAIN stored[s] : stored[s][i].key

(* Faulty: after the store was queued, so is the packet it ends with.       *)
StoreTwice(v, p) ==
  LET all == [dStreams[v] EXCEPT ![p.stream] = Append(@, p)]
      now == ~bSync[v] /\ Synced(all)
  IN
  /\ bSync' = [bSync EXCEPT ![v] = @ \/ now]
  /\ dStreams' = [dStreams EXCEPT ![v] = IF bSync'[v] THEN Nothing ELSE all]
  /\ vQueue' = [vQueue EXCEPT ![v] = IF now THEN [all EXCEPT ![p.stream] = Append(@, p)]
                                     ELSE IF bSync[v] THEN [@ EXCEPT ![p.stream] = Append(@, p)] ELSE @]

Store(v, p) ==
  LET all == [dStreams[v] EXCEPT ![p.stream] = Append(@, p)] IN
  \/ /\ bSync[v]
     /\ vQueue' = [vQueue EXCEPT ![v][p.stream] = Append(@, p)]
     /\ UNCHANGED <<bSync, dStreams>>
  \/ /\ ~bSync[v] /\ ~Synced(all)
     /\ dStreams' = [dStreams EXCEPT ![v] = all]
     /\ UNCHANGED <<bSync, vQueue>>
  \/ /\ ~bSync[v] /\ Synced(all)
     /\ bSync' = [bSync EXCEPT ![v] = TRUE]
     /\ vQueue' = [vQueue EXCEPT ![v] = [s \in Streams |-> FromLastKey(all[s])]]
     /\ dStreams' = [dStreams EXCEPT ![v] = Nothing]

(* Faulty: a viewer whose lock is taken is passed over.                     *)
RouteNextIfFree ==
  LET v == Head(todo[Source]) IN
  /\ pc[Source] = "route" /\ todo[Source] # <<>>
  /\ IF Free(Source, Live(v)) THEN Store(v, packet) ELSE UNCHANGED <<bSync, dStreams, vQueue>>
  /\ todo' = [todo EXCEPT ![Source] = Tail(@)]
  /\ UNCHANGED <<pc, held, found, packet, made, vRouting, vSchedulers, alive, buffer>>

RouteNext ==
  LET v == Head(todo[Source]) IN
  /\ pc[Source] = "route" /\ todo[Source] # <<>>
  /\ Free(Source, Live(v))
  /\ Store(v, packet)
  /\ todo' = [todo EXCEPT ![Source] = Tail(@)]
  /\ UNCHANGED <<pc, held, found, packet, made, vRouting, vSchedulers, alive, buffer>>

EndRoute ==
  /\ Goto(Source, "route", "idle") /\ todo[Source] = <<>>
  /\ held' = [held EXCEPT ![Source] = {}]
  /\ packet' = <<>>
  /\ UNCHANGED <<todo, found, made, vRouting, vSchedulers, alive, live, buffer>>

EndProcess ==
  /\ Goto(Source, "check", "idle") /\ todo[Source] = <<>>
  /\ held' = [held EXCEPT ![Source] = {}]
  /\ UNCHANGED <<todo, found, packet, made, vRouting, vSchedulers, alive, live, buffer>>

-----------------------------------------------------------------------------
(* A viewer: createSource() links its LiveReader.                           *)
Open(v) ==
  /\ Goto(v, "closed", "linked") /\ Free(v, Link)
  /\ vRouting' = Append(vRouting, v)
  /\ alive' = alive \cup {Live(v)}
  /\ UNCHANGED <<held, todo, found, packet, made, vSchedulers, live, buffer>>

(* When it is synchronised, createBuffer() creates the scheduler and calls  *)
(* LiveReader::findSchedulers(), which takes its own lock ...               *)
CreateBuffer(v) ==
  /\ Goto(v, "linked", "find") /\ bSync[v]
  /\ alive' = alive \cup {Sched(v)}
  /\ Grab(v, Live(v))
  /\ UNCHANGED <<todo, found, packet, made, vRouting, vSchedulers, live, buffer>>

(* ... and calls Reader::findSchedulers(), which takes the reader's.        *)
BeginFind(v) ==
  /\ \/ Goto(v, "find", "walk")
     \/ Goto(v, "unlinked", "rewalk")
  /\ Free(v, Reader) /\ Free(v, Link)
  /\ held' = [held EXCEPT ![v] = @ \cup {Reader, Link}]
  /\ todo' = [todo EXCEPT ![v] = vRouting]
  /\ found' = [found EXCEPT ![v] = <<>>]
  /\ UNCHANGED <<packet, made, vRouting, vSchedulers, alive, live, buffer>>

WalkNext(v) ==
  LET u == Head(todo[v]) IN
  /\ pc[v] \in {"walk", "rewalk"} /\ todo[v] # <<>>
  /\ Free(v, Live(u)) /\ Free(v, Sched(u))
  /\ found' = [found EXCEPT ![v] = IF Sched(u) \in alive THEN Append(@, u) ELSE @]
  /\ todo' = [todo EXCEPT ![v] = Tail(@)]
  /\ UNCHANGED <<pc, held, packet, made, vRouting, vSchedulers, alive, live, buffer>>

EndFind(v) ==
  /\ Goto(v, "walk", "playing") \/ Goto(v, "rewalk", "deleting")
  /\ todo[v] = <<>>
  /\ vSchedulers' = vSchedulers \o found[v]
  /\ held' = [held EXCEPT ![v] = {}]
  /\ UNCHANGED <<todo, found, packet, made, vRouting, alive, live, buffer>>

(* The viewer's pass: LiveReader::process() sends all it has on to the      *)
(* scheduler.                                                               *)
Feed(v) ==
  /\ pc[v] = "playing" /\ vQueue[v] # Nothing
  /\ Free(v, Live(v)) /\ Free(v, Sched(v))
  /\ buffer' = [buffer EXCEPT ![v] = [s \in Streams |-> buffer[v][s] \o vQueue[v][s]]]
  /\ vQueue' = [vQueue EXCEPT ![v] = Nothing]
  /\ UNCHANGED <<pc, held, todo, found, packet, made, vRouting, vSchedulers, alive, bSync, dStreams>>

(* Faulty: the url is gone from the dictionary, the route is left.          *)
UnlinkForgotten(v) ==
  /\ Goto(v, "playing", "unlinked") /\ Free(v, Link)
  /\ UNCHANGED <<held, todo, found, packet, made, vRouting, vSchedulers, alive, live, buffer>>

(* The end of the session: ~LiveReader() unlinks itself, calls              *)
(* findSchedulers() of the reader and goes, then the scheduler goes. A      *)
(* LiveReader has one route in the link.                                    *)
Dropped(seq, i) == SubSeq(seq, 1, i - 1) \o SubSeq(seq, i + 1, Len(seq))
Unlink(v) ==
  /\ Goto(v, "playing", "unlinked") /\ Free(v, Link)
  /\ \E i \in DOMAIN vRouting : vRouting[i] = v /\ vRouting' = Dropped(vRouting, i)
  /\ UNCHANGED <<held, todo, found, packet, made, vSchedulers, alive, live, buffer>>

Delete(v) ==
  /\ Goto(v, "deleting", "gone")
  /\ alive' = alive \ {Live(v), Sched(v)}
  /\ UNCHANGED <<held, todo, found, packet, made, vRouting, vSchedulers, live, buffer>>

Next ==
  \/ BeginProcess \/ CheckNext \/ DoStep \/ RouteNext \/ EndRoute \/ EndProcess
  \/ \E v \in Viewers : Open(v) \/ CreateBuffer(v) \/ BeginFind(v) \/ WalkNext(v) \/ EndFind(v)
  \/ \E v \in Viewers : Feed(v) \/ Unlink(v) \/ Delete(v)

(* The source's thread is scheduled again and again; whoever waits for a    *)
(* lock that is released again and again gets it. Viewers come and go as    *)
(* they like, but finish the calls they have begun.                         *)
SourceSteps == BeginProcess \/ CheckNext \/ DoStep \/ RouteNext \/ EndRoute \/ EndProcess

Spec == Init /\ [][Next]_vars
FairSpec ==
  /\ Spec /\ SF_vars(SourceSteps)
  /\ \A v \in Viewers : SF_vars(BeginFind(v)) /\ SF_vars(WalkNext(v)) /\ WF_vars(EndFind(v))

-----------------------------------------------------------------------------
Locks == {Reader, Link} \cup {Live(v) : v \in Viewers} \cup {Sched(v) : v \in Viewers}
Packets == [stream : Streams, key : BOOLEAN, dts : Nat]

(* The values every variable ranges over, and what the locks protect: only  *)
(* the holder of the reader's lock checks, routes or walks.                 *)
TypeOK ==
  /\ pc \in [Threads -> {"idle", "check", "route", "closed", "linked", "find", "walk", "playing",
                         "unlinked", "rewalk", "deleting", "gone"}]
  /\ \A t \in Threads : pc[t] \in {"idle", "check", "route"} <=> t = Source
  /\ held \in [Threads -> SUBSET Locks] /\ todo \in [Threads -> Seq(Viewers)]
  /\ found \in [Viewers -> Seq(Viewers)]
  /\ made \in 0..MaxPackets /\ (pc[Source] = "route" => packet \in Packets)
  /\ vSchedulers \in Seq(Viewers) /\ vRouting \in Seq(Viewers)
  /\ alive \subseteq {Live(v) : v \in Viewers} \cup {Sched(v) : v \in Viewers}
  /\ bSync \in [Viewers -> BOOLEAN] /\ dStreams \in [Viewers -> [Streams -> Seq(Packets)]]
  /\ vQueue \in [Viewers -> [Streams -> Seq(Packets)]] /\ buffer \in [Viewers -> [Streams -> Seq(Packets)]]
  /\ \A t, u \in Threads : {pc[t], pc[u]} \subseteq {"check", "route", "walk", "rewalk"} => t = u

(* What a viewer is sent of a stream.                                       *)
Sent(v, s) == buffer[v][s] \o vQueue[v][s]

(* What a viewer sees of a stream begins with a key frame, whenever its     *)
(* link was set up (LiveReader::receive()).                                 *)
StartsAtKey == \A v \in Viewers, s \in Streams : Sent(v, s) # <<>> => Sent(v, s)[1].key

(* No packet of a stream is sent twice or out of order, across the moment   *)
(* at which LiveReader::receive() turns from storing to queueing.           *)
RisingPerStream ==
  \A v \in Viewers, s \in Streams :
    \A i, j \in DOMAIN Sent(v, s) : i < j => Sent(v, s)[i].dts < Sent(v, s)[j].dts

(* A viewer that is unlinked is not routed to any more, so its LiveReader   *)
(* can be deleted, although the source goes on all the time.                *)
NeverRoutedToDead ==
  pc[Source] = "route" => \A i \in DOMAIN todo[Source] : Live(todo[Source][i]) \in alive

(* Viewers that are linked see the same source: between the first and the   *)
(* last packet of a stream that a viewer is sent, it is sent all that any   *)
(* other one is.                                                            *)
SameForAll ==
  \A u, v \in Viewers, s \in Streams :
    \A i \in DOMAIN Sent(u, s), j, k \in DOMAIN Sent(v, s) :
      Sent(v, s)[j].dts <= Sent(u, s)[i].dts /\ Sent(u, s)[i].dts <= Sent(v, s)[k].dts
        => \E m \in DOMAIN Sent(v, s) : Sent(v, s)[m] = Sent(u, s)[i]

(* The schedulers whose fullness the reader asks for exist ("Reset the      *)
(* scheduler list in the reader", LiveReader.cpp).                          *)
SchedulersExist ==
  pc[Source] = "check" => \A i \in DOMAIN todo[Source] : Sched(todo[Source][i]) \in alive

(* The source never blocks for ever inside process() ("MediaProcessor MUST  *)
(* NOT block inside the calls of receive, ..., process").                   *)
SourceReturns == []<>(pc[Source] = "idle")
=============================================================================

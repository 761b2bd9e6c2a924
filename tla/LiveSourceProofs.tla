-------------------------- MODULE LiveSourceProofs --------------------------
(***************************************************************************)
(* Theorems about a live source and its viewers, for any number of viewers *)
(* and streams: what the locks protect, that nothing is routed to a viewer *)
(* that was deleted, and what a viewer is sent of each stream.             *)
(***************************************************************************)
EXTENDS LiveSource, TLAPS, SequenceTheorems, WellFoundedInduction

-----------------------------------------------------------------------------
(* The parts of TypeOK, by the variables they are about.                    *)
PcTypes ==
  /\ pc \in [Threads -> {"idle", "check", "route", "closed", "linked", "find", "walk", "playing",
                         "unlinked", "rewalk", "deleting", "gone"}]
  /\ \A t \in Threads : pc[t] \in {"idle", "check", "route"} <=> t = Source
HeldTypes ==
  /\ held \in [Threads -> SUBSET Locks] /\ todo \in [Threads -> Seq(Viewers)]
  /\ found \in [Viewers -> Seq(Viewers)]
LinkTypes ==
  /\ vSchedulers \in Seq(Viewers) /\ vRouting \in Seq(Viewers)
  /\ alive \subseteq {Live(v) : v \in Viewers} \cup {Sched(v) : v \in Viewers}
StreamTypes ==
  /\ made \in 0..MaxPackets /\ (pc[Source] = "route" => packet \in Packets)
  /\ bSync \in [Viewers -> BOOLEAN] /\ dStreams \in [Viewers -> [Streams -> Seq(Packets)]]
  /\ vQueue \in [Viewers -> [Streams -> Seq(Packets)]] /\ buffer \in [Viewers -> [Streams -> Seq(Packets)]]
Alone == \A t, u \in Threads : {pc[t], pc[u]} \subseteq {"check", "route", "walk", "rewalk"} => t = u

(* TypeOK is made of these parts.                                           *)
LEMMA Parts == TypeOK <=> PcTypes /\ HeldTypes /\ LinkTypes /\ StreamTypes /\ Alone
BY DEF TypeOK, PcTypes, HeldTypes, LinkTypes, StreamTypes, Alone

(* The threads: the source and the viewers are different ones.              *)
LEMMA Actors == Source \in Threads /\ Viewers \subseteq Threads /\ Source \notin Viewers
BY LiveAssumption DEF Threads

ViewerStep(v) ==
  \/ Open(v) \/ CreateBuffer(v) \/ BeginFind(v) \/ WalkNext(v) \/ EndFind(v) \/ Feed(v) \/ Unlink(v) \/ Delete(v)

(* A step is one of the source or of a viewer.                              *)
LEMMA Steps == Next <=> SourceSteps \/ \E v \in Viewers : ViewerStep(v)
BY DEF Next, SourceSteps, ViewerStep

(* The source and the viewers have points of their own to be at.            *)
LEMMA PcKept == ASSUME PcTypes, Next PROVE PcTypes'
<1>1. CASE SourceSteps
  <2>1. pc' = pc \/ \E l \in {"idle", "check", "route"} : pc' = [pc EXCEPT ![Source] = l]
    BY <1>1 DEF SourceSteps, BeginProcess, CheckNext, DoStep, RouteNext, EndRoute, EndProcess, Goto
  <2> QED BY <2>1, Actors DEF PcTypes
<1>2. ASSUME NEW v \in Viewers, ViewerStep(v) PROVE PcTypes'
  <2>1. pc' = pc \/ \E l \in {"linked", "find", "walk", "playing", "unlinked", "rewalk", "deleting", "gone"} :
                       pc' = [pc EXCEPT ![v] = l]
    BY <1>2 DEF ViewerStep, Open, CreateBuffer, BeginFind, WalkNext, EndFind, Feed, Unlink, Delete, Goto
  <2>2. v # Source
    BY Actors
  <2> QED BY <2>1, <2>2, Actors DEF PcTypes
<1> QED BY <1>1, <1>2, Steps

(* A route that is dropped leaves a sequence of viewers.                    *)
LEMMA DroppedSeq ==
  ASSUME NEW S, NEW a \in Seq(S), NEW i \in DOMAIN a
  PROVE  /\ Dropped(a, i) \in Seq(S) /\ Len(Dropped(a, i)) = Len(a) - 1
         /\ \A j \in 1..Len(a) - 1 : Dropped(a, i)[j] = IF j < i THEN a[j] ELSE a[j + 1]
<1> DEFINE b == SubSeq(a, 1, i - 1)
           c == SubSeq(a, i + 1, Len(a))
<1>1. Len(a) \in Nat /\ DOMAIN a = 1..Len(a) /\ i \in 1..Len(a)
  BY LenProperties
<1>2. /\ b \in Seq(S) /\ Len(b) = i - 1 /\ \A j \in 1..i - 1 : b[j] = a[j]
  <2>1. 1 \in 1..Len(a) + 1 /\ i - 1 \in 0..Len(a)
    BY <1>1
  <2> QED BY <1>1, <2>1, SubSeqProperties
<1>3. /\ c \in Seq(S) /\ Len(c) = Len(a) - i /\ \A j \in 1..Len(a) - i : c[j] = a[i + j]
  BY <1>1, SubSeqProperties
<1> HIDE DEF b, c
<1> DEFINE d == b \o c
<1>4. /\ d \in Seq(S) /\ Len(d) = Len(b) + Len(c)
      /\ \A j \in 1..Len(b) + Len(c) : d[j] = IF j <= Len(b) THEN b[j] ELSE c[j - Len(b)]
  BY <1>2, <1>3, ConcatProperties
<1> HIDE DEF d
<1>5. ASSUME NEW j \in 1..Len(a) - 1 PROVE d[j] = IF j < i THEN a[j] ELSE a[j + 1]
  <2>1. CASE j < i
    BY <1>1, <1>2, <1>3, <1>4, <2>1
  <2>2. CASE j >= i
    <3>1. j - (i - 1) \in 1..Len(a) - i /\ i + (j - (i - 1)) = j + 1
      BY <1>1, <2>2
    <3>2. d[j] = c[j - (i - 1)]
      BY <1>1, <1>2, <1>3, <1>4, <2>2
    <3>3. d[j] = a[j + 1]
      BY <1>3, <3>1, <3>2
    <3>4. ~(j < i)
      BY <1>1, <2>2
    <3> QED BY <3>3, <3>4
  <2>3. j < i \/ j >= i
    BY <1>1
  <2> QED BY <2>1, <2>2, <2>3
<1>6. Len(d) = Len(a) - 1
  BY <1>1, <1>2, <1>3, <1>4
<1> QED BY <1>4, <1>5, <1>6 DEF b, c, d, Dropped

(* The locks held and the viewers still to visit.                           *)
LEMMA HeldKept == ASSUME HeldTypes, LinkTypes, Next PROVE HeldTypes'
<1>1. Reader \in Locks /\ Link \in Locks /\ (\A v \in Viewers : Live(v) \in Locks) /\ <<>> \in Seq(Viewers)
  BY EmptySeq DEF Locks
<1>2. \A s \in Seq(Viewers) : s # <<>> => Tail(s) \in Seq(Viewers) /\ Head(s) \in Viewers
  BY HeadTailProperties
<1>3. CASE SourceSteps
  <2>1. held' = held \/ \E l \in SUBSET Locks : held' = [held EXCEPT ![Source] = l]
    <3>1. held[Source] \in SUBSET Locks
      BY Actors DEF HeldTypes
    <3> QED BY <1>1, <1>3, <3>1 DEF SourceSteps, BeginProcess, CheckNext, DoStep, RouteNext, EndRoute, EndProcess, Grab
  <2>2. todo' = todo \/ \E s \in Seq(Viewers) : todo' = [todo EXCEPT ![Source] = s]
    <3>1. todo[Source] \in Seq(Viewers)
      BY Actors DEF HeldTypes
    <3> QED BY <1>1, <1>2, <1>3, <3>1 DEF SourceSteps, BeginProcess, CheckNext, DoStep, RouteNext, EndRoute, EndProcess, LinkTypes
  <2>3. found' = found
    BY <1>3 DEF SourceSteps, BeginProcess, CheckNext, DoStep, RouteNext, EndRoute, EndProcess
  <2> QED BY <2>1, <2>2, <2>3 DEF HeldTypes
<1>4. ASSUME NEW v \in Viewers, ViewerStep(v) PROVE HeldTypes'
  <2>1. held' = held \/ \E l \in SUBSET Locks : held' = [held EXCEPT ![v] = l]
    <3>1. held[v] \in SUBSET Locks
      BY Actors DEF HeldTypes
    <3> QED BY <1>1, <1>4, <3>1 DEF ViewerStep, Open, CreateBuffer, BeginFind, WalkNext, EndFind, Feed, Unlink, Delete, Grab
  <2>2. todo' = todo \/ \E s \in Seq(Viewers) : todo' = [todo EXCEPT ![v] = s]
    <3>1. todo[v] \in Seq(Viewers)
      BY Actors DEF HeldTypes
    <3> QED BY <1>2, <1>4, <3>1 DEF ViewerStep, Open, CreateBuffer, BeginFind, WalkNext, EndFind, Feed, Unlink, Delete, LinkTypes
  <2>3. found' = found \/ \E s \in Seq(Viewers) : found' = [found EXCEPT ![v] = s]
    <3>1. found[v] \in Seq(Viewers) /\ todo[v] \in Seq(Viewers)
      BY Actors DEF HeldTypes
    <3>2. CASE WalkNext(v)
      <4>1. Head(todo[v]) \in Viewers
        BY <1>2, <3>1, <3>2 DEF WalkNext
      <4>2. Append(found[v], Head(todo[v])) \in Seq(Viewers)
        BY <3>1, <4>1, AppendProperties
      <4> QED BY <3>1, <3>2, <4>2 DEF WalkNext
    <3>3. CASE ~WalkNext(v)
      BY <1>1, <1>4, <3>3 DEF ViewerStep, Open, CreateBuffer, BeginFind, EndFind, Feed, Unlink, Delete
    <3> QED BY <3>2, <3>3
  <2> QED BY <2>1, <2>2, <2>3 DEF HeldTypes
<1> QED BY <1>3, <1>4, Steps

(* The routes of the link, and the components there are.                    *)
LEMMA LinkKept == ASSUME HeldTypes, LinkTypes, Next PROVE LinkTypes'
<1>1. CASE SourceSteps
  <2>1. UNCHANGED <<vSchedulers, vRouting, alive>>
    BY <1>1 DEF SourceSteps, BeginProcess, CheckNext, DoStep, RouteNext, EndRoute, EndProcess
  <2> QED BY <2>1 DEF LinkTypes
<1>2. ASSUME NEW v \in Viewers, ViewerStep(v) PROVE LinkTypes'
  <2>1. vSchedulers' \in Seq(Viewers)
    <3>1. CASE EndFind(v)
      <4>1. vSchedulers' = vSchedulers \o found[v] /\ found[v] \in Seq(Viewers)
        BY <3>1 DEF EndFind, HeldTypes
      <4> QED BY <4>1, ConcatProperties DEF LinkTypes
    <3>2. CASE ~EndFind(v)
      BY <1>2, <3>2 DEF LinkTypes, ViewerStep, Open, CreateBuffer, BeginFind, WalkNext, Feed, Unlink, Delete
    <3> QED BY <3>1, <3>2
  <2>2. vRouting' \in Seq(Viewers)
    <3>1. CASE Open(v)
      <4>1. vRouting' = Append(vRouting, v) /\ vRouting \in Seq(Viewers)
        BY <3>1 DEF Open, LinkTypes
      <4> QED BY <4>1, AppendProperties
    <3>2. CASE Unlink(v)
      <4>1. PICK i \in DOMAIN vRouting : vRouting' = Dropped(vRouting, i)
        BY <3>2 DEF Unlink
      <4> QED BY <4>1, DroppedSeq DEF LinkTypes
    <3>3. CASE ~Open(v) /\ ~Unlink(v)
      BY <1>2, <3>3 DEF LinkTypes, ViewerStep, CreateBuffer, BeginFind, WalkNext, EndFind, Feed, Delete
    <3> QED BY <3>1, <3>2, <3>3
  <2>3. alive' \subseteq {Live(u) : u \in Viewers} \cup {Sched(u) : u \in Viewers}
    BY <1>2 DEF LinkTypes, ViewerStep, Open, CreateBuffer, BeginFind, WalkNext, EndFind, Feed, Unlink, Delete
  <2> QED BY <2>1, <2>2, <2>3 DEF LinkTypes
<1> QED BY <1>1, <1>2, Steps
-----------------------------------------------------------------------------
(* LiveReader::receive().                                                   *)

(* What is left of a sequence from a position on.                           *)
LEMMA Suffix ==
  ASSUME NEW S, NEW a \in Seq(S), NEW k \in DOMAIN a
  PROVE  /\ SubSeq(a, k, Len(a)) \in Seq(S) /\ Len(SubSeq(a, k, Len(a))) = Len(a) - k + 1
         /\ \A i \in 1..Len(a) - k + 1 : SubSeq(a, k, Len(a))[i] = a[k + i - 1]
<1>1. Len(a) \in Nat /\ k \in 1..Len(a) /\ a \in [1..Len(a) -> S]
  BY LenProperties
<1>2. k \in Int /\ Len(a) \in Int /\ k <= Len(a) /\ \A i \in k..Len(a) : a[i] \in S
  BY <1>1
<1>3. /\ SubSeq(a, k, Len(a)) \in Seq(S)
      /\ Len(SubSeq(a, k, Len(a))) = IF k <= Len(a) THEN Len(a) - k + 1 ELSE 0
      /\ \A i \in 1..Len(a) - k + 1 : SubSeq(a, k, Len(a))[i] = a[k + i - 1]
  BY ONLY <1>2, SubSeqProperties
<1> QED BY <1>2, <1>3

(* A stream with a key frame has a last one: the loop of receive() that     *)
(* looks for it, from the end, finds it.                                    *)
LEMMA LastKeyFound ==
  ASSUME NEW a \in Seq(Packets), \E i \in DOMAIN a : a[i].key
  PROVE  LastKey(a) \in DOMAIN a /\ a[LastKey(a)].key
<1> DEFINE n == Len(a)
           T == {m \in Nat : n - m \in DOMAIN a /\ a[n - m].key}
<1>1. n \in Nat /\ DOMAIN a = 1..n
  BY LenProperties
<1>2. T \subseteq Nat /\ T # {}
  <2>1. PICK i \in DOMAIN a : a[i].key
    OBVIOUS
  <2>2. n - i \in Nat /\ n - (n - i) = i
    BY <1>1
  <2> QED BY <2>1, <2>2
<1>3. \E m \in T : \A l \in T : ~(<<l, m>> \in OpToRel(<, Nat))
  <2> HIDE DEF T
  <2> QED BY <1>2, NatLessThanWellFounded, WFMin
<1>4. PICK m \in T : \A l \in T : ~(l < m)
  BY <1>2, <1>3 DEF OpToRel
<1>5. n - m \in DOMAIN a /\ a[n - m].key
  OBVIOUS
<1>6. ASSUME NEW j \in DOMAIN a, a[j].key PROVE j <= n - m
  <2>1. n - j \in Nat /\ n - (n - j) = j
    BY <1>1
  <2>2. n - j \in T
    BY <1>6, <2>1
  <2> QED BY <1>1, <1>4, <2>2
<1>7. \E i \in DOMAIN a : a[i].key /\ \A j \in DOMAIN a : a[j].key => j <= i
  BY <1>5, <1>6
<1> QED BY <1>7 DEF LastKey

(* What a LiveReader has of a stream: what is stored until it is            *)
(* synchronised, and then all it has queued so far.                         *)
Has(v, s) == IF bSync[v] THEN Sent(v, s) ELSE dStreams[v][s]

(* The same with a packet put behind it, and a sequence from a position on. *)
With(v, s, p) == IF s = p.stream THEN Append(Has(v, s), p) ELSE Has(v, s)
From(seq, k) == SubSeq(seq, k, Len(seq))

(* A viewer is sent nothing before its LiveReader is synchronised.          *)
Unsent == \A v \in Viewers : ~bSync[v] => vQueue[v] = Nothing /\ buffer[v] = Nothing

(* What is put behind the second of two sequences is behind both.           *)
LEMMA AppendLast ==
  ASSUME NEW S, NEW a \in Seq(S), NEW b \in Seq(S), NEW e \in S
  PROVE  a \o Append(b, e) = Append(a \o b, e)
<1>1. a \o b \in Seq(S) /\ <<e>> \in Seq(S)
  BY ConcatProperties
<1>2. Append(b, e) = b \o <<e>> /\ Append(a \o b, e) = (a \o b) \o <<e>>
  BY ONLY <1>1, b \in Seq(S), e \in S, AppendIsConcat
<1>3. a \o (b \o <<e>>) = (a \o b) \o <<e>>
  BY ONLY <1>1, a \in Seq(S), b \in Seq(S), ConcatAssociative
<1> QED BY ONLY <1>2, <1>3, Zenon

(* A packet is put behind what there is of its stream; at that a LiveReader *)
(* may turn to sending, and what is before the last key frames is dropped.  *)
LEMMA StoreStep ==
  ASSUME StreamTypes, Unsent, NEW v \in Viewers, NEW p \in Packets, Store(v, p), buffer' = buffer
  PROVE  /\ bSync' \in [Viewers -> BOOLEAN] /\ dStreams' \in [Viewers -> [Streams -> Seq(Packets)]]
         /\ vQueue' \in [Viewers -> [Streams -> Seq(Packets)]] /\ Unsent'
         /\ bSync[v] => bSync'[v]
         /\ \A u \in Viewers \ {v} : bSync'[u] = bSync[u] /\ \A s \in Streams : Has(u, s)' = Has(u, s)
         /\ \A s \in Streams :
              \/ Has(v, s)' = With(v, s, p) /\ bSync'[v] = bSync[v]
              \/ /\ ~bSync[v] /\ bSync'[v]
                 /\ \E k \in DOMAIN With(v, s, p) : Has(v, s)' = From(With(v, s, p), k) /\ With(v, s, p)[k].key
<1> DEFINE all == [dStreams[v] EXCEPT ![p.stream] = Append(@, p)]
<1>1. /\ bSync \in [Viewers -> BOOLEAN] /\ dStreams \in [Viewers -> [Streams -> Seq(Packets)]]
      /\ vQueue \in [Viewers -> [Streams -> Seq(Packets)]] /\ buffer \in [Viewers -> [Streams -> Seq(Packets)]]
      /\ p.stream \in Streams
  BY DEF StreamTypes, Packets
<1>2. /\ dStreams[v] \in [Streams -> Seq(Packets)] /\ vQueue[v] \in [Streams -> Seq(Packets)]
      /\ buffer[v] \in [Streams -> Seq(Packets)]
  BY <1>1
<1>3. all \in [Streams -> Seq(Packets)]
  <2>1. Append(dStreams[v][p.stream], p) \in Seq(Packets)
    BY <1>1, <1>2, AppendProperties
  <2> QED BY <1>1, <1>2, <2>1
<1>4. \A s \in Streams : all[s] = IF s = p.stream THEN Append(dStreams[v][s], p) ELSE dStreams[v][s]
  BY <1>1, <1>2
<1>5. Nothing \in [Streams -> Seq(Packets)] /\ \A s \in Streams : Nothing[s] = <<>>
  BY EmptySeq DEF Nothing
<1>6. CASE bSync[v]
  <2>1. vQueue' = [vQueue EXCEPT ![v] = [vQueue[v] EXCEPT ![p.stream] = Append(vQueue[v][p.stream], p)]]
        /\ UNCHANGED <<bSync, dStreams>>
    BY <1>6 DEF Store
  <2>2. Append(vQueue[v][p.stream], p) \in Seq(Packets)
    BY <1>1, <1>2, AppendProperties
  <2>3. [vQueue[v] EXCEPT ![p.stream] = Append(vQueue[v][p.stream], p)] \in [Streams -> Seq(Packets)]
    BY <1>1, <1>2, <2>2
  <2>4. vQueue' \in [Viewers -> [Streams -> Seq(Packets)]]
    BY <1>1, <2>1, <2>3
  <2>5. \A u \in Viewers \ {v} : vQueue'[u] = vQueue[u]
    BY <1>1, <2>1
  <2>6. Unsent'
    BY <1>6, <2>1, <2>5 DEF Unsent
  <2>7. \A u \in Viewers \ {v} : bSync'[u] = bSync[u] /\ \A s \in Streams : Has(u, s)' = Has(u, s)
    BY <2>1, <2>5 DEF Has, Sent
  <2>8. ASSUME NEW s \in Streams PROVE Has(v, s)' = With(v, s, p)
    <3>1. Has(v, s)' = buffer[v][s] \o vQueue'[v][s] /\ Has(v, s) = buffer[v][s] \o vQueue[v][s]
      BY <1>6, <2>1 DEF Has, Sent
    <3>2. vQueue'[v][s] = IF s = p.stream THEN Append(vQueue[v][s], p) ELSE vQueue[v][s]
      BY <1>1, <1>2, <2>1
    <3>3. buffer[v][s] \o Append(vQueue[v][s], p) = Append(buffer[v][s] \o vQueue[v][s], p)
      <4>1. buffer[v][s] \in Seq(Packets) /\ vQueue[v][s] \in Seq(Packets)
        BY <1>2
      <4>2. \A a, b \in Seq(Packets) : a \o Append(b, p) = Append(a \o b, p)
        BY AppendLast
      <4> QED BY ONLY <4>1, <4>2, Zenon
    <3> QED BY <3>1, <3>2, <3>3 DEF With
  <2> QED BY <1>1, <2>1, <2>4, <2>6, <2>7, <2>8
<1>7. CASE ~bSync[v] /\ ~Synced(all)
  <2>1. dStreams' = [dStreams EXCEPT ![v] = all] /\ UNCHANGED <<bSync, vQueue>>
    BY <1>7 DEF Store
  <2>2. /\ dStreams' \in [Viewers -> [Streams -> Seq(Packets)]] /\ dStreams'[v] = all
        /\ \A u \in Viewers \ {v} : dStreams'[u] = dStreams[u]
    BY <1>1, <1>3, <2>1
  <2>3. Unsent'
    BY <2>1 DEF Unsent
  <2>4. \A u \in Viewers \ {v} : bSync'[u] = bSync[u] /\ \A s \in Streams : Has(u, s)' = Has(u, s)
    BY <2>1, <2>2 DEF Has, Sent
  <2>5. \A s \in Streams : Has(v, s)' = With(v, s, p)
    BY <1>4, <1>7, <2>1, <2>2 DEF Has, With
  <2> QED BY <1>1, <2>1, <2>2, <2>3, <2>4, <2>5
<1>8. CASE ~bSync[v] /\ Synced(all)
  <2> DEFINE q == [s \in Streams |-> FromLastKey(all[s])]
  <2>1. bSync' = [bSync EXCEPT ![v] = TRUE] /\ vQueue' = [vQueue EXCEPT ![v] = q] /\ dStreams' = [dStreams EXCEPT ![v] = Nothing]
    BY <1>8 DEF Store
  <2>2. ASSUME NEW s \in Streams
        PROVE  /\ q[s] \in Seq(Packets)
               /\ \E k \in DOMAIN all[s] : q[s] = From(all[s], k) /\ all[s][k].key
    <3>1. all[s] \in Seq(Packets) /\ \E i \in DOMAIN all[s] : all[s][i].key
      BY <1>3, <1>8 DEF Synced
    <3> HIDE DEF all
    <3>2. LastKey(all[s]) \in DOMAIN all[s] /\ all[s][LastKey(all[s])].key
      BY <3>1, LastKeyFound
    <3>3. q[s] = From(all[s], LastKey(all[s]))
      BY DEF FromLastKey, From
    <3> QED BY <3>1, <3>2, <3>3, Suffix DEF From
  <2>3. q \in [Streams -> Seq(Packets)]
    BY <2>2
  <2> HIDE DEF q
  <2>4. /\ vQueue' \in [Viewers -> [Streams -> Seq(Packets)]] /\ vQueue'[v] = q
        /\ (\A u \in Viewers \ {v} : vQueue'[u] = vQueue[u])
        /\ bSync' \in [Viewers -> BOOLEAN] /\ bSync'[v] /\ (\A u \in Viewers \ {v} : bSync'[u] = bSync[u])
        /\ dStreams' \in [Viewers -> [Streams -> Seq(Packets)]] /\ \A u \in Viewers \ {v} : dStreams'[u] = dStreams[u]
    BY <1>1, <1>5, <2>1, <2>3
  <2>5. Unsent'
    BY <2>4 DEF Unsent
  <2>6. \A u \in Viewers \ {v} : bSync'[u] = bSync[u] /\ \A s \in Streams : Has(u, s)' = Has(u, s)
    BY <2>4 DEF Has, Sent
  <2>7. ASSUME NEW s \in Streams
        PROVE  \E k \in DOMAIN all[s] : Has(v, s)' = From(all[s], k) /\ all[s][k].key
    <3>1. Has(v, s)' = <<>> \o q[s]
      BY <1>5, <1>8, <2>4 DEF Has, Sent, Unsent
    <3>2. q[s] \in Seq(Packets)
      BY <2>2
    <3>3. <<>> \o q[s] = q[s]
      BY ONLY <3>2, ConcatEmptySeq
    <3>4. Has(v, s)' = q[s]
      BY ONLY <3>1, <3>3, Zenon
    <3> QED BY <2>2, <3>4
  <2>8. \A s \in Streams : all[s] = With(v, s, p)
    BY <1>4, <1>8 DEF Has, With
  <2> HIDE DEF all
  <2>9. ASSUME NEW s \in Streams
        PROVE  \E k \in DOMAIN With(v, s, p) : Has(v, s)' = From(With(v, s, p), k) /\ With(v, s, p)[k].key
    BY ONLY <2>7, <2>8, s \in Streams, Zenon
  <2> QED BY <1>8, <2>4, <2>5, <2>6, <2>9
<1> QED BY <1>6, <1>7, <1>8
(* A pass of a viewer, and all that only the source's thread does, leave    *)
(* what the LiveReaders have as it is.                                      *)
LEMMA HasKept ==
  ASSUME StreamTypes, Unsent, Next, ~RouteNext
  PROVE  /\ bSync' = bSync /\ dStreams' \in [Viewers -> [Streams -> Seq(Packets)]]
         /\ vQueue' \in [Viewers -> [Streams -> Seq(Packets)]] /\ buffer' \in [Viewers -> [Streams -> Seq(Packets)]]
         /\ Unsent' /\ \A v \in Viewers, s \in Streams : Has(v, s)' = Has(v, s)
<1>1. CASE UNCHANGED <<live, buffer>>
  <2>1. bSync' = bSync /\ dStreams' = dStreams /\ vQueue' = vQueue /\ buffer' = buffer
    BY <1>1 DEF live
  <2> QED BY <2>1 DEF StreamTypes, Unsent, Has, Sent
<1>2. ASSUME NEW v \in Viewers, Feed(v)
      PROVE  /\ bSync' = bSync /\ dStreams' = dStreams
             /\ vQueue' \in [Viewers -> [Streams -> Seq(Packets)]] /\ buffer' \in [Viewers -> [Streams -> Seq(Packets)]]
             /\ Unsent' /\ \A u \in Viewers, s \in Streams : Has(u, s)' = Has(u, s)
  <2> DEFINE fed == [s \in Streams |-> buffer[v][s] \o vQueue[v][s]]
  <2>1. /\ vQueue[v] # Nothing /\ bSync' = bSync /\ dStreams' = dStreams
        /\ buffer' = [buffer EXCEPT ![v] = fed] /\ vQueue' = [vQueue EXCEPT ![v] = Nothing]
    BY <1>2 DEF Feed
  <2>2. Nothing \in [Streams -> Seq(Packets)] /\ \A s \in Streams : Nothing[s] = <<>>
    BY EmptySeq DEF Nothing
  <2>3. \A a, b \in Seq(Packets) : a \o b \in Seq(Packets) /\ (a \o b) \o <<>> = a \o b
    <3>1. \A a, b \in Seq(Packets) : a \o b \in Seq(Packets)
      BY ConcatProperties
    <3>2. \A a \in Seq(Packets) : a \o <<>> = a
      BY ConcatEmptySeq
    <3> QED BY ONLY <3>1, <3>2, Zenon
  <2>4. /\ \A u \in Viewers, s \in Streams : buffer[u][s] \in Seq(Packets) /\ vQueue[u][s] \in Seq(Packets)
        /\ buffer \in [Viewers -> [Streams -> Seq(Packets)]] /\ vQueue \in [Viewers -> [Streams -> Seq(Packets)]]
    BY DEF StreamTypes
  <2>5. \A s \in Streams : fed[s] = buffer[v][s] \o vQueue[v][s]
    OBVIOUS
  <2>6. fed \in [Streams -> Seq(Packets)]
    <3>1. \A s \in Streams : buffer[v][s] \o vQueue[v][s] \in Seq(Packets)
      BY ONLY <2>3, <2>4, v \in Viewers, Zenon
    <3> QED BY <3>1
  <2> HIDE DEF fed
  <2>7. /\ buffer' \in [Viewers -> [Streams -> Seq(Packets)]] /\ vQueue' \in [Viewers -> [Streams -> Seq(Packets)]]
        /\ buffer'[v] = fed /\ vQueue'[v] = Nothing
        /\ \A u \in Viewers \ {v} : buffer'[u] = buffer[u] /\ vQueue'[u] = vQueue[u]
    BY <2>1, <2>2, <2>4, <2>6
  <2>8. bSync[v]
    BY <2>1 DEF Unsent
  <2>9. Unsent'
    BY <2>1, <2>7, <2>8 DEF Unsent
  <2>10. ASSUME NEW s \in Streams PROVE Has(v, s)' = Has(v, s)
    <3>1. Has(v, s)' = fed[s] \o <<>> /\ Has(v, s) = buffer[v][s] \o vQueue[v][s]
      BY <2>1, <2>2, <2>7, <2>8 DEF Has, Sent
    <3>2. (buffer[v][s] \o vQueue[v][s]) \o <<>> = buffer[v][s] \o vQueue[v][s]
      BY ONLY <2>3, <2>4, v \in Viewers, s \in Streams, Zenon
    <3> QED BY ONLY <3>1, <3>2, <2>5, s \in Streams, Zenon
  <2>11. ASSUME NEW u \in Viewers \ {v}, NEW s \in Streams PROVE Has(u, s)' = Has(u, s)
    BY <2>1, <2>7 DEF Has, Sent
  <2> QED BY <2>1, <2>7, <2>9, <2>10, <2>11
<1>3. UNCHANGED <<live, buffer>> \/ \E v \in Viewers : Feed(v)
  BY DEF Next, BeginProcess, CheckNext, DoStep, EndRoute, EndProcess, Open, CreateBuffer, BeginFind,
     WalkNext, EndFind,
         Unlink, Delete
<1> QED BY <1>1, <1>2, <1>3 DEF StreamTypes

(* Routing stores the packet with the next viewer.                          *)
LEMMA RouteStores ==
  ASSUME HeldTypes, StreamTypes, RouteNext
  PROVE  /\ Head(todo[Source]) \in Viewers /\ packet \in Packets /\ Store(Head(todo[Source]), packet) /\ buffer' = buffer
         /\ made' = made /\ packet' = packet /\ pc' = pc /\ pc[Source] = "route"
<1>1. todo[Source] \in Seq(Viewers) /\ todo[Source] # <<>> /\ pc[Source] = "route"
  BY Actors DEF HeldTypes, RouteNext
<1>2. Head(todo[Source]) \in Viewers
  <2>1. \A s \in Seq(Viewers) : s # <<>> => Head(s) \in Viewers
    BY HeadTailProperties
  <2> QED BY <1>1, <2>1
<1> QED BY <1>1, <1>2 DEF RouteNext, StreamTypes

(* What the LiveReaders and the schedulers hold are packets.                *)
LEMMA StreamsKept == ASSUME PcTypes, HeldTypes, StreamTypes, Unsent, Next PROVE StreamTypes' /\ Unsent'
<1>1. CASE RouteNext
  <2> DEFINE v == Head(todo[Source])
  <2>1. /\ v \in Viewers /\ packet \in Packets /\ Store(v, packet)
        /\ buffer' = buffer /\ made' = made /\ packet' = packet /\ pc' = pc
    BY <1>1, RouteStores
  <2> HIDE DEF v
  <2>2. /\ bSync' \in [Viewers -> BOOLEAN] /\ dStreams' \in [Viewers -> [Streams -> Seq(Packets)]]
        /\ vQueue' \in [Viewers -> [Streams -> Seq(Packets)]] /\ Unsent'
    BY <2>1, StoreStep
  <2> QED BY <2>1, <2>2 DEF StreamTypes
<1>2. CASE ~RouteNext
  <2>1. made' \in 0..MaxPackets /\ (pc'[Source] = "route" => packet' \in Packets)
    <3>1. CASE DoStep
      <4>1. PICK s \in Streams, key \in BOOLEAN :
              made < MaxPackets /\ made' = made + 1 /\ packet' = [stream |-> s, key |-> key, dts |-> made + 1]
        BY <3>1 DEF DoStep
      <4>2. made' \in 0..MaxPackets /\ made + 1 \in Nat
        BY <4>1, LiveAssumption DEF StreamTypes
      <4> QED BY <4>1, <4>2 DEF Packets
    <3>2. CASE SourceSteps /\ ~DoStep
      <4>1. made' = made /\ (pc'[Source] = "route" => pc[Source] = "route" /\ packet' = packet)
        BY <1>2, <3>2, Actors DEF PcTypes, SourceSteps, BeginProcess, CheckNext, EndRoute, EndProcess, Goto
      <4> QED BY <4>1 DEF StreamTypes
    <3>3. ASSUME NEW v \in Viewers, ViewerStep(v) PROVE made' \in 0..MaxPackets /\ (pc'[Source] = "route" => packet' \in Packets)
      <4>1. made' = made /\ packet' = packet
        BY <3>3 DEF ViewerStep, Open, CreateBuffer, BeginFind, WalkNext, EndFind, Feed, Unlink, Delete
      <4>2. pc'[Source] = pc[Source]
        BY <3>3, Actors DEF PcTypes, ViewerStep, Open, CreateBuffer, BeginFind, WalkNext, EndFind,
           Feed, Unlink, Delete, Goto
      <4> QED BY <4>1, <4>2 DEF StreamTypes
    <3> QED BY <3>1, <3>2, <3>3, Steps
  <2> QED BY <1>2, <2>1, HasKept DEF StreamTypes
<1> QED BY <1>1, <1>2
-----------------------------------------------------------------------------
(* The locks.                                                               *)
Exclusive == \A t, u \in Threads : t # u => held[t] \cap held[u] = {}
Guarded ==
  /\ pc[Source] \in {"check", "route"} => Reader \in held[Source]
  /\ pc[Source] = "route" => Link \in held[Source]
  /\ \A v \in Viewers : pc[v] \in {"walk", "rewalk"} => Reader \in held[v]

(* No lock is held twice, and who checks, routes or walks holds the lock of *)
(* the reader.                                                              *)
LEMMA LocksKept == ASSUME PcTypes, HeldTypes, Exclusive, Guarded, Next PROVE Exclusive' /\ Guarded'
<1>1. CASE SourceSteps
  <2>1. /\ \A u \in Threads \ {Source} : held'[u] = held[u] /\ pc'[u] = pc[u]
        /\ \A l \in held'[Source] : l \in held[Source] \/ Free(Source, l)
    BY <1>1, Actors DEF SourceSteps, BeginProcess, CheckNext, DoStep, RouteNext, EndRoute,
       EndProcess, Goto, Grab,
       PcTypes, HeldTypes
  <2>2. Exclusive'
    BY <2>1, Actors DEF Exclusive, Free
  <2>3. /\ pc'[Source] \in {"check", "route"} => Reader \in held'[Source]
        /\ pc'[Source] = "route" => Link \in held'[Source]
    BY <1>1, Actors DEF Guarded, SourceSteps, BeginProcess, CheckNext, DoStep, RouteNext, EndRoute,
       EndProcess, Goto, Grab,
       PcTypes, HeldTypes
  <2> QED BY <2>1, <2>2, <2>3, Actors DEF Guarded
<1>2. ASSUME NEW v \in Viewers, ViewerStep(v) PROVE Exclusive' /\ Guarded'
  <2>1. v \in Threads /\ v # Source /\ Source \in Threads
    BY Actors
  <2>2. /\ \A u \in Threads \ {v} : held'[u] = held[u] /\ pc'[u] = pc[u]
        /\ \A l \in held'[v] : l \in held[v] \/ Free(v, l)
    <3>1. \/ held' = held \/ held' = [held EXCEPT ![v] = {}]
          \/ held' = [held EXCEPT ![v] = @ \cup {Live(v)}] /\ Free(v, Live(v))
          \/ held' = [held EXCEPT ![v] = @ \cup {Reader, Link}] /\ Free(v, Reader) /\ Free(v, Link)
      BY <1>2 DEF ViewerStep, Open, CreateBuffer, BeginFind, WalkNext, EndFind, Feed, Unlink, Delete, Grab
    <3>2. pc' = pc \/ \E l : pc' = [pc EXCEPT ![v] = l]
      BY <1>2 DEF ViewerStep, Open, CreateBuffer, BeginFind, WalkNext, EndFind, Feed, Unlink, Delete, Goto
    <3> QED BY <2>1, <3>1, <3>2 DEF PcTypes, HeldTypes
  <2>3. Exclusive'
    BY <2>1, <2>2 DEF Exclusive, Free
  <2>4. pc'[v] \in {"walk", "rewalk"} => Reader \in held'[v]
    <3>1. CASE BeginFind(v)
      BY <2>1, <3>1 DEF BeginFind, HeldTypes
    <3>2. CASE ~BeginFind(v)
      <4>1. \/ pc' = pc /\ held' = held
            \/ \E l \in {"linked", "find", "playing", "unlinked", "deleting", "gone"} : pc' = [pc EXCEPT ![v] = l]
        BY <1>2, <3>2 DEF ViewerStep, Open, CreateBuffer, WalkNext, EndFind, Feed, Unlink, Delete, Goto
      <4> QED BY <2>1, <4>1 DEF Guarded, PcTypes
    <3> QED BY <3>1, <3>2
  <2>5. \A u \in Viewers \ {v} : u \in Threads \ {v}
    BY Actors
  <2> QED BY <2>1, <2>2, <2>3, <2>4, <2>5 DEF Guarded
<1> QED BY <1>1, <1>2, Steps

(* So only one thread does.                                                 *)
LEMMA OneAlone == ASSUME PcTypes, Exclusive, Guarded PROVE Alone
<1>1. ASSUME NEW t \in Threads, pc[t] \in {"check", "route", "walk", "rewalk"} PROVE Reader \in held[t]
  <2>1. t = Source \/ t \in Viewers
    BY DEF Threads
  <2> QED BY <1>1, <2>1 DEF Guarded, PcTypes
<1> QED BY <1>1 DEF Alone, Exclusive

Typed == PcTypes /\ HeldTypes /\ LinkTypes /\ StreamTypes /\ Exclusive /\ Guarded /\ Unsent

(* At the start nothing is linked, held or stored.                          *)
LEMMA TypedAtStart == Init => Typed
<1> SUFFICES ASSUME Init PROVE Typed
  OBVIOUS
<1>1. <<>> \in Seq(Viewers) /\ <<>> \in Seq(Packets) /\ Nothing \in [Streams -> Seq(Packets)]
  BY EmptySeq DEF Nothing
<1>2. PcTypes
  BY Actors DEF Init, PcTypes
<1>3. HeldTypes /\ LinkTypes
  BY <1>1 DEF Init, HeldTypes, LinkTypes
<1>4. pc[Source] = "idle" /\ \A v \in Viewers : pc[v] = "closed"
  BY Actors DEF Init
<1>5. StreamTypes
  <2>1. made = 0 /\ 0 \in 0..MaxPackets /\ bSync = [v \in Viewers |-> FALSE]
        /\ dStreams = [v \in Viewers |-> Nothing] /\ vQueue = [v \in Viewers |-> Nothing] /\ buffer = [v \in Viewers |-> Nothing]
    BY LiveAssumption DEF Init
  <2> QED BY <1>1, <1>4, <2>1 DEF StreamTypes
<1>6. Exclusive /\ Guarded /\ Unsent
  BY <1>4 DEF Init, Exclusive, Guarded, Unsent
<1> QED BY <1>2, <1>3, <1>5, <1>6 DEF Typed

(* Every step, and every stuttering one, keeps them.                        *)
LEMMA TypedKept == Typed /\ [Next]_vars => Typed'
<1> SUFFICES ASSUME Typed, [Next]_vars PROVE Typed'
  OBVIOUS
<1>1. CASE Next
  BY <1>1, PcKept, HeldKept, LinkKept, StreamsKept, LocksKept DEF Typed
<1>2. CASE UNCHANGED vars
  BY <1>2 DEF Typed, PcTypes, HeldTypes, LinkTypes, StreamTypes, Exclusive, Guarded, Unsent, vars, live
<1> QED BY <1>1, <1>2

(* So they hold in every state.                                             *)
LEMMA TypedAlways == Spec => []Typed
BY TypedAtStart, TypedKept, PTL DEF Spec

(* Every variable keeps to its values, and of the source and the viewers    *)
(* one at a time checks the schedulers, routes, or walks the graph.         *)
THEOREM TypeCorrect == Spec => []TypeOK
<1>1. Typed => TypeOK
  BY Parts, OneAlone DEF Typed
<1> QED BY <1>1, TypedAlways, PTL
-----------------------------------------------------------------------------
(* The routes of the link.                                                  *)
In(x, seq) == \E i \in DOMAIN seq : seq[i] = x
Injective(seq) == \A i, j \in DOMAIN seq : seq[i] = seq[j] => i = j
Linked(v) == In(v, vRouting)
Pending(v) == pc[Source] = "route" /\ In(v, todo[Source])

(* What is in a sequence that one is put behind.                            *)
LEMMA AppendIn ==
  ASSUME NEW S, NEW a \in Seq(S), NEW e \in S
  PROVE  /\ \A x : In(x, Append(a, e)) <=> In(x, a) \/ x = e
         /\ Injective(a) /\ ~In(e, a) => Injective(Append(a, e))
<1> DEFINE b == Append(a, e)
<1>1. Len(a) \in Nat /\ DOMAIN a = 1..Len(a)
  BY LenProperties
<1>2. b \in Seq(S) /\ Len(b) = Len(a) + 1 /\ (\A i \in 1..Len(a) : b[i] = a[i]) /\ b[Len(a) + 1] = e
  BY AppendProperties
<1> HIDE DEF b
<1>3. DOMAIN b = 1..Len(a) + 1
  BY <1>2, LenProperties
<1>4. Len(a) + 1 \in DOMAIN b /\ \A i \in DOMAIN b : i \in DOMAIN a \/ i = Len(a) + 1
  BY <1>1, <1>3
<1>5. \A i \in DOMAIN a : i \in DOMAIN b /\ b[i] = a[i]
  BY <1>1, <1>2, <1>3
<1>6. \A x : In(x, b) <=> In(x, a) \/ x = e
  BY <1>2, <1>4, <1>5 DEF In
<1>7. Injective(a) /\ ~In(e, a) => Injective(b)
  BY <1>2, <1>4, <1>5 DEF In, Injective
<1> QED BY <1>6, <1>7 DEF b

(* What is in the rest of a sequence that has nothing twice.                *)
LEMMA TailIn ==
  ASSUME NEW S, NEW a \in Seq(S), a # <<>>, Injective(a)
  PROVE  Injective(Tail(a)) /\ \A x : In(x, Tail(a)) <=> In(x, a) /\ x # Head(a)
<1>1. /\ Len(a) \in Nat /\ DOMAIN a = 1..Len(a) /\ Len(a) # 0
  BY LenProperties, EmptySeq
<1>2. Head(a) = a[1] /\ Tail(a) \in Seq(S) /\ Len(Tail(a)) = Len(a) - 1 /\ \A i \in 1..Len(a) - 1 : Tail(a)[i] = a[i + 1]
  BY HeadTailProperties
<1>3. DOMAIN Tail(a) = 1..Len(a) - 1
  BY <1>2, LenProperties
<1>4. \A i \in DOMAIN Tail(a) : i + 1 \in DOMAIN a /\ i + 1 # 1 /\ Tail(a)[i] = a[i + 1]
  BY <1>1, <1>2, <1>3
<1>5. 1 \in DOMAIN a /\ \A i \in DOMAIN a : i # 1 => i - 1 \in DOMAIN Tail(a) /\ Tail(a)[i - 1] = a[i]
  BY <1>1, <1>2, <1>3
<1>6. ASSUME NEW i \in DOMAIN Tail(a), NEW j \in DOMAIN Tail(a), Tail(a)[i] = Tail(a)[j] PROVE i = j
  <2>1. i + 1 = j + 1
    BY <1>4, <1>6 DEF Injective
  <2> QED BY <1>1, <1>3, <2>1
<1>7. ASSUME NEW x PROVE In(x, Tail(a)) <=> In(x, a) /\ x # Head(a)
  <2>1. In(x, Tail(a)) => In(x, a) /\ x # Head(a)
    BY <1>2, <1>4, <1>5 DEF In, Injective
  <2>2. In(x, a) /\ x # Head(a) => In(x, Tail(a))
    BY <1>2, <1>5 DEF In
  <2> QED BY <2>1, <2>2
<1> QED BY <1>6, <1>7 DEF Injective

(* What is left of the routes when one is dropped.                          *)
LEMMA DroppedIn ==
  ASSUME NEW S, NEW a \in Seq(S), NEW i \in DOMAIN a, Injective(a)
  PROVE  Injective(Dropped(a, i)) /\ \A x : In(x, Dropped(a, i)) <=> In(x, a) /\ x # a[i]
<1> DEFINE d == Dropped(a, i)
           At(j) == IF j < i THEN j ELSE j + 1
<1>1. Len(a) \in Nat /\ DOMAIN a = 1..Len(a) /\ i \in 1..Len(a)
  BY LenProperties
<1>2. d \in Seq(S) /\ Len(d) = Len(a) - 1 /\ \A j \in 1..Len(a) - 1 : d[j] = IF j < i THEN a[j] ELSE a[j + 1]
  BY DroppedSeq
<1> HIDE DEF d
<1>3. DOMAIN d = 1..Len(a) - 1
  BY <1>2, LenProperties
<1>4. \A j \in DOMAIN d : At(j) \in DOMAIN a /\ At(j) # i /\ d[j] = a[At(j)]
  BY <1>1, <1>2, <1>3
<1>5. \A j, k \in DOMAIN d : At(j) = At(k) => j = k
  BY <1>1, <1>3
<1>6. \A j \in DOMAIN a : j # i => \E k \in DOMAIN d : d[k] = a[j]
  <2>1. ASSUME NEW j \in DOMAIN a, j # i PROVE \E k \in DOMAIN d : At(k) = j
    <3>1. CASE j < i
      BY <1>1, <1>3, <3>1
    <3>2. CASE j > i
      <4>1. j - 1 \in DOMAIN d /\ ~(j - 1 < i) /\ j - 1 + 1 = j
        BY <1>1, <1>3, <3>2
      <4> QED BY <4>1
    <3> QED BY <1>1, <2>1, <3>1, <3>2
  <2> QED BY <1>4, <2>1
<1> HIDE DEF At
<1>7. Injective(d)
  BY <1>4, <1>5 DEF Injective
<1>8. ASSUME NEW x PROVE In(x, d) <=> In(x, a) /\ x # a[i]
  BY <1>4, <1>6 DEF In, Injective
<1> QED BY <1>7, <1>8 DEF d
(* A viewer is linked while its LiveReader is in use, it exists from the    *)
(* moment it is linked until it is deleted, and the source, which holds the *)
(* lock of the link while it routes, visits linked ones, each once.         *)
Routes ==
  /\ \A v \in Viewers : Linked(v) <=> pc[v] \in {"linked", "find", "walk", "playing"}
  /\ \A v \in Viewers : pc[v] \notin {"closed", "gone"} => Live(v) \in alive
  /\ Injective(vRouting)
  /\ pc[Source] = "route" => Injective(todo[Source]) /\ \A v \in Viewers : In(v, todo[Source]) => Linked(v)

(* While the source routes, nobody can take the lock of the link.           *)
LEMMA NotRouting == ASSUME NEW v \in Viewers, Guarded, Free(v, Link) PROVE pc[Source] # "route"
BY Actors DEF Guarded, Free

(* A viewer's thread does not touch what the source does next.              *)
LEMMA SourceUntouched ==
  ASSUME PcTypes, HeldTypes, NEW v \in Viewers, ViewerStep(v)
  PROVE  /\ pc'[Source] = pc[Source] /\ todo'[Source] = todo[Source] /\ packet' = packet /\ made' = made
         /\ \A u \in Viewers \ {v} : pc'[u] = pc[u]
<1>1. v # Source /\ Source \in Threads /\ v \in Threads /\ Viewers \subseteq Threads
  BY Actors
<1>2. pc' = pc \/ \E l : pc' = [pc EXCEPT ![v] = l]
  BY DEF ViewerStep, Open, CreateBuffer, BeginFind, WalkNext, EndFind, Feed, Unlink, Delete, Goto
<1>3. todo' = todo \/ \E s : todo' = [todo EXCEPT ![v] = s]
  BY DEF ViewerStep, Open, CreateBuffer, BeginFind, WalkNext, EndFind, Feed, Unlink, Delete
<1>4. packet' = packet /\ made' = made
  BY DEF ViewerStep, Open, CreateBuffer, BeginFind, WalkNext, EndFind, Feed, Unlink, Delete
<1>5. pc'[Source] = pc[Source] /\ \A u \in Viewers \ {v} : pc'[u] = pc[u]
  BY <1>1, <1>2 DEF PcTypes
<1>6. todo'[Source] = todo[Source]
  BY <1>1, <1>3 DEF HeldTypes
<1> QED BY <1>4, <1>5, <1>6

(* Each step of the source, and of a viewer, keeps that.                    *)
LEMMA RoutesKept == ASSUME Typed, Routes, Next PROVE Routes'
<1>0. /\ PcTypes /\ HeldTypes /\ LinkTypes /\ Guarded /\ Source \in Threads
      /\ todo[Source] \in Seq(Viewers) /\ vRouting \in Seq(Viewers)
  BY Actors DEF Typed, HeldTypes, LinkTypes
<1>1. CASE SourceSteps
  <2>1. vRouting' = vRouting /\ alive' = alive
    BY <1>1 DEF SourceSteps, BeginProcess, CheckNext, DoStep, RouteNext, EndRoute, EndProcess
  <2>2. \A v \in Viewers : pc'[v] = pc[v]
    <3>1. pc' = pc \/ \E l : pc' = [pc EXCEPT ![Source] = l]
      BY <1>1 DEF SourceSteps, BeginProcess, CheckNext, DoStep, RouteNext, EndRoute, EndProcess, Goto
    <3> QED BY <1>0, <3>1, Actors DEF PcTypes
  <2>3. pc'[Source] = "route" => Injective(todo'[Source]) /\ \A v \in Viewers : In(v, todo'[Source]) => Linked(v)
    <3>1. CASE DoStep
      <4>1. todo'[Source] = vRouting
        BY <1>0, <3>1 DEF DoStep, HeldTypes
      <4> QED BY <4>1 DEF Routes, Linked
    <3>2. CASE RouteNext
      <4>1. todo'[Source] = Tail(todo[Source]) /\ todo[Source] # <<>> /\ pc[Source] = "route"
        BY <1>0, <3>2 DEF RouteNext, HeldTypes
      <4>2. Injective(todo[Source])
        BY <4>1 DEF Routes
      <4>3. Injective(Tail(todo[Source])) /\ \A x : In(x, Tail(todo[Source])) <=> In(x, todo[Source]) /\ x # Head(todo[Source])
        BY <1>0, <4>1, <4>2, TailIn
      <4> QED BY <4>1, <4>3 DEF Routes
    <3>3. CASE ~DoStep /\ ~RouteNext
      BY <1>0, <1>1, <3>3 DEF SourceSteps, BeginProcess, CheckNext, EndRoute, EndProcess, Goto, PcTypes
    <3> QED BY <3>1, <3>2, <3>3
  <2> QED BY <2>1, <2>2, <2>3 DEF Routes, Linked
<1>2. ASSUME NEW v \in Viewers, ViewerStep(v) PROVE Routes'
  <2>0. /\ pc'[Source] = pc[Source] /\ todo'[Source] = todo[Source] /\ \A u \in Viewers \ {v} : pc'[u] = pc[u]
    BY <1>0, <1>2, SourceUntouched
  <2>1. v \in Threads /\ \A u \in Viewers \ {v} : Live(u) # Live(v) /\ Live(u) # Sched(v)
    BY Actors DEF Live, Sched
  <2>2. CASE Open(v)
    <3>1. /\ pc[v] = "closed" /\ pc'[v] = "linked" /\ vRouting' = Append(vRouting, v)
          /\ alive' = alive \cup {Live(v)} /\ pc[Source] # "route"
      BY <1>0, <2>1, <2>2, NotRouting DEF Open, Goto, PcTypes
    <3>2. ~In(v, vRouting) /\ Injective(vRouting)
      BY <3>1 DEF Routes, Linked
    <3>3. Injective(vRouting') /\ \A x : In(x, vRouting') <=> In(x, vRouting) \/ x = v
      BY <1>0, <3>1, <3>2, AppendIn
    <3> QED BY <2>0, <3>1, <3>3 DEF Routes, Linked
  <2>3. CASE Unlink(v)
    <3>1. pc[v] = "playing" /\ pc'[v] = "unlinked" /\ alive' = alive /\ pc[Source] # "route"
      BY <1>0, <2>1, <2>3, NotRouting DEF Unlink, Goto, PcTypes
    <3>2. PICK i \in DOMAIN vRouting : vRouting[i] = v /\ vRouting' = Dropped(vRouting, i)
      BY <2>3 DEF Unlink
    <3>3. Injective(vRouting') /\ \A x : In(x, vRouting') <=> In(x, vRouting) /\ x # v
      BY <1>0, <3>2, DroppedIn DEF Routes
    <3> QED BY <2>0, <3>1, <3>3 DEF Routes, Linked
  <2>4. CASE Delete(v)
    <3>1. pc[v] = "deleting" /\ pc'[v] = "gone" /\ alive' = alive \ {Live(v), Sched(v)} /\ vRouting' = vRouting
      BY <1>0, <2>1, <2>4 DEF Delete, Goto, PcTypes
    <3> QED BY <2>0, <2>1, <3>1 DEF Routes, Linked
  <2>5. CASE ~Open(v) /\ ~Unlink(v) /\ ~Delete(v)
    <3>1. vRouting' = vRouting /\ alive \subseteq alive'
      BY <1>2, <2>5 DEF ViewerStep, CreateBuffer, BeginFind, WalkNext, EndFind, Feed
    <3>2. /\ pc'[v] \in {"linked", "find", "walk", "playing"} <=> pc[v] \in {"linked", "find", "walk", "playing"}
          /\ pc'[v] \notin {"closed", "gone"} => pc[v] \notin {"closed", "gone"}
      BY <1>0, <1>2, <2>1, <2>5 DEF ViewerStep, CreateBuffer, BeginFind, WalkNext, EndFind, Feed,
         Goto, PcTypes
    <3> QED BY <2>0, <3>1, <3>2 DEF Routes, Linked
  <2> QED BY <2>2, <2>3, <2>4, <2>5
<1> QED BY <1>1, <1>2, Steps

(* From the start on.                                                       *)
LEMMA RoutesAlways == Spec => [](Typed /\ Routes)
<1>1. Init => Routes
  <2> SUFFICES ASSUME Init PROVE Routes
    OBVIOUS
  <2>1. vRouting = <<>> /\ pc[Source] = "idle" /\ \A v \in Viewers : pc[v] = "closed"
    BY Actors DEF Init
  <2> QED BY <2>1, EmptySeq DEF Routes, Linked, In, Injective
<1>2. Typed /\ Routes /\ [Next]_vars => Routes'
  <2>1. CASE Next
    BY <2>1, RoutesKept
  <2>2. CASE UNCHANGED vars
    BY <2>2 DEF Routes, Linked, vars
  <2> QED BY <2>1, <2>2
<1> QED BY <1>1, <1>2, TypedAtStart, TypedKept, PTL DEF Spec

(* The LiveReaders that the source routes a packet to exist: a viewer takes *)
(* the lock of the link when it unlinks its LiveReader, which is deleted    *)
(* after that.                                                              *)
THEOREM NoneRoutedDead == Spec => []NeverRoutedToDead
<1>1. Typed /\ Routes => NeverRoutedToDead
  <2> SUFFICES ASSUME Typed, Routes, pc[Source] = "route", NEW i \in DOMAIN todo[Source] PROVE Live(todo[Source][i]) \in alive
    BY DEF NeverRoutedToDead
  <2>1. todo[Source] \in Seq(Viewers)
    BY Actors DEF Typed, HeldTypes
  <2>2. todo[Source][i] \in Viewers
    BY <2>1
  <2>3. In(todo[Source][i], todo[Source])
    BY DEF In
  <2>4. pc[todo[Source][i]] \in {"linked", "find", "walk", "playing"}
    BY <2>2, <2>3 DEF Routes
  <2> QED BY <2>2, <2>4 DEF Routes
<1> QED BY <1>1, RoutesAlways, PTL
-----------------------------------------------------------------------------
(* The packets of a stream.                                                 *)
Elems(seq) == {seq[i] : i \in DOMAIN seq}
Rising(seq) == \A i, j \in DOMAIN seq : i < j => seq[i].dts < seq[j].dts

(* A later packet is put behind earlier ones.                               *)
LEMMA RisingAppend ==
  ASSUME NEW a \in Seq(Packets), NEW p \in Packets, Rising(a), \A x \in Elems(a) : x.dts < p.dts
  PROVE  /\ Append(a, p) \in Seq(Packets) /\ Append(a, p) # <<>> /\ Elems(Append(a, p)) = Elems(a) \cup {p}
         /\ Rising(Append(a, p)) /\ Append(a, p)[Len(Append(a, p))] = p
         /\ a # <<>> => Append(a, p)[1] = a[1]
<1> DEFINE b == Append(a, p)
<1>1. Len(a) \in Nat /\ DOMAIN a = 1..Len(a) /\ (a # <<>> => 1 \in DOMAIN a)
  <2>1. Len(a) \in Nat /\ DOMAIN a = 1..Len(a) /\ (a # <<>> => Len(a) # 0)
    BY LenProperties, EmptySeq
  <2> QED BY <2>1
<1>2. b \in Seq(Packets) /\ b # <<>> /\ Len(b) = Len(a) + 1 /\ (\A i \in 1..Len(a) : b[i] = a[i]) /\ b[Len(a) + 1] = p
  BY AppendProperties
<1> HIDE DEF b
<1>3. DOMAIN b = 1..Len(a) + 1
  BY <1>2, LenProperties
<1>4. Len(a) + 1 \in DOMAIN b /\ \A i \in DOMAIN b : i \in DOMAIN a \/ i = Len(a) + 1
  BY <1>1, <1>3
<1>5. \A i \in DOMAIN a : i \in DOMAIN b /\ b[i] = a[i] /\ i < Len(a) + 1
  BY <1>1, <1>2, <1>3
<1>6. Elems(b) = Elems(a) \cup {p}
  BY <1>2, <1>4, <1>5 DEF Elems
<1>7. ASSUME NEW i \in DOMAIN b, NEW j \in DOMAIN b, i < j PROVE b[i].dts < b[j].dts
  <2>1. i \in DOMAIN a
    BY <1>1, <1>3, <1>7
  <2>2. CASE j \in DOMAIN a
    BY <1>5, <1>7, <2>1, <2>2 DEF Rising
  <2>3. CASE j = Len(a) + 1
    <3>1. b[i] \in Elems(a) /\ b[j] = p
      BY <1>2, <1>5, <2>1, <2>3 DEF Elems
    <3> QED BY <3>1
  <2> QED BY <1>4, <2>2, <2>3
<1> QED BY <1>1, <1>2, <1>5, <1>6, <1>7 DEF b, Rising

(* What is left from a position on has all that is as late as what it has.  *)
LEMMA RisingSuffix ==
  ASSUME NEW a \in Seq(Packets), Rising(a), NEW k \in DOMAIN a
  PROVE  LET b == From(a, k) IN
         /\ b \in Seq(Packets) /\ b # <<>> /\ b[1] = a[k] /\ Rising(b)
         /\ Elems(b) \subseteq Elems(a) /\ a[Len(a)] \in Elems(b)
         /\ \A x \in Elems(a), y \in Elems(b) : y.dts <= x.dts => x \in Elems(b)
<1> DEFINE b == From(a, k)
<1>1. Len(a) \in Nat /\ DOMAIN a = 1..Len(a) /\ k \in 1..Len(a) /\ \A i \in DOMAIN a : a[i].dts \in Nat
  <2>1. \A x \in Packets : x.dts \in Nat
    BY DEF Packets
  <2>2. Len(a) \in Nat /\ DOMAIN a = 1..Len(a) /\ \A i \in DOMAIN a : a[i] \in Packets
    BY LenProperties
  <2> QED BY <2>1, <2>2
<1>2. b \in Seq(Packets) /\ Len(b) = Len(a) - k + 1 /\ \A i \in 1..Len(a) - k + 1 : b[i] = a[k + i - 1]
  BY Suffix DEF From
<1> HIDE DEF b
<1>3. DOMAIN b = 1..Len(a) - k + 1
  BY <1>2, LenProperties
<1>4. \A i \in DOMAIN b : k + i - 1 \in DOMAIN a /\ k <= k + i - 1 /\ b[i] = a[k + i - 1]
  <2>1. \A i \in 1..Len(a) - k + 1 : k + i - 1 \in 1..Len(a) /\ k <= k + i - 1
    BY <1>1
  <2> QED BY <1>1, <1>2, <1>3, <2>1
<1>5. \A i \in DOMAIN a : k <= i => i - k + 1 \in DOMAIN b /\ b[i - k + 1] = a[i]
  <2>1. \A i \in DOMAIN a : k <= i => i - k + 1 \in DOMAIN b /\ k + (i - k + 1) - 1 = i
    BY <1>1, <1>3
  <2> QED BY <1>4, <2>1
<1>6. 1 \in DOMAIN b /\ b[1] = a[k] /\ b # <<>>
  <2>1. 1 \in 1..Len(a) - k + 1 /\ k + 1 - 1 = k
    BY <1>1
  <2> QED BY <1>2, <1>3, <2>1, EmptySeq
<1>7. ASSUME NEW i \in DOMAIN b, NEW j \in DOMAIN b, i < j PROVE b[i].dts < b[j].dts
  <2>1. k + i - 1 < k + j - 1
    BY <1>1, <1>3, <1>7
  <2> QED BY <1>4, <2>1 DEF Rising
<1>8. Elems(b) \subseteq Elems(a) /\ a[Len(a)] \in Elems(b)
  BY <1>1, <1>4, <1>5 DEF Elems
<1>9. ASSUME NEW i \in DOMAIN a, NEW j \in DOMAIN b, b[j].dts <= a[i].dts PROVE a[i] \in Elems(b)
  <2>1. k + j - 1 \in DOMAIN a /\ k <= k + j - 1 /\ b[j] = a[k + j - 1]
    BY <1>4
  <2>2. ~(i < k + j - 1)
    BY <1>1, <1>9, <2>1 DEF Rising
  <2>3. k <= i
    BY <1>1, <1>3, <2>1, <2>2
  <2> QED BY <1>5, <2>3 DEF Elems
<1>10. \A x \in Elems(a), y \in Elems(b) : y.dts <= x.dts => x \in Elems(b)
  BY <1>9 DEF Elems
<1> QED BY <1>2, <1>6, <1>7, <1>8, <1>10 DEF b, Rising
-----------------------------------------------------------------------------
(* What the viewers have of the source.                                     *)
Holds(v, s) == Elems(Has(v, s))
Visited(v) == pc[Source] = "route" /\ Linked(v) /\ ~Pending(v)

(* A viewer that was not linked yet has nothing.                            *)
Begun == \A v \in Viewers : pc[v] = "closed" => ~bSync[v] /\ \A s \in Streams : Has(v, s) = <<>>

(* What a viewer has of a stream was made, in order, and begins with a key  *)
(* frame once it is synchronised.                                           *)
Ordered ==
  \A v \in Viewers, s \in Streams :
    /\ \A p \in Holds(v, s) : p.stream = s /\ p.dts <= made
    /\ Rising(Has(v, s))
    /\ bSync[v] => Has(v, s) # <<>> /\ Has(v, s)[1].key

(* The newest packet is the one that is routed, and who has been visited    *)
(* has it.                                                                  *)
Routed ==
  pc[Source] = "route" =>
    /\ packet.dts = made
    /\ \A v \in Viewers, s \in Streams : \A p \in Holds(v, s) : p.dts = made => p = packet /\ Visited(v)
    /\ \A v \in Viewers, s \in Streams : Visited(v) /\ s = packet.stream => packet \in Holds(v, s)

(* Of two viewers one has, from its first packet of a stream on, what the   *)
(* other has, but for the packet that it is about to be sent; and when it   *)
(* is not linked any more, for what came after its last packet.             *)
Shared ==
  \A u, v \in Viewers, s \in Streams : \A p \in Holds(u, s), q \in Holds(v, s) :
    q.dts <= p.dts =>
      \/ p \in Holds(v, s) \/ (Pending(v) /\ p = packet)
      \/ (~Linked(v) /\ \A r \in Holds(v, s) : r.dts < p.dts)

(* What the LiveReaders have are sequences of packets.                      *)
LEMMA HasSeq == ASSUME StreamTypes, NEW v \in Viewers, NEW s \in Streams PROVE Has(v, s) \in Seq(Packets)
<1>1. dStreams[v][s] \in Seq(Packets) /\ buffer[v][s] \in Seq(Packets) /\ vQueue[v][s] \in Seq(Packets)
  BY DEF StreamTypes
<1>2. \A a, b \in Seq(Packets) : a \o b \in Seq(Packets)
  BY ConcatProperties
<1>3. buffer[v][s] \o vQueue[v][s] \in Seq(Packets)
  BY ONLY <1>1, <1>2, Zenon
<1> QED BY <1>1, <1>3 DEF Has, Sent

(* What routing does: of all viewers only the next one has something new,   *)
(* and that is the packet, behind what it had of the stream.                *)
LEMMA Received ==
  ASSUME Typed, Routes, Ordered, Routed, RouteNext, NEW w \in Viewers, w = Head(todo[Source])
  PROVE  /\ packet \in Packets /\ Linked(w) /\ Pending(w)
         /\ \A u \in Viewers : Pending(u)' <=> Pending(u) /\ u # w
         /\ \A u \in Viewers \ {w}, s \in Streams : bSync'[u] = bSync[u] /\ Has(u, s)' = Has(u, s)
         /\ \A s \in Streams :
              /\ Holds(w, s)' \subseteq Holds(w, s) \cup {x \in {packet} : x.stream = s}
              /\ s = packet.stream => packet \in Holds(w, s)'
              /\ \A x \in Holds(w, s), y \in Holds(w, s)' : y.dts <= x.dts => x \in Holds(w, s)'
              /\ Rising(Has(w, s))'
              /\ bSync'[w] => Has(w, s)' # <<>> /\ Has(w, s)'[1].key
<1>1. /\ HeldTypes /\ StreamTypes /\ Unsent /\ packet \in Packets /\ Store(w, packet) /\ buffer' = buffer
      /\ made' = made /\ packet' = packet /\ pc' = pc /\ pc[Source] = "route"
  BY RouteStores DEF Typed
<1>2. /\ todo[Source] \in Seq(Viewers) /\ todo[Source] # <<>> /\ todo'[Source] = Tail(todo[Source]) /\ Injective(todo[Source])
  BY <1>1, Actors DEF RouteNext, HeldTypes, Routes
<1>3. In(w, todo[Source])
  <2>1. 1 \in DOMAIN todo[Source] /\ w = todo[Source][1]
    <3>1. \A q \in Seq(Viewers) : q # <<>> => 1 \in DOMAIN q /\ Head(q) = q[1]
      BY HeadTailProperties, LenProperties, EmptySeq
    <3> QED BY <1>2, <3>1
  <2> QED BY <2>1 DEF In
<1>4. Pending(w) /\ Linked(w)
  BY <1>1, <1>3 DEF Pending, Routes
<1>5. \A u \in Viewers : Pending(u)' <=> Pending(u) /\ u # w
  <2>1. \A x : In(x, Tail(todo[Source])) <=> In(x, todo[Source]) /\ x # w
    BY <1>2, TailIn
  <2> QED BY <1>1, <1>2, <2>1 DEF Pending
<1>6. /\ \A u \in Viewers \ {w} : bSync'[u] = bSync[u] /\ \A s \in Streams : Has(u, s)' = Has(u, s)
      /\ \A s \in Streams :
           \/ Has(w, s)' = With(w, s, packet) /\ bSync'[w] = bSync[w]
           \/ /\ ~bSync[w] /\ bSync'[w]
              /\ \E k \in DOMAIN With(w, s, packet) : Has(w, s)' = From(With(w, s, packet), k) /\ With(w, s, packet)[k].key
  BY <1>1, StoreStep
<1>7. ASSUME NEW s \in Streams
      PROVE  /\ Holds(w, s)' \subseteq Holds(w, s) \cup {x \in {packet} : x.stream = s}
             /\ s = packet.stream => packet \in Holds(w, s)'
             /\ \A x \in Holds(w, s), y \in Holds(w, s)' : y.dts <= x.dts => x \in Holds(w, s)'
             /\ Rising(Has(w, s))'
             /\ bSync'[w] => Has(w, s)' # <<>> /\ Has(w, s)'[1].key
  <2> DEFINE h == Has(w, s)
             a == With(w, s, packet)
             b == Has(w, s)'
  <2>1. h \in Seq(Packets) /\ Rising(h) /\ (bSync[w] => h # <<>> /\ h[1].key)
    BY <1>1, HasSeq DEF Ordered
  <2>2. \A x \in Elems(h) : x.dts < packet.dts
    <3>1. ASSUME NEW x \in Elems(h) PROVE x.dts < packet.dts
      <4>1. x.dts <= made /\ x.dts # made /\ packet.dts = made
        BY <1>1, <1>4 DEF Holds, Ordered, Routed, Visited
      <4>2. x \in Packets
        BY <2>1 DEF Elems
      <4>3. x.dts \in Nat /\ made \in Nat
        BY <1>1, <4>2 DEF Packets, StreamTypes
      <4> QED BY <4>1, <4>3
    <3> QED BY <3>1
  <2> HIDE DEF h
  <2>3. /\ a \in Seq(Packets) /\ Rising(a)
        /\ Elems(h) \subseteq Elems(a) /\ Elems(a) \subseteq Elems(h) \cup {x \in {packet} : x.stream = s}
        /\ s = packet.stream => a[Len(a)] = packet /\ a # <<>>
        /\ h # <<>> => a # <<>> /\ a[1] = h[1]
    <3>1. CASE s = packet.stream
      <4>1. a = Append(h, packet)
        BY <3>1 DEF h, With
      <4>2. /\ Append(h, packet) \in Seq(Packets) /\ Append(h, packet) # <<>> /\ Elems(Append(h, packet)) = Elems(h) \cup {packet}
            /\ Rising(Append(h, packet)) /\ Append(h, packet)[Len(Append(h, packet))] = packet
            /\ h # <<>> => Append(h, packet)[1] = h[1]
        BY <1>1, <2>1, <2>2, RisingAppend
      <4> QED BY <3>1, <4>1, <4>2
    <3>2. CASE s # packet.stream
      BY <2>1, <3>2 DEF h, With
    <3> QED BY <3>1, <3>2
  <2>4. \/ b = a /\ bSync'[w] = bSync[w]
        \/ \E k \in DOMAIN a : b = From(a, k) /\ a[k].key
    BY <1>6
  <2> HIDE DEF a
  <2>5. CASE b = a /\ bSync'[w] = bSync[w]
    <3>1. s = packet.stream => packet \in Elems(a)
      <4>1. \A q \in Seq(Packets) : q # <<>> => Len(q) \in DOMAIN q
        BY LenProperties, EmptySeq
      <4> QED BY <2>3, <4>1 DEF Elems
    <3>2. Elems(b) = Elems(a)
      BY <2>5
    <3> QED BY <2>1, <2>3, <2>5, <3>1, <3>2 DEF Holds, h
  <2>6. ASSUME NEW k \in DOMAIN a, b = From(a, k), a[k].key
        PROVE  /\ Holds(w, s)' \subseteq Holds(w, s) \cup {x \in {packet} : x.stream = s}
               /\ s = packet.stream => packet \in Holds(w, s)'
               /\ \A x \in Holds(w, s), y \in Holds(w, s)' : y.dts <= x.dts => x \in Holds(w, s)'
               /\ Rising(Has(w, s))'
               /\ bSync'[w] => Has(w, s)' # <<>> /\ Has(w, s)'[1].key
    <3>1. /\ b # <<>> /\ b[1] = a[k] /\ Rising(b) /\ Elems(b) \subseteq Elems(a) /\ a[Len(a)] \in Elems(b)
          /\ \A x \in Elems(a), y \in Elems(b) : y.dts <= x.dts => x \in Elems(b)
      BY <2>3, <2>6, RisingSuffix
    <3> QED BY <2>3, <2>6, <3>1 DEF Holds, h
  <2> QED BY <2>4, <2>5, <2>6
<1> QED BY <1>1, <1>4, <1>5, <1>6, <1>7
Flow == Begun /\ Ordered /\ Routed /\ Shared

(* The packet goes to the next viewer.                                      *)
LEMMA FlowRouted == ASSUME Typed, Routes, Flow, RouteNext PROVE Flow'
<1>1. PICK w \in Viewers : w = Head(todo[Source])
  BY RouteStores DEF Typed
<1>2. /\ packet \in Packets /\ Linked(w) /\ Pending(w)
      /\ \A u \in Viewers : Pending(u)' <=> Pending(u) /\ u # w
      /\ \A u \in Viewers \ {w}, s \in Streams : bSync'[u] = bSync[u] /\ Has(u, s)' = Has(u, s)
  BY <1>1, Received DEF Flow
<1>3. \A s \in Streams :
        /\ Holds(w, s)' \subseteq Holds(w, s) \cup {x \in {packet} : x.stream = s}
        /\ s = packet.stream => packet \in Holds(w, s)'
        /\ \A x \in Holds(w, s), y \in Holds(w, s)' : y.dts <= x.dts => x \in Holds(w, s)'
        /\ Rising(Has(w, s))'
        /\ bSync'[w] => Has(w, s)' # <<>> /\ Has(w, s)'[1].key
  BY <1>1, Received DEF Flow
<1>4. /\ pc' = pc /\ pc[Source] = "route" /\ made' = made /\ packet' = packet /\ vRouting' = vRouting /\ made \in Nat
      /\ \A u \in Viewers : Linked(u)' <=> Linked(u)
  BY DEF RouteNext, Linked, Typed, StreamTypes
<1>5. \A u \in Viewers \ {w}, s \in Streams : Holds(u, s)' = Holds(u, s)
  BY <1>2 DEF Holds
<1>6. packet.dts = made /\ packet.stream \in Streams /\ \A u \in Viewers : Visited(u)' <=> Visited(u) \/ u = w
  BY <1>2, <1>4 DEF Flow, Routed, Visited, Packets
<1>7. Begun'
  <2>1. pc[w] # "closed"
    BY <1>2 DEF Routes
  <2>2. ASSUME NEW u \in Viewers, pc[u] = "closed" PROVE ~bSync'[u] /\ \A s \in Streams : Has(u, s)' = <<>>
    <3>1. u # w
      BY <2>1, <2>2
    <3>2. bSync'[u] = bSync[u] /\ \A s \in Streams : Has(u, s)' = Has(u, s)
      BY <1>2, <3>1, LiveAssumption
    <3>3. ~bSync[u] /\ \A s \in Streams : Has(u, s) = <<>>
      BY <2>2 DEF Flow, Begun
    <3> QED BY <3>2, <3>3
  <2> QED BY <1>4, <2>2 DEF Begun
<1>8. Ordered'
  <2>1. ASSUME NEW u \in Viewers, NEW s \in Streams
        PROVE  /\ \A p \in Holds(u, s)' : p.stream = s /\ p.dts <= made'
               /\ Rising(Has(u, s))'
               /\ bSync'[u] => Has(u, s)' # <<>> /\ Has(u, s)'[1].key
    <3>1. CASE u = w
      <4>1. \A p \in Holds(w, s) : p.stream = s /\ p.dts <= made
        BY DEF Flow, Ordered
      <4>2. made <= made
        BY <1>4
      <4> QED BY <1>3, <1>4, <1>6, <3>1, <4>1, <4>2
    <3>2. CASE u # w
      <4>1. Has(u, s)' = Has(u, s) /\ bSync'[u] = bSync[u] /\ Holds(u, s)' = Holds(u, s)
        BY <1>2, <1>5, <3>2
      <4>2. Rising(Has(u, s))' <=> Rising(Has(u, s))
        BY <4>1 DEF Rising
      <4> QED BY <1>4, <4>1, <4>2 DEF Flow, Ordered
    <3> QED BY <3>1, <3>2
  <2> QED BY <2>1 DEF Ordered
<1>9. Routed'
  <2>1. ASSUME NEW u \in Viewers, NEW s \in Streams, NEW p \in Holds(u, s)', p.dts = made PROVE p = packet /\ Visited(u)'
    <3>1. CASE u = w
      <4>1. p \in Holds(w, s) => p = packet
        BY <1>4, <2>1 DEF Flow, Routed
      <4> QED BY <1>3, <1>6, <2>1, <3>1, <4>1
    <3>2. CASE u # w
      BY <1>4, <1>5, <1>6, <2>1, <3>2 DEF Flow, Routed
    <3> QED BY <3>1, <3>2
  <2>2. ASSUME NEW u \in Viewers, NEW s \in Streams, Visited(u)', s = packet.stream PROVE packet \in Holds(u, s)'
    <3>1. CASE u = w
      BY <1>3, <2>2, <3>1
    <3>2. CASE u # w
      BY <1>4, <1>5, <1>6, <2>2, <3>2 DEF Flow, Routed
    <3> QED BY <3>1, <3>2
  <2> QED BY <1>4, <1>6, <2>1, <2>2 DEF Routed
<1>10. Shared'
  <2>1. ASSUME NEW u \in Viewers, NEW v \in Viewers, NEW s \in Streams, NEW p \in Holds(u, s)', NEW q \in Holds(v, s)',
               q.dts <= p.dts
        PROVE  \/ p \in Holds(v, s)' \/ (Pending(v)' /\ p = packet)
               \/ (~Linked(v) /\ \A r \in Holds(v, s)' : r.dts < p.dts)
    <3>1. CASE v # w /\ p \in Holds(u, s)
      BY <1>2, <1>5, <2>1, <3>1 DEF Flow, Shared
    <3>2. CASE v # w /\ p \notin Holds(u, s)
      <4>1. p = packet /\ s = packet.stream
        BY <1>3, <1>5, <3>2
      <4>2. CASE Pending(v)
        BY <1>2, <3>2, <4>1, <4>2
      <4>3. CASE ~Pending(v) /\ Linked(v)
        BY <1>4, <1>5, <3>2, <4>1, <4>3 DEF Flow, Routed, Visited
      <4>4. CASE ~Linked(v)
        <5>1. ASSUME NEW r \in Holds(v, s) PROVE r.dts < p.dts
          <6>1. r.dts # made /\ r.dts <= made /\ p.dts = made
            BY <1>4, <1>6, <4>1, <4>4 DEF Flow, Routed, Ordered, Visited
          <6>2. r.dts \in Nat
            <7>1. Has(v, s) \in Seq(Packets)
              BY HasSeq DEF Typed
            <7>2. r \in Packets
              BY <7>1 DEF Holds, Elems
            <7> QED BY <7>2 DEF Packets
          <6> QED BY <1>4, <6>1, <6>2
        <5> QED BY <1>5, <3>2, <4>4, <5>1
      <4> QED BY <4>2, <4>3, <4>4
    <3>3. CASE v = w /\ u = w
      BY <3>3
    <3>4. CASE v = w /\ u # w
      <4>1. p \in Holds(u, s) /\ p.stream = s /\ p.dts <= made
        BY <1>5, <3>4 DEF Flow, Ordered
      <4>2. p = packet => p \in Holds(w, s)'
        BY <1>3, <4>1
      <4>3. CASE q \in Holds(w, s)
        <5>1. p \in Holds(w, s) \/ p = packet
          BY <1>2, <2>1, <4>1, <4>3 DEF Flow, Shared
        <5> QED BY <1>3, <2>1, <3>4, <4>2, <5>1
      <4>4. CASE q = packet
        <5>1. p.dts = made
          <6>1. p.dts \in Nat
            <7>1. Has(u, s) \in Seq(Packets)
              BY HasSeq DEF Typed
            <7>2. p \in Packets
              BY <4>1, <7>1 DEF Holds, Elems
            <7> QED BY <7>2 DEF Packets
          <6> QED BY <1>4, <1>6, <2>1, <4>1, <4>4, <6>1
        <5>2. p = packet
          BY <1>4, <4>1, <5>1 DEF Flow, Routed
        <5> QED BY <3>4, <4>2, <5>2
      <4> QED BY <1>3, <3>4, <4>3, <4>4
    <3> QED BY <3>1, <3>2, <3>3, <3>4
  <2> QED BY <1>4, <2>1 DEF Shared
<1> QED BY <1>7, <1>8, <1>9, <1>10 DEF Flow
(* All other steps leave what the viewers have as it is: the source makes   *)
(* the packet that everybody linked is about to be sent, and a viewer comes *)
(* or goes while nothing is routed.                                         *)
LEMMA FlowKept == ASSUME Typed, Routes, Flow, Next PROVE Flow'
<1>1. CASE RouteNext
  BY <1>1, FlowRouted
<1>2. CASE ~RouteNext
  <2>0. PcTypes /\ HeldTypes /\ Guarded /\ StreamTypes /\ Unsent /\ made \in Nat /\ Source \in Threads
    BY Actors DEF Typed, StreamTypes
  <2>1. bSync' = bSync /\ \A u \in Viewers, s \in Streams : Has(u, s)' = Has(u, s)
    BY <1>2, <2>0, HasKept
  <2>2. \A u \in Viewers, s \in Streams : Holds(u, s)' = Holds(u, s)
    BY <2>1 DEF Holds
  <2>3. \A u \in Viewers, s \in Streams : \A p \in Holds(u, s) : p.dts \in Nat /\ p.dts <= made
    <3>1. \A u \in Viewers, s \in Streams : Has(u, s) \in Seq(Packets)
      BY <2>0, HasSeq
    <3>2. \A a \in Seq(Packets) : \A p \in Elems(a) : p.dts \in Nat
      <4>1. \A a \in Seq(Packets) : \A p \in Elems(a) : p \in Packets
        BY DEF Elems
      <4>2. \A p \in Packets : p.dts \in Nat
        BY DEF Packets
      <4> QED BY <4>1, <4>2
    <3> QED BY <3>1, <3>2 DEF Holds, Flow, Ordered
  <2>4. ASSUME made' \in Nat, made <= made' PROVE Ordered'
    <3>1. ASSUME NEW u \in Viewers, NEW s \in Streams
          PROVE  /\ \A p \in Holds(u, s)' : p.stream = s /\ p.dts <= made'
                 /\ Rising(Has(u, s))'
                 /\ bSync'[u] => Has(u, s)' # <<>> /\ Has(u, s)'[1].key
      <4>1. Has(u, s)' = Has(u, s) /\ bSync'[u] = bSync[u] /\ Holds(u, s)' = Holds(u, s)
        BY <2>1, <2>2
      <4>2. Rising(Has(u, s))' <=> Rising(Has(u, s))
        BY <4>1 DEF Rising
      <4>3. \A p \in Holds(u, s) : p.stream = s /\ p.dts <= made'
        <5>1. \A p \in Holds(u, s) : p.dts \in Nat /\ p.dts <= made /\ p.stream = s
          BY <2>3 DEF Flow, Ordered
        <5> QED BY <2>0, <2>4, <5>1
      <4> QED BY <4>1, <4>2, <4>3 DEF Flow, Ordered
    <3> QED BY <3>1 DEF Ordered
  <2>5. CASE SourceSteps
    <3>1. vRouting' = vRouting /\ \A u \in Viewers : Linked(u)' <=> Linked(u)
      BY <2>5 DEF SourceSteps, BeginProcess, CheckNext, DoStep, RouteNext, EndRoute, EndProcess, Linked
    <3>2. \A u \in Viewers : pc'[u] = pc[u]
      <4>1. pc' = pc \/ \E l : pc' = [pc EXCEPT ![Source] = l]
        BY <2>5 DEF SourceSteps, BeginProcess, CheckNext, DoStep, RouteNext, EndRoute, EndProcess, Goto
      <4> QED BY <2>0, <4>1, Actors DEF PcTypes
    <3>3. Begun'
      BY <2>1, <3>2 DEF Flow, Begun
    <3>4. CASE DoStep
      <4>1. /\ pc[Source] = "check" /\ pc'[Source] = "route" /\ made' = made + 1 /\ packet'.dts = made + 1
            /\ todo'[Source] = vRouting
        BY <2>0, <3>4 DEF DoStep, Goto, PcTypes, HeldTypes
      <4>2. Ordered'
        BY <2>0, <2>4, <4>1
      <4>3. \A u \in Viewers : ~Visited(u)' /\ ~Pending(u)
        BY <4>1, <3>1 DEF Visited, Pending, Linked
      <4>4. \A u \in Viewers, s \in Streams : \A p \in Holds(u, s) : p.dts # made'
        <5>1. ASSUME NEW u \in Viewers, NEW s \in Streams, NEW p \in Holds(u, s) PROVE p.dts # made'
          <6>1. p.dts \in Nat /\ p.dts <= made
            BY <2>3
          <6> QED BY <2>0, <4>1, <6>1
        <5> QED BY <5>1
      <4>5. Routed'
        BY <2>2, <4>1, <4>3, <4>4 DEF Routed
      <4>6. Shared'
        BY <2>2, <3>1, <4>3 DEF Flow, Shared
      <4> QED BY <3>3, <4>2, <4>5, <4>6 DEF Flow
    <3>5. CASE ~DoStep
      <4>1. made' = made /\ pc'[Source] # "route" /\ (pc[Source] = "route" => todo[Source] = <<>>)
        BY <1>2, <2>0, <2>5, <3>5 DEF SourceSteps, BeginProcess, CheckNext, EndRoute, EndProcess,
           Goto, PcTypes
      <4>2. \A u \in Viewers : ~Pending(u)
        <5>1. \A x : ~In(x, <<>>)
          BY EmptySeq DEF In
        <5> QED BY <4>1, <5>1 DEF Pending
      <4>3. Ordered' /\ Routed'
        BY <2>0, <2>4, <4>1 DEF Routed
      <4>4. Shared'
        BY <2>2, <3>1, <4>2 DEF Flow, Shared
      <4> QED BY <3>3, <4>3, <4>4 DEF Flow
    <3> QED BY <3>4, <3>5
  <2>6. ASSUME NEW v \in Viewers, ViewerStep(v) PROVE Flow'
    <3>1. /\ pc'[Source] = pc[Source] /\ todo'[Source] = todo[Source] /\ packet' = packet /\ made' = made
          /\ \A u \in Viewers \ {v} : pc'[u] = pc[u]
      BY <2>0, <2>6, SourceUntouched
    <3>2. Ordered' /\ \A u \in Viewers : Pending(u)' <=> Pending(u)
      BY <2>0, <2>4, <3>1 DEF Pending
    <3>3. pc'[v] # "closed"
      BY <2>0, <2>6, Actors DEF ViewerStep, Open, CreateBuffer, BeginFind, WalkNext, EndFind, Feed,
         Unlink, Delete, Goto, PcTypes
    <3>4. Begun'
      BY <2>1, <3>1, <3>3 DEF Flow, Begun
    <3>5. CASE Open(v)
      <4>1. pc[v] = "closed" /\ vRouting' = Append(vRouting, v) /\ vRouting \in Seq(Viewers) /\ pc[Source] # "route"
        BY <2>0, <3>5, NotRouting DEF Open, Goto, Typed, LinkTypes
      <4>2. \A u \in Viewers \ {v} : Linked(u)' <=> Linked(u)
        BY <4>1, AppendIn DEF Linked
      <4>3. \A s \in Streams : Holds(v, s) = {}
        <5>1. Elems(<<>>) = {}
          BY EmptySeq DEF Elems
        <5> QED BY <4>1, <5>1 DEF Flow, Begun, Holds
      <4>4. Routed'
        BY <3>1, <4>1 DEF Routed
      <4>5. Shared'
        BY <2>2, <3>1, <3>2, <4>2, <4>3 DEF Flow, Shared
      <4> QED BY <3>2, <3>4, <4>4, <4>5 DEF Flow
    <3>6. CASE Unlink(v)
      <4>1. pc[v] = "playing" /\ pc[Source] # "route"
        BY <2>0, <3>6, NotRouting DEF Unlink, Goto
      <4>2. PICK i \in DOMAIN vRouting : vRouting[i] = v /\ vRouting' = Dropped(vRouting, i)
        BY <3>6 DEF Unlink
      <4>3. \A u \in Viewers \ {v} : Linked(u)' <=> Linked(u)
        BY <4>2, DroppedIn DEF Linked, Routes, Typed, LinkTypes
      <4>4. Linked(v) /\ \A u \in Viewers : ~Pending(u)
        BY <4>1 DEF Routes, Pending
      <4>5. Routed'
        BY <3>1, <4>1 DEF Routed
      <4>6. Shared'
        BY <2>2, <3>1, <3>2, <4>3, <4>4 DEF Flow, Shared
      <4> QED BY <3>2, <3>4, <4>5, <4>6 DEF Flow
    <3>7. CASE ~Open(v) /\ ~Unlink(v)
      <4>1. \A u \in Viewers : Linked(u)' <=> Linked(u)
        BY <2>6, <3>7 DEF ViewerStep, CreateBuffer, BeginFind, WalkNext, EndFind, Feed, Delete, Linked
      <4>2. \A u \in Viewers : Visited(u)' <=> Visited(u)
        BY <3>1, <3>2, <4>1 DEF Visited
      <4>3. Routed'
        BY <2>2, <3>1, <4>2 DEF Flow, Routed
      <4>4. Shared'
        BY <2>2, <3>1, <3>2, <4>1 DEF Flow, Shared
      <4> QED BY <3>2, <3>4, <4>3, <4>4 DEF Flow
    <3> QED BY <3>5, <3>6, <3>7
  <2> QED BY <2>5, <2>6, Steps
<1> QED BY <1>1, <1>2
(* From the start on.                                                       *)
LEMMA FlowAlways == Spec => [](Typed /\ Routes /\ Flow)
<1>1. Init => Flow
  <2> SUFFICES ASSUME Init PROVE Flow
    OBVIOUS
  <2>1. /\ pc[Source] = "idle" /\ Elems(<<>>) = {} /\ Rising(<<>>)
        /\ \A v \in Viewers, s \in Streams : ~bSync[v] /\ Has(v, s) = <<>>
    BY EmptySeq, Actors DEF Init, Has, Nothing, Elems, Rising
  <2>2. \A v \in Viewers, s \in Streams : Holds(v, s) = {}
    BY <2>1 DEF Holds
  <2>3. \A v \in Viewers : ~bSync[v]
    BY DEF Init
  <2> QED BY <2>1, <2>2, <2>3 DEF Flow, Begun, Ordered, Routed, Shared
<1>2. Typed /\ Routes /\ Flow /\ [Next]_vars => Flow'
  <2> SUFFICES ASSUME Typed, Routes, Flow, [Next]_vars PROVE Flow'
    OBVIOUS
  <2>1. CASE Next
    BY <2>1, FlowKept
  <2>2. CASE UNCHANGED vars
    <3>1. /\ pc' = pc /\ todo' = todo /\ packet' = packet /\ made' = made /\ vRouting' = vRouting /\ bSync' = bSync
          /\ dStreams' = dStreams /\ vQueue' = vQueue /\ buffer' = buffer
      BY <2>2 DEF vars, live
    <3>2. \A u \in Viewers, s \in Streams : Has(u, s)' = Has(u, s)
      BY <3>1 DEF Has, Sent
    <3>3. \A u \in Viewers, s \in Streams : Holds(u, s)' = Holds(u, s) /\ (Rising(Has(u, s))' <=> Rising(Has(u, s)))
      BY <3>2 DEF Holds, Rising
    <3>4. \A u \in Viewers : (Linked(u)' <=> Linked(u)) /\ (Pending(u)' <=> Pending(u)) /\ (Visited(u)' <=> Visited(u))
      BY <3>1 DEF Linked, Pending, Visited
    <3>5. Begun' /\ Ordered'
      BY <3>1, <3>2, <3>3 DEF Flow, Begun, Ordered
    <3>6. Routed'
      BY <3>1, <3>3, <3>4 DEF Flow, Routed
    <3>7. Shared'
      BY <3>1, <3>3, <3>4 DEF Flow, Shared
    <3> QED BY <3>5, <3>6, <3>7 DEF Flow
  <2> QED BY <2>1, <2>2
<1> QED BY <1>1, <1>2, RoutesAlways, PTL DEF Spec

(* What a viewer is sent, it has; and it is sent nothing before it is       *)
(* synchronised.                                                            *)
LEMMA SentHas ==
  ASSUME Unsent, NEW v \in Viewers, NEW s \in Streams
  PROVE  /\ bSync[v] => Sent(v, s) = Has(v, s)
         /\ ~bSync[v] => Sent(v, s) = <<>>
<1>1. ASSUME ~bSync[v] PROVE Sent(v, s) = <<>>
  <2>1. buffer[v][s] = <<>> /\ vQueue[v][s] = <<>>
    BY <1>1 DEF Unsent, Nothing
  <2>2. <<>> \o <<>> = <<>>
    BY EmptySeq, ConcatEmptySeq
  <2> QED BY <2>1, <2>2 DEF Sent
<1> QED BY <1>1 DEF Has

(* What a viewer is sent of a stream begins with a key frame, whenever it   *)
(* comes.                                                                   *)
THEOREM BeginsWithKey == Spec => []StartsAtKey
<1>1. Typed /\ Flow => StartsAtKey
  BY SentHas DEF Typed, Flow, Ordered, StartsAtKey
<1> QED BY <1>1, FlowAlways, PTL

(* No packet of a stream is sent to a viewer twice or out of order.         *)
THEOREM NoneTwice == Spec => []RisingPerStream
<1>1. Typed /\ Flow => RisingPerStream
  <2> SUFFICES ASSUME Typed, Flow, NEW v \in Viewers, NEW s \in Streams PROVE Rising(Sent(v, s))
    BY DEF RisingPerStream, Rising
  <2>1. Rising(<<>>)
    BY EmptySeq DEF Rising
  <2> QED BY <2>1, SentHas DEF Typed, Flow, Ordered
<1> QED BY <1>1, FlowAlways, PTL

(* Between the first and the last packet that a viewer is sent of a stream, *)
(* nothing is missing that another one is sent: viewers come while the      *)
(* source runs, and the store of a late one is cut at its last key frame.   *)
THEOREM AllSeeTheSame == Spec => []SameForAll
<1>1. Typed /\ Routes /\ Flow => SameForAll
  <2> SUFFICES ASSUME Typed, Routes, Flow, NEW u \in Viewers, NEW v \in Viewers, NEW s \in Streams,
                      NEW i \in DOMAIN Sent(u, s), NEW j \in DOMAIN Sent(v, s), NEW k \in DOMAIN Sent(v, s),
                      Sent(v, s)[j].dts <= Sent(u, s)[i].dts, Sent(u, s)[i].dts <= Sent(v, s)[k].dts
               PROVE  \E m \in DOMAIN Sent(v, s) : Sent(v, s)[m] = Sent(u, s)[i]
    BY DEF SameForAll
  <2> DEFINE p == Sent(u, s)[i]
             r == Sent(v, s)[k]
  <2>1. Sent(u, s) = Has(u, s) /\ Sent(v, s) = Has(v, s)
    <3>1. DOMAIN <<>> = {}
      BY EmptySeq
    <3> QED BY <3>1, SentHas DEF Typed
  <2>2. p \in Holds(u, s) /\ r \in Holds(v, s) /\ Sent(v, s)[j] \in Holds(v, s)
    BY <2>1 DEF Holds, Elems
  <2>3. p.dts \in Nat /\ r.dts \in Nat /\ made \in Nat
    <3>1. Has(u, s) \in Seq(Packets) /\ Has(v, s) \in Seq(Packets)
      BY HasSeq DEF Typed
    <3>2. p \in Packets /\ r \in Packets
      BY <2>2, <3>1 DEF Holds, Elems
    <3> QED BY <3>2 DEF Packets, Typed, StreamTypes
  <2> HIDE DEF p, r
  <2>4. p.dts <= r.dts /\ r.dts <= made
    BY <2>2 DEF p, r, Flow, Ordered
  <2>5. p \in Holds(v, s) \/ (Pending(v) /\ p = packet) \/ (~Linked(v) /\ \A x \in Holds(v, s) : x.dts < p.dts)
    BY <2>2 DEF p, Flow, Shared
  <2>6. ~(Pending(v) /\ p = packet)
    <3> SUFFICES ASSUME Pending(v), p = packet PROVE FALSE
      OBVIOUS
    <3>1. pc[Source] = "route" /\ ~Visited(v)
      BY DEF Pending, Visited
    <3>2. packet.dts = made /\ r.dts # made
      BY <2>2, <3>1 DEF Flow, Routed
    <3> QED BY <2>3, <2>4, <3>2
  <2>7. ~(\A x \in Holds(v, s) : x.dts < p.dts)
    BY <2>2, <2>3, <2>4
  <2>8. p \in Holds(v, s)
    BY <2>5, <2>6, <2>7
  <2> QED BY <2>1, <2>8 DEF p, Holds, Elems
<1> QED BY <1>1, FlowAlways, PTL
=============================================================================

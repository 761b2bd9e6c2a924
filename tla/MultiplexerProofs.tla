-------------------------- MODULE MultiplexerProofs --------------------------
(***************************************************************************)
(* Proofs about Multiplexer, for any number of streams, any control        *)
(* packets and any order of arrival: that a multiplexer which knows how    *)
(* many streams there are keeps the promise of MergedStreams; and about    *)
(* Segmenter, for any file and any number of loops: that all that was read *)
(* is written, each stream in its order, that the multiplexer throws only  *)
(* if a stream has a step that is too wide, and that segments begin clean  *)
(* where a group of pictures fits in a segment.                            *)
(***************************************************************************)
EXTENDS Multiplexer, Segmenter, SequenceTheorems, FiniteSetTheorems, WellFoundedInduction, TLAPS

(* A set of natural numbers has a least element. *)
LEMMA LeastNat ==
  ASSUME NEW T \in SUBSET Nat, T # {}
  PROVE  \E n \in T : \A m \in T : n <= m
<1>1. PICK x \in T : \A y \in T : ~ (<<y, x>> \in OpToRel(<, Nat))
  BY WFMin, NatLessThanWellFounded, Zenon
<1>2. \A y \in T : ~ (y < x)
  BY <1>1 DEF OpToRel
<1> QED
  BY <1>2

(* Among finitely many there is one with the greatest number. *)
LEMMA Greatest ==
  ASSUME NEW S, IsFiniteSet(S), S # {}, NEW f \in [S -> Nat]
  PROVE  \E x \in S : \A y \in S : f[y] <= f[x]
<1> DEFINE Best(E) == \E x \in E : \A y \in E : f[y] <= f[x]
           Bad == {n \in Nat : \E E \in SUBSET S : E # {} /\ Cardinality(E) = n /\ ~Best(E)}
<1>0. \A E \in SUBSET S : IsFiniteSet(E) /\ Cardinality(E) \in Nat
  BY FS_Subset, FS_CardinalityType
<1>1. SUFFICES ASSUME ~Best(S) PROVE FALSE
  OBVIOUS
<1>2. Cardinality(S) \in Bad /\ Bad \in SUBSET Nat
  BY <1>0, <1>1
<1>3. PICK n \in Bad : \A m \in Bad : n <= m
  <2> HIDE DEF Bad
  <2> QED
    BY <1>2, LeastNat
<1>4. PICK E \in SUBSET S : E # {} /\ Cardinality(E) = n /\ ~Best(E)
  BY <1>3
<1>5. PICK a \in E : TRUE
  BY <1>4
<1> DEFINE F == E \ {a}
<1>6. Cardinality(F) = n - 1 /\ F \in SUBSET S /\ n \in Nat /\ n - 1 \in Nat
  <2>1. Cardinality(F) = Cardinality(E) - 1 /\ F \in SUBSET S
    BY <1>0, <1>5, FS_RemoveElement
  <2>2. Cardinality(F) \in Nat
    BY <1>0, <2>1
  <2> QED
    BY <1>3, <1>4, <2>1, <2>2
<1>7. CASE F = {}
  <2>1. \A y \in E : y = a
    BY <1>7
  <2>2. \A y \in E : f[y] <= f[a]
    BY <1>5, <2>1
  <2> QED
    BY <1>4, <1>5, <2>2
<1>8. CASE F # {}
  <2>1. Best(F)
    <3>1. ASSUME ~Best(F) PROVE n - 1 \in Bad
      BY <1>6, <1>8, <3>1
    <3>2. ~ (n - 1 \in Bad)
      BY <1>3, <1>6
    <3> QED
      BY <3>1, <3>2
  <2>2. PICK b \in F : \A y \in F : f[y] <= f[b]
    BY <2>1
  <2>3. f[a] \in Nat /\ \A y \in E : f[y] \in Nat /\ (y = a \/ y \in F)
    BY <1>4, <1>5
  <2>4. CASE f[a] <= f[b]
    BY <1>4, <2>2, <2>3, <2>4
  <2>5. CASE ~ (f[a] <= f[b])
    <3>1. \A y \in E : f[y] <= f[a]
      <4> TAKE y \in E
      <4>1. f[y] \in Nat /\ f[b] \in Nat /\ f[a] \in Nat
        BY <2>3
      <4>2. y = a \/ f[y] <= f[b]
        BY <2>2, <2>3
      <4> QED
        BY <2>5, <4>1, <4>2
    <3> QED
      BY <1>4, <1>5, <3>1
  <2> QED
    BY <2>4, <2>5
<1> QED
  BY <1>7, <1>8

-----------------------------------------------------------------------------
(* The end of a sequence, from which a queue takes and to which it adds. *)
Ending(h, q) == \E n \in 0..Len(q) : h = SubSeq(q, n + 1, Len(q))

(* What is added to both stays at the end of both. *)
LEMMA EndingAppend ==
  ASSUME NEW S, NEW q \in Seq(S), NEW h \in Seq(S), NEW p \in S, Ending(h, q)
  PROVE  Ending(Append(h, p), Append(q, p))
<1>1. PICK n \in 0..Len(q) : h = SubSeq(q, n + 1, Len(q))
  BY DEF Ending
<1>2. Len(q) \in Nat /\ n \in Nat /\ n <= Len(q) /\ \A i \in n + 1..Len(q) : q[i] \in S
  BY LenProperties, ElementOfSeq
<1>3. Len(h) = Len(q) - n /\ \A i \in 1..Len(q) - n : h[i] = q[n + i]
  BY <1>1, <1>2, SubSeqProperties
<1> DEFINE r == Append(q, p)
           t == SubSeq(r, n + 1, Len(r))
<1>4. r \in Seq(S) /\ Len(r) = Len(q) + 1 /\ r[Len(q) + 1] = p /\ \A i \in 1..Len(q) : r[i] = q[i]
  BY AppendProperties
<1> HIDE DEF r
<1>5. \A i \in n + 1..Len(r) : r[i] \in S
  BY <1>2, <1>4, ElementOfSeq
<1>6. t \in Seq(S) /\ Len(t) = Len(q) + 1 - n /\ \A i \in 1..Len(q) + 1 - n : t[i] = r[n + i]
  BY <1>2, <1>4, <1>5, SubSeqProperties
<1> HIDE DEF t
<1>7. /\ Append(h, p) \in Seq(S) /\ Len(Append(h, p)) = Len(q) - n + 1
      /\ Append(h, p)[Len(q) - n + 1] = p /\ \A i \in 1..Len(q) - n : Append(h, p)[i] = h[i]
  BY <1>3, AppendProperties
<1>8. \A i \in 1..Len(t) : t[i] = Append(h, p)[i]
  <2> TAKE i \in 1..Len(t)
  <2>0. i \in Nat /\ 1 <= i /\ i <= Len(q) + 1 - n
    BY <1>2, <1>6
  <2>1. CASE i = Len(q) + 1 - n
    <3>1. n + i = Len(q) + 1 /\ i = Len(q) - n + 1
      BY <1>2, <2>1
    <3>2. t[i] = r[Len(q) + 1]
      BY <1>6, <2>0, <3>1
    <3> QED
      BY <1>4, <1>7, <3>1, <3>2
  <2>2. CASE i \in 1..Len(q) - n
    <3>1. n + i \in 1..Len(q)
      BY <1>2, <2>2
    <3> QED
      BY <1>2, <1>3, <1>4, <1>6, <1>7, <2>2, <3>1
  <2>3. i = Len(q) + 1 - n \/ i \in 1..Len(q) - n
    BY <1>2, <2>0
  <2> QED
    BY <2>1, <2>2, <2>3
<1>9. Len(t) = Len(Append(h, p))
  BY <1>2, <1>6, <1>7
<1>10. t = Append(h, p)
  BY <1>6, <1>7, <1>8, <1>9, SeqEqual
<1>11. n \in 0..Len(r)
  BY <1>2, <1>4
<1> QED
  BY <1>10, <1>11 DEF Ending, r, t

(* What is taken off the front, or all of it, leaves the end. *)
LEMMA EndingTail ==
  ASSUME NEW S, NEW q \in Seq(S), NEW h \in Seq(S), h # <<>>, Ending(h, q)
  PROVE  Ending(Tail(h), q)
<1>1. PICK n \in 0..Len(q) : h = SubSeq(q, n + 1, Len(q))
  BY DEF Ending
<1>2. Len(q) \in Nat /\ n \in Nat /\ n <= Len(q) /\ \A i \in n + 1..Len(q) : q[i] \in S
  BY LenProperties, ElementOfSeq
<1>3. Len(h) = Len(q) - n /\ \A i \in 1..Len(q) - n : h[i] = q[n + i]
  BY <1>1, <1>2, SubSeqProperties
<1>4. /\ Tail(h) \in Seq(S) /\ Len(Tail(h)) = Len(h) - 1 /\ Len(h) \in Nat \ {0}
      /\ \A i \in 1..Len(Tail(h)) : Tail(h)[i] = h[i + 1]
  BY HeadTailProperties, EmptySeq
<1> DEFINE t == SubSeq(q, (n + 1) + 1, Len(q))
<1>5. t \in Seq(S) /\ Len(t) = Len(q) - n - 1 /\ \A i \in 1..Len(q) - n - 1 : t[i] = q[n + 1 + i]
  BY <1>2, <1>3, <1>4, SubSeqProperties
<1> HIDE DEF t
<1>6. Len(t) = Len(Tail(h)) /\ \A i \in 1..Len(t) : t[i] = Tail(h)[i]
  <2>1. Len(t) = Len(Tail(h))
    BY <1>3, <1>4, <1>5
  <2> SUFFICES ASSUME NEW i \in 1..Len(t) PROVE t[i] = Tail(h)[i]
    BY <2>1
  <2>2. i \in Nat /\ i + 1 \in 1..Len(q) - n /\ n + 1 + i = n + (i + 1) /\ i \in 1..Len(q) - n - 1
    BY <1>2, <1>5
  <2>3. t[i] = q[n + (i + 1)]
    BY <1>5, <2>2
  <2>4. Tail(h)[i] = h[i + 1]
    BY <1>4, <2>1
  <2> QED
    BY <1>3, <2>2, <2>3, <2>4
<1>7. t = Tail(h)
  BY <1>4, <1>5, <1>6, SeqEqual
<1>8. n + 1 \in 0..Len(q)
  BY <1>2, <1>3, <1>4
<1> QED
  BY <1>7, <1>8 DEF Ending, t

(* An empty queue is the end of anything. *)
LEMMA EndingEmpty ==
  ASSUME NEW S, NEW q \in Seq(S)
  PROVE  Ending(<<>>, q)
<1>1. Len(q) \in Nat /\ SubSeq(q, Len(q) + 1, Len(q)) = <<>>
  BY LenProperties, SubSeqEmpty
<1> QED
  BY <1>1 DEF Ending

-----------------------------------------------------------------------------
(* The packets of a stream: their numbers, and how many are control packets. *)
LEMMA Arrivals ==
  ASSUME TypeOK, NEW s \in Streams
  PROVE  /\ sent[s] \in Seq(Packets) /\ LastUnit(s) + 1 \in Nat
         /\ Controls(s) \in Nat
         /\ s \in DOMAIN mux => mux[s] \in Seq(Packets)
         /\ Held(mux, s) \in Seq(Packets)
<1>1. /\ sent[s] \in Seq(Packets) /\ (s \in DOMAIN mux => mux[s] \in Seq(Packets))
      /\ Held(mux, s) \in Seq(Packets)
  <2>1. sent \in [Streams -> Seq(Packets)] /\ mux \in [DOMAIN mux -> Seq(Packets)]
    BY DEF TypeOK
  <2>2. <<>> \in Seq(Packets)
    BY EmptySeq
  <2> QED
    BY <2>1, <2>2 DEF Held
<1>2. LastUnit(s) + 1 \in Nat
  <2>1. CASE sent[s] = <<>>
    BY <2>1 DEF LastUnit
  <2>2. CASE sent[s] # <<>>
    <3>1. Len(sent[s]) \in 1..Len(sent[s])
      BY <1>1, <2>2, EmptySeq
    <3>2. Last(sent[s]) \in Packets
      BY <1>1, <3>1, ElementOfSeq DEF Last
    <3>3. Last(sent[s]).unit \in Nat
      BY <3>2 DEF Packets
    <3> QED
      BY <2>2, <3>3 DEF LastUnit
  <2> QED
    BY <2>1, <2>2
<1>3. Controls(s) \in Nat
  <2> DEFINE C == {i \in DOMAIN sent[s] : Control(sent[s][i])}
  <2>1. Len(sent[s]) \in Nat /\ C \in SUBSET (1..Len(sent[s]))
    BY <1>1, LenProperties
  <2>2. IsFiniteSet(1..Len(sent[s]))
    <3>1. 1 \in Int /\ Len(sent[s]) \in Int
      BY <2>1
    <3> QED
      BY ONLY <3>1, FS_Interval
  <2>3. IsFiniteSet(C)
    BY <2>1, <2>2, FS_Subset
  <2> QED
    BY <2>3, FS_CardinalityType DEF Controls
<1> QED
  BY <1>1, <1>2, <1>3

(* The frame of a unit is a number. *)
LEMMA Division ==
  ASSUME NEW u \in Nat, NEW d \in Nat \ {0}
  PROVE  u \div d \in Nat
  OBVIOUS

(* A packet has a time, and a key that its class compares. *)
LEMMA PacketType ==
  ASSUME TypeOK, NEW s \in Streams, NEW type \in {"media", "reset", "end"}, NEW u \in Nat
  PROVE  Packet(s, type, u) \in Packets /\ Packet(s, type, u).type = type
<1>1. u \div PerFrame \in Nat
  BY StreamAssumption, Division
<1>2. Controls(s) + 1 \in Nat
  BY Arrivals
<1>3. (IF kind = "unit" THEN u ELSE u \div PerFrame) \in Nat
  BY <1>1
<1> QED
  BY <1>1, <1>2, <1>3 DEF Packet, Packets

(* An arrival adds to the queue of its stream, and its control packets are counted. *)
LEMMA ReceiveType ==
  ASSUME TypeOK, NEW s \in Streams, NEW p \in Packets, Receive(s, p)
  PROVE  /\ TypeOK'
         /\ Held(mux', s) = Append(Held(mux, s), p) /\ s \in DOMAIN mux'
         /\ sent'[s] = Append(sent[s], p)
         /\ \A t \in Streams \ {s} : /\ Held(mux', t) = Held(mux, t) /\ sent'[t] = sent[t]
                                     /\ t \in DOMAIN mux' <=> t \in DOMAIN mux
<1>1. /\ mux' = Received(mux, s, p) /\ sent' = [sent EXCEPT ![s] = Append(@, p)]
      /\ UNCHANGED <<kind, busy, merged>>
  BY DEF Receive
<1>2. \A t \in Streams : sent[t] \in Seq(Packets) /\ Held(mux, t) \in Seq(Packets)
  BY Arrivals
<1>3. /\ DOMAIN mux \subseteq Streams /\ mux \in [DOMAIN mux -> Seq(Packets)]
      /\ sent \in [Streams -> Seq(Packets)]
      /\ \A t \in Streams : Ending(Held(mux, t), sent[t])
  BY DEF TypeOK, Ending
<1>4. sent'[s] = Append(sent[s], p) /\ \A t \in Streams \ {s} : sent'[t] = sent[t]
  BY <1>1, <1>3
<1>5. /\ DOMAIN mux' = DOMAIN mux \cup {s} /\ mux'[s] = Append(Held(mux, s), p)
      /\ \A t \in DOMAIN mux \ {s} : mux'[t] = mux[t]
  BY <1>1 DEF Received
<1>6. Append(Held(mux, s), p) \in Seq(Packets) /\ Append(sent[s], p) \in Seq(Packets)
  BY <1>2, AppendProperties
<1>7. mux' \in [DOMAIN mux' -> Seq(Packets)]
  <2>1. \A t \in DOMAIN mux \cup {s} : (IF t = s THEN Append(Held(mux, s), p) ELSE mux[t]) \in Seq(Packets)
    BY <1>3, <1>6
  <2> QED
    BY <1>1, <1>5, <2>1 DEF Received
<1>8. sent' \in [Streams -> Seq(Packets)]
  BY <1>1, <1>3, <1>6
<1>9. Held(mux', s) = Append(Held(mux, s), p) /\ \A t \in Streams \ {s} : Held(mux', t) = Held(mux, t)
  BY <1>5 DEF Held
<1>10. \A t \in Streams : Ending(Held(mux', t), sent'[t])
  <2> TAKE t \in Streams
  <2>1. CASE t = s
    <3>1. Ending(Append(Held(mux, s), p), Append(sent[s], p))
      BY <1>2, <1>3, EndingAppend
    <3> QED
      BY <1>4, <1>9, <2>1, <3>1
  <2>2. CASE t # s
    BY <1>3, <1>4, <1>9, <2>2
  <2> QED
    BY <2>1, <2>2
<1>11. TypeOK'
  <2>1. \A t \in Streams : \E n \in 0..Len(sent'[t]) : Held(mux', t) = SubSeq(sent'[t], n + 1, Len(sent'[t]))
    BY <1>10 DEF Ending
  <2>2. \A t \in Streams : \E n \in 0..Len(sent'[t]) : Held(mux, t)' = SubSeq(sent'[t], n + 1, Len(sent'[t]))
    BY <2>1 DEF Held
  <2> QED
    BY <1>1, <1>3, <1>5, <1>7, <1>8, <2>2 DEF TypeOK
<1> QED
  BY <1>4, <1>5, <1>9, <1>11

(* What leaves a queue leaves it at its front; a queue that goes is empty. *)
LEMMA TakenType ==
  ASSUME TypeOK, sent' = sent, kind' = kind, busy' \in BOOLEAN, merged' \in Seq(Packets),
         DOMAIN mux' \subseteq DOMAIN mux, mux' = [s \in DOMAIN mux' |-> mux'[s]],
         \A s \in DOMAIN mux' : mux'[s] = mux[s] \/ (mux[s] # <<>> /\ mux'[s] = Tail(mux[s]))
  PROVE  TypeOK'
<1>1. \A s \in Streams : /\ sent[s] \in Seq(Packets) /\ (s \in DOMAIN mux => mux[s] \in Seq(Packets))
                         /\ Held(mux, s) \in Seq(Packets)
  BY Arrivals
<1>2. /\ DOMAIN mux \subseteq Streams /\ sent \in [Streams -> Seq(Packets)] /\ kind \in {"std", "unit"}
      /\ \A s \in Streams : Ending(Held(mux, s), sent[s])
  BY DEF TypeOK, Ending
<1>3. \A s \in DOMAIN mux' : mux'[s] \in Seq(Packets)
  BY <1>1, <1>2, HeadTailProperties
<1>4. mux' \in [DOMAIN mux' -> Seq(Packets)]
  BY <1>3
<1>5. \A s \in Streams : Ending(Held(mux', s), sent[s])
  <2> TAKE s \in Streams
  <2>1. CASE s \notin DOMAIN mux'
    BY <1>1, <2>1, EndingEmpty DEF Held
  <2>2. CASE s \in DOMAIN mux' /\ mux'[s] = mux[s]
    BY <1>2, <2>2 DEF Held
  <2>3. CASE s \in DOMAIN mux' /\ mux[s] # <<>> /\ mux'[s] = Tail(mux[s])
    <3>1. Held(mux, s) = mux[s] /\ Held(mux', s) = Tail(mux[s])
      BY <2>3 DEF Held
    <3>2. Ending(Tail(mux[s]), sent[s])
      BY <1>1, <1>2, <2>3, <3>1, EndingTail
    <3> QED
      BY <3>1, <3>2
  <2> QED
    BY <2>1, <2>2, <2>3
<1>6. \A s \in Streams : \E n \in 0..Len(sent'[s]) : Held(mux, s)' = SubSeq(sent'[s], n + 1, Len(sent'[s]))
  BY <1>5 DEF Ending, Held
<1> QED
  BY <1>2, <1>4, <1>6 DEF TypeOK

-----------------------------------------------------------------------------
(* A stream that is in the table has sent something. *)
Begun == \A s \in DOMAIN mux : sent[s] # <<>>

(* The packet that arrives, as a step. *)
LEMMA ArriveIsReceive ==
  ASSUME TypeOK, NEW s \in Streams, Arrive(s)
  PROVE  \E p \in Packets : Receive(s, p) /\ p.type = "media" /\ ~Over(s)
<1>1. PICK u \in LastUnit(s) + 1 .. LastUnit(s) + Spread :
        ~Over(s) /\ Receive(s, Packet(s, "media", u))
  BY DEF Arrive
<1>2. u \in Nat
  BY Arrivals
<1> QED
  BY <1>1, <1>2, PacketType

(* The same of a control packet. *)
LEMMA ControlIsReceive ==
  ASSUME TypeOK, NEW s \in Streams, ArriveControl(s)
  PROVE  \E p \in Packets : Receive(s, p) /\ Control(p) /\ ~Over(s)
<1>1. PICK type \in {"reset", "end"} : ~Over(s) /\ Receive(s, Packet(s, type, LastUnit(s) + 1))
  BY DEF ArriveControl
<1>2. LastUnit(s) + 1 \in Nat
  BY Arrivals
<1>3. Packet(s, type, LastUnit(s) + 1) \in Packets /\ Packet(s, type, LastUnit(s) + 1).type = type
  BY <1>2, PacketType
<1> QED
  BY <1>1, <1>3 DEF Control

(* The stream that selectMux() takes has a packet in front, and the lowest  *)
(* key of those that have.                                                  *)
LEMMA LowestKey ==
  ASSUME NEW m, DOMAIN m \in SUBSET Nat, \A s \in MediaFirst(m) : Head(m[s]).key \in Nat
  PROVE  /\ SelectMux(m) = None => MediaFirst(m) = {}
         /\ SelectMux(m) # None =>
              /\ SelectMux(m) \in MediaFirst(m)
              /\ \A t \in MediaFirst(m) : Head(m[SelectMux(m)]).key <= Head(m[t]).key
<1> DEFINE key(s) == Head(m[s]).key
           lowest == {s \in MediaFirst(m) : \A t \in MediaFirst(m) : key(s) <= key(t)}
<1>1. SelectMux(m) = IF lowest = {} THEN None
                     ELSE CHOOSE s \in lowest : \A t \in lowest : s <= t
  BY DEF SelectMux
<1>2. lowest = {} => MediaFirst(m) = {}
  <2> SUFFICES ASSUME MediaFirst(m) # {} PROVE lowest # {}
    OBVIOUS
  <2> DEFINE K == {key(s) : s \in MediaFirst(m)}
  <2>1. K \in SUBSET Nat /\ K # {}
    OBVIOUS
  <2>2. PICK k \in K : \A n \in K : k <= n
    <3> HIDE DEF K
    <3> QED
      BY <2>1, LeastNat
  <2>3. PICK s \in MediaFirst(m) : k = key(s)
    BY <2>2
  <2>4. \A t \in MediaFirst(m) : key(s) <= key(t)
    BY <2>2, <2>3
  <2> QED
    BY <2>4
<1>3. CASE lowest = {}
  BY <1>1, <1>2, <1>3
<1>4. CASE lowest # {}
  <2>1. lowest \in SUBSET Nat
    BY DEF MediaFirst
  <2>2. PICK s \in lowest : \A t \in lowest : s <= t
    <3> HIDE DEF lowest
    <3> QED
      BY <1>4, <2>1, LeastNat
  <2>3. SelectMux(m) \in lowest
    BY <1>1, <1>4, <2>2
  <2>4. SelectMux(m) # None
    BY <2>1, <2>3 DEF None
  <2> QED
    BY <2>3, <2>4
<1> QED
  BY <1>3, <1>4

(* The unified control packet is one of those in front. *)
LEMMA OneOfHeads ==
  ASSUME NEW m, DOMAIN m \in SUBSET Nat, IsFiniteSet(DOMAIN m), DOMAIN m # {},
         \A s \in DOMAIN m : Head(m[s]).dts \in Nat
  PROVE  \E s \in DOMAIN m : UnifiedOf(m) = Head(m[s])
<1> DEFINE dts(s) == Head(m[s]).dts
           highest == {s \in DOMAIN m : \A t \in DOMAIN m : dts(t) <= dts(s)}
<1>1. highest # {}
  <2> DEFINE f == [s \in DOMAIN m |-> dts(s)]
  <2>1. f \in [DOMAIN m -> Nat]
    OBVIOUS
  <2>2. PICK x \in DOMAIN m : \A y \in DOMAIN m : f[y] <= f[x]
    <3> HIDE DEF f
    <3> QED
      BY <2>1, Greatest
  <2>3. \A y \in DOMAIN m : dts(y) <= dts(x)
    BY <2>2
  <2> QED
    BY <2>3
<1>2. \E s \in highest : \A t \in highest : t <= s
  <2> DEFINE g == [s \in highest |-> s]
  <2>1. g \in [highest -> Nat] /\ IsFiniteSet(highest)
    BY FS_Subset
  <2>2. PICK x \in highest : \A y \in highest : g[y] <= g[x]
    <3> HIDE DEF g, highest
    <3> QED
      BY <1>1, <2>1, Greatest
  <2> QED
    BY <2>2
<1>3. UnifiedOf(m) = Head(m[CHOOSE s \in highest : \A t \in highest : t <= s])
  BY DEF UnifiedOf
<1>4. (CHOOSE s \in highest : \A t \in highest : t <= s) \in highest
  BY <1>2
<1> QED
  BY <1>3, <1>4

(* A ready multiplexer has a packet of every stream it knows in front. *)
LEMMA ReadyHeads ==
  ASSUME TypeOK, CheckMux(mux)
  PROVE  /\ DOMAIN mux \in SUBSET Nat /\ DOMAIN mux # {} /\ IsFiniteSet(DOMAIN mux)
         /\ \A s \in DOMAIN mux : Head(mux[s]).key \in Nat /\ Head(mux[s]).dts \in Nat
<1>1. DOMAIN mux \subseteq Streams /\ DOMAIN mux # {}
  BY DEF TypeOK, CheckMux
<1>2. DOMAIN mux \in SUBSET Nat /\ IsFiniteSet(DOMAIN mux)
  BY <1>1, MuxAssumption, FS_Subset
<1>3. \A s \in DOMAIN mux : Head(mux[s]) \in Packets
  <2> TAKE s \in DOMAIN mux
  <2>1. s \in Streams /\ mux[s] \in Seq(Packets)
    BY <1>1, Arrivals
  <2>2. mux[s] # <<>>
    BY DEF CheckMux
  <2> QED
    BY <2>1, <2>2, HeadTailProperties
<1> QED
  BY <1>1, <1>2, <1>3 DEF Packets

(* Which packet a ready multiplexer takes. *)
LEMMA Selection ==
  ASSUME TypeOK, CheckMux(mux)
  PROVE  /\ SelectMux(mux) = None => \A s \in DOMAIN mux : Control(Head(mux[s]))
         /\ SelectMux(mux) # None =>
              /\ SelectMux(mux) \in DOMAIN mux /\ ~Control(Head(mux[SelectMux(mux)]))
              /\ \A t \in DOMAIN mux : ~Control(Head(mux[t])) =>
                   Head(mux[SelectMux(mux)]).key <= Head(mux[t]).key
  BY ReadyHeads, LowestKey DEF MediaFirst

(* The control packet by which it resets its streams is one of theirs. *)
LEMMA Unification ==
  ASSUME TypeOK, CheckMux(mux)
  PROVE  \E s \in DOMAIN mux : UnifiedOf(mux) = Head(mux[s])
  BY ReadyHeads, OneOfHeads

(* Every step keeps the ranges. *)
LEMMA InitType == Init => TypeOK /\ Begun
<1> SUFFICES ASSUME Init PROVE TypeOK /\ Begun
  OBVIOUS
<1>1. /\ kind \in {"std", "unit"} /\ mux = [s \in {} |-> <<>>] /\ busy = FALSE
      /\ sent = [s \in Streams |-> <<>>] /\ merged = <<>>
  BY DEF Init
<1>2. DOMAIN mux = {} /\ mux \in [DOMAIN mux -> Seq(Packets)]
  BY <1>1
<1>3. sent \in [Streams -> Seq(Packets)] /\ merged \in Seq(Packets) /\ \A s \in Streams : sent[s] = <<>>
  BY <1>1
<1>4. \A s \in Streams : \E n \in 0..Len(sent[s]) : Held(mux, s) = SubSeq(sent[s], n + 1, Len(sent[s]))
  BY <1>2, <1>3, EndingEmpty DEF Held, Ending
<1>5. TypeOK
  BY <1>1, <1>2, <1>3, <1>4 DEF TypeOK
<1> QED
  BY <1>2, <1>5 DEF Begun

(* Each action does. *)
LEMMA NextType == TypeOK /\ Begun /\ [Next]_vars => TypeOK' /\ Begun'
<1> SUFFICES ASSUME TypeOK, Begun, [Next]_vars PROVE TypeOK' /\ Begun'
  OBVIOUS
<1>a. /\ \A s \in DOMAIN mux : sent[s] # <<>> /\ s \in Streams /\ mux[s] \in Seq(Packets)
      /\ mux = [s \in DOMAIN mux |-> mux[s]]
  BY DEF Begun, TypeOK
<1>1. ASSUME NEW s \in Streams, NEW p \in Packets, Receive(s, p)
      PROVE  TypeOK' /\ Begun'
  <2>1. /\ TypeOK' /\ sent'[s] = Append(sent[s], p) /\ \A t \in Streams \ {s} : sent'[t] = sent[t]
        /\ \A t \in Streams \ {s} : t \in DOMAIN mux' <=> t \in DOMAIN mux
    BY <1>1, ReceiveType
  <2>2. ASSUME NEW t \in DOMAIN mux' PROVE sent'[t] # <<>>
    <3>1. t \in Streams
      BY <2>1 DEF TypeOK
    <3>2. CASE t = s
      <4>1. sent[s] \in Seq(Packets)
        BY Arrivals
      <4> QED
        BY <2>1, <3>2, <4>1, AppendProperties
    <3>3. CASE t # s
      BY <1>a, <2>1, <3>1, <3>3
    <3> QED
      BY <3>2, <3>3
  <2> QED
    BY <2>1, <2>2 DEF Begun
(* process() takes from the queues, and what it routes is a packet.         *)
<1>2. ASSUME sent' = sent, DOMAIN mux' \subseteq DOMAIN mux PROVE Begun'
  BY <1>2, <1>a DEF Begun
<1>3. CASE \E s \in Streams : Arrive(s)
  <2>1. PICK s \in Streams : Arrive(s)
    BY <1>3
  <2>2. PICK p \in Packets : Receive(s, p) /\ p.type = "media"
    BY <2>1, ArriveIsReceive
  <2> QED
    BY <1>1, <2>2
<1>4. CASE \E s \in Streams : ArriveControl(s)
  <2>1. PICK s \in Streams : ArriveControl(s)
    BY <1>4
  <2>2. PICK p \in Packets : Receive(s, p)
    BY <2>1, ControlIsReceive
  <2> QED
    BY <1>1, <2>2
<1>5. CASE BeginProcess \/ EndProcess \/ Done \/ UNCHANGED vars
  <2>1. UNCHANGED <<mux, sent, kind, merged>> /\ busy' \in BOOLEAN
    BY <1>5 DEF BeginProcess, EndProcess, Done, vars, TypeOK
  <2>2. TypeOK'
    BY <1>a, <2>1, TakenType DEF TypeOK
  <2> QED
    BY <1>2, <2>1, <2>2
<1>6. CASE Release
  <2> DEFINE s == SelectMux(mux)
  <2>1. /\ CheckMux(mux) /\ s # None /\ merged' = Append(merged, Head(mux[s]))
        /\ mux' = [mux EXCEPT ![s] = Tail(@)] /\ UNCHANGED <<kind, busy, sent>>
    BY <1>6 DEF Release
  <2>2. s \in DOMAIN mux
    BY <2>1, Selection
  <2> HIDE DEF s
  <2>3. mux[s] # <<>>
    BY <2>1, <2>2 DEF CheckMux
  <2>4. merged' \in Seq(Packets)
    <3>1. Head(mux[s]) \in Packets /\ merged \in Seq(Packets)
      BY <1>a, <2>2, <2>3, HeadTailProperties DEF TypeOK
    <3> QED
      BY <2>1, <3>1, AppendProperties
  <2>5. /\ DOMAIN mux' = DOMAIN mux /\ mux' = [t \in DOMAIN mux' |-> mux'[t]]
        /\ \A t \in DOMAIN mux' : mux'[t] = mux[t] \/ (mux[t] # <<>> /\ mux'[t] = Tail(mux[t]))
    BY <1>a, <2>1, <2>2, <2>3
  <2>6. TypeOK'
    BY <2>1, <2>4, <2>5, TakenType DEF TypeOK
  <2> QED
    BY <1>2, <2>1, <2>5, <2>6
<1>7. CASE ResetMux
  <2>1. /\ CheckMux(mux) /\ merged' = Append(merged, UnifiedOf(mux))
        /\ mux' = AfterReset(mux) /\ UNCHANGED <<kind, busy, sent>>
    BY <1>7 DEF ResetMux
  <2>2. \A t \in DOMAIN mux : mux[t] # <<>>
    BY <2>1 DEF CheckMux
  <2>3. merged' \in Seq(Packets)
    <3>1. PICK s \in DOMAIN mux : UnifiedOf(mux) = Head(mux[s])
      BY <2>1, Unification
    <3>2. Head(mux[s]) \in Packets /\ merged \in Seq(Packets)
      BY <1>a, <2>2, HeadTailProperties DEF TypeOK
    <3> QED
      BY <2>1, <3>1, <3>2, AppendProperties
  <2>4. /\ DOMAIN mux' \subseteq DOMAIN mux /\ mux' = [t \in DOMAIN mux' |-> mux'[t]]
        /\ \A t \in DOMAIN mux' : mux'[t] = Tail(mux[t])
    BY <2>1 DEF AfterReset
  <2>5. TypeOK'
    BY <2>1, <2>2, <2>3, <2>4, TakenType DEF TypeOK
  <2> QED
    BY <1>2, <2>1, <2>4, <2>5
<1> QED
  BY <1>3, <1>4, <1>5, <1>6, <1>7 DEF Next

(* Every variable keeps its range, and a queue is what its stream sent last. *)
THEOREM TypeCorrect == Spec => []TypeOK
  BY InitType, NextType, PTL DEF Spec

-----------------------------------------------------------------------------
(* The multiplexer is told how many streams there are (parameter streams). *)
Complete == Required >= Cardinality(Streams)

(* A stream whose end has arrived, or which has left the table, is over.    *)
Ended ==
  \A s \in Streams :
    (\/ \E i \in 1..Len(Held(mux, s)) : Held(mux, s)[i].type = "end"
     \/ s \notin DOMAIN mux /\ sent[s] # <<>>) => Over(s)

(* The state of MergedStreams. *)
Waiting == [s \in Streams |-> Held(mux, s)]
Gone == {s \in Streams \ DOMAIN mux : sent[s] # <<>>}

(* A ready multiplexer knows the next packet of every stream. *)
LEMMA ReadyKnowsAll ==
  ASSUME Complete, TypeOK, CheckMux(mux)
  PROVE  /\ DOMAIN mux = Streams /\ Gone = {} /\ Streams # {}
         /\ \A s \in Streams : mux[s] # <<>> /\ Waiting[s] = mux[s]
<1>1. DOMAIN mux \in SUBSET Streams /\ DOMAIN mux # {} /\ IsFiniteSet(Streams)
  BY MuxAssumption DEF TypeOK, CheckMux
<1>2. Cardinality(Streams) \in Nat /\ Cardinality(DOMAIN mux) \in Nat /\ Cardinality(DOMAIN mux) <= Cardinality(Streams)
  BY <1>1, FS_CardinalityType, FS_Subset
<1>3. Cardinality(Streams) > 0
  BY <1>1, <1>2, FS_EmptySet
<1>4. Cardinality(DOMAIN mux) >= Required /\ Required \in Int
  BY <1>2, <1>3, MuxAssumption DEF Complete, CheckMux
<1>5. Cardinality(DOMAIN mux) = Cardinality(Streams)
  BY <1>2, <1>4, MuxAssumption DEF Complete
<1>6. DOMAIN mux = Streams
  BY <1>1, <1>5, FS_Subset
<1>7. \A s \in Streams : mux[s] # <<>> /\ Waiting[s] = mux[s]
  BY <1>6 DEF CheckMux, Waiting, Held
<1> QED
  BY <1>1, <1>6, <1>7 DEF Gone

(* An end comes last, whatever is taken from the queues. *)
LEMMA InitEnded == Init => Ended
<1> SUFFICES ASSUME Init PROVE Ended
  OBVIOUS
<1>1. mux = [s \in {} |-> <<>>] /\ sent = [s \in Streams |-> <<>>]
  BY DEF Init
<1>2. \A s \in Streams : Held(mux, s) = <<>> /\ Len(<<>>) = 0 /\ sent[s] = <<>>
  BY <1>1 DEF Held
<1> QED
  BY <1>2 DEF Ended

(* An arrival of a stream that was not over. *)
LEMMA ArrivalEnded ==
  ASSUME TypeOK, Ended, NEW s \in Streams, NEW p \in Packets, Receive(s, p), ~Over(s)
  PROVE  Ended'
<1>1. /\ Held(mux', s) = Append(Held(mux, s), p) /\ s \in DOMAIN mux' /\ sent'[s] = Append(sent[s], p)
      /\ \A t \in Streams \ {s} : /\ Held(mux', t) = Held(mux, t) /\ sent'[t] = sent[t]
                                  /\ t \in DOMAIN mux' <=> t \in DOMAIN mux
  BY ReceiveType
<1> SUFFICES ASSUME NEW t \in Streams,
                    \/ \E i \in 1..Len(Held(mux', t)) : Held(mux', t)[i].type = "end"
                    \/ t \notin DOMAIN mux' /\ sent'[t] # <<>>
             PROVE  Over(t)'
  BY DEF Ended, Held
<1>2. CASE t # s
  <2>1. Over(t)
    BY <1>1, <1>2 DEF Ended
  <2>2. Over(t)' = Over(t)
    BY <1>1, <1>2 DEF Over
  <2> QED
    BY <2>1, <2>2
<1>3. CASE t = s
  <2>1. PICK i \in 1..Len(Held(mux', s)) : Held(mux', s)[i].type = "end"
    BY <1>1, <1>3
  <2>2. Held(mux, s) \in Seq(Packets) /\ Len(Held(mux, s)) \in Nat
    BY Arrivals, LenProperties
  <2>3. /\ Len(Held(mux', s)) = Len(Held(mux, s)) + 1 /\ Held(mux', s)[Len(Held(mux, s)) + 1] = p
        /\ \A j \in 1..Len(Held(mux, s)) : Held(mux', s)[j] = Held(mux, s)[j]
    BY <1>1, <2>2, AppendProperties
  <2>4. i \notin 1..Len(Held(mux, s))
    BY <2>1, <2>3 DEF Ended
  <2>5. i = Len(Held(mux, s)) + 1
    BY <2>1, <2>2, <2>3, <2>4
  <2>6. p.type = "end"
    BY <2>1, <2>3, <2>5
  <2>7. sent[s] \in Seq(Packets)
    BY Arrivals
  <2>8. sent'[s] # <<>> /\ Last(sent'[s]) = p
    BY <1>1, <2>7, AppendProperties DEF Last
  <2> QED
    BY <1>3, <2>6, <2>8 DEF Over
<1> QED
  BY <1>2, <1>3

(* What process() takes, or resets, leaves the streams that are over. *)
LEMMA TakenEnded ==
  ASSUME TypeOK, Ended, sent' = sent, DOMAIN mux' \subseteq DOMAIN mux,
         \A s \in DOMAIN mux' : mux'[s] = mux[s] \/ (mux[s] # <<>> /\ mux'[s] = Tail(mux[s])),
         \A s \in DOMAIN mux \ DOMAIN mux' : mux[s] # <<>> /\ Head(mux[s]).type = "end"
  PROVE  Ended'
<1> SUFFICES ASSUME NEW s \in Streams,
                    \/ \E i \in 1..Len(Held(mux', s)) : Held(mux', s)[i].type = "end"
                    \/ s \notin DOMAIN mux' /\ sent'[s] # <<>>
             PROVE  Over(s)
  BY DEF Ended, Held, Over
<1>1. s \in DOMAIN mux => mux[s] \in Seq(Packets) /\ Held(mux, s) = mux[s]
  BY Arrivals DEF Held
<1>2. CASE s \in DOMAIN mux'
  <2>1. PICK i \in 1..Len(mux'[s]) : mux'[s][i].type = "end"
    BY <1>2 DEF Held
  <2>2. CASE mux'[s] = mux[s]
    BY <1>1, <1>2, <2>1, <2>2 DEF Ended
  <2>3. CASE mux[s] # <<>> /\ mux'[s] = Tail(mux[s])
    <3>1. Len(mux'[s]) = Len(mux[s]) - 1 /\ mux'[s][i] = mux[s][i + 1] /\ Len(mux[s]) \in Nat
      BY <1>1, <1>2, <2>1, <2>3, HeadTailProperties, LenProperties
    <3>2. i + 1 \in 1..Len(mux[s])
      BY <2>1, <3>1
    <3> QED
      BY <1>1, <1>2, <2>1, <3>1, <3>2 DEF Ended
  <2> QED
    BY <1>2, <2>2, <2>3
<1>3. CASE s \in DOMAIN mux \ DOMAIN mux'
  <2>1. 1 \in 1..Len(mux[s]) /\ mux[s][1].type = "end"
    BY <1>1, <1>3, EmptySeq
  <2> QED
    BY <1>1, <1>3, <2>1 DEF Ended
<1>4. CASE s \notin DOMAIN mux
  BY <1>4 DEF Ended, Held
<1> QED
  BY <1>2, <1>3, <1>4

(* Every step maps to a step of MergedStreams, or to none. *)
LEMMA Accepts ==
  ASSUME TypeOK, Ended, NEW s \in Streams, NEW p \in Packets, Receive(s, p), ~Over(s)
  PROVE  Abstract!Accept
<1>1. /\ Held(mux', s) = Append(Held(mux, s), p) /\ s \in DOMAIN mux' /\ sent'[s] = Append(sent[s], p)
      /\ \A t \in Streams \ {s} : /\ Held(mux', t) = Held(mux, t) /\ sent'[t] = sent[t]
                                  /\ t \in DOMAIN mux' <=> t \in DOMAIN mux
  BY ReceiveType
<1>2. s \in Streams \ Gone
  BY DEF Ended, Gone
<1>3. Gone' = Gone
  BY <1>1, <1>2 DEF Gone
<1>4. Held(mux, s) \in Seq(Packets)
  BY Arrivals
<1> DEFINE h == Held(mux, s)
           a == Append(h, p)
<1>5. Len(a) = Len(h) + 1 /\ SubSeq(a, 1, Len(h)) = h
  <2> HIDE DEF h
  <2>1. h \in Seq(Packets) /\ Len(h) \in Nat
    BY <1>4, LenProperties DEF h
  <2>2. a \in Seq(Packets) /\ Len(a) = Len(h) + 1 /\ \A i \in 1..Len(h) : a[i] = h[i]
    BY <2>1, AppendProperties
  <2> HIDE DEF a
  <2>3. \A i \in 1..Len(h) : a[i] \in Packets
    BY <2>1, <2>2, ElementOfSeq
  <2>4. /\ SubSeq(a, 1, Len(h)) \in Seq(Packets) /\ Len(SubSeq(a, 1, Len(h))) = Len(h)
        /\ \A i \in 1..Len(h) : SubSeq(a, 1, Len(h))[i] = a[i]
    BY <2>1, <2>3, SubSeqProperties
  <2>5. \A i \in 1..Len(SubSeq(a, 1, Len(h))) : SubSeq(a, 1, Len(h))[i] = h[i]
    BY <2>2, <2>4
  <2>6. SubSeq(a, 1, Len(h)) = h
    BY ONLY <2>1, <2>4, <2>5, SeqEqual
  <2> QED
    BY <2>2, <2>6
<1>6. Waiting'[s] = a /\ Waiting[s] = h
  BY <1>1 DEF Waiting, Held
<1>7. Waiting' = [Waiting EXCEPT ![s] = Waiting'[s]]
  <2>1. \A t \in Streams \ {s} : Waiting'[t] = Waiting[t]
    BY <1>1 DEF Waiting, Held
  <2>2. DOMAIN Waiting = Streams /\ Waiting = [t \in Streams |-> Waiting[t]]
    BY DEF Waiting
  <2>3. DOMAIN Waiting' = Streams /\ Waiting' = [t \in Streams |-> Waiting'[t]]
    BY DEF Waiting
  <2> QED
    BY <2>1, <2>2, <2>3
<1> HIDE DEF a, h
<1>8. Len(Waiting'[s]) = Len(Waiting[s]) + 1 /\ SubSeq(Waiting'[s], 1, Len(Waiting[s])) = Waiting[s]
  BY <1>5, <1>6
<1>9. merged' = merged
  BY DEF Receive
<1> QED
  BY <1>2, <1>3, <1>7, <1>8, <1>9 DEF Abstract!Accept, Waiting, Gone

(* process() releases the lowest packet. *)
LEMMA Forwards ==
  ASSUME Complete, TypeOK, Release
  PROVE  Abstract!Forward /\ (Ended => Ended')
<1> DEFINE s == SelectMux(mux)
<1>1. /\ CheckMux(mux) /\ s # None /\ merged' = Append(merged, Head(mux[s]))
      /\ mux' = [mux EXCEPT ![s] = Tail(@)] /\ sent' = sent
  BY DEF Release
<1>2. /\ s \in DOMAIN mux /\ ~Control(Head(mux[s]))
      /\ \A t \in DOMAIN mux : ~Control(Head(mux[t])) => Head(mux[s]).key <= Head(mux[t]).key
  BY <1>1, Selection
<1>3. /\ DOMAIN mux = Streams /\ Gone = {}
      /\ \A t \in Streams : mux[t] # <<>> /\ Waiting[t] = mux[t]
  BY <1>1, ReadyKnowsAll
<1> HIDE DEF s
<1>4. /\ DOMAIN mux' = Streams /\ mux'[s] = Tail(mux[s])
      /\ \A t \in Streams \ {s} : mux'[t] = mux[t]
  BY <1>1, <1>2, <1>3
<1>5. Gone' = Gone
  BY <1>3, <1>4 DEF Gone
<1>6. Waiting' = [Waiting EXCEPT ![s] = Tail(@)]
  <2>1. \A t \in Streams : Waiting'[t] = mux'[t]
    BY <1>4 DEF Waiting, Held
  <2>2. DOMAIN Waiting = Streams /\ Waiting = [t \in Streams |-> Waiting[t]]
    BY DEF Waiting
  <2>3. DOMAIN Waiting' = Streams /\ Waiting' = [t \in Streams |-> Waiting'[t]]
    BY DEF Waiting
  <2> QED
    BY <1>2, <1>3, <1>4, <2>1, <2>2, <2>3
<1>7. Abstract!Forward
  <2>1. s \in Streams \ Gone
    BY <1>2, <1>3
  <2>2. \A t \in Streams \ Gone : Waiting[t] # <<>>
    BY <1>3
  <2>3. \A t \in Streams \ Gone : Control(Head(Waiting[t])) \/ Head(Waiting[s]).key <= Head(Waiting[t]).key
    BY <1>2, <1>3
  <2>4. ~Control(Head(Waiting[s])) /\ merged' = Append(merged, Head(Waiting[s]))
    BY <1>1, <1>2, <1>3
  <2> QED
    BY <1>5, <1>6, <2>1, <2>2, <2>3, <2>4
    DEF Abstract!Forward, Abstract!Known, Abstract!NextOf, Abstract!Control, Control, Waiting, Gone
<1>8. ASSUME Ended PROVE Ended'
  BY <1>1, <1>3, <1>4, <1>8, TakenEnded
<1> QED
  BY <1>7, <1>8

(* process() resets the streams whose control packets are all in front. *)
LEMMA ResetsTogether ==
  ASSUME Complete, TypeOK, Begun, ResetMux
  PROVE  Abstract!Together /\ (Ended => Ended')
<1>1. /\ CheckMux(mux) /\ SelectMux(mux) = None /\ merged' = Append(merged, UnifiedOf(mux))
      /\ mux' = AfterReset(mux) /\ sent' = sent
  BY DEF ResetMux
<1>2. \A s \in DOMAIN mux : Control(Head(mux[s]))
  BY <1>1, Selection
<1>3. /\ DOMAIN mux = Streams /\ Gone = {} /\ Streams # {}
      /\ \A s \in Streams : mux[s] # <<>> /\ Waiting[s] = mux[s]
  BY <1>1, ReadyKnowsAll
<1>4. PICK u \in DOMAIN mux : UnifiedOf(mux) = Head(mux[u])
  BY <1>1, Unification
<1> DEFINE ends == {s \in Streams : Head(mux[s]).type = "end"}
<1>5. DOMAIN mux' = Streams \ ends /\ \A s \in Streams \ ends : mux'[s] = Tail(mux[s])
  BY <1>1, <1>3 DEF AfterReset
<1>6. Gone' = Gone \cup ends
  BY <1>1, <1>3, <1>5 DEF Gone, Begun
<1>7. Waiting' = [s \in Streams |-> IF s \in ends THEN <<>> ELSE Tail(Waiting[s])]
  <2>1. \A s \in Streams : Held(mux', s) = IF s \in ends THEN <<>> ELSE Tail(Waiting[s])
    BY <1>3, <1>5 DEF Held
  <2>2. Waiting' = [s \in Streams |-> Held(mux', s)]
    BY DEF Waiting, Held
  <2> QED
    BY <2>1, <2>2
<1>8. Abstract!Together
  <2> DEFINE live == Streams \ Gone
  <2>1. live = Streams /\ live # {} /\ \A s \in live : Waiting[s] # <<>> /\ Control(Head(Waiting[s]))
    BY <1>2, <1>3
  <2>2. u \in live /\ merged' = Append(merged, Head(Waiting[u]))
    BY <1>1, <1>3, <1>4
  <2>3. ends = {s \in live : Head(Waiting[s]).type = "end"}
    BY <1>3
  <2>4. Waiting' = [s \in Streams |-> IF s \in ends THEN <<>>
                      ELSE IF s \in live THEN Tail(Waiting[s]) ELSE Waiting[s]]
    BY <1>3, <1>7
  <2> HIDE DEF ends, live
  <2>5. /\ live # {} /\ (\A s \in live : Waiting[s] # <<>>) /\ (\A s \in live : Head(Waiting[s]).type # "media")
        /\ \E s \in live : merged' = Append(merged, Head(Waiting[s]))
        /\ Gone' = Gone \cup ends
    BY <1>6, <2>1, <2>2 DEF Control
  <2> QED
    BY <2>3, <2>4, <2>5
    DEF Abstract!Together, Abstract!Known, Abstract!NextOf, Abstract!Control, Waiting, Gone, live
<1>9. ASSUME Ended PROVE Ended'
  BY <1>1, <1>3, <1>5, <1>9, TakenEnded
<1> QED
  BY <1>8, <1>9

(* A multiplexer that is told how many streams there are forwards no packet *)
(* before it knows that no stream has an earlier one, whatever the order in *)
(* which they fill, and resets and ends them together.                      *)
THEOREM MergesAll ==
  ASSUME Complete
  PROVE  Spec => Merges
<1>1. Init => Abstract!Init
  <2> SUFFICES ASSUME Init PROVE Abstract!Init
    OBVIOUS
  <2>1. mux = [s \in {} |-> <<>>] /\ sent = [s \in Streams |-> <<>>] /\ merged = <<>>
    BY DEF Init
  <2>2. Waiting = [s \in Streams |-> <<>>] /\ Gone = {}
    BY <2>1 DEF Waiting, Gone, Held
  <2> QED
    BY <2>1, <2>2 DEF Abstract!Init, Waiting, Gone
<1>2. Init => TypeOK /\ Begun /\ Ended
  BY InitType, InitEnded
<1>3. ASSUME TypeOK, Begun, Ended, [Next]_vars
      PROVE  Ended' /\ (Abstract!Next \/ UNCHANGED <<Waiting, Gone, merged>>)
  <2>1. CASE \E s \in Streams : Arrive(s)
    <3>1. PICK s \in Streams : Arrive(s)
      BY <2>1
    <3>2. PICK p \in Packets : Receive(s, p) /\ p.type = "media" /\ ~Over(s)
      BY <1>3, <3>1, ArriveIsReceive
    <3>3. Ended'
      BY <1>3, <3>2, ArrivalEnded
    <3>4. Abstract!Accept
      BY <1>3, <3>2, Accepts
    <3> QED
      BY <3>3, <3>4 DEF Abstract!Next
  <2>2. CASE \E s \in Streams : ArriveControl(s)
    <3>1. PICK s \in Streams : ArriveControl(s)
      BY <2>2
    <3>2. PICK p \in Packets : Receive(s, p) /\ ~Over(s)
      BY <1>3, <3>1, ControlIsReceive
    <3>3. Ended'
      BY <1>3, <3>2, ArrivalEnded
    <3>4. Abstract!Accept
      BY <1>3, <3>2, Accepts
    <3> QED
      BY <3>3, <3>4 DEF Abstract!Next
  <2>3. CASE Release
    BY <1>3, <2>3, Forwards DEF Abstract!Next
  <2>4. CASE ResetMux
    BY <1>3, <2>4, ResetsTogether DEF Abstract!Next
  <2>5. CASE BeginProcess \/ EndProcess \/ Done \/ UNCHANGED vars
    <3>1. UNCHANGED <<mux, sent, merged>>
      BY <2>5 DEF BeginProcess, EndProcess, Done, vars
    <3>2. UNCHANGED <<Waiting, Gone, merged>>
      BY <3>1 DEF Waiting, Gone, Held
    <3>3. Ended'
      BY <1>3, <3>1 DEF Ended, Held, Over
    <3> QED
      BY <3>2, <3>3
  <2> QED
    BY <1>3, <2>1, <2>2, <2>3, <2>4, <2>5 DEF Next
<1>4. TypeOK /\ Begun /\ Ended /\ [Next]_vars => (TypeOK /\ Begun /\ Ended)'
  BY <1>3, NextType
<1>5. TypeOK /\ Begun /\ Ended /\ [Next]_vars
        => [Abstract!Next]_<<[s \in Streams |-> Held(mux, s)], {s \in Streams \ DOMAIN mux : sent[s] # <<>>}, merged>>
  BY <1>3 DEF Waiting, Gone
<1> QED
  BY <1>1, <1>2, <1>4, <1>5, PTL DEF Spec, Merges, Abstract!Spec

-----------------------------------------------------------------------------
(* Segmenter *)

(* What the packets of the pipeline are made of: in the queues of the       *)
(* multiplexer, and behind it.                                              *)
FrameRecords == [stream : {Video, Audio}, dts : Nat, key : BOOLEAN]
MediaEntry == [stream : {Video, Audio}, type : {"media"}, loop : Nat, n : Nat, frame : BOOLEAN,
               dts : Nat, key : Nat]
ControlEntry == [type : {"reset", "end"}, loop : Nat, dts : Nat, key : Nat]
TSPacket == [stream : {Video, Audio}, type : {"media"}, loop : Nat, n : Nat, frame : BOOLEAN,
             dts : Nat, part : {"psi", "start", "rest"}]
Queued == MediaEntry \cup ControlEntry
Made == TSPacket \cup ControlEntry
Queue(s) == Held(mux, s)

(* The values every variable of the pipeline ranges over. *)
PipelineTypes ==
  /\ file \in Seq(FrameRecords) /\ file # <<>>
  /\ pos \in 1..Len(file) + 1 /\ loop \in 0..Loops + 1
  /\ reading \in BOOLEAN /\ (reading <=> loop <= Loops) /\ (loop > Loops => pos = 1)
  /\ old \in [{0, Video, Audio} -> Nat \cup {-1}] /\ (pos > 1 \/ loop > 0 => old[0] \in Nat)
  /\ DOMAIN mux \subseteq Streams /\ \A s \in Streams : Queue(s) \in Seq(Queued)
  /\ pass \in [phase : {"none", "take", "release"}, ref : {None, Video, Audio}, start : Nat, refDts : Nat]
  /\ psi \in BOOLEAN /\ open \in BOOLEAN /\ stopped \in BOOLEAN /\ failed \in BOOLEAN
  /\ out \in Seq(Made) /\ cutAt \in Nat \cup {-1}
  /\ segs \in Seq(Seq(TSPacket)) /\ (open => segs # <<>>)

(* What the reader has read: controls when their loop is over.              *)
Read(p) == p.loop < loop \/ (p.loop = loop /\ ~Control(p) /\ p.n < pos)
Earlier(p, r) == p.loop < r.loop \/ (p.loop = r.loop /\ ~Control(p) /\ (Control(r) \/ p.n < r.n))

(* A queue holds frames of its stream and, behind those of each loop, the   *)
(* loop's control packet.                                                   *)
Belongs(p, s) ==
  IF Control(p) THEN p.type = IF p.loop < Loops THEN "reset" ELSE "end"
  ELSE p.stream = s /\ p.n \in 1..Len(file) /\ p.key = p.dts /\ file[p.n].stream = s
Contents ==
  \A s \in Streams : \A i \in 1..Len(Queue(s)) : Read(Queue(s)[i]) /\ Belongs(Queue(s)[i], s)

(* The control packets of the same loops wait in all queues.                *)
Generations ==
  \E g \in 0..loop : \A s \in Streams :
    /\ \A i \in 1..Len(Queue(s)) : Queue(s)[i].loop >= g
    /\ \A l \in g..loop - 1 : \E i \in 1..Len(Queue(s)) : Control(Queue(s)[i]) /\ Queue(s)[i].loop = l

(* From the files through the packets made to the queues every stream is in *)
(* its order; the parts of a frame are told from tables by their name.      *)
Ordered(p, q) ==
  ~Control(p) /\ ~Control(q) /\ p.part # "psi" /\ q.part # "psi" /\ p.stream = q.stream => Before(p, q)
Ahead(p) == Read(p) /\ \A j \in 1..Len(Queue(p.stream)) : Earlier(p, Queue(p.stream)[j])
QueuesInLine ==
  \A s \in Streams : \A i, j \in 1..Len(Queue(s)) : i < j => Earlier(Queue(s)[i], Queue(s)[j])
MadeAhead == \A i \in 1..Len(out) : ~Control(out[i]) => Ahead(out[i])
WrittenAhead == \A k \in 1..Len(segs) : \A i \in 1..Len(segs[k]) : Ahead(segs[k][i])
MadeInLine == \A i, j \in 1..Len(out) : i < j => Ordered(out[i], out[j])
WrittenBeforeMade ==
  \A k \in 1..Len(segs) : \A i \in 1..Len(segs[k]), j \in 1..Len(out) : Ordered(segs[k][i], out[j])
WrittenInLine ==
  \A k, l \in 1..Len(segs) : \A i \in 1..Len(segs[k]), j \in 1..Len(segs[l]) :
    k < l \/ (k = l /\ i < j) => Ordered(segs[k][i], segs[l][j])
InLine ==
  QueuesInLine /\ MadeAhead /\ WrittenAhead /\ MadeInLine /\ WrittenBeforeMade /\ WrittenInLine

(* What was read is in a queue, or made, or written.                        *)
IsPart(p, l, n, part) == ~Control(p) /\ p.loop = l /\ p.n = n /\ p.part = part
Waits(l, n) == \E s \in Streams : \E i \in 1..Len(Queue(s)) :
                 ~Control(Queue(s)[i]) /\ Queue(s)[i].loop = l /\ Queue(s)[i].n = n
IsMade(l, n, part) == \E i \in 1..Len(out) : IsPart(out[i], l, n, part)
IsWritten(l, n, part) == \E k \in 1..Len(segs) : \E i \in 1..Len(segs[k]) : IsPart(segs[k][i], l, n, part)
Kept ==
  \A l \in 0..Loops, n \in 1..Len(file), part \in {"start", "rest"} :
    l < loop \/ (l = loop /\ n < pos) => Waits(l, n) \/ IsMade(l, n, part) \/ IsWritten(l, n, part)

(* A control packet ends a pass, the end everything.                        *)
AtTheEnd ==
  /\ \A i \in 1..Len(out) : Control(out[i]) => pass.phase = "release" /\ i = Len(out)
  /\ pass.phase = "none" => out = <<>>
  /\ stopped => out = <<>> /\ pass.phase # "take"
  /\ stopped \/ (\E i \in 1..Len(out) : out[i].type = "end") =>
       loop = Loops + 1 /\ \A s \in Streams : Queue(s) = <<>>
  /\ pass.phase = "take" => DOMAIN mux = Streams

-----------------------------------------------------------------------------
(* Every packet has its labels. *)
LEMMA Labels ==
  /\ \A p \in Queued \cup Made : p.loop \in Nat /\ p.dts \in Nat /\ (Control(p) <=> p \in ControlEntry)
  /\ \A p \in Queued \cup Made : ~Control(p) => p.n \in Nat /\ p.stream \in {Video, Audio}
  /\ \A p \in MediaEntry \cup TSPacket : ~Control(p)
  /\ \A p \in Queued : ~Control(p) => p \in MediaEntry
  /\ \A p \in Made : ~Control(p) => p \in TSPacket
<1>1. /\ \A p \in MediaEntry : ~Control(p) /\ p.loop \in Nat /\ p.dts \in Nat /\ p.n \in Nat /\ p.stream \in {Video, Audio}
      /\ \A p \in TSPacket : ~Control(p) /\ p.loop \in Nat /\ p.dts \in Nat /\ p.n \in Nat /\ p.stream \in {Video, Audio}
      /\ \A p \in ControlEntry : Control(p) /\ p.loop \in Nat /\ p.dts \in Nat
  BY DEF MediaEntry, TSPacket, ControlEntry, Control
<1> QED
  BY <1>1 DEF Queued, Made

(* What is added to a sequence is behind it. *)
LEMMA Appended ==
  ASSUME NEW S, NEW q \in Seq(S), NEW p \in S
  PROVE  /\ Append(q, p) \in Seq(S) /\ Len(Append(q, p)) = Len(q) + 1 /\ Len(q) \in Nat
         /\ Append(q, p)[Len(q) + 1] = p
         /\ \A i \in 1..Len(q) : Append(q, p)[i] = q[i]
  BY AppendProperties, LenProperties

(* What leaves it leaves at its front. *)
LEMMA Beheaded ==
  ASSUME NEW S, NEW q \in Seq(S), q # <<>>
  PROVE  /\ Tail(q) \in Seq(S) /\ Len(Tail(q)) = Len(q) - 1 /\ Len(q) \in Nat \ {0}
         /\ Head(q) \in S /\ Head(q) = q[1]
         /\ \A i \in 1..Len(Tail(q)) : Tail(q)[i] = q[i + 1] /\ i + 1 \in 1..Len(q)
         /\ \A i \in 2..Len(q) : q[i] = Tail(q)[i - 1] /\ i - 1 \in 1..Len(Tail(q))
<1>1. /\ Tail(q) \in Seq(S) /\ Len(Tail(q)) = Len(q) - 1 /\ Head(q) \in S
      /\ \A i \in 1..Len(Tail(q)) : Tail(q)[i] = q[i + 1]
  BY HeadTailProperties
<1>2. Len(q) \in Nat \ {0}
  BY EmptySeq
<1>3. \A i \in 1..Len(Tail(q)) : i + 1 \in 1..Len(q)
  BY <1>1, <1>2
<1>4. \A i \in 2..Len(q) : i - 1 \in 1..Len(Tail(q)) /\ (i - 1) + 1 = i
  BY <1>1, <1>2
<1>5. \A i \in 2..Len(q) : q[i] = Tail(q)[i - 1]
  BY <1>1, <1>4
<1> QED
  BY <1>1, <1>2, <1>3, <1>4, <1>5

(* A queue in the table is the queue. *)
LEMMA QueueInTable ==
  ASSUME NEW s
  PROVE  /\ s \in DOMAIN mux => Queue(s) = mux[s]
         /\ s \notin DOMAIN mux => Queue(s) = <<>>
  BY DEF Queue, Held

-----------------------------------------------------------------------------
(* What the reader hands over: a frame to the queue of its stream, with a   *)
(* dts that rises, or a control packet to every queue.                      *)
LEMMA ReadsFrame ==
  ASSUME VideoAndAudio, PipelineTypes, ReadFrame
  PROVE  \E p \in MediaEntry :
           /\ pos \in 1..Len(file) /\ p.stream = file[pos].stream /\ p.stream \in Streams
           /\ p.loop = loop /\ p.n = pos /\ p.key = p.dts /\ p.frame = file[pos].key
           /\ p.dts = (IF file[pos].dts <= old[p.stream] THEN old[p.stream] + Inc[p.stream] ELSE file[pos].dts)
           /\ old' = [old EXCEPT ![0] = p.dts, ![p.stream] = p.dts]
           /\ DOMAIN mux' = DOMAIN mux \cup {p.stream}
           /\ \A t \in Streams : Queue(t)' = IF t = p.stream THEN Append(Queue(t), p) ELSE Queue(t)
<1> DEFINE f == file[pos]
           p == Frame(f)
<1>1. pos \in 1..Len(file) /\ pos \in Nat /\ loop \in Nat
  <2>1. Len(file) \in Nat
    BY LenProperties DEF PipelineTypes
  <2>2. pos \in 1..Len(file) + 1 /\ pos <= Len(file) /\ loop \in 0..Loops + 1 /\ Loops \in Nat
    BY SegmenterAssumption DEF PipelineTypes, ReadFrame
  <2> QED
    BY <2>1, <2>2
<1>2. f \in FrameRecords
  BY <1>1, ElementOfSeq DEF PipelineTypes
<1>3. f.stream \in {Video, Audio} /\ f.dts \in Nat /\ f.key \in BOOLEAN
  BY <1>2 DEF FrameRecords
<1> HIDE DEF f
<1>4. old[f.stream] \in Nat \cup {-1} /\ f.stream \in Streams
  BY <1>3 DEF PipelineTypes, VideoAndAudio
<1>5. /\ p.stream = f.stream /\ p.type = "media" /\ p.loop = loop /\ p.n = pos /\ p.frame = f.key
      /\ p.dts = (IF f.dts <= old[f.stream] THEN old[f.stream] + Inc[f.stream] ELSE f.dts) /\ p.key = p.dts
      /\ p = [stream |-> p.stream, type |-> "media", loop |-> p.loop, n |-> p.n, frame |-> p.frame,
              dts |-> p.dts, key |-> p.key]
  BY DEF Frame
<1>6. mux' = Received(mux, f.stream, p) /\ old' = [old EXCEPT ![0] = p.dts, ![f.stream] = p.dts]
  BY DEF ReadFrame, f
<1> HIDE DEF p
<1>7. p.dts \in Nat
  <2>1. Inc[f.stream] \in Nat \ {0}
    BY <1>3, SegmenterAssumption
  <2> QED
    BY <1>3, <1>4, <1>5, <2>1
<1>8. p \in MediaEntry
  BY <1>1, <1>3, <1>5, <1>7 DEF MediaEntry
<1>9. /\ \A t \in Streams : Queue(t)' = IF t = f.stream THEN Append(Queue(t), p) ELSE Queue(t)
      /\ DOMAIN mux' = DOMAIN mux \cup {f.stream}
  BY <1>6 DEF Queue, Held, Received
<1> QED
  BY <1>1, <1>4, <1>5, <1>6, <1>8, <1>9 DEF f

(* The end of the file: a control packet to every queue. *)
LEMMA ReadsEnd ==
  ASSUME VideoAndAudio, PipelineTypes, ReadEnd
  PROVE  /\ pos = Len(file) + 1 /\ loop \in 0..Loops /\ DOMAIN mux' = Streams
         /\ \E c \in ControlEntry :
              /\ c.loop = loop /\ c.type = IF loop < Loops THEN "reset" ELSE "end"
              /\ \A t \in Streams : Queue(t)' = Append(Queue(t), c)
<1> DEFINE c == [type |-> IF loop < Loops THEN "reset" ELSE "end", loop |-> loop, dts |-> old[0], key |-> old[0]]
<1>1. /\ mux' = Received(Received(mux, Video, c), Audio, c)
      /\ reading /\ pos > Len(file)
  BY DEF ReadEnd
<1>2. Len(file) \in Nat \ {0}
  BY EmptySeq DEF PipelineTypes
<1>3. pos = Len(file) + 1 /\ loop \in 0..Loops /\ pos > 1
  BY <1>1, <1>2, SegmenterAssumption DEF PipelineTypes
<1>4. old[0] \in Nat
  BY <1>3 DEF PipelineTypes
<1>5. c \in ControlEntry /\ c.loop = loop /\ c.type = IF loop < Loops THEN "reset" ELSE "end"
  BY <1>3, <1>4 DEF ControlEntry
<1> HIDE DEF c
<1>6. Video # Audio /\ Streams = {Video, Audio}
  BY DEF Video, Audio, VideoAndAudio
<1>7. \A t \in Streams : Queue(t)' = Append(Queue(t), c)
  <2>1. \A t : Held(Received(Received(mux, Video, c), Audio, c), t)
                 = IF t = Audio THEN Append(Held(Received(mux, Video, c), Audio), c)
                                ELSE Held(Received(mux, Video, c), t)
    BY DEF Held, Received
  <2>2. \A t : Held(Received(mux, Video, c), t) = IF t = Video THEN Append(Held(mux, Video), c) ELSE Held(mux, t)
    BY DEF Held, Received
  <2> QED
    BY <1>1, <1>6, <2>1, <2>2 DEF Queue
<1>8. DOMAIN mux' = Streams
  <2>1. DOMAIN mux' = (DOMAIN mux \cup {Video}) \cup {Audio}
    BY <1>1 DEF Received
  <2> QED
    BY <1>6, <2>1 DEF PipelineTypes
<1> QED
  BY <1>3, <1>5, <1>7, <1>8

(* While a pass takes frames both streams are in the table.                 *)
LEMMA TakesFrame ==
  ASSUME VideoAndAudio, PipelineTypes, Contents, AtTheEnd, TakeFrame
  PROVE  \E s \in Streams :
           /\ s = SelectMux(mux) /\ Queue(s) # <<>> /\ ~Control(Head(Queue(s)))
           /\ \A t \in Streams : Queue(t) # <<>>
           /\ \A t \in Streams : ~Control(Head(Queue(t))) => Head(Queue(s)).key <= Head(Queue(t)).key
           /\ out' = out \o PacketsOf(Head(Queue(s)))
           /\ DOMAIN mux' = Streams
           /\ \A t \in Streams : Queue(t)' = IF t = s THEN Tail(Queue(t)) ELSE Queue(t)
<1> DEFINE s == SelectMux(mux)
<1>1. DOMAIN mux = Streams /\ DOMAIN mux \in SUBSET Nat
  BY MuxAssumption DEF AtTheEnd, TakeFrame, Taking
<1>2. \A t \in Streams : Queue(t) = mux[t] /\ mux[t] # <<>> /\ mux[t] \in Seq(Queued)
  BY <1>1, QueueInTable DEF TakeFrame, Dry, PipelineTypes
<1>3. \A t \in MediaFirst(mux) : Head(mux[t]).key \in Nat
  <2> TAKE t \in MediaFirst(mux)
  <2>1. t \in Streams /\ ~Control(Head(mux[t]))
    BY <1>1 DEF MediaFirst
  <2>2. Head(mux[t]) \in MediaEntry
    BY <1>2, <2>1, Beheaded, Labels
  <2> QED
    BY <2>2 DEF MediaEntry
<1>4. s \in MediaFirst(mux) /\ \A t \in MediaFirst(mux) : Head(mux[s]).key <= Head(mux[t]).key
  BY <1>1, <1>3, LowestKey DEF TakeFrame
<1>5. s \in Streams /\ ~Control(Head(mux[s]))
  BY <1>1, <1>4 DEF MediaFirst
<1>6. /\ mux' = [mux EXCEPT ![s] = Tail(@)] /\ out' = out \o PacketsOf(Head(mux[s]))
  BY DEF TakeFrame
<1>7. DOMAIN mux' = Streams
  BY <1>1, <1>6
<1> HIDE DEF s
<1>8. \A t \in Streams : Queue(t)' = IF t = s THEN Tail(Queue(t)) ELSE Queue(t)
  <2> TAKE t \in Streams
  <2>1. Queue(t)' = mux'[t]
    BY <1>7 DEF Queue, Held
  <2> QED
    BY <1>1, <1>2, <1>6, <2>1
<1>9. \A t \in Streams : ~Control(Head(Queue(t))) => Head(Queue(s)).key <= Head(Queue(t)).key
  BY <1>1, <1>2, <1>4, <1>5 DEF MediaFirst
<1> QED
  BY <1>2, <1>5, <1>6, <1>7, <1>8, <1>9 DEF s

(* When only control packets are in front one of them goes on, and all go.  *)
LEMMA TakesControl ==
  ASSUME VideoAndAudio, PipelineTypes, Contents, AtTheEnd, TakeControl
  PROVE  /\ \A t \in Streams : Queue(t) # <<>> /\ Control(Head(Queue(t)))
         /\ \E s \in Streams : out' = Append(out, Head(Queue(s)))
         /\ DOMAIN mux' \subseteq Streams
         /\ \A t \in Streams : Queue(t)' = IF Head(Queue(t)).type = "end" THEN <<>> ELSE Tail(Queue(t))
<1>1. DOMAIN mux = Streams /\ DOMAIN mux \in SUBSET Nat /\ IsFiniteSet(DOMAIN mux) /\ DOMAIN mux # {}
  BY MuxAssumption DEF AtTheEnd, TakeControl, Taking, VideoAndAudio
<1>2. \A t \in Streams : Queue(t) = mux[t] /\ mux[t] # <<>> /\ mux[t] \in Seq(Queued)
  BY <1>1, QueueInTable DEF TakeControl, Dry, PipelineTypes
<1>3. \A t \in Streams : Head(mux[t]) \in Queued
  BY <1>2, Beheaded
<1>4. \A t \in MediaFirst(mux) : Head(mux[t]).key \in Nat
  <2> TAKE t \in MediaFirst(mux)
  <2>1. t \in Streams /\ ~Control(Head(mux[t]))
    BY <1>1 DEF MediaFirst
  <2>2. Head(mux[t]) \in MediaEntry
    BY <1>3, <2>1, Labels
  <2> QED
    BY <2>2 DEF MediaEntry
<1>5. MediaFirst(mux) = {}
  BY <1>1, <1>4, LowestKey DEF TakeControl
<1>6. \A t \in Streams : Control(Head(mux[t]))
  BY <1>1, <1>5 DEF MediaFirst
<1>7. \A t \in DOMAIN mux : Head(mux[t]).dts \in Nat
  BY <1>1, <1>3, Labels DEF Queued
<1>8. \E s \in DOMAIN mux : UnifiedOf(mux) = Head(mux[s])
  BY <1>1, <1>7, OneOfHeads
<1>9. mux' = AfterReset(mux) /\ out' = Append(out, UnifiedOf(mux))
  BY DEF TakeControl
<1>10. /\ DOMAIN mux' = {t \in Streams : Head(mux[t]).type # "end"}
       /\ \A t \in DOMAIN mux' : mux'[t] = Tail(mux[t])
  BY <1>1, <1>9 DEF AfterReset
<1>11. \A t \in Streams : Queue(t)' = IF Head(Queue(t)).type = "end" THEN <<>> ELSE Tail(Queue(t))
  BY <1>2, <1>10 DEF Queue, Held
<1> QED
  BY <1>1, <1>2, <1>6, <1>8, <1>9, <1>10, <1>11

(* A frame becomes two or three packets, the parts of the frame last.       *)
LEMMA FramePackets ==
  ASSUME NEW p \in MediaEntry
  PROVE  LET P == PacketsOf(p) IN
         /\ P \in Seq(TSPacket) /\ Len(P) \in {2, 3}
         /\ \A i \in 1..Len(P) : /\ P[i].stream = p.stream /\ P[i].loop = p.loop /\ P[i].n = p.n
                                 /\ P[i].frame = p.frame /\ P[i].dts = p.dts /\ ~Control(P[i])
         /\ \A i, j \in 1..Len(P) : i < j => P[i].part = "psi" \/ (P[i].part = "start" /\ P[j].part = "rest")
         /\ \A part \in {"start", "rest"} : \E i \in 1..Len(P) : P[i].part = part
         /\ P[1].part = "psi" <=> psi \/ (p.stream = Video /\ p.frame)
<1> DEFINE tables == psi \/ (p.stream = Video /\ p.frame)
           parts == IF tables THEN <<"psi", "start", "rest">> ELSE <<"start", "rest">>
           P == PacketsOf(p)
           n == IF tables THEN 3 ELSE 2
<1>2. /\ DOMAIN parts = 1..n
      /\ tables => parts[1] = "psi" /\ parts[2] = "start" /\ parts[3] = "rest"
      /\ ~tables => parts[1] = "start" /\ parts[2] = "rest"
  <2> HIDE DEF tables
  <2>1. CASE tables
    BY <2>1
  <2>2. CASE ~tables
    BY <2>2
  <2> QED
    BY <2>1, <2>2
<1>3. P = [i \in 1..n |-> [stream |-> p.stream, type |-> p.type, loop |-> p.loop, n |-> p.n,
                           frame |-> p.frame, dts |-> p.dts, part |-> parts[i]]]
  BY <1>2 DEF PacketsOf
<1> HIDE DEF parts, P, tables
<1>4. \A i \in 1..n : parts[i] \in {"psi", "start", "rest"}
  <2>1. \A i \in 1..n : i = 1 \/ i = 2 \/ (i = 3 /\ tables)
    OBVIOUS
  <2> QED
    BY <1>2, <2>1
<1>5. \A i \in 1..n : /\ P[i] \in TSPacket
                      /\ P[i].stream = p.stream /\ P[i].loop = p.loop /\ P[i].n = p.n
                      /\ P[i].frame = p.frame /\ P[i].dts = p.dts /\ P[i].part = parts[i]
  <2> TAKE i \in 1..n
  <2>1. P[i] = [stream |-> p.stream, type |-> p.type, loop |-> p.loop, n |-> p.n,
                frame |-> p.frame, dts |-> p.dts, part |-> parts[i]]
    BY <1>3
  <2>2. P[i] \in TSPacket
    BY <1>4, <2>1 DEF TSPacket, MediaEntry
  <2> QED
    BY <2>1, <2>2
<1>6. P \in [1..n -> TSPacket]
  BY <1>3, <1>5
<1>7. P \in Seq(TSPacket) /\ Len(P) = n
  <2>1. P \in Seq(TSPacket)
    <3>1. n \in Nat
      OBVIOUS
    <3> QED
      BY <1>6, <3>1, SeqDef
  <2>2. DOMAIN P = 1..Len(P) /\ Len(P) \in Nat /\ DOMAIN P = 1..n
    BY <1>6, <2>1, LenProperties
  <2> QED
    BY <2>1, <2>2
<1>8. \A i \in 1..n : ~Control(P[i])
  BY <1>5, Labels
<1>9. \A i, j \in 1..n : i < j => P[i].part = "psi" \/ (P[i].part = "start" /\ P[j].part = "rest")
  <2>1. \A i, j \in 1..n : i < j => (i = 1 /\ j = 2) \/ (tables /\ i = 1 /\ j = 3) \/ (tables /\ i = 2 /\ j = 3)
    OBVIOUS
  <2> QED
    BY <1>2, <1>5, <2>1
<1>10. \A part \in {"start", "rest"} : \E i \in 1..n : P[i].part = part
  <2>1. 1 \in 1..n /\ 2 \in 1..n /\ (tables => 3 \in 1..n)
    OBVIOUS
  <2> QED
    BY <1>2, <1>5, <2>1
<1>11. P[1].part = "psi" <=> tables
  <2>1. 1 \in 1..n
    OBVIOUS
  <2> QED
    BY <1>2, <1>5, <2>1
<1>12. n \in {2, 3}
  OBVIOUS
<1> QED
  BY <1>5, <1>7, <1>8, <1>9, <1>10, <1>11, <1>12 DEF P, tables

(* What is written is the last packet of the last segment. *)
LEMMA WritesLast ==
  ASSUME NEW p \in TSPacket, segs \in Seq(Seq(TSPacket)), open => segs # <<>>,
         NEW w, w = Written(p), NEW K, K = Len(w), NEW I, I = Len(w[K])
  PROVE  /\ w \in Seq(Seq(TSPacket)) /\ K \in 1..K /\ I \in 1..I /\ w[K][I] = p
         /\ Len(segs) \in Nat /\ K \in Nat /\ I \in Nat
         /\ IF open /\ ~Cuts(p) THEN K = Len(segs) /\ I = Len(segs[K]) + 1
                                ELSE K = Len(segs) + 1 /\ I = 1
         /\ \A k \in 1..Len(segs) : k < K => w[k] = segs[k]
         /\ \A k \in 1..K : \A i \in 1..Len(w[k]) :
              \/ k = K /\ i = I
              \/ /\ k \in 1..Len(segs) /\ i \in 1..Len(segs[k]) /\ w[k][i] = segs[k][i]
                 /\ (k < K \/ (k = K /\ i < I))
         /\ \A k \in 1..Len(segs) : \A i \in 1..Len(segs[k]) :
              /\ k \in 1..K /\ i \in 1..Len(w[k]) /\ w[k][i] = segs[k][i]
              /\ (k < K \/ (k = K /\ i < I))
<1> DEFINE n == Len(segs)
<1>1. n \in Nat /\ \A k \in 1..n : segs[k] \in Seq(TSPacket) /\ Len(segs[k]) \in Nat
  BY LenProperties, ElementOfSeq
<1>2. CASE open /\ ~Cuts(p)
  <2>1. n \in 1..n /\ n # 0
    BY <1>1, <1>2, EmptySeq
  <2>2. w = [segs EXCEPT ![n] = Append(segs[n], p)]
    BY <1>2 DEF Written
  <2> DEFINE a == Append(segs[n], p)
  <2>3. a \in Seq(TSPacket) /\ Len(a) = Len(segs[n]) + 1 /\ a[Len(a)] = p
        /\ \A i \in 1..Len(segs[n]) : a[i] = segs[n][i]
    BY <1>1, <2>1, Appended
  <2> HIDE DEF a
  <2>4. w \in Seq(Seq(TSPacket)) /\ Len(w) = n /\ \A k \in 1..n : w[k] = IF k = n THEN a ELSE segs[k]
    BY <2>1, <2>2, <2>3, ExceptSeq DEF a
  <2> HIDE DEF n
  <2>5. \A k \in 1..n : \A i \in 1..Len(w[k]) :
              \/ k = n /\ i = Len(a)
              \/ /\ k \in 1..n /\ i \in 1..Len(segs[k]) /\ w[k][i] = segs[k][i]
                 /\ (k < n \/ (k = n /\ i < Len(a)))
    <3> TAKE k \in 1..n
    <3> TAKE i \in 1..Len(w[k])
    <3>1. CASE k = n
      <4>1. w[k] = a /\ Len(segs[n]) \in Nat
        BY <1>1, <2>1, <2>4, <3>1
      <4>2. i = Len(a) \/ i \in 1..Len(segs[n])
        BY <2>3, <4>1
      <4> QED
        BY <2>3, <3>1, <4>1, <4>2, SMTT(30)
    <3>2. CASE k # n
      <4>1. w[k] = segs[k] /\ k < n
        BY <1>1, <2>4, <3>2
      <4> QED
        BY <4>1
    <3> QED
      BY <3>1, <3>2
  <2>6. \A k \in 1..n : \A i \in 1..Len(segs[k]) :
              /\ i \in 1..Len(w[k]) /\ w[k][i] = segs[k][i]
              /\ (k < n \/ (k = n /\ i < Len(a)))
    <3> TAKE k \in 1..n
    <3> TAKE i \in 1..Len(segs[k])
    <3>1. CASE k = n
      BY <1>1, <2>3, <2>4, <3>1
    <3>2. CASE k # n
      BY <1>1, <2>4, <3>2
    <3> QED
      BY <3>1, <3>2
  <2>7. w[n] = a /\ Len(segs[n]) \in Nat /\ \A k \in 1..n : k < n => w[k] = segs[k]
    BY <1>1, <2>1, <2>4
  <2>8. Len(a) \in 1..Len(a) /\ Len(a) \in Nat
    BY <2>3, <2>7
  <2>9. K = n /\ I = Len(a) /\ w[K] = a /\ w[K][I] = p /\ I = Len(segs[K]) + 1
    BY <2>3, <2>4, <2>7
  <2>10. /\ K \in 1..K /\ K \in Nat /\ I \in 1..I /\ I \in Nat
         /\ Len(segs) = K /\ Len(segs) \in Nat
    BY ONLY <1>1, <2>1, <2>8, <2>9 DEF n
  <2>11. \A k \in 1..Len(segs) : k < K => w[k] = segs[k]
    BY ONLY <2>7, <2>9, <2>10
  <2>12. \A k \in 1..K : \A i \in 1..Len(w[k]) :
              \/ k = K /\ i = I
              \/ /\ k \in 1..Len(segs) /\ i \in 1..Len(segs[k]) /\ w[k][i] = segs[k][i]
                 /\ (k < K \/ (k = K /\ i < I))
    BY ONLY <2>5, <2>9, <2>10
  <2>13. \A k \in 1..Len(segs) : \A i \in 1..Len(segs[k]) :
              /\ k \in 1..K /\ i \in 1..Len(w[k]) /\ w[k][i] = segs[k][i]
              /\ (k < K \/ (k = K /\ i < I))
    BY ONLY <2>6, <2>9, <2>10
  <2> QED
    BY ONLY <1>2, <2>4, <2>9, <2>10, <2>11, <2>12, <2>13, Zenon
<1>3. CASE ~(open /\ ~Cuts(p))
  <2> DEFINE a == <<p>>
  <2>1. a \in Seq(TSPacket) /\ Len(a) = 1 /\ a[1] = p
    <3>1. <<>> \in Seq(TSPacket) /\ a = Append(<<>>, p)
      BY EmptySeq
    <3> QED
      BY <3>1
  <2>2. w = Append(segs, a)
    BY <1>3 DEF Written
  <2>3. /\ w \in Seq(Seq(TSPacket)) /\ Len(w) = n + 1 /\ w[n + 1] = a
        /\ \A k \in 1..n : w[k] = segs[k]
    BY <2>1, <2>2, Appended
  <2> HIDE DEF a, n
  <2>4. \A k \in 1..n + 1 : k = n + 1 \/ (k \in 1..n /\ k < n + 1)
    BY <1>1
  <2>5. \A i \in 1..1 : i = 1
    OBVIOUS
  <2>6. \A k \in 1..n : k \in 1..n + 1 /\ k < n + 1
    BY <1>1
  <2>7. n + 1 \in 1..n + 1 /\ n + 1 \in Nat /\ 1 \in 1..1
    BY <1>1
  <2>8. \A k \in 1..n + 1 : \A i \in 1..Len(w[k]) :
              \/ k = n + 1 /\ i = 1
              \/ /\ k \in 1..n /\ i \in 1..Len(segs[k]) /\ w[k][i] = segs[k][i]
                 /\ (k < n + 1 \/ (k = n + 1 /\ i < 1))
    BY <2>1, <2>3, <2>4, <2>5
  <2>9. \A k \in 1..n : \A i \in 1..Len(segs[k]) :
              /\ k \in 1..n + 1 /\ i \in 1..Len(w[k]) /\ w[k][i] = segs[k][i]
              /\ (k < n + 1 \/ (k = n + 1 /\ i < 1))
    BY <2>3, <2>6
  <2>10. K = n + 1 /\ I = 1
    BY <2>1, <2>3
  <2>11. /\ \A k \in 1..n : k < K => w[k] = segs[k]
         /\ w[K] = a /\ w[K][I] = p
    BY <2>1, <2>3, <2>10
  <2> QED
    BY ONLY <1>1, <1>3, <2>3, <2>7, <2>8, <2>9, <2>10, <2>11 DEF n
<1> QED
  BY <1>2, <1>3

-----------------------------------------------------------------------------
(* The pipeline starts within its ranges. *)
LEMMA PipelineInitTypes == VideoAndAudio /\ PipelineInit => PipelineTypes
<1> SUFFICES ASSUME VideoAndAudio, PipelineInit PROVE PipelineTypes
  OBVIOUS
<1>1. file \in Files /\ file \in Seq(FrameRecords) \ {<<>>}
  BY SegmenterAssumption DEF PipelineInit, FrameRecords
<1>2. Len(file) \in Nat \ {0}
  BY <1>1, EmptySeq
<1>3. pos = 1 /\ loop = 0 /\ reading = TRUE /\ Loops \in Nat /\ pos \in 1..Len(file) + 1 /\ loop \in 0..Loops + 1
  BY <1>2, SegmenterAssumption DEF PipelineInit
<1>4. old \in [{0, Video, Audio} -> Nat \cup {-1}]
  BY DEF PipelineInit
<1>5. /\ DOMAIN mux = {} /\ \A s : Queue(s) = <<>>
      /\ <<>> \in Seq(Queued) /\ <<>> \in Seq(Made) /\ <<>> \in Seq(Seq(TSPacket))
  BY EmptySeq DEF PipelineInit, Queue, Held
<1>6. pass \in [phase : {"none", "take", "release"}, ref : {None, Video, Audio}, start : Nat, refDts : Nat]
  BY DEF PipelineInit, NoPass
<1>7. psi = TRUE /\ out = <<>> /\ cutAt = -1 /\ segs = <<>> /\ open = FALSE /\ stopped = FALSE /\ failed = FALSE
  BY DEF PipelineInit
<1>8. /\ (reading <=> loop <= Loops) /\ (loop > Loops => pos = 1) /\ (pos > 1 \/ loop > 0 => old[0] \in Nat)
  BY <1>3
<1>9. \A s \in Streams : Queue(s) \in Seq(Queued)
  BY <1>5
<1> QED
  BY <1>1, <1>3, <1>4, <1>5, <1>6, <1>7, <1>8, <1>9 DEF PipelineTypes

(* A packet that is released is stamped with a number, and so is the cut. *)
LEMMA Stamped ==
  ASSUME VideoAndAudio, PipelineTypes, Releasing, ~Control(Head(out))
  PROVE  LET p == Head(out) IN
         /\ p \in TSPacket /\ Stamp(p) \in Nat /\ CutBase(p) \in Nat /\ Base(Stamp(p)) \in Nat
<1> DEFINE p == Head(out)
<1>1. p \in TSPacket
  <2>1. p \in Made
    BY Beheaded DEF Releasing, PipelineTypes
  <2> QED
    BY <2>1, Labels
<1> HIDE DEF p
<1>2. Stamp(p) \in Nat
  BY <1>1 DEF Stamp, TSPacket, PipelineTypes
<1>3. Base(Stamp(p)) \in Nat
  BY <1>2 DEF Base, PipelineTypes
<1>4. CutBase(p) \in Nat
  <2>1. Interval \in Nat
    BY SegmenterAssumption
  <2> QED
    BY <1>3, <2>1 DEF CutBase
<1> QED
  BY <1>1, <1>2, <1>3, <1>4 DEF p

(* What BeginPass sets up. *)
LEMMA BeginsPass ==
  ASSUME VideoAndAudio, PipelineTypes, Contents, BeginPass
  PROVE  /\ DOMAIN mux = Streams
         /\ \A t \in Streams : /\ Queue(t) # <<>>
                               /\ \/ Queue(t)[Len(Queue(t))].dts - Head(Queue(t)).dts >= Delay
                                  \/ \E i \in 1..Len(Queue(t)) : Control(Queue(t)[i])
         /\ pass'.phase = "take" /\ pass'.refDts = 0
         /\ \/ /\ pass'.ref = None /\ pass'.start = 0 /\ \A t \in Streams : Control(Head(Queue(t)))
            \/ \E s \in Streams :
                 /\ pass'.ref = s /\ pass'.start = Head(Queue(s)).dts /\ ~Control(Head(Queue(s)))
                 /\ s = SelectMux(mux) /\ s # None
                 /\ \A t \in Streams : ~Control(Head(Queue(t))) => Head(Queue(s)).key <= Head(Queue(t)).key
         /\ UNCHANGED <<reader, mux, psi, out, disk, failed>>
<1> DEFINE s == SelectMux(mux)
<1>1. DOMAIN mux = Streams
  <2>1. /\ DOMAIN mux \subseteq {Video, Audio} /\ Cardinality(DOMAIN mux) >= 2
    BY DEF BeginPass, CheckMux, VideoAndAudio, PipelineTypes
  <2>2. IsFiniteSet({Video, Audio}) /\ Cardinality({Video, Audio}) = 2
    <3>1. IsFiniteSet({Video}) /\ Cardinality({Video}) = 1 /\ Audio \notin {Video}
      <4>1. Audio \notin {Video}
        BY DEF Video, Audio
      <4> QED
        BY <4>1, FS_Singleton
    <3>2. /\ IsFiniteSet({Video} \cup {Audio})
          /\ Cardinality({Video} \cup {Audio}) = Cardinality({Video}) + 1
      BY ONLY <3>1, FS_AddElement
    <3>3. {Video, Audio} = {Video} \cup {Audio}
      OBVIOUS
    <3> QED
      BY <3>1, <3>2, <3>3
  <2>3. DOMAIN mux = {Video, Audio}
    <3> SUFFICES ASSUME DOMAIN mux # {Video, Audio} PROVE FALSE
      OBVIOUS
    <3> DEFINE T == {Video, Audio}
               D == DOMAIN mux
    <3>1. IsFiniteSet(T) /\ D \in SUBSET T /\ Cardinality(T) = 2 /\ Cardinality(D) >= 2 /\ D # T
      BY <2>1, <2>2
    <3> HIDE DEF T, D
    <3>2. IsFiniteSet(D) /\ Cardinality(D) <= Cardinality(T) /\ (Cardinality(T) = Cardinality(D) => T = D)
      BY ONLY <3>1, FS_Subset
    <3>3. Cardinality(D) \in Nat
      BY ONLY <3>2, FS_CardinalityType
    <3> QED
      BY ONLY <3>1, <3>2, <3>3
  <2> QED
    BY <2>3 DEF VideoAndAudio
<1>2. \A t \in Streams : Queue(t) = mux[t] /\ mux[t] # <<>> /\ mux[t] \in Seq(Queued)
  BY <1>1, QueueInTable DEF BeginPass, CheckMux, PipelineTypes
<1>3. \A t \in Streams : DOMAIN mux[t] = 1..Len(mux[t])
  BY <1>2, LenProperties
<1>4. \A t \in Streams : \/ Queue(t)[Len(Queue(t))].dts - Head(Queue(t)).dts >= Delay
                         \/ \E i \in 1..Len(Queue(t)) : Control(Queue(t)[i])
  BY <1>1, <1>2, <1>3 DEF BeginPass, CheckMux, Last, HasControl
<1>5. \A t \in MediaFirst(mux) : t \in Streams /\ ~Control(Head(mux[t])) /\ Head(mux[t]).key \in Nat
  <2> TAKE t \in MediaFirst(mux)
  <2>1. t \in Streams /\ ~Control(Head(mux[t]))
    BY <1>1 DEF MediaFirst
  <2>2. Head(mux[t]) \in MediaEntry
    BY <1>2, <2>1, Beheaded, Labels
  <2> QED
    BY <2>1, <2>2 DEF MediaEntry
<1>6. /\ s = None => MediaFirst(mux) = {}
      /\ s # None => s \in MediaFirst(mux) /\ \A t \in MediaFirst(mux) : Head(mux[s]).key <= Head(mux[t]).key
  BY <1>1, <1>5, MuxAssumption, LowestKey
<1>7. pass' = [NoPass EXCEPT !.phase = "take", !.ref = s,
                             !.start = IF s = None THEN 0 ELSE Head(mux[s]).dts]
  BY DEF BeginPass
<1> HIDE DEF s
<1>8. /\ pass'.phase = "take" /\ pass'.refDts = 0 /\ pass'.ref = s
      /\ pass'.start = IF s = None THEN 0 ELSE Head(mux[s]).dts
  BY <1>7 DEF NoPass
<1>9. CASE s = None
  <2>1. \A t \in Streams : Control(Head(Queue(t)))
    BY <1>1, <1>2, <1>6, <1>9 DEF MediaFirst
  <2> QED
    BY <1>1, <1>2, <1>4, <1>8, <1>9, <2>1 DEF BeginPass
<1>10. CASE s # None
  <2>1. s \in Streams /\ ~Control(Head(Queue(s))) /\ Head(Queue(s)) = Head(mux[s])
    BY <1>2, <1>5, <1>6, <1>10
  <2>2. \A t \in Streams : ~Control(Head(Queue(t))) => Head(Queue(s)).key <= Head(Queue(t)).key
    BY <1>1, <1>2, <1>6, <1>10, <2>1 DEF MediaFirst
  <2> QED
    BY <1>1, <1>2, <1>4, <1>8, <1>10, <2>1, <2>2 DEF BeginPass, s
<1> QED
  BY <1>9, <1>10

(* Every step keeps the ranges. *)
LEMMA PipelineStepTypes ==
  ASSUME VideoAndAudio, PipelineTypes, Contents, AtTheEnd, PipelineNext
  PROVE  PipelineTypes'
<1>1. /\ file \in Seq(FrameRecords) /\ file # <<>> /\ pos \in 1..Len(file) + 1 /\ loop \in 0..Loops + 1
      /\ reading \in BOOLEAN /\ (reading <=> loop <= Loops) /\ (loop > Loops => pos = 1)
      /\ old \in [{0, Video, Audio} -> Nat \cup {-1}] /\ (pos > 1 \/ loop > 0 => old[0] \in Nat)
      /\ DOMAIN mux \subseteq Streams /\ \A s \in Streams : Queue(s) \in Seq(Queued)
      /\ pass \in [phase : {"none", "take", "release"}, ref : {None, Video, Audio}, start : Nat, refDts : Nat]
      /\ psi \in BOOLEAN /\ open \in BOOLEAN /\ stopped \in BOOLEAN /\ failed \in BOOLEAN
      /\ out \in Seq(Made) /\ cutAt \in Nat \cup {-1}
      /\ segs \in Seq(Seq(TSPacket)) /\ (open => segs # <<>>)
  BY DEF PipelineTypes
<1>2. CASE ReadFrame
  <2>1. PICK p \in MediaEntry :
           /\ pos \in 1..Len(file) /\ p.stream \in Streams
           /\ old' = [old EXCEPT ![0] = p.dts, ![p.stream] = p.dts]
           /\ DOMAIN mux' = DOMAIN mux \cup {p.stream}
           /\ \A t \in Streams : Queue(t)' = IF t = p.stream THEN Append(Queue(t), p) ELSE Queue(t)
    BY <1>2, ReadsFrame
  <2>2. p.dts \in Nat /\ p \in Queued
    BY <2>1 DEF MediaEntry, Queued
  <2>3. old' \in [{0, Video, Audio} -> Nat \cup {-1}] /\ old'[0] \in Nat
    BY <1>1, <2>1, <2>2
  <2>4. \A s \in Streams : Queue(s)' \in Seq(Queued)
    <3> TAKE s \in Streams
    <3>1. Queue(s) \in Seq(Queued) /\ Append(Queue(s), p) \in Seq(Queued)
      BY <1>1, <2>2, Appended
    <3> QED
      BY <2>1, <3>1
  <2>5. /\ pos' = pos + 1 /\ UNCHANGED <<file, loop, reading, pass, psi, out, cutAt, segs, open, stopped, failed>>
    BY <1>2 DEF ReadFrame, disk
  <2>6. pos' \in 1..Len(file) + 1 /\ (loop > Loops => pos' = 1)
    <3>1. reading /\ Len(file) \in Nat
      BY <1>1, <1>2, LenProperties DEF ReadFrame
    <3> QED
      BY <1>1, <2>1, <2>5, <3>1, SegmenterAssumption
  <2> QED
    <3>1. DOMAIN mux' \subseteq Streams
      BY <1>1, <2>1
    <3>2. /\ file' \in Seq(FrameRecords) /\ file' # <<>> /\ loop' \in 0..Loops + 1
          /\ reading' \in BOOLEAN /\ (reading' <=> loop' <= Loops) /\ out' \in Seq(Made)
          /\ pass' \in [phase : {"none", "take", "release"}, ref : {None, Video, Audio}, start : Nat, refDts : Nat]
      BY <1>1, <2>5
    <3>3. /\ psi' \in BOOLEAN /\ open' \in BOOLEAN /\ stopped' \in BOOLEAN /\ failed' \in BOOLEAN
          /\ cutAt' \in Nat \cup {-1} /\ segs' \in Seq(Seq(TSPacket)) /\ (open' => segs' # <<>>)
      BY <1>1, <2>5
    <3>4. pos' \in 1..Len(file') + 1 /\ (loop' > Loops => pos' = 1)
      BY <2>5, <2>6
    <3> QED
      BY ONLY <2>3, <2>4, <3>1, <3>2, <3>3, <3>4 DEF PipelineTypes
<1>3. CASE ReadEnd
  <2>1. PICK c \in ControlEntry : \A t \in Streams : Queue(t)' = Append(Queue(t), c)
    BY <1>3, ReadsEnd
  <2>2. \A s \in Streams : Queue(s)' \in Seq(Queued)
    <3> TAKE s \in Streams
    <3>1. Queue(s) \in Seq(Queued) /\ c \in Queued
      BY <1>1 DEF Queued
    <3>2. Append(Queue(s), c) \in Seq(Queued)
      BY <3>1, Appended
    <3> QED
      BY <2>1, <3>2
  <2>3. pos = Len(file) + 1 /\ loop \in 0..Loops /\ DOMAIN mux' = Streams
    BY <1>3, ReadsEnd
  <2>4. /\ pos' = 1 /\ loop' = loop + 1 /\ reading' = (loop < Loops)
        /\ UNCHANGED <<file, old, pass, psi, out, cutAt, segs, open, stopped, failed>>
    BY <1>3 DEF ReadEnd, disk
  <2>5. Len(file) \in Nat \ {0} /\ Loops \in Nat
    BY <1>1, EmptySeq, SegmenterAssumption
  <2>6. old[0] \in Nat /\ pos' \in 1..Len(file) + 1 /\ loop' \in 0..Loops + 1 /\ (reading' <=> loop' <= Loops)
    <3>1. pos > 1 /\ loop \in Nat /\ loop <= Loops
      BY <2>3, <2>5
    <3>2. old[0] \in Nat
      BY <1>1, <3>1
    <3>3. pos' \in 1..Len(file) + 1
      BY <2>4, <2>5
    <3>4. loop' \in 0..Loops + 1 /\ (loop' <= Loops <=> loop < Loops)
      BY <2>4, <2>5, <3>1
    <3> QED
      BY <2>4, <3>2, <3>3, <3>4
  <2> QED
    BY ONLY <1>1, <2>2, <2>3, <2>4, <2>6 DEF PipelineTypes
<1>4. CASE BeginPass
  <2>1. /\ pass'.phase = "take" /\ pass'.refDts = 0 /\ UNCHANGED <<reader, mux, psi, out, disk, failed>>
        /\ \/ pass'.ref = None /\ pass'.start = 0
           \/ \E s \in Streams : pass'.ref = s /\ pass'.start = Head(Queue(s)).dts /\ Queue(s) # <<>>
    BY <1>4, BeginsPass
  <2>2. pass' = [phase |-> pass'.phase, ref |-> pass'.ref, start |-> pass'.start, refDts |-> pass'.refDts]
    BY <1>4 DEF BeginPass, NoPass
  <2>3. pass'.start \in Nat /\ pass'.ref \in {None, Video, Audio}
    <3>1. CASE pass'.ref = None /\ pass'.start = 0
      BY <3>1
    <3>2. CASE \E s \in Streams : pass'.ref = s /\ pass'.start = Head(Queue(s)).dts /\ Queue(s) # <<>>
      <4>1. PICK s \in Streams : pass'.ref = s /\ pass'.start = Head(Queue(s)).dts /\ Queue(s) # <<>>
        BY <3>2
      <4>2. Head(Queue(s)) \in Queued
        BY <1>1, <4>1, Beheaded
      <4> QED
        BY <4>1, <4>2, Labels DEF VideoAndAudio
    <3> QED
      BY <2>1, <3>1, <3>2
  <2>4. pass' \in [phase : {"none", "take", "release"}, ref : {None, Video, Audio}, start : Nat, refDts : Nat]
    BY <2>1, <2>2, <2>3
  <2>5. /\ UNCHANGED <<file, pos, loop, old, reading, mux, psi, out, cutAt, segs, open, stopped, failed>>
        /\ \A s \in Streams : Queue(s)' = Queue(s)
    BY <2>1 DEF reader, disk, Queue
  <2> QED
    BY ONLY <1>1, <2>4, <2>5 DEF PipelineTypes
<1>5. CASE TakeFrame
  <2>1. PICK s \in Streams :
           /\ Queue(s) # <<>> /\ ~Control(Head(Queue(s)))
           /\ out' = out \o PacketsOf(Head(Queue(s))) /\ DOMAIN mux' = Streams
           /\ \A t \in Streams : Queue(t)' = IF t = s THEN Tail(Queue(t)) ELSE Queue(t)
    BY <1>5, TakesFrame
  <2>2. \A t \in Streams : Queue(t)' \in Seq(Queued)
    <3> TAKE t \in Streams
    <3>1. Queue(t) \in Seq(Queued) /\ (Queue(t) # <<>> => Tail(Queue(t)) \in Seq(Queued))
      BY <1>1, Beheaded
    <3> QED
      BY <2>1, <3>1
  <2>3. out' \in Seq(Made)
    <3>1. Head(Queue(s)) \in MediaEntry
      BY <1>1, <2>1, Beheaded, Labels
    <3>2. PacketsOf(Head(Queue(s))) \in Seq(TSPacket)
      BY <3>1, FramePackets
    <3>3. PacketsOf(Head(Queue(s))) \in Seq(Made)
      BY <3>2, SeqMonotonic DEF Made
    <3> QED
      BY <1>1, <2>1, <3>3, ConcatProperties
  <2>4. UNCHANGED <<file, pos, loop, old, reading, pass, cutAt, segs, open, stopped, failed>> /\ psi' = FALSE
    BY <1>5 DEF TakeFrame, reader, disk
  <2> QED
    BY ONLY <1>1, <2>1, <2>2, <2>3, <2>4 DEF PipelineTypes
<1>6. CASE TakeControl
  <2>1. PICK s \in Streams : out' = Append(out, Head(Queue(s)))
    BY <1>6, TakesControl
  <2>2. /\ \A t \in Streams : Queue(t) # <<>> /\ Control(Head(Queue(t)))
        /\ \A t \in Streams : Queue(t)' = IF Head(Queue(t)).type = "end" THEN <<>> ELSE Tail(Queue(t))
        /\ DOMAIN mux' \subseteq Streams
    BY <1>6, TakesControl
  <2>3. \A t \in Streams : Queue(t)' \in Seq(Queued)
    <3> TAKE t \in Streams
    <3>1. Tail(Queue(t)) \in Seq(Queued) /\ <<>> \in Seq(Queued)
      BY <1>1, <2>2, Beheaded, EmptySeq
    <3> QED
      BY <2>2, <3>1
  <2>4. out' \in Seq(Made)
    <3>1. Head(Queue(s)) \in ControlEntry
      BY <1>1, <2>2, Beheaded, Labels
    <3> QED
      BY <1>1, <2>1, <3>1, Appended DEF Made
  <2>5. /\ UNCHANGED <<file, pos, loop, old, reading, cutAt, segs, open, stopped, failed>> /\ psi' = TRUE
        /\ pass' = [pass EXCEPT !.phase = "release"]
    BY <1>6 DEF TakeControl, reader, disk
  <2>6. pass' \in [phase : {"none", "take", "release"}, ref : {None, Video, Audio}, start : Nat, refDts : Nat]
    BY <1>1, <2>5
  <2> QED
    BY ONLY <1>1, <2>2, <2>3, <2>4, <2>5, <2>6 DEF PipelineTypes
<1>7. CASE ReleaseMedia
  <2> DEFINE p == Head(out)
  <2>1. p \in TSPacket /\ Stamp(p) \in Nat /\ CutBase(p) \in Nat
    BY <1>7, Stamped DEF ReleaseMedia
  <2>2. out # <<>> /\ out' = Tail(out) /\ out' \in Seq(Made)
    BY <1>1, <1>7, Beheaded DEF ReleaseMedia, Releasing
  <2>3. /\ pass' = [pass EXCEPT !.refDts = Stamp(p)] /\ cutAt' = CutBase(p) /\ segs' = Written(p) /\ open' = TRUE
        /\ UNCHANGED <<file, pos, loop, old, reading, mux, psi, stopped, failed>>
    BY <1>7 DEF ReleaseMedia, reader
  <2> HIDE DEF p
  <2>4. segs' \in Seq(Seq(TSPacket)) /\ Len(segs') \in 1..Len(segs')
    <3> SUFFICES ASSUME NEW w, w = Written(p), NEW K, K = Len(w), NEW I, I = Len(w[K])
                 PROVE  w \in Seq(Seq(TSPacket)) /\ K \in 1..K
      BY <2>3
    <3> QED
      BY <1>1, <2>1, WritesLast, SMTT(30)
  <2>5. segs' # <<>>
    BY <2>4, EmptySeq
  <2>6. pass' \in [phase : {"none", "take", "release"}, ref : {None, Video, Audio}, start : Nat, refDts : Nat]
    BY <1>1, <2>1, <2>3
  <2>7. \A s \in Streams : Queue(s)' = Queue(s)
    BY <2>3 DEF Queue
  <2> QED
    BY ONLY <1>1, <2>1, <2>2, <2>3, <2>4, <2>5, <2>6, <2>7 DEF PipelineTypes
<1>8. CASE ReleaseControl
  <2>1. out # <<>> /\ out' = Tail(out) /\ out' \in Seq(Made)
    BY <1>1, <1>8, Beheaded DEF ReleaseControl, Releasing
  <2>2. /\ open' = FALSE /\ stopped' \in BOOLEAN
        /\ UNCHANGED <<file, pos, loop, old, reading, mux, pass, psi, cutAt, segs, failed>>
    BY <1>1, <1>8 DEF ReleaseControl, reader
  <2>3. \A s \in Streams : Queue(s)' = Queue(s)
    BY <2>2 DEF Queue
  <2> QED
    BY ONLY <1>1, <2>1, <2>2, <2>3 DEF PipelineTypes
<1>9. CASE TakeEnough \/ RunDry \/ EndPass \/ PipelineDone
  <2>1. /\ UNCHANGED <<file, pos, loop, old, reading, mux, psi, out, cutAt, segs, open, stopped>>
        /\ failed' \in BOOLEAN
        /\ pass' = pass \/ pass' = NoPass \/ pass' = [pass EXCEPT !.phase = "release"]
    BY <1>1, <1>9 DEF TakeEnough, RunDry, EndPass, PipelineDone, reader, disk, pipelineVars
  <2>2. pass' \in [phase : {"none", "take", "release"}, ref : {None, Video, Audio}, start : Nat, refDts : Nat]
    BY <1>1, <2>1, SMTT(30) DEF NoPass
  <2>3. \A s \in Streams : Queue(s)' = Queue(s)
    BY <2>1 DEF Queue
  <2> QED
    BY ONLY <1>1, <2>1, <2>2, <2>3 DEF PipelineTypes
<1> QED
  BY <1>2, <1>3, <1>4, <1>5, <1>6, <1>7, <1>8, <1>9 DEF PipelineNext

-----------------------------------------------------------------------------
(* A packet that the step of the reader adds to the queue of stream s.      *)
ReadNow(p) == p.loop < loop' \/ (p.loop = loop' /\ ~Control(p) /\ p.n < pos')
Newest(p, s) ==
  /\ p \in Queued /\ ReadNow(p) /\ Belongs(p, s)
  /\ \A r \in Queued \cup Made : Read(r) => Earlier(r, p)

(* What the reader adds to a queue is later than all it has read before.    *)
LEMMA ReaderAdds ==
  ASSUME VideoAndAudio, PipelineTypes, ReadFrame \/ ReadEnd
  PROVE  /\ \A t \in Streams : \/ Queue(t)' = Queue(t)
                               \/ \E p \in Queued : Newest(p, t) /\ Queue(t)' = Append(Queue(t), p)
         /\ \A r \in Queued \cup Made : Read(r) => ReadNow(r)
         /\ UNCHANGED <<file, pass, psi, out, disk, failed>>
<1>1. /\ loop \in Nat /\ pos \in Nat \ {0} /\ Loops \in Nat /\ Len(file) \in Nat
  <2>1. Len(file) \in Nat /\ Loops \in Nat
    BY LenProperties, SegmenterAssumption DEF PipelineTypes
  <2> QED
    BY <2>1 DEF PipelineTypes
<1>2. \A r \in Queued \cup Made : r.loop \in Nat /\ (~Control(r) => r.n \in Nat)
  BY Labels
<1>3. CASE ReadFrame
  <2>1. PICK p \in MediaEntry :
           /\ pos \in 1..Len(file) /\ p.stream = file[pos].stream
           /\ p.loop = loop /\ p.n = pos /\ p.key = p.dts
           /\ \A t \in Streams : Queue(t)' = IF t = p.stream THEN Append(Queue(t), p) ELSE Queue(t)
    BY <1>3, ReadsFrame
  <2>2. pos' = pos + 1 /\ loop' = loop /\ UNCHANGED <<file, pass, psi, out, disk, failed>>
    BY <1>3 DEF ReadFrame
  <2>3. \A r \in Queued \cup Made : Read(r) => ReadNow(r)
    BY <1>1, <1>2, <2>2 DEF Read, ReadNow
  <2>4. ~Control(p) /\ p \in Queued
    BY Labels DEF Queued
  <2>5. \A r \in Queued \cup Made : Read(r) => Earlier(r, p)
    BY <1>1, <1>2, <2>1, <2>4 DEF Read, Earlier
  <2>6. ReadNow(p) /\ Belongs(p, p.stream)
    BY <1>1, <2>1, <2>2, <2>4 DEF ReadNow, Belongs
  <2> QED
    BY <2>1, <2>2, <2>3, <2>4, <2>5, <2>6 DEF Newest
<1>4. CASE ReadEnd
  <2>1. PICK c \in ControlEntry :
           /\ c.loop = loop /\ c.type = IF loop < Loops THEN "reset" ELSE "end"
           /\ \A t \in Streams : Queue(t)' = Append(Queue(t), c)
    BY <1>4, ReadsEnd
  <2>2. pos' = 1 /\ loop' = loop + 1 /\ UNCHANGED <<file, pass, psi, out, disk, failed>>
    BY <1>4 DEF ReadEnd
  <2>3. \A r \in Queued \cup Made : Read(r) => ReadNow(r)
    BY <1>1, <1>2, <2>2 DEF Read, ReadNow
  <2>4. Control(c) /\ c \in Queued
    BY Labels DEF Queued
  <2>5. \A r \in Queued \cup Made : Read(r) => Earlier(r, c)
    BY <1>1, <1>2, <2>1, <2>4 DEF Read, Earlier
  <2>6. ReadNow(c) /\ \A t : Belongs(c, t)
    BY <1>1, <2>1, <2>2, <2>4 DEF ReadNow, Belongs
  <2> QED
    BY <2>1, <2>2, <2>3, <2>4, <2>5, <2>6 DEF Newest
<1> QED
  BY <1>3, <1>4

(* So every line keeps its order at its end, where the reader is.           *)
LEMMA ReaderInLine ==
  ASSUME VideoAndAudio, PipelineTypes, Contents, InLine, ReadFrame \/ ReadEnd
  PROVE  Contents' /\ InLine'
<1>1. /\ \A t \in Streams : \/ Queue(t)' = Queue(t)
                            \/ \E p \in Queued : Newest(p, t) /\ Queue(t)' = Append(Queue(t), p)
      /\ \A r \in Queued \cup Made : Read(r) => ReadNow(r)
      /\ UNCHANGED <<file, out, segs>>
  BY ReaderAdds DEF disk
<1>2. /\ \A s \in Streams : Queue(s) \in Seq(Queued) /\ Len(Queue(s)) \in Nat
      /\ \A s \in Streams : \A i \in 1..Len(Queue(s)) : Queue(s)[i] \in Queued /\ Read(Queue(s)[i])
  BY LenProperties, ElementOfSeq DEF PipelineTypes, Contents
<1>3. ASSUME NEW t \in Streams, NEW i \in 1..Len(Queue(t)')
      PROVE  \/ i \in 1..Len(Queue(t)) /\ Queue(t)'[i] = Queue(t)[i]
             \/ i = Len(Queue(t)) + 1 /\ Newest(Queue(t)'[i], t)
  <2>1. CASE Queue(t)' = Queue(t)
    BY <2>1
  <2>2. CASE \E p \in Queued : Newest(p, t) /\ Queue(t)' = Append(Queue(t), p)
    <3>1. PICK p \in Queued : Newest(p, t) /\ Queue(t)' = Append(Queue(t), p)
      BY <2>2
    <3>2. /\ Len(Queue(t)') = Len(Queue(t)) + 1 /\ Queue(t)'[Len(Queue(t)) + 1] = p
          /\ \A j \in 1..Len(Queue(t)) : Queue(t)'[j] = Queue(t)[j]
      <4>1. /\ Len(Append(Queue(t), p)) = Len(Queue(t)) + 1 /\ Append(Queue(t), p)[Len(Queue(t)) + 1] = p
            /\ \A j \in 1..Len(Queue(t)) : Append(Queue(t), p)[j] = Queue(t)[j]
        BY <1>2, Appended
      <4> QED
        BY <3>1, <4>1
    <3>3. i = Len(Queue(t)) + 1 \/ i \in 1..Len(Queue(t))
      BY <1>2, <3>2
    <3> QED
      BY <3>1, <3>2, <3>3
  <2> QED
    BY <1>1, <2>1, <2>2
<1>4. Contents'
  <2> SUFFICES ASSUME NEW t \in Streams, NEW i \in 1..Len(Queue(t)')
               PROVE  ReadNow(Queue(t)'[i]) /\ Belongs(Queue(t)'[i], t)
    BY <1>1 DEF Contents, Read, ReadNow, Belongs
  <2>2. CASE i \in 1..Len(Queue(t)) /\ Queue(t)'[i] = Queue(t)[i]
    BY <1>1, <1>2, <2>2 DEF Contents
  <2>3. CASE i = Len(Queue(t)) + 1 /\ Newest(Queue(t)'[i], t)
    BY <2>3 DEF Newest
  <2> QED
    BY <1>3, <2>2, <2>3
<1>5. ASSUME NEW r \in Queued \cup Made, NEW t \in Streams, Read(r),
             \A j \in 1..Len(Queue(t)) : Earlier(r, Queue(t)[j])
      PROVE  ReadNow(r) /\ \A j \in 1..Len(Queue(t)') : Earlier(r, Queue(t)'[j])
  BY <1>1, <1>3, <1>5 DEF Newest
<1>6. QueuesInLine'
  <2> SUFFICES ASSUME NEW t \in Streams, NEW i \in 1..Len(Queue(t)'), NEW j \in 1..Len(Queue(t)'), i < j
               PROVE  Earlier(Queue(t)'[i], Queue(t)'[j])
    BY DEF QueuesInLine, Earlier
  <2>1. i \in 1..Len(Queue(t)) /\ Queue(t)'[i] = Queue(t)[i]
    <3>1. i # Len(Queue(t)) + 1
      BY <1>2, <1>3
    <3> QED
      BY <1>3, <3>1
  <2>2. CASE j \in 1..Len(Queue(t)) /\ Queue(t)'[j] = Queue(t)[j]
    BY <2>1, <2>2 DEF InLine, QueuesInLine
  <2>3. CASE j = Len(Queue(t)) + 1 /\ Newest(Queue(t)'[j], t)
    BY <1>2, <2>1, <2>3 DEF Newest
  <2> QED
    BY <1>3, <2>2, <2>3
<1>7. ASSUME NEW r \in TSPacket, Ahead(r)
      PROVE  Ahead(r)'
  <2>1. r \in Queued \cup Made /\ r.stream \in Streams
    BY Labels DEF Made, VideoAndAudio
  <2> QED
    BY <1>5, <1>7, <2>1 DEF Ahead, Earlier, Read, ReadNow
<1>8. /\ \A i \in 1..Len(out) : ~Control(out[i]) => out[i] \in TSPacket
      /\ \A k \in 1..Len(segs) : \A i \in 1..Len(segs[k]) : segs[k][i] \in TSPacket
  BY Labels, ElementOfSeq DEF PipelineTypes
<1>9. \A r \in TSPacket : Ahead(r) => Ahead(r)'
  BY <1>7
<1>11. MadeAhead' /\ WrittenAhead'
  <2>1. ASSUME NEW i \in 1..Len(out), ~Control(out[i])
        PROVE  Ahead(out[i])'
    BY <1>1, <1>8, <1>9, <2>1 DEF InLine, MadeAhead
  <2>2. ASSUME NEW k \in 1..Len(segs), NEW i \in 1..Len(segs[k])
        PROVE  Ahead(segs[k][i])'
    BY <1>1, <1>8, <1>9 DEF InLine, WrittenAhead
  <2> QED
    BY <1>1, <2>1, <2>2 DEF MadeAhead, WrittenAhead
<1>10. MadeInLine' /\ WrittenBeforeMade' /\ WrittenInLine'
  BY <1>1, SMTT(30) DEF InLine, MadeInLine, WrittenBeforeMade, WrittenInLine
<1> QED
  BY <1>4, <1>6, <1>10, <1>11 DEF InLine

(* A packet is taken from the front of a queue, or the queue from the table. *)
Taken(t) ==
  Queue(t)' = Queue(t) \/ Queue(t)' = <<>> \/ (Queue(t) # <<>> /\ Queue(t)' = Tail(Queue(t)))

(* What remains in the queue moves up by one place, or not at all.          *)
LEMMA Remaining ==
  ASSUME PipelineTypes, NEW t \in Streams, Taken(t)
  PROVE  \E d \in {0, 1} :
           /\ \A i \in 1..Len(Queue(t)') :
                i \in Nat /\ i + d \in 1..Len(Queue(t)) /\ Queue(t)'[i] = Queue(t)[i + d]
           /\ Queue(t)' = <<>> \/ Len(Queue(t)') + d = Len(Queue(t))
<1>1. Queue(t) \in Seq(Queued) /\ Len(Queue(t)) \in Nat
  BY LenProperties DEF PipelineTypes
<1>2. CASE Queue(t)' = Queue(t)
  BY <1>2
<1>3. CASE Queue(t)' = <<>>
  BY <1>3
<1>4. CASE Queue(t) # <<>> /\ Queue(t)' = Tail(Queue(t))
  <2>1. /\ \A i \in 1..Len(Tail(Queue(t))) : Tail(Queue(t))[i] = Queue(t)[i + 1] /\ i + 1 \in 1..Len(Queue(t))
        /\ Len(Tail(Queue(t))) = Len(Queue(t)) - 1
    BY <1>1, <1>4, Beheaded
  <2>2. Len(Tail(Queue(t))) + 1 = Len(Queue(t))
    BY <1>1, <2>1
  <2>3. /\ Len(Queue(t)') + 1 = Len(Queue(t))
        /\ \A i \in 1..Len(Queue(t)') :
             i \in Nat /\ i + 1 \in 1..Len(Queue(t)) /\ Queue(t)'[i] = Queue(t)[i + 1]
    BY <1>4, <2>1, <2>2
  <2> QED
    BY <2>3
<1> QED
  BY <1>2, <1>3, <1>4 DEF Taken

(* What is taken from the front of the queues leaves the rest in line.      *)
LEMMA TakenInLine ==
  ASSUME VideoAndAudio, PipelineTypes, Contents, QueuesInLine, UNCHANGED <<file, pos, loop>>,
         \A t \in Streams : Taken(t)
  PROVE  Contents' /\ QueuesInLine' /\ \A r \in TSPacket : Ahead(r) => Ahead(r)'
<1>1. \A t \in Streams : \E d \in {0, 1} : \A i \in 1..Len(Queue(t)') :
        i \in Nat /\ i + d \in 1..Len(Queue(t)) /\ Queue(t)'[i] = Queue(t)[i + d]
  BY Remaining
<1>2. Contents'
  <2> SUFFICES ASSUME NEW t \in Streams, NEW i \in 1..Len(Queue(t)')
               PROVE  Read(Queue(t)'[i]) /\ Belongs(Queue(t)'[i], t)
    BY DEF Contents, Read, Belongs
  <2>1. PICK d \in {0, 1} : \A n \in 1..Len(Queue(t)') :
          n + d \in 1..Len(Queue(t)) /\ Queue(t)'[n] = Queue(t)[n + d]
    BY <1>1
  <2> QED
    BY <2>1 DEF Contents
<1>3. QueuesInLine'
  <2> SUFFICES ASSUME NEW t \in Streams, NEW i \in 1..Len(Queue(t)'), NEW j \in 1..Len(Queue(t)'), i < j
               PROVE  Earlier(Queue(t)'[i], Queue(t)'[j])
    BY DEF QueuesInLine, Earlier
  <2>1. PICK d \in {0, 1} : \A n \in 1..Len(Queue(t)') :
          n \in Nat /\ n + d \in 1..Len(Queue(t)) /\ Queue(t)'[n] = Queue(t)[n + d]
    BY <1>1
  <2>2. i + d < j + d
    BY <2>1
  <2> QED
    BY <2>1, <2>2 DEF QueuesInLine
<1>4. ASSUME NEW r \in TSPacket, Ahead(r) PROVE Ahead(r)'
  <2> DEFINE t == r.stream
  <2>1. t \in Streams
    BY Labels DEF Made, VideoAndAudio, TSPacket
  <2> HIDE DEF t
  <2>2. PICK d \in {0, 1} : \A n \in 1..Len(Queue(t)') :
          n + d \in 1..Len(Queue(t)) /\ Queue(t)'[n] = Queue(t)[n + d]
    BY <1>1, <2>1
  <2>3. \A n \in 1..Len(Queue(t)') : Earlier(r, Queue(t)'[n])
    BY <1>4, <2>2 DEF Ahead, t
  <2>4. Read(r)'
    BY <1>4 DEF Ahead, Read
  <2> QED
    BY <2>3, <2>4 DEF Ahead, t, Earlier
<1> QED
  BY <1>2, <1>3, <1>4

(* A frame p leaves the queue of s, and its packets P are made last.        *)
Leaves(s, p) ==
  /\ s = SelectMux(mux) /\ p = Head(Queue(s))
  /\ Queue(s) # <<>> /\ p = Queue(s)[1] /\ 1 \in 1..Len(Queue(s))
  /\ ~Control(p) /\ p.stream = s /\ Read(p)
  /\ \A t \in Streams : Queue(t)' = IF t = s THEN Tail(Queue(t)) ELSE Queue(t)
  /\ \A t \in Streams : \A i \in 1..Len(Queue(t)) :
       \/ t = s /\ i = 1
       \/ \E j \in 1..Len(Queue(t)') : Queue(t)'[j] = Queue(t)[i]
Parts(s, p, P) ==
  /\ P = PacketsOf(p)
  /\ \A i \in 1..Len(P) : /\ P[i].stream = s /\ P[i].loop = p.loop /\ P[i].n = p.n
                          /\ P[i].frame = p.frame /\ P[i].dts = p.dts /\ ~Control(P[i])
  /\ \A i, j \in 1..Len(P) : i < j => P[i].part = "psi" \/ (P[i].part = "start" /\ P[j].part = "rest")
  /\ \A part \in {"start", "rest"} : \E i \in 1..Len(P) : P[i].part = part
  /\ P[1].part = "psi" <=> psi \/ (p.stream = Video /\ p.frame)
Joins(P) ==
  /\ Len(P) \in Nat /\ 1 \in 1..Len(P) /\ Len(out) \in Nat /\ Len(out') = Len(out) + Len(P)
  /\ \A i \in 1..Len(out) : i \in 1..Len(out') /\ out'[i] = out[i]
  /\ \A i \in 1..Len(P) : Len(out) + i \in 1..Len(out') /\ out'[Len(out) + i] = P[i]
  /\ \A i \in 1..Len(out') :
       \/ i \in 1..Len(out)
       \/ i > Len(out) /\ i - Len(out) \in 1..Len(P) /\ out'[i] = P[i - Len(out)]
Moves(s, p, P) == Leaves(s, p) /\ Parts(s, p, P) /\ Joins(P)

(* So does the lowest frame when a frame is taken.                          *)
LEMMA FrameMoves ==
  ASSUME VideoAndAudio, PipelineTypes, Contents, AtTheEnd, TakeFrame
  PROVE  \E s \in Streams, p \in MediaEntry, P \in Seq(TSPacket) : Moves(s, p, P)
<1>1. PICK s \in Streams :
        /\ s = SelectMux(mux) /\ Queue(s) # <<>> /\ ~Control(Head(Queue(s)))
        /\ out' = out \o PacketsOf(Head(Queue(s)))
        /\ \A t \in Streams : Queue(t)' = IF t = s THEN Tail(Queue(t)) ELSE Queue(t)
  BY TakesFrame
<1> DEFINE p == Head(Queue(s))
           P == PacketsOf(p)
<1>2. Queue(s) \in Seq(Queued) /\ Len(Queue(s)) \in Nat \ {0} /\ p = Queue(s)[1] /\ p \in MediaEntry
      /\ 1 \in 1..Len(Queue(s))
  <2>1. Queue(s) \in Seq(Queued)
    BY DEF PipelineTypes
  <2>2. p = Queue(s)[1] /\ p \in Queued /\ Len(Queue(s)) \in Nat \ {0}
    BY <1>1, <2>1, Beheaded
  <2> QED
    BY <1>1, <2>1, <2>2, Labels
<1>3. p.stream = s /\ Read(p)
  BY <1>1, <1>2 DEF Contents, Belongs
<1>4. P \in Seq(TSPacket) /\ Len(P) \in Nat /\ 1 \in 1..Len(P)
  <2>0. p \in MediaEntry
    BY <1>2
  <2> HIDE DEF p
  <2>1. P \in Seq(TSPacket) /\ Len(P) \in {2, 3}
    BY <2>0, FramePackets
  <2>2. Len(P) \in {2, 3} => Len(P) \in Nat /\ 1 \in 1..Len(P)
    OBVIOUS
  <2> QED
    BY <2>1, <2>2
<1>16. /\ \A i \in 1..Len(P) : /\ P[i].stream = s /\ P[i].loop = p.loop /\ P[i].n = p.n
                              /\ P[i].frame = p.frame /\ P[i].dts = p.dts /\ ~Control(P[i])
       /\ \A i, j \in 1..Len(P) : i < j => P[i].part = "psi" \/ (P[i].part = "start" /\ P[j].part = "rest")
       /\ \A part \in {"start", "rest"} : \E i \in 1..Len(P) : P[i].part = part
       /\ P[1].part = "psi" <=> psi \/ (p.stream = Video /\ p.frame)
  <2> HIDE DEF p
  <2>1. p \in MediaEntry /\ p.stream = s
    BY <1>2, <1>3
  <2> QED
    BY <2>1, FramePackets
<1>5. P \in Seq(Made) /\ out \in Seq(Made) /\ Len(out) \in Nat
  BY <1>4, SeqMonotonic, LenProperties DEF Made, PipelineTypes
<1>6. out' = out \o P
  BY <1>1
<1> HIDE DEF P
<1>7. /\ Len(out \o P) = Len(out) + Len(P)
      /\ \A i \in 1..Len(out) + Len(P) : (out \o P)[i] = IF i <= Len(out) THEN out[i] ELSE P[i - Len(out)]
  BY <1>5, ConcatProperties
<1>8. \A i \in 1..Len(P) : /\ Len(out) + i \in 1..Len(out) + Len(P) /\ ~(Len(out) + i <= Len(out))
                           /\ (Len(out) + i) - Len(out) = i
  BY <1>4, <1>5
<1>9. \A i \in 1..Len(out) : i \in 1..Len(out) + Len(P) /\ i <= Len(out)
  BY <1>4, <1>5
<1>10. \A i \in 1..Len(out) + Len(P) :
         i \in 1..Len(out) \/ (i > Len(out) /\ ~(i <= Len(out)) /\ i - Len(out) \in 1..Len(P))
  BY <1>4, <1>5
<1>11. /\ Len(out') = Len(out) + Len(P)
       /\ \A i \in 1..Len(out) : i \in 1..Len(out') /\ out'[i] = out[i]
       /\ \A i \in 1..Len(P) : Len(out) + i \in 1..Len(out') /\ out'[Len(out) + i] = P[i]
       /\ \A i \in 1..Len(out') :
            \/ i \in 1..Len(out)
            \/ i > Len(out) /\ i - Len(out) \in 1..Len(P) /\ out'[i] = P[i - Len(out)]
  BY <1>6, <1>7, <1>8, <1>9, <1>10
<1>12. \A i \in 2..Len(Queue(s)) : i - 1 \in 1..Len(Queue(s)') /\ Queue(s)'[i - 1] = Queue(s)[i]
  <2>1. \A i \in 2..Len(Queue(s)) : Queue(s)[i] = Tail(Queue(s))[i - 1] /\ i - 1 \in 1..Len(Tail(Queue(s)))
    BY <1>1, <1>2, Beheaded
  <2>2. Queue(s)' = Tail(Queue(s))
    BY <1>1
  <2> QED
    BY <2>1, <2>2
<1>13. \A t \in Streams : \A i \in 1..Len(Queue(t)) :
         \/ t = s /\ i = 1
         \/ \E j \in 1..Len(Queue(t)') : Queue(t)'[j] = Queue(t)[i]
  <2> TAKE t \in Streams
  <2> TAKE i \in 1..Len(Queue(t))
  <2>1. CASE t = s
    <3>1. i = 1 \/ i \in 2..Len(Queue(s))
      BY <1>2, <2>1
    <3> QED
      BY <1>12, <2>1, <3>1
  <2>2. CASE t # s
    BY <1>1, <2>2
  <2> QED
    BY <2>1, <2>2
<1> HIDE DEF p
<1>14. P = PacketsOf(p) /\ p = Head(Queue(s))
  BY DEF P, p
<1>15. ~Control(p)
  BY <1>1 DEF p
<1>17. /\ s = SelectMux(mux) /\ Queue(s) # <<>> /\ Read(p) /\ p.stream = s
       /\ \A t \in Streams : Queue(t)' = IF t = s THEN Tail(Queue(t)) ELSE Queue(t)
  BY <1>1, <1>3
<1>18. p = Queue(s)[1] /\ 1 \in 1..Len(Queue(s)) /\ Len(P) \in Nat /\ 1 \in 1..Len(P) /\ Len(out) \in Nat
  BY <1>2, <1>4, <1>5
<1>19. Moves(s, p, P)
  <2>1. Leaves(s, p)
    BY ONLY <1>13, <1>14, <1>15, <1>17, <1>18 DEF Leaves
  <2>2. Parts(s, p, P)
    BY ONLY <1>14, <1>16 DEF Parts
  <2>3. Joins(P)
    BY ONLY <1>11, <1>18 DEF Joins
  <2> QED
    BY <2>1, <2>2, <2>3 DEF Moves
<1> QED
  BY <1>2, <1>4, <1>19

(* The packets of a frame that is taken are behind all that were made, and  *)
(* before what is left in its queue.                                        *)
LEMMA FrameInLine ==
  ASSUME VideoAndAudio, PipelineTypes, Contents, AtTheEnd, InLine, TakeFrame
  PROVE  Contents' /\ InLine'
<1>0. PICK s \in Streams, p \in MediaEntry, P \in Seq(TSPacket) : Moves(s, p, P)
  BY FrameMoves
<1>1. /\ Queue(s) # <<>> /\ p = Queue(s)[1] /\ 1 \in 1..Len(Queue(s))
      /\ ~Control(p) /\ p.stream = s /\ Read(p)
      /\ \A i \in 1..Len(P) : P[i].stream = s /\ P[i].loop = p.loop /\ P[i].n = p.n /\ ~Control(P[i])
      /\ \A i, j \in 1..Len(P) : i < j => P[i].part = "psi" \/ (P[i].part = "start" /\ P[j].part = "rest")
      /\ Len(P) \in Nat /\ Len(out) \in Nat /\ Len(out') = Len(out) + Len(P)
      /\ \A i \in 1..Len(out) : out'[i] = out[i]
      /\ \A i \in 1..Len(out') :
           \/ i \in 1..Len(out)
           \/ i > Len(out) /\ i - Len(out) \in 1..Len(P) /\ out'[i] = P[i - Len(out)]
      /\ \A t \in Streams : Queue(t)' = IF t = s THEN Tail(Queue(t)) ELSE Queue(t)
  <2>1. /\ Queue(s) # <<>> /\ p = Queue(s)[1] /\ 1 \in 1..Len(Queue(s))
        /\ ~Control(p) /\ p.stream = s /\ Read(p)
        /\ \A t \in Streams : Queue(t)' = IF t = s THEN Tail(Queue(t)) ELSE Queue(t)
    BY <1>0 DEF Moves, Leaves
  <2>2. /\ \A i \in 1..Len(P) : P[i].stream = s /\ P[i].loop = p.loop /\ P[i].n = p.n /\ ~Control(P[i])
        /\ \A i, j \in 1..Len(P) : i < j => P[i].part = "psi" \/ (P[i].part = "start" /\ P[j].part = "rest")
    BY <1>0 DEF Moves, Parts
  <2>3. /\ Len(P) \in Nat /\ Len(out) \in Nat /\ Len(out') = Len(out) + Len(P)
        /\ \A i \in 1..Len(out) : out'[i] = out[i]
        /\ \A i \in 1..Len(out') :
             \/ i \in 1..Len(out)
             \/ i > Len(out) /\ i - Len(out) \in 1..Len(P) /\ out'[i] = P[i - Len(out)]
    BY <1>0 DEF Moves, Joins
  <2> QED
    BY ONLY <2>1, <2>2, <2>3
<1>2. UNCHANGED <<file, pos, loop, segs>>
  BY DEF TakeFrame, reader, disk
<1>3. \A t \in Streams : Taken(t)
  BY <1>1 DEF Taken
<1>4. Contents' /\ QueuesInLine' /\ \A r \in TSPacket : Ahead(r) => Ahead(r)'
  BY <1>2, <1>3, TakenInLine DEF InLine
<1>5. Queue(s) \in Seq(Queued)
  BY DEF PipelineTypes
<1>6. p = Queue(s)[1] /\ 1 \in 1..Len(Queue(s))
  BY <1>1
<1>7. /\ \A i \in 1..Len(P) : P[i] \in TSPacket /\ P[i].stream = s /\ P[i].loop = p.loop /\ P[i].n = p.n /\ ~Control(P[i])
      /\ \A i, j \in 1..Len(P) : i < j => P[i].part = "psi" \/ (P[i].part = "start" /\ P[j].part = "rest")
  BY <1>1, ElementOfSeq
<1>8. out \in Seq(Made) /\ \A i \in 1..Len(out) : out[i] \in Made
  BY ElementOfSeq DEF PipelineTypes
<1>10. ASSUME NEW r \in TSPacket, r.stream = s, r.loop = p.loop, r.n = p.n
       PROVE  Ahead(r)'
  <2>1. ~Control(r) /\ ~Control(p)
    BY <1>1, Labels
  <2>2. Read(r)'
    BY <1>1, <1>2, <1>10, <2>1 DEF Read
  <2>3. \A j \in 1..Len(Queue(s)') : Earlier(r, Queue(s)'[j])
    <3> TAKE j \in 1..Len(Queue(s)')
    <3>1. Queue(s)'[j] = Queue(s)[j + 1] /\ j + 1 \in 1..Len(Queue(s)) /\ 1 < j + 1
      <4>1. Queue(s)' = Tail(Queue(s)) /\ j \in 1..Len(Tail(Queue(s)))
        BY <1>1
      <4>2. \A n \in 1..Len(Tail(Queue(s))) : Tail(Queue(s))[n] = Queue(s)[n + 1] /\ n + 1 \in 1..Len(Queue(s))
        BY <1>1, <1>5, Beheaded
      <4>3. j \in Nat /\ 1 <= j
        BY <1>5, <4>1, HeadTailProperties, LenProperties
      <4> QED
        BY <4>1, <4>2, <4>3
    <3>2. Earlier(p, Queue(s)[j + 1])
      BY <1>6, <3>1 DEF InLine, QueuesInLine
    <3> QED
      BY <1>10, <2>1, <3>1, <3>2 DEF Earlier
  <2> QED
    BY <1>10, <2>2, <2>3 DEF Ahead, Earlier
<1>11. ASSUME NEW r \in TSPacket, Ahead(r), NEW i \in 1..Len(P)
       PROVE  Ordered(r, P[i])
  <2>1. CASE r.stream = s
    <3>1. Earlier(r, p)
      BY <1>6, <1>11, <2>1 DEF Ahead
    <3> QED
      BY <1>1, <1>7, <3>1 DEF Ordered, Earlier, Before
  <2>2. CASE r.stream # s
    BY <1>7, <2>2 DEF Ordered
  <2> QED
    BY <2>1, <2>2
<1>12. \A i \in 1..Len(out) : ~Control(out[i]) => out[i] \in TSPacket /\ Ahead(out[i])
  BY <1>8, Labels DEF InLine, MadeAhead
<1>13. \A k \in 1..Len(segs) : \A i \in 1..Len(segs[k]) : segs[k][i] \in TSPacket /\ Ahead(segs[k][i])
  BY ElementOfSeq DEF InLine, WrittenAhead, PipelineTypes
<1>15. MadeAhead'
  <2> SUFFICES ASSUME NEW i \in 1..Len(out'), ~Control(out'[i]) PROVE Ahead(out[i])'
    BY DEF MadeAhead, Control
  <2>1. CASE i \in 1..Len(out)
    <3>1. out'[i] \in TSPacket /\ Ahead(out[i]) /\ out'[i] = out[i]
      BY <1>1, <1>12, <2>1
    <3> QED
      BY <1>4, <3>1
  <2>2. CASE i > Len(out) /\ i - Len(out) \in 1..Len(P) /\ out'[i] = P[i - Len(out)]
    <3>1. /\ out'[i] \in TSPacket /\ out'[i].stream = s /\ out'[i].loop = p.loop /\ out'[i].n = p.n
      BY <1>7, <2>2
    <3>2. \A r \in TSPacket : r.stream = s /\ r.loop = p.loop /\ r.n = p.n => Ahead(r)'
      BY <1>10
    <3> QED
      BY <3>1, <3>2
  <2> QED
    BY <1>1, <2>1, <2>2
<1>16. WrittenAhead'
  BY <1>2, <1>4, <1>13 DEF WrittenAhead
<1>17. MadeInLine'
  <2> SUFFICES ASSUME NEW i \in 1..Len(out'), NEW j \in 1..Len(out'), i < j
               PROVE  Ordered(out'[i], out'[j])
    BY DEF MadeInLine, Ordered, Before, Control
  <2>1. CASE j \in 1..Len(out)
    <3>1. i \in 1..Len(out)
      BY <1>8, <1>1, <1>7, <2>1
    <3> QED
      BY <1>1, <2>1, <3>1 DEF InLine, MadeInLine
  <2>2. CASE i \in 1..Len(out) /\ j > Len(out) /\ j - Len(out) \in 1..Len(P) /\ out'[j] = P[j - Len(out)]
    <3>1. CASE Control(out[i])
      BY <1>1, <2>2, <3>1 DEF Ordered
    <3>2. CASE ~Control(out[i])
      BY <1>1, <1>11, <1>12, <2>2, <3>2
    <3> QED
      BY <3>1, <3>2
  <2>3. CASE /\ i > Len(out) /\ i - Len(out) \in 1..Len(P) /\ out'[i] = P[i - Len(out)]
             /\ j > Len(out) /\ j - Len(out) \in 1..Len(P) /\ out'[j] = P[j - Len(out)]
    <3>1. i - Len(out) < j - Len(out)
      BY <1>8, <2>3
    <3>2. /\ out'[i] = P[i - Len(out)] /\ out'[j] = P[j - Len(out)]
          /\ P[i - Len(out)].part = "psi" \/ (P[i - Len(out)].part = "start" /\ P[j - Len(out)].part = "rest")
      BY <1>7, <2>3, <3>1
    <3> QED
      BY <1>7, <2>3, <3>2 DEF Ordered, Before
  <2> QED
    BY <1>1, <2>1, <2>2, <2>3
<1>18. WrittenBeforeMade'
  <2> SUFFICES ASSUME NEW k \in 1..Len(segs), NEW i \in 1..Len(segs[k]), NEW j \in 1..Len(out')
               PROVE  Ordered(segs[k][i], out'[j])
    BY <1>2, SMTT(30) DEF WrittenBeforeMade, Ordered, Before, Control
  <2>1. CASE j \in 1..Len(out)
    BY <1>1, <2>1 DEF InLine, WrittenBeforeMade
  <2>2. CASE j > Len(out) /\ j - Len(out) \in 1..Len(P) /\ out'[j] = P[j - Len(out)]
    BY <1>1, <1>11, <1>13, <2>2, SMTT(30)
  <2> QED
    BY <1>1, <2>1, <2>2
<1>19. WrittenInLine'
  <2>1. WrittenInLine /\ segs' = segs
    BY <1>2 DEF InLine
  <2> QED
    BY ONLY <2>1 DEF WrittenInLine
<1> QED
  BY <1>4, <1>15, <1>16, <1>17, <1>18, <1>19 DEF InLine

(* A control packet that is taken comes behind all that were made.          *)
LEMMA ControlInLine ==
  ASSUME VideoAndAudio, PipelineTypes, Contents, AtTheEnd, InLine, TakeControl
  PROVE  Contents' /\ InLine'
<1>1. /\ \A t \in Streams : Queue(t) # <<>> /\ Control(Head(Queue(t)))
      /\ \E s \in Streams : out' = Append(out, Head(Queue(s)))
      /\ \A t \in Streams : Queue(t)' = IF Head(Queue(t)).type = "end" THEN <<>> ELSE Tail(Queue(t))
  BY TakesControl
<1>2. UNCHANGED <<file, pos, loop>> /\ segs' = segs
  BY DEF TakeControl, reader, disk
<1>3. \A t \in Streams : Taken(t)
  BY <1>1 DEF Taken
<1>4. Contents' /\ QueuesInLine' /\ \A r \in TSPacket : Ahead(r) => Ahead(r)'
  BY <1>2, <1>3, TakenInLine DEF InLine
<1>5. PICK s \in Streams : out' = Append(out, Head(Queue(s)))
  BY <1>1
<1>6. out \in Seq(Made) /\ Len(out) \in Nat /\ \A i \in 1..Len(out) : out[i] \in Made
  BY LenProperties, ElementOfSeq DEF PipelineTypes
<1>7. /\ Len(out') = Len(out) + 1 /\ Control(out'[Len(out) + 1])
      /\ \A i \in 1..Len(out) : out'[i] = out[i]
  <2> DEFINE c == Head(Queue(s))
  <2>1. Queue(s) \in Seq(Queued) /\ Queue(s) # <<>> /\ Control(c)
    BY <1>1 DEF PipelineTypes
  <2>2. c \in Queued
    BY <2>1, Beheaded
  <2>3. c \in Made /\ out' = Append(out, c)
    BY <1>5, <2>1, <2>2, Labels DEF Made
  <2> HIDE DEF c
  <2> QED
    BY <1>6, <2>1, <2>3, Appended
<1>8. \A i \in 1..Len(out') : i \in 1..Len(out) \/ i = Len(out) + 1
  BY <1>6, <1>7
<1>9. \A i \in 1..Len(out') : ~Control(out'[i]) => i \in 1..Len(out) /\ out'[i] = out[i]
  BY <1>7, <1>8
<1>10. MadeAhead'
  <2> SUFFICES ASSUME NEW i \in 1..Len(out'), ~Control(out'[i]) PROVE Ahead(out[i])'
    BY DEF MadeAhead, Control
  <2>1. i \in 1..Len(out) /\ out'[i] = out[i]
    BY <1>9
  <2>2. Ahead(out[i]) /\ out'[i] \in TSPacket
    BY <1>6, <2>1, Labels DEF InLine, MadeAhead
  <2> QED
    BY <1>4, <2>1, <2>2
<1>11. WrittenAhead'
  <2>1. \A k \in 1..Len(segs) : \A i \in 1..Len(segs[k]) : segs[k][i] \in TSPacket /\ Ahead(segs[k][i])
    BY ElementOfSeq DEF InLine, WrittenAhead, PipelineTypes
  <2> QED
    BY <1>2, <1>4, <2>1 DEF WrittenAhead
<1>12. MadeInLine'
  <2>1. \A i, j \in 1..Len(out') : i < j => Ordered(out'[i], out'[j])
    BY <1>9 DEF InLine, MadeInLine, Ordered
  <2> QED
    BY <2>1 DEF MadeInLine
<1>13. WrittenBeforeMade'
  <2>1. \A k \in 1..Len(segs) : \A i \in 1..Len(segs[k]), j \in 1..Len(out') : Ordered(segs[k][i], out'[j])
    BY <1>9 DEF InLine, WrittenBeforeMade, Ordered
  <2> QED
    BY <1>2, <2>1 DEF WrittenBeforeMade
<1>14. WrittenInLine'
  <2>1. WrittenInLine /\ segs' = segs
    BY <1>2 DEF InLine
  <2> QED
    BY ONLY <2>1 DEF WrittenInLine
<1> QED
  BY <1>4, <1>10, <1>11, <1>12, <1>13, <1>14 DEF InLine

(* A packet that is released was the first of those made; it is written     *)
(* last, or closes a file.                                                  *)
LEMMA ReleaseInLine ==
  ASSUME VideoAndAudio, PipelineTypes, Contents, InLine, ReleaseMedia \/ ReleaseControl
  PROVE  Contents' /\ InLine'
<1>1. out # <<>> /\ out' = Tail(out)
  BY DEF ReleaseMedia, ReleaseControl, Releasing
<1>2. UNCHANGED <<file, pos, loop>> /\ \A t \in Streams : Taken(t)
  <2>1. UNCHANGED <<reader, mux>>
    BY DEF ReleaseMedia, ReleaseControl
  <2> QED
    BY <2>1 DEF reader, Taken, Queue
<1>3. Contents' /\ QueuesInLine' /\ \A r \in TSPacket : Ahead(r) => Ahead(r)'
  BY <1>2, TakenInLine DEF InLine
<1>4. /\ out \in Seq(Made) /\ Len(out) \in Nat \ {0} /\ \A i \in 1..Len(out) : out[i] \in Made
      /\ Len(out') = Len(out) - 1
      /\ \A i \in 1..Len(out') : out'[i] = out[i + 1] /\ i + 1 \in 1..Len(out)
  <2>1. out \in Seq(Made)
    BY DEF PipelineTypes
  <2> QED
    BY <1>1, <2>1, Beheaded, ElementOfSeq
<1>5. segs \in Seq(Seq(TSPacket)) /\ \A k \in 1..Len(segs) : \A i \in 1..Len(segs[k]) : segs[k][i] \in TSPacket
  BY ElementOfSeq DEF PipelineTypes
<1>6. MadeAhead'
  <2> SUFFICES ASSUME NEW i \in 1..Len(out'), ~Control(out'[i]) PROVE Ahead(out[i])'
    BY DEF MadeAhead, Control
  <2>1. out'[i] = out[i + 1] /\ i + 1 \in 1..Len(out)
    BY <1>4
  <2>2. Ahead(out[i + 1]) /\ out'[i] \in TSPacket
    BY <1>4, <2>1, Labels DEF InLine, MadeAhead
  <2> QED
    BY <1>3, <2>1, <2>2
<1>7. MadeInLine'
  <2>1. \A i, j \in 1..Len(out') : i < j => Ordered(out'[i], out'[j])
    <3> TAKE i, j \in 1..Len(out')
    <3>1. i < j => i + 1 < j + 1
      BY <1>4
    <3> QED
      BY <1>4, <3>1 DEF InLine, MadeInLine
  <2> QED
    BY <2>1 DEF MadeInLine
<1>8. CASE ReleaseControl
  <2>1. segs' = segs
    BY <1>8 DEF ReleaseControl
  <2>2. WrittenAhead'
    BY <1>3, <1>5, <2>1 DEF InLine, WrittenAhead
  <2>3. WrittenBeforeMade'
    <3>1. \A k \in 1..Len(segs) : \A i \in 1..Len(segs[k]), j \in 1..Len(out') : Ordered(segs[k][i], out'[j])
      BY <1>4 DEF InLine, WrittenBeforeMade
    <3> QED
      BY <2>1, <3>1 DEF WrittenBeforeMade
  <2>4. WrittenInLine'
    <3>1. WrittenInLine
      BY DEF InLine
    <3> QED
      BY ONLY <2>1, <3>1 DEF WrittenInLine
  <2> QED
    BY <1>3, <1>6, <1>7, <2>2, <2>3, <2>4 DEF InLine
<1>9. CASE ReleaseMedia
  <2> SUFFICES ASSUME NEW p, p = Head(out), NEW w, w = Written(p), NEW K, K = Len(w), NEW I, I = Len(w[K])
               PROVE  InLine'
    BY <1>3
  <2>1. segs' = w /\ ~Control(p)
    BY <1>9 DEF ReleaseMedia
  <2>2. p = out[1] /\ p \in TSPacket /\ 1 \in 1..Len(out)
    <3>1. p \in Made /\ p = out[1]
      BY <1>1, <1>4, Beheaded
    <3> QED
      BY <1>4, <2>1, <3>1, Labels
  <2>3. /\ K \in Nat /\ I \in Nat
        /\ \A k \in 1..K : \A i \in 1..Len(w[k]) :
              \/ k = K /\ i = I
              \/ /\ k \in 1..Len(segs) /\ i \in 1..Len(segs[k]) /\ w[k][i] = segs[k][i]
                 /\ (k < K \/ (k = K /\ i < I))
        /\ w[K][I] = p
    <3>1. open => segs # <<>>
      BY DEF PipelineTypes
    <3> QED
      BY <1>5, <2>2, <3>1, WritesLast
  <2>4. WrittenAhead'
    <3> SUFFICES ASSUME NEW k \in 1..Len(segs'), NEW i \in 1..Len(segs'[k]) PROVE Ahead(segs[k][i])'
      BY DEF WrittenAhead
    <3>1. CASE k = K /\ i = I
      <4>1. Ahead(p)
        BY <2>1, <2>2 DEF InLine, MadeAhead
      <4>2. segs'[k][i] = p
        BY <2>1, <2>3, <3>1
      <4> QED
        BY <1>3, <2>2, <4>1, <4>2
    <3>2. CASE k \in 1..Len(segs) /\ i \in 1..Len(segs[k]) /\ w[k][i] = segs[k][i]
      <4>1. Ahead(segs[k][i]) /\ segs[k][i] \in TSPacket /\ segs'[k][i] = segs[k][i]
        BY <1>5, <2>1, <3>2 DEF InLine, WrittenAhead
      <4> QED
        BY <1>3, <4>1
    <3> QED
      BY <2>1, <2>3, <3>1, <3>2
  <2>5. WrittenBeforeMade'
    <3> SUFFICES ASSUME NEW k \in 1..K, NEW i \in 1..Len(w[k]), NEW j \in 1..Len(out')
                 PROVE  Ordered(w[k][i], out'[j])
      BY <2>1 DEF WrittenBeforeMade
    <3>1. out'[j] = out[j + 1] /\ j + 1 \in 1..Len(out) /\ 1 < j + 1
      BY <1>4
    <3>2. CASE k = K /\ i = I
      BY <2>2, <2>3, <3>1, <3>2 DEF InLine, MadeInLine
    <3>3. CASE k \in 1..Len(segs) /\ i \in 1..Len(segs[k]) /\ w[k][i] = segs[k][i]
      BY <3>1, <3>3 DEF InLine, WrittenBeforeMade
    <3> QED
      BY <2>3, <3>2, <3>3
  <2>6. WrittenInLine'
    <3> SUFFICES ASSUME NEW k \in 1..K, NEW l \in 1..K, NEW i \in 1..Len(w[k]), NEW j \in 1..Len(w[l]),
                        k < l \/ (k = l /\ i < j)
                 PROVE  Ordered(w[k][i], w[l][j])
      BY <2>1 DEF WrittenInLine
    <3>1. k \in Nat /\ l \in Nat /\ k <= K /\ l <= K
      BY <2>3
    <3>2. ~(k = K /\ i = I)
      <4> SUFFICES ASSUME k = K, i = I PROVE FALSE
        OBVIOUS
      <4>1. l = K /\ i < j /\ i = Len(w[K]) /\ j \in 1..I
        BY <3>1
      <4> QED
        BY <2>3, <4>1
    <3>3. k \in 1..Len(segs) /\ i \in 1..Len(segs[k]) /\ w[k][i] = segs[k][i]
      BY <2>3, <3>2
    <3>4. CASE l = K /\ j = I
      BY <2>2, <2>3, <3>3, <3>4 DEF InLine, WrittenBeforeMade
    <3>5. CASE l \in 1..Len(segs) /\ j \in 1..Len(segs[l]) /\ w[l][j] = segs[l][j]
      BY <3>3, <3>5 DEF InLine, WrittenInLine
    <3> QED
      BY <2>3, <3>4, <3>5
  <2> QED
    BY <1>3, <1>6, <1>7, <2>4, <2>5, <2>6 DEF InLine
<1> QED
  BY <1>3, <1>8, <1>9

-----------------------------------------------------------------------------
(* Steps that move no packet.                                               *)
LEMMA NothingMoves ==
  ASSUME Contents, InLine, Generations, Kept, UNCHANGED <<file, pos, loop, mux, out, segs>>
  PROVE  Contents' /\ InLine' /\ Generations' /\ Kept'
<1>1. \A s : Queue(s)' = Queue(s)
  BY DEF Queue
<1>2. UNCHANGED <<file, pos, loop, out, segs>>
  OBVIOUS
<1>3. Contents' /\ Generations' /\ QueuesInLine'
  BY <1>1, <1>2 DEF InLine, Contents, Generations, QueuesInLine, Read, Belongs, Earlier
<1>4. MadeAhead' /\ WrittenAhead'
  <2>1. \A r : Ahead(r) => Ahead(r)'
    BY <1>1, <1>2 DEF Ahead, Read, Earlier
  <2>2. \A i \in 1..Len(out) : ~Control(out[i]) => Ahead(out[i])'
    <3>1. \A i \in 1..Len(out) : ~Control(out[i]) => Ahead(out[i])
      BY DEF InLine, MadeAhead
    <3> QED
      BY <1>2, <2>1, <3>1
  <2>3. \A k \in 1..Len(segs) : \A i \in 1..Len(segs[k]) : Ahead(segs[k][i])'
    <3>1. \A k \in 1..Len(segs) : \A i \in 1..Len(segs[k]) : Ahead(segs[k][i])
      BY DEF InLine, WrittenAhead
    <3> QED
      BY <1>2, <2>1, <3>1
  <2> QED
    BY <1>2, <2>2, <2>3 DEF MadeAhead, WrittenAhead
<1>5. MadeInLine' /\ WrittenBeforeMade'
  BY <1>2 DEF InLine, MadeInLine, WrittenBeforeMade
<1>6. WrittenInLine'
  BY <1>2 DEF InLine, WrittenInLine
<1>7. Kept'
  BY <1>1, <1>2 DEF Kept, Waits, IsMade, IsWritten
<1> QED
  BY <1>3, <1>4, <1>5, <1>6, <1>7 DEF InLine

(* What the reader adds is in a queue, and each loop ends in all queues.    *)
LEMMA ReaderKept ==
  ASSUME VideoAndAudio, PipelineTypes, Generations, Kept, AtTheEnd, ReadFrame \/ ReadEnd
  PROVE  Generations' /\ Kept' /\ AtTheEnd'
<1>1. /\ loop \in Nat /\ pos \in Nat \ {0} /\ Loops \in Nat /\ Len(file) \in Nat
      /\ \A s \in Streams : Queue(s) \in Seq(Queued) /\ Len(Queue(s)) \in Nat
      /\ \A s \in Streams : \A i \in 1..Len(Queue(s)) : Queue(s)[i] \in Queued /\ Queue(s)[i].loop \in Nat
  <2>1. Len(file) \in Nat /\ Loops \in Nat
    BY LenProperties, SegmenterAssumption DEF PipelineTypes
  <2>2. \A s \in Streams : \A i \in 1..Len(Queue(s)) : Queue(s)[i] \in Queued
    BY ElementOfSeq DEF PipelineTypes
  <2> QED
    BY <2>1, <2>2, Labels, LenProperties DEF PipelineTypes
<1>2. AtTheEnd'
  <2>1. /\ pass.phase = "none" /\ ~stopped /\ UNCHANGED <<pass, out, stopped>>
    BY DEF ReadFrame, ReadEnd, Idle, NoPass, disk
  <2>2. out = <<>>
    BY <2>1 DEF AtTheEnd
  <2> QED
    BY <2>1, <2>2 DEF AtTheEnd
<1>3. UNCHANGED <<file, out, segs>>
  BY DEF ReadFrame, ReadEnd, disk
<1>4. \A s \in Streams : \A i \in 1..Len(Queue(s)) : i \in 1..Len(Queue(s)') /\ Queue(s)'[i] = Queue(s)[i]
  <2> TAKE s \in Streams
  <2>1. \/ Queue(s)' = Queue(s)
        \/ \E p \in Queued : Queue(s)' = Append(Queue(s), p)
    BY ReaderAdds
  <2>2. \A p \in Queued : /\ Len(Append(Queue(s), p)) = Len(Queue(s)) + 1
                          /\ \A i \in 1..Len(Queue(s)) : Append(Queue(s), p)[i] = Queue(s)[i]
    BY <1>1, Appended
  <2> QED
    BY <1>1, <2>1, <2>2
<1>5. PICK g \in 0..loop : \A s \in Streams :
        /\ \A i \in 1..Len(Queue(s)) : Queue(s)[i].loop >= g
        /\ \A l \in g..loop - 1 : \E i \in 1..Len(Queue(s)) : Control(Queue(s)[i]) /\ Queue(s)[i].loop = l
  BY DEF Generations
<1>6. \A s \in Streams : \A l \in g..loop - 1 :
        \E i \in 1..Len(Queue(s)') : Control(Queue(s)'[i]) /\ Queue(s)'[i].loop = l
  <2> TAKE s \in Streams
  <2> TAKE l \in g..loop - 1
  <2>1. PICK i \in 1..Len(Queue(s)) : Control(Queue(s)[i]) /\ Queue(s)[i].loop = l
    BY <1>5
  <2> QED
    BY <1>4, <2>1
<1>7. \A l, n : Waits(l, n) => Waits(l, n)'
  <2> SUFFICES ASSUME NEW l, NEW n, Waits(l, n) PROVE Waits(l, n)'
    OBVIOUS
  <2>1. PICK s \in Streams : \E i \in 1..Len(Queue(s)) :
          ~Control(Queue(s)[i]) /\ Queue(s)[i].loop = l /\ Queue(s)[i].n = n
    BY DEF Waits
  <2>2. PICK i \in 1..Len(Queue(s)) : ~Control(Queue(s)[i]) /\ Queue(s)[i].loop = l /\ Queue(s)[i].n = n
    BY <2>1
  <2>3. i \in 1..Len(Queue(s)') /\ Queue(s)'[i] = Queue(s)[i]
    BY <1>4
  <2> QED
    BY <2>2, <2>3 DEF Waits, Control
<1>8. ASSUME NEW l \in 0..Loops, NEW n \in 1..Len(file), NEW part \in {"start", "rest"},
             l < loop \/ (l = loop /\ n < pos)
      PROVE  Waits(l, n)' \/ IsMade(l, n, part)' \/ IsWritten(l, n, part)'
  <2>1. Waits(l, n) \/ IsMade(l, n, part) \/ IsWritten(l, n, part)
    BY <1>8 DEF Kept
  <2>2. /\ IsMade(l, n, part)' <=> IsMade(l, n, part)
        /\ IsWritten(l, n, part)' <=> IsWritten(l, n, part)
    BY <1>3 DEF IsMade, IsWritten
  <2> QED
    BY <1>7, <2>1, <2>2
<1>9. CASE ReadFrame
  <2>1. PICK p \in MediaEntry :
           /\ p.stream \in Streams /\ p.loop = loop /\ p.n = pos
           /\ \A t \in Streams : Queue(t)' = IF t = p.stream THEN Append(Queue(t), p) ELSE Queue(t)
    BY <1>9, ReadsFrame
  <2>2. pos' = pos + 1 /\ loop' = loop
    BY <1>9 DEF ReadFrame
  <2>3. p \in Queued /\ ~Control(p)
    BY Labels DEF Queued
  <2>4. Len(Queue(p.stream)') = Len(Queue(p.stream)) + 1 /\ Queue(p.stream)'[Len(Queue(p.stream)) + 1] = p
    <3>1. /\ Len(Append(Queue(p.stream), p)) = Len(Queue(p.stream)) + 1
          /\ Append(Queue(p.stream), p)[Len(Queue(p.stream)) + 1] = p
      BY <1>1, <2>1, <2>3, Appended
    <3> QED
      BY <2>1, <3>1
  <2>5. \A s \in Streams : \A i \in 1..Len(Queue(s)') : Queue(s)'[i].loop >= g
    <3> TAKE s \in Streams
    <3> TAKE i \in 1..Len(Queue(s)')
    <3>1. CASE i \in 1..Len(Queue(s))
      BY <1>4, <1>5, <3>1
    <3>2. CASE i \notin 1..Len(Queue(s))
      <4>1. s = p.stream /\ i = Len(Queue(s)) + 1
        <5>1. s = p.stream
          BY <2>1, <3>2
        <5> QED
          BY <1>1, <2>4, <3>2, <5>1
      <4> QED
        BY <1>1, <1>5, <2>1, <2>4, <4>1
    <3> QED
      BY <3>1, <3>2
  <2>6. Generations'
    <3>1. /\ g \in 0..loop'
          /\ \A s \in Streams :
               /\ \A i \in 1..Len(Queue(s)') : Queue(s)'[i].loop >= g
               /\ \A l \in g..loop' - 1 :
                    \E i \in 1..Len(Queue(s)') : Control(Queue(s)'[i]) /\ Queue(s)'[i].loop = l
      BY <1>6, <2>2, <2>5
    <3> QED
      BY <3>1, Zenon DEF Generations, Control
  <2>7. \A l, n : l = loop /\ n = pos => Waits(l, n)'
    <3>1. Len(Queue(p.stream)) + 1 \in 1..Len(Queue(p.stream)')
      BY <1>1, <2>1, <2>4
    <3> QED
      BY <2>1, <2>2, <2>3, <2>4, <3>1 DEF Waits, Control
  <2>8. Kept'
    <3> SUFFICES ASSUME NEW l \in 0..Loops, NEW n \in 1..Len(file), NEW part \in {"start", "rest"},
                        l < loop' \/ (l = loop' /\ n < pos')
                 PROVE  Waits(l, n)' \/ IsMade(l, n, part)' \/ IsWritten(l, n, part)'
      BY <1>3 DEF Kept
    <3>1. CASE l = loop /\ n = pos
      BY <2>7, <3>1
    <3>2. CASE ~(l = loop /\ n = pos)
      <4>1. l < loop \/ (l = loop /\ n < pos)
        BY <1>1, <2>2, <3>2
      <4> QED
        BY <1>8, <4>1
    <3> QED
      BY <3>1, <3>2
  <2> QED
    BY <1>2, <2>6, <2>8
<1>10. CASE ReadEnd
  <2>1. PICK c \in ControlEntry : c.loop = loop /\ \A t \in Streams : Queue(t)' = Append(Queue(t), c)
    BY <1>10, ReadsEnd
  <2>2. pos' = 1 /\ loop' = loop + 1 /\ pos = Len(file) + 1
    BY <1>10, ReadsEnd DEF ReadEnd
  <2>3. c \in Queued /\ Control(c)
    BY Labels DEF Queued
  <2>4. \A s \in Streams : Len(Queue(s)') = Len(Queue(s)) + 1 /\ Queue(s)'[Len(Queue(s)) + 1] = c
    <3> TAKE s \in Streams
    <3>1. Len(Append(Queue(s), c)) = Len(Queue(s)) + 1 /\ Append(Queue(s), c)[Len(Queue(s)) + 1] = c
      BY <1>1, <2>3, Appended
    <3> QED
      BY <2>1, <3>1
  <2>5. \A s \in Streams : \A i \in 1..Len(Queue(s)') : Queue(s)'[i].loop >= g
    <3> TAKE s \in Streams
    <3> TAKE i \in 1..Len(Queue(s)')
    <3>1. CASE i \in 1..Len(Queue(s))
      BY <1>4, <1>5, <3>1
    <3>2. CASE i \notin 1..Len(Queue(s))
      <4>1. i = Len(Queue(s)) + 1
        BY <1>1, <2>4, <3>2
      <4> QED
        BY <1>1, <1>5, <2>1, <2>4, <4>1
    <3> QED
      BY <3>1, <3>2
  <2>6. \A s \in Streams : \A l \in g..loop :
          \E i \in 1..Len(Queue(s)') : Control(Queue(s)'[i]) /\ Queue(s)'[i].loop = l
    <3> TAKE s \in Streams
    <3> TAKE l \in g..loop
    <3>1. CASE l = loop
      <4>1. Len(Queue(s)) + 1 \in 1..Len(Queue(s)')
        BY <1>1, <2>4
      <4> QED
        BY <2>1, <2>3, <2>4, <3>1, <4>1
    <3>2. CASE l # loop
      <4>1. l \in g..loop - 1
        BY <1>1, <1>5, <3>2
      <4> QED
        BY <1>6, <4>1
    <3> QED
      BY <3>1, <3>2
  <2>7. Generations'
    <3>1. g \in 0..loop' /\ loop' - 1 = loop
      BY <1>1, <1>5, <2>2
    <3> QED
      BY <2>5, <2>6, <3>1 DEF Generations, Control
  <2>8. Kept'
    <3> SUFFICES ASSUME NEW l \in 0..Loops, NEW n \in 1..Len(file), NEW part \in {"start", "rest"},
                        l < loop' \/ (l = loop' /\ n < pos')
                 PROVE  Waits(l, n)' \/ IsMade(l, n, part)' \/ IsWritten(l, n, part)'
      BY <1>3 DEF Kept
    <3>1. l < loop \/ (l = loop /\ n < pos)
      BY <1>1, <2>2
    <3> QED
      BY <1>8, <3>1
  <2> QED
    BY <1>2, <2>7, <2>8
<1> QED
  BY <1>9, <1>10

(* A frame that is taken becomes its two parts.                             *)
LEMMA FrameKept ==
  ASSUME VideoAndAudio, PipelineTypes, Contents, Generations, Kept, AtTheEnd, TakeFrame
  PROVE  Generations' /\ Kept' /\ AtTheEnd'
<1>0. PICK s \in Streams, p \in MediaEntry, P \in Seq(TSPacket) : Moves(s, p, P)
  BY FrameMoves
<1>1. /\ Queue(s) # <<>> /\ p = Queue(s)[1] /\ ~Control(p)
      /\ \A i \in 1..Len(P) : P[i].loop = p.loop /\ P[i].n = p.n /\ ~Control(P[i])
      /\ \A part \in {"start", "rest"} : \E i \in 1..Len(P) : P[i].part = part
      /\ \A i \in 1..Len(out) : i \in 1..Len(out') /\ out'[i] = out[i]
      /\ \A i \in 1..Len(P) : Len(out) + i \in 1..Len(out') /\ out'[Len(out) + i] = P[i]
      /\ \A i \in 1..Len(out') :
           \/ i \in 1..Len(out)
           \/ i > Len(out) /\ i - Len(out) \in 1..Len(P) /\ out'[i] = P[i - Len(out)]
      /\ \A t \in Streams : Queue(t)' = IF t = s THEN Tail(Queue(t)) ELSE Queue(t)
      /\ \A t \in Streams : \A i \in 1..Len(Queue(t)) :
           \/ t = s /\ i = 1
           \/ \E j \in 1..Len(Queue(t)') : Queue(t)'[j] = Queue(t)[i]
  <2>1. /\ Queue(s) # <<>> /\ p = Queue(s)[1] /\ ~Control(p)
        /\ \A t \in Streams : Queue(t)' = IF t = s THEN Tail(Queue(t)) ELSE Queue(t)
        /\ \A t \in Streams : \A i \in 1..Len(Queue(t)) :
             \/ t = s /\ i = 1
             \/ \E j \in 1..Len(Queue(t)') : Queue(t)'[j] = Queue(t)[i]
    BY <1>0 DEF Moves, Leaves
  <2>2. /\ \A i \in 1..Len(P) : P[i].loop = p.loop /\ P[i].n = p.n /\ ~Control(P[i])
        /\ \A part \in {"start", "rest"} : \E i \in 1..Len(P) : P[i].part = part
    BY <1>0 DEF Moves, Parts
  <2>3. /\ \A i \in 1..Len(out) : i \in 1..Len(out') /\ out'[i] = out[i]
        /\ \A i \in 1..Len(P) : Len(out) + i \in 1..Len(out') /\ out'[Len(out) + i] = P[i]
        /\ \A i \in 1..Len(out') :
             \/ i \in 1..Len(out)
             \/ i > Len(out) /\ i - Len(out) \in 1..Len(P) /\ out'[i] = P[i - Len(out)]
    BY <1>0 DEF Moves, Joins
  <2> QED
    BY ONLY <2>1, <2>2, <2>3
<1>2. /\ UNCHANGED <<file, pos, loop, segs, pass, stopped>> /\ pass.phase = "take"
      /\ DOMAIN mux' = Streams
  BY TakesFrame DEF TakeFrame, reader, disk, Taking
<1>4. /\ \A i \in 1..Len(P) : P[i].loop = p.loop /\ P[i].n = p.n /\ ~Control(P[i])
      /\ \A part \in {"start", "rest"} : \E i \in 1..Len(P) : P[i].part = part
  BY <1>1
<1>6. \A i \in 1..Len(out') : ~Control(out'[i])
  <2> TAKE i \in 1..Len(out')
  <2>1. CASE i \in 1..Len(out)
    BY <1>2, <1>1, <2>1 DEF AtTheEnd
  <2>2. CASE i - Len(out) \in 1..Len(P) /\ out'[i] = P[i - Len(out)]
    BY <1>4, <2>2
  <2> QED
    BY <1>1, <2>1, <2>2
<1>7. AtTheEnd'
  <2>1. ~stopped
    BY <1>2 DEF AtTheEnd
  <2>2. \A i \in 1..Len(out') : out'[i].type # "end" /\ ~Control(out'[i])
    BY <1>6 DEF Control
  <2> QED
    BY <1>1, <1>2, <2>1, <2>2 DEF AtTheEnd, Control
<1>10. Generations'
  <2>1. PICK g \in 0..loop : \A t \in Streams :
          /\ \A i \in 1..Len(Queue(t)) : Queue(t)[i].loop >= g
          /\ \A l \in g..loop - 1 : \E i \in 1..Len(Queue(t)) : Control(Queue(t)[i]) /\ Queue(t)[i].loop = l
    BY DEF Generations
  <2>2. \A t \in Streams : \A i \in 1..Len(Queue(t)') : Queue(t)'[i].loop >= g
    <3> TAKE t \in Streams
    <3>1. Taken(t)
      BY <1>1 DEF Taken
    <3>2. PICK d \in {0, 1} : \A i \in 1..Len(Queue(t)') :
            i + d \in 1..Len(Queue(t)) /\ Queue(t)'[i] = Queue(t)[i + d]
      BY <3>1, Remaining
    <3> QED
      BY <2>1, <3>2
  <2>3. \A t \in Streams : \A l \in g..loop - 1 :
          \E j \in 1..Len(Queue(t)') : Control(Queue(t)'[j]) /\ Queue(t)'[j].loop = l
    <3> TAKE t \in Streams
    <3> TAKE l \in g..loop - 1
    <3>1. PICK i \in 1..Len(Queue(t)) : Control(Queue(t)[i]) /\ Queue(t)[i].loop = l
      BY <2>1
    <3>2. ~(t = s /\ i = 1)
      BY <1>1, <3>1
    <3> QED
      BY <1>1, <3>1, <3>2
  <2> QED
    <3>1. loop' = loop
      BY <1>2
    <3>2. /\ g \in 0..loop'
          /\ \A t \in Streams :
               /\ \A i \in 1..Len(Queue(t)') : Queue(t)'[i].loop >= g
               /\ \A l \in g..loop' - 1 :
                    \E i \in 1..Len(Queue(t)') : Control(Queue(t)'[i]) /\ Queue(t)'[i].loop = l
      BY <2>2, <2>3, <3>1
    <3> QED
      BY <3>2, Zenon DEF Generations, Control
<1>11. Kept'
  <2> SUFFICES ASSUME NEW l \in 0..Loops, NEW n \in 1..Len(file), NEW part \in {"start", "rest"},
                      l < loop \/ (l = loop /\ n < pos)
               PROVE  Waits(l, n)' \/ IsMade(l, n, part)' \/ IsWritten(l, n, part)'
    BY <1>2 DEF Kept
  <2>1. CASE IsWritten(l, n, part)
    BY <1>2, <2>1 DEF IsWritten, IsPart
  <2>2. CASE IsMade(l, n, part)
    <3>1. PICK i \in 1..Len(out) : IsPart(out[i], l, n, part)
      BY <2>2 DEF IsMade
    <3>2. i \in 1..Len(out') /\ out'[i] = out[i]
      BY <1>1
    <3> QED
      BY <3>1, <3>2 DEF IsMade, IsPart, Control
  <2>3. CASE Waits(l, n)
    <3>1. PICK t \in Streams : \E i \in 1..Len(Queue(t)) :
            ~Control(Queue(t)[i]) /\ Queue(t)[i].loop = l /\ Queue(t)[i].n = n
      BY <2>3 DEF Waits
    <3>2. PICK i \in 1..Len(Queue(t)) : ~Control(Queue(t)[i]) /\ Queue(t)[i].loop = l /\ Queue(t)[i].n = n
      BY <3>1
    <3>3. CASE t = s /\ i = 1
      <4>1. p.loop = l /\ p.n = n
        BY <1>1, <3>2, <3>3
      <4>2. PICK j \in 1..Len(P) : P[j].part = part
        BY <1>4
      <4>3. Len(out) + j \in 1..Len(out') /\ out'[Len(out) + j] = P[j]
        BY <1>1
      <4> QED
        BY <1>4, <4>1, <4>2, <4>3 DEF IsMade, IsPart, Control
    <3>4. CASE ~(t = s /\ i = 1)
      <4>1. \E j \in 1..Len(Queue(t)') : Queue(t)'[j] = Queue(t)[i]
        BY <1>1, <3>4
      <4> QED
        BY <3>2, <4>1 DEF Waits, Control
    <3> QED
      BY <3>3, <3>4
  <2> QED
    BY <2>1, <2>2, <2>3 DEF Kept
<1> QED
  BY <1>7, <1>10, <1>11

(* The control packets taken are those of one loop, the oldest; there is    *)
(* nothing behind the end.                                                  *)
LEMMA OneGeneration ==
  ASSUME VideoAndAudio, PipelineTypes, Contents, Generations, QueuesInLine,
         \A t \in Streams : Queue(t) # <<>> /\ Control(Head(Queue(t)))
  PROVE  \E g \in 0..loop - 1 : \A t \in Streams :
           /\ Head(Queue(t)).loop = g /\ Head(Queue(t)).type = (IF g < Loops THEN "reset" ELSE "end")
           /\ \A i \in 2..Len(Queue(t)) : g < Loops /\ Queue(t)[i].loop >= g + 1
           /\ \A l \in g + 1..loop - 1 : \E i \in 2..Len(Queue(t)) : Control(Queue(t)[i]) /\ Queue(t)[i].loop = l
<1>1. PICK g \in 0..loop : \A t \in Streams :
        /\ \A i \in 1..Len(Queue(t)) : Queue(t)[i].loop >= g
        /\ \A l \in g..loop - 1 : \E i \in 1..Len(Queue(t)) : Control(Queue(t)[i]) /\ Queue(t)[i].loop = l
  BY DEF Generations
<1>2. loop \in Nat /\ g \in Nat /\ loop <= Loops + 1 /\ Loops \in Nat /\ (loop > Loops => pos = 1)
  BY SegmenterAssumption DEF PipelineTypes
<1>3. ASSUME NEW t \in Streams
      PROVE  /\ Queue(t) \in Seq(Queued) /\ 1 \in 1..Len(Queue(t)) /\ Len(Queue(t)) \in Nat
             /\ Head(Queue(t)) = Queue(t)[1] /\ Control(Queue(t)[1])
             /\ \A i \in 1..Len(Queue(t)) : Queue(t)[i].loop \in Nat /\ Queue(t)[i] \in Queued
  <2>1. Queue(t) \in Seq(Queued)
    BY DEF PipelineTypes
  <2>2. Head(Queue(t)) = Queue(t)[1] /\ Len(Queue(t)) \in Nat \ {0}
    BY <2>1, Beheaded
  <2> QED
    BY <2>1, <2>2, ElementOfSeq, Labels
<1>4. ASSUME NEW t \in Streams, NEW i \in 2..Len(Queue(t))
      PROVE  i \in 1..Len(Queue(t)) /\ Queue(t)[1].loop < Queue(t)[i].loop
  <2>1. i \in 1..Len(Queue(t)) /\ 1 < i
    BY <1>3
  <2>2. Earlier(Queue(t)[1], Queue(t)[i])
    BY <1>3, <2>1 DEF QueuesInLine
  <2> QED
    BY <1>3, <2>1, <2>2 DEF Earlier
<1>5. ASSUME NEW t \in Streams
      PROVE  Queue(t)[1].loop = g /\ g < loop
  <2>1. Queue(t)[1].loop < loop
    BY <1>3 DEF Contents, Read
  <2>2. g < loop
    BY <1>1, <1>2, <1>3, <2>1
  <2>3. PICK i \in 1..Len(Queue(t)) : Queue(t)[i].loop = g
    BY <1>1, <1>2, <2>2
  <2>4. i = 1 \/ i \in 2..Len(Queue(t))
    BY <1>3
  <2>5. i = 1
    <3> SUFFICES ASSUME i \in 2..Len(Queue(t)) PROVE FALSE
      BY <2>4
    <3>1. Queue(t)[1].loop < g /\ Queue(t)[1].loop >= g
      BY <1>1, <1>3, <1>4, <2>3
    <3> QED
      BY <1>2, <1>3, <3>1
  <2> QED
    BY <2>2, <2>3, <2>5
<1>6. Streams # {}
  BY DEF VideoAndAudio
<1>7. g \in 0..loop - 1
  BY <1>2, <1>5, <1>6
<1>8. ASSUME NEW t \in Streams
      PROVE  Head(Queue(t)).type = (IF g < Loops THEN "reset" ELSE "end")
  BY <1>3, <1>5 DEF Contents, Belongs
<1>9. ASSUME NEW t \in Streams, NEW i \in 2..Len(Queue(t))
      PROVE  g < Loops /\ Queue(t)[i].loop >= g + 1
  <2> DEFINE r == Queue(t)[i]
  <2>1. r.loop > g /\ r.loop \in Nat
    BY <1>3, <1>4, <1>5
  <2>2. Read(r) /\ Belongs(r, t)
    BY <1>4 DEF Contents
  <2>3. ~Control(r) => r.n \in Nat \ {0}
    <3>1. Len(file) \in Nat
      BY LenProperties DEF PipelineTypes
    <3> QED
      BY <2>2, <3>1 DEF Belongs
  <2> HIDE DEF r
  <2>4. r.loop <= Loops
    BY <1>2, <2>1, <2>2, <2>3 DEF Read
  <2> QED
    BY <1>2, <2>1, <2>4 DEF r
<1>10. ASSUME NEW t \in Streams, NEW l \in g + 1..loop - 1
       PROVE  \E i \in 2..Len(Queue(t)) : Control(Queue(t)[i]) /\ Queue(t)[i].loop = l
  <2>1. l \in g..loop - 1 /\ l # g
    BY <1>2
  <2>2. PICK i \in 1..Len(Queue(t)) : Control(Queue(t)[i]) /\ Queue(t)[i].loop = l
    BY <1>1, <2>1
  <2>3. i # 1
    BY <1>5, <2>1, <2>2
  <2>4. i \in 2..Len(Queue(t))
    BY <1>3, <2>3
  <2> QED
    BY <2>2, <2>4
<1>11. \A t \in Streams : Head(Queue(t)).loop = g
  BY <1>3, <1>5
<1> QED
  BY <1>7, <1>8, <1>9, <1>10, <1>11

(* When they are taken the next loop is the oldest, or nothing is left.     *)
LEMMA ControlKept ==
  ASSUME VideoAndAudio, PipelineTypes, Contents, InLine, Generations, Kept, AtTheEnd, TakeControl
  PROVE  Generations' /\ Kept' /\ AtTheEnd'
<1>1. /\ \A t \in Streams : Queue(t) # <<>> /\ Control(Head(Queue(t)))
      /\ \E s \in Streams : out' = Append(out, Head(Queue(s)))
      /\ \A t \in Streams : Queue(t)' = IF Head(Queue(t)).type = "end" THEN <<>> ELSE Tail(Queue(t))
  BY TakesControl
<1>2. PICK g \in 0..loop - 1 : \A t \in Streams :
        /\ Head(Queue(t)).loop = g /\ Head(Queue(t)).type = (IF g < Loops THEN "reset" ELSE "end")
        /\ \A i \in 2..Len(Queue(t)) : g < Loops /\ Queue(t)[i].loop >= g + 1
        /\ \A l \in g + 1..loop - 1 : \E i \in 2..Len(Queue(t)) : Control(Queue(t)[i]) /\ Queue(t)[i].loop = l
  BY <1>1, OneGeneration DEF InLine
<1>3. UNCHANGED <<file, pos, loop, segs, stopped>> /\ pass.phase = "take" /\ pass'.phase = "release"
  <2>1. UNCHANGED <<file, pos, loop, segs, stopped>> /\ pass.phase = "take"
        /\ pass' = [pass EXCEPT !.phase = "release"]
    BY DEF TakeControl, reader, disk, Taking
  <2> QED
    BY <2>1 DEF PipelineTypes
<1>4. loop \in Nat /\ g \in Nat /\ loop <= Loops + 1 /\ Loops \in Nat
  BY <1>2, SegmenterAssumption DEF PipelineTypes
<1>5. ASSUME NEW t \in Streams
      PROVE  /\ Queue(t) \in Seq(Queued) /\ Len(Queue(t)) \in Nat \ {0} /\ Head(Queue(t)) = Queue(t)[1]
             /\ \A i \in 1..Len(Tail(Queue(t))) : Tail(Queue(t))[i] = Queue(t)[i + 1] /\ i + 1 \in 2..Len(Queue(t))
             /\ \A i \in 2..Len(Queue(t)) : Queue(t)[i] = Tail(Queue(t))[i - 1] /\ i - 1 \in 1..Len(Tail(Queue(t)))
  <2>1. Queue(t) \in Seq(Queued)
    BY DEF PipelineTypes
  <2>2. /\ Len(Queue(t)) \in Nat \ {0} /\ Head(Queue(t)) = Queue(t)[1] /\ Len(Tail(Queue(t))) = Len(Queue(t)) - 1
        /\ \A i \in 1..Len(Tail(Queue(t))) : Tail(Queue(t))[i] = Queue(t)[i + 1] /\ i + 1 \in 1..Len(Queue(t))
        /\ \A i \in 2..Len(Queue(t)) : Queue(t)[i] = Tail(Queue(t))[i - 1] /\ i - 1 \in 1..Len(Tail(Queue(t)))
    BY <1>1, <2>1, Beheaded
  <2>3. \A i \in 1..Len(Tail(Queue(t))) : i + 1 \in 2..Len(Queue(t))
    BY <2>2
  <2> QED
    BY <2>1, <2>2, <2>3
<1>6. ASSUME NEW t \in Streams, NEW i \in 2..Len(Queue(t))
      PROVE  \E j \in 1..Len(Queue(t)') : Queue(t)'[j] = Queue(t)[i]
  <2>1. Queue(t)' = Tail(Queue(t))
    BY <1>1, <1>2
  <2>2. Queue(t)[i] = Tail(Queue(t))[i - 1] /\ i - 1 \in 1..Len(Tail(Queue(t)))
    BY <1>5
  <2> QED
    BY <2>1, <2>2
<1>7. Generations'
  <2>1. \A t \in Streams : \A i \in 1..Len(Queue(t)') : Queue(t)'[i].loop >= g + 1
    <3> TAKE t \in Streams
    <3>1. CASE Queue(t)' = <<>>
      BY <3>1
    <3>2. CASE Queue(t)' = Tail(Queue(t))
      BY <1>2, <1>5, <3>2
    <3> QED
      BY <1>1, <3>1, <3>2
  <2>2. \A t \in Streams : \A l \in g + 1..loop - 1 :
          \E j \in 1..Len(Queue(t)') : Control(Queue(t)'[j]) /\ Queue(t)'[j].loop = l
    <3> TAKE t \in Streams
    <3> TAKE l \in g + 1..loop - 1
    <3>1. PICK i \in 2..Len(Queue(t)) : Control(Queue(t)[i]) /\ Queue(t)[i].loop = l
      BY <1>2
    <3> QED
      BY <1>6, <3>1
  <2>3. g + 1 \in 0..loop
    BY <1>2, <1>4
  <2> QED
    BY <1>3, <2>1, <2>2, <2>3 DEF Generations, Control
<1>8. PICK s \in Streams : out' = Append(out, Head(Queue(s)))
  BY <1>1
<1>9. /\ Len(out) \in Nat /\ Len(out') = Len(out) + 1 /\ out'[Len(out) + 1] = Head(Queue(s))
      /\ \A i \in 1..Len(out) : i \in 1..Len(out') /\ out'[i] = out[i]
      /\ \A i \in 1..Len(out') : i \in 1..Len(out) \/ i = Len(out) + 1
  <2> DEFINE c == Head(Queue(s))
  <2>1. c \in Queued /\ Control(c)
    BY <1>1, <1>5, Beheaded
  <2>2. c \in Made /\ out \in Seq(Made) /\ out' = Append(out, c)
    BY <1>8, <2>1, Labels DEF Made, PipelineTypes
  <2> HIDE DEF c
  <2>3. /\ Len(out) \in Nat /\ Len(out') = Len(out) + 1 /\ out'[Len(out) + 1] = c
        /\ \A i \in 1..Len(out) : out'[i] = out[i]
    BY <2>2, Appended
  <2> QED
    BY <2>3 DEF c
<1>10. AtTheEnd'
  <2>1. /\ ~stopped /\ \A i \in 1..Len(out) : ~Control(out[i])
    BY <1>3 DEF AtTheEnd
  <2>2. \A i \in 1..Len(out') : Control(out'[i]) => i = Len(out')
    BY <1>9, <2>1
  <2>3. ASSUME NEW i \in 1..Len(out'), out'[i].type = "end"
        PROVE  loop = Loops + 1 /\ \A t \in Streams : Queue(t)' = <<>>
    <3>1. out'[i] = Head(Queue(s))
      BY <1>9, <2>1, <2>3 DEF Control
    <3>2. ~(g < Loops)
      BY <1>2, <2>3, <3>1
    <3>3. loop = Loops + 1
      BY <1>2, <1>4, <3>2
    <3> QED
      BY <1>1, <1>2, <3>2, <3>3
  <2> QED
    BY <1>3, <2>1, <2>2, <2>3 DEF AtTheEnd, Control
<1>11. Kept'
  <2> SUFFICES ASSUME NEW l \in 0..Loops, NEW n \in 1..Len(file), NEW part \in {"start", "rest"},
                      l < loop \/ (l = loop /\ n < pos)
               PROVE  Waits(l, n)' \/ IsMade(l, n, part)' \/ IsWritten(l, n, part)'
    BY <1>3 DEF Kept
  <2>1. CASE IsWritten(l, n, part)
    BY <1>3, <2>1 DEF IsWritten, IsPart
  <2>2. CASE IsMade(l, n, part)
    BY <1>9, <2>2 DEF IsMade, IsPart, Control
  <2>3. CASE Waits(l, n)
    <3>1. PICK t \in Streams : \E i \in 1..Len(Queue(t)) :
            ~Control(Queue(t)[i]) /\ Queue(t)[i].loop = l /\ Queue(t)[i].n = n
      BY <2>3 DEF Waits
    <3>2. PICK i \in 1..Len(Queue(t)) : ~Control(Queue(t)[i]) /\ Queue(t)[i].loop = l /\ Queue(t)[i].n = n
      BY <3>1
    <3>3. i \in 2..Len(Queue(t))
      BY <1>1, <1>5, <3>2
    <3> QED
      BY <1>6, <3>2, <3>3 DEF Waits, Control
  <2> QED
    BY <2>1, <2>2, <2>3 DEF Kept
<1> QED
  BY <1>7, <1>10, <1>11

(* What is released is written; the end is released when all is.            *)
LEMMA ReleaseKept ==
  ASSUME VideoAndAudio, PipelineTypes, Generations, Kept, AtTheEnd, ReleaseMedia \/ ReleaseControl
  PROVE  Generations' /\ Kept' /\ AtTheEnd'
<1>1. /\ out # <<>> /\ out' = Tail(out) /\ pass.phase = "release" /\ pass'.phase = "release"
      /\ UNCHANGED <<file, pos, loop>> /\ \A s : Queue(s)' = Queue(s)
  <2>1. /\ out # <<>> /\ out' = Tail(out) /\ pass.phase = "release"
        /\ pass' = pass \/ pass' = [pass EXCEPT !.refDts = Stamp(Head(out))]
        /\ UNCHANGED <<reader, mux>>
    BY DEF ReleaseMedia, ReleaseControl, Releasing
  <2>2. pass'.phase = "release"
    BY <2>1 DEF PipelineTypes
  <2> QED
    BY <2>1, <2>2 DEF reader, Queue
<1>2. /\ out \in Seq(Made) /\ Len(out) \in Nat \ {0} /\ Head(out) = out[1] /\ 1 \in 1..Len(out)
      /\ Len(out') = Len(out) - 1
      /\ \A i \in 1..Len(out') : out'[i] = out[i + 1] /\ i + 1 \in 1..Len(out)
      /\ \A i \in 1..Len(out) : i = 1 \/ (i - 1 \in 1..Len(out') /\ out[i] = out'[i - 1])
  <2>1. out \in Seq(Made)
    BY DEF PipelineTypes
  <2>2. /\ Len(out) \in Nat \ {0} /\ Head(out) = out[1] /\ Len(out') = Len(out) - 1
        /\ \A i \in 1..Len(out') : out'[i] = out[i + 1] /\ i + 1 \in 1..Len(out)
        /\ \A i \in 2..Len(out) : out[i] = out'[i - 1] /\ i - 1 \in 1..Len(out')
    BY <1>1, <2>1, Beheaded
  <2>3. \A i \in 1..Len(out) : i = 1 \/ i \in 2..Len(out)
    BY <2>2
  <2> QED
    BY <2>1, <2>2, <2>3
<1>3. Generations'
  <2>1. loop' = loop /\ \A s : Queue(s)' = Queue(s)
    BY <1>1
  <2> QED
    BY <2>1 DEF Generations, Control
<1>4. ~stopped
  BY <1>1 DEF AtTheEnd
<1>5. \A i \in 1..Len(out') : Control(out'[i]) => i = Len(out')
  <2> TAKE i \in 1..Len(out')
  <2>1. Control(out'[i]) => i + 1 = Len(out)
    BY <1>2 DEF AtTheEnd
  <2>2. i + 1 = Len(out) => i = Len(out')
    BY <1>2
  <2> QED
    BY <2>1, <2>2
<1>6. (\E i \in 1..Len(out') : out'[i].type = "end") => \E i \in 1..Len(out) : out[i].type = "end"
  BY <1>2
<1>7. \A l, n : Waits(l, n) => Waits(l, n)'
  BY <1>1 DEF Waits
<1>8. CASE ReleaseControl
  <2>1. Control(out[1]) /\ segs' = segs /\ stopped' = (stopped \/ out[1].type = "end")
    BY <1>2, <1>8 DEF ReleaseControl
  <2>2. out' = <<>>
    <3>1. Len(out) = 1
      BY <1>2, <2>1 DEF AtTheEnd
    <3>2. out' \in Seq(Made) /\ Len(out') = 0
      BY <1>1, <1>2, <3>1, Beheaded
    <3> QED
      BY <3>2, EmptySeq
  <2>3. stopped' \/ (\E i \in 1..Len(out') : out'[i].type = "end") => \E i \in 1..Len(out) : out[i].type = "end"
    BY <1>2, <1>4, <1>6, <2>1
  <2>4. AtTheEnd'
    <3>1. /\ stopped' \/ (\E i \in 1..Len(out') : out'[i].type = "end") =>
               loop = Loops + 1 /\ \A s \in Streams : Queue(s) = <<>>
      BY <2>3 DEF AtTheEnd
    <3> QED
      BY <1>1, <1>5, <2>2, <3>1 DEF AtTheEnd, Control
  <2>5. Kept'
    <3> SUFFICES ASSUME NEW l \in 0..Loops, NEW n \in 1..Len(file), NEW part \in {"start", "rest"},
                        l < loop \/ (l = loop /\ n < pos)
                 PROVE  Waits(l, n)' \/ IsMade(l, n, part)' \/ IsWritten(l, n, part)'
      BY <1>1 DEF Kept
    <3>1. CASE IsMade(l, n, part)
      BY <1>2, <2>1, <3>1 DEF IsMade, IsPart, Control
    <3>2. CASE IsWritten(l, n, part)
      BY <2>1, <3>2 DEF IsWritten, IsPart
    <3> QED
      BY <1>7, <3>1, <3>2 DEF Kept
  <2> QED
    BY <1>3, <2>4, <2>5
<1>9. CASE ReleaseMedia
  <2> SUFFICES ASSUME NEW p, p = Head(out), NEW w, w = Written(p), NEW K, K = Len(w), NEW I, I = Len(w[K])
               PROVE  Kept' /\ AtTheEnd'
    BY <1>3
  <2>1. segs' = w /\ ~Control(p) /\ p = out[1] /\ stopped' = stopped
    BY <1>2, <1>9 DEF ReleaseMedia
  <2>2. p \in TSPacket
    BY <1>2, <2>1, ElementOfSeq, Labels
  <2>3. /\ K \in 1..K /\ I \in 1..I /\ w[K][I] = p
        /\ \A k \in 1..Len(segs) : \A i \in 1..Len(segs[k]) :
             k \in 1..K /\ i \in 1..Len(w[k]) /\ w[k][i] = segs[k][i]
    <3>1. segs \in Seq(Seq(TSPacket))
      BY DEF PipelineTypes
    <3>2. open => segs # <<>>
      BY DEF PipelineTypes
    <3>3. K \in 1..K /\ I \in 1..I /\ w[K][I] = p
      BY <2>2, <3>1, <3>2, WritesLast
    <3>4. \A k \in 1..Len(segs) : \A i \in 1..Len(segs[k]) :
            k \in 1..K /\ i \in 1..Len(w[k]) /\ w[k][i] = segs[k][i]
      BY <2>2, <3>1, <3>2, WritesLast, SMTT(30)
    <3> QED
      BY <3>3, <3>4
  <2>4. AtTheEnd'
    <3>1. /\ stopped' \/ (\E i \in 1..Len(out') : out'[i].type = "end") =>
               loop = Loops + 1 /\ \A s \in Streams : Queue(s) = <<>>
      BY <1>4, <1>6, <2>1 DEF AtTheEnd
    <3> QED
      BY <1>1, <1>4, <1>5, <2>1, <3>1 DEF AtTheEnd, Control
  <2>5. Kept'
    <3> SUFFICES ASSUME NEW l \in 0..Loops, NEW n \in 1..Len(file), NEW part \in {"start", "rest"},
                        l < loop \/ (l = loop /\ n < pos)
                 PROVE  Waits(l, n)' \/ IsMade(l, n, part)' \/ IsWritten(l, n, part)'
      BY <1>1 DEF Kept
    <3>1. CASE IsMade(l, n, part)
      <4>1. PICK i \in 1..Len(out) : IsPart(out[i], l, n, part)
        BY <3>1 DEF IsMade
      <4>2. CASE i = 1
        <5>1. w[K][I] = p /\ K \in 1..Len(w) /\ I \in 1..Len(w[K]) /\ IsPart(p, l, n, part)
          BY <2>1, <2>3, <4>1, <4>2
        <5>2. \E k \in 1..Len(segs') : \E j \in 1..Len(segs'[k]) : IsPart(segs'[k][j], l, n, part)
          BY <2>1, <5>1
        <5> QED
          BY <5>2 DEF IsWritten, IsPart, Control
      <4>3. CASE i # 1
        <5>1. i - 1 \in 1..Len(out') /\ IsPart(out'[i - 1], l, n, part)
          BY <1>2, <4>1, <4>3
        <5> QED
          BY <5>1 DEF IsMade, IsPart, Control
      <4> QED
        BY <4>2, <4>3
    <3>2. CASE IsWritten(l, n, part)
      <4>1. PICK k \in 1..Len(segs) : \E i \in 1..Len(segs[k]) : IsPart(segs[k][i], l, n, part)
        BY <3>2 DEF IsWritten
      <4>2. PICK i \in 1..Len(segs[k]) : IsPart(segs[k][i], l, n, part)
        BY <4>1
      <4>3. k \in 1..Len(segs') /\ i \in 1..Len(segs'[k]) /\ IsPart(segs'[k][i], l, n, part)
        BY <2>1, <2>3, <4>2
      <4> QED
        BY <4>3 DEF IsWritten, IsPart, Control
    <3> QED
      BY <1>7, <3>1, <3>2 DEF Kept
  <2> QED
    BY <2>4, <2>5
<1> QED
  BY <1>8, <1>9

-----------------------------------------------------------------------------
(* The inductive invariant of the pipeline.                                 *)
PipelineInv ==
  PipelineTypes /\ Contents /\ InLine /\ Generations /\ Kept /\ AtTheEnd

(* Nothing is read at the beginning, so all of it holds.                    *)
LEMMA PipelineInvInit == VideoAndAudio /\ PipelineInit => PipelineInv
<1> SUFFICES ASSUME VideoAndAudio, PipelineInit PROVE PipelineInv
  OBVIOUS
<1>1. PipelineTypes
  BY PipelineInitTypes
<1>2. /\ \A s : Queue(s) = <<>>
      /\ out = <<>> /\ segs = <<>> /\ pos = 1 /\ loop = 0 /\ pass.phase = "none" /\ ~stopped
  BY DEF PipelineInit, Queue, Held, NoPass
<1>3. Len(<<>>) = 0 /\ 1..0 = {} /\ 0..0 - 1 = {}
  OBVIOUS
<1>4. Contents /\ InLine
  BY <1>2, <1>3 DEF Contents, InLine, QueuesInLine, MadeAhead, WrittenAhead, MadeInLine, WrittenBeforeMade,
                    WrittenInLine
<1>5. Generations
  BY <1>2, <1>3 DEF Generations
<1>6. Kept
  <2>1. \A l \in 0..Loops, n \in 1..Len(file) : ~(l < loop \/ (l = loop /\ n < pos))
    <3>1. Loops \in Nat /\ Len(file) \in Nat
      BY <1>1, SegmenterAssumption, LenProperties DEF PipelineTypes
    <3> QED
      BY <1>2, <3>1
  <2> QED
    BY <2>1 DEF Kept
<1>7. AtTheEnd
  BY <1>2, <1>3 DEF AtTheEnd
<1> QED
  BY <1>1, <1>4, <1>5, <1>6, <1>7 DEF PipelineInv

(* Every step of the pipeline keeps it.                                     *)
LEMMA PipelineInvStep ==
  ASSUME VideoAndAudio, PipelineInv, [PipelineNext]_pipelineVars
  PROVE  PipelineInv'
<1> USE DEF PipelineInv
<1>1. CASE UNCHANGED pipelineVars
  <2>1. UNCHANGED <<file, pos, loop, old, reading, mux, pass, psi, out, cutAt, segs, open, stopped, failed>>
    BY <1>1 DEF pipelineVars, reader, disk
  <2>2. Contents' /\ InLine' /\ Generations' /\ Kept'
    BY <2>1, NothingMoves
  <2>3. \A s : Queue(s)' = Queue(s)
    BY <2>1 DEF Queue
  <2>4. PipelineTypes'
    BY <2>1, <2>3 DEF PipelineTypes
  <2>5. AtTheEnd'
    BY <2>1, <2>3 DEF AtTheEnd
  <2> QED
    BY <2>2, <2>4, <2>5
<1>2. ASSUME PipelineNext PROVE PipelineInv'
  <2>1. PipelineTypes'
    BY <1>2, PipelineStepTypes
  <2>2. CASE ReadFrame \/ ReadEnd
    BY <2>1, <2>2, ReaderInLine, ReaderKept
  <2>3. CASE TakeFrame
    BY <2>1, <2>3, FrameInLine, FrameKept
  <2>4. CASE TakeControl
    BY <2>1, <2>4, ControlInLine, ControlKept
  <2>5. CASE ReleaseMedia \/ ReleaseControl
    BY <2>1, <2>5, ReleaseInLine, ReleaseKept
  <2>6. CASE BeginPass \/ TakeEnough \/ RunDry \/ EndPass \/ PipelineDone
    <3>1. UNCHANGED <<file, pos, loop, mux, out, segs, stopped>>
      BY <2>6 DEF BeginPass, TakeEnough, RunDry, EndPass, PipelineDone, reader, disk, pipelineVars
    <3>2. Contents' /\ InLine' /\ Generations' /\ Kept'
      BY <3>1, NothingMoves
    <3>3. \A s : Queue(s)' = Queue(s)
      BY <3>1 DEF Queue
    <3>4. CASE BeginPass
      <4>1. DOMAIN mux = Streams /\ pass'.phase = "take"
        BY <3>4, BeginsPass
      <4>2. out = <<>> /\ ~stopped
        BY <3>4 DEF BeginPass, Idle, NoPass, AtTheEnd
      <4>3. AtTheEnd'
        BY <3>1, <4>1, <4>2 DEF AtTheEnd
      <4> QED
        BY <2>1, <3>2, <4>3
    <3>5. CASE TakeEnough
      <4>1. pass.phase = "take" /\ pass'.phase = "release"
        BY <3>5 DEF TakeEnough, Taking, PipelineTypes
      <4>2. AtTheEnd'
        BY <3>1, <3>3, <4>1 DEF AtTheEnd, Control
      <4> QED
        BY <2>1, <3>2, <4>2
    <3>6. CASE EndPass
      <4>1. out = <<>> /\ pass'.phase = "none"
        BY <3>6 DEF EndPass, NoPass
      <4>2. AtTheEnd'
        BY <3>1, <3>3, <4>1 DEF AtTheEnd, Control
      <4> QED
        BY <2>1, <3>2, <4>2
    <3>7. CASE RunDry \/ PipelineDone
      <4>1. pass' = pass
        BY <3>7 DEF RunDry, PipelineDone, pipelineVars
      <4>2. AtTheEnd'
        BY <3>1, <3>3, <4>1 DEF AtTheEnd, Control
      <4> QED
        BY <2>1, <3>2, <4>2
    <3> QED
      BY <2>6, <3>4, <3>5, <3>6, <3>7
  <2> QED
    BY <1>2, <2>2, <2>3, <2>4, <2>5, <2>6 DEF PipelineNext
<1> QED
  BY <1>1, <1>2

(* The segments are in the order of their streams, and when the sink stops  *)
(* the program they hold all that was read.                                 *)
LEMMA RecordedFromInv == ASSUME PipelineInv PROVE Recorded
<1>1. /\ segs \in Seq(Seq(TSPacket)) /\ DOMAIN segs = 1..Len(segs)
      /\ \A k \in 1..Len(segs) : segs[k] \in Seq(TSPacket) /\ DOMAIN segs[k] = 1..Len(segs[k])
      /\ \A k \in 1..Len(segs) : \A i \in 1..Len(segs[k]) : segs[k][i] \in TSPacket
  <2>1. segs \in Seq(Seq(TSPacket))
    BY DEF PipelineInv, PipelineTypes
  <2> QED
    BY <2>1, LenProperties, ElementOfSeq
<1>2. ASSUME NEW k \in Segments, NEW l \in Segments, NEW i \in Content(k), NEW j \in Content(l),
             k < l \/ (k = l /\ i < j), segs[k][i].stream = segs[l][j].stream
      PROVE  Before(segs[k][i], segs[l][j])
  <2>1. /\ k \in 1..Len(segs) /\ l \in 1..Len(segs) /\ i \in 1..Len(segs[k]) /\ j \in 1..Len(segs[l])
        /\ segs[k][i].part # "psi" /\ segs[l][j].part # "psi"
    BY <1>1 DEF Segments, Content
  <2>2. Ordered(segs[k][i], segs[l][j])
    BY <1>2, <2>1 DEF PipelineInv, InLine, WrittenInLine
  <2>3. ~Control(segs[k][i]) /\ ~Control(segs[l][j])
    BY <1>1, <2>1, Labels
  <2> QED
    BY <1>2, <2>1, <2>2, <2>3 DEF Ordered
<1>3. ASSUME stopped, NEW again \in 0..Loops, NEW n \in DOMAIN file, NEW part \in {"start", "rest"}
      PROVE  \E k \in Segments : \E i \in DOMAIN segs[k] :
               segs[k][i].loop = again /\ segs[k][i].n = n /\ segs[k][i].part = part
  <2>1. loop = Loops + 1 /\ out = <<>> /\ \A s \in Streams : Queue(s) = <<>>
    BY <1>3 DEF PipelineInv, AtTheEnd
  <2>2. n \in 1..Len(file) /\ again < loop
    <3>1. DOMAIN file = 1..Len(file) /\ Loops \in Nat
      BY SegmenterAssumption, LenProperties DEF PipelineInv, PipelineTypes
    <3> QED
      BY <2>1, <3>1
  <2>3. Waits(again, n) \/ IsMade(again, n, part) \/ IsWritten(again, n, part)
    BY <2>2 DEF PipelineInv, Kept
  <2>4. Len(<<>>) = 0 /\ 1..0 = {}
    OBVIOUS
  <2>5. IsWritten(again, n, part)
    BY <2>1, <2>3, <2>4 DEF Waits, IsMade
  <2>6. PICK k \in 1..Len(segs) : \E i \in 1..Len(segs[k]) : IsPart(segs[k][i], again, n, part)
    BY <2>5 DEF IsWritten
  <2> QED
    BY <1>1, <2>6 DEF IsPart, Segments
<1> QED
  BY <1>2, <1>3 DEF Recorded

(* In every reachable state of every segmenter with a video and an audio    *)
(* stream: what is written is in the order of its stream, and after the end *)
(* nothing is missing.                                                      *)
THEOREM EverythingRecorded == ASSUME VideoAndAudio PROVE PipelineSpec => []Recorded
<1>1. PipelineInit => PipelineInv
  BY PipelineInvInit
<1>2. PipelineInv /\ [PipelineNext]_pipelineVars => PipelineInv'
  BY PipelineInvStep
<1>3. PipelineInv => Recorded
  BY RecordedFromInv
<1> QED
  BY <1>1, <1>2, <1>3, PTL DEF PipelineSpec
-----------------------------------------------------------------------------
(* A queue holds neighbours of the file, whose dts are the file's or follow *)
(* one another; behind the last of a queue the reader has met no frame of   *)
(* its stream.                                                              *)
Succeeds(p, q) ==
  ~Control(p) /\ ~Control(q) =>
    /\ Neighbours(file, p.n, q.n) /\ p.dts < q.dts
    /\ q.dts = p.dts + Inc[file[q.n].stream] \/ q.dts = file[q.n].dts
Newer(p, s) ==
  ~Control(p) => p.loop = loop /\ p.dts = old[s] /\ \A k \in p.n + 1..pos - 1 : file[k].stream # s
QueuesFollow ==
  \A s \in Streams :
    /\ \A i \in 1..Len(Queue(s)) : ~Control(Queue(s)[i]) => Queue(s)[i].dts >= file[Queue(s)[i].n].dts
    /\ \A i \in 1..Len(Queue(s)) - 1 : Succeeds(Queue(s)[i], Queue(s)[i + 1])
    /\ Queue(s) # <<>> => Newer(Queue(s)[Len(Queue(s))], s)

(* While a pass takes frames every queue reaches as far as it did when they *)
(* were tested, and the reference is at its first frame, or at the          *)
(* successor of one that the pass covered.                                  *)
Reaches(s) ==
  \/ \E i \in 1..Len(Queue(s)) : Control(Queue(s)[i])
  \/ Queue(s)[Len(Queue(s))].dts >= pass.start + Delay
Covered(p) ==
  ~Control(p) =>
    \/ p.dts <= pass.start
    \/ \E i \in 1..Len(file) : /\ Neighbours(file, i, p.n) /\ file[i].dts < pass.start + Shape
                               /\ \/ p.dts < pass.start + Shape + Inc[file[p.n].stream]
                                  \/ p.dts = file[p.n].dts
InPass ==
  pass.phase = "take" =>
    \/ Gap
    \/ /\ \A s \in Streams : Queue(s) # <<>>
       /\ \/ \A s \in Streams : Control(Head(Queue(s)))
          \/ /\ \E r \in Streams : r = pass.ref /\ Covered(Head(Queue(r)))
             /\ \A s \in Streams : Reaches(s)
NoneDry == QueuesFollow /\ InPass /\ (failed => Gap)

(* What the reader appends is the neighbour of what was last.               *)
NewerNow(p, s) ==
  ~Control(p) => p.loop = loop' /\ p.dts = old'[s] /\ \A k \in p.n + 1..pos' - 1 : file[k].stream # s
FollowsNow(s) ==
  /\ \A i \in 1..Len(Queue(s)') : ~Control(Queue(s)'[i]) => Queue(s)'[i].dts >= file[Queue(s)'[i].n].dts
  /\ \A i \in 1..Len(Queue(s)') - 1 : Succeeds(Queue(s)'[i], Queue(s)'[i + 1])
  /\ Queue(s)' # <<>> => NewerNow(Queue(s)'[Len(Queue(s)')], s)

(* The line of the queues, in terms of the file, which does not change.     *)
LEMMA FollowsNext ==
  ASSUME file' = file, \A s \in Streams : FollowsNow(s)
  PROVE  QueuesFollow'
  BY DEF QueuesFollow, FollowsNow, NewerNow, Newer, Succeeds, Neighbours, Control

(* A queue to which a packet is appended keeps its line up to there.        *)
LEMMA AppendFollows ==
  ASSUME NEW s \in Streams, QueuesFollow, Queue(s) \in Seq(Queued), NEW p \in Queued,
         Queue(s)' = Append(Queue(s), p), ~Control(p) => p.dts >= file[p.n].dts,
         \A q \in Queued : Queue(s) # <<>> /\ q = Queue(s)[Len(Queue(s))] => Succeeds(q, p),
         NewerNow(p, s)
  PROVE  FollowsNow(s)
<1>1. /\ Len(Queue(s)) \in Nat /\ Len(Queue(s)') = Len(Queue(s)) + 1 /\ Queue(s)'[Len(Queue(s)) + 1] = p
      /\ \A i \in 1..Len(Queue(s)) : Queue(s)'[i] = Queue(s)[i]
  <2>1. /\ Len(Queue(s)) \in Nat /\ Len(Append(Queue(s), p)) = Len(Queue(s)) + 1
        /\ Append(Queue(s), p)[Len(Queue(s)) + 1] = p
        /\ \A i \in 1..Len(Queue(s)) : Append(Queue(s), p)[i] = Queue(s)[i]
    BY Appended
  <2> QED
    BY <2>1
<1>2. \A i \in 1..Len(Queue(s)') : ~Control(Queue(s)'[i]) => Queue(s)'[i].dts >= file[Queue(s)'[i].n].dts
  <2> TAKE i \in 1..Len(Queue(s)')
  <2>1. CASE i \in 1..Len(Queue(s))
    BY <1>1, <2>1 DEF QueuesFollow
  <2>2. CASE i = Len(Queue(s)) + 1
    BY <1>1, <2>2
  <2> QED
    BY <1>1, <2>1, <2>2
<1>3. \A i \in 1..Len(Queue(s)') - 1 : Succeeds(Queue(s)'[i], Queue(s)'[i + 1])
  <2> TAKE i \in 1..Len(Queue(s)') - 1
  <2>1. CASE i \in 1..Len(Queue(s)) - 1
    <3>1. i \in 1..Len(Queue(s)) /\ i + 1 \in 1..Len(Queue(s))
      BY <1>1, <2>1
    <3> QED
      BY <1>1, <2>1, <3>1 DEF QueuesFollow
  <2>2. CASE i = Len(Queue(s))
    <3>1. i \in 1..Len(Queue(s)) /\ Queue(s) # <<>>
      BY <1>1, <2>2, EmptySeq
    <3>2. Queue(s)[i] \in Queued
      BY <3>1, ElementOfSeq
    <3> QED
      BY <1>1, <2>2, <3>1, <3>2
  <2> QED
    BY <1>1, <2>1, <2>2
<1> QED
  BY <1>1, <1>2, <1>3 DEF FollowsNow

(* What the reader appends is the neighbour of what was last.               *)
LEMMA ReaderFollows ==
  ASSUME VideoAndAudio, PipelineTypes, Contents, QueuesFollow, ReadFrame \/ ReadEnd
  PROVE  QueuesFollow'
<1>1. /\ loop \in Nat /\ pos \in Nat /\ Len(file) \in Nat /\ DOMAIN file = 1..Len(file)
      /\ \A s \in Streams : Queue(s) \in Seq(Queued) /\ Len(Queue(s)) \in Nat
  <2>1. Len(file) \in Nat /\ DOMAIN file = 1..Len(file) /\ Loops \in Nat
    BY LenProperties, SegmenterAssumption DEF PipelineTypes
  <2> QED
    BY <2>1, LenProperties DEF PipelineTypes
<1>2. CASE ReadFrame
  <2>1. PICK p \in MediaEntry :
           /\ pos \in 1..Len(file) /\ p.stream = file[pos].stream /\ p.stream \in Streams
           /\ p.loop = loop /\ p.n = pos
           /\ p.dts = (IF file[pos].dts <= old[p.stream] THEN old[p.stream] + Inc[p.stream] ELSE file[pos].dts)
           /\ old' = [old EXCEPT ![0] = p.dts, ![p.stream] = p.dts]
           /\ \A t \in Streams : Queue(t)' = IF t = p.stream THEN Append(Queue(t), p) ELSE Queue(t)
    BY <1>2, ReadsFrame
  <2>2. pos' = pos + 1 /\ loop' = loop /\ file' = file
    BY <1>2 DEF ReadFrame
  <2>3. p \in Queued /\ ~Control(p)
    BY Labels DEF Queued
  <2>4. file[pos].dts \in Nat /\ old[p.stream] \in Nat \cup {-1} /\ Inc[p.stream] \in Nat
    <3>1. file[pos] \in FrameRecords
      BY <2>1, ElementOfSeq DEF PipelineTypes
    <3> QED
      BY <2>1, <3>1, SegmenterAssumption DEF FrameRecords, PipelineTypes, VideoAndAudio
  <2>5. old'[p.stream] = p.dts /\ \A s \in Streams : s # p.stream => old'[s] = old[s]
    <3>1. \A s \in Streams : s # 0 /\ s \in {0, Video, Audio}
      BY DEF VideoAndAudio, Video, Audio
    <3> QED
      BY <2>1, <3>1 DEF PipelineTypes
  <2>6. ASSUME NEW s \in Streams, s # p.stream PROVE FollowsNow(s)
    <3>1. Queue(s)' = Queue(s)
      BY <2>1, <2>6
    <3>2. ASSUME Queue(s) # <<>> PROVE NewerNow(Queue(s)[Len(Queue(s))], s)
      <4> DEFINE q == Queue(s)[Len(Queue(s))]
      <4>1. Newer(q, s)
        BY <3>2 DEF QueuesFollow
      <4> HIDE DEF q
      <4> SUFFICES ASSUME ~Control(q), NEW k \in q.n + 1..pos' - 1 PROVE file[k].stream # s
        BY <2>2, <2>5, <2>6, <4>1 DEF Newer, NewerNow, q
      <4>2. k = pos \/ k \in q.n + 1..pos - 1
        <5>1. q \in Queued
          <6>1. Len(Queue(s)) \in 1..Len(Queue(s))
            BY <1>1, <3>2, EmptySeq
          <6> QED
            BY <1>1, <6>1, ElementOfSeq DEF q
        <5>2. q.n \in Nat
          BY <5>1, Labels
        <5> QED
          BY <1>1, <2>2, <5>2
      <4> QED
        BY <2>1, <2>6, <4>1, <4>2 DEF Newer
    <3> QED
      BY <3>1, <3>2 DEF FollowsNow, QueuesFollow
  <2>7. FollowsNow(p.stream)
    <3> DEFINE s == p.stream
    <3>1. Queue(s)' = Append(Queue(s), p) /\ s \in Streams /\ Queue(s) \in Seq(Queued)
      BY <1>1, <2>1
    <3>2. p.dts >= file[p.n].dts
      BY <2>1, <2>4
    <3>3. NewerNow(p, s)
      <4>1. pos + 1..(pos + 1) - 1 = {}
        BY <1>1
      <4> QED
        BY <2>1, <2>2, <2>5, <4>1 DEF NewerNow
    <3>4. ASSUME NEW q \in Queued, Queue(s) # <<>>, q = Queue(s)[Len(Queue(s))] PROVE Succeeds(q, p)
      <4> SUFFICES ASSUME ~Control(q)
                   PROVE  /\ Neighbours(file, q.n, p.n) /\ q.dts < p.dts
                          /\ p.dts = q.dts + Inc[file[p.n].stream] \/ p.dts = file[p.n].dts
        BY DEF Succeeds
      <4>1. Newer(q, s)
        BY <3>1, <3>4 DEF QueuesFollow
      <4>2. Read(q) /\ Belongs(q, s)
        <5>1. Len(Queue(s)) \in 1..Len(Queue(s))
          BY <1>1, <3>1, <3>4, EmptySeq
        <5> QED
          BY <3>1, <3>4, <5>1 DEF Contents
      <4>3. q.n \in 1..Len(file) /\ q.n < pos /\ file[q.n].stream = s
        BY <1>1, <4>1, <4>2 DEF Newer, Read, Belongs
      <4>4. Neighbours(file, q.n, p.n)
        BY <1>1, <2>1, <4>1, <4>3 DEF Neighbours, Newer
      <4>5. q.dts = old[s] /\ q.dts \in Nat /\ file[p.n].stream = s /\ Inc[s] \in Nat \ {0}
        <5>1. s \in {Video, Audio}
          BY <3>1 DEF VideoAndAudio
        <5> QED
          BY <2>1, <3>4, <4>1, <5>1, Labels, SegmenterAssumption DEF Newer
      <4> QED
        BY <2>1, <2>4, <4>4, <4>5
    <3> HIDE DEF s
    <3> QED
      BY <2>3, <3>1, <3>2, <3>3, <3>4, AppendFollows DEF s
  <2> QED
    BY <2>2, <2>6, <2>7, FollowsNext
<1>3. CASE ReadEnd
  <2>1. PICK c \in ControlEntry : \A t \in Streams : Queue(t)' = Append(Queue(t), c)
    BY <1>3, ReadsEnd
  <2>2. c \in Queued /\ Control(c)
    BY Labels DEF Queued
  <2>3. \A q, s : Succeeds(q, c) /\ NewerNow(c, s)
    BY <2>2 DEF Succeeds, NewerNow
  <2>4. \A s \in Streams : FollowsNow(s)
    BY <1>1, <2>1, <2>2, <2>3, AppendFollows
  <2> QED
    BY <1>3, <2>4, FollowsNext DEF ReadEnd
<1> QED
  BY <1>2, <1>3

(* What is taken from the front of the queues leaves neighbours.            *)
LEMMA TakenFollows ==
  ASSUME VideoAndAudio, PipelineTypes, QueuesFollow, UNCHANGED <<file, pos, loop, old>>,
         \A t \in Streams : Taken(t)
  PROVE  QueuesFollow'
<1>1. ASSUME NEW s \in Streams PROVE FollowsNow(s)
  <2>1. PICK d \in {0, 1} :
          /\ \A i \in 1..Len(Queue(s)') : i \in Nat /\ i + d \in 1..Len(Queue(s)) /\ Queue(s)'[i] = Queue(s)[i + d]
          /\ Queue(s)' = <<>> \/ Len(Queue(s)') + d = Len(Queue(s))
    BY Remaining
  <2>2. CASE Queue(s)' = <<>>
    <3>1. 1..Len(Queue(s)') = {} /\ 1..Len(Queue(s)') - 1 = {}
      BY <2>2
    <3> QED
      BY <2>2, <3>1 DEF FollowsNow
  <2>3. CASE Queue(s)' # <<>>
    <3>1. /\ Queue(s) \in Seq(Queued) /\ Queue(s) # <<>> /\ Len(Queue(s)) \in Nat /\ Len(Queue(s)') \in Nat \ {0}
      <4>1. Queue(s) \in Seq(Queued) /\ Len(Queue(s)) \in Nat
        BY LenProperties DEF PipelineTypes
      <4>2. Queue(s)' \in Seq(Queued) /\ Queue(s) # <<>>
        <5>1. Queue(s)' = Queue(s) \/ (Queue(s) # <<>> /\ Queue(s)' = Tail(Queue(s)))
          BY <1>1, <2>3 DEF Taken
        <5> QED
          BY <2>3, <4>1, <5>1, Beheaded
      <4> QED
        BY <2>3, <4>1, <4>2, EmptySeq
    <3>2. Len(Queue(s)') \in 1..Len(Queue(s)') /\ Len(Queue(s)') + d = Len(Queue(s))
      BY <2>1, <2>3, <3>1
    <3>3. \A i \in 1..Len(Queue(s)') - 1 :
            /\ i \in 1..Len(Queue(s)') /\ i + 1 \in 1..Len(Queue(s)') /\ i + d \in 1..Len(Queue(s)) - 1
            /\ (i + d) + 1 = (i + 1) + d
      BY <3>1, <3>2
    <3>4. \A i \in 1..Len(Queue(s)') - 1 : Succeeds(Queue(s)'[i], Queue(s)'[i + 1])
      <4> TAKE i \in 1..Len(Queue(s)') - 1
      <4>1. Succeeds(Queue(s)[i + d], Queue(s)[(i + d) + 1])
        BY <3>3 DEF QueuesFollow
      <4> QED
        BY <2>1, <3>3, <4>1
    <3>5. \A i \in 1..Len(Queue(s)') : ~Control(Queue(s)'[i]) => Queue(s)'[i].dts >= file[Queue(s)'[i].n].dts
      BY <2>1 DEF QueuesFollow
    <3>6. NewerNow(Queue(s)'[Len(Queue(s)')], s)
      <4>1. Queue(s)'[Len(Queue(s)')] = Queue(s)[Len(Queue(s))]
        BY <2>1, <3>2
      <4>2. Newer(Queue(s)[Len(Queue(s))], s)
        BY <3>1 DEF QueuesFollow
      <4> QED
        BY <4>1, <4>2 DEF Newer, NewerNow
    <3> QED
      BY <3>4, <3>5, <3>6 DEF FollowsNow
  <2> QED
    BY <2>2, <2>3
<1> QED
  BY <1>1, FollowsNext

-----------------------------------------------------------------------------
(* Beginning a pass tests the queues, and the reference is its start.       *)
LEMMA BeginsInPass ==
  ASSUME VideoAndAudio, PipelineTypes, Contents, BeginPass
  PROVE  InPass'
<1>1. /\ \A t \in Streams : /\ Queue(t) # <<>>
                            /\ \/ Queue(t)[Len(Queue(t))].dts - Head(Queue(t)).dts >= Delay
                               \/ \E i \in 1..Len(Queue(t)) : Control(Queue(t)[i])
      /\ pass'.phase = "take" /\ UNCHANGED mux
      /\ \/ \A t \in Streams : Control(Head(Queue(t)))
         \/ \E s \in Streams :
              /\ pass'.ref = s /\ pass'.start = Head(Queue(s)).dts /\ ~Control(Head(Queue(s)))
              /\ \A t \in Streams : ~Control(Head(Queue(t))) => Head(Queue(s)).key <= Head(Queue(t)).key
  BY BeginsPass
<1>2. \A t : Queue(t)' = Queue(t)
  BY <1>1 DEF Queue
<1>3. CASE \A t \in Streams : Control(Head(Queue(t)))
  BY <1>1, <1>2, <1>3 DEF InPass, Control
<1>4. CASE \E s \in Streams :
             /\ pass'.ref = s /\ pass'.start = Head(Queue(s)).dts /\ ~Control(Head(Queue(s)))
             /\ \A t \in Streams : ~Control(Head(Queue(t))) => Head(Queue(s)).key <= Head(Queue(t)).key
  <2>1. PICK s \in Streams :
          /\ pass'.ref = s /\ pass'.start = Head(Queue(s)).dts /\ ~Control(Head(Queue(s)))
          /\ \A t \in Streams : ~Control(Head(Queue(t))) => Head(Queue(s)).key <= Head(Queue(t)).key
    BY <1>4
  <2>2. ASSUME NEW t \in Streams
        PROVE  /\ Head(Queue(t)) = Queue(t)[1] /\ 1 \in 1..Len(Queue(t)) /\ Len(Queue(t)) \in 1..Len(Queue(t))
               /\ Head(Queue(t)).dts \in Nat /\ Queue(t)[Len(Queue(t))].dts \in Nat
               /\ ~Control(Head(Queue(t))) => Head(Queue(t)).key = Head(Queue(t)).dts
    <3>1. Queue(t) \in Seq(Queued) /\ Queue(t) # <<>>
      BY <1>1 DEF PipelineTypes
    <3>2. Head(Queue(t)) = Queue(t)[1] /\ 1 \in 1..Len(Queue(t)) /\ Len(Queue(t)) \in 1..Len(Queue(t))
      BY <3>1, Beheaded
    <3>3. Queue(t)[1] \in Queued /\ Queue(t)[Len(Queue(t))] \in Queued
      BY <3>1, <3>2, ElementOfSeq
    <3> QED
      BY <3>2, <3>3, Labels DEF Contents, Belongs
  <2>3. Covered(Head(Queue(s)))'
    BY <1>2, <2>1, <2>2 DEF Covered
  <2>4. \A t \in Streams : Reaches(t)'
    <3> TAKE t \in Streams
    <3>1. CASE \E i \in 1..Len(Queue(t)) : Control(Queue(t)[i])
      BY <1>2, <3>1 DEF Reaches, Control
    <3>2. CASE ~\E i \in 1..Len(Queue(t)) : Control(Queue(t)[i])
      <4>1. Queue(t)[Len(Queue(t))].dts - Head(Queue(t)).dts >= Delay /\ ~Control(Head(Queue(t)))
        BY <1>1, <2>2, <3>2
      <4>2. Head(Queue(s)).dts <= Head(Queue(t)).dts
        BY <2>1, <2>2, <4>1
      <4>3. Queue(t)[Len(Queue(t))].dts >= pass'.start + Delay
        BY <2>1, <2>2, <4>1, <4>2, MuxAssumption
      <4> QED
        BY <1>2, <4>3 DEF Reaches
    <3> QED
      BY <3>1, <3>2
  <2> QED
    BY <1>1, <1>2, <2>1, <2>3, <2>4 DEF InPass
<1> QED
  BY <1>1, <1>3, <1>4

(* What a pass takes empties a queue only if the reference has come to a    *)
(* frame that far behind the one before.                                    *)
LEMMA TakesInPass ==
  ASSUME VideoAndAudio, PipelineTypes, Contents, QueuesFollow, AtTheEnd, InPass, TakeFrame
  PROVE  InPass'
<1>1. PICK s \in Streams :
        /\ s = SelectMux(mux) /\ Queue(s) # <<>> /\ ~Control(Head(Queue(s)))
        /\ \A t \in Streams : Queue(t) # <<>>
        /\ \A t \in Streams : ~Control(Head(Queue(t))) => Head(Queue(s)).key <= Head(Queue(t)).key
        /\ \A t \in Streams : Queue(t)' = IF t = s THEN Tail(Queue(t)) ELSE Queue(t)
  BY TakesFrame
<1>2. UNCHANGED <<file, pass>> /\ pass.phase = "take" /\ DOMAIN mux = Streams /\ ~Enough(s)
  BY <1>1 DEF TakeFrame, reader, Taking, AtTheEnd
<1>3. CASE Gap
  BY <1>2, <1>3 DEF InPass, Gap, Step, Neighbours
<1>4. CASE ~Gap
  <2>1. PICK r \in Streams : r = pass.ref /\ Covered(Head(Queue(r))) /\ \A t \in Streams : Reaches(t)
    BY <1>1, <1>2, <1>4 DEF InPass
  <2> DEFINE p == Head(Queue(s))
             h == Head(Queue(r))
  <2>2. ASSUME NEW t \in Streams
        PROVE  /\ Queue(t) \in Seq(Queued) /\ Len(Queue(t)) \in Nat \ {0} /\ Head(Queue(t)) = Queue(t)[1]
               /\ 1 \in 1..Len(Queue(t)) /\ Head(Queue(t)) \in Queued /\ Head(Queue(t)).dts \in Nat
               /\ ~Control(Head(Queue(t))) =>
                    /\ Head(Queue(t)).key = Head(Queue(t)).dts /\ Head(Queue(t)).n \in 1..Len(file)
                    /\ Head(Queue(t)).dts >= file[Head(Queue(t)).n].dts
    <3>1. Queue(t) \in Seq(Queued) /\ Queue(t) # <<>>
      BY <1>1 DEF PipelineTypes
    <3>2. /\ Head(Queue(t)) = Queue(t)[1] /\ 1 \in 1..Len(Queue(t)) /\ Len(Queue(t)) \in Nat \ {0}
          /\ Head(Queue(t)) \in Queued
      BY <3>1, Beheaded
    <3> QED
      BY <3>1, <3>2, Labels DEF Contents, Belongs, QueuesFollow
  <2>3. ~Control(h) /\ (s = r => p.dts < pass.start + Shape)
    <3>1. Queue(r) = mux[r] /\ Queue(s) = mux[s]
      BY <1>2, QueueInTable
    <3>2. pass.start \in Nat /\ Shape \in Nat
      BY SegmenterAssumption DEF PipelineTypes
    <3> QED
      BY <1>2, <2>1, <2>2, <3>1, <3>2 DEF Enough
  <2>4. p.dts <= h.dts
    BY <1>1, <2>2, <2>3
  <2>5. /\ pass.start \in Nat /\ Shape \in Nat /\ Delay \in Nat /\ Delay > Shape /\ Len(file) \in Nat
        /\ DOMAIN file = 1..Len(file)
        /\ \A i \in 1..Len(file) : file[i].dts \in Nat /\ file[i].stream \in {Video, Audio}
    <3>1. \A i \in 1..Len(file) : file[i] \in FrameRecords
      BY ElementOfSeq DEF PipelineTypes
    <3> QED
      BY <3>1, SegmenterAssumption, MuxAssumption, LenProperties DEF PipelineTypes, VideoAndAudio, FrameRecords
  <2>6. /\ Tail(Queue(s)) \in Seq(Queued) /\ Len(Tail(Queue(s))) = Len(Queue(s)) - 1
        /\ \A i \in 2..Len(Queue(s)) : Queue(s)[i] = Tail(Queue(s))[i - 1] /\ i - 1 \in 1..Len(Tail(Queue(s)))
    BY <1>1, <2>2, Beheaded
  <2>7. CASE Tail(Queue(s)) = <<>>
    <3>1. Len(Queue(s)) = 1 /\ Queue(s)[1] = p
      <4>1. Len(Tail(Queue(s))) = 0
        BY <2>6, <2>7, EmptySeq
      <4>2. Len(Queue(s)) \in Nat /\ 0 = Len(Queue(s)) - 1
        BY <2>2, <2>6, <4>1
      <4>3. Len(Queue(s)) = 1
        BY ONLY <4>2
      <4> QED
        BY <2>2, <4>3
    <3>2. p.dts >= pass.start + Delay
      <4>1. \A i \in 1..Len(Queue(s)) : ~Control(Queue(s)[i])
        BY <1>1, <3>1
      <4> QED
        BY <2>1, <3>1, <4>1 DEF Reaches
    <3>3. h.dts \in Nat /\ h.dts >= pass.start + Delay
      BY <2>2, <2>4, <2>5, <3>2
    <3>4. ~(h.dts <= pass.start)
      BY <2>5, <3>3
    <3>5. PICK i \in 1..Len(file) :
            /\ Neighbours(file, i, h.n) /\ file[i].dts < pass.start + Shape
            /\ h.dts < pass.start + Shape + Inc[file[h.n].stream] \/ h.dts = file[h.n].dts
      BY <2>1, <2>3, <3>4 DEF Covered
    <3>6. h.n \in 1..Len(file)
      BY <2>2, <2>3
    <3>7. Step(file, i, h.n) > Delay - Shape
      <4>1. /\ file[h.n].dts \in Nat /\ file[i].dts \in Nat /\ file[i].dts < pass.start + Shape
            /\ Inc[file[h.n].stream] \in Nat
        BY <2>5, <3>5, <3>6, SegmenterAssumption
      <4>2. CASE h.dts = file[h.n].dts
        <5>1. file[h.n].dts - file[i].dts > Delay - Shape
          <6>1. \A a, d, c, e, f \in Nat : d >= a + f /\ e < a + c => d - e > f - c
            OBVIOUS
          <6> QED
            BY <2>5, <3>3, <4>1, <4>2, <6>1
        <5> QED
          BY <2>5, <4>1, <5>1 DEF Step
      <4>3. CASE h.dts < pass.start + Shape + Inc[file[h.n].stream]
        <5>1. \A a, d, c, e, f \in Nat : d >= a + f /\ d < a + e + c => c > f - e
          OBVIOUS
        <5>2. Inc[file[h.n].stream] > Delay - Shape
          BY <2>5, <3>3, <4>1, <4>3, <5>1
        <5> QED
          BY <2>5, <4>1, <5>2 DEF Step
      <4> QED
        BY <3>5, <4>2, <4>3
    <3>8. Gap
      BY <2>5, <3>5, <3>6, <3>7 DEF Gap
    <3> QED
      BY <1>4, <3>8
  <2>8. CASE Tail(Queue(s)) # <<>>
    <3>1. /\ Len(Tail(Queue(s))) \in Nat \ {0} /\ 2 \in 2..Len(Queue(s)) /\ Head(Tail(Queue(s))) = Queue(s)[2]
          /\ Tail(Queue(s))[Len(Tail(Queue(s)))] = Queue(s)[Len(Queue(s))]
      <4>1. Len(Tail(Queue(s))) \in Nat \ {0} /\ Head(Tail(Queue(s))) = Tail(Queue(s))[1]
        BY <2>6, <2>8, Beheaded
      <4>2. 2 \in 2..Len(Queue(s)) /\ Len(Queue(s)) \in 2..Len(Queue(s)) /\ 2 - 1 = 1
        BY <2>2, <2>6, <4>1
      <4> QED
        BY <2>6, <4>1, <4>2
    <3>2. \A t \in Streams : Queue(t)' # <<>>
      BY <1>1, <2>8
    <3>3. \A t \in Streams : Reaches(t)'
      <4> TAKE t \in Streams
      <4>1. Reaches(t)
        BY <2>1
      <4>2. CASE t # s
        <5>1. Queue(t)' = Queue(t)
          BY <1>1, <4>2
        <5> QED
          BY <1>2, <4>1, <5>1 DEF Reaches, Control
      <4>3. CASE t = s
        <5>1. Queue(s)' = Tail(Queue(s))
          BY <1>1
        <5>2. CASE \E i \in 1..Len(Queue(s)) : Control(Queue(s)[i])
          <6>1. PICK i \in 1..Len(Queue(s)) : Control(Queue(s)[i])
            BY <5>2
          <6>2. i \in 2..Len(Queue(s))
            BY <1>1, <2>2, <6>1
          <6>3. i - 1 \in 1..Len(Queue(s)') /\ Control(Queue(s)'[i - 1])
            BY <2>6, <5>1, <6>1, <6>2
          <6> QED
            BY <4>3, <6>3 DEF Reaches, Control
        <5>3. CASE Queue(s)[Len(Queue(s))].dts >= pass.start + Delay
          BY <1>2, <3>1, <4>3, <5>1, <5>3 DEF Reaches
        <5> QED
          BY <4>1, <4>3, <5>2, <5>3 DEF Reaches
      <4> QED
        BY <4>2, <4>3
    <3>4. Covered(Head(Queue(r)))'
      <4>1. CASE r # s
        <5>1. Queue(r)' = Queue(r)
          BY <1>1, <4>1
        <5> QED
          BY <1>2, <2>1, <5>1 DEF Covered, Control, Neighbours
      <4>2. CASE r = s
        <5> DEFINE q == Queue(s)[2]
        <5>1. Head(Queue(r)') = q
          BY <1>1, <3>1, <4>2
        <5> SUFFICES ASSUME ~Control(q) PROVE Covered(q)
          BY <1>2, <5>1 DEF Covered, Control, Neighbours
        <5>2. Neighbours(file, p.n, q.n) /\ (q.dts = p.dts + Inc[file[q.n].stream] \/ q.dts = file[q.n].dts)
          <6>1. 1 \in 1..Len(Queue(s)) - 1 /\ 1 + 1 = 2
            BY <2>2, <3>1
          <6>2. Succeeds(Queue(s)[1], Queue(s)[2])
            BY <6>1 DEF QueuesFollow
          <6> QED
            BY <1>1, <2>2, <6>2 DEF Succeeds
        <5>3. p.n \in 1..Len(file) /\ p.dts \in Nat /\ p.dts >= file[p.n].dts /\ p.dts < pass.start + Shape
          BY <1>1, <2>2, <2>3, <4>2
        <5>4. /\ file[p.n].dts < pass.start + Shape
              /\ p.dts + Inc[file[q.n].stream] < pass.start + Shape + Inc[file[q.n].stream]
          <6>1. q.n \in 1..Len(file) /\ Inc[file[q.n].stream] \in Nat
            BY <2>5, <5>2, SegmenterAssumption DEF Neighbours
          <6>2. \A a, b, c, d, e \in Nat : a >= b /\ a < d + e => b < d + e /\ a + c < d + e + c
            OBVIOUS
          <6> QED
            BY <2>5, <5>3, <6>1, <6>2
        <5> QED
          BY <5>2, <5>3, <5>4 DEF Covered
      <4> QED
        BY <4>1, <4>2
    <3>5. r = pass'.ref
      BY <1>2, <2>1
    <3> QED
      BY <3>2, <3>3, <3>4, <3>5 DEF InPass
  <2> QED
    BY <2>7, <2>8
<1> QED
  BY <1>3, <1>4

(* Every step keeps the line of the queues and the reach of the pass.       *)
LEMMA NoneDryStep ==
  ASSUME VideoAndAudio, PipelineInv, NoneDry, [PipelineNext]_pipelineVars
  PROVE  NoneDry'
<1> USE DEF PipelineInv, NoneDry
<1>1. Gap' <=> Gap
  <2>1. file' = file
    BY DEF PipelineNext, ReadFrame, ReadEnd, BeginPass, TakeFrame, TakeEnough, TakeControl, RunDry,
           ReleaseMedia, ReleaseControl, EndPass, PipelineDone, reader, pipelineVars
  <2> QED
    BY <2>1 DEF Gap, Neighbours
<1>2. CASE ReadFrame \/ ReadEnd
  <2>1. pass' = pass /\ pass.phase = "none" /\ failed' = failed
    BY <1>2 DEF ReadFrame, ReadEnd, Idle, NoPass
  <2>2. InPass'
    BY <2>1 DEF InPass
  <2> QED
    BY <1>1, <1>2, <2>1, <2>2, ReaderFollows
<1>3. CASE TakeFrame
  <2>1. UNCHANGED <<file, pos, loop, old, failed>>
    BY <1>3 DEF TakeFrame, reader
  <2>2. \A t \in Streams : Taken(t)
    BY <1>3, TakesFrame DEF Taken
  <2>3. QueuesFollow'
    BY <2>1, <2>2, TakenFollows
  <2> QED
    BY <1>1, <1>3, <2>1, <2>3, TakesInPass
<1>4. CASE TakeControl
  <2>1. UNCHANGED <<file, pos, loop, old, failed>> /\ pass'.phase = "release"
    BY <1>4 DEF TakeControl, reader, PipelineTypes
  <2>2. \A t \in Streams : Taken(t)
    BY <1>4, TakesControl DEF Taken
  <2>3. QueuesFollow'
    BY <2>1, <2>2, TakenFollows
  <2> QED
    BY <1>1, <2>1, <2>3 DEF InPass
<1>5. CASE ~(ReadFrame \/ ReadEnd \/ TakeFrame \/ TakeControl)
  <2>1. UNCHANGED <<file, pos, loop, old, mux>>
    BY <1>5 DEF PipelineNext, BeginPass, TakeEnough, RunDry, ReleaseMedia, ReleaseControl, EndPass, PipelineDone,
                reader, pipelineVars
  <2>2. \A t \in Streams : Taken(t)
    BY <2>1 DEF Taken, Queue
  <2>3. QueuesFollow'
    BY <2>1, <2>2, TakenFollows
  <2>4. CASE BeginPass
    <3>1. failed' = failed
      BY <2>4 DEF BeginPass
    <3> QED
      BY <1>1, <2>3, <2>4, <3>1, BeginsInPass
  <2>5. CASE RunDry
    <3>1. pass' = pass /\ pass.phase = "take" /\ DOMAIN mux = Streams /\ \E s \in DOMAIN mux : mux[s] = <<>>
      BY <2>5 DEF RunDry, Taking, Dry, AtTheEnd
    <3>2. PICK s \in Streams : Queue(s) = <<>>
      BY <3>1, QueueInTable
    <3>3. Gap
      BY <3>1, <3>2 DEF InPass
    <3> QED
      BY <1>1, <2>3, <3>3 DEF InPass
  <2>6. CASE TakeEnough \/ ReleaseMedia \/ ReleaseControl \/ EndPass
    <3>1. failed' = failed /\ pass'.phase # "take"
      <4>1. /\ failed' = failed
            /\ \/ pass' = [pass EXCEPT !.phase = "release"] \/ pass' = NoPass
               \/ pass.phase = "release" /\ (pass' = pass \/ pass' = [pass EXCEPT !.refDts = Stamp(Head(out))])
        BY <2>6 DEF TakeEnough, ReleaseMedia, ReleaseControl, EndPass, Releasing
      <4> QED
        BY <4>1, SMTT(30) DEF PipelineTypes, NoPass
    <3> QED
      BY <1>1, <2>3, <3>1 DEF InPass
  <2>7. CASE PipelineDone \/ UNCHANGED pipelineVars
    <3>1. pass' = pass /\ failed' = failed /\ file' = file /\ \A t : Queue(t)' = Queue(t)
      BY <2>1, <2>7 DEF PipelineDone, pipelineVars, Queue
    <3>2. InPass'
      <4>1. \A t : Reaches(t)' <=> Reaches(t)
        BY <3>1 DEF Reaches, Control
      <4>2. \A t : Covered(Head(Queue(t)))' <=> Covered(Head(Queue(t)))
        BY <3>1 DEF Covered, Control, Neighbours
      <4> QED
        BY <1>1, <3>1, <4>1, <4>2 DEF InPass, Control
    <3> QED
      BY <1>1, <2>3, <3>1, <3>2
  <2> QED
    BY <1>5, <2>4, <2>5, <2>6, <2>7 DEF PipelineNext
<1> QED
  BY <1>2, <1>3, <1>4, <1>5

(* So it is before anything was read.                                       *)
LEMMA NoneDryInit == VideoAndAudio /\ PipelineInit => NoneDry
<1> SUFFICES ASSUME VideoAndAudio, PipelineInit PROVE NoneDry
  OBVIOUS
<1>1. /\ \A s : Queue(s) = <<>>
      /\ pass.phase = "none" /\ ~failed
  BY DEF PipelineInit, Queue, Held, NoPass
<1>2. Len(<<>>) = 0 /\ 1..0 = {} /\ 1..0 - 1 = {}
  OBVIOUS
<1>3. QueuesFollow
  BY <1>1, <1>2 DEF QueuesFollow
<1> QED
  BY <1>1, <1>3 DEF NoneDry, InPass

(* In every reachable state of every segmenter with a video and an audio    *)
(* stream: the multiplexer throws only if a stream has a step - of the file, *)
(* or of a frame's duration after a loop - that the delay, less what a pass  *)
(* covers, does not bridge.                                                  *)
THEOREM DriesAtGaps == ASSUME VideoAndAudio PROVE PipelineSpec => []DryOnlyAtGaps
<1>1. PipelineInit => PipelineInv /\ NoneDry
  BY PipelineInvInit, NoneDryInit
<1>2. PipelineInv /\ NoneDry /\ [PipelineNext]_pipelineVars => (PipelineInv /\ NoneDry)'
  BY PipelineInvStep, NoneDryStep
<1>3. NoneDry => DryOnlyAtGaps
  BY DEF NoneDry, DryOnlyAtGaps
<1> QED
  BY <1>1, <1>2, <1>3, PTL DEF PipelineSpec

-----------------------------------------------------------------------------
(* A key frame of the video: a cut may be before its first packet.          *)
KeyFrame(p) == ~Control(p) /\ p.stream = Video /\ p.frame
IsKey(p, l, n, d) == KeyFrame(p) /\ p.loop = l /\ p.n = n /\ p.dts = d
KeyWaits(l, n, d) == \E i \in 1..Len(Queue(Video)) : IsKey(Queue(Video)[i], l, n, d)
KeyMade(l, n, d) == \E i \in 1..Len(out) : IsKey(out[i], l, n, d)
KeyWritten(l, n, d) == \E k \in 1..Len(segs) : \E i \in 1..Len(segs[k]) : IsKey(segs[k][i], l, n, d)
KeyKnown(l, n, d) == KeyWaits(l, n, d) \/ KeyMade(l, n, d) \/ KeyWritten(l, n, d)

(* Each is in the first segment at most, or so near an earlier one that two *)
(* cuts are not due between them.                                           *)
NearKey(p, gap) ==
  \/ p.dts <= 2 * Interval
  \/ \E l, n, d \in Nat : /\ KeyKnown(l, n, d) /\ (l < p.loop \/ (l = p.loop /\ n < p.n))
                          /\ p.dts - d + gap <= Interval
KeysNear(gap) ==
  /\ \A i \in 1..Len(Queue(Video)) : KeyFrame(Queue(Video)[i]) => NearKey(Queue(Video)[i], gap)
  /\ \A i \in 1..Len(out) : KeyFrame(out[i]) => NearKey(out[i], gap)

(* The next of the video that the reader meets will be, too.                *)
VideoAt(i) == file[i].stream = Video
RisesTo(d) == \A m \in 1..Len(file) : VideoAt(m) /\ (m < pos \/ loop > 0) => file[m].dts <= d
GroupOpen(reach) ==
  \E n, m \in 1..pos - 1, d \in Nat :
    /\ VideoAt(m) /\ (\A k \in m + 1..pos - 1 : ~VideoAt(k))
    /\ KeyKnown(loop, n, d) /\ old[Video] - d <= reach[m]
GroupOver(gap) ==
  \E l, n, d \in Nat : l < loop /\ KeyKnown(l, n, d) /\ old[Video] + Inc[Video] - d + gap <= Interval
VideoRead == \E m \in 1..pos - 1 : VideoAt(m)
ReaderNear(gap, reach) ==
  /\ RisesTo(old[Video])
  /\ VideoRead => GroupOpen(reach)
  /\ ~VideoRead /\ loop = 0 => old[Video] = -1
  /\ ~VideoRead /\ loop > 0 /\ (\E m \in 1..Len(file) : VideoAt(m)) => GroupOver(gap)

(* In what a pass makes, the dts of the reference rise, no packet is before *)
(* the last of the reference, and no video more than a gap behind it.       *)
Media(p, s) == ~Control(p) /\ p.stream = s
Stamps(gap) ==
  /\ \A i \in 1..Len(out) : ~Control(out[i]) => pass.ref # None /\ pass.refDts <= out[i].dts
  /\ \A i, j \in 1..Len(out) : j < i /\ ~Control(out[i]) /\ Media(out[j], pass.ref) => out[j].dts <= out[i].dts
  /\ pass.ref = Audio => \A i \in 1..Len(out) : Media(out[i], Video) =>
       \/ pass.refDts >= out[i].dts - gap
       \/ \E j \in 1..Len(out) : j < i /\ Media(out[j], Audio) /\ out[j].dts >= out[i].dts - gap
Reference(gap) ==
  pass.phase = "take" =>
    /\ pass.refDts = 0 /\ (out = <<>> => SelectMux(mux) = pass.ref)
    /\ \A t \in Streams : Queue(t) # <<>> /\ ~Control(Head(Queue(t))) =>
         \A j \in 1..Len(out) : Media(out[j], pass.ref) => out[j].dts <= Head(Queue(t)).dts
    /\ pass.ref = Audio /\ out # <<>> /\ Queue(Audio) # <<>> /\ ~Control(Head(Queue(Audio))) =>
         \E j \in 1..Len(out) : Media(out[j], Audio) /\ out[j].dts >= Head(Queue(Audio)).dts - gap

(* So the cuts keep up with the key frames, which are cut before the tables. *)
Sorted ==
  \A i, j \in 1..Len(out) : i < j /\ ~Control(out[i]) /\ Media(out[j], out[i].stream) =>
    ~(out[j].loop < out[i].loop \/ (out[j].loop = out[i].loop /\ out[j].n < out[i].n))
CutsUp(gap) ==
  \A k \in 1..Len(segs) : \A i \in 1..Len(segs[k]) :
    KeyFrame(segs[k][i]) => cutAt >= segs[k][i].dts - gap - Interval
WholeFrames ==
  /\ \A i \in 1..Len(out) : i > 1 /\ KeyFrame(out[i]) /\ out[i].part # "psi" =>
       KeyFrame(out[i - 1]) /\ out[i - 1].dts = out[i].dts
  /\ out # <<>> /\ KeyFrame(out[1]) /\ out[1].part # "psi" => Stamp(out[1]) - Base(Stamp(out[1])) <= Interval

(* A file that is closed will start with tables, in another loop.           *)
TablesFirst ==
  /\ (\E i \in 1..Len(out) : Control(out[i])) => psi
  /\ ~open => IF out = <<>> \/ Control(out[1]) THEN psi ELSE out[1].part = "psi"
Beyond(l) ==
  l < loop /\ \A s \in Streams : \A i \in 1..Len(Queue(s)) : Queue(s)[i].loop > l
LoopsApart ==
  /\ \A i \in 1..Len(out) : Control(out[i]) =>
       /\ Beyond(out[i].loop) /\ \A j \in 1..Len(out) : out[j].loop <= out[i].loop
       /\ \A k \in 1..Len(segs) : \A j \in 1..Len(segs[k]) : segs[k][j].loop <= out[i].loop
  /\ ~open => \A k \in 1..Len(segs) : \A j \in 1..Len(segs[k]) :
       Beyond(segs[k][j].loop) /\ \A i \in 1..Len(out) : out[i].loop > segs[k][j].loop
CleanSoFar ==
  \A k \in 1..Len(segs) :
    /\ segs[k] # <<>> /\ segs[k][1].part = "psi"
    /\ k > 1 => KeyFrame(segs[k][1]) \/ segs[k][1].loop # segs[k - 1][Len(segs[k - 1])].loop

(* What a step of the reader does to a queue.                                *)
LEMMA ReaderExtends ==
  ASSUME VideoAndAudio, PipelineTypes, ReadFrame \/ ReadEnd
  PROVE  \A t \in Streams : \A i \in 1..Len(Queue(t)) : i \in 1..Len(Queue(t)') /\ Queue(t)'[i] = Queue(t)[i]
<1> TAKE t \in Streams
<1>1. Queue(t) \in Seq(Queued) /\ Len(Queue(t)) \in Nat
  BY LenProperties DEF PipelineTypes
<1>2. \/ Queue(t)' = Queue(t)
      \/ \E p \in Queued : Queue(t)' = Append(Queue(t), p)
  BY ReaderAdds
<1>3. \A p \in Queued : /\ Len(Append(Queue(t), p)) = Len(Queue(t)) + 1
                        /\ \A i \in 1..Len(Queue(t)) : Append(Queue(t), p)[i] = Queue(t)[i]
  BY <1>1, Appended
<1> QED
  BY <1>1, <1>2, <1>3

(* A control packet c of loop g is made last, and leaves all queues.        *)
LoopEnds(g, c) ==
  /\ Control(c) /\ c.loop = g /\ g < loop /\ Len(out) \in Nat /\ Len(out') = Len(out) + 1
  /\ \A i \in 1..Len(out) : i \in 1..Len(out') /\ out'[i] = out[i]
  /\ out'[Len(out) + 1] = c
  /\ \A i \in 1..Len(out') : i \in 1..Len(out) \/ (i = Len(out) + 1 /\ out'[i] = c)
  /\ \A t \in Streams : Queue(t) # <<>> /\ Queue(t)[1].loop = g /\ Control(Queue(t)[1]) /\ 1 \in 1..Len(Queue(t))
  /\ \A t \in Streams : \A i \in 1..Len(Queue(t)) :
       i = 1 \/ (\E j \in 1..Len(Queue(t)') : Queue(t)'[j] = Queue(t)[i])
  /\ \A t \in Streams : \A i \in 1..Len(Queue(t)') :
       Queue(t)'[i].loop > g /\ \E j \in 1..Len(Queue(t)) : Queue(t)'[i] = Queue(t)[j]

(* So do the controls of the oldest loop when a control packet is taken.    *)
LEMMA ControlsMove ==
  ASSUME VideoAndAudio, PipelineTypes, Contents, QueuesInLine, Generations, AtTheEnd, TakeControl
  PROVE  \E g \in Nat, c \in ControlEntry : LoopEnds(g, c)
<1>1. /\ \A t \in Streams : Queue(t) # <<>> /\ Control(Head(Queue(t)))
      /\ \E s \in Streams : out' = Append(out, Head(Queue(s)))
      /\ \A t \in Streams : Queue(t)' = IF Head(Queue(t)).type = "end" THEN <<>> ELSE Tail(Queue(t))
  BY TakesControl
<1>2. PICK g \in 0..loop - 1 : \A t \in Streams :
        /\ Head(Queue(t)).loop = g /\ Head(Queue(t)).type = (IF g < Loops THEN "reset" ELSE "end")
        /\ \A i \in 2..Len(Queue(t)) : g < Loops /\ Queue(t)[i].loop >= g + 1
  BY <1>1, OneGeneration
<1>3. PICK s \in Streams : out' = Append(out, Head(Queue(s)))
  BY <1>1
<1>4. loop \in Nat /\ g \in Nat /\ g < loop
  BY <1>2, SegmenterAssumption DEF PipelineTypes
<1>5. ASSUME NEW t \in Streams
      PROVE  /\ Queue(t) \in Seq(Queued) /\ Len(Queue(t)) \in Nat \ {0} /\ Head(Queue(t)) = Queue(t)[1]
             /\ Head(Queue(t)) \in Queued /\ 1 \in 1..Len(Queue(t))
             /\ \A i \in 1..Len(Tail(Queue(t))) : Tail(Queue(t))[i] = Queue(t)[i + 1] /\ i + 1 \in 2..Len(Queue(t))
             /\ \A i \in 2..Len(Queue(t)) : Queue(t)[i] = Tail(Queue(t))[i - 1] /\ i - 1 \in 1..Len(Tail(Queue(t)))
             /\ \A i \in 1..Len(Queue(t)) : i = 1 \/ i \in 2..Len(Queue(t))
             /\ \A i \in 2..Len(Queue(t)) : i \in 1..Len(Queue(t)) /\ Queue(t)[i].loop \in Nat
  <2>1. Queue(t) \in Seq(Queued) /\ Queue(t) # <<>>
    BY <1>1 DEF PipelineTypes
  <2>2. /\ Len(Queue(t)) \in Nat \ {0} /\ Head(Queue(t)) = Queue(t)[1] /\ Head(Queue(t)) \in Queued
        /\ Len(Tail(Queue(t))) = Len(Queue(t)) - 1
        /\ \A i \in 1..Len(Tail(Queue(t))) : Tail(Queue(t))[i] = Queue(t)[i + 1] /\ i + 1 \in 1..Len(Queue(t))
        /\ \A i \in 2..Len(Queue(t)) : Queue(t)[i] = Tail(Queue(t))[i - 1] /\ i - 1 \in 1..Len(Tail(Queue(t)))
    BY <2>1, Beheaded
  <2>3. /\ \A i \in 1..Len(Tail(Queue(t))) : i + 1 \in 2..Len(Queue(t))
        /\ 1 \in 1..Len(Queue(t)) /\ \A i \in 1..Len(Queue(t)) : i = 1 \/ i \in 2..Len(Queue(t))
    BY <2>2
  <2>4. \A i \in 2..Len(Queue(t)) : i \in 1..Len(Queue(t)) /\ Queue(t)[i].loop \in Nat
    <3>1. \A i \in 2..Len(Queue(t)) : i \in 1..Len(Queue(t))
      BY <2>2
    <3> QED
      BY <2>1, <3>1, ElementOfSeq, Labels
  <2> QED
    BY <2>1, <2>2, <2>3, <2>4
<1>6. \A t \in Streams : \A i \in 1..Len(Queue(t)) :
        i = 1 \/ (\E j \in 1..Len(Queue(t)') : Queue(t)'[j] = Queue(t)[i])
  <2> TAKE t \in Streams
  <2> TAKE i \in 1..Len(Queue(t))
  <2>1. CASE i \in 2..Len(Queue(t))
    <3>1. Queue(t)' = Tail(Queue(t))
      BY <1>1, <1>2, <2>1
    <3> QED
      BY <1>5, <2>1, <3>1
  <2> QED
    BY <1>5, <2>1
<1>7. \A t \in Streams : \A i \in 1..Len(Queue(t)') :
        Queue(t)'[i].loop > g /\ \E j \in 1..Len(Queue(t)) : Queue(t)'[i] = Queue(t)[j]
  <2> TAKE t \in Streams
  <2> TAKE i \in 1..Len(Queue(t)')
  <2>1. Len(<<>>) = 0 /\ 1..0 = {}
    OBVIOUS
  <2>2. Queue(t)' = Tail(Queue(t))
    BY <1>1, <2>1
  <2>3. Queue(t)'[i] = Queue(t)[i + 1] /\ i + 1 \in 2..Len(Queue(t)) /\ i + 1 \in 1..Len(Queue(t))
    BY <1>5, <2>2
  <2>4. Queue(t)[i + 1].loop >= g + 1 /\ Queue(t)[i + 1].loop \in Nat
    BY <1>2, <1>5, <2>3
  <2> QED
    BY <1>4, <2>3, <2>4
<1> DEFINE c == Head(Queue(s))
<1>8. Control(c) /\ c.loop = g /\ c \in ControlEntry /\ out' = Append(out, c)
  BY <1>1, <1>2, <1>3, <1>5, Labels
<1> HIDE DEF c
<1>9. out \in Seq(Made) /\ c \in Made /\ Len(out) \in Nat
  BY <1>8, LenProperties DEF Made, PipelineTypes
<1>10. /\ Len(out') = Len(out) + 1 /\ out'[Len(out) + 1] = c
       /\ \A i \in 1..Len(out) : out'[i] = out[i]
  BY <1>8, <1>9, Appended
<1>11. /\ \A i \in 1..Len(out) : i \in 1..Len(out')
       /\ \A i \in 1..Len(out') : i \in 1..Len(out) \/ i = Len(out) + 1
  BY <1>9, <1>10
<1>12. \A t \in Streams : Queue(t) # <<>> /\ Queue(t)[1].loop = g /\ Control(Queue(t)[1]) /\ 1 \in 1..Len(Queue(t))
  BY <1>1, <1>2, <1>5
<1>13. \A i \in 1..Len(out') : i \in 1..Len(out) \/ (i = Len(out) + 1 /\ out'[i] = c)
  BY <1>10, <1>11
<1>14. LoopEnds(g, c)
  BY ONLY <1>4, <1>6, <1>7, <1>8, <1>9, <1>10, <1>11, <1>12, <1>13 DEF LoopEnds
<1> QED
  BY <1>4, <1>8, <1>14

(* The first of the packets made goes, and the others come nearer.          *)
LEMMA MadeGo ==
  ASSUME PipelineTypes, ReleaseMedia \/ ReleaseControl
  PROVE  /\ out \in Seq(Made) /\ Len(out) \in Nat \ {0} /\ Head(out) = out[1] /\ 1 \in 1..Len(out)
         /\ Len(out') = Len(out) - 1
         /\ \A i \in 1..Len(out') : i \in Nat /\ out'[i] = out[i + 1] /\ i + 1 \in 1..Len(out) /\ i + 1 > 1
         /\ \A i \in 1..Len(out) : i = 1 \/ (i - 1 \in 1..Len(out') /\ out[i] = out'[i - 1])
<1>1. out # <<>> /\ out' = Tail(out)
  BY DEF ReleaseMedia, ReleaseControl, Releasing
<1>2. out \in Seq(Made)
  BY DEF PipelineTypes
<1>3. /\ Len(out) \in Nat \ {0} /\ Head(out) = out[1] /\ Len(out') = Len(out) - 1
      /\ \A i \in 1..Len(out') : out'[i] = out[i + 1] /\ i + 1 \in 1..Len(out)
      /\ \A i \in 2..Len(out) : out[i] = out'[i - 1] /\ i - 1 \in 1..Len(out')
  BY <1>1, <1>2, Beheaded
<1>4. \A i \in 1..Len(out) : i = 1 \/ i \in 2..Len(out)
  BY <1>3
<1>5. \A i \in 1..Len(out') : i \in Nat /\ i + 1 > 1
  BY <1>3
<1> QED
  BY <1>2, <1>3, <1>4, <1>5

(* The first packet p becomes packet I of segment K, the last.              *)
Writes(p, K, I) ==
  /\ p = out[1] /\ ~Control(p) /\ Len(segs) \in Nat
  /\ K = Len(segs') /\ I = Len(segs'[K]) /\ K \in 1..Len(segs') /\ I \in 1..Len(segs'[K]) /\ segs'[K][I] = p
  /\ IF open /\ ~Cuts(p) THEN K = Len(segs) /\ I = Len(segs[K]) + 1 ELSE K = Len(segs) + 1 /\ I = 1
  /\ \A k \in 1..Len(segs) : k < K => segs'[k] = segs[k]
  /\ \A k \in 1..Len(segs') : \A i \in 1..Len(segs'[k]) :
       \/ k = K /\ i = I
       \/ k \in 1..Len(segs) /\ i \in 1..Len(segs[k]) /\ segs'[k][i] = segs[k][i]
  /\ \A k \in 1..Len(segs) : \A i \in 1..Len(segs[k]) :
       k \in 1..Len(segs') /\ i \in 1..Len(segs'[k]) /\ segs'[k][i] = segs[k][i]

(* So does the packet that is released to the writer.                       *)
LEMMA PacketWrites ==
  ASSUME VideoAndAudio, PipelineTypes, ReleaseMedia
  PROVE  \E p \in TSPacket, K, I \in Nat : Writes(p, K, I)
<1> SUFFICES ASSUME NEW p, p = Head(out), NEW w, w = Written(p), NEW K, K = Len(w), NEW I, I = Len(w[K])
             PROVE  p \in TSPacket /\ K \in Nat /\ I \in Nat /\ Writes(p, K, I)
  OBVIOUS
<1>1. segs' = w /\ ~Control(p) /\ Releasing
  BY DEF ReleaseMedia
<1>2. p = out[1] /\ p \in TSPacket
  BY <1>1, Stamped, MadeGo
<1>3. segs \in Seq(Seq(TSPacket)) /\ (open => segs # <<>>)
  BY DEF PipelineTypes
<1>4. /\ K \in 1..K /\ I \in 1..I /\ w[K][I] = p
      /\ Len(segs) \in Nat /\ K \in Nat /\ I \in Nat
  BY <1>2, <1>3, WritesLast
<1>9. IF open /\ ~Cuts(p) THEN K = Len(segs) /\ I = Len(segs[K]) + 1 ELSE K = Len(segs) + 1 /\ I = 1
  <2>1. CASE open /\ ~Cuts(p)
    BY <1>2, <1>3, <2>1, WritesLast
  <2>2. CASE ~(open /\ ~Cuts(p))
    <3>1. w = Append(segs, <<p>>) /\ <<p>> \in Seq(TSPacket) /\ Len(<<p>>) = 1
      BY <1>2, <2>2 DEF Written
    <3>2. K = Len(segs) + 1 /\ w[Len(segs) + 1] = <<p>>
      BY <1>3, <3>1, Appended
    <3> QED
      BY <2>2, <3>1, <3>2
  <2> QED
    BY <2>1, <2>2
<1>5. \A k \in 1..Len(segs) : k < K => w[k] = segs[k]
  BY <1>2, <1>3, WritesLast
<1>6. \A k \in 1..K : \A i \in 1..Len(w[k]) :
        \/ k = K /\ i = I
        \/ k \in 1..Len(segs) /\ i \in 1..Len(segs[k]) /\ w[k][i] = segs[k][i]
  BY <1>2, <1>3, WritesLast
<1>7. \A k \in 1..Len(segs) : \A i \in 1..Len(segs[k]) :
        k \in 1..K /\ i \in 1..Len(w[k]) /\ w[k][i] = segs[k][i]
  BY <1>2, <1>3, WritesLast, SMTT(30)
<1>8. Writes(p, K, I)
  BY <1>1, <1>2, <1>4, <1>5, <1>6, <1>7, <1>9 DEF Writes
<1> QED
  BY <1>2, <1>4, <1>8

(* A key frame that was read goes on from the queue to the packets made and *)
(* to the segments; its packets have its number and its dts.                *)
LEMMA KnownStays ==
  ASSUME VideoAndAudio, PipelineInv, [PipelineNext]_pipelineVars
  PROVE  \A l, n, d : KeyKnown(l, n, d) => KeyKnown(l, n, d)'
<1> TAKE l, n, d
<1> USE DEF PipelineInv
<1>0. Video \in Streams
  BY DEF VideoAndAudio
<1>1. CASE ReadFrame \/ ReadEnd
  <2>1. \A i \in 1..Len(Queue(Video)) : i \in 1..Len(Queue(Video)') /\ Queue(Video)'[i] = Queue(Video)[i]
    BY <1>0, <1>1, ReaderExtends
  <2>2. UNCHANGED <<out, segs>>
    BY <1>1 DEF ReadFrame, ReadEnd, disk
  <2>3. KeyWaits(l, n, d) => KeyWaits(l, n, d)'
    BY <2>1 DEF KeyWaits, IsKey, KeyFrame, Control
  <2>4. (KeyMade(l, n, d) => KeyMade(l, n, d)') /\ (KeyWritten(l, n, d) => KeyWritten(l, n, d)')
    BY <2>2 DEF KeyMade, KeyWritten, IsKey, KeyFrame, Control
  <2> QED
    BY <2>3, <2>4 DEF KeyKnown
<1>2. CASE TakeFrame
  <2>1. PICK s \in Streams, p \in MediaEntry, P \in Seq(TSPacket) : Moves(s, p, P)
    BY <1>2, FrameMoves
  <2>2. /\ p = Queue(s)[1] /\ 1 \in 1..Len(P)
        /\ \A i \in 1..Len(P) : /\ P[i].stream = s /\ P[i].loop = p.loop /\ P[i].n = p.n
                                /\ P[i].frame = p.frame /\ P[i].dts = p.dts /\ ~Control(P[i])
        /\ \A i \in 1..Len(out) : i \in 1..Len(out') /\ out'[i] = out[i]
        /\ \A i \in 1..Len(P) : Len(out) + i \in 1..Len(out') /\ out'[Len(out) + i] = P[i]
        /\ \A i \in 1..Len(Queue(Video)) :
             \/ Video = s /\ i = 1
             \/ \E j \in 1..Len(Queue(Video)') : Queue(Video)'[j] = Queue(Video)[i]
    <3>1. /\ p = Queue(s)[1]
          /\ \A i \in 1..Len(Queue(Video)) :
               \/ Video = s /\ i = 1
               \/ \E j \in 1..Len(Queue(Video)') : Queue(Video)'[j] = Queue(Video)[i]
      BY <1>0, <2>1 DEF Moves, Leaves
    <3>2. \A i \in 1..Len(P) : /\ P[i].stream = s /\ P[i].loop = p.loop /\ P[i].n = p.n
                               /\ P[i].frame = p.frame /\ P[i].dts = p.dts /\ ~Control(P[i])
      BY <2>1 DEF Moves, Parts
    <3>3. Joins(P)
      BY <2>1 DEF Moves
    <3> QED
      BY ONLY <3>1, <3>2, <3>3 DEF Joins
  <2>3. KeyWritten(l, n, d) => KeyWritten(l, n, d)'
    BY <1>2 DEF TakeFrame, disk, KeyWritten, IsKey, KeyFrame, Control
  <2>4. KeyMade(l, n, d) => KeyMade(l, n, d)'
    BY <2>2 DEF KeyMade, IsKey, KeyFrame, Control
  <2>5. ASSUME KeyWaits(l, n, d) PROVE KeyKnown(l, n, d)'
    <3>1. PICK i \in 1..Len(Queue(Video)) : IsKey(Queue(Video)[i], l, n, d)
      BY <2>5 DEF KeyWaits
    <3>2. CASE Video = s /\ i = 1
      <4>1. IsKey(P[1], l, n, d) /\ Len(out) + 1 \in 1..Len(out') /\ out'[Len(out) + 1] = P[1]
        BY <2>2, <3>1, <3>2 DEF IsKey, KeyFrame
      <4>2. IsKey(out'[Len(out) + 1], l, n, d)
        BY <4>1
      <4> QED
        BY <4>1, <4>2 DEF KeyKnown, KeyMade, IsKey, KeyFrame, Control
    <3>3. CASE ~(Video = s /\ i = 1)
      <4>1. PICK j \in 1..Len(Queue(Video)') : Queue(Video)'[j] = Queue(Video)[i]
        BY <2>2, <3>3
      <4> QED
        BY <3>1, <4>1 DEF KeyKnown, KeyWaits, IsKey, KeyFrame, Control
    <3> QED
      BY <3>2, <3>3
  <2> QED
    BY <2>3, <2>4, <2>5 DEF KeyKnown
<1>3. CASE TakeControl
  <2>1. PICK g \in Nat, c \in ControlEntry : LoopEnds(g, c)
    BY <1>3, ControlsMove DEF InLine
  <2>2. /\ \A i \in 1..Len(out) : i \in 1..Len(out') /\ out'[i] = out[i]
        /\ Control(Queue(Video)[1])
        /\ \A i \in 1..Len(Queue(Video)) :
             i = 1 \/ (\E j \in 1..Len(Queue(Video)') : Queue(Video)'[j] = Queue(Video)[i])
    BY <1>0, <2>1 DEF LoopEnds
  <2>3. KeyWritten(l, n, d) => KeyWritten(l, n, d)'
    BY <1>3 DEF TakeControl, disk, KeyWritten, IsKey, KeyFrame, Control
  <2>4. KeyMade(l, n, d) => KeyMade(l, n, d)'
    BY <2>2 DEF KeyMade, IsKey, KeyFrame, Control
  <2>5. KeyWaits(l, n, d) => KeyWaits(l, n, d)'
    BY <2>2 DEF KeyWaits, IsKey, KeyFrame, Control
  <2> QED
    BY <2>3, <2>4, <2>5 DEF KeyKnown
<1>4. CASE ReleaseMedia \/ ReleaseControl
  <2>1. /\ Head(out) = out[1]
        /\ \A i \in 1..Len(out) : i = 1 \/ (i - 1 \in 1..Len(out') /\ out[i] = out'[i - 1])
    BY <1>4, MadeGo
  <2>2. KeyWaits(l, n, d) => KeyWaits(l, n, d)'
    <3>1. Queue(Video)' = Queue(Video)
      BY <1>4 DEF ReleaseMedia, ReleaseControl, Queue
    <3> QED
      BY <3>1 DEF KeyWaits, IsKey, KeyFrame, Control
  <2>3. \A i \in 1..Len(out) : i # 1 /\ IsKey(out[i], l, n, d) => KeyMade(l, n, d)'
    BY <2>1 DEF KeyMade, IsKey, KeyFrame, Control
  <2>4. CASE ReleaseControl
    <3>1. segs' = segs /\ Control(out[1])
      BY <2>1, <2>4 DEF ReleaseControl
    <3>2. KeyWritten(l, n, d) => KeyWritten(l, n, d)'
      BY <3>1 DEF KeyWritten, IsKey, KeyFrame, Control
    <3>3. KeyMade(l, n, d) => KeyMade(l, n, d)'
      BY <2>3, <3>1 DEF KeyMade, IsKey, KeyFrame
    <3> QED
      BY <2>2, <3>2, <3>3 DEF KeyKnown
  <2>5. CASE ReleaseMedia
    <3>1. PICK p \in TSPacket, K, I \in Nat : Writes(p, K, I)
      BY <2>5, PacketWrites
    <3>3. p = out[1] /\ K \in 1..Len(segs') /\ I \in 1..Len(segs'[K]) /\ segs'[K][I] = p
      BY <3>1 DEF Writes
    <3>4. \A k \in 1..Len(segs) : \A i \in 1..Len(segs[k]) :
              k \in 1..Len(segs') /\ i \in 1..Len(segs'[k]) /\ segs'[k][i] = segs[k][i]
      BY <3>1 DEF Writes
    <3>5. KeyWritten(l, n, d) => KeyWritten(l, n, d)'
      BY <3>4 DEF KeyWritten, IsKey, KeyFrame, Control
    <3>6. IsKey(out[1], l, n, d) => KeyWritten(l, n, d)'
      <4>1. IsKey(out[1], l, n, d) => IsKey(segs'[K][I], l, n, d)
        BY <3>3
      <4> QED
        BY <3>3, <4>1 DEF KeyWritten, IsKey, KeyFrame, Control
    <3>7. KeyMade(l, n, d) => KeyKnown(l, n, d)'
      BY <2>3, <3>6 DEF KeyMade, KeyKnown
    <3> QED
      BY <2>2, <3>5, <3>7 DEF KeyKnown
  <2> QED
    BY <1>4, <2>4, <2>5
<1>5. CASE BeginPass \/ TakeEnough \/ RunDry \/ EndPass \/ PipelineDone \/ UNCHANGED pipelineVars
  <2>1. UNCHANGED <<mux, out, segs>>
    BY <1>5 DEF BeginPass, TakeEnough, RunDry, EndPass, PipelineDone, disk, pipelineVars
  <2>2. Queue(Video)' = Queue(Video)
    BY <2>1 DEF Queue
  <2> QED
    BY <2>1, <2>2 DEF KeyKnown, KeyWaits, KeyMade, KeyWritten, IsKey, KeyFrame, Control
<1> QED
  BY <1>1, <1>2, <1>3, <1>4, <1>5 DEF PipelineNext

(* What is near a key frame stays near one: a packet has the labels of its  *)
(* frame.                                                                   *)
LEMMA NearStays ==
  ASSUME VideoAndAudio, PipelineInv, [PipelineNext]_pipelineVars, NEW gap \in Nat
  PROVE  \A p, q : q.loop = p.loop /\ q.n = p.n /\ q.dts = p.dts /\ NearKey(p, gap) => NearKey(q, gap)'
<1> TAKE p, q
<1> SUFFICES ASSUME q.loop = p.loop, q.n = p.n, q.dts = p.dts, NearKey(p, gap)
             PROVE  NearKey(q, gap)'
  OBVIOUS
<1>1. CASE p.dts <= 2 * Interval
  BY <1>1 DEF NearKey
<1>2. CASE \E l, n, d \in Nat : /\ KeyKnown(l, n, d) /\ (l < p.loop \/ (l = p.loop /\ n < p.n))
                                /\ p.dts - d + gap <= Interval
  <2>1. PICK l, n, d \in Nat : /\ KeyKnown(l, n, d) /\ (l < p.loop \/ (l = p.loop /\ n < p.n))
                               /\ p.dts - d + gap <= Interval
    BY <1>2
  <2>2. KeyKnown(l, n, d)'
    BY <2>1, KnownStays
  <2> QED
    BY <2>1, <2>2 DEF NearKey
<1> QED
  BY <1>1, <1>2 DEF NearKey

(* What the hypothesis says of the frames of the file.                      *)
LEMMA FramesOfFile ==
  ASSUME PipelineTypes, NEW gap \in Nat, NEW reach, GroupsFit(file, gap, reach)
  PROVE  /\ Len(file) \in Nat \ {0} /\ DOMAIN file = 1..Len(file)
         /\ \A i \in 1..Len(file) : file[i].dts \in Nat /\ file[i].stream \in {Video, Audio}
         /\ \A i, j \in 1..Len(file) : i < j /\ file[i].stream = file[j].stream => file[i].dts < file[j].dts
         /\ \A i, j \in 1..Len(file) : Neighbours(file, i, j) /\ file[j].stream = Audio => Step(file, i, j) <= gap
         /\ \A j \in 1..Len(file) : VideoAt(j) /\ (\A k \in 1..j - 1 : ~VideoAt(k)) => file[j].key /\ file[j].dts <= 2 * Interval
         /\ \A i, j \in 1..Len(file) : Neighbours(file, i, j) /\ VideoAt(j) =>
              IF file[j].key THEN reach[i] + Step(file, i, j) + gap <= Interval
                             ELSE reach[i] + Step(file, i, j) <= reach[j]
         /\ \A i \in 1..Len(file) : VideoAt(i) /\ (\A k \in i + 1..Len(file) : ~VideoAt(k))
                                      => reach[i] + Inc[Video] + gap <= Interval
         /\ \A i \in 1..Len(file) : reach[i] \in Nat
         /\ \A i, j \in 1..Len(file) : /\ Step(file, i, j) \in Nat /\ Step(file, i, j) >= file[j].dts - file[i].dts
                                        /\ Step(file, i, j) >= Inc[file[j].stream]
         /\ Inc[Video] \in Nat \ {0} /\ Inc[Audio] \in Nat \ {0}
<1>1. Len(file) \in Nat \ {0} /\ DOMAIN file = 1..Len(file)
  BY EmptySeq, LenProperties DEF PipelineTypes
<1>2. \A i \in 1..Len(file) : file[i].dts \in Nat /\ file[i].stream \in {Video, Audio}
  <2>1. \A i \in 1..Len(file) : file[i] \in FrameRecords
    BY ElementOfSeq DEF PipelineTypes
  <2> QED
    BY <2>1 DEF FrameRecords
<1>3. /\ \A i, j \in 1..Len(file) : i < j /\ file[i].stream = file[j].stream => file[i].dts < file[j].dts
      /\ \A j \in 1..Len(file) : VideoAt(j) /\ (\A k \in 1..j - 1 : ~VideoAt(k)) => file[j].key /\ file[j].dts <= 2 * Interval
      /\ \A i \in 1..Len(file) : reach[i] \in Nat
  BY <1>1 DEF GroupsFit, VideoAt
<1>4. \A i, j \in 1..Len(file) : Neighbours(file, i, j) =>
        \/ file[j].stream = Audio /\ Step(file, i, j) <= gap
        \/ file[j].stream = Video /\ file[j].key /\ reach[i] + Step(file, i, j) + gap <= Interval
        \/ file[j].stream = Video /\ ~file[j].key /\ reach[i] + Step(file, i, j) <= reach[j]
  BY <1>1 DEF GroupsFit
<1>5. \A i \in 1..Len(file) : VideoAt(i) /\ (\A k \in i + 1..Len(file) : ~VideoAt(k))
                               => reach[i] + Inc[Video] + gap <= Interval
  BY <1>1 DEF GroupsFit, VideoAt
<1>6. Inc[Video] \in Nat \ {0} /\ Inc[Audio] \in Nat \ {0}
  BY SegmenterAssumption
<1>7. \A i, j \in 1..Len(file) : /\ Step(file, i, j) \in Nat /\ Step(file, i, j) >= file[j].dts - file[i].dts
                                  /\ Step(file, i, j) >= Inc[file[j].stream]
  <2> TAKE i, j \in 1..Len(file)
  <2>1. file[i].dts \in Nat /\ file[j].dts \in Nat /\ Inc[file[j].stream] \in Nat
    BY <1>2, <1>6
  <2> QED
    BY <2>1 DEF Step
<1>8. Video # Audio
  BY DEF Video, Audio
<1>9. /\ \A i, j \in 1..Len(file) : Neighbours(file, i, j) /\ file[j].stream = Audio => Step(file, i, j) <= gap
      /\ \A i, j \in 1..Len(file) : Neighbours(file, i, j) /\ VideoAt(j) =>
           IF file[j].key THEN reach[i] + Step(file, i, j) + gap <= Interval
                          ELSE reach[i] + Step(file, i, j) <= reach[j]
  BY <1>4, <1>8 DEF VideoAt
<1> QED
  BY <1>1, <1>2, <1>3, <1>5, <1>6, <1>7, <1>9

(* A frame that is read of the video opens a group, or extends the one that *)
(* is open; a key frame is near the one before.                             *)
LEMMA VideoStaysNear ==
  ASSUME VideoAndAudio, PipelineInv, NEW gap \in Nat, NEW reach, GroupsFit(file, gap, reach), ReaderNear(gap, reach), ReadFrame,
         NEW p \in MediaEntry, p.stream = Video, pos \in 1..Len(file), VideoAt(pos),
         p.loop = loop, p.n = pos, p.frame = file[pos].key,
         p.dts = (IF file[pos].dts <= old[Video] THEN old[Video] + Inc[Video] ELSE file[pos].dts),
         old'[Video] = p.dts, Queue(Video)' = Append(Queue(Video), p)
  PROVE  (KeyFrame(p) => NearKey(p, gap)') /\ ReaderNear(gap, reach)'
<1> SUFFICES ASSUME NEW L, L = loop, NEW N, N = pos
             PROVE  (KeyFrame(p) => NearKey(p, gap)') /\ ReaderNear(gap, reach)'
  OBVIOUS
<1>1. /\ pos' = pos + 1 /\ loop' = loop /\ file' = file /\ loop \in Nat /\ pos \in Nat \ {0}
      /\ old[Video] \in Nat \cup {-1} /\ p.dts \in Nat /\ Interval \in Nat
  BY SegmenterAssumption, SMTT(30) DEF PipelineInv, ReadFrame, PipelineTypes, MediaEntry
<1>2. /\ Len(file) \in Nat \ {0}
      /\ \A i \in 1..Len(file) : file[i].dts \in Nat
      /\ \A i, j \in 1..Len(file) : i < j /\ file[i].stream = file[j].stream => file[i].dts < file[j].dts
      /\ \A j \in 1..Len(file) : VideoAt(j) /\ (\A k \in 1..j - 1 : ~VideoAt(k)) => file[j].key /\ file[j].dts <= 2 * Interval
      /\ \A i, j \in 1..Len(file) : Neighbours(file, i, j) /\ VideoAt(j) =>
           IF file[j].key THEN reach[i] + Step(file, i, j) + gap <= Interval
                          ELSE reach[i] + Step(file, i, j) <= reach[j]
      /\ \A i \in 1..Len(file) : reach[i] \in Nat
      /\ \A i, j \in 1..Len(file) : /\ Step(file, i, j) \in Nat /\ Step(file, i, j) >= file[j].dts - file[i].dts
                                     /\ Step(file, i, j) >= Inc[file[j].stream]
      /\ Inc[Video] \in Nat \ {0}
  BY FramesOfFile DEF PipelineInv
<1>3. /\ ~Control(p) /\ (KeyFrame(p) <=> file[pos].key)
  BY Labels DEF KeyFrame
<1>4. file[pos].dts \in Nat /\ p.dts >= file[pos].dts /\ p.dts >= old[Video]
  BY <1>1, <1>2
<1>11. old[Video] \in Int /\ p.dts \in Nat /\ gap \in Nat /\ Interval \in Nat
  BY <1>1
<1>5. \A l, n, d : KeyKnown(l, n, d) => KeyKnown(l, n, d)'
  BY KnownStays DEF PipelineNext
<1>12. VideoRead'
  <2>1. pos \in 1..pos' - 1
    BY <1>1
  <2> QED
    BY <1>1, <2>1 DEF VideoRead, VideoAt
<1>6. RisesTo(old[Video])'
  <2> SUFFICES ASSUME NEW m \in 1..Len(file), VideoAt(m), m < pos + 1 \/ loop > 0
               PROVE  file[m].dts <= p.dts
    BY <1>1 DEF RisesTo, VideoAt
  <2>1. CASE m = pos
    BY <1>4, <2>1
  <2>2. CASE m # pos
    <3>1. m < pos \/ loop > 0
      BY <1>1, <2>2
    <3>2. file[m].dts <= old[Video]
      BY <3>1 DEF ReaderNear, RisesTo
    <3>3. /\ file[m].dts \in Nat /\ old[Video] \in Nat \cup {-1}
          /\ p.dts \in Nat /\ p.dts >= old[Video]
      BY <1>1, <1>2, <1>4
    <3> QED
      BY ONLY <3>2, <3>3
  <2> QED
    BY <2>1, <2>2
<1>7. KeyFrame(p) => KeyKnown(L, N, p.dts)'
  <2>1. Queue(Video) \in Seq(Queued) /\ p \in Queued
    BY DEF PipelineInv, PipelineTypes, VideoAndAudio, Queued
  <2>2. /\ Len(Queue(Video)) + 1 \in 1..Len(Queue(Video)') /\ Queue(Video)'[Len(Queue(Video)) + 1] = p
    BY <2>1, Appended
  <2>3. KeyFrame(p) => IsKey(p, L, N, p.dts)
    BY DEF IsKey
  <2> QED
    BY <2>2, <2>3 DEF KeyKnown, KeyWaits, IsKey, KeyFrame, Control
<1>8. ASSUME NEW n \in 1..pos, NEW d \in Nat, KeyKnown(L, n, d)', p.dts - d <= reach[pos]
      PROVE  GroupOpen(reach)'
  <2>1. n \in 1..pos' - 1 /\ N \in 1..pos' - 1 /\ \A k \in N + 1..pos' - 1 : FALSE
    BY <1>1
  <2>2. VideoAt(N)' /\ old'[Video] - d <= reach[N] /\ loop' = L
    BY <1>1, <1>8 DEF VideoAt
  <2> QED
    BY <1>8, <2>1, <2>2 DEF GroupOpen
<1>13. ASSUME KeyFrame(p) PROVE GroupOpen(reach)'
  <2>1. N \in 1..pos /\ p.dts \in Nat /\ p.dts - p.dts <= reach[pos]
    BY <1>1, <1>2
  <2> QED
    BY <1>7, <1>8, <1>13, <2>1
<1>9. CASE VideoRead
  <2>1. PICK n, m \in 1..pos - 1, d \in Nat :
          /\ VideoAt(m) /\ (\A k \in m + 1..pos - 1 : ~VideoAt(k))
          /\ KeyKnown(loop, n, d) /\ old[Video] - d <= reach[m]
    BY <1>9 DEF ReaderNear, GroupOpen
  <2>2. n \in 1..Len(file) /\ m \in 1..Len(file) /\ n < pos /\ m < pos /\ n \in Nat /\ n \in 1..pos
    <3>1. pos \in Nat \ {0} /\ Len(file) \in Nat /\ pos <= Len(file)
      BY <1>1, <1>2
    <3> QED
      BY ONLY <3>1, n \in 1..pos - 1, m \in 1..pos - 1
  <2>3. Neighbours(file, m, pos) /\ VideoAt(pos)
    <3>1. VideoAt(pos) /\ m < pos /\ m \in DOMAIN file /\ pos \in DOMAIN file
      <4>1. DOMAIN file = 1..Len(file)
        BY LenProperties DEF PipelineInv, PipelineTypes
      <4>2. pos \in 1..Len(file) /\ VideoAt(pos)
        BY DEF VideoAt
      <4> QED
        BY ONLY <2>2, <4>1, <4>2
    <3>2. file[m].stream = Video /\ file[pos].stream = Video
      BY <2>1, <3>1 DEF VideoAt
    <3>3. \A k \in m + 1..pos - 1 : file[k].stream # Video
      BY <2>1 DEF VideoAt
    <3> QED
      BY ONLY <3>1, <3>2, <3>3 DEF Neighbours
  <2>4. p.dts - d <= reach[m] + Step(file, m, pos)
    <3>1. /\ d \in Nat /\ old[Video] - d <= reach[m] /\ reach[m] \in Nat /\ Step(file, m, pos) \in Nat
          /\ Step(file, m, pos) >= file[pos].dts - file[m].dts /\ Step(file, m, pos) >= Inc[Video]
          /\ Inc[Video] \in Nat /\ file[m].dts \in Nat
      BY <1>2, <2>1, <2>2 DEF VideoAt
    <3>2. file[m].dts <= old[Video]
      BY <2>1, <2>2 DEF ReaderNear, RisesTo
    <3>3. p.dts = old[Video] + Inc[Video] \/ p.dts = file[pos].dts
      OBVIOUS
    <3> QED
      BY ONLY <1>4, <1>11, <3>1, <3>2, <3>3
  <2>5. ASSUME KeyFrame(p) PROVE NearKey(p, gap)'
    <3>1. reach[m] + Step(file, m, pos) + gap <= Interval /\ reach[m] \in Nat /\ Step(file, m, pos) \in Nat
      BY <1>2, <1>3, <2>2, <2>3, <2>5
    <3>2. p.dts - d + gap <= Interval
      <4>1. d \in Nat
        OBVIOUS
      <4> QED
        BY ONLY <1>11, <2>4, <3>1, <4>1
    <3>3. KeyKnown(L, n, d)'
      BY <1>5, <2>1
    <3> QED
      BY <1>1, <2>2, <3>2, <3>3 DEF NearKey
  <2>6. ASSUME ~KeyFrame(p) PROVE GroupOpen(reach)'
    <3>1. reach[m] + Step(file, m, pos) <= reach[pos] /\ reach[m] \in Nat /\ Step(file, m, pos) \in Nat /\ reach[pos] \in Nat
      BY <1>2, <1>3, <2>2, <2>3, <2>6
    <3>2. p.dts - d <= reach[pos]
      <4>1. d \in Nat
        OBVIOUS
      <4> QED
        BY ONLY <1>11, <2>4, <3>1, <4>1
    <3>3. KeyKnown(L, n, d)'
      BY <1>5, <2>1
    <3> QED
      BY <1>8, <2>2, <3>2, <3>3
  <2> QED
    BY <1>6, <1>13, <1>12, <2>5, <2>6 DEF ReaderNear
<1>10. CASE ~VideoRead
  <2>1. \A k \in 1..pos - 1 : ~VideoAt(k)
    BY <1>10 DEF VideoRead
  <2>2. file[pos].key /\ file[pos].dts <= 2 * Interval
    BY <1>2, <2>1
  <2>3. KeyFrame(p)
    BY <1>3, <2>2
  <2>4. NearKey(p, gap)'
    <3>1. CASE loop = 0
      <4>1. old[Video] = -1
        BY <1>10, <3>1 DEF ReaderNear
      <4>2. p.dts = file[pos].dts
        BY <1>4, <4>1
      <4> QED
        BY <2>2, <4>2 DEF NearKey
    <3>2. CASE loop > 0
      <4>1. GroupOver(gap)
        BY <1>10, <3>2 DEF ReaderNear
      <4>2. PICK l, n, d \in Nat : l < loop /\ KeyKnown(l, n, d) /\ old[Video] + Inc[Video] - d + gap <= Interval
        BY <4>1 DEF GroupOver
      <4>3. file[pos].dts <= old[Video]
        BY <3>2 DEF ReaderNear, RisesTo
      <4>4. p.dts - d + gap <= Interval
        <5>1. p.dts = old[Video] + Inc[Video] /\ Inc[Video] \in Nat
          BY <1>2, <4>3
        <5>2. d \in Nat /\ old[Video] + Inc[Video] - d + gap <= Interval
          BY <4>2
        <5> QED
          BY ONLY <1>11, <5>1, <5>2
      <4>5. KeyKnown(l, n, d)'
        BY <1>5, <4>2
      <4> QED
        BY <4>2, <4>4, <4>5 DEF NearKey
    <3> QED
      BY <1>1, <3>1, <3>2
  <2> QED
    BY <1>6, <1>13, <1>12, <2>3, <2>4 DEF ReaderNear
<1> QED
  BY <1>9, <1>10

(* A frame of the audio leaves the video's group as it is.                  *)
LEMMA AudioStaysNear ==
  ASSUME VideoAndAudio, PipelineInv, NEW gap \in Nat, NEW reach, ReaderNear(gap, reach), ReadFrame,
         pos \in 1..Len(file), ~VideoAt(pos), old'[Video] = old[Video]
  PROVE  ReaderNear(gap, reach)'
<1> SUFFICES ASSUME NEW L, L = loop PROVE ReaderNear(gap, reach)'
  OBVIOUS
<1>1. pos' = pos + 1 /\ loop' = loop /\ file' = file /\ loop \in Nat /\ pos \in Nat \ {0}
  BY SMTT(30) DEF PipelineInv, ReadFrame, PipelineTypes
<1>2. \A l, n, d : KeyKnown(l, n, d) => KeyKnown(l, n, d)'
  BY KnownStays DEF PipelineNext
<1>3. \A m : VideoAt(m)' <=> VideoAt(m)
  BY <1>1 DEF VideoAt
<1>4. pos' - 1 = pos /\ \A n \in Nat : \A k \in n + 1..pos : k = pos \/ k \in n + 1..pos - 1
  BY <1>1
<1>5. RisesTo(old[Video])'
  <2> SUFFICES ASSUME NEW m \in 1..Len(file), VideoAt(m), m < pos + 1 \/ loop > 0
               PROVE  file[m].dts <= old[Video]
    BY <1>1 DEF RisesTo, VideoAt
  <2>1. m # pos
    OBVIOUS
  <2>2. m < pos \/ loop > 0
    BY <1>1, <2>1
  <2> QED
    BY <2>2 DEF ReaderNear, RisesTo
<1>6. VideoRead' <=> VideoRead
  <2>1. \A m \in 1..pos : VideoAt(m) => m \in 1..pos - 1
    BY <1>1
  <2>2. \A m \in 1..pos - 1 : m \in 1..pos
    BY <1>1
  <2> QED
    BY <1>3, <1>4, <2>1, <2>2 DEF VideoRead
<1>7. ASSUME VideoRead PROVE GroupOpen(reach)'
  <2>1. PICK n, m \in 1..pos - 1, d \in Nat :
          /\ VideoAt(m) /\ (\A k \in m + 1..pos - 1 : ~VideoAt(k))
          /\ KeyKnown(loop, n, d) /\ old[Video] - d <= reach[m]
    BY <1>7 DEF ReaderNear, GroupOpen
  <2>2. n \in 1..pos' - 1 /\ m \in 1..pos' - 1 /\ n \in Nat /\ m \in Nat
    <3>1. n \in 1..pos /\ m \in 1..pos /\ n \in Nat /\ m \in Nat
      BY <1>1
    <3> QED
      BY <1>4, <3>1
  <2>3. \A k \in m + 1..pos' - 1 : ~VideoAt(k)'
    BY <1>3, <1>4, <2>1, <2>2
  <2>4. VideoAt(m)' /\ old'[Video] - d <= reach[m]
    BY <1>3, <2>1
  <2>5. KeyKnown(L, n, d)' /\ L = loop'
    BY <1>1, <1>2, <2>1
  <2> QED
    BY <2>1, <2>2, <2>3, <2>4, <2>5 DEF GroupOpen
<1>8. ASSUME GroupOver(gap) PROVE GroupOver(gap)'
  <2>1. PICK l, n, d \in Nat : l < loop /\ KeyKnown(l, n, d) /\ old[Video] + Inc[Video] - d + gap <= Interval
    BY <1>8 DEF GroupOver
  <2>2. KeyKnown(l, n, d)'
    BY <1>2, <2>1
  <2> QED
    BY <1>1, <2>1, <2>2 DEF GroupOver
<1>9. ~VideoRead' /\ loop' = 0 => old'[Video] = -1
  BY <1>1, <1>6 DEF ReaderNear
<1>10. ASSUME ~VideoRead', loop' > 0, \E m \in 1..Len(file') : VideoAt(m)' PROVE GroupOver(gap)'
  BY <1>1, <1>3, <1>6, <1>8, <1>10 DEF ReaderNear
<1> QED
  BY <1>5, <1>6, <1>7, <1>9, <1>10 DEF ReaderNear

(* At the end of the file the group is over, and it was not too long.       *)
LEMMA EndStaysNear ==
  ASSUME VideoAndAudio, PipelineInv, NEW gap \in Nat, NEW reach, GroupsFit(file, gap, reach), ReaderNear(gap, reach), ReadEnd
  PROVE  ReaderNear(gap, reach)'
<1> SUFFICES ASSUME NEW L, L = loop PROVE ReaderNear(gap, reach)'
  OBVIOUS
<1>1. /\ pos' = 1 /\ loop' = loop + 1 /\ file' = file /\ old' = old /\ loop \in Nat
      /\ old[Video] \in Nat \cup {-1} /\ Interval \in Nat
  BY SegmenterAssumption DEF PipelineInv, ReadEnd, PipelineTypes
<1>2. pos = Len(file) + 1
  BY ReadsEnd DEF PipelineInv
<1>3. \A l, n, d : KeyKnown(l, n, d) => KeyKnown(l, n, d)'
  BY KnownStays DEF PipelineNext
<1>4. /\ Len(file) \in Nat \ {0}
      /\ \A i \in 1..Len(file) : file[i].dts \in Nat
      /\ \A i \in 1..Len(file) : VideoAt(i) /\ (\A k \in i + 1..Len(file) : ~VideoAt(k))
                                  => reach[i] + Inc[Video] + gap <= Interval
      /\ \A i \in 1..Len(file) : reach[i] \in Nat
      /\ Inc[Video] \in Nat
  BY FramesOfFile DEF PipelineInv
<1>5. pos - 1 = Len(file) /\ 1 - 1 = 0 /\ 1..0 = {}
  BY <1>2, <1>4
<1>6. RisesTo(old[Video])'
  <2>1. \A m \in 1..Len(file) : m < pos
    BY <1>2, <1>4
  <2> QED
    BY <1>1, <2>1 DEF ReaderNear, RisesTo, VideoAt
<1>7. ~VideoRead' /\ loop' > 0
  BY <1>1, <1>5 DEF VideoRead
<1>8. ASSUME \E m \in 1..Len(file) : VideoAt(m) PROVE GroupOver(gap)'
  <2>1. VideoRead
    BY <1>5, <1>8 DEF VideoRead
  <2>2. PICK n, m \in 1..pos - 1, d \in Nat :
          /\ VideoAt(m) /\ (\A k \in m + 1..pos - 1 : ~VideoAt(k))
          /\ KeyKnown(loop, n, d) /\ old[Video] - d <= reach[m]
    BY <2>1 DEF ReaderNear, GroupOpen
  <2>3. n \in 1..Len(file) /\ m \in 1..Len(file) /\ n \in Nat
    BY <1>4, <1>5
  <2>6. reach[m] + Inc[Video] + gap <= Interval /\ reach[m] \in Nat
    BY <1>4, <1>5, <2>2, <2>3
  <2>7. old[Video] + Inc[Video] - d + gap <= Interval
    <3>1. d \in Nat /\ old[Video] \in Int /\ old[Video] - d <= reach[m] /\ gap \in Nat /\ Inc[Video] \in Nat
      BY <1>1, <1>4, <2>2
    <3> QED
      BY ONLY <1>1, <2>6, <3>1
  <2>8. KeyKnown(L, n, d)' /\ L \in Nat /\ L < loop'
    BY <1>1, <1>3, <2>2
  <2> QED
    BY <1>1, <2>3, <2>7, <2>8 DEF GroupOver
<1>9. (\E m \in 1..Len(file') : VideoAt(m)') => GroupOver(gap)'
  BY <1>1, <1>8 DEF VideoAt
<1> QED
  BY <1>1, <1>6, <1>7, <1>9 DEF ReaderNear

(* The key frames stay near when those of the queue were in the queue, or   *)
(* are near ones that were added, and those made were made or in the queue. *)
LEMMA KeysStayNear ==
  ASSUME VideoAndAudio, PipelineInv, [PipelineNext]_pipelineVars, NEW gap \in Nat, KeysNear(gap),
         \A i \in 1..Len(Queue(Video)') :
           \/ \E j \in 1..Len(Queue(Video)) : Queue(Video)'[i] = Queue(Video)[j]
           \/ \E p : p = Queue(Video)'[i] /\ (KeyFrame(p) => NearKey(p, gap)'),
         \A i \in 1..Len(out') : KeyFrame(out'[i]) =>
           \/ \E j \in 1..Len(out) : out'[i] = out[j]
           \/ \E r :
                /\ (\E j \in 1..Len(Queue(Video)) : r = Queue(Video)[j]) /\ KeyFrame(r)
                /\ out'[i].loop = r.loop /\ out'[i].n = r.n /\ out'[i].dts = r.dts
  PROVE  KeysNear(gap)'
<1>1. \A p, q : q.loop = p.loop /\ q.n = p.n /\ q.dts = p.dts /\ NearKey(p, gap) => NearKey(q, gap)'
  BY NearStays
<1>2. \A q : (\E i \in 1..Len(Queue(Video)') : q = Queue(Video)'[i]) /\ KeyFrame(q) => NearKey(q, gap)'
  <2> SUFFICES ASSUME NEW q, NEW i \in 1..Len(Queue(Video)'), q = Queue(Video)'[i], KeyFrame(q)
               PROVE  NearKey(q, gap)'
    OBVIOUS
  <2>1. CASE \E j \in 1..Len(Queue(Video)) : Queue(Video)'[i] = Queue(Video)[j]
    <3>1. PICK j \in 1..Len(Queue(Video)) : q = Queue(Video)[j]
      BY <2>1
    <3>2. NearKey(q, gap)
      BY <3>1 DEF KeysNear
    <3> QED
      BY <1>1, <3>2
  <2>2. CASE \E p : p = Queue(Video)'[i] /\ (KeyFrame(p) => NearKey(p, gap)')
    BY <2>2
  <2> QED
    BY <2>1, <2>2
<1>3. \A q : (\E i \in 1..Len(out') : q = out'[i]) /\ KeyFrame(q) => NearKey(q, gap)'
  <2> SUFFICES ASSUME NEW q, NEW i \in 1..Len(out'), q = out'[i], KeyFrame(q)
               PROVE  NearKey(q, gap)'
    OBVIOUS
  <2>1. CASE \E j \in 1..Len(out) : out'[i] = out[j]
    <3>1. PICK j \in 1..Len(out) : q = out[j]
      BY <2>1
    <3>2. NearKey(q, gap)
      BY <3>1 DEF KeysNear
    <3> QED
      BY <1>1, <3>2
  <2>2. CASE \E r :
               /\ (\E j \in 1..Len(Queue(Video)) : r = Queue(Video)[j]) /\ KeyFrame(r)
               /\ out'[i].loop = r.loop /\ out'[i].n = r.n /\ out'[i].dts = r.dts
    <3>1. PICK r :
            /\ (\E j \in 1..Len(Queue(Video)) : r = Queue(Video)[j]) /\ KeyFrame(r)
            /\ out'[i].loop = r.loop /\ out'[i].n = r.n /\ out'[i].dts = r.dts
      BY <2>2
    <3>2. NearKey(r, gap)
      BY <3>1 DEF KeysNear
    <3> QED
      BY <1>1, <3>1, <3>2
  <2> QED
    BY <2>1, <2>2
<1> QED
  BY <1>2, <1>3 DEF KeysNear, KeyFrame, Control

(* What the reader adds keeps the key frames near.                          *)
LEMMA ReaderStaysNear ==
  ASSUME VideoAndAudio, PipelineInv, NEW gap \in Nat, NEW reach, GroupsFit(file, gap, reach), KeysNear(gap), ReaderNear(gap, reach),
         ReadFrame \/ ReadEnd
  PROVE  KeysNear(gap)' /\ ReaderNear(gap, reach)'
<1>1. [PipelineNext]_pipelineVars /\ UNCHANGED out
  BY DEF PipelineNext, ReadFrame, ReadEnd
<1>2. Queue(Video) \in Seq(Queued) /\ Video \in Streams /\ PipelineTypes
  BY DEF PipelineInv, PipelineTypes, VideoAndAudio
<1>3. \A i \in 1..Len(out') : \E j \in 1..Len(out) : out'[i] = out[j]
  BY <1>1
<1>4. ASSUME NEW p \in Queued, Queue(Video)' = Append(Queue(Video), p)
      PROVE  \A i \in 1..Len(Queue(Video)') :
               \/ \E j \in 1..Len(Queue(Video)) : Queue(Video)'[i] = Queue(Video)[j]
               \/ p = Queue(Video)'[i]
  <2>1. /\ Len(Queue(Video)') = Len(Queue(Video)) + 1 /\ Len(Queue(Video)) \in Nat
        /\ Queue(Video)'[Len(Queue(Video)) + 1] = p
        /\ \A j \in 1..Len(Queue(Video)) : Queue(Video)'[j] = Queue(Video)[j]
    BY <1>2, <1>4, Appended
  <2>2. \A i \in 1..Len(Queue(Video)') : i \in 1..Len(Queue(Video)) \/ i = Len(Queue(Video)) + 1
    BY <2>1
  <2> QED
    BY <2>1, <2>2
<1>5. CASE ReadFrame
  <2>1. PICK p \in MediaEntry :
          /\ pos \in 1..Len(file) /\ p.stream = file[pos].stream /\ p.stream \in Streams
          /\ p.loop = loop /\ p.n = pos /\ p.frame = file[pos].key
          /\ p.dts = (IF file[pos].dts <= old[p.stream] THEN old[p.stream] + Inc[p.stream] ELSE file[pos].dts)
          /\ old' = [old EXCEPT ![0] = p.dts, ![p.stream] = p.dts]
          /\ \A t \in Streams : Queue(t)' = IF t = p.stream THEN Append(Queue(t), p) ELSE Queue(t)
    BY <1>2, <1>5, ReadsFrame
  <2>2. old \in [{0, Video, Audio} -> Nat \cup {-1}] /\ Video = 1 /\ p.stream \in {Video, Audio}
    BY <1>2, <2>1 DEF PipelineTypes, Video, VideoAndAudio
  <2>3. CASE p.stream = Video
    <3>1. old'[Video] = p.dts /\ Queue(Video)' = Append(Queue(Video), p) /\ VideoAt(pos)
      BY <1>2, <2>1, <2>2, <2>3 DEF VideoAt
    <3>2. (KeyFrame(p) => NearKey(p, gap)') /\ ReaderNear(gap, reach)'
      BY <1>5, <2>1, <2>3, <3>1, VideoStaysNear
    <3>3. p \in Queued
      BY DEF Queued
    <3>4. \A i \in 1..Len(Queue(Video)') :
            \/ \E j \in 1..Len(Queue(Video)) : Queue(Video)'[i] = Queue(Video)[j]
            \/ \E r : r = Queue(Video)'[i] /\ (KeyFrame(r) => NearKey(r, gap)')
      BY <1>4, <3>1, <3>2, <3>3
    <3> QED
      BY <1>1, <1>3, <3>2, <3>4, KeysStayNear
  <2>4. CASE p.stream # Video
    <3>1. old'[Video] = old[Video] /\ Queue(Video)' = Queue(Video) /\ ~VideoAt(pos)
      BY <1>2, <2>1, <2>2, <2>4 DEF VideoAt
    <3>2. ReaderNear(gap, reach)'
      BY <1>5, <2>1, <3>1, AudioStaysNear
    <3>3. \A i \in 1..Len(Queue(Video)') : \E j \in 1..Len(Queue(Video)) : Queue(Video)'[i] = Queue(Video)[j]
      BY <3>1
    <3> QED
      BY <1>1, <1>3, <3>2, <3>3, KeysStayNear
  <2> QED
    BY <2>3, <2>4
<1>6. CASE ReadEnd
  <2>1. ReaderNear(gap, reach)'
    BY <1>6, EndStaysNear
  <2>2. PICK c \in ControlEntry : Queue(Video)' = Append(Queue(Video), c)
    BY <1>2, <1>6, ReadsEnd
  <2>3. c \in Queued /\ ~KeyFrame(c)
    BY Labels DEF Queued, KeyFrame
  <2>4. \A i \in 1..Len(Queue(Video)') :
          \/ \E j \in 1..Len(Queue(Video)) : Queue(Video)'[i] = Queue(Video)[j]
          \/ \E r : r = Queue(Video)'[i] /\ (KeyFrame(r) => NearKey(r, gap)')
    BY <1>4, <2>2, <2>3
  <2> QED
    BY <1>1, <1>3, <2>1, <2>4, KeysStayNear
<1> QED
  BY <1>5, <1>6

(* Nor do the other steps part a packet from the key frames.                *)
LEMMA OthersStayNear ==
  ASSUME VideoAndAudio, PipelineInv, NEW gap \in Nat, NEW reach, KeysNear(gap), ReaderNear(gap, reach),
         [PipelineNext]_pipelineVars, ~(ReadFrame \/ ReadEnd)
  PROVE  KeysNear(gap)' /\ ReaderNear(gap, reach)'
<1> SUFFICES ASSUME NEW L, L = loop PROVE KeysNear(gap)' /\ ReaderNear(gap, reach)'
  OBVIOUS
<1>1. UNCHANGED <<file, pos, loop, old>>
  BY DEF PipelineNext, BeginPass, TakeFrame, TakeEnough, TakeControl, RunDry, ReleaseMedia, ReleaseControl,
         EndPass, PipelineDone, reader, pipelineVars
<1>2. ReaderNear(gap, reach)'
  <2>1. \A l, n, d : KeyKnown(l, n, d) => KeyKnown(l, n, d)'
    BY KnownStays
  <2>2. \A m : VideoAt(m)' <=> VideoAt(m)
    BY <1>1 DEF VideoAt
  <2>3. GroupOpen(reach) => GroupOpen(reach)'
    <3> SUFFICES ASSUME GroupOpen(reach) PROVE GroupOpen(reach)'
      OBVIOUS
    <3>1. PICK n, m \in 1..pos - 1, d \in Nat :
            /\ VideoAt(m) /\ (\A k \in m + 1..pos - 1 : ~VideoAt(k))
            /\ KeyKnown(loop, n, d) /\ old[Video] - d <= reach[m]
      BY DEF GroupOpen
    <3>2. KeyKnown(L, n, d)' /\ L = loop'
      BY <1>1, <2>1, <3>1
    <3> QED
      BY <1>1, <2>2, <3>1, <3>2 DEF GroupOpen
  <2>4. GroupOver(gap) => GroupOver(gap)'
    <3> SUFFICES ASSUME GroupOver(gap) PROVE GroupOver(gap)'
      OBVIOUS
    <3>1. PICK l, n, d \in Nat : l < loop /\ KeyKnown(l, n, d) /\ old[Video] + Inc[Video] - d + gap <= Interval
      BY DEF GroupOver
    <3>2. KeyKnown(l, n, d)'
      BY <2>1, <3>1
    <3> QED
      BY <1>1, <3>1, <3>2 DEF GroupOver
  <2>5. (VideoRead' <=> VideoRead) /\ (RisesTo(old[Video]) => RisesTo(old[Video])')
    BY <1>1 DEF VideoRead, RisesTo, VideoAt
  <2> QED
    BY <1>1, <2>2, <2>3, <2>4, <2>5 DEF ReaderNear
<1>3. KeysNear(gap)'
  <2>1. /\ \A i \in 1..Len(Queue(Video)') : \E j \in 1..Len(Queue(Video)) : Queue(Video)'[i] = Queue(Video)[j]
        /\ \A i \in 1..Len(out') : KeyFrame(out'[i]) =>
             \/ \E j \in 1..Len(out) : out'[i] = out[j]
             \/ \E r :
                  /\ (\E j \in 1..Len(Queue(Video)) : r = Queue(Video)[j]) /\ KeyFrame(r)
                  /\ out'[i].loop = r.loop /\ out'[i].n = r.n /\ out'[i].dts = r.dts
    <3>0. Video \in Streams /\ PipelineTypes
      BY DEF VideoAndAudio, PipelineInv
    <3>1. CASE TakeFrame
      <4>1. PICK s \in Streams, p \in MediaEntry, P \in Seq(TSPacket) : Moves(s, p, P)
        BY <3>1, FrameMoves DEF PipelineInv
      <4>2. p = Queue(s)[1] /\ 1 \in 1..Len(Queue(s)) /\ ~Control(p) /\ p.stream = s
        BY <4>1 DEF Moves, Leaves
      <4>6. \A i \in 1..Len(P) : /\ P[i].stream = s /\ P[i].loop = p.loop /\ P[i].n = p.n
                                 /\ P[i].frame = p.frame /\ P[i].dts = p.dts
        BY <4>1 DEF Moves, Parts
      <4>7. /\ \A i \in 1..Len(out) : i \in 1..Len(out') /\ out'[i] = out[i]
            /\ \A i \in 1..Len(out') :
                 \/ i \in 1..Len(out)
                 \/ i > Len(out) /\ i - Len(out) \in 1..Len(P) /\ out'[i] = P[i - Len(out)]
        BY <4>1 DEF Moves, Joins
      <4>3. Taken(Video)
        BY <3>0, <4>1 DEF Taken, Moves, Leaves
      <4>4. \A i \in 1..Len(Queue(Video)') : \E j \in 1..Len(Queue(Video)) : Queue(Video)'[i] = Queue(Video)[j]
        BY <3>0, <4>3, Remaining
      <4>5. ASSUME NEW i \in 1..Len(out'), KeyFrame(out'[i])
            PROVE  \/ \E j \in 1..Len(out) : out'[i] = out[j]
                   \/ \E r :
                        /\ (\E j \in 1..Len(Queue(Video)) : r = Queue(Video)[j]) /\ KeyFrame(r)
                        /\ out'[i].loop = r.loop /\ out'[i].n = r.n /\ out'[i].dts = r.dts
        <5>1. CASE i \in 1..Len(out)
          BY <4>7, <5>1
        <5>2. CASE i - Len(out) \in 1..Len(P) /\ out'[i] = P[i - Len(out)]
          <6>1. s = Video /\ KeyFrame(p)
            BY <4>2, <4>5, <4>6, <5>2 DEF KeyFrame
          <6>2. p = Queue(Video)[1] /\ 1 \in 1..Len(Queue(Video))
            BY <4>2, <6>1
          <6>3. out'[i].loop = p.loop /\ out'[i].n = p.n /\ out'[i].dts = p.dts
            BY <4>6, <5>2
          <6> QED
            BY <6>1, <6>2, <6>3
        <5> QED
          BY <4>7, <5>1, <5>2
      <4> QED
        BY <4>4, <4>5
    <3>2. CASE TakeControl
      <4>1. PICK g \in Nat, c \in ControlEntry : LoopEnds(g, c)
        BY <3>2, ControlsMove DEF PipelineInv, InLine
      <4>2. /\ \A i \in 1..Len(out) : i \in 1..Len(out') /\ out'[i] = out[i]
            /\ \A i \in 1..Len(out') : i \in 1..Len(out) \/ (i = Len(out) + 1 /\ out'[i] = c)
            /\ Control(c)
        BY <4>1 DEF LoopEnds
      <4>3. \A i \in 1..Len(Queue(Video)') : \E j \in 1..Len(Queue(Video)) : Queue(Video)'[i] = Queue(Video)[j]
        BY <3>0, <4>1 DEF LoopEnds
      <4> QED
        BY <4>2, <4>3 DEF KeyFrame
    <3>3. CASE ReleaseMedia \/ ReleaseControl
      <4>1. Queue(Video)' = Queue(Video)
        BY <3>3 DEF ReleaseMedia, ReleaseControl, Queue
      <4>2. \A i \in 1..Len(out') : \E j \in 1..Len(out) : out'[i] = out[j]
        BY <3>0, <3>3, MadeGo
      <4> QED
        BY <4>1, <4>2
    <3>4. CASE BeginPass \/ TakeEnough \/ RunDry \/ EndPass \/ PipelineDone \/ UNCHANGED pipelineVars
      <4>1. UNCHANGED <<mux, out>>
        BY <3>4 DEF BeginPass, TakeEnough, RunDry, EndPass, PipelineDone, pipelineVars
      <4> QED
        BY <4>1 DEF Queue
    <3> QED
      BY <3>1, <3>2, <3>3, <3>4 DEF PipelineNext
  <2> QED
    BY <2>1, KeysStayNear
<1> QED
  BY <1>2, <1>3

(* A dts that is raised, or read, stays within a gap of the one before it.  *)
LEMMA Raised == \A x, c, g \in Nat : g >= c => x + c <= x + g
OBVIOUS
LEMMA AsRead == \A x, a, b, g \in Nat : x >= a /\ g >= b - a => b <= x + g
OBVIOUS
LEMMA StillNear == \A x, a, b, g \in Nat : x >= b - g /\ a <= b => x >= a - g
OBVIOUS
LEMMA AtLeast == \A n, m, i, j, c \in Nat : n <= m /\ n >= j - i /\ n >= c => m >= j - i /\ m >= c
OBVIOUS

(* What comes behind a frame in its queue has a higher dts, and the audio   *)
(* is not more than a gap ahead.                                            *)
LEMMA NextInQueue ==
  ASSUME VideoAndAudio, PipelineInv, QueuesFollow, NEW gap \in Nat \ {0}, NEW reach, GroupsFit(file, gap, reach),
         NEW s \in Streams, NEW p, Queue(s) # <<>>, p = Queue(s)[1], ~Control(p),
         NEW q, Tail(Queue(s)) # <<>>, q = Head(Tail(Queue(s))), ~Control(q)
  PROVE  p.dts < q.dts /\ (s = Audio => q.dts <= p.dts + gap)
<1>1. Queue(s) \in Seq(Queued)
  BY DEF PipelineInv, PipelineTypes
<1>2. /\ Tail(Queue(s)) \in Seq(Queued) /\ Len(Tail(Queue(s))) = Len(Queue(s)) - 1 /\ Len(Queue(s)) \in Nat
      /\ \A i \in 1..Len(Tail(Queue(s))) : Tail(Queue(s))[i] = Queue(s)[i + 1] /\ i + 1 \in 1..Len(Queue(s))
  BY <1>1, Beheaded
<1>3. q = Tail(Queue(s))[1] /\ Len(Tail(Queue(s))) \in Nat \ {0}
  BY <1>2, Beheaded
<1>4. q = Queue(s)[2] /\ 1 \in 1..Len(Queue(s)) - 1 /\ 1 \in 1..Len(Queue(s)) /\ 2 \in 1..Len(Queue(s)) /\ 1 + 1 = 2
  <2>1. 1 \in 1..Len(Tail(Queue(s))) /\ 1 + 1 = 2
    BY <1>3
  <2> QED
    BY <1>2, <1>3, <2>1
<1>5. Succeeds(p, q)
  BY <1>4 DEF QueuesFollow
<1>6. p \in Queued /\ q \in Queued
  BY <1>1, <1>4, ElementOfSeq
<1>7. p.dts \in Nat /\ q.dts \in Nat /\ p.dts < q.dts
  BY <1>5, <1>6, Labels DEF Succeeds
<1>8. /\ p.stream = s /\ p.n \in 1..Len(file) /\ q.n \in 1..Len(file) /\ file[p.n].stream = s
      /\ p.dts >= file[p.n].dts
  BY <1>4 DEF PipelineInv, Contents, Belongs, QueuesFollow
<1>9. Neighbours(file, p.n, q.n) /\ (q.dts = p.dts + Inc[file[q.n].stream] \/ q.dts = file[q.n].dts)
  BY <1>5 DEF Succeeds
<1>10. ASSUME s = Audio PROVE q.dts <= p.dts + gap
  <2>1. gap \in Nat /\ file[q.n].stream = Audio
    BY <1>8, <1>9, <1>10 DEF Neighbours
  <2>2. /\ file[p.n].dts \in Nat /\ file[q.n].dts \in Nat /\ Inc[Audio] \in Nat
        /\ Step(file, p.n, q.n) <= gap /\ Step(file, p.n, q.n) \in Nat
        /\ Step(file, p.n, q.n) >= file[q.n].dts - file[p.n].dts /\ Step(file, p.n, q.n) >= Inc[Audio]
    BY <1>8, <1>9, <2>1, FramesOfFile DEF PipelineInv
  <2>3. q.dts = p.dts + Inc[Audio] \/ q.dts = file[q.n].dts
    BY ONLY <1>9, <2>1, Zenon
  <2>4. gap >= file[q.n].dts - file[p.n].dts /\ gap >= Inc[Audio]
    BY ONLY <2>1, <2>2, AtLeast, Zenon
  <2>5. CASE q.dts = p.dts + Inc[Audio]
    <3>1. p.dts + Inc[Audio] <= p.dts + gap
      BY ONLY <1>7, <2>1, <2>2, <2>4, Raised, Zenon
    <3> QED
      BY ONLY <2>5, <3>1, Zenon
  <2>6. CASE q.dts = file[q.n].dts
    <3>1. file[q.n].dts <= p.dts + gap
      BY ONLY <1>7, <1>8, <2>1, <2>2, <2>4, AsRead, Zenon
    <3> QED
      BY ONLY <2>6, <3>1, Zenon
  <2> QED
    BY <2>3, <2>5, <2>6
<1> QED
  BY <1>7, <1>10

(* A frame that is taken is not before the reference, and one of the video  *)
(* not more than a gap behind the reference.                                *)
LEMMA FrameStamps ==
  ASSUME VideoAndAudio, PipelineInv, QueuesFollow, NEW gap \in Nat \ {0}, NEW reach, GroupsFit(file, gap, reach),
         Stamps(gap), Reference(gap), TakeFrame
  PROVE  Stamps(gap)' /\ Reference(gap)'
<1>1. PICK s \in Streams, p \in MediaEntry, P \in Seq(TSPacket) : Moves(s, p, P)
  BY FrameMoves DEF PipelineInv
<1>2. /\ s = SelectMux(mux) /\ p = Head(Queue(s)) /\ p = Queue(s)[1] /\ Queue(s) # <<>> /\ ~Control(p) /\ p.stream = s
      /\ \A i \in 1..Len(P) : P[i].stream = s /\ P[i].dts = p.dts /\ ~Control(P[i])
      /\ Len(P) \in Nat /\ 1 \in 1..Len(P) /\ Len(out) \in Nat /\ Len(out') = Len(out) + Len(P)
      /\ \A i \in 1..Len(out) : i \in 1..Len(out') /\ out'[i] = out[i]
      /\ \A i \in 1..Len(P) : Len(out) + i \in 1..Len(out') /\ out'[Len(out) + i] = P[i]
      /\ \A i \in 1..Len(out') :
           \/ i \in 1..Len(out)
           \/ i > Len(out) /\ i - Len(out) \in 1..Len(P) /\ out'[i] = P[i - Len(out)]
      /\ \A t \in Streams : Queue(t)' = IF t = s THEN Tail(Queue(t)) ELSE Queue(t)
  <2>1. /\ s = SelectMux(mux) /\ p = Head(Queue(s)) /\ p = Queue(s)[1] /\ Queue(s) # <<>> /\ ~Control(p) /\ p.stream = s
        /\ \A t \in Streams : Queue(t)' = IF t = s THEN Tail(Queue(t)) ELSE Queue(t)
    BY <1>1 DEF Moves, Leaves
  <2>2. \A i \in 1..Len(P) : P[i].stream = s /\ P[i].dts = p.dts /\ ~Control(P[i])
    BY <1>1 DEF Moves, Parts
  <2>3. Joins(P)
    BY <1>1 DEF Moves
  <2> QED
    BY ONLY <2>1, <2>2, <2>3 DEF Joins
<1>3. pass' = pass /\ pass.phase = "take" /\ DOMAIN mux = Streams /\ ~Enough(s)
  BY <1>2 DEF TakeFrame, Taking, PipelineInv, AtTheEnd
<1>4. \A t \in Streams : Queue(t) # <<>> /\ (~Control(Head(Queue(t))) => Head(Queue(t)).dts \in Nat /\ p.dts <= Head(Queue(t)).dts)
  <2>1. /\ \A t \in Streams : Queue(t) # <<>>
        /\ \A t \in Streams : ~Control(Head(Queue(t))) => p.key <= Head(Queue(t)).key
    BY <1>2, TakesFrame DEF PipelineInv
  <2>2. \A t \in Streams : Head(Queue(t)) = Queue(t)[1] /\ 1 \in 1..Len(Queue(t)) /\ Head(Queue(t)) \in Queued
    <3> TAKE t \in Streams
    <3>1. Queue(t) \in Seq(Queued) /\ Queue(t) # <<>>
      BY <2>1 DEF PipelineInv, PipelineTypes
    <3> QED
      BY <3>1, Beheaded
  <2>3. \A t \in Streams : ~Control(Head(Queue(t))) => Head(Queue(t)).key = Head(Queue(t)).dts /\ Head(Queue(t)).dts \in Nat
    BY <2>2, Labels DEF PipelineInv, Contents, Belongs
  <2> QED
    BY <1>2, <2>1, <2>3, SMTT(30)
<1>5. /\ p.dts \in Nat /\ s \in {Video, Audio} /\ Video # Audio /\ Audio \in Streams
      /\ \A i \in 1..Len(out) : ~Control(out[i]) => out[i].dts \in Nat
  <2>1. \A i \in 1..Len(out) : out[i] \in Made
    BY ElementOfSeq DEF PipelineInv, PipelineTypes
  <2> QED
    BY <1>2, <1>4, <2>1, Labels DEF VideoAndAudio, Video, Audio
<1>6. ASSUME Tail(Queue(s)) # <<>>, ~Control(Head(Tail(Queue(s))))
      PROVE  p.dts < Head(Tail(Queue(s))).dts /\ (s = Audio => Head(Tail(Queue(s))).dts <= p.dts + gap)
  BY <1>2, <1>6, NextInQueue
<1>7. /\ pass.refDts = 0 /\ (out = <<>> => s = pass.ref)
      /\ \A j \in 1..Len(out) : Media(out[j], pass.ref) => out[j].dts <= p.dts
  BY <1>2, <1>3 DEF Reference
<1>8. ASSUME pass.ref = Audio, s # Audio
      PROVE  \E j \in 1..Len(out) : Media(out[j], Audio) /\ out[j].dts >= Head(Queue(Audio)).dts - gap
  <2>1. ~Control(Head(Queue(Audio)))
    <3>1. Queue(Audio) = mux[Audio]
      BY <1>3, <1>5, QueueInTable
    <3> QED
      BY <1>3, <1>8, <3>1 DEF Enough
  <2> QED
    BY <1>3, <1>4, <1>5, <1>7, <1>8, <2>1 DEF Reference
<1>9. \A i \in 1..Len(out') : ~Control(out'[i]) => out'[i].dts \in Nat
  <2> TAKE i \in 1..Len(out')
  <2>1. CASE i \in 1..Len(out)
    BY <1>2, <1>5, <2>1
  <2>2. CASE i - Len(out) \in 1..Len(P) /\ out'[i] = P[i - Len(out)]
    BY <1>2, <1>5, <2>2
  <2> QED
    BY <1>2, <2>1, <2>2
<1>10. \A j \in 1..Len(out') : Media(out'[j], pass.ref) => out'[j].dts <= p.dts
  <2> TAKE j \in 1..Len(out')
  <2>1. CASE j \in 1..Len(out)
    BY <1>2, <1>7, <2>1 DEF Media
  <2>2. CASE j - Len(out) \in 1..Len(P) /\ out'[j] = P[j - Len(out)]
    <3>1. out'[j].dts = p.dts
      BY <1>2, <2>2
    <3> QED
      BY <1>5, <3>1
  <2> QED
    BY <1>2, <2>1, <2>2
<1>11. \A i, j \in 1..Len(out') : j < i /\ ~Control(out'[i]) /\ Media(out'[j], pass.ref) => out'[j].dts <= out'[i].dts
  <2> SUFFICES ASSUME NEW i \in 1..Len(out'), NEW j \in 1..Len(out'), j < i, ~Control(out'[i]), Media(out'[j], pass.ref)
               PROVE  out'[j].dts <= out'[i].dts
    OBVIOUS
  <2>1. CASE i \in 1..Len(out)
    <3>1. j \in 1..Len(out)
      BY <1>2, <2>1
    <3>2. out'[i] = out[i] /\ out'[j] = out[j] /\ ~Control(out[i]) /\ Media(out[j], pass.ref)
      BY <1>2, <2>1, <3>1 DEF Media, Control
    <3> QED
      BY <2>1, <3>1, <3>2, Zenon DEF Stamps
  <2>2. CASE i - Len(out) \in 1..Len(P) /\ out'[i] = P[i - Len(out)]
    <3>1. out'[i].dts = p.dts
      BY <1>2, <2>2
    <3> QED
      BY <1>10, <3>1
  <2> QED
    BY <1>2, <2>1, <2>2
<1>12. ASSUME pass.ref = Audio, NEW i \in 1..Len(out'), Media(out'[i], Video)
       PROVE  \/ pass.refDts >= out'[i].dts - gap
              \/ \E j \in 1..Len(out') : j < i /\ Media(out'[j], Audio) /\ out'[j].dts >= out'[i].dts - gap
  <2>1. CASE i \in 1..Len(out)
    <3>1. Media(out[i], Video) /\ out'[i] = out[i]
      BY <1>2, <1>12, <2>1
    <3>2. \/ pass.refDts >= out[i].dts - gap
          \/ \E j \in 1..Len(out) : j < i /\ Media(out[j], Audio) /\ out[j].dts >= out[i].dts - gap
      BY <1>12, <2>1, <3>1 DEF Stamps
    <3> QED
      BY <1>2, <3>1, <3>2
  <2>2. CASE i > Len(out) /\ i - Len(out) \in 1..Len(P) /\ out'[i] = P[i - Len(out)]
    <3>1. s = Video /\ out'[i].dts = p.dts
      BY <1>2, <1>12, <2>2 DEF Media
    <3>2. PICK j \in 1..Len(out) : Media(out[j], Audio) /\ out[j].dts >= Head(Queue(Audio)).dts - gap
      BY <1>5, <1>8, <1>12, <3>1
    <3>3. p.dts <= Head(Queue(Audio)).dts /\ Head(Queue(Audio)).dts \in Nat
      <4>1. ~Control(Head(Queue(Audio)))
        <5>1. Queue(Audio) = mux[Audio]
          BY <1>3, <1>5, QueueInTable
        <5> QED
          BY <1>3, <1>12, <5>1 DEF Enough
      <4> QED
        BY <1>4, <1>5, <4>1
    <3>4. out[j].dts \in Nat /\ gap \in Nat /\ j < i
      BY <1>2, <1>5, <2>2, <3>2 DEF Media
    <3>5. out[j].dts >= p.dts - gap
      <4>1. p.dts \in Nat /\ out[j].dts >= Head(Queue(Audio)).dts - gap
        BY <1>5, <3>2
      <4> QED
        BY ONLY <3>3, <3>4, <4>1, StillNear, Zenon
    <3> QED
      BY <1>2, <3>1, <3>2, <3>4, <3>5
  <2> QED
    BY <1>2, <2>1, <2>2
<1>13. Stamps(gap)'
  <2>1. \A i \in 1..Len(out') : ~Control(out'[i]) => pass.ref # None /\ pass.refDts <= out'[i].dts
    <3>1. pass.ref # None
      <4>1. CASE out = <<>>
        BY <1>2, <1>7, <4>1 DEF TakeFrame
      <4>2. CASE out # <<>>
        <5>1. 1 \in 1..Len(out) /\ ~Control(out[1])
          <6>1. Len(out) # 0
            BY <4>2, EmptySeq DEF PipelineInv, PipelineTypes
          <6>2. 1 \in 1..Len(out)
            BY <1>2, <6>1
          <6>3. \A i \in 1..Len(out) : ~Control(out[i])
            BY <1>3 DEF PipelineInv, AtTheEnd
          <6> QED
            BY <6>2, <6>3
        <5> QED
          BY <5>1 DEF Stamps
      <4> QED
        BY <4>1, <4>2
    <3> QED
      BY <1>7, <1>9, <3>1
  <2> QED
    BY <1>3, <1>11, <1>12, <2>1 DEF Stamps, Media, Control
<1>14. ASSUME NEW t \in Streams, Queue(t)' # <<>>, ~Control(Head(Queue(t)'))
       PROVE  p.dts <= Head(Queue(t)').dts /\ Head(Queue(t)').dts \in Nat
  <2>1. CASE t = s
    <3>1. Queue(t)' = Tail(Queue(s))
      BY <1>2, <2>1
    <3>2. Head(Queue(t)') \in Queued
      <4>1. Tail(Queue(s)) \in Seq(Queued) /\ Tail(Queue(s)) # <<>>
        BY <1>2, <1>14, <3>1, Beheaded DEF PipelineInv, PipelineTypes
      <4> QED
        BY <3>1, <4>1, Beheaded
    <3>3. Head(Queue(t)').dts \in Nat /\ p.dts < Head(Queue(t)').dts
      BY <1>6, <1>14, <3>1, <3>2, Labels
    <3> QED
      BY <1>5, <3>3
  <2>2. CASE t # s
    <3>1. Queue(t)' = Queue(t)
      BY <1>2, <2>2
    <3> QED
      BY <1>4, <1>14, <3>1
  <2> QED
    BY <2>1, <2>2
<1>15. ASSUME NEW t \in Streams, Queue(t)' # <<>>, ~Control(Head(Queue(t)')), NEW j \in 1..Len(out'), Media(out'[j], pass.ref)
       PROVE  out'[j].dts <= Head(Queue(t)').dts
  <2>1. out'[j].dts \in Nat /\ out'[j].dts <= p.dts
    BY <1>9, <1>10, <1>15 DEF Media
  <2>2. p.dts <= Head(Queue(t)').dts /\ Head(Queue(t)').dts \in Nat
    BY <1>14, <1>15
  <2> QED
    BY <1>5, <2>1, <2>2
<1>16. ASSUME pass.ref = Audio, Queue(Audio)' # <<>>, ~Control(Head(Queue(Audio)'))
       PROVE  \E j \in 1..Len(out') : Media(out'[j], Audio) /\ out'[j].dts >= Head(Queue(Audio)').dts - gap
  <2>1. CASE s = Audio
    <3>1. Queue(Audio)' = Tail(Queue(s))
      BY <1>2, <1>5, <2>1
    <3>2. Head(Queue(Audio)').dts <= p.dts + gap /\ Head(Queue(Audio)').dts \in Nat
      BY <1>5, <1>6, <1>14, <1>16, <2>1, <3>1
    <3>3. Len(out) + 1 \in 1..Len(out') /\ Media(out'[Len(out) + 1], Audio) /\ out'[Len(out) + 1].dts = p.dts
      BY <1>2, <2>1 DEF Media
    <3>4. p.dts >= Head(Queue(Audio)').dts - gap
      BY <1>5, <3>2
    <3> QED
      BY <3>3, <3>4
  <2>2. CASE s # Audio
    <3>1. Queue(Audio)' = Queue(Audio)
      BY <1>2, <1>5, <2>2
    <3> QED
      BY <1>2, <1>8, <1>16, <2>2, <3>1
  <2> QED
    BY <2>1, <2>2
<1>17. out' # <<>>
  <2>1. Len(out') # 0 /\ Len(<<>>) = 0
    BY <1>2
  <2> QED
    BY <2>1
<1>18. Reference(gap)'
  BY <1>3, <1>7, <1>15, <1>16, <1>17 DEF Reference, Media, Control
<1> QED
  BY <1>13, <1>18

(* The packets of a frame are in the order of the frames, whole, and behind *)
(* the tables if a file or a key frame begins with it.                      *)
LEMMA FrameWhole ==
  ASSUME VideoAndAudio, PipelineInv, Sorted, WholeFrames, TablesFirst, LoopsApart, TakeFrame
  PROVE  Sorted' /\ WholeFrames' /\ TablesFirst' /\ LoopsApart'
<1>1. PICK s \in Streams, p \in MediaEntry, P \in Seq(TSPacket) : Moves(s, p, P)
  BY FrameMoves DEF PipelineInv
<1>2. /\ p = Queue(s)[1] /\ 1 \in 1..Len(Queue(s)) /\ ~Control(p) /\ p.stream = s
      /\ \A i \in 1..Len(P) : /\ P[i].stream = s /\ P[i].loop = p.loop /\ P[i].n = p.n
                              /\ P[i].frame = p.frame /\ P[i].dts = p.dts /\ ~Control(P[i])
      /\ P[1].part = "psi" <=> psi \/ (p.stream = Video /\ p.frame)
      /\ Len(P) \in Nat /\ 1 \in 1..Len(P) /\ Len(out) \in Nat /\ Len(out') = Len(out) + Len(P)
      /\ \A i \in 1..Len(out) : i \in 1..Len(out') /\ out'[i] = out[i]
      /\ \A i \in 1..Len(P) : Len(out) + i \in 1..Len(out') /\ out'[Len(out) + i] = P[i]
      /\ \A i \in 1..Len(out') :
           \/ i \in 1..Len(out)
           \/ i > Len(out) /\ i - Len(out) \in 1..Len(P) /\ out'[i] = P[i - Len(out)]
  <2>1. p = Queue(s)[1] /\ 1 \in 1..Len(Queue(s)) /\ ~Control(p) /\ p.stream = s
    BY <1>1 DEF Moves, Leaves
  <2>2. /\ \A i \in 1..Len(P) : /\ P[i].stream = s /\ P[i].loop = p.loop /\ P[i].n = p.n
                                /\ P[i].frame = p.frame /\ P[i].dts = p.dts /\ ~Control(P[i])
        /\ P[1].part = "psi" <=> psi \/ (p.stream = Video /\ p.frame)
    BY <1>1 DEF Moves, Parts
  <2>3. Joins(P)
    BY <1>1 DEF Moves
  <2> QED
    BY ONLY <2>1, <2>2, <2>3 DEF Joins
<1>3. UNCHANGED <<pass, loop, cutAt, segs, open>> /\ pass.phase = "take"
  BY DEF TakeFrame, Taking, reader, disk
<1>4. /\ \A i \in 1..Len(out) : ~Control(out[i])
      /\ \A i \in 1..Len(out') : ~Control(out'[i])
  <2>1. \A i \in 1..Len(out) : ~Control(out[i])
    BY <1>3 DEF PipelineInv, AtTheEnd
  <2> QED
    BY <1>2, <2>1
<1>5. \A i \in 1..Len(out) : out[i] \in Made
  BY ElementOfSeq DEF PipelineInv, PipelineTypes
<1>6. p.loop \in Nat /\ p.n \in Nat
  BY DEF MediaEntry
<1>7. \A i \in 1..Len(out) : out[i].loop \in Nat /\ out[i].n \in Nat
  BY <1>4, <1>5, Labels
<1>8. \A i \in 1..Len(out) : out[i].stream = s => out[i].loop < p.loop \/ (out[i].loop = p.loop /\ out[i].n < p.n)
  <2> SUFFICES ASSUME NEW i \in 1..Len(out), out[i].stream = s PROVE Earlier(out[i], p)
    BY <1>2, <1>4 DEF Earlier
  <2>1. Ahead(out[i])
    BY <1>4 DEF PipelineInv, InLine, MadeAhead
  <2> QED
    BY <1>2, <2>1 DEF Ahead
<1>9. Sorted'
  <2> SUFFICES ASSUME NEW i \in 1..Len(out'), NEW j \in 1..Len(out'), i < j, out'[j].stream = out'[i].stream
               PROVE  ~(out'[j].loop < out'[i].loop \/ (out'[j].loop = out'[i].loop /\ out'[j].n < out'[i].n))
    BY DEF Sorted, Media, Control
  <2>1. CASE j \in 1..Len(out)
    <3>1. i \in 1..Len(out)
      BY <1>2, <2>1
    <3>2. out'[i] = out[i] /\ out'[j] = out[j]
      BY <1>2, <2>1, <3>1
    <3>3. ~Control(out[i]) /\ Media(out[j], out[i].stream)
      BY <1>4, <2>1, <3>1, <3>2 DEF Media
    <3> QED
      BY <2>1, <3>1, <3>2, <3>3, Zenon DEF Sorted
  <2>2. CASE j - Len(out) \in 1..Len(P) /\ out'[j] = P[j - Len(out)] /\ i \in 1..Len(out)
    <3>1. out'[j].stream = s /\ out'[j].loop = p.loop /\ out'[j].n = p.n /\ out'[i] = out[i]
      <4>1. \A m \in 1..Len(P) : P[m].stream = s /\ P[m].loop = p.loop /\ P[m].n = p.n
        BY <1>2
      <4> QED
        BY <1>2, <2>2, <4>1, SMTT(30)
    <3>2. out[i].loop < p.loop \/ (out[i].loop = p.loop /\ out[i].n < p.n)
      BY <1>8, <2>2, <3>1
    <3>3. out[i].loop \in Nat /\ out[i].n \in Nat
      BY <1>7, <2>2
    <3> QED
      BY <1>6, <3>1, <3>2, <3>3
  <2>3. CASE /\ j - Len(out) \in 1..Len(P) /\ out'[j] = P[j - Len(out)]
             /\ i - Len(out) \in 1..Len(P) /\ out'[i] = P[i - Len(out)]
    <3>1. out'[j].loop = p.loop /\ out'[j].n = p.n /\ out'[i].loop = p.loop /\ out'[i].n = p.n
      BY <1>2, <2>3
    <3> QED
      BY <1>6, <3>1
  <2> QED
    BY <1>2, <2>1, <2>2, <2>3
<1>10. Len(out) = 0 <=> out = <<>>
  BY EmptySeq DEF PipelineInv, PipelineTypes
<1>11. Len(out') # 0 /\ out' # <<>>
  <2>1. Len(<<>>) = 0
    OBVIOUS
  <2> QED
    BY <1>2, <2>1
<1>12. IF out = <<>> THEN out'[1] = P[1] ELSE out'[1] = out[1]
  <2>1. CASE out = <<>>
    <3>1. Len(out) + 1 = 1
      BY <1>10, <2>1
    <3> QED
      BY <1>2, <2>1, <3>1
  <2>2. CASE out # <<>>
    <3>1. 1 \in 1..Len(out)
      BY <1>2, <1>10, <2>2
    <3> QED
      BY <1>2, <2>2, <3>1
  <2> QED
    BY <2>1, <2>2
<1>13. KeyFrame(P[1]) => P[1].part = "psi"
  BY <1>2 DEF KeyFrame
<1>14. WholeFrames'
  <2>1. ASSUME NEW i \in 1..Len(out'), i > 1, KeyFrame(out'[i]), out'[i].part # "psi"
        PROVE  KeyFrame(out'[i - 1]) /\ out'[i - 1].dts = out'[i].dts
    <3>1. CASE i \in 1..Len(out)
      <4>1. i - 1 \in 1..Len(out)
        BY <1>2, <2>1, <3>1
      <4> QED
        BY <1>2, <2>1, <3>1, <4>1 DEF WholeFrames
    <3>2. CASE i - Len(out) \in 1..Len(P) /\ out'[i] = P[i - Len(out)]
      <4>1. i - Len(out) # 1
        BY <1>13, <2>1, <3>2
      <4>2. (i - Len(out)) - 1 \in 1..Len(P) /\ Len(out) + ((i - Len(out)) - 1) = i - 1
        <5>1. i \in Nat /\ Len(out) \in Nat /\ Len(P) \in Nat
          BY <1>2
        <5> QED
          BY <3>2, <4>1, <5>1
      <4>3. out'[i - 1] = P[(i - Len(out)) - 1]
        BY <1>2, <4>2
      <4> QED
        BY <1>2, <2>1, <3>2, <4>2, <4>3, SMTT(30) DEF KeyFrame
    <3> QED
      BY <1>2, <3>1, <3>2
  <2>2. ASSUME KeyFrame(out'[1]), out'[1].part # "psi"
        PROVE  out # <<>> /\ KeyFrame(out[1]) /\ out[1].part # "psi" /\ out'[1] = out[1]
    BY <1>12, <1>13, <2>2
  <2>3. \A q : (Stamp(q) - Base(Stamp(q)))' = Stamp(q) - Base(Stamp(q))
    BY <1>3 DEF Stamp, Base
  <2>4. ASSUME NEW q, q = out'[1], KeyFrame(q), q.part # "psi"
        PROVE  (Stamp(q) - Base(Stamp(q)))' <= Interval
    BY <2>2, <2>3, <2>4 DEF WholeFrames
  <2> QED
    BY <2>1, <2>4 DEF WholeFrames, KeyFrame, Control
<1>15. TablesFirst'
  <2>1. ASSUME ~open PROVE out'[1].part = "psi"
    <3>1. CASE out = <<>>
      <4>1. psi
        BY <2>1, <3>1 DEF TablesFirst
      <4> QED
        BY <1>2, <1>12, <3>1, <4>1
    <3>2. CASE out # <<>>
      <4>1. 1 \in 1..Len(out)
        BY <1>2, <1>10, <3>2
      <4> QED
        BY <1>4, <1>12, <2>1, <3>2, <4>1 DEF TablesFirst
    <3> QED
      BY <3>1, <3>2
  <2>2. ~Control(out'[1])
    <3>1. 1 \in 1..Len(out')
      BY <1>2, <1>11
    <3> QED
      BY <1>4, <3>1
  <2> QED
    BY <1>3, <1>4, <1>11, <2>1, <2>2 DEF TablesFirst, Control
<1>16. \A t \in Streams : \A i \in 1..Len(Queue(t)') : \E j \in 1..Len(Queue(t)) : Queue(t)'[i] = Queue(t)[j]
  <2> TAKE t \in Streams
  <2>1. Taken(t)
    BY <1>1 DEF Taken, Moves, Leaves
  <2> QED
    BY <2>1, Remaining DEF PipelineInv
<1>17. \A l : Beyond(l) => Beyond(l)' /\ l < p.loop
  <2> TAKE l
  <2>1. Beyond(l) => Beyond(l)'
    BY <1>3, <1>16 DEF Beyond
  <2> QED
    BY <1>2, <2>1 DEF Beyond
<1>18. LoopsApart'
  <2>1. ASSUME ~open, NEW k \in 1..Len(segs), NEW j \in 1..Len(segs[k]), NEW l, l = segs[k][j].loop
        PROVE  Beyond(l)' /\ \A i \in 1..Len(out') : out'[i].loop > l
    <3>1. Beyond(l) /\ \A i \in 1..Len(out) : out[i].loop > l
      BY <2>1 DEF LoopsApart
    <3>2. l < p.loop /\ p.loop > l
      BY <1>17, <3>1
    <3>3. \A i \in 1..Len(out') : out'[i].loop > l
      <4> TAKE i \in 1..Len(out')
      <4>1. CASE i \in 1..Len(out)
        BY <1>2, <3>1, <4>1
      <4>2. CASE i - Len(out) \in 1..Len(P) /\ out'[i] = P[i - Len(out)]
        <5>1. out'[i].loop = p.loop
          BY <1>2, <4>2
        <5> QED
          BY <3>2, <5>1
      <4> QED
        BY <1>2, <4>1, <4>2
    <3> QED
      BY <1>17, <3>1, <3>3
  <2> QED
    BY <1>3, <1>4, <2>1 DEF LoopsApart, Control
<1> QED
  BY <1>9, <1>14, <1>15, <1>18

(* A control packet ends the pass, and its loop: what is made and written   *)
(* is of that loop at most, what is in the queues of a later one.           *)
LEMMA ControlWhole ==
  ASSUME VideoAndAudio, PipelineInv, NEW gap \in Nat, Stamps(gap), Sorted, WholeFrames, TablesFirst, LoopsApart, TakeControl
  PROVE  Stamps(gap)' /\ Reference(gap)' /\ Sorted' /\ WholeFrames' /\ TablesFirst' /\ LoopsApart'
<1>1. PICK g \in Nat, c \in ControlEntry : LoopEnds(g, c)
  BY ControlsMove DEF PipelineInv, InLine
<1>2. /\ Control(c) /\ c.loop = g /\ g < loop /\ Len(out) \in Nat /\ Len(out') = Len(out) + 1
      /\ \A i \in 1..Len(out) : i \in 1..Len(out') /\ out'[i] = out[i]
      /\ out'[Len(out) + 1] = c
      /\ \A i \in 1..Len(out') : i \in 1..Len(out) \/ (i = Len(out) + 1 /\ out'[i] = c)
      /\ \A t \in Streams : Queue(t) # <<>> /\ Queue(t)[1].loop = g /\ Control(Queue(t)[1]) /\ 1 \in 1..Len(Queue(t))
      /\ \A t \in Streams : \A i \in 1..Len(Queue(t)') :
           Queue(t)'[i].loop > g /\ \E j \in 1..Len(Queue(t)) : Queue(t)'[i] = Queue(t)[j]
  BY <1>1 DEF LoopEnds
<1>3. UNCHANGED <<loop, cutAt, segs, open>> /\ psi' /\ pass.phase = "take" /\ pass' = [pass EXCEPT !.phase = "release"]
  BY DEF TakeControl, Taking, reader, disk
<1>4. pass'.ref = pass.ref /\ pass'.refDts = pass.refDts /\ pass'.phase = "release"
  BY <1>3 DEF PipelineInv, PipelineTypes
<1>5. \A i \in 1..Len(out) : ~Control(out[i]) /\ out[i] \in Made
  BY <1>3, ElementOfSeq DEF PipelineInv, AtTheEnd, PipelineTypes
<1>6. \A i \in 1..Len(out') : ~Control(out'[i]) => i \in 1..Len(out) /\ out'[i] = out[i]
  BY <1>2
<1>7. \A i \in 1..Len(out'), j \in 1..Len(out') : j < i /\ ~Control(out'[i]) => j \in 1..Len(out) /\ out'[j] = out[j]
  <2> TAKE i, j \in 1..Len(out')
  <2>1. ~Control(out'[i]) => i \in 1..Len(out)
    BY <1>6
  <2>2. i \in 1..Len(out) /\ j < i => j \in 1..Len(out)
    BY <1>2
  <2> QED
    BY <1>2, <2>1, <2>2
<1>8. Stamps(gap)'
  <2>1. \A i \in 1..Len(out') : ~Control(out'[i]) => pass.ref # None /\ pass.refDts <= out'[i].dts
    BY <1>6 DEF Stamps
  <2>2. \A i, j \in 1..Len(out') : j < i /\ ~Control(out'[i]) /\ Media(out'[j], pass.ref) => out'[j].dts <= out'[i].dts
    BY <1>6, <1>7 DEF Stamps
  <2>3. ASSUME pass.ref = Audio, NEW i \in 1..Len(out'), Media(out'[i], Video)
        PROVE  \/ pass.refDts >= out'[i].dts - gap
               \/ \E j \in 1..Len(out') : j < i /\ Media(out'[j], Audio) /\ out'[j].dts >= out'[i].dts - gap
    <3>1. i \in 1..Len(out) /\ out'[i] = out[i]
      BY <1>6, <2>3 DEF Media
    <3>2. \/ pass.refDts >= out[i].dts - gap
          \/ \E j \in 1..Len(out) : j < i /\ Media(out[j], Audio) /\ out[j].dts >= out[i].dts - gap
      BY <2>3, <3>1 DEF Stamps
    <3> QED
      BY <1>2, <3>1, <3>2
  <2> QED
    BY <1>4, <2>1, <2>2, <2>3 DEF Stamps, Media, Control
<1>9. Reference(gap)'
  BY <1>4 DEF Reference
<1>10. Sorted'
  <2>1. ASSUME NEW i \in 1..Len(out'), NEW j \in 1..Len(out'), i < j, ~Control(out'[i]), Media(out'[j], out'[i].stream)
        PROVE  ~(out'[j].loop < out'[i].loop \/ (out'[j].loop = out'[i].loop /\ out'[j].n < out'[i].n))
    <3>1. i \in 1..Len(out) /\ j \in 1..Len(out) /\ out'[i] = out[i] /\ out'[j] = out[j]
      BY <1>6, <2>1 DEF Media
    <3> QED
      BY <2>1, <3>1 DEF Sorted
  <2> QED
    BY <2>1 DEF Sorted, Media, Control
<1>11. Len(out') # 0 /\ out' # <<>> /\ (Len(out) = 0 <=> out = <<>>)
  <2>1. Len(<<>>) = 0
    OBVIOUS
  <2> QED
    BY <1>2, <2>1, EmptySeq DEF PipelineInv, PipelineTypes
<1>12. IF out = <<>> THEN out'[1] = c ELSE out'[1] = out[1] /\ 1 \in 1..Len(out)
  <2>1. CASE out = <<>>
    <3>1. Len(out) + 1 = 1
      BY <1>11, <2>1
    <3> QED
      BY <1>2, <2>1, <3>1
  <2>2. CASE out # <<>>
    <3>1. 1 \in 1..Len(out)
      BY <1>2, <1>11, <2>2
    <3> QED
      BY <1>2, <2>2, <3>1
  <2> QED
    BY <2>1, <2>2
<1>13. WholeFrames'
  <2>1. ASSUME NEW i \in 1..Len(out'), i > 1, KeyFrame(out'[i]), out'[i].part # "psi"
        PROVE  KeyFrame(out'[i - 1]) /\ out'[i - 1].dts = out'[i].dts
    <3>1. i \in 1..Len(out) /\ out'[i] = out[i]
      BY <1>6, <2>1 DEF KeyFrame
    <3>2. i - 1 \in 1..Len(out)
      BY <1>2, <2>1, <3>1
    <3> QED
      BY <1>2, <2>1, <3>1, <3>2 DEF WholeFrames
  <2>2. \A q : (Stamp(q) - Base(Stamp(q)))' = Stamp(q) - Base(Stamp(q))
    BY <1>3, <1>4 DEF Stamp, Base
  <2>3. ASSUME NEW q, q = out'[1], KeyFrame(q), q.part # "psi"
        PROVE  (Stamp(q) - Base(Stamp(q)))' <= Interval
    <3>1. out # <<>> /\ q = out[1]
      BY <1>2, <1>12, <2>3 DEF KeyFrame
    <3> QED
      BY <2>2, <2>3, <3>1 DEF WholeFrames
  <2> QED
    BY <2>1, <2>3 DEF WholeFrames, KeyFrame, Control
<1>14. TablesFirst'
  <2>1. ASSUME ~open, ~Control(out'[1]) PROVE out'[1].part = "psi"
    <3>1. out # <<>> /\ out'[1] = out[1] /\ 1 \in 1..Len(out)
      BY <1>2, <1>12, <2>1
    <3> QED
      BY <1>5, <2>1, <3>1 DEF TablesFirst
  <2> QED
    BY <1>3, <1>11, <2>1 DEF TablesFirst, Control
<1>15. Beyond(g)'
  BY <1>2, <1>3 DEF Beyond
<1>16. \A l : Beyond(l) => Beyond(l)' /\ g > l
  <2> TAKE l
  <2>1. Beyond(l) => Beyond(l)'
    BY <1>2, <1>3 DEF Beyond
  <2>2. Video \in Streams
    BY DEF VideoAndAudio
  <2>3. 1 \in 1..Len(Queue(Video)) /\ Queue(Video)[1].loop = g
    BY <1>2, <2>2
  <2> QED
    BY <2>1, <2>2, <2>3 DEF Beyond
<1>17. ASSUME NEW r, ~Control(r), Ahead(r), r.stream \in Streams, r.loop \in Nat PROVE r.loop <= g
  <2>1. Earlier(r, Queue(r.stream)[1]) /\ Queue(r.stream)[1].loop = g
    BY <1>2, <1>17 DEF Ahead
  <2> QED
    BY <1>2, <1>17, <2>1 DEF Earlier
<1>18. \A i \in 1..Len(out) : out[i].loop <= g
  <2> TAKE i \in 1..Len(out)
  <2>1. Ahead(out[i]) /\ out[i].stream \in Streams /\ out[i].loop \in Nat
    BY <1>5, Labels DEF PipelineInv, InLine, MadeAhead, VideoAndAudio
  <2> QED
    BY <1>5, <1>17, <2>1
<1>19. \A k \in 1..Len(segs) : \A i \in 1..Len(segs[k]) : segs[k][i].loop <= g
  <2> TAKE k \in 1..Len(segs)
  <2> TAKE i \in 1..Len(segs[k])
  <2>1. segs[k][i] \in TSPacket
    BY ElementOfSeq DEF PipelineInv, PipelineTypes
  <2>2. Ahead(segs[k][i]) /\ segs[k][i].stream \in Streams /\ ~Control(segs[k][i]) /\ segs[k][i].loop \in Nat
    BY <2>1, Labels DEF PipelineInv, InLine, WrittenAhead, VideoAndAudio, Made
  <2> QED
    BY <1>17, <2>2
<1>20. LoopsApart'
  <2>1. \A i \in 1..Len(out') : out'[i].loop <= g
    BY <1>2, <1>18
  <2>2. \A i \in 1..Len(out') : Control(out'[i]) => out'[i].loop = g
    BY <1>2, <1>5
  <2>3. ASSUME NEW i \in 1..Len(out'), Control(out'[i]), NEW l, l = out'[i].loop
        PROVE  /\ Beyond(l)' /\ \A j \in 1..Len(out') : out'[j].loop <= l
               /\ \A k \in 1..Len(segs) : \A j \in 1..Len(segs[k]) : segs[k][j].loop <= l
    <3>1. l = g
      BY <2>2, <2>3
    <3> QED
      BY <1>15, <1>19, <2>1, <3>1
  <2>4. ASSUME ~open, NEW k \in 1..Len(segs), NEW j \in 1..Len(segs[k]), NEW l, l = segs[k][j].loop
        PROVE  Beyond(l)' /\ \A i \in 1..Len(out') : out'[i].loop > l
    <3>1. Beyond(l) /\ \A i \in 1..Len(out) : out[i].loop > l
      BY <2>4 DEF LoopsApart
    <3> QED
      BY <1>2, <1>16, <3>1
  <2> QED
    BY <1>3, <2>3, <2>4 DEF LoopsApart, Control
<1> QED
  BY <1>8, <1>9, <1>10, <1>13, <1>14, <1>20

(* What the reader adds is of the loop it is in.                            *)
LEMMA ReaderBeyond ==
  ASSUME VideoAndAudio, PipelineInv, ReadFrame \/ ReadEnd
  PROVE  \A l \in Nat : Beyond(l) => Beyond(l)'
<1> TAKE l \in Nat
<1> SUFFICES ASSUME Beyond(l) PROVE Beyond(l)'
  OBVIOUS
<1>1. PipelineTypes /\ loop \in Nat /\ l < loop /\ Streams = {Video, Audio}
  BY SegmenterAssumption DEF PipelineInv, PipelineTypes, Beyond, VideoAndAudio
<1>2. \A t \in Streams : Queue(t) \in Seq(Queued) /\ \A i \in 1..Len(Queue(t)) : Queue(t)[i].loop > l
  BY <1>1 DEF PipelineTypes, Beyond
<1>3. loop' = loop \/ loop' = loop + 1
  BY DEF ReadFrame, ReadEnd
<1>4. \A t \in Streams : \/ Queue(t)' = Queue(t)
                         \/ \E p \in Queued : p.loop = loop /\ Queue(t)' = Append(Queue(t), p)
  <2>1. CASE ReadFrame
    BY <1>1, <2>1, ReadsFrame DEF Queued
  <2>2. CASE ReadEnd
    BY <1>1, <2>2, ReadsEnd DEF Queued
  <2> QED
    BY <2>1, <2>2
<1>5. \A t \in Streams : \A i \in 1..Len(Queue(t)') : Queue(t)'[i].loop > l
  <2> TAKE t \in Streams
  <2>1. CASE Queue(t)' = Queue(t)
    BY <1>2, <2>1
  <2>2. ASSUME NEW p \in Queued, p.loop = loop, Queue(t)' = Append(Queue(t), p)
        PROVE  \A i \in 1..Len(Queue(t)') : Queue(t)'[i].loop > l
    <3>1. /\ Len(Queue(t)') = Len(Queue(t)) + 1 /\ Len(Queue(t)) \in Nat
          /\ Queue(t)'[Len(Queue(t)) + 1] = p
          /\ \A i \in 1..Len(Queue(t)) : Queue(t)'[i] = Queue(t)[i]
      BY <1>2, <2>2, Appended
    <3>2. \A i \in 1..Len(Queue(t)') : i \in 1..Len(Queue(t)) \/ i = Len(Queue(t)) + 1
      BY <3>1
    <3>3. p.loop > l
      BY <1>1, <2>2
    <3> QED
      BY <1>2, <3>1, <3>2, <3>3
  <2> QED
    BY <1>4, <2>1, <2>2
<1>6. l < loop'
  BY <1>1, <1>3
<1> QED
  BY <1>5, <1>6 DEF Beyond

(* A key frame is never due for two cuts: it is stamped near its dts, and   *)
(* the last cut is near the key frame before it.                            *)
LEMMA CutOnce ==
  ASSUME VideoAndAudio, PipelineInv, NEW gap \in Nat, KeysNear(gap), Stamps(gap), Sorted, CutsUp(gap), WholeFrames,
         ReleaseMedia, NEW p, p = out[1], 1 \in 1..Len(out), KeyFrame(p)
  PROVE  Stamp(p) >= p.dts - gap /\ Stamp(p) - CutBase(p) <= Interval
<1>1. /\ Releasing /\ ~Control(Head(out)) /\ p = Head(out) /\ PipelineTypes
      /\ Len(out) \in Nat \ {0} /\ \A i \in 1..Len(out) : i > 1 \/ i = 1
  BY MadeGo DEF ReleaseMedia, PipelineInv
<1>2. p \in TSPacket /\ Stamp(p) \in Nat /\ CutBase(p) \in Nat /\ Base(Stamp(p)) \in Nat
  BY <1>1, Stamped
<1>3. p.dts \in Nat /\ p.loop \in Nat /\ p.n \in Nat /\ p.stream = Video /\ ~Control(p)
  BY <1>2, Labels DEF Made, KeyFrame
<1>4. Interval \in Nat /\ cutAt \in Nat \cup {-1} /\ pass.ref \in {None, Video, Audio} /\ pass.refDts \in Nat
  BY <1>1, SegmenterAssumption DEF PipelineTypes
<1>5. Stamp(p) <= p.dts
  BY <1>3, <1>4 DEF Stamp, Stamps
<1>6. Stamp(p) >= p.dts - gap
  <2>1. CASE pass.ref = Video
    BY <1>3, <2>1 DEF Stamp
  <2>2. CASE pass.ref = Audio
    <3>1. Media(out[1], Video)
      BY <1>3 DEF Media
    <3>2. pass.refDts >= p.dts - gap
      BY <1>1, <2>2, <3>1 DEF Stamps
    <3> QED
      BY <1>3, <2>2, <3>2 DEF Stamp, Video, Audio
  <2>3. pass.ref # None
    BY <1>3 DEF Stamps
  <2> QED
    BY <1>4, <2>1, <2>2, <2>3
<1>7. Stamp(p) - Base(Stamp(p)) <= 2 * Interval
  <2>1. CASE p.part # "psi"
    <3>1. out # <<>>
      BY <1>1 DEF Releasing
    <3>2. Stamp(p) - Base(Stamp(p)) <= Interval
      BY <2>1, <3>1 DEF WholeFrames
    <3> QED
      BY <1>2, <1>4, <3>2
  <2>2. NearKey(p, gap)
    BY DEF KeysNear
  <2>3. CASE p.dts <= 2 * Interval
    BY <1>2, <1>3, <1>4, <1>5, <2>3
  <2>4. CASE \E l, n, d \in Nat : /\ KeyKnown(l, n, d) /\ (l < p.loop \/ (l = p.loop /\ n < p.n))
                                  /\ p.dts - d + gap <= Interval
    <3>1. PICK l, n, d \in Nat : /\ KeyKnown(l, n, d) /\ (l < p.loop \/ (l = p.loop /\ n < p.n))
                                 /\ p.dts - d + gap <= Interval
      BY <2>4
    <3>2. ~KeyWaits(l, n, d)
      <4> SUFFICES ASSUME NEW i \in 1..Len(Queue(Video)), IsKey(Queue(Video)[i], l, n, d) PROVE FALSE
        BY DEF KeyWaits
      <4>1. Earlier(p, Queue(Video)[i])
        BY <1>3 DEF PipelineInv, InLine, MadeAhead, Ahead
      <4> QED
        BY <1>3, <3>1, <4>1 DEF Earlier, IsKey, KeyFrame
    <3>3. ~KeyMade(l, n, d)
      <4> SUFFICES ASSUME NEW i \in 1..Len(out), IsKey(out[i], l, n, d) PROVE FALSE
        BY DEF KeyMade
      <4>1. CASE i = 1
        BY <1>3, <3>1, <4>1 DEF IsKey
      <4>2. CASE i > 1
        <5>1. Media(out[i], out[1].stream) /\ ~Control(out[1])
          BY <1>3 DEF Media, IsKey, KeyFrame
        <5>2. ~(out[i].loop < out[1].loop \/ (out[i].loop = out[1].loop /\ out[i].n < out[1].n))
          BY <4>2, <5>1 DEF Sorted
        <5> QED
          BY <3>1, <5>2 DEF IsKey
      <4> QED
        BY <1>1, <4>1, <4>2
    <3>4. KeyWritten(l, n, d)
      BY <3>1, <3>2, <3>3 DEF KeyKnown
    <3>5. cutAt >= d - gap - Interval
      BY <3>4 DEF KeyWritten, CutsUp, IsKey
    <3>6. CASE cutAt < 0
      <4>1. Base(Stamp(p)) = Stamp(p)
        BY <3>6 DEF Base
      <4> QED
        BY <1>2, <1>4, <4>1
    <3>7. CASE ~(cutAt < 0)
      <4>1. Base(Stamp(p)) = cutAt
        BY <3>7 DEF Base
      <4>2. d \in Nat /\ gap \in Nat /\ p.dts - d + gap <= Interval
        BY <3>1
      <4> QED
        BY ONLY <1>2, <1>3, <1>4, <1>5, <3>5, <4>1, <4>2
    <3> QED
      BY <3>6, <3>7
  <2> QED
    BY <2>2, <2>3, <2>4 DEF NearKey
<1>8. Stamp(p) - CutBase(p) <= Interval
  <2>1. CASE Cuts(p)
    <3>1. CutBase(p) = Base(Stamp(p)) + Interval
      BY <2>1 DEF CutBase
    <3> QED
      BY <1>2, <1>4, <1>7, <3>1
  <2>2. CASE ~Cuts(p)
    <3>1. CutBase(p) = Base(Stamp(p))
      BY <1>2, <2>2 DEF CutBase
    <3>2. ~(Stamp(p) - Base(Stamp(p)) > Interval)
      BY <1>3, <2>2 DEF Cuts, KeyFrame
    <3> QED
      BY <1>2, <1>4, <3>1, <3>2
  <2> QED
    BY <2>1, <2>2
<1> QED
  BY <1>6, <1>8

(* A segment begins with tables; so with a key frame, or after the end of a *)
(* loop.                                                                    *)
LEMMA BeginsClean ==
  ASSUME VideoAndAudio, PipelineInv, WholeFrames, TablesFirst, LoopsApart, CleanSoFar, ReleaseMedia
  PROVE  CleanSoFar'
<1>1. PICK p \in TSPacket, K, I \in Nat : Writes(p, K, I)
  BY PacketWrites DEF PipelineInv
<1>2. /\ p = out[1] /\ ~Control(p) /\ Len(segs) \in Nat
      /\ K = Len(segs') /\ I = Len(segs'[K]) /\ K \in 1..Len(segs') /\ I \in 1..Len(segs'[K]) /\ segs'[K][I] = p
      /\ \A k \in 1..Len(segs) : k < K => segs'[k] = segs[k]
      /\ \A k \in 1..Len(segs) : \A i \in 1..Len(segs[k]) : i \in 1..Len(segs'[k]) /\ segs'[k][i] = segs[k][i]
  BY <1>1 DEF Writes
<1>3. IF open /\ ~Cuts(p) THEN K = Len(segs) /\ I = Len(segs[K]) + 1 ELSE K = Len(segs) + 1 /\ I = 1
  BY <1>1 DEF Writes
<1>4. out # <<>> /\ 1 \in 1..Len(out)
  BY MadeGo DEF PipelineInv, ReleaseMedia, Releasing
<1>5. \A k \in 1..K : k < K => k \in 1..Len(segs) /\ (k > 1 => k - 1 \in 1..Len(segs) /\ k - 1 < K)
  BY <1>2, <1>3
<1>6. ASSUME NEW k \in 1..K, k < K
      PROVE  /\ segs'[k] # <<>> /\ segs'[k][1].part = "psi"
             /\ k > 1 => KeyFrame(segs'[k][1]) \/ segs'[k][1].loop # segs'[k - 1][Len(segs'[k - 1])].loop
  <2>1. k \in 1..Len(segs) /\ segs'[k] = segs[k] /\ (k > 1 => segs'[k - 1] = segs[k - 1])
    BY <1>2, <1>5, <1>6
  <2> QED
    BY <2>1 DEF CleanSoFar
<1>7. segs'[K] # <<>>
  <2>1. Len(<<>>) = 0 /\ 1..0 = {}
    OBVIOUS
  <2> QED
    BY <1>2, <2>1
<1>8. \A k \in 1..Len(segs) : Len(segs[k]) \in Nat \ {0} /\ 1 \in 1..Len(segs[k]) /\ Len(segs[k]) \in 1..Len(segs[k])
  <2> TAKE k \in 1..Len(segs)
  <2>1. segs[k] \in Seq(TSPacket) /\ segs[k] # <<>>
    BY ElementOfSeq DEF PipelineInv, PipelineTypes, CleanSoFar
  <2>2. Len(segs[k]) \in Nat \ {0}
    BY <2>1, EmptySeq
  <2> QED
    BY <2>2
<1>9. CASE open /\ ~Cuts(p)
  <2>1. K = Len(segs) /\ K \in 1..Len(segs)
    BY <1>2, <1>3, <1>9
  <2>2. segs'[K][1] = segs[K][1]
    BY <1>2, <1>8, <2>1
  <2>3. K > 1 => segs'[K - 1] = segs[K - 1]
    <3>1. K > 1 => K - 1 \in 1..Len(segs) /\ K - 1 < K
      BY <2>1
    <3> QED
      BY <1>2, <3>1
  <2>4. /\ segs'[K][1].part = "psi"
        /\ K > 1 => KeyFrame(segs'[K][1]) \/ segs'[K][1].loop # segs'[K - 1][Len(segs'[K - 1])].loop
    BY <2>1, <2>2, <2>3 DEF CleanSoFar
  <2>5. \A k \in 1..K : k = K \/ k < K
    OBVIOUS
  <2> QED
    BY <1>2, <1>6, <1>7, <2>4, <2>5 DEF CleanSoFar, KeyFrame, Control
<1>10. CASE ~(open /\ ~Cuts(p))
  <2>1. K = Len(segs) + 1 /\ segs'[K][1] = p
    BY <1>2, <1>3, <1>10
  <2>2. p.part = "psi"
    <3>1. CASE ~open
      BY <1>2, <1>4, <3>1 DEF TablesFirst
    <3>2. CASE open
      <4>1. Cuts(p)
        BY <1>10, <3>2
      <4>2. KeyFrame(p) /\ Stamp(p) - Base(Stamp(p)) > Interval
        BY <1>2, <4>1 DEF Cuts, KeyFrame
      <4>3. Stamp(p) \in Nat /\ Base(Stamp(p)) \in Nat /\ Interval \in Nat
        BY <1>2, Stamped, MadeGo, SegmenterAssumption DEF PipelineInv, ReleaseMedia
      <4>4. ~(Stamp(p) - Base(Stamp(p)) <= Interval)
        BY <4>2, <4>3
      <4> QED
        BY <1>2, <1>4, <4>2, <4>4 DEF WholeFrames
    <3> QED
      BY <3>1, <3>2
  <2>3. ASSUME K > 1 PROVE KeyFrame(p) \/ p.loop # segs'[K - 1][Len(segs'[K - 1])].loop
    <3>1. CASE open
      BY <1>2, <1>10, <3>1 DEF Cuts, KeyFrame
    <3>2. CASE ~open
      <4>1. K - 1 \in 1..Len(segs) /\ K - 1 < K
        BY <1>2, <2>1, <2>3
      <4>2. segs'[K - 1] = segs[K - 1] /\ Len(segs[K - 1]) \in 1..Len(segs[K - 1])
        BY <1>2, <1>8, <4>1
      <4>3. p.loop > segs[K - 1][Len(segs[K - 1])].loop
        BY <1>2, <1>4, <3>2, <4>1, <4>2 DEF LoopsApart
      <4>4. segs[K - 1] \in Seq(TSPacket)
        BY <4>1, ElementOfSeq DEF PipelineInv, PipelineTypes
      <4>5. segs[K - 1][Len(segs[K - 1])].loop \in Nat /\ p.loop \in Nat
        BY <4>2, <4>4, ElementOfSeq, Labels DEF Made
      <4> QED
        BY <4>2, <4>3, <4>5
    <3> QED
      BY <3>1, <3>2
  <2>4. \A k \in 1..K : k = K \/ k < K
    OBVIOUS
  <2> QED
    BY <1>2, <1>6, <1>7, <2>1, <2>2, <2>3, <2>4 DEF CleanSoFar, KeyFrame, Control
<1> QED
  BY <1>9, <1>10

(* A packet that is written leaves the others as they were: it is the new   *)
(* stamp of the reference, and the cuts have kept up with it.               *)
LEMMA MediaWhole ==
  ASSUME VideoAndAudio, PipelineInv, NEW gap \in Nat, KeysNear(gap), Stamps(gap), Sorted, CutsUp(gap),
         WholeFrames, TablesFirst, LoopsApart, ReleaseMedia
  PROVE  /\ Stamps(gap)' /\ Reference(gap)' /\ Sorted' /\ CutsUp(gap)'
         /\ WholeFrames' /\ TablesFirst' /\ LoopsApart'
<1>1. PICK p \in TSPacket, K, I \in Nat : Writes(p, K, I)
  BY PacketWrites DEF PipelineInv
<1>2. /\ p = out[1] /\ ~Control(p) /\ segs'[K][I] = p
      /\ \A k \in 1..Len(segs') : \A i \in 1..Len(segs'[k]) :
           \/ k = K /\ i = I
           \/ k \in 1..Len(segs) /\ i \in 1..Len(segs[k]) /\ segs'[k][i] = segs[k][i]
  BY <1>1 DEF Writes
<1>3. /\ out \in Seq(Made) /\ Len(out) \in Nat \ {0} /\ Head(out) = p /\ 1 \in 1..Len(out)
      /\ Len(out') = Len(out) - 1
      /\ \A i \in 1..Len(out') : i \in Nat /\ out'[i] = out[i + 1] /\ i + 1 \in 1..Len(out) /\ i + 1 > 1
      /\ \A i \in 1..Len(out) : i = 1 \/ (i - 1 \in 1..Len(out') /\ out[i] = out'[i - 1])
  BY <1>2, MadeGo DEF PipelineInv
<1>4. /\ pass' = [pass EXCEPT !.refDts = Stamp(p)] /\ pass.phase = "release"
      /\ cutAt' = CutBase(p) /\ open' = TRUE /\ UNCHANGED <<mux, psi, loop>>
  BY <1>3 DEF ReleaseMedia, Releasing, reader
<1>5. pass'.ref = pass.ref /\ pass'.refDts = Stamp(p) /\ pass'.phase = "release" /\ pass.refDts \in Nat
  BY <1>4 DEF PipelineInv, PipelineTypes
<1>6. /\ Stamp(p) \in Nat /\ CutBase(p) \in Nat /\ Base(Stamp(p)) \in Nat
      /\ Interval \in Nat /\ cutAt \in Nat \cup {-1}
  BY <1>3, Stamped, SegmenterAssumption DEF PipelineInv, PipelineTypes, ReleaseMedia
<1>7. \A i \in 1..Len(out) : ~Control(out[i]) => out[i].dts \in Nat
  <2>1. \A i \in 1..Len(out) : out[i] \in Made
    BY <1>3, ElementOfSeq
  <2> QED
    BY <2>1, Labels
<1>8. p.dts \in Nat /\ pass.refDts <= p.dts /\ pass.refDts <= Stamp(p)
  <2>1. p.dts \in Nat /\ pass.refDts <= p.dts
    BY <1>2, <1>3, <1>7 DEF Stamps
  <2> QED
    BY <1>5, <2>1 DEF Stamp
<1>9. \A i \in 1..Len(out) : i > 1 /\ ~Control(out[i]) => Stamp(p) <= out[i].dts
  <2> TAKE i \in 1..Len(out)
  <2> HAVE i > 1 /\ ~Control(out[i])
  <2>1. CASE p.stream = pass.ref
    <3>1. Media(out[1], pass.ref)
      BY <1>2, <2>1 DEF Media
    <3>2. out[1].dts <= out[i].dts
      BY <1>3, <3>1 DEF Stamps
    <3> QED
      BY <1>2, <2>1, <3>2 DEF Stamp
  <2>2. CASE p.stream # pass.ref
    BY <2>2 DEF Stamp, Stamps
  <2> QED
    BY <2>1, <2>2
<1>10. Stamps(gap)'
  <2>1. \A i \in 1..Len(out') : ~Control(out'[i]) => pass.ref # None /\ Stamp(p) <= out'[i].dts
    BY <1>3, <1>9 DEF Stamps
  <2>2. ASSUME NEW i \in 1..Len(out'), NEW j \in 1..Len(out'), j < i, ~Control(out'[i]), Media(out'[j], pass.ref)
        PROVE  out'[j].dts <= out'[i].dts
    <3>1. j + 1 < i + 1 /\ i + 1 \in 1..Len(out) /\ j + 1 \in 1..Len(out)
      BY <1>3, <2>2
    <3>2. out'[i] = out[i + 1] /\ out'[j] = out[j + 1]
      BY <1>3
    <3> QED
      BY <2>2, <3>1, <3>2 DEF Stamps
  <2>3. ASSUME pass.ref = Audio, NEW i \in 1..Len(out'), NEW q, q = out'[i], Media(q, Video)
        PROVE  \/ Stamp(p) >= q.dts - gap
               \/ \E j \in 1..Len(out') : j < i /\ Media(out'[j], Audio) /\ out'[j].dts >= q.dts - gap
    <3>1. i + 1 \in 1..Len(out) /\ q = out[i + 1] /\ q.dts \in Nat
      BY <1>3, <1>7, <2>3 DEF Media
    <3>2. \/ pass.refDts >= q.dts - gap
          \/ \E j \in 1..Len(out) : j < i + 1 /\ Media(out[j], Audio) /\ out[j].dts >= q.dts - gap
      BY <2>3, <3>1 DEF Stamps
    <3>3. CASE pass.refDts >= q.dts - gap
      <4>1. gap \in Nat
        OBVIOUS
      <4> QED
        BY ONLY <1>5, <1>6, <1>8, <3>1, <3>3, <4>1
    <3>4. ASSUME NEW j \in 1..Len(out), j < i + 1, Media(out[j], Audio), out[j].dts >= q.dts - gap
          PROVE  \/ Stamp(p) >= q.dts - gap
                 \/ \E m \in 1..Len(out') : m < i /\ Media(out'[m], Audio) /\ out'[m].dts >= q.dts - gap
      <4>1. CASE j = 1
        BY <1>2, <2>3, <3>4, <4>1 DEF Media, Stamp
      <4>2. CASE j # 1
        <5>1. j - 1 \in 1..Len(out') /\ out[j] = out'[j - 1]
          BY <1>3, <4>2
        <5>2. j - 1 < i
          BY <1>3, <3>4
        <5> QED
          BY <3>4, <5>1, <5>2
      <4> QED
        BY <4>1, <4>2
    <3> QED
      BY <3>2, <3>3, <3>4
  <2> QED
    BY <1>5, <2>1, <2>2, <2>3 DEF Stamps, Media, Control
<1>11. Reference(gap)'
  BY <1>5 DEF Reference
<1>12. Sorted'
  <2>1. ASSUME NEW i \in 1..Len(out'), NEW j \in 1..Len(out'), i < j, ~Control(out'[i]), Media(out'[j], out'[i].stream)
        PROVE  ~(out'[j].loop < out'[i].loop \/ (out'[j].loop = out'[i].loop /\ out'[j].n < out'[i].n))
    <3>1. i + 1 < j + 1 /\ i + 1 \in 1..Len(out) /\ j + 1 \in 1..Len(out)
      BY <1>3, <2>1
    <3>2. out'[i] = out[i + 1] /\ out'[j] = out[j + 1]
      BY <1>3
    <3> QED
      BY <2>1, <3>1, <3>2 DEF Sorted
  <2> QED
    BY <2>1 DEF Sorted, Media, Control
<1>13. CutBase(p) >= cutAt
  <2>1. Base(Stamp(p)) >= cutAt
    BY <1>6 DEF Base
  <2>2. CutBase(p) >= Base(Stamp(p))
    BY <1>6 DEF CutBase
  <2> QED
    BY <1>6, <2>1, <2>2
<1>14. KeyFrame(p) => Stamp(p) >= p.dts - gap /\ Stamp(p) - CutBase(p) <= Interval
  BY <1>2, <1>3, CutOnce
<1>15. CutsUp(gap)'
  <2>1. ASSUME NEW k \in 1..Len(segs'), NEW i \in 1..Len(segs'[k]), NEW q, q = segs'[k][i], KeyFrame(q)
        PROVE  CutBase(p) >= q.dts - gap - Interval
    <3>1. CASE k = K /\ i = I
      <4>1. q = p /\ gap \in Nat
        BY <1>2, <2>1, <3>1
      <4>2. Stamp(p) >= p.dts - gap /\ Stamp(p) - CutBase(p) <= Interval
        BY <1>14, <2>1, <4>1
      <4> QED
        BY ONLY <1>6, <1>8, <4>1, <4>2
    <3>2. CASE k \in 1..Len(segs) /\ i \in 1..Len(segs[k]) /\ segs'[k][i] = segs[k][i]
      <4>1. cutAt >= q.dts - gap - Interval
        BY <2>1, <3>2 DEF CutsUp
      <4>2. q.dts \in Nat /\ gap \in Nat
        <5>1. q \in TSPacket
          BY <2>1, <3>2, ElementOfSeq DEF PipelineInv, PipelineTypes
        <5> QED
          BY <5>1 DEF TSPacket
      <4> QED
        BY ONLY <1>6, <1>13, <4>1, <4>2
    <3> QED
      BY <1>2, <3>1, <3>2
  <2> QED
    BY <1>4, <2>1 DEF CutsUp, KeyFrame, Control
<1>16. WholeFrames'
  <2>1. ASSUME NEW i \in 1..Len(out'), i > 1, KeyFrame(out'[i]), out'[i].part # "psi"
        PROVE  KeyFrame(out'[i - 1]) /\ out'[i - 1].dts = out'[i].dts
    <3>1. i + 1 \in 1..Len(out) /\ out'[i] = out[i + 1] /\ (i + 1) - 1 = i /\ i + 1 > 1 /\ i \in 1..Len(out) /\ i # 1
      BY <1>3, <2>1
    <3>2. KeyFrame(out[i]) /\ out[i].dts = out'[i].dts
      BY <2>1, <3>1 DEF WholeFrames
    <3>3. out[i] = out'[i - 1]
      BY <1>3, <3>1
    <3> QED
      BY <3>2, <3>3
  <2>2. ASSUME out' # <<>>, NEW q, q = out'[1], KeyFrame(q), q.part # "psi"
        PROVE  (Stamp(q) - Base(Stamp(q)))' <= Interval
    <3>1. 1 \in 1..Len(out')
      <4>1. out' \in Seq(Made)
        BY <1>3 DEF ReleaseMedia, Releasing
      <4>2. Len(out') # 0 /\ Len(out') \in Nat
        BY <2>2, <4>1, EmptySeq, LenProperties
      <4> QED
        BY <4>2
    <3>2. 2 \in 1..Len(out) /\ q = out[2] /\ 2 > 1 /\ 2 - 1 = 1
      <4>1. 1 + 1 \in 1..Len(out) /\ q = out[1 + 1] /\ 1 + 1 = 2
        BY <1>3, <2>2, <3>1
      <4> QED
        BY <4>1
    <3>3. KeyFrame(p) /\ p.dts = q.dts
      BY <1>2, <2>2, <3>2 DEF WholeFrames
    <3>4. Stamp(q)' = Stamp(p)
      BY <1>5, <2>2, <3>3 DEF Stamp, KeyFrame
    <3>5. Base(Stamp(q))' = CutBase(p)
      BY <1>4, <1>6 DEF Base
    <3> QED
      BY <1>14, <3>3, <3>4, <3>5
  <2> QED
    BY <2>1, <2>2 DEF WholeFrames, KeyFrame, Control
<1>17. TablesFirst'
  <2>1. (\E i \in 1..Len(out') : Control(out'[i])) => psi
    BY <1>3 DEF TablesFirst
  <2> QED
    BY <1>4, <2>1 DEF TablesFirst, Control
<1>18. LoopsApart'
  <2>1. ASSUME NEW i \in 1..Len(out'), Control(out'[i]), NEW l, l = out'[i].loop
        PROVE  /\ Beyond(l)' /\ \A j \in 1..Len(out') : out'[j].loop <= l
               /\ \A k \in 1..Len(segs') : \A j \in 1..Len(segs'[k]) : segs'[k][j].loop <= l
    <3>1. i + 1 \in 1..Len(out) /\ out'[i] = out[i + 1]
      BY <1>3
    <3>2. /\ Beyond(l) /\ \A j \in 1..Len(out) : out[j].loop <= l
          /\ \A k \in 1..Len(segs) : \A j \in 1..Len(segs[k]) : segs[k][j].loop <= l
      BY <2>1, <3>1 DEF LoopsApart
    <3>3. Beyond(l)'
      BY <1>4, <3>2 DEF Beyond, Queue
    <3>4. \A k \in 1..Len(segs') : \A j \in 1..Len(segs'[k]) : segs'[k][j].loop <= l
      <4> TAKE k \in 1..Len(segs')
      <4> TAKE j \in 1..Len(segs'[k])
      <4>1. CASE k = K /\ j = I
        BY <1>2, <1>3, <3>2, <4>1
      <4>2. CASE k \in 1..Len(segs) /\ j \in 1..Len(segs[k]) /\ segs'[k][j] = segs[k][j]
        BY <3>2, <4>2
      <4> QED
        BY <1>2, <4>1, <4>2
    <3> QED
      BY <1>3, <3>2, <3>3, <3>4
  <2> QED
    BY <1>4, <2>1 DEF LoopsApart, Control
<1> QED
  BY <1>10, <1>11, <1>12, <1>15, <1>16, <1>17, <1>18

(* A control packet that is released is the last of what was made: a file   *)
(* that is closed begins with the tables, in a later loop.                  *)
LEMMA ControlGoes ==
  ASSUME VideoAndAudio, PipelineInv, NEW gap \in Nat, TablesFirst, LoopsApart, ReleaseControl
  PROVE  /\ Stamps(gap)' /\ Reference(gap)' /\ Sorted'
         /\ WholeFrames' /\ TablesFirst' /\ LoopsApart'
<1>1. /\ out \in Seq(Made) /\ Len(out) \in Nat \ {0} /\ Head(out) = out[1] /\ 1 \in 1..Len(out) /\ Len(out') = Len(out) - 1
  BY MadeGo DEF PipelineInv
<1>2. /\ Control(out[1]) /\ pass' = pass /\ pass.phase = "release" /\ out' = Tail(out) /\ open' = FALSE
      /\ UNCHANGED <<psi, segs, mux, loop>>
  BY <1>1 DEF ReleaseControl, Releasing, reader
<1>3. out' = <<>>
  <2>1. Len(out) = 1
    BY <1>1, <1>2 DEF PipelineInv, AtTheEnd
  <2>2. out # <<>>
    BY DEF ReleaseControl, Releasing
  <2>3. Tail(out) \in Seq(Made) /\ Len(Tail(out)) = Len(out) - 1
    BY <1>1, <2>2, Beheaded
  <2>4. Tail(out) = <<>>
    <3>1. Len(Tail(out)) = 0
      BY <2>1, <2>3
    <3> QED
      BY <2>3, <3>1, EmptySeq
  <2> QED
    BY <1>2, <2>4
<1>4. Len(<<>>) = 0 /\ 1..0 = {}
  OBVIOUS
<1>5. Stamps(gap)' /\ Reference(gap)' /\ Sorted' /\ WholeFrames'
  BY <1>2, <1>3, <1>4 DEF Stamps, Reference, Sorted, WholeFrames
<1>6. TablesFirst'
  BY <1>1, <1>2, <1>3, <1>4 DEF TablesFirst
<1>7. /\ Beyond(out[1].loop) /\ out[1].loop \in Nat
      /\ \A k \in 1..Len(segs) : \A j \in 1..Len(segs[k]) : segs[k][j].loop <= out[1].loop
  <2>1. out[1] \in Made
    BY <1>1, ElementOfSeq
  <2> QED
    BY <1>1, <1>2, <2>1, Labels DEF LoopsApart
<1>8. ASSUME NEW k \in 1..Len(segs), NEW j \in 1..Len(segs[k]), NEW l, l = segs[k][j].loop
      PROVE  Beyond(l)
  <2>1. segs[k][j] \in TSPacket
    BY ElementOfSeq DEF PipelineInv, PipelineTypes
  <2>2. l \in Nat /\ l <= out[1].loop
    BY <1>7, <1>8, <2>1, Labels DEF Made
  <2>3. loop \in Nat /\ l < loop
    <3>1. loop \in Nat
      BY SegmenterAssumption DEF PipelineInv, PipelineTypes
    <3>2. out[1].loop < loop
      BY <1>7 DEF Beyond
    <3> QED
      BY <1>7, <2>2, <3>1, <3>2
  <2>4. \A s \in Streams : \A i \in 1..Len(Queue(s)) : Queue(s)[i].loop > l
    <3> TAKE s \in Streams
    <3> TAKE i \in 1..Len(Queue(s))
    <3>1. Queue(s)[i] \in Queued
      BY ElementOfSeq DEF PipelineInv, PipelineTypes
    <3>2. Queue(s)[i].loop \in Nat /\ Queue(s)[i].loop > out[1].loop
      BY <1>7, <3>1, Labels DEF Beyond
    <3> QED
      BY <1>7, <2>2, <3>2
  <2> QED
    BY <2>3, <2>4 DEF Beyond
<1>9. \A l : Beyond(l)' <=> Beyond(l)
  BY <1>2 DEF Beyond, Queue
<1>10. LoopsApart'
  BY <1>2, <1>3, <1>4, <1>8, <1>9 DEF LoopsApart
<1> QED
  BY <1>5, <1>6, <1>10

(* The other steps move no packet that was made.                            *)
LEMMA NoneMade ==
  ASSUME VideoAndAudio, PipelineInv, NEW gap \in Nat, Stamps(gap), Reference(gap), Sorted,
         WholeFrames, TablesFirst, LoopsApart, [PipelineNext]_pipelineVars,
         ~(TakeFrame \/ TakeControl \/ ReleaseMedia \/ ReleaseControl)
  PROVE  /\ Stamps(gap)' /\ Reference(gap)' /\ Sorted'
         /\ WholeFrames' /\ TablesFirst' /\ LoopsApart'
<1>1. UNCHANGED <<out, psi, cutAt, segs, open>>
  BY DEF PipelineNext, pipelineVars, disk, ReadFrame, ReadEnd, BeginPass, TakeEnough, RunDry, EndPass, PipelineDone
<1>2. Sorted'
  BY <1>1 DEF Sorted, Media, Control
<1>3. TablesFirst'
  BY <1>1 DEF TablesFirst, Control
<1>4. Len(<<>>) = 0 /\ 1..0 = {}
  OBVIOUS
<1>5. out = <<>> => Stamps(gap)' /\ WholeFrames'
  BY <1>1, <1>4 DEF Stamps, WholeFrames
<1>6. ASSUME pass'.ref = pass.ref, pass'.refDts = pass.refDts PROVE Stamps(gap)' /\ WholeFrames'
  <2>1. \A q : (Stamp(q) - Base(Stamp(q)))' = Stamp(q) - Base(Stamp(q))
    BY <1>1, <1>6 DEF Stamp, Base
  <2> QED
    BY <1>1, <1>6, <2>1 DEF Stamps, WholeFrames, KeyFrame, Media, Control
<1>7. ASSUME NEW k \in 1..Len(segs), NEW j \in 1..Len(segs[k]) PROVE segs[k][j].loop \in Nat
  <2>1. segs[k][j] \in TSPacket
    BY ElementOfSeq DEF PipelineInv, PipelineTypes
  <2> QED
    BY <2>1, Labels DEF Made
<1>8. ASSUME NEW i \in 1..Len(out) PROVE out[i].loop \in Nat
  <2>1. out[i] \in Made
    BY ElementOfSeq DEF PipelineInv, PipelineTypes
  <2> QED
    BY <2>1, Labels
<1>9. ASSUME \A l \in Nat : Beyond(l) => Beyond(l)' PROVE LoopsApart'
  <2>1. ASSUME NEW i \in 1..Len(out), Control(out[i]), NEW l, l = out[i].loop
        PROVE  /\ Beyond(l)' /\ \A j \in 1..Len(out) : out[j].loop <= l
               /\ \A k \in 1..Len(segs) : \A j \in 1..Len(segs[k]) : segs[k][j].loop <= l
    BY <1>8, <1>9, <2>1 DEF LoopsApart
  <2>2. ASSUME ~open, NEW k \in 1..Len(segs), NEW j \in 1..Len(segs[k]), NEW l, l = segs[k][j].loop
        PROVE  Beyond(l)' /\ \A i \in 1..Len(out) : out[i].loop > l
    BY <1>7, <1>9, <2>2 DEF LoopsApart
  <2> QED
    BY <1>1, <2>1, <2>2 DEF LoopsApart, Control
<1>10. loop' = loop /\ mux' = mux => LoopsApart'
  <2>1. loop' = loop /\ mux' = mux => \A l \in Nat : Beyond(l) => Beyond(l)'
    BY DEF Beyond, Queue
  <2> QED
    BY <1>9, <2>1
<1>11. CASE ReadFrame \/ ReadEnd
  <2>1. pass = NoPass /\ pass' = pass
    BY <1>11 DEF ReadFrame, ReadEnd, Idle
  <2>2. pass'.phase = "none" /\ out = <<>>
    BY <2>1 DEF NoPass, PipelineInv, AtTheEnd
  <2>3. LoopsApart'
    BY <1>9, <1>11, ReaderBeyond
  <2> QED
    BY <1>2, <1>3, <1>5, <2>2, <2>3 DEF Reference
<1>12. CASE BeginPass
  <2>1. pass = NoPass /\ mux' = mux /\ loop' = loop
    BY <1>12 DEF BeginPass, Idle, reader
  <2>2. out = <<>>
    BY <2>1 DEF NoPass, PipelineInv, AtTheEnd
  <2>3. pass'.phase = "take" /\ pass'.refDts = 0 /\ pass'.ref = SelectMux(mux)
    BY <1>12 DEF BeginPass, NoPass
  <2>4. SelectMux(mux)' = SelectMux(mux)
    BY <2>1
  <2>5. Reference(gap)'
    BY <1>1, <1>4, <2>2, <2>3, <2>4 DEF Reference
  <2> QED
    BY <1>2, <1>3, <1>5, <1>10, <2>1, <2>2, <2>5
<1>13. CASE TakeEnough
  <2>1. pass' = [pass EXCEPT !.phase = "release"] /\ mux' = mux /\ loop' = loop
    BY <1>13 DEF TakeEnough, reader
  <2>2. pass'.phase = "release" /\ pass'.ref = pass.ref /\ pass'.refDts = pass.refDts
    BY <2>1 DEF PipelineInv, PipelineTypes
  <2> QED
    BY <1>2, <1>3, <1>6, <1>10, <2>1, <2>2 DEF Reference
<1>14. CASE EndPass
  <2>1. pass'.phase = "none" /\ out = <<>> /\ mux' = mux /\ loop' = loop
    BY <1>14 DEF EndPass, NoPass, reader
  <2> QED
    BY <1>2, <1>3, <1>5, <1>10, <2>1 DEF Reference
<1>15. CASE RunDry \/ PipelineDone \/ UNCHANGED pipelineVars
  <2>1. pass' = pass /\ mux' = mux /\ loop' = loop
    BY <1>15 DEF RunDry, PipelineDone, pipelineVars, reader
  <2>2. SelectMux(mux)' = SelectMux(mux) /\ \A t : Queue(t)' = Queue(t)
    BY <2>1 DEF Queue
  <2>3. Reference(gap)'
    BY <1>1, <2>1, <2>2 DEF Reference, Media, Control
  <2> QED
    BY <1>2, <1>3, <1>6, <1>10, <2>1, <2>3
<1> QED
  BY <1>11, <1>12, <1>13, <1>14, <1>15 DEF PipelineNext

(* The inductive invariant of the segments: the key frames are near, the    *)
(* cuts keep up with them, and files and loops begin with the tables.       *)
CleanInv(gap, reach) ==
  /\ KeysNear(gap) /\ ReaderNear(gap, reach) /\ Stamps(gap) /\ Reference(gap) /\ CutsUp(gap)
  /\ Sorted /\ WholeFrames /\ TablesFirst /\ LoopsApart /\ CleanSoFar

(* There is nothing at the beginning.                                       *)
LEMMA CleanInit == ASSUME VideoAndAudio, PipelineInit, NEW gap \in Nat, NEW reach PROVE CleanInv(gap, reach)
<1>1. /\ \A s : Queue(s) = <<>>
      /\ pass.phase = "none" /\ psi /\ out = <<>> /\ segs = <<>> /\ pos = 1 /\ loop = 0
  BY DEF PipelineInit, Queue, Held, NoPass
<1>2. Len(<<>>) = 0 /\ 1..0 = {} /\ 1..1 - 1 = {}
  OBVIOUS
<1>3. KeysNear(gap) /\ Stamps(gap) /\ Reference(gap) /\ CutsUp(gap)
  BY <1>1, <1>2 DEF KeysNear, Stamps, Reference, CutsUp
<1>4. Sorted /\ WholeFrames /\ TablesFirst /\ LoopsApart /\ CleanSoFar
  BY <1>1, <1>2 DEF Sorted, WholeFrames, TablesFirst, LoopsApart, CleanSoFar
<1>5. ReaderNear(gap, reach)
  <2>1. old[Video] = -1
    BY DEF PipelineInit, Video, Audio
  <2>2. ~VideoRead
    BY <1>1, <1>2 DEF VideoRead
  <2>3. RisesTo(old[Video])
    <3>1. \A m \in 1..Len(file) : ~(m < pos)
      BY <1>1
    <3> QED
      BY <1>1, <3>1 DEF RisesTo
  <2> QED
    BY <1>1, <2>1, <2>2, <2>3 DEF ReaderNear
<1> QED
  BY <1>3, <1>4, <1>5 DEF CleanInv

(* Every step keeps it.                                                     *)
LEMMA CleanStep ==
  ASSUME VideoAndAudio, PipelineInv, QueuesFollow, NEW gap \in Nat \ {0}, NEW reach, GroupsFit(file, gap, reach),
         CleanInv(gap, reach), [PipelineNext]_pipelineVars
  PROVE  CleanInv(gap, reach)'
<1> USE DEF CleanInv
<1>1. gap \in Nat
  OBVIOUS
<1>2. KeysNear(gap)' /\ ReaderNear(gap, reach)'
  BY <1>1, ReaderStaysNear, OthersStayNear
<1>3. CASE ReleaseMedia
  BY <1>1, <1>2, <1>3, MediaWhole, BeginsClean
<1>4. CASE ~ReleaseMedia
  <2>1. segs' = segs /\ cutAt' = cutAt
    BY <1>4 DEF PipelineNext, pipelineVars, disk, ReadFrame, ReadEnd, BeginPass, TakeFrame, TakeEnough,
                TakeControl, RunDry, ReleaseControl, EndPass, PipelineDone
  <2>2. CutsUp(gap)' /\ CleanSoFar'
    BY <2>1 DEF CutsUp, CleanSoFar, KeyFrame, Control
  <2>3. CASE TakeFrame
    BY <1>2, <2>2, <2>3, FrameStamps, FrameWhole
  <2>4. CASE TakeControl
    BY <1>1, <1>2, <2>2, <2>4, ControlWhole
  <2>5. CASE ReleaseControl
    BY <1>1, <1>2, <2>2, <2>5, ControlGoes
  <2>6. CASE ~(TakeFrame \/ TakeControl \/ ReleaseMedia \/ ReleaseControl)
    BY <1>1, <1>2, <2>2, <2>6, NoneMade
  <2> QED
    BY <1>4, <2>3, <2>4, <2>5, <2>6
<1> QED
  BY <1>3, <1>4

(* What every segment written begins with.                                  *)
LEMMA CleanFromInv == ASSUME PipelineTypes, CleanSoFar PROVE SegmentsStartClean
<1>1. DOMAIN segs = 1..Len(segs) /\ Len(segs) \in Nat /\ segs \in Seq(Seq(TSPacket))
  BY LenProperties DEF PipelineTypes
<1> SUFFICES ASSUME NEW k \in 1..Len(segs)
             PROVE  /\ Head(segs[k]).part = "psi"
                    /\ k > 1 => \/ Head(segs[k]).stream = Video /\ Head(segs[k]).frame
                                \/ Head(segs[k]).loop # Last(segs[k - 1]).loop
  BY <1>1 DEF SegmentsStartClean, Segments
<1>2. Head(segs[k]) = segs[k][1]
  <2>1. segs[k] \in Seq(TSPacket) /\ segs[k] # <<>>
    BY <1>1, ElementOfSeq DEF CleanSoFar
  <2> QED
    BY <2>1, Beheaded
<1>3. k > 1 => Last(segs[k - 1]) = segs[k - 1][Len(segs[k - 1])]
  BY DEF Last
<1> QED
  BY <1>2, <1>3 DEF CleanSoFar, KeyFrame

(* In every reachable state of every segmenter with a video and an audio    *)
(* stream, of a file whose groups of pictures, each frame counted by the    *)
(* longer of its two steps, and steps of the audio fit in a segment: every  *)
(* segment begins with the tables and, unless a loop of the reader has      *)
(* ended, with a key frame of the video.                                    *)
THEOREM SegmentsClean ==
  ASSUME VideoAndAudio, NEW gap \in Nat \ {0}, NEW reach
  PROVE  PipelineSpec /\ GroupsFit(file, gap, reach) => []SegmentsStartClean
<1> DEFINE Whole == PipelineInv /\ NoneDry /\ GroupsFit(file, gap, reach) /\ CleanInv(gap, reach)
<1>1. PipelineInit /\ GroupsFit(file, gap, reach) => Whole
  <2> SUFFICES ASSUME PipelineInit, GroupsFit(file, gap, reach) PROVE Whole
    OBVIOUS
  <2>1. gap \in Nat
    OBVIOUS
  <2> QED
    BY <2>1, PipelineInvInit, NoneDryInit, CleanInit
<1>2. Whole /\ [PipelineNext]_pipelineVars => Whole'
  <2> SUFFICES ASSUME Whole, [PipelineNext]_pipelineVars PROVE Whole'
    OBVIOUS
  <2>1. PipelineInv' /\ NoneDry' /\ CleanInv(gap, reach)'
    BY PipelineInvStep, NoneDryStep, CleanStep DEF NoneDry
  <2>2. file' = file
    BY DEF PipelineNext, pipelineVars, reader, ReadFrame, ReadEnd, BeginPass, TakeFrame, TakeEnough,
           TakeControl, RunDry, ReleaseMedia, ReleaseControl, EndPass, PipelineDone
  <2>3. GroupsFit(file, gap, reach)'
    BY <2>2
  <2> QED
    BY <2>1, <2>3
<1>3. Whole => SegmentsStartClean
  BY CleanFromInv DEF PipelineInv, CleanInv
<1> QED
  BY <1>1, <1>2, <1>3, PTL DEF PipelineSpec
==============================================================================

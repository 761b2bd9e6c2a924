-------------------------- MODULE SchedulerProofs --------------------------
(***************************************************************************)
(* Proofs about Scheduler, for any packets, delays and commands: that no   *)
(* packet is lost, repeated or overtaken (EveryPacketInOrder), and, for a  *)
(* client that obeys the restrictions of Steady, that none is sent early   *)
(* and that no command moves the stream. Then about SmoothedStream, for    *)
(* frames and packets of any size: that the times of all five kinds of     *)
(* plans rise and stay inside the groups (StreamInv).                      *)
(***************************************************************************)
EXTENDS Scheduler, SmoothedStream, SequenceTheorems, WellFoundedInduction, TLAPS

(* A set of natural numbers has a least element. *)
LEMMA LeastNat ==
  ASSUME NEW T \in SUBSET Nat, T # {}
  PROVE  \E n \in T : \A m \in T : n <= m
<1>1. PICK x \in T : \A y \in T : ~ (<<y, x>> \in OpToRel(<, Nat))
  BY WFMin, NatLessThanWellFounded, Zenon
<1>2. \A y \in T : ~ (y < x)
  BY <1>1 DEF OpToRel
<1> QED
  BY <1>2

(* One that is bounded has a greatest element. *)
LEMMA MaxExists ==
  ASSUME NEW N \in Nat, NEW S \in SUBSET (0..N), S # {}
  PROVE  Max(S) \in S /\ \A n \in S : Max(S) >= n
<1> DEFINE T == {N - n : n \in S}
<1>0. \A n \in S : n \in 0..N /\ N - n \in Nat
  OBVIOUS
<1>1. T \in SUBSET Nat /\ T # {}
  BY <1>0
<1>2. PICK m \in T : \A k \in T : m <= k
  BY <1>1, LeastNat
<1>3. PICK x \in S : m = N - x
  BY <1>2
<1>4. \A n \in S : x >= n
  BY <1>0, <1>2, <1>3
<1> QED
  BY <1>3, <1>4 DEF Max

(* What is left of a sequence without its first n elements. *)
LEMMA CutFront ==
  ASSUME NEW S, NEW s \in Seq(S), NEW n \in 0..Len(s)
  PROVE  /\ SubSeq(s, n + 1, Len(s)) \in Seq(S)
         /\ Len(SubSeq(s, n + 1, Len(s))) = Len(s) - n
         /\ \A i \in 1..Len(s) - n : SubSeq(s, n + 1, Len(s))[i] = s[n + i]
<1>1. Len(s) \in Nat /\ \A i \in n + 1..Len(s) : s[i] \in S
  BY LenProperties, ElementOfSeq
<1> QED
  BY <1>1, SubSeqProperties

(* The packets of the queues. *)
LEMMA Packets ==
  ASSUME TypeOK
  PROVE  /\ Len(vBuffer) \in Nat /\ Len(vSend) \in Nat /\ Len(out) \in Nat
         /\ DOMAIN vBuffer = 1..Len(vBuffer) /\ DOMAIN vSend = 1..Len(vSend) /\ DOMAIN out = 1..Len(out)
         /\ \A i \in 1..Len(vBuffer) : vBuffer[i] \in [id : Nat, dts : Nat]
         /\ \A i \in 1..Len(vBuffer) : vBuffer[i].id \in Nat /\ vBuffer[i].dts \in Nat
         /\ \A i \in 1..Len(vSend) : vSend[i] \in [id : Nat, dts : Nat, oSend : Nat]
         /\ \A i \in 1..Len(vSend) : vSend[i].id \in Nat /\ vSend[i].oSend \in Nat
         /\ \A i \in 1..Len(out) : out[i] \in [id : Nat, due : Nat, played : Nat]
         /\ \A i \in 1..Len(out) : out[i].id \in Nat /\ out[i].due \in Nat /\ out[i].played \in Nat
<1>1. /\ vBuffer \in Seq([id : Nat, dts : Nat]) /\ vSend \in Seq([id : Nat, dts : Nat, oSend : Nat])
      /\ out \in Seq([id : Nat, due : Nat, played : Nat])
  BY DEF TypeOK
<1>2. \A i \in 1..Len(vBuffer) : vBuffer[i] \in [id : Nat, dts : Nat]
  BY <1>1, ElementOfSeq
<1>3. \A i \in 1..Len(vSend) : vSend[i] \in [id : Nat, dts : Nat, oSend : Nat]
  BY <1>1, ElementOfSeq
<1>4. \A i \in 1..Len(out) : out[i] \in [id : Nat, due : Nat, played : Nat]
  BY <1>1, ElementOfSeq
<1>5. /\ Len(vBuffer) \in Nat /\ Len(vSend) \in Nat /\ Len(out) \in Nat
      /\ DOMAIN vBuffer = 1..Len(vBuffer) /\ DOMAIN vSend = 1..Len(vSend) /\ DOMAIN out = 1..Len(out)
  BY <1>1, LenProperties
<1> QED
  BY <1>2, <1>3, <1>4, <1>5

(* The group that basic_Scheduler::makeSchedule() plans is not empty. *)
LEMMA GroupSizeBounds ==
  ASSUME TypeOK, vBuffer # <<>>
  PROVE  GroupSize \in 1..Len(vBuffer)
<1> DEFINE S == {n \in 1..Len(vBuffer) : \A i \in 1..n : vBuffer[i].dts = vBuffer[1].dts}
<1>1. Len(vBuffer) \in Nat \ {0}
  BY EmptySeq DEF TypeOK
<1>2. 1 \in S /\ S \in SUBSET (0..Len(vBuffer))
  BY <1>1
<1>3. Max(S) \in S
  BY <1>1, <1>2, MaxExists
<1> QED
  BY <1>3 DEF GroupSize

(* Speeds times numbers are numbers. *)
LEMMA Products ==
  ASSUME NEW a \in Nat, NEW f \in Nat
  PROVE  a * f \in Nat
  OBVIOUS

(* The speed is a number, and so is a scaled media time. *)
LEMMA SpeedNumbers ==
  ASSUME TypeOK
  PROVE  /\ fSpeed \in Int /\ Rate \in Nat \ {0}
         /\ fSpeed > 0 => \A t \in Nat : Scaled(t) \in Nat
<1>1. fSpeed \in Int
  BY SchedulerAssumption DEF TypeOK, Default
<1>2. Rate \in Nat \ {0}
  BY <1>1 DEF Rate
<1>3. ASSUME fSpeed > 0, NEW t \in Nat PROVE Scaled(t) \in Nat
  <2>1. Elapsed(t) - oPrev \in Int
    BY DEF TypeOK, Elapsed
  <2>2. (Elapsed(t) - oPrev) % Wrap \in Nat /\ fSpeed \in Nat
    BY <1>1, <1>3, <2>1 DEF Wrap
  <2> HIDE DEF Elapsed, Wrap
  <2>3. ((Elapsed(t) - oPrev) % Wrap) * fSpeed \in Nat
    BY <2>2, Products
  <2> QED
    BY <2>3 DEF Scaled, TypeOK
<1> QED
  BY <1>1, <1>2, <1>3

-----------------------------------------------------------------------------
(* The values every variable ranges over. *)
LEMMA InitType == Init => TypeOK
<1> SUFFICES ASSUME Init PROVE TypeOK
  OBVIOUS
<1>1. /\ vBuffer \in Seq([id : Nat, dts : Nat]) /\ vSend \in Seq([id : Nat, dts : Nat, oSend : Nat])
      /\ out \in Seq([id : Nat, due : Nat, played : Nat]) /\ DOMAIN vBuffer = {}
  BY DEF Init, InputInit
<1>2. \A i \in DOMAIN vBuffer : iBase \in 0..vBuffer[i].dts
  BY <1>1
<1>3. /\ bSchedule \in BOOLEAN /\ bPause \in BOOLEAN /\ bSending \in BOOLEAN
      /\ bSending => vSend # <<>> \/ pc = "routing"
  BY SchedulerAssumption DEF Init, InputInit
<1>4. /\ now \in Nat \ {0} /\ pc \in {"idle", "loop", "routing"} /\ oCurrent \in Nat
      /\ oStarttime \in Nat /\ oPause \in 0..now
      /\ fSpeed \in Speeds \cup {Default} /\ fCurrent \in Nat /\ oPrev \in Nat
      /\ iBase \in Nat \cup {-1} /\ played \in Nat
      /\ arrived \in Nat /\ flushes \in Nat /\ flushed \subseteq Nat
  BY DEF Init, InputInit
<1> QED
  BY <1>1, <1>2, <1>3, <1>4 DEF TypeOK

(* Every step keeps them. *)
LEMMA NextType == TypeOK /\ [Next]_vars => TypeOK'
<1> SUFFICES ASSUME TypeOK, [Next]_vars PROVE TypeOK'
  OBVIOUS
<1> USE SchedulerAssumption DEF clockVars, flagVars, queueVars, histVars
<1>a. now \in Nat \ {0} /\ oStarttime \in Nat /\ oPause \in 0..now /\ played \in Nat /\ arrived \in Nat
  BY DEF TypeOK
<1>1. CASE Tick
  <2>1. Rate \in Nat
    BY SpeedNumbers
  <2> QED
    BY <1>1, <2>1 DEF Tick, TypeOK
<1>2. CASE Receive
  <2> PICK d \in Dts :
        /\ pc = "idle" /\ bSchedule' = TRUE
        /\ IF bSchedule THEN UNCHANGED <<oStarttime, oPause>>
                        ELSE oPause' = now /\ oStarttime' = now + Delay
        /\ iBase' = IF iBase < 0 \/ d < iBase THEN d ELSE iBase
        /\ arrived' = arrived + 1
        /\ vBuffer' = Append(vBuffer, [id |-> arrived + 1, dts |-> d])
        /\ UNCHANGED <<now, pc, oCurrent, fSpeed, fCurrent, oPrev, bPause, bSending, vSend,
                       flushed, flushes, out, played>>
    BY <1>2 DEF Receive, BaseWith
  <2>1. d \in Nat /\ [id |-> arrived + 1, dts |-> d] \in [id : Nat, dts : Nat]
    BY <1>a
  <2>2. vBuffer' \in Seq([id : Nat, dts : Nat])
    BY <2>1 DEF TypeOK
  <2>3. iBase' \in Nat /\ iBase' <= d /\ (iBase >= 0 => iBase' <= iBase)
    BY <2>1 DEF TypeOK
  <2>4. \A i \in DOMAIN vBuffer' : iBase' \in 0..vBuffer'[i].dts
    <3> SUFFICES ASSUME NEW i \in DOMAIN vBuffer' PROVE iBase' \in 0..vBuffer'[i].dts
      OBVIOUS
    <3>1. i \in DOMAIN vBuffer \/ i = Len(vBuffer) + 1
      BY <2>1, SMTT(30) DEF TypeOK
    <3>2. CASE i = Len(vBuffer) + 1
      <4>1. vBuffer'[i] = [id |-> arrived + 1, dts |-> d]
        BY <2>1, <3>2 DEF TypeOK
      <4> QED
        BY <2>1, <2>3, <4>1
    <3>3. CASE i \in DOMAIN vBuffer
      <4>1. vBuffer'[i] = vBuffer[i]
        BY <2>1, <3>3 DEF TypeOK
      <4>2. vBuffer[i].dts \in Nat
        BY <3>3, Packets
      <4>3. iBase \in 0..vBuffer[i].dts
        BY <3>3 DEF TypeOK
      <4> QED
        BY <2>1, <2>3, <4>1, <4>2, <4>3
    <3> QED
      BY <3>1, <3>2, <3>3
  <2>5. oStarttime' \in Nat /\ oPause' \in 0..now' /\ now' = now
    BY <1>a
  <2>6. iBase' \in Nat \cup {-1} /\ arrived' \in Nat /\ bSchedule' \in BOOLEAN
    BY <1>a, <2>3
  <2> QED
    BY <2>2, <2>4, <2>5, <2>6 DEF TypeOK
<1>3. CASE Process
  <2>1. now - oStarttime \in Nat /\ (fSpeed > 0 => Scaled(now) \in Nat)
    BY <1>a, <1>3, SpeedNumbers DEF Process, Started
  <2>2. oCurrent' \in Nat /\ fCurrent' \in Nat /\ oPrev' \in Nat
    BY <1>3, <2>1 DEF Process, Elapsed, TypeOK
  <2>3. /\ pc' = "loop" /\ (bSending => vSend # <<>>)
        /\ UNCHANGED <<now, oStarttime, oPause, fSpeed, flagVars, queueVars, histVars>>
    BY <1>3 DEF Process, TypeOK
  <2> QED
    BY <2>2, <2>3 DEF TypeOK
<1>4. CASE MakeSchedule
  <2> DEFINE n == GroupSize
             group == [i \in 1..n |->
               [id |-> vBuffer[i].id, dts |-> vBuffer[i].dts, oSend |-> vBuffer[1].dts - iBase]]
  <2>1. n \in 1..Len(vBuffer) /\ vBuffer # <<>>
    BY <1>4, GroupSizeBounds DEF MakeSchedule
  <2>2. vSend' = vSend \o group /\ vBuffer' = SubSeq(vBuffer, n + 1, Len(vBuffer)) /\ bSending'
        /\ UNCHANGED <<now, pc, oCurrent, clockVars, bSchedule, bPause, iBase, histVars>>
    BY <1>4 DEF MakeSchedule
  <2> HIDE DEF n
  <2>3. /\ vBuffer \in Seq([id : Nat, dts : Nat])
        /\ \A i \in DOMAIN vBuffer : iBase \in 0..vBuffer[i].dts
        /\ vSend \in Seq([id : Nat, dts : Nat, oSend : Nat])
    BY DEF TypeOK
  <2>4. vBuffer[1].dts - iBase \in Nat
    <3>1. 1 \in DOMAIN vBuffer
      BY <2>1, <2>3
    <3>2. vBuffer[1].dts \in Nat /\ iBase \in 0..vBuffer[1].dts
      BY <2>3, <3>1, Packets
    <3> QED
      BY <3>2
  <2>5. group \in Seq([id : Nat, dts : Nat, oSend : Nat]) /\ Len(group) = n
    <3>1. ASSUME NEW i \in 1..n
          PROVE  [id |-> vBuffer[i].id, dts |-> vBuffer[i].dts, oSend |-> vBuffer[1].dts - iBase]
                   \in [id : Nat, dts : Nat, oSend : Nat]
      <4>1. vBuffer[i] \in [id : Nat, dts : Nat]
        BY <2>1, Packets
      <4> QED
        BY <2>4, <4>1
    <3> QED
      BY <2>1, <3>1
  <2> HIDE DEF group
  <2>6. vSend' \in Seq([id : Nat, dts : Nat, oSend : Nat]) /\ Len(vSend') >= n
    BY <2>1, <2>2, <2>3, <2>5, ConcatProperties
  <2>7. vBuffer' \in Seq([id : Nat, dts : Nat]) /\ \A i \in DOMAIN vBuffer' : iBase \in 0..vBuffer'[i].dts
    <3>1. /\ vBuffer' \in Seq([id : Nat, dts : Nat]) /\ Len(vBuffer') = Len(vBuffer) - n
          /\ \A i \in 1..Len(vBuffer) - n : vBuffer'[i] = vBuffer[n + i] /\ n + i \in DOMAIN vBuffer
      <4>1. n \in 0..Len(vBuffer)
        BY <2>1
      <4>2. \A i \in 1..Len(vBuffer) - n : n + i \in DOMAIN vBuffer
        BY <2>1, Packets
      <4> QED
        BY <2>2, <2>3, <4>1, <4>2, CutFront
    <3>2. DOMAIN vBuffer' = 1..Len(vBuffer')
      BY <3>1
    <3> QED
      BY <2>1, <2>3, <3>1, <3>2
  <2>8. vSend' # <<>>
    BY <2>1, <2>6
  <2> QED
    BY <2>2, <2>6, <2>7, <2>8 DEF TypeOK
<1>5. CASE Send
  <2>1. vSend # <<>> /\ vSend \in Seq([id : Nat, dts : Nat, oSend : Nat])
    BY <1>5 DEF Send, TypeOK
  <2>2. Head(vSend) \in [id : Nat, dts : Nat, oSend : Nat] /\ Tail(vSend) \in Seq([id : Nat, dts : Nat, oSend : Nat])
    BY <2>1, HeadTailProperties
  <2>3. [id |-> Head(vSend).id, due |-> Head(vSend).oSend, played |-> played] \in [id : Nat, due : Nat, played : Nat]
    BY <1>a, <2>2
  <2>4. out' \in Seq([id : Nat, due : Nat, played : Nat])
    BY <1>5, <2>3 DEF Send, TypeOK
  <2> QED
    BY <1>5, <2>2, <2>4 DEF Send, TypeOK
<1>6. CASE Routed
  <2>1. bSending' \in BOOLEAN
    BY <1>6 DEF Routed
  <2> QED
    BY <1>6, <2>1 DEF Routed, TypeOK
<1>7. CASE Return
  BY <1>7 DEF Return, TypeOK
<1>8. CASE Pause
  BY <1>8, <1>a DEF Pause, TypeOK
<1>9. CASE Play
  <2>1. PICK f \in Speeds :
          /\ LET adds == oStarttime # 0 /\ fSpeed <= 0 /\ Started IN
             IF f # Default \/ fSpeed > 0
               THEN /\ fSpeed' = f
                    /\ fCurrent' = IF adds THEN Elapsed(now) ELSE fCurrent
                    /\ oPrev' = IF adds THEN Elapsed(now) ELSE oPrev
               ELSE UNCHANGED <<fSpeed, fCurrent, oPrev>>
          /\ bPause' = FALSE
          /\ oStarttime' = IF bPause /\ oStarttime # 0 /\ oPause > oStarttime
                             THEN oStarttime + (now - oPause) ELSE oStarttime
          /\ UNCHANGED <<now, pc, oCurrent, oPause, bSchedule, bSending, queueVars, histVars>>
    BY <1>9 DEF Play
  <2>2. oStarttime' \in Nat
    BY <1>a, <2>1
  <2>3. fSpeed' \in Speeds \cup {Default}
    BY <2>1 DEF TypeOK
  <2>4. Started => Elapsed(now) \in Nat
    BY <1>a DEF Started, Elapsed
  <2>5. fCurrent' \in Nat /\ oPrev' \in Nat
    BY <2>1, <2>4 DEF TypeOK
  <2> QED
    BY <2>1, <2>2, <2>3, <2>5 DEF TypeOK
<1>10. CASE Flush
  <2>1. Ids(vBuffer) \cup Ids(vSend) \subseteq Nat
    BY Packets DEF Ids
  <2>2. vBuffer' \in Seq([id : Nat, dts : Nat]) /\ vSend' \in Seq([id : Nat, dts : Nat, oSend : Nat])
        /\ DOMAIN vBuffer' = {}
    BY <1>10 DEF Flush
  <2>3. flushed' \subseteq Nat
    BY <1>10, <2>1 DEF Flush, TypeOK
  <2>4. \A i \in DOMAIN vBuffer' : iBase' \in 0..vBuffer'[i].dts
    BY <2>2
  <2>5. /\ bSchedule' \in BOOLEAN /\ bPause' \in BOOLEAN /\ bSending' = FALSE
        /\ UNCHANGED <<now, pc, oCurrent, oPause, arrived, out>>
    BY <1>10 DEF Flush
  <2>6. /\ oPrev' \in Nat /\ fCurrent' \in Nat /\ fSpeed' \in Speeds \cup {Default}
        /\ oStarttime' \in Nat /\ played' \in Nat /\ flushes' \in Nat /\ iBase' \in Nat \cup {-1}
    BY <1>10 DEF Flush, TypeOK
  <2> QED
    BY <2>2, <2>3, <2>4, <2>5, <2>6 DEF TypeOK
<1>11. CASE UNCHANGED vars
  BY <1>11 DEF vars, TypeOK
<1> QED
  BY <1>1, <1>2, <1>3, <1>4, <1>5, <1>6, <1>7, <1>8, <1>9, <1>10, <1>11 DEF Next

-----------------------------------------------------------------------------
(* The line of a scheduler, element by element. *)
Routable == [id : Nat, due : Nat, played : Nat]
Planned == [id : Nat, dts : Nat, oSend : Nat]
Buffered == [id : Nat, dts : Nat]

(* The ids of a queue, in the order of the queue. *)
LEMMA IdsOf ==
  ASSUME NEW R, NEW q \in Seq(R), \A r \in R : r.id \in Nat
  PROVE  /\ [i \in 1..Len(q) |-> q[i].id] \in Seq(Nat)
         /\ Len([i \in 1..Len(q) |-> q[i].id]) = Len(q)
         /\ \A i \in 1..Len(q) : [j \in 1..Len(q) |-> q[j].id][i] = q[i].id /\ q[i].id \in Nat
<1>1. Len(q) \in Nat /\ \A i \in 1..Len(q) : q[i].id \in Nat
  BY LenProperties, ElementOfSeq
<1> QED
  BY <1>1

(* What is sent comes before what is planned, and that before the rest. *)
LEMMA LineShape ==
  ASSUME NEW o \in Seq(Routable), NEW s \in Seq(Planned), NEW b \in Seq(Buffered)
  PROVE  /\ Line(o, s, b) \in Seq(Nat)
         /\ Len(Line(o, s, b)) = Len(o) + Len(s) + Len(b)
         /\ \A i \in 1..Len(o) + Len(s) + Len(b) :
              Line(o, s, b)[i] = IF i <= Len(o) THEN o[i].id
                                 ELSE IF i <= Len(o) + Len(s) THEN s[i - Len(o)].id
                                 ELSE b[i - (Len(o) + Len(s))].id
<1> DEFINE x == [i \in 1..Len(o) |-> o[i].id]
           y == [i \in 1..Len(s) |-> s[i].id]
           z == [i \in 1..Len(b) |-> b[i].id]
<1>0. /\ \A r \in Routable : r.id \in Nat
      /\ \A r \in Planned : r.id \in Nat
      /\ \A r \in Buffered : r.id \in Nat
  BY DEF Routable, Planned, Buffered
<1>1. Len(o) \in Nat /\ Len(s) \in Nat /\ Len(b) \in Nat
  BY LenProperties
<1>2. x \in Seq(Nat) /\ Len(x) = Len(o) /\ \A i \in 1..Len(o) : x[i] = o[i].id
  BY <1>0, IdsOf
<1>3. y \in Seq(Nat) /\ Len(y) = Len(s) /\ \A i \in 1..Len(s) : y[i] = s[i].id
  BY <1>0, IdsOf
<1>4. z \in Seq(Nat) /\ Len(z) = Len(b) /\ \A i \in 1..Len(b) : z[i] = b[i].id
  BY <1>0, IdsOf
<1>5. Line(o, s, b) = (x \o y) \o z
  BY DEF Line
<1> HIDE DEF x, y, z
<1>a. x \in Seq(Nat) /\ y \in Seq(Nat) /\ z \in Seq(Nat)
  BY <1>2, <1>3, <1>4
<1>b. /\ x \o y \in Seq(Nat) /\ Len(x \o y) = Len(x) + Len(y)
      /\ \A i \in 1..Len(x) + Len(y) : (x \o y)[i] = IF i <= Len(x) THEN x[i] ELSE y[i - Len(x)]
  BY ONLY <1>a, ConcatProperties
<1>6. /\ x \o y \in Seq(Nat) /\ Len(x \o y) = Len(o) + Len(s)
      /\ \A i \in 1..Len(o) + Len(s) : (x \o y)[i] = IF i <= Len(o) THEN x[i] ELSE y[i - Len(o)]
  BY ONLY <1>b, <1>2, <1>3, Zenon
<1> DEFINE w == x \o y
<1> HIDE DEF w
<1>c. /\ w \o z \in Seq(Nat) /\ Len(w \o z) = Len(w) + Len(z)
      /\ \A i \in 1..Len(w) + Len(z) : (w \o z)[i] = IF i <= Len(w) THEN w[i] ELSE z[i - Len(w)]
  <2>1. w \in Seq(Nat)
    BY <1>6 DEF w
  <2> QED
    BY ONLY <2>1, <1>a, ConcatProperties
<1>d. Line(o, s, b) = w \o z /\ Len(w) = Len(o) + Len(s) /\ Len(z) = Len(b)
  BY <1>4, <1>5, <1>6 DEF w
<1>7. /\ Line(o, s, b) \in Seq(Nat) /\ Len(Line(o, s, b)) = Len(o) + Len(s) + Len(b)
      /\ \A i \in 1..Len(o) + Len(s) + Len(b) :
           Line(o, s, b)[i] = IF i <= Len(o) + Len(s) THEN (x \o y)[i] ELSE z[i - (Len(o) + Len(s))]
  BY ONLY <1>c, <1>d, Zenon DEF w
<1>8. ASSUME NEW i \in 1..Len(o) + Len(s) + Len(b)
      PROVE  Line(o, s, b)[i] = IF i <= Len(o) THEN o[i].id
                                ELSE IF i <= Len(o) + Len(s) THEN s[i - Len(o)].id
                                ELSE b[i - (Len(o) + Len(s))].id
  <2>1. CASE i <= Len(o)
    <3>1. i \in 1..Len(o) /\ i \in 1..Len(o) + Len(s) /\ i <= Len(o) + Len(s)
      BY <1>1, <2>1
    <3>2. Line(o, s, b)[i] = (x \o y)[i]
      BY <1>7, <3>1
    <3>3. (x \o y)[i] = x[i]
      BY <1>6, <2>1, <3>1
    <3> QED
      BY <1>2, <2>1, <3>1, <3>2, <3>3
  <2>2. CASE i > Len(o) /\ i <= Len(o) + Len(s)
    <3>1. i - Len(o) \in 1..Len(s)
      BY <1>1, <2>2
    <3>2. i \in 1..Len(o) + Len(s) /\ ~ (i <= Len(o))
      BY <1>1, <2>2
    <3>3. Line(o, s, b)[i] = (x \o y)[i]
      BY <1>7, <2>2
    <3>4. (x \o y)[i] = y[i - Len(o)]
      BY <1>6, <3>2
    <3> QED
      BY <1>1, <1>3, <2>2, <3>1, <3>3, <3>4, SMTT(30)
  <2>3. CASE i > Len(o) + Len(s)
    <3>1. i - (Len(o) + Len(s)) \in 1..Len(b)
      BY <1>1, <2>3
    <3>2. Line(o, s, b)[i] = z[i - (Len(o) + Len(s))]
      BY <1>1, <1>7, <2>3
    <3>3. z[i - (Len(o) + Len(s))] = b[i - (Len(o) + Len(s))].id
      BY <1>4, <3>1
    <3>4. ~ (i <= Len(o)) /\ ~ (i <= Len(o) + Len(s))
      BY <1>1, <2>3
    <3> QED
      BY ONLY <3>2, <3>3, <3>4
  <2> QED
    BY <1>1, <2>1, <2>2, <2>3
<1> QED
  BY <1>7, <1>8

(* Routing the first planned packet leaves the line as it is. *)
LEMMA LineSend ==
  ASSUME NEW o \in Seq(Routable), NEW s \in Seq(Planned), NEW b \in Seq(Buffered),
         s # <<>>, NEW x \in Routable, x.id = Head(s).id
  PROVE  Line(Append(o, x), Tail(s), b) = Line(o, s, b)
<1>1. /\ Append(o, x) \in Seq(Routable) /\ Len(Append(o, x)) = Len(o) + 1
      /\ \A i \in 1..Len(o) : Append(o, x)[i] = o[i]
      /\ Append(o, x)[Len(o) + 1] = x
  BY AppendProperties
<1>2. /\ Tail(s) \in Seq(Planned) /\ Len(Tail(s)) = Len(s) - 1 /\ Head(s) = s[1]
      /\ \A i \in 1..Len(s) - 1 : Tail(s)[i] = s[i + 1]
  BY HeadTailProperties
<1>3. Len(o) \in Nat /\ Len(s) \in Nat \ {0} /\ Len(b) \in Nat
  BY LenProperties, EmptySeq
<1> DEFINE u == Append(o, x)
           t == Tail(s)
           n == Len(o) + Len(s) + Len(b)
<1> HIDE DEF u, t
<1>a. /\ u \in Seq(Routable) /\ t \in Seq(Planned) /\ Len(u) = Len(o) + 1 /\ Len(t) = Len(s) - 1
      /\ Len(u) + Len(t) = Len(o) + Len(s)
  BY <1>1, <1>2, <1>3 DEF u, t
<1>b. /\ Line(u, t, b) \in Seq(Nat)
      /\ Len(Line(u, t, b)) = Len(u) + Len(t) + Len(b)
      /\ \A i \in 1..Len(u) + Len(t) + Len(b) :
           Line(u, t, b)[i] = IF i <= Len(u) THEN u[i].id
                              ELSE IF i <= Len(u) + Len(t) THEN t[i - Len(u)].id
                              ELSE b[i - (Len(u) + Len(t))].id
  BY ONLY <1>a, LineShape, b \in Seq(Buffered), Zenon
<1>4. Line(u, t, b) \in Seq(Nat) /\ Len(Line(u, t, b)) = n
  BY ONLY <1>a, <1>b, Zenon
<1>5. \A i \in 1..n : Line(u, t, b)[i] = IF i <= Len(o) + 1 THEN u[i].id
                                           ELSE IF i <= Len(o) + Len(s) THEN t[i - (Len(o) + 1)].id
                                           ELSE b[i - (Len(o) + Len(s))].id
  BY ONLY <1>a, <1>b, Zenon
<1>6. Line(o, s, b) \in Seq(Nat) /\ Len(Line(o, s, b)) = n
  BY LineShape
<1>7. ASSUME NEW i \in 1..n PROVE Line(u, t, b)[i] = Line(o, s, b)[i]
  <2>1. CASE i <= Len(o)
    BY <1>1, <1>3, <1>5, <2>1, LineShape DEF u
  <2>2. CASE i = Len(o) + 1
    <3>1. Line(u, t, b)[i] = x.id
      BY <1>1, <1>3, <1>5, <2>2 DEF u
    <3>2. i \in 1..n /\ ~ (i <= Len(o)) /\ i <= Len(o) + Len(s) /\ i - Len(o) = 1
      BY <1>3, <2>2
    <3>3. Line(o, s, b)[i] = s[i - Len(o)].id
      BY <3>2, LineShape
    <3> QED
      BY <1>2, <3>1, <3>2, <3>3
  <2>3. CASE i > Len(o) + 1 /\ i <= Len(o) + Len(s)
    <3>1. i - (Len(o) + 1) \in 1..Len(s) - 1 /\ (i - (Len(o) + 1)) + 1 = i - Len(o)
      BY <1>3, <2>3
    <3>2. t[i - (Len(o) + 1)] = s[i - Len(o)]
      BY <1>2, <3>1 DEF t
    <3>3. Line(u, t, b)[i] = t[i - (Len(o) + 1)].id
      BY <1>3, <1>5, <2>3
    <3>4. Line(o, s, b)[i] = s[i - Len(o)].id
      BY <1>3, <2>3, LineShape
    <3> QED
      BY <3>2, <3>3, <3>4
  <2>4. CASE i > Len(o) + Len(s)
    <3>1. Line(u, t, b)[i] = b[i - (Len(o) + Len(s))].id
      BY <1>3, <1>5, <2>4
    <3>2. Line(o, s, b)[i] = b[i - (Len(o) + Len(s))].id
      BY <1>3, <2>4, LineShape, SMTT(30)
    <3> QED
      BY <3>1, <3>2
  <2> QED
    BY <1>3, <2>1, <2>2, <2>3, <2>4
<1>8. Line(u, t, b) = Line(o, s, b)
  BY <1>4, <1>6, <1>7, SeqEqual
<1> QED
  BY <1>8 DEF u, t

(* Planning the first n packets of vBuffer leaves the line as it is. *)
LEMMA LinePlan ==
  ASSUME NEW o \in Seq(Routable), NEW s \in Seq(Planned), NEW b \in Seq(Buffered),
         NEW t \in Seq(Planned), NEW c \in Seq(Buffered), NEW n \in 0..Len(b),
         Len(t) = Len(s) + n, Len(c) = Len(b) - n,
         \A i \in 1..Len(s) : t[i] = s[i],
         \A i \in 1..n : t[Len(s) + i].id = b[i].id,
         \A i \in 1..Len(b) - n : c[i] = b[n + i]
  PROVE  Line(o, t, c) = Line(o, s, b)
<1>1. Len(o) \in Nat /\ Len(s) \in Nat /\ Len(b) \in Nat /\ n \in Nat
  BY LenProperties
<1> DEFINE m == Len(o) + Len(s) + Len(b)
<1>2. Line(o, s, b) \in Seq(Nat) /\ Len(Line(o, s, b)) = m
  BY LineShape
<1>3. \A i \in 1..m : Line(o, s, b)[i] = IF i <= Len(o) THEN o[i].id
                                           ELSE IF i <= Len(o) + Len(s) THEN s[i - Len(o)].id
                                           ELSE b[i - (Len(o) + Len(s))].id
  BY LineShape
<1>a. /\ Line(o, t, c) \in Seq(Nat)
      /\ Len(Line(o, t, c)) = Len(o) + Len(t) + Len(c)
      /\ \A i \in 1..Len(o) + Len(t) + Len(c) :
           Line(o, t, c)[i] = IF i <= Len(o) THEN o[i].id
                              ELSE IF i <= Len(o) + Len(t) THEN t[i - Len(o)].id
                              ELSE c[i - (Len(o) + Len(t))].id
  BY ONLY LineShape, o \in Seq(Routable), t \in Seq(Planned), c \in Seq(Buffered), Zenon
<1>b. Len(o) + Len(t) + Len(c) = m
  BY <1>1
<1>4. Line(o, t, c) \in Seq(Nat) /\ Len(Line(o, t, c)) = m
  BY ONLY <1>a, <1>b, Zenon
<1>5. \A i \in 1..m : Line(o, t, c)[i] = IF i <= Len(o) THEN o[i].id
                                           ELSE IF i <= Len(o) + Len(t) THEN t[i - Len(o)].id
                                           ELSE c[i - (Len(o) + Len(t))].id
  BY ONLY <1>a, <1>b, Zenon
<1> HIDE DEF m
<1>6. ASSUME NEW i \in 1..m PROVE Line(o, t, c)[i] = Line(o, s, b)[i]
  <2>0. i \in Nat /\ i <= Len(o) + Len(s) + Len(b)
    BY <1>1 DEF m
  <2>1. CASE i <= Len(o)
    <3>1. Line(o, t, c)[i] = o[i].id
      BY ONLY <1>5, <2>1, i \in 1..m, Zenon
    <3>2. Line(o, s, b)[i] = o[i].id
      BY ONLY <1>3, <2>1, i \in 1..m, Zenon
    <3> QED
      BY <3>1, <3>2
  <2>2. CASE ~ (i <= Len(o)) /\ i <= Len(o) + Len(s)
    <3>1. i - Len(o) \in 1..Len(s) /\ i <= Len(o) + Len(t)
      BY <1>1, <2>0, <2>2
    <3>2. Line(o, t, c)[i] = t[i - Len(o)].id
      BY ONLY <1>5, <2>2, <3>1, i \in 1..m, Zenon
    <3>3. Line(o, s, b)[i] = s[i - Len(o)].id
      BY ONLY <1>3, <2>2, i \in 1..m, Zenon
    <3> QED
      BY <3>1, <3>2, <3>3
  <2>3. CASE ~ (i <= Len(o) + Len(s)) /\ i <= Len(o) + Len(t)
    <3> DEFINE k == i - (Len(o) + Len(s))
    <3>1. k \in 1..n /\ i - Len(o) = Len(s) + k /\ ~ (i <= Len(o))
      BY <1>1, <2>0, <2>3
    <3>2. Line(o, t, c)[i] = t[i - Len(o)].id
      BY ONLY <1>5, <2>3, <3>1, i \in 1..m, Zenon
    <3>3. Line(o, s, b)[i] = b[k].id
      BY ONLY <1>3, <2>3, <3>1, i \in 1..m, Zenon
    <3> QED
      BY <3>1, <3>2, <3>3
  <2>4. CASE ~ (i <= Len(o) + Len(t))
    <3> DEFINE k == i - (Len(o) + Len(t))
    <3>1. k \in 1..Len(b) - n /\ i - (Len(o) + Len(s)) = n + k
      BY <1>1, <2>0, <2>4
    <3>2. ~ (i <= Len(o)) /\ ~ (i <= Len(o) + Len(s))
      BY <1>1, <2>0, <2>4
    <3>3. Line(o, t, c)[i] = c[k].id
      BY ONLY <1>5, <2>4, <3>2, i \in 1..m, Zenon
    <3>4. Line(o, s, b)[i] = b[i - (Len(o) + Len(s))].id
      BY ONLY <1>3, <3>2, i \in 1..m, Zenon
    <3> QED
      BY <3>1, <3>3, <3>4
  <2> QED
    BY <1>1, <2>0, <2>1, <2>2, <2>3, <2>4
<1> QED
  BY <1>2, <1>4, <1>6, SeqEqual

(* A packet that arrives is the last of the line. *)
LEMMA LineReceive ==
  ASSUME NEW o \in Seq(Routable), NEW s \in Seq(Planned), NEW b \in Seq(Buffered),
         NEW x \in Buffered
  PROVE  Line(o, s, Append(b, x)) = Append(Line(o, s, b), x.id)
<1>1. Len(o) \in Nat /\ Len(s) \in Nat /\ Len(b) \in Nat /\ x.id \in Nat
  BY LenProperties DEF Buffered
<1> DEFINE m == Len(o) + Len(s) + Len(b)
           c == Append(b, x)
           l == Line(o, s, b)
<1>2. /\ c \in Seq(Buffered) /\ Len(c) = Len(b) + 1
      /\ \A i \in 1..Len(b) : c[i] = b[i]
      /\ c[Len(b) + 1] = x
  BY AppendProperties
<1>3. /\ l \in Seq(Nat) /\ Len(l) = m
      /\ \A i \in 1..m : l[i] = IF i <= Len(o) THEN o[i].id
                                ELSE IF i <= Len(o) + Len(s) THEN s[i - Len(o)].id
                                ELSE b[i - (Len(o) + Len(s))].id
  BY LineShape
<1> HIDE DEF c, l
<1>a. /\ Line(o, s, c) \in Seq(Nat)
      /\ Len(Line(o, s, c)) = Len(o) + Len(s) + Len(c)
      /\ \A i \in 1..Len(o) + Len(s) + Len(c) :
           Line(o, s, c)[i] = IF i <= Len(o) THEN o[i].id
                              ELSE IF i <= Len(o) + Len(s) THEN s[i - Len(o)].id
                              ELSE c[i - (Len(o) + Len(s))].id
  BY ONLY LineShape, <1>2, o \in Seq(Routable), s \in Seq(Planned), Zenon
<1>b. Len(o) + Len(s) + Len(c) = m + 1
  BY <1>1, <1>2
<1>4. Line(o, s, c) \in Seq(Nat) /\ Len(Line(o, s, c)) = m + 1
  BY ONLY <1>a, <1>b, Zenon
<1>5. \A i \in 1..m + 1 : Line(o, s, c)[i] = IF i <= Len(o) THEN o[i].id
                                               ELSE IF i <= Len(o) + Len(s) THEN s[i - Len(o)].id
                                               ELSE c[i - (Len(o) + Len(s))].id
  BY ONLY <1>a, <1>b, Zenon
<1>6. /\ Append(l, x.id) \in Seq(Nat) /\ Len(Append(l, x.id)) = m + 1
      /\ \A i \in 1..m : Append(l, x.id)[i] = l[i]
      /\ Append(l, x.id)[m + 1] = x.id
  BY <1>1, <1>3, AppendProperties
<1>7. ASSUME NEW i \in 1..m + 1 PROVE Line(o, s, c)[i] = Append(l, x.id)[i]
  <2>1. CASE i = m + 1
    <3>1. ~ (i <= Len(o)) /\ ~ (i <= Len(o) + Len(s)) /\ i - (Len(o) + Len(s)) = Len(b) + 1
      BY <1>1, <2>1
    <3>2. Line(o, s, c)[i] = c[i - (Len(o) + Len(s))].id
      BY ONLY <1>5, <3>1, i \in 1..m + 1, Zenon
    <3> QED
      BY <1>2, <1>6, <2>1, <3>1, <3>2
  <2>2. CASE i \in 1..m /\ i <= Len(o) + Len(s)
    BY <1>3, <1>5, <1>6, <2>2
  <2>3. CASE i \in 1..m /\ ~ (i <= Len(o) + Len(s))
    <3>1. ~ (i <= Len(o)) /\ i - (Len(o) + Len(s)) \in 1..Len(b)
      BY <1>1, <2>3
    <3>2. Line(o, s, c)[i] = c[i - (Len(o) + Len(s))].id
      BY ONLY <1>5, <2>3, <3>1, i \in 1..m + 1, Zenon
    <3>3. l[i] = b[i - (Len(o) + Len(s))].id
      BY ONLY <1>3, <2>3, <3>1, Zenon
    <3> QED
      BY <1>2, <1>6, <2>3, <3>1, <3>2, <3>3
  <2>4. i = m + 1 \/ i \in 1..m
    BY <1>1
  <2> QED
    BY <2>1, <2>2, <2>3, <2>4
<1>8. Line(o, s, c) = Append(l, x.id)
  BY <1>4, <1>6, <1>7, SeqEqual
<1> QED
  BY <1>8 DEF c, l

(* flush() leaves what was sent, the front of the line. *)
LEMMA LineFlush ==
  ASSUME NEW o \in Seq(Routable), NEW s \in Seq(Planned), NEW b \in Seq(Buffered)
  PROVE  /\ Line(o, <<>>, <<>>) \in Seq(Nat)
         /\ Len(Line(o, <<>>, <<>>)) <= Len(Line(o, s, b))
         /\ \A i \in 1..Len(Line(o, <<>>, <<>>)) : Line(o, <<>>, <<>>)[i] = Line(o, s, b)[i]
         /\ \A i \in 1..Len(Line(o, s, b)) :
              i > Len(Line(o, <<>>, <<>>)) => Line(o, s, b)[i] \in Ids(s) \cup Ids(b)
         /\ \A k \in Ids(s) \cup Ids(b) :
              \E i \in 1..Len(Line(o, s, b)) : i > Len(Line(o, <<>>, <<>>)) /\ k = Line(o, s, b)[i]
<1>1. Len(o) \in Nat /\ Len(s) \in Nat /\ Len(b) \in Nat /\ DOMAIN s = 1..Len(s) /\ DOMAIN b = 1..Len(b)
  BY LenProperties
<1> DEFINE m == Len(o) + Len(s) + Len(b)
           e == Line(o, <<>>, <<>>)
           l == Line(o, s, b)
<1>2. /\ l \in Seq(Nat) /\ Len(l) = m
      /\ \A i \in 1..m : l[i] = IF i <= Len(o) THEN o[i].id
                                ELSE IF i <= Len(o) + Len(s) THEN s[i - Len(o)].id
                                ELSE b[i - (Len(o) + Len(s))].id
  BY LineShape
<1>3. e \in Seq(Nat) /\ Len(e) = Len(o) /\ \A i \in 1..Len(o) : e[i] = o[i].id
  <2> DEFINE t == <<>>
  <2>1. t \in Seq(Planned) /\ t \in Seq(Buffered) /\ Len(t) = 0
    OBVIOUS
  <2> HIDE DEF t
  <2>2. /\ Line(o, t, t) \in Seq(Nat) /\ Len(Line(o, t, t)) = Len(o) + Len(t) + Len(t)
        /\ \A i \in 1..Len(o) + Len(t) + Len(t) :
             Line(o, t, t)[i] = IF i <= Len(o) THEN o[i].id
                                ELSE IF i <= Len(o) + Len(t) THEN t[i - Len(o)].id
                                ELSE t[i - (Len(o) + Len(t))].id
    BY ONLY LineShape, <2>1, o \in Seq(Routable), Zenon
  <2>3. Len(o) + Len(t) + Len(t) = Len(o)
    BY <1>1, <2>1
  <2>4. \A i \in 1..Len(o) : Line(o, t, t)[i] = o[i].id
    BY <1>1, <2>2, <2>3
  <2> QED
    BY <2>2, <2>3, <2>4 DEF t
<1> HIDE DEF e, l
<1>4. \A i \in 1..Len(o) : e[i] = l[i]
  <2> TAKE i \in 1..Len(o)
  <2>1. i \in 1..m /\ i <= Len(o)
    BY <1>1
  <2>2. l[i] = o[i].id
    BY ONLY <1>2, <2>1, Zenon
  <2> QED
    BY <1>3, <2>2
<1>5. ASSUME NEW i \in 1..m, i > Len(o) PROVE l[i] \in Ids(s) \cup Ids(b)
  <2>1. CASE i <= Len(o) + Len(s)
    <3>1. i - Len(o) \in 1..Len(s) /\ l[i] = s[i - Len(o)].id
      BY <1>1, <1>2, <1>5, <2>1
    <3> QED
      BY <1>1, <3>1 DEF Ids
  <2>2. CASE ~ (i <= Len(o) + Len(s))
    <3>1. i - (Len(o) + Len(s)) \in 1..Len(b) /\ ~ (i <= Len(o))
      BY <1>1, <1>5, <2>2
    <3>2. l[i] = b[i - (Len(o) + Len(s))].id
      BY ONLY <1>2, <2>2, <3>1, i \in 1..m, Zenon
    <3> QED
      BY <1>1, <3>1, <3>2 DEF Ids
  <2> QED
    BY <2>1, <2>2
<1>6. ASSUME NEW k \in Ids(s) \cup Ids(b) PROVE \E i \in 1..m : i > Len(o) /\ k = l[i]
  <2>1. CASE k \in Ids(s)
    <3>1. PICK j \in 1..Len(s) : k = s[j].id
      BY <1>1, <2>1 DEF Ids
    <3>2. Len(o) + j \in 1..m /\ ~ (Len(o) + j <= Len(o)) /\ Len(o) + j <= Len(o) + Len(s) /\ (Len(o) + j) - Len(o) = j
      BY <1>1
    <3>3. l[Len(o) + j] = s[(Len(o) + j) - Len(o)].id
      BY ONLY <1>2, <3>2, Zenon
    <3> QED
      BY <1>1, <3>1, <3>2, <3>3
  <2>2. CASE k \in Ids(b)
    <3>1. PICK j \in 1..Len(b) : k = b[j].id
      BY <1>1, <2>2 DEF Ids
    <3> DEFINE i == Len(o) + Len(s) + j
    <3>2. i \in 1..m /\ ~ (i <= Len(o)) /\ ~ (i <= Len(o) + Len(s)) /\ i - (Len(o) + Len(s)) = j
      BY <1>1
    <3>3. l[i] = b[i - (Len(o) + Len(s))].id
      BY ONLY <1>2, <3>2, Zenon
    <3> QED
      BY <1>1, <3>1, <3>2, <3>3
  <2> QED
    BY <2>1, <2>2
<1>7. Len(o) <= m
  BY <1>1
<1> QED
  BY <1>2, <1>3, <1>4, <1>5, <1>6, <1>7 DEF e, l

-----------------------------------------------------------------------------
(* The line rises, and holds with the flushed ids what has arrived, once.   *)
Good(line, gone, n) ==
  /\ \A i, j \in DOMAIN line : i < j => line[i] < line[j]
  /\ ToSet(line) \cup gone = 1..n
  /\ ToSet(line) \cap gone = {}

(* InOrderOnce says that of the scheduler's line, in each state. *)
LEMMA InOrderOnceIsGood == InOrderOnce <=> Good(Line(out, vSend, vBuffer), flushed, arrived)
  BY DEF InOrderOnce, Good

(* And so in the state after a step. *)
LEMMA InOrderOnceIsGood2 ==
  InOrderOnce' <=> Good(Line(out', vSend', vBuffer'), flushed', arrived')
  BY DEF InOrderOnce, Good, Line, ToSet

(* A new packet keeps the line good, its id being one more than all others. *)
LEMMA GoodReceive ==
  ASSUME NEW line \in Seq(Nat), NEW gone, NEW n \in Nat, Good(line, gone, n)
  PROVE  Good(Append(line, n + 1), gone, n + 1)
<1> DEFINE l == Append(line, n + 1)
<1>1. /\ l \in Seq(Nat) /\ Len(l) = Len(line) + 1 /\ DOMAIN l = 1..Len(line) + 1
      /\ \A i \in 1..Len(line) : l[i] = line[i]
      /\ l[Len(line) + 1] = n + 1
      /\ Len(line) \in Nat /\ DOMAIN line = 1..Len(line)
  BY AppendProperties, LenProperties
<1> HIDE DEF l
<1>2. \A i \in 1..Len(line) : line[i] \in 1..n
  BY <1>1 DEF Good, ToSet
<1>3. \A i, j \in DOMAIN l : i < j => l[i] < l[j]
  <2> SUFFICES ASSUME NEW i \in DOMAIN l, NEW j \in DOMAIN l, i < j PROVE l[i] < l[j]
    OBVIOUS
  <2>1. i \in 1..Len(line) /\ l[i] = line[i]
    BY <1>1
  <2>2. CASE j = Len(line) + 1
    BY <1>1, <1>2, <2>1, <2>2
  <2>3. CASE j \in 1..Len(line)
    <3>1. l[j] = line[j] /\ line[i] < line[j]
      BY <1>1, <2>1, <2>3 DEF Good
    <3> QED
      BY <2>1, <3>1
  <2> QED
    BY <1>1, <2>2, <2>3
<1>4. ToSet(l) = ToSet(line) \cup {n + 1}
  BY <1>1, SMTT(30) DEF ToSet
<1>5. ToSet(line) \cup gone = 1..n /\ ToSet(line) \cap gone = {}
  BY DEF Good
<1>6. ToSet(l) \cup gone = 1..n + 1
  BY <1>4, <1>5
<1>7. ToSet(l) \cap gone = {}
  BY <1>4, <1>5
<1> QED
  BY <1>3, <1>6, <1>7 DEF l, Good

(* Its front alone is good when the rest is gone. *)
LEMMA GoodFlush ==
  ASSUME NEW line \in Seq(Nat), NEW l \in Seq(Nat), NEW gone, NEW rest, NEW n \in Nat,
         Good(line, gone, n), Len(l) <= Len(line),
         \A i \in 1..Len(l) : l[i] = line[i],
         \A i \in 1..Len(line) : i > Len(l) => line[i] \in rest,
         \A k \in rest : \E i \in 1..Len(line) : i > Len(l) /\ k = line[i]
  PROVE  Good(l, gone \cup rest, n)
<1>1. /\ Len(l) \in Nat /\ DOMAIN l = 1..Len(l)
      /\ Len(line) \in Nat /\ DOMAIN line = 1..Len(line)
  BY LenProperties
<1>2. \A i, j \in 1..Len(line) : i < j => line[i] < line[j]
  BY <1>1 DEF Good
<1>3. \A i, j \in DOMAIN l : i < j => l[i] < l[j]
  BY <1>1, <1>2
<1>4. ToSet(line) = ToSet(l) \cup rest
  <2>1. ToSet(line) = {line[i] : i \in 1..Len(line)} /\ ToSet(l) = {l[i] : i \in 1..Len(l)}
    BY <1>1 DEF ToSet
  <2>2. \A i \in 1..Len(line) : i \in 1..Len(l) \/ i > Len(l)
    BY <1>1
  <2>3. \A i \in 1..Len(l) : i \in 1..Len(line)
    BY <1>1
  <2> QED
    BY <2>1, <2>2, <2>3
<1>5. ToSet(l) \cap rest = {}
  <2> SUFFICES ASSUME NEW i \in 1..Len(l), l[i] \in rest PROVE FALSE
    BY <1>1 DEF ToSet
  <2>1. PICK j \in 1..Len(line) : j > Len(l) /\ l[i] = line[j]
    OBVIOUS
  <2>2. i \in 1..Len(line) /\ i < j /\ line[i] = line[j]
    BY <1>1, <2>1
  <2>3. line[i] < line[j] /\ line[i] \in Nat
    BY <1>2, <2>2, ElementOfSeq
  <2> QED
    BY <2>2, <2>3
<1>6. ToSet(line) \cup gone = 1..n /\ ToSet(line) \cap gone = {}
  BY DEF Good
<1> QED
  BY <1>3, <1>4, <1>5, <1>6 DEF Good

(* The order is kept by every step. *)
LEMMA InitOrder == Init => InOrderOnce
<1> SUFFICES ASSUME Init PROVE InOrderOnce
  OBVIOUS
<1>1. out = <<>> /\ vSend = <<>> /\ vBuffer = <<>> /\ flushed = {} /\ arrived = 0
  BY DEF Init, InputInit
<1>2. Line(<<>>, <<>>, <<>>) = <<>>
  <2> DEFINE t == <<>>
  <2>1. t \in Seq(Planned) /\ t \in Seq(Buffered) /\ t \in Seq(Routable) /\ Len(t) = 0
    OBVIOUS
  <2> HIDE DEF t
  <2>a. Line(t, t, t) \in Seq(Nat) /\ Len(Line(t, t, t)) = Len(t) + Len(t) + Len(t)
    BY ONLY <2>1, LineShape, Zenon
  <2>2. Line(t, t, t) \in Seq(Nat) /\ Len(Line(t, t, t)) = 0
    BY <2>1, <2>a
  <2>3. Line(t, t, t) = <<>>
    BY <2>2, EmptySeq
  <2> QED
    BY <2>3 DEF t
<1>3. Good(<<>>, {}, 0)
  BY DEF Good, ToSet
<1> QED
  BY <1>1, <1>2, <1>3, InOrderOnceIsGood

(* By each of its actions. *)
LEMMA NextOrder == TypeOK /\ TypeOK' /\ InOrderOnce /\ [Next]_vars => InOrderOnce'
<1> SUFFICES ASSUME TypeOK, TypeOK', InOrderOnce, [Next]_vars PROVE InOrderOnce'
  OBVIOUS
<1> USE DEF clockVars, flagVars, queueVars, histVars
<1> DEFINE line == Line(out, vSend, vBuffer)
<1>a. Good(line, flushed, arrived)
  BY InOrderOnceIsGood
<1>b. /\ vBuffer \in Seq(Buffered) /\ vSend \in Seq(Planned) /\ out \in Seq(Routable) /\ arrived \in Nat
      /\ vBuffer' \in Seq(Buffered) /\ vSend' \in Seq(Planned) /\ out' \in Seq(Routable)
  BY DEF TypeOK, Buffered, Planned, Routable
<1>c. ASSUME Line(out', vSend', vBuffer') = line, flushed' = flushed, arrived' = arrived
      PROVE  InOrderOnce'
  BY <1>a, <1>c, InOrderOnceIsGood2
<1>0. ASSUME UNCHANGED <<out, vSend, vBuffer, flushed, arrived>> PROVE InOrderOnce'
  BY <1>0, <1>c
<1>1. CASE Tick \/ Process \/ Routed \/ Return \/ Pause
  BY <1>0, <1>1 DEF Tick, Process, Routed, Return, Pause
<1>2. CASE Play
  <2>1. UNCHANGED <<out, vSend, vBuffer, flushed, arrived>>
    BY <1>2 DEF Play
  <2> QED
    BY <1>0, <2>1
<1>3. CASE Receive
  <2>1. PICK d \in Dts :
          /\ arrived' = arrived + 1 /\ vBuffer' = Append(vBuffer, [id |-> arrived + 1, dts |-> d])
          /\ vSend' = vSend /\ flushed' = flushed /\ out' = out
    BY <1>3 DEF Receive, BaseWith
  <2> DEFINE x == [id |-> arrived + 1, dts |-> d]
  <2>2. x \in Buffered /\ x.id = arrived + 1 /\ vBuffer' = Append(vBuffer, x)
    BY <1>b, <2>1, SchedulerAssumption DEF Buffered
  <2> HIDE DEF x
  <2>3. Line(out', vSend', vBuffer') = Append(line, arrived + 1)
    BY <1>b, <2>1, <2>2, LineReceive
  <2>4. line \in Seq(Nat)
    BY <1>b, LineShape
  <2> HIDE DEF line
  <2>5. Good(Append(line, arrived + 1), flushed, arrived + 1)
    BY <1>a, <1>b, <2>4, GoodReceive
  <2> QED
    BY <2>1, <2>3, <2>5, InOrderOnceIsGood2
<1>4. CASE MakeSchedule
  <2> DEFINE n == GroupSize
             group == [i \in 1..n |->
               [id |-> vBuffer[i].id, dts |-> vBuffer[i].dts, oSend |-> vBuffer[1].dts - iBase]]
  <2>1. n \in 1..Len(vBuffer)
    BY <1>4, GroupSizeBounds DEF MakeSchedule
  <2>2. /\ vSend' = vSend \o group /\ vBuffer' = SubSeq(vBuffer, n + 1, Len(vBuffer))
        /\ UNCHANGED <<out, flushed, arrived>>
    BY <1>4 DEF MakeSchedule
  <2> HIDE DEF n
  <2>3. Len(vSend) \in Nat /\ n \in Nat /\ n \in 0..Len(vBuffer)
    BY <1>b, <2>1, LenProperties
  <2>4. Len(group) = n /\ \A i \in 1..n : group[i].id = vBuffer[i].id
    BY <2>3
  <2>5. \A i \in 1..n : group[i] \in [id : Nat, dts : Nat, oSend : Int]
    <3> TAKE i \in 1..n
    <3>1. 1 \in 1..Len(vBuffer) /\ i \in 1..Len(vBuffer)
      BY <2>1
    <3>2. vBuffer[i].id \in Nat /\ vBuffer[i].dts \in Nat /\ vBuffer[1].dts \in Nat
      BY <3>1, Packets
    <3>3. iBase \in Int
      BY DEF TypeOK
    <3> QED
      BY <3>2, <3>3
  <2>6. group \in Seq([id : Nat, dts : Nat, oSend : Int])
    BY <2>3, <2>5
  <2>7. vSend \in Seq([id : Nat, dts : Nat, oSend : Int])
    <3>1. Planned \subseteq [id : Nat, dts : Nat, oSend : Int]
      BY DEF Planned
    <3> QED
      BY <1>b, <3>1, SeqMonotonic
  <2> HIDE DEF group
  <2>8. /\ Len(vSend \o group) = Len(vSend) + Len(group)
        /\ \A i \in 1..Len(vSend) + Len(group) :
             (vSend \o group)[i] = IF i <= Len(vSend) THEN vSend[i] ELSE group[i - Len(vSend)]
    BY ONLY <2>6, <2>7, ConcatProperties
  <2>9. /\ Len(vSend') = Len(vSend) + n
        /\ \A i \in 1..Len(vSend) + n :
             vSend'[i] = IF i <= Len(vSend) THEN vSend[i] ELSE group[i - Len(vSend)]
    BY ONLY <2>2, <2>4, <2>8, Zenon
  <2>10. \A i \in 1..Len(vSend) : vSend'[i] = vSend[i]
    BY <2>3, <2>9
  <2>11. \A i \in 1..n : vSend'[Len(vSend) + i].id = vBuffer[i].id
    <3> TAKE i \in 1..n
    <3>1. Len(vSend) + i \in 1..Len(vSend) + n /\ ~ (Len(vSend) + i <= Len(vSend)) /\ (Len(vSend) + i) - Len(vSend) = i
      BY <2>3
    <3>2. vSend'[Len(vSend) + i] = group[(Len(vSend) + i) - Len(vSend)]
      BY ONLY <2>9, <3>1, Zenon
    <3> QED
      BY <2>4, <3>1, <3>2
  <2>12. Len(vBuffer') = Len(vBuffer) - n /\ \A i \in 1..Len(vBuffer) - n : vBuffer'[i] = vBuffer[n + i]
    BY <1>b, <2>2, <2>3, CutFront
  <2>13. Line(out, vSend', vBuffer') = line
    <3> SUFFICES ASSUME NEW t, NEW c, t = vSend', c = vBuffer'
                 PROVE  Line(out, t, c) = Line(out, vSend, vBuffer)
      OBVIOUS
    <3>1. Len(t) = Len(vSend) + n
      BY <2>9
    <3>2. Len(c) = Len(vBuffer) - n /\ n \in 0..Len(vBuffer)
      BY <2>3, <2>12
    <3>3. \A i \in 1..Len(vBuffer) - n : c[i] = vBuffer[n + i]
      BY <2>12
    <3>4. /\ vBuffer \in Seq(Buffered) /\ vSend \in Seq(Planned) /\ out \in Seq(Routable)
          /\ c \in Seq(Buffered) /\ t \in Seq(Planned)
      BY <1>b
    <3>5. \A i \in 1..Len(vSend) : t[i] = vSend[i]
      BY <2>10
    <3>6. \A i \in 1..n : t[Len(vSend) + i].id = vBuffer[i].id
      BY <2>11
    <3> QED
      BY ONLY <3>1, <3>2, <3>3, <3>4, <3>5, <3>6, LinePlan, ZenonT(60)
  <2> QED
    BY <1>c, <2>2, <2>13
<1>5. CASE Send
  <2> DEFINE x == [id |-> Head(vSend).id, due |-> Head(vSend).oSend, played |-> played]
  <2>1. /\ vSend # <<>> /\ out' = Append(out, x) /\ vSend' = Tail(vSend)
        /\ UNCHANGED <<vBuffer, arrived, flushed>>
    BY <1>5 DEF Send
  <2>2. Head(vSend) \in Planned /\ played \in Nat
    BY <1>b, <2>1, HeadTailProperties DEF TypeOK
  <2>3. x \in Routable /\ x.id = Head(vSend).id
    BY <2>2 DEF Planned, Routable
  <2> HIDE DEF x
  <2>4. Line(out', vSend', vBuffer') = line
    BY <1>b, <2>1, <2>3, LineSend
  <2> QED
    BY <1>c, <2>1, <2>4
<1>6. CASE Flush
  <2>1. /\ flushed' = flushed \cup (Ids(vSend) \cup Ids(vBuffer))
        /\ vBuffer' = <<>> /\ vSend' = <<>> /\ UNCHANGED <<arrived, out>>
    BY <1>6 DEF Flush
  <2> DEFINE l == Line(out, <<>>, <<>>)
             rest == Ids(vSend) \cup Ids(vBuffer)
  <2>2. /\ l \in Seq(Nat) /\ Len(l) <= Len(line)
        /\ \A i \in 1..Len(l) : l[i] = line[i]
        /\ \A i \in 1..Len(line) : i > Len(l) => line[i] \in rest
        /\ \A k \in rest : \E i \in 1..Len(line) : i > Len(l) /\ k = line[i]
    BY <1>b, LineFlush
  <2>3. line \in Seq(Nat)
    BY <1>b, LineShape
  <2>4. Line(out', vSend', vBuffer') = l /\ flushed' = flushed \cup rest /\ arrived' = arrived
    BY <2>1
  <2> HIDE DEF l, line, rest
  <2>5. Good(l, flushed \cup rest, arrived)
    BY <1>a, <1>b, <2>2, <2>3, GoodFlush
  <2> QED
    BY <2>4, <2>5, InOrderOnceIsGood2
<1>7. CASE UNCHANGED vars
  BY <1>0, <1>7 DEF vars
<1> QED
  BY <1>1, <1>2, <1>3, <1>4, <1>5, <1>6, <1>7 DEF Next

(* Every variable keeps its range, whatever the client asks. *)
THEOREM TypeCorrect == Spec => []TypeOK
  BY InitType, NextType, PTL DEF Spec

(* Whatever is flushed, paused or asked from inside route(), the scheduler  *)
(* routes the packets in the order of their arrival, each at most once, and *)
(* deletes none but those that flush() deletes.                             *)
THEOREM EveryPacketInOrder == Spec => []InOrderOnce
<1>1. Init => TypeOK /\ InOrderOnce
  BY InitType, InitOrder
<1>2. TypeOK /\ InOrderOnce /\ [Next]_vars => (TypeOK /\ InOrderOnce)'
  BY NextType, NextOrder
<1> QED
  BY <1>1, <1>2, PTL DEF Spec

-----------------------------------------------------------------------------
(* A client whose pauses do not begin before the start and end after it,    *)
(* and who plays at the natural speed, or at one other, which it does not   *)
(* ask for first while it is paused (section 6 of README.md has what        *)
(* happens to the others).                                                  *)
Steady == ~EarlyPause /\ ~AnySpeed /\ \E f \in Nat \ {0} : Speeds \subseteq {Default, f}

(* The time that counts: a pause stops it. *)
At == IF bPause THEN oPause ELSE now

(* Before the start nothing of the stream has passed; process() and the     *)
(* viewer count from there, and process() is never ahead.                   *)
InTime ==
  /\ ~bSchedule => oStarttime = 0
  /\ oStarttime = 0 \/ At <= oStarttime => fCurrent = 0 /\ oPrev = 0
  /\ Position <= played
  /\ pc # "idle" => oCurrent <= played
  /\ NotEarly

(* The media time at clock time t of a stream that started at st and plays  *)
(* at speed sp since the media time cur, reached prev after the start.      *)
MediaTime(t, st, sp, cur, prev) ==
  IF st = 0 \/ t < st THEN 0
  ELSE IF sp > 0 THEN cur + (((t - st) - prev) % Wrap) * sp ELSE t - st

(* It is what Position is made of, before and after a step. *)
LEMMA PositionNow == Position = MediaTime(At, oStarttime, fSpeed, fCurrent, oPrev)
  BY DEF Position, MediaTime, At, Scaled, Elapsed

(* The same of the state after a step. *)
LEMMA PositionNext == Position' = MediaTime(At', oStarttime', fSpeed', fCurrent', oPrev')
  BY DEF Position, MediaTime, At, Scaled, Elapsed

(* A tick moves a scaled time on by at most the speed, wrapped or not. *)
LEMMA OneTick ==
  ASSUME NEW x \in Int, NEW f \in Nat
  PROVE  /\ (x % Wrap) * f \in Nat /\ ((x + 1) % Wrap) * f \in Nat
         /\ ((x + 1) % Wrap) * f <= (x % Wrap) * f + f
<1> DEFINE a == (x + 1) % Wrap
           b == x % Wrap
<1>1. a \in Nat /\ b \in Nat /\ a <= b + 1
  BY DEF Wrap
<1> HIDE DEF a, b
<1>2. a * f \in Nat /\ b * f \in Nat
  BY <1>1, Products
<1>3. a * f <= (b + 1) * f
  BY <1>1
<1>4. (b + 1) * f = b * f + f
  BY <1>1
<1> QED
  BY <1>2, <1>3, <1>4 DEF a, b

(* What time is kept in. *)
LEMMA Times ==
  ASSUME TypeOK
  PROVE  /\ now \in Nat \ {0} /\ oPause \in Nat /\ oPause <= now /\ At \in Nat /\ At <= now
         /\ oStarttime \in Nat /\ fCurrent \in Nat /\ oPrev \in Nat /\ played \in Nat /\ oCurrent \in Nat
         /\ fSpeed \in Int /\ bPause \in BOOLEAN /\ bSchedule \in BOOLEAN
  BY SpeedNumbers DEF TypeOK, At

(* What play() and pause() leave: the position, and the zeros before the start. *)
LEMMA PauseKeeps ==
  ASSUME TypeOK, Pause
  PROVE  At' = At /\ Position' = Position
<1>1. At' = At /\ UNCHANGED <<oStarttime, fSpeed, fCurrent, oPrev>>
  BY DEF Pause, At
<1> QED
  BY <1>1, PositionNow, PositionNext

(* The same of play(), whose shift of the start outweighs the pause. *)
LEMMA PlayKeeps ==
  ASSUME TypeOK, InTime, Steady, Play
  PROVE  /\ Position' = Position
         /\ oStarttime' = 0 => oStarttime = 0
         /\ oStarttime = 0 => oStarttime' = 0
         /\ oStarttime' = 0 \/ At' <= oStarttime' => fCurrent' = 0 /\ oPrev' = 0
<1>1. PICK f \in Speeds :
        /\ bPause => EarlyPause \/ oStarttime = 0 \/ oPause > oStarttime \/ now < oStarttime
        /\ (bPause /\ f # Default) => fSpeed > 0 \/ oStarttime = 0 \/ AnySpeed
        /\ f = Default => fSpeed <= 0 \/ AnySpeed
        /\ LET adds == oStarttime # 0 /\ fSpeed <= 0 /\ Started IN
           IF f # Default \/ fSpeed > 0
             THEN /\ fSpeed' = f
                  /\ fCurrent' = IF adds THEN Elapsed(now) ELSE fCurrent
                  /\ oPrev' = IF adds THEN Elapsed(now) ELSE oPrev
             ELSE UNCHANGED <<fSpeed, fCurrent, oPrev>>
        /\ bPause' = FALSE
        /\ oStarttime' = IF bPause /\ oStarttime # 0 /\ oPause > oStarttime
                           THEN oStarttime + (now - oPause) ELSE oStarttime
        /\ now' = now
  BY DEF Play
<1>2. PICK g \in Nat \ {0} : Speeds \subseteq {Default, g}
  BY DEF Steady
<1>3. ~EarlyPause /\ ~AnySpeed
  BY DEF Steady
<1>4. /\ now \in Nat \ {0} /\ oPause \in Nat /\ oPause <= now /\ At \in Nat /\ At <= now
      /\ oStarttime \in Nat /\ fCurrent \in Nat /\ oPrev \in Nat /\ fSpeed \in {Default, g}
      /\ bPause \in BOOLEAN /\ Default = -1
  BY <1>2, Times DEF TypeOK, Default
<1>5. oStarttime = 0 \/ At <= oStarttime => fCurrent = 0 /\ oPrev = 0
  BY DEF InTime
<1>6. At' = now
  BY <1>1 DEF At
(* The times since the start, and what the start is moved by. *)
<1>7. CASE oStarttime = 0
  <2>1. oStarttime' = 0 /\ ~Started
    BY <1>1, <1>7 DEF Started
  <2>2. fCurrent' = fCurrent /\ oPrev' = oPrev
    BY <1>1, <1>7
  <2>3. Position = 0 /\ Position' = 0
    BY <1>7, <2>1, PositionNow, PositionNext DEF MediaTime
  <2> QED
    BY <1>5, <1>7, <2>1, <2>2, <2>3
<1>8. CASE oStarttime # 0 /\ now < oStarttime
  <2>1. oStarttime' = oStarttime /\ ~Started
    BY <1>1, <1>4, <1>8 DEF Started
  <2>2. fCurrent' = fCurrent /\ oPrev' = oPrev
    BY <1>1, <2>1
  <2>3. At < oStarttime /\ At' < oStarttime'
    BY <1>4, <1>6, <1>8, <2>1
  <2>4. Position = 0 /\ Position' = 0
    BY <2>3, PositionNow, PositionNext DEF MediaTime
  <2> QED
    BY <1>4, <1>5, <1>8, <2>1, <2>2, <2>3, <2>4
<1>9. CASE oStarttime # 0 /\ now >= oStarttime
  <2>0. Started
    BY <1>9 DEF Started
  <2>1. At' - oStarttime' = At - oStarttime /\ oStarttime' \in Nat \ {0} /\ At >= oStarttime
    BY <1>1, <1>3, <1>4, <1>6, <1>9 DEF At
  <2>a. ~ (now < oStarttime') /\ (now <= oStarttime' => At <= oStarttime)
    BY <1>1, <1>3, <1>4, <1>9 DEF At
  <2>b. /\ ~ (At < oStarttime) /\ ~ (At' < oStarttime') /\ oStarttime' # 0
        /\ At' <= oStarttime' => At <= oStarttime
    BY <1>4, <1>6, <2>1, <2>a
  <2>2. CASE fSpeed = g
    <3>1. fSpeed' = g /\ fCurrent' = fCurrent /\ oPrev' = oPrev
      BY <1>1, <1>2, <1>3, <1>4, <2>2
    <3>2. Position' = Position
      <4>1. ~ (At < oStarttime) /\ ~ (At' < oStarttime') /\ oStarttime' # 0
        BY <2>b
      <4>2. Position = fCurrent + (((At - oStarttime) - oPrev) % Wrap) * g
        BY <1>2, <1>9, <2>2, <4>1, PositionNow DEF MediaTime
      <4>3. Position' = fCurrent' + (((At' - oStarttime') - oPrev') % Wrap) * g
        BY <1>2, <3>1, <4>1, PositionNext DEF MediaTime
      <4> QED
        BY <2>1, <3>1, <4>2, <4>3
    <3> QED
      BY <1>5, <1>9, <2>1, <2>b, <3>1, <3>2
  <2>3. CASE fSpeed = Default /\ f = Default
    <3>1. fSpeed' = fSpeed /\ fCurrent' = fCurrent /\ oPrev' = oPrev
      BY <1>1, <1>4, <2>3
    <3>3. Position = At - oStarttime /\ Position' = At' - oStarttime'
      BY <1>4, <1>9, <2>3, <2>b, <3>1, PositionNow, PositionNext DEF MediaTime
    <3> QED
      BY <1>5, <1>9, <2>1, <2>b, <3>1, <3>3
  <2>4. CASE fSpeed = Default /\ f # Default
    <3>1. ~bPause /\ f = g
      BY <1>1, <1>2, <1>3, <1>4, <1>9, <2>4
    <3>2. fSpeed' = g /\ fCurrent' = now - oStarttime /\ oPrev' = now - oStarttime
      BY <1>1, <1>4, <1>9, <2>0, <2>4, <3>1 DEF Elapsed
    <3>3. At = now /\ oStarttime' = oStarttime
      BY <1>1, <3>1 DEF At
    <3>4. Position = now - oStarttime
      BY <1>4, <1>9, <2>4, <3>3, PositionNow DEF MediaTime
    <3>5. Position' = (now - oStarttime) + (((now - oStarttime) - (now - oStarttime)) % Wrap) * g
      BY <1>2, <1>4, <1>6, <1>9, <3>2, <3>3, PositionNext DEF MediaTime
    <3>6. ((now - oStarttime) - (now - oStarttime)) % Wrap = 0 /\ 0 * g = 0
      BY <1>2, <1>4 DEF Wrap
    <3>7. Position' = now - oStarttime
      BY <1>4, <3>5, <3>6
    <3>8. At' <= oStarttime' => now - oStarttime = 0
      BY <1>4, <1>6, <1>9, <3>3
    <3> QED
      BY <1>9, <2>1, <3>2, <3>3, <3>4, <3>7, <3>8
  <2> QED
    BY <1>4, <2>2, <2>3, <2>4
<1> QED
  BY <1>4, <1>7, <1>8, <1>9

(* The clock moves the stream on by no more than the viewer has seen. *)
LEMMA TickInTime ==
  ASSUME TypeOK, InTime, Tick
  PROVE  /\ Position' <= played' /\ played' >= played
         /\ At' <= oStarttime => At <= oStarttime
<1>1. /\ now' = now + 1 /\ played' = IF Started /\ ~bPause THEN played + Rate ELSE played
      /\ UNCHANGED <<oStarttime, fSpeed, fCurrent, oPrev, bPause, oPause>>
  BY DEF Tick, clockVars, flagVars
<1>2. /\ now \in Nat \ {0} /\ oPause \in Nat /\ At \in Nat
      /\ oStarttime \in Nat /\ fCurrent \in Nat /\ oPrev \in Nat /\ played \in Nat
      /\ fSpeed \in Int /\ bPause \in BOOLEAN /\ Rate \in Nat \ {0}
  BY Times, SpeedNumbers
<1>3. Position <= played /\ (oStarttime = 0 \/ At <= oStarttime => fCurrent = 0 /\ oPrev = 0)
  BY DEF InTime
<1>4. played' >= played /\ played' \in Nat
  BY <1>1, <1>2
<1>5. CASE bPause
  <2>1. At' = At
    BY <1>1, <1>5 DEF At
  <2>2. Position' = Position
    BY <1>1, <2>1, PositionNow, PositionNext
  <2>3. played' = played
    BY <1>1, <1>5
  <2> QED
    BY <1>3, <1>4, <2>1, <2>2, <2>3
<1>6. CASE ~bPause
  <2>1. At = now /\ At' = now + 1 /\ oStarttime' = oStarttime
    BY <1>1, <1>6 DEF At
  <2>2. Position' = MediaTime(now + 1, oStarttime, fSpeed, fCurrent, oPrev)
    BY <1>1, <2>1, PositionNext
  <2>3. At' <= oStarttime => At <= oStarttime
    BY <1>2, <2>1
  <2>4. CASE oStarttime = 0 \/ now + 1 < oStarttime
    <3>1. Position' = 0
      BY <2>2, <2>4 DEF MediaTime
    <3> QED
      BY <1>4, <2>3, <3>1
  <2>5. CASE oStarttime # 0 /\ now + 1 = oStarttime
    <3>1. fCurrent = 0 /\ oPrev = 0
      BY <1>2, <1>3, <2>1, <2>5
    <3>2. Position' = IF fSpeed > 0 THEN 0 + ((((now + 1) - oStarttime) - 0) % Wrap) * fSpeed
                      ELSE (now + 1) - oStarttime
      BY <1>2, <2>2, <2>5, <3>1 DEF MediaTime
    <3>3. (now + 1) - oStarttime = 0 /\ (((now + 1) - oStarttime) - 0) % Wrap = 0 /\ 0 * fSpeed = 0
      BY <1>2, <2>5 DEF Wrap
    <3>4. Position' = 0
      BY <3>2, <3>3
    <3> QED
      BY <1>4, <2>3, <3>4
  <2>6. CASE oStarttime # 0 /\ now >= oStarttime
    <3> DEFINE x == (now - oStarttime) - oPrev
    <3>1. played' = played + Rate
      BY <1>1, <1>6, <2>6 DEF Started
    <3>2. x \in Int /\ ((now + 1) - oStarttime) - oPrev = x + 1 /\ ~ (now < oStarttime) /\ ~ (now + 1 < oStarttime)
      BY <1>2, <2>6
    <3>3. CASE fSpeed > 0
      <4>1. Rate = fSpeed /\ fSpeed \in Nat
        BY <1>2, <3>3 DEF Rate
      <4>2. Position = fCurrent + (x % Wrap) * fSpeed
        BY <2>1, <2>6, <3>2, <3>3, PositionNow DEF MediaTime
      <4>3. Position' = fCurrent + ((x + 1) % Wrap) * fSpeed
        BY <2>2, <2>6, <3>2, <3>3 DEF MediaTime
      <4> HIDE DEF x
      <4>4. /\ (x % Wrap) * fSpeed \in Nat /\ ((x + 1) % Wrap) * fSpeed \in Nat
            /\ ((x + 1) % Wrap) * fSpeed <= (x % Wrap) * fSpeed + fSpeed
        BY <3>2, <4>1, OneTick
      <4> DEFINE u == (x % Wrap) * fSpeed
                 v == ((x + 1) % Wrap) * fSpeed
      <4>5. u \in Nat /\ v \in Nat /\ v <= u + fSpeed /\ Position = fCurrent + u /\ Position' = fCurrent + v
        BY <4>2, <4>3, <4>4
      <4> HIDE DEF u, v
      <4>6. Position' <= played'
        BY <1>2, <1>3, <3>1, <4>1, <4>5
      <4> QED
        BY <1>4, <2>3, <4>6
    <3>4. CASE ~ (fSpeed > 0)
      <4>1. Rate = 1
        BY <3>4 DEF Rate
      <4>2. Position = now - oStarttime /\ Position' = (now + 1) - oStarttime
        BY <2>1, <2>2, <2>6, <3>2, <3>4, PositionNow DEF MediaTime
      <4>3. Position' <= played'
        BY <1>2, <1>3, <3>1, <4>1, <4>2
      <4> QED
        BY <1>4, <2>3, <4>3
    <3> QED
      BY <3>3, <3>4
  <2> QED
    BY <1>2, <2>4, <2>5, <2>6
<1> QED
  BY <1>2, <1>5, <1>6

(* process() takes the time of the stream as it is. *)
LEMMA ProcessInTime ==
  ASSUME TypeOK, InTime, Process
  PROVE  /\ Position' = Position /\ oCurrent' = Position /\ At' = At
         /\ At <= oStarttime => fCurrent' = 0 /\ oPrev' = 0
<1>1. /\ ~bPause /\ oStarttime # 0 /\ now >= oStarttime
      /\ IF fSpeed > 0
           THEN /\ oCurrent' = Scaled(now) /\ fCurrent' = Scaled(now)
                /\ oPrev' = Elapsed(now)
           ELSE oCurrent' = Elapsed(now) /\ UNCHANGED <<fCurrent, oPrev>>
      /\ UNCHANGED <<now, oStarttime, oPause, fSpeed, bPause>>
  BY DEF Process, Started, flagVars
<1>2. /\ now \in Nat \ {0} /\ oPause \in Nat /\ At \in Nat
      /\ oStarttime \in Nat /\ fCurrent \in Nat /\ oPrev \in Nat /\ fSpeed \in Int
  BY Times
<1>3. At = now /\ At' = now
  BY <1>1 DEF At
<1>4. oStarttime = 0 \/ At <= oStarttime => fCurrent = 0 /\ oPrev = 0
  BY DEF InTime
<1>5. ~ (now < oStarttime)
  BY <1>1, <1>2
<1>6. CASE fSpeed > 0
  <2> DEFINE x == (now - oStarttime) - oPrev
             c == fCurrent + (x % Wrap) * fSpeed
  <2>1. oCurrent' = c /\ fCurrent' = c /\ oPrev' = now - oStarttime
    BY <1>1, <1>6 DEF Scaled, Elapsed
  <2>2. Position = c
    BY <1>1, <1>3, <1>5, <1>6, PositionNow DEF MediaTime
  <2>3. Position' = c + (((now - oStarttime) - (now - oStarttime)) % Wrap) * fSpeed
    BY <1>1, <1>3, <1>5, <1>6, <2>1, PositionNext DEF MediaTime
  <2>4. ((now - oStarttime) - (now - oStarttime)) % Wrap = 0 /\ 0 * fSpeed = 0
    BY <1>2 DEF Wrap
  <2>5. x \in Int
    BY <1>2
  <2>a. (x % Wrap) * fSpeed \in Nat
    <3> HIDE DEF x
    <3>1. fSpeed \in Nat
      BY <1>2, <1>6
    <3> QED
      BY <2>5, <3>1, OneTick
  <2>6. c \in Nat
    BY <1>2, <2>a
  <2>7. ASSUME At <= oStarttime PROVE c = 0 /\ now - oStarttime = 0
    <3>1. fCurrent = 0 /\ oPrev = 0 /\ now = oStarttime
      BY <1>1, <1>2, <1>3, <1>4, <2>7
    <3>2. x % Wrap = 0 /\ 0 * fSpeed = 0
      BY <1>2, <3>1 DEF Wrap
    <3> QED
      BY <1>2, <3>1, <3>2
  <2> HIDE DEF c, x
  <2>8. Position' = c
    BY <2>3, <2>4, <2>6
  <2> QED
    BY <1>3, <2>1, <2>2, <2>7, <2>8
<1>7. CASE ~ (fSpeed > 0)
  <2>1. oCurrent' = now - oStarttime /\ UNCHANGED <<fCurrent, oPrev>>
    BY <1>1, <1>7 DEF Elapsed
  <2>2. Position = now - oStarttime /\ Position' = now - oStarttime
    BY <1>1, <1>3, <1>5, <1>7, <2>1, PositionNow, PositionNext DEF MediaTime
  <2> QED
    BY <1>3, <1>4, <2>1, <2>2
<1> QED
  BY <1>6, <1>7

(* The order of the clocks is kept by every step of a steady client. *)
LEMMA InitInTime == Init => InTime
<1> SUFFICES ASSUME Init PROVE InTime
  OBVIOUS
<1>1. /\ now = 1 /\ pc = "idle" /\ ~bSchedule /\ oStarttime = 0 /\ fCurrent = 0 /\ oPrev = 0
      /\ played = 0 /\ out = <<>>
  BY DEF Init, InputInit
<1>2. Position = 0
  BY <1>1 DEF Position
<1>3. NotEarly
  BY <1>1 DEF NotEarly
<1> QED
  BY <1>1, <1>2, <1>3 DEF InTime

(* Each action keeps InTime. *)
LEMMA NextInTime == Steady /\ TypeOK /\ TypeOK' /\ InTime /\ [Next]_vars => InTime'
<1> SUFFICES ASSUME Steady, TypeOK, TypeOK', InTime, [Next]_vars PROVE InTime'
  OBVIOUS
<1> USE DEF clockVars, flagVars, queueVars, histVars
<1>a. /\ ~bSchedule => oStarttime = 0
      /\ oStarttime = 0 \/ At <= oStarttime => fCurrent = 0 /\ oPrev = 0
      /\ Position <= played
      /\ pc # "idle" => oCurrent <= played
      /\ NotEarly
  BY DEF InTime
<1>b. /\ now \in Nat \ {0} /\ oPause \in Nat /\ oPause <= now /\ At \in Nat
      /\ oStarttime \in Nat /\ fCurrent \in Nat /\ oPrev \in Nat /\ played \in Nat /\ oCurrent \in Nat
  BY Times
<1>c. out' = out => NotEarly'
  BY <1>a DEF NotEarly
(* Steps that leave the clock and the commands alone. *)
<1>d. ASSUME UNCHANGED <<now, oStarttime, oPause, fSpeed, fCurrent, oPrev, bPause>>
      PROVE  At' = At /\ Position' = Position
  <2>1. At' = At
    BY <1>d DEF At
  <2> QED
    BY <1>d, <2>1, PositionNow, PositionNext
<1>1. CASE Tick
  <2>1. /\ pc' = pc /\ oCurrent' = oCurrent /\ bSchedule' = bSchedule /\ out' = out
        /\ oStarttime' = oStarttime /\ fCurrent' = fCurrent /\ oPrev' = oPrev
    BY <1>1 DEF Tick
  <2>2. /\ Position' <= played' /\ played' >= played
        /\ At' <= oStarttime => At <= oStarttime
    BY <1>1, TickInTime
  <2>3. played' \in Nat
    BY DEF TypeOK
  <2>4. pc' # "idle" => oCurrent' <= played'
    BY <1>a, <1>b, <2>1, <2>2, <2>3
  <2> QED
    BY <1>a, <1>c, <2>1, <2>2, <2>4 DEF InTime
<1>2. CASE Receive
  <2>1. PICK d \in Dts :
          /\ pc = "idle" /\ bSchedule'
          /\ IF bSchedule THEN UNCHANGED <<oStarttime, oPause>>
                          ELSE oPause' = now /\ oStarttime' = now + Delay
          /\ UNCHANGED <<now, pc, oCurrent, fSpeed, fCurrent, oPrev, bPause, out, played>>
    BY <1>2 DEF Receive, BaseWith
  <2>2. CASE bSchedule
    <3>1. At' = At /\ Position' = Position
      BY <1>d, <2>1, <2>2
    <3> QED
      BY <1>a, <1>c, <2>1, <2>2, <3>1 DEF InTime
  <2>3. CASE ~bSchedule
    <3>1. At' = now /\ oStarttime' = now + Delay
      BY <2>1, <2>3 DEF At
    <3>2. fCurrent' = 0 /\ oPrev' = 0
      BY <1>a, <2>1, <2>3
    <3>3. Position' = 0
      <4>1. Delay \in Nat
        BY SchedulerAssumption
      <4>2. CASE Delay > 0
        BY <1>b, <3>1, <4>1, <4>2, PositionNext DEF MediaTime
      <4>3. CASE Delay = 0
        <5>1. Position' = IF fSpeed' > 0 THEN 0 + (((now - now) - 0) % Wrap) * fSpeed' ELSE now - now
          BY <1>b, <3>1, <3>2, <4>3, PositionNext DEF MediaTime
        <5>2. fSpeed' \in Int
          BY <2>1, SpeedNumbers
        <5>3. now - now = 0 /\ ((now - now) - 0) % Wrap = 0
          BY <1>b DEF Wrap
        <5>a. \A z \in Int : 0 * z = 0
          OBVIOUS
        <5>4. 0 * fSpeed' = 0
          BY ONLY <5>2, <5>a, Zenon
        <5> QED
          BY <5>1, <5>3, <5>4
      <4> QED
        BY <4>1, <4>2, <4>3
    <3>4. Position' <= played'
      BY <1>b, <2>1, <3>3
    <3> QED
      BY <1>a, <1>c, <2>1, <3>2, <3>4 DEF InTime
  <2> QED
    BY <2>2, <2>3
<1>3. CASE Process
  <2>1. /\ Position' = Position /\ oCurrent' = Position /\ At' = At
        /\ At <= oStarttime => fCurrent' = 0 /\ oPrev' = 0
    BY <1>3, ProcessInTime
  <2>2. oStarttime # 0 /\ bSchedule /\ UNCHANGED <<oStarttime, bSchedule, out, played>>
    BY <1>3 DEF Process, Started
  <2> QED
    BY <1>a, <1>c, <2>1, <2>2 DEF InTime
<1>4. CASE MakeSchedule \/ Routed \/ Return
  <2>1. UNCHANGED <<now, oStarttime, oPause, fSpeed, fCurrent, oPrev, bPause, bSchedule, out, played>>
    BY <1>4 DEF MakeSchedule, Routed, Return
  <2>2. pc # "idle" /\ (pc' = "idle" \/ oCurrent' = oCurrent)
    BY <1>4 DEF MakeSchedule, Routed, Return
  <2>3. At' = At /\ Position' = Position
    BY <1>d, <2>1
  <2> QED
    BY <1>a, <1>c, <2>1, <2>2, <2>3 DEF InTime
<1>5. CASE Send
  <2> DEFINE x == [id |-> Head(vSend).id, due |-> Head(vSend).oSend, played |-> played]
  <2>1. /\ vSend # <<>> /\ out' = Append(out, x) /\ oCurrent >= Head(vSend).oSend /\ pc = "loop"
        /\ UNCHANGED <<now, oStarttime, oPause, fSpeed, fCurrent, oPrev, bPause, bSchedule, played, oCurrent>>
    BY <1>5 DEF Send
  <2>2. At' = At /\ Position' = Position
    BY <1>d, <2>1
  <2>3. Head(vSend) \in Planned /\ out \in Seq(Routable)
    BY <2>1, HeadTailProperties DEF TypeOK, Planned, Routable
  <2>4. x \in Routable /\ x.due <= x.played
    BY <1>a, <1>b, <2>1, <2>3 DEF Planned, Routable
  <2> HIDE DEF x
  <2>5. NotEarly'
    <3> SUFFICES ASSUME NEW i \in DOMAIN out' PROVE out'[i].due <= out'[i].played
      BY DEF NotEarly
    <3>1. i \in 1..Len(out) + 1 /\ DOMAIN out = 1..Len(out) /\ Len(out) \in Nat
      BY <2>1, <2>3, <2>4
    <3>2. CASE i = Len(out) + 1
      BY <2>1, <2>3, <2>4, <3>2
    <3>3. CASE i \in DOMAIN out
      <4>1. out'[i] = out[i]
        BY <2>1, <2>3, <2>4, <3>1, <3>3
      <4> QED
        BY <1>a, <3>3, <4>1 DEF NotEarly
    <3> QED
      BY <3>1, <3>2, <3>3
  <2> QED
    BY <1>a, <2>1, <2>2, <2>5 DEF InTime
<1>6. CASE Pause
  <2>1. At' = At /\ Position' = Position
    BY <1>6, PauseKeeps
  <2>2. UNCHANGED <<pc, oCurrent, oStarttime, fCurrent, oPrev, bSchedule, out, played>>
    BY <1>6 DEF Pause
  <2> QED
    BY <1>a, <1>c, <2>1, <2>2 DEF InTime
<1>7. CASE Play
  <2>1. /\ Position' = Position
        /\ oStarttime = 0 => oStarttime' = 0
        /\ oStarttime' = 0 \/ At' <= oStarttime' => fCurrent' = 0 /\ oPrev' = 0
    BY <1>7, PlayKeeps
  <2>2. UNCHANGED <<pc, oCurrent, bSchedule, out, played>>
    BY <1>7 DEF Play
  <2> QED
    BY <1>a, <1>c, <2>1, <2>2 DEF InTime
<1>8. CASE Flush
  <2>1. /\ pc' = "idle" /\ out' = out /\ oStarttime' = 0 /\ fCurrent' = 0 /\ oPrev' = 0 /\ played' = 0
    BY <1>8 DEF Flush
  <2>2. Position' = 0
    BY <2>1, PositionNext DEF MediaTime
  <2> QED
    BY <1>c, <2>1, <2>2 DEF InTime
<1>9. CASE UNCHANGED vars
  <2>1. /\ UNCHANGED <<now, oStarttime, oPause, fSpeed, fCurrent, oPrev, bPause>>
        /\ UNCHANGED <<pc, oCurrent, bSchedule, out, played>>
    BY <1>9 DEF vars
  <2>2. At' = At /\ Position' = Position
    BY <1>d, <2>1
  <2> QED
    BY <1>a, <1>c, <2>1, <2>2 DEF InTime
<1> QED
  BY <1>1, <1>2, <1>3, <1>4, <1>5, <1>6, <1>7, <1>8, <1>9 DEF Next

(* For a steady client no packet is routed before the viewer has seen its   *)
(* media time pass, whatever the delay, the speed and the pauses.           *)
THEOREM NoneEarly ==
  ASSUME Steady
  PROVE  Spec => []NotEarly
<1>1. Init => TypeOK /\ InTime
  BY InitType, InitInTime
<1>2. TypeOK /\ InTime /\ [Next]_vars => (TypeOK /\ InTime)'
  BY NextType, NextInTime
<1>3. InTime => NotEarly
  BY DEF InTime
<1> QED
  BY <1>1, <1>2, <1>3, PTL DEF Spec

(* Its commands do not move the stream: pausing, resuming after however     *)
(* long, and changing to the other speed leave the media time where it is.  *)
THEOREM CommandsKeep ==
  ASSUME Steady
  PROVE  Spec => CommandsKeepPosition
<1>1. Init => TypeOK /\ InTime
  BY InitType, InitInTime
<1>2. TypeOK /\ InTime /\ [Next]_vars => (TypeOK /\ InTime)'
  BY NextType, NextInTime
<1>3. TypeOK /\ InTime /\ [Next]_vars => [(Pause \/ Play) => Position' = Position]_vars
  BY PauseKeeps, PlayKeeps
<1> QED
  BY <1>1, <1>2, <1>3, PTL DEF Spec, CommandsKeepPosition

-----------------------------------------------------------------------------
(* The plans of SmoothedStream. First the arithmetic: quotients, times      *)
(* rounded down to milliseconds, and the sums of the bytes of a group.      *)

(* A quotient of natural numbers. *)
LEMMA Quotient ==
  ASSUME NEW x \in Nat, NEW t \in Nat \ {0}
  PROVE  /\ x \div t \in Nat
         /\ (x \div t) * t <= x /\ x < ((x \div t) + 1) * t
  OBVIOUS

(* The larger factor has the larger product. *)
LEMMA Factors ==
  ASSUME NEW a \in Nat, NEW b \in Nat, NEW c \in Nat, a <= b
  PROVE  a * c \in Nat /\ b * c \in Nat /\ a * c <= b * c
  OBVIOUS

(* q is not above the quotient when q times t is not above x. *)
LEMMA QuotientAbove ==
  ASSUME NEW x \in Nat, NEW t \in Nat \ {0}, NEW q \in Nat, q * t <= x
  PROVE  q <= x \div t
<1> DEFINE p == x \div t
<1>1. p \in Nat /\ x < (p + 1) * t
  BY Quotient
<1> HIDE DEF p
<1>2. CASE p < q
  <2>1. (p + 1) * t <= q * t
    BY <1>1, <1>2, Factors
  <2>2. q * t \in Int /\ (p + 1) * t \in Int
    BY <1>1
  <2> QED
    BY <1>1, <2>1, <2>2
<1>3. CASE ~ (p < q)
  BY <1>1, <1>3
<1> QED
  BY <1>2, <1>3 DEF p

(* Nor is the quotient above q when x is not above q times t. *)
LEMMA QuotientBelow ==
  ASSUME NEW x \in Nat, NEW t \in Nat \ {0}, NEW q \in Nat, x <= q * t
  PROVE  x \div t <= q
<1> DEFINE p == x \div t
<1>1. p \in Nat /\ p * t <= x
  BY Quotient
<1> HIDE DEF p
<1>2. CASE q < p
  <2>1. (q + 1) * t <= p * t
    BY <1>1, <1>2, Factors
  <2>2. (q + 1) * t = q * t + t
    OBVIOUS
  <2>3. q * t \in Int /\ p * t \in Int
    BY <1>1
  <2> QED
    BY <1>1, <2>1, <2>2, <2>3
<1>3. CASE ~ (q < p)
  BY <1>1, <1>3
<1> QED
  BY <1>2, <1>3 DEF p

(* The quotient of a larger number is not smaller. *)
LEMMA QuotientRises ==
  ASSUME NEW x \in Nat, NEW y \in Nat, NEW t \in Nat \ {0}, x <= y
  PROVE  x \div t <= y \div t
<1> DEFINE q == x \div t
<1>1. q \in Nat /\ q * t <= x
  BY Quotient
<1> HIDE DEF q
<1>2. q * t <= y
  BY <1>1
<1>3. q <= y \div t
  BY <1>1, <1>2, QuotientAbove
<1> QED
  BY <1>3 DEF q

(* Times rounded down to milliseconds: they rise, and rounding the parts of *)
(* a duration one by one does not gain anything.                            *)
LEMMA FloorRises ==
  ASSUME NEW x \in Nat, NEW y \in Nat
  PROVE  /\ Floor(x) \in Nat /\ Floor(x) <= x
         /\ x <= y => Floor(x) <= Floor(y)
         /\ Floor(x) + Floor(y) <= Floor(x + y)
         /\ x < Ms => Floor(x) = 0
<1> DEFINE a == x \div Ms  b == y \div Ms
<1>0. Ms \in Nat \ {0}
  BY PlanAssumption
<1>1. a \in Nat /\ a * Ms <= x /\ b \in Nat /\ b * Ms <= y
  BY <1>0, Quotient
<1>2. a * Ms \in Nat /\ b * Ms \in Nat
  BY <1>0, <1>1, Factors
<1>3. x <= y => a <= b
  BY <1>0, QuotientRises
<1>4. x < Ms => a <= 0
  BY <1>0, QuotientBelow
<1>5. (a + b) * Ms = a * Ms + b * Ms /\ 0 * Ms = 0
  BY <1>0, <1>1
<1>6. (a + b) <= (x + y) \div Ms
  BY <1>0, <1>1, <1>2, <1>5, QuotientAbove
<1>7. (x + y) \div Ms \in Nat
  BY <1>0, Quotient
<1>8. (a + b) * Ms <= ((x + y) \div Ms) * Ms
  BY <1>0, <1>1, <1>6, <1>7, Factors
<1>9. x <= y => a * Ms <= b * Ms
  BY <1>0, <1>1, <1>3, Factors
<1>10. Floor(x) = a * Ms /\ Floor(y) = b * Ms /\ Floor(x + y) = ((x + y) \div Ms) * Ms
  BY DEF Floor
<1> HIDE DEF a, b
<1>11. x < Ms => a * Ms = 0
  BY <1>1, <1>4, <1>5
<1> QED
  BY <1>1, <1>2, <1>5, <1>8, <1>9, <1>10, <1>11

(* The sums of the bytes exist: every initial part of them does.            *)
LEMMA SumsExist ==
  ASSUME NEW g, NEW n \in Nat
  PROVE  \E f : f = [i \in 0..n |-> IF i = 0 THEN 0 ELSE f[i - 1] + g[i].size]
<1> DEFINE Sums(m) == \E f : f = [i \in 0..m |-> IF i = 0 THEN 0 ELSE f[i - 1] + g[i].size]
           Missing == {m \in 0..n : ~ Sums(m)}
<1>1. SUFFICES ASSUME ~ Sums(n) PROVE FALSE
  OBVIOUS
<1>2. Missing \in SUBSET Nat /\ Missing # {}
  BY <1>1
<1>3. PICK m \in Missing : \A k \in Missing : m <= k
  BY <1>2, LeastNat
<1>4. m # 0
  <2> DEFINE f == [i \in 0..0 |-> 0]
  <2>1. f = [i \in 0..0 |-> IF i = 0 THEN 0 ELSE f[i - 1] + g[i].size]
    OBVIOUS
  <2>2. Sums(0)
    BY <2>1
  <2> QED
    BY <1>3, <2>2
<1>5. Sums(m - 1)
  <2>1. m - 1 \in 0..n /\ ~ (m <= m - 1)
    BY <1>3, <1>4
  <2>2. m - 1 \notin Missing
    BY <1>3, <2>1
  <2> QED
    BY <2>1, <2>2
<1>6. PICK f : f = [i \in 0..m - 1 |-> IF i = 0 THEN 0 ELSE f[i - 1] + g[i].size]
  BY <1>5
<1> DEFINE h == [i \in 0..m |-> IF i = m THEN f[m - 1] + g[m].size ELSE f[i]]
<1>7. ASSUME NEW i \in 0..m
      PROVE  h[i] = IF i = 0 THEN 0 ELSE h[i - 1] + g[i].size
  <2>1. CASE i = m
    <3>1. h[i] = f[m - 1] + g[m].size /\ h[m - 1] = f[m - 1]
      BY <1>4, <2>1
    <3> QED
      BY <1>4, <2>1, <3>1
  <2>2. CASE i # m
    <3>1. i \in 0..m - 1 /\ h[i] = f[i] /\ (i # 0 => h[i - 1] = f[i - 1])
      BY <2>2
    <3>2. f[i] = IF i = 0 THEN 0 ELSE f[i - 1] + g[i].size
      BY <1>6, <3>1
    <3> QED
      BY <3>1, <3>2
  <2> QED
    BY <2>1, <2>2
<1>8. h = [i \in 0..m |-> IF i = 0 THEN 0 ELSE h[i - 1] + g[i].size]
  BY <1>7
<1>9. Sums(m)
  BY <1>8
<1> QED
  BY <1>3, <1>9

(* Bytes(g, k) is what the loop of makeSchedule() sums up. *)
LEMMA BytesStep ==
  ASSUME NEW g, Len(g) \in Nat
  PROVE  /\ Bytes(g, 0) = 0
         /\ \A k \in 1..Len(g) : Bytes(g, k) = Bytes(g, k - 1) + g[k].size
<1> DEFINE sum == CHOOSE f : f = [i \in 0..Len(g) |-> IF i = 0 THEN 0 ELSE f[i - 1] + g[i].size]
<1>1. sum = [i \in 0..Len(g) |-> IF i = 0 THEN 0 ELSE sum[i - 1] + g[i].size]
  BY SumsExist
<1>2. \A k : Bytes(g, k) = sum[k]
  BY DEF Bytes
<1> HIDE DEF sum
<1>3. sum[0] = 0
  BY <1>1
<1>4. \A k \in 1..Len(g) : sum[k] = sum[k - 1] + g[k].size
  BY <1>1
<1> QED
  BY <1>2, <1>3, <1>4

(* The sums are numbers, and rise. *)
LEMMA BytesRise ==
  ASSUME NEW g, Len(g) \in Nat, \A i \in 1..Len(g) : g[i].size \in Nat
  PROVE  \A k \in 0..Len(g) : Bytes(g, k) \in Nat /\ \A j \in 0..k : Bytes(g, j) <= Bytes(g, k)
<1> DEFINE Rises(k) == Bytes(g, k) \in Nat /\ \A j \in 0..k : Bytes(g, j) <= Bytes(g, k)
           Bad == {k \in 0..Len(g) : ~ Rises(k)}
<1>1. SUFFICES ASSUME Bad # {} PROVE FALSE
  OBVIOUS
<1>0. Bad \in SUBSET Nat
  OBVIOUS
<1>2. PICK k \in Bad : \A m \in Bad : k <= m
  BY <1>0, <1>1, LeastNat
<1>3. k # 0
  <2>1. Rises(0)
    BY BytesStep
  <2> QED
    BY <1>2, <2>1
<1>4. k - 1 \in 0..Len(g) /\ k \in 1..Len(g) /\ k \in Nat
  BY <1>2, <1>3
<1>5. k - 1 \notin Bad
  BY <1>2, <1>4
<1>6. Rises(k - 1)
  BY <1>4, <1>5
<1>7. Bytes(g, k) = Bytes(g, k - 1) + g[k].size /\ g[k].size \in Nat
  BY <1>4, BytesStep
<1>8. Rises(k)
  <2>1. Bytes(g, k) \in Nat /\ Bytes(g, k - 1) <= Bytes(g, k) /\ Bytes(g, k - 1) \in Nat
    BY <1>6, <1>7
  <2>2. ASSUME NEW j \in 0..k PROVE Bytes(g, j) <= Bytes(g, k)
    <3>1. CASE j = k
      BY <2>1, <3>1
    <3>2. CASE j # k
      <4>1. j \in 0..k - 1
        BY <1>4, <3>2
      <4>2. Bytes(g, j) <= Bytes(g, k - 1)
        BY <1>6, <4>1
      <4>3. k - j \in Nat /\ j \in 0..Len(g)
        BY <1>4
      <4>4. Bytes(g, j) \in Nat
        BY <1>2, <1>4, <4>1, <4>3
      <4> QED
        BY <2>1, <4>2, <4>4
    <3> QED
      BY <3>1, <3>2
  <2> QED
    BY <2>1, <2>2
<1> QED
  BY <1>2, <1>8

-----------------------------------------------------------------------------
(* The packets of a stream: those of a frame arrive together, and the dts   *)
(* of a frame is the end of the frame before it.                            *)
StreamPacket ==
  [dts : Nat, inc : Incs, frame : Nat, intra : BOOLEAN, layer0 : BOOLEAN, size : Sizes]
SameFrame(p, q) ==
  /\ q.dts = p.dts /\ q.inc = p.inc /\ q.frame = p.frame
  /\ q.intra = p.intra /\ q.layer0 = p.layer0
NextFrame(p, q) == q.dts = p.dts + p.inc /\ q.frame > p.frame
InFrames(b) == \A i \in 1..Len(b) - 1 : SameFrame(b[i], b[i + 1]) \/ NextFrame(b[i], b[i + 1])

(* The parts of the packets. *)
LEMMA StreamPackets ==
  ASSUME NEW b \in Seq(StreamPacket), b # <<>>
  PROVE  /\ Len(b) \in Nat \ {0} /\ DOMAIN b = 1..Len(b)
         /\ \A i \in 1..Len(b) : b[i] \in StreamPacket
         /\ \A i \in 1..Len(b) :
              /\ b[i].dts \in Nat /\ b[i].inc \in Incs /\ b[i].inc \in Nat
              /\ b[i].frame \in Nat /\ b[i].size \in Sizes /\ b[i].size \in Nat
<1>1. Len(b) \in Nat \ {0} /\ DOMAIN b = 1..Len(b)
  BY EmptySeq, LenProperties
<1>2. \A i \in 1..Len(b) : b[i] \in StreamPacket
  BY ElementOfSeq
<1>3. \A p \in StreamPacket : /\ p.dts \in Nat /\ p.inc \in Incs /\ p.inc \in Nat
                               /\ p.frame \in Nat /\ p.size \in Sizes /\ p.size \in Nat
  BY StreamAssumption DEF StreamPacket
<1> QED
  BY <1>1, <1>2, <1>3

(* Their decoding times rise. *)
LEMMA DtsRise ==
  ASSUME NEW b \in Seq(StreamPacket), b # <<>>, InFrames(b)
  PROVE  \A i \in 1..Len(b) : b[1].dts <= b[i].dts
<1> DEFINE Bad == {i \in 1..Len(b) : ~ (b[1].dts <= b[i].dts)}
<1>1. SUFFICES ASSUME Bad # {} PROVE FALSE
  OBVIOUS
<1>2. Len(b) \in Nat /\ \A i \in 1..Len(b) : b[i].dts \in Nat /\ b[i].inc \in Nat
  BY StreamPackets
<1>3. Bad \in SUBSET Nat
  OBVIOUS
<1>4. PICK i \in Bad : \A m \in Bad : i <= m
  BY <1>1, <1>3, LeastNat
<1>5. i # 1 /\ i \in 1..Len(b)
  BY <1>2, <1>4
<1>6. i - 1 \in 1..Len(b) /\ i - 1 \in 1..Len(b) - 1 /\ (i - 1) + 1 = i
  BY <1>2, <1>5
<1>7. b[1].dts <= b[i - 1].dts
  BY <1>4, <1>6
<1>8. b[i].dts = b[i - 1].dts \/ b[i].dts = b[i - 1].dts + b[i - 1].inc
  BY <1>6 DEF InFrames, SameFrame, NextFrame
<1>9. b[i].dts \in Nat /\ b[i - 1].dts \in Nat /\ b[i - 1].inc \in Nat
  BY <1>2, <1>5, <1>6
<1>10. b[1].dts \in Nat
  BY <1>2, <1>5
<1>11. b[1].dts <= b[i].dts
  <2>1. \A x, y, z, d \in Nat : x <= y /\ (z = y \/ z = y + d) => x <= z
    OBVIOUS
  <2> QED
    BY <1>7, <1>8, <1>9, <1>10, <2>1
<1> QED
  BY <1>4, <1>11

(* The group is an initial part of the buffer. *)
LEMMA GroupIsFront ==
  ASSUME NEW b \in Seq(StreamPacket), b # <<>>, NEW v
  PROVE  /\ GroupLength(v, b) \in 1..Len(b)
         /\ \A i \in 2..GroupLength(v, b) : Continues(v, b, i)
         /\ GroupLength(v, b) < Len(b) => ~ Continues(v, b, GroupLength(v, b) + 1)
         /\ Group(v, b) \in Seq(StreamPacket) /\ Len(Group(v, b)) = GroupLength(v, b)
         /\ \A i \in 1..GroupLength(v, b) : Group(v, b)[i] = b[i]
<1> DEFINE Fronts == {k \in 1..Len(b) : \A i \in 2..k : Continues(v, b, i)}
           n == GroupLength(v, b)
<1>1. Len(b) \in Nat \ {0}
  BY StreamPackets
<1>2. 1 \in Fronts
  BY <1>1
<1>3. Fronts \in SUBSET (0..Len(b)) /\ Fronts # {}
  BY <1>2
<1>4. Max(Fronts) \in Fronts /\ \A k \in Fronts : Max(Fronts) >= k
  BY <1>1, <1>3, MaxExists
<1>5. n = Max(Fronts)
  BY DEF GroupLength
<1>6. n \in 1..Len(b) /\ \A i \in 2..n : Continues(v, b, i)
  BY <1>4, <1>5
<1>7. ASSUME n < Len(b), Continues(v, b, n + 1) PROVE FALSE
  <2>1. n + 1 \in 1..Len(b)
    BY <1>1, <1>6, <1>7
  <2>2. \A i \in 2..n + 1 : i \in 2..n \/ i = n + 1
    BY <1>6
  <2>3. n + 1 \in Fronts
    BY <1>6, <1>7, <2>1, <2>2
  <2> QED
    BY <1>4, <1>5, <1>6, <2>3
<1> HIDE DEF n
<1>8. /\ SubSeq(b, 1, n) \in Seq(StreamPacket) /\ Len(SubSeq(b, 1, n)) = n
      /\ \A i \in 1..n : SubSeq(b, 1, n)[i] = b[i]
  <2>1. \A i \in 1..n : b[i] \in StreamPacket
    BY <1>1, <1>6, ElementOfSeq
  <2>2. n \in Nat /\ n - 1 + 1 = n
    BY <1>6
  <2> QED
    BY <1>1, <1>6, <2>1, <2>2, SubSeqProperties
<1> QED
  BY <1>6, <1>7, <1>8 DEF n, Group

(* A group ends where a frame ends. *)
LEMMA GroupEndsFrame ==
  ASSUME NEW b \in Seq(StreamPacket), b # <<>>, InFrames(b), NEW v \in Variants,
         GroupLength(v, b) < Len(b)
  PROVE  NextFrame(b[GroupLength(v, b)], b[GroupLength(v, b) + 1])
<1> DEFINE n == GroupLength(v, b)
<1>1. /\ Len(b) \in Nat /\ n \in 1..Len(b) - 1
      /\ ~ Continues(v, b, n + 1) /\ \A i \in 2..n : Continues(v, b, i)
  BY GroupIsFront, StreamPackets
<1>2. \A i \in 1..Len(b) : b[i].dts \in Nat /\ b[i].frame \in Nat
  BY StreamPackets
<1> HIDE DEF n
<1>3. ASSUME SameFrame(b[n], b[n + 1]) PROVE FALSE
  <2>1. n = 1 \/ Continues(v, b, n)
    BY <1>1
  <2>2. (n + 1) - 1 = n /\ n \in 1..Len(b) /\ 1 \in 1..Len(b)
    BY <1>1
  <2>3. Window > 0 /\ b[1].dts - b[1].dts = 0
    BY <1>2, <2>2, PlanAssumption
  <2>4. v \in {"basic", "frame", "gop", "svc", "window"}
    BY DEF Variants
  <2>5. CASE v = "basic"
    BY <1>1, <1>3, <2>1, <2>5 DEF Continues, SameFrame
  <2>6. CASE v = "frame"
    BY <1>1, <1>3, <2>1, <2>6 DEF Continues, SameFrame
  <2>7. CASE v = "gop"
    BY <1>1, <1>3, <2>1, <2>7 DEF Continues, SameFrame
  <2>8. CASE v = "svc"
    <3>1. b[n + 1].frame <= b[n].frame
      BY <1>2, <1>3, <2>2 DEF SameFrame
    <3> QED
      BY <1>1, <2>2, <2>8, <3>1 DEF Continues
  <2>9. CASE v = "window"
    BY <1>1, <1>3, <2>1, <2>3, <2>9 DEF Continues, SameFrame
  <2> QED
    BY <2>4, <2>5, <2>6, <2>7, <2>8, <2>9
<1> QED
  BY <1>1, <1>3 DEF InFrames, n

(* The bytes of a part of a group are spread over the group's duration, and *)
(* the time of a packet is inside what of it is left after the rounding.    *)
Spread(v, g) ==
  CASE v = "basic"  -> 0
    [] v = "frame"  -> g[Len(g)].inc
    [] v \in {"gop", "svc", "window"} -> Floor(g[Len(g)].dts + g[Len(g)].inc - g[1].dts)

(* The larger of a millisecond and another time. *)
LEMMA MaxOfTwo ==
  ASSUME NEW x \in Nat
  PROVE  Max({Ms, x}) = IF x >= Ms THEN x ELSE Ms
<1>1. Ms \in Nat
  BY PlanAssumption
<1>2. PICK N \in Nat : Ms <= N /\ x <= N
  <2>1. Ms + x \in Nat /\ Ms <= Ms + x /\ x <= Ms + x
    BY <1>1
  <2> QED
    BY <2>1
<1>3. {Ms, x} \in SUBSET (0..N) /\ {Ms, x} # {}
  BY <1>1, <1>2
<1>4. Max({Ms, x}) \in {Ms, x} /\ Max({Ms, x}) >= Ms /\ Max({Ms, x}) >= x
  BY <1>3, MaxExists
<1> QED
  BY <1>1, <1>4

(* The share of the first packet is nothing; the shares rise and stay in    *)
(* the duration. Only a millisecond's worth of gop and svc may be wider     *)
(* than the group, and then every share is rounded down to nothing.         *)
LEMMA Shares ==
  ASSUME NEW g \in Seq(StreamPacket), g # <<>>, g[1].dts <= g[Len(g)].dts, NEW v \in Variants
  PROVE  /\ Share(v, g, 1) = 0 /\ Spread(v, g) \in Nat
         /\ \A k \in 1..Len(g) : Share(v, g, k) \in Nat /\ Share(v, g, k) <= Spread(v, g)
         /\ \A k \in 2..Len(g) : Share(v, g, k - 1) <= Share(v, g, k)
<1> DEFINE n == Len(g)  T == Total(g)  S == Span(v, g)
           whole == g[n].dts + g[n].inc - g[1].dts
           q(k) == (S * Bytes(g, k - 1)) \div T
<1>0. v \in {"basic", "frame", "gop", "svc", "window"}
  BY DEF Variants
<1>1. /\ n \in Nat \ {0} /\ 1 \in 1..n /\ n \in 1..n
      /\ \A i \in 1..n : /\ g[i].dts \in Nat /\ g[i].inc \in Incs /\ g[i].inc \in Nat
                          /\ g[i].size \in Sizes /\ g[i].size \in Nat
  BY StreamPackets
<1>2. g[n].dts \in Nat /\ g[n].inc \in Nat /\ g[1].dts \in Nat /\ g[n].inc \in Incs
  BY <1>1
<1>3. whole \in Nat /\ g[n].inc <= whole
  <2>1. g[1].dts <= g[n].dts
    OBVIOUS
  <2>2. \A x, y, d \in Nat : x <= y => y + d - x \in Nat /\ d <= y + d - x
    OBVIOUS
  <2> QED
    BY <1>2, <2>1, <2>2
<1>4. Floor(whole) \in Nat /\ Floor(whole) <= whole
  BY <1>3, FloorRises
<1>5. /\ Bytes(g, 0) = 0
      /\ \A k \in 1..n : Bytes(g, k) = Bytes(g, k - 1) + g[k].size
      /\ \A k \in 0..n : Bytes(g, k) \in Nat /\ \A j \in 0..k : Bytes(g, j) <= Bytes(g, k)
  BY <1>1, BytesStep, BytesRise
<1>6. n \in 0..n /\ \A k \in 1..n : k - 1 \in 0..n
  BY <1>1
<1>7. /\ T \in Nat \ {0} /\ \A k \in 0..n : Bytes(g, k) <= T
      /\ Bytes(g, n) # 0 => T = Bytes(g, n)
  <2>1. Bytes(g, n) \in Nat /\ \A k \in 0..n : Bytes(g, k) <= Bytes(g, n) /\ Bytes(g, k) \in Nat
    BY <1>5, <1>6
  <2>2. T = IF Bytes(g, n) = 0 THEN 1 ELSE Bytes(g, n)
    BY DEF Total
  <2> QED
    BY <2>1, <2>2
<1>8. Max({Ms, Floor(whole)}) = IF Floor(whole) >= Ms THEN Floor(whole) ELSE Ms
  BY <1>4, MaxOfTwo
<1>9. /\ v = "basic" => S = 0 /\ Spread(v, g) = 0
      /\ v = "frame" => S = g[n].inc /\ Spread(v, g) = g[n].inc
      /\ v = "window" => S = Floor(whole) /\ Spread(v, g) = Floor(whole)
      /\ v \in {"gop", "svc"} => /\ S = IF Floor(whole) >= Ms THEN Floor(whole) ELSE Ms
                                 /\ Spread(v, g) = Floor(whole)
  BY <1>8 DEF Span, Spread, Last
<1>10. S \in Nat /\ Spread(v, g) \in Nat
  BY <1>0, <1>2, <1>4, <1>9, PlanAssumption
<1> HIDE DEF T, S, whole
<1>11. \A k \in 1..n : Share(v, g, k) = IF v \in {"gop", "svc"} THEN Floor(q(k)) ELSE q(k)
  BY DEF Share, T, S
<1>12. ASSUME NEW k \in 1..n PROVE q(k) \in Nat /\ q(k) <= S
  <2>1. Bytes(g, k - 1) \in Nat /\ Bytes(g, k - 1) <= T
    BY <1>5, <1>6, <1>7
  <2>2. Bytes(g, k - 1) * S <= T * S /\ Bytes(g, k - 1) * S \in Nat
    BY <1>7, <1>10, <2>1, Factors
  <2>3. S * Bytes(g, k - 1) = Bytes(g, k - 1) * S /\ T * S = S * T
    BY <1>7, <1>10, <2>1
  <2> QED
    BY <1>7, <1>10, <2>2, <2>3, Quotient, QuotientBelow
<1>13. ASSUME NEW k \in 2..n PROVE q(k - 1) <= q(k)
  <2>1. k - 1 \in 1..n /\ k \in 1..n /\ k - 1 \in 0..n
    BY <1>1
  <2>2. k - 1 - 1 \in 0..k - 1 /\ k - 1 - 1 \in 0..n
    BY <1>1, <2>1
  <2>3. Bytes(g, k - 1 - 1) <= Bytes(g, k - 1) /\ Bytes(g, k - 1 - 1) \in Nat /\ Bytes(g, k - 1) \in Nat
    BY <1>5, <2>1, <2>2
  <2>4. /\ Bytes(g, k - 1 - 1) * S <= Bytes(g, k - 1) * S
        /\ Bytes(g, k - 1 - 1) * S \in Nat /\ Bytes(g, k - 1) * S \in Nat
    BY <1>10, <2>3, Factors
  <2>5. /\ S * Bytes(g, k - 1) = Bytes(g, k - 1) * S
        /\ S * Bytes(g, k - 1 - 1) = Bytes(g, k - 1 - 1) * S
    BY <1>10, <2>3
  <2> QED
    BY <1>7, <2>4, <2>5, QuotientRises
<1>14. q(1) = 0
  <2>1. S * Bytes(g, 1 - 1) = 0
    BY <1>5, <1>10
  <2>2. 0 \div T <= 0 /\ 0 \div T \in Nat
    BY <1>7, Quotient, QuotientBelow
  <2> QED
    BY <2>1, <2>2
<1>15. ASSUME v \in {"gop", "svc"}, Floor(whole) < Ms, NEW k \in 1..n
       PROVE  Floor(q(k)) = 0
  <2>1. S = Ms /\ Ms \in Nat \ {0}
    BY <1>4, <1>9, <1>15, PlanAssumption
  <2>2. whole < Ms
    <3>1. CASE Ms <= whole
      <4>1. Floor(Ms) <= Floor(whole) /\ Floor(Ms) \in Nat
        BY <1>3, <2>1, <3>1, FloorRises
      <4>2. Floor(Ms) >= Ms
        <5>1. 1 * Ms <= Ms
          BY <2>1
        <5>2. 1 <= Ms \div Ms /\ Ms \div Ms \in Nat
          BY <2>1, <5>1, QuotientAbove, Quotient
        <5>3. 1 * Ms <= (Ms \div Ms) * Ms /\ 1 * Ms = Ms
          BY <2>1, <5>2, Factors
        <5> QED
          BY <5>3 DEF Floor
      <4> QED
        BY <1>4, <1>15, <2>1, <4>1, <4>2
    <3> QED
      BY <1>3, <2>1, <3>1
  <2>3. 0 \notin Sizes
    BY <1>2, <1>3, <2>1, <2>2, StreamAssumption
  <2>4. g[k].size \in Nat \ {0}
    BY <1>1, <2>3
  <2>5. Bytes(g, k - 1) \in Nat /\ Bytes(g, k - 1) < T
    <3>1. k \in 0..n /\ k - 1 \in 0..n /\ Bytes(g, k) \in Nat /\ Bytes(g, k - 1) \in Nat
      BY <1>1, <1>5
    <3>2. Bytes(g, k - 1) < Bytes(g, k) /\ Bytes(g, k) <= T
      BY <1>5, <1>7, <2>4, <3>1
    <3> QED
      BY <1>7, <3>1, <3>2
  <2>6. q(k) < Ms
    <3>1. q(k) * T <= Ms * Bytes(g, k - 1)
      <4>1. S * Bytes(g, k - 1) \in Nat
        BY <1>10, <2>5, Factors
      <4> QED
        BY <1>7, <2>1, <4>1, Quotient
    <3>2. CASE Ms <= q(k)
      <4>1. Ms * T <= q(k) * T /\ Ms * T \in Nat /\ q(k) * T \in Nat
        BY <1>7, <1>12, <2>1, <3>2, Factors
      <4>2. (Bytes(g, k - 1) + 1) * Ms <= T * Ms
        BY <1>7, <2>1, <2>5, Factors
      <4>3. /\ (Bytes(g, k - 1) + 1) * Ms = Ms * Bytes(g, k - 1) + Ms /\ T * Ms = Ms * T
            /\ Ms * Bytes(g, k - 1) \in Nat
        BY <1>7, <2>1, <2>5
      <4> QED
        BY <2>1, <3>1, <4>1, <4>2, <4>3
    <3> QED
      BY <1>12, <2>1, <3>2
  <2> QED
    BY <1>12, <2>6, FloorRises
<1> HIDE DEF q
<1>16. ASSUME NEW k \in 1..n PROVE Share(v, g, k) \in Nat /\ Share(v, g, k) <= Spread(v, g)
  <2>1. Floor(q(k)) \in Nat /\ Floor(q(k)) <= q(k) /\ q(k) \in Nat /\ q(k) <= S
    BY <1>12, FloorRises
  <2>2. CASE v \in {"gop", "svc"}
    <3>1. CASE Floor(whole) < Ms
      BY <1>4, <1>9, <1>11, <1>15, <2>2, <3>1
    <3>2. CASE ~ (Floor(whole) < Ms)
      <4>1. S = Floor(whole) /\ Spread(v, g) = Floor(whole)
        BY <1>4, <1>9, <2>2, <3>2, PlanAssumption
      <4> QED
        BY <1>4, <1>11, <2>1, <2>2, <4>1
    <3> QED
      BY <3>1, <3>2
  <2>3. CASE v \notin {"gop", "svc"}
    <3>1. S = Spread(v, g)
      BY <1>0, <1>9, <2>3
    <3> QED
      BY <1>11, <2>1, <2>3, <3>1
  <2> QED
    BY <2>2, <2>3
<1>17. ASSUME NEW k \in 2..n PROVE Share(v, g, k - 1) <= Share(v, g, k)
  <2>1. k - 1 \in 1..n /\ k \in 1..n
    BY <1>1
  <2>2. q(k - 1) <= q(k) /\ q(k - 1) \in Nat /\ q(k) \in Nat
    BY <1>12, <1>13, <2>1
  <2>3. Floor(q(k - 1)) <= Floor(q(k))
    BY <2>2, FloorRises
  <2> QED
    BY <1>11, <2>1, <2>2, <2>3
<1>18. Share(v, g, 1) = 0
  <2>1. Floor(0) = 0
    BY PlanAssumption, FloorRises
  <2> QED
    BY <1>1, <1>11, <1>14, <2>1
<1> QED
  BY <1>10, <1>16, <1>17, <1>18

(* The end of a group whose last packet is p, for the next group: the time  *)
(* at which the frame of p ends, rounded as that group's offset will be.    *)
GroupEnd(v, p, base) ==
  IF v \in {"basic", "frame"} THEN p.dts + p.inc - base ELSE Floor(p.dts + p.inc - base)

(* From the base to the first packet, to the end, and in between. *)
LEMMA Durations ==
  ASSUME NEW first \in Nat, NEW last \in Nat, NEW inc \in Nat, NEW base \in Nat,
         base <= first, first <= last
  PROVE  /\ first - base \in Nat /\ last + inc - first \in Nat /\ last + inc - base \in Nat
         /\ (first - base) + (last + inc - first) = last + inc - base
         /\ (first - base) + inc <= last + inc - base
         /\ first - base <= last + inc - base
  OBVIOUS

(* The times of one plan: they rise from the group's start to its end.      *)
LEMMA PlanTimes ==
  ASSUME NEW b \in Seq(StreamPacket), b # <<>>, InFrames(b), NEW v \in Variants,
         NEW base \in Nat, base <= b[1].dts
  PROVE  LET n == GroupLength(v, b)
             p == Plan(v, b, base)
         IN /\ n \in 1..Len(b) /\ Len(p) = n /\ DOMAIN p = 1..n /\ p # <<>>
            /\ \A k \in 1..n : p[k].pkt = b[k] /\ p[k].at \in Nat
            /\ p[1].at = Offset(v, Group(v, b), base)
            /\ Floor(b[1].dts - base) <= p[1].at
            /\ v \in {"basic", "frame"} => p[1].at = b[1].dts - base
            /\ v \notin {"basic", "frame"} => p[1].at = Floor(b[1].dts - base)
            /\ \A k \in 2..n : p[k - 1].at <= p[k].at
            /\ \A k \in 1..n : Floor(b[1].dts - base) <= p[k].at /\ p[k].at <= GroupEnd(v, b[n], base)
            /\ GroupEnd(v, b[n], base) \in Nat
            /\ GroupEnd(v, b[n], base) <= b[n].dts + b[n].inc - base
<1> DEFINE n == GroupLength(v, b)
           p == Plan(v, b, base)
           g == Group(v, b)
           o == Offset(v, g, base)
<1>0. v \in {"basic", "frame", "gop", "svc", "window"}
  BY DEF Variants
<1>1. /\ n \in 1..Len(b) /\ g \in Seq(StreamPacket) /\ Len(g) = n
      /\ \A i \in 1..n : g[i] = b[i]
  BY GroupIsFront
<1>2. /\ Len(b) \in Nat \ {0} /\ \A i \in 1..Len(b) : b[i].dts \in Nat /\ b[i].inc \in Nat
  BY StreamPackets
<1>3. n \in Nat \ {0} /\ g # <<>> /\ DOMAIN g = 1..n
  BY <1>1, <1>2, EmptySeq, LenProperties
<1>4. 1 \in 1..n /\ n \in 1..n /\ 1 \in 1..Len(b) /\ n \in 1..Len(b)
  BY <1>1, <1>2, <1>3
<1>5. g[1] = b[1] /\ g[Len(g)] = b[n] /\ b[1].dts <= b[n].dts
  BY <1>1, <1>4, DtsRise
<1>6. p = [k \in 1..n |-> [pkt |-> g[k], at |-> o + Share(v, g, k)]]
  BY <1>3 DEF Plan
<1>7. /\ Share(v, g, 1) = 0 /\ Spread(v, g) \in Nat
      /\ \A k \in 1..n : Share(v, g, k) \in Nat /\ Share(v, g, k) <= Spread(v, g)
      /\ \A k \in 2..n : Share(v, g, k - 1) <= Share(v, g, k)
  BY <1>1, <1>3, <1>5, Shares
<1> DEFINE x == b[1].dts - base  y == b[n].dts + b[n].inc - b[1].dts
           z == b[n].dts + b[n].inc - base
<1>8. b[1].dts \in Nat /\ b[n].dts \in Nat /\ b[n].inc \in Nat
  BY <1>2, <1>4
<1>9. x \in Nat /\ y \in Nat /\ z \in Nat /\ x + y = z /\ x + b[n].inc <= z /\ x <= z
  <2>1. b[1].dts <= b[n].dts /\ base <= b[1].dts
    BY <1>5
  <2>2. base \in Nat
    OBVIOUS
  <2> HIDE DEF n
  <2> DEFINE c == b[1].dts  d == b[n].dts  i == b[n].inc
  <2>3. c \in Nat /\ d \in Nat /\ i \in Nat /\ base <= c /\ c <= d
    BY <1>8, <2>1
  <2>4. x = c - base /\ y = d + i - c /\ z = d + i - base /\ i = b[n].inc
    OBVIOUS
  <2> HIDE DEF c, d, i, x, y, z
  <2>5. /\ c - base \in Nat /\ d + i - c \in Nat /\ d + i - base \in Nat
        /\ (c - base) + (d + i - c) = d + i - base
        /\ (c - base) + i <= d + i - base /\ c - base <= d + i - base
    BY ONLY <2>2, <2>3, Durations
  <2> QED
    BY ONLY <2>4, <2>5
<1>10. /\ v = "basic" => o = x /\ Spread(v, g) = 0
       /\ v = "frame" => o = x /\ Spread(v, g) = b[n].inc
       /\ v \in {"gop", "svc", "window"} => o = Floor(x) /\ Spread(v, g) = Floor(y)
  BY <1>5 DEF Offset, Spread
<1>11. /\ v \in {"basic", "frame"} => GroupEnd(v, b[n], base) = z
       /\ v \in {"gop", "svc", "window"} => GroupEnd(v, b[n], base) = Floor(z)
  BY DEF GroupEnd
<1> HIDE DEF x, y, z, o, p, g
<1>12. /\ Floor(x) \in Nat /\ Floor(x) <= x /\ Floor(y) \in Nat
       /\ Floor(x) + Floor(y) <= Floor(z) /\ Floor(z) \in Nat /\ Floor(z) <= z
  BY <1>9, FloorRises
<1>13. /\ o \in Nat /\ Floor(x) <= o /\ o + Spread(v, g) <= GroupEnd(v, b[n], base)
       /\ GroupEnd(v, b[n], base) \in Nat /\ GroupEnd(v, b[n], base) <= z
  <2>1. CASE v = "basic"
    <3>1. o = x /\ Spread(v, g) = 0 /\ GroupEnd(v, b[n], base) = z
      BY <1>10, <1>11, <2>1
    <3> QED
      BY <1>9, <1>12, <3>1
  <2>2. CASE v = "frame"
    <3>1. o = x /\ Spread(v, g) = b[n].inc /\ GroupEnd(v, b[n], base) = z
      BY <1>10, <1>11, <2>2
    <3> QED
      BY <1>8, <1>9, <1>12, <3>1
  <2>3. CASE v \in {"gop", "svc", "window"}
    BY <1>9, <1>10, <1>11, <1>12, <2>3
  <2> QED
    BY <1>0, <2>1, <2>2, <2>3
<1>14. \A k \in 1..n : p[k].pkt = b[k] /\ p[k].at = o + Share(v, g, k)
  BY <1>1, <1>6
<1>15. Len(p) = n /\ DOMAIN p = 1..n /\ p # <<>>
  <2>1. DOMAIN p = 1..n /\ \A k \in 1..n : p[k] = [pkt |-> g[k], at |-> o + Share(v, g, k)]
    BY <1>6
  <2>2. p \in Seq({p[k] : k \in 1..n})
    <3> DEFINE P == {p[k] : k \in 1..n}
    <3>1. p = [k \in 1..n |-> p[k]] /\ \A k \in 1..n : p[k] \in P
      BY <1>6, <2>1
    <3> HIDE DEF P
    <3>2. p \in [1..n -> P]
      BY <3>1
    <3>3. p \in Seq(P)
      BY <1>3, <3>2, SeqDef
    <3> QED
      BY <3>3 DEF P
  <2>3. Len(p) \in Nat /\ DOMAIN p = 1..Len(p)
    BY <2>2, LenProperties
  <2>4. Len(p) = n
    BY <1>3, <2>1, <2>3
  <2> QED
    BY <1>3, <2>1, <2>2, <2>4, EmptySeq
<1>16. ASSUME NEW k \in 1..n
       PROVE  /\ p[k].at \in Nat /\ Floor(x) <= p[k].at
              /\ p[k].at <= GroupEnd(v, b[n], base)
  <2>1. p[k].at = o + Share(v, g, k)
    BY <1>14
  <2>2. Share(v, g, k) \in Nat /\ Share(v, g, k) <= Spread(v, g)
    BY <1>7
  <2> DEFINE c == Share(v, g, k)  d == Spread(v, g)  e == GroupEnd(v, b[n], base)  f == Floor(x)
  <2>3. /\ c \in Nat /\ d \in Nat /\ e \in Nat /\ f \in Nat /\ o \in Nat
        /\ c <= d /\ f <= o /\ o + d <= e
    BY <1>7, <1>12, <1>13, <2>2
  <2> HIDE DEF c, d, e, f
  <2>4. o + c \in Nat /\ f <= o + c /\ o + c <= e
    BY ONLY <2>3
  <2> QED
    BY <2>1, <2>4 DEF c, e, f
<1>17. ASSUME NEW k \in 2..n PROVE p[k - 1].at <= p[k].at
  <2>1. k - 1 \in 1..n /\ k \in 1..n
    BY <1>3
  <2>2. /\ p[k].at = o + Share(v, g, k) /\ p[k - 1].at = o + Share(v, g, k - 1)
        /\ Share(v, g, k) \in Nat /\ Share(v, g, k - 1) \in Nat
        /\ Share(v, g, k - 1) <= Share(v, g, k)
    BY <1>7, <1>14, <2>1
  <2> QED
    BY <1>13, <2>2
<1>18. p[1].at = o
  BY <1>4, <1>7, <1>13, <1>14
<1>19. /\ v \in {"basic", "frame"} => o = x
       /\ v \notin {"basic", "frame"} => o = Floor(x)
  BY <1>0, <1>10
<1>20. /\ n \in 1..Len(b) /\ Len(p) = n /\ DOMAIN p = 1..n /\ p # <<>>
       /\ \A k \in 1..n : p[k].pkt = b[k] /\ p[k].at \in Nat
       /\ p[1].at = o /\ Floor(x) <= p[1].at
       /\ v \in {"basic", "frame"} => p[1].at = x
       /\ v \notin {"basic", "frame"} => p[1].at = Floor(x)
       /\ \A k \in 2..n : p[k - 1].at <= p[k].at
       /\ \A k \in 1..n : Floor(x) <= p[k].at /\ p[k].at <= GroupEnd(v, b[n], base)
       /\ GroupEnd(v, b[n], base) \in Nat /\ GroupEnd(v, b[n], base) <= z
  BY <1>1, <1>13, <1>14, <1>15, <1>16, <1>17, <1>18, <1>19
<1> QED
  BY <1>20 DEF x, z, o, p, g

-----------------------------------------------------------------------------
(* What is in the buffer continues what was planned, and the last plan is   *)
(* over when the first frame in the buffer, or the next to come, begins.    *)
StreamInv ==
  /\ variant \in Variants
  /\ vBuffer \in Seq(StreamPacket) /\ InFrames(vBuffer)
  /\ newest.dts \in Nat /\ newest.inc \in Nat /\ newest.frame \in Nat
  /\ vBuffer # <<>> => vBuffer[Len(vBuffer)] = newest
  /\ iBase \in Nat \cup {-1} /\ before \in Nat
  /\ vBuffer # <<>> => iBase \in 0..vBuffer[1].dts
  /\ plan # <<>> =>
       /\ Len(plan) \in Nat \ {0} /\ DOMAIN plan = 1..Len(plan)
       /\ \A k \in DOMAIN plan : plan[k].at \in Nat
       /\ plan[Len(plan)].pkt \in StreamPacket
       /\ iBase \in 0..plan[Len(plan)].pkt.dts
       /\ plan[Len(plan)].at <= GroupEnd(variant, plan[Len(plan)].pkt, iBase)
       /\ IF vBuffer = <<>> THEN plan[Len(plan)].pkt = newest
                            ELSE NextFrame(plan[Len(plan)].pkt, vBuffer[1])
  /\ TimesRise /\ StaysInGroup

(* A stream begins like that. *)
LEMMA StreamInitInv == StreamInit => StreamInv
<1> SUFFICES ASSUME StreamInit PROVE StreamInv
  OBVIOUS
<1>1. /\ vBuffer = <<>> /\ vBuffer \in Seq(StreamPacket) /\ Len(vBuffer) = 0 /\ DOMAIN plan = {}
      /\ plan = <<>> /\ iBase = -1 /\ before = 0 /\ variant \in Variants
      /\ newest.dts = 0 /\ newest.inc = 0 /\ newest.frame = 0
  BY DEF StreamInit, InputInit, None
<1>2. InFrames(vBuffer)
  BY <1>1 DEF InFrames
<1>3. TimesRise /\ StaysInGroup
  BY <1>1 DEF TimesRise, StaysInGroup
<1> QED
  BY <1>1, <1>2, <1>3 DEF StreamInv

(* The packets of the next frame continue the stream. *)
LEMMA ReceiveKeepsStream == StreamInv /\ ReceiveFrame => StreamInv'
<1> SUFFICES ASSUME StreamInv, ReceiveFrame PROVE StreamInv'
  OBVIOUS
<1>1. PICK inc \in Incs, intra \in BOOLEAN, layer0 \in BOOLEAN, n \in 1..2 :
        \E size \in [1..n -> Sizes] : ReceivePackets(PacketsOfFrame(inc, intra, layer0, size))
  BY DEF ReceiveFrame
<1>2. PICK size \in [1..n -> Sizes] : ReceivePackets(PacketsOfFrame(inc, intra, layer0, size))
  BY <1>1
<1> DEFINE start == newest.dts + newest.inc
           packet(k) == [dts |-> start, inc |-> inc, frame |-> newest.frame + 1,
                         intra |-> intra, layer0 |-> layer0, size |-> size[k]]
           frame == PacketsOfFrame(inc, intra, layer0, size)
           L == Len(vBuffer)
<1>3. /\ newest' = frame[Len(frame)] /\ vBuffer' = vBuffer \o frame /\ iBase' = BaseWith(frame[1].dts)
      /\ variant' = variant /\ plan' = plan /\ before' = before
  BY <1>2 DEF ReceivePackets, Last
<1>4. /\ newest.dts \in Nat /\ newest.inc \in Nat /\ newest.frame \in Nat /\ vBuffer \in Seq(StreamPacket)
      /\ iBase \in Nat \cup {-1}
  BY DEF StreamInv
<1>5. start \in Nat /\ newest.dts <= start /\ inc \in Nat
  BY <1>4, StreamAssumption
<1> HIDE DEF start
<1>6. \A k \in 1..n : packet(k) \in StreamPacket
  BY <1>4, <1>5 DEF StreamPacket
<1>7. frame = [k \in 1..n |-> packet(k)] /\ \A k \in 1..n : frame[k] = packet(k)
  BY DEF PacketsOfFrame, start
<1>8. \A k \in 1..n : /\ frame[k].dts = start /\ frame[k].inc = inc /\ frame[k].frame = newest.frame + 1
                       /\ frame[k].intra = intra /\ frame[k].layer0 = layer0
  BY <1>7
<1>9. n \in Nat \ {0} /\ 1 \in 1..n /\ n \in 1..n
  OBVIOUS
<1>10. frame \in Seq(StreamPacket) /\ Len(frame) = n
  <2>1. frame \in [1..n -> StreamPacket]
    BY <1>6, <1>7
  <2>2. frame \in Seq(StreamPacket)
    BY <1>9, <2>1, SeqDef
  <2>3. DOMAIN frame = 1..n /\ DOMAIN frame = 1..Len(frame) /\ Len(frame) \in Nat
    BY <1>7, <2>2, LenProperties
  <2> QED
    BY <1>9, <2>2, <2>3
<1> HIDE DEF packet, frame
<1>11. L \in Nat
  BY <1>4, LenProperties
<1>12. /\ vBuffer' \in Seq(StreamPacket) /\ Len(vBuffer') = L + n
       /\ \A i \in 1..L + n : vBuffer'[i] = IF i <= L THEN vBuffer[i] ELSE frame[i - L]
  BY <1>3, <1>4, <1>10, ConcatProperties
<1>13. /\ \A i \in 1..L : vBuffer'[i] = vBuffer[i]
       /\ \A i \in 1..n : vBuffer'[L + i] = frame[i]
  <2>1. \A i \in 1..n : L + i \in 1..L + n /\ ~ (L + i <= L) /\ (L + i) - L = i
    BY <1>9, <1>11
  <2>2. \A i \in 1..L : i \in 1..L + n /\ i <= L
    BY <1>9, <1>11
  <2> QED
    BY <1>12, <2>1, <2>2
<1>14. vBuffer' # <<>> /\ L + n \in Nat \ {0}
  BY <1>9, <1>11, <1>12
<1>15. newest'.dts = start /\ newest'.inc = inc /\ newest'.frame = newest.frame + 1
  BY <1>3, <1>8, <1>9, <1>10
<1>16. InFrames(vBuffer')
  <2>1. SUFFICES ASSUME NEW i \in 1..L + n - 1
                 PROVE  SameFrame(vBuffer'[i], vBuffer'[i + 1]) \/ NextFrame(vBuffer'[i], vBuffer'[i + 1])
    BY <1>12 DEF InFrames
  <2>2. CASE i < L
    <3>1. i \in 1..L /\ i + 1 \in 1..L /\ i \in 1..L - 1
      BY <1>11, <2>2
    <3>2. SameFrame(vBuffer[i], vBuffer[i + 1]) \/ NextFrame(vBuffer[i], vBuffer[i + 1])
      BY <3>1 DEF StreamInv, InFrames
    <3> QED
      BY <1>13, <3>1, <3>2
  <2>3. CASE i = L
    <3>1. L \in 1..L /\ vBuffer # <<>>
      BY <1>4, <1>11, <2>3, EmptySeq
    <3>2. vBuffer'[i] = newest /\ vBuffer'[i + 1] = frame[1]
      BY <1>9, <1>13, <2>3, <3>1 DEF StreamInv
    <3>3. frame[1].dts = newest.dts + newest.inc /\ frame[1].frame > newest.frame
      BY <1>4, <1>8, <1>9 DEF start
    <3> QED
      BY <3>2, <3>3 DEF NextFrame
  <2>4. CASE i > L
    <3>1. i - L \in 1..n /\ i - L + 1 \in 1..n /\ L + (i - L) = i /\ L + (i - L + 1) = i + 1
      BY <1>11, <2>4
    <3>2. vBuffer'[i] = frame[i - L] /\ vBuffer'[i + 1] = frame[i - L + 1]
      BY <1>13, <3>1
    <3> QED
      BY <1>8, <3>1, <3>2 DEF SameFrame
  <2> QED
    BY <1>11, <2>2, <2>3, <2>4
<1>17. vBuffer'[Len(vBuffer')] = newest'
  BY <1>3, <1>9, <1>10, <1>12, <1>13
<1>18. /\ iBase' \in Nat /\ iBase' <= start
       /\ iBase \in Nat /\ iBase <= start => iBase' = iBase
  <2>1. iBase' = IF iBase < 0 \/ start < iBase THEN start ELSE iBase
    BY <1>3, <1>8, <1>9 DEF BaseWith
  <2> QED
    BY <1>4, <1>5, <2>1
<1>19. /\ variant' \in Variants /\ vBuffer' \in Seq(StreamPacket) /\ InFrames(vBuffer')
       /\ newest'.dts \in Nat /\ newest'.inc \in Nat /\ newest'.frame \in Nat
       /\ vBuffer' # <<>> => vBuffer'[Len(vBuffer')] = newest'
       /\ iBase' \in Nat \cup {-1} /\ before' \in Nat
  <2>1. variant \in Variants /\ before \in Nat
    BY DEF StreamInv
  <2>2. iBase' \in Nat \cup {-1} /\ variant' \in Variants /\ before' \in Nat
    BY <1>3, <1>18, <2>1
  <2>3. newest'.dts \in Nat /\ newest'.inc \in Nat /\ newest'.frame \in Nat
    BY <1>4, <1>5, <1>15
  <2> QED
    BY <1>12, <1>16, <1>17, <2>2, <2>3
<1>20. CASE vBuffer = <<>>
  <2>1. L = 0 /\ vBuffer'[1] = frame[1]
    BY <1>9, <1>13, <1>20
  <2>2. vBuffer'[1].dts = start
    BY <1>8, <1>9, <2>1
  <2>3. vBuffer' # <<>> => iBase' \in 0..vBuffer'[1].dts
    BY <1>5, <1>18, <2>2
  <2>4. plan # <<>> => iBase' = iBase /\ NextFrame(plan[Len(plan)].pkt, vBuffer'[1])
    <3> SUFFICES ASSUME plan # <<>> PROVE iBase' = iBase /\ NextFrame(newest, vBuffer'[1])
      BY <1>20 DEF StreamInv
    <3>1. iBase \in 0..newest.dts
      BY <1>20 DEF StreamInv
    <3>2. iBase' = iBase
      BY <1>4, <1>5, <1>18, <3>1
    <3>3. vBuffer'[1].dts = newest.dts + newest.inc /\ vBuffer'[1].frame = newest.frame + 1
      BY <1>8, <1>9, <2>1 DEF start
    <3> QED
      BY <1>4, <3>2, <3>3 DEF NextFrame
  <2>5. plan' # <<>> =>
       /\ Len(plan') \in Nat \ {0} /\ DOMAIN plan' = 1..Len(plan')
       /\ \A k \in DOMAIN plan' : plan'[k].at \in Nat
       /\ plan'[Len(plan')].pkt \in StreamPacket
       /\ iBase' \in 0..plan'[Len(plan')].pkt.dts
       /\ plan'[Len(plan')].at <= GroupEnd(variant', plan'[Len(plan')].pkt, iBase')
       /\ IF vBuffer' = <<>> THEN plan'[Len(plan')].pkt = newest'
                             ELSE NextFrame(plan'[Len(plan')].pkt, vBuffer'[1])
    BY <1>3, <1>14, <2>4 DEF StreamInv
  <2>6. TimesRise' /\ StaysInGroup'
    <3>1. TimesRise /\ StaysInGroup /\ (plan # <<>> => iBase' = iBase)
      BY <2>4 DEF StreamInv
    <3>2. CASE plan = <<>>
      BY <1>3, <3>2 DEF TimesRise, StaysInGroup
    <3>3. CASE plan # <<>>
      BY <1>3, <3>1, <3>3 DEF TimesRise, StaysInGroup
    <3> QED
      BY <3>2, <3>3
  <2> QED
    BY ONLY <1>19, <2>3, <2>5, <2>6 DEF StreamInv
<1>21. CASE vBuffer # <<>>
  <2>1. L \in Nat \ {0} /\ 1 \in 1..L /\ L \in 1..L
    BY <1>11, <1>21, StreamPackets
  <2>2. vBuffer'[1] = vBuffer[1] /\ vBuffer[1].dts \in Nat
    BY <1>4, <1>13, <1>21, <2>1, StreamPackets
  <2>3. vBuffer[1].dts <= newest.dts
    BY <1>4, <1>21, <2>1, DtsRise DEF StreamInv
  <2>4. iBase \in 0..vBuffer[1].dts
    BY <1>21 DEF StreamInv
  <2>5. iBase' = iBase
    <3>1. iBase \in Nat /\ iBase <= newest.dts
      BY <1>4, <2>2, <2>3, <2>4
    <3> QED
      BY <1>4, <1>5, <1>18, <3>1
  <2>6. iBase' \in 0..vBuffer'[1].dts
    BY <2>2, <2>4, <2>5
  <2>7. plan' # <<>> =>
       /\ Len(plan') \in Nat \ {0} /\ DOMAIN plan' = 1..Len(plan')
       /\ \A k \in DOMAIN plan' : plan'[k].at \in Nat
       /\ plan'[Len(plan')].pkt \in StreamPacket
       /\ iBase' \in 0..plan'[Len(plan')].pkt.dts
       /\ plan'[Len(plan')].at <= GroupEnd(variant', plan'[Len(plan')].pkt, iBase')
       /\ IF vBuffer' = <<>> THEN plan'[Len(plan')].pkt = newest'
                             ELSE NextFrame(plan'[Len(plan')].pkt, vBuffer'[1])
    BY <1>3, <1>14, <1>21, <2>2, <2>5 DEF StreamInv
  <2>8. TimesRise' /\ StaysInGroup'
    BY <1>3, <2>5 DEF StreamInv, TimesRise, StaysInGroup
  <2> QED
    BY ONLY <1>19, <2>6, <2>7, <2>8 DEF StreamInv
<1> QED
  BY <1>20, <1>21

(* makeSchedule() takes the next group when the last plan is over. *)
LEMMA PlanKeepsStream == StreamInv /\ MakePlan => StreamInv'
<1> SUFFICES ASSUME StreamInv, MakePlan PROVE StreamInv'
  OBVIOUS
<1> DEFINE b == vBuffer
           n == GroupLength(variant, b)
           p == Plan(variant, b, iBase)
           end == GroupEnd(variant, b[n], iBase)
<1>1. /\ b # <<>> /\ plan' = p /\ vBuffer' = SubSeq(b, Len(plan') + 1, Len(b))
      /\ before' = IF plan = <<>> THEN 0 ELSE plan[Len(plan)].at
      /\ variant' = variant /\ newest' = newest /\ iBase' = iBase
  BY DEF MakePlan, Last
<1>2. /\ b \in Seq(StreamPacket) /\ InFrames(b) /\ variant \in Variants
      /\ newest.dts \in Nat /\ newest.inc \in Nat /\ newest.frame \in Nat
      /\ iBase \in 0..b[1].dts /\ b[Len(b)] = newest
  BY <1>1 DEF StreamInv
<1>3. /\ Len(b) \in Nat \ {0}
      /\ \A i \in 1..Len(b) : b[i] \in StreamPacket /\ b[i].dts \in Nat /\ b[i].inc \in Nat
  BY <1>1, <1>2, StreamPackets
<1>4. 1 \in 1..Len(b) /\ Len(b) \in 1..Len(b) /\ b[1].dts \in Nat
  BY <1>3
<1>5. iBase \in Nat /\ iBase <= b[1].dts
  BY <1>2, <1>4
<1>6. /\ n \in 1..Len(b) /\ Len(p) = n /\ DOMAIN p = 1..n /\ p # <<>>
      /\ \A k \in 1..n : p[k].pkt = b[k] /\ p[k].at \in Nat
      /\ Floor(b[1].dts - iBase) <= p[1].at
      /\ variant \in {"basic", "frame"} => p[1].at = b[1].dts - iBase
      /\ variant \notin {"basic", "frame"} => p[1].at = Floor(b[1].dts - iBase)
      /\ \A k \in 2..n : p[k - 1].at <= p[k].at
      /\ \A k \in 1..n : Floor(b[1].dts - iBase) <= p[k].at /\ p[k].at <= end
      /\ end \in Nat /\ end <= b[n].dts + b[n].inc - iBase
  BY <1>1, <1>2, <1>5, PlanTimes
<1>7. n < Len(b) => NextFrame(b[n], b[n + 1])
  BY <1>1, <1>2, GroupEndsFrame
<1> HIDE DEF n, p, end
<1>8. n \in Nat \ {0} /\ 1 \in 1..n /\ n \in 1..n /\ n \in 0..Len(b)
  BY <1>3, <1>6
<1>9. /\ vBuffer' \in Seq(StreamPacket) /\ Len(vBuffer') = Len(b) - n
      /\ \A i \in 1..Len(b) - n : vBuffer'[i] = b[n + i]
  BY <1>1, <1>2, <1>6, <1>8, CutFront
<1>10. InFrames(vBuffer')
  <2> SUFFICES ASSUME NEW i \in 1..Len(b) - n - 1
               PROVE  SameFrame(vBuffer'[i], vBuffer'[i + 1]) \/ NextFrame(vBuffer'[i], vBuffer'[i + 1])
    BY <1>9 DEF InFrames
  <2>1. /\ i \in 1..Len(b) - n /\ i + 1 \in 1..Len(b) - n /\ n + i \in 1..Len(b) - 1
        /\ n + (i + 1) = (n + i) + 1
    BY <1>3, <1>8
  <2>2. vBuffer'[i] = b[n + i] /\ vBuffer'[i + 1] = b[(n + i) + 1]
    BY <1>9, <2>1
  <2> QED
    BY <1>2, <2>1, <2>2 DEF InFrames
<1>11. vBuffer' # <<>> => n < Len(b) /\ 1 \in 1..Len(b) - n /\ Len(b) - n \in 1..Len(b) - n
  <2> SUFFICES ASSUME vBuffer' # <<>> PROVE n < Len(b)
    BY <1>3, <1>8
  <2>1. Len(vBuffer') \in Nat \ {0}
    BY <1>9, StreamPackets
  <2> QED
    BY <1>3, <1>8, <1>9, <2>1
<1>12. vBuffer' # <<>> => vBuffer'[1] = b[n + 1] /\ vBuffer'[Len(vBuffer')] = newest
  <2> SUFFICES ASSUME vBuffer' # <<>> PROVE vBuffer'[1] = b[n + 1] /\ vBuffer'[Len(vBuffer')] = newest
    OBVIOUS
  <2>1. n + (Len(b) - n) = Len(b)
    BY <1>3, <1>8
  <2>2. vBuffer'[Len(b) - n] = b[n + (Len(b) - n)]
    BY <1>9, <1>11
  <2> QED
    BY <1>2, <1>9, <1>11, <2>1, <2>2
<1>13. vBuffer' # <<>> => iBase \in 0..vBuffer'[1].dts /\ NextFrame(b[n], vBuffer'[1])
  <2> SUFFICES ASSUME vBuffer' # <<>> PROVE iBase \in 0..vBuffer'[1].dts /\ NextFrame(b[n], vBuffer'[1])
    OBVIOUS
  <2>1. vBuffer'[1] = b[n + 1] /\ n + 1 \in 1..Len(b) /\ n < Len(b)
    BY <1>3, <1>8, <1>11, <1>12
  <2>2. b[1].dts <= b[n + 1].dts /\ b[n + 1].dts \in Nat
    BY <1>1, <1>2, <1>3, <2>1, DtsRise
  <2>3. iBase <= b[n + 1].dts
    BY <1>4, <1>5, <2>2
  <2> QED
    BY <1>5, <1>7, <2>1, <2>2, <2>3
<1>14. vBuffer' = <<>> => b[n] = newest
  <2> SUFFICES ASSUME vBuffer' = <<>> PROVE n = Len(b)
    BY <1>2
  <2>1. Len(vBuffer') = 0
    OBVIOUS
  <2> QED
    BY <1>3, <1>8, <1>9, <2>1
<1>15. b[n] \in StreamPacket /\ b[n].dts \in Nat /\ b[n].inc \in Nat /\ iBase \in 0..b[n].dts
  <2>1. b[n] \in StreamPacket /\ b[n].dts \in Nat /\ b[n].inc \in Nat /\ b[1].dts <= b[n].dts
    BY <1>1, <1>2, <1>3, <1>6, DtsRise
  <2>2. iBase <= b[n].dts
    BY <1>4, <1>5, <2>1
  <2> QED
    BY <1>5, <2>1, <2>2
<1>16. before' \in Nat /\ before' <= p[1].at
  <2>1. p[1].at \in Nat
    BY <1>6, <1>8
  <2>2. CASE plan = <<>>
    BY <1>1, <2>1, <2>2
  <2>3. CASE plan # <<>>
    <3> DEFINE l == plan[Len(plan)]
    <3>1. /\ Len(plan) \in Nat \ {0} /\ DOMAIN plan = 1..Len(plan)
          /\ \A k \in DOMAIN plan : plan[k].at \in Nat
          /\ l.at <= GroupEnd(variant, l.pkt, iBase) /\ NextFrame(l.pkt, b[1])
      BY <1>1, <2>3 DEF StreamInv
    <3>2. l.at \in Nat /\ before' = l.at
      BY <1>1, <2>3, <3>1
    <3>3. b[1].dts = l.pkt.dts + l.pkt.inc
      BY <3>1 DEF NextFrame
    <3> DEFINE q == l.pkt
               e == q.dts + q.inc
    <3>4. q.dts \in Nat /\ q.inc \in Nat
      <4>1. q \in StreamPacket
        BY <2>3 DEF StreamInv
      <4> QED
        BY <4>1, StreamAssumption DEF StreamPacket
    <3> HIDE DEF q
    <3>5. /\ variant \in {"basic", "frame"} => GroupEnd(variant, q, iBase) = e - iBase
          /\ variant \notin {"basic", "frame"} => GroupEnd(variant, q, iBase) = Floor(e - iBase)
      BY <1>5, <3>4 DEF GroupEnd
    <3>6. b[1].dts = e
      BY <3>3 DEF q
    <3> HIDE DEF e
    <3>7. GroupEnd(variant, q, iBase) = p[1].at
      BY <1>6, <3>5, <3>6
    <3> QED
      BY <3>1, <3>2, <3>7 DEF q
  <2> QED
    BY <2>2, <2>3
<1>17. TimesRise'
  <2>1. DOMAIN plan' = 1..n
    BY <1>1, <1>6
  <2>2. ASSUME NEW k \in 1..n
        PROVE  (IF k = 1 THEN before' ELSE plan'[k - 1].at) <= plan'[k].at
    <3>1. k = 1 \/ k \in 2..n
      BY <1>8
    <3> QED
      BY <1>1, <1>6, <1>16, <3>1
  <2> QED
    BY <2>1, <2>2 DEF TimesRise
<1>18. StaysInGroup'
  <2>1. /\ DOMAIN plan' = 1..n /\ Len(plan') = n /\ iBase' = iBase
        /\ plan'[1].pkt = b[1] /\ plan'[n].pkt = b[n]
    BY <1>1, <1>6, <1>8
  <2>2. ASSUME NEW k \in 1..n
        PROVE  /\ Floor(plan'[1].pkt.dts - iBase') <= plan'[k].at
               /\ plan'[k].at <= plan'[n].pkt.dts + plan'[n].pkt.inc - iBase'
    <3>1. plan'[k].at = p[k].at /\ p[k].at \in Nat /\ p[k].at <= end /\ Floor(b[1].dts - iBase) <= p[k].at
      BY <1>1, <1>6
    <3>2. b[n].dts + b[n].inc - iBase \in Int
      BY <1>5, <1>15
    <3>3. p[k].at <= b[n].dts + b[n].inc - iBase
      BY <1>6, <3>1, <3>2
    <3> QED
      BY <2>1, <3>1, <3>3
  <2> QED
    BY <2>1, <2>2 DEF StaysInGroup, Last
<1>19. plan' # <<>> =>
       /\ Len(plan') \in Nat \ {0} /\ DOMAIN plan' = 1..Len(plan')
       /\ \A k \in DOMAIN plan' : plan'[k].at \in Nat
       /\ plan'[Len(plan')].pkt \in StreamPacket
       /\ iBase' \in 0..plan'[Len(plan')].pkt.dts
       /\ plan'[Len(plan')].at <= GroupEnd(variant', plan'[Len(plan')].pkt, iBase')
       /\ IF vBuffer' = <<>> THEN plan'[Len(plan')].pkt = newest'
                             ELSE NextFrame(plan'[Len(plan')].pkt, vBuffer'[1])
  <2>1. /\ Len(plan') = n /\ DOMAIN plan' = 1..n /\ \A k \in 1..n : plan'[k].at \in Nat
        /\ plan'[n].pkt = b[n] /\ plan'[n].at <= end
    BY <1>1, <1>6, <1>8
  <2> QED
    BY <1>1, <1>8, <1>13, <1>14, <1>15, <2>1 DEF end
<1>20. /\ variant' \in Variants /\ vBuffer' \in Seq(StreamPacket) /\ InFrames(vBuffer')
       /\ newest'.dts \in Nat /\ newest'.inc \in Nat /\ newest'.frame \in Nat
       /\ vBuffer' # <<>> => vBuffer'[Len(vBuffer')] = newest'
       /\ iBase' \in Nat \cup {-1} /\ before' \in Nat
       /\ vBuffer' # <<>> => iBase' \in 0..vBuffer'[1].dts
  BY <1>1, <1>2, <1>5, <1>9, <1>10, <1>12, <1>13, <1>16
<1> QED
  BY ONLY <1>17, <1>18, <1>19, <1>20 DEF StreamInv

(* The buffer and the plan never hold more than has arrived. *)
LEMMA StreamInitType == StreamInit => StreamTypeOK
<1> SUFFICES ASSUME StreamInit PROVE StreamTypeOK
  OBVIOUS
<1>1. /\ Len(vBuffer) = 0 /\ Len(plan) = 0 /\ DOMAIN plan = {} /\ count = 0
      /\ iBase = -1 /\ before = 0 /\ variant \in Variants
  BY DEF StreamInit, InputInit
<1> QED
  BY <1>1, StreamAssumption DEF StreamTypeOK

(* A frame is received as a whole, a plan is taken out of the buffer. *)
LEMMA StreamStepType == StreamInv /\ StreamTypeOK /\ StreamInv' /\ [StreamNext]_streamVars => StreamTypeOK'
<1> SUFFICES ASSUME StreamInv, StreamTypeOK, StreamInv', [StreamNext]_streamVars PROVE StreamTypeOK'
  OBVIOUS
<1>1. /\ variant' \in Variants /\ before' \in Nat /\ iBase' \in Nat \cup {-1}
      /\ vBuffer \in Seq(StreamPacket) /\ vBuffer' \in Seq(StreamPacket)
  BY DEF StreamInv
<1>2. Len(vBuffer) \in Nat /\ Len(vBuffer') \in Nat
  BY <1>1, LenProperties
<1>3. \A k \in DOMAIN plan' : plan'[k].at \in Nat
  <2>1. CASE plan' = <<>>
    BY <2>1
  <2>2. CASE plan' # <<>>
    BY <2>2 DEF StreamInv
  <2> QED
    BY <2>1, <2>2
<1>4. Len(plan) \in Nat /\ count \in 0..Length /\ Len(vBuffer) + Len(plan) <= count
  <2>1. CASE plan = <<>>
    BY <2>1 DEF StreamTypeOK
  <2>2. CASE plan # <<>>
    BY <2>2 DEF StreamTypeOK, StreamInv
  <2> QED
    BY <2>1, <2>2
<1>5. CASE ReceiveFrame
  <2>1. PICK inc \in Incs, intra \in BOOLEAN, layer0 \in BOOLEAN, n \in 1..2 :
          \E size \in [1..n -> Sizes] :
            count + n <= Length /\ ReceivePackets(PacketsOfFrame(inc, intra, layer0, size))
    BY <1>5 DEF ReceiveFrame
  <2>2. PICK size \in [1..n -> Sizes] : ReceivePackets(PacketsOfFrame(inc, intra, layer0, size))
    BY <2>1
  <2> DEFINE frame == PacketsOfFrame(inc, intra, layer0, size)
             S == {frame[k] : k \in 1..n}
  <2>3. frame \in [1..n -> S] /\ n \in Nat
    BY DEF PacketsOfFrame
  <2>4. frame \in Seq(S)
    BY <2>3, SeqDef
  <2> HIDE DEF frame
  <2>5. Len(frame) = n
    BY <2>3, <2>4, LenProperties
  <2>6. vBuffer' = vBuffer \o frame /\ count' = count + Len(frame) /\ plan' = plan
    BY <2>2 DEF ReceivePackets, frame
  <2>7. Len(vBuffer') = Len(vBuffer) + n
    <3>1. vBuffer \in Seq(StreamPacket \cup S) /\ frame \in Seq(StreamPacket \cup S)
      BY <1>1, <2>3, <2>4, SeqDef
    <3> QED
      BY <2>5, <2>6, <3>1, ConcatProperties
  <2>8. count' \in 0..Length /\ Len(vBuffer') + Len(plan') <= count'
    BY <1>2, <1>4, <2>1, <2>5, <2>6, <2>7, StreamAssumption
  <2> QED
    BY <1>1, <1>3, <2>8 DEF StreamTypeOK
<1>6. CASE MakePlan
  <2>1. /\ plan' = Plan(variant, vBuffer, iBase) /\ vBuffer # <<>> /\ count' = count
        /\ vBuffer' = SubSeq(vBuffer, Len(plan') + 1, Len(vBuffer))
    BY <1>6 DEF MakePlan
  <2>2. InFrames(vBuffer) /\ variant \in Variants /\ iBase \in 0..vBuffer[1].dts
    BY <2>1 DEF StreamInv
  <2>3. iBase \in Nat /\ iBase <= vBuffer[1].dts
    <3>1. vBuffer[1].dts \in Nat
      BY <1>1, <2>1, StreamPackets
    <3> QED
      BY <2>2, <3>1
  <2>4. Len(plan') \in 1..Len(vBuffer)
    BY <1>1, <2>1, <2>2, <2>3, PlanTimes
  <2>5. Len(vBuffer') = Len(vBuffer) - Len(plan')
    BY <1>1, <1>2, <2>1, <2>4, CutFront
  <2>6. count' \in 0..Length /\ Len(vBuffer') + Len(plan') <= count'
    BY <1>2, <1>4, <2>1, <2>4, <2>5
  <2> QED
    BY <1>1, <1>3, <2>6 DEF StreamTypeOK
<1>7. CASE UNCHANGED streamVars
  BY <1>7 DEF streamVars, StreamTypeOK
<1> QED
  BY <1>5, <1>6, <1>7 DEF StreamNext, Complete

(* Both hold in every state of every stream. *)
LEMMA StreamInvariant == StreamSpec => [](StreamInv /\ StreamTypeOK)
<1>1. StreamInv /\ [StreamNext]_streamVars => StreamInv'
  <2> SUFFICES ASSUME StreamInv, [StreamNext]_streamVars PROVE StreamInv'
    OBVIOUS
  <2>1. CASE ReceiveFrame
    BY <2>1, ReceiveKeepsStream
  <2>2. CASE MakePlan
    BY <2>2, PlanKeepsStream
  <2>3. CASE UNCHANGED streamVars
    BY <2>3 DEF streamVars, StreamInv, TimesRise, StaysInGroup
  <2> QED
    BY <2>1, <2>2, <2>3 DEF StreamNext, Complete
<1> QED
  BY <1>1, StreamInitInv, StreamInitType, StreamStepType, PTL DEF StreamSpec

(* Smoothing keeps the packets in order, within a plan and from one plan to *)
(* the next, whatever the buffer held when makeSchedule() took a group.     *)
THEOREM PlansRise == StreamSpec => []TimesRise
<1>1. StreamInv => TimesRise
  BY DEF StreamInv
<1> QED
  BY <1>1, StreamInvariant, PTL

(* No plan sends a packet before the group begins or after it has ended.    *)
THEOREM PlansStay == StreamSpec => []StaysInGroup
<1>1. StreamInv => StaysInGroup
  BY DEF StreamInv
<1> QED
  BY <1>1, StreamInvariant, PTL
=============================================================================

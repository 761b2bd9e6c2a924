------------------------------ MODULE Scheduler ------------------------------
(***************************************************************************)
(* The scheduler: vBuffer, vSend, the clock arithmetic of process(), and   *)
(* the commands pause(), play() and flush(). Its plans are those of the    *)
(* basic scheduler (module SchedulePlans has them all): the packets with   *)
(* the dts of the first one, at dts - iBase after oStarttime.              *)
(*                                                                         *)
(* process() runs under oFlowMutex, takes the time once, and then sends    *)
(* everything that is due. The mutex is recursive: while it routes a       *)
(* packet, the receiver may call pause() and play() in the same thread     *)
(* (RTMPSession::receive does); all other commands wait until it returns.  *)
(* The history variables played and out measure it against the time that   *)
(* a viewer has seen pass, with pauses left out and speed counted in.      *)
(***************************************************************************)
EXTENDS SchedulerInput, FiniteSetsExt, SequencesExt

CONSTANTS
  Dts,         \* decoding times of packets, in ticks of the clock
  Delay,       \* the parameter delay
  StartPaused, \* the parameter pause
  Speeds,      \* what play() is called with: -1 (default) or a factor
  EarlyPause,  \* the client pauses, and resumes, before or at the start
  AnySpeed,    \* the client asks for a first speed while paused, or drops it
  MaxTime,     \* bound: ticks of the clock
  MaxPackets,  \* bound: packets that arrive
  MaxFlush     \* bound: calls of flush()

ASSUME SchedulerAssumption ==
  /\ Dts \subseteq Nat /\ Delay \in Nat /\ StartPaused \in BOOLEAN
  /\ Speeds \subseteq Int \ {0} /\ EarlyPause \in BOOLEAN /\ AnySpeed \in BOOLEAN
  /\ MaxTime \in Nat /\ MaxPackets \in Nat /\ MaxFlush \in Nat

Wrap == 1000   \* SirannonTime is unsigned: differences wrap
Default == -1

VARIABLES
  now,         \* SirannonTime::getCurrentTime(); the clock starts at 1
  pc,          \* process(): "idle", "loop", or "routing" a packet
  oCurrent,    \* its local variable
  bSchedule, bPause, bSending,
  oStarttime, oPause,      \* 0 when unset
  fSpeed, fCurrent, oPrev,
  vSend,       \* planned packets [id, dts, oSend]
  arrived,     \* history: packets received
  flushed,     \* history: ids of packets deleted by flush()
  flushes,     \* history: calls of flush()
  out,         \* history: packets routed [id, due, played]
  played       \* history: media time a viewer has seen pass since the start

clockVars == <<oStarttime, oPause, fSpeed, fCurrent, oPrev>>
flagVars  == <<bSchedule, bPause, bSending>>
queueVars == <<iBase, vBuffer, vSend>>
histVars  == <<arrived, flushed, flushes, out, played>>
vars == <<now, pc, oCurrent, clockVars, flagVars, queueVars, histVars>>

Init ==
  /\ now = 1 /\ pc = "idle" /\ oCurrent = 0
  /\ bSchedule = FALSE /\ bPause = StartPaused /\ bSending = FALSE
  /\ oStarttime = 0 /\ oPause = 0
  /\ fSpeed = Default /\ fCurrent = 0 /\ oPrev = 0
  /\ InputInit /\ vSend = <<>>
  /\ arrived = 0 /\ flushed = {} /\ flushes = 0 /\ out = <<>> /\ played = 0

Rate == IF fSpeed > 0 THEN fSpeed ELSE 1
Started == oStarttime # 0 /\ now >= oStarttime

Tick ==
  /\ now < MaxTime
  /\ now' = now + 1
  /\ played' = IF Started /\ ~bPause THEN played + Rate ELSE played
  /\ UNCHANGED <<pc, oCurrent, clockVars, flagVars, queueVars, arrived, flushed, flushes, out>>

-----------------------------------------------------------------------------
Receive ==
  \E d \in Dts :
    /\ pc = "idle" /\ arrived < MaxPackets
    /\ bSchedule' = TRUE
    /\ IF bSchedule THEN UNCHANGED <<oStarttime, oPause>>
                    ELSE oPause' = now /\ oStarttime' = now + Delay
    /\ iBase' = BaseWith(d)
    /\ arrived' = arrived + 1
    /\ vBuffer' = Append(vBuffer, [id |-> arrived + 1, dts |-> d])
    /\ UNCHANGED <<now, pc, oCurrent, fSpeed, fCurrent, oPrev, bPause, bSending, vSend,
                   flushed, flushes, out, played>>

(* The media time at clock time t, as process() computes it.                *)
Elapsed(t) == t - oStarttime
Scaled(t) == fCurrent + ((Elapsed(t) - oPrev) % Wrap) * fSpeed

Process ==
  /\ pc = "idle" /\ bSchedule /\ ~bPause /\ Started
  /\ pc' = "loop"
  /\ IF fSpeed > 0
       THEN /\ oCurrent' = Scaled(now) /\ fCurrent' = Scaled(now)
            /\ oPrev' = Elapsed(now)
       ELSE oCurrent' = Elapsed(now) /\ UNCHANGED <<fCurrent, oPrev>>
  /\ UNCHANGED <<now, oStarttime, oPause, fSpeed, flagVars, queueVars, histVars>>

(* basic_Scheduler::makeSchedule()                                          *)
GroupSize ==
  Max({n \in 1..Len(vBuffer) : \A i \in 1..n : vBuffer[i].dts = vBuffer[1].dts})

(* Faulty variant of MakeSchedule: the packet that ends the group is lost. *)
MakeScheduleDropsOne ==
  LET n == GroupSize IN
  /\ pc = "loop" /\ ~bSending /\ vBuffer # <<>>
  /\ vSend' = vSend \o [i \in 1..n |->
       [id |-> vBuffer[i].id, dts |-> vBuffer[i].dts, oSend |-> vBuffer[1].dts - iBase]]
  /\ vBuffer' = SubSeq(vBuffer, n + 2, Len(vBuffer))
  /\ bSending' = TRUE
  /\ UNCHANGED <<now, pc, oCurrent, clockVars, bSchedule, bPause, iBase, histVars>>

MakeSchedule ==
  LET n == GroupSize IN
  /\ pc = "loop" /\ ~bSending /\ vBuffer # <<>>
  /\ vSend' = vSend \o [i \in 1..n |->
       [id |-> vBuffer[i].id, dts |-> vBuffer[i].dts, oSend |-> vBuffer[1].dts - iBase]]
  /\ vBuffer' = SubSeq(vBuffer, n + 1, Len(vBuffer))
  /\ bSending' = TRUE
  /\ UNCHANGED <<now, pc, oCurrent, clockVars, bSchedule, bPause, iBase, histVars>>

(* Faulty variant of Send: the planned time is not looked at. *)
SendAtOnce ==
  /\ pc = "loop" /\ bSending /\ vSend # <<>>
  /\ pc' = "routing"
  /\ out' = Append(out, [id |-> Head(vSend).id, due |-> Head(vSend).oSend, played |-> played])
  /\ vSend' = Tail(vSend)
  /\ UNCHANGED <<now, oCurrent, clockVars, flagVars, iBase, vBuffer,
                 arrived, flushed, flushes, played>>

Send ==
  /\ pc = "loop" /\ bSending /\ vSend # <<>> /\ oCurrent >= Head(vSend).oSend
  /\ pc' = "routing"
  /\ out' = Append(out, [id |-> Head(vSend).id, due |-> Head(vSend).oSend, played |-> played])
  /\ vSend' = Tail(vSend)
  /\ UNCHANGED <<now, oCurrent, clockVars, flagVars, iBase, vBuffer,
                 arrived, flushed, flushes, played>>

(* Faulty variant of Routed: bSending is not reset after the last packet. *)
RoutedStaysSending ==
  /\ pc = "routing"
  /\ pc' = "loop" /\ UNCHANGED bSending
  /\ UNCHANGED <<now, oCurrent, clockVars, bSchedule, bPause, queueVars, histVars>>

Routed ==
  /\ pc = "routing"
  /\ pc' = "loop" /\ bSending' = (bSending /\ vSend # <<>>)
  /\ UNCHANGED <<now, oCurrent, clockVars, bSchedule, bPause, queueVars, histVars>>

Return ==
  /\ pc = "loop"
  /\ \/ ~bSending /\ vBuffer = <<>>
     \/ bSending /\ vSend # <<>> /\ oCurrent < Head(vSend).oSend
  /\ pc' = "idle" /\ oCurrent' = 0
  /\ UNCHANGED <<now, clockVars, flagVars, queueVars, histVars>>

-----------------------------------------------------------------------------
(* The commands: between two runs of process(), or from the receiver of the *)
(* packet it routes. EarlyPause and AnySpeed restrict the client, not the  *)
(* code. The clock of the code counts nanoseconds: that a client pauses at  *)
(* the very instant oStarttime is left out.                                 *)
Callable == pc \in {"idle", "routing"}

Pause ==
  /\ Callable /\ ~bPause
  /\ now # oStarttime /\ (EarlyPause \/ Started)
  /\ bPause' = TRUE /\ oPause' = now
  /\ UNCHANGED <<now, pc, oCurrent, oStarttime, fSpeed, fCurrent, oPrev,
                 bSchedule, bSending, queueVars, histVars>>

(* Faulty variant of Play: all the time since oStarttime counts as the pause. *)
PlayFromStart ==
  \E f \in Speeds :
    /\ Callable
    /\ bPause => EarlyPause \/ oStarttime = 0 \/ oPause > oStarttime \/ now < oStarttime
    /\ (bPause /\ f # Default) => fSpeed > 0 \/ oStarttime = 0 \/ AnySpeed
    /\ f = Default => fSpeed <= 0 \/ AnySpeed
    /\ LET adds == oStarttime # 0 /\ fSpeed <= 0 /\ Started IN
       IF f # Default \/ fSpeed > 0
         THEN /\ fSpeed' = f
              /\ fCurrent' = IF adds THEN Elapsed(now) ELSE fCurrent
              /\ oPrev' = IF adds THEN Elapsed(now) ELSE oPrev
         ELSE UNCHANGED <<fSpeed, fCurrent, oPrev>>
    /\ bPause' = FALSE
    /\ oStarttime' = IF bPause /\ oStarttime # 0 /\ oPause > oStarttime
                       THEN now ELSE oStarttime
    /\ UNCHANGED <<now, pc, oCurrent, oPause, bSchedule, bSending, queueVars, histVars>>

Play ==
  \E f \in Speeds :
    /\ Callable
    /\ bPause => EarlyPause \/ oStarttime = 0 \/ oPause > oStarttime \/ now < oStarttime
    /\ (bPause /\ f # Default) => fSpeed > 0 \/ oStarttime = 0 \/ AnySpeed
    /\ f = Default => fSpeed <= 0 \/ AnySpeed
    /\ LET adds == oStarttime # 0 /\ fSpeed <= 0 /\ Started IN
       IF f # Default \/ fSpeed > 0
         THEN /\ fSpeed' = f
              /\ fCurrent' = IF adds THEN Elapsed(now) ELSE fCurrent
              /\ oPrev' = IF adds THEN Elapsed(now) ELSE oPrev
         ELSE UNCHANGED <<fSpeed, fCurrent, oPrev>>
    /\ bPause' = FALSE
    /\ oStarttime' = IF bPause /\ oStarttime # 0 /\ oPause > oStarttime
                       THEN oStarttime + (now - oPause) ELSE oStarttime
    /\ UNCHANGED <<now, pc, oCurrent, oPause, bSchedule, bSending, queueVars, histVars>>

Ids(s) == {s[i].id : i \in DOMAIN s}

Flush ==
  /\ pc = "idle" /\ flushes < MaxFlush
  /\ flushes' = flushes + 1
  /\ flushed' = flushed \cup Ids(vBuffer) \cup Ids(vSend)
  /\ vBuffer' = <<>> /\ vSend' = <<>> /\ iBase' = -1
  /\ bSending' = FALSE /\ bSchedule' = FALSE /\ bPause' = FALSE
  /\ oPrev' = 0 /\ fCurrent' = 0 /\ fSpeed' = Default /\ oStarttime' = 0
  /\ played' = 0
  /\ UNCHANGED <<now, pc, oCurrent, oPause, arrived, out>>

Next ==
  \/ Tick \/ Receive \/ Process \/ MakeSchedule \/ Send \/ Routed \/ Return
  \/ Pause \/ Play \/ Flush

(* process() goes on whenever it can: the scheduler's thread, or the main   *)
(* thread, calls schedule() again and again, and the clock runs.            *)
Spec == Init /\ [][Next]_vars
FairSpec ==
  /\ Spec /\ WF_vars(Tick)
  /\ WF_vars(Process) /\ WF_vars(MakeSchedule \/ Send \/ Routed \/ Return)

-----------------------------------------------------------------------------
(* The values every variable ranges over. *)
TypeOK ==
  /\ now \in Nat \ {0} /\ pc \in {"idle", "loop", "routing"} /\ oCurrent \in Nat
  /\ bSchedule \in BOOLEAN /\ bPause \in BOOLEAN /\ bSending \in BOOLEAN
  /\ oStarttime \in Nat /\ oPause \in 0..now
  /\ fSpeed \in Speeds \cup {Default} /\ fCurrent \in Nat /\ oPrev \in Nat
  /\ iBase \in Nat \cup {-1} /\ played \in Nat
  /\ vBuffer \in Seq([id : Nat, dts : Nat])
  /\ \A i \in DOMAIN vBuffer : iBase \in 0..vBuffer[i].dts
  /\ vSend \in Seq([id : Nat, dts : Nat, oSend : Nat])
  /\ out \in Seq([id : Nat, due : Nat, played : Nat])
  /\ arrived \in Nat /\ flushes \in Nat /\ flushed \subseteq Nat
  /\ bSending => vSend # <<>> \/ pc = "routing"

(* Whatever is flushed, paused or asked from inside route(): every packet   *)
(* is in vBuffer, planned, sent or flushed, and the packets leave in the    *)
(* order in which they came.                                                *)
Line(sent, planned, buffered) ==
  [i \in 1..Len(sent) |-> sent[i].id] \o [i \in 1..Len(planned) |-> planned[i].id]
    \o [i \in 1..Len(buffered) |-> buffered[i].id]
InOrderOnce ==
  LET line == Line(out, vSend, vBuffer)
  IN  /\ \A i, j \in DOMAIN line : i < j => line[i] < line[j]
      /\ ToSet(line) \cup flushed = 1..arrived
      /\ ToSet(line) \cap flushed = {}

(* A packet is not sent before the viewer has seen its media time pass,     *)
(* counted without the pauses and with the speed ("releases them at the     *)
(* rate set by the packet's decoding time stamp", Scheduler.cpp).           *)
NotEarly == \A i \in DOMAIN out : out[i].due <= out[i].played

(* Nor is it kept: once its media time has passed it is sent, unless the    *)
(* client pauses, flushes, or a packet with an earlier dts moves iBase.     *)
Overdue ==
  /\ bSchedule /\ ~bPause /\ Started
  /\ IF vSend # <<>> THEN played >= Head(vSend).oSend
     ELSE vBuffer # <<>> /\ played >= Head(vBuffer).dts - iBase

OverdueIsSent ==
  \A n \in 0..MaxPackets : (Overdue /\ Len(out) = n) ~> (~Overdue \/ Len(out) # n)

(* The media time that process() would compute, frozen during a pause.      *)
Position ==
  LET t == IF bPause THEN oPause ELSE now IN
  IF oStarttime = 0 \/ t < oStarttime THEN 0
  ELSE IF fSpeed > 0 THEN Scaled(t) ELSE Elapsed(t)

(* Commands do not move the stream: pausing, resuming, and a change of      *)
(* speed leave the media time where it is; only the clock moves it on.      *)
CommandsKeepPosition ==
  [][(Pause \/ Play) => Position' = Position]_vars
=============================================================================

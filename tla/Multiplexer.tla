----------------------------- MODULE Multiplexer -----------------------------
(***************************************************************************)
(* The std-multiplexer and the unit-multiplexer (Multiplexer.cpp). Every   *)
(* stream comes from a component of its own, so that any number of packets *)
(* of one can arrive before the first of another; process() holds the      *)
(* multiplexer's lock while it releases packets one by one. The streams    *)
(* are parts of one packet stream (unit) or have their own clocks (dts).   *)
(***************************************************************************)
EXTENDS MuxQueues

CONSTANTS
  PerFrame, \* packets with the same dts
  Spread,   \* bound: by how much the unit may rise from packet to packet
  Resets,   \* bound: how often a stream is reset before it ends
  Quota     \* bound: the packets of one stream

ASSUME StreamAssumption ==
  /\ PerFrame \in Nat \ {0} /\ Spread \in Nat \ {0} /\ Resets \in Nat /\ Quota \in Nat

VARIABLES
  kind,    \* the class: "std" or "unit"
  busy,    \* process() holds oFlowMutex
  sent,    \* per stream: all the packets that arrived, in order
  merged   \* the packets routed, in order

vars == <<kind, mux, busy, sent, merged>>

Init ==
  /\ kind \in {"std", "unit"}
  /\ mux = [s \in {} |-> <<>>] /\ busy = FALSE
  /\ sent = [s \in Streams |-> <<>>] /\ merged = <<>>

-----------------------------------------------------------------------------
(* The streams. Units are numbers of one source that split its packets over *)
(* the streams, or each stream counts its own. A stream is reset, or ends,  *)
(* whatever the others do.                                                  *)

Controls(s) == Cardinality({i \in DOMAIN sent[s] : Control(sent[s][i])})
Over(s) == sent[s] # <<>> /\ Last(sent[s]).type = "end"
LastUnit(s) == IF sent[s] = <<>> THEN -1 ELSE Last(sent[s]).unit
Used == UNION {{sent[s][i].unit : i \in {j \in DOMAIN sent[s] : ~Control(sent[s][j])}} : s \in Streams}

Receive(s, p) ==
  /\ ~busy
  /\ mux' = Received(mux, s, p)
  /\ sent' = [sent EXCEPT ![s] = Append(@, p)]
  /\ UNCHANGED <<kind, busy, merged>>

Packet(s, type, u) ==
  [stream |-> s, type |-> type, unit |-> u, dts |-> u \div PerFrame,
   key |-> IF kind = "unit" THEN u ELSE u \div PerFrame,
   epoch |-> Controls(s) + 1]

Arrive(s) ==
  \E u \in LastUnit(s) + 1 .. LastUnit(s) + Spread :
    /\ ~Over(s) /\ Len(sent[s]) < Quota - 1
    /\ kind = "unit" => u \notin Used
    /\ Receive(s, Packet(s, "media", u))

ArriveControl(s) ==
  \E type \in {"reset", "end"} :
    /\ ~Over(s) /\ Len(sent[s]) < Quota
    /\ type = "reset" => Controls(s) < Resets /\ Len(sent[s]) < Quota - 1
    /\ Receive(s, Packet(s, type, LastUnit(s) + 1))

-----------------------------------------------------------------------------
(* process(): while the queues are ready, release one packet.               *)

BeginProcess == ~busy /\ CheckMux(mux) /\ busy' = TRUE /\ UNCHANGED <<kind, mux, sent, merged>>
EndProcess == busy /\ ~CheckMux(mux) /\ busy' = FALSE /\ UNCHANGED <<kind, mux, sent, merged>>

Release ==
  LET s == SelectMux(mux) IN
  /\ busy /\ CheckMux(mux) /\ s # None
  /\ merged' = Append(merged, Head(mux[s]))
  /\ mux' = [mux EXCEPT ![s] = Tail(@)]
  /\ UNCHANGED <<kind, busy, sent>>

ResetMux ==
  /\ busy /\ CheckMux(mux) /\ SelectMux(mux) = None
  /\ merged' = Append(merged, UnifiedOf(mux))
  /\ mux' = AfterReset(mux)
  /\ UNCHANGED <<kind, busy, sent>>

Done == (\A s \in Streams : Over(s)) /\ ~busy /\ ~CheckMux(mux) /\ UNCHANGED vars

Next ==
  \/ \E s \in Streams : Arrive(s) \/ ArriveControl(s)
  \/ BeginProcess \/ Release \/ ResetMux \/ EndProcess
  \/ Done

(* The multiplexer is scheduled in every pass, and process() ends.          *)
Fairness == WF_vars(BeginProcess) /\ WF_vars(Release) /\ WF_vars(ResetMux) /\ WF_vars(EndProcess)

Spec == Init /\ [][Next]_vars
FairSpec == Spec /\ Fairness

-----------------------------------------------------------------------------
(* The values every variable ranges over: a queue holds the last packets of *)
(* its stream.                                                              *)
Packets == [stream : Streams, type : {"media", "reset", "end"}, unit : Nat, dts : Nat,
            key : Nat, epoch : Nat]
TypeOK ==
  /\ kind \in {"std", "unit"} /\ busy \in BOOLEAN
  /\ DOMAIN mux \subseteq Streams /\ mux \in [DOMAIN mux -> Seq(Packets)]
  /\ sent \in [Streams -> Seq(Packets)] /\ merged \in Seq(Packets)
  /\ \A s \in Streams : \E n \in 0..Len(sent[s]) :
       Held(mux, s) = SubSeq(sent[s], n + 1, Len(sent[s]))

(* What a multiplexer promises: no packet is forwarded before an earlier    *)
(* one can be excluded, whatever the order in which the streams fill, and   *)
(* the streams are reset together.                                          *)
Abstract == INSTANCE MergedStreams WITH
  waiting <- [s \in Streams |-> Held(mux, s)],
  over <- {s \in Streams \ DOMAIN mux : sent[s] # <<>>}
Merges == Abstract!Spec

(* "the DTS and other timing information rise monotonely" (Multiplexer.cpp, *)
(* std-multiplexer), "the unitnumber rises" (unit-multiplexer): between two *)
(* control packets, across streams that started at different moments, were  *)
(* reset or ended. (Merges implies this and the next.)                      *)
KeysRise ==
  \A i, j \in DOMAIN merged :
    (i < j /\ ~Control(merged[i]) /\ ~Control(merged[j])
           /\ \A k \in i..j : ~Control(merged[k]))
      => merged[i].key <= merged[j].key

(* A reset separates: the packets between two control packets of the output *)
(* are those their streams sent between the same two of their own, although *)
(* the queues hold several of them when streams are out of step.            *)
EpochsAligned ==
  \A i \in DOMAIN merged : ~Control(merged[i]) =>
    merged[i].epoch = Cardinality({k \in 1..i : Control(merged[k])}) + 1

(* The first end: how many control packets the stream sent that ended with  *)
(* the fewest.                                                              *)
FirstEnd == CHOOSE n \in {Controls(s) : s \in Streams} : \A s \in Streams : n <= Controls(s)

(* When every stream has ended, all that was sent up to the first end comes *)
(* through. What a stream sends after that stays in its queue for good: the *)
(* end takes its stream out of the table, checkMux() finds fewer streams    *)
(* than there must be, and process() does nothing any more.                 *)
Drains ==
  (\A s \in Streams : Over(s)) ~>
    (\A s \in Streams : \A i \in DOMAIN Held(mux, s) : Held(mux, s)[i].epoch > FirstEnd)
=============================================================================

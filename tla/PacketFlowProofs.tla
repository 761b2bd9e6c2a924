-------------------------- MODULE PacketFlowProofs --------------------------
(***************************************************************************)
(* Theorems about the routing of packets, for any graph of components, any *)
(* of them in a thread of its own, in any order of initialisation: locks   *)
(* exclude each other, and along one path packets keep their order.        *)
(***************************************************************************)
EXTENDS PacketFlow, TLAPS, SequenceTheorems, FiniteSetTheorems

-----------------------------------------------------------------------------
(* TypeOK, by the variables it is about.                                    *)
Startup ==
  /\ done \in 0..Len(InitOrder) /\ alive \subseteq Threaded
  /\ inited \in [Comps -> BOOLEAN] /\ receive \in [Comps -> BOOLEAN]
  /\ \A c \in alive : inited[c]
Traffic ==
  /\ queue \in [Threaded -> Seq(Packets)] /\ got \in [Comps -> Seq(Packets)]
  /\ made \in [Sources -> 0..Quota]
Stacks == stack \in [Threads -> Seq(Frames)]
Exclusive ==
  \A t, u \in Threads : t # u =>
    \A i \in DOMAIN stack[t], j \in DOMAIN stack[u] : stack[t][i].comp # stack[u][j].comp

Typed == Startup /\ Traffic /\ Stacks /\ Exclusive

(* A component receives directly only after its init(), and before that     *)
(* nothing is queued for it.                                                *)
Opened ==
  /\ \A c \in Comps : receive[c] => inited[c]
  /\ \A c \in Threaded : ~inited[c] => queue[c] = <<>>

-----------------------------------------------------------------------------
(* The packets of a source, in the handlers, in the queues, and received.   *)
IsOf(f, s) == f.pkt # Visit /\ f.pkt[1] = s
Waiting(c) == IF c \in Threaded THEN queue[c] ELSE <<>>
Of(q, i, s) == {k \in 1..i : q[k][1] = s}

(* The handlers of a thread are about one packet, and call along the routes,*)
(* each receiver once.                                                      *)
Chain(t, s, R, depth) ==
  \A i \in DOMAIN stack[t] :
    /\ \A j \in DOMAIN stack[t] : stack[t][j].pkt = stack[t][i].pkt
    /\ IsOf(stack[t][i], s) =>
         /\ stack[t][i].comp \in R
         /\ \A j \in DOMAIN stack[t] : i < j => depth[stack[t][i].comp] < depth[stack[t][j].comp]
         /\ \A j \in DOMAIN stack[t][i].todo :
              /\ \E k \in DOMAIN Route[stack[t][i].comp] : stack[t][i].todo[j] = Route[stack[t][i].comp][k]
              /\ \A l \in DOMAIN stack[t][i].todo : stack[t][i].todo[j] = stack[t][i].todo[l] => j = l
Chains(s, R, depth) == \A t \in Threads : Chain(t, s, R, depth)

(* Packets of the source are only where a route leads from below it.        *)
Fed(c, R) == \E b \in R : \E k \in DOMAIN Route[b] : Route[b][k] = c
Below(s, R) ==
  \A c \in Comps :
    /\ \A i \in DOMAIN got[c] : got[c][i][1] = s => Fed(c, R)
    /\ \A i \in DOMAIN Waiting(c) : Waiting(c)[i][1] = s => Fed(c, R)

(* The packets of the source that a component has begun to handle, and of   *)
(* those, the ones it has sent to a receiver: while it is in the handler of *)
(* one and the receiver's turn has not come, all but that one.              *)
Begun(s, c) == IF c = s THEN made[s] ELSE Cardinality(Of(got[c], Len(got[c]), s))
Serves(t, s, c, d) ==
  \E i \in DOMAIN stack[t] :
    IsOf(stack[t][i], s) /\ stack[t][i].comp = c /\ \E j \in DOMAIN stack[t][i].todo : stack[t][i].todo[j] = d
Pending(s, c, d) == \E t \in Threads : Serves(t, s, c, d)
Passed(s, c, d) == Begun(s, c) - (IF Pending(s, c, d) THEN 1 ELSE 0)

(* Of the source, a queue holds a to b in this order.                       *)
Holding(q, s, a, b) ==
  /\ a <= b
  /\ \A i \in DOMAIN q : q[i][1] = s => a < q[i][2] /\ q[i][2] <= b
  /\ \A m \in a + 1..b : \E i \in DOMAIN q : q[i] = <<s, m>>
  /\ \A i, j \in DOMAIN q : i < j /\ q[i][1] = s /\ q[j][1] = s => q[i][2] < q[j][2]

(* A handler is about the packet its component began last; one committed to *)
(* a direct call has a receiver for which nothing waits; and what a         *)
(* component was sent is what it has begun and what waits.                  *)
Numbers(s) ==
  \A c \in Comps, t \in Threads : \A i \in DOMAIN stack[t] :
    IsOf(stack[t][i], s) /\ stack[t][i].comp = c => stack[t][i].pkt[2] = Begun(s, c)
Clear(c, s) == \A j \in DOMAIN Waiting(c) : Waiting(c)[j][1] # s
Committed(s) ==
  \A c \in Comps, t \in Threads : \A i \in DOMAIN stack[t] :
    IsOf(stack[t][i], s) /\ stack[t][i].direct =>
      stack[t][i].todo # <<>> /\ (Head(stack[t][i].todo) = c => Clear(c, s))
Sendings(s, R) ==
  \A c \in R : \A k \in DOMAIN Route[c] :
    Holding(Waiting(Route[c][k]), s, Begun(s, Route[c][k]), Passed(s, c, Route[c][k]))
Flow(s, R) == Numbers(s) /\ Committed(s) /\ Sendings(s, R)

(* Every packet is received as the one that is due.                         *)
Numbered(s) ==
  \A c \in Comps : \A i \in DOMAIN got[c] : got[c][i][1] = s => got[c][i][2] = Cardinality(Of(got[c], i, s))

Whole(s, R, depth) == Chains(s, R, depth) /\ Below(s, R) /\ Flow(s, R) /\ Numbered(s)

-----------------------------------------------------------------------------
(* The stacks.                                                              *)

(* What a step does to them: a thread enters a handler from nowhere, or it  *)
(* is in one and goes on to the next receiver, commits to a direct call,    *)
(* calls, or returns.                                                       *)
Enters(t, c, p) == stack[t] = <<>> /\ FreeFor(t, c) /\ stack' = [stack EXCEPT ![t] = <<Frame(c, p)>>]
Goes(t) == Busy(t) /\ stack' = [stack EXCEPT ![t] = Sent(t)]
Commits(t) == Busy(t) /\ stack' = [stack EXCEPT ![t][Len(stack[t])].direct = TRUE]
Calls(t) ==
  Busy(t) /\ FreeFor(t, Target(t)) /\ stack' = [stack EXCEPT ![t] = Append(Sent(t), Frame(Target(t), Top(t).pkt))]
Leaves(t) == stack[t] # <<>> /\ stack' = [stack EXCEPT ![t] = Front(@)]

(* The handler on top of a stack.                                           *)
LEMMA OnTop ==
  ASSUME Stacks, NEW t \in Threads
  PROVE  /\ stack[t] \in Seq(Frames) /\ Len(stack[t]) \in Nat /\ DOMAIN stack[t] = 1..Len(stack[t])
         /\ \A i \in DOMAIN stack[t] : stack[t][i] \in Frames
         /\ stack[t] # <<>> => Len(stack[t]) \in DOMAIN stack[t] /\ Top(t) = stack[t][Len(stack[t])] /\ Top(t) \in Frames
<1>1. stack[t] \in Seq(Frames)
  BY DEF Stacks
<1>2. Len(stack[t]) \in Nat /\ DOMAIN stack[t] = 1..Len(stack[t]) /\ \A i \in DOMAIN stack[t] : stack[t][i] \in Frames
  BY <1>1, LenProperties, ElementOfSeq
<1>3. stack[t] # <<>> => Len(stack[t]) \in DOMAIN stack[t]
  BY <1>1, <1>2, EmptySeq
<1> QED BY <1>1, <1>2, <1>3 DEF Top, Last

(* A new handler has all its receivers before it.                           *)
LEMMA NewFrame ==
  ASSUME NEW c \in Comps, NEW p \in Packets \cup {Visit}
  PROVE  /\ Frame(c, p) \in Frames /\ <<Frame(c, p)>> \in Seq(Frames)
         /\ Frame(c, p).comp = c /\ Frame(c, p).pkt = p /\ Frame(c, p).todo = Route[c] /\ ~Frame(c, p).direct
         /\ Route[c] \in Seq(Comps)
BY FlowAssumption DEF Frame, Frames

(* It goes on to the next receiver.                                         *)
LEMMA GoesOn ==
  ASSUME Stacks, NEW t \in Threads, Busy(t)
  PROVE  LET n == Len(stack[t]) IN
         /\ n \in DOMAIN stack[t] /\ Sent(t) \in Seq(Frames) /\ Len(Sent(t)) = n /\ DOMAIN Sent(t) = DOMAIN stack[t]
         /\ \A i \in DOMAIN stack[t] : i # n => Sent(t)[i] = stack[t][i]
         /\ Sent(t)[n].comp = Top(t).comp /\ Sent(t)[n].pkt = Top(t).pkt
         /\ Sent(t)[n].todo = Tail(Top(t).todo) /\ ~Sent(t)[n].direct
         /\ Top(t).todo \in Seq(Comps) /\ Top(t).todo # <<>> /\ Target(t) = Head(Top(t).todo) /\ Target(t) \in Comps
<1> DEFINE n == Len(stack[t])
           g == [Top(t) EXCEPT !.todo = Tail(@), !.direct = FALSE]
<1>1. /\ stack[t] \in Seq(Frames) /\ n \in Nat /\ DOMAIN stack[t] = 1..n /\ stack[t] # <<>>
      /\ n \in DOMAIN stack[t] /\ Top(t) = stack[t][n] /\ Top(t) \in Frames
  BY OnTop DEF Busy
<1>2. Top(t).todo \in Seq(Comps) /\ Top(t).todo # <<>>
  BY <1>1 DEF Frames, Busy, Top
<1>3. Head(Top(t).todo) \in Comps /\ Tail(Top(t).todo) \in Seq(Comps)
  BY <1>2, HeadTailProperties
<1>4. g \in Frames /\ g.comp = Top(t).comp /\ g.pkt = Top(t).pkt /\ g.todo = Tail(Top(t).todo) /\ ~g.direct
  BY <1>1, <1>3 DEF Frames
<1>5. Sent(t) = [stack[t] EXCEPT ![n] = g]
  BY <1>1 DEF Sent
<1> HIDE DEF g
<1>6. /\ Sent(t) \in Seq(Frames) /\ Len(Sent(t)) = n
      /\ \A i \in DOMAIN stack[t] : i # n => Sent(t)[i] = stack[t][i]
      /\ Sent(t)[n] = g
  BY <1>1, <1>4, <1>5, ExceptSeq
<1>7. DOMAIN Sent(t) = DOMAIN stack[t]
  BY <1>1, <1>6, LenProperties
<1> QED BY <1>1, <1>2, <1>3, <1>4, <1>6, <1>7 DEF Target

(* What becomes of the stack of the thread that steps; the others stay.     *)
LEMMA StackAfter ==
  ASSUME Stacks, NEW t \in Threads
  PROVE  /\ \A c \in Comps, p \in Packets \cup {Visit} : Enters(t, c, p) =>
              /\ stack' \in [Threads -> Seq(Frames)] /\ \A u \in Threads : u # t => stack'[u] = stack[u]
              /\ DOMAIN stack'[t] = {1} /\ stack'[t][1] = Frame(c, p)
         /\ Goes(t) =>
              /\ stack' \in [Threads -> Seq(Frames)] /\ \A u \in Threads : u # t => stack'[u] = stack[u]
              /\ stack'[t] = Sent(t)
         /\ Commits(t) =>
              /\ stack' \in [Threads -> Seq(Frames)] /\ \A u \in Threads : u # t => stack'[u] = stack[u]
              /\ DOMAIN stack'[t] = DOMAIN stack[t]
              /\ \A i \in DOMAIN stack[t] : i # Len(stack[t]) => stack'[t][i] = stack[t][i]
              /\ stack'[t][Len(stack[t])].comp = Top(t).comp /\ stack'[t][Len(stack[t])].pkt = Top(t).pkt
              /\ stack'[t][Len(stack[t])].todo = Top(t).todo
         /\ Calls(t) =>
              /\ stack' \in [Threads -> Seq(Frames)] /\ \A u \in Threads : u # t => stack'[u] = stack[u]
              /\ DOMAIN stack'[t] = DOMAIN stack[t] \cup {Len(stack[t]) + 1}
              /\ \A i \in DOMAIN stack[t] : stack'[t][i] = Sent(t)[i]
              /\ stack'[t][Len(stack[t]) + 1] = Frame(Target(t), Top(t).pkt)
         /\ Leaves(t) =>
              /\ stack' \in [Threads -> Seq(Frames)] /\ \A u \in Threads : u # t => stack'[u] = stack[u]
              /\ DOMAIN stack'[t] = DOMAIN stack[t] \ {Len(stack[t])}
              /\ \A i \in DOMAIN stack'[t] : stack'[t][i] = stack[t][i]
<1>0. /\ stack \in [Threads -> Seq(Frames)] /\ stack[t] \in Seq(Frames)
      /\ Len(stack[t]) \in Nat /\ DOMAIN stack[t] = 1..Len(stack[t])
      /\ stack[t] # <<>> => Len(stack[t]) \in DOMAIN stack[t] /\ Top(t) = stack[t][Len(stack[t])] /\ Top(t) \in Frames
  BY OnTop DEF Stacks
<1>00. \A q \in Seq(Frames) : stack' = [stack EXCEPT ![t] = q] =>
         /\ stack' \in [Threads -> Seq(Frames)] /\ stack'[t] = q /\ \A u \in Threads : u # t => stack'[u] = stack[u]
  BY <1>0
<1>1. ASSUME NEW c \in Comps, NEW p \in Packets \cup {Visit}, Enters(t, c, p)
      PROVE  /\ stack' \in [Threads -> Seq(Frames)] /\ \A u \in Threads : u # t => stack'[u] = stack[u]
             /\ DOMAIN stack'[t] = {1} /\ stack'[t][1] = Frame(c, p)
  <2>1. <<Frame(c, p)>> \in Seq(Frames)
    BY NewFrame
  <2>2. DOMAIN <<Frame(c, p)>> = {1} /\ <<Frame(c, p)>>[1] = Frame(c, p)
    OBVIOUS
  <2>3. stack' = [stack EXCEPT ![t] = <<Frame(c, p)>>]
    BY <1>1 DEF Enters
  <2> QED BY <1>00, <2>1, <2>2, <2>3
<1>2. ASSUME Goes(t)
      PROVE  /\ stack' \in [Threads -> Seq(Frames)] /\ \A u \in Threads : u # t => stack'[u] = stack[u]
             /\ stack'[t] = Sent(t)
  BY <1>00, <1>2, GoesOn DEF Goes
<1>3. ASSUME Commits(t)
      PROVE  /\ stack' \in [Threads -> Seq(Frames)] /\ \A u \in Threads : u # t => stack'[u] = stack[u]
             /\ DOMAIN stack'[t] = DOMAIN stack[t]
             /\ \A i \in DOMAIN stack[t] : i # Len(stack[t]) => stack'[t][i] = stack[t][i]
             /\ stack'[t][Len(stack[t])].comp = Top(t).comp /\ stack'[t][Len(stack[t])].pkt = Top(t).pkt
             /\ stack'[t][Len(stack[t])].todo = Top(t).todo
  <2> DEFINE n == Len(stack[t])
             g == [Top(t) EXCEPT !.direct = TRUE]
  <2>1. stack[t] # <<>> /\ n \in 1..Len(stack[t])
    BY <1>0, <1>3 DEF Commits, Busy
  <2>2. g \in Frames /\ g.comp = Top(t).comp /\ g.pkt = Top(t).pkt /\ g.todo = Top(t).todo
    BY <1>0, <2>1 DEF Frames
  <2>3. stack' = [stack EXCEPT ![t] = [stack[t] EXCEPT ![n] = g]]
    BY <1>0, <1>3, <2>1 DEF Commits
  <2> HIDE DEF g
  <2>4. /\ [stack[t] EXCEPT ![n] = g] \in Seq(Frames) /\ Len([stack[t] EXCEPT ![n] = g]) = n
        /\ \A j \in 1..Len(stack[t]) : [stack[t] EXCEPT ![n] = g][j] = IF j = n THEN g ELSE stack[t][j]
    BY <1>0, <2>1, <2>2, ExceptSeq
  <2>5. DOMAIN [stack[t] EXCEPT ![n] = g] = DOMAIN stack[t]
    OBVIOUS
  <2>6. stack' \in [Threads -> Seq(Frames)] /\ stack'[t] = [stack[t] EXCEPT ![n] = g]
        /\ \A u \in Threads : u # t => stack'[u] = stack[u]
    BY <1>00, <2>3, <2>4
  <2> QED BY <1>0, <2>1, <2>2, <2>4, <2>5, <2>6
<1>4. ASSUME Calls(t)
      PROVE  /\ stack' \in [Threads -> Seq(Frames)] /\ \A u \in Threads : u # t => stack'[u] = stack[u]
             /\ DOMAIN stack'[t] = DOMAIN stack[t] \cup {Len(stack[t]) + 1}
             /\ \A i \in DOMAIN stack[t] : stack'[t][i] = Sent(t)[i]
             /\ stack'[t][Len(stack[t]) + 1] = Frame(Target(t), Top(t).pkt)
  <2>1. /\ Sent(t) \in Seq(Frames) /\ Len(Sent(t)) = Len(stack[t]) /\ Target(t) \in Comps /\ Top(t) \in Frames
    BY <1>0, <1>4, GoesOn DEF Calls, Busy
  <2>2. Frame(Target(t), Top(t).pkt) \in Frames
    BY <2>1, NewFrame DEF Frames
  <2>3. \A q \in Seq(Frames), f \in Frames :
          /\ Append(q, f) \in Seq(Frames) /\ Len(Append(q, f)) = Len(q) + 1
          /\ \A i \in 1..Len(q) : Append(q, f)[i] = q[i]
          /\ Append(q, f)[Len(q) + 1] = f
    BY AppendProperties
  <2>4. PICK q \in Seq(Frames) : q = Append(Sent(t), Frame(Target(t), Top(t).pkt))
    BY <2>1, <2>2, <2>3
  <2>5. /\ Len(q) = Len(stack[t]) + 1 /\ (\A i \in 1..Len(stack[t]) : q[i] = Sent(t)[i])
        /\ q[Len(stack[t]) + 1] = Frame(Target(t), Top(t).pkt)
    BY <2>1, <2>2, <2>3, <2>4
  <2>6. DOMAIN q = 1..Len(stack[t]) + 1
    BY <2>5, LenProperties
  <2>7. stack' \in [Threads -> Seq(Frames)] /\ stack'[t] = q /\ \A u \in Threads : u # t => stack'[u] = stack[u]
    BY <1>00, <1>4, <2>4 DEF Calls
  <2> QED BY <1>0, <2>5, <2>6, <2>7
<1>5. ASSUME Leaves(t)
      PROVE  /\ stack' \in [Threads -> Seq(Frames)] /\ \A u \in Threads : u # t => stack'[u] = stack[u]
             /\ DOMAIN stack'[t] = DOMAIN stack[t] \ {Len(stack[t])}
             /\ \A i \in DOMAIN stack'[t] : stack'[t][i] = stack[t][i]
  <2>1. stack[t] # <<>> /\ Len(stack[t]) \in 1..Len(stack[t])
    BY <1>0, <1>5 DEF Leaves
  <2>2. \A i \in 1..Len(stack[t]) - 1 : stack[t][i] \in Frames
    BY <1>0, ElementOfSeq
  <2>3. PICK q : q = Front(stack[t])
    OBVIOUS
  <2>4. /\ q \in Seq(Frames) /\ Len(q) = (IF 1 <= Len(stack[t]) - 1 THEN Len(stack[t]) - 1 - 1 + 1 ELSE 0)
        /\ \A i \in 1..Len(stack[t]) - 1 - 1 + 1 : q[i] = stack[t][1 + i - 1]
    BY <1>0, <2>2, <2>3, SubSeqProperties DEF Front
  <2>5. Len(q) = Len(stack[t]) - 1 /\ \A i \in 1..Len(q) : q[i] = stack[t][i]
    <3>0. Len(stack[t]) \in Nat \ {0}
      BY <1>0, <2>1, EmptySeq
    <3>1. PICK n \in Nat \ {0} : n = Len(stack[t])
      BY <3>0
    <3>2. Len(q) = n - 1
      BY <2>4, <3>1
    <3>3. \A i \in 1..n - 1 : 1 + i - 1 = i /\ i \in 1..n - 1 - 1 + 1
      BY <3>1
    <3> QED BY <2>4, <3>1, <3>2, <3>3
  <2>6. DOMAIN q = 1..Len(stack[t]) - 1
    BY <2>4, <2>5, LenProperties
  <2>7. stack' \in [Threads -> Seq(Frames)] /\ stack'[t] = q /\ \A u \in Threads : u # t => stack'[u] = stack[u]
    BY <1>00, <1>5, <2>3, <2>4 DEF Leaves
  <2> QED BY <1>0, <2>1, <2>5, <2>6, <2>7
<1> QED BY <1>1, <1>2, <1>3, <1>4, <1>5
(* What a step does to the packets: one is made, taken from a queue, put    *)
(* into one, or received directly.                                          *)
Makes(s) ==
  /\ s \in Sources /\ made' = [made EXCEPT ![s] = @ + 1] /\ made[s] + 1 \in 1..Quota /\ UNCHANGED <<queue, got>>
  /\ Enters(Runner(s), s, <<s, made[s] + 1>>)
Takes(c) ==
  /\ c \in Threaded /\ queue[c] # <<>> /\ Head(queue[c]) \in Packets
  /\ queue' = [queue EXCEPT ![c] = Tail(queue[c])] /\ got' = [got EXCEPT ![c] = Append(got[c], Head(queue[c]))]
  /\ UNCHANGED made
  /\ Enters(c, c, Head(queue[c]))
Puts(t) ==
  /\ Target(t) \in Threaded /\ inited[Target(t)] /\ Top(t).pkt \in Packets
  /\ queue' = [queue EXCEPT ![Target(t)] = Append(queue[Target(t)], Top(t).pkt)] /\ UNCHANGED <<made, got>>
  /\ Goes(t)
Gives(t) ==
  /\ Target(t) \in Comps /\ Top(t).pkt \in Packets /\ receive[Target(t)]
  /\ (Target(t) \in Threaded /\ inited[Target(t)] => Top(t).direct)
  /\ got' = [got EXCEPT ![Target(t)] = Append(got[Target(t)], Top(t).pkt)] /\ UNCHANGED <<made, queue>>
  /\ Calls(t)

(* Otherwise no packet moves, and a thread walks the graph, commits or      *)
(* returns.                                                                 *)
Moves ==
  /\ UNCHANGED <<made, queue, got>>
  /\ \/ stack' = stack
     \/ \E t \in Threads :
          \/ \E c \in Comps : Enters(t, c, Visit)
          \/ Calls(t) /\ Top(t).pkt = Visit
          \/ Commits(t) /\ Top(t).pkt \in Packets /\ ~(Target(t) \in Threaded /\ inited[Target(t)])
          \/ Leaves(t) /\ Top(t).todo = <<>>

(* There is nothing else.                                                   *)
LEMMA Steps ==
  ASSUME Typed, Next
  PROVE  \/ \E s \in Sources : Makes(s)
         \/ \E c \in Threaded : Takes(c)
         \/ \E t \in Threads : Puts(t) \/ Gives(t)
         \/ Moves
<1>0. /\ Main \in Threads /\ Threaded \subseteq Threads /\ Threaded \subseteq Comps /\ Sources \subseteq Comps
      /\ (Starting => Newcomer \in Comps) /\ Stacks
  <2>1. Starting => done + 1 \in 1..Len(InitOrder)
    BY FlowAssumption, LenProperties DEF Starting, Typed, Startup
  <2> QED BY <2>1, FlowAssumption, ElementOfSeq DEF Threads, Newcomer, Typed
<1>1. CASE InitComp
  <2>1. UNCHANGED <<made, queue, got>>
    BY <1>1 DEF InitComp
  <2>2. stack' = stack \/ Enters(Main, Newcomer, Visit)
    BY <1>0, <1>1 DEF InitComp, Enters
  <2> QED BY <1>0, <1>1, <2>1, <2>2 DEF Moves, InitComp
<1>2. CASE StartThread \/ OpenComp \/ Done
  BY <1>2 DEF StartThread, OpenComp, Done, vars, Moves
<1>3. ASSUME NEW s \in Sources, Produce(s)
      PROVE  Makes(s)
  <2>1. made[s] + 1 \in 1..Quota
    BY <1>3, FlowAssumption DEF Produce, Typed, Traffic
  <2> QED BY <1>3, <2>1 DEF Produce, Makes, Enters
<1>4. ASSUME NEW c \in Threaded, Take(c)
      PROVE  Takes(c)
  <2>1. Head(queue[c]) \in Packets /\ queue \in [Threaded -> Seq(Packets)] /\ got \in [Comps -> Seq(Packets)]
    BY <1>4, HeadTailProperties DEF Take, Typed, Traffic
  <2> QED BY <1>4, <2>1 DEF Take, Takes, Enters
<1>5. ASSUME NEW t \in Threads, Busy(t)
      PROVE  Top(t).pkt \in Packets \cup {Visit} /\ Target(t) \in Comps
  BY <1>0, <1>5, GoesOn, OnTop DEF Busy, Frames
<1>6. Visit \notin Packets
  BY DEF Visit, Packets
<1>7. ASSUME NEW t \in Threads, Enqueue(t)
      PROVE  Puts(t)
  BY <1>0, <1>5, <1>7 DEF Enqueue, Puts, Goes, Queues
<1>8. ASSUME NEW t \in Threads, Spin(t)
      PROVE  Moves
  BY <1>0, <1>5, <1>8 DEF Spin, Moves, Commits, Queues
<1>9. ASSUME NEW t \in Threads, Call(t)
      PROVE  Gives(t) \/ Moves
  <2>1. Calls(t) /\ Busy(t) /\ UNCHANGED <<queue, made>>
    BY <1>9 DEF Call, Calls
  <2>2. CASE Top(t).pkt = Visit /\ UNCHANGED got
    BY <2>1, <2>2 DEF Moves
  <2>3. CASE Top(t).pkt # Visit
    BY <1>5, <1>9, <2>1, <2>3 DEF Call, Gives, Queues
  <2> QED BY <1>9, <2>2, <2>3 DEF Call
<1>10. ASSUME NEW t \in Threads, Return(t)
       PROVE  Moves
  BY <1>10 DEF Return, Moves, Leaves
<1> QED BY <1>1, <1>2, <1>3, <1>4, <1>7, <1>8, <1>9, <1>10 DEF Next

(* So every step is one of the five to the stacks, or leaves them.          *)
LEMMA StackSteps ==
  ASSUME Typed, Next
  PROVE  \/ stack' = stack
         \/ \E t \in Threads :
              \/ \E c \in Comps, p \in Packets \cup {Visit} : Enters(t, c, p)
              \/ Goes(t) \/ Commits(t) \/ Calls(t) \/ Leaves(t)
<1>1. \A s \in Sources : s \in Comps /\ Runner(s) \in Threads
  BY FlowAssumption DEF Runner, Threads
<1>2. \A c \in Threaded : c \in Comps /\ c \in Threads
  BY FlowAssumption DEF Threads
<1>3. \A s \in Sources, n \in 1..Quota : <<s, n>> \in Packets
  BY DEF Packets
<1> QED BY <1>1, <1>2, <1>3, Steps DEF Makes, Takes, Puts, Gives, Moves

(* What is initialised, and whose threads run.                              *)
LEMMA StartupKept == ASSUME Typed, Next PROVE Startup'
<1>0. /\ Len(InitOrder) \in Nat /\ (Starting => Newcomer \in Comps)
      /\ done \in 0..Len(InitOrder) /\ alive \subseteq Threaded /\ (\A c \in alive : inited[c])
      /\ inited \in [Comps -> BOOLEAN] /\ receive \in [Comps -> BOOLEAN] /\ Threaded \subseteq Comps
  <2>1. Starting => done + 1 \in 1..Len(InitOrder)
    BY FlowAssumption, LenProperties DEF Starting, Typed, Startup
  <2> QED BY <2>1, FlowAssumption, ElementOfSeq, LenProperties DEF Newcomer, Typed, Startup
<1>1. CASE InitComp
  <2>1. inited' = [inited EXCEPT ![Newcomer] = TRUE] /\ Newcomer \in Comps /\ UNCHANGED <<done, alive, receive>>
    BY <1>0, <1>1 DEF InitComp
  <2> QED BY <1>0, <2>1 DEF Startup
<1>2. CASE StartThread
  <2>1. alive' = alive \cup {Newcomer} /\ Newcomer \in Threaded /\ inited[Newcomer] /\ UNCHANGED <<done, inited, receive>>
    BY <1>2 DEF StartThread
  <2> QED BY <1>0, <2>1 DEF Startup
<1>3. CASE OpenComp
  <2>1. /\ receive' = [receive EXCEPT ![Newcomer] = TRUE] /\ done' = done + 1 /\ done < Len(InitOrder)
        /\ UNCHANGED <<inited, alive>>
    BY <1>3 DEF OpenComp, Starting
  <2>2. done' \in 0..Len(InitOrder)
    BY <1>0, <2>1
  <2>3. receive' \in [Comps -> BOOLEAN]
    BY <1>0, <1>3, <2>1 DEF OpenComp
  <2> QED BY <1>0, <2>1, <2>2, <2>3 DEF Startup
<1>4. CASE ~InitComp /\ ~StartThread /\ ~OpenComp
  <2>1. UNCHANGED <<done, inited, alive, receive>>
    BY <1>4 DEF Next, Produce, Take, Enqueue, Spin, Call, Return, Done, vars
  <2> QED BY <1>0, <2>1 DEF Startup
<1> QED BY <1>1, <1>2, <1>3, <1>4

(* Every step keeps the stacks, and the locks exclude each other.           *)
LEMMA StacksKept == ASSUME Typed, Next PROVE Stacks' /\ Exclusive'
<1>0. Stacks /\ Exclusive
  BY DEF Typed
<1>1. ASSUME NEW t \in Threads,
             stack' \in [Threads -> Seq(Frames)], \A u \in Threads : u # t => stack'[u] = stack[u],
             \A i \in DOMAIN stack'[t] :
               \/ FreeFor(t, stack'[t][i].comp)
               \/ i \in DOMAIN stack[t] /\ stack'[t][i].comp = stack[t][i].comp
      PROVE  Stacks' /\ Exclusive'
  <2>1. Stacks'
    BY <1>1 DEF Stacks
  <2>2. \A u \in Threads : \A i \in DOMAIN stack'[t], j \in DOMAIN stack[u] :
          u # t => stack'[t][i].comp # stack[u][j].comp
    BY <1>0, <1>1 DEF FreeFor, Holds, Exclusive
  <2>3. Exclusive'
    BY <1>0, <1>1, <2>2 DEF Exclusive
  <2> QED BY <2>1, <2>3
<1>2. ASSUME NEW t \in Threads, NEW c \in Comps, NEW p \in Packets \cup {Visit}, Enters(t, c, p)
      PROVE  Stacks' /\ Exclusive'
  <2>1. FreeFor(t, c) /\ Frame(c, p).comp = c
    BY <1>2, NewFrame DEF Enters
  <2> QED BY <1>0, <1>1, <1>2, <2>1, StackAfter
<1>3. ASSUME NEW t \in Threads, Goes(t)
      PROVE  Stacks' /\ Exclusive'
  <2>1. DOMAIN Sent(t) = DOMAIN stack[t] /\ \A i \in DOMAIN stack[t] : Sent(t)[i].comp = stack[t][i].comp
    BY <1>0, <1>3, GoesOn, OnTop DEF Goes, Busy
  <2> QED BY <1>0, <1>1, <1>3, <2>1, StackAfter
<1>4. ASSUME NEW t \in Threads, Commits(t)
      PROVE  Stacks' /\ Exclusive'
  <2>1. Top(t) = stack[t][Len(stack[t])]
    BY <1>0, <1>4, OnTop DEF Commits, Busy
  <2>2. /\ stack' \in [Threads -> Seq(Frames)] /\ (\A u \in Threads : u # t => stack'[u] = stack[u])
        /\ DOMAIN stack'[t] = DOMAIN stack[t]
        /\ (\A i \in DOMAIN stack[t] : i # Len(stack[t]) => stack'[t][i] = stack[t][i])
        /\ stack'[t][Len(stack[t])].comp = Top(t).comp
    BY <1>0, <1>4, StackAfter
  <2> QED BY <1>1, <2>1, <2>2
<1>5. ASSUME NEW t \in Threads, Calls(t)
      PROVE  Stacks' /\ Exclusive'
  <2>1. \A i \in DOMAIN stack[t] : Sent(t)[i].comp = stack[t][i].comp
    BY <1>0, <1>5, GoesOn, OnTop DEF Calls, Busy
  <2>2. FreeFor(t, Target(t)) /\ Target(t) \in Comps /\ Top(t) \in Frames
    BY <1>0, <1>5, GoesOn, OnTop DEF Calls, Busy
  <2>3. Frame(Target(t), Top(t).pkt).comp = Target(t)
    BY <2>2, NewFrame DEF Frames
  <2>4. /\ stack' \in [Threads -> Seq(Frames)] /\ (\A u \in Threads : u # t => stack'[u] = stack[u])
        /\ DOMAIN stack'[t] = DOMAIN stack[t] \cup {Len(stack[t]) + 1}
        /\ (\A i \in DOMAIN stack[t] : stack'[t][i] = Sent(t)[i])
        /\ stack'[t][Len(stack[t]) + 1] = Frame(Target(t), Top(t).pkt)
    BY <1>0, <1>5, StackAfter
  <2> QED BY <1>1, <2>1, <2>2, <2>3, <2>4
<1>6. ASSUME NEW t \in Threads, Leaves(t)
      PROVE  Stacks' /\ Exclusive'
  BY <1>0, <1>1, <1>6, StackAfter
<1>7. CASE stack' = stack
  BY <1>0, <1>7 DEF Stacks, Exclusive
<1> QED BY <1>2, <1>3, <1>4, <1>5, <1>6, <1>7, StackSteps
(* Every packet is one that a source has made.                              *)
LEMMA TrafficKept == ASSUME Typed, Next PROVE Traffic'
<1>0. /\ queue \in [Threaded -> Seq(Packets)] /\ got \in [Comps -> Seq(Packets)] /\ made \in [Sources -> 0..Quota]
      /\ Quota \in Nat /\ Threaded \subseteq Comps
  BY FlowAssumption DEF Typed, Traffic
<1>00. /\ \A q \in Seq(Packets) : q # <<>> => Tail(q) \in Seq(Packets)
       /\ \A q \in Seq(Packets), p \in Packets : Append(q, p) \in Seq(Packets)
  <2>1. \A q \in Seq(Packets) : q # <<>> => Tail(q) \in Seq(Packets)
    BY HeadTailProperties
  <2>2. \A q \in Seq(Packets), p \in Packets : Append(q, p) \in Seq(Packets)
    BY AppendProperties
  <2> QED BY <2>1, <2>2
<1>1. ASSUME NEW s \in Sources, Makes(s)
      PROVE  Traffic'
  <2>1. made[s] + 1 \in 0..Quota
    BY <1>0, <1>1 DEF Makes
  <2> QED BY <1>0, <1>1, <2>1 DEF Makes, Traffic
<1>2. ASSUME NEW c \in Threaded, Takes(c)
      PROVE  Traffic'
  <2>1. Tail(queue[c]) \in Seq(Packets) /\ Append(got[c], Head(queue[c])) \in Seq(Packets)
    BY <1>0, <1>00, <1>2 DEF Takes
  <2> QED BY <1>0, <1>2, <2>1 DEF Takes, Traffic
<1>3. ASSUME NEW t \in Threads, Puts(t)
      PROVE  Traffic'
  <2>1. Append(queue[Target(t)], Top(t).pkt) \in Seq(Packets)
    BY <1>0, <1>00, <1>3 DEF Puts
  <2> QED BY <1>0, <1>3, <2>1 DEF Puts, Traffic
<1>4. ASSUME NEW t \in Threads, Gives(t)
      PROVE  Traffic'
  <2>1. Append(got[Target(t)], Top(t).pkt) \in Seq(Packets)
    BY <1>0, <1>00, <1>4 DEF Gives
  <2> QED BY <1>0, <1>4, <2>1 DEF Gives, Traffic
<1>5. CASE Moves
  BY <1>0, <1>5 DEF Moves, Traffic
<1> QED BY <1>1, <1>2, <1>3, <1>4, <1>5, Steps

(* At the start nothing runs and nothing waits.                             *)
LEMMA TypedAtStart == Init => Typed /\ Opened
<1> SUFFICES ASSUME Init PROVE Typed /\ Opened
  OBVIOUS
<1>0. <<>> \in Seq(Packets) /\ <<>> \in Seq(Frames) /\ Len(InitOrder) \in Nat /\ Quota \in Nat /\ Threaded \subseteq Comps
  BY EmptySeq, FlowAssumption, LenProperties
<1>1. Startup /\ Traffic /\ Stacks
  BY <1>0 DEF Init, Startup, Traffic, Stacks
<1>2. \A t \in Threads : stack[t] = <<>>
  BY DEF Init
<1>3. Exclusive
  BY <1>2 DEF Exclusive
<1>4. Opened
  BY <1>0 DEF Init, Opened
<1> QED BY <1>1, <1>3, <1>4 DEF Typed

(* Every step, and every stuttering one, keeps the values and the locks.    *)
LEMMA TypedKept == Typed /\ [Next]_vars => Typed'
<1> SUFFICES ASSUME Typed, [Next]_vars PROVE Typed'
  OBVIOUS
<1>1. CASE Next
  BY <1>1, StartupKept, TrafficKept, StacksKept DEF Typed
<1>2. CASE UNCHANGED vars
  BY <1>2 DEF Typed, Startup, Traffic, Stacks, Exclusive, vars
<1> QED BY <1>1, <1>2

(* They are those of TypeOK.                                                *)
LEMMA TypedIsOK == Typed => TypeOK
BY DEF Typed, TypeOK, Startup, Traffic, Stacks, Exclusive, Holds

(* The values of all variables, and no two threads are ever in handlers of  *)
(* one component: the locks that route() takes one inside the other.        *)
THEOREM TypeCorrect == Spec => []TypeOK
BY TypedAtStart, TypedKept, TypedIsOK, PTL DEF Spec

(* What is queued is queued for a component that is initialised.            *)
LEMMA OpenedKept == Typed /\ Opened /\ [Next]_vars => Opened'
<1> SUFFICES ASSUME Typed, Opened, [Next]_vars PROVE Opened'
  OBVIOUS
<1>0. /\ queue \in [Threaded -> Seq(Packets)] /\ inited \in [Comps -> BOOLEAN] /\ receive \in [Comps -> BOOLEAN]
      /\ Threaded \subseteq Comps
  BY FlowAssumption DEF Typed, Traffic, Startup
<1>1. \A c \in Comps : inited[c] => inited'[c]
  <2>1. inited' = inited \/ inited' = [inited EXCEPT ![Newcomer] = TRUE]
    BY DEF Next, InitComp, StartThread, OpenComp, Produce, Take, Enqueue, Spin, Call, Return, Done, vars
  <2> QED BY <1>0, <2>1
<1>2. \A c \in Comps : receive'[c] => inited'[c]
  <2>1. receive' = receive \/ (receive' = [receive EXCEPT ![Newcomer] = TRUE] /\ inited[Newcomer])
    BY DEF Next, InitComp, StartThread, OpenComp, Produce, Take, Enqueue, Spin, Call, Return, Done, vars
  <2> QED BY <1>0, <1>1, <2>1 DEF Opened
<1>3. ASSUME NEW c \in Threaded, ~inited'[c]
      PROVE  queue'[c] = <<>>
  <2>1. queue[c] = <<>> /\ ~inited[c]
    BY <1>0, <1>1, <1>3 DEF Opened
  <2>2. CASE UNCHANGED vars
    BY <2>1, <2>2 DEF vars
  <2>3. CASE Next
    BY <1>0, <2>1, <2>3, Steps DEF Makes, Takes, Puts, Gives, Moves
  <2> QED BY <2>2, <2>3
<1> QED BY <1>2, <1>3 DEF Opened

-----------------------------------------------------------------------------
(* The order of the packets of one source.                                  *)

(* The first of a queue, and the others move up.                            *)
LEMMA Shift ==
  ASSUME NEW S, NEW q \in Seq(S), q # <<>>
  PROVE  /\ 1 \in DOMAIN q /\ Head(q) = q[1] /\ Len(q) \in Nat /\ DOMAIN q = 1..Len(q)
         /\ Tail(q) \in Seq(S) /\ Len(Tail(q)) = Len(q) - 1
         /\ \A k \in DOMAIN Tail(q) : k \in Nat \ {0} /\ k + 1 \in DOMAIN q /\ Tail(q)[k] = q[k + 1]
         /\ \A k \in DOMAIN q : k # 1 => k - 1 \in DOMAIN Tail(q) /\ Tail(q)[k - 1] = q[k]
<1>1. Len(q) \in Nat /\ Len(q) # 0 /\ DOMAIN q = 1..Len(q)
  BY LenProperties, EmptySeq
<1>2. Head(q) = q[1]
  OBVIOUS
<1>3. /\ Tail(q) \in Seq(S) /\ Len(Tail(q)) = Len(q) - 1
      /\ \A k \in 1..Len(Tail(q)) : Tail(q)[k] = q[k + 1]
  BY HeadTailProperties
<1>4. DOMAIN Tail(q) = 1..(Len(q) - 1)
  BY <1>3, LenProperties
<1> QED BY <1>1, <1>2, <1>3, <1>4

(* Everything in R goes on in R, deeper, and one receiver is one route.     *)
LEMMA Receivers ==
  ASSUME NEW s \in Sources, NEW R \in SUBSET Comps, NEW depth \in [Comps -> Nat], Tree(s, R, depth), NEW c \in R
  PROVE  /\ Route[c] \in Seq(Comps)
         /\ \A k \in DOMAIN Route[c] :
              /\ Route[c][k] \in R /\ Route[c][k] # s /\ Route[c][k] \in Comps /\ depth[Route[c][k]] > depth[c]
              /\ \A d \in R : \A l \in DOMAIN Route[d] : Route[d][l] = Route[c][k] => d = c /\ l = k
BY FlowAssumption DEF Tree

(* The handlers of a thread are a chain of calls.                           *)
LEMMA ChainsKept ==
  ASSUME NEW s \in Sources, NEW R \in SUBSET Comps, NEW depth \in [Comps -> Nat], Tree(s, R, depth),
         Typed, Chains(s, R, depth), Below(s, R), Next
  PROVE  Chains(s, R, depth)'
<1>0. Stacks
  BY DEF Typed
<1>a. \A c \in R : \A j \in DOMAIN Route[c] :
        /\ Route[c][j] \in R /\ depth[Route[c][j]] > depth[c]
        /\ \E k \in DOMAIN Route[c] : Route[c][j] = Route[c][k]
        /\ \A l \in DOMAIN Route[c] : Route[c][j] = Route[c][l] => j = l
  <2> SUFFICES ASSUME NEW c \in R, NEW j \in DOMAIN Route[c]
               PROVE  /\ Route[c][j] \in R /\ depth[Route[c][j]] > depth[c]
                      /\ \A l \in DOMAIN Route[c] : Route[c][j] = Route[c][l] => j = l
    OBVIOUS
  <2> QED BY DEF Tree
<1>b. \A t \in Threads : \A i, j \in DOMAIN stack[t] : stack[t][j].pkt = stack[t][i].pkt
  BY DEF Chains, Chain
<1>c. \A t \in Threads : \A i \in DOMAIN stack[t] : IsOf(stack[t][i], s) =>
        /\ stack[t][i].comp \in R
        /\ \A j \in DOMAIN stack[t] : i < j => depth[stack[t][i].comp] < depth[stack[t][j].comp]
        /\ \A j \in DOMAIN stack[t][i].todo :
             \E k \in DOMAIN Route[stack[t][i].comp] : stack[t][i].todo[j] = Route[stack[t][i].comp][k]
  BY DEF Chains, Chain
<1>1. ASSUME NEW t \in Threads, \A u \in Threads : u # t => stack'[u] = stack[u], Chain(t, s, R, depth)'
      PROVE  Chains(s, R, depth)'
  BY <1>1 DEF Chains, Chain, IsOf
<1>2. ASSUME NEW t \in Threads, NEW c \in Comps, NEW p \in Packets \cup {Visit}, Enters(t, c, p),
             p # Visit /\ p[1] = s => c \in R
      PROVE  Chains(s, R, depth)'
  <2>1. /\ DOMAIN stack'[t] = {1} /\ stack'[t][1] = Frame(c, p) /\ \A u \in Threads : u # t => stack'[u] = stack[u]
    BY <1>0, <1>2, StackAfter
  <2>2. Frame(c, p).comp = c /\ Frame(c, p).pkt = p /\ Frame(c, p).todo = Route[c]
    BY NewFrame
  <2>3. ASSUME IsOf(Frame(c, p), s)
        PROVE  c \in R
    BY <1>2, <2>2, <2>3 DEF IsOf
  <2>4. Chain(t, s, R, depth)'
    BY <1>a, <2>1, <2>2, <2>3 DEF Chain, IsOf
  <2> QED BY <1>1, <2>1, <2>4
<1>3. ASSUME NEW t \in Threads, Busy(t)
      PROVE  /\ \A i \in DOMAIN stack[t] : Sent(t)[i].comp = stack[t][i].comp /\ Sent(t)[i].pkt = stack[t][i].pkt
             /\ \A i \in DOMAIN stack[t] : IsOf(stack[t][i], s) => \A j \in DOMAIN Sent(t)[i].todo :
                  /\ \E k \in DOMAIN Route[stack[t][i].comp] : Sent(t)[i].todo[j] = Route[stack[t][i].comp][k]
                  /\ \A l \in DOMAIN Sent(t)[i].todo : Sent(t)[i].todo[j] = Sent(t)[i].todo[l] => j = l
  <2>1. /\ Len(stack[t]) \in DOMAIN stack[t] /\ Top(t) = stack[t][Len(stack[t])]
        /\ Sent(t)[Len(stack[t])].comp = Top(t).comp /\ Sent(t)[Len(stack[t])].pkt = Top(t).pkt
        /\ Sent(t)[Len(stack[t])].todo = Tail(Top(t).todo) /\ Top(t).todo \in Seq(Comps) /\ Top(t).todo # <<>>
        /\ \A i \in DOMAIN stack[t] : i # Len(stack[t]) => Sent(t)[i] = stack[t][i]
    BY <1>0, <1>3, GoesOn, OnTop DEF Busy
  <2>2. \A k \in DOMAIN Tail(Top(t).todo) : k \in Nat /\ k + 1 \in DOMAIN Top(t).todo /\ Tail(Top(t).todo)[k] = Top(t).todo[k + 1]
    BY <2>1, Shift, SMTT(30)
  <2>3. \A i \in DOMAIN stack[t] : Sent(t)[i].comp = stack[t][i].comp /\ Sent(t)[i].pkt = stack[t][i].pkt
    BY <2>1
  <2>4. ASSUME NEW i \in DOMAIN stack[t], IsOf(stack[t][i], s), NEW j \in DOMAIN Sent(t)[i].todo
        PROVE  /\ \E k \in DOMAIN Route[stack[t][i].comp] : Sent(t)[i].todo[j] = Route[stack[t][i].comp][k]
               /\ \A l \in DOMAIN Sent(t)[i].todo : Sent(t)[i].todo[j] = Sent(t)[i].todo[l] => j = l
    <3>1. \A m \in DOMAIN stack[t][i].todo :
            /\ \E k \in DOMAIN Route[stack[t][i].comp] : stack[t][i].todo[m] = Route[stack[t][i].comp][k]
            /\ \A l \in DOMAIN stack[t][i].todo : stack[t][i].todo[m] = stack[t][i].todo[l] => m = l
      BY <2>4 DEF Chains, Chain
    <3>2. CASE i # Len(stack[t])
      BY <2>1, <2>4, <3>1, <3>2, SMTT(30)
    <3>3. CASE i = Len(stack[t])
      <4>1. Sent(t)[i].todo = Tail(Top(t).todo) /\ stack[t][i] = Top(t)
        BY <2>1, <3>3
      <4>2. j + 1 \in DOMAIN Top(t).todo /\ Sent(t)[i].todo[j] = Top(t).todo[j + 1]
        BY <2>2, <2>4, <4>1
      <4>3. ASSUME NEW l \in DOMAIN Sent(t)[i].todo, Sent(t)[i].todo[j] = Sent(t)[i].todo[l]
            PROVE  j = l
        <5>1. l \in Nat /\ j \in Nat /\ l + 1 \in DOMAIN Top(t).todo /\ Sent(t)[i].todo[l] = Top(t).todo[l + 1]
          BY <2>2, <2>4, <4>1, <4>3
        <5>2. j + 1 = l + 1
          BY <3>1, <4>1, <4>2, <4>3, <5>1
        <5> QED BY <5>1, <5>2
      <4> QED BY <3>1, <4>1, <4>2, <4>3
    <3> QED BY <3>2, <3>3
  <2> QED BY <2>3, <2>4
<1>4. ASSUME NEW t \in Threads, Goes(t)
      PROVE  Chains(s, R, depth)'
  <2>1. Busy(t) /\ stack'[t] = Sent(t) /\ (\A u \in Threads : u # t => stack'[u] = stack[u]) /\ DOMAIN Sent(t) = DOMAIN stack[t]
    BY <1>0, <1>4, StackAfter, GoesOn DEF Goes
  <2>2. Chain(t, s, R, depth)'
    BY <1>3, <2>1 DEF Chains, Chain, IsOf
  <2> QED BY <1>1, <2>1, <2>2
<1>5. ASSUME NEW t \in Threads, Commits(t)
      PROVE  Chains(s, R, depth)'
  <2>1. Top(t) = stack[t][Len(stack[t])]
    BY <1>0, <1>5, OnTop DEF Commits, Busy
  <2>2. /\ (\A u \in Threads : u # t => stack'[u] = stack[u])
        /\ DOMAIN stack'[t] = DOMAIN stack[t]
        /\ (\A i \in DOMAIN stack[t] : i # Len(stack[t]) => stack'[t][i] = stack[t][i])
        /\ stack'[t][Len(stack[t])].comp = Top(t).comp /\ stack'[t][Len(stack[t])].pkt = Top(t).pkt
        /\ stack'[t][Len(stack[t])].todo = Top(t).todo
    BY <1>0, <1>5, StackAfter
  <2>3. \A i \in DOMAIN stack[t] : /\ stack'[t][i].comp = stack[t][i].comp /\ stack'[t][i].pkt = stack[t][i].pkt
                                   /\ stack'[t][i].todo = stack[t][i].todo
    BY <2>1, <2>2
  <2>4. Chain(t, s, R, depth)'
    BY <2>2, <2>3, SMTT(30) DEF Chains, Chain, IsOf
  <2> QED BY <1>1, <2>2, <2>4
<1>6. ASSUME NEW t \in Threads, Calls(t)
      PROVE  Chains(s, R, depth)'
  <2>1. /\ (\A u \in Threads : u # t => stack'[u] = stack[u])
        /\ DOMAIN stack'[t] = DOMAIN stack[t] \cup {Len(stack[t]) + 1}
        /\ (\A i \in DOMAIN stack[t] : stack'[t][i] = Sent(t)[i])
        /\ stack'[t][Len(stack[t]) + 1] = Frame(Target(t), Top(t).pkt)
    BY <1>0, <1>6, StackAfter
  <2>2. /\ Busy(t) /\ Target(t) \in Comps /\ Top(t) \in Frames /\ Target(t) = Head(Top(t).todo)
        /\ Len(stack[t]) \in Nat /\ DOMAIN stack[t] = 1..Len(stack[t])
        /\ Len(stack[t]) \in DOMAIN stack[t] /\ Top(t) = stack[t][Len(stack[t])]
        /\ Top(t).todo \in Seq(Comps) /\ Top(t).todo # <<>>
    BY <1>0, <1>6, GoesOn, OnTop DEF Calls, Busy
  <2>3. /\ Frame(Target(t), Top(t).pkt).comp = Target(t) /\ Frame(Target(t), Top(t).pkt).pkt = Top(t).pkt
        /\ Frame(Target(t), Top(t).pkt).todo = Route[Target(t)]
    BY <2>2, NewFrame DEF Frames
  <2>4. ASSUME IsOf(Top(t), s)
        PROVE  Target(t) \in R /\ depth[Target(t)] > depth[Top(t).comp]
    <3>1. 1 \in DOMAIN Top(t).todo /\ Target(t) = Top(t).todo[1]
      BY <2>2, Shift
    <3>2. PICK k \in DOMAIN Route[Top(t).comp] : Target(t) = Route[Top(t).comp][k]
      <4>1. PICK n \in DOMAIN stack[t] : stack[t][n] = Top(t)
        BY <2>2
      <4>2. \A j \in DOMAIN Top(t).todo : \E k \in DOMAIN Route[Top(t).comp] : Top(t).todo[j] = Route[Top(t).comp][k]
        BY <1>c, <2>4, <4>1
      <4> QED BY <3>1, <4>2
    <3>3. Top(t).comp \in R
      BY <1>c, <2>2, <2>4
    <3> QED BY <1>a, <3>2, <3>3
  <2>5. ASSUME NEW i \in DOMAIN stack[t], IsOf(stack[t][i], s)
        PROVE  depth[stack[t][i].comp] < depth[Target(t)]
    <3>1. IsOf(Top(t), s)
      BY <2>2, <2>5 DEF Chains, Chain, IsOf
    <3>2. i = Len(stack[t]) \/ depth[stack[t][i].comp] < depth[Top(t).comp]
      BY <2>2, <2>5 DEF Chains, Chain
    <3>3. stack[t][i].comp \in R /\ Top(t).comp \in R
      BY <2>2, <2>5, <3>1 DEF Chains, Chain
    <3>4. depth[stack[t][i].comp] \in Nat /\ depth[Top(t).comp] \in Nat /\ depth[Target(t)] \in Nat
      BY <2>2, <3>3
    <3> QED BY <2>2, <2>4, <3>1, <3>2, <3>4
  <2>6. \A i, j \in DOMAIN stack'[t] : stack'[t][j].pkt = stack'[t][i].pkt
    <3>1. \A i \in DOMAIN stack[t] : stack'[t][i].pkt = Top(t).pkt
      BY <1>3, <1>b, <2>1, <2>2
    <3>2. \A i \in DOMAIN stack'[t] : stack'[t][i].pkt = Top(t).pkt
      BY <2>1, <2>3, <3>1
    <3> QED BY <3>2
  <2>7. ASSUME NEW i \in DOMAIN stack'[t], IsOf(stack'[t][i], s)
        PROVE  /\ stack'[t][i].comp \in R
               /\ \A j \in DOMAIN stack'[t] : i < j => depth[stack'[t][i].comp] < depth[stack'[t][j].comp]
               /\ \A j \in DOMAIN stack'[t][i].todo :
                    /\ \E k \in DOMAIN Route[stack'[t][i].comp] : stack'[t][i].todo[j] = Route[stack'[t][i].comp][k]
                    /\ \A l \in DOMAIN stack'[t][i].todo : stack'[t][i].todo[j] = stack'[t][i].todo[l] => j = l
    <3>1. CASE i = Len(stack[t]) + 1
      <4>1. Target(t) \in R
        BY <2>1, <2>3, <2>4, <2>7, <3>1 DEF IsOf
      <4>2. \A j \in DOMAIN stack'[t] : ~(i < j)
        BY <2>1, <2>2, <3>1
      <4>3. stack'[t][i].comp = Target(t) /\ stack'[t][i].todo = Route[Target(t)]
        BY <2>1, <2>3, <3>1
      <4> QED BY <1>a, <4>1, <4>2, <4>3
    <3>2. CASE i \in DOMAIN stack[t]
      <4>1. stack'[t][i].comp = stack[t][i].comp /\ stack'[t][i].todo = Sent(t)[i].todo /\ IsOf(stack[t][i], s)
        BY <1>3, <2>1, <2>2, <2>7, <3>2 DEF IsOf
      <4>2. \A j \in DOMAIN stack[t] : i < j => depth[stack'[t][i].comp] < depth[stack'[t][j].comp]
        <5>1. \A j \in DOMAIN stack[t] : i < j => depth[stack[t][i].comp] < depth[stack[t][j].comp]
          BY <1>c, <3>2, <4>1
        <5>2. \A j \in DOMAIN stack[t] : stack'[t][j].comp = stack[t][j].comp
          BY <1>3, <2>1, <2>2
        <5> QED BY <4>1, <5>1, <5>2
      <4>3. \A j \in DOMAIN stack'[t] : i < j => depth[stack'[t][i].comp] < depth[stack'[t][j].comp]
        BY <2>1, <2>3, <2>5, <3>2, <4>1, <4>2
      <4>4. stack'[t][i].comp \in R
        BY <1>c, <3>2, <4>1
      <4>5. \A j \in DOMAIN Sent(t)[i].todo :
              /\ \E k \in DOMAIN Route[stack[t][i].comp] : Sent(t)[i].todo[j] = Route[stack[t][i].comp][k]
              /\ \A l \in DOMAIN Sent(t)[i].todo : Sent(t)[i].todo[j] = Sent(t)[i].todo[l] => j = l
        BY <1>3, <2>2, <3>2, <4>1
      <4> QED BY ONLY <4>1, <4>3, <4>4, <4>5, Zenon
    <3> QED BY <2>1, <2>7, <3>1, <3>2
  <2>8. Chain(t, s, R, depth)'
    BY <2>6, <2>7 DEF Chain, IsOf
  <2> QED BY <1>1, <2>1, <2>8
<1>7. ASSUME NEW t \in Threads, Leaves(t)
      PROVE  Chains(s, R, depth)'
  <2>1. /\ (\A u \in Threads : u # t => stack'[u] = stack[u])
        /\ DOMAIN stack'[t] \subseteq DOMAIN stack[t]
        /\ \A i \in DOMAIN stack'[t] : stack'[t][i] = stack[t][i]
    BY <1>0, <1>7, StackAfter
  <2>2. Chain(t, s, R, depth)'
    BY <2>1 DEF Chains, Chain, IsOf
  <2> QED BY <1>1, <2>1, <2>2
<1>8. ASSUME NEW c \in Sources, Makes(c)
      PROVE  Chains(s, R, depth)'
  <2>1. Enters(Runner(c), c, <<c, made[c] + 1>>) /\ <<c, made[c] + 1>> \in Packets
    BY <1>8 DEF Makes, Packets
  <2>2. c \in Comps /\ Runner(c) \in Threads
    BY FlowAssumption DEF Runner, Threads
  <2>3. c = s => c \in R
    BY DEF Tree
  <2> QED BY <1>2, <2>1, <2>2, <2>3
<1>9. ASSUME NEW c \in Threaded, Takes(c)
      PROVE  Chains(s, R, depth)'
  <2>1. Enters(c, c, Head(queue[c])) /\ Head(queue[c]) \in Packets /\ c \in Comps /\ c \in Threads
    BY <1>9, FlowAssumption DEF Takes, Threads
  <2>2. 1 \in DOMAIN queue[c] /\ Head(queue[c]) = queue[c][1]
    BY <1>9, Shift DEF Takes, Typed, Traffic
  <2>3. Head(queue[c])[1] = s => Fed(c, R)
    BY <2>1, <2>2 DEF Below, Waiting
  <2>4. Fed(c, R) => c \in R
    BY DEF Fed, Tree
  <2> QED BY <1>2, <2>1, <2>3, <2>4
<1>10. CASE Moves
  <2>1. CASE stack' = stack
    BY <2>1 DEF Chains, Chain, IsOf
  <2> QED BY <1>2, <1>5, <1>6, <1>7, <1>10, <2>1 DEF Moves
<1>11. ASSUME NEW t \in Threads, Puts(t) \/ Gives(t)
       PROVE  Chains(s, R, depth)'
  BY <1>4, <1>6, <1>11 DEF Puts, Gives
<1> QED BY <1>8, <1>9, <1>10, <1>11, Steps
(* A packet more at the end of what was received.                           *)
LEMMA OneMore ==
  ASSUME NEW q \in Seq(Packets), NEW p \in Packets, NEW s
  PROVE  /\ Append(q, p) \in Seq(Packets) /\ Len(q) \in Nat /\ DOMAIN q = 1..Len(q)
         /\ Len(Append(q, p)) = Len(q) + 1 /\ DOMAIN Append(q, p) = 1..Len(q) + 1
         /\ \A i \in DOMAIN q : Append(q, p)[i] = q[i]
         /\ Append(q, p)[Len(q) + 1] = p
         /\ \A i \in DOMAIN q : Of(Append(q, p), i, s) = Of(q, i, s)
         /\ Cardinality(Of(q, Len(q), s)) \in Nat
         /\ Cardinality(Of(Append(q, p), Len(q) + 1, s)) = Cardinality(Of(q, Len(q), s)) + (IF p[1] = s THEN 1 ELSE 0)
<1>1. /\ Append(q, p) \in Seq(Packets) /\ Len(q) \in Nat /\ DOMAIN q = 1..Len(q) /\ Len(Append(q, p)) = Len(q) + 1
      /\ \A i \in 1..Len(q) : Append(q, p)[i] = q[i]
      /\ Append(q, p)[Len(q) + 1] = p
  BY AppendProperties, LenProperties
<1>2. DOMAIN Append(q, p) = 1..Len(q) + 1
  BY <1>1, LenProperties
<1>3. \A i \in DOMAIN q : Of(Append(q, p), i, s) = Of(q, i, s)
  BY <1>1 DEF Of
<1>4. IsFiniteSet(Of(q, Len(q), s))
  <2>1. IsFiniteSet(1..Len(q))
    BY <1>1, FS_Interval
  <2> QED BY <2>1, FS_Subset DEF Of
<1>5. Cardinality(Of(q, Len(q), s)) \in Nat
  BY <1>4, FS_CardinalityType
<1>6. CASE p[1] = s
  <2>1. Of(Append(q, p), Len(q) + 1, s) = Of(q, Len(q), s) \cup {Len(q) + 1} /\ Len(q) + 1 \notin Of(q, Len(q), s)
    BY <1>1, <1>6 DEF Of
  <2>2. Cardinality(Of(Append(q, p), Len(q) + 1, s)) = Cardinality(Of(q, Len(q), s)) + 1
    BY <1>4, <2>1, FS_AddElement
  <2> QED BY <1>1, <1>2, <1>3, <1>5, <1>6, <2>2
<1>7. CASE p[1] # s
  <2>1. Of(Append(q, p), Len(q) + 1, s) = Of(q, Len(q), s)
    BY <1>1, <1>7 DEF Of
  <2> QED BY <1>1, <1>2, <1>3, <1>5, <1>7, <2>1
<1> QED BY <1>6, <1>7

(* What a queue holds, when nothing of the source is in it, ...             *)
LEMMA HoldsNone ==
  ASSUME NEW q \in Seq(Packets), NEW s, NEW a \in Nat, NEW b \in Int, \A i \in DOMAIN q : q[i][1] # s
  PROVE  Holding(q, s, a, b) <=> a = b
<1>1. CASE a = b
  BY <1>1 DEF Holding
<1>2. ASSUME Holding(q, s, a, b), a # b
      PROVE  FALSE
  <2>1. a + 1 \in a + 1..b
    BY <1>2 DEF Holding
  <2>2. PICK i \in DOMAIN q : q[i] = <<s, a + 1>>
    BY <1>2, <2>1 DEF Holding
  <2> QED BY <2>2
<1> QED BY <1>1, <1>2

(* ... when its first packet leaves, ...                                    *)
LEMMA HoldsTail ==
  ASSUME NEW q \in Seq(Packets), q # <<>>, NEW s, NEW a \in Nat, NEW b \in Int, Holding(q, s, a, b)
  PROVE  /\ Head(q)[1] = s => Head(q)[2] = a + 1 /\ Holding(Tail(q), s, a + 1, b)
         /\ Head(q)[1] # s => Holding(Tail(q), s, a, b)
<1>0. /\ 1 \in DOMAIN q /\ Head(q) = q[1] /\ Len(q) \in Nat /\ DOMAIN q = 1..Len(q)
      /\ \A k \in DOMAIN Tail(q) : k \in Nat \ {0} /\ k + 1 \in DOMAIN q /\ Tail(q)[k] = q[k + 1]
      /\ \A k \in DOMAIN q : k # 1 => k - 1 \in DOMAIN Tail(q) /\ Tail(q)[k - 1] = q[k]
  BY Shift
<1>1. /\ a <= b
      /\ \A i \in DOMAIN q : q[i][1] = s => a < q[i][2] /\ q[i][2] <= b
      /\ \A m \in a + 1..b : \E i \in DOMAIN q : q[i] = <<s, m>>
      /\ \A i, j \in DOMAIN q : i < j /\ q[i][1] = s /\ q[j][1] = s => q[i][2] < q[j][2]
  BY DEF Holding
<1>2. \A i \in DOMAIN q : q[i][2] \in Nat
  <2>1. \A i \in DOMAIN q : q[i] \in Packets
    BY <1>0, ElementOfSeq
  <2>2. \A p \in Packets : p[2] \in Nat
    BY FlowAssumption DEF Packets
  <2> QED BY <2>1, <2>2
<1>3. \A i, j \in DOMAIN Tail(q) : i < j /\ Tail(q)[i][1] = s /\ Tail(q)[j][1] = s => Tail(q)[i][2] < Tail(q)[j][2]
  BY <1>0, <1>1
<1>4. CASE Head(q)[1] = s
  <2>1. a < q[1][2] /\ q[1][2] <= b
    BY <1>0, <1>1, <1>4
  <2>2. PICK i \in DOMAIN q : q[i] = <<s, a + 1>>
    <3>1. a + 1 \in a + 1..b
      BY <1>0, <1>2, <2>1
    <3> QED BY <1>1, <3>1
  <2>3. q[i][1] = s /\ q[i][2] = a + 1
    BY <2>2
  <2>4. i = 1
    <3>1. i # 1 => q[1][2] < a + 1
      BY <1>0, <1>1, <1>4, <2>3
    <3> QED BY <1>0, <1>2, <2>1, <3>1
  <2>5. q[1][2] = a + 1
    BY <2>3, <2>4
  <2>6. \A k \in DOMAIN Tail(q) : Tail(q)[k][1] = s => a + 1 < Tail(q)[k][2] /\ Tail(q)[k][2] <= b
    BY <1>0, <1>1, <1>4, <2>5, SMTT(30)
  <2>7. ASSUME NEW m \in (a + 1) + 1..b
        PROVE  \E k \in DOMAIN Tail(q) : Tail(q)[k] = <<s, m>>
    <3>1. m \in a + 1..b
      BY <2>7
    <3>2. PICK j \in DOMAIN q : q[j] = <<s, m>>
      BY <1>1, <3>1
    <3>3. j # 1
      BY <2>5, <2>7, <3>2
    <3> QED BY <1>0, <3>2, <3>3
  <2>8. a + 1 <= b
    BY <2>1, <2>5
  <2> QED BY <1>0, <1>3, <1>4, <2>5, <2>6, <2>7, <2>8 DEF Holding
<1>5. CASE Head(q)[1] # s
  <2>1. \A k \in DOMAIN Tail(q) : Tail(q)[k][1] = s => a < Tail(q)[k][2] /\ Tail(q)[k][2] <= b
    BY <1>0, <1>1
  <2>2. ASSUME NEW m \in a + 1..b
        PROVE  \E k \in DOMAIN Tail(q) : Tail(q)[k] = <<s, m>>
    <3>1. PICK j \in DOMAIN q : q[j] = <<s, m>>
      BY <1>1
    <3>2. j # 1
      BY <1>0, <1>5, <3>1
    <3> QED BY <1>0, <3>1, <3>2
  <2> QED BY <1>1, <1>3, <1>5, <2>1, <2>2 DEF Holding
<1> QED BY <1>4, <1>5

(* ... and when one is put behind the others.                               *)
LEMMA HoldsMore ==
  ASSUME NEW q \in Seq(Packets), NEW p \in Packets, NEW s, NEW a \in Nat, NEW b \in Int, Holding(q, s, a, b)
  PROVE  /\ p[1] = s /\ p[2] = b + 1 => Holding(Append(q, p), s, a, b + 1)
         /\ p[1] # s => Holding(Append(q, p), s, a, b)
<1>0. /\ Len(q) \in Nat /\ DOMAIN q = 1..Len(q) /\ DOMAIN Append(q, p) = 1..Len(q) + 1
      /\ \A i \in DOMAIN q : Append(q, p)[i] = q[i]
      /\ Append(q, p)[Len(q) + 1] = p
  BY OneMore
<1>1. /\ a <= b
      /\ \A i \in DOMAIN q : q[i][1] = s => a < q[i][2] /\ q[i][2] <= b
      /\ \A m \in a + 1..b : \E i \in DOMAIN q : q[i] = <<s, m>>
      /\ \A i, j \in DOMAIN q : i < j /\ q[i][1] = s /\ q[j][1] = s => q[i][2] < q[j][2]
  BY DEF Holding
<1>2. \A i \in DOMAIN q : q[i][2] \in Nat
  <2>1. \A i \in DOMAIN q : q[i] \in Packets
    BY <1>0, ElementOfSeq
  <2>2. \A x \in Packets : x[2] \in Nat
    BY FlowAssumption DEF Packets
  <2> QED BY <2>1, <2>2
<1>3. CASE p[1] = s /\ p[2] = b + 1
  <2>1. p = <<s, b + 1>>
    BY <1>3 DEF Packets
  <2>2. \A m \in a + 1..b + 1 : \E i \in DOMAIN Append(q, p) : Append(q, p)[i] = <<s, m>>
    <3> SUFFICES ASSUME NEW m \in a + 1..b + 1 PROVE \E i \in DOMAIN Append(q, p) : Append(q, p)[i] = <<s, m>>
      OBVIOUS
    <3>1. CASE m = b + 1
      BY <1>0, <2>1, <3>1
    <3>2. CASE m # b + 1
      <4>1. m \in a + 1..b
        BY <3>2
      <4>2. PICK i \in DOMAIN q : q[i] = <<s, m>>
        BY <1>1, <4>1
      <4> QED BY <1>0, <4>2
    <3> QED BY <3>1, <3>2
  <2>3. \A i \in DOMAIN Append(q, p) : Append(q, p)[i][1] = s => a < Append(q, p)[i][2] /\ Append(q, p)[i][2] <= b + 1
    <3> SUFFICES ASSUME NEW i \in DOMAIN Append(q, p), Append(q, p)[i][1] = s
                 PROVE  a < Append(q, p)[i][2] /\ Append(q, p)[i][2] <= b + 1
      OBVIOUS
    <3>1. CASE i \in DOMAIN q
      BY <1>0, <1>1, <1>2, <3>1
    <3>2. CASE i = Len(q) + 1
      BY <1>0, <1>1, <1>3, <3>2
    <3> QED BY <1>0, <3>1, <3>2
  <2>4. \A i, j \in DOMAIN Append(q, p) :
          i < j /\ Append(q, p)[i][1] = s /\ Append(q, p)[j][1] = s => Append(q, p)[i][2] < Append(q, p)[j][2]
    <3> SUFFICES ASSUME NEW i \in DOMAIN Append(q, p), NEW j \in DOMAIN Append(q, p), i < j,
                        Append(q, p)[i][1] = s, Append(q, p)[j][1] = s
                 PROVE  Append(q, p)[i][2] < Append(q, p)[j][2]
      OBVIOUS
    <3>1. i \in DOMAIN q
      BY <1>0
    <3>2. CASE j \in DOMAIN q
      BY <1>0, <1>1, <3>1, <3>2
    <3>3. CASE j = Len(q) + 1
      BY <1>0, <1>1, <1>2, <1>3, <3>1, <3>3
    <3> QED BY <1>0, <3>2, <3>3
  <2>5. a <= b + 1
    BY <1>1
  <2>6. Holding(Append(q, p), s, a, b + 1)
    BY <2>2, <2>3, <2>4, <2>5 DEF Holding
  <2> QED BY <1>3, <2>6
<1>4. CASE p[1] # s
  <2>1. \A i \in DOMAIN Append(q, p) : Append(q, p)[i][1] = s => i \in DOMAIN q
    BY <1>0, <1>4
  <2>2. \A i \in DOMAIN Append(q, p) : Append(q, p)[i][1] = s => a < Append(q, p)[i][2] /\ Append(q, p)[i][2] <= b
    BY <1>0, <1>1, <2>1
  <2>3. \A m \in a + 1..b : \E i \in DOMAIN Append(q, p) : Append(q, p)[i] = <<s, m>>
    <3>1. \A i \in DOMAIN q : i \in DOMAIN Append(q, p)
      BY <1>0
    <3> QED BY <1>0, <1>1, <3>1
  <2>4. \A i, j \in DOMAIN Append(q, p) :
          i < j /\ Append(q, p)[i][1] = s /\ Append(q, p)[j][1] = s => Append(q, p)[i][2] < Append(q, p)[j][2]
    BY <1>0, <1>1, <2>1
  <2>5. Holding(Append(q, p), s, a, b)
    BY <1>1, <2>2, <2>3, <2>4 DEF Holding
  <2> QED BY <1>4, <2>5
<1> QED BY <1>3, <1>4
(* A handler of a packet of the source calls next a component below the     *)
(* source, once.                                                            *)
LEMMA NextReceiver ==
  ASSUME NEW s \in Sources, NEW R \in SUBSET Comps, NEW depth \in [Comps -> Nat], Tree(s, R, depth),
         Stacks, Chains(s, R, depth), NEW t \in Threads, Busy(t), IsOf(Top(t), s)
  PROVE  /\ Top(t).comp \in R /\ Target(t) \in R /\ Target(t) # s /\ depth[Target(t)] > depth[Top(t).comp]
         /\ \E k \in DOMAIN Route[Top(t).comp] : Target(t) = Route[Top(t).comp][k]
         /\ Top(t).todo # <<>> /\ \E j \in DOMAIN Top(t).todo : Top(t).todo[j] = Target(t)
         /\ \A j \in DOMAIN Tail(Top(t).todo) : Tail(Top(t).todo)[j] # Target(t)
         /\ \A d : d # Target(t) =>
              ((\E j \in DOMAIN Tail(Top(t).todo) : Tail(Top(t).todo)[j] = d) <=> \E j \in DOMAIN Top(t).todo : Top(t).todo[j] = d)
<1>1. /\ Top(t).todo \in Seq(Comps) /\ Top(t).todo # <<>> /\ Target(t) = Head(Top(t).todo)
      /\ \E i \in DOMAIN stack[t] : Top(t) = stack[t][i]
  BY GoesOn, OnTop DEF Busy
<1>2. PICK i \in DOMAIN stack[t] : Top(t) = stack[t][i]
  BY <1>1
<1>3. /\ Top(t).comp \in R
      /\ \A j \in DOMAIN Top(t).todo : \E k \in DOMAIN Route[Top(t).comp] : Top(t).todo[j] = Route[Top(t).comp][k]
      /\ \A j, l \in DOMAIN Top(t).todo : Top(t).todo[j] = Top(t).todo[l] => j = l
  BY <1>2 DEF Chains, Chain
<1>4. /\ 1 \in DOMAIN Top(t).todo /\ Target(t) = Top(t).todo[1]
      /\ \A k \in DOMAIN Tail(Top(t).todo) :
           k \in Nat \ {0} /\ k + 1 \in DOMAIN Top(t).todo /\ Tail(Top(t).todo)[k] = Top(t).todo[k + 1]
      /\ \A k \in DOMAIN Top(t).todo :
           k # 1 => k - 1 \in DOMAIN Tail(Top(t).todo) /\ Tail(Top(t).todo)[k - 1] = Top(t).todo[k]
  BY <1>1, Shift, SMTT(30)
<1>5. PICK k \in DOMAIN Route[Top(t).comp] : Target(t) = Route[Top(t).comp][k]
  BY <1>3, <1>4
<1>6. Target(t) \in R /\ Target(t) # s /\ depth[Target(t)] > depth[Top(t).comp]
  BY <1>3, <1>5 DEF Tree
<1>7. \A j \in DOMAIN Tail(Top(t).todo) : Tail(Top(t).todo)[j] # Target(t)
  BY <1>3, <1>4
<1>8. \A d : d # Target(t) =>
        ((\E j \in DOMAIN Tail(Top(t).todo) : Tail(Top(t).todo)[j] = d) <=> \E j \in DOMAIN Top(t).todo : Top(t).todo[j] = d)
  BY <1>4, Zenon
<1> QED BY <1>1, <1>3, <1>4, <1>5, <1>6, <1>7, <1>8

(* No packet of the source leaves the components below it.                  *)
LEMMA BelowKept ==
  ASSUME NEW s \in Sources, NEW R \in SUBSET Comps, NEW depth \in [Comps -> Nat], Tree(s, R, depth),
         Typed, Chains(s, R, depth), Below(s, R), Next
  PROVE  Below(s, R)'
<1>0. /\ queue \in [Threaded -> Seq(Packets)] /\ got \in [Comps -> Seq(Packets)] /\ Stacks /\ Threaded \subseteq Comps
  BY FlowAssumption DEF Typed, Traffic
<1>1. /\ \A c \in Comps : \A i \in DOMAIN got[c] : got[c][i][1] = s => Fed(c, R)
      /\ \A c \in Threaded : \A i \in DOMAIN queue[c] : queue[c][i][1] = s => Fed(c, R)
  BY <1>0 DEF Below, Waiting
<1>2. ASSUME \A c \in Comps : \A i \in DOMAIN got'[c] : got'[c][i][1] = s => Fed(c, R),
             \A c \in Threaded : \A i \in DOMAIN queue'[c] : queue'[c][i][1] = s => Fed(c, R)
      PROVE  Below(s, R)'
  <2>1. \A c \in Comps : \A i \in DOMAIN Waiting(c)' : Waiting(c)'[i][1] = s => Fed(c, R)
    BY <1>2 DEF Waiting
  <2> QED BY <1>2, <2>1 DEF Below
<1>3. ASSUME NEW c \in Comps, NEW p \in Packets, got' = [got EXCEPT ![c] = Append(got[c], p)], p[1] = s => Fed(c, R)
      PROVE  \A d \in Comps : \A i \in DOMAIN got'[d] : got'[d][i][1] = s => Fed(d, R)
  <2>1. /\ DOMAIN got[c] = 1..Len(got[c]) /\ DOMAIN Append(got[c], p) = 1..Len(got[c]) + 1 /\ Len(got[c]) \in Nat
        /\ (\A i \in DOMAIN got[c] : Append(got[c], p)[i] = got[c][i]) /\ Append(got[c], p)[Len(got[c]) + 1] = p
    BY <1>0, OneMore
  <2>2. got'[c] = Append(got[c], p) /\ \A d \in Comps : d # c => got'[d] = got[d]
    BY <1>0, <1>3
  <2>3. \A i \in DOMAIN got'[c] : got'[c][i] = p \/ (i \in DOMAIN got[c] /\ got'[c][i] = got[c][i])
    BY <2>1, <2>2
  <2> QED BY <1>1, <1>3, <2>2, <2>3
<1>4. ASSUME NEW c \in Sources, Makes(c)
      PROVE  Below(s, R)'
  BY <1>1, <1>2, <1>4 DEF Makes
<1>5. ASSUME NEW c \in Threaded, Takes(c)
      PROVE  Below(s, R)'
  <2>1. /\ 1 \in DOMAIN queue[c] /\ Head(queue[c]) = queue[c][1]
        /\ \A k \in DOMAIN Tail(queue[c]) : k + 1 \in DOMAIN queue[c] /\ Tail(queue[c])[k] = queue[c][k + 1]
    BY <1>0, <1>5, Shift DEF Takes
  <2>2. \A d \in Comps : \A i \in DOMAIN got'[d] : got'[d][i][1] = s => Fed(d, R)
    BY <1>0, <1>1, <1>3, <1>5, <2>1 DEF Takes
  <2>3. queue'[c] = Tail(queue[c]) /\ \A d \in Threaded : d # c => queue'[d] = queue[d]
    BY <1>0, <1>5 DEF Takes
  <2>4. \A i \in DOMAIN queue'[c] : queue'[c][i][1] = s => Fed(c, R)
    BY <1>1, <2>1, <2>3
  <2>5. \A d \in Threaded : \A i \in DOMAIN queue'[d] : queue'[d][i][1] = s => Fed(d, R)
    BY <1>1, <2>3, <2>4
  <2> QED BY <1>2, <2>2, <2>5
<1>6. ASSUME NEW t \in Threads, Busy(t), Top(t).pkt \in Packets, Top(t).pkt[1] = s
      PROVE  Fed(Target(t), R)
  <2>1. Visit \notin Packets
    BY DEF Visit, Packets
  <2>2. IsOf(Top(t), s)
    BY <1>6, <2>1 DEF IsOf
  <2>3. Top(t).comp \in R /\ \E k \in DOMAIN Route[Top(t).comp] : Target(t) = Route[Top(t).comp][k]
    BY <1>0, <1>6, <2>2, NextReceiver
  <2> QED BY <2>3 DEF Fed
<1>7. ASSUME NEW t \in Threads, Puts(t)
      PROVE  Below(s, R)'
  <2>1. PICK c \in Threaded, p \in Packets : c = Target(t) /\ p = Top(t).pkt
    BY <1>7 DEF Puts
  <2>2. queue'[c] = Append(queue[c], p) /\ (\A d \in Threaded : d # c => queue'[d] = queue[d]) /\ got' = got
    BY <1>0, <1>7, <2>1 DEF Puts
  <2>3. p[1] = s => Fed(c, R)
    BY <1>6, <1>7, <2>1 DEF Puts, Goes
  <2>4. /\ DOMAIN queue[c] = 1..Len(queue[c]) /\ DOMAIN Append(queue[c], p) = 1..Len(queue[c]) + 1 /\ Len(queue[c]) \in Nat
        /\ \A i \in DOMAIN queue[c] : Append(queue[c], p)[i] = queue[c][i]
        /\ Append(queue[c], p)[Len(queue[c]) + 1] = p
    BY <1>0, OneMore
  <2>5. \A i \in DOMAIN queue'[c] : queue'[c][i] = p \/ (i \in DOMAIN queue[c] /\ queue'[c][i] = queue[c][i])
    BY <2>2, <2>4
  <2>6. \A d \in Threaded : \A i \in DOMAIN queue'[d] : queue'[d][i][1] = s => Fed(d, R)
    BY <1>1, <2>2, <2>3, <2>5, SMTT(30)
  <2> QED BY <1>1, <1>2, <2>2, <2>6
<1>8. ASSUME NEW t \in Threads, Gives(t)
      PROVE  Below(s, R)'
  <2>1. PICK c \in Comps, p \in Packets : c = Target(t) /\ p = Top(t).pkt
    BY <1>8 DEF Gives
  <2>2. got' = [got EXCEPT ![c] = Append(got[c], p)] /\ queue' = queue /\ (p[1] = s => Fed(c, R))
    BY <1>6, <1>8, <2>1 DEF Gives, Calls
  <2> QED BY <1>1, <1>2, <1>3, <2>2
<1>9. CASE Moves
  BY <1>1, <1>2, <1>9 DEF Moves
<1> QED BY <1>4, <1>5, <1>7, <1>8, <1>9, Steps

(* What has been begun, when a packet is made or received.                  *)
LEMMA BegunAfter ==
  ASSUME NEW s \in Sources, Traffic
  PROVE  /\ \A d \in Comps : Begun(s, d) \in Nat
         /\ UNCHANGED <<made, got>> => \A d \in Comps : Begun(s, d)' = Begun(s, d)
         /\ \A c \in Sources : got' = got /\ made' = [made EXCEPT ![c] = @ + 1] =>
              \A d \in Comps : Begun(s, d)' = IF d = s /\ c = s THEN Begun(s, d) + 1 ELSE Begun(s, d)
         /\ \A c \in Comps, p \in Packets :
              (p[1] = s => c # s) /\ made' = made /\ got' = [got EXCEPT ![c] = Append(got[c], p)] =>
                \A d \in Comps : Begun(s, d)' = IF d = c /\ p[1] = s THEN Begun(s, d) + 1 ELSE Begun(s, d)
<1>0. made \in [Sources -> 0..Quota] /\ got \in [Comps -> Seq(Packets)] /\ Quota \in Nat
  BY FlowAssumption DEF Traffic
<1>1. ASSUME NEW d \in Comps
      PROVE  Begun(s, d) \in Nat
  <2>1. CASE d = s
    BY <1>0, <2>1 DEF Begun
  <2>2. CASE d # s
    <3>1. Len(got[d]) \in Nat
      BY <1>0, LenProperties
    <3>2. IsFiniteSet(1..Len(got[d]))
      BY <3>1, FS_Interval
    <3>3. IsFiniteSet(Of(got[d], Len(got[d]), s))
      BY <3>2, FS_Subset DEF Of
    <3> QED BY <2>2, <3>3, FS_CardinalityType DEF Begun
  <2> QED BY <2>1, <2>2
<1>2. UNCHANGED <<made, got>> => \A d \in Comps : Begun(s, d)' = Begun(s, d)
  BY DEF Begun
<1>3. ASSUME NEW c \in Sources, got' = got, made' = [made EXCEPT ![c] = @ + 1], NEW d \in Comps
      PROVE  Begun(s, d)' = IF d = s /\ c = s THEN Begun(s, d) + 1 ELSE Begun(s, d)
  <2>1. CASE d = s
    <3>1. made'[s] = IF c = s THEN made[s] + 1 ELSE made[s]
      BY <1>0, <1>3
    <3> QED BY <2>1, <3>1 DEF Begun
  <2>2. CASE d # s
    BY <1>3, <2>2 DEF Begun
  <2> QED BY <2>1, <2>2
<1>4. ASSUME NEW c \in Comps, NEW p \in Packets, p[1] = s => c # s, made' = made,
             got' = [got EXCEPT ![c] = Append(got[c], p)], NEW d \in Comps
      PROVE  Begun(s, d)' = IF d = c /\ p[1] = s THEN Begun(s, d) + 1 ELSE Begun(s, d)
  <2>1. CASE d # c
    <3>1. got'[d] = got[d]
      BY <1>0, <1>4, <2>1
    <3> QED BY <1>4, <2>1, <3>1 DEF Begun
  <2>2. CASE d = s /\ d = c
    BY <1>4, <2>2 DEF Begun
  <2>3. CASE d # s /\ d = c
    <3>1. got'[c] = Append(got[c], p) /\ got[c] \in Seq(Packets)
      BY <1>0, <1>4
    <3>2. /\ Len(Append(got[c], p)) = Len(got[c]) + 1 /\ Cardinality(Of(got[c], Len(got[c]), s)) \in Nat
          /\ Cardinality(Of(Append(got[c], p), Len(got[c]) + 1, s))
               = Cardinality(Of(got[c], Len(got[c]), s)) + (IF p[1] = s THEN 1 ELSE 0)
      BY <3>1, OneMore
    <3>3. Begun(s, d) = Cardinality(Of(got[c], Len(got[c]), s))
      BY <2>3 DEF Begun
    <3>4. Begun(s, d)' = Cardinality(Of(Append(got[c], p), Len(got[c]) + 1, s))
      BY <2>3, <3>1, <3>2 DEF Begun
    <3> QED BY <2>3, <3>2, <3>3, <3>4
  <2> QED BY <2>1, <2>2, <2>3
<1> QED BY <1>1, <1>2, <1>3, <1>4
(* A component handles one packet of the source at a time.                  *)
LEMMA UniqueFrame ==
  ASSUME NEW s \in Sources, NEW R \in SUBSET Comps, NEW depth \in [Comps -> Nat], Typed, Chains(s, R, depth),
         NEW t \in Threads, NEW u \in Threads, NEW i \in DOMAIN stack[t], NEW j \in DOMAIN stack[u],
         IsOf(stack[t][i], s), IsOf(stack[u][j], s), stack[t][i].comp = stack[u][j].comp
  PROVE  t = u /\ i = j
<1>1. t = u
  BY DEF Typed, Exclusive
<1>2. i \in Nat /\ j \in Nat /\ stack[t][i].comp \in Comps
  <2>1. Stacks /\ j \in DOMAIN stack[t]
    BY <1>1 DEF Typed
  <2>2. stack[t][i] \in Frames /\ DOMAIN stack[t] = 1..Len(stack[t]) /\ Len(stack[t]) \in Nat
    BY <2>1, OnTop
  <2> QED BY <2>1, <2>2 DEF Frames
<1>3. depth[stack[t][i].comp] \in Nat
  BY <1>2
<1>4. \A m, n \in DOMAIN stack[t] : IsOf(stack[t][m], s) /\ m < n => depth[stack[t][m].comp] < depth[stack[t][n].comp]
  BY DEF Chains, Chain
<1>5. ~(i < j) /\ ~(j < i)
  BY <1>1, <1>3, <1>4
<1> QED BY <1>1, <1>2, <1>5

(* A handler that begins was not running, in any thread.                    *)
LEMMA NotServed ==
  ASSUME NEW s \in Sources, NEW R \in SUBSET Comps, NEW depth \in [Comps -> Nat], Tree(s, R, depth),
         Typed, Chains(s, R, depth), NEW t \in Threads
  PROVE  /\ \A c \in Comps, p \in Packets \cup {Visit} : Enters(t, c, p) =>
              \A u \in Threads : \A i \in DOMAIN stack[u] : stack[u][i].comp # c
         /\ Calls(t) /\ IsOf(Top(t), s) =>
              \A u \in Threads : \A i \in DOMAIN stack[u] : stack[u][i].comp # Target(t)
<1>1. ASSUME NEW c \in Comps, NEW p \in Packets \cup {Visit}, Enters(t, c, p), NEW u \in Threads, NEW i \in DOMAIN stack[u]
      PROVE  stack[u][i].comp # c
  <2>1. u # t
    BY <1>1 DEF Enters
  <2> QED BY <1>1, <2>1 DEF Enters, FreeFor, Holds
<1>2. ASSUME Calls(t), IsOf(Top(t), s), NEW u \in Threads, NEW i \in DOMAIN stack[u]
      PROVE  stack[u][i].comp # Target(t)
  <2>0. Busy(t) /\ FreeFor(t, Target(t)) /\ Stacks
    BY <1>2 DEF Calls, Typed
  <2>1. CASE u # t
    BY <2>0, <2>1 DEF FreeFor, Holds
  <2>2. CASE u = t
    <3>1. /\ Len(stack[t]) \in Nat /\ DOMAIN stack[t] = 1..Len(stack[t]) /\ Len(stack[t]) \in DOMAIN stack[t]
          /\ Top(t) = stack[t][Len(stack[t])] /\ stack[t][i] \in Frames
      BY <2>0, <2>2, OnTop DEF Busy
    <3>2. Top(t).comp \in R /\ Target(t) \in R /\ depth[Target(t)] > depth[Top(t).comp]
      BY <1>2, <2>0, NextReceiver
    <3>3. IsOf(stack[t][i], s)
      BY <1>2, <2>2, <3>1 DEF Chains, Chain, IsOf
    <3>4. i < Len(stack[t]) => depth[stack[t][i].comp] < depth[Top(t).comp]
      BY <2>2, <3>1, <3>3 DEF Chains, Chain
    <3>5. depth[Target(t)] \in Nat /\ depth[Top(t).comp] \in Nat /\ depth[stack[t][i].comp] \in Nat
      BY <3>1, <3>2 DEF Frames
    <3> QED BY <2>2, <3>1, <3>2, <3>4, <3>5
  <2> QED BY <2>1, <2>2
<1> QED BY <1>1, <1>2
(* It is the turn of d in the handler of b; the handler of b has begun, and *)
(* has d to call.                                                           *)
Turn(t, s, b, d) == IsOf(Top(t), s) /\ b = Top(t).comp /\ d = Target(t)
Started(c, p, s, b, d) == p # Visit /\ p[1] = s /\ b = c /\ \E k \in DOMAIN Route[c] : Route[c][k] = d

(* Who serves whom, after a step of the thread.                             *)
LEMMA ServesAfter ==
  ASSUME NEW s \in Sources, NEW R \in SUBSET Comps, NEW depth \in [Comps -> Nat], Tree(s, R, depth),
         Typed, Chains(s, R, depth), NEW t \in Threads, NEW b, NEW d
  PROVE  /\ \A c \in Comps, p \in Packets \cup {Visit} : 
              Enters(t, c, p) => (Serves(t, s, b, d)' <=> Started(c, p, s, b, d))
         /\ Goes(t) => (Serves(t, s, b, d)' <=> Serves(t, s, b, d) /\ ~Turn(t, s, b, d))
         /\ Commits(t) => (Serves(t, s, b, d)' <=> Serves(t, s, b, d))
         /\ Calls(t) => (Serves(t, s, b, d)' <=>
              (Serves(t, s, b, d) /\ ~Turn(t, s, b, d)) \/ Started(Target(t), Top(t).pkt, s, b, d))
         /\ Leaves(t) /\ Top(t).todo = <<>> => (Serves(t, s, b, d)' <=> Serves(t, s, b, d))
<1>0. Stacks
  BY DEF Typed
<1>1. ASSUME NEW c \in Comps, NEW p \in Packets \cup {Visit}, Enters(t, c, p)
      PROVE  Serves(t, s, b, d)' <=> Started(c, p, s, b, d)
  <2>1. DOMAIN stack'[t] = {1} /\ stack'[t][1] = Frame(c, p)
    BY <1>0, <1>1, StackAfter
  <2>2. Frame(c, p).comp = c /\ Frame(c, p).pkt = p /\ Frame(c, p).todo = Route[c]
    BY NewFrame
  <2> QED BY <2>1, <2>2 DEF Serves, IsOf, Started
<1>2. ASSUME Busy(t)
      PROVE  (\E i \in DOMAIN stack[t] :
                IsOf(Sent(t)[i], s) /\ Sent(t)[i].comp = b /\ \E j \in DOMAIN Sent(t)[i].todo : Sent(t)[i].todo[j] = d)
             <=> Serves(t, s, b, d) /\ ~Turn(t, s, b, d)
  <2>1. PICK n \in DOMAIN stack[t] : n = Len(stack[t])
    BY <1>0, <1>2, GoesOn
  <2>2. /\ Top(t) = stack[t][n]
        /\ \A i \in DOMAIN stack[t] : i # n => Sent(t)[i] = stack[t][i]
        /\ Sent(t)[n].comp = Top(t).comp /\ Sent(t)[n].pkt = Top(t).pkt /\ Sent(t)[n].todo = Tail(Top(t).todo)
        /\ Top(t).todo \in Seq(Comps) /\ Top(t).todo # <<>> /\ Target(t) = Head(Top(t).todo)
    BY <1>0, <1>2, <2>1, GoesOn, OnTop DEF Busy
  <2>3. CASE IsOf(Top(t), s)
    <3>1. /\ \A j \in DOMAIN Tail(Top(t).todo) : Tail(Top(t).todo)[j] # Target(t)
          /\ d # Target(t) =>
              ((\E j \in DOMAIN Tail(Top(t).todo) : Tail(Top(t).todo)[j] = d) <=> \E j \in DOMAIN Top(t).todo : Top(t).todo[j] = d)
      BY <1>0, <1>2, <2>3, NextReceiver
    <3>2. \A i \in DOMAIN stack[t] : i # n /\ IsOf(stack[t][i], s) => stack[t][i].comp # Top(t).comp
      BY <2>2, <2>3, UniqueFrame, Zenon
    <3>3. IsOf(Sent(t)[n], s)
      BY <2>2, <2>3 DEF IsOf
    <3>4. CASE b = Top(t).comp /\ d = Target(t)
      BY <2>2, <2>3, <3>1, <3>2, <3>4 DEF Turn
    <3>5. CASE ~(b = Top(t).comp /\ d = Target(t))
      <4>1. \A i \in DOMAIN stack[t] :
              (IsOf(Sent(t)[i], s) /\ Sent(t)[i].comp = b /\ \E j \in DOMAIN Sent(t)[i].todo : Sent(t)[i].todo[j] = d)
              <=> (IsOf(stack[t][i], s) /\ stack[t][i].comp = b /\ \E j \in DOMAIN stack[t][i].todo : stack[t][i].todo[j] = d)
        BY <2>2, <2>3, <3>1, <3>3, <3>5
      <4> QED BY <3>5, <4>1 DEF Serves, Turn
    <3> QED BY <3>4, <3>5
  <2>4. CASE ~IsOf(Top(t), s)
    <3>1. \A i \in DOMAIN stack[t] : ~IsOf(stack[t][i], s) /\ ~IsOf(Sent(t)[i], s)
      BY <2>2, <2>4 DEF Chains, Chain, IsOf
    <3> QED BY <2>4, <3>1 DEF Serves, Turn
  <2> QED BY <2>3, <2>4
<1>3. ASSUME Goes(t)
      PROVE  Serves(t, s, b, d)' <=> Serves(t, s, b, d) /\ ~Turn(t, s, b, d)
  <2>1. Busy(t) /\ stack'[t] = Sent(t) /\ DOMAIN Sent(t) = DOMAIN stack[t]
    BY <1>0, <1>3, StackAfter, GoesOn DEF Goes
  <2>2. Serves(t, s, b, d)' <=> \E i \in DOMAIN stack[t] :
          IsOf(Sent(t)[i], s) /\ Sent(t)[i].comp = b /\ \E j \in DOMAIN Sent(t)[i].todo : Sent(t)[i].todo[j] = d
    BY <2>1 DEF Serves, IsOf
  <2> QED BY <1>2, <2>1, <2>2
<1>4. ASSUME Commits(t)
      PROVE  Serves(t, s, b, d)' <=> Serves(t, s, b, d)
  <2>1. Top(t) = stack[t][Len(stack[t])]
    BY <1>0, <1>4, OnTop DEF Commits, Busy
  <2>2. /\ DOMAIN stack'[t] = DOMAIN stack[t]
        /\ (\A i \in DOMAIN stack[t] : i # Len(stack[t]) => stack'[t][i] = stack[t][i])
        /\ stack'[t][Len(stack[t])].comp = Top(t).comp /\ stack'[t][Len(stack[t])].pkt = Top(t).pkt
        /\ stack'[t][Len(stack[t])].todo = Top(t).todo
    BY <1>0, <1>4, StackAfter
  <2>3. \A i \in DOMAIN stack[t] : /\ stack'[t][i].comp = stack[t][i].comp /\ stack'[t][i].pkt = stack[t][i].pkt
                                   /\ stack'[t][i].todo = stack[t][i].todo
    BY <2>1, <2>2
  <2> QED BY <2>2, <2>3 DEF Serves, IsOf
<1>5. ASSUME Calls(t)
      PROVE  Serves(t, s, b, d)' <=>
               (Serves(t, s, b, d) /\ ~Turn(t, s, b, d)) \/ Started(Target(t), Top(t).pkt, s, b, d)
  <2>1. PICK n : n = Len(stack[t]) + 1
    OBVIOUS
  <2>2. /\ DOMAIN stack'[t] = DOMAIN stack[t] \cup {n}
        /\ (\A i \in DOMAIN stack[t] : stack'[t][i] = Sent(t)[i])
        /\ stack'[t][n] = Frame(Target(t), Top(t).pkt)
    BY <1>0, <1>5, <2>1, StackAfter
  <2>3. Busy(t) /\ Target(t) \in Comps /\ Top(t).pkt \in Packets \cup {Visit}
    BY <1>0, <1>5, GoesOn, OnTop DEF Calls, Busy, Frames
  <2>4. /\ Frame(Target(t), Top(t).pkt).comp = Target(t) /\ Frame(Target(t), Top(t).pkt).pkt = Top(t).pkt
        /\ Frame(Target(t), Top(t).pkt).todo = Route[Target(t)]
    BY <2>3, NewFrame
  <2>5. Serves(t, s, b, d)' <=>
          \/ \E i \in DOMAIN stack[t] :
               IsOf(Sent(t)[i], s) /\ Sent(t)[i].comp = b /\ \E j \in DOMAIN Sent(t)[i].todo : Sent(t)[i].todo[j] = d
          \/ Started(Target(t), Top(t).pkt, s, b, d)
    BY <2>2, <2>4 DEF Serves, IsOf, Started
  <2> QED BY <1>2, <2>3, <2>5
<1>6. ASSUME Leaves(t), Top(t).todo = <<>>
      PROVE  Serves(t, s, b, d)' <=> Serves(t, s, b, d)
  <2>1. /\ DOMAIN stack'[t] = DOMAIN stack[t] \ {Len(stack[t])}
        /\ \A i \in DOMAIN stack'[t] : stack'[t][i] = stack[t][i]
    BY <1>0, <1>6, StackAfter
  <2>2. stack[t][Len(stack[t])].todo = <<>>
    BY <1>0, <1>6, OnTop DEF Leaves
  <2>3. \A j : j \notin DOMAIN stack[t][Len(stack[t])].todo
    BY <2>2
  <2> QED BY <2>1, <2>3 DEF Serves, IsOf
<1> QED BY <1>1, <1>3, <1>4, <1>5, <1>6
(* What is pending after each step of a thread: what its handler has begun  *)
(* comes in, and the receiver whose turn it was goes out.                   *)
LEMMA PendingAfter ==
  ASSUME NEW s \in Sources, NEW R \in SUBSET Comps, NEW depth \in [Comps -> Nat], Tree(s, R, depth),
         Typed, Chains(s, R, depth), NEW t \in Threads, NEW b, NEW d
  PROVE  /\ \A c \in Comps, p \in Packets \cup {Visit} : Enters(t, c, p) =>
              /\ ~Pending(s, c, d)
              /\ Pending(s, b, d)' <=>
                   Pending(s, b, d) \/ Started(c, p, s, b, d)
         /\ Goes(t) => (Pending(s, b, d)' <=>
              Pending(s, b, d) /\ ~Turn(t, s, b, d))
         /\ Commits(t) => (Pending(s, b, d)' <=> Pending(s, b, d))
         /\ Calls(t) =>
              /\ IsOf(Top(t), s) => ~Pending(s, Target(t), d)
              /\ Pending(s, b, d)' <=>
                   \/ Pending(s, b, d) /\ ~Turn(t, s, b, d)
                   \/ Started(Target(t), Top(t).pkt, s, b, d)
         /\ Leaves(t) /\ Top(t).todo = <<>> => (Pending(s, b, d)' <=> Pending(s, b, d))
         /\ Busy(t) /\ IsOf(Top(t), s) => Pending(s, Top(t).comp, Target(t))
<1>0. Stacks
  BY DEF Typed
<1>1. ASSUME \A u \in Threads : u # t => stack'[u] = stack[u]
      PROVE  \A u \in Threads : u # t => (Serves(u, s, b, d)' <=> Serves(u, s, b, d))
  BY <1>1 DEF Serves, IsOf
<1>2. ASSUME NEW c \in Comps, NEW p \in Packets \cup {Visit}, Enters(t, c, p)
      PROVE  /\ ~Pending(s, c, d)
             /\ Pending(s, b, d)' <=>
                  Pending(s, b, d) \/ Started(c, p, s, b, d)
  <2>1. \A u \in Threads : u # t => stack'[u] = stack[u]
    BY <1>0, <1>2, StackAfter
  <2>2. Serves(t, s, b, d)' <=> Started(c, p, s, b, d)
    BY <1>2, ServesAfter
  <2>3. ~Serves(t, s, b, d)
    BY <1>2 DEF Enters, Serves
  <2>4. \A u \in Threads : \A i \in DOMAIN stack[u] : stack[u][i].comp # c
    BY <1>2, NotServed
  <2>5. ~Pending(s, c, d)
    BY <2>4 DEF Pending, Serves
  <2>6. \A u \in Threads : u # t => (Serves(u, s, b, d)' <=> Serves(u, s, b, d))
    BY <1>1, <2>1
  <2> QED BY ONLY t \in Threads, <2>2, <2>3, <2>5, <2>6, Zenon DEF Pending
<1>3. ASSUME Busy(t), IsOf(Top(t), s)
      PROVE  /\ Serves(t, s, Top(t).comp, Target(t))
             /\ \A u \in Threads : u # t => ~Serves(u, s, Top(t).comp, Target(t))
  <2>1. PICK n \in DOMAIN stack[t] : stack[t][n] = Top(t)
    BY <1>0, <1>3, OnTop DEF Busy
  <2>2. \E j \in DOMAIN Top(t).todo : Top(t).todo[j] = Target(t)
    BY <1>0, <1>3, NextReceiver
  <2>3. Serves(t, s, Top(t).comp, Target(t))
    BY <1>3, <2>1, <2>2 DEF Serves
  <2>4. \A u \in Threads : u # t => \A i \in DOMAIN stack[u] : stack[u][i].comp # Top(t).comp
    BY <2>1 DEF Typed, Exclusive
  <2> QED BY <2>3, <2>4 DEF Serves
<1>4. ASSUME Goes(t)
      PROVE  Pending(s, b, d)' <=> Pending(s, b, d) /\ ~Turn(t, s, b, d)
  <2>1. (\A u \in Threads : u # t => stack'[u] = stack[u]) /\ Busy(t)
    BY <1>0, <1>4, StackAfter DEF Goes
  <2>2. Serves(t, s, b, d)' <=> Serves(t, s, b, d) /\ ~Turn(t, s, b, d)
    BY <1>4, ServesAfter
  <2>3. \A u \in Threads : u # t => (Serves(u, s, b, d)' <=> Serves(u, s, b, d))
    BY <1>1, <2>1
  <2>4. Turn(t, s, b, d) => \A u \in Threads : u # t => ~Serves(u, s, b, d)
    BY <1>3, <2>1 DEF Turn
  <2> QED BY ONLY t \in Threads, <2>2, <2>3, <2>4, Zenon DEF Pending
<1>5. ASSUME Commits(t) \/ (Leaves(t) /\ Top(t).todo = <<>>)
      PROVE  Pending(s, b, d)' <=> Pending(s, b, d)
  <2>1. \A u \in Threads : u # t => stack'[u] = stack[u]
    BY <1>0, <1>5, StackAfter
  <2>2. Serves(t, s, b, d)' <=> Serves(t, s, b, d)
    BY <1>5, ServesAfter
  <2>3. \A u \in Threads : u # t => (Serves(u, s, b, d)' <=> Serves(u, s, b, d))
    BY <1>1, <2>1
  <2> QED BY ONLY t \in Threads, <2>2, <2>3, Zenon DEF Pending
<1>6. ASSUME Calls(t)
      PROVE  /\ IsOf(Top(t), s) => ~Pending(s, Target(t), d)
             /\ Pending(s, b, d)' <=>
                  \/ Pending(s, b, d) /\ ~Turn(t, s, b, d)
                  \/ Started(Target(t), Top(t).pkt, s, b, d)
  <2>1. (\A u \in Threads : u # t => stack'[u] = stack[u]) /\ Busy(t)
    BY <1>0, <1>6, StackAfter DEF Calls
  <2>2. Serves(t, s, b, d)' <=>
          \/ Serves(t, s, b, d) /\ ~Turn(t, s, b, d)
          \/ Started(Target(t), Top(t).pkt, s, b, d)
    BY <1>6, ServesAfter
  <2>3. \A u \in Threads : u # t => (Serves(u, s, b, d)' <=> Serves(u, s, b, d))
    BY <1>1, <2>1
  <2>4. Turn(t, s, b, d) => \A u \in Threads : u # t => ~Serves(u, s, b, d)
    BY <1>3, <2>1 DEF Turn
  <2>5. IsOf(Top(t), s) => \A u \in Threads : \A i \in DOMAIN stack[u] : stack[u][i].comp # Target(t)
    BY <1>6, NotServed
  <2>6. IsOf(Top(t), s) => ~Pending(s, Target(t), d)
    BY <2>5 DEF Pending, Serves
  <2> QED BY ONLY t \in Threads, <2>2, <2>3, <2>4, <2>6, Zenon DEF Pending
<1> QED BY <1>2, <1>3, <1>4, <1>5, <1>6 DEF Pending

(* A handler after a step is one from before it, at most gone on, or has    *)
(* just begun; it is committed to a direct call if it was, or commits.      *)
LEMMA FramesAfter ==
  ASSUME NEW s \in Sources, Typed, NEW t \in Threads, NEW u \in Threads, NEW i \in DOMAIN stack'[u]
  PROVE  LET Same == /\ i \in DOMAIN stack[u] /\ stack'[u][i].comp = stack[u][i].comp
                     /\ stack'[u][i].pkt = stack[u][i].pkt
             Kept == Same /\ (stack'[u][i].direct =>
                                stack[u][i].direct /\ stack'[u][i].todo = stack[u][i].todo)
             New(c, p) == stack'[u][i].comp = c /\ stack'[u][i].pkt = p /\ ~stack'[u][i].direct
         IN  /\ \A c \in Comps, p \in Packets \cup {Visit} : Enters(t, c, p) => Kept \/ New(c, p)
             /\ Goes(t) => Kept /\ (stack'[u][i].direct => ~(u = t /\ i = Len(stack[t])))
             /\ Calls(t) => Kept \/ New(Target(t), Top(t).pkt)
             /\ Calls(t) /\ stack'[u][i].direct => ~(u = t /\ i = Len(stack[t]))
             /\ Commits(t) => Kept \/ (Same /\ stack'[u][i].pkt = Top(t).pkt /\ stack'[u][i].todo = Top(t).todo)
             /\ Leaves(t) => Kept
<1>0. Stacks
  BY DEF Typed
<1>1. CASE u # t
  BY <1>0, <1>1, StackAfter
<1>2. ASSUME u = t, NEW c \in Comps, NEW p \in Packets \cup {Visit}, Enters(t, c, p)
      PROVE  stack'[u][i].comp = c /\ stack'[u][i].pkt = p /\ ~stack'[u][i].direct
  BY <1>0, <1>2, StackAfter, NewFrame
<1>3. ASSUME u = t, Busy(t), i \in DOMAIN stack[t]
      PROVE  /\ Sent(t)[i].comp = stack[t][i].comp /\ Sent(t)[i].pkt = stack[t][i].pkt
             /\ Sent(t)[i].direct => stack[t][i].direct /\ Sent(t)[i].todo = stack[t][i].todo /\ i # Len(stack[t])
  <2>1. Top(t) = stack[t][Len(stack[t])]
    BY <1>0, <1>3, OnTop DEF Busy
  <2> QED BY <1>0, <1>3, <2>1, GoesOn
<1>4. ASSUME u = t, Goes(t)
      PROVE  /\ i \in DOMAIN stack[t] /\ stack'[t][i].comp = stack[t][i].comp /\ stack'[t][i].pkt = stack[t][i].pkt
             /\ stack'[t][i].direct => stack[t][i].direct /\ stack'[t][i].todo = stack[t][i].todo /\ i # Len(stack[t])
  <2>1. Busy(t) /\ stack'[t] = Sent(t) /\ DOMAIN Sent(t) = DOMAIN stack[t]
    BY <1>0, <1>4, StackAfter, GoesOn DEF Goes
  <2> QED BY <1>3, <1>4, <2>1
<1>5. ASSUME u = t, Calls(t)
      PROVE  \/ /\ i \in DOMAIN stack[t] /\ stack'[t][i].comp = stack[t][i].comp /\ stack'[t][i].pkt = stack[t][i].pkt
                /\ stack'[t][i].direct => stack[t][i].direct /\ stack'[t][i].todo = stack[t][i].todo /\ i # Len(stack[t])
             \/ stack'[t][i].comp = Target(t) /\ stack'[t][i].pkt = Top(t).pkt /\ ~stack'[t][i].direct
  <2>1. /\ DOMAIN stack'[t] = DOMAIN stack[t] \cup {Len(stack[t]) + 1}
        /\ (\A j \in DOMAIN stack[t] : stack'[t][j] = Sent(t)[j])
        /\ stack'[t][Len(stack[t]) + 1] = Frame(Target(t), Top(t).pkt)
    BY <1>0, <1>5, StackAfter
  <2>2. Busy(t) /\ Target(t) \in Comps /\ Top(t).pkt \in Packets \cup {Visit}
    BY <1>0, <1>5, GoesOn, OnTop DEF Calls, Busy, Frames
  <2>3. /\ Frame(Target(t), Top(t).pkt).comp = Target(t) /\ Frame(Target(t), Top(t).pkt).pkt = Top(t).pkt
        /\ ~Frame(Target(t), Top(t).pkt).direct
    BY <2>2, NewFrame
  <2>4. CASE i = Len(stack[t]) + 1
    BY <2>1, <2>3, <2>4
  <2>5. CASE i \in DOMAIN stack[t]
    BY <1>3, <1>5, <2>1, <2>2, <2>5
  <2> QED BY <1>5, <2>1, <2>4, <2>5
<1>6. ASSUME u = t, Commits(t)
      PROVE  /\ i \in DOMAIN stack[t] /\ stack'[t][i].comp = stack[t][i].comp /\ stack'[t][i].pkt = stack[t][i].pkt
             /\ \/ stack'[t][i].direct => stack[t][i].direct /\ stack'[t][i].todo = stack[t][i].todo
                \/ stack'[t][i].pkt = Top(t).pkt /\ stack'[t][i].todo = Top(t).todo
  <2>1. Top(t) = stack[t][Len(stack[t])]
    BY <1>0, <1>6, OnTop DEF Commits, Busy
  <2>2. /\ DOMAIN stack'[t] = DOMAIN stack[t]
        /\ (\A j \in DOMAIN stack[t] : j # Len(stack[t]) => stack'[t][j] = stack[t][j])
        /\ stack'[t][Len(stack[t])].comp = Top(t).comp /\ stack'[t][Len(stack[t])].pkt = Top(t).pkt
        /\ stack'[t][Len(stack[t])].todo = Top(t).todo
    BY <1>0, <1>6, StackAfter
  <2> QED BY <1>6, <2>1, <2>2
<1>7. ASSUME u = t, Leaves(t)
      PROVE  i \in DOMAIN stack[t] /\ stack'[t][i] = stack[t][i]
  BY <1>0, <1>7, StackAfter
<1>8. CASE u = t
  BY <1>2, <1>4, <1>5, <1>6, <1>7, <1>8
<1> QED BY <1>1, <1>8
(* A packet taken from a queue is the one that is due.                      *)
LEMMA TakenIsDue ==
  ASSUME NEW s \in Sources, NEW R \in SUBSET Comps, NEW depth \in [Comps -> Nat], Tree(s, R, depth),
         Typed, Below(s, R), Sendings(s, R), NEW c \in Threaded, Takes(c), Head(queue[c])[1] = s
  PROVE  c \in R /\ c # s /\ Head(queue[c])[2] = Begun(s, c) + 1
<1>0. Traffic /\ queue[c] \in Seq(Packets) /\ queue[c] # <<>> /\ c \in Comps /\ Waiting(c) = queue[c] /\ s \in Comps
  BY FlowAssumption DEF Typed, Traffic, Takes, Waiting
<1>1. 1 \in DOMAIN queue[c] /\ Head(queue[c]) = queue[c][1]
  BY <1>0, Shift
<1>2. Fed(c, R)
  BY <1>0, <1>1 DEF Below
<1>3. PICK b \in R : \E k \in DOMAIN Route[b] : Route[b][k] = c
  BY <1>2 DEF Fed
<1>4. c \in R /\ c # s
  BY <1>3 DEF Tree
<1>5. Holding(queue[c], s, Begun(s, c), Passed(s, b, c))
  BY <1>0, <1>3 DEF Sendings
<1>6. Begun(s, c) \in Nat /\ Passed(s, b, c) \in Int
  BY <1>0, <1>3, BegunAfter DEF Passed
<1> QED BY <1>0, <1>4, <1>5, <1>6, HoldsTail

(* So is one that is received directly: then nothing waits.                 *)
LEMMA GivenIsDue ==
  ASSUME NEW s \in Sources, NEW R \in SUBSET Comps, NEW depth \in [Comps -> Nat], Tree(s, R, depth),
         Typed, Opened, Chains(s, R, depth), Flow(s, R), NEW t \in Threads, Gives(t), IsOf(Top(t), s)
  PROVE  /\ Top(t).comp \in R /\ Target(t) \in R /\ Target(t) # s /\ Target(t) # Top(t).comp
         /\ Top(t).pkt[2] = Begun(s, Target(t)) + 1 /\ Begun(s, Top(t).comp) = Begun(s, Target(t)) + 1
         /\ Clear(Target(t), s)
<1>0. Stacks /\ Traffic /\ Busy(t) /\ Target(t) \in Comps
  BY DEF Typed, Gives, Calls
<1>1. /\ Top(t).comp \in R /\ Target(t) \in R /\ Target(t) # s /\ depth[Target(t)] > depth[Top(t).comp]
      /\ \E k \in DOMAIN Route[Top(t).comp] : Target(t) = Route[Top(t).comp][k]
  BY <1>0, NextReceiver
<1>2. Target(t) # Top(t).comp
  BY <1>1
<1>3. PICK n \in DOMAIN stack[t] : stack[t][n] = Top(t)
  BY <1>0, OnTop DEF Busy
<1>4. Top(t).pkt[2] = Begun(s, Top(t).comp)
  BY <1>1, <1>3 DEF Flow, Numbers
<1>5. Clear(Target(t), s)
  <2>1. CASE Target(t) \in Threaded /\ inited[Target(t)]
    <3>1. Top(t).direct
      BY <2>1 DEF Gives
    <3> QED BY <1>0, <1>3, <3>1 DEF Flow, Committed, Target
  <2>2. CASE ~(Target(t) \in Threaded /\ inited[Target(t)])
    <3>1. Waiting(Target(t)) = <<>>
      BY <2>2 DEF Opened, Waiting
    <3> QED BY <3>1 DEF Clear
  <2> QED BY <2>1, <2>2
<1>6. Holding(Waiting(Target(t)), s, Begun(s, Target(t)), Passed(s, Top(t).comp, Target(t)))
  BY <1>1 DEF Flow, Sendings
<1>7. Pending(s, Top(t).comp, Target(t))
  BY <1>0, PendingAfter
<1>8. Begun(s, Top(t).comp) \in Nat /\ Begun(s, Target(t)) \in Nat /\ Waiting(Target(t)) \in Seq(Packets)
  <2>1. Waiting(Target(t)) \in Seq(Packets)
    BY <1>0, EmptySeq DEF Waiting, Traffic
  <2> QED BY <1>0, <1>1, <2>1, BegunAfter
<1>9. Begun(s, Target(t)) = Begun(s, Top(t).comp) - 1
  BY <1>5, <1>6, <1>7, <1>8, HoldsNone DEF Passed, Clear
<1> QED BY <1>1, <1>2, <1>4, <1>5, <1>8, <1>9
(* Every handler is about the packet its component has begun last: when the *)
(* component begins another, the handler of the one before is gone.         *)
LEMMA NumbersKept ==
  ASSUME NEW s \in Sources, NEW R \in SUBSET Comps, NEW depth \in [Comps -> Nat], Tree(s, R, depth),
         Typed, Opened, Whole(s, R, depth), Next
  PROVE  Numbers(s)'
<1>0. Stacks /\ Traffic /\ Chains(s, R, depth) /\ Below(s, R) /\ Flow(s, R)
  BY DEF Typed, Whole
<1>a. \A c \in Comps, u \in Threads : \A i \in DOMAIN stack[u] :
        IsOf(stack[u][i], s) /\ stack[u][i].comp = c => stack[u][i].pkt[2] = Begun(s, c)
  BY <1>0 DEF Flow, Numbers
<1>1. ASSUME \A d \in Comps : Begun(s, d)' = Begun(s, d),
             \A u \in Threads : \A i \in DOMAIN stack'[u] :
               \/ /\ i \in DOMAIN stack[u] /\ stack'[u][i].comp = stack[u][i].comp
                  /\ stack'[u][i].pkt = stack[u][i].pkt
               \/ ~IsOf(stack'[u][i], s)
      PROVE  Numbers(s)'
  BY <1>a, <1>1 DEF Numbers, IsOf
<1>2. ASSUME NEW c \in Comps, NEW p, p[2] = Begun(s, c) + 1, Begun(s, c)' = Begun(s, c) + 1,
             \A d \in Comps : d # c => Begun(s, d)' = Begun(s, d),
             \A u \in Threads : \A i \in DOMAIN stack[u] : stack[u][i].comp # c,
             \A u \in Threads : \A i \in DOMAIN stack'[u] :
               \/ /\ i \in DOMAIN stack[u] /\ stack'[u][i].comp = stack[u][i].comp
                  /\ stack'[u][i].pkt = stack[u][i].pkt
               \/ stack'[u][i].comp = c /\ stack'[u][i].pkt = p
      PROVE  Numbers(s)'
  BY <1>a, <1>2 DEF Numbers, IsOf
<1>3. ASSUME NEW t \in Threads, NEW c \in Comps, NEW p \in Packets \cup {Visit}, Enters(t, c, p)
      PROVE  /\ \A u \in Threads : \A i \in DOMAIN stack[u] : stack[u][i].comp # c
             /\ \A u \in Threads : \A i \in DOMAIN stack'[u] :
                  \/ /\ i \in DOMAIN stack[u] /\ stack'[u][i].comp = stack[u][i].comp
                     /\ stack'[u][i].pkt = stack[u][i].pkt
                  \/ stack'[u][i].comp = c /\ stack'[u][i].pkt = p
  BY <1>0, <1>3, NotServed, FramesAfter
<1>4. ASSUME NEW t \in Threads, Calls(t)
      PROVE  /\ IsOf(Top(t), s) => \A u \in Threads : \A i \in DOMAIN stack[u] : stack[u][i].comp # Target(t)
             /\ \A u \in Threads : \A i \in DOMAIN stack'[u] :
                  \/ /\ i \in DOMAIN stack[u] /\ stack'[u][i].comp = stack[u][i].comp
                     /\ stack'[u][i].pkt = stack[u][i].pkt
                  \/ stack'[u][i].comp = Target(t) /\ stack'[u][i].pkt = Top(t).pkt
  <2>1. IsOf(Top(t), s) => \A u \in Threads : \A i \in DOMAIN stack[u] : stack[u][i].comp # Target(t)
    BY <1>0, <1>4, NotServed
  <2>2. \A u \in Threads : \A i \in DOMAIN stack'[u] :
          \/ /\ i \in DOMAIN stack[u] /\ stack'[u][i].comp = stack[u][i].comp
             /\ stack'[u][i].pkt = stack[u][i].pkt
          \/ stack'[u][i].comp = Target(t) /\ stack'[u][i].pkt = Top(t).pkt
    BY <1>4, FramesAfter
  <2> QED BY <2>1, <2>2
<1>5. ASSUME NEW t \in Threads, Goes(t) \/ Commits(t) \/ Leaves(t)
      PROVE  \A u \in Threads : \A i \in DOMAIN stack'[u] :
               /\ i \in DOMAIN stack[u] /\ stack'[u][i].comp = stack[u][i].comp
               /\ stack'[u][i].pkt = stack[u][i].pkt
  BY <1>5, FramesAfter
<1>6. ASSUME NEW c \in Sources, Makes(c)
      PROVE  Numbers(s)'
  <2>0. c \in Comps /\ Runner(c) \in Threads /\ <<c, made[c] + 1>> \in Packets /\ Enters(Runner(c), c, <<c, made[c] + 1>>)
    BY <1>6, FlowAssumption DEF Runner, Threads, Makes, Packets
  <2>1. \A d \in Comps : Begun(s, d)' = IF d = s /\ c = s THEN Begun(s, d) + 1 ELSE Begun(s, d)
    BY <1>0, <1>6, BegunAfter DEF Makes
  <2>2. CASE c = s
    <3>1. made[c] + 1 = Begun(s, c) + 1
      BY <2>2 DEF Begun
    <3> QED BY <1>2, <1>3, <2>0, <2>1, <2>2, <3>1
  <2>3. CASE c # s
    <3>1. \A u \in Threads : \A i \in DOMAIN stack'[u] : stack'[u][i].pkt = <<c, made[c] + 1>> => ~IsOf(stack'[u][i], s)
      BY <2>3 DEF IsOf
    <3> QED BY <1>1, <1>3, <2>0, <2>1, <2>3, <3>1
  <2> QED BY <2>2, <2>3
<1>7. ASSUME NEW c \in Threaded, Takes(c)
      PROVE  Numbers(s)'
  <2>0. PICK p \in Packets : p = Head(queue[c])
    BY <1>7 DEF Takes
  <2>1. c \in Comps /\ c \in Threads /\ Enters(c, c, p) /\ (p[1] = s => c # s)
    BY <1>0, <1>7, <2>0, TakenIsDue, FlowAssumption DEF Takes, Threads, Flow
  <2>2. \A d \in Comps : Begun(s, d)' = IF d = c /\ p[1] = s THEN Begun(s, d) + 1 ELSE Begun(s, d)
    <3>1. made' = made /\ got' = [got EXCEPT ![c] = Append(got[c], p)]
      BY <1>7, <2>0 DEF Takes
    <3> QED BY <1>0, <2>1, <3>1, BegunAfter
  <2>3. CASE p[1] = s
    <3>1. p[2] = Begun(s, c) + 1
      BY <1>0, <1>7, <2>0, <2>3, TakenIsDue DEF Flow
    <3> QED BY <1>2, <1>3, <2>1, <2>2, <2>3, <3>1
  <2>4. CASE p[1] # s
    <3>1. \A u \in Threads : \A i \in DOMAIN stack'[u] : stack'[u][i].pkt = p => ~IsOf(stack'[u][i], s)
      BY <2>4 DEF IsOf
    <3> QED BY <1>1, <1>3, <2>1, <2>2, <2>4, <3>1
  <2> QED BY <2>3, <2>4
<1>8. ASSUME NEW t \in Threads, Puts(t)
      PROVE  Numbers(s)'
  BY <1>0, <1>1, <1>5, <1>8, BegunAfter DEF Puts
<1>9. ASSUME NEW t \in Threads, Gives(t)
      PROVE  Numbers(s)'
  <2>0. PICK c \in Comps, p \in Packets : c = Target(t) /\ p = Top(t).pkt
    BY <1>9 DEF Gives
  <2>1. p[1] = s <=> IsOf(Top(t), s)
    BY <2>0 DEF IsOf, Visit, Packets
  <2>2. Calls(t) /\ made' = made /\ got' = [got EXCEPT ![c] = Append(got[c], p)]
    BY <1>9, <2>0 DEF Gives
  <2>3. p[1] = s => c # s /\ p[2] = Begun(s, c) + 1
    BY <1>0, <1>9, <2>0, <2>1, GivenIsDue
  <2>4. \A d \in Comps : Begun(s, d)' = IF d = c /\ p[1] = s THEN Begun(s, d) + 1 ELSE Begun(s, d)
    BY <1>0, <2>2, <2>3, BegunAfter
  <2>5. CASE p[1] = s
    BY <1>2, <1>4, <2>0, <2>1, <2>2, <2>3, <2>4, <2>5
  <2>6. CASE p[1] # s
    <3>1. \A u \in Threads : \A i \in DOMAIN stack'[u] : stack'[u][i].pkt = p => ~IsOf(stack'[u][i], s)
      BY <2>6 DEF IsOf
    <3> QED BY <1>1, <1>4, <2>0, <2>2, <2>4, <2>6, <3>1
  <2> QED BY <2>5, <2>6
<1>10. CASE Moves
  <2>1. \A d \in Comps : Begun(s, d)' = Begun(s, d)
    BY <1>0, <1>10, BegunAfter DEF Moves
  <2>2. CASE stack' = stack
    BY <1>1, <2>1, <2>2
  <2>3. ASSUME NEW t \in Threads, NEW c \in Comps, Enters(t, c, Visit)
        PROVE  Numbers(s)'
    <3>1. \A u \in Threads : \A i \in DOMAIN stack'[u] : stack'[u][i].pkt = Visit => ~IsOf(stack'[u][i], s)
      BY DEF IsOf
    <3> QED BY <1>1, <1>3, <2>1, <2>3, <3>1
  <2>4. ASSUME NEW t \in Threads, Calls(t), Top(t).pkt = Visit
        PROVE  Numbers(s)'
    <3>1. \A u \in Threads : \A i \in DOMAIN stack'[u] : stack'[u][i].pkt = Visit => ~IsOf(stack'[u][i], s)
      BY DEF IsOf
    <3> QED BY <1>1, <1>4, <2>1, <2>4, <3>1
  <2> QED BY <1>1, <1>5, <1>10, <2>1, <2>2, <2>3, <2>4 DEF Moves
<1> QED BY <1>6, <1>7, <1>8, <1>9, <1>10, Steps
(* Nothing of the source comes to wait for a receiver to which a caller is  *)
(* committed: only that caller could send it.                               *)
LEMMA CommittedKept ==
  ASSUME NEW s \in Sources, NEW R \in SUBSET Comps, NEW depth \in [Comps -> Nat], Tree(s, R, depth),
         Typed, Opened, Whole(s, R, depth), Next
  PROVE  Committed(s)'
<1>0. Stacks /\ Traffic /\ Chains(s, R, depth) /\ Below(s, R) /\ Flow(s, R) /\ Threaded \subseteq Comps
  BY FlowAssumption DEF Typed, Whole
<1>a. \A c \in Comps, u \in Threads : \A i \in DOMAIN stack[u] :
        IsOf(stack[u][i], s) /\ stack[u][i].direct =>
          stack[u][i].todo # <<>> /\ (Head(stack[u][i].todo) = c => Clear(c, s))
  BY <1>0 DEF Flow, Committed
<1>b. queue \in [Threaded -> Seq(Packets)]
  BY <1>0 DEF Traffic
<1>1. ASSUME \A c \in Comps : Clear(c, s) => Clear(c, s)',
             \A u \in Threads : \A i \in DOMAIN stack'[u] :
               \/ /\ i \in DOMAIN stack[u] /\ stack'[u][i].pkt = stack[u][i].pkt
                  /\ stack'[u][i].direct => stack[u][i].direct /\ stack'[u][i].todo = stack[u][i].todo
               \/ ~stack'[u][i].direct
      PROVE  Committed(s)'
  <2> SUFFICES ASSUME NEW c \in Comps, NEW u \in Threads, NEW i \in DOMAIN stack'[u],
                      IsOf(stack'[u][i], s), stack'[u][i].direct
               PROVE  stack'[u][i].todo # <<>> /\ (Head(stack'[u][i].todo) = c => Clear(c, s)')
    BY DEF Committed, IsOf
  <2>1. i \in DOMAIN stack[u] /\ IsOf(stack[u][i], s) /\ stack[u][i].direct /\ stack'[u][i].todo = stack[u][i].todo
    BY <1>1 DEF IsOf
  <2> QED BY <1>1, <1>a, <2>1
<1>2. ASSUME UNCHANGED queue
      PROVE  \A c \in Comps : Clear(c, s)' <=> Clear(c, s)
  BY <1>2 DEF Clear, Waiting
<1>3. ASSUME NEW c \in Sources, Makes(c)
      PROVE  Committed(s)'
  <2>1. c \in Comps /\ Runner(c) \in Threads /\ <<c, made[c] + 1>> \in Packets /\ Enters(Runner(c), c, <<c, made[c] + 1>>)
    BY <1>3, FlowAssumption DEF Runner, Threads, Makes, Packets
  <2>2. UNCHANGED queue
    BY <1>3 DEF Makes
  <2> QED BY <1>0, <1>1, <1>2, <2>1, <2>2, FramesAfter
<1>4. ASSUME NEW c \in Threaded, Takes(c)
      PROVE  Committed(s)'
  <2>1. c \in Comps /\ c \in Threads /\ Head(queue[c]) \in Packets /\ Enters(c, c, Head(queue[c]))
    BY <1>4, FlowAssumption DEF Takes, Threads
  <2>2. queue'[c] = Tail(queue[c]) /\ \A d \in Threaded : d # c => queue'[d] = queue[d]
    BY <1>b, <1>4 DEF Takes
  <2>3. \A k \in DOMAIN Tail(queue[c]) : k + 1 \in DOMAIN queue[c] /\ Tail(queue[c])[k] = queue[c][k + 1]
    BY <1>b, <1>4, Shift DEF Takes
  <2>4. ASSUME NEW d \in Comps, Clear(d, s)
        PROVE  Clear(d, s)'
    <3>1. CASE d = c
      <4>1. \A k \in DOMAIN queue[c] : queue[c][k][1] # s
        BY <2>4, <3>1 DEF Clear, Waiting
      <4>2. \A k \in DOMAIN queue'[c] : queue'[c][k][1] # s
        BY <2>2, <2>3, <4>1
      <4> QED BY <3>1, <4>2 DEF Clear, Waiting
    <3>2. CASE d # c
      BY <2>2, <2>4, <3>2 DEF Clear, Waiting
    <3> QED BY <3>1, <3>2
  <2> QED BY <1>0, <1>1, <2>1, <2>4, FramesAfter
<1>5. ASSUME NEW t \in Threads, Puts(t)
      PROVE  Committed(s)'
  <2>0. PICK c \in Threaded, p \in Packets : c = Target(t) /\ p = Top(t).pkt
    BY <1>5 DEF Puts
  <2>1. queue'[c] = Append(queue[c], p) /\ (\A d \in Threaded : d # c => queue'[d] = queue[d]) /\ Goes(t) /\ Busy(t)
    BY <1>b, <1>5, <2>0 DEF Puts, Goes
  <2>2. /\ DOMAIN queue[c] = 1..Len(queue[c]) /\ DOMAIN Append(queue[c], p) = 1..Len(queue[c]) + 1 /\ Len(queue[c]) \in Nat
        /\ (\A i \in DOMAIN queue[c] : Append(queue[c], p)[i] = queue[c][i]) /\ Append(queue[c], p)[Len(queue[c]) + 1] = p
    BY <1>b, OneMore
  <2>3. ASSUME NEW d \in Comps, d # c \/ p[1] # s, Clear(d, s)
        PROVE  Clear(d, s)'
    <3>1. CASE d = c
      <4>1. \A k \in DOMAIN queue[c] : queue[c][k][1] # s
        BY <2>3, <3>1 DEF Clear, Waiting
      <4>2. \A k \in DOMAIN queue'[c] : queue'[c][k][1] # s
        BY <2>1, <2>2, <2>3, <3>1, <4>1
      <4> QED BY <3>1, <4>2 DEF Clear, Waiting
    <3>2. CASE d # c
      BY <2>1, <2>3, <3>2 DEF Clear, Waiting
    <3> QED BY <3>1, <3>2
  <2>4. CASE p[1] # s
    BY <1>1, <2>1, <2>3, <2>4, FramesAfter
  <2>5. CASE p[1] = s
    <3>0. IsOf(Top(t), s)
      BY <2>0, <2>5 DEF IsOf, Visit, Packets
    <3> SUFFICES ASSUME NEW d \in Comps, NEW u \in Threads, NEW i \in DOMAIN stack'[u],
                        IsOf(stack'[u][i], s), stack'[u][i].direct
                 PROVE  stack'[u][i].todo # <<>> /\ (Head(stack'[u][i].todo) = d => Clear(d, s)')
      BY DEF Committed, IsOf
    <3>1. /\ i \in DOMAIN stack[u] /\ stack[u][i].direct /\ stack'[u][i].todo = stack[u][i].todo
          /\ stack'[u][i].pkt = stack[u][i].pkt /\ ~(u = t /\ i = Len(stack[t]))
      BY <2>1, FramesAfter
    <3>2. IsOf(stack[u][i], s)
      BY <3>1 DEF IsOf
    <3>3. stack[u][i].todo # <<>> /\ (Head(stack[u][i].todo) = d => Clear(d, s))
      BY <1>a, <3>1, <3>2
    <3>4. Len(stack[t]) \in DOMAIN stack[t] /\ Top(t) = stack[t][Len(stack[t])]
      BY <1>0, <2>1, OnTop DEF Busy
    <3>5. stack[u][i].comp # Top(t).comp
      <4>1. PICK n \in DOMAIN stack[t] : n = Len(stack[t]) /\ stack[t][n] = Top(t) /\ IsOf(stack[t][n], s)
        BY <3>0, <3>4
      <4>2. i \in DOMAIN stack[u] /\ Chains(s, R, depth)
        BY <1>0, <3>1
      <4>3. stack[u][i].comp = stack[t][n].comp => u = t /\ i = n
        BY ONLY s \in Sources, R \in SUBSET Comps, depth \in [Comps -> Nat], Typed, t \in Threads,
           u \in Threads,
                n \in DOMAIN stack[t], <3>2, <4>1, <4>2, UniqueFrame
      <4> QED BY <3>1, <4>1, <4>3
    <3>6. Head(stack[u][i].todo) # c
      <4>1. stack[u][i].todo \in Seq(Comps)
        BY <1>0, <3>1, OnTop DEF Frames
      <4>2. 1 \in DOMAIN stack[u][i].todo /\ Head(stack[u][i].todo) = stack[u][i].todo[1]
        BY <3>3, <4>1, Shift
      <4>3. stack[u][i].comp \in R /\ \E k \in DOMAIN Route[stack[u][i].comp] : Head(stack[u][i].todo) = Route[stack[u][i].comp][k]
        BY <1>0, <3>1, <3>2, <4>2 DEF Chains, Chain
      <4>4. Top(t).comp \in R /\ \E k \in DOMAIN Route[Top(t).comp] : c = Route[Top(t).comp][k]
        BY <1>0, <2>0, <2>1, <3>0, NextReceiver
      <4> QED BY <3>5, <4>3, <4>4 DEF Tree
    <3> QED BY <2>3, <3>1, <3>3, <3>6
  <2> QED BY <2>4, <2>5
<1>6. ASSUME NEW t \in Threads, Calls(t), UNCHANGED queue
      PROVE  Committed(s)'
  BY <1>1, <1>2, <1>6, FramesAfter
<1>7. CASE Moves
  <2>0. UNCHANGED queue
    BY <1>7 DEF Moves
  <2>1. CASE stack' = stack
    BY <1>1, <1>2, <2>0, <2>1
  <2>2. ASSUME NEW t \in Threads, NEW c \in Comps, Enters(t, c, Visit)
        PROVE  Committed(s)'
    BY <1>1, <1>2, <2>0, <2>2, FramesAfter
  <2>3. ASSUME NEW t \in Threads, Leaves(t)
        PROVE  Committed(s)'
    BY <1>1, <1>2, <2>0, <2>3, FramesAfter
  <2>4. ASSUME NEW t \in Threads, Commits(t), Top(t).pkt \in Packets, ~(Target(t) \in Threaded /\ inited[Target(t)])
        PROVE  Committed(s)'
    <3>1. Clear(Target(t), s)
      <4>1. Waiting(Target(t)) = <<>>
        BY <2>4 DEF Opened, Waiting
      <4> QED BY <4>1 DEF Clear
    <3>2. Top(t).todo # <<>> /\ Target(t) = Head(Top(t).todo)
      BY <1>0, <2>4, GoesOn DEF Commits
    <3> SUFFICES ASSUME NEW d \in Comps, NEW u \in Threads, NEW i \in DOMAIN stack'[u],
                        IsOf(stack'[u][i], s), stack'[u][i].direct
                 PROVE  stack'[u][i].todo # <<>> /\ (Head(stack'[u][i].todo) = d => Clear(d, s)')
      BY DEF Committed, IsOf
    <3>3. \/ /\ i \in DOMAIN stack[u] /\ stack'[u][i].pkt = stack[u][i].pkt
             /\ stack[u][i].direct /\ stack'[u][i].todo = stack[u][i].todo
          \/ stack'[u][i].todo = Top(t).todo
      BY <2>4, FramesAfter
    <3>4. CASE stack'[u][i].todo = Top(t).todo
      BY <1>2, <2>0, <3>1, <3>2, <3>4
    <3>5. CASE /\ i \in DOMAIN stack[u] /\ stack'[u][i].pkt = stack[u][i].pkt
               /\ stack[u][i].direct /\ stack'[u][i].todo = stack[u][i].todo
      <4>1. IsOf(stack[u][i], s)
        BY <3>5 DEF IsOf
      <4> QED BY <1>2, <1>a, <2>0, <3>5, <4>1
    <3> QED BY <3>3, <3>4, <3>5
  <2> QED BY <1>6, <1>7, <2>0, <2>1, <2>2, <2>3, <2>4 DEF Moves
<1>8. ASSUME NEW t \in Threads, Gives(t)
      PROVE  Committed(s)'
  BY <1>6, <1>8 DEF Gives
<1> QED BY <1>3, <1>4, <1>5, <1>7, <1>8, Steps
(* What a queue holds is what its component was sent and has not begun.     *)
LEMMA SendingsKept ==
  ASSUME NEW s \in Sources, NEW R \in SUBSET Comps, NEW depth \in [Comps -> Nat], Tree(s, R, depth),
         Typed, Opened, Whole(s, R, depth), Next
  PROVE  Sendings(s, R)'
<1>0. /\ Stacks /\ Traffic /\ Chains(s, R, depth) /\ Below(s, R) /\ Flow(s, R) /\ Sendings(s, R)
      /\ Threaded \subseteq Comps /\ queue \in [Threaded -> Seq(Packets)]
  BY FlowAssumption DEF Typed, Whole, Flow, Traffic
<1> SUFFICES ASSUME NEW c \in R, NEW k \in DOMAIN Route[c]
             PROVE  Holding(Waiting(Route[c][k])', s, Begun(s, Route[c][k])', Passed(s, c, Route[c][k])')
  BY DEF Sendings, Holding
<1>a. PICK d \in Comps : d = Route[c][k]
  BY Receivers
<1>b. /\ d \in R /\ d # s /\ depth[d] > depth[c] /\ c \in Comps
      /\ \A b \in R : \A l \in DOMAIN Route[b] : Route[b][l] = d => b = c
  <2>1. /\ Route[c][k] \in R /\ Route[c][k] # s /\ depth[Route[c][k]] > depth[c]
        /\ \A b \in R : \A l \in DOMAIN Route[b] : Route[b][l] = Route[c][k] => b = c
    BY DEF Tree
  <2> QED BY <1>a, <2>1
<1>c. c # d /\ Begun(s, d) \in Nat /\ Begun(s, c) \in Nat /\ Passed(s, c, d) \in Int
  BY <1>0, <1>b, BegunAfter DEF Passed
<1>d. Waiting(d) \in Seq(Packets) /\ Holding(Waiting(d), s, Begun(s, d), Passed(s, c, d))
  BY <1>0, <1>a, EmptySeq DEF Waiting, Sendings
<1> SUFFICES Holding(Waiting(d)', s, Begun(s, d)', Passed(s, c, d)')
  BY <1>a
<1>1. ASSUME Begun(s, c)' = Begun(s, c), Pending(s, c, d)' <=> Pending(s, c, d)
      PROVE  Passed(s, c, d)' = Passed(s, c, d)
  BY <1>1 DEF Passed
<1>2. ASSUME Begun(s, c)' = Begun(s, c) + 1, ~Pending(s, c, d), Pending(s, c, d)'
      PROVE  Passed(s, c, d)' = Passed(s, c, d)
  BY <1>2, <1>c DEF Passed
<1>3. ASSUME Waiting(d)' = Waiting(d), Begun(s, d)' = Begun(s, d), Passed(s, c, d)' = Passed(s, c, d)
      PROVE  Holding(Waiting(d)', s, Begun(s, d)', Passed(s, c, d)')
  BY <1>d, <1>3
<1>4. UNCHANGED queue => Waiting(d)' = Waiting(d)
  BY DEF Waiting
<1>5. ASSUME NEW b \in Sources, Makes(b)
      PROVE  Holding(Waiting(d)', s, Begun(s, d)', Passed(s, c, d)')
  <2>0. /\ b \in Comps /\ Runner(b) \in Threads /\ <<b, made[b] + 1>> \in Packets /\ Enters(Runner(b), b, <<b, made[b] + 1>>)
        /\ UNCHANGED queue /\ UNCHANGED got /\ made' = [made EXCEPT ![b] = @ + 1]
    BY <1>5, FlowAssumption DEF Runner, Threads, Makes, Packets
  <2>1. /\ Begun(s, d)' = Begun(s, d)
        /\ Begun(s, c)' = IF c = s /\ b = s THEN Begun(s, c) + 1 ELSE Begun(s, c)
    <3>1. \A e \in Comps : Begun(s, e)' = IF e = s /\ b = s THEN Begun(s, e) + 1 ELSE Begun(s, e)
      BY <1>0, <2>0, BegunAfter
    <3> QED BY <1>b, <3>1
  <2>2. PICK p \in Packets : p = <<b, made[b] + 1>>
    BY <2>0
  <2>3. /\ ~Pending(s, b, d)
        /\ Pending(s, c, d)' <=> Pending(s, c, d) \/ Started(b, p, s, c, d)
    BY <1>0, <2>0, <2>2, PendingAfter
  <2>4. CASE b = s /\ c = s
    <3>1. Started(b, p, s, c, d)
      BY <1>a, <2>2, <2>4 DEF Started, Visit, Packets
    <3> QED BY <1>2, <1>3, <1>4, <2>0, <2>1, <2>3, <2>4, <3>1
  <2>5. CASE ~(b = s /\ c = s)
    <3>1. ~Started(b, p, s, c, d)
      BY <2>2, <2>5 DEF Started
    <3> QED BY <1>1, <1>3, <1>4, <2>0, <2>1, <2>3, <2>5, <3>1
  <2> QED BY <2>4, <2>5
<1>6. ASSUME NEW b \in Threaded, Takes(b)
      PROVE  Holding(Waiting(d)', s, Begun(s, d)', Passed(s, c, d)')
  <2>0. PICK p \in Packets : p = Head(queue[b])
    BY <1>6 DEF Takes
  <2>1. /\ b \in Comps /\ b \in Threads /\ Enters(b, b, p) /\ (p[1] = s => b # s) /\ queue[b] # <<>>
        /\ made' = made /\ got' = [got EXCEPT ![b] = Append(got[b], p)]
    BY <1>0, <1>6, <2>0, TakenIsDue, FlowAssumption DEF Takes, Threads
  <2>2. \A e \in Comps : Begun(s, e)' = IF e = b /\ p[1] = s THEN Begun(s, e) + 1 ELSE Begun(s, e)
    BY <1>0, <2>1, BegunAfter
  <2>3. queue'[b] = Tail(queue[b]) /\ \A e \in Threaded : e # b => queue'[e] = queue[e]
    BY <1>0, <1>6 DEF Takes
  <2>4. /\ ~Pending(s, b, d)
        /\ Pending(s, c, d)' <=> Pending(s, c, d) \/ Started(b, p, s, c, d)
    BY <1>0, <2>1, PendingAfter
  <2>5. Started(b, p, s, c, d) <=> p[1] = s /\ b = c
    BY <1>a DEF Started, Visit, Packets
  <2>6. Passed(s, c, d)' = Passed(s, c, d)
    <3>1. CASE p[1] = s /\ b = c
      BY <1>2, <1>b, <2>2, <2>4, <2>5, <3>1
    <3>2. CASE ~(p[1] = s /\ b = c)
      BY <1>1, <1>b, <2>2, <2>4, <2>5, <3>2
    <3> QED BY <3>1, <3>2
  <2>7. CASE b = d
    <3>1. Waiting(d) = queue[b] /\ Waiting(d)' = Tail(queue[b])
      BY <2>3, <2>7 DEF Waiting
    <3>2. /\ p[1] = s => Holding(Tail(queue[b]), s, Begun(s, d) + 1, Passed(s, c, d))
          /\ p[1] # s => Holding(Tail(queue[b]), s, Begun(s, d), Passed(s, c, d))
      BY <1>c, <1>d, <2>0, <2>1, <3>1, HoldsTail
    <3>3. Begun(s, d)' = IF p[1] = s THEN Begun(s, d) + 1 ELSE Begun(s, d)
      BY <2>2, <2>7
    <3> QED BY <2>6, <3>1, <3>2, <3>3
  <2>8. CASE b # d
    <3>1. Waiting(d)' = Waiting(d)
      BY <2>3, <2>8 DEF Waiting
    <3> QED BY <1>3, <2>2, <2>6, <2>8, <3>1
  <2> QED BY <2>7, <2>8
<1>7. ASSUME NEW t \in Threads, Puts(t)
      PROVE  Holding(Waiting(d)', s, Begun(s, d)', Passed(s, c, d)')
  <2>0. PICK b \in Threaded, p \in Packets : b = Target(t) /\ p = Top(t).pkt
    BY <1>7 DEF Puts
  <2>1. Goes(t) /\ Busy(t) /\ UNCHANGED <<made, got>>
    BY <1>7 DEF Puts, Goes
  <2>2. queue'[b] = Append(queue[b], p) /\ \A e \in Threaded : e # b => queue'[e] = queue[e]
    BY <1>0, <1>7, <2>0 DEF Puts
  <2>3. Begun(s, d)' = Begun(s, d) /\ Begun(s, c)' = Begun(s, c)
    BY <1>0, <1>b, <2>1, BegunAfter
  <2>4. /\ Pending(s, c, d)' <=> Pending(s, c, d) /\ ~Turn(t, s, c, d)
        /\ IsOf(Top(t), s) => Pending(s, Top(t).comp, Target(t))
    BY <1>0, <2>1, PendingAfter
  <2>5. p[1] = s <=> IsOf(Top(t), s)
    BY <2>0 DEF IsOf, Visit, Packets
  <2>6. CASE b # d
    <3>1. Waiting(d)' = Waiting(d)
      BY <2>2, <2>6 DEF Waiting
    <3>2. ~Turn(t, s, c, d)
      BY <2>0, <2>6 DEF Turn
    <3> QED BY <1>1, <1>3, <2>3, <2>4, <3>1, <3>2
  <2>7. CASE b = d
    <3>1. Waiting(d) = queue[b] /\ Waiting(d)' = Append(queue[b], p)
      BY <2>2, <2>7 DEF Waiting
    <3>2. CASE p[1] = s
      <4>1. Top(t).comp = c
        <5>1. Top(t).comp \in R /\ \E l \in DOMAIN Route[Top(t).comp] : Target(t) = Route[Top(t).comp][l]
          BY <1>0, <2>1, <2>5, <3>2, NextReceiver
        <5> QED BY <1>b, <2>0, <2>7, <5>1
      <4>2. Turn(t, s, c, d)
        BY <2>0, <2>5, <2>7, <3>2, <4>1 DEF Turn
      <4>3. Passed(s, c, d)' = Passed(s, c, d) + 1 /\ Passed(s, c, d) + 1 = Begun(s, c)
        BY <1>c, <2>0, <2>3, <2>4, <2>5, <2>7, <3>2, <4>1, <4>2 DEF Passed
      <4>4. p[2] = Begun(s, c)
        <5>1. PICK n \in DOMAIN stack[t] : stack[t][n] = Top(t)
          BY <1>0, <2>1, OnTop DEF Busy
        <5> QED BY <1>0, <1>b, <2>0, <2>5, <3>2, <4>1, <5>1 DEF Flow, Numbers
      <4>5. Holding(Append(queue[b], p), s, Begun(s, d), Passed(s, c, d) + 1)
        BY <1>c, <1>d, <3>1, <3>2, <4>3, <4>4, HoldsMore
      <4> QED BY <2>3, <3>1, <4>3, <4>5
    <3>3. CASE p[1] # s
      <4>1. ~Turn(t, s, c, d)
        BY <2>5, <3>3 DEF Turn
      <4>2. Passed(s, c, d)' = Passed(s, c, d)
        BY <1>1, <2>3, <2>4, <4>1
      <4>3. Holding(Append(queue[b], p), s, Begun(s, d), Passed(s, c, d))
        BY <1>c, <1>d, <3>1, <3>3, HoldsMore
      <4> QED BY <2>3, <3>1, <4>2, <4>3
    <3> QED BY <3>2, <3>3
  <2> QED BY <2>6, <2>7
<1>8. ASSUME NEW t \in Threads, Gives(t)
      PROVE  Holding(Waiting(d)', s, Begun(s, d)', Passed(s, c, d)')
  <2>0. PICK b \in Comps, p \in Packets : b = Target(t) /\ p = Top(t).pkt
    BY <1>8 DEF Gives
  <2>1. Calls(t) /\ Busy(t) /\ made' = made /\ UNCHANGED queue /\ got' = [got EXCEPT ![b] = Append(got[b], p)]
    BY <1>8, <2>0 DEF Gives, Calls
  <2>2. p[1] = s <=> IsOf(Top(t), s)
    BY <2>0 DEF IsOf, Visit, Packets
  <2>3. p[1] = s => /\ Top(t).comp \in R /\ b # s /\ b # Top(t).comp
                    /\ Begun(s, Top(t).comp) = Begun(s, b) + 1 /\ Clear(b, s)
    BY <1>0, <1>8, <2>0, <2>2, GivenIsDue
  <2>4. \A e \in Comps : Begun(s, e)' = IF e = b /\ p[1] = s THEN Begun(s, e) + 1 ELSE Begun(s, e)
    BY <1>0, <2>1, <2>3, BegunAfter
  <2>5. /\ p[1] = s => ~Pending(s, b, d)
        /\ Pending(s, c, d)' <=> (Pending(s, c, d) /\ ~Turn(t, s, c, d)) \/ Started(Target(t), Top(t).pkt, s, c, d)
        /\ p[1] = s => Pending(s, Top(t).comp, Target(t))
    BY <1>0, <2>0, <2>1, <2>2, PendingAfter
  <2>6. Started(Target(t), Top(t).pkt, s, c, d) <=> p[1] = s /\ b = c
    BY <1>a, <2>0 DEF Started, Visit, Packets
  <2>7. CASE p[1] # s
    BY <1>1, <1>3, <1>4, <1>b, <2>1, <2>2, <2>4, <2>5, <2>6, <2>7 DEF Turn
  <2>8. CASE p[1] = s /\ b = d
    <3>1. Top(t).comp = c
      <4>1. Top(t).comp \in R /\ \E l \in DOMAIN Route[Top(t).comp] : Target(t) = Route[Top(t).comp][l]
        BY <1>0, <2>1, <2>2, <2>8, NextReceiver
      <4> QED BY <1>b, <2>0, <2>8, <4>1
    <3>2. Turn(t, s, c, d) /\ Pending(s, c, d) /\ ~Pending(s, c, d)'
      BY <1>c, <2>0, <2>2, <2>5, <2>6, <2>8, <3>1 DEF Turn
    <3>3. Begun(s, c)' = Begun(s, c) /\ Begun(s, d)' = Begun(s, d) + 1 /\ Begun(s, c) = Begun(s, d) + 1
      BY <1>b, <1>c, <2>3, <2>4, <2>8, <3>1
    <3>4. Passed(s, c, d)' = Begun(s, d)'
      BY <1>c, <3>2, <3>3 DEF Passed
    <3>5. Begun(s, d)' \in Nat /\ Waiting(d)' = Waiting(d) /\ \A i \in DOMAIN Waiting(d) : Waiting(d)[i][1] # s
      BY <1>4, <1>c, <2>1, <2>3, <2>8, <3>3 DEF Clear
    <3> QED BY <1>d, <3>4, <3>5, HoldsNone
  <2>9. CASE p[1] = s /\ b # d
    <3>1. ~Turn(t, s, c, d) /\ Begun(s, d)' = Begun(s, d)
      BY <2>0, <2>4, <2>9 DEF Turn
    <3>2. CASE b = c
      BY <1>2, <1>3, <1>4, <1>b, <2>1, <2>4, <2>5, <2>6, <2>9, <3>1, <3>2
    <3>3. CASE b # c
      BY <1>1, <1>3, <1>4, <1>b, <2>1, <2>4, <2>5, <2>6, <2>9, <3>1, <3>3
    <3> QED BY <3>2, <3>3
  <2> QED BY <2>7, <2>8, <2>9
<1>9. CASE Moves
  <2>1. Begun(s, d)' = Begun(s, d) /\ Begun(s, c)' = Begun(s, c) /\ Waiting(d)' = Waiting(d)
    BY <1>0, <1>4, <1>9, <1>b, BegunAfter DEF Moves
  <2>2. Pending(s, c, d)' <=> Pending(s, c, d)
    <3>1. CASE stack' = stack
      BY <3>1 DEF Pending, Serves, IsOf
    <3>2. ASSUME NEW t \in Threads, NEW b \in Comps, Enters(t, b, Visit)
          PROVE  Pending(s, c, d)' <=> Pending(s, c, d)
      <4>1. ~Started(b, Visit, s, c, d)
        BY DEF Started
      <4> QED BY <1>0, <3>2, <4>1, PendingAfter
    <3>3. ASSUME NEW t \in Threads, Calls(t), Top(t).pkt = Visit
          PROVE  Pending(s, c, d)' <=> Pending(s, c, d)
      <4>1. ~Started(Target(t), Top(t).pkt, s, c, d) /\ ~Turn(t, s, c, d)
        BY <3>3 DEF Started, Turn, IsOf
      <4> QED BY <1>0, <3>3, <4>1, PendingAfter
    <3>4. ASSUME NEW t \in Threads, Commits(t) \/ (Leaves(t) /\ Top(t).todo = <<>>)
          PROVE  Pending(s, c, d)' <=> Pending(s, c, d)
      BY <1>0, <3>4, PendingAfter
    <3> QED BY <1>9, <3>1, <3>2, <3>3, <3>4 DEF Moves
  <2> QED BY <1>1, <1>3, <2>1, <2>2
<1> QED BY <1>5, <1>6, <1>7, <1>8, <1>9, Steps
(* What is received is numbered as it is received.                          *)
LEMMA NumberedKept ==
  ASSUME NEW s \in Sources, NEW R \in SUBSET Comps, NEW depth \in [Comps -> Nat], Tree(s, R, depth),
         Typed, Opened, Whole(s, R, depth), Next
  PROVE  Numbered(s)'
<1>0. /\ Stacks /\ Traffic /\ Chains(s, R, depth) /\ Below(s, R) /\ Flow(s, R) /\ Sendings(s, R)
      /\ Threaded \subseteq Comps /\ got \in [Comps -> Seq(Packets)]
  BY FlowAssumption DEF Typed, Whole, Flow, Traffic
<1>a. \A c \in Comps : \A i \in DOMAIN got[c] : got[c][i][1] = s => got[c][i][2] = Cardinality(Of(got[c], i, s))
  BY DEF Whole, Numbered
<1>1. CASE UNCHANGED got
  BY <1>a, <1>1 DEF Numbered, Of
<1>2. ASSUME NEW c \in Comps, NEW p \in Packets, got' = [got EXCEPT ![c] = Append(got[c], p)],
             p[1] = s => c # s /\ p[2] = Begun(s, c) + 1
      PROVE  Numbered(s)'
  <2>1. got'[c] = Append(got[c], p) /\ \A d \in Comps : d # c => got'[d] = got[d]
    BY <1>0, <1>2
  <2>2. PICK n \in Nat : n = Len(got[c]) + 1
    BY <1>0, OneMore
  <2>3. /\ DOMAIN got[c] = 1..Len(got[c]) /\ DOMAIN got'[c] = 1..n /\ Len(got[c]) \in Nat
        /\ \A i \in DOMAIN got[c] : got'[c][i] = got[c][i] /\ Of(got'[c], i, s) = Of(got[c], i, s)
        /\ got'[c][n] = p
        /\ Cardinality(Of(got'[c], n, s)) = Cardinality(Of(got[c], Len(got[c]), s)) + (IF p[1] = s THEN 1 ELSE 0)
    BY <1>0, <2>1, <2>2, OneMore
  <2>4. p[1] = s => p[2] = Cardinality(Of(got'[c], n, s))
    BY <1>2, <2>3 DEF Begun
  <2>5. \A i \in DOMAIN got'[c] : i = n \/ i \in DOMAIN got[c]
    BY <2>2, <2>3
  <2>6. \A i \in DOMAIN got'[c] : got'[c][i][1] = s => got'[c][i][2] = Cardinality(Of(got'[c], i, s))
    BY <1>a, <2>3, <2>4, <2>5
  <2>7. \A d \in Comps : \A i \in DOMAIN got'[d] : got'[d][i][1] = s => got'[d][i][2] = Cardinality(Of(got'[d], i, s))
    BY <1>a, <2>1, <2>6
  <2> QED BY <2>7 DEF Numbered, Of
<1>3. ASSUME NEW c \in Threaded, Takes(c)
      PROVE  Numbered(s)'
  <2>1. PICK p \in Packets : p = Head(queue[c])
    BY <1>3 DEF Takes
  <2>2. p[1] = s => c # s /\ p[2] = Begun(s, c) + 1
    BY <1>0, <1>3, <2>1, TakenIsDue
  <2>3. got' = [got EXCEPT ![c] = Append(got[c], p)] /\ c \in Comps
    BY <1>0, <1>3, <2>1 DEF Takes
  <2> QED BY <1>2, <2>2, <2>3
<1>4. ASSUME NEW t \in Threads, Gives(t)
      PROVE  Numbered(s)'
  <2>1. PICK c \in Comps, p \in Packets : c = Target(t) /\ p = Top(t).pkt
    BY <1>4 DEF Gives
  <2>2. p[1] = s => IsOf(Top(t), s)
    BY <2>1 DEF IsOf, Visit, Packets
  <2>3. p[1] = s => c # s /\ p[2] = Begun(s, c) + 1
    BY <1>0, <1>4, <2>1, <2>2, GivenIsDue
  <2>4. got' = [got EXCEPT ![c] = Append(got[c], p)]
    BY <1>4, <2>1 DEF Gives
  <2> QED BY <1>2, <2>3, <2>4
<1>5. ASSUME ~UNCHANGED got
      PROVE  (\E c \in Threaded : Takes(c)) \/ (\E t \in Threads : Gives(t))
  BY <1>5, Steps DEF Makes, Puts, Moves
<1> QED BY <1>1, <1>3, <1>4, <1>5

(* At the start nothing of the source is anywhere.                          *)
LEMMA WholeAtStart ==
  ASSUME NEW s \in Sources, NEW R \in SUBSET Comps, NEW depth \in [Comps -> Nat], Tree(s, R, depth), Init
  PROVE  Whole(s, R, depth)
<1>0. /\ \A t \in Threads : stack[t] = <<>>
      /\ \A c \in Comps : got[c] = <<>> /\ Waiting(c) = <<>>
      /\ made[s] = 0
  BY DEF Init, Waiting
<1>1. Chains(s, R, depth) /\ Below(s, R) /\ Numbered(s) /\ Numbers(s) /\ Committed(s)
  BY <1>0 DEF Chains, Chain, Below, Numbered, Numbers, Committed
<1>2. \A c \in Comps : Begun(s, c) = 0
  <2>1. ASSUME NEW c \in Comps
        PROVE  Begun(s, c) = 0
    <3>1. Of(got[c], Len(got[c]), s) = {}
      BY <1>0 DEF Of
    <3> QED BY <1>0, <3>1, FS_EmptySet DEF Begun
  <2> QED BY <2>1
<1>3. ASSUME NEW c \in R, NEW k \in DOMAIN Route[c]
      PROVE  Holding(Waiting(Route[c][k]), s, Begun(s, Route[c][k]), Passed(s, c, Route[c][k]))
  <2>1. Route[c][k] \in Comps /\ c \in Comps
    BY <1>3, Receivers
  <2>2. ~Pending(s, c, Route[c][k])
    BY <1>0 DEF Pending, Serves
  <2>3. Passed(s, c, Route[c][k]) = 0 /\ Begun(s, Route[c][k]) = 0 /\ Waiting(Route[c][k]) = <<>>
    BY <1>0, <1>2, <2>1, <2>2 DEF Passed
  <2>4. Holding(<<>>, s, 0, 0)
    BY DEF Holding
  <2> QED BY <2>3, <2>4
<1> QED BY <1>1, <1>3 DEF Whole, Flow, Sendings

(* Every step keeps it all.                                                 *)
LEMMA WholeKept ==
  ASSUME NEW s \in Sources, NEW R \in SUBSET Comps, NEW depth \in [Comps -> Nat], Tree(s, R, depth)
  PROVE  Typed /\ Opened /\ Whole(s, R, depth) /\ [Next]_vars => Whole(s, R, depth)'
<1> SUFFICES ASSUME Typed, Opened, Whole(s, R, depth), [Next]_vars PROVE Whole(s, R, depth)'
  OBVIOUS
<1>1. CASE Next
  <2>1. Chains(s, R, depth)' /\ Below(s, R)'
    BY <1>1, ChainsKept, BelowKept DEF Whole
  <2>2. Flow(s, R)'
    BY <1>1, NumbersKept, CommittedKept, SendingsKept DEF Flow
  <2> QED BY <1>1, <2>1, <2>2, NumberedKept DEF Whole
<1>2. CASE UNCHANGED vars
  <2>1. UNCHANGED <<queue, got, made, stack>>
    BY <1>2 DEF vars
  <2>2. Chains(s, R, depth)' /\ Below(s, R)'
    BY <2>1 DEF Whole, Chains, Chain, IsOf, Below, Waiting
  <2>3. Numbers(s)'
    BY <2>1 DEF Whole, Flow, Numbers, IsOf, Begun, Of
  <2>4. Committed(s)'
    BY <2>1 DEF Whole, Flow, Committed, IsOf, Clear, Waiting
  <2>5. Sendings(s, R)'
    <3>1. Sendings(s, R)
      BY DEF Whole, Flow
    <3>2. ASSUME NEW c \in R, NEW k \in DOMAIN Route[c]
          PROVE  /\ Waiting(Route[c][k])' = Waiting(Route[c][k]) /\ Begun(s, Route[c][k])' = Begun(s, Route[c][k])
                 /\ Passed(s, c, Route[c][k])' = Passed(s, c, Route[c][k])
      BY <2>1 DEF Waiting, Begun, Of, Passed, Pending, Serves, IsOf
    <3> QED BY <3>1, <3>2, SMTT(30) DEF Sendings, Holding
  <2>6. Numbered(s)'
    BY <2>1 DEF Whole, Numbered, Of
  <2> QED BY <2>2, <2>3, <2>4, <2>5, <2>6 DEF Whole, Flow
<1> QED BY <1>1, <1>2

(* The graphs in which one path leads from a source to every component that *)
(* it reaches; the components may share threads, and in any order begin.    *)
OnePath == \A s \in Sources : \E R \in SUBSET Comps : \E depth \in [Comps -> Nat] : Tree(s, R, depth)

(* Along one path, through queues, direct calls and calls that waited for   *)
(* the receiver to be initialised, a component receives the packets of a    *)
(* source in the order the source made them, none missing and none twice,   *)
(* whatever other packets cross them: MediaProcessor's queues, its locks    *)
(* and route() keep the order together.                                     *)
THEOREM OrderAlongPaths == ASSUME OnePath PROVE Spec => []InSourceOrder
<1>1. ASSUME NEW s \in Sources
      PROVE  Spec => []Numbered(s)
  <2>1. PICK R \in SUBSET Comps, depth \in [Comps -> Nat] : Tree(s, R, depth)
    BY DEF OnePath
  <2>2. Init => Typed /\ Opened /\ Whole(s, R, depth)
    BY <2>1, TypedAtStart, WholeAtStart
  <2>3. Typed /\ Opened /\ Whole(s, R, depth) /\ [Next]_vars => (Typed /\ Opened /\ Whole(s, R, depth))'
    BY <2>1, TypedKept, OpenedKept, WholeKept
  <2>4. Whole(s, R, depth) => Numbered(s)
    BY DEF Whole
  <2> QED BY <2>2, <2>3, <2>4, PTL DEF Spec
<1>2. Spec => []Typed
  BY TypedAtStart, TypedKept, PTL DEF Spec
<1>3. Spec => [](\A s \in Sources : Numbered(s))
  BY <1>1
<1>4. Typed /\ (\A s \in Sources : Numbered(s)) => InSourceOrder
  <2> SUFFICES ASSUME Typed, \A s \in Sources : Numbered(s), NEW c \in Comps, NEW i \in DOMAIN got[c]
               PROVE  got[c][i][2] = Cardinality({k \in 1..i : got[c][k][1] = got[c][i][1]})
    BY DEF InSourceOrder
  <2>1. got[c][i] \in Packets
    BY ElementOfSeq, LenProperties DEF Typed, Traffic
  <2>2. PICK s \in Sources : s = got[c][i][1]
    BY <2>1 DEF Packets
  <2>3. got[c][i][2] = Cardinality(Of(got[c], i, s))
    BY <2>2 DEF Numbered
  <2> QED BY <2>2, <2>3 DEF Of
<1> QED BY <1>2, <1>3, <1>4, PTL
-----------------------------------------------------------------------------
(* No handler receives a packet before its component is initialised: a      *)
(* caller that finds no thread spins on bReceive, and a thread waits for it.*)
THEOREM NoneBeforeInit == Spec => []NotBeforeInit
<1>1. Typed /\ NotBeforeInit /\ [Next]_vars => NotBeforeInit'
  <2> SUFFICES ASSUME Typed, NotBeforeInit, [Next]_vars PROVE NotBeforeInit'
    OBVIOUS
  <2>0. receive \in [Comps -> BOOLEAN] /\ got \in [Comps -> Seq(Packets)] /\ Threaded \subseteq Comps
    BY FlowAssumption DEF Typed, Startup, Traffic
  <2>1. \A c \in Comps : receive[c] => receive'[c]
    <3>1. receive' = receive \/ receive' = [receive EXCEPT ![Newcomer] = TRUE]
      BY DEF Next, InitComp, StartThread, OpenComp, Produce, Take, Enqueue, Spin, Call, Return, Done, vars
    <3> QED BY <2>0, <3>1
  <2>2. \A c \in Comps : got'[c] = got[c] \/ receive[c]
    <3>1. CASE UNCHANGED got
      BY <3>1
    <3>2. ASSUME NEW c \in Threaded, Take(c)
          PROVE  \A d \in Comps : got'[d] = got[d] \/ receive[d]
      <4>1. receive[c] /\ got' = [got EXCEPT ![c] = Append(@, Head(queue[c]))]
        BY <3>2 DEF Take
      <4> QED BY <2>0, <4>1
    <3>3. ASSUME NEW t \in Threads, Call(t), ~UNCHANGED got
          PROVE  \A d \in Comps : got'[d] = got[d] \/ receive[d]
      <4>1. receive[Target(t)] /\ got' = [got EXCEPT ![Target(t)] = Append(@, Top(t).pkt)]
        BY <3>3 DEF Call
      <4> QED BY <2>0, <4>1
    <3>4. UNCHANGED got \/ (\E c \in Threaded : Take(c)) \/ (\E t \in Threads : Call(t))
      BY DEF Next, InitComp, StartThread, OpenComp, Produce, Enqueue, Spin, Return, Done, vars
    <3> QED BY <3>1, <3>2, <3>3, <3>4
  <2> QED BY <2>1, <2>2 DEF NotBeforeInit
<1>2. Init => Typed /\ NotBeforeInit
  BY TypedAtStart DEF Init, NotBeforeInit
<1> QED BY <1>1, <1>2, TypedKept, PTL DEF Spec
=============================================================================

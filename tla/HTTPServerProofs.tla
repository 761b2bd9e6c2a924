-------------------------- MODULE HTTPServerProofs --------------------------
(***************************************************************************)
(* Proofs about HTTPServer, for any number of sessions, any requests and   *)
(* any number of faults. The inductive invariant Inv says of every session *)
(* what its streamer may be while the control thread is where it is        *)
(* (Serving), and what has been sent to its client (Sending).              *)
(***************************************************************************)
EXTENDS HTTPServer, FiniteSetTheorems, TLAPS

(* The sessions are those that have arrived and were not deleted. A session *)
(* that has not arrived is untouched.                                       *)
Present(s) ==
  /\ control[s] \notin {"none", "failed", "gone"} => s \in table
  /\ s > arrived => control[s] = "none" /\ nested[s] = NoStreamer /\ out[s] = <<>>

(* The streamer of a session: while the control thread makes one it is in   *)
(* its hands alone; before that, and after, it plays or is none.            *)
Serving(s) ==
  /\ control[s] \in {"init", "build", "reply", "play"} =>
       /\ nested[s].of = handled[s] /\ nested[s].pos = 0
       /\ ~nested[s].playing /\ ~nested[s].stopped
  /\ control[s] \in {"none", "receive", "list", "create"} => nested[s] = NoStreamer \/ nested[s].playing
  /\ control[s] \in {"list", "create"} => nested[s].of < handled[s]
  /\ control[s] \in {"build", "reply", "play"} => pStreamer[s] = handled[s]
  /\ nested[s].playing /\ ~nested[s].stopped => pStreamer[s] = nested[s].of
  /\ nested[s].stopped => nested[s].playing /\ nested[s].pos = FileLength
  /\ nested[s].of = 0 => ~nested[s].playing

(* The requests that were answered in full. *)
Full(s) == {k \in DOMAIN asked[s] : Complete(s, k)}

(* What has been sent of a request is of one that was read and that can be  *)
(* answered; of the one in hand nothing was sent yet.                       *)
Sent(s) ==
  \A i \in DOMAIN out[s] :
    LET p == out[s][i] IN
    /\ p[1] \in 1..handled[s]
    /\ control[s] \in {"create", "init", "build", "reply", "list"} => p[1] # handled[s]
    /\ asked[s][p[1]] # "list" =>
         /\ nested[s].of # 0 => p[1] <= nested[s].of
         /\ p[1] = nested[s].of => p[2] <= nested[s].pos
         /\ s \in table /\ p[1] # nested[s].of => p[1] \in Full(s)

(* The kind of the request in hand, and what was sent of the streamer's.    *)
Sending(s) ==
  /\ control[s] \notin {"none", "receive", "failed", "gone"} => handled[s] \in 1..Len(asked[s])
  /\ control[s] = "list" => Kind(s) = "list"
  /\ control[s] \in {"create", "init", "build", "reply", "play"} => Kind(s) # "list"
  /\ control[s] \in {"reply", "play"} => Kind(s) # "missing"
  /\ control[s] = "play" => <<handled[s], 0>> \in ToSet(out[s])
  /\ nested[s].playing =>
       /\ nested[s].of \in 1..handled[s] /\ asked[s][nested[s].of] \in {"file", "stream"}
       /\ \A n \in 0..nested[s].pos : <<nested[s].of, n>> \in ToSet(out[s])
  /\ patient[s] => \A k \in 1..Len(asked[s]) - 1 : k \in Full(s)

SessionInv(s) == Present(s) /\ Serving(s) /\ Sent(s) /\ Sending(s)
Inv == TypeOK /\ RepliesInOrder /\ \A s \in Sessions : SessionInv(s)

-----------------------------------------------------------------------------
(* The sessions are positive numbers. *)
LEMMA SessionNumbers ==
  /\ Sessions \subseteq Nat \ {0} /\ FileLength \in Nat
  /\ \A s \in Sessions : Asks[s] \subseteq Kinds
<1>1. Cardinality(Sessions) \in Nat
  BY HTTPServerAssumption, FS_CardinalityType
<1> QED
  BY <1>1, HTTPServerAssumption

(* What appending an element does to a sequence. *)
LEMMA AppendLast ==
  ASSUME NEW S, NEW q \in Seq(S), NEW e \in S
  PROVE  /\ Append(q, e) \in Seq(S)
         /\ DOMAIN Append(q, e) = DOMAIN q \cup {Len(q) + 1}
         /\ DOMAIN q = 1..Len(q) /\ Len(q) \in Nat
         /\ \A i \in DOMAIN q : Append(q, e)[i] = q[i] /\ q[i] \in S
         /\ Append(q, e)[Len(q) + 1] = e
         /\ Len(Append(q, e)) = Len(q) + 1
  OBVIOUS

(* A streamer of which one field changes. *)
LEMMA StreamerFields ==
  ASSUME NEW r \in Streamer, NEW k \in Nat, NEW n \in 0..FileLength
  PROVE  /\ [r EXCEPT !.of = k] \in Streamer /\ [r EXCEPT !.pos = n] \in Streamer
         /\ [r EXCEPT !.playing = TRUE] \in Streamer /\ [r EXCEPT !.stopped = TRUE] \in Streamer
         /\ LET c == [r EXCEPT !.of = k]
            IN  c.of = k /\ c.pos = r.pos /\ c.playing = r.playing /\ c.stopped = r.stopped
         /\ LET c == [r EXCEPT !.pos = n]
            IN  c.of = r.of /\ c.pos = n /\ c.playing = r.playing /\ c.stopped = r.stopped
         /\ LET c == [r EXCEPT !.playing = TRUE]
            IN  c.of = r.of /\ c.pos = r.pos /\ c.playing /\ c.stopped = r.stopped
         /\ LET c == [r EXCEPT !.stopped = TRUE]
            IN  c.of = r.of /\ c.pos = r.pos /\ c.playing = r.playing /\ c.stopped
  BY DEF Streamer

(* No streamer is one of the values, numbered 0. *)
LEMMA NoStreamerType ==
  /\ NoStreamer \in Streamer
  /\ NoStreamer.of = 0 /\ NoStreamer.pos = 0 /\ ~NoStreamer.playing /\ ~NoStreamer.stopped
  BY SessionNumbers DEF NoStreamer, Streamer

(* What becomes of the streamers when that of one session changes. *)
LEMMA StreamerUpdate ==
  ASSUME NEW f \in [Sessions -> Streamer], NEW s \in Sessions, NEW k \in Nat
  PROVE  /\ f[s] \in Streamer /\ f[s].of \in Nat
         /\ [f EXCEPT ![s].playing = TRUE] \in [Sessions -> Streamer]
         /\ [f EXCEPT ![s].stopped = TRUE] \in [Sessions -> Streamer]
         /\ f[s].pos < FileLength => [f EXCEPT ![s].pos = @ + 1] \in [Sessions -> Streamer]
         /\ [f EXCEPT ![s] = NoStreamer] \in [Sessions -> Streamer]
         /\ [f EXCEPT ![s] = [NoStreamer EXCEPT !.of = k]] \in [Sessions -> Streamer]
<1>1. f[s] \in Streamer
  OBVIOUS
<1>2. f[s].of \in Nat /\ f[s].pos \in 0..FileLength /\ 0 \in 0..FileLength
  BY <1>1, SessionNumbers DEF Streamer
<1>3. f[s].pos < FileLength => f[s].pos + 1 \in 0..FileLength
  BY <1>2, SessionNumbers
<1> QED
  BY <1>1, <1>2, <1>3, StreamerFields, NoStreamerType

(* The variables keep their types. *)
LEMMA NextType == TypeOK /\ [Next]_vars => TypeOK'
<1> SUFFICES ASSUME TypeOK, [Next]_vars PROVE TypeOK'
  OBVIOUS
<1> USE SessionNumbers DEF clients, server, flags, threads, Goto, Leave, Sends, Fail, Culprit, Destroy
<1>1. ASSUME NEW s \in Sessions, NEW kind \in Asks[s], Ask(s, kind) PROVE TypeOK'
  <2> USE <1>1 DEF Ask
  <2>1. asked' \in [Sessions -> Seq(Kinds)]
    BY DEF TypeOK
  <2>2. hasty' \in [Sessions -> BOOLEAN]
    BY Zenon DEF TypeOK
  <2>3. \A t \in Sessions : handled[t] <= Len(asked'[t])
    BY DEF TypeOK
  <2> QED BY <2>1, <2>2, <2>3 DEF TypeOK
<1>3. ASSUME NEW s \in Sessions, Receive(s) PROVE TypeOK'
  <2> USE <1>3 DEF Receive
  <2>1. handled' \in [Sessions -> Nat]
    BY DEF TypeOK
  <2>2. control' \in [Sessions -> {"none", "receive", "list", "create", "init", "build", "reply", "play", "failed", "gone"}]
    BY Zenon DEF TypeOK
  <2>3. \A t \in Sessions :
       handled'[t] <= Len(asked'[t]) /\ pStreamer'[t] <= handled'[t] /\ nested'[t].of <= handled'[t]
    BY DEF TypeOK, Streamer
  <2> QED BY <2>1, <2>2, <2>3 DEF TypeOK
<1>4. ASSUME NEW s \in Sessions, Break(s) PROVE TypeOK'
  BY <1>4 DEF TypeOK, Break
<1>5. ASSUME NEW s \in Sessions, Stall(s) PROVE TypeOK'
  BY <1>5 DEF TypeOK, Stall
<1>6. ASSUME NEW s \in Sessions, ReceiveFails(s) PROVE TypeOK'
  BY <1>6 DEF TypeOK, ReceiveFails
<1>7. ASSUME NEW s \in Sessions, SendList(s) PROVE TypeOK'
  <2> USE <1>7 DEF SendList
  <2>1. <<handled[s], 0>> \in Nat \X (0..FileLength)
    BY DEF TypeOK
  <2>2. out' \in [Sessions -> Seq(Nat \X (0..FileLength))]
    BY <2>1 DEF TypeOK
  <2>3. control' \in [Sessions -> {"none", "receive", "list", "create", "init", "build", "reply", "play", "failed", "gone"}]
    BY DEF TypeOK
  <2> QED
    BY <2>1, <2>2, <2>3 DEF TypeOK
<1>8. ASSUME NEW s \in Sessions, Create(s) PROVE TypeOK'
  <2> USE <1>8 DEF Create
  <2>1. nested' \in [Sessions -> Streamer]
    BY StreamerUpdate DEF TypeOK
  <2>2. [NoStreamer EXCEPT !.of = handled[s]].of = handled[s]
    BY StreamerFields, NoStreamerType DEF TypeOK
  <2>3. \A t \in Sessions :
         handled'[t] <= Len(asked'[t]) /\ pStreamer'[t] <= handled'[t] /\ nested'[t].of <= handled'[t]
    BY <2>2 DEF TypeOK
  <2>4. control' \in [Sessions -> {"none", "receive", "list", "create", "init", "build", "reply", "play", "failed", "gone"}]
    BY DEF TypeOK
  <2> QED
    BY <2>1, <2>2, <2>3, <2>4 DEF TypeOK
<1>9. ASSUME NEW s \in Sessions, CreateFails(s) PROVE TypeOK'
  BY <1>9 DEF TypeOK, CreateFails
<1>10. ASSUME NEW s \in Sessions, InitStreamer(s) PROVE TypeOK'
  <2> USE <1>10 DEF InitStreamer
  <2>1. pStreamer' \in [Sessions -> Nat] /\ \A t \in Sessions : handled[t] \in Nat
    BY DEF TypeOK
  <2>2. \A t \in Sessions : pStreamer'[t] <= handled[t]
    BY <2>1 DEF TypeOK
  <2>3. \A t \in Sessions :
         handled'[t] <= Len(asked'[t]) /\ pStreamer'[t] <= handled'[t] /\ nested'[t].of <= handled'[t]
    BY <2>2 DEF TypeOK
  <2>4. control' \in [Sessions -> {"none", "receive", "list", "create", "init", "build", "reply", "play", "failed", "gone"}]
    BY DEF TypeOK
  <2> QED
    BY <2>1, <2>2, <2>3, <2>4 DEF TypeOK
<1>11. ASSUME NEW s \in Sessions, Build(s) PROVE TypeOK'
  BY <1>11 DEF TypeOK, Build
<1>12. ASSUME NEW s \in Sessions, BuildFails(s) PROVE TypeOK'
  BY <1>12 DEF TypeOK, BuildFails
<1>13. ASSUME NEW s \in Sessions, Reply(s) PROVE TypeOK'
  <2> USE <1>13 DEF Reply
  <2>1. <<handled[s], 0>> \in Nat \X (0..FileLength)
    BY DEF TypeOK
  <2>2. out' \in [Sessions -> Seq(Nat \X (0..FileLength))]
    BY <2>1 DEF TypeOK
  <2>3. control' \in [Sessions -> {"none", "receive", "list", "create", "init", "build", "reply", "play", "failed", "gone"}]
    BY DEF TypeOK
  <2>4. bClose' \in [Sessions -> BOOLEAN]
    BY Zenon DEF TypeOK
  <2> QED
    BY <2>1, <2>2, <2>3, <2>4 DEF TypeOK
<1>14. ASSUME NEW s \in Sessions, SendFails(s) PROVE TypeOK'
  BY <1>14 DEF TypeOK, SendFails
<1>15. ASSUME NEW s \in Sessions, Play(s) PROVE TypeOK'
  <2> USE <1>15 DEF Play
  <2>1. nested' \in [Sessions -> Streamer]
    BY StreamerUpdate DEF TypeOK
  <2>2. \A t \in Sessions : nested'[t].of = nested[t].of
    BY StreamerFields DEF TypeOK
  <2>3. \A t \in Sessions :
         handled'[t] <= Len(asked'[t]) /\ pStreamer'[t] <= handled'[t] /\ nested'[t].of <= handled'[t]
    BY <2>2 DEF TypeOK
  <2>4. control' \in [Sessions -> {"none", "receive", "list", "create", "init", "build", "reply", "play", "failed", "gone"}]
    BY DEF TypeOK
  <2>5. bSchedule' \in [Sessions -> BOOLEAN]
    BY DEF TypeOK
  <2> QED
    BY <2>1, <2>2, <2>3, <2>4, <2>5 DEF TypeOK
<1>16. ASSUME NEW s \in Sessions, Interrupt(s) PROVE TypeOK'
  BY <1>16 DEF TypeOK, Interrupt
<1>17. ASSUME NEW s \in Sessions, Skip(s) PROVE TypeOK'
  BY <1>17 DEF TypeOK, Skip
<1>18. ASSUME NEW s \in Sessions, Cancel(s) PROVE TypeOK'
  BY <1>18 DEF TypeOK, Cancel
<1>19. ASSUME NEW s \in Sessions, Delete(s) PROVE TypeOK'
  <2> USE <1>19 DEF Delete
  <2>1. nested' \in [Sessions -> Streamer]
    BY StreamerUpdate DEF TypeOK
  <2>2. \A t \in Sessions :
         handled'[t] <= Len(asked'[t]) /\ pStreamer'[t] <= handled'[t] /\ nested'[t].of <= handled'[t]
    BY NoStreamerType DEF TypeOK
  <2> QED
    BY <2>1, <2>2 DEF TypeOK
<1>20. ASSUME NEW s \in Sessions, Enter(s) PROVE TypeOK'
  BY <1>20 DEF TypeOK, Enter
<1>21. ASSUME NEW s \in Sessions, Pause(s) PROVE TypeOK'
  BY <1>21 DEF TypeOK, Pause
<1>22. ASSUME NEW s \in Sessions, RemoveStreamer(s) PROVE TypeOK'
  <2> USE <1>22 DEF RemoveStreamer
  <2>1. nested' \in [Sessions -> Streamer]
    BY StreamerUpdate DEF TypeOK
  <2>2. \A t \in Sessions :
         handled'[t] <= Len(asked'[t]) /\ pStreamer'[t] <= handled'[t] /\ nested'[t].of <= handled'[t]
    BY NoStreamerType DEF TypeOK
  <2> QED
    BY <2>1, <2>2 DEF TypeOK
<1>23. ASSUME NEW s \in Sessions, Stream(s) PROVE TypeOK'
  <2> USE <1>23 DEF Stream
  <2>1. nested[s].pos + 1 \in 0..FileLength /\ nested[s] \in Streamer /\ nested[s].of \in Nat
    BY DEF TypeOK, Streamer
  <2>2. out' \in [Sessions -> Seq(Nat \X (0..FileLength))]
    BY <2>1 DEF TypeOK
  <2>3. nested' \in [Sessions -> Streamer]
    BY StreamerUpdate DEF TypeOK
  <2>4. \A t \in Sessions : nested'[t].of = nested[t].of
    BY <2>1, StreamerFields DEF TypeOK
  <2>5. \A t \in Sessions :
         handled'[t] <= Len(asked'[t]) /\ pStreamer'[t] <= handled'[t] /\ nested'[t].of <= handled'[t]
    BY <2>4 DEF TypeOK
  <2> QED
    BY <2>1, <2>2, <2>3, <2>4, <2>5 DEF TypeOK
<1>24. ASSUME NEW s \in Sessions, StreamFails(s) PROVE TypeOK'
  BY <1>24 DEF TypeOK, StreamFails
<1>25. ASSUME NEW s \in Sessions, StreamEnds(s) PROVE TypeOK'
  <2> USE <1>25 DEF StreamEnds
  <2>1. nested' \in [Sessions -> Streamer]
    BY StreamerUpdate DEF TypeOK
  <2>2. \A t \in Sessions : nested'[t].of = nested[t].of
    BY StreamerFields DEF TypeOK
  <2>3. \A t \in Sessions :
         handled'[t] <= Len(asked'[t]) /\ pStreamer'[t] <= handled'[t] /\ nested'[t].of <= handled'[t]
    BY <2>2 DEF TypeOK
  <2>4. bStop' \in [Sessions -> BOOLEAN]
    BY Zenon DEF TypeOK
  <2>5. pStreamer' \in [Sessions -> Nat]
    BY DEF TypeOK
  <2> QED
    BY <2>1, <2>2, <2>3, <2>4, <2>5 DEF TypeOK
<1>26. CASE Accept
  <2> USE <1>26 DEF Accept
  <2>1. arrived + 1 \in Sessions /\ arrived \in Nat
    BY DEF TypeOK
  <2>2. control' \in [Sessions -> {"none", "receive", "list", "create", "init", "build", "reply", "play", "failed", "gone"}]
    BY <2>1 DEF TypeOK
  <2>3. table' \subseteq 1..arrived' /\ todo' \subseteq table'
    BY <2>1 DEF TypeOK
  <2> QED
    BY <2>1, <2>2, <2>3 DEF TypeOK
<1>27. CASE BeginPass
  BY <1>27 DEF TypeOK, BeginPass
<1>28. CASE EndPass
  BY <1>28 DEF TypeOK, EndPass
<1>29. CASE Done
  BY <1>29 DEF TypeOK, Done, vars
<1>30. CASE UNCHANGED vars
  BY <1>30 DEF TypeOK, vars
<1> QED
  BY <1>1, <1>3, <1>4, <1>5, <1>6, <1>7, <1>8, <1>9, <1>10, <1>11, <1>12, <1>13, <1>14, <1>15,
     <1>16, <1>17, <1>18, <1>19, <1>20, <1>21, <1>22, <1>23, <1>24, <1>25, <1>26, <1>27, <1>28,
     <1>29, <1>30 DEF Next, Control, Pass

(* What the streamers are when one field of that of a session changes. *)
LEMMA NestedFields ==
  ASSUME TypeOK, NEW s \in Sessions, NEW t \in Sessions
  PROVE  /\ LET c == [nested EXCEPT ![s].playing = TRUE][t] IN
            /\ c.of = nested[t].of /\ c.pos = nested[t].pos /\ (c.stopped <=> nested[t].stopped)
            /\ c.playing <=> (s = t \/ nested[t].playing)
         /\ LET c == [nested EXCEPT ![s].stopped = TRUE][t] IN
            /\ c.of = nested[t].of /\ c.pos = nested[t].pos /\ (c.playing <=> nested[t].playing)
            /\ c.stopped <=> (s = t \/ nested[t].stopped)
         /\ nested[s].pos < FileLength =>
              LET c == [nested EXCEPT ![s].pos = @ + 1][t] IN
              /\ c.of = nested[t].of /\ (c.playing <=> nested[t].playing) /\ (c.stopped <=> nested[t].stopped)
              /\ c.pos = nested[t].pos + (IF s = t THEN 1 ELSE 0)
         /\ LET c == [NoStreamer EXCEPT !.of = handled[s]] IN
            /\ c.of = handled[s] /\ c.pos = 0 /\ ~c.playing /\ ~c.stopped
<1>1. nested[s] \in Streamer /\ nested[t] \in Streamer /\ handled[s] \in Nat
  BY DEF TypeOK
<1>2. nested[s].pos < FileLength => nested[s].pos + 1 \in 0..FileLength
  BY <1>1, SessionNumbers DEF Streamer
<1>3. 0 \in 0..FileLength
  BY SessionNumbers
<1>4. nested[t].pos \in Nat
  BY <1>1, SessionNumbers DEF Streamer
<1> USE DEF TypeOK
<1>5. [nested EXCEPT ![s].playing = TRUE][t] = IF s = t THEN [nested[s] EXCEPT !.playing = TRUE] ELSE nested[t]
  OBVIOUS
<1>6. [nested EXCEPT ![s].stopped = TRUE][t] = IF s = t THEN [nested[s] EXCEPT !.stopped = TRUE] ELSE nested[t]
  OBVIOUS
<1>7. [nested EXCEPT ![s].pos = @ + 1][t] = IF s = t THEN [nested[s] EXCEPT !.pos = nested[s].pos + 1] ELSE nested[t]
  OBVIOUS
<1> QED
  BY <1>1, <1>2, <1>3, <1>4, <1>5, <1>6, <1>7, StreamerFields, NoStreamerType

(* A request that the control thread has in hand is one that was asked. *)
LEMMA InHand ==
  ASSUME Inv, NEW s \in Sessions, control[s] \notin {"none", "receive", "failed", "gone"}
  PROVE  /\ handled[s] \in 1..Len(asked[s]) /\ handled[s] \in Nat \ {0} /\ handled[s] \in DOMAIN asked[s]
         /\ asked[s] \in Seq(Kinds) /\ out[s] \in Seq(Nat \X (0..FileLength)) /\ s \in table
<1>1. asked[s] \in Seq(Kinds) /\ out[s] \in Seq(Nat \X (0..FileLength)) /\ handled[s] \in Nat
  BY DEF Inv, TypeOK
<1>2. handled[s] \in 1..Len(asked[s]) /\ s \in table
  BY DEF Inv, SessionInv, Sending, Present
<1> QED
  BY <1>1, <1>2

(* No session is in use that is not in the table. *)
LEMMA NextPresent == Inv /\ TypeOK' /\ [Next]_vars => \A t \in Sessions : Present(t)'
<1> SUFFICES ASSUME Inv, TypeOK', [Next]_vars, NEW t \in Sessions PROVE Present(t)'
  OBVIOUS
<1>a. /\ table \subseteq 1..arrived /\ todo \subseteq table 
      /\ nested \in [Sessions -> Streamer] /\ out \in [Sessions -> Seq(Nat \X (0..FileLength))]
      /\ DOMAIN control = Sessions
  BY SessionNumbers DEF Inv, TypeOK
<1>d. arrived \in Nat
  BY SessionNumbers DEF Inv, TypeOK
<1>b. \A s \in Sessions : Present(s)
  BY DEF Inv, SessionInv
<1> USE <1>a, <1>b, <1>d, SessionNumbers DEF clients, server, flags, threads, Goto, Leave, Sends,
   Fail, Culprit, Destroy, Present, Locked
<1>1. ASSUME NEW s \in Sessions, NEW kind \in Asks[s], Ask(s, kind) PROVE Present(t)'
  BY <1>1 DEF Ask
<1>2. ASSUME NEW s \in Sessions, Break(s) PROVE Present(t)'
  BY <1>2 DEF Break
<1>3. ASSUME NEW s \in Sessions, Stall(s) PROVE Present(t)'
  BY <1>3 DEF Stall
<1>4. ASSUME NEW s \in Sessions, Receive(s) PROVE Present(t)'
  BY <1>4 DEF Receive
<1>5. ASSUME NEW s \in Sessions, ReceiveFails(s) PROVE Present(t)'
  BY <1>5 DEF ReceiveFails
<1>6. ASSUME NEW s \in Sessions, SendList(s) PROVE Present(t)'
  BY <1>6 DEF SendList
<1>7. ASSUME NEW s \in Sessions, Create(s) PROVE Present(t)'
  BY <1>7 DEF Create
<1>8. ASSUME NEW s \in Sessions, CreateFails(s) PROVE Present(t)'
  BY <1>8 DEF CreateFails
<1>9. ASSUME NEW s \in Sessions, InitStreamer(s) PROVE Present(t)'
  BY <1>9 DEF InitStreamer
<1>10. ASSUME NEW s \in Sessions, Build(s) PROVE Present(t)'
  BY <1>10 DEF Build
<1>11. ASSUME NEW s \in Sessions, BuildFails(s) PROVE Present(t)'
  BY <1>11 DEF BuildFails
<1>12. ASSUME NEW s \in Sessions, Reply(s) PROVE Present(t)'
  BY <1>12 DEF Reply
<1>13. ASSUME NEW s \in Sessions, SendFails(s) PROVE Present(t)'
  BY <1>13 DEF SendFails
<1>14. ASSUME NEW s \in Sessions, Play(s) PROVE Present(t)'
  BY <1>14 DEF Play
<1>15. ASSUME NEW s \in Sessions, Interrupt(s) PROVE Present(t)'
  BY <1>15 DEF Interrupt, Sleeps
<1>16. ASSUME NEW s \in Sessions, Skip(s) PROVE Present(t)'
  BY <1>16 DEF Skip, Visits, Locked, At
<1>17. ASSUME NEW s \in Sessions, Cancel(s) PROVE Present(t)'
  BY <1>17 DEF Cancel, Visits, Locked, At
<1>18. ASSUME NEW s \in Sessions, Delete(s) PROVE Present(t)'
  BY <1>18 DEF Delete, Visits, Locked, At
<1>19. ASSUME NEW s \in Sessions, Enter(s) PROVE Present(t)'
  BY <1>19 DEF Enter
<1>20. ASSUME NEW s \in Sessions, Pause(s) PROVE Present(t)'
  BY <1>20 DEF Pause, Visits, Locked, At
<1>21. ASSUME NEW s \in Sessions, RemoveStreamer(s) PROVE Present(t)'
  BY <1>21 DEF RemoveStreamer, Visits, Locked, At
<1>22. ASSUME NEW s \in Sessions, Stream(s) PROVE Present(t)'
  <2>1. s \in table /\ s <= arrived /\ arrived \in Nat
    BY <1>22 DEF Stream, Streams, Locked, At
  <2> QED
    BY <1>22, <2>1 DEF Stream
<1>23. ASSUME NEW s \in Sessions, StreamFails(s) PROVE Present(t)'
  BY <1>23 DEF StreamFails, Visits, Locked, At
<1>24. ASSUME NEW s \in Sessions, StreamEnds(s) PROVE Present(t)'
  <2>1. s \in table /\ s <= arrived /\ arrived \in Nat
    BY <1>24 DEF StreamEnds, Streams, Locked, At
  <2> QED
    BY <1>24, <2>1 DEF StreamEnds
<1>25. CASE Accept
  BY <1>25 DEF Accept
<1>26. CASE BeginPass
  BY <1>26 DEF BeginPass
<1>27. CASE EndPass
  BY <1>27 DEF EndPass
<1>28. CASE Done \/ UNCHANGED vars
  BY <1>28 DEF Done, vars
<1> QED
  BY <1>1, <1>2, <1>3, <1>4, <1>5, <1>6, <1>7, <1>8, <1>9, <1>10, <1>11, <1>12, <1>13, <1>14, <1>15,
     <1>16, <1>17, <1>18, <1>19, <1>20, <1>21, <1>22, <1>23, <1>24, <1>25, <1>26, <1>27, <1>28
     DEF Next, Control, Pass

(* The streamer goes with the control thread. *)
LEMMA NextServing == Inv /\ TypeOK' /\ [Next]_vars => \A t \in Sessions : Serving(t)'
<1> SUFFICES ASSUME Inv, TypeOK', [Next]_vars, NEW t \in Sessions PROVE Serving(t)'
  OBVIOUS
<1>a. /\ table \subseteq 1..arrived /\ todo \subseteq table 
      /\ nested \in [Sessions -> Streamer] /\ DOMAIN control = Sessions /\ DOMAIN pStreamer = Sessions
      /\ handled \in [Sessions -> Nat] /\ \A s \in Sessions : nested[s].of \in Nat /\ nested[s].of <= handled[s]
  BY SessionNumbers DEF Inv, TypeOK, Streamer
<1>d. arrived \in Nat
  BY SessionNumbers DEF Inv, TypeOK
<1>b. \A s \in Sessions : Present(s) /\ Serving(s)
  BY DEF Inv, SessionInv
<1>c. TypeOK
  BY DEF Inv
<1> USE <1>a, <1>b, <1>d, SessionNumbers, NoStreamerType DEF clients, server, flags, threads, Goto,
   Leave, Sends, Fail, Culprit, Destroy, Present, Serving, Streams, Locked, At
<1>1. ASSUME NEW s \in Sessions, NEW kind \in Asks[s], Ask(s, kind) PROVE Serving(t)'
  BY <1>1 DEF Ask
<1>2. ASSUME NEW s \in Sessions, Break(s) PROVE Serving(t)'
  BY <1>2 DEF Break
<1>3. ASSUME NEW s \in Sessions, Stall(s) PROVE Serving(t)'
  BY <1>3 DEF Stall
<1>4. ASSUME NEW s \in Sessions, Receive(s) PROVE Serving(t)'
  BY <1>4 DEF Receive
<1>5. ASSUME NEW s \in Sessions, ReceiveFails(s) PROVE Serving(t)'
  BY <1>5 DEF ReceiveFails
<1>6. ASSUME NEW s \in Sessions, SendList(s) PROVE Serving(t)'
  BY <1>6 DEF SendList
<1>7. ASSUME NEW s \in Sessions, Create(s) PROVE Serving(t)'
  BY <1>7, <1>c, NestedFields DEF Create
<1>8. ASSUME NEW s \in Sessions, CreateFails(s) PROVE Serving(t)'
  BY <1>8 DEF CreateFails
<1>9. ASSUME NEW s \in Sessions, InitStreamer(s) PROVE Serving(t)'
  BY <1>9 DEF InitStreamer
<1>10. ASSUME NEW s \in Sessions, Build(s) PROVE Serving(t)'
  BY <1>10 DEF Build
<1>11. ASSUME NEW s \in Sessions, BuildFails(s) PROVE Serving(t)'
  BY <1>11 DEF BuildFails
<1>12. ASSUME NEW s \in Sessions, Reply(s) PROVE Serving(t)'
  BY <1>12 DEF Reply
<1>13. ASSUME NEW s \in Sessions, SendFails(s) PROVE Serving(t)'
  BY <1>13 DEF SendFails
<1>14. ASSUME NEW s \in Sessions, Play(s) PROVE Serving(t)'
  <2>1. /\ nested'[t].of = nested[t].of /\ nested'[t].pos = nested[t].pos
        /\ nested'[t].stopped <=> nested[t].stopped
        /\ nested'[t].playing <=> (s = t \/ nested[t].playing)
    BY <1>14, <1>c, NestedFields DEF Play
  <2>0. control[t] = "play" => handled[t] # 0
    BY InHand
  <2>2. s = t => control[t] = "play" /\ control'[t] = "receive" /\ pStreamer'[t] = pStreamer[t] /\ handled[t] # 0
    BY <1>14, <2>0 DEF Play
  <2>3. s # t => nested'[t] = nested[t] /\ control'[t] = control[t] /\ pStreamer'[t] = pStreamer[t] /\ handled'[t] = handled[t]
    BY <1>14 DEF Play
  <2> QED
    BY <2>1, <2>2, <2>3
<1>15. ASSUME NEW s \in Sessions, Interrupt(s) PROVE Serving(t)'
  BY <1>15 DEF Interrupt
<1>16. ASSUME NEW s \in Sessions, Skip(s) PROVE Serving(t)'
  BY <1>16 DEF Skip
<1>17. ASSUME NEW s \in Sessions, Cancel(s) PROVE Serving(t)'
  BY <1>17 DEF Cancel
<1>18. ASSUME NEW s \in Sessions, Delete(s) PROVE Serving(t)'
  BY <1>18 DEF Delete
<1>19. ASSUME NEW s \in Sessions, Enter(s) PROVE Serving(t)'
  BY <1>19 DEF Enter
<1>20. ASSUME NEW s \in Sessions, Pause(s) PROVE Serving(t)'
  BY <1>20 DEF Pause
<1>21. ASSUME NEW s \in Sessions, RemoveStreamer(s) PROVE Serving(t)'
  BY <1>21 DEF RemoveStreamer
<1>22. ASSUME NEW s \in Sessions, Stream(s) PROVE Serving(t)'
  <2>1. nested[s] \in Streamer /\ nested[t] \in Streamer
    OBVIOUS
  <2>2. CASE s = t
    BY <1>22, <2>1, <2>2, <1>c, NestedFields DEF Stream, Streamer
  <2>3. CASE s # t
    BY <1>22, <2>3 DEF Stream
  <2> QED
    BY <2>2, <2>3
<1>23. ASSUME NEW s \in Sessions, StreamFails(s) PROVE Serving(t)'
  BY <1>23 DEF StreamFails
<1>24. ASSUME NEW s \in Sessions, StreamEnds(s) PROVE Serving(t)'
  BY <1>24, <1>c, NestedFields DEF StreamEnds
<1>25. CASE Accept
  BY <1>25 DEF Accept
<1>26. CASE BeginPass
  BY <1>26 DEF BeginPass
<1>27. CASE EndPass
  BY <1>27 DEF EndPass
<1>28. CASE Done \/ UNCHANGED vars
  BY <1>28 DEF Done, vars
<1> QED
  BY <1>1, <1>2, <1>3, <1>4, <1>5, <1>6, <1>7, <1>8, <1>9, <1>10, <1>11, <1>12, <1>13, <1>14, <1>15,
     <1>16, <1>17, <1>18, <1>19, <1>20, <1>21, <1>22, <1>23, <1>24, <1>25, <1>26, <1>27, <1>28
     DEF Next, Control, Pass


(* The elements of a sequence to which one is appended. *)
LEMMA AppendElements ==
  ASSUME NEW S, NEW q \in Seq(S), NEW e \in S
  PROVE  ToSet(Append(q, e)) = ToSet(q) \cup {e}
<1>1. \A x \in ToSet(Append(q, e)) : x \in ToSet(q) \cup {e}
  BY AppendLast DEF ToSet
<1>2. e \in ToSet(Append(q, e))
  BY AppendLast DEF ToSet
<1>3. \A x \in ToSet(q) : x \in ToSet(Append(q, e))
  BY AppendLast DEF ToSet
<1> QED
  BY <1>1, <1>2, <1>3

(* A step appends to what was asked and to what was sent, if it changes it. *)
LEMMA Appends ==
  ASSUME TypeOK, [Next]_vars, NEW t \in Sessions
  PROVE  /\ patient' = patient
         /\ asked'[t] = asked[t] \/ \E kind \in Kinds : asked'[t] = Append(asked[t], kind)
         /\ out'[t] = out[t] \/ \E p \in Nat \X (0..FileLength) : out'[t] = Append(out[t], p)
<1> USE SessionNumbers DEF TypeOK, clients, server, flags, threads, Goto, Leave, Fail, Destroy
<1> DEFINE Goal == /\ patient' = patient
                   /\ asked'[t] = asked[t] \/ \E kind \in Kinds : asked'[t] = Append(asked[t], kind)
                   /\ out'[t] = out[t] \/ \E p \in Nat \X (0..FileLength) : out'[t] = Append(out[t], p)
<1>1. ASSUME NEW s \in Sessions, NEW kind \in Asks[s], Ask(s, kind) PROVE Goal
  BY <1>1 DEF Ask
<1>2. ASSUME NEW s \in Sessions, Break(s) \/ Stall(s) PROVE Goal
  BY <1>2 DEF Break, Stall
<1>3. ASSUME NEW s \in Sessions, NEW p \in Nat \X (0..FileLength), Sends(s, p), UNCHANGED clients PROVE Goal
  BY <1>3 DEF Sends
<1>4. ASSUME NEW s \in Sessions, Control(s) PROVE Goal
  <2>1. <<handled[s], 0>> \in Nat \X (0..FileLength)
    OBVIOUS
  <2>2. SendList(s) \/ Reply(s) => Goal
    BY <1>3, <2>1 DEF SendList, Reply
  <2>3. ~SendList(s) /\ ~Reply(s) => patient' = patient /\ asked' = asked /\ out' = out
    BY <1>4 DEF Control, Receive, ReceiveFails, Create, CreateFails, InitStreamer, Build, BuildFails,
                SendFails, Play, Interrupt
  <2> QED
    BY <2>2, <2>3
<1>5. ASSUME NEW s \in Sessions, Pass(s) PROVE Goal
  <2>1. Stream(s) => <<nested[s].of, nested[s].pos + 1>> \in Nat \X (0..FileLength)
    BY SMTT(30) DEF Stream, Streamer
  <2>2. Stream(s) => Goal
    BY <1>3, <2>1 DEF Stream
  <2>3. ~Stream(s) => patient' = patient /\ asked' = asked /\ out' = out
    BY <1>5 DEF Pass, Skip, Cancel, Delete, Enter, Pause, RemoveStreamer, StreamFails, StreamEnds
  <2> QED
    BY <2>2, <2>3
<1>6. CASE Accept \/ BeginPass \/ EndPass \/ Done \/ UNCHANGED vars
  BY <1>6 DEF Accept, BeginPass, EndPass, Done, vars
<1> QED
  BY <1>1, <1>2, <1>4, <1>5, <1>6 DEF Next

(* What was asked and sent stays, and what was answered stays answered. *)
LEMMA Grows ==
  ASSUME TypeOK, TypeOK', [Next]_vars, NEW t \in Sessions
  PROVE  /\ \A k \in DOMAIN asked[t] : k \in DOMAIN asked'[t] /\ asked'[t][k] = asked[t][k]
         /\ ToSet(out[t]) \subseteq ToSet(out'[t])
         /\ \A k \in Nat : k \in Full(t) => k \in Full(t)'
<1>1. asked[t] \in Seq(Kinds) /\ out[t] \in Seq(Nat \X (0..FileLength))
  BY DEF TypeOK
<1>2. \A k \in DOMAIN asked[t] : k \in DOMAIN asked'[t] /\ asked'[t][k] = asked[t][k]
  <2>1. asked'[t] = asked[t] \/ \E kind \in Kinds : asked'[t] = Append(asked[t], kind)
    BY Appends
  <2> QED
    BY <1>1, <2>1, AppendLast
<1>3. ToSet(out[t]) \subseteq ToSet(out'[t])
  <2>1. out'[t] = out[t] \/ \E p \in Nat \X (0..FileLength) : out'[t] = Append(out[t], p)
    BY Appends
  <2>2. ASSUME NEW p \in Nat \X (0..FileLength), out'[t] = Append(out[t], p) PROVE ToSet(out[t]) \subseteq ToSet(out'[t])
    <3>1. ToSet(Append(out[t], p)) = ToSet(out[t]) \cup {p}
      BY <1>1, AppendElements
    <3> QED
      BY <2>2, <3>1
  <2> QED
    BY <2>1, <2>2
<1> QED
  BY <1>2, <1>3 DEF Complete, Full

(* A streamer that has sent the whole file. *)
LEMMA StreamerComplete ==
  ASSUME Inv, NEW s \in Sessions, nested[s].playing, nested[s].pos = FileLength
  PROVE  nested[s].of \in Full(s)
<1>1. asked[s] \in Seq(Kinds) /\ handled[s] \in Nat /\ handled[s] <= Len(asked[s])
  BY DEF Inv, TypeOK
<1>2. /\ nested[s].of \in 1..handled[s] /\ asked[s][nested[s].of] \in {"file", "stream"}
      /\ \A n \in 0..FileLength : <<nested[s].of, n>> \in ToSet(out[s])
  BY DEF Inv, SessionInv, Sending
<1>3. nested[s].of \in DOMAIN asked[s]
  BY <1>1, <1>2
<1>4. Whole(asked[s][nested[s].of]) = 0..FileLength
  BY <1>2 DEF Whole
<1> QED
  BY <1>2, <1>3, <1>4 DEF Complete, Full

(* The points at which the request in hand is not answered yet. *)
Before == {"create", "init", "build", "reply", "list"}

(* A step that sends nothing to a session, and does not remove its streamer *)
(* without it.                                                              *)
SendsNothing(t) ==
  /\ out'[t] = out[t]
  /\ \/ handled'[t] = handled[t] /\ (control'[t] \in Before => control[t] \in Before)
     \/ handled'[t] = handled[t] + 1
  /\ \/ nested'[t].of = nested[t].of /\ nested[t].pos <= nested'[t].pos /\ (t \in table' => t \in table)
     \/ nested'[t].of = 0 /\ t \notin table'

(* A step that sends nothing keeps what is known of what was sent. *)
LEMMA SentKept ==
  ASSUME Inv, TypeOK', [Next]_vars, NEW t \in Sessions, SendsNothing(t)
  PROVE  Sent(t)'
<1> USE DEF SendsNothing
<1>1. /\ asked[t] \in Seq(Kinds) /\ out[t] \in Seq(Nat \X (0..FileLength)) /\ handled[t] \in Nat
      /\ handled[t] <= Len(asked[t]) /\ nested[t] \in Streamer /\ nested'[t] \in Streamer
  BY DEF Inv, TypeOK
<1>2. nested[t].pos \in Nat /\ nested'[t].pos \in Nat
  BY <1>1, SessionNumbers DEF Streamer
<1>3. SUFFICES ASSUME NEW i \in DOMAIN out[t], NEW p, p = out[t][i]
      PROVE /\ p[1] \in 1..handled'[t]
            /\ control'[t] \in Before => p[1] # handled'[t]
            /\ asked'[t][p[1]] # "list" =>
                 /\ nested'[t].of # 0 => p[1] <= nested'[t].of
                 /\ p[1] = nested'[t].of => p[2] <= nested'[t].pos
                 /\ t \in table' /\ p[1] # nested'[t].of => p[1] \in Full(t)'
  BY <1>1 DEF Sent, Before
<1>4. /\ p[1] \in 1..handled[t] /\ p[2] \in Nat
      /\ control[t] \in Before => p[1] # handled[t]
      /\ asked[t][p[1]] # "list" =>
           /\ nested[t].of # 0 => p[1] <= nested[t].of
           /\ p[1] = nested[t].of => p[2] <= nested[t].pos
           /\ t \in table /\ p[1] # nested[t].of => p[1] \in Full(t)
  BY <1>1, <1>3, SessionNumbers, SMTT(30) DEF Inv, SessionInv, Sent, Before
<1>5. p[1] \in DOMAIN asked[t]
  BY <1>1, <1>4
<1>6. asked'[t][p[1]] = asked[t][p[1]] /\ (p[1] \in Full(t) => p[1] \in Full(t)')
  BY <1>4, <1>5, Grows DEF Inv
<1>7. p[1] \in 1..handled'[t] /\ (control'[t] \in Before => p[1] # handled'[t])
  BY <1>1, <1>4
<1> QED
  BY <1>2, <1>4, <1>6, <1>7

(* What was sent to a session to which a step sends a part of the request   *)
(* that the control thread or the streamer has in hand.                     *)
LEMMA SentMore ==
  ASSUME Inv, TypeOK', [Next]_vars, NEW t \in Sessions, NEW p \in Nat \X (0..FileLength),
         out'[t] = Append(out[t], p), p[1] \in 1..handled[t],
         handled'[t] = handled[t], asked'[t] = asked[t], t \in table' => t \in table,
         control'[t] \in Before => control[t] \in Before /\ p[1] # handled[t],
         nested'[t].of = nested[t].of, nested[t].pos <= nested'[t].pos,
         asked[t][p[1]] # "list" => p[1] = nested[t].of /\ p[2] <= nested'[t].pos
  PROVE  Sent(t)'
<1>1. /\ asked[t] \in Seq(Kinds) /\ out[t] \in Seq(Nat \X (0..FileLength)) /\ handled[t] \in Nat
      /\ handled[t] <= Len(asked[t]) /\ nested[t] \in Streamer /\ nested'[t] \in Streamer
  BY DEF Inv, TypeOK
<1>2. nested[t].pos \in Nat /\ nested'[t].pos \in Nat /\ nested[t].of \in Nat
  BY <1>1, SessionNumbers DEF Streamer
<1> DEFINE Good(q) ==
      /\ q[1] \in 1..handled[t]
      /\ control'[t] \in Before => q[1] # handled[t]
      /\ asked[t][q[1]] # "list" =>
           /\ nested[t].of # 0 => q[1] <= nested[t].of
           /\ q[1] = nested[t].of => q[2] <= nested'[t].pos
           /\ t \in table' /\ q[1] # nested[t].of => q[1] \in Full(t)'
<1>3. \A i \in DOMAIN out'[t] : Good(out'[t][i])
  <2>1. Good(p)
    BY <1>2
  <2>2. ASSUME NEW i \in DOMAIN out[t], NEW q, q = out[t][i] PROVE Good(q)
    <3>1. /\ q[1] \in 1..handled[t] /\ q[2] \in Nat
          /\ control[t] \in Before => q[1] # handled[t]
          /\ asked[t][q[1]] # "list" =>
               /\ nested[t].of # 0 => q[1] <= nested[t].of
               /\ q[1] = nested[t].of => q[2] <= nested[t].pos
               /\ t \in table /\ q[1] # nested[t].of => q[1] \in Full(t)
      BY <1>1, <2>2, SessionNumbers, SMTT(30) DEF Inv, SessionInv, Sent, Before
    <3>2. q[1] \in Full(t) => q[1] \in Full(t)'
      BY <3>1, Grows DEF Inv
    <3> QED
      BY <1>2, <3>1, <3>2
  <2>3. \A i \in DOMAIN out'[t] : (i \in DOMAIN out[t] /\ out'[t][i] = out[t][i]) \/ out'[t][i] = p
    BY <1>1, AppendLast, SMTT(30)
  <2> HIDE DEF Good
  <2> QED
    BY <2>1, <2>2, <2>3
<1>4. \A i \in DOMAIN out'[t] :
        LET q == out'[t][i] IN
        /\ q[1] \in 1..handled'[t]
        /\ control'[t] \in Before => q[1] # handled'[t]
        /\ asked'[t][q[1]] # "list" =>
             /\ nested'[t].of # 0 => q[1] <= nested'[t].of
             /\ q[1] = nested'[t].of => q[2] <= nested'[t].pos
             /\ t \in table' /\ q[1] # nested'[t].of => q[1] \in Full(t)'
  BY <1>3
<1> QED
  BY <1>4 DEF Sent, Before

(* What was sent of a request is of one that was read, and all of it, but   *)
(* for the request whose streamer still plays.                              *)
LEMMA NextSent == Inv /\ TypeOK' /\ [Next]_vars => \A t \in Sessions : Sent(t)'
<1> SUFFICES ASSUME Inv, TypeOK', [Next]_vars, NEW t \in Sessions PROVE Sent(t)'
  OBVIOUS
<1>a. /\ table \subseteq 1..arrived /\ todo \subseteq table
      /\ nested \in [Sessions -> Streamer] /\ DOMAIN control = Sessions
      /\ out \in [Sessions -> Seq(Nat \X (0..FileLength))]
      /\ handled \in [Sessions -> Nat] /\ \A s \in Sessions : nested[s].of \in Nat /\ nested[s].of <= handled[s]
  BY SessionNumbers DEF Inv, TypeOK, Streamer
<1>b. arrived \in Nat
  BY SessionNumbers DEF Inv, TypeOK
<1>c. \A s \in Sessions : nested[s].pos \in Nat
  BY <1>a, SessionNumbers DEF Streamer
<1>d. TypeOK /\ Sent(t) /\ Present(t) /\ Serving(t)
  BY DEF Inv, SessionInv
<1> USE <1>a, <1>b, <1>c, SessionNumbers DEF clients, server, flags, threads, Goto, Leave, Fail,
   Culprit, Destroy, Before,
      SendsNothing
<1>1. ASSUME NEW s \in Sessions, NEW kind \in Asks[s], Ask(s, kind) PROVE SendsNothing(t)
  BY <1>1 DEF Ask
<1>2. ASSUME NEW s \in Sessions, Break(s) PROVE SendsNothing(t)
  BY <1>2 DEF Break
<1>3. ASSUME NEW s \in Sessions, Stall(s) PROVE SendsNothing(t)
  BY <1>3 DEF Stall
<1>4. ASSUME NEW s \in Sessions, Receive(s) PROVE SendsNothing(t)
  BY <1>4 DEF Receive
<1>5. ASSUME NEW s \in Sessions, ReceiveFails(s) PROVE SendsNothing(t)
  BY <1>5 DEF ReceiveFails
<1>6. ASSUME NEW s \in Sessions, CreateFails(s) PROVE SendsNothing(t)
  BY <1>6 DEF CreateFails
<1>7. ASSUME NEW s \in Sessions, InitStreamer(s) PROVE SendsNothing(t)
  BY <1>7 DEF InitStreamer
<1>8. ASSUME NEW s \in Sessions, Build(s) PROVE SendsNothing(t)
  BY <1>8 DEF Build
<1>9. ASSUME NEW s \in Sessions, BuildFails(s) PROVE SendsNothing(t)
  BY <1>9 DEF BuildFails
<1>10. ASSUME NEW s \in Sessions, SendFails(s) PROVE SendsNothing(t)
  BY <1>10 DEF SendFails
<1>11. ASSUME NEW s \in Sessions, Interrupt(s) PROVE SendsNothing(t)
  BY <1>11 DEF Interrupt
<1>12. ASSUME NEW s \in Sessions, Skip(s) PROVE SendsNothing(t)
  BY <1>12 DEF Skip
<1>13. ASSUME NEW s \in Sessions, Cancel(s) PROVE SendsNothing(t)
  BY <1>13 DEF Cancel
<1>14. ASSUME NEW s \in Sessions, Enter(s) PROVE SendsNothing(t)
  BY <1>14 DEF Enter
<1>15. ASSUME NEW s \in Sessions, Pause(s) PROVE SendsNothing(t)
  BY <1>15 DEF Pause
<1>16. ASSUME NEW s \in Sessions, StreamFails(s) PROVE SendsNothing(t)
  BY <1>16 DEF StreamFails
<1>17. ASSUME NEW s \in Sessions, Play(s) PROVE SendsNothing(t)
  <2>1. nested'[t].of = nested[t].of /\ nested'[t].pos = nested[t].pos
    BY <1>17, <1>d, NestedFields DEF Play
  <2> QED
    BY <1>17, <2>1 DEF Play
<1>18. ASSUME NEW s \in Sessions, StreamEnds(s) PROVE SendsNothing(t)
  <2>1. nested'[t].of = nested[t].of /\ nested'[t].pos = nested[t].pos
    BY <1>18, <1>d, NestedFields DEF StreamEnds
  <2> QED
    BY <1>18, <2>1 DEF StreamEnds
<1>19. ASSUME NEW s \in Sessions, Delete(s) PROVE SendsNothing(t)
  BY <1>19, NoStreamerType DEF Delete
<1>20. ASSUME BeginPass PROVE SendsNothing(t)
  BY <1>20 DEF BeginPass
<1>21. ASSUME EndPass PROVE SendsNothing(t)
  BY <1>21 DEF EndPass
<1>22. ASSUME Done \/ UNCHANGED vars PROVE SendsNothing(t)
  BY <1>22 DEF Done, vars
<1>23. CASE Accept
  <2>1. CASE t = arrived + 1
    <3>1. out[t] = <<>>
      BY <2>1, <1>d DEF Present
    <3> QED
      BY <1>23, <3>1 DEF Accept, Sent
  <2>2. CASE t # arrived + 1
    <3>1. SendsNothing(t)
      BY <1>23, <2>2 DEF Accept
    <3> QED
      BY <3>1, SentKept
  <2> QED
    BY <2>1, <2>2
<1>24. ASSUME NEW s \in Sessions, Create(s) PROVE Sent(t)'
  <2>1. CASE s = t
    <3>1. control[t] = "create" /\ nested[t] = NoStreamer /\ t \in table
      BY <1>24, <2>1, <1>d DEF Create, Present
    <3>2. nested'[t].of = handled[t] /\ control'[t] = "init" /\ handled'[t] = handled[t] /\ table' = table
          /\ out'[t] = out[t] /\ asked'[t] = asked[t]
      BY <1>24, <2>1, <1>d, NestedFields DEF Create, TypeOK
    <3>3. \A i \in DOMAIN out[t] : out[t][i][1] \in 1..handled[t] /\ out[t][i][1] # handled[t]
      BY <3>1, <1>d DEF Sent
    <3>4. \A i \in DOMAIN out[t] : asked[t][out[t][i][1]] # "list" => out[t][i][1] \in Full(t)'
      <4> SUFFICES ASSUME NEW i \in DOMAIN out[t], asked[t][out[t][i][1]] # "list"
                   PROVE  out[t][i][1] \in Full(t)'
        OBVIOUS
      <4>1. out[t][i][1] \in Nat \ {0} /\ nested[t].of = 0
        BY <3>1, <3>3, NoStreamerType
      <4>2. out[t][i][1] \in Full(t)
        BY <3>1, <4>1, <1>d DEF Sent
      <4> QED
        BY <4>1, <4>2, <1>d, Grows
    <3> QED
      BY <3>1, <3>2, <3>3, <3>4 DEF Sent
  <2>2. CASE s # t
    <3>1. SendsNothing(t)
      BY <1>24, <2>2 DEF Create
    <3> QED
      BY <3>1, SentKept
  <2> QED
    BY <2>1, <2>2
<1>25. ASSUME NEW s \in Sessions, RemoveStreamer(s) PROVE Sent(t)'
  <2>1. CASE s = t
    <3>1. nested[t].playing /\ nested[t].pos = FileLength
      BY <1>25, <2>1, <1>d DEF RemoveStreamer, Serving
    <3>2. nested'[t] = NoStreamer /\ control'[t] = control[t] /\ handled'[t] = handled[t] /\ table' = table
          /\ out'[t] = out[t] /\ asked'[t] = asked[t]
      BY <1>25, <2>1 DEF RemoveStreamer
    <3>3. \A i \in DOMAIN out[t] : out[t][i][1] \in 1..handled[t]
      BY <1>d DEF Sent
    <3>4. nested[t].of \in Full(t)
      BY <3>1, StreamerComplete
    <3>5. \A i \in DOMAIN out[t] : t \in table /\ asked[t][out[t][i][1]] # "list" => out[t][i][1] \in Full(t)'
      <4> SUFFICES ASSUME NEW i \in DOMAIN out[t], t \in table, asked[t][out[t][i][1]] # "list"
                   PROVE  out[t][i][1] \in Full(t)'
        OBVIOUS
      <4>1. out[t][i][1] \in Nat
        BY <3>3
      <4>2. out[t][i][1] \in Full(t)
        BY <3>4, <1>d DEF Sent
      <4> QED
        BY <4>1, <4>2, <1>d, Grows
    <3> QED
      BY <3>2, <3>3, <3>5, <1>d, NoStreamerType DEF Sent
  <2>2. CASE s # t
    <3>1. SendsNothing(t)
      BY <1>25, <2>2 DEF RemoveStreamer
    <3> QED
      BY <3>1, SentKept
  <2> QED
    BY <2>1, <2>2
<1>26. ASSUME NEW s \in Sessions, SendList(s) PROVE Sent(t)'
  <2>1. CASE s = t
    <3>1. control[t] = "list" /\ handled[t] \in 1..Len(asked[t]) /\ handled[t] \in Nat \ {0} /\ asked[t][handled[t]] = "list"
      BY <1>26, <2>1, InHand DEF SendList, Inv, SessionInv, Sending, Kind
    <3>2. out'[t] = Append(out[t], <<handled[t], 0>>) /\ control'[t] = "receive" /\ <<handled[t], 0>> \in Nat \X (0..FileLength)
      BY <1>26, <2>1 DEF SendList, Sends
    <3> QED
      <4> DEFINE p == <<handled[t], 0>>
      <4>1. /\ p[1] = handled[t] /\ p[2] = 0 /\ handled'[t] = handled[t] /\ asked'[t] = asked[t] /\ table' = table
            /\ nested' = nested /\ handled[t] \in 1..handled[t]
        BY <1>26, <3>1 DEF SendList
      <4> HIDE DEF p
      <4>2. p \in Nat \X (0..FileLength) /\ out'[t] = Append(out[t], p)
        BY <3>2 DEF p
      <4>3. /\ p[1] \in 1..handled[t]
            /\ t \in table' => t \in table
            /\ nested'[t].of = nested[t].of /\ nested[t].pos <= nested'[t].pos
        BY <4>1
      <4>4. control'[t] \in Before => control[t] \in Before /\ p[1] # handled[t]
        BY <3>2
      <4>5. asked[t][p[1]] # "list" => p[1] = nested[t].of /\ p[2] <= nested'[t].pos
        BY <3>1, <4>1
      <4> QED
        BY <4>1, <4>2, <4>3, <4>4, <4>5, SentMore
  <2>2. CASE s # t
    <3>1. SendsNothing(t)
      BY <1>26, <2>2 DEF SendList, Sends
    <3> QED
      BY <3>1, SentKept
  <2> QED
    BY <2>1, <2>2
<1>27. ASSUME NEW s \in Sessions, Reply(s) PROVE Sent(t)'
  <2>1. CASE s = t
    <3>1. control[t] = "reply" /\ handled[t] \in Nat \ {0} /\ nested[t].of = handled[t] /\ nested[t].pos = 0
      BY <1>27, <2>1, <1>d, InHand DEF Reply, Serving
    <3>2. out'[t] = Append(out[t], <<handled[t], 0>>) /\ control'[t] = "play" /\ <<handled[t], 0>> \in Nat \X (0..FileLength)
      BY <1>27, <2>1 DEF Reply, Sends
    <3> QED
      <4> DEFINE p == <<handled[t], 0>>
      <4>1. /\ p[1] = handled[t] /\ p[2] = 0 /\ handled'[t] = handled[t] /\ asked'[t] = asked[t] /\ table' = table
            /\ nested' = nested /\ handled[t] \in 1..handled[t]
        BY <1>27, <3>1 DEF Reply
      <4> HIDE DEF p
      <4>2. p \in Nat \X (0..FileLength) /\ out'[t] = Append(out[t], p)
        BY <3>2 DEF p
      <4>3. /\ p[1] \in 1..handled[t]
            /\ t \in table' => t \in table
            /\ nested'[t].of = nested[t].of /\ nested[t].pos <= nested'[t].pos
        BY <4>1
      <4>4. control'[t] \in Before => control[t] \in Before /\ p[1] # handled[t]
        BY <3>2
      <4>5. asked[t][p[1]] # "list" => p[1] = nested[t].of /\ p[2] <= nested'[t].pos
        BY <3>1, <4>1
      <4> QED
        BY <4>1, <4>2, <4>3, <4>4, <4>5, SentMore
  <2>2. CASE s # t
    <3>1. SendsNothing(t)
      BY <1>27, <2>2 DEF Reply, Sends
    <3> QED
      BY <3>1, SentKept
  <2> QED
    BY <2>1, <2>2
<1>28. ASSUME NEW s \in Sessions, Stream(s) PROVE Sent(t)'
  <2>0. nested'[t].of = nested[t].of /\ nested'[t].pos = nested[t].pos + (IF s = t THEN 1 ELSE 0)
    BY <1>28, <1>d, NestedFields DEF Stream
  <2>1. CASE s = t
    <3>1. nested[t].playing /\ nested[t].of \in 1..handled[t] /\ nested[t].pos + 1 \in 0..FileLength
      <4>1. nested[t].playing /\ nested[t].pos < FileLength
        BY <1>28, <2>1 DEF Stream, Streams
      <4>2. Sending(t)
        BY DEF Inv, SessionInv
      <4> QED
        BY <4>1, <4>2 DEF Sending
    <3>2. out'[t] = Append(out[t], <<nested[t].of, nested[t].pos + 1>>)
          /\ control'[t] = control[t] /\ handled'[t] = handled[t] /\ table' = table /\ asked'[t] = asked[t]
      BY <1>28, <2>1 DEF Stream, Sends
    <3>3. control[t] \in Before => nested[t].of # handled[t]
      BY <3>1, <1>d DEF Serving
    <3> DEFINE p == <<nested[t].of, nested[t].pos + 1>>
    <3>4. p[1] = nested[t].of /\ p[2] = nested[t].pos + 1 /\ p \in Nat \X (0..FileLength)
      BY <3>1
    <3>5. out'[t] = Append(out[t], p) /\ nested'[t].of = nested[t].of /\ nested'[t].pos = nested[t].pos + 1
      BY <2>0, <2>1, <3>2
    <3> HIDE DEF p, Before
    <3>6. /\ p[1] \in 1..handled[t]
          /\ t \in table' => t \in table
          /\ nested[t].pos <= nested'[t].pos
          /\ asked[t][p[1]] # "list" => p[1] = nested[t].of /\ p[2] <= nested'[t].pos
      BY <3>1, <3>2, <3>4, <3>5
    <3>7. control'[t] \in Before => control[t] \in Before /\ p[1] # handled[t]
      BY <3>2, <3>3, <3>4
    <3> QED
      BY <3>2, <3>4, <3>5, <3>6, <3>7, SentMore
  <2>2. CASE s # t
    <3>1. SendsNothing(t)
      BY <1>28, <2>0, <2>2 DEF Stream, Sends
    <3> QED
      BY <3>1, SentKept
  <2> QED
    BY <2>1, <2>2
<1>29. SendsNothing(t) => Sent(t)'
  BY SentKept
<1> QED
  BY <1>1, <1>2, <1>3, <1>4, <1>5, <1>6, <1>7, <1>8, <1>9, <1>10, <1>11, <1>12, <1>13, <1>14, <1>15,
     <1>16, <1>17, <1>18, <1>19, <1>20, <1>21, <1>22, <1>23, <1>24, <1>25, <1>26, <1>27, <1>28,
     <1>29 DEF Next, Control, Pass

(* A step that leaves the request in hand and the streamer of a session as  *)
(* they are, or less of them; what is sent stays.                           *)
Keeps(t) ==
  /\ asked'[t] = asked[t] /\ patient' = patient /\ handled'[t] = handled[t]
  /\ \/ control'[t] = control[t] \/ control'[t] \in {"receive", "failed", "gone"}
     \/ control[t] = "create" /\ control'[t] = "init"
     \/ control[t] = "init" /\ control'[t] = "build"
  /\ nested'[t].playing =>
       nested[t].playing /\ nested'[t].of = nested[t].of /\ nested'[t].pos = nested[t].pos

(* Such a step keeps what is known of the request in hand. *)
LEMMA SendingKept ==
  ASSUME Inv, TypeOK', [Next]_vars, NEW t \in Sessions, Keeps(t)
  PROVE  Sending(t)'
<1>1. TypeOK /\ Sending(t)
  BY DEF Inv, SessionInv
<1>2. ToSet(out[t]) \subseteq ToSet(out'[t]) /\ \A k \in Nat : k \in Full(t) => k \in Full(t)'
  BY <1>1, Grows
<1>3. /\ control[t] \notin {"none", "receive", "failed", "gone"} => handled[t] \in 1..Len(asked[t])
      /\ control[t] = "list" => asked[t][handled[t]] = "list"
      /\ control[t] \in {"create", "init", "build", "reply", "play"} => asked[t][handled[t]] # "list"
      /\ control[t] \in {"reply", "play"} => asked[t][handled[t]] # "missing"
      /\ control[t] = "play" => <<handled[t], 0>> \in ToSet(out[t])
  BY <1>1 DEF Sending, Kind
<1>4. /\ control'[t] \notin {"none", "receive", "failed", "gone"} => handled'[t] \in 1..Len(asked'[t])
      /\ control'[t] = "list" => asked'[t][handled'[t]] = "list"
      /\ control'[t] \in {"create", "init", "build", "reply", "play"} => asked'[t][handled'[t]] # "list"
      /\ control'[t] \in {"reply", "play"} => asked'[t][handled'[t]] # "missing"
      /\ control'[t] = "play" => <<handled'[t], 0>> \in ToSet(out'[t])
  BY <1>2, <1>3 DEF Keeps
<1>5. nested'[t].playing =>
        /\ nested'[t].of \in 1..handled'[t] /\ asked'[t][nested'[t].of] \in {"file", "stream"}
        /\ \A n \in 0..nested'[t].pos : <<nested'[t].of, n>> \in ToSet(out'[t])
  BY <1>1, <1>2 DEF Keeps, Sending
<1>6. patient'[t] => \A k \in 1..Len(asked'[t]) - 1 : k \in Full(t)'
  <2>1. Len(asked[t]) \in Nat
    BY <1>1 DEF TypeOK
  <2>2. patient[t] => \A k \in 1..Len(asked[t]) - 1 : k \in Full(t)
    BY <1>1 DEF Sending
  <2> QED
    BY <1>2, <2>1, <2>2 DEF Keeps
<1> QED
  BY <1>4, <1>5, <1>6 DEF Sending, Kind

(* What the control thread has in hand is the request it has read, and what *)
(* the streamer has sent is there.                                          *)
LEMMA NextSending == Inv /\ TypeOK' /\ [Next]_vars => \A t \in Sessions : Sending(t)'
<1> SUFFICES ASSUME Inv, TypeOK', [Next]_vars, NEW t \in Sessions PROVE Sending(t)'
  OBVIOUS
<1>a. /\ nested \in [Sessions -> Streamer] /\ DOMAIN control = Sessions /\ DOMAIN handled = Sessions
      /\ \A s \in Sessions : asked[s] \in Seq(Kinds) /\ handled[s] \in Nat /\ handled[s] <= Len(asked[s])
  BY DEF Inv, TypeOK
<1>d. TypeOK /\ Sending(t) /\ Present(t) /\ Serving(t) /\ t \in Nat
  BY SessionNumbers DEF Inv, SessionInv
<1>e. /\ ToSet(out[t]) \subseteq ToSet(out'[t]) /\ (\A k \in Nat : k \in Full(t) => k \in Full(t)')
      /\ \A k \in DOMAIN asked[t] : k \in DOMAIN asked'[t] /\ asked'[t][k] = asked[t][k]
  BY <1>d, Grows
<1> USE <1>a, SessionNumbers DEF clients, server, flags, threads, Goto, Leave, Fail, Culprit, Destroy, Keeps
<1>2. ASSUME NEW s \in Sessions, Break(s) PROVE Keeps(t)
  BY <1>2 DEF Break
<1>3. ASSUME NEW s \in Sessions, Stall(s) PROVE Keeps(t)
  BY <1>3 DEF Stall
<1>5. ASSUME NEW s \in Sessions, ReceiveFails(s) PROVE Keeps(t)
  BY <1>5 DEF ReceiveFails
<1>6. ASSUME NEW s \in Sessions, CreateFails(s) PROVE Keeps(t)
  BY <1>6 DEF CreateFails
<1>7. ASSUME NEW s \in Sessions, InitStreamer(s) PROVE Keeps(t)
  BY <1>7 DEF InitStreamer
<1>9. ASSUME NEW s \in Sessions, BuildFails(s) PROVE Keeps(t)
  BY <1>9 DEF BuildFails
<1>10. ASSUME NEW s \in Sessions, SendFails(s) PROVE Keeps(t)
  BY <1>10 DEF SendFails
<1>11. ASSUME NEW s \in Sessions, Interrupt(s) PROVE Keeps(t)
  BY <1>11 DEF Interrupt
<1>12. ASSUME NEW s \in Sessions, Skip(s) PROVE Keeps(t)
  BY <1>12 DEF Skip
<1>13. ASSUME NEW s \in Sessions, Cancel(s) PROVE Keeps(t)
  BY <1>13 DEF Cancel
<1>14. ASSUME NEW s \in Sessions, Enter(s) PROVE Keeps(t)
  BY <1>14 DEF Enter
<1>15. ASSUME NEW s \in Sessions, Pause(s) PROVE Keeps(t)
  BY <1>15 DEF Pause
<1>16. ASSUME NEW s \in Sessions, StreamFails(s) PROVE Keeps(t)
  BY <1>16 DEF StreamFails
<1>17. ASSUME NEW s \in Sessions, SendList(s) PROVE Keeps(t)
  BY <1>17 DEF SendList
<1>18. ASSUME NEW s \in Sessions, StreamEnds(s) PROVE Keeps(t)
  <2>1. nested'[t].of = nested[t].of /\ nested'[t].pos = nested[t].pos /\ (nested'[t].playing <=> nested[t].playing)
    BY <1>18, <1>d, NestedFields DEF StreamEnds
  <2> QED
    BY <1>18, <2>1 DEF StreamEnds
<1>19. ASSUME NEW s \in Sessions, Delete(s) \/ RemoveStreamer(s) PROVE Keeps(t)
  BY <1>19, NoStreamerType DEF Delete, RemoveStreamer
<1>20. ASSUME NEW s \in Sessions, Create(s) PROVE Keeps(t)
  <2>1. s = t => ~nested'[t].playing
    BY <1>20, <1>d, NestedFields DEF Create
  <2>2. s # t => nested'[t] = nested[t] /\ control'[t] = control[t]
    BY <1>20 DEF Create
  <2>3. s = t => control[t] = "create" /\ control'[t] = "init"
    BY <1>20 DEF Create
  <2>4. asked' = asked /\ patient' = patient /\ handled' = handled
    BY <1>20 DEF Create
  <2> QED
    BY <2>1, <2>2, <2>3, <2>4
<1>21. CASE BeginPass
  BY <1>21, SendingKept DEF BeginPass
<1>22. CASE EndPass
  BY <1>22, SendingKept DEF EndPass
<1>23. CASE Done \/ UNCHANGED vars
  BY <1>23, SendingKept DEF Done, vars
<1>24. CASE Accept
  <2>1. Keeps(t)
    <3>1. t = arrived + 1 => control'[t] = "receive"
      BY <1>24 DEF Accept
    <3>2. t # arrived + 1 => control'[t] = control[t]
      BY <1>24 DEF Accept
    <3> QED
      BY <1>24, <3>1, <3>2 DEF Accept
  <2> QED
    BY <2>1, SendingKept
<1>29. Keeps(t) => Sending(t)'
  BY SendingKept
<1> HIDE DEF Keeps
<1>25. ASSUME NEW s \in Sessions, NEW kind \in Asks[s], Ask(s, kind) PROVE Sending(t)'
  <2>1. CASE s = t
    <3>1. /\ asked'[t] = Append(asked[t], kind) /\ patient' = patient /\ handled' = handled /\ control' = control
          /\ nested' = nested /\ out' = out /\ (patient[t] => Answered(t)) /\ kind \in Kinds
      BY <1>25, <2>1 DEF Ask, TypeOK, Inv
    <3>2. /\ Len(asked'[t]) = Len(asked[t]) + 1 /\ Len(asked[t]) \in Nat /\ DOMAIN asked[t] = 1..Len(asked[t])
          /\ \A k \in 1..Len(asked[t]) : asked'[t][k] = asked[t][k]
      BY <3>1, <1>e, AppendLast
    <3>3. control'[t] \notin {"none", "receive", "failed", "gone"} => handled'[t] \in 1..Len(asked'[t])
      BY <3>1, <3>2, <1>d DEF Sending
    <3>4. /\ control'[t] = "list" => asked'[t][handled'[t]] = "list"
          /\ control'[t] \in {"create", "init", "build", "reply", "play"} => asked'[t][handled'[t]] # "list"
          /\ control'[t] \in {"reply", "play"} => asked'[t][handled'[t]] # "missing"
          /\ control'[t] = "play" => <<handled'[t], 0>> \in ToSet(out'[t])
      BY <3>1, <3>2, <1>d, <1>e DEF Sending, Kind
    <3>5. nested'[t].playing =>
            /\ nested'[t].of \in 1..handled'[t] /\ asked'[t][nested'[t].of] \in {"file", "stream"}
            /\ \A n \in 0..nested'[t].pos : <<nested'[t].of, n>> \in ToSet(out'[t])
      BY <3>1, <3>2, <1>d, <1>e DEF Sending
    <3>6. patient'[t] => \A k \in 1..Len(asked'[t]) - 1 : k \in Full(t)'
      <4> SUFFICES ASSUME patient[t], NEW k \in 1..Len(asked[t]) PROVE k \in Full(t)'
        BY <3>1, <3>2
      <4>1. k \in Full(t) /\ k \in Nat
        BY <3>1, <3>2 DEF Answered, Full
      <4> QED
        BY <4>1, <1>e
    <3> QED
      BY <3>3, <3>4, <3>5, <3>6 DEF Sending, Kind
  <2>2. CASE s # t
    BY <1>25, <1>29, <2>2 DEF Ask, Keeps
  <2> QED
    BY <2>1, <2>2
<1>26. ASSUME NEW s \in Sessions, Receive(s) PROVE Sending(t)'
  <2>1. CASE s = t
    <3>1. /\ asked' = asked /\ patient' = patient /\ nested' = nested /\ out' = out
          /\ handled'[t] = handled[t] + 1 /\ handled[t] < Len(asked[t])
          /\ control'[t] = IF asked[t][handled'[t]] = "list" THEN "list" ELSE "create"
      BY <1>26, <2>1 DEF Receive
    <3>2. handled'[t] \in 1..Len(asked'[t]) /\ \A k \in 1..handled[t] : k \in 1..handled'[t]
      BY <3>1
    <3>3. patient'[t] => \A k \in 1..Len(asked'[t]) - 1 : k \in Full(t)'
      BY <3>1, <1>d, <1>e DEF Sending
    <3>4. nested'[t].playing =>
            /\ nested'[t].of \in 1..handled'[t] /\ asked'[t][nested'[t].of] \in {"file", "stream"}
            /\ \A n \in 0..nested'[t].pos : <<nested'[t].of, n>> \in ToSet(out'[t])
      BY <3>1, <3>2, <1>d DEF Sending
    <3> QED
      BY <3>1, <3>2, <3>3, <3>4 DEF Sending, Kind
  <2>2. CASE s # t
    BY <1>26, <1>29, <2>2 DEF Receive, Keeps
  <2> QED
    BY <2>1, <2>2
<1>27. ASSUME NEW s \in Sessions, Build(s) PROVE Sending(t)'
  <2>1. CASE s = t
    <3>1. /\ asked' = asked /\ patient' = patient /\ nested' = nested /\ out' = out /\ handled' = handled
          /\ control[t] = "build" /\ control'[t] = "reply" /\ asked[t][handled[t]] # "missing"
      BY <1>27, <2>1 DEF Build, Kind
    <3>2. /\ asked[t][handled[t]] # "list" /\ handled[t] \in 1..Len(asked[t])
      BY <3>1, <1>d DEF Sending, Kind
    <3>3. patient'[t] => \A k \in 1..Len(asked'[t]) - 1 : k \in Full(t)'
      BY <3>1, <1>d, <1>e DEF Sending
    <3>4. nested'[t].playing =>
            /\ nested'[t].of \in 1..handled'[t] /\ asked'[t][nested'[t].of] \in {"file", "stream"}
            /\ \A n \in 0..nested'[t].pos : <<nested'[t].of, n>> \in ToSet(out'[t])
      BY <3>1, <1>d DEF Sending
    <3> QED
      BY <3>1, <3>2, <3>3, <3>4 DEF Sending, Kind
  <2>2. CASE s # t
    BY <1>27, <1>29, <2>2 DEF Build, Keeps
  <2> QED
    BY <2>1, <2>2
<1>28. ASSUME NEW s \in Sessions, Reply(s) PROVE Sending(t)'
  <2>1. CASE s = t
    <3>1. /\ asked' = asked /\ patient' = patient /\ nested' = nested /\ handled' = handled
          /\ control[t] = "reply" /\ control'[t] = "play"
          /\ out'[t] = Append(out[t], <<handled[t], 0>>)
      BY <1>28, <2>1, <1>d DEF Reply, Sends, TypeOK
    <3>2. /\ asked[t][handled[t]] \notin {"list", "missing"} /\ handled[t] \in 1..Len(asked[t])
          /\ ~nested[t].playing
      BY <3>1, <1>d DEF Sending, Kind, Serving
    <3>3. patient'[t] => \A k \in 1..Len(asked'[t]) - 1 : k \in Full(t)'
      BY <3>1, <1>d, <1>e DEF Sending
    <3>4. <<handled[t], 0>> \in ToSet(out'[t])
      <4>1. out[t] \in Seq(Nat \X (0..FileLength))
        BY <1>d DEF TypeOK
      <4>2. <<handled[t], 0>> \in Nat \X (0..FileLength)
        OBVIOUS
      <4>3. ToSet(Append(out[t], <<handled[t], 0>>)) = ToSet(out[t]) \cup {<<handled[t], 0>>}
        BY ONLY <4>1, <4>2, AppendElements
      <4> QED
        BY <3>1, <4>3
    <3> QED
      BY <3>1, <3>2, <3>3, <3>4 DEF Sending, Kind
  <2>2. CASE s # t
    BY <1>28, <1>29, <2>2 DEF Reply, Keeps
  <2> QED
    BY <2>1, <2>2
<1>30. ASSUME NEW s \in Sessions, Play(s) PROVE Sending(t)'
  <2>1. CASE s = t
    <3>1. /\ asked' = asked /\ patient' = patient /\ out' = out /\ handled' = handled
          /\ control[t] = "play" /\ control'[t] = "receive"
          /\ nested'[t].of = nested[t].of /\ nested'[t].pos = nested[t].pos
      BY <1>30, <2>1, <1>d, NestedFields DEF Play
    <3>2. /\ asked[t][handled[t]] \notin {"list", "missing"} /\ handled[t] \in 1..Len(asked[t])
          /\ nested[t].of = handled[t] /\ nested[t].pos = 0 /\ <<handled[t], 0>> \in ToSet(out[t])
      BY <3>1, <1>d DEF Sending, Kind, Serving
    <3>3. patient'[t] => \A k \in 1..Len(asked'[t]) - 1 : k \in Full(t)'
      BY <3>1, <1>d, <1>e DEF Sending
    <3>4. asked[t][handled[t]] \in {"file", "stream"} /\ handled[t] \in 1..handled[t]
      BY <3>2 DEF Kinds
    <3> QED
      BY <3>1, <3>2, <3>3, <3>4 DEF Sending, Kind
  <2>2. CASE s # t
    BY <1>30, <1>29, <2>2 DEF Play, Keeps
  <2> QED
    BY <2>1, <2>2
<1>31. ASSUME NEW s \in Sessions, Stream(s) PROVE Sending(t)'
  <2>0. nested'[t].of = nested[t].of /\ nested'[t].pos = nested[t].pos + (IF s = t THEN 1 ELSE 0)
        /\ (nested'[t].playing <=> nested[t].playing)
    BY <1>31, <1>d, NestedFields DEF Stream
  <2>1. CASE s = t
    <3>1. /\ asked' = asked /\ patient' = patient /\ handled' = handled /\ control' = control
          /\ nested[t].playing
          /\ out'[t] = Append(out[t], <<nested[t].of, nested[t].pos + 1>>)
      BY <1>31, <2>1, <1>d DEF Stream, Streams, Sends, TypeOK
    <3>2. nested[t].pos \in Nat /\ nested[t].of \in Nat /\ nested[t].pos + 1 \in 0..FileLength
      BY <1>31, <2>1 DEF Stream, Streamer
    <3>3. <<nested[t].of, nested[t].pos + 1>> \in ToSet(out'[t])
      <4>1. <<nested[t].of, nested[t].pos + 1>> \in Nat \X (0..FileLength) /\ out[t] \in Seq(Nat \X (0..FileLength))
        BY <3>2, <1>d DEF TypeOK
      <4> QED
        BY <3>1, <4>1, AppendElements, SMTT(30)
    <3>4. patient'[t] => \A k \in 1..Len(asked'[t]) - 1 : k \in Full(t)'
      BY <3>1, <1>d, <1>e DEF Sending
    <3>5. /\ nested'[t].of \in 1..handled'[t] /\ asked'[t][nested'[t].of] \in {"file", "stream"}
      BY <2>0, <3>1, <1>d DEF Sending
    <3>6. \A n \in 0..nested'[t].pos : <<nested'[t].of, n>> \in ToSet(out'[t])
      <4> SUFFICES ASSUME NEW n \in 0..nested[t].pos + 1 PROVE <<nested[t].of, n>> \in ToSet(out'[t])
        BY <2>0, <2>1
      <4>1. CASE n = nested[t].pos + 1
        BY <3>3, <4>1
      <4>2. CASE n # nested[t].pos + 1
        <5>1. n \in 0..nested[t].pos
          BY <3>2, <4>2
        <5> QED
          BY <3>1, <5>1, <1>d, <1>e DEF Sending
      <4> QED
        BY <4>1, <4>2
    <3>7. /\ control'[t] \notin {"none", "receive", "failed", "gone"} => handled'[t] \in 1..Len(asked'[t])
          /\ control'[t] = "list" => Kind(t)' = "list"
          /\ control'[t] \in {"create", "init", "build", "reply", "play"} => Kind(t)' # "list"
          /\ control'[t] \in {"reply", "play"} => Kind(t)' # "missing"
          /\ control'[t] = "play" => <<handled'[t], 0>> \in ToSet(out'[t])
      BY <3>1, <1>d, <1>e DEF Sending, Kind
    <3> QED
      BY <3>4, <3>5, <3>6, <3>7 DEF Sending
  <2>2. CASE s # t
    BY <1>31, <1>29, <2>0, <2>2 DEF Stream, Keeps
  <2> QED
    BY <2>1, <2>2
<1> QED
  BY <1>2, <1>3, <1>5, <1>6, <1>7, <1>9, <1>10, <1>11, <1>12, <1>13, <1>14, <1>15, <1>16, <1>17,
     <1>18, <1>19, <1>20, <1>21, <1>22, <1>23, <1>24, <1>25, <1>26, <1>27, <1>28, <1>29, <1>30,
     <1>31 DEF Next, Control, Pass

(* The order of what was sent, in terms of the requests answered in full. *)
LEMMA OrderlyFull ==
  ASSUME NEW t \in Sessions
  PROVE  /\ Orderly(t) <=>
              \A i, j \in Counted(t) : i < j =>
                /\ Precedes(out[t][i], out[t][j])
                /\ out[t][i][1] < out[t][j][1] => out[t][i][1] \in Full(t)
         /\ Orderly(t)' <=>
              \A i, j \in Counted(t)' : i < j =>
                /\ Precedes(out'[t][i], out'[t][j])
                /\ out'[t][i][1] < out'[t][j][1] => out'[t][i][1] \in Full(t)'
  BY DEF Orderly, Full, Complete, Precedes

(* What is known of a part that was sent. *)
LEMMA PartSent ==
  ASSUME Inv, NEW t \in Sessions, NEW i \in DOMAIN out[t]
  PROVE  /\ out[t][i] \in Nat \X (0..FileLength) /\ i \in Nat /\ i <= Len(out[t])
         /\ out[t][i][1] \in 1..handled[t] /\ out[t][i][1] \in DOMAIN asked[t] /\ out[t][i][2] \in 0..FileLength
         /\ handled[t] \in Nat /\ handled[t] <= Len(asked[t]) /\ asked[t] \in Seq(Kinds)
<1>1. /\ asked[t] \in Seq(Kinds) /\ out[t] \in Seq(Nat \X (0..FileLength)) /\ handled[t] \in Nat
      /\ handled[t] <= Len(asked[t])
  BY DEF Inv, TypeOK
<1>2. out[t][i] \in Nat \X (0..FileLength) /\ i \in Nat /\ i <= Len(out[t])
  BY <1>1
<1>3. out[t][i][1] \in 1..handled[t]
  BY DEF Inv, SessionInv, Sent
<1> QED
  BY <1>1, <1>2, <1>3, SMTT(30)

(* A step that sends nothing to a client keeps the order. *)
LEMMA OrderlyKept ==
  ASSUME Inv, TypeOK', [Next]_vars, NEW t \in Sessions, out'[t] = out[t]
  PROVE  Orderly(t)'
<1>1. patient' = patient /\ TypeOK /\ Orderly(t)
  BY Appends DEF Inv, RepliesInOrder
<1>2. /\ \A k \in DOMAIN asked[t] : asked'[t][k] = asked[t][k]
      /\ \A k \in Nat : k \in Full(t) => k \in Full(t)'
  BY <1>1, Grows
<1>3. \A i \in DOMAIN out[t] : out[t][i][1] \in DOMAIN asked[t] /\ out[t][i][1] \in Nat
  BY PartSent, SessionNumbers
<1>4. Counted(t)' \subseteq Counted(t)
  BY <1>1, <1>2, <1>3 DEF Counted
<1>5. \A i \in Counted(t) : i \in DOMAIN out[t]
  BY DEF Counted
<1> QED
  BY <1>1, <1>2, <1>3, <1>4, <1>5, OrderlyFull

(* A part that comes after all that was sent and counts. *)
After(t, p) ==
  \A i \in Counted(t) :
    Precedes(out[t][i], p) /\ (out[t][i][1] < p[1] => out[t][i][1] \in Full(t))

(* A step that sends what comes after the rest keeps the order. *)
LEMMA OrderlyMore ==
  ASSUME Inv, TypeOK', [Next]_vars, NEW t \in Sessions, NEW p \in Nat \X (0..FileLength),
         out'[t] = Append(out[t], p), asked'[t] = asked[t],
         patient[t] \/ asked[t][p[1]] # "list" => After(t, p)
  PROVE  Orderly(t)'
<1>1. patient' = patient /\ TypeOK /\ Orderly(t) /\ out[t] \in Seq(Nat \X (0..FileLength))
  BY Appends DEF Inv, RepliesInOrder, TypeOK
<1>2. \A k \in Nat : k \in Full(t) => k \in Full(t)'
  BY <1>1, Grows
<1>3. \A i \in DOMAIN out[t] : out[t][i][1] \in Nat /\ i \in Nat /\ i <= Len(out[t])
  BY PartSent, SessionNumbers
<1>4. /\ DOMAIN out'[t] = DOMAIN out[t] \cup {Len(out[t]) + 1} /\ Len(out[t]) \in Nat
      /\ \A i \in DOMAIN out[t] : out'[t][i] = out[t][i]
      /\ out'[t][Len(out[t]) + 1] = p
  BY <1>1, AppendLast, SMTT(30)
<1>5. \A i \in Counted(t)' : i \in Counted(t) \/ i = Len(out[t]) + 1
  BY <1>1, <1>4 DEF Counted
<1>6. \A i \in Counted(t) : i \in DOMAIN out[t]
  BY DEF Counted
<1>7. Len(out[t]) + 1 \in Counted(t)' => After(t, p)
  BY <1>1, <1>4 DEF Counted
<1> SUFFICES ASSUME NEW i \in Counted(t)', NEW j \in Counted(t)', i < j
             PROVE  /\ Precedes(out'[t][i], out'[t][j])
                    /\ out'[t][i][1] < out'[t][j][1] => out'[t][i][1] \in Full(t)'
  BY OrderlyFull
<1>8. i \in Counted(t)
  BY <1>3, <1>4, <1>5, <1>6
<1>9. CASE j \in Counted(t)
  <2>1. Precedes(out[t][i], out[t][j]) /\ (out[t][i][1] < out[t][j][1] => out[t][i][1] \in Full(t))
    BY <1>1, <1>8, <1>9, OrderlyFull
  <2> QED
    BY <1>2, <1>3, <1>4, <1>6, <1>8, <1>9, <2>1
<1>10. CASE j = Len(out[t]) + 1
  <2>1. Precedes(out[t][i], p) /\ (out[t][i][1] < p[1] => out[t][i][1] \in Full(t))
    BY <1>7, <1>8, <1>10 DEF After
  <2> QED
    BY <1>2, <1>3, <1>4, <1>6, <1>8, <1>10, <2>1
<1> QED
  BY <1>5, <1>9, <1>10

(* For a patient client what comes before the last request is answered. *)
LEMMA PatientFull ==
  ASSUME Inv, NEW t \in Sessions, patient[t], NEW k \in Nat \ {0}, NEW m \in Nat, k < m, m <= Len(asked[t])
  PROVE  k \in Full(t)
<1>1. Len(asked[t]) \in Nat
  BY DEF Inv, TypeOK
<1>2. k \in 1..Len(asked[t]) - 1
  BY <1>1
<1> QED
  BY <1>2 DEF Inv, SessionInv, Sending

(* The head of a reply comes after all that was sent before. *)
LEMMA HeadAfter ==
  ASSUME Inv, NEW t \in Sessions, control[t] \in {"list", "reply"}, patient[t] \/ asked[t][handled[t]] # "list",
         NEW p \in Nat \X (0..FileLength), p[1] = handled[t]
  PROVE  After(t, p)
<1> SUFFICES ASSUME NEW i \in Counted(t)
             PROVE  Precedes(out[t][i], p) /\ (out[t][i][1] < p[1] => out[t][i][1] \in Full(t))
  BY DEF After
<1>0. i \in DOMAIN out[t] /\ (patient[t] \/ asked[t][out[t][i][1]] # "list")
  BY DEF Counted
<1>1. Sent(t) /\ Serving(t) /\ Sending(t) /\ Present(t)
  BY DEF Inv, SessionInv
<1>2. /\ out[t][i][1] \in 1..handled[t] /\ handled[t] \in Nat /\ handled[t] <= Len(asked[t])
  BY <1>0, PartSent
<1>3. out[t][i][1] # handled[t]
  BY <1>0, <1>1 DEF Sent
<1>4. out[t][i][1] \in Nat \ {0} /\ out[t][i][1] < handled[t]
  BY <1>2, <1>3
<1>5. CASE patient[t]
  BY <1>2, <1>4, <1>5, PatientFull DEF Precedes
<1>6. CASE ~patient[t]
  <2>1. control[t] = "reply" /\ nested[t].of = handled[t] /\ t \in table
    BY <1>1, <1>6 DEF Sending, Serving, Present, Kind
  <2>2. out[t][i][1] \in Full(t)
    BY <1>0, <1>1, <1>3, <1>6, <2>1 DEF Sent
  <2> QED
    BY <1>4, <2>2 DEF Precedes
<1> QED
  BY <1>5, <1>6

(* The media of a file come after all that counts and was sent before: of a *)
(* request read later nothing was sent to a patient client.                 *)
LEMMA MediaAfter ==
  ASSUME Inv, NEW t \in Sessions, t \in table, nested[t].playing, nested[t].pos < FileLength,
         NEW p \in Nat \X (0..FileLength), p[1] = nested[t].of, p[2] = nested[t].pos + 1
  PROVE  After(t, p)
<1> SUFFICES ASSUME NEW i \in Counted(t)
             PROVE  Precedes(out[t][i], p) /\ (out[t][i][1] < p[1] => out[t][i][1] \in Full(t))
  BY DEF After
<1>0. i \in DOMAIN out[t] /\ (patient[t] \/ asked[t][out[t][i][1]] # "list")
  BY DEF Counted
<1>1. Sent(t) /\ Sending(t) /\ nested[t] \in Streamer
  BY DEF Inv, SessionInv, TypeOK
<1>2. /\ out[t][i][1] \in 1..handled[t] /\ handled[t] \in Nat /\ handled[t] <= Len(asked[t])
      /\ out[t][i][2] \in Nat
  BY <1>0, PartSent, SessionNumbers
<1>3. /\ nested[t].of \in 1..handled[t] /\ asked[t][nested[t].of] \in {"file", "stream"} /\ nested[t].pos \in Nat
  BY <1>1, SessionNumbers DEF Sending, Streamer
<1>4. CASE asked[t][out[t][i][1]] # "list"
  <2>1. /\ out[t][i][1] <= nested[t].of
        /\ out[t][i][1] = nested[t].of => out[t][i][2] <= nested[t].pos
        /\ out[t][i][1] # nested[t].of => out[t][i][1] \in Full(t)
    BY <1>0, <1>1, <1>2, <1>3, <1>4 DEF Sent
  <2> QED
    BY <1>2, <1>3, <2>1 DEF Precedes
<1>5. CASE asked[t][out[t][i][1]] = "list"
  <2>1. patient[t] /\ out[t][i][1] # nested[t].of
    BY <1>0, <1>3, <1>5
  <2>2. CASE out[t][i][1] < nested[t].of
    <3>1. out[t][i][1] \in Full(t)
      BY <1>2, <1>3, <2>1, <2>2, PatientFull
    <3> QED
      BY <1>2, <1>3, <2>2, <3>1 DEF Precedes
  <2>3. CASE nested[t].of < out[t][i][1]
    <3>1. nested[t].of \in Full(t)
      BY <1>2, <1>3, <2>1, <2>3, PatientFull
    <3>2. Whole(asked[t][nested[t].of]) = 0..FileLength
      BY <1>3 DEF Whole
    <3>3. <<nested[t].of, FileLength>> \in ToSet(out[t])
      BY <3>1, <3>2, SessionNumbers DEF Full, Complete
    <3>4. PICK j \in DOMAIN out[t] : out[t][j] = <<nested[t].of, FileLength>>
      BY <3>3 DEF ToSet
    <3>5. FileLength <= nested[t].pos
      BY <1>1, <1>3, <3>4 DEF Sent
    <3> QED
      BY <1>3, <3>5, SessionNumbers
  <2> QED
    BY <1>2, <1>3, <2>1, <2>2, <2>3
<1> QED
  BY <1>4, <1>5

(* The order of what is sent is kept. *)
LEMMA NextOrderly == Inv /\ TypeOK' /\ [Next]_vars => RepliesInOrder'
<1> SUFFICES ASSUME Inv, TypeOK', [Next]_vars, NEW t \in Sessions PROVE Orderly(t)'
  BY DEF RepliesInOrder
<1>1. TypeOK /\ out \in [Sessions -> Seq(Nat \X (0..FileLength))] /\ todo \subseteq table
      /\ handled \in [Sessions -> Nat] /\ nested[t] \in Streamer
  BY DEF Inv, TypeOK
<1>2. ASSUME NEW s \in Sessions, SendList(s) \/ Reply(s) PROVE Orderly(t)'
  <2>1. CASE s = t
    <3> DEFINE p == <<handled[t], 0>>
    <3>1. p \in Nat \X (0..FileLength) /\ p[1] = handled[t]
      BY <1>1, SessionNumbers
    <3>2. out'[t] = Append(out[t], p) /\ asked'[t] = asked[t] /\ control[t] \in {"list", "reply"}
      BY <1>1, <1>2, <2>1 DEF SendList, Reply, Sends, clients
    <3> HIDE DEF p
    <3>3. patient[t] \/ asked[t][p[1]] # "list" => After(t, p)
      BY <3>1, <3>2, HeadAfter
    <3> QED
      BY <3>1, <3>2, <3>3, OrderlyMore
  <2>2. CASE s # t
    <3>1. out'[t] = out[t]
      BY <1>1, <1>2, <2>2 DEF SendList, Reply, Sends
    <3> QED
      BY <3>1, OrderlyKept
  <2> QED
    BY <2>1, <2>2
<1>3. ASSUME NEW s \in Sessions, Stream(s) PROVE Orderly(t)'
  <2>1. CASE s = t
    <3> DEFINE p == <<nested[t].of, nested[t].pos + 1>>
    <3>1. nested[t].playing /\ nested[t].pos < FileLength /\ t \in table
      BY <1>1, <1>3, <2>1 DEF Stream, Streams, Locked, At
    <3>2. p \in Nat \X (0..FileLength) /\ p[1] = nested[t].of /\ p[2] = nested[t].pos + 1
      BY <1>1, <3>1, SessionNumbers DEF Streamer
    <3>3. out'[t] = Append(out[t], p) /\ asked'[t] = asked[t]
      BY <1>1, <1>3, <2>1 DEF Stream, Sends, clients
    <3> HIDE DEF p
    <3>4. After(t, p)
      BY <3>1, <3>2, MediaAfter
    <3> QED
      BY <3>2, <3>3, <3>4, OrderlyMore
  <2>2. CASE s # t
    <3>1. out'[t] = out[t]
      BY <1>1, <1>3, <2>2 DEF Stream, Sends
    <3> QED
      BY <3>1, OrderlyKept
  <2> QED
    BY <2>1, <2>2
<1>4. CASE out'[t] = out[t]
  BY <1>4, OrderlyKept
<1>5. ASSUME NEW s \in Sessions, Control(s), ~SendList(s), ~Reply(s) PROVE out' = out
  BY <1>5 DEF Control, Receive, ReceiveFails, Create, CreateFails, InitStreamer, Build, BuildFails,
              SendFails, Play, Interrupt, Fail
<1>6. ASSUME NEW s \in Sessions, Pass(s), ~Stream(s) PROVE out' = out
  BY <1>6 DEF Pass, Skip, Cancel, Delete, Destroy, Enter, Pause, RemoveStreamer, StreamFails, StreamEnds
<1>7. ASSUME NEW s \in Sessions, (\E kind \in Asks[s] : Ask(s, kind)) \/ Break(s) \/ Stall(s) PROVE out' = out
  BY <1>7 DEF Ask, Break, Stall
<1>8. ASSUME Accept \/ BeginPass \/ EndPass \/ Done \/ UNCHANGED vars PROVE out' = out
  BY <1>8 DEF Accept, BeginPass, EndPass, Done, vars
<1> QED
  BY <1>2, <1>3, <1>4, <1>5, <1>6, <1>7, <1>8 DEF Next

-----------------------------------------------------------------------------
(* The invariant holds at the start. *)
LEMMA InitInv == Init => Inv
<1> SUFFICES ASSUME Init PROVE Inv
  OBVIOUS
<1>1. TypeOK
  BY SessionNumbers, NoStreamerType DEF Init, TypeOK
<1>2. RepliesInOrder
  BY DEF Init, RepliesInOrder, Orderly, Counted
<1>3. ASSUME NEW s \in Sessions PROVE SessionInv(s)
  BY NoStreamerType DEF Init, SessionInv, Present, Serving, Sent, Sending, Full
<1> QED
  BY <1>1, <1>2, <1>3 DEF Inv

(* Every step keeps it, part by part. *)
LEMMA NextInv == Inv /\ [Next]_vars => Inv'
<1> SUFFICES ASSUME Inv, [Next]_vars PROVE Inv'
  OBVIOUS
<1>1. TypeOK'
  BY NextType DEF Inv
<1>2. RepliesInOrder'
  BY <1>1, NextOrderly
<1>3. ASSUME NEW t \in Sessions PROVE Present(t)' /\ Serving(t)' /\ Sent(t)' /\ Sending(t)'
  BY <1>1, NextPresent, NextServing, NextSent, NextSending
<1> QED
  BY <1>1, <1>2, <1>3 DEF Inv, SessionInv

(* It holds of every reachable state. *)
LEMMA AlwaysInv == Spec => []Inv
  BY InitInv, NextInv, PTL DEF Spec

(* The values every variable ranges over. *)
THEOREM TypeCorrect == Spec => []TypeOK
<1>1. Inv => TypeOK
  BY DEF Inv
<1> QED
  BY <1>1, AlwaysInv, PTL

(* The control thread and the pass are in sessions of the table only, and   *)
(* the streamer a session points to is the one in its table where either    *)
(* uses it (HTTPSession::receive_end(), onReplyGetVideo()).                 *)
THEOREM NeverDangles == Spec => []NothingDangles
<1>1. Inv => NothingDangles
  BY DEF Inv, TypeOK, SessionInv, Present, Serving, NothingDangles
<1> QED
  BY <1>1, AlwaysInv, PTL

(* Whole replies in the order of the requests, head before media, from two  *)
(* threads that share no lock when they send.                               *)
THEOREM AlwaysInOrder == Spec => []RepliesInOrder
<1>1. Inv => RepliesInOrder
  BY DEF Inv
<1> QED
  BY <1>1, AlwaysInv, PTL
=============================================================================

------------------------------ MODULE HTTPServer ------------------------------
(***************************************************************************)
(* A media server and its HTTP sessions: MediaServer, MediaSession,        *)
(* HTTPSession and the ProcessorManagers of server, sessions and streamers. *)
(* One thread, the server's, passes over the table of the sessions, and    *)
(* from inside over the table of each session, which holds at most one     *)
(* component: the streamer of the request that is served. A thread per     *)
(* session, its control thread, reads the requests, creates the streamers  *)
(* and sends the heads of the replies; the media is sent from inside the   *)
(* pass. A session that fails, in whichever thread, is only marked (end()); *)
(* a later pass joins its thread and deletes it.                           *)
(*                                                                         *)
(* A request is known by its number on the connection, and so is its       *)
(* streamer. Sessions are visited in the order of their names.             *)
(***************************************************************************)
EXTENDS Integers, Sequences, FiniteSets, SequencesExt

CONSTANTS
  Sessions,    \* the sessions there may be, numbers: iSession counts them
  Quota,       \* bound: the number of requests of each client
  Asks,        \* the kinds of request each client makes
  FileLength,  \* bound: the packets of a file
  Faults       \* bound: how many clients may break off or stop reading

Kinds == {"file", "stream", "list", "missing"}

ASSUME HTTPServerAssumption ==
  /\ IsFiniteSet(Sessions) /\ Sessions = 1..Cardinality(Sessions)
  /\ Quota \in [Sessions -> Nat] /\ Asks \in [Sessions -> SUBSET Kinds]
  /\ FileLength \in Nat /\ Faults \in Nat

VARIABLES
  (* the clients *)
  patient,      \* waits for each reply before it sends the next request
  asked,        \* the kinds of the requests sent
  broke,        \* has closed its socket
  stalled,      \* has stopped to read
  hasty,        \* has sent a request before the last streamer was removed
  out,          \* what was sent to the client: <<request, part>>
  (* the thread of the server *)
  arrived,      \* iSession
  table,        \* mProcessors of the server
  pass, todo,   \* where scheduleProcessors() is, the sessions ahead
  (* the sessions *)
  bStop, bSchedule, bClose,
  control,      \* where the control thread is
  handled,      \* the requests it has read
  interrupted,  \* cancelThreads() has interrupted it
  nested,       \* mProcessors of the session: its streamer, or NoStreamer
  pStreamer     \* the streamer the session points to, or 0

clients == <<patient, asked, broke, stalled, hasty>>
server == <<arrived, table, pass, todo>>
flags == <<bStop, bSchedule, bClose>>
threads == <<control, handled, interrupted>>
vars == <<clients, out, server, flags, threads, nested, pStreamer>>

Streamer == [of : Nat, playing : BOOLEAN, stopped : BOOLEAN, pos : 0..FileLength]
NoStreamer == [of |-> 0, playing |-> FALSE, stopped |-> FALSE, pos |-> 0]

Init ==
  /\ patient \in {p \in [Sessions -> BOOLEAN] : \A s \in Sessions : Quota[s] < 2 => p[s]}
  /\ asked = [s \in Sessions |-> <<>>] /\ out = [s \in Sessions |-> <<>>]
  /\ broke = [s \in Sessions |-> FALSE] /\ stalled = [s \in Sessions |-> FALSE] /\ hasty = [s \in Sessions |-> FALSE]
  /\ arrived = 0 /\ table = {} /\ pass = "idle" /\ todo = {}
  /\ bStop = [s \in Sessions |-> FALSE] /\ bSchedule = [s \in Sessions |-> FALSE] /\ bClose = [s \in Sessions |-> FALSE]
  /\ control = [s \in Sessions |-> "none"] /\ handled = [s \in Sessions |-> 0]
  /\ interrupted = [s \in Sessions |-> FALSE]
  /\ nested = [s \in Sessions |-> NoStreamer] /\ pStreamer = [s \in Sessions |-> 0]

-----------------------------------------------------------------------------
(* The clients. A "file" is sent with its length and the connection is kept *)
(* alive, a "stream" ends with the connection; a "list" is a small reply    *)
(* without a streamer; a "missing" file cannot be opened.                   *)

Whole(kind) ==
  CASE kind = "list" -> {0}
    [] kind \in {"file", "stream"} -> 0..FileLength
    [] kind = "missing" -> {-1}
Complete(s, k) == k \in DOMAIN asked[s] /\ \A i \in Whole(asked[s][k]) : <<k, i>> \in ToSet(out[s])
Answered(s) == \A k \in DOMAIN asked[s] : Complete(s, k)

Ask(s, kind) ==
  /\ s \in table /\ ~broke[s] /\ Len(asked[s]) < Quota[s] /\ "stream" \notin ToSet(asked[s])
  /\ patient[s] => Answered(s)
  /\ asked' = [asked EXCEPT ![s] = Append(@, kind)]
  /\ hasty' = [hasty EXCEPT ![s] = @ \/ nested[s] # NoStreamer \/ ~Answered(s)]
  /\ UNCHANGED <<patient, broke, stalled, out, server, flags, threads, nested, pStreamer>>

Troubled == {s \in Sessions : broke[s] \/ stalled[s]}
Break(s) ==
  /\ s \in table /\ ~broke[s] /\ Cardinality(Troubled) < Faults
  /\ broke' = [broke EXCEPT ![s] = TRUE]
  /\ UNCHANGED <<patient, asked, stalled, hasty, out, server, flags, threads, nested, pStreamer>>

Stall(s) ==
  /\ s \in table /\ ~broke[s] /\ ~stalled[s] /\ Cardinality(Troubled) < Faults
  /\ stalled' = [stalled EXCEPT ![s] = TRUE]
  /\ UNCHANGED <<patient, asked, broke, hasty, out, server, flags, threads, nested, pStreamer>>

(* sendSmart() waits as long as the client does not read, and throws when   *)
(* the socket is closed.                                                    *)
Sends(s, part) ==
  /\ ~stalled[s] /\ ~broke[s]
  /\ out' = [out EXCEPT ![s] = Append(@, part)]

-----------------------------------------------------------------------------
(* The control thread, requestHandler(). The lock of the session's table is *)
(* held by the pass while it is in the session. The pass is at the first of *)
(* the sessions it has not left yet.                                        *)

At(s) == s \in todo /\ \A u \in todo : s <= u
Locked(s) == pass = "session" /\ At(s)
Goto(s, label) == control' = [control EXCEPT ![s] = label] /\ UNCHANGED <<handled, interrupted>>
Kind(s) == asked[s][handled[s]]

(* Faulty variant of Culprit: the pass has moved on to the next session. *)
CulpritNext(s) == IF s + 1 \in Sessions THEN s + 1 ELSE s

(* handleError() of the server ends the session that made the error.        *)
Culprit(s) == s
Fail(s) ==
  /\ Goto(s, "failed")
  /\ bStop' = [bStop EXCEPT ![Culprit(s)] = TRUE]
  /\ UNCHANGED <<clients, out, server, bSchedule, bClose, nested, pStreamer>>

Receive(s) ==
  /\ control[s] = "receive" /\ handled[s] < Len(asked[s])
  /\ handled' = [handled EXCEPT ![s] = @ + 1]
  /\ control' = [control EXCEPT ![s] = IF asked[s][handled'[s]] = "list" THEN "list" ELSE "create"]
  /\ UNCHANGED <<clients, out, server, flags, interrupted, nested, pStreamer>>

ReceiveFails(s) == control[s] = "receive" /\ handled[s] = Len(asked[s]) /\ broke[s] /\ Fail(s)

SendList(s) ==
  /\ control[s] = "list" /\ Sends(s, <<handled[s], 0>>) /\ Goto(s, "receive")
  /\ UNCHANGED <<clients, server, flags, nested, pStreamer>>

(* createProcessorDynamic() puts the streamer in the table, and locks it    *)
(* again to connect and to initialise it. The name is always "streamer".    *)
Create(s) ==
  /\ control[s] = "create" /\ ~Locked(s) /\ nested[s] = NoStreamer
  /\ nested' = [nested EXCEPT ![s] = [NoStreamer EXCEPT !.of = handled[s]]]
  /\ Goto(s, "init")
  /\ UNCHANGED <<clients, out, server, flags, pStreamer>>

CreateFails(s) == control[s] = "create" /\ ~Locked(s) /\ nested[s] # NoStreamer /\ Fail(s)

InitStreamer(s) ==
  /\ control[s] = "init" /\ ~Locked(s)
  /\ pStreamer' = [pStreamer EXCEPT ![s] = handled[s]]
  /\ Goto(s, "build")
  /\ UNCHANGED <<clients, out, server, flags, nested>>

(* Faulty variant of Build: the streamer plays before the reply is sent. *)
BuildPlaying(s) ==
  /\ control[s] = "build" /\ Kind(s) # "missing"
  /\ nested' = [nested EXCEPT ![s].playing = TRUE]
  /\ Goto(s, "reply")
  /\ UNCHANGED <<clients, out, server, flags, pStreamer>>

(* createSource(), createBuffer(): the streamer's graph.                    *)
Build(s) ==
  /\ control[s] = "build" /\ Kind(s) # "missing"
  /\ Goto(s, "reply")
  /\ UNCHANGED <<clients, out, server, flags, nested, pStreamer>>

BuildFails(s) == control[s] = "build" /\ Kind(s) = "missing" /\ Fail(s)

Reply(s) ==
  /\ control[s] = "reply" /\ Sends(s, <<handled[s], 0>>) /\ Goto(s, "play")
  /\ bClose' = [bClose EXCEPT ![s] = @ \/ Kind(s) = "stream"]
  /\ UNCHANGED <<clients, server, bStop, bSchedule, nested, pStreamer>>

SendFails(s) == control[s] \in {"list", "reply"} /\ broke[s] /\ Fail(s)

Play(s) ==
  /\ control[s] = "play" /\ Goto(s, "receive")
  /\ nested' = [nested EXCEPT ![s].playing = TRUE]
  /\ bSchedule' = [bSchedule EXCEPT ![s] = TRUE]
  /\ UNCHANGED <<clients, out, server, bStop, bClose, pStreamer>>

(* An interruption takes effect where the thread sleeps.                    *)
Sleeps(s) ==
  \/ control[s] = "receive" /\ handled[s] = Len(asked[s]) /\ ~broke[s]
  \/ control[s] = "build"
  \/ control[s] \in {"list", "reply"} /\ stalled[s] /\ ~broke[s]
Interrupt(s) ==
  /\ interrupted[s] /\ Sleeps(s) /\ Goto(s, "gone")
  /\ UNCHANGED <<clients, out, server, flags, nested, pStreamer>>

-----------------------------------------------------------------------------
(* The pass of the server: new sessions, then scheduleProcessors().         *)

Accept ==
  LET s == arrived + 1 IN
  /\ pass = "idle" /\ s \in Sessions
  /\ arrived' = s /\ table' = table \cup {s}
  /\ Goto(s, "receive")
  /\ UNCHANGED <<clients, out, pass, todo, flags, nested, pStreamer>>

BeginPass ==
  /\ pass = "idle" /\ table # {}
  /\ pass' = "visit" /\ todo' = table
  /\ UNCHANGED <<clients, out, arrived, table, flags, threads, nested, pStreamer>>

Visits(s) == pass = "visit" /\ At(s)
Leave(s) == pass' = "visit" /\ todo' = todo \ {s} /\ UNCHANGED <<arrived, table>>

Skip(s) ==
  /\ Visits(s) /\ ~bStop[s] /\ ~bSchedule[s] /\ Leave(s)
  /\ UNCHANGED <<clients, out, flags, threads, nested, pStreamer>>

Cancel(s) ==
  /\ Visits(s) /\ bStop[s]
  /\ pass' = "join" /\ interrupted' = [interrupted EXCEPT ![s] = TRUE]
  /\ UNCHANGED <<clients, out, arrived, table, todo, flags, control, handled, nested, pStreamer>>

(* The destructor of the session closes the socket and deletes its table    *)
(* with all that is in it.                                                  *)
Destroy(s) ==
  /\ table' = table \ {s} /\ nested' = [nested EXCEPT ![s] = NoStreamer]
  /\ pass' = "visit" /\ todo' = todo \ {s}
  /\ UNCHANGED <<clients, out, arrived, flags, threads, pStreamer>>

(* Faulty variant of Delete: the control thread is not joined. *)
DeleteUnjoined(s) == pass = "join" /\ At(s) /\ Destroy(s)

Delete(s) == pass = "join" /\ At(s) /\ control[s] \in {"failed", "gone"} /\ Destroy(s)

Enter(s) ==
  /\ Visits(s) /\ ~bStop[s] /\ bSchedule[s]
  /\ pass' = "session"
  /\ UNCHANGED <<clients, out, arrived, table, todo, flags, threads, nested, pStreamer>>

EndPass ==
  /\ pass = "visit" /\ todo = {}
  /\ pass' = "idle"
  /\ UNCHANGED <<clients, out, arrived, table, todo, flags, threads, nested, pStreamer>>

-----------------------------------------------------------------------------
(* The pass over the table of a session: a streamer that has ended is       *)
(* deleted; one that plays sends a packet, or its end, to the session.      *)

Streams(s) == Locked(s) /\ nested[s].playing /\ ~nested[s].stopped

Pause(s) ==
  /\ Locked(s) /\ ~nested[s].playing /\ ~nested[s].stopped /\ Leave(s)
  /\ UNCHANGED <<clients, out, flags, threads, nested, pStreamer>>

RemoveStreamer(s) ==
  /\ Locked(s) /\ nested[s].stopped /\ Leave(s)
  /\ nested' = [nested EXCEPT ![s] = NoStreamer]
  /\ UNCHANGED <<clients, out, flags, threads, pStreamer>>

Stream(s) ==
  /\ Streams(s) /\ nested[s].pos < FileLength /\ Leave(s)
  /\ Sends(s, <<nested[s].of, nested[s].pos + 1>>)
  /\ nested' = [nested EXCEPT ![s].pos = @ + 1]
  /\ UNCHANGED <<clients, flags, threads, pStreamer>>

(* The exception ends the pass of the streamer; it is handed from manager   *)
(* to owner until the session ends itself.                                  *)
StreamFails(s) ==
  /\ Streams(s) /\ nested[s].pos < FileLength /\ broke[s] /\ Leave(s)
  /\ bStop' = [bStop EXCEPT ![s] = TRUE]
  /\ UNCHANGED <<clients, out, bSchedule, bClose, threads, nested, pStreamer>>

StreamEnds(s) ==
  /\ Streams(s) /\ nested[s].pos = FileLength /\ Leave(s)
  /\ nested' = [nested EXCEPT ![s].stopped = TRUE]
  /\ pStreamer' = [pStreamer EXCEPT ![s] = 0]
  /\ bStop' = [bStop EXCEPT ![s] = @ \/ bClose[s]]
  /\ UNCHANGED <<clients, out, bSchedule, bClose, threads>>

(* Nobody is connected, or the pass waits for a client that does not read.  *)
Done ==
  /\ \/ arrived = Cardinality(Sessions) /\ table = {} /\ pass = "idle"
     \/ \E s \in Sessions : Locked(s) /\ stalled[s] /\ ~broke[s]
  /\ UNCHANGED vars

Control(s) ==
  \/ Receive(s) \/ ReceiveFails(s) \/ SendList(s) \/ Create(s) \/ CreateFails(s) \/ InitStreamer(s)
  \/ Build(s) \/ BuildFails(s) \/ Reply(s) \/ SendFails(s) \/ Play(s) \/ Interrupt(s)
Pass(s) ==
  \/ Skip(s) \/ Cancel(s) \/ Delete(s) \/ Enter(s)
  \/ Pause(s) \/ RemoveStreamer(s) \/ Stream(s) \/ StreamFails(s) \/ StreamEnds(s)

Next ==
  \/ \E s \in Sessions : (\E kind \in Asks[s] : Ask(s, kind)) \/ Break(s) \/ Stall(s) \/ Control(s) \/ Pass(s)
  \/ Accept \/ BeginPass \/ EndPass
  \/ Done

Spec == Init /\ [][Next]_vars

(* The threads run; the lock that the pass takes again and again is granted *)
(* to the control thread in the end. Clients promise nothing.               *)
Fairness ==
  /\ WF_vars(BeginPass \/ EndPass \/ \E s \in Sessions : Pass(s))
  /\ \A s \in Sessions : SF_vars(Control(s))
FairSpec == Spec /\ Fairness

-----------------------------------------------------------------------------
(* The values every variable ranges over. *)
TypeOK ==
  /\ patient \in [Sessions -> BOOLEAN] /\ broke \in [Sessions -> BOOLEAN]
  /\ stalled \in [Sessions -> BOOLEAN] /\ hasty \in [Sessions -> BOOLEAN]
  /\ asked \in [Sessions -> Seq(Kinds)] /\ out \in [Sessions -> Seq(Nat \X (0..FileLength))]
  /\ arrived \in {0} \cup Sessions /\ table \subseteq 1..arrived /\ todo \subseteq table
  /\ pass \in {"idle", "visit", "join", "session"}
  /\ bStop \in [Sessions -> BOOLEAN] /\ bSchedule \in [Sessions -> BOOLEAN] /\ bClose \in [Sessions -> BOOLEAN]
  /\ control \in [Sessions -> {"none", "receive", "list", "create", "init", "build", "reply", "play", "failed", "gone"}]
  /\ interrupted \in [Sessions -> BOOLEAN]
  /\ handled \in [Sessions -> Nat] /\ pStreamer \in [Sessions -> Nat]
  /\ nested \in [Sessions -> Streamer]
  /\ \A s \in Sessions :
       handled[s] <= Len(asked[s]) /\ pStreamer[s] <= handled[s] /\ nested[s].of <= handled[s]

(* No thread uses what is deleted: the control thread and the pass are in   *)
(* sessions of the table only; the streamer the control thread builds and   *)
(* starts is the one in the table; and the streamer that ends is the one    *)
(* the session points to (receive_end() calls it), although the pointer is  *)
(* shared by both threads without a lock.                                   *)
NothingDangles ==
  /\ todo \subseteq table
  /\ \A s \in Sessions :
       /\ control[s] \notin {"none", "failed", "gone"} => s \in table
       /\ control[s] \in {"build", "reply", "play"} => nested[s].of = handled[s] /\ pStreamer[s] = handled[s]
       /\ nested[s].playing /\ ~nested[s].stopped => pStreamer[s] = nested[s].of

(* A connection carries whole replies in the order of the requests, head    *)
(* before media, although heads and media are sent by two threads without a *)
(* lock; for a client that does not wait, a list may come in between, never *)
(* another file.                                                            *)
Precedes(p, q) == p[1] < q[1] \/ (p[1] = q[1] /\ p[2] < q[2])
Counted(s) == {i \in DOMAIN out[s] : patient[s] \/ asked[s][out[s][i][1]] # "list"}
Orderly(s) ==
  \A i, j \in Counted(s) : i < j =>
    /\ Precedes(out[s][i], out[s][j])
    /\ out[s][i][1] < out[s][j][1] => Complete(s, out[s][i][1])
RepliesInOrder == \A s \in Sessions : Orderly(s)

(* Every request is answered in full or its session goes, and a session     *)
(* goes only for what its own client did: it broke off, asked for what is   *)
(* not there or for a stream, or sent a request before the streamer of the  *)
(* last one was removed. What other sessions do, fail or leave makes no     *)
(* difference - but for a client that stops to read, on which the pass of   *)
(* the whole server waits.                                                  *)
Excused(s) == broke[s] \/ hasty[s] \/ ToSet(asked[s]) \cap {"stream", "missing"} # {}
Served ==
  \A s \in Sessions : \A k \in 1..Quota[s] :
    Len(asked[s]) >= k ~> \/ Complete(s, k)
                          \/ s \notin table /\ Excused(s)
                          \/ \E c \in Sessions : stalled[c]
=============================================================================

----------------------------- MODULE RTMPTunnel -----------------------------
(***************************************************************************)
(* RTMP tunnelled over HTTP: the RTMPT-server and its RTMPTConnections.    *)
(* A connection stands for a socket between a session and its client: two  *)
(* buffers that the session's threads use from one side (send(), receive()) *)
(* and, from the other, the threads that handle HTTP requests, one per     *)
(* HTTP socket. A client opens a connection, is told its hash, and names   *)
(* the hash in the requests that carry its bytes, poll for output, and     *)
(* close. A connection is deleted by the side that is the last to end: the *)
(* session (endSession()) or the request that closes it.                   *)
(*                                                                         *)
(* A connection is known by the client that opened it: the name stands for *)
(* pointer and hash. The shutdown of the whole server is left out.         *)
(***************************************************************************)
EXTENDS Integers, Sequences, FiniteSets

CONSTANTS
  Clients,
  Threads,     \* handleNewSocket(): one thread per HTTP socket
  None,
  Garbled,     \* what is neither a hash nor the answer to "fcs"
  InSize,      \* the size of buffer_in
  OutSize,     \* the size of buffer_out
  Loads        \* what clients may want: see Init

ASSUME TunnelAssumption ==
  /\ InSize \in Nat \ {0} /\ OutSize \in Nat \ {0}
  /\ Loads \subseteq [users : SUBSET Clients, asks : SUBSET {"hail", "open", "send", "idle", "close"},
                    inputs : Nat, outputs : [Clients -> Nat], breaks : Nat]
  /\ None \notin Clients \cup Threads /\ Garbled \notin Clients \cup {None}

VARIABLES
  load,       \* the clients there are, what they ask for, the bytes each
              \* has to send and each session has to send, the requests
              \* that may be given up
  (* the clients *)
  client,     \* "new", "open", "failed", "closed"
  hash,       \* the hash the client was told, or None
  awaiting,   \* the thread whose reply the client waits for, or None
  sent,       \* the number of bytes sent so far
  got,        \* the output received: <<connection, byte>>
  misled,     \* the clients that were told the length of another reply
  breaks,     \* the number of requests given up
  (* the HTTP threads of the server *)
  pc, req, ptr,
  reply,      \* of the reply a thread sends: its size, and the length that
              \* its header told; 0 as long as there is none
  sResponse,  \* RTMPTServer::sResponse, shared by all of them
  length,     \* strlen(sResponse)
  mFields,    \* RTMPTServer::mFields, shared as well: the "Content-Length"
  (* the connections and sessions *)
  mUrl2Connection,  \* the hashes in the map, with None for a NULL entry
  conn,       \* the RTMPTConnection objects
  deletes,    \* how often each was deleted
  session,    \* "none", "running", "ended", "deferring", "dead"
  written,    \* the number of bytes the session has sent
  accepted,   \* the bytes that were put in buffer_in
  received,   \* the bytes the session has taken out of it
  (* history *)
  together,   \* pairs of clients whose answers were in sResponse, or the
              \* lengths of whose replies were in mFields, at once
  crossed     \* closed while endSession() was past its test

clientVars == <<load, client, hash, awaiting, sent, got, misled, breaks>>
http == <<reply, sResponse, length, mFields>>
threadVars == <<pc, req, ptr, http>>
connVars == <<mUrl2Connection, conn, deletes, session, written, accepted, received>>
history == <<together, crossed>>
vars == <<clientVars, threadVars, connVars, history>>

NoRequest == [mode |-> "none", from |-> None, hash |-> None, n |-> 0, first |-> 0]
NoReply == [size |-> 0, told |-> 0]
NewConnection ==
  [cells |-> [i \in 1..InSize |-> 0], current |-> 0, offset |-> 0, out |-> <<>>,
   external |-> FALSE, internal |-> FALSE]

Init ==
  /\ load \in Loads
  /\ client = [c \in Clients |-> "new"] /\ hash = [c \in Clients |-> None]
  /\ awaiting = [c \in Clients |-> None] /\ sent = [c \in Clients |-> 0]
  /\ got = [c \in Clients |-> <<>>] /\ misled = {} /\ breaks = 0
  /\ pc = [t \in Threads |-> "idle"] /\ req = [t \in Threads |-> NoRequest]
  /\ ptr = [t \in Threads |-> None] /\ reply = [t \in Threads |-> NoReply]
  /\ sResponse = Garbled /\ length = 0 /\ mFields = 0
  /\ mUrl2Connection = [h \in {} |-> None]
  /\ conn = [c \in Clients |-> NewConnection] /\ deletes = [c \in Clients |-> 0]
  /\ session = [c \in Clients |-> "none"] /\ written = [c \in Clients |-> 0]
  /\ accepted = [c \in Clients |-> <<>>] /\ received = [c \in Clients |-> <<>>]
  /\ together = {} /\ crossed = [c \in Clients |-> FALSE]

-----------------------------------------------------------------------------
(* A client sends one request at a time, on a socket where no reply is      *)
(* awaited; it may give up on one, because its HTTP socket broke, and go on *)
(* with the next on another socket.                                         *)

Request(t, c, mode, n) ==
  /\ mode \in load.asks /\ awaiting[c] = None /\ pc[t] = "idle" /\ \A d \in Clients : awaiting[d] # t
  /\ pc' = [pc EXCEPT ![t] = "parse"]
  /\ req' = [req EXCEPT ![t] = [mode |-> mode, from |-> c, hash |-> hash[c], n |-> n, first |-> sent[c] + 1]]
  /\ awaiting' = [awaiting EXCEPT ![c] = t]
  /\ sent' = [sent EXCEPT ![c] = @ + n]
  /\ UNCHANGED <<load, client, hash, got, misled, breaks, ptr, http, connVars, history>>

Ask(t, c) ==
  \/ client[c] = "new" /\ Request(t, c, "hail", 0)
  \/ client[c] = "new" /\ Request(t, c, "open", 0)
  \/ client[c] = "open" /\ \E n \in 1..2 : sent[c] + n <= load.inputs /\ Request(t, c, "send", n)
  \/ client[c] = "open" /\ Request(t, c, "idle", 0)
  \/ client[c] \in {"open", "failed"} /\ hash[c] # None /\ Request(t, c, "close", 0)

GiveUp(c) ==
  /\ awaiting[c] # None /\ breaks < load.breaks /\ client[c] \in {"open", "failed"}
  /\ awaiting' = [awaiting EXCEPT ![c] = None]
  /\ breaks' = breaks + 1
  /\ UNCHANGED <<load, client, hash, sent, got, misled, threadVars, connVars, history>>

(* The reply of t reaches the client that still waits for it; the answer    *)
(* is the new state of the client, its hash, and the output it is sent. A   *)
(* client believes the header: it takes no more than the length it was told *)
(* (what is left makes it take another socket), and goes on waiting when    *)
(* that is more than what comes.                                            *)
Waits(t) == awaiting[req[t].from] = t
Headed(t, output) == IF reply[t].told <= Len(output) THEN SubSeq(output, 1, reply[t].told - 1) ELSE output
Answer(t, state, h, output) ==
  LET c == req[t].from IN
  IF Waits(t)
  THEN /\ misled' = IF reply[t].told = reply[t].size THEN misled ELSE misled \cup {c}
       /\ IF reply[t].told > reply[t].size
          THEN UNCHANGED <<client, hash, got, awaiting>>
          ELSE /\ client' = [client EXCEPT ![c] = state] /\ hash' = [hash EXCEPT ![c] = h]
               /\ got' = [got EXCEPT ![c] = @ \o Headed(t, output)] /\ awaiting' = [awaiting EXCEPT ![c] = None]
       /\ UNCHANGED <<load, sent, breaks>>
  ELSE UNCHANGED clientVars

(* A handler that returns -1 closes the HTTP socket.                        *)
Refuse(t) ==
  /\ Answer(t, IF req[t].mode = "close" THEN "closed" ELSE "failed", hash[req[t].from], <<>>)
  /\ pc' = [pc EXCEPT ![t] = "idle"] /\ req' = [req EXCEPT ![t] = NoRequest] /\ ptr' = [ptr EXCEPT ![t] = None]

-----------------------------------------------------------------------------
(* analyzeUrl(): the map is searched under oLocalMutex, the connection is   *)
(* used after the lock is released.                                         *)

Goto(t, label, p) == pc' = [pc EXCEPT ![t] = label] /\ ptr' = [ptr EXCEPT ![t] = p] /\ UNCHANGED req
Parses(t, modes) == pc[t] = "parse" /\ req[t].mode \in modes

(* The clients whose answers are in sResponse and not yet sent.             *)
Answering == {req[t].from : t \in {u \in Threads : pc[u] \in {"hail", "open", "close"}}}

(* Faulty variant of Respond: the answer is put behind the last one. *)
RespondAppended(t, answer, n) ==
  /\ sResponse' = IF sResponse \in Clients THEN Garbled ELSE answer
  /\ length' = n
  /\ together' = together \cup {{req[t].from, c} : c \in Answering}

Respond(t, answer, n) ==
  /\ sResponse' = answer /\ length' = n
  /\ together' = together \cup {{req[t].from, c} : c \in Answering}

HailSize == 9    \* "127.0.0.1"
HashSize == 17   \* a hash and a newline

Hail(t) ==
  /\ Parses(t, {"hail"}) /\ Goto(t, "hail", None) /\ Respond(t, Garbled, HailSize)
  /\ UNCHANGED <<clientVars, reply, mFields, connVars, crossed>>

Open(t) ==
  LET c == req[t].from IN
  /\ Parses(t, {"open"}) /\ Goto(t, "open", c) /\ Respond(t, c, HashSize)
  /\ mUrl2Connection' = [h \in DOMAIN mUrl2Connection \cup {c} |-> IF h = c THEN c ELSE mUrl2Connection[h]]
  /\ session' = [session EXCEPT ![c] = "running"]
  /\ UNCHANGED <<clientVars, reply, mFields, conn, deletes, written, accepted, received, crossed>>

Known(h) == h \in DOMAIN mUrl2Connection /\ mUrl2Connection[h] # None
Without(h) == [x \in DOMAIN mUrl2Connection \ {h} |-> mUrl2Connection[x]]

Find(t) ==
  /\ Parses(t, {"send", "idle"}) /\ Known(req[t].hash)
  /\ Goto(t, "lock", mUrl2Connection[req[t].hash])
  /\ UNCHANGED <<clientVars, http, connVars, history>>

NotFound(t) ==
  /\ Parses(t, {"send", "idle"}) /\ ~Known(req[t].hash) /\ Refuse(t)
  /\ mUrl2Connection' = Without(req[t].hash)
  /\ UNCHANGED <<http, conn, deletes, session, written, accepted, received, history>>

FindClose(t) ==
  /\ Parses(t, {"close"}) /\ Known(req[t].hash)
  /\ Goto(t, "close", mUrl2Connection[req[t].hash]) /\ Respond(t, Garbled, length)
  /\ mUrl2Connection' = Without(req[t].hash)
  /\ UNCHANGED <<clientVars, reply, mFields, conn, deletes, session, written, accepted, received, crossed>>

(* The lookup has inserted a NULL entry, which stays.                       *)
NotFoundClose(t) ==
  /\ Parses(t, {"close"}) /\ ~Known(req[t].hash) /\ Refuse(t)
  /\ mUrl2Connection' = [h \in DOMAIN mUrl2Connection \cup {req[t].hash} |->
                           IF Known(h) THEN mUrl2Connection[h] ELSE None]
  /\ UNCHANGED <<http, conn, deletes, session, written, accepted, received, history>>

-----------------------------------------------------------------------------
(* parseHTTPRequest(), after the search. sendReply() never fails: it does   *)
(* not look at what the sockets return, so the tests of its result are dead. *)

Deleted(c) == deletes[c] > 0
Locked(c) == \E t \in Threads : pc[t] \in {"reply", "notify"} /\ ptr[t] = c
Reach(t, label) == pc[t] = label /\ ~Deleted(ptr[t])
Finish(t) ==
  pc' = [pc EXCEPT ![t] = "idle"] /\ req' = [req EXCEPT ![t] = NoRequest] /\ ptr' = [ptr EXCEPT ![t] = None]

(* HTTPConnection::send(): the length of the reply is put in mFields, the   *)
(* header is made of what is there then, and the body follows; mFields is   *)
(* one for all threads, and without a lock. (Two threads that change the    *)
(* table at the same moment may damage it; that is left out.)               *)
Size(t) ==
  CASE pc[t] \in {"hail", "open"} -> length [] pc[t] = "close" -> 1
    [] pc[t] = "reply" -> 1 + Len(conn[ptr[t]].out)
Heading == {t \in Threads : reply[t].size # 0 /\ reply[t].told = 0}

SetLength(t) ==
  /\ pc[t] \in {"hail", "open", "close"} \/ Reach(t, "reply")
  /\ reply[t].size = 0
  /\ reply' = [reply EXCEPT ![t].size = Size(t)] /\ mFields' = Size(t)
  /\ together' = together \cup {{req[t].from, req[u].from} : u \in Heading}
  /\ UNCHANGED <<clientVars, pc, req, ptr, sResponse, length, connVars, crossed>>

SendHeader(t) ==
  /\ t \in Heading
  /\ reply' = [reply EXCEPT ![t].told = mFields]
  /\ UNCHANGED <<clientVars, pc, req, ptr, sResponse, length, mFields, connVars, history>>

(* Past its reply, a request is known by its connection only.               *)
Replied(t, label, p) ==
  pc' = [pc EXCEPT ![t] = label] /\ req' = [req EXCEPT ![t] = NoRequest] /\ ptr' = [ptr EXCEPT ![t] = p]
Sent(t) == reply' = [reply EXCEPT ![t] = NoReply] /\ UNCHANGED <<sResponse, length, mFields>>
Sends(t, label) == pc[t] = label /\ reply[t].told # 0

ReplyHail(t) ==
  /\ Sends(t, "hail") /\ Answer(t, "new", None, <<>>) /\ Finish(t) /\ Sent(t)
  /\ UNCHANGED <<connVars, history>>

(* A hash is told when nothing of it is cut.                                *)
ReplyOpen(t) ==
  LET whole == reply[t].size = HashSize /\ reply[t].told = HashSize IN
  /\ Sends(t, "open") /\ Answer(t, "open", IF whole THEN sResponse ELSE Garbled, <<>>)
  /\ Replied(t, "test", ptr[t]) /\ Sent(t)
  /\ UNCHANGED <<connVars, history>>

ReplyClose(t) ==
  /\ Sends(t, "close") /\ Answer(t, "closed", hash[req[t].from], <<>>)
  /\ Replied(t, "flag", ptr[t]) /\ Sent(t)
  /\ UNCHANGED <<connVars, history>>

(* SEND: what the session has not read yet is moved to the front, the bytes *)
(* are put behind it; they are refused when they do not fit.                *)
Unread(k) == k.offset - k.current

(* Faulty variant of Shifted: the bytes stay where they are. *)
ShiftedNoMove(k) == [k EXCEPT !.offset = Unread(k), !.current = 0]

Shifted(k) ==
  [k EXCEPT !.cells = [i \in 1..InSize |-> IF i <= Unread(k) THEN k.cells[k.current + i] ELSE k.cells[i]],
            !.offset = Unread(k), !.current = 0]

Stored(k, n, first) ==
  [k EXCEPT !.cells = [i \in 1..InSize |-> IF i \in k.offset + 1..k.offset + n
                                           THEN first + i - k.offset - 1 ELSE k.cells[i]],
            !.offset = @ + n]

Send(t) ==
  LET c == ptr[t]
      k == Shifted(conn[c])
      n == req[t].n
  IN  /\ Reach(t, "lock") /\ ~Locked(c) /\ req[t].mode = "send" /\ k.offset + n <= InSize
      /\ conn' = [conn EXCEPT ![c] = Stored(k, n, req[t].first)]
      /\ accepted' = [accepted EXCEPT ![c] = @ \o [i \in 1..n |-> req[t].first + i - 1]]
      /\ Goto(t, "reply", c)
      /\ UNCHANGED <<clientVars, http, mUrl2Connection, deletes, session, written, received, history>>

SendOverflow(t) ==
  LET c == ptr[t]
      k == Shifted(conn[c])
  IN  /\ Reach(t, "lock") /\ ~Locked(c) /\ req[t].mode = "send" /\ k.offset + req[t].n > InSize
      /\ conn' = [conn EXCEPT ![c] = k]
      /\ Refuse(t)
      /\ UNCHANGED <<http, mUrl2Connection, deletes, session, written, accepted, received, history>>

Idle(t) ==
  /\ Reach(t, "lock") /\ ~Locked(ptr[t]) /\ req[t].mode = "idle"
  /\ Goto(t, "reply", ptr[t])
  /\ UNCHANGED <<clientVars, http, connVars, history>>

(* The output that is waiting is the reply, and buffer_out is emptied,      *)
(* whether the reply has reached the client or not; then oMutex is released. *)
Emptied(k) == [k EXCEPT !.out = <<>>]
Reply(t) ==
  LET c == ptr[t] IN
  /\ Sends(t, "reply") /\ ~Deleted(c)
  /\ Answer(t, "open", hash[req[t].from], [i \in DOMAIN conn[c].out |-> <<c, conn[c].out[i]>>])
  /\ conn' = [conn EXCEPT ![c] = Emptied(@)]
  /\ Replied(t, "test", c) /\ Sent(t)
  /\ UNCHANGED <<mUrl2Connection, deletes, session, written, accepted, received, history>>

(* The flag, then the signal and the release of oMutex: endSession() takes  *)
(* no lock, and may delete the connection in between.                       *)
FlagClose(t) ==
  LET c == ptr[t] IN
  /\ Reach(t, "flag") /\ ~Locked(c)
  /\ conn' = [conn EXCEPT ![c].external = TRUE]
  /\ crossed' = [crossed EXCEPT ![c] = @ \/ session[c] = "deferring"]
  /\ Goto(t, "notify", c)
  /\ UNCHANGED <<clientVars, http, mUrl2Connection, deletes, session, written, accepted, received, together>>

Notify(t) ==
  /\ Reach(t, "notify") /\ Goto(t, "test", ptr[t])
  /\ UNCHANGED <<clientVars, http, connVars, history>>

(* Faulty variant of BothEnded: one flag is enough. *)
BothEndedEither(k) == k.internal \/ k.external

(* Every request ends with a test of both flags, without a lock.            *)
BothEnded(k) == k.internal /\ k.external
Test(t) ==
  /\ Reach(t, "test")
  /\ IF BothEnded(conn[ptr[t]]) THEN Goto(t, "kill", ptr[t]) ELSE Finish(t)
  /\ UNCHANGED <<clientVars, http, connVars, history>>

Kill(t) ==
  LET c == ptr[t] IN
  /\ Reach(t, "kill") /\ Finish(t)
  /\ mUrl2Connection' = Without(c)
  /\ deletes' = [deletes EXCEPT ![c] = @ + 1]
  /\ UNCHANGED <<clientVars, http, conn, session, written, accepted, received, history>>

(* A thread that reaches for a deleted connection goes no further.          *)
Dangling(t) == pc[t] \in {"lock", "reply", "flag", "notify", "test", "kill"} /\ Deleted(ptr[t])
Fault(t) ==
  /\ Dangling(t) /\ Replied(t, "fault", None) /\ Sent(t)
  /\ UNCHANGED <<clientVars, connVars, history>>

-----------------------------------------------------------------------------
(* The session: RTMPTConnection::send() and receive(), in the session's own *)
(* threads; the end of the session and its destructor, in the server's.     *)

Ended(k) == k.external \/ k.internal
SessionVars(c) == session[c] = "running" /\ ~Locked(c)
End(c) == session' = [session EXCEPT ![c] = "ended"] /\ UNCHANGED <<conn, written, received>>

SessionReceive(c) ==
  LET k == conn[c] IN
  /\ SessionVars(c)
  /\ \/ Ended(k) /\ End(c)
     \/ /\ ~Ended(k) /\ Unread(k) > 0
        /\ \E size \in 1..2 :
             LET n == IF size < Unread(k) THEN size ELSE Unread(k) IN
             /\ received' = [received EXCEPT ![c] = @ \o SubSeq(k.cells, k.current + 1, k.current + n)]
             /\ conn' = [conn EXCEPT ![c].current = @ + n]
        /\ UNCHANGED <<session, written>>
  /\ UNCHANGED <<clientVars, threadVars, mUrl2Connection, deletes, accepted, history>>

SessionSend(c) ==
  LET k == conn[c] IN
  /\ SessionVars(c) /\ written[c] < load.outputs[c]
  /\ \/ (Ended(k) \/ Len(k.out) + 1 > OutSize) /\ End(c)
     \/ /\ ~Ended(k) /\ Len(k.out) + 1 <= OutSize
        /\ conn' = [conn EXCEPT ![c].out = Append(@, written[c] + 1)]
        /\ written' = [written EXCEPT ![c] = @ + 1]
        /\ UNCHANGED <<session, received>>
  /\ UNCHANGED <<clientVars, threadVars, mUrl2Connection, deletes, accepted, history>>

(* Any other reason a session has to end: an error, or a failing streamer.  *)
SessionFails(c) ==
  /\ session[c] = "running" /\ End(c)
  /\ UNCHANGED <<clientVars, threadVars, mUrl2Connection, deletes, accepted, history>>

(* endSession(), from the destructor of the session: no lock is taken.      *)
EndSessionDelete(c) ==
  /\ session[c] = "ended" /\ conn[c].external
  /\ deletes' = [deletes EXCEPT ![c] = @ + 1]
  /\ session' = [session EXCEPT ![c] = "dead"]
  /\ UNCHANGED <<clientVars, threadVars, mUrl2Connection, conn, written, accepted, received, history>>

EndSessionDefer(c) ==
  /\ session[c] = "ended" /\ ~conn[c].external
  /\ session' = [session EXCEPT ![c] = "deferring"]
  /\ UNCHANGED <<clientVars, threadVars, mUrl2Connection, conn, deletes, written, accepted, received, history>>

(* Faulty variant of EndSessionFlag: the flag is not set. *)
EndSessionFlagLost(c) ==
  /\ session[c] = "deferring"
  /\ session' = [session EXCEPT ![c] = "dead"]
  /\ UNCHANGED <<clientVars, threadVars, mUrl2Connection, conn, deletes, written, accepted, received, history>>

EndSessionFlag(c) ==
  /\ session[c] = "deferring"
  /\ conn' = [conn EXCEPT ![c].internal = TRUE]
  /\ session' = [session EXCEPT ![c] = "dead"]
  /\ UNCHANGED <<clientVars, threadVars, mUrl2Connection, deletes, written, accepted, received, history>>

-----------------------------------------------------------------------------
Done ==
  /\ \A t \in Threads : pc[t] \in {"idle", "fault"}
  /\ UNCHANGED vars

Handle(t) ==
  \/ Hail(t) \/ Open(t) \/ Find(t) \/ NotFound(t) \/ FindClose(t) \/ NotFoundClose(t)
  \/ SetLength(t) \/ SendHeader(t) \/ ReplyHail(t) \/ ReplyOpen(t) \/ ReplyClose(t)
  \/ Send(t) \/ SendOverflow(t) \/ Idle(t) \/ Reply(t) \/ FlagClose(t) \/ Notify(t) \/ Test(t) \/ Kill(t) \/ Fault(t)
EndSession(c) == EndSessionDelete(c) \/ EndSessionDefer(c) \/ EndSessionFlag(c)

Next ==
  \/ \E t \in Threads : \/ \E c \in load.users : Ask(t, c)
                        \/ Handle(t)
  \/ \E c \in Clients : \/ GiveUp(c)
                        \/ SessionReceive(c) \/ SessionSend(c) \/ SessionFails(c) \/ EndSession(c)
  \/ Done

Spec == Init /\ [][Next]_vars

(* The threads run, a session polls its connection, and the server destroys *)
(* the sessions that have ended; what clients do is up to them.             *)
Fairness ==
  /\ \A t \in Threads : WF_vars(Handle(t))
  /\ \A c \in Clients : WF_vars(SessionReceive(c)) /\ WF_vars(EndSession(c))
FairSpec == Spec /\ Fairness

-----------------------------------------------------------------------------
(* What a thread remembers of its request, and of the connection it found,  *)
(* at each point of parseHTTPRequest().                                     *)
Fits(label, r, p) ==
  /\ label \in {"idle", "flag", "notify", "test", "kill", "fault"} <=> r.from = None
  /\ label \in {"idle", "fault"} => p = None
  /\ label \in {"open", "close", "lock", "reply", "flag", "notify", "test", "kill"} => p # None
  /\ label = "parse" => r.mode # "none"
  /\ label \in {"hail", "open", "close"} => r.mode = label
  /\ label = "open" => p = r.from
  /\ label \in {"lock", "reply"} => r.mode \in {"send", "idle"}

Hashes == Clients \cup {None, Garbled}
Labels == {"idle", "parse", "hail", "open", "close", "lock", "reply", "flag", "notify", "test", "kill", "fault"}
Replying == {"hail", "open", "close", "reply"}
Requests == [mode : {"none", "hail", "open", "send", "idle", "close"},
             from : Clients \cup {None}, hash : Hashes, n : Nat, first : Nat]
Connections == [cells : [1..InSize -> Nat], current : Nat, offset : 0..InSize, out : Seq(Nat),
                external : BOOLEAN, internal : BOOLEAN]

(* Types; the two positions of buffer_in are in order and within it, and a  *)
(* thread holds the pointer its next step uses.                             *)
TypeOK ==
  /\ load \in Loads /\ breaks \in Nat
  /\ client \in [Clients -> {"new", "open", "failed", "closed"}]
  /\ hash \in [Clients -> Hashes] /\ awaiting \in [Clients -> Threads \cup {None}]
  /\ sent \in [Clients -> Nat] /\ got \in [Clients -> Seq(Clients \X Nat)] /\ misled \subseteq Clients
  /\ pc \in [Threads -> Labels] /\ req \in [Threads -> Requests]
  /\ ptr \in [Threads -> Clients \cup {None}] /\ sResponse \in Clients \cup {Garbled}
  /\ reply \in [Threads -> [size : Nat, told : Nat]] /\ length \in Nat /\ mFields \in Nat
  /\ \A t \in Threads : Fits(pc[t], req[t], ptr[t]) /\ (pc[t] \notin Replying => reply[t] = NoReply)
  /\ DOMAIN mUrl2Connection \subseteq Hashes
  /\ mUrl2Connection \in [DOMAIN mUrl2Connection -> Clients \cup {None}]
  /\ conn \in [Clients -> Connections] /\ \A c \in Clients : conn[c].current <= conn[c].offset
  /\ deletes \in [Clients -> Nat] /\ session \in [Clients -> {"none", "running", "ended", "deferring", "dead"}]
  /\ written \in [Clients -> Nat]
  /\ accepted \in [Clients -> Seq(Nat)] /\ received \in [Clients -> Seq(Nat)]
  /\ together \subseteq SUBSET Clients /\ crossed \in [Clients -> BOOLEAN]

-----------------------------------------------------------------------------
NobodyGaveUp == breaks = 0
Unmixed == \A c \in Clients : hash[c] \in {None, c}

(* The threads that work on the connection of c.                            *)
At(c, labels) == {t \in Threads : ptr[t] = c /\ pc[t] \in labels}

(* The tunnel is a pair of byte streams, through the shifts of buffer_in    *)
(* and the batches of the replies: the session has received all that was    *)
(* accepted but the bytes still unread, in order, and a client that was     *)
(* told the right lengths has got all that the session has sent but what is *)
(* still in buffer_out.                                                     *)
BytesInOrder ==
  \A c \in Clients :
    LET k == conn[c] IN
    /\ received[c] \o SubSeq(k.cells, k.current + 1, k.offset) = accepted[c]
    /\ NobodyGaveUp /\ Unmixed =>
         /\ \A i \in DOMAIN accepted[c] : accepted[c][i] = i
         /\ c \notin misled => Len(got[c]) + Len(k.out) = written[c] /\ \A i \in DOMAIN got[c] : got[c][i] = <<c, i>>

(* A client that sends one request at a time: when its connection is        *)
(* deleted, its session is gone, its hash unknown, and no request is about  *)
(* to use its buffers or to set its flag. What can still reach for it is    *)
(* the end of requests that were answered: the signal and the unlock after  *)
(* the flag of a close was set, and the tests without a lock (two of them   *)
(* may both find that they have to delete it).                              *)
OnlyTheEndDangles ==
  NobodyGaveUp /\ Unmixed =>
    \A c \in Clients : Deleted(c) =>
      /\ deletes[c] = 1 /\ session[c] = "dead"
      /\ At(c, {"lock", "reply", "flag"}) = {} /\ Cardinality(At(c, {"notify"})) <= 1
      /\ c \notin DOMAIN mUrl2Connection

(* Two clients are told the same hash, a client one that is none, or the    *)
(* length of another reply, only if their answers were in the shared        *)
(* sResponse, or the lengths of their replies in the shared mFields, at     *)
(* once. Who gave up on a request can meet its own earlier reply.           *)
MixedOnlyTogether ==
  \A c \in Clients :
    /\ hash[c] \notin {None, c} => \E d \in Clients \ {c} : {c, d} \in together
    /\ c \in misled => \E d \in Clients : {c, d} \in together /\ (NobodyGaveUp => d # c)

(* A connection that was closed is deleted in the end, by the session or by *)
(* the request, unless they pass each other: each tests the other's flag    *)
(* before it is set.                                                        *)
Reclaimed == \A c \in Clients : conn[c].external ~> (Deleted(c) \/ crossed[c])
=============================================================================

-------------------------- MODULE RTMPTunnelProofs --------------------------
(***************************************************************************)
(* Theorems about the tunnel, for any number of clients and HTTP threads   *)
(* and any size of the buffers: its types, the way hashes are mixed up,    *)
(* what may still reach for a deleted connection, and the order of the     *)
(* bytes.                                                                  *)
(***************************************************************************)
EXTENDS RTMPTunnel, TLAPS, SequenceTheorems, FiniteSetTheorems

-----------------------------------------------------------------------------
(* The parts of TypeOK, by the actors that change them.                     *)
ClientTypes ==
  /\ client \in [Clients -> {"new", "open", "failed", "closed"}]
  /\ hash \in [Clients -> Hashes] /\ awaiting \in [Clients -> Threads \cup {None}]
  /\ sent \in [Clients -> Nat] /\ got \in [Clients -> Seq(Clients \X Nat)] /\ misled \subseteq Clients
ThreadTypes ==
  /\ pc \in [Threads -> Labels] /\ req \in [Threads -> Requests] /\ ptr \in [Threads -> Clients \cup {None}]
  /\ \A t \in Threads : Fits(pc[t], req[t], ptr[t])
MapTypes ==
  /\ DOMAIN mUrl2Connection \subseteq Hashes
  /\ mUrl2Connection \in [DOMAIN mUrl2Connection -> Clients \cup {None}]
BufferTypes == conn \in [Clients -> Connections] /\ \A c \in Clients : conn[c].current <= conn[c].offset
SessionTypes ==
  /\ deletes \in [Clients -> Nat] /\ session \in [Clients -> {"none", "running", "ended", "deferring", "dead"}]
  /\ written \in [Clients -> Nat]
  /\ accepted \in [Clients -> Seq(Nat)] /\ received \in [Clients -> Seq(Nat)]
OtherTypes ==
  /\ load \in Loads /\ breaks \in Nat /\ sResponse \in Clients \cup {Garbled}
  /\ together \subseteq SUBSET Clients /\ crossed \in [Clients -> BOOLEAN]

HttpTypes ==
  /\ reply \in [Threads -> [size : Nat, told : Nat]] /\ length \in Nat /\ mFields \in Nat
  /\ \A t \in Threads : pc[t] \notin Replying => reply[t] = NoReply
MostTypes == ClientTypes /\ ThreadTypes /\ MapTypes /\ BufferTypes /\ SessionTypes /\ OtherTypes

(* TypeOK is made of these parts.                                           *)
LEMMA Parts ==
  TypeOK <=> /\ ClientTypes /\ ThreadTypes /\ MapTypes /\ BufferTypes /\ SessionTypes /\ OtherTypes
             /\ HttpTypes
BY DEF TypeOK, ClientTypes, ThreadTypes, MapTypes, BufferTypes, SessionTypes, OtherTypes, HttpTypes

(* A thread that goes on to a label with what fits it keeps the types.      *)
LEMMA Step ==
  ASSUME ThreadTypes, NEW t \in Threads, NEW l \in Labels, NEW r \in Requests, NEW p \in Clients \cup {None},
         Fits(l, r, p), pc' = [pc EXCEPT ![t] = l], req' = [req EXCEPT ![t] = r], ptr' = [ptr EXCEPT ![t] = p]
  PROVE  ThreadTypes'
<1>1. /\ pc' \in [Threads -> Labels] /\ req' \in [Threads -> Requests] /\ ptr' \in [Threads -> Clients \cup {None}]
  BY DEF ThreadTypes
<1>2. ASSUME NEW u \in Threads PROVE Fits(pc'[u], req'[u], ptr'[u])
  <2>1. CASE u = t
    <3>1. pc'[u] = l /\ req'[u] = r /\ ptr'[u] = p
      BY <2>1 DEF ThreadTypes
    <3> QED BY <3>1
  <2>2. CASE u # t
    <3>1. pc'[u] = pc[u] /\ req'[u] = req[u] /\ ptr'[u] = ptr[u]
      BY <2>2 DEF ThreadTypes
    <3> QED BY <3>1 DEF ThreadTypes
  <2> QED BY <2>1, <2>2
<1> QED BY <1>1, <1>2 DEF ThreadTypes

(* What TypeOK says of a single thread.                                     *)
LEMMA ThreadFacts ==
  ASSUME ThreadTypes, NEW t \in Threads
  PROVE  /\ pc[t] \in Labels /\ req[t] \in Requests /\ ptr[t] \in Clients \cup {None}
         /\ req[t].from \in Clients \cup {None} /\ req[t].hash \in Hashes
         /\ req[t].n \in Nat /\ req[t].first \in Nat
         /\ req[t].mode \in {"none", "hail", "open", "send", "idle", "close"}
         /\ req[t].from = None <=> pc[t] \in {"idle", "flag", "notify", "test", "kill", "fault"}
         /\ pc[t] \in {"open", "close", "lock", "reply", "flag", "notify", "test", "kill"} => ptr[t] \in Clients
         /\ pc[t] = "parse" => req[t].mode # "none"
         /\ pc[t] \in {"hail", "open", "close"} => req[t].mode = pc[t]
         /\ pc[t] = "open" => ptr[t] = req[t].from
         /\ pc[t] \in {"lock", "reply"} => req[t].mode \in {"send", "idle"}
<1>1. pc[t] \in Labels /\ req[t] \in Requests /\ ptr[t] \in Clients \cup {None} /\ Fits(pc[t], req[t], ptr[t])
  BY DEF ThreadTypes
<1> QED BY <1>1 DEF Requests, Fits

(* The three ways to go on: with the request, past it, and back to idle.    *)
LEMMA GotoKeeps ==
  ASSUME ThreadTypes, NEW t \in Threads, NEW l \in Labels, NEW p \in Clients \cup {None},
         Fits(l, req[t], p), Goto(t, l, p)
  PROVE  ThreadTypes'
<1>1. req' = [req EXCEPT ![t] = req[t]] /\ req[t] \in Requests
  BY DEF Goto, ThreadTypes
<1> QED BY <1>1, Step DEF Goto

(* Past its reply, a thread knows its connection only.                      *)
LEMMA RepliedKeeps ==
  ASSUME ThreadTypes, NEW t \in Threads, NEW l \in Labels, NEW p \in Clients \cup {None},
         Fits(l, NoRequest, p), Replied(t, l, p)
  PROVE  ThreadTypes'
<1>1. NoRequest \in Requests
  BY DEF NoRequest, Requests, Hashes
<1> QED BY <1>1, Step DEF Replied

(* A thread that is done is idle.                                           *)
LEMMA FinishKeeps ==
  ASSUME ThreadTypes, NEW t \in Threads, Finish(t)
  PROVE  ThreadTypes'
<1>1. NoRequest \in Requests
  BY DEF NoRequest, Requests, Hashes
<1>2. Fits("idle", NoRequest, None)
  BY DEF Fits, NoRequest
<1> QED BY <1>1, <1>2, Step DEF Finish, Labels

(* An answer reaches the client that waits for it, unless it was told a     *)
(* length that is more than what comes.                                     *)
Arrives(t) == Waits(t) /\ ~(reply[t].told > reply[t].size)

(* What the client makes of it.                                             *)
LEMMA AnswerCases ==
  ASSUME NEW t, NEW st, NEW h, NEW o, Answer(t, st, h, o)
  PROVE  LET c == req[t].from IN
         /\ UNCHANGED <<load, sent, breaks>>
         /\ misled' = IF Waits(t) /\ reply[t].told # reply[t].size THEN misled \cup {c} ELSE misled
         /\ Arrives(t) =>
              /\ client' = [client EXCEPT ![c] = st] /\ hash' = [hash EXCEPT ![c] = h]
              /\ got' = [got EXCEPT ![c] = @ \o Headed(t, o)] /\ awaiting' = [awaiting EXCEPT ![c] = None]
         /\ ~Arrives(t) => UNCHANGED <<client, hash, got, awaiting>>
<1>1. CASE ~Waits(t)
  BY <1>1 DEF Answer, Arrives, clientVars
<1>2. CASE Waits(t) /\ reply[t].told > reply[t].size
  BY <1>2 DEF Answer, Arrives
<1>3. CASE Waits(t) /\ ~(reply[t].told > reply[t].size)
  BY <1>3 DEF Answer, Arrives
<1> QED BY <1>1, <1>2, <1>3

(* What a client takes of the output is output.                             *)
LEMMA HeadedSeq ==
  ASSUME HttpTypes, NEW t \in Threads, NEW S, NEW o \in Seq(S)
  PROVE  /\ Headed(t, o) \in Seq(S)
         /\ o = <<>> => Headed(t, o) = <<>>
         /\ reply[t].told = 1 + Len(o) => Headed(t, o) = o
<1>1. reply[t].told \in Nat /\ Len(o) \in Nat
  BY DEF HttpTypes
<1>2. SUFFICES ASSUME NEW k \in Nat, k = reply[t].told
               PROVE  LET r == IF k <= Len(o) THEN SubSeq(o, 1, k - 1) ELSE o IN
                      /\ r \in Seq(S) /\ (o = <<>> => r = <<>>) /\ (k = 1 + Len(o) => r = o)
  BY <1>1 DEF Headed
<1>3. CASE k <= Len(o)
  <2>1. \A i \in 1..k - 1 : o[i] \in S
    <3>1. \A i \in 1..k - 1 : i \in 1..Len(o)
      BY <1>1, <1>3
    <3> QED BY <3>1, ElementOfSeq
  <2>2. 1 \in Int /\ k - 1 \in Int
    OBVIOUS
  <2>3. SubSeq(o, 1, k - 1) \in Seq(S)
    BY ONLY <2>1, <2>2, SubSeqProperties
  <2>4. o = <<>> => SubSeq(o, 1, k - 1) = <<>>
    <3>1. o = <<>> => k - 1 < 1
      BY <1>3
    <3> QED BY ONLY <3>1, <2>2, SubSeqEmpty
  <2> QED BY <1>1, <1>3, <2>3, <2>4
<1>4. CASE ~(k <= Len(o))
  BY <1>4
<1> QED BY <1>3, <1>4

(* An answer keeps the types of the clients.                                *)
LEMMA AnswerKeeps ==
  ASSUME ClientTypes, ThreadTypes, HttpTypes, NEW t \in Threads, req[t].from # None,
         NEW st \in {"new", "open", "failed", "closed"},
         NEW h \in Hashes, NEW o \in Seq(Clients \X Nat), Answer(t, st, h, o)
  PROVE  ClientTypes' /\ load' = load /\ breaks' = breaks
<1> DEFINE c == req[t].from
           x == Headed(t, o)
<1>1. c \in Clients
  BY ThreadFacts
<1>2. x \in Seq(Clients \X Nat)
  BY HeadedSeq
<1>3. /\ UNCHANGED <<load, sent, breaks>> /\ (misled' = misled \/ misled' = misled \cup {c})
      /\ \/ /\ client' = [client EXCEPT ![c] = st] /\ hash' = [hash EXCEPT ![c] = h]
            /\ got' = [got EXCEPT ![c] = @ \o x] /\ awaiting' = [awaiting EXCEPT ![c] = None]
         \/ UNCHANGED <<client, hash, got, awaiting>>
  BY AnswerCases
<1> HIDE DEF c, x
<1>4. got[c] \o x \in Seq(Clients \X Nat)
  BY <1>1, <1>2 DEF ClientTypes
<1>5. misled' \subseteq Clients /\ sent' \in [Clients -> Nat]
  BY <1>1, <1>3 DEF ClientTypes
<1>6. CASE UNCHANGED <<client, hash, got, awaiting>>
  BY <1>3, <1>5, <1>6 DEF ClientTypes
<1>7. CASE /\ client' = [client EXCEPT ![c] = st] /\ hash' = [hash EXCEPT ![c] = h]
           /\ got' = [got EXCEPT ![c] = @ \o x] /\ awaiting' = [awaiting EXCEPT ![c] = None]
  BY <1>1, <1>3, <1>4, <1>5, <1>7 DEF ClientTypes
<1> QED BY <1>3, <1>6, <1>7

-----------------------------------------------------------------------------
(* Buffers: what a connection is, and what SEND makes of it.                *)
LEMMA Buffer ==
  ASSUME BufferTypes, NEW c \in Clients
  PROVE  /\ conn[c] \in Connections /\ conn[c].cells \in [1..InSize -> Nat]
         /\ conn[c].current \in Nat /\ conn[c].offset \in Nat /\ conn[c].out \in Seq(Nat)
         /\ conn[c].current <= conn[c].offset /\ conn[c].offset <= InSize
         /\ conn[c].external \in BOOLEAN /\ conn[c].internal \in BOOLEAN
<1>1. conn[c] \in Connections /\ conn[c].current <= conn[c].offset /\ InSize \in Nat
  BY TunnelAssumption DEF BufferTypes
<1> QED BY <1>1 DEF Connections

(* A buffer replaced by one with its positions in order keeps the types.    *)
LEMMA BufferKept ==
  ASSUME BufferTypes, NEW c \in Clients, NEW k \in Connections, k.current <= k.offset,
         conn' = [conn EXCEPT ![c] = k]
  PROVE  BufferTypes'
<1>1. conn' \in [Clients -> Connections]
  BY DEF BufferTypes
<1>2. ASSUME NEW d \in Clients PROVE conn'[d].current <= conn'[d].offset
  <2>1. CASE d = c
    BY <2>1 DEF BufferTypes
  <2>2. CASE d # c
    BY <2>2 DEF BufferTypes
  <2> QED BY <2>1, <2>2
<1> QED BY <1>1, <1>2 DEF BufferTypes

(* A shift moves what is unread to the front.                               *)
LEMMA ShiftedFits ==
  ASSUME NEW k \in Connections, k.current <= k.offset
  PROVE  /\ Shifted(k) \in Connections /\ Shifted(k).current = 0
         /\ Shifted(k).offset = k.offset - k.current /\ Shifted(k).out = k.out
         /\ Shifted(k).external = k.external /\ Shifted(k).internal = k.internal
         /\ Shifted(k).cells = [i \in 1..InSize |-> IF i <= Unread(k) THEN k.cells[k.current + i] ELSE k.cells[i]]
<1> DEFINE cs == [i \in 1..InSize |-> IF i <= Unread(k) THEN k.cells[k.current + i] ELSE k.cells[i]]
<1>1. /\ InSize \in Nat /\ k.cells \in [1..InSize -> Nat] /\ k.current \in Nat /\ k.offset \in 0..InSize
      /\ k.out \in Seq(Nat) /\ k.external \in BOOLEAN /\ k.internal \in BOOLEAN
  BY TunnelAssumption DEF Connections
<1>2. Unread(k) = k.offset - k.current /\ Unread(k) \in 0..InSize
  BY <1>1 DEF Unread
<1>3. cs \in [1..InSize -> Nat]
  <2>1. ASSUME NEW i \in 1..InSize
        PROVE  (IF i <= Unread(k) THEN k.cells[k.current + i] ELSE k.cells[i]) \in Nat
    <3>1. i \in Nat /\ k.cells[i] \in Nat
      BY <1>1
    <3>2. i <= Unread(k) => k.current + i \in 1..InSize
      BY <1>1, <1>2, <3>1, SMTT(30)
    <3> QED BY <1>1, <3>1, <3>2
  <2> QED BY <2>1
<1>4. Shifted(k) = [k EXCEPT !.cells = cs, !.offset = Unread(k), !.current = 0]
  BY DEF Shifted
<1> HIDE DEF cs
<1> DEFINE new == [cells |-> cs, current |-> 0, offset |-> Unread(k), out |-> k.out,
                    external |-> k.external, internal |-> k.internal]
<1>5. Shifted(k) = new
  BY <1>4 DEF Connections
<1>6. new \in Connections
  BY <1>1, <1>2, <1>3 DEF Connections
<1>7. /\ Shifted(k) \in Connections /\ Shifted(k).current = 0 /\ Shifted(k).offset = Unread(k)
      /\ Shifted(k).out = k.out /\ Shifted(k).external = k.external /\ Shifted(k).internal = k.internal
      /\ Shifted(k).cells = cs
  BY <1>5, <1>6
<1> QED BY <1>2, <1>7 DEF cs

(* The bytes of a SEND are put behind it, if they fit.                      *)
LEMMA StoredFits ==
  ASSUME NEW k \in Connections, k.current = 0, NEW n \in Nat, NEW first \in Nat,
         k.offset + n <= InSize
  PROVE  /\ Stored(k, n, first) \in Connections /\ Stored(k, n, first).current = 0
         /\ Stored(k, n, first).offset = k.offset + n /\ Stored(k, n, first).out = k.out
         /\ Stored(k, n, first).external = k.external /\ Stored(k, n, first).internal = k.internal
         /\ Stored(k, n, first).cells =
              [i \in 1..InSize |-> IF i \in k.offset + 1..k.offset + n THEN first + i - k.offset - 1 ELSE k.cells[i]]
<1> DEFINE cs == [i \in 1..InSize |-> IF i \in k.offset + 1..k.offset + n
                                      THEN first + i - k.offset - 1 ELSE k.cells[i]]
<1>1. /\ InSize \in Nat /\ k.cells \in [1..InSize -> Nat] /\ k.current \in Nat /\ k.offset \in 0..InSize
      /\ k.out \in Seq(Nat) /\ k.external \in BOOLEAN /\ k.internal \in BOOLEAN
  BY TunnelAssumption DEF Connections
<1>2. cs \in [1..InSize -> Nat]
  <2>1. ASSUME NEW i \in 1..InSize
        PROVE  (IF i \in k.offset + 1..k.offset + n THEN first + i - k.offset - 1 ELSE k.cells[i]) \in Nat
    <3>1. i \in Nat /\ k.cells[i] \in Nat
      BY <1>1
    <3>2. i \in k.offset + 1..k.offset + n => first + i - k.offset - 1 \in Nat
      BY <1>1, <3>1, SMTT(30)
    <3> QED BY <3>1, <3>2
  <2> QED BY <2>1
<1>3. Stored(k, n, first) = [k EXCEPT !.cells = cs, !.offset = k.offset + n]
  BY DEF Stored
<1> HIDE DEF cs
<1>4. k.offset + n \in 0..InSize
  BY <1>1
<1>5. /\ Stored(k, n, first) \in Connections /\ Stored(k, n, first).current = 0
      /\ Stored(k, n, first).offset = k.offset + n
      /\ Stored(k, n, first).out = k.out /\ Stored(k, n, first).external = k.external
      /\ Stored(k, n, first).internal = k.internal /\ Stored(k, n, first).cells = cs
  BY <1>1, <1>2, <1>3, <1>4 DEF Connections
<1> QED BY <1>5 DEF cs

-----------------------------------------------------------------------------
(* TypeOK is inductive: first the requests of the clients.                  *)
LEMMA AskTypes ==
  ASSUME TypeOK, NEW t \in Threads, NEW c \in load.users, Ask(t, c)
  PROVE  MostTypes'
<1>1. /\ ClientTypes /\ ThreadTypes /\ MapTypes /\ BufferTypes /\ SessionTypes /\ OtherTypes
      /\ HttpTypes
  BY Parts
<1>2. c \in Clients
  BY <1>1, TunnelAssumption DEF OtherTypes
<1>3. PICK m \in {"hail", "open", "send", "idle", "close"}, n \in 0..2 : Request(t, c, m, n)
  BY DEF Ask
<1> DEFINE r == [mode |-> m, from |-> c, hash |-> hash[c], n |-> n, first |-> sent[c] + 1]
<1>4. r \in Requests /\ Fits("parse", r, ptr[t])
  <2>1. hash[c] \in Hashes /\ sent[c] + 1 \in Nat /\ n \in Nat /\ c # None
    BY <1>1, <1>2, TunnelAssumption DEF ClientTypes
  <2>2. r \in Requests
    BY <1>2, <2>1 DEF Requests
  <2>3. Fits("parse", r, ptr[t])
    BY <2>1 DEF Fits
  <2> QED BY <2>2, <2>3
<1>5. ThreadTypes'
  <2>1. pc' = [pc EXCEPT ![t] = "parse"] /\ req' = [req EXCEPT ![t] = r] /\ ptr' = ptr
    BY <1>3 DEF Request
  <2>2. ptr[t] \in Clients \cup {None} /\ ptr' = [ptr EXCEPT ![t] = ptr[t]]
    BY <1>1, <2>1 DEF ThreadTypes
  <2> HIDE DEF r
  <2> QED BY <1>1, <1>4, <2>1, <2>2, Step DEF Labels
<1>6. ClientTypes'
  <2>1. /\ awaiting' = [awaiting EXCEPT ![c] = t] /\ sent' = [sent EXCEPT ![c] = @ + n]
        /\ UNCHANGED <<client, hash, got, misled>>
    BY <1>3 DEF Request
  <2> QED BY <1>1, <1>2, <2>1 DEF ClientTypes
<1>7. UNCHANGED <<load, breaks, sResponse, connVars, history>>
  BY <1>3 DEF Request, http
<1>8. MapTypes' /\ BufferTypes' /\ SessionTypes' /\ OtherTypes'
  BY <1>1, <1>7 DEF MapTypes, BufferTypes, SessionTypes, OtherTypes, connVars, history
<1>9. (ClientTypes /\ ThreadTypes /\ MapTypes /\ BufferTypes /\ SessionTypes /\ OtherTypes)'
  BY <1>5, <1>6, <1>8
<1> QED BY <1>9 DEF MostTypes

(* What a step leaves alone keeps its types.                                *)
LEMMA Unchanged ==
  /\ ClientTypes /\ UNCHANGED <<client, hash, awaiting, sent, got, misled>> => ClientTypes'
  /\ ThreadTypes /\ UNCHANGED <<pc, req, ptr>> => ThreadTypes'
  /\ MapTypes /\ UNCHANGED mUrl2Connection => MapTypes'
  /\ BufferTypes /\ UNCHANGED conn => BufferTypes'
  /\ SessionTypes /\ UNCHANGED <<deletes, session, written, accepted, received>> => SessionTypes'
  /\ OtherTypes /\ UNCHANGED <<load, breaks, sResponse, together, crossed>> => OtherTypes'
<1>1. ClientTypes /\ UNCHANGED <<client, hash, awaiting, sent, got, misled>> => ClientTypes'
  BY DEF ClientTypes
<1>2. ThreadTypes /\ UNCHANGED <<pc, req, ptr>> => ThreadTypes'
  BY DEF ThreadTypes
<1>3. MapTypes /\ UNCHANGED mUrl2Connection => MapTypes'
  BY DEF MapTypes
<1>4. BufferTypes /\ UNCHANGED conn => BufferTypes'
  BY DEF BufferTypes
<1>5. SessionTypes /\ UNCHANGED <<deletes, session, written, accepted, received>> => SessionTypes'
  BY DEF SessionTypes
<1>6. OtherTypes /\ UNCHANGED <<load, breaks, sResponse, together, crossed>> => OtherTypes'
  BY DEF OtherTypes
<1> QED BY <1>1, <1>2, <1>3, <1>4, <1>5, <1>6

(* A request that is refused is answered, and its thread idle.              *)
LEMMA RefuseTypes ==
  ASSUME ClientTypes, ThreadTypes, HttpTypes, NEW t \in Threads, req[t].from # None, Refuse(t)
  PROVE  ClientTypes' /\ ThreadTypes' /\ load' = load /\ breaks' = breaks
<1>1. req[t].from \in Clients
  BY ThreadFacts
<1>2. hash[req[t].from] \in Hashes /\ <<>> \in Seq(Clients \X Nat)
  BY <1>1 DEF ClientTypes
<1>3. Finish(t)
  BY DEF Refuse, Finish
<1>4. PICK st \in {"closed", "failed"} : Answer(t, st, hash[req[t].from], <<>>)
  BY DEF Refuse
<1>5. st \in {"new", "open", "failed", "closed"}
  OBVIOUS
<1>6. ClientTypes' /\ load' = load /\ breaks' = breaks
  BY ONLY ClientTypes, ThreadTypes, HttpTypes, t \in Threads, req[t].from # None, <1>2, <1>4, <1>5,
     AnswerKeeps
<1> QED BY <1>3, <1>6, FinishKeeps

(* Without an entry, the map has the others.                                *)
LEMMA MapWithout ==
  ASSUME MapTypes, NEW h, mUrl2Connection' = Without(h)
  PROVE  /\ MapTypes' /\ DOMAIN mUrl2Connection' = DOMAIN mUrl2Connection \ {h}
         /\ \A x \in DOMAIN mUrl2Connection' : mUrl2Connection'[x] = mUrl2Connection[x]
BY DEF MapTypes, Without

(* The steps of parseHTTPRequest() that put an answer in sResponse.         *)
LEMMA AnswerTypes ==
  ASSUME TypeOK, NEW t \in Threads, Hail(t) \/ Open(t) \/ FindClose(t)
  PROVE  MostTypes'
<1>1. /\ ClientTypes /\ ThreadTypes /\ MapTypes /\ BufferTypes /\ SessionTypes /\ OtherTypes
      /\ HttpTypes
  BY Parts
<1>2. /\ Garbled \in Clients \cup {Garbled} /\ req[t].from \in Clients \cup {None}
      /\ pc[t] = "parse" => req[t].from \in Clients
      /\ \A u \in Threads : pc[u] \in {"hail", "open", "close"} => req[u].from \in Clients
  BY <1>1, ThreadFacts
<1>3. ASSUME NEW a \in Clients \cup {Garbled}, NEW n, Respond(t, a, n), pc[t] = "parse", UNCHANGED <<load, breaks, crossed>>
      PROVE  OtherTypes'
  <2>1. Answering \subseteq Clients
    BY <1>2 DEF Answering
  <2>2. together' \subseteq SUBSET Clients
    BY <1>1, <1>2, <1>3, <2>1 DEF OtherTypes, Respond
  <2> QED BY <1>1, <1>3, <2>2 DEF OtherTypes, Respond
<1>4. CASE Hail(t)
  <2>1. /\ pc[t] = "parse" /\ req[t].mode = "hail" /\ Goto(t, "hail", None) /\ Respond(t, Garbled, HailSize)
        /\ UNCHANGED <<clientVars, connVars, crossed>>
    BY <1>4 DEF Hail, Parses
  <2>2. Fits("hail", req[t], None)
    BY <1>2, <2>1, TunnelAssumption DEF Fits
  <2>3. ThreadTypes'
    BY <1>1, <2>1, <2>2, GotoKeeps DEF Labels
  <2>4. OtherTypes'
    BY <1>2, <1>3, <2>1 DEF clientVars
  <2>5. ClientTypes' /\ MapTypes' /\ BufferTypes' /\ SessionTypes'
    BY <1>1, <2>1, Unchanged DEF clientVars, connVars
  <2>6. (ClientTypes /\ ThreadTypes /\ MapTypes /\ BufferTypes /\ SessionTypes /\ OtherTypes)'
    BY <2>3, <2>4, <2>5
  <2> QED BY <2>6 DEF MostTypes
<1>5. CASE Open(t)
  <2> DEFINE c == req[t].from
  <2>1. /\ pc[t] = "parse" /\ req[t].mode = "open" /\ Goto(t, "open", c) /\ Respond(t, c, HashSize)
        /\ mUrl2Connection' = [h \in DOMAIN mUrl2Connection \cup {c} |-> IF h = c THEN c ELSE mUrl2Connection[h]]
        /\ session' = [session EXCEPT ![c] = "running"]
        /\ UNCHANGED <<clientVars, conn, deletes, written, accepted, received, crossed>>
    BY <1>5 DEF Open, Parses
  <2>2. c \in Clients /\ c # None /\ c \in Hashes
    BY <1>2, <2>1, TunnelAssumption DEF Hashes
  <2>3. Fits("open", req[t], c)
    BY <2>1, <2>2 DEF Fits
  <2>4. ThreadTypes'
    BY <1>1, <2>1, <2>2, <2>3, GotoKeeps DEF Labels
  <2>5. OtherTypes'
    BY <1>3, <2>1, <2>2 DEF clientVars
  <2> HIDE DEF c
  <2>6. MapTypes'
    BY <1>1, <2>1, <2>2 DEF MapTypes
  <2>7. SessionTypes'
    BY <1>1, <2>1 DEF SessionTypes
  <2>8. ClientTypes' /\ BufferTypes'
    BY <1>1, <2>1, Unchanged DEF clientVars
  <2>9. (ClientTypes /\ ThreadTypes /\ MapTypes /\ BufferTypes /\ SessionTypes /\ OtherTypes)'
    BY <2>4, <2>5, <2>6, <2>7, <2>8
  <2> QED BY <2>9 DEF MostTypes
<1>6. CASE FindClose(t)
  <2> DEFINE p == mUrl2Connection[req[t].hash]
  <2>1. /\ pc[t] = "parse" /\ req[t].mode = "close" /\ Known(req[t].hash) /\ Goto(t, "close", p)
        /\ Respond(t, Garbled, length) /\ mUrl2Connection' = Without(req[t].hash)
        /\ UNCHANGED <<clientVars, conn, deletes, session, written, accepted, received, crossed>>
    BY <1>6 DEF FindClose, Parses
  <2>2. p \in Clients /\ p # None
    BY <1>1, <2>1, TunnelAssumption DEF Known, MapTypes
  <2>3. req[t].from # None
    BY <1>2, <2>1, TunnelAssumption
  <2> HIDE DEF p
  <2>4. Fits("close", req[t], p)
    BY <2>1, <2>2, <2>3 DEF Fits
  <2>5. ThreadTypes'
    BY <1>1, <2>1, <2>2, <2>4, GotoKeeps DEF Labels
  <2>6. OtherTypes'
    BY <1>2, <1>3, <2>1 DEF clientVars
  <2>7. MapTypes'
    BY <1>1, <2>1, MapWithout
  <2>8. ClientTypes' /\ BufferTypes' /\ SessionTypes'
    BY <1>1, <2>1, Unchanged DEF clientVars
  <2>9. (ClientTypes /\ ThreadTypes /\ MapTypes /\ BufferTypes /\ SessionTypes /\ OtherTypes)'
    BY <2>5, <2>6, <2>7, <2>8
  <2> QED BY <2>9 DEF MostTypes
<1> QED BY <1>4, <1>5, <1>6

(* The searches that put no answer in sResponse.                            *)
LEMMA SearchTypes ==
  ASSUME TypeOK, NEW t \in Threads, Find(t) \/ NotFound(t) \/ NotFoundClose(t)
  PROVE  MostTypes'
<1>1. /\ ClientTypes /\ ThreadTypes /\ MapTypes /\ BufferTypes /\ SessionTypes /\ OtherTypes
      /\ HttpTypes
  BY Parts
<1> DEFINE h == req[t].hash
<1>2. pc[t] = "parse" /\ req[t].from # None /\ h \in Hashes
  BY <1>1, ThreadFacts DEF Find, NotFound, NotFoundClose, Parses
<1>3. CASE Find(t)
  <2> DEFINE p == mUrl2Connection[h]
  <2>1. /\ req[t].mode \in {"send", "idle"} /\ Known(h) /\ Goto(t, "lock", p)
        /\ UNCHANGED <<clientVars, http, connVars, history>>
    BY <1>3 DEF Find, Parses
  <2>2. p \in Clients /\ p # None
    BY <1>1, <2>1, TunnelAssumption DEF Known, MapTypes
  <2> HIDE DEF p
  <2>3. Fits("lock", req[t], p)
    BY <1>2, <2>1, <2>2 DEF Fits
  <2>4. ThreadTypes'
    BY <1>1, <2>1, <2>2, <2>3, GotoKeeps DEF Labels
  <2>5. ClientTypes' /\ MapTypes' /\ BufferTypes' /\ SessionTypes' /\ OtherTypes'
    BY <1>1, <2>1, Unchanged DEF clientVars, http, connVars, history
  <2>6. (ClientTypes /\ ThreadTypes /\ MapTypes /\ BufferTypes /\ SessionTypes /\ OtherTypes)'
    BY <2>4, <2>5
  <2> QED BY <2>6 DEF MostTypes
<1>4. CASE NotFound(t)
  <2>1. /\ Refuse(t) /\ mUrl2Connection' = Without(h)
        /\ UNCHANGED <<http, conn, deletes, session, written, accepted, received, history>>
    BY <1>4 DEF NotFound
  <2>2. ClientTypes' /\ ThreadTypes' /\ load' = load /\ breaks' = breaks
    BY <1>1, <1>2, <2>1, RefuseTypes
  <2>3. MapTypes'
    BY <1>1, <2>1, MapWithout
  <2>4. BufferTypes' /\ SessionTypes' /\ OtherTypes'
    BY <1>1, <2>1, <2>2, Unchanged DEF http, history
  <2>5. (ClientTypes /\ ThreadTypes /\ MapTypes /\ BufferTypes /\ SessionTypes /\ OtherTypes)'
    BY <2>2, <2>3, <2>4
  <2> QED BY <2>5 DEF MostTypes
<1>5. CASE NotFoundClose(t)
  <2> HIDE DEF h
  <2>1. /\ Refuse(t)
        /\ mUrl2Connection' = [x \in DOMAIN mUrl2Connection \cup {h} |->
                                  IF Known(x) THEN mUrl2Connection[x] ELSE None]
        /\ UNCHANGED <<http, conn, deletes, session, written, accepted, received, history>>
    BY <1>5 DEF NotFoundClose, h
  <2>2. ClientTypes' /\ ThreadTypes' /\ load' = load /\ breaks' = breaks
    BY <1>1, <1>2, <2>1, RefuseTypes
  <2>3. MapTypes'
    BY <1>1, <1>2, <2>1 DEF MapTypes, Known
  <2>4. BufferTypes' /\ SessionTypes' /\ OtherTypes'
    BY <1>1, <2>1, <2>2, Unchanged DEF http, history
  <2>5. (ClientTypes /\ ThreadTypes /\ MapTypes /\ BufferTypes /\ SessionTypes /\ OtherTypes)'
    BY <2>2, <2>3, <2>4
  <2> QED BY <2>5 DEF MostTypes
<1> QED BY <1>3, <1>4, <1>5

(* The output that is sent is pairs of the connection and its bytes.        *)
LEMMA OutputSent ==
  ASSUME BufferTypes, NEW c \in Clients
  PROVE  [i \in DOMAIN conn[c].out |-> <<c, conn[c].out[i]>>] \in Seq(Clients \X Nat)
<1> DEFINE o == [i \in DOMAIN conn[c].out |-> <<c, conn[c].out[i]>>]
<1>1. conn[c].out \in Seq(Nat)
  BY Buffer
<1>2. \A i \in 1..Len(conn[c].out) : conn[c].out[i] \in Nat
  BY <1>1, ElementOfSeq
<1>3. DOMAIN conn[c].out = 1..Len(conn[c].out) /\ Len(conn[c].out) \in Nat
  BY <1>1
<1>4. o = [i \in 1..Len(conn[c].out) |-> <<c, conn[c].out[i]>>]
  BY <1>3
<1>5. \A i \in 1..Len(conn[c].out) : <<c, conn[c].out[i]>> \in Clients \X Nat
  BY <1>2
<1>6. [i \in 1..Len(conn[c].out) |-> <<c, conn[c].out[i]>>] \in [1..Len(conn[c].out) -> Clients \X Nat]
  BY <1>5
<1>7. \E n \in Nat : o \in [1..n -> Clients \X Nat]
  BY <1>3, <1>4, <1>6
<1> HIDE DEF o
<1>8. o \in Seq(Clients \X Nat)
  BY ONLY <1>7, SeqDef, Zenon
<1> QED BY <1>8 DEF o

(* The replies.                                                             *)
LEMMA ReplyTypes ==
  ASSUME TypeOK, NEW t \in Threads,
         SendHeader(t) \/ ReplyHail(t) \/ ReplyOpen(t) \/ ReplyClose(t) \/ Idle(t) \/ Reply(t)
  PROVE  MostTypes'
<1>1. /\ ClientTypes /\ ThreadTypes /\ MapTypes /\ BufferTypes /\ SessionTypes /\ OtherTypes
      /\ HttpTypes
  BY Parts
<1>2. CASE SendHeader(t)
  <2>1. UNCHANGED <<clientVars, pc, req, ptr, sResponse, connVars, history>>
    BY <1>2 DEF SendHeader
  <2>2. MostTypes'
    BY <1>1, <2>1, Unchanged DEF clientVars, connVars, history, MostTypes
  <2> QED BY <2>2
<1> SUFFICES ASSUME ~SendHeader(t) PROVE MostTypes'
  BY <1>2
<1>3. /\ pc[t] \in {"hail", "open", "close", "lock", "reply"} /\ req[t].from \in Clients
      /\ req[t].from # None /\ hash[req[t].from] \in Hashes /\ None \in Hashes /\ sResponse \in Hashes
      /\ <<>> \in Seq(Clients \X Nat)
  <2>1. pc[t] \in {"hail", "open", "close", "lock", "reply"}
    BY DEF ReplyHail, ReplyOpen, ReplyClose, Idle, Reply, Reach, Sends
  <2>2. req[t].from # None /\ req[t].from \in Clients
    BY <1>1, <2>1, ThreadFacts
  <2> QED BY <1>1, <2>1, <2>2 DEF ClientTypes, OtherTypes, Hashes
<1>4. ASSUME NEW st \in {"new", "open", "failed", "closed"}, NEW h \in Hashes, NEW o \in Seq(Clients \X Nat),
             Answer(t, st, h, o)
      PROVE  ClientTypes' /\ load' = load /\ breaks' = breaks
  BY ONLY <1>1, <1>3, <1>4, t \in Threads, AnswerKeeps
<1>5. CASE ReplyHail(t)
  <2>1. Answer(t, "new", None, <<>>) /\ Finish(t) /\ UNCHANGED <<sResponse, connVars, history>>
    BY <1>5 DEF ReplyHail, Sent
  <2>2. ClientTypes' /\ load' = load /\ breaks' = breaks
    BY <1>3, <1>4, <2>1
  <2>3. ThreadTypes'
    BY <1>1, <2>1, FinishKeeps
  <2>4. MapTypes' /\ BufferTypes' /\ SessionTypes' /\ OtherTypes'
    BY <1>1, <2>1, <2>2, Unchanged DEF connVars, history
  <2>5. (ClientTypes /\ ThreadTypes /\ MapTypes /\ BufferTypes /\ SessionTypes /\ OtherTypes)'
    BY <2>2, <2>3, <2>4
  <2> QED BY <2>5 DEF MostTypes
<1>6. CASE ReplyOpen(t)
  <2> DEFINE h == IF reply[t].size = HashSize /\ reply[t].told = HashSize THEN sResponse ELSE Garbled
  <2>1. Answer(t, "open", h, <<>>) /\ Replied(t, "test", ptr[t]) /\ UNCHANGED <<sResponse, connVars, history>>
    BY <1>6 DEF ReplyOpen, Sent
  <2>0. h \in Hashes
    BY <1>3 DEF Hashes
  <2> HIDE DEF h
  <2>2. ClientTypes' /\ load' = load /\ breaks' = breaks
    BY <1>3, <1>4, <2>0, <2>1
  <2>3. ptr[t] \in Clients /\ ptr[t] # None
    BY <1>1, <1>6, ThreadFacts, TunnelAssumption DEF ReplyOpen, Sends
  <2>4. Fits("test", NoRequest, ptr[t])
    BY <2>3 DEF Fits, NoRequest
  <2>5. ThreadTypes'
    BY <1>1, <2>1, <2>3, <2>4, RepliedKeeps DEF Labels
  <2>6. MapTypes' /\ BufferTypes' /\ SessionTypes' /\ OtherTypes'
    BY <1>1, <2>1, <2>2, Unchanged DEF connVars, history
  <2>7. (ClientTypes /\ ThreadTypes /\ MapTypes /\ BufferTypes /\ SessionTypes /\ OtherTypes)'
    BY <2>2, <2>5, <2>6
  <2> QED BY <2>7 DEF MostTypes
<1>7. CASE ReplyClose(t)
  <2>1. /\ Answer(t, "closed", hash[req[t].from], <<>>) /\ Replied(t, "flag", ptr[t])
        /\ UNCHANGED <<sResponse, connVars, history>>
    BY <1>7 DEF ReplyClose, Sent
  <2>2. ClientTypes' /\ load' = load /\ breaks' = breaks
    BY <1>3, <1>4, <2>1
  <2>3. ptr[t] \in Clients /\ ptr[t] # None
    BY <1>1, <1>7, ThreadFacts, TunnelAssumption DEF ReplyClose, Sends
  <2>4. Fits("flag", NoRequest, ptr[t])
    BY <2>3 DEF Fits, NoRequest
  <2>5. ThreadTypes'
    BY <1>1, <2>1, <2>3, <2>4, RepliedKeeps DEF Labels
  <2>6. MapTypes' /\ BufferTypes' /\ SessionTypes' /\ OtherTypes'
    BY <1>1, <2>1, <2>2, Unchanged DEF connVars, history
  <2>7. (ClientTypes /\ ThreadTypes /\ MapTypes /\ BufferTypes /\ SessionTypes /\ OtherTypes)'
    BY <2>2, <2>5, <2>6
  <2> QED BY <2>7 DEF MostTypes
<1>8. CASE Idle(t)
  <2>1. /\ pc[t] = "lock" /\ req[t].mode = "idle" /\ Goto(t, "reply", ptr[t])
        /\ UNCHANGED <<clientVars, http, connVars, history>>
    BY <1>8 DEF Idle, Reach
  <2>2. ptr[t] \in Clients /\ ptr[t] # None
    BY <1>1, <2>1, ThreadFacts, TunnelAssumption
  <2>3. Fits("reply", req[t], ptr[t])
    BY <1>3, <2>1, <2>2 DEF Fits
  <2>4. ThreadTypes'
    BY <1>1, <2>1, <2>2, <2>3, GotoKeeps DEF Labels
  <2>5. ClientTypes' /\ MapTypes' /\ BufferTypes' /\ SessionTypes' /\ OtherTypes'
    BY <1>1, <2>1, Unchanged DEF clientVars, http, connVars, history
  <2>6. (ClientTypes /\ ThreadTypes /\ MapTypes /\ BufferTypes /\ SessionTypes /\ OtherTypes)'
    BY <2>4, <2>5
  <2> QED BY <2>6 DEF MostTypes
<1>9. CASE Reply(t)
  <2> DEFINE c == ptr[t]
             o == [i \in DOMAIN conn[c].out |-> <<c, conn[c].out[i]>>]
  <2>1. /\ pc[t] = "reply" /\ Answer(t, "open", hash[req[t].from], o)
        /\ conn' = [conn EXCEPT ![c] = Emptied(@)] /\ Replied(t, "test", c)
        /\ UNCHANGED <<sResponse, mUrl2Connection, deletes, session, written, accepted, received, history>>
    BY <1>9 DEF Reply, Sends, Sent
  <2>2. c \in Clients /\ c # None
    BY <1>1, <2>1, ThreadFacts, TunnelAssumption
  <2>3. Fits("test", NoRequest, c)
    BY <2>2 DEF Fits, NoRequest
  <2>4. ThreadTypes'
    BY <1>1, <2>1, <2>2, <2>3, RepliedKeeps DEF Labels
  <2> HIDE DEF c
  <2>5. o \in Seq(Clients \X Nat)
    BY <1>1, <2>2, OutputSent
  <2> HIDE DEF o
  <2>6. ClientTypes' /\ load' = load /\ breaks' = breaks
    BY <1>3, <1>4, <2>1, <2>5
  <2>7. BufferTypes'
    <3>1. conn' = [conn EXCEPT ![c] = Emptied(conn[c])]
      BY <2>1
    <3>2. Emptied(conn[c]) \in Connections /\ Emptied(conn[c]).current <= Emptied(conn[c]).offset
      <4>1. conn[c] \in Connections /\ conn[c].current <= conn[c].offset
        BY <1>1, <2>2, Buffer
      <4>2. Emptied(conn[c]) = [cells |-> conn[c].cells, current |-> conn[c].current, offset |-> conn[c].offset,
                                out |-> <<>>, external |-> conn[c].external, internal |-> conn[c].internal]
        BY <4>1 DEF Emptied, Connections
      <4>3. <<>> \in Seq(Nat)
        OBVIOUS
      <4> QED BY <4>1, <4>2, <4>3 DEF Connections
    <3> QED BY <1>1, <2>2, <3>1, <3>2, BufferKept
  <2>8. MapTypes' /\ SessionTypes' /\ OtherTypes'
    BY <1>1, <2>1, <2>6, Unchanged DEF http, history
  <2>9. (ClientTypes /\ ThreadTypes /\ MapTypes /\ BufferTypes /\ SessionTypes /\ OtherTypes)'
    BY <2>4, <2>6, <2>7, <2>8
  <2> QED BY <2>9 DEF MostTypes
<1> QED BY <1>5, <1>6, <1>7, <1>8, <1>9

(* The bytes of a SEND are numbers, in a sequence.                          *)
LEMMA SentBytes ==
  ASSUME NEW n \in Nat, NEW first \in Nat
  PROVE  [i \in 1..n |-> first + i - 1] \in Seq(Nat)
<1> DEFINE s == [i \in 1..n |-> first + i - 1]
<1>1. \A i \in 1..n : first + i - 1 \in Nat
  OBVIOUS
<1>2. s \in [1..n -> Nat]
  BY <1>1
<1> HIDE DEF s
<1>3. \E m \in Nat : s \in [1..m -> Nat]
  BY <1>2
<1>4. s \in Seq(Nat)
  BY ONLY <1>3, SeqDef, Zenon
<1> QED BY <1>4 DEF s

(* SEND, accepted or refused.                                               *)
LEMMA SendTypes ==
  ASSUME TypeOK, NEW t \in Threads, Send(t) \/ SendOverflow(t)
  PROVE  MostTypes'
<1>1. /\ ClientTypes /\ ThreadTypes /\ MapTypes /\ BufferTypes /\ SessionTypes /\ OtherTypes
      /\ HttpTypes
  BY Parts
<1> DEFINE c == ptr[t]
           k == Shifted(conn[c])
           n == req[t].n
           f == req[t].first
<1>2. pc[t] = "lock" /\ req[t].mode = "send"
  BY DEF Send, SendOverflow, Reach
<1>3. /\ c \in Clients /\ c # None /\ n \in Nat /\ f \in Nat
      /\ req[t].from # None /\ InSize \in Nat
  BY <1>1, <1>2, ThreadFacts, TunnelAssumption
<1>4. k \in Connections /\ k.current = 0 /\ k.offset \in Nat
  <2>1. conn[c] \in Connections /\ conn[c].current <= conn[c].offset
    BY <1>1, <1>3, Buffer
  <2>2. k \in Connections /\ k.current = 0
    BY <2>1, ShiftedFits
  <2> QED BY <1>3, <2>2 DEF Connections
<1>5. CASE Send(t)
  <2>1. /\ k.offset + n <= InSize /\ conn' = [conn EXCEPT ![c] = Stored(k, n, f)]
        /\ accepted' = [accepted EXCEPT ![c] = @ \o [i \in 1..n |-> f + i - 1]]
        /\ Goto(t, "reply", c)
        /\ UNCHANGED <<clientVars, http, mUrl2Connection, deletes, session, written, received, history>>
    BY <1>5 DEF Send
  <2> HIDE DEF c, k, n, f
  <2>2. Fits("reply", req[t], c)
    BY <1>2, <1>3 DEF Fits
  <2>3. ThreadTypes'
    BY <1>1, <1>3, <2>1, <2>2, GotoKeeps DEF Labels
  <2>4. BufferTypes'
    <3>1. Stored(k, n, f) \in Connections /\ Stored(k, n, f).current = 0 /\ Stored(k, n, f).offset = k.offset + n
      <4>1. n \in Nat /\ f \in Nat
        BY <1>3
      <4> QED BY ONLY <1>4, <2>1, <4>1, StoredFits, Zenon
    <3>2. Stored(k, n, f).current <= Stored(k, n, f).offset
      BY <1>3, <1>4, <3>1
    <3> QED BY <1>1, <1>3, <2>1, <3>1, <3>2, BufferKept
  <2>5. SessionTypes'
    <3>1. [i \in 1..n |-> f + i - 1] \in Seq(Nat)
      BY <1>3, SentBytes
    <3>2. accepted[c] \o [i \in 1..n |-> f + i - 1] \in Seq(Nat)
      BY <1>1, <1>3, <3>1, ConcatProperties DEF SessionTypes
    <3>3. accepted' \in [Clients -> Seq(Nat)]
      BY <1>1, <1>3, <2>1, <3>2 DEF SessionTypes
    <3> QED BY <1>1, <2>1, <3>3 DEF SessionTypes
  <2>6. ClientTypes' /\ MapTypes' /\ OtherTypes'
    BY <1>1, <2>1, Unchanged DEF clientVars, http, history
  <2>7. (ClientTypes /\ ThreadTypes /\ MapTypes /\ BufferTypes /\ SessionTypes /\ OtherTypes)'
    BY <2>3, <2>4, <2>5, <2>6
  <2> QED BY <2>7 DEF MostTypes
<1>6. CASE SendOverflow(t)
  <2>1. /\ conn' = [conn EXCEPT ![c] = k] /\ Refuse(t)
        /\ UNCHANGED <<http, mUrl2Connection, deletes, session, written, accepted, received, history>>
    BY <1>6 DEF SendOverflow
  <2> HIDE DEF c, k
  <2>2. ClientTypes' /\ ThreadTypes' /\ load' = load /\ breaks' = breaks
    BY <1>1, <1>3, <2>1, RefuseTypes
  <2>3. k.current <= k.offset
    BY <1>4
  <2>4. BufferTypes'
    BY <1>1, <1>3, <1>4, <2>1, <2>3, BufferKept
  <2>5. MapTypes' /\ SessionTypes' /\ OtherTypes'
    BY <1>1, <2>1, <2>2, Unchanged DEF http, history
  <2>6. (ClientTypes /\ ThreadTypes /\ MapTypes /\ BufferTypes /\ SessionTypes /\ OtherTypes)'
    BY <2>2, <2>4, <2>5
  <2> QED BY <2>6 DEF MostTypes
<1> QED BY <1>5, <1>6

(* What a request does past its reply.                                      *)
LEMMA AfterTypes ==
  ASSUME TypeOK, NEW t \in Threads, FlagClose(t) \/ Notify(t) \/ Test(t) \/ Kill(t) \/ Fault(t)
  PROVE  MostTypes'
<1>1. /\ ClientTypes /\ ThreadTypes /\ MapTypes /\ BufferTypes /\ SessionTypes /\ OtherTypes
      /\ HttpTypes
  BY Parts
<1> DEFINE c == ptr[t]
<1>2. pc[t] \in {"lock", "reply", "flag", "notify", "test", "kill"}
  BY DEF FlagClose, Notify, Test, Kill, Fault, Reach, Dangling
<1>3. c \in Clients /\ c # None
  BY <1>1, <1>2, ThreadFacts, TunnelAssumption
<1>4. CASE FlagClose(t)
  <2>1. /\ conn' = [conn EXCEPT ![c].external = TRUE] /\ Goto(t, "notify", c) /\ pc[t] = "flag"
        /\ crossed' = [crossed EXCEPT ![c] = @ \/ session[c] = "deferring"]
        /\ UNCHANGED <<clientVars, http, mUrl2Connection, deletes, session, written, accepted, received, together>>
    BY <1>4 DEF FlagClose, Reach
  <2>2. Fits("notify", req[t], c)
    BY <1>1, <1>3, <2>1, ThreadFacts DEF Fits
  <2> HIDE DEF c
  <2>3. ThreadTypes'
    BY <1>1, <1>3, <2>1, <2>2, GotoKeeps DEF Labels
  <2>4. BufferTypes'
    <3> DEFINE k == [conn[c] EXCEPT !.external = TRUE]
    <3>1. conn[c] \in Connections /\ conn[c].current <= conn[c].offset
      BY <1>1, <1>3, Buffer
    <3>2. k \in Connections /\ k.current = conn[c].current /\ k.offset = conn[c].offset
      BY <3>1 DEF Connections
    <3>3. conn' = [conn EXCEPT ![c] = k]
      BY <2>1
    <3> HIDE DEF k
    <3> QED BY <1>1, <1>3, <3>1, <3>2, <3>3, BufferKept
  <2>5. crossed' \in [Clients -> BOOLEAN]
    <3>1. crossed \in [Clients -> BOOLEAN]
      BY <1>1 DEF OtherTypes
    <3>2. (crossed[c] \/ session[c] = "deferring") \in BOOLEAN
      BY Zenon
    <3> QED BY <2>1, <3>1, Zenon
  <2>6. OtherTypes'
    BY <1>1, <2>1, <2>5 DEF OtherTypes, clientVars, http
  <2>7. ClientTypes' /\ MapTypes' /\ SessionTypes'
    BY <1>1, <2>1, Unchanged DEF clientVars
  <2>8. (ClientTypes /\ ThreadTypes /\ MapTypes /\ BufferTypes /\ SessionTypes /\ OtherTypes)'
    BY <2>3, <2>4, <2>6, <2>7
  <2> QED BY <2>8 DEF MostTypes
<1>5. CASE Test(t)
  <2>1. UNCHANGED <<clientVars, http, connVars, history>>
    BY <1>5 DEF Test
  <2>2. ThreadTypes'
    <3>1. CASE BothEnded(conn[c])
      <4>1. Goto(t, "kill", c) /\ req[t].from = None
        BY <1>1, <1>5, <3>1, ThreadFacts DEF Test, Reach
      <4>2. Fits("kill", req[t], c)
        BY <1>3, <4>1 DEF Fits
      <4> QED BY <1>1, <1>3, <4>1, <4>2, GotoKeeps DEF Labels
    <3>2. CASE ~BothEnded(conn[c])
      BY <1>1, <1>5, <3>2, FinishKeeps DEF Test
    <3> QED BY <3>1, <3>2
  <2>3. ClientTypes' /\ MapTypes' /\ BufferTypes' /\ SessionTypes' /\ OtherTypes'
    BY <1>1, <2>1, Unchanged DEF clientVars, http, connVars, history
  <2>4. (ClientTypes /\ ThreadTypes /\ MapTypes /\ BufferTypes /\ SessionTypes /\ OtherTypes)'
    BY <2>2, <2>3
  <2> QED BY <2>4 DEF MostTypes
<1>6. CASE Kill(t)
  <2>1. /\ Finish(t) /\ mUrl2Connection' = Without(c) /\ deletes' = [deletes EXCEPT ![c] = @ + 1]
        /\ UNCHANGED <<clientVars, http, conn, session, written, accepted, received, history>>
    BY <1>6 DEF Kill
  <2>2. ThreadTypes'
    BY <1>1, <2>1, FinishKeeps
  <2>3. MapTypes'
    BY <1>1, <2>1, MapWithout
  <2>4. SessionTypes'
    BY <1>1, <1>3, <2>1 DEF SessionTypes
  <2>5. ClientTypes' /\ BufferTypes' /\ OtherTypes'
    BY <1>1, <2>1, Unchanged DEF clientVars, http, history
  <2>6. (ClientTypes /\ ThreadTypes /\ MapTypes /\ BufferTypes /\ SessionTypes /\ OtherTypes)'
    BY <2>2, <2>3, <2>4, <2>5
  <2> QED BY <2>6 DEF MostTypes
<1>7. CASE Fault(t)
  <2>1. Replied(t, "fault", None) /\ UNCHANGED <<clientVars, sResponse, connVars, history>>
    BY <1>7 DEF Fault, Sent
  <2>2. Fits("fault", NoRequest, None)
    BY DEF Fits, NoRequest
  <2>3. ThreadTypes'
    BY <1>1, <2>1, <2>2, RepliedKeeps DEF Labels
  <2>4. ClientTypes' /\ MapTypes' /\ BufferTypes' /\ SessionTypes' /\ OtherTypes'
    BY <1>1, <2>1, Unchanged DEF clientVars, http, connVars, history
  <2>5. (ClientTypes /\ ThreadTypes /\ MapTypes /\ BufferTypes /\ SessionTypes /\ OtherTypes)'
    BY <2>3, <2>4
  <2> QED BY <2>5 DEF MostTypes
<1>8. CASE Notify(t)
  <2>1. pc[t] = "notify" /\ Goto(t, "test", c) /\ UNCHANGED <<clientVars, http, connVars, history>>
    BY <1>8 DEF Notify, Reach
  <2>2. Fits("test", req[t], c)
    BY <1>1, <1>3, <2>1, ThreadFacts DEF Fits
  <2>3. ThreadTypes'
    BY <1>1, <1>3, <2>1, <2>2, GotoKeeps DEF Labels
  <2>4. ClientTypes' /\ MapTypes' /\ BufferTypes' /\ SessionTypes' /\ OtherTypes'
    BY <1>1, <2>1, Unchanged DEF clientVars, http, connVars, history
  <2> QED BY <2>3, <2>4 DEF MostTypes
<1> QED BY <1>4, <1>5, <1>6, <1>7, <1>8

(* The cells of a buffer are a sequence of the size of the buffer.          *)
LEMMA Cells ==
  ASSUME BufferTypes, NEW c \in Clients
  PROVE  conn[c].cells \in Seq(Nat) /\ Len(conn[c].cells) = InSize
<1>1. conn[c].cells \in [1..InSize -> Nat] /\ InSize \in Nat
  BY Buffer, TunnelAssumption
<1> SUFFICES ASSUME NEW cs, cs = conn[c].cells PROVE cs \in Seq(Nat) /\ Len(cs) = InSize
  OBVIOUS
<1>2. \E m \in Nat : cs \in [1..m -> Nat]
  BY <1>1
<1>3. cs \in Seq(Nat)
  BY ONLY <1>2, SeqDef, Zenon
<1>4. DOMAIN cs = 1..InSize
  BY <1>1
<1>5. Len(cs) \in Nat /\ DOMAIN cs = 1..Len(cs)
  BY <1>3, LenProperties
<1>6. Len(cs) = InSize
  BY <1>1, <1>4, <1>5
<1> QED BY <1>3, <1>6

(* receive(): what is taken is the next n of the bytes that are unread.     *)
LEMMA ReceiveStep ==
  ASSUME BufferTypes, NEW c \in Clients, SessionReceive(c), ~End(c)
  PROVE  \E n \in 1..Unread(conn[c]) :
            LET k == conn[c] IN
            /\ received' = [received EXCEPT ![c] = @ \o SubSeq(k.cells, k.current + 1, k.current + n)]
            /\ conn' = [conn EXCEPT ![c] = [k EXCEPT !.current = k.current + n]]
            /\ [k EXCEPT !.current = k.current + n] \in Connections
            /\ k.current + n \in Nat /\ k.current + n <= k.offset
            /\ SubSeq(k.cells, k.current + 1, k.current + n) \in Seq(Nat)
            /\ UNCHANGED <<session, written>>
<1> DEFINE k == conn[c]
<1>1. /\ k \in Connections /\ k.current \in Nat /\ k.offset \in Nat /\ k.current <= k.offset
      /\ k.offset <= InSize /\ InSize \in Nat
  BY Buffer, TunnelAssumption
<1>2. Unread(k) > 0 /\ UNCHANGED <<session, written>>
  BY DEF SessionReceive
<1>3. Unread(k) = k.offset - k.current /\ Unread(k) \in Nat
  BY <1>1, <1>2 DEF Unread
<1>4. PICK size \in 1..2 :
        LET n == IF size < Unread(k) THEN size ELSE Unread(k) IN
        /\ received' = [received EXCEPT ![c] = @ \o SubSeq(k.cells, k.current + 1, k.current + n)]
        /\ conn' = [conn EXCEPT ![c].current = @ + n]
  BY DEF SessionReceive
<1> DEFINE n == IF size < Unread(k) THEN size ELSE Unread(k)
<1>5. n \in 1..Unread(k) /\ n \in Nat /\ k.current + n <= k.offset /\ k.current + n \in Nat
  BY <1>1, <1>2, <1>3
<1>6. /\ received' = [received EXCEPT ![c] = @ \o SubSeq(k.cells, k.current + 1, k.current + n)]
      /\ conn' = [conn EXCEPT ![c] = [k EXCEPT !.current = k.current + n]]
  BY <1>4
<1> HIDE DEF n
<1>7. [k EXCEPT !.current = k.current + n] \in Connections
  BY <1>1, <1>5 DEF Connections
<1>8. SubSeq(k.cells, k.current + 1, k.current + n) \in Seq(Nat)
  <2>1. k.cells \in Seq(Nat) /\ Len(k.cells) = InSize
    BY Cells
  <2>2. \A s \in Seq(Nat), a, b \in Nat : a + 1 \in 1..Len(s) + 1 /\ b \in a..Len(s) => SubSeq(s, a + 1, b) \in Seq(Nat)
    BY SubSeqProperties
  <2> HIDE DEF k
  <2>3. k.current + 1 \in 1..Len(k.cells) + 1 /\ k.current + n \in k.current..Len(k.cells)
    BY <1>1, <1>5, <2>1, SMTT(30)
  <2> QED BY <2>1, <2>2, <2>3, <1>1, <1>5
<1> QED BY <1>2, <1>5, <1>6, <1>7, <1>8

(* The session keeps the types.                                             *)
LEMMA SessionSteps ==
  ASSUME TypeOK, NEW c \in Clients,
         SessionReceive(c) \/ SessionSend(c) \/ SessionFails(c) \/ EndSession(c) \/ GiveUp(c)
  PROVE  MostTypes'
<1>1. /\ ClientTypes /\ ThreadTypes /\ MapTypes /\ BufferTypes /\ SessionTypes /\ OtherTypes
      /\ HttpTypes
  BY Parts
<1>2. conn[c] \in Connections /\ conn[c].current <= conn[c].offset /\ conn[c].out \in Seq(Nat)
  BY <1>1, Buffer
<1>3. ASSUME NEW st \in {"none", "running", "ended", "deferring", "dead"}, session' = [session EXCEPT ![c] = st],
             UNCHANGED <<deletes, written, accepted, received>>
      PROVE  SessionTypes'
  BY <1>1, <1>3 DEF SessionTypes
<1>4. CASE (SessionReceive(c) \/ SessionSend(c) \/ SessionFails(c)) /\ End(c)
  <2>1. /\ session' = [session EXCEPT ![c] = "ended"]
        /\ UNCHANGED <<conn, written, received, clientVars, threadVars, mUrl2Connection, deletes, accepted, history>>
    BY <1>4 DEF SessionReceive, SessionSend, SessionFails, End
  <2>2. SessionTypes'
    BY <1>3, <2>1
  <2>3. ClientTypes' /\ ThreadTypes' /\ MapTypes' /\ BufferTypes' /\ OtherTypes'
    BY <1>1, <2>1, Unchanged DEF clientVars, threadVars, http, history
  <2>4. (ClientTypes /\ ThreadTypes /\ MapTypes /\ BufferTypes /\ SessionTypes /\ OtherTypes)'
    BY <2>2, <2>3
  <2> QED BY <2>4 DEF MostTypes
<1>5. CASE SessionReceive(c) /\ ~End(c)
  <2> DEFINE k == conn[c]
  <2>1. PICK n \in 1..Unread(k) :
            /\ received' = [received EXCEPT ![c] = @ \o SubSeq(k.cells, k.current + 1, k.current + n)]
            /\ conn' = [conn EXCEPT ![c] = [k EXCEPT !.current = k.current + n]]
            /\ [k EXCEPT !.current = k.current + n] \in Connections
            /\ k.current + n \in Nat /\ k.current + n <= k.offset
            /\ SubSeq(k.cells, k.current + 1, k.current + n) \in Seq(Nat)
            /\ UNCHANGED <<session, written>>
    BY <1>1, <1>5, ReceiveStep
  <2>2. UNCHANGED <<clientVars, threadVars, mUrl2Connection, deletes, accepted, history>>
    BY <1>5 DEF SessionReceive
  <2> DEFINE kk == [k EXCEPT !.current = k.current + n]
  <2>3. kk.current = k.current + n /\ kk.offset = k.offset
    BY <1>2 DEF Connections
  <2>4. BufferTypes'
    <3> HIDE DEF kk
    <3>1. kk \in Connections /\ kk.current <= kk.offset /\ conn' = [conn EXCEPT ![c] = kk]
      BY <2>1, <2>3 DEF kk
    <3> QED BY <1>1, <3>1, BufferKept
  <2>5. SessionTypes'
    <3>1. SUFFICES ASSUME NEW x \in Seq(Nat), received' = [received EXCEPT ![c] = @ \o x] PROVE SessionTypes'
      BY <2>1
    <3>2. received[c] \o x \in Seq(Nat)
      BY <1>1, ConcatProperties DEF SessionTypes
    <3>3. received' \in [Clients -> Seq(Nat)]
      BY <1>1, <3>1, <3>2 DEF SessionTypes
    <3> QED BY <1>1, <2>1, <2>2, <3>3 DEF SessionTypes
  <2>6. ClientTypes' /\ ThreadTypes' /\ MapTypes' /\ OtherTypes'
    BY <1>1, <2>2, Unchanged DEF clientVars, threadVars, http, history
  <2>7. (ClientTypes /\ ThreadTypes /\ MapTypes /\ BufferTypes /\ SessionTypes /\ OtherTypes)'
    BY <2>4, <2>5, <2>6
  <2> QED BY <2>7 DEF MostTypes
<1>6. CASE SessionSend(c) /\ ~End(c)
  <2> DEFINE k == conn[c]
             o == Append(k.out, written[c] + 1)
             kk == [k EXCEPT !.out = o]
  <2>1. /\ conn' = [conn EXCEPT ![c].out = Append(@, written[c] + 1)]
        /\ written' = [written EXCEPT ![c] = @ + 1]
        /\ UNCHANGED <<session, received, clientVars, threadVars, mUrl2Connection, deletes, accepted, history>>
    BY <1>6 DEF SessionSend
  <2>2. o \in Seq(Nat)
    <3>1. written[c] + 1 \in Nat
      BY <1>1 DEF SessionTypes
    <3> QED BY <1>2, <3>1, AppendProperties
  <2>3. conn' = [conn EXCEPT ![c] = kk]
    BY <2>1
  <2> HIDE DEF o
  <2>4. kk \in Connections /\ kk.current = k.current /\ kk.offset = k.offset
    BY <1>2, <2>2 DEF Connections
  <2>5. BufferTypes'
    <3> HIDE DEF kk
    <3> QED BY <1>1, <1>2, <2>3, <2>4, BufferKept
  <2>6. SessionTypes'
    BY <1>1, <2>1 DEF SessionTypes
  <2>7. ClientTypes' /\ ThreadTypes' /\ MapTypes' /\ OtherTypes'
    BY <1>1, <2>1, Unchanged DEF clientVars, threadVars, http, history
  <2>8. (ClientTypes /\ ThreadTypes /\ MapTypes /\ BufferTypes /\ SessionTypes /\ OtherTypes)'
    BY <2>5, <2>6, <2>7
  <2> QED BY <2>8 DEF MostTypes
<1>7. CASE EndSessionDelete(c)
  <2>1. /\ deletes' = [deletes EXCEPT ![c] = @ + 1] /\ session' = [session EXCEPT ![c] = "dead"]
        /\ UNCHANGED <<clientVars, threadVars, mUrl2Connection, conn, written, accepted, received, history>>
    BY <1>7 DEF EndSessionDelete
  <2>2. SessionTypes'
    BY <1>1, <2>1 DEF SessionTypes
  <2>3. ClientTypes' /\ ThreadTypes' /\ MapTypes' /\ BufferTypes' /\ OtherTypes'
    BY <1>1, <2>1, Unchanged DEF clientVars, threadVars, http, history
  <2>4. (ClientTypes /\ ThreadTypes /\ MapTypes /\ BufferTypes /\ SessionTypes /\ OtherTypes)'
    BY <2>2, <2>3
  <2> QED BY <2>4 DEF MostTypes
<1>8. CASE EndSessionDefer(c)
  <2>1. /\ session' = [session EXCEPT ![c] = "deferring"]
        /\ UNCHANGED <<clientVars, threadVars, mUrl2Connection, conn, deletes, written, accepted, received, history>>
    BY <1>8 DEF EndSessionDefer
  <2>2. SessionTypes'
    BY <1>3, <2>1
  <2>3. ClientTypes' /\ ThreadTypes' /\ MapTypes' /\ BufferTypes' /\ OtherTypes'
    BY <1>1, <2>1, Unchanged DEF clientVars, threadVars, http, history
  <2>4. (ClientTypes /\ ThreadTypes /\ MapTypes /\ BufferTypes /\ SessionTypes /\ OtherTypes)'
    BY <2>2, <2>3
  <2> QED BY <2>4 DEF MostTypes
<1>9. CASE EndSessionFlag(c)
  <2> DEFINE k == [conn[c] EXCEPT !.internal = TRUE]
  <2>1. /\ conn' = [conn EXCEPT ![c].internal = TRUE] /\ session' = [session EXCEPT ![c] = "dead"]
        /\ UNCHANGED <<clientVars, threadVars, mUrl2Connection, deletes, written, accepted, received, history>>
    BY <1>9 DEF EndSessionFlag
  <2>2. k \in Connections /\ k.current = conn[c].current /\ k.offset = conn[c].offset
    BY <1>2 DEF Connections
  <2>3. conn' = [conn EXCEPT ![c] = k]
    BY <2>1
  <2> HIDE DEF k
  <2>4. BufferTypes'
    BY <1>1, <1>2, <2>2, <2>3, BufferKept
  <2>5. SessionTypes'
    BY <1>3, <2>1
  <2>6. ClientTypes' /\ ThreadTypes' /\ MapTypes' /\ OtherTypes'
    BY <1>1, <2>1, Unchanged DEF clientVars, threadVars, http, history
  <2>7. (ClientTypes /\ ThreadTypes /\ MapTypes /\ BufferTypes /\ SessionTypes /\ OtherTypes)'
    BY <2>4, <2>5, <2>6
  <2> QED BY <2>7 DEF MostTypes
<1>10. CASE GiveUp(c)
  <2>1. /\ awaiting' = [awaiting EXCEPT ![c] = None] /\ breaks' = breaks + 1
        /\ UNCHANGED <<load, client, hash, sent, got, misled, threadVars, connVars, history>>
    BY <1>10 DEF GiveUp
  <2>2. ClientTypes'
    BY <1>1, <2>1 DEF ClientTypes
  <2>3. OtherTypes'
    BY <1>1, <2>1 DEF OtherTypes, threadVars, http, history
  <2>4. ThreadTypes' /\ MapTypes' /\ BufferTypes' /\ SessionTypes'
    BY <1>1, <2>1, Unchanged DEF threadVars, connVars
  <2>5. (ClientTypes /\ ThreadTypes /\ MapTypes /\ BufferTypes /\ SessionTypes /\ OtherTypes)'
    BY <2>2, <2>3, <2>4
  <2> QED BY <2>5 DEF MostTypes
<1> QED BY <1>4, <1>5, <1>6, <1>7, <1>8, <1>9, <1>10 DEF SessionFails, EndSession

(* The initial state is typed.                                              *)
LEMMA InitTypes == Init => TypeOK
<1> SUFFICES ASSUME Init PROVE TypeOK
  OBVIOUS
<1>1. ClientTypes
  BY DEF Init, ClientTypes, Hashes
<1>2. ThreadTypes
  <2>1. NoRequest \in Requests /\ Fits("idle", NoRequest, None)
    BY DEF NoRequest, Requests, Hashes, Fits
  <2> QED BY <2>1 DEF Init, ThreadTypes, Labels
<1>3. MapTypes
  BY DEF Init, MapTypes
<1>4. BufferTypes
  <2>1. InSize \in Nat
    BY TunnelAssumption
  <2>2. NewConnection \in Connections /\ NewConnection.current <= NewConnection.offset
    <3>1. [i \in 1..InSize |-> 0] \in [1..InSize -> Nat] /\ <<>> \in Seq(Nat) /\ 0 \in 0..InSize
      BY <2>1
    <3> QED BY <3>1 DEF NewConnection, Connections
  <2> QED BY <2>2 DEF Init, BufferTypes
<1>5. SessionTypes
  BY DEF Init, SessionTypes
<1>6. OtherTypes
  BY DEF Init, OtherTypes
<1>7. HttpTypes
  BY DEF Init, HttpTypes, NoReply
<1> QED BY <1>1, <1>2, <1>3, <1>4, <1>5, <1>6, <1>7, Parts

(* The length of a reply is put in the table; it meets those whose header   *)
(* is not sent.                                                             *)
LEMMA LengthTypes ==
  ASSUME TypeOK, NEW t \in Threads, SetLength(t)
  PROVE  MostTypes'
<1>1. ClientTypes /\ ThreadTypes /\ MapTypes /\ BufferTypes /\ SessionTypes /\ OtherTypes /\ HttpTypes
  BY Parts
<1>2. /\ pc[t] \in Replying
      /\ together' = together \cup {{req[t].from, req[u].from} : u \in Heading}
      /\ UNCHANGED <<clientVars, pc, req, ptr, sResponse, connVars, crossed>>
  BY DEF SetLength, Reach, Replying
<1>3. ASSUME NEW u \in Threads, pc[u] \in Replying PROVE req[u].from \in Clients
  BY <1>1, <1>3, ThreadFacts DEF Replying
<1>4. ASSUME NEW u \in Heading PROVE req[u].from \in Clients
  <2>1. u \in Threads /\ reply[u].size # 0
    BY DEF Heading
  <2>2. pc[u] \in Replying
    BY <1>1, <2>1 DEF HttpTypes, NoReply
  <2> QED BY <1>3, <2>1, <2>2
<1>5. together' \subseteq SUBSET Clients
  BY <1>1, <1>2, <1>3, <1>4 DEF OtherTypes
<1>6. OtherTypes'
  BY <1>1, <1>2, <1>5 DEF OtherTypes, clientVars
<1>7. ClientTypes' /\ ThreadTypes' /\ MapTypes' /\ BufferTypes' /\ SessionTypes'
  BY <1>1, <1>2, Unchanged DEF clientVars, connVars
<1> QED BY <1>6, <1>7 DEF MostTypes

(* A step that leaves the table and the lengths alone, but for the reply of *)
(* a thread that it ends.                                                   *)
LEMMA HttpKept ==
  ASSUME HttpTypes, ThreadTypes, NEW t \in Threads, NEW l, pc' = [pc EXCEPT ![t] = l], length' \in Nat, mFields' = mFields,
         \/ reply' = [reply EXCEPT ![t] = NoReply]
         \/ reply' = reply /\ (reply[t] = NoReply \/ l \in Replying)
  PROVE  HttpTypes'
<1>1. NoReply \in [size : Nat, told : Nat]
  BY DEF NoReply
<1>2. reply' \in [Threads -> [size : Nat, told : Nat]] /\ mFields' \in Nat
  BY <1>1 DEF HttpTypes
<1>3. ASSUME NEW u \in Threads, pc'[u] \notin Replying PROVE reply'[u] = NoReply
  <2>1. CASE u = t
    BY <1>3, <2>1 DEF ThreadTypes, HttpTypes
  <2>2. CASE u # t
    BY <1>3, <2>2 DEF ThreadTypes, HttpTypes
  <2> QED BY <2>1, <2>2
<1> QED BY <1>2, <1>3 DEF HttpTypes

(* The lengths of the replies, and what the header of each has told.        *)
LEMMA HttpHandle ==
  ASSUME TypeOK, NEW t \in Threads, Handle(t)
  PROVE  HttpTypes'
<1>1. ThreadTypes /\ BufferTypes /\ HttpTypes
  BY Parts
<1>2. /\ reply[t] \in [size : Nat, told : Nat] /\ (pc[t] \notin Replying => reply[t] = NoReply)
      /\ length \in Nat /\ mFields \in Nat
  BY <1>1 DEF HttpTypes
<1>3. CASE Hail(t) \/ Open(t) \/ FindClose(t)
  <2>1. /\ \E l : pc' = [pc EXCEPT ![t] = l]
        /\ reply' = reply /\ mFields' = mFields /\ pc[t] = "parse"
        /\ length' \in {HailSize, HashSize, length}
    BY <1>3 DEF Hail, Open, FindClose, Respond, Goto, Parses
  <2>2. length' \in Nat
    BY <1>2, <2>1 DEF HailSize, HashSize
  <2>3. reply[t] = NoReply
    BY <1>2, <2>1 DEF Replying
  <2> QED BY <1>1, <2>1, <2>2, <2>3, HttpKept
<1>4. CASE \/ Find(t) \/ NotFound(t) \/ NotFoundClose(t) \/ Send(t) \/ SendOverflow(t) \/ Idle(t)
           \/ FlagClose(t) \/ Notify(t) \/ Test(t) \/ Kill(t)
  <2>1. /\ \E l : pc' = [pc EXCEPT ![t] = l]
        /\ UNCHANGED <<reply, mFields, length>>
    BY <1>4 DEF Find, NotFound, NotFoundClose, Send, SendOverflow, Idle, FlagClose, Notify, Test, Kill,
                Goto, Finish, Refuse, http
  <2>2. pc[t] \in {"parse", "lock", "flag", "notify", "test", "kill"}
    BY <1>4 DEF Find, NotFound, NotFoundClose, Send, SendOverflow, Idle, FlagClose, Notify, Test, Kill, Parses, Reach
  <2>3. reply[t] = NoReply
    BY <1>2, <2>2 DEF Replying
  <2> QED BY <1>1, <1>2, <2>1, <2>3, HttpKept
<1>5. CASE ReplyHail(t) \/ ReplyOpen(t) \/ ReplyClose(t) \/ Reply(t) \/ Fault(t)
  <2>1. (\E l : pc' = [pc EXCEPT ![t] = l]) /\ Sent(t)
    BY <1>5 DEF ReplyHail, ReplyOpen, ReplyClose, Reply, Fault, Finish, Replied
  <2>2. reply' = [reply EXCEPT ![t] = NoReply] /\ UNCHANGED <<length, mFields>>
    BY <2>1 DEF Sent
  <2> QED BY <1>1, <1>2, <2>1, <2>2, HttpKept
<1>6. CASE SetLength(t)
  <2>1. /\ reply' = [reply EXCEPT ![t].size = Size(t)] /\ mFields' = Size(t) /\ UNCHANGED <<pc, length>>
        /\ pc[t] \in Replying
    BY <1>6 DEF SetLength, Reach, Replying
  <2>2. Size(t) \in Nat
    <3>1. CASE pc[t] = "reply"
      <4>1. Len(conn[ptr[t]].out) \in Nat
        BY <1>1, <3>1, ThreadFacts, Buffer
      <4> QED BY <3>1, <4>1 DEF Size
    <3>2. CASE pc[t] \in {"hail", "open", "close"}
      BY <1>2, <3>2 DEF Size
    <3> QED BY <2>1, <3>1, <3>2 DEF Replying
  <2> DEFINE n == Size(t)
  <2>3. reply' = [reply EXCEPT ![t] = [size |-> n, told |-> reply[t].told]]
    <3>1. reply' = [reply EXCEPT ![t] = [reply[t] EXCEPT !.size = n]]
      BY <2>1
    <3>2. ASSUME NEW r \in [size : Nat, told : Nat] PROVE [r EXCEPT !.size = n] = [size |-> n, told |-> r.told]
      OBVIOUS
    <3> QED BY ONLY <1>2, <3>1, <3>2
  <2>4. n \in Nat /\ reply[t].told \in Nat
    BY <1>2, <2>2
  <2> HIDE DEF n
  <2>5. reply' \in [Threads -> [size : Nat, told : Nat]]
    BY <1>1, <2>3, <2>4 DEF HttpTypes
  <2>6. \A u \in Threads : pc'[u] \notin Replying => reply'[u] = NoReply
    BY <1>1, <2>1, <2>3 DEF HttpTypes
  <2> QED BY <1>2, <2>1, <2>2, <2>5, <2>6 DEF HttpTypes
<1>7. CASE SendHeader(t)
  <2>1. /\ reply' = [reply EXCEPT ![t].told = mFields] /\ UNCHANGED <<pc, length, mFields>>
        /\ reply[t].size # 0
    BY <1>7 DEF SendHeader, Heading
  <2>2. pc[t] \in Replying
    BY <1>2, <2>1 DEF NoReply
  <2>3. reply' = [reply EXCEPT ![t] = [size |-> reply[t].size, told |-> mFields]]
    <3>1. reply' = [reply EXCEPT ![t] = [reply[t] EXCEPT !.told = mFields]]
      BY <2>1
    <3>2. ASSUME NEW r \in [size : Nat, told : Nat] PROVE [r EXCEPT !.told = mFields] = [size |-> r.size, told |-> mFields]
      OBVIOUS
    <3> QED BY ONLY <1>2, <3>1, <3>2
  <2>4. reply' \in [Threads -> [size : Nat, told : Nat]]
    BY <1>1, <1>2, <2>3 DEF HttpTypes
  <2>5. \A u \in Threads : pc'[u] \notin Replying => reply'[u] = NoReply
    BY <1>1, <2>1, <2>2, <2>3 DEF HttpTypes
  <2> QED BY <1>2, <2>1, <2>4, <2>5 DEF HttpTypes
<1> QED BY <1>3, <1>4, <1>5, <1>6, <1>7 DEF Handle

(* So is what any step makes of a typed state.                              *)
LEMMA NextTypes == TypeOK /\ [Next]_vars => TypeOK'
<1> SUFFICES ASSUME TypeOK, [Next]_vars PROVE TypeOK'
  OBVIOUS
<1>1. CASE UNCHANGED vars \/ Done
  <2>1. UNCHANGED <<clientVars, threadVars, connVars, history>>
    BY <1>1 DEF vars, Done
  <2> QED BY <2>1 DEF TypeOK, clientVars, threadVars, http, connVars, history
<1>2. CASE \E t \in Threads : (\E c \in load.users : Ask(t, c)) \/ Handle(t)
  <2>1. PICK t \in Threads : (\E c \in load.users : Ask(t, c)) \/ Handle(t)
    BY <1>2
  <2>2. MostTypes'
    BY <2>1, AskTypes, AnswerTypes, SearchTypes, LengthTypes, ReplyTypes, SendTypes, AfterTypes DEF Handle
  <2>3. HttpTypes'
    <3>1. CASE Handle(t)
      BY <3>1, HttpHandle
    <3>2. ASSUME NEW c \in load.users, Ask(t, c) PROVE HttpTypes'
      <4>1. pc' = [pc EXCEPT ![t] = "parse"] /\ UNCHANGED <<reply, length, mFields>> /\ pc[t] = "idle"
        BY <3>2 DEF Ask, Request, http
      <4>2. ThreadTypes /\ HttpTypes /\ length' \in Nat /\ reply[t] = NoReply
        BY <4>1, Parts DEF HttpTypes, Replying
      <4> QED BY <4>1, <4>2, HttpKept
    <3> QED BY <2>1, <3>1, <3>2
  <2>4. MostTypes' /\ HttpTypes'
    BY <2>2, <2>3
  <2>5. (/\ ClientTypes /\ ThreadTypes /\ MapTypes /\ BufferTypes /\ SessionTypes /\ OtherTypes
         /\ HttpTypes)'
    BY <2>4 DEF MostTypes
  <2> QED BY <2>5, Parts, PTL
<1>3. CASE \E c \in Clients : GiveUp(c) \/ SessionReceive(c) \/ SessionSend(c) \/ SessionFails(c) \/ EndSession(c)
  <2>1. MostTypes'
    BY <1>3, SessionSteps
  <2>2. UNCHANGED <<pc, reply, length, mFields>>
    BY <1>3 DEF GiveUp, SessionReceive, SessionSend, SessionFails, EndSession, EndSessionDelete, EndSessionDefer,
                EndSessionFlag, threadVars, http
  <2>3. HttpTypes'
    BY <2>2, Parts DEF HttpTypes
  <2>4. (/\ ClientTypes /\ ThreadTypes /\ MapTypes /\ BufferTypes /\ SessionTypes /\ OtherTypes
         /\ HttpTypes)'
    BY <2>1, <2>3 DEF MostTypes
  <2> QED BY <2>4, Parts, PTL
<1> QED BY <1>1, <1>2, <1>3 DEF Next

(* Type correctness of the tunnel, the server's threads, the sessions and   *)
(* the clients: in every state the two positions in buffer_in are in order  *)
(* and within the buffer, and a thread of handleNewSocket() holds a pointer *)
(* to a connection whenever its next step uses one.                         *)
THEOREM TypeCorrect == Spec => []TypeOK
BY InitTypes, NextTypes, PTL DEF Spec

-----------------------------------------------------------------------------
(* What the steps do to the clients and to the answer they share.           *)

(* A step that replies.                                                     *)
Whole(t) == reply[t].size = HashSize /\ reply[t].told = HashSize
Replies(t) ==
  \E st \in {"new", "open", "failed", "closed"}, h \in Hashes, o \in Seq(Clients \X Nat), l \in {"idle", "test", "flag"} :
    /\ Answer(t, st, h, o)
    /\ pc' = [pc EXCEPT ![t] = l] /\ req' = [req EXCEPT ![t] = NoRequest] /\ reply' = [reply EXCEPT ![t] = NoReply]
    /\ reply[t].told = 0 => reply[t].size = 0
    /\ UNCHANGED <<load, breaks, sResponse, length, mFields, together>>
    /\ \/ req[t].mode = "hail" /\ st = "new" /\ h = None
       \/ /\ req[t].mode = "open" /\ st = "open" /\ pc[t] = "open" /\ reply[t].told # 0
          /\ h = (IF Whole(t) THEN sResponse ELSE Garbled)
       \/ req[t].mode = "close" /\ st = "closed" /\ h = hash[req[t].from]
       \/ req[t].mode \in {"send", "idle"} /\ st \in {"open", "failed"} /\ h = hash[req[t].from]

(* A step of a thread that its client does not see.                         *)
Quiet(t) ==
  \E r \in {req[t], NoRequest}, l \in {"idle", "lock", "reply", "flag", "notify", "test", "kill", "fault"} :
    /\ pc' = [pc EXCEPT ![t] = l] /\ req' = [req EXCEPT ![t] = r]
    /\ \/ reply' = [reply EXCEPT ![t] = NoReply]
       \/ reply' = reply /\ reply[t] = NoReply
    /\ UNCHANGED <<clientVars, sResponse, length, mFields, together>>

(* A step that prepares an answer.                                          *)
Prepares(t) ==
  \E a \in Clients \cup {Garbled}, n \in Nat :
    /\ pc[t] = "parse" /\ pc' = [pc EXCEPT ![t] = req[t].mode] /\ req' = req
    /\ Respond(t, a, n) /\ UNCHANGED <<clientVars, reply, mFields>> /\ reply[t] = NoReply
    /\ req[t].mode \in {"hail", "open", "close"}
    /\ req[t].mode = "open" => a = req[t].from /\ n = HashSize

(* A step outside of the threads.                                           *)
Outside ==
  /\ UNCHANGED <<pc, req, http, together, client, hash, misled>>
  /\ \A c \in Clients : awaiting'[c] = awaiting[c] \/ client[c] # "new"
  /\ NobodyGaveUp' => NobodyGaveUp /\ awaiting' = awaiting

(* Every reply is one.                                                      *)
LEMMA RepliesAll ==
  ASSUME TypeOK, NEW t \in Threads,
         NotFound(t) \/ NotFoundClose(t) \/ ReplyHail(t) \/ ReplyOpen(t) \/ ReplyClose(t) \/ SendOverflow(t) \/ Reply(t)
  PROVE  Replies(t) /\ req[t].from \in Clients /\ req[t].from # None
<1>1. ClientTypes /\ ThreadTypes /\ BufferTypes /\ OtherTypes /\ HttpTypes
  BY Parts
<1>2. pc[t] \in {"parse", "hail", "open", "close", "lock", "reply"}
  BY DEF NotFound, NotFoundClose, ReplyHail, ReplyOpen, ReplyClose, SendOverflow, Reply, Reach, Parses, Sends
<1>3. req[t].from \in Clients /\ req[t].from # None
  BY <1>1, <1>2, ThreadFacts
<1>4. /\ hash[req[t].from] \in Hashes /\ None \in Hashes /\ sResponse \in Hashes /\ Garbled \in Hashes
      /\ <<>> \in Seq(Clients \X Nat)
  BY <1>1, <1>3 DEF ClientTypes, OtherTypes, Hashes
<1>5. CASE NotFound(t) \/ NotFoundClose(t) \/ SendOverflow(t)
  <2>1. Refuse(t) /\ UNCHANGED <<http, history>> /\ req[t].mode \in {"send", "idle", "close"} /\ pc[t] \in {"parse", "lock"}
    BY <1>5 DEF NotFound, NotFoundClose, SendOverflow, Parses, Reach
  <2>2. PICK st \in {"failed", "closed"} :
          Answer(t, st, hash[req[t].from], <<>>) /\ (st = "closed" <=> req[t].mode = "close")
    BY <2>1 DEF Refuse
  <2>3. UNCHANGED <<load, breaks>>
    BY <2>2, AnswerCases
  <2>4. pc' = [pc EXCEPT ![t] = "idle"] /\ req' = [req EXCEPT ![t] = NoRequest]
    BY <2>1 DEF Refuse
  <2>5. /\ together' = together /\ sResponse' = sResponse /\ length' = length /\ mFields' = mFields
        /\ reply' = reply /\ st \in {"new", "open", "failed", "closed"}
    BY <2>1, <2>2 DEF history, http
  <2>6. \/ req[t].mode = "close" /\ st = "closed"
        \/ req[t].mode \in {"send", "idle"} /\ st \in {"open", "failed"}
    BY <2>1, <2>2
  <2>7. reply[t] = NoReply /\ reply \in [Threads -> [size : Nat, told : Nat]]
    BY <1>1, <2>1 DEF HttpTypes, Replying
  <2>8. reply' = [reply EXCEPT ![t] = NoReply] /\ reply[t].size = 0
    BY <2>5, <2>7 DEF NoReply
  <2>9. Replies(t)
    BY ONLY <1>4, <2>2, <2>3, <2>4, <2>5, <2>6, <2>8 DEF Replies
  <2> QED BY <1>3, <2>9
<1>6. CASE ReplyHail(t)
  <2>1. /\ Answer(t, "new", None, <<>>) /\ Finish(t) /\ Sent(t) /\ UNCHANGED history /\ req[t].mode = "hail"
        /\ reply[t].told # 0
    BY <1>1, <1>6, ThreadFacts DEF ReplyHail, Sends
  <2>2. UNCHANGED <<load, breaks>>
    BY <2>1, AnswerCases
  <2> QED BY <1>3, <1>4, <2>1, <2>2 DEF Replies, Finish, Sent, history
<1>7. CASE ReplyOpen(t)
  <2> DEFINE h == IF Whole(t) THEN sResponse ELSE Garbled
  <2>1. /\ Answer(t, "open", h, <<>>) /\ Replied(t, "test", ptr[t]) /\ Sent(t) /\ UNCHANGED history
        /\ req[t].mode = "open" /\ pc[t] = "open" /\ reply[t].told # 0
    BY <1>1, <1>7, ThreadFacts DEF ReplyOpen, Sends, Whole
  <2>2. h \in Hashes /\ h = (IF Whole(t) THEN sResponse ELSE Garbled)
    BY <1>4
  <2> HIDE DEF h
  <2>3. UNCHANGED <<load, breaks>>
    BY <2>1, AnswerCases
  <2> QED BY <1>3, <1>4, <2>1, <2>2, <2>3 DEF Replies, Replied, Sent, history
<1>8. CASE ReplyClose(t)
  <2>1. /\ Answer(t, "closed", hash[req[t].from], <<>>) /\ Replied(t, "flag", ptr[t]) /\ Sent(t)
        /\ UNCHANGED history /\ req[t].mode = "close" /\ reply[t].told # 0
    BY <1>1, <1>8, ThreadFacts DEF ReplyClose, Sends
  <2>2. UNCHANGED <<load, breaks>>
    BY <2>1, AnswerCases
  <2> QED BY <1>3, <1>4, <2>1, <2>2 DEF Replies, Replied, Sent, history
<1>9. CASE Reply(t)
  <2> DEFINE c == ptr[t]
             o == [i \in DOMAIN conn[c].out |-> <<c, conn[c].out[i]>>]
  <2>1. /\ Answer(t, "open", hash[req[t].from], o) /\ Replied(t, "test", c) /\ Sent(t)
        /\ UNCHANGED history /\ req[t].mode \in {"send", "idle"} /\ reply[t].told # 0
    BY <1>1, <1>9, ThreadFacts DEF Reply, Sends
  <2>2. o \in Seq(Clients \X Nat)
    BY <1>1, <1>9, ThreadFacts, OutputSent DEF Reply, Sends
  <2> HIDE DEF c, o
  <2>3. UNCHANGED <<load, breaks>>
    BY <2>1, AnswerCases
  <2>4. /\ pc' = [pc EXCEPT ![t] = "test"] /\ req' = [req EXCEPT ![t] = NoRequest]
        /\ reply' = [reply EXCEPT ![t] = NoReply] /\ UNCHANGED <<sResponse, length, mFields, together>>
    BY <2>1 DEF Replied, Sent, history
  <2> QED BY <1>3, <1>4, <2>1, <2>2, <2>3, <2>4 DEF Replies
<1> QED BY <1>3, <1>5, <1>6, <1>7, <1>8, <1>9

(* Every other step of a thread that prepares no answer is quiet.           *)
LEMMA QuietAll ==
  ASSUME TypeOK, NEW t \in Threads,
         Find(t) \/ Send(t) \/ Idle(t) \/ FlagClose(t) \/ Notify(t) \/ Test(t) \/ Kill(t) \/ Fault(t)
  PROVE  Quiet(t)
<1>1. req \in [Threads -> Requests] /\ (pc[t] \notin Replying => reply[t] = NoReply)
  BY DEF TypeOK
<1>2. req = [req EXCEPT ![t] = req[t]]
  BY <1>1
<1>3. UNCHANGED <<clientVars, sResponse, length, mFields, together>>
  BY DEF Find, Send, Idle, FlagClose, Notify, Test, Kill, Fault, Sent, http, history
<1>4. PICK l \in {"idle", "lock", "reply", "flag", "notify", "test", "kill", "fault"} :
        pc' = [pc EXCEPT ![t] = l] /\ (req' = req \/ req' = [req EXCEPT ![t] = NoRequest])
  BY DEF Find, Send, Idle, FlagClose, Notify, Test, Kill, Fault, Goto, Replied, Finish
<1>5. \/ reply' = [reply EXCEPT ![t] = NoReply]
      \/ reply' = reply /\ reply[t] = NoReply
  <2>1. CASE Fault(t)
    BY <2>1 DEF Fault, Sent
  <2>2. CASE ~Fault(t)
    <3>1. reply' = reply /\ pc[t] \in {"parse", "lock", "flag", "notify", "test", "kill"}
      BY <2>2 DEF Find, Send, Idle, FlagClose, Notify, Test, Kill, Reach, Parses, http
    <3> QED BY <1>1, <3>1 DEF Replying
  <2> QED BY <2>1, <2>2
<1> QED BY <1>2, <1>3, <1>4, <1>5 DEF Quiet

(* The steps that prepare an answer do.                                     *)
LEMMA PreparesAll ==
  ASSUME TypeOK, NEW t \in Threads, Hail(t) \/ Open(t) \/ FindClose(t)
  PROVE  Prepares(t) /\ req[t].from \in Clients /\ req[t].from # None
<1>1. ThreadTypes /\ HttpTypes
  BY Parts
<1>2. pc[t] = "parse" /\ req[t].from \in Clients /\ req[t].from # None
  BY <1>1, ThreadFacts DEF Hail, Open, FindClose, Parses
<1>3. reply[t] = NoReply /\ length \in Nat /\ HailSize \in Nat /\ HashSize \in Nat
  BY <1>1, <1>2 DEF HttpTypes, Replying, HailSize, HashSize
<1>4. CASE Hail(t)
  <2>1. Respond(t, Garbled, HailSize) /\ req[t].mode = "hail"
    BY <1>4 DEF Hail, Parses
  <2> QED BY <1>2, <1>3, <1>4, <2>1 DEF Hail, Goto, Prepares
<1>5. CASE Open(t)
  <2>1. Respond(t, req[t].from, HashSize) /\ req[t].mode = "open"
    BY <1>5 DEF Open, Parses
  <2> QED BY <1>2, <1>3, <1>5, <2>1 DEF Open, Goto, Prepares
<1>6. CASE FindClose(t)
  <2>1. Respond(t, Garbled, length) /\ req[t].mode = "close"
    BY <1>6 DEF FindClose, Parses
  <2> QED BY <1>2, <1>3, <1>6, <2>1 DEF FindClose, Goto, Prepares
<1> QED BY <1>4, <1>5, <1>6

(* The steps of sessions, and a request given up, are outside.              *)
LEMMA OutsideAll ==
  ASSUME TypeOK, NEW c \in Clients,
         GiveUp(c) \/ SessionReceive(c) \/ SessionSend(c) \/ SessionFails(c) \/ EndSession(c)
  PROVE  Outside
<1>1. CASE GiveUp(c)
  <2>1. /\ awaiting' = [awaiting EXCEPT ![c] = None] /\ client[c] # "new" /\ breaks' = breaks + 1
        /\ UNCHANGED <<pc, req, http, together, client, hash, misled>> /\ awaiting \in [Clients -> Threads \cup {None}]
        /\ breaks \in Nat
    BY <1>1 DEF GiveUp, threadVars, history, TypeOK
  <2>2. ~NobodyGaveUp'
    BY <2>1 DEF NobodyGaveUp
  <2> QED BY <2>1, <2>2 DEF Outside
<1>2. CASE ~GiveUp(c)
  <2>1. UNCHANGED <<clientVars, threadVars, history>>
    BY <1>2 DEF SessionReceive, SessionSend, SessionFails, EndSession, EndSessionDelete,
       EndSessionDefer, EndSessionFlag
  <2> QED BY <2>1 DEF Outside, clientVars, threadVars, history, NobodyGaveUp
<1> QED BY <1>1, <1>2

-----------------------------------------------------------------------------
(* How answers are mixed up. A client that is not told a hash yet has one   *)
(* request at most, hail or open, and so has every client as long as no     *)
(* request was given up. While the answer of an open waits to be sent,      *)
(* sResponse is that answer, in its length, and from the time its length is *)
(* put in mFields to the sending of the header that is what is there;       *)
(* otherwise another answer, or length, was made meanwhile.                 *)
Unhashed == \A c \in Clients : client[c] = "new" => hash[c] = None
Alone ==
  \A t \in Threads : req[t].from # None =>
    /\ req[t].mode \in {"hail", "open"} <=> client[req[t].from] = "new"
    /\ client[req[t].from] = "new" => awaiting[req[t].from] = t
OneEach == NobodyGaveUp => \A t \in Threads : req[t].from # None => awaiting[req[t].from] = t
Met(c) == \E d \in Clients : {c, d} \in together /\ (NobodyGaveUp \/ client[c] = "new" => d # c)
AnswerOrMet ==
  \A t \in Threads : pc[t] = "open" =>
    \/ Met(req[t].from)
    \/ sResponse = req[t].from /\ (IF reply[t].size = 0 THEN length ELSE reply[t].size) = HashSize
LengthOrMet ==
  \A t \in Threads : reply[t].size # 0 =>
    Met(req[t].from) \/ (IF reply[t].told = 0 THEN mFields ELSE reply[t].told) = reply[t].size
HeaderLast == \A t \in Threads : reply[t].size = 0 => reply[t].told = 0
Mixing == Unhashed /\ Alone /\ OneEach /\ AnswerOrMet /\ LengthOrMet /\ HeaderLast /\ MixedOnlyTogether

(* Who has met another answer goes on having met it.                        *)
LEMMA MetStays ==
  ASSUME together \subseteq together', NobodyGaveUp' => NobodyGaveUp, NEW c,
         client'[c] = "new" => client[c] = "new", Met(c)
  PROVE  Met(c)'
BY DEF Met

(* Those who wait for different replies are not the same.                   *)
LEMMA OneMeets ==
  ASSUME TypeOK, Mixing, NEW t \in Threads, NEW u \in Threads, t # u, NEW c \in Clients, NEW d \in Clients,
         c = req[u].from, d = req[t].from, c # None, d # None, {d, c} \in together', UNCHANGED <<client, breaks>>
  PROVE  Met(c)'
<1>1. NobodyGaveUp \/ client[c] = "new" => d # c
  BY DEF Mixing, Alone, OneEach
<1>2. {c, d} = {d, c}
  OBVIOUS
<1>3. {c, d} \in together' /\ (NobodyGaveUp' <=> NobodyGaveUp) /\ client' = client
  BY <1>2 DEF NobodyGaveUp
<1> QED BY <1>1, <1>3 DEF Met

(* A step that changes none of what Mixing speaks of.                       *)
LEMMA MixingQuiet ==
  ASSUME TypeOK, Mixing, NEW t \in Threads, Quiet(t)
  PROVE  Mixing'
<1>1. PICK r \in {req[t], NoRequest}, l \in {"idle", "lock", "reply", "flag", "notify", "test", "kill", "fault"} :
        /\ pc' = [pc EXCEPT ![t] = l] /\ req' = [req EXCEPT ![t] = r]
        /\ \/ reply' = [reply EXCEPT ![t] = NoReply]
           \/ reply' = reply /\ reply[t] = NoReply
        /\ UNCHANGED <<client, hash, awaiting, misled, breaks, sResponse, length, mFields, together>>
  BY DEF Quiet, clientVars
<1>2. /\ pc \in [Threads -> Labels] /\ req \in [Threads -> Requests] /\ NoRequest.from = None
      /\ reply \in [Threads -> [size : Nat, told : Nat]] /\ NoReply.size = 0
  BY DEF TypeOK, NoRequest, NoReply
<1>3. ASSUME NEW u \in Threads
      PROVE  /\ req'[u] = req[u] \/ req'[u] = NoRequest
             /\ pc'[u] = "open" => u # t /\ pc[u] = "open"
             /\ u # t => req'[u] = req[u] /\ reply'[u] = reply[u]
             /\ u = t => reply'[u].size = 0
  BY <1>1, <1>2
<1>4. Unhashed' /\ MixedOnlyTogether'
  BY <1>1 DEF Mixing, Unhashed, MixedOnlyTogether, NobodyGaveUp
<1>5. Alone' /\ OneEach'
  BY <1>1, <1>2, <1>3 DEF Mixing, Alone, OneEach, NobodyGaveUp
<1>6. \A c : Met(c) <=> Met(c)'
  BY <1>1 DEF Met, NobodyGaveUp
<1>7. AnswerOrMet'
  <2>1. ASSUME NEW u \in Threads, pc'[u] = "open" PROVE pc[u] = "open" /\ req'[u] = req[u] /\ reply'[u] = reply[u]
    BY <1>3, <2>1
  <2> QED BY <1>1, <1>6, <2>1 DEF Mixing, AnswerOrMet
<1>8. LengthOrMet'
  <2>1. ASSUME NEW u \in Threads, reply'[u].size # 0 PROVE req'[u] = req[u] /\ reply'[u] = reply[u]
    BY <1>3, <2>1
  <2> QED BY <1>1, <1>6, <2>1 DEF Mixing, LengthOrMet
<1>9. HeaderLast'
  <2>1. ASSUME NEW u \in Threads PROVE reply'[u] = reply[u] \/ reply'[u] = NoReply
    BY <1>1, <1>2
  <2> QED BY <2>1 DEF Mixing, HeaderLast, NoReply
<1> QED BY <1>4, <1>5, <1>7, <1>8, <1>9 DEF Mixing

(* Sessions know nothing of it; only clients that have a hash give up.      *)
LEMMA MixingOutside ==
  ASSUME TypeOK, Mixing, Outside
  PROVE  Mixing'
<1>1. ThreadTypes
  BY Parts
<1>2. \A t \in Threads : req[t].from # None => req[t].from \in Clients
  BY <1>1, ThreadFacts
<1>3. \A c : Met(c) => Met(c)'
  BY DEF Met, Outside
<1>4. Unhashed' /\ AnswerOrMet' /\ LengthOrMet' /\ HeaderLast'
  BY <1>3 DEF Mixing, Unhashed, AnswerOrMet, LengthOrMet, HeaderLast, Outside, http
<1>5. MixedOnlyTogether'
  BY DEF Mixing, MixedOnlyTogether, Outside
<1>6. Alone' /\ OneEach'
  BY <1>2 DEF Mixing, Alone, OneEach, Outside
<1> QED BY <1>4, <1>5, <1>6 DEF Mixing

(* An answer that replaces another has met it.                              *)
LEMMA MixingPrepares ==
  ASSUME TypeOK, Mixing, NEW t \in Threads, Prepares(t), req[t].from \in Clients, req[t].from # None
  PROVE  Mixing'
<1>1. ThreadTypes /\ HttpTypes
  BY Parts
<1>2. PICK a \in Clients \cup {Garbled}, n \in Nat :
        /\ pc[t] = "parse" /\ pc' = [pc EXCEPT ![t] = req[t].mode] /\ req' = req
        /\ sResponse' = a /\ length' = n /\ together' = together \cup {{req[t].from, c} : c \in Answering}
        /\ UNCHANGED <<client, hash, awaiting, misled, breaks, reply, mFields>> /\ reply[t] = NoReply
        /\ req[t].mode = "open" => a = req[t].from /\ n = HashSize
  BY DEF Prepares, Respond, clientVars
<1>3. Unhashed' /\ Alone' /\ OneEach'
  BY <1>2 DEF Mixing, Unhashed, Alone, OneEach, NobodyGaveUp
<1>4. MixedOnlyTogether'
  BY <1>2 DEF Mixing, MixedOnlyTogether, NobodyGaveUp
<1>5. ASSUME NEW c, Met(c) PROVE Met(c)'
  BY <1>2, <1>5 DEF Met, NobodyGaveUp
<1>6. ASSUME NEW u \in Threads, pc'[u] = "open"
      PROVE  \/ Met(req[u].from)'
             \/ sResponse' = req[u].from /\ (IF reply[u].size = 0 THEN length' ELSE reply[u].size) = HashSize
  <2>1. CASE u = t
    <3>1. req[t].mode = "open"
      BY <1>1, <1>2, <1>6, <2>1 DEF ThreadTypes
    <3>2. reply[u].size = 0
      BY <1>2, <2>1 DEF NoReply
    <3> QED BY <1>2, <2>1, <3>1, <3>2
  <2>2. CASE u # t
    <3>1. pc[u] = "open"
      BY <1>1, <1>2, <1>6, <2>2 DEF ThreadTypes
    <3>2. req[u].from \in Clients /\ req[u].from # None
      BY <1>1, <3>1, ThreadFacts
    <3>3. req[u].from \in Answering
      BY <3>1 DEF Answering
    <3>4. {req[t].from, req[u].from} \in together'
      BY <1>2, <3>3
    <3>5. PICK c \in Clients : c = req[u].from /\ c # None /\ c = req'[u].from
      BY <1>2, <3>2
    <3>6. Met(c)'
      BY <1>2, <2>2, <3>4, <3>5, OneMeets
    <3> QED BY <3>5, <3>6 DEF Met
  <2> QED BY <2>1, <2>2
<1>7. AnswerOrMet'
  BY <1>2, <1>6 DEF AnswerOrMet
<1>8. LengthOrMet' /\ HeaderLast'
  BY <1>2, <1>5 DEF Mixing, LengthOrMet, HeaderLast
<1> QED BY <1>3, <1>4, <1>7, <1>8 DEF Mixing

(* A length that replaces another before its header was sent has met it.    *)
LEMMA MixingLength ==
  ASSUME TypeOK, Mixing, NEW t \in Threads, SetLength(t)
  PROVE  Mixing'
<1>1. ThreadTypes /\ HttpTypes
  BY Parts
<1> DEFINE n == Size(t)
<1>2. /\ pc[t] \in Replying /\ reply[t].size = 0
      /\ reply' = [reply EXCEPT ![t].size = n] /\ mFields' = n
      /\ together' = together \cup {{req[t].from, req[u].from} : u \in Heading}
      /\ UNCHANGED <<client, hash, awaiting, misled, breaks, pc, req, sResponse, length>>
      /\ pc[t] = "open" => n = length
  BY DEF SetLength, Reach, Replying, clientVars, Size
<1> HIDE DEF n
<1>3. /\ reply \in [Threads -> [size : Nat, told : Nat]]
      /\ \A u \in Threads : u # t => reply'[u] = reply[u]
      /\ reply'[t].size = n /\ reply'[t].told = reply[t].told
  BY <1>1, <1>2 DEF HttpTypes
<1>4. ASSUME NEW u \in Threads, reply[u].size # 0 PROVE req[u].from \in Clients /\ req[u].from # None /\ u # t
  <2>1. pc[u] \in Replying
    BY <1>1, <1>4 DEF HttpTypes, NoReply
  <2> QED BY <1>1, <1>2, <1>4, <2>1, ThreadFacts DEF Replying
<1>5. req[t].from \in Clients /\ req[t].from # None
  BY <1>1, <1>2, ThreadFacts DEF Replying
<1>6. Unhashed' /\ Alone' /\ OneEach'
  BY <1>2 DEF Mixing, Unhashed, Alone, OneEach, NobodyGaveUp
<1>7. MixedOnlyTogether'
  BY <1>2 DEF Mixing, MixedOnlyTogether, NobodyGaveUp
<1>8. ASSUME NEW u \in Threads, Met(req[u].from) PROVE Met(req[u].from)'
  BY <1>2, <1>8 DEF Met, NobodyGaveUp
<1>9. ASSUME NEW u \in Threads, pc[u] = "open"
      PROVE  \/ Met(req[u].from)'
             \/ sResponse = req[u].from /\ (IF reply'[u].size = 0 THEN length ELSE reply'[u].size) = HashSize
  <2>1. \/ Met(req[u].from)
        \/ sResponse = req[u].from /\ (IF reply[u].size = 0 THEN length ELSE reply[u].size) = HashSize
    BY <1>9 DEF Mixing, AnswerOrMet
  <2>2. CASE u = t
    BY <1>2, <1>3, <1>8, <1>9, <2>1, <2>2
  <2>3. CASE u # t
    BY <1>3, <1>8, <2>1, <2>3
  <2> QED BY <2>2, <2>3
<1>10. AnswerOrMet'
  BY <1>2, <1>9 DEF AnswerOrMet
<1>11. ASSUME NEW u \in Threads, reply'[u].size # 0
       PROVE  Met(req[u].from)' \/ (IF reply'[u].told = 0 THEN mFields' ELSE reply'[u].told) = reply'[u].size
  <2>1. CASE u = t
    <3>1. reply[t].told = 0
      BY <1>2 DEF Mixing, HeaderLast
    <3> QED BY <1>2, <1>3, <2>1, <3>1
  <2>2. CASE u # t
    <3>1. reply'[u] = reply[u] /\ reply[u].size # 0
      BY <1>3, <1>11, <2>2
    <3>2. Met(req[u].from) \/ (IF reply[u].told = 0 THEN mFields ELSE reply[u].told) = reply[u].size
      BY <3>1 DEF Mixing, LengthOrMet
    <3>3. CASE u \in Heading
      <4>1. {req[t].from, req[u].from} \in together'
        BY <1>2, <3>3
      <4>2. PICK c \in Clients : c = req[u].from /\ c # None /\ c = req'[u].from
        BY <1>2, <1>4, <3>1
      <4>3. Met(c)'
        BY <1>2, <1>5, <2>2, <4>1, <4>2, OneMeets
      <4> QED BY <4>2, <4>3 DEF Met
    <3>4. CASE u \notin Heading
      <4>1. reply[u].told # 0
        BY <3>1, <3>4 DEF Heading
      <4> QED BY <1>8, <3>1, <3>2, <4>1
    <3> QED BY <3>3, <3>4
  <2> QED BY <2>1, <2>2
<1>12. LengthOrMet'
  BY <1>2, <1>11 DEF LengthOrMet
<1>13. HeaderLast'
  BY <1>2, <1>3 DEF Mixing, HeaderLast
<1> QED BY <1>6, <1>7, <1>10, <1>12, <1>13 DEF Mixing

(* The header tells what is in the table.                                   *)
LEMMA MixingHeader ==
  ASSUME TypeOK, Mixing, NEW t \in Threads, SendHeader(t)
  PROVE  Mixing'
<1>1. HttpTypes
  BY Parts
<1>2. /\ reply[t].told = 0 /\ reply' = [reply EXCEPT ![t].told = mFields]
      /\ UNCHANGED <<client, hash, awaiting, misled, breaks, pc, req, sResponse, length, mFields, together>>
  BY DEF SendHeader, Heading, clientVars, history
<1>3. /\ \A u \in Threads : u # t => reply'[u] = reply[u]
      /\ reply'[t].told = mFields /\ reply'[t].size = reply[t].size
  BY <1>1, <1>2 DEF HttpTypes
<1>4. Unhashed' /\ Alone' /\ OneEach' /\ MixedOnlyTogether'
  BY <1>2 DEF Mixing, Unhashed, Alone, OneEach, NobodyGaveUp, MixedOnlyTogether
<1>5. \A c : Met(c) <=> Met(c)'
  BY <1>2 DEF Met, NobodyGaveUp
<1>6. \A u \in Threads : reply'[u].size = reply[u].size
  BY <1>3
<1>7. AnswerOrMet'
  BY <1>2, <1>5, <1>6 DEF Mixing, AnswerOrMet
<1>8. ASSUME NEW u \in Threads, reply'[u].size # 0
      PROVE  Met(req[u].from) \/ (IF reply'[u].told = 0 THEN mFields ELSE reply'[u].told) = reply'[u].size
  <2>1. Met(req[u].from) \/ (IF reply[u].told = 0 THEN mFields ELSE reply[u].told) = reply[u].size
    BY <1>6, <1>8 DEF Mixing, LengthOrMet
  <2> QED BY <1>2, <1>3, <2>1
<1>9. LengthOrMet'
  BY <1>2, <1>5, <1>8 DEF LengthOrMet
<1>10. HeaderLast'
  BY <1>3, <1>6 DEF Mixing, HeaderLast, SendHeader, Heading
<1> QED BY <1>4, <1>7, <1>9, <1>10 DEF Mixing

(* A reply ends the only request of a client that was not told a hash yet.  *)
LEMMA MixingReplies ==
  ASSUME TypeOK, Mixing, NEW t \in Threads, Replies(t), req[t].from \in Clients, req[t].from # None
  PROVE  Mixing'
<1>1. ThreadTypes /\ ClientTypes /\ HttpTypes
  BY Parts
<1> DEFINE c == req[t].from
<1>2. PICK st \in {"new", "open", "failed", "closed"}, h \in Hashes, o \in Seq(Clients \X Nat), l \in {"idle", "test", "flag"} :
        /\ Answer(t, st, h, o)
        /\ pc' = [pc EXCEPT ![t] = l] /\ req' = [req EXCEPT ![t] = NoRequest] /\ reply' = [reply EXCEPT ![t] = NoReply]
        /\ reply[t].told = 0 => reply[t].size = 0
        /\ UNCHANGED <<load, breaks, sResponse, length, mFields, together>>
        /\ \/ req[t].mode = "hail" /\ st = "new" /\ h = None
           \/ /\ req[t].mode = "open" /\ st = "open" /\ pc[t] = "open" /\ reply[t].told # 0
              /\ h = (IF Whole(t) THEN sResponse ELSE Garbled)
           \/ req[t].mode = "close" /\ st = "closed" /\ h = hash[c]
           \/ req[t].mode \in {"send", "idle"} /\ st \in {"open", "failed"} /\ h = hash[c]
  BY DEF Replies
<1>3. ASSUME NEW u \in Threads
      PROVE  /\ u # t => req'[u] = req[u] /\ pc'[u] = pc[u] /\ reply'[u] = reply[u]
             /\ req'[t].from = None /\ pc'[t] # "open" /\ reply'[t].size = 0 /\ reply'[t].told = 0
  BY <1>1, <1>2 DEF ThreadTypes, HttpTypes, NoRequest, NoReply
<1>4. /\ misled' = IF Waits(t) /\ reply[t].told # reply[t].size THEN misled \cup {c} ELSE misled
      /\ Arrives(t) => /\ client' = [client EXCEPT ![c] = st] /\ hash' = [hash EXCEPT ![c] = h]
                       /\ awaiting' = [awaiting EXCEPT ![c] = None]
      /\ ~Arrives(t) => UNCHANGED <<client, hash, awaiting>>
  BY <1>2, AnswerCases
<1>5. ASSUME NEW u \in Threads, u # t, req[u].from = c PROVE client[c] # "new" /\ ~NobodyGaveUp
  BY <1>5 DEF Mixing, Alone, OneEach
<1>6. req[t].mode \in {"hail", "open"} <=> client[c] = "new"
  BY DEF Mixing, Alone
<1>7. Met(c) \/ reply[t].told = reply[t].size
  <2>1. reply[t].told = reply[t].size \/ (reply[t].told # 0 /\ reply[t].size # 0)
    BY <1>2 DEF Mixing, HeaderLast
  <2> QED BY <2>1 DEF Mixing, LengthOrMet
<1>8. req[t].mode = "open" => h = c \/ Met(c)
  <2>1. SUFFICES ASSUME req[t].mode = "open", ~Met(c) PROVE h = c
    OBVIOUS
  <2>2. pc[t] = "open" /\ reply[t].told # 0 /\ h = (IF Whole(t) THEN sResponse ELSE Garbled)
    BY <1>2, <2>1
  <2>3. reply[t].told = reply[t].size /\ reply[t].size # 0
    BY <1>7, <2>1, <2>2
  <2>4. sResponse = c /\ reply[t].size = HashSize
    BY <2>1, <2>2, <2>3 DEF Mixing, AnswerOrMet
  <2> QED BY <2>2, <2>3, <2>4 DEF Whole
<1>9. c \in Clients /\ c # None
  OBVIOUS
<1>10. c = req[t].from
  OBVIOUS
<1> HIDE DEF c
<1>11. ASSUME NEW d \in Clients, d # c PROVE client'[d] = client[d] /\ hash'[d] = hash[d] /\ awaiting'[d] = awaiting[d]
  BY <1>1, <1>4, <1>9, <1>11 DEF ClientTypes
<1>12. \/ client'[c] = client[c] /\ hash'[c] = hash[c] /\ awaiting'[c] = awaiting[c]
       \/ client'[c] = st /\ hash'[c] = h /\ awaiting'[c] = None
  BY <1>1, <1>4, <1>9 DEF ClientTypes
<1>13. client'[c] = "new" => client[c] = "new" /\ hash'[c] = None
  <2>1. st = "new" => client[c] = "new" /\ h = None
    BY <1>2, <1>6
  <2> QED BY <1>9, <1>12, <2>1 DEF Mixing, Unhashed
<1>14. ASSUME NEW d \in Clients, Met(d) PROVE Met(d)'
  <2>1. client'[d] = "new" => client[d] = "new"
    BY <1>11, <1>13
  <2>2. together' = together /\ NobodyGaveUp' = NobodyGaveUp
    BY <1>2 DEF NobodyGaveUp
  <2> QED BY <1>14, <2>1, <2>2, MetStays
<1>15. Unhashed'
  <2>1. ASSUME NEW d \in Clients, client'[d] = "new" PROVE hash'[d] = None
    BY <1>11, <1>13, <2>1 DEF Mixing, Unhashed
  <2> QED BY <2>1 DEF Unhashed
<1>16. ASSUME NEW u \in Threads, req'[u].from # None
       PROVE  /\ u # t /\ req'[u] = req[u] /\ req[u].from \in Clients
              /\ req[u].from = c => client[c] # "new" /\ ~NobodyGaveUp
  BY <1>1, <1>3, <1>5, <1>16, ThreadFacts
<1>17. Alone' /\ OneEach'
  <2>1. ASSUME NEW u \in Threads, req'[u].from # None
        PROVE  /\ req'[u].mode \in {"hail", "open"} <=> client'[req'[u].from] = "new"
               /\ client'[req'[u].from] = "new" => awaiting'[req'[u].from] = u
               /\ NobodyGaveUp' => awaiting'[req'[u].from] = u
    <3>1. /\ req[u].mode \in {"hail", "open"} <=> client[req[u].from] = "new"
          /\ client[req[u].from] = "new" => awaiting[req[u].from] = u
          /\ NobodyGaveUp => awaiting[req[u].from] = u
      BY <1>16, <2>1 DEF Mixing, Alone, OneEach
    <3>2. NobodyGaveUp' = NobodyGaveUp
      BY <1>2 DEF NobodyGaveUp
    <3>3. CASE req[u].from # c
      BY <1>11, <1>16, <2>1, <3>1, <3>2, <3>3
    <3>4. CASE req[u].from = c
      BY <1>13, <1>16, <2>1, <3>1, <3>2, <3>4
    <3> QED BY <3>3, <3>4
  <2> QED BY <2>1 DEF Alone, OneEach
<1>18. AnswerOrMet'
  <2>1. SUFFICES ASSUME NEW u \in Threads, pc'[u] = "open"
                 PROVE  \/ Met(req[u].from)'
                        \/ /\ sResponse' = req'[u].from
                           /\ (IF reply'[u].size = 0 THEN length' ELSE reply'[u].size) = HashSize
    BY DEF AnswerOrMet
  <2>2. u # t /\ pc[u] = "open" /\ req'[u] = req[u] /\ reply'[u] = reply[u]
    BY <1>3, <2>1
  <2>3. req[u].from \in Clients
    BY <1>1, <2>2, ThreadFacts
  <2>4. \/ Met(req[u].from)
        \/ sResponse = req[u].from /\ (IF reply[u].size = 0 THEN length ELSE reply[u].size) = HashSize
    BY <2>2 DEF Mixing, AnswerOrMet
  <2>5. Met(req[u].from) => Met(req[u].from)'
    <3>1. PICK d \in Clients : d = req[u].from /\ d = req'[u].from
      BY <2>2, <2>3
    <3>2. Met(d) => Met(d)'
      BY <1>14
    <3> QED BY <3>1, <3>2 DEF Met
  <2> QED BY <1>2, <2>2, <2>4, <2>5
<1>19. LengthOrMet'
  <2>1. SUFFICES ASSUME NEW u \in Threads, reply'[u].size # 0
                 PROVE  \/ Met(req[u].from)'
                        \/ (IF reply'[u].told = 0 THEN mFields' ELSE reply'[u].told) = reply'[u].size
    BY DEF LengthOrMet
  <2>2. u # t /\ reply[u].size # 0 /\ req'[u] = req[u] /\ reply'[u] = reply[u]
    BY <1>3, <2>1
  <2>3. pc[u] \in Replying
    BY <1>1, <2>2 DEF HttpTypes, NoReply
  <2>4. req[u].from \in Clients
    BY <1>1, <2>3, ThreadFacts DEF Replying
  <2>5. Met(req[u].from) \/ (IF reply[u].told = 0 THEN mFields ELSE reply[u].told) = reply[u].size
    BY <2>2 DEF Mixing, LengthOrMet
  <2>6. Met(req[u].from) => Met(req[u].from)'
    <3>1. PICK d \in Clients : d = req[u].from /\ d = req'[u].from
      BY <2>2, <2>4
    <3>2. Met(d) => Met(d)'
      BY <1>14
    <3> QED BY <3>1, <3>2 DEF Met
  <2> QED BY <1>2, <2>2, <2>5, <2>6
<1>20. HeaderLast'
  BY <1>3 DEF Mixing, HeaderLast
<1>21. MixedOnlyTogether'
  <2>1. SUFFICES ASSUME NEW d \in Clients
                 PROVE  /\ hash'[d] \notin {None, d} => \E e \in Clients \ {d} : {d, e} \in together
                        /\ d \in misled' => \E e \in Clients : {d, e} \in together /\ (NobodyGaveUp => e # d)
    BY <1>2 DEF MixedOnlyTogether, NobodyGaveUp
  <2>2. /\ hash[d] \notin {None, d} => \E e \in Clients \ {d} : {d, e} \in together
        /\ d \in misled => \E e \in Clients : {d, e} \in together /\ (NobodyGaveUp => e # d)
    BY DEF Mixing, MixedOnlyTogether
  <2>3. CASE d # c
    BY <1>4, <1>11, <2>2, <2>3
  <2>4. CASE d = c
    <3>1. hash'[c] = hash[c] \/ hash'[c] = None \/ (req[t].mode = "open" /\ hash'[c] = h)
      BY <1>2, <1>12
    <3>2. Met(c) /\ client[c] = "new" => \E e \in Clients \ {c} : {c, e} \in together
      BY DEF Met
    <3>3. hash'[d] \notin {None, d} => \E e \in Clients \ {d} : {d, e} \in together
      BY <1>6, <1>8, <2>2, <2>4, <3>1, <3>2
    <3>4. d \in misled' => d \in misled \/ Met(d)
      BY <1>4, <1>7, <2>4
    <3> QED BY <2>2, <3>3, <3>4 DEF Met
  <2> QED BY <2>3, <2>4
<1> QED BY <1>15, <1>17, <1>18, <1>19, <1>20, <1>21 DEF Mixing

(* A client that asks did not wait.                                         *)
LEMMA MixingAsk ==
  ASSUME TypeOK, Mixing, NEW t \in Threads, NEW c \in load.users, Ask(t, c)
  PROVE  Mixing'
<1>1. ThreadTypes /\ ClientTypes /\ c \in Clients
  BY Parts, TunnelAssumption DEF OtherTypes
<1>2. PICK m \in {"hail", "open", "send", "idle", "close"}, n \in 0..2 :
        Request(t, c, m, n) /\ (m \in {"hail", "open"} <=> client[c] = "new")
  BY DEF Ask
<1> DEFINE r == [mode |-> m, from |-> c, hash |-> hash[c], n |-> n, first |-> sent[c] + 1]
<1>3. /\ awaiting[c] = None /\ pc[t] = "idle" /\ pc' = [pc EXCEPT ![t] = "parse"] /\ req' = [req EXCEPT ![t] = r]
      /\ awaiting' = [awaiting EXCEPT ![c] = t]
      /\ UNCHANGED <<client, hash, misled, breaks, reply, sResponse, length, mFields, together>>
  BY <1>2 DEF Request, history, http
<1>4. r.from = c /\ r.mode = m
  OBVIOUS
<1> HIDE DEF r
<1>5. ASSUME NEW u \in Threads
      PROVE  /\ u # t => req'[u] = req[u] /\ pc'[u] = pc[u]
             /\ u = t => req'[u] = r /\ pc'[u] = "parse"
  BY <1>1, <1>3 DEF ThreadTypes
<1>6. Unhashed' /\ HeaderLast' /\ MixedOnlyTogether'
  BY <1>3 DEF Mixing, Unhashed, HeaderLast, MixedOnlyTogether, NobodyGaveUp
<1>7. \A d : Met(d) <=> Met(d)'
  BY <1>3 DEF Met, NobodyGaveUp
<1>8. AnswerOrMet'
  <2>1. ASSUME NEW u \in Threads, pc'[u] = "open" PROVE pc[u] = "open" /\ req'[u] = req[u]
    BY <1>5, <2>1
  <2> QED BY <1>3, <1>7, <2>1 DEF Mixing, AnswerOrMet
<1>9. LengthOrMet'
  <2>1. reply[t].size = 0
    BY <1>3, Parts DEF HttpTypes, Replying, NoReply
  <2>2. ASSUME NEW u \in Threads, reply'[u].size # 0 PROVE reply[u].size # 0 /\ req'[u] = req[u]
    BY <1>3, <1>5, <2>1, <2>2
  <2> QED BY <1>3, <1>7, <2>2 DEF Mixing, LengthOrMet
<1>10. ASSUME NEW u \in Threads, req'[u].from # None
       PROVE  /\ req'[u].mode \in {"hail", "open"} <=> client[req'[u].from] = "new"
              /\ client[req'[u].from] = "new" => awaiting'[req'[u].from] = u
              /\ NobodyGaveUp => awaiting'[req'[u].from] = u
  <2>1. CASE u = t
    BY <1>1, <1>2, <1>3, <1>4, <1>5, <2>1 DEF ClientTypes
  <2>2. CASE u # t
    <3>1. req'[u] = req[u] /\ req[u].from \in Clients
      BY <1>1, <1>5, <1>10, <2>2, ThreadFacts
    <3>2. /\ req[u].mode \in {"hail", "open"} <=> client[req[u].from] = "new"
          /\ client[req[u].from] = "new" => awaiting[req[u].from] = u
          /\ NobodyGaveUp => awaiting[req[u].from] = u
      BY <1>10, <3>1 DEF Mixing, Alone, OneEach
    <3>3. CASE req[u].from = c
      BY <1>3, <1>10, <3>1, <3>2, <3>3, TunnelAssumption
    <3>4. CASE req[u].from # c
      BY <1>1, <1>3, <3>1, <3>2, <3>4 DEF ClientTypes
    <3> QED BY <3>3, <3>4
  <2> QED BY <2>1, <2>2
<1>11. Alone' /\ OneEach'
  BY <1>3, <1>10 DEF Alone, OneEach, NobodyGaveUp
<1> QED BY <1>6, <1>8, <1>9, <1>11 DEF Mixing

(* Mixing is inductive.                                                     *)
LEMMA MixingNext == TypeOK /\ Mixing /\ [Next]_vars => Mixing'
<1> SUFFICES ASSUME TypeOK, Mixing, [Next]_vars PROVE Mixing'
  OBVIOUS
<1>1. CASE UNCHANGED vars \/ Done
  <2>1. Outside
    BY <1>1 DEF vars, Done, Outside, clientVars, threadVars, history, NobodyGaveUp
  <2> QED BY <2>1, MixingOutside
<1>2. CASE \E t \in Threads : \E c \in load.users : Ask(t, c)
  BY <1>2, MixingAsk
<1>3. CASE \E t \in Threads : Handle(t)
  BY <1>3, QuietAll, MixingQuiet, PreparesAll, MixingPrepares, RepliesAll, MixingReplies, MixingLength, MixingHeader
  DEF Handle
<1>4. CASE \E c \in Clients : GiveUp(c) \/ SessionReceive(c) \/ SessionSend(c) \/ SessionFails(c) \/ EndSession(c)
  BY <1>4, OutsideAll, MixingOutside
<1> QED BY <1>1, <1>2, <1>3, <1>4 DEF Next

(* Mixing holds at the start.                                               *)
LEMMA MixingInit == Init => Mixing
BY DEF Init, Mixing, Unhashed, Alone, OneEach, AnswerOrMet, LengthOrMet, HeaderLast, MixedOnlyTogether, NoRequest, NoReply

(* sResponse is one string, and mFields one table, for all HTTP sockets. A  *)
(* client is told a hash that is not its own, or none, only if its answer   *)
(* was in the one, or its length in the other, at the same time as another  *)
(* client's; and the length of another reply only so, or, when it gave up   *)
(* on a request, together with its own earlier reply. Replies that follow   *)
(* each other cannot be mixed up.                                           *)
THEOREM MixedTogether == Spec => []MixedOnlyTogether
<1>1. Mixing => MixedOnlyTogether
  BY DEF Mixing
<1> QED BY <1>1, TypeCorrect, MixingInit, MixingNext, PTL DEF Spec

-----------------------------------------------------------------------------
(* The input, through buffer_in: what the session has received and what is  *)
(* still unread in the buffer is what was accepted.                         *)
AllKept ==
  \A c \in Clients :
    received[c] \o SubSeq(conn[c].cells, conn[c].current + 1, conn[c].offset) = accepted[c]

(* The unread bytes of a buffer are numbers; each has its place.            *)
LEMMA UnreadBytes ==
  ASSUME NEW k \in Connections, k.current <= k.offset
  PROVE  /\ SubSeq(k.cells, k.current + 1, k.offset) \in Seq(Nat)
         /\ Len(SubSeq(k.cells, k.current + 1, k.offset)) = k.offset - k.current
         /\ \A i \in 1..k.offset - k.current :
              SubSeq(k.cells, k.current + 1, k.offset)[i] = k.cells[k.current + i]
<1> DEFINE a == k.current + 1
           b == k.offset
<1>1. k.cells \in [1..InSize -> Nat] /\ k.current \in Nat /\ b \in 0..InSize /\ InSize \in Nat
  BY TunnelAssumption DEF Connections
<1>2. a \in Int /\ b \in Int /\ \A i \in a..b : k.cells[i] \in Nat
  BY <1>1
<1> HIDE DEF a, b
<1>3. /\ SubSeq(k.cells, a, b) \in Seq(Nat)
      /\ Len(SubSeq(k.cells, a, b)) = IF a <= b THEN b - a + 1 ELSE 0
      /\ \A i \in 1..b - a + 1 : SubSeq(k.cells, a, b)[i] = k.cells[a + i - 1]
  BY <1>2, SubSeqProperties
<1> DEFINE ss == SubSeq(k.cells, a, b)
<1> HIDE DEF ss
<1>4. /\ ss \in Seq(Nat) /\ Len(ss) = IF a <= b THEN b - a + 1 ELSE 0
      /\ \A i \in 1..b - a + 1 : ss[i] = k.cells[a + i - 1]
  BY <1>3 DEF ss
<1>5. Len(ss) = k.offset - k.current /\ \A i \in 1..k.offset - k.current : ss[i] = k.cells[k.current + i]
  <2>1. b - a + 1 = k.offset - k.current /\ (a <= b \/ b - a + 1 = 0)
    BY <1>1 DEF a, b
  <2>2. \A i \in 1..k.offset - k.current : a + i - 1 = k.current + i
    BY <1>1 DEF a
  <2>3. Len(ss) = b - a + 1
    BY <1>4, <2>1
  <2> QED BY <1>4, <2>1, <2>2, <2>3
<1> QED BY <1>4, <1>5 DEF ss, a, b

(* A shift keeps them: they are moved to the front, in order.               *)
LEMMA ShiftKeeps ==
  ASSUME NEW k \in Connections, k.current <= k.offset
  PROVE  SubSeq(Shifted(k).cells, Shifted(k).current + 1, Shifted(k).offset)
           = SubSeq(k.cells, k.current + 1, k.offset)
<1> DEFINE kk == Shifted(k)
           s1 == SubSeq(kk.cells, kk.current + 1, kk.offset)
           s2 == SubSeq(k.cells, k.current + 1, k.offset)
           n == k.offset - k.current
<1>1. /\ kk \in Connections /\ kk.current = 0 /\ kk.offset = n
      /\ kk.cells = [i \in 1..InSize |-> IF i <= Unread(k) THEN k.cells[k.current + i] ELSE k.cells[i]]
  BY ShiftedFits
<1>2. k.current \in Nat /\ k.offset \in 0..InSize /\ InSize \in Nat /\ n \in 0..InSize /\ Unread(k) = n
  BY TunnelAssumption DEF Connections, Unread
<1> HIDE DEF kk, s1, s2, n
<1>3. /\ s1 \in Seq(Nat) /\ Len(s1) = n - 0 /\ \A i \in 1..n - 0 : s1[i] = kk.cells[0 + i]
  <2>1. kk.current <= kk.offset
    BY <1>1, <1>2
  <2> QED BY <1>1, <2>1, UnreadBytes DEF s1
<1>4. /\ s2 \in Seq(Nat) /\ Len(s2) = n /\ \A i \in 1..n : s2[i] = k.cells[k.current + i]
  BY UnreadBytes DEF s2, n
<1>5. \A i \in 1..n : kk.cells[i] = k.cells[k.current + i]
  BY <1>1, <1>2
<1>6. Len(s1) = n /\ \A i \in 1..n : s1[i] = kk.cells[i]
  BY <1>2, <1>3
<1>7. Len(s1) = Len(s2) /\ \A i \in 1..Len(s1) : s1[i] = s2[i]
  BY <1>4, <1>5, <1>6
<1>8. s1 = s2
  BY <1>3, <1>4, <1>7, SeqEqual
<1> QED BY <1>8 DEF s1, s2, kk

(* What is stored is put behind them.                                       *)
LEMMA StoreAppends ==
  ASSUME NEW k \in Connections, k.current = 0, NEW n \in Nat, NEW first \in Nat, k.offset + n <= InSize
  PROVE  LET kk == Stored(k, n, first) IN
         SubSeq(kk.cells, kk.current + 1, kk.offset)
           = SubSeq(k.cells, k.current + 1, k.offset) \o [i \in 1..n |-> first + i - 1]
<1> DEFINE kk == Stored(k, n, first)
           s1 == SubSeq(kk.cells, kk.current + 1, kk.offset)
           s2 == SubSeq(k.cells, k.current + 1, k.offset)
           s3 == [i \in 1..n |-> first + i - 1]
           m == k.offset
<1>1. /\ kk \in Connections /\ kk.current = 0 /\ kk.offset = m + n
      /\ kk.cells = [i \in 1..InSize |-> IF i \in m + 1..m + n THEN first + i - m - 1 ELSE k.cells[i]]
  BY StoredFits
<1>2. m \in Nat /\ InSize \in Nat /\ m + n \in 0..InSize
  BY TunnelAssumption DEF Connections
<1>3. s3 \in Seq(Nat) /\ Len(s3) = n /\ \A i \in 1..n : s3[i] = first + i - 1
  BY SentBytes
<1> HIDE DEF kk, s1, s2, s3, m
<1>4. s1 \in Seq(Nat) /\ Len(s1) = m + n /\ \A i \in 1..m + n : s1[i] = kk.cells[i]
  <2>1. kk.current <= kk.offset
    BY <1>1, <1>2
  <2>2. /\ s1 \in Seq(Nat) /\ Len(s1) = kk.offset - kk.current
        /\ \A i \in 1..kk.offset - kk.current : s1[i] = kk.cells[kk.current + i]
    BY ONLY <1>1, <2>1, UnreadBytes DEF s1
  <2>3. kk.offset - kk.current = m + n /\ m + n \in Nat
    BY <1>1, <1>2
  <2>4. ASSUME NEW i \in 1..m + n PROVE kk.current + i = i
    BY <1>1, <1>2
  <2> QED BY ONLY <2>2, <2>3, <2>4
<1>5. /\ s2 \in Seq(Nat) /\ Len(s2) = m - 0 /\ \A i \in 1..m - 0 : s2[i] = k.cells[0 + i]
  <2>1. k.current <= k.offset
    BY <1>2 DEF m
  <2>2. /\ s2 \in Seq(Nat) /\ Len(s2) = k.offset - k.current
        /\ \A i \in 1..k.offset - k.current : s2[i] = k.cells[k.current + i]
    BY ONLY <2>1, UnreadBytes DEF s2
  <2>3. k.current = 0 /\ k.offset = m
    BY DEF m
  <2> QED BY ONLY <2>2, <2>3
<1>6. /\ s2 \o s3 \in Seq(Nat) /\ Len(s2 \o s3) = Len(s2) + Len(s3)
      /\ \A i \in 1..Len(s2) + Len(s3) : (s2 \o s3)[i] = IF i <= Len(s2) THEN s2[i] ELSE s3[i - Len(s2)]
  BY ONLY <1>3, <1>5, ConcatProperties, ZenonT(30)
<1>7. Len(s2) = m /\ \A i \in 1..m : s2[i] = k.cells[i]
  BY <1>2, <1>5
<1> DEFINE s4 == s2 \o s3
<1> HIDE DEF s4
<1>8. s4 \in Seq(Nat) /\ Len(s4) = m + n /\ \A i \in 1..m + n : s4[i] = IF i <= m THEN s2[i] ELSE s3[i - m]
  BY <1>3, <1>6, <1>7 DEF s4
<1>9. ASSUME NEW i \in 1..m + n PROVE s1[i] = s4[i]
  <2>1. i \in 1..InSize /\ s1[i] = kk.cells[i]
    BY <1>2, <1>4
  <2>2. CASE i <= m
    BY <1>1, <1>2, <1>7, <1>8, <2>1, <2>2
  <2>3. CASE i > m
    <3>1. i - m \in 1..n /\ first + (i - m) - 1 = first + i - m - 1 /\ i \in m + 1..m + n
      BY <1>2, <2>3
    <3>2. s4[i] = s3[i - m]
      BY <1>2, <1>8, <2>3
    <3>3. s3[i - m] = first + (i - m) - 1
      BY <1>3, <3>1
    <3> QED BY <1>1, <2>1, <3>1, <3>2, <3>3
  <2> QED BY <1>2, <2>2, <2>3
<1>10. s1 = s4
  BY <1>4, <1>8, <1>9, SeqEqual
<1> QED BY <1>10 DEF s4, s1, s2, s3, kk

(* A step that leaves the bytes in the buffers where they are.              *)
BytesStay ==
  /\ UNCHANGED <<accepted, received>>
  /\ \A c \in Clients : /\ conn'[c].cells = conn[c].cells
                         /\ conn'[c].current = conn[c].current /\ conn'[c].offset = conn[c].offset

(* It keeps what is kept.                                                   *)
LEMMA StayKept == AllKept /\ BytesStay => AllKept'
<1> SUFFICES ASSUME AllKept, BytesStay, NEW c \in Clients
             PROVE  received'[c] \o SubSeq(conn'[c].cells, conn'[c].current + 1, conn'[c].offset) = accepted'[c]
  BY DEF AllKept
<1>1. /\ conn'[c].cells = conn[c].cells /\ conn'[c].current = conn[c].current
      /\ conn'[c].offset = conn[c].offset /\ received' = received /\ accepted' = accepted
  BY DEF BytesStay
<1>2. received[c] \o SubSeq(conn[c].cells, conn[c].current + 1, conn[c].offset) = accepted[c]
  BY DEF AllKept
<1> QED BY ONLY <1>1, <1>2, Zenon

(* All steps but a SEND and a receive() leave the bytes where they are.     *)
LEMMA StayThread ==
  ASSUME TypeOK, NEW t \in Threads, Handle(t), ~Send(t), ~SendOverflow(t)
  PROVE  BytesStay
<1>1. ThreadTypes /\ BufferTypes
  BY Parts
<1>2. CASE UNCHANGED conn
  BY <1>2 DEF BytesStay, Handle, Hail, Open, Find, NotFound, FindClose, NotFoundClose, SetLength, SendHeader,
              ReplyHail, ReplyOpen, ReplyClose, Idle, Reply, FlagClose, Notify, Test, Kill, Fault, connVars
<1>3. CASE Reply(t) \/ FlagClose(t)
  <2> DEFINE c == ptr[t]
  <2>1. c \in Clients
    BY <1>1, <1>3, ThreadFacts DEF Reply, FlagClose, Reach, Sends
  <2>2. UNCHANGED <<accepted, received>>
    BY <1>3 DEF Reply, FlagClose
  <2>3. conn' = [conn EXCEPT ![c] = [conn[c] EXCEPT !.out = <<>>]] \/ conn' = [conn EXCEPT ![c] = [conn[c] EXCEPT !.external = TRUE]]
    BY <1>3 DEF Reply, FlagClose, Emptied
  <2> HIDE DEF c
  <2>4. conn \in [Clients -> Connections]
    BY <1>1 DEF BufferTypes
  <2>5. ASSUME NEW d \in Clients
        PROVE  conn'[d].cells = conn[d].cells /\ conn'[d].current = conn[d].current /\ conn'[d].offset = conn[d].offset
    <3>1. conn[d] \in Connections
      BY <2>4
    <3>2. conn'[d] = conn[d] \/ conn'[d] = [conn[d] EXCEPT !.out = <<>>] \/ conn'[d] = [conn[d] EXCEPT !.external = TRUE]
      BY <2>1, <2>3, <2>4
    <3> HIDE DEF c
    <3> QED BY <3>1, <3>2 DEF Connections
  <2> QED BY <2>2, <2>5 DEF BytesStay
<1>4. CASE ~(UNCHANGED conn)
  BY <1>3, <1>4 DEF Handle, Hail, Open, Find, NotFound, FindClose, NotFoundClose, SetLength, SendHeader,
              ReplyHail, ReplyOpen, ReplyClose, Idle, Notify, Test, Kill, Fault, connVars
<1> QED BY <1>2, <1>4

(* Nor do the other steps of sessions.                                      *)
LEMMA StaySession ==
  ASSUME TypeOK, NEW c \in Clients,
         GiveUp(c) \/ (SessionReceive(c) /\ End(c)) \/ SessionSend(c) \/ SessionFails(c) \/ EndSession(c)
  PROVE  BytesStay
<1>1. BufferTypes
  BY Parts
<1>2. UNCHANGED <<accepted, received>>
  BY DEF GiveUp, SessionReceive, SessionSend, SessionFails, EndSession, EndSessionDelete, EndSessionDefer,
         EndSessionFlag, End, connVars
<1>3. \/ UNCHANGED conn
      \/ conn' = [conn EXCEPT ![c] = [conn[c] EXCEPT !.out = Append(conn[c].out, written[c] + 1)]]
      \/ conn' = [conn EXCEPT ![c] = [conn[c] EXCEPT !.internal = TRUE]]
  BY DEF GiveUp, SessionReceive, SessionSend, SessionFails, EndSession, EndSessionDelete, EndSessionDefer,
         EndSessionFlag, End, connVars
<1>4. conn \in [Clients -> Connections]
  BY <1>1 DEF BufferTypes
<1>5. ASSUME NEW d \in Clients
      PROVE  conn'[d].cells = conn[d].cells /\ conn'[d].current = conn[d].current /\ conn'[d].offset = conn[d].offset
  <2>1. conn[d] \in Connections
    BY <1>4
  <2>2. CASE UNCHANGED conn
    BY <2>2
  <2>3. CASE conn' = [conn EXCEPT ![c] = [conn[c] EXCEPT !.out = Append(conn[c].out, written[c] + 1)]]
    <3>1. conn'[d] = conn[d] \/ conn'[d] = [conn[d] EXCEPT !.out = Append(conn[c].out, written[c] + 1)]
      BY <1>4, <2>3, Zenon
    <3> QED BY ONLY <2>1, <3>1 DEF Connections
  <2>4. CASE conn' = [conn EXCEPT ![c] = [conn[c] EXCEPT !.internal = TRUE]]
    <3>1. conn'[d] = conn[d] \/ conn'[d] = [conn[d] EXCEPT !.internal = TRUE]
      BY <1>4, <2>4, Zenon
    <3> QED BY ONLY <2>1, <3>1 DEF Connections
  <2> QED BY <1>3, <2>2, <2>3, <2>4
<1> QED BY <1>2, <1>5 DEF BytesStay

(* receive() moves bytes from the front of what is unread to the end of     *)
(* what was received.                                                       *)
LEMMA ReceiveKept ==
  ASSUME TypeOK, AllKept, NEW c \in Clients, SessionReceive(c), ~End(c)
  PROVE  AllKept'
<1>1. BufferTypes /\ SessionTypes
  BY Parts
<1> DEFINE k == conn[c]
<1>2. PICK n \in 1..Unread(k) :
            /\ received' = [received EXCEPT ![c] = @ \o SubSeq(k.cells, k.current + 1, k.current + n)]
            /\ conn' = [conn EXCEPT ![c] = [k EXCEPT !.current = k.current + n]]
            /\ k.current + n \in Nat /\ k.current + n <= k.offset
            /\ SubSeq(k.cells, k.current + 1, k.current + n) \in Seq(Nat)
  BY <1>1, ReceiveStep
<1>3. /\ k \in Connections /\ k.cells \in Seq(Nat) /\ Len(k.cells) = InSize
      /\ k.current \in Nat /\ k.offset \in Nat /\ k.current <= k.offset /\ k.offset <= InSize
      /\ received[c] \in Seq(Nat) /\ InSize \in Nat
  BY <1>1, Cells, Buffer, TunnelAssumption DEF SessionTypes
<1>4. accepted' = accepted
  BY DEF SessionReceive
<1> DEFINE a == k.current + 1
           b == k.current + n
           e == k.offset
           kk == [k EXCEPT !.current = k.current + n]
<1>5. a \in 1..Len(k.cells) + 1 /\ b \in a - 1..Len(k.cells) /\ e \in b..Len(k.cells) /\ b + 1 \in Nat
  <2>1. n \in Nat
    BY <1>3 DEF Unread
  <2>2. k.current + n <= k.offset
    BY <1>2
  <2> HIDE DEF k
  <2> QED BY ONLY <1>3, <2>1, <2>2, SMTT(30)
<1>6. kk.cells = k.cells /\ kk.current = b /\ kk.offset = e
  BY <1>3 DEF Connections
<1>7. /\ received' = [received EXCEPT ![c] = received[c] \o SubSeq(k.cells, a, b)]
      /\ conn' = [conn EXCEPT ![c] = kk] /\ SubSeq(k.cells, a, b) \in Seq(Nat)
      /\ received[c] \o SubSeq(k.cells, a, e) = accepted[c]
  BY <1>2 DEF AllKept
<1> HIDE DEF a, b, e, kk
<1>8. SubSeq(k.cells, a, b) \o SubSeq(k.cells, b + 1, e) = SubSeq(k.cells, a, e)
  BY ONLY <1>3, <1>5, ConcatAdjacentSubSeq
<1>9. SubSeq(k.cells, b + 1, e) \in Seq(Nat)
  <2>1. \A i \in b + 1..e : k.cells[i] \in Nat
    <3>1. \A i \in b + 1..e : i \in 1..Len(k.cells)
      BY <1>3, <1>5 DEF a
    <3> QED BY <1>3, <3>1, ElementOfSeq
  <2>2. b + 1 \in Int /\ e \in Int
    BY <1>3, <1>5 DEF e
  <2> QED BY ONLY <2>1, <2>2, SubSeqProperties
<1>10. (received[c] \o SubSeq(k.cells, a, b)) \o SubSeq(k.cells, b + 1, e) = accepted[c]
  <2>1. (received[c] \o SubSeq(k.cells, a, b)) \o SubSeq(k.cells, b + 1, e)
          = received[c] \o (SubSeq(k.cells, a, b) \o SubSeq(k.cells, b + 1, e))
    <3>1. \A x, y, z \in Seq(Nat) : (x \o y) \o z = x \o (y \o z)
      BY ONLY ConcatAssociative, SMTT(30)
    <3>2. received[c] \in Seq(Nat) /\ SubSeq(k.cells, a, b) \in Seq(Nat)
      BY <1>3, <1>7
    <3> QED BY ONLY <3>1, <3>2, <1>9, Zenon
  <2> QED BY ONLY <1>7, <1>8, <2>1
<1> SUFFICES ASSUME NEW d \in Clients
             PROVE  received'[d] \o SubSeq(conn'[d].cells, conn'[d].current + 1, conn'[d].offset) = accepted[d]
  BY <1>4 DEF AllKept
<1>11. conn \in [Clients -> Connections] /\ received \in [Clients -> Seq(Nat)]
  BY <1>1 DEF BufferTypes, SessionTypes
<1>12. CASE d = c
  <2>1. conn'[d] = kk /\ received'[d] = received[c] \o SubSeq(k.cells, a, b)
    BY <1>7, <1>11, <1>12
  <2> QED BY ONLY <1>6, <1>10, <1>12, <2>1
<1>13. CASE d # c
  <2>1. conn'[d] = conn[d] /\ received'[d] = received[d]
    BY <1>7, <1>11, <1>13
  <2>2. received[d] \o SubSeq(conn[d].cells, conn[d].current + 1, conn[d].offset) = accepted[d]
    BY DEF AllKept
  <2> QED BY ONLY <2>1, <2>2
<1> QED BY <1>12, <1>13

(* SEND moves the unread bytes to the front and puts the new ones, which    *)
(* are then accepted, behind them.                                          *)
LEMMA SendKept ==
  ASSUME TypeOK, AllKept, NEW t \in Threads, Send(t) \/ SendOverflow(t)
  PROVE  AllKept'
<1>1. ThreadTypes /\ BufferTypes /\ SessionTypes
  BY Parts
<1> DEFINE c == ptr[t]
           k == Shifted(conn[c])
           n == req[t].n
           f == req[t].first
           ss == SubSeq(conn[c].cells, conn[c].current + 1, conn[c].offset)
           new == [i \in 1..n |-> f + i - 1]
<1>2. c \in Clients /\ n \in Nat /\ f \in Nat
  BY <1>1, ThreadFacts DEF Send, SendOverflow, Reach
<1>3. /\ conn[c] \in Connections /\ conn[c].current <= conn[c].offset /\ received[c] \in Seq(Nat)
      /\ conn \in [Clients -> Connections] /\ accepted \in [Clients -> Seq(Nat)]
  BY <1>1, <1>2, Buffer DEF BufferTypes, SessionTypes
<1>4. received[c] \o ss = accepted[c] /\ ss \in Seq(Nat) /\ received' = received
  BY <1>2, <1>3, UnreadBytes DEF AllKept, Send, SendOverflow
<1>5. k \in Connections /\ k.current = 0 /\ SubSeq(k.cells, k.current + 1, k.offset) = ss
  BY ONLY <1>3, ShiftedFits, ShiftKeeps
<1>6. new \in Seq(Nat)
  BY <1>2, SentBytes
<1>7. ASSUME NEW kk, NEW x, conn' = [conn EXCEPT ![c] = kk], accepted' = [accepted EXCEPT ![c] = x],
             received[c] \o SubSeq(kk.cells, kk.current + 1, kk.offset) = x
      PROVE  AllKept'
  <2> HIDE DEF c
  <2> SUFFICES ASSUME NEW d \in Clients
               PROVE  received[d] \o SubSeq(conn'[d].cells, conn'[d].current + 1, conn'[d].offset) = accepted'[d]
    BY <1>4 DEF AllKept
  <2>1. CASE d = c
    <3>1. conn'[d] = kk /\ accepted'[d] = x
      BY <1>3, <1>7, <2>1
    <3> QED BY ONLY <1>7, <2>1, <3>1
  <2>2. CASE d # c
    <3>1. conn'[d] = conn[d] /\ accepted'[d] = accepted[d]
      BY <1>3, <1>7, <2>2
    <3>2. received[d] \o SubSeq(conn[d].cells, conn[d].current + 1, conn[d].offset) = accepted[d]
      BY DEF AllKept
    <3> QED BY ONLY <3>1, <3>2
  <2> QED BY <2>1, <2>2
<1>8. CASE SendOverflow(t)
  <2>1. conn' = [conn EXCEPT ![c] = k] /\ accepted' = accepted
    BY <1>8 DEF SendOverflow
  <2> HIDE DEF c, k
  <2>2. accepted' = [accepted EXCEPT ![c] = accepted[c]]
    BY <1>3, <2>1
  <2>3. received[c] \o SubSeq(k.cells, k.current + 1, k.offset) = accepted[c]
    BY ONLY <1>4, <1>5
  <2> QED BY <1>7, <2>1, <2>2, <2>3
<1>9. CASE Send(t)
  <2> DEFINE kk == Stored(k, n, f)
  <2>1. /\ k.offset + n <= InSize /\ conn' = [conn EXCEPT ![c] = kk]
        /\ accepted' = [accepted EXCEPT ![c] = accepted[c] \o new]
    BY <1>9 DEF Send
  <2>2. SubSeq(kk.cells, kk.current + 1, kk.offset) = SubSeq(k.cells, k.current + 1, k.offset) \o new
    BY ONLY <1>2, <1>5, <2>1, StoreAppends
  <2> HIDE DEF c, k, n, f, ss, new, kk
  <2>3. (received[c] \o ss) \o new = received[c] \o (ss \o new)
    <3>1. \A x, y, z \in Seq(Nat) : (x \o y) \o z = x \o (y \o z)
      BY ONLY ConcatAssociative, SMTT(30)
    <3>2. received[c] \in Seq(Nat) /\ ss \in Seq(Nat)
      BY <1>3, <1>4
    <3> QED BY ONLY <3>1, <3>2, <1>6, Zenon
  <2>4. received[c] \o SubSeq(kk.cells, kk.current + 1, kk.offset) = accepted[c] \o new
    BY ONLY <1>4, <1>5, <2>2, <2>3
  <2> QED BY <1>7, <2>1, <2>4
<1> QED BY <1>8, <1>9

(* AllKept is inductive.                                                    *)
LEMMA KeptInit == Init => AllKept
<1> SUFFICES ASSUME Init, NEW c \in Clients
             PROVE  received[c] \o SubSeq(conn[c].cells, conn[c].current + 1, conn[c].offset) = accepted[c]
  BY DEF AllKept
<1>1. received[c] = <<>> /\ accepted[c] = <<>> /\ conn[c].current = 0 /\ conn[c].offset = 0
  BY DEF Init, NewConnection
<1>2. SubSeq(conn[c].cells, conn[c].current + 1, conn[c].offset) = <<>>
  BY <1>1, SubSeqEmpty
<1>3. <<>> \o <<>> = <<>>
  BY ConcatEmptySeq
<1> QED BY ONLY <1>1, <1>2, <1>3

(* Every step keeps it.                                                     *)
LEMMA KeptNext == TypeOK /\ AllKept /\ [Next]_vars => AllKept'
<1> SUFFICES ASSUME TypeOK, AllKept, [Next]_vars PROVE AllKept'
  OBVIOUS
<1>1. CASE UNCHANGED vars \/ Done \/ \E t \in Threads : \E c \in load.users : Ask(t, c)
  <2>1. BytesStay
    BY <1>1 DEF vars, Done, Ask, Request, connVars, BytesStay
  <2> QED BY <2>1, StayKept
<1>2. CASE \E t \in Threads : Handle(t)
  BY <1>2, StayThread, StayKept, SendKept
<1>3. CASE \E c \in Clients : GiveUp(c) \/ SessionReceive(c) \/ SessionSend(c) \/ SessionFails(c) \/ EndSession(c)
  BY <1>3, StaySession, StayKept, ReceiveKept
<1> QED BY <1>1, <1>2, <1>3 DEF Next

-----------------------------------------------------------------------------
(* When nobody gave up and every client knows the hash of its own           *)
(* connection, or none, a client has one request at a time. What follows is *)
(* said of these states only.                                               *)
Sane == NobodyGaveUp /\ Unmixed

(* A thread with a request is the one its client waits for; the request has *)
(* the client's hash, and the pointer is to the client's connection.        *)
Single ==
  \A t \in Threads : req[t].from # None =>
    /\ awaiting[req[t].from] = t /\ req[t].hash = hash[req[t].from] /\ client[req[t].from] # "closed"
    /\ req[t].mode \in {"send", "idle"} => client[req[t].from] = "open"
    /\ ptr[t] \in {None, req[t].from}
Told == \A c \in Clients : client[c] # "new" => hash[c] = c

(* A client that was told a length that is too great waits for ever. It     *)
(* asks for nothing more, no more than one that has closed.                 *)
Stuck(c) == awaiting[c] # None /\ \A t \in Threads : req[t].from # c
Over(c) == client[c] = "closed" \/ Stuck(c)

(* The connection of a client is in the map from the answer to its open to  *)
(* the search of its close.                                                 *)
Opening(c) == \E t \in Threads : pc[t] = "open" /\ req[t].from = c
Closing(c) == \E t \in Threads : pc[t] = "close" /\ req[t].from = c
InMap(c) == c \in DOMAIN mUrl2Connection /\ mUrl2Connection[c] = c
Mapped ==
  \A c \in Clients : Opening(c) \/ (client[c] \in {"open", "failed"} /\ ~Closing(c) /\ ~Stuck(c)) => InMap(c)
Unmapped == \A c \in Clients : Closing(c) \/ client[c] = "closed" => c \notin DOMAIN mUrl2Connection
Unstarted == \A c \in Clients : client[c] = "new" /\ ~Opening(c) /\ ~Stuck(c) => session[c] = "none"

(* A connection is flagged by the only request that closes it, after the    *)
(* client was answered, and by its session; the last of them deletes it.    *)
Closed(c) == Over(c) /\ c \notin DOMAIN mUrl2Connection
Flagging == {t \in Threads : pc[t] \in {"flag", "notify"}}
FlagsOnce ==
  /\ \A t \in Flagging : Closed(ptr[t]) /\ (pc[t] = "flag" => ~conn[ptr[t]].external)
  /\ \A t, u \in Flagging : ptr[t] = ptr[u] => t = u
Flagged ==
  /\ \A c \in Clients : conn[c].external => Closed(c)
  /\ \A c \in Clients : conn[c].internal => session[c] = "dead"
DeletedOnce ==
  /\ \A c \in Clients : Deleted(c) => conn[c].external /\ session[c] = "dead" /\ deletes[c] = 1
  /\ \A t \in Threads : pc[t] = "kill" => BothEnded(conn[ptr[t]])
Orderly == Single /\ Told /\ Mapped /\ Unmapped /\ Unstarted /\ FlagsOnce /\ Flagged /\ DeletedOnce

(* A hash that was not one stays so, and a request that was given up stays  *)
(* given up: a state is only reached through sane ones when it is sane.     *)
LEMMA SaneBefore ==
  ASSUME TypeOK, Mixing, [Next]_vars, Sane'
  PROVE  Sane
<1>1. ThreadTypes /\ ClientTypes /\ OtherTypes
  BY Parts
<1>2. ASSUME UNCHANGED <<hash, breaks>> PROVE Sane
  BY <1>2 DEF Sane, NobodyGaveUp, Unmixed
<1>3. CASE UNCHANGED vars \/ Done \/ \E t \in Threads : \E c \in load.users : Ask(t, c)
  BY <1>2, <1>3 DEF vars, Done, clientVars, Ask, Request
<1>4. ASSUME NEW t \in Threads, Handle(t) PROVE Sane
  <2>1. CASE Quiet(t) \/ Prepares(t) \/ SetLength(t) \/ SendHeader(t)
    BY <1>2, <2>1 DEF Quiet, Prepares, SetLength, SendHeader, clientVars
  <2>2. CASE Replies(t) /\ req[t].from \in Clients /\ req[t].from # None
    <3> DEFINE c == req[t].from
    <3>1. PICK st \in {"new", "open", "failed", "closed"}, h \in Hashes, o \in Seq(Clients \X Nat) :
            /\ Answer(t, st, h, o) /\ breaks' = breaks
            /\ req[t].mode \in {"hail", "open"} \/ h = hash[c]
      BY <2>2 DEF Replies
    <3>2. req[t].mode \in {"hail", "open"} => hash[c] = None
      BY <2>2 DEF Mixing, Alone, Unhashed
    <3>3. hash' = [hash EXCEPT ![c] = h] \/ hash' = hash
      BY <3>1, AnswerCases
    <3> HIDE DEF c
    <3>4. \A d \in Clients : hash'[d] = hash[d] \/ (d = c /\ hash'[d] = h)
      BY <1>1, <3>3 DEF ClientTypes
    <3>5. \A d \in Clients : hash'[d] \in {None, d} => hash[d] \in {None, d}
      BY <3>1, <3>2, <3>4
    <3> QED BY <3>1, <3>5 DEF Sane, NobodyGaveUp, Unmixed
  <2> QED BY <1>4, <2>1, <2>2, QuietAll, PreparesAll, RepliesAll DEF Handle
<1>5. ASSUME NEW c \in Clients, GiveUp(c) PROVE Sane
  BY <1>1, <1>5 DEF Sane, NobodyGaveUp, GiveUp, OtherTypes
<1>6. CASE \E c \in Clients : SessionReceive(c) \/ SessionSend(c) \/ SessionFails(c) \/ EndSession(c)
  BY <1>2, <1>6 DEF SessionReceive, SessionSend, SessionFails, EndSession, EndSessionDelete, EndSessionDefer,
                    EndSessionFlag, clientVars
<1> QED BY <1>3, <1>4, <1>5, <1>6 DEF Next

(* A request that is searched for has a connection in the map: no request   *)
(* of a client that is sane is answered by NotFound.                        *)
LEMMA AllFound ==
  ASSUME TypeOK, Mixing, Orderly, NEW t \in Threads, pc[t] = "parse", req[t].mode \in {"send", "idle", "close"}
  PROVE  /\ req[t].from \in Clients /\ req[t].from # None /\ req[t].hash = req[t].from
         /\ Known(req[t].hash) /\ mUrl2Connection[req[t].hash] = req[t].from
         /\ client[req[t].from] \in {"open", "failed"}
<1>1. ThreadTypes /\ ClientTypes
  BY Parts
<1>2. req[t].from \in Clients /\ req[t].from # None
  BY <1>1, ThreadFacts
<1>3. awaiting[req[t].from] = t /\ req[t].hash = hash[req[t].from] /\ client[req[t].from] # "closed"
  BY <1>2 DEF Orderly, Single
<1>4. client[req[t].from] # "new"
  BY <1>2 DEF Mixing, Alone
<1>5. client[req[t].from] \in {"open", "failed"} /\ hash[req[t].from] = req[t].from
  BY <1>1, <1>2, <1>3, <1>4 DEF ClientTypes, Orderly, Told
<1>6. ~Closing(req[t].from)
  <2>1. ASSUME NEW u \in Threads, pc[u] = "close", req[u].from = req[t].from PROVE FALSE
    BY <1>2, <1>3, <2>1 DEF Orderly, Single
  <2> QED BY <2>1 DEF Closing
<1>7. InMap(req[t].from)
  BY <1>2, <1>5, <1>6 DEF Orderly, Mapped, Stuck
<1> QED BY <1>2, <1>3, <1>5, <1>7 DEF InMap, Known

(* So a reply is the one its client waits for, and tells it its own hash;   *)
(* or a length that is too great.                                           *)
LEMMA ReplyFacts ==
  ASSUME TypeOK, Mixing, Orderly, Sane', NEW t \in Threads, Replies(t), req[t].from \in Clients, req[t].from # None
  PROVE  \E c \in Clients :
         /\ c = req[t].from
         /\ req'[t] = NoRequest /\ pc'[t] \in {"idle", "test", "flag"}
         /\ \A u \in Threads \ {t} : req'[u] = req[u] /\ pc'[u] = pc[u]
         /\ \A d \in Clients \ {c} : client'[d] = client[d] /\ hash'[d] = hash[d] /\ awaiting'[d] = awaiting[d]
         /\ client'[c] # "new" => hash'[c] = c
         /\ Stuck(c)' => client'[c] = client[c]
         /\ req[t].mode = "hail" => client'[c] = "new" /\ client[c] = "new"
         /\ req[t].mode = "open" => (client'[c] = "open" \/ Stuck(c)') /\ client[c] = "new" /\ pc[t] = "open"
         /\ req[t].mode = "close" => client'[c] = "closed" \/ Stuck(c)'
         /\ req[t].mode \in {"send", "idle"} => client'[c] \in {"open", "failed"} /\ client[c] = "open"
         /\ req[t].mode \in {"hail", "open", "close", "send", "idle"}
<1>1. ThreadTypes /\ ClientTypes /\ OtherTypes
  BY Parts
<1>2. PICK c \in Clients : c = req[t].from /\ c # None
  OBVIOUS
<1>3. PICK st \in {"new", "open", "failed", "closed"}, h \in Hashes, o \in Seq(Clients \X Nat), l \in {"idle", "test", "flag"} :
        /\ Answer(t, st, h, o)
        /\ pc' = [pc EXCEPT ![t] = l] /\ req' = [req EXCEPT ![t] = NoRequest] /\ reply' = [reply EXCEPT ![t] = NoReply]
        /\ reply[t].told = 0 => reply[t].size = 0
        /\ UNCHANGED <<load, breaks, sResponse, length, mFields, together>>
        /\ \/ req[t].mode = "hail" /\ st = "new" /\ h = None
           \/ /\ req[t].mode = "open" /\ st = "open" /\ pc[t] = "open" /\ reply[t].told # 0
              /\ h = (IF Whole(t) THEN sResponse ELSE Garbled)
           \/ req[t].mode = "close" /\ st = "closed" /\ h = hash[req[t].from]
           \/ req[t].mode \in {"send", "idle"} /\ st \in {"open", "failed"} /\ h = hash[req[t].from]
  BY DEF Replies
<1>4. /\ awaiting[c] = t /\ (req[t].mode \in {"send", "idle"} => client[c] = "open")
      /\ (req[t].mode \in {"hail", "open"} <=> client[c] = "new") /\ (client[c] # "new" => hash[c] = c)
  BY <1>2 DEF Orderly, Single, Told, Mixing, Alone
<1>5. \/ /\ client' = [client EXCEPT ![c] = st] /\ hash' = [hash EXCEPT ![c] = h]
         /\ awaiting' = [awaiting EXCEPT ![c] = None]
      \/ UNCHANGED <<client, hash, awaiting>>
  BY <1>3, <1>2, AnswerCases
<1>6. sResponse # None /\ Garbled # None /\ t # None /\ hash'[c] \in {None, c}
  BY <1>1, TunnelAssumption DEF OtherTypes, Sane, Unmixed
<1>7. /\ req'[t] = NoRequest /\ NoRequest.from = None /\ pc'[t] \in {"idle", "test", "flag"}
      /\ \A u \in Threads \ {t} : req'[u] = req[u] /\ pc'[u] = pc[u]
  BY <1>1, <1>3 DEF ThreadTypes, NoRequest
<1>8. \A u \in Threads \ {t} : req[u].from # c
  BY <1>4, <1>2 DEF Orderly, Single
<1>9. CASE client' = [client EXCEPT ![c] = st] /\ hash' = [hash EXCEPT ![c] = h] /\ awaiting' = [awaiting EXCEPT ![c] = None]
  <2>1. /\ client'[c] = st /\ hash'[c] = h /\ awaiting'[c] = None
        /\ \A d \in Clients \ {c} : client'[d] = client[d] /\ hash'[d] = hash[d] /\ awaiting'[d] = awaiting[d]
    BY <1>1, <1>2, <1>9 DEF ClientTypes
  <2>2. st # "new" => h = c
    BY <1>3, <1>4, <1>6, <1>2, <2>1
  <2>3. ~Stuck(c)'
    BY <2>1 DEF Stuck
  <2> QED BY <1>3, <1>4, <1>7, <1>2, <2>1, <2>2, <2>3
<1>10. CASE UNCHANGED <<client, hash, awaiting>>
  <2>1. \A u \in Threads : req'[u].from # c
    BY <1>7, <1>8, <1>2
  <2>2. Stuck(c)'
    BY <1>4, <1>6, <1>10, <2>1 DEF Stuck
  <2> QED BY <1>3, <1>4, <1>7, <1>2, <1>10, <2>2
<1> QED BY <1>5, <1>9, <1>10

(* A thread leaves the others alone; as long as it has its request, its     *)
(* pointer is to the connection of the client.                              *)
LEMMA ThreadStep ==
  ASSUME TypeOK, Mixing, Orderly, NEW t \in Threads, Handle(t)
  PROVE  /\ \A u \in Threads \ {t} : pc'[u] = pc[u] /\ req'[u] = req[u] /\ ptr'[u] = ptr[u]
         /\ req'[t] = NoRequest \/ req'[t] = req[t]
         /\ req'[t].from # None => req'[t] = req[t] /\ ptr'[t] \in {None, req[t].from}
<1>1. ThreadTypes
  BY Parts
<1>2. ASSUME ~SetLength(t), ~SendHeader(t) PROVE \E l, p : Goto(t, l, p) \/ Replied(t, l, p)
  <2>1. CASE Hail(t) \/ Open(t) \/ Find(t) \/ FindClose(t) \/ Send(t) \/ Idle(t)
    BY <2>1 DEF Hail, Open, Find, FindClose, Send, Idle
  <2>2. CASE ReplyOpen(t) \/ ReplyClose(t) \/ Reply(t) \/ FlagClose(t) \/ Notify(t) \/ Fault(t)
    BY <2>2 DEF ReplyOpen, ReplyClose, Reply, FlagClose, Notify, Fault
  <2>3. Finish(t) \/ Refuse(t) => Replied(t, "idle", None)
    BY DEF Finish, Refuse, Replied
  <2>4. CASE NotFound(t) \/ NotFoundClose(t) \/ ReplyHail(t) \/ SendOverflow(t) \/ Kill(t)
    BY <2>3, <2>4 DEF NotFound, NotFoundClose, ReplyHail, SendOverflow, Kill
  <2>5. CASE Test(t)
    BY <2>3, <2>5 DEF Test
  <2> QED BY <1>2, <2>1, <2>2, <2>4, <2>5 DEF Handle
<1>3. /\ \A u \in Threads \ {t} : pc'[u] = pc[u] /\ req'[u] = req[u] /\ ptr'[u] = ptr[u]
      /\ req'[t] = req[t] \/ req'[t] = NoRequest
      /\ NoRequest.from = None
  BY <1>1, <1>2 DEF ThreadTypes, NoRequest, Goto, Replied, SetLength, SendHeader
<1>4. ASSUME NEW q, NEW l2, Goto(t, l2, q), q \in {None, req[t].from} PROVE ptr'[t] \in {None, req[t].from}
  BY <1>1, <1>4 DEF Goto, ThreadTypes
<1>5. ASSUME req'[t].from # None PROVE ptr'[t] \in {None, req[t].from}
  <2>1. CASE Hail(t) \/ Open(t)
    BY <1>4, <2>1 DEF Hail, Open
  <2>2. CASE Find(t) \/ FindClose(t)
    <3>1. pc[t] = "parse" /\ req[t].mode \in {"send", "idle", "close"}
      BY <2>2 DEF Find, FindClose, Parses
    <3> QED BY <1>4, <2>2, <3>1, AllFound DEF Find, FindClose
  <2>3. CASE Send(t) \/ Idle(t)
    <3>1. req[t].from # None /\ ptr[t] \in {None, req[t].from}
      BY <1>3, <1>5 DEF Orderly, Single
    <3> QED BY <1>4, <2>3, <3>1 DEF Send, Idle
  <2>4. CASE FlagClose(t) \/ Notify(t) \/ (Test(t) /\ BothEnded(conn[ptr[t]]))
    <3>1. req[t].from = None /\ req' = req
      BY <1>1, <2>4, ThreadFacts DEF FlagClose, Notify, Test, Reach, Goto
    <3> QED BY <1>5, <3>1
  <2>5. CASE \/ NotFound(t) \/ NotFoundClose(t) \/ ReplyHail(t) \/ ReplyOpen(t) \/ ReplyClose(t)
             \/ SendOverflow(t) \/ Reply(t) \/ Kill(t) \/ Fault(t)
             \/ (Test(t) /\ ~BothEnded(conn[ptr[t]]))
    <3>1. req' = [req EXCEPT ![t] = NoRequest]
      BY <2>5 DEF NotFound, NotFoundClose, ReplyHail, ReplyOpen, ReplyClose, SendOverflow, Reply, Kill, Fault,
                  Test, Refuse, Finish, Replied
    <3>2. req'[t].from = None
      BY <1>1, <3>1 DEF ThreadTypes, NoRequest
    <3> QED BY <1>5, <3>2
  <2>6. CASE SetLength(t) \/ SendHeader(t)
    BY <1>3, <1>5, <2>6 DEF Orderly, Single, SetLength, SendHeader
  <2> QED BY <2>1, <2>2, <2>3, <2>4, <2>5, <2>6 DEF Handle
<1> QED BY <1>3, <1>5

(* What a step of a thread does to the clients, when they are sane.         *)
LEMMA HandleKinds ==
  ASSUME TypeOK, Mixing, Orderly, Sane', NEW t \in Threads, Handle(t)
  PROVE  \/ UNCHANGED <<client, hash, awaiting>>
         \/ Replies(t) /\ req[t].from \in Clients /\ req[t].from # None
<1>1. CASE \/ Find(t) \/ Send(t) \/ Idle(t) \/ FlagClose(t) \/ Notify(t) \/ Test(t) \/ Kill(t) \/ Fault(t)
           \/ SetLength(t) \/ SendHeader(t)
  BY <1>1, QuietAll DEF Quiet, SetLength, SendHeader, clientVars
<1>2. CASE Hail(t) \/ Open(t) \/ FindClose(t)
  BY <1>2, PreparesAll DEF Prepares, clientVars
<1>3. CASE NotFound(t) \/ NotFoundClose(t) \/ ReplyHail(t) \/ ReplyOpen(t) \/ ReplyClose(t) \/ SendOverflow(t) \/ Reply(t)
  BY <1>3, RepliesAll
<1> QED BY <1>1, <1>2, <1>3 DEF Handle

(* A client that is over has no request, and stays so.                      *)
LEMMA OverAlone ==
  ASSUME Orderly, NEW c \in Clients, Over(c), NEW t \in Threads
  PROVE  req[t].from # c
BY TunnelAssumption DEF Over, Stuck, Orderly, Single

(* No step of a thread changes that.                                        *)
LEMMA OverStays ==
  ASSUME TypeOK, Mixing, Orderly, Sane', NEW t \in Threads, Handle(t), NEW c \in Clients
  PROVE  (Over(c) => Over(c)') /\ (Stuck(c) => Stuck(c)')
<1> SUFFICES ASSUME Over(c) PROVE Over(c)' /\ (Stuck(c) => Stuck(c)')
  BY DEF Over
<1>1. \A u \in Threads : req[u].from # c
  BY OverAlone
<1>2. client'[c] = client[c] /\ awaiting'[c] = awaiting[c]
  BY <1>1, HandleKinds, ReplyFacts
<1>3. \A u \in Threads : req'[u] = req[u] \/ req'[u] = NoRequest
  BY ThreadStep
<1>4. NoRequest.from # c
  BY TunnelAssumption DEF NoRequest
<1>5. \A u \in Threads : req'[u].from # c
  BY <1>1, <1>3, <1>4
<1> QED BY <1>2, <1>5 DEF Over, Stuck

(* A client keeps having one request, and knows its hash.                   *)
LEMMA SingleHandle ==
  ASSUME TypeOK, Mixing, Orderly, Sane', NEW t \in Threads, Handle(t)
  PROVE  Single' /\ Told'
<1>1. ThreadTypes
  BY Parts
<1>2. /\ \A u \in Threads \ {t} : pc'[u] = pc[u] /\ req'[u] = req[u] /\ ptr'[u] = ptr[u]
      /\ req'[t] = NoRequest \/ req'[t] = req[t]
      /\ req'[t].from # None => req'[t] = req[t] /\ ptr'[t] \in {None, req[t].from}
  BY ThreadStep
<1>3. CASE UNCHANGED <<client, hash, awaiting>>
  <2>1. Told'
    BY <1>3 DEF Orderly, Told
  <2>2. Single'
    <3>1. SUFFICES ASSUME NEW u \in Threads, req'[u].from # None
                   PROVE  /\ awaiting[req'[u].from] = u /\ req'[u].hash = hash[req'[u].from] /\ client[req'[u].from] # "closed"
                          /\ req'[u].mode \in {"send", "idle"} => client[req'[u].from] = "open"
                          /\ ptr'[u] \in {None, req'[u].from}
      BY <1>3 DEF Single
    <3>2. req'[u] = req[u]
      BY <1>2, <3>1
    <3>3. CASE u = t
      BY <1>2, <3>1, <3>2, <3>3 DEF Orderly, Single
    <3>4. CASE u # t
      BY <1>2, <3>1, <3>2, <3>4 DEF Orderly, Single
    <3> QED BY <3>3, <3>4
  <2> QED BY <2>1, <2>2
<1>4. CASE Replies(t) /\ req[t].from \in Clients /\ req[t].from # None
  <2> DEFINE c == req[t].from
  <2>1. /\ req'[t] = NoRequest
        /\ \A d \in Clients \ {c} : client'[d] = client[d] /\ hash'[d] = hash[d] /\ awaiting'[d] = awaiting[d]
        /\ client'[c] # "new" => hash'[c] = c
    BY <1>4, ReplyFacts
  <2>2. awaiting[c] = t
    BY <1>4 DEF Orderly, Single
  <2> HIDE DEF c
  <2>3. Told'
    BY <2>1 DEF Orderly, Told
  <2>4. Single'
    <3>1. SUFFICES ASSUME NEW u \in Threads, req'[u].from # None
                   PROVE  /\ awaiting'[req'[u].from] = u /\ req'[u].hash = hash'[req'[u].from] /\ client'[req'[u].from] # "closed"
                          /\ req'[u].mode \in {"send", "idle"} => client'[req'[u].from] = "open"
                          /\ ptr'[u] \in {None, req'[u].from}
      BY DEF Single
    <3>2. u # t /\ req'[u] = req[u] /\ ptr'[u] = ptr[u]
      BY <1>2, <2>1, <3>1 DEF NoRequest
    <3>3. /\ awaiting[req[u].from] = u /\ req[u].hash = hash[req[u].from] /\ client[req[u].from] # "closed"
          /\ req[u].mode \in {"send", "idle"} => client[req[u].from] = "open"
          /\ ptr[u] \in {None, req[u].from}
      BY <3>1, <3>2 DEF Orderly, Single
    <3>4. req[u].from \in Clients \ {c}
      BY <1>1, <2>2, <3>1, <3>2, <3>3, ThreadFacts
    <3> QED BY <2>1, <3>2, <3>3, <3>4
  <2> QED BY <2>3, <2>4
<1> QED BY <1>3, <1>4, HandleKinds

(* Nor does a client that asks break it.                                    *)
LEMMA SingleAsk ==
  ASSUME TypeOK, Mixing, Orderly, NEW t \in Threads, NEW c \in load.users, Ask(t, c)
  PROVE  Single' /\ Told'
<1>1. ThreadTypes /\ ClientTypes /\ c \in Clients
  BY Parts, TunnelAssumption DEF OtherTypes
<1>2. PICK m \in {"hail", "open", "send", "idle", "close"}, n \in 0..2 :
        /\ Request(t, c, m, n) /\ client[c] # "closed" /\ (m \in {"send", "idle"} => client[c] = "open")
  BY DEF Ask
<1> DEFINE r == [mode |-> m, from |-> c, hash |-> hash[c], n |-> n, first |-> sent[c] + 1]
<1>3. /\ awaiting[c] = None /\ req' = [req EXCEPT ![t] = r] /\ pc[t] = "idle"
      /\ awaiting' = [awaiting EXCEPT ![c] = t] /\ UNCHANGED <<client, hash, ptr>>
  BY <1>2 DEF Request
<1>4. r.from = c /\ r.mode = m /\ r.hash = hash[c]
  OBVIOUS
<1>5. ptr[t] = None
  BY <1>1, <1>3 DEF ThreadTypes, Fits
<1> HIDE DEF r
<1>6. Told'
  BY <1>3 DEF Orderly, Told
<1>7. Single'
  <2>1. SUFFICES ASSUME NEW u \in Threads, req'[u].from # None
                 PROVE  /\ awaiting'[req'[u].from] = u /\ req'[u].hash = hash[req'[u].from] /\ client[req'[u].from] # "closed"
                        /\ req'[u].mode \in {"send", "idle"} => client[req'[u].from] = "open"
                        /\ ptr[u] \in {None, req'[u].from}
    BY <1>3 DEF Single
  <2>2. CASE u = t
    <3>1. req'[u] = r /\ awaiting'[c] = t
      BY <1>1, <1>3, <2>2 DEF ThreadTypes, ClientTypes
    <3> QED BY <1>2, <1>4, <1>5, <2>2, <3>1
  <2>3. CASE u # t
    <3>1. req'[u] = req[u]
      BY <1>1, <1>3, <2>3 DEF ThreadTypes
    <3>2. /\ awaiting[req[u].from] = u /\ req[u].hash = hash[req[u].from] /\ client[req[u].from] # "closed"
          /\ req[u].mode \in {"send", "idle"} => client[req[u].from] = "open"
          /\ ptr[u] \in {None, req[u].from}
      BY <2>1, <3>1 DEF Orderly, Single
    <3>3. req[u].from # c /\ req[u].from \in Clients
      BY <1>1, <1>3, <2>1, <3>1, <3>2, TunnelAssumption, ThreadFacts
    <3>4. awaiting'[req[u].from] = awaiting[req[u].from]
      BY <1>1, <1>3, <3>3 DEF ClientTypes
    <3> QED BY <3>1, <3>2, <3>4
  <2> QED BY <2>2, <2>3
<1> QED BY <1>6, <1>7

(* A thread opens and closes for its own client only.                       *)
LEMMA Whose ==
  ASSUME TypeOK, Mixing, Orderly, NEW t \in Threads, Handle(t), NEW c \in Clients
  PROVE  /\ req[t].from # c => (Opening(c)' <=> Opening(c)) /\ (Closing(c)' <=> Closing(c))
         /\ req[t].from = c => /\ Opening(c) <=> pc[t] = "open"
                               /\ Closing(c) <=> pc[t] = "close"
                               /\ Opening(c)' <=> pc'[t] = "open" /\ req'[t] = req[t]
                               /\ Closing(c)' <=> pc'[t] = "close" /\ req'[t] = req[t]
<1>1. /\ \A u \in Threads \ {t} : pc'[u] = pc[u] /\ req'[u] = req[u]
      /\ req'[t] = NoRequest \/ req'[t] = req[t]
  BY ThreadStep
<1>2. NoRequest.from = None /\ c # None
  BY TunnelAssumption DEF NoRequest
<1>3. CASE req[t].from # c
  <2>1. req'[t].from # c
    BY <1>1, <1>2, <1>3
  <2>2. \A u \in Threads : req'[u].from = c => u # t
    BY <2>1
  <2>3. Opening(c)' <=> Opening(c)
    BY <1>1, <1>3, <2>2 DEF Opening
  <2>4. Closing(c)' <=> Closing(c)
    BY <1>1, <1>3, <2>2 DEF Closing
  <2> QED BY <1>3, <2>3, <2>4
<1>4. CASE req[t].from = c
  <2>1. \A u \in Threads \ {t} : req[u].from # c
    BY <1>2, <1>4 DEF Orderly, Single
  <2>2. \A u \in Threads \ {t} : req'[u].from # c
    BY <1>1, <2>1
  <2>3. req'[t].from = c <=> req'[t] = req[t]
    BY <1>1, <1>2, <1>4
  <2>4. (Opening(c) <=> pc[t] = "open") /\ (Closing(c) <=> pc[t] = "close")
    BY <1>4, <2>1 DEF Opening, Closing
  <2>5. Opening(c)' <=> pc'[t] = "open" /\ req'[t] = req[t]
    BY <2>2, <2>3 DEF Opening
  <2>6. Closing(c)' <=> pc'[t] = "close" /\ req'[t] = req[t]
    BY <2>2, <2>3 DEF Closing
  <2> QED BY <1>4, <2>4, <2>5, <2>6
<1> QED BY <1>3, <1>4

(* A connection that is about to be deleted is not in the map any more.     *)
LEMMA KillUnmapped ==
  ASSUME TypeOK, Orderly, NEW t \in Threads, pc[t] = "kill"
  PROVE  ptr[t] \in Clients /\ ptr[t] \notin DOMAIN mUrl2Connection
<1>1. ptr[t] \in Clients
  BY Parts, ThreadFacts
<1>2. conn[ptr[t]].external
  BY DEF Orderly, DeletedOnce, BothEnded
<1> QED BY <1>1, <1>2 DEF Orderly, Flagged, Closed

(* The entries of a client are put in the map and removed by its requests.  *)
LEMMA MapStep ==
  ASSUME TypeOK, Mixing, Orderly, NEW t \in Threads, Handle(t)
  PROVE  /\ \A c \in Clients \ {req[t].from} :
               (c \in DOMAIN mUrl2Connection' <=> c \in DOMAIN mUrl2Connection) /\ (InMap(c) => InMap(c)')
         /\ \A c \in Clients : Open(t) /\ req[t].from = c => InMap(c)'
         /\ FindClose(t) => req[t].from \in Clients /\ req[t].from \notin DOMAIN mUrl2Connection'
         /\ ~Open(t) /\ ~FindClose(t) =>
               /\ DOMAIN mUrl2Connection' = DOMAIN mUrl2Connection
               /\ \A c \in Clients : InMap(c) => InMap(c)'
<1>1. ThreadTypes /\ MapTypes
  BY Parts
<1>2. CASE Open(t)
  <2> DEFINE f == req[t].from
  <2>1. mUrl2Connection' = [h \in DOMAIN mUrl2Connection \cup {f} |-> IF h = f THEN f ELSE mUrl2Connection[h]]
    BY <1>2 DEF Open
  <2>2. f \in Clients
    BY <1>1, <1>2, ThreadFacts DEF Open, Parses
  <2>3. ~FindClose(t)
    BY <1>2 DEF Open, FindClose, Parses
  <2> HIDE DEF f
  <2>4. \A c \in Clients : c = f => InMap(c)'
    BY <2>1 DEF InMap
  <2>5. \A c \in Clients \ {f} : (c \in DOMAIN mUrl2Connection' <=> c \in DOMAIN mUrl2Connection) /\ (InMap(c) => InMap(c)')
    BY <2>1 DEF InMap
  <2> QED BY <1>2, <2>2, <2>3, <2>4, <2>5 DEF f
<1>3. CASE FindClose(t)
  <2> DEFINE f == req[t].from
  <2>1. f \in Clients /\ req[t].hash = f
    BY <1>3, AllFound DEF FindClose, Parses
  <2>2. mUrl2Connection' = Without(f)
    BY <1>3, <2>1 DEF FindClose
  <2>3. ~Open(t)
    BY <1>3 DEF Open, FindClose, Parses
  <2> HIDE DEF f
  <2>4. DOMAIN mUrl2Connection' = DOMAIN mUrl2Connection \ {f} /\ \A x \in DOMAIN mUrl2Connection' : mUrl2Connection'[x] = mUrl2Connection[x]
    BY <2>2 DEF Without
  <2>5. \A c \in Clients \ {f} : (c \in DOMAIN mUrl2Connection' <=> c \in DOMAIN mUrl2Connection) /\ (InMap(c) => InMap(c)')
    BY <2>4 DEF InMap
  <2> QED BY <1>3, <2>1, <2>3, <2>4, <2>5 DEF f
<1>4. CASE Kill(t)
  <2>1. pc[t] = "kill" /\ mUrl2Connection' = Without(ptr[t])
    BY <1>4 DEF Kill, Reach
  <2>2. ptr[t] \notin DOMAIN mUrl2Connection
    BY <2>1, KillUnmapped
  <2>3. DOMAIN mUrl2Connection' = DOMAIN mUrl2Connection /\ \A x \in DOMAIN mUrl2Connection' : mUrl2Connection'[x] = mUrl2Connection[x]
    BY <2>1, <2>2 DEF Without
  <2>4. \A c \in Clients : InMap(c) => InMap(c)'
    BY <2>3 DEF InMap
  <2>5. ~Open(t) /\ ~FindClose(t)
    BY <2>1 DEF Open, FindClose, Parses
  <2> QED BY <2>3, <2>4, <2>5
<1>5. CASE ~Open(t) /\ ~FindClose(t) /\ ~Kill(t)
  <2>1. ~NotFound(t) /\ ~NotFoundClose(t)
    BY AllFound DEF NotFound, NotFoundClose, Parses
  <2>2. mUrl2Connection' = mUrl2Connection
    BY <1>5, <2>1 DEF Handle, Hail, Find, SetLength, SendHeader, ReplyHail, ReplyOpen, ReplyClose, Send, SendOverflow,
                      Idle, Reply, FlagClose, Notify, Test, Fault, connVars
  <2> QED BY <1>5, <2>2 DEF InMap
<1> QED BY <1>2, <1>3, <1>4, <1>5

(* The connection of a client is in the map between its open and its close. *)
LEMMA MappedHandle ==
  ASSUME TypeOK, Mixing, Orderly, Sane', NEW t \in Threads, Handle(t)
  PROVE  Mapped' /\ Unmapped'
<1>1. ThreadTypes /\ ClientTypes
  BY Parts
<1>2. /\ ~Open(t) /\ ~FindClose(t) =>
           DOMAIN mUrl2Connection' = DOMAIN mUrl2Connection /\ \A c \in Clients : InMap(c) => InMap(c)'
      /\ FindClose(t) => req[t].from \in Clients /\ req[t].from \notin DOMAIN mUrl2Connection'
      /\ \A c \in Clients : Open(t) /\ req[t].from = c => InMap(c)'
      /\ \A c \in Clients \ {req[t].from} :
           (c \in DOMAIN mUrl2Connection' <=> c \in DOMAIN mUrl2Connection) /\ (InMap(c) => InMap(c)')
  BY MapStep
<1> SUFFICES ASSUME NEW c \in Clients
             PROVE  /\ Opening(c)' \/ (client'[c] \in {"open", "failed"} /\ ~Closing(c)' /\ ~Stuck(c)') => InMap(c)'
                    /\ Closing(c)' \/ client'[c] = "closed" => c \notin DOMAIN mUrl2Connection'
  BY DEF Mapped, Unmapped
<1>3. /\ Opening(c) \/ (client[c] \in {"open", "failed"} /\ ~Closing(c) /\ ~Stuck(c)) => InMap(c)
      /\ Closing(c) \/ client[c] = "closed" => c \notin DOMAIN mUrl2Connection
  BY DEF Orderly, Mapped, Unmapped
<1>4. CASE req[t].from # c
  <2>1. client'[c] = client[c]
    BY <1>4, HandleKinds, ReplyFacts
  <2>2. (Opening(c)' <=> Opening(c)) /\ (Closing(c)' <=> Closing(c)) /\ (Stuck(c) => Stuck(c)')
    BY <1>4, Whose, OverStays
  <2> QED BY <1>2, <1>3, <1>4, <2>1, <2>2
<1>5. CASE req[t].from = c
  <2>1. /\ Opening(c) <=> pc[t] = "open"
        /\ Closing(c) <=> pc[t] = "close"
        /\ Opening(c)' <=> (pc'[t] = "open" /\ req'[t] = req[t])
        /\ Closing(c)' <=> (pc'[t] = "close" /\ req'[t] = req[t])
    BY <1>5, Whose
  <2>2. /\ req[t].from # None /\ c # None /\ NoRequest # req[t]
        /\ (req[t].mode \in {"hail", "open"} <=> client[c] = "new") /\ client[c] # "closed" /\ ~Stuck(c)
    BY <1>5, TunnelAssumption DEF NoRequest, Mixing, Alone, Orderly, Single, Stuck
  <2>3. CASE Hail(t) \/ Open(t) \/ FindClose(t)
    <3>1. /\ pc[t] = "parse" /\ pc' = [pc EXCEPT ![t] = req[t].mode] /\ client' = client
          /\ Open(t) => req[t].mode = "open"
          /\ FindClose(t) => req[t].mode = "close"
          /\ Hail(t) => req[t].mode = "hail"
      BY <2>3 DEF Hail, Open, FindClose, Parses, Goto, clientVars
    <3>2. pc'[t] = req[t].mode
      BY <1>1, <3>1 DEF ThreadTypes
    <3>3. CASE Hail(t)
      BY <2>1, <2>2, <3>1, <3>2, <3>3
    <3>4. CASE Open(t)
      BY <1>2, <1>5, <2>1, <2>2, <3>1, <3>2, <3>4
    <3>5. CASE FindClose(t)
      <4>1. c \notin DOMAIN mUrl2Connection' /\ pc'[t] = "close" /\ req' = req
        BY <1>2, <1>5, <3>1, <3>2, <3>5 DEF FindClose, Goto
      <4>2. ~Opening(c)' /\ Closing(c)'
        BY <2>1, <4>1
      <4> QED BY <4>1, <4>2
    <3> QED BY <2>3, <3>3, <3>4, <3>5
  <2>4. CASE Find(t) \/ Send(t) \/ Idle(t) \/ FlagClose(t) \/ Notify(t) \/ Test(t) \/ Kill(t) \/ Fault(t)
    <3>1. pc[t] \notin {"open", "close"} /\ client' = client /\ ~Open(t) /\ ~FindClose(t)
      BY <2>4 DEF Find, Send, Idle, FlagClose, Notify, Test, Kill, Fault, Reach, Parses, Dangling,
         clientVars, Open, FindClose
    <3>2. pc'[t] \notin {"open", "close"}
      <4>1. PICK l \in {"idle", "lock", "reply", "flag", "notify", "test", "kill", "fault"} : pc' = [pc EXCEPT ![t] = l]
        BY <2>4, QuietAll DEF Quiet
      <4> QED BY <1>1, <4>1 DEF ThreadTypes
    <3> QED BY <1>2, <1>3, <2>1, <2>2, <3>1, <3>2
  <2>5. CASE ReplyHail(t) \/ ReplyOpen(t) \/ ReplyClose(t) \/ SendOverflow(t) \/ Reply(t)
    <3>1. Replies(t) /\ req[t].from \in Clients /\ ~Open(t) /\ ~FindClose(t)
      BY <2>5, RepliesAll DEF ReplyHail, ReplyOpen, ReplyClose, SendOverflow, Reply, Reach, Sends, Parses,
         Open, FindClose
    <3>2. /\ req'[t] = NoRequest /\ (Stuck(c)' => client'[c] = client[c])
          /\ req[t].mode = "hail" => client'[c] = "new"
          /\ req[t].mode = "open" => (client'[c] = "open" \/ Stuck(c)') /\ pc[t] = "open"
          /\ req[t].mode = "close" => client'[c] = "closed" \/ Stuck(c)'
          /\ req[t].mode \in {"send", "idle"} => client'[c] \in {"open", "failed"} /\ client[c] = "open"
          /\ req[t].mode \in {"hail", "open", "close", "send", "idle"}
      BY <1>5, <2>2, <3>1, ReplyFacts
    <3>3. /\ ReplyClose(t) => pc[t] = "close"
          /\ ~ReplyClose(t) => req[t].mode # "close"
          /\ pc[t] = "close" => req[t].mode = "close"
      BY <1>1, <2>5, ThreadFacts DEF ReplyHail, ReplyOpen, ReplyClose, SendOverflow, Reply, Reach, Sends
    <3>4. ~Opening(c)' /\ ~Closing(c)'
      BY <2>1, <2>2, <3>2
    <3>5. DOMAIN mUrl2Connection' = DOMAIN mUrl2Connection /\ (InMap(c) => InMap(c)')
      BY <1>2, <3>1
    <3>6. req[t].mode = "close" <=> pc[t] = "close"
      BY <3>3
    <3>7. Opening(c)' \/ (client'[c] \in {"open", "failed"} /\ ~Closing(c)' /\ ~Stuck(c)') => InMap(c)'
      BY <1>3, <2>1, <2>2, <3>2, <3>4, <3>5, <3>6
    <3>8. client'[c] = "closed" => pc[t] = "close"
      BY <2>2, <3>2, <3>6
    <3> QED BY <1>3, <2>1, <3>4, <3>5, <3>7, <3>8
  <2>6. ~NotFound(t) /\ ~NotFoundClose(t)
    BY AllFound DEF NotFound, NotFoundClose, Parses
  <2>7. CASE SetLength(t) \/ SendHeader(t)
    <3>1. UNCHANGED <<client, pc, req, mUrl2Connection>>
      BY <2>7 DEF SetLength, SendHeader, clientVars, connVars
    <3> QED BY <1>3, <2>1, <2>2, <3>1 DEF InMap
  <2> QED BY <2>3, <2>4, <2>5, <2>6, <2>7 DEF Handle
<1> QED BY <1>4, <1>5

(* The flags of a connection are only set, by the request that closes it,   *)
(* and its output is only taken by a reply.                                 *)
LEMMA FlagStep ==
  ASSUME TypeOK, NEW t \in Threads, Handle(t), NEW c \in Clients
  PROVE  /\ conn'[c].internal = conn[c].internal
         /\ conn[c].external => conn'[c].external
         /\ conn'[c].external # conn[c].external => FlagClose(t) /\ ptr[t] = c
         /\ conn'[c].out # conn[c].out => Reply(t) /\ ptr[t] = c
<1>1. ThreadTypes /\ BufferTypes
  BY Parts
<1>2. conn \in [Clients -> Connections] /\ conn[c] \in Connections /\ conn[c].current <= conn[c].offset
  BY <1>1 DEF BufferTypes
<1>3. conn[c].external \in BOOLEAN /\ conn[c].internal \in BOOLEAN
  BY <1>2 DEF Connections
<1>4. CASE Send(t) \/ SendOverflow(t)
  <2> DEFINE k == Shifted(conn[ptr[t]])
  <2>1. ptr[t] \in Clients /\ req[t].n \in Nat /\ req[t].first \in Nat
    BY <1>1, <1>4, ThreadFacts DEF Send, SendOverflow, Reach
  <2>2. CASE ptr[t] # c
    <3>1. conn'[c] = conn[c]
      BY <1>2, <1>4, <2>2 DEF Send, SendOverflow
    <3> QED BY <3>1
  <2>3. CASE ptr[t] = c
    <3>1. k \in Connections /\ k.current = 0 /\ k.internal = conn[c].internal
          /\ k.external = conn[c].external /\ k.out = conn[c].out
      BY <1>2, <2>3, ShiftedFits
    <3>2. CASE SendOverflow(t)
      <4>1. conn'[c] = k
        BY <1>2, <2>3, <3>2 DEF SendOverflow
      <4> QED BY ONLY <3>1, <4>1
    <3>3. CASE Send(t)
      <4>1. conn'[c] = Stored(k, req[t].n, req[t].first) /\ k.offset + req[t].n <= InSize
        BY <1>2, <2>3, <3>3 DEF Send
      <4> HIDE DEF k
      <4>2. /\ Stored(k, req[t].n, req[t].first).external = k.external
            /\ Stored(k, req[t].n, req[t].first).internal = k.internal
            /\ Stored(k, req[t].n, req[t].first).out = k.out
        BY <2>1, <3>1, <4>1, StoredFits
      <4> QED BY ONLY <3>1, <4>1, <4>2
    <3> QED BY <1>4, <3>2, <3>3
  <2> QED BY <2>2, <2>3
<1>5. CASE Reply(t)
  <2>1. conn' = [conn EXCEPT ![ptr[t]] = [@ EXCEPT !.out = <<>>]]
    BY <1>5 DEF Reply, Emptied
  <2>2. conn'[c] = conn[c] \/ (ptr[t] = c /\ conn'[c] = [conn[c] EXCEPT !.out = <<>>])
    BY <1>2, <2>1
  <2> QED BY <1>2, <1>5, <2>2 DEF Connections
<1>6. CASE FlagClose(t)
  <2>1. conn' = [conn EXCEPT ![ptr[t]] = [@ EXCEPT !.external = TRUE]]
    BY <1>6 DEF FlagClose
  <2>2. conn'[c] = conn[c] \/ (ptr[t] = c /\ conn'[c] = [conn[c] EXCEPT !.external = TRUE])
    BY <1>2, <2>1
  <2> QED BY <1>2, <1>6, <2>2 DEF Connections
<1>7. CASE ~Send(t) /\ ~SendOverflow(t) /\ ~Reply(t) /\ ~FlagClose(t)
  <2>1. conn' = conn
    BY <1>7 DEF Handle, Hail, Open, Find, NotFound, FindClose, NotFoundClose, SetLength, SendHeader, ReplyHail, ReplyOpen,
                ReplyClose, Idle, Notify, Test, Kill, Fault, connVars
  <2> QED BY <2>1
<1> QED BY <1>4, <1>5, <1>6, <1>7

(* What is closed stays so; a thread closes the connection of its client.   *)
LEMMA CloseStep ==
  ASSUME TypeOK, Mixing, Orderly, Sane', NEW t \in Threads, Handle(t)
  PROVE  /\ \A c \in Clients : Closed(c) => Closed(c)'
         /\ \A c \in Clients : req[t].from # c => client'[c] = client[c]
         /\ pc'[t] = "flag" => ptr'[t] \in Clients /\ Closed(ptr[t])' /\ ptr'[t] = ptr[t] /\ ~Over(ptr[t])
         /\ pc'[t] = "notify" => FlagClose(t)
<1>1. ThreadTypes
  BY Parts
<1>2. \A c \in Clients : req[t].from # c => client'[c] = client[c]
  BY HandleKinds, ReplyFacts
<1>3. ASSUME NEW c \in Clients, Closed(c) PROVE Closed(c)'
  <2>1. req[t].from # c /\ Over(c)'
    BY <1>3, OverAlone, OverStays DEF Closed
  <2> QED BY <1>3, <2>1, MapStep DEF Closed
<1>4. ASSUME pc'[t] = "flag"
      PROVE  ptr'[t] \in Clients /\ Closed(ptr[t])' /\ ptr'[t] = ptr[t] /\ ~Over(ptr[t])
  <2>1. ReplyClose(t)
    <3>1. ~SetLength(t) /\ ~SendHeader(t)
      BY <1>4, Parts DEF SetLength, SendHeader, Reach, Heading, Replying, HttpTypes, NoReply
    <3> QED BY <1>1, <1>4, <3>1 DEF ThreadTypes, Handle, Hail, Open, Find, NotFound, FindClose, NotFoundClose,
       ReplyHail, ReplyOpen, Send, SendOverflow, Idle, Reply, FlagClose, Notify, Test, Kill, Fault, Goto, Finish, Replied, Refuse
  <2>2. pc[t] = "close" /\ req[t].mode = "close" /\ ptr[t] \in Clients /\ req[t].from \in Clients /\ req[t].from # None
    BY <1>1, <2>1, ThreadFacts DEF ReplyClose, Sends
  <2>3. ptr'[t] = ptr[t] /\ mUrl2Connection' = mUrl2Connection
    BY <1>1, <2>1 DEF ReplyClose, Replied, ThreadTypes, connVars
  <2>4. PICK c \in Clients : c = req[t].from /\ (client'[c] = "closed" \/ Stuck(c)')
    BY <2>1, <2>2, RepliesAll, ReplyFacts
  <2>5. ptr[t] = c /\ ptr'[t] = c
    BY <2>2, <2>3, <2>4, TunnelAssumption DEF Orderly, Single
  <2>6. Closing(c)
    BY <2>2, <2>4 DEF Closing
  <2>7. Closed(c)'
    BY <2>3, <2>4, <2>6 DEF Closed, Over, Orderly, Unmapped
  <2>8. ~Over(c)
    BY <2>4, OverAlone
  <2> QED BY <2>5, <2>7, <2>8 DEF Closed, Over, Stuck
<1>5. ASSUME pc'[t] = "notify" PROVE FlagClose(t)
  <2>1. ~SetLength(t) /\ ~SendHeader(t)
    BY <1>5, Parts DEF SetLength, SendHeader, Reach, Heading, Replying, HttpTypes, NoReply
  <2> QED BY <1>1, <1>5, <2>1 DEF ThreadTypes, Handle, Hail, Open, Find, NotFound, FindClose, NotFoundClose,
     ReplyHail, ReplyOpen, ReplyClose, Send, SendOverflow, Idle, Reply, Notify, Test, Kill, Fault, Goto, Finish, Replied, Refuse
<1> QED BY <1>2, <1>3, <1>4, <1>5

(* The order of open, close, flags and deletion.                            *)
LEMMA ClosedHandle ==
  ASSUME TypeOK, Mixing, Orderly, Sane', NEW t \in Threads, Handle(t)
  PROVE  Unstarted' /\ FlagsOnce' /\ Flagged' /\ DeletedOnce'
<1>1. ThreadTypes /\ SessionTypes
  BY Parts
<1>2. /\ \A c \in Clients : Closed(c) => Closed(c)'
      /\ \A c \in Clients : req[t].from # c => client'[c] = client[c]
  BY CloseStep
<1>3. \A c \in Clients :
        /\ conn'[c].internal = conn[c].internal
        /\ conn[c].external => conn'[c].external
        /\ conn'[c].external # conn[c].external => FlagClose(t) /\ ptr[t] = c
  BY FlagStep
<1>4. \A u \in Threads \ {t} : pc'[u] = pc[u] /\ ptr'[u] = ptr[u]
  BY ThreadStep
<1>5. ASSUME NEW c \in Clients
      PROVE  session'[c] = session[c] \/ (Open(t) /\ req[t].from = c)
  BY <1>1 DEF SessionTypes, Handle, Hail, Open, Find, NotFound, FindClose, NotFoundClose, SetLength, SendHeader,
       ReplyHail, ReplyOpen, ReplyClose, Send, SendOverflow, Idle, Reply, FlagClose, Notify, Test, Kill, Fault, connVars
<1>6. ASSUME NEW c \in Clients, Open(t), req[t].from = c
      PROVE  client[c] = "new" /\ session[c] = "none" /\ Opening(c)'
  <2>1. pc[t] = "parse" /\ req[t].mode = "open" /\ pc' = [pc EXCEPT ![t] = "open"] /\ req' = req
    BY <1>6 DEF Open, Parses, Goto
  <2>2. client[c] = "new"
    BY <1>6, <2>1, TunnelAssumption DEF Mixing, Alone
  <2>3. ~Opening(c) /\ Opening(c)'
    <3>1. pc'[t] = "open"
      BY <1>1, <2>1 DEF ThreadTypes
    <3> QED BY <1>6, <2>1, <3>1, Whose
  <2> QED BY <1>6, <2>2, <2>3 DEF Orderly, Unstarted, Stuck
<1>7. Unstarted'
  <2> SUFFICES ASSUME NEW c \in Clients, client'[c] = "new", ~Opening(c)', ~Stuck(c)' PROVE session'[c] = "none"
    BY DEF Unstarted
  <2>1. session'[c] = session[c]
    BY <1>5, <1>6
  <2>2. ~Stuck(c)
    BY OverStays
  <2>3. client[c] = "new" /\ ~Opening(c)
    <3>1. CASE req[t].from # c
      BY <1>2, <3>1, Whose
    <3>2. CASE req[t].from = c
      <4>1. c # None
        BY TunnelAssumption
      <4>2. CASE Replies(t)
        <5>1. req[t].mode = "hail" /\ client[c] = "new"
          BY <3>2, <4>1, <4>2, ReplyFacts
        <5>2. pc[t] # "open"
          BY <1>1, <5>1, ThreadFacts
        <5> QED BY <3>2, <5>1, <5>2, Whose
      <4>3. CASE ~Replies(t)
        <5>1. client[c] = "new"
          BY <4>3, HandleKinds
        <5>2. ASSUME pc[t] = "open" PROVE FALSE
          <6>1. ~ReplyOpen(t)
            BY <4>3, RepliesAll
          <6>2. SetLength(t) \/ SendHeader(t)
            BY <5>2, <6>1 DEF Handle, Hail, Open, Find, NotFound, FindClose, NotFoundClose, ReplyHail, ReplyClose, Send,
               SendOverflow, Idle, Reply, FlagClose, Notify, Test, Kill, Fault, Reach, Sends, Parses, Dangling
          <6>3. pc' = pc /\ req' = req
            BY <6>2 DEF SetLength, SendHeader
          <6> QED BY <3>2, <5>2, <6>3, Whose
        <5> QED BY <3>2, <5>1, <5>2, Whose
      <4> QED BY <4>2, <4>3
    <3> QED BY <3>1, <3>2
  <2> QED BY <2>1, <2>2, <2>3 DEF Orderly, Unstarted
<1>8. FlagsOnce'
  <2>1. ASSUME NEW u \in Threads, u # t, pc'[u] \in {"flag", "notify"}
        PROVE  u \in Flagging /\ pc'[u] = pc[u] /\ ptr'[u] = ptr[u] /\ ptr[u] \in Clients /\ Closed(ptr[u])
    <3>1. pc'[u] = pc[u] /\ ptr'[u] = ptr[u] /\ u \in Flagging
      BY <1>4, <2>1 DEF Flagging
    <3> QED BY <1>1, <2>1, <3>1, ThreadFacts DEF Orderly, FlagsOnce
  <2>2. ASSUME pc'[t] = "notify"
        PROVE  FlagClose(t) /\ t \in Flagging /\ pc[t] = "flag" /\ ptr'[t] = ptr[t] /\ ptr[t] \in Clients /\ Closed(ptr[t])
    <3>1. FlagClose(t) /\ t \in Flagging /\ pc[t] = "flag"
      BY <2>2, CloseStep DEF FlagClose, Reach, Flagging
    <3>2. ptr'[t] = ptr[t]
      BY <1>1, <3>1 DEF FlagClose, Goto, ThreadTypes
    <3> QED BY <1>1, <3>1, <3>2, ThreadFacts DEF Orderly, FlagsOnce
  <2>3. ASSUME pc'[t] = "flag"
        PROVE  ptr'[t] = ptr[t] /\ ptr[t] \in Clients /\ Closed(ptr[t])' /\ ~Closed(ptr[t])
    BY <2>3, CloseStep DEF Closed
  <2>4. ASSUME NEW u \in Threads, pc'[u] \in {"flag", "notify"}
        PROVE  Closed(ptr[u])' /\ (pc'[u] = "flag" => ~conn'[ptr'[u]].external)
    <3>1. CASE u # t
      <4>1. PICK c \in Clients : c = ptr[u] /\ c = ptr'[u] /\ Closed(c) /\ u \in Flagging /\ pc'[u] = pc[u]
        BY <2>1, <2>4, <3>1
      <4>2. pc[u] = "flag" => ~conn[c].external /\ ~(FlagClose(t) /\ ptr[t] = c)
        BY <3>1, <4>1 DEF Orderly, FlagsOnce, FlagClose, Reach, Flagging
      <4>3. Closed(c)'
        BY <1>2, <4>1
      <4> QED BY <1>3, <4>1, <4>2, <4>3 DEF Closed, Over, Stuck
    <3>2. CASE u = t /\ pc'[t] = "notify"
      <4>1. PICK c \in Clients : c = ptr[t] /\ c = ptr'[t] /\ Closed(c)
        BY <2>2, <3>2
      <4>2. Closed(c)'
        BY <1>2, <4>1
      <4> QED BY <3>2, <4>1, <4>2 DEF Closed, Over, Stuck
    <3>3. CASE u = t /\ pc'[t] = "flag"
      <4>1. ptr'[t] = ptr[t] /\ ptr[t] \in Clients /\ Closed(ptr[t])' /\ ~conn[ptr[t]].external
        BY <2>3, <3>3 DEF Orderly, Flagged
      <4>2. ~FlagClose(t)
        BY <1>1, <3>3 DEF FlagClose, Goto, ThreadTypes
      <4> QED BY <1>3, <3>3, <4>1, <4>2
    <3> QED BY <2>4, <3>1, <3>2, <3>3
  <2>5. ASSUME NEW u \in Threads, NEW v \in Threads, pc'[u] \in {"flag", "notify"}, pc'[v] \in {"flag", "notify"},
               ptr'[u] = ptr'[v], u # v
        PROVE  FALSE
    <3>1. ASSUME NEW x \in Threads, x # t, pc'[x] \in {"flag", "notify"}, pc'[t] \in {"flag", "notify"}
          PROVE  ptr'[x] # ptr'[t]
      <4>1. x \in Flagging /\ ptr'[x] = ptr[x] /\ Closed(ptr[x])
        BY <2>1, <3>1
      <4>2. CASE pc'[t] = "notify"
        BY <2>2, <3>1, <4>1, <4>2 DEF Orderly, FlagsOnce
      <4>3. CASE pc'[t] = "flag"
        <5>1. ptr'[t] = ptr[t] /\ ~Closed(ptr[t])
          BY <2>3, <4>3
        <5>2. ASSUME ptr[x] = ptr[t] PROVE FALSE
          BY <4>1, <5>1, <5>2
        <5> QED BY <4>1, <5>1, <5>2
      <4> QED BY <3>1, <4>2, <4>3
    <3>2. CASE u # t /\ v # t
      <4>1. u \in Flagging /\ v \in Flagging /\ ptr[u] = ptr[v]
        BY <2>1, <2>5, <3>2
      <4> QED BY <2>5, <4>1 DEF Orderly, FlagsOnce
    <3>3. CASE u = t \/ v = t
      BY <2>5, <3>1, <3>3
    <3> QED BY <3>2, <3>3
  <2> QED BY <2>4, <2>5 DEF FlagsOnce, Flagging
<1>9. \A c \in Clients : session[c] = "dead" => session'[c] = "dead"
  BY <1>5, <1>6
<1>10. Flagged'
  <2>1. ASSUME NEW c \in Clients, conn'[c].external PROVE Closed(c)'
    <3>1. CASE conn[c].external
      BY <1>2, <3>1 DEF Orderly, Flagged
    <3>2. CASE ~conn[c].external
      <4>1. FlagClose(t) /\ ptr[t] = c
        BY <1>3, <2>1, <3>2
      <4>2. Closed(c)
        BY <4>1 DEF Orderly, FlagsOnce, FlagClose, Reach, Flagging
      <4> QED BY <1>2, <4>2
    <3> QED BY <3>1, <3>2
  <2>2. ASSUME NEW c \in Clients, conn'[c].internal PROVE session'[c] = "dead"
    BY <1>3, <1>9, <2>2 DEF Orderly, Flagged
  <2> QED BY <2>1, <2>2 DEF Flagged
<1>11. DeletedOnce'
  <2>1. ASSUME NEW c \in Clients, deletes'[c] > 0 PROVE conn'[c].external /\ session'[c] = "dead" /\ deletes'[c] = 1
    <3>1. CASE Kill(t) /\ ptr[t] = c
      <4>1. deletes[c] = 0 /\ deletes'[c] = deletes[c] + 1
        BY <1>1, <3>1 DEF Kill, Reach, Deleted, SessionTypes
      <4>2. conn[c].internal /\ conn[c].external
        BY <3>1 DEF Orderly, DeletedOnce, Kill, Reach, BothEnded
      <4>3. session[c] = "dead"
        BY <4>2 DEF Orderly, Flagged
      <4> QED BY <1>3, <1>9, <4>1, <4>2, <4>3
    <3>2. CASE ~(Kill(t) /\ ptr[t] = c)
      <4>1. deletes'[c] = deletes[c]
        BY <1>1, <3>2 DEF SessionTypes, Handle, Hail, Open, Find, NotFound, FindClose, NotFoundClose, SetLength,
           SendHeader, ReplyHail, ReplyOpen, ReplyClose, Send, SendOverflow, Idle, Reply, FlagClose, Notify, Test, Kill,
           Fault, connVars
      <4> QED BY <1>3, <1>9, <2>1, <4>1 DEF Orderly, DeletedOnce, Deleted
    <3> QED BY <3>1, <3>2
  <2>2. ASSUME NEW u \in Threads, pc'[u] = "kill" PROVE BothEnded(conn'[ptr'[u]])
    <3>1. CASE u # t
      <4>1. pc[u] = "kill" /\ ptr'[u] = ptr[u] /\ ptr[u] \in Clients
        BY <1>1, <1>4, <2>2, <3>1, ThreadFacts
      <4> QED BY <1>3, <4>1 DEF Orderly, DeletedOnce, BothEnded
    <3>2. CASE u = t
      <4>1. Test(t)
        <5>1. ~SetLength(t) /\ ~SendHeader(t)
          <6>1. pc[t] \in Replying => pc[t] # "kill"
            BY DEF Replying
          <6>2. SetLength(t) \/ SendHeader(t) => pc[t] \in Replying /\ pc' = pc
            BY Parts DEF SetLength, SendHeader, Reach, Heading, Replying, HttpTypes, NoReply
          <6> QED BY <2>2, <3>2, <6>1, <6>2
        <5> QED BY <1>1, <2>2, <3>2, <5>1 DEF ThreadTypes, Handle, Hail, Open, Find, NotFound, FindClose, NotFoundClose,
           ReplyHail, ReplyOpen, ReplyClose, Send, SendOverflow, Idle, Reply, FlagClose, Notify, Test, Kill, Fault, Goto,
           Finish, Replied, Refuse
      <4>2. BothEnded(conn[ptr[t]]) /\ ptr'[t] = ptr[t] /\ conn' = conn
        BY <1>1, <2>2, <3>2, <4>1 DEF Test, Goto, Finish, ThreadTypes, connVars
      <4> QED BY <3>2, <4>2
    <3> QED BY <3>1, <3>2
  <2> QED BY <2>1, <2>2 DEF DeletedOnce, Deleted
<1> QED BY <1>7, <1>8, <1>10, <1>11

(* A request that begins finds the connections as they are.                 *)
LEMMA OrderlyAsk ==
  ASSUME TypeOK, Mixing, Orderly, NEW t \in Threads, NEW c \in load.users, Ask(t, c)
  PROVE  Orderly'
<1>1. ThreadTypes /\ ClientTypes /\ c \in Clients
  BY Parts, TunnelAssumption DEF OtherTypes
<1>2. /\ pc[t] = "idle" /\ pc' = [pc EXCEPT ![t] = "parse"] /\ \E r : req' = [req EXCEPT ![t] = r] /\ r.from = c
      /\ awaiting[c] = None /\ awaiting' = [awaiting EXCEPT ![c] = t]
      /\ UNCHANGED <<client, ptr, mUrl2Connection, conn, deletes, session>>
  <2>1. PICK m \in {"hail", "open", "send", "idle", "close"}, n \in 0..2 : Request(t, c, m, n)
    BY DEF Ask
  <2> DEFINE r == [mode |-> m, from |-> c, hash |-> hash[c], n |-> n, first |-> sent[c] + 1]
  <2>2. req' = [req EXCEPT ![t] = r] /\ r.from = c
    BY <2>1 DEF Request
  <2> HIDE DEF r
  <2> QED BY <2>1, <2>2 DEF Request, connVars
<1>3. \A u \in Threads : IF u = t THEN pc'[u] = "parse" ELSE pc'[u] = pc[u] /\ req'[u] = req[u]
  BY <1>1, <1>2 DEF ThreadTypes
<1>4. \A d : (Opening(d)' <=> Opening(d)) /\ (Closing(d)' <=> Closing(d))
  BY <1>2, <1>3 DEF Opening, Closing
<1>5. \A d : InMap(d)' <=> InMap(d)
  BY <1>2 DEF InMap
<1>6. \A u \in Threads : pc'[u] \in {"flag", "notify", "kill"} => pc[u] = pc'[u] /\ ptr'[u] = ptr[u]
  BY <1>2, <1>3
<1>7. ASSUME NEW d \in Clients PROVE Stuck(d)' <=> Stuck(d)
  <2>1. req'[t].from = c /\ pc[t] = "idle" /\ req[t].from = None
    BY <1>1, <1>2 DEF ThreadTypes, Fits
  <2>2. CASE d = c
    BY <1>2, <2>1, <2>2 DEF Stuck
  <2>3. CASE d # c
    <3>1. awaiting'[d] = awaiting[d]
      BY <1>1, <1>2, <2>3 DEF ClientTypes
    <3>2. \A u \in Threads : req'[u].from = d <=> req[u].from = d
      BY <1>3, <2>1, <2>3, TunnelAssumption
    <3> QED BY <3>1, <3>2 DEF Stuck
  <2> QED BY <2>2, <2>3
<1>8. \A d \in Clients : Closed(d)' <=> Closed(d)
  BY <1>2, <1>7 DEF Closed, Over
<1>9. Mapped' /\ Unmapped' /\ Unstarted'
  BY <1>2, <1>4, <1>5, <1>7 DEF Orderly, Mapped, Unmapped, Unstarted
<1>10. FlagsOnce'
  <2>1. ASSUME NEW u \in Threads, pc'[u] \in {"flag", "notify"}
        PROVE  u \in Flagging /\ pc[u] = pc'[u] /\ ptr'[u] = ptr[u] /\ Closed(ptr[u])'
    <3>1. u \in Flagging /\ pc[u] = pc'[u] /\ ptr'[u] = ptr[u] /\ ptr[u] \in Clients
      BY <1>1, <1>6, <2>1, ThreadFacts DEF Flagging
    <3>2. PICK d \in Clients : d = ptr[u] /\ d = ptr'[u] /\ Closed(d)
      BY <3>1 DEF Orderly, FlagsOnce
    <3>3. Closed(d)'
      BY <1>8, <3>2
    <3> QED BY <3>1, <3>2, <3>3 DEF Closed, Over, Stuck
  <2> QED BY <1>2, <2>1 DEF Orderly, FlagsOnce, Flagging
<1>11. Flagged' /\ DeletedOnce'
  BY <1>2, <1>6, <1>8 DEF Orderly, Flagged, DeletedOnce, Deleted
<1> QED BY <1>9, <1>10, <1>11, SingleAsk DEF Orderly

(* What a session, and the server that destroys it, does to the connection. *)
LEMMA OrderlySession ==
  ASSUME TypeOK, Orderly, NEW c \in Clients, SessionReceive(c) \/ SessionSend(c) \/ SessionFails(c) \/ EndSession(c)
  PROVE  Orderly'
<1>1. BufferTypes /\ SessionTypes
  BY Parts
<1>2. UNCHANGED <<client, hash, awaiting, pc, req, ptr, mUrl2Connection>>
  BY DEF SessionReceive, SessionSend, SessionFails, EndSession, EndSessionDelete, EndSessionDefer,
     EndSessionFlag,
         clientVars, threadVars
<1>3. Single' /\ Told' /\ Mapped' /\ Unmapped'
  BY <1>2 DEF Orderly, Single, Told, Mapped, Unmapped, Opening, Closing, InMap, Stuck
<1>4. /\ session[c] \in {"running", "ended", "deferring"}
      /\ \A d \in Clients \ {c} : session'[d] = session[d] /\ deletes'[d] = deletes[d] /\ conn'[d] = conn[d]
  BY <1>1 DEF SessionReceive, SessionSend, SessionFails, EndSession, EndSessionDelete,
     EndSessionDefer, EndSessionFlag,
         SessionVars, End, SessionTypes, BufferTypes
<1>5. conn'[c].external = conn[c].external /\ (conn'[c].internal = conn[c].internal \/ EndSessionFlag(c))
  <2>1. conn[c] \in Connections
    BY <1>1, Buffer
  <2>2. CASE EndSessionFlag(c)
    <3>1. conn'[c] = [conn[c] EXCEPT !.internal = TRUE]
      BY <1>1, <2>2 DEF EndSessionFlag, BufferTypes
    <3> QED BY <2>1, <2>2, <3>1 DEF Connections
  <2>3. CASE (SessionReceive(c) \/ SessionSend(c)) /\ ~End(c)
    <3>1. CASE SessionReceive(c)
      <4>1. PICK n \in 1..Unread(conn[c]) : conn' = [conn EXCEPT ![c] = [conn[c] EXCEPT !.current = conn[c].current + n]]
        BY <1>1, <2>3, <3>1, ReceiveStep
      <4>2. conn'[c] = [conn[c] EXCEPT !.current = conn[c].current + n]
        BY <1>1, <4>1 DEF BufferTypes
      <4> QED BY ONLY <2>1, <4>2 DEF Connections
    <3>2. CASE SessionSend(c)
      <4>1. PICK o : o = Append(conn[c].out, written[c] + 1)
        OBVIOUS
      <4>2. conn'[c] = [conn[c] EXCEPT !.out = o]
        BY <1>1, <2>3, <3>2, <4>1 DEF SessionSend, BufferTypes
      <4> QED BY ONLY <2>1, <4>2 DEF Connections
    <3> QED BY <2>3, <3>1, <3>2
  <2>4. CASE End(c) \/ SessionFails(c) \/ EndSessionDelete(c) \/ EndSessionDefer(c)
    BY <2>4 DEF End, SessionFails, EndSessionDelete, EndSessionDefer
  <2> QED BY <2>2, <2>3, <2>4 DEF EndSession
<1>6. \A d \in Clients : session[d] \in {"none", "dead"} => session'[d] = session[d]
  BY <1>4
<1>7. Unstarted'
  BY <1>2, <1>6 DEF Orderly, Unstarted, Opening, Stuck
<1>8. \A d \in Clients : conn'[d].external = conn[d].external
  BY <1>4, <1>5
<1>9. FlagsOnce'
  <2>1. \A t \in Flagging : ptr[t] \in Clients
    BY Parts, ThreadFacts DEF Flagging
  <2> QED BY <1>2, <1>8, <2>1 DEF Orderly, FlagsOnce, Flagging, Closed, Over, Stuck
<1>10. \A d \in Clients : conn'[d].internal = conn[d].internal \/ (conn'[d].internal /\ session'[d] = "dead")
  <2>1. CASE EndSessionFlag(c)
    <3>1. conn' = [conn EXCEPT ![c] = [conn[c] EXCEPT !.internal = TRUE]] /\ session'[c] = "dead" /\ conn[c] \in Connections
      BY <1>1, <2>1, Buffer DEF EndSessionFlag, SessionTypes
    <3>2. conn'[c] = [conn[c] EXCEPT !.internal = TRUE]
      BY <1>1, <3>1 DEF BufferTypes
    <3>3. conn'[c].internal = TRUE
      BY ONLY <3>1, <3>2 DEF Connections
    <3> QED BY <1>4, <3>1, <3>3
  <2> QED BY <1>4, <1>5, <2>1
<1>11. Flagged'
  BY <1>2, <1>6, <1>8, <1>10 DEF Orderly, Flagged, Closed, Over, Stuck
<1>12. DeletedOnce'
  <2>1. ASSUME NEW d \in Clients, deletes'[d] > 0 PROVE conn'[d].external /\ session'[d] = "dead" /\ deletes'[d] = 1
    <3>1. CASE EndSessionDelete(c) /\ d = c
      <4>1. deletes[c] = 0
        <5>1. session[c] # "dead"
          BY <1>4
        <5>2. ~(deletes[c] > 0)
          BY <5>1 DEF Orderly, DeletedOnce, Deleted
        <5>3. deletes[c] \in Nat
          BY <1>1 DEF SessionTypes
        <5> QED BY <5>2, <5>3
      <4>2. session'[c] = "dead" /\ deletes'[c] = deletes[c] + 1 /\ conn' = conn /\ conn[c].external
        BY <1>1, <3>1 DEF EndSessionDelete, SessionTypes
      <4> QED BY <3>1, <4>1, <4>2
    <3>2. CASE ~(EndSessionDelete(c) /\ d = c)
      <4>1. deletes'[d] = deletes[d]
        BY <1>1, <1>4, <3>2 DEF SessionReceive, SessionSend, SessionFails, EndSession,
           EndSessionDelete, EndSessionDefer, EndSessionFlag
      <4> QED BY <1>6, <1>8, <2>1, <4>1 DEF Orderly, DeletedOnce, Deleted
    <3> QED BY <3>1, <3>2
  <2>2. ASSUME NEW t \in Threads, pc'[t] = "kill" PROVE BothEnded(conn'[ptr'[t]])
    <3>1. pc[t] = "kill" /\ ptr'[t] = ptr[t] /\ ptr[t] \in Clients
      BY <1>2, <2>2, Parts, ThreadFacts
    <3> QED BY <1>8, <1>10, <3>1 DEF Orderly, DeletedOnce, BothEnded
  <2> QED BY <2>1, <2>2 DEF DeletedOnce, Deleted
<1> QED BY <1>3, <1>7, <1>9, <1>11, <1>12 DEF Orderly

(* So a sane state is orderly.                                              *)
LEMMA OrderlyInit == Init => Orderly
<1> SUFFICES ASSUME Init PROVE Orderly
  OBVIOUS
<1>1. /\ \A t \in Threads : pc[t] = "idle" /\ req[t].from = None
      /\ \A c \in Clients : /\ client[c] = "new" /\ session[c] = "none" /\ deletes[c] = 0
                             /\ ~conn[c].external /\ ~conn[c].internal
  BY DEF Init, NoRequest, NewConnection
<1> QED BY <1>1 DEF Orderly, Single, Told, Mapped, Unmapped, Unstarted, FlagsOnce, Flagging, Flagged, DeletedOnce, Deleted,
                    Opening, Closing

(* Every step to a sane state was from one, and keeps the order.            *)
LEMMA OrderlyNext == TypeOK /\ Mixing /\ (Sane => Orderly) /\ [Next]_vars => (Sane => Orderly)'
<1> SUFFICES ASSUME TypeOK, Mixing, Sane => Orderly, [Next]_vars, Sane' PROVE Orderly'
  OBVIOUS
<1>1. Sane /\ Orderly
  BY SaneBefore
<1>2. CASE UNCHANGED vars \/ Done
  <2>1. UNCHANGED <<client, hash, awaiting, pc, req, ptr, mUrl2Connection, conn, deletes, session>>
    BY <1>2 DEF vars, Done, clientVars, threadVars, connVars
  <2> QED BY <1>1, <2>1 DEF Orderly, Single, Told, Mapped, Unmapped, Unstarted, FlagsOnce, Flagging, Flagged, DeletedOnce,
                            Deleted, Opening, Closing, InMap, Closed, Over, Stuck
<1>3. CASE \E t \in Threads : \E c \in load.users : Ask(t, c)
  BY <1>1, <1>3, OrderlyAsk
<1>4. CASE \E t \in Threads : Handle(t)
  BY <1>1, <1>4, SingleHandle, MappedHandle, ClosedHandle DEF Orderly
<1>5. CASE \E c \in Clients : SessionReceive(c) \/ SessionSend(c) \/ SessionFails(c) \/ EndSession(c)
  BY <1>1, <1>5, OrderlySession
<1>6. ASSUME NEW c \in Clients, GiveUp(c) PROVE FALSE
  BY <1>6 DEF GiveUp, Sane, NobodyGaveUp, TypeOK
<1> QED BY <1>2, <1>3, <1>4, <1>5, <1>6 DEF Next

(* With the types, it is an invariant.                                      *)
LEMMA OrderlyAlways == Spec => [](TypeOK /\ Mixing /\ (Sane => Orderly))
BY TypeCorrect, MixingInit, MixingNext, OrderlyInit, OrderlyNext, PTL DEF Spec

(* As long as clients have one request at a time and know their own hash, a *)
(* connection is deleted once, when its session is gone, its hash is not in *)
(* the map and no request is going to lock it or to flag it. Only what      *)
(* parseHTTPRequest() does after the flag of a close, and the tests of both *)
(* flags, can still reach for it.                                           *)
THEOREM DeletedLast == Spec => []OnlyTheEndDangles
<1>1. TypeOK /\ Mixing /\ (Sane => Orderly) => OnlyTheEndDangles
  <2> SUFFICES ASSUME TypeOK, Orderly, NEW c \in Clients, Deleted(c)
               PROVE  /\ deletes[c] = 1 /\ session[c] = "dead"
                      /\ At(c, {"lock", "reply", "flag"}) = {} /\ Cardinality(At(c, {"notify"})) <= 1
                      /\ c \notin DOMAIN mUrl2Connection
    BY DEF OnlyTheEndDangles, Sane
  <2>1. deletes[c] = 1 /\ session[c] = "dead" /\ conn[c].external /\ Closed(c)
    BY DEF Orderly, DeletedOnce, Flagged
  <2>2. c \notin DOMAIN mUrl2Connection
    BY <2>1 DEF Closed
  <2>3. ASSUME NEW t \in Threads, ptr[t] = c, pc[t] \in {"lock", "reply", "flag"} PROVE FALSE
    <3>1. CASE pc[t] = "flag"
      BY <2>1, <2>3, <3>1 DEF Orderly, FlagsOnce, Flagging
    <3>2. CASE pc[t] \in {"lock", "reply"}
      <4>1. req[t].from # None /\ ptr[t] # None
        BY <2>3, <3>2, Parts, ThreadFacts, TunnelAssumption
      <4>2. req[t].from = c
        BY <2>3, <4>1 DEF Orderly, Single
      <4> QED BY <2>1, <4>2, OverAlone DEF Closed
    <3> QED BY <2>3, <3>1, <3>2
  <2>4. Cardinality(At(c, {"notify"})) <= 1
    <3> DEFINE S == At(c, {"notify"})
    <3>1. \A t, u \in S : t = u
      BY DEF At, Orderly, FlagsOnce, Flagging
    <3>2. CASE S = {}
      <4>1. Cardinality({}) = 0
        BY FS_EmptySet
      <4> QED BY <3>2, <4>1
    <3>3. CASE S # {}
      <4>1. PICK t : S = {t}
        BY <3>1, <3>3
      <4>2. Cardinality({t}) = 1
        BY FS_Singleton
      <4> QED BY <4>1, <4>2
    <3> QED BY <3>2, <3>3
  <2> QED BY <2>1, <2>2, <2>3, <2>4 DEF At
<1> QED BY <1>1, OrderlyAlways, PTL

-----------------------------------------------------------------------------
(* The bytes of a client that knows its own connection: those it has sent   *)
(* are accepted, or are carried by its only request, until one is refused;  *)
(* those its session has sent are received, or wait in buffer_out, where    *)
(* they stay as they are while a reply with them is being sent. This holds  *)
(* until the client is told another length.                                 *)
Sending(c, t) == req[t].from = c /\ req[t].mode = "send" /\ pc[t] \in {"parse", "lock"}
Counted ==
  \A c \in Clients : client[c] \notin {"failed", "closed"} =>
    /\ (\A t \in Threads : ~Sending(c, t)) => Len(accepted[c]) = sent[c]
    /\ \A t \in Threads : Sending(c, t) => req[t].first = Len(accepted[c]) + 1 /\ sent[c] = Len(accepted[c]) + req[t].n
Numbered == \A c \in Clients : \A i \in DOMAIN accepted[c] : accepted[c][i] = i
Sized == \A t \in Threads : pc[t] = "reply" /\ reply[t].size # 0 => reply[t].size = 1 + Len(conn[ptr[t]].out)
Delivered ==
  \A c \in Clients \ misled :
    /\ Len(got[c]) + Len(conn[c].out) = written[c]
    /\ \A i \in DOMAIN got[c] : got[c][i] = <<c, i>>
    /\ \A i \in DOMAIN conn[c].out : conn[c].out[i] = Len(got[c]) + i
Streams == Counted /\ Numbered /\ Sized /\ Delivered

(* The next byte of the session is put behind those that wait.              *)
LEMMA OneMore ==
  ASSUME NEW g \in Nat, NEW o \in Seq(Nat), NEW w \in Nat, g + Len(o) = w, \A i \in DOMAIN o : o[i] = g + i
  PROVE  /\ Append(o, w + 1) \in Seq(Nat) /\ g + Len(Append(o, w + 1)) = w + 1
         /\ \A i \in DOMAIN Append(o, w + 1) : Append(o, w + 1)[i] = g + i
<1>1. /\ Append(o, w + 1) \in Seq(Nat) /\ Len(Append(o, w + 1)) = Len(o) + 1 /\ Len(o) \in Nat
      /\ DOMAIN o = 1..Len(o)
      /\ \A i \in 1..Len(o) : Append(o, w + 1)[i] = o[i]
      /\ Append(o, w + 1)[Len(o) + 1] = w + 1
  BY AppendProperties, LenProperties
<1> DEFINE a == Append(o, w + 1)
<1>2. DOMAIN a = 1..Len(a)
  BY <1>1, LenProperties
<1>3. a[Len(o) + 1] = w + 1 /\ Len(a) = Len(o) + 1 /\ \A i \in 1..Len(o) : a[i] = o[i]
  BY <1>1
<1> HIDE DEF a
<1>4. ASSUME NEW i \in 1..Len(a) PROVE a[i] = g + i
  <2>1. CASE i = Len(o) + 1
    BY <1>1, <1>3, <2>1, SMTT(30)
  <2>2. CASE i \in 1..Len(o)
    BY <1>1, <1>3, <2>2
  <2> QED BY <1>1, <1>3, <2>1, <2>2
<1>5. g + Len(a) = w + 1
  BY <1>1, <1>3
<1> QED BY <1>1, <1>2, <1>4, <1>5 DEF a

(* A reply takes all of them.                                               *)
LEMMA AllTaken ==
  ASSUME NEW c \in Clients
  PROVE  \A g \in Seq(Clients \X Nat), o \in Seq(Nat), q \in Seq(Clients \X Nat) :
           (\A i \in DOMAIN g : g[i] = <<c, i>>) /\ (\A i \in DOMAIN o : o[i] = Len(g) + i)
             /\ q = [i \in DOMAIN o |-> <<c, o[i]>>]
           => /\ Len(g \o q) = Len(g) + Len(o)
              /\ \A i \in DOMAIN (g \o q) : (g \o q)[i] = <<c, i>>
<1> SUFFICES ASSUME NEW g \in Seq(Clients \X Nat), NEW o \in Seq(Nat), NEW q \in Seq(Clients \X Nat),
                    \A i \in DOMAIN g : g[i] = <<c, i>>, \A i \in DOMAIN o : o[i] = Len(g) + i,
                    q = [i \in DOMAIN o |-> <<c, o[i]>>]
             PROVE  /\ Len(g \o q) = Len(g) + Len(o)
                    /\ \A i \in DOMAIN (g \o q) : (g \o q)[i] = <<c, i>>
  OBVIOUS
<1>1. /\ g \o q \in Seq(Clients \X Nat) /\ Len(g \o q) = Len(g) + Len(q)
      /\ \A i \in 1..Len(g) + Len(q) : (g \o q)[i] = IF i <= Len(g) THEN g[i] ELSE q[i - Len(g)]
  BY ConcatProperties
<1>2. Len(g) \in Nat /\ Len(o) \in Nat /\ Len(q) \in Nat /\ DOMAIN g = 1..Len(g) /\ DOMAIN o = 1..Len(o) /\ DOMAIN q = 1..Len(q)
  BY LenProperties
<1>3. DOMAIN q = DOMAIN o
  OBVIOUS
<1>4. Len(q) = Len(o)
  BY <1>2, <1>3
<1> DEFINE gq == g \o q
<1>5. DOMAIN gq = 1..Len(gq)
  BY <1>1, LenProperties
<1>6. Len(gq) = Len(g) + Len(o) /\ \A i \in 1..Len(g) + Len(o) : gq[i] = IF i <= Len(g) THEN g[i] ELSE q[i - Len(g)]
  BY <1>1, <1>4
<1> HIDE DEF gq
<1>7. ASSUME NEW i \in 1..Len(gq) PROVE gq[i] = <<c, i>>
  <2>1. CASE i <= Len(g)
    <3>1. i \in DOMAIN g
      BY <1>2, <1>6, <2>1
    <3>2. gq[i] = g[i]
      BY <1>2, <1>6, <2>1
    <3> QED BY <3>1, <3>2
  <2>2. CASE i > Len(g)
    <3>1. i - Len(g) \in 1..Len(o) /\ Len(g) + (i - Len(g)) = i
      BY <1>2, <1>6, <2>2
    <3>2. gq[i] = q[i - Len(g)]
      BY <1>2, <1>6, <2>2
    <3>3. q[i - Len(g)] = <<c, o[i - Len(g)]>>
      BY <1>2, <3>1
    <3>4. o[i - Len(g)] = i
      BY <1>2, <3>1
    <3> QED BY <3>2, <3>3, <3>4
  <2> QED BY <1>2, <2>1, <2>2
<1> QED BY <1>1, <1>5, <1>6, <1>7 DEF gq

(* A request that is accepted continues the numbers of those before it.     *)
LEMMA Continues ==
  ASSUME NEW a \in Seq(Nat), NEW n \in Nat, NEW first, first = Len(a) + 1, \A i \in DOMAIN a : a[i] = i
  PROVE  LET b == a \o [i \in 1..n |-> first + i - 1] IN
         b \in Seq(Nat) /\ Len(b) = Len(a) + n /\ \A i \in DOMAIN b : b[i] = i
<1> DEFINE q == [i \in 1..n |-> first + i - 1]
           b == a \o q
<1>1. Len(a) \in Nat /\ first \in Nat /\ DOMAIN a = 1..Len(a)
  BY LenProperties
<1>2. q \in Seq(Nat) /\ Len(q) = n /\ \A i \in 1..n : q[i] = first + i - 1
  BY <1>1, SentBytes
<1> HIDE DEF q
<1>3. /\ b \in Seq(Nat) /\ Len(b) = Len(a) + Len(q)
      /\ \A i \in 1..Len(a) + Len(q) : b[i] = IF i <= Len(a) THEN a[i] ELSE q[i - Len(a)]
  BY <1>2, ConcatProperties
<1>4. DOMAIN b = 1..Len(b)
  BY <1>3, LenProperties
<1> HIDE DEF b
<1>5. ASSUME NEW i \in 1..Len(b) PROVE b[i] = i
  <2>1. CASE i <= Len(a)
    <3>1. i \in DOMAIN a
      BY <1>1, <1>2, <1>3, <2>1
    <3>2. b[i] = a[i]
      BY <1>1, <1>2, <1>3, <2>1
    <3> QED BY <3>1, <3>2
  <2>2. CASE i > Len(a)
    <3>1. i - Len(a) \in 1..n /\ first + (i - Len(a)) - 1 = i
      BY <1>1, <1>2, <1>3, <2>2
    <3>2. b[i] = q[i - Len(a)]
      BY <1>1, <1>2, <1>3, <2>2
    <3> QED BY <1>2, <3>1, <3>2
  <2> QED BY <1>1, <2>1, <2>2
<1> QED BY <1>2, <1>3, <1>4, <1>5 DEF b, q

(* What a client has sent is counted when it asks; what it got is a reply.  *)
LEMMA GotStep ==
  ASSUME TypeOK, NEW t \in Threads, Handle(t)
  PROVE  sent' = sent /\ written' = written /\ misled \subseteq misled' /\ (got' # got => Reply(t))
<1>1. ThreadTypes /\ ClientTypes /\ HttpTypes
  BY Parts
<1>2. ASSUME NEW st, NEW h, Answer(t, st, h, <<>>), req[t].from \in Clients
      PROVE  sent' = sent /\ misled \subseteq misled' /\ got' = got
  <2>1. sent' = sent /\ misled \subseteq misled' /\ (got' = [got EXCEPT ![req[t].from] = @ \o Headed(t, <<>>)] \/ got' = got)
    BY <1>2, AnswerCases
  <2>2. Headed(t, <<>>) = <<>>
    <3>1. <<>> \in Seq(Clients \X Nat)
      OBVIOUS
    <3> QED BY <1>1, <3>1, HeadedSeq
  <2>3. got[req[t].from] \o <<>> = got[req[t].from]
    <3>1. got[req[t].from] \in Seq(Clients \X Nat)
      BY <1>1, <1>2 DEF ClientTypes
    <3> QED BY <3>1, ConcatEmptySeq
  <2>4. got \in [Clients -> Seq(Clients \X Nat)]
    BY <1>1 DEF ClientTypes
  <2>5. CASE got' = [got EXCEPT ![req[t].from] = @ \o Headed(t, <<>>)]
    <3>1. got' = [got EXCEPT ![req[t].from] = got[req[t].from]]
      BY <2>2, <2>3, <2>5
    <3>2. got' = got
      BY ONLY <2>4, <3>1
    <3> QED BY <2>1, <3>2
  <2> QED BY <2>1, <2>5
<1>3. CASE NotFound(t) \/ NotFoundClose(t) \/ ReplyHail(t) \/ ReplyOpen(t) \/ ReplyClose(t) \/ SendOverflow(t)
  <2>1. req[t].from \in Clients /\ written' = written
    BY <1>3, RepliesAll DEF NotFound, NotFoundClose, ReplyHail, ReplyOpen, ReplyClose, SendOverflow, connVars
  <2>2. \E st, h : Answer(t, st, h, <<>>)
    BY <1>3 DEF NotFound, NotFoundClose, ReplyHail, ReplyOpen, ReplyClose, SendOverflow, Refuse
  <2> QED BY <1>2, <2>1, <2>2
<1>4. CASE Reply(t)
  <2>1. written' = written /\ \E st, h, o : Answer(t, st, h, o)
    BY <1>4 DEF Reply
  <2>2. sent' = sent /\ misled \subseteq misled'
    BY <2>1, AnswerCases
  <2> QED BY <1>4, <2>1, <2>2
<1>5. CASE \/ Hail(t) \/ Open(t) \/ Find(t) \/ FindClose(t) \/ SetLength(t) \/ SendHeader(t) \/ Send(t) \/ Idle(t)
           \/ FlagClose(t) \/ Notify(t) \/ Test(t) \/ Kill(t) \/ Fault(t)
  <2>1. UNCHANGED clientVars /\ written' = written
    BY <1>5 DEF connVars, Hail, Open, Find, FindClose, SetLength, SendHeader, Send, Idle, FlagClose, Notify, Test, Kill, Fault
  <2> QED BY <2>1 DEF clientVars
<1> QED BY <1>3, <1>4, <1>5 DEF Handle

(* A reply has no size before it is sent, and then that of its output,      *)
(* which nobody else takes while oMutex is held.                            *)
LEMMA SizedHandle ==
  ASSUME TypeOK, Mixing, Orderly, Sized, NEW t \in Threads, Handle(t)
  PROVE  Sized'
<1>1. ThreadTypes /\ HttpTypes /\ BufferTypes
  BY Parts
<1>2. /\ \A u \in Threads \ {t} : reply'[u] = reply[u]
      /\ pc'[t] = "reply" => SetLength(t) \/ SendHeader(t) \/ reply'[t].size = 0
  <2>1. CASE Quiet(t)
    BY <1>1, <2>1 DEF Quiet, HttpTypes, NoReply
  <2>2. CASE Prepares(t)
    BY <1>1, <2>2 DEF Prepares, ThreadTypes
  <2>3. CASE Replies(t)
    BY <1>1, <2>3 DEF Replies, HttpTypes, NoReply
  <2>4. CASE SetLength(t) \/ SendHeader(t)
    BY <1>1, <2>4 DEF SetLength, SendHeader, HttpTypes
  <2> QED BY <2>1, <2>2, <2>3, <2>4, QuietAll, PreparesAll, RepliesAll DEF Handle
<1>3. SUFFICES ASSUME NEW u \in Threads, pc'[u] = "reply", reply'[u].size # 0
               PROVE  reply'[u].size = 1 + Len(conn'[ptr'[u]].out)
  BY DEF Sized
<1>4. CASE u = t
  <2>1. SetLength(t) \/ SendHeader(t)
    BY <1>2, <1>3, <1>4
  <2>2. pc' = pc /\ ptr' = ptr /\ conn' = conn
    BY <2>1 DEF SetLength, SendHeader, connVars
  <2>3. CASE SetLength(t)
    <3>1. reply' = [reply EXCEPT ![t].size = Size(t)] /\ Size(t) = 1 + Len(conn[ptr[t]].out)
      BY <1>3, <1>4, <2>2, <2>3 DEF SetLength, Size
    <3>2. reply'[t].size = Size(t)
      BY <1>1, <3>1 DEF HttpTypes
    <3> QED BY <1>4, <2>2, <3>1, <3>2
  <2>4. CASE SendHeader(t)
    <3>1. reply'[t].size = reply[t].size
      BY <1>1, <2>4 DEF SendHeader, HttpTypes
    <3> QED BY <1>3, <1>4, <2>2, <3>1 DEF Sized
  <2> QED BY <2>1, <2>3, <2>4
<1>5. CASE u # t
  <2>1. pc[u] = "reply" /\ ptr'[u] = ptr[u] /\ reply'[u] = reply[u]
    BY <1>2, <1>3, <1>5, ThreadStep
  <2>2. req[u].from # None /\ ptr[u] = req[u].from /\ ptr[u] \in Clients
    <3>1. req[u].from # None /\ ptr[u] \in Clients /\ ptr[u] # None
      BY <1>1, <2>1, ThreadFacts, TunnelAssumption
    <3> QED BY <3>1 DEF Orderly, Single
  <2>3. ~(Reply(t) /\ ptr[t] = ptr[u])
    <3>1. SUFFICES ASSUME Reply(t), ptr[t] = ptr[u] PROVE FALSE
      OBVIOUS
    <3>2. req[t].from # None /\ ptr[t] = req[t].from
      <4>1. req[t].from # None /\ ptr[t] # None
        BY <1>1, <3>1, ThreadFacts, TunnelAssumption DEF Reply, Sends
      <4> QED BY <4>1 DEF Orderly, Single
    <3>3. awaiting[ptr[u]] = u /\ awaiting[ptr[t]] = t
      BY <2>2, <3>2 DEF Orderly, Single
    <3> QED BY <1>5, <3>1, <3>3
  <2>4. conn'[ptr[u]].out = conn[ptr[u]].out
    BY <2>2, <2>3, FlagStep
  <2> QED BY <1>3, <2>1, <2>4 DEF Sized
<1> QED BY <1>4, <1>5

(* The output, through the replies.                                         *)
LEMMA DeliveredHandle ==
  ASSUME TypeOK, Mixing, Orderly, Sized, Delivered, NEW t \in Threads, Handle(t)
  PROVE  Delivered'
<1>1. ThreadTypes /\ ClientTypes /\ BufferTypes /\ HttpTypes
  BY Parts
<1> SUFFICES ASSUME NEW c \in Clients, c \notin misled'
             PROVE  /\ Len(got'[c]) + Len(conn'[c].out) = written'[c]
                    /\ \A i \in DOMAIN got'[c] : got'[c][i] = <<c, i>>
                    /\ \A i \in DOMAIN conn'[c].out : conn'[c].out[i] = Len(got'[c]) + i
  BY DEF Delivered
<1>2. written' = written /\ (got' # got => Reply(t)) /\ (conn'[c].out # conn[c].out => Reply(t) /\ ptr[t] = c)
      /\ c \notin misled
  BY GotStep, FlagStep
<1>3. /\ Len(got[c]) + Len(conn[c].out) = written[c]
      /\ \A i \in DOMAIN got[c] : got[c][i] = <<c, i>>
      /\ \A i \in DOMAIN conn[c].out : conn[c].out[i] = Len(got[c]) + i
  BY <1>2 DEF Delivered
<1>4. CASE ~Reply(t)
  BY <1>2, <1>3, <1>4
<1>5. CASE Reply(t)
  <2> DEFINE q == [i \in DOMAIN conn[ptr[t]].out |-> <<ptr[t], conn[ptr[t]].out[i]>>]
  <2>1. ptr[t] \in Clients /\ req[t].from \in Clients /\ req[t].from # None /\ ptr[t] = req[t].from
    <3>1. ptr[t] \in Clients /\ req[t].from \in Clients /\ req[t].from # None /\ ptr[t] # None
      BY <1>1, <1>5, ThreadFacts, TunnelAssumption DEF Reply, Sends
    <3> QED BY <3>1 DEF Orderly, Single
  <2>2. Waits(t)
    BY <2>1 DEF Orderly, Single, Waits
  <2>3. /\ misled' = IF reply[t].told # reply[t].size THEN misled \cup {ptr[t]} ELSE misled
        /\ Arrives(t) => got' = [got EXCEPT ![ptr[t]] = @ \o Headed(t, q)]
        /\ ~Arrives(t) => got' = got
    <3>1. Answer(t, "open", hash[req[t].from], q)
      BY <1>5 DEF Reply
    <3> HIDE DEF q
    <3> QED BY <2>1, <2>2, <3>1, AnswerCases
  <2>4. CASE ptr[t] # c
    <3>1. got'[c] = got[c] /\ conn'[c].out = conn[c].out
      BY <1>1, <1>2, <2>3, <2>4 DEF ClientTypes
    <3> QED BY <1>2, <1>3, <3>1
  <2>5. CASE ptr[t] = c
    <3> DEFINE g == got[c]
               o == conn[c].out
    <3>1. g \in Seq(Clients \X Nat) /\ o \in Seq(Nat) /\ q \in Seq(Clients \X Nat) /\ q = [i \in DOMAIN o |-> <<c, o[i]>>]
      BY <1>1, <2>1, <2>5, Buffer, OutputSent DEF ClientTypes
    <3>2. reply[t].told = reply[t].size /\ reply[t].told # 0 /\ reply[t].told \in Nat /\ pc[t] = "reply"
      BY <1>1, <1>5, <2>3, <2>5 DEF Reply, Sends, HttpTypes
    <3>3. reply[t].told = 1 + Len(o)
      BY <2>5, <3>2 DEF Sized
    <3>4. Len(q) = Len(o)
      <4>1. DOMAIN q = DOMAIN o
        BY <3>1
      <4> HIDE DEF q, o
      <4> QED BY <3>1, <4>1, LenProperties
    <3>5. Headed(t, q) = q
      <4> HIDE DEF q, o
      <4> QED BY <1>1, <3>1, <3>3, <3>4, HeadedSeq
    <3>6. Arrives(t)
      BY <2>2, <3>2 DEF Arrives
    <3>7. got'[c] = g \o q
      <4>1. got' = [got EXCEPT ![c] = @ \o q]
        BY <2>3, <2>5, <3>5, <3>6
      <4> HIDE DEF q
      <4> QED BY <1>1, <4>1 DEF ClientTypes
    <3>8. conn'[c].out = <<>>
      <4>1. conn'[c] = [conn[c] EXCEPT !.out = <<>>] /\ conn[c] \in Connections
        BY <1>1, <1>5, <2>5 DEF Reply, Emptied, BufferTypes
      <4> QED BY <4>1 DEF Connections
    <3>9. Len(g) + Len(o) = written[c] /\ (\A i \in DOMAIN g : g[i] = <<c, i>>) /\ (\A i \in DOMAIN o : o[i] = Len(g) + i)
      BY <1>3
    <3> HIDE DEF g, o, q
    <3>10. Len(g \o q) = Len(g) + Len(o) /\ \A i \in DOMAIN (g \o q) : (g \o q)[i] = <<c, i>>
      <4>1. \A a \in Seq(Clients \X Nat), b \in Seq(Nat), d \in Seq(Clients \X Nat) :
              (\A i \in DOMAIN a : a[i] = <<c, i>>) /\ (\A i \in DOMAIN b : b[i] = Len(a) + i)
                /\ d = [i \in DOMAIN b |-> <<c, b[i]>>]
              => Len(a \o d) = Len(a) + Len(b) /\ \A i \in DOMAIN (a \o d) : (a \o d)[i] = <<c, i>>
        BY AllTaken, Zenon
      <4> QED BY ONLY <3>1, <3>9, <4>1, Zenon
    <3>11. Len(g) \in Nat /\ Len(o) \in Nat
      BY <3>1, LenProperties
    <3>12. Len(got'[c]) = written'[c] /\ Len(got'[c]) \in Nat /\ \A i \in DOMAIN got'[c] : got'[c][i] = <<c, i>>
      BY <1>2, <3>7, <3>9, <3>10, <3>11
    <3>13. Len(conn'[c].out) = 0 /\ DOMAIN conn'[c].out = {}
      BY <3>8
    <3> QED BY <3>12, <3>13
  <2> QED BY <2>4, <2>5
<1> QED BY <1>4, <1>5

(* And from the session.                                                    *)
LEMMA DeliveredSession ==
  ASSUME TypeOK, Sized, Delivered, NEW c \in Clients,
         SessionReceive(c) \/ SessionSend(c) \/ SessionFails(c) \/ EndSession(c)
  PROVE  Delivered' /\ Sized'
<1>1. ClientTypes /\ BufferTypes /\ SessionTypes
  BY Parts
<1>2. got' = got /\ misled' = misled /\ UNCHANGED <<pc, ptr, reply>>
  BY DEF SessionReceive, SessionSend, SessionFails, EndSession, EndSessionDelete, EndSessionDefer,
     EndSessionFlag, clientVars, threadVars, http
<1>3. \A t \in Threads : pc[t] = "reply" => ptr[t] \in Clients
  BY Parts, ThreadFacts
<1>4. CASE SessionSend(c) /\ ~End(c)
  <2> DEFINE o == conn[c].out
             w == written[c]
             g == Len(got[c])
  <2>1. /\ conn' = [conn EXCEPT ![c].out = Append(@, written[c] + 1)]
        /\ written' = [written EXCEPT ![c] = @ + 1]
    BY <1>4 DEF SessionSend
  <2>2. \A d \in Clients \ {c} : conn'[d] = conn[d] /\ written'[d] = written[d]
    BY <1>1, <2>1 DEF BufferTypes, SessionTypes
  <2>3. conn'[c].out = Append(o, w + 1) /\ written'[c] = w + 1
    <3>1. SUFFICES ASSUME NEW a, a = Append(o, w + 1) PROVE conn'[c].out = a /\ written'[c] = w + 1
      OBVIOUS
    <3>2. conn'[c] = [conn[c] EXCEPT !.out = a] /\ written'[c] = w + 1 /\ conn[c] \in Connections
      BY <1>1, <2>1, <3>1 DEF BufferTypes, SessionTypes
    <3> QED BY ONLY <3>2 DEF Connections
  <2>4. g \in Nat /\ o \in Seq(Nat) /\ w \in Nat
    BY <1>1, Buffer DEF ClientTypes, SessionTypes
  <2>5. c \notin misled => g + Len(o) = w /\ \A i \in DOMAIN o : o[i] = g + i
    BY DEF Delivered
  <2>6. c \notin misled =>
          g + Len(Append(o, w + 1)) = w + 1 /\ \A i \in DOMAIN Append(o, w + 1) : Append(o, w + 1)[i] = g + i
    BY ONLY <2>4, <2>5, OneMore
  <2>7. c \notin misled =>
        /\ Len(got'[c]) + Len(conn'[c].out) = written'[c]
        /\ \A i \in DOMAIN conn'[c].out : conn'[c].out[i] = Len(got'[c]) + i
    BY ONLY <1>2, <2>3, <2>6
  <2>8. ASSUME NEW d \in Clients \ misled, d # c
        PROVE  /\ Len(got'[d]) + Len(conn'[d].out) = written'[d]
               /\ \A i \in DOMAIN conn'[d].out : conn'[d].out[i] = Len(got'[d]) + i
    BY <1>2, <2>2, <2>8 DEF Delivered
  <2>9. Sized'
    <3>1. \A t \in Threads : pc[t] = "reply" => ptr[t] # c
      BY <1>4 DEF SessionSend, SessionVars, Locked
    <3> QED BY <1>2, <1>3, <2>2, <3>1 DEF Sized
  <2> QED BY <1>2, <2>7, <2>8, <2>9 DEF Delivered
<1>5. CASE ~(SessionSend(c) /\ ~End(c))
  <2>1. written' = written
    BY <1>5 DEF SessionReceive, SessionSend, SessionFails, EndSession, EndSessionDelete,
       EndSessionDefer, EndSessionFlag, End
  <2>2. \/ conn' = conn \/ conn' = [conn EXCEPT ![c].internal = TRUE]
        \/ \E n : conn' = [conn EXCEPT ![c] = [conn[c] EXCEPT !.current = n]]
    <3>1. CASE SessionReceive(c) /\ ~End(c)
      BY <1>1, <3>1, ReceiveStep
    <3>2. CASE ~(SessionReceive(c) /\ ~End(c))
      BY <1>5, <3>2 DEF SessionReceive, SessionSend, SessionFails, EndSession, EndSessionDelete,
         EndSessionDefer, EndSessionFlag, End
    <3> QED BY <3>1, <3>2
  <2>3. ASSUME NEW d \in Clients PROVE conn'[d].out = conn[d].out
    <3>1. conn[d] \in Connections
      BY <1>1, Buffer
    <3>2. conn'[d] = conn[d] \/ conn'[d] = [conn[d] EXCEPT !.internal = TRUE] \/ \E n : conn'[d] = [conn[d] EXCEPT !.current = n]
      BY <1>1, <2>2 DEF BufferTypes
    <3> QED BY ONLY <3>1, <3>2 DEF Connections
  <2>4. Delivered'
    <3>1. SUFFICES ASSUME NEW d \in Clients, d \notin misled
                   PROVE  /\ Len(got[d]) + Len(conn'[d].out) = written[d]
                          /\ \A i \in DOMAIN got[d] : got[d][i] = <<d, i>>
                          /\ \A i \in DOMAIN conn'[d].out : conn'[d].out[i] = Len(got[d]) + i
      BY <1>2, <2>1 DEF Delivered
    <3>2. /\ Len(got[d]) + Len(conn[d].out) = written[d]
          /\ \A i \in DOMAIN got[d] : got[d][i] = <<d, i>>
          /\ \A i \in DOMAIN conn[d].out : conn[d].out[i] = Len(got[d]) + i
      BY <3>1 DEF Delivered
    <3> QED BY ONLY <2>3, <3>1, <3>2, Zenon
  <2>5. Sized'
    BY <1>2, <1>3, <2>3 DEF Sized
  <2> QED BY <2>4, <2>5
<1> QED BY <1>4, <1>5

(* A request goes on carrying its bytes until it is accepted or refused.    *)
LEMMA SendingStep ==
  ASSUME TypeOK, Mixing, Orderly, Sane', NEW t \in Threads, Handle(t), ~Send(t),
         NEW c \in Clients, client'[c] \notin {"failed", "closed"}
  PROVE  /\ client[c] \notin {"failed", "closed"}
         /\ \A u \in Threads : /\ Sending(c, u)' <=> Sending(c, u)
                               /\ Sending(c, u) => req'[u] = req[u]
<1>1. ThreadTypes /\ ClientTypes
  BY Parts
<1>2. /\ \A u \in Threads \ {t} : pc'[u] = pc[u] /\ req'[u] = req[u]
      /\ req'[t] = NoRequest \/ req'[t] = req[t]
  BY ThreadStep
<1>3. c # None /\ NoRequest.from = None
  BY TunnelAssumption DEF NoRequest
<1>4. client[c] \notin {"failed", "closed"}
  <2>1. CASE UNCHANGED <<client, hash, awaiting>>
    BY <2>1
  <2>2. CASE Replies(t) /\ req[t].from \in Clients /\ req[t].from # None
    <3>1. CASE req[t].from = c
      <4>1. client[c] # "closed" /\ (client[c] = "failed" => req[t].mode = "close" \/ client'[c] = client[c])
        BY <2>2, <3>1, ReplyFacts DEF Orderly, Single
      <4>2. req[t].mode = "close" => client'[c] = "closed" \/ client'[c] = client[c]
        BY <2>2, <3>1, ReplyFacts
      <4> QED BY <4>1, <4>2
    <3>2. CASE req[t].from # c
      <4>1. \A d \in Clients \ {req[t].from} : client'[d] = client[d]
        BY <2>2, ReplyFacts
      <4> QED BY <3>2, <4>1
    <3> QED BY <3>1, <3>2
  <2> QED BY <2>1, <2>2, HandleKinds
<1>5. \A u \in Threads \ {t} : (Sending(c, u)' <=> Sending(c, u)) /\ (Sending(c, u) => req'[u] = req[u])
  BY <1>2 DEF Sending
<1>6. (Sending(c, t)' <=> Sending(c, t)) /\ (Sending(c, t) => req'[t] = req[t])
  <2>1. CASE Find(t)
    BY <1>1, <2>1 DEF Find, Goto, Parses, Sending, ThreadTypes
  <2>2. ASSUME ~Find(t) PROVE pc'[t] \notin {"parse", "lock"}
    <3>1. CASE SetLength(t) \/ SendHeader(t)
      BY <3>1, Parts DEF SetLength, SendHeader, Reach, Heading, Replying, HttpTypes, NoReply
    <3>2. CASE ~(SetLength(t) \/ SendHeader(t))
      BY <1>1, <2>2, <3>2 DEF ThreadTypes, Handle, Hail, Open, NotFound, FindClose, NotFoundClose, ReplyHail, ReplyOpen,
         ReplyClose, Send, SendOverflow, Idle, Reply, FlagClose, Notify, Test, Kill, Fault, Goto, Replied, Finish, Refuse
    <3> QED BY <3>1, <3>2
  <2>3. ASSUME ~Find(t), Sending(c, t) PROVE FALSE
    <3>1. req[t].from = c /\ req[t].mode = "send" /\ pc[t] \in {"parse", "lock"}
      BY <2>3 DEF Sending
    <3>2. awaiting[c] = t /\ client[c] = "open" /\ ptr[t] \in {None, c}
      BY <1>3, <3>1 DEF Orderly, Single
    <3>3. ~Dangling(t)
      <4>1. ASSUME Dangling(t) PROVE FALSE
        <5>1. pc[t] = "lock" /\ Deleted(ptr[t])
          BY <3>1, <4>1 DEF Dangling
        <5>2. ptr[t] = c
          BY <1>1, <3>2, <5>1, ThreadFacts, TunnelAssumption
        <5>3. Over(c)
          BY <5>1, <5>2 DEF Orderly, DeletedOnce, Flagged, Closed
        <5> QED BY <3>1, <5>3, OverAlone
      <4> QED BY <4>1
    <3>4. NotFound(t) \/ SendOverflow(t)
      <4>1. ~SetLength(t) /\ ~SendHeader(t)
        BY <3>1, Parts DEF SetLength, SendHeader, Reach, Heading, Replying, HttpTypes, NoReply
      <4> QED BY <2>3, <3>1, <3>3, <4>1 DEF Handle, Hail, Open, Find, FindClose, NotFoundClose, ReplyHail, ReplyOpen,
         ReplyClose, Idle, Reply, FlagClose, Notify, Test, Kill, Fault, Reach, Sends, Parses
    <3>5. Answer(t, "failed", hash[req[t].from], <<>>)
      BY <3>1, <3>4 DEF NotFound, SendOverflow, Refuse
    <3>6. Arrives(t)
      <4>1. reply[t] = NoReply
        BY <3>1, Parts DEF HttpTypes, Replying
      <4> QED BY <3>1, <3>2, <4>1 DEF Arrives, Waits, NoReply
    <3>7. client' = [client EXCEPT ![c] = "failed"]
      BY <3>1, <3>5, <3>6, AnswerCases
    <3>8. client'[c] = "failed"
      BY <1>1, <3>7 DEF ClientTypes
    <3> QED BY <3>8
  <2> QED BY <2>1, <2>2, <2>3 DEF Sending
<1> QED BY <1>4, <1>5, <1>6

(* Only an accepted SEND adds to what was accepted.                         *)
LEMMA AcceptedStep ==
  ASSUME NEW t \in Threads, Handle(t), ~Send(t)
  PROVE  accepted' = accepted
BY DEF Handle, Hail, Open, Find, NotFound, FindClose, NotFoundClose, SetLength, SendHeader, ReplyHail, ReplyOpen,
       ReplyClose, SendOverflow, Idle, Reply, FlagClose, Notify, Test, Kill, Fault, connVars

(* The input, through the threads.                                          *)
LEMMA CountedHandle ==
  ASSUME TypeOK, Mixing, Orderly, Sane', Counted, Numbered, NEW t \in Threads, Handle(t)
  PROVE  Counted' /\ Numbered'
<1>1. ThreadTypes /\ ClientTypes /\ SessionTypes
  BY Parts
<1>2. sent' = sent
  BY GotStep
<1>3. CASE ~Send(t)
  <2>1. accepted' = accepted
    BY <1>3, AcceptedStep
  <2>2. Numbered'
    BY <2>1 DEF Numbered
  <2>3. ASSUME NEW c \in Clients, client'[c] \notin {"failed", "closed"}
        PROVE  /\ (\A u \in Threads : ~Sending(c, u)') => Len(accepted'[c]) = sent'[c]
               /\ \A u \in Threads : Sending(c, u)' =>
                    req'[u].first = Len(accepted'[c]) + 1 /\ sent'[c] = Len(accepted'[c]) + req'[u].n
    <3>1. /\ client[c] \notin {"failed", "closed"}
          /\ \A u \in Threads : /\ Sending(c, u)' <=> Sending(c, u)
                                /\ Sending(c, u) => req'[u] = req[u]
      BY <1>3, <2>3, SendingStep
    <3>2. /\ (\A u \in Threads : ~Sending(c, u)) => Len(accepted[c]) = sent[c]
          /\ \A u \in Threads : Sending(c, u) => req[u].first = Len(accepted[c]) + 1 /\ sent[c] = Len(accepted[c]) + req[u].n
      BY <3>1 DEF Counted
    <3> QED BY <1>2, <2>1, <3>1, <3>2
  <2> QED BY <2>2, <2>3 DEF Counted
<1>4. CASE Send(t)
  <2> DEFINE d == ptr[t]
             a == accepted[d]
             n == req[t].n
             first == req[t].first
             q == [i \in 1..n |-> first + i - 1]
  <2>1. pc[t] = "lock" /\ req[t].mode = "send" /\ req[t].from = d /\ d \in Clients /\ n \in Nat /\ client[d] = "open"
    <3>1. pc[t] = "lock" /\ req[t].mode = "send"
      BY <1>4 DEF Send, Reach
    <3>2. req[t].from # None /\ d \in Clients /\ d # None /\ n \in Nat
      BY <1>1, <3>1, ThreadFacts, TunnelAssumption
    <3> QED BY <3>1, <3>2 DEF Orderly, Single
  <2>2. Sending(d, t)
    BY <2>1 DEF Sending
  <2>3. first = Len(a) + 1 /\ sent[d] = Len(a) + n
    BY <2>1, <2>2 DEF Counted
  <2>4. accepted' = [accepted EXCEPT ![d] = a \o q] /\ UNCHANGED <<client, req>> /\ pc' = [pc EXCEPT ![t] = "reply"]
    BY <1>4 DEF Send, Goto, clientVars
  <2>5. a \in Seq(Nat) /\ \A i \in DOMAIN a : a[i] = i
    BY <1>1, <2>1 DEF SessionTypes, Numbered
  <2>6. Len(a \o q) = Len(a) + n /\ \A i \in DOMAIN (a \o q) : (a \o q)[i] = i
    BY <2>1, <2>3, <2>5, Continues
  <2>7. accepted'[d] = a \o q /\ \A c \in Clients \ {d} : accepted'[c] = accepted[c]
    BY <1>1, <2>1, <2>4 DEF SessionTypes
  <2>8. \A u \in Threads : (u = t => pc'[u] = "reply") /\ (u # t => pc'[u] = pc[u])
    BY <1>1, <2>4 DEF ThreadTypes
  <2>9. \A u \in Threads : req[u].from = d => u = t
    BY <2>1, TunnelAssumption DEF Orderly, Single
  <2> HIDE DEF a, q, d, n, first
  <2>10. Numbered'
    BY <2>6, <2>7 DEF Numbered
  <2>11. ASSUME NEW c \in Clients, client'[c] \notin {"failed", "closed"}
         PROVE  /\ (\A u \in Threads : ~Sending(c, u)') => Len(accepted'[c]) = sent'[c]
                /\ \A u \in Threads : Sending(c, u)' =>
                     req'[u].first = Len(accepted'[c]) + 1 /\ sent'[c] = Len(accepted'[c]) + req'[u].n
    <3>1. CASE c = d
      <4>1. \A u \in Threads : ~Sending(c, u)'
        BY <2>4, <2>8, <2>9, <3>1 DEF Sending
      <4>2. Len(accepted'[c]) = sent'[c]
        BY <1>2, <2>3, <2>6, <2>7, <3>1
      <4> QED BY <4>1, <4>2
    <3>2. CASE c # d
      <4>1. \A u \in Threads : Sending(c, u)' <=> Sending(c, u)
        BY <2>1, <2>4, <2>8, <3>2 DEF Sending
      <4>2. /\ (\A u \in Threads : ~Sending(c, u)) => Len(accepted[c]) = sent[c]
            /\ \A u \in Threads : Sending(c, u) => req[u].first = Len(accepted[c]) + 1 /\ sent[c] = Len(accepted[c]) + req[u].n
        BY <2>4, <2>11 DEF Counted
      <4> QED BY <1>2, <2>4, <2>7, <3>2, <4>1, <4>2
    <3> QED BY <3>1, <3>2
  <2> QED BY <2>10, <2>11 DEF Counted
<1> QED BY <1>3, <1>4

(* A client asks when nothing of it is on its way.                          *)
LEMMA CountedAsk ==
  ASSUME TypeOK, Orderly, Counted, NEW t \in Threads, NEW c \in load.users, Ask(t, c)
  PROVE  Counted'
<1>1. ThreadTypes /\ ClientTypes /\ c \in Clients
  BY Parts, TunnelAssumption DEF OtherTypes
<1>2. PICK m \in {"hail", "open", "send", "idle", "close"}, n \in 0..2 :
        Request(t, c, m, n) /\ (m # "send" => n = 0)
  BY DEF Ask
<1> DEFINE r == [mode |-> m, from |-> c, hash |-> hash[c], n |-> n, first |-> sent[c] + 1]
<1>3. /\ awaiting[c] = None /\ req' = [req EXCEPT ![t] = r] /\ pc[t] = "idle" /\ pc' = [pc EXCEPT ![t] = "parse"]
      /\ sent' = [sent EXCEPT ![c] = @ + n] /\ UNCHANGED <<client, accepted>>
  BY <1>2 DEF Request, connVars
<1>4. r.from = c /\ r.mode = m /\ r.n = n /\ r.first = sent[c] + 1
  OBVIOUS
<1>5. req[t].from = None /\ c # None
  BY <1>1, <1>3, ThreadFacts, TunnelAssumption
<1>6. \A u \in Threads : req[u].from # c
  BY <1>3, <1>5, TunnelAssumption DEF Orderly, Single
<1> HIDE DEF r
<1>7. /\ req'[t] = r /\ pc'[t] = "parse" /\ sent'[c] = sent[c] + n /\ sent[c] \in Nat
      /\ \A u \in Threads \ {t} : req'[u] = req[u] /\ pc'[u] = pc[u]
      /\ \A d \in Clients \ {c} : sent'[d] = sent[d]
  BY <1>1, <1>3 DEF ThreadTypes, ClientTypes
<1>8. ASSUME NEW d \in Clients, client'[d] \notin {"failed", "closed"}
      PROVE  /\ (\A u \in Threads : ~Sending(d, u)') => Len(accepted'[d]) = sent'[d]
             /\ \A u \in Threads : Sending(d, u)' =>
                  req'[u].first = Len(accepted'[d]) + 1 /\ sent'[d] = Len(accepted'[d]) + req'[u].n
  <2>1. CASE d = c
    <3>1. Len(accepted[c]) = sent[c]
      <4>1. \A u \in Threads : ~Sending(c, u)
        BY <1>6 DEF Sending
      <4> QED BY <1>1, <1>3, <1>8, <2>1, <4>1 DEF Counted
    <3>2. \A u \in Threads : Sending(c, u)' => u = t /\ m = "send"
      BY <1>4, <1>6, <1>7 DEF Sending
    <3>3. m = "send" => Sending(c, t)'
      BY <1>4, <1>7 DEF Sending
    <3>4. (\A u \in Threads : ~Sending(c, u)') => Len(accepted'[c]) = sent'[c]
      BY <1>2, <1>3, <1>7, <3>1, <3>3
    <3>5. \A u \in Threads : Sending(c, u)' =>
                  req'[u].first = Len(accepted'[c]) + 1 /\ sent'[c] = Len(accepted'[c]) + req'[u].n
      BY <1>3, <1>4, <1>7, <3>1, <3>2
    <3> QED BY <2>1, <3>4, <3>5
  <2>2. CASE d # c
    <3>1. \A u \in Threads : (Sending(d, u)' <=> Sending(d, u)) /\ (Sending(d, u) => req'[u] = req[u])
      <4>1. d # None
        BY TunnelAssumption
      <4> QED BY <1>4, <1>5, <1>7, <2>2, <4>1 DEF Sending
    <3>2. /\ (\A u \in Threads : ~Sending(d, u)) => Len(accepted[d]) = sent[d]
          /\ \A u \in Threads : Sending(d, u) => req[u].first = Len(accepted[d]) + 1 /\ sent[d] = Len(accepted[d]) + req[u].n
      BY <1>3, <1>8 DEF Counted
    <3> QED BY <1>3, <1>7, <2>2, <3>1, <3>2
  <2> QED BY <2>1, <2>2
<1> QED BY <1>8 DEF Counted

(* Nothing was sent at first.                                               *)
LEMMA StreamsInit == Init => Streams
<1> SUFFICES ASSUME Init PROVE Streams
  OBVIOUS
<1>1. \A c \in Clients : /\ sent[c] = 0 /\ got[c] = <<>> /\ written[c] = 0 /\ accepted[c] = <<>>
                         /\ conn[c].out = <<>>
  BY DEF Init, NewConnection
<1>2. \A c \in Clients, t \in Threads : ~Sending(c, t)
  BY DEF Init, Sending
<1>3. Len(<<>>) = 0 /\ DOMAIN <<>> = {}
  OBVIOUS
<1>4. Counted
  BY <1>1, <1>2 DEF Counted
<1>5. Numbered
  BY <1>1, <1>3 DEF Numbered
<1>6. Delivered
  <2> SUFFICES ASSUME NEW c \in Clients
               PROVE  /\ Len(got[c]) + Len(conn[c].out) = written[c]
                      /\ \A i \in DOMAIN got[c] : got[c][i] = <<c, i>>
                      /\ \A i \in DOMAIN conn[c].out : conn[c].out[i] = Len(got[c]) + i
    BY DEF Delivered
  <2>1. Len(got[c]) = 0 /\ Len(conn[c].out) = 0 /\ written[c] = 0 /\ DOMAIN got[c] = {} /\ DOMAIN conn[c].out = {}
    BY <1>1, <1>3
  <2> QED BY ONLY <2>1, SMT
<1>7. Sized
  BY DEF Init, Sized, NoReply
<1> QED BY <1>4, <1>5, <1>6, <1>7 DEF Streams

(* Every step of the program keeps the streams of sane clients.             *)
LEMMA StreamsNext ==
  TypeOK /\ Mixing /\ (Sane => Orderly) /\ (Sane => Streams) /\ [Next]_vars => (Sane => Streams)'
<1> SUFFICES ASSUME TypeOK, Mixing, Sane => Orderly, Sane => Streams, [Next]_vars, Sane' PROVE Streams'
  OBVIOUS
<1>1. Orderly /\ Counted /\ Numbered /\ Sized /\ Delivered
  BY SaneBefore DEF Streams
<1>2. CASE UNCHANGED vars \/ Done
  <2>1. UNCHANGED <<client, sent, got, misled, pc, req, ptr, reply, conn, written, accepted>>
    BY <1>2 DEF vars, Done, clientVars, threadVars, http, connVars
  <2> QED BY <1>1, <2>1 DEF Streams, Counted, Numbered, Sized, Delivered, Sending
<1>3. ASSUME NEW t \in Threads, NEW c \in load.users, Ask(t, c) PROVE Streams'
  <2>1. UNCHANGED <<got, misled, ptr, reply, conn, written, accepted>> /\ pc' = [pc EXCEPT ![t] = "parse"]
    BY <1>3 DEF Ask, Request, connVars, http
  <2>2. \A u \in Threads : pc'[u] = "reply" => pc[u] = "reply"
    BY <2>1, Parts DEF ThreadTypes
  <2>3. Numbered' /\ Sized' /\ Delivered'
    BY <1>1, <2>1, <2>2 DEF Numbered, Sized, Delivered
  <2> QED BY <1>1, <1>3, <2>3, CountedAsk DEF Streams
<1>4. CASE \E t \in Threads : Handle(t)
  BY <1>1, <1>4, CountedHandle, SizedHandle, DeliveredHandle DEF Streams
<1>5. ASSUME NEW c \in Clients, SessionReceive(c) \/ SessionSend(c) \/ SessionFails(c) \/ EndSession(c) PROVE Streams'
  <2>1. UNCHANGED <<client, sent, pc, req, accepted>>
    BY <1>5 DEF SessionReceive, SessionSend, SessionFails, EndSession, EndSessionDelete,
       EndSessionDefer, EndSessionFlag,
       clientVars, threadVars
  <2>2. Counted' /\ Numbered'
    BY <1>1, <2>1 DEF Counted, Numbered, Sending
  <2> QED BY <1>1, <1>5, <2>2, DeliveredSession DEF Streams
<1>6. ASSUME NEW c \in Clients, GiveUp(c) PROVE FALSE
  BY <1>6 DEF GiveUp, Sane, NobodyGaveUp, TypeOK
<1> QED BY <1>2, <1>3, <1>4, <1>5, <1>6 DEF Next

(* The tunnel is a pair of byte streams: what a session has received and    *)
(* what is unread in buffer_in is what was accepted, through the moves of   *)
(* shift() and the refusals; as long as clients have one request at a time  *)
(* and know their own hash, what was accepted is what they sent, in order   *)
(* and without a gap, and what a client got that was told the length of no  *)
(* other reply, and what waits in buffer_out, is what its own session has   *)
(* sent.                                                                    *)
THEOREM BytesArrive == Spec => []BytesInOrder
<1>1. TypeOK /\ AllKept /\ (Sane => Streams) => BytesInOrder
  <2> SUFFICES ASSUME TypeOK, AllKept, Sane => Streams, NEW c \in Clients
               PROVE  /\ received[c] \o SubSeq(conn[c].cells, conn[c].current + 1, conn[c].offset) = accepted[c]
                      /\ Sane => /\ \A i \in DOMAIN accepted[c] : accepted[c][i] = i
                                 /\ c \notin misled => /\ Len(got[c]) + Len(conn[c].out) = written[c]
                                                       /\ \A i \in DOMAIN got[c] : got[c][i] = <<c, i>>
    BY DEF BytesInOrder, Sane
  <2>1. received[c] \o SubSeq(conn[c].cells, conn[c].current + 1, conn[c].offset) = accepted[c]
    BY DEF AllKept
  <2>2. Sane => Numbered /\ Delivered
    BY DEF Streams
  <2> QED BY <2>1, <2>2 DEF Numbered, Delivered
<1> QED BY <1>1, OrderlyAlways, TypeCorrect, KeptInit, KeptNext, StreamsInit, StreamsNext, PTL DEF Spec
=============================================================================

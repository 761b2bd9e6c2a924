---------------------------- MODULE MCRTMPTunnel ----------------------------
(***************************************************************************)
(* The tunnel with two HTTP threads: one client that fills and drains both *)
(* buffers, one that gives up on a request, two that ask the server for    *)
(* hashes and close, or two that poll it while one is sent a byte.         *)
(***************************************************************************)
EXTENDS RTMPTunnel
CONSTANTS alice, bob
TwoClients == {alice, bob}
All == {"hail", "open", "send", "idle", "close"}
Outputs(n, m) == [c \in TwoClients |-> IF c = alice THEN n ELSE m]
OneUser == [users |-> {alice}, asks |-> All, inputs |-> 3, outputs |-> Outputs(2, 0), breaks |-> 0]
Fickle == [users |-> {alice}, asks |-> All, inputs |-> 1, outputs |-> Outputs(1, 0), breaks |-> 1]
TwoUsers == [users |-> TwoClients, asks |-> {"hail", "open", "close"},
             inputs |-> 0, outputs |-> Outputs(0, 0), breaks |-> 0]
TwoReaders == [users |-> TwoClients, asks |-> {"open", "idle"},
               inputs |-> 0, outputs |-> Outputs(1, 0), breaks |-> 0]
SomeLoads == {OneUser, Fickle, TwoUsers, TwoReaders}
=============================================================================

--------------------------- MODULE MCRTMPSession ---------------------------
(* RTMPSession with a client that plays one stream and sends commands, and  *)
(* with one that plays a second stream after the first.                     *)
EXTENDS RTMPSession
=============================================================================

---------------------------- MODULE MCHTTPServer ----------------------------
(* HTTPServer with a client that makes two requests of any kind, and one    *)
(* that asks for a single file.                                             *)
EXTENDS HTTPServer

TwoThenOne == <<2, 1>>
AnythingThenFile == <<{"file", "stream", "list", "missing"}, {"file"}>>
=============================================================================

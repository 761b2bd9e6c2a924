---------------------------- MODULE MCLiveSource ----------------------------
(* LiveSource with viewers that are interchangeable.                        *)
EXTENDS LiveSource, TLC

AnyViewer == Permutations(Viewers)
=============================================================================

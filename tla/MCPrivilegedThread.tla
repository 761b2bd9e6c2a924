------------------------- MODULE MCPrivilegedThread -------------------------
(* PrivilegedThread with interchangeable upstream threads.                 *)
EXTENDS PrivilegedThread, TLC

Symmetry == Permutations(Upstream)
=============================================================================

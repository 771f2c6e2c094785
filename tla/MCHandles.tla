------------------------------ MODULE MCHandles ------------------------------
(* Handles on a heap of four structures: a call with its argument list, its      *)
(* client, and one object of another kind.                                      *)
EXTENDS Handles, TLC

CONSTANTS s1, s2, s3, s4

MCStructs == {s1, s2, s3, s4}
Symmetry == Permutations(MCStructs)
=============================================================================

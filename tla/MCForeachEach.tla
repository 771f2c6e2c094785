---------------------------- MODULE MCForeachEach ----------------------------
(* A small instance of ForeachEach: a pool of three threads, so that one can  *)
(* be in a block while another waits for it and a third one is free to work   *)
(* for a nested call.                                                         *)
EXTENDS ForeachEach

CONSTANTS t1, t2, t3

ThreeThreads == {t1, t2, t3}
=============================================================================

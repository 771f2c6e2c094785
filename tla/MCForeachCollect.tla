-------------------------- MODULE MCForeachCollect --------------------------
(* A small instance of ForeachCollect: a pool of two threads, two records and *)
(* two values of a UDF.                                                       *)
EXTENDS ForeachCollect

CONSTANTS t1, t2, ruby, r1, r2, v1, b1

Pool       == {t1, t2}
TwoRecords == {r1, r2}
OneValue   == {v1}
OneOpaque  == {b1}
=============================================================================

---------------------------- MODULE MCRecordCalls ----------------------------
(* A small instance of RecordCalls: three calls of any kind.                  *)
EXTENDS RecordCalls, TLC

CONSTANTS c1, c2, c3

Three == {c1, c2, c3}
AllKinds == {"put", "get", "delete", "exists", "touch", "operate"}

\* hashes given to Policy.new, as functions on the fields they have
NoField  == [f \in {} |-> 0]
Create   == [f \in {"exists"} |-> "create"]
OnlyGen1 == [f \in {"gen", "generation"} |-> IF f = "gen" THEN "eq" ELSE 1]

\* writes with and without a policy object; a put that may only create, a removal
\* of one generation only
SomeOptions ==
  [k \in AllKinds |-> CASE k = "put"    -> {NULL, Create}
                       [] k = "delete"  -> {NULL, OnlyGen1}
                       [] k = "operate" -> {NULL, NoField}
                       [] k = "exists"  -> {NULL}
                       [] k \in {"get", "touch"} -> {NoField}]

\* calls have no order; used with invariants only
CallSymmetry == Permutations(Calls)
=============================================================================

-------------------------- MODULE CollectContract ---------------------------
(***************************************************************************)
(* What a collecting call (Client#scan, #query, #execute_udf_on_scan,       *)
(* #execute_udf_on_query) promises its caller: it gathers results one at a  *)
(* time, in any order, may lose one for want of memory, and ends by         *)
(* returning everything it gathered, by raising, or with the process.  An   *)
(* answer is complete or there is none.                                     *)
(***************************************************************************)
EXTENDS Naturals, Sequences

CONSTANT Results

VARIABLES
  unsent,     \* results not gathered yet
  collected,  \* the results gathered, in the order they were
  outcome,    \* how the call ended
  answer      \* the array the caller got

vars == <<unsent, collected, outcome, answer>>

Init ==
  /\ unsent = Results
  /\ collected = <<>>
  /\ outcome = "running"
  /\ answer = <<>>

Gather(r) ==
  /\ outcome = "running" /\ r \in unsent
  /\ unsent' = unsent \ {r}
  /\ collected' = Append(collected, r)
  /\ UNCHANGED <<outcome, answer>>

Lose(r) ==
  /\ outcome = "running" /\ r \in unsent
  /\ unsent' = unsent \ {r}
  /\ UNCHANGED <<collected, outcome, answer>>

Return ==
  /\ outcome = "running" /\ unsent = {}
  /\ outcome' = "returned"
  /\ answer' = collected
  /\ UNCHANGED <<unsent, collected>>

Fail(how) ==
  /\ outcome = "running"
  /\ outcome' = how
  /\ UNCHANGED <<unsent, collected, answer>>

Next ==
  \/ \E r \in Results : Gather(r) \/ Lose(r)
  \/ Return
  \/ Fail("raised") \/ Fail("aborted")

Spec == Init /\ [][Next]_vars
=============================================================================

--------------------------- MODULE ForeachCollect ---------------------------
(***************************************************************************)
(* One collecting call: Client#scan, #query, #execute_udf_on_scan or        *)
(* #execute_udf_on_query.  The C client runs the callback once for every    *)
(* result the server sends, on the threads of its pool (or, for a           *)
(* sequential scan, on the calling Ruby thread).  Each callback copies its  *)
(* result into a query_item and appends the item to one linked list under   *)
(* G_CALLBACK_MUTEX.  When the foreach is over, the Ruby thread turns the   *)
(* list into the Ruby array, freeing each item as it goes; rb_ensure frees  *)
(* the handle and what is left of the list on every way out.                *)
(*                                                                         *)
(* Abstraction: a result is an atom and names the query_item malloc'ed for  *)
(* it; the dummy first cell of the list is First.  order and dropped are     *)
(* history variables: they are read by no action.                           *)
(***************************************************************************)
EXTENDS Naturals, Sequences

CONSTANTS
  Workers,   \* the threads that run callbacks for this foreach
  Ruby,      \* the Ruby thread that made the call
  Records,   \* results that are records (AS_REC)
  Values,    \* results of a UDF of a type as_val_free knows
  Opaque,    \* results of a UDF of another type (AS_BYTES)
  First,     \* the first cell of the list, which carries no result
  NULL

Results == Records \cup Values \cup Opaque
Items   == Results \cup {First}

ASSUME WorkersAssumption ==
  /\ Workers # {}
  /\ NULL \notin Workers
  \* a pool runs the callbacks, or the calling thread does, not both
  /\ Ruby \in Workers => Workers = {Ruby}
ASSUME ResultsAssumption ==
  /\ First \notin Results /\ NULL \notin Results /\ First # NULL
  /\ Records \cap Values = {}
  /\ Opaque \cap (Records \cup Values) = {}

VARIABLES
  pending,    \* results the server has not sent yet
  failed,     \* some node of the cluster has answered with an error
  pc,         \* where each worker is in the callback
  job,        \* the result each worker's callback was given
  mutex,      \* the owner of G_CALLBACK_MUTEX
  next,       \* query_item.next
  lastsaved,  \* First->lastsaved, the end of the list
  cell,       \* the heap state of each query_item
  payload,    \* the copied record or the reserved value of each item
  handle,     \* the as_query or the as_scan of the call
  main,       \* where the Ruby thread is
  unwinding,  \* an exception is on its way through rb_ensure
  data,       \* args->query_data: the first item not yet freed
  result,     \* args->result: the Ruby array
  order,      \* history: results in the order their items were linked
  dropped     \* history: results whose callback gave up for want of memory

workerVars == <<pc, job, mutex>>
listVars   == <<next, lastsaved>>
heapVars   == <<cell, payload, handle>>
mainVars   == <<main, unwinding, data, result>>
histVars   == <<order, dropped>>
vars == <<pending, failed, workerVars, listVars, heapVars, mainVars, histVars>>

HeapState == {"none", "live", "freed", "corrupt"}

TypeOK ==
  /\ pending \subseteq Results
  /\ failed \in BOOLEAN
  /\ pc \in [Workers -> {"idle", "alloc", "fill", "lock", "link", "save", "unlock"}]
  /\ job \in [Workers -> Results \cup {NULL}]
  /\ mutex \in Workers \cup {NULL}
  /\ next \in [Items -> Results \cup {NULL}]
  /\ lastsaved \in Results \cup {NULL}
  /\ cell \in [Items -> HeapState]
  /\ payload \in [Results -> HeapState]
  /\ handle \in HeapState
  /\ main \in {"foreach", "convert", "ensure", "destroy", "returned", "raised", "aborted"}
  /\ unwinding \in BOOLEAN
  /\ data \in Items \cup {NULL}
  /\ result \in Seq(Results)
  /\ order \in Seq(Results)
  /\ dropped \subseteq Results

\* malloc has returned the first cell and init_query_item has cleared it
Init ==
  /\ pending = Results
  /\ failed = FALSE
  /\ pc = [t \in Workers |-> "idle"]
  /\ job = [t \in Workers |-> NULL]
  /\ mutex = NULL
  /\ next = [i \in Items |-> NULL]
  /\ lastsaved = NULL
  /\ cell = [i \in Items |-> IF i = First THEN "live" ELSE "none"]
  /\ payload = [r \in Results |-> "none"]
  /\ handle = "live"
  /\ main = "foreach"
  /\ unwinding = FALSE
  /\ data = First
  /\ result = <<>>
  /\ order = <<>>
  /\ dropped = {}

-----------------------------------------------------------------------------
(* Helpers *)

Goto(t, from, to) == pc[t] = from /\ pc' = [pc EXCEPT ![t] = to]

\* free(): only a live block may be freed
Released(state) == IF state = "live" THEN "freed" ELSE "corrupt"

\* as_record_destroy or as_val_free on the payload of item i, if it has one;
\* as_val_free has no case for the types in Opaque
PayloadFreed(i) ==
  [r \in Results |-> IF r = i /\ r \notin Opaque THEN Released(payload[r])
                                                  ELSE payload[r]]

-----------------------------------------------------------------------------
(* The callback, on a thread of the pool *)

\* the C client has read a result off a node's socket and calls the callback
Deliver(t) ==
  /\ main = "foreach"
  /\ Goto(t, "idle", "alloc")
  /\ \E r \in pending : /\ job' = [job EXCEPT ![t] = r]
                        /\ pending' = pending \ {r}
  /\ UNCHANGED <<failed, mutex, listVars, heapVars, mainVars, histVars>>

\* malloc and init_query_item
AllocItem(t) ==
  /\ main = "foreach"
  /\ Goto(t, "alloc", "fill")
  /\ cell' = [cell EXCEPT ![job[t]] = "live"]
  /\ next' = [next EXCEPT ![job[t]] = NULL]
  /\ UNCHANGED <<pending, failed, job, mutex, lastsaved, payload, handle, mainVars, histVars>>

\* malloc fails: the callback returns true and the result is lost
AllocFails(t) ==
  /\ main = "foreach"
  /\ Goto(t, "alloc", "idle")
  /\ dropped' = dropped \cup {job[t]}
  /\ job' = [job EXCEPT ![t] = NULL]
  /\ UNCHANGED <<pending, failed, mutex, listVars, heapVars, mainVars, order>>

\* rb_copy_as_record, or as_val_reserve for a value that is no record
FillItem(t) ==
  /\ main = "foreach"
  /\ Goto(t, "fill", "lock")
  /\ payload' = [payload EXCEPT ![job[t]] = "live"]
  /\ UNCHANGED <<pending, failed, job, mutex, listVars, cell, handle, mainVars, histVars>>

\* rb_copy_as_record is out of memory and raises: on the calling thread the
\* exception unwinds to rb_ensure; a pool thread has no Ruby frame to unwind
\* to and the process dies
CopyRaises(t) ==
  /\ main = "foreach"
  /\ job[t] \in Records
  /\ Goto(t, "fill", "idle")
  /\ job' = [job EXCEPT ![t] = NULL]
  /\ main' = IF t = Ruby THEN "ensure" ELSE "aborted"
  /\ unwinding' = TRUE
  /\ UNCHANGED <<pending, failed, mutex, listVars, heapVars, data, result, histVars>>

\* mutant of Lock: the mutex is not waited for
LockWithoutWaiting(t) ==
  /\ main = "foreach"
  /\ Goto(t, "lock", "link")
  /\ mutex' = t
  /\ UNCHANGED <<pending, failed, job, listVars, heapVars, mainVars, histVars>>

\* set_query_item_next
Lock(t) ==
  /\ main = "foreach"
  /\ mutex = NULL
  /\ Goto(t, "lock", "link")
  /\ mutex' = t
  /\ UNCHANGED <<pending, failed, job, listVars, heapVars, mainVars, histVars>>

Link(t) ==
  /\ main = "foreach"
  /\ Goto(t, "link", "save")
  /\ IF next[First] = NULL THEN next' = [next EXCEPT ![First] = job[t]]
                          ELSE next' = [next EXCEPT ![lastsaved] = job[t]]
  /\ order' = Append(order, job[t])
  /\ UNCHANGED <<pending, failed, job, mutex, lastsaved, heapVars, mainVars, dropped>>

SaveLast(t) ==
  /\ main = "foreach"
  /\ Goto(t, "save", "unlock")
  /\ lastsaved' = job[t]
  /\ UNCHANGED <<pending, failed, job, mutex, next, heapVars, mainVars, histVars>>

\* mutant of Unlock: an early return that keeps the mutex
UnlockForgotten(t) ==
  /\ main = "foreach"
  /\ Goto(t, "unlock", "idle")
  /\ job' = [job EXCEPT ![t] = NULL]
  /\ UNCHANGED <<pending, failed, mutex, listVars, heapVars, mainVars, histVars>>

Unlock(t) ==
  /\ main = "foreach"
  /\ Goto(t, "unlock", "idle")
  /\ mutex' = NULL
  /\ job' = [job EXCEPT ![t] = NULL]
  /\ UNCHANGED <<pending, failed, listVars, heapVars, mainVars, histVars>>

Callback(t) ==
  \/ AllocItem(t) \/ AllocFails(t) \/ FillItem(t) \/ CopyRaises(t)
  \/ Lock(t) \/ Link(t) \/ SaveLast(t) \/ Unlock(t)

-----------------------------------------------------------------------------
(* The Ruby thread *)

\* a node answers with an error or its socket times out; the other nodes may
\* still be sending
NodeFails ==
  /\ main = "foreach" /\ ~failed
  /\ failed' = TRUE
  /\ UNCHANGED <<pending, workerVars, listVars, heapVars, mainVars, histVars>>

AllIdle == \A t \in Workers : pc[t] = "idle"

\* mutant of ForeachOk: the callbacks still running are not waited for
ForeachOkEarly ==
  /\ main = "foreach" /\ ~failed /\ pending = {}
  /\ main' = "convert"
  /\ UNCHANGED <<pending, failed, workerVars, listVars, heapVars, unwinding, data, result, histVars>>

\* every node has answered; the last call of the callback, with NULL, does
\* nothing
ForeachOk ==
  /\ main = "foreach" /\ ~failed /\ pending = {} /\ AllIdle
  /\ main' = "convert"
  /\ UNCHANGED <<pending, failed, workerVars, listVars, heapVars, unwinding, data, result, histVars>>

\* mutant of ForeachErr: the error is raised outside rb_ensure
ForeachErrNoEnsure ==
  /\ main = "foreach" /\ failed /\ AllIdle
  /\ main' = "raised"
  /\ unwinding' = TRUE
  /\ UNCHANGED <<pending, failed, workerVars, listVars, heapVars, data, result, histVars>>

\* aerospike_*_foreach returns an error once its workers are done: raise_as_error
ForeachErr ==
  /\ main = "foreach" /\ failed /\ AllIdle
  /\ main' = "ensure"
  /\ unwinding' = TRUE
  /\ UNCHANGED <<pending, failed, workerVars, listVars, heapVars, data, result, histVars>>

\* set_query_result_and_destroy, one turn of its loop
ConvertItem ==
  /\ main = "convert" /\ data # NULL
  /\ result' = IF data = First THEN result ELSE Append(result, data)
  /\ payload' = PayloadFreed(data)
  /\ data' = next[data]
  /\ cell' = [cell EXCEPT ![data] = Released(@)]
  /\ UNCHANGED <<pending, failed, workerVars, listVars, handle, main, unwinding, histVars>>

\* mutant of ConvertRaises: the record is destroyed before the push that raises
ConvertRaisesLate ==
  /\ main = "convert" /\ data \in Results
  /\ main' = "ensure"
  /\ unwinding' = TRUE
  /\ payload' = PayloadFreed(data)
  /\ UNCHANGED <<pending, failed, workerVars, listVars, cell, handle, data, result, histVars>>

\* record2hash or as_val2rb_val raises on this item (Marshal.load, no memory)
ConvertRaises ==
  /\ main = "convert" /\ data \in Results
  /\ main' = "ensure"
  /\ unwinding' = TRUE
  /\ UNCHANGED <<pending, failed, workerVars, listVars, heapVars, data, result, histVars>>

ConvertDone ==
  /\ main = "convert" /\ data = NULL
  /\ main' = "ensure"
  /\ UNCHANGED <<pending, failed, workerVars, listVars, heapVars, unwinding, data, result, histVars>>

\* as_query_destroy or as_scan_destroy, the first thing the ensure clause does
DestroyHandle ==
  /\ main = "ensure"
  /\ handle' = Released(handle)
  /\ main' = "destroy"
  /\ UNCHANGED <<pending, failed, workerVars, listVars, cell, payload, unwinding, data, result, histVars>>

\* query_result_destroy, one turn of its loop
DestroyItem ==
  /\ main = "destroy" /\ data # NULL
  /\ payload' = PayloadFreed(data)
  /\ data' = next[data]
  /\ cell' = [cell EXCEPT ![data] = Released(@)]
  /\ UNCHANGED <<pending, failed, workerVars, listVars, handle, main, unwinding, result, histVars>>

\* the call returns args->result, or the exception goes on to the caller
Finish ==
  /\ main = "destroy" /\ data = NULL
  /\ main' = IF unwinding THEN "raised" ELSE "returned"
  /\ UNCHANGED <<pending, failed, workerVars, listVars, heapVars, unwinding, data, result, histVars>>

RubyThread ==
  \/ ForeachOk \/ ForeachErr
  \/ ConvertItem \/ ConvertRaises \/ ConvertDone
  \/ DestroyHandle \/ DestroyItem \/ Finish

Over == main \in {"returned", "raised", "aborted"}
Done == Over /\ UNCHANGED vars

Next ==
  \/ \E t \in Workers : Deliver(t) \/ Callback(t)
  \/ NodeFails
  \/ RubyThread
  \/ Done

\* every thread is scheduled; a node answers or its socket times out
Fairness ==
  /\ \A t \in Workers : WF_vars(Callback(t))
  /\ WF_vars(NodeFails \/ \E t \in Workers : Deliver(t))
  /\ WF_vars(RubyThread)

Spec     == Init /\ [][Next]_vars
FairSpec == Spec /\ Fairness

-----------------------------------------------------------------------------
(* Properties *)

Linked == {order[i] : i \in 1..Len(order)}

\* the k-th item of the list as the history has it; the first cell is the 0th,
\* and the end of the list comes after the last
Node(k) == IF k = 0 THEN First ELSE IF k <= Len(order) THEN order[k] ELSE NULL

\* Every item set_query_item_next has linked stays on the list, once and in the
\* order the mutex was taken, however the callbacks of several threads
\* interleave: no append overwrites another's.
NoResultLost ==
  /\ \A k \in 0..Len(order) : next[Node(k)] = Node(k + 1)
  /\ \A i, j \in 1..Len(order) : order[i] = order[j] => i = j

\* Whichever step of the call fails, the conversion loop and the ensure clause
\* between them never free an item, its payload or the handle a second time.
FreedOnce ==
  /\ \A i \in Items : cell[i] # "corrupt"
  /\ \A r \in Results : payload[r] # "corrupt"
  /\ handle # "corrupt"

\* When the caller gets control back, by a return or by an exception, the handle
\* and every item and payload of the list are freed.  What may be left is the
\* item whose rb_copy_as_record raised on the calling thread, and the reserved
\* values of a type as_val_free has no case for.
AllReleased ==
  main \in {"returned", "raised"} =>
    /\ handle = "freed"
    /\ \A i \in Items : cell[i] = "live" =>
         i \in Records \ Linked /\ main = "raised" /\ Ruby \in Workers
    /\ \A r \in Results : payload[r] = "live" => r \in Opaque

\* The call keeps the contract of CollectContract: in particular a call that
\* returns answers with every result of the server that was not lost for want
\* of memory, in list order.
Contract == INSTANCE CollectContract WITH
  unsent    <- Results \ (Linked \cup dropped),
  collected <- order,
  outcome   <- IF Over THEN main ELSE "running",
  answer    <- IF main = "returned" THEN result ELSE <<>>
ImplementsContract == Contract!Spec

\* The call ends: no callback waits for ever for G_CALLBACK_MUTEX and the
\* conversion and clean-up loops reach the end of the list.
Terminates == <>Over

-----------------------------------------------------------------------------
(* The inductive invariant *)

Holders == {"link", "save", "unlock"}

\* whose result is whose
JobInv ==
  /\ \A t \in Workers : pc[t] = "idle" <=> job[t] = NULL
  /\ \A t, u \in Workers : t # u /\ job[t] # NULL => job[t] # job[u]
  /\ \A t \in Workers : job[t] \notin pending \cup dropped
  /\ \A t \in Workers : job[t] \in Linked <=> pc[t] \in {"save", "unlock"}

MutexInv == \A t \in Workers : pc[t] \in Holders <=> mutex = t

\* every result is somewhere, and in one place
PartitionInv ==
  /\ pending \cap dropped = {}
  /\ Linked \cap (pending \cup dropped) = {}
  /\ ~unwinding => \A r \in Results :
       r \in pending \cup dropped \cup Linked \/ \E t \in Workers : job[t] = r

\* where the list ends, as the thread that holds the mutex sees it
ListInv ==
  /\ NoResultLost
  /\ \A t \in Workers : pc[t] \in {"fill", "lock", "link"} => next[job[t]] = NULL
  /\ order # <<>> /\ (\A t \in Workers : pc[t] # "save") => lastsaved = order[Len(order)]
  /\ \A t \in Workers : pc[t] = "save" => job[t] = order[Len(order)]

\* the blocks of the list before position k are freed, the others are live
FreedUpTo(k) ==
  /\ data = Node(k)
  /\ \A i \in 0..Len(order) : cell[Node(i)] = IF i < k THEN "freed" ELSE "live"
  /\ \A i \in 1..Len(order) :
       payload[order[i]] = IF i < k /\ order[i] \notin Opaque THEN "freed" ELSE "live"
  /\ main = "convert" =>
       /\ Len(result) = IF k = 0 THEN 0 ELSE k - 1
       /\ \A i \in 1..Len(result) : result[i] = order[i]

FreedInv == \E k \in 0..(Len(order) + 1) : FreedUpTo(k)

\* a block that is not on the list belongs to a callback or has been given up
UnlinkedInv == \A r \in Results \ Linked :
  /\ cell[r] \in {"none", "live"}
  /\ payload[r] \in {"none", "live"}
  /\ payload[r] = "live" => \E t \in Workers : job[t] = r
  /\ cell[r] = "live" => \/ \E t \in Workers : job[t] = r
                         \/ main = "aborted"
                         \/ r \in Records /\ Ruby \in Workers /\ unwinding

\* what a callback links is allocated and filled
ReadyInv == \A t \in Workers :
  /\ pc[t] = "alloc" => cell[job[t]] = "none"
  /\ pc[t] \in {"fill", "lock", "link"} => cell[job[t]] = "live"
  /\ pc[t] \in {"alloc", "fill"} => payload[job[t]] = "none"
  /\ pc[t] \in {"lock", "link"} => payload[job[t]] = "live"

MainInv ==
  /\ main \in {"foreach", "aborted"} => data = First /\ result = <<>>
  /\ main \notin {"foreach", "aborted"} => AllIdle
  /\ main \in {"foreach", "convert", "returned"} => ~unwinding
  /\ main \in {"raised", "aborted"} => unwinding
  /\ main \in {"ensure", "destroy", "returned"} /\ ~unwinding => data = NULL /\ result = order
  /\ main # "foreach" /\ ~unwinding => pending = {}
  /\ main \in {"returned", "raised"} => data = NULL
  /\ handle = IF main \in {"destroy", "returned", "raised"} THEN "freed" ELSE "live"

IInv == TypeOK /\ JobInv /\ MutexInv /\ PartitionInv /\ ListInv
        /\ FreedInv /\ UnlinkedInv /\ ReadyInv /\ MainInv
=============================================================================

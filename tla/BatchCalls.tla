------------------------------ MODULE BatchCalls ------------------------------
(***************************************************************************)
(* Client#batch_exists, #batch_read and #batch_get.  The program makes an    *)
(* array of keys; the nodes of the cluster read the records one by one, in   *)
(* any order, while other programs write and remove them; the callback, or   *)
(* the method, turns the results into a hash of keys or an array.  A Ruby    *)
(* Hash tells keys apart by Key#eql? and Key#hash, which compare digests.    *)
(***************************************************************************)
EXTENDS Naturals, SequencesExt

CONSTANTS
  Namespaces,
  Ids,      \* a set name and a key: what a digest is computed from
  MaxKeys,  \* bound: the length of the array
  NONE

ASSUME BatchAssumption ==
  /\ MaxKeys \in Nat \ {0}
  /\ NONE \notin Ids \cup {"batch_exists", "batch_read", "batch_get", "ok", "notfound", "error"}

Keys == [ns : Namespaces, id : Ids]

VARIABLES
  stored,  \* the keys that have a record; the record of a key is the key
  asked,   \* the array of keys
  method,  \* the call under way, or the one that is over
  pc,      \* "build", "reading", "over", "nil" (the answer) or "raised"
  told,    \* what the nodes have said of each key of the array
  failed,  \* the status of the whole call, if it is not AEROSPIKE_OK
  answer   \* the hash, by digest, or the array

batchVars == <<stored, asked, method, pc, told, failed, answer>>

False     == [is |-> "false", of |-> NONE]
True      == [is |-> "true", of |-> NONE]
Nil       == [is |-> "nil", of |-> NONE]
Empty     == [is |-> "empty", of |-> NONE]
Bins(k)   == [is |-> "record", of |-> k]
Values    == {False, True, Nil, Empty} \cup {Bins(k) : k \in Keys}

\* Key#digest: the namespace is no part of it
Digest(k) == k.id

Digests == {Digest(asked[i]) : i \in 1..Len(asked)}

BatchTypeOK ==
  /\ stored \subseteq Keys
  /\ asked \in Seq(Keys) /\ Len(asked) <= MaxKeys
  /\ method \in {"batch_exists", "batch_read", "batch_get", NONE}
  /\ pc \in {"build", "reading", "over", "nil", "raised"}
  /\ told \in [1..Len(asked) -> {"ok", "notfound", "error", NONE}]
  /\ failed \in {"notfound", "error", NONE}
  /\ IF pc = "over" /\ method = "batch_get" THEN answer \in Seq(Values) /\ Len(answer) = Len(asked)
     ELSE answer = <<>> \/ answer \in [Digests -> Values]

BatchInit ==
  /\ stored \in SUBSET Keys
  /\ asked = <<>>
  /\ method = NONE
  /\ pc = "build"
  /\ told = <<>> /\ failed = NONE /\ answer = <<>>

-----------------------------------------------------------------------------
(* The program, and the others *)

AddKey ==
  /\ pc = "build" /\ Len(asked) < MaxKeys
  /\ \E k \in Keys : asked' = Append(asked, k)
  /\ told' = Append(told, NONE)
  /\ UNCHANGED <<stored, method, pc, failed, answer>>

\* another program puts or deletes a record
OthersWrite ==
  /\ pc = "reading"
  /\ \E k \in Keys : stored' = IF k \in stored THEN stored \ {k} ELSE stored \cup {k}
  /\ UNCHANGED <<asked, method, pc, told, failed, answer>>

\* every key goes into the hash with false; a key the hash has stays as it is
Filled == [d \in Digests |-> False]

StartHash(m) ==
  /\ pc = "build" /\ asked # <<>>
  /\ method' = m /\ pc' = "reading"
  /\ answer' = Filled
  /\ UNCHANGED <<stored, asked, told, failed>>

BatchExists == StartHash("batch_exists")
BatchRead   == StartHash("batch_read")

BatchGet ==
  /\ pc = "build" /\ asked # <<>>
  /\ method' = "batch_get" /\ pc' = "reading"
  /\ UNCHANGED <<stored, asked, told, failed, answer>>

-----------------------------------------------------------------------------
(* The nodes *)

ReadKey(i) ==
  /\ pc = "reading" /\ told[i] = NONE
  /\ told' = [told EXCEPT ![i] = IF asked[i] \in stored THEN "ok" ELSE "notfound"]
  /\ UNCHANGED <<stored, asked, method, pc, failed, answer>>

\* a node answers with an error for one key
ReadFails(i) ==
  /\ pc = "reading" /\ told[i] = NONE
  /\ told' = [told EXCEPT ![i] = "error"]
  /\ UNCHANGED <<stored, asked, method, pc, failed, answer>>

\* the call as a whole fails: a node does not answer, or with an error
NodeFails ==
  /\ pc = "reading" /\ failed = NONE
  /\ failed' \in {"notfound", "error"}
  /\ UNCHANGED <<stored, asked, method, pc, told, answer>>

-----------------------------------------------------------------------------
(* The answer *)

\* the last entry of the array that has digest d; its result replaces the ones before
LastWith(d) ==
  CHOOSE i \in 1..Len(asked) :
    Digest(asked[i]) = d /\ \A j \in i + 1..Len(asked) : Digest(asked[j]) # d

Ok(d) == {i \in 1..Len(asked) : Digest(asked[i]) = d /\ told[i] = "ok"}

\* mutant of ExistsCallback: a result that is not OK is entered, too
ExistsCallbackAll ==
  answer' = [d \in Digests |-> IF told[LastWith(d)] = "ok" THEN True ELSE False]

\* batch_exists_callback: an OK result sets its key to true, others are passed over
ExistsCallback == answer' = [d \in Digests |-> IF Ok(d) # {} THEN True ELSE answer[d]]

\* mutant of ReadCallback: no record leaves the false of the start
ReadCallbackFalse ==
  answer' = [d \in Digests |-> LET i == LastWith(d)
                               IN  IF told[i] = "ok" THEN Bins(asked[i]) ELSE answer[d]]

\* batch_read_callback
ReadCallback ==
  answer' = [d \in Digests |-> LET i == LastWith(d)
                               IN  IF told[i] = "ok" THEN Bins(asked[i]) ELSE Nil]

\* mutant of Records: keys without a record are passed over
RecordsFound == SelectSeq([i \in 1..Len(asked) |-> IF told[i] = "ok" THEN Bins(asked[i]) ELSE Empty],
                          LAMBDA v : v # Empty)

\* the loop of batch_get: a record without bins, whatever the error
Records == [i \in 1..Len(asked) |-> IF told[i] = "ok" THEN Bins(asked[i]) ELSE Empty]

AllTold == \A i \in 1..Len(asked) : told[i] # NONE
HasError == \E i \in 1..Len(asked) : told[i] = "error"

\* the class the error branch of batch_read_callback looks for does not exist
ReadRaises ==
  /\ pc = "reading" /\ failed = NONE /\ AllTold
  /\ method = "batch_read" /\ HasError
  /\ pc' = "raised"
  /\ UNCHANGED <<stored, asked, method, told, failed, answer>>

\* the batch_get whose status is AEROSPIKE_ERR_RECORD_NOT_FOUND
AnswersNil == method = "batch_get" /\ failed = "notfound"

ReturnNil ==
  /\ pc = "reading" /\ AnswersNil
  /\ pc' = "nil"
  /\ UNCHANGED <<stored, asked, method, told, failed, answer>>

\* raise_as_error
RaiseError ==
  /\ pc = "reading" /\ failed # NONE /\ ~AnswersNil
  /\ pc' = "raised"
  /\ UNCHANGED <<stored, asked, method, told, failed, answer>>

Return ==
  /\ pc = "reading" /\ failed = NONE /\ AllTold
  /\ \/ method = "batch_exists" /\ ExistsCallback
     \/ method = "batch_read" /\ ~HasError /\ ReadCallback
     \/ method = "batch_get" /\ answer' = Records
  /\ pc' = "over"
  /\ UNCHANGED <<stored, asked, method, told, failed>>

BatchNext ==
  \/ AddKey \/ OthersWrite
  \/ BatchExists \/ BatchRead \/ BatchGet
  \/ \E i \in 1..Len(asked) : ReadKey(i) \/ ReadFails(i)
  \/ NodeFails \/ RaiseError \/ ReturnNil \/ ReadRaises \/ Return

BatchSpec == BatchInit /\ [][BatchNext]_batchVars

-----------------------------------------------------------------------------
(* Properties *)

Lookup(k) == answer[Digest(k)]

\* the entries of the array a Hash does not tell from the one at i
Same(i) == {j \in 1..Len(asked) : Digest(asked[j]) = Digest(asked[i])}

\* batch_exists says true of a key if and only if the cluster has said so for that
\* key, whatever it said for it when it was asked again in the same array; its
\* documentation: {Key => true/false}.  Keys of two namespaces with one digest share
\* the answer, which is true if one of them is there.
ExistsTells ==
  pc = "over" /\ method = "batch_exists" => \A i \in 1..Len(asked) :
    Lookup(asked[i]) = True <=> \E j \in Same(i) : told[j] = "ok"

\* batch_get answers every key in its place, with the record of that key and never with
\* another one's, or as a whole with nil, only if the cluster has found no record.
\* batch_read gives what the cluster has said of the key, or of one in another namespace
\* with its digest that was asked for, too: the record or nil.  No answer is made of a call
\* that has failed, however much the nodes have told by then.
ReadTells ==
  /\ pc = "over" => failed = NONE /\ AllTold
  /\ pc = "nil" => method = "batch_get" /\ failed = "notfound"
  /\ pc = "over" /\ method = "batch_get" =>
       /\ Len(answer) = Len(asked)
       /\ \A i \in 1..Len(asked) : answer[i] = IF told[i] = "ok" THEN Bins(asked[i]) ELSE Empty
  /\ pc = "over" /\ method = "batch_read" => \A i \in 1..Len(asked) : \E j \in Same(i) :
       \/ told[j] = "ok" /\ Lookup(asked[i]) = Bins(asked[j])
       \/ told[j] = "notfound" /\ Lookup(asked[i]) = Nil
=============================================================================

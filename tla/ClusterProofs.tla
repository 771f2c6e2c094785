---------------------------- MODULE ClusterProofs ----------------------------
(***************************************************************************)
(* Proofs about the two modules whose calls are answered by the nodes of the *)
(* cluster on their own time: BackgroundTasks, for any set of jobs, and       *)
(* BatchCalls, for any namespaces, digests and lengths of the array.          *)
(*                                                                           *)
(* Of the tasks NeverAhead is inductive once the variables are typed: the     *)
(* server moves a job only from "inprogress" to the states of Over and from   *)
(* these to "forgotten", so what a task has seen of a job that is over stays  *)
(* true.  Of the batch calls little has to be known besides the types: a hash *)
(* that is being filled has all its keys, with false, and a call that is over *)
(* has been told of every key.  The rest is that a key of the array has a     *)
(* last entry with its digest (LastEntry).                                    *)
(***************************************************************************)
EXTENDS BackgroundTasks, BatchCalls, WellFoundedInduction, SequenceTheorems, TLAPS

-----------------------------------------------------------------------------
(* Tasks *)

\* The value of every variable keeps its type, for any set of jobs.
THEOREM TypeCorrect == Spec => []TypeOK
<1>1. Init => TypeOK
  BY DEF Init, TypeOK, Idle
<1>2. TypeOK /\ [Next]_vars => TypeOK'
  <2>. SUFFICES ASSUME TypeOK, [Next]_vars
                PROVE  TypeOK'
    OBVIOUS
  <2>. USE DEF TypeOK, Kinds, Killable, Over, Idle, In
  <2>1. ASSUME NEW j \in Jobs, StartScan(j)
        PROVE  TypeOK'
    BY <2>1 DEF StartScan, Request, Accept, taskVars
  <2>2. ASSUME NEW j \in Jobs, StartQuery(j)
        PROVE  TypeOK'
    BY <2>2 DEF StartQuery, Request, Accept
  <2>3. ASSUME NEW j \in Jobs, StartOther(j)
        PROVE  TypeOK'
    BY <2>3 DEF StartOther, Request, Accept
  <2>4. ASSUME NEW j \in Jobs, StartFails(j)
        PROVE  TypeOK'
    BY <2>4 DEF StartFails, Request, clientVars, taskVars
  <2>5. ASSUME NEW j \in Jobs, Construct(j)
        PROVE  TypeOK'
    BY <2>5 DEF Construct, Info, clientVars
  <2>6. ASSUME NEW j \in Jobs, Poll(j) \/ LoopPoll(j)
        PROVE  TypeOK'
    BY <2>6 DEF Poll, LoopPoll, CheckStatus, Info, clientVars
  <2>7. ASSUME NEW j \in Jobs, StartLoop(j) \/ WaitCalled(j) \/ WaitEnds(j) \/ AskFails(j)
        PROVE  TypeOK'
    <3>1. CASE StartLoop(j)
      BY <3>1 DEF StartLoop, clientVars, taskVars
    <3>2. CASE WaitCalled(j)
      BY <3>2 DEF WaitCalled, clientVars, taskVars
    <3>3. CASE WaitEnds(j)
      BY <3>3 DEF WaitEnds, clientVars
    <3>4. CASE AskFails(j)
      BY <3>4 DEF AskFails, clientVars, taskVars
    <3>5. QED
      BY <2>7, <3>1, <3>2, <3>3, <3>4
  <2>8. ASSUME NEW j \in Jobs, JobEnds(j) \/ Forget(j)
        PROVE  TypeOK'
    BY <2>8 DEF JobEnds, Forget, clientVars, taskVars
  <2>9. CASE UNCHANGED vars
    BY <2>9 DEF vars, clientVars, taskVars
  <2>10. QED
    BY <2>1, <2>2, <2>3, <2>4, <2>5, <2>6, <2>7, <2>8, <2>9 DEF Next, Start, Watch, Ends
<1>3. QED
  BY <1>1, <1>2, PTL DEF Spec

-----------------------------------------------------------------------------

\* A task never runs ahead of its job, however many jobs there are and whatever
\* the server does with them meanwhile.
THEOREM TasksNeverAhead == Spec => []NeverAhead
<1>. DEFINE Inv == NeverAhead /\ Fresh
<1>1. Init => Inv
  BY JobsAssumption, NullAssumption DEF Init, NeverAhead, Fresh, IsCompleted, Idle
<1>2. TypeOK /\ Inv /\ [Next]_vars => Inv'
  <2>. SUFFICES ASSUME TypeOK, NeverAhead, Fresh, [Next]_vars
                PROVE  NeverAhead' /\ Fresh'
    OBVIOUS
  <2>. USE NullAssumption, JobsAssumption DEF TypeOK, NeverAhead, Fresh, IsCompleted, Over
  \* a job starts without a task
  <2>1. ASSUME NEW j \in Jobs, StartScan(j)
        PROVE  NeverAhead' /\ Fresh'
    BY <2>1 DEF StartScan, Request, Accept, taskVars, In
  <2>2. ASSUME NEW j \in Jobs, StartQuery(j)
        PROVE  NeverAhead' /\ Fresh'
    BY <2>2 DEF StartQuery, Request, Accept, Idle
  <2>3. ASSUME NEW j \in Jobs, StartOther(j)
        PROVE  NeverAhead' /\ Fresh'
    BY <2>3 DEF StartOther, Request, Accept, Idle, Kinds, Killable
  <2>4. ASSUME NEW j \in Jobs, StartFails(j)
        PROVE  NeverAhead' /\ Fresh'
    BY <2>4 DEF StartFails, Request, clientVars, taskVars, Idle, Kinds
  \* what ScanTask stores is what the server says at that moment
  <2>5. ASSUME NEW j \in Jobs, Construct(j)
        PROVE  NeverAhead' /\ Fresh'
    BY <2>5 DEF Construct, Info, clientVars, In, Idle
  <2>6. ASSUME NEW j \in Jobs, Poll(j) \/ LoopPoll(j)
        PROVE  NeverAhead' /\ Fresh'
    BY <2>6 DEF Poll, LoopPoll, CheckStatus, Info, clientVars, In, Idle
  <2>7. ASSUME NEW j \in Jobs, StartLoop(j) \/ WaitCalled(j) \/ AskFails(j)
        PROVE  NeverAhead' /\ Fresh'
    BY <2>7 DEF StartLoop, WaitCalled, AskFails, clientVars, taskVars, In, Idle
  \* done is set when the server has said that the job is not in progress
  <2>8. ASSUME NEW j \in Jobs, WaitEnds(j)
        PROVE  NeverAhead' /\ Fresh'
    BY <2>8 DEF WaitEnds, clientVars, In, Idle
  \* the server never takes back that a job is over
  <2>9. ASSUME NEW j \in Jobs, JobEnds(j) \/ Forget(j)
        PROVE  NeverAhead' /\ Fresh'
    BY <2>9 DEF JobEnds, Forget, clientVars, taskVars
  <2>10. CASE UNCHANGED vars
    BY <2>10 DEF vars, clientVars, taskVars
  <2>11. QED
    BY <2>1, <2>2, <2>3, <2>4, <2>5, <2>6, <2>7, <2>8, <2>9, <2>10 DEF Next, Start, Watch, Ends
<1>3. QED
  BY <1>1, <1>2, TypeCorrect, PTL DEF Spec

-----------------------------------------------------------------------------

\* an accepted job has been started
Known == \A i \in 1..Len(accepted) : kind[accepted[i]] # NULL

\* a step that accepts nothing leaves the clients' record of jobs as it is
LEMMA NothingAccepted ==
  ASSUME TypeOK, Known, ScanReachable, UNCHANGED clientVars,
         \A j \in Jobs : kind[j] # NULL => kind'[j] = kind[j],
         \A j \in Jobs : task[j] => task'[j]
  PROVE  Known' /\ ScanReachable'
<1>1. \A i \in 1..Len(accepted) : accepted[i] \in Jobs
  BY DEF TypeOK
<1>2. \A i \in 1..Len(accepted) : kind'[accepted[i]] = kind[accepted[i]] /\ kind[accepted[i]] # NULL
  BY <1>1 DEF Known
<1>3. UNCHANGED <<accepted, lastScan, lastQuery>>
  BY DEF clientVars
<1>4. Len(accepted) \in Nat
  BY DEF TypeOK
<1>5. ASSUME NEW i \in 1..Len(accepted), NEW k PROVE Later(i, k)' <=> Later(i, k)
  BY <1>2, <1>3, <1>4 DEF Later
<1> QED
  BY <1>1, <1>2, <1>3, <1>5 DEF Known, ScanReachable

\* a job is accepted, and named as the last one of its kind if it may need that
LEMMA OneAccepted ==
  ASSUME TypeOK, Known, ScanReachable, NEW j \in Jobs, kind[j] = NULL,
         NEW k \in Kinds, kind' = [kind EXCEPT ![j] = k],
         accepted' = Append(accepted, j),
         lastScan' = IF k = "scan" THEN j ELSE lastScan,
         lastQuery' = IF k = "query" THEN j ELSE lastQuery,
         task' = IF k = "scan" THEN task ELSE [task EXCEPT ![j] = TRUE]
  PROVE  Known' /\ ScanReachable'
<1> DEFINE n == Len(accepted)
<1>1. /\ n \in Nat /\ Len(accepted') = n + 1 /\ accepted'[n + 1] = j
      /\ \A i \in 1..n : accepted'[i] = accepted[i] /\ accepted[i] \in Jobs
  BY DEF TypeOK
<1>2. kind'[j] = k /\ k # NULL /\ \A m \in Jobs : m # j => kind'[m] = kind[m]
  BY NullAssumption DEF TypeOK, Kinds
<1>3. \A i \in 1..n : accepted[i] # j /\ kind'[accepted'[i]] = kind[accepted[i]]
  BY <1>1, <1>2 DEF Known
<1>4. Known'
  BY <1>1, <1>2, <1>3 DEF Known
<1>5. \A i \in 1..n : task[accepted[i]] => task'[accepted[i]]
  BY <1>1, <1>3 DEF TypeOK
<1>6. k # "scan" => task'[j]
  BY DEF TypeOK
<1>7. ASSUME NEW i \in 1..n, NEW l, ~Later(i, l)' PROVE ~Later(i, l) /\ k # l
  <2>1. \A m \in (i + 1)..(n + 1) : kind'[accepted'[m]] # l
    BY <1>1, <1>7 DEF Later
  <2>2. kind'[accepted'[n + 1]] # l
    BY <1>1, <2>1
  <2>3. \A m \in (i + 1)..n : kind[accepted[m]] # l
    BY <1>1, <1>3, <2>1
  <2> QED
    BY <1>1, <1>2, <2>2, <2>3 DEF Later
<1>8. ASSUME NEW i \in 1..(n + 1)
      PROVE  /\ kind'[accepted'[i]] = "scan" /\ ~Later(i, "scan")' => lastScan' = accepted'[i]
             /\ kind'[accepted'[i]] = "query" /\ ~Later(i, "query")' => lastQuery' = accepted'[i]
             /\ kind'[accepted'[i]] # "scan" => task'[accepted'[i]]
  <2>1. CASE i = n + 1
    BY <1>1, <1>2, <1>6, <2>1
  <2>2. CASE i # n + 1
    <3>1. i \in 1..n
      BY <1>1, <2>2
    <3>2. /\ kind[accepted[i]] = "scan" /\ ~Later(i, "scan") => lastScan = accepted[i]
          /\ kind[accepted[i]] = "query" /\ ~Later(i, "query") => lastQuery = accepted[i]
          /\ kind[accepted[i]] # "scan" => task[accepted[i]]
      BY <3>1 DEF ScanReachable
    <3> QED
      BY <1>1, <1>3, <1>5, <1>7, <3>1, <3>2
  <2> QED
    BY <2>1, <2>2
<1>9. ScanReachable'
  BY <1>1, <1>8 DEF ScanReachable
<1> QED
  BY <1>4, <1>9

\* However many scans are started and whichever ScanTask.new raises, the last one the
\* server has accepted is named by @last_scan_id, and every other job has a task.
THEOREM AlwaysReachable == Spec => []ScanReachable
<1> DEFINE Inv == Known /\ ScanReachable
<1>1. Init => Inv
  BY DEF Init, Known, ScanReachable
<1>2. TypeOK /\ Inv /\ [Next]_vars => Inv'
  <2>. SUFFICES ASSUME TypeOK, Known, ScanReachable, [Next]_vars
                PROVE  Known' /\ ScanReachable'
    OBVIOUS
  <2>1. ASSUME NEW j \in Jobs, StartScan(j)
        PROVE  Known' /\ ScanReachable'
    <3>1. /\ kind[j] = NULL /\ kind' = [kind EXCEPT ![j] = "scan"]
          /\ accepted' = Append(accepted, j) /\ lastScan' = j
          /\ lastQuery' = lastQuery /\ task' = task
      BY <2>1 DEF StartScan, Request, Accept, taskVars
    <3>2. "scan" \in Kinds /\ "scan" # "query"
      BY DEF Kinds
    <3> QED
      BY <3>1, <3>2, OneAccepted
  <2>2. ASSUME NEW j \in Jobs, StartQuery(j)
        PROVE  Known' /\ ScanReachable'
    <3>1. /\ kind[j] = NULL /\ kind' = [kind EXCEPT ![j] = "query"]
          /\ accepted' = Append(accepted, j) /\ lastScan' = lastScan
          /\ lastQuery' = j /\ task' = [task EXCEPT ![j] = TRUE]
      BY <2>2 DEF StartQuery, Request, Accept
    <3>2. "query" \in Kinds /\ "scan" # "query"
      BY DEF Kinds
    <3> QED
      BY <3>1, <3>2, OneAccepted
  <2>3. ASSUME NEW j \in Jobs, StartOther(j)
        PROVE  Known' /\ ScanReachable'
    <3>1. PICK k \in Kinds \ Killable : kind[j] = NULL /\ kind' = [kind EXCEPT ![j] = k]
      BY <2>3 DEF StartOther, Request
    <3>2. /\ accepted' = Append(accepted, j) /\ lastScan' = lastScan
          /\ lastQuery' = lastQuery /\ task' = [task EXCEPT ![j] = TRUE]
      BY <2>3 DEF StartOther, Accept
    <3>3. k \in Kinds /\ k # "scan" /\ k # "query"
      BY <3>1 DEF Killable
    <3> QED
      BY <3>1, <3>2, <3>3, OneAccepted
  <2>4. ASSUME NEW j \in Jobs, StartFails(j)
        PROVE  Known' /\ ScanReachable'
    <3>1. PICK k \in Kinds : kind[j] = NULL /\ kind' = [kind EXCEPT ![j] = k]
      BY <2>4 DEF StartFails, Request
    <3>2. UNCHANGED clientVars /\ UNCHANGED task
      BY <2>4 DEF StartFails, taskVars
    <3> QED
      BY <3>1, <3>2, NothingAccepted DEF TypeOK
  <2>5. ASSUME NEW j \in Jobs, Watch(j) \/ Ends(j) \/ JobEnds(j) \/ Forget(j)
        PROVE  Known' /\ ScanReachable'
    <3>1. UNCHANGED kind /\ UNCHANGED clientVars
      BY <2>5 DEF Watch, Ends, Poll, StartLoop, WaitCalled, Construct, LoopPoll, WaitEnds,
                  AskFails, JobEnds, Forget
    <3>2. task' = task \/ task' = [task EXCEPT ![j] = TRUE]
      BY <2>5 DEF Watch, Ends, Poll, StartLoop, WaitCalled, Construct, LoopPoll, WaitEnds,
                  AskFails, JobEnds, Forget, taskVars
    <3> QED
      BY <3>1, <3>2, NothingAccepted DEF TypeOK
  <2>6. CASE UNCHANGED vars
    BY <2>6, NothingAccepted DEF vars, taskVars
  <2>7. QED
    BY <2>1, <2>2, <2>3, <2>4, <2>5, <2>6 DEF Next, Start
<1>3. QED
  BY <1>1, <1>2, TypeCorrect, PTL DEF Spec

-----------------------------------------------------------------------------
(* Batch calls *)

Statuses == {"ok", "notfound", "error"}

HashMethods == {"batch_exists", "batch_read"}

\* BatchTypeOK, and what is in the hash before the answer comes
Answering ==
  /\ pc = "build" => method = NONE
  /\ pc = "reading" /\ method \in HashMethods => answer = Filled
  /\ pc = "reading" /\ method = "batch_get" => answer = <<>>
  /\ pc \in {"reading", "over"} => method # NONE
  /\ pc = "build" => answer = <<>>

BatchInv == BatchTypeOK /\ Answering /\ ExistsTells /\ ReadTells

-----------------------------------------------------------------------------
(* The array *)

LEMMA Indices ==
  ASSUME BatchTypeOK
  PROVE  /\ Len(asked) \in Nat
         /\ \A i \in 1..Len(asked) : asked[i] \in Keys /\ Digest(asked[i]) \in Digests
         /\ \A d \in Digests : \E i \in 1..Len(asked) : Digest(asked[i]) = d
BY DEF BatchTypeOK, Digests

\* a nonempty set of naturals below a bound has a largest element
LEMMA Largest ==
  ASSUME NEW n \in Nat, NEW T \in SUBSET (1..n), T # {}
  PROVE  \E m \in T : \A k \in T : k <= m
<1> DEFINE U == {n - m : m \in T}
<1>1. U \subseteq Nat /\ U # {}
  <2>1. \A m \in T : m \in 1..n /\ n - m \in Nat
    OBVIOUS
  <2>2. PICK m \in T : TRUE
    OBVIOUS
  <2>3. n - m \in U
    BY <2>2
  <2> QED
    BY <2>1, <2>3
<1>2. PICK u \in U : \A y \in U : ~(<<y, u>> \in OpToRel(<, Nat))
  BY <1>1, WFMin, NatLessThanWellFounded
<1>3. \A y \in U : ~(y < u)
  BY <1>1, <1>2 DEF OpToRel
<1>4. PICK m \in T : u = n - m
  OBVIOUS
<1>5. ASSUME NEW k \in T PROVE k <= m
  <2>1. n - k \in U /\ ~(n - k < n - m)
    BY <1>3, <1>4
  <2> QED
    BY <2>1
<1> QED
  BY <1>5

\* an entry of the array has a last one with its digest
LEMMA LastEntry ==
  ASSUME BatchTypeOK, NEW d \in Digests
  PROVE  LastWith(d) \in 1..Len(asked) /\ Digest(asked[LastWith(d)]) = d
<1> DEFINE T == {i \in 1..Len(asked) : Digest(asked[i]) = d}
<1>1. Len(asked) \in Nat /\ T \in SUBSET (1..Len(asked)) /\ T # {}
  BY Indices
<1>2. PICK m \in T : \A k \in T : k <= m
  BY <1>1, Largest
<1>3. \A j \in m + 1..Len(asked) : Digest(asked[j]) # d
  <2> SUFFICES ASSUME NEW j \in m + 1..Len(asked), Digest(asked[j]) = d PROVE FALSE
    OBVIOUS
  <2>1. j \in T /\ j > m
    BY <1>1
  <2> QED
    BY <1>1, <1>2, <2>1
<1>4. m \in 1..Len(asked) /\ Digest(asked[m]) = d
  BY <1>2
<1> QED
  BY <1>3, <1>4 DEF LastWith

-----------------------------------------------------------------------------
LEMMA BatchInitInv == BatchInit => BatchInv
<1> SUFFICES ASSUME BatchInit PROVE BatchInv
  OBVIOUS
<1>1. BatchTypeOK
  BY BatchAssumption DEF BatchInit, BatchTypeOK
<1> QED
  BY <1>1 DEF BatchInit, BatchInv, Answering, ExistsTells, ReadTells

LEMMA BuildStep ==
  ASSUME BatchInv, AddKey
  PROVE  BatchInv'
<1>1. /\ pc = "build" /\ Len(asked) < MaxKeys /\ told' = Append(told, NONE)
      /\ UNCHANGED <<stored, method, pc, failed, answer>>
  BY DEF AddKey
<1>2. PICK k \in Keys : asked' = Append(asked, k)
  BY DEF AddKey
<1>3. /\ asked \in Seq(Keys) /\ told \in [1..Len(asked) -> Statuses \cup {NONE}]
      /\ answer = <<>> /\ method = NONE /\ Len(asked) \in Nat
  BY <1>1 DEF BatchInv, BatchTypeOK, Answering, Statuses
<1>4. asked' \in Seq(Keys) /\ Len(asked') = Len(asked) + 1 /\ Len(asked') <= MaxKeys
  BY <1>1, <1>2, <1>3, BatchAssumption
<1>5. told' \in [1..Len(asked') -> Statuses \cup {NONE}]
  <2>1. told \in Seq(Statuses \cup {NONE}) /\ Len(told) = Len(asked)
    BY <1>3
  <2>2. told' \in Seq(Statuses \cup {NONE}) /\ Len(told') = Len(asked')
    BY <1>1, <1>4, <2>1, AppendProperties
  <2> QED
    BY <2>2, LenProperties
<1>6. BatchTypeOK'
  BY <1>1, <1>3, <1>4, <1>5 DEF BatchInv, BatchTypeOK, Statuses
<1> QED
  BY <1>1, <1>3, <1>6 DEF BatchInv, Answering, ExistsTells, ReadTells

LEMMA FilledType == Filled \in [Digests -> Values]
BY DEF Filled, Values

LEMMA CallStep ==
  ASSUME BatchInv, BatchExists \/ BatchRead \/ BatchGet
  PROVE  BatchInv'
<1>1. pc = "build" /\ pc' = "reading" /\ UNCHANGED <<stored, asked, told, failed>>
  BY DEF BatchExists, BatchRead, BatchGet, StartHash
<1>2. \/ method' \in HashMethods /\ answer' = Filled
      \/ method' = "batch_get" /\ answer' = <<>>
  BY DEF BatchExists, BatchRead, BatchGet, StartHash, BatchInv, Answering, HashMethods
<1>3. Digests' = Digests /\ Filled' = Filled
  BY <1>1 DEF Digests, Filled
<1>4. answer' = <<>> \/ answer' \in [Digests' -> Values]
  BY <1>2, <1>3, FilledType
<1>5. BatchTypeOK'
  BY <1>1, <1>2, <1>4 DEF BatchInv, BatchTypeOK, HashMethods
<1>6. method' # NONE
  BY <1>2, BatchAssumption DEF HashMethods
<1> QED
  BY <1>1, <1>2, <1>3, <1>5, <1>6 DEF BatchInv, Answering, ExistsTells, ReadTells, HashMethods

\* other programs and nodes
LEMMA ReadStep ==
  ASSUME BatchInv, OthersWrite \/ \E i \in 1..Len(asked) : ReadKey(i) \/ ReadFails(i)
  PROVE  BatchInv'
<1>1. pc = "reading" /\ UNCHANGED <<asked, method, pc, failed, answer>>
  BY DEF OthersWrite, ReadKey, ReadFails
<1>2. stored' \subseteq Keys
  BY DEF OthersWrite, ReadKey, ReadFails, BatchInv, BatchTypeOK
<1>3. told' \in [1..Len(asked) -> Statuses \cup {NONE}]
  BY DEF OthersWrite, ReadKey, ReadFails, BatchInv, BatchTypeOK, Statuses
<1>4. Digests' = Digests /\ Filled' = Filled
  BY <1>1 DEF Digests, Filled
<1>5. BatchTypeOK'
  BY <1>1, <1>2, <1>3, <1>4 DEF BatchInv, BatchTypeOK, Statuses
<1> QED
  BY <1>1, <1>4, <1>5 DEF BatchInv, Answering, ExistsTells, ReadTells

\* the call fails as a whole
LEMMA FailStep ==
  ASSUME BatchInv, NodeFails
  PROVE  BatchInv'
<1>1. /\ pc = "reading" /\ failed' \in {"notfound", "error"}
      /\ UNCHANGED <<stored, asked, method, pc, told, answer>>
  BY DEF NodeFails
<1>2. Digests' = Digests /\ Filled' = Filled
  BY <1>1 DEF Digests, Filled
<1>3. BatchTypeOK'
  BY <1>1, <1>2 DEF BatchInv, BatchTypeOK
<1> QED
  BY <1>1, <1>2, <1>3 DEF BatchInv, Answering, ExistsTells, ReadTells

LEMMA RaiseStep ==
  ASSUME BatchInv, RaiseError \/ ReturnNil \/ ReadRaises
  PROVE  BatchInv'
<1>1. /\ pc' \in {"raised", "nil"} /\ pc = "reading"
      /\ UNCHANGED <<stored, asked, method, told, failed, answer>>
      /\ pc' = "nil" => method = "batch_get" /\ failed = "notfound"
  BY DEF RaiseError, ReturnNil, ReadRaises, AnswersNil
<1>2. Digests' = Digests
  BY <1>1 DEF Digests
<1>3. answer = <<>> \/ answer \in [Digests -> Values]
  BY <1>1, FilledType DEF BatchInv, BatchTypeOK, Answering
<1>4. BatchTypeOK'
  BY <1>1, <1>2, <1>3 DEF BatchInv, BatchTypeOK
<1> QED
  BY <1>1, <1>4 DEF BatchInv, Answering, ExistsTells, ReadTells

LEMMA ReturnStep ==
  ASSUME BatchInv, Return
  PROVE  BatchInv'
<1> DEFINE n == Len(asked)
<1>1. /\ pc = "reading" /\ pc' = "over" /\ failed = NONE /\ AllTold
      /\ UNCHANGED <<stored, asked, method, told, failed>>
  BY DEF Return
<1>2. BatchTypeOK /\ n \in Nat /\ told \in [1..n -> Statuses \cup {NONE}]
  BY Indices DEF BatchInv, BatchTypeOK, Statuses
<1>3. \A i \in 1..n : told[i] \in Statuses
  BY <1>1, <1>2 DEF AllTold
<1>4. Digests' = Digests
  BY <1>1 DEF Digests
<1>5. ASSUME NEW i \in 1..n, NEW j \in 1..n, Digest(asked[j]) = Digest(asked[i])
      PROVE  j \in Same(i)'
  BY <1>1, <1>5 DEF Same
<1>0. failed' = NONE /\ AllTold'
  BY <1>1 DEF AllTold
<1>6. CASE method = "batch_exists"
  <2>1. ExistsCallback /\ answer = Filled
    BY <1>1, <1>6 DEF Return, BatchInv, Answering, HashMethods
  <2>2. \A d \in Digests : answer'[d] = IF Ok(d) # {} THEN True ELSE False
    BY <2>1 DEF ExistsCallback, Filled
  <2>3. answer' \in [Digests -> Values]
    BY <2>1, <2>2 DEF ExistsCallback, Values
  <2>4. BatchTypeOK'
    BY <1>1, <1>2, <1>4, <1>6, <2>3 DEF BatchTypeOK
  <2>5. ASSUME NEW i \in 1..n
        PROVE  Lookup(asked[i])' = True <=> \E j \in Same(i)' : told'[j] = "ok"
    <3>1. Digest(asked[i]) \in Digests /\ Lookup(asked[i])' = answer'[Digest(asked[i])]
      BY <1>1, <1>2, Indices DEF Lookup, Digest
    <3>2. Same(i)' = {j \in 1..n : Digest(asked[j]) = Digest(asked[i])}
      BY <1>1 DEF Same, Digest
    <3>3. (Ok(Digest(asked[i])) # {}) <=> \E j \in Same(i)' : told[j] = "ok"
      BY <3>2 DEF Ok
    <3>4. True # False
      BY DEF True, False
    <3> QED
      BY <1>1, <2>2, <3>1, <3>3, <3>4
  <2>6. ExistsTells'
    BY <1>1, <2>5 DEF ExistsTells
  <2> QED
    BY <1>0, <1>1, <1>6, <2>4, <2>6 DEF BatchInv, Answering, ReadTells
<1>7. CASE method = "batch_read"
  <2>1. ReadCallback /\ ~HasError
    BY <1>7 DEF Return
  <2>2. \A d \in Digests : /\ LastWith(d) \in 1..n /\ Digest(asked[LastWith(d)]) = d
                           /\ answer'[d] = IF told[LastWith(d)] = "ok" THEN Bins(asked[LastWith(d)])
                                           ELSE Nil
    BY <1>2, <2>1, LastEntry DEF ReadCallback
  <2>3. answer' \in [Digests -> Values]
    <3>1. \A d \in Digests : answer'[d] \in Values
      BY <1>2, <2>2, Indices DEF Values
    <3> QED
      BY <2>1, <3>1 DEF ReadCallback
  <2>4. BatchTypeOK'
    BY <1>1, <1>2, <1>4, <1>7, <2>3 DEF BatchTypeOK
  <2>5. ASSUME NEW i \in 1..n
        PROVE  \E j \in Same(i)' : \/ told'[j] = "ok" /\ Lookup(asked[i])' = Bins(asked'[j])
                                   \/ told'[j] = "notfound" /\ Lookup(asked[i])' = Nil
    <3> DEFINE d == Digest(asked[i])
               j == LastWith(d)
    <3>1. d \in Digests /\ Lookup(asked[i])' = answer'[d]
      BY <1>1, <1>2, Indices DEF Lookup, Digest
    <3>2. j \in 1..n /\ j \in Same(i)'
      BY <2>2, <3>1, <1>5
    <3>3. told[j] = "ok" \/ told[j] = "notfound"
      BY <1>3, <2>1, <3>2 DEF Statuses, HasError
    <3>4. answer'[d] = IF told[j] = "ok" THEN Bins(asked[j]) ELSE Nil
      BY <2>2, <3>1
    <3> HIDE DEF d, j
    <3> QED
      BY <1>1, <3>1, <3>2, <3>3, <3>4
  <2>6. ReadTells'
    BY <1>0, <1>1, <1>7, <2>5 DEF ReadTells
  <2> QED
    BY <1>1, <1>7, <2>4, <2>6 DEF BatchInv, Answering, ExistsTells
<1>8. CASE method = "batch_get"
  <2>1. answer' = Records
    BY <1>8 DEF Return
  <2>2. /\ answer' = [i \in 1..n |-> IF told[i] = "ok" THEN Bins(asked[i]) ELSE Empty]
        /\ \A i \in 1..n : answer'[i] = IF told[i] = "ok" THEN Bins(asked[i]) ELSE Empty
    BY <2>1 DEF Records
  <2>3. answer' \in [1..n -> Values]
    BY <1>2, <2>2, Indices DEF Values
  <2>4. answer' \in Seq(Values) /\ Len(answer') = n
    BY <1>2, <2>3
  <2>5. BatchTypeOK'
    BY <1>1, <1>2, <1>8, <2>4 DEF BatchTypeOK
  <2>6. ReadTells'
    BY <1>0, <1>1, <1>8, <2>2, <2>4 DEF ReadTells
  <2> QED
    BY <1>1, <1>8, <2>5, <2>6 DEF BatchInv, Answering, ExistsTells
<1> QED
  BY <1>6, <1>7, <1>8 DEF Return

\* The types, and what the hash holds before and after the answer.
THEOREM BatchInvariance == BatchSpec => []BatchInv
<1>1. BatchInv /\ [BatchNext]_batchVars => BatchInv'
  <2> SUFFICES ASSUME BatchInv, [BatchNext]_batchVars PROVE BatchInv'
    OBVIOUS
  <2>1. CASE UNCHANGED batchVars
    BY <2>1 DEF batchVars, BatchInv, BatchTypeOK, Answering, ExistsTells, ReadTells, Digests, Filled, Lookup, Same, Digest, AllTold
  <2> QED
    BY <2>1, BuildStep, CallStep, ReadStep, FailStep, RaiseStep, ReturnStep DEF BatchNext
<1> QED
  BY <1>1, BatchInitInv, PTL DEF BatchSpec

\* What the hash or the array of a batch call can hold, at every moment.
THEOREM BatchTypeCorrect == BatchSpec => []BatchTypeOK
BY BatchInvariance, PTL DEF BatchInv

\* batch_exists says true of a key if and only if the cluster has said so, for any array
\* of keys, with keys that are asked for twice or share a digest.
THEOREM ExistsToldTrue == BatchSpec => []ExistsTells
BY BatchInvariance, PTL DEF BatchInv

\* batch_get answers every key in its place, or with nil if the whole call has found
\* nothing; batch_read with what the cluster has said of the key or of another one with
\* its digest; and no answer is made of a call that has failed.
THEOREM ReadTold == BatchSpec => []ReadTells
BY BatchInvariance, PTL DEF BatchInv
=============================================================================

--------------------------- MODULE BackgroundTasks ---------------------------
(***************************************************************************)
(* Work the server does in the background and the objects that watch it:    *)
(* ScanTask (#background_execute_udf_on_scan), QueryTask                     *)
(* (#background_execute_udf_on_query), IndexTask (#create_index) and UdfTask *)
(* (#register_udf).  The Ruby program starts jobs, waits for them and polls  *)
(* them; the server runs, aborts and forgets them meanwhile.  A ScanTask     *)
(* stores the state of its scan, the other tasks store whether they have     *)
(* been waited for.                                                          *)
(***************************************************************************)
EXTENDS Naturals, Sequences

CONSTANTS
  Jobs,      \* bound: the jobs a client starts
  NULL,
  CanForget  \* whether the server drops the record of a job that is over

ASSUME JobsAssumption == NULL \notin Jobs /\ CanForget \in BOOLEAN
ASSUME NullAssumption == NULL \notin {"scan", "query", "index", "udf", "completed"}

VARIABLES
  kind,      \* the kind of each job, once its request has been sent
  server,    \* what the server knows of it
  task,      \* whether the Ruby object has been made
  status,    \* ScanTask @status_id
  done,      \* @done of the other tasks
  op,        \* the method the Ruby thread is in, and its job
  lastScan,  \* client @last_scan_id
  lastQuery, \* client @last_query_id
  accepted   \* history: jobs whose request succeeded, in order

taskVars   == <<task, status, done>>
clientVars == <<lastScan, lastQuery, accepted>>
vars == <<kind, server, taskVars, op, clientVars>>

Kinds    == {"scan", "query", "index", "udf"}
\* jobs that can be killed on the server, and are forgotten some time after
Killable == {"scan", "query"}
Over     == {"completed", "aborted", "forgotten"}

Idle == [what |-> "idle", job |-> NULL]
In(what, j) == [what |-> what, job |-> j]

TypeOK ==
  /\ kind \in [Jobs -> Kinds \cup {NULL}]
  /\ server \in [Jobs -> {"none", "inprogress"} \cup Over]
  /\ task \in [Jobs -> BOOLEAN]
  /\ status \in [Jobs -> {NULL, "undef", "inprogress", "aborted", "completed"}]
  /\ done \in [Jobs -> BOOLEAN]
  /\ op \in {Idle} \cup [what : {"construct", "wait", "loop"}, job : Jobs]
  /\ lastScan \in Jobs \cup {NULL} /\ lastQuery \in Jobs \cup {NULL}
  /\ accepted \in Seq(Jobs)

Init ==
  /\ kind = [j \in Jobs |-> NULL]
  /\ server = [j \in Jobs |-> "none"]
  /\ task = [j \in Jobs |-> FALSE]
  /\ status = [j \in Jobs |-> NULL]
  /\ done = [j \in Jobs |-> FALSE]
  /\ op = Idle
  /\ lastScan = NULL /\ lastQuery = NULL
  /\ accepted = <<>>

-----------------------------------------------------------------------------
(* Starting a job *)

Request(j, k) ==
  /\ op = Idle /\ kind[j] = NULL
  /\ kind' = [kind EXCEPT ![j] = k]

Accept(j) ==
  /\ server' = [server EXCEPT ![j] = "inprogress"]
  /\ accepted' = Append(accepted, j)

\* mutant of StartScan: the id is not stored before ScanTask.new, which may raise
StartScanLateId(j) ==
  /\ Request(j, "scan") /\ Accept(j)
  /\ op' = In("construct", j)
  /\ UNCHANGED <<taskVars, lastScan, lastQuery>>

\* background_execute_udf_on_scan, up to ScanTask.new
StartScan(j) ==
  /\ Request(j, "scan") /\ Accept(j)
  /\ lastScan' = j
  /\ op' = In("construct", j)
  /\ UNCHANGED <<taskVars, lastQuery>>

\* background_execute_udf_on_query
StartQuery(j) ==
  /\ Request(j, "query") /\ Accept(j)
  /\ lastQuery' = j
  /\ task' = [task EXCEPT ![j] = TRUE]
  /\ UNCHANGED <<status, done, op, lastScan>>

\* create_index, register_udf
StartOther(j) ==
  /\ \E k \in Kinds \ Killable : Request(j, k)
  /\ Accept(j)
  /\ task' = [task EXCEPT ![j] = TRUE]
  /\ UNCHANGED <<status, done, op, lastScan, lastQuery>>

\* the request fails and the method raises; some node may have taken the job
StartFails(j) ==
  /\ \E k \in Kinds : Request(j, k)
  /\ \E s \in {"none", "inprogress"} : server' = [server EXCEPT ![j] = s]
  /\ UNCHANGED <<taskVars, op, clientVars>>

-----------------------------------------------------------------------------
(* Watching a job *)

\* what aerospike_scan_info answers: a scan the server does not know is UNDEF
Info(j) == IF server[j] \in {"none", "forgotten"} THEN "undef" ELSE server[j]

\* ScanTask.new asks for the state of the scan
Construct(j) ==
  /\ op = In("construct", j)
  /\ task' = [task EXCEPT ![j] = TRUE]
  /\ status' = [status EXCEPT ![j] = Info(j)]
  /\ op' = Idle
  /\ UNCHANGED <<kind, server, done, clientVars>>

\* mutants of CheckStatus: the state is returned and not stored; the state of an
\* unknown scan is stored as it is
CheckStatusNotStored(j) == UNCHANGED status
CheckStatusUnknown(j) == status' = [status EXCEPT ![j] = server[j]]

\* check_status stores what the server answers
CheckStatus(j) == status' = [status EXCEPT ![j] = Info(j)]

\* completed? looks at the stored status only
IsCompleted(j) == status[j] = "completed"

\* the program calls check_status
Poll(j) ==
  /\ op = Idle /\ kind[j] = "scan" /\ task[j]
  /\ CheckStatus(j)
  /\ UNCHANGED <<kind, server, task, done, op, clientVars>>

\* the loop of client.md: check_status, until completed?
StartLoop(j) ==
  /\ op = Idle /\ kind[j] = "scan" /\ task[j]
  /\ op' = In("loop", j)
  /\ UNCHANGED <<kind, server, taskVars, clientVars>>

LoopPoll(j) ==
  /\ op = In("loop", j)
  /\ CheckStatus(j)
  /\ op' = IF IsCompleted(j)' THEN Idle ELSE op
  /\ UNCHANGED <<kind, server, task, done, clientVars>>

\* mutant of WaitCalled: done is set before the wait, which may raise
WaitCalledDone(j) ==
  /\ op = Idle /\ kind[j] # "scan" /\ task[j] /\ ~done[j]
  /\ op' = In("wait", j)
  /\ done' = [done EXCEPT ![j] = TRUE]
  /\ UNCHANGED <<kind, server, task, status, clientVars>>

\* wait_till_completed, which returns at once if @done
WaitCalled(j) ==
  /\ op = Idle /\ kind[j] # "scan" /\ task[j] /\ ~done[j]
  /\ op' = In("wait", j)
  /\ UNCHANGED <<kind, server, taskVars, clientVars>>

\* mutant of WaitEnds: the wait for a job that was aborted or forgotten goes on
WaitEndsCompleted(j) ==
  /\ op = In("wait", j) /\ server[j] = "completed"
  /\ done' = [done EXCEPT ![j] = TRUE]
  /\ op' = Idle
  /\ UNCHANGED <<kind, server, task, status, clientVars>>

\* the C client has found the job not in progress any more
WaitEnds(j) ==
  /\ op = In("wait", j) /\ server[j] \in Over
  /\ done' = [done EXCEPT ![j] = TRUE]
  /\ op' = Idle
  /\ UNCHANGED <<kind, server, task, status, clientVars>>

\* a request about the job fails: ScanTask.new, the loop or the wait raises
AskFails(j) ==
  /\ op.job = j
  /\ op' = Idle
  /\ UNCHANGED <<kind, server, taskVars, clientVars>>

-----------------------------------------------------------------------------
(* The server *)

JobEnds(j) ==
  /\ server[j] = "inprogress"
  /\ \E s \in IF kind[j] \in Killable THEN {"completed", "aborted"} ELSE {"completed"} :
       server' = [server EXCEPT ![j] = s]
  /\ UNCHANGED <<kind, taskVars, op, clientVars>>

Forget(j) ==
  /\ CanForget /\ kind[j] \in Killable
  /\ server[j] \in {"completed", "aborted"}
  /\ server' = [server EXCEPT ![j] = "forgotten"]
  /\ UNCHANGED <<kind, taskVars, op, clientVars>>

Start(j) == StartScan(j) \/ StartQuery(j) \/ StartOther(j) \/ StartFails(j)
Watch(j) == Poll(j) \/ StartLoop(j) \/ WaitCalled(j)
Ends(j)  == Construct(j) \/ LoopPoll(j) \/ WaitEnds(j) \/ AskFails(j)

Next == \E j \in Jobs : Start(j) \/ Watch(j) \/ Ends(j) \/ JobEnds(j) \/ Forget(j)

\* the server ends every job, and a method that asks goes on asking; no request
\* has to fail
Fairness == \A j \in Jobs :
  WF_vars(JobEnds(j)) /\ WF_vars(Construct(j)) /\ WF_vars(LoopPoll(j)) /\ WF_vars(WaitEnds(j))

Spec     == Init /\ [][Next]_vars
FairSpec == Spec /\ Fairness

-----------------------------------------------------------------------------
(* Properties *)

\* A task never runs ahead of its job: it is done only if the job is over, and a
\* ScanTask is completed? only if its scan ran to the end and was not aborted.
NeverAhead == \A j \in Jobs :
  /\ done[j] => server[j] \in Over
  /\ IsCompleted(j) => server[j] \in {"completed", "forgotten"}

\* A job that has not been started has no task: with NeverAhead it is inductive.
Fresh == \A j \in Jobs :
  kind[j] = NULL => ~task[j] /\ ~done[j] /\ status[j] = NULL /\ op.job # j

Later(i, k) == \E n \in (i + 1)..Len(accepted) : kind[accepted[n]] = k

\* A scan the server has accepted can be asked about, even if ScanTask.new has
\* raised: it has a task, or @last_scan_id names it until the next scan starts.
\* @last_query_id never names another query than the last one.
ScanReachable == \A i \in 1..Len(accepted) :
  /\ kind[accepted[i]] = "scan" /\ ~Later(i, "scan") => lastScan = accepted[i]
  /\ kind[accepted[i]] = "query" /\ ~Later(i, "query") => lastQuery = accepted[i]
  /\ kind[accepted[i]] # "scan" => task[accepted[i]]

\* wait_till_completed ends, whether the job is completed, aborted or forgotten.
WaitReturns == \A j \in Jobs : op = In("wait", j) ~> op # In("wait", j)

\* The polling loop of the documentation ends, unless the scan is aborted or the
\* server forgets it before the loop has seen it completed.
LoopReturns == \A j \in Jobs :
  op = In("loop", j) ~> (op # In("loop", j) \/ server[j] \in {"aborted", "forgotten"})
=============================================================================

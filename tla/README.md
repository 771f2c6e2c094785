# Verification of the Aerospike C client for Ruby

These TLA+ modules model the parts of `aerospike-c-ruby` (a Ruby extension
around the Aerospike C client) in which order, failure and sharing decide
whether the code is right: callbacks on C threads that build Ruby results,
blocks that call back into the client, jobs that outlive the call that started
them, graphs of predicate nodes, requests that are repeated, batches, values on their
way to the server and back, C structures that Ruby objects and calls own between
them, and objects that are built call by call from shared arrays.
Paths below are relative to `src/`; `ext/` is `ext/aerospike_c_ruby/` and `lib/`
is `lib/aerospike_c_ruby/`. `PROJECT.json` maps every definition to its lines.

## 1. Inventory

| Component | State it keeps | Operations | Hard behaviour | What makes it correct |
|---|---|---|---|---|
| Collecting foreach calls (`ext/querying.c`, `scan.c`, `client_utils.c`) | linked list of `query_item`s, `G_CALLBACK_MUTEX`, the `as_query`/`as_scan` handle, the Ruby array | `scan`, `query`, `execute_udf_on_scan`, `execute_udf_on_query` | callbacks in parallel on C threads; failure at each step; clean-up in `rb_ensure` | no result lost, each block freed once and none kept, an answer is complete or an exception |
| Calls with a block (`querying.c`, `scan.c`) | the recursive mutex, calls under way | `scan_each`, `query_each` | the block nests calls, raises, runs on pool threads | one block at a time, the mutex given back, calls end |
| Background jobs (`scan_task.c`, `query_task.c`, `index_task.c`, `udf_task.c`) | `@status_id`, `@done`, `@last_scan_id`, `@last_query_id` | start, `check_status`, `completed?`, `done?`, `wait_till_completed` | jobs end, abort and are forgotten meanwhile; requests fail | a task never runs ahead of its job; an accepted job can be asked about; waits end |
| Predicate expressions (`lib/predexp_node.rb`, `ext/as_predexp_array.c`) | a graph of hashes held by reference | comparisons, `not`, collections, record methods, `and`, `or`, `where` | sharing, calls in any order, compilation into postfix | the array means what the calls say; what is incomplete raises |
| Calls on one record (`ext/client.c`) with policies (`policy.c`) | none in the client; the record on the server | `put`, `get`, `delete`, `exists?`, `touch`, `operate` | lost replies, retries, late requests, several programs | answers agree with what the server did |
| Batch calls (`client.c`) and keys (`key.c`) | the hash of the answer, `@digest` | `batch_get`, `batch_exists`, `batch_read` | a key asked twice, writes between the reads, errors of single keys and of the whole call | each key is answered with its own result, or the call says that it failed |
| Client life cycle (`client.c`, `client_utils.c`) | the `aerospike` structure | `new`, `close`, collection | a failed connect, objects that outlive the client they point at, tasks of a closed client | destroyed once, there while it is used |
| Keys, records, policies (`key.c`, `record.c`, `policy.c`) | C structures owned by Ruby objects | `new`, collection | constructors that raise half way, structures handed over to a record, pointers into Strings | one owner at a time, none lost |
| GeoJSON objects (`geo_json.c`, `lib/geo_json.rb`) | a text | `point`, `polygon*`, `circle*`, `lng`, `lat`, `radius` | eight class methods that must agree | the shape is the one asked for |
| Value conversion (`utils.c`) | none; the bins of the record | `hash2record`, `record2hash`, `rb_val2as_val`, `rb_copy_as_record` | integer width, nesting, keys that become one string, types without a case, marshalled objects, what other programs have written | a value that is accepted comes back, however it is read |
| Query builder (`query.c`, `utils.c`) | `@filter`, `@bins`, `@order` | `eql!`, `range!`, `order_by!`, ... | caller's arrays held by reference; entries of `as_query_orderby_inita` live on a stack frame that has ended | the `as_query` says what the calls did |
| Operation builder (`lib/operation.rb`, `utils.c`) | list of operation hashes | `write!`, `increment!`, `list_*!`, ... | operations without a bin, order | operations run in the order of the calls |
| Logger, administration calls, error codes, symbols | — | — | none of their own | — |
| Large lists (`llist.c`, `ldt_proxy.c`) | — | — | deprecated and commented out | — |

How they interact. A Ruby method takes the `aerospike` structure out of its
client object, converts its arguments, calls the C client with the interpreter
lock held, and turns the status into a value or an exception
(`raise_as_error`). Foreach calls pass a callback, which the C client runs on
the threads of its pool (on the calling thread for a sequential scan). All
foreach callbacks of all clients share `G_CALLBACK_MUTEX`. Queries hold a
`PredExp`, which is compiled when the query is sent. Tasks hold their client and
ask the server through it.

## 2. Plan

Done, in this order:

1. `ForeachCollect`, with `CollectContract` (its abstract specification) and
   `ForeachCollectProofs`.
2. `ForeachEach`.
3. `BackgroundTasks`, and its proofs in `ClusterProofs`.
4. `PredExp`.
5. `RecordCalls`.
6. `BatchCalls`.
7. `ValueConversion`.

8. `Handles`, `HandlesProofs`: who destroys which C structure, through statuses,
   exceptions and collections.
9. `GeoJson` and `Builders`: the class methods of GeoJson, and the objects whose
   arrays are shared with the program, up to what the C client is given.

10. `ForeachEachProofs`, `RecordCallsProofs`, and `ScanReachable` in
    `ClusterProofs`.

11. The rest of `RecordCallsProofs` (`TypeOK`, `CounterBounds`), the proofs about
    `BatchCalls` in `ClusterProofs`, `BuildersProofs`.

12. `PredExp` without `RECURSIVE` operators, and `PredExpProofs`.

13. `ValueConversion` without `RECURSIVE` operators, and `ValueConversionProofs`.

With that every safety and action property of the runs that pass is a theorem, and the
plan is done. What could come next is in the list of components: `LargeList`, which the
documentation calls deprecated, and the administration calls.

## 3. Modules

Every module `M` has a module `MCM` with the small sets of its configurations.

**`ForeachCollect`** — one collecting call. `pc[t]` is where worker `t` is between
the `malloc` of its item and the unlock of `set_query_item_next`; `next`,
`lastsaved`, `cell`, `payload` and `handle` are the heap, `freed` twice is
`corrupt`; `main` is where the Ruby thread is (`foreach`, the conversion loop,
the `rb_ensure` clause); `data` and `result` are `args->query_data` and
`args->result`. `Link` and `SaveLast` are the two writes under the mutex, apart so
that a second thread could come between them. `AllocFails`, `CopyRaises`,
`NodeFails` and `ConvertRaises` are the failures. Queries and scans have twin
functions with the same steps, which one set of actions stands for. The
refusal of arguments before the first allocation is left out.

**`CollectContract`** — what the caller sees: results are gathered or lost one by
one, and the call returns all it gathered, raises, or takes the process down.

**`ForeachEach`** — `frames` is the stack of calls under way, each with the place
of every thread in its callback; `owner` and `depth` are the recursive mutex;
`abandoned` counts callbacks an exception has left without an unlock.

**`BackgroundTasks`** — `server` is what the server knows of each job; `status` and
`done` are the instance variables of the task objects; `op` is the method the
Ruby thread is in. A scan's start and its `ScanTask.new` are two steps, because
the second asks the server and may raise.

**`PredExp`** — `node` holds the hashes, `and` and `or` are lists of references.
`Node2Predexp` is `predexp_node_2_as_predexp` with the code of the nodes below given;
`code[d]` repeats it for expressions of at most `d` levels, and `Compile` takes as many
levels as there are nodes, which is enough for what has no loop. `Run` is what the server
makes of the array: a stack machine, in which `Reduce` takes the operands of an operator off
the stack and `Result` evaluates it for one record. A truth on the stack is the set of
contents of the collection variable for which the expression is true, so that an iteration
can ask about every element. `Meaning` is what the documentation says, level by level as
well. `Fits` is what NUM2UINT and, for record methods, NUM2ULONG take: integers of the C
type and negative ones of its signed sibling; `Own` raises for others, and `Uint` and
`Ulong` are what they become. `Complete` says that a node has its value or its record
method, `Carried` that its integer arrives unchanged. The nine comparisons are all there;
which string matches which pattern (`Matching`) and which shape is within which (`Inside`)
are relations given as constants. The number of operands, a `uint16_t` in the C client, and
the number of predicates are not bounded.

**`RecordCalls`** — each call has the hash of its policy object, the attempts sent
so far, where the last one is, and the number of given-up requests still on their
way: `ServeLate` lets one of them reach the server; a lost one is one it never
serves. `Fields` says which options each kind of policy passes on; without a policy
object the C client's own defaults apply (no retry of writes).

**`BatchCalls`** — the array of keys, what the cluster said of each, and the answer, whose
entries are looked up by digest as `Key#eql?` and `Key#hash` do. A callback, which runs when
the C client has all results, is a loop over them that sets an entry of the hash for each;
what the loop leaves is written entry by entry: the last result for a digest (`LastWith`) in
`batch_read_callback`, whether one of them is OK (`Ok`) in `batch_exists_callback`.
`NodeFails` is the status of the call as a whole: batch_get answers nil when it says that
there is no such record (`AnswersNil`) and raises otherwise, as the other two always do.

**`ValueConversion`** — the bins of one record (`stored`), what the program has last put
into each (`given`), and whether it is still up. Values are pairs of a type and a content;
`Converts` and `ToC` are the switches of `foreach_hash2record`, `array2as_list`,
`foreach_hash2as_hashmap` and `rb_val2as_val` (which have different cases), `ToRuby` is
`as_val2rb_val`, `Copy` is `rb_copy_as_val`. `Put` refuses or sends the whole hash; `Change`
is get, a change of one entry and put, as `README.md:141` has it, of a get `with_header` or
without: `check_with_header` gives the header the name of a bin, or hides the bin
`record_header` of a record that has a bin `header`, so the two bins of the instance have
these names; the numbers of the header are left out. `AppendNil` hands the C client a
pointer to nothing, after which the list has a nil more, or is as before, or the program has
crashed. `OthersWrite` brings what this client never writes: integers of 64 bits, plain bytes,
maps with integer keys. `GetFaults` and `ScanFaults` are reads of a
null pointer. What is recursive in the code is by depth here: `RubyValues[d]` and
`CValues[d]` are the values nested no deeper than `d`, and `ToCAt[d]`, `ToRubyAt[d]` and
`CopyAt[d]` convert them with the function of the depth below, which they hand to one switch
each (`RubyToC`, `CToRuby`, `CopyVal`). A map is a set of pairs in which no key is twice;
the hash made of it has them in some order (`SetToSeq`), as the order of an as_hashmap is
not the program's.

**`Handles`** — `mem[s]` is one C structure: who is going to destroy it (`held`:
the collector, the running call, or a structure it was given to), whether it has
been destroyed while another owner goes on (`dead`), what it points at (`of`),
whether its Ruby object keeps that alive (`keeps`), and its `stage`: not initialised yet,
ready, a client that was closed, or the way it was lost. `reach` is what the program can
still use, `up` that it runs. The C code runs with the interpreter lock, so a call is one
action: it takes free structures, destroys those it destroys (`Cleared`), and what it still
owns when it ends is lost the way it ends (`Ends`: with its result, with nil, with an error
status raised); calls that another exception leaves half way are actions of their own
(`Broken...`), as are constructors that raise (`Refused...`: the object is collected all
the same, `raw`). `Collect` is one `*_deallocate`, with the order of collections left open
where nothing the program can use refers to the object. A structure whose only owner
destroys it is free again, but for those `client.c` and `key.c` have allocated themselves,
which are lost then (`Unfreed`). `Close` takes the cluster from under a client and its
tasks. What C does not define (`Undefined`: a second destruction, one of what is not
initialised or of the address of a local, use of what is gone or closed) goes well or
stops the program (`Stop`). Inside the C client destroying is counting references: a second
destruction of a GeoJson or an argument list may find a count below one and do
nothing. The model counts destructions, whatever they hit.

**`GeoJson`** — the class methods as functions from arguments to shapes, `Meant` what
`doc/geo_json.md` promises of them. It keeps no state. What they refuse is left out.

**`Builders`** — `object` holds the instance variables of Operation and Query
objects, `array` the Ruby arrays, `held` the arrays the program has a reference to:
it has given them to `new`, or asked for them with a reader, `list_size!` or
`bins<<`, which return the array. `Push` is the program adding to such an array.
`log` is what was asked of each object, a sequence for what is added, the times to live,
the filters and the orders, which `sent`, what the C client is given, is compared with;
`calls` counts the calls. `Operate` is `rb_operations2as_operations`, where a bin name that is
not set is whatever the variable holds (`Names`) and a number that is none is read
from a pointer (`SentValue`); `SendQuery` is `query_obj2as_query`, whose orders are
on a stack frame that has ended (`Orders`). The program is taken not to change the
hashes and strings it has handed in.

## 4. Runs

| Run | Shows | Bounds |
|---|---|---|
| `collect_pool` | type, `IInv`, no lost result, no double free, nothing kept, refinement, termination | 2 threads, 2 records, 1 UDF value, 1 opaque value |
| `each` | `IInv`, blocks exclude each other, the mutex is balanced, what gets calls stuck, that it is for good, and that calls end otherwise | 3 pool threads, depth 4, 5 calls, 3 results each |
| `tasks` | tasks never run ahead; accepted scans are reachable; waits and the polling loop end | 2 jobs of any kind |
| `predexp_filters` | meaning of every comparison; what raises | 1 node, bins of every kind; 8 integers on both sides of every limit (`Wrap` 4, `Long` 6), 2 strings (one also a pattern for both), 2 shapes |
| `predexp_graphs` | meaning of every graph; one incomplete node in it raises, wherever it is | 3 nodes, 3 links, a record method |
| `predexp_cycle` | violation: the documented chain of one node | as above |
| `records` | counting, locking and reading under lost and late requests | 3 calls, 1 retry |
| `batch` | every key gets its own answer, as far as digests tell keys apart, or the call fails as a whole | 3 keys of 2 ids, 2 namespaces |
| `values` | round trip, write back, what a scan gives, what crashes | 2 bins, about 30 values up to depth 2, lists of 2, fixnums -4..3 |
| `values_scan` | violation: a scan loses objects | as above |
| `handles` | structures destroyed once, lost only by exceptions or where `Leaks` names it, there while they are used, but for the named cases | 4 structures |
| `builders` | what is sent is what was asked for; shapes | 2 objects, 2 arrays, 2 bins, 4 calls, arrays of 3 |

Why the bounds are enough. Two threads and four results give a first append, an append after
another's, an interleaved one and one of each kind of payload; the list code looks at no
more than two items at a time, and the proofs lift the safety results to any number, and to
the calling thread alone (the default of `scan`, which is not concurrent), for which there
is no run. In `each` one thread can be in a block, another wait for it and a third be free;
depth 4 has blocks inside blocks. Two jobs give two of the same kind, one started after the
other. Three nodes give a shared child, a chain and every cycle up to three. Three calls
give a writer, another one in between and an observer; one retry gives two attempts, the
default of the policies. Three keys give a key asked twice with another one between. Values
have every type at the top, in an array, in a hash and one level below, and every pair of
keys that are one string in C; the switches do not look deeper than one level at a time, so
that `MaxDepth` is 2; the theorems are for any. `Names` and `Contents` are the strings and
the other contents that these values hold. `Half`, 4 for 2^62, gives integers on both sides
of the edge of a Fixnum. Four structures give a query with its arguments, its client and one
object of another kind, or a record with two GeoJson; what is freed is taken again. Two
objects and two arrays give a shared array and one given up for another; four calls give a
refused one between two that count, on either object. One method of each kind stands for the
operations whose numbers are handled alike. A call of the client changes no builder, so
`NothingSent` leaves out what comes after it. `MaxCalls`, `MaxResults` and `MaxDepth`
(`ForeachEach`, and `MaxDepth` of `ValueConversion`), `MaxLinks` (`PredExp`), `MaxKeys`
(`BatchCalls`), `MaxList` (`ValueConversion`), `MaxCalls` and `MaxItems` (`Builders`) are
the bounds in guards; `IntMax` is 3 for 2^31 - 1; the sets `Jobs`, `Calls`, `Nodes`,
`Structs`, `Objects` and `Arrays` bound what the program makes. Runs with `CHECK_DEADLOCK
FALSE` are of programs that may stop, or that have made all the calls the bound allows.

Symmetry is used with invariants only. `Wrap` stands for 2^32 and `Long` for 2^63.

## 5. Fairness

- `ForeachCollect`, `ForeachEach`: threads are scheduled by the operating system
  and a node answers or its socket times out, which the C client's total time out
  enforces. Blocks are assumed to end. Weak fairness of each thread, not of the
  failures.
- `BackgroundTasks`: the server ends every job, and a method that polls goes on
  polling (`aerospike_query_wait` and the like are loops with a sleep). No request
  has to fail.

The other modules state no liveness and no fairness.

## 6. Proofs

`ForeachCollectProofs` proves, for any set of threads and results, that `Spec`
implies `[]IInv`, and from it `TypeOK`, `NoResultLost`, `FreedOnce`, `AllReleased`
and the refinement `Contract!Spec`. `NoResultLost` is not inductive: it needs to
know where `lastsaved` points as the holder of the mutex sees it (`ListInv`), that
one thread is between lock and unlock (`MutexInv`), that two threads never hold the
same result (`JobInv`, `PartitionInv`) and that an item being linked has no
successor (`ListInv`). `FreedOnce` and `AllReleased` need a cut of the list,
`FreedInv`: blocks before `data` are freed and those after it are live;
`ReadyInv` and `UnlinkedInv` account for the blocks not on the list, `MainInv` ties
the phases of the Ruby thread to them. TLC checks `IInv` first (`collect_pool`).
There is one lemma per group of actions; the refinement maps an append to
`Gather`, a failed allocation to `Lose`, the end to `Return` or `Fail`, and every
other step to a stutter. Assumptions: `WorkersAssumption` (a pool or the calling
thread, not both) and `ResultsAssumption` (the kinds of results are disjoint).

`ForeachEachProofs` proves, for any pool, depth and number of calls and results,
`TypeOK`, `OneInside`, `HoldsBalanced`, `StuckOnlyThen` and the action property
`StuckForGood`. `HoldsBalanced` alone is not inductive: an unlock could free the mutex
under a block that still runs. `IInv` adds that who is inside a callback is the owner
(`InsideOwns`), that only the threads of a call run its callbacks (`OwnRunners`), and
that every nested call was made by the owner in a block below (`NestedByOwner`). Hence a
thread that moves inside a callback is in the innermost call (`Innermost`), and an
exception leaves just one hold behind (`RaiseSound`); and in a deadlock the owner waits
for the innermost call while all the others wait for the owner (`StuckInside`,
`StuckLock`, `StuckEnd`). Assumptions: `ThreadsAssumption`, `BoundsAssumption`.

`RecordCallsProofs` proves all four invariants of the run for any number of calls and
any policies. `Sane` ties the fields of a call together, `Limited` its attempts: as many
as the policy allows, and no more on their way than were sent. `CounterBounds` is not
inductive: a request on its way will count, and so will a reply that is not yet an
answer. `Counts` says that the counter and the requests still on their way are together
no more than the attempts, and the successful replies no more than the counter; sums over
calls are numbers of pairs (`Tally`), which `TallyUp` changes by one. `OneCreator`
follows from a count (`Counted`): the puts whose attempt has created the record are no
more than the removals, and one more while there is a record. `SettledReads` follows from
`Settled`, what the server holds while every attempt is answered; that an attempt was
lost is never undone (`StillSettled`), so that nothing need be known of the record then.
Assumptions: `CallsAssumption`, `KindsAssumption`, `NullAssumption` and
`RetryAssumption` (`:retry` is an unsigned integer of the policy).

`ClusterProofs` is about the two modules whose calls the nodes answer on their own time. Of
`BackgroundTasks` it proves `TypeOK`, `NeverAhead` and `ScanReachable` for any set of jobs:
`NeverAhead` strengthened with `Fresh` (a job that has not been started has no task),
`ScanReachable` with `Known` (an accepted job has been started). Of `BatchCalls` it proves
`BatchTypeOK`, `ExistsTells` and `ReadTells` for any array of keys. `Answering` says what
the hash holds between the call and the callback: false for every digest of the array. That
the last entry for a digest exists is a least element argument (`Largest`, `LastEntry`); it
is one of the entries `Same` names, which both properties need. A call that fails as a whole
gives no answers, so `ReadTells` is about the keys only where it has not. Assumptions:
`JobsAssumption` and `NullAssumption`, `BatchAssumption`. (`BatchCalls` names its
specification `BatchSpec`, so that one module can extend both.)

`BuildersProofs` proves `TypeOK`, `OperationsAsAsked`, `QueriesAsAsked` and `ShapesAsAsked`
for any number of objects, arrays, bins, calls and points. The invariant behind them is
`Tied`, one condition on each object: nothing was asked of one that is not made (`Blank`);
an array the program has no reference to belongs to one object and holds exactly what was
added (`Alone`), which every operation on another object keeps because no two objects share
such an array; the other variables are what the last call that was not refused has set
(`Kept`). `ShapesAsAsked` needs what a polygon of any number of points is: `FlattenSeq` is a
recursive function, and what it does is shown by taking the least index where it would not
(`Smallest`, `JoinExists`, `JoinLength`, `JoinSingles`, `PolygonShape`). Assumptions:
`NamesAssumption`, `BoundsAssumption`, `NullAssumption` (NULL is none of the values),
`CallsAssumption` (operations and filters are those of the classes), `PointsAssumption` (a
point has two coordinates, but for the other arguments `polygon` and `circle` accept).

`PredExpProofs` proves `TypeOK`, `IncompleteRaises` and `MeansTheSame` for any nodes,
bins, values, calls and records. The invariant of the program's calls is `Basic`: the
types, every link goes to a node that is made, and a collection has its quantifier
(`Linked`). The rest is about one state. In an expression without a loop a path visits no
node twice, so that the levels that are left outnumber the nodes that are not on the path;
`NodeInduction` makes of that an induction over nodes: what holds for a node at level `d`
if it holds for its children at level `d - 1` holds for the root at the last level
(the proof looks at the least level at which it would not). `IncompleteRaises` follows with
`NodeRaises`. For `MeansTheSame`, `Puts(r, s, es)` says that the tokens `s` put the entries
`es` on the stack of the server and leave what was there; it is kept by concatenation
(`PutsJoin`) and by an operator that takes all of `es` (`PutsOperator`). `OwnSays`,
`PushSays` and `OperatorSays` compute the one entry that the filter of a node, its negation
and its children leave: `Choice`, true for all contents of the variable or for none.
The predicate on a collection of integers, which the code inserts twice, says the same the
second time (`IteratedMeaning`). Assumptions: `NodesAssumption` (finitely many nodes),
`IntsAssumption` and `TypesAssumption` (integers are of any size, and no strings or
shapes), `StoredAssumption` (keys and values of a stored collection are sequences)
and `NullAssumption` (NULL is no hash).

`ValueConversionProofs` proves `TypeOK`, `RoundTrip`, `ScanTells`, `StaysUp` and the action
property `WriteBackKeeps` for values nested to any depth, any names and contents, any
hashes, changes and foreign values, and any range of integers. Four parts lead there.
`DepthInduction` (there is no least depth at which a claim fails) shows that the values
and the conversions of each depth are what their recursive functions say (`RubyLevel`,
`CLevel`, `ToCLevel`, `ToRubyLevel`, `CopyLevel`, `NormalLevel`), and that a value has the
same image at every depth it fits in (`ToCDeeper`). Then one theorem about the code's
switches each way: `ThereAndBack` (what array2as_list and foreach_hash2as_hashmap take
comes back as `Normal` says, whatever names occur twice; `LastOne` finds the pair that
counts) and `BackAndThere` (a portable value of C that is read and put is the same again,
in whatever order the pairs of its maps come). `CopiesWhole` says what rb_copy_as_val
leaves alone. Last the record: `IInv` has `Kept`, a bin that the program was the last to
put holds exactly what `ToC` makes of the value. `RoundTrip` alone is not inductive, since
many values of C are read as one of Ruby, and an append reads the stored one. `StaysUp`
follows with `GivenSound`: what the program has put is never misread. For
`WriteBackKeeps`, `ChangeSends` follows one bin through the hash that is read, changed and
sent, through the key the header takes. Assumption: `ConversionAssumption` (the values
are of the types above; `Half` and `MaxDepth` are positive; the decimal of a Fixnum and
the names the code uses are names; no other program writes a bin that is nil).

`HandlesProofs` proves `TypeOK`, `OneOwner`, `NothingLost` and `Anchored` for any
number of structures. None of them is inductive: destroying a structure touches
those it holds and those that point at it, and a free slot may be taken for anything.
The invariant `Sound` is one condition `Fine` on each structure: a free slot is
blank and nothing refers to it; no structure is left to a call that has ended; what
is no GeoJson and no argument list has no owner but the collector; what is lost was lost
in an exception or in a way `Leaks` names; an object the program can use has the
collector as an owner and, if it keeps what it points at, has not lost it. `Placed` shows
that filling free slots keeps `Sound`; `EndsClean` says what a call leaves of structures
it alone owns and has destroyed, and `LeavesSound` that every call that makes structures
and destroys some of them keeps `Sound` if those it leaves are in `Leaks`: each call only
has to name them. `CollectSound` is the destruction; `OnlyStops` says after what the program
may stop. The only assumption is `TokensAssumption`.

Only model-checked: liveness (`Terminates`, `CallsEnd`, `WaitReturns` and `LoopReturns`),
which rests on fairness and is out of the prover's reach. `collect_pool` and `each` have
`IInv`, which contains `TypeOK`; the `TypeOK` of `Handles` and of `PredExp` are proved and
in no run.

## 7. Findings

With a run each:

1. One node object used twice in a chain is put below itself, and compiling it never
   ends, against `doc/predexp_node.md:331` (`predexp_cycle`).
2. `scan` and `query` lose the bins that hold Ruby objects, true or false
   (`ext/utils.c:1108`), against `README.md:41` (`values_scan`).

Other divergences, read in the code while modelling it; a property that has to make
an exception for one is named:

- Negative integers in predicates go through `NUM2UINT`, which changes them and raises a
  RangeError above 2^32 - 1 and below -2^31 (`ext/as_predexp_array.c:126`, `167`; `Carried` in
  `MeansTheSame`, `Fits` in `IncompleteRaises`); those of record methods through `NUM2ULONG`.
- `doc/predexp_node.md:235` has `contains` return bins contained in the area; the
  tests (`spec/client_spec.rb:873`) have the bin contain the value, and so has `Cmp`.
- `Key#eql?` and `#hash` do not see the namespace (`ext/key.c:180`): keys of two
  namespaces share an entry of a batch (`ExistsTells`, `ReadTells`).
- `GeoJson.circle_obj` and `circle_point` make the centre and never push it
  (`ext/geo_json.c:320`, `340`; `Keeps` in `ShapesAsAsked`).
- The orders of a query are on the stack of a function that has returned
  (`ext/utils.c:809`; `QueriesAsAsked`), and an operation hash without a bin takes an
  old or uninitialized name (`ext/utils.c:1192`; `OperationsAsAsked`).
- `list_size!` returns the array, not the object (`lib/operation.rb:342` against
  its own comment, line 339).
- An IndexTask does not keep its client (`ext/index_task.c:15`), and a key not the
  String `to_s` has made (`ext/key.c:22`): `Anchored`.
- A client that could not connect, GeoJson in a record and the arguments of a
  background call are destroyed twice (`ext/client.c:59`, `ext/utils.c:222`,
  `ext/querying.c:304`, `ext/scan.c:282`): `OneOwner`.
- `execute_udf` destroys the address of its local, not its result (`ext/client.c:1273`);
  `batch_get` destroys neither batch nor names when it answers nil, and no names when it
  raises (`ext/client.c:503`, `510`); a refused `create_index` and a refused background
  scan keep what they have made (`ext/scan.c:275`): `Leaks` in `NothingLost`.
- The structures of clients and keys are allocated and never freed, and a collected client
  is not closed (`ext/client_utils.c:7`, `ext/key.c:32`): `Leaks`, too.
- Objects of constructors that raise are destroyed without having been initialised
  (`ext/client.c:19`, `ext/key.c:37`): `Anchored` names them among what may stop the program.
- A nil that is appended to a list is a NULL for the C client (`ext/utils.c:578`, `1240`):
  `RoundTrip` and `StaysUp` say nothing of that list.
- `execute_udf_on_scan` hands the clean-up of `scan` to `rb_ensure`
  (`ext/scan.c:211`): its own, with the second destruction of the arguments
  (`ext/scan.c:161`), never runs.
- `put` takes a hash (`ext/client.c:113`); its comment (line 80) allows Record objects.
- `query_info` raises for a query without a filter and has no answer for geographic
  ones (`ext/query.c:214`, `236`).
- `ext/utils.c:1144` `as_val_free` keeps `AS_BYTES` values; `AllReleased` names them.
- `ext/querying.c:340` runs Ruby on the threads of the pool, which know no
  interpreter lock, against the purpose `ext/client.c:11` gives for the mutex.
- `done?` tells whether the program has waited, not the state of the job, against
  `doc/query_task.md:40`, `doc/index_task.md:28`, `doc/udf_task.md:32`.
- A repeated delete answers `nil` for a record it has removed itself
  (`ext/client.c:278` against `:258`).
- `touch` with options needs `:ttl` (`ext/client.c:787`), against
  `doc/client.md:488`.
- `foreach_hash2record` passes over a `T_DATA` that is no GeoJson, such as a `Time`:
  `put` answers true and the bin is as before (`ext/utils.c:218`). GeoJson inside
  arrays and hashes raises, and `list_append!` takes no symbol (`ext/utils.c:576`),
  which the same array takes in a `put`.

## 8. Not modelled

Formatting, logging and the wording of errors; password hashing; constant tables;
info, UDF listing and index removal, which are one request and its answer; the
deprecated large lists. Of the client's options only that they may be refused, of a
query `policy=`, `with_header!`, `namespace` and `set`, which keep what they are given,
and of the class methods of GeoJson what they refuse (`ext/geo_json.c:175`, `192` and the
like).
Memory the C client hands out and a call loses to an exception (the record of a `get`
that cannot be converted) or to a failed request (the files of `list_udf`,
`ext/client.c:1190`) is in `Handles` for what this extension allocates only.
`Handles` has the collector run between calls. It also runs inside them, at every
allocation of a Ruby object: what a call points at without a reference the collector
finds, such as the Strings `to_s` makes for bins (`ext/utils.c:113`, `194`), may go while
it is used. What an uninitialised `_free` of a refused client or key says to the C client, and
closing a client while calls of other threads are under way, are left out as well.
Time to live appears only in the check of `touch` and the number of an Operation; the bins
a `get` or a `batch_get` asks for, commit levels and replica policies change no property here.
No property is about the missing interpreter lock of the threads of the pool
(`ext/querying.c:340`): `OneInside` says that blocks exclude each other. The orders a query
reads off an ended stack frame are accepted whatever they are, so that `QueriesAsAsked`
is about all the rest of the query. A background scan that is refused after
some nodes have started it (`ext/scan.c:275`) cannot be named by the program, and
`ScanReachable` is about those that were accepted.

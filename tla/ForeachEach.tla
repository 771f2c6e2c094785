----------------------------- MODULE ForeachEach -----------------------------
(***************************************************************************)
(* Calls with a block (Client#scan_each, #query_each) and collecting calls  *)
(* (#scan, #query, ...) share one recursive G_CALLBACK_MUTEX.  The callback *)
(* of a call with a block holds it while the Ruby block runs, and the block *)
(* may raise, or make calls of its own on the same client.  frames is the   *)
(* stack of the calls under way: the caller of each but the first is a      *)
(* thread that runs the block of the one below.                             *)
(***************************************************************************)
EXTENDS Naturals, Sequences, FiniteSets

CONSTANTS
  Ruby,        \* the Ruby thread
  Pool,        \* the threads of the client's pool (:thread_pool_size)
  NULL,
  MaxResults,  \* bound: results the server has for one call
  MaxCalls,    \* bound: calls made in all
  MaxDepth     \* bound: calls under way at once

Threads == Pool \cup {Ruby}

ASSUME ThreadsAssumption ==
  /\ Pool # {} /\ Ruby \notin Pool /\ NULL \notin Threads
ASSUME BoundsAssumption ==
  /\ MaxResults \in Nat /\ MaxCalls \in Nat /\ MaxDepth \in Nat \ {0}

VARIABLES
  frames,     \* the calls under way, outermost first
  owner,      \* the thread that holds G_CALLBACK_MUTEX
  depth,      \* how many times it holds it
  abandoned,  \* history: callbacks an exception has left without an unlock
  calls,      \* calls made so far
  aborted     \* a pool thread has raised: the process is gone

vars == <<frames, owner, depth, abandoned, calls, aborted>>

\* a call: how it treats its results, which threads run its callbacks, who made
\* it, results not delivered, and where each thread is in its callback
Call == [kind   : {"each", "collect"},
         mode   : {"pool", "inline"},
         caller : Threads,
         left   : 0..MaxResults,
         at     : [Threads -> {"none", "lock", "run", "unlock"}]]

TypeOK ==
  /\ frames \in Seq(Call) /\ Len(frames) <= MaxDepth
  /\ owner \in Threads \cup {NULL}
  /\ depth \in Nat /\ abandoned \in Nat
  /\ calls \in 0..MaxCalls
  /\ aborted \in BOOLEAN

Init ==
  /\ frames = <<>>
  /\ owner = NULL
  /\ depth = 0
  /\ abandoned = 0
  /\ calls = 0
  /\ aborted = FALSE

-----------------------------------------------------------------------------
(* Helpers *)

\* a sequential scan runs its callbacks on the thread that made the call
Runners(c) == IF c.mode = "inline" THEN {c.caller} ELSE Pool

Busy(t) == \E i \in 1..Len(frames) : frames[i].at[t] # "none"

\* thread t is free to work for call i: a pool thread does one thing at a time
Free(t, i) ==
  /\ t \in Runners(frames[i])
  /\ frames[i].at[t] = "none"
  /\ frames[i].mode = "pool" => ~Busy(t)

\* thread t waits, inside the block of call i, for a call it has made there
Waiting(t, i) == \E j \in (i + 1)..Len(frames) : frames[j].caller = t

Quiet(c) == \A t \in Threads : c.at[t] = "none"

Goto(t, i, from, to) ==
  /\ ~aborted
  /\ frames[i].at[t] = from /\ ~Waiting(t, i)
  /\ frames' = [frames EXCEPT ![i].at[t] = to]

Push(t) ==
  /\ ~aborted
  /\ calls < MaxCalls /\ Len(frames) < MaxDepth
  /\ \E k \in {"each", "collect"}, m \in {"pool", "inline"}, n \in 0..MaxResults :
       frames' = Append(frames, [kind |-> k, mode |-> m, caller |-> t, left |-> n,
                                 at |-> [u \in Threads |-> "none"]])
  /\ calls' = calls + 1
  /\ UNCHANGED <<owner, depth, abandoned, aborted>>

\* pthread_mutex_lock by thread t gets through: the mutex is recursive
Lockable(t) == owner \in {NULL, t}

-----------------------------------------------------------------------------
(* The Ruby program *)

\* the Ruby thread makes a call, outside any block
StartCall == frames = <<>> /\ Push(Ruby)

\* the block of call i makes a call on the same client
BlockCalls(t, i) ==
  /\ frames[i].kind = "each" /\ frames[i].at[t] = "run" /\ ~Waiting(t, i)
  /\ Push(t)

\* the block returns
BlockReturns(t, i) ==
  /\ frames[i].kind = "each"
  /\ Goto(t, i, "run", "unlock")
  /\ UNCHANGED <<owner, depth, abandoned, calls, aborted>>

\* The block raises, and nothing protects the callback.  On the Ruby thread the
\* exception leaves the callback, the foreach and the call without an unlock and
\* without destroying the handle; a pool thread has nowhere to unwind to.
BlockRaises(t, i) ==
  /\ ~aborted
  /\ frames[i].kind = "each" /\ frames[i].at[t] = "run" /\ ~Waiting(t, i)
  /\ \/ /\ t = Ruby
        /\ frames' = SubSeq(frames, 1, i - 1)
        /\ abandoned' = abandoned + 1
        /\ UNCHANGED aborted
     \/ /\ t # Ruby
        /\ aborted' = TRUE
        /\ UNCHANGED <<frames, abandoned>>
  /\ UNCHANGED <<owner, depth, calls>>

-----------------------------------------------------------------------------
(* The callbacks *)

\* the C client calls the callback of call i with a result, on thread t
Deliver(t, i) ==
  /\ ~aborted
  /\ frames[i].left > 0 /\ Free(t, i)
  /\ frames' = [frames EXCEPT ![i].left = @ - 1, ![i].at[t] = "lock"]
  /\ UNCHANGED <<owner, depth, abandoned, calls, aborted>>

\* mutant of Lock: no one waits for the mutex
LockAnyway(t, i) ==
  /\ Goto(t, i, "lock", "run")
  /\ owner' = t /\ depth' = depth + 1
  /\ UNCHANGED <<abandoned, calls, aborted>>

\* mutant of Lock: a mutex that is not recursive
LockOnce(t, i) ==
  /\ Goto(t, i, "lock", "run")
  /\ owner = NULL
  /\ owner' = t /\ depth' = depth + 1
  /\ UNCHANGED <<abandoned, calls, aborted>>

Lock(t, i) ==
  /\ Goto(t, i, "lock", "run")
  /\ Lockable(t)
  /\ owner' = t /\ depth' = depth + 1
  /\ UNCHANGED <<abandoned, calls, aborted>>

\* set_query_item_next appends the item of a collecting call
AppendItem(t, i) ==
  /\ frames[i].kind = "collect"
  /\ Goto(t, i, "run", "unlock")
  /\ UNCHANGED <<owner, depth, abandoned, calls, aborted>>

Unlock(t, i) ==
  /\ Goto(t, i, "unlock", "none")
  /\ depth' = depth - 1
  /\ owner' = IF depth = 1 THEN NULL ELSE owner
  /\ UNCHANGED <<abandoned, calls, aborted>>

\* mutant of EndForeach: the callback returns on NULL without unlocking
EndForeachLocked ==
  /\ ~aborted /\ frames # <<>>
  /\ LET i == Len(frames)
         c == frames[i]
     IN  /\ c.left = 0 /\ Quiet(c) /\ \E t \in Runners(c) : Free(t, i)
         /\ c.kind = "each" => Lockable(c.caller)
         /\ owner' = IF c.kind = "each" THEN c.caller ELSE owner
         /\ depth' = IF c.kind = "each" THEN depth + 1 ELSE depth
         /\ frames' = SubSeq(frames, 1, i - 1)
  /\ UNCHANGED <<abandoned, calls, aborted>>

\* mutant of EndForeach: the callback unlocks on NULL what it has not locked
EndForeachUnlocks ==
  /\ ~aborted /\ frames # <<>>
  /\ LET i == Len(frames)
         c == frames[i]
     IN  /\ c.left = 0 /\ Quiet(c) /\ \E t \in Runners(c) : Free(t, i)
         /\ depth' = IF c.kind = "each" THEN depth - 1 ELSE depth
         /\ frames' = SubSeq(frames, 1, i - 1)
  /\ UNCHANGED <<owner, abandoned, calls, aborted>>

\* Every result of the innermost call has been delivered and a thread has run
\* each node's task.  The callback is called once more, with NULL, by the thread
\* that made the call; that of a call with a block locks and unlocks the mutex.
\* The handle is destroyed and the call returns.
EndForeach ==
  /\ ~aborted /\ frames # <<>>
  /\ LET i == Len(frames)
         c == frames[i]
     IN  /\ c.left = 0 /\ Quiet(c) /\ \E t \in Runners(c) : Free(t, i)
         /\ c.kind = "each" => Lockable(c.caller)
         /\ frames' = SubSeq(frames, 1, i - 1)
  /\ UNCHANGED <<owner, depth, abandoned, calls, aborted>>

\* a node fails: the foreach ends once the callbacks have, the handle is
\* destroyed and the call raises to its caller, a block or the program
ForeachErr ==
  /\ ~aborted /\ frames # <<>>
  /\ LET i == Len(frames)
         c == frames[i]
     IN  /\ Quiet(c) /\ \E t \in Runners(c) : Free(t, i)
         /\ frames' = SubSeq(frames, 1, i - 1)
  /\ UNCHANGED <<owner, depth, abandoned, calls, aborted>>

Step(t, i) ==
  \/ BlockCalls(t, i) \/ BlockReturns(t, i) \/ BlockRaises(t, i)
  \/ Lock(t, i) \/ AppendItem(t, i) \/ Unlock(t, i)

Next ==
  \/ StartCall
  \/ \E i \in 1..Len(frames), t \in Threads : Step(t, i) \/ Deliver(t, i)
  \/ EndForeach
  \/ ForeachErr

\* every thread is scheduled and every block ends; a node answers, or its
\* socket times out; starting a call is up to the program
Fairness ==
  /\ \A t \in Threads : WF_vars(\E i \in 1..Len(frames) : Step(t, i))
  /\ WF_vars(EndForeach \/ ForeachErr \/ \E i \in 1..Len(frames), t \in Threads : Deliver(t, i))

Spec     == Init /\ [][Next]_vars
FairSpec == Spec /\ Fairness

-----------------------------------------------------------------------------
(* Properties *)

\* threads between the lock and the unlock of some callback
Inside == {t \in Threads : \E i \in 1..Len(frames) : frames[i].at[t] \in {"run", "unlock"}}

\* One thread at a time is inside the callbacks, however deep the calls nest: no
\* two blocks run at once and no list of a collecting call is appended to while
\* a block runs on another thread.
OneInside == ~aborted => \A t, u \in Inside : t = u

\* the callbacks thread t is inside
Held(t) == {i \in 1..Len(frames) : frames[i].at[t] \in {"run", "unlock"}}

\* The mutex is held once for every callback its owner is inside, plus once for
\* every callback an exception has left: the early return on NULL, the nested
\* calls and the failing calls all give back what they take.
HoldsBalanced ==
  /\ owner = NULL <=> depth = 0
  /\ owner # NULL => depth = abandoned + Cardinality(Held(owner))
  /\ abandoned > 0 => owner = Ruby

\* only the threads of a call run its callbacks
OwnRunners ==
  \A i \in 1..Len(frames), t \in Threads :
    frames[i].at[t] # "none" => t \in Runners(frames[i])

\* a thread between the lock and the unlock of a callback holds the mutex
InsideOwns ==
  \A i \in 1..Len(frames), t \in Threads :
    frames[i].at[t] \in {"run", "unlock"} => t = owner

\* a nested call was made by the thread that holds the mutex, in a block below
NestedByOwner ==
  \A j \in 2..Len(frames) :
    frames[j].caller = owner /\ \E i \in 1..(j - 1) : frames[i].at[owner] = "run"

\* The inductive invariant: the thread that holds the mutex is the one inside
\* callbacks, counted, and the one that has made every nested call.
IInv == TypeOK /\ HoldsBalanced /\ OwnRunners /\ InsideOwns /\ NestedByOwner

\* the innermost call needs pool threads, and they wait for a mutex whose owner
\* is not one of them, or are all taken by callbacks that do
Stuck ==
  /\ ~aborted /\ frames # <<>>
  /\ LET c == frames[Len(frames)]
     IN  /\ c.mode = "pool"
         /\ owner # NULL /\ c.at[owner] = "none"
         /\ (\E t \in Pool : c.at[t] = "lock") \/ \A t \in Pool : Busy(t)

\* Every call ends, or the process does, or the calls are Stuck: a sequential
\* scan nested in a block ends because the mutex is recursive.
CallsEnd == frames # <<>> ~> (frames = <<>> \/ aborted \/ Stuck)

\* The calls get stuck only through a call that needs the pool inside a block,
\* or after an exception has left a block of scan_each.
StuckOnlyThen == Stuck => abandoned > 0 \/ Len(frames) > 1

\* Nothing ends a deadlock of a block with the calls it made: neither an error
\* of a node nor a timeout reaches the threads that wait for the mutex.
StuckForGood == [][Stuck => Stuck']_vars
=============================================================================

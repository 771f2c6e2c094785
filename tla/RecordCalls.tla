----------------------------- MODULE RecordCalls -----------------------------
(***************************************************************************)
(* The calls on one record: Client#put, #get, #delete, #exists?, #touch and *)
(* #operate (of one increment), made by several programs at once, with or    *)
(* without a policy object.  The C client sends a request, sends it again as *)
(* often as the policy's :retry lets it when no reply comes in time, and     *)
(* gives up; a request it has given up may be lost, or reach the server      *)
(* later.  Ruby code turns the status of the last attempt into the answer.   *)
(*                                                                         *)
(* Abstraction: a record has a bin that tells which put wrote it (by) and a  *)
(* counter bin (count).  Time to live is left out, except where touch checks *)
(* its options.                                                             *)
(***************************************************************************)
EXTENDS Naturals, FiniteSets, Functions

CONSTANTS
  Calls,    \* bound: the calls the programs make
  Kinds,    \* the methods they call
  Options,  \* the hashes they build policies from, for each method
  NULL      \* no policy, no record, no reply, ...

ASSUME CallsAssumption == NULL \notin Calls /\ IsFiniteSet(Calls)
ASSUME KindsAssumption ==
  /\ Kinds \subseteq {"put", "get", "delete", "exists", "touch", "operate"}
  /\ Kinds \subseteq DOMAIN Options

VARIABLES
  call,    \* each call: see Call
  store,   \* the record on the server
  seen,    \* history: the calls that were over when each call was made
  removed  \* history: how often the record has been removed

vars == <<call, store, seen, removed>>

-----------------------------------------------------------------------------
(* Policies *)

\* init_buffer
Defaults == [retry |-> 1, exists |-> "ignore", gen |-> "ignore", generation |-> 0]

\* options2buffer
Buffer(o) == [f \in DOMAIN Defaults |-> IF f \in DOMAIN o THEN o[f] ELSE Defaults[f]]

\* mutant of Fields: init_policy_write leaves :exists out
FieldsNoExists(k) ==
  CASE k = "put"    -> {"retry", "gen"}
    [] k = "delete" -> {"retry", "gen", "generation"}
    [] k \in {"touch", "operate"} -> {"retry", "gen"}
    [] OTHER        -> {"retry"}

\* what init_policy_write, _remove, _operate and _read take from the buffer
Fields(k) ==
  CASE k = "put"    -> {"retry", "exists", "gen"}
    [] k = "delete" -> {"retry", "gen", "generation"}
    [] k \in {"touch", "operate"} -> {"retry", "gen"}
    [] OTHER        -> {"retry"}

\* what the C client does by itself: it does not repeat a write
CDefaults == [retry |-> 0, exists |-> "ignore", gen |-> "ignore", generation |-> 0]

\* get_policy: NULL without a policy object
Policy(k, o) == IF o = NULL THEN CDefaults
                ELSE [f \in DOMAIN CDefaults |-> IF f \in Fields(k) THEN Buffer(o)[f] ELSE CDefaults[f]]

Hashes == UNION Range(Options)

\* retry is a uint32_t
ASSUME RetryAssumption == \A o \in Hashes \ {NULL} : "retry" \in DOMAIN o => o.retry \in Nat

-----------------------------------------------------------------------------
(* State *)

\* options is the hash of the policy object; sent counts the attempts; link is where
\* the last one is; stale counts the given up requests still on their way; got is
\* what a get has read
Call == [kind : Kinds \cup {NULL}, options : Hashes \cup {NULL},
         sent : Nat, link : {"none", "sent", "replied"},
         reply : {"ok", "notfound", "exists", "generation", NULL},
         stale : Nat,
         answer : {"true", "false", "nil", "raise", NULL},
         got : Calls \cup {NULL}]

Record == [by : Calls \cup {NULL}, count : Nat, gen : Nat \ {0}]

ASSUME NullAssumption ==
  /\ NULL \notin Record
  /\ NULL \notin {"put", "get", "delete", "exists", "touch", "operate"}
  /\ NULL \notin {"ok", "notfound", "exists", "generation", "true", "false", "nil", "raise"}

Over(c)     == call[c].answer # NULL
PolicyOf(c) == Policy(call[c].kind, call[c].options)

\* no call makes more attempts than its policy allows, or has more on their way
TypeOK ==
  /\ call \in [Calls -> Call]
  /\ \A c \in Calls : call[c].sent <= PolicyOf(c).retry + 1 /\ call[c].stale <= call[c].sent
  /\ store \in Record \cup {NULL}
  /\ seen \in [Calls -> SUBSET Calls]
  /\ removed \in Nat

Init ==
  /\ call = [c \in Calls |-> [kind |-> NULL, options |-> NULL, sent |-> 0, link |-> "none",
                              reply |-> NULL, stale |-> 0, answer |-> NULL, got |-> NULL]]
  /\ store = NULL
  /\ seen = [c \in Calls |-> {}]
  /\ removed = 0

-----------------------------------------------------------------------------
(* Making a call *)

Begin(c, k, sent, answer) ==
  /\ k \in Kinds /\ call[c].kind = NULL
  /\ \E o \in Options[k] :
       call' = [call EXCEPT ![c] = [@ EXCEPT !.kind = k, !.options = o, !.sent = sent,
                                             !.link = IF sent = 0 THEN "none" ELSE "sent",
                                             !.answer = answer]]
  /\ seen' = [seen EXCEPT ![c] = {d \in Calls : Over(d)}]
  /\ UNCHANGED <<store, removed>>

Send(c, k) == Begin(c, k, 1, NULL)

Put(c)       == Send(c, "put")
Get(c)       == Send(c, "get")
Delete(c)    == Send(c, "delete")
KeyExists(c) == Send(c, "exists")
Operate(c)   == Send(c, "operate")

\* touch without options, or with a :ttl among them
Touch(c)         == Send(c, "touch")
\* touch with options that have no :ttl: OptionError
TouchRefused(c)  == Begin(c, "touch", 0, "raise")

-----------------------------------------------------------------------------
(* The server *)

Gen == IF store = NULL THEN 0 ELSE store.gen

\* put and operate send generation 0; only RemovePolicy has one to send
GenOk(p) == CASE p.gen = "ignore" -> TRUE
              [] p.gen = "eq" -> p.generation = Gen
              [] p.gen = "gt" -> p.generation > Gen

Status(k, p) ==
  IF store = NULL /\ (k \in {"get", "exists", "delete", "touch"} \/ p.exists = "update") THEN "notfound"
  ELSE IF store # NULL /\ p.exists = "create" THEN "exists"
  ELSE IF ~GenOk(p) THEN "generation" ELSE "ok"

Written == IF store = NULL THEN [by |-> NULL, count |-> 0, gen |-> 1]
                           ELSE [store EXCEPT !.gen = @ + 1]

\* the server executes a request of call c
Execute(c) ==
  LET k == call[c].kind
  IN  IF Status(k, PolicyOf(c)) # "ok" \/ k \in {"get", "exists"} THEN UNCHANGED <<store, removed>>
      ELSE /\ store' = CASE k = "put"     -> [Written EXCEPT !.by = c]
                         [] k = "touch"   -> Written
                         [] k = "operate" -> [Written EXCEPT !.count = @ + 1]
                         [] k = "delete"  -> NULL
           /\ removed' = IF k = "delete" THEN removed + 1 ELSE removed

Serve(c) ==
  /\ call[c].link = "sent"
  /\ Execute(c)
  /\ call' = [call EXCEPT ![c].link = "replied",
                          ![c].reply = Status(call[c].kind, PolicyOf(c)),
                          ![c].got = IF call[c].kind = "get" /\ store # NULL THEN store.by ELSE NULL]
  /\ UNCHANGED seen

\* a request that was given up reaches the server after all; one that is lost never does
ServeLate(c) ==
  /\ call[c].stale > 0
  /\ Execute(c)
  /\ call' = [call EXCEPT ![c].stale = @ - 1]
  /\ UNCHANGED seen

-----------------------------------------------------------------------------
(* The end of a call *)

\* the attempt is given up: a request on its way is stale, a reply is lost
GivenUp(c) == [call[c] EXCEPT !.stale = IF call[c].link = "sent" THEN @ + 1 ELSE @,
                              !.reply = NULL, !.got = NULL]

\* mutants of Retry: the policy is not asked; the attempt is not counted
RetryAlways(c) ==
  /\ call[c].link # "none"
  /\ call' = [call EXCEPT ![c] = [GivenUp(c) EXCEPT !.link = "sent", !.sent = @ + 1]]
  /\ UNCHANGED <<store, seen, removed>>

RetryUncounted(c) ==
  /\ call[c].link # "none" /\ call[c].sent <= PolicyOf(c).retry
  /\ call' = [call EXCEPT ![c] = [GivenUp(c) EXCEPT !.link = "sent"]]
  /\ UNCHANGED <<store, seen, removed>>

\* no reply in time, and the policy lets the C client try again
Retry(c) ==
  /\ call[c].link # "none" /\ call[c].sent <= PolicyOf(c).retry
  /\ call' = [call EXCEPT ![c] = [GivenUp(c) EXCEPT !.link = "sent", !.sent = @ + 1]]
  /\ UNCHANGED <<store, seen, removed>>

\* no reply in time to the last attempt: raise_as_error
Timeout(c) ==
  /\ call[c].link # "none" /\ call[c].sent = PolicyOf(c).retry + 1
  /\ call' = [call EXCEPT ![c] = [GivenUp(c) EXCEPT !.link = "none", !.answer = "raise"]]
  /\ UNCHANGED <<store, seen, removed>>

\* what a method answers to the status of its C call
Answer(k, status) ==
  CASE status = "ok"       -> "true"
    [] status = "notfound" /\ k = "exists" -> "false"
    [] status = "notfound" /\ k # "exists" -> "nil"
    [] OTHER               -> "raise"

\* mutant of Return: a write is answered as soon as it is sent
ReturnUnanswered(c) ==
  /\ call[c].link = "replied" \/ (call[c].link = "sent" /\ call[c].kind = "put")
  /\ call' = [call EXCEPT ![c].link = "none",
                          ![c].reply = IF call[c].link = "sent" THEN "ok" ELSE @,
                          ![c].stale = IF call[c].link = "sent" THEN @ + 1 ELSE @,
                          ![c].answer = IF call[c].link = "sent" THEN "true"
                                        ELSE Answer(call[c].kind, call[c].reply)]
  /\ UNCHANGED <<store, seen, removed>>

Return(c) ==
  /\ call[c].link = "replied"
  /\ call' = [call EXCEPT ![c].link = "none",
                          ![c].answer = Answer(call[c].kind, call[c].reply)]
  /\ UNCHANGED <<store, seen, removed>>

Make(c) ==
  \/ Put(c) \/ Get(c) \/ Delete(c) \/ KeyExists(c) \/ Operate(c) \/ Touch(c) \/ TouchRefused(c)
End(c) == Retry(c) \/ Timeout(c) \/ Return(c)

Next == \E c \in Calls : Make(c) \/ Serve(c) \/ ServeLate(c) \/ End(c)

Spec == Init /\ [][Next]_vars

-----------------------------------------------------------------------------
(* Properties *)

Answered(k, a) == {c \in Calls : call[c].kind = k /\ call[c].answer = a}
NoDelete       == \A c \in Calls : call[c].kind # "delete"

\* Every operate that answers has counted, and one that raises, or whose policy
\* repeats it, counts at most once for each attempt: requests that arrive late
\* and replies that are lost never count for more.
CounterBounds ==
  LET counted  == IF store = NULL THEN 0 ELSE store.count
      operates == {c \in Calls : call[c].kind = "operate"}
      attempts == UNION {{c} \X (1..call[c].sent) : c \in operates}
  IN  NoDelete =>
        /\ Cardinality(Answered("operate", "true")) <= counted
        /\ counted <= Cardinality(attempts)

\* the :exists a program has asked for
Asked(c) == IF call[c].options = NULL THEN "ignore" ELSE Buffer(call[c].options).exists

\* A put that may only create (AS_POLICY_EXISTS_CREATE) works as a lock: between
\* two removals of the record at most one such put answers true.
OneCreator ==
  Cardinality({c \in Answered("put", "true") : Asked(c) = "create"}) <= removed + 1

\* When every call so far was answered at its first attempt, a get reads the value
\* of a put that was not over before another one that answered true and was over
\* when the get was made was made; it does not miss a record then.
SettledReads ==
  NoDelete /\ (\A c \in Calls : call[c].sent <= 1 /\ (Over(c) /\ call[c].sent = 1 => call[c].reply # NULL)) =>
    \A g \in Calls : call[g].kind = "get" /\ Over(g) =>
      \A d \in seen[g] \cap Answered("put", "true") :
        /\ call[g].got # NULL
        /\ call[g].got \notin seen[d]
=============================================================================

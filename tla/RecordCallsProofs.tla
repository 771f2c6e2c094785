-------------------------- MODULE RecordCallsProofs --------------------------
(***************************************************************************)
(* Proofs about RecordCalls, for any number of calls and any policies.        *)
(*                                                                         *)
(* Sane says how the fields of a call go together: one that has not been made *)
(* is blank, and one that is over has no request that could still be answered *)
(* or sent again.  On top of it, OneCreator is a count of the puts the server *)
(* has let create the record, against the removals (Creators); SettledReads   *)
(* needs what the server holds while every attempt is answered (Settled).     *)
(***************************************************************************)
EXTENDS RecordCalls, FiniteSetTheorems, TLAPS

\* TypeOK without the bounds on attempts
Typed ==
  /\ call \in [Calls -> Call]
  /\ store \in Record \cup {NULL}
  /\ seen \in [Calls -> SUBSET Calls]
  /\ removed \in Nat

Sane(r) ==
  /\ r.kind = NULL => /\ r.link = "none" /\ r.reply = NULL /\ r.stale = 0
                      /\ r.answer = NULL /\ r.sent = 0
  /\ r.kind # NULL => r.sent > 0 \/ r.kind = "touch"
  /\ r.link # "none" => r.answer = NULL /\ r.sent > 0
  /\ r.link = "sent" => r.reply = NULL
  /\ r.answer = "true" => r.reply = "ok"

\* the puts that may only create and whose last attempt has created the record
Creators == {c \in Calls : call[c].kind = "put" /\ Asked(c) = "create" /\ call[c].reply = "ok"}

Counted == Cardinality(Creators) <= removed + IF store = NULL THEN 0 ELSE 1

Basic == Typed /\ \A c \in Calls : Sane(call[c])

-----------------------------------------------------------------------------
(* What a step leaves of the calls *)

\* a step of call c turns it into r
Becomes(c, r) == r \in Call /\ Sane(r) /\ call' = [call EXCEPT ![c] = r]

LEMMA Null ==
  /\ NULL \notin Record /\ NULL \notin Kinds /\ NULL \notin Calls
  /\ NULL \notin {"put", "get", "delete", "exists", "touch", "operate"}
  /\ NULL \notin {"ok", "notfound", "exists", "generation", "true", "false", "nil", "raise"}
BY NullAssumption, KindsAssumption, CallsAssumption

LEMMA CallShape ==
  ASSUME Basic, NEW c \in Calls
  PROVE  call[c] \in Call /\ Sane(call[c]) /\ call \in [Calls -> Call]
BY DEF Basic, Typed

LEMMA BecomesKeeps ==
  ASSUME Basic, NEW c \in Calls, NEW r, Becomes(c, r)
  PROVE  /\ call' \in [Calls -> Call] /\ call'[c] = r
         /\ \A d \in Calls : d # c => call'[d] = call[d]
         /\ \A d \in Calls : Sane(call'[d])
<1>1. call \in [Calls -> Call] /\ r \in Call /\ Sane(r) /\ call' = [call EXCEPT ![c] = r]
  BY DEF Basic, Typed, Becomes
<1>2. /\ call' \in [Calls -> Call] /\ call'[c] = r
      /\ \A d \in Calls : d # c => call'[d] = call[d]
  BY <1>1
<1> QED
  BY <1>1, <1>2 DEF Basic

\* a put asks the server for what its policy object was given
LEMMA PolicyExists ==
  ASSUME NEW c \in Calls, call[c].kind = "put"
  PROVE  PolicyOf(c).exists = Asked(c)
<1> DEFINE o == call[c].options
<1>1. CASE o = NULL
  BY <1>1 DEF PolicyOf, Policy, Asked, CDefaults
<1>2. CASE o # NULL
  <2>1. PolicyOf(c) = [f \in DOMAIN CDefaults |->
                         IF f \in Fields("put") THEN Buffer(o)[f] ELSE CDefaults[f]]
    BY <1>2 DEF PolicyOf, Policy
  <2>2. "exists" \in DOMAIN CDefaults /\ "exists" \in Fields("put")
    BY DEF CDefaults, Fields
  <2>3. PolicyOf(c)["exists"] = Buffer(o)["exists"]
    BY <2>1, <2>2
  <2> QED
    BY <1>2, <2>3 DEF Asked
<1> QED
  BY <1>1, <1>2

LEMMA BeginBecomes ==
  ASSUME Basic, NEW c \in Calls, NEW k \in Kinds, NEW sent \in {0, 1}, NEW answer \in {NULL, "raise"},
         sent = 0 => k = "touch", sent = 1 => answer = NULL, Begin(c, k, sent, answer)
  PROVE  \E r : /\ Becomes(c, r)
                /\ call[c].kind = NULL
                /\ r.kind = k /\ r.answer = answer /\ r.sent = sent /\ r.stale = 0
                /\ r.reply = NULL /\ r.link = IF sent = 0 THEN "none" ELSE "sent"
<1>1. PICK o \in Options[k] :
        call' = [call EXCEPT ![c] = [@ EXCEPT !.kind = k, !.options = o, !.sent = sent,
                                              !.link = IF sent = 0 THEN "none" ELSE "sent",
                                              !.answer = answer]]
  BY DEF Begin
<1>2. o \in Hashes
  BY KindsAssumption DEF Hashes, Range
<1>3. call \in [Calls -> Call] /\ call[c] \in Call /\ call[c].kind = NULL /\ Sane(call[c])
  BY CallShape DEF Begin
<1> DEFINE l == IF sent = 0 THEN "none" ELSE "sent"
           r == [call[c] EXCEPT !.kind = k, !.options = o, !.sent = sent,
                                !.link = l, !.answer = answer]
<1>4. l \in {"none", "sent"} /\ sent \in Nat /\ (l = "sent" <=> sent = 1)
  OBVIOUS
<1>5. call' = [call EXCEPT ![c] = r]
  BY <1>1
<1> HIDE DEF l
<1>6. r \in Call
  BY <1>2, <1>3, <1>4 DEF Call
<1>7. /\ r.kind = k /\ r.answer = answer /\ r.sent = sent /\ r.stale = 0
      /\ r.reply = NULL /\ r.link = l
  BY <1>3 DEF Call, Sane
<1> HIDE DEF r
<1>8. Sane(r)
  BY <1>4, <1>7, Null DEF Sane
<1> QED
  BY <1>3, <1>5, <1>6, <1>7, <1>8 DEF Becomes, l

\* every method begins its call, touch perhaps without a request
LEMMA MakeBegins ==
  ASSUME Basic, NEW c \in Calls, Make(c)
  PROVE  \E k \in Kinds, sent \in {0, 1}, answer \in {NULL, "raise"} :
           /\ sent = 0 => k = "touch"
           /\ sent = 1 => answer = NULL
           /\ Begin(c, k, sent, answer)
<1>1. CASE TouchRefused(c)
  <2>1. Begin(c, "touch", 0, "raise") /\ "touch" \in Kinds
    BY <1>1 DEF TouchRefused, Begin
  <2> QED
    BY <2>1
<1>2. ASSUME NEW k, Send(c, k)
      PROVE  Begin(c, k, 1, NULL) /\ k \in Kinds
  BY <1>2 DEF Send, Begin
<1>3. CASE \E k : Send(c, k)
  <2>1. PICK k : Send(c, k)
    BY <1>3
  <2>2. Begin(c, k, 1, NULL) /\ k \in Kinds
    BY <1>2, <2>1
  <2> QED
    BY <2>2
<1>4. TouchRefused(c) \/ \E k : Send(c, k)
  BY DEF Make, Put, Get, Delete, KeyExists, Operate, Touch
<1> QED
  BY <1>1, <1>3, <1>4

\* the states Status can give
LEMMA StatusType ==
  ASSUME NEW k, NEW p
  PROVE  Status(k, p) \in {"ok", "notfound", "exists", "generation"}
BY DEF Status

LEMMA ServeBecomes ==
  ASSUME Basic, NEW c \in Calls, Serve(c)
  PROVE  \E r : /\ Becomes(c, r)
                /\ r.kind = call[c].kind /\ r.options = call[c].options /\ r.answer = call[c].answer
                /\ r.sent = call[c].sent /\ r.stale = call[c].stale
                /\ call[c].link = "sent" /\ r.link = "replied"
                /\ r.reply = Status(call[c].kind, PolicyOf(c))
                /\ r.got = IF call[c].kind = "get" /\ store # NULL THEN store.by ELSE NULL
<1> DEFINE s == Status(call[c].kind, PolicyOf(c))
           g == IF call[c].kind = "get" /\ store # NULL THEN store.by ELSE NULL
           r == [call[c] EXCEPT !.link = "replied", !.reply = s, !.got = g]
<1>1. call \in [Calls -> Call] /\ call[c] \in Call /\ Sane(call[c]) /\ call[c].link = "sent"
  BY CallShape DEF Serve
<1>2. call' = [call EXCEPT ![c] = r]
  BY <1>1 DEF Serve, Call
<1>3. s \in {"ok", "notfound", "exists", "generation"}
  BY StatusType
<1>4. g \in Calls \cup {NULL}
  BY DEF Basic, Typed, Record
<1> HIDE DEF s, g
<1>5. r \in Call
  BY <1>1, <1>3, <1>4 DEF Call
<1>6. /\ r.kind = call[c].kind /\ r.options = call[c].options /\ r.answer = call[c].answer
      /\ r.sent = call[c].sent /\ r.stale = call[c].stale /\ r.link = "replied"
      /\ r.reply = s /\ r.got = g
  BY <1>1 DEF Call
<1> HIDE DEF r
<1>7. Sane(r)
  BY <1>1, <1>6, Null DEF Sane
<1> QED
  BY <1>1, <1>2, <1>5, <1>6, <1>7 DEF Becomes, s, g

LEMMA ServeLateBecomes ==
  ASSUME Basic, NEW c \in Calls, ServeLate(c)
  PROVE  \E r : /\ Becomes(c, r)
                /\ call[c].stale > 0 /\ r.stale = call[c].stale - 1
                /\ r.kind = call[c].kind /\ r.options = call[c].options /\ r.answer = call[c].answer
                /\ r.sent = call[c].sent /\ r.reply = call[c].reply /\ r.link = call[c].link
<1> DEFINE l == call[c].stale - 1
           r == [call[c] EXCEPT !.stale = l]
<1>1. call \in [Calls -> Call] /\ call[c] \in Call /\ Sane(call[c]) /\ call[c].stale > 0
  BY CallShape DEF ServeLate
<1>2. call' = [call EXCEPT ![c] = r]
  BY <1>1 DEF ServeLate, Call
<1>3. l \in Nat
  BY <1>1 DEF Call
<1> HIDE DEF l
<1>4. r \in Call
  BY <1>1, <1>3 DEF Call
<1>5. /\ r.kind = call[c].kind /\ r.options = call[c].options /\ r.answer = call[c].answer
      /\ r.sent = call[c].sent /\ r.link = call[c].link /\ r.reply = call[c].reply
      /\ r.stale = l
  BY <1>1 DEF Call
<1> HIDE DEF r
<1>6. Sane(r)
  BY <1>1, <1>5 DEF Sane, Call
<1> QED
  BY <1>1, <1>2, <1>4, <1>5, <1>6 DEF Becomes, l

LEMMA RetryBecomes ==
  ASSUME Basic, NEW c \in Calls, Retry(c)
  PROVE  \E r : /\ Becomes(c, r)
                /\ r.kind = call[c].kind /\ r.options = call[c].options /\ r.answer = call[c].answer
                /\ r.sent = call[c].sent + 1 /\ call[c].sent > 0 /\ r.reply = NULL
                /\ call[c].sent <= PolicyOf(c).retry /\ r.link = "sent"
                /\ r.stale = IF call[c].link = "sent" THEN call[c].stale + 1 ELSE call[c].stale
<1> DEFINE l == IF call[c].link = "sent" THEN call[c].stale + 1 ELSE call[c].stale
           n == call[c].sent + 1
           r == [call[c] EXCEPT !.stale = l, !.reply = NULL, !.got = NULL, !.link = "sent", !.sent = n]
<1>1. call \in [Calls -> Call] /\ call[c] \in Call /\ Sane(call[c]) /\ call[c].link # "none"
  BY CallShape DEF Retry
<1>2. call' = [call EXCEPT ![c] = r]
  BY <1>1 DEF Retry, GivenUp, Call
<1>3. l \in Nat /\ n \in Nat /\ n > 0
  BY <1>1 DEF Call
<1> HIDE DEF l
<1>4. r \in Call
  BY <1>1, <1>3 DEF Call
<1>5. /\ r.kind = call[c].kind /\ r.options = call[c].options /\ r.answer = call[c].answer
      /\ r.sent = n /\ r.link = "sent" /\ r.reply = NULL /\ r.stale = l
      /\ call[c].sent <= PolicyOf(c).retry
  BY <1>1 DEF Call, Retry
<1> HIDE DEF r
<1>6. call[c].answer = NULL /\ call[c].kind # NULL /\ call[c].sent > 0
  BY <1>1 DEF Sane
<1>7. Sane(r)
  BY <1>3, <1>5, <1>6, Null DEF Sane
<1> QED
  BY <1>2, <1>4, <1>5, <1>6, <1>7 DEF Becomes, l

LEMMA TimeoutBecomes ==
  ASSUME Basic, NEW c \in Calls, Timeout(c)
  PROVE  \E r : /\ Becomes(c, r)
                /\ r.kind = call[c].kind /\ r.options = call[c].options
                /\ r.answer = "raise" /\ call[c].answer = NULL
                /\ r.sent = call[c].sent /\ r.sent > 0 /\ r.reply = NULL /\ r.link = "none"
                /\ r.stale = IF call[c].link = "sent" THEN call[c].stale + 1 ELSE call[c].stale
<1> DEFINE l == IF call[c].link = "sent" THEN call[c].stale + 1 ELSE call[c].stale
           r == [call[c] EXCEPT !.stale = l, !.reply = NULL, !.got = NULL, !.link = "none", !.answer = "raise"]
<1>1. call \in [Calls -> Call] /\ call[c] \in Call /\ Sane(call[c]) /\ call[c].link # "none"
  BY CallShape DEF Timeout
<1>2. call' = [call EXCEPT ![c] = r]
  BY <1>1 DEF Timeout, GivenUp, Call
<1>3. l \in Nat
  BY <1>1 DEF Call
<1> HIDE DEF l
<1>4. r \in Call
  BY <1>1, <1>3 DEF Call
<1>5. /\ r.kind = call[c].kind /\ r.options = call[c].options /\ r.answer = "raise"
      /\ r.sent = call[c].sent /\ r.link = "none" /\ r.reply = NULL /\ r.stale = l
  BY <1>1 DEF Call
<1> HIDE DEF r
<1>6. call[c].answer = NULL /\ call[c].kind # NULL /\ call[c].sent > 0
  BY <1>1 DEF Sane
<1>7. Sane(r)
  BY <1>5, <1>6 DEF Sane
<1> QED
  BY <1>2, <1>4, <1>5, <1>6, <1>7 DEF Becomes, l

LEMMA ReturnBecomes ==
  ASSUME Basic, NEW c \in Calls, Return(c)
  PROVE  \E r : /\ Becomes(c, r)
                /\ r.kind = call[c].kind /\ r.options = call[c].options /\ call[c].answer = NULL
                /\ r.sent = call[c].sent /\ r.stale = call[c].stale
                /\ r.reply = call[c].reply /\ r.got = call[c].got
                /\ call[c].link = "replied" /\ r.link = "none"
<1> DEFINE a == Answer(call[c].kind, call[c].reply)
           r == [call[c] EXCEPT !.link = "none", !.answer = a]
<1>1. call \in [Calls -> Call] /\ call[c] \in Call /\ Sane(call[c]) /\ call[c].link = "replied"
  BY CallShape DEF Return
<1>2. call' = [call EXCEPT ![c] = r]
  BY <1>1 DEF Return, Call
<1>3. a \in {"true", "false", "nil", "raise"} /\ (a = "true" => call[c].reply = "ok")
  BY DEF Answer
<1> HIDE DEF a
<1>4. r \in Call
  BY <1>1, <1>3 DEF Call
<1>5. /\ r.kind = call[c].kind /\ r.options = call[c].options /\ r.answer = a
      /\ r.sent = call[c].sent /\ r.stale = call[c].stale /\ r.link = "none"
      /\ r.reply = call[c].reply /\ r.got = call[c].got
  BY <1>1 DEF Call
<1> HIDE DEF r
<1>6. call[c].answer = NULL /\ call[c].kind # NULL /\ call[c].sent > 0
  BY <1>1 DEF Sane
<1>7. Sane(r)
  BY <1>3, <1>5, <1>6, Null DEF Sane
<1> QED
  BY <1>1, <1>2, <1>4, <1>5, <1>6, <1>7 DEF Becomes

-----------------------------------------------------------------------------
(* What a request does on the server *)

LEMMA WrittenType ==
  ASSUME Basic
  PROVE  /\ Written \in Record
         /\ Written.by = IF store = NULL THEN NULL ELSE store.by
<1>1. store \in Record \cup {NULL}
  BY DEF Basic, Typed
<1>2. CASE store = NULL
  BY <1>2 DEF Written, Record
<1>3. CASE store # NULL
  <2>1. store \in Record /\ Written = [store EXCEPT !.gen = store.gen + 1]
    BY <1>1, <1>3 DEF Written, Record
  <2>2. store.gen + 1 \in Nat \ {0}
    BY <2>1 DEF Record
  <2> QED
    BY <1>3, <2>1, <2>2 DEF Record
<1> QED
  BY <1>2, <1>3

\* a request reads or fails, removes the record, or writes it
Unwritten(c) == UNCHANGED <<store, removed>>
                /\ (call[c].kind = "put" => Status(call[c].kind, PolicyOf(c)) # "ok")
Removes(c)   == call[c].kind = "delete" /\ store # NULL /\ store' = NULL /\ removed' = removed + 1
Writes(c)    == /\ call[c].kind \notin {"delete", "get", "exists"}
                /\ Status(call[c].kind, PolicyOf(c)) = "ok"
                /\ store' \in Record /\ removed' = removed
                /\ store'.by = IF call[c].kind = "put" THEN c
                               ELSE IF store = NULL THEN NULL ELSE store.by

LEMMA Executed ==
  ASSUME Basic, NEW c \in Calls, call[c].kind \in Kinds, Execute(c)
  PROVE  Unwritten(c) \/ Removes(c) \/ Writes(c)
<1> DEFINE k == call[c].kind
           st == Status(k, PolicyOf(c))
<1>1. k \in {"put", "get", "delete", "exists", "touch", "operate"}
  BY KindsAssumption
<1>2. CASE st # "ok" \/ k \in {"get", "exists"}
  BY <1>2 DEF Execute, Unwritten
<1>3. CASE st = "ok" /\ k \notin {"get", "exists"}
  <2>1. /\ store' = CASE k = "put"     -> [Written EXCEPT !.by = c]
                       [] k = "touch"   -> Written
                       [] k = "operate" -> [Written EXCEPT !.count = @ + 1]
                       [] k = "delete"  -> NULL
        /\ removed' = IF k = "delete" THEN removed + 1 ELSE removed
    BY <1>3 DEF Execute
  <2> DEFINE w == Written
  <2>2. w \in Record /\ w.by = IF store = NULL THEN NULL ELSE store.by
    BY WrittenType
  <2>3. CASE k = "put"
    <3>1. store' = [w EXCEPT !.by = c]
      BY <2>1, <2>3
    <3> HIDE DEF w
    <3>2. store' \in Record /\ store'.by = c
      BY <2>2, <3>1 DEF Record
    <3> QED
      BY <1>3, <2>1, <2>3, <3>2 DEF Writes
  <2>4. CASE k = "touch"
    BY <1>3, <2>1, <2>2, <2>4 DEF Writes
  <2>5. CASE k = "operate"
    <3>1. store' = [w EXCEPT !.count = w.count + 1]
      BY <2>1, <2>5
    <3> HIDE DEF w
    <3>2. store' \in Record /\ store'.by = w.by
      BY <2>2, <3>1 DEF Record
    <3> QED
      BY <1>3, <2>1, <2>2, <2>5, <3>2 DEF Writes
  <2>6. CASE k = "delete"
    <3>1. store # NULL
      BY <1>3, <2>6 DEF Status
    <3> QED
      BY <2>1, <2>6, <3>1 DEF Removes
  <2> QED
    BY <1>1, <1>3, <2>3, <2>4, <2>5, <2>6
<1> QED
  BY <1>2, <1>3

LEMMA ExecutedType ==
  ASSUME Basic, NEW c \in Calls, Unwritten(c) \/ Removes(c) \/ Writes(c)
  PROVE  store' \in Record \cup {NULL} /\ removed' \in Nat
BY DEF Basic, Typed, Unwritten, Removes, Writes

\* who has a request on its way has been made
LEMMA Known ==
  ASSUME Basic, NEW c \in Calls, call[c].link # "none" \/ call[c].stale > 0
  PROVE  call[c].kind \in Kinds
BY CallShape DEF Sane, Call

-----------------------------------------------------------------------------
(* The fields of calls *)

LEMMA InitBasic == Init => Basic
<1> SUFFICES ASSUME Init PROVE Basic
  OBVIOUS
<1> DEFINE r == [kind |-> NULL, options |-> NULL, sent |-> 0, link |-> "none",
                 reply |-> NULL, stale |-> 0, answer |-> NULL, got |-> NULL]
<1>1. call = [c \in Calls |-> r]
  BY DEF Init
<1>2. r \in Call
  BY DEF Call
<1>3. Sane(r)
  BY Null DEF Sane
<1> HIDE DEF r
<1>4. call \in [Calls -> Call] /\ \A c \in Calls : Sane(call[c])
  BY <1>1, <1>2, <1>3
<1> QED
  BY <1>4 DEF Init, Basic, Typed

LEMMA SeenType ==
  ASSUME Basic, NEW c \in Calls, seen' = [seen EXCEPT ![c] = {d \in Calls : Over(d)}]
  PROVE  seen' \in [Calls -> SUBSET Calls]
BY DEF Basic, Typed

LEMMA BecomesBasic ==
  ASSUME Basic, NEW c \in Calls, NEW r, Becomes(c, r),
         seen' \in [Calls -> SUBSET Calls], store' \in Record \cup {NULL}, removed' \in Nat
  PROVE  Basic'
BY BecomesKeeps DEF Basic, Typed

LEMMA StepBasic ==
  ASSUME Basic, [Next]_vars
  PROVE  Basic'
<1>1. CASE UNCHANGED vars
  BY <1>1 DEF vars, Basic, Typed
<1>2. ASSUME NEW c \in Calls, Make(c)
      PROVE  Basic'
  <2>1. PICK k \in Kinds, sent \in {0, 1}, answer \in {NULL, "raise"} :
          /\ sent = 0 => k = "touch"
          /\ sent = 1 => answer = NULL
          /\ Begin(c, k, sent, answer)
    BY <1>2, MakeBegins
  <2>2. PICK r : Becomes(c, r)
    BY <2>1, BeginBecomes
  <2>3. seen' \in [Calls -> SUBSET Calls] /\ UNCHANGED <<store, removed>>
    BY <2>1, SeenType DEF Begin
  <2> QED
    BY <2>2, <2>3, BecomesBasic DEF Basic, Typed
<1>3. ASSUME NEW c \in Calls, Serve(c)
      PROVE  Basic'
  <2>1. PICK r : Becomes(c, r)
    BY <1>3, ServeBecomes
  <2>2. Execute(c) /\ call[c].kind \in Kinds /\ UNCHANGED seen
    BY <1>3, Known DEF Serve
  <2> QED
    BY <2>1, <2>2, Executed, ExecutedType, BecomesBasic DEF Basic, Typed
<1>4. ASSUME NEW c \in Calls, ServeLate(c)
      PROVE  Basic'
  <2>1. PICK r : Becomes(c, r)
    BY <1>4, ServeLateBecomes
  <2>2. Execute(c) /\ call[c].kind \in Kinds /\ UNCHANGED seen
    BY <1>4, Known DEF ServeLate
  <2> QED
    BY <2>1, <2>2, Executed, ExecutedType, BecomesBasic DEF Basic, Typed
<1>5. ASSUME NEW c \in Calls, End(c)
      PROVE  Basic'
  <2>1. PICK r : Becomes(c, r)
    BY <1>5, RetryBecomes, TimeoutBecomes, ReturnBecomes DEF End
  <2>2. UNCHANGED <<store, seen, removed>>
    BY <1>5 DEF End, Retry, Timeout, Return
  <2> QED
    BY <2>1, <2>2, BecomesBasic DEF Basic, Typed
<1> QED
  BY <1>1, <1>2, <1>3, <1>4, <1>5 DEF Next

-----------------------------------------------------------------------------
(* The number of attempts *)

Waiting(r) == r.stale + IF r.link = "sent" THEN 1 ELSE 0
Limited(r) == r.sent <= Policy(r.kind, r.options).retry + 1 /\ Waiting(r) <= r.sent
Limits     == \A c \in Calls : Limited(call[c])

\* every policy reads :retry, an unsigned number
LEMMA RetryType ==
  ASSUME NEW k, NEW o \in Hashes \cup {NULL}
  PROVE  Policy(k, o).retry \in Nat
<1>1. CASE o = NULL
  BY <1>1 DEF Policy, CDefaults
<1>2. CASE o # NULL
  <2>1. Policy(k, o) = [f \in DOMAIN CDefaults |->
                          IF f \in Fields(k) THEN Buffer(o)[f] ELSE CDefaults[f]]
    BY <1>2 DEF Policy
  <2>2. "retry" \in DOMAIN CDefaults /\ "retry" \in Fields(k)
    BY DEF CDefaults, Fields
  <2>3. Policy(k, o)["retry"] = Buffer(o)["retry"]
    BY <2>1, <2>2
  <2>4. Buffer(o)["retry"] = IF "retry" \in DOMAIN o THEN o["retry"] ELSE 1
    BY DEF Buffer, Defaults
  <2>5. "retry" \in DOMAIN o => o["retry"] \in Nat
    BY <1>2, RetryAssumption
  <2> QED
    BY <2>3, <2>4, <2>5
<1> QED
  BY <1>1, <1>2

LEMMA BecomesLimits ==
  ASSUME Basic, Limits, NEW c \in Calls, NEW r, Becomes(c, r), Limited(r)
  PROVE  Limits'
<1>1. call'[c] = r /\ \A d \in Calls : d # c => call'[d] = call[d]
  BY BecomesKeeps
<1>2. ASSUME NEW d \in Calls PROVE Limited(call'[d])
  BY <1>1 DEF Limits
<1> QED
  BY <1>2 DEF Limits, Limited, Waiting

LEMMA StepLimits ==
  ASSUME Basic, Limits, [Next]_vars
  PROVE  Limits'
<1>1. CASE UNCHANGED vars
  BY <1>1 DEF vars, Limits, Limited, Waiting
<1>2. ASSUME NEW c \in Calls, NEW r, Becomes(c, r), Waiting(r) <= r.sent,
             \/ r.sent <= 1
             \/ r.sent <= call[c].sent /\ r.kind = call[c].kind /\ r.options = call[c].options
             \/ /\ r.sent = call[c].sent + 1 /\ call[c].sent <= PolicyOf(c).retry
                /\ r.kind = call[c].kind /\ r.options = call[c].options
      PROVE  Limits'
  <2>1. r \in Call /\ call[c] \in Call
    BY <1>2, CallShape DEF Becomes
  <2> DEFINE n == Policy(r.kind, r.options).retry
             m == Policy(call[c].kind, call[c].options).retry
  <2>2. n \in Nat /\ m \in Nat /\ r.sent \in Nat /\ call[c].sent \in Nat
    BY <2>1, RetryType DEF Call
  <2>3. call[c].sent <= m + 1
    BY DEF Limits, Limited
  <2>4. PolicyOf(c).retry = m
    BY DEF PolicyOf
  <2>5. r.kind = call[c].kind /\ r.options = call[c].options => n = m
    OBVIOUS
  <2> HIDE DEF n, m
  <2>6. r.sent <= n + 1
    BY <1>2, <2>2, <2>3, <2>4, <2>5
  <2>7. Limited(r)
    BY <1>2, <2>6 DEF Limited, n
  <2> QED
    BY <1>2, <2>7, BecomesLimits
<1>3. ASSUME NEW c \in Calls, Make(c)
      PROVE  Limits'
  <2>1. PICK k \in Kinds, sent \in {0, 1}, answer \in {NULL, "raise"} :
          /\ sent = 0 => k = "touch"
          /\ sent = 1 => answer = NULL
          /\ Begin(c, k, sent, answer)
    BY <1>3, MakeBegins
  <2>2. PICK r : Becomes(c, r) /\ r.sent = sent /\ r.stale = 0
                 /\ r.link = IF sent = 0 THEN "none" ELSE "sent"
    BY <2>1, BeginBecomes
  <2>3. Waiting(r) <= r.sent /\ r.sent <= 1
    BY <2>2 DEF Waiting
  <2> QED
    BY <1>2, <2>2, <2>3
<1>4. ASSUME NEW c \in Calls, Serve(c) \/ ServeLate(c) \/ Timeout(c) \/ Return(c)
      PROVE  Limits'
  <2>1. call[c] \in Call /\ Waiting(call[c]) <= call[c].sent /\ Sane(call[c])
    BY CallShape DEF Limits, Limited
  <2>2. PICK r : /\ Becomes(c, r)
                 /\ r.sent = call[c].sent /\ r.kind = call[c].kind /\ r.options = call[c].options
                 /\ Waiting(r) <= Waiting(call[c])
    <3>1. CASE Serve(c)
      <4>1. PICK r : /\ Becomes(c, r)
                     /\ r.sent = call[c].sent /\ r.kind = call[c].kind /\ r.options = call[c].options
                     /\ r.stale = call[c].stale /\ call[c].link = "sent" /\ r.link = "replied"
        BY <3>1, ServeBecomes
      <4> QED
        BY <2>1, <4>1 DEF Waiting, Call
    <3>2. CASE ServeLate(c)
      <4>1. PICK r : /\ Becomes(c, r)
                     /\ r.sent = call[c].sent /\ r.kind = call[c].kind /\ r.options = call[c].options
                     /\ r.stale = call[c].stale - 1 /\ r.link = call[c].link
        BY <3>2, ServeLateBecomes
      <4> QED
        BY <2>1, <4>1 DEF Waiting, Call
    <3>3. CASE Timeout(c)
      <4>1. PICK r : /\ Becomes(c, r)
                     /\ r.sent = call[c].sent /\ r.kind = call[c].kind /\ r.options = call[c].options
                     /\ r.link = "none"
                     /\ r.stale = IF call[c].link = "sent" THEN call[c].stale + 1 ELSE call[c].stale
        BY <3>3, TimeoutBecomes
      <4> QED
        BY <2>1, <4>1 DEF Waiting, Call
    <3>4. CASE Return(c)
      <4>1. PICK r : /\ Becomes(c, r)
                     /\ r.sent = call[c].sent /\ r.kind = call[c].kind /\ r.options = call[c].options
                     /\ r.stale = call[c].stale /\ call[c].link = "replied" /\ r.link = "none"
        BY <3>4, ReturnBecomes
      <4> QED
        BY <2>1, <4>1 DEF Waiting, Call
    <3> QED
      BY <1>4, <3>1, <3>2, <3>3, <3>4
  <2>3. r \in Call
    BY <2>2 DEF Becomes
  <2>4. Waiting(r) <= r.sent /\ r.sent <= call[c].sent
    BY <2>1, <2>2, <2>3 DEF Waiting, Call
  <2> QED
    BY <1>2, <2>2, <2>4
<1>5. ASSUME NEW c \in Calls, Retry(c)
      PROVE  Limits'
  <2>1. call[c] \in Call /\ Waiting(call[c]) <= call[c].sent
    BY CallShape DEF Limits, Limited
  <2>2. PICK r : /\ Becomes(c, r)
                 /\ r.sent = call[c].sent + 1 /\ call[c].sent <= PolicyOf(c).retry /\ r.link = "sent"
                 /\ r.kind = call[c].kind /\ r.options = call[c].options
                 /\ r.stale = IF call[c].link = "sent" THEN call[c].stale + 1 ELSE call[c].stale
    BY <1>5, RetryBecomes
  <2>3. Waiting(r) <= r.sent
    BY <2>1, <2>2 DEF Waiting, Call
  <2> QED
    BY <1>2, <2>2, <2>3
<1> QED
  BY <1>1, <1>3, <1>4, <1>5 DEF Next, End

LEMMA InitLimits == Init => Limits
<1> SUFFICES ASSUME Init, NEW c \in Calls PROVE Limited(call[c])
  BY DEF Limits
<1>1. call[c].sent = 0 /\ call[c].stale = 0 /\ call[c].link = "none" /\ call[c].options = NULL
  BY DEF Init
<1>2. Policy(call[c].kind, call[c].options).retry \in Nat
  BY <1>1, RetryType
<1> QED
  BY <1>1, <1>2 DEF Limited, Waiting

\* Every call is in a state its fields allow together, makes no more attempts than its
\* policy lets the C client make, and has no more requests on their way than attempts.
THEOREM TypeCorrect == Spec => []TypeOK
<1>1. Init => Basic /\ Limits
  BY InitBasic, InitLimits
<1>2. Basic /\ Limits /\ [Next]_vars => (Basic /\ Limits)'
  BY StepBasic, StepLimits
<1>3. ASSUME Basic, Limits PROVE TypeOK
  <2>1. ASSUME NEW c \in Calls
        PROVE  call[c].sent <= PolicyOf(c).retry + 1 /\ call[c].stale <= call[c].sent
    BY <1>3, CallShape DEF Limits, Limited, Waiting, PolicyOf, Call
  <2> QED
    BY <1>3, <2>1 DEF Basic, Typed, TypeOK
<1> QED
  BY <1>1, <1>2, <1>3, PTL DEF Spec

-----------------------------------------------------------------------------
(* Counting attempts *)

\* as many pairs as the values of f add up to
Tally(f) == UNION {{c} \X (1..f[c]) : c \in Calls}

Counter   == IF store = NULL THEN 0 ELSE store.count
Successes == {c \in Calls : call[c].kind = "operate" /\ call[c].reply = "ok"}
SentBy(r) == IF r.kind = "operate" THEN r.sent ELSE 0
WaitBy(r) == IF r.kind = "operate" THEN Waiting(r) ELSE 0
Sends     == [c \in Calls |-> SentBy(call[c])]
Waits     == [c \in Calls |-> WaitBy(call[c])]

\* A success has counted, and an attempt has counted or is still on its way, but for
\* those that were lost or refused.
Counts ==
  /\ IsFiniteSet(Tally(Sends)) /\ IsFiniteSet(Tally(Waits))
  /\ NoDelete => /\ Cardinality(Successes) <= Counter
                 /\ Counter + Cardinality(Tally(Waits)) <= Cardinality(Tally(Sends))

LEMMA TallyElement ==
  ASSUME NEW f \in [Calls -> Nat], NEW x
  PROVE  x \in Tally(f) <=> (\E c \in Calls : \E i \in 1..f[c] : x = <<c, i>>)
BY DEF Tally

LEMMA TallyUp ==
  ASSUME NEW f \in [Calls -> Nat], NEW g \in [Calls -> Nat], NEW c \in Calls,
         g[c] = f[c] + 1, \A d \in Calls : d # c => g[d] = f[d],
         IsFiniteSet(Tally(f)) \/ IsFiniteSet(Tally(g))
  PROVE  /\ IsFiniteSet(Tally(f)) /\ IsFiniteSet(Tally(g))
         /\ Cardinality(Tally(g)) = Cardinality(Tally(f)) + 1
<1> DEFINE x == <<c, f[c] + 1>>
<1>0. f[c] \in Nat
  OBVIOUS
<1>1. x \notin Tally(f)
  <2> SUFFICES ASSUME x \in Tally(f) PROVE FALSE
    OBVIOUS
  <2>1. PICK d \in Calls : \E i \in 1..f[d] : x = <<d, i>>
    BY TallyElement
  <2> QED
    BY <1>0, <2>1
<1>2. ASSUME NEW y \in Tally(f) PROVE y \in Tally(g)
  <2>0. PICK d \in Calls : \E i \in 1..f[d] : y = <<d, i>>
    BY TallyElement
  <2>1. PICK i \in 1..f[d] : y = <<d, i>>
    BY <2>0
  <2>2. i \in 1..g[d]
    BY <1>0
  <2> QED
    BY <2>1, <2>2, TallyElement
<1>3. x \in Tally(g)
  <2>1. f[c] + 1 \in 1..g[c]
    BY <1>0
  <2> QED
    BY <2>1, TallyElement
<1>4. ASSUME NEW y \in Tally(g), y # x PROVE y \in Tally(f)
  <2>0. PICK d \in Calls : \E i \in 1..g[d] : y = <<d, i>>
    BY TallyElement
  <2>1. PICK i \in 1..g[d] : y = <<d, i>>
    BY <2>0
  <2>2. i \in 1..f[d]
    BY <1>0, <1>4, <2>1
  <2> QED
    BY <2>1, <2>2, TallyElement
<1> HIDE DEF x
<1>5. Tally(g) = Tally(f) \cup {x}
  BY <1>2, <1>3, <1>4
<1>6. IsFiniteSet(Tally(f))
  BY <1>5, FS_Subset
<1> QED
  BY <1>1, <1>5, <1>6, FS_AddElement

LEMMA ByType ==
  ASSUME NEW r \in Call
  PROVE  SentBy(r) \in Nat /\ WaitBy(r) \in Nat /\ Waiting(r) \in Nat
BY DEF SentBy, WaitBy, Waiting, Call

LEMMA CountTypes ==
  ASSUME Basic
  PROVE  /\ Sends \in [Calls -> Nat] /\ Waits \in [Calls -> Nat]
         /\ Counter \in Nat
         /\ IsFiniteSet(Successes) /\ Cardinality(Successes) \in Nat
<1>1. \A c \in Calls : SentBy(call[c]) \in Nat /\ WaitBy(call[c]) \in Nat
  BY ByType, CallShape
<1>2. IsFiniteSet(Successes)
  BY CallsAssumption, FS_Subset DEF Successes
<1>3. Counter \in Nat
  BY DEF Counter, Basic, Typed, Record
<1> QED
  BY <1>1, <1>2, <1>3, FS_CardinalityType DEF Sends, Waits

\* a step of call c turns the tallies by what it does to the numbers of c
LEMMA TallySteps ==
  ASSUME Basic, Counts, NEW c \in Calls, NEW r, Becomes(c, r),
         SentBy(r) \in {SentBy(call[c]), SentBy(call[c]) + 1},
         WaitBy(r) \in {WaitBy(call[c]) - 1, WaitBy(call[c]), WaitBy(call[c]) + 1}
  PROVE  /\ IsFiniteSet(Tally(Sends)') /\ IsFiniteSet(Tally(Waits)')
         /\ Cardinality(Tally(Sends)') - Cardinality(Tally(Sends)) = SentBy(r) - SentBy(call[c])
         /\ Cardinality(Tally(Waits)') - Cardinality(Tally(Waits)) = WaitBy(r) - WaitBy(call[c])
<1>1. call'[c] = r /\ \A d \in Calls : d # c => call'[d] = call[d]
  BY BecomesKeeps
<1> DEFINE s == Sends  t == Sends'  v == Waits  w == Waits'
<1>2. /\ SentBy(call[c]) \in Nat /\ WaitBy(call[c]) \in Nat
      /\ SentBy(r) \in Nat /\ WaitBy(r) \in Nat
  BY ByType, CallShape DEF Becomes
<1>3. s \in [Calls -> Nat] /\ v \in [Calls -> Nat]
  BY CountTypes
<1>4. /\ t = [d \in Calls |-> SentBy(call'[d])]
      /\ w = [d \in Calls |-> WaitBy(call'[d])]
  BY DEF Sends, Waits, SentBy, WaitBy, Waiting
<1>5. /\ t[c] = SentBy(r) /\ \A d \in Calls : d # c => t[d] = s[d]
      /\ w[c] = WaitBy(r) /\ \A d \in Calls : d # c => w[d] = v[d]
      /\ s[c] = SentBy(call[c]) /\ v[c] = WaitBy(call[c])
  BY <1>1, <1>4 DEF Sends, Waits
<1>6. t \in [Calls -> Nat] /\ w \in [Calls -> Nat]
  <2>1. \A d \in Calls : t[d] \in Nat /\ w[d] \in Nat
    BY <1>2, <1>3, <1>5
  <2> QED
    BY <1>4, <2>1
<1>7. IsFiniteSet(Tally(s)) /\ IsFiniteSet(Tally(v))
  BY DEF Counts
<1>8. Tally(Sends)' = Tally(t) /\ Tally(Waits)' = Tally(w)
  BY DEF Tally
<1> HIDE DEF s, t, v, w
<1>9. /\ IsFiniteSet(Tally(t)) /\ Cardinality(Tally(t)) \in Nat /\ Cardinality(Tally(s)) \in Nat
      /\ Cardinality(Tally(t)) - Cardinality(Tally(s)) = SentBy(r) - SentBy(call[c])
  <2>1. CASE SentBy(r) = SentBy(call[c])
    <3>1. t = s
      BY <1>3, <1>5, <1>6, <2>1
    <3> QED
      BY <1>2, <1>7, <2>1, <3>1, FS_CardinalityType
  <2>2. CASE SentBy(r) = SentBy(call[c]) + 1
    <3>1. IsFiniteSet(Tally(t)) /\ Cardinality(Tally(t)) = Cardinality(Tally(s)) + 1
      BY <1>3, <1>5, <1>6, <1>7, <2>2, TallyUp
    <3> QED
      BY <1>2, <1>7, <2>2, <3>1, FS_CardinalityType
  <2> QED
    BY <2>1, <2>2
<1>10. /\ IsFiniteSet(Tally(w)) /\ Cardinality(Tally(w)) \in Nat /\ Cardinality(Tally(v)) \in Nat
       /\ Cardinality(Tally(w)) - Cardinality(Tally(v)) = WaitBy(r) - WaitBy(call[c])
  <2>1. CASE WaitBy(r) = WaitBy(call[c])
    <3>1. w = v
      BY <1>3, <1>5, <1>6, <2>1
    <3> QED
      BY <1>2, <1>7, <2>1, <3>1, FS_CardinalityType
  <2>2. CASE WaitBy(r) = WaitBy(call[c]) + 1
    <3>1. IsFiniteSet(Tally(w)) /\ Cardinality(Tally(w)) = Cardinality(Tally(v)) + 1
      BY <1>3, <1>5, <1>6, <1>7, <2>2, TallyUp
    <3> QED
      BY <1>2, <1>7, <2>2, <3>1, FS_CardinalityType
  <2>3. CASE WaitBy(r) = WaitBy(call[c]) - 1
    <3>1. v[c] = w[c] + 1 /\ \A d \in Calls : d # c => v[d] = w[d]
      BY <1>2, <1>5, <2>3
    <3>2. IsFiniteSet(Tally(w)) /\ Cardinality(Tally(v)) = Cardinality(Tally(w)) + 1
      BY <1>3, <1>6, <1>7, <3>1, TallyUp
    <3> QED
      BY <1>2, <1>7, <2>3, <3>2, FS_CardinalityType
  <2> QED
    BY <2>1, <2>2, <2>3
<1> QED
  BY <1>8, <1>9, <1>10 DEF s, v

\* what a request adds to the counter
LEMMA ExecutedCount ==
  ASSUME Basic, NEW c \in Calls, call[c].kind \in Kinds, call[c].kind # "delete", Execute(c)
  PROVE  Counter' = Counter + IF call[c].kind = "operate" /\ Status("operate", PolicyOf(c)) = "ok"
                              THEN 1 ELSE 0
<1> DEFINE k == call[c].kind
           st == Status(k, PolicyOf(c))
           w == Written
<1>1. k \in {"put", "get", "exists", "touch", "operate"}
  BY KindsAssumption
<1>2. w \in Record /\ w.count = Counter
  <2>1. store \in Record \cup {NULL} /\ w \in Record
    BY WrittenType DEF Basic, Typed
  <2>2. CASE store = NULL
    BY <2>1, <2>2 DEF Written, Counter
  <2>3. CASE store # NULL
    BY <2>1, <2>3 DEF Written, Counter, Record
  <2> QED
    BY <2>2, <2>3
<1>3. Counter \in Nat
  BY CountTypes
<1>4. CASE st # "ok" \/ k \in {"get", "exists"}
  BY <1>3, <1>4 DEF Execute, Counter
<1>5. CASE st = "ok" /\ k \notin {"get", "exists"}
  <2>1. store' = CASE k = "put"     -> [Written EXCEPT !.by = c]
                   [] k = "touch"   -> Written
                   [] k = "operate" -> [Written EXCEPT !.count = @ + 1]
                   [] k = "delete"  -> NULL
    BY <1>5 DEF Execute
  <2>2. CASE k = "put"
    <3>1. store' = [w EXCEPT !.by = c]
      BY <2>1, <2>2
    <3> HIDE DEF w
    <3>2. store' \in Record /\ store'.count = w.count
      BY <1>2, <3>1 DEF Record
    <3>3. Counter' = w.count
      BY <3>2, Null DEF Counter
    <3> QED
      BY <1>2, <1>3, <2>2, <3>3
  <2>3. CASE k = "touch"
    <3>1. store' = w
      BY <2>1, <2>3
    <3>2. Counter' = w.count
      BY <1>2, <3>1, Null DEF Counter
    <3> QED
      BY <1>2, <1>3, <2>3, <3>2
  <2>4. CASE k = "operate"
    <3>1. store' = [w EXCEPT !.count = w.count + 1]
      BY <2>1, <2>4
    <3> HIDE DEF w
    <3>2. store' \in Record /\ store'.count = w.count + 1
      BY <1>2, <3>1 DEF Record
    <3>3. Counter' = w.count + 1
      BY <3>2, Null DEF Counter
    <3> QED
      BY <1>2, <1>5, <2>4, <3>3
  <2> QED
    BY <1>1, <1>5, <2>2, <2>3, <2>4
<1> QED
  BY <1>4, <1>5

\* the arithmetic of a step: an attempt that is made is on its way, and one that
\* arrives may count
LEMMA CountsKept ==
  ASSUME Basic, Basic', Counts, NEW c \in Calls, NEW r, Becomes(c, r),
         NoDelete' => NoDelete,
         \/ /\ SentBy(r) - SentBy(call[c]) = WaitBy(r) - WaitBy(call[c])
            /\ SentBy(r) \in {SentBy(call[c]), SentBy(call[c]) + 1}
            /\ NoDelete' => Counter' = Counter
         \/ /\ SentBy(r) = SentBy(call[c]) /\ WaitBy(r) = WaitBy(call[c])
            /\ NoDelete' => Counter' = Counter
         \/ /\ SentBy(r) = SentBy(call[c]) /\ WaitBy(r) = WaitBy(call[c]) - 1
            /\ NoDelete' => Counter' \in {Counter, Counter + 1},
         \/ Successes' \subseteq Successes
         \/ Successes' \subseteq Successes \cup {c} /\ (NoDelete' => Counter' = Counter + 1)
  PROVE  Counts'
<1> DEFINE sr == SentBy(r)  sc == SentBy(call[c])  wr == WaitBy(r)  wc == WaitBy(call[c])
<1>1. sr \in Nat /\ sc \in Nat /\ wr \in Nat /\ wc \in Nat
  BY ByType, CallShape DEF Becomes
<1>2. sr \in {sc, sc + 1} /\ wr \in {wc - 1, wc, wc + 1}
  BY <1>1
<1> DEFINE S == Cardinality(Tally(Sends))    W == Cardinality(Tally(Waits))
           S2 == Cardinality(Tally(Sends)')  W2 == Cardinality(Tally(Waits)')
           K == Counter                      K2 == Counter'
           N == Cardinality(Successes)       N2 == Cardinality(Successes')
<1>3. /\ IsFiniteSet(Tally(Sends)') /\ IsFiniteSet(Tally(Waits)')
      /\ S2 - S = sr - sc /\ W2 - W = wr - wc
  BY <1>2, TallySteps
<1>4. S \in Nat /\ S2 \in Nat /\ W \in Nat /\ W2 \in Nat
  BY <1>3, FS_CardinalityType DEF Counts
<1>5. K \in Nat /\ K2 \in Nat /\ N \in Nat /\ N2 \in Nat /\ IsFiniteSet(Successes)
  <2>1. Successes' \subseteq Calls
    BY DEF Successes
  <2>2. IsFiniteSet(Successes')
    BY <2>1, CallsAssumption, FS_Subset
  <2>3. Counter' \in Nat
    BY DEF Counter, Basic, Typed, Record
  <2> QED
    BY <2>2, <2>3, CountTypes, FS_CardinalityType
<1>6. N2 <= N \/ (N2 <= N + 1 /\ (NoDelete' => K2 = K + 1))
  <2>1. CASE Successes' \subseteq Successes
    BY <1>5, <2>1, FS_Subset
  <2>2. CASE Successes' \subseteq Successes \cup {c} /\ (NoDelete' => Counter' = Counter + 1)
    <3> DEFINE T == Successes \cup {c}
    <3>1. IsFiniteSet(T) /\ Cardinality(T) <= N + 1
      BY <1>5, FS_AddElement
    <3>2. N2 <= Cardinality(T) /\ Cardinality(T) \in Nat
      BY <2>2, <3>1, FS_Subset, FS_CardinalityType
    <3> HIDE DEF T, N, N2
    <3>3. N2 <= N + 1
      BY <1>5, <3>1, <3>2
    <3> QED
      BY <2>2, <3>3
  <2> QED
    BY <2>1, <2>2
<1>7. NoDelete => N <= K /\ K + W <= S
  BY DEF Counts
<1>8. NoDelete' => N2 <= K2 /\ K2 + W2 <= S2
  <2> SUFFICES ASSUME NoDelete' PROVE N2 <= K2 /\ K2 + W2 <= S2
    OBVIOUS
  <2>1. NoDelete
    OBVIOUS
  <2>2. \/ sr - sc = wr - wc /\ K2 = K
        \/ sr = sc /\ wr = wc /\ K2 = K
        \/ sr = sc /\ wr = wc - 1 /\ K2 \in {K, K + 1}
    OBVIOUS
  <2>3. K2 \in {K, K + 1} /\ (N2 <= N \/ (N2 <= N + 1 /\ K2 = K + 1))
    BY <1>6, <2>2
  <2>4. N <= K /\ K + W <= S
    BY <1>7, <2>1
  <2> HIDE DEF sr, sc, wr, wc, S, W, S2, W2, K, K2, N, N2
  <2>5. N2 <= K2
    BY <1>5, <2>3, <2>4
  <2>6. K2 + W2 <= S2
    BY <1>1, <1>3, <1>4, <1>5, <2>2, <2>4
  <2> QED
    BY <2>5, <2>6
<1> QED
  BY <1>3, <1>8 DEF Counts

\* a step of call c that does not bring it an "ok" makes no new success
LEMMA NoNewSuccess ==
  ASSUME Basic, NEW c \in Calls, NEW r, Becomes(c, r)
  PROVE  /\ Successes' \subseteq Successes \cup {c}
         /\ r.kind # "operate" \/ r.reply # "ok" \/ c \in Successes => Successes' \subseteq Successes
<1>1. call'[c] = r /\ \A d \in Calls : d # c => call'[d] = call[d]
  BY BecomesKeeps
<1>2. \A d \in Calls : d # c => (d \in Successes' <=> d \in Successes)
  BY <1>1 DEF Successes
<1>3. c \in Successes' => r.kind = "operate" /\ r.reply = "ok"
  BY <1>1 DEF Successes
<1>4. Successes' \subseteq Calls
  BY DEF Successes
<1> QED
  BY <1>2, <1>3, <1>4

\* no step turns a delete into something else
LEMMA NoDeleteBefore ==
  ASSUME Basic, NEW c \in Calls, NEW r, Becomes(c, r),
         r.kind = call[c].kind \/ call[c].kind = NULL
  PROVE  NoDelete' => NoDelete
<1>1. call'[c] = r /\ \A d \in Calls : d # c => call'[d] = call[d]
  BY BecomesKeeps
<1> QED
  BY <1>1, Null DEF NoDelete

LEMMA StepCounts ==
  ASSUME Basic, Counts, [Next]_vars
  PROVE  Counts'
<1>0. Basic'
  BY StepBasic
<1>1. CASE UNCHANGED vars
  BY <1>1 DEF vars, Counts, Sends, Waits, SentBy, WaitBy, Waiting, Tally, NoDelete, Successes, Counter
<1>2. ASSUME NEW c \in Calls, Make(c)
      PROVE  Counts'
  <2>1. PICK k \in Kinds, sent \in {0, 1}, answer \in {NULL, "raise"} :
          /\ sent = 0 => k = "touch"
          /\ sent = 1 => answer = NULL
          /\ Begin(c, k, sent, answer)
    BY <1>2, MakeBegins
  <2>2. PICK r : /\ Becomes(c, r) /\ call[c].kind = NULL /\ r.kind = k /\ r.sent = sent
                 /\ r.stale = 0 /\ r.reply = NULL /\ r.link = IF sent = 0 THEN "none" ELSE "sent"
    BY <2>1, BeginBecomes
  <2>3. SentBy(call[c]) = 0 /\ WaitBy(call[c]) = 0
    BY <2>2, Null DEF SentBy, WaitBy
  <2>4. SentBy(r) = WaitBy(r) /\ SentBy(r) \in {0, 1}
    BY <2>2 DEF SentBy, WaitBy, Waiting
  <2>5. Counter' = Counter
    BY <2>1 DEF Begin, Counter
  <2>6. Successes' \subseteq Successes
    BY <2>2, NoNewSuccess, Null
  <2>7. NoDelete' => NoDelete
    BY <2>2, NoDeleteBefore
  <2>8. SentBy(r) - SentBy(call[c]) = WaitBy(r) - WaitBy(call[c])
    BY <2>3, <2>4
  <2>9. SentBy(r) \in {SentBy(call[c]), SentBy(call[c]) + 1}
    BY <2>3, <2>4
  <2> QED
    BY <1>0, <2>2, <2>5, <2>6, <2>7, <2>8, <2>9, CountsKept
<1>3. ASSUME NEW c \in Calls, Serve(c)
      PROVE  Counts'
  <2>1. PICK r : /\ Becomes(c, r) /\ r.kind = call[c].kind
                 /\ r.sent = call[c].sent /\ r.stale = call[c].stale
                 /\ call[c].link = "sent" /\ r.link = "replied"
                 /\ r.reply = Status(call[c].kind, PolicyOf(c))
    BY <1>3, ServeBecomes
  <2>2. NoDelete' => NoDelete
    BY <2>1, NoDeleteBefore
  <2>3. NoDelete' => Counter' = Counter + IF call[c].kind = "operate" /\ r.reply = "ok" THEN 1 ELSE 0
    BY <1>3, <2>1, <2>2, Known, ExecutedCount DEF Serve, NoDelete
  <2>4. SentBy(r) = SentBy(call[c])
    BY <2>1 DEF SentBy
  <2>5. Counter \in Nat /\ call[c] \in Call
    BY CountTypes, CallShape
  <2>6. CASE call[c].kind = "operate"
    <3>1. WaitBy(r) = WaitBy(call[c]) - 1
      BY <2>1, <2>5, <2>6 DEF WaitBy, Waiting, Call
    <3>2. NoDelete' => Counter' \in {Counter, Counter + 1}
      BY <2>3, <2>5
    <3>3. CASE r.reply = "ok"
      <4>1. Successes' \subseteq Successes \cup {c} /\ (NoDelete' => Counter' = Counter + 1)
        BY <2>1, <2>3, <2>6, <3>3, NoNewSuccess
      <4> QED
        BY <1>0, <2>1, <2>2, <2>4, <3>1, <3>2, <4>1, CountsKept
    <3>4. CASE r.reply # "ok"
      <4>1. Successes' \subseteq Successes
        BY <2>1, <3>4, NoNewSuccess
      <4> QED
        BY <1>0, <2>1, <2>2, <2>4, <3>1, <3>2, <4>1, CountsKept
    <3> QED
      BY <3>3, <3>4
  <2>7. CASE call[c].kind # "operate"
    <3>1. WaitBy(r) = WaitBy(call[c])
      BY <2>1, <2>7 DEF WaitBy
    <3>2. NoDelete' => Counter' = Counter
      BY <2>3, <2>5, <2>7
    <3>3. Successes' \subseteq Successes
      BY <2>1, <2>7, NoNewSuccess
    <3> QED
      BY <1>0, <2>1, <2>2, <2>4, <3>1, <3>2, <3>3, CountsKept
  <2> QED
    BY <2>6, <2>7
<1>4. ASSUME NEW c \in Calls, ServeLate(c)
      PROVE  Counts'
  <2>1. PICK r : /\ Becomes(c, r) /\ r.kind = call[c].kind /\ call[c].stale > 0
                 /\ r.sent = call[c].sent /\ r.stale = call[c].stale - 1
                 /\ r.link = call[c].link /\ r.reply = call[c].reply
    BY <1>4, ServeLateBecomes
  <2>2. NoDelete' => NoDelete
    BY <2>1, NoDeleteBefore
  <2>3. Counter \in Nat /\ call[c] \in Call
    BY CountTypes, CallShape
  <2>4. NoDelete' => Counter' \in {Counter, Counter + 1}
                     /\ (call[c].kind # "operate" => Counter' = Counter)
    BY <1>4, <2>2, <2>3, Known, ExecutedCount DEF ServeLate, NoDelete
  <2>5. SentBy(r) = SentBy(call[c])
    BY <2>1 DEF SentBy
  <2>6. Successes' \subseteq Successes
    BY <2>1, NoNewSuccess DEF Successes
  <2>7. CASE call[c].kind = "operate"
    <3>1. WaitBy(r) = WaitBy(call[c]) - 1
      BY <2>1, <2>3, <2>7 DEF WaitBy, Waiting, Call
    <3> QED
      BY <1>0, <2>1, <2>2, <2>4, <2>5, <2>6, <3>1, CountsKept
  <2>8. CASE call[c].kind # "operate"
    <3>1. WaitBy(r) = WaitBy(call[c])
      BY <2>1, <2>8 DEF WaitBy
    <3> QED
      BY <1>0, <2>1, <2>2, <2>4, <2>5, <2>6, <2>8, <3>1, CountsKept
  <2> QED
    BY <2>7, <2>8
<1>5. ASSUME NEW c \in Calls, Retry(c)
      PROVE  Counts'
  <2>1. PICK r : /\ Becomes(c, r) /\ r.kind = call[c].kind /\ r.reply = NULL
                 /\ r.sent = call[c].sent + 1 /\ r.link = "sent"
                 /\ r.stale = IF call[c].link = "sent" THEN call[c].stale + 1 ELSE call[c].stale
    BY <1>5, RetryBecomes
  <2>2. NoDelete' => NoDelete
    BY <2>1, NoDeleteBefore
  <2>3. call[c] \in Call
    BY CallShape
  <2>4. /\ SentBy(r) - SentBy(call[c]) = WaitBy(r) - WaitBy(call[c])
        /\ SentBy(r) \in {SentBy(call[c]), SentBy(call[c]) + 1}
    BY <2>1, <2>3 DEF SentBy, WaitBy, Waiting, Call
  <2>5. Counter' = Counter
    BY <1>5 DEF Retry, Counter
  <2>6. Successes' \subseteq Successes
    BY <2>1, NoNewSuccess, Null
  <2> QED
    BY <1>0, <2>1, <2>2, <2>4, <2>5, <2>6, CountsKept
<1>6. ASSUME NEW c \in Calls, Timeout(c) \/ Return(c)
      PROVE  Counts'
  <2>1. call[c] \in Call
    BY CallShape
  <2>2. PICK r : /\ Becomes(c, r) /\ r.kind = call[c].kind /\ r.sent = call[c].sent
                 /\ Waiting(r) = Waiting(call[c])
                 /\ r.reply \in {NULL, call[c].reply}
    <3>1. CASE Timeout(c)
      <4>1. PICK r : /\ Becomes(c, r) /\ r.kind = call[c].kind /\ r.sent = call[c].sent
                     /\ r.link = "none" /\ r.reply = NULL
                     /\ r.stale = IF call[c].link = "sent" THEN call[c].stale + 1 ELSE call[c].stale
        BY <3>1, TimeoutBecomes
      <4> QED
        BY <2>1, <4>1 DEF Waiting, Call
    <3>2. CASE Return(c)
      <4>1. PICK r : /\ Becomes(c, r) /\ r.kind = call[c].kind /\ r.sent = call[c].sent
                     /\ r.stale = call[c].stale /\ r.reply = call[c].reply
                     /\ call[c].link = "replied" /\ r.link = "none"
        BY <3>2, ReturnBecomes
      <4> QED
        BY <2>1, <4>1 DEF Waiting, Call
    <3> QED
      BY <1>6, <3>1, <3>2
  <2>3. NoDelete' => NoDelete
    BY <2>2, NoDeleteBefore
  <2>4. SentBy(r) = SentBy(call[c]) /\ WaitBy(r) = WaitBy(call[c])
    BY <2>2 DEF SentBy, WaitBy
  <2>5. Counter' = Counter
    BY <1>6 DEF Timeout, Return, Counter
  <2>6. Successes' \subseteq Successes
    BY <2>2, NoNewSuccess, Null DEF Successes
  <2> QED
    BY <1>0, <2>2, <2>3, <2>4, <2>5, <2>6, CountsKept
<1> QED
  BY <1>1, <1>2, <1>3, <1>4, <1>5, <1>6 DEF Next, End

LEMMA InitCounts == Init => Counts
<1> SUFFICES ASSUME Init PROVE Counts
  OBVIOUS
<1>1. \A c \in Calls : SentBy(call[c]) = 0 /\ WaitBy(call[c]) = 0
  BY Null DEF Init, SentBy, WaitBy
<1>2. Sends = [c \in Calls |-> 0] /\ Waits = [c \in Calls |-> 0]
  BY <1>1 DEF Sends, Waits
<1>3. Tally([c \in Calls |-> 0]) = {}
  BY DEF Tally
<1>4. Successes = {}
  BY Null DEF Init, Successes
<1>5. Counter = 0
  BY DEF Init, Counter
<1> QED
  BY <1>2, <1>3, <1>4, <1>5, FS_EmptySet DEF Counts

\* While nothing is removed, the counter and the requests still on their way are
\* together no more than the attempts, and every success has counted.
THEOREM CountsInvariance == Spec => [](Basic /\ Counts)
<1>1. Init => Basic /\ Counts
  BY InitBasic, InitCounts
<1>2. Basic /\ Counts /\ [Next]_vars => (Basic /\ Counts)'
  BY StepBasic, StepCounts
<1> QED
  BY <1>1, <1>2, PTL DEF Spec

\* The counter is at least the operates that answered true and at most the attempts
\* of all operates, whatever is repeated, lost, refused or late.
THEOREM CounterBounded == Spec => []CounterBounds
<1>1. ASSUME Basic, Counts PROVE CounterBounds
  <2> DEFINE operates == {c \in Calls : call[c].kind = "operate"}
             attempts == UNION {{c} \X (1..call[c].sent) : c \in operates}
             true     == Answered("operate", "true")
  <2> SUFFICES ASSUME NoDelete
               PROVE  Cardinality(true) <= Counter /\ Counter <= Cardinality(attempts)
    BY DEF CounterBounds, Counter
  <2>1. Sends \in [Calls -> Nat] /\ Counter \in Nat /\ IsFiniteSet(Successes)
        /\ Cardinality(Successes) \in Nat
    BY <1>1, CountTypes
  <2>2. attempts = Tally(Sends)
    <3>1. ASSUME NEW x \in attempts PROVE x \in Tally(Sends)
      <4>1. PICK c \in operates : x \in {c} \X (1..call[c].sent)
        OBVIOUS
      <4>2. c \in Calls /\ Sends[c] = call[c].sent
        BY DEF Sends, SentBy
      <4> QED
        BY <4>1, <4>2 DEF Tally
    <3>2. ASSUME NEW x \in Tally(Sends) PROVE x \in attempts
      <4>1. PICK c \in Calls : x \in {c} \X (1..Sends[c])
        BY DEF Tally
      <4>2. c \in operates /\ Sends[c] = call[c].sent
        BY <4>1 DEF Sends, SentBy
      <4> QED
        BY <4>1, <4>2
    <3> QED
      BY <3>1, <3>2
  <2>3. true \subseteq Successes
    BY <1>1 DEF Basic, Sane, Answered, Successes
  <2>4. Cardinality(true) <= Cardinality(Successes) /\ Cardinality(true) \in Nat
    BY <2>1, <2>3, FS_Subset, FS_CardinalityType
  <2>5. /\ Cardinality(Successes) <= Counter
        /\ Counter + Cardinality(Tally(Waits)) <= Cardinality(Tally(Sends))
        /\ Cardinality(Tally(Waits)) \in Nat /\ Cardinality(Tally(Sends)) \in Nat
    BY <1>1, FS_CardinalityType DEF Counts
  <2> HIDE DEF true, attempts
  <2> QED
    BY <2>1, <2>2, <2>4, <2>5
<1> QED
  BY <1>1, CountsInvariance, PTL

-----------------------------------------------------------------------------
(* One creator *)

LEMMA CreatorsFinite ==
  ASSUME Basic
  PROVE  IsFiniteSet(Creators) /\ Cardinality(Creators) \in Nat
<1>1. IsFiniteSet(Creators)
  BY CallsAssumption, FS_Subset DEF Creators
<1> QED
  BY <1>1, FS_CardinalityType

\* a step of call c that gives it no new "ok", or an "ok" to something else than a
\* put that may only create, makes no new creator
LEMMA NoNewCreator ==
  ASSUME Basic, NEW c \in Calls, NEW r, Becomes(c, r),
         c \in Creators' => c \in Creators
  PROVE  Creators' \subseteq Creators
<1>1. \A d \in Calls : d # c => call'[d] = call[d]
  BY BecomesKeeps
<1>2. ASSUME NEW d \in Calls, d # c, d \in Creators' PROVE d \in Creators
  BY <1>1, <1>2 DEF Creators, Asked
<1> QED
  BY <1>2 DEF Creators

LEMMA OneNewCreator ==
  ASSUME Basic, NEW c \in Calls, NEW r, Becomes(c, r)
  PROVE  Creators' \subseteq Creators \cup {c}
<1>1. \A d \in Calls : d # c => call'[d] = call[d]
  BY BecomesKeeps
<1>2. ASSUME NEW d \in Calls, d # c, d \in Creators' PROVE d \in Creators
  BY <1>1, <1>2 DEF Creators, Asked
<1> QED
  BY <1>2 DEF Creators

\* the count is kept by a step without a new creator that takes no record away
\* uncounted
LEMMA CountKept ==
  ASSUME Basic, Counted, Creators' \subseteq Creators,
         \/ removed' = removed /\ (store # NULL => store' # NULL)
         \/ removed' = removed + 1
  PROVE  Counted'
<1>1. Cardinality(Creators') <= Cardinality(Creators) /\ Cardinality(Creators') \in Nat
  BY CreatorsFinite, FS_Subset, FS_CardinalityType
<1>2. Cardinality(Creators) \in Nat /\ removed \in Nat
  BY CreatorsFinite DEF Basic, Typed
<1> QED
  BY <1>1, <1>2 DEF Counted

LEMMA StepCounted ==
  ASSUME Basic, Counted, [Next]_vars
  PROVE  Counted'
<1>1. CASE UNCHANGED vars
  BY <1>1 DEF vars, Counted, Creators, Asked
<1>2. ASSUME NEW c \in Calls, Make(c)
      PROVE  Counted'
  <2>1. PICK k \in Kinds, sent \in {0, 1}, answer \in {NULL, "raise"} :
          /\ sent = 0 => k = "touch"
          /\ sent = 1 => answer = NULL
          /\ Begin(c, k, sent, answer)
    BY <1>2, MakeBegins
  <2>2. PICK r : Becomes(c, r) /\ r.reply = NULL
    BY <2>1, BeginBecomes
  <2>3. c \notin Creators'
    BY <2>2, BecomesKeeps, Null DEF Creators
  <2>4. UNCHANGED <<store, removed>>
    BY <2>1 DEF Begin
  <2> QED
    BY <2>2, <2>3, <2>4, NoNewCreator, CountKept
<1>3. ASSUME NEW c \in Calls, Serve(c)
      PROVE  Counted'
  <2>1. PICK r : /\ Becomes(c, r)
                 /\ r.kind = call[c].kind /\ r.options = call[c].options
                 /\ r.reply = Status(call[c].kind, PolicyOf(c))
    BY <1>3, ServeBecomes
  <2>2. Unwritten(c) \/ Removes(c) \/ Writes(c)
    BY <1>3, Known, Executed DEF Serve
  <2>3. call'[c] = r /\ Asked(c)' = Asked(c)
    BY <2>1, BecomesKeeps DEF Asked
  <2>4. CASE c \in Creators'
    <3>1. /\ call[c].kind = "put" /\ Asked(c) = "create"
          /\ Status(call[c].kind, PolicyOf(c)) = "ok"
      BY <2>1, <2>3, <2>4 DEF Creators
    <3>2. store = NULL
      BY <3>1, PolicyExists DEF Status
    <3>3. store' \in Record /\ store' # NULL /\ removed' = removed
      BY <2>2, <3>1, Null DEF Unwritten, Removes, Writes
    <3>4. Cardinality(Creators') <= Cardinality(Creators) + 1
      <4>1. IsFiniteSet(Creators) /\ IsFiniteSet(Creators \cup {c})
        BY CreatorsFinite, FS_AddElement
      <4>2. Cardinality(Creators \cup {c}) <= Cardinality(Creators) + 1
        BY <4>1, CreatorsFinite, FS_AddElement
      <4>3. IsFiniteSet(Creators') /\ Cardinality(Creators') <= Cardinality(Creators \cup {c})
        BY <2>1, <4>1, OneNewCreator, FS_Subset
      <4>4. Cardinality(Creators') \in Nat /\ Cardinality(Creators \cup {c}) \in Nat
            /\ Cardinality(Creators) \in Nat
        BY <4>1, <4>3, FS_CardinalityType
      <4> QED
        BY <4>2, <4>3, <4>4
    <3>5. Cardinality(Creators) <= removed
      BY <3>2, CreatorsFinite DEF Counted, Basic, Typed
    <3>6. Cardinality(Creators') \in Nat /\ Cardinality(Creators) \in Nat /\ removed \in Nat
      BY <2>1, CreatorsFinite, OneNewCreator, FS_AddElement, FS_Subset, FS_CardinalityType DEF Basic, Typed
    <3> QED
      BY <3>3, <3>4, <3>5, <3>6 DEF Counted
  <2>5. CASE c \notin Creators'
    <3>1. Creators' \subseteq Creators
      BY <2>1, <2>5, NoNewCreator
    <3> QED
      BY <2>2, <3>1, CountKept, Null DEF Unwritten, Removes, Writes
  <2> QED
    BY <2>4, <2>5
<1>4. ASSUME NEW c \in Calls, ServeLate(c)
      PROVE  Counted'
  <2>1. PICK r : /\ Becomes(c, r)
                 /\ r.kind = call[c].kind /\ r.options = call[c].options
                 /\ r.reply = call[c].reply
    BY <1>4, ServeLateBecomes
  <2>2. Unwritten(c) \/ Removes(c) \/ Writes(c)
    BY <1>4, Known, Executed DEF ServeLate
  <2>3. Creators' \subseteq Creators
    BY <2>1, BecomesKeeps, NoNewCreator DEF Creators, Asked
  <2> QED
    BY <2>2, <2>3, CountKept, Null DEF Unwritten, Removes, Writes
<1>5. ASSUME NEW c \in Calls, End(c)
      PROVE  Counted'
  <2>1. UNCHANGED <<store, removed>>
    BY <1>5 DEF End, Retry, Timeout, Return
  <2>2. CASE Retry(c) \/ Timeout(c)
    <3>1. PICK r : Becomes(c, r) /\ r.reply = NULL
      BY <2>2, RetryBecomes, TimeoutBecomes
    <3>2. c \notin Creators'
      BY <3>1, BecomesKeeps, Null DEF Creators
    <3> QED
      BY <2>1, <3>1, <3>2, NoNewCreator, CountKept
  <2>3. CASE Return(c)
    <3>1. PICK r : /\ Becomes(c, r) /\ r.kind = call[c].kind
                   /\ r.options = call[c].options /\ r.reply = call[c].reply
      BY <2>3, ReturnBecomes
    <3>2. Creators' \subseteq Creators
      BY <3>1, BecomesKeeps, NoNewCreator DEF Creators, Asked
    <3> QED
      BY <2>1, <3>2, CountKept
  <2> QED
    BY <1>5, <2>2, <2>3 DEF End
<1> QED
  BY <1>1, <1>2, <1>3, <1>4, <1>5 DEF Next

LEMMA InitCounted == Init => Counted
<1> SUFFICES ASSUME Init PROVE Counted
  OBVIOUS
<1>1. Creators = {}
  BY Null DEF Init, Creators
<1> QED
  BY <1>1, FS_EmptySet DEF Init, Counted

\* The fields of a call go together and the creators are counted.
THEOREM CountInvariance == Spec => [](Basic /\ Counted)
<1>1. Init => Basic /\ Counted
  BY InitBasic, InitCounted
<1>2. Basic /\ Counted /\ [Next]_vars => (Basic /\ Counted)'
  BY StepBasic, StepCounted
<1> QED
  BY <1>1, <1>2, PTL DEF Spec

\* Between two removals at most one put that may only create answers true, however
\* many there are, whatever is repeated, lost or late.
THEOREM CreatorAlone == Spec => []OneCreator
<1>1. ASSUME Basic, Counted PROVE OneCreator
  <2> DEFINE true == {c \in Answered("put", "true") : Asked(c) = "create"}
  <2>1. true \subseteq Creators
    BY <1>1 DEF Basic, Sane, Answered, Creators
  <2>2. IsFiniteSet(Creators) /\ Cardinality(Creators) \in Nat /\ removed \in Nat
    BY <1>1, CreatorsFinite DEF Basic, Typed
  <2>3. Cardinality(true) <= Cardinality(Creators) /\ Cardinality(true) \in Nat
    BY <2>1, <2>2, FS_Subset, FS_CardinalityType
  <2>4. Cardinality(Creators) <= removed + 1
    BY <1>1, <2>2 DEF Counted
  <2> QED
    BY <2>2, <2>3, <2>4 DEF OneCreator
<1> QED
  BY <1>1, CountInvariance, PTL

-----------------------------------------------------------------------------
(* Reading what was written *)

SeenOver == \A c \in Calls : \A d \in seen[c] : Over(d)

\* every call so far was answered at its first attempt
Firsts == \A c \in Calls : call[c].sent <= 1 /\ (Over(c) /\ call[c].sent = 1 => call[c].reply # NULL)

\* While that is so no request is late; the server holds the value of a put that was
\* not over when one it has executed was made, and a get has read such a value.
Done(d) == call[d].kind = "put" /\ call[d].reply = "ok"
Settled ==
  /\ \A c \in Calls : call[c].stale = 0
  /\ \A d \in Calls : Done(d) => store # NULL /\ store.by # NULL /\ store.by \notin seen[d]
  /\ \A g \in Calls : call[g].kind = "get" /\ call[g].reply # NULL =>
       \A d \in seen[g] : Done(d) => call[g].got # NULL /\ call[g].got \notin seen[d]

ReadInv == SeenOver /\ (NoDelete /\ Firsts => Settled)

\* what was answered before stays as it was answered
LEMMA StepSeen ==
  ASSUME Basic, SeenOver, [Next]_vars
  PROVE  SeenOver'
<1>0. call \in [Calls -> Call] /\ seen \in [Calls -> SUBSET Calls]
  BY DEF Basic, Typed
<1>1. CASE UNCHANGED vars
  BY <1>1 DEF vars, SeenOver, Over
<1>2. ASSUME NEW c \in Calls, NEW r, Becomes(c, r), call[c].answer # NULL => r.answer # NULL,
             \A d \in Calls : seen'[d] = seen[d] \/ seen'[d] = {e \in Calls : Over(e)}
      PROVE  SeenOver'
  <2>1. call'[c] = r /\ \A d \in Calls : d # c => call'[d] = call[d]
    BY <1>2, BecomesKeeps
  <2>2. \A d \in Calls : Over(d) => Over(d)'
    BY <1>2, <2>1 DEF Over
  <2>3. \A d \in Calls : \A e \in seen'[d] : e \in Calls /\ Over(e)
    BY <1>0, <1>2 DEF SeenOver
  <2> QED
    BY <2>2, <2>3 DEF SeenOver
<1>3. ASSUME NEW c \in Calls, Make(c)
      PROVE  SeenOver'
  <2>1. PICK k \in Kinds, sent \in {0, 1}, answer \in {NULL, "raise"} :
          /\ sent = 0 => k = "touch"
          /\ sent = 1 => answer = NULL
          /\ Begin(c, k, sent, answer)
    BY <1>3, MakeBegins
  <2>2. PICK r : Becomes(c, r) /\ call[c].kind = NULL
    BY <2>1, BeginBecomes
  <2>3. call[c].answer = NULL
    BY <2>2, CallShape DEF Sane
  <2>4. \A d \in Calls : seen'[d] = seen[d] \/ seen'[d] = {e \in Calls : Over(e)}
    BY <1>0, <2>1 DEF Begin
  <2> QED
    BY <1>2, <2>2, <2>3, <2>4
<1>4. ASSUME NEW c \in Calls, Serve(c) \/ ServeLate(c) \/ End(c)
      PROVE  SeenOver'
  <2>1. UNCHANGED seen
    BY <1>4 DEF Serve, ServeLate, End, Retry, Timeout, Return
  <2>2. PICK r : Becomes(c, r) /\ (r.answer = call[c].answer \/ call[c].answer = NULL)
    BY <1>4, ServeBecomes, ServeLateBecomes, RetryBecomes, TimeoutBecomes, ReturnBecomes DEF End
  <2> QED
    BY <1>2, <2>1, <2>2
<1> QED
  BY <1>1, <1>3, <1>4 DEF Next

\* a step of call c that leaves its kind, or gives it one, and its answered attempt
\* is settled only if the state before was
LEMMA StillSettled ==
  ASSUME Basic, NoDelete', Firsts', NEW c \in Calls, NEW r, Becomes(c, r),
         r.kind = call[c].kind \/ call[c].kind = NULL,
         call[c].sent <= r.sent,
         Over(c) => r.answer # NULL /\ r.sent = call[c].sent /\ r.reply = call[c].reply
  PROVE  NoDelete /\ Firsts
<1>1. call'[c] = r /\ \A d \in Calls : d # c => call'[d] = call[d]
  BY BecomesKeeps
<1>2. r \in Call /\ call[c] \in Call /\ Sane(call[c])
  BY CallShape DEF Becomes
<1>3. NoDelete
  BY <1>1, Null DEF NoDelete
<1>4. ASSUME NEW d \in Calls
      PROVE  call[d].sent <= 1 /\ (Over(d) /\ call[d].sent = 1 => call[d].reply # NULL)
  <2>1. call'[d].sent <= 1 /\ (call'[d].answer # NULL /\ call'[d].sent = 1 => call'[d].reply # NULL)
    BY DEF Firsts, Over
  <2>2. CASE d # c
    BY <1>1, <2>1, <2>2 DEF Over
  <2>3. CASE d = c
    BY <1>1, <1>2, <2>1, <2>3 DEF Over, Call
  <2> QED
    BY <2>2, <2>3
<1> QED
  BY <1>3, <1>4 DEF Firsts

LEMMA MakeSettled ==
  ASSUME Basic, ReadInv, NoDelete', Firsts', NEW c \in Calls, Make(c)
  PROVE  Settled'
<1>1. PICK k \in Kinds, sent \in {0, 1}, answer \in {NULL, "raise"} :
        /\ sent = 0 => k = "touch"
        /\ sent = 1 => answer = NULL
        /\ Begin(c, k, sent, answer)
  BY MakeBegins
<1>2. PICK r : /\ Becomes(c, r) /\ call[c].kind = NULL
               /\ r.kind = k /\ r.answer = answer /\ r.sent = sent /\ r.stale = 0 /\ r.reply = NULL
  BY <1>1, BeginBecomes
<1>3. Sane(call[c]) /\ call[c].sent = 0 /\ call[c].answer = NULL
  BY <1>2, CallShape DEF Sane
<1>4. NoDelete /\ Firsts
  <2>1. ~Over(c) /\ call[c].sent <= r.sent
    BY <1>2, <1>3 DEF Over
  <2> QED
    BY <1>2, <2>1, StillSettled
<1>5. Settled /\ SeenOver
  BY <1>4 DEF ReadInv
<1>6. call'[c] = r /\ \A d \in Calls : d # c => call'[d] = call[d]
  BY <1>2, BecomesKeeps
<1>7. store' = store /\ \A d \in Calls : d # c => seen'[d] = seen[d]
  BY <1>1 DEF Begin, Basic, Typed
<1>8. ~Done(c)'
  BY <1>2, <1>6, Null DEF Done
<1>9. \A d \in Calls : Done(d)' => Done(d) /\ d # c
  BY <1>6, <1>8 DEF Done
<1>10. \A d \in Calls : Done(d)' => store' # NULL /\ store'.by # NULL /\ store'.by \notin seen'[d]
  BY <1>5, <1>7, <1>9 DEF Settled
<1>11. ASSUME NEW g \in Calls, call'[g].kind = "get", call'[g].reply # NULL,
              NEW d \in seen'[g], Done(d)'
       PROVE  call'[g].got # NULL /\ call'[g].got \notin seen'[d]
  <2>1. g # c /\ call'[g] = call[g] /\ seen'[g] = seen[g]
    BY <1>2, <1>6, <1>7, <1>11
  <2>2. d \in Calls
    BY <2>1, <1>11 DEF Basic, Typed
  <2>3. Done(d) /\ d # c /\ seen'[d] = seen[d]
    BY <1>7, <1>9, <1>11, <2>2
  <2> QED
    BY <1>5, <1>11, <2>1, <2>3 DEF Settled
<1>12. \A d \in Calls : call'[d].stale = 0
  BY <1>2, <1>5, <1>6 DEF Settled
<1> QED
  BY <1>10, <1>11, <1>12 DEF Settled

LEMMA ServeSettled ==
  ASSUME Basic, ReadInv, NoDelete', Firsts', NEW c \in Calls, Serve(c)
  PROVE  Settled'
<1>1. PICK r : /\ Becomes(c, r)
               /\ r.kind = call[c].kind /\ r.options = call[c].options /\ r.answer = call[c].answer
               /\ r.sent = call[c].sent /\ r.stale = call[c].stale
               /\ r.reply = Status(call[c].kind, PolicyOf(c))
               /\ r.got = IF call[c].kind = "get" /\ store # NULL THEN store.by ELSE NULL
  BY ServeBecomes
<1>2. call[c].link = "sent" /\ call[c].answer = NULL /\ call[c].reply = NULL /\ ~Over(c)
  BY CallShape DEF Serve, Sane, Over
<1>3. NoDelete /\ Firsts
  BY <1>1, <1>2, CallShape, StillSettled DEF Call
<1>4. Settled /\ SeenOver
  BY <1>3 DEF ReadInv
<1>5. call'[c] = r /\ \A d \in Calls : d # c => call'[d] = call[d]
  BY <1>1, BecomesKeeps
<1>6. seen' = seen /\ seen \in [Calls -> SUBSET Calls] /\ \A d \in Calls : c \notin seen[d]
  BY <1>2, <1>4 DEF Serve, Basic, Typed, SeenOver
<1>7. Unwritten(c) \/ Writes(c)
  BY <1>3, Known, Executed DEF Serve, NoDelete, Removes
<1>8. \A d \in Calls : d # c => (Done(d)' <=> Done(d))
  BY <1>5 DEF Done
<1>9. ASSUME NEW d \in Calls, Done(d)'
      PROVE  store' # NULL /\ store'.by # NULL /\ store'.by \notin seen'[d]
  <2>1. CASE call[c].kind = "put" /\ Writes(c)
    BY <1>6, <2>1, Null DEF Writes
  <2>2. CASE d # c /\ ((call[c].kind # "put" /\ Writes(c)) \/ Unwritten(c))
    <3>1. store # NULL /\ store.by # NULL /\ store.by \notin seen[d]
      BY <1>4, <1>8, <1>9, <2>2 DEF Settled
    <3> QED
      BY <1>6, <2>2, <3>1, Null DEF Writes, Unwritten
  <2>3. d = c => call[c].kind = "put" /\ ~Unwritten(c)
    BY <1>1, <1>5, <1>9 DEF Done, Unwritten
  <2> QED
    BY <1>7, <2>1, <2>2, <2>3
<1>10. ASSUME NEW g \in Calls, call'[g].kind = "get", call'[g].reply # NULL,
              NEW d \in seen'[g], Done(d)'
       PROVE  call'[g].got # NULL /\ call'[g].got \notin seen'[d]
  <2>1. d \in seen[g] /\ d \in Calls /\ d # c /\ Done(d)
    BY <1>6, <1>8, <1>10
  <2>2. CASE g # c
    BY <1>4, <1>5, <1>6, <1>10, <2>1, <2>2 DEF Settled
  <2>3. CASE g = c
    <3>1. store # NULL /\ store.by # NULL /\ store.by \notin seen[d]
      BY <1>4, <2>1 DEF Settled
    <3> QED
      BY <1>1, <1>5, <1>6, <1>10, <2>3, <3>1
  <2> QED
    BY <2>2, <2>3
<1>11. \A d \in Calls : call'[d].stale = 0
  BY <1>1, <1>4, <1>5 DEF Settled
<1> QED
  BY <1>9, <1>10, <1>11 DEF Settled

LEMMA LateUnsettled ==
  ASSUME Basic, ReadInv, NoDelete', Firsts', NEW c \in Calls, ServeLate(c)
  PROVE  FALSE
<1>1. PICK r : /\ Becomes(c, r) /\ call[c].stale > 0
               /\ r.kind = call[c].kind /\ r.answer = call[c].answer
               /\ r.sent = call[c].sent /\ r.reply = call[c].reply
  BY ServeLateBecomes
<1>2. NoDelete /\ Firsts
  BY <1>1, CallShape, StillSettled DEF Over, Call
<1> QED
  BY <1>1, <1>2 DEF ReadInv, Settled

LEMMA EndSettled ==
  ASSUME Basic, ReadInv, NoDelete', Firsts', NEW c \in Calls, End(c)
  PROVE  Settled'
<1>1. CASE Retry(c)
  <2>1. PICK r : Becomes(c, r) /\ r.sent = call[c].sent + 1 /\ call[c].sent > 0
    BY <1>1, RetryBecomes
  <2>2. call'[c] = r /\ call[c].sent \in Nat
    BY <2>1, BecomesKeeps, CallShape DEF Call
  <2> QED
    BY <2>1, <2>2 DEF Firsts
<1>2. CASE Timeout(c)
  <2>1. PICK r : Becomes(c, r) /\ r.answer = "raise" /\ r.sent > 0 /\ r.reply = NULL
                 /\ r.sent = call[c].sent
    BY <1>2, TimeoutBecomes
  <2>2. call'[c] = r /\ r.sent \in Nat
    BY <2>1, BecomesKeeps, CallShape DEF Call
  <2>3. r.sent = 1 /\ r.answer # NULL
    BY <2>1, <2>2, Null DEF Firsts
  <2> QED
    BY <2>1, <2>2, <2>3 DEF Firsts, Over
<1>3. CASE Return(c)
  <2>1. PICK r : /\ Becomes(c, r)
                 /\ r.kind = call[c].kind /\ call[c].answer = NULL
                 /\ r.sent = call[c].sent /\ r.stale = call[c].stale
                 /\ r.reply = call[c].reply /\ r.got = call[c].got
    BY <1>3, ReturnBecomes
  <2>2. NoDelete /\ Firsts
    BY <2>1, CallShape, StillSettled DEF Over, Call
  <2>3. Settled /\ UNCHANGED <<store, seen>> /\ seen \in [Calls -> SUBSET Calls]
    BY <1>3, <2>2 DEF ReadInv, Return, Basic, Typed
  <2>4. call'[c] = r /\ \A d \in Calls : d # c => call'[d] = call[d]
    BY <2>1, BecomesKeeps
  <2>5. \A d \in Calls : /\ call'[d].kind = call[d].kind /\ call'[d].reply = call[d].reply
                         /\ call'[d].got = call[d].got /\ call'[d].stale = call[d].stale
    BY <2>1, <2>4
  <2>6. \A d \in Calls : Done(d)' <=> Done(d)
    BY <2>5 DEF Done
  <2>7. \A g \in Calls : \A d \in seen[g] : d \in Calls
    BY <2>3
  <2> QED
    BY <2>3, <2>5, <2>6, <2>7 DEF Settled
<1> QED
  BY <1>1, <1>2, <1>3 DEF End

LEMMA StepRead ==
  ASSUME Basic, ReadInv, [Next]_vars
  PROVE  ReadInv'
<1>1. SeenOver'
  BY StepSeen DEF ReadInv
<1>2. ASSUME NoDelete', Firsts' PROVE Settled'
  <2>1. CASE UNCHANGED vars
    BY <1>2, <2>1 DEF vars, ReadInv, NoDelete, Firsts, Over, Settled, Done
  <2>2. CASE Next
    BY <1>2, <2>2, MakeSettled, ServeSettled, LateUnsettled, EndSettled DEF Next
  <2> QED
    BY <2>1, <2>2
<1> QED
  BY <1>1, <1>2 DEF ReadInv

LEMMA InitRead == Init => ReadInv
BY Null DEF Init, ReadInv, SeenOver, Settled, Done

\* A call sees only calls that are over, and while every call is answered at its
\* first attempt the server holds no value that was overwritten.
THEOREM ReadInvariance == Spec => [](Basic /\ ReadInv)
<1>1. Init => Basic /\ ReadInv
  BY InitBasic, InitRead
<1>2. Basic /\ ReadInv /\ [Next]_vars => (Basic /\ ReadInv)'
  BY StepBasic, StepRead
<1> QED
  BY <1>1, <1>2, PTL DEF Spec

\* When every call so far was answered at its first attempt and nothing is removed, a
\* get reads no value that was overwritten before it was made.
THEOREM ReadsSettled == Spec => []SettledReads
<1>1. ASSUME Basic, ReadInv PROVE SettledReads
  <2> SUFFICES ASSUME NoDelete,
                      \A c \in Calls : /\ call[c].sent <= 1
                                       /\ Over(c) /\ call[c].sent = 1 => call[c].reply # NULL,
                      NEW g \in Calls, call[g].kind = "get", Over(g),
                      NEW d \in seen[g] \cap Answered("put", "true")
               PROVE  call[g].got # NULL /\ call[g].got \notin seen[d]
    BY DEF SettledReads
  <2>1. Settled
    BY <1>1 DEF ReadInv, Firsts
  <2>2. call[g].reply # NULL
    <3>1. call[g].sent \in Nat /\ call[g].sent > 0 /\ call[g].sent <= 1
      BY <1>1, CallShape, Null DEF Sane, Call
    <3> QED
      BY <3>1
  <2>3. Done(d)
    BY <1>1, CallShape DEF Answered, Sane, Done
  <2> QED
    BY <2>1, <2>2, <2>3 DEF Settled
<1> QED
  BY <1>1, ReadInvariance, PTL

=============================================================================

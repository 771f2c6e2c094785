------------------------------- MODULE Handles -------------------------------
(***************************************************************************)
(* Who owns the C structures.  Some are wrapped by a Ruby object and         *)
(* destroyed when it is collected (clients, keys, GeoJson, records,          *)
(* policies, index tasks, the query of a QueryTask); the others are made for  *)
(* one call, which should destroy them before it ends, whatever ends it.  A   *)
(* structure may hold others, which it destroys with itself, and may point at *)
(* what it does not own.                                                     *)
(*                                                                         *)
(* Abstraction: memory that has been destroyed and freed by its only owner    *)
(* may be taken again; lost memory stays.  The C code runs under Ruby's lock, *)
(* so a call is one step; the collector runs between calls (it runs inside    *)
(* calls, too, at every allocation, which is left out).  What is undefined in *)
(* C goes on or stops the program.                                           *)
(***************************************************************************)
EXTENDS Naturals

CONSTANTS
  Structs,  \* bound: the structures there are at one time
  NULL,     \* no kind, pointing at nothing
  RUBY,     \* owner: the garbage collector, through the wrapper of the structure
  CALL,     \* owner: the call that is running
  GONE      \* pointing at what has been destroyed

\* text: the String a key points into; watch: a ScanTask or UdfTask, without a structure
Kinds == {"client", "key", "text", "geo", "record", "policy", "index", "watch",
          "query", "scan", "args", "operations", "result", "batch", "names"}

\* how the call ended that has lost a structure: with its result, with nil because there
\* is no such record, with the error status of the C client raised, by any other
\* exception; or it was lost in a collection
Ways == {"returned", "notfound", "status", "exception", "collected"}

ASSUME TokensAssumption ==
  /\ {NULL, RUBY, CALL, GONE} \cap Structs = {}
  /\ RUBY # CALL /\ NULL # GONE /\ NULL \notin Kinds

VARIABLES
  mem,    \* each structure: see Struct
  reach,  \* the structures whose Ruby object the program can still use
  up      \* the program runs

vars == <<mem, reach, up>>

\* stage: not initialised yet, ready, a closed client, or how it was lost; held: who
\* destroys it; dead: destroyed while it had, or has had, another owner; of: what it
\* points at; keeps: its Ruby object keeps that alive
Struct == [kind : Kinds \cup {NULL}, stage : {"raw", "ready", "closed"} \cup Ways,
           held : SUBSET (Structs \cup {RUBY, CALL}), dead : BOOLEAN,
           of : Structs \cup {NULL, GONE}, keeps : BOOLEAN]

Free == [kind |-> NULL, stage |-> "raw", held |-> {}, dead |-> FALSE, of |-> NULL, keeps |-> FALSE]

Init ==
  /\ mem = [s \in Structs |-> Free]
  /\ reach = {}
  /\ up = TRUE

-----------------------------------------------------------------------------
(* Structures *)

IsFree(s) == mem[s].kind = NULL
Reached(s, k) == s \in reach /\ mem[s].kind = k
Connected == \E c \in Structs : Reached(c, "client")

\* a client with a cluster: the C client can carry out a call
Open(c) == Reached(c, "client") /\ mem[c].stage = "ready"

New(k, by) == [Free EXCEPT !.kind = k, !.stage = "ready", !.held = by]
Pointing(k, at, keeps) == [New(k, {RUBY}) EXCEPT !.of = at, !.keeps = keeps]

\* nobody is going to destroy it
Lost(k, way) == [New(k, {}) EXCEPT !.stage = way]

\* what a call still holds when it ends is lost
Ends(m, way) ==
  [s \in Structs |-> IF CALL \in m[s].held THEN Lost(m[s].kind, way) ELSE m[s]]

\* structures client.c and key.c have allocated themselves: aerospike_destroy and
\* as_key_destroy leave them allocated.  The mark that lets as_key_destroy free a key
\* (_free) is reset when the key is initialised
Unfreed(r) == r.kind = "client" \/ (r.kind = "key" /\ r.stage # "raw")

\* one destruction by owner o: the only owner frees the structure
Less(r, o) ==
  IF ~(r.held \subseteq {o}) \/ r.dead THEN [r EXCEPT !.held = @ \ {o}, !.dead = TRUE]
  ELSE IF Unfreed(r) THEN Lost(r.kind, "collected") ELSE Free

\* destruction of s by o: the structures it holds are destroyed with it, and
\* pointers to it are left hanging
Destroy(m, s, o) ==
  [t \in Structs |->
     IF t = s THEN Less(m[t], o)
     ELSE IF s \in m[t].held THEN Less(m[t], s)
     ELSE IF m[t].of = s THEN [m[t] EXCEPT !.of = GONE] ELSE m[t]]

\* a call destroys structures of its own, to which nothing points
Cleared(m, S) == [s \in Structs |-> IF s \in S THEN Less(m[s], CALL) ELSE m[s]]

\* an object the program has got
Made(s, r) ==
  /\ IsFree(s)
  /\ mem' = [mem EXCEPT ![s] = r]
  /\ reach' = reach \cup {s} /\ UNCHANGED up

\* a call raises and leaves s as r
Left(s, r) ==
  /\ IsFree(s)
  /\ mem' = [mem EXCEPT ![s] = r]
  /\ UNCHANGED <<reach, up>>

\* an object whose constructor has raised is collected all the same
Refused(s, k) == Left(s, [New(k, {RUBY}) EXCEPT !.stage = "raw"])

-----------------------------------------------------------------------------
(* Constructors *)

NewClient(c) == Made(c, New("client", {RUBY}))

\* options2config raises before aerospike_init
RefusedClient(c) == Refused(c, "client")

\* aerospike_connect fails: the constructor destroys what the collector destroys too
UnconnectedClient(c) == Left(c, [New("client", {RUBY}) EXCEPT !.dead = TRUE])

\* a key of a Fixnum
NewKey(k) == Made(k, New("key", {RUBY}))

\* a namespace, set or key of nil
RefusedKey(k) == Refused(k, "key")

\* the structure points into the String it was made from.  @key keeps a String that
\* was the argument, not the one to_s has made of another object
NewTextKey(k, t, kept) ==
  /\ k # t /\ IsFree(k) /\ IsFree(t)
  /\ mem' = [mem EXCEPT ![k] = Pointing("key", t, kept), ![t] = New("text", {RUBY})]
  /\ reach' = reach \cup {k} /\ UNCHANGED up

NewGeo(g) == Made(g, New("geo", {RUBY}))

\* text with a NUL in it
RefusedGeo(g) == Refused(g, "geo")

NewPolicy(p) == Made(p, New("policy", {RUBY}))

\* an option of a wrong type raises before the structure is wrapped
LostPolicy(p) == Left(p, Lost("policy", "exception"))

\* as_record_set_geojson: the record r holds the structures of the program's G
Take(m, r, G) ==
  [s \in Structs |-> IF s \in G THEN [m[s] EXCEPT !.held = @ \cup {r}] ELSE m[s]]

Geos == {g \in reach : mem[g].kind = "geo"}

NewRecord(r, G) ==
  /\ IsFree(r) /\ G \subseteq Geos
  /\ mem' = Take([mem EXCEPT ![r] = New("record", {RUBY})], r, G)
  /\ reach' = reach \cup {r} /\ UNCHANGED up

\* the :ttl is no integer: before as_record_init
RefusedRecord(r) == Refused(r, "record")

\* hash2record raises at a bin, after it has taken the GeoJson of the bins before
BrokenRecord(r, G) ==
  /\ IsFree(r) /\ G \subseteq Geos
  /\ mem' = Take([mem EXCEPT ![r] = New("record", {RUBY})], r, G)
  /\ UNCHANGED <<reach, up>>

-----------------------------------------------------------------------------
(* Calls on one record *)

OnRecord(s) == Connected /\ IsFree(s) /\ \E k \in Structs : Reached(k, "key")

Statuses == {"returned", "notfound", "status"}

\* Client#put: the record is destroyed whatever the status
Put(r, G) ==
  /\ OnRecord(r) /\ G \subseteq Geos
  /\ \E way \in Statuses :
       mem' = Ends(Destroy(Take([mem EXCEPT ![r] = New("record", {CALL})], r, G), r, CALL), way)
  /\ UNCHANGED <<reach, up>>

\* an exception before the request is sent: the record stays, and the GeoJson it has
\* taken are not destroyed
BrokenPut(r) == OnRecord(r) /\ Left(r, Lost("record", "exception"))

\* a structure of the call, and those in A
Fresh(q, A) ==
  /\ Connected /\ IsFree(q) /\ q \notin A
  /\ \A a \in A : IsFree(a) /\ \A b \in A : a = b

With(q, r, A, as) == [s \in Structs |-> IF s = q THEN r ELSE IF s \in A THEN as ELSE mem[s]]
Both(q, k, A, ka) == With(q, New(k, {CALL}), A, New(ka, {CALL}))

\* a call makes q and A, destroys those in S and ends
Leaves(q, k, A, ka, S, way) ==
  /\ Fresh(q, A)
  /\ mem' = Ends(Cleared(Both(q, k, A, ka), S), way)
  /\ UNCHANGED <<reach, up>>

\* mutant of Operate: the operations are not destroyed when the record is not found
OperateKept(o) ==
  \E way \in Statuses :
    OnRecord(o) /\ Leaves(o, "operations", {}, "record", IF way = "notfound" THEN {} ELSE {o}, way)

\* Client#get and Client#operate: the record and the bin names, or the operations, are
\* destroyed whatever the status.  So do touch, exists? and get_header with their record
Get(r, N) == \E way \in Statuses : OnRecord(r) /\ Leaves(r, "record", N, "names", {r} \cup N, way)
Operate(o) == \E way \in Statuses : OnRecord(o) /\ Leaves(o, "operations", {}, "record", {o}, way)

\* a value that cannot be converted
BrokenOperate(o) == OnRecord(o) /\ Left(o, Lost("operations", "exception"))

\* Client#execute_udf: as_val_destroy(&res) destroys no value, so the result stays
ExecuteUdf(v, a) == OnRecord(v) /\ Leaves(v, "result", {a}, "args", {a}, "returned")

RefusedUdf(a) ==
  \E way \in {"notfound", "status"} : OnRecord(a) /\ Leaves(a, "args", {}, "args", {a}, way)

-----------------------------------------------------------------------------
(* Calls on many records; N are the names of the bins asked for, if there are any *)

\* Client#batch_get destroys both when it answers, nothing when it answers nil, and
\* only the batch when it raises
BatchGet(b, N) ==
  \/ Leaves(b, "batch", N, "names", {b} \cup N, "returned")
  \/ Leaves(b, "batch", N, "names", {}, "notfound")
  \/ Leaves(b, "batch", N, "names", {b}, "status")

\* batch_exists, batch_read: the batch is destroyed whatever the status
BatchKeys(b) == \E way \in Statuses : Leaves(b, "batch", {}, "names", {b}, way)

\* a bin name with a NUL in it
BrokenNames(n) == Connected /\ Left(n, Lost("names", "exception"))

-----------------------------------------------------------------------------
(* Queries and scans; A is the argument list of the UDF, if there is one *)

\* arguments the call has destroyed, although the query or scan destroys them
Torn(by) == [kind |-> "args", stage |-> "ready", held |-> by, dead |-> TRUE, of |-> NULL, keeps |-> FALSE]

\* query, query_each, execute_udf_on_query, scan, scan_each, execute_udf_on_scan:
\* destroyed once, also after an error, and the arguments with it
Foreground(q, k, A) ==
  /\ Fresh(q, A)
  /\ mem' = Destroy(With(q, New(k, {CALL}), A, New("args", {q})), q, CALL)
  /\ UNCHANGED <<reach, up>>

\* an argument that is nil or cannot be converted, or a module that is no String:
\* there is no query or scan yet
BrokenArguments(a) == Connected /\ Left(a, Lost("args", "exception"))

\* what a call makes first, and next to it
Pairs == {<<"query", "args">>, <<"scan", "args">>, <<"result", "args">>,
          <<"batch", "names">>, <<"record", "names">>, <<"operations", "record">>}

\* a bin or an order that is no String, a predicate that cannot be compiled, a
\* priority that is none, a module that is no String, a block that raises, a key of a
\* batch that is none, a value of the answer that cannot be converted: nothing is
\* destroyed
Broken(q, p, A) == p \in Pairs /\ Leaves(q, p[1], A, p[2], {}, "exception")

\* a background scan the server refuses: nothing is destroyed
RefusedBackgroundScan(q, A) == Leaves(q, "scan", A, "args", {}, "status")

\* mutant of BackgroundQuery: the query of the task is destroyed as in the foreground
BackgroundQueryFreed(q, A, c) ==
  /\ Fresh(q, A) /\ Open(c)
  /\ mem' = With(q, [Pointing("query", c, TRUE) EXCEPT !.dead = TRUE], A, Torn({}))
  /\ reach' = reach \cup {q} /\ UNCHANGED up

\* background_execute_udf_on_query: the query goes to a QueryTask, which keeps the
\* client; its arguments are destroyed at once
BackgroundQuery(q, A, c) ==
  /\ Fresh(q, A) /\ Open(c)
  /\ mem' = With(q, Pointing("query", c, TRUE), A, Torn({q}))
  /\ reach' = reach \cup {q} /\ UNCHANGED up

\* the server refuses: the query is destroyed, with its arguments, and they again
RefusedBackgroundQuery(q, A) ==
  /\ Fresh(q, A)
  /\ mem' = Destroy(With(q, New("query", {CALL}), A, Torn({})), q, CALL)
  /\ UNCHANGED <<reach, up>>

\* background_execute_udf_on_scan: the scan is destroyed, with its arguments, and they
\* again; the ScanTask w keeps the client
BackgroundScan(w, A, c) ==
  /\ Fresh(w, A) /\ Open(c)
  /\ mem' = With(w, Pointing("watch", c, TRUE), A, Torn({}))
  /\ reach' = reach \cup {w} /\ UNCHANGED up

-----------------------------------------------------------------------------
(* Other tasks *)

\* create_index: as_index_task has the pointer of the client; IndexTask does not keep it
CreateIndex(i, c) == Open(c) /\ Made(i, Pointing("index", c, FALSE))

RefusedCreateIndex(i) == Connected /\ Left(i, Lost("index", "status"))

\* mutant of RegisterUdf: UdfTask does not set @client
RegisterUdfLoose(w, c) == Open(c) /\ Made(w, Pointing("watch", c, FALSE))

\* register_udf: the UdfTask keeps the client
RegisterUdf(w, c) == Open(c) /\ Made(w, Pointing("watch", c, TRUE))

-----------------------------------------------------------------------------
(* The program and the collector *)

\* Client#close; when aerospike_close fails it raises and nothing changes
Close(c) ==
  /\ Open(c)
  /\ mem' = [mem EXCEPT ![c].stage = "closed"]
  /\ UNCHANGED <<reach, up>>

\* what C does not define: to use or destroy what has been destroyed, to destroy what was
\* never initialised, to destroy the address of a local (execute_udf), and to use a
\* closed client, a task of one, or what points at what is no longer there.  It may go well
Undefined(s) ==
  \/ mem[s].dead
  \/ mem[s].stage = "raw" /\ RUBY \in mem[s].held
  \/ mem[s].kind = "result" /\ mem[s].stage = "returned"
  \/ /\ s \in reach
     /\ \/ mem[s].stage = "closed" \/ mem[s].of = GONE
        \/ \E c \in Structs : mem[s].of = c /\ mem[c].stage = "closed"

Stop(s) == Undefined(s) /\ up' = FALSE /\ UNCHANGED <<mem, reach>>

\* the program loses its last reference
Drop(s) ==
  /\ s \in reach
  /\ reach' = reach \ {s} /\ UNCHANGED <<mem, up>>

\* an object the program can use refers to that of s: a task to its client, a key to
\* its String, a record to its GeoJson
Kept(s) == \E t \in reach : (mem[t].of = s /\ mem[t].keeps) \/ t \in mem[s].held

\* client_deallocate, key_deallocate, geo_json_deallocate, rec_deallocate,
\* free_policy_*, index_task_deallocate, query_task_deallocate
Collect(s) ==
  /\ s \notin reach /\ RUBY \in mem[s].held /\ ~Kept(s)
  /\ mem' = Destroy(mem, s, RUBY)
  /\ UNCHANGED <<reach, up>>

Construct(s) ==
  \/ NewClient(s) \/ RefusedClient(s) \/ UnconnectedClient(s)
  \/ NewKey(s) \/ RefusedKey(s)
  \/ \E t \in Structs, kept \in BOOLEAN : NewTextKey(s, t, kept)
  \/ NewGeo(s) \/ RefusedGeo(s)
  \/ NewPolicy(s) \/ LostPolicy(s)
  \/ \E G \in SUBSET Geos : NewRecord(s, G) \/ BrokenRecord(s, G)
  \/ RefusedRecord(s)

Several == {{}} \cup {{a} : a \in Structs}

CallRecord(s) ==
  \/ \E G \in SUBSET Geos : Put(s, G)
  \/ \E N \in Several : Get(s, N)
  \/ \E a \in Structs : ExecuteUdf(s, a)
  \/ BrokenPut(s) \/ Operate(s) \/ BrokenOperate(s) \/ RefusedUdf(s)

CallMany(s) == \E A \in Several :
  \/ BatchGet(s, A) \/ BatchKeys(s) \/ BrokenNames(s)
  \/ \E k \in {"query", "scan"} : Foreground(s, k, A)
  \/ \E p \in Pairs : Broken(s, p, A)
  \/ BrokenArguments(s) \/ RefusedBackgroundQuery(s, A) \/ RefusedBackgroundScan(s, A)
  \/ \E c \in Structs : BackgroundQuery(s, A, c) \/ BackgroundScan(s, A, c)

Administer(s) ==
  \/ RefusedCreateIndex(s) \/ Close(s)
  \/ \E c \in Structs : CreateIndex(s, c) \/ RegisterUdf(s, c)

Next == up /\ \E s \in Structs :
  \/ Construct(s) \/ CallRecord(s) \/ CallMany(s) \/ Administer(s)
  \/ Drop(s) \/ Collect(s) \/ Stop(s)

Spec == Init /\ [][Next]_vars

-----------------------------------------------------------------------------
(* Properties *)

\* the variables have their types
TypeOK ==
  /\ mem \in [Structs -> Struct]
  /\ reach \subseteq Structs
  /\ up \in BOOLEAN

\* every structure is destroyed once: only a client that could not connect, a GeoJson
\* that was put into a record and the arguments of a UDF are destroyed by two owners,
\* and no structure the program can use other than a GeoJson has been destroyed
OneOwner == \A s \in Structs :
  (mem[s].dead \/ \E o, p \in mem[s].held : o # p) =>
    mem[s].kind \in {"geo", "args"} \/ (mem[s].kind = "client" /\ s \notin reach)

\* what calls that end with a result, nil or an error status do lose, and collections
Leaks ==
  {<<"result", "returned">>, <<"batch", "notfound">>, <<"names", "notfound">>,
   <<"names", "status">>, <<"index", "status">>, <<"scan", "status">>, <<"args", "status">>,
   <<"client", "collected">>, <<"key", "collected">>}

\* memory nobody destroys any more: apart from exceptions in the middle of a call, only the
\* result of execute_udf, the batch of a batch_get that answers nil and its bin names,
\* those of one that raises, the task of a refused create_index, a refused background
\* scan with its arguments, and the structures of clients and keys.  Every other call
\* destroys what it has made when it ends, also by raising an error status
NothingLost == \A s \in Structs :
  IsFree(s) \/ mem[s].dead \/ mem[s].held # {} \/ mem[s].stage = "exception"
    \/ <<mem[s].kind, mem[s].stage>> \in Leaks

\* the structure of an object the program can use is initialised, and what it points at
\* is there: a task's client and a key's String are not collected under it, except for
\* an IndexTask and a key made from what is no String.  So the program stops only after one
\* of these, a refused constructor, a closed client, a UDF or a GeoJson put into a record
Anchored ==
  /\ \A s \in reach :
       /\ mem[s].stage # "raw"
       /\ mem[s].of = GONE => mem[s].kind = "index" \/ (mem[s].kind = "key" /\ ~mem[s].keeps)
  /\ ~up => \E s \in Structs :
       \/ mem[s].dead /\ mem[s].kind \in {"geo", "args", "client"}
       \/ mem[s].kind = "result" \/ mem[s].stage = "closed"
       \/ s \in reach /\ mem[s].of = GONE /\ mem[s].kind \in {"index", "key"}
       \/ s \notin reach /\ mem[s].stage = "raw" /\ mem[s].kind \in {"client", "key", "geo", "record"}

=============================================================================

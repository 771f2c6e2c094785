------------------------------- MODULE Builders -------------------------------
(***************************************************************************)
(* The builders: the Ruby program makes Operation and Query objects, adds to *)
(* them call by call, and hands them to Client#operate or to a query, which   *)
(* turn them into as_operations and as_query.  An object holds its            *)
(* operations, or the names of its bins, in a Ruby array, which it shares     *)
(* with the program that gave the array to it or asked for it.                *)
(*                                                                         *)
(* Abstraction: a value is its type; a second number (at, count) goes the     *)
(* way of the first.  The program changes no hash or string it has handed in. *)
(* Predicate expressions are in PredExp, namespace and set are left out.      *)
(***************************************************************************)
EXTENDS Naturals, SequencesExt, GeoJson

CONSTANTS
  Objects,   \* bound: Operation and Query objects
  Arrays,    \* bound: Ruby arrays
  Bins,      \* names of bins
  Ttls,      \* what the program sets @ttl to
  Values,    \* bound: types of the values it gives to filters
  IntMax,    \* FIX2INT raises above IntMax (2^31 - 1 in the code)
  Methods,   \* bound: the operations the program adds, and their values
  Hashes,    \* bound: hashes it adds with << or puts on an array
  Points,    \* bound: what the program gives to class methods of GeoJson as points
  Geos,      \* bound: calls of these methods and the filters they are for
  MaxCalls,  \* bound: calls on all objects
  MaxItems,  \* bound: entries of an array
  SYMBOL,    \* a Symbol where the C code wants a String
  UNSET,     \* an uninitialized char *
  GARBAGE,   \* what FIX2LONG makes of a VALUE that is no Fixnum
  STALE,     \* a part of the stack that has been used again
  NULL

ASSUME NamesAssumption == SYMBOL \notin Bins /\ UNSET \notin Bins /\ NULL \notin Bins \cup {SYMBOL}
ASSUME BoundsAssumption == Ttls \subseteq Nat /\ IntMax \in Nat /\ MaxCalls \in Nat

VARIABLES
  object,  \* the instance variables of the objects
  array,   \* the content of the arrays
  held,    \* the arrays the program has a reference to
  log,     \* history: what was asked of each object, refused calls left out
  calls,   \* history: how many calls were not refused, bounded by MaxCalls
  sent     \* what the last call of the client has handed to the C client

vars == <<object, array, held, log, calls, sent>>

Types   == {"nil", "integer", "string", "float", "object"}
Numbers == {"increment", "list_get", "list_pop", "list_trim"}
Texts   == {"append", "prepend"}
Lists   == {"list_append", "list_set"}
Plain   == {"touch", "read", "list_clear", "list_size"}
Known   == Numbers \cup Texts \cup Lists \cup Plain \cup {"write"}

Item(op, bin, value) == [op |-> op, bin |-> bin, value |-> value]
Items == [op : Known \cup {"unknown", "select"}, bin : Bins \cup {SYMBOL, NULL}, value : Types]
Filter(type, bin, value, geo) == [type |-> type, bin |-> bin, value |-> value, geo |-> geo]
Object(class, a, ttl) ==
  [class |-> class, items |-> a, ttl |-> ttl, filter |-> NULL, order |-> <<>>]

PlainFilters == {Filter(type, b, v, NULL) : type \in {"eql", "range"}, b \in Bins, v \in Types}
GeoFilters   == {Filter(g.type, b, NULL, Made(g.call)) : g \in Geos, b \in Bins}
\* a filter on a shape, as it was asked for: with the call that makes the shape
GeoCalls     == {Filter(g.type, b, NULL, g.call) : g \in Geos, b \in Bins}
Orderings    == Seq(Bins \X {"asc", "desc"})
Instances ==
  [class : {"Operation", "Query"}, items : Arrays, ttl : Ttls \cup {0},
   filter : PlainFilters \cup GeoFilters \cup {NULL}, order : Orderings]
\* what is sent for an operation
Outs == [op : Known, bin : Bins \cup {UNSET, NULL}, value : Types \cup {GARBAGE}]

ASSUME NullAssumption ==
  /\ NULL \notin Instances \cup PlainFilters \cup GeoFilters \cup GeoCalls
  /\ NULL \notin Seq(Items) /\ NULL \notin Seq(Outs)
ASSUME CallsAssumption ==
  /\ Values \subseteq Types
  /\ \A m \in Methods : m.op \in Known /\ m.value \in Types
  /\ Hashes \subseteq {i \in Items : i.op # "select"}
  /\ \A g \in Geos : g.type \in {"geo_contains", "geo_within"}
\* points have two coordinates; only polygon and circle are given something else
ASSUME PointsAssumption ==
  /\ \A p \in Points : \/ p.is \in {"array", "object"} /\ p.at = <<p.at[1], p.at[2]>>
                       \/ p.is = "other" /\ p.at = <<>>
  /\ \A g \in Geos :
       /\ g.call.by \in Polygons \cup Circles \cup {"point"}
       /\ g.call.points \in Seq(Points)
       /\ g.call.by \notin Polygons => Len(g.call.points) = 1
       /\ g.call.by \notin {"polygon", "circle"} =>
            \A i \in DOMAIN g.call.points : g.call.points[i].is # "other"

TypeOK ==
  /\ object \in [Objects -> Instances \cup {NULL}]
  /\ array \in [Arrays -> Seq(Items) \cup {NULL}]
  /\ held \subseteq {a \in Arrays : array[a] # NULL}
  /\ \A o \in Objects : object[o] # NULL => array[object[o].items] # NULL
  /\ log \in [Objects -> [add : Seq(Items), ttl : Seq(Ttls),
                          filter : Seq(PlainFilters \cup GeoCalls), order : Orderings]]
  /\ calls \in 0..MaxCalls

Init ==
  /\ object = [o \in Objects |-> NULL]
  /\ array = [a \in Arrays |-> NULL]
  /\ held = {}
  /\ log = [o \in Objects |-> [add |-> <<>>, ttl |-> <<>>, filter |-> <<>>, order |-> <<>>]]
  /\ calls = 0
  /\ sent = NULL

-----------------------------------------------------------------------------
(* Arrays *)

Called == calls < MaxCalls /\ calls' = calls + 1

Logged(o, call, what) ==
  /\ Called
  /\ log' = [log EXCEPT ![o][call] = Append(@, what)]

Of(class) == {o \in Objects : object[o] # NULL /\ object[o].class = class}

\* the program makes arrays of operations and arrays of bins
Fits(a, class) == \A o \in Objects : object[o] # NULL /\ object[o].items = a => object[o].class = class

\* mutant of Given: without an array from the program the variable stays nil
GivenOnly(a, mine) ==
  /\ array[a] # NULL => a \in held
  /\ UNCHANGED <<array, held>>

\* an array the program has, or a new one: the program's, or the default of new
Given(a, mine) ==
  IF array[a] # NULL THEN a \in held /\ UNCHANGED <<array, held>>
  ELSE /\ array' = [array EXCEPT ![a] = <<>>]
       /\ held' = IF mine THEN held \cup {a} ELSE held

\* the readers operations and bins
Read(o) ==
  /\ object[o] # NULL
  /\ held' = held \cup {object[o].items}
  /\ sent' = NULL
  /\ UNCHANGED <<object, array, log, calls>>

\* the writers operations= and bins=
Assign(o, a) ==
  /\ object[o] # NULL /\ Given(a, TRUE) /\ Fits(a, object[o].class)
  /\ object' = [object EXCEPT ![o].items = a]
  /\ sent' = NULL
  /\ UNCHANGED <<log, calls>>

Pushed1(a, i) ==
  /\ Len(array[a]) < MaxItems
  /\ array' = [array EXCEPT ![a] = Append(@, i)]

\* the program adds to an array it holds and has given to an object
Push(o, i) ==
  /\ object[o] # NULL /\ object[o].items \in held
  /\ (i.op = "select") = (object[o].class = "Query")
  /\ Pushed1(object[o].items, i)
  /\ Called
  /\ sent' = NULL
  /\ UNCHANGED <<object, held, log>>

-----------------------------------------------------------------------------
(* Operation *)

\* :ttl must be a Fixnum
NewOperation(o, a, mine, ttl) ==
  /\ object[o] = NULL /\ Given(a, mine) /\ Fits(a, "Operation")
  /\ object' = [object EXCEPT ![o] = Object("Operation", a, ttl)]
  /\ Logged(o, "ttl", ttl)
  /\ sent' = NULL

SetTtl(o, ttl) ==
  /\ o \in Of("Operation")
  /\ object' = [object EXCEPT ![o].ttl = ttl]
  /\ Logged(o, "ttl", ttl)
  /\ sent' = NULL
  /\ UNCHANGED <<array, held>>

\* increment!, touch!, append!, ..., list_get!
AddOperation(o, op, bin, value) ==
  LET i == Item(op, IF op = "touch" THEN NULL ELSE bin, IF op \in Plain THEN "nil" ELSE value)
  IN  /\ o \in Of("Operation")
      /\ Pushed1(object[o].items, i)
      /\ Logged(o, "add", i)
      /\ sent' = NULL
      /\ UNCHANGED <<object, held>>

\* list_size! returns the array, which the program keeps or not
ListSize(o, bin, keeps) ==
  /\ o \in Of("Operation")
  /\ Pushed1(object[o].items, Item("list_size", bin, "nil"))
  /\ Logged(o, "add", Item("list_size", bin, "nil"))
  /\ held' = held \cup IF keeps THEN {object[o].items} ELSE {}
  /\ sent' = NULL
  /\ UNCHANGED object

\* << with a hash; anything else is passed over
AddHash(o, i) ==
  /\ o \in Of("Operation")
  /\ Pushed1(object[o].items, i)
  /\ Logged(o, "add", i)
  /\ sent' = NULL
  /\ UNCHANGED <<object, held>>

-----------------------------------------------------------------------------
(* Query *)

NewQuery(o, a, mine) ==
  /\ object[o] = NULL /\ Given(a, mine) /\ Fits(a, "Query")
  /\ object' = [object EXCEPT ![o] = Object("Query", a, 0)]
  /\ Called
  /\ sent' = NULL
  /\ UNCHANGED log

\* "bins<<" returns the array, which the program keeps or not
AddBin(o, bin, keeps) ==
  LET i == Item("select", bin, "nil")
  IN  /\ o \in Of("Query")
      /\ Pushed1(object[o].items, i)
      /\ Logged(o, "add", i)
      /\ held' = held \cup IF keeps THEN {object[o].items} ELSE {}
      /\ sent' = NULL
      /\ UNCHANGED object

SetFilter(o, f) == object' = [object EXCEPT ![o].filter = f]

\* mutant of Eql: the filter is set before its value is looked at
EqlFirst(o, bin, value) ==
  /\ o \in Of("Query")
  /\ SetFilter(o, Filter("eql", bin, value, NULL))
  /\ IF value \in {"string", "integer"}
     THEN Logged(o, "filter", Filter("eql", bin, value, NULL))
     ELSE UNCHANGED <<log, calls>>
  /\ sent' = NULL
  /\ UNCHANGED <<array, held>>

\* eql!: raises for other values, and leaves the filter there was
Eql(o, bin, value) ==
  /\ o \in Of("Query")
  /\ IF value \in {"string", "integer"}
     THEN /\ SetFilter(o, Filter("eql", bin, value, NULL))
          /\ Logged(o, "filter", Filter("eql", bin, value, NULL))
     ELSE UNCHANGED <<object, log, calls>>
  /\ sent' = NULL
  /\ UNCHANGED <<array, held>>

\* range!: both ends must be integers
RangeOf(o, bin, min, max) ==
  /\ o \in Of("Query")
  /\ IF min = "integer" /\ max = "integer"
     THEN /\ SetFilter(o, Filter("range", bin, min, NULL))
          /\ Logged(o, "filter", Filter("range", bin, min, NULL))
     ELSE UNCHANGED <<object, log, calls>>
  /\ sent' = NULL
  /\ UNCHANGED <<array, held>>

\* geo_contains! and geo_within! of the object a class method makes; the text goes along
Geo(o, type, bin, c) ==
  /\ o \in Of("Query")
  /\ SetFilter(o, Filter(type, bin, NULL, Made(c)))
  /\ Logged(o, "filter", Filter(type, bin, NULL, c))
  /\ sent' = NULL
  /\ UNCHANGED <<array, held>>

\* geo_contains! and geo_within! of another value raise
GeoRefused(o) ==
  /\ o \in Of("Query")
  /\ sent' = NULL
  /\ UNCHANGED <<object, array, held, log, calls>>

\* order_by!: raises unless the order is :asc or :desc
OrderBy(o, bin, order) ==
  /\ o \in Of("Query")
  /\ IF order \in {"asc", "desc"}
     THEN /\ object' = [object EXCEPT ![o].order = Append(@, <<bin, order>>)]
          /\ Logged(o, "order", <<bin, order>>)
     ELSE UNCHANGED <<object, log, calls>>
  /\ sent' = NULL
  /\ UNCHANGED <<array, held>>

-----------------------------------------------------------------------------
(* Client#operate and the queries *)

Content(o) == array[object[o].items]

LastNamed(s, i) ==
  LET named == {j \in 1..(i - 1) : s[j].bin # NULL}
  IN  {s[j].bin : j \in {j \in named : \A k \in named : k <= j}}

\* mutant of Names: a bin, once set, is not set again
NamesCarried(s, i) ==
  IF s[i].op = "touch" THEN {NULL}
  ELSE IF LastNamed(s, i) # {} THEN LastNamed(s, i)
  ELSE {s[i].bin}

\* bin_name: without a :bin, what the memory of the variable holds
Names(s, i) ==
  IF s[i].op = "touch" THEN {NULL}
  ELSE IF s[i].bin # NULL THEN {s[i].bin}
  ELSE {UNSET} \cup LastNamed(s, i)

\* FIX2LONG checks nothing; write turns what is no integer into a string
SentValue(i) ==
  IF i.op \in Plain THEN "nil"
  ELSE IF i.op \in Numbers /\ i.value # "integer" THEN GARBAGE
  ELSE IF i.op = "write" /\ i.value # "integer" THEN "string"
  ELSE i.value

\* a name that is no String, an unknown operation, a text that is no String, or a
\* value rb_val2as_val does not know
Bad(i) ==
  \/ i.bin = SYMBOL
  \/ i.op \notin Known
  \/ i.op \in Texts /\ i.value # "string"
  \/ i.op \in Lists /\ i.value = "object"

Sends(o, items, ttl, filter, order) ==
  /\ sent' = [by |-> o, items |-> items, ttl |-> ttl, filter |-> filter, order |-> order]
  /\ UNCHANGED <<object, array, held, log, calls>>

Raises(o) == Sends(o, NULL, NULL, NULL, NULL)

\* rb_operations2as_operations
Operate(o) ==
  /\ o \in Of("Operation")
  /\ LET s == Content(o)
     IN  IF object[o].ttl > IntMax \/ \E i \in DOMAIN s : Bad(s[i]) THEN Raises(o)
         ELSE \E name \in [DOMAIN s -> Bins \cup {UNSET, NULL}] :
                /\ \A i \in DOMAIN s : name[i] \in Names(s, i)
                /\ Sends(o, [i \in DOMAIN s |-> Item(s[i].op, name[i], SentValue(s[i]))],
                         object[o].ttl, NULL, NULL)

\* as_query_orderby_inita puts the orders on the stack of query_obj2as_query, which
\* has returned when they are sent
Orders(o) == IF object[o].order = <<>> THEN {<<>>} ELSE {object[o].order, STALE}

\* query_obj2as_query
SendQuery(o) ==
  /\ o \in Of("Query")
  /\ LET s == Content(o)
     IN  IF \E i \in DOMAIN s : s[i].bin = SYMBOL THEN Raises(o)
         ELSE \E order \in Orders(o) : Sends(o, s, NULL, object[o].filter, order)

-----------------------------------------------------------------------------
Next ==
  \/ \E o \in Objects, a \in Arrays :
       \/ \E t \in Ttls, mine \in BOOLEAN : NewOperation(o, a, mine, t)
       \/ \E mine \in BOOLEAN : NewQuery(o, a, mine)
       \/ Assign(o, a)
  \/ \E o \in Objects, m \in Methods, b \in Bins : AddOperation(o, m.op, b, m.value)
  \/ \E o \in Objects, i \in Hashes : AddHash(o, i)
  \/ \E o \in Objects, i \in Hashes \cup {Item("select", b, "nil") : b \in Bins} : Push(o, i)
  \/ \E o \in Objects, b \in Bins, k \in BOOLEAN : ListSize(o, b, k)
  \/ \E o \in Objects, b \in Bins \cup {SYMBOL}, k \in BOOLEAN : AddBin(o, b, k)
  \/ \E o \in Objects, b \in Bins, v \in Values : Eql(o, b, v) \/ RangeOf(o, b, "integer", v)
  \/ \E o \in Objects, b \in Bins, d \in {"asc", "other"} : OrderBy(o, b, d)
  \/ \E o \in Objects, b \in Bins, g \in Geos : Geo(o, g.type, b, g.call)
  \/ \E o \in Objects, t \in Ttls : SetTtl(o, t)
  \/ \E o \in Objects : Read(o) \/ GeoRefused(o) \/ Operate(o) \/ SendQuery(o)

Spec == Init /\ [][Next]_vars

-----------------------------------------------------------------------------
(* Properties *)

LastOf(s, default) == IF s = <<>> THEN default ELSE Last(s)

\* an array the program has no reference to is of one object only
Own(o) == object[o].items \notin held

\* an operation as the documentation wants it
Proper(i) ==
  /\ i.op \in Known /\ i.bin # SYMBOL
  /\ i.op # "touch" => i.bin # NULL
  /\ i.op \in Plain => i.value = "nil"
  /\ i.op \in Numbers => i.value = "integer"
  /\ i.op \in Texts => i.value = "string"
  /\ i.op \in Lists => i.value # "object"

\* operate sends what was asked of this object, in this order and with the last time
\* to live, when every operation is a proper one; otherwise, if it sends anything, an
\* operation still has its place, and its bin if it came with one.  No call on another
\* object makes a difference unless the program has let the array be shared.
OperationsAsAsked ==
  sent # NULL /\ sent.by \in Of("Operation") /\ Own(sent.by) =>
    LET s == log[sent.by].add
        t == LastOf(log[sent.by].ttl, 0)
    IN  /\ t <= IntMax /\ (\A i \in DOMAIN s : Proper(s[i])) => sent.items # NULL
        /\ sent.items # NULL =>
             /\ sent.ttl = t /\ Len(sent.items) = Len(s)
             /\ \A i \in DOMAIN s :
                  /\ sent.items[i].op = s[i].op
                  /\ s[i].op # "touch" /\ s[i].bin # NULL => sent.items[i].bin = s[i].bin
                  /\ Proper(s[i]) =>
                       sent.items[i].value = IF s[i].op = "write" /\ s[i].value # "integer"
                                             THEN "string" ELSE s[i].value

\* A query is sent with the bins asked for, the filter of the last filter call that did
\* not raise, and, if no order was asked for, without one: a call that raises leaves
\* the query as it was.
QueriesAsAsked ==
  sent # NULL /\ sent.by \in Of("Query") /\ Own(sent.by) /\ sent.items # NULL =>
    LET s == log[sent.by].add
        f == LastOf(log[sent.by].filter, NULL)
    IN  /\ sent.items = s
        /\ (sent.filter = NULL) = (f = NULL)
        /\ f # NULL => sent.filter.type = f.type /\ sent.filter.bin = f.bin
        /\ f # NULL /\ f.type \in {"eql", "range"} => sent.filter = f
        /\ sent.order \in {log[sent.by].order, STALE}
        /\ log[sent.by].order = <<>> => sent.order = <<>>

\* circle_obj, circle_point, and a point of another kind lose coordinates
Keeps(c) == c.by \notin {"circle_obj", "circle_point"} /\ \A i \in DOMAIN c.points : c.points[i].is # "other"

\* The shape in the filter of a query is the one the documentation of the class methods
\* promises, and its readers agree, for all calls but the ones Keeps excludes; those
\* are all wrong.
ShapesAsAsked ==
  sent # NULL /\ sent.by \in Of("Query") /\ sent.items # NULL =>
    LET f == LastOf(log[sent.by].filter, NULL)
    IN  f # NULL /\ f.type \in {"geo_contains", "geo_within"} =>
          (sent.filter.geo = Meant(f.geo) /\ Readable(f.geo)) = Keeps(f.geo)
=============================================================================

------------------------------- MODULE PredExp -------------------------------
(***************************************************************************)
(* Predicate expressions: the Ruby program builds a graph of PredExpNode     *)
(* hashes, which hold each other by reference, and hands one of them to a    *)
(* PredExp; a query compiles it into a postfix array, which the server runs  *)
(* on every record.                                                          *)
(*                                                                         *)
(* Abstraction: strings and GeoJSON values are told apart by kind and         *)
(* identity; which string matches which pattern, and which shape is within    *)
(* which, are relations the server knows.  Collection variables have no       *)
(* names: no iteration is inside another one's condition, except the         *)
(* repeated one of Own, whose condition does not look at its variable.       *)
(***************************************************************************)
EXTENDS Integers, SequencesExt, FiniteSets

CONSTANTS
  Nodes,     \* bound: the PredExpNode objects
  Bins,      \* names of bins
  Ints,      \* integers the program compares with
  Strs,      \* strings it compares with, also as patterns
  Geos,      \* GeoJSON values it compares with
  Matching,  \* pairs of a string and a pattern it matches
  Inside,    \* pairs of a shape and a shape it is within
  Colls,     \* the collections it uses, of "array", "mapkey", "mapval"
  Methods,   \* record methods it uses, of "last_update", "expiration_time"
  Filters,   \* the comparisons it uses, of AllFilters
  MaxLinks,  \* bound: and/or links in all
  Wrap,      \* unsigned int wraps at Wrap (2^32 in the code)
  Long,      \* the integers of the server are smaller than Long (2^63 in the code)
  Stored,    \* the records the server may hold
  NULL

ASSUME IntsAssumption == Ints \subseteq Int /\ Wrap \in Nat \ {0} /\ Long \in Nat \ {0}
\* strings and shapes are no integers
ASSUME TypesAssumption == \A v \in Strs \cup Geos : v \notin Int
ASSUME NodesAssumption == IsFiniteSet(Nodes)
ASSUME StoredAssumption ==
  \A r \in Stored, b \in Bins :
    r[b].keys \in Seq(ToSet(r[b].keys)) /\ r[b].vals \in Seq(ToSet(r[b].vals))
ASSUME NamesAssumption == "record" \notin Bins /\ NULL \notin Nodes

Numeric    == {"gt", "gteq", "lt", "lteq"}
GeoFilters == {"within", "contains"}
AllFilters == Numeric \cup {"eq", "not_eq", "regexp"} \cup GeoFilters
ASSUME FiltersAssumption == Filters \subseteq AllFilters

Values == Ints \cup Strs \cup Geos

VARIABLES
  node,  \* the @node hash of each PredExpNode
  root   \* @predexp

vars == <<node, root>>

Hash == [bin : Bins \cup {"record"}, true : BOOLEAN,
         filter : Filters \cup {NULL}, value : Values \cup {NULL},
         coll : Colls \cup {NULL}, pred : {"and", "or", NULL},
         method : Methods \cup {NULL},
         and : Seq(Nodes), or : Seq(Nodes)]

ASSUME NullAssumption == NULL \notin Hash

TypeOK ==
  /\ node \in [Nodes -> Hash \cup {NULL}]
  /\ root \in Nodes \cup {NULL}
  /\ root # NULL => node[root] # NULL

Init ==
  /\ node = [n \in Nodes |-> NULL]
  /\ root = NULL

-----------------------------------------------------------------------------
(* Building an expression *)

New(n, b) ==
  /\ node[n] = NULL
  /\ node' = [node EXCEPT ![n] =
       [bin |-> b, true |-> TRUE, filter |-> NULL, value |-> NULL, coll |-> NULL,
        pred |-> NULL, method |-> NULL, and |-> <<>>, or |-> <<>>]]
  /\ UNCHANGED root

\* check_class: the values each method takes
Takes(f) == CASE f \in Numeric -> Ints
              [] f = "regexp" -> Strs
              [] f \in GeoFilters -> Geos
              [] OTHER -> Ints \cup Strs

\* add_val: a method called again replaces what it has set
AddVal(n, f, v) ==
  /\ node' = [node EXCEPT ![n].filter = f, ![n].value = v]
  /\ UNCHANGED root

\* eq, ..., regexp
Compare(n, f, v) ==
  /\ node[n] # NULL
  /\ f \notin GeoFilters /\ v \in Takes(f)
  /\ AddVal(n, f, v)

\* within, contains
CompareGeo(n, f, v) ==
  /\ node[n] # NULL /\ node[n].bin # "record"
  /\ f \in GeoFilters /\ v \in Takes(f)
  /\ AddVal(n, f, v)

Not(n) ==
  /\ node[n] # NULL
  /\ node' = [node EXCEPT ![n].true = FALSE]
  /\ UNCHANGED root

\* list_and, list_or, map_key_and, ...
Collection(n, c, p) ==
  /\ node[n] # NULL
  /\ node' = [node EXCEPT ![n].coll = c, ![n].pred = p]
  /\ UNCHANGED root

\* last_update, expiration_time
RecordMethod(n, m) ==
  /\ node[n] # NULL /\ node[n].bin = "record"
  /\ node' = [node EXCEPT ![n].method = m]
  /\ UNCHANGED root

Links == LET count[S \in SUBSET Nodes] ==
               IF S = {} THEN 0
               ELSE LET n == CHOOSE n \in S : TRUE
                    IN count[S \ {n}] + IF node[n] = NULL THEN 0
                                        ELSE Len(node[n].and) + Len(node[n].or)
         IN count[Nodes]

\* the reader "node" raises on a node without filters
Filled(n) == node[n] # NULL /\ (node[n].filter # NULL \/ node[n].coll # NULL \/ node[n].method # NULL)

\* PredExpNode#and: the hash of m, not a copy, goes on the list of n
And(n, m) ==
  /\ Links < MaxLinks /\ node[n] # NULL /\ Filled(m)
  /\ node' = [node EXCEPT ![n].and = Append(@, m)]
  /\ UNCHANGED root

Or(n, m) ==
  /\ Links < MaxLinks /\ node[n] # NULL /\ Filled(m)
  /\ node' = [node EXCEPT ![n].or = Append(@, m)]
  /\ UNCHANGED root

\* PredExp#where
Where(n) ==
  /\ Filled(n)
  /\ root' = n
  /\ UNCHANGED node

\* PredExp#and and #or add to the node where was given
RootLinks(m) == root # NULL /\ (And(root, m) \/ Or(root, m))

Build(n) ==
  \/ \E b \in Bins \cup IF Methods = {} THEN {} ELSE {"record"} : New(n, b)
  \/ \E f \in Filters, v \in Values : Compare(n, f, v) \/ CompareGeo(n, f, v)
  \/ Not(n)
  \/ \E c \in Colls, p \in {"and", "or"} : Collection(n, c, p)
  \/ \E m \in Methods : RecordMethod(n, m)
  \/ \E m \in Nodes : And(n, m) \/ Or(n, m)
  \/ Where(n)
  \/ RootLinks(n)

Next == \E n \in Nodes : Build(n)
Spec == Init /\ [][Next]_vars

-----------------------------------------------------------------------------
(* Compiling it: as_predexp_array.c *)

Tok(op, arg) == [op |-> op, arg |-> arg]
Raise == <<Tok("raise", NULL)>>

\* NUM2UINT takes an Integer to an unsigned int, NUM2ULONG to an unsigned long, which
\* as_predexp_integer_value takes for signed; they raise for all others
UintRange  == -(Wrap \div 2) .. Wrap - 1
UlongRange == -Long .. 2 * Long - 1
Uint(v)    == v % Wrap
Ulong(v)   == IF v < Long THEN v ELSE v - 2 * Long

\* the integer of the node can be converted
Fits(h) == h.value \in Ints => h.value \in IF h.bin = "record" THEN UlongRange ELSE UintRange

ValueToks(h) ==
  CASE h.value \in Ints -> <<Tok("value", Uint(h.value)), Tok("int", h.filter)>>
    [] h.value \in Geos -> <<Tok("value", h.value), Tok("geo", h.filter)>>
    [] OTHER            -> <<Tok("value", h.value), Tok("str", h.filter)>>

\* insert_collection_predicate
CollectionToks(h) ==
  <<Tok("collection", <<h.bin, h.coll>>), Tok("iterate", h.pred)>>

\* mutant of Own: integers are cast, not converted
OwnUnchecked(h) ==
  IF h.bin = "record"
  THEN IF h.method = NULL THEN Raise
       ELSE <<Tok("record", h.method), Tok("value", h.value), Tok("int", h.filter)>>
  ELSE IF h.value = NULL THEN Raise
  ELSE IF h.coll = NULL THEN <<Tok("bin", h.bin)>> \o ValueToks(h)
  ELSE <<Tok("var", NULL)>> \o ValueToks(h) \o CollectionToks(h)

\* the filter of a node; the predicate on a collection of integers is inserted twice
Own(h) ==
  IF ~Fits(h) THEN Raise
  ELSE IF h.bin = "record"
  THEN IF h.method = NULL \/ h.value \notin Ints THEN Raise
       ELSE <<Tok("record", h.method), Tok("value", Ulong(h.value)), Tok("int", h.filter)>>
  ELSE IF h.value = NULL THEN Raise
  ELSE IF h.coll = NULL THEN <<Tok("bin", h.bin)>> \o ValueToks(h)
  ELSE <<Tok("var", NULL)>> \o ValueToks(h) \o CollectionToks(h)
       \o (IF h.value \in Ints THEN CollectionToks(h) ELSE <<>>)

\* mutant of Negation: not is left out for a predicate on a collection
NegationPlain(h) == IF h.true \/ h.coll # NULL THEN <<>> ELSE <<Tok("not", 1)>>

Negation(h) == IF h.true THEN <<>> ELSE <<Tok("not", 1)>>

\* push_2_as_predexp
Push(h) == Own(h) \o Negation(h)

\* mutant of Operator: the node itself is not counted
OperatorShort(op, kids) == IF kids = <<>> THEN <<>> ELSE <<Tok(op, Len(kids))>>

\* as_predexp_and, as_predexp_or: one operand for the node and one for each child
Operator(op, kids) == IF kids = <<>> THEN <<>> ELSE <<Tok(op, Len(kids) + 1)>>

\* predexp_node_2_as_predexp, with the code of the nodes below
Node2Predexp(below, n) ==
  LET all(kids) == FlattenSeq([i \in 1..Len(kids) |-> below[kids[i]]])
  IN  Push(node[n])
      \o all(node[n].and) \o Operator("and", node[n].and)
      \o all(node[n].or) \o Operator("or", node[n].or)

\* the code of expressions of at most d levels; that of a node below itself never ends
code[d \in 0..Cardinality(Nodes)] ==
  [n \in Nodes |-> IF d = 0 THEN <<>> ELSE Node2Predexp(code[d - 1], n)]

Compile(n) == code[Cardinality(Nodes)][n]

Raises(toks) == \E i \in 1..Len(toks) : toks[i].op = "raise"

-----------------------------------------------------------------------------
(* What the server does with the array *)

Arity(tok) == CASE tok.op \in {"int", "str", "geo", "iterate"} -> 2
                [] tok.op \in {"not", "and", "or"} -> tok.arg
                [] OTHER -> 0

\* comparisons, FALSE on a value of another type or on no value
Cmp(f, x, v) == IF x = NULL THEN FALSE
                ELSE CASE f = "eq" -> x = v
                       [] f = "not_eq" -> x # v
                       [] f = "gt" -> x > v
                       [] f = "gteq" -> x >= v
                       [] f = "lt" -> x < v
                       [] f = "lteq" -> x <= v
                       [] f = "regexp" -> <<x, v>> \in Matching
                       [] f = "within" -> <<x, v>> \in Inside
                       [] f = "contains" -> <<v, x>> \in Inside

TypeOf(x) == CASE x \in Int -> "int" [] x \in Geos -> "geo" [] OTHER -> "str"
OfType(x, type) == IF TypeOf(x) = type THEN x ELSE NULL

\* the elements a collection predicate runs over; a bin of another kind has none
IsA(c, coll) == c.kind = IF coll = "array" THEN "list" ELSE "map"
Elements(c, coll) == IF coll = "mapkey" THEN c.keys ELSE c.vals

\* what a variable may hold while r is evaluated: NULL when nothing is iterated over
Elems(r) == {NULL} \cup UNION {ToSet(r[b].keys) \cup ToSet(r[b].vals) : b \in Bins}

\* an expression, as the contents of the variable for which it is true
Truth(xs) == Tok("truth", xs)

\* what a comparison compares: the variable, or a part of the record
Operand(r, e, type, x) ==
  CASE e.op = "var"    -> OfType(x, type)
    [] e.op = "record" -> r[e.arg]
    [] e.op = "bin"    -> IF r[e.arg].kind = "scalar" THEN OfType(r[e.arg].vals[1], type) ELSE NULL

Iterated(r, quantifier, kid, bin, coll) ==
  LET s == Elements(r[bin], coll)
  IN  /\ IsA(r[bin], coll)
      /\ IF quantifier = "and" THEN \A i \in 1..Len(s) : s[i] \in kid.arg
                               ELSE \E i \in 1..Len(s) : s[i] \in kid.arg

Result(r, tok, kids) ==
  CASE tok.op \in {"int", "str", "geo"} ->
         Truth({x \in Elems(r) : Cmp(tok.arg, Operand(r, kids[1], tok.op, x), kids[2].arg)})
    [] tok.op = "not" -> Truth(Elems(r) \ kids[1].arg)
    [] tok.op = "and" -> Truth({x \in Elems(r) : \A i \in 1..Len(kids) : x \in kids[i].arg})
    [] tok.op = "or"  -> Truth({x \in Elems(r) : \E i \in 1..Len(kids) : x \in kids[i].arg})
    [] tok.op = "iterate" ->
         Truth({x \in Elems(r) : Iterated(r, tok.arg, kids[1], kids[2].arg[1], kids[2].arg[2])})
    [] OTHER -> tok

\* an operator takes its operands off the stack
Reduce(r, stack, tok) ==
  LET k == Arity(tok)
      n == Len(stack)
  IN  IF n < k THEN <<>>
      ELSE Append(SubSeq(stack, 1, n - k), Result(r, tok, SubSeq(stack, n - k + 1, n)))

\* the stack after the tokens
Run(r, stack, toks) ==
  LET run[i \in 0..Len(toks)] == IF i = 0 THEN stack ELSE Reduce(r, run[i - 1], toks[i])
  IN  run[Len(toks)]

-----------------------------------------------------------------------------
(* What the documentation says an expression means *)

Compares(h, x) == TypeOf(x) = TypeOf(h.value) /\ Cmp(h.filter, x, h.value)

OwnMeaning(h, r) ==
  IF h.bin = "record" THEN Cmp(h.filter, r[h.method], h.value)
  ELSE IF h.coll = NULL THEN r[h.bin].kind = "scalar" /\ Compares(h, r[h.bin].vals[1])
  ELSE LET s == Elements(r[h.bin], h.coll)
       IN  /\ IsA(r[h.bin], h.coll)
           /\ CASE h.pred = "and" -> \A i \in 1..Len(s) : Compares(h, s[i])
                [] h.pred = "or"  -> \E i \in 1..Len(s) : Compares(h, s[i])

\* the records a node selects, with those the nodes below do
Selection(below, n) ==
  LET h == node[n]
  IN  {r \in Stored :
         \/ /\ OwnMeaning(h, r) <=> h.true
            /\ \A i \in 1..Len(h.and) : r \in below[h.and[i]]
         \/ \E i \in 1..Len(h.or) : r \in below[h.or[i]]}

\* the records that expressions of at most d levels select
selected[d \in 0..Cardinality(Nodes)] ==
  [n \in Nodes |-> IF d = 0 THEN {} ELSE Selection(selected[d - 1], n)]

Meaning(n) == selected[Cardinality(Nodes)][n]

\* a node has all it needs
Complete(h) == IF h.bin = "record" THEN h.method # NULL /\ h.value \in Ints ELSE h.value # NULL

\* its integer reaches the server as it is
Carried(h) ==
  h.value \in Ints => IF h.bin = "record" THEN h.value \in -Long .. Long - 1 ELSE h.value \in 0 .. Wrap - 1

-----------------------------------------------------------------------------
(* Properties *)

Made == {n \in Nodes : node[n] # NULL}
Kids(n) == ToSet(node[n].and) \cup ToSet(node[n].or)

\* the node and what is below it
Reached(n) ==
  {m \in Made : \A S \in SUBSET Made : n \in S /\ (\A k \in S : Kids(k) \subseteq S) => m \in S}

Looping(n) == \E m \in Reached(n) : \E k \in Kids(m) : m \in Reached(k)

\* The array a query sends selects the records its PredExp means, whatever calls
\* built it in whatever order and however nodes are shared: the postfix array is
\* one expression, and a node is (its filter and its ands) or its ors.  That is said of
\* integers below 2^32 that are not negative, of the 64 bits the server has in the
\* methods of a record; others raise or are changed (IncompleteRaises, Uint).
MeansTheSame ==
  root # NULL /\ ~Looping(root) /\ (\A n \in Reached(root) : Complete(node[n]) /\ Carried(node[n])) =>
    \A r \in Stored :
      LET stack == Run(r, <<>>, Compile(root))
      IN  Len(stack) = 1 /\ (NULL \in stack[1].arg <=> r \in Meaning(root))

\* A query raises and sends nothing if and only if its PredExp has a node, wherever in the
\* expression, that lacks a value or a record method, or whose integer cannot be
\* converted: less than -2^31 or more than 2^32 - 1, for a record method less than
\* -2^63 or more than 2^64 - 1.
IncompleteRaises ==
  root # NULL /\ ~Looping(root) =>
    (Raises(Compile(root)) <=> \E n \in Reached(root) : ~Complete(node[n]) \/ ~Fits(node[n]))

\* predexp_node.md: "multiple nodes can be added" with
\* node.lt(10).and(node2.eq("foo")).and(node.gt(100)).  What the calls build can be
\* compiled: no node is below itself.
Compilable == root # NULL => ~Looping(root)
=============================================================================

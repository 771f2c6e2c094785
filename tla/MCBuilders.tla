----------------------------- MODULE MCBuilders -----------------------------
(* A small instance of Builders: two objects and two arrays, so that the       *)
(* objects can share one; one method of each kind and the hashes only the      *)
(* program makes; every class method of GeoJson.                              *)
EXTENDS Builders, TLC

CONSTANTS o1, o2, a1, a2, x, y

MCObjects == {o1, o2}
MCArrays  == {a1, a2}
MCBins    == {x, y}
MCTtls    == {1, 4}
MCValues  == {"integer", "object"}

Method(op, value) == [op |-> op, value |-> value]
MCMethods ==
  {Method("increment", "integer"), Method("increment", "string"), Method("append", "string"),
   Method("write", "float"), Method("list_append", "object"), Method("touch", "nil")}

MCHashes == {Item("read", NULL, "nil"), Item("read", SYMBOL, "nil"), Item("unknown", NULL, "nil")}

\* the names of objects, arrays and bins stand for nothing
Symmetry == Permutations(MCObjects) \cup Permutations(MCArrays) \cup Permutations(MCBins)

P == AnArray(1, 2)
Q == AnObject(Point(3, 4))

MCPoints == {P, Q, Other}

For(type, call) == [type |-> type, call |-> call]
MCGeos ==
  {For("geo_contains", c) :
     c \in {Call("point", <<P>>, 0), Call("polygon", <<P, Q>>, 0), Call("polygon", <<P, Other>>, 0),
            Call("polygon_array", <<P, P>>, 0), Call("polygon_obj", <<Q, Q>>, 0)}}
  \cup {For("geo_within", c) :
     c \in {Call("circle_array", <<P>>, 5), Call("circle_obj", <<Q>>, 5), Call("circle_point", <<P>>, 5)}
          \cup {Call("circle", <<p>>, 5) : p \in {P, Q, Other}}}

\* bound: a call of the client changes no object, so what comes after it is left out
NothingSent == sent = NULL
=============================================================================

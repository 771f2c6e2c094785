------------------------------ MODULE MCPredExp ------------------------------
(* Small instances of PredExp.  One: a single node with every kind of filter, *)
(* on every kind of bin.  Graph: three nodes on the last update, linked in    *)
(* every way, complete or not.                                                *)
EXTENDS PredExp, TLC

CONSTANTS n1, n2, n3, s1, s2, point, area

One   == {n1}
Three == {n1, n2, n3}
X     == {"x"}
XY    == {"x", "y"}

OnlyOne    == {1}
\* with Wrap = 4 and Long = 6: what each conversion takes, changes and refuses
Integers   == {-7, -3, -1, 0, 1, 4, 6, 12}
None       == {}
Strings    == {s1, s2}
Shapes     == {point, area}
AllColls   == {"array", "mapkey", "mapval"}
\* s2 as a pattern matches more than itself
Matches    == {<<s1, s1>>, <<s2, s2>>, <<s1, s2>>}
Insides    == {<<point, area>>, <<area, area>>}
Equal      == {"eq"}
AllMethods == {"last_update", "expiration_time"}
OneMethod  == {"last_update"}

\* the calls tell the nodes apart by no name; used with invariants only
NodeSymmetry == Permutations(Nodes)

Content(kind, keys, vals) == [kind |-> kind, keys |-> keys, vals |-> vals]
NoContent == Content("none", <<>>, <<>>)
Scalar(v) == Content("scalar", <<>>, <<v>>)

Sequences012 == {<<>>, <<0>>, <<1>>, <<2>>, <<0, 1>>, <<1, s1>>, <<s1>>, <<s1, s2>>, <<point, area>>}
Contents ==
  {NoContent} \cup {Scalar(v) : v \in {-1, 0, 1, 2, s1, s2, point, area}}
  \cup {Content("list", <<>>, s) : s \in Sequences012}
  \cup {Content("map", <<0>>, <<1>>), Content("map", <<s1, 1>>, <<0, 2>>), Content("map", <<>>, <<>>)}

\* records with one bin
OneBin == [x : Contents, last_update : {0, 1, 2}, expiration_time : {1}]
          \cup [x : {NoContent}, last_update : {1}, expiration_time : {0, 1, 2}]
\* records with two bins of integers
TwoBins == [x : {NoContent, Scalar(0), Scalar(1)}, y : {NoContent, Scalar(0), Scalar(1)}]
\* records of which only the time of the last update counts
Updated == [last_update : {0, 1}]
=============================================================================

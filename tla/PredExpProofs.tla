---------------------------- MODULE PredExpProofs ----------------------------
(***************************************************************************)
(* Proofs about PredExp, for any nodes, bins, values, records and calls.  An   *)
(* expression without a loop has no more levels than there are nodes           *)
(* (NodeInduction); level by level, the code of a node puts one truth on the   *)
(* stack of the server and leaves what was there (Yields), the one its         *)
(* meaning has.                                                             *)
(***************************************************************************)
EXTENDS PredExp, FiniteSetTheorems, WellFoundedInduction, SequenceTheorems, TLAPS

N == Cardinality(Nodes)

\* links go to nodes with filters; list_and and the like set both parts of a collection
Linked ==
  \A n \in Made : /\ Kids(n) \subseteq Made
                  /\ node[n].coll # NULL => node[n].pred \in {"and", "or"}

Basic == TypeOK /\ Linked

-----------------------------------------------------------------------------
(* Recursive functions of numbers: there is no least number at which one is   *)
(* missing.                                                                  *)

LEMMA Smallest ==
  ASSUME NEW T \in SUBSET Nat, T # {}
  PROVE  \E m \in T : \A k \in T : m <= k
<1>1. PICK m \in T : \A k \in T : ~(<<k, m>> \in OpToRel(<, Nat))
  BY WFMin, NatLessThanWellFounded
<1>2. ASSUME NEW k \in T PROVE m <= k
  <2>1. ~(k < m)
    BY <1>1 DEF OpToRel
  <2> QED
    BY <2>1
<1> QED
  BY <1>2

LEMMA NType == N \in Nat
BY NodesAssumption, FS_CardinalityType DEF N

CodeTo(f, m) == f = [d \in 0..m |-> [n \in Nodes |-> IF d = 0 THEN <<>> ELSE Node2Predexp(f[d - 1], n)]]

LEMMA CodeExists ==
  ASSUME NEW n \in Nat
  PROVE  \E f : CodeTo(f, n)
<1> DEFINE T == {m \in Nat : ~\E f : CodeTo(f, m)}
<1> SUFFICES ASSUME T # {} PROVE FALSE
  OBVIOUS
<1>1. PICK m \in T : \A k \in T : m <= k
  BY Smallest
<1>2. m # 0
  <2> DEFINE f == [d \in 0..0 |-> [x \in Nodes |-> <<>>]]
  <2>1. CodeTo(f, 0)
    BY DEF CodeTo
  <2> QED
    BY <1>1, <2>1
<1>3. PICK f : CodeTo(f, m - 1)
  BY <1>1, <1>2
<1> DEFINE Level(g, d) == [x \in Nodes |-> IF d = 0 THEN <<>> ELSE Node2Predexp(g[d - 1], x)]
           g == [d \in 0..m |-> Level(f, d)]
<1>4. m \in Nat /\ 0..m - 1 \subseteq 0..m
  BY <1>1
<1>5. \A d \in 0..m : g[d] = Level(f, d)
  OBVIOUS
<1>6. \A d \in 0..m - 1 : f[d] = Level(f, d)
  BY <1>3 DEF CodeTo
<1> HIDE DEF g
<1>7. \A d \in 0..m - 1 : g[d] = f[d]
  BY <1>4, <1>5, <1>6
<1>8. ASSUME NEW d \in 0..m PROVE g[d] = Level(g, d)
  <2>1. CASE d = 0
    BY <1>5, <2>1
  <2>2. CASE d # 0
    <3>1. d - 1 \in 0..m - 1
      BY <1>4, <2>2
    <3>2. g[d - 1] = f[d - 1]
      BY <1>7, <3>1
    <3> QED
      BY <1>5, <3>2
  <2> QED
    BY <2>1, <2>2
<1>9. CodeTo(g, m)
  BY <1>8 DEF CodeTo, g
<1> QED
  BY <1>1, <1>9

LEMMA CodeLevel ==
  ASSUME NEW d \in 1..N, NEW n \in Nodes
  PROVE  code[d][n] = Node2Predexp(code[d - 1], n)
<1>1. code = CHOOSE f : CodeTo(f, N)
  BY DEF code, CodeTo, N
<1>2. CodeTo(code, N)
  BY <1>1, CodeExists, NType
<1>3. d \in 0..N /\ d # 0
  BY NType
<1>4. code[d] = [x \in Nodes |-> IF d = 0 THEN <<>> ELSE Node2Predexp(code[d - 1], x)]
  BY <1>2, <1>3 DEF CodeTo
<1> QED
  BY <1>3, <1>4

SelectedTo(f, m) == f = [d \in 0..m |-> [n \in Nodes |-> IF d = 0 THEN {} ELSE Selection(f[d - 1], n)]]

LEMMA SelectedExists ==
  ASSUME NEW n \in Nat
  PROVE  \E f : SelectedTo(f, n)
<1> DEFINE T == {m \in Nat : ~\E f : SelectedTo(f, m)}
<1> SUFFICES ASSUME T # {} PROVE FALSE
  OBVIOUS
<1>1. PICK m \in T : \A k \in T : m <= k
  BY Smallest
<1>2. m # 0
  <2> DEFINE f == [d \in 0..0 |-> [x \in Nodes |-> {}]]
  <2>1. SelectedTo(f, 0)
    BY DEF SelectedTo
  <2> QED
    BY <1>1, <2>1
<1>3. PICK f : SelectedTo(f, m - 1)
  BY <1>1, <1>2
<1> DEFINE Level(g, d) == [x \in Nodes |-> IF d = 0 THEN {} ELSE Selection(g[d - 1], x)]
           g == [d \in 0..m |-> Level(f, d)]
<1>4. m \in Nat /\ 0..m - 1 \subseteq 0..m
  BY <1>1
<1>5. \A d \in 0..m : g[d] = Level(f, d)
  OBVIOUS
<1>6. \A d \in 0..m - 1 : f[d] = Level(f, d)
  BY <1>3 DEF SelectedTo
<1> HIDE DEF g
<1>7. \A d \in 0..m - 1 : g[d] = f[d]
  BY <1>4, <1>5, <1>6
<1>8. ASSUME NEW d \in 0..m PROVE g[d] = Level(g, d)
  <2>1. CASE d = 0
    BY <1>5, <2>1
  <2>2. CASE d # 0
    <3>1. d - 1 \in 0..m - 1
      BY <1>4, <2>2
    <3>2. g[d - 1] = f[d - 1]
      BY <1>7, <3>1
    <3> QED
      BY <1>5, <3>2
  <2> QED
    BY <2>1, <2>2
<1>9. SelectedTo(g, m)
  BY <1>8 DEF SelectedTo, g
<1> QED
  BY <1>1, <1>9

LEMMA SelectedLevel ==
  ASSUME NEW d \in 1..N, NEW n \in Nodes
  PROVE  selected[d][n] = Selection(selected[d - 1], n)
<1>1. selected = CHOOSE f : SelectedTo(f, N)
  BY DEF selected, SelectedTo, N
<1>2. SelectedTo(selected, N)
  BY <1>1, SelectedExists, NType
<1>3. d \in 0..N /\ d # 0
  BY NType
<1>4. selected[d] = [x \in Nodes |-> IF d = 0 THEN {} ELSE Selection(selected[d - 1], x)]
  BY <1>2, <1>3 DEF SelectedTo
<1> QED
  BY <1>3, <1>4

-----------------------------------------------------------------------------
(* The graph *)

LEMMA ReachSelf ==
  ASSUME NEW n \in Made
  PROVE  n \in Reached(n)
BY DEF Reached

LEMMA ReachKid ==
  ASSUME Linked, NEW n, NEW m \in Reached(n), NEW k \in Kids(m)
  PROVE  k \in Reached(n)
<1>1. m \in Made
  BY DEF Reached
<1>2. k \in Made
  BY <1>1 DEF Linked
<1>3. ASSUME NEW S \in SUBSET Made, n \in S, \A x \in S : Kids(x) \subseteq S PROVE k \in S
  <2>1. m \in S
    BY <1>3 DEF Reached
  <2> QED
    BY <1>3, <2>1
<1> QED
  BY <1>2, <1>3 DEF Reached

LEMMA ReachTrans ==
  ASSUME NEW n, NEW m \in Reached(n), NEW k \in Reached(m)
  PROVE  k \in Reached(n)
<1>1. k \in Made
  BY DEF Reached
<1>2. ASSUME NEW S \in SUBSET Made, n \in S, \A x \in S : Kids(x) \subseteq S PROVE k \in S
  <2>1. m \in S
    BY <1>2 DEF Reached
  <2> QED
    BY <1>2, <2>1 DEF Reached
<1> QED
  BY <1>1, <1>2 DEF Reached

\* what is below a node is below one of its children
LEMMA ReachSplit ==
  ASSUME Linked, NEW n \in Made, NEW m \in Reached(n)
  PROVE  m = n \/ \E k \in Kids(n) : m \in Reached(k)
<1> DEFINE S == {n} \cup {x \in Made : \E k \in Kids(n) : x \in Reached(k)}
<1>1. S \in SUBSET Made /\ n \in S
  OBVIOUS
<1>2. ASSUME NEW x \in S, NEW y \in Kids(x) PROVE y \in S
  <2>1. y \in Made
    BY <1>1 DEF Linked
  <2>2. CASE x = n
    BY <2>1, <2>2, ReachSelf
  <2>3. CASE x # n
    <3>1. PICK k \in Kids(n) : x \in Reached(k)
      BY <2>3
    <3>2. y \in Reached(k)
      BY <3>1, ReachKid
    <3> QED
      BY <2>1, <3>2
  <2> QED
    BY <2>2, <2>3
<1>3. m \in S
  BY <1>1, <1>2 DEF Reached
<1> QED
  BY <1>3

\* Q holds level by level: a path of an expression without a loop visits no node twice,
\* so that there are always more levels left than nodes that are not on the path
LEMMA NodeInduction ==
  ASSUME Linked, NEW top \in Made, ~Looping(top),
         NEW Q \in SUBSET ((1..N) \X Made),
         \A d \in 1..N : \A n \in Reached(top) :
           (\A k \in Kids(n) : <<d - 1, k>> \in Q) => <<d, n>> \in Q
  PROVE  <<N, top>> \in Q
<1> DEFINE Path(P, n, d) == /\ P \in SUBSET Made /\ n \in P /\ n \in Reached(top)
                            /\ Cardinality(Nodes \ P) < d
                            /\ \A p \in P : n \in Reached(p)
           T == {d \in 1..N : \E P \in SUBSET Made : \E n \in P : Path(P, n, d) /\ <<d, n>> \notin Q}
<1>1. T = {}
  <2> SUFFICES ASSUME T # {} PROVE FALSE
    OBVIOUS
  <2>1. PICK d \in T : \A e \in T : d <= e
    <3>1. T \in SUBSET Nat
      OBVIOUS
    <3> QED
      BY <3>1, Smallest
  <2>2. PICK P \in SUBSET Made : \E n \in P : Path(P, n, d) /\ <<d, n>> \notin Q
    BY <2>1
  <2>3. PICK n \in P : Path(P, n, d) /\ <<d, n>> \notin Q
    BY <2>2
  <2>4. ASSUME NEW k \in Kids(n) PROVE <<d - 1, k>> \in Q
    <3>1. n \in Reached(top) /\ n \in Made
      BY <2>3
    <3>2. k \in Made /\ k \in Reached(top)
      BY <3>1, ReachKid DEF Linked
    <3>3. k \notin P
      <4> SUFFICES ASSUME k \in P PROVE FALSE
        OBVIOUS
      <4>1. n \in Reached(k)
        BY <2>3
      <4>2. Looping(top)
        BY <2>4, <3>1, <4>1 DEF Looping
      <4> QED
        BY <4>2
    <3> DEFINE R == P \cup {k}
    <3>4. R \in SUBSET Made /\ k \in R
      BY <3>2
    <3>5. \A p \in R : k \in Reached(p)
      <4>1. k \in Reached(k)
        BY <3>2, ReachSelf
      <4>2. ASSUME NEW p \in P PROVE k \in Reached(p)
        <5>1. n \in Reached(p)
          BY <2>3
        <5> QED
          BY <5>1, ReachKid
      <4> QED
        BY <4>1, <4>2
    <3>6. Cardinality(Nodes \ R) < d - 1 /\ Cardinality(Nodes \ R) \in Nat
      <4>1. IsFiniteSet(Nodes \ P)
        BY NodesAssumption, FS_Subset
      <4>2. k \in Nodes \ P
        BY <3>2, <3>3 DEF Made
      <4>3. /\ Cardinality((Nodes \ P) \ {k}) = Cardinality(Nodes \ P) - 1
            /\ IsFiniteSet((Nodes \ P) \ {k})
        BY <4>1, <4>2, FS_RemoveElement
      <4>4. Nodes \ R = (Nodes \ P) \ {k}
        OBVIOUS
      <4>5. Cardinality(Nodes \ P) \in Nat /\ Cardinality(Nodes \ R) \in Nat
        BY <4>1, <4>3, <4>4, FS_CardinalityType
      <4>6. Cardinality(Nodes \ P) < d /\ d \in Nat
        BY <2>1, <2>3, NType
      <4> DEFINE a == Cardinality(Nodes \ P)
                 b == Cardinality(Nodes \ R)
      <4>7. b = a - 1
        BY <4>3, <4>4
      <4>8. a \in Nat /\ b \in Nat /\ a < d /\ d \in Nat
        BY <4>5, <4>6
      <4> HIDE DEF a, b
      <4>9. b < d - 1 /\ b \in Nat
        BY <4>7, <4>8
      <4> QED
        BY <4>9 DEF a, b
    <3>7. d - 1 \in 1..N /\ ~(d <= d - 1)
      BY <2>1, <3>6, NType
    <3>8. d - 1 \notin T
      BY <2>1, <3>7
    <3>9. Path(R, k, d - 1)
      BY <3>2, <3>4, <3>5, <3>6
    <3> HIDE DEF R, Path
    <3> QED
      BY <3>4, <3>7, <3>8, <3>9
  <2> QED
    BY <2>1, <2>3, <2>4
<1>2. Cardinality(Nodes \ {top}) = N - 1 /\ N \in 1..N
  <2>1. top \in Nodes
    BY DEF Made
  <2>2. Cardinality(Nodes \ {top}) = N - 1 /\ IsFiniteSet(Nodes \ {top})
    BY <2>1, NodesAssumption, FS_RemoveElement DEF N
  <2>3. N - 1 \in Nat
    BY <2>2, FS_CardinalityType
  <2> QED
    BY <2>2, <2>3, NType
<1>3. Path({top}, top, N)
  BY <1>2, ReachSelf, NType
<1> HIDE DEF Path
<1> QED
  BY <1>1, <1>2, <1>3

-----------------------------------------------------------------------------
(* The calls of the program *)

\* one node has another hash
Sets(n, h) == node' = [node EXCEPT ![n] = h] /\ root' = root

LEMMA MadeNode ==
  ASSUME TypeOK, NEW n \in Made
  PROVE  node[n] \in Hash /\ n \in Nodes
BY DEF TypeOK, Made

LEMMA HashFields ==
  ASSUME NEW h \in Hash
  PROVE  /\ h.bin \in Bins \cup {"record"} /\ h.true \in BOOLEAN
         /\ h.filter \in Filters \cup {NULL} /\ h.value \in Values \cup {NULL}
         /\ h.coll \in Colls \cup {NULL} /\ h.pred \in {"and", "or", NULL}
         /\ h.method \in Methods \cup {NULL}
         /\ h.and \in Seq(Nodes) /\ h.or \in Seq(Nodes)
BY DEF Hash

LEMMA SetsBasic ==
  ASSUME Basic, NEW n \in Nodes, NEW h \in Hash, Sets(n, h),
         ToSet(h.and) \cup ToSet(h.or) \subseteq Made,
         h.coll # NULL => h.pred \in {"and", "or"}
  PROVE  Basic'
<1>1. /\ node \in [Nodes -> Hash \cup {NULL}] /\ node' \in [Nodes -> Hash \cup {NULL}]
      /\ \A m \in Nodes : node'[m] = IF m = n THEN h ELSE node[m]
  BY DEF Basic, TypeOK, Sets
<1>2. h # NULL
  BY NullAssumption
<1>3. Made \subseteq Made' /\ \A m \in Made' : m = n \/ (m \in Made /\ m # n)
  BY <1>1, <1>2 DEF Made
<1>4. TypeOK'
  BY <1>1, <1>2 DEF Basic, TypeOK, Sets
<1>5. ASSUME NEW m \in Made'
      PROVE  Kids(m)' \subseteq Made' /\ (node[m].coll # NULL => node[m].pred \in {"and", "or"})'
  <2>1. CASE m = n
    <3>1. node'[m] = h
      BY <1>1, <2>1
    <3> QED
      BY <1>3, <3>1 DEF Kids
  <2>2. CASE m # n
    <3>1. m \in Made /\ node'[m] = node[m]
      BY <1>1, <1>3, <2>2 DEF Made
    <3>2. Kids(m) \subseteq Made /\ (node[m].coll # NULL => node[m].pred \in {"and", "or"})
      BY <3>1 DEF Basic, Linked
    <3> QED
      BY <1>3, <3>1, <3>2 DEF Kids
  <2> QED
    BY <2>1, <2>2
<1> QED
  BY <1>4, <1>5 DEF Basic, Linked

\* the links and the collection of a node are as they should be
LEMMA MadeLinked ==
  ASSUME Basic, NEW n \in Made
  PROVE  /\ ToSet(node[n].and) \cup ToSet(node[n].or) \subseteq Made
         /\ node[n].coll # NULL => node[n].pred \in {"and", "or"}
BY DEF Basic, Linked, Kids

LEMMA NewStep ==
  ASSUME Basic, NEW n \in Nodes, NEW b \in Bins \cup {"record"}, New(n, b)
  PROVE  Basic'
<1> DEFINE h == [bin |-> b, true |-> TRUE, filter |-> NULL, value |-> NULL, coll |-> NULL,
                 pred |-> NULL, method |-> NULL, and |-> <<>>, or |-> <<>>]
<1>1. h \in Hash
  BY EmptySeq DEF Hash
<1>2. Sets(n, h)
  BY DEF New, Sets
<1>3. ToSet(h.and) \cup ToSet(h.or) \subseteq Made
  BY DEF ToSet
<1>4. h.coll = NULL
  OBVIOUS
<1> HIDE DEF h
<1> QED
  BY <1>1, <1>2, <1>3, <1>4, SetsBasic

LEMMA AddValStep ==
  ASSUME Basic, NEW n \in Made, NEW f \in Filters, NEW v \in Values, AddVal(n, f, v)
  PROVE  Basic'
<1> DEFINE h == [node[n] EXCEPT !.filter = f, !.value = v]
<1>1. node[n] \in Hash /\ n \in Nodes
  BY MadeNode DEF Basic
<1>2. h \in Hash
  BY <1>1 DEF Hash
<1>3. /\ h.and = node[n].and /\ h.or = node[n].or
      /\ h.coll = node[n].coll /\ h.pred = node[n].pred
  BY <1>1 DEF Hash
<1>4. Sets(n, h)
  BY <1>1 DEF AddVal, Sets, Basic, TypeOK
<1> HIDE DEF h
<1> QED
  BY <1>1, <1>2, <1>3, <1>4, MadeLinked, SetsBasic

LEMMA NotStep ==
  ASSUME Basic, NEW n \in Made, Not(n)
  PROVE  Basic'
<1> DEFINE h == [node[n] EXCEPT !.true = FALSE]
<1>1. node[n] \in Hash /\ n \in Nodes
  BY MadeNode DEF Basic
<1>2. h \in Hash
  BY <1>1 DEF Hash
<1>3. /\ h.and = node[n].and /\ h.or = node[n].or
      /\ h.coll = node[n].coll /\ h.pred = node[n].pred
  BY <1>1 DEF Hash
<1>4. Sets(n, h)
  BY <1>1 DEF Not, Sets, Basic, TypeOK
<1> HIDE DEF h
<1> QED
  BY <1>1, <1>2, <1>3, <1>4, MadeLinked, SetsBasic

LEMMA CollectionStep ==
  ASSUME Basic, NEW n \in Made, NEW c \in Colls, NEW p \in {"and", "or"}, Collection(n, c, p)
  PROVE  Basic'
<1> DEFINE h == [node[n] EXCEPT !.coll = c, !.pred = p]
<1>1. node[n] \in Hash /\ n \in Nodes
  BY MadeNode DEF Basic
<1>2. h \in Hash
  BY <1>1 DEF Hash
<1>3. h.and = node[n].and /\ h.or = node[n].or /\ h.pred = p
  BY <1>1 DEF Hash
<1>4. Sets(n, h)
  BY <1>1 DEF Collection, Sets, Basic, TypeOK
<1> HIDE DEF h
<1> QED
  BY <1>1, <1>2, <1>3, <1>4, MadeLinked, SetsBasic

LEMMA MethodStep ==
  ASSUME Basic, NEW n \in Made, NEW m \in Methods, RecordMethod(n, m)
  PROVE  Basic'
<1> DEFINE h == [node[n] EXCEPT !.method = m]
<1>1. node[n] \in Hash /\ n \in Nodes
  BY MadeNode DEF Basic
<1>2. h \in Hash
  BY <1>1 DEF Hash
<1>3. /\ h.and = node[n].and /\ h.or = node[n].or
      /\ h.coll = node[n].coll /\ h.pred = node[n].pred
  BY <1>1 DEF Hash
<1>4. Sets(n, h)
  BY <1>1 DEF RecordMethod, Sets, Basic, TypeOK
<1> HIDE DEF h
<1> QED
  BY <1>1, <1>2, <1>3, <1>4, MadeLinked, SetsBasic

LEMMA Appended ==
  ASSUME NEW s \in Seq(Nodes), NEW m \in Made, ToSet(s) \subseteq Made
  PROVE  Append(s, m) \in Seq(Nodes) /\ ToSet(Append(s, m)) \subseteq Made
<1>1. m \in Nodes
  BY DEF Made
<1>2. /\ Append(s, m) \in Seq(Nodes) /\ Len(Append(s, m)) = Len(s) + 1 /\ Len(s) \in Nat
      /\ \A i \in 1..Len(s) : Append(s, m)[i] = s[i]
      /\ Append(s, m)[Len(s) + 1] = m
  BY <1>1, AppendProperties, LenProperties
<1>3. DOMAIN Append(s, m) = 1..Len(s) + 1 /\ DOMAIN s = 1..Len(s)
  BY <1>2, LenProperties
<1>4. ASSUME NEW i \in 1..Len(s) + 1 PROVE Append(s, m)[i] \in Made
  <2>1. CASE i = Len(s) + 1
    BY <1>2, <2>1
  <2>2. CASE i # Len(s) + 1
    <3>1. i \in 1..Len(s)
      BY <1>2, <2>2
    <3>2. s[i] \in ToSet(s)
      BY <1>3, <3>1 DEF ToSet
    <3> QED
      BY <1>2, <3>1, <3>2
  <2> QED
    BY <2>1, <2>2
<1> QED
  BY <1>2, <1>3, <1>4 DEF ToSet

LEMMA FilledMade ==
  ASSUME NEW m \in Nodes, Filled(m)
  PROVE  m \in Made
BY DEF Filled, Made

LEMMA AndStep ==
  ASSUME Basic, NEW n \in Nodes, NEW m \in Nodes, And(n, m)
  PROVE  Basic'
<1> DEFINE h == [node[n] EXCEPT !.and = Append(@, m)]
<1>1. n \in Made /\ m \in Made
  BY FilledMade DEF And, Made
<1>2. node[n] \in Hash
  BY <1>1, MadeNode DEF Basic
<1>3. node[n].and \in Seq(Nodes)
  BY <1>2, HashFields
<1>4. Append(node[n].and, m) \in Seq(Nodes) /\ ToSet(Append(node[n].and, m)) \subseteq Made
  BY <1>1, <1>3, Appended, MadeLinked
<1>5. h \in Hash
  BY <1>2, <1>4 DEF Hash
<1>6. /\ h.and = Append(node[n].and, m) /\ h.or = node[n].or
      /\ h.coll = node[n].coll /\ h.pred = node[n].pred
  BY <1>2 DEF Hash
<1>7. Sets(n, h)
  BY <1>2 DEF And, Sets, Basic, TypeOK
<1> HIDE DEF h
<1> QED
  BY <1>1, <1>4, <1>5, <1>6, <1>7, MadeLinked, SetsBasic

LEMMA OrStep ==
  ASSUME Basic, NEW n \in Nodes, NEW m \in Nodes, Or(n, m)
  PROVE  Basic'
<1> DEFINE h == [node[n] EXCEPT !.or = Append(@, m)]
<1>1. n \in Made /\ m \in Made
  BY FilledMade DEF Or, Made
<1>2. node[n] \in Hash
  BY <1>1, MadeNode DEF Basic
<1>3. node[n].or \in Seq(Nodes)
  BY <1>2, HashFields
<1>4. Append(node[n].or, m) \in Seq(Nodes) /\ ToSet(Append(node[n].or, m)) \subseteq Made
  BY <1>1, <1>3, Appended, MadeLinked
<1>5. h \in Hash
  BY <1>2, <1>4 DEF Hash
<1>6. /\ h.or = Append(node[n].or, m) /\ h.and = node[n].and
      /\ h.coll = node[n].coll /\ h.pred = node[n].pred
  BY <1>2 DEF Hash
<1>7. Sets(n, h)
  BY <1>2 DEF Or, Sets, Basic, TypeOK
<1> HIDE DEF h
<1> QED
  BY <1>1, <1>4, <1>5, <1>6, <1>7, MadeLinked, SetsBasic

LEMMA WhereStep ==
  ASSUME Basic, NEW n \in Nodes, Where(n)
  PROVE  Basic'
<1>1. TypeOK' /\ node' = node
  BY DEF Basic, TypeOK, Where, Filled
<1>2. Linked'
  BY <1>1 DEF Basic, Linked, Kids, Made
<1> QED
  BY <1>1, <1>2 DEF Basic

LEMMA StepBasic ==
  ASSUME Basic, [Next]_vars
  PROVE  Basic'
<1>1. CASE UNCHANGED vars
  BY <1>1 DEF vars, Basic, TypeOK, Linked, Kids, Made
<1>2. ASSUME NEW n \in Nodes, Build(n) PROVE Basic'
  <2>1. CASE \E b \in Bins \cup IF Methods = {} THEN {} ELSE {"record"} : New(n, b)
    BY <2>1, NewStep
  <2>2. CASE \E f \in Filters, v \in Values : Compare(n, f, v) \/ CompareGeo(n, f, v)
    <3>1. n \in Made
      BY <2>2 DEF Compare, CompareGeo, Made
    <3>2. PICK f \in Filters, v \in Values : AddVal(n, f, v)
      BY <2>2 DEF Compare, CompareGeo
    <3> QED
      BY <3>1, <3>2, AddValStep
  <2>3. CASE Not(n)
    BY <2>3, NotStep DEF Not, Made
  <2>4. CASE \E c \in Colls, p \in {"and", "or"} : Collection(n, c, p)
    BY <2>4, CollectionStep DEF Collection, Made
  <2>5. CASE \E m \in Methods : RecordMethod(n, m)
    BY <2>5, MethodStep DEF RecordMethod, Made
  <2>6. CASE \E m \in Nodes : And(n, m) \/ Or(n, m)
    BY <2>6, AndStep, OrStep
  <2>7. CASE Where(n)
    BY <2>7, WhereStep
  <2>8. CASE RootLinks(n)
    <3>1. root \in Nodes
      BY <2>8 DEF RootLinks, Basic, TypeOK
    <3> QED
      BY <2>8, <3>1, AndStep, OrStep DEF RootLinks
  <2> QED
    BY <1>2, <2>1, <2>2, <2>3, <2>4, <2>5, <2>6, <2>7, <2>8 DEF Build
<1> QED
  BY <1>1, <1>2 DEF Next

LEMMA InitBasic == Init => Basic
BY DEF Init, Basic, TypeOK, Linked, Made

THEOREM Invariance == Spec => []Basic
<1>1. Init => Basic
  BY InitBasic
<1>2. Basic /\ [Next]_vars => Basic'
  BY StepBasic
<1> QED
  BY <1>1, <1>2, PTL DEF Spec

\* Every variable of a predicate expression keeps its type, for any nodes, bins and
\* calls (PredExpNode, PredExp).
THEOREM TypeCorrect == Spec => []TypeOK
<1>1. Basic => TypeOK
  BY DEF Basic
<1> QED
  BY <1>1, Invariance, PTL

-----------------------------------------------------------------------------
(* What the compiler emits *)

Args == Int \cup Values \cup Filters \cup Bins \cup (Bins \X Colls) \cup Methods \cup {NULL, "and", "or"}
Ops  == {"value", "int", "str", "geo", "collection", "iterate", "record", "var", "bin",
         "not", "and", "or", "raise"}
Toks == [op : Ops, arg : Args]

LEMMA TokType ==
  ASSUME NEW o \in Ops, NEW a \in Args
  PROVE  Tok(o, a) \in Toks /\ Tok(o, a).op = o /\ Tok(o, a).arg = a
BY DEF Tok, Toks

LEMMA RaisesJoin ==
  ASSUME NEW s \in Seq(Toks), NEW t \in Seq(Toks)
  PROVE  s \o t \in Seq(Toks) /\ (Raises(s \o t) <=> Raises(s) \/ Raises(t))
<1>1. /\ s \o t \in Seq(Toks) /\ Len(s \o t) = Len(s) + Len(t)
      /\ \A i \in 1..Len(s) + Len(t) : (s \o t)[i] = IF i <= Len(s) THEN s[i] ELSE t[i - Len(s)]
  BY ConcatProperties
<1>2. Len(s) \in Nat /\ Len(t) \in Nat
  BY LenProperties
<1>3. ASSUME NEW i \in 1..Len(s), s[i].op = "raise" PROVE Raises(s \o t)
  <2>1. i \in 1..Len(s) + Len(t) /\ (s \o t)[i] = s[i]
    BY <1>1, <1>2
  <2> QED
    BY <1>1, <1>3, <2>1 DEF Raises
<1>4. ASSUME NEW i \in 1..Len(t), t[i].op = "raise" PROVE Raises(s \o t)
  <2>1. i + Len(s) \in 1..Len(s) + Len(t) /\ ~(i + Len(s) <= Len(s)) /\ i + Len(s) - Len(s) = i
    BY <1>2
  <2>2. (s \o t)[i + Len(s)] = t[i]
    BY <1>1, <2>1
  <2> QED
    BY <1>1, <1>4, <2>1, <2>2 DEF Raises
<1>5. ASSUME NEW i \in 1..Len(s) + Len(t), (s \o t)[i].op = "raise" PROVE Raises(s) \/ Raises(t)
  <2>1. CASE i <= Len(s)
    <3>1. i \in 1..Len(s) /\ (s \o t)[i] = s[i]
      BY <1>1, <1>2, <2>1
    <3> QED
      BY <1>5, <3>1 DEF Raises
  <2>2. CASE ~(i <= Len(s))
    <3>1. i - Len(s) \in 1..Len(t) /\ (s \o t)[i] = t[i - Len(s)]
      BY <1>1, <1>2, <2>2
    <3> QED
      BY <1>5, <3>1 DEF Raises
  <2> QED
    BY <2>1, <2>2
<1> QED
  BY <1>1, <1>3, <1>4, <1>5 DEF Raises

LEMMA RaisesEmpty == <<>> \in Seq(Toks) /\ ~Raises(<<>>)
BY EmptySeq DEF Raises

LEMMA RaisesOne ==
  ASSUME NEW x \in Toks
  PROVE  <<x>> \in Seq(Toks) /\ (Raises(<<x>>) <=> x.op = "raise")
<1>1. Len(<<x>>) = 1 /\ <<x>>[1] = x /\ <<x>> \in Seq(Toks)
  OBVIOUS
<1> QED
  BY <1>1 DEF Raises

LEMMA RaisesTwo ==
  ASSUME NEW x \in Toks, NEW y \in Toks
  PROVE  <<x, y>> \in Seq(Toks) /\ (Raises(<<x, y>>) <=> x.op = "raise" \/ y.op = "raise")
<1>1. Len(<<x, y>>) = 2 /\ <<x, y>>[1] = x /\ <<x, y>>[2] = y /\ <<x, y>> \in Seq(Toks)
  OBVIOUS
<1> QED
  BY <1>1 DEF Raises

\* the operands of comparisons and collections
LEMMA ValueToksType ==
  ASSUME NEW h \in Hash, h.value # NULL
  PROVE  ValueToks(h) \in Seq(Toks) /\ ~Raises(ValueToks(h))
<1>1. h.value \in Args /\ h.filter \in Args
  BY HashFields DEF Args
<1>2. h.value \in Ints => Uint(h.value) \in Args
  <2>1. \A v \in Int : v % Wrap \in Int
    BY IntsAssumption
  <2>2. \A v \in Ints : Uint(v) \in Int
    BY <2>1, IntsAssumption DEF Uint
  <2> QED
    BY <2>2 DEF Args
<1>3. \A o \in {"int", "str", "geo"} : \A a \in Args :
        <<Tok("value", a), Tok(o, h.filter)>> \in Seq(Toks) /\ ~Raises(<<Tok("value", a), Tok(o, h.filter)>>)
  <2> TAKE o \in {"int", "str", "geo"}
  <2> TAKE a \in Args
  <2>1. /\ Tok("value", a) \in Toks /\ Tok("value", a).op # "raise"
        /\ Tok(o, h.filter) \in Toks /\ Tok(o, h.filter).op # "raise"
    BY <1>1, TokType DEF Ops
  <2> QED
    BY <2>1, RaisesTwo
<1> QED
  BY <1>1, <1>2, <1>3 DEF ValueToks

LEMMA CollectionToksType ==
  ASSUME NEW h \in Hash, h.bin # "record", h.coll # NULL, h.pred \in {"and", "or"}
  PROVE  CollectionToks(h) \in Seq(Toks) /\ ~Raises(CollectionToks(h))
<1>1. <<h.bin, h.coll>> \in Args /\ h.pred \in Args
  BY HashFields DEF Args
<1>2. /\ Tok("collection", <<h.bin, h.coll>>) \in Toks /\ Tok("collection", <<h.bin, h.coll>>).op # "raise"
      /\ Tok("iterate", h.pred) \in Toks /\ Tok("iterate", h.pred).op # "raise"
  BY <1>1, TokType DEF Ops
<1> QED
  BY <1>2, RaisesTwo DEF CollectionToks

\* what the compiler takes
Sendable(h) == Complete(h) /\ Fits(h)

LEMMA OwnType ==
  ASSUME NEW h \in Hash, h.coll # NULL => h.pred \in {"and", "or"}
  PROVE  Own(h) \in Seq(Toks) /\ (Raises(Own(h)) <=> ~Sendable(h))
<1>1. Raise \in Seq(Toks) /\ Raises(Raise)
  <2>1. Tok("raise", NULL) \in Toks /\ Tok("raise", NULL).op = "raise"
    BY TokType DEF Ops, Args
  <2> QED
    BY <2>1, RaisesOne DEF Raise
<1>2. CASE ~Sendable(h)
  <2>1. Own(h) = Raise
    BY <1>2 DEF Own, Sendable, Complete
  <2> QED
    BY <1>1, <1>2, <2>1
<1>3. CASE Sendable(h) /\ h.bin = "record"
  <2>1. h.method \in Args /\ Ulong(h.value) \in Args /\ h.filter \in Args
    <3>1. \A v \in Ints : Ulong(v) \in Int
      BY IntsAssumption DEF Ulong
    <3> QED
      BY <1>3, <3>1, HashFields DEF Args, Sendable, Complete
  <2> DEFINE a == Tok("record", h.method)
             b == Tok("value", Ulong(h.value))
             c == Tok("int", h.filter)
  <2>2. /\ a \in Toks /\ a.op # "raise" /\ b \in Toks /\ b.op # "raise"
        /\ c \in Toks /\ c.op # "raise"
    BY <2>1, TokType DEF Ops
  <2>3. Own(h) = <<a, b, c>>
    BY <1>3 DEF Own, Sendable, Complete
  <2> HIDE DEF a, b, c
  <2>4. Len(<<a, b, c>>) = 3 /\ <<a, b, c>> \in Seq(Toks)
        /\ <<a, b, c>>[1] = a /\ <<a, b, c>>[2] = b /\ <<a, b, c>>[3] = c
    BY <2>2
  <2>5. ~Raises(<<a, b, c>>)
    BY <2>2, <2>4 DEF Raises
  <2> QED
    BY <1>3, <2>3, <2>4, <2>5
<1>4. CASE Sendable(h) /\ h.bin # "record" /\ h.coll = NULL
  <2>1. h.value # NULL /\ h.bin \in Args
    BY <1>4, HashFields DEF Sendable, Complete, Args
  <2>2. Tok("bin", h.bin) \in Toks /\ Tok("bin", h.bin).op # "raise"
    BY <2>1, TokType DEF Ops
  <2> DEFINE s == <<Tok("bin", h.bin)>>
  <2>3. Own(h) = s \o ValueToks(h)
    BY <1>4, <2>1 DEF Own, Sendable
  <2>4. s \in Seq(Toks) /\ ~Raises(s)
    BY <2>2, RaisesOne
  <2>5. ValueToks(h) \in Seq(Toks) /\ ~Raises(ValueToks(h))
    BY <2>1, ValueToksType
  <2> HIDE DEF s
  <2> QED
    BY <1>4, <2>3, <2>4, <2>5, RaisesJoin
<1>5. CASE Sendable(h) /\ h.bin # "record" /\ h.coll # NULL
  <2>1. h.value # NULL /\ NULL \in Args
    BY <1>5 DEF Sendable, Complete, Args
  <2>2. Tok("var", NULL) \in Toks /\ Tok("var", NULL).op # "raise"
    BY <2>1, TokType DEF Ops
  <2> DEFINE s == <<Tok("var", NULL)>> \o ValueToks(h)
             t == s \o CollectionToks(h)
             u == IF h.value \in Ints THEN CollectionToks(h) ELSE <<>>
  <2>3. Own(h) = t \o u
    BY <1>5, <2>1 DEF Own, Sendable
  <2>4. CollectionToks(h) \in Seq(Toks) /\ ~Raises(CollectionToks(h))
    BY <1>5, CollectionToksType
  <2>5. s \in Seq(Toks) /\ ~Raises(s)
    BY <2>1, <2>2, RaisesOne, RaisesJoin, ValueToksType
  <2> HIDE DEF s
  <2>6. t \in Seq(Toks) /\ ~Raises(t)
    BY <2>4, <2>5, RaisesJoin
  <2>7. u \in Seq(Toks) /\ ~Raises(u)
    BY <2>4, RaisesEmpty
  <2> HIDE DEF t, u
  <2> QED
    BY <1>5, <2>3, <2>6, <2>7, RaisesJoin
<1> QED
  BY <1>2, <1>3, <1>4, <1>5

LEMMA NegationType ==
  ASSUME NEW h
  PROVE  Negation(h) \in Seq(Toks) /\ ~Raises(Negation(h))
<1>1. Tok("not", 1) \in Toks /\ Tok("not", 1).op # "raise"
  BY TokType DEF Ops, Args
<1> QED
  BY <1>1, RaisesOne, RaisesEmpty DEF Negation

LEMMA PushType ==
  ASSUME NEW h \in Hash, h.coll # NULL => h.pred \in {"and", "or"}
  PROVE  Push(h) \in Seq(Toks) /\ (Raises(Push(h)) <=> ~Sendable(h))
BY OwnType, NegationType, RaisesJoin DEF Push

LEMMA OperatorType ==
  ASSUME NEW o \in {"and", "or"}, NEW kids \in Seq(Nodes)
  PROVE  Operator(o, kids) \in Seq(Toks) /\ ~Raises(Operator(o, kids))
<1>1. Len(kids) + 1 \in Args
  BY LenProperties DEF Args
<1>2. Tok(o, Len(kids) + 1) \in Toks /\ Tok(o, Len(kids) + 1).op # "raise"
  BY <1>1, TokType DEF Ops
<1> QED
  BY <1>2, RaisesOne, RaisesEmpty DEF Operator

-----------------------------------------------------------------------------
(* The code of the children, one after the other *)

\* f joins the first members of q, one after the other
Joins(f, q, n) == f = [i \in 1..n |-> IF i = 1 THEN q[i] ELSE f[i - 1] \o q[i]]

LEMMA JoinExists ==
  ASSUME NEW q, NEW n \in Nat
  PROVE  \E f : Joins(f, q, n)
<1> DEFINE T == {m \in Nat : ~\E f : Joins(f, q, m)}
<1> SUFFICES ASSUME T # {} PROVE FALSE
  OBVIOUS
<1>1. PICK m \in T : \A k \in T : m <= k
  BY Smallest
<1>2. m # 0
  <2>1. Joins(<<>>, q, 0)
    BY DEF Joins
  <2> QED
    BY <1>1, <2>1
<1>3. PICK f : Joins(f, q, m - 1)
  BY <1>1, <1>2
<1> DEFINE g == [i \in 1..m |-> IF i = 1 THEN q[i] ELSE f[i - 1] \o q[i]]
<1>4. m \in Nat /\ 1..m - 1 \subseteq 1..m
  BY <1>1
<1>5. \A i \in 1..m : g[i] = IF i = 1 THEN q[i] ELSE f[i - 1] \o q[i]
  OBVIOUS
<1>6. \A i \in 1..m - 1 : f[i] = IF i = 1 THEN q[i] ELSE f[i - 1] \o q[i]
  BY <1>3 DEF Joins
<1> HIDE DEF g
<1>7. \A i \in 1..m - 1 : g[i] = f[i]
  BY <1>4, <1>5, <1>6
<1>8. ASSUME NEW i \in 1..m PROVE g[i] = IF i = 1 THEN q[i] ELSE g[i - 1] \o q[i]
  <2>1. CASE i = 1
    BY <1>5, <2>1
  <2>2. CASE i # 1
    <3>1. i - 1 \in 1..m - 1
      BY <1>4, <2>2
    <3> QED
      BY <1>5, <1>7, <2>2, <3>1
  <2> QED
    BY <2>1, <2>2
<1>9. Joins(g, q, m)
  BY <1>8 DEF Joins, g
<1> QED
  BY <1>1, <1>9

LEMMA Flattened ==
  ASSUME NEW q, Len(q) \in Nat, Len(q) # 0
  PROVE  \E f : Joins(f, q, Len(q)) /\ FlattenSeq(q) = f[Len(q)]
<1> DEFINE f == CHOOSE f : Joins(f, q, Len(q))
<1>1. Joins(f, q, Len(q))
  BY JoinExists
<1>2. FlattenSeq(q) = f[Len(q)]
  BY DEF FlattenSeq, Joins
<1> QED
  BY <1>1, <1>2

Parts(below, kids) == [i \in 1..Len(kids) |-> below[kids[i]]]
Flat(below, kids)  == FlattenSeq(Parts(below, kids))

LEMMA PartsFacts ==
  ASSUME NEW below, NEW kids \in Seq(Nodes)
  PROVE  /\ Len(Parts(below, kids)) = Len(kids) /\ Len(kids) \in Nat
         /\ \A i \in 1..Len(kids) : Parts(below, kids)[i] = below[kids[i]]
<1>1. Len(kids) \in Nat
  BY LenProperties
<1> QED
  BY <1>1 DEF Parts

LEMMA FlatEmpty ==
  ASSUME NEW below
  PROVE  Flat(below, <<>>) = <<>>
<1>1. Parts(below, <<>>) = <<>>
  BY DEF Parts
<1> QED
  BY <1>1 DEF Flat, FlattenSeq

LEMMA FlatRaises ==
  ASSUME NEW below, NEW kids \in Seq(Nodes), \A i \in 1..Len(kids) : below[kids[i]] \in Seq(Toks)
  PROVE  /\ Flat(below, kids) \in Seq(Toks)
         /\ Raises(Flat(below, kids)) <=> \E i \in 1..Len(kids) : Raises(below[kids[i]])
<1> DEFINE q == Parts(below, kids)
           n == Len(kids)
<1>1. /\ Len(q) = n /\ n \in Nat
      /\ \A i \in 1..n : q[i] = below[kids[i]]
  BY PartsFacts
<1>2. CASE n = 0
  <2>1. kids = <<>>
    BY <1>2, EmptySeq
  <2>2. Flat(below, kids) = <<>>
    BY <2>1, FlatEmpty
  <2>3. ~\E i \in 1..n : Raises(below[kids[i]])
    BY <1>2
  <2> QED
    BY <2>2, <2>3, RaisesEmpty
<1>3. CASE n # 0
  <2> HIDE DEF q, n
  <2>1. PICK f : Joins(f, q, n) /\ FlattenSeq(q) = f[n]
    BY <1>1, <1>3, Flattened
  <2> DEFINE Good(m) == f[m] \in Seq(Toks) /\ (Raises(f[m]) <=> \E i \in 1..m : Raises(q[i]))
             T == {m \in 1..n : ~Good(m)}
  <2>2. T = {}
    <3> SUFFICES ASSUME T # {} PROVE FALSE
      OBVIOUS
    <3>1. PICK m \in T : \A k \in T : m <= k
      <4>1. T \in SUBSET Nat
        BY <1>1
      <4> QED
        BY <4>1, Smallest
    <3>2. m \in 1..n /\ m \in Nat /\ ~Good(m)
      BY <1>1, <3>1
    <3>3. f[m] = IF m = 1 THEN q[m] ELSE f[m - 1] \o q[m]
      BY <2>1, <3>2 DEF Joins
    <3>4. q[m] \in Seq(Toks)
      BY <1>1, <3>2 DEF n
    <3>5. CASE m = 1
      <4>1. f[m] = q[m]
        BY <3>3, <3>5
      <4>2. (\E i \in 1..m : Raises(q[i])) <=> Raises(q[m])
        <5>1. 1..m = {m}
          BY <3>5
        <5> QED
          BY <5>1
      <4>3. Good(m)
        BY <3>4, <4>1, <4>2
      <4> QED
        BY <3>2, <4>3
    <3>6. CASE m # 1
      <4>1. m - 1 \in 1..n /\ m - 1 \notin T
        BY <1>1, <3>1, <3>2, <3>6
      <4>2. Good(m - 1)
        BY <4>1
      <4>3. f[m] = f[m - 1] \o q[m]
        BY <3>3, <3>6
      <4>4. f[m] \in Seq(Toks) /\ (Raises(f[m]) <=> Raises(f[m - 1]) \/ Raises(q[m]))
        BY <3>4, <4>2, <4>3, RaisesJoin
      <4>5. (\E i \in 1..m : Raises(q[i])) <=> (\E i \in 1..m - 1 : Raises(q[i])) \/ Raises(q[m])
        <5>1. 1..m = (1..m - 1) \cup {m}
          BY <3>2
        <5> QED
          BY <5>1
      <4> QED
        BY <3>2, <4>2, <4>4, <4>5
    <3> QED
      BY <3>5, <3>6
  <2>3. n \in 1..n
    BY <1>1, <1>3
  <2>4. Good(n)
    BY <2>2, <2>3
  <2> QED
    BY <1>1, <2>1, <2>4 DEF Flat, q, n
<1> QED
  BY <1>2, <1>3

\* the children of a node, by their places
LEMMA KidPlaces ==
  ASSUME NEW n \in Made, TypeOK
  PROVE  /\ node[n].and \in Seq(Nodes) /\ node[n].or \in Seq(Nodes)
         /\ Kids(n) = {node[n].and[i] : i \in 1..Len(node[n].and)}
                      \cup {node[n].or[i] : i \in 1..Len(node[n].or)}
<1>1. node[n].and \in Seq(Nodes) /\ node[n].or \in Seq(Nodes)
  BY MadeNode, HashFields
<1>2. DOMAIN node[n].and = 1..Len(node[n].and) /\ DOMAIN node[n].or = 1..Len(node[n].or)
  BY <1>1, LenProperties
<1> QED
  BY <1>1, <1>2 DEF Kids, ToSet

LEMMA NodeCode ==
  ASSUME NEW below, NEW n
  PROVE  Node2Predexp(below, n) =
           (((Push(node[n]) \o Flat(below, node[n].and)) \o Operator("and", node[n].and))
             \o Flat(below, node[n].or)) \o Operator("or", node[n].or)
BY DEF Node2Predexp, Flat, Parts

\* a node below n, or n, cannot be compiled
Lacking(n) == \E m \in Reached(n) : ~Sendable(node[m])

LEMMA LackingSplit ==
  ASSUME Basic, NEW n \in Made
  PROVE  Lacking(n) <=> ~Sendable(node[n]) \/ \E k \in Kids(n) : Lacking(k)
<1>1. ASSUME Lacking(n) PROVE ~Sendable(node[n]) \/ \E k \in Kids(n) : Lacking(k)
  <2>1. PICK m \in Reached(n) : ~Sendable(node[m])
    BY <1>1 DEF Lacking
  <2>2. m = n \/ \E k \in Kids(n) : m \in Reached(k)
    BY ReachSplit DEF Basic
  <2> QED
    BY <2>1, <2>2 DEF Lacking
<1>2. ~Sendable(node[n]) => Lacking(n)
  BY ReachSelf DEF Lacking
<1>3. ASSUME NEW k \in Kids(n), Lacking(k) PROVE Lacking(n)
  <2>1. PICK m \in Reached(k) : ~Sendable(node[m])
    BY <1>3 DEF Lacking
  <2>2. k \in Reached(n)
    BY ReachSelf, ReachKid DEF Basic
  <2>3. m \in Reached(n)
    BY <2>2, ReachTrans
  <2> QED
    BY <2>1, <2>3 DEF Lacking
<1> QED
  BY <1>1, <1>2, <1>3

LEMMA NodeRaises ==
  ASSUME Basic, NEW n \in Made, NEW below,
         \A k \in Kids(n) : below[k] \in Seq(Toks) /\ (Raises(below[k]) <=> Lacking(k))
  PROVE  /\ Node2Predexp(below, n) \in Seq(Toks)
         /\ Raises(Node2Predexp(below, n)) <=> Lacking(n)
<1> DEFINE h == node[n]
           a == Push(h) \o Flat(below, h.and)
           b == a \o Operator("and", h.and)
           c == b \o Flat(below, h.or)
           RaisesIn(kids) == \E i \in 1..Len(kids) : Raises(below[kids[i]])
<1>1. h \in Hash /\ (h.coll # NULL => h.pred \in {"and", "or"})
  BY MadeNode DEF Basic, Linked
<1>2. /\ h.and \in Seq(Nodes) /\ h.or \in Seq(Nodes)
      /\ \A i \in 1..Len(h.and) : h.and[i] \in Kids(n)
      /\ \A i \in 1..Len(h.or) : h.or[i] \in Kids(n)
  BY KidPlaces DEF Basic
<1>3. Push(h) \in Seq(Toks) /\ (Raises(Push(h)) <=> ~Sendable(h))
  BY <1>1, PushType
<1>4. Flat(below, h.and) \in Seq(Toks) /\ (Raises(Flat(below, h.and)) <=> RaisesIn(h.and))
  BY <1>2, FlatRaises
<1>5. Flat(below, h.or) \in Seq(Toks) /\ (Raises(Flat(below, h.or)) <=> RaisesIn(h.or))
  BY <1>2, FlatRaises
<1>6. /\ Operator("and", h.and) \in Seq(Toks) /\ ~Raises(Operator("and", h.and))
      /\ Operator("or", h.or) \in Seq(Toks) /\ ~Raises(Operator("or", h.or))
  BY <1>2, OperatorType
<1>7. RaisesIn(h.and) \/ RaisesIn(h.or) <=> \E k \in Kids(n) : Lacking(k)
  BY KidPlaces DEF Basic
<1>8. Node2Predexp(below, n) = c \o Operator("or", h.or)
  BY NodeCode
<1> HIDE DEF RaisesIn, h
<1>9. a \in Seq(Toks) /\ (Raises(a) <=> ~Sendable(h) \/ RaisesIn(h.and))
  BY <1>3, <1>4, RaisesJoin
<1> HIDE DEF a
<1>10. b \in Seq(Toks) /\ (Raises(b) <=> ~Sendable(h) \/ RaisesIn(h.and))
  BY <1>6, <1>9, RaisesJoin
<1> HIDE DEF b
<1>11. c \in Seq(Toks) /\ (Raises(c) <=> ~Sendable(h) \/ RaisesIn(h.and) \/ RaisesIn(h.or))
  BY <1>5, <1>10, RaisesJoin
<1> HIDE DEF c
<1>12. /\ c \o Operator("or", h.or) \in Seq(Toks)
       /\ Raises(c \o Operator("or", h.or)) <=> ~Sendable(h) \/ RaisesIn(h.and) \/ RaisesIn(h.or)
  BY <1>6, <1>11, RaisesJoin
<1>13. Lacking(n) <=> ~Sendable(h) \/ \E k \in Kids(n) : Lacking(k)
  BY LackingSplit DEF h
<1> QED
  BY <1>7, <1>8, <1>12, <1>13

LEMMA CompileRaises ==
  ASSUME Basic, NEW top \in Made, ~Looping(top)
  PROVE  Compile(top) \in Seq(Toks) /\ (Raises(Compile(top)) <=> Lacking(top))
<1> DEFINE Good(d, n) == code[d][n] \in Seq(Toks) /\ (Raises(code[d][n]) <=> Lacking(n))
           Q == {x \in (1..N) \X Made : Good(x[1], x[2])}
<1>1. ASSUME NEW d \in 1..N, NEW n \in Reached(top), \A k \in Kids(n) : <<d - 1, k>> \in Q
      PROVE  <<d, n>> \in Q
  <2>1. n \in Made /\ n \in Nodes
    BY DEF Reached, Made
  <2>2. \A k \in Kids(n) : Good(d - 1, k)
    BY <1>1
  <2>3. Good(d, n)
    BY <2>1, <2>2, CodeLevel, NodeRaises
  <2> QED
    BY <2>1, <2>3
<1>2. <<N, top>> \in Q
  <2>1. Q \in SUBSET ((1..N) \X Made) /\ Linked
    BY DEF Basic
  <2> HIDE DEF Q
  <2> QED
    BY <1>1, <2>1, NodeInduction
<1>3. Good(N, top)
  BY <1>2
<1> QED
  BY <1>3 DEF Compile, N

\* A query whose PredExp has a node that lacks a value or a record method, or has an integer
\* NUM2UINT or NUM2ULONG does not take, raises, and no other one does, for any expression
\* without a loop and any integers (push_2_as_predexp).
THEOREM IncompleteRefused == Spec => []IncompleteRaises
<1>1. Basic => IncompleteRaises
  <2> SUFFICES ASSUME Basic, root # NULL, ~Looping(root)
               PROVE  Raises(Compile(root)) <=> \E n \in Reached(root) : ~Sendable(node[n])
    BY DEF IncompleteRaises, Sendable
  <2>1. root \in Made
    BY DEF Basic, TypeOK, Made
  <2> QED
    BY <2>1, CompileRaises DEF Lacking
<1> QED
  BY <1>1, Invariance, PTL

-----------------------------------------------------------------------------
(* The stack of the server *)

Entries(r) == Toks \cup [op : {"truth"}, arg : SUBSET Elems(r)]
Stack(r)   == Seq(Entries(r))

RunTo(f, r, st, toks, n) == f = [i \in 0..n |-> IF i = 0 THEN st ELSE Reduce(r, f[i - 1], toks[i])]

LEMMA RunExists ==
  ASSUME NEW r, NEW st, NEW toks, NEW n \in Nat
  PROVE  \E f : RunTo(f, r, st, toks, n)
<1> DEFINE T == {m \in Nat : ~\E f : RunTo(f, r, st, toks, m)}
<1> SUFFICES ASSUME T # {} PROVE FALSE
  OBVIOUS
<1>1. PICK m \in T : \A k \in T : m <= k
  BY Smallest
<1>2. m # 0
  <2> DEFINE f == [i \in 0..0 |-> st]
  <2>1. RunTo(f, r, st, toks, 0)
    BY DEF RunTo
  <2> QED
    BY <1>1, <2>1
<1>3. PICK f : RunTo(f, r, st, toks, m - 1)
  BY <1>1, <1>2
<1> DEFINE At(g, i) == IF i = 0 THEN st ELSE Reduce(r, g[i - 1], toks[i])
           g == [i \in 0..m |-> At(f, i)]
<1>4. m \in Nat /\ 0..m - 1 \subseteq 0..m
  BY <1>1
<1>5. \A i \in 0..m : g[i] = At(f, i)
  OBVIOUS
<1>6. \A i \in 0..m - 1 : f[i] = At(f, i)
  BY <1>3 DEF RunTo
<1> HIDE DEF g
<1>7. \A i \in 0..m - 1 : g[i] = f[i]
  BY <1>4, <1>5, <1>6
<1>8. ASSUME NEW i \in 0..m PROVE g[i] = At(g, i)
  <2>1. CASE i = 0
    BY <1>5, <2>1
  <2>2. CASE i # 0
    <3>1. i - 1 \in 0..m - 1
      BY <1>4, <2>2
    <3>2. g[i - 1] = f[i - 1]
      BY <1>7, <3>1
    <3> QED
      BY <1>5, <3>2
  <2> QED
    BY <2>1, <2>2
<1>9. RunTo(g, r, st, toks, m)
  BY <1>8 DEF RunTo, g
<1> QED
  BY <1>1, <1>9

LEMMA RunSteps ==
  ASSUME NEW r, NEW st, NEW toks, Len(toks) \in Nat
  PROVE  \E f : /\ f[0] = st /\ Run(r, st, toks) = f[Len(toks)]
                /\ \A i \in 1..Len(toks) : f[i] = Reduce(r, f[i - 1], toks[i])
<1> DEFINE f == CHOOSE f : RunTo(f, r, st, toks, Len(toks))
<1>1. RunTo(f, r, st, toks, Len(toks))
  BY RunExists
<1>2. Run(r, st, toks) = f[Len(toks)]
  BY DEF Run, RunTo
<1> HIDE DEF f
<1>3. \A i \in 0..Len(toks) : f[i] = IF i = 0 THEN st ELSE Reduce(r, f[i - 1], toks[i])
  BY <1>1 DEF RunTo
<1> QED
  BY <1>2, <1>3

LEMMA RunSame ==
  ASSUME NEW r, NEW st, NEW toks, Len(toks) \in Nat, NEW g, g[0] = st,
         \A i \in 1..Len(toks) : g[i] = Reduce(r, g[i - 1], toks[i])
  PROVE  Run(r, st, toks) = g[Len(toks)]
<1>1. PICK f : /\ f[0] = st /\ Run(r, st, toks) = f[Len(toks)]
               /\ \A i \in 1..Len(toks) : f[i] = Reduce(r, f[i - 1], toks[i])
  BY RunSteps
<1> DEFINE T == {m \in 0..Len(toks) : f[m] # g[m]}
<1>2. T = {}
  <2> SUFFICES ASSUME T # {} PROVE FALSE
    OBVIOUS
  <2>1. PICK m \in T : \A k \in T : m <= k
    <3>1. T \in SUBSET Nat
      OBVIOUS
    <3> QED
      BY <3>1, Smallest
  <2>2. m \in 1..Len(toks) /\ m - 1 \in 0..Len(toks) /\ ~(m <= m - 1)
    BY <1>1, <2>1
  <2>3. f[m - 1] = g[m - 1]
    BY <2>1, <2>2
  <2> QED
    BY <1>1, <2>1, <2>2, <2>3
<1>3. Len(toks) \in 0..Len(toks)
  OBVIOUS
<1> QED
  BY <1>1, <1>2, <1>3

LEMMA RunJoin ==
  ASSUME NEW r, NEW st, NEW s \in Seq(Toks), NEW t \in Seq(Toks)
  PROVE  Run(r, st, s \o t) = Run(r, Run(r, st, s), t)
<1> DEFINE a == Len(s)
           b == Len(t)
<1>1. a \in Nat /\ b \in Nat
  BY LenProperties
<1>2. /\ Len(s \o t) = a + b /\ a + b \in Nat
      /\ \A i \in 1..a + b : (s \o t)[i] = IF i <= a THEN s[i] ELSE t[i - a]
  BY <1>1, ConcatProperties
<1> HIDE DEF a, b
<1>3. PICK f : /\ f[0] = st /\ Run(r, st, s \o t) = f[a + b]
               /\ \A i \in 1..a + b : f[i] = Reduce(r, f[i - 1], (s \o t)[i])
  <2> DEFINE all == s \o t
  <2>1. Len(all) = a + b /\ Len(all) \in Nat
    BY <1>2
  <2> HIDE DEF all
  <2>2. \E f : /\ f[0] = st /\ Run(r, st, all) = f[Len(all)]
               /\ \A i \in 1..Len(all) : f[i] = Reduce(r, f[i - 1], all[i])
    BY <2>1, RunSteps
  <2>3. \E f : /\ f[0] = st /\ Run(r, st, all) = f[a + b]
               /\ \A i \in 1..a + b : f[i] = Reduce(r, f[i - 1], all[i])
    BY <2>1, <2>2
  <2> QED
    BY <2>3 DEF all
<1> DEFINE g == [i \in 0..b |-> f[i + a]]
<1>4. Run(r, st, s) = f[a]
  <2>1. ASSUME NEW i \in 1..a PROVE f[i] = Reduce(r, f[i - 1], s[i])
    <3>1. i \in 1..a + b /\ i <= a
      BY <1>1
    <3> QED
      BY <1>2, <1>3, <3>1
  <2> QED
    BY <1>1, <1>3, <2>1, RunSame DEF a
<1>5. g[0] = f[a] /\ g[b] = f[a + b]
  BY <1>1
<1>6. ASSUME NEW i \in 1..b PROVE g[i] = Reduce(r, g[i - 1], t[i])
  <2>1. /\ i + a \in 1..a + b /\ ~(i + a <= a) /\ i + a - a = i
        /\ i \in 0..b /\ i - 1 \in 0..b /\ i + a - 1 = i - 1 + a
    BY <1>1
  <2>2. f[i + a] = Reduce(r, f[i + a - 1], t[i])
    <3> DEFINE j == i + a
    <3>1. j \in 1..a + b /\ ~(j <= a) /\ j - a = i
      BY <1>1
    <3> HIDE DEF j
    <3>2. (s \o t)[j] = t[i]
      BY <1>2, <3>1
    <3>3. f[j] = Reduce(r, f[j - 1], (s \o t)[j])
      BY <1>3, <3>1
    <3>4. f[j] = Reduce(r, f[j - 1], t[i])
      BY <3>2, <3>3
    <3>5. j = i + a
      BY DEF j
    <3> QED
      BY <1>1, <3>4, <3>5
  <2>3. g[i] = f[i + a] /\ g[i - 1] = f[i - 1 + a]
    BY <2>1
  <2> QED
    BY <2>1, <2>2, <2>3
<1> HIDE DEF g
<1>7. Run(r, f[a], t) = g[b]
  BY <1>1, <1>5, <1>6, RunSame DEF b
<1> QED
  BY <1>3, <1>4, <1>5, <1>7

LEMMA RunEmpty ==
  ASSUME NEW r, NEW st
  PROVE  Run(r, st, <<>>) = st
<1> DEFINE g == [i \in 0..0 |-> st]
<1>1. Len(<<>>) = 0 /\ g[0] = st
  OBVIOUS
<1> HIDE DEF g
<1>2. Run(r, st, <<>>) = g[Len(<<>>)]
  BY <1>1, RunSame
<1> QED
  BY <1>1, <1>2

LEMMA RunOne ==
  ASSUME NEW r, NEW st, NEW x
  PROVE  Run(r, st, <<x>>) = Reduce(r, st, x)
<1>1. Len(<<x>>) = 1 /\ <<x>>[1] = x
  OBVIOUS
<1>2. PICK f : /\ f[0] = st /\ Run(r, st, <<x>>) = f[1]
               /\ \A i \in 1..1 : f[i] = Reduce(r, f[i - 1], <<x>>[i])
  <2> DEFINE one == <<x>>
  <2>1. Len(one) = 1
    BY <1>1
  <2> HIDE DEF one
  <2>2. \E f : /\ f[0] = st /\ Run(r, st, one) = f[Len(one)]
               /\ \A i \in 1..Len(one) : f[i] = Reduce(r, f[i - 1], one[i])
    BY <2>1, RunSteps
  <2>3. \E f : /\ f[0] = st /\ Run(r, st, one) = f[1]
               /\ \A i \in 1..1 : f[i] = Reduce(r, f[i - 1], one[i])
    BY <2>1, <2>2
  <2> QED
    BY <2>3 DEF one
<1>3. f[1] = Reduce(r, f[1 - 1], <<x>>[1])
  BY <1>2
<1> QED
  BY <1>1, <1>2, <1>3

\* a sequence of two by its parts
LEMMA Two ==
  ASSUME NEW S, NEW x \in S, NEW y \in S
  PROVE  /\ <<x, y>> \in Seq(S) /\ <<x>> \in Seq(S) /\ <<x, y>> = <<x>> \o <<y>>
         /\ Len(<<x, y>>) = 2 /\ <<x, y>>[1] = x /\ <<x, y>>[2] = y
<1>1. /\ Len(<<x, y>>) = 2 /\ <<x, y>>[1] = x /\ <<x, y>>[2] = y
      /\ <<x, y>> \in Seq(S)
  OBVIOUS
<1>2. /\ <<x>> \in Seq(S) /\ <<y>> \in Seq(S)
      /\ Len(<<x>>) = 1 /\ Len(<<y>>) = 1 /\ <<x>>[1] = x /\ <<y>>[1] = y
  OBVIOUS
<1>3. /\ <<x>> \o <<y>> \in Seq(S) /\ Len(<<x>> \o <<y>>) = 2
      /\ \A i \in 1..2 : (<<x>> \o <<y>>)[i] = IF i <= 1 THEN <<x>>[i] ELSE <<y>>[i - 1]
  BY <1>2, ConcatProperties
<1>4. (<<x>> \o <<y>>)[1] = x /\ (<<x>> \o <<y>>)[2] = y
  <2>1. 1 \in 1..2 /\ 2 \in 1..2 /\ 2 - 1 = 1 /\ ~(2 <= 1)
    OBVIOUS
  <2> QED
    BY <1>2, <1>3, <2>1
<1>5. \A i \in 1..2 : i = 1 \/ i = 2
  OBVIOUS
<1>6. \A i \in 1..2 : (<<x>> \o <<y>>)[i] = <<x, y>>[i]
  BY <1>1, <1>4, <1>5
<1>7. <<x>> \o <<y>> = <<x, y>>
  BY <1>1, <1>3, <1>6, SeqEqual
<1> QED
  BY <1>1, <1>2, <1>7

LEMMA AppendTwo ==
  ASSUME NEW S, NEW st \in Seq(S), NEW x \in S, NEW y \in S
  PROVE  Append(Append(st, x), y) = st \o <<x, y>>
<1>1. /\ <<x>> \in Seq(S) /\ <<y>> \in Seq(S)
      /\ <<x, y>> = <<x>> \o <<y>>
  BY Two
<1>2. Append(st, x) = st \o <<x>> /\ Append(st, x) \in Seq(S)
  BY AppendIsConcat, AppendProperties
<1>3. Append(Append(st, x), y) = (st \o <<x>>) \o <<y>>
  BY <1>2, AppendIsConcat
<1> QED
  BY <1>1, <1>3, ConcatAssociative

\* values, variables and the like are put on the stack
Pushed == {"value", "collection", "record", "var", "bin"}

LEMMA PushReduce ==
  ASSUME NEW r, NEW st \in Stack(r), NEW x \in Toks, x.op \in Pushed
  PROVE  Reduce(r, st, x) = Append(st, x)
<1>1. Arity(x) = 0
  BY DEF Arity, Pushed
<1>2. \A kids : Result(r, x, kids) = x
  BY DEF Result, Pushed
<1>3. Len(st) \in Nat /\ SubSeq(st, 1, Len(st)) = st
  BY LenProperties, SubSeqFull DEF Stack
<1> QED
  BY <1>1, <1>2, <1>3 DEF Reduce

\* an operator takes its operands
LEMMA PopReduce ==
  ASSUME NEW r, NEW st \in Stack(r), NEW kids \in Stack(r), NEW x, Arity(x) = Len(kids), kids # <<>>
  PROVE  Reduce(r, st \o kids, x) = Append(st, Result(r, x, kids))
<1> DEFINE a == Len(st)
           k == Len(kids)
           all == st \o kids
<1>1. a \in Nat /\ k \in Nat /\ k # 0
  BY LenProperties, EmptySeq DEF Stack
<1>2. /\ all \in Stack(r) /\ Len(all) = a + k
      /\ \A i \in 1..a + k : all[i] = IF i <= a THEN st[i] ELSE kids[i - a]
  BY ConcatProperties DEF Stack
<1>3. a + k - k = a /\ a + k - k + 1 = a + 1 /\ ~(a + k < k)
  BY <1>1
<1>4. SubSeq(all, 1, a) = st
  <2>1. \A i \in 1..a : all[i] = st[i] /\ st[i] \in Entries(r)
    <3> TAKE i \in 1..a
    <3>1. i \in 1..a + k /\ i <= a
      BY <1>1
    <3> QED
      BY <1>2, <3>1, ElementOfSeq DEF Stack
  <2>2. /\ SubSeq(all, 1, a) \in Stack(r) /\ Len(SubSeq(all, 1, a)) = a
        /\ \A i \in 1..a : SubSeq(all, 1, a)[i] = all[i]
    <3> HIDE DEF all
    <3>1. \A i \in 1..a : all[i] \in Entries(r)
      BY <2>1
    <3>2. /\ SubSeq(all, 1, a) \in Seq(Entries(r))
          /\ Len(SubSeq(all, 1, a)) = IF 1 <= a THEN a - 1 + 1 ELSE 0
          /\ \A i \in 1..a - 1 + 1 : SubSeq(all, 1, a)[i] = all[1 + i - 1]
      BY <1>1, <3>1, SubSeqProperties
    <3>3. a - 1 + 1 = a /\ (IF 1 <= a THEN a - 1 + 1 ELSE 0) = a
      BY <1>1
    <3>4. \A i \in 1..a : 1 + i - 1 = i
      OBVIOUS
    <3> QED
      BY <3>2, <3>3, <3>4 DEF Stack
  <2> QED
    BY <2>1, <2>2, SeqEqual DEF Stack
<1>5. SubSeq(all, a + 1, a + k) = kids
  <2>1. \A i \in 1..k : all[a + i] = kids[i] /\ kids[i] \in Entries(r)
    <3> TAKE i \in 1..k
    <3>1. a + i \in 1..a + k /\ ~(a + i <= a) /\ a + i - a = i
      BY <1>1
    <3> QED
      BY <1>2, <3>1, ElementOfSeq DEF Stack
  <2>2. /\ SubSeq(all, a + 1, a + k) \in Stack(r) /\ Len(SubSeq(all, a + 1, a + k)) = k
        /\ \A i \in 1..k : SubSeq(all, a + 1, a + k)[i] = all[a + i]
    <3> HIDE DEF all
    <3>1. \A i \in a + 1..a + k : all[i] \in Entries(r)
      <4> TAKE i \in a + 1..a + k
      <4>1. i - a \in 1..k /\ a + (i - a) = i
        BY <1>1
      <4> QED
        BY <2>1, <4>1
    <3>2. /\ SubSeq(all, a + 1, a + k) \in Seq(Entries(r))
          /\ Len(SubSeq(all, a + 1, a + k)) = IF a + 1 <= a + k THEN a + k - (a + 1) + 1 ELSE 0
          /\ \A i \in 1..a + k - (a + 1) + 1 : SubSeq(all, a + 1, a + k)[i] = all[a + 1 + i - 1]
      BY <1>1, <3>1, SubSeqProperties
    <3>3. a + k - (a + 1) + 1 = k /\ a + 1 <= a + k
      BY <1>1
    <3>4. \A i \in 1..k : a + 1 + i - 1 = a + i
      BY <1>1
    <3> QED
      BY <3>2, <3>3, <3>4 DEF Stack
  <2> QED
    BY <2>1, <2>2, SeqEqual DEF Stack
<1> HIDE DEF all
<1>6. Reduce(r, all, x) = Append(SubSeq(all, 1, a), Result(r, x, SubSeq(all, a + 1, a + k)))
  BY <1>2, <1>3 DEF Reduce
<1> QED
  BY <1>4, <1>5, <1>6 DEF all

\* the tokens put the entries on the stack of the server, whatever is on it
Puts(r, s, es) ==
  s \in Seq(Toks) /\ es \in Stack(r) /\ \A st \in Stack(r) : Run(r, st, s) = st \o es

LEMMA PutsEmpty ==
  ASSUME NEW r
  PROVE  Puts(r, <<>>, <<>>)
<1>1. <<>> \in Seq(Toks) /\ <<>> \in Stack(r)
  BY EmptySeq DEF Stack
<1>2. ASSUME NEW st \in Stack(r) PROVE Run(r, st, <<>>) = st \o <<>>
  BY RunEmpty, ConcatEmptySeq DEF Stack
<1> QED
  BY <1>1, <1>2 DEF Puts

LEMMA PutsToken ==
  ASSUME NEW r, NEW x \in Toks, x.op \in Pushed
  PROVE  Puts(r, <<x>>, <<x>>)
<1>1. x \in Entries(r) /\ <<x>> \in Seq(Toks) /\ <<x>> \in Stack(r)
  BY DEF Entries, Stack
<1>2. ASSUME NEW st \in Stack(r) PROVE Run(r, st, <<x>>) = st \o <<x>>
  <2>1. Run(r, st, <<x>>) = Reduce(r, st, x)
    BY RunOne
  <2>2. Reduce(r, st, x) = Append(st, x)
    BY PushReduce
  <2>3. Append(st, x) = st \o <<x>>
    BY <1>1, AppendIsConcat DEF Stack
  <2> QED
    BY <2>1, <2>2, <2>3
<1> QED
  BY <1>1, <1>2 DEF Puts

LEMMA PutsJoin ==
  ASSUME NEW r, NEW s, NEW es, NEW t, NEW fs, Puts(r, s, es), Puts(r, t, fs)
  PROVE  Puts(r, s \o t, es \o fs)
<1>1. s \in Seq(Toks) /\ t \in Seq(Toks) /\ es \in Seq(Entries(r)) /\ fs \in Seq(Entries(r))
  BY DEF Puts, Stack
<1>2. s \o t \in Seq(Toks) /\ es \o fs \in Seq(Entries(r))
  BY <1>1, ConcatProperties
<1>3. ASSUME NEW st \in Stack(r) PROVE Run(r, st, s \o t) = st \o (es \o fs)
  <2>1. Run(r, st, s \o t) = Run(r, Run(r, st, s), t)
    BY <1>1, RunJoin
  <2>2. Run(r, st, s) = st \o es /\ st \o es \in Stack(r)
    BY <1>1, ConcatProperties DEF Puts, Stack
  <2>3. Run(r, st \o es, t) = (st \o es) \o fs
    BY <2>2 DEF Puts
  <2>4. (st \o es) \o fs = st \o (es \o fs)
    BY <1>1, ConcatAssociative DEF Stack
  <2> QED
    BY <2>1, <2>2, <2>3, <2>4
<1> QED
  BY <1>1, <1>2, <1>3 DEF Puts, Stack

LEMMA PutsOperator ==
  ASSUME NEW r, NEW s, NEW es, Puts(r, s, es), NEW x \in Toks, es # <<>>, Arity(x) = Len(es),
         NEW e, e = Result(r, x, es), e \in Entries(r)
  PROVE  Puts(r, s \o <<x>>, <<e>>)
<1>1. s \in Seq(Toks) /\ <<x>> \in Seq(Toks) /\ es \in Stack(r) /\ <<e>> \in Stack(r)
  BY DEF Puts, Stack
<1>2. s \o <<x>> \in Seq(Toks)
  BY <1>1, ConcatProperties
<1>3. ASSUME NEW st \in Stack(r) PROVE Run(r, st, s \o <<x>>) = st \o <<e>>
  <2>1. Run(r, st, s \o <<x>>) = Run(r, Run(r, st, s), <<x>>)
    <3> DEFINE t == <<x>>
    <3>1. s \in Seq(Toks) /\ t \in Seq(Toks)
      BY <1>1
    <3> HIDE DEF t
    <3>2. Run(r, st, s \o t) = Run(r, Run(r, st, s), t)
      BY <3>1, RunJoin
    <3> QED
      BY <3>2 DEF t
  <2>2. Run(r, st, s) = st \o es
    BY DEF Puts
  <2>3. Run(r, st \o es, <<x>>) = Reduce(r, st \o es, x)
    BY RunOne
  <2>4. Reduce(r, st \o es, x) = Append(st, e)
    BY <1>1, PopReduce
  <2>5. Append(st, e) = st \o <<e>>
    BY AppendIsConcat DEF Stack
  <2> QED
    BY <2>1, <2>2, <2>3, <2>4, <2>5
<1> QED
  BY <1>1, <1>2, <1>3 DEF Puts

\* a comparison, or an iteration, of two operands
LEMMA PutsTwo ==
  ASSUME NEW r, NEW s, NEW e, Puts(r, s, <<e>>),
         NEW x \in Toks, x.op \in Pushed, NEW y \in Toks, Arity(y) = 2,
         NEW z, z = Result(r, y, <<e, x>>), z \in Entries(r)
  PROVE  Puts(r, s \o <<x, y>>, <<z>>)
<1>1. Puts(r, <<x>>, <<x>>)
  BY PutsToken
<1>2. e \in Entries(r) /\ x \in Entries(r)
  <2>1. <<e>> \in Seq(Entries(r)) /\ Len(<<e>>) = 1 /\ <<e>>[1] = e
    BY DEF Puts, Stack
  <2>2. 1 \in 1..1
    OBVIOUS
  <2>3. <<e>>[1] \in Entries(r)
    BY <2>1, <2>2, ElementOfSeq
  <2> QED
    BY <2>1, <2>3 DEF Entries
<1>3. <<e, x>> = <<e>> \o <<x>> /\ Len(<<e, x>>) = 2 /\ <<e, x>> # <<>>
  BY <1>2, Two, EmptySeq
<1>4. Puts(r, s \o <<x>>, <<e, x>>)
  BY <1>1, <1>3, PutsJoin
<1>5. Puts(r, (s \o <<x>>) \o <<y>>, <<z>>)
  BY <1>3, <1>4, PutsOperator
<1>6. (s \o <<x>>) \o <<y>> = s \o <<x, y>>
  <2>1. <<x>> \in Seq(Toks) /\ <<y>> \in Seq(Toks) /\ <<x, y>> = <<x>> \o <<y>> /\ s \in Seq(Toks)
    BY Two DEF Puts
  <2> QED
    BY <2>1, ConcatAssociative
<1> QED
  BY <1>5, <1>6

-----------------------------------------------------------------------------
(* What the expressions on the stack say *)

\* the truth of what selects the records of A, evaluated for r
Choice(r, A) == Truth(IF r \in A THEN Elems(r) ELSE {})

\* the conversion to unsigned keeps the value
Kept(h) == h.value \in Ints => Uint(h.value) = h.value

\* what reaches the server as it is can be converted, by either conversion
LEMMA CarriedKept ==
  ASSUME NEW h, Carried(h)
  PROVE  /\ Fits(h)
         /\ h.bin # "record" => Kept(h)
         /\ h.bin = "record" /\ h.value \in Ints => Ulong(h.value) = h.value
<1>1. CASE h.value \in Ints /\ h.bin = "record"
  <2>1. h.value \in Int /\ -Long <= h.value /\ h.value < Long
    BY <1>1, IntsAssumption DEF Carried
  <2> QED
    BY <1>1, <2>1, IntsAssumption DEF Fits, UlongRange, Ulong
<1>2. CASE h.value \in Ints /\ h.bin # "record"
  <2>1. h.value \in Int /\ 0 <= h.value /\ h.value < Wrap
    BY <1>2, IntsAssumption DEF Carried
  <2>2. Uint(h.value) = h.value
    BY <2>1, IntsAssumption DEF Uint
  <2>3. -(Wrap \div 2) <= 0
    BY IntsAssumption
  <2> QED
    BY <1>2, <2>1, <2>2, <2>3, IntsAssumption DEF Fits, UintRange, Kept
<1>3. CASE h.value \notin Ints
  BY <1>3 DEF Fits, Kept
<1> QED
  BY <1>1, <1>2, <1>3

LEMMA TruthEntry ==
  ASSUME NEW r, NEW X \in SUBSET Elems(r)
  PROVE  Truth(X) \in Entries(r) /\ Truth(X).arg = X /\ Truth(X).op = "truth"
BY DEF Truth, Tok, Entries

LEMMA ChoiceEntry ==
  ASSUME NEW r, NEW A
  PROVE  /\ Choice(r, A) \in Entries(r)
         /\ Choice(r, A).arg = IF r \in A THEN Elems(r) ELSE {}
BY TruthEntry DEF Choice

\* the type of a token is that of the value
LEMMA ValueToksKept ==
  ASSUME NEW h \in Hash, h.value # NULL, Kept(h)
  PROVE  /\ ValueToks(h) = <<Tok("value", h.value), Tok(TypeOf(h.value), h.filter)>>
         /\ TypeOf(h.value) \in {"int", "str", "geo"}
<1>1. h.value \in Ints \cup Strs \cup Geos
  BY HashFields DEF Values
<1>2. CASE h.value \in Ints
  BY <1>2, IntsAssumption DEF ValueToks, TypeOf, Kept
<1>3. CASE h.value \notin Ints
  <2>1. h.value \notin Int
    BY <1>1, <1>3, TypesAssumption
  <2> QED
    BY <1>3, <2>1 DEF ValueToks, TypeOf
<1> QED
  BY <1>2, <1>3

\* a comparison, whatever its operand
LEMMA PutsValue ==
  ASSUME NEW r, NEW s, NEW e \in Toks, Puts(r, s, <<e>>), NEW h \in Hash, h.value # NULL, Kept(h),
         NEW X, X = {x \in Elems(r) : Cmp(h.filter, Operand(r, e, TypeOf(h.value), x), h.value)}
  PROVE  Puts(r, s \o ValueToks(h), <<Truth(X)>>)
<1> DEFINE a == Tok("value", h.value)
           b == Tok(TypeOf(h.value), h.filter)
<1>1. ValueToks(h) = <<a, b>> /\ TypeOf(h.value) \in {"int", "str", "geo"}
  BY ValueToksKept
<1>2. h.value \in Args /\ h.filter \in Args
  BY HashFields DEF Args
<1>3. a \in Toks /\ a.op = "value" /\ a.arg = h.value
  BY <1>2, TokType DEF Ops
<1>4. b \in Toks /\ b.op = TypeOf(h.value) /\ b.arg = h.filter
  BY <1>1, <1>2, TokType DEF Ops
<1> HIDE DEF a, b
<1>5. Arity(b) = 2 /\ a.op \in Pushed
  BY <1>1, <1>3, <1>4 DEF Arity, Pushed
<1>6. <<e, a>>[1] = e /\ <<e, a>>[2] = a
  OBVIOUS
<1>7. Truth(X) = Result(r, b, <<e, a>>)
  <2>1. Result(r, b, <<e, a>>) = Truth({x \in Elems(r) : Cmp(h.filter, Operand(r, e, TypeOf(h.value), x), h.value)})
    BY <1>1, <1>3, <1>4, <1>6 DEF Result
  <2> QED
    BY <2>1
<1>8. Truth(X) \in Entries(r)
  BY TruthEntry
<1> QED
  BY <1>1, <1>3, <1>4, <1>5, <1>7, <1>8, PutsTwo

LEMMA ComparesVariable ==
  ASSUME NEW h, NEW x
  PROVE  Cmp(h.filter, OfType(x, TypeOf(h.value)), h.value) <=> Compares(h, x)
<1>1. CASE TypeOf(x) = TypeOf(h.value)
  BY <1>1 DEF OfType, Compares
<1>2. CASE TypeOf(x) # TypeOf(h.value)
  BY <1>2 DEF OfType, Compares, Cmp
<1> QED
  BY <1>1, <1>2

LEMMA ElementsInside ==
  ASSUME NEW r \in Stored, NEW b \in Bins, NEW coll
  PROVE  LET s == Elements(r[b], coll)
         IN  \A i \in 1..Len(s) : s[i] \in Elems(r)
<1> DEFINE s == Elements(r[b], coll)
<1>1. /\ r[b].keys \in Seq(ToSet(r[b].keys)) /\ r[b].vals \in Seq(ToSet(r[b].vals))
      /\ ToSet(r[b].keys) \subseteq Elems(r) /\ ToSet(r[b].vals) \subseteq Elems(r)
  BY StoredAssumption DEF Elems
<1>2. ASSUME NEW T, NEW q \in Seq(T), T \subseteq Elems(r) PROVE \A i \in 1..Len(q) : q[i] \in Elems(r)
  BY <1>2, ElementOfSeq
<1>3. CASE coll = "mapkey"
  <2>1. s = r[b].keys
    BY <1>3 DEF Elements
  <2> QED
    BY <1>1, <1>2, <2>1
<1>4. CASE coll # "mapkey"
  <2>1. s = r[b].vals
    BY <1>4 DEF Elements
  <2> QED
    BY <1>1, <1>2, <2>1
<1> QED
  BY <1>3, <1>4

LEMMA PutsCollection ==
  ASSUME NEW r, NEW s, NEW X \in SUBSET Elems(r), Puts(r, s, <<Truth(X)>>),
         NEW h \in Hash, h.bin # "record", h.coll # NULL, h.pred \in {"and", "or"},
         NEW A, r \in A <=> Iterated(r, h.pred, Truth(X), h.bin, h.coll)
  PROVE  Puts(r, s \o CollectionToks(h), <<Choice(r, A)>>)
<1> DEFINE a == Tok("collection", <<h.bin, h.coll>>)
           b == Tok("iterate", h.pred)
           e == Truth(X)
<1>1. <<h.bin, h.coll>> \in Args /\ h.pred \in Args
  BY HashFields DEF Args
<1>2. /\ a \in Toks /\ a.op = "collection" /\ a.arg = <<h.bin, h.coll>>
      /\ b \in Toks /\ b.op = "iterate" /\ b.arg = h.pred
  BY <1>1, TokType DEF Ops
<1>3. CollectionToks(h) = <<a, b>>
  BY DEF CollectionToks
<1>4. r \in A <=> Iterated(r, h.pred, e, h.bin, h.coll)
  OBVIOUS
<1> HIDE DEF a, b, e
<1>5. <<e, a>>[1] = e /\ <<e, a>>[2] = a /\ a.arg[1] = h.bin /\ a.arg[2] = h.coll
  BY <1>2
<1>6. Choice(r, A) = Result(r, b, <<e, a>>)
  <2>1. Result(r, b, <<e, a>>) = Truth({x \in Elems(r) : Iterated(r, h.pred, e, h.bin, h.coll)})
    BY <1>2, <1>5 DEF Result
  <2>2. {x \in Elems(r) : Iterated(r, h.pred, e, h.bin, h.coll)} = IF r \in A THEN Elems(r) ELSE {}
    BY <1>4
  <2> QED
    BY <2>1, <2>2 DEF Choice
<1>7. Arity(b) = 2 /\ a.op \in Pushed /\ Choice(r, A) \in Entries(r)
  BY <1>2, ChoiceEntry DEF Arity, Pushed
<1>8. Puts(r, s, <<e>>)
  BY DEF e
<1> QED
  BY <1>2, <1>3, <1>6, <1>7, <1>8, PutsTwo

\* what iterating over the variable gives, and iterating once more over what that gave
LEMMA IteratedMeaning ==
  ASSUME NEW r \in Stored, NEW h \in Hash, h.bin # "record", h.coll # NULL, h.pred \in {"and", "or"},
         NEW A, r \in A <=> OwnMeaning(h, r)
  PROVE  /\ r \in A <=> Iterated(r, h.pred, Truth({x \in Elems(r) : Compares(h, x)}), h.bin, h.coll)
         /\ r \in A <=> Iterated(r, h.pred, Choice(r, A), h.bin, h.coll)
<1> DEFINE s == Elements(r[h.bin], h.coll)
           X == {x \in Elems(r) : Compares(h, x)}
           a == IsA(r[h.bin], h.coll)
<1>1. h.bin \in Bins
  BY HashFields
<1>2. \A i \in 1..Len(s) : s[i] \in Elems(r)
  BY <1>1, ElementsInside
<1>3. Truth(X).arg = X /\ Choice(r, A).arg = IF r \in A THEN Elems(r) ELSE {}
  <2>1. X \in SUBSET Elems(r)
    OBVIOUS
  <2> HIDE DEF X
  <2> QED
    BY <2>1, TruthEntry, ChoiceEntry
<1>4. h.pred = "and" => (OwnMeaning(h, r) <=> a /\ \A i \in 1..Len(s) : Compares(h, s[i]))
  BY DEF OwnMeaning
<1>5. h.pred = "or" => (OwnMeaning(h, r) <=> a /\ \E i \in 1..Len(s) : Compares(h, s[i]))
  BY DEF OwnMeaning
<1>6. \A kid : Iterated(r, h.pred, kid, h.bin, h.coll) <=>
               a /\ IF h.pred = "and" THEN \A i \in 1..Len(s) : s[i] \in kid.arg
                                      ELSE \E i \in 1..Len(s) : s[i] \in kid.arg
  BY DEF Iterated
<1>7. \A i \in 1..Len(s) : s[i] \in X <=> Compares(h, s[i])
  BY <1>2
<1> HIDE DEF s, X, a
<1>8. Iterated(r, h.pred, Truth(X), h.bin, h.coll) <=> OwnMeaning(h, r)
  <2>1. CASE h.pred = "and"
    BY <1>3, <1>4, <1>6, <1>7, <2>1
  <2>2. CASE h.pred = "or"
    BY <1>3, <1>5, <1>6, <1>7, <2>2
  <2> QED
    BY <2>1, <2>2
<1>9. Iterated(r, h.pred, Choice(r, A), h.bin, h.coll) <=> OwnMeaning(h, r)
  <2>1. CASE h.pred = "and"
    <3>1. CASE r \in A
      BY <1>2, <1>3, <1>4, <1>6, <2>1, <3>1
    <3>2. CASE r \notin A
      BY <1>3, <1>4, <1>6, <2>1, <3>2
    <3> QED
      BY <3>1, <3>2
  <2>2. CASE h.pred = "or"
    <3>1. CASE r \in A
      BY <1>2, <1>3, <1>5, <1>6, <2>2, <3>1
    <3>2. CASE r \notin A
      BY <1>3, <1>5, <1>6, <2>2, <3>2
    <3> QED
      BY <3>1, <3>2
  <2> QED
    BY <2>1, <2>2
<1> QED
  BY <1>8, <1>9 DEF X

\* the filter of a node says what the documentation says
LEMMA OwnSays ==
  ASSUME NEW r \in Stored, NEW h \in Hash, Complete(h), Carried(h), h.coll # NULL => h.pred \in {"and", "or"},
         NEW A, r \in A <=> OwnMeaning(h, r)
  PROVE  Puts(r, Own(h), <<Choice(r, A)>>)
<1>0. /\ Fits(h)
      /\ h.bin # "record" => Kept(h)
      /\ h.bin = "record" => Ulong(h.value) = h.value
  BY CarriedKept DEF Complete
<1>1. CASE h.bin = "record"
  <2> DEFINE a == Tok("record", h.method)
             b == Tok("value", h.value)
             c == Tok("int", h.filter)
  <2>1. h.method \in Args /\ h.value \in Args /\ h.filter \in Args
    BY <1>1, HashFields DEF Args, Complete
  <2>2. /\ a \in Toks /\ a.op = "record" /\ a.arg = h.method
        /\ b \in Toks /\ b.op = "value" /\ b.arg = h.value
        /\ c \in Toks /\ c.op = "int" /\ c.arg = h.filter
    BY <2>1, TokType DEF Ops
  <2>3. Own(h) = <<a, b, c>>
    BY <1>0, <1>1 DEF Own, Complete
  <2> HIDE DEF a, b, c
  <2>4. <<a, b, c>> = <<a>> \o <<b, c>>
    OBVIOUS
  <2>5. <<a, b>>[1] = a /\ <<a, b>>[2] = b
    OBVIOUS
  <2>6. Choice(r, A) = Result(r, c, <<a, b>>)
    <3>1. \A x : Operand(r, a, c.op, x) = r[h.method]
      BY <2>2 DEF Operand
    <3>2. Result(r, c, <<a, b>>) = Truth({x \in Elems(r) : Cmp(h.filter, Operand(r, a, c.op, x), h.value)})
      BY <2>2, <2>5 DEF Result
    <3>3. r \in A <=> Cmp(h.filter, r[h.method], h.value)
      BY <1>1 DEF OwnMeaning
    <3>4. {x \in Elems(r) : Cmp(h.filter, Operand(r, a, c.op, x), h.value)} = IF r \in A THEN Elems(r) ELSE {}
      BY <3>1, <3>3
    <3> QED
      BY <3>2, <3>4 DEF Choice
  <2>7. Arity(c) = 2 /\ a.op \in Pushed /\ b.op \in Pushed /\ Choice(r, A) \in Entries(r)
    BY <2>2, ChoiceEntry DEF Arity, Pushed
  <2>8. Puts(r, <<a>>, <<a>>)
    BY <2>2, <2>7, PutsToken
  <2>9. Puts(r, <<a>> \o <<b, c>>, <<Choice(r, A)>>)
    BY <2>2, <2>6, <2>7, <2>8, PutsTwo
  <2> QED
    BY <2>3, <2>4, <2>9
<1>2. CASE h.bin # "record" /\ h.coll = NULL
  <2> DEFINE a == Tok("bin", h.bin)
  <2>1. h.value # NULL /\ h.bin \in Args
    BY <1>2, HashFields DEF Complete, Args
  <2>2. a \in Toks /\ a.op = "bin" /\ a.arg = h.bin
    BY <2>1, TokType DEF Ops
  <2>3. Own(h) = <<a>> \o ValueToks(h)
    BY <1>0, <1>2, <2>1 DEF Own
  <2> HIDE DEF a
  <2>4. Puts(r, <<a>>, <<a>>)
    BY <2>2, PutsToken DEF Pushed
  <2> DEFINE X == IF r \in A THEN Elems(r) ELSE {}
  <2>5. X = {x \in Elems(r) : Cmp(h.filter, Operand(r, a, TypeOf(h.value), x), h.value)}
    <3>1. OwnMeaning(h, r) <=> r[h.bin].kind = "scalar" /\ Compares(h, r[h.bin].vals[1])
      BY <1>2 DEF OwnMeaning
    <3>2. \A x : Operand(r, a, TypeOf(h.value), x) =
                   IF r[h.bin].kind = "scalar" THEN OfType(r[h.bin].vals[1], TypeOf(h.value)) ELSE NULL
      BY <2>2 DEF Operand
    <3>3. CASE r[h.bin].kind = "scalar"
      <4>1. \A x : Cmp(h.filter, Operand(r, a, TypeOf(h.value), x), h.value) <=> r \in A
        BY <3>1, <3>2, <3>3, ComparesVariable
      <4> QED
        BY <4>1
    <3>4. CASE r[h.bin].kind # "scalar"
      <4>1. \A x : ~Cmp(h.filter, Operand(r, a, TypeOf(h.value), x), h.value)
        BY <3>2, <3>4 DEF Cmp
      <4> QED
        BY <3>1, <3>4, <4>1
    <3> QED
      BY <3>3, <3>4
  <2>6. Puts(r, <<a>> \o ValueToks(h), <<Truth(X)>>)
    <3> HIDE DEF X
    <3> QED
      BY <1>0, <1>2, <2>1, <2>2, <2>4, <2>5, PutsValue
  <2> QED
    BY <2>3, <2>6 DEF Choice
<1>3. CASE h.bin # "record" /\ h.coll # NULL
  <2> DEFINE a == Tok("var", NULL)
             X == {x \in Elems(r) : Compares(h, x)}
             s == <<a>> \o ValueToks(h)
             t == s \o CollectionToks(h)
  <2>1. h.value # NULL /\ h.pred \in {"and", "or"} /\ NULL \in Args
    BY <1>3 DEF Complete, Args
  <2>2. a \in Toks /\ a.op = "var"
    BY <2>1, TokType DEF Ops
  <2>3. Own(h) = t \o (IF h.value \in Ints THEN CollectionToks(h) ELSE <<>>)
    BY <1>0, <1>3, <2>1 DEF Own
  <2> HIDE DEF a
  <2>4. X = {x \in Elems(r) : Cmp(h.filter, Operand(r, a, TypeOf(h.value), x), h.value)}
    <3>1. \A x : Operand(r, a, TypeOf(h.value), x) = OfType(x, TypeOf(h.value))
      BY <2>2 DEF Operand
    <3> QED
      BY <3>1, ComparesVariable
  <2>5. Puts(r, <<a>>, <<a>>)
    BY <2>2, PutsToken DEF Pushed
  <2>6. /\ r \in A <=> Iterated(r, h.pred, Truth(X), h.bin, h.coll)
        /\ r \in A <=> Iterated(r, h.pred, Choice(r, A), h.bin, h.coll)
    BY <1>3, <2>1, IteratedMeaning
  <2>7. X \in SUBSET Elems(r)
    OBVIOUS
  <2> HIDE DEF X
  <2>8. Puts(r, s, <<Truth(X)>>)
    BY <1>0, <1>3, <2>1, <2>2, <2>4, <2>5, PutsValue
  <2> HIDE DEF s
  <2>9. Puts(r, t, <<Choice(r, A)>>)
    BY <1>3, <2>1, <2>6, <2>7, <2>8, PutsCollection
  <2> DEFINE Y == IF r \in A THEN Elems(r) ELSE {}
  <2>10. Puts(r, t, <<Truth(Y)>>) /\ Y \in SUBSET Elems(r)
    BY <2>9 DEF Choice
  <2>11. r \in A <=> Iterated(r, h.pred, Truth(Y), h.bin, h.coll)
    BY <2>6 DEF Choice
  <2> HIDE DEF t, Y
  <2>12. Puts(r, t \o CollectionToks(h), <<Choice(r, A)>>)
    BY <1>3, <2>1, <2>10, <2>11, PutsCollection
  <2>13. t \o <<>> = t
    BY <2>9, ConcatEmptySeq DEF Puts
  <2> QED
    BY <2>3, <2>9, <2>12, <2>13
<1> QED
  BY <1>1, <1>2, <1>3

LEMMA PushSays ==
  ASSUME NEW r \in Stored, NEW h \in Hash, Complete(h), Carried(h), h.coll # NULL => h.pred \in {"and", "or"},
         NEW A, r \in A <=> (OwnMeaning(h, r) <=> h.true)
  PROVE  Puts(r, Push(h), <<Choice(r, A)>>)
<1> DEFINE B == {q \in Stored : OwnMeaning(h, q)}
           x == Tok("not", 1)
<1>1. r \in B <=> OwnMeaning(h, r)
  OBVIOUS
<1> HIDE DEF B
<1>2. Puts(r, Own(h), <<Choice(r, B)>>)
  BY <1>1, OwnSays
<1>3. CASE h.true
  <2>1. r \in A <=> r \in B
    BY <1>1, <1>3
  <2>2. Choice(r, A) = Choice(r, B)
    BY <2>1 DEF Choice
  <2>3. Own(h) \o <<>> = Own(h) /\ Negation(h) = <<>>
    BY <1>2, <1>3, ConcatEmptySeq DEF Puts, Negation
  <2> QED
    BY <1>2, <2>2, <2>3 DEF Push
<1>4. CASE ~h.true
  <2>1. 1 \in Args
    BY DEF Args
  <2>2. x \in Toks /\ x.op = "not" /\ x.arg = 1
    BY <2>1, TokType DEF Ops
  <2>3. Push(h) = Own(h) \o <<x>>
    BY <1>4 DEF Push, Negation
  <2> HIDE DEF x
  <2> DEFINE c == Choice(r, B)
  <2>4. c.arg = IF r \in B THEN Elems(r) ELSE {}
    BY ChoiceEntry
  <2> HIDE DEF c
  <2>5. Len(<<c>>) = 1 /\ <<c>>[1] = c /\ <<c>> # <<>>
    OBVIOUS
  <2>6. Choice(r, A) = Result(r, x, <<c>>)
    <3>1. Result(r, x, <<c>>) = Truth(Elems(r) \ c.arg)
      BY <2>2, <2>5 DEF Result
    <3>2. r \in A <=> r \notin B
      BY <1>1, <1>4
    <3>3. Elems(r) \ c.arg = IF r \in A THEN Elems(r) ELSE {}
      BY <2>4, <3>2
    <3> QED
      BY <3>1, <3>3 DEF Choice
  <2>7. Arity(x) = Len(<<c>>) /\ Choice(r, A) \in Entries(r)
    BY <2>2, <2>5, ChoiceEntry DEF Arity
  <2>8. Puts(r, Own(h), <<c>>)
    BY <1>2 DEF c
  <2>9. Puts(r, Own(h) \o <<x>>, <<Choice(r, A)>>)
    BY <2>2, <2>5, <2>6, <2>7, <2>8, PutsOperator
  <2> QED
    BY <2>3, <2>9
<1> QED
  BY <1>3, <1>4

-----------------------------------------------------------------------------
(* Nodes and their children *)

\* the truths of the children
ChildTruths(r, sel, kids) == [i \in 1..Len(kids) |-> Choice(r, sel[kids[i]])]

LEMMA ChildTruthsType ==
  ASSUME NEW r, NEW sel, NEW kids \in Seq(Nodes)
  PROVE  /\ ChildTruths(r, sel, kids) \in Stack(r) /\ Len(ChildTruths(r, sel, kids)) = Len(kids)
         /\ \A i \in 1..Len(kids) : ChildTruths(r, sel, kids)[i] = Choice(r, sel[kids[i]])
<1>1. Len(kids) \in Nat
  BY LenProperties
<1>2. \A i \in 1..Len(kids) : Choice(r, sel[kids[i]]) \in Entries(r)
  BY ChoiceEntry
<1> QED
  BY <1>1, <1>2 DEF ChildTruths, Stack

LEMMA FlatSays ==
  ASSUME NEW r, NEW below, NEW sel, NEW kids \in Seq(Nodes),
         \A i \in 1..Len(kids) : Puts(r, below[kids[i]], <<Choice(r, sel[kids[i]])>>)
  PROVE  Puts(r, Flat(below, kids), ChildTruths(r, sel, kids))
<1> DEFINE q == Parts(below, kids)
           n == Len(kids)
           e == ChildTruths(r, sel, kids)
<1>1. /\ Len(q) = n /\ n \in Nat
      /\ \A i \in 1..n : q[i] = below[kids[i]]
  BY PartsFacts
<1>2. e \in Stack(r) /\ Len(e) = n /\ \A i \in 1..n : Puts(r, q[i], <<e[i]>>)
  BY <1>1, ChildTruthsType
<1>3. CASE n = 0
  <2>1. kids = <<>>
    BY <1>3, EmptySeq
  <2>2. Flat(below, kids) = <<>>
    BY <2>1, FlatEmpty
  <2>3. e = <<>>
    BY <1>2, <1>3, EmptySeq DEF Stack
  <2> QED
    BY <2>2, <2>3, PutsEmpty
<1>4. CASE n # 0
  <2> HIDE DEF q, n, e
  <2>1. PICK f : Joins(f, q, n) /\ FlattenSeq(q) = f[n]
    BY <1>1, <1>4, Flattened
  <2> DEFINE T == {m \in 1..n : ~Puts(r, f[m], SubSeq(e, 1, m))}
  <2>2. T = {}
    <3> SUFFICES ASSUME T # {} PROVE FALSE
      OBVIOUS
    <3>1. PICK m \in T : \A k \in T : m <= k
      <4>1. T \in SUBSET Nat
        BY <1>1
      <4> QED
        BY <4>1, Smallest
    <3>2. m \in 1..n /\ m \in Nat /\ ~Puts(r, f[m], SubSeq(e, 1, m))
      BY <1>1, <3>1
    <3>3. f[m] = IF m = 1 THEN q[m] ELSE f[m - 1] \o q[m]
      BY <2>1, <3>2 DEF Joins
    <3>4. Puts(r, q[m], <<e[m]>>) /\ 1 \in 1..Len(e) /\ m \in 1..Len(e)
      BY <1>1, <1>2, <3>2
    <3>5. SubSeq(e, 1, m) = SubSeq(e, 1, m - 1) \o <<e[m]>>
      BY <1>2, <3>2, <3>4, SubSeqRecursiveSecond DEF Stack
    <3>6. CASE m = 1
      <4>1. SubSeq(e, 1, m - 1) = <<>>
        BY <3>6, SubSeqEmpty
      <4>2. <<>> \o <<e[m]>> = <<e[m]>>
        BY <3>4, ConcatEmptySeq DEF Puts, Stack
      <4> QED
        BY <3>2, <3>3, <3>4, <3>5, <3>6, <4>1, <4>2
    <3>7. CASE m # 1
      <4>1. m - 1 \in 1..n /\ m - 1 \notin T
        BY <1>1, <3>1, <3>2, <3>7
      <4>2. Puts(r, f[m - 1], SubSeq(e, 1, m - 1))
        BY <4>1
      <4>3. Puts(r, f[m - 1] \o q[m], SubSeq(e, 1, m - 1) \o <<e[m]>>)
        BY <3>4, <4>2, PutsJoin
      <4> QED
        BY <3>2, <3>3, <3>5, <3>7, <4>3
    <3> QED
      BY <3>6, <3>7
  <2>3. n \in 1..n
    BY <1>1, <1>4
  <2>4. Puts(r, f[n], SubSeq(e, 1, n))
    BY <2>2, <2>3
  <2>5. SubSeq(e, 1, n) = e
    BY <1>2, SubSeqFull DEF Stack
  <2> QED
    BY <2>1, <2>4, <2>5 DEF Flat, q, e
<1> QED
  BY <1>3, <1>4

\* an operator joins the truth of the node with those of the children
LEMMA OperatorSays ==
  ASSUME NEW r, NEW s, NEW B, Puts(r, s, <<Choice(r, B)>>), NEW o \in {"and", "or"},
         NEW t, NEW sel, NEW kids \in Seq(Nodes), Puts(r, t, ChildTruths(r, sel, kids)),
         NEW A,
         r \in A <=> \/ o = "and" /\ r \in B /\ \A i \in 1..Len(kids) : r \in sel[kids[i]]
                     \/ o = "or" /\ (r \in B \/ \E i \in 1..Len(kids) : r \in sel[kids[i]])
  PROVE  Puts(r, (s \o t) \o Operator(o, kids), <<Choice(r, A)>>)
<1> DEFINE n == Len(kids)
           c == Choice(r, B)
           e == ChildTruths(r, sel, kids)
           all == <<c>> \o e
           x == Tok(o, n + 1)
<1>1. /\ n \in Nat /\ e \in Stack(r) /\ Len(e) = n
      /\ \A i \in 1..n : e[i] = Choice(r, sel[kids[i]])
  BY ChildTruthsType, LenProperties
<1>2. c \in Entries(r) /\ c.arg = IF r \in B THEN Elems(r) ELSE {}
  BY ChoiceEntry
<1>3. \A i \in 1..n : e[i].arg = IF r \in sel[kids[i]] THEN Elems(r) ELSE {}
  BY <1>1, ChoiceEntry
<1>4. r \in A <=> \/ o = "and" /\ r \in B /\ \A i \in 1..n : r \in sel[kids[i]]
                  \/ o = "or" /\ (r \in B \/ \E i \in 1..n : r \in sel[kids[i]])
  OBVIOUS
<1>5. x \in Toks /\ x.op = o /\ x.arg = n + 1
  <2>1. n + 1 \in Args
    BY <1>1 DEF Args
  <2> HIDE DEF n
  <2> QED
    BY <2>1, TokType DEF Ops
<1>6. Operator(o, kids) = IF kids = <<>> THEN <<>> ELSE <<x>>
  BY DEF Operator
<1> HIDE DEF n, c, e, x
<1>7. /\ all \in Stack(r) /\ Len(all) = n + 1 /\ all[1] = c
      /\ \A i \in 1..n : all[i + 1] = e[i]
  <2> DEFINE one == <<c>>
  <2>1. one \in Seq(Entries(r)) /\ Len(one) = 1 /\ one[1] = c
    BY <1>2
  <2> HIDE DEF one
  <2>2. /\ one \o e \in Seq(Entries(r)) /\ Len(one \o e) = 1 + n
        /\ \A i \in 1..1 + n : (one \o e)[i] = IF i <= 1 THEN one[i] ELSE e[i - 1]
    BY <1>1, <2>1, ConcatProperties DEF Stack
  <2>3. 1 \in 1..1 + n /\ 1 + n = n + 1
    BY <1>1
  <2>4. \A i \in 1..n : i + 1 \in 1..1 + n /\ ~(i + 1 <= 1) /\ i + 1 - 1 = i
    BY <1>1
  <2>5. (one \o e)[1] = c
    BY <2>1, <2>2, <2>3
  <2>6. ASSUME NEW i \in 1..n PROVE (one \o e)[i + 1] = e[i]
    <3> DEFINE j == i + 1
    <3>1. j \in 1..1 + n /\ ~(j <= 1) /\ j - 1 = i
      BY <2>4
    <3> HIDE DEF j
    <3>2. (one \o e)[j] = e[i]
      BY <2>2, <3>1
    <3> QED
      BY <3>2 DEF j
  <2>7. one \o e \in Stack(r) /\ Len(one \o e) = n + 1
    BY <2>2, <2>3 DEF Stack
  <2> QED
    BY <2>5, <2>6, <2>7 DEF one
<1>8. Puts(r, s \o t, all)
  BY PutsJoin DEF c, e
<1> HIDE DEF all
<1>9. CASE kids = <<>>
  <2>1. n = 0
    BY <1>9 DEF n
  <2>2. r \in A <=> r \in B
    BY <1>4, <2>1
  <2>3. e = <<>>
    BY <1>1, <2>1, EmptySeq DEF Stack
  <2>4. all = <<c>>
    <3>1. <<c>> \in Seq(Entries(r))
      BY <1>2
    <3> QED
      BY <2>3, <3>1, ConcatEmptySeq DEF all
  <2>5. c = Choice(r, A)
    BY <2>2 DEF c, Choice
  <2>6. (s \o t) \o <<>> = s \o t
    BY <1>8, ConcatEmptySeq DEF Puts
  <2> QED
    BY <1>6, <1>8, <1>9, <2>4, <2>5, <2>6
<1>10. CASE kids # <<>>
  <2> DEFINE X == {y \in Elems(r) : \A i \in 1..n + 1 : y \in all[i].arg}
             Y == {y \in Elems(r) : \E i \in 1..n + 1 : y \in all[i].arg}
  <2>1. \A i \in 1..n + 1 : i = 1 \/ (i - 1 \in 1..n /\ i - 1 + 1 = i)
    BY <1>1
  <2>2. 1 \in 1..n + 1 /\ \A i \in 1..n : i + 1 \in 1..n + 1
    BY <1>1
  <2>3. Result(r, x, all) = IF o = "and" THEN Truth(X) ELSE Truth(Y)
    BY <1>5, <1>7 DEF Result
  <2>4. ASSUME NEW i \in 1..n PROVE all[i + 1].arg = IF r \in sel[kids[i]] THEN Elems(r) ELSE {}
    BY <1>3, <1>7
  <2>5. ASSUME NEW y PROVE /\ (\A i \in 1..n + 1 : y \in all[i].arg) <=> y \in c.arg /\ \A i \in 1..n : y \in all[i + 1].arg
                           /\ (\E i \in 1..n + 1 : y \in all[i].arg) <=> y \in c.arg \/ \E i \in 1..n : y \in all[i + 1].arg
    BY <1>7, <2>1, <2>2
  <2>6. CASE o = "and"
    <3>1. X = IF r \in A THEN Elems(r) ELSE {}
      BY <1>2, <1>4, <2>4, <2>5, <2>6
    <3> QED
      <4>1. Choice(r, A) = Result(r, x, all)
        BY <2>3, <2>6, <3>1 DEF Choice
      <4>2. Arity(x) = Len(all) /\ all # <<>> /\ Choice(r, A) \in Entries(r)
        BY <1>1, <1>5, <1>7, <2>6, ChoiceEntry, EmptySeq DEF Arity
      <4>3. Puts(r, (s \o t) \o <<x>>, <<Choice(r, A)>>)
        BY <1>5, <1>8, <4>1, <4>2, PutsOperator
      <4> QED
        BY <1>6, <1>10, <4>3
  <2>7. CASE o = "or"
    <3>1. Y = IF r \in A THEN Elems(r) ELSE {}
      BY <1>2, <1>4, <2>4, <2>5, <2>7
    <3> QED
      <4>1. Choice(r, A) = Result(r, x, all)
        BY <2>3, <2>7, <3>1 DEF Choice
      <4>2. Arity(x) = Len(all) /\ all # <<>> /\ Choice(r, A) \in Entries(r)
        BY <1>1, <1>5, <1>7, <2>7, ChoiceEntry, EmptySeq DEF Arity
      <4>3. Puts(r, (s \o t) \o <<x>>, <<Choice(r, A)>>)
        BY <1>5, <1>8, <4>1, <4>2, PutsOperator
      <4> QED
        BY <1>6, <1>10, <4>3
  <2> QED
    BY <2>6, <2>7
<1> QED
  BY <1>9, <1>10

\* the code of a node says what the node selects, if those of its children do
LEMMA NodeSays ==
  ASSUME Basic, NEW n \in Made, Complete(node[n]), Carried(node[n]), NEW r \in Stored, NEW below, NEW sel,
         \A k \in Kids(n) : Puts(r, below[k], <<Choice(r, sel[k])>>)
  PROVE  Puts(r, Node2Predexp(below, n), <<Choice(r, Selection(sel, n))>>)
<1> DEFINE h == node[n]
           A == {q \in Stored : OwnMeaning(h, q) <=> h.true}
           B == {q \in A : \A i \in 1..Len(h.and) : q \in sel[h.and[i]]}
<1>1. h \in Hash /\ (h.coll # NULL => h.pred \in {"and", "or"})
  BY MadeNode DEF Basic, Linked
<1>2. /\ h.and \in Seq(Nodes) /\ h.or \in Seq(Nodes)
      /\ \A i \in 1..Len(h.and) : h.and[i] \in Kids(n)
      /\ \A i \in 1..Len(h.or) : h.or[i] \in Kids(n)
  BY KidPlaces DEF Basic
<1>3. r \in A <=> (OwnMeaning(h, r) <=> h.true)
  OBVIOUS
<1>4. r \in B <=> r \in A /\ \A i \in 1..Len(h.and) : r \in sel[h.and[i]]
  OBVIOUS
<1>5. r \in Selection(sel, n) <=> r \in B \/ \E i \in 1..Len(h.or) : r \in sel[h.or[i]]
  BY DEF Selection
<1>6. Node2Predexp(below, n) =
        (((Push(h) \o Flat(below, h.and)) \o Operator("and", h.and)) \o Flat(below, h.or)) \o Operator("or", h.or)
  BY NodeCode
<1>7. Complete(h) /\ Carried(h)
  OBVIOUS
<1> HIDE DEF h, A, B
<1>8. Puts(r, Push(h), <<Choice(r, A)>>)
  BY <1>1, <1>3, <1>7, PushSays
<1>9. /\ Puts(r, Flat(below, h.and), ChildTruths(r, sel, h.and))
      /\ Puts(r, Flat(below, h.or), ChildTruths(r, sel, h.or))
  BY <1>2, FlatSays
<1> DEFINE s == (Push(h) \o Flat(below, h.and)) \o Operator("and", h.and)
           C == Selection(sel, n)
<1>10. Puts(r, s, <<Choice(r, B)>>)
  <2>1. r \in B <=> \/ "and" = "and" /\ r \in A /\ \A i \in 1..Len(h.and) : r \in sel[h.and[i]]
                    \/ "and" = "or" /\ (r \in A \/ \E i \in 1..Len(h.and) : r \in sel[h.and[i]])
    BY <1>4
  <2> QED
    BY <1>2, <1>8, <1>9, <2>1, OperatorSays
<1>11. r \in C <=> \/ "or" = "and" /\ r \in B /\ \A i \in 1..Len(h.or) : r \in sel[h.or[i]]
                   \/ "or" = "or" /\ (r \in B \/ \E i \in 1..Len(h.or) : r \in sel[h.or[i]])
  BY <1>5
<1> HIDE DEF s, C
<1>12. Puts(r, (s \o Flat(below, h.or)) \o Operator("or", h.or), <<Choice(r, C)>>)
  BY <1>2, <1>9, <1>10, <1>11, OperatorSays
<1> QED
  BY <1>6, <1>12 DEF s, C

LEMMA CompileSays ==
  ASSUME Basic, NEW top \in Made, ~Looping(top),
         \A n \in Reached(top) : Complete(node[n]) /\ Carried(node[n]), NEW r \in Stored
  PROVE  Puts(r, Compile(top), <<Choice(r, Meaning(top))>>)
<1> DEFINE Good(d, n) == Puts(r, code[d][n], <<Choice(r, selected[d][n])>>)
           Q == {x \in (1..N) \X Made : Good(x[1], x[2])}
<1>1. ASSUME NEW d \in 1..N, NEW n \in Reached(top), \A k \in Kids(n) : <<d - 1, k>> \in Q
      PROVE  <<d, n>> \in Q
  <2>1. n \in Made /\ n \in Nodes
    BY DEF Reached, Made
  <2>2. \A k \in Kids(n) : Good(d - 1, k)
    BY <1>1
  <2>3. Good(d, n)
    <3>1. Puts(r, Node2Predexp(code[d - 1], n), <<Choice(r, Selection(selected[d - 1], n))>>)
      BY <2>1, <2>2, NodeSays
    <3> QED
      BY <2>1, <3>1, CodeLevel, SelectedLevel
  <2> QED
    BY <2>1, <2>3
<1>2. <<N, top>> \in Q
  <2>1. Q \in SUBSET ((1..N) \X Made) /\ Linked
    BY DEF Basic
  <2> HIDE DEF Q
  <2> QED
    BY <1>1, <2>1, NodeInduction
<1>3. Good(N, top)
  BY <1>2
<1> QED
  BY <1>3 DEF Compile, Meaning, N

\* The array a query sends selects the records its PredExp means, for any expression
\* without a loop, an incomplete node or an integer that the conversions refuse or change,
\* whatever calls built it and whatever records the server holds (predexp_2_as_predexp).
THEOREM SameMeaning == Spec => []MeansTheSame
<1>1. Basic => MeansTheSame
  <2> SUFFICES ASSUME Basic, root # NULL, ~Looping(root),
                      \A n \in Reached(root) : Complete(node[n]) /\ Carried(node[n]), NEW r \in Stored
               PROVE  LET stack == Run(r, <<>>, Compile(root))
                      IN  Len(stack) = 1 /\ (NULL \in stack[1].arg <=> r \in Meaning(root))
    BY DEF MeansTheSame
  <2>1. root \in Made
    BY DEF Basic, TypeOK, Made
  <2> DEFINE c == Choice(r, Meaning(root))
  <2>3. Puts(r, Compile(root), <<c>>)
    BY <2>1, CompileSays
  <2>4. c.arg = IF r \in Meaning(root) THEN Elems(r) ELSE {}
    BY ChoiceEntry
  <2>5. NULL \in Elems(r)
    BY DEF Elems
  <2> HIDE DEF c
  <2>6. Run(r, <<>>, Compile(root)) = <<c>>
    <3>1. <<>> \in Stack(r)
      BY EmptySeq DEF Stack
    <3>2. Run(r, <<>>, Compile(root)) = <<>> \o <<c>>
      BY <2>3, <3>1 DEF Puts
    <3>3. <<>> \o <<c>> = <<c>>
      BY <2>3, ConcatEmptySeq DEF Puts, Stack
    <3> QED
      BY <3>2, <3>3
  <2>7. Len(<<c>>) = 1 /\ <<c>>[1] = c
    OBVIOUS
  <2> QED
    BY <2>4, <2>5, <2>6, <2>7
<1> QED
  BY <1>1, Invariance, PTL
=============================================================================

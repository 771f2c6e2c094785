---------------------------- MODULE BuildersProofs ----------------------------
(***************************************************************************)
(* Proofs about Builders, for any objects, arrays, bins, values, operations   *)
(* and calls.  What an object has been asked for is in its log; what it holds  *)
(* is in its instance variables and in an array others may share.  The         *)
(* invariant ties the two together, object by object: its own array, one the   *)
(* program has no reference to, is no other object's and holds what was added  *)
(* (Alone); the other variables hold what the last calls set (Kept).           *)
(***************************************************************************)
EXTENDS Builders, WellFoundedInduction, SequenceTheorems, TLAPS

Logs == [add : Seq(Items), ttl : Seq(Ttls),
         filter : Seq(PlainFilters \cup GeoCalls), order : Orderings]

\* nothing was asked of an object that has not been made
Blank(o) ==
  object[o] = NULL => /\ log[o].add = <<>> /\ log[o].ttl = <<>>
                      /\ log[o].filter = <<>> /\ log[o].order = <<>>

Alone(o) ==
  object[o] # NULL /\ Own(o) =>
    /\ array[object[o].items] = log[o].add
    /\ \A p \in Objects \ {o} : object[p] # NULL => object[p].items # object[o].items

\* a filter, and the one that was asked for
SameFilter(g, f) ==
  /\ (g = NULL) <=> (f = NULL)
  /\ f # NULL => /\ g.type = f.type /\ g.bin = f.bin
                 /\ f.type \in {"eql", "range"} => g = f
                 /\ f.type \in {"geo_contains", "geo_within"} => g.geo = Made(f.geo)

Kept(o) ==
  object[o] # NULL =>
    /\ object[o].ttl = LastOf(log[o].ttl, 0)
    /\ object[o].order = log[o].order
    /\ SameFilter(object[o].filter, LastOf(log[o].filter, NULL))

Tied == \A o \in Objects : Blank(o) /\ Alone(o) /\ Kept(o)

IInv == TypeOK /\ Tied /\ OperationsAsAsked /\ QueriesAsAsked /\ ShapesAsAsked

-----------------------------------------------------------------------------
(* FlattenSeq: there is a function that joins the members one by one, and no   *)
(* least index at which it does not hold what it should.                      *)

LEMMA Smallest ==
  ASSUME NEW T \in SUBSET Nat, T # {}
  PROVE  \E m \in T : \A k \in T : m <= k
<1>1. PICK m \in T : \A k \in T : ~(<<k, m>> \in OpToRel(<, Nat))
  BY WFMin, NatLessThanWellFounded
<1>2. ASSUME NEW k \in T PROVE m <= k
  <2>1. ~(k < m)
    BY <1>1 DEF OpToRel
  <2> QED
    BY <2>1
<1> QED
  BY <1>2

\* f joins the first members of q, one after the other
Joins(f, q, n) == f = [i \in 1..n |-> IF i = 1 THEN q[i] ELSE f[i - 1] \o q[i]]

LEMMA JoinExists ==
  ASSUME NEW q, NEW n \in Nat
  PROVE  \E f : Joins(f, q, n)
<1> DEFINE T == {m \in Nat : ~\E f : Joins(f, q, m)}
<1> SUFFICES ASSUME T # {} PROVE FALSE
  OBVIOUS
<1>1. PICK m \in T : \A k \in T : m <= k
  BY Smallest
<1>2. m # 0
  <2>1. Joins(<<>>, q, 0)
    BY DEF Joins
  <2> QED
    BY <1>1, <2>1
<1>3. PICK f : Joins(f, q, m - 1)
  BY <1>1, <1>2
<1> DEFINE g == [i \in 1..m |-> IF i = 1 THEN q[i] ELSE f[i - 1] \o q[i]]
<1>4. m \in Nat /\ 1..m - 1 \subseteq 1..m
  BY <1>1
<1>5. \A i \in 1..m : g[i] = IF i = 1 THEN q[i] ELSE f[i - 1] \o q[i]
  OBVIOUS
<1>6. \A i \in 1..m - 1 : f[i] = IF i = 1 THEN q[i] ELSE f[i - 1] \o q[i]
  BY <1>3 DEF Joins
<1> HIDE DEF g
<1>7. \A i \in 1..m - 1 : g[i] = f[i]
  BY <1>4, <1>5, <1>6
<1>8. ASSUME NEW i \in 1..m PROVE g[i] = IF i = 1 THEN q[i] ELSE g[i - 1] \o q[i]
  <2>1. CASE i = 1
    BY <1>5, <2>1
  <2>2. CASE i # 1
    <3>1. i - 1 \in 1..m - 1
      BY <1>4, <2>2
    <3> QED
      BY <1>5, <1>7, <2>2, <3>1
  <2> QED
    BY <2>1, <2>2
<1>9. Joins(g, q, m)
  BY <1>8 DEF Joins, g
<1> QED
  BY <1>1, <1>9

LEMMA Flattened ==
  ASSUME NEW q, Len(q) \in Nat, Len(q) # 0
  PROVE  \E f : Joins(f, q, Len(q)) /\ FlattenSeq(q) = f[Len(q)]
<1> DEFINE f == CHOOSE f : Joins(f, q, Len(q))
<1>1. Joins(f, q, Len(q))
  BY JoinExists
<1>2. FlattenSeq(q) = f[Len(q)]
  BY DEF FlattenSeq, Joins
<1> QED
  BY <1>1, <1>2

\* the join of one or no element for each member
Part(q, S) == \A i \in 1..Len(q) : q[i] \in Seq(S) /\ Len(q[i]) <= 1

LEMMA JoinLength ==
  ASSUME NEW S, NEW q, Len(q) \in Nat, Len(q) # 0, Part(q, S), NEW f, Joins(f, q, Len(q)),
         NEW n \in 1..Len(q)
  PROVE  /\ f[n] \in Seq(S) /\ Len(f[n]) <= n
         /\ (\E i \in 1..n : q[i] = <<>>) => Len(f[n]) < n
<1> DEFINE Good(m) == /\ f[m] \in Seq(S) /\ Len(f[m]) <= m
                      /\ (\E i \in 1..m : q[i] = <<>>) => Len(f[m]) < m
           T == {m \in 1..Len(q) : ~Good(m)}
<1> SUFFICES ASSUME T # {} PROVE FALSE
  OBVIOUS
<1>1. PICK m \in T : \A k \in T : m <= k
  <2>1. T \in SUBSET Nat
    OBVIOUS
  <2> QED
    BY <2>1, Smallest
<1>2. m \in 1..Len(q) /\ m \in Nat /\ ~Good(m)
  BY <1>1
<1>3. f[m] = IF m = 1 THEN q[m] ELSE f[m - 1] \o q[m]
  BY <1>2 DEF Joins
<1>4. q[m] \in Seq(S) /\ Len(q[m]) \in Nat /\ Len(q[m]) <= 1 /\ (q[m] = <<>> => Len(q[m]) = 0)
  <2>1. q[m] \in Seq(S) /\ Len(q[m]) <= 1
    BY <1>2 DEF Part
  <2>2. Len(<<>>) = 0
    OBVIOUS
  <2> QED
    BY <2>1, <2>2, LenProperties
<1>5. CASE m = 1
  <2>1. Len(f[1]) <= 1 /\ f[1] \in Seq(S)
    BY <1>3, <1>4, <1>5
  <2>2. ASSUME NEW i \in 1..1, q[i] = <<>> PROVE Len(f[1]) < 1
    <3>1. i = 1
      OBVIOUS
    <3> QED
      BY <1>3, <1>4, <1>5, <2>2, <3>1
  <2> QED
    BY <1>2, <1>5, <2>1, <2>2
<1>6. CASE m # 1
  <2>1. m - 1 \in 1..Len(q) /\ m - 1 \notin T
    BY <1>1, <1>2, <1>6
  <2>2. Good(m - 1)
    BY <2>1
  <2>3. f[m] \in Seq(S) /\ Len(f[m]) = Len(f[m - 1]) + Len(q[m])
    BY <1>3, <1>4, <1>6, <2>2, ConcatProperties
  <2> DEFINE k == Len(f[m - 1])
             l == Len(q[m])
  <2>4. k \in Nat /\ k <= m - 1 /\ l \in Nat /\ l <= 1 /\ Len(f[m]) = k + l
    BY <1>4, <2>2, <2>3, LenProperties
  <2>5. (\E i \in 1..m - 1 : q[i] = <<>>) => k < m - 1
    BY <2>2
  <2>6. q[m] = <<>> => l = 0
    BY <1>4
  <2> HIDE DEF k, l
  <2>7. Len(f[m]) <= m
    BY <1>2, <2>4
  <2>8. ASSUME NEW i \in 1..m, q[i] = <<>> PROVE k + l < m
    <3>1. CASE i = m
      BY <1>2, <2>4, <2>6, <2>8, <3>1
    <3>2. CASE i # m
      <4>1. i \in 1..m - 1
        BY <1>2, <3>2
      <4>2. k < m - 1
        BY <2>5, <2>8, <4>1
      <4> QED
        BY <1>2, <2>4, <4>2
    <3> QED
      BY <3>1, <3>2
  <2> QED
    BY <1>2, <2>3, <2>4, <2>7, <2>8
<1> QED
  BY <1>5, <1>6

\* the join of one element each
LEMMA JoinSingles ==
  ASSUME NEW S, NEW q, Len(q) \in Nat, Len(q) # 0, NEW a \in [1..Len(q) -> S],
         \A i \in 1..Len(q) : q[i] = <<a[i]>>, NEW f, Joins(f, q, Len(q))
  PROVE  f[Len(q)] = a
<1> DEFINE First(m) == [i \in 1..m |-> a[i]]
           T == {m \in 1..Len(q) : f[m] # First(m)}
<1> SUFFICES ASSUME T # {} PROVE FALSE
  <2>1. Len(q) \in 1..Len(q) /\ First(Len(q)) = a
    OBVIOUS
  <2> QED
    BY <2>1
<1>1. PICK m \in T : \A k \in T : m <= k
  <2>1. T \in SUBSET Nat
    OBVIOUS
  <2> QED
    BY <2>1, Smallest
<1>2. m \in 1..Len(q) /\ m \in Nat /\ f[m] # First(m)
  BY <1>1
<1>3. f[m] = IF m = 1 THEN q[m] ELSE f[m - 1] \o q[m]
  BY <1>2 DEF Joins
<1>4. q[m] = <<a[m]>> /\ a[m] \in S
  BY <1>2
<1>5. CASE m = 1
  <2>1. f[m] = <<a[1]>>
    BY <1>3, <1>4, <1>5
  <2>2. First(1) = <<a[1]>>
    OBVIOUS
  <2> QED
    BY <1>2, <1>5, <2>1, <2>2
<1>6. CASE m # 1
  <2>1. m - 1 \in 1..Len(q) /\ m - 1 \notin T
    BY <1>1, <1>2, <1>6
  <2>2. f[m - 1] = First(m - 1)
    BY <2>1
  <2>3. First(m - 1) \in Seq(S) /\ Len(First(m - 1)) = m - 1
    <3>1. First(m - 1) \in [1..m - 1 -> S]
      BY <1>2
    <3> QED
      BY <2>1, <3>1
  <2>4. First(m) \in Seq(S) /\ Len(First(m)) = m
    <3>1. First(m) \in [1..m -> S]
      BY <1>2
    <3> QED
      BY <1>2, <3>1
  <2>5. f[m] = Append(First(m - 1), a[m])
    BY <1>3, <1>4, <1>6, <2>2, <2>3, AppendIsConcat
  <2>6. /\ f[m] \in Seq(S) /\ Len(f[m]) = m
        /\ \A i \in 1..m : f[m][i] = a[i]
    BY <1>4, <2>3, <2>5, AppendProperties
  <2> QED
    BY <1>2, <2>4, <2>6, SeqEqual
<1> QED
  BY <1>5, <1>6

LEMMA Singleton ==
  ASSUME NEW S, NEW x \in S
  PROVE  <<x>> \in Seq(S) /\ Len(<<x>>) = 1
OBVIOUS

LEMMA AppendOne ==
  ASSUME NEW x, NEW y
  PROVE  Append(<<x>>, y) = <<x, y>>
<1> DEFINE S == {x, y}
<1>1. x \in S /\ y \in S
  OBVIOUS
<1>2. <<x>> \in Seq(S) /\ Len(<<x>>) = 1 /\ <<x>>[1] = x
  BY <1>1
<1>3. <<x, y>> \in Seq(S) /\ Len(<<x, y>>) = 2 /\ <<x, y>>[1] = x /\ <<x, y>>[2] = y
  BY <1>1
<1> HIDE DEF S
<1>4. /\ Append(<<x>>, y) \in Seq(S) /\ Len(Append(<<x>>, y)) = 2
      /\ Append(<<x>>, y)[1] = x /\ Append(<<x>>, y)[2] = y
  BY <1>1, <1>2, AppendProperties
<1>5. \A i \in 1..Len(<<x, y>>) : i = 1 \/ i = 2
  BY <1>3
<1>6. \A i \in 1..Len(<<x, y>>) : Append(<<x>>, y)[i] = <<x, y>>[i]
  BY <1>3, <1>4, <1>5
<1> QED
  BY <1>3, <1>4, <1>6, SeqEqual

-----------------------------------------------------------------------------
(* The shapes *)

\* a call of a class method with its arguments, as PointsAssumption has it
Callable(c) ==
  /\ c.by \in Polygons \cup Circles \cup {"point"}
  /\ c.points \in Seq(Points)
  /\ c.by \notin Polygons => Len(c.points) = 1
  /\ c.by \notin {"polygon", "circle"} => \A i \in DOMAIN c.points : c.points[i].is # "other"

LEMMA PointTypes ==
  ASSUME NEW p \in Points
  PROVE  /\ p.is # "other" => FirstTwo(p) = p.at /\ Pushed(p) = <<p.at>>
         /\ p.is = "other" => Pushed(p) = <<>>
<1>1. p.is # "other" => p.is \in {"array", "object"} /\ FirstTwo(p) = p.at
  BY PointsAssumption DEF FirstTwo
<1>2. p.is = "other" => Pushed(p) = <<>>
  BY DEF Pushed
<1>3. p.is = "array" => Pushed(p) = <<p.at>>
  BY DEF Pushed
<1>4. p.is = "object" => Pushed(p) = <<FirstTwo(p)>>
  BY DEF Pushed
<1> QED
  BY <1>1, <1>2, <1>3, <1>4

LEMMA PolygonShape ==
  ASSUME NEW ps \in Seq(Points)
  PROVE  FlattenSeq([i \in DOMAIN ps |-> Pushed(ps[i])]) = [i \in DOMAIN ps |-> ps[i].at]
         <=> \A i \in DOMAIN ps : ps[i].is # "other"
<1> DEFINE n == Len(ps)
           q == [i \in DOMAIN ps |-> Pushed(ps[i])]
           a == [i \in DOMAIN ps |-> ps[i].at]
           S == {p.at : p \in Points}
<1>1. n \in Nat /\ DOMAIN ps = 1..n /\ \A i \in 1..n : ps[i] \in Points
  OBVIOUS
<1>2. /\ \A i \in 1..n : ps[i].at \in S
      /\ \A i \in 1..n : q[i] = Pushed(ps[i]) /\ a[i] = ps[i].at
  BY <1>1
<1>3. a \in [1..n -> S] /\ a \in Seq(S) /\ Len(a) = n
  <2>1. a \in [1..n -> S]
    BY <1>1, <1>2
  <2> QED
    BY <1>1, <2>1
<1>4. Part(q, S) /\ Len(q) = n
  <2>1. \A i \in 1..n : q[i] \in Seq(S) /\ Len(q[i]) <= 1
    <3> SUFFICES ASSUME NEW i \in 1..n PROVE q[i] \in Seq(S) /\ Len(q[i]) <= 1
      OBVIOUS
    <3>1. CASE ps[i].is = "other"
      <4>1. q[i] = <<>>
        BY <1>1, <1>2, <3>1, PointTypes
      <4> HIDE DEF q, S
      <4> QED
        BY <4>1
    <3>2. CASE ps[i].is # "other"
      <4>1. q[i] = <<ps[i].at>> /\ ps[i].at \in S
        BY <1>1, <1>2, <3>2, PointTypes
      <4> HIDE DEF q, S
      <4> QED
        BY <4>1, Singleton
    <3> QED
      BY <3>1, <3>2
  <2>2. q \in [1..n -> Seq(S)]
    BY <1>1, <2>1
  <2>3. Len(q) = n
    BY <1>1, <2>2
  <2> QED
    BY <2>1, <2>3 DEF Part
<1>5. CASE n = 0
  <2>1. FlattenSeq(q) = q
    BY <1>4, <1>5 DEF FlattenSeq
  <2>2. q = <<>> /\ a = <<>>
    BY <1>1, <1>5
  <2> QED
    BY <1>1, <1>5, <2>1, <2>2
<1>6. CASE n # 0
  <2> HIDE DEF q, a, S, n
  <2>1. PICK f : Joins(f, q, n) /\ FlattenSeq(q) = f[n]
    BY <1>1, <1>4, <1>6, Flattened
  <2>2. CASE \A i \in 1..n : ps[i].is # "other"
    <3>1. \A i \in 1..n : q[i] = <<a[i]>>
      BY <1>1, <1>2, <2>2, PointTypes
    <3>2. Len(q) \in Nat /\ Len(q) # 0 /\ a \in [1..Len(q) -> S] /\ Joins(f, q, Len(q))
      BY <1>1, <1>3, <1>4, <1>6, <2>1
    <3>3. f[n] = a
      BY <1>4, <3>1, <3>2, JoinSingles
    <3> QED
      BY <1>1, <2>1, <2>2, <3>3 DEF q, a
  <2>3. CASE \E i \in 1..n : ps[i].is = "other"
    <3>1. \E i \in 1..n : q[i] = <<>>
      BY <1>1, <1>2, <2>3, PointTypes
    <3>2. Len(f[n]) < n
      BY <1>1, <1>4, <1>6, <2>1, <3>1, JoinLength
    <3>3. f[n] # a
      BY <1>1, <1>3, <3>2
    <3> QED
      BY <1>1, <2>1, <2>3, <3>3 DEF q, a
  <2> QED
    BY <2>2, <2>3
<1> QED
  BY <1>5, <1>6

\* what a class method makes is what was meant, but for the calls that lose coordinates
LEMMA ShapeMade ==
  ASSUME NEW c, Callable(c)
  PROVE  (Made(c) = Meant(c) /\ Readable(c)) <=> Keeps(c)
<1> DEFINE p == c.points[1]
<1>1. DOMAIN c.points = 1..Len(c.points) /\ \A i \in DOMAIN c.points : c.points[i] \in Points
  BY DEF Callable
<1>2. c.by \notin Polygons => p \in Points /\ 1 \in DOMAIN c.points
  BY <1>1 DEF Callable
<1>3. CASE c.by = "polygon"
  <2>1. /\ Made(c) = Polygon(c.points)
        /\ Meant(c) = Shape("Polygon", <<[i \in DOMAIN c.points |-> c.points[i].at]>>)
    BY <1>3 DEF Made, Meant, Polygons
  <2>2. Readable(c)
    BY <2>1 DEF Readable, Polygon, Shape
  <2>3. Made(c) = Meant(c) <=> FlattenSeq([i \in DOMAIN c.points |-> Pushed(c.points[i])])
                                 = [i \in DOMAIN c.points |-> c.points[i].at]
    BY <2>1 DEF Polygon, Shape
  <2>4. c.points \in Seq(Points)
    BY DEF Callable
  <2> QED
    BY <1>3, <2>2, <2>3, <2>4, PolygonShape DEF Keeps
<1>4. CASE c.by = "polygon_array"
  <2>1. Made(c) = Meant(c)
    BY <1>4 DEF Made, Meant, Polygons, PolygonArray
  <2>2. Readable(c)
    BY <1>4 DEF Made, Readable, PolygonArray, Shape
  <2> QED
    BY <1>4, <2>1, <2>2 DEF Keeps, Callable
<1>5. CASE c.by = "polygon_obj"
  <2>1. \A i \in DOMAIN c.points : FirstTwo(c.points[i]) = c.points[i].at
    BY <1>1, <1>5, PointTypes DEF Callable
  <2>2. [i \in DOMAIN c.points |-> FirstTwo(c.points[i])] = [i \in DOMAIN c.points |-> c.points[i].at]
    BY <2>1
  <2>3. Made(c) = Meant(c)
    BY <1>5, <2>2 DEF Made, Meant, Polygons, PolygonObj
  <2>4. Readable(c)
    BY <1>5 DEF Made, Readable, PolygonObj, Shape
  <2> QED
    BY <1>5, <2>3, <2>4 DEF Keeps, Callable
<1>6. CASE c.by = "point"
  <2>1. p \in Points /\ p.is # "other"
    BY <1>2, <1>6 DEF Callable, Polygons
  <2>2. Made(c) = Shape("Point", FirstTwo(p)) /\ Meant(c) = Shape("Point", p.at)
    BY <1>6 DEF Made, Meant, Point, FirstTwo, Polygons
  <2>3. Made(c) = Meant(c)
    BY <2>1, <2>2, PointTypes
  <2>4. Readable(c)
    BY <2>2 DEF Readable, Shape, FirstTwo, Lng, Lat
  <2> QED
    BY <1>6, <2>3, <2>4 DEF Keeps, Callable
<1>7. CASE c.by = "circle"
  <2>1. Made(c) = Shape("AeroCircle", Append(Pushed(p), c.radius))
    BY <1>7 DEF Made, Circle
  <2>2. Meant(c) = Shape("AeroCircle", <<p.at, c.radius>>)
    BY <1>7 DEF Meant, Polygons
  <2>3. p \in Points /\ DOMAIN c.points = {1}
    BY <1>1, <1>2, <1>7 DEF Callable, Polygons
  <2>4. CASE p.is # "other"
    <3>1. Pushed(p) = <<p.at>>
      BY <2>3, <2>4, PointTypes
    <3>2. Append(Pushed(p), c.radius) = <<p.at, c.radius>>
      BY <3>1, AppendOne
    <3>3. Made(c) = Meant(c)
      BY <2>1, <2>2, <3>2
    <3>4. Readable(c)
      BY <2>1, <3>2 DEF Readable, Shape, Lng, Lat, Radius
    <3> QED
      BY <1>7, <2>3, <2>4, <3>3, <3>4 DEF Keeps
  <2>5. CASE p.is = "other"
    <3>1. Pushed(p) = <<>>
      BY <2>3, <2>5, PointTypes
    <3>2. Made(c).coordinates = <<c.radius>> /\ Meant(c).coordinates = <<p.at, c.radius>>
      BY <2>1, <2>2, <3>1 DEF Shape
    <3>3. Made(c) # Meant(c)
      BY <3>2
    <3> QED
      BY <2>3, <2>5, <3>3 DEF Keeps
  <2> QED
    BY <2>4, <2>5
<1>8. CASE c.by = "circle_array"
  <2>1. /\ Made(c) = Shape("AeroCircle", <<p.at, c.radius>>)
        /\ Meant(c) = Shape("AeroCircle", <<p.at, c.radius>>)
    BY <1>8 DEF Made, Meant, Polygons, CircleArray
  <2>2. Readable(c)
    BY <2>1 DEF Readable, Shape, Lng, Lat, Radius
  <2> QED
    BY <1>8, <2>1, <2>2 DEF Keeps, Callable
<1>9. CASE c.by \in {"circle_obj", "circle_point"}
  <2>1. /\ Made(c) = Shape("AeroCircle", <<c.radius>>)
        /\ Meant(c) = Shape("AeroCircle", <<p.at, c.radius>>)
    BY <1>9 DEF Made, Meant, Polygons, CircleObj, CirclePoint
  <2>2. Made(c).coordinates = <<c.radius>> /\ Meant(c).coordinates = <<p.at, c.radius>>
    BY <2>1 DEF Shape
  <2>3. Made(c) # Meant(c)
    BY <2>2
  <2> QED
    BY <1>9, <2>3 DEF Keeps
<1> QED
  BY <1>3, <1>4, <1>5, <1>6, <1>7, <1>8, <1>9 DEF Callable, Polygons, Circles

-----------------------------------------------------------------------------
(* The log *)

LEMMA NullFacts ==
  /\ \A s \in Seq(Items) : s # NULL
  /\ \A s \in Seq(Outs) : s # NULL
  /\ \A x \in Instances : x # NULL
  /\ \A f \in PlainFilters \cup GeoFilters \cup GeoCalls : f # NULL
BY NullAssumption

LEMMA LastOfAppend ==
  ASSUME NEW S, NEW s \in Seq(S), NEW x \in S, NEW d
  PROVE  Append(s, x) \in Seq(S) /\ LastOf(Append(s, x), d) = x
BY AppendProperties DEF LastOf, Last

LEMMA LastOfEmpty == ASSUME NEW d PROVE LastOf(<<>>, d) = d
BY DEF LastOf

\* what a call that is logged leaves behind
LEMMA LoggedStep ==
  ASSUME TypeOK, NEW o \in Objects, NEW call, NEW what, Logged(o, call, what),
         [log[o] EXCEPT ![call] = Append(@, what)] \in Logs
  PROVE  /\ log' \in [Objects -> Logs] /\ calls' \in 0..MaxCalls
         /\ log'[o] = [log[o] EXCEPT ![call] = Append(@, what)]
         /\ \A p \in Objects \ {o} : log'[p] = log[p]
<1>1. log \in [Objects -> Logs]
  BY DEF TypeOK, Logs
<1>2. log' = [log EXCEPT ![o] = [log[o] EXCEPT ![call] = Append(log[o][call], what)]]
  BY DEF Logged
<1>3. calls' \in 0..MaxCalls
  BY BoundsAssumption DEF TypeOK, Logged, Called
<1> QED
  BY <1>1, <1>2, <1>3

LEMMA Types1 ==
  ASSUME TypeOK, NEW o \in Objects
  PROVE  /\ log[o] \in Logs
         /\ object[o] # NULL => /\ object[o] \in Instances /\ object[o].items \in Arrays
                                /\ array[object[o].items] \in Seq(Items)
BY DEF TypeOK, Logs, Instances

-----------------------------------------------------------------------------
(* The arrays *)

\* an operation or bin is added by a call of the object
LEMMA AddStep ==
  ASSUME TypeOK, Tied, NEW o \in Objects, object[o] # NULL, NEW i \in Items,
         Pushed1(object[o].items, i), Logged(o, "add", i), object' = object,
         held' \in {held, held \cup {object[o].items}}
  PROVE  TypeOK' /\ Tied'
<1> DEFINE a == object[o].items
<1>1. a \in Arrays /\ array[a] \in Seq(Items) /\ array' = [array EXCEPT ![a] = Append(@, i)]
  BY Types1 DEF Pushed1
<1>2. Append(array[a], i) \in Seq(Items) /\ Append(array[a], i) # NULL
  BY <1>1, AppendProperties, NullFacts
<1>3. array' \in [Arrays -> Seq(Items) \cup {NULL}] /\ \A b \in Arrays : array[b] # NULL => array'[b] # NULL
  BY <1>1, <1>2 DEF TypeOK
<1>4. [log[o] EXCEPT !["add"] = Append(@, i)] \in Logs
  <2>1. log[o] \in Logs /\ Append(log[o].add, i) \in Seq(Items)
    BY Types1, AppendProperties DEF Logs
  <2> QED
    BY <2>1 DEF Logs
<1>5. /\ log' \in [Objects -> Logs] /\ calls' \in 0..MaxCalls
      /\ log'[o] = [log[o] EXCEPT !["add"] = Append(@, i)]
      /\ \A p \in Objects \ {o} : log'[p] = log[p]
  BY <1>4, LoggedStep
<1>6. /\ log'[o].add = Append(log[o].add, i) /\ log'[o].ttl = log[o].ttl
      /\ log'[o].filter = log[o].filter /\ log'[o].order = log[o].order
  BY <1>5, Types1 DEF Logs
<1>7. TypeOK'
  <2>1. held' \subseteq {b \in Arrays : array'[b] # NULL}
    BY <1>1, <1>2, <1>3, Types1, NullFacts DEF TypeOK
  <2>2. \A p \in Objects : object'[p] # NULL => array'[object'[p].items] # NULL
    BY <1>3, Types1, NullFacts
  <2> QED
    BY <1>3, <1>5, <2>1, <2>2 DEF TypeOK, Logs
<1>8. ASSUME NEW p \in Objects PROVE Blank(p)' /\ Kept(p)'
  <2>1. CASE p = o
    BY <1>6, <2>1 DEF Tied, Blank, Kept
  <2>2. CASE p # o
    BY <1>5, <2>2 DEF Tied, Blank, Kept
  <2> QED
    BY <2>1, <2>2
<1>9. ASSUME NEW p \in Objects PROVE Alone(p)'
  <2> SUFFICES ASSUME object[p] # NULL, object[p].items \notin held'
               PROVE  /\ array'[object[p].items] = log'[p].add
                      /\ \A q \in Objects \ {p} : object[q] # NULL => object[q].items # object[p].items
    BY DEF Alone, Own
  <2>1. /\ array[object[p].items] = log[p].add /\ object[p].items \in Arrays
        /\ \A q \in Objects \ {p} : object[q] # NULL => object[q].items # object[p].items
    BY Types1 DEF Tied, Alone, Own
  <2>2. CASE p = o
    BY <1>1, <1>3, <1>6, <2>1, <2>2 DEF TypeOK
  <2>3. CASE p # o
    <3>1. object[p].items # a
      BY <2>1, <2>3
    <3> QED
      BY <1>1, <1>5, <2>1, <2>3, <3>1 DEF TypeOK
  <2> QED
    BY <2>1, <2>2, <2>3
<1> QED
  BY <1>7, <1>8, <1>9 DEF Tied

\* the program adds to an array it holds
LEMMA PushStep ==
  ASSUME TypeOK, Tied, NEW o \in Objects, NEW i \in Items, Push(o, i)
  PROVE  TypeOK' /\ Tied'
<1> DEFINE a == object[o].items
<1>1. /\ object[o] # NULL /\ a \in held /\ UNCHANGED <<object, held, log>>
      /\ array' = [array EXCEPT ![a] = Append(@, i)]
  BY DEF Push, Pushed1
<1>2. a \in Arrays /\ Append(array[a], i) \in Seq(Items) /\ Append(array[a], i) # NULL
  BY <1>1, Types1, AppendProperties, NullFacts
<1>3. /\ array' \in [Arrays -> Seq(Items) \cup {NULL}]
      /\ \A b \in Arrays : array[b] # NULL => array'[b] # NULL
      /\ \A b \in Arrays \ {a} : array'[b] = array[b]
  BY <1>1, <1>2 DEF TypeOK
<1>4. calls' \in 0..MaxCalls
  BY BoundsAssumption DEF TypeOK, Push, Called
<1>5. TypeOK'
  BY <1>1, <1>3, <1>4 DEF TypeOK
<1>6. ASSUME NEW p \in Objects PROVE Blank(p)' /\ Kept(p)' /\ Alone(p)'
  BY <1>1, <1>3, Types1 DEF Tied, Blank, Kept, Alone, Own
<1> QED
  BY <1>5, <1>6 DEF Tied

\* an array the program asks for is not the object's own any more
LEMMA ReadStep ==
  ASSUME TypeOK, Tied, NEW o \in Objects, Read(o)
  PROVE  TypeOK' /\ Tied'
<1>1. object[o] # NULL /\ held' = held \cup {object[o].items} /\ UNCHANGED <<object, array, log, calls>>
  BY DEF Read
<1>2. TypeOK'
  BY <1>1, Types1 DEF TypeOK
<1> QED
  BY <1>1, <1>2 DEF Tied, Blank, Kept, Alone, Own

\* the array the program gives is one it holds; another one is new
LEMMA GivenArray ==
  ASSUME TypeOK, NEW a \in Arrays, NEW mine \in BOOLEAN, Given(a, mine)
  PROVE  /\ array' \in [Arrays -> Seq(Items) \cup {NULL}] /\ array'[a] # NULL
         /\ \A b \in Arrays : array[b] # NULL => array'[b] = array[b]
         /\ held \subseteq held' /\ held' \subseteq {b \in Arrays : array'[b] # NULL}
         /\ mine => a \in held'
         /\ a \notin held' => array[a] = NULL /\ array'[a] = <<>>
<1>1. CASE array[a] # NULL
  BY <1>1 DEF Given, TypeOK
<1>2. CASE array[a] = NULL
  <2>1. /\ array' = [array EXCEPT ![a] = <<>>]
        /\ held' = IF mine THEN held \cup {a} ELSE held
    BY <1>2 DEF Given
  <2>2. <<>> \in Seq(Items) /\ <<>> # NULL
    <3>1. <<>> \in Seq(Items)
      OBVIOUS
    <3> QED
      BY <3>1, NullFacts
  <2> QED
    BY <1>2, <2>1, <2>2 DEF TypeOK
<1> QED
  BY <1>1, <1>2

\* new objects: made says what the log holds of the one that is made
LEMMA NewStep ==
  ASSUME TypeOK, Tied, NEW o \in Objects, NEW a \in Arrays, NEW mine \in BOOLEAN,
         NEW class \in {"Operation", "Query"}, NEW ttl \in Ttls \cup {0},
         object[o] = NULL, Given(a, mine), object' = [object EXCEPT ![o] = Object(class, a, ttl)],
         log' \in [Objects -> Logs], calls' \in 0..MaxCalls,
         \A p \in Objects \ {o} : log'[p] = log[p],
         log'[o].add = <<>>, log'[o].filter = <<>>, log'[o].order = <<>>,
         LastOf(log'[o].ttl, 0) = ttl
  PROVE  TypeOK' /\ Tied'
<1> DEFINE x == Object(class, a, ttl)
<1>1. x \in Instances /\ x # NULL
  <2>1. x \in Instances
    BY DEF Object, Instances, Orderings
  <2> QED
    BY <2>1, NullFacts
<1>2. /\ x.items = a /\ x.ttl = ttl /\ x.filter = NULL /\ x.order = <<>>
  BY DEF Object
<1> HIDE DEF x
<1>3. /\ object' \in [Objects -> Instances \cup {NULL}] /\ object'[o] = x
      /\ \A p \in Objects \ {o} : object'[p] = object[p]
  BY <1>1 DEF TypeOK, x
<1>4. \A p \in Objects \ {o} :
        object[p] # NULL => /\ object[p].items \in Arrays /\ array[object[p].items] # NULL
                            /\ array'[object[p].items] = array[object[p].items]
  BY Types1, GivenArray DEF TypeOK
<1>5. TypeOK'
  <2>1. \A p \in Objects : object'[p] # NULL => array'[object'[p].items] # NULL
    BY <1>2, <1>3, <1>4, GivenArray
  <2> QED
    BY <1>3, <2>1, GivenArray DEF TypeOK, Logs
<1>6. \A p \in Objects : Blank(p)'
  BY <1>1, <1>3 DEF Tied, Blank
<1>7. \A p \in Objects : Kept(p)'
  <2>1. Kept(o)'
    BY <1>2, <1>3, LastOfEmpty DEF Kept, SameFilter
  <2>2. \A p \in Objects \ {o} : Kept(p)'
    BY <1>3 DEF Tied, Kept
  <2> QED
    BY <2>1, <2>2
<1>8. Alone(o)'
  <2> SUFFICES ASSUME a \notin held'
               PROVE  /\ array'[a] = <<>>
                      /\ \A p \in Objects \ {o} : object[p] # NULL => object[p].items # a
    BY <1>2, <1>3 DEF Alone, Own
  <2> QED
    BY <1>4, GivenArray
<1>9. ASSUME NEW p \in Objects \ {o} PROVE Alone(p)'
  <2> SUFFICES ASSUME object[p] # NULL, object[p].items \notin held'
               PROVE  /\ array'[object[p].items] = log'[p].add
                      /\ \A q \in Objects \ {p} : object'[q] # NULL => object'[q].items # object[p].items
    BY <1>3 DEF Alone, Own
  <2>1. object[p].items \notin held
    BY GivenArray
  <2>2. /\ array[object[p].items] = log[p].add
        /\ \A q \in Objects \ {p} : object[q] # NULL => object[q].items # object[p].items
    BY <2>1 DEF Tied, Alone, Own
  <2>3. a # object[p].items
    BY <1>4, GivenArray
  <2> QED
    BY <1>2, <1>3, <1>4, <2>2, <2>3
<1> QED
  BY <1>5, <1>6, <1>7, <1>8, <1>9 DEF Tied

\* an array given up for another, which the program holds
LEMMA AssignStep ==
  ASSUME TypeOK, Tied, NEW o \in Objects, NEW a \in Arrays, Assign(o, a)
  PROVE  TypeOK' /\ Tied'
<1>1. /\ object[o] # NULL /\ Given(a, TRUE) /\ UNCHANGED <<log, calls>>
      /\ object' = [object EXCEPT ![o].items = a]
  BY DEF Assign
<1>2. object[o] \in Instances
  BY <1>1, Types1
<1> DEFINE x == [object[o] EXCEPT !.items = a]
<1>3. /\ x \in Instances /\ x.items = a /\ x.ttl = object[o].ttl
      /\ x.filter = object[o].filter /\ x.order = object[o].order
  BY <1>2 DEF Instances
<1>4. x # NULL
  BY <1>3, NullFacts
<1>5. object' = [object EXCEPT ![o] = x]
  BY <1>1
<1> HIDE DEF x
<1>6. /\ object' \in [Objects -> Instances \cup {NULL}] /\ object'[o] = x
      /\ \A p \in Objects \ {o} : object'[p] = object[p]
  BY <1>3, <1>5 DEF TypeOK
<1>7. \A p \in Objects \ {o} :
        object[p] # NULL => /\ object[p].items \in Arrays /\ array[object[p].items] # NULL
                            /\ array'[object[p].items] = array[object[p].items]
  BY <1>1, Types1, GivenArray DEF TypeOK
<1>8. a \in held' /\ array'[a] # NULL /\ held \subseteq held'
  BY <1>1, GivenArray
<1>9. TypeOK'
  <2>1. \A p \in Objects : object'[p] # NULL => array'[object'[p].items] # NULL
    BY <1>3, <1>6, <1>7, <1>8
  <2> QED
    BY <1>1, <1>6, <2>1, GivenArray DEF TypeOK
<1>10. ASSUME NEW p \in Objects PROVE Blank(p)' /\ Kept(p)'
  BY <1>1, <1>3, <1>4, <1>6 DEF Tied, Blank, Kept
<1>11. ASSUME NEW p \in Objects PROVE Alone(p)'
  <2>1. CASE p = o
    BY <1>3, <1>6, <1>8, <2>1 DEF Alone, Own
  <2>2. CASE p # o
    BY <1>1, <1>3, <1>6, <1>7, <1>8, <2>2 DEF Tied, Alone, Own
  <2> QED
    BY <2>1, <2>2
<1> QED
  BY <1>9, <1>10, <1>11 DEF Tied
-----------------------------------------------------------------------------
(* The time to live, the filter and the orders *)

LEMMA SetStep ==
  ASSUME TypeOK, Tied, NEW o \in Objects, object[o] # NULL, UNCHANGED <<array, held>>,
         NEW x \in Instances, object' = [object EXCEPT ![o] = x], x.items = object[o].items,
         log' \in [Objects -> Logs], calls' \in 0..MaxCalls,
         \A p \in Objects \ {o} : log'[p] = log[p],
         log'[o].add = log[o].add, x.ttl = LastOf(log'[o].ttl, 0), x.order = log'[o].order,
         SameFilter(x.filter, LastOf(log'[o].filter, NULL))
  PROVE  TypeOK' /\ Tied'
<1>1. x # NULL
  BY NullFacts
<1>2. /\ object' \in [Objects -> Instances \cup {NULL}] /\ object'[o] = x
      /\ \A p \in Objects \ {o} : object'[p] = object[p]
  BY DEF TypeOK
<1>3. TypeOK'
  BY <1>2, Types1 DEF TypeOK, Logs
<1>4. ASSUME NEW p \in Objects PROVE Blank(p)' /\ Kept(p)'
  BY <1>1, <1>2 DEF Tied, Blank, Kept
<1>5. ASSUME NEW p \in Objects PROVE Alone(p)'
  <2>1. CASE p = o
    BY <1>1, <1>2, <2>1 DEF Tied, Alone, Own
  <2>2. CASE p # o
    BY <1>1, <1>2, <2>2 DEF Tied, Alone, Own
  <2> QED
    BY <2>1, <2>2
<1> QED
  BY <1>3, <1>4, <1>5 DEF Tied

LEMMA SetTtlStep ==
  ASSUME TypeOK, Tied, NEW o \in Objects, NEW ttl \in Ttls, SetTtl(o, ttl)
  PROVE  TypeOK' /\ Tied'
<1> DEFINE x == [object[o] EXCEPT !.ttl = ttl]
<1>1. /\ object[o] # NULL /\ object' = [object EXCEPT ![o] = x] /\ UNCHANGED <<array, held>>
      /\ Logged(o, "ttl", ttl)
  BY DEF SetTtl, Of
<1>2. object[o] \in Instances /\ log[o] \in Logs
  BY <1>1, Types1
<1>3. /\ x \in Instances /\ x.items = object[o].items /\ x.ttl = ttl
      /\ x.order = object[o].order /\ x.filter = object[o].filter
  BY <1>2 DEF Instances
<1>4. Append(log[o].ttl, ttl) \in Seq(Ttls) /\ LastOf(Append(log[o].ttl, ttl), 0) = ttl
  BY <1>2, LastOfAppend DEF Logs
<1>5. [log[o] EXCEPT !["ttl"] = Append(@, ttl)] \in Logs
  BY <1>2, <1>4 DEF Logs
<1>6. /\ log' \in [Objects -> Logs] /\ calls' \in 0..MaxCalls
      /\ log'[o] = [log[o] EXCEPT !["ttl"] = Append(@, ttl)]
      /\ \A p \in Objects \ {o} : log'[p] = log[p]
  BY <1>1, <1>5, LoggedStep
<1>7. /\ log'[o].add = log[o].add /\ log'[o].ttl = Append(log[o].ttl, ttl)
      /\ log'[o].filter = log[o].filter /\ log'[o].order = log[o].order
  BY <1>2, <1>6 DEF Logs
<1>8. object[o].order = log[o].order /\ SameFilter(object[o].filter, LastOf(log[o].filter, NULL))
  BY <1>1 DEF Tied, Kept
<1> HIDE DEF x
<1> QED
  BY <1>1, <1>3, <1>4, <1>6, <1>7, <1>8, SetStep

LEMMA FilterStep ==
  ASSUME TypeOK, Tied, NEW o \in Objects, object[o] # NULL, UNCHANGED <<array, held>>,
         NEW g \in PlainFilters \cup GeoFilters, NEW f \in PlainFilters \cup GeoCalls,
         SameFilter(g, f), SetFilter(o, g), Logged(o, "filter", f)
  PROVE  TypeOK' /\ Tied'
<1> DEFINE x == [object[o] EXCEPT !.filter = g]
<1>1. object' = [object EXCEPT ![o] = x]
  BY DEF SetFilter
<1>2. object[o] \in Instances /\ log[o] \in Logs
  BY Types1
<1>3. /\ x \in Instances /\ x.items = object[o].items /\ x.ttl = object[o].ttl
      /\ x.order = object[o].order /\ x.filter = g
  BY <1>2 DEF Instances
<1>4. /\ Append(log[o].filter, f) \in Seq(PlainFilters \cup GeoCalls)
      /\ LastOf(Append(log[o].filter, f), NULL) = f
  BY <1>2, LastOfAppend DEF Logs
<1>5. [log[o] EXCEPT !["filter"] = Append(@, f)] \in Logs
  BY <1>2, <1>4 DEF Logs
<1>6. /\ log' \in [Objects -> Logs] /\ calls' \in 0..MaxCalls
      /\ log'[o] = [log[o] EXCEPT !["filter"] = Append(@, f)]
      /\ \A p \in Objects \ {o} : log'[p] = log[p]
  BY <1>5, LoggedStep
<1>7. /\ log'[o].add = log[o].add /\ log'[o].ttl = log[o].ttl
      /\ log'[o].filter = Append(log[o].filter, f) /\ log'[o].order = log[o].order
  BY <1>2, <1>6 DEF Logs
<1>8. object[o].order = log[o].order /\ object[o].ttl = LastOf(log[o].ttl, 0)
  BY DEF Tied, Kept
<1> HIDE DEF x
<1> QED
  BY <1>1, <1>3, <1>4, <1>6, <1>7, <1>8, SetStep

LEMMA PlainStep ==
  ASSUME TypeOK, Tied, NEW o \in Objects, object[o] # NULL, UNCHANGED <<array, held>>,
         NEW type \in {"eql", "range"}, NEW bin \in Bins, NEW value \in Types,
         SetFilter(o, Filter(type, bin, value, NULL)),
         Logged(o, "filter", Filter(type, bin, value, NULL))
  PROVE  TypeOK' /\ Tied'
<1> DEFINE f == Filter(type, bin, value, NULL)
<1>1. f \in PlainFilters
  BY DEF PlainFilters
<1>2. f # NULL /\ f.type = type
  BY <1>1, NullFacts DEF Filter
<1>3. SameFilter(f, f)
  BY <1>2 DEF SameFilter
<1> HIDE DEF f
<1> QED
  BY <1>1, <1>3, FilterStep DEF f

LEMMA EqlStep ==
  ASSUME TypeOK, Tied, NEW o \in Objects, NEW bin \in Bins, NEW value \in Types, Eql(o, bin, value)
  PROVE  TypeOK' /\ Tied'
<1>1. object[o] # NULL /\ UNCHANGED <<array, held>>
  BY DEF Eql, Of
<1>2. CASE value \in {"string", "integer"}
  BY <1>1, <1>2, PlainStep DEF Eql
<1>3. CASE value \notin {"string", "integer"}
  BY <1>1, <1>3 DEF Eql, TypeOK, Tied, Blank, Alone, Kept, Own
<1> QED
  BY <1>2, <1>3

LEMMA RangeStep ==
  ASSUME TypeOK, Tied, NEW o \in Objects, NEW bin \in Bins, NEW max \in Types,
         RangeOf(o, bin, "integer", max)
  PROVE  TypeOK' /\ Tied'
<1>1. object[o] # NULL /\ UNCHANGED <<array, held>>
  BY DEF RangeOf, Of
<1>2. CASE max = "integer"
  BY <1>1, <1>2, PlainStep DEF RangeOf
<1>3. CASE max # "integer"
  BY <1>1, <1>3 DEF RangeOf, TypeOK, Tied, Blank, Alone, Kept, Own
<1> QED
  BY <1>2, <1>3

\* the object has the shape, the log has the call that made it
LEMMA GeoStep ==
  ASSUME TypeOK, Tied, NEW o \in Objects, NEW bin \in Bins, NEW g \in Geos, Geo(o, g.type, bin, g.call)
  PROVE  TypeOK' /\ Tied'
<1> DEFINE x == Filter(g.type, bin, NULL, Made(g.call))
           f == Filter(g.type, bin, NULL, g.call)
<1>1. object[o] # NULL /\ UNCHANGED <<array, held>> /\ SetFilter(o, x) /\ Logged(o, "filter", f)
  BY DEF Geo, Of
<1>2. x \in GeoFilters /\ f \in GeoCalls
  BY DEF GeoFilters, GeoCalls
<1>3. x # NULL /\ f # NULL
  BY <1>2, NullFacts
<1>4. /\ f.type = g.type /\ f.bin = bin /\ f.geo = g.call
      /\ x.type = g.type /\ x.bin = bin /\ x.geo = Made(g.call)
  BY DEF Filter
<1>5. SameFilter(x, f)
  BY <1>3, <1>4, CallsAssumption DEF SameFilter
<1> HIDE DEF x, f
<1> QED
  BY <1>1, <1>2, <1>5, FilterStep

LEMMA OrderStep ==
  ASSUME TypeOK, Tied, NEW o \in Objects, NEW bin \in Bins, NEW d, OrderBy(o, bin, d)
  PROVE  TypeOK' /\ Tied'
<1>1. object[o] # NULL /\ UNCHANGED <<array, held>>
  BY DEF OrderBy, Of
<1>2. CASE d \in {"asc", "desc"}
  <2> DEFINE n == <<bin, d>>
             x == [object[o] EXCEPT !.order = Append(@, n)]
  <2>1. object' = [object EXCEPT ![o] = x] /\ Logged(o, "order", n)
    BY <1>2 DEF OrderBy
  <2>2. object[o] \in Instances /\ log[o] \in Logs /\ object[o].order = log[o].order
    BY <1>1, Types1 DEF Tied, Kept
  <2>3. n \in Bins \X {"asc", "desc"}
    BY <1>2
  <2> HIDE DEF n
  <2>4. Append(log[o].order, n) \in Orderings
    BY <2>2, <2>3, LastOfAppend DEF Logs, Orderings
  <2>5. /\ x \in Instances /\ x.items = object[o].items /\ x.ttl = object[o].ttl
        /\ x.order = Append(log[o].order, n) /\ x.filter = object[o].filter
    BY <2>2, <2>4 DEF Instances
  <2>6. [log[o] EXCEPT !["order"] = Append(@, n)] \in Logs
    BY <2>2, <2>4 DEF Logs
  <2>7. /\ log' \in [Objects -> Logs] /\ calls' \in 0..MaxCalls
        /\ log'[o] = [log[o] EXCEPT !["order"] = Append(@, n)]
        /\ \A p \in Objects \ {o} : log'[p] = log[p]
    BY <2>1, <2>6, LoggedStep
  <2>8. /\ log'[o].add = log[o].add /\ log'[o].ttl = log[o].ttl
        /\ log'[o].filter = log[o].filter /\ log'[o].order = Append(log[o].order, n)
    BY <2>2, <2>7 DEF Logs
  <2>9. /\ object[o].ttl = LastOf(log[o].ttl, 0)
        /\ SameFilter(object[o].filter, LastOf(log[o].filter, NULL))
    BY <1>1 DEF Tied, Kept
  <2> HIDE DEF x
  <2> QED
    BY <1>1, <2>1, <2>5, <2>7, <2>8, <2>9, SetStep
<1>3. CASE d \notin {"asc", "desc"}
  BY <1>1, <1>3 DEF OrderBy, TypeOK, Tied, Blank, Alone, Kept, Own
<1> QED
  BY <1>2, <1>3
-----------------------------------------------------------------------------
(* What is sent *)

LEMMA ItemTypes ==
  ASSUME NEW i \in Items
  PROVE  /\ i.op \in Known \cup {"unknown", "select"} /\ i.bin \in Bins \cup {SYMBOL, NULL}
         /\ i.value \in Types
BY DEF Items

LEMMA SentValueType ==
  ASSUME NEW i \in Items
  PROVE  SentValue(i) \in Types \cup {GARBAGE}
BY ItemTypes DEF SentValue, Types

\* an operation as the documentation wants it is no reason to raise, and keeps its value
LEMMA ProperSent ==
  ASSUME NEW i \in Items, Proper(i)
  PROVE  /\ ~Bad(i)
         /\ SentValue(i) = IF i.op = "write" /\ i.value # "integer" THEN "string" ELSE i.value
<1>1. ~Bad(i)
  BY DEF Proper, Bad
<1>2. "write" \notin Plain \cup Numbers
  BY DEF Plain, Numbers
<1>3. i.op \in Plain => i.value = "nil"
  BY DEF Proper
<1>4. i.op \in Numbers => i.value = "integer"
  BY DEF Proper
<1> QED
  BY <1>1, <1>2, <1>3, <1>4 DEF SentValue

LEMMA NamesSent ==
  ASSUME NEW s, NEW i
  PROVE  s[i].op # "touch" /\ s[i].bin # NULL => Names(s, i) = {s[i].bin}
BY DEF Names

LEMMA TtlNat ==
  ASSUME NEW t \in Ttls \cup {0}
  PROVE  t \in Nat
<1>1. CASE t \in Ttls
  BY <1>1, BoundsAssumption
<1>2. CASE t = 0
  BY <1>2
<1> QED
  BY <1>1, <1>2

LEMMA OperateStep ==
  ASSUME TypeOK, Tied, NEW o \in Objects, Operate(o)
  PROVE  TypeOK' /\ Tied' /\ OperationsAsAsked' /\ QueriesAsAsked' /\ ShapesAsAsked'
<1> DEFINE s == Content(o)
           raised == object[o].ttl > IntMax \/ \E i \in DOMAIN s : Bad(s[i])
<1>1. object[o] # NULL /\ object[o].class = "Operation" /\ UNCHANGED <<object, array, held, log, calls>>
  BY DEF Operate, Raises, Sends, Of
<1>2. TypeOK' /\ Tied'
  BY <1>1 DEF TypeOK, Tied, Blank, Alone, Kept, Own
<1>3. s \in Seq(Items) /\ object[o].ttl = LastOf(log[o].ttl, 0)
  BY <1>1, Types1 DEF Tied, Kept, Content
<1>4. DOMAIN s = 1..Len(s) /\ Len(s) \in Nat /\ \A i \in DOMAIN s : s[i] \in Items
  BY <1>3
<1>5. sent'.by = o
  BY DEF Operate, Raises, Sends
<1>6. QueriesAsAsked' /\ ShapesAsAsked'
  BY <1>1, <1>5 DEF QueriesAsAsked, ShapesAsAsked, Of
<1>7. SUFFICES ASSUME Own(o)
               PROVE  LET t == LastOf(log[o].ttl, 0)
                      IN /\ t <= IntMax /\ (\A i \in DOMAIN s : Proper(s[i])) => sent'.items # NULL
                         /\ sent'.items # NULL =>
                              /\ sent'.ttl = t /\ Len(sent'.items) = Len(s)
                              /\ \A i \in DOMAIN s :
                                   /\ sent'.items[i].op = s[i].op
                                   /\ s[i].op # "touch" /\ s[i].bin # NULL => sent'.items[i].bin = s[i].bin
                                   /\ Proper(s[i]) =>
                                        sent'.items[i].value = IF s[i].op = "write" /\ s[i].value # "integer"
                                                               THEN "string" ELSE s[i].value
  <2>1. Own(o) => log[o].add = s
    BY <1>1 DEF Tied, Alone, Content
  <2>2. Own(o)' = Own(o) /\ log' = log
    BY <1>1 DEF Own
  <2> QED
    BY <1>2, <1>5, <1>6, <2>1, <2>2 DEF OperationsAsAsked
<1>8. CASE raised
  <2>1. sent'.items = NULL
    BY <1>8 DEF Operate, Raises, Sends
  <2>2. ~(object[o].ttl <= IntMax /\ \A i \in DOMAIN s : Proper(s[i]))
    <3>1. CASE object[o].ttl > IntMax
      <4>1. object[o] \in Instances
        BY <1>1, Types1
      <4>2. object[o].ttl \in Ttls \cup {0}
        BY <4>1 DEF Instances
      <4>3. Ttls \subseteq Nat /\ IntMax \in Nat
        BY BoundsAssumption
      <4>4. object[o].ttl \in Nat
        BY <4>2, TtlNat
      <4> QED
        BY <3>1, <4>3, <4>4
    <3>2. CASE \E i \in DOMAIN s : Bad(s[i])
      BY <1>4, <3>2, ProperSent
    <3> QED
      BY <1>8, <3>1, <3>2
  <2> QED
    BY <1>3, <2>1, <2>2
<1>9. CASE ~raised
  <2>1. PICK name \in [DOMAIN s -> Bins \cup {UNSET, NULL}] :
          /\ \A i \in DOMAIN s : name[i] \in Names(s, i)
          /\ Sends(o, [i \in DOMAIN s |-> Item(s[i].op, name[i], SentValue(s[i]))],
                   object[o].ttl, NULL, NULL)
    BY <1>9 DEF Operate
  <2> DEFINE out == [i \in DOMAIN s |-> Item(s[i].op, name[i], SentValue(s[i]))]
  <2>2. sent'.items = out /\ sent'.ttl = object[o].ttl
    BY <2>1 DEF Sends
  <2>3. ASSUME NEW i \in DOMAIN s
        PROVE  /\ out[i] \in Outs
               /\ out[i].op = s[i].op /\ out[i].bin = name[i] /\ out[i].value = SentValue(s[i])
    <3>1. s[i].op \in Known
      BY <1>9 DEF Bad
    <3>2. SentValue(s[i]) \in Types \cup {GARBAGE}
      BY <1>4, SentValueType
    <3> QED
      BY <2>1, <3>1, <3>2 DEF Item, Outs
  <2>4. out \in Seq(Outs) /\ Len(out) = Len(s)
    <3>1. out \in [1..Len(s) -> Outs]
      BY <1>4, <2>3
    <3> QED
      BY <1>4, <3>1
  <2>5. out # NULL
    BY <2>4, NullFacts
  <2>6. ASSUME NEW i \in DOMAIN s
        PROVE  /\ s[i].op # "touch" /\ s[i].bin # NULL => out[i].bin = s[i].bin
               /\ Proper(s[i]) => out[i].value = IF s[i].op = "write" /\ s[i].value # "integer"
                                                 THEN "string" ELSE s[i].value
    <3>1. s[i].op # "touch" /\ s[i].bin # NULL => name[i] = s[i].bin
      BY <2>1, NamesSent
    <3> QED
      BY <1>4, <2>3, <3>1, ProperSent
  <2> HIDE DEF out
  <2> QED
    BY <1>3, <2>2, <2>3, <2>4, <2>5, <2>6
<1> QED
  BY <1>8, <1>9

LEMMA FilterKinds ==
  /\ \A f \in PlainFilters : f.type \in {"eql", "range"}
  /\ \A f \in GeoCalls : \E g \in Geos : f.type = g.type /\ f.geo = g.call
BY DEF PlainFilters, GeoCalls, Filter

LEMMA FilterTypes ==
  ASSUME TypeOK, NEW o \in Objects
  PROVE  LastOf(log[o].filter, NULL) \in PlainFilters \cup GeoCalls \cup {NULL}
<1>1. log[o].filter \in Seq(PlainFilters \cup GeoCalls)
  BY Types1 DEF Logs
<1>2. CASE log[o].filter = <<>>
  BY <1>2, LastOfEmpty
<1>3. CASE log[o].filter # <<>>
  <2>1. Len(log[o].filter) \in 1..Len(log[o].filter)
    BY <1>1, <1>3
  <2> QED
    BY <1>1, <1>3, <2>1 DEF LastOf, Last
<1> QED
  BY <1>2, <1>3

LEMMA SendQueryStep ==
  ASSUME TypeOK, Tied, NEW o \in Objects, SendQuery(o)
  PROVE  TypeOK' /\ Tied' /\ OperationsAsAsked' /\ QueriesAsAsked' /\ ShapesAsAsked'
<1> DEFINE s == Content(o)
<1>1. object[o] # NULL /\ object[o].class = "Query" /\ UNCHANGED <<object, array, held, log, calls>>
  BY DEF SendQuery, Raises, Sends, Of
<1>2. TypeOK' /\ Tied'
  BY <1>1 DEF TypeOK, Tied, Blank, Alone, Kept, Own
<1>3. sent'.by = o
  BY DEF SendQuery, Raises, Sends
<1>4. OperationsAsAsked'
  BY <1>1, <1>3 DEF OperationsAsAsked, Of
<1>5. /\ object[o].order = log[o].order
      /\ SameFilter(object[o].filter, LastOf(log[o].filter, NULL))
      /\ Own(o) => log[o].add = s
  BY <1>1 DEF Tied, Kept, Alone, Content
<1>6. Own(o)' = Own(o) /\ log' = log
  BY <1>1 DEF Own
<1>7. sent'.items # NULL =>
        /\ sent'.items = s /\ sent'.filter = object[o].filter /\ sent'.order \in Orders(o)
  BY DEF SendQuery, Raises, Sends
<1>8. Orders(o) \subseteq {log[o].order, STALE} /\ (log[o].order = <<>> => Orders(o) = {<<>>})
  BY <1>5 DEF Orders
<1>9. QueriesAsAsked'
  BY <1>3, <1>5, <1>6, <1>7, <1>8 DEF QueriesAsAsked, SameFilter
<1>10. ShapesAsAsked'
  <2> DEFINE f == LastOf(log[o].filter, NULL)
  <2>0. LastOf(log'[sent'.by].filter, NULL) = f
    BY <1>3, <1>6
  <2> HIDE DEF f
  <2>1. SUFFICES ASSUME sent'.items # NULL, f # NULL, f.type \in {"geo_contains", "geo_within"}
                 PROVE  (sent'.filter.geo = Meant(f.geo) /\ Readable(f.geo)) = Keeps(f.geo)
    BY <2>0 DEF ShapesAsAsked
  <2>2. sent'.filter.geo = Made(f.geo)
    BY <1>5, <1>7, <2>1 DEF SameFilter, f
  <2>3. f \in PlainFilters \cup GeoCalls
    BY <2>1, FilterTypes DEF f
  <2>4. f \in GeoCalls
    BY <2>1, <2>3, FilterKinds
  <2>5. PICK g \in Geos : f.geo = g.call
    BY <2>4, FilterKinds
  <2>6. Callable(f.geo)
    BY <2>5, PointsAssumption DEF Callable
  <2> QED
    <3>1. (sent'.filter.geo = Meant(f.geo) /\ Readable(f.geo)) <=> Keeps(f.geo)
      BY <2>2, <2>6, ShapeMade
    <3> QED
      BY <3>1 DEF Keeps
<1> QED
  BY <1>2, <1>4, <1>9, <1>10

-----------------------------------------------------------------------------
(* The steps *)

LEMMA InitIInv == Init => IInv
<1> SUFFICES ASSUME Init PROVE IInv
  OBVIOUS
<1>1. TypeOK
  <2>1. log \in [Objects -> [add : Seq(Items), ttl : Seq(Ttls),
                             filter : Seq(PlainFilters \cup GeoCalls), order : Orderings]]
    BY DEF Init, Orderings
  <2>2. calls \in 0..MaxCalls
    BY BoundsAssumption DEF Init
  <2> QED
    BY <2>1, <2>2 DEF Init, TypeOK
<1>2. Tied
  BY DEF Init, Tied, Blank, Alone, Kept
<1> QED
  BY <1>1, <1>2 DEF Init, IInv, OperationsAsAsked, QueriesAsAsked, ShapesAsAsked

LEMMA NewObjectStep ==
  ASSUME TypeOK, Tied, NEW o \in Objects, NEW a \in Arrays, NEW mine \in BOOLEAN,
         NewQuery(o, a, mine) \/ \E t \in Ttls : NewOperation(o, a, mine, t)
  PROVE  TypeOK' /\ Tied'
<1>1. /\ log[o].add = <<>> /\ log[o].ttl = <<>> /\ log[o].filter = <<>> /\ log[o].order = <<>>
      /\ log[o] \in Logs
  BY Types1 DEF Tied, Blank, NewQuery, NewOperation
<1>2. CASE NewQuery(o, a, mine)
  <2>1. UNCHANGED log /\ calls' \in 0..MaxCalls
    BY <1>2, BoundsAssumption DEF NewQuery, Called, TypeOK
  <2>2. log' \in [Objects -> Logs]
    BY <2>1 DEF TypeOK, Logs
  <2>3. LastOf(log'[o].ttl, 0) = 0
    BY <1>1, <2>1, LastOfEmpty
  <2> QED
    BY <1>1, <1>2, <2>1, <2>2, <2>3, NewStep DEF NewQuery
<1>3. ASSUME NEW t \in Ttls, NewOperation(o, a, mine, t) PROVE TypeOK' /\ Tied'
  <2>1. Append(log[o].ttl, t) \in Seq(Ttls) /\ LastOf(Append(log[o].ttl, t), 0) = t
    <3>1. log[o].ttl \in Seq(Ttls)
      BY Types1 DEF Logs
    <3> QED
      BY <3>1, LastOfAppend
  <2>2. [log[o] EXCEPT !["ttl"] = Append(@, t)] \in Logs
    BY <1>1, <2>1 DEF Logs
  <2>3. Logged(o, "ttl", t)
    BY <1>3 DEF NewOperation
  <2>4. /\ log' \in [Objects -> Logs] /\ calls' \in 0..MaxCalls
        /\ log'[o] = [log[o] EXCEPT !["ttl"] = Append(@, t)]
        /\ \A p \in Objects \ {o} : log'[p] = log[p]
    BY <2>2, <2>3, LoggedStep
  <2>5. /\ log'[o].add = <<>> /\ log'[o].ttl = Append(log[o].ttl, t)
        /\ log'[o].filter = <<>> /\ log'[o].order = <<>>
    BY <1>1, <2>4 DEF Logs
  <2> QED
    BY <1>3, <2>1, <2>4, <2>5, NewStep DEF NewOperation
<1> QED
  BY <1>2, <1>3

LEMMA CollectStep ==
  ASSUME TypeOK, Tied, NEW o \in Objects,
         \/ \E m \in Methods, b \in Bins : AddOperation(o, m.op, b, m.value)
         \/ \E i \in Hashes : AddHash(o, i)
         \/ \E b \in Bins, k \in BOOLEAN : ListSize(o, b, k)
         \/ \E b \in Bins \cup {SYMBOL}, k \in BOOLEAN : AddBin(o, b, k)
  PROVE  TypeOK' /\ Tied'
<1>1. ASSUME NEW m \in Methods, NEW b \in Bins, AddOperation(o, m.op, b, m.value)
      PROVE  TypeOK' /\ Tied'
  <2> DEFINE i == Item(m.op, IF m.op = "touch" THEN NULL ELSE b, IF m.op \in Plain THEN "nil" ELSE m.value)
  <2>1. i \in Items
    BY CallsAssumption DEF Item, Items, Types
  <2>2. object[o] # NULL /\ Pushed1(object[o].items, i) /\ Logged(o, "add", i) /\ UNCHANGED <<object, held>>
    BY <1>1 DEF AddOperation, Of
  <2> HIDE DEF i
  <2> QED
    BY <2>1, <2>2, AddStep
<1>2. ASSUME NEW i \in Hashes, AddHash(o, i)
      PROVE  TypeOK' /\ Tied'
  <2>1. i \in Items
    BY CallsAssumption
  <2>2. object[o] # NULL /\ Pushed1(object[o].items, i) /\ Logged(o, "add", i) /\ UNCHANGED <<object, held>>
    BY <1>2 DEF AddHash, Of
  <2> QED
    BY <2>1, <2>2, AddStep
<1>3. ASSUME NEW b \in Bins, NEW k \in BOOLEAN, ListSize(o, b, k)
      PROVE  TypeOK' /\ Tied'
  <2> DEFINE i == Item("list_size", b, "nil")
  <2>1. i \in Items
    BY DEF Item, Items, Types, Known, Plain
  <2>2. /\ object[o] # NULL /\ Pushed1(object[o].items, i) /\ Logged(o, "add", i) /\ UNCHANGED object
        /\ held' \in {held, held \cup {object[o].items}}
    BY <1>3 DEF ListSize, Of
  <2> HIDE DEF i
  <2> QED
    BY <2>1, <2>2, AddStep
<1>4. ASSUME NEW b \in Bins \cup {SYMBOL}, NEW k \in BOOLEAN, AddBin(o, b, k)
      PROVE  TypeOK' /\ Tied'
  <2> DEFINE i == Item("select", b, "nil")
  <2>1. i \in Items
    BY DEF Item, Items, Types
  <2>2. /\ object[o] # NULL /\ Pushed1(object[o].items, i) /\ Logged(o, "add", i) /\ UNCHANGED object
        /\ held' \in {held, held \cup {object[o].items}}
    BY <1>4 DEF AddBin, Of
  <2> HIDE DEF i
  <2> QED
    BY <2>1, <2>2, AddStep
<1> QED
  BY <1>1, <1>2, <1>3, <1>4

\* the actions that hand nothing to the C client
Building ==
  \/ \E o \in Objects, a \in Arrays :
       \/ \E t \in Ttls, mine \in BOOLEAN : NewOperation(o, a, mine, t)
       \/ \E mine \in BOOLEAN : NewQuery(o, a, mine)
       \/ Assign(o, a)
  \/ \E o \in Objects, m \in Methods, b \in Bins : AddOperation(o, m.op, b, m.value)
  \/ \E o \in Objects, i \in Hashes : AddHash(o, i)
  \/ \E o \in Objects, i \in Hashes \cup {Item("select", b, "nil") : b \in Bins} : Push(o, i)
  \/ \E o \in Objects, b \in Bins, k \in BOOLEAN : ListSize(o, b, k)
  \/ \E o \in Objects, b \in Bins \cup {SYMBOL}, k \in BOOLEAN : AddBin(o, b, k)
  \/ \E o \in Objects, b \in Bins, v \in Values : Eql(o, b, v) \/ RangeOf(o, b, "integer", v)
  \/ \E o \in Objects, b \in Bins, d \in {"asc", "other"} : OrderBy(o, b, d)
  \/ \E o \in Objects, b \in Bins, g \in Geos : Geo(o, g.type, b, g.call)
  \/ \E o \in Objects, t \in Ttls : SetTtl(o, t)
  \/ \E o \in Objects : Read(o) \/ GeoRefused(o)

LEMMA BuildingStep ==
  ASSUME IInv, Building
  PROVE  IInv'
<1>1. TypeOK /\ Tied
  BY DEF IInv
<1>2. TypeOK' /\ Tied'
  <2>1. CASE \E o \in Objects, a \in Arrays :
               \/ \E t \in Ttls, mine \in BOOLEAN : NewOperation(o, a, mine, t)
               \/ \E mine \in BOOLEAN : NewQuery(o, a, mine)
               \/ Assign(o, a)
    BY <1>1, <2>1, NewObjectStep, AssignStep
  <2>2. CASE \/ \E o \in Objects, m \in Methods, b \in Bins : AddOperation(o, m.op, b, m.value)
             \/ \E o \in Objects, i \in Hashes : AddHash(o, i)
             \/ \E o \in Objects, b \in Bins, k \in BOOLEAN : ListSize(o, b, k)
             \/ \E o \in Objects, b \in Bins \cup {SYMBOL}, k \in BOOLEAN : AddBin(o, b, k)
    BY <1>1, <2>2, CollectStep
  <2>3. CASE \E o \in Objects, i \in Hashes \cup {Item("select", b, "nil") : b \in Bins} : Push(o, i)
    <3>1. \A b \in Bins : Item("select", b, "nil") \in Items
      BY DEF Item, Items, Types
    <3> QED
      BY <1>1, <2>3, <3>1, CallsAssumption, PushStep
  <2>4. CASE \E o \in Objects, b \in Bins, v \in Values : Eql(o, b, v) \/ RangeOf(o, b, "integer", v)
    BY <1>1, <2>4, CallsAssumption, EqlStep, RangeStep
  <2>5. CASE \E o \in Objects, b \in Bins, d \in {"asc", "other"} : OrderBy(o, b, d)
    BY <1>1, <2>5, OrderStep
  <2>6. CASE \E o \in Objects, b \in Bins, g \in Geos : Geo(o, g.type, b, g.call)
    BY <1>1, <2>6, GeoStep
  <2>7. CASE \E o \in Objects, t \in Ttls : SetTtl(o, t)
    BY <1>1, <2>7, SetTtlStep
  <2>8. ASSUME NEW o \in Objects, Read(o) \/ GeoRefused(o) PROVE TypeOK' /\ Tied'
    <3>1. CASE GeoRefused(o)
      BY <1>1, <3>1 DEF GeoRefused, TypeOK, Tied, Blank, Alone, Kept, Own
    <3> QED
      BY <1>1, <2>8, <3>1, ReadStep
  <2> QED
    BY <2>1, <2>2, <2>3, <2>4, <2>5, <2>6, <2>7, <2>8 DEF Building
<1>3. sent' = NULL
  BY DEF Building, NewOperation, NewQuery, Assign, AddOperation, AddHash, Push, ListSize, AddBin,
         Eql, RangeOf, OrderBy, Geo, SetTtl, Read, GeoRefused
<1> QED
  BY <1>2, <1>3 DEF IInv, OperationsAsAsked, QueriesAsAsked, ShapesAsAsked

-----------------------------------------------------------------------------
\* The types, and that every object holds what it was asked to hold.
THEOREM Invariance == Spec => []IInv
<1>1. IInv /\ [Next]_vars => IInv'
  <2> SUFFICES ASSUME IInv, [Next]_vars PROVE IInv'
    OBVIOUS
  <2>1. CASE UNCHANGED vars
    BY <2>1 DEF vars, IInv, TypeOK, Tied, Blank, Alone, Kept, Own, OperationsAsAsked,
                QueriesAsAsked, ShapesAsAsked, Of
  <2>2. ASSUME NEW o \in Objects, Operate(o) \/ SendQuery(o) PROVE IInv'
    BY <2>2, OperateStep, SendQueryStep DEF IInv
  <2>3. CASE Next
    BY <2>2, <2>3, BuildingStep DEF Next, Building
  <2> QED
    BY <2>1, <2>3
<1> QED
  BY <1>1, InitIInv, PTL DEF Spec

\* What objects, arrays and the log can hold, at every moment.
THEOREM TypeCorrect == Spec => []TypeOK
BY Invariance, PTL DEF IInv

\* operate sends what was asked of the object, in the order it was asked for, however
\* many objects share arrays and whatever was refused in between.
THEOREM OperationsSent == Spec => []OperationsAsAsked
BY Invariance, PTL DEF IInv

\* A query is sent with the bins, the filter and the orders that were asked for.
THEOREM QueriesSent == Spec => []QueriesAsAsked
BY Invariance, PTL DEF IInv

\* The shape a query is sent with is the one the documentation of the class methods
\* promises, for any points and any number of them, but for the calls that lose some.
THEOREM ShapesSent == Spec => []ShapesAsAsked
BY Invariance, PTL DEF IInv
=============================================================================

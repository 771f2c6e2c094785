------------------------- MODULE ValueConversionProofs -------------------------
(***************************************************************************)
(* Proofs about ValueConversion, for values nested to any depth.             *)
(*                                                                           *)
(* What is recursive is a function of the depth: that it is one, and what it  *)
(* gives, is shown level by level (DepthInduction).  What array2as_list and   *)
(* foreach_hash2as_hashmap take comes back as it is documented to             *)
(* (ThereAndBack), what get and put carry over is put back as it was          *)
(* (BackAndThere), and rb_copy_as_val leaves alone what it knows              *)
(* (CopiesWhole).  The invariant of the record is Kept: a bin that the        *)
(* program was the last to put holds what ToC makes of the value.             *)
(***************************************************************************)
EXTENDS ValueConversion, FiniteSetTheorems, WellFoundedInduction, SequenceTheorems, TLAPS

Depths == 0..MaxDepth

-----------------------------------------------------------------------------
(* Induction over the depth: there is no least one at which a claim fails.    *)

LEMMA Smallest ==
  ASSUME NEW T \in SUBSET Nat, T # {}
  PROVE  \E m \in T : \A k \in T : m <= k
<1>1. PICK m \in T : \A k \in T : ~(<<k, m>> \in OpToRel(<, Nat))
  BY WFMin, NatLessThanWellFounded
<1>2. ASSUME NEW k \in T PROVE m <= k
  <2>1. ~(k < m)
    BY <1>1 DEF OpToRel
  <2> QED
    BY <2>1
<1> QED
  BY <1>2

LEMMA DepthInduction ==
  ASSUME NEW P \in SUBSET Depths, 0 \in P,
         \A d \in Depths \ {0} : d - 1 \in P => d \in P
  PROVE  P = Depths
<1> DEFINE T == Depths \ P
<1> SUFFICES ASSUME T # {} PROVE FALSE
  OBVIOUS
<1>1. MaxDepth \in Nat
  BY ConversionAssumption
<1>2. T \in SUBSET Nat
  BY <1>1 DEF Depths
<1>3. PICK m \in T : \A k \in T : m <= k
  BY <1>2, Smallest
<1>4. m \in Depths \ {0} /\ m - 1 \in Depths /\ m - 1 \notin T
  BY <1>1, <1>2, <1>3 DEF Depths
<1> QED
  BY <1>3, <1>4

LEMMA Bottom == 0 \in Depths /\ MaxDepth \in Depths /\ MaxDepth \in Nat \ {0}
BY ConversionAssumption DEF Depths

LEMMA Below ==
  ASSUME NEW d \in Depths
  PROVE  /\ d \in Nat /\ MaxDepth \in Nat /\ 0 \in Depths /\ MaxDepth \in Depths
         /\ d # 0 => d - 1 \in Depths
BY ConversionAssumption DEF Depths

-----------------------------------------------------------------------------
(* The values of each depth *)

RubyNext(leaves, keys, inner) ==
  leaves \cup ({"ary"} \X Seq(inner)) \cup ({"hash"} \X Seq(keys \X inner))

RubyTo(leaves, keys, f, m) ==
  f = [d \in 0..m |-> IF d = 0 THEN leaves ELSE RubyNext(leaves, keys, f[d - 1])]

LEMMA RubyExists ==
  ASSUME NEW leaves, NEW keys, NEW n \in Nat
  PROVE  \E f : RubyTo(leaves, keys, f, n)
<1> DEFINE T == {m \in Nat : ~\E f : RubyTo(leaves, keys, f, m)}
<1> SUFFICES ASSUME T # {} PROVE FALSE
  OBVIOUS
<1>1. PICK m \in T : \A k \in T : m <= k
  BY Smallest
<1>2. m # 0
  <2> DEFINE f == [d \in 0..0 |-> leaves]
  <2>1. RubyTo(leaves, keys, f, 0)
    BY DEF RubyTo
  <2> QED
    BY <1>1, <2>1
<1>3. PICK f : RubyTo(leaves, keys, f, m - 1)
  BY <1>1, <1>2
<1> DEFINE Level(h, d) == IF d = 0 THEN leaves ELSE RubyNext(leaves, keys, h[d - 1])
           g == [d \in 0..m |-> Level(f, d)]
<1>4. m \in Nat /\ 0..m - 1 \subseteq 0..m
  BY <1>1
<1>5. \A d \in 0..m : g[d] = Level(f, d)
  OBVIOUS
<1>6. \A d \in 0..m - 1 : f[d] = Level(f, d)
  BY <1>3 DEF RubyTo
<1> HIDE DEF g
<1>7. \A d \in 0..m - 1 : g[d] = f[d]
  BY <1>4, <1>5, <1>6
<1>8. ASSUME NEW d \in 0..m PROVE g[d] = Level(g, d)
  <2>1. CASE d = 0
    BY <1>5, <2>1
  <2>2. CASE d # 0
    <3>1. d - 1 \in 0..m - 1
      BY <1>4, <2>2
    <3>2. g[d - 1] = f[d - 1]
      BY <1>7, <3>1
    <3> QED
      BY <1>5, <3>2
  <2> QED
    BY <2>1, <2>2
<1>9. RubyTo(leaves, keys, g, m)
  BY <1>8 DEF RubyTo, g
<1> QED
  BY <1>1, <1>9

LEMMA RubyLevel ==
  ASSUME NEW leaves, NEW keys
  PROVE  /\ RubyOf(leaves, keys)[0] = leaves
         /\ \A d \in Depths \ {0} :
              RubyOf(leaves, keys)[d] = RubyNext(leaves, keys, RubyOf(leaves, keys)[d - 1])
<1>1. RubyOf(leaves, keys) = CHOOSE f : RubyTo(leaves, keys, f, MaxDepth)
  BY DEF RubyOf, RubyTo, RubyNext
<1>2. MaxDepth \in Nat
  BY ConversionAssumption
<1>3. RubyTo(leaves, keys, RubyOf(leaves, keys), MaxDepth)
  BY <1>1, <1>2, RubyExists
<1>4. \A d \in Depths : RubyOf(leaves, keys)[d] =
        IF d = 0 THEN leaves ELSE RubyNext(leaves, keys, RubyOf(leaves, keys)[d - 1])
  BY <1>3 DEF RubyTo, Depths
<1> QED
  BY <1>2, <1>4 DEF Depths

CNext(leaves, keys, inner) ==
  leaves \cup ({"list"} \X Seq(inner)) \cup ({"map"} \X Maps(keys, inner))

CTo(leaves, keys, f, m) ==
  f = [d \in 0..m |-> IF d = 0 THEN leaves ELSE CNext(leaves, keys, f[d - 1])]

LEMMA CExists ==
  ASSUME NEW leaves, NEW keys, NEW n \in Nat
  PROVE  \E f : CTo(leaves, keys, f, n)
<1> DEFINE T == {m \in Nat : ~\E f : CTo(leaves, keys, f, m)}
<1> SUFFICES ASSUME T # {} PROVE FALSE
  OBVIOUS
<1>1. PICK m \in T : \A k \in T : m <= k
  BY Smallest
<1>2. m # 0
  <2> DEFINE f == [d \in 0..0 |-> leaves]
  <2>1. CTo(leaves, keys, f, 0)
    BY DEF CTo
  <2> QED
    BY <1>1, <2>1
<1>3. PICK f : CTo(leaves, keys, f, m - 1)
  BY <1>1, <1>2
<1> DEFINE Level(h, d) == IF d = 0 THEN leaves ELSE CNext(leaves, keys, h[d - 1])
           g == [d \in 0..m |-> Level(f, d)]
<1>4. m \in Nat /\ 0..m - 1 \subseteq 0..m
  BY <1>1
<1>5. \A d \in 0..m : g[d] = Level(f, d)
  OBVIOUS
<1>6. \A d \in 0..m - 1 : f[d] = Level(f, d)
  BY <1>3 DEF CTo
<1> HIDE DEF g
<1>7. \A d \in 0..m - 1 : g[d] = f[d]
  BY <1>4, <1>5, <1>6
<1>8. ASSUME NEW d \in 0..m PROVE g[d] = Level(g, d)
  <2>1. CASE d = 0
    BY <1>5, <2>1
  <2>2. CASE d # 0
    <3>1. d - 1 \in 0..m - 1
      BY <1>4, <2>2
    <3>2. g[d - 1] = f[d - 1]
      BY <1>7, <3>1
    <3> QED
      BY <1>5, <3>2
  <2> QED
    BY <2>1, <2>2
<1>9. CTo(leaves, keys, g, m)
  BY <1>8 DEF CTo, g
<1> QED
  BY <1>1, <1>9

LEMMA CLevel ==
  ASSUME NEW leaves, NEW keys
  PROVE  /\ COf(leaves, keys)[0] = leaves
         /\ \A d \in Depths \ {0} :
              COf(leaves, keys)[d] = CNext(leaves, keys, COf(leaves, keys)[d - 1])
<1>1. COf(leaves, keys) = CHOOSE f : CTo(leaves, keys, f, MaxDepth)
  BY DEF COf, CTo, CNext
<1>2. MaxDepth \in Nat
  BY ConversionAssumption
<1>3. CTo(leaves, keys, COf(leaves, keys), MaxDepth)
  BY <1>1, <1>2, CExists
<1>4. \A d \in Depths : COf(leaves, keys)[d] =
        IF d = 0 THEN leaves ELSE CNext(leaves, keys, COf(leaves, keys)[d - 1])
  BY <1>3 DEF CTo, Depths
<1> QED
  BY <1>2, <1>4 DEF Depths

\* What a value that is no leaf consists of
LEMMA RubyShape ==
  ASSUME NEW leaves, NEW keys, NEW d \in Depths, NEW v \in RubyOf(leaves, keys)[d]
  PROVE  \/ v \in leaves
         \/ /\ d # 0
            /\ v = <<v[1], v[2]>>
            /\ \/ v[1] = "ary" /\ v[2] \in Seq(RubyOf(leaves, keys)[d - 1])
               \/ v[1] = "hash" /\ v[2] \in Seq(keys \X RubyOf(leaves, keys)[d - 1])
<1> DEFINE R == RubyOf(leaves, keys)
<1>1. R[0] = leaves /\ \A e \in Depths \ {0} : R[e] = RubyNext(leaves, keys, R[e - 1])
  BY RubyLevel
<1> HIDE DEF R
<1>2. CASE d = 0
  BY <1>1, <1>2 DEF R
<1>3. CASE d # 0
  <2>1. v \in RubyNext(leaves, keys, R[d - 1])
    BY <1>1, <1>3 DEF R
  <2> QED
    BY <1>3, <2>1 DEF RubyNext, R
<1> QED
  BY <1>2, <1>3

LEMMA CShape ==
  ASSUME NEW leaves, NEW keys, NEW d \in Depths, NEW c \in COf(leaves, keys)[d]
  PROVE  \/ c \in leaves
         \/ /\ d # 0
            /\ c = <<c[1], c[2]>>
            /\ \/ c[1] = "list" /\ c[2] \in Seq(COf(leaves, keys)[d - 1])
               \/ c[1] = "map" /\ c[2] \in Maps(keys, COf(leaves, keys)[d - 1])
<1> DEFINE R == COf(leaves, keys)
<1>1. R[0] = leaves /\ \A e \in Depths \ {0} : R[e] = CNext(leaves, keys, R[e - 1])
  BY CLevel
<1> HIDE DEF R
<1>2. CASE d = 0
  BY <1>1, <1>2 DEF R
<1>3. CASE d # 0
  <2>1. c \in CNext(leaves, keys, R[d - 1])
    BY <1>1, <1>3 DEF R
  <2> QED
    BY <1>3, <2>1 DEF CNext, R
<1> QED
  BY <1>2, <1>3

\* and how it is made
LEMMA RubyMade ==
  ASSUME NEW leaves, NEW keys, NEW d \in Depths
  PROVE  /\ leaves \subseteq RubyOf(leaves, keys)[d]
         /\ d # 0 => /\ \A s \in Seq(RubyOf(leaves, keys)[d - 1]) :
                          <<"ary", s>> \in RubyOf(leaves, keys)[d]
                     /\ \A s \in Seq(keys \X RubyOf(leaves, keys)[d - 1]) :
                          <<"hash", s>> \in RubyOf(leaves, keys)[d]
<1> DEFINE R == RubyOf(leaves, keys)
<1>1. R[0] = leaves /\ \A e \in Depths \ {0} : R[e] = RubyNext(leaves, keys, R[e - 1])
  BY RubyLevel
<1> HIDE DEF R
<1> SUFFICES /\ leaves \subseteq R[d]
             /\ d # 0 => /\ \A s \in Seq(R[d - 1]) : <<"ary", s>> \in R[d]
                         /\ \A s \in Seq(keys \X R[d - 1]) : <<"hash", s>> \in R[d]
  BY DEF R
<1>2. CASE d = 0
  BY <1>1, <1>2
<1>3. CASE d # 0
  <2>1. R[d] = RubyNext(leaves, keys, R[d - 1])
    BY <1>1, <1>3
  <2> QED
    BY <2>1 DEF RubyNext
<1> QED
  BY <1>2, <1>3

LEMMA CMade ==
  ASSUME NEW leaves, NEW keys, NEW d \in Depths
  PROVE  /\ leaves \subseteq COf(leaves, keys)[d]
         /\ d # 0 => /\ \A s \in Seq(COf(leaves, keys)[d - 1]) :
                          <<"list", s>> \in COf(leaves, keys)[d]
                     /\ \A m \in Maps(keys, COf(leaves, keys)[d - 1]) :
                          <<"map", m>> \in COf(leaves, keys)[d]
<1> DEFINE R == COf(leaves, keys)
<1>1. R[0] = leaves /\ \A e \in Depths \ {0} : R[e] = CNext(leaves, keys, R[e - 1])
  BY CLevel
<1> HIDE DEF R
<1> SUFFICES /\ leaves \subseteq R[d]
             /\ d # 0 => /\ \A s \in Seq(R[d - 1]) : <<"list", s>> \in R[d]
                         /\ \A s \in Maps(keys, R[d - 1]) : <<"map", s>> \in R[d]
  BY DEF R
<1>2. CASE d = 0
  BY <1>1, <1>2
<1>3. CASE d # 0
  <2>1. R[d] = CNext(leaves, keys, R[d - 1])
    BY <1>1, <1>3
  <2> QED
    BY <2>1 DEF CNext
<1> QED
  BY <1>2, <1>3

LEMMA MapsGrow ==
  ASSUME NEW keys, NEW k2, keys \subseteq k2, NEW values, NEW v2, values \subseteq v2
  PROVE  Maps(keys, values) \subseteq Maps(k2, v2)
<1>1. keys \X values \subseteq k2 \X v2
  OBVIOUS
<1> QED
  BY <1>1 DEF Maps

\* more leaves and keys make more values
LEMMA RubyGrows ==
  ASSUME NEW leaves, NEW l2, leaves \subseteq l2, NEW keys, NEW k2, keys \subseteq k2
  PROVE  \A d \in Depths : RubyOf(leaves, keys)[d] \subseteq RubyOf(l2, k2)[d]
<1> DEFINE R == RubyOf(leaves, keys)
           Q == RubyOf(l2, k2)
           P == {d \in Depths : R[d] \subseteq Q[d]}
<1>1. 0 \in P
  <2>1. R[0] = leaves /\ Q[0] = l2
    BY RubyLevel
  <2> QED
    BY <2>1, Bottom
<1>2. ASSUME NEW d \in Depths \ {0}, d - 1 \in P PROVE d \in P
  <2>1. R[d] = RubyNext(leaves, keys, R[d - 1]) /\ Q[d] = RubyNext(l2, k2, Q[d - 1])
    BY RubyLevel
  <2> HIDE DEF R, Q
  <2>2. R[d - 1] \subseteq Q[d - 1]
    BY <1>2
  <2>3. Seq(R[d - 1]) \subseteq Seq(Q[d - 1])
    BY <2>2, SeqMonotonic
  <2>4. keys \X R[d - 1] \subseteq k2 \X Q[d - 1]
    BY <2>2
  <2>5. Seq(keys \X R[d - 1]) \subseteq Seq(k2 \X Q[d - 1])
    BY <2>4, SeqMonotonic
  <2>6. R[d] \subseteq Q[d]
    BY <2>1, <2>3, <2>5 DEF RubyNext
  <2> QED
    BY <2>6
<1>3. P = Depths
  <2> HIDE DEF P
  <2> QED
    BY <1>1, <1>2, DepthInduction DEF P
<1> QED
  BY <1>3

LEMMA CGrows ==
  ASSUME NEW leaves, NEW l2, leaves \subseteq l2, NEW keys, NEW k2, keys \subseteq k2
  PROVE  \A d \in Depths : COf(leaves, keys)[d] \subseteq COf(l2, k2)[d]
<1> DEFINE R == COf(leaves, keys)
           Q == COf(l2, k2)
           P == {d \in Depths : R[d] \subseteq Q[d]}
<1>1. 0 \in P
  <2>1. R[0] = leaves /\ Q[0] = l2
    BY CLevel
  <2> QED
    BY <2>1, Bottom
<1>2. ASSUME NEW d \in Depths \ {0}, d - 1 \in P PROVE d \in P
  <2>1. R[d] = CNext(leaves, keys, R[d - 1]) /\ Q[d] = CNext(l2, k2, Q[d - 1])
    BY CLevel
  <2> HIDE DEF R, Q
  <2>2. R[d - 1] \subseteq Q[d - 1]
    BY <1>2
  <2>3. Seq(R[d - 1]) \subseteq Seq(Q[d - 1])
    BY <2>2, SeqMonotonic
  <2>4. Maps(keys, R[d - 1]) \subseteq Maps(k2, Q[d - 1])
    BY <2>2, MapsGrow
  <2>5. R[d] \subseteq Q[d]
    BY <2>1, <2>3, <2>4 DEF CNext
  <2> QED
    BY <2>5
<1>3. P = Depths
  <2> HIDE DEF P
  <2> QED
    BY <1>1, <1>2, DepthInduction DEF P
<1> QED
  BY <1>3

\* what is nested no deeper than d - 1 is nested no deeper than d
LEMMA RubyDeeper ==
  ASSUME NEW leaves, NEW keys
  PROVE  \A d \in Depths \ {0} : RubyOf(leaves, keys)[d - 1] \subseteq RubyOf(leaves, keys)[d]
<1> DEFINE R == RubyOf(leaves, keys)
           P == {d \in Depths : d # 0 => R[d - 1] \subseteq R[d]}
<1>1. 0 \in P
  BY Bottom
<1>2. ASSUME NEW d \in Depths \ {0}, d - 1 \in P PROVE d \in P
  <2>1. R[d] = RubyNext(leaves, keys, R[d - 1])
    BY RubyLevel
  <2>2. CASE d = 1
    <3>1. R[0] = leaves
      BY RubyLevel
    <3> HIDE DEF R
    <3>2. R[d - 1] \subseteq R[d]
      BY <2>1, <2>2, <3>1 DEF RubyNext
    <3> QED
      BY <3>2
  <2>3. CASE d # 1
    <3>1. d - 1 \in Depths \ {0}
      BY <2>3, Below DEF Depths
    <3>2. \A e \in Depths \ {0} : R[e] = RubyNext(leaves, keys, R[e - 1])
      BY RubyLevel
    <3> HIDE DEF R
    <3>3. R[d - 1] = RubyNext(leaves, keys, R[d - 1 - 1])
      BY <3>1, <3>2
    <3>4. R[d - 1 - 1] \subseteq R[d - 1]
      BY <1>2, <3>1
    <3>5. Seq(R[d - 1 - 1]) \subseteq Seq(R[d - 1])
      BY <3>4, SeqMonotonic
    <3>6. keys \X R[d - 1 - 1] \subseteq keys \X R[d - 1]
      BY <3>4
    <3>7. Seq(keys \X R[d - 1 - 1]) \subseteq Seq(keys \X R[d - 1])
      BY <3>6, SeqMonotonic
    <3>8. R[d - 1] \subseteq R[d]
      BY <2>1, <3>3, <3>5, <3>7 DEF RubyNext
    <3> QED
      BY <3>8
  <2> QED
    BY <2>2, <2>3
<1>3. P = Depths
  <2> HIDE DEF P
  <2> QED
    BY <1>1, <1>2, DepthInduction DEF P
<1> QED
  BY <1>3

LEMMA CDeeper ==
  ASSUME NEW leaves, NEW keys
  PROVE  \A d \in Depths \ {0} : COf(leaves, keys)[d - 1] \subseteq COf(leaves, keys)[d]
<1> DEFINE R == COf(leaves, keys)
           P == {d \in Depths : d # 0 => R[d - 1] \subseteq R[d]}
<1>1. 0 \in P
  BY Bottom
<1>2. ASSUME NEW d \in Depths \ {0}, d - 1 \in P PROVE d \in P
  <2>1. R[d] = CNext(leaves, keys, R[d - 1])
    BY CLevel
  <2>2. CASE d = 1
    <3>1. R[0] = leaves
      BY CLevel
    <3> HIDE DEF R
    <3>2. R[d - 1] \subseteq R[d]
      BY <2>1, <2>2, <3>1 DEF CNext
    <3> QED
      BY <3>2
  <2>3. CASE d # 1
    <3>1. d - 1 \in Depths \ {0}
      BY <2>3, Below DEF Depths
    <3>2. \A e \in Depths \ {0} : R[e] = CNext(leaves, keys, R[e - 1])
      BY CLevel
    <3> HIDE DEF R
    <3>3. R[d - 1] = CNext(leaves, keys, R[d - 1 - 1])
      BY <3>1, <3>2
    <3>4. R[d - 1 - 1] \subseteq R[d - 1]
      BY <1>2, <3>1
    <3>5. Seq(R[d - 1 - 1]) \subseteq Seq(R[d - 1])
      BY <3>4, SeqMonotonic
    <3>6. Maps(keys, R[d - 1 - 1]) \subseteq Maps(keys, R[d - 1])
      BY <3>4, MapsGrow
    <3>7. R[d - 1] \subseteq R[d]
      BY <2>1, <3>3, <3>5, <3>6 DEF CNext
    <3> QED
      BY <3>7
  <2> QED
    BY <2>2, <2>3
<1>3. P = Depths
  <2> HIDE DEF P
  <2> QED
    BY <1>1, <1>2, DepthInduction DEF P
<1> QED
  BY <1>3

-----------------------------------------------------------------------------
(* The conversions: each is a function, of what it makes of the values one    *)
(* level below                                                                *)

LEMMA RubyLeafTypes ==
  ASSUME NEW v \in RubyLeaves
  PROVE  /\ v = <<v[1], v[2]>>
         /\ v[1] \in {"int", "str", "sym", "float", "obj", "geo", "data", "big", "nil"}
BY DEF RubyLeaves, Fixnums, Texts, Nil

LEMMA CLeafTypes ==
  ASSUME NEW c \in CLeaves \cup {NoValue}
  PROVE  /\ c = <<c[1], c[2]>>
         /\ c[1] \in {"int", "str", "dbl", "bytes", "blob", "geo", "nil", "null"}
BY DEF CLeaves, Strings, Nil, NoValue

LEMMA RubyToCFlat == \A g, h : \A v \in RubyValues[0] : RubyToC(g, v) = RubyToC(h, v)
<1>1. RubyValues[0] = RubyLeaves
  BY RubyLevel DEF RubyValues
<1>2. \A v \in RubyLeaves : v[1] \notin {"ary", "hash"}
  BY RubyLeafTypes
<1> QED
  BY <1>1, <1>2 DEF RubyToC

LEMMA NormalOfFlat == \A g, h : \A v \in RubyValues[0] : NormalOf(g, v) = NormalOf(h, v)
<1>1. RubyValues[0] = RubyLeaves
  BY RubyLevel DEF RubyValues
<1>2. \A v \in RubyLeaves : v[1] \notin {"ary", "hash"}
  BY RubyLeafTypes
<1> QED
  BY <1>1, <1>2 DEF NormalOf

LEMMA CToRubyFlat == \A g, h : \A c \in CopiedValues[0] : CToRuby(g, c) = CToRuby(h, c)
<1>1. CopiedValues[0] = CLeaves \cup {NoValue}
  BY CLevel DEF CopiedValues
<1>2. \A c \in CLeaves \cup {NoValue} : c[1] \notin {"list", "map"}
  BY CLeafTypes
<1> QED
  BY <1>1, <1>2 DEF CToRuby

LEMMA CopyValFlat == \A g, h : \A c \in CValues[0] : CopyVal(g, c) = CopyVal(h, c)
<1>1. CValues[0] = CLeaves
  BY CLevel DEF CValues
<1>2. \A c \in CLeaves \cup {NoValue} : c[1] \notin {"list", "map"}
  BY CLeafTypes
<1> QED
  BY <1>1, <1>2 DEF CopyVal

ToCTo(f, m) == f = [d \in 0..m |-> [v \in RubyValues[d] |-> RubyToC(f[d - 1], v)]]

LEMMA ToCExists ==
  ASSUME NEW n \in Nat
  PROVE  \E f : ToCTo(f, n)
<1> DEFINE T == {m \in Nat : ~\E f : ToCTo(f, m)}
<1> SUFFICES ASSUME T # {} PROVE FALSE
  OBVIOUS
<1>1. PICK m \in T : \A k \in T : m <= k
  BY Smallest
<1> DEFINE Level(h, d) == [v \in RubyValues[d] |-> RubyToC(h[d - 1], v)]
<1>2. \A g, h : Level(g, 0) = Level(h, 0)
  BY RubyToCFlat
<1>3. m # 0
  <2> DEFINE f == [d \in 0..0 |-> Level(<<>>, 0)]
  <2> HIDE DEF Level
  <2>1. \A d \in 0..0 : d = 0 /\ f[d] = Level(<<>>, 0) /\ Level(<<>>, 0) = Level(f, 0)
    BY <1>2
  <2>2. ToCTo(f, 0)
    BY <2>1 DEF ToCTo, Level
  <2> QED
    BY <1>1, <2>2
<1>4. PICK f : ToCTo(f, m - 1)
  BY <1>1, <1>3
<1> DEFINE g == [d \in 0..m |-> Level(f, d)]
<1>5. m \in Nat /\ 0..m - 1 \subseteq 0..m
  BY <1>1
<1>6. \A d \in 0..m : g[d] = Level(f, d)
  OBVIOUS
<1>7. \A d \in 0..m - 1 : f[d] = Level(f, d)
  BY <1>4 DEF ToCTo
<1> HIDE DEF g
<1>8. \A d \in 0..m - 1 : g[d] = f[d]
  BY <1>5, <1>6, <1>7
<1>9. ASSUME NEW d \in 0..m PROVE g[d] = Level(g, d)
  <2>1. CASE d = 0
    BY <1>2, <1>6, <2>1
  <2>2. CASE d # 0
    <3>1. d - 1 \in 0..m - 1
      BY <1>5, <2>2
    <3>2. g[d - 1] = f[d - 1]
      BY <1>8, <3>1
    <3> QED
      BY <1>6, <3>2
  <2> QED
    BY <2>1, <2>2
<1>10. ToCTo(g, m)
  BY <1>9 DEF ToCTo, g
<1> QED
  BY <1>1, <1>10

LEMMA ToCLevel ==
  ASSUME NEW d \in Depths, NEW v \in RubyValues[d]
  PROVE  ToCAt[d][v] = RubyToC(ToCAt[d - 1], v)
<1>1. ToCAt = CHOOSE f : ToCTo(f, MaxDepth)
  BY DEF ToCAt, ToCTo
<1>2. ToCTo(ToCAt, MaxDepth)
  BY <1>1, ToCExists, Bottom
<1>3. ToCAt[d] = [x \in RubyValues[d] |-> RubyToC(ToCAt[d - 1], x)]
  BY <1>2 DEF ToCTo, Depths
<1> QED
  BY <1>3

NormalTo(f, m) == f = [d \in 0..m |-> [v \in RubyValues[d] |-> NormalOf(f[d - 1], v)]]

LEMMA NormalExists ==
  ASSUME NEW n \in Nat
  PROVE  \E f : NormalTo(f, n)
<1> DEFINE T == {m \in Nat : ~\E f : NormalTo(f, m)}
<1> SUFFICES ASSUME T # {} PROVE FALSE
  OBVIOUS
<1>1. PICK m \in T : \A k \in T : m <= k
  BY Smallest
<1> DEFINE Level(h, d) == [v \in RubyValues[d] |-> NormalOf(h[d - 1], v)]
<1>2. \A g, h : Level(g, 0) = Level(h, 0)
  BY NormalOfFlat
<1>3. m # 0
  <2> DEFINE f == [d \in 0..0 |-> Level(<<>>, 0)]
  <2> HIDE DEF Level
  <2>1. \A d \in 0..0 : d = 0 /\ f[d] = Level(<<>>, 0) /\ Level(<<>>, 0) = Level(f, 0)
    BY <1>2
  <2>2. NormalTo(f, 0)
    BY <2>1 DEF NormalTo, Level
  <2> QED
    BY <1>1, <2>2
<1>4. PICK f : NormalTo(f, m - 1)
  BY <1>1, <1>3
<1> DEFINE g == [d \in 0..m |-> Level(f, d)]
<1>5. m \in Nat /\ 0..m - 1 \subseteq 0..m
  BY <1>1
<1>6. \A d \in 0..m : g[d] = Level(f, d)
  OBVIOUS
<1>7. \A d \in 0..m - 1 : f[d] = Level(f, d)
  BY <1>4 DEF NormalTo
<1> HIDE DEF g
<1>8. \A d \in 0..m - 1 : g[d] = f[d]
  BY <1>5, <1>6, <1>7
<1>9. ASSUME NEW d \in 0..m PROVE g[d] = Level(g, d)
  <2>1. CASE d = 0
    BY <1>2, <1>6, <2>1
  <2>2. CASE d # 0
    <3>1. d - 1 \in 0..m - 1
      BY <1>5, <2>2
    <3>2. g[d - 1] = f[d - 1]
      BY <1>8, <3>1
    <3> QED
      BY <1>6, <3>2
  <2> QED
    BY <2>1, <2>2
<1>10. NormalTo(g, m)
  BY <1>9 DEF NormalTo, g
<1> QED
  BY <1>1, <1>10

LEMMA NormalLevel ==
  ASSUME NEW d \in Depths, NEW v \in RubyValues[d]
  PROVE  NormalAt[d][v] = NormalOf(NormalAt[d - 1], v)
<1>1. NormalAt = CHOOSE f : NormalTo(f, MaxDepth)
  BY DEF NormalAt, NormalTo
<1>2. NormalTo(NormalAt, MaxDepth)
  BY <1>1, NormalExists, Bottom
<1>3. NormalAt[d] = [x \in RubyValues[d] |-> NormalOf(NormalAt[d - 1], x)]
  BY <1>2 DEF NormalTo, Depths
<1> QED
  BY <1>3

ToRubyTo(f, m) == f = [d \in 0..m |-> [v \in CopiedValues[d] |-> CToRuby(f[d - 1], v)]]

LEMMA ToRubyExists ==
  ASSUME NEW n \in Nat
  PROVE  \E f : ToRubyTo(f, n)
<1> DEFINE T == {m \in Nat : ~\E f : ToRubyTo(f, m)}
<1> SUFFICES ASSUME T # {} PROVE FALSE
  OBVIOUS
<1>1. PICK m \in T : \A k \in T : m <= k
  BY Smallest
<1> DEFINE Level(h, d) == [v \in CopiedValues[d] |-> CToRuby(h[d - 1], v)]
<1>2. \A g, h : Level(g, 0) = Level(h, 0)
  BY CToRubyFlat
<1>3. m # 0
  <2> DEFINE f == [d \in 0..0 |-> Level(<<>>, 0)]
  <2> HIDE DEF Level
  <2>1. \A d \in 0..0 : d = 0 /\ f[d] = Level(<<>>, 0) /\ Level(<<>>, 0) = Level(f, 0)
    BY <1>2
  <2>2. ToRubyTo(f, 0)
    BY <2>1 DEF ToRubyTo, Level
  <2> QED
    BY <1>1, <2>2
<1>4. PICK f : ToRubyTo(f, m - 1)
  BY <1>1, <1>3
<1> DEFINE g == [d \in 0..m |-> Level(f, d)]
<1>5. m \in Nat /\ 0..m - 1 \subseteq 0..m
  BY <1>1
<1>6. \A d \in 0..m : g[d] = Level(f, d)
  OBVIOUS
<1>7. \A d \in 0..m - 1 : f[d] = Level(f, d)
  BY <1>4 DEF ToRubyTo
<1> HIDE DEF g
<1>8. \A d \in 0..m - 1 : g[d] = f[d]
  BY <1>5, <1>6, <1>7
<1>9. ASSUME NEW d \in 0..m PROVE g[d] = Level(g, d)
  <2>1. CASE d = 0
    BY <1>2, <1>6, <2>1
  <2>2. CASE d # 0
    <3>1. d - 1 \in 0..m - 1
      BY <1>5, <2>2
    <3>2. g[d - 1] = f[d - 1]
      BY <1>8, <3>1
    <3> QED
      BY <1>6, <3>2
  <2> QED
    BY <2>1, <2>2
<1>10. ToRubyTo(g, m)
  BY <1>9 DEF ToRubyTo, g
<1> QED
  BY <1>1, <1>10

LEMMA ToRubyLevel ==
  ASSUME NEW d \in Depths, NEW v \in CopiedValues[d]
  PROVE  ToRubyAt[d][v] = CToRuby(ToRubyAt[d - 1], v)
<1>1. ToRubyAt = CHOOSE f : ToRubyTo(f, MaxDepth)
  BY DEF ToRubyAt, ToRubyTo
<1>2. ToRubyTo(ToRubyAt, MaxDepth)
  BY <1>1, ToRubyExists, Bottom
<1>3. ToRubyAt[d] = [x \in CopiedValues[d] |-> CToRuby(ToRubyAt[d - 1], x)]
  BY <1>2 DEF ToRubyTo, Depths
<1> QED
  BY <1>3

CopyTo(f, m) == f = [d \in 0..m |-> [v \in CValues[d] |-> CopyVal(f[d - 1], v)]]

LEMMA CopyExists ==
  ASSUME NEW n \in Nat
  PROVE  \E f : CopyTo(f, n)
<1> DEFINE T == {m \in Nat : ~\E f : CopyTo(f, m)}
<1> SUFFICES ASSUME T # {} PROVE FALSE
  OBVIOUS
<1>1. PICK m \in T : \A k \in T : m <= k
  BY Smallest
<1> DEFINE Level(h, d) == [v \in CValues[d] |-> CopyVal(h[d - 1], v)]
<1>2. \A g, h : Level(g, 0) = Level(h, 0)
  BY CopyValFlat
<1>3. m # 0
  <2> DEFINE f == [d \in 0..0 |-> Level(<<>>, 0)]
  <2> HIDE DEF Level
  <2>1. \A d \in 0..0 : d = 0 /\ f[d] = Level(<<>>, 0) /\ Level(<<>>, 0) = Level(f, 0)
    BY <1>2
  <2>2. CopyTo(f, 0)
    BY <2>1 DEF CopyTo, Level
  <2> QED
    BY <1>1, <2>2
<1>4. PICK f : CopyTo(f, m - 1)
  BY <1>1, <1>3
<1> DEFINE g == [d \in 0..m |-> Level(f, d)]
<1>5. m \in Nat /\ 0..m - 1 \subseteq 0..m
  BY <1>1
<1>6. \A d \in 0..m : g[d] = Level(f, d)
  OBVIOUS
<1>7. \A d \in 0..m - 1 : f[d] = Level(f, d)
  BY <1>4 DEF CopyTo
<1> HIDE DEF g
<1>8. \A d \in 0..m - 1 : g[d] = f[d]
  BY <1>5, <1>6, <1>7
<1>9. ASSUME NEW d \in 0..m PROVE g[d] = Level(g, d)
  <2>1. CASE d = 0
    BY <1>2, <1>6, <2>1
  <2>2. CASE d # 0
    <3>1. d - 1 \in 0..m - 1
      BY <1>5, <2>2
    <3>2. g[d - 1] = f[d - 1]
      BY <1>8, <3>1
    <3> QED
      BY <1>6, <3>2
  <2> QED
    BY <2>1, <2>2
<1>10. CopyTo(g, m)
  BY <1>9 DEF CopyTo, g
<1> QED
  BY <1>1, <1>10

LEMMA CopyLevel ==
  ASSUME NEW d \in Depths, NEW v \in CValues[d]
  PROVE  CopyAt[d][v] = CopyVal(CopyAt[d - 1], v)
<1>1. CopyAt = CHOOSE f : CopyTo(f, MaxDepth)
  BY DEF CopyAt, CopyTo
<1>2. CopyTo(CopyAt, MaxDepth)
  BY <1>1, CopyExists, Bottom
<1>3. CopyAt[d] = [x \in CValues[d] |-> CopyVal(CopyAt[d - 1], x)]
  BY <1>2 DEF CopyTo, Depths
<1> QED
  BY <1>3

-----------------------------------------------------------------------------
(* Sequences, finite sets, and the pairs that are set last                    *)

LEMMA SeqMade ==
  ASSUME NEW S, NEW n \in Nat, NEW s \in [1..n -> S]
  PROVE  s \in Seq(S) /\ Len(s) = n /\ DOMAIN s = 1..n
OBVIOUS

LEMMA SeqParts ==
  ASSUME NEW S, NEW s \in Seq(S)
  PROVE  /\ Len(s) \in Nat /\ DOMAIN s = 1..Len(s)
         /\ \A i \in DOMAIN s : s[i] \in S
BY LenProperties

LEMMA Appended1 ==
  ASSUME NEW S, NEW s \in Seq(S), NEW e \in S
  PROVE  /\ Append(s, e) \in Seq(S) /\ Len(s) \in Nat /\ DOMAIN s = 1..Len(s)
         /\ DOMAIN Append(s, e) = 1..Len(s) + 1
         /\ Append(s, e)[Len(s) + 1] = e
         /\ \A i \in 1..Len(s) : Append(s, e)[i] = s[i]
OBVIOUS

LEMMA SameEnd ==
  ASSUME NEW m \in Nat, NEW n \in Nat, 1..m = 1..n
  PROVE  m = n
<1>1. m > n => m \in 1..m /\ m \notin 1..n
  OBVIOUS
<1>2. n > m => n \in 1..n /\ n \notin 1..m
  OBVIOUS
<1> QED
  BY <1>1, <1>2

LEMMA ImageFinite ==
  ASSUME NEW f, IsFiniteSet(DOMAIN f)
  PROVE  IsFiniteSet({f[x] : x \in DOMAIN f})
<1> DEFINE T == {f[x] : x \in DOMAIN f}
           g == [x \in DOMAIN f |-> f[x]]
<1>1. g \in Surjection(DOMAIN f, T)
  BY DEF Surjection
<1>2. IsFiniteSet(T)
  BY <1>1, FS_Surjection
<1> QED
  BY <1>2

\* a nonempty set of indices has a largest element
LEMMA Largest ==
  ASSUME NEW n \in Nat, NEW T \in SUBSET (1..n), T # {}
  PROVE  \E m \in T : \A k \in T : k <= m
<1> DEFINE U == {n - m : m \in T}
<1>1. U \subseteq Nat /\ U # {}
  <2>1. \A m \in T : m \in 1..n /\ n - m \in Nat
    OBVIOUS
  <2>2. PICK m \in T : TRUE
    OBVIOUS
  <2>3. n - m \in U
    BY <2>2
  <2> QED
    BY <2>1, <2>3
<1>2. PICK u \in U : \A y \in U : u <= y
  BY <1>1, Smallest
<1>3. PICK m \in T : u = n - m
  OBVIOUS
<1>4. ASSUME NEW k \in T PROVE k <= m
  <2>1. n - k \in U
    OBVIOUS
  <2>2. n - m <= n - k
    BY <1>2, <1>3, <2>1
  <2> QED
    BY <2>2
<1> QED
  BY <1>4

LEMMA LastOne ==
  ASSUME NEW S, NEW pairs \in Seq(S), NEW indices \in SUBSET DOMAIN pairs,
         NEW n \in NamesOf(pairs, indices)
  PROVE  /\ LastWith(pairs, indices, n) \in indices
         /\ KeyName(pairs[LastWith(pairs, indices, n)][1]) = n
         /\ \A j \in indices : KeyName(pairs[j][1]) = n => j <= LastWith(pairs, indices, n)
<1> DEFINE W == With(pairs, indices, n)
<1>1. Len(pairs) \in Nat /\ W \in SUBSET (1..Len(pairs))
  BY SeqParts DEF With
<1>2. W # {}
  BY DEF With, NamesOf
<1>3. PICK m \in W : \A k \in W : k <= m
  <2> HIDE DEF W
  <2> QED
    BY <1>1, <1>2, Largest
<1>4. \A k \in W : k \in Nat
  BY <1>1
<1>5. LastWith(pairs, indices, n) = CHOOSE x \in W : \A y \in W : x >= y
  BY DEF LastWith, Max
<1> HIDE DEF W
<1>6. m \in W /\ \A y \in W : m >= y
  BY <1>3, <1>4
<1>7. /\ LastWith(pairs, indices, n) \in W
      /\ \A y \in W : LastWith(pairs, indices, n) >= y
  BY <1>5, <1>6
<1>8. \A y \in W : y <= LastWith(pairs, indices, n)
  BY <1>4, <1>7
<1> QED
  BY <1>7, <1>8 DEF W, With

LEMMA NamesFinite ==
  ASSUME NEW S, NEW pairs \in Seq(S), NEW indices \in SUBSET DOMAIN pairs
  PROVE  IsFiniteSet(NamesOf(pairs, indices))
<1> DEFINE f == [i \in indices |-> KeyName(pairs[i][1])]
<1>1. Len(pairs) \in Int /\ indices \subseteq 1..Len(pairs)
  BY SeqParts
<1>2. IsFiniteSet(1..Len(pairs))
  BY <1>1, FS_Interval
<1>3. IsFiniteSet(DOMAIN f)
  BY <1>1, <1>2, FS_Subset
<1> HIDE DEF f
<1>4. IsFiniteSet({f[x] : x \in DOMAIN f})
  BY <1>3, ImageFinite
<1>5. {f[x] : x \in DOMAIN f} = NamesOf(pairs, indices)
  BY DEF f, NamesOf
<1> QED
  BY <1>4, <1>5

LEMMA KeyNames ==
  ASSUME NEW key \in Keys, key[1] # "nil"
  PROVE  KeyName(key) \in Names
<1>1. CASE key \in Fixnums
  BY <1>1, ConversionAssumption DEF Fixnums, KeyName
<1>2. CASE key \in Texts
  BY <1>2 DEF Texts, KeyName
<1> QED
  BY <1>1, <1>2 DEF Keys, Nil

-----------------------------------------------------------------------------
(* From Ruby to C *)

\* What RubyValues and InnerValues consist of
LEMMA ValueShape ==
  ASSUME NEW d \in Depths, NEW v \in RubyValues[d]
  PROVE  \/ v \in RubyLeaves
         \/ /\ d # 0
            /\ v = <<v[1], v[2]>>
            /\ \/ v[1] = "ary" /\ v[2] \in Seq(RubyValues[d - 1])
               \/ v[1] = "hash" /\ v[2] \in Seq(Keys \X RubyValues[d - 1])
BY RubyShape DEF RubyValues

LEMMA InnerShape ==
  ASSUME NEW d \in Depths, NEW v \in InnerValues[d]
  PROVE  \/ v \in Leaves(InnerTypes)
         \/ /\ d # 0
            /\ v = <<v[1], v[2]>>
            /\ \/ v[1] = "ary" /\ v[2] \in Seq(InnerValues[d - 1])
               \/ v[1] = "hash" /\ v[2] \in Seq(NamedKeys \X InnerValues[d - 1])
BY RubyShape DEF InnerValues

LEMMA InnerIsValue ==
  ASSUME NEW d \in Depths
  PROVE  InnerValues[d] \subseteq RubyValues[d]
<1>1. Leaves(InnerTypes) \subseteq RubyLeaves /\ NamedKeys \subseteq Keys
  BY DEF Leaves, NamedKeys
<1> QED
  BY <1>1, RubyGrows DEF InnerValues, RubyValues

\* The pairs of a hash, and the last one for a name
LEMMA Entries ==
  ASSUME NEW keys, NEW values, NEW pairs \in Seq(keys \X values),
         NEW indices \in SUBSET DOMAIN pairs, NEW n \in NamesOf(pairs, indices)
  PROVE  /\ LastWith(pairs, indices, n) \in DOMAIN pairs
         /\ pairs[LastWith(pairs, indices, n)][1] \in keys
         /\ pairs[LastWith(pairs, indices, n)][2] \in values
<1>1. LastWith(pairs, indices, n) \in DOMAIN pairs
  BY LastOne
<1>2. pairs[LastWith(pairs, indices, n)] \in keys \X values
  BY <1>1, SeqParts
<1> QED
  BY <1>1, <1>2

\* A conversion depends on those of the values inside only
LEMMA RubyToCSame ==
  ASSUME NEW d \in Depths, NEW v \in RubyValues[d], NEW g, NEW h,
         d # 0 => \A x \in RubyValues[d - 1] : g[x] = h[x]
  PROVE  RubyToC(g, v) = RubyToC(h, v)
<1>1. CASE v \in RubyLeaves
  <2>1. v[1] \notin {"ary", "hash"}
    BY <1>1, RubyLeafTypes
  <2> QED
    BY <2>1 DEF RubyToC
<1>2. CASE d # 0 /\ v[1] = "ary" /\ v[2] \in Seq(RubyValues[d - 1])
  <2>1. \A i \in DOMAIN v[2] : g[v[2][i]] = h[v[2][i]]
    BY <1>2, SeqParts
  <2> QED
    BY <1>2, <2>1 DEF RubyToC
<1>3. CASE d # 0 /\ v[1] = "hash" /\ v[2] \in Seq(Keys \X RubyValues[d - 1])
  <2> DEFINE last(n) == v[2][LastWith(v[2], DOMAIN v[2], n)][2]
  <2>1. ASSUME NEW n \in NamesOf(v[2], DOMAIN v[2]) PROVE g[last(n)] = h[last(n)]
    <3>1. last(n) \in RubyValues[d - 1]
      BY <1>3, Entries
    <3> QED
      BY <1>3, <3>1
  <2>2. HashToMap(g, v[2]) = HashToMap(h, v[2])
    BY <2>1 DEF HashToMap
  <2> QED
    BY <1>3, <2>2 DEF RubyToC
<1> QED
  BY <1>1, <1>2, <1>3, ValueShape

LEMMA ToCDeeper ==
  \A d \in Depths \ {0} : \A v \in RubyValues[d - 1] : ToCAt[d][v] = ToCAt[d - 1][v]
<1> DEFINE P == {d \in Depths : d # 0 => \A v \in RubyValues[d - 1] : ToCAt[d][v] = ToCAt[d - 1][v]}
<1>1. 0 \in P
  BY Bottom
<1>2. ASSUME NEW d \in Depths \ {0}, d - 1 \in P PROVE d \in P
  <2>1. d - 1 \in Depths
    BY Below
  <2>2. ASSUME NEW v \in RubyValues[d - 1] PROVE ToCAt[d][v] = ToCAt[d - 1][v]
    <3>1. v \in RubyValues[d]
      BY RubyDeeper DEF RubyValues
    <3>2. ToCAt[d][v] = RubyToC(ToCAt[d - 1], v)
      BY <3>1, ToCLevel
    <3> DEFINE e == d - 1
    <3>3. e \in Depths /\ v \in RubyValues[e] /\ e \in P
      BY <1>2, <2>1
    <3> HIDE DEF e
    <3>4. ToCAt[e][v] = RubyToC(ToCAt[e - 1], v)
      BY <3>3, ToCLevel
    <3>5. e # 0 => \A x \in RubyValues[e - 1] : ToCAt[e][x] = ToCAt[e - 1][x]
      BY <3>3
    <3>6. RubyToC(ToCAt[e], v) = RubyToC(ToCAt[e - 1], v)
      BY <3>3, <3>5, RubyToCSame
    <3> QED
      BY <3>2, <3>4, <3>6 DEF e
  <2> QED
    BY <2>2
<1>3. P = Depths
  <2> HIDE DEF P
  <2> QED
    BY <1>1, <1>2, DepthInduction DEF P
<1> QED
  BY <1>3

LEMMA HashToMapType ==
  ASSUME NEW values, NEW cs, NEW pairs \in Seq(NamedKeys \X values),
         NEW inner, \A v \in values : inner[v] \in cs
  PROVE  HashToMap(inner, pairs) \in Maps(Strings, cs)
<1> DEFINE names == NamesOf(pairs, DOMAIN pairs)
           value(n) == inner[pairs[LastWith(pairs, DOMAIN pairs, n)][2]]
           f == [n \in names |-> << <<"str", n>>, value(n)>>]
<1>1. ASSUME NEW n \in names PROVE n \in Names /\ value(n) \in cs
  <2>1. /\ LastWith(pairs, DOMAIN pairs, n) \in DOMAIN pairs
        /\ pairs[LastWith(pairs, DOMAIN pairs, n)][1] \in NamedKeys
        /\ pairs[LastWith(pairs, DOMAIN pairs, n)][2] \in values
    BY Entries
  <2>2. KeyName(pairs[LastWith(pairs, DOMAIN pairs, n)][1]) = n
    BY LastOne
  <2>3. pairs[LastWith(pairs, DOMAIN pairs, n)][1][1] # "nil"
    BY <2>1 DEF NamedKeys, Keys, Fixnums, Texts
  <2> QED
    BY <2>1, <2>2, <2>3, KeyNames DEF NamedKeys
<1>2. IsFiniteSet(names)
  BY NamesFinite
<1>3. HashToMap(inner, pairs) = {<< <<"str", n>>, value(n)>> : n \in names}
  BY DEF HashToMap, MapKey
<1> HIDE DEF names, value
<1>4. DOMAIN f = names /\ IsFiniteSet(DOMAIN f)
  BY <1>2
<1>5. {f[n] : n \in DOMAIN f} = {<< <<"str", n>>, value(n)>> : n \in names}
  OBVIOUS
<1> HIDE DEF f
<1>6. IsFiniteSet({f[n] : n \in DOMAIN f})
  BY <1>4, ImageFinite
<1> DEFINE m == HashToMap(inner, pairs)
<1>7. m = {<< <<"str", n>>, value(n)>> : n \in names} /\ IsFiniteSet(m)
  BY <1>3, <1>5, <1>6
<1> HIDE DEF m
<1>8. m \subseteq Strings \X cs
  BY <1>1, <1>7 DEF Strings
<1>9. \A p, q \in m : p[1] = q[1] => p = q
  BY <1>7
<1>10. m \in Maps(Strings, cs)
  BY <1>7, <1>8, <1>9 DEF Maps
<1> QED
  BY <1>10 DEF m

\* What may be in an array or a hash becomes a value of C
LEMMA ToCType ==
  \A d \in Depths : \A v \in InnerValues[d] : ToCAt[d][v] \in CValues[d]
<1> DEFINE P == {d \in Depths : \A v \in InnerValues[d] : ToCAt[d][v] \in CValues[d]}
<1>1. ASSUME NEW d \in Depths, d # 0 => d - 1 \in P, NEW v \in InnerValues[d]
      PROVE  ToCAt[d][v] \in CValues[d]
  <2>1. ToCAt[d][v] = RubyToC(ToCAt[d - 1], v)
    BY InnerIsValue, ToCLevel
  <2>2. CASE v \in Leaves(InnerTypes)
    <3>1. RubyToC(ToCAt[d - 1], v) \in CLeaves
      <4>1. v \in RubyLeaves /\ v[1] \in {"int", "str", "sym", "float", "obj"}
        BY <2>2, RubyLeafTypes DEF Leaves, InnerTypes
      <4>2. Half \in Nat
        BY ConversionAssumption
      <4>3. CASE v[1] = "int"
        <5>1. v \in {"int"} \X (-Half..Half - 1)
          BY <4>1, <4>3 DEF RubyLeaves, Fixnums, Texts, Nil
        <5>2. -Half..Half - 1 \subseteq -2 * Half..2 * Half - 1
          BY <4>2
        <5>3. v \in CLeaves
          BY <5>1, <5>2 DEF CLeaves
        <5> QED
          BY <4>3, <5>3 DEF RubyToC
      <4>4. CASE v[1] # "int"
        <5>1. \/ v[1] \in {"str", "sym"} /\ v[2] \in Names /\ v = <<v[1], v[2]>>
              \/ v[1] \in {"float", "obj"} /\ v[2] \in Contents
          BY <4>1, <4>4 DEF RubyLeaves, Fixnums, Texts, Nil
        <5> QED
          BY <5>1 DEF RubyToC, CLeaves, Strings, Dump
      <4> QED
        BY <4>3, <4>4
    <3> QED
      BY <2>1, <3>1, CMade DEF CValues
  <2>3. CASE d # 0 /\ v[1] = "ary" /\ v[2] \in Seq(InnerValues[d - 1])
    <3> DEFINE n == Len(v[2])
               s == [i \in DOMAIN v[2] |-> ToCAt[d - 1][v[2][i]]]
    <3>1. n \in Nat /\ DOMAIN v[2] = 1..n /\ \A i \in 1..n : v[2][i] \in InnerValues[d - 1]
      BY <2>3, SeqParts
    <3>2. \A x \in InnerValues[d - 1] : ToCAt[d - 1][x] \in CValues[d - 1]
      BY <1>1, <2>3
    <3>3. s \in [1..n -> CValues[d - 1]]
      BY <3>1, <3>2
    <3>4. s \in Seq(CValues[d - 1])
      <4> HIDE DEF s, n
      <4> QED
        BY <3>1, <3>3, SeqMade
    <3>5. RubyToC(ToCAt[d - 1], v) = <<"list", s>>
      BY <2>3 DEF RubyToC
    <3> QED
      BY <2>1, <2>3, <3>4, <3>5, CMade DEF CValues
  <2>4. CASE d # 0 /\ v[1] = "hash" /\ v[2] \in Seq(NamedKeys \X InnerValues[d - 1])
    <3>1. \A x \in InnerValues[d - 1] : ToCAt[d - 1][x] \in CValues[d - 1]
      BY <1>1, <2>4
    <3>2. HashToMap(ToCAt[d - 1], v[2]) \in Maps(Strings, CValues[d - 1])
      BY <2>4, <3>1, HashToMapType
    <3>3. Strings \subseteq CLeaves
      BY DEF CLeaves
    <3>4. HashToMap(ToCAt[d - 1], v[2]) \in Maps(CLeaves, CValues[d - 1])
      BY <3>2, <3>3, MapsGrow
    <3>5. RubyToC(ToCAt[d - 1], v) = <<"map", HashToMap(ToCAt[d - 1], v[2])>>
      BY <2>4 DEF RubyToC
    <3> QED
      BY <2>1, <2>4, <3>4, <3>5, CMade DEF CValues
  <2> QED
    BY <2>2, <2>3, <2>4, InnerShape
<1>2. 0 \in P
  BY <1>1, Bottom
<1>3. ASSUME NEW d \in Depths \ {0}, d - 1 \in P PROVE d \in P
  BY <1>1, <1>3
<1>4. P = Depths
  <2> HIDE DEF P
  <2> QED
    BY <1>2, <1>3, DepthInduction DEF P
<1> QED
  BY <1>4

-----------------------------------------------------------------------------
(* From C to Ruby, and there and back                                         *)

\* A Fixnum has the bits that are left
LEMMA FixFixnum ==
  ASSUME NEW n \in -Half..Half - 1
  PROVE  Fix(n) = n
<1> DEFINE w == 2 * Half
           k == n + Half
<1>1. Half \in Nat \ {0}
  BY ConversionAssumption
<1>2. w \in Nat \ {0} /\ k \in 0..w - 1
  BY <1>1
<1>3. k % w = k
  <2> HIDE DEF w, k
  <2> QED
    BY <1>2
<1> QED
  BY <1>1, <1>3 DEF Fix

LEMMA CIsCopied ==
  ASSUME NEW d \in Depths
  PROVE  CValues[d] \subseteq CopiedValues[d]
BY CGrows DEF CValues, CopiedValues

\* Of the entries for a name the last one counts, as the documentation has it
LEMMA NormalLast ==
  ASSUME NEW S, NEW pairs \in Seq(S), NEW n \in NamesOf(pairs, DOMAIN pairs)
  PROVE  LastWith(pairs, DOMAIN pairs, n)
           = CHOOSE i \in DOMAIN pairs :
               KeyName(pairs[i][1]) = n /\ \A j \in i + 1..Len(pairs) : ~(KeyName(pairs[j][1]) = n)
<1> DEFINE l == LastWith(pairs, DOMAIN pairs, n)
           Is(i) == KeyName(pairs[i][1]) = n /\ \A j \in i + 1..Len(pairs) : ~(KeyName(pairs[j][1]) = n)
<1>1. Len(pairs) \in Nat /\ DOMAIN pairs = 1..Len(pairs)
  BY SeqParts
<1>2. /\ l \in DOMAIN pairs /\ KeyName(pairs[l][1]) = n
      /\ \A j \in DOMAIN pairs : KeyName(pairs[j][1]) = n => j <= l
  BY LastOne
<1> HIDE DEF l
<1>3. Is(l)
  BY <1>1, <1>2
<1>4. ASSUME NEW i \in DOMAIN pairs, Is(i) PROVE i = l
  BY <1>1, <1>2, <1>4
<1>5. l = CHOOSE i \in DOMAIN pairs : Is(i)
  <2> HIDE DEF Is
  <2> QED
    BY <1>2, <1>3, <1>4
<1> QED
  BY <1>5 DEF l

\* A get gives what the documentation makes of the value
LEMMA ThereAndBack ==
  \A d \in Depths : \A v \in InnerValues[d] : ToRubyAt[d][ToCAt[d][v]] = NormalAt[d][v]
<1> DEFINE P == {d \in Depths : \A v \in InnerValues[d] : ToRubyAt[d][ToCAt[d][v]] = NormalAt[d][v]}
<1>1. ASSUME NEW d \in Depths, d # 0 => d - 1 \in P, NEW v \in InnerValues[d]
      PROVE  ToRubyAt[d][ToCAt[d][v]] = NormalAt[d][v]
  <2> DEFINE c == ToCAt[d][v]
  <2>1. c = RubyToC(ToCAt[d - 1], v) /\ NormalAt[d][v] = NormalOf(NormalAt[d - 1], v)
    BY InnerIsValue, ToCLevel, NormalLevel
  <2>2. c \in CopiedValues[d]
    BY ToCType, CIsCopied
  <2>3. ToRubyAt[d][c] = CToRuby(ToRubyAt[d - 1], c)
    BY <2>2, ToRubyLevel
  <2> HIDE DEF c
  <2>4. CASE v \in Leaves(InnerTypes)
    <3>1. v = <<v[1], v[2]>> /\ v[1] \in {"int", "str", "sym", "float", "obj"} /\ v \in RubyLeaves
      BY <2>4, RubyLeafTypes DEF Leaves, InnerTypes
    <3>2. CASE v[1] = "int"
      <4>1. v \in {"int"} \X (-Half..Half - 1)
        BY <3>1, <3>2 DEF RubyLeaves, Fixnums, Texts, Nil
      <4>2. Fix(v[2]) = v[2]
        BY <4>1, FixFixnum
      <4>3. c = v
        BY <2>1, <3>2 DEF RubyToC
      <4>4. CToRuby(ToRubyAt[d - 1], c) = <<"int", v[2]>>
        BY <3>2, <4>2, <4>3 DEF CToRuby
      <4>5. NormalOf(NormalAt[d - 1], v) = v
        BY <3>2 DEF NormalOf
      <4> QED
        BY <2>1, <2>3, <3>1, <3>2, <4>4, <4>5 DEF c
    <3>3. CASE v[1] \in {"str", "sym"}
      <4>1. c = <<"str", v[2]>>
        BY <2>1, <3>1, <3>3 DEF RubyToC
      <4>2. CToRuby(ToRubyAt[d - 1], c) = c
        BY <4>1 DEF CToRuby
      <4>3. NormalOf(NormalAt[d - 1], v) = <<"str", v[2]>>
        BY <3>1, <3>3 DEF NormalOf
      <4> QED
        BY <2>1, <2>3, <4>1, <4>2, <4>3 DEF c
    <3>4. CASE v[1] \in {"float", "obj"}
      <4>1. c = <<IF v[1] = "float" THEN "dbl" ELSE "bytes", v[2]>>
        BY <2>1, <3>1, <3>4 DEF RubyToC, Dump
      <4>2. CToRuby(ToRubyAt[d - 1], c) = <<v[1], v[2]>>
        BY <3>4, <4>1 DEF CToRuby, Load
      <4>3. NormalOf(NormalAt[d - 1], v) = v
        BY <3>1, <3>4 DEF NormalOf
      <4> QED
        BY <2>1, <2>3, <3>1, <4>2, <4>3 DEF c
    <3> QED
      BY <3>1, <3>2, <3>3, <3>4
  <2>5. CASE d # 0 /\ v[1] = "ary" /\ v[2] \in Seq(InnerValues[d - 1])
    <3> DEFINE s == [i \in DOMAIN v[2] |-> ToCAt[d - 1][v[2][i]]]
    <3>1. \A i \in DOMAIN v[2] : ToRubyAt[d - 1][s[i]] = NormalAt[d - 1][v[2][i]]
      <4>1. \A i \in DOMAIN v[2] : v[2][i] \in InnerValues[d - 1]
        BY <2>5, SeqParts
      <4> QED
        BY <1>1, <2>5, <4>1
    <3>2. c = <<"list", s>>
      BY <2>1, <2>5 DEF RubyToC
    <3>3. DOMAIN s = DOMAIN v[2]
      OBVIOUS
    <3> HIDE DEF s
    <3>4. CToRuby(ToRubyAt[d - 1], c) = <<"ary", [i \in DOMAIN v[2] |-> ToRubyAt[d - 1][s[i]]]>>
      BY <3>2, <3>3 DEF CToRuby
    <3>5. NormalOf(NormalAt[d - 1], v) = <<"ary", [i \in DOMAIN v[2] |-> NormalAt[d - 1][v[2][i]]]>>
      BY <2>5 DEF NormalOf
    <3> QED
      BY <2>1, <2>3, <3>1, <3>4, <3>5 DEF c
  <2>6. CASE d # 0 /\ v[1] = "hash" /\ v[2] \in Seq(NamedKeys \X InnerValues[d - 1])
    <3> DEFINE names == NamesOf(v[2], DOMAIN v[2])
               value(n) == v[2][LastWith(v[2], DOMAIN v[2], n)][2]
               m == HashToMap(ToCAt[d - 1], v[2])
               A == {<<p[1], ToRubyAt[d - 1][p[2]]>> : p \in m}
               B == {<< <<"str", n>>, NormalAt[d - 1][value(n)]>> : n \in names}
    <3>1. m = {<< <<"str", n>>, ToCAt[d - 1][value(n)]>> : n \in names}
      BY DEF HashToMap, MapKey
    <3>2. ASSUME NEW n \in names PROVE ToRubyAt[d - 1][ToCAt[d - 1][value(n)]] = NormalAt[d - 1][value(n)]
      <4> DEFINE K == NamedKeys
                 V == InnerValues[d - 1]
                 pairs == v[2]
      <4>1. pairs \in Seq(K \X V) /\ n \in NamesOf(pairs, DOMAIN pairs)
        BY <2>6
      <4> HIDE DEF K, V, pairs
      <4>2. pairs[LastWith(pairs, DOMAIN pairs, n)][2] \in V
        BY <4>1, Entries
      <4>3. value(n) \in InnerValues[d - 1]
        BY <4>2 DEF V, pairs
      <4> QED
        BY <1>1, <2>6, <4>3
    <3>3. A = B
      <4> HIDE DEF m, names, value
      <4>1. ASSUME NEW p \in m PROVE <<p[1], ToRubyAt[d - 1][p[2]]>> \in B
        <5>1. PICK n \in names : p = << <<"str", n>>, ToCAt[d - 1][value(n)]>>
          BY <3>1
        <5> QED
          BY <3>2, <5>1
      <4>2. ASSUME NEW n \in names PROVE << <<"str", n>>, NormalAt[d - 1][value(n)]>> \in A
        <5> DEFINE p == << <<"str", n>>, ToCAt[d - 1][value(n)]>>
        <5>1. p \in m /\ p[1] = <<"str", n>> /\ p[2] = ToCAt[d - 1][value(n)]
          BY <3>1
        <5> HIDE DEF p
        <5>2. <<p[1], ToRubyAt[d - 1][p[2]]>> \in A
          BY <5>1
        <5> QED
          BY <3>2, <5>1, <5>2
      <4> QED
        BY <4>1, <4>2
    <3>4. c = <<"map", m>>
      BY <2>1, <2>6 DEF RubyToC
    <3>5. ~\E p \in m : p[1][1] # "str"
      BY <3>1
    <3>6. CToRuby(ToRubyAt[d - 1], c) = <<"hash", SetToSeq(A)>>
      <4> HIDE DEF m
      <4> QED
        BY <3>4, <3>5 DEF CToRuby, MapToHash
    <3>7. NormalOf(NormalAt[d - 1], v) = <<"hash", SetToSeq(B)>>
      <4> DEFINE last(n) == CHOOSE i \in DOMAIN v[2] :
                              /\ KeyName(v[2][i][1]) = n
                              /\ \A j \in i + 1..Len(v[2]) : ~(KeyName(v[2][j][1]) = n)
      <4>1. ASSUME NEW n \in names PROVE last(n) = LastWith(v[2], DOMAIN v[2], n)
        BY <2>6, NormalLast
      <4>2. NormalOf(NormalAt[d - 1], v)
              = <<"hash", SetToSeq({<< <<"str", n>>, NormalAt[d - 1][v[2][last(n)][2]]>> : n \in names})>>
        BY <2>6 DEF NormalOf, NamesOf
      <4> HIDE DEF last, names
      <4>3. {<< <<"str", n>>, NormalAt[d - 1][v[2][last(n)][2]]>> : n \in names} = B
        BY <4>1
      <4> QED
        BY <4>2, <4>3
    <3> QED
      BY <2>1, <2>3, <3>3, <3>6, <3>7 DEF c
  <2> QED
    BY <2>4, <2>5, <2>6, InnerShape
<1>2. 0 \in P
  BY <1>1, Bottom
<1>3. ASSUME NEW d \in Depths \ {0}, d - 1 \in P PROVE d \in P
  BY <1>1, <1>3
<1>4. P = Depths
  <2> HIDE DEF P
  <2> QED
    BY <1>2, <1>3, DepthInduction DEF P
<1> QED
  BY <1>4

-----------------------------------------------------------------------------
(* The order in which the pairs of a map come is one with each of them once   *)

LEMMA Listed ==
  ASSUME NEW S, IsFiniteSet(S)
  PROVE  /\ SetToSeq(S) \in Seq(S)
         /\ \A i, j \in DOMAIN SetToSeq(S) : SetToSeq(S)[i] = SetToSeq(S)[j] => i = j
         /\ \A x \in S : \E i \in DOMAIN SetToSeq(S) : SetToSeq(S)[i] = x
<1> DEFINE n == Cardinality(S)
           s == SetToSeq(S)
<1>1. n \in Nat /\ ExistsBijection(1..n, S)
  BY FS_CardinalityType
<1>2. s = CHOOSE f \in [1..n -> S] : IsInjective(f)
  BY DEF SetToSeq
<1> HIDE DEF n, s
<1>3. PICK f : f \in Bijection(1..n, S)
  BY <1>1 DEF ExistsBijection
<1>4. f \in [1..n -> S] /\ IsInjective(f)
  BY <1>3 DEF Bijection, Injection, IsInjective
<1>5. s \in [1..n -> S] /\ IsInjective(s)
  BY <1>2, <1>4
<1>6. s \in Injection(1..n, S)
  BY <1>5 DEF Injection, IsInjective
<1>7. IsFiniteSet(1..n) /\ Cardinality(1..n) = n
  BY <1>1, FS_Interval
<1>8. s \in Surjection(1..n, S)
  BY <1>6, <1>7, FS_Injection DEF n
<1>9. s \in Seq(S)
  BY <1>1, <1>5, SeqMade
<1>10. \A x \in S : \E i \in DOMAIN s : s[i] = x
  BY <1>5, <1>8 DEF Surjection
<1> QED
  BY <1>5, <1>9, <1>10 DEF s, IsInjective

LEMMA ListedIn ==
  ASSUME NEW S, IsFiniteSet(S), NEW T, S \subseteq T
  PROVE  SetToSeq(S) \in Seq(T)
BY Listed, SeqMonotonic

LEMMA NormalType ==
  \A d \in Depths : \A v \in InnerValues[d] : NormalAt[d][v] \in RubyValues[d]
<1> DEFINE P == {d \in Depths : \A v \in InnerValues[d] : NormalAt[d][v] \in RubyValues[d]}
<1>1. ASSUME NEW d \in Depths, d # 0 => d - 1 \in P, NEW v \in InnerValues[d]
      PROVE  NormalAt[d][v] \in RubyValues[d]
  <2>1. NormalAt[d][v] = NormalOf(NormalAt[d - 1], v)
    BY InnerIsValue, NormalLevel
  <2>2. CASE v \in Leaves(InnerTypes)
    <3>1. v = <<v[1], v[2]>> /\ v \in RubyLeaves /\ v[1] \notin {"ary", "hash"}
      BY <2>2, RubyLeafTypes DEF Leaves
    <3>2. CASE v[1] = "sym"
      <4>1. v[2] \in Names
        BY <3>1, <3>2 DEF RubyLeaves, Fixnums, Texts, Nil
      <4>2. <<"str", v[2]>> \in RubyLeaves
        BY <4>1 DEF RubyLeaves, Texts
      <4>3. NormalOf(NormalAt[d - 1], v) = <<"str", v[2]>>
        BY <3>2 DEF NormalOf
      <4> QED
        BY <2>1, <4>2, <4>3, RubyMade DEF RubyValues
    <3>3. CASE v[1] # "sym"
      <4>1. NormalOf(NormalAt[d - 1], v) = v
        BY <3>1, <3>3 DEF NormalOf
      <4> QED
        BY <2>1, <3>1, <4>1, RubyMade DEF RubyValues
    <3> QED
      BY <3>2, <3>3
  <2>3. CASE d # 0 /\ v[1] = "ary" /\ v[2] \in Seq(InnerValues[d - 1])
    <3> DEFINE n == Len(v[2])
               s == [i \in DOMAIN v[2] |-> NormalAt[d - 1][v[2][i]]]
    <3>1. n \in Nat /\ DOMAIN v[2] = 1..n /\ \A i \in 1..n : v[2][i] \in InnerValues[d - 1]
      BY <2>3, SeqParts
    <3>2. \A x \in InnerValues[d - 1] : NormalAt[d - 1][x] \in RubyValues[d - 1]
      BY <1>1, <2>3
    <3>3. s \in [1..n -> RubyValues[d - 1]]
      BY <3>1, <3>2
    <3>4. s \in Seq(RubyValues[d - 1])
      <4> HIDE DEF s, n
      <4> QED
        BY <3>1, <3>3, SeqMade
    <3>5. NormalOf(NormalAt[d - 1], v) = <<"ary", s>>
      BY <2>3 DEF NormalOf
    <3> QED
      BY <2>1, <2>3, <3>4, <3>5, RubyMade DEF RubyValues
  <2>4. CASE d # 0 /\ v[1] = "hash" /\ v[2] \in Seq(NamedKeys \X InnerValues[d - 1])
    <3> DEFINE K == NamedKeys
               V == InnerValues[d - 1]
               pairs == v[2]
               names == NamesOf(pairs, DOMAIN pairs)
               last(n) == CHOOSE i \in DOMAIN pairs :
                            /\ KeyName(pairs[i][1]) = n
                            /\ \A j \in i + 1..Len(pairs) : ~(KeyName(pairs[j][1]) = n)
               f == [n \in names |-> << <<"str", n>>, NormalAt[d - 1][pairs[last(n)][2]]>>]
               B == {<< <<"str", n>>, NormalAt[d - 1][pairs[last(n)][2]]>> : n \in names}
    <3>1. NormalOf(NormalAt[d - 1], v) = <<"hash", SetToSeq(B)>>
      BY <2>4 DEF NormalOf, NamesOf
    <3>2. pairs \in Seq(K \X V) /\ \A x \in V : NormalAt[d - 1][x] \in RubyValues[d - 1]
      BY <1>1, <2>4
    <3>3. \A k \in K : KeyName(k) \in Names
      BY KeyNames DEF NamedKeys, Keys, Fixnums, Texts
    <3> HIDE DEF K, V, pairs
    <3>4. ASSUME NEW n \in names
          PROVE  n \in Names /\ NormalAt[d - 1][pairs[last(n)][2]] \in RubyValues[d - 1]
      <4> DEFINE l == LastWith(pairs, DOMAIN pairs, n)
      <4>1. l = last(n)
        BY <3>2, NormalLast
      <4> HIDE DEF last
      <4>2. pairs[l][1] \in K /\ pairs[l][2] \in V
        BY <3>2, Entries
      <4>3. KeyName(pairs[l][1]) = n
        BY <3>2, LastOne
      <4> HIDE DEF l
      <4> QED
        BY <3>2, <3>3, <4>1, <4>2, <4>3
    <3>5. IsFiniteSet(names)
      BY <3>2, NamesFinite
    <3> HIDE DEF names, last
    <3>6. DOMAIN f = names /\ {f[n] : n \in DOMAIN f} = B
      OBVIOUS
    <3>7. B \subseteq Keys \X RubyValues[d - 1]
      <4>1. \A n \in Names : <<"str", n>> \in Keys
        BY DEF Keys, Texts
      <4> QED
        BY <3>4, <4>1
    <3>8. IsFiniteSet(B)
      <4> HIDE DEF f, B
      <4> QED
        BY <3>5, <3>6, ImageFinite
    <3>9. SetToSeq(B) \in Seq(Keys \X RubyValues[d - 1])
      <4> HIDE DEF B
      <4> QED
        BY <3>7, <3>8, ListedIn
    <3> QED
      BY <2>1, <2>4, <3>1, <3>9, RubyMade DEF RubyValues
  <2> QED
    BY <2>2, <2>3, <2>4, InnerShape
<1>2. 0 \in P
  BY <1>1, Bottom
<1>3. ASSUME NEW d \in Depths \ {0}, d - 1 \in P PROVE d \in P
  BY <1>1, <1>3
<1>4. P = Depths
  <2> HIDE DEF P
  <2> QED
    BY <1>2, <1>3, DepthInduction DEF P
<1> QED
  BY <1>4

-----------------------------------------------------------------------------
(* Values that are carried over                                               *)

LEMMA PortableShape ==
  ASSUME NEW d \in Depths, NEW c \in PortableValues[d]
  PROVE  \/ c \in PortableLeaves
         \/ /\ d # 0
            /\ c = <<c[1], c[2]>>
            /\ \/ c[1] = "list" /\ c[2] \in Seq(PortableValues[d - 1])
               \/ c[1] = "map" /\ c[2] \in Maps(Strings, PortableValues[d - 1])
BY CShape DEF PortableValues

LEMMA PortableIsC ==
  ASSUME NEW d \in Depths
  PROVE  PortableValues[d] \subseteq CValues[d]
<1>1. Half \in Nat
  BY ConversionAssumption
<1>2. -Half..Half - 1 \subseteq -2 * Half..2 * Half - 1
  BY <1>1
<1>3. PortableLeaves \subseteq CLeaves /\ Strings \subseteq CLeaves
  BY <1>2 DEF PortableLeaves, CLeaves, Strings, Fixnums
<1> QED
  BY <1>3, CGrows DEF PortableValues, CValues

\* R makes values of rubies, and C the same values of these
Mirrors(values, rubies, R, C) == \A x \in values : R[x] \in rubies /\ C[R[x]] = x

Converted(m, R) == {<<p[1], R[p[2]]>> : p \in m}

\* Read and sent again, a map is the same if its values are
LEMMA MapBack ==
  ASSUME NEW values, NEW m \in Maps(Strings, values), NEW rubies, NEW R, NEW C,
         Mirrors(values, rubies, R, C),
         NEW pairs, pairs = SetToSeq(Converted(m, R))
  PROVE  /\ pairs \in Seq(NamedKeys \X rubies)
         /\ HashToMap(C, pairs) = m
<1> DEFINE E == Converted(m, R)
<1>1. E = {<<p[1], R[p[2]]>> : p \in m} /\ \A x \in values : R[x] \in rubies /\ C[R[x]] = x
  BY DEF Converted, Mirrors
<1> HIDE DEF E
<1>2. /\ \A p \in m : p = <<p[1], p[2]>> /\ p[2] \in values
                      /\ p[1] = <<"str", p[1][2]>> /\ p[1][2] \in Names
      /\ \A p, q \in m : p[1] = q[1] => p = q
      /\ IsFiniteSet(m)
  BY DEF Maps, Strings
<1>3. IsFiniteSet(E)
  <2> DEFINE f == [p \in m |-> <<p[1], R[p[2]]>>]
  <2>1. DOMAIN f = m /\ {f[p] : p \in DOMAIN f} = E
    BY <1>1
  <2> HIDE DEF f
  <2> QED
    BY <1>2, <2>1, ImageFinite
<1>4. \A n \in Names : <<"str", n>> \in NamedKeys
  BY DEF NamedKeys, Keys, Texts, Nil
<1>5. E \subseteq NamedKeys \X rubies
  BY <1>1, <1>2, <1>4
<1>6. \A e \in E : \E p \in m : e = <<p[1], R[p[2]]>>
  BY <1>1
<1>7. \A p \in m : <<p[1], R[p[2]]>> \in E
  BY <1>1
<1>8. pairs = SetToSeq(E)
  BY DEF E
<1>9. pairs \in Seq(E) /\ \A e \in E : \E i \in DOMAIN pairs : pairs[i] = e
  <2>1. SetToSeq(E) \in Seq(E)
    BY <1>3, Listed
  <2>2. ASSUME NEW e \in E PROVE \E i \in DOMAIN pairs : pairs[i] = e
    BY ONLY <1>3, <1>8, <2>2, Listed
  <2> QED
    BY <1>8, <2>1, <2>2
<1>10. pairs \in Seq(NamedKeys \X rubies)
  BY <1>3, <1>5, <1>8, ListedIn
<1> DEFINE names == NamesOf(pairs, DOMAIN pairs)
           last(n) == LastWith(pairs, DOMAIN pairs, n)
           entry(n) == << <<"str", n>>, C[pairs[last(n)][2]]>>
<1>11. \A p \in m : KeyName(p[1]) = p[1][2]
  BY <1>2 DEF KeyName
<1>12. ASSUME NEW n \in names PROVE \E p \in m : p[1] = <<"str", n>> /\ entry(n) = p
  <2>1. last(n) \in DOMAIN pairs /\ KeyName(pairs[last(n)][1]) = n
    BY <1>9, LastOne
  <2>2. pairs[last(n)] \in E
    BY <1>9, <2>1, SeqParts
  <2>3. PICK p \in m : pairs[last(n)] = <<p[1], R[p[2]]>>
    BY <1>6, <2>2
  <2>4. p[1][2] = n
    BY <1>11, <2>1, <2>3
  <2>5. p[1] = <<"str", n>> /\ p = <<p[1], p[2]>>
    BY <1>2, <2>4
  <2>6. C[pairs[last(n)][2]] = p[2]
    BY <1>1, <1>2, <2>3
  <2> QED
    BY <2>5, <2>6
<1>13. ASSUME NEW p \in m PROVE \E n \in names : entry(n) = p
  <2>1. PICK i \in DOMAIN pairs : pairs[i] = <<p[1], R[p[2]]>>
    BY <1>7, <1>9
  <2>2. KeyName(pairs[i][1]) = p[1][2]
    BY <1>11, <2>1
  <2>3. p[1][2] \in names
    BY <2>1, <2>2 DEF NamesOf
  <2>4. PICK q \in m : q[1] = <<"str", p[1][2]>> /\ entry(p[1][2]) = q
    BY <1>12, <2>3
  <2>5. q = p
    BY <1>2, <2>4
  <2> QED
    BY <2>3, <2>4, <2>5
<1>14. HashToMap(C, pairs) = {entry(n) : n \in names}
  BY DEF HashToMap, MapKey
<1> HIDE DEF names, entry
<1>15. HashToMap(C, pairs) = m
  <2>1. ASSUME NEW x \in {entry(n) : n \in names} PROVE x \in m
    BY <1>12
  <2>2. ASSUME NEW x \in m PROVE x \in {entry(n) : n \in names}
    BY <1>13
  <2> QED
    BY <1>14, <2>1, <2>2
<1> QED
  BY <1>10, <1>15

\* A portable value becomes one that is converted back to it
LEMMA BackAndThere ==
  \A d \in Depths : \A c \in PortableValues[d] :
    ToRubyAt[d][c] \in InnerValues[d] /\ ToCAt[d][ToRubyAt[d][c]] = c
<1> DEFINE Back(d, c) == ToRubyAt[d][c] \in InnerValues[d] /\ ToCAt[d][ToRubyAt[d][c]] = c
           P == {d \in Depths : \A c \in PortableValues[d] : Back(d, c)}
<1>1. ASSUME NEW d \in Depths, d # 0 => d - 1 \in P, NEW c \in PortableValues[d]
      PROVE  Back(d, c)
  <2> DEFINE v == ToRubyAt[d][c]
  <2>1. c \in CopiedValues[d]
    BY PortableIsC, CIsCopied
  <2>2. v = CToRuby(ToRubyAt[d - 1], c)
    BY <2>1, ToRubyLevel
  <2>3. v \in InnerValues[d] => ToCAt[d][v] = RubyToC(ToCAt[d - 1], v)
    BY InnerIsValue, ToCLevel
  <2> HIDE DEF v
  <2>4. SUFFICES v \in InnerValues[d] /\ RubyToC(ToCAt[d - 1], v) = c
    BY <2>3 DEF v
  <2>5. CASE c \in PortableLeaves
    <3>1. v \in Leaves(InnerTypes) /\ RubyToC(ToCAt[d - 1], v) = c
      <4>1. CASE c \in Fixnums
        <5>1. c = <<"int", c[2]>> /\ Fix(c[2]) = c[2]
          BY <4>1, FixFixnum DEF Fixnums
        <5>2. v = c
          BY <2>2, <5>1 DEF CToRuby
        <5>3. v \in Leaves(InnerTypes)
          BY <4>1, <5>1, <5>2 DEF Leaves, InnerTypes, RubyLeaves
        <5>4. v[1] = "int"
          BY <5>1, <5>2
        <5>5. RubyToC(ToCAt[d - 1], v) = v
          BY <5>4 DEF RubyToC
        <5> QED
          BY <5>2, <5>3, <5>5
      <4>2. CASE c \in Strings
        <5>1. c = <<"str", c[2]>> /\ c[2] \in Names
          BY <4>2 DEF Strings
        <5>2. v = c
          BY <2>2, <5>1 DEF CToRuby
        <5>3. v \in Leaves(InnerTypes)
          BY <5>1, <5>2 DEF Leaves, InnerTypes, RubyLeaves, Texts
        <5>4. v[1] = "str"
          BY <5>1, <5>2
        <5>5. RubyToC(ToCAt[d - 1], v) = v
          BY <5>4 DEF RubyToC
        <5> QED
          BY <5>2, <5>3, <5>5
      <4>3. CASE c \in {"dbl"} \X Contents
        <5>1. c = <<"dbl", c[2]>> /\ c[2] \in Contents
          BY <4>3
        <5>2. v = <<"float", c[2]>>
          BY <2>2, <5>1 DEF CToRuby
        <5>3. v \in Leaves(InnerTypes)
          BY <5>1, <5>2 DEF Leaves, InnerTypes, RubyLeaves
        <5>4. RubyToC(ToCAt[d - 1], v) = <<"dbl", c[2]>>
          BY <5>2 DEF RubyToC
        <5> QED
          BY <5>1, <5>3, <5>4
      <4>4. CASE c \in {"bytes"} \X Contents
        <5>1. c = <<"bytes", c[2]>> /\ c[2] \in Contents
          BY <4>4
        <5>2. v = <<"obj", c[2]>>
          BY <2>2, <5>1 DEF CToRuby, Load
        <5>3. v \in Leaves(InnerTypes)
          BY <5>1, <5>2 DEF Leaves, InnerTypes, RubyLeaves
        <5>4. RubyToC(ToCAt[d - 1], v) = <<"bytes", c[2]>>
          BY <5>2 DEF RubyToC, Dump
        <5> QED
          BY <5>1, <5>3, <5>4
      <4> QED
        BY <2>5, <4>1, <4>2, <4>3, <4>4 DEF PortableLeaves
    <3> QED
      BY <3>1, RubyMade DEF InnerValues
  <2>6. CASE d # 0 /\ c[1] = "list" /\ c[2] \in Seq(PortableValues[d - 1]) /\ c = <<c[1], c[2]>>
    <3> DEFINE n == Len(c[2])
               s == [i \in DOMAIN c[2] |-> ToRubyAt[d - 1][c[2][i]]]
    <3>1. n \in Nat /\ DOMAIN c[2] = 1..n /\ \A i \in 1..n : c[2][i] \in PortableValues[d - 1]
      BY <2>6, SeqParts
    <3>2. \A x \in PortableValues[d - 1] : Back(d - 1, x)
      BY <1>1, <2>6
    <3>3. s \in [1..n -> InnerValues[d - 1]]
      BY <3>1, <3>2
    <3>4. s \in Seq(InnerValues[d - 1])
      <4> HIDE DEF s, n
      <4> QED
        BY <3>1, <3>3, SeqMade
    <3>5. v = <<"ary", s>>
      BY <2>2, <2>6 DEF CToRuby
    <3>6. \A i \in DOMAIN c[2] : ToCAt[d - 1][s[i]] = c[2][i]
      BY <3>1, <3>2
    <3>7. DOMAIN s = DOMAIN c[2] /\ c[2] = [i \in DOMAIN c[2] |-> c[2][i]]
      BY <2>6
    <3> HIDE DEF s, n
    <3>8. RubyToC(ToCAt[d - 1], v) = <<"list", [i \in DOMAIN c[2] |-> ToCAt[d - 1][s[i]]]>>
      BY <3>5, <3>7 DEF RubyToC
    <3>9. [i \in DOMAIN c[2] |-> ToCAt[d - 1][s[i]]] = c[2]
      BY <3>6, <3>7
    <3>10. v \in InnerValues[d]
      BY <2>6, <3>4, <3>5, RubyMade DEF InnerValues
    <3> QED
      BY <2>6, <3>8, <3>9, <3>10
  <2>7. CASE /\ d # 0 /\ c[1] = "map" /\ c = <<c[1], c[2]>>
             /\ c[2] \in Maps(Strings, PortableValues[d - 1])
    <3> DEFINE R == ToRubyAt[d - 1]
               C == ToCAt[d - 1]
               pairs == SetToSeq(Converted(c[2], R))
    <3>1. \A x \in PortableValues[d - 1] : R[x] \in InnerValues[d - 1] /\ C[R[x]] = x
      BY <1>1, <2>7
    <3>2. pairs \in Seq(NamedKeys \X InnerValues[d - 1]) /\ HashToMap(C, pairs) = c[2]
      <4> DEFINE values == PortableValues[d - 1]
                 rubies == InnerValues[d - 1]
                 m == c[2]
      <4>1. m \in Maps(Strings, values) /\ Mirrors(values, rubies, R, C)
        BY <2>7, <3>1 DEF Mirrors
      <4>2. pairs = SetToSeq(Converted(m, R))
        OBVIOUS
      <4> HIDE DEF R, C, pairs, values, rubies, m
      <4>3. pairs \in Seq(NamedKeys \X rubies) /\ HashToMap(C, pairs) = m
        BY <4>1, <4>2, MapBack
      <4> QED
        BY <4>3 DEF rubies, m
    <3>3. \A p \in c[2] : p[1][1] = "str"
      BY <2>7 DEF Maps, Strings
    <3>4. v = <<"hash", pairs>>
      BY <2>2, <2>7, <3>3 DEF CToRuby, MapToHash, Converted
    <3> HIDE DEF pairs
    <3>5. RubyToC(C, v) = <<"map", HashToMap(C, pairs)>>
      BY <3>4 DEF RubyToC
    <3>6. v \in InnerValues[d]
      BY <2>7, <3>2, <3>4, RubyMade DEF InnerValues
    <3> QED
      BY <2>7, <3>2, <3>5, <3>6
  <2> QED
    BY <2>5, <2>6, <2>7, PortableShape
<1>2. 0 \in P
  BY <1>1, Bottom
<1>3. ASSUME NEW d \in Depths \ {0}, d - 1 \in P PROVE d \in P
  BY <1>1, <1>3
<1>4. P = Depths
  <2> HIDE DEF P
  <2> QED
    BY <1>2, <1>3, DepthInduction DEF P
<1> QED
  BY <1>4

\* rb_copy_as_val gives a value that it knows as it is
LEMMA CopiesWhole ==
  \A d \in Depths : \A c \in WholeValues[d] : c \in CValues[d] /\ CopyAt[d][c] = c
<1> DEFINE P == {d \in Depths : \A c \in WholeValues[d] : c \in CValues[d] /\ CopyAt[d][c] = c}
<1>1. ASSUME NEW d \in Depths, d # 0 => d - 1 \in P, NEW c \in WholeValues[d]
      PROVE  c \in CValues[d] /\ CopyAt[d][c] = c
  <2>1. c \in CValues[d]
    <3>1. WholeLeaves \subseteq CLeaves
      BY DEF WholeLeaves
    <3> QED
      BY <3>1, CGrows DEF WholeValues, CValues
  <2>2. CopyAt[d][c] = CopyVal(CopyAt[d - 1], c)
    BY <2>1, CopyLevel
  <2>3. CASE c \in WholeLeaves
    <3>1. c[1] \in {"int", "dbl", "str", "geo"}
      BY <2>3 DEF WholeLeaves, CLeaves, Strings, Nil
    <3> QED
      BY <2>1, <2>2, <3>1 DEF CopyVal
  <2>4. CASE d # 0 /\ c = <<c[1], c[2]>> /\ c[1] = "list" /\ c[2] \in Seq(WholeValues[d - 1])
    <3>1. \A i \in DOMAIN c[2] : CopyAt[d - 1][c[2][i]] = c[2][i]
      BY <1>1, <2>4, SeqParts
    <3>2. CopyVal(CopyAt[d - 1], c) = <<"list", [i \in DOMAIN c[2] |-> CopyAt[d - 1][c[2][i]]]>>
      BY <2>4 DEF CopyVal
    <3>3. c[2] = [i \in DOMAIN c[2] |-> c[2][i]]
      BY <2>4
    <3>4. [i \in DOMAIN c[2] |-> CopyAt[d - 1][c[2][i]]] = c[2]
      BY <3>1, <3>3
    <3> QED
      BY <2>1, <2>2, <2>4, <3>2, <3>4
  <2>5. CASE d # 0 /\ c = <<c[1], c[2]>> /\ c[1] = "map" /\ c[2] \in Maps(CLeaves, WholeValues[d - 1])
    <3>1. \A p \in c[2] : p = <<p[1], p[2]>> /\ p[2] \in WholeValues[d - 1]
      BY <2>5 DEF Maps
    <3>2. \A p \in c[2] : <<p[1], CopyAt[d - 1][p[2]]>> = p
      BY <1>1, <2>5, <3>1
    <3>3. {<<p[1], CopyAt[d - 1][p[2]]>> : p \in c[2]} = c[2]
      BY <3>2
    <3>4. CopyVal(CopyAt[d - 1], c) = <<"map", {<<p[1], CopyAt[d - 1][p[2]]>> : p \in c[2]}>>
      BY <2>5 DEF CopyVal
    <3> QED
      BY <2>1, <2>2, <2>5, <3>3, <3>4
  <2>6. \/ c \in WholeLeaves
        \/ /\ d # 0
           /\ c = <<c[1], c[2]>>
           /\ \/ c[1] = "list" /\ c[2] \in Seq(WholeValues[d - 1])
              \/ c[1] = "map" /\ c[2] \in Maps(CLeaves, WholeValues[d - 1])
    BY CShape DEF WholeValues
  <2> QED
    BY <2>3, <2>4, <2>5, <2>6
<1>2. 0 \in P
  BY <1>1, Bottom
<1>3. ASSUME NEW d \in Depths \ {0}, d - 1 \in P PROVE d \in P
  BY <1>1, <1>3
<1>4. P = Depths
  <2> HIDE DEF P
  <2> QED
    BY <1>2, <1>3, DepthInduction DEF P
<1> QED
  BY <1>4

\* What is in a value that nests no deeper than d does not either
LEMMA InnerByDepth ==
  \A d \in Depths : \A e \in Depths : d <= e =>
    \A v \in InnerValues[e] : v \in RubyValues[d] => v \in InnerValues[d]
<1> DEFINE P == {d \in Depths : \A e \in Depths : d <= e =>
                   \A v \in InnerValues[e] : v \in RubyValues[d] => v \in InnerValues[d]}
<1>1. ASSUME NEW d \in Depths, d # 0 => d - 1 \in P, NEW e \in Depths, d <= e,
             NEW v \in InnerValues[e], v \in RubyValues[d]
      PROVE  v \in InnerValues[d]
  <2>1. \/ v \in RubyLeaves
        \/ /\ d # 0
           /\ v = <<v[1], v[2]>>
           /\ \/ v[1] = "ary" /\ v[2] \in Seq(RubyValues[d - 1])
              \/ v[1] = "hash" /\ v[2] \in Seq(Keys \X RubyValues[d - 1])
    BY <1>1, ValueShape
  <2>2. \/ v \in Leaves(InnerTypes)
        \/ /\ e # 0
           /\ v = <<v[1], v[2]>>
           /\ \/ v[1] = "ary" /\ v[2] \in Seq(InnerValues[e - 1])
              \/ v[1] = "hash" /\ v[2] \in Seq(NamedKeys \X InnerValues[e - 1])
    BY <1>1, InnerShape
  <2>3. \A x \in RubyLeaves : x[1] \notin {"ary", "hash"}
    BY RubyLeafTypes
  <2>4. CASE v \in Leaves(InnerTypes)
    BY <2>4, RubyMade DEF InnerValues
  <2>5. ASSUME d # 0, e # 0
        PROVE  \A x \in InnerValues[e - 1] : x \in RubyValues[d - 1] => x \in InnerValues[d - 1]
    <3>1. e - 1 \in Depths /\ d - 1 <= e - 1 /\ d - 1 \in P
      BY <1>1, <2>5, Below
    <3> QED
      BY <3>1
  <2>6. CASE d # 0 /\ e # 0 /\ v = <<v[1], v[2]>> /\ v[1] = "ary"
             /\ v[2] \in Seq(RubyValues[d - 1]) /\ v[2] \in Seq(InnerValues[e - 1])
    <3> DEFINE n == Len(v[2])
    <3>1. n \in Nat /\ DOMAIN v[2] = 1..n
          /\ \A i \in 1..n : v[2][i] \in RubyValues[d - 1] /\ v[2][i] \in InnerValues[e - 1]
      BY <2>6, SeqParts
    <3>2. v[2] \in [1..n -> InnerValues[d - 1]]
      <4>1. \A i \in 1..n : v[2][i] \in InnerValues[d - 1]
        BY <2>5, <2>6, <3>1
      <4>2. v[2] = [i \in 1..n |-> v[2][i]]
        BY <2>6, <3>1
      <4> QED
        BY <4>1, <4>2
    <3>3. v[2] \in Seq(InnerValues[d - 1])
      <4> HIDE DEF n
      <4> QED
        BY <3>1, <3>2, SeqMade
    <3> QED
      BY <2>6, <3>3, RubyMade DEF InnerValues
  <2>7. CASE d # 0 /\ e # 0 /\ v = <<v[1], v[2]>> /\ v[1] = "hash"
             /\ v[2] \in Seq(Keys \X RubyValues[d - 1]) /\ v[2] \in Seq(NamedKeys \X InnerValues[e - 1])
    <3> DEFINE n == Len(v[2])
    <3>1. n \in Nat /\ DOMAIN v[2] = 1..n
          /\ \A i \in 1..n : v[2][i] \in Keys \X RubyValues[d - 1] /\ v[2][i] \in NamedKeys \X InnerValues[e - 1]
      BY <2>7, SeqParts
    <3>2. v[2] \in [1..n -> NamedKeys \X InnerValues[d - 1]]
      <4>1. \A i \in 1..n : v[2][i] \in NamedKeys \X InnerValues[d - 1]
        BY <2>5, <2>7, <3>1
      <4>2. v[2] = [i \in 1..n |-> v[2][i]]
        BY <2>7, <3>1
      <4> QED
        BY <4>1, <4>2
    <3>3. v[2] \in Seq(NamedKeys \X InnerValues[d - 1])
      <4> HIDE DEF n
      <4> QED
        BY <3>1, <3>2, SeqMade
    <3> QED
      BY <2>7, <3>3, RubyMade DEF InnerValues
  <2>8. v \in Leaves(InnerTypes) \/ v[1] \in {"ary", "hash"}
    BY <2>2
  <2>9. v \in RubyLeaves => v \in Leaves(InnerTypes)
    BY <2>3, <2>8
  <2>10. v[1] = "ary" => v[1] # "hash"
    OBVIOUS
  <2> QED
    BY <2>1, <2>2, <2>4, <2>6, <2>7, <2>9, <2>10
<1>2. 0 \in P
  BY <1>1, Bottom
<1>3. ASSUME NEW d \in Depths \ {0}, d - 1 \in P PROVE d \in P
  BY <1>1, <1>3
<1>4. P = Depths
  <2> HIDE DEF P
  <2> QED
    BY <1>2, <1>3, DepthInduction DEF P
<1> QED
  BY <1>4

-----------------------------------------------------------------------------
(* What is put into a bin                                                     *)

Sendable(v) ==
  v \in RubyValues[MaxDepth] /\ Converts(v, BinTypes) /\ v[1] \notin {"nil", "data"}

LEMMA SendableShape ==
  ASSUME NEW v, Sendable(v)
  PROVE  v \in InnerValues[MaxDepth] \/ v \in {"geo"} \X Contents
<1>1. v[1] \in InnerTypes \cup {"geo"} /\ (v[1] \in {"ary", "hash"} => v \in InnerValues[MaxDepth])
  BY DEF Sendable, Converts, BinTypes
<1>2. v \in RubyLeaves \/ v[1] \in {"ary", "hash"}
  BY Bottom, ValueShape DEF Sendable
<1>3. CASE v \in RubyLeaves /\ v[1] = "geo"
  BY <1>3 DEF RubyLeaves, Fixnums, Texts, Nil
<1>4. CASE v \in RubyLeaves /\ v[1] \in InnerTypes
  <2>1. v \in Leaves(InnerTypes)
    BY <1>4 DEF Leaves
  <2> QED
    BY <2>1, Bottom, RubyMade DEF InnerValues
<1> QED
  BY <1>1, <1>2, <1>3, <1>4

LEMMA InnerNotNil ==
  ASSUME NEW v \in InnerValues[MaxDepth]
  PROVE  ToC(v) # Nil
<1>1. ToC(v) = RubyToC(ToCAt[MaxDepth - 1], v)
  BY Bottom, InnerIsValue, ToCLevel DEF ToC
<1>2. v[1] \in InnerTypes
  BY Bottom, InnerShape DEF Leaves, InnerTypes
<1>3. RubyToC(ToCAt[MaxDepth - 1], v)[1] # "nil"
  BY <1>2 DEF InnerTypes, RubyToC, Dump
<1> QED
  BY <1>1, <1>3 DEF Nil

\* It becomes a value of C, and comes back as documented, with nothing in it that
\* is read at a pointer to nothing
LEMMA SendableBack ==
  ASSUME NEW v, Sendable(v)
  PROVE  /\ ToC(v) \in CValues[MaxDepth] \ {Nil}
         /\ ToRuby(ToC(v)) = Normal(v)
         /\ Normal(v) \in RubyValues[MaxDepth]
<1>1. CASE v \in InnerValues[MaxDepth]
  BY <1>1, Bottom, ToCType, InnerNotNil, ThereAndBack, NormalType DEF ToC, ToRuby, Normal
<1>2. CASE v \in {"geo"} \X Contents
  <2>1. v[1] = "geo" /\ v = <<"geo", v[2]>> /\ v \in CLeaves /\ v # Nil
    BY <1>2 DEF CLeaves, Nil
  <2>2. v \in RubyValues[MaxDepth] /\ v \in CValues[MaxDepth] /\ v \in CopiedValues[MaxDepth]
    BY <2>1, Bottom, CMade, CIsCopied DEF Sendable, CValues
  <2>3. ToC(v) = v
    BY <2>1, <2>2, Bottom, ToCLevel DEF ToC, RubyToC
  <2>4. ToRuby(v) = v
    BY <2>1, <2>2, Bottom, ToRubyLevel DEF ToRuby, CToRuby
  <2>5. Normal(v) = v
    BY <2>1, <2>2, Bottom, NormalLevel DEF Normal, NormalOf
  <2> QED
    BY <2>1, <2>2, <2>3, <2>4, <2>5
<1> QED
  BY <1>1, <1>2, SendableShape

\* A hash that names bins of the record only
Puttable(hash) ==
  /\ hash \in Seq(Keys \X RubyValues[MaxDepth])
  /\ \A i \in DOMAIN hash : hash[i][1][1] # "nil" => KeyName(hash[i][1]) \in Bins

LEMMA SentFacts ==
  ASSUME NEW hash, Puttable(hash), Accepted(hash)
  PROVE  /\ DOMAIN Sent(hash) = NamesOf(hash, Set(hash))
         /\ DOMAIN Sent(hash) \subseteq Bins
         /\ IsFiniteSet(DOMAIN Sent(hash))
         /\ \A b \in DOMAIN Sent(hash) :
              /\ Sent(hash)[b] \in RubyValues[MaxDepth]
              /\ Converts(Sent(hash)[b], BinTypes)
              /\ Sent(hash)[b][1] \in BinTypes \ {"data"}
              /\ Sent(hash)[b][1] # "nil" => Sendable(Sent(hash)[b])
<1> DEFINE names == NamesOf(hash, Set(hash))
           last(b) == LastWith(hash, Set(hash), b)
<1>1. hash \in Seq(Keys \X RubyValues[MaxDepth]) /\ Set(hash) \in SUBSET DOMAIN hash
  BY DEF Puttable, Set
<1>2. DOMAIN Sent(hash) = names /\ \A b \in names : Sent(hash)[b] = hash[last(b)][2]
  BY DEF Sent
<1>3. IsFiniteSet(names)
  BY <1>1, NamesFinite
<1>4. names \subseteq Bins
  BY <1>1 DEF NamesOf, Puttable, Accepted
<1>5. ASSUME NEW b \in names
      PROVE  /\ Sent(hash)[b] \in RubyValues[MaxDepth]
             /\ Converts(Sent(hash)[b], BinTypes)
             /\ Sent(hash)[b][1] \in BinTypes \ {"data"}
             /\ Sent(hash)[b][1] # "nil" => Sendable(Sent(hash)[b])
  <2>1. last(b) \in Set(hash)
    BY <1>1, LastOne
  <2>2. hash[last(b)] \in Keys \X RubyValues[MaxDepth]
    BY <1>1, <2>1, SeqParts
  <2>3. Converts(hash[last(b)][2], BinTypes) /\ hash[last(b)][2][1] # "data"
    BY <2>1 DEF Accepted, Set
  <2>4. hash[last(b)][2][1] \in BinTypes
    BY <2>3 DEF Converts
  <2> HIDE DEF last
  <2> QED
    BY <1>2, <2>2, <2>3, <2>4 DEF Sendable
<1> QED
  BY <1>2, <1>3, <1>4, <1>5

-----------------------------------------------------------------------------
(* The inductive invariant                                                   *)

\* A bin whose value the program has given holds what has been made of that value
Kept ==
  \A b \in Bins :
    given[b] # NULL =>
      /\ Converts(given[b], BinTypes)
      /\ IF given[b][1] = "nil" THEN b \notin DOMAIN stored
         ELSE b \in DOMAIN stored /\ stored[b] = ToC(given[b])

IInv == TypeOK /\ Kept /\ IsFiniteSet(DOMAIN stored) /\ StaysUp

LEMMA BinsHold == "header" \in Bins /\ "record_header" \in Bins
BY DEF Bins

LEMMA PutStep ==
  ASSUME IInv, NEW hash, Puttable(hash), Put(hash)
  PROVE  IInv'
<1> DEFINE sent == Sent(hash)
           after == {b \in DOMAIN stored \cup DOMAIN sent : b \in DOMAIN sent => sent[b][1] # "nil"}
<1>1. /\ up /\ Accepted(hash) /\ up' = up
      /\ stored' = [b \in after |-> IF b \in DOMAIN sent THEN ToC(sent[b]) ELSE stored[b]]
      /\ given' = [b \in Bins |-> IF b \in DOMAIN sent THEN sent[b] ELSE given[b]]
  BY DEF Put
<1>2. /\ DOMAIN sent \subseteq Bins
      /\ IsFiniteSet(DOMAIN sent)
      /\ \A b \in DOMAIN sent : /\ sent[b] \in RubyValues[MaxDepth]
                                /\ Converts(sent[b], BinTypes)
                                /\ sent[b][1] \in BinTypes \ {"data"}
                                /\ sent[b][1] # "nil" => Sendable(sent[b])
  BY <1>1, SentFacts
<1> HIDE DEF sent
<1>3. DOMAIN stored' = after
  BY <1>1
<1>4. after \subseteq DOMAIN stored \cup DOMAIN sent /\ after \subseteq Bins
  BY <1>2 DEF IInv, TypeOK
<1>5. \A b \in after : stored'[b] = IF b \in DOMAIN sent THEN ToC(sent[b]) ELSE stored[b]
  BY <1>1
<1>6. \A b \in DOMAIN sent : b \in after <=> sent[b][1] # "nil"
  OBVIOUS
<1>7. \A b \in Bins \ DOMAIN sent : b \in after <=> b \in DOMAIN stored
  OBVIOUS
<1> HIDE DEF after
<1>8. \A b \in Bins : given'[b] = IF b \in DOMAIN sent THEN sent[b] ELSE given[b]
  BY <1>1
<1>9. IsFiniteSet(DOMAIN stored')
  <2>1. IsFiniteSet(DOMAIN stored \cup DOMAIN sent)
    BY <1>2, FS_Union DEF IInv
  <2> QED
    BY <1>3, <1>4, <2>1, FS_Subset
<1>10. \A b \in after : stored'[b] \in CValues[MaxDepth] \ {Nil}
  <2>1. ASSUME NEW b \in after, b \in DOMAIN sent PROVE stored'[b] \in CValues[MaxDepth] \ {Nil}
    BY <1>2, <1>5, <1>6, <2>1, SendableBack
  <2>2. ASSUME NEW b \in after, b \notin DOMAIN sent PROVE stored'[b] \in CValues[MaxDepth] \ {Nil}
    BY <1>4, <1>5, <2>2 DEF IInv, TypeOK
  <2> QED
    BY <2>1, <2>2
<1>11. TypeOK'
  <2>1. \A b \in Bins : given'[b] # NULL =>
          given'[b] \in RubyValues[MaxDepth] /\ given'[b][1] \in BinTypes \ {"data"}
    BY <1>2, <1>8 DEF IInv, TypeOK
  <2>2. DOMAIN given' = Bins /\ up' \in BOOLEAN
    BY <1>1 DEF IInv, TypeOK
  <2> QED
    BY <1>3, <1>4, <1>10, <2>1, <2>2 DEF TypeOK
<1>12. Kept'
  <2> SUFFICES ASSUME NEW b \in Bins, given'[b] # NULL
               PROVE  /\ Converts(given'[b], BinTypes)
                      /\ IF given'[b][1] = "nil" THEN b \notin DOMAIN stored'
                         ELSE b \in DOMAIN stored' /\ stored'[b] = ToC(given'[b])
    BY DEF Kept
  <2>1. CASE b \in DOMAIN sent
    BY <1>2, <1>3, <1>5, <1>6, <1>8, <2>1
  <2>2. CASE b \notin DOMAIN sent
    <3>1. given'[b] = given[b] /\ (b \in after <=> b \in DOMAIN stored)
      BY <1>7, <1>8, <2>2
    <3>2. b \in after => stored'[b] = stored[b]
      BY <1>5, <2>2
    <3> QED
      BY <1>3, <3>1, <3>2 DEF IInv, Kept
  <2> QED
    BY <2>1, <2>2
<1>13. StaysUp'
  BY <1>1 DEF StaysUp
<1> QED
  BY <1>9, <1>11, <1>12, <1>13 DEF IInv

LEMMA HeaderType == Header \in RubyValues[MaxDepth]
<1> DEFINE f == [n \in {"gen", "expire_in"} |-> << <<"str", n>>, <<"int", 0>> >>]
           E == {<< <<"str", n>>, <<"int", 0>> >> : n \in {"gen", "expire_in"}}
<1>1. DOMAIN f = {"gen"} \cup {"expire_in"} /\ {f[n] : n \in DOMAIN f} = E
  OBVIOUS
<1>2. E \subseteq Keys \X RubyValues[MaxDepth - 1]
  <2>1. 0 \in -Half..Half - 1
    BY ConversionAssumption
  <2>2. <<"int", 0>> \in RubyLeaves
    BY <2>1 DEF RubyLeaves, Fixnums
  <2>3. MaxDepth - 1 \in Depths
    BY Bottom, Below
  <2>4. <<"int", 0>> \in RubyValues[MaxDepth - 1]
    BY <2>2, <2>3, RubyMade DEF RubyValues
  <2>5. <<"str", "gen">> \in Keys /\ <<"str", "expire_in">> \in Keys
    BY ConversionAssumption DEF Keys, Texts
  <2> QED
    BY <2>4, <2>5
<1>3. Header = <<"hash", SetToSeq(E)>>
  BY DEF Header
<1> HIDE DEF f, E
<1>4. IsFiniteSet({"gen"} \cup {"expire_in"})
  BY FS_Singleton, FS_Union
<1>5. IsFiniteSet(E)
  BY <1>1, <1>4, ImageFinite
<1>6. SetToSeq(E) \in Seq(Keys \X RubyValues[MaxDepth - 1])
  BY <1>2, <1>5, ListedIn
<1> QED
  BY <1>3, <1>6, Bottom, RubyMade DEF RubyValues

\* The hash of a record that was read
ReadHash(read) == SetToSeq({<< <<"str", b>>, read[b]>> : b \in DOMAIN read})

ReadBins(with_header) == IF with_header THEN WithHeader(Got) ELSE Got

Replaced(hash, pair) ==
  LET same == {i \in DOMAIN hash : hash[i][1] = pair[1]}
  IN IF same = {} THEN Append(hash, pair)
     ELSE [i \in DOMAIN hash |-> IF i \in same THEN pair ELSE hash[i]]

LEMMA ChangeIs ==
  ASSUME NEW pair, NEW with_header, Change(pair, with_header)
  PROVE  /\ \A b \in DOMAIN Got : ~Faulty(Got[b])
         /\ Put(Replaced(ReadHash(ReadBins(with_header)), pair))
BY DEF Change, Replaced, ReadHash, ReadBins

\* What is read is sound, and of finitely many bins
LEMMA ReadType ==
  ASSUME IInv, NEW with_header \in BOOLEAN, \A b \in DOMAIN Got : ~Faulty(Got[b]),
         NEW read, read = ReadBins(with_header)
  PROVE  /\ DOMAIN read \subseteq Bins /\ IsFiniteSet(DOMAIN read)
         /\ DOMAIN stored \subseteq DOMAIN read
         /\ \A b \in DOMAIN read : read[b] \in RubyValues[MaxDepth]
         /\ \A b \in DOMAIN stored \ Hidden(with_header) : read[b] = ToRuby(stored[b])
<1>1. DOMAIN Got = DOMAIN stored /\ \A b \in DOMAIN stored : Got[b] = ToRuby(stored[b])
  BY DEF Got, Record2Hash
<1>2. DOMAIN stored \subseteq Bins /\ IsFiniteSet(DOMAIN stored)
  BY DEF IInv, TypeOK
<1>3. \A b \in DOMAIN stored : Got[b] \in RubyValues[MaxDepth]
  BY <1>1 DEF Faulty
<1>4. CASE ~with_header
  BY <1>1, <1>2, <1>3, <1>4 DEF ReadBins
<1>5. CASE with_header
  <2> DEFINE h == HeaderName(Got)
  <2>1. h \in Bins
    BY BinsHold DEF HeaderName
  <2>2. \A b \in DOMAIN stored \ Hidden(with_header) : b # h
    BY <1>1, <1>5 DEF HeaderName, Hidden
  <2> HIDE DEF h
  <2>3. read = [b \in DOMAIN stored \cup {h} |-> IF b = h THEN Header ELSE Got[b]]
    BY <1>1, <1>5 DEF ReadBins, WithHeader, h
  <2>4. IsFiniteSet(DOMAIN stored \cup {h})
    BY <1>2, FS_AddElement
  <2> QED
    BY <1>1, <1>2, <1>3, <2>1, <2>2, <2>3, <2>4, HeaderType
<1> QED
  BY <1>4, <1>5

\* Its hash has one pair for each bin
LEMMA ReadHashFacts ==
  ASSUME NEW read, IsFiniteSet(DOMAIN read), DOMAIN read \subseteq Names,
         \A b \in DOMAIN read : read[b] \in RubyValues[MaxDepth],
         NEW hash, hash = ReadHash(read)
  PROVE  /\ hash \in Seq(Keys \X RubyValues[MaxDepth])
         /\ \A i \in DOMAIN hash :
              hash[i][2] = read[hash[i][1][2]] /\ hash[i][1][2] \in DOMAIN read
              /\ hash[i][1] = <<"str", hash[i][1][2]>> /\ KeyName(hash[i][1]) = hash[i][1][2]
         /\ \A i, j \in DOMAIN hash : hash[i][1] = hash[j][1] => i = j
         /\ \A b \in DOMAIN read : \E i \in DOMAIN hash : hash[i][1] = <<"str", b>>
<1> DEFINE f == [b \in DOMAIN read |-> << <<"str", b>>, read[b]>>]
           E == {<< <<"str", b>>, read[b]>> : b \in DOMAIN read}
<1>1. DOMAIN f = DOMAIN read /\ {f[b] : b \in DOMAIN f} = E
  OBVIOUS
<1>2. E \subseteq Keys \X RubyValues[MaxDepth]
  <2>1. \A n \in Names : <<"str", n>> \in Keys
    BY DEF Keys, Texts
  <2> QED
    BY <2>1
<1>3. \A e \in E : /\ e[2] = read[e[1][2]] /\ e[1][2] \in DOMAIN read
                   /\ e[1] = <<"str", e[1][2]>> /\ KeyName(e[1]) = e[1][2]
                   /\ e = <<e[1], e[2]>>
  BY DEF KeyName
<1>4. \A b \in DOMAIN read : << <<"str", b>>, read[b]>> \in E
  OBVIOUS
<1>5. hash = SetToSeq(E)
  BY DEF ReadHash
<1> HIDE DEF f, E
<1>6. IsFiniteSet(E)
  BY <1>1, ImageFinite
<1>7. /\ hash \in Seq(E)
      /\ \A i, j \in DOMAIN hash : hash[i] = hash[j] => i = j
  <2>1. /\ SetToSeq(E) \in Seq(E)
        /\ \A i, j \in DOMAIN SetToSeq(E) : SetToSeq(E)[i] = SetToSeq(E)[j] => i = j
    BY <1>6, Listed
  <2> QED
    BY <1>5, <2>1
<1>8. ASSUME NEW e \in E PROVE \E i \in DOMAIN hash : hash[i] = e
  BY ONLY <1>5, <1>6, <1>8, Listed
<1>9. \A i \in DOMAIN hash : hash[i] \in E
  BY <1>7, SeqParts
<1>10. hash \in Seq(Keys \X RubyValues[MaxDepth])
  BY <1>2, <1>5, <1>6, ListedIn
<1>11. ASSUME NEW i \in DOMAIN hash, NEW j \in DOMAIN hash, hash[i][1] = hash[j][1] PROVE i = j
  <2>1. hash[i] = hash[j]
    BY <1>3, <1>9, <1>11
  <2> QED
    BY <1>7, <2>1
<1>12. ASSUME NEW b \in DOMAIN read PROVE \E i \in DOMAIN hash : hash[i][1] = <<"str", b>>
  <2>1. PICK i \in DOMAIN hash : hash[i] = << <<"str", b>>, read[b]>>
    BY <1>4, <1>8
  <2> QED
    BY <2>1
<1> QED
  BY <1>3, <1>9, <1>10, <1>11, <1>12

LEMMA BinNames == Bins \subseteq Names
<1> SUFFICES ASSUME NEW b \in Bins PROVE b \in Names
  OBVIOUS
<1>1. CASE b \in {"header", "record_header"}
  BY <1>1, ConversionAssumption
<1>2. CASE b # NULL /\ b \in {KeyName(pair[1]) : pair \in UNION {ToSet(h) : h \in Hashes}}
  <2>1. PICK pair \in UNION {ToSet(h) : h \in Hashes} : b = KeyName(pair[1])
    BY <1>2
  <2>2. PICK h \in Hashes : pair \in ToSet(h)
    BY <2>1
  <2>3. PICK i \in DOMAIN h : pair = h[i]
    BY <2>2 DEF ToSet
  <2>4. h \in Seq(Keys \X RubyValues[MaxDepth])
    BY ConversionAssumption
  <2>5. pair[1] \in Keys
    BY <2>3, <2>4, SeqParts
  <2>6. CASE pair[1][1] = "nil"
    BY <1>2, <2>1, <2>5, <2>6 DEF Keys, Fixnums, Texts, Nil, KeyName
  <2> QED
    BY <2>1, <2>5, <2>6, KeyNames
<1> QED
  BY <1>1, <1>2 DEF Bins

\* The entry k of r is the pair that was set in hash, and the last one of its name; the
\* others are those of hash
SetAt(k, r, hash, pair) ==
  /\ r[k] = pair
  /\ \A i \in DOMAIN r \ {k} : \E j \in DOMAIN hash : r[i] = hash[j]
  /\ \A j \in DOMAIN hash : hash[j][1] # pair[1] => \E i \in DOMAIN r : r[i] = hash[j]
  /\ \A i \in DOMAIN r : KeyName(r[i][1]) = KeyName(pair[1]) => i <= k

\* With one entry changed, a hash that was read has every other entry, and no entry of
\* the same name after the one that was changed
LEMMA ReplacedFacts ==
  ASSUME NEW S, NEW hash \in Seq(S), NEW pair \in S,
         \A i, j \in DOMAIN hash : hash[i][1] = hash[j][1] => i = j,
         \A i \in DOMAIN hash : hash[i][1] = <<"str", KeyName(hash[i][1])>>,
         NEW r, r = Replaced(hash, pair)
  PROVE  /\ r \in Seq(S)
         /\ \E k \in DOMAIN r : SetAt(k, r, hash, pair)
<1> DEFINE n == Len(hash)
           same == {i \in DOMAIN hash : hash[i][1] = pair[1]}
<1>1. n \in Nat /\ DOMAIN hash = 1..n /\ \A i \in 1..n : hash[i] \in S
  BY SeqParts
<1>2. CASE same = {}
  <2>1. r = Append(hash, pair)
    BY <1>2 DEF Replaced
  <2>2. r \in Seq(S) /\ DOMAIN r = 1..n + 1 /\ r[n + 1] = pair /\ \A i \in 1..n : r[i] = hash[i]
    BY <1>1, <2>1
  <2>3. n + 1 \in DOMAIN r /\ DOMAIN hash \subseteq DOMAIN r
    BY <1>1, <2>2
  <2>4. \A i \in DOMAIN r \ {n + 1} : i \in DOMAIN hash /\ r[i] = hash[i]
    BY <1>1, <2>2
  <2>5. \A i \in DOMAIN r : i <= n + 1
    BY <1>1, <2>2
  <2> QED
    BY <1>1, <2>2, <2>3, <2>4, <2>5 DEF SetAt
<1>3. CASE same # {}
  <2>1. PICK k \in DOMAIN hash : hash[k][1] = pair[1]
    BY <1>3
  <2>2. \A i \in DOMAIN hash : i \in same <=> i = k
    BY <2>1
  <2>3. r = [i \in DOMAIN hash |-> IF i \in same THEN pair ELSE hash[i]]
    BY <1>3 DEF Replaced
  <2>4. DOMAIN r = 1..n /\ r[k] = pair /\ \A i \in 1..n : i # k => r[i] = hash[i]
    BY <1>1, <2>1, <2>2, <2>3
  <2>5. r \in Seq(S)
    <3>1. r \in [1..n -> S]
      BY <1>1, <2>3
    <3> QED
      BY <1>1, <3>1, SeqMade
  <2>6. ASSUME NEW i \in DOMAIN r, KeyName(r[i][1]) = KeyName(pair[1]) PROVE i = k
    <3> SUFFICES ASSUME i # k PROVE FALSE
      OBVIOUS
    <3>1. r[i] = hash[i] /\ i \in DOMAIN hash
      BY <1>1, <2>4
    <3>2. hash[i][1] = <<"str", KeyName(pair[1])>> /\ hash[k][1] = <<"str", KeyName(pair[1])>>
      BY <2>1, <2>6, <3>1
    <3> QED
      BY <2>1, <3>1, <3>2
  <2>7. k <= k
    BY <1>1, <2>1
  <2>8. \A j \in DOMAIN hash : hash[j][1] # pair[1] => j # k
    BY <2>1
  <2> QED
    BY <1>1, <2>1, <2>4, <2>5, <2>6, <2>7, <2>8 DEF SetAt
<1> QED
  BY <1>2, <1>3

\* What a change sends: the hash that was read, with the one pair in it
LEMMA ChangeSends ==
  ASSUME IInv, NEW pair \in Changes, NEW with_header \in BOOLEAN, Change(pair, with_header)
  PROVE  \E hash :
           /\ Puttable(hash) /\ Put(hash)
           /\ pair[2][1] # "data" =>
                /\ KeyName(pair[1]) \in DOMAIN Sent(hash)
                /\ Sent(hash)[KeyName(pair[1])] = pair[2]
           /\ \A b \in DOMAIN stored \ Hidden(with_header) :
                b # KeyName(pair[1]) /\ ToRuby(stored[b])[1] # "data" =>
                  b \in DOMAIN Sent(hash) /\ Sent(hash)[b] = ToRuby(stored[b])
<1> DEFINE read == ReadBins(with_header)
           hash == ReadHash(read)
           r == Replaced(hash, pair)
           S == Keys \X RubyValues[MaxDepth]
<1>1. (\A b \in DOMAIN Got : ~Faulty(Got[b])) /\ Put(r)
  BY ChangeIs
<1>2. pair \in S /\ KeyName(pair[1]) \in Bins
  BY ConversionAssumption
<1> HIDE DEF read
<1>3. /\ DOMAIN read \subseteq Bins /\ IsFiniteSet(DOMAIN read)
      /\ DOMAIN stored \subseteq DOMAIN read
      /\ \A b \in DOMAIN read : read[b] \in RubyValues[MaxDepth]
      /\ \A b \in DOMAIN stored \ Hidden(with_header) : read[b] = ToRuby(stored[b])
  BY <1>1, ReadType DEF read
<1> HIDE DEF hash
<1>4. /\ hash \in Seq(S)
      /\ \A i \in DOMAIN hash :
           hash[i][2] = read[hash[i][1][2]] /\ hash[i][1][2] \in DOMAIN read
           /\ hash[i][1] = <<"str", hash[i][1][2]>> /\ KeyName(hash[i][1]) = hash[i][1][2]
      /\ \A i, j \in DOMAIN hash : hash[i][1] = hash[j][1] => i = j
      /\ \A b \in DOMAIN read : \E i \in DOMAIN hash : hash[i][1] = <<"str", b>>
  BY <1>3, BinNames, ReadHashFacts DEF hash
<1> HIDE DEF S
<1>5. \A i \in DOMAIN hash : hash[i][1] = <<"str", KeyName(hash[i][1])>>
  BY <1>4
<1> HIDE DEF r
<1>6. r \in Seq(S)
  BY <1>2, <1>4, <1>5, ReplacedFacts DEF r
<1>7. PICK k \in DOMAIN r : SetAt(k, r, hash, pair)
  BY <1>2, <1>4, <1>5, ReplacedFacts DEF r
<1>8. /\ r[k] = pair
      /\ \A i \in DOMAIN r \ {k} : \E j \in DOMAIN hash : r[i] = hash[j]
      /\ \A j \in DOMAIN hash : hash[j][1] # pair[1] => \E i \in DOMAIN r : r[i] = hash[j]
      /\ \A i \in DOMAIN r : KeyName(r[i][1]) = KeyName(pair[1]) => i <= k
  BY <1>7 DEF SetAt
<1>9. Puttable(r)
  <2>1. \A i \in DOMAIN r : KeyName(r[i][1]) \in Bins
    BY <1>2, <1>3, <1>4, <1>8
  <2> QED
    BY <1>6, <2>1 DEF Puttable, S
<1>10. DOMAIN Sent(r) = NamesOf(r, Set(r))
      /\ \A b \in NamesOf(r, Set(r)) : Sent(r)[b] = r[LastWith(r, Set(r), b)][2]
  BY DEF Sent
<1>11. Set(r) \in SUBSET DOMAIN r /\ DOMAIN r \subseteq Nat
  BY <1>6, SeqParts DEF Set
<1>12. \A b \in NamesOf(r, Set(r)) :
         /\ LastWith(r, Set(r), b) \in Set(r)
         /\ KeyName(r[LastWith(r, Set(r), b)][1]) = b
         /\ \A j \in Set(r) : KeyName(r[j][1]) = b => j <= LastWith(r, Set(r), b)
  BY <1>6, <1>11, LastOne
<1>13. ASSUME pair[2][1] # "data"
       PROVE  KeyName(pair[1]) \in DOMAIN Sent(r) /\ Sent(r)[KeyName(pair[1])] = pair[2]
  <2> DEFINE b == KeyName(pair[1])
             l == LastWith(r, Set(r), b)
  <2>1. k \in Set(r)
    BY <1>8, <1>13 DEF Set
  <2>2. b \in NamesOf(r, Set(r))
    BY <1>8, <2>1 DEF NamesOf
  <2>3. l \in Set(r) /\ KeyName(r[l][1]) = b /\ k <= l
    BY <1>8, <1>12, <2>1, <2>2
  <2>4. l <= k /\ l \in Nat /\ k \in Nat
    BY <1>8, <1>11, <2>3
  <2>5. l = k
    BY <2>3, <2>4
  <2> QED
    BY <1>8, <1>10, <2>2, <2>5
<1>14. ASSUME NEW b \in DOMAIN stored \ Hidden(with_header),
              b # KeyName(pair[1]), ToRuby(stored[b])[1] # "data"
       PROVE  b \in DOMAIN Sent(r) /\ Sent(r)[b] = ToRuby(stored[b])
  <2> DEFINE l == LastWith(r, Set(r), b)
  <2>1. b \in DOMAIN read /\ read[b] = ToRuby(stored[b])
    BY <1>3
  <2>2. PICK j \in DOMAIN hash : hash[j][1] = <<"str", b>>
    BY <1>4, <2>1
  <2>3. hash[j][1][2] = b
    BY <2>2
  <2>4. KeyName(hash[j][1]) = b /\ hash[j][2] = read[b]
    BY <1>4, <2>3
  <2>5. PICK i \in DOMAIN r : r[i] = hash[j]
    BY <1>8, <1>14, <2>4
  <2>6. i \in Set(r)
    BY <1>14, <2>1, <2>4, <2>5 DEF Set
  <2>7. b \in NamesOf(r, Set(r))
    BY <2>4, <2>5, <2>6 DEF NamesOf
  <2>8. l \in DOMAIN r /\ KeyName(r[l][1]) = b
    BY <1>11, <1>12, <2>7
  <2>9. l # k
    BY <1>8, <1>14, <2>8
  <2>10. PICK h \in DOMAIN hash : r[l] = hash[h]
    BY <1>8, <2>8, <2>9
  <2>11. r[l][2] = read[b]
    BY <1>4, <2>8, <2>10
  <2> QED
    BY <1>10, <2>1, <2>7, <2>11
<1> QED
  BY <1>1, <1>9, <1>13, <1>14

-----------------------------------------------------------------------------
(* The steps                                                                  *)

LEMMA InitIInv == Init => IInv
<1> SUFFICES ASSUME Init PROVE IInv
  OBVIOUS
<1>1. DOMAIN stored = {} /\ given = [b \in Bins |-> NULL] /\ up = TRUE
  BY DEF Init
<1>2. IsFiniteSet(DOMAIN stored)
  BY <1>1, FS_EmptySet
<1>3. TypeOK
  BY <1>1 DEF TypeOK
<1>4. Kept
  BY <1>1 DEF Kept
<1>5. StaysUp
  BY <1>1 DEF StaysUp
<1> QED
  BY <1>2, <1>3, <1>4, <1>5 DEF IInv

LEMMA HashesPuttable ==
  ASSUME NEW hash \in Hashes
  PROVE  Puttable(hash)
<1>1. hash \in Seq(Keys \X RubyValues[MaxDepth])
  BY ConversionAssumption
<1>2. ASSUME NEW i \in DOMAIN hash, hash[i][1][1] # "nil" PROVE KeyName(hash[i][1]) \in Bins
  <2>1. hash[i][1] \in Keys
    BY <1>1, SeqParts
  <2>2. KeyName(hash[i][1]) \in Names
    BY <1>2, <2>1, KeyNames
  <2>3. KeyName(hash[i][1]) # NULL
    BY <2>2, ConversionAssumption
  <2>4. hash[i] \in UNION {ToSet(h) : h \in Hashes}
    BY DEF ToSet
  <2> QED
    BY <2>3, <2>4 DEF Bins
<1> QED
  BY <1>1, <1>2 DEF Puttable

LEMMA ListAppendStep ==
  ASSUME IInv, NEW b \in Bins, NEW v \in Appended, ListAppend(b, v)
  PROVE  IInv'
<1> DEFINE M == MaxDepth
           x == ToC(v)
           l == stored[b][2]
           g == given[b][2]
<1>1. /\ up /\ up' = up
      /\ b \in DOMAIN stored /\ stored[b][1] = "list"
      /\ Converts(v, OperandTypes)
      /\ stored' = [stored EXCEPT ![b] = <<"list", Append(l, x)>>]
      /\ given' = [given EXCEPT ![b] = IF given[b] = NULL THEN NULL ELSE <<"ary", Append(g, v)>>]
  BY DEF ListAppend
<1>2. M \in Depths \ {0} /\ M - 1 \in Depths /\ M - 1 <= M
  BY Bottom, Below
<1>3. v \in RubyValues[M - 1] /\ v \in RubyValues[M]
  <2>1. v \in RubyValues[M - 1]
    BY ConversionAssumption
  <2> QED
    BY <1>2, <2>1, RubyDeeper DEF RubyValues
<1>4. v \in InnerValues[M - 1]
  <2>1. v[1] \in InnerTypes /\ v[1] \notin {"geo"} /\ (v[1] \in {"ary", "hash"} => v \in InnerValues[M])
    BY <1>1 DEF Converts, OperandTypes, InnerTypes
  <2>2. v \in RubyLeaves \/ v[1] \in {"ary", "hash"}
    BY <1>2, <1>3, ValueShape
  <2>3. CASE v \in RubyLeaves
    <3>1. v \in Leaves(InnerTypes)
      BY <2>1, <2>3 DEF Leaves
    <3> QED
      BY <1>2, <3>1, RubyMade DEF InnerValues
  <2>4. CASE v \in InnerValues[M]
    BY <1>2, <1>3, <2>4, InnerByDepth
  <2> QED
    BY <2>1, <2>2, <2>3, <2>4
<1>5. x = ToCAt[M - 1][v] /\ x \in CValues[M - 1]
  BY <1>2, <1>3, <1>4, ToCDeeper, ToCType DEF ToC
<1>6. l \in Seq(CValues[M - 1]) /\ stored[b] = <<"list", l>>
  <2>1. stored[b] \in CValues[M]
    BY <1>1 DEF IInv, TypeOK
  <2>2. \A c \in CLeaves : c[1] # "list"
    BY CLeafTypes
  <2>3. \/ stored[b] \in CLeaves
        \/ /\ stored[b] = <<stored[b][1], stored[b][2]>>
           /\ \/ stored[b][1] = "list" /\ stored[b][2] \in Seq(CValues[M - 1])
              \/ stored[b][1] = "map" /\ stored[b][2] \in Maps(CLeaves, CValues[M - 1])
    BY <1>2, <2>1, CShape DEF CValues
  <2> QED
    BY <1>1, <2>2, <2>3
<1> DEFINE t == Append(l, x)
<1>7. /\ t \in Seq(CValues[M - 1]) /\ Len(l) \in Nat /\ DOMAIN l = 1..Len(l)
      /\ DOMAIN t = 1..Len(l) + 1 /\ t[Len(l) + 1] = x
      /\ \A i \in 1..Len(l) : t[i] = l[i]
  <2> DEFINE T == CValues[M - 1]
  <2>1. l \in Seq(T) /\ x \in T
    BY <1>5, <1>6
  <2> HIDE DEF l, x, T
  <2>2. /\ Append(l, x) \in Seq(T) /\ Len(l) \in Nat /\ DOMAIN l = 1..Len(l)
        /\ DOMAIN Append(l, x) = 1..Len(l) + 1
        /\ Append(l, x)[Len(l) + 1] = x
        /\ \A i \in 1..Len(l) : Append(l, x)[i] = l[i]
    BY <2>1, Appended1
  <2> QED
    BY <2>2 DEF T
<1>8. <<"list", t>> \in CValues[M] \ {Nil}
  <2> HIDE DEF t
  <2> QED
    BY <1>2, <1>7, CMade DEF CValues, Nil
<1>9. /\ DOMAIN stored' = DOMAIN stored
      /\ stored'[b] = <<"list", t>>
      /\ \A n \in DOMAIN stored : n # b => stored'[n] = stored[n]
  BY <1>1
<1>10. /\ DOMAIN given' = Bins
       /\ given'[b] = IF given[b] = NULL THEN NULL ELSE <<"ary", Append(g, v)>>
       /\ \A n \in Bins : n # b => given'[n] = given[n]
  BY <1>1 DEF IInv, TypeOK
<1>11. ASSUME given[b] # NULL
       PROVE  /\ Append(g, v) \in Seq(InnerValues[M - 1])
              /\ ToC(<<"ary", Append(g, v)>>) = <<"list", t>>
  <2>1. /\ given[b] \in RubyValues[M] /\ given[b][1] \in BinTypes \ {"data"}
        /\ Converts(given[b], BinTypes)
        /\ given[b][1] # "nil" /\ stored[b] = ToC(given[b])
    BY <1>1, <1>11 DEF IInv, TypeOK, Kept
  <2>2. Sendable(given[b])
    BY <2>1 DEF Sendable
  <2>3. ToC(given[b]) = RubyToC(ToCAt[M - 1], given[b])
    BY <1>2, <2>1, ToCLevel DEF ToC
  <2>4. given[b][1] = "ary"
    <3>1. RubyToC(ToCAt[M - 1], given[b])[1] = "list"
      BY <1>1, <2>1, <2>3
    <3>2. given[b][1] \in {"int", "str", "sym", "float", "obj", "ary", "hash", "geo"}
      BY <2>1 DEF BinTypes, InnerTypes
    <3> QED
      BY <3>1, <3>2 DEF RubyToC, Dump
  <2>5. g \in Seq(InnerValues[M - 1]) /\ given[b] = <<"ary", g>>
    <3>1. given[b] \in InnerValues[M]
      BY <2>1, <2>4 DEF Converts
    <3>2. given[b] \notin Leaves(InnerTypes)
      BY <2>4, RubyLeafTypes DEF Leaves
    <3> QED
      BY <1>2, <2>4, <3>1, <3>2, InnerShape
  <2>6. l = [i \in DOMAIN g |-> ToCAt[M - 1][g[i]]]
    <3>1. RubyToC(ToCAt[M - 1], given[b]) = <<"list", [i \in DOMAIN g |-> ToCAt[M - 1][g[i]]]>>
      BY <2>4 DEF RubyToC
    <3> QED
      BY <2>1, <2>3, <3>1
  <2> DEFINE a == Append(g, v)
  <2> HIDE DEF g, l, x, t
  <2>7. /\ a \in Seq(InnerValues[M - 1]) /\ Len(g) \in Nat /\ DOMAIN g = 1..Len(g)
        /\ DOMAIN a = 1..Len(g) + 1 /\ a[Len(g) + 1] = v
        /\ \A i \in 1..Len(g) : a[i] = g[i]
    BY <1>4, <2>5
  <2> HIDE DEF a
  <2>8. DOMAIN l = DOMAIN g /\ \A i \in DOMAIN g : l[i] = ToCAt[M - 1][g[i]]
    BY <2>6
  <2>9. Len(l) = Len(g)
    BY <1>7, <2>7, <2>8, SameEnd
  <2>10. DOMAIN t = DOMAIN a
    BY <1>7, <2>7, <2>9
  <2>11. ASSUME NEW i \in DOMAIN a PROVE t[i] = ToCAt[M - 1][a[i]]
    <3>1. CASE i = Len(g) + 1
      BY <1>5, <1>7, <2>7, <2>9, <3>1
    <3>2. CASE i \in 1..Len(g)
      BY <1>7, <2>7, <2>8, <2>9, <3>2
    <3> QED
      BY <2>7, <3>1, <3>2
  <2>12. t = [i \in DOMAIN a |-> ToCAt[M - 1][a[i]]]
    <3>1. t = [i \in DOMAIN t |-> t[i]]
      BY <1>7
    <3> QED
      BY <2>10, <2>11, <3>1
  <2>13. <<"ary", a>> \in InnerValues[M] /\ <<"ary", a>> \in RubyValues[M]
    <3>1. <<"ary", a>> \in InnerValues[M]
      BY <1>2, <2>7, RubyMade DEF InnerValues
    <3> QED
      BY <1>2, <3>1, InnerIsValue
  <2>14. ToC(<<"ary", a>>) = RubyToC(ToCAt[M - 1], <<"ary", a>>)
    BY <1>2, <2>13, ToCLevel DEF ToC
  <2>15. RubyToC(ToCAt[M - 1], <<"ary", a>>) = <<"list", [i \in DOMAIN a |-> ToCAt[M - 1][a[i]]]>>
    BY DEF RubyToC
  <2> QED
    BY <2>7, <2>12, <2>14, <2>15 DEF a
<1>12. ASSUME given[b] # NULL
       PROVE  /\ <<"ary", Append(g, v)>> \in InnerValues[M]
              /\ <<"ary", Append(g, v)>> \in RubyValues[M]
              /\ Converts(<<"ary", Append(g, v)>>, BinTypes)
  <2> DEFINE a == Append(g, v)
  <2>1. a \in Seq(InnerValues[M - 1])
    BY <1>11, <1>12
  <2> HIDE DEF a
  <2>2. <<"ary", a>> \in InnerValues[M]
    BY <1>2, <2>1, RubyMade DEF InnerValues
  <2>3. Converts(<<"ary", a>>, BinTypes)
    BY <2>2 DEF Converts, BinTypes, InnerTypes
  <2> QED
    BY <1>2, <2>2, <2>3, InnerIsValue DEF a
<1> HIDE DEF g, l, x, t
<1>13. TypeOK'
  <2>1. \A n \in DOMAIN stored' : stored'[n] \in CValues[M] \ {Nil}
    BY <1>8, <1>9 DEF IInv, TypeOK
  <2>2. \A n \in Bins : given'[n] # NULL =>
          given'[n] \in RubyValues[M] /\ given'[n][1] \in BinTypes \ {"data"}
    BY <1>10, <1>12 DEF IInv, TypeOK, BinTypes, InnerTypes
  <2> QED
    BY <1>1, <1>9, <1>10, <2>1, <2>2 DEF IInv, TypeOK
<1>14. Kept'
  <2> SUFFICES ASSUME NEW n \in Bins, given'[n] # NULL
               PROVE  /\ Converts(given'[n], BinTypes)
                      /\ IF given'[n][1] = "nil" THEN n \notin DOMAIN stored'
                         ELSE n \in DOMAIN stored' /\ stored'[n] = ToC(given'[n])
    BY DEF Kept
  <2>1. CASE n = b
    <3>1. given[b] # NULL /\ given'[b] = <<"ary", Append(g, v)>>
      BY <1>10, <2>1
    <3> DEFINE a == <<"ary", Append(g, v)>>
    <3>2. a[1] = "ary" /\ Converts(a, BinTypes) /\ ToC(a) = <<"list", t>>
      BY <1>11, <1>12, <3>1
    <3>3. b \in DOMAIN stored' /\ stored'[b] = <<"list", t>> /\ given'[b] = a
      BY <1>1, <1>9, <3>1
    <3> HIDE DEF a
    <3>4. given'[b][1] # "nil"
      BY <3>2, <3>3
    <3> QED
      BY <2>1, <3>2, <3>3, <3>4
  <2>2. CASE n # b
    <3>1. given'[n] = given[n] /\ (n \in DOMAIN stored' <=> n \in DOMAIN stored)
      BY <1>9, <1>10, <2>2
    <3>2. n \in DOMAIN stored => stored'[n] = stored[n]
      BY <1>9, <2>2
    <3> QED
      BY <1>9, <3>1, <3>2 DEF IInv, Kept
  <2> QED
    BY <2>1, <2>2
<1>15. StaysUp'
  BY <1>1 DEF StaysUp
<1> QED
  BY <1>9, <1>13, <1>14, <1>15 DEF IInv

\* Of a bin that the program has given a value, a get reads nothing at a pointer to
\* nothing
LEMMA GivenSound ==
  ASSUME IInv, NEW b \in DOMAIN stored, given[b] # NULL
  PROVE  /\ ToRuby(stored[b]) = Normal(given[b])
         /\ ~Faulty(ToRuby(stored[b]))
<1>1. b \in Bins
  BY DEF IInv, TypeOK
<1>2. /\ given[b][1] # "nil" /\ stored[b] = ToC(given[b]) /\ Converts(given[b], BinTypes)
      /\ given[b] \in RubyValues[MaxDepth] /\ given[b][1] # "data"
  BY <1>1 DEF IInv, TypeOK, Kept
<1>3. Sendable(given[b])
  BY <1>2 DEF Sendable
<1> QED
  BY <1>2, <1>3, SendableBack DEF Faulty

\* No value that is copied whole is of a type that is left out
LEMMA WholeTypes ==
  ASSUME NEW d \in Depths, NEW c \in WholeValues[d]
  PROVE  c[1] \notin {"bytes", "blob", "nil"}
<1>1. \/ c \in WholeLeaves
      \/ /\ d # 0
         /\ c = <<c[1], c[2]>>
         /\ \/ c[1] = "list" /\ c[2] \in Seq(WholeValues[d - 1])
            \/ c[1] = "map" /\ c[2] \in Maps(CLeaves, WholeValues[d - 1])
  BY CShape DEF WholeValues
<1> QED
  BY <1>1 DEF WholeLeaves

\* What a scan gives of a value that it copies whole
LEMMA ScannedWhole ==
  ASSUME NEW b \in DOMAIN stored, Copied(stored[b])
  PROVE  /\ b \in DOMAIN Scanned
         /\ Scanned[b] = ToRuby(stored[b])
<1>1. stored[b] \in WholeValues[MaxDepth]
  BY DEF Copied
<1>2. Copy(stored[b]) = stored[b]
  BY <1>1, Bottom, CopiesWhole DEF Copy
<1>3. stored[b][1] \notin {"bytes", "blob"}
  <2>1. MaxDepth \in Depths
    BY Bottom
  <2> QED
    BY <1>1, <2>1, WholeTypes
<1>4. b \in DOMAIN CopyRecord(stored) /\ CopyRecord(stored)[b] = Copy(stored[b])
  BY <1>3 DEF CopyRecord
<1> QED
  BY <1>2, <1>4 DEF Scanned, Record2Hash

LEMMA FaultsStep ==
  ASSUME IInv, GetFaults \/ ScanFaults
  PROVE  IInv'
<1>1. up /\ up' = FALSE /\ stored' = stored /\ given' = given
  BY DEF GetFaults, ScanFaults
<1>2. \E b \in DOMAIN stored : given[b] = NULL \/ ~Copied(stored[b])
  <2>1. CASE GetFaults
    <3>1. PICK b \in DOMAIN Got : Faulty(Got[b])
      BY <2>1 DEF GetFaults
    <3>2. b \in DOMAIN stored /\ Got[b] = ToRuby(stored[b])
      BY <3>1 DEF Got, Record2Hash
    <3> QED
      BY <3>1, <3>2, GivenSound
  <2>2. CASE ScanFaults
    <3>1. PICK b \in DOMAIN Scanned : Faulty(Scanned[b])
      BY <2>2 DEF ScanFaults
    <3>2. b \in DOMAIN stored
      BY <3>1 DEF Scanned, Record2Hash, CopyRecord
    <3> QED
      BY <3>1, <3>2, GivenSound, ScannedWhole
  <2> QED
    BY <2>1, <2>2
<1>3. TypeOK'
  BY <1>1 DEF IInv, TypeOK
<1>4. Kept'
  BY <1>1 DEF IInv, Kept
<1>5. StaysUp'
  BY <1>1, <1>2 DEF StaysUp, Copied
<1> QED
  BY <1>1, <1>3, <1>4, <1>5 DEF IInv

LEMMA OthersStep ==
  ASSUME IInv, NEW b \in Bins, NEW c \in Foreign, OthersWrite(b, c)
  PROVE  IInv'
<1>1. /\ up /\ up' = up
      /\ stored' = [n \in DOMAIN stored \cup {b} |-> IF n = b THEN c ELSE stored[n]]
      /\ given' = [given EXCEPT ![b] = NULL]
  BY DEF OthersWrite
<1>2. /\ DOMAIN stored' = DOMAIN stored \cup {b} /\ stored'[b] = c
      /\ \A n \in DOMAIN stored : n # b => stored'[n] = stored[n]
      /\ \A n : n # b => (n \in DOMAIN stored' <=> n \in DOMAIN stored)
  BY <1>1
<1>3. DOMAIN given' = Bins /\ given'[b] = NULL /\ \A n \in Bins : n # b => given'[n] = given[n]
  BY <1>1 DEF IInv, TypeOK
<1>4. c \in CValues[MaxDepth] \ {Nil}
  BY ConversionAssumption
<1>5. IsFiniteSet(DOMAIN stored')
  BY <1>2, FS_AddElement DEF IInv
<1>6. TypeOK'
  <2>1. DOMAIN stored' \subseteq Bins
    BY <1>2 DEF IInv, TypeOK
  <2>2. \A n \in DOMAIN stored' : stored'[n] \in CValues[MaxDepth] \ {Nil}
    BY <1>2, <1>4 DEF IInv, TypeOK
  <2>3. \A n \in Bins : given'[n] # NULL =>
          given'[n] \in RubyValues[MaxDepth] /\ given'[n][1] \in BinTypes \ {"data"}
    BY <1>3 DEF IInv, TypeOK
  <2> QED
    BY <1>1, <1>3, <2>1, <2>2, <2>3 DEF IInv, TypeOK
<1>7. Kept'
  <2> SUFFICES ASSUME NEW n \in Bins, given'[n] # NULL
               PROVE  /\ Converts(given'[n], BinTypes)
                      /\ IF given'[n][1] = "nil" THEN n \notin DOMAIN stored'
                         ELSE n \in DOMAIN stored' /\ stored'[n] = ToC(given'[n])
    BY DEF Kept
  <2>1. n # b /\ given'[n] = given[n]
    BY <1>3
  <2>2. /\ n \in DOMAIN stored' <=> n \in DOMAIN stored
        /\ n \in DOMAIN stored => stored'[n] = stored[n]
    BY <1>2, <2>1
  <2> QED
    BY <2>1, <2>2 DEF IInv, Kept
<1>8. StaysUp'
  BY <1>1 DEF StaysUp
<1> QED
  BY <1>5, <1>6, <1>7, <1>8 DEF IInv

LEMMA AppendNilStep ==
  ASSUME IInv, NEW b \in Bins, AppendNil(b)
  PROVE  IInv'
<1> DEFINE l == stored[b][2]
<1>1. /\ b \in DOMAIN stored /\ stored[b][1] = "list"
      /\ given' = [given EXCEPT ![b] = NULL]
      /\ \/ stored' = [stored EXCEPT ![b] = <<"list", Append(l, Nil)>>]
         \/ stored' = stored
      /\ up' \in BOOLEAN
  BY DEF AppendNil, IInv, TypeOK
<1>2. DOMAIN given' = Bins /\ given'[b] = NULL /\ \A n \in Bins : n # b => given'[n] = given[n]
  BY <1>1 DEF IInv, TypeOK
<1>3. /\ DOMAIN stored' = DOMAIN stored
      /\ \A n \in DOMAIN stored : n # b => stored'[n] = stored[n]
  BY <1>1
<1>4. stored'[b] \in CValues[MaxDepth] \ {Nil}
  <2>1. CASE stored' = stored
    BY <1>1, <2>1 DEF IInv, TypeOK
  <2>2. CASE stored' = [stored EXCEPT ![b] = <<"list", Append(l, Nil)>>]
    <3>1. MaxDepth \in Depths \ {0} /\ MaxDepth - 1 \in Depths
      BY Bottom, Below
    <3>2. l \in Seq(CValues[MaxDepth - 1])
      <4>1. stored[b] \in CValues[MaxDepth]
        BY <1>1 DEF IInv, TypeOK
      <4>2. \A c \in CLeaves : c[1] # "list"
        BY CLeafTypes
      <4>3. \/ stored[b] \in CLeaves
            \/ /\ stored[b] = <<stored[b][1], stored[b][2]>>
               /\ \/ stored[b][1] = "list" /\ stored[b][2] \in Seq(CValues[MaxDepth - 1])
                  \/ stored[b][1] = "map" /\ stored[b][2] \in Maps(CLeaves, CValues[MaxDepth - 1])
        BY <3>1, <4>1, CShape DEF CValues
      <4> QED
        BY <1>1, <4>2, <4>3
    <3>3. Nil \in CValues[MaxDepth - 1]
      BY <3>1, CMade DEF CValues, CLeaves
    <3>4. Append(l, Nil) \in Seq(CValues[MaxDepth - 1])
      <4> HIDE DEF l
      <4> DEFINE S == CValues[MaxDepth - 1]
      <4> HIDE DEF S
      <4>1. l \in Seq(S) /\ Nil \in S
        BY <3>2, <3>3 DEF S
      <4>2. Append(l, Nil) \in Seq(S)
        BY <4>1
      <4> QED
        BY <4>2 DEF S
    <3>5. <<"list", Append(l, Nil)>> \in CValues[MaxDepth]
      BY <3>1, <3>4, CMade DEF CValues
    <3> QED
      BY <1>1, <2>2, <3>5 DEF Nil
  <2> QED
    BY <1>1, <2>1, <2>2
<1>5. TypeOK'
  <2>1. \A n \in DOMAIN stored' : stored'[n] \in CValues[MaxDepth] \ {Nil}
    BY <1>3, <1>4 DEF IInv, TypeOK
  <2>2. \A n \in Bins : given'[n] # NULL =>
          given'[n] \in RubyValues[MaxDepth] /\ given'[n][1] \in BinTypes \ {"data"}
    BY <1>2 DEF IInv, TypeOK
  <2> QED
    BY <1>1, <1>2, <1>3, <2>1, <2>2 DEF IInv, TypeOK
<1>6. Kept'
  <2> SUFFICES ASSUME NEW n \in Bins, given'[n] # NULL
               PROVE  /\ Converts(given'[n], BinTypes)
                      /\ IF given'[n][1] = "nil" THEN n \notin DOMAIN stored'
                         ELSE n \in DOMAIN stored' /\ stored'[n] = ToC(given'[n])
    BY DEF Kept
  <2>1. n # b /\ given'[n] = given[n]
    BY <1>2
  <2>2. /\ n \in DOMAIN stored' <=> n \in DOMAIN stored
        /\ n \in DOMAIN stored => stored'[n] = stored[n]
    BY <1>3, <2>1
  <2> QED
    BY <2>1, <2>2 DEF IInv, Kept
<1>7. StaysUp'
  BY <1>1, <1>2, <1>3 DEF StaysUp
<1>8. IsFiniteSet(DOMAIN stored')
  BY <1>3 DEF IInv
<1> QED
  BY <1>5, <1>6, <1>7, <1>8 DEF IInv

LEMMA NextIInv ==
  ASSUME IInv, [Next]_vars
  PROVE  IInv'
<1>1. ASSUME NEW hash \in Hashes, Put(hash) PROVE IInv'
  BY <1>1, HashesPuttable, PutStep
<1>2. ASSUME NEW pair \in Changes, NEW with_header \in BOOLEAN, Change(pair, with_header) PROVE IInv'
  BY <1>2, ChangeSends, PutStep
<1>3. ASSUME NEW b \in Bins, NEW v \in Appended, ListAppend(b, v) PROVE IInv'
  BY <1>3, ListAppendStep
<1>7. ASSUME NEW b \in Bins, AppendNil(b) PROVE IInv'
  BY <1>7, AppendNilStep
<1>4. CASE GetFaults \/ ScanFaults
  BY <1>4, FaultsStep
<1>5. ASSUME NEW b \in Bins, NEW c \in Foreign, OthersWrite(b, c) PROVE IInv'
  BY <1>5, OthersStep
<1>6. CASE UNCHANGED vars
  <2>1. stored' = stored /\ given' = given /\ up' = up
    BY <1>6 DEF vars
  <2>2. TypeOK'
    BY <2>1 DEF IInv, TypeOK
  <2>3. Kept'
    BY <2>1 DEF IInv, Kept
  <2>4. StaysUp'
    BY <2>1 DEF IInv, StaysUp, Copied
  <2> QED
    BY <2>1, <2>2, <2>3, <2>4 DEF IInv
<1> QED
  BY <1>1, <1>2, <1>3, <1>4, <1>5, <1>6, <1>7 DEF Next

-----------------------------------------------------------------------------
(* The theorems                                                              *)

THEOREM Invariance == Spec => []IInv
<1>1. IInv /\ [Next]_vars => IInv'
  BY NextIInv
<1> QED
  BY <1>1, InitIInv, PTL DEF Spec

\* Bins hold values of C only, and what was put in one has a type that hash2record has
\* a case for.
THEOREM TypeCorrect == Spec => []TypeOK
<1>1. IInv => TypeOK
  BY DEF IInv
<1> QED
  BY <1>1, Invariance, PTL

\* A get gives back what the program has put, appended to or changed, however deep the
\* value, whatever its keys and however often a name is among them.
THEOREM GivenBack == Spec => []RoundTrip
<1>1. ASSUME IInv PROVE RoundTrip
  <2> SUFFICES ASSUME NEW b \in Bins, given[b] # NULL
               PROVE  IF given[b][1] = "nil" THEN b \notin DOMAIN stored
                      ELSE b \in DOMAIN stored /\ ToRuby(stored[b]) = Normal(given[b])
    BY DEF RoundTrip
  <2>1. IF given[b][1] = "nil" THEN b \notin DOMAIN stored ELSE b \in DOMAIN stored
    BY <1>1 DEF IInv, Kept
  <2> QED
    BY <1>1, <2>1, GivenSound
<1> QED
  BY <1>1, Invariance, PTL

\* A scan or a query gives the same for a bin as a get, unless rb_copy_as_val does not
\* know something in it.
THEOREM ScanTellsAll == Spec => []ScanTells
<1>1. ScanTells
  <2> SUFFICES ASSUME NEW b \in DOMAIN stored, Copied(stored[b])
               PROVE  b \in DOMAIN Scanned /\ Scanned[b] = Got[b]
    BY DEF ScanTells
  <2>1. Got[b] = ToRuby(stored[b])
    BY DEF Got, Record2Hash
  <2> QED
    BY <2>1, ScannedWhole
<1> QED
  BY <1>1, PTL

\* The program crashes on nothing it has put itself, but for what a scan does not know.
THEOREM OwnValuesSafe == Spec => []StaysUp
<1>1. IInv => StaysUp
  BY DEF IInv
<1> QED
  BY <1>1, Invariance, PTL

\* A get, a change of one bin and a put of the hash leave every other bin as it was.
THEOREM OthersKept == Spec => WriteBackKeeps
<1> DEFINE Keeps ==
      \A pair \in Changes, with_header \in BOOLEAN : Change(pair, with_header) =>
        \A b \in DOMAIN stored \ Hidden(with_header) :
          IF b = KeyName(pair[1])
          THEN pair[2][1] \in {"nil", "data"} \/ stored'[b] = ToC(pair[2])
          ELSE Portable(stored[b]) => b \in DOMAIN stored' /\ stored'[b] = stored[b]
<1>1. ASSUME IInv PROVE Keeps
  <2> SUFFICES ASSUME NEW pair \in Changes, NEW with_header \in BOOLEAN, Change(pair, with_header),
                      NEW b \in DOMAIN stored \ Hidden(with_header)
               PROVE  IF b = KeyName(pair[1])
                      THEN pair[2][1] \in {"nil", "data"} \/ stored'[b] = ToC(pair[2])
                      ELSE Portable(stored[b]) => b \in DOMAIN stored' /\ stored'[b] = stored[b]
    OBVIOUS
  <2>1. PICK hash :
          /\ Puttable(hash) /\ Put(hash)
          /\ pair[2][1] # "data" =>
               KeyName(pair[1]) \in DOMAIN Sent(hash) /\ Sent(hash)[KeyName(pair[1])] = pair[2]
          /\ b # KeyName(pair[1]) /\ ToRuby(stored[b])[1] # "data" =>
               b \in DOMAIN Sent(hash) /\ Sent(hash)[b] = ToRuby(stored[b])
    BY <1>1, ChangeSends
  <2> DEFINE sent == Sent(hash)
  <2>2. ASSUME b \in DOMAIN sent, sent[b][1] # "nil"
        PROVE  b \in DOMAIN stored' /\ stored'[b] = ToC(sent[b])
    BY <2>1, <2>2 DEF Put
  <2>3. CASE b = KeyName(pair[1])
    BY <2>1, <2>2, <2>3
  <2>4. ASSUME b # KeyName(pair[1]), Portable(stored[b])
        PROVE  b \in DOMAIN stored' /\ stored'[b] = stored[b]
    <3>1. stored[b] \in CValues[MaxDepth]
      BY <1>1 DEF IInv, TypeOK
    <3>2. ~Faulty(ToRuby(stored[b]))
      BY ChangeIs DEF Got, Record2Hash
    <3>3. ToRuby(stored[b])[1] \notin {"nil", "data"} /\ ToC(ToRuby(stored[b])) = stored[b]
      <4>1. CASE stored[b][1] = "geo"
        <5>1. stored[b] \in CopiedValues[MaxDepth]
          BY <3>1, Bottom, CIsCopied
        <5>2. ToRuby(stored[b]) = stored[b]
          <6> DEFINE c == stored[b]
          <6>1. ToRubyAt[MaxDepth][c] = CToRuby(ToRubyAt[MaxDepth - 1], c)
            BY <5>1, Bottom, ToRubyLevel
          <6>2. CToRuby(ToRubyAt[MaxDepth - 1], c) = c
            BY <4>1 DEF CToRuby
          <6> QED
            BY <6>1, <6>2 DEF ToRuby
        <5>3. stored[b] \in RubyValues[MaxDepth]
          BY <3>2, <5>2 DEF Faulty
        <5>4. ToC(stored[b]) = stored[b]
          BY <4>1, <5>3, Bottom, ToCLevel DEF ToC, RubyToC
        <5> QED
          BY <4>1, <5>2, <5>4
      <4>2. CASE stored[b] \in PortableValues[MaxDepth]
        <5>1. ToRuby(stored[b]) \in InnerValues[MaxDepth] /\ ToC(ToRuby(stored[b])) = stored[b]
          BY <4>2, Bottom, BackAndThere DEF ToRuby, ToC
        <5>2. ToRuby(stored[b])[1] \in InnerTypes
          BY <5>1, Bottom, InnerShape DEF Leaves, InnerTypes
        <5> QED
          BY <5>1, <5>2 DEF InnerTypes
      <4> QED
        BY <2>4, <4>1, <4>2 DEF Portable
    <3>4. b \in DOMAIN sent /\ sent[b] = ToRuby(stored[b])
      BY <2>1, <2>4, <3>3
    <3> QED
      BY <2>2, <3>3, <3>4
  <2> QED
    BY <2>3, <2>4
<1>2. IInv => [Keeps]_vars
  BY <1>1
<1>3. Spec => [][Keeps]_vars
  <2> HIDE DEF Keeps
  <2> QED
    BY <1>2, Invariance, PTL
<1> QED
  BY <1>3 DEF WriteBackKeeps
===============================================================================

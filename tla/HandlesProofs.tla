---------------------------- MODULE HandlesProofs ----------------------------
(***************************************************************************)
(* Proofs about Handles, for any number of structures.                       *)
(*                                                                         *)
(* The inductive invariant is Sound, one condition Fine on each structure:    *)
(* a free slot is blank and nothing refers to it, so that a call that takes   *)
(* it anew owns it alone; an object the program can use is still the          *)
(* collector's; what is not given away by a call belongs to nobody else.      *)
(* Every action then either puts something into free slots (lemma Placed),    *)
(* adds an owner to GeoJson, or is a destruction.  The structures a call has  *)
(* made and destroyed again leave no trace (lemmas AfterPut to AfterRefusal), *)
(* those it leaves are lost as Leaks says or by an exception (LeavesSound).   *)
(***************************************************************************)
EXTENDS Handles, TLAPS

Given == {"geo", "args"}

Named(k, way) == way = "exception" \/ <<k, way>> \in Leaks

Fine(m, R, s) ==
  /\ m[s].kind = NULL => m[s] = Free
  /\ CALL \notin m[s].held
  /\ m[s].kind \notin Given => m[s].held \subseteq {RUBY}
  /\ m[s].kind \in Given => m[s].of = NULL
  /\ m[s].held # {} => RUBY \in m[s].held \/ m[s].dead
  /\ m[s].held = {} /\ m[s].kind # NULL /\ ~m[s].dead =>
       Named(m[s].kind, m[s].stage)
  /\ m[s].dead => m[s].kind \in Given \/ (m[s].kind = "client" /\ s \notin R)
  /\ m[s].stage = "raw" => m[s].kind \in {NULL, "client", "key", "geo", "record"}
  /\ s \in R => /\ m[s].kind # NULL /\ RUBY \in m[s].held /\ m[s].stage # "raw"
                /\ m[s].keeps => m[s].of # GONE
                /\ m[s].of # NULL /\ ~m[s].keeps => m[s].kind \in {"index", "key"}
  /\ \A t \in Structs : t \in m[s].held \/ m[s].of = t => m[t].kind # NULL /\ t # s

Sound(m, R) ==
  /\ m \in [Structs -> Struct]
  /\ R \subseteq Structs
  /\ \A s \in Structs : Fine(m, R, s)

IInv ==
  /\ Sound(mem, reach)
  /\ up \in BOOLEAN
  /\ ~up => \E s \in Structs : Undefined(s)

-----------------------------------------------------------------------------
(* Structures *)

LEMMA NewType ==
  ASSUME NEW k \in Kinds, NEW by \in SUBSET (Structs \cup {RUBY, CALL})
  PROVE  /\ New(k, by) \in Struct
         /\ New(k, by).kind = k /\ New(k, by).stage = "ready" /\ New(k, by).held = by
         /\ ~New(k, by).dead /\ New(k, by).of = NULL /\ ~New(k, by).keeps
BY DEF New, Free, Struct, Ways

LEMMA FreeType == Free \in Struct
BY DEF Free, Struct

LEMMA PointingType ==
  ASSUME NEW k \in Kinds, NEW at \in Structs, NEW keeps \in BOOLEAN
  PROVE  /\ Pointing(k, at, keeps) \in Struct
         /\ Pointing(k, at, keeps).kind = k /\ Pointing(k, at, keeps).stage = "ready"
         /\ Pointing(k, at, keeps).held = {RUBY} /\ ~Pointing(k, at, keeps).dead
         /\ Pointing(k, at, keeps).of = at /\ Pointing(k, at, keeps).keeps = keeps
BY DEF Pointing, New, Free, Struct

LEMMA LessType ==
  ASSUME NEW r \in Struct, r.kind # NULL, NEW o
  PROVE  /\ Less(r, o) \in Struct
         /\ \/ Less(r, o) = Free
            \/ Less(r, o) = Lost(r.kind, "collected") /\ r.kind \in {"client", "key"}
            \/ /\ Less(r, o).dead /\ Less(r, o).held = r.held \ {o}
               /\ Less(r, o).kind = r.kind /\ Less(r, o).stage = r.stage
               /\ Less(r, o).of = r.of /\ Less(r, o).keeps = r.keeps
               /\ r.dead \/ ~(r.held \subseteq {o})
BY DEF Less, Lost, New, Free, Struct, Unfreed, Ways

\* a slot nobody reaches that is free, or holds what was lost
LEMMA FreeFine ==
  ASSUME NEW m, NEW R, NEW s \in Structs, m[s] = Free, s \notin R
  PROVE  Fine(m, R, s)
BY TokensAssumption DEF Fine, Free

LEMMA LostFine ==
  ASSUME NEW m, NEW R, NEW s \in Structs, s \notin R, NEW k \in Kinds, NEW way \in Ways,
         m[s] = Lost(k, way), way = "exception" \/ <<k, way>> \in Leaks
  PROVE  Fine(m, R, s)
<1>1. /\ m[s].kind = k /\ m[s].stage = way /\ m[s].held = {} /\ ~m[s].dead /\ m[s].of = NULL
      /\ way # "raw" /\ NULL # k /\ NULL \notin Structs
  BY TokensAssumption DEF Lost, New, Free, Ways
<1>2. Named(m[s].kind, m[s].stage)
  BY <1>1 DEF Named
<1>3. QED
  BY <1>1, <1>2 DEF Fine

\* a call that holds nothing any more loses nothing when it ends
LEMMA EndsClean ==
  ASSUME NEW m \in [Structs -> Struct], \A s \in Structs : CALL \notin m[s].held, NEW way
  PROVE  Ends(m, way) = m
BY DEF Ends

\* free slots are taken anew, and the rest stays as it is
LEMMA Placed ==
  ASSUME NEW m, NEW R, Sound(m, R), NEW m2 \in [Structs -> Struct], NEW R2 \in SUBSET Structs,
         \A s \in Structs : \/ m2[s] = m[s] /\ (s \in R2 => s \in R)
                            \/ m[s].kind = NULL /\ Fine(m2, R2, s)
  PROVE  Sound(m2, R2)
<1>1. SUFFICES ASSUME NEW s \in Structs, m2[s] = m[s], s \in R2 => s \in R PROVE Fine(m2, R2, s)
  BY DEF Sound
<1>2. Fine(m, R, s)
  BY DEF Sound
<1>3. ASSUME NEW t \in Structs, t \in m2[s].held \/ m2[s].of = t PROVE m2[t].kind # NULL /\ t # s
  BY <1>1, <1>2, <1>3 DEF Fine
<1>4. QED
  BY <1>1, <1>2, <1>3 DEF Fine

-----------------------------------------------------------------------------
(* What a call has destroyed again leaves no trace *)

\* nothing refers to a free slot
LEMMA Unreferenced ==
  ASSUME NEW m, NEW R, Sound(m, R), NEW q \in Structs, m[q].kind = NULL, NEW s \in Structs
  PROVE  q \notin m[s].held /\ m[s].of # q /\ m[q] = Free
BY DEF Sound, Fine

\* a structure is taken and given back to its owner destroyed
LEMMA TakenBack ==
  ASSUME NEW d \in Struct, NEW r \in Structs, r \notin d.held, RUBY \in d.held, RUBY # r
  PROVE  Less([d EXCEPT !.held = @ \cup {r}], r) = [d EXCEPT !.dead = TRUE]
<1>. DEFINE e == [d EXCEPT !.held = @ \cup {r}]
<1>1. e.held = d.held \cup {r}
  BY DEF Struct
<1>2. Less(e, r) = [e EXCEPT !.held = @ \ {r}, !.dead = TRUE]
  BY <1>1 DEF Less
<1>3. [e EXCEPT !.held = @ \ {r}, !.dead = TRUE] = [d EXCEPT !.held = e.held \ {r}, !.dead = TRUE]
  BY DEF Struct
<1>4. e.held \ {r} = d.held
  BY <1>1
<1>5. [d EXCEPT !.held = d.held, !.dead = TRUE] = [d EXCEPT !.dead = TRUE]
  BY DEF Struct
<1>6. QED
  BY <1>2, <1>3, <1>4, <1>5

LEMMA AfterPut ==
  ASSUME Sound(mem, reach), NEW r \in Structs, IsFree(r), NEW G \in SUBSET Geos
  PROVE  Destroy(Take([mem EXCEPT ![r] = New("record", {CALL})], r, G), r, CALL)
           = [s \in Structs |-> IF s \in G THEN [mem[s] EXCEPT !.dead = TRUE] ELSE mem[s]]
<1>. DEFINE m == Take([mem EXCEPT ![r] = New("record", {CALL})], r, G)
<1>1. SUFFICES ASSUME NEW s \in Structs
               PROVE  Destroy(m, r, CALL)[s]
                        = IF s \in G THEN [mem[s] EXCEPT !.dead = TRUE] ELSE mem[s]
  BY DEF Destroy
<1>2. r \notin mem[s].held /\ mem[s].of # r /\ mem[r] = Free /\ mem \in [Structs -> Struct]
  BY Unreferenced DEF IsFree, Sound
<1>3. r \notin G /\ (s \in G => RUBY \in mem[s].held) /\ RUBY # r
  BY TokensAssumption DEF Geos, Sound, Fine, IsFree, Kinds
<1>4. CASE s = r
  <2>1. m[r] = New("record", {CALL})
    BY <1>2, <1>3 DEF Take
  <2>2. Less(m[r], CALL) = Free
    BY <2>1 DEF Less, New, Free, Unfreed
  <2>3. QED
    BY <1>2, <1>3, <1>4, <2>2 DEF Destroy
<1>5. CASE s # r /\ s \in G
  <2>1. m[s] = [mem[s] EXCEPT !.held = @ \cup {r}]
    BY <1>2, <1>5 DEF Take
  <2>2. Less(m[s], r) = [mem[s] EXCEPT !.dead = TRUE]
    BY <1>2, <1>3, <1>5, <2>1, TakenBack
  <2>3. r \in m[s].held
    BY <1>2, <2>1 DEF Struct
  <2>4. QED
    BY <1>5, <2>2, <2>3 DEF Destroy
<1>6. CASE s # r /\ s \notin G
  BY <1>2, <1>6 DEF Destroy, Take
<1>7. QED
  BY <1>4, <1>5, <1>6

LEMMA AfterForeground ==
  ASSUME Sound(mem, reach), NEW q \in Structs, NEW k \in Kinds \ {"client", "key"}, NEW A \in SUBSET Structs, Fresh(q, A)
  PROVE  Destroy(With(q, New(k, {CALL}), A, New("args", {q})), q, CALL) = mem
<1>. DEFINE m == With(q, New(k, {CALL}), A, New("args", {q}))
<1>1. mem \in [Structs -> Struct]
  BY DEF Sound
<1>2. SUFFICES ASSUME NEW s \in Structs PROVE Destroy(m, q, CALL)[s] = mem[s]
  BY <1>1 DEF Destroy
<1>3. q \notin mem[s].held /\ mem[s].of # q /\ mem[q] = Free
  BY Unreferenced DEF IsFree, Fresh
<1>4. s \in A => mem[s] = Free /\ s # q
  BY Unreferenced DEF IsFree, Fresh
<1>5. Less(New(k, {CALL}), CALL) = Free
  BY DEF Less, New, Free, Unfreed
<1>6. Less(New("args", {q}), q) = Free /\ q \in New("args", {q}).held
  BY DEF Less, New, Free, Unfreed
<1>7. QED
  BY <1>1, <1>3, <1>4, <1>5, <1>6 DEF Destroy, With

\* a background query that is refused: the arguments stay, torn
LEMMA AfterRefusal ==
  ASSUME Sound(mem, reach), NEW q \in Structs, NEW k \in Kinds \ {"client", "key"}, NEW A \in SUBSET Structs, Fresh(q, A)
  PROVE  Destroy(With(q, New(k, {CALL}), A, Torn({})), q, CALL) = [s \in Structs |-> IF s \in A THEN Torn({}) ELSE mem[s]]
<1>. DEFINE m == With(q, New(k, {CALL}), A, Torn({}))
<1>1. mem \in [Structs -> Struct]
  BY DEF Sound
<1>2. SUFFICES ASSUME NEW s \in Structs PROVE Destroy(m, q, CALL)[s] = IF s \in A THEN Torn({}) ELSE mem[s]
  BY <1>1 DEF Destroy
<1>3. q \notin mem[s].held /\ mem[s].of # q /\ mem[q] = Free
  BY Unreferenced DEF IsFree, Fresh
<1>4. s \in A => s # q
  BY DEF Fresh
<1>5. Less(New(k, {CALL}), CALL) = Free
  BY DEF Less, New, Free, Unfreed
<1>6. Torn({}).held = {} /\ Torn({}).of # q
  BY TokensAssumption DEF Torn
<1>7. QED
  BY <1>1, <1>3, <1>4, <1>5, <1>6 DEF Destroy, With

-----------------------------------------------------------------------------
(* The invariant is inductive: one lemma for each kind of step *)

LEMMA MadeSound ==
  ASSUME Sound(mem, reach), NEW s \in Structs, NEW r \in Struct, Made(s, r), r.kind # NULL,
         r.held = {RUBY}, ~r.dead, r.stage = "ready",
         \/ r.of = NULL /\ ~r.keeps
         \/ /\ r.of \in Structs /\ mem[r.of].kind # NULL /\ r.kind \notin Given
            /\ r.keeps \/ r.kind \in {"index", "key"}
  PROVE  Sound(mem', reach')
<1>. USE TokensAssumption
<1>1. mem \in [Structs -> Struct] /\ mem' = [mem EXCEPT ![s] = r] /\ reach' = reach \cup {s}
      /\ mem[s].kind = NULL /\ reach \subseteq Structs
  BY DEF Sound, Made, IsFree
<1>2. Fine(mem', reach', s)
  <2>1. mem'[s] = r /\ RUBY # CALL /\ RUBY \notin Structs /\ GONE \notin Structs
    BY <1>1
  <2>2. \A t \in Structs : t \in r.held \/ r.of = t => mem'[t].kind # NULL /\ t # s
    BY <1>1, <2>1
  <2>3. r.keeps => r.of # GONE
    BY <2>1
  <2>4. QED
    BY <1>1, <2>1, <2>2, <2>3 DEF Fine, Given
<1>3. mem' \in [Structs -> Struct] /\ reach' \in SUBSET Structs
  BY <1>1
<1>4. \A t \in Structs : \/ mem'[t] = mem[t] /\ (t \in reach' => t \in reach)
                         \/ mem[t].kind = NULL /\ Fine(mem', reach', t)
  BY <1>1, <1>2
<1>5. QED
  BY <1>3, <1>4, Placed

LEMMA LeftSound ==
  ASSUME Sound(mem, reach), NEW s \in Structs, NEW r \in Struct, Left(s, r), r.kind # NULL,
         r.held \subseteq {RUBY}, r.of = NULL, r.dead => r.kind = "client",
         r.stage = "raw" => r.kind \in {"client", "key", "geo", "record"},
         r.held = {} => Named(r.kind, r.stage)
  PROVE  Sound(mem', reach')
<1>. USE TokensAssumption
<1>1. mem \in [Structs -> Struct] /\ mem' = [mem EXCEPT ![s] = r] /\ reach' = reach
      /\ mem[s].kind = NULL /\ reach \subseteq Structs /\ s \notin reach
  BY DEF Sound, Fine, Left, IsFree
<1>2. Fine(mem', reach', s)
  <2>1. mem'[s] = r /\ RUBY # CALL /\ RUBY \notin Structs /\ NULL \notin Structs
    BY <1>1
  <2>2. QED
    BY <1>1, <2>1 DEF Fine
<1>3. mem' \in [Structs -> Struct] /\ reach' \in SUBSET Structs
  BY <1>1
<1>4. \A t \in Structs : \/ mem'[t] = mem[t] /\ (t \in reach' => t \in reach)
                         \/ mem[t].kind = NULL /\ Fine(mem', reach', t)
  BY <1>1, <1>2
<1>5. QED
  BY <1>3, <1>4, Placed

LEMMA ConstructorsSound ==
  ASSUME Sound(mem, reach), NEW s \in Structs,
         \/ NewClient(s) \/ NewKey(s) \/ NewGeo(s) \/ NewPolicy(s)
         \/ RefusedClient(s) \/ RefusedKey(s) \/ RefusedGeo(s) \/ RefusedRecord(s)
         \/ UnconnectedClient(s) \/ LostPolicy(s)
         \/ BrokenPut(s) \/ BrokenOperate(s) \/ BrokenArguments(s) \/ BrokenNames(s) \/ RefusedCreateIndex(s)
  PROVE  Sound(mem', reach')
<1>. USE TokensAssumption
<1>1. ASSUME NEW k \in Kinds, Made(s, New(k, {RUBY})) PROVE Sound(mem', reach')
  BY <1>1, NewType, MadeSound
<1>2. ASSUME NEW k \in Kinds, NEW way \in Ways, Left(s, Lost(k, way)), Named(k, way)
      PROVE  Sound(mem', reach')
  <2>. DEFINE r == Lost(k, way)
  <2>1. r \in Struct /\ r.kind = k /\ r.held = {} /\ r.of = NULL /\ ~r.dead /\ r.stage = way /\ way # "raw"
    BY DEF Lost, New, Free, Struct, Ways
  <2>. HIDE DEF r
  <2>2. QED
    BY <1>2, <2>1, LeftSound DEF r
<1>3. ASSUME NEW k \in {"client", "key", "geo", "record"}, Refused(s, k) PROVE Sound(mem', reach')
  <2>. DEFINE r == [New(k, {RUBY}) EXCEPT !.stage = "raw"]
  <2>1. r \in Struct /\ r.kind = k /\ r.held = {RUBY} /\ r.of = NULL /\ ~r.dead /\ k # NULL
    BY DEF New, Free, Struct, Kinds
  <2>2. Left(s, r)
    BY <1>3 DEF Refused
  <2>. HIDE DEF r
  <2>3. QED
    BY <2>1, <2>2, LeftSound
<1>4. ASSUME UnconnectedClient(s) PROVE Sound(mem', reach')
  <2>. DEFINE r == [New("client", {RUBY}) EXCEPT !.dead = TRUE]
  <2>1. "client" \in Kinds
    BY DEF Kinds
  <2>2. r \in Struct /\ r.kind = "client" /\ r.held = {RUBY} /\ r.of = NULL
    BY <2>1 DEF New, Free, Struct
  <2>3. QED
    BY <1>4, <2>1, <2>2, LeftSound DEF UnconnectedClient
<1>5. /\ {"client", "key", "geo", "policy", "record", "operations", "args", "names", "index"} \subseteq Kinds
      /\ {"exception", "status"} \subseteq Ways /\ Named("index", "status")
      /\ \A k \in Kinds : Named(k, "exception")
  BY DEF Kinds, Ways, Leaks, Named
<1>6. QED
  BY <1>1, <1>2, <1>3, <1>4, <1>5 DEF NewClient, NewKey, NewGeo, NewPolicy, RefusedGeo, RefusedClient, RefusedKey,
       RefusedRecord, LostPolicy, BrokenPut, BrokenOperate, BrokenArguments, BrokenNames, RefusedCreateIndex

LEMMA TextKeySound ==
  ASSUME Sound(mem, reach), NEW k \in Structs, NEW t \in Structs, NEW kept \in BOOLEAN, NewTextKey(k, t, kept)
  PROVE  Sound(mem', reach')
<1>. USE TokensAssumption
<1>. DEFINE rk == Pointing("key", t, kept)
            rt == New("text", {RUBY})
<1>1. /\ rk \in Struct /\ rk.kind = "key" /\ rk.stage = "ready" /\ rk.held = {RUBY} /\ ~rk.dead /\ rk.of = t
      /\ rt \in Struct /\ rt.kind = "text" /\ rt.held = {RUBY} /\ rt.of = NULL /\ ~rt.dead /\ rt.stage = "ready"
  BY PointingType, NewType DEF Kinds
<1>2. /\ mem \in [Structs -> Struct] /\ reach \subseteq Structs /\ k # t
      /\ mem[k].kind = NULL /\ mem[t].kind = NULL /\ k \notin reach /\ t \notin reach
      /\ mem' = [mem EXCEPT ![k] = rk, ![t] = rt] /\ reach' = reach \cup {k}
  BY DEF Sound, Fine, NewTextKey, IsFree
<1>. HIDE DEF rk, rt
<1>3. mem' \in [Structs -> Struct] /\ mem'[k] = rk /\ mem'[t] = rt /\ k \in reach' /\ t \notin reach'
  BY <1>1, <1>2
<1>4. RUBY # CALL /\ RUBY \notin Structs /\ GONE \notin Structs /\ NULL \notin Structs /\ NULL # "key" /\ NULL # "text"
  BY DEF Kinds
<1>5. Fine(mem', reach', k) /\ Fine(mem', reach', t)
  BY <1>1, <1>2, <1>3, <1>4 DEF Fine, Given
<1>6. mem' \in [Structs -> Struct] /\ reach' \in SUBSET Structs
  BY <1>2, <1>3
<1>7. \A s \in Structs : \/ mem'[s] = mem[s] /\ (s \in reach' => s \in reach)
                         \/ mem[s].kind = NULL /\ Fine(mem', reach', s)
  BY <1>2, <1>5
<1>8. QED
  BY <1>6, <1>7, Placed

\* structures of GeoJson get another owner, or have been destroyed by one
LEMMA GeosSound ==
  ASSUME NEW m, NEW R, Sound(m, R), NEW G \in SUBSET R, \A g \in G : m[g].kind = "geo",
         NEW r \in Structs \ G, m[r].kind # NULL, NEW m2 \in [Structs -> Struct],
         \A s \in Structs \ G : m2[s] = m[s],
         \A g \in G : /\ m2[g].held = m[g].held \/ m2[g].held = m[g].held \cup {r}
                      /\ m2[g].kind = "geo" /\ m2[g].stage = m[g].stage
                      /\ m2[g].of = m[g].of /\ m2[g].keeps = m[g].keeps
  PROVE  Sound(m2, R)
<1>. USE TokensAssumption
<1>1. R \subseteq Structs /\ m \in [Structs -> Struct]
  BY DEF Sound
<1>2. \A t \in Structs : m[t].kind # NULL => m2[t].kind # NULL
  BY <1>1 DEF Kinds
<1>3. ASSUME NEW s \in Structs, s \in G PROVE Fine(m2, R, s)
  <2>1. Fine(m, R, s) /\ s # r /\ r # CALL
    BY <1>3 DEF Sound
  <2>2. m2[s].kind = "geo" /\ NULL # "geo"
    BY <1>3 DEF Kinds
  <2>3. QED
    BY <1>1, <1>2, <1>3, <2>1, <2>2 DEF Fine, Given
<1>4. ASSUME NEW s \in Structs, s \notin G PROVE Fine(m2, R, s)
  <2>1. Fine(m, R, s) /\ m2[s] = m[s]
    BY <1>4 DEF Sound
  <2>2. QED
    BY <1>2, <2>1 DEF Fine
<1>5. QED
  BY <1>1, <1>3, <1>4 DEF Sound

LEMMA RecordSound ==
  ASSUME Sound(mem, reach), NEW r \in Structs, NEW G \in SUBSET Geos, NewRecord(r, G) \/ BrokenRecord(r, G)
  PROVE  Sound(mem', reach')
<1>. USE TokensAssumption
<1>. DEFINE rr == New("record", {RUBY})
            m1 == [mem EXCEPT ![r] = rr]
<1>1. /\ rr \in Struct /\ rr.kind = "record" /\ rr.held = {RUBY} /\ rr.stage = "ready" /\ ~rr.dead
      /\ rr.of = NULL /\ ~rr.keeps /\ NULL # "record"
  BY NewType DEF Kinds
<1>2. /\ mem \in [Structs -> Struct] /\ reach \subseteq Structs /\ mem[r].kind = NULL
      /\ r \notin reach /\ G \subseteq reach /\ (\A g \in G : mem[g].kind = "geo")
      /\ mem' = Take(m1, r, G) /\ reach' \in {reach, reach \cup {r}}
  BY DEF Sound, Fine, NewRecord, BrokenRecord, IsFree, Geos
<1>. HIDE DEF rr
<1>3. Fine(m1, reach', r)
  <2>1. m1[r] = rr /\ RUBY # CALL /\ RUBY \notin Structs /\ GONE # NULL /\ NULL \notin Structs
    BY <1>2
  <2>2. QED
    BY <1>1, <2>1 DEF Fine
<1>4. Sound(m1, reach')
  <2>1. Sound(mem, reach)
    OBVIOUS
  <2>2. m1 \in [Structs -> Struct]
    BY <1>1, <1>2
  <2>3. reach' \in SUBSET Structs
    BY <1>2
  <2>4. \A s \in Structs : \/ m1[s] = mem[s] /\ (s \in reach' => s \in reach)
                           \/ mem[s].kind = NULL /\ Fine(m1, reach', s)
    BY <1>2, <1>3
  <2>. HIDE DEF m1
  <2>5. QED
    BY <2>1, <2>2, <2>3, <2>4, Placed
<1>5. /\ m1 \in [Structs -> Struct] /\ m1[r].kind # NULL /\ r \notin G
      /\ \A g \in G : m1[g] = mem[g] /\ m1[g].kind = "geo"
  BY <1>1, <1>2
<1>6. ASSUME NEW g \in G
      PROVE  /\ mem'[g] \in Struct /\ mem'[g].held = m1[g].held \cup {r}
             /\ mem'[g].kind = m1[g].kind /\ mem'[g].stage = m1[g].stage /\ mem'[g].dead = m1[g].dead
             /\ mem'[g].of = m1[g].of /\ mem'[g].keeps = m1[g].keeps
  <2>1. g \in Structs /\ m1[g] \in Struct
    BY <1>2, <1>5
  <2>2. mem'[g] = [m1[g] EXCEPT !.held = @ \cup {r}]
    BY <1>2, <2>1 DEF Take
  <2>. HIDE DEF m1
  <2>3. QED
    BY <2>1, <2>2 DEF Struct
<1>7. \A s \in Structs \ G : mem'[s] = m1[s]
  BY <1>2 DEF Take
<1>8. mem' \in [Structs -> Struct]
  <2>1. mem' = [s \in Structs |-> mem'[s]]
    BY <1>2 DEF Take
  <2>2. QED
    BY <1>5, <1>6, <1>7, <2>1
<1>. HIDE DEF m1
<1>9. G \in SUBSET reach' /\ r \in Structs \ G
  BY <1>2, <1>5
<1>10. \A g \in G : /\ mem'[g].held = m1[g].held \/ mem'[g].held = m1[g].held \cup {r}
                   /\ mem'[g].kind = "geo" /\ mem'[g].stage = m1[g].stage
                   /\ mem'[g].of = m1[g].of /\ mem'[g].keeps = m1[g].keeps
  BY <1>5, <1>6
<1>11. QED
  BY <1>4, <1>5, <1>7, <1>8, <1>9, <1>10, GeosSound

LEMMA PutSound ==
  ASSUME Sound(mem, reach), NEW r \in Structs, NEW G \in SUBSET Geos, Put(r, G)
  PROVE  Sound(mem', reach')
<1>1. /\ mem \in [Structs -> Struct] /\ mem[r].kind = NULL /\ Sound(mem, reach) /\ reach' = reach
      /\ G \subseteq reach /\ G \subseteq Structs /\ (\A g \in G : mem[g].kind = "geo")
  BY DEF Sound, Put, OnRecord, IsFree, Geos
<1>2. mem' = [s \in Structs |-> IF s \in G THEN [mem[s] EXCEPT !.dead = TRUE] ELSE mem[s]]
  <2>. DEFINE m == [s \in Structs |-> IF s \in G THEN [mem[s] EXCEPT !.dead = TRUE] ELSE mem[s]]
  <2>1. m \in [Structs -> Struct]
    <3>1. \A s \in Structs : [mem[s] EXCEPT !.dead = TRUE] \in Struct
      <4>1. ASSUME NEW d \in Struct PROVE [d EXCEPT !.dead = TRUE] \in Struct
        BY DEF Struct
      <4>2. QED
        BY <1>1, <4>1
    <3>2. QED
      BY <1>1, <3>1
  <2>2. \A s \in Structs : CALL \notin m[s].held
    BY <1>1 DEF Sound, Fine, Struct
  <2>3. \E way : mem' = Ends(m, way)
    BY <1>1, AfterPut DEF Put, OnRecord
  <2>. HIDE DEF m
  <2>4. mem' = m
    BY <2>1, <2>2, <2>3, EndsClean
  <2>5. QED
    BY <2>4 DEF m
<1>3. ASSUME NEW g \in G
      PROVE  /\ mem'[g] \in Struct /\ mem'[g].held = mem[g].held /\ mem'[g].dead
             /\ mem'[g].kind = mem[g].kind /\ mem'[g].stage = mem[g].stage
             /\ mem'[g].of = mem[g].of /\ mem'[g].keeps = mem[g].keeps
  BY <1>1, <1>2 DEF Struct
<1>4. \A s \in Structs \ G : mem'[s] = mem[s]
  BY <1>2
<1>5. mem' \in [Structs -> Struct]
  <2>1. mem' = [s \in Structs |-> mem'[s]]
    BY <1>2
  <2>2. QED
    BY <1>1, <1>3, <1>4, <2>1
<1>6. CASE G = {}
  BY <1>1, <1>2, <1>6
<1>7. CASE G # {}
  <2>1. PICK c \in reach : mem[c].kind = "client"
    BY DEF Put, OnRecord, Connected, Reached
  <2>2. c \in Structs \ G /\ mem[c].kind # NULL
    BY <1>1, <2>1, TokensAssumption DEF Sound, Kinds
  <2>3. G \in SUBSET reach /\ \A g \in G : /\ mem'[g].held = mem[g].held \/ mem'[g].held = mem[g].held \cup {c}
                   /\ mem'[g].kind = "geo" /\ mem'[g].stage = mem[g].stage
                   /\ mem'[g].of = mem[g].of /\ mem'[g].keeps = mem[g].keeps
    BY <1>1, <1>3
  <2>4. QED
    BY <1>1, <1>4, <1>5, <2>2, <2>3, GeosSound
<1>8. QED
  BY <1>6, <1>7

LEMMA ForegroundSound ==
  ASSUME Sound(mem, reach), NEW s \in Structs, NEW k \in {"query", "scan"}, NEW A \in SUBSET Structs,
         Foreground(s, k, A)
  PROVE  Sound(mem', reach')
<1>1. k \in Kinds \ {"client", "key"}
  BY DEF Kinds
<1>2. mem' = mem /\ reach' = reach
  BY <1>1, AfterForeground DEF Foreground
<1>3. QED
  BY <1>2 DEF Sound, Fine

\* a call that ends: what it has not destroyed is lost as Leaks says, or in an exception
LEMMA LeavesSound ==
  ASSUME Sound(mem, reach), NEW q \in Structs, NEW A \in SUBSET Structs, NEW S \in SUBSET (A \cup {q}),
         NEW k \in Kinds \ {"client", "key"}, NEW ka \in Kinds \ {"client", "key"},
         NEW way \in Ways, Leaves(q, k, A, ka, S, way),
         q \in S \/ way = "exception" \/ <<k, way>> \in Leaks,
         A \subseteq S \/ way = "exception" \/ <<ka, way>> \in Leaks
  PROVE  Sound(mem', reach')
<1>. USE TokensAssumption
<1>. DEFINE m == Both(q, k, A, ka)
<1>1. /\ mem \in [Structs -> Struct] /\ reach \subseteq Structs /\ reach' = reach
      /\ mem' = Ends(Cleared(m, S), way)
      /\ mem[q].kind = NULL /\ q \notin reach /\ q \notin A
      /\ \A t \in A : mem[t].kind = NULL /\ t \notin reach
  BY DEF Sound, Fine, Leaves, Fresh, IsFree
<1>2. \A x \in Kinds : /\ Lost(x, way) \in Struct /\ Lost(x, way).kind = x /\ Lost(x, way).held = {}
                      /\ ~Lost(x, way).dead /\ Lost(x, way).of = NULL /\ Lost(x, way).stage = way
                      /\ ~Lost(x, way).keeps
  BY DEF Lost, New, Free, Struct
<1>3. \A x \in Kinds \ {"client", "key"} : Less(New(x, {CALL}), CALL) = Free
  BY DEF Less, New, Free, Unfreed
<1>4. \A x \in Kinds : New(x, {CALL}).held = {CALL} /\ New(x, {CALL}).kind = x
  BY DEF New, Free
<1>5. mem'[q] \in {Free, Lost(k, way)} /\ (q \in S => mem'[q] = Free)
  <2>1. m[q] = New(k, {CALL})
    BY DEF Both, With
  <2>2. Cleared(m, S)[q] = IF q \in S THEN Free ELSE New(k, {CALL})
    BY <1>3, <2>1 DEF Cleared
  <2>3. QED
    BY <1>1, <1>4, <2>2 DEF Ends, Free
<1>6. \A t \in A : mem'[t] \in {Free, Lost(ka, way)} /\ (t \in S => mem'[t] = Free)
  <2>. TAKE t \in A
  <2>1. m[t] = New(ka, {CALL})
    BY <1>1 DEF Both, With
  <2>2. Cleared(m, S)[t] = IF t \in S THEN Free ELSE New(ka, {CALL})
    BY <1>3, <2>1 DEF Cleared
  <2>3. QED
    BY <1>1, <1>4, <2>2 DEF Ends, Free
<1>7. \A t \in Structs \ (A \cup {q}) : mem'[t] = mem[t]
  <2>. SUFFICES ASSUME NEW t \in Structs, t \notin A \cup {q} PROVE mem'[t] = mem[t]
    OBVIOUS
  <2>1. m[t] = mem[t] /\ CALL \notin mem[t].held
    BY DEF Both, With, Sound, Fine
  <2>2. t \notin S
    OBVIOUS
  <2>. HIDE DEF m
  <2>3. Cleared(m, S)[t] = mem[t]
    BY <2>1, <2>2 DEF Cleared
  <2>4. QED
    BY <1>1, <2>1, <2>3 DEF Ends
<1>8. mem' \in [Structs -> Struct] /\ reach' \in SUBSET Structs
  <2>1. mem' = [t \in Structs |-> mem'[t]]
    BY <1>1 DEF Ends
  <2>2. \A t \in Structs : mem'[t] \in Struct
    BY <1>1, <1>2, <1>5, <1>6, <1>7, FreeType
  <2>3. QED
    BY <1>1, <2>1, <2>2
<1>9. Fine(mem', reach', q) /\ \A t \in A : Fine(mem', reach', t)
  <2>. HIDE DEF m
  <2>1. ASSUME mem'[q] = Free PROVE Fine(mem', reach', q)
    BY <1>1, <2>1, FreeFine
  <2>2. ASSUME mem'[q] # Free PROVE Fine(mem', reach', q)
    BY <1>1, <1>5, <2>2, LostFine
  <2>3. ASSUME NEW t \in A, mem'[t] = Free PROVE Fine(mem', reach', t)
    BY <1>1, <2>3, FreeFine
  <2>4. ASSUME NEW t \in A, mem'[t] # Free PROVE Fine(mem', reach', t)
    BY <1>1, <1>6, <2>4, LostFine
  <2>5. QED
    BY <2>1, <2>2, <2>3, <2>4
<1>10. \A t \in Structs : \/ mem'[t] = mem[t] /\ (t \in reach' => t \in reach)
                          \/ mem[t].kind = NULL /\ Fine(mem', reach', t)
  BY <1>1, <1>7, <1>9
<1>11. QED
  BY <1>8, <1>10, Placed

LEMMA CallsSound ==
  ASSUME Sound(mem, reach), NEW s \in Structs, NEW N \in Several,
         \/ Get(s, N) \/ Operate(s) \/ RefusedUdf(s) \/ BatchGet(s, N) \/ BatchKeys(s)
         \/ RefusedBackgroundScan(s, N) \/ \E p \in Pairs : Broken(s, p, N)
         \/ \E a \in Structs : ExecuteUdf(s, a)
  PROVE  Sound(mem', reach')
<1>. DEFINE K == Kinds \ {"client", "key"}
<1>1. {"query", "scan", "record", "operations", "args", "result", "batch", "names"} \subseteq K
  BY DEF Kinds
<1>2. N \in SUBSET Structs
  BY DEF Several
<1>3. Statuses \subseteq Ways /\ {"returned", "notfound", "status", "exception"} \subseteq Ways
  BY DEF Ways, Statuses
<1>. HIDE DEF K
<1>4. ASSUME NEW k \in K, NEW ka \in K, NEW A \in SUBSET Structs, NEW way \in Ways,
             Leaves(s, k, A, ka, {s} \cup A, way)
      PROVE  Sound(mem', reach')
  BY <1>4, LeavesSound DEF K
<1>5. CASE Get(s, N)
  BY <1>1, <1>2, <1>3, <1>4, <1>5 DEF Get
<1>6. CASE Operate(s) \/ BatchKeys(s) \/ RefusedUdf(s)
  <2>1. PICK k \in K, ka \in K, way \in Ways : Leaves(s, k, {}, ka, {s}, way)
    BY <1>1, <1>3, <1>6 DEF Operate, BatchKeys, RefusedUdf
  <2>2. {s} \cup {} = {s} /\ {} \in SUBSET Structs
    OBVIOUS
  <2>3. QED
    BY <1>4, <2>1, <2>2
<1>7. CASE BatchGet(s, N)
  <2>. DEFINE k == "batch"
              ka == "names"
  <2>1. k \in K /\ ka \in K
    BY <1>1
  <2>2. CASE Leaves(s, k, N, ka, {s} \cup N, "returned")
    BY <1>2, <1>3, <1>4, <2>1, <2>2
  <2>3. CASE Leaves(s, k, N, ka, {}, "notfound")
    <3>1. <<k, "notfound">> \in Leaks /\ <<ka, "notfound">> \in Leaks
      BY DEF Leaks
    <3>. HIDE DEF k, ka
    <3>2. QED
      BY <1>2, <1>3, <2>1, <2>3, <3>1, LeavesSound DEF K
  <2>4. CASE Leaves(s, k, N, ka, {s}, "status")
    <3>1. <<ka, "status">> \in Leaks
      BY DEF Leaks
    <3>. HIDE DEF k, ka
    <3>2. QED
      BY <1>2, <1>3, <2>1, <2>4, <3>1, LeavesSound DEF K
  <2>5. QED
    BY <1>7, <2>2, <2>3, <2>4 DEF BatchGet
<1>8. CASE RefusedBackgroundScan(s, N)
  <2>1. <<"scan", "status">> \in Leaks /\ <<"args", "status">> \in Leaks
    BY DEF Leaks
  <2>2. QED
    BY <1>1, <1>2, <1>3, <1>8, <2>1, LeavesSound DEF K, RefusedBackgroundScan
<1>9. ASSUME NEW p \in Pairs, Broken(s, p, N) PROVE Sound(mem', reach')
  <2>1. p[1] \in K /\ p[2] \in K
    BY <1>1 DEF Pairs
  <2>2. QED
    BY <1>2, <1>3, <1>9, <2>1, LeavesSound DEF K, Broken
<1>10. ASSUME NEW a \in Structs, ExecuteUdf(s, a) PROVE Sound(mem', reach')
  <2>1. <<"result", "returned">> \in Leaks
    BY DEF Leaks
  <2>2. {a} \in SUBSET Structs /\ {a} \in SUBSET ({a} \cup {s}) /\ {a} \subseteq {a}
    OBVIOUS
  <2>3. QED
    BY <1>1, <1>3, <1>10, <2>1, <2>2, LeavesSound DEF K, ExecuteUdf
<1>11. QED
  BY <1>5, <1>6, <1>7, <1>8, <1>9, <1>10

LEMMA TornSound ==
  ASSUME Sound(mem, reach), NEW s \in Structs, NEW A \in SUBSET Structs,
         RefusedBackgroundQuery(s, A)
  PROVE  Sound(mem', reach')
<1>. USE TokensAssumption
<1>1. /\ Sound(mem, reach) /\ "query" \in Kinds /\ reach' = reach
      /\ mem \in [Structs -> Struct] /\ reach \subseteq Structs /\ Fresh(s, A)
  BY DEF Sound, Kinds, RefusedBackgroundQuery
<1>2. mem' = [t \in Structs |-> IF t \in A THEN Torn({}) ELSE mem[t]]
  BY <1>1, AfterRefusal DEF RefusedBackgroundQuery
<1>3. Torn({}) \in Struct /\ Torn({}).kind = "args" /\ Torn({}).held = {} /\ Torn({}).dead /\ Torn({}).of = NULL
      /\ Torn({}).stage = "ready"
  BY DEF Torn, Struct, Kinds
<1>4. \A t \in A : mem[t].kind = NULL /\ t \notin reach
  BY <1>1 DEF Fresh, IsFree, Sound, Fine
<1>5. Sound(mem', reach')
  <2>1. mem' \in [Structs -> Struct]
    BY <1>1, <1>2, <1>3
  <2>2. reach' \in SUBSET Structs
    BY <1>1
  <2>3. \A t \in A : Fine(mem', reach', t)
    BY <1>1, <1>2, <1>3, <1>4 DEF Fine, Given, Kinds
  <2>4. \A t \in Structs : \/ mem'[t] = mem[t] /\ (t \in reach' => t \in reach)
                           \/ mem[t].kind = NULL /\ Fine(mem', reach', t)
    BY <1>1, <1>2, <1>4, <2>3
  <2>5. QED
    BY <1>1, <2>1, <2>2, <2>4, Placed
<1>6. QED
  BY <1>5

\* a background call: the task s points at its client c, and the arguments are torn
LEMMA TaskPlaced ==
  ASSUME Sound(mem, reach), NEW s \in Structs, NEW A \in SUBSET Structs, NEW c \in Structs, Fresh(s, A), Open(c),
         NEW r \in Struct, r.kind \in {"query", "watch"}, r.stage = "ready", r.held = {RUBY}, ~r.dead, r.of = c, r.keeps,
         NEW a \in Struct, a.kind = "args", a.held \subseteq {s}, a.dead, a.of = NULL, a.stage = "ready",
         mem' = With(s, r, A, a), reach' = reach \cup {s}
  PROVE  Sound(mem', reach')
<1>. USE TokensAssumption
<1>1. /\ mem \in [Structs -> Struct] /\ reach \subseteq Structs /\ reach' = reach \cup {s}
      /\ mem[s].kind = NULL /\ s \notin reach /\ s \notin A /\ mem[c].kind = "client"
      /\ \A t \in A : mem[t].kind = NULL /\ t \notin reach
  BY DEF Sound, Fine, Fresh, IsFree, Open, Reached
<1>2. mem' = [t \in Structs |-> IF t = s THEN r ELSE IF t \in A THEN a ELSE mem[t]]
  BY DEF With
<1>3. c # s /\ c \notin A /\ NULL # "client" /\ mem'[c] = mem[c]
  BY <1>1, <1>2 DEF Kinds
<1>4. Sound(mem', reach')
  <2>1. Sound(mem, reach)
    OBVIOUS
  <2>2. mem' \in [Structs -> Struct]
    BY <1>1, <1>2
  <2>3. reach' \in SUBSET Structs
    BY <1>1
  <2>4. Fine(mem', reach', s)
    BY <1>1, <1>2, <1>3 DEF Fine, Kinds, Given
  <2>5. \A t \in A : Fine(mem', reach', t)
    BY <1>1, <1>2 DEF Fine, Kinds, Given
  <2>6. \A t \in Structs : \/ mem'[t] = mem[t] /\ (t \in reach' => t \in reach)
                           \/ mem[t].kind = NULL /\ Fine(mem', reach', t)
    BY <1>1, <1>2, <2>4, <2>5
  <2>7. QED
    BY <2>1, <2>2, <2>3, <2>6, Placed
<1>5. QED
  BY <1>4

LEMMA TaskSound ==
  ASSUME Sound(mem, reach), NEW s \in Structs, NEW A \in SUBSET Structs, NEW c \in Structs,
         BackgroundQuery(s, A, c) \/ BackgroundScan(s, A, c)
  PROVE  Sound(mem', reach')
<1>1. /\ Torn({}) \in Struct /\ Torn({}).kind = "args" /\ Torn({}).held = {}
      /\ Torn({}).dead /\ Torn({}).of = NULL /\ Torn({}).stage = "ready"
  BY DEF Torn, Struct, Kinds
<1>2. /\ Torn({s}) \in Struct /\ Torn({s}).kind = "args" /\ Torn({s}).held = {s}
      /\ Torn({s}).dead /\ Torn({s}).of = NULL /\ Torn({s}).stage = "ready"
  BY DEF Torn, Struct, Kinds
<1>3. {"query", "watch"} \subseteq Kinds
  BY DEF Kinds
<1>4. CASE BackgroundQuery(s, A, c)
  <2>. DEFINE r == Pointing("query", c, TRUE)
              a == Torn({s})
  <2>1. Fresh(s, A) /\ Open(c)
    BY <1>4 DEF BackgroundQuery
  <2>2. mem' = With(s, r, A, a) /\ reach' = reach \cup {s}
    BY <1>4 DEF BackgroundQuery
  <2>3. "query" \in Kinds
    BY <1>3
  <2>4. r \in Struct /\ r.kind = "query" /\ r.stage = "ready" /\ r.held = {RUBY} /\ ~r.dead /\ r.of = c
    BY <2>3 DEF Pointing, New, Free, Struct
  <2>5. r.keeps
    BY DEF Pointing, New, Free
  <2>6. a \in Struct /\ a.kind = "args" /\ a.held \subseteq {s} /\ a.dead /\ a.of = NULL /\ a.stage = "ready"
    BY <1>2
  <2>. HIDE DEF r, a
  <2>7. QED
    BY <2>1, <2>2, <2>4, <2>5, <2>6, TaskPlaced
<1>5. CASE BackgroundScan(s, A, c)
  <2>. DEFINE r == Pointing("watch", c, TRUE)
              a == Torn({})
  <2>1. Fresh(s, A) /\ Open(c)
    BY <1>5 DEF BackgroundScan
  <2>2. mem' = With(s, r, A, a) /\ reach' = reach \cup {s}
    BY <1>5 DEF BackgroundScan
  <2>3. "watch" \in Kinds
    BY <1>3
  <2>4. r \in Struct /\ r.kind = "watch" /\ r.stage = "ready" /\ r.held = {RUBY} /\ ~r.dead /\ r.of = c
    BY <2>3 DEF Pointing, New, Free, Struct
  <2>5. r.keeps
    BY DEF Pointing, New, Free
  <2>6. a \in Struct /\ a.kind = "args" /\ a.held \subseteq {s} /\ a.dead /\ a.of = NULL /\ a.stage = "ready"
    BY <1>1
  <2>. HIDE DEF r, a
  <2>7. QED
    BY <2>1, <2>2, <2>4, <2>5, <2>6, TaskPlaced
<1>6. QED
  BY <1>4, <1>5

LEMMA WatchSound ==
  ASSUME Sound(mem, reach), NEW s \in Structs, NEW c \in Structs, CreateIndex(s, c) \/ RegisterUdf(s, c)
  PROVE  Sound(mem', reach')
<1>. USE TokensAssumption
<1>1. mem[c].kind # NULL
  BY DEF CreateIndex, RegisterUdf, Open, Reached, Kinds
<1>2. PICK k \in {"index", "watch"}, keeps \in BOOLEAN :
        Made(s, Pointing(k, c, keeps)) /\ (keeps \/ k = "index")
  BY DEF CreateIndex, RegisterUdf
<1>. DEFINE r == Pointing(k, c, keeps)
<1>3. /\ r \in Struct /\ r.kind = k /\ r.stage = "ready" /\ r.held = {RUBY} /\ ~r.dead /\ r.of = c /\ r.keeps = keeps
      /\ k # NULL /\ k \notin Given
  BY PointingType DEF Kinds, Given
<1>. HIDE DEF r
<1>4. Made(s, r)
  BY <1>2 DEF r
<1>5. QED
  BY <1>1, <1>2, <1>3, <1>4, MadeSound

LEMMA CloseSound ==
  ASSUME Sound(mem, reach), NEW c \in Structs, Close(c)
  PROVE  Sound(mem', reach')
<1>1. /\ mem \in [Structs -> Struct] /\ mem' = [mem EXCEPT ![c].stage = "closed"] /\ reach' = reach
      /\ c \in reach /\ mem[c].kind = "client"
  BY DEF Sound, Close, Open, Reached
<1>2. /\ mem'[c] \in Struct /\ mem'[c].kind = mem[c].kind /\ mem'[c].stage = "closed" /\ mem'[c].held = mem[c].held
      /\ mem'[c].dead = mem[c].dead /\ mem'[c].of = mem[c].of /\ mem'[c].keeps = mem[c].keeps
  BY <1>1 DEF Struct
<1>3. \A s \in Structs \ {c} : mem'[s] = mem[s]
  BY <1>1
<1>4. mem' \in [Structs -> Struct]
  BY <1>1 DEF Struct
<1>5. ASSUME NEW s \in Structs PROVE Fine(mem', reach', s)
  <2>1. Fine(mem, reach, s) /\ Fine(mem, reach, c)
    BY DEF Sound
  <2>2. \A t \in Structs : mem'[t].kind = mem[t].kind
    BY <1>2, <1>3
  <2>3. CASE s = c
    BY <1>1, <1>2, <2>1, <2>2, <2>3, TokensAssumption DEF Fine, Kinds
  <2>4. CASE s # c
    BY <1>1, <1>3, <2>1, <2>2, <2>4 DEF Fine
  <2>5. QED
    BY <2>3, <2>4
<1>6. QED
  BY <1>1, <1>4, <1>5 DEF Sound

LEMMA DropSound ==
  ASSUME Sound(mem, reach), NEW s \in Structs, Drop(s)
  PROVE  Sound(mem', reach')
<1>1. mem' = mem /\ reach' = reach \ {s}
  BY DEF Drop
<1>2. Sound(mem, reach) /\ reach' \subseteq reach /\ reach' \subseteq Structs /\ mem \in [Structs -> Struct]
  BY <1>1 DEF Sound
<1>3. ASSUME NEW t \in Structs PROVE Fine(mem, reach', t)
  BY <1>2 DEF Sound, Fine
<1>4. QED
  BY <1>1, <1>2, <1>3 DEF Sound, Fine

\* a structure that stays when s is destroyed by o: nothing changes but what refers to s
LEMMA Remains ==
  ASSUME NEW m \in [Structs -> Struct], NEW s \in Structs, NEW t \in Structs, t # s, NEW o,
         m[t].held # {s} \/ m[t].dead
  PROVE  LET d == Destroy(m, s, o)[t] IN
         /\ d \in Struct /\ d.kind = m[t].kind /\ d.stage = m[t].stage /\ d.keeps = m[t].keeps
         /\ d.held = m[t].held \ {s}
         /\ s \in m[t].held => d.dead /\ d.of = m[t].of
         /\ s \notin m[t].held => d.dead = m[t].dead /\ d.of = IF m[t].of = s THEN GONE ELSE m[t].of
<1>. DEFINE d == Destroy(m, s, o)[t]
<1>1. m[t] \in Struct
  OBVIOUS
<1>2. CASE s \in m[t].held
  <2>1. d = [m[t] EXCEPT !.held = @ \ {s}, !.dead = TRUE]
    BY <1>2 DEF Destroy, Less
  <2>. HIDE DEF d
  <2>2. d.held = m[t].held \ {s} /\ d.dead /\ d.kind = m[t].kind /\ d.stage = m[t].stage
        /\ d.keeps = m[t].keeps /\ d.of = m[t].of
    BY <1>1, <2>1 DEF Struct
  <2>3. d \in Struct
    BY <1>1, <2>1 DEF Struct
  <2>. USE DEF d
  <2>4. QED
    BY <1>2, <2>2, <2>3
<1>3. CASE s \notin m[t].held
  <2>1. d = IF m[t].of = s THEN [m[t] EXCEPT !.of = GONE] ELSE m[t]
    BY <1>3 DEF Destroy
  <2>2. m[t].held \ {s} = m[t].held
    BY <1>3
  <2>3. QED
    BY <1>1, <1>3, <2>1, <2>2 DEF Struct
<1>4. QED
  BY <1>2, <1>3

LEMMA CollectSound ==
  ASSUME Sound(mem, reach), NEW s \in Structs, Collect(s)
  PROVE  Sound(mem', reach')
<1>. USE TokensAssumption
<1>1. /\ Sound(mem, reach) /\ mem \in [Structs -> Struct] /\ reach \subseteq Structs /\ reach' = reach
      /\ mem' = Destroy(mem, s, RUBY) /\ s \notin reach /\ RUBY \in mem[s].held /\ ~Kept(s)
  BY DEF Sound, Collect
<1>2. \A t \in Structs : Fine(mem, reach, t)
  BY <1>1 DEF Sound
<1>3. ASSUME NEW t \in Structs, t # s
      PROVE  /\ mem'[t] \in Struct /\ mem'[t].kind = mem[t].kind /\ mem'[t].stage = mem[t].stage
             /\ mem'[t].keeps = mem[t].keeps /\ mem'[t].held = mem[t].held \ {s}
             /\ s \in mem[t].held => mem'[t].dead /\ mem'[t].of = mem[t].of
             /\ s \notin mem[t].held =>
                  mem'[t].dead = mem[t].dead /\ mem'[t].of = IF mem[t].of = s THEN GONE ELSE mem[t].of
  <2>1. mem[t].held # {s} \/ mem[t].dead
    BY <1>2, <1>3 DEF Fine
  <2>2. QED
    BY <1>1, <1>3, <2>1, Remains
<1>4. /\ mem'[s] \in Struct
      /\ \/ mem'[s] = Free
         \/ mem'[s] = Lost(mem[s].kind, "collected") /\ mem[s].kind \in {"client", "key"}
         \/ /\ mem'[s].dead /\ mem'[s].held = mem[s].held \ {RUBY} /\ mem'[s].kind = mem[s].kind
            /\ mem'[s].stage = mem[s].stage
            /\ mem'[s].of = mem[s].of /\ mem'[s].keeps = mem[s].keeps /\ mem[s].kind # NULL
            /\ mem[s].kind \in Given \/ mem[s].kind = "client"
  <2>1. mem'[s] = Less(mem[s], RUBY)
    BY <1>1 DEF Destroy
  <2>2. mem[s] \in Struct /\ mem[s].kind # NULL
    BY <1>1, <1>2 DEF Fine, Free
  <2>3. mem[s].dead \/ ~(mem[s].held \subseteq {RUBY}) => mem[s].kind \in Given \/ mem[s].kind = "client"
    BY <1>2 DEF Fine
  <2>. DEFINE l == Less(mem[s], RUBY)
  <2>4. /\ l \in Struct
        /\ \/ l = Free
           \/ l = Lost(mem[s].kind, "collected") /\ mem[s].kind \in {"client", "key"}
           \/ /\ l.dead /\ l.held = mem[s].held \ {RUBY} /\ l.kind = mem[s].kind /\ l.stage = mem[s].stage
              /\ l.of = mem[s].of /\ l.keeps = mem[s].keeps /\ (mem[s].dead \/ ~(mem[s].held \subseteq {RUBY}))
    BY <2>2, LessType
  <2>. HIDE DEF l
  <2>5. mem'[s] = l
    BY <2>1 DEF l
  <2>6. QED
    BY <2>2, <2>3, <2>4, <2>5
<1>5. mem' \in [Structs -> Struct]
  <2>1. mem' = [t \in Structs |-> mem'[t]]
    BY <1>1 DEF Destroy
  <2>2. QED
    BY <1>3, <1>4, <2>1
<1>6. Fine(mem', reach', s)
  <2>1. CASE mem'[s] = Free
    BY <1>1, <2>1, FreeFine
  <2>2. CASE mem'[s] = Lost(mem[s].kind, "collected") /\ mem[s].kind \in {"client", "key"}
    <3>1. mem[s].kind \in Kinds /\ "collected" \in Ways /\ <<mem[s].kind, "collected">> \in Leaks
      BY <2>2 DEF Kinds, Ways, Leaks
    <3>2. QED
      BY <1>1, <2>2, <3>1, LostFine
  <2>3. CASE mem'[s].dead
    <3>1. /\ mem'[s].held = mem[s].held \ {RUBY} /\ mem'[s].kind = mem[s].kind
          /\ mem'[s].stage = mem[s].stage
          /\ mem'[s].of = mem[s].of /\ mem'[s].keeps = mem[s].keeps /\ mem[s].kind # NULL
          /\ mem[s].kind \in Given \/ mem[s].kind = "client"
      <4>1. ~Free.dead /\ ~Lost(mem[s].kind, "collected").dead
        BY DEF Free, Lost, New
      <4>2. QED
        BY <1>4, <2>3, <4>1
    <3>2. \A t \in Structs : t \in mem'[s].held \/ mem'[s].of = t => mem'[t].kind # NULL /\ t # s
      BY <1>2, <1>3, <3>1 DEF Fine
    <3>3. Fine(mem, reach, s) /\ s \notin reach'
      BY <1>1, <1>2
    <3>4. QED
      BY <2>3, <3>1, <3>2, <3>3 DEF Fine
  <2>4. QED
    BY <1>4, <2>1, <2>2, <2>3
<1>7. ASSUME NEW t \in Structs, t # s PROVE Fine(mem', reach', t)
  <2>1. \A u \in Structs : u \in mem'[t].held \/ mem'[t].of = u => mem'[u].kind # NULL /\ u # t
    <3>1. ASSUME NEW u \in Structs, u \in mem'[t].held \/ mem'[t].of = u PROVE u # s /\ mem[u].kind # NULL /\ u # t
      BY <1>2, <1>3, <1>7, <3>1 DEF Fine, Given
    <3>2. QED
      BY <1>3, <3>1
  <2>2. t \in reach => (mem'[t].keeps => mem'[t].of # GONE)
    BY <1>1, <1>2, <1>3, <1>7 DEF Fine, Kept
  <2>3. mem'[t].kind = NULL => mem'[t] = Free
    <3>1. mem[t].kind = NULL => mem[t].held = {} /\ mem[t].of = NULL /\ mem[t] = Free
      <4>1. mem[t].kind = NULL => mem[t] = Free
        BY <1>2, <1>7 DEF Fine
      <4>2. QED
        BY <4>1 DEF Free
    <3>2. mem[t].kind = NULL => mem'[t] = mem[t]
      BY <1>1, <1>7, <3>1 DEF Destroy
    <3>3. QED
      BY <1>3, <1>7, <3>1, <3>2
  <2>4. QED
    BY <1>1, <1>2, <1>3, <1>7, <2>1, <2>2, <2>3 DEF Fine, Given
<1>8. QED
  BY <1>1, <1>5, <1>6, <1>7 DEF Sound

-----------------------------------------------------------------------------
(* The theorems *)

\* no step but Stop stops the program
LEMMA OnlyStops ==
  ASSUME NEW s \in Structs, Construct(s) \/ CallRecord(s) \/ CallMany(s) \/ Administer(s) \/ Drop(s) \/ Collect(s)
  PROVE  up' = up
<1>1. ASSUME Construct(s) PROVE up' = up
  BY <1>1 DEF Construct, NewClient, RefusedClient, UnconnectedClient, NewKey, RefusedKey, NewTextKey, NewGeo,
     RefusedGeo, NewPolicy, LostPolicy, NewRecord, BrokenRecord, RefusedRecord, Made, Left, Refused
<1>2. ASSUME CallRecord(s) PROVE up' = up
  BY <1>2 DEF CallRecord, Put, Get, ExecuteUdf, BrokenPut, Operate, BrokenOperate, RefusedUdf, Leaves, Left
<1>3. ASSUME CallMany(s) PROVE up' = up
  BY <1>3 DEF CallMany, BatchGet, BatchKeys, BrokenNames, Foreground, Broken, BrokenArguments, RefusedBackgroundQuery,
     RefusedBackgroundScan, BackgroundQuery, BackgroundScan, Leaves, Left
<1>4. ASSUME Administer(s) PROVE up' = up
  BY <1>4 DEF Administer, RefusedCreateIndex, Close, CreateIndex, RegisterUdf, Made, Left
<1>5. ASSUME Drop(s) \/ Collect(s) PROVE up' = up
  BY <1>5 DEF Drop, Collect
<1>6. QED
  BY <1>1, <1>2, <1>3, <1>4, <1>5

LEMMA Inductive == IInv /\ [Next]_vars => IInv'
<1>. SUFFICES ASSUME IInv, [Next]_vars
              PROVE  IInv'
  OBVIOUS
<1>1. Sound(mem, reach) /\ up \in BOOLEAN /\ (~up => \E s \in Structs : Undefined(s))
  BY DEF IInv
<1>2. ASSUME NEW s \in Structs, Construct(s) \/ CallRecord(s) \/ Administer(s)
      PROVE  Sound(mem', reach')
  BY <1>1, <1>2, ConstructorsSound, TextKeySound, RecordSound, PutSound, CallsSound, WatchSound, CloseSound
     DEF Construct, CallRecord, Administer, Several
<1>3. ASSUME NEW s \in Structs, CallMany(s)
      PROVE  Sound(mem', reach')
  <2>1. Several \subseteq SUBSET Structs
    BY DEF Several
  <2>2. QED
    BY <1>1, <1>3, <2>1, ConstructorsSound, CallsSound, ForegroundSound, TornSound, TaskSound DEF CallMany
<1>4. ASSUME NEW s \in Structs, Drop(s) \/ Collect(s)
      PROVE  Sound(mem', reach')
  BY <1>1, <1>4, DropSound, CollectSound
<1>5. ASSUME NEW s \in Structs,
             Construct(s) \/ CallRecord(s) \/ CallMany(s) \/ Administer(s) \/ Drop(s) \/ Collect(s), up
      PROVE  IInv'
  BY <1>1, <1>2, <1>3, <1>4, <1>5, OnlyStops DEF IInv
<1>6. ASSUME NEW s \in Structs, Stop(s)
      PROVE  IInv'
  <2>1. mem' = mem /\ reach' = reach /\ up' = FALSE /\ Undefined(s)
    BY <1>6 DEF Stop
  <2>2. Undefined(s)'
    BY <2>1 DEF Undefined
  <2>3. Sound(mem', reach')
    BY <1>1, <2>1
  <2>4. QED
    BY <2>1, <2>2, <2>3 DEF IInv
<1>7. CASE UNCHANGED vars
  BY <1>1, <1>7 DEF vars, IInv, Sound, Fine, Undefined
<1>8. QED
  BY <1>5, <1>6, <1>7 DEF Next

LEMMA Invariant == Spec => []IInv
<1>1. Init => IInv
  <2>. SUFFICES ASSUME Init PROVE IInv
    OBVIOUS
  <2>1. /\ \A s \in Structs : mem[s] = Free
        /\ mem \in [Structs -> Struct] /\ reach = {} /\ up = TRUE
    BY FreeType DEF Init
  <2>2. ASSUME NEW s \in Structs PROVE Fine(mem, reach, s)
    BY <2>1, FreeFine
  <2>3. QED
    BY <2>1, <2>2 DEF IInv, Sound
<1>2. QED
  BY <1>1, Inductive, PTL DEF Spec

\* Every variable keeps its type, for any number of structures.
THEOREM TypeCorrect == Spec => []TypeOK
<1>1. IInv => TypeOK
  BY DEF IInv, Sound, TypeOK
<1>2. QED
  BY <1>1, Invariant, PTL

\* No structure is destroyed by two owners, with the three exceptions the code makes.
THEOREM DestroyedOnce == Spec => []OneOwner
<1>1. IInv => OneOwner
  BY DEF IInv, Sound, Fine, OneOwner, Given
<1>2. QED
  BY <1>1, Invariant, PTL

\* What calls lose without an exception in the middle, and what collections leave, are
\* the structures Leaks names.
THEOREM LostAsNamed == Spec => []NothingLost
<1>1. IInv => NothingLost
  BY DEF IInv, Sound, Fine, Named, NothingLost, IsFree
<1>2. QED
  BY <1>1, Invariant, PTL

\* An object the program can use does not lose what it points at, unless it is an
\* IndexTask or a key made from what is no String, and the program stops only after one
\* of the steps Anchored names.
THEOREM AnchoredAlways == Spec => []Anchored
<1>1. IInv => Anchored
  <2>. SUFFICES ASSUME IInv PROVE Anchored
    OBVIOUS
  <2>1. \A s \in Structs : Fine(mem, reach, s)
    BY DEF IInv, Sound
  <2>2. \A s \in reach : mem[s].of = GONE => mem[s].kind = "index" \/ (mem[s].kind = "key" /\ ~mem[s].keeps)
    BY <2>1, TokensAssumption DEF IInv, Sound, Fine
  <2>3. \A s \in reach : mem[s].stage # "raw"
    BY <2>1 DEF IInv, Sound, Fine
  <2>4. ASSUME NEW s \in Structs, Undefined(s)
        PROVE  \E t \in Structs :
                 \/ mem[t].dead /\ mem[t].kind \in {"geo", "args", "client"}
                 \/ mem[t].kind = "result" \/ mem[t].stage = "closed"
                 \/ t \in reach /\ mem[t].of = GONE /\ mem[t].kind \in {"index", "key"}
                 \/ t \notin reach /\ mem[t].stage = "raw" /\ mem[t].kind \in {"client", "key", "geo", "record"}
    <3>1. CASE mem[s].dead \/ mem[s].kind = "result" \/ mem[s].stage = "closed"
      BY <2>1, <3>1 DEF Fine, Given
    <3>2. CASE mem[s].stage = "raw" /\ RUBY \in mem[s].held
      <4>1. mem[s].kind # NULL
        BY <2>1, <3>2 DEF Fine, Free
      <4>2. QED
        BY <2>1, <2>3, <3>2, <4>1 DEF Fine
    <3>3. CASE s \in reach /\ mem[s].of = GONE
      BY <2>2, <3>3
    <3>4. CASE \E c \in Structs : mem[s].of = c /\ mem[c].stage = "closed"
      BY <3>4
    <3>5. QED
      BY <2>4, <3>1, <3>2, <3>3, <3>4 DEF Undefined
  <2>5. QED
    BY <2>2, <2>3, <2>4 DEF IInv, Anchored
<1>2. QED
  BY <1>1, Invariant, PTL
=============================================================================

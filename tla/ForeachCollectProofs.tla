------------------------ MODULE ForeachCollectProofs ------------------------
(* The inductive invariant of ForeachCollect, its safety properties and the *)
(* refinement of CollectContract, for every set of threads and results.      *)
EXTENDS ForeachCollect, TLAPS

NoDuplicate == \A i, j \in 1..Len(order) : order[i] = order[j] => i = j

\* The positions of the list name different blocks, and the end is none of them.
LEMMA NodeFacts ==
  ASSUME order \in Seq(Results), NoDuplicate
  PROVE  /\ Node(0) = First
         /\ Node(Len(order) + 1) = NULL
         /\ \A i \in 1..Len(order) : Node(i) = order[i] /\ Node(i) \in Results
         /\ \A i \in 0..Len(order) : Node(i) \in Items /\ Node(i) # NULL
         /\ \A i, j \in 0..(Len(order) + 1) : Node(i) = Node(j) => i = j
BY ResultsAssumption DEF Node, NoDuplicate, Items

\* Init establishes the invariant.
LEMMA InitIInv == Init => IInv
<1> SUFFICES ASSUME Init PROVE IInv
  OBVIOUS
<1> USE ResultsAssumption, WorkersAssumption DEF Init
<1>1. TypeOK
  <2>1. /\ cell \in [Items -> HeapState] /\ payload \in [Results -> HeapState]
        /\ handle \in HeapState
    BY DEF HeapState
  <2>2. /\ next \in [Items -> Results \cup {NULL}] /\ lastsaved \in Results \cup {NULL}
        /\ data \in Items \cup {NULL} /\ result \in Seq(Results) /\ order \in Seq(Results)
    BY DEF Items
  <2>3. QED
    BY <2>1, <2>2 DEF TypeOK
<1>2. JobInv
  BY DEF JobInv, Linked
<1>3. MutexInv
  BY DEF MutexInv, Holders
<1>4. PartitionInv
  BY DEF PartitionInv, Linked
<1>5. ListInv
  BY DEF ListInv, NoResultLost, Node, Items
<1>6. FreedInv
  <2>1. FreedUpTo(0)
    BY DEF FreedUpTo, Node, Items
  <2>2. QED
    BY <2>1 DEF FreedInv
<1>7. UnlinkedInv /\ ReadyInv
  BY DEF UnlinkedInv, ReadyInv, Linked, Items
<1>8. MainInv
  BY DEF MainInv
<1>9. QED
  BY <1>1, <1>2, <1>3, <1>4, <1>5, <1>6, <1>7, <1>8 DEF IInv

\* A step of the workers that leaves the list and its blocks alone keeps the
\* positions of the freed blocks, the chain and the place of the Ruby thread.
LEMMA ListFrame ==
  ASSUME IInv, main = "foreach",
         UNCHANGED <<mainVars, handle, order>>,
         \A i \in Linked \cup {First} : cell'[i] = cell[i],
         \A r \in Linked : payload'[r] = payload[r]
  PROVE  FreedInv' /\ MainInv'
<1> USE DEF mainVars
<1>1. PICK k \in 0..(Len(order) + 1) : FreedUpTo(k)
  BY DEF IInv, FreedInv
<1>2. \A i \in 0..Len(order) : Node(i) \in Linked \cup {First}
  BY DEF Node, Linked, IInv, TypeOK
<1>3. \A i \in 1..Len(order) : order[i] \in Linked
  BY DEF Linked
<1>4. \A i \in 0..(Len(order) + 1) : Node(i)' = Node(i)
  BY DEF Node
<1>5. FreedUpTo(k)'
  BY <1>1, <1>2, <1>3, <1>4 DEF FreedUpTo
<1>6. QED
  BY <1>5 DEF FreedInv, MainInv, IInv

\* A new result goes to a callback.
LEMMA DeliverIInv ==
  ASSUME IInv, NEW t \in Workers, Deliver(t)
  PROVE  IInv'
<1> USE ResultsAssumption, WorkersAssumption DEF Deliver, Goto, listVars, heapVars, mainVars, histVars
<1>1. TypeOK'
  BY DEF IInv, TypeOK
<1>2. JobInv'
  <2>1. PICK r \in pending : job' = [job EXCEPT ![t] = r] /\ pending' = pending \ {r}
    OBVIOUS
  <2>2. r \in Results /\ r \notin dropped /\ r \notin Linked
    BY DEF IInv, TypeOK, PartitionInv
  <2>3. Linked' = Linked
    BY DEF Linked
  <2>4. \A u \in Workers : job'[u] = (IF u = t THEN r ELSE job[u])
                          /\ pc'[u] = (IF u = t THEN "alloc" ELSE pc[u])
    BY <2>1 DEF IInv, TypeOK
  <2>5. r # NULL
    BY <2>2
  <2>6. \A u, v \in Workers : u # v /\ job'[u] # NULL => job'[u] # job'[v]
    BY <2>1, <2>4 DEF IInv, JobInv
  <2>7. \A u \in Workers : pc'[u] = "idle" <=> job'[u] = NULL
    BY <2>4, <2>5 DEF IInv, JobInv
  <2>8. \A u \in Workers : job'[u] \notin pending' \cup dropped'
    BY <2>1, <2>2, <2>4 DEF IInv, JobInv
  <2>9. \A u \in Workers : job'[u] \in Linked <=> pc'[u] \in {"save", "unlock"}
    BY <2>2, <2>4 DEF IInv, JobInv
  <2>10. QED
    BY <2>3, <2>6, <2>7, <2>8, <2>9 DEF JobInv
<1>3. MutexInv'
  BY DEF IInv, TypeOK, MutexInv, Holders
<1>4. PartitionInv'
  BY DEF IInv, TypeOK, PartitionInv, Linked, MainInv, JobInv
<1>5. ListInv'
  BY DEF IInv, TypeOK, ListInv, NoResultLost, Node
<1>6. FreedInv' /\ MainInv'
  BY ListFrame
<1>7. \A r \in pending : cell[r] = "none" /\ payload[r] = "none"
  BY DEF IInv, TypeOK, UnlinkedInv, PartitionInv, JobInv, MainInv
<1>8. Linked' = Linked
  BY DEF Linked
<1>9. UnlinkedInv'
  BY <1>7, <1>8 DEF IInv, TypeOK, UnlinkedInv, JobInv
<1>10. ReadyInv'
  BY <1>7 DEF IInv, TypeOK, ReadyInv, JobInv
<1>11. QED
  BY <1>1, <1>2, <1>3, <1>4, <1>5, <1>6, <1>9, <1>10 DEF IInv

\* malloc gives the callback an item.
LEMMA AllocItemIInv ==
  ASSUME IInv, NEW t \in Workers, AllocItem(t)
  PROVE  IInv'
<1> USE ResultsAssumption, WorkersAssumption DEF AllocItem, Goto, listVars, heapVars, mainVars, histVars
<1>0. /\ job[t] \in Results /\ job[t] # NULL
      /\ job[t] \in Linked <=> pc[t] \in {"save", "unlock"}
      /\ \A u \in Workers \ {t} : job[u] # job[t]
  BY DEF IInv, TypeOK, JobInv
<1>1. TypeOK'
  BY <1>0 DEF IInv, TypeOK, HeapState
<1>2. JobInv'
  <2>1. Linked' = Linked
    BY DEF Linked
  <2>2. \A u \in Workers : pc'[u] = IF u = t THEN "fill" ELSE pc[u]
    BY DEF IInv, TypeOK
  <2>3. QED
    BY <1>0, <2>1, <2>2 DEF IInv, JobInv
<1>3. MutexInv'
  BY DEF IInv, TypeOK, MutexInv, Holders
<1>4. PartitionInv'
  BY DEF IInv, PartitionInv, Linked
<1>5. ListInv'
  <2>1. \A k \in 0..(Len(order) + 1) : Node(k)' = Node(k)
    BY DEF Node
  <2>2. \A k \in 0..Len(order) : Node(k) \in Items \ {job[t]}
    BY <1>0 DEF Node, Linked, Items, IInv, TypeOK
  <2>3. \A i \in Items : next'[i] = IF i = job[t] THEN NULL ELSE next[i]
    BY DEF IInv, TypeOK
  <2>4. NoResultLost'
    BY <2>1, <2>2, <2>3 DEF IInv, ListInv, NoResultLost
  <2>5. \A u \in Workers : job[u] \in Results \cup {NULL}
    BY DEF IInv, TypeOK
  <2>6. QED
    BY <1>0, <2>3, <2>4, <2>5 DEF IInv, TypeOK, JobInv, ListInv, Items
<1>6. FreedInv' /\ MainInv'
  BY <1>0, ListFrame DEF IInv, TypeOK, Items
<1>7. /\ \A i \in Items : cell'[i] = IF i = job[t] THEN "live" ELSE cell[i]
      /\ \A u \in Workers : pc'[u] = IF u = t THEN "fill" ELSE pc[u]
      /\ Results \subseteq Items /\ pc[t] = "alloc"
  BY <1>0 DEF IInv, TypeOK, Items
<1>8. UnlinkedInv'
  <2>1. Linked' = Linked
    BY DEF Linked
  <2>2. QED
    BY <1>7, <2>1 DEF IInv, UnlinkedInv
<1>9. ReadyInv'
  <2>1. \A u \in Workers : pc[u] # "idle" => job[u] \in Results
    BY DEF IInv, TypeOK, JobInv
  <2>2. ASSUME NEW u \in Workers, u # t, pc[u] # "idle"
        PROVE  cell'[job[u]] = cell[job[u]] /\ pc'[u] = pc[u]
    BY <1>0, <1>7, <2>1, <2>2
  <2>3. QED
    BY <1>0, <1>7, <2>2 DEF IInv, ReadyInv
<1>10. QED
  BY <1>1, <1>2, <1>3, <1>4, <1>5, <1>6, <1>8, <1>9 DEF IInv

\* malloc fails.
LEMMA AllocFailsIInv ==
  ASSUME IInv, NEW t \in Workers, AllocFails(t)
  PROVE  IInv'
<1> USE ResultsAssumption, WorkersAssumption DEF AllocFails, Goto, listVars, heapVars, mainVars, histVars
<1>0. /\ job[t] \in Results /\ job[t] # NULL
      /\ job[t] \in Linked <=> pc[t] \in {"save", "unlock"}
      /\ \A u \in Workers \ {t} : job[u] # job[t]
  BY DEF IInv, TypeOK, JobInv
<1>1. TypeOK'
  BY <1>0 DEF IInv, TypeOK, HeapState
<1>2. JobInv'
  BY <1>0 DEF IInv, TypeOK, JobInv, Linked
<1>3. MutexInv'
  BY DEF IInv, TypeOK, MutexInv, Holders
<1>4. PartitionInv'
  BY <1>0 DEF IInv, TypeOK, PartitionInv, Linked, MainInv, JobInv
<1>5. ListInv'
  BY <1>0 DEF IInv, TypeOK, ListInv, NoResultLost, Node, Linked
<1>6. FreedInv' /\ MainInv'
  BY <1>0, ListFrame DEF IInv, TypeOK, Items
<1>7. UnlinkedInv' /\ ReadyInv'
  BY <1>0 DEF IInv, TypeOK, UnlinkedInv, ReadyInv, Linked, PartitionInv, JobInv, Items
<1>8. QED
  BY <1>1, <1>2, <1>3, <1>4, <1>5, <1>6, <1>7 DEF IInv

\* The item gets its payload.
LEMMA FillItemIInv ==
  ASSUME IInv, NEW t \in Workers, FillItem(t)
  PROVE  IInv'
<1> USE ResultsAssumption, WorkersAssumption DEF FillItem, Goto, listVars, heapVars, mainVars, histVars
<1>0. /\ job[t] \in Results /\ job[t] # NULL
      /\ job[t] \in Linked <=> pc[t] \in {"save", "unlock"}
      /\ \A u \in Workers \ {t} : job[u] # job[t]
  BY DEF IInv, TypeOK, JobInv
<1>1. TypeOK'
  BY <1>0 DEF IInv, TypeOK, HeapState
<1>2. JobInv'
  BY <1>0 DEF IInv, TypeOK, JobInv, Linked
<1>3. MutexInv'
  BY DEF IInv, TypeOK, MutexInv, Holders
<1>4. PartitionInv'
  BY <1>0 DEF IInv, TypeOK, PartitionInv, Linked, MainInv, JobInv
<1>5. ListInv'
  BY <1>0 DEF IInv, TypeOK, ListInv, NoResultLost, Node, Linked
<1>6. FreedInv' /\ MainInv'
  BY <1>0, ListFrame DEF IInv, TypeOK, Items
<1>7. UnlinkedInv' /\ ReadyInv'
  BY <1>0 DEF IInv, TypeOK, UnlinkedInv, ReadyInv, Linked, PartitionInv, JobInv, Items
<1>8. QED
  BY <1>1, <1>2, <1>3, <1>4, <1>5, <1>6, <1>7 DEF IInv

\* rb_copy_as_record raises.
LEMMA CopyRaisesIInv ==
  ASSUME IInv, NEW t \in Workers, CopyRaises(t)
  PROVE  IInv'
<1> USE ResultsAssumption, WorkersAssumption DEF CopyRaises, Goto, listVars, heapVars, mainVars, histVars
<1>0. /\ job[t] \in Results /\ job[t] # NULL
      /\ job[t] \in Linked <=> pc[t] \in {"save", "unlock"}
      /\ \A u \in Workers \ {t} : job[u] # job[t]
  BY DEF IInv, TypeOK, JobInv
<1>1. TypeOK'
  BY <1>0 DEF IInv, TypeOK, HeapState
<1>2. JobInv'
  BY <1>0 DEF IInv, TypeOK, JobInv, Linked
<1>3. MutexInv'
  BY DEF IInv, TypeOK, MutexInv, Holders
<1>4. PartitionInv'
  BY DEF IInv, PartitionInv, Linked
<1>5. ListInv'
  BY <1>0 DEF IInv, TypeOK, ListInv, NoResultLost, Node, Linked
<1>6. FreedInv'
  <2>1. PICK k \in 0..(Len(order) + 1) : FreedUpTo(k)
    BY DEF IInv, FreedInv
  <2>2. \A i \in 0..(Len(order) + 1) : Node(i)' = Node(i)
    BY DEF Node
  <2>3. FreedUpTo(k)'
    BY <2>1, <2>2 DEF FreedUpTo
  <2>4. QED
    BY <2>3 DEF FreedInv
<1>7. MainInv'
  <2>1. t = Ruby => AllIdle'
    BY DEF AllIdle, IInv, TypeOK
  <2>2. QED
    BY <2>1 DEF IInv, TypeOK, MainInv
<1>8. UnlinkedInv' /\ ReadyInv'
  BY <1>0 DEF IInv, TypeOK, UnlinkedInv, ReadyInv, Linked, PartitionInv, JobInv, Items
<1>9. QED
  BY <1>1, <1>2, <1>3, <1>4, <1>5, <1>6, <1>7, <1>8 DEF IInv

\* A callback takes the mutex.
LEMMA LockIInv ==
  ASSUME IInv, NEW t \in Workers, Lock(t)
  PROVE  IInv'
<1> USE ResultsAssumption, WorkersAssumption DEF Lock, Goto, listVars, heapVars, mainVars, histVars
<1>0. /\ job[t] \in Results /\ job[t] # NULL
      /\ job[t] \in Linked <=> pc[t] \in {"save", "unlock"}
      /\ \A u \in Workers \ {t} : job[u] # job[t]
  BY DEF IInv, TypeOK, JobInv
<1>1. TypeOK'
  BY <1>0 DEF IInv, TypeOK, HeapState
<1>2. JobInv'
  BY <1>0 DEF IInv, TypeOK, JobInv, Linked
<1>3. MutexInv'
  BY DEF IInv, TypeOK, MutexInv, Holders
<1>4. PartitionInv'
  BY DEF IInv, PartitionInv, Linked
<1>5. ListInv'
  BY <1>0 DEF IInv, TypeOK, ListInv, NoResultLost, Node, Linked
<1>6. FreedInv' /\ MainInv'
  BY <1>0, ListFrame DEF IInv, TypeOK, Items
<1>7. UnlinkedInv'
  <2>1. Linked' = Linked
    BY DEF Linked
  <2>2. QED
    BY <2>1 DEF IInv, UnlinkedInv
<1>8. ReadyInv'
  <2>1. \A u \in Workers : pc'[u] = IF u = t THEN "link" ELSE pc[u]
    BY DEF IInv, TypeOK
  <2>2. QED
    BY <2>1 DEF IInv, ReadyInv
<1>9. QED
  BY <1>1, <1>2, <1>3, <1>4, <1>5, <1>6, <1>7, <1>8 DEF IInv

\* The item goes to the end of the list.
LEMMA LinkIInv ==
  ASSUME IInv, NEW t \in Workers, Link(t)
  PROVE  IInv'
<1> USE ResultsAssumption, WorkersAssumption DEF Link, Goto, listVars, heapVars, mainVars, histVars
<1>0. /\ job[t] \in Results /\ job[t] # NULL
      /\ job[t] \in Linked <=> pc[t] \in {"save", "unlock"}
      /\ \A u \in Workers \ {t} : job[u] # job[t]
  BY DEF IInv, TypeOK, JobInv
<1>1. TypeOK'
  BY <1>0 DEF IInv, TypeOK, HeapState
<1>2. JobInv'
  <2>1. Linked' = Linked \cup {job[t]}
    BY DEF Linked, IInv, TypeOK
  <2>2. \A u \in Workers : pc'[u] = IF u = t THEN "save" ELSE pc[u]
    BY DEF IInv, TypeOK
  <2>3. QED
    BY <1>0, <2>1, <2>2 DEF IInv, JobInv
<1>3. MutexInv'
  BY DEF IInv, TypeOK, MutexInv, Holders
<1>4. PartitionInv'
  BY <1>0 DEF IInv, TypeOK, PartitionInv, Linked, MainInv, JobInv
<1>a. PICK n \in Nat : n = Len(order)
  BY DEF IInv, TypeOK
<1>b. /\ Len(order') = n + 1
      /\ order'[n + 1] = job[t]
      /\ \A i \in 1..n : order'[i] = order[i]
  BY <1>0, <1>a DEF IInv, TypeOK
<1>c. /\ \A k \in 0..n : Node(k)' = Node(k)
      /\ Node(n + 1)' = job[t]
      /\ Node(n + 2)' = NULL
  BY <1>a, <1>b DEF Node
<1>d. /\ \A k \in 0..n : Node(k) \in Items \ {job[t]}
      /\ \A i, k \in 0..n : Node(i) = Node(k) => i = k
      /\ \A k \in 1..n : Node(k) = order[k] /\ Node(k) \in Results
      /\ Node(0) = First /\ Node(n + 1) = NULL
  BY <1>0, <1>a DEF Node, Linked, Items, IInv, TypeOK, ListInv, NoResultLost
<1>5. ListInv'
  <2>1. \A u \in Workers \ {t} : pc[u] \notin Holders
    BY DEF IInv, MutexInv, Holders
  <2>2. next' = [next EXCEPT ![Node(n)] = job[t]]
    <3>1. CASE n = 0
      <4>1. next[First] = NULL
        BY <3>1, <1>a, <1>d DEF IInv, ListInv, NoResultLost
      <4>2. QED
        BY <3>1, <4>1, <1>d
    <3>2. CASE n # 0
      <4>1. n \in 1..n /\ order # <<>>
        BY <3>2, <1>a DEF IInv, TypeOK
      <4>2. next[First] = Node(1) /\ Node(1) \in Results
        BY <4>1, <1>a, <1>d DEF IInv, ListInv, NoResultLost
      <4>3. lastsaved = order[n]
        BY <2>1, <4>1, <1>a DEF IInv, ListInv, Holders
      <4>4. QED
        BY <4>1, <4>2, <4>3, <1>d
    <3>3. QED
      BY <3>1, <3>2
  <2>3. \A i \in Items : next'[i] = IF i = Node(n) THEN job[t] ELSE next[i]
    BY <2>2 DEF IInv, TypeOK
  <2>4. next[job[t]] = NULL
    BY DEF IInv, ListInv
  <2>5. \A k \in 0..(n + 1) : next'[Node(k)'] = Node(k + 1)'
    <3>1. ASSUME NEW k \in 0..n, k < n
          PROVE  next'[Node(k)'] = Node(k + 1)'
      BY <3>1, <2>3, <1>a, <1>c, <1>d DEF IInv, ListInv, NoResultLost
    <3>2. next'[Node(n)'] = Node(n + 1)'
      BY <2>3, <1>c, <1>d
    <3>3. next'[Node(n + 1)'] = Node(n + 2)'
      BY <2>3, <2>4, <1>0, <1>c, <1>d DEF Items
    <3>4. ASSUME NEW k \in 0..(n + 1)
          PROVE  next'[Node(k)'] = Node(k + 1)'
      <4>1. (k \in 0..n /\ k < n) \/ k = n \/ k = n + 1
        BY <1>a
      <4>2. QED
        BY <3>1, <3>2, <3>3, <4>1
    <3>5. QED
      BY <3>4
  <2>6. \A i, j \in 1..(n + 1) : order'[i] = order'[j] => i = j
    BY <1>0, <1>a, <1>b DEF IInv, ListInv, NoResultLost, Linked
  <2>7. \A u \in Workers : pc'[u] \in {"fill", "lock", "link"} => next'[job[u]] = NULL
    <3> SUFFICES ASSUME NEW u \in Workers, pc'[u] \in {"fill", "lock", "link"}
                 PROVE  next'[job[u]] = NULL
      OBVIOUS
    <3>1. u # t /\ pc[u] \in {"fill", "lock", "link"}
      BY DEF IInv, TypeOK
    <3>2. job[u] \in Results \ Linked
      BY <3>1 DEF IInv, TypeOK, JobInv
    <3>3. job[u] # Node(n)
      BY <3>2, <1>a, <1>d DEF Linked
    <3>4. QED
      BY <2>3, <3>1, <3>2, <3>3 DEF IInv, ListInv, Items
  <2>8. pc'[t] = "save" /\ \A u \in Workers \ {t} : pc'[u] # "save"
    BY <2>1 DEF IInv, TypeOK, Holders
  <2>9. NoResultLost'
    BY <2>5, <2>6, <1>b DEF NoResultLost
  <2>10. QED
    BY <2>7, <2>8, <2>9, <1>b DEF ListInv
<1>6. FreedInv' /\ MainInv'
  <2>1. data = First /\ FreedUpTo(0)
    <3>1. PICK k \in 0..(Len(order) + 1) : FreedUpTo(k)
      BY DEF IInv, FreedInv
    <3>2. data = First
      BY DEF IInv, MainInv
    <3>3. Node(k) = Node(0) /\ (k \in 0..n \/ k = n + 1)
      BY <3>1, <3>2, <1>a, <1>d DEF FreedUpTo
    <3>4. k = 0
      BY <3>3, <1>a, <1>d
    <3>5. QED
      BY <3>1, <3>2, <3>4
  <2>2. cell[job[t]] = "live" /\ payload[job[t]] = "live"
    BY DEF IInv, ReadyInv
  <2>3. \A i \in 0..n : cell[Node(i)] = "live"
    BY <2>1, <1>a DEF FreedUpTo
  <2>4. \A i \in 0..(n + 1) : cell[Node(i)'] = "live"
    BY <2>2, <2>3, <1>c
  <2>5. \A i \in 1..(n + 1) : payload[order'[i]] = "live"
    BY <2>1, <2>2, <1>a, <1>b DEF FreedUpTo
  <2>6. FreedUpTo(0)'
    BY <2>1, <2>4, <2>5, <1>b, <1>c, <1>d DEF FreedUpTo
  <2>7. QED
    BY <2>6, <1>b DEF FreedInv, MainInv, IInv, TypeOK
<1>7. UnlinkedInv' /\ ReadyInv'
  BY <1>0 DEF IInv, TypeOK, UnlinkedInv, ReadyInv, Linked, PartitionInv, JobInv, Items
<1>8. QED
  BY <1>1, <1>2, <1>3, <1>4, <1>5, <1>6, <1>7 DEF IInv

\* The end of the list moves to the new item.
LEMMA SaveLastIInv ==
  ASSUME IInv, NEW t \in Workers, SaveLast(t)
  PROVE  IInv'
<1> USE ResultsAssumption, WorkersAssumption DEF SaveLast, Goto, listVars, heapVars, mainVars, histVars
<1>0. /\ job[t] \in Results /\ job[t] # NULL
      /\ job[t] \in Linked <=> pc[t] \in {"save", "unlock"}
      /\ \A u \in Workers \ {t} : job[u] # job[t]
  BY DEF IInv, TypeOK, JobInv
<1>1. TypeOK'
  BY <1>0 DEF IInv, TypeOK, HeapState
<1>2. JobInv'
  BY <1>0 DEF IInv, TypeOK, JobInv, Linked
<1>3. MutexInv'
  BY DEF IInv, TypeOK, MutexInv, Holders
<1>4. PartitionInv'
  BY <1>0 DEF IInv, TypeOK, PartitionInv, Linked, MainInv, JobInv
<1>5. ListInv'
  BY <1>0 DEF IInv, TypeOK, ListInv, NoResultLost, Node, Linked
<1>6. FreedInv' /\ MainInv'
  BY <1>0, ListFrame DEF IInv, TypeOK, Items
<1>7. UnlinkedInv' /\ ReadyInv'
  BY <1>0 DEF IInv, TypeOK, UnlinkedInv, ReadyInv, Linked, PartitionInv, JobInv, Items
<1>8. QED
  BY <1>1, <1>2, <1>3, <1>4, <1>5, <1>6, <1>7 DEF IInv

\* The callback is over.
LEMMA UnlockIInv ==
  ASSUME IInv, NEW t \in Workers, Unlock(t)
  PROVE  IInv'
<1> USE ResultsAssumption, WorkersAssumption DEF Unlock, Goto, listVars, heapVars, mainVars, histVars
<1>0. /\ job[t] \in Results /\ job[t] # NULL
      /\ job[t] \in Linked <=> pc[t] \in {"save", "unlock"}
      /\ \A u \in Workers \ {t} : job[u] # job[t]
  BY DEF IInv, TypeOK, JobInv
<1>1. TypeOK'
  BY <1>0 DEF IInv, TypeOK, HeapState
<1>2. JobInv'
  BY <1>0 DEF IInv, TypeOK, JobInv, Linked
<1>3. MutexInv'
  BY DEF IInv, TypeOK, MutexInv, Holders
<1>4. PartitionInv'
  BY <1>0 DEF IInv, TypeOK, PartitionInv, Linked, MainInv, JobInv
<1>5. ListInv'
  BY <1>0 DEF IInv, TypeOK, ListInv, NoResultLost, Node, Linked
<1>6. FreedInv' /\ MainInv'
  BY <1>0, ListFrame DEF IInv, TypeOK, Items
<1>7. UnlinkedInv' /\ ReadyInv'
  BY <1>0 DEF IInv, TypeOK, UnlinkedInv, ReadyInv, Linked, PartitionInv, JobInv, Items
<1>8. QED
  BY <1>1, <1>2, <1>3, <1>4, <1>5, <1>6, <1>7 DEF IInv
\* A node fails.
LEMMA NodeFailsIInv ==
  ASSUME IInv, NodeFails
  PROVE  IInv'
<1> USE ResultsAssumption, WorkersAssumption DEF NodeFails, workerVars, listVars, heapVars, mainVars, histVars
<1>1. TypeOK'
  BY DEF IInv, TypeOK
<1>2. JobInv' /\ MutexInv' /\ PartitionInv' /\ ReadyInv'
  BY DEF IInv, TypeOK, JobInv, MutexInv, PartitionInv, ReadyInv, Linked
<1>3. ListInv'
  BY DEF IInv, ListInv, NoResultLost, Node
<1>4. FreedInv'
  <2>1. PICK k \in 0..(Len(order) + 1) : FreedUpTo(k)
    BY DEF IInv, FreedInv
  <2>2. \A i \in 0..(Len(order) + 1) : Node(i)' = Node(i)
    BY DEF Node
  <2>3. FreedUpTo(k)'
    BY <2>1, <2>2 DEF FreedUpTo
  <2>4. QED
    BY <2>3 DEF FreedInv
<1>5. UnlinkedInv'
  BY DEF IInv, UnlinkedInv, Linked
<1>6. MainInv'
  BY DEF IInv, TypeOK, MainInv, AllIdle, Released
<1>7. QED
  BY <1>1, <1>2, <1>3, <1>4, <1>5, <1>6 DEF IInv

\* The foreach ends well.
LEMMA ForeachOkIInv ==
  ASSUME IInv, ForeachOk
  PROVE  IInv'
<1> USE ResultsAssumption, WorkersAssumption DEF ForeachOk, workerVars, listVars, heapVars, mainVars, histVars
<1>1. TypeOK'
  BY DEF IInv, TypeOK
<1>2. JobInv' /\ MutexInv' /\ PartitionInv' /\ ReadyInv'
  BY DEF IInv, TypeOK, JobInv, MutexInv, PartitionInv, ReadyInv, Linked
<1>3. ListInv'
  BY DEF IInv, ListInv, NoResultLost, Node
<1>4. FreedInv'
  <2>1. PICK k \in 0..(Len(order) + 1) : FreedUpTo(k)
    BY DEF IInv, FreedInv
  <2>2. \A i \in 0..(Len(order) + 1) : Node(i)' = Node(i)
    BY DEF Node
  <2>3. data = First /\ result = <<>>
    BY DEF IInv, MainInv
  <2>4. k = 0
    BY <2>1, <2>3 DEF FreedUpTo, Node, IInv, TypeOK
  <2>a. FreedUpTo(0) /\ Len(result) = 0 /\ Len(order) \in Nat
    BY <2>1, <2>3, <2>4 DEF IInv, TypeOK
  <2>b. Node(0)' = Node(0) /\ \A i \in 0..Len(order) : Node(i)' = Node(i)
    BY <2>2, <2>a
  <2>5. FreedUpTo(0)'
    BY <2>a, <2>b DEF FreedUpTo
  <2>6. QED
    BY <2>5, <2>a DEF FreedInv
<1>5. UnlinkedInv'
  BY DEF IInv, UnlinkedInv, Linked
<1>6. MainInv'
  BY DEF IInv, TypeOK, MainInv, AllIdle, Released
<1>7. QED
  BY <1>1, <1>2, <1>3, <1>4, <1>5, <1>6 DEF IInv

\* The foreach ends with an error.
LEMMA ForeachErrIInv ==
  ASSUME IInv, ForeachErr
  PROVE  IInv'
<1> USE ResultsAssumption, WorkersAssumption DEF ForeachErr, workerVars, listVars, heapVars, mainVars, histVars
<1>1. TypeOK'
  BY DEF IInv, TypeOK
<1>2. JobInv' /\ MutexInv' /\ PartitionInv' /\ ReadyInv'
  BY DEF IInv, TypeOK, JobInv, MutexInv, PartitionInv, ReadyInv, Linked
<1>3. ListInv'
  BY DEF IInv, ListInv, NoResultLost, Node
<1>4. FreedInv'
  <2>1. PICK k \in 0..(Len(order) + 1) : FreedUpTo(k)
    BY DEF IInv, FreedInv
  <2>2. \A i \in 0..(Len(order) + 1) : Node(i)' = Node(i)
    BY DEF Node
  <2>3. FreedUpTo(k)'
    BY <2>1, <2>2 DEF FreedUpTo
  <2>4. QED
    BY <2>3 DEF FreedInv
<1>5. UnlinkedInv'
  BY DEF IInv, UnlinkedInv, Linked
<1>6. MainInv'
  BY DEF IInv, TypeOK, MainInv, AllIdle, Released
<1>7. QED
  BY <1>1, <1>2, <1>3, <1>4, <1>5, <1>6 DEF IInv

\* The conversion raises.
LEMMA ConvertRaisesIInv ==
  ASSUME IInv, ConvertRaises
  PROVE  IInv'
<1> USE ResultsAssumption, WorkersAssumption DEF ConvertRaises, workerVars, listVars, heapVars, mainVars, histVars
<1>1. TypeOK'
  BY DEF IInv, TypeOK
<1>2. JobInv' /\ MutexInv' /\ PartitionInv' /\ ReadyInv'
  BY DEF IInv, TypeOK, JobInv, MutexInv, PartitionInv, ReadyInv, Linked
<1>3. ListInv'
  BY DEF IInv, ListInv, NoResultLost, Node
<1>4. FreedInv'
  <2>1. PICK k \in 0..(Len(order) + 1) : FreedUpTo(k)
    BY DEF IInv, FreedInv
  <2>2. \A i \in 0..(Len(order) + 1) : Node(i)' = Node(i)
    BY DEF Node
  <2>3. FreedUpTo(k)'
    BY <2>1, <2>2 DEF FreedUpTo
  <2>4. QED
    BY <2>3 DEF FreedInv
<1>5. UnlinkedInv'
  BY DEF IInv, UnlinkedInv, Linked
<1>6. MainInv'
  BY DEF IInv, TypeOK, MainInv, AllIdle, Released
<1>7. QED
  BY <1>1, <1>2, <1>3, <1>4, <1>5, <1>6 DEF IInv

\* The conversion is over.
LEMMA ConvertDoneIInv ==
  ASSUME IInv, ConvertDone
  PROVE  IInv'
<1> USE ResultsAssumption, WorkersAssumption DEF ConvertDone, workerVars, listVars, heapVars, mainVars, histVars
<1>1. TypeOK'
  BY DEF IInv, TypeOK
<1>2. JobInv' /\ MutexInv' /\ PartitionInv' /\ ReadyInv'
  BY DEF IInv, TypeOK, JobInv, MutexInv, PartitionInv, ReadyInv, Linked
<1>3. ListInv'
  BY DEF IInv, ListInv, NoResultLost, Node
<1>4. FreedInv'
  <2>1. PICK k \in 0..(Len(order) + 1) : FreedUpTo(k)
    BY DEF IInv, FreedInv
  <2>2. \A i \in 0..(Len(order) + 1) : Node(i)' = Node(i)
    BY DEF Node
  <2>3. FreedUpTo(k)'
    BY <2>1, <2>2 DEF FreedUpTo
  <2>4. QED
    BY <2>3 DEF FreedInv
<1>5. UnlinkedInv'
  BY DEF IInv, UnlinkedInv, Linked
<1>6. result = order
  <2>1. PICK k \in 0..(Len(order) + 1) : FreedUpTo(k)
    BY DEF IInv, FreedInv
  <2>2. PICK n \in Nat : n = Len(order)
    BY DEF IInv, TypeOK
  <2>3. k = n + 1
    BY <2>1, <2>2 DEF FreedUpTo, Node, IInv, TypeOK
  <2>4. Len(result) = Len(order) /\ \A i \in 1..Len(order) : result[i] = order[i]
    BY <2>1, <2>2, <2>3 DEF FreedUpTo
  <2>5. QED
    BY <2>4 DEF IInv, TypeOK
<1>8. MainInv'
  BY <1>6 DEF IInv, TypeOK, MainInv, AllIdle
<1>9. QED
  BY <1>1, <1>2, <1>3, <1>4, <1>5, <1>8 DEF IInv

\* The handle is destroyed.
LEMMA DestroyHandleIInv ==
  ASSUME IInv, DestroyHandle
  PROVE  IInv'
<1> USE ResultsAssumption, WorkersAssumption DEF DestroyHandle, workerVars, listVars, heapVars, mainVars, histVars
<1>1. TypeOK'
  BY DEF HeapState, Released, IInv, TypeOK
<1>2. JobInv' /\ MutexInv' /\ PartitionInv' /\ ReadyInv'
  BY DEF IInv, TypeOK, JobInv, MutexInv, PartitionInv, ReadyInv, Linked
<1>3. ListInv'
  BY DEF IInv, ListInv, NoResultLost, Node
<1>4. FreedInv'
  <2>1. PICK k \in 0..(Len(order) + 1) : FreedUpTo(k)
    BY DEF IInv, FreedInv
  <2>2. \A i \in 0..(Len(order) + 1) : Node(i)' = Node(i)
    BY DEF Node
  <2>3. FreedUpTo(k)'
    BY <2>1, <2>2 DEF FreedUpTo
  <2>4. QED
    BY <2>3 DEF FreedInv
<1>5. UnlinkedInv'
  BY DEF IInv, UnlinkedInv, Linked
<1>6. MainInv'
  BY DEF IInv, TypeOK, MainInv, AllIdle, Released
<1>7. QED
  BY <1>1, <1>2, <1>3, <1>4, <1>5, <1>6 DEF IInv

\* The call is over.
LEMMA FinishIInv ==
  ASSUME IInv, Finish
  PROVE  IInv'
<1> USE ResultsAssumption, WorkersAssumption DEF Finish, workerVars, listVars, heapVars, mainVars, histVars
<1>1. TypeOK'
  BY DEF IInv, TypeOK
<1>2. JobInv' /\ MutexInv' /\ PartitionInv' /\ ReadyInv'
  BY DEF IInv, TypeOK, JobInv, MutexInv, PartitionInv, ReadyInv, Linked
<1>3. ListInv'
  BY DEF IInv, ListInv, NoResultLost, Node
<1>4. FreedInv'
  <2>1. PICK k \in 0..(Len(order) + 1) : FreedUpTo(k)
    BY DEF IInv, FreedInv
  <2>2. \A i \in 0..(Len(order) + 1) : Node(i)' = Node(i)
    BY DEF Node
  <2>3. FreedUpTo(k)'
    BY <2>1, <2>2 DEF FreedUpTo
  <2>4. QED
    BY <2>3 DEF FreedInv
<1>5. UnlinkedInv'
  BY DEF IInv, UnlinkedInv, Linked
<1>6. MainInv'
  BY DEF IInv, TypeOK, MainInv, AllIdle, Released
<1>7. QED
  BY <1>1, <1>2, <1>3, <1>4, <1>5, <1>6 DEF IInv

\* Freeing the item at the Ruby thread's position moves the position by one.
LEMMA FreeStep ==
  ASSUME IInv, data # NULL, UNCHANGED order,
         payload' = PayloadFreed(data),
         data' = next[data],
         cell' = [cell EXCEPT ![data] = Released(@)]
  PROVE  \E k \in 0..Len(order) :
           /\ FreedUpTo(k)
           /\ data' = Node(k + 1)
           /\ \A i \in 0..Len(order) : cell'[Node(i)] = IF i < k + 1 THEN "freed" ELSE "live"
           /\ \A i \in 1..Len(order) :
                payload'[order[i]] = IF i < k + 1 /\ order[i] \notin Opaque THEN "freed" ELSE "live"
           /\ cell' \in [Items -> HeapState] /\ payload' \in [Results -> HeapState]
           /\ \A r \in Results \ Linked : cell'[r] = cell[r] /\ payload'[r] = payload[r]
<1>1. PICK k \in 0..(Len(order) + 1) : FreedUpTo(k)
  BY DEF IInv, FreedInv
<1>2. order \in Seq(Results) /\ NoDuplicate
  BY DEF IInv, TypeOK, ListInv, NoResultLost, NoDuplicate
<1>3. k \in 0..Len(order) /\ data = Node(k)
  BY <1>1, <1>2, NodeFacts DEF FreedUpTo
<1>4. data' = Node(k + 1)
  BY <1>3 DEF IInv, ListInv, NoResultLost
<1>5. data \in Items /\ cell[data] = "live"
  BY <1>1, <1>2, <1>3, NodeFacts DEF FreedUpTo
<1>6. \A i \in Items : cell'[i] = IF i = data THEN "freed" ELSE cell[i]
  BY <1>5 DEF IInv, TypeOK, Released
<1>7. \A i \in 0..Len(order) : Node(i) = data <=> i = k
  BY <1>2, <1>3, NodeFacts
<1>8. \A i \in 0..Len(order) : cell'[Node(i)] = IF i < k + 1 THEN "freed" ELSE "live"
  BY <1>1, <1>2, <1>3, <1>6, <1>7, NodeFacts DEF FreedUpTo
<1>9. \A i \in 1..Len(order) : order[i] = data <=> i = k
  BY <1>2, <1>3, <1>7, NodeFacts
<1>10. \A r \in Results : payload'[r] = IF r = data /\ r \notin Opaque
                                        THEN Released(payload[r]) ELSE payload[r]
  BY DEF PayloadFreed
<1>11. \A i \in 1..Len(order) :
         payload'[order[i]] = IF i < k + 1 /\ order[i] \notin Opaque THEN "freed" ELSE "live"
  BY <1>1, <1>2, <1>3, <1>9, <1>10, NodeFacts DEF FreedUpTo, Released
<1>12. cell' \in [Items -> HeapState] /\ payload' \in [Results -> HeapState]
  BY DEF IInv, TypeOK, HeapState, Released, PayloadFreed
<1>13. data \in Linked \cup {First}
  BY <1>2, <1>3, NodeFacts DEF Linked, Node
<1>14. \A r \in Results \ Linked : cell'[r] = cell[r] /\ payload'[r] = payload[r]
  BY <1>6, <1>10, <1>13, ResultsAssumption DEF Items
<1>15. QED
  BY <1>1, <1>3, <1>4, <1>8, <1>11, <1>12, <1>14

\* One item is converted and freed.
LEMMA ConvertItemIInv ==
  ASSUME IInv, ConvertItem
  PROVE  IInv'
<1> USE ResultsAssumption, WorkersAssumption DEF ConvertItem, workerVars, listVars, heapVars, mainVars, histVars
<1>0. \E k \in 0..Len(order) :
        /\ FreedUpTo(k)
        /\ data' = Node(k + 1)
        /\ \A i \in 0..Len(order) : cell'[Node(i)] = IF i < k + 1 THEN "freed" ELSE "live"
        /\ \A i \in 1..Len(order) :
             payload'[order[i]] = IF i < k + 1 /\ order[i] \notin Opaque THEN "freed" ELSE "live"
        /\ cell' \in [Items -> HeapState] /\ payload' \in [Results -> HeapState]
        /\ \A r \in Results \ Linked : cell'[r] = cell[r] /\ payload'[r] = payload[r]
  BY FreeStep
<1>f. data = First <=> data \notin Results
  BY DEF IInv, TypeOK, Items
<1>1. TypeOK'
  <2>1. result' \in Seq(Results)
    <3>1. CASE data = First
      BY <3>1 DEF IInv, TypeOK
    <3>2. CASE data # First
      <4>1. data \in Results
        BY <3>2, <1>f
      <4>2. QED
        BY <3>2, <4>1 DEF IInv, TypeOK
    <3>3. QED
      BY <3>1, <3>2
  <2>2. QED
    BY <1>0, <2>1 DEF IInv, TypeOK, Items
<1>2. JobInv' /\ MutexInv' /\ PartitionInv' /\ ReadyInv'
  BY DEF MainInv, AllIdle, IInv, TypeOK, JobInv, MutexInv, PartitionInv, ReadyInv, Linked
<1>3. ListInv'
  BY DEF IInv, ListInv, NoResultLost, Node
<1>4. FreedInv'
  <2>1. PICK k \in 0..Len(order) :
           /\ FreedUpTo(k)
           /\ data' = Node(k + 1)
           /\ \A i \in 0..Len(order) : cell'[Node(i)] = IF i < k + 1 THEN "freed" ELSE "live"
           /\ \A i \in 1..Len(order) :
                payload'[order[i]] = IF i < k + 1 /\ order[i] \notin Opaque THEN "freed" ELSE "live"
    BY <1>0
  <2>2. \A i \in 0..(Len(order) + 1) : Node(i)' = Node(i)
    BY DEF Node
  <2>3. k \in Nat /\ Len(order) \in Nat
    BY DEF IInv, TypeOK
  <2>4. main' = "convert" =>
          /\ Len(result') = k
          /\ \A i \in 1..Len(result') : result'[i] = order[i]
    BY <2>1, <2>3, <1>f DEF FreedUpTo, Node, IInv, TypeOK
  <2>5. FreedUpTo(k + 1)'
    BY <2>1, <2>2, <2>3, <2>4 DEF FreedUpTo
  <2>6. QED
    BY <2>3, <2>5 DEF FreedInv
<1>5. UnlinkedInv'
  BY <1>0 DEF IInv, UnlinkedInv, Linked
<1>6. MainInv'
  BY DEF IInv, TypeOK, MainInv, AllIdle, Released
<1>7. QED
  BY <1>1, <1>2, <1>3, <1>4, <1>5, <1>6 DEF IInv

\* One item is freed by the ensure clause.
LEMMA DestroyItemIInv ==
  ASSUME IInv, DestroyItem
  PROVE  IInv'
<1> USE ResultsAssumption, WorkersAssumption DEF DestroyItem, workerVars, listVars, heapVars, mainVars, histVars
<1>0. \E k \in 0..Len(order) :
        /\ FreedUpTo(k)
        /\ data' = Node(k + 1)
        /\ \A i \in 0..Len(order) : cell'[Node(i)] = IF i < k + 1 THEN "freed" ELSE "live"
        /\ \A i \in 1..Len(order) :
             payload'[order[i]] = IF i < k + 1 /\ order[i] \notin Opaque THEN "freed" ELSE "live"
        /\ cell' \in [Items -> HeapState] /\ payload' \in [Results -> HeapState]
        /\ \A r \in Results \ Linked : cell'[r] = cell[r] /\ payload'[r] = payload[r]
  BY FreeStep
<1>f. data = First <=> data \notin Results
  BY DEF IInv, TypeOK, Items
<1>1. TypeOK'
  BY <1>0 DEF IInv, TypeOK, Items
<1>2. JobInv' /\ MutexInv' /\ PartitionInv' /\ ReadyInv'
  BY DEF MainInv, AllIdle, IInv, TypeOK, JobInv, MutexInv, PartitionInv, ReadyInv, Linked
<1>3. ListInv'
  BY DEF IInv, ListInv, NoResultLost, Node
<1>4. FreedInv'
  <2>1. PICK k \in 0..Len(order) :
           /\ FreedUpTo(k)
           /\ data' = Node(k + 1)
           /\ \A i \in 0..Len(order) : cell'[Node(i)] = IF i < k + 1 THEN "freed" ELSE "live"
           /\ \A i \in 1..Len(order) :
                payload'[order[i]] = IF i < k + 1 /\ order[i] \notin Opaque THEN "freed" ELSE "live"
    BY <1>0
  <2>2. \A i \in 0..(Len(order) + 1) : Node(i)' = Node(i)
    BY DEF Node
  <2>3. k \in Nat /\ Len(order) \in Nat
    BY DEF IInv, TypeOK
  <2>4. main' = "convert" =>
          /\ Len(result') = k
          /\ \A i \in 1..Len(result') : result'[i] = order[i]
    BY <2>1, <2>3, <1>f DEF FreedUpTo, Node, IInv, TypeOK
  <2>5. FreedUpTo(k + 1)'
    BY <2>1, <2>2, <2>3, <2>4 DEF FreedUpTo
  <2>6. QED
    BY <2>3, <2>5 DEF FreedInv
<1>5. UnlinkedInv'
  BY <1>0 DEF IInv, UnlinkedInv, Linked
<1>6. MainInv'
  BY DEF IInv, TypeOK, MainInv, AllIdle, Released
<1>7. QED
  BY <1>1, <1>2, <1>3, <1>4, <1>5, <1>6 DEF IInv

\* Every step keeps the invariant.
LEMMA NextIInv ==
  ASSUME IInv, [Next]_vars
  PROVE  IInv'
<1>1. ASSUME NEW t \in Workers, Deliver(t) PROVE IInv'
  BY <1>1, DeliverIInv
<1>2. ASSUME NEW t \in Workers, Callback(t) PROVE IInv'
  BY <1>2, AllocItemIInv, AllocFailsIInv, FillItemIInv, CopyRaisesIInv,
     LockIInv, LinkIInv, SaveLastIInv, UnlockIInv DEF Callback
<1>3. CASE NodeFails
  BY <1>3, NodeFailsIInv
<1>4. CASE RubyThread
  BY <1>4, ForeachOkIInv, ForeachErrIInv, ConvertItemIInv, ConvertRaisesIInv,
     ConvertDoneIInv, DestroyHandleIInv, DestroyItemIInv, FinishIInv DEF RubyThread
<1>5. CASE UNCHANGED vars
  <2> USE <1>5 DEF vars, workerVars, listVars, heapVars, mainVars, histVars
  <2>1. Linked' = Linked /\ \A k : Node(k)' = Node(k)
    BY DEF Linked, Node
  <2>2. \A k : FreedUpTo(k)' = FreedUpTo(k)
    BY <2>1 DEF FreedUpTo
  <2>3. FreedInv' /\ ListInv'
    BY <2>1, <2>2 DEF FreedInv, ListInv, NoResultLost, IInv
  <2>4. JobInv' /\ MutexInv' /\ PartitionInv' /\ UnlinkedInv' /\ ReadyInv'
    BY <2>1 DEF JobInv, MutexInv, PartitionInv, UnlinkedInv, ReadyInv, IInv
  <2>5. TypeOK' /\ MainInv'
    BY DEF TypeOK, MainInv, AllIdle, IInv
  <2>6. QED
    BY <2>3, <2>4, <2>5 DEF IInv
<1>6. QED
  BY <1>1, <1>2, <1>3, <1>4, <1>5 DEF Next, Done

\* IInv is an invariant of the specification.
THEOREM Invariance == Spec => []IInv
<1>1. Init => IInv
  BY InitIInv
<1>2. IInv /\ [Next]_vars => IInv'
  BY NextIInv
<1>3. QED
  BY <1>1, <1>2, PTL DEF Spec
\* The variables keep their types, for any number of threads and results.
THEOREM TypeCorrect == Spec => []TypeOK
<1>1. IInv => TypeOK
  BY DEF IInv
<1>2. QED
  BY <1>1, Invariance, PTL

\* No append of set_query_item_next overwrites another's.
THEOREM ListKept == Spec => []NoResultLost
<1>1. IInv => NoResultLost
  BY DEF IInv, ListInv
<1>2. QED
  BY <1>1, Invariance, PTL

\* No item, payload or handle is freed twice.
THEOREM NeverFreedTwice == Spec => []FreedOnce
<1>1. IInv => FreedOnce
  <2> SUFFICES ASSUME IInv PROVE FreedOnce
    OBVIOUS
  <2>1. PICK k \in 0..(Len(order) + 1) : FreedUpTo(k)
    BY DEF IInv, FreedInv
  <2>a. Node(0) = First /\ \A i \in 1..Len(order) : Node(i) = order[i]
    BY DEF Node
  <2>b. \A i \in 0..Len(order) : cell[Node(i)] # "corrupt"
    BY <2>1 DEF FreedUpTo
  <2>2. \A i \in Linked \cup {First} : cell[i] # "corrupt"
    BY <2>a, <2>b DEF Linked, IInv, TypeOK
  <2>3. \A r \in Linked : payload[r] # "corrupt"
    BY <2>1 DEF FreedUpTo, Linked
  <2>4. \A r \in Results \ Linked : cell[r] # "corrupt" /\ payload[r] # "corrupt"
    BY DEF IInv, UnlinkedInv
  <2>5. handle # "corrupt"
    BY DEF IInv, MainInv
  <2>6. QED
    BY <2>2, <2>3, <2>4, <2>5 DEF FreedOnce, Items
<1>2. QED
  BY <1>1, Invariance, PTL

\* Nothing of the list outlives the call but what AllReleased names.
THEOREM NothingKept == Spec => []AllReleased
<1>1. IInv => AllReleased
  <2> SUFFICES ASSUME IInv, main \in {"returned", "raised"}
               PROVE  /\ handle = "freed"
                      /\ \A i \in Items : cell[i] = "live" =>
                           i \in Records \ Linked /\ main = "raised" /\ Ruby \in Workers
                      /\ \A r \in Results : payload[r] = "live" => r \in Opaque
    BY DEF AllReleased
  <2>1. PICK k \in 0..(Len(order) + 1) : FreedUpTo(k)
    BY DEF IInv, FreedInv
  <2>2. order \in Seq(Results) /\ NoDuplicate /\ data = NULL
    BY DEF IInv, TypeOK, ListInv, NoResultLost, NoDuplicate, MainInv
  <2>a. Node(k) = Node(Len(order) + 1)
    BY <2>1, <2>2, NodeFacts DEF FreedUpTo
  <2>b. Len(order) \in Nat /\ Len(order) + 1 \in 0..(Len(order) + 1)
    BY <2>2
  <2>3. k = Len(order) + 1 /\ Len(order) \in Nat
    BY <2>2, <2>a, <2>b, NodeFacts
  <2>4. \A i \in 0..Len(order) : cell[Node(i)] = "freed"
    BY <2>1, <2>3 DEF FreedUpTo
  <2>5. cell[First] = "freed" /\ \A r \in Linked : cell[r] = "freed"
    BY <2>2, <2>3, <2>4, NodeFacts DEF Linked
  <2>6. \A r \in Linked : payload[r] = "live" => r \in Opaque
    BY <2>1, <2>3 DEF FreedUpTo, Linked
  <2>7. \A t \in Workers : job[t] = NULL
    BY DEF IInv, MainInv, AllIdle, JobInv
  <2>8. \A r \in Results \ Linked :
          /\ payload[r] # "live"
          /\ cell[r] = "live" => r \in Records /\ Ruby \in Workers /\ unwinding
    BY <2>7, ResultsAssumption DEF IInv, UnlinkedInv
  <2>9. QED
    BY <2>5, <2>6, <2>8 DEF IInv, MainInv, Items
<1>2. QED
  BY <1>1, Invariance, PTL

-----------------------------------------------------------------------------
(* Refinement *)

unsentBar  == Results \ (Linked \cup dropped)
outcomeBar == IF Over THEN main ELSE "running"
answerBar  == IF main = "returned" THEN result ELSE <<>>

\* A step that changes neither the list nor how the call ends is a stutter.
LEMMA Stutter ==
  ASSUME UNCHANGED <<order, dropped>>,
         ~Over, ~Over'
  PROVE  UNCHANGED Contract!vars
BY DEF Contract!vars, Linked, Over

\* Every step of the call is a step of the contract or a stutter.
LEMMA StepRefines ==
  ASSUME IInv, [Next]_vars
  PROVE  [Contract!Next]_(Contract!vars)
<1> USE ResultsAssumption, WorkersAssumption
<1> USE DEF workerVars, listVars, heapVars, mainVars, histVars
<1>1. ASSUME NEW t \in Workers, Deliver(t) PROVE UNCHANGED Contract!vars
  BY <1>1, Stutter DEF Deliver, Over
<1>2. ASSUME NEW t \in Workers,
             AllocItem(t) \/ FillItem(t) \/ Lock(t) \/ SaveLast(t) \/ Unlock(t)
      PROVE  UNCHANGED Contract!vars
  BY <1>2, Stutter DEF AllocItem, FillItem, Lock, SaveLast, Unlock, Over
<1>3. ASSUME NEW t \in Workers, AllocFails(t) PROVE Contract!Next
  <2>1. job[t] \in Results \ (Linked \cup dropped)
    BY <1>3 DEF AllocFails, Goto, IInv, TypeOK, JobInv
  <2>2. /\ unsentBar' = unsentBar \ {job[t]}
        /\ outcomeBar = "running" /\ UNCHANGED <<order, outcomeBar, answerBar>>
    BY <1>3 DEF AllocFails, unsentBar, outcomeBar, answerBar, Linked, Over
  <2>3. Contract!Lose(job[t])
    BY <2>1, <2>2 DEF Contract!Lose, unsentBar, outcomeBar, answerBar
  <2>4. QED
    BY <2>1, <2>3 DEF Contract!Next
<1>4. ASSUME NEW t \in Workers, CopyRaises(t) PROVE [Contract!Next]_(Contract!vars)
  <2>1. CASE t = Ruby
    BY <1>4, <2>1, Stutter DEF CopyRaises, Over
  <2>2. CASE t # Ruby
    <3>1. /\ outcomeBar = "running" /\ outcomeBar' = "aborted"
          /\ UNCHANGED <<unsentBar, order, answerBar>>
      BY <1>4, <2>2 DEF CopyRaises, unsentBar, outcomeBar, answerBar, Linked, Over
    <3>2. Contract!Fail("aborted")
      BY <3>1 DEF Contract!Fail, unsentBar, outcomeBar, answerBar
    <3>3. QED
      BY <3>2 DEF Contract!Next
  <2>3. QED
    BY <2>1, <2>2
<1>5. ASSUME NEW t \in Workers, Link(t) PROVE Contract!Next
  <2>1. job[t] \in Results \ (Linked \cup dropped)
    BY <1>5 DEF Link, Goto, IInv, TypeOK, JobInv
  <2>2. Linked' = Linked \cup {job[t]}
    BY <1>5, <2>1 DEF Link, Linked, IInv, TypeOK
  <2>3. /\ unsentBar' = unsentBar \ {job[t]} /\ order' = Append(order, job[t])
        /\ outcomeBar = "running" /\ UNCHANGED <<outcomeBar, answerBar>>
    BY <1>5, <2>2 DEF Link, unsentBar, outcomeBar, answerBar, Over
  <2>4. Contract!Gather(job[t])
    BY <2>1, <2>3 DEF Contract!Gather, unsentBar, outcomeBar, answerBar
  <2>5. QED
    BY <2>1, <2>4 DEF Contract!Next
<1>6. ASSUME NodeFails \/ ForeachOk \/ ForeachErr \/ ConvertItem \/ ConvertRaises
             \/ ConvertDone \/ DestroyHandle \/ DestroyItem
      PROVE  UNCHANGED Contract!vars
  BY <1>6, Stutter DEF NodeFails, ForeachOk, ForeachErr, ConvertItem, ConvertRaises,
     ConvertDone, DestroyHandle, DestroyItem, Over
<1>7. ASSUME Finish PROVE Contract!Next
  <2>1. /\ outcomeBar = "running" /\ answerBar = <<>>
        /\ UNCHANGED <<unsentBar, order>>
    BY <1>7 DEF Finish, unsentBar, outcomeBar, answerBar, Linked, Over
  <2>2. CASE unwinding
    <3>1. outcomeBar' = "raised" /\ answerBar' = <<>>
      BY <1>7, <2>2 DEF Finish, outcomeBar, answerBar, Over
    <3>2. Contract!Fail("raised")
      BY <2>1, <3>1 DEF Contract!Fail, unsentBar, outcomeBar, answerBar
    <3>3. QED
      BY <3>2 DEF Contract!Next
  <2>3. CASE ~unwinding
    <3>1. outcomeBar' = "returned" /\ answerBar' = order
      BY <1>7, <2>3 DEF Finish, outcomeBar, answerBar, Over, IInv, MainInv
    <3>2. \A t \in Workers : job[t] = NULL
      BY <1>7 DEF Finish, IInv, MainInv, AllIdle, JobInv
    <3>3. unsentBar = {}
      BY <1>7, <2>3, <3>2 DEF Finish, IInv, MainInv, PartitionInv, unsentBar
    <3>4. Contract!Return
      BY <2>1, <3>1, <3>3 DEF Contract!Return, unsentBar, outcomeBar, answerBar
    <3>5. QED
      BY <3>4 DEF Contract!Next
  <2>4. QED
    BY <2>2, <2>3
<1>8. CASE UNCHANGED vars
  BY <1>8 DEF vars, Contract!vars, Linked, Over
<1>9. QED
  BY <1>1, <1>2, <1>3, <1>4, <1>5, <1>6, <1>7, <1>8 DEF Next, Callback, RubyThread, Done

\* A collecting call keeps the contract of CollectContract.
THEOREM Refinement == Spec => ImplementsContract
<1>1. Init => Contract!Init
  BY DEF Init, Contract!Init, Linked, Over
<1>2. IInv /\ [Next]_vars => [Contract!Next]_(Contract!vars)
  BY StepRefines
<1>3. QED
  BY <1>1, <1>2, Invariance, PTL DEF Spec, Contract!Spec, ImplementsContract
=============================================================================

-------------------------- MODULE ForeachEachProofs --------------------------
(***************************************************************************)
(* Proofs about ForeachEach, for any pool, any number of results and calls    *)
(* and any depth.                                                            *)
(*                                                                         *)
(* IInv counts the callbacks the owner of the mutex is inside, Held.  The      *)
(* sequence of calls changes in four ways: a thread moves on in a callback     *)
(* (Moves), a result is delivered (Delivers), a call is added (Grows) or calls *)
(* are taken off the end (Shrinks).  The lemmas of the first part say what     *)
(* each of them leaves of frames; the invariant is then one lemma for each     *)
(* action.                                                                   *)
(***************************************************************************)
EXTENDS ForeachEach, FiniteSetTheorems, TLAPS

Places == {"none", "lock", "run", "unlock"}
In(c, t) == c.at[t] \in {"run", "unlock"}

\* everything about a call but its results and its places
SameCall(c, d) == c.kind = d.kind /\ c.mode = d.mode /\ c.caller = d.caller

-----------------------------------------------------------------------------
(* The sequence of calls *)

LEMMA FrameType ==
  ASSUME TypeOK
  PROVE  /\ Len(frames) \in Nat
         /\ \A i \in 1..Len(frames) :
              /\ frames[i] \in Call
              /\ frames[i].caller \in Threads /\ frames[i].left \in 0..MaxResults
              /\ frames[i].at \in [Threads -> Places]
<1>1. frames \in Seq(Call)
  BY DEF TypeOK
<1>2. Len(frames) \in Nat /\ \A i \in 1..Len(frames) : frames[i] \in Call
  BY <1>1
<1> QED
  BY <1>2 DEF Call, Places

\* one call is replaced by another
LEMMA Replaced ==
  ASSUME TypeOK, NEW i \in 1..Len(frames), NEW c \in Call,
         frames' = [frames EXCEPT ![i] = c]
  PROVE  /\ frames' \in Seq(Call) /\ Len(frames') = Len(frames)
         /\ frames'[i] = c
         /\ \A j \in 1..Len(frames) : j # i => frames'[j] = frames[j]
<1>1. frames \in Seq(Call)
  BY DEF TypeOK
<1> QED
  BY <1>1

\* Goto moves one thread on in one call
LEMMA Moves ==
  ASSUME TypeOK, NEW t \in Threads, NEW i \in 1..Len(frames),
         NEW from \in Places, NEW to \in Places, Goto(t, i, from, to)
  PROVE  /\ frames' \in Seq(Call) /\ Len(frames') = Len(frames)
         /\ \A j \in 1..Len(frames) : SameCall(frames'[j], frames[j])
         /\ \A j \in 1..Len(frames), u \in Threads :
              frames'[j].at[u] = IF j = i /\ u = t THEN to ELSE frames[j].at[u]
<1> DEFINE c == [frames[i] EXCEPT !.at = [@ EXCEPT ![t] = to]]
<1>1. frames[i] \in Call
  BY FrameType
<1>2. c \in Call
  BY <1>1 DEF Call, Places
<1>3. frames' = [frames EXCEPT ![i] = c]
  BY DEF Goto
<1>4. /\ frames' \in Seq(Call) /\ Len(frames') = Len(frames) /\ frames'[i] = c
      /\ \A j \in 1..Len(frames) : j # i => frames'[j] = frames[j]
  BY <1>2, <1>3, Replaced
<1>5. SameCall(c, frames[i])
  BY <1>1 DEF SameCall, Call
<1>6. \A u \in Threads : c.at[u] = IF u = t THEN to ELSE frames[i].at[u]
  BY <1>1 DEF Call
<1> QED
  BY <1>4, <1>5, <1>6 DEF SameCall

\* Deliver sends a free thread to the lock of one call
LEMMA Delivers ==
  ASSUME TypeOK, NEW t \in Threads, NEW i \in 1..Len(frames), Deliver(t, i)
  PROVE  /\ frames' \in Seq(Call) /\ Len(frames') = Len(frames)
         /\ \A j \in 1..Len(frames) : SameCall(frames'[j], frames[j])
         /\ \A j \in 1..Len(frames), u \in Threads :
              frames'[j].at[u] = IF j = i /\ u = t THEN "lock" ELSE frames[j].at[u]
<1> DEFINE c == [frames[i] EXCEPT !.left = @ - 1, !.at = [@ EXCEPT ![t] = "lock"]]
<1>1. frames[i] \in Call /\ frames[i].left > 0
  BY FrameType DEF Deliver
<1> DEFINE l == frames[i].left - 1
<1>a. l \in 0..MaxResults
  BY <1>1, BoundsAssumption DEF Call
<1>2. c \in Call
  <2>1. c = [frames[i] EXCEPT !.left = l, !.at = [@ EXCEPT ![t] = "lock"]]
    OBVIOUS
  <2> HIDE DEF l
  <2> QED
    BY <1>1, <1>a, <2>1 DEF Call
<1>3. frames' = [frames EXCEPT ![i] = c]
  BY DEF Deliver
<1>4. /\ frames' \in Seq(Call) /\ Len(frames') = Len(frames) /\ frames'[i] = c
      /\ \A j \in 1..Len(frames) : j # i => frames'[j] = frames[j]
  BY <1>2, <1>3, Replaced
<1>5. SameCall(c, frames[i])
  BY <1>1 DEF SameCall, Call
<1>6. \A u \in Threads : c.at[u] = IF u = t THEN "lock" ELSE frames[i].at[u]
  BY <1>1 DEF Call
<1> HIDE DEF c
<1>7. \A j \in 1..Len(frames) : j = i \/ frames'[j] = frames[j]
  BY <1>4
<1>8. \A j \in 1..Len(frames) : SameCall(frames'[j], frames[j])
  BY <1>4, <1>5, <1>7 DEF SameCall
<1>9. \A j \in 1..Len(frames), u \in Threads :
        frames'[j].at[u] = IF j = i /\ u = t THEN "lock" ELSE frames[j].at[u]
  BY <1>4, <1>6, <1>7
<1> QED
  BY <1>4, <1>8, <1>9

\* Push adds a call no thread works for
LEMMA Grows ==
  ASSUME TypeOK, NEW t \in Threads, Push(t)
  PROVE  /\ frames' \in Seq(Call) /\ Len(frames') = Len(frames) + 1
         /\ Len(frames') <= MaxDepth
         /\ \A j \in 1..Len(frames) : frames'[j] = frames[j]
         /\ frames'[Len(frames')].caller = t
         /\ \A u \in Threads : frames'[Len(frames')].at[u] = "none"
<1>1. PICK k \in {"each", "collect"}, m \in {"pool", "inline"}, n \in 0..MaxResults :
        frames' = Append(frames, [kind |-> k, mode |-> m, caller |-> t, left |-> n,
                                  at |-> [u \in Threads |-> "none"]])
  BY DEF Push
<1> DEFINE c == [kind |-> k, mode |-> m, caller |-> t, left |-> n,
                 at |-> [u \in Threads |-> "none"]]
<1>2. c \in Call /\ c.caller = t /\ \A u \in Threads : c.at[u] = "none"
  BY DEF Call
<1> HIDE DEF c
<1>3. frames \in Seq(Call) /\ frames' = Append(frames, c)
  BY <1>1 DEF TypeOK, c
<1>4. /\ frames' \in Seq(Call) /\ Len(frames') = Len(frames) + 1
      /\ \A j \in 1..Len(frames) : frames'[j] = frames[j]
      /\ frames'[Len(frames) + 1] = c
  BY <1>2, <1>3
<1>5. Len(frames') <= MaxDepth
  BY <1>4, BoundsAssumption, FrameType DEF Push
<1> QED
  BY <1>2, <1>4, <1>5

\* calls are taken off the end
LEMMA Shrinks ==
  ASSUME TypeOK, NEW m \in 0..Len(frames), frames' = SubSeq(frames, 1, m)
  PROVE  /\ frames' \in Seq(Call) /\ Len(frames') = m
         /\ \A j \in 1..m : frames'[j] = frames[j]
<1>1. frames \in Seq(Call)
  BY DEF TypeOK
<1> QED
  BY <1>1

-----------------------------------------------------------------------------
(* The mutex *)

LEMMA HeldFinite ==
  ASSUME TypeOK, NEW t
  PROVE  /\ IsFiniteSet(Held(t)) /\ Cardinality(Held(t)) \in Nat
         /\ Held(t) # {} => Cardinality(Held(t)) > 0
<1>1. IsFiniteSet(1..Len(frames))
  BY FrameType, FS_Interval
<1>2. IsFiniteSet(Held(t))
  BY <1>1, FS_Subset DEF Held
<1> QED
  BY <1>2, FS_CardinalityType, FS_EmptySet

\* the one inside a callback of call i is the owner, and i is counted
LEMMA InsideOwner ==
  ASSUME IInv, NEW t \in Threads, NEW i \in 1..Len(frames), In(frames[i], t)
  PROVE  /\ t = owner /\ owner # NULL
         /\ i \in Held(t)
         /\ depth = abandoned + Cardinality(Held(t))
         /\ depth > 0
<1>1. t = owner /\ i \in Held(t)
  BY DEF IInv, InsideOwns, In, Held
<1>2. owner # NULL
  BY <1>1, ThreadsAssumption
<1>3. depth = abandoned + Cardinality(Held(t))
  BY <1>1, <1>2 DEF IInv, HoldsBalanced
<1>4. Cardinality(Held(t)) > 0 /\ Cardinality(Held(t)) \in Nat
  BY <1>1, HeldFinite DEF IInv
<1> QED
  BY <1>1, <1>2, <1>3, <1>4 DEF IInv, TypeOK

\* a thread inside a callback that does not wait is inside no call above
LEMMA Innermost ==
  ASSUME IInv, NEW t \in Threads, NEW i \in 1..Len(frames), In(frames[i], t),
         ~Waiting(t, i)
  PROVE  Len(frames) = i
<1>1. t = owner
  BY InsideOwner
<1>2. Len(frames) \in Nat
  BY FrameType DEF IInv
<1> SUFFICES ASSUME Len(frames) > i PROVE FALSE
  BY <1>2
<1>3. i + 1 \in 2..Len(frames)
  BY <1>2
<1>4. frames[i + 1].caller = t
  BY <1>1, <1>3 DEF IInv, NestedByOwner
<1> QED
  BY <1>2, <1>4 DEF Waiting

\* the counting is not disturbed by a step that leaves the mutex and the insides alone
LEMMA StillBalanced ==
  ASSUME IInv, UNCHANGED <<owner, depth, abandoned>>,
         \A u \in Threads : Held(u)' = Held(u)
  PROVE  HoldsBalanced'
<1>1. owner # NULL => Held(owner)' = Held(owner)
  BY DEF IInv, TypeOK
<1> QED
  BY <1>1 DEF IInv, HoldsBalanced

-----------------------------------------------------------------------------
(* The invariant *)

LEMMA InitSound == Init => IInv
<1> SUFFICES ASSUME Init PROVE IInv
  OBVIOUS
<1>1. Len(frames) = 0 /\ 1..Len(frames) = {} /\ 2..Len(frames) = {}
  BY DEF Init
<1>2. TypeOK
  <2>1. frames \in Seq(Call)
    BY DEF Init
  <2>2. Len(frames) <= MaxDepth /\ calls \in 0..MaxCalls
    BY <1>1, BoundsAssumption DEF Init
  <2> QED
    BY <2>1, <2>2 DEF Init, TypeOK
<1>3. HoldsBalanced
  BY DEF Init, HoldsBalanced
<1> QED
  BY <1>1, <1>2, <1>3 DEF IInv, OwnRunners, InsideOwns, NestedByOwner

\* a call is made outside any block, or in the block the owner runs
LEMMA PushSound ==
  ASSUME IInv, NEW t \in Threads, Push(t),
         frames = <<>> \/ \E i \in 1..Len(frames) : frames[i].at[t] = "run"
  PROVE  IInv'
<1> DEFINE n == Len(frames) + 1
<1>1. /\ frames' \in Seq(Call) /\ Len(frames') = n /\ n <= MaxDepth
      /\ \A j \in 1..Len(frames) : frames'[j] = frames[j]
      /\ frames'[n].caller = t /\ \A u \in Threads : frames'[n].at[u] = "none"
  BY Grows DEF IInv
<1>2. Len(frames) \in Nat
  BY FrameType DEF IInv
<1>3. UNCHANGED <<owner, depth, abandoned, aborted>> /\ calls' \in 0..MaxCalls
  BY BoundsAssumption DEF Push, IInv, TypeOK
<1>4. \A j \in 1..n : j = n \/ j \in 1..Len(frames)
  BY <1>2
<1>5. TypeOK'
  BY <1>1, <1>3 DEF IInv, TypeOK
<1>6. HoldsBalanced'
  <2>1. \A u \in Threads : Held(u)' = Held(u)
    BY <1>1, <1>2, <1>4 DEF Held
  <2> QED
    BY <2>1, <1>3, StillBalanced
<1>7. OwnRunners'
  BY <1>1, <1>4 DEF IInv, OwnRunners, Runners
<1>8. InsideOwns'
  BY <1>1, <1>3, <1>4 DEF IInv, InsideOwns
<1>9. NestedByOwner'
  <2> SUFFICES ASSUME NEW j \in 2..n
               PROVE  frames'[j].caller = owner /\ \E i \in 1..(j - 1) : frames'[i].at[owner] = "run"
    BY <1>1, <1>3 DEF NestedByOwner
  <2>1. CASE j = n
    <3>1. PICK i \in 1..Len(frames) : frames[i].at[t] = "run"
      BY <1>2, <2>1
    <3>2. t = owner
      BY <3>1, InsideOwner DEF In
    <3> QED
      BY <1>1, <1>2, <2>1, <3>1, <3>2
  <2>2. CASE j # n
    <3>1. j \in 2..Len(frames)
      BY <1>2, <2>2
    <3>2. PICK i \in 1..(j - 1) : frames[i].at[owner] = "run"
      BY <3>1 DEF IInv, NestedByOwner
    <3>3. frames[j].caller = owner /\ frames'[j] = frames[j] /\ frames'[i] = frames[i]
      BY <1>1, <1>2, <3>1 DEF IInv, NestedByOwner
    <3> QED
      BY <3>2, <3>3
  <2> QED
    BY <2>1, <2>2
<1> QED
  BY <1>5, <1>6, <1>7, <1>8, <1>9 DEF IInv

\* a callback comes to its unlock: the block, or the append, is done
LEMMA ReturnSound ==
  ASSUME IInv, NEW t \in Threads, NEW i \in 1..Len(frames), Goto(t, i, "run", "unlock"),
         UNCHANGED <<owner, depth, abandoned, calls, aborted>>
  PROVE  IInv'
<1>1. /\ frames' \in Seq(Call) /\ Len(frames') = Len(frames)
      /\ \A j \in 1..Len(frames) : SameCall(frames'[j], frames[j])
      /\ \A j \in 1..Len(frames), u \in Threads :
           frames'[j].at[u] = IF j = i /\ u = t THEN "unlock" ELSE frames[j].at[u]
  BY Moves DEF IInv, Places
<1>2. frames[i].at[t] = "run" /\ ~Waiting(t, i)
  BY DEF Goto
<1>3. TypeOK'
  BY <1>1 DEF IInv, TypeOK
<1>4. HoldsBalanced'
  <2>1. \A u \in Threads : Held(u)' = Held(u)
    BY <1>1, <1>2 DEF Held
  <2> QED
    BY <2>1, StillBalanced
<1>5. OwnRunners'
  BY <1>1, <1>2 DEF IInv, OwnRunners, Runners, SameCall
<1>6. InsideOwns'
  BY <1>1, <1>2 DEF IInv, InsideOwns
<1>7. NestedByOwner'
  <2>1. Len(frames) = i
    BY <1>2, Innermost DEF In
  <2>2. ASSUME NEW j \in 2..Len(frames)
        PROVE  frames'[j].caller = owner /\ \E k \in 1..(j - 1) : frames'[k].at[owner] = "run"
    <3>1. PICK k \in 1..(j - 1) : frames[k].at[owner] = "run"
      BY DEF IInv, NestedByOwner
    <3>2. k \in 1..Len(frames) /\ k # i
      BY <2>1, FrameType DEF IInv
    <3>3. frames[j].caller = owner /\ owner = t
      BY <1>2, InsideOwner DEF IInv, NestedByOwner, In
    <3> QED
      BY <1>1, <3>1, <3>2, <3>3 DEF SameCall
  <2> QED
    BY <1>1, <2>2 DEF NestedByOwner
<1> QED
  BY <1>3, <1>4, <1>5, <1>6, <1>7 DEF IInv

LEMMA DeliverSound ==
  ASSUME IInv, NEW t \in Threads, NEW i \in 1..Len(frames), Deliver(t, i)
  PROVE  IInv'
<1>1. /\ frames' \in Seq(Call) /\ Len(frames') = Len(frames)
      /\ \A j \in 1..Len(frames) : SameCall(frames'[j], frames[j])
      /\ \A j \in 1..Len(frames), u \in Threads :
           frames'[j].at[u] = IF j = i /\ u = t THEN "lock" ELSE frames[j].at[u]
  BY Delivers DEF IInv
<1>2. /\ frames[i].at[t] = "none" /\ t \in Runners(frames[i])
      /\ UNCHANGED <<owner, depth, abandoned, calls, aborted>>
  BY DEF Deliver, Free
<1>3. TypeOK'
  BY <1>1, <1>2 DEF IInv, TypeOK
<1>4. HoldsBalanced'
  <2>1. \A u \in Threads : Held(u)' = Held(u)
    BY <1>1, <1>2 DEF Held
  <2> QED
    BY <1>2, <2>1, StillBalanced
<1>5. OwnRunners'
  BY <1>1, <1>2 DEF IInv, OwnRunners, Runners, SameCall
<1>6. InsideOwns'
  BY <1>1, <1>2 DEF IInv, InsideOwns
<1>7. NestedByOwner'
  <2>1. ASSUME NEW j \in 2..Len(frames)
        PROVE  frames'[j].caller = owner /\ \E k \in 1..(j - 1) : frames'[k].at[owner] = "run"
    <3>1. PICK k \in 1..(j - 1) : frames[k].at[owner] = "run"
      BY DEF IInv, NestedByOwner
    <3>2. k \in 1..Len(frames) /\ j \in 1..Len(frames)
      BY FrameType DEF IInv
    <3>3. frames[j].caller = owner /\ owner \in Threads
      BY <3>2, FrameType DEF IInv, NestedByOwner
    <3> QED
      BY <1>1, <1>2, <3>1, <3>2, <3>3 DEF SameCall
  <2> QED
    BY <1>1, <1>2, <2>1 DEF NestedByOwner
<1> QED
  BY <1>3, <1>4, <1>5, <1>6, <1>7 DEF IInv

\* The mutex is recursive: it is free, and then no one is inside, or the thread
\* that gets it holds it already.
LEMMA LockSound ==
  ASSUME IInv, NEW t \in Threads, NEW i \in 1..Len(frames), Lock(t, i)
  PROVE  IInv'
<1>1. /\ frames' \in Seq(Call) /\ Len(frames') = Len(frames)
      /\ \A j \in 1..Len(frames) : SameCall(frames'[j], frames[j])
      /\ \A j \in 1..Len(frames), u \in Threads :
           frames'[j].at[u] = IF j = i /\ u = t THEN "run" ELSE frames[j].at[u]
  BY Moves DEF IInv, Places, Lock
<1>2. /\ frames[i].at[t] = "lock" /\ owner \in {NULL, t}
      /\ owner' = t /\ depth' = depth + 1
      /\ UNCHANGED <<abandoned, calls, aborted>>
  BY DEF Lock, Goto, Lockable
<1>3. TypeOK'
  BY <1>1, <1>2 DEF IInv, TypeOK
<1>4. depth \in Nat /\ abandoned \in Nat /\ t # NULL
  BY ThreadsAssumption DEF IInv, TypeOK
<1>5. HoldsBalanced'
  <2>1. Held(t)' = Held(t) \cup {i} /\ i \notin Held(t)
    BY <1>1, <1>2 DEF Held
  <2>2. Cardinality(Held(t)') = Cardinality(Held(t)) + 1
    BY <2>1, HeldFinite, FS_AddElement DEF IInv
  <2>3. depth = abandoned + Cardinality(Held(t)) /\ (abandoned > 0 => t = Ruby)
    <3>1. CASE owner = t
      BY <1>4, <3>1 DEF IInv, HoldsBalanced
    <3>2. CASE owner = NULL
      <4>1. depth = 0 /\ abandoned = 0
        BY <1>4, <3>2, ThreadsAssumption DEF IInv, HoldsBalanced, Threads
      <4>2. Held(t) = {}
        BY <1>4, <3>2 DEF IInv, InsideOwns, Held
      <4> QED
        BY <4>1, <4>2, FS_EmptySet
    <3> QED
      BY <1>2, <3>1, <3>2
  <2>4. Cardinality(Held(t)) \in Nat
    BY HeldFinite DEF IInv
  <2>5. depth' = abandoned' + Cardinality(Held(t)') /\ depth' # 0
    BY <1>2, <1>4, <2>2, <2>3, <2>4
  <2> QED
    BY <1>2, <1>4, <2>3, <2>5 DEF HoldsBalanced
<1>6. OwnRunners'
  BY <1>1, <1>2 DEF IInv, OwnRunners, Runners, SameCall
<1>7. InsideOwns'
  BY <1>1, <1>2, ThreadsAssumption DEF IInv, InsideOwns
<1>8. NestedByOwner'
  <2>1. ASSUME NEW j \in 2..Len(frames)
        PROVE  frames'[j].caller = t /\ \E k \in 1..(j - 1) : frames'[k].at[t] = "run"
    <3>1. PICK k \in 1..(j - 1) : frames[k].at[owner] = "run"
      BY DEF IInv, NestedByOwner
    <3>2. k \in 1..Len(frames) /\ j \in 1..Len(frames)
      BY FrameType DEF IInv
    <3>3. frames[j].caller = owner /\ owner = t
      BY <1>2, <3>2, FrameType, ThreadsAssumption DEF IInv, NestedByOwner
    <3> QED
      BY <1>1, <3>1, <3>2, <3>3 DEF SameCall
  <2> QED
    BY <1>1, <1>2, <2>1 DEF NestedByOwner
<1> QED
  BY <1>3, <1>5, <1>6, <1>7, <1>8 DEF IInv

\* The innermost callback ends.  The mutex is free then if no callback of the
\* owner is left and none was abandoned, so that no nested call is without it.
LEMMA UnlockSound ==
  ASSUME IInv, NEW t \in Threads, NEW i \in 1..Len(frames), Unlock(t, i)
  PROVE  IInv'
<1>1. /\ frames' \in Seq(Call) /\ Len(frames') = Len(frames)
      /\ \A j \in 1..Len(frames) : SameCall(frames'[j], frames[j])
      /\ \A j \in 1..Len(frames), u \in Threads :
           frames'[j].at[u] = IF j = i /\ u = t THEN "none" ELSE frames[j].at[u]
  BY Moves DEF IInv, Places, Unlock
<1>2. /\ frames[i].at[t] = "unlock" /\ ~Waiting(t, i)
      /\ depth' = depth - 1 /\ owner' = IF depth = 1 THEN NULL ELSE owner
      /\ UNCHANGED <<abandoned, calls, aborted>>
  BY DEF Unlock, Goto
<1>3. /\ t = owner /\ i \in Held(t) /\ depth > 0 /\ t # NULL
      /\ depth = abandoned + Cardinality(Held(t)) /\ Len(frames) = i
  BY <1>2, InsideOwner, Innermost DEF In
<1>4. depth \in Nat /\ abandoned \in Nat
  BY DEF IInv, TypeOK
<1>5. TypeOK'
  BY <1>1, <1>2, <1>3, <1>4 DEF IInv, TypeOK
<1>6. Held(t)' = Held(t) \ {i}
  BY <1>1, <1>2 DEF Held
<1>7. /\ Cardinality(Held(t)') = Cardinality(Held(t)) - 1
      /\ Cardinality(Held(t)) \in Nat /\ Cardinality(Held(t)) > 0
      /\ IsFiniteSet(Held(t)')
  BY <1>3, <1>6, HeldFinite, FS_RemoveElement DEF IInv
<1>8. HoldsBalanced'
  <2>1. CASE depth = 1
    BY <1>2, <1>4, <1>3, <1>7, <2>1 DEF HoldsBalanced
  <2>2. CASE depth # 1
    <3>1. owner' = t /\ depth' # 0 /\ depth' = abandoned' + Cardinality(Held(t)')
      BY <1>2, <1>3, <1>4, <1>7, <2>2
    <3> QED
      BY <1>2, <1>3, <3>1 DEF IInv, HoldsBalanced
  <2> QED
    BY <2>1, <2>2
<1>9. OwnRunners'
  BY <1>1, <1>2 DEF IInv, OwnRunners, Runners, SameCall
\* with the mutex given back, the callback that has ended was the only one
<1>10. ASSUME depth = 1 PROVE Held(t)' = {}
  BY <1>3, <1>4, <1>7, <1>10, FS_EmptySet
<1>11. InsideOwns'
  <2> SUFFICES ASSUME NEW j \in 1..Len(frames), NEW u \in Threads,
                      frames'[j].at[u] \in {"run", "unlock"}
               PROVE  u = owner'
    BY <1>1 DEF InsideOwns
  <2>1. frames[j].at[u] \in {"run", "unlock"}
    BY <1>1
  <2>2. u = t
    BY <1>3, <2>1 DEF IInv, InsideOwns
  <2>3. j \in Held(t)'
    BY <1>1, <2>2 DEF Held
  <2> QED
    BY <1>2, <1>3, <1>10, <2>2, <2>3
<1>12. NestedByOwner'
  <2>1. ASSUME NEW j \in 2..Len(frames)
        PROVE  frames'[j].caller = owner' /\ \E k \in 1..(j - 1) : frames'[k].at[owner'] = "run"
    <3>1. PICK k \in 1..(j - 1) : frames[k].at[owner] = "run"
      BY DEF IInv, NestedByOwner
    <3>2. k \in 1..Len(frames) /\ j \in 1..Len(frames) /\ k # i
      BY <1>3, FrameType DEF IInv
    <3>3. frames[j].caller = t /\ frames'[k].at[t] = "run"
      BY <1>1, <1>3, <3>1, <3>2 DEF IInv, NestedByOwner
    <3>4. k \in Held(t)'
      BY <1>1, <3>2, <3>3 DEF Held
    <3> QED
      BY <1>1, <1>2, <1>3, <1>10, <3>2, <3>3, <3>4 DEF SameCall
  <2> QED
    BY <1>1, <2>1 DEF NestedByOwner
<1> QED
  BY <1>5, <1>8, <1>9, <1>11, <1>12 DEF IInv

\* calls end whose callbacks have all ended
LEMMA EndSound ==
  ASSUME IInv, frames # <<>>, Quiet(frames[Len(frames)]),
         frames' = SubSeq(frames, 1, Len(frames) - 1),
         UNCHANGED <<owner, depth, abandoned, calls, aborted>>
  PROVE  IInv'
<1> DEFINE m == Len(frames) - 1
<1>1. Len(frames) \in Nat /\ Len(frames) > 0
  BY FrameType DEF IInv, TypeOK
<1>2. /\ frames' \in Seq(Call) /\ Len(frames') = m
      /\ \A j \in 1..m : frames'[j] = frames[j]
  <2>1. TypeOK /\ m \in 0..Len(frames)
    BY <1>1 DEF IInv
  <2>2. frames' = SubSeq(frames, 1, m)
    OBVIOUS
  <2> QED
    BY <2>1, <2>2, Shrinks
<1>3. TypeOK'
  <2>1. TypeOK
    BY DEF IInv
  <2>2. Len(frames') <= MaxDepth
    BY <1>1, <1>2, <2>1, BoundsAssumption DEF TypeOK
  <2> QED
    BY <1>2, <2>1, <2>2 DEF TypeOK
<1>4. HoldsBalanced'
  <2>1. \A u \in Threads : Held(u)' = Held(u)
    BY <1>1, <1>2 DEF Held, Quiet
  <2> QED
    BY <2>1, StillBalanced
<1>5. \A j \in 1..m : j \in 1..Len(frames)
  BY <1>1
<1>6. OwnRunners' /\ InsideOwns'
  BY <1>2, <1>5 DEF IInv, OwnRunners, InsideOwns, Runners
<1>7. NestedByOwner'
  <2>1. ASSUME NEW j \in 2..m
        PROVE  frames'[j].caller = owner /\ \E k \in 1..(j - 1) : frames'[k].at[owner] = "run"
    <3>1. j \in 2..Len(frames)
      BY <1>1
    <3>2. PICK k \in 1..(j - 1) : frames[k].at[owner] = "run"
      BY <3>1 DEF IInv, NestedByOwner
    <3>3. frames[j].caller = owner /\ frames'[j] = frames[j] /\ frames'[k] = frames[k]
      BY <1>1, <1>2, <3>1 DEF IInv, NestedByOwner
    <3> QED
      BY <3>2, <3>3
  <2> QED
    BY <1>2, <2>1 DEF NestedByOwner
<1> QED
  BY <1>3, <1>4, <1>6, <1>7 DEF IInv

\* An exception takes the call of the block and every call above it away.  The
\* Ruby thread is inside none of those above, so one hold of the mutex is left
\* over, which abandoned counts.
LEMMA RaiseSound ==
  ASSUME IInv, NEW t \in Threads, NEW i \in 1..Len(frames), BlockRaises(t, i)
  PROVE  IInv'
<1>1. /\ frames[i].at[t] = "run" /\ ~Waiting(t, i)
      /\ UNCHANGED <<owner, depth, calls>>
  BY DEF BlockRaises
<1>2. CASE t # Ruby
  <2>1. aborted' = TRUE /\ UNCHANGED <<frames, abandoned>>
    BY <1>2 DEF BlockRaises
  <2> QED
    BY <1>1, <2>1 DEF IInv, TypeOK, HoldsBalanced, Held, OwnRunners, Runners, InsideOwns,
                      NestedByOwner
<1>3. CASE t = Ruby
  <2> DEFINE m == i - 1
  <2>1. frames' = SubSeq(frames, 1, m) /\ abandoned' = abandoned + 1 /\ UNCHANGED aborted
    BY <1>3 DEF BlockRaises
  <2>2. Len(frames) \in Nat /\ Len(frames) = i
    BY <1>1, FrameType, Innermost DEF IInv, In
  <2>3. /\ frames' \in Seq(Call) /\ Len(frames') = m
        /\ \A j \in 1..m : frames'[j] = frames[j]
    BY <2>1, <2>2, Shrinks DEF IInv
  <2>4. TypeOK'
    <3>1. TypeOK
      BY DEF IInv
    <3>2. Len(frames') <= MaxDepth
      BY <2>2, <2>3, <3>1, BoundsAssumption DEF TypeOK
    <3> QED
      BY <1>1, <2>1, <2>3, <3>1, <3>2 DEF TypeOK
  <2>5. /\ t = owner /\ owner # NULL /\ i \in Held(t)
        /\ depth = abandoned + Cardinality(Held(t)) /\ depth > 0
    BY <1>1, InsideOwner DEF In
  <2>6. Held(t)' = Held(t) \ {i}
    BY <2>2, <2>3 DEF Held
  <2>7. Cardinality(Held(t)') = Cardinality(Held(t)) - 1 /\ Cardinality(Held(t)) \in Nat
    BY <2>5, <2>6, HeldFinite, FS_RemoveElement DEF IInv
  <2>8. HoldsBalanced'
    <3>1. depth = (abandoned + 1) + Cardinality(Held(t)')
      BY <2>5, <2>7 DEF IInv, TypeOK
    <3> QED
      BY <1>1, <1>3, <2>1, <2>5, <3>1 DEF HoldsBalanced
  <2>9. \A j \in 1..m : j \in 1..Len(frames)
    BY <2>2
  <2>10. OwnRunners' /\ InsideOwns'
    BY <1>1, <2>3, <2>9 DEF IInv, OwnRunners, InsideOwns, Runners
  <2>11. NestedByOwner'
    <3>1. ASSUME NEW j \in 2..m
          PROVE  frames'[j].caller = owner /\ \E k \in 1..(j - 1) : frames'[k].at[owner] = "run"
      <4>1. j \in 2..Len(frames)
        BY <2>2
      <4>2. PICK k \in 1..(j - 1) : frames[k].at[owner] = "run"
        BY <4>1 DEF IInv, NestedByOwner
      <4>3. frames[j].caller = owner /\ frames'[j] = frames[j] /\ frames'[k] = frames[k]
        BY <2>2, <2>3, <4>1 DEF IInv, NestedByOwner
      <4> QED
        BY <4>2, <4>3
    <3> QED
      BY <1>1, <2>3, <3>1 DEF NestedByOwner
  <2> QED
    BY <2>4, <2>8, <2>10, <2>11 DEF IInv
<1> QED
  BY <1>2, <1>3

LEMMA StepSound ==
  ASSUME IInv, [Next]_vars
  PROVE  IInv'
<1>1. CASE UNCHANGED vars
  BY <1>1 DEF vars, IInv, TypeOK, HoldsBalanced, Held, OwnRunners, Runners, InsideOwns,
              NestedByOwner
<1>2. CASE StartCall
  <2>1. frames = <<>> /\ Push(Ruby) /\ Ruby \in Threads
    BY <1>2 DEF StartCall, Threads
  <2> QED
    BY <2>1, PushSound
<1>3. ASSUME NEW i \in 1..Len(frames), NEW t \in Threads, Step(t, i)
      PROVE  IInv'
  <2>1. CASE BlockCalls(t, i)
    BY <2>1, PushSound DEF BlockCalls
  <2>2. CASE BlockReturns(t, i) \/ AppendItem(t, i)
    BY <2>2, ReturnSound DEF BlockReturns, AppendItem
  <2>3. CASE BlockRaises(t, i)
    BY <2>3, RaiseSound
  <2>4. CASE Lock(t, i)
    BY <2>4, LockSound
  <2>5. CASE Unlock(t, i)
    BY <2>5, UnlockSound
  <2> QED
    BY <1>3, <2>1, <2>2, <2>3, <2>4, <2>5 DEF Step
<1>4. ASSUME NEW i \in 1..Len(frames), NEW t \in Threads, Deliver(t, i)
      PROVE  IInv'
  BY <1>4, DeliverSound
<1>5. CASE EndForeach
  BY <1>5, EndSound DEF EndForeach
<1>6. CASE ForeachErr
  BY <1>6, EndSound DEF ForeachErr
<1> QED
  BY <1>1, <1>2, <1>3, <1>4, <1>5, <1>6 DEF Next

\* The inductive invariant holds in every reachable state: the owner of the mutex
\* is inside the callbacks that are counted, and has made every nested call.
THEOREM Invariance == Spec => []IInv
<1>1. Init => IInv
  BY InitSound
<1>2. IInv /\ [Next]_vars => IInv'
  BY StepSound
<1> QED
  BY <1>1, <1>2, PTL DEF Spec

\* The state stays well-typed.
THEOREM TypeCorrect == Spec => []TypeOK
<1>1. IInv => TypeOK
  BY DEF IInv
<1> QED
  BY <1>1, Invariance, PTL

\* One thread at a time is inside the callbacks (run_begin, a block or an append),
\* whatever the size of the pool, however deep calls nest and whichever raise.
THEOREM Exclusive == Spec => []OneInside
<1>1. IInv => OneInside
  BY DEF IInv, InsideOwns, OneInside, Inside
<1> QED
  BY <1>1, Invariance, PTL

\* The mutex is held once for every callback its owner is inside, plus once for
\* every callback an exception has left.
THEOREM Balanced == Spec => []HoldsBalanced
<1>1. IInv => HoldsBalanced
  BY DEF IInv
<1> QED
  BY <1>1, Invariance, PTL

\* Calls get stuck only when a pooled call is nested in a block, or after an
\* exception has left a block.
THEOREM StuckCauses == Spec => []StuckOnlyThen
<1>1. ASSUME IInv, Stuck, Len(frames) <= 1, abandoned = 0
      PROVE  FALSE
  <2>1. Len(frames) = 1 /\ abandoned = 0
    <3>1. Len(frames) \in Nat /\ frames \in Seq(Call)
      BY <1>1, FrameType DEF IInv, TypeOK
    <3>2. frames # <<>>
      BY <1>1 DEF Stuck
    <3>3. Len(frames) # 0
      BY <3>1, <3>2
    <3>4. Len(frames) <= 1 /\ abandoned = 0
      BY <1>1
    <3> QED
      BY <3>1, <3>3, <3>4
  <2>2. owner # NULL /\ frames[1].at[owner] = "none"
    BY <1>1, <2>1 DEF Stuck
  <2>3. Held(owner) = {}
    BY <2>1, <2>2 DEF Held
  <2>4. depth = 0
    <3>1. depth = abandoned + Cardinality(Held(owner))
      BY <1>1, <2>2 DEF IInv, HoldsBalanced
    <3>2. Cardinality(Held(owner)) = 0
      BY <2>3, FS_EmptySet
    <3> QED
      BY <2>1, <3>1, <3>2
  <2> QED
    BY <1>1, <2>2, <2>4 DEF IInv, HoldsBalanced
<1>2. IInv => StuckOnlyThen
  BY <1>1, FrameType DEF IInv, TypeOK, StuckOnlyThen
<1> QED
  BY <1>2, Invariance, PTL

-----------------------------------------------------------------------------
(* A deadlock lasts *)

\* In a deadlock no thread inside a callback can move: it is the owner, and waits
\* for a call it has made.
LEMMA StuckInside ==
  ASSUME IInv, Stuck, NEW t \in Threads, NEW i \in 1..Len(frames), ~Waiting(t, i)
  PROVE  ~In(frames[i], t)
<1> SUFFICES ASSUME In(frames[i], t) PROVE FALSE
  OBVIOUS
<1>1. t = owner /\ Len(frames) = i
  BY InsideOwner, Innermost
<1>2. frames[i].at[t] = "none"
  BY <1>1 DEF Stuck
<1> QED
  BY <1>2 DEF In

\* The mutex cannot be had: its owner waits for the innermost call too.
LEMMA StuckLock ==
  ASSUME IInv, Stuck, NEW t \in Threads, NEW i \in 1..Len(frames)
  PROVE  ~Lock(t, i)
<1> SUFFICES ASSUME Lock(t, i) PROVE FALSE
  OBVIOUS
<1>1. frames[i].at[t] = "lock" /\ ~Waiting(t, i) /\ owner \in {NULL, t}
  BY DEF Lock, Goto, Lockable
<1>2. owner = t /\ frames[Len(frames)].at[t] = "none"
  BY <1>1 DEF Stuck
<1>3. i # Len(frames) /\ Len(frames) \in Nat
  BY <1>1, <1>2, FrameType DEF IInv
<1>4. Len(frames) \in 2..Len(frames) /\ Len(frames) \in (i + 1)..Len(frames)
  BY <1>3
<1>5. frames[Len(frames)].caller = t
  BY <1>2, <1>4 DEF IInv, NestedByOwner
<1> QED
  BY <1>1, <1>4, <1>5 DEF Waiting

\* The innermost call does not end: a pool thread waits in its callback, or none
\* is left to run it.
LEMMA StuckEnd ==
  ASSUME IInv, Stuck, Quiet(frames[Len(frames)]),
         NEW t \in Runners(frames[Len(frames)]), Free(t, Len(frames))
  PROVE  FALSE
<1>1. frames[Len(frames)].mode = "pool" /\ t \in Pool /\ ~Busy(t)
  BY DEF Stuck, Free, Runners
<1>2. \A u \in Pool : frames[Len(frames)].at[u] # "lock"
  BY DEF Quiet, Threads
<1> QED
  BY <1>1, <1>2 DEF Stuck

\* The owner takes no result of the innermost call: it is no thread of the pool,
\* or is busy in the block that call was made in.
LEMMA StuckOwner ==
  ASSUME IInv, Stuck, NEW i \in 1..Len(frames), i = Len(frames)
  PROVE  ~Free(owner, i)
<1> SUFFICES ASSUME Free(owner, i) PROVE FALSE
  OBVIOUS
<1>1. owner \in Pool /\ ~Busy(owner) /\ owner # NULL
  BY DEF Stuck, Free, Runners
<1>2. Held(owner) = {}
  BY <1>1 DEF Busy, Held
<1>3. Cardinality(Held(owner)) = 0
  BY <1>2, FS_EmptySet
<1>4. depth = abandoned + Cardinality(Held(owner)) /\ depth # 0 /\ abandoned \in Nat
  BY <1>1 DEF IInv, TypeOK, HoldsBalanced
<1>5. abandoned > 0
  BY <1>3, <1>4
<1>6. owner = Ruby
  BY <1>5 DEF IInv, HoldsBalanced
<1> QED
  BY <1>1, <1>6, ThreadsAssumption

LEMMA StuckDeliver ==
  ASSUME IInv, Stuck, NEW t \in Threads, NEW i \in 1..Len(frames), Deliver(t, i)
  PROVE  Stuck'
<1> DEFINE n == Len(frames)
<1>1. /\ frames' \in Seq(Call) /\ Len(frames') = n
      /\ \A j \in 1..n : SameCall(frames'[j], frames[j])
      /\ \A j \in 1..n, u \in Threads :
           frames'[j].at[u] = IF j = i /\ u = t THEN "lock" ELSE frames[j].at[u]
  BY Delivers DEF IInv
<1>2. n \in Nat /\ n \in 1..n
  BY FrameType DEF IInv
<1>3. UNCHANGED <<owner, aborted>> /\ Free(t, i) /\ ~aborted
  BY DEF Deliver
<1>4. /\ owner \in Threads /\ owner # NULL
      /\ frames[n].mode = "pool" /\ frames[n].at[owner] = "none"
      /\ (\E u \in Pool : frames[n].at[u] = "lock") \/ \A u \in Pool : Busy(u)
  BY DEF IInv, TypeOK, Stuck
<1>5. ~(i = n /\ t = owner)
  BY <1>3, StuckOwner
<1>6. frames' # <<>> /\ frames'[n].mode = "pool" /\ frames'[n].at[owner] = "none"
  BY <1>1, <1>2, <1>4, <1>5 DEF SameCall
<1>7. ASSUME NEW u \in Pool, frames[n].at[u] = "lock" PROVE frames'[n].at[u] = "lock"
  BY <1>1, <1>2, <1>7 DEF Threads
<1>8. ASSUME NEW u \in Pool, Busy(u) PROVE Busy(u)'
  BY <1>1, <1>8 DEF Busy, Threads
<1>9. (\E u \in Pool : frames'[n].at[u] = "lock") \/ \A u \in Pool : Busy(u)'
  BY <1>4, <1>7, <1>8
<1> QED
  BY <1>1, <1>3, <1>4, <1>6, <1>9 DEF Stuck

\* A deadlock of a block with the calls it has made lasts: no step of any thread,
\* no result and no error of a node ends it.
THEOREM Deadlocked == Spec => StuckForGood
<1>1. ASSUME IInv, Stuck, [Next]_vars
      PROVE  Stuck'
  <2>1. CASE UNCHANGED vars
    BY <1>1, <2>1 DEF vars, Stuck, Busy
  <2>2. CASE StartCall
    BY <1>1, <2>2 DEF StartCall, Stuck
  <2>3. ASSUME NEW i \in 1..Len(frames), NEW t \in Threads, Step(t, i)
        PROVE  FALSE
    <3>1. CASE Lock(t, i)
      BY <1>1, <3>1, StuckLock
    <3>2. CASE ~Lock(t, i)
      <4>1. In(frames[i], t) /\ ~Waiting(t, i)
        BY <2>3, <3>2 DEF Step, BlockCalls, BlockReturns, BlockRaises, AppendItem, Unlock,
                          Goto, In
      <4> QED
        BY <1>1, <4>1, StuckInside
    <3> QED
      BY <3>1, <3>2
  <2>4. ASSUME NEW i \in 1..Len(frames), NEW t \in Threads, Deliver(t, i)
        PROVE  Stuck'
    BY <1>1, <2>4, StuckDeliver
  <2>5. CASE EndForeach \/ ForeachErr
    BY <1>1, <2>5, StuckEnd DEF EndForeach, ForeachErr
  <2> QED
    BY <1>1, <2>1, <2>2, <2>3, <2>4, <2>5 DEF Next
<1>2. IInv /\ [Next]_vars => [Stuck => Stuck']_vars
  BY <1>1
<1> QED
  BY <1>2, Invariance, PTL DEF Spec, StuckForGood

=============================================================================

--------------------------- MODULE AceEvalProofs ---------------------------
(***************************************************************************)
(* The evaluator uses the queue of threads as it is meant to be used,      *)
(* keeps its types, has one evaluator for every item under evaluation,     *)
(* and, where nobody was refused a slot, loses none -- for every set of    *)
(* items and programs, every number of clients, every size of the queue    *)
(* and of the stacks.                                                      *)
(***************************************************************************)
EXTENDS AceEval, FiniteSetTheorems, WellFoundedInduction, TLAPS

-----------------------------------------------------------------------------
(* The queue of threads, by itself *)

\* The inductive invariant of the queue.
QueueInv == QueueTypeOK /\ QueueConsistent

\* Threads in the queue have different slots.
LEMMA DifferentSlots ==
  ASSUME QueueInv, NEW t \in Threads, NEW u \in Threads,
         life[t] \in InQueue, life[u] \in InQueue, tid[t] = tid[u]
  PROVE  t = u
BY DEF QueueInv, QueueConsistent

-----------------------------------------------------------------------------
(* The rank of a thread among those that a collection keeps *)

\* The threads that stay are finitely many, and fit.
LEMMA KeepFits ==
  ASSUME QueueInv, NEW keep \in SUBSET Threads, \A t \in keep : life[t] = "active"
  PROVE  /\ IsFiniteSet(keep)
         /\ Cardinality(keep) \in 0 .. NumAceThreads
<1> DEFINE slot == [t \in keep |-> tid[t]]
<1>1. IsFiniteSet(keep) /\ Cardinality(keep) \in Nat
  BY ThreadsFinite, FS_Subset, FS_CardinalityType
<1>2. IsFiniteSet(Slots) /\ Cardinality(Slots) = NumAceThreads
  BY RoomForOne, FS_Interval DEF Slots
<1>3. \A t \in keep : tid[t] \in Slots
  BY RoomForOne DEF QueueInv, QueueConsistent, QueueTypeOK, InQueue, Slots
<1>4. \A t, u \in keep : tid[t] = tid[u] => t = u
  BY DifferentSlots DEF InQueue
<1>5. slot \in Injection(keep, Slots)
  BY <1>3, <1>4 DEF Injection, IsInjective
<1>6. Cardinality(keep) <= Cardinality(Slots)
  BY <1>2, <1>5, FS_Injection
<1> QED BY <1>1, <1>2, <1>6, RoomForOne

\* Ranks follow the order of the slots, so they are all different.
LEMMA RankGrows ==
  ASSUME QueueInv, NEW keep \in SUBSET Threads, \A t \in keep : life[t] = "active",
         NEW t \in keep, NEW u \in keep, tid[t] < tid[u]
  PROVE  Rank(keep, t) < Rank(keep, u)
<1> DEFINE below(v) == {w \in keep : tid[w] < tid[v]}
<1>1. IsFiniteSet(keep)
  BY KeepFits
<1>2. IsFiniteSet(below(u)) /\ Cardinality(below(u)) \in Nat
  BY <1>1, FS_Subset, FS_CardinalityType
<1>3. below(t) \subseteq below(u) \ {t}
  <2>1. \A w \in keep : tid[w] \in Int
    BY RoomForOne DEF QueueInv, QueueTypeOK, Slots
  <2> QED BY <2>1
<1>4. IsFiniteSet(below(u) \ {t}) /\ Cardinality(below(u) \ {t}) = Cardinality(below(u)) - 1
  BY <1>2, FS_RemoveElement
<1>5. Cardinality(below(t)) <= Cardinality(below(u)) - 1 /\ Cardinality(below(t)) \in Nat
  BY <1>3, <1>4, FS_Subset, FS_CardinalityType
<1> QED BY <1>2, <1>5 DEF Rank

\* The ranks are exactly the slots from 0 up: a collection leaves no gap.
LEMMA RankOnto ==
  ASSUME QueueInv, NEW keep \in SUBSET Threads, \A t \in keep : life[t] = "active"
  PROVE  /\ \A t \in keep : Rank(keep, t) \in 0 .. Cardinality(keep) - 1
         /\ \A t, u \in keep : Rank(keep, t) = Rank(keep, u) => t = u
         /\ \A i \in 0 .. Cardinality(keep) - 1 : \E t \in keep : Rank(keep, t) = i
<1> DEFINE n == Cardinality(keep)
           rank == [t \in keep |-> Rank(keep, t)]
<1>1. IsFiniteSet(keep) /\ n \in Nat
  BY KeepFits
<1>2. \A t \in keep : Rank(keep, t) \in 0 .. n - 1
  <2> SUFFICES ASSUME NEW t \in keep PROVE Rank(keep, t) \in 0 .. n - 1
    OBVIOUS
  <2>1. tid[t] \in Int
    BY RoomForOne DEF QueueInv, QueueTypeOK, Slots
  <2>2. {u \in keep : tid[u] < tid[t]} \subseteq keep \ {t}
    BY <2>1
  <2>3. IsFiniteSet(keep \ {t}) /\ Cardinality(keep \ {t}) = n - 1
    BY <1>1, FS_RemoveElement
  <2>4. Rank(keep, t) \in Nat /\ Rank(keep, t) <= n - 1
    BY <2>2, <2>3, FS_Subset, FS_CardinalityType DEF Rank
  <2> QED BY <1>1, <2>4
<1>3. \A t, u \in keep : Rank(keep, t) = Rank(keep, u) => t = u
  <2> SUFFICES ASSUME NEW t \in keep, NEW u \in keep, t # u
               PROVE  Rank(keep, t) # Rank(keep, u)
    OBVIOUS
  <2>1. tid[t] # tid[u]
    BY DifferentSlots DEF InQueue
  <2>2. tid[t] \in Int /\ tid[u] \in Int
    BY RoomForOne DEF QueueInv, QueueTypeOK, Slots
  <2>3. CASE tid[t] < tid[u]
    BY <2>3, <1>1, <1>2, RankGrows
  <2>4. CASE tid[u] < tid[t]
    BY <2>4, <1>1, <1>2, RankGrows
  <2> QED BY <2>1, <2>2, <2>3, <2>4
<1>4. IsFiniteSet(0 .. n - 1) /\ Cardinality(0 .. n - 1) = n
  BY <1>1, FS_Interval
<1>5. rank \in Injection(keep, 0 .. n - 1)
  BY <1>2, <1>3 DEF Injection, IsInjective
<1>6. rank \in Surjection(keep, 0 .. n - 1)
  BY <1>4, <1>5, FS_Injection
<1>7. \A i \in 0 .. n - 1 : \E t \in keep : Rank(keep, t) = i
  BY <1>6 DEF Surjection
<1> QED BY <1>2, <1>3, <1>7
-----------------------------------------------------------------------------
(* The invariant, operation by operation *)

\* The empty queue is in order.
LEMMA InitInv == QueueInit => QueueInv
BY RoomForOne, ThreadsFinite
   DEF QueueInit, QueueInv, QueueTypeOK, QueueConsistent, Slots, InQueue

\* A new thread takes a free slot.
LEMMA AllocInv ==
  ASSUME QueueInv, NEW t \in Threads, AllocThread(t)
  PROVE  QueueInv'
BY DEF AllocThread, QueueInv, QueueTypeOK, QueueConsistent, InQueue

\* Refusing a thread changes nothing in the queue.
LEMMA OutOfThreadsInv ==
  ASSUME QueueInv, NEW t \in Threads, OutOfThreads(t)
  PROVE  QueueInv'
BY DEF OutOfThreads, QueueInv, QueueTypeOK, QueueConsistent, InQueue

\* A finished thread gives its slot back.
LEMMA FinishInv ==
  ASSUME QueueInv, NEW t \in Threads, FinishThread(t)
  PROVE  QueueInv'
BY DEF FinishThread, QueueInv, QueueTypeOK, QueueConsistent, InQueue

\* The new thread gets the first free slot.
LEMMA EnqueueInv ==
  ASSUME QueueInv, NEW t \in Threads, Enqueue(t)
  PROVE  QueueInv'
<1>1. num_active \in Slots /\ num_active' \in 0 .. NumAceThreads
  BY RoomForOne DEF QueueInv, QueueTypeOK, Enqueue, Slots
<1>2. QueueTypeOK'
  BY <1>1 DEF QueueInv, QueueTypeOK, Enqueue, InQueue
<1>3. ASSUME NEW i \in Slots
      PROVE  IF i < num_active'
             THEN threads'[i] \in Threads /\ life'[threads'[i]] \in InQueue /\ tid'[threads'[i]] = i
             ELSE threads'[i] = NoThread
  <2>1. i \in Int /\ num_active \in Int
    BY <1>1, RoomForOne DEF Slots
  <2>2. CASE i = num_active
    BY <1>1, <2>1, <2>2 DEF QueueInv, QueueTypeOK, Enqueue, InQueue
  <2>3. CASE i # num_active
    BY <1>1, <2>1, <2>3 DEF QueueInv, QueueTypeOK, QueueConsistent, Enqueue, InQueue
  <2> QED BY <2>2, <2>3
<1>4. ASSUME NEW u \in Threads, life'[u] \in InQueue
      PROVE  tid'[u] \in 0 .. num_active' - 1 /\ threads'[tid'[u]] = u
  <2>1. CASE u = t
    BY <1>1, <2>1, RoomForOne DEF QueueInv, QueueTypeOK, Enqueue, Slots
  <2>2. CASE u # t
    <3>1. tid[u] \in 0 .. num_active - 1 /\ threads[tid[u]] = u /\ tid'[u] = tid[u]
      BY <1>4, <2>2 DEF QueueInv, QueueTypeOK, QueueConsistent, Enqueue, InQueue
    <3> QED BY <1>1, <3>1, RoomForOne DEF QueueInv, QueueTypeOK, Enqueue, Slots
  <2> QED BY <2>1, <2>2
<1> QED BY <1>2, <1>3, <1>4 DEF QueueInv, QueueConsistent

\* The last thread takes the place of the one that goes.  The check that the thread's
\* tid is not beyond the queue never fails.
LEMMA UnlinkInv ==
  ASSUME QueueInv, NEW t \in Threads, UnlinkThread(t)
  PROVE  QueueInv'
<1> DEFINE last == num_active - 1
           u == threads[last]
<1>1. /\ tid[t] \in 0 .. last /\ threads[tid[t]] = t
      /\ last \in Slots /\ num_active \in 1 .. NumAceThreads
  BY RoomForOne DEF QueueInv, QueueTypeOK, QueueConsistent, UnlinkThread, InQueue, Slots
<1>2. u \in Threads /\ life[u] \in InQueue /\ tid[u] = last
  BY <1>1, RoomForOne DEF QueueInv, QueueConsistent, Slots
<1>3. num_active' = last /\ life' = [life EXCEPT ![t] = "gone"]
  BY <1>1, RoomForOne DEF UnlinkThread
<1>4. life' \in [Threads -> {"unmade", "starting", "orphan", "gone"} \cup InQueue]
  BY <1>3 DEF QueueInv, QueueTypeOK
<1>5. num_active' \in 0 .. NumAceThreads
  BY <1>1, <1>3, RoomForOne
<1>6. CASE tid[t] < last
  <2>1. threads' = [threads EXCEPT ![tid[t]] = u, ![last] = NoThread]
        /\ tid' = [tid EXCEPT ![u] = tid[t]]
    BY <1>1, <1>6, RoomForOne DEF UnlinkThread
  <2>2. u # t
    BY <1>1, <1>2, <1>6
  <2>3. tid[t] \in Slots
    BY <1>1, RoomForOne DEF Slots
  <2>4. QueueTypeOK'
    BY <1>2, <1>4, <1>5, <2>1, <2>3 DEF QueueInv, QueueTypeOK
  <2>5. ASSUME NEW i \in Slots
        PROVE  IF i < num_active'
               THEN threads'[i] \in Threads /\ life'[threads'[i]] \in InQueue /\ tid'[threads'[i]] = i
               ELSE threads'[i] = NoThread
    <3>1. i \in Int /\ last \in Int
      BY <1>1, RoomForOne DEF Slots
    <3>2. CASE i = tid[t]
      BY <1>1, <1>2, <1>3, <1>6, <2>1, <2>2, <2>3, <3>1, <3>2 DEF QueueInv, QueueTypeOK
    <3>3. CASE i = last
      BY <1>1, <1>3, <1>6, <2>1, <3>1, <3>3 DEF QueueInv, QueueTypeOK
    <3>4. CASE i # tid[t] /\ i # last
      <4>1. threads'[i] = threads[i]
        BY <2>1, <3>4 DEF QueueInv, QueueTypeOK
      <4>2. CASE i < last
        <5>1. threads[i] \in Threads /\ life[threads[i]] \in InQueue /\ tid[threads[i]] = i
          BY <1>1, <3>1, <4>2, RoomForOne DEF QueueInv, QueueConsistent, Slots
        <5>2. threads[i] # t /\ threads[i] # u
          BY <1>1, <1>2, <3>4, <5>1
        <5> QED BY <1>3, <2>1, <4>1, <4>2, <5>1, <5>2 DEF QueueInv, QueueTypeOK
      <4>3. CASE ~(i < last)
        BY <1>1, <1>3, <3>1, <3>4, <4>1, <4>3, RoomForOne DEF QueueInv, QueueConsistent, Slots
      <4> QED BY <4>2, <4>3
    <3> QED BY <3>2, <3>3, <3>4
  <2>6. ASSUME NEW v \in Threads, life'[v] \in InQueue
        PROVE  tid'[v] \in 0 .. num_active' - 1 /\ threads'[tid'[v]] = v
    <3>1. v # t /\ life[v] \in InQueue
      BY <1>3, <2>6 DEF QueueInv, QueueTypeOK, InQueue
    <3>2. tid[v] \in 0 .. last /\ threads[tid[v]] = v
      BY <3>1 DEF QueueInv, QueueConsistent
    <3>3. CASE v = u
      BY <1>1, <1>2, <1>3, <1>6, <2>1, <2>3, <3>3, RoomForOne DEF QueueInv, QueueTypeOK, Slots
    <3>4. CASE v # u
      <4>1. tid'[v] = tid[v] /\ tid[v] # last /\ tid[v] # tid[t]
        BY <1>1, <1>2, <2>1, <3>1, <3>2, <3>4 DEF QueueInv, QueueTypeOK
      <4>2. tid[v] \in Slots
        BY <1>1, <3>2, RoomForOne DEF Slots
      <4> QED BY <1>1, <1>3, <2>1, <3>2, <4>1, <4>2, RoomForOne DEF QueueInv, QueueTypeOK, Slots
    <3> QED BY <3>3, <3>4
  <2> QED BY <2>4, <2>5, <2>6 DEF QueueInv, QueueConsistent
<1>7. CASE tid[t] = last
  <2>1. threads' = [threads EXCEPT ![last] = NoThread] /\ tid' = tid
    BY <1>1, <1>7, RoomForOne DEF UnlinkThread
  <2>2. QueueTypeOK'
    BY <1>1, <1>4, <1>5, <2>1 DEF QueueInv, QueueTypeOK
  <2>3. ASSUME NEW i \in Slots
        PROVE  IF i < num_active'
               THEN threads'[i] \in Threads /\ life'[threads'[i]] \in InQueue /\ tid'[threads'[i]] = i
               ELSE threads'[i] = NoThread
    <3>1. i \in Int /\ last \in Int
      BY <1>1, RoomForOne DEF Slots
    <3>2. CASE i < last
      <4>1. threads[i] \in Threads /\ life[threads[i]] \in InQueue /\ tid[threads[i]] = i
        BY <1>1, <3>1, <3>2, RoomForOne DEF QueueInv, QueueConsistent, Slots
      <4>2. threads'[i] = threads[i] /\ threads[i] # t
        BY <1>7, <2>1, <3>1, <3>2, <4>1 DEF QueueInv, QueueTypeOK
      <4> QED BY <1>3, <2>1, <3>2, <4>1, <4>2 DEF QueueInv, QueueTypeOK
    <3>3. CASE i = last
      BY <1>1, <1>3, <2>1, <3>1, <3>3 DEF QueueInv, QueueTypeOK
    <3>4. CASE i > last
      <4>1. threads[i] = NoThread
        BY <1>1, <3>1, <3>4, RoomForOne DEF QueueInv, QueueConsistent, Slots
      <4> QED BY <1>3, <2>1, <3>1, <3>4, <4>1 DEF QueueInv, QueueTypeOK
    <3> QED BY <3>1, <3>2, <3>3, <3>4
  <2>4. ASSUME NEW v \in Threads, life'[v] \in InQueue
        PROVE  tid'[v] \in 0 .. num_active' - 1 /\ threads'[tid'[v]] = v
    <3>1. v # t /\ life[v] \in InQueue
      BY <1>3, <2>4 DEF QueueInv, QueueTypeOK, InQueue
    <3>2. tid[v] \in 0 .. last /\ threads[tid[v]] = v
      BY <3>1 DEF QueueInv, QueueConsistent
    <3>3. tid[v] # last /\ tid[v] \in Slots
      BY <1>1, <1>7, <3>1, <3>2, RoomForOne DEF Slots
    <3> QED BY <1>1, <1>3, <2>1, <3>2, <3>3, RoomForOne DEF QueueInv, QueueTypeOK, Slots
  <2> QED BY <2>2, <2>3, <2>4 DEF QueueInv, QueueConsistent
<1> QED BY <1>1, <1>6, <1>7, RoomForOne DEF Slots

\* The threads that a collection keeps move down in order and close the gaps.
LEMMA CleanupInv ==
  ASSUME QueueInv, NEW keep \in SUBSET Threads, CleanupThreads(keep)
  PROVE  QueueInv'
<1> DEFINE n == Cardinality(keep)
<1>1. \A t \in keep : life[t] = "active"
  BY DEF CleanupThreads
<1>2. n \in 0 .. NumAceThreads
  BY <1>1, KeepFits
<1>3. /\ \A t \in keep : Rank(keep, t) \in 0 .. n - 1
      /\ \A t, u \in keep : Rank(keep, t) = Rank(keep, u) => t = u
      /\ \A i \in 0 .. n - 1 : \E t \in keep : Rank(keep, t) = i
  BY <1>1, RankOnto
<1>4. 0 .. n - 1 \subseteq Slots
  BY <1>2, RoomForOne DEF Slots
<1>5. num_active' = n
  BY DEF CleanupThreads
<1>6. \A t \in keep : tid'[t] = Rank(keep, t)
  BY DEF CleanupThreads
<1>7. ASSUME NEW t \in keep
      PROVE  threads'[Rank(keep, t)] = t
  <2>1. Rank(keep, t) \in Slots
    BY <1>3, <1>4
  <2>2. threads'[Rank(keep, t)] = CHOOSE u \in keep : Rank(keep, u) = Rank(keep, t)
    BY <2>1 DEF CleanupThreads
  <2> QED BY <1>3, <2>2
<1>8. \A i \in Slots : i \notin 0 .. n - 1 => threads'[i] = NoThread
  BY <1>3 DEF CleanupThreads
<1>9. \A t \in Threads : life'[t] \in InQueue <=> t \in keep
  BY <1>1 DEF CleanupThreads, QueueInv, QueueTypeOK, InQueue
<1>10. QueueTypeOK'
  <2>1. threads' \in [Slots -> Threads \cup {NoThread}]
    <3>1. \A i \in Slots : threads'[i] \in Threads \cup {NoThread}
      BY <1>3, <1>7, <1>8
    <3> QED BY <3>1 DEF CleanupThreads
  <2>2. num_active' \in 0 .. NumAceThreads
    BY <1>2, <1>5
  <2>3. tid' \in [Threads -> Slots \cup {-1}]
    BY <1>3, <1>4 DEF CleanupThreads, QueueInv, QueueTypeOK
  <2>4. life' \in [Threads -> {"unmade", "starting", "orphan", "gone"} \cup InQueue]
    BY DEF CleanupThreads, QueueInv, QueueTypeOK
  <2> QED BY <2>1, <2>2, <2>3, <2>4 DEF QueueTypeOK
<1>11. ASSUME NEW i \in Slots
       PROVE  IF i < num_active'
              THEN threads'[i] \in Threads /\ life'[threads'[i]] \in InQueue /\ tid'[threads'[i]] = i
              ELSE threads'[i] = NoThread
  <2>1. i < n <=> i \in 0 .. n - 1
    BY <1>2, RoomForOne DEF Slots
  <2>2. CASE i < n
    <3>1. PICK t \in keep : Rank(keep, t) = i
      BY <1>3, <2>1, <2>2
    <3>2. threads'[i] = t /\ tid'[t] = i /\ life'[t] \in InQueue /\ t \in Threads
      BY <1>6, <1>7, <1>9, <3>1
    <3> QED BY <1>5, <2>2, <3>2
  <2>3. CASE ~(i < n)
    BY <1>5, <1>8, <2>1, <2>3
  <2> QED BY <2>2, <2>3
<1>12. ASSUME NEW t \in Threads, life'[t] \in InQueue
       PROVE  tid'[t] \in 0 .. num_active' - 1 /\ threads'[tid'[t]] = t
  BY <1>3, <1>5, <1>6, <1>7, <1>9, <1>12
<1> QED BY <1>10, <1>11, <1>12 DEF QueueInv, QueueConsistent

\* Every operation of the queue preserves its order.
LEMMA QueueStep == QueueInv /\ [QueueNext]_queue => QueueInv'
<1> SUFFICES ASSUME QueueInv, [QueueNext]_queue PROVE QueueInv'
  OBVIOUS
<1>1. CASE QueueNext
  BY <1>1, AllocInv, EnqueueInv, OutOfThreadsInv, FinishInv, UnlinkInv, CleanupInv
     DEF QueueNext
<1>2. CASE UNCHANGED queue
  BY <1>2 DEF queue, QueueInv, QueueTypeOK, QueueConsistent
<1> QED BY <1>1, <1>2

-----------------------------------------------------------------------------
\* The array of threads and thread->tid stay inverse of each other, through every
\* start, removal and collection.
THEOREM Consistent == QueueSpec => []QueueConsistent
<1>1. QueueInv => QueueConsistent
  BY DEF QueueInv
<1> QED BY InitInv, QueueStep, <1>1, PTL DEF QueueSpec

-----------------------------------------------------------------------------
(* Stacks *)

\* A set of numbers that is not empty has a least one.
LEMMA LeastNat ==
  ASSUME NEW S \in SUBSET Nat, S # {}
  PROVE  \E n \in S : \A m \in S : n <= m
<1>1. IsWellFoundedOn(OpToRel(<,Nat), Nat)
  BY NatLessThanWellFounded
<1>2. PICK x \in S : \A y \in S : ~ (<<y, x>> \in OpToRel(<,Nat))
  BY <1>1, WFMin, Zenon
<1>3. \A y \in S : ~ (y < x)
  BY <1>2 DEF OpToRel
<1> QED BY <1>3

\* A bounded one has a greatest.
LEMMA GreatestNat ==
  ASSUME NEW N \in Nat, NEW S \in SUBSET (1 .. N), S # {}
  PROVE  \E n \in S : \A m \in S : m <= n
<1> DEFINE T == {N - n : n \in S}
<1>0. PICK x \in S : TRUE
  OBVIOUS
<1>1. T \in SUBSET Nat /\ N - x \in T
  OBVIOUS
<1>2. PICK k \in T : \A m \in T : k <= m
  BY <1>1, LeastNat
<1>3. PICK n \in S : k = N - n
  OBVIOUS
<1>4. ASSUME NEW m \in S PROVE m <= n
  <2>1. N - n <= N - m
    BY <1>2, <1>3
  <2> QED BY <2>1
<1> QED BY <1>4

\* Pushing a continuation moves the others down by one.
LEMMA PushFacts ==
  ASSUME NEW S, NEW s \in Seq(S), NEW f \in S
  PROVE  /\ Push(f, s) \in Seq(S)
         /\ Len(Push(f, s)) = Len(s) + 1
         /\ Push(f, s)[1] = f
         /\ \A n \in 1 .. Len(s) : Push(f, s)[n + 1] = s[n]
         /\ \A n \in 2 .. Len(s) + 1 : Push(f, s)[n] = s[n - 1]
BY DEF Push

\* What is left of a stack when its top continuation is popped.
LEMMA TailFacts ==
  ASSUME NEW S, NEW s \in Seq(S), s # <<>>
  PROVE  /\ Tail(s) \in Seq(S)
         /\ Len(Tail(s)) = Len(s) - 1
         /\ Len(s) \in Nat \ {0}
         /\ \A n \in 1 .. Len(s) - 1 : Tail(s)[n] = s[n + 1]
         /\ Head(s) = s[1] /\ s[1] \in S
OBVIOUS

\* What is left of a stack when its top c continuations go.
LEMMA DropFacts ==
  ASSUME NEW S, NEW s \in Seq(S), NEW c \in 1 .. Len(s)
  PROVE  LET r == SubSeq(s, c + 1, Len(s)) IN
         /\ r \in Seq(S)
         /\ Len(r) = Len(s) - c
         /\ \A n \in 1 .. Len(s) - c : r[n] = s[n + c]
OBVIOUS

\* The places in keep, counted from the top.
LEMMA PlacesCounted ==
  ASSUME NEW N \in Nat, NEW keep \in SUBSET (1 .. N)
  PROVE  LET n == Cardinality(keep)
             above(m) == Cardinality({l \in keep : l < m})
         IN  /\ n \in Nat
             /\ \A m \in keep : above(m) \in 0 .. n - 1
             /\ \A l, m \in keep : l < m => above(l) < above(m)
             /\ \A k \in 0 .. n - 1 : \E m \in keep : above(m) = k
<1> DEFINE n == Cardinality(keep)
           before(m) == {l \in keep : l < m}
           above(m) == Cardinality(before(m))
           count == [m \in keep |-> above(m)]
<1>0. IsFiniteSet(1 .. N)
  BY FS_Interval
<1>1. IsFiniteSet(keep) /\ n \in Nat
  BY <1>0, FS_Subset, FS_CardinalityType
<1>2. \A m \in keep : IsFiniteSet(before(m)) /\ above(m) \in Nat
  <2> SUFFICES ASSUME NEW m \in keep PROVE IsFiniteSet(before(m)) /\ above(m) \in Nat
    OBVIOUS
  <2>1. before(m) \subseteq keep
    OBVIOUS
  <2> QED BY <1>1, <2>1, FS_Subset, FS_CardinalityType
<1>3. ASSUME NEW m \in keep PROVE above(m) \in 0 .. n - 1
  <2>1. before(m) \subseteq keep \ {m}
    OBVIOUS
  <2>2. IsFiniteSet(keep \ {m}) /\ Cardinality(keep \ {m}) = n - 1
    BY <1>1, FS_RemoveElement
  <2> HIDE DEF before, n
  <2>3. above(m) <= n - 1
    BY <2>1, <2>2, FS_Subset
  <2>4. above(m) \in Nat
    BY <1>2
  <2> HIDE DEF above
  <2> QED BY <1>1, <2>3, <2>4
<1>4. ASSUME NEW l \in keep, NEW m \in keep, l < m PROVE above(l) < above(m)
  <2>0. keep \subseteq Int
    OBVIOUS
  <2>a. \A w \in keep : w < l => w < m /\ w # l
    BY <1>4, <2>0
  <2>1. before(l) \subseteq before(m) \ {l} /\ l \in before(m)
    BY <1>4, <2>a
  <2>2. IsFiniteSet(before(m) \ {l}) /\ Cardinality(before(m) \ {l}) = above(m) - 1
    BY <1>2, <2>1, FS_RemoveElement
  <2>3. above(l) <= above(m) - 1
    BY <2>1, <2>2, FS_Subset
  <2> QED BY <1>2, <2>3
<1>5. \A l, m \in keep : above(l) = above(m) => l = m
  <2> SUFFICES ASSUME NEW l \in keep, NEW m \in keep, l # m PROVE above(l) # above(m)
    OBVIOUS
  <2>1. l < m \/ m < l
    OBVIOUS
  <2> HIDE DEF above
  <2> QED BY <1>3, <1>4, <2>1
<1>6. IsFiniteSet(0 .. n - 1) /\ Cardinality(0 .. n - 1) = n
  BY <1>1, FS_Interval
<1> HIDE DEF above, n
<1>7. count \in Injection(keep, 0 .. n - 1)
  BY <1>3, <1>5 DEF Injection, IsInjective
<1>8. count \in Surjection(keep, 0 .. n - 1)
  BY <1>1, <1>6, <1>7, FS_Injection DEF n
<1>9. \A k \in 0 .. n - 1 : \E m \in keep : above(m) = k
  BY <1>8 DEF Surjection
<1> QED BY <1>1, <1>3, <1>4, <1>9 DEF above, n

\* Sequence r is what is left of s at the places h, in their order.
Thins(s, r, h) ==
  /\ h \in [1 .. Len(r) -> 1 .. Len(s)]
  /\ \A n, m \in 1 .. Len(r) : n < m => h[n] < h[m]
  /\ \A n \in 1 .. Len(r) : r[n] = s[h[n]]

\* Every place in keep is among them.
Takes(r, h, keep) == \A m \in keep : \E n \in 1 .. Len(r) : h[n] = m

\* Select takes the chosen places, all of them, in their order.
LEMMA SelectFacts ==
  ASSUME NEW S, NEW s \in Seq(S), NEW keep \in SUBSET (1 .. Len(s))
  PROVE  /\ Select(s, keep) \in Seq(S)
         /\ \E h : /\ Thins(s, Select(s, keep), h)
                   /\ Takes(Select(s, keep), h, keep)
                   /\ \A n \in 1 .. Len(Select(s, keep)) : h[n] \in keep
<1> DEFINE r == Select(s, keep)
           N == Cardinality(keep)
           above(m) == Cardinality({l \in keep : l < m})
           h == [n \in 1 .. N |-> CHOOSE m \in keep : above(m) = n - 1]
<1>0. Len(s) \in Nat
  OBVIOUS
<1>1. /\ N \in Nat
      /\ \A m \in keep : above(m) \in 0 .. N - 1
      /\ \A l, m \in keep : l < m => above(l) < above(m)
      /\ \A k \in 0 .. N - 1 : \E m \in keep : above(m) = k
  BY <1>0, PlacesCounted
<1>2. r = [n \in 1 .. N |-> s[CHOOSE m \in keep : above(m) = n - 1]]
  BY DEF Select
<1> HIDE DEF N, above, r
<1>3. \A n \in 1 .. N : h[n] \in keep /\ above(h[n]) = n - 1
  <2> SUFFICES ASSUME NEW n \in 1 .. N PROVE h[n] \in keep /\ above(h[n]) = n - 1
    OBVIOUS
  <2>1. n - 1 \in 0 .. N - 1
    BY <1>1
  <2> QED BY <1>1, <2>1
<1>4. r = [n \in 1 .. N |-> s[h[n]]]
  <2>1. \A n \in 1 .. N : s[CHOOSE m \in keep : above(m) = n - 1] = s[h[n]]
    OBVIOUS
  <2> HIDE DEF h
  <2> QED BY <1>2, <2>1
<1> HIDE DEF h
<1>5. \A n \in 1 .. N : h[n] \in 1 .. Len(s) /\ s[h[n]] \in S
  <2>1. \A n \in 1 .. N : h[n] \in 1 .. Len(s)
    BY <1>3
  <2> QED BY <2>1
<1>6. r \in Seq(S) /\ Len(r) = N
  BY <1>1, <1>4, <1>5
<1>7. ASSUME NEW n \in 1 .. N, NEW m \in 1 .. N, n < m PROVE h[n] < h[m]
  <2>1. /\ h[n] \in keep /\ above(h[n]) = n - 1
        /\ h[m] \in keep /\ above(h[m]) = m - 1
    BY <1>3
  <2>2. h[n] \in 1 .. Len(s) /\ h[m] \in 1 .. Len(s)
    BY <2>1
  <2>3. CASE h[m] < h[n]
    <3>1. above(h[m]) < above(h[n])
      BY <1>1, <2>1, <2>3
    <3> QED BY <1>7, <2>1, <3>1, <1>1
  <2>4. CASE h[m] = h[n]
    BY <1>7, <2>1, <2>4, <1>1
  <2> QED BY <1>0, <2>2, <2>3, <2>4
<1>8. ASSUME NEW m \in keep PROVE \E n \in 1 .. N : h[n] = m
  <2>1. above(m) \in 0 .. N - 1
    BY <1>1
  <2>2. above(m) + 1 \in 1 .. N
    BY <1>1, <2>1
  <2> DEFINE k == above(m) + 1
             l == h[k]
  <2>3. l \in keep /\ above(l) = k - 1
    BY <1>3, <2>2
  <2>4. above(l) = above(m)
    BY <1>1, <2>1, <2>3
  <2> HIDE DEF l
  <2>5. ~(above(l) < above(m)) /\ ~(above(m) < above(l))
    BY <1>1, <2>1, <2>4
  <2>6. ~(l < m) /\ ~(m < l)
    BY <1>1, <2>3, <2>5
  <2>7. l = m
    BY <1>0, <2>3, <2>6
  <2> QED BY <2>2, <2>7 DEF l
<1>9. h \in [1 .. N -> 1 .. Len(s)]
  BY <1>3 DEF h
<1>10. Thins(s, r, h)
  BY <1>4, <1>6, <1>7, <1>9 DEF Thins
<1>11. Takes(r, h, keep)
  BY <1>6, <1>8 DEF Takes
<1>12. \A n \in 1 .. Len(r) : h[n] \in keep
  BY <1>3, <1>6
<1> QED BY <1>6, <1>10, <1>11, <1>12 DEF r

\* The stack without its top c continuations.
LEMMA DropThins ==
  ASSUME NEW s \in Seq(Frames), NEW c \in Nat, NEW r \in Seq(Frames),
         Len(r) = Len(s) - c, \A n \in 1 .. Len(s) - c : r[n] = s[n + c]
  PROVE  \E h : Thins(s, r, h) /\ \A m \in c + 1 .. Len(s) : m - c \in 1 .. Len(r) /\ h[m - c] = m
<1> DEFINE h == [n \in 1 .. Len(r) |-> n + c]
<1>1. Len(s) \in Nat /\ Len(r) \in Nat
  OBVIOUS
<1>2. Thins(s, r, h)
  BY <1>1 DEF Thins
<1>3. \A m \in c + 1 .. Len(s) : m - c \in 1 .. Len(r) /\ h[m - c] = m
  BY <1>1
<1> HIDE DEF h
<1> QED BY <1>2, <1>3

-----------------------------------------------------------------------------
(* What is under evaluation on a stack *)

\* The items that are under evaluation on stack s.
ItemsIn(s) == {s[n].item : n \in Updates(s)}

\* None of them is there twice.
Once(s) == \A n, m \in Updates(s) : s[n].item = s[m].item => n = m

\* What is above the update frame of item i on stack s: what is still to be done for it.
Above(s, i) ==
  {s[l] : l \in {m \in 1 .. Len(s) : s[m].node = "resume"
                                      /\ \E n \in Updates(s) : m <= n /\ s[n].item = i}}

\* The outermost of the items a thread evaluates is at the bottom of its stack.
Bottomed(s) == s # <<>> /\ s[Len(s)].node = "update"

\* A continuation belongs to code that asked for as many items as it says, and to code that
\* does not end with entering the last of them.
FrameOK(f) ==
  /\ code[f.item].kind # "function"
  /\ f.node = "resume" => f.k \in 1 .. Len(code[f.item].needs)
  /\ f.node = "resume" /\ code[f.item].ends = "enter" => f.k < Len(code[f.item].needs)
FramesOK(s) == \A n \in 1 .. Len(s) : FrameOK(s[n])

\* An update frame on top: one more item is under evaluation on this stack, and nothing
\* is above its frame.
LEMMA PushUpdate ==
  ASSUME NEW s \in Seq(Frames), NEW i \in Items
  PROVE  LET r == Push(Update(i), s) IN
         /\ r \in Seq(Frames)
         /\ ItemsIn(r) = ItemsIn(s) \cup {i}
         /\ Once(s) /\ i \notin ItemsIn(s) => Once(r)
         /\ i \notin ItemsIn(s) => Above(r, i) = {}
         /\ \A j \in Items : j # i => Above(r, j) \subseteq Above(s, j)
         /\ (s = <<>> \/ Bottomed(s)) => Bottomed(r)
         /\ FramesOK(s) /\ code[i].kind # "function" => FramesOK(r)
<1> DEFINE r == Push(Update(i), s)
<1>1. Update(i) \in Frames /\ Update(i).node = "update" /\ Update(i).item = i
  BY DEF Update, Frames
<1>2. /\ r \in Seq(Frames)
      /\ Len(r) = Len(s) + 1
      /\ r[1] = Update(i)
      /\ \A n \in 1 .. Len(s) : r[n + 1] = s[n]
      /\ \A n \in 2 .. Len(s) + 1 : r[n] = s[n - 1]
  <2>1. Update(i) \in Frames
    BY <1>1
  <2> QED BY <2>1 DEF Push
<1>3. Len(s) \in Nat
  OBVIOUS
<1> HIDE DEF r
<1>4. \A n \in 1 .. Len(r) : n = 1 \/ (n - 1 \in 1 .. Len(s) /\ r[n] = s[n - 1])
  BY <1>2, <1>3
<1>5. \A n \in Updates(r) : n = 1 \/ (n - 1 \in Updates(s) /\ r[n] = s[n - 1])
  BY <1>4 DEF Updates
<1>6. 1 \in Updates(r) /\ \A n \in Updates(s) : n + 1 \in Updates(r) /\ r[n + 1] = s[n]
  BY <1>1, <1>2, <1>3 DEF Updates
<1>7. Updates(r) \subseteq Nat /\ Updates(s) \subseteq Nat
  BY DEF Updates
<1>8. ItemsIn(r) = ItemsIn(s) \cup {i}
  <2>1. ItemsIn(r) \subseteq ItemsIn(s) \cup {i}
    BY <1>1, <1>2, <1>5 DEF ItemsIn
  <2>2. ItemsIn(s) \subseteq ItemsIn(r)
    BY <1>6 DEF ItemsIn
  <2>3. i \in ItemsIn(r)
    BY <1>1, <1>2, <1>6 DEF ItemsIn
  <2> QED BY <2>1, <2>2, <2>3
<1>9. ASSUME Once(s), i \notin ItemsIn(s) PROVE Once(r)
  <2> SUFFICES ASSUME NEW n \in Updates(r), NEW m \in Updates(r), r[n].item = r[m].item PROVE n = m
    BY DEF Once
  <2>1. CASE n = 1 /\ m = 1
    BY <2>1
  <2>2. CASE n = 1 /\ m # 1
    BY <2>2, <1>1, <1>2, <1>5, <1>9 DEF ItemsIn
  <2>3. CASE n # 1 /\ m = 1
    <3>1. n - 1 \in Updates(s) /\ s[n - 1].item = i
      BY <2>3, <1>1, <1>2, <1>5
    <3> QED BY <3>1, <1>9 DEF ItemsIn
  <2>4. CASE n # 1 /\ m # 1
    <3>1. n - 1 = m - 1
      BY <2>4, <1>5, <1>9 DEF Once
    <3> QED BY <3>1, <1>7
  <2> QED BY <2>1, <2>2, <2>3, <2>4
<1>10. ASSUME i \notin ItemsIn(s) PROVE Above(r, i) = {}
  <2>1. \A n \in Updates(r) : r[n].item = i => n = 1
    BY <1>5, <1>10 DEF ItemsIn
  <2>2. \A l \in 1 .. Len(r) : l <= 1 => r[l].node # "resume"
    <3>1. \A l \in 1 .. Len(r) : l <= 1 => l = 1
      BY <1>2, <1>3
    <3> QED BY <3>1, <1>1, <1>2
  <2> QED BY <2>1, <2>2 DEF Above
<1>11. ASSUME NEW j \in Items, j # i PROVE Above(r, j) \subseteq Above(s, j)
  <2> SUFFICES ASSUME NEW l \in 1 .. Len(r), r[l].node = "resume",
                      NEW n \in Updates(r), l <= n, r[n].item = j
               PROVE  r[l] \in Above(s, j)
    BY DEF Above
  <2>1. l # 1 /\ n # 1
    BY <1>1, <1>2, <1>11
  <2>2. l - 1 \in 1 .. Len(s) /\ r[l] = s[l - 1] /\ n - 1 \in Updates(s) /\ r[n] = s[n - 1]
    BY <2>1, <1>4, <1>5
  <2>3. l - 1 <= n - 1
    BY <1>7
  <2> QED BY <2>2, <2>3 DEF Above
<1>12. (s = <<>> \/ Bottomed(s)) => Bottomed(r)
  <2>0. r # <<>>
    BY <1>2, <1>3
  <2>1. CASE s = <<>>
    BY <2>0, <2>1, <1>1, <1>2 DEF Bottomed
  <2>2. CASE s # <<>> /\ Bottomed(s)
    <3>1. Len(s) \in 1 .. Len(s)
      BY <2>2
    <3> QED BY <2>0, <2>2, <3>1, <1>2, <1>3 DEF Bottomed
  <2> QED BY <2>1, <2>2
<1>13. FramesOK(s) /\ code[i].kind # "function" => FramesOK(r)
  BY <1>1, <1>2, <1>4 DEF FramesOK, FrameOK
<1> QED BY <1>2, <1>8, <1>9, <1>10, <1>11, <1>12, <1>13 DEF r

\* A continuation of another kind on top: the items under evaluation are the same, and
\* all of them have it above their frames.
LEMMA PushResume ==
  ASSUME NEW s \in Seq(Frames), NEW i \in Items, NEW k \in Nat, Bottomed(s)
  PROVE  LET r == Push(Resume(i, k), s) IN
         /\ r \in Seq(Frames)
         /\ ItemsIn(r) = ItemsIn(s)
         /\ Once(s) => Once(r)
         /\ \A j \in Items : Above(r, j) \subseteq Above(s, j) \cup {Resume(i, k)}
         /\ Bottomed(r)
         /\ FramesOK(s) /\ FrameOK(Resume(i, k)) => FramesOK(r)
<1> DEFINE r == Push(Resume(i, k), s)
<1>1. Resume(i, k) \in Frames /\ Resume(i, k).node = "resume" /\ Resume(i, k).item = i /\ Resume(i, k).k = k
  BY DEF Resume, Frames
<1>2. /\ r \in Seq(Frames)
      /\ Len(r) = Len(s) + 1
      /\ r[1] = Resume(i, k)
      /\ \A n \in 1 .. Len(s) : r[n + 1] = s[n]
      /\ \A n \in 2 .. Len(s) + 1 : r[n] = s[n - 1]
  <2>1. Resume(i, k) \in Frames
    BY <1>1
  <2> QED BY <2>1 DEF Push
<1>3. Len(s) \in Nat
  OBVIOUS
<1> HIDE DEF r
<1>4. \A n \in 1 .. Len(r) : n = 1 \/ (n - 1 \in 1 .. Len(s) /\ r[n] = s[n - 1])
  BY <1>2, <1>3
<1>5. \A n \in Updates(r) : n - 1 \in Updates(s) /\ r[n] = s[n - 1]
  BY <1>1, <1>2, <1>4 DEF Updates
<1>6. \A n \in Updates(s) : n + 1 \in Updates(r) /\ r[n + 1] = s[n]
  BY <1>1, <1>2, <1>3 DEF Updates
<1>7. Updates(r) \subseteq Nat /\ Updates(s) \subseteq Nat
  BY DEF Updates
<1>8. ItemsIn(r) = ItemsIn(s)
  BY <1>5, <1>6 DEF ItemsIn
<1>9. ASSUME Once(s) PROVE Once(r)
  <2> SUFFICES ASSUME NEW n \in Updates(r), NEW m \in Updates(r), r[n].item = r[m].item PROVE n = m
    BY DEF Once
  <2>1. n - 1 = m - 1
    BY <1>5, <1>9 DEF Once
  <2> QED BY <2>1, <1>7
<1>11. ASSUME NEW j \in Items PROVE Above(r, j) \subseteq Above(s, j) \cup {Resume(i, k)}
  <2> SUFFICES ASSUME NEW l \in 1 .. Len(r), r[l].node = "resume",
                      NEW n \in Updates(r), l <= n, r[n].item = j
               PROVE  r[l] \in Above(s, j) \cup {Resume(i, k)}
    BY DEF Above
  <2>1. CASE l = 1
    BY <2>1, <1>2
  <2>2. CASE l # 1
    <3>1. l - 1 \in 1 .. Len(s) /\ r[l] = s[l - 1] /\ n - 1 \in Updates(s) /\ r[n] = s[n - 1]
      BY <2>2, <1>4, <1>5
    <3>2. l - 1 <= n - 1
      BY <1>7
    <3> QED BY <3>1, <3>2 DEF Above
  <2> QED BY <2>1, <2>2
<1>12. Bottomed(r)
  <2>0. r # <<>>
    BY <1>2, <1>3
  <2>1. Len(s) \in 1 .. Len(s)
    BY DEF Bottomed
  <2> QED BY <2>0, <2>1, <1>2, <1>3 DEF Bottomed
<1>13. FramesOK(s) /\ FrameOK(Resume(i, k)) => FramesOK(r)
  BY <1>2, <1>4 DEF FramesOK
<1> QED BY <1>2, <1>8, <1>9, <1>11, <1>12, <1>13 DEF r

\* A stack that loses frames has no new items and nothing new above those it keeps.
LEMMA ThinFacts ==
  ASSUME NEW s \in Seq(Frames), NEW r \in Seq(Frames), NEW h, Thins(s, r, h)
  PROVE  /\ \A n \in 1 .. Len(r) : n \in Updates(r) <=> h[n] \in Updates(s)
         /\ ItemsIn(r) \subseteq ItemsIn(s)
         /\ Once(s) => Once(r)
         /\ \A j \in Items : Above(r, j) \subseteq Above(s, j)
         /\ FramesOK(s) => FramesOK(r)
<1>1. \A n \in 1 .. Len(r) : h[n] \in 1 .. Len(s) /\ r[n] = s[h[n]]
  BY DEF Thins
<1>2. \A n \in 1 .. Len(r) : n \in Updates(r) <=> h[n] \in Updates(s)
  BY <1>1 DEF Updates
<1>3. ItemsIn(r) \subseteq ItemsIn(s)
  BY <1>1, <1>2 DEF ItemsIn, Updates
<1>4. ASSUME Once(s) PROVE Once(r)
  <2> SUFFICES ASSUME NEW n \in Updates(r), NEW m \in Updates(r), r[n].item = r[m].item PROVE n = m
    BY DEF Once
  <2>1. n \in 1 .. Len(r) /\ m \in 1 .. Len(r)
    BY DEF Updates
  <2>2. h[n] = h[m]
    BY <2>1, <1>1, <1>2, <1>4 DEF Once
  <2>3. ~(h[n] < h[m]) /\ ~(h[m] < h[n])
    BY <2>1, <2>2, <1>1
  <2> QED BY <2>1, <2>3 DEF Thins
<1>5. ASSUME NEW j \in Items PROVE Above(r, j) \subseteq Above(s, j)
  <2> SUFFICES ASSUME NEW l \in 1 .. Len(r), r[l].node = "resume",
                      NEW n \in Updates(r), l <= n, r[n].item = j
               PROVE  r[l] \in Above(s, j)
    BY DEF Above
  <2>1. n \in 1 .. Len(r)
    BY DEF Updates
  <2>2. h[l] <= h[n]
    <3>1. l = n \/ l < n
      BY <2>1
    <3>2. h[l] \in Int /\ h[n] \in Int
      BY <2>1, <1>1
    <3> QED BY <2>1, <3>1, <3>2 DEF Thins
  <2> QED BY <2>1, <2>2, <1>1, <1>2 DEF Above
<1>6. FramesOK(s) => FramesOK(r)
  BY <1>1 DEF FramesOK
<1> QED BY <1>2, <1>3, <1>4, <1>5, <1>6

\* The frames above the first update frame go, with that frame or without it: its item
\* is the only one that leaves the stack.
LEMMA DropFirst ==
  ASSUME NEW s \in Seq(Frames), Bottomed(s), NEW c \in 1 .. Len(s),
         \A l \in 1 .. c - 1 : s[l].node = "resume",
         NEW r \in Seq(Frames), Len(r) = Len(s) - c,
         \A n \in 1 .. Len(s) - c : r[n] = s[n + c]
  PROVE  /\ ItemsIn(s) = ItemsIn(r) \cup (IF s[c].node = "update" THEN {s[c].item} ELSE {})
         /\ Once(s) => Once(r)
         /\ Once(s) /\ s[c].node = "update" => s[c].item \notin ItemsIn(r)
         /\ \A j \in Items : Above(r, j) \subseteq Above(s, j)
         /\ FramesOK(s) => FramesOK(r)
         /\ r # <<>> => Bottomed(r)
         /\ s[c].node = "resume" => r # <<>>
<1>0. Len(s) \in Nat /\ Len(r) \in Nat
  OBVIOUS
<1>1. PICK h : Thins(s, r, h) /\ \A m \in c + 1 .. Len(s) : m - c \in 1 .. Len(r) /\ h[m - c] = m
  <2>1. c \in Nat
    BY <1>0
  <2> QED BY <2>1, DropThins
<1>2. /\ \A n \in 1 .. Len(r) : n \in Updates(r) <=> h[n] \in Updates(s)
      /\ ItemsIn(r) \subseteq ItemsIn(s)
      /\ Once(s) => Once(r)
      /\ \A j \in Items : Above(r, j) \subseteq Above(s, j)
      /\ FramesOK(s) => FramesOK(r)
  BY <1>1, ThinFacts
<1>3. \A n \in Updates(s) : n = c \/ (n - c \in Updates(r) /\ r[n - c] = s[n])
  <2> SUFFICES ASSUME NEW n \in Updates(s), n # c PROVE n - c \in Updates(r) /\ r[n - c] = s[n]
    OBVIOUS
  <2>1. n \in 1 .. Len(s) /\ s[n].node = "update"
    BY DEF Updates
  <2>2. ~ (n < c)
    BY <2>1
  <2>3. n - c \in 1 .. Len(s) - c /\ (n - c) + c = n
    BY <1>0, <2>1, <2>2
  <2> QED BY <2>1, <2>3 DEF Updates
<1>4. \A n \in Updates(r) : n + c \in Updates(s) /\ n + c # c /\ s[n + c] = r[n]
  BY <1>0 DEF Updates
<1>5. ItemsIn(s) \subseteq ItemsIn(r) \cup (IF s[c].node = "update" THEN {s[c].item} ELSE {})
  BY <1>3 DEF ItemsIn, Updates
<1>6. s[c].node = "update" => c \in Updates(s)
  BY DEF Updates
<1>7. s[c].node = "update" => s[c].item \in ItemsIn(s)
  BY <1>6 DEF ItemsIn
<1>8. ASSUME Once(s), s[c].node = "update" PROVE s[c].item \notin ItemsIn(r)
  <2> SUFFICES ASSUME NEW n \in Updates(r), r[n].item = s[c].item PROVE FALSE
    BY DEF ItemsIn
  <2>1. n + c \in Updates(s) /\ n + c # c /\ s[n + c].item = s[c].item
    BY <1>4
  <2> QED BY <2>1, <1>6, <1>8 DEF Once
<1>9. r # <<>> => Bottomed(r)
  <2> SUFFICES ASSUME r # <<>> PROVE r[Len(r)] = s[Len(s)]
    BY DEF Bottomed
  <2>1. Len(r) \in 1 .. Len(s) - c /\ Len(r) + c = Len(s)
    BY <1>0
  <2> QED BY <2>1
<1>10. s[c].node = "resume" => r # <<>>
  <2> SUFFICES ASSUME s[c].node = "resume" PROVE c < Len(s)
    BY <1>0
  <2>1. c # Len(s)
    BY DEF Bottomed
  <2> QED BY <1>0, <2>1
<1> QED BY <1>2, <1>5, <1>7, <1>8, <1>9, <1>10

\* The innermost of the items a thread evaluates: the head of thread->cureval.
LEMMA FirstUpdate ==
  ASSUME NEW s \in Seq(Frames), Bottomed(s)
  PROVE  LET first == CHOOSE n \in Updates(s) : \A m \in Updates(s) : n <= m IN
         /\ first \in Updates(s)
         /\ first \in 1 .. Len(s)
         /\ s[first].node = "update"
         /\ \A l \in 1 .. first - 1 : s[l].node = "resume"
<1> DEFINE first == CHOOSE n \in Updates(s) : \A m \in Updates(s) : n <= m
<1>0. Len(s) \in 1 .. Len(s)
  BY DEF Bottomed
<1>1. Updates(s) \in SUBSET Nat /\ Len(s) \in Updates(s)
  BY <1>0 DEF Updates, Bottomed
<1>2. \E n \in Updates(s) : \A m \in Updates(s) : n <= m
  BY <1>1, LeastNat
<1>3. first \in Updates(s) /\ \A m \in Updates(s) : first <= m
  BY <1>2
<1> HIDE DEF first
<1>4. first \in 1 .. Len(s) /\ s[first].node = "update"
  BY <1>3 DEF Updates
<1>5. ASSUME NEW l \in 1 .. first - 1 PROVE s[l].node = "resume"
  <2>1. l \in 1 .. Len(s) /\ l < first
    BY <1>4
  <2>2. l \notin Updates(s)
    BY <1>3, <1>4, <2>1
  <2>3. s[l] \in Frames
    BY <2>1
  <2> QED BY <2>1, <2>2, <2>3 DEF Updates, Frames
<1> QED BY <1>3, <1>4, <1>5 DEF first

\* ace_stack_post_gc_consolidate keeps the reached items of a stack, and of its other
\* continuations all above the last of them.
LEMMA Consolidated ==
  ASSUME NEW s \in Seq(Frames), LiveUpdates(s) # {}
  PROVE  LET r == Consolidate(s) IN
         /\ r \in Seq(Frames)
         /\ ItemsIn(r) = ItemsIn(s) \cap Reachable
         /\ Once(s) => Once(r)
         /\ \A j \in Items : Above(r, j) \subseteq Above(s, j)
         /\ FramesOK(s) => FramesOK(r)
         /\ Bottomed(r)
         /\ \E h : /\ Thins(s, r, h)
                   /\ \A m \in 1 .. Len(s) : s[m].node = "resume" /\ m < h[Len(r)] =>
                        \E n \in 1 .. Len(r) : h[n] = m
<1> DEFINE live == LiveUpdates(s)
           last == CHOOSE n \in live : \A m \in live : m <= n
           keep == {n \in 1 .. last : s[n].node = "resume" \/ s[n].item \in Reachable}
           r == Consolidate(s)
<1>0. Len(s) \in Nat
  OBVIOUS
<1>1. live \in SUBSET (1 .. Len(s)) /\ live # {}
  BY DEF LiveUpdates, Updates
<1>2. \E n \in live : \A m \in live : m <= n
  BY <1>0, <1>1, GreatestNat
<1>3. last \in live /\ \A m \in live : m <= last
  BY <1>2
<1>4. r = Select(s, keep)
  BY DEF Consolidate
<1> HIDE DEF last, r
<1>5. last \in 1 .. Len(s) /\ s[last].node = "update" /\ s[last].item \in Reachable
  BY <1>1, <1>3 DEF LiveUpdates, Updates
<1>6. keep \in SUBSET (1 .. Len(s)) /\ last \in keep
  BY <1>0, <1>5
<1>k. \A n \in keep : n \in 1 .. last /\ (s[n].node = "resume" \/ s[n].item \in Reachable)
  OBVIOUS
<1>l. \A n \in 1 .. last : s[n].node = "resume" \/ s[n].item \in Reachable => n \in keep
  OBVIOUS
<1> HIDE DEF keep
<1>7. r \in Seq(Frames) /\ \E h : /\ Thins(s, r, h)
            /\ Takes(r, h, keep)
            /\ \A n \in 1 .. Len(r) : h[n] \in keep
  <2> QED BY <1>4, <1>6, SelectFacts
<1>8. PICK h : /\ Thins(s, r, h)
            /\ Takes(r, h, keep)
            /\ \A n \in 1 .. Len(r) : h[n] \in keep
  BY <1>7
<1>p. \A n \in 1 .. Len(r) : h[n] \in keep
  BY <1>8
<1>q. \A m \in keep : \E n \in 1 .. Len(r) : h[n] = m
  BY <1>8 DEF Takes
<1>9. /\ \A n \in 1 .. Len(r) : n \in Updates(r) <=> h[n] \in Updates(s)
      /\ ItemsIn(r) \subseteq ItemsIn(s)
      /\ Once(s) => Once(r)
      /\ \A j \in Items : Above(r, j) \subseteq Above(s, j)
      /\ FramesOK(s) => FramesOK(r)
  BY <1>7, <1>8, ThinFacts
<1>10. \A n \in 1 .. Len(r) : r[n] = s[h[n]]
  BY <1>8 DEF Thins
<1>11. \A n \in Updates(s) : s[n].item \in Reachable => n \in keep
  <2> SUFFICES ASSUME NEW n \in Updates(s), s[n].item \in Reachable PROVE n \in keep
    OBVIOUS
  <2>1. n \in live /\ n \in 1 .. Len(s)
    BY DEF LiveUpdates, Updates
  <2>2. n \in 1 .. last
    BY <1>3, <1>5, <2>1
  <2> QED BY <1>l, <2>2
<1>12. ItemsIn(s) \cap Reachable \subseteq ItemsIn(r)
  <2> SUFFICES ASSUME NEW n \in Updates(s), s[n].item \in Reachable PROVE s[n].item \in ItemsIn(r)
    BY DEF ItemsIn
  <2>1. PICK m \in 1 .. Len(r) : h[m] = n
    BY <1>q, <1>11
  <2> QED BY <2>1, <1>9, <1>10 DEF ItemsIn
<1>13. ItemsIn(r) \subseteq Reachable
  <2> SUFFICES ASSUME NEW n \in Updates(r) PROVE r[n].item \in Reachable
    BY DEF ItemsIn
  <2>1. n \in 1 .. Len(r) /\ r[n].node = "update"
    BY DEF Updates
  <2>2. h[n] \in keep /\ s[h[n]] = r[n]
    BY <2>1, <1>p, <1>10
  <2> QED BY <1>k, <2>1, <2>2
<1>14. Len(r) \in 1 .. Len(r) /\ h[Len(r)] = last
  <2>1. PICK n \in 1 .. Len(r) : h[n] = last
    BY <1>6, <1>q
  <2>0. r \in Seq(Frames)
    BY <1>7
  <2>2. Len(r) \in 1 .. Len(r)
    BY <2>0, <2>1
  <2>3. h[Len(r)] \in 1 .. last
    BY <1>p, <1>k, <2>2
  <2>4. n = Len(r) \/ n < Len(r)
    BY <1>7, <2>1
  <2>5. CASE n < Len(r)
    <3>1. last < h[Len(r)]
      BY <1>8, <2>1, <2>2, <2>5 DEF Thins
    <3> QED BY <1>5, <2>3, <3>1
  <2> QED BY <2>1, <2>2, <2>4, <2>5
<1>15. Bottomed(r)
  <2>1. r # <<>>
    BY <1>14
  <2> QED BY <2>1, <1>5, <1>10, <1>14 DEF Bottomed
<1>16. \A m \in 1 .. Len(s) : s[m].node = "resume" /\ m < h[Len(r)] => m \in keep
  BY <1>5, <1>14, <1>l
<1>17. \E g : /\ Thins(s, r, g)
             /\ \A m \in 1 .. Len(s) : s[m].node = "resume" /\ m < g[Len(r)] =>
                        \E n \in 1 .. Len(r) : g[n] = m
  BY <1>8, <1>16 DEF Takes
<1> QED BY <1>7, <1>9, <1>12, <1>13, <1>15, <1>17 DEF r

-----------------------------------------------------------------------------
(* Types *)

\* The values of items, the states of threads, and the stacks, as they can be.
Values == {Val(i) : i \in Items} \cup {Err(i) : i \in Items} \cup {Failure}
States == {<<"none">>} \cup {Entering(i) : i \in Items} \cup {Blocked(i) : i \in Items}
            \cup {Returning(Val(i)) : i \in Items}

StateOK(x) == x \in States /\ (x[1] = "entering" => code[x[2]].kind = "closure")
StackOK(s) == s \in Seq(Frames) /\ FramesOK(s)

\* The items: one has a value where its type says so.
ItemTypes ==
  /\ code \in Programs
  /\ type \in [Items -> {"thunk", "eval", "indirection", "whnf"}]
  /\ dest \in [Items -> Values \cup {None}]
  /\ \A i \in Items : dest[i] = None <=> type[i] # "indirection"
  /\ \A i \in Items : code[i].kind = "function" <=> type[i] = "whnf"

\* The threads.
ThreadTypes ==
  /\ DOMAIN state = Threads /\ \A t \in Threads : StateOK(state[t])
  /\ DOMAIN stack = Threads /\ \A t \in Threads : StackOK(stack[t])
  /\ state = [t \in Threads |-> state[t]]
  /\ stack = [t \in Threads |-> stack[t]]

\* The pool and the clients.
Places == {"find", "turn", "run", "enqueue", "fail", "unlink", "advance", "left"}

PoolRecords ==
  [at : Places, thread : Threads \cup {NoThread}, new : Threads \cup {NoThread},
   err : Values \cup {None}]

PoolTypes ==
  /\ pool \in PoolRecords
  /\ cursor \in Slots
  /\ client \in [Clients -> {"ask", "enqueue", "done"}]
  /\ asked \in [Clients -> Items]
  /\ answer \in [Clients -> Values \cup {None}]
  /\ \A c \in Clients : client[c] = "done" <=> answer[c] # None

\* A thread evaluates something from when it is made until it is finished.
Live == {"starting", "active", "orphan"}
Shape(t) == IF life[t] \in Live THEN Bottomed(stack[t]) ELSE stack[t] = <<>>

\* What the pool is doing fits the thread it does it with.
Control ==
  /\ pool.at \in {"turn", "run", "enqueue", "fail"} =>
       pool.thread \in Threads /\ life[pool.thread] = "active"
  /\ pool.at = "turn" => Runnable(pool.thread)
  /\ pool.at = "enqueue" => pool.new \in Threads
  /\ pool.at = "fail" => pool.err \in Values /\ IsError(pool.err)
  /\ pool.at = "unlink" => pool.thread \in Threads /\ life[pool.thread] = "finished"
  /\ \A t \in Threads : life[t] = "finished" => pool.at = "unlink" /\ pool.thread = t
  /\ \A t \in Threads : Shape(t)
  /\ \A i \in Items : type[i] = "thunk" => life[i] = "unmade"

\* The states of a thread can be told apart, and name items.
LEMMA StateForms ==
  /\ \A i \in Items : Entering(i) \in States /\ Entering(i)[1] = "entering" /\ Entering(i)[2] = i
  /\ \A i \in Items : Blocked(i) \in States /\ Blocked(i)[1] = "blocked" /\ Blocked(i)[2] = i
  /\ \A i \in Items : /\ Returning(Val(i)) \in States
                      /\ Returning(Val(i))[1] = "returning" /\ Returning(Val(i))[2] = Val(i)
  /\ <<"none">> \in States /\ <<"none">>[1] = "none"
  /\ \A x \in States :
       /\ x[1] \in {"none", "entering", "blocked", "returning"}
       /\ x[1] \in {"entering", "blocked"} => x[2] \in Items
       /\ x[1] = "entering" => x = Entering(x[2])
       /\ x[1] = "blocked" => x = Blocked(x[2])
       /\ x[1] = "returning" => \E i \in Items : x[2] = Val(i) /\ x = Returning(Val(i))
<1>1. /\ \A i : Entering(i)[1] = "entering" /\ Entering(i)[2] = i
      /\ \A i : Blocked(i)[1] = "blocked" /\ Blocked(i)[2] = i
      /\ \A v : Returning(v)[1] = "returning" /\ Returning(v)[2] = v
      /\ <<"none">>[1] = "none"
  BY DEF Entering, Blocked, Returning
<1> QED BY <1>1 DEF States

\* So can values, errors, the failure, and having no value.
LEMMA ValueForms ==
  /\ \A i \in Items : Val(i) \in Values /\ ~IsError(Val(i)) /\ Val(i) # None
  /\ \A i \in Items : Err(i) \in Values /\ IsError(Err(i)) /\ Err(i) # None
  /\ Failure \in Values /\ IsError(Failure) /\ Failure # None
  /\ None \notin Values
  /\ \A v \in Values : ~IsError(v) => \E i \in Items : v = Val(i)
<1>1. /\ \A i : Val(i)[1] = "value"
      /\ \A i : Err(i)[1] = "error"
      /\ Failure[1] = "failure"
      /\ None[1] = "none"
  BY DEF Val, Err, Failure, None
<1>2. /\ \A i : ~IsError(Val(i)) /\ Val(i) # None
      /\ \A i : IsError(Err(i)) /\ Err(i) # None
      /\ IsError(Failure) /\ Failure # None
  <2>1. "value" # "error" /\ "value" # "failure" /\ "none" # "value" /\ "none" # "error" /\ "none" # "failure"
    OBVIOUS
  <2> QED BY <1>1, <2>1 DEF IsError
<1> QED BY <1>2 DEF Values

\* Types at the start.
LEMMA TypesInit == EvalInit => ItemTypes /\ ThreadTypes /\ PoolTypes /\ Control
<1> SUFFICES ASSUME EvalInit PROVE ItemTypes /\ ThreadTypes /\ PoolTypes /\ Control
  OBVIOUS
<1>1. ItemTypes
  BY DEF EvalInit, ItemTypes
<1>2. ThreadTypes
  <2>1. \A t \in Threads : StateOK(state[t])
    BY StateForms DEF EvalInit, StateOK
  <2>2. \A t \in Threads : StackOK(stack[t])
    BY DEF EvalInit, StackOK, FramesOK
  <2> QED BY <2>1, <2>2 DEF EvalInit, ThreadTypes
<1>3. PoolTypes
  BY RoomForOne DEF EvalInit, PoolTypes, PoolRecords, Find, Places, Slots
<1>4. Control
  BY ThreadsAreItems DEF EvalInit, QueueInit, Control, Shape, Live, Find
<1> QED BY <1>1, <1>2, <1>3, <1>4

\* What holds of the code of every item.
LEMMA CodeFacts ==
  ASSUME code \in Programs, NEW i \in Items
  PROVE  /\ code[i].needs \in Seq(Items)
         /\ Len(code[i].needs) \in Nat
         /\ \A k \in 1 .. Len(code[i].needs) : code[i].needs[k] \in Items
         /\ code[i].kind \in {"closure", "application", "function"}
         /\ code[i].ends \in {"yield", "undef", "enter"}
         /\ code[i].kind = "application" => Len(code[i].needs) >= 1
         /\ code[i].ends = "enter" => Len(code[i].needs) >= 1
         /\ code[i].kind = "application" /\ code[i].ends = "enter" => Len(code[i].needs) >= 2
<1>1. WellFormed(code[i]) /\ code[i].needs \in Seq(Items)
  BY ProgramsWellFormed
<1>2. Len(code[i].needs) \in Nat /\ \A k \in 1 .. Len(code[i].needs) : code[i].needs[k] \in Items
  BY <1>1
<1> QED BY <1>1, <1>2 DEF WellFormed

\* ace_thread_enter_closure adds the item it enters to the stack, with nothing above it
\* but the arguments of an application.
LEMMA EntryFacts ==
  ASSUME code \in Programs, NEW i \in Items, code[i].kind # "function",
         NEW below \in Seq(Frames), FramesOK(below), below = <<>> \/ Bottomed(below)
  PROVE  LET r == EntryStack(i, below) IN
         /\ StateOK(EntryState(i))
         /\ EntryState(i)[1] \in {"entering", "blocked"}
         /\ EntryState(i)[1] = "entering" => EntryState(i)[2] = i
         /\ EntryState(i)[1] = "blocked" =>
              code[i].kind = "application" /\ EntryState(i)[2] = code[i].needs[1]
         /\ StackOK(r)
         /\ Bottomed(r)
         /\ ItemsIn(r) = ItemsIn(below) \cup {i}
         /\ Once(below) /\ i \notin ItemsIn(below) => Once(r)
         /\ i \notin ItemsIn(below) => Above(r, i) \subseteq {Resume(i, 1)}
         /\ \A j \in Items : j # i => Above(r, j) \subseteq Above(below, j) \cup {Resume(i, 1)}
<1> DEFINE u == Push(Update(i), below)
<1>1. /\ u \in Seq(Frames)
      /\ ItemsIn(u) = ItemsIn(below) \cup {i}
      /\ Once(below) /\ i \notin ItemsIn(below) => Once(u)
      /\ i \notin ItemsIn(below) => Above(u, i) = {}
      /\ \A j \in Items : j # i => Above(u, j) \subseteq Above(below, j)
      /\ Bottomed(u)
      /\ FramesOK(u)
  BY PushUpdate
<1> HIDE DEF u
<1>2. CASE code[i].kind = "application"
  <2>1. code[i].needs[1] \in Items /\ FrameOK(Resume(i, 1))
    <3>1. Len(code[i].needs) \in Nat /\ Len(code[i].needs) >= 1
      BY <1>2, CodeFacts
    <3>2. 1 \in 1 .. Len(code[i].needs)
      BY <3>1
    <3>3. code[i].ends = "enter" => 1 < Len(code[i].needs)
      BY <1>2, <3>1, CodeFacts
    <3> QED BY <1>2, <3>2, <3>3, CodeFacts DEF FrameOK, Resume
  <2>2. EntryState(i) = Blocked(code[i].needs[1]) /\ EntryStack(i, below) = Push(Resume(i, 1), u)
    BY <1>2 DEF EntryState, EntryStack, u
  <2>3. StateOK(EntryState(i)) /\ EntryState(i)[1] = "blocked" /\ EntryState(i)[2] = code[i].needs[1]
    BY <2>1, <2>2, StateForms DEF StateOK
  <2> DEFINE r == Push(Resume(i, 1), u)
  <2>4. /\ r \in Seq(Frames)
        /\ ItemsIn(r) = ItemsIn(u)
        /\ Once(u) => Once(r)
        /\ \A j \in Items : Above(r, j) \subseteq Above(u, j) \cup {Resume(i, 1)}
        /\ Bottomed(r)
        /\ FramesOK(r)
    BY <1>1, <2>1, PushResume
  <2> HIDE DEF r
  <2> QED BY <1>1, <1>2, <2>2, <2>3, <2>4 DEF r, StackOK
<1>3. CASE code[i].kind # "application"
  <2>1. code[i].kind = "closure"
    BY <1>3, CodeFacts
  <2>2. EntryState(i) = Entering(i) /\ EntryStack(i, below) = u
    BY <1>3 DEF EntryState, EntryStack, u
  <2>3. StateOK(EntryState(i)) /\ EntryState(i)[1] = "entering" /\ EntryState(i)[2] = i
    BY <2>1, <2>2, StateForms DEF StateOK
  <2> QED BY <1>1, <2>2, <2>3 DEF StackOK
<1> QED BY <1>2, <1>3

\* The top continuation is returned to: an update frame takes its item from the stack.
LEMMA TopGone ==
  ASSUME NEW s \in Seq(Frames), FramesOK(s), Bottomed(s)
  PROVE  /\ Head(s) = s[1] /\ s[1] \in Frames /\ code[s[1].item].kind # "function"
         /\ StackOK(Tail(s))
         /\ Once(s) => Once(Tail(s))
         /\ \A j \in Items : Above(Tail(s), j) \subseteq Above(s, j)
         /\ Tail(s) = <<>> \/ Bottomed(Tail(s))
         /\ s[1].node = "resume" => Bottomed(Tail(s)) /\ ItemsIn(Tail(s)) = ItemsIn(s)
         /\ s[1].node = "update" => ItemsIn(s) = ItemsIn(Tail(s)) \cup {s[1].item}
         /\ s[1].node = "update" /\ Once(s) => s[1].item \notin ItemsIn(Tail(s))
<1>1. /\ Tail(s) \in Seq(Frames)
      /\ Len(Tail(s)) = Len(s) - 1
      /\ 1 \in 1 .. Len(s)
      /\ \A n \in 1 .. Len(s) - 1 : Tail(s)[n] = s[n + 1]
      /\ Head(s) = s[1] /\ s[1] \in Frames
  BY DEF Bottomed
<1>2. \A l \in 1 .. 1 - 1 : s[l].node = "resume"
  OBVIOUS
<1>3. /\ ItemsIn(s) = ItemsIn(Tail(s)) \cup (IF s[1].node = "update" THEN {s[1].item} ELSE {})
      /\ Once(s) => Once(Tail(s))
      /\ Once(s) /\ s[1].node = "update" => s[1].item \notin ItemsIn(Tail(s))
      /\ \A j \in Items : Above(Tail(s), j) \subseteq Above(s, j)
      /\ FramesOK(s) => FramesOK(Tail(s))
      /\ Tail(s) # <<>> => Bottomed(Tail(s))
      /\ s[1].node = "resume" => Tail(s) # <<>>
  BY <1>1, <1>2, DropFirst
<1>4. code[s[1].item].kind # "function"
  BY <1>1 DEF FramesOK, FrameOK
<1> QED BY <1>1, <1>3, <1>4 DEF StackOK

\* A failing thread gives up the innermost item it evaluates, and what is above it.
LEMMA FailFacts ==
  ASSUME NEW s \in Seq(Frames), FramesOK(s), Bottomed(s)
  PROVE  LET first == CHOOSE n \in Updates(s) : \A m \in Updates(s) : n <= m
             left == SubSeq(s, first + 1, Len(s))
         IN
         /\ first \in 1 .. Len(s) /\ s[first].node = "update" /\ s[first].item \in Items
         /\ \A l \in 1 .. first - 1 : s[l].node = "resume"
         /\ s[first].item \in ItemsIn(s) /\ code[s[first].item].kind # "function"
         /\ StackOK(left)
         /\ ItemsIn(s) = ItemsIn(left) \cup {s[first].item}
         /\ Once(s) => Once(left)
         /\ Once(s) => s[first].item \notin ItemsIn(left)
         /\ \A j \in Items : Above(left, j) \subseteq Above(s, j)
         /\ Updates(left) = {} => left = <<>>
         /\ left # <<>> => Bottomed(left)
<1> DEFINE first == CHOOSE n \in Updates(s) : \A m \in Updates(s) : n <= m
           left == SubSeq(s, first + 1, Len(s))
<1>1. /\ first \in 1 .. Len(s) /\ s[first].node = "update"
      /\ \A l \in 1 .. first - 1 : s[l].node = "resume"
  BY FirstUpdate
<1> HIDE DEF first
<1>2. /\ left \in Seq(Frames)
      /\ Len(left) = Len(s) - first
      /\ \A n \in 1 .. Len(s) - first : left[n] = s[n + first]
  BY <1>1
<1> HIDE DEF left
<1>3. /\ ItemsIn(s) = ItemsIn(left) \cup (IF s[first].node = "update" THEN {s[first].item} ELSE {})
      /\ Once(s) => Once(left)
      /\ Once(s) /\ s[first].node = "update" => s[first].item \notin ItemsIn(left)
      /\ \A j \in Items : Above(left, j) \subseteq Above(s, j)
      /\ FramesOK(s) => FramesOK(left)
      /\ left # <<>> => Bottomed(left)
  BY <1>1, <1>2, DropFirst
<1>4. s[first] \in Frames /\ s[first].item \in Items /\ code[s[first].item].kind # "function"
  BY <1>1 DEF Frames, FramesOK, FrameOK
<1>5. ASSUME left # <<>> PROVE Updates(left) # {}
  <2>1. Len(left) \in 1 .. Len(left) /\ left[Len(left)].node = "update"
    BY <1>2, <1>3, <1>5 DEF Bottomed
  <2> QED BY <2>1 DEF Updates
<1> QED BY <1>1, <1>2, <1>3, <1>4, <1>5 DEF StackOK, first, left

\* A thread that runs has an item with some of its needs done; taking the continuation it
\* runs from the stack takes no item under evaluation.
LEMMA RunFacts ==
  ASSUME ItemTypes, ThreadTypes, NEW t \in Threads, Bottomed(stack[t]), Runs(t)
  PROVE  /\ Item(t) \in Items
         /\ code[Item(t)].kind # "function"
         /\ Len(Needs(t)) \in Nat
         /\ Done(t) \in 0 .. Len(Needs(t))
         /\ code[Item(t)].ends = "enter" => Done(t) < Len(Needs(t))
         /\ StackOK(Rest(t)) /\ Bottomed(Rest(t))
         /\ ItemsIn(Rest(t)) = ItemsIn(stack[t])
         /\ Once(stack[t]) => Once(Rest(t))
         /\ \A j \in Items : Above(Rest(t), j) \subseteq Above(stack[t], j)
<1> DEFINE s == stack[t]
<1>1. s \in Seq(Frames) /\ FramesOK(s) /\ StateOK(state[t]) /\ code \in Programs
  BY DEF ThreadTypes, StackOK, ItemTypes
<1>2. CASE state[t][1] = "entering"
  <2>1. Item(t) = state[t][2] /\ Done(t) = 0 /\ Rest(t) = s
    BY <1>2 DEF Item, Done, Rest
  <2>2. Item(t) \in Items /\ code[Item(t)].kind = "closure"
    BY <1>1, <1>2, <2>1, StateForms DEF StateOK
  <2>3. Len(Needs(t)) \in Nat /\ (code[Item(t)].ends = "enter" => Len(Needs(t)) >= 1)
    BY <1>1, <2>2, CodeFacts DEF Needs
  <2>4. Done(t) \in 0 .. Len(Needs(t)) /\ (code[Item(t)].ends = "enter" => Done(t) < Len(Needs(t)))
    BY <2>1, <2>3
  <2> QED BY <1>1, <2>1, <2>2, <2>3, <2>4 DEF StackOK
<1>3. CASE state[t][1] # "entering"
  <2>1. Head(s) = s[1] /\ s[1] \in Frames
    BY <1>1, TopGone
  <2>2. s[1].node = "resume" /\ Item(t) = s[1].item /\ Done(t) = s[1].k /\ Rest(t) = Tail(s)
    BY <1>3, <2>1 DEF Runs, Item, Done, Rest, Top, Below
  <2>3. 1 \in 1 .. Len(s)
    BY <1>1 DEF Bottomed
  <2>4. FrameOK(s[1])
    BY <1>1, <2>3 DEF FramesOK
  <2>5. /\ StackOK(Tail(s)) /\ Bottomed(Tail(s)) /\ ItemsIn(Tail(s)) = ItemsIn(s)
        /\ Once(s) => Once(Tail(s))
        /\ \A j \in Items : Above(Tail(s), j) \subseteq Above(s, j)
    BY <1>1, <2>2, TopGone
  <2>6. Item(t) \in Items
    BY <2>1, <2>2 DEF Frames
  <2>7. Len(Needs(t)) \in Nat
    BY <1>1, <2>6, CodeFacts DEF Needs
  <2>8. /\ code[Item(t)].kind # "function"
        /\ Done(t) \in 0 .. Len(Needs(t))
        /\ code[Item(t)].ends = "enter" => Done(t) < Len(Needs(t))
    BY <2>2, <2>4, <2>7 DEF FrameOK, Needs
  <2> QED BY <2>2, <2>5, <2>6, <2>7, <2>8
<1> QED BY <1>2, <1>3

\* When it enters its next need, the same items are under evaluation as before.
LEMMA PushedFacts ==
  ASSUME ItemTypes, ThreadTypes, NEW t \in Threads, Bottomed(stack[t]), Runs(t),
         Done(t) < Len(Needs(t))
  PROVE  /\ NextNeed(t) \in Items
         /\ StackOK(Pushed(t)) /\ Bottomed(Pushed(t))
         /\ ItemsIn(Pushed(t)) = ItemsIn(stack[t])
         /\ Once(stack[t]) => Once(Pushed(t))
         /\ \A j \in Items :
              Above(Pushed(t), j) \subseteq Above(stack[t], j) \cup {Resume(Item(t), Done(t) + 1)}
<1>1. /\ Item(t) \in Items
      /\ code[Item(t)].kind # "function"
      /\ Len(Needs(t)) \in Nat
      /\ Done(t) \in 0 .. Len(Needs(t))
      /\ StackOK(Rest(t)) /\ Bottomed(Rest(t))
      /\ ItemsIn(Rest(t)) = ItemsIn(stack[t])
      /\ Once(stack[t]) => Once(Rest(t))
      /\ \A j \in Items : Above(Rest(t), j) \subseteq Above(stack[t], j)
  BY RunFacts
<1>2. Done(t) + 1 \in 1 .. Len(Needs(t)) /\ Done(t) + 1 \in Nat
  BY <1>1
<1>3. NextNeed(t) \in Items
  BY <1>1, <1>2, CodeFacts DEF NextNeed, Needs, ItemTypes
<1>4. CASE Done(t) + 1 = Len(Needs(t)) /\ code[Item(t)].ends = "enter"
  BY <1>1, <1>3, <1>4 DEF Pushed
<1>5. CASE ~(Done(t) + 1 = Len(Needs(t)) /\ code[Item(t)].ends = "enter")
  <2> DEFINE r == Push(Resume(Item(t), Done(t) + 1), Rest(t))
  <2>1. Pushed(t) = r
    BY <1>5 DEF Pushed
  <2>2. FrameOK(Resume(Item(t), Done(t) + 1))
    BY <1>1, <1>2, <1>5 DEF FrameOK, Resume, Needs
  <2>3. Rest(t) \in Seq(Frames) /\ FramesOK(Rest(t))
    BY <1>1 DEF StackOK
  <2>4. /\ r \in Seq(Frames)
        /\ ItemsIn(r) = ItemsIn(Rest(t))
        /\ Once(Rest(t)) => Once(r)
        /\ \A j \in Items : Above(r, j) \subseteq Above(Rest(t), j) \cup {Resume(Item(t), Done(t) + 1)}
        /\ Bottomed(r)
        /\ FramesOK(r)
    BY <1>1, <1>2, <2>2, <2>3, PushResume
  <2> HIDE DEF r
  <2> QED BY <1>1, <1>3, <2>1, <2>4 DEF StackOK
<1> QED BY <1>4, <1>5

\* The type invariant, made inductive.
Types == ItemTypes /\ ThreadTypes /\ PoolTypes /\ Control /\ QueueInv

\* The records the pool's place is kept in.
LEMMA PoolForms ==
  ASSUME NEW p \in Places, NEW t \in Threads \cup {NoThread}
  PROVE  /\ At(p, t) \in PoolRecords /\ At(p, t).at = p /\ At(p, t).thread = t
         /\ \A i \in Threads : LET r == [At(p, t) EXCEPT !.new = i] IN
              r \in PoolRecords /\ r.at = p /\ r.thread = t /\ r.new = i
         /\ \A v \in Values : LET r == [At(p, t) EXCEPT !.err = v] IN
              r \in PoolRecords /\ r.at = p /\ r.thread = t /\ r.err = v
         /\ Find \in PoolRecords /\ Find.at = "find"
BY DEF At, Find, PoolRecords, Places

\* A thunk turns into an item under evaluation, and the items stay well-formed.
LEMMA ItemStarts ==
  ASSUME ItemTypes, NEW i \in Items, type[i] = "thunk",
         type' = [type EXCEPT ![i] = "eval"], dest' = dest, code' = code
  PROVE  ItemTypes'
BY DEF ItemTypes

\* An item gets a value, and the items stay well-formed.
LEMMA ItemUpdated ==
  ASSUME ItemTypes, NEW i \in Items, code[i].kind # "function", NEW v \in Values,
         UpdateItem(i, v), code' = code
  PROVE  ItemTypes'
BY ValueForms DEF ItemTypes, UpdateItem

\* Thread t goes on with state x and stack s, and the threads stay well-formed.
LEMMA ThreadMoves ==
  ASSUME ThreadTypes, code' = code, NEW t \in Threads, NEW x, StateOK(x), NEW s, StackOK(s),
         state' = [state EXCEPT ![t] = x], stack' = [stack EXCEPT ![t] = s]
  PROVE  ThreadTypes'
<1>1. \A u \in Threads : state'[u] = IF u = t THEN x ELSE state[u]
  BY DEF ThreadTypes
<1>2. \A u \in Threads : stack'[u] = IF u = t THEN s ELSE stack[u]
  BY DEF ThreadTypes
<1>3. \A y : StateOK(y)' <=> StateOK(y)
  BY DEF StateOK
<1>4. \A y : StackOK(y)' <=> StackOK(y)
  BY DEF StackOK, FramesOK, FrameOK
<1>5. \A u \in Threads : StateOK(state'[u]) /\ StackOK(stack'[u])
  BY <1>1, <1>2 DEF ThreadTypes
<1> QED BY <1>3, <1>4, <1>5 DEF ThreadTypes

-----------------------------------------------------------------------------
(* Steps of the pool and the clients *)

\* A step that does not touch items, threads and the queue leaves their types alone.
LEMMA QuietStep ==
  ASSUME Types, UNCHANGED <<queue, code, type, dest, state, stack>>
  PROVE  /\ ItemTypes' /\ ThreadTypes' /\ QueueInv'
         /\ \A t \in Threads : Shape(t)'
         /\ \A i \in Items : type'[i] = "thunk" => life'[i] = "unmade"
<1>1. ItemTypes' /\ ThreadTypes'
  BY DEF Types, ItemTypes, ThreadTypes, StateOK, StackOK, FramesOK, FrameOK
<1>2. QueueInv'
  BY DEF Types, queue, QueueInv, QueueTypeOK, QueueConsistent
<1>3. \A t \in Threads : Shape(t)'
  BY DEF Types, Control, Shape, queue, Bottomed
<1> QED BY <1>1, <1>2, <1>3 DEF Types, Control, queue

\* A thread in the queue that is found is not finished, and evaluates something.
LEMMA FoundThread ==
  ASSUME Types, pool.at = "find", threads[cursor] # NoThread
  PROVE  /\ threads[cursor] \in Threads
         /\ life[threads[cursor]] = "active"
         /\ Bottomed(stack[threads[cursor]])
<1> DEFINE t == threads[cursor]
<1>1. cursor \in Slots
  BY DEF Types, PoolTypes
<1>2. t \in Threads /\ life[t] \in InQueue
  BY <1>1 DEF Types, QueueInv, QueueConsistent, QueueTypeOK
<1>3. life[t] # "finished"
  BY <1>2 DEF Types, Control
<1>4. life[t] = "active"
  BY <1>2, <1>3 DEF InQueue
<1> QED BY <1>2, <1>4 DEF Types, Control, Shape, Live

\* The steps of the pool that change nothing but its place preserve the invariant.
LEMMA LooksTypes ==
  ASSUME Types, LeavePool \/ FindNothing \/ FindRunnable \/ StopRunning \/ Advance
  PROVE  Types'
<1>1. UNCHANGED <<queue, code, type, dest, state, stack, client, asked, answer>>
  BY DEF LeavePool, FindNothing, FindRunnable, StopRunning, Advance, fixed
<1>2. /\ ItemTypes' /\ ThreadTypes' /\ QueueInv'
      /\ \A t \in Threads : Shape(t)'
      /\ \A i \in Items : type'[i] = "thunk" => life'[i] = "unmade"
  BY <1>1, QuietStep
<1>3. cursor' \in Slots
  <2>1. cursor \in Slots /\ num_active \in 0 .. NumAceThreads
    BY DEF Types, PoolTypes, QueueInv, QueueTypeOK
  <2>2. CASE Advance
    BY <2>1, <2>2, RoomForOne DEF Advance, Slots
  <2> QED BY <2>1, <2>2 DEF LeavePool, FindNothing, FindRunnable, StopRunning
<1>4. \/ pool' = At("left", NoThread) \/ pool' = At("advance", NoThread) \/ pool' = Find
      \/ pool' = At("turn", threads[cursor]) /\ FindRunnable
  BY DEF LeavePool, FindNothing, FindRunnable, StopRunning, Advance
<1>5. FindRunnable => threads[cursor] \in Threads /\ life[threads[cursor]] = "active" /\ Runnable(threads[cursor])
  BY FoundThread DEF FindRunnable
<1>6. pool' \in PoolRecords /\ (pool'.at = "turn" => FindRunnable /\ pool'.thread = threads[cursor])
      /\ pool'.at \in {"left", "advance", "find", "turn"}
  <2>1. "left" \in Places /\ "advance" \in Places /\ "turn" \in Places /\ NoThread \in Threads \cup {NoThread}
    BY DEF Places
  <2> QED BY <1>4, <1>5, <2>1, PoolForms
<1>7. PoolTypes'
  BY <1>1, <1>3, <1>6 DEF Types, PoolTypes, PoolRecords
<1>8. \A t \in Threads : life[t] # "finished"
  BY DEF LeavePool, FindNothing, FindRunnable, StopRunning, Advance, Types, Control
<1>9. Control'
  BY <1>1, <1>2, <1>5, <1>6, <1>8 DEF Control, Runnable, queue
<1> QED BY <1>2, <1>7, <1>9 DEF Types

\* The rest of Control when thread t of the pool goes on and is not finished yet.
LEMMA PoolGoesOn ==
  ASSUME Types, NEW t \in Threads, life' = life, life[t] = "active",
         pool.at \in {"find", "turn", "run", "fail"}, type' = type \/ \E i \in Items : type' = [type EXCEPT ![i] = "indirection"],
         pool' \in PoolRecords, pool'.at \in {"turn", "run", "fail"}, pool'.thread = t,
         pool'.at = "turn" => Runnable(t)',
         pool'.at = "fail" => pool'.err \in Values /\ IsError(pool'.err),
         \A u \in Threads : Shape(u)'
  PROVE  Control'
<1>1. \A u \in Threads : life[u] # "finished"
  BY DEF Types, Control
<1>2. \A i \in Items : type'[i] = "thunk" => type[i] = "thunk"
  BY DEF Types, ItemTypes
<1> QED BY <1>1, <1>2 DEF Types, Control

\* A thread goes on with a stack that still evaluates something: all stacks have the
\* shape that goes with their threads' lives.
LEMMA ShapeMoves ==
  ASSUME Types, NEW t \in Threads, life' = life, life[t] = "active",
         NEW s, Bottomed(s), stack' = [stack EXCEPT ![t] = s]
  PROVE  \A u \in Threads : Shape(u)'
<1>1. \A u \in Threads : stack'[u] = IF u = t THEN s ELSE stack[u]
  BY DEF Types, ThreadTypes
<1>2. \A u \in Threads : Shape(u)
  BY DEF Types, Control
<1> QED BY <1>1, <1>2 DEF Shape, Live, Bottomed

\* A blocked thread that is woken, or failed, preserves the invariant.
LEMMA FindUnblockedTypes ==
  ASSUME Types, FindUnblocked
  PROVE  Types'
<1> DEFINE t == threads[cursor]
           i == state[t][2]
           v == ValueNow(i)
<1>1. t \in Threads /\ life[t] = "active" /\ Bottomed(stack[t])
  BY FoundThread DEF FindUnblocked
<1>2. i \in Items
  BY <1>1, StateForms DEF FindUnblocked, Types, ThreadTypes, StateOK
<1>3. v \in Values
  BY <1>2, ValueForms DEF FindUnblocked, ValueNow, Types, ItemTypes
<1>4. UNCHANGED <<queue, code, type, dest, stack, cursor, client, asked, answer>>
  BY DEF FindUnblocked, fixed
<1>5. ItemTypes' /\ QueueInv' /\ \A u \in Threads : Shape(u)'
  BY <1>4 DEF Types, ItemTypes, queue, QueueInv, QueueTypeOK, QueueConsistent, Control, Shape, Bottomed
<1>6. "fail" \in Places /\ "turn" \in Places
  BY DEF Places
<1>7. CASE IsError(v)
  <2>1. pool' = [At("fail", t) EXCEPT !.err = v] /\ state' = state
    BY <1>7 DEF FindUnblocked
  <2>2. pool' \in PoolRecords /\ pool'.at = "fail" /\ pool'.thread = t /\ pool'.err = v
    BY <1>1, <1>3, <1>6, <2>1, PoolForms
  <2>3. ThreadTypes'
    BY <1>4, <2>1 DEF Types, ThreadTypes, StateOK, StackOK, FramesOK, FrameOK
  <2>4. Control'
    <3> HIDE DEF t, v
    <3> QED BY <1>1, <1>3, <1>4, <1>5, <1>7, <2>2, PoolGoesOn DEF FindUnblocked, queue
  <2>5. PoolTypes'
    BY <1>4, <2>2 DEF Types, PoolTypes, PoolRecords
  <2> QED BY <1>5, <2>3, <2>4, <2>5 DEF Types
<1>8. CASE ~IsError(v)
  <2>1. pool' = At("turn", t) /\ state' = [state EXCEPT ![t] = Returning(v)]
    BY <1>8 DEF FindUnblocked
  <2>2. pool' \in PoolRecords /\ pool'.at = "turn" /\ pool'.thread = t
    BY <1>1, <1>6, <2>1, PoolForms
  <2>3. StateOK(Returning(v)) /\ Returning(v)[1] = "returning"
    BY <1>3, <1>8, ValueForms, StateForms DEF StateOK
  <2>4. StackOK(stack[t]) /\ stack' = [stack EXCEPT ![t] = stack[t]]
    BY <1>1, <1>4 DEF Types, ThreadTypes
  <2>5. ThreadTypes'
    <3> HIDE DEF t, v
    <3> QED BY <1>1, <1>4, <2>1, <2>3, <2>4, ThreadMoves DEF Types
  <2>6. Runnable(t)'
    <3>1. state'[t] = Returning(v)
      BY <1>1, <2>1 DEF Types, ThreadTypes
    <3>2. t' = t
      BY <1>4 DEF queue
    <3> QED BY <3>1, <3>2, <2>3 DEF Runnable
  <2>7. Control'
    <3>1. \A u \in Threads : u = t => Runnable(u)'
      BY <2>6, <1>4 DEF queue, Runnable
    <3> HIDE DEF t, v
    <3>2. life' = life /\ type' = type /\ pool.at = "find"
      BY <1>4 DEF queue, FindUnblocked
    <3> QED BY <1>1, <1>5, <2>2, <3>1, <3>2, PoolGoesOn
  <2>8. PoolTypes'
    BY <1>4, <2>2 DEF Types, PoolTypes, PoolRecords
  <2> QED BY <1>5, <2>5, <2>7, <2>8 DEF Types
<1> QED BY <1>7, <1>8

\* Item i is entered, by thread t on top of the continuations below.
LEMMA EnterTypes ==
  ASSUME Types, NEW t \in Threads, NEW i \in Items, NEW below, StackOK(below),
         below = <<>> \/ Bottomed(below), EnterClosure(t, i, below), code' = code
  PROVE  /\ ItemTypes' /\ ThreadTypes'
         /\ stack' = [stack EXCEPT ![t] = EntryStack(i, below)]
         /\ Bottomed(EntryStack(i, below))
         /\ \A j \in Items : type'[j] = "thunk" => type[j] = "thunk" /\ j # i
         /\ state'[t] = EntryState(i)
<1>1. code \in Programs /\ code[i].kind # "function"
  BY DEF EnterClosure, Types, ItemTypes
<1>2. StateOK(EntryState(i)) /\ StackOK(EntryStack(i, below)) /\ Bottomed(EntryStack(i, below))
  <2>1. below \in Seq(Frames) /\ FramesOK(below)
    BY DEF StackOK
  <2> QED BY <1>1, <2>1, EntryFacts
<1>3. ItemTypes'
  BY ItemStarts DEF EnterClosure, Types
<1>4. ThreadTypes'
  BY <1>2, ThreadMoves DEF EnterClosure, Types
<1> QED BY <1>2, <1>3, <1>4 DEF EnterClosure, Types, ThreadTypes, ItemTypes

\* ace_start_evaluation: a thread is made, and its item is entered.
LEMMA StartTypes ==
  ASSUME Types, NEW i \in Items, StartEvaluation(i), code' = code
  PROVE  /\ ItemTypes' /\ ThreadTypes' /\ QueueInv'
         /\ life' = [life EXCEPT ![i] = "starting"] /\ life[i] = "unmade"
         /\ \A t \in Threads : Shape(t)'
         /\ \A j \in Items : type'[j] = "thunk" => life'[j] = "unmade"
<1>1. i \in Threads /\ life[i] = "unmade" /\ life' = [life EXCEPT ![i] = "starting"]
  BY DEF StartEvaluation, AllocThread
<1>2. QueueInv'
  BY <1>1, AllocInv DEF StartEvaluation, Types
<1>3. StackOK(<<>>)
  BY DEF StackOK, FramesOK
<1>4. /\ ItemTypes' /\ ThreadTypes'
      /\ stack' = [stack EXCEPT ![i] = EntryStack(i, <<>>)]
      /\ Bottomed(EntryStack(i, <<>>))
      /\ \A j \in Items : type'[j] = "thunk" => type[j] = "thunk" /\ j # i
  BY <1>1, <1>3, EnterTypes DEF StartEvaluation
<1>5. \A t \in Threads : /\ stack'[t] = IF t = i THEN EntryStack(i, <<>>) ELSE stack[t]
                         /\ life'[t] = IF t = i THEN "starting" ELSE life[t]
  BY <1>1, <1>4 DEF Types, ThreadTypes, QueueInv, QueueTypeOK
<1>6. \A t \in Threads : Shape(t)'
  BY <1>4, <1>5 DEF Types, Control, Shape, Live, Bottomed
<1>7. \A j \in Items : type'[j] = "thunk" => life'[j] = "unmade"
  BY <1>4, <1>5, ThreadsAreItems DEF Types, Control
<1> QED BY <1>1, <1>2, <1>4, <1>6, <1>7

\* The pool starts what a thread is blocked on: the invariant is preserved.
LEMMA FindUnstartedTypes ==
  ASSUME Types, FindUnstarted
  PROVE  Types'
<1> DEFINE t == threads[cursor]
           i == state[t][2]
<1>1. t \in Threads /\ life[t] = "active"
  BY FoundThread DEF FindUnstarted
<1>2. i \in Items
  BY <1>1, StateForms DEF FindUnstarted, Types, ThreadTypes, StateOK
<1>3. /\ ItemTypes' /\ ThreadTypes' /\ QueueInv'
      /\ life' = [life EXCEPT ![i] = "starting"] /\ life[i] = "unmade"
      /\ \A u \in Threads : Shape(u)'
      /\ \A j \in Items : type'[j] = "thunk" => life'[j] = "unmade"
  BY <1>2, StartTypes DEF FindUnstarted, fixed
<1>4. pool' = [At("enqueue", t) EXCEPT !.new = i] /\ UNCHANGED <<cursor, client, asked, answer>>
  BY DEF FindUnstarted, fixed
<1>5. "enqueue" \in Places
  BY DEF Places
<1> HIDE DEF t, i
<1>6. pool' \in PoolRecords /\ pool'.at = "enqueue" /\ pool'.thread = t /\ pool'.new = i
  BY <1>1, <1>2, <1>4, <1>5, ThreadsAreItems, PoolForms
<1>7. PoolTypes'
  BY <1>4, <1>6 DEF Types, PoolTypes, PoolRecords
<1>8. life'[t] = "active" /\ \A u \in Threads : life'[u] # "finished"
  BY <1>1, <1>3 DEF Types, Control, QueueInv, QueueTypeOK, FindUnstarted
<1>9. Control'
  BY <1>1, <1>2, <1>3, <1>6, <1>8, ThreadsAreItems DEF Control
<1> QED BY <1>3, <1>7, <1>9 DEF Types

\* A client starts what it asks for: the invariant is preserved.
LEMMA ClientStartsTypes ==
  ASSUME Types, NEW c \in Clients, ClientStarts(c)
  PROVE  Types'
<1> DEFINE i == asked[c]
<1>1. i \in Items
  BY DEF Types, PoolTypes
<1>2. /\ ItemTypes' /\ ThreadTypes' /\ QueueInv'
      /\ life' = [life EXCEPT ![i] = "starting"] /\ life[i] = "unmade"
      /\ \A u \in Threads : Shape(u)'
      /\ \A j \in Items : type'[j] = "thunk" => life'[j] = "unmade"
  BY <1>1, StartTypes DEF ClientStarts, fixed
<1>3. /\ client' = [client EXCEPT ![c] = "enqueue"] /\ client[c] = "ask"
      /\ UNCHANGED <<pool, cursor, asked, answer>>
  BY DEF ClientStarts, fixed
<1> HIDE DEF i
<1>4. PoolTypes'
  BY <1>3 DEF Types, PoolTypes, PoolRecords
<1>5. /\ \A t \in Threads : life[t] = "active" => life'[t] = "active"
      /\ \A t \in Threads : life'[t] = "finished" <=> life[t] = "finished"
  BY <1>2 DEF Types, QueueInv, QueueTypeOK
<1>6. pool.at = "turn" => Runnable(pool.thread)'
  <2> SUFFICES ASSUME pool.at = "turn" PROVE Runnable(pool.thread)'
    OBVIOUS
  <2>1. pool.thread \in Threads /\ life[pool.thread] = "active" /\ Runnable(pool.thread)
    BY DEF Types, Control
  <2>2. state' = [state EXCEPT ![i] = EntryState(i)]
    BY DEF ClientStarts, StartEvaluation, EnterClosure, i
  <2>3. state'[pool.thread] = state[pool.thread]
    BY <1>2, <2>1, <2>2 DEF Types, ThreadTypes
  <2> QED BY <1>3, <2>1, <2>3 DEF Runnable
<1>7. Control'
  BY <1>2, <1>3, <1>5, <1>6 DEF Types, Control
<1> QED BY <1>2, <1>4, <1>7 DEF Types

\* Thread t gets in or out of the queue, and nothing else changes that its stack
\* depends on.
LEMMA QueueOnly ==
  ASSUME Types, UNCHANGED <<code, type, dest, state, stack>>, QueueInv',
         NEW t \in Threads, NEW l, life' = [life EXCEPT ![t] = l],
         life[t] \in Live <=> l \in Live, life[t] # "unmade"
  PROVE  /\ ItemTypes' /\ ThreadTypes'
         /\ \A u \in Threads : Shape(u)'
         /\ \A i \in Items : type'[i] = "thunk" => life'[i] = "unmade"
         /\ \A u \in Threads : life'[u] = IF u = t THEN l ELSE life[u]
<1>1. ItemTypes' /\ ThreadTypes'
  BY DEF Types, ItemTypes, ThreadTypes, StateOK, StackOK, FramesOK, FrameOK
<1>2. \A u \in Threads : life'[u] = IF u = t THEN l ELSE life[u]
  BY DEF Types, QueueInv, QueueTypeOK
<1>3. \A u \in Threads : Shape(u)'
  BY <1>2 DEF Types, Control, Shape, Bottomed
<1>4. \A i \in Items : type'[i] = "thunk" => life'[i] = "unmade"
  BY <1>2, ThreadsAreItems DEF Types, Control
<1> QED BY <1>1, <1>2, <1>3, <1>4

\* The client's thread gets a slot, or none is left: the invariant is preserved.
LEMMA ClientEnqueuesTypes ==
  ASSUME Types, NEW c \in Clients, ClientEnqueues(c)
  PROVE  Types'
<1> DEFINE t == asked[c]
<1>1. t \in Threads
  BY ThreadsAreItems DEF Types, PoolTypes
<1>2. PICK l \in {"active", "orphan"} : life' = [life EXCEPT ![t] = l] /\ life[t] = "starting" /\ QueueInv'
  BY <1>1, EnqueueInv, OutOfThreadsInv DEF ClientEnqueues, Types, Enqueue, OutOfThreads
<1>3. UNCHANGED <<code, type, dest, state, stack, pool, cursor, asked>>
  BY DEF ClientEnqueues, fixed
<1> HIDE DEF t
<1>4. /\ ItemTypes' /\ ThreadTypes'
      /\ \A u \in Threads : Shape(u)'
      /\ \A i \in Items : type'[i] = "thunk" => life'[i] = "unmade"
      /\ \A u \in Threads : life'[u] = IF u = t THEN l ELSE life[u]
  BY <1>1, <1>2, <1>3, QueueOnly DEF Live
<1>5. PoolTypes'
  BY <1>3, ValueForms DEF Types, PoolTypes, PoolRecords, ClientEnqueues
<1>6. Control'
  BY <1>1, <1>2, <1>3, <1>4 DEF Types, Control, Runnable
<1> QED BY <1>2, <1>4, <1>5, <1>6 DEF Types

\* So it is with a thread that the pool started.
LEMMA PoolEnqueuesTypes ==
  ASSUME Types, PoolEnqueues
  PROVE  Types'
<1> DEFINE t == pool.new
           u == pool.thread
<1>1. t \in Threads /\ u \in Threads /\ life[u] = "active"
  BY DEF PoolEnqueues, Types, Control
<1>2. PICK l \in {"active", "orphan"} : life' = [life EXCEPT ![t] = l] /\ life[t] = "starting" /\ QueueInv'
  BY <1>1, EnqueueInv, OutOfThreadsInv DEF PoolEnqueues, Types, Enqueue, OutOfThreads
<1>3. UNCHANGED <<code, type, dest, state, stack, cursor, client, asked, answer>>
  BY DEF PoolEnqueues, fixed
<1>4. /\ ItemTypes' /\ ThreadTypes'
      /\ \A v \in Threads : Shape(v)'
      /\ \A i \in Items : type'[i] = "thunk" => life'[i] = "unmade"
      /\ \A v \in Threads : life'[v] = IF v = t THEN l ELSE life[v]
  <2> HIDE DEF t, u
  <2>1. life[t] \in Live <=> l \in Live
    BY <1>2 DEF Live
  <2> QED BY <1>1, <1>2, <1>3, <2>1, QueueOnly
<1>5. pool' = At("advance", NoThread) \/ pool' = [At("fail", u) EXCEPT !.err = Failure]
  BY DEF PoolEnqueues
<1> HIDE DEF t, u
<1>6. /\ pool' \in PoolRecords
      /\ pool'.at = "advance" \/ (pool'.at = "fail" /\ pool'.thread = u /\ pool'.err = Failure)
  <2>1. "advance" \in Places /\ "fail" \in Places /\ Failure \in Values
    BY ValueForms DEF Places
  <2>2. CASE pool' = At("advance", NoThread)
    BY <2>1, <2>2, PoolForms
  <2>3. CASE pool' = [At("fail", u) EXCEPT !.err = Failure]
    BY <1>1, <2>1, <2>3, PoolForms
  <2> QED BY <1>5, <2>2, <2>3
<1>7. PoolTypes'
  BY <1>3, <1>6 DEF Types, PoolTypes, PoolRecords
<1>8. life'[u] = "active" /\ \A v \in Threads : life'[v] # "finished"
  BY <1>1, <1>2, <1>4 DEF Types, Control, PoolEnqueues
<1>9. Control'
  BY <1>1, <1>4, <1>6, <1>8, ValueForms DEF Control
<1> QED BY <1>2, <1>4, <1>7, <1>9 DEF Types

\* A finished thread leaves the queue: the invariant is preserved.
LEMMA PoolUnlinksTypes ==
  ASSUME Types, PoolUnlinks
  PROVE  Types'
<1> DEFINE t == pool.thread
<1>1. t \in Threads /\ life[t] = "finished"
  BY DEF PoolUnlinks, Types, Control
<1>2. QueueInv' /\ life' = [life EXCEPT ![t] = "gone"]
  BY <1>1, UnlinkInv DEF PoolUnlinks, Types, UnlinkThread
<1>3. UNCHANGED <<code, type, dest, state, stack, cursor, client, asked, answer>>
  BY DEF PoolUnlinks, fixed
<1>4. /\ ItemTypes' /\ ThreadTypes'
      /\ \A v \in Threads : Shape(v)'
      /\ \A i \in Items : type'[i] = "thunk" => life'[i] = "unmade"
      /\ \A v \in Threads : life'[v] = IF v = t THEN "gone" ELSE life[v]
  <2> HIDE DEF t
  <2> QED BY <1>1, <1>2, <1>3, QueueOnly DEF Live
<1>6. pool' \in PoolRecords /\ pool'.at = "advance"
  BY PoolForms DEF PoolUnlinks, Places
<1>7. PoolTypes'
  BY <1>3, <1>6 DEF Types, PoolTypes, PoolRecords
<1>8. \A v \in Threads : life'[v] # "finished"
  BY <1>1, <1>4 DEF Types, Control
<1>9. Control'
  BY <1>4, <1>6, <1>8 DEF Control
<1> QED BY <1>2, <1>4, <1>7, <1>9 DEF Types

\* A client is answered: the invariant is preserved.
LEMMA ClientSeesTypes ==
  ASSUME Types, NEW c \in Clients, ClientSees(c)
  PROVE  Types'
<1>1. UNCHANGED <<queue, code, type, dest, state, stack, pool, cursor, asked>>
  BY DEF ClientSees, fixed
<1>2. /\ ItemTypes' /\ ThreadTypes' /\ QueueInv'
      /\ \A t \in Threads : Shape(t)'
      /\ \A i \in Items : type'[i] = "thunk" => life'[i] = "unmade"
  BY <1>1, QuietStep
<1>3. asked[c] \in Items /\ ValueNow(asked[c]) \in Values
  BY ValueForms DEF ClientSees, ValueNow, Types, PoolTypes, ItemTypes
<1>4. PoolTypes'
  BY <1>1, <1>3, ValueForms DEF ClientSees, Types, PoolTypes, PoolRecords
<1>5. Control'
  BY <1>1, <1>2 DEF Types, Control, Runnable, queue
<1> QED BY <1>2, <1>4, <1>5 DEF Types

\* A collection moves threads and consolidates stacks: the invariant is preserved.
LEMMA CollectionTypes ==
  ASSUME Types, Collection
  PROVE  Types'
<1> DEFINE reached == {t \in Threads : life[t] = "active" /\ LiveUpdates(stack[t]) # {}}
<1>1. /\ UNCHANGED <<code, type, dest, state, pool, cursor, client, asked, answer>>
      /\ stack' = StacksAfter(reached) /\ CleanupThreads(reached) /\ pool.at = "find"
  BY DEF Collection, fixed
<1>2. QueueInv'
  BY <1>1, CleanupInv DEF Types
<1>3. \A t \in Threads : /\ life[t] \notin {"starting", "finished"}
                         /\ life'[t] = IF life[t] = "active" /\ t \notin reached THEN "gone" ELSE life[t]
  BY <1>1 DEF CleanupThreads
<1>4. \A t \in Threads : stack'[t] = IF t \in reached THEN Consolidate(stack[t])
                     ELSE IF life[t] = "orphan" THEN stack[t] ELSE <<>>
  BY <1>1 DEF StacksAfter
<1>5. \A t \in reached : StackOK(Consolidate(stack[t])) /\ Bottomed(Consolidate(stack[t]))
  BY Consolidated DEF Types, ThreadTypes, StackOK
<1>6. \A t \in Threads : StackOK(stack'[t])
  <2>1. StackOK(<<>>)
    BY DEF StackOK, FramesOK
  <2> QED BY <1>4, <1>5, <2>1 DEF Types, ThreadTypes
<1>7. ThreadTypes'
  <2>1. \A y : StackOK(y)' <=> StackOK(y)
    BY <1>1 DEF StackOK, FramesOK, FrameOK
  <2>2. \A y : StateOK(y)' <=> StateOK(y)
    BY <1>1 DEF StateOK
  <2>3. DOMAIN stack' = Threads /\ stack' = [t \in Threads |-> stack'[t]]
    BY <1>1 DEF StacksAfter
  <2>4. /\ DOMAIN state' = Threads /\ state' = [t \in Threads |-> state'[t]]
        /\ \A t \in Threads : StateOK(state'[t])
    BY <1>1 DEF Types, ThreadTypes
  <2> QED BY <1>6, <2>1, <2>2, <2>3, <2>4 DEF ThreadTypes
<1>8. ItemTypes' /\ PoolTypes'
  BY <1>1 DEF Types, ItemTypes, PoolTypes, PoolRecords
<1>9. ASSUME NEW t \in Threads PROVE Shape(t)'
  <2>1. CASE t \in reached
    BY <2>1, <1>3, <1>4, <1>5 DEF Shape, Live, Bottomed
  <2>2. CASE t \notin reached /\ life[t] = "orphan"
    <3>1. stack'[t] = stack[t] /\ life'[t] = "orphan"
      BY <2>2, <1>3, <1>4
    <3> QED BY <2>2, <3>1 DEF Types, Control, Shape, Live, Bottomed
  <2>3. CASE t \notin reached /\ life[t] # "orphan"
    <3>1. stack'[t] = <<>> /\ life'[t] \notin Live
      BY <2>3, <1>3, <1>4 DEF Live
    <3> QED BY <3>1 DEF Shape
  <2> QED BY <2>1, <2>2, <2>3
<1>10. Control'
  <2>1. \A i \in Items : type'[i] = "thunk" => life'[i] = "unmade"
    BY <1>1, <1>3, ThreadsAreItems DEF Types, Control
  <2>2. \A t \in Threads : life'[t] # "finished"
    BY <1>3
  <2> QED BY <1>1, <1>9, <2>1, <2>2 DEF Control
<1> QED BY <1>2, <1>7, <1>8, <1>10 DEF Types

-----------------------------------------------------------------------------
(* The running thread *)

\* The thread that the pool runs is in the queue, and none is finished meanwhile.
LEMMA Running ==
  ASSUME Types, pool.at \in {"turn", "run", "fail"}
  PROVE  /\ pool.thread \in Threads /\ life[pool.thread] = "active"
         /\ Bottomed(stack[pool.thread]) /\ StackOK(stack[pool.thread])
         /\ StateOK(state[pool.thread])
         /\ \A t \in Threads : life[t] # "finished"
BY DEF Types, Control, Shape, Live, ThreadTypes

\* The running thread goes on with state x and stack s: how the types follow.
LEMMA RunGoesOn ==
  ASSUME Types, NEW t \in Threads, t = pool.thread, pool.at \in {"turn", "run", "fail"},
         NEW x, StateOK(x), NEW s, StackOK(s), Bottomed(s),
         state' = [state EXCEPT ![t] = x], stack' = [stack EXCEPT ![t] = s],
         ItemTypes', type' = type \/ \E i \in Items : type' = [type EXCEPT ![i] = "indirection"],
         UNCHANGED <<queue, code, asked, cursor, client, answer>>,
         pool' \in PoolRecords, pool'.at \in {"turn", "run", "fail"}, pool'.thread = t,
         pool'.at = "turn" => x[1] \in {"entering", "returning"},
         pool'.at = "fail" => pool'.err \in Values /\ IsError(pool'.err)
  PROVE  Types'
<1>1. life[t] = "active"
  BY DEF Types, Control
<1>2. ThreadTypes'
  BY ThreadMoves DEF Types
<1>3. PoolTypes'
  BY DEF Types, PoolTypes, PoolRecords
<1>4. QueueInv'
  BY DEF Types, queue, QueueInv, QueueTypeOK, QueueConsistent
<1>5. life' = life
  BY DEF queue
<1>6. \A u \in Threads : Shape(u)'
  BY <1>1, <1>5, ShapeMoves
<1>7. state'[t] = x
  BY DEF Types, ThreadTypes
<1>8. pool'.at = "turn" => Runnable(t)'
  BY <1>7 DEF Runnable
<1>9. Control'
  BY <1>1, <1>5, <1>6, <1>8, PoolGoesOn
<1> QED BY <1>2, <1>3, <1>4, <1>9 DEF Types

\* The running thread enters its next need: the invariant is preserved.
LEMMA EnterStepTypes ==
  ASSUME Types, RunThread, Enter(pool.thread)
  PROVE  Types'
<1> DEFINE t == pool.thread
           i == NextNeed(t)
           s == Pushed(t)
           v == ValueNow(i)
           room == Len(Pushed(t)) < MaxStack
<1>1. /\ t \in Threads /\ life[t] = "active" /\ Bottomed(stack[t]) /\ StackOK(stack[t])
      /\ StateOK(state[t])
      /\ pool.at \in {"turn", "run", "fail"}
      /\ \A u \in Threads : life[u] # "finished"
  BY Running DEF RunThread
<1>2. i \in Items /\ StackOK(s) /\ Bottomed(s)
  BY <1>1, PushedFacts DEF Enter, Types
<1>3. UNCHANGED <<code, asked, cursor, client, answer>>
  BY DEF RunThread, fixed
<1>4. "run" \in Places /\ "fail" \in Places /\ "enqueue" \in Places
  BY DEF Places
<1>5. CASE room /\ EnterClosure(t, i, s) /\ UNCHANGED queue /\ Continue(t)
  <2>1. /\ ItemTypes' /\ ThreadTypes'
        /\ stack' = [stack EXCEPT ![t] = EntryStack(i, s)]
        /\ Bottomed(EntryStack(i, s))
        /\ \A j \in Items : type'[j] = "thunk" => type[j] = "thunk" /\ j # i
    <3> HIDE DEF t, i, s
    <3> QED BY <1>1, <1>2, <1>3, <1>5, EnterTypes
  <2>2. pool' \in PoolRecords /\ pool'.at = "run" /\ pool'.thread = t
    <3>1. pool' = At("run", t)
      BY <1>5 DEF Continue
    <3> HIDE DEF t
    <3> QED BY <1>1, <1>4, <3>1, PoolForms
  <2>3. QueueInv' /\ life' = life
    BY <1>5 DEF Types, queue, QueueInv, QueueTypeOK, QueueConsistent
  <2>4. PoolTypes'
    BY <1>3, <2>2 DEF Types, PoolTypes, PoolRecords
  <2> HIDE DEF t, i, s
  <2>5. \A u \in Threads : Shape(u)'
    BY <1>1, <2>1, <2>3, ShapeMoves
  <2>6. \A j \in Items : type'[j] = "thunk" => life'[j] = "unmade"
    BY <2>1, <2>3 DEF Types, Control
  <2>7. Control'
    BY <1>1, <2>2, <2>3, <2>5, <2>6 DEF Control
  <2> QED BY <2>1, <2>3, <2>4, <2>7 DEF Types
<1>6. CASE /\ ~room /\ type[i] = "thunk"
           /\ AllocThread(i)
           /\ type' = [type EXCEPT ![i] = "eval"]
           /\ state' = [state EXCEPT ![i] = EntryState(i), ![t] = Blocked(i)]
           /\ stack' = [stack EXCEPT ![i] = EntryStack(i, <<>>), ![t] = s]
           /\ pool' = [At("enqueue", t) EXCEPT !.new = i]
           /\ UNCHANGED dest
  <2>1. i \in Threads /\ life[i] = "unmade" /\ i # t /\ life' = [life EXCEPT ![i] = "starting"]
    BY <1>1, <1>6 DEF AllocThread
  <2>2. ItemTypes' /\ QueueInv'
    <3>1. QueueInv'
      BY <1>6, <2>1, AllocInv DEF Types
    <3> QED BY <1>2, <1>3, <1>6, <3>1, ItemStarts DEF Types
  <2>3. code \in Programs /\ code[i].kind # "function"
    BY <1>2, <1>6 DEF Types, ItemTypes
  <2>4. StateOK(EntryState(i)) /\ StackOK(EntryStack(i, <<>>)) /\ Bottomed(EntryStack(i, <<>>))
    <3>1. <<>> \in Seq(Frames) /\ FramesOK(<<>>)
      BY DEF FramesOK
    <3> QED BY <1>2, <2>3, <3>1, EntryFacts
  <2>5. StateOK(Blocked(i))
    BY <1>2, StateForms DEF StateOK
  <2> DEFINE st1 == [state EXCEPT ![i] = EntryState(i)]
             sk1 == [stack EXCEPT ![i] = EntryStack(i, <<>>)]
  <2>6. state' = [st1 EXCEPT ![t] = Blocked(i)] /\ stack' = [sk1 EXCEPT ![t] = s]
    BY <1>6
  <2>7. \A u \in Threads :
          /\ state'[u] = IF u = t THEN Blocked(i) ELSE IF u = i THEN EntryState(i) ELSE state[u]
          /\ stack'[u] = IF u = t THEN s ELSE IF u = i THEN EntryStack(i, <<>>) ELSE stack[u]
          /\ life'[u] = IF u = i THEN "starting" ELSE life[u]
    BY <2>1, <2>6 DEF Types, ThreadTypes, QueueInv, QueueTypeOK
  <2>8. ThreadTypes'
    <3>1. \A y : StateOK(y)' <=> StateOK(y)
      BY <1>3 DEF StateOK
    <3>2. \A y : StackOK(y)' <=> StackOK(y)
      BY <1>3 DEF StackOK, FramesOK, FrameOK
    <3>3. \A u \in Threads : StateOK(state'[u]) /\ StackOK(stack'[u])
      <4> HIDE DEF s, i, t
      <4> QED BY <1>2, <2>4, <2>5, <2>7 DEF Types, ThreadTypes
    <3>4. DOMAIN state' = Threads /\ DOMAIN stack' = Threads
      BY <2>6 DEF Types, ThreadTypes
    <3>5. state' = [u \in Threads |-> state'[u]] /\ stack' = [u \in Threads |-> stack'[u]]
      BY <2>6 DEF Types, ThreadTypes
    <3> HIDE DEF s, i, t
    <3> QED BY <3>1, <3>2, <3>3, <3>4, <3>5 DEF ThreadTypes
  <2>9. pool' \in PoolRecords /\ pool'.at = "enqueue" /\ pool'.thread = t /\ pool'.new = i
    <3>1. pool' = [At("enqueue", t) EXCEPT !.new = i]
      BY <1>6
    <3> HIDE DEF t, i
    <3> QED BY <1>1, <1>4, <2>1, <3>1, PoolForms
  <2>10. PoolTypes'
    BY <1>3, <2>9 DEF Types, PoolTypes, PoolRecords
  <2>11. \A j \in Items : type'[j] = "thunk" => type[j] = "thunk" /\ j # i
    BY <1>6, <1>2 DEF Types, ItemTypes
  <2> HIDE DEF s, i, t
  <2>12. \A u \in Threads : Shape(u)'
    BY <1>1, <1>2, <2>4, <2>7 DEF Types, Control, Shape, Live, Bottomed
  <2>13. \A j \in Items : type'[j] = "thunk" => life'[j] = "unmade"
    BY <2>7, <2>11, ThreadsAreItems DEF Types, Control
  <2>14. Control'
    BY <1>1, <2>1, <2>7, <2>9, <2>12, <2>13 DEF Control
  <2> QED BY <2>2, <2>8, <2>10, <2>14 DEF Types
<1>7. CASE /\ type[i] = "eval"
           /\ state' = [state EXCEPT ![t] = Blocked(i)]
           /\ stack' = [stack EXCEPT ![t] = s]
           /\ Continue(t) /\ UNCHANGED <<queue, type, dest>>
  <2>1. ItemTypes'
    BY <1>3, <1>7 DEF Types, ItemTypes
  <2>2. StateOK(Blocked(i))
    BY <1>2, StateForms DEF StateOK
  <2>3. pool' \in PoolRecords /\ pool'.at = "run" /\ pool'.thread = t
    <3>1. pool' = At("run", t)
      BY <1>7 DEF Continue
    <3> HIDE DEF t
    <3> QED BY <1>1, <1>4, <3>1, PoolForms
  <2>4. t = pool.thread
    OBVIOUS
  <2> HIDE DEF s, i, t
  <2> QED BY <1>1, <1>2, <1>3, <1>7, <2>1, <2>2, <2>3, <2>4, RunGoesOn
<1>8. CASE /\ v # None /\ ~IsError(v)
           /\ state' = [state EXCEPT ![t] = Returning(v)]
           /\ stack' = [stack EXCEPT ![t] = s]
           /\ Continue(t) /\ UNCHANGED <<queue, type, dest>>
  <2>1. ItemTypes'
    BY <1>3, <1>8 DEF Types, ItemTypes
  <2>2. StateOK(Returning(v))
    <3>1. v \in Values
      BY <1>2, <1>8, ValueForms DEF ValueNow, Types, ItemTypes
    <3> HIDE DEF v
    <3> QED BY <1>8, <3>1, ValueForms, StateForms DEF StateOK
  <2>3. pool' \in PoolRecords /\ pool'.at = "run" /\ pool'.thread = t
    <3>1. pool' = At("run", t)
      BY <1>8 DEF Continue
    <3> HIDE DEF t
    <3> QED BY <1>1, <1>4, <3>1, PoolForms
  <2>4. t = pool.thread
    OBVIOUS
  <2> HIDE DEF s, v, i, t
  <2> QED BY <1>1, <1>2, <1>3, <1>8, <2>1, <2>2, <2>3, <2>4, RunGoesOn
<1>9. CASE /\ v # None /\ IsError(v)
           /\ pool' = [At("fail", t) EXCEPT !.err = v]
           /\ stack' = [stack EXCEPT ![t] = s]
           /\ UNCHANGED <<queue, type, dest, state>>
  <2>1. ItemTypes'
    BY <1>3, <1>9 DEF Types, ItemTypes
  <2>2. state' = [state EXCEPT ![t] = state[t]]
    BY <1>1, <1>9 DEF Types, ThreadTypes
  <2>3. v \in Values
    BY <1>2, <1>9, ValueForms DEF ValueNow, Types, ItemTypes
  <2>4. t = pool.thread
    OBVIOUS
  <2>5. pool' \in PoolRecords /\ pool'.at = "fail" /\ pool'.thread = t /\ pool'.err = v
    <3>1. pool' = [At("fail", t) EXCEPT !.err = v]
      BY <1>9
    <3> HIDE DEF t, v
    <3> QED BY <1>1, <1>4, <2>3, <3>1, PoolForms
  <2> HIDE DEF s, v, i, t
  <2> QED BY <1>1, <1>2, <1>3, <1>9, <2>1, <2>2, <2>3, <2>4, <2>5, RunGoesOn
<1> QED BY <1>5, <1>6, <1>7, <1>8, <1>9 DEF Enter

\* It comes to the end of an item's code: the invariant is preserved.
LEMMA FinishStepTypes ==
  ASSUME Types, RunThread, Finish(pool.thread)
  PROVE  Types'
<1> DEFINE t == pool.thread
           i == Item(t)
           s == Rest(t)
<1>1. /\ t \in Threads /\ life[t] = "active" /\ Bottomed(stack[t]) /\ StackOK(stack[t])
      /\ StateOK(state[t])
      /\ pool.at \in {"turn", "run", "fail"}
  BY Running DEF RunThread
<1>2. i \in Items /\ StackOK(s) /\ Bottomed(s)
  BY <1>1, RunFacts DEF Finish, Types
<1>3. UNCHANGED <<queue, code, type, dest, asked, cursor, client, answer>>
  BY DEF RunThread, Finish, fixed
<1>4. "run" \in Places /\ "fail" \in Places
  BY DEF Places
<1>5. ItemTypes'
  BY <1>3 DEF Types, ItemTypes
<1>6. t = pool.thread
  OBVIOUS
<1>7. CASE /\ state' = [state EXCEPT ![t] = Returning(Val(i))]
           /\ stack' = [stack EXCEPT ![t] = s]
           /\ Continue(t)
  <2>1. StateOK(Returning(Val(i)))
    BY <1>2, StateForms DEF StateOK
  <2> HIDE DEF t, i, s
  <2>2. pool' \in PoolRecords /\ pool'.at = "run" /\ pool'.thread = t
    BY <1>1, <1>4, <1>7, PoolForms DEF Continue
  <2> QED BY <1>1, <1>2, <1>3, <1>5, <1>6, <1>7, <2>1, <2>2, RunGoesOn
<1>8. CASE /\ pool' = [At("fail", t) EXCEPT !.err = Err(i)]
           /\ stack' = [stack EXCEPT ![t] = s]
           /\ UNCHANGED state
  <2>1. state' = [state EXCEPT ![t] = state[t]]
    BY <1>1, <1>8 DEF Types, ThreadTypes
  <2>2. Err(i) \in Values /\ IsError(Err(i))
    BY <1>2, ValueForms
  <2> HIDE DEF t, i, s
  <2>3. pool' \in PoolRecords /\ pool'.at = "fail" /\ pool'.thread = t /\ pool'.err = Err(i)
    BY <1>1, <1>4, <1>8, <2>2, PoolForms
  <2> QED BY <1>1, <1>2, <1>3, <1>5, <1>6, <1>8, <2>1, <2>2, <2>3, RunGoesOn
<1> QED BY <1>7, <1>8 DEF Finish

\* Thread t is done with its last item and leaves: how the types follow.
LEMMA ThreadFinishes ==
  ASSUME Types, NEW t \in Threads, t = pool.thread, life[t] = "active",
         \A u \in Threads : life[u] # "finished",
         FinishThread(t), pool' = At("unlink", t), stack' = [stack EXCEPT ![t] = <<>>],
         ItemTypes', NEW i \in Items, type' = [type EXCEPT ![i] = "indirection"],
         UNCHANGED <<code, asked, cursor, client, answer, state>>
  PROVE  Types'
<1>1. QueueInv' /\ life' = [life EXCEPT ![t] = "finished"]
  BY FinishInv DEF Types, FinishThread
<1>2. \A u \in Threads : /\ life'[u] = IF u = t THEN "finished" ELSE life[u]
                         /\ stack'[u] = IF u = t THEN <<>> ELSE stack[u]
  BY <1>1 DEF Types, ThreadTypes, QueueInv, QueueTypeOK
<1>3. StackOK(<<>>)
  BY DEF StackOK, FramesOK
<1>4. ThreadTypes'
  <2>1. state' = [state EXCEPT ![t] = state[t]] /\ StateOK(state[t])
    BY DEF Types, ThreadTypes
  <2> QED BY <1>3, <2>1, ThreadMoves DEF Types
<1>5. pool' \in PoolRecords /\ pool'.at = "unlink" /\ pool'.thread = t
  BY PoolForms DEF Places
<1>6. PoolTypes'
  BY <1>5 DEF Types, PoolTypes, PoolRecords
<1>7. \A u \in Threads : Shape(u)'
  BY <1>2 DEF Types, Control, Shape, Live, Bottomed
<1>8. \A j \in Items : type'[j] = "thunk" => type[j] = "thunk"
  BY DEF Types, ItemTypes
<1>9. \A j \in Items : type'[j] = "thunk" => life'[j] = "unmade"
  BY <1>2, <1>8, ThreadsAreItems DEF Types, Control
<1>10. Control'
  BY <1>2, <1>5, <1>7, <1>9 DEF Control
<1> QED BY <1>1, <1>4, <1>6, <1>10 DEF Types

\* The running thread returns to an update frame: the invariant is preserved.
LEMMA ReturnStepTypes ==
  ASSUME Types, RunThread, ReturnToUpdate(pool.thread)
  PROVE  Types'
<1> DEFINE t == pool.thread
           i == Item(t)
           v == state[t][2]
           s == Below(t)
<1>1. /\ t \in Threads /\ life[t] = "active" /\ Bottomed(stack[t]) /\ StackOK(stack[t])
      /\ StateOK(state[t])
      /\ pool.at \in {"turn", "run", "fail"}
      /\ \A u \in Threads : life[u] # "finished"
  BY Running DEF RunThread
<1>2. state[t][1] = "returning" /\ Top(t).node = "update"
  BY DEF ReturnToUpdate
<1>3. /\ Top(t) = stack[t][1] /\ Top(t) \in Frames /\ code[Top(t).item].kind # "function"
      /\ StackOK(s) /\ (s = <<>> \/ Bottomed(s))
  BY <1>1, TopGone DEF Top, Below, StackOK
<1>4. i = Top(t).item /\ i \in Items
  BY <1>2, <1>3 DEF Item, Frames
<1>5. v \in Values
  BY <1>1, <1>2, StateForms, ValueForms DEF StateOK
<1>6. UNCHANGED <<code, asked, cursor, client, answer, state>>
  BY DEF RunThread, ReturnToUpdate, fixed
<1>7. UpdateItem(i, v) /\ stack' = [stack EXCEPT ![t] = s]
  BY DEF ReturnToUpdate
<1>8. ItemTypes'
  <2>1. code[i].kind # "function"
    BY <1>3, <1>4
  <2> HIDE DEF i, v
  <2> QED BY <1>4, <1>5, <1>6, <1>7, <2>1, ItemUpdated DEF Types
<1>9. type' = [type EXCEPT ![i] = "indirection"]
  BY <1>7 DEF UpdateItem
<1>10. t = pool.thread
  OBVIOUS
<1>11. CASE s = <<>>
  <2>1. FinishThread(t) /\ pool' = At("unlink", t)
    BY <1>11 DEF ReturnToUpdate
  <2> HIDE DEF t, i, s
  <2> QED BY <1>1, <1>4, <1>6, <1>7, <1>8, <1>9, <1>10, <1>11, <2>1, ThreadFinishes
<1>12. CASE s # <<>>
  <2>1. pool' = At("turn", t) /\ UNCHANGED queue
    BY <1>12 DEF ReturnToUpdate
  <2>2. state' = [state EXCEPT ![t] = state[t]]
    BY <1>1, <1>6 DEF Types, ThreadTypes
  <2> HIDE DEF t, i, s
  <2>3. pool' \in PoolRecords /\ pool'.at = "turn" /\ pool'.thread = t
    BY <1>1, <2>1, PoolForms DEF Places
  <2> QED BY <1>1, <1>2, <1>3, <1>4, <1>6, <1>7, <1>8, <1>9, <1>10, <1>12, <2>1, <2>2, <2>3, RunGoesOn
<1> QED BY <1>11, <1>12

\* A failing thread gives up an item: the invariant is preserved.
LEMMA FailStepTypes ==
  ASSUME Types, FailThread
  PROVE  Types'
<1> DEFINE t == pool.thread
           first == CHOOSE n \in Updates(stack[t]) : \A m \in Updates(stack[t]) : n <= m
           left == SubSeq(stack[t], first + 1, Len(stack[t]))
           i == stack[t][first].item
           v == pool.err
<1>1. /\ t \in Threads /\ life[t] = "active" /\ Bottomed(stack[t]) /\ StackOK(stack[t])
      /\ StateOK(state[t]) /\ pool.at = "fail"
      /\ \A u \in Threads : life[u] # "finished"
  BY Running DEF FailThread
<1>2. /\ i \in Items /\ code[i].kind # "function"
      /\ StackOK(left)
      /\ Updates(left) = {} => left = <<>>
      /\ left # <<>> => Bottomed(left)
  BY <1>1, FailFacts DEF StackOK
<1>3. /\ UpdateItem(i, v)
      /\ stack' = [stack EXCEPT ![t] = IF Updates(left) = {} THEN <<>> ELSE left]
      /\ IF Updates(left) = {}
         THEN FinishThread(t) /\ pool' = At("unlink", t)
         ELSE UNCHANGED <<queue, pool>>
      /\ UNCHANGED <<code, asked, cursor, client, answer, state>>
  BY DEF FailThread, fixed
<1>4. v \in Values /\ IsError(v)
  BY <1>1 DEF Types, Control
<1>5. t = pool.thread
  OBVIOUS
<1> HIDE DEF first, left, i, t
<1>6. ItemTypes' /\ type' = [type EXCEPT ![i] = "indirection"]
  BY <1>2, <1>3, <1>4, ItemUpdated DEF Types, UpdateItem
<1>7. CASE Updates(left) = {}
  BY <1>1, <1>2, <1>3, <1>5, <1>6, <1>7, ThreadFinishes
<1>8. CASE Updates(left) # {}
  <2>1. left # <<>>
    BY <1>8 DEF Updates
  <2>2. stack' = [stack EXCEPT ![t] = left] /\ Bottomed(left) /\ UNCHANGED <<queue, pool>>
    BY <1>2, <1>3, <1>8, <2>1
  <2>3. state' = [state EXCEPT ![t] = state[t]]
    BY <1>1, <1>3 DEF Types, ThreadTypes
  <2>4. pool' \in PoolRecords /\ pool'.at = "fail" /\ pool'.thread = t /\ pool'.err = v
    BY <1>1, <1>5, <2>2 DEF Types, PoolTypes
  <2> QED BY <1>1, <1>2, <1>3, <1>4, <1>5, <1>6, <2>2, <2>3, <2>4, RunGoesOn
<1> QED BY <1>7, <1>8

\* Every step of the evaluator preserves Types.
LEMMA TypesStep ==
  ASSUME Types, [EvalNext]_<<queue, eval>>
  PROVE  Types'
<1>1. CASE PoolStep
  BY <1>1, LooksTypes, FindUnblockedTypes, FindUnstartedTypes, PoolEnqueuesTypes, PoolUnlinksTypes,
     EnterStepTypes, FinishStepTypes, ReturnStepTypes, FailStepTypes DEF PoolStep, RunThread
<1>2. ASSUME NEW c \in Clients, ClientStep(c) PROVE Types'
  BY <1>2, ClientStartsTypes, ClientEnqueuesTypes, ClientSeesTypes DEF ClientStep
<1>3. CASE Collection
  BY <1>3, CollectionTypes
<1>4. CASE Over \/ UNCHANGED <<queue, eval>>
  <2>1. UNCHANGED <<queue, code, type, dest, state, stack, pool, cursor, client, asked, answer>>
    BY <1>4 DEF Over, eval
  <2>2. /\ ItemTypes' /\ ThreadTypes' /\ QueueInv'
        /\ \A t \in Threads : Shape(t)'
        /\ \A i \in Items : type'[i] = "thunk" => life'[i] = "unmade"
    BY <2>1, QuietStep
  <2>3. PoolTypes'
    BY <2>1 DEF Types, PoolTypes, PoolRecords
  <2>4. Control'
    BY <2>1, <2>2 DEF Types, Control, Runnable, queue
  <2> QED BY <2>2, <2>3, <2>4 DEF Types
<1> QED BY <1>1, <1>2, <1>3, <1>4 DEF EvalNext

\* Types always holds.
LEMMA TypesAlways == EvalSpec => []Types
<1>1. EvalInit => Types
  BY TypesInit, InitInv DEF Types, EvalInit
<1>2. Types /\ [EvalNext]_<<queue, eval>> => Types'
  BY TypesStep
<1> QED BY <1>1, <1>2, PTL DEF EvalSpec

\* Items, threads, the pool and the clients are always in the states eval.c and ace.c
\* know: an item leads somewhere if and only if it is an indirection, the pool's index is
\* a slot, and stacks hold nothing but continuations.
THEOREM EvalTypesHold == EvalSpec => []EvalTypeOK
<1>1. Types => EvalTypeOK
  <2> SUFFICES ASSUME Types PROVE EvalTypeOK
    OBVIOUS
  <2>1. \A t \in Threads : state[t][1] \in {"none", "entering", "returning", "blocked"}
    BY StateForms DEF Types, ThreadTypes, StateOK
  <2>2. \A t \in Threads : \A n \in 1 .. Len(stack[t]) : stack[t][n] \in Frames
    BY DEF Types, ThreadTypes, StackOK
  <2>3. pool.at \in {"find", "turn", "run", "enqueue", "fail", "unlink", "advance", "left"}
        /\ {pool.thread, pool.new} \subseteq Threads \cup {NoThread}
    BY DEF Types, PoolTypes, PoolRecords, Places
  <2> QED BY <2>1, <2>2, <2>3 DEF Types, ItemTypes, PoolTypes, QueueInv, EvalTypeOK
<1> QED BY <1>1, TypesAlways, PTL

-----------------------------------------------------------------------------
(* Reachability, and who evaluates what *)

\* Stacks share no item, and hold none but items under evaluation.
Exclusive ==
  /\ \A t \in Threads : Once(stack[t])
  /\ \A t, u \in Threads : t # u => ItemsIn(stack[t]) \cap ItemsIn(stack[u]) = {}
  /\ \A t \in Threads : \A i \in ItemsIn(stack[t]) : type[i] = "eval"

\* None of these that may still be needed is lost.
Kept == \A i \in Reachable : type[i] = "eval" => \E t \in Threads : i \in ItemsIn(stack[t])

\* The inductive invariant for OneEvaluator.
Evals == Types /\ Exclusive /\ Kept

\* What a thread in state x with stack s still has to do for item i.
Ahead(x, s, i) == Wants(x) \cup UNION {NeedsFrom(f.item, f.k + 1) : f \in Above(s, i)}

\* What an item needs are items.
LEMMA NeedsAreItems ==
  ASSUME code \in Programs, NEW i \in Items, NEW k \in Nat \ {0}
  PROVE  NeedsFrom(i, k) \subseteq Items
<1>1. Len(code[i].needs) \in Nat /\ \A l \in 1 .. Len(code[i].needs) : code[i].needs[l] \in Items
  BY CodeFacts
<1>2. \A l \in k .. Len(code[i].needs) : l \in 1 .. Len(code[i].needs)
  BY <1>1
<1> QED BY <1>1, <1>2 DEF NeedsFrom

\* Where an item leads: an item under evaluation to what is ahead of its thread.
LeadsAhead(i) == /\ type[i] = "thunk" => Leads(i) = NeedsFrom(i, 1)
         /\ type[i] # "thunk" =>
              Leads(i) = UNION {Ahead(state[t], stack[t], i) :
                                   t \in {u \in Threads : i \in ItemsIn(stack[u])}}

\* Leads, said with Ahead.
LEMMA LeadsForm ==
  \A i \in Items : LeadsAhead(i)
<1> SUFFICES ASSUME NEW i \in Items PROVE LeadsAhead(i)
  OBVIOUS
<1>1. type[i] = "thunk" => Leads(i) = NeedsFrom(i, 1)
  BY DEF Leads
<1>2. ASSUME type[i] # "thunk"
      PROVE  Leads(i) = UNION {Ahead(state[t], stack[t], i) :
                                   t \in {u \in Threads : i \in ItemsIn(stack[u])}}
  <2>1. Leads(i) = UNION {UNION {Mentions(t, n) : n \in {m \in Updates(stack[t]) : stack[t][m].item = i}} :
                t \in Threads}
    BY <1>2 DEF Leads
  <2>2. ASSUME NEW t \in Threads
        PROVE  UNION {Mentions(t, n) : n \in {m \in Updates(stack[t]) : stack[t][m].item = i}}
               = IF i \in ItemsIn(stack[t]) THEN Ahead(state[t], stack[t], i) ELSE {}
    <3> DEFINE s == stack[t]
               places == {m \in Updates(s) : s[m].item = i}
    <3>1. i \in ItemsIn(s) <=> places # {}
      BY DEF ItemsIn
    <3>2. ASSUME NEW n \in places PROVE Mentions(t, n) \subseteq Ahead(state[t], s, i)
      <4>1. ASSUME NEW l \in 1 .. n, s[l].node = "resume"
            PROVE  s[l] \in Above(s, i)
        <5>1. n \in 1 .. Len(s)
          BY DEF Updates
        <5> QED BY <4>1, <5>1 DEF Above
      <4> QED BY <4>1 DEF Mentions, Ahead
    <3>3. ASSUME places # {} PROVE Ahead(state[t], s, i) \subseteq UNION {Mentions(t, n) : n \in places}
      <4>1. ASSUME NEW f \in Above(s, i)
            PROVE  \E n \in places : NeedsFrom(f.item, f.k + 1) \subseteq Mentions(t, n)
        <5>1. PICK l \in 1 .. Len(s) : f = s[l] /\ s[l].node = "resume" /\ \E n \in Updates(s) : l <= n /\ s[n].item = i
          BY DEF Above
        <5>2. PICK n \in places : l <= n
          BY <5>1
        <5>3. l \in 1 .. n
          BY <5>2 DEF Updates
        <5> QED BY <5>1, <5>3 DEF Mentions
      <4>2. \A n \in places : Wants(state[t]) \subseteq Mentions(t, n)
        BY DEF Mentions
      <4> HIDE DEF places
      <4>3. Wants(state[t]) \subseteq UNION {Mentions(t, n) : n \in places}
        BY <3>3, <4>2
      <4> QED BY <4>1, <4>3 DEF Ahead
    <3> HIDE DEF places
    <3>4. UNION {Mentions(t, n) : n \in places} = IF i \in ItemsIn(s) THEN Ahead(state[t], s, i) ELSE {}
      BY <3>1, <3>2, <3>3
    <3> QED BY <3>4 DEF places
  <2> QED BY <2>1, <2>2
<1> QED BY <1>1, <1>2 DEF LeadsAhead

\* The same in the next state.
LEMMA LeadsFormNext ==
  (\A i \in Items : LeadsAhead(i))'
BY LeadsForm, PTL

\* What a thread still has to do are items.
LEMMA AheadAreItems ==
  ASSUME ItemTypes, NEW x, StateOK(x), NEW s, StackOK(s), NEW i
  PROVE  Ahead(x, s, i) \subseteq Items
<1>1. Wants(x) \subseteq Items
  BY StateForms, NeedsAreItems DEF Wants, StateOK, ItemTypes
<1>2. ASSUME NEW f \in Above(s, i) PROVE NeedsFrom(f.item, f.k + 1) \subseteq Items
  <2>1. f \in Frames
    BY DEF Above, StackOK
  <2>2. f.item \in Items /\ f.k + 1 \in Nat \ {0}
    BY <2>1 DEF Frames
  <2> QED BY <2>2, NeedsAreItems DEF ItemTypes
<1> QED BY <1>1, <1>2 DEF Ahead

\* What can be reached has what the clients ask for, and what it leads to.
LEMMA ReachClosed ==
  ASSUME Types
  PROVE  /\ Reachable \subseteq Items
         /\ \A c \in Clients : client[c] # "done" => asked[c] \in Reachable
         /\ \A i \in Reachable : Leads(i) \subseteq Reachable
<1>1. Reachable \subseteq Items
  BY DEF Reachable
<1>2. \A c \in Clients : client[c] # "done" => asked[c] \in Reachable
  BY DEF Reachable, Closed, Types, PoolTypes
<1>3. ASSUME NEW i \in Items PROVE Leads(i) \subseteq Items
  <2>1. CASE type[i] = "thunk"
    <3>1. NeedsFrom(i, 1) \subseteq Items
      <4>1. code \in Programs
        BY DEF Types, ItemTypes
      <4>2. \A k \in Nat \ {0} : NeedsFrom(i, k) \subseteq Items
        BY <4>1, NeedsAreItems
      <4> QED BY <4>2
    <3> QED BY <2>1, <3>1 DEF Leads
  <2>2. CASE type[i] # "thunk"
    BY <2>2, LeadsForm, AheadAreItems DEF Types, ThreadTypes, LeadsAhead
  <2> QED BY <2>1, <2>2
<1>4. ASSUME NEW i \in Reachable, NEW j \in Leads(i) PROVE j \in Reachable
  <2>1. i \in Items /\ j \in Items
    BY <1>1, <1>3
  <2>2. ASSUME NEW S \in SUBSET Items, Closed(S) PROVE j \in S
    BY <2>1, <2>2 DEF Reachable, Closed
  <2> QED BY <2>1, <2>2 DEF Reachable
<1> QED BY <1>1, <1>2, <1>4

\* Nothing new is reached when no client asks for more and no thread that is reached gets
\* anything new ahead of it.
LEMMA ReachShrinks ==
  ASSUME Types, Exclusive, UNCHANGED <<code, asked>>,
         \A c \in Clients : client'[c] # "done" => client[c] # "done",
         \A i \in Items : type'[i] = "thunk" => type[i] = "thunk",
         NEW R, R = Reachable,
         \A t \in Threads : \A i \in R \cap ItemsIn(stack'[t]) : Ahead(state'[t], stack'[t], i) \subseteq R
  PROVE  Reachable' \subseteq R
<1>1. /\ R \subseteq Items
      /\ \A c \in Clients : client[c] # "done" => asked[c] \in R
      /\ \A i \in R : Leads(i) \subseteq R
  BY ReachClosed
<1>2. ASSUME NEW i \in R PROVE Leads(i)' \subseteq R
  <2>0. i \in Items
    BY <1>1
  <2>1. CASE type'[i] = "thunk"
    <3>1. Leads(i)' = NeedsFrom(i, 1)' /\ NeedsFrom(i, 1)' = NeedsFrom(i, 1) /\ Leads(i) = NeedsFrom(i, 1)
      BY <2>0, <2>1 DEF Leads, NeedsFrom
    <3> QED BY <1>1, <3>1
  <2>2. CASE type'[i] # "thunk"
    <3>1. \A x, s : Ahead(x, s, i)' = Ahead(x, s, i)
      BY DEF Ahead, Wants, Above, NeedsFrom, Updates
    <3>2. \A s : ItemsIn(s)' = ItemsIn(s)
      BY DEF ItemsIn, Updates
    <3>3. Leads(i)' = UNION {Ahead(state[t], stack[t], i)' :
                                   t \in {u \in Threads : i \in ItemsIn(stack[u])'}}
      BY <2>0, <2>2, LeadsFormNext DEF LeadsAhead
    <3>4. \A t \in Threads : i \in ItemsIn(stack[t])' => Ahead(state[t], stack[t], i)' \subseteq R
      BY DEF Ahead, Wants, Above, NeedsFrom, Updates, ItemsIn
    <3> QED BY <3>3, <3>4
  <2> QED BY <2>1, <2>2
<1>3. Closed(R)'
  BY <1>1, <1>2 DEF Closed
<1> QED BY <1>1, <1>3 DEF Reachable

\* Reached items stay on the stacks if each item that is still under evaluation does.
LEMMA KeptStep ==
  ASSUME Evals, Reachable' \subseteq Reachable,
         \A i \in Reachable : type'[i] = "eval" =>
           \/ type[i] = "eval" /\ \A t \in Threads : i \in ItemsIn(stack[t]) => \E u \in Threads : i \in ItemsIn(stack'[u])
           \/ \E u \in Threads : i \in ItemsIn(stack'[u])
  PROVE  Kept'
<1>1. \A s : ItemsIn(s)' = ItemsIn(s)
  BY DEF ItemsIn, Updates
<1>2. \A t \in Threads : ItemsIn(stack[t])' = ItemsIn(stack'[t])
  BY DEF ItemsIn, Updates
<1> QED BY <1>1, <1>2 DEF Evals, Kept

\* Thread t goes on with state x and stack s, evaluates nothing that others do, and has
\* nothing ahead of it but what can be reached already.
LEMMA EvalsMove ==
  ASSUME Evals, Types', NEW t \in Threads, NEW x, NEW s,
         state' = [state EXCEPT ![t] = x], stack' = [stack EXCEPT ![t] = s],
         UNCHANGED <<code, asked>>,
         \A c \in Clients : client'[c] # "done" => client[c] # "done",
         Once(s),
         \A j \in ItemsIn(s) : type'[j] = "eval"
              /\ (j \in ItemsIn(stack[t]) \/ \A u \in Threads : j \notin ItemsIn(stack[u])),
         \A j \in Items : type'[j] = "thunk" => type[j] = "thunk",
         \A j \in Items : type'[j] = "eval" => type[j] = "eval" \/ j \in ItemsIn(s),
         \A j \in ItemsIn(stack[t]) : type'[j] = "eval" => j \in ItemsIn(s),
         \A j \in Items : type[j] = "eval" => type'[j] = "eval" \/ j \in ItemsIn(stack[t]),
         \A j \in Reachable \cap ItemsIn(s) : Ahead(x, s, j) \subseteq Reachable
  PROVE  Evals'
<1>1. \A u \in Threads : /\ state'[u] = IF u = t THEN x ELSE state[u]
                         /\ stack'[u] = IF u = t THEN s ELSE stack[u]
  BY DEF Evals, Types, ThreadTypes
<1>2. \A u \in Threads : /\ ItemsIn(stack[u])' = ItemsIn(stack'[u])
                         /\ Once(stack[u])' <=> Once(stack'[u])
  BY DEF ItemsIn, Updates, Once
<1>3. ASSUME NEW u \in Threads, u # t, NEW j \in ItemsIn(stack[u])
      PROVE  j \notin ItemsIn(stack[t]) /\ j \notin ItemsIn(s) /\ type'[j] = "eval"
  <2>1. j \notin ItemsIn(stack[t]) /\ type[j] = "eval"
    BY <1>3 DEF Evals, Exclusive
  <2>2. j \in Items
    <3>1. stack[u] \in Seq(Frames)
      BY DEF Evals, Types, ThreadTypes, StackOK
    <3> QED BY <3>1 DEF ItemsIn, Updates, Frames
  <2> QED BY <2>1, <2>2
<1>4. Exclusive'
  <2>1. \A u \in Threads : Once(stack'[u])
    BY <1>1 DEF Evals, Exclusive
  <2>2. \A u, v \in Threads : u # v => ItemsIn(stack'[u]) \cap ItemsIn(stack'[v]) = {}
    BY <1>1, <1>3 DEF Evals, Exclusive
  <2>3. \A u \in Threads : \A i \in ItemsIn(stack'[u]) : type'[i] = "eval"
    BY <1>1, <1>3
  <2> QED BY <1>2, <2>1, <2>2, <2>3 DEF Exclusive
<1>5. ASSUME NEW u \in Threads, NEW j \in Reachable \cap ItemsIn(stack'[u])
      PROVE  Ahead(state'[u], stack'[u], j) \subseteq Reachable
  <2>1. CASE u = t
    BY <1>1, <2>1
  <2>2. CASE u # t
    <3>1. stack'[u] = stack[u] /\ state'[u] = state[u] /\ type[j] = "eval" /\ j \in Items
      BY <1>1, <2>2, ReachClosed DEF Evals, Exclusive
    <3>2. Ahead(state[u], stack[u], j) \subseteq Leads(j)
      BY <3>1, LeadsForm DEF LeadsAhead
    <3> QED BY <3>1, <3>2, ReachClosed DEF Evals
  <2> QED BY <2>1, <2>2
<1>6. Reachable' \subseteq Reachable
  BY <1>5, ReachShrinks DEF Evals
<1>7. Kept'
  <2>1. \A i \in Reachable : i \in Items
    BY ReachClosed DEF Evals
  <2>2. ASSUME NEW i \in Reachable, type'[i] = "eval", NEW u \in Threads, i \in ItemsIn(stack[u])
        PROVE  \E v \in Threads : i \in ItemsIn(stack'[v])
    <3>1. u = t => i \in ItemsIn(s)
      BY <2>2
    <3>2. i \in ItemsIn(stack'[u])
      BY <1>1, <2>2, <3>1
    <3> QED BY <3>2
  <2> QED BY <1>1, <1>6, <2>1, <2>2, KeptStep
<1> QED BY <1>4, <1>7 DEF Evals

\* What the running thread may yet need is ahead of it, for every item it evaluates.
LEMMA RunWants ==
  ASSUME Types, NEW t \in Threads, Bottomed(stack[t]), Runs(t), NEW j \in ItemsIn(stack[t])
  PROVE  NeedsFrom(Item(t), Done(t) + 1) \subseteq Ahead(state[t], stack[t], j)
<1>1. CASE state[t][1] = "entering"
  BY <1>1 DEF Item, Done, Ahead, Wants
<1>2. CASE state[t][1] # "entering"
  <2> DEFINE s == stack[t]
  <2>1. s \in Seq(Frames) /\ FramesOK(s)
    BY DEF Types, ThreadTypes, StackOK
  <2>2. Head(s) = s[1] /\ 1 \in 1 .. Len(s)
    BY <2>1, TopGone DEF Bottomed
  <2>3. s[1].node = "resume" /\ Item(t) = s[1].item /\ Done(t) = s[1].k
    BY <1>2, <2>2 DEF Runs, Item, Done, Top
  <2>4. PICK n \in Updates(s) : s[n].item = j
    BY DEF ItemsIn
  <2>5. 1 <= n
    BY <2>1, <2>4 DEF Updates
  <2>6. s[1] \in Above(s, j)
    BY <2>2, <2>3, <2>4, <2>5 DEF Above
  <2> QED BY <2>3, <2>6 DEF Ahead
<1> QED BY <1>1, <1>2

-----------------------------------------------------------------------------
(* The steps, again *)

\* What is under evaluation on a stack are items.
LEMMA ItemsInTypes ==
  ASSUME Types, NEW t \in Threads
  PROVE  ItemsIn(stack[t]) \subseteq Items
<1>1. stack[t] \in Seq(Frames)
  BY DEF Types, ThreadTypes, StackOK
<1> QED BY <1>1 DEF ItemsIn, Updates, Frames

\* What is ahead of a thread that evaluates a reached item is reached.
LEMMA AheadReachable ==
  ASSUME Evals, NEW t \in Threads, NEW j \in Reachable \cap ItemsIn(stack[t])
  PROVE  Ahead(state[t], stack[t], j) \subseteq Reachable
<1>1. j \in Items /\ type[j] = "eval"
  BY ReachClosed DEF Evals, Exclusive
<1>2. Ahead(state[t], stack[t], j) \subseteq Leads(j)
  BY <1>1, LeadsForm DEF LeadsAhead
<1> QED BY <1>2, ReachClosed DEF Evals

\* A step that touches no item, no thread and no stack preserves Evals.
LEMMA EvalsSame ==
  ASSUME Evals, Types', UNCHANGED <<code, asked, type, state, stack>>,
         \A c \in Clients : client'[c] # "done" => client[c] # "done"
  PROVE  Evals'
<1>1. \A u \in Threads : /\ ItemsIn(stack[u])' = ItemsIn(stack[u])
                         /\ Once(stack[u])' <=> Once(stack[u])
  BY DEF ItemsIn, Updates, Once
<1>2. Exclusive'
  BY <1>1 DEF Evals, Exclusive
<1>3. \A u \in Threads : \A j \in Reachable \cap ItemsIn(stack'[u]) : Ahead(state'[u], stack'[u], j) \subseteq Reachable
  BY AheadReachable
<1>4. Reachable' \subseteq Reachable
  BY <1>3, ReachShrinks DEF Evals
<1>5. Kept'
  BY <1>4, KeptStep
<1> QED BY <1>2, <1>5 DEF Evals

\* So does waking a blocked thread: it has less ahead of it.
LEMMA FindUnblockedEvals ==
  ASSUME Evals, Types', FindUnblocked
  PROVE  Evals'
<1> DEFINE t == threads[cursor]
           v == ValueNow(state[t][2])
<1>1. t \in Threads
  BY FoundThread DEF FindUnblocked, Evals
<1>2. UNCHANGED <<code, asked, type, stack, client>>
  BY DEF FindUnblocked, fixed
<1>3. CASE IsError(v)
  BY <1>2, <1>3, EvalsSame DEF FindUnblocked
<1>4. CASE ~IsError(v)
  <2>1. state' = [state EXCEPT ![t] = Returning(v)] /\ stack' = [stack EXCEPT ![t] = stack[t]]
    BY <1>1, <1>2, <1>4 DEF FindUnblocked, Evals, Types, ThreadTypes
  <2>2. Wants(Returning(v)) = {}
    BY DEF Wants, Returning
  <2>3. \A j \in Reachable \cap ItemsIn(stack[t]) : Ahead(Returning(v), stack[t], j) \subseteq Reachable
    BY <1>1, <2>2, AheadReachable DEF Ahead
  <2>4. Once(stack[t]) /\ \A j \in ItemsIn(stack[t]) : type[j] = "eval"
    BY <1>1 DEF Evals, Exclusive
  <2> HIDE DEF t, v
  <2> QED BY <1>1, <1>2, <2>1, <2>3, <2>4, EvalsMove
<1> QED BY <1>3, <1>4

\* What the entered item i has ahead of it.
LEMMA EntryAhead ==
  ASSUME ItemTypes, NEW i \in Items, type[i] = "thunk", NEW below, StackOK(below),
         below = <<>> \/ Bottomed(below), i \notin ItemsIn(below)
  PROVE  /\ NeedsFrom(i, 1) = Leads(i)
         /\ \A j \in Items : Ahead(EntryState(i), EntryStack(i, below), j) \subseteq
              NeedsFrom(i, 1) \cup (IF j = i THEN {} ELSE UNION {NeedsFrom(f.item, f.k + 1) : f \in Above(below, j)})
<1> DEFINE x == EntryState(i)
           r == EntryStack(i, below)
<1>1. code \in Programs /\ code[i].kind # "function" /\ below \in Seq(Frames) /\ FramesOK(below)
  BY DEF ItemTypes, StackOK
<1>2. /\ x[1] \in {"entering", "blocked"}
      /\ x[1] = "entering" => x[2] = i
      /\ x[1] = "blocked" => code[i].kind = "application" /\ x[2] = code[i].needs[1]
      /\ Above(r, i) \subseteq {Resume(i, 1)}
      /\ \A j \in Items : j # i => Above(r, j) \subseteq Above(below, j) \cup {Resume(i, 1)}
  BY <1>1, EntryFacts
<1>3. Resume(i, 1).item = i /\ Resume(i, 1).k + 1 = 2
  BY DEF Resume
<1>4. Len(code[i].needs) \in Nat /\ (code[i].kind = "application" => Len(code[i].needs) >= 1)
  BY <1>1, CodeFacts
<1>5. NeedsFrom(i, 2) \subseteq NeedsFrom(i, 1)
  <2>1. \A l \in 2 .. Len(code[i].needs) : l \in 1 .. Len(code[i].needs)
    BY <1>4
  <2> QED BY <2>1 DEF NeedsFrom
<1>6. code[i].kind = "application" => code[i].needs[1] \in NeedsFrom(i, 1)
  <2>1. code[i].kind = "application" => 1 \in 1 .. Len(code[i].needs)
    BY <1>4
  <2> QED BY <2>1 DEF NeedsFrom
<1>7. Wants(x) \subseteq NeedsFrom(i, 1)
  <2>1. CASE x[1] = "entering"
    BY <1>2, <2>1 DEF Wants
  <2>2. CASE x[1] = "blocked"
    <3>1. Wants(x) = {x[2]}
      BY <2>2 DEF Wants
    <3> QED BY <1>2, <1>6, <2>2, <3>1
  <2> QED BY <1>2, <2>1, <2>2
<1>8. NeedsFrom(i, 1) = Leads(i)
  BY DEF Leads
<1> HIDE DEF x, r
<1>9. ASSUME NEW j \in Items
      PROVE  Ahead(x, r, j) \subseteq NeedsFrom(i, 1) \cup (IF j = i THEN {} ELSE UNION {NeedsFrom(f.item, f.k + 1) : f \in Above(below, j)})
  BY <1>2, <1>3, <1>5, <1>7 DEF Ahead
<1> QED BY <1>8, <1>9 DEF x, r

\* Nobody evaluates an item that is not under evaluation.
LEMMA ThunkFree ==
  ASSUME Exclusive, NEW i, type[i] # "eval"
  PROVE  \A u \in Threads : i \notin ItemsIn(stack[u])
BY DEF Exclusive

\* Nothing is evaluated on an empty stack.
LEMMA EmptyFacts ==
  <<>> \in Seq(Frames) /\ FramesOK(<<>>) /\ Once(<<>>) /\ ItemsIn(<<>>) = {} /\ StackOK(<<>>)
<1>1. Len(<<>>) = 0 /\ <<>> \in Seq(Frames)
  OBVIOUS
<1>2. Updates(<<>>) = {}
  BY <1>1 DEF Updates
<1>3. FramesOK(<<>>)
  BY <1>1 DEF FramesOK
<1> QED BY <1>1, <1>2, <1>3 DEF Once, ItemsIn, StackOK

\* A new thread evaluates its item, and nobody else does.
LEMMA StartEvals ==
  ASSUME Evals, Types', NEW i \in Items, StartEvaluation(i), UNCHANGED <<code, asked>>,
         \A c \in Clients : client'[c] # "done" => client[c] # "done"
  PROVE  Evals'
<1> DEFINE x == EntryState(i)
           s == EntryStack(i, <<>>)
<1>1. /\ i \in Threads /\ life[i] = "unmade" /\ type[i] = "thunk"
      /\ type' = [type EXCEPT ![i] = "eval"]
      /\ state' = [state EXCEPT ![i] = x] /\ stack' = [stack EXCEPT ![i] = s]
  BY DEF StartEvaluation, AllocThread, EnterClosure
<1>2. stack[i] = <<>>
  BY <1>1 DEF Evals, Types, Control, Shape, Live
<1>3. /\ code \in Programs /\ code[i].kind # "function"
      /\ <<>> \in Seq(Frames) /\ FramesOK(<<>>) /\ Once(<<>>) /\ ItemsIn(<<>>) = {} /\ StackOK(<<>>)
  <2>1. code \in Programs /\ code[i].kind # "function"
    BY <1>1 DEF Evals, Types, ItemTypes
  <2> QED BY <2>1, EmptyFacts
<1>4. ItemsIn(s) = {i} /\ Once(s)
  <2>1. PICK b : b = <<>>
    OBVIOUS
  <2>2. b \in Seq(Frames) /\ FramesOK(b) /\ Once(b) /\ ItemsIn(b) = {}
    BY <1>3, <2>1
  <2>3. /\ ItemsIn(EntryStack(i, b)) = ItemsIn(b) \cup {i}
        /\ Once(b) /\ i \notin ItemsIn(b) => Once(EntryStack(i, b))
    BY <1>3, <2>1, <2>2, EntryFacts
  <2>4. ItemsIn(EntryStack(i, b)) = {i} /\ Once(EntryStack(i, b))
    BY <2>2, <2>3
  <2> QED BY <2>1, <2>4
<1>5. \A u \in Threads : i \notin ItemsIn(stack[u])
  BY <1>1, ThunkFree DEF Evals
<1>6. Ahead(x, s, i) \subseteq Leads(i)
  BY <1>1, <1>3, EntryAhead DEF Evals, Types
<1>7. \A j \in Reachable \cap ItemsIn(s) : Ahead(x, s, j) \subseteq Reachable
  BY <1>4, <1>6, ReachClosed DEF Evals
<1>8. \A j \in Items : type'[j] = IF j = i THEN "eval" ELSE type[j]
  BY <1>1 DEF Evals, Types, ItemTypes
<1>9. ItemsIn(stack[i]) = {}
  BY <1>2, <1>3
<1>10. \A j \in ItemsIn(s) : type'[j] = "eval" /\ \A u \in Threads : j \notin ItemsIn(stack[u])
  BY <1>4, <1>5, <1>8
<1>11. /\ \A j \in Items : type'[j] = "thunk" => type[j] = "thunk"
       /\ \A j \in Items : type'[j] = "eval" => type[j] = "eval" \/ j \in ItemsIn(s)
       /\ \A j \in Items : type[j] = "eval" => type'[j] = "eval"
  BY <1>4, <1>8
<1> HIDE DEF x, s
<1> QED BY <1>1, <1>4, <1>7, <1>9, <1>10, <1>11, EvalsMove

\* The pool starts what a thread is blocked on: Evals is preserved.
LEMMA PoolFindsEvals ==
  ASSUME Evals, Types', FindUnstarted
  PROVE  Evals'
<1> DEFINE t == threads[cursor]
           i == state[t][2]
<1>1. t \in Threads
  BY FoundThread DEF FindUnstarted, Evals
<1>2. i \in Items
  BY <1>1, StateForms DEF FindUnstarted, Evals, Types, ThreadTypes, StateOK
<1> QED BY <1>2, StartEvals DEF FindUnstarted, fixed

\* The steps of the clients preserve Evals.
LEMMA ClientEvals ==
  ASSUME Evals, Types', NEW c \in Clients, ClientStep(c)
  PROVE  Evals'
<1>0. client \in [Clients -> {"ask", "enqueue", "done"}] /\ asked[c] \in Items
  BY DEF Evals, Types, PoolTypes
<1>1. CASE ClientStarts(c)
  BY <1>0, <1>1, StartEvals DEF ClientStarts, fixed
<1>2. CASE ClientEnqueues(c)
  BY <1>0, <1>2, EvalsSame DEF ClientEnqueues, fixed
<1>3. CASE ClientSees(c)
  BY <1>0, <1>3, EvalsSame DEF ClientSees, fixed
<1> QED BY <1>1, <1>2, <1>3 DEF ClientStep

\* What the running thread enters, and what it still has to do after it, can be reached
\* with any of the items that it evaluates.
LEMMA PushedAhead ==
  ASSUME Evals, NEW t \in Threads, Bottomed(stack[t]), Runs(t), Done(t) < Len(Needs(t)),
         NEW j \in Reachable \cap ItemsIn(stack[t])
  PROVE  /\ NextNeed(t) \in Reachable
         /\ Wants(state[t]) \subseteq Reachable
         /\ \A f \in Above(Pushed(t), j) : NeedsFrom(f.item, f.k + 1) \subseteq Reachable
<1>1. Ahead(state[t], stack[t], j) \subseteq Reachable
  BY AheadReachable
<1>2. NeedsFrom(Item(t), Done(t) + 1) \subseteq Reachable
  BY <1>1, RunWants DEF Evals
<1>3. /\ Len(Needs(t)) \in Nat /\ Done(t) \in 0 .. Len(Needs(t))
  BY RunFacts DEF Evals, Types
<1>4. NextNeed(t) \in Reachable
  <2>1. Done(t) + 1 \in Done(t) + 1 .. Len(Needs(t))
    BY <1>3
  <2> QED BY <1>2, <2>1 DEF NeedsFrom, NextNeed, Needs
<1>5. NeedsFrom(Item(t), Done(t) + 2) \subseteq Reachable
  <2>1. \A l \in Done(t) + 2 .. Len(Needs(t)) : l \in Done(t) + 1 .. Len(Needs(t))
    BY <1>3
  <2> QED BY <1>2, <2>1 DEF NeedsFrom, Needs
<1>6. Above(Pushed(t), j) \subseteq Above(stack[t], j) \cup {Resume(Item(t), Done(t) + 1)}
  <2>1. j \in Items
    BY ReachClosed DEF Evals
  <2> QED BY <2>1, PushedFacts DEF Evals, Types
<1>7. Resume(Item(t), Done(t) + 1).item = Item(t) /\ Resume(Item(t), Done(t) + 1).k + 1 = Done(t) + 2
  BY <1>3 DEF Resume
<1>8. ASSUME NEW f \in Above(Pushed(t), j) PROVE NeedsFrom(f.item, f.k + 1) \subseteq Reachable
  <2>1. CASE f \in Above(stack[t], j)
    BY <1>1, <2>1 DEF Ahead
  <2>2. CASE f = Resume(Item(t), Done(t) + 1)
    BY <1>5, <1>7, <2>2
  <2> QED BY <1>6, <2>1, <2>2
<1>9. Wants(state[t]) \subseteq Reachable
  BY <1>1 DEF Ahead
<1> QED BY <1>4, <1>8, <1>9

\* An item on which thread t works gets its value, and leaves the stack.
LEMMA UpdateEvals ==
  ASSUME Evals, Types', NEW t \in Threads, NEW i \in Items, NEW s,
         ItemsIn(stack[t]) = ItemsIn(s) \cup {i}, i \notin ItemsIn(s), Once(s),
         \A j \in Items : Above(s, j) \subseteq Above(stack[t], j),
         type' = [type EXCEPT ![i] = "indirection"], stack' = [stack EXCEPT ![t] = s],
         UNCHANGED <<state, code, asked, client>>
  PROVE  Evals'
<1>1. \A j \in Items : type'[j] = IF j = i THEN "indirection" ELSE type[j]
  BY DEF Evals, Types, ItemTypes
<1>2. ItemsIn(stack[t]) \subseteq Items /\ \A j \in ItemsIn(stack[t]) : type[j] = "eval"
  BY ItemsInTypes DEF Evals, Exclusive
<1>3. state' = [state EXCEPT ![t] = state[t]]
  BY DEF Evals, Types, ThreadTypes
<1>4. \A j \in ItemsIn(s) : type'[j] = "eval" /\ j \in ItemsIn(stack[t])
  BY <1>1, <1>2
<1>5. ASSUME NEW j \in Reachable \cap ItemsIn(s) PROVE Ahead(state[t], s, j) \subseteq Reachable
  <2>1. j \in Items /\ Ahead(state[t], stack[t], j) \subseteq Reachable
    BY <1>2, <1>4, <1>5, AheadReachable
  <2>2. Above(s, j) \subseteq Above(stack[t], j)
    BY <2>1
  <2>3. Ahead(state[t], s, j) \subseteq Ahead(state[t], stack[t], j)
    BY <2>2 DEF Ahead
  <2> QED BY <2>1, <2>3
<1>6. /\ \A j \in Items : type'[j] = "thunk" => type[j] = "thunk"
      /\ \A j \in Items : type'[j] = "eval" => type[j] = "eval"
      /\ \A j \in Items : type[j] = "eval" => type'[j] = "eval" \/ j \in ItemsIn(stack[t])
      /\ \A j \in ItemsIn(stack[t]) : type'[j] = "eval" => j \in ItemsIn(s)
  BY <1>1, <1>2
<1> QED BY <1>3, <1>4, <1>5, <1>6, EvalsMove

\* Returning to an update frame preserves Evals.
LEMMA ReturnEvals ==
  ASSUME Evals, Types', RunThread, ReturnToUpdate(pool.thread)
  PROVE  Evals'
<1> DEFINE t == pool.thread
           i == Item(t)
           s == Below(t)
<1>1. t \in Threads /\ Bottomed(stack[t]) /\ StackOK(stack[t])
  BY Running DEF RunThread, Evals
<1>2. state[t][1] = "returning" /\ Top(t).node = "update"
  BY DEF ReturnToUpdate
<1>3. Once(stack[t])
  BY <1>1 DEF Evals, Exclusive
<1>4. i = stack[t][1].item /\ stack[t][1] \in Frames /\ stack[t][1].node = "update"
  BY <1>1, <1>2, TopGone DEF Item, Top, StackOK
<1>5. /\ Once(s)
      /\ \A j \in Items : Above(s, j) \subseteq Above(stack[t], j)
      /\ ItemsIn(stack[t]) = ItemsIn(s) \cup {i}
      /\ i \notin ItemsIn(s)
  BY <1>1, <1>3, <1>4, TopGone DEF Below, StackOK
<1>6. i \in Items
  BY <1>4 DEF Frames
<1>7. /\ type' = [type EXCEPT ![i] = "indirection"] /\ stack' = [stack EXCEPT ![t] = s]
      /\ UNCHANGED <<state, code, asked, client>>
  BY DEF RunThread, ReturnToUpdate, UpdateItem, fixed
<1> HIDE DEF t, i, s
<1> QED BY <1>1, <1>5, <1>6, <1>7, UpdateEvals

\* So does giving up an item,
LEMMA FailEvals ==
  ASSUME Evals, Types', FailThread
  PROVE  Evals'
<1> DEFINE t == pool.thread
           first == CHOOSE n \in Updates(stack[t]) : \A m \in Updates(stack[t]) : n <= m
           left == SubSeq(stack[t], first + 1, Len(stack[t]))
           i == stack[t][first].item
           s == IF Updates(left) = {} THEN <<>> ELSE left
<1>1. t \in Threads /\ Bottomed(stack[t]) /\ StackOK(stack[t])
  BY Running DEF FailThread, Evals
<1>2. Once(stack[t])
  BY <1>1 DEF Evals, Exclusive
<1>3. /\ i \in Items
      /\ ItemsIn(stack[t]) = ItemsIn(left) \cup {i}
      /\ Once(left)
      /\ i \notin ItemsIn(left)
      /\ \A j \in Items : Above(left, j) \subseteq Above(stack[t], j)
      /\ Updates(left) = {} => left = <<>>
  BY <1>1, <1>2, FailFacts DEF StackOK
<1>4. /\ type' = [type EXCEPT ![i] = "indirection"] /\ stack' = [stack EXCEPT ![t] = s]
      /\ UNCHANGED <<state, code, asked, client>>
  BY DEF FailThread, UpdateItem, fixed
<1>5. s = left
  BY <1>3
<1> HIDE DEF t, i, s, left
<1> QED BY <1>1, <1>3, <1>4, <1>5, UpdateEvals

\* and coming to the end of an item's code,
LEMMA FinishEvals ==
  ASSUME Evals, Types', RunThread, Finish(pool.thread)
  PROVE  Evals'
<1> DEFINE t == pool.thread
           s == Rest(t)
<1>1. t \in Threads /\ Bottomed(stack[t]) /\ Runs(t)
  BY Running DEF RunThread, Evals, Finish
<1>2. /\ ItemsIn(s) = ItemsIn(stack[t])
      /\ Once(s)
      /\ \A j \in Items : Above(s, j) \subseteq Above(stack[t], j)
  BY <1>1, RunFacts DEF Evals, Exclusive, Types
<1>3. UNCHANGED <<code, type, asked, client>> /\ stack' = [stack EXCEPT ![t] = s]
  BY DEF RunThread, Finish, fixed
<1>4. PICK x : state' = [state EXCEPT ![t] = x] /\ Wants(x) \subseteq Wants(state[t])
  <2>1. Wants(Returning(Val(Item(t)))) = {}
    BY DEF Wants, Returning
  <2>2. UNCHANGED state => state' = [state EXCEPT ![t] = state[t]]
    BY <1>1 DEF Evals, Types, ThreadTypes
  <2>3. (UNCHANGED state) \/ state' = [state EXCEPT ![t] = Returning(Val(Item(t)))]
    BY DEF Finish
  <2> QED BY <2>1, <2>2, <2>3
<1>5. ItemsIn(stack[t]) \subseteq Items /\ \A j \in ItemsIn(stack[t]) : type[j] = "eval"
  BY <1>1, ItemsInTypes DEF Evals, Exclusive
<1>6. ASSUME NEW j \in Reachable \cap ItemsIn(s) PROVE Ahead(x, s, j) \subseteq Reachable
  <2>1. j \in Items /\ Ahead(state[t], stack[t], j) \subseteq Reachable
    BY <1>1, <1>2, <1>5, AheadReachable
  <2>2. Above(s, j) \subseteq Above(stack[t], j)
    BY <1>2, <2>1
  <2> HIDE DEF s, t
  <2>3. Ahead(x, s, j) \subseteq Ahead(state[t], stack[t], j)
    BY <1>4, <2>2 DEF Ahead
  <2> QED BY <2>1, <2>3
<1> HIDE DEF s, t
<1> QED BY <1>1, <1>2, <1>3, <1>4, <1>5, <1>6, EvalsMove

\* and entering the next need, on the same stack or on that of a new thread:
\* EnterClosure asks for a thunk, and nobody evaluates a thunk.
LEMMA EnterEvals ==
  ASSUME Evals, Types', RunThread, Enter(pool.thread)
  PROVE  Evals'
<1> DEFINE t == pool.thread
           i == NextNeed(t)
           s == Pushed(t)
           v == ValueNow(i)
           room == Len(Pushed(t)) < MaxStack
<1>1. /\ t \in Threads /\ Bottomed(stack[t]) /\ Runs(t) /\ Done(t) < Len(Needs(t))
      /\ life[t] = "active"
  BY Running DEF RunThread, Evals, Enter
<1>2. /\ i \in Items /\ StackOK(s) /\ Bottomed(s) /\ ItemsIn(s) = ItemsIn(stack[t]) /\ Once(s)
  BY <1>1, PushedFacts DEF Evals, Exclusive, Types
<1>3. UNCHANGED <<code, asked, client>>
  BY DEF RunThread, fixed
<1>4. ItemsIn(stack[t]) \subseteq Items /\ \A j \in ItemsIn(stack[t]) : type[j] = "eval"
  BY <1>1, ItemsInTypes DEF Evals, Exclusive
<1>5. ASSUME NEW j \in Reachable \cap ItemsIn(s)
      PROVE  /\ i \in Reachable /\ Wants(state[t]) \subseteq Reachable
             /\ \A f \in Above(s, j) : NeedsFrom(f.item, f.k + 1) \subseteq Reachable
  BY <1>1, <1>2, <1>5, PushedAhead
<1>6. type \in [Items -> {"thunk", "eval", "indirection", "whnf"}] /\ ItemTypes /\ Exclusive /\ Types
  BY DEF Evals, Types, ItemTypes
<1>7. CASE room /\ EnterClosure(t, i, s) /\ UNCHANGED queue /\ Continue(t)
  <2> DEFINE x == EntryState(i)
             r == EntryStack(i, s)
  <2>1. /\ type[i] = "thunk"
        /\ type' = [type EXCEPT ![i] = "eval"]
        /\ state' = [state EXCEPT ![t] = x] /\ stack' = [stack EXCEPT ![t] = r]
    BY <1>7 DEF EnterClosure
  <2>2. \A u \in Threads : i \notin ItemsIn(stack[u])
    BY <2>1, <1>6, ThunkFree
  <2>3. i \notin ItemsIn(s)
    BY <1>1, <1>2, <2>2
  <2>4. code \in Programs /\ code[i].kind # "function" /\ s \in Seq(Frames) /\ FramesOK(s)
    BY <1>2, <1>6, <2>1 DEF ItemTypes, StackOK
  <2> HIDE DEF s
  <2>5. ItemsIn(r) = ItemsIn(s) \cup {i} /\ Once(r)
    BY <1>2, <2>3, <2>4, EntryFacts
  <2>6. /\ NeedsFrom(i, 1) = Leads(i)
        /\ \A j \in Items : Ahead(x, r, j) \subseteq
             NeedsFrom(i, 1) \cup (IF j = i THEN {} ELSE UNION {NeedsFrom(f.item, f.k + 1) : f \in Above(s, j)})
    BY <1>2, <1>6, <2>1, <2>3, EntryAhead
  <2>7. i \in Reachable => NeedsFrom(i, 1) \subseteq Reachable
    BY <2>6, <1>6, ReachClosed
  <2> HIDE DEF x, r
  <2>8. ASSUME NEW j \in Reachable \cap ItemsIn(r) PROVE Ahead(x, r, j) \subseteq Reachable
    <3>1. j \in Items
      BY <1>6, ReachClosed
    <3>2. CASE j = i
      BY <2>6, <2>7, <2>8, <3>1, <3>2
    <3>3. CASE j # i
      <4>1. j \in Reachable \cap ItemsIn(s)
        BY <2>5, <3>3
      <4>2. i \in Reachable /\ \A f \in Above(s, j) : NeedsFrom(f.item, f.k + 1) \subseteq Reachable
        BY <4>1, <1>5
      <4> QED BY <2>6, <2>7, <3>1, <3>3, <4>2
    <3> QED BY <3>2, <3>3
  <2>9. \A j \in Items : type'[j] = IF j = i THEN "eval" ELSE type[j]
    BY <1>6, <2>1
  <2> HIDE DEF i, t
  <2>10. \A j \in ItemsIn(r) : /\ type'[j] = "eval"
                               /\ j \in ItemsIn(stack[t]) \/ \A u \in Threads : j \notin ItemsIn(stack[u])
    BY <1>2, <1>4, <2>2, <2>5, <2>9
  <2>11. /\ \A j \in Items : type'[j] = "thunk" => type[j] = "thunk"
         /\ \A j \in Items : type'[j] = "eval" => type[j] = "eval" \/ j \in ItemsIn(r)
         /\ \A j \in Items : type[j] = "eval" => type'[j] = "eval"
         /\ \A j \in ItemsIn(stack[t]) : j \in ItemsIn(r)
    BY <1>2, <2>5, <2>9
  <2> QED BY <1>1, <1>3, <2>1, <2>5, <2>8, <2>10, <2>11, EvalsMove
<1>8. CASE /\ ~room /\ type[i] = "thunk"
           /\ AllocThread(i)
           /\ type' = [type EXCEPT ![i] = "eval"]
           /\ state' = [state EXCEPT ![i] = EntryState(i), ![t] = Blocked(i)]
           /\ stack' = [stack EXCEPT ![i] = EntryStack(i, <<>>), ![t] = s]
           /\ pool' = [At("enqueue", t) EXCEPT !.new = i]
           /\ UNCHANGED dest
  <2> DEFINE x == EntryState(i)
             r == EntryStack(i, <<>>)
             R == Reachable
  <2>1. i \in Threads /\ life[i] = "unmade" /\ i # t
    BY <1>1, <1>8 DEF AllocThread
  <2>2. \A u \in Threads :
          /\ state'[u] = IF u = t THEN Blocked(i) ELSE IF u = i THEN x ELSE state[u]
          /\ stack'[u] = IF u = t THEN s ELSE IF u = i THEN r ELSE stack[u]
    BY <1>8, <2>1 DEF Evals, Types, ThreadTypes
  <2>3. \A u \in Threads : i \notin ItemsIn(stack[u])
    BY <1>8, <1>6, ThunkFree
  <2>4. code \in Programs /\ code[i].kind # "function"
    BY <1>2, <1>6, <1>8 DEF ItemTypes
  <2>5. ItemsIn(r) = {i} /\ Once(r)
    <3>1. PICK b : b = <<>>
      OBVIOUS
    <3>2. b \in Seq(Frames) /\ FramesOK(b) /\ Once(b) /\ ItemsIn(b) = {}
      BY <3>1, EmptyFacts
    <3> HIDE DEF i
    <3>3. /\ ItemsIn(EntryStack(i, b)) = ItemsIn(b) \cup {i}
          /\ Once(b) /\ i \notin ItemsIn(b) => Once(EntryStack(i, b))
      BY <1>2, <2>4, <3>1, <3>2, EntryFacts
    <3>4. ItemsIn(EntryStack(i, b)) = {i} /\ Once(EntryStack(i, b))
      BY <3>2, <3>3
    <3> QED BY <3>1, <3>4
  <2>6. Ahead(x, r, i) \subseteq Leads(i)
    <3>1. StackOK(<<>>) /\ ItemsIn(<<>>) = {}
      BY EmptyFacts
    <3> HIDE DEF i
    <3> QED BY <1>2, <1>6, <1>8, <3>1, EntryAhead
  <2>7. \A j \in Items : type'[j] = IF j = i THEN "eval" ELSE type[j]
    BY <1>6, <1>8
  <2>8. Wants(Blocked(i)) = {i}
    BY DEF Wants, Blocked
  <2> HIDE DEF x, r, s, i, t
  <2>9. ASSUME NEW u \in Threads, NEW j \in R \cap ItemsIn(stack'[u])
        PROVE  Ahead(state'[u], stack'[u], j) \subseteq R
    <3>1. CASE u = t
      <4>1. state'[u] = Blocked(i) /\ stack'[u] = s /\ j \in R \cap ItemsIn(s)
        BY <2>2, <2>9, <3>1
      <4>2. i \in R /\ \A f \in Above(s, j) : NeedsFrom(f.item, f.k + 1) \subseteq R
        BY <4>1, <1>5
      <4>3. Ahead(Blocked(i), s, j) \subseteq R
        BY <2>8, <4>2 DEF Ahead
      <4> QED BY <4>1, <4>3
    <3>2. CASE u = i
      <4>1. state'[u] = x /\ stack'[u] = r /\ j = i
        BY <2>1, <2>2, <2>5, <2>9, <3>2
      <4> QED BY <4>1, <2>6, <1>6, ReachClosed
    <3>3. CASE u # t /\ u # i
      <4>1. state'[u] = state[u] /\ stack'[u] = stack[u]
        BY <2>2, <3>3
      <4> QED BY <4>1, <2>9, AheadReachable
    <3> QED BY <3>1, <3>2, <3>3
  <2>10. Reachable' \subseteq R
    <3>1. \A j \in Items : type'[j] = "thunk" => type[j] = "thunk"
      BY <2>7
    <3> HIDE DEF R
    <3>2. R = Reachable
      BY DEF R
    <3> QED BY <1>3, <1>6, <2>9, <3>1, <3>2, ReachShrinks
  <2>11. /\ ItemsIn(stack[i]) = {}
         /\ \A u \in Threads : ItemsIn(stack'[u]) = IF u = i THEN {i} ELSE ItemsIn(stack[u])
    <3>1. ItemsIn(stack[i]) = {}
      <4>1. stack[i] = <<>>
        BY <2>1 DEF Evals, Types, Control, Shape, Live
      <4> QED BY <4>1, EmptyFacts
    <3> QED BY <1>2, <2>1, <2>2, <2>5, <3>1
  <2>12. Exclusive'
    <3>1. \A u \in Threads : Once(stack'[u])
      BY <1>2, <2>2, <2>5, <1>6 DEF Exclusive
    <3>2. \A u, w \in Threads : u # w => ItemsIn(stack'[u]) \cap ItemsIn(stack'[w]) = {}
      BY <2>3, <2>11, <1>6 DEF Exclusive
    <3>3. \A u \in Threads : \A j \in ItemsIn(stack'[u]) : type'[j] = "eval"
      <4>1. \A u \in Threads : ItemsIn(stack[u]) \subseteq Items /\ \A j \in ItemsIn(stack[u]) : type[j] = "eval"
        BY ItemsInTypes, <1>6 DEF Exclusive
      <4> QED BY <1>2, <2>7, <2>11, <4>1
    <3>4. \A u \in Threads : /\ ItemsIn(stack[u])' = ItemsIn(stack'[u])
                             /\ Once(stack[u])' <=> Once(stack'[u])
      BY DEF ItemsIn, Updates, Once
    <3> QED BY <3>1, <3>2, <3>3, <3>4 DEF Exclusive
  <2>13. Kept'
    <3>1. \A j \in Reachable : j \in Items
      BY <1>6, ReachClosed
    <3>2. ASSUME NEW j \in Reachable, type'[j] = "eval"
          PROVE  \/ type[j] = "eval" /\ \A u \in Threads : j \in ItemsIn(stack[u]) => \E w \in Threads : j \in ItemsIn(stack'[w])
                 \/ \E w \in Threads : j \in ItemsIn(stack'[w])
      <4>1. CASE j = i
        BY <2>1, <2>11, <4>1
      <4>2. CASE j # i
        <5>1. type[j] = "eval"
          BY <2>7, <3>1, <3>2, <4>2
        <5>2. \A u \in Threads : j \in ItemsIn(stack[u]) => j \in ItemsIn(stack'[u])
          BY <2>3, <2>11, <4>2
        <5> QED BY <5>1, <5>2
      <4> QED BY <4>1, <4>2
    <3> QED BY <2>10, <3>2, KeptStep
  <2> QED BY <2>12, <2>13 DEF Evals
<1>9. CASE /\ type' = type
           /\ stack' = [stack EXCEPT ![t] = s]
           /\ \E x : state' = [state EXCEPT ![t] = x] /\ (Wants(x) \subseteq {i} \/ x = state[t])
  <2>1. PICK x : state' = [state EXCEPT ![t] = x] /\ (Wants(x) \subseteq {i} \/ x = state[t])
    BY <1>9
  <2>2. ASSUME NEW j \in Reachable \cap ItemsIn(s) PROVE Ahead(x, s, j) \subseteq Reachable
    <3>1. /\ i \in Reachable /\ Wants(state[t]) \subseteq Reachable
          /\ \A f \in Above(s, j) : NeedsFrom(f.item, f.k + 1) \subseteq Reachable
      BY <2>2, <1>5
    <3> HIDE DEF i, s, t
    <3>2. Wants(x) \subseteq Reachable
      BY <2>1, <3>1
    <3> QED BY <3>1, <3>2 DEF Ahead
  <2> HIDE DEF i, s, t
  <2> QED BY <1>1, <1>2, <1>3, <1>4, <1>9, <2>1, <2>2, EvalsMove
<1>10. ASSUME \/ state' = [state EXCEPT ![t] = Blocked(i)]
              \/ state' = [state EXCEPT ![t] = Returning(v)]
              \/ UNCHANGED state
       PROVE  \E x : state' = [state EXCEPT ![t] = x] /\ (Wants(x) \subseteq {i} \/ x = state[t])
  <2>1. Wants(Blocked(i)) = {i} /\ Wants(Returning(v)) = {}
    BY DEF Wants, Blocked, Returning
  <2>2. UNCHANGED state => state' = [state EXCEPT ![t] = state[t]]
    BY <1>1 DEF Evals, Types, ThreadTypes
  <2> HIDE DEF i, v, t
  <2> QED BY <1>10, <2>1, <2>2
<1> QED BY <1>7, <1>8, <1>9, <1>10 DEF Enter

\* A collection drops no reached item that is under evaluation, and nothing it keeps leads
\* to what was not reached before.
LEMMA CollectionEvals ==
  ASSUME Evals, Types', Collection
  PROVE  Evals'
<1> DEFINE reached == {t \in Threads : life[t] = "active" /\ LiveUpdates(stack[t]) # {}}
<1>1. /\ UNCHANGED <<code, type, state, client, asked>>
      /\ stack' = StacksAfter(reached) /\ CleanupThreads(reached)
  BY DEF Collection, fixed
<1>2. \A t \in Threads : stack'[t] = IF t \in reached THEN Consolidate(stack[t])
                     ELSE IF life[t] = "orphan" THEN stack[t] ELSE <<>>
  BY <1>1 DEF StacksAfter
<1>3. \A t \in Threads : life[t] \notin {"starting", "finished"}
  BY <1>1 DEF CleanupThreads
<1>4. ASSUME NEW t \in Threads
      PROVE  /\ ItemsIn(stack'[t]) \subseteq ItemsIn(stack[t])
             /\ ItemsIn(stack[t]) \cap Reachable \subseteq ItemsIn(stack'[t])
             /\ Once(stack'[t])
             /\ \A j \in Items : Above(stack'[t], j) \subseteq Above(stack[t], j)
  <2>1. Once(stack[t]) /\ stack[t] \in Seq(Frames)
    BY DEF Evals, Exclusive, Types, ThreadTypes, StackOK
  <2>2. CASE t \in reached
    <3>1. stack'[t] = Consolidate(stack[t]) /\ LiveUpdates(stack[t]) # {}
      BY <1>2, <2>2
    <3> QED BY <2>1, <3>1, Consolidated
  <2>3. CASE t \notin reached /\ life[t] = "orphan"
    BY <1>2, <2>1, <2>3
  <2>4. CASE t \notin reached /\ life[t] # "orphan"
    <3>1. stack'[t] = <<>>
      BY <1>2, <2>4
    <3>2. ItemsIn(stack[t]) \cap Reachable = {}
      <4>1. CASE life[t] = "active"
        <5>1. LiveUpdates(stack[t]) = {}
          BY <2>4, <4>1
        <5> QED BY <5>1 DEF LiveUpdates, ItemsIn
      <4>2. CASE life[t] # "active"
        <5>1. stack[t] = <<>>
          BY <1>3, <2>4, <4>2 DEF Evals, Types, Control, Shape, Live
        <5> QED BY <5>1, EmptyFacts
      <4> QED BY <4>1, <4>2
    <3>3. \A j \in Items : Above(<<>>, j) = {}
      BY DEF Above
    <3> QED BY <3>1, <3>2, <3>3, EmptyFacts
  <2> QED BY <2>2, <2>3, <2>4
<1> HIDE DEF reached
<1>5. ASSUME NEW t \in Threads, NEW j \in Reachable \cap ItemsIn(stack'[t])
      PROVE  Ahead(state'[t], stack'[t], j) \subseteq Reachable
  <2>1. j \in Items /\ j \in Reachable \cap ItemsIn(stack[t])
    BY <1>4, <1>5, ReachClosed DEF Evals
  <2>2. Ahead(state[t], stack[t], j) \subseteq Reachable
    BY <2>1, AheadReachable
  <2>3. Above(stack'[t], j) \subseteq Above(stack[t], j) /\ state'[t] = state[t]
    BY <1>1, <1>4, <2>1
  <2>4. Ahead(state[t], stack'[t], j) \subseteq Ahead(state[t], stack[t], j)
    BY <2>3 DEF Ahead
  <2> QED BY <2>2, <2>3, <2>4
<1>6. Reachable' \subseteq Reachable
  BY <1>1, <1>5, ReachShrinks DEF Evals
<1>7. Exclusive'
  <2>1. \A u \in Threads : /\ ItemsIn(stack[u])' = ItemsIn(stack'[u])
                           /\ Once(stack[u])' <=> Once(stack'[u])
    BY DEF ItemsIn, Updates, Once
  <2> QED BY <1>1, <1>4, <2>1 DEF Evals, Exclusive
<1>8. Kept'
  BY <1>1, <1>4, <1>6, KeptStep
<1> QED BY <1>7, <1>8 DEF Evals

\* Every step of the evaluator preserves Evals.
LEMMA EvalsStep ==
  ASSUME Evals, [EvalNext]_<<queue, eval>>
  PROVE  Evals'
<1>1. Types'
  BY TypesStep DEF Evals
<1>2. CASE UNCHANGED <<code, asked, type, state, stack, client>>
  BY <1>1, <1>2, EvalsSame
<1>3. CASE PoolStep
  <2>1. \/ UNCHANGED <<code, asked, type, state, stack, client>>
        \/ FindUnblocked \/ FindUnstarted \/ RunThread \/ FailThread
    BY <1>3 DEF PoolStep, LeavePool, FindNothing, FindRunnable, PoolEnqueues, StopRunning, PoolUnlinks, Advance, fixed
  <2> QED BY <1>1, <1>2, <2>1, FindUnblockedEvals, PoolFindsEvals, EnterEvals, FinishEvals, ReturnEvals,
          FailEvals DEF RunThread
<1>4. CASE \E c \in Clients : ClientStep(c)
  BY <1>1, <1>4, ClientEvals
<1>5. CASE Collection
  BY <1>1, <1>5, CollectionEvals
<1>6. CASE Over \/ UNCHANGED <<queue, eval>>
  BY <1>2, <1>6 DEF Over, eval
<1> QED BY <1>3, <1>4, <1>5, <1>6 DEF EvalNext

\* Evals always holds.
LEMMA EvalsAlways == EvalSpec => []Evals
<1>1. EvalInit => Evals
  <2> SUFFICES ASSUME EvalInit PROVE Evals
    OBVIOUS
  <2>1. Types
    BY TypesInit, InitInv DEF Types, EvalInit
  <2>2. \A t \in Threads : stack[t] = <<>>
    BY DEF EvalInit
  <2>3. \A t \in Threads : ItemsIn(stack[t]) = {} /\ Once(stack[t])
    BY <2>2, EmptyFacts
  <2>4. Exclusive
    BY <2>3 DEF Exclusive
  <2>5. Kept
    <3>1. \A i \in Items : type[i] # "eval"
      BY DEF EvalInit
    <3> QED BY <3>1 DEF Kept, Reachable
  <2> QED BY <2>1, <2>4, <2>5 DEF Evals
<1>2. Evals /\ [EvalNext]_<<queue, eval>> => Evals'
  BY EvalsStep
<1> QED BY <1>1, <1>2, PTL DEF EvalSpec

\* Whatever clients and threads run into each other, and whatever collections drop: an
\* item under evaluation that anybody may still need is on the stack of exactly one
\* thread, once, and no other item is on any stack.
THEOREM OneEvaluatorAlways == EvalSpec => []OneEvaluator
<1>1. Evals => OneEvaluator
  <2> SUFFICES ASSUME Evals PROVE OneEvaluator
    OBVIOUS
  <2>1. \A t \in Threads : ItemsOf(t) = ItemsIn(stack[t])
    BY DEF ItemsOf, ItemsIn
  <2>2. \A t \in Threads : ItemsIn(stack[t]) # {} => life[t] \in {"starting", "active", "orphan"}
    <3> SUFFICES ASSUME NEW t \in Threads, ItemsIn(stack[t]) # {} PROVE life[t] \in Live
      BY DEF Live
    <3>1. stack[t] # <<>>
      BY EmptyFacts
    <3> QED BY <3>1 DEF Evals, Types, Control, Shape
  <2>3. \A i \in Items : Evaluators(i) = {t \in Threads : i \in ItemsIn(stack[t])}
    BY <2>1, <2>2 DEF Evaluators
  <2>4. ASSUME NEW i \in Items, type[i] = "eval", i \in Reachable
        PROVE  \E t \in Threads : Evaluators(i) = {t}
    <3>1. PICK t \in Threads : i \in ItemsIn(stack[t])
      BY <2>4 DEF Evals, Kept
    <3>2. \A u \in Threads : i \in ItemsIn(stack[u]) => u = t
      BY <3>1 DEF Evals, Exclusive
    <3> QED BY <2>3, <3>1, <3>2
  <2>5. ASSUME NEW i \in Items, type[i] # "eval" PROVE Evaluators(i) = {}
    BY <2>3, <2>5 DEF Evals, Exclusive
  <2>6. ASSUME NEW i \in Items, NEW t \in Evaluators(i)
        PROVE  Cardinality({n \in Updates(stack[t]) : stack[t][n].item = i}) = 1
    <3>1. t \in Threads /\ i \in ItemsIn(stack[t])
      BY <2>3
    <3>2. PICK n \in Updates(stack[t]) : stack[t][n].item = i
      BY <3>1 DEF ItemsIn
    <3>3. {m \in Updates(stack[t]) : stack[t][m].item = i} = {n}
      BY <3>1, <3>2 DEF Evals, Exclusive, Once
    <3> QED BY <3>3, FS_Singleton
  <2> QED BY <2>4, <2>5, <2>6 DEF OneEvaluator
<1> QED BY <1>1, EvalsAlways, PTL

-----------------------------------------------------------------------------
(* Who is refused a slot *)

\* Nobody was refused a slot.
NoOrphans == \A t \in Threads : life[t] # "orphan"

\* While a thread of a set that fits the queue is being started, there is a slot for it.
LEMMA RoomLeft ==
  ASSUME RoomForAll, QueueInv, NEW t \in Threads, life[t] = "starting"
  PROVE  num_active < NumAceThreads
<1> DEFINE S == 0 .. num_active - 1
           T == Threads \ {t}
           f == [n \in S |-> threads[n]]
<1>1. num_active \in Nat /\ NumAceThreads \in Nat /\ num_active <= NumAceThreads
  BY RoomForOne DEF QueueInv, QueueTypeOK
<1>2. \A n \in S : n \in Slots /\ threads[n] \in T /\ tid[threads[n]] = n
  BY <1>1 DEF QueueInv, QueueConsistent, Slots, InQueue
<1>3. f \in Injection(S, T)
  BY <1>2 DEF Injection, IsInjective
<1>4. IsFiniteSet(T) /\ Cardinality(T) = Cardinality(Threads) - 1
  BY ThreadsFinite, FS_RemoveElement
<1>5. Cardinality(S) <= Cardinality(T)
  <2> HIDE DEF S, T, f
  <2> QED BY <1>3, <1>4, FS_Injection
<1>6. Cardinality(S) = num_active
  BY <1>1, FS_Interval
<1>7. Cardinality(Threads) \in Nat
  BY ThreadsFinite, FS_CardinalityType
<1> HIDE DEF S, T
<1> QED BY <1>1, <1>4, <1>5, <1>6, <1>7 DEF RoomForAll

\* Nobody is refused a slot when there is one for every item.
LEMMA NoOrphansStep ==
  ASSUME RoomForAll, Types, NoOrphans, [EvalNext]_<<queue, eval>>
  PROVE  NoOrphans'
<1>1. life \in [Threads -> {"unmade", "starting", "orphan", "gone"} \cup InQueue] /\ QueueInv
  BY DEF Types, QueueInv, QueueTypeOK
<1>2. \A t : ~ (t \in Threads /\ OutOfThreads(t))
  BY <1>1, RoomLeft, RoomForOne DEF OutOfThreads, QueueInv, QueueTypeOK
<1>3. ASSUME NEW t, AllocThread(t) \/ Enqueue(t) \/ FinishThread(t) \/ UnlinkThread(t)
      PROVE  NoOrphans'
  BY <1>1, <1>3 DEF AllocThread, Enqueue, FinishThread, UnlinkThread, NoOrphans
<1>4. CASE life' = life
  BY <1>4 DEF NoOrphans
<1>5. ASSUME NEW t, StartEvaluation(t) PROVE NoOrphans'
  BY <1>3, <1>5 DEF StartEvaluation
<1>6. CASE PoolStep
  <2>1. CASE LeavePool \/ FindNothing \/ FindRunnable \/ FindUnblocked \/ StopRunning \/ Advance
    BY <1>4, <2>1 DEF LeavePool, FindNothing, FindRunnable, FindUnblocked, StopRunning, Advance, queue
  <2>2. CASE FindUnstarted
    BY <1>5, <2>2 DEF FindUnstarted
  <2>3. CASE PoolEnqueues
    <3>1. pool.new \in Threads
      BY <2>3 DEF PoolEnqueues, Types, Control
    <3> QED BY <1>2, <1>3, <2>3, <3>1 DEF PoolEnqueues
  <2>4. CASE RunThread
    <3>1. life' = life \/ (\E t : AllocThread(t)) \/ \E t : FinishThread(t)
      BY <2>4 DEF RunThread, Enter, Finish, ReturnToUpdate, queue
    <3> QED BY <1>3, <1>4, <3>1
  <2>5. CASE FailThread
    <3>1. life' = life \/ \E t : FinishThread(t)
      BY <2>5 DEF FailThread, queue
    <3> QED BY <1>3, <1>4, <3>1
  <2>6. CASE PoolUnlinks
    BY <1>3, <2>6 DEF PoolUnlinks
  <2> QED BY <1>6, <2>1, <2>2, <2>3, <2>4, <2>5, <2>6 DEF PoolStep
<1>7. ASSUME NEW c \in Clients, ClientStep(c) PROVE NoOrphans'
  <2>1. asked[c] \in Threads
    BY ThreadsAreItems DEF Types, PoolTypes
  <2> QED BY <1>2, <1>3, <1>4, <1>5, <1>7, <2>1 DEF ClientStep, ClientStarts, ClientEnqueues, ClientSees, queue
<1>8. CASE Collection
  BY <1>8 DEF Collection, CleanupThreads, NoOrphans
<1>9. CASE Over \/ UNCHANGED <<queue, eval>>
  BY <1>4, <1>9 DEF Over, queue
<1> QED BY <1>6, <1>7, <1>8, <1>9 DEF EvalNext

\* Nobody is ever refused one, then.
LEMMA NoOrphansAlways ==
  ASSUME RoomForAll
  PROVE  EvalSpec => []NoOrphans
<1>1. EvalInit => NoOrphans
  BY DEF EvalInit, QueueInit, NoOrphans
<1>2. Types /\ NoOrphans /\ [EvalNext]_<<queue, eval>> => NoOrphans'
  BY NoOrphansStep
<1> QED BY <1>1, <1>2, TypesAlways, PTL DEF EvalSpec

\* Whether there is room or not, an item under evaluation that can be reached is
\* evaluated by a thread that the pool gets to, or by one that was refused a slot.
LEMMA WorksOrRefused ==
  ASSUME Evals, NEW i \in Reachable, type[i] = "eval"
  PROVE  \E t \in Evaluators(i) :
           \/ life[t] = "active" /\ \E n \in 0 .. num_active - 1 : threads[n] = t
           \/ life[t] = "starting"
           \/ life[t] = "orphan"
<1>1. PICK t \in Threads : i \in ItemsIn(stack[t])
  BY DEF Evals, Kept
<1>2. life[t] \in Live
  <2>1. stack[t] # <<>>
    BY <1>1, EmptyFacts
  <2> QED BY <2>1 DEF Evals, Types, Control, Shape
<1>3. t \in Evaluators(i)
  BY <1>1, <1>2 DEF Evaluators, ItemsOf, ItemsIn, Live
<1>4. life[t] = "active" => tid[t] \in 0 .. num_active - 1 /\ threads[tid[t]] = t
  BY DEF Evals, Types, QueueInv, QueueConsistent, InQueue
<1> QED BY <1>2, <1>3, <1>4 DEF Live

\* As long as nobody was refused a slot: an item under evaluation that a client may come
\* to need is evaluated by a thread in the queue, or about to be put there.
THEOREM WorksUnlessRefused == EvalSpec => [](NoOrphans => SomebodyWorks)
<1>1. Evals /\ NoOrphans => SomebodyWorks
  <2> SUFFICES ASSUME Evals, NoOrphans, NEW i \in Reachable, type[i] = "eval"
               PROVE  \E t \in Evaluators(i) :
                        \/ life[t] = "active" /\ \E n \in 0 .. num_active - 1 : threads[n] = t
                        \/ life[t] = "starting"
    BY DEF SomebodyWorks
  <2>1. \A t \in Evaluators(i) : life[t] # "orphan"
    BY DEF NoOrphans, Evaluators
  <2> QED BY <2>1, WorksOrRefused
<1> QED BY <1>1, EvalsAlways, PTL

\* With a slot for every item, this holds in every state.
THEOREM SomebodyWorksAlways ==
  ASSUME RoomForAll
  PROVE  EvalSpec => []SomebodyWorks
BY WorksUnlessRefused, NoOrphansAlways, PTL

-----------------------------------------------------------------------------
(* The queue *)

\* What a client does with the queue is an operation of the queue.
LEMMA ClientUsesQueue ==
  ASSUME Types, NEW c \in Clients, ClientStep(c)
  PROVE  QueueNext \/ UNCHANGED queue
<1>1. asked[c] \in Threads
  BY ThreadsAreItems DEF Types, PoolTypes
<1>2. CASE ClientStarts(c)
  BY <1>1, <1>2 DEF ClientStarts, StartEvaluation, QueueNext
<1>3. CASE ClientEnqueues(c)
  BY <1>1, <1>3 DEF ClientEnqueues, QueueNext
<1>4. CASE ClientSees(c)
  BY <1>4 DEF ClientSees, queue
<1> QED BY <1>2, <1>3, <1>4 DEF ClientStep

\* A step of the pool is an operation of the queue or leaves it alone.
LEMMA PoolUsesQueue ==
  ASSUME Types, PoolStep
  PROVE  QueueNext \/ UNCHANGED queue
<1>1. CASE LeavePool \/ FindNothing \/ FindRunnable \/ FindUnblocked \/ StopRunning \/ Advance
  BY <1>1 DEF LeavePool, FindNothing, FindRunnable, FindUnblocked, StopRunning, Advance, queue
<1>2. CASE FindUnstarted
  <2>1. PICK i : AllocThread(i)
    BY <1>2 DEF FindUnstarted, StartEvaluation
  <2> QED BY <2>1 DEF AllocThread, QueueNext
<1>3. CASE PoolEnqueues
  BY <1>3 DEF PoolEnqueues, Types, Control, QueueNext
<1>4. CASE RunThread
  <2> DEFINE t == pool.thread
  <2>1. t \in Threads
    BY <1>4 DEF RunThread, Types, Control
  <2>2. CASE Enter(t)
    <3>1. UNCHANGED queue \/ AllocThread(NextNeed(t))
      BY <2>2 DEF Enter
    <3> QED BY <3>1 DEF AllocThread, QueueNext
  <2>3. CASE Finish(t)
    BY <2>3 DEF Finish
  <2>4. CASE ReturnToUpdate(t)
    BY <2>1, <2>4 DEF ReturnToUpdate, QueueNext
  <2> QED BY <1>4, <2>2, <2>3, <2>4 DEF RunThread
<1>5. CASE FailThread
  <2>1. pool.thread \in Threads
    BY <1>5 DEF FailThread, Types, Control
  <2>2. FinishThread(pool.thread) \/ UNCHANGED queue
    BY <1>5 DEF FailThread
  <2> QED BY <2>1, <2>2 DEF QueueNext
<1>6. CASE PoolUnlinks
  BY <1>6 DEF PoolUnlinks, Types, Control, QueueNext
<1> QED BY <1>1, <1>2, <1>3, <1>4, <1>5, <1>6 DEF PoolStep

\* So is a step of the evaluator.
LEMMA EvalUsesQueue ==
  ASSUME Types, [EvalNext]_<<queue, eval>>
  PROVE  [QueueNext]_queue
<1>1. CASE Collection
  <2>1. PICK keep : keep \subseteq Threads /\ CleanupThreads(keep)
    BY <1>1 DEF Collection
  <2> QED BY <2>1 DEF QueueNext
<1>2. CASE Over \/ UNCHANGED <<queue, eval>>
  BY <1>2 DEF Over
<1> QED BY <1>1, <1>2, ClientUsesQueue, PoolUsesQueue DEF EvalNext

\* The evaluator is a user of the queue: whatever it does to the array of threads is one
\* of the operations of ace.c that take its lock, used as they are meant to be.
THEOREM UsesQueue == EvalSpec => QueueSpec
<1>1. EvalInit => QueueInit
  BY DEF EvalInit
<1>2. Types /\ [EvalNext]_<<queue, eval>> => [QueueNext]_queue
  BY EvalUsesQueue
<1> QED BY <1>1, <1>2, TypesAlways, PTL DEF EvalSpec, QueueSpec

\* While threads are started, run, fail, are removed and are moved by collections, the
\* array and thread->tid stay inverse of each other.
THEOREM EvaluatorQueueConsistent == EvalSpec => []QueueConsistent
BY UsesQueue, Consistent, PTL
=============================================================================

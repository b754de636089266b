---------------------------- MODULE GCHeapProofs ----------------------------
(***************************************************************************)
(* The rendezvous of alloc.c is correct for every finite set of processes, *)
(* and what the collections do to the segments of alloc.c, for every       *)
(* number of segments, write processes and other workers.  The inductive   *)
(* invariant of the rendezvous says who is stopped while main collects;    *)
(* the heap is shown to run on the rendezvous; HeapInv adds where the      *)
(* nurseries are and, for each write process, where the queue, its own     *)
(* pointer and the field forward point at each stage of a collection.      *)
(***************************************************************************)
EXTENDS GCHeap, FiniteSetTheorems, TLAPS

\* The counted sets are finite, so their cardinalities are natural numbers.
LEMMA Finite ==
  ASSUME NEW S \in SUBSET Workers
  PROVE  IsFiniteSet(S) /\ Cardinality(S) \in Nat
BY WorkersFinite, FS_Subset, FS_CardinalityType

\* One process joins a counted set.
LEMMA CountUp ==
  ASSUME NEW S \in SUBSET Workers, NEW p \in Workers, p \notin S
  PROVE  Cardinality(S \cup {p}) = Cardinality(S) + 1
BY Finite, FS_AddElement

\* One process leaves a counted set.
LEMMA CountDown ==
  ASSUME NEW S \in SUBSET Workers, NEW p \in S
  PROVE  Cardinality(S \ {p}) = Cardinality(S) - 1
BY Finite, FS_RemoveElement

\* A set at least as large as one it is included in is that set: this is what
\* the comparison of the two counters in gs_sys_wait_for_gc rests on.
LEMMA CountAll ==
  ASSUME NEW S \in SUBSET Workers, NEW T \in SUBSET S,
         Cardinality(T) >= Cardinality(S)
  PROVE  T = S
<1>1. IsFiniteSet(S) /\ Cardinality(S) \in Nat /\ Cardinality(T) \in Nat
  BY Finite
<1>2. Cardinality(T) <= Cardinality(S)
  BY <1>1, FS_Subset
<1>3. Cardinality(T) = Cardinality(S)
  BY <1>1, <1>2
<1> QED BY <1>1, <1>3, FS_Subset

\* What the program counters say of the two sets after one process moves.
LEMMA MoveSets ==
  ASSUME pc \in [Workers -> PCs], NEW p \in Workers, NEW to \in PCs,
         pc' = [pc EXCEPT ![p] = to]
  PROVE  /\ Inside' = IF to \in InGC THEN Inside \cup {p} ELSE Inside \ {p}
         /\ Live' = IF to \in Counted THEN Live \cup {p} ELSE Live \ {p}
BY DEF Inside, Live

\* As long as nobody moves, the sets of processes at some place stay the same.
LEMMA SameSets ==
  ASSUME pc' = pc
  PROVE  Inside' = Inside /\ Live' = Live
BY DEF Inside, Live

-----------------------------------------------------------------------------
\* The strengthened invariant holds at the start.
LEMMA InitIInv == Init => IInv
<1> SUFFICES ASSUME Init PROVE IInv
  OBVIOUS
<1>1. TypeOK
  <2>1. gc_running \in BOOLEAN
    BY DEF Init
  <2>2. pc \in [Workers -> PCs] /\ told \in [Workers -> Errors]
    BY DEF Init, PCs, Errors
  <2> QED BY <2>1, <2>2 DEF Init, TypeOK, MainPCs, Errors
<1>2. Inside = {} /\ Live = {}
  BY DEF Init, Inside, Live, InGC, Counted
<1>3. CountersExact
  BY <1>2, FS_EmptySet DEF Init, CountersExact
<1>4. Phases /\ ToldTheTruth
  BY DEF Init, Phases, ToldTheTruth, InGC, Counted
<1> QED BY <1>1, <1>3, <1>4 DEF IInv

-----------------------------------------------------------------------------
(* Type correctness *)

\* Every step keeps the types.
LEMMA NextTypeOK == TypeOK /\ [Next]_vars => TypeOK'
<1> SUFFICES ASSUME TypeOK, [Next]_vars
             PROVE  TypeOK'
  OBVIOUS
<1> USE DEF TypeOK, PCs, Counted, InGC, MainPCs, Errors, Goto, MainGoto, shared
<1>1. ASSUME NEW p \in Workers, BeginSpawn(p) \/ CloneSucceeds(p) \/ CloneFails(p)
      PROVE  TypeOK'
  BY <1>1 DEF BeginSpawn, CloneSucceeds, CloneFails
<1>2. CASE WaitForGC
  BY <1>2 DEF WaitForGC
<1>3. CASE EveryoneStopped \/ EveryoneLeft
  BY <1>3 DEF EveryoneStopped, EveryoneLeft
<1>4. CASE Collect
  <2>1. gc_running' \in BOOLEAN
    BY <1>4, Zenon DEF Collect, FinishGC, GCFailed
  <2>2. UNCHANGED <<num_procs, main_read, pc, told>> /\ num_procs_in_gc' \in Int
    BY <1>4 DEF Collect, FinishGC, GCFailed
  <2>3. gc_error' \in Errors /\ outcome' \in Errors /\ main' \in MainPCs
    BY <1>4 DEF Collect, FinishGC, GCFailed
  <2> QED BY <2>1, <2>2, <2>3
<1>5. CASE ReadNumProcs \/ WriteNumProcs
  BY <1>5 DEF ReadNumProcs, WriteNumProcs
<1>6. ASSUME NEW p \in Workers, WorkerStep(p)
      PROVE  TypeOK'
  BY <1>6 DEF WorkerStep, PoolReturns, PoolExits, WantCollection, Park, Release,
              ReadResult, DoneWithCollection
<1>7. CASE UNCHANGED vars
  BY <1>7 DEF vars
<1> QED
  BY <1>1, <1>2, <1>3, <1>4, <1>5, <1>6, <1>7 DEF Next, MainStep, Over

\* Every variable keeps its type: in particular the counters stay integers
\* through the unlocked decrement, whatever it reads.
THEOREM TypeCorrect == Spec => []TypeOK
<1>1. Init => TypeOK
  BY InitIInv DEF IInv
<1> QED BY <1>1, NextTypeOK, PTL DEF Spec

-----------------------------------------------------------------------------
(* The inductive invariant *)

\* A process outside the counted sets comes in, one inside moves or goes out:
\* the six ways a step can change the two counts.
LEMMA MoveCounts ==
  ASSUME TypeOK, NEW p \in Workers, NEW to \in PCs,
         pc' = [pc EXCEPT ![p] = to]
  PROVE  /\ pc[p] \notin InGC /\ to \in InGC => Cardinality(Inside') = Cardinality(Inside) + 1
         /\ pc[p] \in InGC /\ to \notin InGC => Cardinality(Inside') = Cardinality(Inside) - 1
         /\ (pc[p] \in InGC <=> to \in InGC) => Cardinality(Inside') = Cardinality(Inside)
         /\ pc[p] \notin Counted /\ to \in Counted => Cardinality(Live') = Cardinality(Live) + 1
         /\ pc[p] \in Counted /\ to \notin Counted => Cardinality(Live') = Cardinality(Live) - 1
         /\ (pc[p] \in Counted <=> to \in Counted) => Cardinality(Live') = Cardinality(Live)
<1>1. /\ Inside' = IF to \in InGC THEN Inside \cup {p} ELSE Inside \ {p}
      /\ Live' = IF to \in Counted THEN Live \cup {p} ELSE Live \ {p}
  BY MoveSets DEF TypeOK
<1>2. /\ Inside \in SUBSET Workers /\ Live \in SUBSET Workers
      /\ p \in Inside <=> pc[p] \in InGC
      /\ p \in Live <=> pc[p] \in Counted
  BY DEF Inside, Live
<1>3. p \notin Inside => Cardinality(Inside \cup {p}) = Cardinality(Inside) + 1
  BY <1>2, CountUp
<1>4. p \in Inside => Cardinality(Inside \ {p}) = Cardinality(Inside) - 1
  BY <1>2, CountDown
<1>5. p \notin Live => Cardinality(Live \cup {p}) = Cardinality(Live) + 1
  BY <1>2, CountUp
<1>6. p \in Live => Cardinality(Live \ {p}) = Cardinality(Live) - 1
  BY <1>2, CountDown
<1>7. /\ p \in Inside => Inside \cup {p} = Inside
      /\ p \notin Inside => Inside \ {p} = Inside
      /\ p \in Live => Live \cup {p} = Live
      /\ p \notin Live => Live \ {p} = Live
  OBVIOUS
<1> QED BY <1>1, <1>2, <1>3, <1>4, <1>5, <1>6, <1>7

\* When the counters agree every process that exists is inside.
LEMMA GatheredAll ==
  ASSUME IInv, main = "gathering", num_procs_in_gc >= num_procs
  PROVE  Inside = Live
<1>1. Live \in SUBSET Workers /\ Inside \in SUBSET Live
  BY DEF Inside, Live, Counted
<1>2. Cardinality(Inside) \in Nat /\ Cardinality(Live) \in Nat
  BY <1>1, Finite
<1>3. Cardinality(Inside) >= Cardinality(Live)
  BY <1>2 DEF IInv, CountersExact
<1> QED BY <1>1, <1>3, CountAll

\* A step of a process other than the main one preserves the counters' meaning.
LEMMA WorkerCounters ==
  ASSUME IInv, NEW p \in Workers, WorkerStep(p)
  PROVE  CountersExact'
<1> USE DEF IInv, TypeOK, CountersExact, shared, Goto, PCs, Counted, InGC, MainPCs
<1>1. Cardinality(Inside) \in Nat /\ Cardinality(Live) \in Nat
  BY Finite DEF Inside, Live
<1>2. CASE PoolReturns(p)
  <2>1. pc' = [pc EXCEPT ![p] = "returned"] /\ "returned" \in PCs
    BY <1>2 DEF PoolReturns
  <2>2. /\ Cardinality(Inside') = Cardinality(Inside)
        /\ Cardinality(Live') = Cardinality(Live)
    BY <1>2, <2>1, MoveCounts DEF PoolReturns
  <2> QED BY <1>1, <1>2, <2>2 DEF PoolReturns
<1>3. CASE PoolExits(p)
  <2>1. pc' = [pc EXCEPT ![p] = "gone"] /\ "gone" \in PCs
    BY <1>3 DEF PoolExits
  <2>2. /\ Cardinality(Inside') = Cardinality(Inside)
        /\ Cardinality(Live') = Cardinality(Live) - 1
    BY <1>3, <2>1, MoveCounts DEF PoolExits
  <2> QED BY <1>1, <1>3, <2>2 DEF PoolExits
<1>4. CASE WantCollection(p)
  <2>1. pc' = [pc EXCEPT ![p] = "wanted"] /\ "wanted" \in PCs
    BY <1>4 DEF WantCollection
  <2>2. /\ Cardinality(Inside') = Cardinality(Inside)
        /\ Cardinality(Live') = Cardinality(Live)
    BY <1>4, <2>1, MoveCounts DEF WantCollection
  <2> QED BY <1>1, <1>4, <2>2 DEF WantCollection
<1>5. CASE Park(p)
  <2>1. pc' = [pc EXCEPT ![p] = "parked"] /\ "parked" \in PCs
    BY <1>5 DEF Park
  <2>2. /\ Cardinality(Inside') = Cardinality(Inside) + 1
        /\ Cardinality(Live') = Cardinality(Live)
    BY <1>5, <2>1, MoveCounts DEF Park
  <2> QED BY <1>1, <1>5, <2>2 DEF Park
<1>6. CASE Release(p)
  <2>1. pc' = [pc EXCEPT ![p] = "released"] /\ "released" \in PCs
    BY <1>6 DEF Release
  <2>2. /\ Cardinality(Inside') = Cardinality(Inside)
        /\ Cardinality(Live') = Cardinality(Live)
    BY <1>6, <2>1, MoveCounts DEF Release
  <2> QED BY <1>1, <1>6, <2>2 DEF Release
<1>7. CASE ReadResult(p)
  <2>1. pc' = [pc EXCEPT ![p] = "told"] /\ "told" \in PCs
    BY <1>7 DEF ReadResult
  <2>2. /\ Cardinality(Inside') = Cardinality(Inside)
        /\ Cardinality(Live') = Cardinality(Live)
    BY <1>7, <2>1, MoveCounts DEF ReadResult
  <2> QED BY <1>1, <1>7, <2>2 DEF ReadResult
<1>8. CASE DoneWithCollection(p)
  <2>1. pc' = [pc EXCEPT ![p] = "run"] /\ "run" \in PCs
    BY <1>8 DEF DoneWithCollection
  <2>2. /\ Cardinality(Inside') = Cardinality(Inside) - 1
        /\ Cardinality(Live') = Cardinality(Live)
    BY <1>8, <2>1, MoveCounts DEF DoneWithCollection
  <2> QED BY <1>1, <1>8, <2>2 DEF DoneWithCollection
<1> QED BY <1>2, <1>3, <1>4, <1>5, <1>6, <1>7, <1>8 DEF WorkerStep

\* So does a step of the main process.  The collecting ones leave the sets alone
\* and move the main process in or out of num_procs_in_gc.
LEMMA MainCounters ==
  ASSUME IInv, MainStep
  PROVE  CountersExact'
<1> USE DEF IInv, TypeOK, CountersExact, shared, Goto, MainGoto, PCs, Counted, InGC, MainPCs
<1>1. Cardinality(Inside) \in Nat /\ Cardinality(Live) \in Nat
  BY Finite DEF Inside, Live
<1>2. ASSUME NEW p \in Workers, BeginSpawn(p)
      PROVE  CountersExact'
  <2>1. pc' = [pc EXCEPT ![p] = "cloning"] /\ "cloning" \in PCs
    BY <1>2 DEF BeginSpawn
  <2>2. /\ Cardinality(Inside') = Cardinality(Inside)
        /\ Cardinality(Live') = Cardinality(Live) + 1
    BY <1>2, <2>1, MoveCounts DEF BeginSpawn
  <2> QED BY <1>1, <1>2, <2>2 DEF BeginSpawn
<1>3. ASSUME NEW p \in Workers, CloneSucceeds(p)
      PROVE  CountersExact'
  <2>1. pc' = [pc EXCEPT ![p] = "run"] /\ "run" \in PCs
    BY <1>3 DEF CloneSucceeds
  <2>2. /\ Cardinality(Inside') = Cardinality(Inside)
        /\ Cardinality(Live') = Cardinality(Live)
    BY <1>3, <2>1, MoveCounts DEF CloneSucceeds
  <2> QED BY <1>1, <1>3, <2>2 DEF CloneSucceeds
<1>4. ASSUME NEW p \in Workers, CloneFails(p)
      PROVE  CountersExact'
  <2>1. pc' = [pc EXCEPT ![p] = "unborn"] /\ "unborn" \in PCs
    BY <1>4 DEF CloneFails
  <2>2. /\ Cardinality(Inside') = Cardinality(Inside)
        /\ Cardinality(Live') = Cardinality(Live) - 1
    BY <1>4, <2>1, MoveCounts DEF CloneFails
  <2> QED BY <1>1, <1>4, <2>2 DEF CloneFails
<1>5. CASE WaitForGC
  BY <1>1, <1>5, SameSets DEF WaitForGC
<1>6. CASE EveryoneStopped
  BY <1>1, <1>6, SameSets DEF EveryoneStopped
<1>7. CASE FinishGC
  BY <1>1, <1>7, SameSets DEF FinishGC
<1>8. CASE GCFailed
  BY <1>1, <1>8, SameSets DEF GCFailed
<1>9. CASE EveryoneLeft
  BY <1>1, <1>9, SameSets DEF EveryoneLeft
<1>10. CASE ReadNumProcs
  BY <1>1, <1>10, SameSets DEF ReadNumProcs
<1>11. CASE WriteNumProcs
  BY <1>1, <1>11, SameSets DEF WriteNumProcs
<1> QED
  BY <1>2, <1>3, <1>4, <1>5, <1>6, <1>7, <1>8, <1>9, <1>10, <1>11 DEF MainStep, Collect

\* The places a process can be follow the main process: it can only be past the
\* polling loop once the collector is, and no collection starts before it left.
LEMMA NextPhases ==
  ASSUME IInv, [Next]_vars
  PROVE  Phases' /\ ToldTheTruth'
<1> USE DEF IInv, TypeOK, Phases, ToldTheTruth, shared, Goto, MainGoto, PCs, Counted, InGC
<1>1. ASSUME NEW p \in Workers, BeginSpawn(p)
      PROVE  Phases' /\ ToldTheTruth'
  BY <1>1 DEF BeginSpawn
<1>2. ASSUME NEW p \in Workers, CloneSucceeds(p) \/ CloneFails(p)
      PROVE  Phases' /\ ToldTheTruth'
  BY <1>2 DEF CloneSucceeds, CloneFails
<1>3. CASE WaitForGC
  <2>1. gc_running' /\ main' = "gathering" /\ main = "run"
    BY <1>3, Zenon DEF WaitForGC
  <2>2. UNCHANGED <<gc_error, outcome, pc, told>>
    BY <1>3 DEF WaitForGC
  <2> QED BY <2>1, <2>2
<1>4. CASE EveryoneStopped
  <2>1. Inside = Live
    BY <1>4, GatheredAll DEF EveryoneStopped
  <2>2. \A p \in Workers : pc[p] \notin Counted \ InGC
    BY <2>1 DEF Inside, Live
  <2> QED BY <1>4, <2>2 DEF EveryoneStopped
<1>5. CASE FinishGC
  BY <1>5 DEF FinishGC
<1>6. CASE GCFailed
  BY <1>6 DEF GCFailed
<1>7. CASE EveryoneLeft
  <2>1. Cardinality(Inside) = 0
    <3>1. Cardinality(Inside) \in Nat
      BY Finite DEF Inside
    <3> QED BY <1>7, <3>1 DEF EveryoneLeft, CountersExact
  <2>2. Inside = {}
    BY <2>1, Finite, FS_EmptySet DEF Inside
  <2>3. \A p \in Workers : pc[p] \notin InGC
    BY <2>2 DEF Inside
  <2> QED BY <1>7, <2>3 DEF EveryoneLeft
<1>8. CASE ReadNumProcs \/ WriteNumProcs
  BY <1>8 DEF ReadNumProcs, WriteNumProcs
<1>9. ASSUME NEW p \in Workers, PoolReturns(p) \/ PoolExits(p)
      PROVE  Phases' /\ ToldTheTruth'
  BY <1>9 DEF PoolReturns, PoolExits
<1>10. ASSUME NEW p \in Workers, WantCollection(p) \/ Park(p)
       PROVE  Phases' /\ ToldTheTruth'
  BY <1>10 DEF WantCollection, Park
<1>11. ASSUME NEW p \in Workers, Release(p) \/ ReadResult(p) \/ DoneWithCollection(p)
       PROVE  Phases' /\ ToldTheTruth'
  BY <1>11 DEF Release, ReadResult, DoneWithCollection
<1>12. CASE UNCHANGED vars
  BY <1>12 DEF vars
<1> QED
  BY <1>1, <1>2, <1>3, <1>4, <1>5, <1>6, <1>7, <1>8, <1>9, <1>10, <1>11, <1>12
     DEF Next, MainStep, WorkerStep, Collect, Over

\* Every step preserves the strengthened invariant.
LEMMA NextIInv == IInv /\ [Next]_vars => IInv'
<1> SUFFICES ASSUME IInv, [Next]_vars
             PROVE  IInv'
  OBVIOUS
<1>1. TypeOK'
  BY NextTypeOK DEF IInv
<1>2. Phases' /\ ToldTheTruth'
  BY NextPhases
<1>3. CountersExact'
  <2>1. CASE MainStep
    BY <2>1, MainCounters
  <2>2. ASSUME NEW p \in Workers, WorkerStep(p)
        PROVE  CountersExact'
    BY <2>2, WorkerCounters
  <2>3. CASE UNCHANGED vars
    BY <2>3, SameSets DEF vars, shared, IInv, CountersExact
  <2> QED BY <2>1, <2>2, <2>3 DEF Next, Over
<1> QED BY <1>1, <1>2, <1>3 DEF IInv

\* The counters and the program counters agree in every reachable state.
THEOREM Inductive == Spec => []IInv
BY InitIInv, NextIInv, PTL DEF Spec

-----------------------------------------------------------------------------
(* What follows from the invariant *)

\* gs_sys_wait_for_gc returns to a main process that is alone: for any number of
\* processes, created, refused or gone at any time.
THEOREM Alone == Spec => []CollectorAlone
<1>1. IInv => CollectorAlone
  BY DEF IInv, TypeOK, Phases, CollectorAlone, PCs, Counted, InGC
<1> QED BY <1>1, Inductive, PTL

\* The two integers that gs_sys_wait_for_gc compares count what they should.
THEOREM CountersCount == Spec => []CountersExact
<1>1. IInv => CountersExact
  BY DEF IInv
<1> QED BY <1>1, Inductive, PTL

\* gs_sys_wait_for_collection_to_finish returns the result of the collection its
\* caller stopped for.
THEOREM TruthTold == Spec => []ToldTheTruth
<1>1. IInv => ToldTheTruth
  BY DEF IInv
<1> QED BY <1>1, Inductive, PTL

\* No collection and no exit overtakes a process on its way out of the last one.
THEOREM NoneLeftBehind == Spec => NoStragglers
<1> DEFINE A == main' # main /\ main' \in {"gathering", "exiting"} =>
                  \A p \in Workers : pc[p] \notin InGC \cup {"wanted"}
<1>1. ASSUME IInv, [Next]_vars PROVE [A]_vars
  <2> SUFFICES ASSUME main' # main, main' \in {"gathering", "exiting"}
               PROVE  \A p \in Workers : pc[p] \notin InGC \cup {"wanted"}
    OBVIOUS
  <2>1. main = "run"
    BY <1>1 DEF Next, MainStep, WorkerStep, Collect, Over, vars, Goto, MainGoto,
         BeginSpawn, CloneSucceeds, CloneFails, WaitForGC, EveryoneStopped, FinishGC,
         GCFailed, EveryoneLeft, ReadNumProcs, WriteNumProcs, PoolReturns, PoolExits,
         WantCollection, Park, Release, ReadResult, DoneWithCollection
  <2> QED BY <1>1, <2>1 DEF IInv, Phases, InGC
<1> QED BY <1>1, Inductive, PTL DEF Spec, NoStragglers

-----------------------------------------------------------------------------
(* The refinement *)

\* A process that moves is at most one step of the barrier.
LEMMA WorkerRefines ==
  ASSUME IInv, NEW p \in Workers, WorkerStep(p)
  PROVE  [Abstract!Next]_(Abstract!vars)
<1> USE DEF IInv, TypeOK, Phases, shared, Goto, Counted, InGC
<1> USE DEF Abstract!Next, Abstract!vars, Abstract!Retire, Abstract!Enter, Abstract!Leave
<1>1. /\ Inside \in SUBSET Live
      /\ p \in Inside <=> pc[p] \in InGC
      /\ p \in Live <=> pc[p] \in Counted
  BY DEF Inside, Live
<1>2. ASSUME NEW to \in PCs, pc' = [pc EXCEPT ![p] = to]
      PROVE  /\ Inside' = IF to \in InGC THEN Inside \cup {p} ELSE Inside \ {p}
             /\ Live' = IF to \in Counted THEN Live \cup {p} ELSE Live \ {p}
  BY <1>2, MoveSets
<1>3. CASE PoolReturns(p)
  <2>1. Inside' = Inside /\ Live' = Live
    BY <1>1, <1>2, <1>3 DEF PoolReturns, PCs
  <2> QED BY <1>3, <2>1 DEF PoolReturns
<1>4. CASE PoolExits(p)
  <2>1. Inside' = Inside /\ Live' = Live \ {p} /\ p \in Live \ Inside
    <3>1. pc' = [pc EXCEPT ![p] = "gone"] /\ "gone" \in PCs
      BY <1>1, <1>2, <1>4 DEF PoolExits, PCs
    <3>2. /\ Inside' = IF "gone" \in InGC THEN Inside \cup {p} ELSE Inside \ {p}
          /\ Live' = IF "gone" \in Counted THEN Live \cup {p} ELSE Live \ {p}
      BY <3>1, MoveSets
    <3> QED BY <1>1, <1>2, <1>4, <3>2 DEF PoolExits
  <2>2. main' = main
    BY <1>4 DEF PoolExits
  <2>3. Abstract!Retire(p)
    BY <2>1, <2>2
  <2> QED BY <2>3
<1>5. CASE WantCollection(p)
  <2>1. Inside' = Inside /\ Live' = Live
    <3>1. pc' = [pc EXCEPT ![p] = "wanted"] /\ "wanted" \in PCs
      BY <1>1, <1>2, <1>5 DEF WantCollection, PCs
    <3>2. /\ Inside' = IF "wanted" \in InGC THEN Inside \cup {p} ELSE Inside \ {p}
          /\ Live' = IF "wanted" \in Counted THEN Live \cup {p} ELSE Live \ {p}
      BY <3>1, MoveSets
    <3> QED BY <1>1, <1>2, <1>5, <3>2 DEF WantCollection
  <2> QED BY <1>5, <2>1 DEF WantCollection
<1>6. CASE Park(p)
  <2>1. Inside' = Inside \cup {p} /\ Live' = Live /\ p \in Live \ Inside
    BY <1>1, <1>2, <1>6 DEF Park, PCs
  <2>2. main = "gathering" /\ main' = main
    BY <1>6 DEF Park
  <2>3. Abstract!Enter(p)
    BY <2>1, <2>2
  <2> QED BY <2>3
<1>7. CASE Release(p) \/ ReadResult(p)
  <2>1. Inside' = Inside /\ Live' = Live
    BY <1>1, <1>2, <1>7 DEF Release, ReadResult, PCs
  <2> QED BY <1>7, <2>1 DEF Release, ReadResult
<1>8. CASE DoneWithCollection(p)
  <2>1. Inside' = Inside \ {p} /\ Live' = Live /\ p \in Inside
    BY <1>1, <1>2, <1>8 DEF DoneWithCollection, PCs
  <2>2. main = "draining" /\ main' = main
    BY <1>8 DEF DoneWithCollection
  <2>3. Abstract!Leave(p)
    BY <2>1, <2>2
  <2> QED BY <2>3
<1> QED BY <1>3, <1>4, <1>5, <1>6, <1>7, <1>8 DEF WorkerStep

\* So is a step of the main process: the poll that finds the counters equal is
\* the abstract Stop, the one that finds nobody left is Reopen.
LEMMA MainRefines ==
  ASSUME IInv, MainStep
  PROVE  [Abstract!Next]_(Abstract!vars)
<1> USE DEF IInv, TypeOK, Phases, shared, Goto, MainGoto, Counted, InGC
<1> USE DEF Abstract!Next, Abstract!vars
<1>1. ASSUME NEW p \in Workers, NEW to \in PCs, pc' = [pc EXCEPT ![p] = to]
      PROVE  /\ Inside' = IF to \in InGC THEN Inside \cup {p} ELSE Inside \ {p}
             /\ Live' = IF to \in Counted THEN Live \cup {p} ELSE Live \ {p}
  BY <1>1, MoveSets
<1>2. ASSUME NEW p \in Workers, BeginSpawn(p)
      PROVE  [Abstract!Next]_(Abstract!vars)
  <2>1. p \notin Live /\ p \notin Inside
    BY <1>2 DEF BeginSpawn, Live, Inside
  <2>2. Inside' = Inside /\ Live' = Live \cup {p}
    <3>1. pc' = [pc EXCEPT ![p] = "cloning"] /\ "cloning" \in PCs
      BY <1>1, <1>2, <2>1 DEF BeginSpawn, PCs
    <3>2. /\ Inside' = IF "cloning" \in InGC THEN Inside \cup {p} ELSE Inside \ {p}
          /\ Live' = IF "cloning" \in Counted THEN Live \cup {p} ELSE Live \ {p}
      BY <3>1, MoveSets
    <3> QED BY <1>1, <1>2, <2>1, <3>2 DEF BeginSpawn
  <2>3. Abstract!Join(p)
    BY <1>2, <2>1, <2>2 DEF BeginSpawn, Abstract!Join
  <2> QED BY <2>3
<1>3. ASSUME NEW p \in Workers, CloneSucceeds(p)
      PROVE  [Abstract!Next]_(Abstract!vars)
  <2>1. p \in Live /\ p \notin Inside
    BY <1>3 DEF CloneSucceeds, Live, Inside
  <2>2. Inside' = Inside /\ Live' = Live
    <3>1. pc' = [pc EXCEPT ![p] = "run"] /\ "run" \in PCs
      BY <1>1, <1>3, <2>1 DEF CloneSucceeds, PCs
    <3>2. /\ Inside' = IF "run" \in InGC THEN Inside \cup {p} ELSE Inside \ {p}
          /\ Live' = IF "run" \in Counted THEN Live \cup {p} ELSE Live \ {p}
      BY <3>1, MoveSets
    <3> QED BY <1>1, <1>3, <2>1, <3>2 DEF CloneSucceeds
  <2> QED BY <1>3, <2>2 DEF CloneSucceeds
<1>4. ASSUME NEW p \in Workers, CloneFails(p)
      PROVE  [Abstract!Next]_(Abstract!vars)
  <2>1. p \in Live /\ p \notin Inside
    BY <1>4 DEF CloneFails, Live, Inside
  <2>2. Inside' = Inside /\ Live' = Live \ {p}
    <3>1. pc' = [pc EXCEPT ![p] = "unborn"] /\ "unborn" \in PCs
      BY <1>1, <1>4, <2>1 DEF CloneFails, PCs
    <3>2. /\ Inside' = IF "unborn" \in InGC THEN Inside \cup {p} ELSE Inside \ {p}
          /\ Live' = IF "unborn" \in Counted THEN Live \cup {p} ELSE Live \ {p}
      BY <3>1, MoveSets
    <3> QED BY <1>1, <1>4, <2>1, <3>2 DEF CloneFails
  <2>3. Abstract!Retire(p)
    BY <1>4, <2>1, <2>2 DEF CloneFails, Abstract!Retire
  <2> QED BY <2>3
<1>5. CASE WaitForGC
  <2>1. Inside = {}
    BY <1>5 DEF WaitForGC, Inside
  <2>2. Abstract!Request
    BY <1>5, <2>1, SameSets DEF WaitForGC, Abstract!Request
  <2> QED BY <2>2
<1>6. CASE EveryoneStopped
  <2>1. Inside = Live
    BY <1>6, GatheredAll DEF EveryoneStopped
  <2>2. Abstract!Stop
    BY <1>6, <2>1, SameSets DEF EveryoneStopped, Abstract!Stop
  <2> QED BY <2>2
<1>7. CASE Collect
  <2>1. main = "collecting" /\ main' = "draining" /\ pc' = pc
    BY <1>7 DEF Collect, FinishGC, GCFailed
  <2>2. Abstract!Resume
    BY <2>1, SameSets DEF Abstract!Resume
  <2> QED BY <2>2
<1>8. CASE EveryoneLeft
  <2>1. Cardinality(Inside) = 0
    BY <1>8, Finite DEF EveryoneLeft, CountersExact, Inside
  <2>2. Inside = {}
    BY <2>1, Finite, FS_EmptySet DEF Inside
  <2>3. Abstract!Reopen
    BY <1>8, <2>2, SameSets DEF EveryoneLeft, Abstract!Reopen
  <2> QED BY <2>3
<1>9. CASE ReadNumProcs \/ WriteNumProcs
  BY <1>9, SameSets DEF ReadNumProcs, WriteNumProcs
<1> QED BY <1>2, <1>3, <1>4, <1>5, <1>6, <1>7, <1>8, <1>9 DEF MainStep

\* Two counters, a flag and polling implement the barrier over sets of processes.
THEOREM Refines == Spec => Implements
<1>1. Init => Abstract!Init
  BY DEF Init, Abstract!Init, Inside, Live, InGC, Counted
<1>2. ASSUME IInv, [Next]_vars PROVE [Abstract!Next]_(Abstract!vars)
  <2>1. CASE UNCHANGED vars
    BY <2>1, SameSets DEF vars, Abstract!vars
  <2> QED BY <1>2, <2>1, WorkerRefines, MainRefines DEF Next, Over
<1> QED BY <1>1, <1>2, Inductive, PTL DEF Spec, Implements, Abstract!Spec

-----------------------------------------------------------------------------
(* The heap: its inductive invariant *)

\* A segment that class c has.
Ours(s, c) == seg[s] = "allocated" /\ class[s] = c

\* What the queue of write threads holds of process p.  Between collections it is a live
\* oport; during one the old copy is in from-space, or the new one, which forward names, is
\* live.  The process holds the same oport, or reads it off the forward pointer when it is
\* told how the collection ended.
Queued(p) ==
  /\ queued[p] # None => pc[p] \in {"run", "wanted"} \cup InGC
  /\ queued[p] # None =>
       IF stage = "none" THEN Ours(queued[p], "oports")
       ELSE IF forward[p] # None THEN Ours(forward[p], "oports")
       ELSE seg[queued[p]] = "from_space" /\ class[queued[p]] = "oports"
  /\ queued[p] # None /\ oport[p] # Wild =>
       queued[p] = IF stage = "none" /\ forward[p] # None THEN forward[p] ELSE oport[p]

\* A forward pointer is only found in the oport of a process that is stopped, has not
\* switched yet, and belongs to the collection under way or the one just over.
Forwarded(p) ==
  forward[p] # None =>
    /\ queued[p] # None
    /\ pc[p] \in InGC
    /\ at[p] \in {"reserved", "failed", "retold"}
    /\ stage # "none" \/ main = "draining"

\* What the API thread has of the oport, a value or a link, is what the queue has, or the
\* copy that a collection under way has made of it; until the process has entered the oport
\* in the queue, it is what the process has.
Means(p, r) ==
  r # None =>
    IF queued[p] = None THEN at[p] = "born" /\ pc[p] = "run" /\ r = oport[p]
    ELSE r = queued[p] \/ (stage # "none" /\ r = forward[p])

Pointed(p) == Means(p, held[p]) /\ Means(p, linked[p])

\* A process stops for a collection only between reserving its builder and the poll; one
\* that is not in the queue yet holds a live oport.
Round(p) ==
  /\ pc[p] \in {"unborn", "cloning"} => at[p] = "born"
  /\ pc[p] \in {"wanted", "parked", "released"} => at[p] = "reserved"
  /\ at[p] = "born" /\ pc[p] \in {"cloning", "run"} =>
       oport[p] \in Segments /\ Ours(oport[p], "oports")

\* The four together.
Served(p) == Queued(p) /\ Forwarded(p) /\ Pointed(p) /\ Round(p)

\* A stage of a collection is reached only while the main process collects.
Stage == stage # "none" => main = "collecting"

\* The inductive invariant, relative to that of the rendezvous.
HeapInv == HeapTypeOK /\ GlobalNurseriesOurs /\ Stage /\ \A p \in Writers : Served(p)

\* Every step of the heap is one of the rendezvous.
LEMMA HeapStepSteps == [HeapNext]_<<vars, heap>> => [Next]_vars
<1> SUFFICES ASSUME [HeapNext]_<<vars, heap>> PROVE [Next]_vars
  OBVIOUS
<1>1. CASE CollectorStep
  <2>1. CASE HeapWaitForGC \/ HeapGCFailed \/ MainIdle \/ \E s \in Segments : HeapFinishGC(s)
    BY <2>1, BuildersAreWorkers DEF HeapWaitForGC, HeapGCFailed, MainIdle, HeapFinishGC, Next, MainStep, Collect
  <2>2. CASE StartGC \/ \E s \in Segments : MainReserves(s) \/ TraceThreads(s) \/ Evacuate(s)
    BY <2>2 DEF StartGC, MainReserves, TraceThreads, Evacuate
  <2>3. CASE \E p \in Writers, s \in Segments : TraceOport(p, s)
    BY <2>3 DEF TraceOport
  <2>4. CASE \E p \in Writers, s \in Segments : OpenOport(p, s)
    BY <2>4, BuildersAreWorkers DEF OpenOport, Next, MainStep
  <2>5. CASE \E p \in Writers : OportOpened(p)
    BY <2>5, BuildersAreWorkers DEF OportOpened, Next, MainStep
  <2>6. CASE \E p \in Writers : StartWrite(p) \/ TraceHeld(p) \/ TraceLink(p)
    BY <2>6 DEF StartWrite, TraceHeld, TraceLink
  <2> QED BY <1>1, <2>1, <2>2, <2>3, <2>4, <2>5, <2>6 DEF CollectorStep
<1>2. ASSUME NEW p \in Builders, BuilderStep(p) PROVE [Next]_vars
  <2>0. p \in Workers
    BY BuildersAreWorkers DEF Builders
  <2>1. CASE Register(p) \/ PollFindsNothing(p) \/ ReportFailure(p) \/ FinishRound(p)
             \/ (\E s \in Segments : Reserve(p, s))
    BY <2>1 DEF Register, PollFindsNothing, ReportFailure, FinishRound, Reserve
  <2>2. CASE p \in Writers /\ (SwitchOport(p) \/ Unlink(p))
    BY <2>2 DEF SwitchOport, Unlink
  <2>3. CASE StopForGC(p) \/ HeapDoneWithCollection(p) \/ Leave(p) \/ PoolExits(p)
    <3>1. WorkerStep(p)
      BY <2>3 DEF StopForGC, HeapDoneWithCollection, Leave, WorkerStep
    <3> QED BY <2>0, <3>1 DEF Next
  <2> QED BY <1>2, <2>1, <2>2, <2>3 DEF BuilderStep
<1>3. ASSUME NEW p \in Workers, OtherWorker(p) PROVE [Next]_vars
  BY <1>3 DEF OtherWorker, Next
<1>4. ASSUME NEW s \in Segments, Mutate(s) PROVE [Next]_vars
  BY <1>4 DEF Mutate
<1> QED BY <1>1, <1>2, <1>3, <1>4 DEF HeapNext

\* Every run of the heap is a run of the rendezvous of alloc.c: what the segment
\* manager, the string builders and the write processes do lies between its steps.
\* What is shown above of the rendezvous therefore holds of every heap.
THEOREM HeapRendezvous == HeapSpec => Spec
<1>1. HeapInit => Init
  BY DEF HeapInit
<1> QED BY <1>1, HeapStepSteps, PTL DEF HeapSpec, Spec

-----------------------------------------------------------------------------
(* Segments and nurseries *)

\* The types of the segments and nurseries.
MemoryTypes ==
  /\ seg \in [Segments -> {"free", "allocated", "from_space"}]
  /\ class \in [Segments -> Classes]
  /\ nursery \in [Classes -> Pointers]

\* Nobody loses a segment in a step.
Grows == \A s \in Segments : seg[s] # "free" => seg'[s] = seg[s] /\ class'[s] = class[s]

\* gs_sys_global_block_suballoc hands out a segment of the class it was asked for and
\* leaves every nursery in a segment of its own class.
LEMMA SuballocFacts ==
  ASSUME MemoryTypes, GlobalNurseriesOurs, NEW c \in {"heap", "oports"}, NEW s \in Segments,
         Suballoc(c, s)
  PROVE  MemoryTypes' /\ GlobalNurseriesOurs' /\ Grows /\ Ours(s, c)'
<1>0. None \notin Segments /\ c \in Classes /\ Pointers = Segments \cup {None}
  BY SegmentsAreNat DEF Segments, None, Classes, Pointers
<1>1. CASE s = nursery[c] /\ UNCHANGED <<seg, class>>
  BY <1>0, <1>1 DEF Suballoc, MemoryTypes, GlobalNurseriesOurs, NurseryOurs, Grows, Ours, Classes
<1>2. CASE BlockAlloc(c, s)
  <2>1. /\ seg[s] = "free"
        /\ seg' = [seg EXCEPT ![s] = "allocated"]
        /\ class' = [class EXCEPT ![s] = c]
    BY <1>2 DEF BlockAlloc, FreeSegments
  <2>2. nursery' = [nursery EXCEPT ![c] = s] \/ nursery' = [nursery EXCEPT ![c] = None]
    BY DEF Suballoc
  <2>3. MemoryTypes'
    BY <1>0, <2>1, <2>2 DEF MemoryTypes
  <2>4. Grows /\ Ours(s, c)'
    BY <2>1 DEF MemoryTypes, Grows, Ours
  <2>5. \A d \in Classes : nursery'[d] = nursery[d] \/ (d = c /\ nursery'[d] \in {s, None})
    BY <2>2 DEF MemoryTypes
  <2>6. GlobalNurseriesOurs'
    <3> SUFFICES ASSUME NEW d \in Classes \ {"strings"}, nursery'[d] # None
                 PROVE  seg'[nursery'[d]] = "allocated" /\ class'[nursery'[d]] = d
      BY DEF GlobalNurseriesOurs, NurseryOurs
    <3>1. CASE nursery'[d] = nursery[d]
      <4>1. nursery[d] \in Segments /\ seg[nursery[d]] = "allocated" /\ class[nursery[d]] = d
        BY <1>0, <3>1 DEF GlobalNurseriesOurs, NurseryOurs, MemoryTypes
      <4> QED BY <2>4, <3>1, <4>1 DEF Grows
    <3>2. CASE d = c /\ nursery'[d] = s
      BY <2>4, <3>2 DEF Ours
    <3> QED BY <2>5, <3>1, <3>2
  <2> QED BY <2>3, <2>4, <2>6
<1> QED BY <1>1, <1>2 DEF Suballoc

\* gsreserve_string_builder takes the string nursery or a free segment; the other two
\* nurseries and every segment in use stay as they are.
LEMMA ReserveFacts ==
  ASSUME MemoryTypes, GlobalNurseriesOurs, NEW s \in Segments, ReserveBuilder(s)
  PROVE  MemoryTypes' /\ GlobalNurseriesOurs' /\ Grows
<1>0. None \notin Segments /\ "strings" \in Classes /\ Pointers = Segments \cup {None}
  BY SegmentsAreNat DEF Segments, None, Classes, Pointers
<1>1. CASE nursery' = [nursery EXCEPT !["strings"] = None] /\ UNCHANGED <<seg, class>>
  BY <1>0, <1>1 DEF MemoryTypes, GlobalNurseriesOurs, NurseryOurs, Grows
<1>2. CASE BlockAlloc("strings", s) /\ UNCHANGED nursery
  <2>1. /\ seg[s] = "free"
        /\ seg' = [seg EXCEPT ![s] = "allocated"]
        /\ class' = [class EXCEPT ![s] = "strings"]
    BY <1>2 DEF BlockAlloc, FreeSegments
  <2>2. MemoryTypes' /\ Grows
    BY <1>0, <1>2, <2>1 DEF MemoryTypes, Grows
  <2>3. GlobalNurseriesOurs'
    <3> SUFFICES ASSUME NEW d \in Classes \ {"strings"}, nursery[d] # None
                 PROVE  seg'[nursery[d]] = "allocated" /\ class'[nursery[d]] = d
      BY <1>2 DEF GlobalNurseriesOurs, NurseryOurs
    <3>1. nursery[d] \in Segments /\ seg[nursery[d]] = "allocated" /\ class[nursery[d]] = d
      BY <1>0 DEF GlobalNurseriesOurs, NurseryOurs, MemoryTypes
    <3> QED BY <2>2, <3>1 DEF Grows
  <2> QED BY <2>2, <2>3
<1> QED BY <1>1, <1>2 DEF ReserveBuilder

\* gsfinish_string_builder touches no nursery but that of the strings.
LEMMA FinishFacts ==
  ASSUME MemoryTypes, GlobalNurseriesOurs, NEW s \in Pointers, FinishBuilder(s)
  PROVE  MemoryTypes' /\ GlobalNurseriesOurs' /\ Grows
BY DEF FinishBuilder, MemoryTypes, GlobalNurseriesOurs, NurseryOurs, Grows, Classes

\* After the pre-callbacks of gs_sys_start_gc no nursery is left.
LEMMA StartFacts ==
  ASSUME MemoryTypes, StartGC
  PROVE  MemoryTypes' /\ GlobalNurseriesOurs'
BY DEF StartGC, MemoryTypes, GlobalNurseriesOurs, NurseryOurs, Pointers, Classes

\* When from-space is freed, a nursery set during the collection is not in it, and the
\* segment of the copied write queue is an allocated segment of oports.
LEMMA CollectedFacts ==
  ASSUME MemoryTypes, GlobalNurseriesOurs, NEW s \in Segments, HeapFinishGC(s)
  PROVE  /\ MemoryTypes' /\ GlobalNurseriesOurs' /\ Ours(s, "oports")'
         /\ \A r \in Segments : Ours(r, "oports") => Ours(r, "oports")'
<1>0. None \notin Segments /\ Pointers = Segments \cup {None}
  BY SegmentsAreNat DEF Segments, None, Classes, Pointers
<1>1. /\ s = nursery["oports"] \/ seg[s] = "free"
      /\ class' = [t \in Segments |-> IF t = s THEN "oports"
                                  ELSE IF seg[t] = "from_space" THEN "heap" ELSE class[t]]
      /\ seg' = [t \in Segments |-> IF t = s THEN "allocated"
                                ELSE IF seg[t] = "from_space" THEN "free" ELSE seg[t]]
      /\ nursery' = [nursery EXCEPT !["oports"] = s]
  BY DEF HeapFinishGC, FreeSegments
<1>2. MemoryTypes'
  BY <1>0, <1>1 DEF MemoryTypes, Classes
<1>3. Ours(s, "oports")' /\ \A r \in Segments : Ours(r, "oports") => Ours(r, "oports")'
  BY <1>1 DEF Ours
<1>4. s = nursery["oports"] => class[s] = "oports"
  BY <1>0 DEF GlobalNurseriesOurs, NurseryOurs, Classes
<1>5. GlobalNurseriesOurs'
  <2> SUFFICES ASSUME NEW d \in Classes \ {"strings"}, nursery'[d] # None
                 PROVE  seg'[nursery'[d]] = "allocated" /\ class'[nursery'[d]] = d
      BY DEF GlobalNurseriesOurs, NurseryOurs
  <2>1. CASE d = "oports"
    BY <1>1, <1>3, <2>1 DEF Ours, MemoryTypes
  <2>2. CASE d = "heap"
    <3>1. nursery'["heap"] = nursery["heap"] /\ nursery["heap"] \in Segments
      BY <1>0, <1>1, <2>2 DEF MemoryTypes, Classes
    <3>2. seg[nursery["heap"]] = "allocated" /\ class[nursery["heap"]] = "heap"
      BY <2>2, <3>1, <1>0 DEF GlobalNurseriesOurs, NurseryOurs
    <3>3. nursery["heap"] # s
      BY <1>1, <1>4, <3>2
    <3> QED BY <1>1, <2>2, <3>1, <3>2, <3>3
  <2> QED BY <2>1, <2>2 DEF Classes
<1> QED BY <1>2, <1>3, <1>5

\* A failed collection turns from-space back into allocated segments of the same class.
LEMMA FailedFacts ==
  ASSUME HeapTypeOK, GlobalNurseriesOurs, HeapGCFailed
  PROVE  /\ MemoryTypes' /\ GlobalNurseriesOurs'
         /\ class' = class
         /\ \A s \in Segments : seg'[s] = IF seg[s] = "from_space" THEN "allocated" ELSE seg[s]
<1>0. None \notin Segments /\ Pointers = Segments \cup {None}
  BY SegmentsAreNat DEF Segments, None, Classes, Pointers
<1>1. /\ class' = class
      /\ seg' = [s \in Segments |-> IF seg[s] = "from_space" THEN "allocated" ELSE seg[s]]
      /\ nursery' = nursery \/ nursery' = [nursery EXCEPT !["strings"] = main_err]
      /\ main_err \in Pointers
  BY DEF HeapGCFailed, HeapTypeOK
<1>2. MemoryTypes'
  BY <1>1 DEF HeapTypeOK, MemoryTypes
<1>3. GlobalNurseriesOurs'
  <2> SUFFICES ASSUME NEW d \in Classes \ {"strings"}, nursery'[d] # None
               PROVE  seg'[nursery'[d]] = "allocated" /\ class'[nursery'[d]] = d
    BY DEF GlobalNurseriesOurs, NurseryOurs
  <2>1. nursery'[d] = nursery[d] /\ nursery[d] \in Pointers
    BY <1>1 DEF HeapTypeOK
  <2> QED BY <1>0, <1>1, <2>1 DEF GlobalNurseriesOurs, NurseryOurs
<1> QED BY <1>1, <1>2, <1>3

-----------------------------------------------------------------------------
(* Types *)

\* The types of everything but the segments.
OtherTypes ==
  /\ in_gc \in BOOLEAN
  /\ stage \in Stages
  /\ {main_err, error_text} \subseteq Pointers
  /\ at \in [Builders -> Places]
  /\ builder \in [Builders -> Pointers]
  /\ oport \in [Writers -> Pointers \cup {Wild}]
  /\ queued \in [Writers -> Pointers]
  /\ held \in [Writers -> Pointers]
  /\ linked \in [Writers -> Pointers]
  /\ forward \in [Writers -> Pointers]

\* What a step of one process leaves alone of another.
Apart(p) ==
  /\ pc'[p] = pc[p]
  /\ at'[p] = at[p]
  /\ oport'[p] = oport[p]
  /\ queued'[p] = queued[p]
  /\ held'[p] = held[p]
  /\ linked'[p] = linked[p]
  /\ forward'[p] = forward[p]

\* The type invariant in two parts.
LEMMA TypesSplit == HeapTypeOK <=> MemoryTypes /\ OtherTypes
BY DEF HeapTypeOK, MemoryTypes, OtherTypes

\* A step that leaves segments and nurseries alone.
LEMMA SameMemory ==
  ASSUME MemoryTypes, GlobalNurseriesOurs, UNCHANGED memory
  PROVE  MemoryTypes' /\ GlobalNurseriesOurs' /\ Grows
BY DEF memory, MemoryTypes, GlobalNurseriesOurs, NurseryOurs, Grows

\* The memory a step of a builder leaves.
LEMMA BuilderMemory ==
  ASSUME HeapTypeOK, GlobalNurseriesOurs, NEW q \in Builders, BuilderStep(q)
  PROVE  MemoryTypes' /\ GlobalNurseriesOurs' /\ Grows
<1>0. MemoryTypes /\ builder[q] \in Pointers
  BY DEF HeapTypeOK, MemoryTypes
<1>1. CASE ReportFailure(q) \/ FinishRound(q)
  BY <1>0, <1>1, FinishFacts DEF ReportFailure, FinishRound
<1>2. ASSUME NEW s \in Segments, Reserve(q, s) PROVE MemoryTypes' /\ GlobalNurseriesOurs' /\ Grows
  BY <1>0, <1>2, ReserveFacts DEF Reserve
<1>3. CASE UNCHANGED memory
  BY <1>0, <1>3, SameMemory
<1> QED BY <1>1, <1>2, <1>3 DEF BuilderStep, Register, PollFindsNothing, StopForGC, SwitchOport, Unlink,
           HeapDoneWithCollection, Leave, heap

\* A step of a builder keeps the types: a process enters its oport into the queue only
\* while nobody has followed a wild pointer.
LEMMA BuilderTypes ==
  ASSUME HeapTypeOK, GlobalNurseriesOurs, ~Lost, NEW q \in Builders, BuilderStep(q)
  PROVE  HeapTypeOK'
<1> USE DEF HeapTypeOK, OtherTypes
<1>0. /\ Builders = Writers \cup Readers
      /\ Pointers = Segments \cup {None}
      /\ \A p \in Writers : oport[p] \in Pointers
      /\ {"top", "reserved", "retold", "polled", "failed", "switched"} \subseteq Places
  BY DEF Builders, Pointers, Lost, Places
<1>1. MemoryTypes'
  BY BuilderMemory
<1>2. CASE Register(q)
  <2>1. at' \in [Builders -> Places]
    BY <1>0, <1>2 DEF Register, Step
  <2>2. queued' \in [Writers -> Pointers]
    BY <1>0, <1>2 DEF Register
  <2>a. UNCHANGED <<in_gc, stage, main_err, error_text, builder, oport, held, linked, forward>>
    BY <1>2 DEF Register, strings
  <2>3. OtherTypes'
    BY <2>1, <2>2, <2>a
  <2> QED BY <1>1, <2>3, TypesSplit, PTL
<1>3. CASE PollFindsNothing(q) \/ HeapDoneWithCollection(q)
  <2>1. at' \in [Builders -> Places]
    BY <1>0, <1>3 DEF PollFindsNothing, HeapDoneWithCollection, Step
  <2>2. UNCHANGED <<in_gc, stage, strings, ports>>
    BY <1>3 DEF PollFindsNothing, HeapDoneWithCollection
  <2>3. OtherTypes'
    BY <2>1, <2>2 DEF strings, ports
  <2> QED BY <1>1, <2>3, TypesSplit, PTL
<1>4. CASE StopForGC(q) \/ (PoolExits(q) /\ UNCHANGED heap)
  <2>1. OtherTypes'
    BY <1>4 DEF StopForGC, heap, strings, ports
  <2> QED BY <1>1, <2>1, TypesSplit, PTL
<1>5. CASE ReportFailure(q) \/ FinishRound(q)
  <2>1. at' \in [Builders -> Places] /\ builder' \in [Builders -> Pointers]
    BY <1>0, <1>5 DEF ReportFailure, FinishRound, Step
  <2>2. UNCHANGED <<in_gc, stage, main_err, error_text, ports>>
    BY <1>5 DEF ReportFailure, FinishRound
  <2>3. OtherTypes'
    BY <2>1, <2>2 DEF ports
  <2> QED BY <1>1, <2>3, TypesSplit, PTL
<1>6. ASSUME q \in Writers, SwitchOport(q) PROVE HeapTypeOK'
  <2>1. at' \in [Builders -> Places]
    BY <1>0, <1>6 DEF SwitchOport, Step
  <2>2. forward' \in [Writers -> Pointers]
    BY <1>0, <1>6 DEF SwitchOport
  <2>3. oport' \in [Writers -> Pointers \cup {Wild}]
    BY <1>0, <1>6 DEF SwitchOport
  <2>4. UNCHANGED <<in_gc, stage, main_err, error_text, builder, queued, held, linked>>
    BY <1>6 DEF SwitchOport, strings
  <2>5. OtherTypes'
    BY <2>1, <2>2, <2>3, <2>4
  <2> QED BY <1>1, <2>5, TypesSplit, PTL
<1>7. CASE Leave(q)
  <2>1. {queued', held', linked'} \subseteq [Writers -> Pointers]
    BY <1>0, <1>7 DEF Leave
  <2>2. UNCHANGED <<in_gc, stage, main_err, error_text, builder, at, oport, forward>>
    BY <1>7 DEF Leave, strings
  <2>3. OtherTypes'
    BY <2>1, <2>2
  <2> QED BY <1>1, <2>3, TypesSplit, PTL
<1>8. ASSUME NEW s \in Segments, Reserve(q, s) PROVE HeapTypeOK'
  <2>1. at' \in [Builders -> Places]
    BY <1>0, <1>8 DEF Reserve, Step
  <2>2. builder' \in [Builders -> Pointers]
    BY <1>0, <1>8 DEF Reserve
  <2>3. UNCHANGED <<in_gc, stage, main_err, error_text, oport, queued, held, linked, forward>>
    BY <1>8 DEF Reserve, ports
  <2>4. OtherTypes'
    BY <2>1, <2>2, <2>3
  <2> QED BY <1>1, <2>4, TypesSplit, PTL
<1>9. ASSUME q \in Writers, Unlink(q) PROVE HeapTypeOK'
  <2>1. linked' \in [Writers -> Pointers]
    BY <1>0, <1>9 DEF Unlink
  <2>2. UNCHANGED <<in_gc, stage, main_err, error_text, builder, at, oport, queued, held, forward>>
    BY <1>9 DEF Unlink, strings
  <2>3. OtherTypes'
    BY <2>1, <2>2
  <2> QED BY <1>1, <2>3, TypesSplit, PTL
<1> QED BY <1>2, <1>3, <1>4, <1>5, <1>6, <1>7, <1>8, <1>9 DEF BuilderStep

\* A step of the collector keeps the types and the nurseries.
LEMMA CollectorTypes ==
  ASSUME HeapTypeOK, GlobalNurseriesOurs, ~Lost, CollectorStep
  PROVE  HeapTypeOK' /\ GlobalNurseriesOurs'
<1> USE DEF HeapTypeOK, OtherTypes
<1>0. /\ Pointers = Segments \cup {None}
      /\ MemoryTypes
  BY DEF Pointers, MemoryTypes
<1>1. CASE UNCHANGED heap
  <2>1. UNCHANGED memory /\ OtherTypes'
    BY <1>1 DEF heap, strings, ports
  <2> QED BY <1>0, <2>1, SameMemory, TypesSplit, PTL
<1>2. CASE StartGC
  <2>1. OtherTypes'
    BY <1>2 DEF StartGC, strings, ports, Stages
  <2>2. MemoryTypes' /\ GlobalNurseriesOurs'
    BY <1>0, <1>2, StartFacts
  <2> QED BY <2>1, <2>2, TypesSplit, PTL
<1>3. CASE HeapGCFailed
  <2>1. /\ queued' \in [Writers -> Pointers]
        /\ held' \in [Writers -> Pointers]
        /\ linked' \in [Writers -> Pointers]
    BY <1>0, <1>3 DEF HeapGCFailed
  <2>a. /\ in_gc' \in BOOLEAN /\ stage' \in Stages
        /\ main_err' \in Pointers /\ error_text' \in Pointers
    BY <1>0, <1>3 DEF HeapGCFailed, Stages
  <2>b. UNCHANGED <<builder, at, oport, forward>>
    BY <1>3 DEF HeapGCFailed
  <2>2. OtherTypes'
    BY <2>1, <2>a, <2>b
  <2>3. MemoryTypes' /\ GlobalNurseriesOurs'
    BY <1>3, FailedFacts
  <2> QED BY <2>2, <2>3, TypesSplit, PTL
<1>4. ASSUME NEW s \in Segments, MainReserves(s) \/ TraceThreads(s) PROVE HeapTypeOK' /\ GlobalNurseriesOurs'
  <2>1. OtherTypes'
    BY <1>0, <1>4 DEF MainReserves, TraceThreads, ports, Stages
  <2>2. MemoryTypes' /\ GlobalNurseriesOurs'
    BY <1>0, <1>4, ReserveFacts DEF MainReserves, TraceThreads
  <2> QED BY <2>1, <2>2, TypesSplit, PTL
<1>5. ASSUME NEW s \in Segments, Evacuate(s) PROVE HeapTypeOK' /\ GlobalNurseriesOurs'
  <2>1. OtherTypes'
    BY <1>5 DEF Evacuate, strings, ports
  <2>2. MemoryTypes' /\ GlobalNurseriesOurs'
    BY <1>0, <1>5, SuballocFacts DEF Evacuate
  <2> QED BY <2>1, <2>2, TypesSplit, PTL
<1>6. ASSUME NEW s \in Segments, HeapFinishGC(s) PROVE HeapTypeOK' /\ GlobalNurseriesOurs'
  <2>1. forward' = [p \in Writers |-> IF queued[p] # None /\ forward[p] = None THEN s ELSE forward[p]]
    BY <1>6 DEF HeapFinishGC
  <2>2. forward' \in [Writers -> Pointers]
    BY <1>0, <2>1
  <2>3. queued' = [p \in Writers |-> IF queued[p] # None THEN forward'[p] ELSE None]
    BY <1>6 DEF HeapFinishGC
  <2>4. queued' \in [Writers -> Pointers]
    BY <1>0, <2>2, <2>3
  <2>a. held' = [p \in Writers |-> IF held[p] = forward[p] THEN held[p] ELSE None]
    BY <1>6 DEF HeapFinishGC
  <2>b. held' \in [Writers -> Pointers]
    BY <1>0, <2>a
  <2>5. OtherTypes'
    BY <1>0, <1>6, <2>2, <2>4, <2>b DEF HeapFinishGC, Stages
  <2>6. MemoryTypes' /\ GlobalNurseriesOurs'
    BY <1>0, <1>6, CollectedFacts
  <2> QED BY <2>5, <2>6, TypesSplit, PTL
<1>7. ASSUME NEW p \in Writers, NEW s \in Segments, TraceOport(p, s) PROVE HeapTypeOK' /\ GlobalNurseriesOurs'
  <2>1. OtherTypes'
    BY <1>0, <1>7 DEF TraceOport, strings
  <2>2. MemoryTypes' /\ GlobalNurseriesOurs'
    BY <1>0, <1>7, SuballocFacts DEF TraceOport
  <2> QED BY <2>1, <2>2, TypesSplit, PTL
<1>8. ASSUME NEW p \in Writers, NEW s \in Segments, OpenOport(p, s) PROVE HeapTypeOK' /\ GlobalNurseriesOurs'
  <2>1. OtherTypes'
    BY <1>0, <1>8 DEF OpenOport, strings
  <2>2. MemoryTypes' /\ GlobalNurseriesOurs'
    BY <1>0, <1>8, SuballocFacts DEF OpenOport
  <2> QED BY <2>1, <2>2, TypesSplit, PTL
<1>9. HeapWaitForGC \/ MainIdle => UNCHANGED heap
  BY DEF HeapWaitForGC, MainIdle
<1>10. ASSUME NEW p \in Writers, OportOpened(p) \/ StartWrite(p) \/ TraceHeld(p) \/ TraceLink(p)
       PROVE  HeapTypeOK' /\ GlobalNurseriesOurs'
  <2>1. oport[p] \in Pointers
    BY DEF Lost
  <2>2. held' \in [Writers -> Pointers]
    BY <1>10, <2>1 DEF OportOpened, StartWrite, TraceHeld, TraceLink
  <2>3. linked' \in [Writers -> Pointers]
    BY <1>10 DEF OportOpened, StartWrite, TraceHeld, TraceLink
  <2>4. UNCHANGED <<memory, in_gc, stage, strings, at, oport, queued, forward>>
    BY <1>10 DEF OportOpened, StartWrite, TraceHeld, TraceLink
  <2>5. OtherTypes'
    BY <2>2, <2>3, <2>4 DEF strings
  <2>6. MemoryTypes' /\ GlobalNurseriesOurs'
    BY <1>0, <2>4, SameMemory
  <2> QED BY <2>5, <2>6, TypesSplit, PTL
<1> QED BY <1>1, <1>2, <1>3, <1>4, <1>5, <1>6, <1>7, <1>8, <1>9, <1>10 DEF CollectorStep

\* A type invariant of the heap with the nurseries it needs.
LEMMA TypesStep ==
  ASSUME HeapTypeOK, GlobalNurseriesOurs, [HeapNext]_<<vars, heap>>
  PROVE  HeapTypeOK' /\ GlobalNurseriesOurs'
<1>0. MemoryTypes
  BY DEF HeapTypeOK, MemoryTypes
<1>1. CASE UNCHANGED heap
  <2>1. UNCHANGED memory /\ OtherTypes'
    BY <1>1 DEF heap, strings, ports, HeapTypeOK, OtherTypes
  <2> QED BY <1>0, <2>1, SameMemory, TypesSplit, PTL
<1>2. ASSUME ~Lost, NEW q \in Builders, BuilderStep(q) PROVE HeapTypeOK' /\ GlobalNurseriesOurs'
  BY <1>2, BuilderTypes, BuilderMemory
<1>3. ASSUME NEW s \in Segments, Mutate(s) PROVE HeapTypeOK' /\ GlobalNurseriesOurs'
  <2>1. OtherTypes'
    BY <1>3 DEF Mutate, strings, ports, HeapTypeOK, OtherTypes
  <2>2. MemoryTypes' /\ GlobalNurseriesOurs'
    BY <1>0, <1>3, SuballocFacts DEF Mutate
  <2> QED BY <2>1, <2>2, TypesSplit, PTL
<1> QED BY <1>1, <1>2, <1>3, CollectorTypes DEF HeapNext, OtherWorker

-----------------------------------------------------------------------------
(* The oport a write process serves *)

\* What the API thread has of p's oport stays right when neither that nor the oport moves.
LEMMA KeptPointers ==
  ASSUME NEW p \in Writers, Served(p), (stage = "none") <=> (stage' = "none"),
         oport'[p] = oport[p], queued'[p] = queued[p], forward'[p] = forward[p],
         held'[p] = held[p], linked'[p] = linked[p],
         at[p] = "born" /\ pc[p] = "run" => at'[p] = "born" /\ pc'[p] = "run"
  PROVE  Pointed(p)'
BY DEF Served, Pointed, Means

\* A step that moves no segment, no oport and no queue entry of p keeps what is
\* true of p, provided it goes where the round of a write process goes.
LEMMA Kept ==
  ASSUME HeapTypeOK, NEW p \in Writers, Served(p), Grows,
         (stage = "none") <=> (stage' = "none"),
         oport'[p] = oport[p], queued'[p] = queued[p], forward'[p] = forward[p],
         Pointed(p)',
         queued[p] # None => pc'[p] \in {"run", "wanted"} \cup InGC,
         forward[p] # None =>
           /\ pc'[p] \in InGC
           /\ at'[p] \in {"reserved", "failed", "retold"}
           /\ stage # "none" \/ main' = "draining",
         pc'[p] \in {"unborn", "cloning"} => at'[p] = "born",
         pc'[p] \in {"wanted", "parked", "released"} => at'[p] = "reserved",
         at'[p] = "born" /\ pc'[p] \in {"cloning", "run"} =>
           at[p] = "born" /\ pc[p] \in {"cloning", "run"}
  PROVE  Served(p)'
<1>0. /\ queued[p] # None => queued[p] \in Segments
      /\ forward[p] # None => forward[p] \in Segments
  BY DEF HeapTypeOK, Pointers
<1>1. \A s \in Segments : Ours(s, "oports") => Ours(s, "oports")'
  BY DEF Grows, Ours
<1>2. Queued(p)'
  <2>1. queued'[p] # None => pc'[p] \in {"run", "wanted"} \cup InGC
    OBVIOUS
  <2>2. ASSUME queued'[p] # None
        PROVE  IF stage' = "none" THEN Ours(queued[p], "oports")'
               ELSE IF forward[p] # None THEN Ours(forward[p], "oports")'
               ELSE seg'[queued[p]] = "from_space" /\ class'[queued[p]] = "oports"
    <3>1. CASE stage = "none"
      BY <1>0, <1>1, <2>2, <3>1 DEF Served, Queued, Ours
    <3>2. CASE stage # "none" /\ forward[p] # None
      BY <1>0, <1>1, <2>2, <3>2 DEF Served, Queued, Ours
    <3>3. CASE stage # "none" /\ forward[p] = None
      BY <1>0, <2>2, <3>3 DEF Served, Queued, Grows
    <3> QED BY <3>1, <3>2, <3>3
  <2>3. queued'[p] # None /\ oport'[p] # Wild =>
          queued'[p] = IF stage' = "none" /\ forward'[p] # None THEN forward'[p] ELSE oport'[p]
    BY DEF Served, Queued
  <2> QED BY <2>1, <2>2, <2>3 DEF Queued, Ours
<1>3. Forwarded(p)'
  BY DEF Served, Forwarded
<1>4. Round(p)'
  <2>1. at'[p] = "born" /\ pc'[p] \in {"cloning", "run"} => oport[p] \in Segments /\ Ours(oport[p], "oports")'
    BY <1>1 DEF Served, Round, Ours
  <2> QED BY <2>1 DEF Round, Ours
<1> QED BY <1>2, <1>3, <1>4 DEF Served

\* The steps that leave a process p where it is and all it points to.
LEMMA KeptApart ==
  ASSUME HeapTypeOK, NEW p \in Writers, Served(p), Grows, Apart(p),
         (stage = "none") <=> (stage' = "none"),
         forward[p] # None => stage # "none" \/ main' = "draining"
  PROVE  Served(p)'
BY Kept, KeptPointers DEF Apart, Served, Queued, Forwarded, Round

\* A process that neither waits for a collection nor is inside one has no oport
\* that moved.
LEMMA NotForwarded ==
  ASSUME NEW p \in Writers, Served(p), pc[p] \notin InGC \/ (stage = "none" /\ main # "draining")
  PROVE  forward[p] = None
BY DEF Served, Forwarded

\* What a step of a builder q leaves alone.
LEMMA BuilderApart ==
  ASSUME HeapTypeOK, TypeOK, NEW q \in Builders, BuilderStep(q)
  PROVE  /\ stage' = stage /\ main' = main
         /\ \A p \in Writers : p # q => Apart(p)
<1> USE DEF HeapTypeOK, TypeOK, Apart, Step, Goto, heap, ports, vars
<1>0. q \in Workers /\ Writers \subseteq Builders /\ Writers \subseteq Workers
  BY BuildersAreWorkers DEF Builders
<1>1. CASE Register(q)
  BY <1>0, <1>1 DEF Register
<1>2. CASE PollFindsNothing(q)
  BY <1>0, <1>2 DEF PollFindsNothing
<1>3. CASE StopForGC(q)
  BY <1>0, <1>3 DEF StopForGC, WantCollection, Park, Release, ReadResult
<1>4. CASE ReportFailure(q) \/ FinishRound(q)
  BY <1>0, <1>4 DEF ReportFailure, FinishRound
<1>5. ASSUME q \in Writers, SwitchOport(q) PROVE stage' = stage /\ main' = main /\ \A p \in Writers : p # q => Apart(p)
  <2>1. \A p \in Writers : p # q => oport'[p] = oport[p] /\ forward'[p] = forward[p]
    BY <1>5 DEF SwitchOport
  <2>2. \A p \in Writers : p # q => at'[p] = at[p]
    BY <1>0, <1>5 DEF SwitchOport
  <2> QED BY <1>5, <2>1, <2>2 DEF SwitchOport
<1>a. ASSUME q \in Writers, Unlink(q) PROVE stage' = stage /\ main' = main /\ \A p \in Writers : p # q => Apart(p)
  BY <1>a DEF Unlink
<1>6. CASE HeapDoneWithCollection(q)
  BY <1>0, <1>6 DEF HeapDoneWithCollection, DoneWithCollection
<1>7. CASE Leave(q)
  BY <1>0, <1>7 DEF Leave, PoolReturns
<1>8. CASE PoolExits(q) /\ UNCHANGED heap
  BY <1>0, <1>8 DEF PoolExits
<1>9. ASSUME NEW s \in Segments, Reserve(q, s) PROVE stage' = stage /\ main' = main /\ \A p \in Writers : p # q => Apart(p)
  BY <1>0, <1>9 DEF Reserve
<1> QED BY <1>1, <1>2, <1>3, <1>4, <1>5, <1>a, <1>6, <1>7, <1>8, <1>9 DEF BuilderStep

\* ... and what it makes of the write process that takes it.
LEMMA BuilderServed ==
  ASSUME HeapInv, IInv, ~Lost, NEW p \in Writers, BuilderStep(p)
  PROVE  Served(p)'
<1>0. /\ p \in Workers /\ p \in Builders /\ Writers \subseteq Builders
      /\ HeapTypeOK /\ Served(p) /\ Stage /\ GlobalNurseriesOurs
      /\ TypeOK /\ Phases
      /\ oport[p] # Wild
  BY BuildersAreWorkers DEF Builders, HeapInv, IInv, Lost
<1>1. Grows
  BY <1>0, BuilderMemory
<1>2. stage' = stage /\ main' = main
  BY <1>0, BuilderApart
<1>3. pc \in [Workers -> PCs] /\ at \in [Builders -> Places]
  BY <1>0 DEF HeapTypeOK, TypeOK
<1>4. pc[p] = "run" => stage = "none" /\ forward[p] = None
  BY <1>0, NotForwarded DEF Phases, Counted, InGC, Stage
<1> USE DEF InGC
<1>5. CASE Register(p)
  <2>1. /\ pc[p] = "run" /\ at[p] = "born" /\ at' = [at EXCEPT ![p] = "top"]
        /\ queued' = [queued EXCEPT ![p] = oport[p]]
        /\ UNCHANGED <<pc, seg, class, oport, forward>>
    BY <1>5 DEF Register, Step, vars, memory
  <2>2. at'[p] = "top" /\ queued'[p] = oport[p]
    BY <1>0, <1>3, <2>1 DEF HeapTypeOK
  <2>3. oport[p] \in Segments /\ Ours(oport[p], "oports")
    BY <1>0, <2>1 DEF Served, Round
  <2>4. Ours(oport[p], "oports")'
    BY <2>1, <2>3 DEF Ours
  <2>5. Queued(p)'
    BY <1>2, <1>4, <2>1, <2>2, <2>4 DEF Queued, Ours
  <2>6. Forwarded(p)' /\ Round(p)'
    BY <1>4, <2>1, <2>2 DEF Forwarded, Round
  <2>7. oport[p] = queued[p] \/ queued[p] = None
    BY <1>0, <1>4, <2>1 DEF Served, Queued
  <2>8. UNCHANGED <<held, linked, stage>>
    BY <1>5 DEF Register
  <2>9. Pointed(p)'
    <3>1. stage' = "none" /\ oport[p] # None
      BY <1>2, <1>4, <2>1, <2>3 DEF Segments, None
    <3>2. ASSUME NEW r, Means(p, r), r # None PROVE r = oport[p]
      BY <1>4, <2>1, <2>7, <3>2 DEF Means
    <3>3. /\ held[p] # None => held[p] = queued'[p]
          /\ linked[p] # None => linked[p] = queued'[p]
      BY <1>0, <2>2, <3>2 DEF Served, Pointed
    <3> QED BY <2>2, <2>8, <3>1, <3>3 DEF Pointed, Means
  <2> QED BY <2>5, <2>6, <2>9 DEF Served
<1>6. CASE PollFindsNothing(p)
  <2>1. /\ pc[p] = "run" /\ at[p] = "reserved" /\ at' = [at EXCEPT ![p] = "polled"]
        /\ UNCHANGED <<pc, oport, queued, held, linked, forward>>
    BY <1>6 DEF PollFindsNothing, Step, vars, ports
  <2>2. at'[p] = "polled"
    BY <1>0, <1>3, <2>1
  <2>3. Pointed(p)'
    BY <1>0, <1>2, <2>1, KeptPointers
  <2> QED BY <1>0, <1>1, <1>2, <1>4, <2>1, <2>2, <2>3, Kept
<1>7. CASE StopForGC(p)
  <2>1. at[p] = "reserved" /\ UNCHANGED <<at, oport, queued, held, linked, forward>>
    BY <1>7 DEF StopForGC, heap, ports
  <2>2. pc'[p] \in {"wanted"} \cup InGC /\ (pc'[p] = "wanted" => pc[p] = "run")
    BY <1>0, <1>3, <1>7 DEF StopForGC, WantCollection, Park, Release, ReadResult, Goto
  <2>3. forward[p] # None => pc'[p] \in InGC
    BY <1>4, <2>2
  <2>4. forward[p] # None => stage # "none" \/ main' = "draining"
    BY <1>0, <1>2 DEF Served, Forwarded
  <2>5. Pointed(p)'
    BY <1>0, <1>2, <2>1, KeptPointers
  <2> QED BY <1>0, <1>1, <1>2, <2>1, <2>2, <2>3, <2>4, <2>5, Kept
<1>8. CASE ReportFailure(p)
  <2>1. /\ pc[p] = "told" /\ at' = [at EXCEPT ![p] = "failed"]
        /\ UNCHANGED <<pc, oport, queued, held, linked, forward>>
    BY <1>8 DEF ReportFailure, Step, vars, ports
  <2>2. at'[p] = "failed"
    BY <1>0, <1>3, <2>1
  <2>3. forward[p] # None => stage # "none" \/ main' = "draining"
    BY <1>0, <1>2 DEF Served, Forwarded
  <2>4. Pointed(p)'
    BY <1>0, <1>2, <2>1, KeptPointers
  <2> QED BY <1>0, <1>1, <1>2, <2>1, <2>2, <2>3, <2>4, Kept
<1>9. CASE SwitchOport(p)
  <2>1. /\ pc[p] = "told" /\ pc' = pc /\ queued' = queued /\ UNCHANGED <<seg, class>>
        /\ at' = [at EXCEPT ![p] = "switched"]
        /\ forward' = [forward EXCEPT ![p] = None]
        /\ \/ oport' = [oport EXCEPT ![p] = IF forward[p] # None THEN forward[p] ELSE oport[p]]
           \/ oport' = [oport EXCEPT ![p] = Wild]
    BY <1>9 DEF SwitchOport, Step, vars, memory
  <2>2. /\ at'[p] = "switched" /\ forward'[p] = None
        /\ oport'[p] = Wild \/ oport'[p] = IF forward[p] # None THEN forward[p] ELSE oport[p]
    BY <1>0, <1>3, <2>1 DEF HeapTypeOK
  <2>3. stage = "none"
    BY <1>0, <2>1 DEF Phases, Stage
  <2>4. queued[p] # None => Ours(queued[p], "oports")
    BY <1>0, <2>3 DEF Served, Queued
  <2>5. queued[p] # None => queued[p] = IF forward[p] # None THEN forward[p] ELSE oport[p]
    BY <1>0, <2>3 DEF Served, Queued
  <2>6. Queued(p)'
    BY <1>2, <2>1, <2>2, <2>3, <2>4, <2>5 DEF Queued, Ours
  <2>7. Forwarded(p)' /\ Round(p)'
    BY <2>1, <2>2 DEF Forwarded, Round
  <2>8. UNCHANGED <<held, linked, stage>>
    BY <1>9 DEF SwitchOport
  <2>9. Pointed(p)'
    BY <1>0, <2>1, <2>3, <2>8 DEF Served, Pointed, Means
  <2> QED BY <2>6, <2>7, <2>9 DEF Served
<1>10. CASE HeapDoneWithCollection(p)
  <2>1. /\ pc[p] = "told" /\ pc' = [pc EXCEPT ![p] = "run"]
        /\ at[p] = "switched" /\ at' = [at EXCEPT ![p] = "polled"]
        /\ UNCHANGED <<oport, queued, held, linked, forward>>
    BY <1>10 DEF HeapDoneWithCollection, DoneWithCollection, Goto, Step, ports
  <2>2. at'[p] = "polled" /\ pc'[p] = "run"
    BY <1>0, <1>3, <2>1
  <2>3. forward[p] = None
    BY <1>0, <2>1 DEF Served, Forwarded
  <2>4. Pointed(p)'
    BY <1>0, <1>2, <2>1, KeptPointers
  <2> QED BY <1>0, <1>1, <1>2, <2>1, <2>2, <2>3, <2>4, Kept
<1>11. CASE FinishRound(p)
  <2>1. /\ pc[p] = "run" /\ at[p] = "polled" /\ at' = [at EXCEPT ![p] = "top"]
        /\ UNCHANGED <<pc, oport, queued, held, linked, forward>>
    BY <1>11 DEF FinishRound, Step, vars, ports
  <2>2. at'[p] = "top"
    BY <1>0, <1>3, <2>1
  <2>3. Pointed(p)'
    BY <1>0, <1>2, <2>1, KeptPointers
  <2> QED BY <1>0, <1>1, <1>2, <1>4, <2>1, <2>2, <2>3, Kept
<1>12. CASE Leave(p)
  <2>1. /\ pc[p] = "run" /\ pc' = [pc EXCEPT ![p] = "returned"]
        /\ queued' = [queued EXCEPT ![p] = None] /\ UNCHANGED forward
        /\ held' = [held EXCEPT ![p] = None] /\ linked' = [linked EXCEPT ![p] = None]
    BY <1>12 DEF Leave, PoolReturns, Goto
  <2>2. /\ pc'[p] = "returned" /\ queued'[p] = None /\ forward'[p] = None
        /\ held'[p] = None /\ linked'[p] = None
    BY <1>0, <1>3, <1>4, <2>1 DEF HeapTypeOK
  <2> QED BY <2>2 DEF Served, Queued, Forwarded, Pointed, Means, Round
<1>13. CASE PoolExits(p) /\ UNCHANGED heap
  <2>1. /\ pc[p] = "returned" /\ pc' = [pc EXCEPT ![p] = "gone"]
        /\ UNCHANGED <<queued, held, linked, forward>>
    BY <1>13 DEF PoolExits, Goto, heap, ports
  <2>2. pc'[p] = "gone" /\ queued'[p] = None /\ forward'[p] = None
    BY <1>0, <1>3, <2>1 DEF Served, Queued, Forwarded
  <2>3. held'[p] = None /\ linked'[p] = None
    BY <1>0, <2>1, <2>2 DEF Served, Pointed, Means
  <2> QED BY <2>2, <2>3 DEF Served, Queued, Forwarded, Pointed, Means, Round
<1>14. ASSUME NEW s \in Segments, Reserve(p, s) PROVE Served(p)'
  <2>1. /\ pc' = pc /\ UNCHANGED <<oport, queued, held, linked, forward>>
        /\ \/ pc[p] = "run" /\ at[p] = "top" /\ at' = [at EXCEPT ![p] = "reserved"]
           \/ pc[p] = "told" /\ at' = [at EXCEPT ![p] = "retold"]
    BY <1>14 DEF Reserve, Step, vars, ports
  <2>2. /\ pc[p] = "run" \/ pc[p] = "told"
        /\ pc[p] = "run" => at'[p] = "reserved"
        /\ pc[p] = "told" => at'[p] = "retold"
    <3>1. CASE pc[p] = "run" /\ at' = [at EXCEPT ![p] = "reserved"]
      BY <1>0, <1>3, <3>1
    <3>2. CASE pc[p] = "told" /\ at' = [at EXCEPT ![p] = "retold"]
      BY <1>0, <1>3, <3>2
    <3> QED BY <2>1, <3>1, <3>2
  <2>3. forward[p] # None => stage # "none" \/ main' = "draining"
    BY <1>0, <1>2 DEF Served, Forwarded
  <2>4. Pointed(p)'
    BY <1>0, <1>2, <2>1, KeptPointers
  <2> QED BY <1>0, <1>1, <1>2, <1>4, <2>1, <2>2, <2>3, <2>4, Kept
<1>15. CASE Unlink(p)
  <2>1. /\ pc' = pc /\ UNCHANGED <<at, oport, queued, held, forward>>
        /\ linked' = [linked EXCEPT ![p] = None]
    BY <1>15 DEF Unlink, vars
  <2>2. linked'[p] = None
    BY <1>0, <2>1 DEF HeapTypeOK
  <2>3. Pointed(p)'
    BY <1>0, <1>2, <2>1, <2>2 DEF Served, Pointed, Means
  <2> QED BY <1>0, <1>1, <1>2, <1>4, <2>1, <2>3, Kept DEF Served, Queued, Forwarded, Round
<1> QED BY <1>5, <1>6, <1>7, <1>8, <1>9, <1>10, <1>11, <1>12, <1>13, <1>14, <1>15 DEF BuilderStep

\* What a step of the collector makes of each write process.
LEMMA CollectorServed ==
  ASSUME HeapInv, IInv, IInv', ~Lost, CollectorStep, NEW p \in Writers
  PROVE  Served(p)'
<1>0. /\ p \in Workers /\ Writers \subseteq Workers
      /\ HeapTypeOK /\ Served(p) /\ Stage /\ GlobalNurseriesOurs
      /\ TypeOK /\ Phases /\ Phases'
      /\ oport[p] # Wild
      /\ MemoryTypes
      /\ Pointers = Segments \cup {None} /\ None \notin Segments
  BY BuildersAreWorkers, SegmentsAreNat
     DEF Builders, HeapInv, IInv, Lost, MemoryTypes, HeapTypeOK, Pointers, None, Segments
<1>1. pc \in [Workers -> PCs]
  BY <1>0 DEF TypeOK
<1>2. main = "collecting" /\ queued[p] # None => pc[p] \in InGC /\ at[p] = "reserved"
  BY <1>0 DEF Served, Queued, Round, Phases, Counted, InGC
<1>3. main = "collecting" => pc[p] \notin {"cloning", "run", "wanted", "released"}
  BY <1>0 DEF Phases, Counted, InGC
<1>4. main \notin {"collecting", "draining"} => forward[p] = None
  BY <1>0 DEF Served, Forwarded, Stage
<1>5. forward[p] # None => stage # "none" \/ main = "draining"
  BY <1>0 DEF Served, Forwarded
<1>a. /\ forward[p] # None => forward[p] \in Segments
      /\ queued[p] # None => queued[p] \in Segments
  BY <1>0 DEF HeapTypeOK
<1>b. Queued(p) /\ Forwarded(p)
  BY <1>0 DEF Served
<1>c. forward[p] # None => queued[p] # None
  BY <1>b DEF Forwarded
<1>d. queued[p] # None /\ stage # "none" /\ forward[p] # None => Ours(forward[p], "oports")
  BY <1>b DEF Queued
<1>e. queued[p] # None /\ stage # "none" /\ forward[p] = None =>
        seg[queued[p]] = "from_space" /\ class[queued[p]] = "oports"
  BY <1>b DEF Queued
<1>f. Pointed(p)
  BY <1>0 DEF Served
<1>g. main = "collecting" /\ queued[p] = None => held[p] = None /\ linked[p] = None
  BY <1>3, <1>f DEF Pointed, Means
<1>6. CASE HeapWaitForGC
  <2>1. Apart(p) /\ UNCHANGED <<stage, memory>> /\ main = "run"
    BY <1>6 DEF HeapWaitForGC, WaitForGC, MainGoto, heap, ports, Apart
  <2>2. Grows
    BY <1>0, <2>1, SameMemory
  <2> QED BY <1>0, <1>4, <2>1, <2>2, KeptApart
<1>7. CASE StartGC
  <2>1. /\ main = "collecting" /\ stage = "none" /\ stage' = "roots"
        /\ seg' = [s \in Segments |-> IF seg[s] = "allocated" THEN "from_space" ELSE seg[s]]
        /\ UNCHANGED <<class, pc, at, oport, queued, held, linked, forward, main>>
    BY <1>7 DEF StartGC, vars, ports
  <2>2. forward[p] = None
    BY <1>0, <2>1 DEF Served, Forwarded
  <2>3. queued[p] # None => Ours(queued[p], "oports") /\ queued[p] = oport[p] /\ queued[p] \in Segments
    BY <1>0, <2>1, <2>2 DEF Served, Queued, HeapTypeOK
  <2>4. queued[p] # None => seg'[queued[p]] = "from_space" /\ class'[queued[p]] = "oports"
    BY <2>1, <2>3 DEF Ours
  <2>5. Queued(p)'
    BY <1>2, <2>1, <2>2, <2>3, <2>4 DEF Queued
  <2>6. Forwarded(p)' /\ Round(p)'
    BY <1>0, <1>3, <2>1, <2>2 DEF Served, Forwarded, Round
  <2>7. Pointed(p)'
    BY <1>f, <1>g, <2>1 DEF Pointed, Means
  <2> QED BY <2>5, <2>6, <2>7 DEF Served
<1>8. CASE HeapGCFailed
  <2>1. /\ main = "collecting" /\ stage # "none" /\ stage' = "none" /\ main' = "draining"
        /\ queued' = [q \in Writers |-> IF forward[q] # None THEN forward[q] ELSE queued[q]]
        /\ UNCHANGED <<pc, at, oport, forward>>
    BY <1>8 DEF HeapGCFailed, GCFailed, MainGoto
  <2>2. /\ class' = class
        /\ \A s \in Segments : seg'[s] = IF seg[s] = "from_space" THEN "allocated" ELSE seg[s]
    BY <1>0, <1>8, FailedFacts
  <2>3. queued'[p] = IF forward[p] # None THEN forward[p] ELSE queued[p]
    BY <2>1
  <2>4. queued[p] # None => queued[p] \in Segments
    BY <1>0 DEF HeapTypeOK
  <2>5. forward[p] # None => forward[p] \in Segments /\ queued[p] # None
    BY <1>a, <1>c
  <2>6. queued'[p] # None => Ours(queued[p], "oports")'
    <3>1. CASE forward[p] # None
      BY <1>d, <2>1, <2>2, <2>3, <2>5, <3>1 DEF Ours
    <3>2. CASE forward[p] = None
      BY <1>e, <2>1, <2>2, <2>3, <2>4, <3>2 DEF Ours
    <3> QED BY <3>1, <3>2
  <2>7. queued'[p] # None => queued[p] # None
    BY <2>3, <2>5
  <2>8. queued'[p] # None => queued'[p] = IF forward[p] # None THEN forward[p] ELSE oport[p]
    BY <1>0, <1>b, <2>1, <2>3, <2>7 DEF Queued
  <2>9. Queued(p)'
    BY <1>2, <2>1, <2>6, <2>7, <2>8 DEF Queued, Ours
  <2>10. Forwarded(p)' /\ Round(p)'
    BY <1>0, <1>2, <1>3, <2>1, <2>3, <2>5 DEF Served, Forwarded, Round
  <2>11. /\ held'[p] = None
         /\ linked'[p] = IF linked[p] # None /\ forward[p] # None THEN forward[p] ELSE linked[p]
    BY <1>8 DEF HeapGCFailed
  <2>12. linked'[p] # None => queued'[p] # None /\ linked'[p] = queued'[p]
    <3>1. CASE forward[p] # None
      BY <2>3, <2>11, <3>1
    <3>2. CASE forward[p] = None
      BY <1>f, <1>g, <2>1, <2>3, <2>11, <3>2 DEF Pointed, Means
    <3> QED BY <3>1, <3>2
  <2>13. Pointed(p)'
    BY <2>11, <2>12 DEF Pointed, Means
  <2> QED BY <2>9, <2>10, <2>13 DEF Served
<1>9. CASE MainIdle
  <2>1. UNCHANGED <<stage, memory, at, oport, queued, held, linked, forward>>
    BY <1>9 DEF MainIdle, heap, ports
  <2>2. Grows
    BY <1>0, <2>1, SameMemory
  <2>3. CASE pc' = pc
    <3>1. forward[p] # None => stage # "none" \/ main' = "draining"
      <4>1. CASE EveryoneLeft
        <5>1. main' = "run"
          BY <4>1 DEF EveryoneLeft, MainGoto
        <5>2. pc[p] \notin InGC
          BY <1>0, <2>3, <5>1 DEF Phases, InGC
        <5> QED BY <1>0, <5>2 DEF Served, Forwarded
      <4>2. CASE ~EveryoneLeft
        <5>1. main = "run" \/ main = "gathering" \/ main = "exiting" \/ main = "spawning"
          BY <1>9, <4>2 DEF MainIdle, EveryoneStopped, ReadNumProcs, WriteNumProcs, BeginSpawn,
             CloneSucceeds, CloneFails, MainGoto
        <5> QED BY <1>4, <5>1
      <4> QED BY <4>1, <4>2
    <3> QED BY <1>0, <2>1, <2>2, <2>3, <3>1, KeptApart DEF Apart
  <2>4. ASSUME NEW q \in Workers,
               (q # p /\ BeginSpawn(q)) \/ (q # p /\ CloneSucceeds(q)) \/ CloneFails(q)
        PROVE  Served(p)'
    <3>1. main \in {"run", "spawning"}
      BY <2>4 DEF BeginSpawn, CloneSucceeds, CloneFails, MainGoto
    <3>2. forward[p] = None
      BY <1>4, <3>1
    <3>3. CASE q # p
      <4>1. pc'[p] = pc[p]
        BY <1>0, <1>1, <2>4, <3>3 DEF BeginSpawn, CloneSucceeds, CloneFails, Goto
      <4> QED BY <1>0, <2>1, <2>2, <3>2, <4>1, KeptApart DEF Apart
    <3>4. CASE q = p
      <4>1. pc[p] = "cloning" /\ pc'[p] = "unborn"
        <5>1. CloneFails(p)
          BY <2>4, <3>4
        <5> QED BY <1>0, <1>1, <5>1 DEF CloneFails, Goto
      <4>2. queued[p] = None
        BY <1>0, <4>1 DEF Served, Queued, InGC
      <4>3. Queued(p)' /\ Forwarded(p)'
        BY <2>1, <3>2, <4>2 DEF Queued, Forwarded
      <4>4. Round(p)'
        BY <1>0, <2>1, <4>1 DEF Served, Round, memory, Ours
      <4>5. held[p] = None /\ linked[p] = None
        BY <1>f, <4>1, <4>2 DEF Pointed, Means
      <4>6. Pointed(p)'
        BY <2>1, <4>5 DEF Pointed, Means
      <4> QED BY <4>3, <4>4, <4>6 DEF Served
    <3> QED BY <3>3, <3>4
  <2>5. CASE EveryoneStopped \/ EveryoneLeft \/ ReadNumProcs \/ WriteNumProcs
    BY <2>3, <2>5 DEF EveryoneStopped, EveryoneLeft, ReadNumProcs, WriteNumProcs
  <2>6. ASSUME NEW q \in Workers \ Writers, BeginSpawn(q) \/ CloneSucceeds(q) PROVE Served(p)'
    <3>1. q \in Workers /\ q # p
      OBVIOUS
    <3> QED BY <2>4, <2>6, <3>1
  <2> QED BY <1>9, <2>4, <2>5, <2>6 DEF MainIdle
<1>10. ASSUME NEW s \in Segments, MainReserves(s) \/ TraceThreads(s) \/ Evacuate(s)
       PROVE  Served(p)'
  <2>1. Grows
    BY <1>0, <1>10, ReserveFacts, SuballocFacts DEF MainReserves, TraceThreads, Evacuate
  <2>2. Apart(p) /\ main' = main /\ ((stage = "none") <=> (stage' = "none"))
    BY <1>10 DEF MainReserves, TraceThreads, Evacuate, vars, ports, Apart
  <2> QED BY <1>0, <1>5, <2>1, <2>2, KeptApart
<1>11. ASSUME NEW s \in Segments, HeapFinishGC(s) PROVE Served(p)'
  <2>1. /\ main = "collecting" /\ stage # "none" /\ stage' = "none" /\ main' = "draining"
        /\ forward' = [q \in Writers |-> IF queued[q] # None /\ forward[q] = None THEN s ELSE forward[q]]
        /\ UNCHANGED <<pc, at, oport, linked>>
    BY <1>11 DEF HeapFinishGC, FinishGC, MainGoto
  <2>2. queued' = [q \in Writers |-> IF queued[q] # None THEN forward'[q] ELSE None]
    BY <1>11 DEF HeapFinishGC
  <2>3. Ours(s, "oports")' /\ \A r \in Segments : Ours(r, "oports") => Ours(r, "oports")'
    BY <1>0, <1>11, CollectedFacts
  <2>4. /\ forward'[p] = IF queued[p] # None /\ forward[p] = None THEN s ELSE forward[p]
        /\ queued'[p] = IF queued[p] # None THEN forward'[p] ELSE None
    BY <2>1, <2>2
  <2>5. queued[p] = None => queued'[p] = None /\ forward'[p] = None
    BY <1>0, <2>4 DEF Served, Forwarded
  <2>6. queued[p] # None => queued'[p] = forward'[p] /\ forward'[p] # None /\ Ours(forward[p], "oports")'
    <3>1. CASE forward[p] # None /\ queued[p] # None
      <4>1. Ours(forward[p], "oports") /\ forward[p] \in Segments
        BY <1>a, <1>d, <2>1, <3>1
      <4>2. forward'[p] = forward[p]
        BY <2>4, <3>1
      <4>4. seg'[forward[p]] = "allocated" /\ class'[forward[p]] = "oports"
        BY <2>3, <4>1 DEF Ours
      <4> QED BY <2>4, <3>1, <4>2, <4>4 DEF Ours
    <3>2. CASE forward[p] = None
      <4> HAVE queued[p] # None
      <4>1. forward'[p] = s /\ queued'[p] = s /\ s # None
        BY <1>0, <2>4, <3>2
      <4>2. seg'[s] = "allocated" /\ class'[s] = "oports"
        BY <2>3 DEF Ours
      <4> QED BY <4>1, <4>2 DEF Ours
    <3> QED BY <3>1, <3>2
  <2>7. Queued(p)'
    BY <1>2, <2>1, <2>5, <2>6 DEF Queued, Ours
  <2>8. Forwarded(p)' /\ Round(p)'
    BY <1>0, <1>2, <1>3, <2>1, <2>5, <2>6 DEF Served, Forwarded, Round
  <2>9. /\ held'[p] = IF held[p] = forward[p] THEN held[p] ELSE None
        /\ linked[p] # None => linked[p] = forward[p]
    BY <1>11 DEF HeapFinishGC, LinksTraced
  <2>10. forward[p] # None => forward'[p] = forward[p] /\ queued'[p] = forward[p]
    BY <1>c, <2>4
  <2>11. held'[p] # None => held'[p] = queued'[p] /\ queued'[p] # None
    BY <2>9, <2>10
  <2>12. linked'[p] # None => linked'[p] = queued'[p] /\ queued'[p] # None
    BY <2>1, <2>9, <2>10
  <2>13. Pointed(p)'
    BY <2>11, <2>12 DEF Pointed, Means
  <2> QED BY <2>7, <2>8, <2>13 DEF Served
<1>12. ASSUME NEW q \in Writers, NEW s \in Segments, TraceOport(q, s) PROVE Served(p)'
  <2>1. /\ stage = "threads" /\ {held[q], linked[q]} # {None} /\ forward[q] = None
        /\ forward' = [forward EXCEPT ![q] = s]
        /\ UNCHANGED <<pc, at, oport, queued, held, linked, stage, main>>
    BY <1>12 DEF TraceOport, vars
  <2>2. Grows /\ Ours(s, "oports")'
    BY <1>0, <1>12, SuballocFacts DEF TraceOport
  <2>3. CASE q # p
    <3>1. forward'[p] = forward[p]
      BY <1>0, <2>1, <2>3 DEF HeapTypeOK
    <3> QED BY <1>0, <1>5, <2>1, <2>2, <3>1, KeptApart DEF Apart
  <2>4. CASE q = p
    <3>1. forward'[p] = s /\ s # None /\ main = "collecting"
      BY <1>0, <2>1, <2>4 DEF HeapTypeOK, Stage
    <3>a. queued[p] # None
      BY <1>g, <2>1, <2>4, <3>1
    <3>2. Queued(p)'
      BY <1>0, <1>2, <2>1, <2>2, <2>4, <3>1 DEF Served, Queued, Ours
    <3>3. Forwarded(p)' /\ Round(p)'
      BY <1>0, <1>2, <1>3, <2>1, <2>4, <3>1, <3>a DEF Served, Forwarded, Round
    <3>4. Pointed(p)'
      BY <1>f, <2>1, <2>4, <3>a DEF Pointed, Means
    <3> QED BY <3>2, <3>3, <3>4 DEF Served
  <2> QED BY <2>3, <2>4
<1>13. ASSUME NEW q \in Writers, NEW s \in Segments, OpenOport(q, s) PROVE Served(p)'
  <2>1. /\ main = "run" /\ pc[q] = "unborn" /\ pc' = [pc EXCEPT ![q] = "cloning"]
        /\ oport' = [oport EXCEPT ![q] = s]
        /\ UNCHANGED <<at, queued, held, linked, forward, stage>>
    BY <1>13 DEF OpenOport, BeginSpawn, MainGoto, Goto
  <2>2. Grows /\ Ours(s, "oports")'
    BY <1>0, <1>13, SuballocFacts DEF OpenOport
  <2>3. CASE q # p
    <3>1. oport'[p] = oport[p] /\ pc'[p] = pc[p]
      BY <1>0, <1>1, <2>1, <2>3 DEF HeapTypeOK
    <3> QED BY <1>0, <1>4, <2>1, <2>2, <3>1, KeptApart DEF Apart
  <2>4. CASE q = p
    <3>1. oport'[p] = s /\ pc'[p] = "cloning"
      BY <1>0, <1>1, <2>1, <2>4 DEF HeapTypeOK
    <3>2. queued[p] = None /\ forward[p] = None
      BY <1>0, <1>4, <2>1, <2>4 DEF Served, Queued, InGC
    <3>3. Queued(p)' /\ Forwarded(p)'
      BY <2>1, <3>2 DEF Queued, Forwarded
    <3>4. Round(p)'
      BY <1>0, <2>1, <2>2, <2>4, <3>1 DEF Served, Round, Ours
    <3>5. held[p] = None /\ linked[p] = None
      BY <1>f, <2>1, <2>4, <3>2 DEF Pointed, Means
    <3>6. Pointed(p)'
      BY <2>1, <3>5 DEF Pointed, Means
    <3> QED BY <3>3, <3>4, <3>6 DEF Served
  <2> QED BY <2>3, <2>4
<1>14. ASSUME NEW q \in Writers, OportOpened(q) PROVE Served(p)'
  <2>1. /\ main = "spawning" /\ pc[q] = "cloning" /\ pc' = [pc EXCEPT ![q] = "run"]
        /\ held' = [held EXCEPT ![q] = oport[q]]
        /\ UNCHANGED <<memory, at, oport, queued, linked, forward, stage>>
    BY <1>14 DEF OportOpened, CloneSucceeds, MainGoto, Goto
  <2>2. Grows
    BY <1>0, <2>1, SameMemory
  <2>3. CASE q # p
    <3>1. held'[p] = held[p] /\ pc'[p] = pc[p]
      BY <1>0, <1>1, <2>1, <2>3 DEF HeapTypeOK
    <3> QED BY <1>0, <1>4, <2>1, <2>2, <3>1, KeptApart DEF Apart
  <2>4. CASE q = p
    <3>1. held'[p] = oport[p] /\ pc'[p] = "run"
      BY <1>0, <1>1, <2>1, <2>4 DEF HeapTypeOK
    <3>2. queued[p] = None /\ forward[p] = None
      BY <1>b, <1>4, <2>1, <2>4 DEF Queued, InGC
    <3>3. linked[p] = None
      BY <1>f, <2>1, <2>4, <3>2 DEF Pointed, Means
    <3>4. at[p] = "born"
      BY <1>0, <2>1, <2>4 DEF Served, Round
    <3>5. Queued(p)' /\ Forwarded(p)'
      BY <2>1, <3>2 DEF Queued, Forwarded
    <3>6. Round(p)'
      BY <1>0, <2>1, <2>4, <3>1, <3>4 DEF Served, Round, memory, Ours
    <3>7. Pointed(p)'
      BY <2>1, <3>1, <3>2, <3>3, <3>4 DEF Pointed, Means
    <3> QED BY <3>5, <3>6, <3>7 DEF Served
  <2> QED BY <2>3, <2>4
<1>15. ASSUME NEW q \in Writers, StartWrite(q) \/ TraceHeld(q) \/ TraceLink(q) PROVE Served(p)'
  <2>1. UNCHANGED <<vars, memory, at, oport, queued, forward, stage>>
    BY <1>15 DEF StartWrite, TraceHeld, TraceLink
  <2>2. Grows
    BY <1>0, <2>1, SameMemory
  <2>3. pc' = pc /\ main' = main
    BY <2>1 DEF vars
  <2>4. CASE q # p
    <3>1. held'[p] = held[p] /\ linked'[p] = linked[p]
      BY <1>0, <1>15, <2>4 DEF HeapTypeOK, StartWrite, TraceHeld, TraceLink
    <3> QED BY <1>0, <1>5, <2>1, <2>2, <2>3, <3>1, KeptApart DEF Apart
  <2>5. CASE q = p
    <3>1. ASSUME StartWrite(p) PROVE Pointed(p)'
      <4>1. held'[p] = held[p] /\ linked'[p] = held[p]
        BY <1>0, <3>1 DEF HeapTypeOK, StartWrite
      <4> QED BY <1>f, <2>1, <2>3, <4>1 DEF Pointed, Means
    <3>2. ASSUME TraceHeld(p) \/ TraceLink(p) PROVE Pointed(p)'
      <4>1. /\ stage # "none" /\ forward[p] # None
            /\ held'[p] \in {held[p], forward[p]} /\ linked'[p] \in {linked[p], forward[p]}
        BY <1>0, <3>2 DEF HeapTypeOK, TraceHeld, TraceLink
      <4>2. queued[p] # None
        BY <1>c, <4>1
      <4> QED BY <1>f, <2>1, <4>1, <4>2 DEF Pointed, Means
    <3>3. Pointed(p)'
      BY <1>15, <2>5, <3>1, <3>2
    <3> QED BY <1>0, <1>5, <2>1, <2>2, <2>3, <3>3, Kept DEF Served, Queued, Forwarded, Round
  <2> QED BY <2>4, <2>5
<1> QED BY <1>6, <1>7, <1>8, <1>9, <1>10, <1>11, <1>12, <1>13, <1>14, <1>15 DEF CollectorStep

\* A collection is under way only while the main process collects.
LEMMA StageStep ==
  ASSUME HeapInv, TypeOK, [HeapNext]_<<vars, heap>>
  PROVE  Stage'
<1>0. HeapTypeOK /\ (stage # "none" => main = "collecting")
  BY DEF HeapInv, Stage
<1>1. ASSUME NEW q \in Builders, BuilderStep(q) PROVE Stage'
  BY <1>0, <1>1, BuilderApart DEF Stage
<1>2. CASE stage' = "none"
  BY <1>2 DEF Stage
<1>3. CASE UNCHANGED <<main, stage>>
  BY <1>0, <1>3 DEF Stage
<1>4. CASE CollectorStep
  <2>1. CASE HeapWaitForGC \/ MainIdle
    <3>1. stage' = stage /\ (main = "collecting" => FALSE)
      BY <2>1 DEF HeapWaitForGC, MainIdle, WaitForGC, EveryoneStopped, EveryoneLeft, ReadNumProcs,
         WriteNumProcs, BeginSpawn, CloneSucceeds, CloneFails, MainGoto, heap
    <3> QED BY <1>0, <3>1 DEF Stage
  <2>2. CASE StartGC \/ \E s \in Segments : MainReserves(s) \/ TraceThreads(s) \/ Evacuate(s)
    BY <1>0, <2>2 DEF StartGC, MainReserves, TraceThreads, Evacuate, vars, Stage
  <2>3. CASE HeapGCFailed \/ \E s \in Segments : HeapFinishGC(s)
    BY <1>2, <2>3 DEF HeapGCFailed, HeapFinishGC
  <2>4. CASE \E p \in Writers, s \in Segments : TraceOport(p, s) \/ OpenOport(p, s)
    BY <1>0, <2>4 DEF TraceOport, OpenOport, BeginSpawn, MainGoto, vars, Stage
  <2>5. CASE \E p \in Writers : OportOpened(p) \/ StartWrite(p) \/ TraceHeld(p) \/ TraceLink(p)
    BY <1>0, <2>5 DEF OportOpened, StartWrite, TraceHeld, TraceLink, CloneSucceeds, MainGoto, vars, Stage
  <2> QED BY <1>4, <2>1, <2>2, <2>3, <2>4, <2>5 DEF CollectorStep
<1>5. ASSUME NEW q \in Workers, OtherWorker(q) PROVE UNCHANGED <<main, stage>>
  BY <1>5 DEF OtherWorker, WorkerStep, PoolReturns, PoolExits, WantCollection, Park, Release,
     ReadResult, DoneWithCollection, heap
<1>6. ASSUME NEW s \in Segments, Mutate(s) PROVE UNCHANGED <<main, stage>>
  BY <1>6 DEF Mutate, vars
<1>7. CASE UNCHANGED <<vars, heap>>
  BY <1>3, <1>7 DEF vars, heap
<1> QED BY <1>1, <1>3, <1>4, <1>5, <1>6, <1>7 DEF HeapNext

\* The step of the induction; it needs the invariant of the rendezvous before and after
\* (who may run while the main process collects, and who is told when it drains).
LEMMA HeapInvStep == HeapInv /\ IInv /\ IInv' /\ [HeapNext]_<<vars, heap>> => HeapInv'
<1> SUFFICES ASSUME HeapInv, IInv, IInv', [HeapNext]_<<vars, heap>> PROVE HeapInv'
  OBVIOUS
<1>0. /\ HeapTypeOK /\ GlobalNurseriesOurs /\ Stage /\ TypeOK /\ MemoryTypes
      /\ Writers \subseteq Workers /\ Writers \subseteq Builders
  BY BuildersAreWorkers DEF HeapInv, IInv, HeapTypeOK, MemoryTypes, Builders
<1>1. HeapTypeOK' /\ GlobalNurseriesOurs'
  BY <1>0, TypesStep
<1>2. Stage'
  BY <1>0, StageStep
<1>3. ASSUME NEW p \in Writers PROVE Served(p)'
  <2>0. Served(p)
    BY DEF HeapInv
  <2>1. CASE ~Lost /\ CollectorStep
    BY <2>1, CollectorServed
  <2>2. ASSUME ~Lost, NEW q \in Builders, BuilderStep(q) PROVE Served(p)'
    <3>1. CASE q = p
      BY <2>2, <3>1, BuilderServed
    <3>2. CASE q # p
      <4>1. stage' = stage /\ main' = main /\ Apart(p)
        BY <1>0, <2>2, <3>2, BuilderApart
      <4>2. Grows
        BY <1>0, <2>2, BuilderMemory
      <4> QED BY <1>0, <2>0, <4>1, <4>2, KeptApart DEF Served, Forwarded
    <3> QED BY <3>1, <3>2
  <2>3. ASSUME NEW q \in Workers \ Builders, OtherWorker(q) PROVE Served(p)'
    <3>1. UNCHANGED <<memory, stage, at, oport, queued, held, linked, forward, main>> /\ pc'[p] = pc[p]
      BY <1>0, <2>3 DEF OtherWorker, WorkerStep, PoolReturns, PoolExits, WantCollection, Park, Release,
         ReadResult, DoneWithCollection, heap, ports, Goto, TypeOK
    <3>2. Grows
      BY <1>0, <3>1, SameMemory
    <3> QED BY <1>0, <2>0, <3>1, <3>2, KeptApart DEF Served, Forwarded, Apart
  <2>4. ASSUME NEW s \in Segments, Mutate(s) PROVE Served(p)'
    <3>1. UNCHANGED <<stage, at, oport, queued, held, linked, forward, main, pc>>
      BY <2>4 DEF Mutate, vars, ports
    <3>2. Grows
      BY <1>0, <2>4, SuballocFacts DEF Mutate
    <3> QED BY <1>0, <2>0, <3>1, <3>2, KeptApart DEF Served, Forwarded, Apart
  <2>5. CASE UNCHANGED <<vars, heap>>
    <3>1. UNCHANGED <<memory, stage, at, oport, queued, held, linked, forward, main, pc>>
      BY <2>5 DEF heap, ports, vars
    <3>2. Grows
      BY <1>0, <3>1, SameMemory
    <3> QED BY <1>0, <2>0, <3>1, <3>2, KeptApart DEF Served, Forwarded, Apart
  <2> QED BY <2>1, <2>2, <2>3, <2>4, <2>5 DEF HeapNext
<1> QED BY <1>1, <1>2, <1>3 DEF HeapInv

\* The heap starts without segments, nurseries, builders or oports in use.
LEMMA InitHeapInv == HeapInit => HeapInv
<1> SUFFICES ASSUME HeapInit PROVE HeapInv
  OBVIOUS
<1>1. HeapTypeOK
  BY DEF HeapInit, HeapTypeOK, Classes, Pointers, Stages, Places
<1>2. GlobalNurseriesOurs /\ Stage
  BY DEF HeapInit, GlobalNurseriesOurs, NurseryOurs, Stage
<1>3. \A p \in Writers : Served(p)
  BY BuildersAreWorkers DEF HeapInit, Init, Served, Queued, Forwarded, Pointed, Means, Round, Builders
<1> QED BY <1>1, <1>2, <1>3 DEF HeapInv

\* The inductive invariant of the heap.
THEOREM HeapInductive == HeapSpec => []HeapInv
<1>1. HeapSpec => []IInv
  BY HeapRendezvous, Inductive, PTL
<1> QED BY <1>1, InitHeapInv, HeapInvStep, PTL DEF HeapSpec

\* Every variable of the heap keeps its type; in particular no wild pointer ever
\* reaches the queue of write threads.
THEOREM HeapTypesHold == HeapSpec => []HeapTypeOK
<1>1. HeapInv => HeapTypeOK
  BY DEF HeapInv
<1> QED BY <1>1, HeapInductive, PTL

\* The nursery of a sub-allocator (heap items, oports) is always in an allocated segment
\* of its own class, through any number of collections, successful or not.
THEOREM NurseriesAlwaysOurs == HeapSpec => []GlobalNurseriesOurs
<1>1. HeapInv => GlobalNurseriesOurs
  BY DEF HeapInv
<1> QED BY <1>1, HeapInductive, PTL

\* Outside a collection each entry of the queue of write threads points into an allocated
\* segment of oports, whatever was copied before a collection failed.
THEOREM QueueAlwaysAlive == HeapSpec => []QueueAlive
<1>1. HeapInv => QueueAlive
  BY DEF HeapInv, QueueAlive, Stage, Served, Queued, Ours
<1> QED BY <1>1, HeapInductive, PTL

\* Whenever nobody collects, the queue of write threads, the values of the API thread and
\* the link of a write that is going on mean the same copy of an oport, after collections
\* that moved it, failed before they came to it, or after; a write process that runs serves
\* that copy too, unless it has read its forward pointer in memory no longer its own.
THEOREM SameOportAlways == HeapSpec => []SameOport
<1>1. HeapInv /\ IInv => SameOport
  <2> SUFFICES ASSUME HeapInv, IInv, NEW p \in Writers, queued[p] # None
               PROVE  /\ main # "collecting" => {held[p], linked[p]} \subseteq {None, queued[p]}
                      /\ pc[p] = "run" => oport[p] \in {queued[p], Wild}
    BY DEF SameOport
  <2>1. Served(p) /\ Stage
    BY DEF HeapInv
  <2>2. main # "collecting" => {held[p], linked[p]} \subseteq {None, queued[p]}
    BY <2>1 DEF Served, Pointed, Means, Stage
  <2>3. pc[p] = "run" => forward[p] = None
    BY <2>1 DEF Served, Forwarded, InGC
  <2>4. pc[p] = "run" => oport[p] \in {queued[p], Wild}
    BY <2>1, <2>3 DEF Served, Queued
  <2> QED BY <2>2, <2>4
<1>2. HeapSpec => []IInv
  BY HeapRendezvous, Inductive, PTL
<1> QED BY <1>1, <1>2, HeapInductive, PTL
=============================================================================

------------------------------ MODULE AceQueue ------------------------------
(***************************************************************************)
(* The queue of the evaluator's threads: struct ace_thread_queue of        *)
(* libglobalscript/ace.h and the operations of ace.c on it.  Each is one   *)
(* section under ace_thread_queue->lock.  A thread leaves from anywhere in *)
(* the array, the last one takes its place, and a collection closes the    *)
(* gaps the dead ones leave; thread->tid must follow all of it.            *)
(***************************************************************************)
EXTENDS Integers, FiniteSets

CONSTANTS
  Threads,              \* the threads that ace_thread_alloc may make
  NumAceThreads,        \* NUM_ACE_THREADS
  NoThread              \* the null pointer

ASSUME ThreadsFinite == IsFiniteSet(Threads) /\ NoThread \notin Threads
ASSUME RoomForOne == NumAceThreads \in Nat \ {0}

Slots == 0 .. NumAceThreads - 1

VARIABLES
  threads,              \* ace_thread_queue->threads
  num_active,           \* ace_thread_queue->num_active_threads
  tid,                  \* tid[t]: thread->tid
  life                  \* life[t]: how far thread t is from allocation to removal

queue == <<threads, num_active, tid, life>>

\* A thread in the queue; "finished" is set by ace_remove_thread before it takes the
\* lock of the queue.
InQueue == {"active", "finished"}

QueueTypeOK ==
  /\ threads \in [Slots -> Threads \cup {NoThread}]
  /\ num_active \in 0 .. NumAceThreads
  /\ tid \in [Threads -> Slots \cup {-1}]
  /\ life \in [Threads -> {"unmade", "starting", "orphan", "gone"} \cup InQueue]

QueueInit ==
  /\ threads = [i \in Slots |-> NoThread]
  /\ num_active = 0
  /\ tid = [t \in Threads |-> -1]
  /\ life = [t \in Threads |-> "unmade"]

-----------------------------------------------------------------------------
\* ace_thread_alloc, in ace_start_evaluation
AllocThread(t) ==
  /\ t \in Threads
  /\ life[t] = "unmade"
  /\ life' = [life EXCEPT ![t] = "starting"]
  /\ UNCHANGED <<threads, num_active, tid>>

\* The locked section of ace_start_evaluation: the thread gets the next slot ...
Enqueue(t) ==
  /\ life[t] = "starting"
  /\ num_active < NumAceThreads
  /\ tid' = [tid EXCEPT ![t] = num_active]
  /\ threads' = [threads EXCEPT ![num_active] = t]
  /\ num_active' = num_active + 1
  /\ life' = [life EXCEPT ![t] = "active"]

\* ... or there is none (gstyeoothreads), and nobody will ever run it.
OutOfThreads(t) ==
  /\ life[t] = "starting"
  /\ num_active >= NumAceThreads
  /\ life' = [life EXCEPT ![t] = "orphan"]
  /\ UNCHANGED <<threads, num_active, tid>>

\* ace_remove_thread, before the lock: thread->state = ace_thread_finished
FinishThread(t) ==
  /\ life[t] = "active"
  /\ life' = [life EXCEPT ![t] = "finished"]
  /\ UNCHANGED <<threads, num_active, tid>>

\* Mutant: the thread that moves keeps its old tid.
UnlinkThreadKeepsTid(t) ==
  /\ life[t] = "finished"
  /\ life' = [life EXCEPT ![t] = "gone"]
  /\ num_active' = num_active - 1
  /\ threads' = IF num_active - 1 > tid[t]
                THEN [threads EXCEPT ![tid[t]] = threads[num_active - 1],
                                     ![num_active - 1] = NoThread]
                ELSE [threads EXCEPT ![tid[t]] = NoThread]
  /\ UNCHANGED tid

\* The locked section of ace_remove_thread.  "Can't shutdown thread properly" leaves
\* the queue alone; otherwise the last thread moves into the gap.
UnlinkThread(t) ==
  /\ life[t] = "finished"
  /\ life' = [life EXCEPT ![t] = "gone"]
  /\ LET last == num_active - 1 IN
       IF num_active < tid[t]
       THEN UNCHANGED <<threads, num_active, tid>>
       ELSE /\ num_active' = last
            /\ IF last > tid[t]
               THEN /\ threads' = [threads EXCEPT ![tid[t]] = threads[last],
                                                  ![last] = NoThread]
                    /\ tid' = [tid EXCEPT ![threads[last]] = tid[t]]
               ELSE /\ threads' = [threads EXCEPT ![tid[t]] = NoThread]
                    /\ UNCHANGED tid

\* ace_thread_cleanup, after a collection that reached the threads in keep: they move
\* down over the others, in order.
Rank(keep, t) == Cardinality({u \in keep : tid[u] < tid[t]})

CleanupThreads(keep) ==
  /\ \A t \in Threads : life[t] \notin {"starting", "finished"}
  /\ keep \subseteq {t \in Threads : life[t] = "active"}
  /\ tid' = [t \in Threads |-> IF t \in keep THEN Rank(keep, t) ELSE tid[t]]
  /\ threads' = [i \in Slots |->
                   IF \E t \in keep : Rank(keep, t) = i
                   THEN CHOOSE t \in keep : Rank(keep, t) = i
                   ELSE NoThread]
  /\ num_active' = Cardinality(keep)
  /\ life' = [t \in Threads |-> IF life[t] = "active" /\ t \notin keep THEN "gone" ELSE life[t]]

-----------------------------------------------------------------------------
QueueNext ==
  \/ \E t \in Threads :
       AllocThread(t) \/ Enqueue(t) \/ OutOfThreads(t) \/ FinishThread(t) \/ UnlinkThread(t)
  \/ \E keep \in SUBSET Threads : CleanupThreads(keep)

QueueSpec == QueueInit /\ [][QueueNext]_queue

-----------------------------------------------------------------------------
(* Properties *)

\* The array and thread->tid are inverse of each other on the first num_active slots
\* and the rest of the array is empty: the pool's loop over 0 .. num_active - 1 meets
\* every thread, and a removal never overwrites a thread but the one it removes.
QueueConsistent ==
  /\ \A i \in Slots :
       IF i < num_active
       THEN /\ threads[i] \in Threads
            /\ life[threads[i]] \in InQueue
            /\ tid[threads[i]] = i
       ELSE threads[i] = NoThread
  /\ \A t \in Threads : life[t] \in InQueue =>
       /\ tid[t] \in 0 .. num_active - 1
       /\ threads[tid[t]] = t
=============================================================================

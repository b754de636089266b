---------------------------- MODULE GCRendezvous ----------------------------
(***************************************************************************)
(* The stop-the-world rendezvous of libglobalscript/alloc.c, between the   *)
(* main process (the API thread pool, the only one that collects) and the  *)
(* processes created by gscreate_thread_pool (unix/gssysthreads.c): the    *)
(* ACE pool, the IBIO read process, the IBIO write pool and one write      *)
(* process per oport.                                                      *)
(*                                                                         *)
(* Every section that the code runs between lock(&gs_allocator_lock) and   *)
(* unlock is one step; what the code does between two such sections is a   *)
(* program counter.  A poll that finds nothing changes nothing, so only    *)
(* the poll that succeeds is a step.                                       *)
(***************************************************************************)
EXTENDS Integers, FiniteSets

CONSTANT Workers        \* the processes that gscreate_thread_pool may create

ASSUME WorkersFinite == IsFiniteSet(Workers)

VARIABLES
  gc_running,           \* gs_sys_gc_running
  num_procs_in_gc,      \* gs_sys_gc_num_procs_in_gc
  gc_error,             \* gs_sys_gc_error: "none", or what the collector failed on
  num_procs,            \* gs_sys_num_procs
  main,                 \* where the main process is
  main_read,            \* what it read of num_procs in its unlocked decrement
  pc,                   \* pc[p]: where process p is
  told,                 \* told[p]: what wait_for_collection_to_finish returned to p
  outcome               \* history: how the last collection really ended

shared == <<gc_running, num_procs_in_gc, gc_error, num_procs>>
vars == <<shared, main, main_read, pc, told, outcome>>

Errors == {"none", "failed"}

\* Where a process is inside gs_sys_wait_for_collection_to_finish or between it
\* and gs_sys_gc_done_with_collection: it is counted in num_procs_in_gc.
InGC == {"parked", "released", "told"}

\* Where a process is counted in num_procs.
Counted == {"cloning", "run", "wanted", "returned"} \cup InGC

PCs == {"unborn", "gone"} \cup Counted

MainPCs == {"run", "spawning", "gathering", "collecting", "draining", "exiting", "exited"}

Inside == {p \in Workers : pc[p] \in InGC}
Live == {p \in Workers : pc[p] \in Counted}

TypeOK ==
  /\ gc_running \in BOOLEAN
  /\ num_procs_in_gc \in Int
  /\ gc_error \in Errors
  /\ num_procs \in Int
  /\ main \in MainPCs
  /\ main_read \in Int
  /\ pc \in [Workers -> PCs]
  /\ told \in [Workers -> Errors]
  /\ outcome \in Errors

Init ==
  /\ gc_running = FALSE
  /\ num_procs_in_gc = 0
  /\ gc_error = "none"
  /\ num_procs = 1                          \* the main process
  /\ main = "run"
  /\ main_read = 0
  /\ pc = [p \in Workers |-> "unborn"]
  /\ told = [p \in Workers |-> "none"]
  /\ outcome = "none"

Goto(p, from, to) ==
  /\ pc[p] = from
  /\ pc' = [pc EXCEPT ![p] = to]

MainGoto(from, to) ==
  /\ main = from
  /\ main' = to

-----------------------------------------------------------------------------
(* gscreate_thread_pool and gsthread_pool_main *)

\* The new process is counted before it exists ...
BeginSpawn(p) ==
  /\ MainGoto("run", "spawning")
  /\ Goto(p, "unborn", "cloning")
  /\ num_procs' = num_procs + 1
  /\ UNCHANGED <<gc_running, num_procs_in_gc, gc_error, main_read, told, outcome>>

CloneSucceeds(p) ==
  /\ MainGoto("spawning", "run")
  /\ Goto(p, "cloning", "run")
  /\ UNCHANGED <<shared, main_read, told, outcome>>

\* Mutant: the process is left in a place of its own.
CloneFailsHalfBorn(p) ==
  /\ MainGoto("spawning", "run")
  /\ Goto(p, "cloning", "refused")
  /\ num_procs' = num_procs - 1
  /\ UNCHANGED <<gc_running, num_procs_in_gc, gc_error, main_read, told, outcome>>

\* ... and taken back if clone(2) refuses.
CloneFails(p) ==
  /\ MainGoto("spawning", "run")
  /\ Goto(p, "cloning", "unborn")
  /\ num_procs' = num_procs - 1
  /\ UNCHANGED <<gc_running, num_procs_in_gc, gc_error, main_read, told, outcome>>

\* The pool function of p returns: its last poll for a collection is behind it.
PoolReturns(p) ==
  /\ Goto(p, "run", "returned")
  /\ UNCHANGED <<shared, main, main_read, told, outcome>>

\* Mutant: a process that exits stays counted.
PoolExitsCounted(p) ==
  /\ Goto(p, "returned", "gone")
  /\ UNCHANGED <<shared, main, main_read, told, outcome>>

PoolExits(p) ==
  /\ Goto(p, "returned", "gone")
  /\ num_procs' = num_procs - 1
  /\ UNCHANGED <<gc_running, num_procs_in_gc, gc_error, main, main_read, told, outcome>>

-----------------------------------------------------------------------------
(* The collecting side *)

\* gs_sys_wait_for_gc, up to its polling loop
WaitForGC ==
  /\ MainGoto("run", "gathering")
  /\ gc_running' = TRUE
  /\ num_procs_in_gc' = num_procs_in_gc + 1
  /\ UNCHANGED <<gc_error, num_procs, main_read, pc, told, outcome>>

\* Mutant: the collector forgets that it is counted itself.
EveryoneStoppedButOne ==
  /\ MainGoto("gathering", "collecting")
  /\ num_procs_in_gc >= num_procs - 1
  /\ UNCHANGED <<shared, main_read, pc, told, outcome>>

\* the poll of gs_sys_wait_for_gc that succeeds
EveryoneStopped ==
  /\ MainGoto("gathering", "collecting")
  /\ num_procs_in_gc >= num_procs
  /\ UNCHANGED <<shared, main_read, pc, told, outcome>>

\* Mutant: the error of the last collection is left.
FinishGCKeepsError ==
  /\ MainGoto("collecting", "draining")
  /\ num_procs_in_gc' = num_procs_in_gc - 1
  /\ gc_running' = FALSE
  /\ outcome' = "none"
  /\ UNCHANGED <<gc_error, num_procs, main_read, pc, told>>

\* gs_sys_finish_gc: every root and callback succeeded
FinishGC ==
  /\ MainGoto("collecting", "draining")
  /\ num_procs_in_gc' = num_procs_in_gc - 1
  /\ gc_running' = FALSE
  /\ gc_error' = "none"
  /\ outcome' = "none"
  /\ UNCHANGED <<num_procs, main_read, pc, told>>

\* gs_sys_gc_failed, from api_handle_gc_failed: a root callback, the thread
\* queue or a post callback reported an error
GCFailed ==
  /\ MainGoto("collecting", "draining")
  /\ num_procs_in_gc' = num_procs_in_gc - 1
  /\ gc_running' = FALSE
  /\ gc_error' = "failed"
  /\ outcome' = "failed"
  /\ UNCHANGED <<num_procs, main_read, pc, told>>

\* Mutant: the collector does not wait for the others to leave.
EveryoneLeftUnchecked ==
  /\ MainGoto("draining", "run")
  /\ UNCHANGED <<shared, main_read, pc, told, outcome>>

\* the poll at the end of gs_sys_finish_gc and gs_sys_gc_failed that succeeds
EveryoneLeft ==
  /\ MainGoto("draining", "run")
  /\ num_procs_in_gc = 0
  /\ UNCHANGED <<shared, main_read, pc, told, outcome>>

-----------------------------------------------------------------------------
(* The stopped side *)

\* gs_sys_gc_want_collection returns 1; when it returns 0 nothing changes
WantCollection(p) ==
  /\ Goto(p, "run", "wanted")
  /\ gc_running
  /\ UNCHANGED <<shared, main, main_read, told, outcome>>

\* gs_sys_wait_for_collection_to_finish, up to its polling loop
Park(p) ==
  /\ Goto(p, "wanted", "parked")
  /\ num_procs_in_gc' = num_procs_in_gc + 1
  /\ UNCHANGED <<gc_running, gc_error, num_procs, main, main_read, told, outcome>>

\* Mutant: a stopped process does not wait for the end of the collection.
ReleaseUnchecked(p) ==
  /\ Goto(p, "parked", "released")
  /\ UNCHANGED <<shared, main, main_read, told, outcome>>

\* the poll of gs_sys_wait_for_collection_to_finish that succeeds
Release(p) ==
  /\ Goto(p, "parked", "released")
  /\ ~gc_running
  /\ UNCHANGED <<shared, main, main_read, told, outcome>>

\* its last locked section: the result of the collection
ReadResult(p) ==
  /\ Goto(p, "released", "told")
  /\ told' = [told EXCEPT ![p] = gc_error]
  /\ UNCHANGED <<shared, main, main_read, outcome>>

\* Mutant: a process leaves without being taken off the count.
DoneWithCollectionCounted(p) ==
  /\ Goto(p, "told", "run")
  /\ UNCHANGED <<shared, main, main_read, told, outcome>>

\* gs_sys_gc_done_with_collection
DoneWithCollection(p) ==
  /\ Goto(p, "told", "run")
  /\ num_procs_in_gc' = num_procs_in_gc - 1
  /\ UNCHANGED <<gc_running, gc_error, num_procs, main, main_read, told, outcome>>

-----------------------------------------------------------------------------
(* The main process leaves with "gs_sys_num_procs--; exits(...)", without the
   lock: the decrement is a read and a write, and a process that leaves between
   the two is forgotten. *)

ReadNumProcs ==
  /\ MainGoto("run", "exiting")
  /\ main_read' = num_procs
  /\ UNCHANGED <<shared, pc, told, outcome>>

WriteNumProcs ==
  /\ MainGoto("exiting", "exited")
  /\ num_procs' = main_read - 1
  /\ UNCHANGED <<gc_running, num_procs_in_gc, gc_error, main_read, pc, told, outcome>>

-----------------------------------------------------------------------------
Collect == FinishGC \/ GCFailed

MainStep ==
  \/ \E p \in Workers : BeginSpawn(p) \/ CloneSucceeds(p) \/ CloneFails(p)
  \/ WaitForGC \/ EveryoneStopped \/ Collect \/ EveryoneLeft
  \/ ReadNumProcs \/ WriteNumProcs

WorkerStep(p) ==
  \/ PoolReturns(p) \/ PoolExits(p)
  \/ WantCollection(p) \/ Park(p) \/ Release(p) \/ ReadResult(p) \/ DoneWithCollection(p)

\* Everybody has exited: the program is over, and this is not a deadlock.
Over ==
  /\ main = "exited"
  /\ \A p \in Workers : pc[p] \in {"unborn", "gone"}
  /\ UNCHANGED vars

Next == MainStep \/ (\E p \in Workers : WorkerStep(p)) \/ Over

Spec == Init /\ [][Next]_vars

(***************************************************************************)
(* The polls are unconditional loops, so the main process and a stopped    *)
(* process always take their next step.  A running process comes back to   *)
(* its poll: the ACE pool after at most 0x1000 instructions (ace.c:125),   *)
(* the read process after one round of its iports, a write process after   *)
(* one cell of its string -- provided the read(2) or write(2) it is in     *)
(* returns.  Nothing makes a pool return or the program end.               *)
(***************************************************************************)
Fairness ==
  /\ WF_vars(EveryoneStopped) /\ WF_vars(Collect) /\ WF_vars(EveryoneLeft)
  /\ \A p \in Workers :
       /\ WF_vars(CloneSucceeds(p) \/ CloneFails(p))
       /\ WF_vars(WantCollection(p)) /\ WF_vars(Park(p)) /\ WF_vars(Release(p))
       /\ WF_vars(ReadResult(p)) /\ WF_vars(DoneWithCollection(p))
       /\ WF_vars(PoolExits(p))

FairSpec == Spec /\ Fairness

-----------------------------------------------------------------------------
(* Properties *)

\* While the collector moves objects (gs_sys_start_gc up to the unlock in
\* gs_sys_finish_gc or gs_sys_gc_failed) no other process that exists is
\* anywhere but in the polling loop of gs_sys_wait_for_collection_to_finish:
\* the two counters that gs_sys_wait_for_gc compares are enough to know it,
\* whatever processes are created, refused by clone or exit meanwhile.
CollectorAlone ==
  main = "collecting" => \A p \in Workers : pc[p] \in {"unborn", "gone", "parked"}

\* The two counters mean what gs_sys_wait_for_gc takes them for: the processes
\* that have stopped (the collector included) and the processes that exist.
\* The unlocked decrement at exit may lose an update, so the second half is
\* only claimed until then.
CountersExact ==
  /\ num_procs_in_gc =
       Cardinality(Inside) + IF main \in {"gathering", "collecting"} THEN 1 ELSE 0
  /\ main \notin {"exiting", "exited"} => num_procs = Cardinality(Live) + 1

\* A process that has seen gs_sys_gc_want_collection return 1, and reads the
\* result of the collection some steps and two locked sections later, is told
\* how that very collection ended: gs_sys_gc_error cannot be overwritten by the
\* next one while a process is still on its way out.
ToldTheTruth ==
  \A p \in Workers : pc[p] = "told" => told[p] = outcome

\* Where each process can be, given where the main process is.
Phases ==
  /\ gc_running <=> main \in {"gathering", "collecting"}
  /\ gc_error = outcome
  /\ \A p \in Workers :
       /\ pc[p] = "cloning" => main = "spawning"
       /\ pc[p] = "wanted" => main = "gathering"
       /\ pc[p] = "parked" => main \in {"gathering", "collecting", "draining"}
       /\ pc[p] \in {"released", "told"} => main = "draining"
       /\ main = "collecting" => pc[p] \notin Counted \ InGC
  /\ \A p, q \in Workers : pc[p] = "cloning" /\ pc[q] = "cloning" => p = q

\* The inductive invariant: the counters are exact, a process has a stale answer
\* of gs_sys_gc_want_collection only while the collector still waits for it, and
\* nobody is past the polling loop before the collector is.
IInv == TypeOK /\ CountersExact /\ Phases /\ ToldTheTruth

\* A collection begins, and the program exits, only when no process is still
\* inside the previous collection (or about to enter it on a stale answer of
\* gs_sys_gc_want_collection).
NoStragglers ==
  [][main' # main /\ main' \in {"gathering", "exiting"} =>
       \A p \in Workers : pc[p] \notin InGC \cup {"wanted"}]_vars

\* Nobody waits for ever: a collection that is asked for happens and is over,
\* and a process that stopped for it runs again.
CollectionEnds == (main = "gathering") ~> (main = "run")
StoppedRunsAgain == \A p \in Workers : (pc[p] = "parked") ~> (pc[p] = "run")

\* The counters implement the sets of the abstract specification.
Abstract == INSTANCE StopTheWorld WITH
  phase <- IF main \in {"gathering", "collecting", "draining"} THEN main ELSE "mutating",
  live <- Live,
  inside <- Inside

\* Refinement of StopTheWorld: every step of the code's protocol is a step of
\* the barrier in which the collector proceeds when everybody is inside, or none.
Implements == Abstract!Spec
=============================================================================

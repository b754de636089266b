------------------------------- MODULE GCHeap -------------------------------
(***************************************************************************)
(* What the collections of GCRendezvous do to the segments of              *)
(* libglobalscript/alloc.c, and to the three things that point into them   *)
(* across a collection: the nurseries of the sub-allocators, the string    *)
(* builder a process prints its error into (stringbuilder.c), and the      *)
(* oports of cmd/ibio/oport.c, which the write process that serves one,    *)
(* the queue of write threads and the API thread each have a pointer to.   *)
(*                                                                         *)
(* A segment stands for everything in it: what matters about an object is  *)
(* the state and the class of its segment.  Every action is an action of   *)
(* the rendezvous together with its effect on the heap, or a step of the   *)
(* heap alone between two polls.                                           *)
(***************************************************************************)
EXTENDS GCRendezvous

CONSTANTS
  NumSegments,          \* NUM_BLOCKS
  Writers,              \* the write processes: each serves an oport
  Readers               \* processes that only keep a string builder: the read process

ASSUME SegmentsAreNat == NumSegments \in Nat \ {0}
ASSUME BuildersAreWorkers == Writers \cup Readers \subseteq Workers /\ Writers \cap Readers = {}

Segments == 1 .. NumSegments
None == 0               \* the null pointer
Pointers == Segments \cup {None}
Wild == NumSegments + 1 \* where a pointer read from overwritten memory leads

\* The clients of the segment manager: string builders, everything the evaluators
\* allocate, and the oports with the queue of write threads.
Classes == {"strings", "heap", "oports"}

Builders == Writers \cup Readers

VARIABLES
  seg,                  \* seg[s]: blocks[s]
  class,                \* class[s]: the class block_alloc stored in the segment
                        \* (of a free segment it is never looked at: "heap")
  nursery,              \* nursery[c]: the segment sub-allocation continues in
  in_gc,                \* gs_sys_in_gc: there are from-space segments
  stage,                \* how far the collection is
  main_err,             \* the segment of the main process's string builder
  error_text,           \* the segment gs_sys_gc_error points into
  at,                   \* at[p]: where a builder is in its round
  builder,              \* builder[p]: the segment of its string builder
  oport,                \* oport[p]: the segment of the oport write process p holds
  queued,               \* queued[p]: the same in ibio_write_thread_queue
  held,                 \* held[p]: the same among the values of the API thread
  linked,               \* linked[p]: the same in the link of its write that is going on
  forward               \* forward[p]: the field forward of the oport p holds

memory == <<seg, class, nursery>>
strings == <<main_err, error_text, builder>>
ports == <<oport, queued, held, linked, forward>>
heap == <<memory, in_gc, stage, strings, at, ports>>

Places == {"born", "top", "reserved", "failed", "retold", "switched", "polled"}
Stages == {"none", "roots", "threads"}

HeapTypeOK ==
  /\ seg \in [Segments -> {"free", "allocated", "from_space"}]
  /\ class \in [Segments -> Classes]
  /\ nursery \in [Classes -> Pointers]
  /\ in_gc \in BOOLEAN
  /\ stage \in Stages
  /\ {main_err, error_text} \subseteq Pointers
  /\ at \in [Builders -> Places]
  /\ builder \in [Builders -> Pointers]
  /\ oport \in [Writers -> Pointers \cup {Wild}]
  /\ queued \in [Writers -> Pointers]
  /\ {held, linked} \subseteq [Writers -> Pointers]
  /\ forward \in [Writers -> Pointers]

HeapInit ==
  /\ Init
  /\ seg = [s \in Segments |-> "free"]
  /\ class = [s \in Segments |-> "heap"]
  /\ nursery = [c \in Classes |-> None]
  /\ in_gc = FALSE
  /\ stage = "none"
  /\ main_err = None
  /\ error_text = None
  /\ at = [p \in Builders |-> "born"]
  /\ builder = [p \in Builders |-> None]
  /\ oport = [p \in Writers |-> None]
  /\ queued = [p \in Writers |-> None]
  /\ held = [p \in Writers |-> None]
  /\ linked = [p \in Writers |-> None]
  /\ forward = [p \in Writers |-> None]

-----------------------------------------------------------------------------
(* The segment manager *)

FreeSegments == {s \in Segments : seg[s] = "free"}

\* gs_sys_block_alloc(c) returns s: the first free segment.  It is never called
\* with none left: the program stops at half of the memory before
\* (gs_sys_memory_exhausted), and what follows a null segment is not modelled.
BlockAlloc(c, s) ==
  /\ s \in FreeSegments
  /\ \A t \in FreeSegments : s <= t
  /\ seg' = [seg EXCEPT ![s] = "allocated"]
  /\ class' = [class EXCEPT ![s] = c]

\* Mutant: when the segment is full the nursery runs on into the next.
SuballocRunsOn(c, s) ==
  /\ \/ s = nursery[c] /\ s # None /\ UNCHANGED <<seg, class>>
     \/ BlockAlloc(c, s)
  /\ \E n \in {s, s + 1} : nursery' = [nursery EXCEPT ![c] = n]

\* gs_sys_block_suballoc for class c returns an object in segment s: there is
\* room in the nursery, or a new segment is taken; in either case it may be full
\* afterwards.
Suballoc(c, s) ==
  /\ \/ s = nursery[c] /\ s # None /\ UNCHANGED <<seg, class>>
     \/ BlockAlloc(c, s)
  /\ \E n \in {s, None} : nursery' = [nursery EXCEPT ![c] = n]

\* gsreserve_string_builder returns a builder in segment s: the whole nursery,
\* which nobody else gets until a builder is finished, or a new segment.
ReserveBuilder(s) ==
  IF nursery["strings"] # None
  THEN /\ s = nursery["strings"]
       /\ nursery' = [nursery EXCEPT !["strings"] = None]
       /\ UNCHANGED <<seg, class>>
  ELSE BlockAlloc("strings", s) /\ UNCHANGED nursery

\* gsfinish_string_builder on a builder in segment s: what is left of the segment
\* becomes the nursery, if it is large enough and larger than the present one;
\* nothing happens if the segment is in from-space.
FinishBuilder(s) ==
  /\ UNCHANGED <<seg, class>>
  /\ \/ UNCHANGED nursery
     \/ /\ ~(in_gc /\ seg[s] = "from_space")
        /\ nursery' = [nursery EXCEPT !["strings"] = s]

\* Somebody allocates on the heap.  What a writer would later read in a
\* segment this takes is gone.
Mutate(s) ==
  /\ \/ main = "run" /\ main_err = None
     \/ \E p \in Workers \ Builders : pc[p] = "run"
  /\ Suballoc("heap", s)
  /\ UNCHANGED <<vars, in_gc, stage, strings, at, ports>>

-----------------------------------------------------------------------------
(* The collector: apisetupmainthread around the rendezvous *)

\* err = gsreserve_string_builder(), before gs_sys_wait_for_gc
MainReserves(s) ==
  /\ main = "run"
  /\ main_err = None
  /\ ReserveBuilder(s)
  /\ main_err' = s
  /\ UNCHANGED <<vars, in_gc, stage, error_text, builder, at, ports>>

HeapWaitForGC ==
  /\ main_err # None
  /\ WaitForGC
  /\ UNCHANGED heap

\* Mutant: no pre-callback drops the nurseries.
StartGCKeepsNurseries ==
  /\ main = "collecting"
  /\ stage = "none"
  /\ seg' = [s \in Segments |-> IF seg[s] = "allocated" THEN "from_space" ELSE seg[s]]
  /\ in_gc' = TRUE
  /\ stage' = "roots"
  /\ UNCHANGED <<vars, class, nursery, strings, at, ports>>

\* The first half of gs_sys_start_gc: the pre-callbacks drop the nurseries, and
\* every allocated segment becomes from-space.
StartGC ==
  /\ main = "collecting"
  /\ stage = "none"
  /\ nursery' = [c \in Classes |-> None]
  /\ seg' = [s \in Segments |-> IF seg[s] = "allocated" THEN "from_space" ELSE seg[s]]
  /\ in_gc' = TRUE
  /\ stage' = "roots"
  /\ UNCHANGED <<vars, class, strings, at, ports>>

\* The root callbacks succeeded: "old value of err is no longer valid", and the
\* thread queue is traced with a new one.
TraceThreads(s) ==
  /\ stage = "roots"
  /\ ReserveBuilder(s)
  /\ main_err' = s
  /\ stage' = "threads"
  /\ UNCHANGED <<vars, in_gc, error_text, builder, at, ports>>

\* A root or an API thread reaches something on the heap: it is copied.
Evacuate(s) ==
  /\ stage # "none"
  /\ Suballoc("heap", s)
  /\ UNCHANGED <<vars, in_gc, stage, strings, at, ports>>

\* The API thread reaches the oport of write process p: it is copied, and the copy
\* entered in the old one, before the tracing goes on and may fail.
TraceOport(p, s) ==
  /\ stage = "threads"
  /\ {held[p], linked[p]} # {None}
  /\ forward[p] = None
  /\ Suballoc("oports", s)
  /\ forward' = [forward EXCEPT ![p] = s]
  /\ UNCHANGED <<vars, in_gc, stage, strings, at, oport, queued, held, linked>>

\* A value of the thread takes the new address when the oport has been traced.
TraceHeld(p) ==
  /\ stage = "threads"
  /\ held[p] # None /\ forward[p] # None
  /\ held' = [held EXCEPT ![p] = forward[p]]
  /\ UNCHANGED <<vars, memory, in_gc, stage, strings, at, oport, queued, linked, forward>>

\* So does a link, but a link that has a next one is not traced (UNIMPL).
TraceLink(p) ==
  /\ stage = "threads"
  /\ linked[p] # None /\ forward[p] # None
  /\ \A q \in Writers \ {p} : linked[q] = None
  /\ linked' = [linked EXCEPT ![p] = forward[p]]
  /\ UNCHANGED <<vars, memory, in_gc, stage, strings, at, oport, queued, held, forward>>

\* Every link of the thread has been traced.
LinksTraced == \A p \in Writers : linked[p] # None => linked[p] = forward[p]

\* Mutant: ibio_write_thread_cleanup leaves the queue as it is.
HeapFinishGCKeepsQueue(s) ==
  /\ stage = "threads" /\ LinksTraced
  /\ FinishGC
  /\ s \in FreeSegments /\ \A t \in FreeSegments : s <= t
  /\ class' = [t \in Segments |-> IF t = s THEN "oports"
                                  ELSE IF seg[t] = "from_space" THEN "heap" ELSE class[t]]
  /\ seg' = [t \in Segments |-> IF t = s THEN "allocated"
                                ELSE IF seg[t] = "from_space" THEN "free" ELSE seg[t]]
  /\ nursery' = [nursery EXCEPT !["oports"] = s]
  /\ in_gc' = FALSE
  /\ stage' = "none"
  /\ main_err' = None
  /\ error_text' = None
  /\ UNCHANGED <<builder, at, ports>>

\* gs_sys_finish_gc up to the polling loop: ibio_write_thread_cleanup copies the
\* queue and the oports that nothing else reached, and from-space is free.  A value
\* that was not traced is one the thread has no more use for.  The builder of the
\* second half is abandoned.
HeapFinishGC(s) ==
  /\ stage = "threads" /\ LinksTraced
  /\ FinishGC
  /\ \/ s = nursery["oports"] /\ s # None
     \/ s \in FreeSegments /\ \A t \in FreeSegments : s <= t
  /\ class' = [t \in Segments |-> IF t = s THEN "oports"
                                  ELSE IF seg[t] = "from_space" THEN "heap" ELSE class[t]]
  /\ seg' = [t \in Segments |-> IF t = s THEN "allocated"
                                ELSE IF seg[t] = "from_space" THEN "free" ELSE seg[t]]
  /\ nursery' = [nursery EXCEPT !["oports"] = s]
  /\ forward' = [p \in Writers |->
                   IF queued[p] # None /\ forward[p] = None THEN s ELSE forward[p]]
  /\ queued' = [p \in Writers |-> IF queued[p] # None THEN forward'[p] ELSE None]
  /\ held' = [p \in Writers |-> IF held[p] = forward[p] THEN held[p] ELSE None]
  /\ in_gc' = FALSE
  /\ stage' = "none"
  /\ main_err' = None
  /\ error_text' = None
  /\ UNCHANGED <<builder, at, oport, linked>>

\* Mutant: there is no failure callback for the links of the threads.
HeapGCFailedKeepsLinks ==
  /\ stage # "none"
  /\ GCFailed
  /\ seg' = [s \in Segments |-> IF seg[s] = "from_space" THEN "allocated" ELSE seg[s]]
  /\ queued' = [p \in Writers |-> IF forward[p] # None THEN forward[p] ELSE queued[p]]
  /\ held' = [p \in Writers |-> None]
  /\ in_gc' = FALSE
  /\ stage' = "none"
  /\ main_err' = None
  /\ error_text' = main_err
  /\ UNCHANGED <<class, nursery, builder, at, oport, linked, forward>>

\* The same, stopped by an error: api_handle_gc_failed finishes the builder (still
\* during the collection), the failure callbacks leave the queue and the links with
\* the copies already made (those of the post-callbacks included), and from-space
\* comes back.  The thread is abended: it will not use any of its values again.
HeapGCFailed ==
  /\ stage # "none"
  /\ GCFailed
  /\ \/ UNCHANGED nursery
     \/ /\ seg[main_err] # "from_space"
        /\ nursery' = [nursery EXCEPT !["strings"] = main_err]
  /\ seg' = [s \in Segments |-> IF seg[s] = "from_space" THEN "allocated" ELSE seg[s]]
  /\ queued' = [p \in Writers |-> IF forward[p] # None THEN forward[p] ELSE queued[p]]
  /\ linked' = [p \in Writers |->
                  IF linked[p] # None /\ forward[p] # None THEN forward[p] ELSE linked[p]]
  /\ held' = [p \in Writers |-> None]
  /\ in_gc' = FALSE
  /\ stage' = "none"
  /\ main_err' = None
  /\ error_text' = main_err
  /\ UNCHANGED <<class, builder, at, oport, forward>>

\* Steps of the main process that leave the heap alone
MainIdle ==
  /\ \/ EveryoneStopped \/ EveryoneLeft
     \/ main_err = None /\ (ReadNumProcs \/ WriteNumProcs)
     \/ \E p \in Workers \ Writers : main_err = None /\ BeginSpawn(p)
     \/ \E p \in Workers \ Writers : CloneSucceeds(p)
     \/ \E p \in Workers : CloneFails(p)
  /\ UNCHANGED heap

\* ibio_oport_fdopen allocates the oport, then creates its write process, ...
OpenOport(p, s) ==
  /\ main_err = None
  /\ BeginSpawn(p)
  /\ Suballoc("oports", s)
  /\ oport' = [oport EXCEPT ![p] = s]
  /\ UNCHANGED <<in_gc, stage, strings, at, queued, held, linked, forward>>

\* ... and gives the thread the oport if there is one.
OportOpened(p) ==
  /\ CloneSucceeds(p)
  /\ held' = [held EXCEPT ![p] = oport[p]]
  /\ UNCHANGED <<memory, in_gc, stage, strings, at, oport, queued, linked, forward>>

\* A statement writes to an oport that is not busy: it is linked to the thread.
StartWrite(p) ==
  /\ main = "run" /\ main_err = None
  /\ held[p] # None /\ linked[p] = None
  /\ linked' = [linked EXCEPT ![p] = held[p]]
  /\ UNCHANGED <<vars, memory, in_gc, stage, strings, at, oport, queued, held, forward>>

-----------------------------------------------------------------------------
(* A round of a process that keeps a string builder *)

\* Workers that keep none take the steps of the rendezvous as they are.
OtherWorker(p) == WorkerStep(p) /\ UNCHANGED heap

Step(p, from, to) == at[p] = from /\ at' = [at EXCEPT ![p] = to]

\* The write process enters itself in the queue of write threads; the read process
\* has nothing to do.
Register(p) ==
  /\ pc[p] = "run"
  /\ Step(p, "born", "top")
  /\ queued' = IF p \in Writers THEN [queued EXCEPT ![p] = oport[p]] ELSE queued
  /\ UNCHANGED <<vars, memory, in_gc, stage, strings, oport, held, linked, forward>>

\* err = gsreserve_string_builder(): at the head of the round, and after a failed
\* collection has been reported.
Reserve(p, s) ==
  /\ \/ pc[p] = "run" /\ Step(p, "top", "reserved")
     \/ pc[p] = "told" /\ Step(p, "failed", "retold")
  /\ ReserveBuilder(s)
  /\ builder' = [builder EXCEPT ![p] = s]
  /\ UNCHANGED <<vars, in_gc, stage, main_err, error_text, ports>>

PollFindsNothing(p) ==
  /\ pc[p] = "run"
  /\ ~gc_running
  /\ Step(p, "reserved", "polled")
  /\ UNCHANGED <<vars, memory, in_gc, stage, strings, ports>>

\* The four steps from the poll to the result are those of the rendezvous.
StopForGC(p) ==
  /\ at[p] = "reserved"
  /\ WantCollection(p) \/ Park(p) \/ Release(p) \/ ReadResult(p)
  /\ UNCHANGED heap

\* A write process that is told of a failure finishes its builder and prints it.
ReportFailure(p) ==
  /\ p \in Writers
  /\ pc[p] = "told" /\ told[p] = "failed"
  /\ Step(p, "reserved", "failed")
  /\ FinishBuilder(builder[p])
  /\ builder' = [builder EXCEPT ![p] = None]
  /\ UNCHANGED <<vars, in_gc, stage, main_err, error_text, ports>>

\* "if (oport->forward) oport = oport->forward", read in the old copy.  After a
\* collection that succeeded its segment is free: if another process has been
\* given it meanwhile, the pointer may be whatever that process wrote.
SwitchOport(p) ==
  /\ pc[p] = "told"
  /\ \/ told[p] = "none" /\ Step(p, "reserved", "switched")
     \/ Step(p, "retold", "switched")
  /\ \/ oport' = [oport EXCEPT ![p] = IF forward[p] # None THEN forward[p] ELSE oport[p]]
     \/ /\ told[p] = "none" /\ seg[oport[p]] = "allocated"
        /\ oport' = [oport EXCEPT ![p] = Wild]
  /\ forward' = [forward EXCEPT ![p] = None]
  /\ UNCHANGED <<vars, memory, in_gc, stage, strings, queued, held, linked>>

\* A read process has no oport and keeps its builder.
HeapDoneWithCollection(p) ==
  /\ DoneWithCollection(p)
  /\ IF p \in Writers THEN Step(p, "switched", "polled") ELSE Step(p, "reserved", "polled")
  /\ UNCHANGED <<memory, in_gc, stage, strings, ports>>

\* gsfinish_string_builder(err): the round goes on without it.
FinishRound(p) ==
  /\ pc[p] = "run"
  /\ Step(p, "polled", "top")
  /\ FinishBuilder(builder[p])
  /\ builder' = [builder EXCEPT ![p] = None]
  /\ UNCHANGED <<vars, in_gc, stage, main_err, error_text, ports>>

\* A write process that is done with a string, or gives up, unlinks its oport from the
\* thread: the link is found by the address the process has.
Unlink(p) ==
  /\ pc[p] = "run" /\ at[p] = "top"
  /\ linked[p] # None /\ linked[p] = oport[p]
  /\ linked' = [linked EXCEPT ![p] = None]
  /\ UNCHANGED <<vars, memory, in_gc, stage, strings, at, oport, queued, held, forward>>

\* The process leaves at the end of a round, or before it has begun if there are
\* no clients left or no slot for it: a write process leaves the queue.  Its oport is
\* inactive, a write to it an error, and what the thread has of it is not followed on.
Leave(p) ==
  /\ at[p] \in {"born", "top"}
  /\ PoolReturns(p)
  /\ IF p \in Writers
     THEN /\ queued' = [queued EXCEPT ![p] = None]
          /\ held' = [held EXCEPT ![p] = None]
          /\ linked' = [linked EXCEPT ![p] = None]
     ELSE UNCHANGED <<queued, held, linked>>
  /\ UNCHANGED <<memory, in_gc, stage, strings, at, oport, forward>>

BuilderStep(p) ==
  \/ Register(p) \/ PollFindsNothing(p) \/ StopForGC(p) \/ ReportFailure(p)
  \/ p \in Writers /\ (SwitchOport(p) \/ Unlink(p))
  \/ HeapDoneWithCollection(p) \/ FinishRound(p) \/ Leave(p)
  \/ PoolExits(p) /\ UNCHANGED heap
  \/ \E s \in Segments : Reserve(p, s)

CollectorStep ==
  \/ HeapWaitForGC \/ StartGC \/ HeapGCFailed \/ MainIdle
  \/ \E s \in Segments :
       MainReserves(s) \/ TraceThreads(s) \/ Evacuate(s) \/ HeapFinishGC(s)
  \/ \E p \in Writers, s \in Segments : TraceOport(p, s) \/ OpenOport(p, s)
  \/ \E p \in Writers : OportOpened(p) \/ StartWrite(p) \/ TraceHeld(p) \/ TraceLink(p)

\* Once a process follows a pointer it read from overwritten memory, anything may
\* happen, and nothing is claimed.  A process that needs a segment when there is
\* none left goes no further either.
Lost == \E p \in Writers : oport[p] = Wild

HeapNext ==
  \/ ~Lost /\ CollectorStep
  \/ ~Lost /\ \E p \in Builders : BuilderStep(p)
  \/ ~Lost /\ \E p \in Workers \ Builders : OtherWorker(p)
  \/ ~Lost /\ \E s \in Segments : Mutate(s)
  \/ (Lost \/ Over \/ FreeSegments = {}) /\ UNCHANGED <<vars, heap>>

HeapSpec == HeapInit /\ [][HeapNext]_<<vars, heap>>

-----------------------------------------------------------------------------
(* Properties *)

\* "Each segment is assigned to a particular client": the memory a sub-allocator
\* will hand out next is in a segment that is allocated, and allocated to it.
NurseryOurs(c) ==
  nursery[c] # None => seg[nursery[c]] = "allocated" /\ class[nursery[c]] = c

\* gs_sys_global_block_suballoc drops its nurseries before every collection, and
\* no process can set one again before from-space is gone.
GlobalNurseriesOurs == \A c \in Classes \ {"strings"} : NurseryOurs(c)

\* The same of the string builders (stringbuilder.c checks for it when a builder is
\* finished during a collection).
StringNurseryOurs == NurseryOurs("strings")

\* The queue of write threads, which the next collection starts from, never holds
\* an oport of a free or reassigned segment, whether the last collection succeeded
\* or failed half-way through its tracing.
QueueAlive ==
  main # "collecting" => \A p \in Writers :
    queued[p] # None => seg[queued[p]] = "allocated" /\ class[queued[p]] = "oports"

\* The queue, the values of the API thread and the link of a write that is going on
\* mean the same copy of an oport whenever nobody collects, and so does the process
\* that serves it when it runs: a collection moves all four, one that fails half-way
\* moves all or none, and neither a write nor its end gets lost between two copies.
\* Only a process that has read its forward pointer in memory that was no longer its
\* own (SwitchOport) has another, and the model ends there.
SameOport ==
  \A p \in Writers : queued[p] # None =>
    /\ main # "collecting" => {held[p], linked[p]} \subseteq {None, queued[p]}
    /\ pc[p] = "run" => oport[p] \in {queued[p], Wild}
=============================================================================

------------------------------ MODULE IbioOutput ------------------------------
(***************************************************************************)
(* Output of an IBIO program (cmd/ibio/oport.c): the write statements of   *)
(* the API thread, a write process for each oport that evaluates the string*)
(* rune by rune into a buffer and writes it, the write pool that stays for *)
(* them, and the end of all of them and of the ACE pool.                   *)
(*                                                                         *)
(* A section under the lock of an oport is one step, with the sections     *)
(* under the lock of the thread nested in it.  The state is that at the    *)
(* call of apisetupmainthread, when all oports have been opened.           *)
(***************************************************************************)
EXTENDS ApiThread, FiniteSets

CONSTANTS
  Ports,                \* the oports: stdout and stderr
  NoString,             \* the null gsvalue
  Runes,                \* the symbols of strings
  BadRune,              \* a rune whose evaluation fails
  BufferRoom            \* runes the write buffer has room for

\* What is left of a string: its runes, and what it is found to be after them.
Strings == [runes : Seq(Runes), ends : {"nil", "error"}]

ASSUME PortsFinite == IsFiniteSet(Ports)
ASSUME StringsReal == BadRune \in Runes /\ NoString \notin Runes \cup Strings
ASSUME WritesTyped ==
  \A s \in Statements : s.op = "write" => s.port \in Ports /\ s.string \in Strings
ASSUME RoomForRune == BufferRoom \in Nat \ {0}

VARIABLES
  active,               \* active[o]: oport->active
  writing,              \* writing[o]: oport->writing, what is left of the string
  symbol,               \* symbol[o]: oport->writing_symbol
  buf,                  \* buf[o]: the runes in the buffer
  waiting,              \* waiting[o]: a blocker is on oport->waiting_to_write
  blocker,              \* the thread's api_prim_blocking, and whether it has a blocker
  links,                \* the ports in data->writing_to_oport of the thread
  writer,               \* writer[o]: where the write process is
  told,                 \* told[o]: a collection failed while the write process waited
  refcount,             \* ibio_write_thread_queue->refcount
  num_threads,          \* ibio_write_thread_queue->numthreads
  write_pool,           \* the write pool
  ace,                  \* the ACE pool
  ace_refs,             \* ace_thread_queue->refcount
  exhausted,            \* gs_sys_memory_exhausted()
  text,                 \* text[o]: (history) the runes of the strings accepted by o
  output,               \* output[o]: what write(2) has taken on oport->fd
  posted                \* (history) the ports whose failure has been posted

port == <<active, writing, symbol, buf>>
files == <<text, output, posted>>
api == <<waiting, blocker, links>>
procs == <<writer, told, refcount, num_threads, write_pool, ace, ace_refs>>
vars == <<thread, port, files, api, procs, exhausted>>

OutputTypeOK ==
  /\ ThreadTypeOK
  /\ active \in [Ports -> BOOLEAN]
  /\ writing \in [Ports -> Strings \cup {NoString}]
  /\ symbol \in [Ports -> Runes \cup {NoString}]
  /\ \A o \in Ports : symbol[o] # NoString => writing[o] # NoString
  /\ buf \in [Ports -> Seq(Runes)]
  /\ \A o \in Ports : Len(buf[o]) <= BufferRoom - (IF writer[o] \in {"born", "loop"} THEN 1 ELSE 0)
  /\ waiting \in [Ports -> BOOLEAN]
  /\ blocker \in {"none", "fresh", "queued"}
  /\ links \in SUBSET Ports
  /\ writer \in [Ports -> {"born", "loop", "left", "down", "gone"}]
  /\ told \in [Ports -> BOOLEAN]
  /\ refcount \in {0, 1}
  /\ num_threads \in Int
  /\ write_pool \in {"loop", "down", "gone"}
  /\ ace \in {"serving", "gone"}
  /\ ace_refs \in Int
  /\ exhausted \in BOOLEAN
  /\ posted \in SUBSET Ports

OutputInit ==
  /\ ThreadInit
  /\ active = [o \in Ports |-> TRUE]
  /\ writing = [o \in Ports |-> NoString]
  /\ symbol = [o \in Ports |-> NoString]
  /\ buf = [o \in Ports |-> <<>>]
  /\ waiting = [o \in Ports |-> FALSE]
  /\ blocker = "none"
  /\ links = {}
  /\ writer = [o \in Ports |-> "born"]
  /\ told = [o \in Ports |-> FALSE]
  /\ refcount = 1
  /\ num_threads = 0
  /\ write_pool = "loop"
  /\ ace = "serving"
  /\ ace_refs = Cardinality(Ports) + 2
  /\ exhausted = FALSE
  /\ text = [o \in Ports |-> <<>>]
  /\ output = [o \in Ports |-> <<>>]
  /\ posted = {}

-----------------------------------------------------------------------------
(* Write statements: ibio_handle_prim_write *)

\* The port is inactive: the thread will be abended.  A new statement has its blocking
\* data by now, with no blocker in it.
WriteRefused(o) ==
  /\ ~active[o]
  /\ PrimReturns("refused")
  /\ blocker' = IF blocker = "none" THEN "fresh" ELSE blocker
  /\ UNCHANGED <<writing, symbol, waiting, links, text>>

\* Mutant: nobody will know that the thread writes.
WriteAcceptedUnlinked(o) ==
  /\ active[o] /\ writing[o] = NoString
  /\ PrimReturns("success")
  /\ writing' = [writing EXCEPT ![o] = Head(left).string]
  /\ waiting' = [waiting EXCEPT ![o] = FALSE]
  /\ text' = [text EXCEPT ![o] = @ \o Head(left).string.runes]
  /\ UNCHANGED <<symbol, blocker, links>>

\* The port is free: it takes the string, and the thread is linked to the port.
WriteAccepted(o) ==
  /\ active[o] /\ writing[o] = NoString
  /\ PrimReturns("success")
  /\ writing' = [writing EXCEPT ![o] = Head(left).string]
  /\ waiting' = [waiting EXCEPT ![o] = FALSE]
  /\ links' = links \cup {o}
  /\ text' = [text EXCEPT ![o] = @ \o Head(left).string.runes]
  /\ UNCHANGED <<symbol, blocker>>

\* The port still has a string: the thread queues up, once.
WriteBlocks(o) ==
  /\ active[o] /\ writing[o] # NoString
  /\ PrimReturns("blocked")
  /\ blocker' = "queued"
  /\ waiting' = [waiting EXCEPT ![o] = TRUE]
  /\ UNCHANGED <<writing, symbol, links, text>>

ExecWrite ==
  /\ main = "prim" /\ Head(left).op = "write"
  /\ \E o \in Ports :
       /\ o = Head(left).port
       /\ WriteRefused(o) \/ WriteAccepted(o) \/ WriteBlocks(o)
  /\ UNCHANGED <<active, buf, output, posted, procs, exhausted>>

-----------------------------------------------------------------------------
(* The other steps of the main process *)

\* The ACE pool has evaluated the instruction.
Evaluated ==
  /\ ace = "serving"
  /\ EvaluatesToError \/ UnpackBlock \/ EvaluatesToPrim

ExecOther ==
  \/ TakeTurn
  \/ Evaluated
  \/ Unevaluated
  \/ main = "prim" /\ Head(left).op = "unit" /\ PrimReturns("success")
  \/ PrimBlocked
  \/ PrimRefused
  \/ LookAtMemory(exhausted)
  \/ StillBusy(links # {})
  \/ ThreadEnds(links # {})

\* The statement is done, and api_prim_blocking with it.
StatementDone ==
  /\ PrimSucceeded
  /\ blocker' = "none"
  /\ UNCHANGED <<port, waiting, links, files, procs, exhausted>>

\* Mutant: the write processes that are there are not told.
WriteThreadsDownQuietly ==
  /\ CallbacksDone
  /\ refcount' = refcount - 1
  /\ UNCHANGED <<active, writing, symbol, buf, writer, told, num_threads, write_pool, ace, ace_refs>>

\* ibio_write_threads_down: the write processes that are registered leave when they are
\* done, and those that are not do not start.
WriteThreadsDown ==
  /\ CallbacksDone
  /\ refcount' = refcount - 1
  /\ active' = [o \in Ports |-> active[o] /\ writer[o] \notin {"loop", "left"}]
  /\ UNCHANGED <<writing, symbol, buf, writer, told, num_threads, write_pool, ace, ace_refs>>

\* ace_down and exits
AceDownAndExit ==
  /\ MainExits
  /\ ace_refs' = ace_refs - 1
  /\ UNCHANGED <<port, writer, told, refcount, num_threads, write_pool, ace>>

MainStep ==
  \/ ExecOther /\ UNCHANGED <<port, files, api, procs, exhausted>>
  \/ ExecWrite
  \/ StatementDone
  \/ (WriteThreadsDown \/ AceDownAndExit) /\ UNCHANGED <<files, api, exhausted>>

-----------------------------------------------------------------------------
(* A write process: ibio_write_process_main *)

\* The process registers itself, or finds that the program is over.
Register(o) ==
  /\ writer[o] = "born"
  /\ IF refcount = 0
     THEN /\ active' = [active EXCEPT ![o] = FALSE]
          /\ writer' = [writer EXCEPT ![o] = "down"]
          /\ UNCHANGED num_threads
     ELSE /\ writer' = [writer EXCEPT ![o] = "loop"]
          /\ num_threads' = num_threads + 1
          /\ UNCHANGED active
  /\ UNCHANGED <<thread, writing, symbol, buf, files, links, told>>

\* It stays in its loop, whatever else it does ...
Stays(o) ==
  /\ UNCHANGED <<thread, active, links, writer, told, posted>>

\* ... or leaves it with the port closed.
Closes(o) ==
  /\ active' = [active EXCEPT ![o] = FALSE]
  /\ writer' = [writer EXCEPT ![o] = "left"]
  /\ told' = [told EXCEPT ![o] = FALSE]

\* The failure is posted to the thread, which is no longer linked to the port.
PostAndClose(o) ==
  /\ ApiThreadPost
  /\ posted' = posted \cup {o}
  /\ links' = links \ {o}
  /\ writing' = [writing EXCEPT ![o] = NoString]
  /\ symbol' = [symbol EXCEPT ![o] = NoString]
  /\ Closes(o)

\* write(2) of the buffer takes all of it, or fails half-way.
Flushes(o) == output' = [output EXCEPT ![o] = @ \o buf[o]]
FlushFails(o) ==
  \E n \in 0 .. Len(buf[o]) - 1 : output' = [output EXCEPT ![o] = @ \o SubSeq(buf[o], 1, n)]

\* A collection has failed, or memory is exhausted.
GivesUp(o) ==
  /\ told[o] \/ exhausted
  /\ active[o] \/ writing[o] # NoString
  /\ IF writing[o] # NoString
     THEN PostAndClose(o)
     ELSE Closes(o) /\ UNCHANGED <<thread, writing, symbol, links, posted>>
  /\ UNCHANGED <<buf, output>>

\* The rune to be written next is not evaluated yet while others wait in the buffer, is
\* an error, or ...
RuneFails(o) ==
  /\ symbol[o] # NoString
  /\ \/ buf[o] # <<>>
     \/ symbol[o] = BadRune /\ ace = "serving"
  /\ PostAndClose(o)
  /\ UNCHANGED <<buf, output>>

\* Mutant: the room left in the buffer is not looked at.
RuneReadyUnchecked(o) ==
  /\ symbol[o] \notin {NoString, BadRune} /\ ace = "serving"
  /\ buf' = [buf EXCEPT ![o] = Append(@, symbol[o])]
  /\ Stays(o) /\ symbol' = [symbol EXCEPT ![o] = NoString]
  /\ UNCHANGED <<writing, output>>

\* ... goes to the buffer; flushing a full one is not implemented.
RuneReady(o) ==
  /\ symbol[o] \notin {NoString, BadRune} /\ ace = "serving"
  /\ buf' = [buf EXCEPT ![o] = Append(@, symbol[o])]
  /\ IF Len(buf'[o]) = BufferRoom
     THEN PostAndClose(o)
     ELSE Stays(o) /\ symbol' = [symbol EXCEPT ![o] = NoString] /\ UNCHANGED writing
  /\ UNCHANGED output

\* Mutant: the buffer is written and kept.
StringLateKeepsBuffer(o) ==
  /\ writing[o] # NoString /\ symbol[o] = NoString
  /\ buf[o] # <<>>
  /\ Stays(o) /\ Flushes(o)
  /\ UNCHANGED <<writing, symbol, links, buf>>

\* The rest of the string is late: what is in the buffer is written.  When that fails
\* the process leaves with the string in hand.
StringLate(o) ==
  /\ writing[o] # NoString /\ symbol[o] = NoString
  /\ buf[o] # <<>>
  /\ \/ Stays(o) /\ Flushes(o)
     \/ ApiThreadPost /\ posted' = posted \cup {o} /\ Closes(o) /\ FlushFails(o)
  /\ buf' = [buf EXCEPT ![o] = <<>>]
  /\ UNCHANGED <<writing, symbol, links>>

StringHasRune(o) ==
  /\ writing[o] # NoString /\ symbol[o] = NoString /\ ace = "serving"
  /\ writing[o].runes # <<>>
  /\ symbol' = [symbol EXCEPT ![o] = Head(writing[o].runes)]
  /\ writing' = [writing EXCEPT ![o].runes = Tail(@)]
  /\ Stays(o)
  /\ UNCHANGED <<buf, output>>

\* Mutant: the thread is still linked to the port.
StringEndsLinked(o) ==
  /\ writing[o] # NoString /\ symbol[o] = NoString /\ ace = "serving"
  /\ writing[o].runes = <<>> /\ writing[o].ends = "nil"
  /\ \/ Flushes(o) /\ UNCHANGED <<thread, active, writer, told, posted>>
     \/ ApiThreadPost /\ posted' = posted \cup {o} /\ Closes(o) /\ FlushFails(o)
  /\ writing' = [writing EXCEPT ![o] = NoString]
  /\ buf' = [buf EXCEPT ![o] = <<>>]
  /\ UNCHANGED <<symbol, links>>

\* nil: the buffer is written, and the thread is done with the port.
StringEnds(o) ==
  /\ writing[o] # NoString /\ symbol[o] = NoString /\ ace = "serving"
  /\ writing[o].runes = <<>> /\ writing[o].ends = "nil"
  /\ \/ Flushes(o) /\ UNCHANGED <<thread, active, writer, told, posted>>
     \/ ApiThreadPost /\ posted' = posted \cup {o} /\ Closes(o) /\ FlushFails(o)
  /\ writing' = [writing EXCEPT ![o] = NoString]
  /\ links' = links \ {o}
  /\ buf' = [buf EXCEPT ![o] = <<>>]
  /\ UNCHANGED symbol

\* The string is an error: what is in the buffer is written all the same.
StringFails(o) ==
  /\ writing[o] # NoString /\ symbol[o] = NoString /\ ace = "serving"
  /\ writing[o].runes = <<>> /\ writing[o].ends = "error"
  /\ Flushes(o) \/ FlushFails(o)
  /\ PostAndClose(o)
  /\ UNCHANGED buf

\* The program is over, and there is nothing left to write.
NothingLeft(o) ==
  /\ ~active[o] /\ writing[o] = NoString
  /\ Closes(o)
  /\ UNCHANGED <<thread, writing, symbol, buf, links, files>>

WriterTurn(o) ==
  /\ writer[o] = "loop"
  /\ \/ GivesUp(o)
     \/ /\ ~(told[o] \/ exhausted)
        /\ \/ RuneFails(o) \/ RuneReady(o)
           \/ StringLate(o) \/ StringHasRune(o) \/ StringEnds(o) \/ StringFails(o)
     \/ NothingLeft(o)
  /\ UNCHANGED num_threads

\* It gives up its place in the queue ...
Unregister(o) ==
  /\ writer[o] = "left"
  /\ writer' = [writer EXCEPT ![o] = "down"]
  /\ num_threads' = num_threads - 1
  /\ UNCHANGED <<thread, port, files, links, told>>

WriterStep(o) ==
  /\ exit # "crash"
  /\ Register(o) \/ WriterTurn(o) \/ Unregister(o)
  /\ UNCHANGED <<text, waiting, blocker, refcount, write_pool, ace, ace_refs, exhausted>>

\* Mutant: it just exits.
WriterForgetsAce(o) ==
  /\ writer[o] = "down"
  /\ writer' = [writer EXCEPT ![o] = "gone"]
  /\ UNCHANGED <<thread, port, files, api, told, refcount, num_threads, write_pool, ace, ace_refs, exhausted>>

\* ... and lets go of the ACE pool.
WriterAceDown(o) ==
  /\ writer[o] = "down"
  /\ writer' = [writer EXCEPT ![o] = "gone"]
  /\ ace_refs' = ace_refs - 1
  /\ UNCHANGED <<thread, port, files, api, told, refcount, num_threads, write_pool, ace, exhausted>>

-----------------------------------------------------------------------------
(* The two pools *)

\* ibio_write_thread_main looks at the queue of write threads ...
WritePoolLeaves ==
  /\ write_pool = "loop"
  /\ refcount <= 0 /\ num_threads <= 0
  /\ write_pool' = "down"
  /\ UNCHANGED <<thread, port, files, api, writer, told, refcount, num_threads, ace, ace_refs, exhausted>>

\* ... and lets go of the ACE pool when it is over.
WritePoolAceDown ==
  /\ write_pool = "down"
  /\ write_pool' = "gone"
  /\ ace_refs' = ace_refs - 1
  /\ UNCHANGED <<thread, port, files, api, writer, told, refcount, num_threads, ace, exhausted>>

\* ace_find_thread finds that nobody needs it any more.
AceLeaves ==
  /\ ace = "serving"
  /\ ace_refs <= 0
  /\ ace' = "gone"
  /\ UNCHANGED <<thread, port, files, api, writer, told, refcount, num_threads, write_pool, ace_refs, exhausted>>

-----------------------------------------------------------------------------
(* Collections, between two rounds of the main process *)

\* Every other process is at its poll.
EverybodyWaits ==
  /\ main = "top"
  /\ \A o \in Ports : writer[o] \in {"loop", "gone"}
  /\ write_pool \in {"loop", "gone"}

\* The ports that the rest of the program and the links of the thread lead to; a block
\* that is yet to be unpacked may lead to any.
Reached ==
  LET ops == {left[n] : n \in DOMAIN left} IN
    IF \E s \in ops : s.op = "block" THEN Ports
    ELSE links \cup {s.port : s \in {s \in ops : s.op = "write"}}

\* The thread writes to one port at most, and its blocking data has a blocker to follow.
\* A port that only its write process knows is closed (ibio_write_thread_cleanup).
CollectionSucceeds ==
  /\ EverybodyWaits
  /\ Cardinality(links) <= 1
  /\ blocker # "fresh"
  /\ exhausted' = FALSE
  /\ \E kept \in SUBSET Ports :
       /\ Reached \subseteq kept
       /\ active' = [o \in Ports |-> active[o] /\ (o \in kept \/ writer[o] = "gone")]
  /\ UNCHANGED <<thread, writing, symbol, buf, files, api, procs>>

\* ibio_write_blocking_gcevacuate follows the null pointer, and everybody else waits for
\* the end of the collection for ever.
CollectionCrashes ==
  /\ EverybodyWaits
  /\ Cardinality(links) <= 1
  /\ blocker = "fresh"
  /\ exit' = "crash" /\ main' = "exited"
  /\ UNCHANGED <<state, left, ended, port, files, api, procs, exhausted>>

\* Mutant: the write processes are not told.
CollectionFailsQuietly ==
  /\ EverybodyWaits
  /\ state' = IF state = "active" THEN "abend" ELSE state
  /\ ace' = "gone"
  /\ UNCHANGED <<left, main, ended, exit, port, files, api, writer, told, refcount,
                 num_threads, write_pool, ace_refs, exhausted>>

\* A collection may fail for many reasons, one of them that the thread writes to two
\* ports.  The main process abends it, the write processes that wait are told, and the
\* ACE pool returns.
CollectionFails ==
  /\ EverybodyWaits
  /\ state' = IF state = "active" THEN "abend" ELSE state
  /\ told' = [o \in Ports |-> told[o] \/ writer[o] = "loop"]
  /\ ace' = "gone"
  /\ UNCHANGED <<left, main, ended, exit, port, files, api, writer, refcount,
                 num_threads, write_pool, ace_refs, exhausted>>

MemoryFills ==
  /\ ~exhausted
  /\ exhausted' = TRUE
  /\ UNCHANGED <<thread, port, files, api, procs>>

Collection == CollectionSucceeds \/ CollectionCrashes \/ CollectionFails

Over ==
  /\ main = "exited"
  /\ \/ exit = "crash"
     \/ ace = "gone" /\ write_pool = "gone" /\ \A o \in Ports : writer[o] = "gone"
  /\ UNCHANGED vars

OutputNext ==
  \/ MainStep
  \/ \E o \in Ports : WriterStep(o) \/ WriterAceDown(o)
  \/ WritePoolLeaves \/ WritePoolAceDown \/ AceLeaves
  \/ Collection \/ MemoryFills
  \/ Over

OutputSpec == OutputInit /\ [][OutputNext]_vars

-----------------------------------------------------------------------------
(* Fairness: every process takes its steps.  An instruction of the thread that the main
   process keeps asking for is evaluated in the end (EveryoneAnswered of AceEval). *)
FairOutputSpec ==
  /\ OutputSpec
  /\ WF_vars(MainStep)
  /\ SF_vars(Evaluated /\ UNCHANGED <<port, files, api, procs, exhausted>>)
  /\ \A o \in Ports : WF_vars(WriterStep(o)) /\ WF_vars(WriterAceDown(o))
  /\ WF_vars(WritePoolLeaves) /\ WF_vars(WritePoolAceDown) /\ WF_vars(AceLeaves)

-----------------------------------------------------------------------------
(* Properties *)

\* The thread is linked to exactly the ports that have a string of its: it is not let
\* go while one has, and not kept when none has.
LinksExact == links = {o \in Ports : writing[o] # NoString}

\* The counts by which the pools decide to leave are those of the processes there are:
\* each holds the ACE pool until its last evaluation, whatever way it ends.
CountsExact ==
  /\ ace_refs = Cardinality({o \in Ports : writer[o] # "gone"})
                  + (IF write_pool = "gone" THEN 0 ELSE 1)
                  + (IF main = "exited" /\ exit # "crash" THEN 0 ELSE 1)
  /\ num_threads = Cardinality({o \in Ports : writer[o] \in {"loop", "left"}})

\* A write process has left with a string in hand, because it could not write the part
\* it had: the thread stays linked to its port for ever.
Stranded(o) == writing[o] # NoString /\ writer[o] \in {"left", "down", "gone"}

\* The ACE pool is there for every string that has to be evaluated and for the thread;
\* after a collection that failed nobody asks it any more.
AceServes ==
  ace = "gone" =>
    /\ state \notin {"active", "running"}
    /\ \A o \in Ports : writing[o] # NoString => told[o] \/ Stranded(o)

\* The program ends, unless a write process is stranded.
ProgramEnds == <>(exit # "none" \/ \E o \in Ports : Stranded(o))

\* After an orderly exit all processes leave.
EveryoneLeaves ==
  exit \in Terminating ~>
    (ace = "gone" /\ write_pool = "gone" /\ \A o \in Ports : writer[o] = "gone")

\* Nobody posts to the thread once the main process has locked it for good: whoever did
\* would wait for its lock for ever.
PostsInTime ==
  [][(main \in {"stopping", "leaving", "exited"}) => UNCHANGED posted]_vars

\* A thread that a failed write has ended stays so until it is done away with, though the
\* main process goes through its statements with the thread unlocked.
AbendLasts ==
  [][state = "abend" => (state' = "abend" \/ state' = "unused")]_vars

\* When the trace comes to a write that has not succeeded yet, the blocker of the write
\* has been forwarded with its port.
BlockerFollowed ==
  EverybodyWaits /\ Cardinality(links) <= 1 /\ blocker # "none"
    => \E o \in Ports : waiting[o]

\* The runes a write may be of.
Texts == {s.string.runes : s \in {s \in Statements : s.op = "write"}}

Port == INSTANCE OutputPort WITH broken <- posted, exited <- exit \in Terminating

\* The program's output is that of the abstract ports: everything accepted is written,
\* in order and once, before the program exits, and only broken ports lose any of it.
WritesInOrder == Port!PortSpec
=============================================================================

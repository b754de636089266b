------------------------------- MODULE IbioInput -------------------------------
(***************************************************************************)
(* Input of an IBIO program (cmd/ibio/iport.c, channel.c, file.c): the read*)
(* and open statements of the API thread, the one read process that feeds  *)
(* the acceptor of each read from the file, the segments of the channel it *)
(* leaves the symbols in, and the walkers, threads of the ACE pool that    *)
(* follow the pointer a read has returned (prim.iptr.deref, .next).        *)
(*                                                                         *)
(* A turn of the read process, under the lock of its iport, is one step,   *)
(* and so is a primitive.  The locks that are held over several steps are  *)
(* those of the thread, the queue of the read process and, after an error, *)
(* a segment.                                                              *)
(***************************************************************************)
EXTENDS ApiThread, FiniteSets

CONSTANTS
  Iports,               \* the iports, with the one that is open from the start
  Stdin,
  Slots,                \* IBIO_NUM_READ_THREADS
  SegmentRoom,          \* symbols that fit in a struct ibio_channel_segment
  Symbols,              \* what is in the files: symbols,
  Eof,                  \* the ends of a file that goes on (a terminal),
  BadSymbol,            \* and what cannot be decoded
  Files,                \* what the file of each iport may be, a sequence of these
  Walkers,              \* one for each read statement of a program
  Makes                 \* Makes[s]: the walkers and the iports that come with s

\* An acceptor that takes a symbol or accepts what it has taken, step by step, and then
\* fails, is an error, or is found in a state the read process has no case for.
AcceptorSteps == {"symbol.bind", "unit.plus"}
AcceptorEnds == {"fail", "error", "unknown"}

NoAcceptor == [steps |-> <<>>, ends |-> "none", heard |-> <<>>]
NoPlace == [seg |-> 0, at |-> 0]
NoWalk == [port |-> "none", from |-> NoPlace, at |-> NoPlace, needs |-> "read",
           togo |-> 0, seen |-> <<>>, asked |-> FALSE]

ASSUME IportsFinite == IsFiniteSet(Iports) /\ Stdin \in Iports /\ "none" \notin Iports
ASSUME RoomForInput == Slots \in Nat \ {0} /\ SegmentRoom \in Nat \ {0}
ASSUME NoSymbols == Eof \notin Symbols /\ BadSymbol \notin Symbols \cup {Eof}
ASSUME FilesTyped == Files \subseteq [Iports -> Seq(Symbols \cup {Eof, BadSymbol})]
ASSUME StatementsTyped ==
  \A s \in Statements :
    /\ s.op = "read" =>
         /\ s.port \in Iports /\ s.walker \in Walkers /\ s.walk \in Nat \ {0}
         /\ s.steps \in Seq(AcceptorSteps) /\ s.ends \in AcceptorEnds
    /\ s.op = "open" => s.port \in Iports \ {Stdin}
    /\ s.op = "unit" => s.needs \subseteq Walkers

\* Every read has a pointer of its own, and every open an iport of its own.
ASSUME MakesOwn ==
  /\ Makes \in [Statements -> SUBSET (Walkers \cup Iports)]
  /\ \A s \in Programs : Stdin \notin Makes[s]
  /\ \A s \in Statements :
       /\ s.op = "read" => s.walker \in Makes[s]
       /\ s.op = "open" => s.port \in Makes[s]
       /\ s.op = "block" =>
            /\ \A i \in 1 .. Len(s.body) : Makes[s.body[i]] \subseteq Makes[s]
            /\ \A i, j \in 1 .. Len(s.body) : i # j => Makes[s.body[i]] \cap Makes[s.body[j]] = {}

VARIABLES
  active,               \* active[p]: iport->active
  reading,              \* reading[p]: what is left of the acceptor, and what it was given
  position,             \* position[p]: after the last symbol that was accepted
  nextsym,              \* nextsym[p]: the next one to feed into the acceptor
  channel,              \* channel[p]: its segments; the next of each is the one after it
  accessed,             \* accessed[p]: channel->last_accessed_seg
  error,                \* error[p]: channel->error is set
  data,                 \* data[p]: the file
  offset,               \* offset[p]: what has been read(2) of it
  buffered,             \* buffered[p]: what of that is still in the buffer
  registered,           \* the iports in ibio_read_thread_queue->iports
  reader,               \* the read process
  told,                 \* a collection failed while it waited
  refcount,             \* ibio_read_thread_queue->refcount
  links,                \* the iports in data->reading_from_iport of the thread
  waiting,              \* waiting[p]: a blocker is on iport->waiting_to_read
  blocker,              \* the blocking data of a read, and whether it has a blocker
  walk,                 \* walk[w]: where a walker is, what it needs, what it has seen
  stuck,                \* stuck[p]: the segment whose lock was not released
  ace,                  \* the ACE pool
  exhausted             \* gs_sys_memory_exhausted()

port == <<active, reading, position, nextsym, channel, accessed, error, stuck>>
files == <<data, offset, buffered>>
procs == <<registered, reader, told, refcount>>
api == <<links, waiting, blocker>>
vars == <<thread, port, files, procs, api, walk, ace, exhausted>>

AtLimit(place) == place.at > SegmentRoom
LastSegment(p) == Len(channel[p])

\* The place the read has got to
Current(p) == IF nextsym[p] = NoPlace THEN position[p] ELSE nextsym[p]

\* Where symbols may be in the channel of an iport
PlacesOf(p) == [seg : 1 .. LastSegment(p), at : 1 .. SegmentRoom]

Acceptors == [steps : Seq(AcceptorSteps), ends : AcceptorEnds, heard : Seq(Symbols \cup {Eof})]
Place == [seg : Nat, at : Nat]
Walk == [port : Iports \cup {"none"}, from : Place, at : Place,
         needs : {"read", "symbol", "segment", "nothing", "failed"},
         togo : Int, seen : Seq(Symbols \cup {Eof}), asked : BOOLEAN]

InputTypeOK ==
  /\ ThreadTypeOK
  /\ active \in [Iports -> BOOLEAN]
  /\ reading \in [Iports -> Acceptors \cup {NoAcceptor}]
  /\ channel \in [Iports -> Seq(Seq(Symbols)) \ {<<>>}]
  /\ {position, nextsym} \subseteq [Iports -> Place]
  /\ {accessed, stuck, offset, buffered} \subseteq [Iports -> Nat]
  /\ \A p \in Iports :
       /\ \A n \in 1 .. LastSegment(p) : Len(channel[p][n]) <= SegmentRoom
       /\ position[p] \in PlacesOf(p)
       /\ nextsym[p] \in [seg : 1 .. LastSegment(p), at : 1 .. SegmentRoom + 1] \cup {NoPlace}
       /\ accessed[p] <= LastSegment(p)
       /\ stuck[p] <= LastSegment(p)
       /\ offset[p] <= Len(data[p])
       /\ buffered[p] <= offset[p]
  /\ data \in Files
  /\ error \in [Iports -> BOOLEAN]
  /\ registered \subseteq Iports /\ Cardinality(registered) <= Slots
  /\ reader \in {"loop", "closing", "gone"}
  /\ told \in BOOLEAN
  /\ refcount \in {0, 1}
  /\ links \subseteq Iports
  /\ waiting \in [Iports -> BOOLEAN]
  /\ blocker \in {"none", "fresh", "queued"}
  /\ walk \in [Walkers -> Walk]
  /\ ace \in {"serving", "spinning", "gone"}
  /\ exhausted \in BOOLEAN

\* ibio_alloc_iport, for all the iports; those that are not open yet are not there.
InputInit ==
  /\ ThreadInit
  /\ active = [p \in Iports |-> p = Stdin]
  /\ reading = [p \in Iports |-> NoAcceptor]
  /\ position = [p \in Iports |-> [seg |-> 1, at |-> 1]]
  /\ nextsym = [p \in Iports |-> NoPlace]
  /\ channel = [p \in Iports |-> <<<<>>>>]
  /\ accessed = [p \in Iports |-> 1]
  /\ error = [p \in Iports |-> FALSE]
  /\ stuck = [p \in Iports |-> 0]
  /\ data \in Files
  /\ offset = [p \in Iports |-> 0]
  /\ buffered = [p \in Iports |-> 0]
  /\ registered = {Stdin}
  /\ reader = "loop"
  /\ told = FALSE
  /\ refcount = 1
  /\ links = {}
  /\ waiting = [p \in Iports |-> FALSE]
  /\ blocker = "none"
  /\ walk = [w \in Walkers |-> NoWalk]
  /\ ace = "serving"
  /\ exhausted = FALSE

\* Nobody holds the lock of the thread over several steps: the main process does while it
\* opens a file, and from the shutdown on.
ThreadFree == main \notin {"opening", "registering", "stopping", "leaving", "exited"}

-----------------------------------------------------------------------------
(* Read statements: ibio_handle_prim_read *)

ReadRefused(p) ==
  /\ ~active[p]
  /\ PrimReturns("refused")
  /\ blocker' = IF blocker = "none" THEN "fresh" ELSE blocker
  /\ UNCHANGED <<reading, accessed, links, waiting, walk>>

\* The iport is free: the read starts, and the statement has its result at once, the
\* place of the first symbol that nobody has accepted.
ReadTakes(p) ==
  /\ active[p] /\ reading[p] = NoAcceptor
  /\ PrimReturns("success")
  /\ LET s == Head(left) IN
       /\ reading' = [reading EXCEPT ![p] = [steps |-> s.steps, ends |-> s.ends, heard |-> <<>>]]
       /\ walk' = [walk EXCEPT ![s.walker] =
                     [NoWalk EXCEPT !.port = p, !.from = position[p], !.at = position[p],
                                    !.needs = "symbol", !.togo = s.walk]]
  /\ accessed' = [accessed EXCEPT ![p] = position[p].seg]
  /\ links' = links \cup {p}
  /\ waiting' = [waiting EXCEPT ![p] = FALSE]
  /\ UNCHANGED blocker

\* Another read is not over yet: the thread queues up, once.
ReadBlocks(p) ==
  /\ active[p] /\ reading[p] # NoAcceptor
  /\ PrimReturns("blocked")
  /\ blocker' = "queued"
  /\ waiting' = [waiting EXCEPT ![p] = TRUE]
  /\ UNCHANGED <<reading, accessed, links, walk>>

ExecRead ==
  /\ main = "prim" /\ Head(left).op = "read"
  /\ \E p \in Iports :
       /\ p = Head(left).port
       /\ ReadRefused(p) \/ ReadTakes(p) \/ ReadBlocks(p)
  /\ UNCHANGED <<active, position, nextsym, channel, error, stuck, files, procs, ace, exhausted>>

-----------------------------------------------------------------------------
(* Open statements: ibio_handle_prim_file_read_open, with the thread locked *)

Goes(from, to) ==
  /\ main = from
  /\ main' = to
  /\ UNCHANGED <<state, left, ended, exit, port, files, procs, api, walk, ace, exhausted>>

OpenTakesThread == main = "prim" /\ Head(left).op = "open" /\ Goes("prim", "opening")

\* The name of the file is evaluated, a little more each time; the thread is unlocked
\* when it is not ready yet, ...
NameBlocks == Goes("opening", "blocked")

\* ... and has ended when it is an error.  A file that cannot be opened changes nothing.
NameFails ==
  /\ main = "opening"
  /\ EndTurn("abend")
  /\ UNCHANGED <<left, port, files, procs, api, walk, ace, exhausted>>

NameReady == ace = "serving" /\ Goes("opening", "registering")

\* ibio_iport_fdopen takes the queue of the read process.  With all slots taken the new
\* iport is inactive.
OpenRegisters ==
  /\ main = "registering" /\ reader # "closing"
  /\ main' = "success"
  /\ LET p == Head(left).port IN
       IF Cardinality(registered) < Slots
       THEN registered' = registered \cup {p} /\ active' = [active EXCEPT ![p] = TRUE]
       ELSE UNCHANGED <<registered, active>>
  /\ UNCHANGED <<state, left, ended, exit, reading, position, nextsym, channel, accessed, error,
                 stuck, files, reader, told, refcount, api, walk, ace, exhausted>>

Open == OpenTakesThread \/ NameBlocks \/ NameFails \/ NameReady \/ OpenRegisters

-----------------------------------------------------------------------------
(* The other steps of the main process *)

\* The value of a statement may need what walkers see.
NeedsMet == Head(left).op = "unit" => \A w \in Head(left).needs : walk[w].needs = "nothing"
NeedsFail == Head(left).op = "unit" /\ \E w \in Head(left).needs : walk[w].needs = "failed"

Evaluated ==
  /\ ace = "serving"
  /\ \/ EvaluatesToError \/ UnpackBlock
     \/ EvaluatesToPrim /\ NeedsMet
     \/ main = "eval" /\ NeedsFail /\ EndTurn("abend") /\ UNCHANGED left

ExecOther ==
  \/ TakeTurn
  \/ Evaluated
  \/ Unevaluated
  \/ main = "prim" /\ Head(left).op = "unit" /\ PrimReturns("success")
  \/ PrimBlocked
  \/ PrimRefused
  \/ LookAtMemory(exhausted)
  \/ StillBusy(links # {})
  \/ ThreadEnds(links # {})
  \/ MainExits

StatementDone ==
  /\ PrimSucceeded
  /\ blocker' = "none"
  /\ UNCHANGED <<port, files, procs, links, waiting, walk, ace, exhausted>>

\* ibio_read_threads_down
ReadThreadsDown ==
  /\ CallbacksDone
  /\ reader # "closing"
  /\ refcount' = refcount - 1
  /\ active' = [p \in Iports |-> active[p] /\ p \notin registered]
  /\ UNCHANGED <<reading, position, nextsym, channel, accessed, error, stuck, files,
                 registered, reader, told, api, walk, ace, exhausted>>

MainStep ==
  \/ ExecOther /\ UNCHANGED <<port, files, procs, api, walk, ace, exhausted>>
  \/ ExecRead \/ Open \/ StatementDone \/ ReadThreadsDown

-----------------------------------------------------------------------------
(* A turn of the read process at an iport: ibio_read_thread_main *)

\* The read goes on with the next symbol at place, or
Feeds(p, place, item) ==
  /\ nextsym' = [nextsym EXCEPT ![p] = place]
  /\ reading' = [reading EXCEPT ![p].steps = Tail(@), ![p].heard = Append(@, item)]
  /\ UNCHANGED <<thread, active, position, error, stuck, links>>

\* ibio_shutdown_iport: it is over, and so is the iport.
Shutdown(p) ==
  /\ ThreadFree
  /\ ApiThreadPost
  /\ active' = [active EXCEPT ![p] = FALSE]
  /\ reading' = [reading EXCEPT ![p] = NoAcceptor]
  /\ links' = links \ {p}
  /\ UNCHANGED <<position, channel, accessed>>

\* ibio_shutdown_iport_on_read_symbol_unimpl, and the errors of the acceptor, leave an
\* error for those who wait for the next symbol.
ShutdownWithError(p, place) ==
  /\ Shutdown(p)
  /\ error' = [error EXCEPT ![p] = TRUE]
  /\ nextsym' = [nextsym EXCEPT ![p] = place]
  /\ UNCHANGED <<stuck, files>>

\* The symbol has been read before, and was not accepted.  More than one such symbol is
\* not implemented.
BindKnown(p, cur) ==
  LET seg == channel[p][cur.seg] IN
    /\ cur.at <= Len(seg)
    /\ IF cur.at < Len(seg) \/ cur.seg < LastSegment(p) \/ Len(seg) = SegmentRoom
       THEN ShutdownWithError(p, cur)
       ELSE /\ Feeds(p, [cur EXCEPT !.at = @ + 1], seg[cur.at])
            /\ UNCHANGED <<channel, accessed, files>>

\* An end of file that has been read before
BindKnownEof(p, cur) ==
  /\ cur.at > Len(channel[p][cur.seg])
  /\ cur.seg < LastSegment(p)
  /\ Feeds(p, [seg |-> cur.seg + 1, at |-> 1], Eof)
  /\ UNCHANGED <<channel, accessed, files>>

Waits(p, cur) == cur.at > Len(channel[p][cur.seg]) /\ cur.seg = LastSegment(p)

\* The next symbol is decoded.  Where that fails the segment is not unlocked, and there
\* is no error for those who wait.
BindDecodes(p, cur) ==
  LET symbol == data[p][offset[p] - buffered[p] + 1] IN
    /\ Waits(p, cur)
    /\ buffered[p] > 0
    /\ IF symbol = BadSymbol
       THEN /\ Shutdown(p)
            /\ stuck' = [stuck EXCEPT ![p] = cur.seg]
            /\ nextsym' = [nextsym EXCEPT ![p] = cur]
            /\ UNCHANGED <<error, files>>
       ELSE /\ channel' = [channel EXCEPT ![p][cur.seg] = Append(@, symbol)]
            /\ Feeds(p, [cur EXCEPT !.at = @ + 1], symbol)
            /\ buffered' = [buffered EXCEPT ![p] = @ - 1]
            /\ UNCHANGED <<accessed, data, offset>>

\* The buffer holds part of a symbol (canread), or read(2) fails.
BindFails(p, cur) ==
  /\ Waits(p, cur)
  /\ buffered[p] > 0 => data[p][offset[p] - buffered[p] + 1] # BadSymbol
  /\ ShutdownWithError(p, cur)

\* read(2) returns some symbols, ...
BindRefills(p, cur) ==
  /\ Waits(p, cur)
  /\ buffered[p] = 0
  /\ \E n \in offset[p] + 1 .. Len(data[p]) :
       /\ \A i \in offset[p] + 1 .. n : data[p][i] # Eof
       /\ offset' = [offset EXCEPT ![p] = n]
       /\ buffered' = [buffered EXCEPT ![p] = n - offset[p]]
  /\ nextsym' = [nextsym EXCEPT ![p] = cur]
  /\ UNCHANGED <<thread, active, reading, position, channel, accessed, error, stuck, data, links>>

\* ... or none: the segment ends here, and the next one is its end of file.
BindEof(p, cur) ==
  /\ Waits(p, cur)
  /\ buffered[p] = 0
  /\ offset[p] < Len(data[p]) => data[p][offset[p] + 1] = Eof
  /\ offset' = [offset EXCEPT ![p] = IF @ < Len(data[p]) THEN @ + 1 ELSE @]
  /\ channel' = [channel EXCEPT ![p] = Append(@, <<>>)]
  /\ Feeds(p, [seg |-> cur.seg + 1, at |-> 1], Eof)
  /\ UNCHANGED <<accessed, data, buffered>>

AcceptorBinds(p, cur) ==
  /\ reading[p].steps # <<>> /\ Head(reading[p].steps) = "symbol.bind"
  /\ \/ BindKnown(p, cur) \/ BindKnownEof(p, cur)
     \/ BindDecodes(p, cur) \/ BindFails(p, cur)
     \/ BindRefills(p, cur) \/ BindEof(p, cur)

AcceptorAccepts(p, cur) ==
  /\ reading[p].steps # <<>> /\ Head(reading[p].steps) = "unit.plus"
  /\ position' = [position EXCEPT ![p] = cur]
  /\ nextsym' = [nextsym EXCEPT ![p] = cur]
  /\ reading' = [reading EXCEPT ![p].steps = Tail(@)]
  /\ UNCHANGED <<thread, active, channel, accessed, error, stuck, files, links>>

\* Mutant: the thread stays linked to the iport.
AcceptorFailsLinked(p) ==
  /\ reading[p].steps = <<>> /\ reading[p].ends = "fail"
  /\ ThreadFree
  /\ reading' = [reading EXCEPT ![p] = NoAcceptor]
  /\ nextsym' = [nextsym EXCEPT ![p] = NoPlace]
  /\ UNCHANGED <<thread, active, position, channel, accessed, error, stuck, files, links>>

\* The read is over.
AcceptorFails(p) ==
  /\ reading[p].steps = <<>> /\ reading[p].ends = "fail"
  /\ ThreadFree
  /\ reading' = [reading EXCEPT ![p] = NoAcceptor]
  /\ nextsym' = [nextsym EXCEPT ![p] = NoPlace]
  /\ links' = links \ {p}
  /\ UNCHANGED <<thread, active, position, channel, accessed, error, stuck, files>>

AcceptorIsError(p, cur) ==
  /\ reading[p].steps = <<>> /\ reading[p].ends = "error"
  /\ ShutdownWithError(p, cur)

\* No case for its state: the ACE pool has no thread to evaluate it with, or it is a
\* promise nobody has kept.  There is no error for those who wait.
AcceptorIsUnknown(p, cur) ==
  /\ reading[p].steps = <<>> /\ reading[p].ends = "unknown"
  /\ Shutdown(p)
  /\ nextsym' = [nextsym EXCEPT ![p] = cur]
  /\ UNCHANGED <<error, stuck, files>>

\* Mutant: the limit of a segment is one more.
SegmentOverfull(p) == nextsym[p].at > SegmentRoom + 1

\* The segment is full: the next one is made when somebody has come to this one, and
\* sooner when another read waits or the program is over.
SegmentFull(p) == AtLimit(nextsym[p])

\* Mutant: a program that is over makes no difference.
MakesSegmentUnhurried(p) ==
  /\ SegmentFull(p)
  /\ waiting[p] \/ (ThreadFree /\ accessed[p] \in {0, nextsym[p].seg})
  /\ channel' = [channel EXCEPT ![p] = Append(@, <<>>)]
  /\ nextsym' = [nextsym EXCEPT ![p] = [seg |-> LastSegment(p) + 1, at |-> 1]]
  /\ UNCHANGED <<thread, active, reading, position, accessed, error, stuck, files, links>>

MakesSegment(p) ==
  /\ SegmentFull(p)
  /\ \/ waiting[p]
     \/ ThreadFree /\ (state \in Terminating \/ accessed[p] \in {0, nextsym[p].seg})
  /\ channel' = [channel EXCEPT ![p] = Append(@, <<>>)]
  /\ nextsym' = [nextsym EXCEPT ![p] = [seg |-> LastSegment(p) + 1, at |-> 1]]
  /\ UNCHANGED <<thread, active, reading, position, accessed, error, stuck, files, links>>

\* The acceptor has been evaluated by the ACE pool.
AcceptorTurn(p) ==
  LET cur == Current(p) IN
    /\ ~SegmentFull(p)
    /\ reading[p] # NoAcceptor /\ ace = "serving"
    /\ \/ AcceptorBinds(p, cur) \/ AcceptorAccepts(p, cur) \/ AcceptorFails(p)
       \/ AcceptorIsError(p, cur) \/ AcceptorIsUnknown(p, cur)

\* An inactive iport is closed, and its slot free again.
Unregister(p) ==
  /\ ~active[p] /\ reading[p] = NoAcceptor
  /\ registered' = registered \ {p}
  /\ UNCHANGED <<thread, port, files, links>>

ReaderTurn(p) ==
  /\ exit # "crash"
  /\ reader = "loop" /\ ~told /\ p \in registered
  /\ \/ (active[p] \/ reading[p] # NoAcceptor) /\ (MakesSegment(p) \/ AcceptorTurn(p)) /\ UNCHANGED registered
     \/ Unregister(p)
  /\ UNCHANGED <<reader, told, refcount, waiting, blocker, walk, ace, exhausted>>

-----------------------------------------------------------------------------
(* The rest of the read process *)

\* Between two rounds it finds that a collection has failed, or that memory is exhausted,
\* and takes its queue ...
ReaderGivesUp ==
  /\ exit # "crash"
  /\ reader = "loop"
  /\ told \/ (exhausted /\ \E p \in registered : active[p])
  /\ reader' = "closing"
  /\ told' = FALSE
  /\ UNCHANGED <<thread, port, files, registered, refcount, api, walk, ace, exhausted>>

\* ... to shut down all iports, with the queue and the iport locked.
ReaderCloses(p) ==
  /\ reader = "closing"
  /\ p \in registered /\ active[p]
  /\ IF reading[p] # NoAcceptor
     THEN ThreadFree /\ ApiThreadPost
     ELSE UNCHANGED thread
  /\ error' = [error EXCEPT ![p] = TRUE]
  /\ active' = [active EXCEPT ![p] = FALSE]
  /\ reading' = [reading EXCEPT ![p] = NoAcceptor]
  /\ links' = links \ {p}
  /\ UNCHANGED <<position, nextsym, channel, accessed, stuck, files, procs, waiting, blocker,
                 walk, ace, exhausted>>

ReaderGoesOn ==
  /\ reader = "closing"
  /\ \A p \in registered : ~active[p]
  /\ reader' = "loop"
  /\ UNCHANGED <<thread, port, files, registered, told, refcount, api, walk, ace, exhausted>>

\* No clients and no iports: it leaves, and with it goes its hold on the ACE pool.
ReaderLeaves ==
  /\ exit # "crash"
  /\ reader = "loop" /\ ~told
  /\ refcount <= 0 /\ registered = {}
  /\ reader' = "gone"
  /\ UNCHANGED <<thread, port, files, registered, told, refcount, api, walk, ace, exhausted>>

ReaderStep == ReaderGivesUp \/ ReaderGoesOn \/ ReaderLeaves

-----------------------------------------------------------------------------
(* Walkers, in the ACE pool *)

Here(w) == channel[walk[w].port][walk[w].at.seg]

\* Mutant: the end of a full segment is taken for a place in it.
NextNeedInside(place, seg) == IF place.at = Len(seg) + 1 THEN "segment" ELSE "symbol"

\* prim.iptr.next: the next place in the segment, or the next segment.
NextNeed(place, seg) ==
  IF place.at = Len(seg) + 1 \/ place.at = SegmentRoom THEN "segment" ELSE "symbol"

Continue(w, item) ==
  LET need == NextNeed(walk[w].at, Here(w)) IN
    [walk[w] EXCEPT
       !.seen = Append(@, item),
       !.togo = @ - 1,
       !.needs = IF walk[w].togo = 1 THEN "nothing" ELSE need,
       !.at.at = IF walk[w].togo = 1 \/ need = "segment" THEN @ ELSE @ + 1]

\* The symbol, or the end of file, is there, and the walker goes to the next.
WalkerSees(w) ==
  LET p == walk[w].port  place == walk[w].at IN
    /\ walk[w].needs = "symbol" /\ stuck[p] # place.seg
    /\ \/ place.at <= Len(Here(w)) /\ walk' = [walk EXCEPT ![w] = Continue(w, Here(w)[place.at])]
       \/ /\ place.at > Len(Here(w)) /\ place.seg < LastSegment(p)
          /\ walk' = [walk EXCEPT ![w] = Continue(w, Eof)]
  /\ UNCHANGED <<accessed, ace>>

\* It is not, and never will be.
WalkerFails(w) ==
  LET p == walk[w].port  place == walk[w].at IN
    /\ walk[w].needs = "symbol" /\ stuck[p] # place.seg
    /\ place.at > Len(Here(w)) /\ place.seg = LastSegment(p)
    /\ error[p]
    /\ walk' = [walk EXCEPT ![w].needs = "failed"]
    /\ UNCHANGED <<accessed, ace>>

\* ibio_prim_iptr_next_return_wait_for_seg, which does not look for an error.
WalkerCrosses(w) ==
  LET p == walk[w].port  n == walk[w].at.seg IN
    /\ walk[w].needs = "segment" /\ stuck[p] \notin {n, n + 1}
    /\ n < LastSegment(p)
    /\ walk' = [walk EXCEPT ![w].at = [seg |-> n + 1, at |-> 1], ![w].needs = "symbol",
                            ![w].asked = FALSE]
    /\ accessed' = [accessed EXCEPT ![p] = IF @ = n THEN n + 1 ELSE @]
    /\ UNCHANGED ace

WalkerBlocks(w) ==
  LET p == walk[w].port  n == walk[w].at.seg IN
    /\ walk[w].needs = "segment" /\ stuck[p] # n
    /\ n = LastSegment(p)
    /\ walk' = [walk EXCEPT ![w].asked = TRUE]
    /\ UNCHANGED <<accessed, ace>>

\* The segment is locked: the ACE pool waits for it, and does nothing else any more.
WalkerSpins(w) ==
  LET p == walk[w].port  n == walk[w].at.seg IN
    /\ \/ walk[w].needs = "symbol" /\ stuck[p] = n
       \/ walk[w].needs = "segment" /\ stuck[p] \in {n, n + 1}
    /\ ace' = "spinning"
    /\ UNCHANGED <<accessed, walk>>

WalkerStep(w) ==
  /\ exit # "crash"
  /\ ace = "serving" /\ walk[w].port # "none"
  /\ WalkerSees(w) \/ WalkerFails(w) \/ WalkerCrosses(w) \/ WalkerBlocks(w) \/ WalkerSpins(w)
  /\ UNCHANGED <<thread, active, reading, position, nextsym, channel, error, stuck,
                 files, procs, api, exhausted>>

AceLeaves ==
  /\ ace = "serving"
  /\ reader = "gone" /\ main = "exited"
  /\ ace' = "gone"
  /\ UNCHANGED <<thread, port, files, procs, api, walk, exhausted>>

-----------------------------------------------------------------------------
(* Collections, between two rounds of the main process *)

EverybodyWaits == main = "top" /\ reader \in {"loop", "gone"} /\ ace # "spinning"

\* The iports that the rest of the program and the links of the thread lead to
Reached ==
  LET ops == {left[n] : n \in DOMAIN left} IN
    IF \E s \in ops : s.op = "block" THEN Iports
    ELSE links \cup {s.port : s \in {s \in ops : s.op = "read"}}

\* Walkers on their way, which the trace of their threads leads to
WalkersAt(p, n) ==
  \E w \in Walkers :
    /\ walk[w].port = p /\ walk[w].at.seg = n
    /\ walk[w].needs \in {"symbol", "segment"}

\* Neither the blocking data of a read nor that of a walker at the end of a segment can be
\* copied.  An iport that nobody knows is closed; last_accessed_seg may be forgotten
\* (ibio_read_thread_cleanup).
CollectionSucceeds ==
  /\ EverybodyWaits
  /\ blocker = "none" /\ \A w \in Walkers : ~walk[w].asked
  /\ \A p \in registered : stuck[p] = 0
  /\ exhausted' = FALSE
  /\ \E kept \in SUBSET Iports :
       /\ Reached \subseteq kept
       /\ active' = [p \in Iports |-> active[p] /\ (p \in kept \/ p \notin registered)]
  /\ \E forgotten \in SUBSET registered :
       accessed' = [p \in Iports |-> IF p \in forgotten THEN 0 ELSE accessed[p]]
  /\ UNCHANGED <<thread, reading, position, nextsym, channel, error, stuck, files, procs, api, walk, ace>>

\* The collector looks for the segment of nextsym by rounding down: past the end of the
\* first segment of a block that is another one, or none.  A segment that is locked it
\* waits for, and the others wait for it.
CollectionCrashes ==
  /\ EverybodyWaits
  /\ \E p \in Iports :
       \/ p \in registered /\ (AtLimit(nextsym[p]) \/ stuck[p] # 0)
       \/ stuck[p] # 0 /\ WalkersAt(p, stuck[p])
  /\ exit' = "crash" /\ main' = "exited"
  /\ UNCHANGED <<state, left, ended, port, files, procs, api, walk, ace, exhausted>>

CollectionFails ==
  /\ EverybodyWaits
  /\ state' = IF state = "active" THEN "abend" ELSE state
  /\ told' = (told \/ reader = "loop")
  /\ ace' = "gone"
  /\ UNCHANGED <<left, main, ended, exit, port, files, registered, reader, refcount, api, walk, exhausted>>

MemoryFills ==
  /\ ~exhausted
  /\ exhausted' = TRUE
  /\ UNCHANGED <<thread, port, files, procs, api, walk, ace>>

Collection == CollectionSucceeds \/ CollectionCrashes \/ CollectionFails

-----------------------------------------------------------------------------
\* The read process has its queue and waits for the thread, and the main process has the
\* thread and waits for the queue.
Clinch ==
  /\ main = "registering" /\ reader = "closing"
  /\ \E p \in registered : reading[p] # NoAcceptor

Over ==
  /\ \/ main = "exited" /\ (exit = "crash" \/ (reader = "gone" /\ ace # "serving"))
     \/ Clinch /\ \A p \in registered : active[p] => reading[p] # NoAcceptor
  /\ UNCHANGED vars

InputNext ==
  \/ MainStep
  \/ \E p \in Iports : ReaderTurn(p) \/ ReaderCloses(p)
  \/ ReaderStep
  \/ \E w \in Walkers : WalkerStep(w)
  \/ AceLeaves
  \/ Collection \/ MemoryFills
  \/ Over

InputSpec == InputInit /\ [][InputNext]_vars

-----------------------------------------------------------------------------
(* Fairness: every process takes its steps.  A lock that is free again and again is taken,
   and the ACE pool evaluates in the end what it is asked for, again and again: the
   acceptor of a read, an instruction of the thread, the name of a file, and what the
   walkers see that the instruction needs. *)
Needed(w) == main = "eval" /\ Head(left).op = "unit" /\ w \in Head(left).needs

FairInputSpec ==
  /\ InputSpec
  /\ WF_vars(MainStep)
  /\ SF_vars(NameReady)
  /\ SF_vars(Evaluated /\ UNCHANGED <<port, files, procs, api, walk, ace, exhausted>>)
  /\ \A p \in Iports : SF_vars(ReaderTurn(p)) /\ WF_vars(ReaderCloses(p))
  /\ WF_vars(ReaderStep)
  /\ \A w \in Walkers : SF_vars(Needed(w) /\ WalkerStep(w))
  /\ WF_vars(AceLeaves)

-----------------------------------------------------------------------------
(* Properties *)

\* The thread is linked to exactly the iports that read for it, each of them active and
\* with a process that looks after it: it is not let go while one reads, and none is left
\* without.  What is read next is never before what was accepted, and only the last
\* segment grows, so that the next one is never replaced.
ReadsAccounted ==
  /\ links = {p \in Iports : reading[p] # NoAcceptor}
  /\ \A p \in links : active[p] /\ p \in registered
  /\ \A p \in links :
       nextsym[p] # NoPlace =>
         /\ \/ position[p].seg < nextsym[p].seg
            \/ position[p].seg = nextsym[p].seg /\ position[p].at <= nextsym[p].at
         /\ AtLimit(nextsym[p]) => nextsym[p].seg = LastSegment(p)

\* A walker waits for the next segment of an iport that is no longer there.
Forsaken(w) ==
  /\ walk[w].needs = "segment"
  /\ ~active[walk[w].port] /\ walk[w].at.seg = LastSegment(walk[w].port)

\* The program ends and all processes leave, however reads, walkers and the main process
\* wait for each other; but for a clinch, a walker that is forsaken, or a segment that
\* stays locked.
InputEnds ==
  <>(\/ exit # "none" /\ (exit = "crash" \/ (reader = "gone" /\ ace = "gone"))
     \/ Clinch \/ ace = "spinning" \/ \E w \in Walkers : Forsaken(w))

-----------------------------------------------------------------------------
(* The items of a channel: its symbols, and an end of file behind each segment that is not
   full and has a next one. *)

HasItem(p, place) ==
  LET seg == channel[p][place.seg] IN
    place.at <= Len(seg) + (IF Len(seg) < SegmentRoom /\ place.seg < LastSegment(p) THEN 1 ELSE 0)

Places(p) == {place \in PlacesOf(p) : HasItem(p, place)}

Before(place, other) ==
  place.seg < other.seg \/ (place.seg = other.seg /\ place.at < other.at)

\* How many items there are before a place
Index(p, place) == Cardinality({q \in Places(p) : Before(q, place)})

Port == INSTANCE InputPort
          WITH accepted <- [p \in Iports |-> Index(p, position[p])],
               taken <- [p \in Iports |-> Index(p, Current(p))],
               known <- [p \in Iports |-> Cardinality(Places(p))],
               heard <- [p \in Iports |-> reading[p].heard],
               walks <- [w \in Walkers |->
                           [port |-> walk[w].port, seen |-> walk[w].seen,
                            from |-> IF walk[w] = NoWalk THEN 0 ELSE Index(walk[w].port, walk[w].from)]]

\* Acceptors and walkers are given the items of the file, each once and in order, and a
\* read starts where the one before has accepted.
ReadsInOrder == Port!InputSpec
=============================================================================

# A verification development for the Global Script runtime

Global Script is a lazy functional language. This repository holds its
runtime: `src/src/libglobalscript` (loading, type checking, byte-compiling and
evaluating programs, a copying garbage collector, procedural "API" threads) and
`src/src/cmd/ibio` (the IBIO monad: input and output ports served by processes
of their own). All of it is C, with Plan 9 idioms: the processes share memory
(`clone` with `CLONE_VM`), take spin locks, and wait by polling with `sleep(1)`.

Paths below are relative to `src/src`; `lib/` is `libglobalscript/`.

## The system

### Processes

| process | code | role |
|---|---|---|
| main | `lib/apithread.c:52` `apisetupmainthread` | advances the API threads, decides on collections and carries them out, ends the program |
| ACE pool | `lib/ace.c:92` `ace_thread_pool_main` | runs all evaluator threads in turn |
| write pool | `cmd/ibio/oport.c:72` | keeps the queue of write threads alive |
| write processes | `cmd/ibio/oport.c:359` | one per open oport: evaluates a string and writes it |
| read process | `cmd/ibio/iport.c:192` | fills all the iports that somebody reads from |

### Components

**Segment manager and collection rendezvous** (`lib/alloc.c`,
`lib/unix/gssysthreads.c`). State: `blocks[]`, `gs_sys_gc_running`,
`gs_sys_gc_num_procs_in_gc`, `gs_sys_gc_error`, `gs_sys_num_procs`,
`gs_sys_in_gc`, the nurseries of the sub-allocators, tables of callbacks.
Operations: allocate a segment or part of one; ask for a collection and wait;
stop for one and wait; finish or fail one; create a process. Everything else
allocates here, and every process polls here. Hard: two counters stand for the
set of processes that have stopped, while processes come and go; a collection
may fail half-way; what a process read before its poll is stale after it.
Correct when: nobody else touches the heap while objects move; collections do
not overlap; nobody waits for ever; a process is told how its collection ended;
nurseries and queues never lead to a segment that is free or another client's.

**String builders** (`lib/stringbuilder.c`). State: one nursery, outside the
sub-allocators. A builder owns the rest of a segment from reserve to finish.
Hard: a builder that lives through a collection.

**Heap items** (`lib/eval.c`). State: `hp->type` and what goes with it, under
`hp->lock`. Operations: `gsheapeval` (start an evaluation if nobody has),
dereference, collect. **ACE** (`lib/ace.c`, `ace.h`). State: the queue of
threads, `tid`, each thread's state, the chain `cureval` of items it evaluates.
Operations: start, enter, return, update, fail, block, unblock, remove, clean up
after a collection. **Stacks** (`lib/acestack.c`): update frames and
continuations; a collection drops the ones nobody needs. Hard: several processes
ask for the same item; the lock of the item is released before the thread is in
the queue; slots move under the pool's index; an error has to reach every item
the thread evaluates; stack frames go from the middle of stacks.
Correct when: call by need; at most one evaluator; everybody is answered.

**API threads** (`lib/apithread.c`). State: a table of threads with a state
(unused, running, active, two kinds of terminating), code segments, promises, a
queue of termination callbacks. Operations: advance a thread by one statement,
block on a primitive, add a thread, abend or post an abend from another process,
terminate, run the collection. Hard: a state written without looking at it again
after the lock was released; the order of the locks of queue, thread and port;
termination against processes that still post. Correct when: an abend is never
lost; output accepted before a successful exit is written; the program exits.

**IBIO output** (`cmd/ibio/oport.c`): oports, a list of waiting writers, a
buffer, `active`, `writing`, `forward`, the queue of write threads with its
count of clients. **IBIO input** (`cmd/ibio/iport.c`): iports, their segments,
waiting readers, the acceptor of the read that is going on, one read process for
all. Operations: a read statement puts an acceptor in an iport and returns a
pointer to the next symbol at once; the read process feeds the acceptor; whoever
follows the pointer (a walker, in the ACE pool) waits for symbols and segments.
Hard: the read process waits for walkers before it makes a segment, walkers for
the read process, other reads for this one, and the thread's end for all of
them; iport, segment, queue and thread each have a lock; an acceptor may give
symbols back. Correct when: acceptors and walkers are given the symbols of the
file in order, each once; a thread is not let go while it reads; the program
ends. **IBIO threads** (`cmd/ibio/thread.c`,
`ibio.c`): which ports a thread still reads from or writes to; it may end only
when there are none. **Channels, files** (`channel.c`, `file.c`, `external.c`):
built on these.

**Code items** (`lib/load.c`, `typecheck.c`, `bytecompile.c`,
`gsbytecode.h`). State: for each walk over an item, the tables of registers and
their types, the code types of its `.subcode` lines, a stack of what is still to
be applied, and a size or a position in the byte code. Operations: one for each
op of string code, in each of four walks: the parser, the type checker, the size
pass and the emitter. Nothing is passed from one walk to the next but the list of
lines; registers are positions, counted anew each time. Hard: the walks have to
agree, op by op, on the order in which ops may come, on the number of a register
(in and behind branches inside branches), on the size of an instruction, and on
the type of a register. Correct when: the code is as large as the block reserved
for it; a name is the same register in the code that was checked and in the code
that is run; the frame a caller builds is the one the callee reads; what was
checked compiles.

**Ordering and loading of items** (`lib/bctopsort.c`, `load.c:3225`,
`typealloc.c:28`). A file of string code is a set of labelled items: data, code,
types and coercions. State of the sort: two stacks of items, their numbers in
the order of the first visit, and the group of each item that has one; of the
loader: the symbol table, in which what is known of an item is entered bit by
bit. The prefix files of a directory share a table, a document has its own, and
each table has the one before it as its parent. Operations: sort the items of a
file into groups that need one another (strong components, by a path-based
algorithm), groups that are needed first; load each group in eleven phases, each
of which goes over its items. Hard: the sort has rules of its own for what an
item needs, apart from those of the passes that look things up; inside a group
the order of items is an accident; some of the functions that look things up go
on to the parents of a table and some do not. Correct when: the groups are the
components in an order of need; nothing is loaded twice; what an item asks for
is there, and is of the item of that name.

**Other sequential parts**: type allocation (`typealloc.c`), interning
(`symtable.c`), numbers and characters (`naturals.c`, `runes.c`). They run before the processes are created (or within
one instruction) and have numeric edges and graph algorithms rather than
interleavings.

### How they interact

```
 API threads --GS_SLOW_EVALUATE--> heap items --ace_start_evaluation--> ACE queue
     |  ^                              ^                                   |
   prim  api_thread_post               |  GS_SLOW_EVALUATE                 v
     v  |                              |                               ACE pool
 oports, iports <--- write / read processes
     \________________ all of them allocate and poll _________________/
                               alloc.c
```

`PROJECT.json` lists every component with what is modelled of it, and every
hazard at its line with the properties that cover it.

## The modules

| module | models | rests on |
|---|---|---|
| `StopTheWorld` | what the collector is promised: a barrier over sets | - |
| `GCRendezvous` | the rendezvous of `alloc.c` and process creation and exit | implements `StopTheWorld` |
| `GCHeap` | segments, nurseries, string builders and oports across collections | composes with `GCRendezvous`: each action is one of its actions with its effect on the heap |
| `GCHeapProofs` | the theorems about the rendezvous and the heap | TLAPS |
| `AceQueue` | the array of evaluator threads and `thread->tid` | - |
| `LazyCode` | what the code of an item asks for and means | - |
| `LazyHeap` | call by need, abstractly | `LazyCode` |
| `AceEval` | items, threads, stacks, the pool, its clients, collections | composes with `AceQueue`, implements `LazyHeap` |
| `AceEvalProofs` | the consistency of the queue by itself and in the evaluator, types, who evaluates what, who is refused a slot | TLAPS |
| `AceValueProofs` | what items and clients are told, and call by need | TLAPS, `AceEvalProofs` |
| `ApiThread` | the thread of a program and the main loop that advances it | - |
| `OutputPort` | what a program may rely on when it writes | - |
| `IbioOutput` | write statements, write processes, their pool, the end of everything | extends `ApiThread`, implements `OutputPort` |
| `IbioOutputProofs` | its links, counts and output, for any ports and programs | TLAPS |
| `InputPort` | what a program may rely on when it reads | - |
| `IbioInput` | read and open statements, the read process, segments, walkers, the end of everything | extends `ApiThread`, implements `InputPort` |
| `IbioInputProofs` | its links, places and items, for any iports, walkers, files and programs | TLAPS |
| `CodeLines` | lines, types, the layout of byte code, and what the walks over an item share | - |
| `CodeParser`, `CodeChecker`, `CodeSizer`, `CodeEmitter` | the four walks: one operator for each op, a function of what the walk knows and the line | extend `CodeLines` |
| `CodePasses` | the four walks over one item, and the lines it may consist of | composes the four |
| `CodePassesProofs` | the theorems about the walks: sizes, registers, types and arguments | TLAPS |
| `ItemForms` | the forms of items: what the sort takes each to need, what each phase of loading looks up and enters | - |
| `ItemGroups` | what the order of items promises to the loader | - |
| `ItemOrder` | the sort of the items of a file | extends `ItemForms`, implements `ItemGroups` |
| `ItemOrderProofs` | the theorems about the sort | TLAPS |
| `ItemLoader` | the loading of the groups, phase by phase | extends `ItemOrder` |
| `ItemLoaderProofs` | the theorems about the loading | TLAPS, `ItemOrderProofs` |
| `MCAceEval`, `MCIbioOutput`, `MCIbioInput`, `MCCodePasses`, `MCItemLoader` | the instances TLC checks | |

**Granularity.** Every section between `lock` and `unlock` is one step, and a
program counter says where a process is between two of them. A poll that finds
nothing changes nothing and is not a step. What a process does to memory no
other process can see yet belongs to the locked section before it. The locks
themselves are spin locks (`lib/lock.c`), so mutual exclusion is assumed.

**State.** Variables carry the names of the C variables where there is one
(`gc_running` is `gs_sys_gc_running`, and so on); `pc`, `main`, `pool`,
`client` are program counters; `told` and `outcome` are what a call returned and
a history variable. `map` in `PROJECT.json` gives the lines behind every
definition.

**GCRendezvous.** `main` runs `WaitForGC`, `EveryoneStopped`, `FinishGC` or
`GCFailed`, `EveryoneLeft`; the others `WantCollection`, `Park`, `Release`,
`ReadResult`, `DoneWithCollection`. `BeginSpawn` / `CloneSucceeds` /
`CloneFails` and `PoolReturns` / `PoolExits` change the number of processes. The
main process leaves with an unlocked decrement (`ReadNumProcs`,
`WriteNumProcs`).

**GCHeap.** A segment stands for all objects in it. `StartGC` turns allocated
segments into from-space and drops the nurseries, `TraceThreads`, `TraceOport`
and `Evacuate` allocate in to-space, `HeapFinishGC` runs the post-callbacks and
frees from-space, `HeapGCFailed` the failure callbacks and restores it. Four have
a pointer to an oport: the process that serves it (`oport`), the queue of write
threads (`queued`), the API thread among its values (`held`) and, from
`StartWrite` to `Unlink`, in the link of a write (`linked`). The first to be
traced makes the copy, which `TraceHeld` and `TraceLink` give to the thread and
the callbacks to the queue. The thread is abended by a failed collection, and
loses its use of an oport whose process leaves, so `held` is forgotten then;
whether the oport is active or busy is for `IbioOutput` to say. A write
process goes round: reserve a builder, poll, perhaps stop and switch to the new
copy of its oport, finish the builder. Reading memory that is another client's
is a choice between the old contents and a pointer to nowhere (`Wild`), after
which the model goes no further: what the program does with such a pointer is
undefined.

**AceEval.** A thread is named after the item it was started for. Code is the
list of items it asks for and how it ends (`LazyCode`); force, strict, analysis
and application continuations are one kind of frame, `Resume(i, k)`.
`MaxStack` is the height from which the room check of `ace_instr_enter` starts a
new thread. A collection happens only while the pool is at its poll and no
client is inside `ace_start_evaluation`, and drops what the clients cannot come
to need, frame by frame (`Consolidate`).

**ApiThread.** `state` is `thread->state`, `left` the statements from the
instruction pointer on, `main` the place of the main process in its round:
`LookAtMemory`, then one thing for the thread (a statement, or a look at whether
a terminating thread may end), then the next round. A statement is an error, a
block to be unpacked in front of the others, or a primitive; what its evaluation
does is left to `AceEval`. The table has 256 slots, but `api_add_thread` is only
called for the main thread, so the model has that one. Which primitives a program
has is a constant (`Primitives`): `IbioOutput` and `IbioInput` give the handlers.

**IbioOutput.** Starts when `apisetupmainthread` is called, with the ports open.
A section under the lock of a port is one step, and the sections under the lock
of the thread that are nested in it belong to it: the main process never holds
the thread while it takes a port, except at shutdown, when no port has a string
of the thread any more (`PostsInTime`), so the other order cannot be met. A round
of a write process is one of `GivesUp`, `RuneFails`, `RuneReady`, `StringLate`,
`StringHasRune`, `StringEnds`, `StringFails`, `NothingLeft`, or nothing. The
buffer has room for `BufferRoom` runes; `StringLate` is the flush after a
millisecond. The conditions `active` and `writing` of the loop are those of
`oport.c:436`. `told` is the failure of a collection that the process will see
in its next round. The rendezvous itself is that of `GCRendezvous`, here one
step at a point where everybody else is at a poll. The two processes of the
input hold the ACE pool too, and are left out of `ace_refs`.

**IbioInput.** A turn of the read process at an iport is under the iport's lock
from its beginning to its end and is one step, as a primitive is; the locks of
segments and of the thread that are nested in it belong to it. Three locks are
held over several steps and are state: the thread's, by the main process while
it opens a file (`main = "opening"`, `"registering"`) and from the shutdown on
(`ThreadFree`); the queue of the read process, while it closes its iports
(`reader = "closing"`); and a segment that is never unlocked (`stuck`). An iport
keeps `position`, after what has been accepted, and `nextsym`, what the acceptor
is given next; `channel[p]` is the sequence of its segments, and a segment that
has a next one without being full ends in an end of file. An acceptor is a list
of steps, each `symbol.bind` (take a symbol) or `unit.plus` (accept), ended by
`fail`, by an error or in a state the reader has no case for (`AcceptorIsUnknown`: a
promise nobody keeps, or a failure of the ACE pool); evaluating one is left to the ACE pool, which answers
while it serves. `heard` is what the acceptor was given. A walker is a thread
of the ACE pool that goes from symbol to symbol with `prim.iptr.next`:
`accessed` is `channel->last_accessed_seg`, which `WalkerCrosses` moves on and
`MakesSegment` waits for. A statement may need what walkers see (`needs`). Every
iport has a file, of symbols, ends of file (as a terminal gives) and `BadSymbol`,
which the external cannot decode; read(2) returns any number of symbols up to the
next end. `CollectionSucceeds` closes iports that nothing leads to;
it fails when a read or a walker waits in a way that cannot be copied
(`ibio_read_blocking_gccopy`, `ibio_prim_iptr_next_wait_for_seg_gccopy`).
Left out: a file that cannot be opened (nothing changes), `prim.file.stat`, the
count of the ACE pool (here the pool leaves when the main process and the read
process have), the outputs, which are `IbioOutput`. An iport
that is not open yet is there with `active` off and in no slot, and nothing can
name it: each `read` of a program has a walker of its own and each `open` an
iport of its own (`Makes`, `MakesOwn`: what comes with a statement, and for a block with
any statement of its body), as each is allocated by the statement that runs.

**Code items.** A walk is a record: `loop` is the loop it is in (a walk is a
sequence of `while` loops, each of which takes the ops of some groups), `fatal`
is why it died, `branches` are the `.analyze` and `.danalyze` blocks it is inside
of, and the rest are the C tables of the same names. `Sought` finds the loop that
takes the next op: none is the error of an op out of order. `StartBranch`,
`StartCase`, `StartDefault` and `Ending` are the calls and returns of the
functions that read the blocks of a branch, of which a walk saves different
things: the checker its registers, type variables and stack, the size pass its
count, the emitter registers and arguments (but not the types). A step of
`CodePasses` writes one line and lets every walk read it. In the program one walk
is over before the next starts, but they share nothing besides the item, so what
each knows at a line is the same. A program dies with the first walk that does;
the emitter and the size pass are not asked about a line that was refused. Types
are trees of the nodes of `gstypealloc.h`; constructors and fields are numbers in
the order of their names. What is abstracted: variables of types are not named,
so that a substitution is one level off a `forall` and a free type variable is
one that the user has too (`ntyfvs` of them); labels are never given twice
(`gsbc_find_register` takes the first); whether a primitive is known to the
runtime is a choice, and its type is what its line says; that an opened type does
not escape through the type of a `.case` (`gsbc_typecheck_exists_args`), and that
a natural fits a word, are not modelled; neither are compiled types and coercions
(only that they take a register), nor data items.

**Items.** `frames` is the stack of calls of `gsbc_topsort_item`, each with the
edges it has still to follow; `SortRoot`, `OutgoingEdge` and `FinishItem` are the
loop of `gsbc_topsortfile` and the parts of the recursion, `unassigned`, `maybe`
and `preorders` the two stacks and the numbers. `sccs` (the groups in the symbol
table) lasts from file to file, as long as they belong to one table; all else is
new with each. `Item` is the item a label names in the table at work
(`gssymtable_lookup` goes up the parents); since the groups of a table are its
own, a document sorts and loads again every item of its library that it uses, and
what that item names may be the document's. In `ItemLoader` a step is one item in
one phase, or one call or return of `gstypes_compile_type`, which is the one phase
that goes on to another item. `known` is the table at work, `inherited` what its
parents hold: an entry says that a type, a kind, a definition, a value and so on
of a label is there, not what it is; those in `Chained` are also looked for in the
parents. So a program is refused in the model only because a name
has no item, an entry is missing or is there already, types are in a loop, a
stack is full, or the form is not implemented; that its contents may be refused
too would only end a loading sooner. In a few places the code looks a type up and
uses it without a look (`bytecompile.c:1105`, `typecheck.c:587`): a null pointer
there is the same stop.

## What is checked

| run | instance | question |
|---|---|---|
| `GCRendezvous` | 4 processes and main | do the counters keep everybody else out, whoever comes and goes; does every collection end, does everybody run again, does it implement the barrier |
| `GCHeap` | a write process, the thread that writes, the ACE pool, 5 segments | are nurseries, queue, oports and the thread's pointers to them sound after collections that succeed or fail anywhere |
| `GCHeapStaleBuilder` | the read process, 4 segments | a finding, see below |
| `AceEval` | all 1,836 programs and requests of 3 items and 2 clients, room for all threads | one evaluator, nobody waits for a thread the pool forgot, everybody is answered, call by need |
| `AceEvalFull` | two slots, stacks with no room | what a full queue does to the answers |
| `IbioOutput` | 39 programs of up to 4 statements, 2 ports, strings of up to 2 runes, a buffer of 2 | are links, counts and the ACE pool right; is everything written, once, in order, before the exit; does the program end and everybody leave |
| `IbioLostAbend`, `IbioBlocker` | the same programs | findings, see below |
| `IbioInput` | 3 programs of up to 3 statements, 3 files of stdin and one that is opened, segments of 2 symbols, 2 slots | are links and iports in step; is everybody given the items of the file in order, once; does the program end and everybody leave, but for what is named below |
| `CodePasses` | the 1,101,310 beginnings of the items of 14 topics, 4 registers | do the four walks agree on sizes, registers, types and frames; are the fields of a case where the evaluator puts them; does what was checked compile |
| `CodeStaleType` | items with two cases, a record and a field, 6 registers | a finding, see below |
| `ItemLoader` | 8,934 programs of up to 10 items in up to 4 files and 3 symbol tables, stacks of 7 | are the groups the components, in order; is anything loaded twice; is what an item asks for there, in its own table, but for what is named below |

**Bounds.** Four processes are one more than any argument about the rendezvous
needs: one that stops, one that exits, one that is being created and one that is
late. Five segments let each client have one before and one after a collection
and one more be taken by the heap in between; when none is free a run goes no
further, since the program stops at half of its memory. Three items give every
shape that matters: two that need a third, a chain, an application, an error
below and above an item that is shared. Two clients race for an item.
Two ports are what a program is given; strings of none, one and two runes, ending
in nil, in an error or in a bad rune, leave the buffer empty, with room and full;
two statements on one port make the second wait, two ports make the thread have
two links, and a block of four overflows a segment of three.
In `IbioInput` a file of four symbols fills two segments, so that the read waits
for its walker at the second, or is hurried on by another read or by the end of
the program; one of the programs accepts in the middle of a segment, fails with
a symbol taken, and reads again; a terminal ends in a segment that is not full;
another file has a symbol that cannot be decoded behind one that can. Two walkers
follow two reads, of one iport or of two; the opening of the second file meets
the first read in every state, with memory exhausted or not.
An item of `CodePasses` belongs to a topic (`MCTopics`), which says how many
lines of each op it may have, one or two of most and three to six of what a branch
repeats, with a few types each; lines come in any order that the walks do not
refuse, operands are all registers in scope. All the ops occur in items that all
walks accept. With 4 registers the tables are full in most topics
(`MAX_NUM_REGISTERS` is 0x100), and two lines of an op tell first from second; a
branch in a case of a branch is the depth at which saving one level is not
enough.
A program of `ItemLoader` belongs to one of six topics: closures and code that
call one another, constants and other names for them, types, the values that are
written with types of the compiler's own, chains that fill the stacks, and a
library in one table or two with a document that uses it and may hide one of its
labels (a data, a code or a type label), or two. Three
items that may all name one another make circles of one, two and three, two
circles with an item in common, and a circle behind another; with two files in
either order the second meets groups of the first. Files are written in one or
both orders, so that the first item of a group is each of them. About 2,400 of
the programs load; the others show every way to be refused.

**Fairness.** The polls are unconditional loops, so whoever waits takes its next
step. A running process comes back to its poll: the ACE pool after at most
0x1000 instructions (`ace.c:125`), the read process after a round of its iports,
a write process after a cell of its string, provided the system call it is in
returns. Nothing obliges a pool to return, or the program to end. In `AceEval`
the pool and each client are weakly fair, collections are not. In `IbioOutput`
the main process, each write process and the pools are weakly fair. The
evaluation of a statement is strongly fair: the main process asks for it again
and again, each time in a new round, and as long as the ACE pool serves it is
answered in the end (`EveryoneAnswered` of `AceEval`; a program that diverges is
excluded). Nothing makes a collection happen, fail or succeed. In `IbioInput` the
main process, the read process between two turns and the pool are weakly fair. A
turn of the read process at an iport is strongly fair: it comes round again and
again, and the locks it takes are free again and again, as the spin lock has no
order but no process is left out for ever. The evaluation of a statement, of the
name of a file and of an acceptor are strongly fair as in `IbioOutput`, and so is
a walker, while the statement that is being evaluated needs it: nobody else is
made to run.

`ProgramEnds` has an exception: when the flush of a late string fails
(`oport.c:516`) the write process closes the port with the string in hand and the
thread linked to it, and `ibio_thread_term_status` keeps the thread for ever.

`InputEnds` has four exceptions, each of them reached by the run:

- `Clinch`: `prim.file.read.open` holds the thread (`file.c:25`) while it takes
  the queue of the read process (`iport.c:580`); the read process, when memory is
  exhausted or a collection has failed, holds the queue (`iport.c:219`) and posts
  to the thread of a read (238). Neither goes on. The comment at
  `apithread.c:143` warns of just this: "Don't run arbitrary code while holding a
  lock!"
- `stuck`: a symbol that cannot be decoded leaves the segment locked
  (`iport.c:356-361`). The next walker to come to it spins, and with it the ACE
  pool (`ace = "spinning"`).
- `Forsaken`: `ibio_prim_iptr_next_return_wait_for_seg` (`iport.c:957-988`) does
  not look at `channel->error`, unlike `ibio_prim_iptr_next_return`: a walker
  that waits for the segment after a full one of an iport that was closed waits
  for ever.
- a collection that crashes, or never ends (`exit = "crash"`): with a read at
  the limit of a segment, `ibio_iptr_live(iport->nextsym)` (`iport.c:158`) asks
  `ibio_channel_segment_containing` for the segment, which rounds down
  (`channel.c:178`) and finds another, or none; with a segment that is locked the
  collector spins on it.

**Findings.**

1. `GCHeapStaleBuilder`: `iport.c:216` and `oport.c:418` reserve a string
   builder before the poll and finish it after. `gs_sys_in_gc` is 0 again by
   then, so `stringbuilder.c:87` does not notice that its segment was freed, and
   the rest of it becomes the nursery.
2. `IbioLostAbend`: `api_thread_post` marks the thread as terminating while the
   main process has it marked as running and unlocked (`apithread.c:143-155`);
   when the statement is over, 512 or 508 set it to active or done. The message
   is lost and the program may exit with success, though its output failed.
3. `IbioBlocker`: a write that is refused leaves blocking data without a
   blocker, and a collection before the thread has ended follows the null
   pointer (`oport.c:341`).
4. `CodeStaleType`: the end of a `.case` leaves the types above `nregs`
   (`bytecompile.c:2628`), and a `.record` names its register without one; a
   `.field` of it is looked up in the type that register had in another case, and
   reads another field. An `.apply` or a `.danalyze` of such a register goes by
   that type as well: it may be refused, or its cases numbered as that sum has them.

Three more that no run is about. The write process reads `forward` in the old copy
of its oport (`oport.c:426`), which `gs_sys_finish_gc` has freed; a process that
was released earlier may have been given the segment (`GCHeap` takes the read to
find the old contents or another client's, `Wild`; with 5 segments TLC reaches
the second within 23 steps). The sort of the items walks
over the globals of a code item up to the first `.rune` (`bctopsort.c:484-490`
knows `.natural` only), while `doc/string-code.tex:515` says of `.gvar` that it
"declares a dependency on the global variable" and 527 of `.rune` that it "is
kept with the global variables": the `.gvar` lines after it declare none, and a
program may be refused for a global that is there. And the parser takes the free variables of an
`.impprog` before its type arguments (`load.c:1709`), as
`doc/string-code.tex:454` has it, the checker and the emitter after them
(`typecheck.c:2965`); a program with both is refused by one or the other.

`CheckedCompiles` has exceptions, each a way the emitter can refuse what the
checker let through: a `.field` or a `.apply` of a register that the emitter has
no type of ("no type"), a record whose fields are not in order ("fields"; the
checker does not look), a `.bind` of an `.undefined` or `.appty`
("unimplemented"), and an `.impprog` that uses every register, since a `.bind` is
not checked for room and the size pass counts a register for `.body .apply`
(`bytecompile.c:981`) that nobody names, and an item with a `.danalyze`, whose
cases keep their type registers when they are over (`bytecompile.c:2689`; those of
an `.analyze` do not, 2631), so that they add up to more than there are; and what
follows from `CodeStaleType`: in a case that is not the first the emitter may find no
such field or constructor in the type a register had in an earlier one, or find it to
be no function (the topic `leftovers` reaches all three). All of these
are fatal errors of the compiler; but what type a name of a type
stands for behind a case of a `.danalyze` is not modelled, since types have no names
here.

`FindsItsOwn` has exceptions, each of them reached by the run; a program that meets
one is refused with a message that something could not be found, though it is
there:

- `Unfollowed`, what the sort makes no edge of: the globals of code from its
  first `.rune` on; the type of the elements of a `.list`
  (`bctopsort.c:385-405`, looked up at `typecheck.c:559`); `regex.class.t` of a
  `.regex` (`bytecompile.c:1244`). Whether it is there is up to the order of the
  items in the file.
- `OrderMatters`, inside a group: the type of data that states none, when it is
  needed in a circle; the type of code that two items use; the value behind an
  `.alias` or a `.cast`; an abstract type that a `.tyexpr` names by
  `.tyextabstype`, which does not compile it on the spot as `.tygvar` does.
- The definition of a type that is not abstract: there is none, and a coercion to
  it is refused for that.

With a library behind a document, the same cases may go another way: the entry
that is missing is one of an earlier table, under the same label
(`gssymtable_get`, `load.c:2919`). Where the document hides that label, it is the
entry of another item:

- the value behind an `.alias` or a `.cast` in a circle is the library's, and the
  name then stands for the hidden item;
- a closure in a circle whose code it shares with another one is checked with the
  type of the library's code of that name, though it runs the document's, since
  code itself is always there when it is asked for;
- a coercion to a type that is not abstract but hides one that is gets the
  definition of the hidden one, and is not refused.

No doc says what a label that is hidden should mean here, so there is no finding;
all three need a document that hides a label of its library.

Everything else that an item asks for is there, in its own table, when it
asks. This is what the mutants of the phases and of the sort break.

## What is proved

From the first part of `GCHeapProofs`, for any finite set of processes (`WorkersFinite`):

- `Inductive`: `Spec => []IInv`. `CollectorAlone` alone is not inductive: that
  the counters agree says nothing unless they are exact, and exactness is lost
  unless it is known where a process may be while the collector is in each of
  its phases. `IInv` adds the exactness of the counters, as cardinalities of
  sets of processes, and `Phases`: a process past `want_collection` means the
  collector is still gathering, a process past its polling loop that it is
  draining, and at most one process is being created.
- `Alone`, `CountersCount`, `TruthTold`, `TypeCorrect` follow from it, and
  `NoneLeftBehind`, an action property, from it and the step.
- `Refines`: `Spec => Implements`. That two cardinalities are equal and one set
  is part of the other makes the sets equal; every other step is a step of
  `StopTheWorld`, or a stutter, by the phases.

From the first part of `AceEvalProofs`, for any finite set of threads and any number
of slots:
`Consistent`, that the array and `thread->tid` stay inverse of each other through
`Enqueue`, `UnlinkThread` and `CleanupThreads`. With the types of the variables
it is inductive as it stands. The hard step is a collection: the ranks of the
threads that stay are all different and are exactly the first slots, by
induction-free counting (`RankOnto`).

From the rest of `GCHeapProofs`, for any number of segments, write processes and other
workers:

- `HeapRendezvous`: every step of the heap is one of the rendezvous, so `IInv`
  holds of it. It says who is stopped while main collects, which is what the
  heap rests on.
- `HeapInductive`: `HeapSpec => []HeapInv`. For each write process `HeapInv` says
  where the queue, the process's own pointer and the field `forward` point at
  each stage of a collection: between collections at a live oport; during one at
  the old copy in from-space, or through `forward` at the new one; and `forward`
  is only found in an oport whose process is stopped and has not switched yet. What
  the thread has (`Pointed`) is what the queue has, or the copy that the collection
  under way has made of it: without this a collection that fails could not be
  shown to leave the two together.
- `NurseriesAlwaysOurs`, `QueueAlwaysAlive`, `HeapTypesHold` follow, for
  collections that succeed or fail at any point.
- `SameOportAlways`: while nobody collects, the queue, the thread's value and the
  link of its write mean the same copy of an oport, and so does the process that
  serves it when it runs. The one exception is a process that has read its `forward`
  in memory that is another client's (`Wild`), which is also where the
  model, and with it what is proved, ends.

From the rest of `AceEvalProofs` and `AceValueProofs`, for any items, clients, programs, size
of the queue and of the stacks:

- `EvalTypesHold`, with `Types`: besides types it says that a thread in use has
  an update frame at the bottom of its stack (`Shape`) and what each place of the
  pool knows of its thread (`Control`). `UsesQueue`, every step of the evaluator
  is an operation of `AceQueue` or leaves it alone, and `EvaluatorQueueConsistent`
  carries its consistency over; the operations have preconditions (a thread is
  queued once; only a queued one is removed), which `Types` supplies.
- `OneEvaluatorAlways`, with `Evals`: stacks share no item (`Exclusive`), and no
  item under evaluation that can still be reached has left all stacks (`Kept`).
  The hard step is a collection, which thins every stack: what is reached is
  closed under what an item leads to, and what leads on is what lies ahead of its
  thread (`LeadsAhead`), so the frames that stay keep all that is reached.
- `WorksUnlessRefused`: while nobody was refused a slot, nobody waits for an item
  the pool will not get to; `SomebodyWorksAlways`: so it is in every state with a
  slot for every item (`RoomForAll`). Without the hypothesis it is false, and is
  so in the code: `ace_start_evaluation` leaves the item locked up in an
  evaluation without a thread when the queue is full.
- `SoundValuesAlways`, when no item needs itself (`NoCircles`): an item gets, and
  a client is told, what the code means, or the failure. `Vals` says of each
  frame of a stack what it expects and what it will pass on. That a program
  without circles has a meaning (`MeaningExists`) is shown by a least
  counterexample, as no induction theorem with an operator parameter can be used
  here. An item that needs itself has no meaning, and blocks its thread for good.
- `CallByNeedHolds`, with both hypotheses: the evaluator implements `LazyHeap`;
  threads, turns, stacks and collections cannot be seen from outside.

From `IbioOutputProofs`, for any finite set of ports, any set of statements
closed under the bodies of blocks (`StatementsClosed`), and any size of segment
and buffer that has room for one entry:

- `OutputInvariant`: `OutputSpec => []OutputInv`. `LinksExact` and `CountsExact`
  need little more than the types. The others do: that the ACE pool does not
  return too early rests on the counts (when they are zero, the main process has
  exited and every write process is gone), on `LetGo` (then the thread is linked
  to nothing, so by `LinksExact` no port has a string) and, after a collection
  that failed, on who has been told of it (`AceInv`).
- `OutputTypeCorrect`, `LinksAlwaysExact`, `CountsAlwaysExact` and
  `AceAlwaysServes` follow from it. The first says in particular that a write
  process never appends to a full buffer.
- `PostedInTime`, an action property: a main process that is on its way out has
  let go of a thread that was linked to nothing, and a write process without a
  string has nothing to post.
- `NothingLost`: on a port whose failure has not been posted, what was accepted is the
  output, the buffer, the rune in hand and the rest of the string, in this order; one
  whose failure has been is closed for good (`DeliveryInv`). The place where this is hard
  is the flush of a late string, after which the buffer must be empty and the rune not
  yet taken.
- `WrittenInOrder`: `OutputSpec => WritesInOrder`. A write is accepted by a port that
  owes nothing (`AllWritten`), a turn of its process writes a first part of what is owed
  (`PartIsPut`), and when the main process exits no port has a string (`LetGo`,
  `LinksExact`), so everything is out.

From `IbioInputProofs`, for any finite set of iports, any set of walkers, any files,
number of slots and size of a segment, and any set of statements closed under the
bodies of blocks in which every read has a walker and every open an iport of its
own (`MakesOwn`):

- `InputInductive`: `InputSpec => []InputInv`. `ReadsAccounted` is not inductive: that
  only an active iport reads rests on what `ibio_read_threads_down` finds, a thread
  that was let go because it was linked to nothing (`LetGo`), and on iports with no
  read having nothing half-read. Every place
  that somebody holds, an iport or a walker, is one at which there is a symbol or the
  next one will be (`Valid`), and stays one, since channels only grow at their end
  (`Grows`); `nextsym` is past the end of a segment only in the last one (`ReadOK`),
  so that the next segment is made once; a walker that waits for the next segment is
  at the last item of its own (`WalkOK`). `FreshInv` says of the statements that are
  left that nobody has used what comes with them, so an iport is opened, and a walker
  started, once. The turns of the read process are sorted into nine kinds (`TurnKinds`)
  and each is shown to keep its own iport right and the others as they are.
- `InputTypesHold` and `ReadsAlwaysAccounted` follow. The first says in particular that
  no segment is overfull and that no place is outside of the channel.
- `ContentRight`: `InputSpec => []ContentInv`. The items of a channel are the first
  items of the file, in order, and an end of file is one of them exactly where a
  segment that is not full has a next one (`Content`); how many there are is how far the
  file has been read and decoded, but for ends of file behind its end (`FileRead`); and
  a walker has seen as many items as lie between where it started and where it is
  (`Seen`). Items are counted as places before a place (`Index`), so that going on to the
  next place in a segment (`StepInside`), from the last one to the next segment
  (`StepAcross`), and growth at the end (`Gains`, `GainedIndex`) are facts about
  finite sets, without induction over the channel.
- `ReadInOrder`: `InputSpec => ReadsInOrder`. Every turn of the read process takes the
  next item, accepts, or ends the read, or is no step of the abstract port
  (`TurnMaps`); a read starts at what has been accepted, with a walker nobody has used
  (`ReadMaps`); and a walker sees the next item (`WalkerMaps`). So whatever an acceptor
  gives back is given to the next one again, and a walker that follows a pointer of an
  old read sees the same items.

From `ItemOrderProofs` and `ItemLoaderProofs`, for any set of programs the parser
may produce (`ProgramsAssumption`), any number of files and tables, and any size of
the stack that the loader's arrays can take (`GroupCapacityAssumption`):

- `SortInductive`: `Spec => []SortInv`. The numbers of the first visits order both
  stacks; the maybes are calls that are not over and cut the stack of items into
  segments. Two facts carry the algorithm: every segment is strongly connected
  (`Segments`: no proper part of it is closed under what its items need), and an
  edge that has been followed leads to an item with a group or to one that no maybe
  separates from its source (`Followed`). An edge from the top back into the stack
  takes the maybes off down to that segment, and joins segments each of which needs
  the next one (`MergeStrong`, along the path of calls); a call that ends as the top
  maybe has all edges of its segment followed, so the segment needs nothing without
  a group outside itself (`PopFacts`). A stack of C calls is a sequence of frames
  here, and strong connection is stated over subsets rather than over paths, so that
  no induction over paths is needed.
- `SortKeepsItsPromise`: `Spec => GroupsInOrder`. Each finished call that makes a
  group is a `Group` of `ItemGroups`; the end of a file is `EndFile`, since every root
  then has a group, and every group was asked for (`Asked`) by a root or by a later
  one. The document's entry is in the last group because it is the only root.
- `LoadInductive`: `Spec => []LoadInv`. `Sources` says of every entry of the symbol
  table where it comes from: an item of a group that is loaded, or the phase of the
  present group that makes entries of that kind, which has passed the item. As the
  groups are disjoint, and no two phases make the same kind of entry for an item (a
  kind is declared or checked, a type of data signed or checked), an entry is not
  there when it is made (`NotThereYet`).
- `LoadedOnceAlways` follows: `gssymtable_set_scc` and `gssymtable_set` are never
  given what they have, the group fits the arrays of `gsload_scc` since it came from
  a stack that did, and the entry of a document is found.
- `FindsItsOwnAlways`: `Spec => []FindsItsOwn`. `MadeInv` is the converse of
  `Sources`: of a group that is loaded every entry is there, of the group at work those
  of the phases that are over, and what a call for a type has left are types its item
  names. `NeedsFacts` says for each phase which names on an item it asks for, and that
  each is an edge of the sort or in `Unfollowed`; `Grouping` puts an edge in this or an
  earlier group; `NamesFit` (a label names an item of the kind the op is for) says which
  phase makes the entry (`Maker`). What is left is the phase at work. Two cases need more:
  the type of a code item further on in the group has to have a second user, since code is
  visited for an item that is already on the stack, hence comes before it in the reversed
  group (`UsedInv`); and a group that has a coercion has only types and coercions, as it is
  strongly connected and types and coercions need only types (`NoCoercionHere`).

From `CodePassesProofs`, for any subcodes, any topics and any number of registers:

- `SizesAlwaysAgree`: as long as nobody has refused the item, what the walk for the size
  counts is what the emitter writes. `PassesInAgreement` says with it (`InStep`) that
  every walk keeps a state of its own kind (`SizerOK`, `EmitterOK`, `CheckerOK`,
  `ParserOK`: the frames a sequence, the counters numbers, the parser's bounds on
  statements), without which a size is no sum. There is one lemma for each op in each
  walk, then one for each line that compares what the two add.
- `RegistersAlwaysAgree`: a register has the same number in the checker as in the sizer
  and in the emitter. This needs more than the numbers of registers (`InAgreement`): at
  the end of a branch each walk cuts its registers back to what its own stack of frames
  says, so the stacks must be as deep and remember the same numbers (`Matched`,
  `Alike`); and a program of the api ends in the emitter by ending its body, in the
  checker by ending blocks, so that there must be none (`Flat`). The ends of branches
  are folds over as many frames as the branch closes; they are taken apart one frame
  at a time (`UpTo`, `EmitUnrolls`) by an induction over a set of numbers written out,
  as the library's theorem for induction takes an operator.
- `TypesAlwaysAgree`: outside the blocks of a branch the emitter has for a register the
  type the checker gave it, or none. Each walk computes types of its own, so every op
  that names a register is taken in both (`TypesNamed`, `CheckerStep`) and the two types
  are compared: of an application the fold over its arguments, of a field the fold over
  the product it is a field of. The agreement for these registers alone is not
  inductive (`TypesInStep`, `TypesMatch`): the checker must have as many types as
  registers, and the emitter no fewer, more behind a branch, as a `.case` that ends takes
  back its registers and leaves their types; before the first branch it has exactly as
  many, so that a new type goes with the new register; and a frame never remembers
  more registers than one inside of it or than there are (`FramesFit`), so that what
  is cut back at the end of a branch leaves the registers outside it as they were.
  Within a branch the types may differ, which is the hazard at `bytecompile.c:2628`.
- `CaseArgsAlwaysInPlace`: when a `.case` ends, its `.fkarg`s have registers in the order
  of the fields of its constructor, or its one argument is the `.karg`. The checker
  compares an argument with the constructor and never looks at registers; the emitter
  orders registers and never looks at the constructor. What ties them together
  (`ArgsInStep`, `InCase`) is where the checker is in its loops: behind the loop of the
  `.fkarg`s there may be a `.karg`, and then the emitter has counted one argument since
  the frame of the branch was pushed; before it there is none, and none counted; in
  both the fields are the same by name. Between two cases the count is the frame's
  again (`EndArgs`), else the second case would start with the arguments of the first.
  `TerminalFits` says that a terminal the checker accepts was compared with the
  constructor of the innermost case, though it may end several; `BaresWhatHides` that
  the types an `.exkarg` hides do not hide a product for good.

Only model-checked: liveness (out of the prover's reach: `ProgramEnds`, `InputEnds` and
whatever else states fairness), and of the code passes `FrameAgrees` and
`CheckedCompiles`. The first needs what is left of a type after the whole stack of an
item was unwound; the second that a line accepted by the checker is accepted by the
emitter, with the types inside of a branch too, of which `TypesMatch` says nothing.

## What is not modelled, and the plan

Order: what several processes share first, then what one of them does alone.

1. (done) The rendezvous with its proofs, the heap across collections, the
   evaluator's queue and the evaluator.
2. (done: `ApiThread`, `IbioOutput`, `IbioInput`, with their proofs) Next failed
   collections in `AceEval`; lprims; start-up that fails half-way.
3. (done: the code passes, the order and the loading of items with their proofs) Next
   data items (`bytecompile.c:86`, 1075), whose sizes are counted and written by two
   walks too; substitution in types (`typecheck.c:3674`).
4. `GCCopy`: evacuation as a graph algorithm with forwarding pointers, against
   reachability; promises; proofs that forwarding is injective and total on what
   is reached.
5. Sequential algorithms as operators against reference definitions: interning in
   `symtable.c`, numbers and characters (`naturals.c`, `runes.c`).

Not planned: the reading of files and directories in `load.c`, compiled types
and coercions, client expressions, system-call wrappers, statistics, test
drivers, programs written in Global Script.

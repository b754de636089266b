------------------------------- MODULE AceEval -------------------------------
(***************************************************************************)
(* The evaluator: heap items (libglobalscript/eval.c), the threads that    *)
(* evaluate them, and the one process, the ACE pool, that runs the threads *)
(* in turn (libglobalscript/ace.c).  Its clients are other processes -- the*)
(* API threads' main process and the read and write processes -- which ask *)
(* for the value of an item with GS_SLOW_EVALUATE until they get it, and   *)
(* start threads of their own when nobody evaluates it yet.                *)
(*                                                                         *)
(* A step does what one holder of an item's lock or of the queue's lock    *)
(* does.  Everything between two such sections is private to the process   *)
(* that does it, and is part of the step it follows.                       *)
(***************************************************************************)
EXTENDS AceQueue, LazyCode

CONSTANTS
  Items,                \* heap items: a thread is named after the item it starts with
  Clients,
  Programs,             \* the code the items may have: a set of functions on Items
  MaxStack              \* a stack with this many frames has no room to enter a closure

ASSUME ThreadsAreItems == Threads = Items
ASSUME RoomForOneFrame == MaxStack \in Nat \ {0}
ASSUME ProgramsWellFormed ==
  \A p \in Programs :
    /\ DOMAIN p = Items
    /\ \A i \in Items : WellFormed(p[i]) /\ p[i].needs \in Seq(Items)

VARIABLES
  code,                 \* code[i]: the code of item i (never changes)
  type,                 \* type[i]: hp->type
  dest,                 \* dest[i]: where the indirection of item i leads
  state,                \* state[t]: thread->state, with what goes with it
  stack,                \* stack[t]: continuations, the top one first
  pool,                 \* what the ACE pool is doing
  cursor,               \* tid in ace_thread_pool_main
  client,               \* client[c]: what client c is doing
  asked,                \* asked[c]: the item it wants (never changes)
  answer                \* answer[c]: what it got

eval == <<code, type, dest, state, stack, pool, cursor, client, asked, answer>>
fixed == <<code, asked>>

\* Continuations.  Only update frames are linked from thread->cureval; "resume" stands
\* for the force, strict, analysis and application continuations: the rest of the code
\* of item i, once the k-th item it asked for is there.
Update(i) == [node |-> "update", item |-> i, k |-> 0]
Resume(i, k) == [node |-> "resume", item |-> i, k |-> k]

Push(f, s) == <<f>> \o s

Entering(i) == <<"entering", i>>
Returning(v) == <<"returning", v>>
Blocked(i) == <<"blocked", i>>
Runnable(t) == state[t][1] \in {"entering", "returning"}

\* The place of the pool in its loop, and the thread it has locked.
Find == [at |-> "find", thread |-> NoThread, new |-> NoThread, err |-> None]
At(place, t) == [Find EXCEPT !.at = place, !.thread = t]

Frames == [node : {"update"}, item : Items, k : {0}]
            \cup [node : {"resume"}, item : Items, k : Nat]

EvalTypeOK ==
  /\ QueueTypeOK
  /\ type \in [Items -> {"thunk", "eval", "indirection", "whnf"}]
  /\ \A i \in Items : dest[i] = None <=> type[i] # "indirection"
  /\ \A t \in Threads : state[t][1] \in {"none", "entering", "returning", "blocked"}
  /\ \A t \in Threads : \A n \in 1 .. Len(stack[t]) : stack[t][n] \in Frames
  /\ pool.at \in {"find", "turn", "run", "enqueue", "fail", "unlink", "advance", "left"}
  /\ {pool.thread, pool.new} \subseteq Threads \cup {NoThread}
  /\ cursor \in Slots
  /\ client \in [Clients -> {"ask", "enqueue", "done"}]

EvalInit ==
  /\ QueueInit
  /\ code \in Programs
  /\ type = [i \in Items |-> IF code[i].kind = "function" THEN "whnf" ELSE "thunk"]
  /\ dest = [i \in Items |-> None]
  /\ state = [t \in Threads |-> <<"none">>]
  /\ stack = [t \in Threads |-> <<>>]
  /\ pool = Find
  /\ cursor = 0
  /\ client = [c \in Clients |-> "ask"]
  /\ asked \in [Clients -> Items]
  /\ answer = [c \in Clients |-> None]

-----------------------------------------------------------------------------
(* Heap items *)

\* What gsheapeval and GS_REMOVE_INDIRECTION find without starting anything.
ValueNow(i) == IF type[i] = "whnf" THEN Val(i) ELSE dest[i]

\* ace_thread_enter_closure for item i on top of the continuations below: a closure is
\* entered, an application waits for its function and has its arguments as a
\* continuation.
EntryState(i) ==
  IF code[i].kind = "application" THEN Blocked(code[i].needs[1]) ELSE Entering(i)

EntryStack(i, below) ==
  IF code[i].kind = "application"
  THEN Push(Resume(i, 1), Push(Update(i), below))
  ELSE Push(Update(i), below)

\* Mutant: the state is read before the item is locked, and somebody else may have
\* started by then.
EnterClosureUnchecked(t, i, below) ==
  /\ type[i] \in {"thunk", "eval"}
  /\ type' = [type EXCEPT ![i] = "eval"]
  /\ state' = [state EXCEPT ![t] = EntryState(i)]
  /\ stack' = [stack EXCEPT ![t] = EntryStack(i, below)]
  /\ UNCHANGED dest

EnterClosure(t, i, below) ==
  /\ type[i] = "thunk"
  /\ type' = [type EXCEPT ![i] = "eval"]
  /\ state' = [state EXCEPT ![t] = EntryState(i)]
  /\ stack' = [stack EXCEPT ![t] = EntryStack(i, below)]
  /\ UNCHANGED dest

\* ace_start_evaluation of item i, up to the lock of the queue.
StartEvaluation(i) ==
  /\ AllocThread(i)
  /\ EnterClosure(i, i, <<>>)

\* Mutant: the type is left.
UpdateItemDestOnly(i, v) ==
  /\ dest' = [dest EXCEPT ![i] = v]
  /\ UNCHANGED type

\* hp->type = gsindirection; in->dest = v
UpdateItem(i, v) ==
  /\ type' = [type EXCEPT ![i] = "indirection"]
  /\ dest' = [dest EXCEPT ![i] = v]

-----------------------------------------------------------------------------
(* The clients: GS_SLOW_EVALUATE in a loop *)

ClientStarts(c) ==
  /\ client[c] = "ask"
  /\ StartEvaluation(asked[c])
  /\ client' = [client EXCEPT ![c] = "enqueue"]
  /\ UNCHANGED <<fixed, pool, cursor, answer>>

ClientEnqueues(c) ==
  /\ client[c] = "enqueue"
  /\ \/ /\ Enqueue(asked[c])
        /\ client' = [client EXCEPT ![c] = "ask"]
        /\ UNCHANGED answer
     \/ /\ OutOfThreads(asked[c])
        /\ client' = [client EXCEPT ![c] = "done"]
        /\ answer' = [answer EXCEPT ![c] = Failure]
  /\ UNCHANGED <<fixed, type, dest, state, stack, pool, cursor>>

\* gstywhnf, or gstyindir and then the value.  A client that has its answer calls
\* ace_down when it leaves.
ClientSees(c) ==
  /\ client[c] = "ask"
  /\ ValueNow(asked[c]) # None
  /\ client' = [client EXCEPT ![c] = "done"]
  /\ answer' = [answer EXCEPT ![c] = ValueNow(asked[c])]
  /\ UNCHANGED <<queue, fixed, type, dest, state, stack, pool, cursor>>

\* ace_thread_queue->refcount
RefCount == Cardinality({c \in Clients : client[c] # "done"})

-----------------------------------------------------------------------------
(* The pool: finding a thread *)

\* The pool leaves when nobody can ask for anything any more.
LeavePool ==
  /\ pool.at = "find"
  /\ RefCount = 0
  /\ pool' = At("left", NoThread)
  /\ UNCHANGED <<queue, fixed, type, dest, state, stack, cursor, client, answer>>

\* What the thread is blocked on is still being evaluated, or there is no thread in
\* this slot.
FindNothing ==
  LET t == threads[cursor] IN
  /\ pool.at = "find"
  /\ RefCount > 0
  /\ t # NoThread => state[t][1] = "blocked" /\ type[state[t][2]] = "eval"
  /\ pool' = At("advance", NoThread)
  /\ UNCHANGED <<queue, fixed, type, dest, state, stack, cursor, client, answer>>

FindRunnable ==
  LET t == threads[cursor] IN
  /\ pool.at = "find"
  /\ RefCount > 0
  /\ t # NoThread
  /\ Runnable(t)
  /\ pool' = At("turn", t)
  /\ UNCHANGED <<queue, fixed, type, dest, state, stack, cursor, client, answer>>

\* Mutant: an error is returned like any value.
FindUnblockedIgnoresErrors ==
  LET t == threads[cursor] IN
  /\ pool.at = "find"
  /\ RefCount > 0
  /\ t # NoThread
  /\ state[t][1] = "blocked"
  /\ ValueNow(state[t][2]) # None
  /\ pool' = At("turn", t)
  /\ state' = [state EXCEPT ![t] = Returning(ValueNow(@[2]))]
  /\ UNCHANGED <<queue, fixed, type, dest, stack, cursor, client, answer>>

\* What the thread waits for is there: it is returned to the thread, or fails it.
FindUnblocked ==
  LET t == threads[cursor]
      v == ValueNow(state[t][2])
  IN
  /\ pool.at = "find"
  /\ RefCount > 0
  /\ t # NoThread
  /\ state[t][1] = "blocked"
  /\ v # None
  /\ IF IsError(v)
     THEN pool' = [At("fail", t) EXCEPT !.err = v] /\ UNCHANGED state
     ELSE pool' = At("turn", t) /\ state' = [state EXCEPT ![t] = Returning(v)]
  /\ UNCHANGED <<queue, fixed, type, dest, stack, cursor, client, answer>>

\* An application's function, or an item whose evaluation nobody has started.
FindUnstarted ==
  LET t == threads[cursor]
      i == state[t][2]
  IN
  /\ pool.at = "find"
  /\ RefCount > 0
  /\ t # NoThread
  /\ state[t][1] = "blocked"
  /\ StartEvaluation(i)
  /\ pool' = [At("enqueue", t) EXCEPT !.new = i]
  /\ UNCHANGED <<fixed, cursor, client, answer>>

\* A thread that cannot be queued fails the one that needs it.
PoolEnqueues ==
  /\ pool.at = "enqueue"
  /\ \/ Enqueue(pool.new) /\ pool' = At("advance", NoThread)
     \/ OutOfThreads(pool.new) /\ pool' = [At("fail", pool.thread) EXCEPT !.err = Failure]
  /\ UNCHANGED <<fixed, type, dest, state, stack, cursor, client, answer>>

-----------------------------------------------------------------------------
(* The pool: running thread t until it blocks, finishes or has had its turn *)

Top(t) == Head(stack[t])
Below(t) == Tail(stack[t])

\* Where the code of the running thread goes on: entering a closure, or coming back to
\* a continuation that is not an update frame.  The item and how much of it is done:
Runs(t) == \/ state[t][1] = "entering"
           \/ state[t][1] = "returning" /\ Top(t).node = "resume"
Item(t) == IF state[t][1] = "entering" THEN state[t][2] ELSE Top(t).item
Done(t) == IF state[t][1] = "entering" THEN 0 ELSE Top(t).k
\* ... and what is left of the stack.
Rest(t) == IF state[t][1] = "entering" THEN stack[t] ELSE Below(t)

Needs(t) == code[Item(t)].needs
NextNeed(t) == Needs(t)[Done(t) + 1]

\* The stack when the next need is entered: the continuation for its value, unless
\* the code ends with entering it.
Pushed(t) ==
  IF Done(t) + 1 = Len(Needs(t)) /\ code[Item(t)].ends = "enter"
  THEN Rest(t)
  ELSE Push(Resume(Item(t), Done(t) + 1), Rest(t))

Continue(t) == pool' = At("run", t)

\* .enter of a thunk on the same stack, if there is room; of an item somebody
\* evaluates; of one that has its value already; of one that has none, with no room.
Enter(t) ==
  LET i == NextNeed(t)
      room == Len(Pushed(t)) < MaxStack
  IN
  /\ Runs(t)
  /\ Done(t) < Len(Needs(t))
  /\ \/ room /\ EnterClosure(t, i, Pushed(t)) /\ UNCHANGED queue /\ Continue(t)
     \/ /\ ~room /\ type[i] = "thunk"
        /\ AllocThread(i)
        /\ type' = [type EXCEPT ![i] = "eval"]
        /\ state' = [state EXCEPT ![i] = EntryState(i), ![t] = Blocked(i)]
        /\ stack' = [stack EXCEPT ![i] = EntryStack(i, <<>>), ![t] = Pushed(t)]
        /\ pool' = [At("enqueue", t) EXCEPT !.new = i]
        /\ UNCHANGED dest
     \/ /\ type[i] = "eval"
        /\ state' = [state EXCEPT ![t] = Blocked(i)]
        /\ stack' = [stack EXCEPT ![t] = Pushed(t)]
        /\ Continue(t) /\ UNCHANGED <<queue, type, dest>>
     \/ /\ ValueNow(i) # None /\ ~IsError(ValueNow(i))
        /\ state' = [state EXCEPT ![t] = Returning(ValueNow(i))]
        /\ stack' = [stack EXCEPT ![t] = Pushed(t)]
        /\ Continue(t) /\ UNCHANGED <<queue, type, dest>>
     \/ /\ ValueNow(i) # None /\ IsError(ValueNow(i))
        /\ pool' = [At("fail", t) EXCEPT !.err = ValueNow(i)]
        /\ stack' = [stack EXCEPT ![t] = Pushed(t)]
        /\ UNCHANGED <<queue, type, dest, state>>

\* .yield of what the code has built, or .undef
Finish(t) ==
  /\ Runs(t)
  /\ Done(t) = Len(Needs(t))
  /\ \/ /\ code[Item(t)].ends = "yield"
        /\ state' = [state EXCEPT ![t] = Returning(Val(Item(t)))]
        /\ stack' = [stack EXCEPT ![t] = Rest(t)]
        /\ Continue(t)
     \/ /\ code[Item(t)].ends = "undef"
        /\ pool' = [At("fail", t) EXCEPT !.err = Err(Item(t))]
        /\ stack' = [stack EXCEPT ![t] = Rest(t)]
        /\ UNCHANGED state
  /\ UNCHANGED <<queue, type, dest>>

\* ace_return_to_update: the item becomes an indirection to the value, and the next
\* frame is returned to, unless it was the last.
ReturnToUpdate(t) ==
  /\ state[t][1] = "returning"
  /\ Top(t).node = "update"
  /\ UpdateItem(Item(t), state[t][2])
  /\ stack' = [stack EXCEPT ![t] = Below(t)]
  /\ IF Below(t) = <<>>
     THEN FinishThread(t) /\ pool' = At("unlink", t)
     ELSE pool' = At("turn", t) /\ UNCHANGED queue
  /\ UNCHANGED state

RunThread ==
  LET t == pool.thread IN
  /\ pool.at \in {"turn", "run"}
  /\ Runnable(t)
  /\ Enter(t) \/ Finish(t) \/ ReturnToUpdate(t)
  /\ UNCHANGED <<fixed, cursor, client, answer>>

\* The thread is blocked, or has run 0x1000 instructions: its lock is released.
StopRunning ==
  /\ pool.at = "run"
  /\ pool' = At("advance", NoThread)
  /\ UNCHANGED <<queue, fixed, type, dest, state, stack, cursor, client, answer>>

\* The chain of thread->cureval.
Updates(s) == {n \in 1 .. Len(s) : s[n].node = "update"}

\* Mutant: only the innermost of the items is told of the error.
FailThreadInnermost ==
  LET t == pool.thread
      first == CHOOSE n \in Updates(stack[t]) : \A m \in Updates(stack[t]) : n <= m
  IN
  /\ pool.at = "fail"
  /\ UpdateItem(stack[t][first].item, pool.err)
  /\ stack' = [stack EXCEPT ![t] = <<>>]
  /\ FinishThread(t)
  /\ pool' = At("unlink", t)
  /\ UNCHANGED <<fixed, state, cursor, client, answer>>

\* ace_error_thread, ace_failure_thread: every item the thread evaluates becomes an
\* indirection to the error, the innermost first.
FailThread ==
  LET t == pool.thread
      first == CHOOSE n \in Updates(stack[t]) : \A m \in Updates(stack[t]) : n <= m
      left == SubSeq(stack[t], first + 1, Len(stack[t]))
  IN
  /\ pool.at = "fail"
  /\ UpdateItem(stack[t][first].item, pool.err)
  /\ stack' = [stack EXCEPT ![t] = IF Updates(left) = {} THEN <<>> ELSE left]
  /\ IF Updates(left) = {}
     THEN FinishThread(t) /\ pool' = At("unlink", t)
     ELSE UNCHANGED <<queue, pool>>
  /\ UNCHANGED <<fixed, state, cursor, client, answer>>

PoolUnlinks ==
  /\ pool.at = "unlink"
  /\ UnlinkThread(pool.thread)
  /\ pool' = At("advance", NoThread)
  /\ UNCHANGED <<fixed, type, dest, state, stack, cursor, client, answer>>

\* The round-robin: the next slot, or the first again.
Advance ==
  /\ pool.at = "advance"
  /\ cursor' = IF num_active = 0 THEN cursor
               ELSE IF cursor + 1 >= num_active THEN 0 ELSE cursor + 1
  /\ pool' = Find
  /\ UNCHANGED <<queue, fixed, type, dest, state, stack, client, answer>>

-----------------------------------------------------------------------------
(* A collection, while the pool and the clients are stopped at their polls.  The
   items a client may still come to need are reached; an item under evaluation leads to
   its thread, and to the part of the thread's stack above its update frame. *)

NeedsFrom(i, k) == {code[i].needs[l] : l \in k .. Len(code[i].needs)}

\* The items that a thread in state x has in hand.
Wants(x) ==
  CASE x[1] = "entering" -> NeedsFrom(x[2], 1)
    [] x[1] = "blocked" -> {x[2]}
    [] OTHER -> {}

\* The items that thread t mentions, down to its n-th continuation.
Mentions(t, n) ==
  Wants(state[t])
  \cup UNION {NeedsFrom(stack[t][m].item, stack[t][m].k + 1) :
                 m \in {l \in 1 .. n : stack[t][l].node = "resume"}}

Leads(i) ==
  IF type[i] = "thunk" THEN NeedsFrom(i, 1)
  ELSE UNION {UNION {Mentions(t, n) : n \in {m \in Updates(stack[t]) : stack[t][m].item = i}} :
                t \in Threads}

\* The least set that has what the clients ask for, and with an item what it leads to.
Closed(S) ==
  /\ \A c \in Clients : client[c] # "done" => asked[c] \in S
  /\ \A i \in S : Leads(i) \subseteq S

Reachable == {i \in Items : \A S \in SUBSET Items : Closed(S) => i \in S}

\* ace_stack_post_gc_consolidate: nothing is left of the stack below the last update
\* frame of an item that was reached, nor of the other update frames above it.
LiveUpdates(s) == {n \in Updates(s) : s[n].item \in Reachable}

\* What is left of s when only the places in keep stay, in their order.
Select(s, keep) ==
  [n \in 1 .. Cardinality(keep) |->
     s[CHOOSE m \in keep : Cardinality({l \in keep : l < m}) = n - 1]]

\* Mutant: the continuations of an item that was not reached go with its update frame.
ConsolidateTooMuch(s) ==
  LET live == LiveUpdates(s)
      last == CHOOSE n \in live : \A m \in live : m <= n
  IN  Select(s, {n \in 1 .. last : s[n].item \in Reachable})

Consolidate(s) ==
  LET live == LiveUpdates(s)
      last == CHOOSE n \in live : \A m \in live : m <= n
  IN  Select(s, {n \in 1 .. last : s[n].node = "resume" \/ s[n].item \in Reachable})

\* A thread that never got into the queue is copied as it is.
StacksAfter(reached) ==
  [t \in Threads |-> IF t \in reached THEN Consolidate(stack[t])
                     ELSE IF life[t] = "orphan" THEN stack[t] ELSE <<>>]

\* Mutant: a thread is kept only for the innermost item that it evaluates.
CollectionByInnermost ==
  LET innermost(t) == CHOOSE n \in Updates(stack[t]) : \A m \in Updates(stack[t]) : n <= m
      reached == {t \in Threads : /\ life[t] = "active" /\ Updates(stack[t]) # {}
                                  /\ stack[t][innermost(t)].item \in Reachable}
  IN
  /\ pool.at = "find"
  /\ \A c \in Clients : client[c] # "enqueue"
  /\ CleanupThreads(reached)
  /\ stack' = StacksAfter(reached)
  /\ UNCHANGED <<fixed, type, dest, state, pool, cursor, client, answer>>

Collection ==
  LET reached == {t \in Threads : life[t] = "active" /\ LiveUpdates(stack[t]) # {}} IN
  /\ pool.at = "find"
  /\ \A c \in Clients : client[c] # "enqueue"
  /\ CleanupThreads(reached)
  /\ stack' = StacksAfter(reached)
  /\ UNCHANGED <<fixed, type, dest, state, pool, cursor, client, answer>>

-----------------------------------------------------------------------------
PoolStep ==
  \/ LeavePool
  \/ FindNothing \/ FindRunnable \/ FindUnblocked \/ FindUnstarted \/ PoolEnqueues
  \/ RunThread \/ StopRunning \/ FailThread \/ PoolUnlinks \/ Advance

ClientStep(c) == ClientStarts(c) \/ ClientEnqueues(c) \/ ClientSees(c)

Over ==
  /\ pool.at = "left"
  /\ UNCHANGED <<queue, eval>>

EvalNext == PoolStep \/ (\E c \in Clients : ClientStep(c)) \/ Collection \/ Over

EvalSpec == EvalInit /\ [][EvalNext]_<<queue, eval>>

\* The pool's loop is unconditional, and a thread's turn runs at least to the next
\* place where it may stop; a client asks again until it is answered.
EvalFairness ==
  /\ WF_<<queue, eval>>(PoolStep)
  /\ \A c \in Clients : WF_<<queue, eval>>(ClientStep(c))

FairEvalSpec == EvalSpec /\ EvalFairness

-----------------------------------------------------------------------------
(* Properties *)

ItemsOf(t) == {stack[t][n].item : n \in Updates(stack[t])}

Evaluators(i) ==
  {t \in Threads : life[t] \in {"starting", "active", "orphan"} /\ i \in ItemsOf(t)}

\* Two processes that meet at an item never both evaluate it, and one that is marked
\* as under evaluation is on exactly one stack, once: whoever blocks on it is woken by
\* that thread's update.
OneEvaluator ==
  \A i \in Items :
    /\ type[i] = "eval" /\ i \in Reachable => \E t \in Threads : Evaluators(i) = {t}
    /\ type[i] # "eval" => Evaluators(i) = {}
    /\ \A t \in Evaluators(i) :
         Cardinality({n \in Updates(stack[t]) : stack[t][n].item = i}) = 1

\* With room in the queue, nobody a client may come to need waits for an item whose
\* thread the pool will not get to: it is in the queue, or about to be put there.
SomebodyWorks ==
  \A i \in Reachable : type[i] = "eval" =>
    \E t \in Evaluators(i) :
      \/ life[t] = "active" /\ \E n \in 0 .. num_active - 1 : threads[n] = t
      \/ life[t] = "starting"

\* When the queue is full, some items get the failure "out of threads" for a value, and
\* those that need them with them; all others still get the value their code means,
\* and so do the clients.
SoundValues ==
  /\ \A i \in Items : dest[i] \in {None, Failure, Meaning(code)[i]}
  /\ \A c \in Clients : answer[c] \in {None, Failure, Meaning(code)[asked[c]]}

\* What some theorems take for granted: no item needs itself -- one that does blocks its
\* thread for good -- and there is a slot for a thread for every item.
NoCircles == \A p \in Programs : Acyclic(p)
RoomForAll == Cardinality(Threads) <= NumAceThreads

\* Every client gets its answer.
EveryoneAnswered == \A c \in Clients : <>(client[c] = "done")

\* The value of an item as its clients can see it.
Known == [i \in Items |-> ValueNow(i)]

Lazy == INSTANCE LazyHeap WITH known <- Known

\* Refinement of LazyHeap: however the pool, its threads' turns, the clients and the
\* collections interleave, an item is updated at most once, with the value its code
\* means given the values of the items it asked for, and clients get those values.
CallByNeed == Lazy!Spec
=============================================================================

------------------------------ MODULE ApiThread ------------------------------
(***************************************************************************)
(* The API thread of libglobalscript/apithread.c and the main process that *)
(* advances it: the loop of apisetupmainthread, one statement at a time.   *)
(* There is a table of threads, but api_add_thread is only ever called for *)
(* the main one.                                                           *)
(*                                                                         *)
(* The thread is locked for each step and unlocked between them, and other *)
(* processes may end it in between (api_thread_post).  What a statement    *)
(* does to a port is up to the module that extends this one.               *)
(***************************************************************************)
EXTENDS Integers, Sequences

CONSTANTS
  Statements,           \* the statements there are
  Programs,             \* those of them the program may be
  Primitives,           \* the names of the primitives it may use
  SegmentSize           \* instructions that fit in a struct api_code_segment

VARIABLES
  state,                \* thread->state
  left,                 \* the instructions from thread->code->ip on
  main,                 \* where the main process is in its loop
  ended,                \* thread_abended, once the thread has ended
  exit                  \* the status the main process has exited with

thread == <<state, left, main, ended, exit>>

\* A statement evaluates to an error, to a block of statements to be unpacked, or to a
\* primitive.
Ops == {"error", "block"} \cup Primitives

ASSUME PrimitivesApart == {"error", "block"} \cap Primitives = {}
ASSUME RoomForEntry == SegmentSize \in Nat \ {0}
ASSUME StatementsClosed ==
  /\ Programs \subseteq Statements
  /\ \A s \in Statements :
       /\ s.op \in Ops
       /\ s.op = "block" => s.body \in Seq(Statements) \ {<<>>}

Terminating == {"done", "abend"}

ThreadTypeOK ==
  /\ state \in {"unused", "active", "running"} \cup Terminating
  /\ main \in {"top", "scan", "eval", "prim", "success", "blocked", "refused",
               "opening", "registering", "stopping", "leaving", "exited"}
  /\ ended \in {"none"} \cup Terminating
  /\ exit \in {"none", "crash"} \cup Terminating
  /\ left \in Seq(Statements)

ThreadInit ==
  /\ \E program \in Programs : left = <<program>>
  /\ state = "active"
  /\ main = "top"
  /\ ended = "none"
  /\ exit = "none"

-----------------------------------------------------------------------------
\* The end of a statement: the main process goes on to its next round.
EndTurn(newState) ==
  /\ state' = newState
  /\ main' = "top"
  /\ UNCHANGED <<ended, exit>>

\* The thread is marked as running, so that nobody else schedules it, and unlocked.
TakeTurn ==
  /\ main = "scan"
  /\ state = "active"
  /\ state' = "running"
  /\ main' = "eval"
  /\ UNCHANGED <<left, ended, exit>>

\* GS_SLOW_EVALUATE of the instruction has not finished (gstystack) ...
Unevaluated ==
  /\ main = "eval"
  /\ EndTurn("active")
  /\ UNCHANGED left

\* ... or the instruction is an error (api_exec_err) ...
EvaluatesToError ==
  /\ main = "eval"
  /\ Head(left).op = "error"
  /\ EndTurn("abend")
  /\ UNCHANGED left

\* ... or a block: api_unpack_block_statement puts its statements in front of the rest
\* of the code, backwards from the instruction it replaces, until the segment is full.
UnpackBlock ==
  /\ main = "eval"
  /\ Head(left).op = "block"
  /\ LET all == Head(left).body \o Tail(left) IN
       IF Len(all) <= SegmentSize
       THEN left' = all /\ EndTurn("active")
       ELSE left' = SubSeq(all, Len(all) - SegmentSize + 1, Len(all)) /\ EndTurn("abend")

\* ... or a primitive, which api_exec_instr runs without the lock of the thread.
EvaluatesToPrim ==
  /\ main = "eval"
  /\ Head(left).op \in Primitives
  /\ main' = "prim"
  /\ UNCHANGED <<state, left, ended, exit>>

\* What became of the primitive: the main process acts on it later.
PrimReturns(st) ==
  /\ main = "prim"
  /\ main' = st
  /\ UNCHANGED <<state, left, ended, exit>>

\* The result goes to the promise of the statement; after the last statement, api_done.
PrimSucceeded ==
  /\ main = "success"
  /\ left' = Tail(left)
  /\ EndTurn(IF Tail(left) = <<>> THEN "done" ELSE "active")

PrimBlocked ==
  /\ main = "blocked"
  /\ EndTurn("active")
  /\ UNCHANGED left

\* The primitive has unlocked the port and calls api_abend.
PrimRefused ==
  /\ main = "refused"
  /\ EndTurn("abend")
  /\ UNCHANGED left

\* A thread that has ended is kept while its client says so (thread_term_status).
StillBusy(busy) ==
  /\ main = "scan"
  /\ state \in Terminating
  /\ busy
  /\ EndTurn(state)
  /\ UNCHANGED left

ThreadEnds(busy) ==
  /\ main = "scan"
  /\ state \in Terminating
  /\ ~busy
  /\ ended' = state
  /\ state' = "unused"
  /\ main' = "stopping"
  /\ UNCHANGED <<left, exit>>

\* api_thread_pool_shutdown: the callbacks, then ace_down; then exits(status).
CallbacksDone ==
  /\ main = "stopping"
  /\ main' = "leaving"
  /\ UNCHANGED <<state, left, ended, exit>>

MainExits ==
  /\ main = "leaving"
  /\ exit' = ended
  /\ main' = "exited"
  /\ UNCHANGED <<state, left, ended>>

\* Between two rounds the main process abends an active thread when memory is short.
LookAtMemory(short) ==
  /\ main = "top"
  /\ main' = "scan"
  /\ state' = IF short /\ state = "active" THEN "abend" ELSE state
  /\ UNCHANGED <<left, ended, exit>>

\* api_thread_post, from another process: the state is not looked at.
ApiThreadPost ==
  /\ state' = "abend"
  /\ UNCHANGED <<left, main, ended, exit>>
=============================================================================

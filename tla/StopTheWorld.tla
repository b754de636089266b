---------------------------- MODULE StopTheWorld ----------------------------
(***************************************************************************)
(* What the garbage collector of libglobalscript is promised by the        *)
(* rendezvous of alloc.c: while it collects, the world is stopped.         *)
(*                                                                         *)
(* The abstract specification keeps the set of processes inside the        *)
(* collection; the code only keeps two counters (see GCRendezvous).        *)
(***************************************************************************)
CONSTANT Workers        \* the processes other than the collecting one

VARIABLES
  phase,                \* what the collecting process is doing
  live,                 \* the processes that may touch the heap
  inside                \* the processes that have stopped for the collection

vars == <<phase, live, inside>>

TypeOK ==
  /\ phase \in {"mutating", "gathering", "collecting", "draining"}
  /\ live \in SUBSET Workers
  /\ inside \in SUBSET live

Init ==
  /\ phase = "mutating"
  /\ live = {}
  /\ inside = {}

\* Only the collecting process creates processes, and never during a collection.
Join(p) ==
  /\ phase = "mutating"
  /\ p \notin live
  /\ live' = live \cup {p}
  /\ UNCHANGED <<phase, inside>>

\* A process that has not stopped may go away; one that has may not.
Retire(p) ==
  /\ p \in live \ inside
  /\ live' = live \ {p}
  /\ UNCHANGED <<phase, inside>>

Request ==
  /\ phase = "mutating"
  /\ inside = {}
  /\ phase' = "gathering"
  /\ UNCHANGED <<live, inside>>

Enter(p) ==
  /\ phase = "gathering"
  /\ p \in live \ inside
  /\ inside' = inside \cup {p}
  /\ UNCHANGED <<phase, live>>

\* The collector proceeds only when everybody has stopped.
Stop ==
  /\ phase = "gathering"
  /\ inside = live
  /\ phase' = "collecting"
  /\ UNCHANGED <<live, inside>>

Resume ==
  /\ phase = "collecting"
  /\ phase' = "draining"
  /\ UNCHANGED <<live, inside>>

Leave(p) ==
  /\ phase = "draining"
  /\ p \in inside
  /\ inside' = inside \ {p}
  /\ UNCHANGED <<phase, live>>

\* A new collection is possible only once everybody has left the last one.
Reopen ==
  /\ phase = "draining"
  /\ inside = {}
  /\ phase' = "mutating"
  /\ UNCHANGED <<live, inside>>

Next ==
  \/ \E p \in Workers : Join(p) \/ Retire(p) \/ Enter(p) \/ Leave(p)
  \/ Request \/ Stop \/ Resume \/ Reopen

Spec == Init /\ [][Next]_vars
=============================================================================

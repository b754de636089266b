----------------------------- MODULE OutputPort -----------------------------
(***************************************************************************)
(* What a program may rely on when it writes: a port takes strings, and    *)
(* writes their runes in the order the strings were accepted in, each      *)
(* once.  When a write fails the port is broken, and what is on its way may*)
(* be lost.  When the program has exited, everything it was told had been  *)
(* accepted is written, except on ports that are broken.                   *)
(***************************************************************************)
EXTENDS Sequences, SequencesExt

CONSTANTS
  Ports,
  Texts                 \* the strings, each as the sequence of its runes

VARIABLES
  text,                 \* text[o]: the runes of all strings accepted by port o
  output,               \* output[o]: what has been written to its file
  broken,               \* the ports a write has failed on
  exited                \* the program has exited

portVars == <<text, output, broken, exited>>

PortInit ==
  /\ text = [o \in Ports |-> <<>>]
  /\ output = [o \in Ports |-> <<>>]
  /\ broken = {}
  /\ exited = FALSE

\* A port takes one string at a time: what was accepted before is out.
Accept(o) ==
  /\ ~exited
  /\ output[o] = text[o] /\ o \notin broken
  /\ \E s \in Texts : text' = [text EXCEPT ![o] = @ \o s]
  /\ UNCHANGED <<output, broken, exited>>

\* Some more runes are written; the port may break as they are.
Put(o) ==
  /\ o \notin broken
  /\ IsPrefix(output[o], output'[o]) /\ IsPrefix(output'[o], text[o])
  /\ output' = [output EXCEPT ![o] = output'[o]]
  /\ broken' \in {broken, broken \cup {o}}
  /\ UNCHANGED <<text, exited>>

Exit ==
  /\ ~exited
  /\ \A o \in Ports \ broken : output[o] = text[o]
  /\ exited' = TRUE
  /\ UNCHANGED <<text, output, broken>>

PortNext == Exit \/ \E o \in Ports : Accept(o) \/ Put(o)

PortSpec == PortInit /\ [][PortNext]_portVars
=============================================================================

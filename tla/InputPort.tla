------------------------------ MODULE InputPort ------------------------------
(***************************************************************************)
(* What a program may rely on when it reads: a read starts where the one   *)
(* before has accepted, its acceptor is given the items of the file one    *)
(* after the other, and whoever follows the pointer the read has returned  *)
(* sees the same items, in order, each once, when they have been read.     *)
(* After the last item the file goes on in ends of file.                   *)
(***************************************************************************)
EXTENDS Integers, Sequences

CONSTANTS
  Iports,
  Walkers,              \* those who follow the pointers, one for each read
  Eof

VARIABLES
  data,                 \* data[p]: the items of the file of port p
  accepted,             \* accepted[p]: how many of them reads have accepted
  taken,                \* taken[p]: how many the current read has got to
  known,                \* known[p]: how many have been read from the file
  heard,                \* heard[p]: what the acceptor of the current read was given
  walks                 \* walks[w]: the port, the place w starts at, what w has seen

inputVars == <<data, accepted, taken, known, heard, walks>>

NoWalk == [port |-> "none", from |-> 0, seen |-> <<>>]

Item(p, n) == IF n <= Len(data[p]) THEN data[p][n] ELSE Eof

PortInit ==
  /\ DOMAIN data = Iports
  /\ accepted = [p \in Iports |-> 0]
  /\ taken = accepted
  /\ known = accepted
  /\ heard = [p \in Iports |-> <<>>]
  /\ walks = [w \in Walkers |-> NoWalk]

Read(p, w) ==
  /\ taken[p] = accepted[p] /\ heard[p] = <<>>
  /\ walks[w] = NoWalk
  /\ walks' = [walks EXCEPT ![w] = [port |-> p, from |-> accepted[p], seen |-> <<>>]]
  /\ UNCHANGED <<data, accepted, taken, known, heard>>

\* The acceptor is given the next item, from the file if nobody has read it yet.
Take(p) ==
  /\ taken' = [taken EXCEPT ![p] = @ + 1]
  /\ heard' = [heard EXCEPT ![p] = Append(@, Item(p, taken'[p]))]
  /\ known' = [known EXCEPT ![p] = IF @ < taken'[p] THEN taken'[p] ELSE @]
  /\ UNCHANGED <<data, accepted, walks>>

Accept(p) ==
  /\ accepted' = [accepted EXCEPT ![p] = taken[p]]
  /\ UNCHANGED <<data, taken, known, heard, walks>>

\* The read is over: what has been taken and not accepted is given back.
Finish(p) ==
  /\ taken' \in {taken, [taken EXCEPT ![p] = accepted[p]]}
  /\ heard' = [heard EXCEPT ![p] = <<>>]
  /\ UNCHANGED <<data, accepted, known, walks>>

See(w) ==
  /\ walks[w] # NoWalk
  /\ LET p == walks[w].port
         n == walks[w].from + Len(walks[w].seen) + 1 IN
       /\ n <= known[p]
       /\ walks' = [walks EXCEPT ![w].seen = Append(@, Item(p, n))]
  /\ UNCHANGED <<data, accepted, taken, known, heard>>

InputNext ==
  \/ \E p \in Iports : Take(p) \/ Accept(p) \/ Finish(p) \/ \E w \in Walkers : Read(p, w)
  \/ \E w \in Walkers : See(w)

InputSpec == PortInit /\ [][InputNext]_inputVars
=============================================================================

------------------------------ MODULE LazyHeap ------------------------------
(***************************************************************************)
(* What the evaluator promises those who ask it for values: call by need.  *)
(* An item gets a value at most once, and it is the value its code means;  *)
(* a client gets the value of the item it asked for, and not before.       *)
(***************************************************************************)
EXTENDS LazyCode

CONSTANTS Items, Clients

VARIABLES
  code,                 \* code[i]: the code of item i; it never changes
  asked,                \* asked[c]: the item client c asks for; nor does this
  known,                \* known[i]: the value of item i, or None
  answer                \* answer[c]: what client c was told, or None

vars == <<code, asked, known, answer>>

Init ==
  /\ known = [i \in Items |-> IF code[i].kind = "function" THEN Val(i) ELSE None]
  /\ answer = [c \in Clients |-> None]

Evaluate(i) ==
  /\ known[i] = None
  /\ known' = [known EXCEPT ![i] = Meaning(code)[i]]
  /\ UNCHANGED <<code, asked, answer>>

Answer(c) ==
  /\ answer[c] = None
  /\ known[asked[c]] # None
  /\ answer' = [answer EXCEPT ![c] = known[asked[c]]]
  /\ UNCHANGED <<code, asked, known>>

Next == (\E i \in Items : Evaluate(i)) \/ (\E c \in Clients : Answer(c))

Spec == Init /\ [][Next]_vars
=============================================================================

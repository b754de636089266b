------------------------------ MODULE LazyCode ------------------------------
(***************************************************************************)
(* The code of a heap item as far as evaluation goes: the items it asks    *)
(* for, in order, and how it ends.  What the bytecode computes in between  *)
(* is of no account.                                                       *)
(*                                                                         *)
(*   kind   "closure", "application" (it asks for its function before      *)
(*          anything of it runs) or "function" (a closure with arguments   *)
(*          missing: it is its own value)                                  *)
(*   needs  the items it asks for                                          *)
(*   ends   "yield" (a new value), "undef" (an error), or "enter" (the     *)
(*          value of the last item it asked for, which it enters with      *)
(*          nothing left to do)                                            *)
(***************************************************************************)
EXTENDS Naturals, Sequences, FiniteSets

None == <<"none">>

\* The normal form that item i builds, and the error that it raises.
Val(i) == <<"value", i>>
Err(i) == <<"error", i>>

\* The implementation failure "out of threads".
Failure == <<"failure">>

IsError(v) == v[1] \in {"error", "failure"}

\* The value that item i means when the others mean m: the first error among its needs,
\* or else what its code makes.
MeaningFrom(code, m, i) ==
  LET item == code[i]
      bad == {k \in DOMAIN item.needs : IsError(m[item.needs[k]])}
  IN  CASE item.kind = "function" -> Val(i)
        [] item.kind # "function" /\ bad # {} ->
             m[item.needs[CHOOSE k \in bad : \A l \in bad : k <= l]]
        [] OTHER ->
             CASE item.ends = "yield" -> Val(i)
               [] item.ends = "undef" -> Err(i)
               [] item.ends = "enter" -> m[item.needs[Len(item.needs)]]

\* The values that the items of a program mean, if no item needs itself.
Meaning(code) == LET m[i \in DOMAIN code] == MeaningFrom(code, m, i) IN m

\* No item of the program needs itself, directly or through others.
Acyclic(code) ==
  \E rank \in [DOMAIN code -> 0 .. Cardinality(DOMAIN code)] :
    \A i \in DOMAIN code : \A k \in DOMAIN code[i].needs : rank[code[i].needs[k]] < rank[i]

\* Code that can be: an application has a function, and code that ends with entering
\* an item has one to enter.
WellFormed(item) ==
  LET given == IF item.kind = "application" THEN 1 ELSE 0 IN
  /\ item.kind \in {"closure", "application", "function"}
  /\ item.ends \in {"yield", "undef", "enter"}
  /\ Len(item.needs) >= given + (IF item.ends = "enter" THEN 1 ELSE 0)
=============================================================================

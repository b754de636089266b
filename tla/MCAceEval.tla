----------------------------- MODULE MCAceEval -----------------------------
(* AceEval on all programs of a few items in which no item needs itself: item i asks
   for up to two items below it. *)
EXTENDS AceEval, TLC

CONSTANT NumItems

MCItems == 1 .. NumItems

NeedsBelow(i) == {<<>>} \cup {<<j>> : j \in 1 .. i - 1}
                   \cup {<<j, k>> : j \in 1 .. i - 1, k \in 1 .. i - 1}

ItemsAt(i) ==
  {item \in [kind : {"closure", "application", "function"},
             needs : NeedsBelow(i), ends : {"yield", "undef", "enter"}] :
     /\ WellFormed(item)
     /\ item.kind = "function" => item.needs = <<>> /\ item.ends = "yield"
     \* an error is raised by an item that asks for nothing: others pass it on
     /\ item.ends = "undef" => item.needs = <<>>
     /\ Len(item.needs) = 2 => item.needs[1] # item.needs[2]}

MCPrograms == {p \in [MCItems -> UNION {ItemsAt(i) : i \in MCItems}] :
                 \A i \in MCItems : p[i] \in ItemsAt(i)}

ASSUME NoItemNeedsItself == NoCircles

Symmetry == Permutations(Clients)
=============================================================================

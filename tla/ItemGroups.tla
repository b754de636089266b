----------------------------- MODULE ItemGroups -----------------------------
(***************************************************************************)
(* What the order of items promises to the loader: they come in groups, a  *)
(* group is a set of items that all need one another, and whatever an item *)
(* needs is in its own group or in an earlier one.  A file belongs to a    *)
(* symbol table; with a new table the groups begin anew, and there may be  *)
(* items of earlier tables in them.                                        *)
(***************************************************************************)
EXTENDS Naturals, Sequences, FiniteSets, SequencesExt

CONSTANT Items

VARIABLES
    graph,     \* for each table the items each item needs
    files,     \* for each file its table, its type and the items it is sorted for
    table,     \* the table at work
    groups,    \* its groups so far
    sorted     \* how many files are done

vars == <<graph, files, table, groups, sorted>>

Grouped == UNION ToSet(groups)

Needs(S) == UNION {graph[table][i] : i \in S}

\* No part of S can do without the rest.
Connected(S) == \A T \in (SUBSET S) \ {{}, S} : Needs(T) \cap (S \ T) # {}

\* A group is needed by a root, or by a later group.
Wanted(k, n) ==
    \/ \E f \in 1 .. n : files[f].table = table /\ groups[k] \cap files[f].roots # {}
    \/ \E l \in k + 1 .. Len(groups) : Needs(groups[l]) \cap groups[k] # {}

Init == /\ table = 1
        /\ groups = <<>>
        /\ sorted = 0

\* The table of the next file.
NewTable == /\ sorted < Len(files)
            /\ table # files[sorted + 1].table
            /\ table' = files[sorted + 1].table
            /\ groups' = <<>>
            /\ UNCHANGED <<graph, files, sorted>>

Group(S) == /\ sorted < Len(files) /\ table = files[sorted + 1].table
            /\ S \subseteq Items /\ S # {} /\ S \cap Grouped = {}
            /\ Connected(S)
            /\ Needs(S) \subseteq S \cup Grouped
            /\ groups' = Append(groups, S)
            /\ UNCHANGED <<graph, files, table, sorted>>

EndFile == /\ sorted < Len(files) /\ table = files[sorted + 1].table
           /\ files[sorted + 1].roots \subseteq Grouped
           /\ files[sorted + 1].type = "document" =>
                  files[sorted + 1].roots \subseteq Last(groups)
           /\ \A k \in DOMAIN groups : Wanted(k, sorted + 1)
           /\ sorted' = sorted + 1
           /\ UNCHANGED <<graph, files, table, groups>>

\* Group(S) for any set S of items; it is the last one of groups'.
Next == NewTable \/ EndFile \/ \E S \in ToSet(groups') : Group(S)

Spec == Init /\ [][Next]_vars
=============================================================================

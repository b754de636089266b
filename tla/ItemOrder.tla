----------------------------- MODULE ItemOrder ------------------------------
(***************************************************************************)
(* gsbc_topsortfile: the items of a file, and those they need, in groups   *)
(* of items that need one another.  This is the path-based algorithm for   *)
(* strong components.  The recursion of the C code is the stack of frames. *)
(*                                                                         *)
(* The prefix files of a directory share a symbol table, and a document    *)
(* has one of its own; each table has the one before it as its parent.  A  *)
(* label names an item of the table at work or else of the nearest parent. *)
(* The table remembers over its files which items have a group; it does    *)
(* not ask its parents, and all else starts anew with each file.           *)
(***************************************************************************)
EXTENDS ItemForms

CONSTANTS
    Programs,          \* records of tables (for each its items by label) and files
    StackCapacity      \* GSBC_ITEM_STACK_CAPACITY

ASSUME StackCapacityAssumption == StackCapacity \in Nat \ {0}

\* gssymtable_lookup: the tables up to t of program w that define a label, and the item it
\* finds.
DefiningIn(w, t, i) == {d \in 1 .. t : i \in DOMAIN w.tables[d]}
ItemIn(w, t, i) == w.tables[Max(DefiningIn(w, t, i))][i]

\* What the parser makes of the files: the items of a file are in its table, and a document
\* has a data item, and a table that no file before it has used.
ASSUME ProgramsAssumption ==
    \A w \in Programs :
        /\ w.tables \in Seq(ToSet(w.tables)) /\ w.files \in Seq(ToSet(w.files))
        /\ \A t \in DOMAIN w.tables : \A i \in DOMAIN w.tables[t] :
               i \in Items /\ Parsed(w.tables[t][i])
        /\ \A n \in DOMAIN w.files :
               LET f == w.files[n]
               IN /\ f.table \in DOMAIN w.tables
                  /\ f.type \in {"prefix", "document"}
                  /\ f.items \in Seq(DOMAIN w.tables[f.table])
                  /\ f.type = "document" =>
                        /\ \E i \in ToSet(f.items) : IsData(w.tables[f.table][i])
                        /\ \A m \in 1 .. n - 1 : w.files[m].table # f.table

\* A label is interned with the kind of item it is a label of, and looked up among those
\* (gsintern_string, gssymtable_lookup).
ASSUME NamesFit ==
    \A w \in Programs : \A t, u \in DOMAIN w.tables :
        \A i \in DOMAIN w.tables[t], x \in DOMAIN w.tables[u] :
            LET it == w.tables[t][i]
                named == w.tables[u][x]
            IN /\ x \in ToSet(it.types) \cup {ListType, RuneType, RegexType, RegexClassType}
                      => IsType(named)
               /\ x \in ToSet(it.code) => IsCode(named)
               /\ x \in ToSet(it.coercions) => IsCoercion(named)
               /\ x \in ToSet(it.data) => IsData(named)

VARIABLES
    program,           \* what is loaded
    table,             \* the number of the symbol table at work
    file, sorting,     \* the number of the file, and whether gsbc_topsortfile is at work
    roots,             \* the items of the file the sort has still to start from
    frames,            \* gsbc_topsort_item: for each call its item and the edges left
    preorders, counter,
    unassigned, maybe, \* the stacks unassigned_items and maybe_group_items
    sccs,              \* the items gssymtable_get_scc has a group for
    groups,            \* the groups so far, of all files of the table
    fatal              \* the call of gsfatal that ended the loading: reason, item, entry

order == <<program, table, file, sorting, roots, frames, preorders, counter, unassigned, maybe,
           sccs, groups, fatal>>

Running == fatal = <<>>

ItemOf(t, i) == ItemIn(program, t, i)
Named(i) == DefiningIn(program, table, i) # {}
Item(i) == ItemOf(table, i)

\* A prefix file is sorted for its data, its types and its coercions; a document for the
\* first of its data items, which is its entry.
RootsOf(f) ==
    LET of(kind) == Among(f.items, {i \in ToSet(f.items) : ItemOf(f.table, i).form \in kind})
    IN IF f.type = "prefix" THEN of(DataForms) \o of(TypeForms) \o of(CoercionForms)
       ELSE <<Head(of(DataForms))>>

OrderInit ==
    /\ program \in Programs
    /\ table = 1
    /\ file = 0 /\ sorting = FALSE
    /\ roots = <<>> /\ frames = <<>>
    /\ preorders = <<>> /\ counter = 1
    /\ unassigned = <<>> /\ maybe = <<>>
    /\ sccs = {} /\ groups = <<>>
    /\ fatal = <<>>

Fatal(reason, i, entry) == fatal' = <<reason, i, entry>>

\* gsbc_topsort_item up to the first edge; left is what the caller has left to do.  The
\* stack of maybes is never the longer one.
Visit(i, left) ==
    IF Len(unassigned) >= StackCapacity
    THEN /\ Fatal("stack full", i, <<>>)
         /\ UNCHANGED <<frames, preorders, counter, unassigned, maybe>>
    ELSE /\ preorders' = [x \in DOMAIN preorders \cup {i} |-> IF x = i THEN counter ELSE preorders[x]]
         /\ counter' = counter + 1
         /\ unassigned' = Append(unassigned, i)
         /\ maybe' = Append(maybe, i)
         /\ frames' = Append(left, [item |-> i, left |-> Edges(Item(i))])
         /\ UNCHANGED fatal

\* gscreatesymtable for the files of another table.  gsbc_topsortfile; the next file is
\* only sorted when this one is loaded.
SortFile ==
    /\ Running /\ ~sorting
    /\ file < Len(program.files)
    /\ file' = file + 1
    /\ table' = program.files[file + 1].table
    /\ IF table' = table THEN UNCHANGED <<sccs, groups>>
       ELSE sccs' = {} /\ groups' = <<>>
    /\ sorting' = TRUE
    /\ roots' = RootsOf(program.files[file + 1])
    /\ preorders' = <<>> /\ counter' = 1
    /\ unassigned' = <<>> /\ maybe' = <<>>
    /\ UNCHANGED <<program, frames, fatal>>

\* Mutant: a root is sorted although it has a group.
SortRootUnchecked ==
    /\ Running /\ frames = <<>> /\ roots # <<>>
    /\ roots' = Tail(roots)
    /\ Visit(Head(roots), frames)
    /\ UNCHANGED <<program, table, file, sorting, sccs, groups>>

SortRoot ==
    /\ Running /\ frames = <<>> /\ roots # <<>>
    /\ roots' = Tail(roots)
    /\ IF Head(roots) \in sccs
       THEN UNCHANGED <<frames, preorders, counter, unassigned, maybe, fatal>>
       ELSE Visit(Head(roots), frames)
    /\ UNCHANGED <<program, table, file, sorting, sccs, groups>>

SortDone ==
    /\ Running /\ sorting /\ frames = <<>> /\ roots = <<>>
    /\ sorting' = FALSE
    /\ UNCHANGED <<program, table, file, roots, frames, preorders, counter, unassigned, maybe,
                   sccs, groups, fatal>>

\* Mutant: an edge into the stack takes nothing off the maybes.
BackToNothing(i) == maybe

\* The top of the maybes comes off while its number is greater than that of i.
BackTo(i) ==
    SubSeq(maybe, 1, Max({k \in DOMAIN maybe : preorders[maybe[k]] <= preorders[i]}))

\* gssymtable_lookup, gsbc_topsort_outgoing_edge.
OutgoingEdge ==
    /\ Running /\ frames # <<>>
    /\ Last(frames).left # <<>>
    /\ LET i == Head(Last(frames).left)
           caller == Append(Front(frames), [Last(frames) EXCEPT !.left = Tail(@)])
       IN CASE ~Named(i) ->
                   /\ Fatal("no item", Last(frames).item, i)
                   /\ UNCHANGED <<frames, preorders, counter, unassigned, maybe>>
            [] i \in sccs ->
                   /\ frames' = caller
                   /\ UNCHANGED <<preorders, counter, unassigned, maybe, fatal>>
            [] i \in DOMAIN preorders \ sccs ->
                   /\ frames' = caller
                   /\ maybe' = IF i \in ToSet(unassigned) THEN BackTo(i) ELSE maybe
                   /\ UNCHANGED <<preorders, counter, unassigned, fatal>>
            [] OTHER -> Visit(i, caller)
    /\ UNCHANGED <<program, table, file, sorting, roots, sccs, groups>>

\* The end of gsbc_topsort_item: an item that is still the top of the maybes is the first
\* of its group, and the group is what came onto the other stack since.
FinishItem ==
    /\ Running /\ frames # <<>>
    /\ Last(frames).left = <<>>
    /\ frames' = Front(frames)
    /\ LET i == Last(frames).item
           k == Max({m \in DOMAIN unassigned : unassigned[m] = i} \cup {0})
           group == Reverse(SubSeq(unassigned, k, Len(unassigned)))
       IN IF maybe # <<>> /\ Last(maybe) = i
          THEN /\ unassigned' = SubSeq(unassigned, 1, k - 1)
               /\ maybe' = Front(maybe)
               /\ sccs' = sccs \cup ToSet(group)
               /\ groups' = Append(groups, group)
               /\ IF ToSet(group) \cap sccs = {} THEN UNCHANGED fatal
                  ELSE Fatal("already has SCC", i, <<>>)
          ELSE UNCHANGED <<unassigned, maybe, sccs, groups, fatal>>
    /\ UNCHANGED <<program, table, file, sorting, roots, preorders, counter>>

Sort == SortRoot \/ SortDone \/ OutgoingEdge \/ FinishItem

-----------------------------------------------------------------------------

\* The groups of a table are what ItemGroups promises: no item is in two of them, what
\* an item needs as far as the sort follows it is in its own or in an earlier group, the
\* items of a group all need one another, and the group of the entry is the last one.
Promised ==
    INSTANCE ItemGroups WITH
        graph <- [t \in DOMAIN program.tables |->
                     [i \in Items |-> IF DefiningIn(program, t, i) = {} THEN {}
                                      ELSE ToSet(Edges(ItemOf(t, i)))]],
        files <- [n \in DOMAIN program.files |->
                     [table |-> program.files[n].table, type |-> program.files[n].type,
                      roots |-> ToSet(RootsOf(program.files[n]))]],
        groups <- [k \in DOMAIN groups |-> ToSet(groups[k])],
        sorted <- IF sorting THEN file - 1 ELSE file

GroupsInOrder == Promised!Spec
=============================================================================

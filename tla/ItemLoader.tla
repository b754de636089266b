----------------------------- MODULE ItemLoader -----------------------------
(***************************************************************************)
(* gsloadfile: the groups of a file are loaded in their order, each in the *)
(* phases of gsload_scc.  A phase takes the items of the group one after   *)
(* the other; it looks in the symbol table for what other items have left  *)
(* there, and leaves what it finds out about its own.  Types are the one   *)
(* phase that goes on to another item of the group when it needs it.       *)
(*                                                                         *)
(* A document loads the items of its library that it uses once more, into  *)
(* a table of its own; some kinds of entries it would also take from the   *)
(* tables of the library, under the same label.                            *)
(*                                                                         *)
(* Left out is every reason to stop that is about the contents of an item: *)
(* its type, its kind, the size of its code.  A type that is not there and *)
(* is used without a look stops the process all the same.                  *)
(***************************************************************************)
EXTENDS ItemOrder

CONSTANT GroupCapacity       \* MAX_ITEMS_PER_SCC

ASSUME GroupCapacityAssumption == GroupCapacity \in Nat /\ StackCapacity <= GroupCapacity

VARIABLES
    loaded,                  \* how many groups are loaded
    phase, position,         \* in the group that is loaded next; phase 0 is before the first
    types, compiling,        \* gstypes_compile_types: the types it made, and its calls
    known,                   \* the symbol table at work: entries <<kind of entry, label>>
    inherited                \* the entries of its parents

load == <<loaded, phase, position, types, compiling, known, inherited>>

vars == <<order, load>>

\* Mutant: items are checked before all signatures of their group are known.
PhasesCheckEarly == <<"declarations", "types", "definitions", "kinds", "check",
                      "signatures", "size data", "data", "size code", "code", "compile">>

Phases == <<"declarations", "types", "definitions", "kinds", "signatures", "check",
            "size data", "data", "size code", "code", "compile">>

Needs(p, it) == CASE p = "definitions" -> DefinitionNeeds(it)
                  [] p = "signatures" -> SignatureNeeds(it)
                  [] p = "check" -> CheckNeeds(it)
                  [] p = "size data" -> SizeDataNeeds(it)
                  [] p = "size code" -> SizeCodeNeeds(it)
                  [] p = "compile" -> CompileNeeds(it)
                  [] OTHER -> {}

Sets(p, i, it) == CASE p = "declarations" -> DeclarationSets(i, it)
                    [] p = "definitions" -> DefinitionSets(i, it)
                    [] p = "kinds" -> KindCheckSets(i, it)
                    [] p = "signatures" -> SignatureSets(i, it)
                    [] p = "check" -> CheckSets(i, it)
                    [] p = "data" -> AllocDataSets(i, it)
                    [] p = "code" -> AllocCodeSets(i, it)
                    [] OTHER -> {}

LoadInit == /\ loaded = 0
            /\ phase = 0 /\ position = 1
            /\ types = {} /\ compiling = <<>>
            /\ known = {} /\ inherited = {}

Loading == Running /\ ~sorting /\ loaded < Len(groups)

Group == groups[loaded + 1]

Phase == Phases[phase]

InPhase == Loading /\ phase \in DOMAIN Phases

\* The next item, or the first of the next phase.
Advance ==
    IF position = Len(Group) THEN position' = 1 /\ phase' = phase + 1
    ELSE position' = position + 1 /\ UNCHANGED phase

Stay == UNCHANGED <<phase, position>>

\* gssymtable_get goes on to the parents of a table; the functions for kinds, types and
\* the types of data do not.
Chained == {"code type", "code", "value", "coercion type", "definition"}
Visible == known \cup {e \in inherited : e[1] \in Chained}

\* gssymtable_set looks in the table at work only.
Enter(entries, i) ==
    IF entries \cap known # {}
    THEN Fatal("duplicate", i, CHOOSE e \in entries \cap known : TRUE) /\ UNCHANGED known
    ELSE known' = known \cup entries /\ UNCHANGED fatal

BeginGroup ==
    /\ Loading /\ phase = 0
    /\ IF Len(Group) > GroupCapacity
       THEN Fatal("too many items", Group[GroupCapacity + 1], <<>>) /\ UNCHANGED phase
       ELSE phase' = 1 /\ UNCHANGED fatal
    /\ types' = {}
    /\ UNCHANGED <<loaded, position, compiling, known, inherited>>

\* One item in a phase other than the types.
PhaseItem ==
    /\ InPhase /\ Phase # "types"
    /\ LET i == Group[position]
           missing == Needs(Phase, Item(i)) \ Visible
       IN \/ /\ missing # {}
             /\ \E e \in missing : Fatal("unknown", i, e)
             /\ Stay /\ UNCHANGED known
          \/ /\ missing = {}
             /\ Phase = "compile" /\ ~Compiles(Item(i))
             /\ Fatal("not implemented", i, <<>>)
             /\ Stay /\ UNCHANGED known
          \/ /\ missing = {}
             /\ Phase = "compile" => Compiles(Item(i))
             /\ Enter(Sets(Phase, i, Item(i)), i)
             /\ Advance
    /\ UNCHANGED <<loaded, types, compiling, inherited>>

InTypes == InPhase /\ Phase = "types"

\* gstypes_compile_type begins; only a .tyexpr looks at other types.
Call(i, calls) ==
    Append(calls, [item |-> i,
                   left |-> IF Item(i).form = ".tyexpr" THEN Item(i).types ELSE <<>>])

TypesItem ==
    /\ InTypes /\ compiling = <<>>
    /\ LET i == Group[position]
       IN IF IsType(Item(i)) /\ i \notin types
          THEN compiling' = Call(i, compiling) /\ Stay
          ELSE Advance /\ UNCHANGED compiling
    /\ UNCHANGED <<loaded, types, known, inherited, fatal>>

\* gstype_compile_type_global_var_op: a .tygvar of the group is compiled on the spot, a
\* .tyextabstype has to be there.
TypeReferent ==
    /\ InTypes /\ compiling # <<>>
    /\ Last(compiling).left # <<>>
    /\ LET call == Last(compiling)
           t == Head(call.left)
           caller == Append(Front(compiling), [call EXCEPT !.left = Tail(@)])
       IN CASE <<"type", t>> \in known -> compiling' = caller /\ UNCHANGED fatal
            [] <<"type", t>> \notin known
                 /\ (t \in Item(call.item).ext \/ t \notin ToSet(Group)) ->
                   Fatal("unknown", call.item, <<"type", t>>) /\ UNCHANGED compiling
            [] OTHER ->
                   IF \E k \in DOMAIN compiling : compiling[k].item = t
                   THEN Fatal("loop", call.item, <<"type", t>>) /\ UNCHANGED compiling
                   ELSE compiling' = Call(t, caller) /\ UNCHANGED fatal
    /\ Stay /\ UNCHANGED <<loaded, types, known, inherited>>

TypeDone ==
    /\ InTypes /\ compiling # <<>>
    /\ Last(compiling).left = <<>>
    /\ LET i == Last(compiling).item
       IN Enter({<<"type", i>>}, i) /\ types' = types \cup {i}
    /\ compiling' = Front(compiling)
    /\ IF Len(compiling) = 1 THEN Advance ELSE Stay
    /\ UNCHANGED <<loaded, inherited>>

\* The last group of a document is asked for the entry.
EndGroup ==
    /\ Loading /\ phase = Len(Phases) + 1
    /\ LET f == program.files[file]
           entry == Head(RootsOf(f))
       IN IF f.type = "document" /\ loaded + 1 = Len(groups) /\ entry \notin ToSet(Group)
          THEN Fatal("no entry point", entry, <<>>) /\ UNCHANGED <<loaded, phase>>
          ELSE loaded' = loaded + 1 /\ phase' = 0 /\ UNCHANGED fatal
    /\ UNCHANGED <<position, types, compiling, known, inherited>>

LoadGroup ==
    BeginGroup \/ PhaseItem \/ TypesItem \/ TypeReferent \/ TypeDone \/ EndGroup

\* The next file goes on with the table, or begins another one whose parent it is.
NextFile ==
    /\ loaded = Len(groups)
    /\ SortFile
    /\ IF table' = table THEN UNCHANGED load
       ELSE /\ loaded' = 0
            /\ known' = {} /\ inherited' = inherited \cup known
            /\ UNCHANGED <<phase, position, types, compiling>>

AllLoaded == ~sorting /\ file = Len(program.files) /\ loaded = Len(groups)

Terminated == (~Running \/ AllLoaded) /\ UNCHANGED vars

Init == OrderInit /\ LoadInit

Next ==
    \/ NextFile
    \/ Sort /\ UNCHANGED load
    \/ /\ LoadGroup
       /\ UNCHANGED <<program, table, file, sorting, roots, frames, preorders, counter,
                      unassigned, maybe, sccs, groups>>
    \/ Terminated

Spec == Init /\ [][Next]_vars

-----------------------------------------------------------------------------

\* The names on an item of which the sort does not make an edge: the globals of code from
\* its first .rune on, the type of the elements of a .list, and regex.class.t of a .regex.
Unfollowed(i) ==
    LET it == Item(i)
    IN CASE IsCode(it) -> ToSet(it.data) \ ToSet(Walked(it))
         [] it.form = ".list" -> ToSet(it.types)
         [] it.form = ".regex" -> {RegexClassType}
         [] OTHER -> {}

Users(x) == {i \in Items : Named(i) /\ x \in ToSet(Edges(Item(i)))}

\* What an item of a group can miss of another one, whatever order they come in: the type
\* of data that does not state it, the type of code with more than one user, the value
\* behind another name, and an abstract type a .tyexpr expects by name.
OrderMatters(i, kind, x) ==
    \/ kind = "data type" /\ ~Signed(Item(x))
    \/ kind = "code type" /\ Cardinality(Users(x)) > 1
    \/ kind = "value" /\ Item(i).form \in {".alias", ".cast"}
    \/ kind = "type" /\ Item(i).form = ".tyexpr" /\ x \in Item(i).ext

MayMiss(i, entry) ==
    \/ entry[2] \in Unfollowed(i)
    \/ entry[1] = "definition" /\ Item(entry[2]).form # ".tyabstract"
    \/ entry[2] \in ToSet(Group) /\ OrderMatters(i, entry[1], entry[2])

\* Whatever a phase asks for is in the symbol table it works on, whatever the order of the
\* items in their files, but for a name the sort does not follow, what an item of the same
\* group has yet to make, and the definition of a type that is not abstract.  Only then
\* does the loader stop for an entry that is not there; and only then can it be given an
\* entry of an earlier table, be it of the item's old self or of another item of that name
\* (gsload_scc, gssymtable_get).
FindsItsOwn ==
    /\ InPhase /\ Phase # "types" =>
           LET i == Group[position]
           IN \A e \in Needs(Phase, Item(i)) \ known : MayMiss(i, e)
    /\ ~Running /\ fatal[1] = "unknown" => MayMiss(fatal[2], fatal[3])

\* No item is loaded twice: neither a group (gssymtable_set_scc) nor an entry of a symbol
\* table is set again, over all its files, and no group is larger than the arrays of
\* gsload_scc, which are as long as the stacks of the sort.  And the last group of a
\* document is the one of its entry.
LoadedOnce ==
    Running \/ fatal[1] \notin {"already has SCC", "duplicate", "too many items",
                              "no entry point"}
=============================================================================

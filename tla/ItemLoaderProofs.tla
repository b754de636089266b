-------------------------- MODULE ItemLoaderProofs --------------------------
(***************************************************************************)
(* The loading of items, in the order of ItemOrder: an entry of the symbol *)
(* table has one source, so none is made twice; what is loaded is in the   *)
(* table.                                                                  *)
(*                                                                         *)
(* What a phase finds: of a group that is loaded every entry is there      *)
(* (LoadedMade), of the group at work those of the phases that are over    *)
(* (PhasesMade), and code is in its group for another item that needs it and *)
(* comes later, or is outside of the group (UsedInGroups).  So what is not *)
(* there is what MayMiss allows (FindsNext).                               *)
(***************************************************************************)
EXTENDS ItemOrderProofs, FiniteSetTheorems

-----------------------------------------------------------------------------
(* The invariant of the loader *)

\* What a phase has done of the group at work: phase p is over for the item at q.
Done(p, q) == p < phase \/ (p = phase /\ q < position)

\* The types of the state.  A call for a type is an item and the types it has still to look at.
LoadTypes ==
  /\ loaded \in 0 .. Len(groups)
  /\ phase \in 0 .. Len(Phases) + 1
  /\ position \in Nat \ {0}
  /\ compiling \in Seq(Frames)

\* Where the loader stands: in a group there is while nothing is sorted, at one of its items.
Stage ==
  /\ phase # 0 => ~sorting /\ loaded < Len(groups)
  /\ phase \in {0, Len(Phases) + 1} => position = 1
  /\ phase \in DOMAIN Phases => position \in DOMAIN Group
  /\ compiling # <<>> => InTypes

\* The calls are for items of the group, each for another one and none for one that is done;
\* what is done has its entry.
Compiling ==
  /\ \A k \in DOMAIN compiling : compiling[k].item \in ToSet(Group) /\ compiling[k].item \notin types
  /\ \A k, l \in DOMAIN compiling : compiling[k].item = compiling[l].item => k = l
  /\ phase # 0 => \A x \in types : x \in ToSet(Group) /\ <<"type", x>> \in known

\* Where an entry comes from: an item of a group that is loaded, or of this group, by the phase
\* that makes such entries and has passed the item.
Source(e) ==
  \/ \E k \in 1 .. loaded : e[2] \in ToSet(groups[k])
  \/ phase # 0 /\ e[1] = "type" /\ e[2] \in types
  \/ phase # 0 /\ \E p \in DOMAIN Phases, q \in DOMAIN Group :
                     Done(p, q) /\ e \in Sets(Phases[p], Group[q], Item(Group[q]))

Sources == \A e \in known : Source(e)

\* The inductive invariant of the loader, next to that of the sort.
LoadInv == Running => LoadTypes /\ Stage /\ Compiling /\ Sources

-----------------------------------------------------------------------------
(* The phases and the entries they make *)

\* There are eleven phases.
LEMMA PhasesLength == Len(Phases) = 11 /\ DOMAIN Phases = 1 .. 11
BY DEF Phases

\* Their names.
LEMMA PhaseNames ==
  /\ Phases[1] = "declarations" /\ Phases[2] = "types" /\ Phases[3] = "definitions"
  /\ Phases[4] = "kinds" /\ Phases[5] = "signatures" /\ Phases[6] = "check"
  /\ Phases[7] = "size data" /\ Phases[8] = "data" /\ Phases[9] = "size code"
  /\ Phases[10] = "code" /\ Phases[11] = "compile"
BY DEF Phases

\* The second one is that of the types.
LEMMA TypesPhase ==
  \A p \in DOMAIN Phases : Phases[p] = "types" <=> p = 2
<1> SUFFICES ASSUME NEW p \in DOMAIN Phases PROVE Phases[p] = "types" <=> p = 2
  OBVIOUS
<1>1. p = 1 \/ p = 2 \/ p = 3 \/ p = 4 \/ p = 5 \/ p = 6 \/ p = 7 \/ p = 8 \/ p = 9 \/ p = 10 \/ p = 11
  BY PhasesLength
<1> QED BY <1>1, PhaseNames

\* An item is data, code, a coercion or a type, and not two of them.
OneKind(it) ==
  \/ IsData(it) /\ ~IsCode(it) /\ ~IsCoercion(it) /\ ~IsType(it)
  \/ ~IsData(it) /\ IsCode(it) /\ ~IsCoercion(it) /\ ~IsType(it)
  \/ ~IsData(it) /\ ~IsCode(it) /\ IsCoercion(it) /\ ~IsType(it)
  \/ ~IsData(it) /\ ~IsCode(it) /\ ~IsCoercion(it) /\ IsType(it)

\* That is so for every item the parser makes.
LEMMA KindFacts ==
  ASSUME NEW it, Parsed(it)
  PROVE  OneKind(it)
<1>1. PICK f : f = it.form
  OBVIOUS
<1>2. f \in Forms
  BY <1>1 DEF Parsed
<1>3. /\ IsData(it) <=> f \in DataForms
      /\ IsCode(it) <=> f \in CodeForms
      /\ IsCoercion(it) <=> f \in CoercionForms
      /\ IsType(it) <=> f \in TypeForms
  BY <1>1 DEF IsData, IsCode, IsCoercion, IsType
<1>4. /\ DataForms \cap CodeForms = {} /\ DataForms \cap CoercionForms = {} /\ DataForms \cap TypeForms = {}
      /\ CodeForms \cap CoercionForms = {} /\ CodeForms \cap TypeForms = {} /\ CoercionForms \cap TypeForms = {}
  BY DEF DataForms, CodeForms, CoercionForms, TypeForms, PrimTypes
<1> QED BY <1>2, <1>3, <1>4 DEF OneKind, Forms

\* Which phase makes an entry for an item.
MadeIn(p, it, e) ==
  \/ p = 1 /\ e[1] = "kind" /\ DeclaresKind(it)
  \/ p = 3 /\ e[1] = "definition"
  \/ p = 4 /\ e[1] = "kind" /\ ~DeclaresKind(it)
  \/ p = 5 /\ e[1] = "data type" /\ Signed(it)
  \/ p = 6 /\ e[1] = "data type" /\ ~Signed(it)
  \/ p = 6 /\ e[1] \in {"code type", "coercion type"}
  \/ p = 8 /\ e[1] = "value"
  \/ p = 10 /\ e[1] = "code"

\* An entry that a phase makes for an item is one of the item, and one of those it makes.
LEMMA SetsFacts ==
  ASSUME NEW p \in DOMAIN Phases, NEW i, NEW it, Parsed(it), NEW e \in Sets(Phases[p], i, it)
  PROVE  e[2] = i /\ MadeIn(p, it, e)
<1> USE DEF MadeIn
<1>1. p = 1 \/ p = 2 \/ p = 3 \/ p = 4 \/ p = 5 \/ p = 6 \/ p = 7 \/ p = 8 \/ p = 9 \/ p = 10 \/ p = 11
  BY PhasesLength
<1>2. \A a : <<a, i>>[1] = a /\ <<a, i>>[2] = i
  OBVIOUS
<1>3. CASE p = 1
  <2>1. e \in DeclarationSets(i, it)
    BY <1>3, PhaseNames DEF Sets
  <2> QED BY <1>2, <1>3, <2>1 DEF DeclarationSets
<1>4. CASE p = 3
  <2>1. e \in DefinitionSets(i, it)
    BY <1>4, PhaseNames DEF Sets
  <2> QED BY <1>2, <1>4, <2>1 DEF DefinitionSets
<1>5. CASE p = 4
  <2>1. e \in KindCheckSets(i, it)
    BY <1>5, PhaseNames DEF Sets
  <2> QED BY <1>2, <1>5, <2>1 DEF KindCheckSets
<1>6. CASE p = 5
  <2>1. e \in SignatureSets(i, it)
    BY <1>6, PhaseNames DEF Sets
  <2> QED BY <1>2, <1>6, <2>1 DEF SignatureSets
<1>7. CASE p = 6
  <2>1. e \in CheckSets(i, it)
    BY <1>7, PhaseNames DEF Sets
  <2>2. OneKind(it)
    BY KindFacts
  <2>3. CASE IsData(it)
    <3>1. e \in CheckDataSets(i, it)
      BY <2>1, <2>2, <2>3 DEF CheckSets, OneKind
    <3> QED BY <1>2, <1>7, <3>1 DEF CheckDataSets
  <2>4. CASE IsCode(it)
    <3>1. e = <<"code type", i>>
      BY <2>1, <2>2, <2>4 DEF CheckSets, OneKind
    <3> QED BY <1>2, <1>7, <3>1
  <2>5. CASE IsCoercion(it)
    <3>1. e = <<"coercion type", i>>
      BY <2>1, <2>2, <2>5 DEF CheckSets, OneKind
    <3> QED BY <1>2, <1>7, <3>1
  <2>6. CASE IsType(it)
    BY <2>1, <2>2, <2>6 DEF CheckSets, OneKind
  <2> QED BY <2>2, <2>3, <2>4, <2>5, <2>6 DEF OneKind
<1>8. CASE p = 8
  <2>1. e \in AllocDataSets(i, it)
    BY <1>8, PhaseNames DEF Sets
  <2> QED BY <1>2, <1>8, <2>1 DEF AllocDataSets
<1>9. CASE p = 10
  <2>1. e \in AllocCodeSets(i, it)
    BY <1>9, PhaseNames DEF Sets
  <2> QED BY <1>2, <1>9, <2>1 DEF AllocCodeSets
<1>10. CASE p = 2 \/ p = 7 \/ p = 9 \/ p = 11
  BY <1>10, PhaseNames DEF Sets
<1> QED BY <1>1, <1>3, <1>4, <1>5, <1>6, <1>7, <1>8, <1>9, <1>10

-----------------------------------------------------------------------------
(* The group at work *)

\* There are groups only when there has been a file.
LEMMA GroupsOfFiles ==
  ASSUME SortInv, Running, groups # <<>>
  PROVE  file # 0
<1> SUFFICES ASSUME file = 0 PROVE FALSE
  OBVIOUS
<1>1. SortTypes /\ Idle /\ Asked /\ Path /\ Stacks
  BY DEF SortInv
<1>2. frames = <<>>
  BY <1>1 DEF Idle
<1>3. unassigned = <<>>
  BY <1>1, <1>2 DEF Idle
<1>4. Active = {}
  BY <1>3 DEF Active, ToSet
<1>5. PICK c : c = Len(groups)
  OBVIOUS
<1>6. c \in DOMAIN groups /\ DOMAIN groups = 1 .. c /\ c \in Nat
  BY <1>1, <1>5, Lengths
<1>7. ~ RootOf(ToSet(groups[c]))
  BY DEF RootOf
<1> QED BY <1>1, <1>4, <1>6, <1>7 DEF Asked

\* The group that is loaded next: items of the table, none twice, none of an earlier group.
LEMMA GroupFacts ==
  ASSUME SortInv, Running, loaded \in Nat, loaded < Len(groups)
  PROVE  /\ loaded + 1 \in DOMAIN groups /\ file # 0
         /\ Group \in Seq(Items) /\ Len(Group) \in Nat \ {0} /\ Len(Group) <= StackCapacity
         /\ DOMAIN Group = 1 .. Len(Group)
         /\ \A p, q \in DOMAIN Group : Group[p] = Group[q] => p = q
         /\ \A q \in DOMAIN Group : Group[q] \in ToSet(Group)
         /\ \A x \in ToSet(Group) : /\ x \in Items /\ Named(x) /\ Parsed(Item(x))
                                    /\ \E q \in DOMAIN Group : x = Group[q]
                                    /\ \A k \in 1 .. loaded : x \notin ToSet(groups[k])
<1>1. SortTypes /\ Grouping
  BY DEF SortInv
<1>2. PICK c, g : c = Len(groups) /\ g = Group
  OBVIOUS
<1>3. c \in Nat /\ DOMAIN groups = 1 .. c /\ groups # <<>> /\ loaded + 1 \in 1 .. c
  BY <1>1, <1>2, Lengths
<1>4. g = groups[loaded + 1] /\ g \in Seq(Items)
  BY <1>1, <1>2, <1>3 DEF Group, SortTypes
<1>5. file # 0
  BY <1>3, GroupsOfFiles
<1>6. /\ Len(g) \in 1 .. StackCapacity
      /\ \A p, q \in DOMAIN g : g[p] = g[q] => p = q
      /\ \A x \in ToSet(g) : Named(x)
  BY <1>1, <1>3, <1>4 DEF Grouping
<1>7. \A x \in ToSet(g) : x \in Items /\ Named(x) /\ Parsed(Item(x))
  BY <1>1, <1>5, <1>6, NamedFacts
<1>8. /\ Len(g) \in Nat \ {0} /\ Len(g) <= StackCapacity /\ DOMAIN g = 1 .. Len(g)
  BY <1>4, <1>6, StackCapacityAssumption
<1>9. /\ \A q \in DOMAIN g : g[q] \in ToSet(g)
      /\ \A x \in ToSet(g) : \E q \in DOMAIN g : x = g[q]
  BY Zenon DEF ToSet
<1>10. \A x \in ToSet(g) : \A k \in 1 .. loaded : x \notin ToSet(groups[k])
  <2> SUFFICES ASSUME NEW x \in ToSet(g), NEW k \in 1 .. loaded, x \in ToSet(groups[k]) PROVE FALSE
    OBVIOUS
  <2>1. k \in DOMAIN groups /\ loaded + 1 \in DOMAIN groups /\ k # loaded + 1
    BY <1>3
  <2> QED BY <1>1, <1>4, <2>1 DEF Grouping
<1> QED BY <1>2, <1>3, <1>4, <1>5, <1>6, <1>7, <1>8, <1>9, <1>10

\* An entry for an item of the group at work was made by the phase for it.
LEMMA MadeForItsOwn ==
  ASSUME SortInv, LoadInv, Running, phase \in DOMAIN Phases, loaded < Len(groups),
         NEW e \in known, e[2] \in ToSet(Group)
  PROVE  \/ e[1] = "type" /\ e[2] \in types
         \/ \E p \in DOMAIN Phases, q \in DOMAIN Group :
              Done(p, q) /\ e \in Sets(Phases[p], Group[q], Item(Group[q])) /\ e[2] = Group[q]
<1>1. Source(e) /\ loaded \in Nat
  BY DEF LoadInv, Sources, LoadTypes
<1>2. ~ \E k \in 1 .. loaded : e[2] \in ToSet(groups[k])
  BY <1>1, GroupFacts
<1>3. CASE \E p \in DOMAIN Phases, q \in DOMAIN Group : Done(p, q) /\ e \in Sets(Phases[p], Group[q], Item(Group[q]))
  <2>1. PICK p \in DOMAIN Phases, q \in DOMAIN Group : Done(p, q) /\ e \in Sets(Phases[p], Group[q], Item(Group[q]))
    BY <1>3
  <2>2. Parsed(Item(Group[q]))
    BY <1>1, GroupFacts
  <2>3. e[2] = Group[q]
    <3>1. PICK i, it : i = Group[q] /\ it = Item(Group[q])
      OBVIOUS
    <3>2. e \in Sets(Phases[p], i, it) /\ Parsed(it)
      BY <2>1, <2>2, <3>1
    <3> QED BY <3>1, <3>2, SetsFacts
  <2> QED BY <2>1, <2>3
<1> QED BY <1>1, <1>2, <1>3 DEF Source

\* What a phase makes for the item it is at is not there yet.
LEMMA NotThereYet ==
  ASSUME SortInv, LoadInv, Running, phase \in DOMAIN Phases, loaded < Len(groups), position \in DOMAIN Group
  PROVE  Sets(Phase, Group[position], Item(Group[position])) \cap known = {}
<1>1. PICK i, it : i = Group[position] /\ it = Item(i)
  OBVIOUS
<1>2. loaded \in Nat /\ position \in Nat /\ phase \in Nat
  <2>1. phase \in 1 .. 11
    BY PhasesLength
  <2> QED BY <2>1 DEF LoadInv, LoadTypes
<1>3. i \in ToSet(Group) /\ Parsed(it)
  BY <1>1, <1>2, GroupFacts
<1> SUFFICES ASSUME NEW e \in Sets(Phases[phase], i, it), e \in known PROVE FALSE
  BY <1>1 DEF Phase
<1>4. e[2] = i /\ MadeIn(phase, it, e) /\ e[1] # "type"
  <2>1. e[2] = i /\ MadeIn(phase, it, e)
    BY <1>3, SetsFacts
  <2> QED BY <2>1 DEF MadeIn
<1>5. PICK p \in DOMAIN Phases, q \in DOMAIN Group :
        Done(p, q) /\ e \in Sets(Phases[p], Group[q], Item(Group[q])) /\ e[2] = Group[q]
  BY <1>3, <1>4, MadeForItsOwn
<1>6. q = position
  BY <1>1, <1>2, <1>4, <1>5, GroupFacts
<1>7. MadeIn(p, it, e)
  <2>1. e \in Sets(Phases[p], i, it) /\ p \in DOMAIN Phases /\ Parsed(it)
    BY <1>1, <1>3, <1>5, <1>6
  <2>2. ASSUME NEW p2 \in DOMAIN Phases, NEW e2 \in Sets(Phases[p2], i, it) PROVE MadeIn(p2, it, e2)
    BY <2>1, SetsFacts
  <2> QED BY <2>1, <2>2
<1>8. p = phase
  <2>1. PICK a, d, s : a = e[1] /\ d = DeclaresKind(it) /\ s = Signed(it)
    OBVIOUS
  <2>2. PICK k : k = phase
    OBVIOUS
  <2>3. \/ k = 1 /\ a = "kind" /\ d
        \/ k = 3 /\ a = "definition"
        \/ k = 4 /\ a = "kind" /\ ~d
        \/ k = 5 /\ a = "data type" /\ s
        \/ k = 6 /\ a = "data type" /\ ~s
        \/ k = 6 /\ a \in {"code type", "coercion type"}
        \/ k = 8 /\ a = "value"
        \/ k = 10 /\ a = "code"
    BY <1>4, <2>1, <2>2, Zenon DEF MadeIn
  <2>4. \/ p = 1 /\ a = "kind" /\ d
        \/ p = 3 /\ a = "definition"
        \/ p = 4 /\ a = "kind" /\ ~d
        \/ p = 5 /\ a = "data type" /\ s
        \/ p = 6 /\ a = "data type" /\ ~s
        \/ p = 6 /\ a \in {"code type", "coercion type"}
        \/ p = 8 /\ a = "value"
        \/ p = 10 /\ a = "code"
    BY <1>7, <2>1, Zenon DEF MadeIn
  <2>5. CASE a = "kind"
    <3>1. (k = 1 /\ d) \/ (k = 4 /\ ~d)
      BY <2>3, <2>5
    <3>2. (p = 1 /\ d) \/ (p = 4 /\ ~d)
      BY <2>4, <2>5
    <3> QED BY <2>2, <3>1, <3>2, Zenon
  <2>6. CASE a = "data type"
    <3>1. (k = 5 /\ s) \/ (k = 6 /\ ~s)
      BY <2>3, <2>6
    <3>2. (p = 5 /\ s) \/ (p = 6 /\ ~s)
      BY <2>4, <2>6
    <3> QED BY <2>2, <3>1, <3>2, Zenon
  <2>7. CASE a # "kind" /\ a # "data type"
    <3>1. \/ k = 3 /\ a = "definition"
          \/ k = 6 /\ a \in {"code type", "coercion type"}
          \/ k = 8 /\ a = "value"
          \/ k = 10 /\ a = "code"
      BY <2>3, <2>7
    <3>2. \/ p = 3 /\ a = "definition"
          \/ p = 6 /\ a \in {"code type", "coercion type"}
          \/ p = 8 /\ a = "value"
          \/ p = 10 /\ a = "code"
      BY <2>4, <2>7
    <3>3. CASE a = "definition"
      BY <2>2, <3>1, <3>2, <3>3
    <3>4. CASE a \in {"code type", "coercion type"}
      BY <2>2, <3>1, <3>2, <3>4
    <3>5. CASE a = "value"
      BY <2>2, <3>1, <3>2, <3>5
    <3>6. CASE a = "code"
      BY <2>2, <3>1, <3>2, <3>6
    <3> QED BY <3>1, <3>3, <3>4, <3>5, <3>6
  <2> QED BY <2>5, <2>6, <2>7, Zenon
<1> QED BY <1>2, <1>5, <1>6, <1>8 DEF Done

\* The next item, or the first of the next phase: that much more is done.
LEMMA AdvanceFacts ==
  ASSUME SortInv, Running, loaded \in Nat, loaded < Len(groups), phase \in DOMAIN Phases, position \in DOMAIN Group,
         UNCHANGED <<groups, loaded>>, Advance
  PROVE  /\ phase' # 0 /\ phase' \in 0 .. Len(Phases) + 1 /\ position' \in Nat \ {0} /\ Group' = Group
         /\ phase' = Len(Phases) + 1 => position' = 1
         /\ phase' \in DOMAIN Phases => position' \in DOMAIN Group
         /\ \A p \in DOMAIN Phases, q \in DOMAIN Group :
              (p < phase' \/ (p = phase' /\ q < position')) <=> Done(p, q) \/ (p = phase /\ q = position)
<1>1. PICK n : n = Len(Group)
  OBVIOUS
<1>2. n \in Nat \ {0} /\ DOMAIN Group = 1 .. n
  BY <1>1, GroupFacts
<1>3. phase \in 1 .. 11 /\ Len(Phases) = 11 /\ DOMAIN Phases = 1 .. 11
  BY PhasesLength
<1>4. Group' = Group
  BY DEF Group
<1>5. CASE position = n
  <2>1. position' = 1 /\ phase' = phase + 1
    BY <1>1, <1>5 DEF Advance
  <2>2. /\ phase' # 0 /\ phase' \in 0 .. 12 /\ position' \in Nat \ {0} /\ position' \in DOMAIN Group
    BY <1>2, <1>3, <2>1
  <2>3. ASSUME NEW p \in 1 .. 11, NEW q \in 1 .. n
        PROVE  (p < phase' \/ (p = phase' /\ q < position')) <=> Done(p, q) \/ (p = phase /\ q = position)
    <3>1. q < n \/ q = n
      BY <1>2
    <3>2. ~(q < position')
      BY <1>2, <2>1
    <3>3. p < phase' <=> p < phase \/ p = phase
      BY <1>3, <2>1
    <3>4. q = position \/ q < position
      BY <1>5, <3>1
    <3>5. p = phase' => ~(q < position')
      BY <3>2
    <3> QED BY <3>2, <3>3, <3>4 DEF Done
  <2>4. \A p \in DOMAIN Phases, q \in DOMAIN Group :
           (p < phase' \/ (p = phase' /\ q < position')) <=> Done(p, q) \/ (p = phase /\ q = position)
    BY <1>2, <1>3, <2>3
  <2> QED BY <1>3, <1>4, <2>1, <2>2, <2>4
<1>6. CASE position # n
  <2>1. position' = position + 1 /\ phase' = phase
    BY <1>1, <1>6 DEF Advance
  <2>2. position' \in 1 .. n
    BY <1>2, <1>6, <2>1
  <2>3. ASSUME NEW p \in 1 .. 11, NEW q \in 1 .. n
        PROVE  (p < phase' \/ (p = phase' /\ q < position')) <=> Done(p, q) \/ (p = phase /\ q = position)
    <3>1. q < position' <=> q < position \/ q = position
      BY <1>2, <2>1
    <3> QED BY <2>1, <3>1 DEF Done
  <2>4. phase' # 0 /\ phase' \in 0 .. 12 /\ phase' # 12 /\ position' \in Nat \ {0}
    BY <1>2, <1>3, <2>1, <2>2
  <2>5. \A p \in DOMAIN Phases, q \in DOMAIN Group :
           (p < phase' \/ (p = phase' /\ q < position')) <=> Done(p, q) \/ (p = phase /\ q = position)
    BY <1>2, <1>3, <2>3
  <2> QED BY <1>2, <1>3, <1>4, <2>2, <2>4, <2>5
<1> QED BY <1>5, <1>6

\* A source stays one while the groups stay and the phases go on.
LEMMA SourceKept ==
  ASSUME UNCHANGED <<program, table, groups, loaded>>, types \subseteq types', phase # 0 => phase' # 0,
         \A p \in DOMAIN Phases, q \in DOMAIN Group : Done(p, q) => p < phase' \/ (p = phase' /\ q < position'),
         NEW e, Source(e)
  PROVE  Source(e)'
<1>1. Group' = Group /\ \A x : Item(x)' = Item(x)
  BY SameTable DEF Group
<1>2. CASE \E k \in 1 .. loaded : e[2] \in ToSet(groups[k])
  BY <1>2 DEF Source
<1>3. CASE phase # 0 /\ e[1] = "type" /\ e[2] \in types
  BY <1>3 DEF Source
<1>4. CASE phase # 0 /\ \E p \in DOMAIN Phases, q \in DOMAIN Group :
                           Done(p, q) /\ e \in Sets(Phases[p], Group[q], Item(Group[q]))
  <2>1. PICK p \in DOMAIN Phases, q \in DOMAIN Group : Done(p, q) /\ e \in Sets(Phases[p], Group[q], Item(Group[q]))
    BY <1>4
  <2>2. Item(Group[q])' = Item(Group[q])
    BY DEF Item, ItemOf, Group
  <2>3. /\ p < phase' \/ (p = phase' /\ q < position')
        /\ e \in Sets(Phases[p], Group'[q], Item(Group[q])') /\ phase' # 0 /\ q \in DOMAIN Group'
    BY <1>1, <1>4, <2>1, <2>2
  <2> QED BY <2>3 DEF Source, Done
<1> QED BY <1>2, <1>3, <1>4 DEF Source

-----------------------------------------------------------------------------
(* The steps of the loader *)

\* What it stops for in other ways than these four is of no concern here.
LEMMA FatalEnds ==
  ASSUME NEW r, NEW i, NEW e, Fatal(r, i, e),
         r \notin {"already has SCC", "duplicate", "too many items", "no entry point"}
  PROVE  LoadInv' /\ LoadedOnce'
<1>1. fatal' = <<r, i, e>>
  BY DEF Fatal
<1>2. \A a, b, c : <<a, b, c>> # <<>> /\ <<a, b, c>>[1] = a
  OBVIOUS
<1>3. fatal' # <<>> /\ fatal'[1] = r
  BY <1>1, <1>2, Zenon
<1>4. ~Running'
  BY <1>3 DEF Running
<1> QED BY <1>3, <1>4 DEF LoadInv, LoadedOnce

\* The parts of the invariant while the loader goes on.
LEMMA LoadGoesOn ==
  ASSUME Running', LoadTypes', Stage', Compiling', Sources'
  PROVE  LoadInv' /\ LoadedOnce'
BY DEF LoadInv, LoadedOnce

\* Nothing is called for.
LEMMA NothingCalled ==
  compiling = <<>> => DOMAIN compiling = {}
<1>1. \A s : s = <<>> => DOMAIN s = {}
  OBVIOUS
<1> QED BY <1>1

\* A group fits the arrays of gsload_scc.
LEMMA BeginGroupStep ==
  ASSUME SortInv, LoadInv, Running, BeginGroup,
         UNCHANGED <<program, table, file, sorting, roots, frames, preorders, counter, unassigned, maybe, sccs, groups>>
  PROVE  LoadInv' /\ LoadedOnce'
<1>1. /\ ~sorting /\ loaded < Len(groups) /\ phase = 0
      /\ UNCHANGED <<loaded, position, compiling, known, inherited>> /\ types' = {}
  BY DEF BeginGroup, Loading
<1>2. LoadTypes /\ Stage /\ Compiling /\ Sources /\ SortTypes
  BY DEF LoadInv, SortInv
<1>3. loaded \in Nat
  BY <1>2 DEF LoadTypes
<1>4. Len(Group) \in Nat \ {0} /\ Len(Group) <= StackCapacity /\ DOMAIN Group = 1 .. Len(Group)
  BY <1>1, <1>3, GroupFacts
<1>5. ~(Len(Group) > GroupCapacity)
  BY <1>4, GroupCapacityAssumption, StackCapacityAssumption
<1>6. phase' = 1 /\ fatal' = fatal
  BY <1>5 DEF BeginGroup
<1>7. Running' /\ Group' = Group
  BY <1>1, <1>6 DEF Running, Group
<1>8. LoadTypes'
  BY <1>1, <1>2, <1>6, PhasesLength DEF LoadTypes
<1>9. compiling = <<>> /\ position = 1
  BY <1>1, <1>2, PhasesLength DEF Stage, InTypes, InPhase
<1>10. Stage'
  <2>1. position' \in DOMAIN Group'
    BY <1>1, <1>4, <1>7, <1>9
  <2> QED BY <1>1, <1>6, <1>9, <2>1, PhasesLength DEF Stage
<1>11. Compiling'
  <2>1. DOMAIN compiling' = {}
    BY <1>1, <1>9, NothingCalled
  <2> QED BY <1>1, <2>1 DEF Compiling
<1>12. Sources'
  BY <1>1, <1>2 DEF Sources, Source
<1> QED BY <1>7, <1>8, <1>10, <1>11, <1>12, LoadGoesOn

\* A phase makes no entry that is there.
LEMMA PhaseItemStep ==
  ASSUME SortInv, LoadInv, Running, PhaseItem,
         UNCHANGED <<program, table, file, sorting, roots, frames, preorders, counter, unassigned, maybe, sccs, groups>>
  PROVE  LoadInv' /\ LoadedOnce'
<1>1. /\ ~sorting /\ loaded < Len(groups) /\ phase \in DOMAIN Phases /\ Phase # "types"
      /\ UNCHANGED <<loaded, types, compiling, inherited>>
  BY DEF PhaseItem, InPhase, Loading
<1>2. LoadTypes /\ Stage /\ Compiling /\ Sources /\ SortTypes
  BY DEF LoadInv, SortInv
<1>3. loaded \in Nat /\ phase # 0 /\ position \in DOMAIN Group /\ compiling = <<>>
  <2>1. loaded \in Nat /\ phase # 0
    BY <1>1, <1>2, PhasesLength DEF LoadTypes
  <2>2. position \in DOMAIN Group /\ compiling = <<>>
    BY <1>1, <1>2 DEF Stage, InTypes
  <2> QED BY <2>1, <2>2
<1> DEFINE i == Group[position]
           S == Sets(Phase, i, Item(i))
<1>4. CASE \E e : Fatal("unknown", i, e)
  BY <1>4, FatalEnds
<1>5. CASE Fatal("not implemented", i, <<>>)
  BY <1>5, FatalEnds
<1>6. CASE Enter(S, i) /\ Advance
  <2>1. S \cap known = {}
    BY <1>1, <1>3, NotThereYet
  <2>2. known' = known \cup S /\ fatal' = fatal
    BY <1>6, <2>1 DEF Enter
  <2>3. /\ phase' # 0 /\ phase' \in 0 .. Len(Phases) + 1 /\ position' \in Nat \ {0} /\ Group' = Group
        /\ phase' = Len(Phases) + 1 => position' = 1
        /\ phase' \in DOMAIN Phases => position' \in DOMAIN Group
        /\ \A p \in DOMAIN Phases, q \in DOMAIN Group :
              (p < phase' \/ (p = phase' /\ q < position')) <=> Done(p, q) \/ (p = phase /\ q = position)
    BY <1>1, <1>3, <1>6, AdvanceFacts
  <2>4. Running'
    BY <2>2 DEF Running
  <2>5. LoadTypes'
    BY <1>1, <1>2, <2>3 DEF LoadTypes
  <2>6. Stage'
    BY <1>1, <1>3, <2>3 DEF Stage
  <2>7. Compiling'
    <3>1. DOMAIN compiling' = {}
      BY <1>1, <1>3, NothingCalled
    <3>2. \A x \in types' : x \in ToSet(Group') /\ <<"type", x>> \in known'
      BY <1>1, <1>2, <1>3, <2>2, <2>3 DEF Compiling
    <3> QED BY <3>1, <3>2 DEF Compiling
  <2>8. ASSUME NEW e \in known' PROVE Source(e)'
    <3>1. CASE e \in known
      <4>1. Source(e)
        BY <1>2, <3>1 DEF Sources
      <4>2. types \subseteq types' /\ (phase # 0 => phase' # 0)
        BY <1>1, <2>3
      <4>3. \A p \in DOMAIN Phases, q \in DOMAIN Group : Done(p, q) => p < phase' \/ (p = phase' /\ q < position')
        BY <2>3
      <4> QED BY <1>1, <4>1, <4>2, <4>3, SourceKept
    <3>2. CASE e \in S
      <4>1. phase < phase' \/ (phase = phase' /\ position < position')
        <5>1. \A p \in DOMAIN Phases, q \in DOMAIN Group :
                p = phase /\ q = position => p < phase' \/ (p = phase' /\ q < position')
          BY <2>3
        <5> QED BY <1>1, <1>3, <5>1
      <4>3. e \in Sets(Phases[phase], Group[position], Item(Group[position]))
        BY <3>2 DEF Phase
      <4>4. PICK q : q = position
        OBVIOUS
      <4>5. Item(Group[q])' = Item(Group[q])
        BY <1>1 DEF Item, ItemOf, Group
      <4>6. /\ phase < phase' \/ (phase = phase' /\ q < position')
            /\ e \in Sets(Phases[phase], Group'[q], Item(Group[q])') /\ phase' # 0 /\ q \in DOMAIN Group'
        BY <1>3, <2>3, <4>1, <4>3, <4>4, <4>5
      <4> QED BY <1>1, <4>6 DEF Source, Done
    <3> QED BY <2>2, <3>1, <3>2
  <2>9. Sources'
    BY <2>8 DEF Sources
  <2> QED BY <2>4, <2>5, <2>6, <2>7, <2>9, LoadGoesOn
<1> QED BY <1>4, <1>5, <1>6 DEF PhaseItem

\* The last group of a document is that of its entry.
LEMMA EndGroupStep ==
  ASSUME SortInv, LoadInv, Running, EndGroup,
         UNCHANGED <<program, table, file, sorting, roots, frames, preorders, counter, unassigned, maybe, sccs, groups>>
  PROVE  LoadInv' /\ LoadedOnce'
<1>1. /\ ~sorting /\ loaded < Len(groups) /\ phase = Len(Phases) + 1
      /\ UNCHANGED <<position, types, compiling, known, inherited>>
  BY DEF EndGroup, Loading
<1>2. LoadTypes /\ Stage /\ Compiling /\ Sources /\ SortTypes /\ DocumentSort
  BY DEF LoadInv, SortInv
<1>3. loaded \in Nat /\ phase = 12 /\ position = 1 /\ compiling = <<>>
  <2>1. loaded \in Nat /\ phase = 12 /\ phase \notin DOMAIN Phases
    BY <1>1, <1>2, PhasesLength DEF LoadTypes
  <2>2. position = 1 /\ compiling = <<>>
    BY <1>1, <1>2, <2>1 DEF Stage, InTypes, InPhase
  <2> QED BY <2>1, <2>2
<1>4. /\ loaded + 1 \in DOMAIN groups /\ file # 0 /\ \A q \in DOMAIN Group : Group[q] \in ToSet(Group)
      /\ \A x \in ToSet(Group) : Parsed(Item(x))
  BY <1>1, <1>3, GroupFacts
<1>5. ASSUME program.files[file].type = "document", loaded + 1 = Len(groups)
      PROVE  Entry \in ToSet(Group)
  <2>1. Entry \in ToSet(Last(groups))
    BY <1>1, <1>2, <1>4, <1>5 DEF DocumentSort
  <2>2. Last(groups) = Group
    BY <1>5 DEF Last, Group
  <2> QED BY <2>1, <2>2
<1>6. loaded' = loaded + 1 /\ phase' = 0 /\ fatal' = fatal
  BY <1>5 DEF EndGroup, Entry
<1>7. Running'
  BY <1>6 DEF Running
<1>8. Len(groups) \in Nat
  BY <1>2 DEF SortTypes
<1>9. LoadTypes'
  BY <1>1, <1>2, <1>3, <1>6, <1>8, PhasesLength DEF LoadTypes
<1>10. Stage'
  BY <1>1, <1>3, <1>6, PhasesLength DEF Stage
<1>11. Compiling'
  <2>1. DOMAIN compiling' = {}
    BY <1>1, <1>3, NothingCalled
  <2> QED BY <1>6, <2>1 DEF Compiling
<1>12. ASSUME NEW e \in known PROVE \E k \in 1 .. loaded + 1 : e[2] \in ToSet(groups[k])
  <2>1. Source(e)
    BY <1>2 DEF Sources
  <2>2. CASE \E k \in 1 .. loaded : e[2] \in ToSet(groups[k])
    BY <1>3, <2>2
  <2>3. CASE e[2] \in ToSet(Group)
    BY <1>3, <2>3 DEF Group
  <2>4. CASE e[2] \in types
    <3>1. phase # 0
      BY <1>3
    <3>2. \A x \in types : x \in ToSet(Group)
      BY <1>2, <3>1 DEF Compiling
    <3> QED BY <2>3, <2>4, <3>2
  <2>5. CASE \E p \in DOMAIN Phases, q \in DOMAIN Group : e \in Sets(Phases[p], Group[q], Item(Group[q]))
    <3>1. PICK p \in DOMAIN Phases, q \in DOMAIN Group : e \in Sets(Phases[p], Group[q], Item(Group[q]))
      BY <2>5
    <3>2. PICK i, it : i = Group[q] /\ it = Item(Group[q])
      OBVIOUS
    <3>3. e \in Sets(Phases[p], i, it) /\ Parsed(it)
      BY <1>4, <3>1, <3>2
    <3>4. e[2] = i
      BY <3>3, SetsFacts
    <3> QED BY <1>4, <2>3, <3>2, <3>4
  <2> QED BY <2>1, <2>2, <2>4, <2>5 DEF Source
<1>13. Sources'
  BY <1>1, <1>6, <1>12 DEF Sources, Source
<1> QED BY <1>7, <1>9, <1>10, <1>11, <1>13, LoadGoesOn

-----------------------------------------------------------------------------
(* The steps of the loader for types *)

\* A call for a type of the table.
LEMMA CallFacts ==
  ASSUME NEW i \in Items, Parsed(Item(i)), NEW calls \in Seq(Frames), NEW n, n = Len(calls)
  PROVE  /\ Call(i, calls) \in Seq(Frames) /\ n \in Nat /\ DOMAIN Call(i, calls) = 1 .. n + 1
         /\ DOMAIN calls = 1 .. n /\ \A k \in 1 .. n : Call(i, calls)[k] = calls[k]
         /\ Call(i, calls)[n + 1].item = i
<1>1. PICK left : left = IF Item(i).form = ".tyexpr" THEN Item(i).types ELSE <<>>
  OBVIOUS
<1>2. left \in Seq(Items)
  BY <1>1 DEF Parsed
<1>3. PICK f : f = [item |-> i, left |-> left]
  OBVIOUS
<1>4. f \in Frames /\ f.item = i
  BY <1>2, <1>3 DEF Frames
<1>5. Call(i, calls) = Append(calls, f)
  BY <1>1, <1>3 DEF Call
<1>6. /\ Append(calls, f) \in Seq(Frames) /\ n \in Nat /\ DOMAIN calls = 1 .. n
      /\ DOMAIN Append(calls, f) = 1 .. n + 1
      /\ \A k \in 1 .. n : Append(calls, f)[k] = calls[k]
      /\ Append(calls, f)[n + 1] = f
  BY <1>4, AppendFacts
<1> QED BY <1>4, <1>5, <1>6

\* The top call, and those below it.
LEMMA TopCall ==
  ASSUME compiling \in Seq(Frames), compiling # <<>>, NEW n, n = Len(compiling)
  PROVE  /\ n \in Nat \ {0} /\ DOMAIN compiling = 1 .. n /\ n \in DOMAIN compiling
         /\ Last(compiling) = compiling[n] /\ Last(compiling) \in Frames
         /\ Front(compiling) \in Seq(Frames) /\ Len(Front(compiling)) = n - 1 /\ DOMAIN Front(compiling) = 1 .. n - 1
         /\ \A k \in 1 .. n - 1 : Front(compiling)[k] = compiling[k]
<1>1. /\ n \in Nat \ {0} /\ DOMAIN compiling = 1 .. n /\ n \in DOMAIN compiling
      /\ Last(compiling) = compiling[n]
      /\ Front(compiling) \in Seq(Frames) /\ Len(Front(compiling)) = n - 1 /\ DOMAIN Front(compiling) = 1 .. n - 1
      /\ \A k \in 1 .. n - 1 : Front(compiling)[k] = compiling[k]
  <2>1. PICK s, F : s = compiling /\ F = Frames
    OBVIOUS
  <2>2. s \in Seq(F) /\ s # <<>> /\ n = Len(s)
    BY <2>1
  <2>3. /\ n \in Nat \ {0} /\ DOMAIN s = 1 .. n /\ n \in DOMAIN s
        /\ Last(s) = s[n] /\ Last(s) \in F
        /\ Front(s) \in Seq(F) /\ Len(Front(s)) = n - 1 /\ DOMAIN Front(s) = 1 .. n - 1
        /\ \A k \in 1 .. n - 1 : Front(s)[k] = s[k]
    BY <2>2, FrontLast
  <2> QED BY <2>1, <2>3, Zenon
<1>2. Last(compiling) \in Frames
  BY <1>1
<1> QED BY <1>1, <1>2

\* The top call when it has looked at one type more.
LEMMA CallerFacts ==
  ASSUME compiling \in Seq(Frames), compiling # <<>>, Last(compiling).left # <<>>,
         NEW n, n = Len(compiling),
         NEW caller, caller = Append(Front(compiling), [Last(compiling) EXCEPT !.left = Tail(@)])
  PROVE  /\ n \in Nat \ {0} /\ DOMAIN compiling = 1 .. n /\ caller \in Seq(Frames) /\ Len(caller) = n
         /\ DOMAIN caller = 1 .. n
         /\ \A k \in 1 .. n : caller[k].item = compiling[k].item
<1>1. /\ n \in Nat \ {0} /\ DOMAIN compiling = 1 .. n /\ n \in DOMAIN compiling
      /\ Last(compiling) = compiling[n] /\ Last(compiling) \in Frames
      /\ Front(compiling) \in Seq(Frames) /\ Len(Front(compiling)) = n - 1 /\ DOMAIN Front(compiling) = 1 .. n - 1
      /\ \A k \in 1 .. n - 1 : Front(compiling)[k] = compiling[k]
  BY TopCall
<1>2. PICK f, top, m, c : /\ top = Last(compiling) /\ f = Front(compiling) /\ m = n - 1
                          /\ c = [top EXCEPT !.left = Tail(@)]
  OBVIOUS
<1>3. top \in Frames /\ top.left # <<>> /\ top.left \in Seq(Items)
  BY <1>1, <1>2 DEF Frames
<1>4. Tail(top.left) \in Seq(Items)
  BY <1>3
<1>5. c \in Frames /\ c.item = top.item
  BY <1>2, <1>3, <1>4 DEF Frames
<1>6. f \in Seq(Frames) /\ m = Len(f) /\ m \in Nat /\ m + 1 = n
  BY <1>1, <1>2
<1>7. /\ Append(f, c) \in Seq(Frames)
      /\ DOMAIN Append(f, c) = 1 .. m + 1 /\ Len(Append(f, c)) = m + 1
      /\ \A k \in 1 .. m : Append(f, c)[k] = f[k]
      /\ Append(f, c)[m + 1] = c
  BY <1>5, <1>6, AppendFacts
<1>8. caller = Append(f, c)
  BY <1>2
<1>9. \A k \in 1 .. m : caller[k] = compiling[k]
  BY <1>1, <1>2, <1>7, <1>8
<1>10. caller[n].item = compiling[n].item
  BY <1>1, <1>2, <1>5, <1>6, <1>7, <1>8
<1>11. \A k \in 1 .. n : k \in 1 .. m \/ k = n
  BY <1>6
<1> QED BY <1>1, <1>6, <1>7, <1>8, <1>9, <1>10, <1>11

\* While the loader stays where it is, or goes on, what is known keeps its source.
LEMMA SourcesStay ==
  ASSUME Sources, UNCHANGED <<program, table, groups, loaded, phase, position>>, types \subseteq types'
  PROVE  \A e \in known : Source(e)'
<1>1. \A p \in DOMAIN Phases, q \in DOMAIN Group : Done(p, q) => p < phase' \/ (p = phase' /\ q < position')
  BY DEF Done
<1>2. phase # 0 => phase' # 0
  OBVIOUS
<1> SUFFICES ASSUME NEW e \in known PROVE Source(e)'
  OBVIOUS
<1>3. Source(e)
  BY DEF Sources
<1> QED BY <1>1, <1>2, <1>3, SourceKept

\* The same for the next item or phase.
LEMMA SourcesAdvance ==
  ASSUME SortInv, Running, loaded \in Nat, loaded < Len(groups), phase \in DOMAIN Phases, position \in DOMAIN Group,
         Sources, UNCHANGED <<program, table, groups, loaded>>, Advance, types \subseteq types'
  PROVE  \A e \in known : Source(e)'
<1>1. /\ phase' # 0
      /\ \A p \in DOMAIN Phases, q \in DOMAIN Group :
              (p < phase' \/ (p = phase' /\ q < position')) <=> Done(p, q) \/ (p = phase /\ q = position)
  BY AdvanceFacts
<1>2. \A p \in DOMAIN Phases, q \in DOMAIN Group : Done(p, q) => p < phase' \/ (p = phase' /\ q < position')
  BY <1>1
<1>3. phase # 0 => phase' # 0
  BY <1>1
<1> SUFFICES ASSUME NEW e \in known PROVE Source(e)'
  OBVIOUS
<1>4. Source(e)
  BY DEF Sources
<1> QED BY <1>2, <1>3, <1>4, SourceKept

\* Where the loader is in the phase of the types.
LEMMA InTypesFacts ==
  ASSUME SortInv, LoadInv, Running, InTypes
  PROVE  /\ ~sorting /\ loaded < Len(groups) /\ loaded \in Nat /\ phase \in DOMAIN Phases /\ phase # 0
         /\ position \in DOMAIN Group /\ Phases[phase] = "types"
         /\ LoadTypes /\ Stage /\ Compiling /\ Sources /\ SortTypes
<1>1. ~sorting /\ loaded < Len(groups) /\ phase \in DOMAIN Phases /\ Phases[phase] = "types"
  BY DEF InTypes, InPhase, Loading, Phase
<1>2. LoadTypes /\ Stage /\ Compiling /\ Sources /\ SortTypes
  BY DEF LoadInv, SortInv
<1>3. loaded \in Nat /\ phase # 0
  BY <1>1, <1>2, PhasesLength DEF LoadTypes
<1>4. position \in DOMAIN Group
  BY <1>1, <1>2 DEF Stage
<1> QED BY <1>1, <1>2, <1>3, <1>4

\* The invariant after a step that stays where it is.
LEMMA StayInTypes ==
  ASSUME SortInv, LoadInv, Running, InTypes, Running', Stay,
         UNCHANGED <<program, table, file, sorting, roots, frames, preorders, counter, unassigned, maybe, sccs, groups>>,
         UNCHANGED loaded, compiling' \in Seq(Frames), Compiling', types \subseteq types',
         \A e \in known' : e \in known \/ (e[1] = "type" /\ e[2] \in types')
  PROVE  LoadInv' /\ LoadedOnce'
<1>1. /\ ~sorting /\ loaded < Len(groups) /\ loaded \in Nat /\ phase \in DOMAIN Phases /\ phase # 0
      /\ position \in DOMAIN Group /\ Phases[phase] = "types"
      /\ LoadTypes /\ Stage /\ Compiling /\ Sources /\ SortTypes
  BY InTypesFacts
<1>2. UNCHANGED <<phase, position>>
  BY DEF Stay
<1>3. LoadTypes'
  BY <1>1, <1>2 DEF LoadTypes
<1>4. InTypes' /\ Group' = Group
  BY <1>1, <1>2 DEF InTypes, InPhase, Loading, Phase, Group
<1>5. Stage'
  BY <1>1, <1>2, <1>4 DEF Stage
<1>6. \A e \in known : Source(e)'
  BY <1>1, <1>2, SourcesStay
<1>7. Sources'
  BY <1>1, <1>2, <1>6 DEF Sources, Source
<1> QED BY <1>3, <1>5, <1>7, LoadGoesOn

\* The invariant after a step to the next item.
LEMMA AdvanceInTypes ==
  ASSUME SortInv, LoadInv, Running, InTypes, Running', Advance,
         UNCHANGED <<program, table, file, sorting, roots, frames, preorders, counter, unassigned, maybe, sccs, groups>>,
         UNCHANGED loaded, compiling' = <<>>, types \subseteq types',
         \A x \in types' : x \in ToSet(Group) /\ <<"type", x>> \in known',
         \A e \in known' : e \in known \/ (e[1] = "type" /\ e[2] \in types')
  PROVE  LoadInv' /\ LoadedOnce'
<1>1. /\ ~sorting /\ loaded < Len(groups) /\ loaded \in Nat /\ phase \in DOMAIN Phases /\ phase # 0
      /\ position \in DOMAIN Group /\ Phases[phase] = "types"
      /\ LoadTypes /\ Stage /\ Compiling /\ Sources /\ SortTypes
  BY InTypesFacts
<1>2. /\ phase' # 0 /\ phase' \in 0 .. Len(Phases) + 1 /\ position' \in Nat \ {0} /\ Group' = Group
      /\ phase' = Len(Phases) + 1 => position' = 1
      /\ phase' \in DOMAIN Phases => position' \in DOMAIN Group
  BY <1>1, AdvanceFacts
<1>3. \A s : s = <<>> => DOMAIN s = {} /\ s \in Seq(Frames)
  OBVIOUS
<1>4. DOMAIN compiling' = {} /\ compiling' \in Seq(Frames)
  BY <1>3
<1>5. LoadTypes'
  BY <1>1, <1>2, <1>4 DEF LoadTypes
<1>6. Stage'
  BY <1>1, <1>2 DEF Stage
<1>7. Compiling'
  BY <1>2, <1>4 DEF Compiling
<1>8. \A e \in known : Source(e)'
  BY <1>1, SourcesAdvance
<1>9. Sources'
  BY <1>2, <1>8 DEF Sources, Source
<1> QED BY <1>5, <1>6, <1>7, <1>9, LoadGoesOn

\* The next item of the group is compiled, unless that is done.
LEMMA TypesItemStep ==
  ASSUME SortInv, LoadInv, Running, TypesItem,
         UNCHANGED <<program, table, file, sorting, roots, frames, preorders, counter, unassigned, maybe, sccs, groups>>
  PROVE  LoadInv' /\ LoadedOnce'
<1>1. InTypes /\ compiling = <<>> /\ UNCHANGED <<loaded, types, known, inherited, fatal>>
  BY DEF TypesItem
<1>2. /\ ~sorting /\ loaded < Len(groups) /\ loaded \in Nat /\ phase \in DOMAIN Phases /\ phase # 0
      /\ position \in DOMAIN Group /\ Phases[phase] = "types"
      /\ LoadTypes /\ Stage /\ Compiling /\ Sources /\ SortTypes
  BY <1>1, InTypesFacts
<1>3. Running'
  BY <1>1 DEF Running
<1>4. Group' = Group
  BY <1>1 DEF Group
<1>5. \A x \in types' : x \in ToSet(Group) /\ <<"type", x>> \in known'
  BY <1>1, <1>2 DEF Compiling
<1>6. PICK i : i = Group[position]
  OBVIOUS
<1>7. CASE compiling' = Call(i, compiling) /\ Stay /\ i \notin types
  <2>1. i \in Items /\ Parsed(Item(i)) /\ i \in ToSet(Group)
    BY <1>2, <1>6, GroupFacts
  <2>2. compiling \in Seq(Frames)
    BY <1>2 DEF LoadTypes
  <2>3. PICK n : n = Len(compiling)
    OBVIOUS
  <2>4. n = 0
    BY <1>1, <2>3
  <2>5. /\ Call(i, compiling) \in Seq(Frames) /\ DOMAIN Call(i, compiling) = 1 .. n + 1
        /\ Call(i, compiling)[n + 1].item = i
    BY <2>1, <2>2, <2>3, CallFacts
  <2>6. compiling' \in Seq(Frames) /\ DOMAIN compiling' = 1 .. 1 /\ compiling'[1].item = i
    BY <1>7, <2>4, <2>5
  <2>7. \A k \in DOMAIN compiling' : k = 1
    BY <2>6
  <2>8. Compiling'
    BY <1>1, <1>4, <1>5, <1>7, <2>1, <2>6, <2>7 DEF Compiling
  <2> QED BY <1>1, <1>3, <1>7, <2>6, <2>8, StayInTypes
<1>8. CASE Advance /\ UNCHANGED compiling
  BY <1>1, <1>3, <1>5, <1>8, AdvanceInTypes
<1> QED BY <1>6, <1>7, <1>8 DEF TypesItem

\* A call for a type the top call names, when it is not there.
LEMMA TypeReferentStep ==
  ASSUME SortInv, LoadInv, Running, TypeReferent,
         UNCHANGED <<program, table, file, sorting, roots, frames, preorders, counter, unassigned, maybe, sccs, groups>>
  PROVE  LoadInv' /\ LoadedOnce'
<1>1. InTypes /\ compiling # <<>> /\ Last(compiling).left # <<>> /\ Stay /\ UNCHANGED <<loaded, types, known, inherited>>
  BY DEF TypeReferent
<1>2. /\ ~sorting /\ loaded < Len(groups) /\ loaded \in Nat /\ phase \in DOMAIN Phases /\ phase # 0
      /\ position \in DOMAIN Group /\ Phases[phase] = "types"
      /\ LoadTypes /\ Stage /\ Compiling /\ Sources /\ SortTypes
  BY <1>1, InTypesFacts
<1>3. PICK caller, n, t : /\ caller = Append(Front(compiling), [Last(compiling) EXCEPT !.left = Tail(@)])
                          /\ n = Len(compiling) /\ t = Head(Last(compiling).left)
  OBVIOUS
<1>4. compiling \in Seq(Frames)
  BY <1>2 DEF LoadTypes
<1>5. /\ n \in Nat \ {0} /\ DOMAIN compiling = 1 .. n /\ caller \in Seq(Frames) /\ Len(caller) = n
      /\ DOMAIN caller = 1 .. n
      /\ \A k \in 1 .. n : caller[k].item = compiling[k].item
  BY <1>1, <1>3, <1>4, CallerFacts
<1>6. Group' = Group /\ phase' # 0
  BY <1>1, <1>2 DEF Group, Stay
<1>7. /\ \A k \in 1 .. n : compiling[k].item \in ToSet(Group) /\ compiling[k].item \notin types
      /\ \A k, l \in 1 .. n : compiling[k].item = compiling[l].item => k = l
      /\ \A x \in types : x \in ToSet(Group) /\ <<"type", x>> \in known
  BY <1>2, <1>5 DEF Compiling
<1>8. CASE compiling' = caller /\ UNCHANGED fatal
  <2>1. Running'
    BY <1>8 DEF Running
  <2>2. \A k \in DOMAIN compiling' : compiling'[k].item \in ToSet(Group') /\ compiling'[k].item \notin types'
    BY <1>1, <1>5, <1>6, <1>7, <1>8
  <2>3. \A k, l \in DOMAIN compiling' : compiling'[k].item = compiling'[l].item => k = l
    BY <1>5, <1>7, <1>8
  <2>4. \A x \in types' : x \in ToSet(Group') /\ <<"type", x>> \in known'
    BY <1>1, <1>6, <1>7
  <2>5. Compiling'
    BY <2>2, <2>3, <2>4 DEF Compiling
  <2> QED BY <1>1, <1>5, <1>8, <2>1, <2>5, StayInTypes
<1>9. CASE \E i, e : Fatal("unknown", i, e)
  BY <1>9, FatalEnds
<1>10. CASE \E i, e : Fatal("loop", i, e)
  BY <1>10, FatalEnds
<1>11. CASE /\ <<"type", t>> \notin known /\ t \in ToSet(Group) /\ ~ \E k \in DOMAIN compiling : compiling[k].item = t
            /\ compiling' = Call(t, caller) /\ UNCHANGED fatal
  <2>1. t \in Items /\ Parsed(Item(t)) /\ t \notin types
    BY <1>2, <1>7, <1>11, GroupFacts
  <2>2. /\ Call(t, caller) \in Seq(Frames) /\ DOMAIN Call(t, caller) = 1 .. n + 1
        /\ \A k \in 1 .. n : Call(t, caller)[k] = caller[k]
        /\ Call(t, caller)[n + 1].item = t
    <3>1. caller \in Seq(Frames) /\ n = Len(caller) /\ t \in Items /\ Parsed(Item(t))
      BY <1>5, <2>1
    <3>2. /\ Call(t, caller) \in Seq(Frames) /\ n \in Nat /\ DOMAIN Call(t, caller) = 1 .. n + 1
          /\ DOMAIN caller = 1 .. n /\ \A k \in 1 .. n : Call(t, caller)[k] = caller[k]
          /\ Call(t, caller)[n + 1].item = t
      BY <3>1, CallFacts
    <3> QED BY <3>2
  <2>3. /\ compiling' \in Seq(Frames) /\ DOMAIN compiling' = 1 .. n + 1 /\ compiling'[n + 1].item = t
        /\ \A k \in 1 .. n : compiling'[k].item = compiling[k].item
    BY <1>5, <1>11, <2>2
  <2>4. \A k \in DOMAIN compiling' : k \in 1 .. n \/ k = n + 1
    BY <1>5, <2>3
  <2>5. \A k \in DOMAIN compiling' : compiling'[k].item \in ToSet(Group') /\ compiling'[k].item \notin types'
    BY <1>1, <1>6, <1>7, <1>11, <2>1, <2>3, <2>4
  <2>6. ASSUME NEW k \in DOMAIN compiling', NEW l \in DOMAIN compiling', compiling'[k].item = compiling'[l].item PROVE k = l
    <3>1. \A j \in 1 .. n : compiling'[j].item # t
      BY <1>5, <1>11, <2>3
    <3>2. CASE k \in 1 .. n /\ l \in 1 .. n
      BY <1>7, <2>3, <2>6, <3>2
    <3>3. CASE k = n + 1 \/ l = n + 1
      BY <2>3, <2>4, <2>6, <3>1, <3>3
    <3> QED BY <2>4, <3>2, <3>3
  <2>7. \A x \in types' : x \in ToSet(Group') /\ <<"type", x>> \in known'
    BY <1>1, <1>6, <1>7
  <2>8. Compiling'
    BY <2>5, <2>6, <2>7 DEF Compiling
  <2>9. Running'
    BY <1>11 DEF Running
  <2> QED BY <1>1, <1>11, <2>3, <2>8, <2>9, StayInTypes
<1>12. CASE <<"type", t>> \in known
  BY <1>3, <1>8, <1>12 DEF TypeReferent
<1>13. CASE <<"type", t>> \notin known
  BY <1>3, <1>9, <1>10, <1>11, <1>13 DEF TypeReferent
<1> QED BY <1>12, <1>13

\* A type is compiled once.
LEMMA TypeDoneStep ==
  ASSUME SortInv, LoadInv, Running, TypeDone,
         UNCHANGED <<program, table, file, sorting, roots, frames, preorders, counter, unassigned, maybe, sccs, groups>>
  PROVE  LoadInv' /\ LoadedOnce'
<1>1. PICK i, n, front, e : i = Last(compiling).item /\ n = Len(compiling) /\ front = Front(compiling) /\ e = <<"type", i>>
  OBVIOUS
<1>2. /\ InTypes /\ compiling # <<>> /\ UNCHANGED <<loaded, inherited>> /\ Enter({e}, i) /\ types' = types \cup {i}
      /\ compiling' = front /\ IF n = 1 THEN Advance ELSE Stay
  BY <1>1 DEF TypeDone
<1>3. /\ ~sorting /\ loaded < Len(groups) /\ loaded \in Nat /\ phase \in DOMAIN Phases /\ phase # 0
      /\ position \in DOMAIN Group /\ Phases[phase] = "types"
      /\ LoadTypes /\ Stage /\ Compiling /\ Sources /\ SortTypes
  BY <1>2, InTypesFacts
<1>4. compiling \in Seq(Frames)
  BY <1>3 DEF LoadTypes
<1>5. /\ n \in Nat \ {0} /\ DOMAIN compiling = 1 .. n /\ n \in DOMAIN compiling
      /\ Last(compiling) = compiling[n]
      /\ Front(compiling) \in Seq(Frames) /\ Len(Front(compiling)) = n - 1 /\ DOMAIN Front(compiling) = 1 .. n - 1
      /\ \A k \in 1 .. n - 1 : Front(compiling)[k] = compiling[k]
  BY <1>1, <1>2, <1>4, FrontLast
<1>6. /\ \A k \in 1 .. n : compiling[k].item \in ToSet(Group) /\ compiling[k].item \notin types
      /\ \A k, l \in 1 .. n : compiling[k].item = compiling[l].item => k = l
      /\ \A x \in types : x \in ToSet(Group) /\ <<"type", x>> \in known
  BY <1>3, <1>5 DEF Compiling
<1>7. i = compiling[n].item /\ i \in ToSet(Group) /\ i \notin types /\ e[1] = "type" /\ e[2] = i
  BY <1>1, <1>5, <1>6
<1>8. e \notin known
  <2> SUFFICES ASSUME e \in known PROVE FALSE
    OBVIOUS
  <2>1. PICK p \in DOMAIN Phases, q \in DOMAIN Group : e \in Sets(Phases[p], Group[q], Item(Group[q]))
    BY <1>3, <1>7, MadeForItsOwn
  <2>2. PICK x, it : x = Group[q] /\ it = Item(Group[q])
    OBVIOUS
  <2>3. Parsed(it) /\ e \in Sets(Phases[p], x, it)
    BY <1>3, <2>1, <2>2, GroupFacts
  <2>4. MadeIn(p, it, e)
    BY <2>3, SetsFacts
  <2> QED BY <1>7, <2>4 DEF MadeIn
<1>9. known' = known \cup {e} /\ fatal' = fatal
  BY <1>2, <1>8 DEF Enter
<1>10. Running' /\ Group' = Group
  BY <1>2, <1>9 DEF Running, Group
<1>11. \A x \in types' : x \in ToSet(Group) /\ <<"type", x>> \in known'
  BY <1>1, <1>2, <1>6, <1>7, <1>9
<1>12. \A x \in known' : x \in known \/ (x[1] = "type" /\ x[2] \in types')
  BY <1>2, <1>7, <1>9
<1>13. types \subseteq types'
  BY <1>2
<1>14. CASE n = 1
  <2>1. front = <<>>
    BY <1>1, <1>5, <1>14
  <2> QED BY <1>2, <1>10, <1>11, <1>12, <1>13, <1>14, <2>1, AdvanceInTypes
<1>15. CASE n # 1
  <2>1. compiling' \in Seq(Frames) /\ DOMAIN compiling' = 1 .. n - 1 /\ \A k \in 1 .. n - 1 : compiling'[k] = compiling[k]
    BY <1>1, <1>2, <1>5
  <2>2. \A k \in 1 .. n - 1 : k \in 1 .. n /\ k # n /\ n \in 1 .. n
    BY <1>5
  <2>3. \A k \in DOMAIN compiling' : compiling'[k].item \in ToSet(Group') /\ compiling'[k].item \notin types'
    BY <1>2, <1>6, <1>7, <1>10, <2>1, <2>2
  <2>4. \A k, l \in DOMAIN compiling' : compiling'[k].item = compiling'[l].item => k = l
    BY <1>6, <2>1, <2>2
  <2>5. Compiling'
    BY <1>10, <1>11, <2>3, <2>4 DEF Compiling
  <2> QED BY <1>2, <1>10, <1>12, <1>13, <1>15, <2>1, <2>5, StayInTypes
<1> QED BY <1>14, <1>15

-----------------------------------------------------------------------------
(* The steps of the sort, and the next file *)

\* While the file is sorted the loader is before the first phase of the next group, and what
\* is known is of the groups that are loaded.
LEMMA WhileSorting ==
  ASSUME LoadInv, Running, sorting
  PROVE  /\ phase = 0 /\ position = 1 /\ compiling = <<>> /\ loaded \in Nat /\ loaded <= Len(groups)
         /\ \A e \in known : \E k \in 1 .. loaded : e[2] \in ToSet(groups[k])
<1>1. LoadTypes /\ Stage /\ Compiling /\ Sources
  BY DEF LoadInv
<1>2. phase = 0
  BY <1>1 DEF Stage
<1>3. position = 1 /\ compiling = <<>>
  BY <1>1, <1>2, PhasesLength DEF Stage, InTypes, InPhase
<1>4. loaded \in Nat /\ loaded <= Len(groups)
  BY <1>1 DEF LoadTypes
<1>5. \A e \in known : \E k \in 1 .. loaded : e[2] \in ToSet(groups[k])
  BY <1>1, <1>2 DEF Sources, Source
<1> QED BY <1>2, <1>3, <1>4, <1>5

\* The invariant of the loader does not depend on more of the sort than its groups.
LEMMA SortLoads ==
  ASSUME LoadInv, Running, sorting, UNCHANGED load, fatal' = fatal,
         Len(groups') \in Nat, loaded <= Len(groups'), \A k \in 1 .. loaded : groups'[k] = groups[k]
  PROVE  LoadInv' /\ LoadedOnce'
<1>1. /\ phase = 0 /\ position = 1 /\ compiling = <<>> /\ loaded \in Nat /\ loaded <= Len(groups)
      /\ \A e \in known : \E k \in 1 .. loaded : e[2] \in ToSet(groups[k])
  BY WhileSorting
<1>2. Running' /\ UNCHANGED <<loaded, phase, position, types, compiling, known, inherited>>
  BY DEF Running, load
<1>3. compiling \in Seq(Frames) /\ DOMAIN compiling = {}
  BY <1>1, NothingCalled DEF LoadInv, LoadTypes
<1>4. LoadTypes'
  BY <1>1, <1>2, <1>3, PhasesLength DEF LoadTypes
<1>5. Stage'
  BY <1>1, <1>2, PhasesLength DEF Stage
<1>6. Compiling'
  BY <1>1, <1>2, <1>3 DEF Compiling
<1>7. Sources'
  BY <1>1, <1>2 DEF Sources, Source
<1> QED BY <1>2, <1>4, <1>5, <1>6, <1>7, LoadGoesOn

\* No item gets a second group, and the stack of calls is for items of the table.
LEMMA SortLoadStep ==
  ASSUME SortInv, LoadInv, Running, Sort, UNCHANGED load
  PROVE  LoadInv' /\ LoadedOnce'
<1>1. SortTypes /\ Idle
  BY DEF SortInv
<1>2. sorting
  BY <1>1 DEF Sort, SortRoot, SortDone, OutgoingEdge, FinishItem, Idle
<1>3. loaded \in Nat /\ loaded <= Len(groups) /\ Len(groups) \in Nat
  BY <1>1, <1>2, WhileSorting DEF SortTypes
<1>4. CASE UNCHANGED groups /\ UNCHANGED fatal
  BY <1>2, <1>3, <1>4, SortLoads
<1>5. CASE \E i, e : Fatal("stack full", i, e)
  BY <1>5, FatalEnds
<1>6. CASE \E i, e : Fatal("no item", i, e)
  BY <1>6, FatalEnds
<1>7. CASE SortRoot
  <2>1. UNCHANGED fatal \/ \E left : Visit(Head(roots), left)
    BY <1>7 DEF SortRoot
  <2>2. UNCHANGED fatal \/ Fatal("stack full", Head(roots), <<>>)
    BY <2>1 DEF Visit
  <2> QED BY <1>4, <1>5, <1>7, <2>2 DEF SortRoot
<1>8. CASE SortDone
  BY <1>4, <1>8 DEF SortDone
<1>9. CASE OutgoingEdge
  <2>1. PICK i : i = Head(Last(frames).left)
    OBVIOUS
  <2>2. \/ UNCHANGED fatal \/ Fatal("no item", Last(frames).item, i)
        \/ \E left : Visit(i, left)
    BY <1>9, <2>1 DEF OutgoingEdge
  <2>3. \/ UNCHANGED fatal \/ Fatal("no item", Last(frames).item, i)
        \/ Fatal("stack full", i, <<>>)
    BY <2>2 DEF Visit
  <2> QED BY <1>4, <1>5, <1>6, <1>9, <2>3 DEF OutgoingEdge
<1>10. CASE FinishItem
  <2>1. CASE ~(maybe # <<>> /\ Last(maybe) = Last(frames).item)
    BY <1>4, <1>10, <2>1 DEF FinishItem
  <2>2. CASE maybe # <<>> /\ Last(maybe) = Last(frames).item
    <3>1. PICK g, c : g = GroupFrom(PlaceOf(Last(frames).item)) /\ c = Len(groups)
      OBVIOUS
    <3>2. /\ fatal' = fatal /\ c \in Nat /\ Len(groups') = c + 1
          /\ \A j \in 1 .. c : groups'[j] = groups[j]
      BY <1>10, <2>2, <3>1, GroupMade
    <3>3. \A k \in 1 .. loaded : k \in 1 .. c
      BY <1>3, <3>1, <3>2
    <3> QED BY <1>2, <1>3, <3>1, <3>2, <3>3, SortLoads
  <2> QED BY <2>1, <2>2
<1> QED BY <1>7, <1>8, <1>9, <1>10 DEF Sort

\* The next file, with the table as it is or with one in which nothing is known.
LEMMA NextFileStep ==
  ASSUME SortInv, LoadInv, Running, NextFile
  PROVE  LoadInv' /\ LoadedOnce'
<1>1. LoadTypes /\ Stage /\ Compiling /\ Sources /\ SortTypes
  BY DEF LoadInv, SortInv
<1>2. /\ loaded = Len(groups) /\ fatal' = fatal /\ program' = program
      /\ \/ /\ table' = table /\ UNCHANGED load /\ UNCHANGED groups
         \/ /\ loaded' = 0 /\ known' = {} /\ groups' = <<>>
            /\ UNCHANGED <<phase, position, types, compiling>>
  BY DEF NextFile, SortFile
<1>3. loaded \in Nat
  BY <1>1 DEF LoadTypes
<1>4. phase = 0
  BY <1>1, <1>2, <1>3 DEF Stage
<1>5. position = 1 /\ compiling = <<>>
  BY <1>1, <1>4, PhasesLength DEF Stage, InTypes, InPhase
<1>6. compiling \in Seq(Frames) /\ DOMAIN compiling = {}
  BY <1>1, <1>5, NothingCalled DEF LoadTypes
<1>7. UNCHANGED <<phase, position, types, compiling>> /\ loaded' = Len(groups') /\ loaded' \in Nat
  BY <1>2, <1>3 DEF load
<1>8. Running'
  BY <1>2 DEF Running
<1>9. LoadTypes'
  BY <1>4, <1>5, <1>6, <1>7, PhasesLength DEF LoadTypes
<1>10. Stage'
  BY <1>4, <1>5, <1>7, PhasesLength DEF Stage
<1>11. Compiling'
  BY <1>4, <1>6, <1>7 DEF Compiling
<1>12. \A e \in known : \E k \in 1 .. loaded : e[2] \in ToSet(groups[k])
  BY <1>1, <1>4 DEF Sources, Source
<1>13. Sources'
  <2>1. CASE UNCHANGED load /\ UNCHANGED groups
    BY <1>12, <2>1 DEF Sources, Source, load
  <2>2. CASE known' = {}
    BY <2>2 DEF Sources
  <2> QED BY <1>2, <2>1, <2>2
<1> QED BY <1>8, <1>9, <1>10, <1>11, <1>13, LoadGoesOn

\* Nothing is known at the start.
LEMMA LoadInitFacts ==
  ASSUME Init
  PROVE  LoadInv /\ LoadedOnce
<1>1. /\ loaded = 0 /\ phase = 0 /\ position = 1 /\ types = {} /\ compiling = <<>> /\ known = {}
      /\ groups = <<>> /\ fatal = <<>>
  BY DEF Init, LoadInit, OrderInit
<1>2. compiling \in Seq(Frames) /\ DOMAIN compiling = {} /\ Len(groups) = 0
  BY <1>1, NothingCalled
<1>3. LoadTypes
  BY <1>1, <1>2, PhasesLength DEF LoadTypes
<1>4. Stage
  BY <1>1, PhasesLength DEF Stage
<1>5. Compiling /\ Sources
  BY <1>1, <1>2 DEF Compiling, Sources
<1> QED BY <1>1, <1>3, <1>4, <1>5 DEF LoadInv, LoadedOnce, Running

\* What is known has one source, and the loader never enters, groups or misses what it promises
\* not to.
LEMMA LoadStep ==
  ASSUME SortInv, LoadInv, LoadedOnce, [Next]_vars
  PROVE  LoadInv' /\ LoadedOnce'
<1>1. CASE ~Running
  <2>1. UNCHANGED vars
    BY <1>1 DEF Next, NextFile, SortFile, Sort, SortRoot, SortDone, OutgoingEdge, FinishItem, LoadGroup,
                BeginGroup, PhaseItem, TypesItem, TypeReferent, TypeDone, EndGroup, InTypes, InPhase, Loading,
                Terminated
  <2>2. fatal' = fatal
    BY <2>1 DEF vars, order
  <2> QED BY <1>1, <2>2 DEF LoadInv, LoadedOnce, Running
<1>2. CASE Running
  <2>1. CASE NextFile
    BY <1>2, <2>1, NextFileStep
  <2>2. CASE Sort /\ UNCHANGED load
    BY <1>2, <2>2, SortLoadStep
  <2>3. CASE LoadGroup /\ UNCHANGED <<program, table, file, sorting, roots, frames, preorders, counter,
                                      unassigned, maybe, sccs, groups>>
    BY <1>2, <2>3, BeginGroupStep, PhaseItemStep, TypesItemStep, TypeReferentStep, TypeDoneStep, EndGroupStep
       DEF LoadGroup
  <2>4. CASE UNCHANGED vars
    <3>1. UNCHANGED <<order, load>>
      BY <2>4 DEF vars
    <3>2. UNCHANGED <<program, table, file, sorting, groups, fatal, loaded, phase, position, types, compiling, known>>
      BY <3>1 DEF order, load
    <3>3. LoadTypes /\ Stage /\ Compiling /\ Sources
      BY <1>2 DEF LoadInv
    <3>4. Running' /\ Group' = Group /\ (InTypes' <=> InTypes)
      BY <1>2, <3>2 DEF Running, Group, InTypes, InPhase, Loading, Phase
    <3>5. LoadTypes' /\ Stage' /\ Compiling'
      BY <3>2, <3>3, <3>4 DEF LoadTypes, Stage, Compiling
    <3>6. \A e \in known : Source(e)'
      BY <3>2, <3>3, SourcesStay
    <3>7. Sources'
      BY <3>2, <3>6 DEF Sources
    <3> QED BY <3>4, <3>5, <3>7, LoadGoesOn
  <2> QED BY <2>1, <2>2, <2>3, <2>4 DEF Next, Terminated
<1> QED BY <1>1, <1>2

\* The invariant of the loader, for every program that is loaded.
THEOREM LoadInductive == Spec => []LoadInv
<1>1. Init => LoadInv /\ LoadedOnce
  BY LoadInitFacts
<1>2. SortInv /\ LoadInv /\ LoadedOnce /\ [Next]_vars => LoadInv' /\ LoadedOnce'
  BY LoadStep
<1> QED BY <1>1, <1>2, SortInductive, PTL DEF Spec

\* No group and no entry is set a second time, no group is larger than the arrays, and the last
\* group of a document is the one of its entry: gssymtable_set_scc, gssymtable_set and
\* gsload_scc never give up for that.
THEOREM LoadedOnceAlways == Spec => []LoadedOnce
<1>1. Init => LoadInv /\ LoadedOnce
  BY LoadInitFacts
<1>2. SortInv /\ LoadInv /\ LoadedOnce /\ [Next]_vars => LoadInv' /\ LoadedOnce'
  BY LoadStep
<1> QED BY <1>1, <1>2, SortInductive, PTL DEF Spec

-----------------------------------------------------------------------------
(* Who needs the code of a group *)

\* A code item is visited for an item that is below it on the stack.
UsedOnStack ==
  \A k \in DOMAIN unassigned : IsCode(Item(unassigned[k])) =>
    \E j \in DOMAIN unassigned : j < k /\ unassigned[k] \in Needed(unassigned[j])

\* So it comes before that one in its group, or that one is outside of it.
UsedInGroups ==
  \A k \in DOMAIN groups : \A a \in DOMAIN groups[k] : IsCode(Item(groups[k][a])) =>
    \/ \E b \in DOMAIN groups[k] : a < b /\ groups[k][a] \in Needed(groups[k][b])
    \/ \E y \in Items : Named(y) /\ y \notin ToSet(groups[k]) /\ groups[k][a] \in Needed(y)

\* The invariant of the sort that says for whom code is in a group.
UsedInv == Running => UsedOnStack /\ UsedInGroups

\* A step that leaves the stack alone.
LEMMA SameUsedOnStack ==
  ASSUME UNCHANGED <<program, table, unassigned>>, UsedOnStack
  PROVE  UsedOnStack'
BY DEF UsedOnStack, Needed, Item, ItemOf

\* A step that makes no group.
LEMMA SameUsedInGroups ==
  ASSUME UNCHANGED <<program, table, groups>>, UsedInGroups
  PROVE  UsedInGroups'
BY DEF UsedInGroups, Needed, Item, ItemOf, Named

\* An item is visited for one on the stack, or it is no code.
LEMMA VisitUsed ==
  ASSUME SortTypes, UsedOnStack, UNCHANGED <<program, table>>, NEW i \in Items,
         unassigned' = Append(unassigned, i),
         IsCode(Item(i)) => \E j \in DOMAIN unassigned : i \in Needed(unassigned[j])
  PROVE  UsedOnStack'
<1>1. PICK n, s, u : n = Len(unassigned) /\ s = unassigned /\ u = Append(s, i)
  OBVIOUS
<1>2. s \in Seq(Items) /\ n = Len(s)
  BY <1>1 DEF SortTypes
<1>3. /\ Append(s, i) \in Seq(Items) /\ n \in Nat /\ DOMAIN s = 1 .. n
      /\ DOMAIN Append(s, i) = 1 .. n + 1 /\ Len(Append(s, i)) = n + 1
      /\ \A k \in 1 .. n : Append(s, i)[k] = s[k]
      /\ Append(s, i)[n + 1] = i
      /\ ToSet(Append(s, i)) = ToSet(s) \cup {i}
      /\ Append(s, i) # <<>>
  BY <1>2, AppendFacts
<1>4. unassigned' = u /\ DOMAIN u = 1 .. n + 1 /\ u[n + 1] = i /\ \A k \in 1 .. n : u[k] = s[k]
  BY <1>1, <1>3
<1>5. \A x : Item(x)' = Item(x) /\ Needed(x)' = Needed(x)
  BY SameTable
<1>6. ASSUME NEW k \in 1 .. n + 1, IsCode(Item(u[k]))
      PROVE  \E j \in 1 .. n + 1 : j < k /\ u[k] \in Needed(u[j])
  <2>1. CASE k = n + 1
    <3>1. PICK j \in DOMAIN unassigned : i \in Needed(unassigned[j])
      BY <1>4, <1>6, <2>1
    <3>2. j \in 1 .. n
      BY <1>1, <1>3, <3>1
    <3>3. u[j] = unassigned[j] /\ j < k /\ j \in 1 .. n + 1 /\ u[k] = i
      BY <1>1, <1>3, <1>4, <2>1, <3>2
    <3> QED BY <3>1, <3>3
  <2>2. CASE k # n + 1
    <3>1. k \in 1 .. n
      BY <1>3, <2>2
    <3>2. u[k] = s[k]
      BY <1>4, <3>1
    <3>3. PICK j \in DOMAIN s : j < k /\ s[k] \in Needed(s[j])
      BY <1>1, <1>3, <1>6, <3>1, <3>2 DEF UsedOnStack
    <3>4. j \in 1 .. n
      BY <1>3, <3>3
    <3>5. u[j] = s[j] /\ j \in 1 .. n + 1
      BY <1>3, <1>4, <3>4
    <3> QED BY <3>2, <3>3, <3>5
  <2> QED BY <2>1, <2>2
<1>7. \A k \in 1 .. n + 1 : IsCode(Item(u[k])) => \E j \in 1 .. n + 1 : j < k /\ u[k] \in Needed(u[j])
  BY <1>6
<1> QED BY <1>4, <1>7 DEF UsedOnStack, Needed, Item, ItemOf

\* What comes off the stack as a group is what was put there last, the last of it first.
LEMMA PopUsed ==
  ASSUME SortTypes, Path, Stacks, UsedOnStack, UsedInGroups, Grouping, maybe # <<>>,
         NEW x, x = Last(maybe), NEW k, k = PlaceOf(x), UNCHANGED <<program, table>>,
         unassigned' = SubSeq(unassigned, 1, k - 1),
         NEW g, g = GroupFrom(k), groups' = Append(groups, g)
  PROVE  UsedOnStack' /\ UsedInGroups'
<1>1. PICK n, s, t, m : n = Len(unassigned) /\ s = unassigned /\ t = SubSeq(unassigned, 1, k - 1) /\ m = n - k + 1
  OBVIOUS
<1>2. s \in Seq(Items) /\ n = Len(s) /\ n \in Nat /\ DOMAIN s = 1 .. n
  BY <1>1, Lengths DEF SortTypes
<1>3. /\ k \in 1 .. n /\ g \in Seq(Items)
      /\ ToSet(g) = {y \in Active : preorders[x] <= preorders[y]}
      /\ DOMAIN t = 1 .. k - 1 /\ \A j \in 1 .. k - 1 : t[j] = s[j]
      /\ ToSet(t) = {y \in Active : preorders[y] < preorders[x]} /\ x \in Active
  <2>1. /\ k \in DOMAIN unassigned /\ unassigned[k] = x /\ x \in Active
        /\ GroupFrom(k) \in Seq(Items) /\ Len(GroupFrom(k)) \in 1 .. StackCapacity
        /\ \A p, q \in DOMAIN GroupFrom(k) : GroupFrom(k)[p] = GroupFrom(k)[q] => p = q
        /\ ToSet(GroupFrom(k)) = {y \in Active : preorders[x] <= preorders[y]}
        /\ SubSeq(unassigned, 1, k - 1) \in Seq(Items) /\ DOMAIN SubSeq(unassigned, 1, k - 1) = 1 .. k - 1
        /\ Len(SubSeq(unassigned, 1, k - 1)) = k - 1
        /\ \A j \in 1 .. k - 1 : SubSeq(unassigned, 1, k - 1)[j] = unassigned[j]
        /\ ToSet(SubSeq(unassigned, 1, k - 1)) = {y \in Active : preorders[y] < preorders[x]}
    BY PopFacts
  <2> QED BY <1>1, <1>2, <2>1
<1>4. m \in Nat /\ DOMAIN g = 1 .. m /\ \A a \in 1 .. m : g[a] = s[n - a + 1]
  <2>1. PICK c : c = SubSeq(s, k, n)
    OBVIOUS
  <2>2. k \in Nat /\ n \in Nat /\ m \in Nat /\ 1 <= k /\ n <= Len(s) /\ k <= n + 1 /\ m = n - k + 1
    BY <1>1, <1>2, <1>3
  <2>3. /\ SubSeq(s, k, n) \in Seq(Items) /\ Len(SubSeq(s, k, n)) = m
        /\ DOMAIN SubSeq(s, k, n) = 1 .. m
        /\ \A j \in 1 .. m : SubSeq(s, k, n)[j] = s[k + j - 1]
    <3>1. s \in Seq(Items) /\ k \in Nat /\ n \in Nat /\ m \in Nat /\ 1 <= k /\ n <= Len(s) /\ k <= n + 1 /\ m = n - k + 1
      BY <1>2, <2>2
    <3> QED BY <3>1, Cut
  <2>4. c \in Seq(Items) /\ Len(c) = m /\ \A j \in 1 .. m : c[j] = s[k + j - 1]
    BY <2>1, <2>3
  <2>5. /\ Reverse(c) \in Seq(Items) /\ Len(Reverse(c)) = Len(c) /\ DOMAIN Reverse(c) = 1 .. Len(c)
        /\ \A a \in 1 .. Len(c) : Reverse(c)[a] = c[Len(c) - a + 1]
        /\ ToSet(Reverse(c)) = ToSet(c)
    BY <2>4, ReverseFacts
  <2>6. g = Reverse(c)
    BY <1>1, <2>1 DEF GroupFrom
  <2>7. ASSUME NEW a \in 1 .. m PROVE g[a] = s[n - a + 1]
    <3>0. a \in Nat /\ 1 <= a /\ a <= m
      OBVIOUS
    <3>1. m - a + 1 \in 1 .. m /\ k + (m - a + 1) - 1 = n - a + 1
      <4>1. m - a + 1 \in 1 .. m
        BY <2>2, <3>0
      <4>2. k + (m - a + 1) - 1 = n - a + 1
        BY <2>2, <3>0
      <4> QED BY <4>1, <4>2
    <3>2. g[a] = c[m - a + 1]
      BY <2>4, <2>5, <2>6
    <3>3. c[m - a + 1] = s[k + (m - a + 1) - 1]
      BY <2>4, <3>1
    <3> QED BY <3>1, <3>2, <3>3
  <2> QED BY <2>2, <2>4, <2>5, <2>6, <2>7
<1>5. \A y : Item(y)' = Item(y) /\ Needed(y)' = Needed(y) /\ (Named(y)' <=> Named(y))
  BY SameTable
<1>6. UsedOnStack'
  <2>1. ASSUME NEW q \in 1 .. k - 1, IsCode(Item(t[q]))
        PROVE  \E j \in 1 .. k - 1 : j < q /\ t[q] \in Needed(t[j])
    <3>0. k \in Nat /\ k <= n /\ n \in Nat
      BY <1>2, <1>3
    <3>1. q \in 1 .. n /\ t[q] = s[q]
      <4>1. q \in 1 .. n
        BY <3>0
      <4> QED BY <1>3, <4>1
    <3>2. PICK j \in 1 .. n : j < q /\ s[q] \in Needed(s[j])
      BY <1>1, <1>2, <2>1, <3>1 DEF UsedOnStack
    <3>3. j \in 1 .. k - 1
      BY <1>2, <1>3, <3>2
    <3>4. t[j] = s[j]
      BY <1>3, <3>3
    <3> QED BY <3>1, <3>2, <3>3, <3>4
  <2>2. \A q \in 1 .. k - 1 : IsCode(Item(t[q])) => \E j \in 1 .. k - 1 : j < q /\ t[q] \in Needed(t[j])
    BY <2>1
  <2>3. unassigned' = t /\ DOMAIN t = 1 .. k - 1
    BY <1>1, <1>3
  <2> QED BY <2>2, <2>3 DEF UsedOnStack, Needed, Item, ItemOf
<1>7. ASSUME NEW a \in 1 .. m, IsCode(Item(g[a]))
      PROVE  \/ \E b \in 1 .. m : a < b /\ g[a] \in Needed(g[b])
             \/ \E y \in Items : Named(y) /\ y \notin ToSet(g) /\ g[a] \in Needed(y)
  <2>1. PICK q : q = n - a + 1
    OBVIOUS
  <2>2. q \in 1 .. n /\ g[a] = s[q]
    BY <1>1, <1>2, <1>3, <1>4, <2>1
  <2>3. PICK j \in 1 .. n : j < q /\ s[q] \in Needed(s[j])
    BY <1>1, <1>2, <1>7, <2>2 DEF UsedOnStack
  <2>4. CASE k <= j
    <3>1. PICK b : b = n - j + 1
      OBVIOUS
    <3>2. b \in 1 .. m /\ a < b /\ n - b + 1 = j
      BY <1>1, <1>2, <1>3, <2>1, <2>3, <2>4, <3>1
    <3>3. g[b] = s[j]
      BY <1>4, <3>2
    <3> QED BY <2>2, <2>3, <3>2, <3>3
  <2>5. CASE j < k
    <3>1. j \in 1 .. k - 1
      BY <1>3, <2>3, <2>5
    <3>2. t[j] = s[j] /\ t[j] \in ToSet(t)
      <4>1. j \in DOMAIN t /\ t[j] = s[j]
        BY <1>3, <3>1
      <4> QED BY <4>1, Zenon DEF ToSet
    <3>3. PICK y : y = s[j]
      OBVIOUS
    <3>4. y \in Active /\ preorders[y] < preorders[x]
      BY <1>3, <3>2, <3>3
    <3>5. y \in Items /\ preorders[y] \in Nat /\ preorders[x] \in Nat /\ Named(y)
      BY <1>3, <3>4, StackFacts
    <3>6. y \notin ToSet(g)
      BY <1>3, <3>4, <3>5
    <3> QED BY <2>2, <2>3, <3>3, <3>5, <3>6
  <2> QED BY <1>3, <2>3, <2>4, <2>5
<1>8. PICK Gs, S, c : Gs = groups /\ S = Seq(Items) /\ c = Len(Gs)
  OBVIOUS
<1>9. Gs \in Seq(S) /\ g \in S /\ c = Len(Gs)
  BY <1>3, <1>8 DEF SortTypes
<1>10. /\ Append(Gs, g) \in Seq(S) /\ c \in Nat /\ DOMAIN Gs = 1 .. c
       /\ DOMAIN Append(Gs, g) = 1 .. c + 1 /\ Len(Append(Gs, g)) = c + 1
       /\ \A j \in 1 .. c : Append(Gs, g)[j] = Gs[j]
       /\ Append(Gs, g)[c + 1] = g
       /\ ToSet(Append(Gs, g)) = ToSet(Gs) \cup {g}
       /\ Append(Gs, g) # <<>>
  BY <1>9, AppendFacts
<1>11. /\ groups' = Append(Gs, g) /\ DOMAIN groups' = 1 .. c + 1 /\ groups'[c + 1] = g
       /\ \A j \in 1 .. c : groups'[j] = groups[j] /\ j \in DOMAIN groups
  BY <1>8, <1>10
<1>12. ASSUME NEW l \in DOMAIN groups', NEW a \in DOMAIN groups'[l], IsCode(Item(groups'[l][a]))
       PROVE  \/ \E b \in DOMAIN groups'[l] : a < b /\ groups'[l][a] \in Needed(groups'[l][b])
              \/ \E y \in Items : Named(y) /\ y \notin ToSet(groups'[l]) /\ groups'[l][a] \in Needed(y)
  <2>1. CASE l = c + 1
    BY <1>4, <1>7, <1>11, <1>12, <2>1
  <2>2. CASE l # c + 1
    <3>1. l \in 1 .. c
      BY <1>10, <1>11, <2>2
    <3>2. groups'[l] = groups[l] /\ l \in DOMAIN groups
      BY <1>11, <3>1
    <3> QED BY <1>12, <3>2 DEF UsedInGroups
  <2> QED BY <2>1, <2>2
<1>13. UsedInGroups'
  BY <1>12 DEF UsedInGroups, Needed, Item, ItemOf, Named
<1> QED BY <1>6, <1>13

\* The sort starts from no code.
LEMMA RootsUsed ==
  ASSUME SortInv, UsedOnStack, UsedInGroups, SortRoot, Running'
  PROVE  UsedOnStack' /\ UsedInGroups'
<1>1. SortTypes /\ Idle /\ RootsDone
  BY DEF SortInv, SortRoot
<1>2. /\ frames = <<>> /\ roots # <<>> /\ UNCHANGED <<program, table, file, sorting, sccs, groups>>
  BY DEF SortRoot
<1>3. file # 0
  BY <1>1, <1>2 DEF Idle
<1>4. UsedInGroups'
  BY <1>2, SameUsedInGroups
<1>5. PICK h : h = Head(roots)
  OBVIOUS
<1>6. h \in Items /\ h \in ToSet(roots)
  BY <1>1, <1>2, <1>5, HeadTailSet DEF SortTypes
<1>7. h \in TheRoots
  BY <1>1, <1>3, <1>6 DEF RootsDone
<1>8. Named(h) /\ Item(h).form \in DataForms \cup TypeForms \cup CoercionForms
  <2>1. file \in DOMAIN program.files /\ table = program.files[file].table
    BY <1>1, <1>3, TableFacts
  <2>2. program \in Programs
    BY <1>1 DEF SortTypes
  <2> QED BY <1>7, <2>1, <2>2, RootsFacts DEF TheRoots, Named, Item
<1>9. ~IsCode(Item(h))
  <2>1. Parsed(Item(h))
    BY <1>1, <1>3, <1>8, NamedFacts
  <2>2. PICK it : it = Item(h)
    OBVIOUS
  <2>3. OneKind(it) /\ it.form \in DataForms \cup TypeForms \cup CoercionForms
    BY <1>8, <2>1, <2>2, KindFacts
  <2> QED BY <2>2, <2>3 DEF OneKind, IsData, IsCode, IsType, IsCoercion
<1>10. CASE UNCHANGED unassigned
  BY <1>2, <1>10, SameUsedOnStack, <1>4
<1>11. CASE Visit(h, frames)
  <2>1. unassigned' = Append(unassigned, h)
    <3>1. ~(Len(unassigned) >= StackCapacity)
      BY <1>11 DEF Visit, Fatal, Running
    <3> QED BY <1>11, <3>1 DEF Visit
  <2> QED BY <1>1, <1>2, <1>4, <1>6, <1>9, <2>1, VisitUsed
<1> QED BY <1>5, <1>10, <1>11 DEF SortRoot

\* An edge leads to what the item at the top needs.
LEMMA EdgeUsed ==
  ASSUME SortInv, UsedOnStack, UsedInGroups, OutgoingEdge, Running'
  PROVE  UsedOnStack' /\ UsedInGroups'
<1>1. SortTypes /\ Path /\ Stacks
  BY DEF SortInv, OutgoingEdge
<1>2. /\ frames # <<>> /\ Last(frames).left # <<>>
      /\ UNCHANGED <<program, table, file, sorting, roots, sccs, groups>>
  BY DEF OutgoingEdge
<1>3. UsedInGroups'
  BY <1>2, SameUsedInGroups
<1>4. PICK i : i = Head(Last(frames).left)
  OBVIOUS
<1>5. i \in Items /\ i \in Needed(Last(frames).item)
  BY <1>1, <1>2, <1>4, WaitingGoesOn
<1>6. \E j \in DOMAIN unassigned : i \in Needed(unassigned[j])
  <2>1. PICK n : n = Len(frames)
    OBVIOUS
  <2>2. Last(frames).item \in Active
    BY <1>1, <1>2, <2>1, TopFacts
  <2>3. PICK j \in DOMAIN unassigned : Last(frames).item = unassigned[j]
    BY <1>1, <2>2, StackFacts
  <2> QED BY <1>5, <2>3
<1>7. CASE UNCHANGED unassigned
  BY <1>2, <1>3, <1>7, SameUsedOnStack
<1>8. CASE \E left : Visit(i, left)
  <2>1. unassigned' = Append(unassigned, i)
    <3>1. PICK left : Visit(i, left)
      BY <1>8
    <3>2. ~(Len(unassigned) >= StackCapacity)
      BY <3>1 DEF Visit, Fatal, Running
    <3> QED BY <3>1, <3>2 DEF Visit
  <2> QED BY <1>1, <1>2, <1>3, <1>5, <1>6, <2>1, VisitUsed
<1> QED BY <1>4, <1>7, <1>8 DEF OutgoingEdge

\* A call that ends leaves the stack as it is, or makes a group.
LEMMA FinishUsed ==
  ASSUME SortInv, UsedOnStack, UsedInGroups, FinishItem
  PROVE  UsedOnStack' /\ UsedInGroups'
<1>1. SortTypes /\ Path /\ Stacks /\ Grouping
  BY DEF SortInv, FinishItem
<1>2. UNCHANGED <<program, table>>
  BY DEF FinishItem
<1>3. CASE ~(maybe # <<>> /\ Last(maybe) = Last(frames).item)
  <2>1. UNCHANGED <<unassigned, groups>>
    BY <1>3 DEF FinishItem
  <2> QED BY <1>2, <2>1, SameUsedOnStack, SameUsedInGroups
<1>4. CASE maybe # <<>> /\ Last(maybe) = Last(frames).item
  <2>1. PICK x, k, g : x = Last(frames).item /\ k = PlaceOf(x) /\ g = GroupFrom(k)
    OBVIOUS
  <2>2. /\ unassigned' = SubSeq(unassigned, 1, k - 1) /\ groups' = Append(groups, g)
        /\ x = Last(maybe) /\ maybe # <<>>
    BY <1>4, <2>1 DEF FinishItem, PlaceOf, GroupFrom
  <2> QED BY <1>1, <1>2, <2>1, <2>2, PopUsed
<1> QED BY <1>3, <1>4

\* The stack is empty when the next file is sorted.
LEMMA FileUsed ==
  ASSUME SortInv, UsedInGroups, SortFile
  PROVE  UsedOnStack' /\ UsedInGroups'
<1>1. unassigned' = <<>> /\ program' = program
  BY DEF SortFile
<1>2. UsedOnStack'
  <2>1. \A s : s = <<>> => DOMAIN s = {}
    OBVIOUS
  <2>2. DOMAIN unassigned' = {}
    BY <1>1, <2>1
  <2> QED BY <2>2 DEF UsedOnStack
<1>3. UsedInGroups'
  <2>1. CASE table' = table
    <3>1. UNCHANGED <<program, table, groups>>
      BY <2>1 DEF SortFile
    <3> QED BY <3>1, SameUsedInGroups
  <2>2. CASE table' # table
    <3>1. groups' = <<>>
      BY <2>2 DEF SortFile
    <3>2. DOMAIN groups' = {}
      BY <3>1
    <3> QED BY <3>2 DEF UsedInGroups
  <2> QED BY <2>1, <2>2
<1> QED BY <1>2, <1>3

\* Every step keeps it.
LEMMA UsedStep ==
  ASSUME SortInv, UsedInv, [Next]_vars
  PROVE  UsedInv'
<1> SUFFICES ASSUME Running' PROVE UsedOnStack' /\ UsedInGroups'
  BY DEF UsedInv
<1>1. Running
  <2> SUFFICES ASSUME ~Running PROVE FALSE
    OBVIOUS
  <2>1. UNCHANGED vars
    BY DEF Next, NextFile, SortFile, Sort, SortRoot, SortDone, OutgoingEdge, FinishItem, LoadGroup,
           BeginGroup, PhaseItem, TypesItem, TypeReferent, TypeDone, EndGroup, InTypes, InPhase, Loading,
           Terminated
  <2>2. fatal' = fatal
    BY <2>1 DEF vars, order
  <2> QED BY <2>2 DEF Running
<1>2. UsedOnStack /\ UsedInGroups
  BY <1>1 DEF UsedInv
<1>3. CASE UNCHANGED <<program, table, unassigned, groups>>
  BY <1>2, <1>3, SameUsedOnStack, SameUsedInGroups
<1>4. CASE NextFile
  BY <1>2, <1>4, FileUsed DEF NextFile
<1>5. CASE Sort
  <2>1. CASE SortDone
    BY <1>3, <2>1 DEF SortDone
  <2> QED BY <1>2, <1>5, <2>1, RootsUsed, EdgeUsed, FinishUsed DEF Sort
<1>6. CASE UNCHANGED vars
  BY <1>3, <1>6 DEF vars, order
<1> QED BY <1>3, <1>4, <1>5, <1>6 DEF Next, Terminated

\* Nothing is on the stack at the start.
LEMMA UsedInit ==
  ASSUME Init
  PROVE  UsedInv
<1>1. unassigned = <<>> /\ groups = <<>>
  BY DEF Init, OrderInit
<1>2. DOMAIN unassigned = {} /\ DOMAIN groups = {}
  BY <1>1
<1> QED BY <1>2 DEF UsedInv, UsedOnStack, UsedInGroups

-----------------------------------------------------------------------------
(* What the loader has made *)

\* Of an item of a group that is loaded everything is there.
LoadedMade ==
  \A k \in 1 .. loaded : \A x \in ToSet(groups[k]) :
    /\ \A p \in DOMAIN Phases : Sets(Phases[p], x, Item(x)) \subseteq known
    /\ IsType(Item(x)) => <<"type", x>> \in known

\* Of the group at work there is what the phases so far have made.
PhasesMade ==
  phase # 0 => \A p \in DOMAIN Phases, q \in DOMAIN Group : Done(p, q) =>
    /\ Sets(Phases[p], Group[q], Item(Group[q])) \subseteq known
    /\ p = 2 /\ IsType(Item(Group[q])) => Group[q] \in types

\* The first call is for the item the phase is at; what a call has left are types its item
\* names, and only a .tyexpr has any.
Calls ==
  /\ compiling # <<>> => compiling[1].item = Group[position]
  /\ \A k \in DOMAIN compiling :
       /\ ToSet(compiling[k].left) \subseteq ToSet(Item(compiling[k].item).types)
       /\ compiling[k].left # <<>> => Item(compiling[k].item).form = ".tyexpr"

\* The invariant of the loader that says what is there.
MadeInv == Running => LoadedMade /\ PhasesMade /\ Calls

\* What is known in a table stays known.
LEMMA LoadedKept ==
  ASSUME UNCHANGED <<program, table>>, known \subseteq known', LoadedMade,
         \A k \in 1 .. loaded' : k \in 1 .. loaded /\ groups'[k] = groups[k]
  PROVE  LoadedMade'
<1>1. \A x : Item(x)' = Item(x)
  BY SameTable
<1>2. ASSUME NEW k \in 1 .. loaded', NEW x \in ToSet(groups'[k])
      PROVE  /\ \A p \in DOMAIN Phases : Sets(Phases[p], x, Item(x)) \subseteq known'
             /\ IsType(Item(x)) => <<"type", x>> \in known'
  <2>1. k \in 1 .. loaded /\ groups'[k] = groups[k]
    BY <1>2
  <2> QED BY <1>2, <2>1 DEF LoadedMade
<1>3. ASSUME NEW k \in 1 .. loaded', NEW x \in ToSet(groups'[k])
      PROVE  /\ \A p \in DOMAIN Phases : Sets(Phases[p], x, Item(x)') \subseteq known'
             /\ IsType(Item(x)') => <<"type", x>> \in known'
  BY <1>1, <1>2
<1> QED BY <1>3 DEF LoadedMade

\* What the phases have made stays there while the phase goes on with the item.
LEMMA PhasesKept ==
  ASSUME UNCHANGED <<program, table, groups, loaded, phase, position>>, known \subseteq known', types \subseteq types',
         PhasesMade
  PROVE  PhasesMade'
<1> SUFFICES ASSUME phase' # 0, NEW p \in DOMAIN Phases, NEW q \in DOMAIN Group', Done(p, q)'
             PROVE  (/\ Sets(Phases[p], Group[q], Item(Group[q])) \subseteq known
                     /\ p = 2 /\ IsType(Item(Group[q])) => Group[q] \in types)'
  BY DEF PhasesMade
<1>1. Group' = Group /\ Item(Group[q])' = Item(Group[q]) /\ (Done(p, q)' <=> Done(p, q)) /\ Group[q]' = Group[q]
  BY DEF Item, ItemOf, Group, Done
<1>2. /\ Sets(Phases[p], Group[q], Item(Group[q])) \subseteq known
      /\ p = 2 /\ IsType(Item(Group[q])) => Group[q] \in types
  BY <1>1 DEF PhasesMade
<1>3. PICK S, it : S = Sets(Phases[p], Group[q], Item(Group[q])) /\ it = Item(Group[q])
  OBVIOUS
<1>4. Sets(Phases[p], Group[q], Item(Group[q]))' = S /\ Item(Group[q])' = it
  BY <1>1, <1>3
<1> QED BY <1>1, <1>2, <1>3, <1>4

\* What a phase makes for an item adds to it.
LEMMA PhasesGoOn ==
  ASSUME SortInv, Running, loaded \in Nat, loaded < Len(groups), phase \in DOMAIN Phases, position \in DOMAIN Group,
         UNCHANGED <<program, table, groups, loaded>>, Advance, known \subseteq known', types \subseteq types', PhasesMade,
         Sets(Phase, Group[position], Item(Group[position])) \subseteq known',
         Phase = "types" /\ IsType(Item(Group[position])) => Group[position] \in types'
  PROVE  PhasesMade'
<1> SUFFICES ASSUME phase' # 0, NEW p \in DOMAIN Phases, NEW q \in DOMAIN Group', Done(p, q)'
             PROVE  (/\ Sets(Phases[p], Group[q], Item(Group[q])) \subseteq known
                     /\ p = 2 /\ IsType(Item(Group[q])) => Group[q] \in types)'
  BY DEF PhasesMade
<1>1. Group' = Group /\ Item(Group[q])' = Item(Group[q]) /\ Group[q]' = Group[q]
  BY DEF Item, ItemOf, Group
<1>2. /\ phase' # 0 /\ phase' \in 0 .. Len(Phases) + 1 /\ position' \in Nat \ {0} /\ Group' = Group
      /\ phase' = Len(Phases) + 1 => position' = 1
      /\ phase' \in DOMAIN Phases => position' \in DOMAIN Group
      /\ \A r \in DOMAIN Phases, s \in DOMAIN Group :
           (r < phase' \/ (r = phase' /\ s < position')) <=> Done(r, s) \/ (r = phase /\ s = position)
  BY AdvanceFacts
<1>3. q \in DOMAIN Group /\ (Done(p, q) \/ (p = phase /\ q = position))
  BY <1>1, <1>2 DEF Done
<1>4. phase # 0
  BY PhasesLength
<1>5. PICK S, it, x : S = Sets(Phases[p], Group[q], Item(Group[q])) /\ it = Item(Group[q]) /\ x = Group[q]
  OBVIOUS
<1>6. Sets(Phases[p], Group[q], Item(Group[q]))' = S /\ Item(Group[q])' = it /\ Group[q]' = x
  BY <1>1, <1>5
<1>7. CASE Done(p, q)
  <2>1. /\ S \subseteq known
        /\ p = 2 /\ IsType(it) => x \in types
    BY <1>3, <1>4, <1>5, <1>7 DEF PhasesMade
  <2> QED BY <1>6, <2>1
<1>8. CASE p = phase /\ q = position
  <2>1. S \subseteq known'
    BY <1>5, <1>8 DEF Phase
  <2>2. p = 2 => Phase = "types"
    BY <1>8, TypesPhase DEF Phase
  <2>3. p = 2 /\ IsType(it) => x \in types'
    BY <1>5, <1>8, <2>2
  <2> QED BY <1>6, <2>1, <2>3
<1> QED BY <1>3, <1>7, <1>8

\* Nothing is called for.
LEMMA NoCalls ==
  ASSUME compiling' = <<>>
  PROVE  Calls'
<1>1. \A s : s = <<>> => DOMAIN s = {}
  OBVIOUS
<1>2. DOMAIN compiling' = {}
  BY <1>1
<1> QED BY <1>2 DEF Calls

\* The calls stay as they are.
LEMMA SameCalls ==
  ASSUME UNCHANGED <<program, table, groups, loaded, position, compiling>>, Calls
  PROVE  Calls'
BY DEF Calls, Group, Item, ItemOf

\* The loading stops.
LEMMA Stopped ==
  ASSUME NEW r, NEW i, NEW e, Fatal(r, i, e)
  PROVE  ~Running'
<1>1. fatal' = <<r, i, e>>
  BY DEF Fatal
<1>2. \A a, b, c : <<a, b, c>> # <<>>
  OBVIOUS
<1>3. fatal' # <<>>
  BY <1>1, <1>2, Zenon
<1> QED BY <1>3 DEF Running

\* No phase has done anything of a group that begins.
LEMMA BeginGroupMade ==
  ASSUME SortInv, LoadInv, LoadedMade, PhasesMade, Calls, BeginGroup, Running', UNCHANGED <<program, table, groups>>
  PROVE  LoadedMade' /\ PhasesMade' /\ Calls'
<1>1. /\ Running /\ loaded < Len(groups) /\ phase = 0 /\ UNCHANGED <<loaded, position, compiling, known>>
  BY DEF BeginGroup, Loading
<1>2. loaded \in Nat /\ position = 1 /\ compiling = <<>>
  BY <1>1, PhasesLength DEF LoadInv, LoadTypes, Stage, InTypes, InPhase
<1>3. LoadedMade'
  BY <1>1, LoadedKept
<1>4. Calls'
  BY <1>1, <1>2, NoCalls
<1>5. phase' = 1
  BY Stopped DEF BeginGroup
<1>6. Group' = Group /\ DOMAIN Group = 1 .. Len(Group) /\ Len(Group) \in Nat
  BY <1>1, <1>2, GroupFacts DEF Group
<1>7. \A p \in 1 .. 11, q \in 1 .. Len(Group) : ~(p < phase' \/ (p = phase' /\ q < position'))
  BY <1>1, <1>2, <1>5, <1>6
<1>8. \A p \in DOMAIN Phases, q \in DOMAIN Group' : ~(p < phase' \/ (p = phase' /\ q < position'))
  BY <1>6, <1>7, PhasesLength
<1>9. PhasesMade'
  BY <1>8 DEF PhasesMade, Done
<1> QED BY <1>3, <1>4, <1>9

\* A phase makes its entries for an item.
LEMMA PhaseItemMade ==
  ASSUME SortInv, LoadInv, LoadedMade, PhasesMade, Calls, PhaseItem, Running', UNCHANGED <<program, table, groups>>
  PROVE  LoadedMade' /\ PhasesMade' /\ Calls'
<1>1. /\ Running /\ loaded < Len(groups) /\ phase \in DOMAIN Phases /\ Phase # "types"
      /\ UNCHANGED <<loaded, types, compiling>>
  BY DEF PhaseItem, InPhase, Loading
<1>2. loaded \in Nat /\ phase # 0
  BY <1>1, PhasesLength DEF LoadInv, LoadTypes
<1>3. position \in DOMAIN Group /\ compiling = <<>>
  BY <1>1 DEF LoadInv, Stage, InTypes
<1> DEFINE i == Group[position]
           S == Sets(Phase, i, Item(i))
<1>4. Enter(S, i) /\ Advance
  <2>1. ~ \E e : Fatal("unknown", i, e)
    BY Stopped
  <2>2. ~ Fatal("not implemented", i, <<>>)
    BY Stopped
  <2> QED BY <2>1, <2>2 DEF PhaseItem
<1>5. known' = known \cup S
  BY <1>4, Stopped DEF Enter
<1>6. LoadedMade'
  BY <1>1, <1>5, LoadedKept
<1>7. Calls'
  BY <1>1, <1>3, NoCalls
<1>8. known \subseteq known' /\ S \subseteq known' /\ types \subseteq types'
  BY <1>1, <1>5
<1>9. PhasesMade'
  BY <1>1, <1>2, <1>3, <1>4, <1>8, PhasesGoOn
<1> QED BY <1>6, <1>7, <1>9

\* Nothing is entered under "types" by name of the phase.
LEMMA TypesSetNothing ==
  \A i, it : Sets("types", i, it) = {}
BY DEF Sets

\* A type that is done is passed over, another one is called for.
LEMMA TypesItemMade ==
  ASSUME SortInv, LoadInv, LoadedMade, PhasesMade, Calls, TypesItem, UNCHANGED <<program, table, groups>>
  PROVE  LoadedMade' /\ PhasesMade' /\ Calls'
<1>1. InTypes /\ compiling = <<>> /\ UNCHANGED <<loaded, types, known, inherited, fatal>> /\ Running
  BY DEF TypesItem, InTypes, InPhase, Loading
<1>2. /\ loaded < Len(groups) /\ loaded \in Nat /\ phase \in DOMAIN Phases /\ phase # 0
      /\ position \in DOMAIN Group /\ Phases[phase] = "types" /\ LoadTypes
  BY <1>1, InTypesFacts
<1>3. LoadedMade'
  BY <1>1, LoadedKept
<1>4. PICK i : i = Group[position]
  OBVIOUS
<1>5. CASE IsType(Item(i)) /\ i \notin types
  <2>1. compiling' = Call(i, compiling) /\ UNCHANGED <<phase, position>>
    BY <1>4, <1>5 DEF TypesItem, Stay
  <2>2. PhasesMade'
    BY <1>1, <2>1, PhasesKept
  <2>3. PICK f : f = [item |-> i, left |-> IF Item(i).form = ".tyexpr" THEN Item(i).types ELSE <<>>]
    OBVIOUS
  <2>4. compiling' = <<f>>
    BY <1>1, <2>1, <2>3 DEF Call
  <2>5. DOMAIN compiling' = {1} /\ compiling'[1] = f /\ f.item = i
    BY <2>3, <2>4
  <2>6. PICK it : it = Item(i)
    OBVIOUS
  <2>7. f.left # <<>> => it.form = ".tyexpr"
    BY <2>3, <2>6
  <2>8. ToSet(f.left) \subseteq ToSet(it.types)
    <3>1. CASE it.form = ".tyexpr"
      BY <2>3, <2>6, <3>1
    <3>2. CASE it.form # ".tyexpr"
      <4>1. f.left = <<>>
        BY <2>7, <3>2
      <4>2. ToSet(f.left) = {}
        BY <4>1 DEF ToSet
      <4> QED BY <4>2
    <3> QED BY <3>1, <3>2
  <2>9. Item(f.item)' = it
    BY <2>5, <2>6, SameTable
  <2>10. Group' = Group
    BY <1>1 DEF Group
  <2>11. compiling'[1].item = Group'[position']
    BY <1>4, <2>1, <2>5, <2>10
  <2>12. \A k \in DOMAIN compiling' :
           /\ ToSet(compiling'[k].left) \subseteq ToSet(Item(compiling[k].item)'.types)
           /\ compiling'[k].left # <<>> => Item(compiling[k].item)'.form = ".tyexpr"
    <3> SUFFICES ASSUME NEW k \in DOMAIN compiling'
                 PROVE  /\ ToSet(compiling'[k].left) \subseteq ToSet(Item(compiling[k].item)'.types)
                        /\ compiling'[k].left # <<>> => Item(compiling[k].item)'.form = ".tyexpr"
      OBVIOUS
    <3>1. compiling'[k] = f
      BY <2>5
    <3>2. Item(compiling[k].item)' = it
      BY <2>5, <2>6, <3>1 DEF Item, ItemOf
    <3> QED BY <2>7, <2>8, <3>1, <3>2
  <2>13. Calls'
    BY <2>11, <2>12 DEF Calls
  <2> QED BY <1>3, <2>2, <2>13
<1>6. CASE ~(IsType(Item(i)) /\ i \notin types)
  <2>1. Advance /\ compiling' = compiling
    BY <1>4, <1>6 DEF TypesItem
  <2>2. Calls'
    BY <1>1, <2>1, NoCalls
  <2>3. Sets(Phase, Group[position], Item(Group[position])) \subseteq known'
    BY <1>2, TypesSetNothing DEF Phase
  <2>4. IsType(Item(Group[position])) => Group[position] \in types'
    BY <1>1, <1>4, <1>6
  <2>5. known \subseteq known' /\ types \subseteq types'
    BY <1>1
  <2>6. PhasesMade'
    BY <1>1, <1>2, <2>1, <2>3, <2>4, <2>5, PhasesGoOn
  <2> QED BY <1>3, <2>2, <2>6
<1> QED BY <1>5, <1>6

\* All is made when the last phase is over.
LEMMA EndGroupMade ==
  ASSUME SortInv, LoadInv, LoadedMade, PhasesMade, Calls, EndGroup, Running', UNCHANGED <<program, table, groups>>
  PROVE  LoadedMade' /\ PhasesMade' /\ Calls'
<1>1. /\ Running /\ loaded < Len(groups) /\ phase = Len(Phases) + 1
      /\ UNCHANGED <<position, types, compiling, known, inherited>>
  BY DEF EndGroup, Loading
<1>2. loaded \in Nat /\ phase = 12
  BY <1>1, PhasesLength DEF LoadInv, LoadTypes
<1>3. compiling = <<>>
  <2>1. phase \notin DOMAIN Phases
    BY <1>2, PhasesLength
  <2> QED BY <1>1, <2>1 DEF LoadInv, Stage, InTypes, InPhase
<1>4. loaded' = loaded + 1 /\ phase' = 0
  BY Stopped DEF EndGroup
<1>5. Calls'
  BY <1>1, <1>3, NoCalls
<1>6. PhasesMade'
  BY <1>4 DEF PhasesMade
<1>7. \A x : Item(x)' = Item(x)
  BY SameTable
<1>8. ASSUME NEW x \in ToSet(Group)
      PROVE  /\ \A p \in DOMAIN Phases : Sets(Phases[p], x, Item(x)) \subseteq known
             /\ IsType(Item(x)) => <<"type", x>> \in known
  <2>1. PICK q \in DOMAIN Group : x = Group[q]
    BY <1>1, <1>2, GroupFacts
  <2>2. \A p \in 1 .. 11 : p < phase
    BY <1>2
  <2>3. \A p \in DOMAIN Phases : Done(p, q)
    BY <2>2, PhasesLength DEF Done
  <2>4. \A p \in DOMAIN Phases :
          /\ Sets(Phases[p], Group[q], Item(Group[q])) \subseteq known
          /\ p = 2 /\ IsType(Item(Group[q])) => Group[q] \in types
    BY <1>2, <2>1, <2>3 DEF PhasesMade
  <2>5. 2 \in DOMAIN Phases
    BY PhasesLength
  <2>6. IsType(Item(x)) => x \in types
    BY <2>1, <2>4, <2>5
  <2>7. x \in types => <<"type", x>> \in known
    BY <1>1, <1>2 DEF LoadInv, Compiling
  <2> QED BY <2>1, <2>4, <2>6, <2>7
<1>9. ASSUME NEW k \in 1 .. loaded', NEW x \in ToSet(groups'[k])
      PROVE  /\ \A p \in DOMAIN Phases : Sets(Phases[p], x, Item(x)') \subseteq known'
             /\ IsType(Item(x)') => <<"type", x>> \in known'
  <2>1. k \in 1 .. loaded \/ k = loaded + 1
    BY <1>2, <1>4
  <2>2. CASE k \in 1 .. loaded
    BY <1>1, <1>7, <1>9, <2>2 DEF LoadedMade
  <2>3. CASE k = loaded + 1
    <3>1. x \in ToSet(Group)
      BY <1>9, <2>3 DEF Group
    <3> QED BY <1>1, <1>7, <1>8, <3>1
  <2> QED BY <2>1, <2>2, <2>3
<1>10. LoadedMade'
  BY <1>9 DEF LoadedMade
<1> QED BY <1>5, <1>6, <1>10

\* What the top call has left when it has looked at one type more is of what it had.
LEMMA CallerLeft ==
  ASSUME compiling \in Seq(Frames), compiling # <<>>, Last(compiling).left # <<>>,
         NEW n, n = Len(compiling),
         NEW caller, caller = Append(Front(compiling), [Last(compiling) EXCEPT !.left = Tail(@)])
  PROVE  \A k \in 1 .. n : ToSet(caller[k].left) \subseteq ToSet(compiling[k].left)
                           /\ (caller[k].left # <<>> => compiling[k].left # <<>>)
<1>1. /\ n \in Nat \ {0} /\ DOMAIN compiling = 1 .. n /\ n \in DOMAIN compiling
      /\ Last(compiling) = compiling[n] /\ Last(compiling) \in Frames
      /\ Front(compiling) \in Seq(Frames) /\ Len(Front(compiling)) = n - 1 /\ DOMAIN Front(compiling) = 1 .. n - 1
      /\ \A k \in 1 .. n - 1 : Front(compiling)[k] = compiling[k]
  BY TopCall
<1>2. PICK f, top, m, c : /\ top = Last(compiling) /\ f = Front(compiling) /\ m = n - 1
                          /\ c = [top EXCEPT !.left = Tail(@)]
  OBVIOUS
<1>3. top \in Frames /\ top.left # <<>> /\ top.left \in Seq(Items)
  BY <1>1, <1>2 DEF Frames
<1>4. Tail(top.left) \in Seq(Items) /\ ToSet(top.left) = {Head(top.left)} \cup ToSet(Tail(top.left))
  BY <1>3, HeadTailSet
<1>5. c \in Frames /\ c.left = Tail(top.left)
  BY <1>2, <1>3, <1>4 DEF Frames
<1>6. f \in Seq(Frames) /\ m = Len(f) /\ m \in Nat /\ m + 1 = n
  BY <1>1, <1>2
<1>7. /\ Append(f, c) \in Seq(Frames)
      /\ DOMAIN Append(f, c) = 1 .. m + 1 /\ Len(Append(f, c)) = m + 1
      /\ \A k \in 1 .. m : Append(f, c)[k] = f[k]
      /\ Append(f, c)[m + 1] = c
  BY <1>5, <1>6, AppendFacts
<1>8. caller = Append(f, c)
  BY <1>2
<1>9. \A k \in 1 .. m : caller[k] = compiling[k]
  BY <1>1, <1>2, <1>7, <1>8
<1>10. caller[n] = c /\ compiling[n] = top
  BY <1>1, <1>2, <1>6, <1>7, <1>8
<1>11. ToSet(c.left) \subseteq ToSet(top.left)
  BY <1>4, <1>5
<1>12. \A k \in 1 .. n : k \in 1 .. m \/ k = n
  BY <1>6
<1> QED BY <1>3, <1>9, <1>10, <1>11, <1>12

\* A type that is looked at is there, or is called for.
LEMMA TypeReferentMade ==
  ASSUME SortInv, LoadInv, LoadedMade, PhasesMade, Calls, TypeReferent, Running', UNCHANGED <<program, table, groups>>
  PROVE  LoadedMade' /\ PhasesMade' /\ Calls'
<1>1. /\ InTypes /\ compiling # <<>> /\ Last(compiling).left # <<>> /\ Running
      /\ UNCHANGED <<loaded, types, known, inherited, phase, position>>
  BY DEF TypeReferent, InTypes, InPhase, Loading, Stay
<1>2. /\ loaded < Len(groups) /\ loaded \in Nat /\ compiling \in Seq(Frames)
  BY <1>1, InTypesFacts DEF LoadTypes
<1>3. LoadedMade'
  BY <1>1, LoadedKept
<1>4. PhasesMade'
  BY <1>1, PhasesKept
<1>5. PICK t, caller, n : /\ t = Head(Last(compiling).left) /\ n = Len(compiling)
                          /\ caller = Append(Front(compiling), [Last(compiling) EXCEPT !.left = Tail(@)])
  OBVIOUS
<1>6. /\ n \in Nat \ {0} /\ DOMAIN compiling = 1 .. n /\ caller \in Seq(Frames) /\ Len(caller) = n
      /\ DOMAIN caller = 1 .. n
      /\ \A k \in 1 .. n : caller[k].item = compiling[k].item
  BY <1>1, <1>2, <1>5, CallerFacts
<1>7. \A k \in 1 .. n : ToSet(caller[k].left) \subseteq ToSet(compiling[k].left)
                        /\ (caller[k].left # <<>> => compiling[k].left # <<>>)
  BY <1>1, <1>2, <1>5, CallerLeft
<1>8. \/ compiling' = caller
      \/ compiling' = Call(t, caller)
  BY <1>5, Stopped DEF TypeReferent
<1>9. Group' = Group
  BY <1>1 DEF Group
<1>10. compiling[1].item = Group[position] /\ 1 \in 1 .. n
  BY <1>1, <1>6 DEF Calls
<1>11. ASSUME NEW k \in 1 .. n
       PROVE  /\ ToSet(caller[k].left) \subseteq ToSet(Item(caller[k].item).types)
              /\ caller[k].left # <<>> => Item(caller[k].item).form = ".tyexpr"
  BY <1>6, <1>7 DEF Calls
<1>12. \A x : Item(x)' = Item(x)
  BY SameTable
<1>13. CASE compiling' = caller
  <2>1. compiling' # <<>> => compiling'[1].item = Group'[position']
    BY <1>1, <1>6, <1>9, <1>10, <1>13
  <2>2. \A k \in DOMAIN compiling' :
           /\ ToSet(compiling'[k].left) \subseteq ToSet(Item(compiling[k].item)'.types)
           /\ compiling'[k].left # <<>> => Item(compiling[k].item)'.form = ".tyexpr"
    BY <1>6, <1>11, <1>13 DEF Item, ItemOf
  <2>3. Calls'
    BY <2>1, <2>2 DEF Calls
  <2> QED BY <1>3, <1>4, <2>3
<1>14. CASE compiling' = Call(t, caller)
  <2>1. PICK it, f : /\ it = Item(t)
                     /\ f = [item |-> t, left |-> IF Item(t).form = ".tyexpr" THEN Item(t).types ELSE <<>>]
    OBVIOUS
  <2>2. f.item = t /\ (f.left # <<>> => it.form = ".tyexpr")
    BY <2>1
  <2>3. ToSet(f.left) \subseteq ToSet(it.types)
    <3>1. CASE it.form = ".tyexpr"
      BY <2>1, <3>1
    <3>2. CASE it.form # ".tyexpr"
      <4>1. f.left = <<>>
        BY <2>2, <3>2
      <4>2. ToSet(f.left) = {}
        BY <4>1 DEF ToSet
      <4> QED BY <4>2
    <3> QED BY <3>1, <3>2
  <2>4. compiling' = Append(caller, f)
    BY <1>14, <2>1 DEF Call
  <2>5. /\ DOMAIN compiling' = 1 .. n + 1 /\ compiling'[n + 1] = f
        /\ \A k \in 1 .. n : compiling'[k] = caller[k]
    BY <1>6, <2>4
  <2>6. compiling'[1].item = Group'[position']
    BY <1>1, <1>6, <1>9, <1>10, <2>5
  <2>7. ASSUME NEW k \in DOMAIN compiling'
        PROVE  /\ ToSet(compiling'[k].left) \subseteq ToSet(Item(compiling[k].item)'.types)
               /\ compiling'[k].left # <<>> => Item(compiling[k].item)'.form = ".tyexpr"
    <3>1. CASE k = n + 1
      <4>1. compiling'[k] = f
        BY <2>5, <3>1
      <4>2. Item(compiling[k].item)' = it
        BY <2>1, <2>2, <4>1 DEF Item, ItemOf
      <4> QED BY <2>2, <2>3, <4>1, <4>2
    <3>2. CASE k # n + 1
      <4>1. k \in 1 .. n
        BY <1>6, <2>5, <3>2
      <4>2. compiling'[k] = caller[k]
        BY <2>5, <4>1
      <4>3. PICK c : c = caller[k]
        OBVIOUS
      <4>4. Item(compiling[k].item)' = Item(c.item)
        BY <4>2, <4>3 DEF Item, ItemOf
      <4> QED BY <1>11, <4>1, <4>2, <4>3, <4>4
    <3> QED BY <3>1, <3>2
  <2>8. Calls'
    BY <2>6, <2>7 DEF Calls
  <2> QED BY <1>3, <1>4, <2>8
<1> QED BY <1>8, <1>13, <1>14

\* A type that is compiled is there.
LEMMA TypeDoneMade ==
  ASSUME SortInv, LoadInv, LoadedMade, PhasesMade, Calls, TypeDone, Running', UNCHANGED <<program, table, groups>>
  PROVE  LoadedMade' /\ PhasesMade' /\ Calls'
<1>1. /\ InTypes /\ compiling # <<>> /\ Running /\ UNCHANGED loaded /\ compiling' = Front(compiling)
  BY DEF TypeDone, InTypes, InPhase, Loading
<1>2. /\ loaded < Len(groups) /\ loaded \in Nat /\ phase \in DOMAIN Phases /\ phase # 0
      /\ position \in DOMAIN Group /\ Phases[phase] = "types" /\ LoadTypes
  BY <1>1, InTypesFacts
<1>3. PICK i, n : i = Last(compiling).item /\ n = Len(compiling)
  OBVIOUS
<1>4. known' = known \cup {<<"type", i>>} /\ types' = types \cup {i} /\ IF n = 1 THEN Advance ELSE Stay
  BY <1>3, Stopped DEF TypeDone, Enter
<1>5. known \subseteq known' /\ types \subseteq types'
  BY <1>4
<1>6. LoadedMade'
  BY <1>1, <1>5, LoadedKept
<1>7. compiling \in Seq(Frames)
  BY <1>2 DEF LoadTypes
<1>8. /\ n \in Nat \ {0} /\ DOMAIN compiling = 1 .. n /\ n \in DOMAIN compiling
      /\ Last(compiling) = compiling[n] /\ Last(compiling) \in Frames
      /\ Front(compiling) \in Seq(Frames) /\ Len(Front(compiling)) = n - 1 /\ DOMAIN Front(compiling) = 1 .. n - 1
      /\ \A k \in 1 .. n - 1 : Front(compiling)[k] = compiling[k]
  BY <1>1, <1>3, <1>7, TopCall
<1>9. compiling[1].item = Group[position]
  BY <1>1 DEF Calls
<1>10. CASE n = 1
  <2>1. Advance /\ i = Group[position]
    BY <1>3, <1>4, <1>8, <1>9, <1>10
  <2>2. Sets(Phase, Group[position], Item(Group[position])) \subseteq known'
    BY <1>2, TypesSetNothing DEF Phase
  <2>3. Group[position] \in types'
    BY <1>4, <2>1
  <2>4. PhasesMade'
    BY <1>1, <1>2, <1>5, <2>1, <2>2, <2>3, PhasesGoOn
  <2>5. compiling' = <<>>
    BY <1>1, <1>8, <1>10
  <2> QED BY <1>6, <2>4, <2>5, NoCalls
<1>11. CASE n # 1
  <2>1. UNCHANGED <<phase, position>>
    BY <1>4, <1>11 DEF Stay
  <2>2. PhasesMade'
    BY <1>1, <1>5, <2>1, PhasesKept
  <2>3. Group' = Group
    BY <1>1 DEF Group
  <2>4. DOMAIN compiling' = 1 .. n - 1 /\ \A k \in 1 .. n - 1 : compiling'[k] = compiling[k] /\ k \in DOMAIN compiling
    BY <1>1, <1>8
  <2>5. 1 \in 1 .. n - 1
    BY <1>8, <1>11
  <2>6. compiling'[1].item = Group'[position']
    BY <1>9, <2>1, <2>3, <2>4, <2>5
  <2>7. \A k \in DOMAIN compiling' :
           /\ ToSet(compiling'[k].left) \subseteq ToSet(Item(compiling[k].item)'.types)
           /\ compiling'[k].left # <<>> => Item(compiling[k].item)'.form = ".tyexpr"
    BY <2>4 DEF Item, ItemOf, Calls
  <2>8. Calls'
    BY <2>6, <2>7 DEF Calls
  <2> QED BY <1>6, <2>2, <2>8
<1> QED BY <1>10, <1>11

\* The groups that are loaded stay while the file is sorted.
LEMMA SortMade ==
  ASSUME SortInv, LoadInv, LoadedMade, PhasesMade, Calls, Sort, UNCHANGED load, Running'
  PROVE  LoadedMade' /\ PhasesMade' /\ Calls'
<1>1. SortTypes /\ Idle /\ Running
  BY DEF SortInv, Sort, SortRoot, SortDone, OutgoingEdge, FinishItem
<1>2. sorting
  BY <1>1 DEF Sort, SortRoot, SortDone, OutgoingEdge, FinishItem, Idle
<1>3. phase = 0 /\ compiling = <<>> /\ loaded \in Nat /\ loaded <= Len(groups) /\ Len(groups) \in Nat
  BY <1>1, <1>2, WhileSorting DEF SortTypes
<1>4. UNCHANGED <<loaded, phase, position, types, compiling, known>> /\ UNCHANGED <<program, table>>
  BY DEF load, Sort, SortRoot, SortDone, OutgoingEdge, FinishItem
<1>5. Calls'
  BY <1>3, <1>4, NoCalls
<1>6. PhasesMade'
  BY <1>3, <1>4 DEF PhasesMade
<1>7. \A k \in 1 .. loaded : groups'[k] = groups[k]
  <2>1. CASE UNCHANGED groups
    BY <2>1
  <2>2. CASE FinishItem /\ maybe # <<>> /\ Last(maybe) = Last(frames).item
    <3>1. PICK g, c : g = GroupFrom(PlaceOf(Last(frames).item)) /\ c = Len(groups)
      OBVIOUS
    <3>2. c \in Nat /\ \A j \in 1 .. c : groups'[j] = groups[j]
      BY <2>2, <3>1, GroupMade
    <3>3. \A k \in 1 .. loaded : k \in 1 .. c
      BY <1>3, <3>1, <3>2
    <3> QED BY <3>2, <3>3
  <2> QED BY <2>1, <2>2 DEF Sort, SortRoot, SortDone, OutgoingEdge, FinishItem
<1>8. LoadedMade'
  <2>1. \A k \in 1 .. loaded' : k \in 1 .. loaded /\ groups'[k] = groups[k]
    BY <1>4, <1>7
  <2> QED BY <1>4, <2>1, LoadedKept
<1> QED BY <1>5, <1>6, <1>8

\* Another table has nothing loaded.
LEMMA NextFileMade ==
  ASSUME SortInv, LoadInv, LoadedMade, PhasesMade, Calls, NextFile
  PROVE  LoadedMade' /\ PhasesMade' /\ Calls'
<1>1. LoadTypes /\ Stage /\ Running
  BY DEF LoadInv, NextFile, SortFile
<1>2. /\ loaded = Len(groups) /\ program' = program
      /\ UNCHANGED <<phase, position, types, compiling>>
      /\ \/ table' = table /\ UNCHANGED load /\ UNCHANGED groups
         \/ loaded' = 0
  BY DEF NextFile, SortFile, load
<1>3. loaded \in Nat
  BY <1>1 DEF LoadTypes
<1>4. phase = 0
  BY <1>1, <1>2, <1>3 DEF Stage
<1>5. compiling = <<>>
  BY <1>1, <1>4, PhasesLength DEF Stage, InTypes, InPhase
<1>6. Calls'
  BY <1>2, <1>5, NoCalls
<1>7. PhasesMade'
  BY <1>2, <1>4 DEF PhasesMade
<1>8. LoadedMade'
  <2>1. CASE table' = table /\ UNCHANGED load /\ UNCHANGED groups
    <3>1. UNCHANGED <<loaded, known>>
      BY <2>1 DEF load
    <3> QED BY <1>2, <2>1, <3>1, LoadedKept
  <2>2. CASE loaded' = 0
    <3>1. 1 .. loaded' = {}
      BY <2>2
    <3> QED BY <3>1 DEF LoadedMade
  <2> QED BY <1>2, <2>1, <2>2
<1> QED BY <1>6, <1>7, <1>8

\* Every step keeps it.
LEMMA MadeStep ==
  ASSUME SortInv, LoadInv, MadeInv, [Next]_vars
  PROVE  MadeInv'
<1> SUFFICES ASSUME Running' PROVE LoadedMade' /\ PhasesMade' /\ Calls'
  BY DEF MadeInv
<1>1. Running
  <2> SUFFICES ASSUME ~Running PROVE FALSE
    OBVIOUS
  <2>1. UNCHANGED vars
    BY DEF Next, NextFile, SortFile, Sort, SortRoot, SortDone, OutgoingEdge, FinishItem, LoadGroup,
           BeginGroup, PhaseItem, TypesItem, TypeReferent, TypeDone, EndGroup, InTypes, InPhase, Loading,
           Terminated
  <2>2. fatal' = fatal
    BY <2>1 DEF vars, order
  <2> QED BY <2>2 DEF Running
<1>2. LoadedMade /\ PhasesMade /\ Calls
  BY <1>1 DEF MadeInv
<1>3. CASE NextFile
  BY <1>2, <1>3, NextFileMade
<1>4. CASE Sort /\ UNCHANGED load
  BY <1>2, <1>4, SortMade
<1>5. CASE LoadGroup /\ UNCHANGED <<program, table, groups>>
  BY <1>2, <1>5, BeginGroupMade, PhaseItemMade, TypesItemMade, TypeReferentMade, TypeDoneMade, EndGroupMade
     DEF LoadGroup
<1>6. CASE UNCHANGED vars
  <2>1. UNCHANGED <<program, table, groups, loaded, phase, position, types, compiling, known>>
    BY <1>6 DEF vars, order, load
  <2>2. known \subseteq known' /\ types \subseteq types' /\ \A k \in 1 .. loaded' : k \in 1 .. loaded /\ groups'[k] = groups[k]
    BY <2>1
  <2>3. LoadedMade'
    BY <1>2, <2>1, <2>2, LoadedKept
  <2>4. PhasesMade'
    BY <1>2, <2>1, <2>2, PhasesKept
  <2>5. Calls'
    BY <1>2, <2>1, SameCalls
  <2> QED BY <2>3, <2>4, <2>5
<1> QED BY <1>3, <1>4, <1>5, <1>6 DEF Next, Terminated

\* Nothing is loaded at the start.
LEMMA MadeInit ==
  ASSUME Init
  PROVE  MadeInv
<1>1. loaded = 0 /\ phase = 0 /\ compiling = <<>>
  BY DEF Init, LoadInit
<1>2. 1 .. loaded = {} /\ DOMAIN compiling = {}
  BY <1>1
<1> QED BY <1>1, <1>2 DEF MadeInv, LoadedMade, PhasesMade, Calls

-----------------------------------------------------------------------------
(* What the phases ask for *)

\* What kind of entry a phase may ask for, and of what names on the item.
NeedOf(p, it, e) ==
  \/ e = <<"type", e[2]>> /\ p \in {3, 5, 6, 11} /\ e[2] \in ToSet(it.types) \cup {ListType, RuneType, RegexType, RegexClassType}
  \/ e = <<"kind", e[2]>> /\ p = 6 /\ e[2] \in ToSet(it.types)
  \/ e = <<"definition", e[2]>> /\ p \in {6, 11} /\ e[2] \in ToSet(it.types) \cup {RegexType, RegexClassType}
  \/ e = <<"code type", e[2]>> /\ p \in {6, 9, 11} /\ e[2] \in ToSet(it.code)
  \/ e = <<"code", e[2]>> /\ p = 11 /\ e[2] \in ToSet(it.code)
  \/ e = <<"coercion type", e[2]>> /\ p = 6 /\ e[2] \in ToSet(it.coercions) /\ ~IsType(it) /\ ~IsCoercion(it)
  \/ e = <<"data type", e[2]>> /\ p \in {6, 11} /\ e[2] \in ToSet(it.data)
  \/ e = <<"value", e[2]>> /\ p = 11 /\ e[2] \in ToSet(it.data)
  \/ e = <<"value", e[2]>> /\ p = 7 /\ e[2] \in ToSet(it.data) /\ it.form \in {".alias", ".cast"}

\* The entries for labels.
LEMMA InFacts ==
  ASSUME NEW t, NEW s, NEW e \in In(t, s)
  PROVE  e = <<t, e[2]>> /\ e[2] \in ToSet(s)
<1>1. PICK x \in ToSet(s) : e = <<t, x>>
  BY DEF In
<1>2. <<t, x>>[1] = t /\ <<t, x>>[2] = x
  OBVIOUS
<1> QED BY <1>1, <1>2

\* The labels of a tuple.
LEMMA FewFacts ==
  /\ \A a : ToSet(<<a>>) = {a}
  /\ \A a, b : ToSet(<<a, b>>) = {a, b}
  /\ \A a, b, c : ToSet(<<a, b, c>>) = {a, b, c}
<1>1. \A a : ToSet(<<a>>) = {a}
  BY DEF ToSet
<1>2. \A a, b : ToSet(<<a, b>>) = {a, b}
  BY DEF ToSet
<1>3. \A a, b, c : ToSet(<<a, b, c>>) = {a, b, c}
  BY DEF ToSet
<1> QED BY <1>1, <1>2, <1>3

\* The names in a .list's signature.
LEMMA ListFacts ==
  ASSUME NEW s \in Seq(Items)
  PROVE  ToSet(<<ListType>> \o s) = {ListType} \cup ToSet(s)
<1>1. <<ListType>> \in Seq(Items)
  BY CompilerNames
<1>2. ToSet(<<ListType>>) = {ListType}
  BY FewFacts
<1>3. PICK u : u = <<ListType>>
  OBVIOUS
<1>4. u \in Seq(Items) /\ ToSet(u) = {ListType}
  BY <1>1, <1>2, <1>3
<1>5. u \o s \in Seq(Items) /\ ToSet(u \o s) = ToSet(u) \cup ToSet(s)
  BY <1>4, ConcatSet
<1> QED BY <1>3, <1>4, <1>5

\* The globals of code among the names.
LEMMA GlobalsFacts ==
  ASSUME NEW it, Parsed(it)
  PROVE  ToSet(Globals(it.data)) \subseteq ToSet(it.data) \cap Items
<1>1. PICK S : S = IF IsCode(it) THEN Items \cup {Rune, Natural} ELSE Items
  OBVIOUS
<1>2. it.data \in Seq(S)
  BY <1>1 DEF Parsed
<1>3. Among(it.data, Items) \in Seq(S \cap Items) /\ ToSet(Among(it.data, Items)) = ToSet(it.data) \cap Items
  BY <1>2, AmongFacts
<1> QED BY <1>3 DEF Globals

\* A name on an item: the sort follows it, or is known not to.
Accounted(i, x) == x \in ToSet(Edges(Item(i))) \/ x \in Unfollowed(i)

\* The sort follows the names on code but for the globals from the first .rune on.
LEMMA CodeFollowed ==
  ASSUME NEW i, NEW it, it = Item(i), Parsed(it), IsCode(it),
         NEW x \in ToSet(it.types) \cup ToSet(it.code) \cup ToSet(it.coercions) \cup ToSet(Globals(it.data))
  PROVE  Accounted(i, x)
<1>1. ToSet(Edges(it)) = ToSet(it.types) \cup ToSet(it.code) \cup ToSet(it.coercions) \cup (ToSet(Walked(it)) \cap Items)
  BY EdgesFacts
<1>2. ToSet(Globals(it.data)) \subseteq ToSet(it.data) \cap Items
  BY GlobalsFacts
<1>3. Unfollowed(i) = ToSet(it.data) \ ToSet(Walked(it))
  <2>1. it.form # ".list" /\ it.form # ".regex"
    BY DEF IsCode, CodeForms
  <2>2. PICK U, c : U = ToSet(it.data) \ ToSet(Walked(it)) /\ c = IsCode(Item(i))
    OBVIOUS
  <2>3. c
    BY <2>2
  <2>4. Unfollowed(i) = CASE c -> U
                          [] it.form = ".list" -> ToSet(it.types)
                          [] it.form = ".regex" -> {RegexClassType}
                          [] OTHER -> {}
    BY <2>2 DEF Unfollowed
  <2> QED BY <2>1, <2>2, <2>3, <2>4
<1> QED BY <1>1, <1>2, <1>3 DEF Accounted

\* The edges of data, form by form.
DataFacts(it) ==
  \/ it.form = ".closure" /\ ToSet(Edges(it)) = ToSet(it.code) \cup ToSet(it.types)
  \/ it.form = ".record" /\ ToSet(Edges(it)) = ToSet(it.data) \cup ToSet(it.types)
  \/ it.form = ".constr" /\ ToSet(Edges(it)) = ToSet(it.data) \cup ToSet(it.types)
  \/ it.form = ".undefined" /\ ToSet(Edges(it)) = ToSet(it.data) \cup ToSet(it.types)
  \/ it.form = ".alias" /\ ToSet(Edges(it)) = ToSet(it.data) \cup ToSet(it.types)
  \/ it.form = ".rune"
  \/ it.form = ".string" /\ ToSet(Edges(it)) = {ListType, RuneType} \cup ToSet(it.data)
  \/ it.form = ".list" /\ ToSet(Edges(it)) = {ListType} \cup ToSet(it.data)
  \/ it.form = ".regex" /\ ToSet(Edges(it)) = {RegexType, RuneType} \cup ToSet(it.data)
  \/ it.form = ".cast" /\ ToSet(Edges(it)) = ToSet(it.data) \cup ToSet(it.coercions)

\* Every item of data is one of them.
LEMMA DataForm ==
  ASSUME NEW it, Parsed(it), IsData(it)
  PROVE  DataFacts(it)
<1>1. PICK f, E : f = it.form /\ E = ToSet(Edges(it))
  OBVIOUS
<1>2. f \in DataForms
  BY <1>1 DEF IsData
<1>3. E = CASE f = ".closure" -> ToSet(it.code) \cup ToSet(it.types)
            [] f \in {".record", ".constr", ".undefined", ".alias"} -> ToSet(it.data) \cup ToSet(it.types)
            [] f = ".rune" -> {}
            [] f = ".string" -> {ListType, RuneType} \cup ToSet(it.data)
            [] f = ".list" -> {ListType} \cup ToSet(it.data)
            [] f = ".regex" -> {RegexType, RuneType} \cup ToSet(it.data)
            [] f = ".cast" -> ToSet(it.data) \cup ToSet(it.coercions)
  BY <1>1, EdgesFacts
<1>4. CASE f = ".closure"
  BY <1>1, <1>3, <1>4 DEF DataFacts
<1>5. CASE f \in {".record", ".constr", ".undefined", ".alias"}
  <2>1. E = ToSet(it.data) \cup ToSet(it.types)
    BY <1>3, <1>5
  <2> QED BY <1>1, <1>5, <2>1 DEF DataFacts
<1>6. CASE f = ".rune"
  BY <1>1, <1>6 DEF DataFacts
<1>7. CASE f = ".string"
  BY <1>1, <1>3, <1>7 DEF DataFacts
<1>8. CASE f = ".list"
  BY <1>1, <1>3, <1>8 DEF DataFacts
<1>9. CASE f = ".regex"
  BY <1>1, <1>3, <1>9 DEF DataFacts
<1>10. CASE f = ".cast"
  BY <1>1, <1>3, <1>10 DEF DataFacts
<1> QED BY <1>2, <1>4, <1>5, <1>6, <1>7, <1>8, <1>9, <1>10 DEF DataForms

\* What the sort does not follow of data.
LEMMA DataUnfollowed ==
  ASSUME NEW i, NEW it, it = Item(i), Parsed(it), IsData(it)
  PROVE  /\ it.form = ".list" => Unfollowed(i) = ToSet(it.types)
         /\ it.form = ".regex" => Unfollowed(i) = {RegexClassType}
<1>1. ~IsCode(it)
  BY KindFacts DEF OneKind
<1> QED BY <1>1 DEF Unfollowed

\* The types of an abstract type.
LEMMA DefinitionFacts ==
  ASSUME NEW i, NEW it, it = Item(i), Parsed(it), NEW e \in DefinitionNeeds(it)
  PROVE  NeedOf(3, it, e) /\ Accounted(i, e[2])
<1>1. it.form = ".tyabstract" /\ e \in In("type", it.types)
  BY DEF DefinitionNeeds
<1>2. e = <<"type", e[2]>> /\ e[2] \in ToSet(it.types)
  BY <1>1, InFacts
<1>3. Edges(it) = it.types
  BY <1>1 DEF Edges, TypeEdges, IsData, IsCode, DataForms, CodeForms
<1> QED BY <1>2, <1>3 DEF NeedOf, Accounted

\* The types of a signature.
LEMMA SignatureFacts ==
  ASSUME NEW i, NEW it, it = Item(i), Parsed(it), NEW e \in SignatureNeeds(it)
  PROVE  (IsData(it) => NeedOf(5, it, e) /\ Accounted(i, e[2])) /\ IsData(it)
<1>1. PICK f, ts : f = it.form /\ ts = it.types
  OBVIOUS
<1>2. ts \in Seq(Items)
  BY <1>1 DEF Parsed
<1>3. CASE f = ".list"
  <2>1. e \in In("type", <<ListType>> \o ts)
    BY <1>1, <1>3 DEF SignatureNeeds
  <2>2. e = <<"type", e[2]>> /\ e[2] \in {ListType} \cup ToSet(ts)
    BY <1>2, <2>1, InFacts, ListFacts
  <2>3. IsData(it)
    BY <1>1, <1>3 DEF IsData, DataForms
  <2>4. DataFacts(it) /\ Unfollowed(i) = ToSet(ts)
    BY <1>1, <1>3, <2>3, DataForm, DataUnfollowed
  <2>5. ListType \in ToSet(Edges(it))
    BY <1>1, <1>3, <2>4 DEF DataFacts
  <2> QED BY <1>1, <2>2, <2>3, <2>4, <2>5 DEF NeedOf, Accounted
<1>4. CASE f = ".regex"
  <2>1. e \in In("type", <<RegexType, RuneType>>)
    BY <1>1, <1>4 DEF SignatureNeeds
  <2>2. e = <<"type", e[2]>> /\ e[2] \in {RegexType, RuneType}
    <3>1. PICK u : u = <<RegexType, RuneType>>
      OBVIOUS
    <3>2. ToSet(u) = {RegexType, RuneType}
      BY <3>1, FewFacts
    <3>3. e \in In("type", u)
      BY <2>1, <3>1
    <3> QED BY <3>2, <3>3, InFacts
  <2>3. IsData(it)
    BY <1>1, <1>4 DEF IsData, DataForms
  <2>4. DataFacts(it)
    BY <2>3, DataForm
  <2>5. {RegexType, RuneType} \subseteq ToSet(Edges(it))
    BY <1>1, <1>4, <2>4 DEF DataFacts
  <2> QED BY <2>2, <2>3, <2>5 DEF NeedOf, Accounted
<1>5. CASE f # ".list" /\ f # ".regex"
  <2>1. Signed(it) /\ e \in In("type", ts)
    BY <1>1, <1>5 DEF SignatureNeeds
  <2>2. e = <<"type", e[2]>> /\ e[2] \in ToSet(ts)
    BY <2>1, InFacts
  <2>3. f \in {".constr", ".undefined", ".alias", ".closure", ".record"}
    BY <1>1, <1>5, <2>1 DEF Signed
  <2>4. IsData(it)
    BY <1>1, <2>3 DEF IsData, DataForms
  <2>5. DataFacts(it)
    BY <2>4, DataForm
  <2>6. ToSet(ts) \subseteq ToSet(Edges(it))
    BY <1>1, <2>3, <2>5 DEF DataFacts
  <2> QED BY <1>1, <2>2, <2>4, <2>6 DEF NeedOf, Accounted
<1> QED BY <1>3, <1>4, <1>5

\* The entries for the check of data.
LEMMA CheckDataFacts ==
  ASSUME NEW i, NEW it, it = Item(i), Parsed(it), IsData(it), NEW e \in CheckDataNeeds(it)
  PROVE  NeedOf(6, it, e) /\ Accounted(i, e[2])
<1>1. DataFacts(it) /\ ~IsType(it) /\ ~IsCoercion(it)
  BY DataForm, KindFacts DEF OneKind
<1>2. PICK f : f = it.form
  OBVIOUS
<1>3. CASE f = ".closure"
  <2>1. e \in In("code type", it.code) \/ e \in In("type", it.types)
    BY <1>2, <1>3 DEF CheckDataNeeds
  <2>2. \/ e = <<"code type", e[2]>> /\ e[2] \in ToSet(it.code)
        \/ e = <<"type", e[2]>> /\ e[2] \in ToSet(it.types)
    BY <2>1, InFacts
  <2>3. ToSet(Edges(it)) = ToSet(it.code) \cup ToSet(it.types)
    BY <1>1, <1>2, <1>3 DEF DataFacts
  <2> QED BY <2>2, <2>3 DEF NeedOf, Accounted
<1>4. CASE f = ".record"
  <2>1. e = <<"data type", e[2]>> /\ e[2] \in ToSet(it.data)
    BY <1>2, <1>4, InFacts DEF CheckDataNeeds
  <2>2. ToSet(it.data) \subseteq ToSet(Edges(it))
    BY <1>1, <1>2, <1>4 DEF DataFacts
  <2> QED BY <2>1, <2>2 DEF NeedOf, Accounted
<1>5. CASE f \in {".constr", ".alias"}
  <2>1. e \in In("type", it.types) \/ e \in In("data type", it.data)
    BY <1>2, <1>5 DEF CheckDataNeeds
  <2>2. \/ e = <<"type", e[2]>> /\ e[2] \in ToSet(it.types)
        \/ e = <<"data type", e[2]>> /\ e[2] \in ToSet(it.data)
    BY <2>1, InFacts
  <2>3. ToSet(Edges(it)) = ToSet(it.data) \cup ToSet(it.types)
    BY <1>1, <1>2, <1>5 DEF DataFacts
  <2> QED BY <2>2, <2>3 DEF NeedOf, Accounted
<1>6. CASE f = ".list"
  <2>1. e \in In("type", it.types) \/ e \in In("data type", it.data)
    BY <1>2, <1>6 DEF CheckDataNeeds
  <2>2. \/ e = <<"type", e[2]>> /\ e[2] \in ToSet(it.types)
        \/ e = <<"data type", e[2]>> /\ e[2] \in ToSet(it.data)
    BY <2>1, InFacts
  <2>3. ToSet(it.data) \subseteq ToSet(Edges(it)) /\ Unfollowed(i) = ToSet(it.types)
    BY <1>1, <1>2, <1>6, DataUnfollowed DEF DataFacts
  <2> QED BY <2>2, <2>3 DEF NeedOf, Accounted
<1>7. CASE f = ".string"
  <2>1. e \in In("type", <<ListType, RuneType>>) \/ e \in In("data type", it.data)
    BY <1>2, <1>7 DEF CheckDataNeeds
  <2>2. \/ e = <<"type", e[2]>> /\ e[2] \in {ListType, RuneType}
        \/ e = <<"data type", e[2]>> /\ e[2] \in ToSet(it.data)
    <3>1. PICK u : u = <<ListType, RuneType>>
      OBVIOUS
    <3>2. ToSet(u) = {ListType, RuneType}
      BY <3>1, FewFacts
    <3>3. e \in In("type", u) \/ e \in In("data type", it.data)
      BY <2>1, <3>1
    <3> QED BY <3>2, <3>3, InFacts
  <2>3. ToSet(Edges(it)) = {ListType, RuneType} \cup ToSet(it.data)
    BY <1>1, <1>2, <1>7 DEF DataFacts
  <2> QED BY <2>2, <2>3 DEF NeedOf, Accounted
<1>8. CASE f = ".regex"
  <2>1. e \in In("type", <<RegexType, RuneType>>) \/ e \in In("data type", it.data)
    BY <1>2, <1>8 DEF CheckDataNeeds
  <2>2. \/ e = <<"type", e[2]>> /\ e[2] \in {RegexType, RuneType}
        \/ e = <<"data type", e[2]>> /\ e[2] \in ToSet(it.data)
    <3>1. PICK u : u = <<RegexType, RuneType>>
      OBVIOUS
    <3>2. ToSet(u) = {RegexType, RuneType}
      BY <3>1, FewFacts
    <3>3. e \in In("type", u) \/ e \in In("data type", it.data)
      BY <2>1, <3>1
    <3> QED BY <3>2, <3>3, InFacts
  <2>3. ToSet(Edges(it)) = {RegexType, RuneType} \cup ToSet(it.data)
    BY <1>1, <1>2, <1>8 DEF DataFacts
  <2> QED BY <2>2, <2>3 DEF NeedOf, Accounted
<1>9. CASE f = ".undefined"
  <2>1. e \in In("type", it.types) \/ e \in In("kind", it.types)
    BY <1>2, <1>9 DEF CheckDataNeeds
  <2>2. \/ e = <<"type", e[2]>> /\ e[2] \in ToSet(it.types)
        \/ e = <<"kind", e[2]>> /\ e[2] \in ToSet(it.types)
    BY <2>1, InFacts
  <2>3. ToSet(Edges(it)) = ToSet(it.data) \cup ToSet(it.types)
    BY <1>1, <1>2, <1>9 DEF DataFacts
  <2> QED BY <2>2, <2>3 DEF NeedOf, Accounted
<1>10. CASE f = ".cast"
  <2>1. e \in In("data type", it.data) \/ e \in In("coercion type", it.coercions)
    BY <1>2, <1>10 DEF CheckDataNeeds
  <2>2. \/ e = <<"data type", e[2]>> /\ e[2] \in ToSet(it.data)
        \/ e = <<"coercion type", e[2]>> /\ e[2] \in ToSet(it.coercions)
    BY <2>1, InFacts
  <2>3. ToSet(Edges(it)) = ToSet(it.data) \cup ToSet(it.coercions)
    BY <1>1, <1>2, <1>10 DEF DataFacts
  <2> QED BY <1>1, <2>2, <2>3 DEF NeedOf, Accounted
<1>11. CASE f = ".rune"
  BY <1>2, <1>11 DEF CheckDataNeeds
<1>12. f \in DataForms
  BY <1>2 DEF IsData
<1> QED BY <1>3, <1>4, <1>5, <1>6, <1>7, <1>8, <1>9, <1>10, <1>11, <1>12 DEF DataForms

\* The entries for the check of code.
LEMMA CheckCodeFacts ==
  ASSUME NEW i, NEW it, it = Item(i), Parsed(it), IsCode(it), NEW e \in CheckCodeNeeds(it)
  PROVE  NeedOf(6, it, e) /\ Accounted(i, e[2])
<1>1. ~IsType(it) /\ ~IsCoercion(it)
  BY KindFacts DEF OneKind
<1>2. PICK g : g = Globals(it.data)
  OBVIOUS
<1>3. ToSet(g) \subseteq ToSet(it.data)
  BY <1>2, GlobalsFacts
<1>4. \/ e \in In("type", it.types)
      \/ e \in {<<"kind", t>> : t \in ToSet(it.types) \ it.ext}
      \/ e \in In("code type", it.code)
      \/ e \in In("coercion type", it.coercions)
      \/ e \in In("data type", g)
  BY <1>2 DEF CheckCodeNeeds
<1>5. CASE e \in In("type", it.types)
  <2>1. e = <<"type", e[2]>> /\ e[2] \in ToSet(it.types)
    BY <1>5, InFacts
  <2> QED BY <2>1, CodeFollowed DEF NeedOf
<1>6. CASE e \in {<<"kind", t>> : t \in ToSet(it.types) \ it.ext}
  <2>1. PICK t \in ToSet(it.types) : e = <<"kind", t>>
    BY <1>6
  <2>2. e = <<"kind", e[2]>> /\ e[2] \in ToSet(it.types)
    BY <2>1
  <2> QED BY <2>2, CodeFollowed DEF NeedOf
<1>7. CASE e \in In("code type", it.code)
  <2>1. e = <<"code type", e[2]>> /\ e[2] \in ToSet(it.code)
    BY <1>7, InFacts
  <2> QED BY <2>1, CodeFollowed DEF NeedOf
<1>8. CASE e \in In("coercion type", it.coercions)
  <2>1. e = <<"coercion type", e[2]>> /\ e[2] \in ToSet(it.coercions)
    BY <1>8, InFacts
  <2> QED BY <1>1, <2>1, CodeFollowed DEF NeedOf
<1>9. CASE e \in In("data type", g)
  <2>1. e = <<"data type", e[2]>> /\ e[2] \in ToSet(g)
    BY <1>9, InFacts
  <2>2. Accounted(i, e[2])
    BY <1>2, <2>1, CodeFollowed
  <2> QED BY <1>3, <2>1, <2>2 DEF NeedOf
<1> QED BY <1>4, <1>5, <1>6, <1>7, <1>8, <1>9

\* The entries for the check of any item.
LEMMA CheckFacts ==
  ASSUME NEW i, NEW it, it = Item(i), Parsed(it), NEW e \in CheckNeeds(it)
  PROVE  NeedOf(6, it, e) /\ Accounted(i, e[2])
<1>1. OneKind(it)
  BY KindFacts
<1>2. CASE IsData(it)
  <2>1. e \in CheckDataNeeds(it)
    BY <1>1, <1>2 DEF CheckNeeds, OneKind
  <2> QED BY <1>2, <2>1, CheckDataFacts
<1>3. CASE IsCode(it)
  <2>1. e \in CheckCodeNeeds(it)
    BY <1>1, <1>3 DEF CheckNeeds, OneKind
  <2> QED BY <1>3, <2>1, CheckCodeFacts
<1>4. CASE IsType(it)
  BY <1>1, <1>4 DEF CheckNeeds, OneKind
<1>5. CASE IsCoercion(it)
  <2>1. e \in In("type", it.types) \/ e \in In("definition", <<Head(it.types)>>)
    BY <1>1, <1>5 DEF CheckNeeds, OneKind
  <2>2. it.types # <<>> /\ it.types \in Seq(Items)
    <3>1. it.form = ".tycoercion"
      BY <1>5 DEF IsCoercion, CoercionForms
    <3> QED BY <3>1 DEF Parsed, WellFormed
  <2>3. PICK h : h = Head(it.types)
    OBVIOUS
  <2>4. h \in ToSet(it.types) /\ ToSet(<<h>>) = {h}
    BY <2>2, <2>3, HeadTailSet, FewFacts
  <2>5. \/ e = <<"type", e[2]>> /\ e[2] \in ToSet(it.types)
        \/ e = <<"definition", e[2]>> /\ e[2] \in ToSet(it.types)
    <3>1. CASE e \in In("type", it.types)
      BY <3>1, InFacts
    <3>2. CASE e \in In("definition", <<h>>)
      BY <2>4, <3>2, InFacts
    <3> QED BY <2>1, <2>3, <3>1, <3>2
  <2>6. Edges(it) = it.types
    BY <1>1, <1>5 DEF Edges, TypeEdges, OneKind
  <2> QED BY <2>5, <2>6 DEF NeedOf, Accounted
<1> QED BY <1>1, <1>2, <1>3, <1>4, <1>5 DEF OneKind

\* The values for the size of data.
LEMMA SizeDataFacts ==
  ASSUME NEW i, NEW it, it = Item(i), Parsed(it), NEW e \in SizeDataNeeds(it)
  PROVE  NeedOf(7, it, e) /\ Accounted(i, e[2])
<1>1. it.form \in {".alias", ".cast"} /\ e \in In("value", it.data)
  BY DEF SizeDataNeeds
<1>2. e = <<"value", e[2]>> /\ e[2] \in ToSet(it.data)
  BY <1>1, InFacts
<1>3. IsData(it)
  BY <1>1 DEF IsData, DataForms
<1>4. DataFacts(it)
  BY <1>3, DataForm
<1>5. ToSet(it.data) \subseteq ToSet(Edges(it))
  BY <1>1, <1>4 DEF DataFacts
<1> QED BY <1>1, <1>2, <1>5 DEF NeedOf, Accounted

\* The types of code for the size of code.
LEMMA SizeCodeFacts ==
  ASSUME NEW i, NEW it, it = Item(i), Parsed(it), NEW e \in SizeCodeNeeds(it)
  PROVE  NeedOf(9, it, e) /\ Accounted(i, e[2])
<1>1. IsCode(it) /\ e \in In("code type", it.code)
  BY DEF SizeCodeNeeds
<1>2. e = <<"code type", e[2]>> /\ e[2] \in ToSet(it.code)
  BY <1>1, InFacts
<1> QED BY <1>1, <1>2, CodeFollowed DEF NeedOf

\* The entries for the byte code and the values.
LEMMA CompileFacts ==
  ASSUME NEW i, NEW it, it = Item(i), Parsed(it), NEW e \in CompileNeeds(it)
  PROVE  NeedOf(11, it, e) /\ Accounted(i, e[2])
<1>1. PICK f : f = it.form
  OBVIOUS
<1>2. f \in {".closure", ".record", ".list", ".constr", ".regex"} => ~IsCode(it)
  BY <1>1 DEF IsCode, CodeForms
<1>3. CASE f = ".closure"
  <2>0. e \in In("code", it.code)
    BY <1>1, <1>2, <1>3 DEF CompileNeeds
  <2>1. e = <<"code", e[2]>> /\ e[2] \in ToSet(it.code)
    BY <2>0, InFacts
  <2>2. DataFacts(it)
    BY <1>1, <1>3, DataForm DEF IsData, DataForms
  <2>3. ToSet(it.code) \subseteq ToSet(Edges(it))
    BY <1>1, <1>3, <2>2 DEF DataFacts
  <2> QED BY <2>1, <2>3 DEF NeedOf, Accounted
<1>4. CASE f \in {".record", ".list"}
  <2>0. e \in In("value", it.data)
    BY <1>1, <1>2, <1>4 DEF CompileNeeds
  <2>1. e = <<"value", e[2]>> /\ e[2] \in ToSet(it.data)
    BY <2>0, InFacts
  <2>2. DataFacts(it)
    BY <1>1, <1>4, DataForm DEF IsData, DataForms
  <2>3. ToSet(it.data) \subseteq ToSet(Edges(it))
    BY <1>1, <1>4, <2>2 DEF DataFacts
  <2> QED BY <2>1, <2>3 DEF NeedOf, Accounted
<1>5. CASE f = ".constr"
  <2>1. e \in In("type", it.types) \/ e \in In("value", it.data)
    BY <1>1, <1>2, <1>5 DEF CompileNeeds
  <2>2. \/ e = <<"type", e[2]>> /\ e[2] \in ToSet(it.types)
        \/ e = <<"value", e[2]>> /\ e[2] \in ToSet(it.data)
    BY <2>1, InFacts
  <2>3. DataFacts(it)
    BY <1>1, <1>5, DataForm DEF IsData, DataForms
  <2>4. ToSet(Edges(it)) = ToSet(it.data) \cup ToSet(it.types)
    BY <1>1, <1>5, <2>3 DEF DataFacts
  <2> QED BY <2>2, <2>4 DEF NeedOf, Accounted
<1>6. CASE f = ".regex"
  <2>1. PICK u, v : u = <<RegexType, RegexClassType, RuneType>> /\ v = <<RegexType, RegexClassType>>
    OBVIOUS
  <2>2. ToSet(u) = {RegexType, RegexClassType, RuneType} /\ ToSet(v) = {RegexType, RegexClassType}
    <3>1. ToSet(u) = {RegexType, RegexClassType, RuneType}
      BY <2>1, FewFacts, Zenon
    <3>2. ToSet(v) = {RegexType, RegexClassType}
      BY <2>1, FewFacts
    <3> QED BY <3>1, <3>2
  <2>3. e \in In("type", u) \/ e \in In("definition", v) \/ e \in In("value", it.data)
    BY <1>1, <1>2, <1>6, <2>1 DEF CompileNeeds
  <2>4. \/ e = <<"type", e[2]>> /\ e[2] \in {RegexType, RegexClassType, RuneType}
        \/ e = <<"definition", e[2]>> /\ e[2] \in {RegexType, RegexClassType}
        \/ e = <<"value", e[2]>> /\ e[2] \in ToSet(it.data)
    BY <2>2, <2>3, InFacts
  <2>5. IsData(it)
    BY <1>1, <1>6 DEF IsData, DataForms
  <2>6. DataFacts(it) /\ Unfollowed(i) = {RegexClassType}
    BY <1>1, <1>6, <2>5, DataForm, DataUnfollowed
  <2>7. ToSet(Edges(it)) = {RegexType, RuneType} \cup ToSet(it.data)
    BY <1>1, <1>6, <2>6 DEF DataFacts
  <2>8. Accounted(i, e[2])
    BY <2>4, <2>6, <2>7 DEF Accounted
  <2> QED BY <2>4, <2>8 DEF NeedOf
<1>7. CASE IsCode(it)
  <2>1. f \notin {".closure", ".record", ".list", ".constr", ".regex"}
    BY <1>1, <1>7 DEF IsCode, CodeForms
  <2>2. PICK g : g = Globals(it.data)
    OBVIOUS
  <2>3. ToSet(g) \subseteq ToSet(it.data)
    BY <2>2, GlobalsFacts
  <2>4. \/ e \in In("type", it.types)
        \/ e \in In("code", it.code)
        \/ e \in In("code type", it.code)
        \/ e \in In("value", g)
        \/ e \in In("data type", g)
    BY <1>1, <1>7, <2>1, <2>2 DEF CompileNeeds
  <2>5. \/ e = <<"type", e[2]>> /\ e[2] \in ToSet(it.types)
        \/ e = <<"code", e[2]>> /\ e[2] \in ToSet(it.code)
        \/ e = <<"code type", e[2]>> /\ e[2] \in ToSet(it.code)
        \/ e = <<"value", e[2]>> /\ e[2] \in ToSet(g)
        \/ e = <<"data type", e[2]>> /\ e[2] \in ToSet(g)
    BY <2>4, InFacts
  <2>6. Accounted(i, e[2])
    BY <1>7, <2>2, <2>5, CodeFollowed
  <2> QED BY <2>3, <2>5, <2>6 DEF NeedOf
<1>8. CASE ~IsCode(it) /\ f \notin {".closure", ".record", ".list", ".constr", ".regex"}
  BY <1>1, <1>8 DEF CompileNeeds
<1> QED BY <1>3, <1>4, <1>5, <1>6, <1>7, <1>8

\* What a phase asks for, of any item.
LEMMA NeedsFacts ==
  ASSUME NEW p \in DOMAIN Phases, NEW i, NEW it, it = Item(i), Parsed(it), NEW e \in Needs(Phases[p], it)
  PROVE  NeedOf(p, it, e) /\ Accounted(i, e[2])
<1>1. p = 1 \/ p = 2 \/ p = 3 \/ p = 4 \/ p = 5 \/ p = 6 \/ p = 7 \/ p = 8 \/ p = 9 \/ p = 10 \/ p = 11
  BY PhasesLength
<1>2. CASE p = 3
  <2>1. e \in DefinitionNeeds(it)
    BY <1>2, PhaseNames DEF Needs
  <2> QED BY <1>2, <2>1, DefinitionFacts
<1>3. CASE p = 5
  <2>1. e \in SignatureNeeds(it)
    BY <1>3, PhaseNames DEF Needs
  <2> QED BY <1>3, <2>1, SignatureFacts
<1>4. CASE p = 6
  <2>1. e \in CheckNeeds(it)
    BY <1>4, PhaseNames DEF Needs
  <2> QED BY <1>4, <2>1, CheckFacts
<1>5. CASE p = 7
  <2>1. e \in SizeDataNeeds(it)
    BY <1>5, PhaseNames DEF Needs
  <2> QED BY <1>5, <2>1, SizeDataFacts
<1>6. CASE p = 9
  <2>1. e \in SizeCodeNeeds(it)
    BY <1>6, PhaseNames DEF Needs
  <2> QED BY <1>6, <2>1, SizeCodeFacts
<1>7. CASE p = 11
  <2>1. e \in CompileNeeds(it)
    BY <1>7, PhaseNames DEF Needs
  <2> QED BY <1>7, <2>1, CompileFacts
<1>8. CASE p = 1 \/ p = 2 \/ p = 4 \/ p = 8 \/ p = 10
  BY <1>8, PhaseNames DEF Needs
<1> QED BY <1>1, <1>2, <1>3, <1>4, <1>5, <1>6, <1>7, <1>8

-----------------------------------------------------------------------------
(* Who makes what a phase asks for *)

\* The kinds of entries there are for a kind of item.
Fits(a, it) ==
  \/ a \in {"type", "kind", "definition"} /\ IsType(it)
  \/ a \in {"code type", "code"} /\ IsCode(it)
  \/ a = "coercion type" /\ IsCoercion(it)
  \/ a \in {"data type", "value"} /\ IsData(it)

\* The phase that makes an entry, other than that of the types.
MadeBy(m, a, it) ==
  \/ m = 1 /\ a = "kind" /\ IsType(it) /\ DeclaresKind(it)
  \/ m = 4 /\ a = "kind" /\ IsType(it) /\ ~DeclaresKind(it)
  \/ m = 3 /\ a = "definition" /\ it.form = ".tyabstract"
  \/ m = 5 /\ a = "data type" /\ IsData(it) /\ Signed(it)
  \/ m = 6 /\ a = "data type" /\ IsData(it) /\ ~Signed(it)
  \/ m = 6 /\ a = "code type" /\ IsCode(it)
  \/ m = 6 /\ a = "coercion type" /\ IsCoercion(it)
  \/ m = 8 /\ a = "value" /\ IsData(it)
  \/ m = 10 /\ a = "code" /\ IsCode(it)

\* What a name names is of the kind the name is for.
LEMMA FitFacts ==
  ASSUME SortTypes, file # 0, NEW i, Named(i), NEW x, Named(x), NEW e, NEW p, NeedOf(p, Item(i), e), e[2] = x
  PROVE  Fits(e[1], Item(x)) /\ e = <<e[1], x>>
<1>1. program \in Programs /\ table \in DOMAIN program.tables
  BY TableFacts DEF SortTypes
<1>2. PICK it, named : it = Item(i) /\ named = Item(x)
  OBVIOUS
<1>3. \E d \in DOMAIN program.tables : i \in DOMAIN program.tables[d] /\ it = program.tables[d][i]
  BY <1>1, <1>2, LookupFacts DEF Named, Item, ItemOf
<1>4. \E d \in DOMAIN program.tables : x \in DOMAIN program.tables[d] /\ named = program.tables[d][x]
  BY <1>1, <1>2, LookupFacts DEF Named, Item, ItemOf
<1>5. PICK d \in DOMAIN program.tables : i \in DOMAIN program.tables[d] /\ it = program.tables[d][i]
  BY <1>3
<1>6. PICK u \in DOMAIN program.tables : x \in DOMAIN program.tables[u] /\ named = program.tables[u][x]
  BY <1>4
<1>7. /\ x \in ToSet(it.types) \cup {ListType, RuneType, RegexType, RegexClassType} => IsType(named)
      /\ x \in ToSet(it.code) => IsCode(named)
      /\ x \in ToSet(it.coercions) => IsCoercion(named)
      /\ x \in ToSet(it.data) => IsData(named)
  BY <1>1, <1>5, <1>6, NamesFit
<1>8. PICK a : a = e[1]
  OBVIOUS
<1>9. \A b : <<b, x>>[1] = b
  OBVIOUS
<1>10. \/ a = "type" /\ IsType(named) /\ e = <<a, x>>
       \/ a = "kind" /\ IsType(named) /\ e = <<a, x>>
       \/ a = "definition" /\ IsType(named) /\ e = <<a, x>>
       \/ a = "code type" /\ IsCode(named) /\ e = <<a, x>>
       \/ a = "code" /\ IsCode(named) /\ e = <<a, x>>
       \/ a = "coercion type" /\ IsCoercion(named) /\ e = <<a, x>>
       \/ a = "data type" /\ IsData(named) /\ e = <<a, x>>
       \/ a = "value" /\ IsData(named) /\ e = <<a, x>>
  BY <1>2, <1>7, <1>8, <1>9 DEF NeedOf
<1>11. Fits(a, named) /\ e = <<a, x>>
  BY <1>10 DEF Fits
<1> QED BY <1>2, <1>8, <1>11

\* The phase makes it.
LEMMA MakerSets ==
  ASSUME NEW m, NEW a, NEW i, NEW it, Parsed(it), MadeBy(m, a, it)
  PROVE  m \in DOMAIN Phases /\ <<a, i>> \in Sets(Phases[m], i, it)
<1>1. OneKind(it)
  BY KindFacts
<1>2. CASE m = 1 /\ a = "kind" /\ IsType(it) /\ DeclaresKind(it)
  <2>1. m \in DOMAIN Phases
    BY <1>2, PhasesLength
  <2>2. Sets(Phases[m], i, it) = DeclarationSets(i, it)
    BY <1>2, PhaseNames DEF Sets
  <2>3. <<a, i>> \in DeclarationSets(i, it)
    BY <1>2 DEF DeclarationSets
  <2> QED BY <2>1, <2>2, <2>3
<1>3. CASE m = 4 /\ a = "kind" /\ IsType(it) /\ ~DeclaresKind(it)
  <2>1. m \in DOMAIN Phases
    BY <1>3, PhasesLength
  <2>2. Sets(Phases[m], i, it) = KindCheckSets(i, it)
    BY <1>3, PhaseNames DEF Sets
  <2>3. <<a, i>> \in KindCheckSets(i, it)
    BY <1>3 DEF KindCheckSets
  <2> QED BY <2>1, <2>2, <2>3
<1>4. CASE m = 3 /\ a = "definition" /\ it.form = ".tyabstract"
  <2>1. m \in DOMAIN Phases
    BY <1>4, PhasesLength
  <2>2. Sets(Phases[m], i, it) = DefinitionSets(i, it)
    BY <1>4, PhaseNames DEF Sets
  <2>3. <<a, i>> \in DefinitionSets(i, it)
    BY <1>4 DEF DefinitionSets
  <2> QED BY <2>1, <2>2, <2>3
<1>5. CASE m = 5 /\ a = "data type" /\ IsData(it) /\ Signed(it)
  <2>1. m = 5
    BY <1>5
  <2>2. m \in DOMAIN Phases
    BY <2>1, PhasesLength
  <2>3. Sets(Phases[m], i, it) = SignatureSets(i, it)
    BY <1>5, PhaseNames DEF Sets
  <2>4. <<a, i>> \in SignatureSets(i, it)
    BY <1>5 DEF SignatureSets
  <2> QED BY <2>2, <2>3, <2>4
<1>6. CASE m = 6 /\ a = "data type" /\ IsData(it) /\ ~Signed(it)
  <2>1. m = 6
    BY <1>6
  <2>2. m \in DOMAIN Phases
    BY <2>1, PhasesLength
  <2>3. Sets(Phases[m], i, it) = CheckSets(i, it)
    BY <1>6, PhaseNames DEF Sets
  <2>4. CheckSets(i, it) = CheckDataSets(i, it)
    BY <1>1, <1>6 DEF CheckSets, OneKind
  <2>5. <<a, i>> \in CheckDataSets(i, it)
    BY <1>6 DEF CheckDataSets
  <2> QED BY <2>2, <2>3, <2>4, <2>5
<1>7. CASE m = 6 /\ a = "code type" /\ IsCode(it)
  <2>1. m = 6
    BY <1>7
  <2>2. m \in DOMAIN Phases
    BY <2>1, PhasesLength
  <2>3. Sets(Phases[m], i, it) = CheckSets(i, it)
    BY <1>7, PhaseNames DEF Sets
  <2>4. CheckSets(i, it) = {<<"code type", i>>}
    BY <1>1, <1>7 DEF CheckSets, OneKind
  <2> QED BY <1>7, <2>2, <2>3, <2>4
<1>8. CASE m = 6 /\ a = "coercion type" /\ IsCoercion(it)
  <2>1. m = 6
    BY <1>8
  <2>2. m \in DOMAIN Phases
    BY <2>1, PhasesLength
  <2>3. Sets(Phases[m], i, it) = CheckSets(i, it)
    BY <1>8, PhaseNames DEF Sets
  <2>4. CheckSets(i, it) = {<<"coercion type", i>>}
    BY <1>1, <1>8 DEF CheckSets, OneKind
  <2> QED BY <1>8, <2>2, <2>3, <2>4
<1>9. CASE m = 8 /\ a = "value" /\ IsData(it)
  <2>1. m \in DOMAIN Phases
    BY <1>9, PhasesLength
  <2>2. Sets(Phases[m], i, it) = AllocDataSets(i, it)
    BY <1>9, PhaseNames DEF Sets
  <2>3. <<a, i>> \in AllocDataSets(i, it)
    BY <1>9 DEF AllocDataSets
  <2> QED BY <2>1, <2>2, <2>3
<1>10. CASE m = 10 /\ a = "code" /\ IsCode(it)
  <2>1. m \in DOMAIN Phases
    BY <1>10, PhasesLength
  <2>2. Sets(Phases[m], i, it) = AllocCodeSets(i, it)
    BY <1>10, PhaseNames DEF Sets
  <2>3. <<a, i>> \in AllocCodeSets(i, it)
    BY <1>10 DEF AllocCodeSets
  <2> QED BY <2>1, <2>2, <2>3
<1> QED BY <1>2, <1>3, <1>4, <1>5, <1>6, <1>7, <1>8, <1>9, <1>10 DEF MadeBy

\* An entry of a kind there is for the item has a phase.
LEMMA Maker ==
  ASSUME NEW a, NEW it, Fits(a, it), a # "type", a = "definition" => it.form = ".tyabstract"
  PROVE  \E m : MadeBy(m, a, it)
<1>1. CASE a = "kind"
  <2>1. IsType(it)
    BY <1>1 DEF Fits
  <2>2. MadeBy(1, a, it) \/ MadeBy(4, a, it)
    BY <1>1, <2>1 DEF MadeBy
  <2> QED BY <2>2
<1>2. CASE a = "definition"
  <2>1. MadeBy(3, a, it)
    BY <1>2 DEF MadeBy
  <2> QED BY <2>1
<1>3. CASE a = "data type"
  <2>1. IsData(it)
    BY <1>3 DEF Fits
  <2>2. MadeBy(5, a, it) \/ MadeBy(6, a, it)
    BY <1>3, <2>1 DEF MadeBy
  <2> QED BY <2>2
<1>4. CASE a = "code type" \/ a = "coercion type"
  <2>1. MadeBy(6, a, it)
    BY <1>4 DEF Fits, MadeBy
  <2> QED BY <2>1
<1>5. CASE a = "value"
  <2>1. MadeBy(8, a, it)
    BY <1>5 DEF Fits, MadeBy
  <2> QED BY <2>1
<1>6. CASE a = "code"
  <2>1. MadeBy(10, a, it)
    BY <1>6 DEF Fits, MadeBy
  <2> QED BY <2>1
<1> QED BY <1>1, <1>2, <1>3, <1>4, <1>5, <1>6 DEF Fits

\* Of an item of a group that is loaded every entry is there.
LEMMA ThereIfLoaded ==
  ASSUME LoadedMade, NEW k \in 1 .. loaded, NEW x \in ToSet(groups[k]), NEW a, Parsed(Item(x)),
         Fits(a, Item(x)), a = "definition" => Item(x).form = ".tyabstract"
  PROVE  <<a, x>> \in known
<1>1. CASE a = "type"
  <2>1. IsType(Item(x))
    BY <1>1 DEF Fits
  <2> QED BY <1>1, <2>1 DEF LoadedMade
<1>2. CASE a # "type"
  <2>1. PICK it : it = Item(x)
    OBVIOUS
  <2>2. PICK m : MadeBy(m, a, it)
    BY <1>2, <2>1, Maker
  <2>3. m \in DOMAIN Phases /\ <<a, x>> \in Sets(Phases[m], x, it)
    BY <2>1, <2>2, MakerSets
  <2> QED BY <2>1, <2>3 DEF LoadedMade
<1> QED BY <1>1, <1>2

\* Of an item of the group at work there are those of the phases that are over.
LEMMA ThereIfDone ==
  ASSUME PhasesMade, phase # 0, NEW q \in DOMAIN Group, NEW x, x = Group[q], NEW a, NEW m, Parsed(Item(x)),
         MadeBy(m, a, Item(x)), m < phase \/ (m = phase /\ q < position)
  PROVE  <<a, x>> \in known
<1>1. PICK it : it = Item(x)
  OBVIOUS
<1>2. m \in DOMAIN Phases /\ <<a, x>> \in Sets(Phases[m], x, it)
  BY <1>1, MakerSets
<1>3. Done(m, q)
  BY DEF Done
<1>4. Sets(Phases[m], Group[q], Item(Group[q])) \subseteq known
  BY <1>2, <1>3 DEF PhasesMade
<1> QED BY <1>1, <1>2, <1>4

\* And its type, after the phase of the types.
LEMMA TypeIfDone ==
  ASSUME PhasesMade, Compiling, phase \in DOMAIN Phases, 2 < phase, NEW q \in DOMAIN Group, IsType(Item(Group[q]))
  PROVE  <<"type", Group[q]>> \in known
<1>1. 2 \in DOMAIN Phases /\ phase # 0
  BY PhasesLength
<1>2. Done(2, q)
  BY DEF Done
<1>3. Group[q] \in types
  BY <1>1, <1>2 DEF PhasesMade
<1> QED BY <1>1, <1>3 DEF Compiling

\* Types and coercions need only types: a group that has a coercion and something else besides
\* these would not be connected.
LEMMA NoCoercionHere ==
  ASSUME SortInv, Running, loaded \in Nat, loaded < Len(groups), NEW i \in ToSet(Group), NEW x \in ToSet(Group),
         ~IsType(Item(i)), ~IsCoercion(Item(i)), IsCoercion(Item(x))
  PROVE  FALSE
<1>1. SortTypes /\ Grouping
  BY DEF SortInv
<1>2. /\ loaded + 1 \in DOMAIN groups /\ file # 0
      /\ \A y \in ToSet(Group) : y \in Items /\ Named(y) /\ Parsed(Item(y))
  BY GroupFacts
<1>3. Strong(ToSet(Group))
  BY <1>1, <1>2 DEF Grouping, Group
<1>4. PICK T : T = {y \in ToSet(Group) : IsType(Item(y)) \/ IsCoercion(Item(y))}
  OBVIOUS
<1>5. T \subseteq ToSet(Group) /\ x \in T /\ i \notin T
  BY <1>4
<1>6. PICK y \in T, z \in ToSet(Group) : z \in Needed(y) /\ z \notin T
  BY <1>3, <1>5 DEF Strong
<1>7. y \in ToSet(Group) /\ (IsType(Item(y)) \/ IsCoercion(Item(y))) /\ Named(y) /\ Named(z)
  BY <1>2, <1>4, <1>6
<1>8. PICK it : it = Item(y)
  OBVIOUS
<1>9. Edges(it) = it.types
  <2>1. OneKind(it)
    BY <1>2, <1>7, <1>8, KindFacts
  <2> QED BY <1>7, <1>8, <2>1 DEF OneKind, Edges, TypeEdges
<1>10. z \in ToSet(it.types)
  BY <1>6, <1>8, <1>9 DEF Needed
<1>11. NeedOf(3, it, <<"type", z>>) /\ <<"type", z>>[2] = z /\ <<"type", z>>[1] = "type"
  BY <1>10 DEF NeedOf
<1>12. Fits("type", Item(z))
  BY <1>1, <1>2, <1>7, <1>8, <1>11, FitFacts
<1>13. IsType(Item(z))
  BY <1>12 DEF Fits
<1> QED BY <1>4, <1>6, <1>13

\* Two items that need one.
LEMMA TwoUsers ==
  ASSUME NEW x, NEW u \in Items, NEW v \in Items, u # v, Named(u), Named(v), x \in Needed(u), x \in Needed(v)
  PROVE  Cardinality(Users(x)) > 1
<1>1. Users(x) \subseteq Items /\ {u, v} \subseteq Users(x)
  BY DEF Users, Needed
<1>2. IsFiniteSet(Users(x))
  BY <1>1, ItemsFinite, FS_Subset
<1>3. Cardinality({u}) = 1 /\ IsFiniteSet({u})
  BY FS_Singleton
<1>4. Cardinality({u, v}) = 2
  <2>1. Cardinality({u} \cup {v}) = 2
    BY <1>3, FS_AddElement
  <2>2. {u} \cup {v} = {u, v}
    OBVIOUS
  <2> QED BY <2>1, <2>2
<1>5. Cardinality({u, v}) <= Cardinality(Users(x))
  BY <1>1, <1>2, FS_Subset
<1>6. Cardinality(Users(x)) \in Nat
  BY <1>2, FS_CardinalityType
<1> QED BY <1>4, <1>5, <1>6

-----------------------------------------------------------------------------
(* What a phase does not find *)

\* The type of code that is not there has another user: the one it was visited for.
LEMMA CodeHasUsers ==
  ASSUME SortInv, UsedInv, Running, loaded \in Nat, loaded < Len(groups), position \in DOMAIN Group,
         NEW q \in DOMAIN Group, position <= q, IsCode(Item(Group[q])), Group[q] \in Needed(Group[position])
  PROVE  Cardinality(Users(Group[q])) > 1
<1>1. /\ loaded + 1 \in DOMAIN groups /\ DOMAIN Group = 1 .. Len(Group) /\ Len(Group) \in Nat
      /\ \A p, r \in DOMAIN Group : Group[p] = Group[r] => p = r
      /\ \A r \in DOMAIN Group : Group[r] \in ToSet(Group)
      /\ \A y \in ToSet(Group) : y \in Items /\ Named(y)
  BY GroupFacts
<1>2. PICK i, x : i = Group[position] /\ x = Group[q]
  OBVIOUS
<1>3. i \in Items /\ Named(i) /\ i \in ToSet(Group) /\ x \in Needed(i)
  BY <1>1, <1>2
<1>4. \/ \E b \in DOMAIN Group : q < b /\ x \in Needed(Group[b])
      \/ \E y \in Items : Named(y) /\ y \notin ToSet(Group) /\ x \in Needed(y)
  BY <1>1, <1>2 DEF UsedInv, UsedInGroups, Group
<1>5. \E y \in Items : Named(y) /\ y # i /\ x \in Needed(y)
  <2>1. CASE \E b \in DOMAIN Group : q < b /\ x \in Needed(Group[b])
    <3>1. PICK b \in DOMAIN Group : q < b /\ x \in Needed(Group[b])
      BY <2>1
    <3>2. b # position
      BY <1>1, <3>1
    <3>3. Group[b] # i
      BY <1>1, <1>2, <3>2
    <3> QED BY <1>1, <3>1, <3>3
  <2>2. CASE \E y \in Items : Named(y) /\ y \notin ToSet(Group) /\ x \in Needed(y)
    BY <1>3, <2>2
  <2> QED BY <1>4, <2>1, <2>2
<1>6. PICK y \in Items : Named(y) /\ y # i /\ x \in Needed(y)
  BY <1>5
<1>7. Cardinality(Users(x)) > 1
  BY <1>3, <1>6, TwoUsers
<1> QED BY <1>2, <1>7

\* Where the loader is in a phase.
LEMMA PhaseFacts ==
  ASSUME SortInv, LoadInv, MadeInv, InPhase
  PROVE  /\ Running /\ loaded \in Nat /\ loaded < Len(groups)
         /\ phase \in 1 .. 11 /\ phase \in DOMAIN Phases /\ phase # 0 /\ position \in DOMAIN Group
         /\ Compiling /\ LoadedMade /\ PhasesMade /\ Calls
         /\ DOMAIN Group = 1 .. Len(Group) /\ position \in Nat
<1>1. Running /\ loaded < Len(groups) /\ phase \in DOMAIN Phases
  BY DEF InPhase, Loading
<1>2. LoadTypes /\ Stage /\ Compiling /\ LoadedMade /\ PhasesMade /\ Calls
  BY <1>1 DEF LoadInv, MadeInv
<1>3. phase \in 1 .. 11 /\ phase # 0
  BY <1>1, PhasesLength
<1>4. position \in DOMAIN Group
  BY <1>1, <1>2 DEF Stage
<1>5. Len(groups) \in Nat
  BY <1>1 DEF SortInv, SortTypes
<1>6. loaded \in Nat /\ position \in Nat
  BY <1>2, <1>5 DEF LoadTypes
<1>7. DOMAIN Group = 1 .. Len(Group)
  BY <1>1, <1>6, GroupFacts
<1> QED BY <1>1, <1>2, <1>3, <1>4, <1>6, <1>7

\* What an item of the group has yet to make.
LEMMA MissedInGroup ==
  ASSUME SortInv, LoadInv, UsedInv, MadeInv, InPhase, phase # 2, NEW i, i = Group[position],
         NEW q \in DOMAIN Group, NEW x, x = Group[q], x \in Needed(i),
         NEW e, e \notin known, e[2] = x, e = <<e[1], x>>, NeedOf(phase, Item(i), e),
         Fits(e[1], Item(x)), e[1] = "definition" => Item(x).form = ".tyabstract"
  PROVE  OrderMatters(i, e[1], x)
<1>1. /\ Running /\ loaded \in Nat /\ loaded < Len(groups)
      /\ phase \in 1 .. 11 /\ phase \in DOMAIN Phases /\ phase # 0 /\ position \in DOMAIN Group
      /\ Compiling /\ PhasesMade
      /\ DOMAIN Group = 1 .. Len(Group) /\ position \in Nat
  BY PhaseFacts
<1>2. /\ \A y \in ToSet(Group) : Parsed(Item(y))
      /\ i \in ToSet(Group) /\ x \in ToSet(Group)
  BY <1>1, GroupFacts
<1>3. PICK a, it, named, p : a = e[1] /\ it = Item(i) /\ named = Item(x) /\ p = phase
  OBVIOUS
<1>4. Parsed(it) /\ Parsed(named) /\ Fits(a, named) /\ <<a, x>> \notin known
  BY <1>2, <1>3
<1>5. ASSUME NEW m, MadeBy(m, a, named), m < p PROVE FALSE
  <2>1. <<a, x>> \in known
    BY <1>1, <1>3, <1>4, <1>5, ThereIfDone
  <2> QED BY <1>4, <2>1
<1>6. OneKind(it) /\ OneKind(named)
  BY <1>4, KindFacts
<1>7. \A b : <<b, x>>[1] = b
  OBVIOUS
<1>8. \/ a = "type" /\ p \in {3, 5, 6, 11}
      \/ a = "kind" /\ p = 6
      \/ a = "definition" /\ p \in {6, 11}
      \/ a = "code type" /\ p \in {6, 9, 11}
      \/ a = "code" /\ p = 11
      \/ a = "coercion type" /\ ~IsType(it) /\ ~IsCoercion(it)
      \/ a = "data type" /\ p \in {6, 11}
      \/ a = "value" /\ p = 11
      \/ a = "value" /\ p = 7 /\ it.form \in {".alias", ".cast"}
  <2>1. NeedOf(p, it, e)
    BY <1>3
  <2> QED BY <1>3, <1>7, <2>1 DEF NeedOf
<1>9. CASE a = "type" /\ p \in {3, 5, 6, 11}
  <2>1. IsType(named) /\ p \in {3, 5, 6, 11}
    BY <1>4, <1>9 DEF Fits
  <2>2. 2 < phase
    BY <1>3, <2>1
  <2>3. <<"type", x>> \in known
    BY <1>1, <1>3, <2>1, <2>2, TypeIfDone
  <2> QED BY <1>4, <1>9, <2>3
<1>10. CASE a = "kind" /\ p = 6
  <2>1. IsType(named)
    BY <1>4, <1>10 DEF Fits
  <2>2. MadeBy(1, a, named) \/ MadeBy(4, a, named)
    BY <1>10, <2>1 DEF MadeBy
  <2>3. p = 6
    BY <1>10
  <2>4. 1 < p /\ 4 < p
    BY <2>3
  <2> QED BY <1>5, <2>2, <2>4
<1>11. CASE a = "definition" /\ p \in {6, 11}
  <2>1. MadeBy(3, a, named)
    BY <1>3, <1>11 DEF MadeBy
  <2>2. p \in {6, 11}
    BY <1>11
  <2>3. 3 < p
    BY <2>2
  <2> QED BY <1>5, <2>1, <2>3
<1>12. CASE a = "code" /\ p = 11
  <2>1. MadeBy(10, a, named)
    BY <1>4, <1>12 DEF MadeBy, Fits
  <2>2. p = 11
    BY <1>12
  <2>3. 10 < p
    BY <2>2
  <2> QED BY <1>5, <2>1, <2>3
<1>13. CASE a = "value" /\ p = 11
  <2>1. MadeBy(8, a, named)
    BY <1>4, <1>13 DEF MadeBy, Fits
  <2>2. p = 11
    BY <1>13
  <2>3. 8 < p
    BY <2>2
  <2> QED BY <1>5, <2>1, <2>3
<1>14. CASE a = "value" /\ p = 7 /\ it.form \in {".alias", ".cast"}
  BY <1>3, <1>14 DEF OrderMatters
<1>15. CASE a = "coercion type" /\ ~IsType(it) /\ ~IsCoercion(it)
  <2>1. IsCoercion(named)
    BY <1>4, <1>15 DEF Fits
  <2> QED BY <1>1, <1>2, <1>3, <1>15, <2>1, NoCoercionHere
<1>16. CASE a = "data type" /\ p \in {6, 11}
  <2>1. CASE ~Signed(named)
    BY <1>3, <1>16, <2>1 DEF OrderMatters
  <2>2. CASE Signed(named)
    <3>1. MadeBy(5, a, named)
      BY <1>4, <1>16, <2>2 DEF MadeBy, Fits
    <3>2. p \in {6, 11}
      BY <1>16
    <3>3. 5 < p
      BY <3>2
    <3> QED BY <1>5, <3>1, <3>3
  <2> QED BY <2>1, <2>2
<1>17. CASE a = "code type" /\ p \in {6, 9, 11}
  <2>1. IsCode(named) /\ MadeBy(6, a, named)
    BY <1>4, <1>17 DEF MadeBy, Fits
  <2>2. p \in {6, 9, 11}
    BY <1>17
  <2>3. ~(6 < p)
    BY <1>5, <2>1
  <2>4. p = 6
    BY <2>2, <2>3
  <2>5. ~(q < position)
    <3> SUFFICES ASSUME q < position PROVE FALSE
      OBVIOUS
    <3>1. <<a, x>> \in known
      BY <1>1, <1>3, <1>4, <2>1, <2>4, ThereIfDone
    <3> QED BY <1>4, <3>1
  <2>6. position <= q
    BY <1>1, <2>5
  <2>7. Cardinality(Users(x)) > 1
    BY <1>1, <1>3, <2>1, <2>6, CodeHasUsers
  <2> QED BY <1>3, <1>17, <2>7 DEF OrderMatters
<1> QED BY <1>8, <1>9, <1>10, <1>11, <1>12, <1>13, <1>14, <1>15, <1>16, <1>17

\* What a phase asks for is there, but for what MayMiss says.
LEMMA FindsNext ==
  ASSUME SortInv, LoadInv, UsedInv, MadeInv, InPhase, Phase # "types",
         NEW e \in Needs(Phase, Item(Group[position])), e \notin known
  PROVE  MayMiss(Group[position], e)
<1>1. /\ Running /\ loaded \in Nat /\ loaded < Len(groups)
      /\ phase \in DOMAIN Phases /\ position \in DOMAIN Group /\ LoadedMade
  BY PhaseFacts
<1>2. /\ loaded + 1 \in DOMAIN groups /\ file # 0
      /\ \A y \in ToSet(Group) : Named(y) /\ Parsed(Item(y)) /\ \E q \in DOMAIN Group : y = Group[q]
      /\ \A q \in DOMAIN Group : Group[q] \in ToSet(Group)
  BY <1>1, GroupFacts
<1>3. SortTypes /\ Grouping
  BY <1>1 DEF SortInv
<1>4. PICK i, it, x : i = Group[position] /\ it = Item(i) /\ x = e[2]
  OBVIOUS
<1>5. i \in ToSet(Group) /\ Named(i) /\ Parsed(it)
  BY <1>1, <1>2, <1>4
<1>6. e \in Needs(Phases[phase], it)
  BY <1>4 DEF Phase
<1>7. NeedOf(phase, it, e) /\ Accounted(i, e[2])
  BY <1>1, <1>4, <1>5, <1>6, NeedsFacts
<1>8. phase # 2
  BY <1>1, PhaseNames DEF Phase
<1> SUFFICES ASSUME e[2] \notin Unfollowed(i), ~(e[1] = "definition" /\ Item(e[2]).form # ".tyabstract")
             PROVE  e[2] \in ToSet(Group) /\ OrderMatters(i, e[1], e[2])
  BY <1>4 DEF MayMiss
<1>9. x \in Needed(i)
  BY <1>4, <1>7 DEF Accounted, Needed
<1>10. \E l \in 1 .. loaded + 1 : x \in ToSet(groups[l])
  BY <1>2, <1>3, <1>5, <1>9 DEF Grouping, Group
<1>11. PICK l \in 1 .. loaded + 1 : x \in ToSet(groups[l])
  BY <1>10
<1>12. l \in DOMAIN groups
  BY <1>1, <1>2, <1>11
<1>13. Named(x)
  BY <1>3, <1>11, <1>12 DEF Grouping
<1>14. Fits(e[1], Item(x)) /\ e = <<e[1], x>>
  BY <1>2, <1>3, <1>4, <1>5, <1>7, <1>13, FitFacts
<1>15. e[1] = "definition" => Item(x).form = ".tyabstract"
  BY <1>4
<1>16. Parsed(Item(x))
  BY <1>2, <1>3, <1>13, NamedFacts
<1>17. l = loaded + 1
  <2> SUFFICES ASSUME l # loaded + 1 PROVE FALSE
    OBVIOUS
  <2>1. l \in 1 .. loaded
    BY <1>1, <1>11
  <2>2. PICK a : a = e[1]
    OBVIOUS
  <2>3. <<a, x>> \in known
    BY <1>1, <1>11, <1>14, <1>15, <1>16, <2>1, <2>2, ThereIfLoaded
  <2> QED BY <1>14, <2>2, <2>3
<1>18. x \in ToSet(Group)
  BY <1>11, <1>17 DEF Group
<1>19. PICK q \in DOMAIN Group : x = Group[q]
  BY <1>2, <1>18
<1>20. OrderMatters(i, e[1], x)
  BY <1>4, <1>7, <1>8, <1>9, <1>14, <1>15, <1>19, MissedInGroup
<1> QED BY <1>4, <1>18, <1>20

-----------------------------------------------------------------------------
(* Why the loader stops *)

\* It stops for an entry that is not there only where MayMiss says.
StopsRight == ~Running /\ fatal[1] = "unknown" => MayMiss(fatal[2], fatal[3])

\* An item misses what it missed before.
LEMMA SameMisses ==
  ASSUME UNCHANGED <<program, table, groups, loaded>>, NEW i, NEW e, MayMiss(i, e), NEW r, Fatal(r, i, e)
  PROVE  MayMiss(fatal[2], fatal[3])'
<1>1. \A a, b, c : <<a, b, c>>[2] = b /\ <<a, b, c>>[3] = c
  OBVIOUS
<1>2. fatal'[2] = i /\ fatal'[3] = e
  BY <1>1 DEF Fatal
<1>3. MayMiss(i, e)'
  BY DEF MayMiss, Unfollowed, OrderMatters, Users, Named, Item, ItemOf, Group
<1> QED BY <1>2, <1>3 DEF MayMiss, OrderMatters

\* A step that goes on, or that stops for some other reason.
LEMMA OtherReason ==
  ASSUME NEW r, NEW i, NEW e, Fatal(r, i, e), r # "unknown"
  PROVE  StopsRight'
<1>1. \A a, b, c : <<a, b, c>>[1] = a
  OBVIOUS
<1>2. fatal'[1] # "unknown"
  BY <1>1 DEF Fatal
<1> QED BY <1>2 DEF StopsRight

\* An entry that is made twice is none that is not there.
LEMMA EnterGoesOn ==
  ASSUME Running, NEW entries, NEW i, Enter(entries, i)
  PROVE  StopsRight'
<1>1. CASE UNCHANGED fatal
  BY <1>1 DEF StopsRight, Running
<1>2. CASE \E e : Fatal("duplicate", i, e)
  <2>1. PICK e : Fatal("duplicate", i, e)
    BY <1>2
  <2>2. PICK r : r = "duplicate"
    OBVIOUS
  <2>3. r # "unknown"
    BY <2>2
  <2> QED BY <2>1, <2>2, <2>3, OtherReason
<1> QED BY <1>1, <1>2 DEF Enter

\* The sort stops for other reasons.
LEMMA SortStops ==
  ASSUME Running, NextFile \/ Sort
  PROVE  StopsRight'
<1>1. "stack full" # "unknown" /\ "no item" # "unknown" /\ "already has SCC" # "unknown"
  OBVIOUS
<1>2. ASSUME UNCHANGED fatal PROVE StopsRight'
  BY <1>2 DEF StopsRight, Running
<1>3. ASSUME NEW i, NEW left, Visit(i, left) PROVE StopsRight'
  <2>1. Fatal("stack full", i, <<>>) \/ UNCHANGED fatal
    BY <1>3 DEF Visit
  <2> QED BY <1>1, <1>2, <2>1, OtherReason
<1>4. CASE NextFile \/ SortDone
  BY <1>2, <1>4 DEF NextFile, SortFile, SortDone
<1>5. CASE SortRoot
  BY <1>2, <1>3, <1>5 DEF SortRoot
<1>6. CASE OutgoingEdge
  <2>1. PICK i, caller :
          \/ Fatal("no item", Last(frames).item, i)
          \/ UNCHANGED fatal
          \/ Visit(i, caller)
    BY <1>6 DEF OutgoingEdge
  <2> QED BY <1>1, <1>2, <1>3, <2>1, OtherReason
<1>7. CASE FinishItem
  <2>1. PICK i : UNCHANGED fatal \/ Fatal("already has SCC", i, <<>>)
    BY <1>7 DEF FinishItem
  <2> QED BY <1>1, <1>2, <2>1, OtherReason
<1> QED BY <1>4, <1>5, <1>6, <1>7 DEF Sort

\* A phase stops for what FindsNext says.
LEMMA PhaseItemStops ==
  ASSUME SortInv, LoadInv, UsedInv, MadeInv, PhaseItem, UNCHANGED <<program, table, groups>>
  PROVE  StopsRight'
<1>1. PICK i, missing : i = Group[position] /\ missing = Needs(Phase, Item(i)) \ Visible
  OBVIOUS
<1>2. Running /\ InPhase /\ Phase # "types" /\ loaded' = loaded
  BY DEF PhaseItem, InPhase, Loading
<1>3. \/ \E e \in missing : Fatal("unknown", i, e)
      \/ Fatal("not implemented", i, <<>>)
      \/ Enter(Sets(Phase, i, Item(i)), i)
  BY <1>1 DEF PhaseItem
<1>4. CASE \E e \in missing : Fatal("unknown", i, e)
  <2>1. PICK e \in missing : Fatal("unknown", i, e)
    BY <1>4
  <2>2. e \in Needs(Phase, Item(Group[position])) /\ e \notin known
    BY <1>1, <2>1 DEF Visible
  <2>3. MayMiss(i, e)
    BY <1>1, <1>2, <2>2, FindsNext
  <2>4. PICK r : r = "unknown"
    OBVIOUS
  <2>5. MayMiss(fatal[2], fatal[3])'
    BY <1>2, <2>1, <2>3, <2>4, SameMisses
  <2> QED BY <2>5 DEF StopsRight
<1>5. CASE Fatal("not implemented", i, <<>>)
  <2>1. PICK r : r = "not implemented"
    OBVIOUS
  <2>2. r # "unknown"
    BY <2>1
  <2> QED BY <1>5, <2>1, <2>2, OtherReason
<1>6. CASE Enter(Sets(Phase, i, Item(i)), i)
  BY <1>2, <1>6, EnterGoesOn
<1> QED BY <1>3, <1>4, <1>5, <1>6

\* A .tyexpr stops for an abstract type it expects by name.
LEMMA TypeReferentStops ==
  ASSUME SortInv, LoadInv, MadeInv, TypeReferent, UNCHANGED <<program, table, groups>>
  PROVE  StopsRight'
<1>1. /\ InTypes /\ InPhase /\ Running /\ compiling # <<>> /\ Last(compiling).left # <<>>
      /\ loaded' = loaded /\ loaded < Len(groups)
  BY DEF TypeReferent, InTypes, InPhase, Loading
<1>2. /\ loaded \in Nat /\ Compiling /\ Calls /\ LoadedMade
      /\ compiling \in Seq(Frames) /\ SortTypes /\ Grouping
  BY <1>1, PhaseFacts DEF LoadInv, LoadTypes, SortInv
<1>3. /\ loaded + 1 \in DOMAIN groups /\ file # 0
      /\ \A x \in ToSet(Group) : Named(x) /\ Parsed(Item(x))
  BY <1>1, <1>2, GroupFacts
<1>4. PICK n, call, t, c : n = Len(compiling) /\ call = Last(compiling) /\ t = Head(call.left) /\ c = call.item
  OBVIOUS
<1>5. n \in DOMAIN compiling /\ call = compiling[n] /\ call.left \in Seq(Items)
  <2>1. PICK caller : caller = Append(Front(compiling), [Last(compiling) EXCEPT !.left = Tail(@)])
    OBVIOUS
  <2>2. n \in Nat \ {0} /\ DOMAIN compiling = 1 .. n
    BY <1>1, <1>2, <1>4, <2>1, CallerFacts
  <2>3. n \in DOMAIN compiling /\ call = compiling[n]
    BY <1>4, <2>2 DEF Last
  <2>4. compiling[n] \in Frames
    BY <1>2, <2>3, SeqFacts
  <2> QED BY <2>3, <2>4 DEF Frames
<1>6. t \in ToSet(call.left)
  <2>1. t = call.left[1] /\ 1 \in DOMAIN call.left
    BY <1>1, <1>4, <1>5
  <2> QED BY <2>1, Zenon DEF ToSet
<1>7. PICK it : it = Item(c)
  OBVIOUS
<1>8. c \in ToSet(Group) /\ it.form = ".tyexpr" /\ t \in ToSet(it.types)
  BY <1>1, <1>2, <1>4, <1>5, <1>6, <1>7 DEF Compiling, Calls
<1>9. IsType(it) /\ Parsed(it)
  BY <1>3, <1>7, <1>8 DEF IsType, TypeForms
<1>10. Edges(it) = it.types
  <2>1. OneKind(it)
    BY <1>9, KindFacts
  <2> QED BY <1>9, <2>1 DEF OneKind, Edges, TypeEdges
<1>11. t \in Needed(c)
  BY <1>7, <1>8, <1>10 DEF Needed
<1>12. PICK l \in 1 .. loaded + 1 : t \in ToSet(groups[l])
  BY <1>2, <1>3, <1>8, <1>11 DEF Grouping, Group
<1>13. Named(t)
  <2>1. l \in DOMAIN groups
    BY <1>2, <1>3, <1>12
  <2> QED BY <1>2, <1>12, <2>1 DEF Grouping
<1>14. IsType(Item(t)) /\ Parsed(Item(t))
  <2>1. PICK e : e = <<"type", t>>
    OBVIOUS
  <2>2. e[1] = "type" /\ e[2] = t
    BY <2>1
  <2>3. NeedOf(3, it, e)
    BY <1>8, <2>1, <2>2 DEF NeedOf
  <2>4. Fits(e[1], Item(t))
    BY <1>2, <1>3, <1>7, <1>8, <1>13, <2>2, <2>3, FitFacts
  <2> QED BY <1>2, <1>3, <1>13, <2>2, <2>4, NamedFacts DEF Fits
<1>15. \/ UNCHANGED fatal
       \/ Fatal("loop", c, <<"type", t>>)
       \/ /\ <<"type", t>> \notin known
          /\ t \in Item(c).ext \/ t \notin ToSet(Group)
          /\ Fatal("unknown", c, <<"type", t>>)
  BY <1>4 DEF TypeReferent
<1>16. CASE UNCHANGED fatal
  BY <1>1, <1>16 DEF StopsRight, Running
<1>17. CASE Fatal("loop", c, <<"type", t>>)
  <2>1. PICK r : r = "loop"
    OBVIOUS
  <2>2. r # "unknown"
    BY <2>1
  <2> QED BY <1>17, <2>1, <2>2, OtherReason
<1>18. CASE /\ <<"type", t>> \notin known
            /\ t \in Item(c).ext \/ t \notin ToSet(Group)
            /\ Fatal("unknown", c, <<"type", t>>)
  <2>1. l = loaded + 1
    <3> SUFFICES ASSUME l # loaded + 1 PROVE FALSE
      OBVIOUS
    <3>1. l \in 1 .. loaded
      BY <1>2, <1>12
    <3>2. <<"type", t>> \in known
      BY <1>2, <1>12, <1>14, <3>1 DEF LoadedMade
    <3> QED BY <1>18, <3>2
  <2>2. t \in ToSet(Group) /\ t \in Item(c).ext
    BY <1>12, <1>18, <2>1 DEF Group
  <2>3. PICK e : e = <<"type", t>>
    OBVIOUS
  <2>4. e[1] = "type" /\ e[2] = t
    BY <2>3
  <2>5. OrderMatters(c, "type", t)
    BY <1>7, <1>8, <2>2 DEF OrderMatters
  <2>6. MayMiss(c, e)
    BY <2>2, <2>4, <2>5 DEF MayMiss
  <2>7. PICK r : r = "unknown"
    OBVIOUS
  <2>8. Fatal(r, c, e)
    BY <1>18, <2>3, <2>7
  <2>9. MayMiss(fatal[2], fatal[3])'
    BY <1>1, <2>6, <2>8, SameMisses
  <2> QED BY <2>9 DEF StopsRight
<1> QED BY <1>15, <1>16, <1>17, <1>18

\* Every step.
LEMMA StopsStep ==
  ASSUME SortInv, LoadInv, UsedInv, MadeInv, StopsRight, [Next]_vars
  PROVE  StopsRight'
<1>1. CASE UNCHANGED vars
  <2>1. UNCHANGED <<program, table, groups, loaded, fatal>>
    BY <1>1 DEF vars, order, load
  <2> QED BY <2>1 DEF StopsRight, Running, MayMiss, Unfollowed, OrderMatters, Users, Named, Item, ItemOf, Group
<1>2. CASE ~Running
  <2>1. UNCHANGED vars
    BY <1>2 DEF Next, NextFile, SortFile, Sort, SortRoot, SortDone, OutgoingEdge, FinishItem, LoadGroup,
           BeginGroup, PhaseItem, TypesItem, TypeReferent, TypeDone, EndGroup, InTypes, InPhase, Loading,
           Terminated
  <2> QED BY <1>1, <2>1
<1>3. CASE Running /\ (NextFile \/ Sort)
  BY <1>3, SortStops
<1>4. CASE Running /\ LoadGroup /\ UNCHANGED <<program, table, groups>>
  <2>1. CASE UNCHANGED fatal
    BY <1>4, <2>1 DEF StopsRight, Running
  <2>2. CASE BeginGroup
    <3>1. PICK i : UNCHANGED fatal \/ Fatal("too many items", i, <<>>)
      BY <2>2 DEF BeginGroup
    <3>2. "too many items" # "unknown"
      OBVIOUS
    <3> QED BY <2>1, <3>1, <3>2, OtherReason
  <2>3. CASE PhaseItem
    BY <1>4, <2>3, PhaseItemStops
  <2>4. CASE TypesItem
    BY <2>1, <2>4 DEF TypesItem
  <2>5. CASE TypeReferent
    BY <1>4, <2>5, TypeReferentStops
  <2>6. CASE TypeDone
    <3>1. Enter({<<"type", Last(compiling).item>>}, Last(compiling).item)
      BY <2>6 DEF TypeDone
    <3> QED BY <1>4, <3>1, EnterGoesOn
  <2>7. CASE EndGroup
    <3>1. PICK i : UNCHANGED fatal \/ Fatal("no entry point", i, <<>>)
      BY <2>7 DEF EndGroup
    <3>2. "no entry point" # "unknown"
      OBVIOUS
    <3> QED BY <2>1, <3>1, <3>2, OtherReason
  <2> QED BY <1>4, <2>2, <2>3, <2>4, <2>5, <2>6, <2>7 DEF LoadGroup
<1> QED BY <1>1, <1>2, <1>3, <1>4 DEF Next, Terminated

\* What a phase asks for is in the table, and the loader stops for an entry that is not there
\* (gsload_scc, gssymtable_get), only where MayMiss says: for a name the sort does not follow,
\* for what an item of the same group has yet to make, and for the definition of a type that
\* has none.
THEOREM FindsItsOwnAlways == Spec => []FindsItsOwn
<1>1. Init => StopsRight
  BY DEF Init, OrderInit, StopsRight, Running
<1>2. SortInv /\ LoadInv /\ UsedInv /\ MadeInv /\ StopsRight => FindsItsOwn
  BY FindsNext DEF FindsItsOwn, StopsRight
<1>3. SortInv /\ UsedInv /\ [Next]_vars => UsedInv'
  BY UsedStep
<1>4. SortInv /\ LoadInv /\ MadeInv /\ [Next]_vars => MadeInv'
  BY MadeStep
<1>5. SortInv /\ LoadInv /\ UsedInv /\ MadeInv /\ StopsRight /\ [Next]_vars => StopsRight'
  BY StopsStep
<1>6. Init => UsedInv /\ MadeInv
  BY UsedInit, MadeInit
<1> QED BY <1>1, <1>2, <1>3, <1>4, <1>5, <1>6, SortInductive, LoadInductive, PTL DEF Spec
=============================================================================

------------------------------ MODULE ItemForms ------------------------------
(***************************************************************************)
(* The items of a file of string code: what the parser lets through, which *)
(* other items the sort takes each of them to need (bctopsort.c), and what *)
(* the phases of loading look up for it and enter in the symbol table      *)
(* (typecheck.c, typealloc.c, bytecompile.c).  Types and byte code are     *)
(* left out: an entry is there or it is not.                               *)
(***************************************************************************)
EXTENDS Naturals, Sequences, FiniteSets, SequencesExt, FiniteSetsExt

CONSTANTS
    Items,                                          \* the labels of all files
    ListType, RuneType, RegexType, RegexClassType   \* those the compiler itself names

ASSUME ItemsFinite == IsFiniteSet(Items)
ASSUME CompilerNames == {ListType, RuneType, RegexType, RegexClassType} \subseteq Items

\* Two ops of code that stand among its .gvars and name no item.
Rune == "rune"
Natural == "natural"

ASSUME OpsAreNoLabels == {Rune, Natural} \cap Items = {}

DataForms == {".closure", ".record", ".constr", ".rune", ".string", ".list", ".regex",
              ".undefined", ".alias", ".cast"}
CodeForms == {".expr", ".forcecont", ".strictcont", ".ubcasecont", ".impprog"}
PrimTypes == {".tydefinedprim", ".tyintrprim", ".tyelimprim", ".tyimpprim"}
TypeForms == {".tyexpr", ".tyabstract"} \cup PrimTypes
CoercionForms == {".tycoercion"}

Forms == DataForms \cup CodeForms \cup TypeForms \cup CoercionForms

IsData(it) == it.form \in DataForms
IsCode(it) == it.form \in CodeForms
IsType(it) == it.form \in TypeForms
IsCoercion(it) == it.form \in CoercionForms

\* The names on an item, by what they are names of.  Of the types, those in ext are
\* declared by .tyextabstype and the others by .tygvar; the first type of a .tycoercion is
\* the one its .tydefinition names; kinded says of a .tyexpr that it states its kind.
NoNames == [types |-> <<>>, ext |-> {}, code |-> <<>>, coercions |-> <<>>, data |-> <<>>,
            kinded |-> FALSE]

\* gsparse_data_item: the arguments of each directive.
WellFormed(it) ==
    /\ it.ext \subseteq ToSet(it.types)
    /\ it.form # ".closure" /\ ~IsCode(it) => it.code = <<>>
    /\ it.form # ".cast" /\ ~IsCode(it) => it.coercions = <<>>
    /\ CASE it.form = ".closure" -> Len(it.code) = 1 /\ Len(it.types) <= 1 /\ it.data = <<>>
         [] it.form = ".record" -> Len(it.types) <= 1
         [] it.form \in {".constr", ".list"} -> Len(it.types) = 1
         [] it.form = ".rune" -> it.types = <<>> /\ it.data = <<>>
         [] it.form = ".string" -> it.types = <<>> /\ Len(it.data) <= 1
         [] it.form = ".regex" -> it.types = <<>>
         [] it.form = ".undefined" -> Len(it.types) = 1 /\ it.data = <<>>
         [] it.form = ".alias" -> Len(it.types) = 1 /\ Len(it.data) = 1
         [] it.form = ".cast" -> it.types = <<>> /\ Len(it.data) = 1 /\ Len(it.coercions) = 1
         [] it.form \in PrimTypes -> it.types = <<>> /\ it.data = <<>>
         [] it.form \in {".tyexpr", ".tyabstract"} -> it.data = <<>>
         [] it.form = ".tycoercion" -> it.types # <<>> /\ it.data = <<>>
         [] OTHER -> IsCode(it)

\* What the parser makes of an item: a form it knows, and labels for names; only among the
\* globals of code are there other ops.
Parsed(it) ==
    /\ it.form \in Forms
    /\ it.types \in Seq(Items) /\ it.code \in Seq(Items) /\ it.coercions \in Seq(Items)
    /\ it.data \in Seq(IF IsCode(it) THEN Items \cup {Rune, Natural} ELSE Items)
    /\ WellFormed(it)

-----------------------------------------------------------------------------
(* The outgoing edges of an item, in the order the sort follows them.      *)

\* gsbc_top_sort_subitems_of_data_item.  The type of the elements of a .list is none.
DataEdges(it) ==
    CASE it.form = ".closure" -> it.code \o it.types
      [] it.form = ".record" -> it.data \o it.types
      [] it.form \in {".constr", ".undefined"} -> it.types \o it.data
      [] it.form = ".rune" -> <<>>
      [] it.form = ".string" -> <<ListType, RuneType>> \o it.data
      [] it.form = ".list" -> <<ListType>> \o it.data
      [] it.form = ".regex" -> <<RegexType, RuneType>> \o it.data
      [] it.form = ".alias" -> it.data \o it.types
      [] it.form = ".cast" -> it.data \o it.coercions

\* gsbc_top_sort_subitems_of_code_item goes through the globals until it comes to an op
\* it does not know.  It knows .natural; it does not know .rune.
Runes(it) == {n \in DOMAIN it.data : it.data[n] = Rune}
Walked(it) == IF Runes(it) = {} THEN it.data ELSE SubSeq(it.data, 1, Min(Runes(it)) - 1)

\* What of a sequence is in S: SelectSeq, as a function that can be reasoned about.
Among(names, S) ==
    LET upTo[n \in 0 .. Len(names)] ==
            IF n = 0 THEN <<>>
            ELSE IF names[n] \in S THEN Append(upTo[n - 1], names[n]) ELSE upTo[n - 1]
    IN upTo[Len(names)]
Globals(names) == Among(names, Items)
CodeEdges(it) == it.types \o it.code \o it.coercions \o Globals(Walked(it))

\* gsbc_top_sort_subitems_of_type_item, gsbc_top_sort_subitems_of_coercion_item.
TypeEdges(it) == it.types

Edges(it) == CASE IsData(it) -> DataEdges(it)
               [] IsCode(it) -> CodeEdges(it)
               [] OTHER -> TypeEdges(it)

-----------------------------------------------------------------------------
(* The symbol table has an entry <<table, label>> for what is known of an  *)
(* item.  For each phase: the entries it asks for and those it makes.      *)

In(table, labels) == {<<table, x>> : x \in ToSet(labels)}

\* gstypes_process_type_declarations, gstypes_kind_check_item.
DeclaresKind(it) == IsType(it) /\ (it.form = ".tyexpr" => it.kinded)
DeclarationSets(i, it) == IF DeclaresKind(it) THEN {<<"kind", i>>} ELSE {}
KindCheckSets(i, it) == IF IsType(it) /\ ~DeclaresKind(it) THEN {<<"kind", i>>} ELSE {}

\* gstypes_compile_type_definitions: of an abstract type, when all types of the group
\* are there.
DefinitionNeeds(it) == IF it.form = ".tyabstract" THEN In("type", it.types) ELSE {}
DefinitionSets(i, it) == IF it.form = ".tyabstract" THEN {<<"definition", i>>} ELSE {}

\* gstypes_process_data_type_signature.
Signed(it) == \/ it.form \in {".list", ".constr", ".regex", ".undefined", ".alias"}
              \/ it.form \in {".closure", ".record"} /\ it.types # <<>>
SignatureNeeds(it) ==
    CASE it.form = ".list" -> In("type", <<ListType>> \o it.types)
      [] it.form = ".regex" -> In("type", <<RegexType, RuneType>>)
      [] OTHER -> IF Signed(it) THEN In("type", it.types) ELSE {}
SignatureSets(i, it) == IF Signed(it) THEN {<<"data type", i>>} ELSE {}

\* gstypes_type_check_data_item.
CheckDataNeeds(it) ==
    CASE it.form = ".closure" -> In("code type", it.code) \cup In("type", it.types)
      [] it.form = ".record" -> In("data type", it.data)
      [] it.form \in {".constr", ".list"} -> In("type", it.types) \cup In("data type", it.data)
      [] it.form = ".rune" -> {}
      [] it.form = ".string" -> In("type", <<ListType, RuneType>>) \cup In("data type", it.data)
      [] it.form = ".regex" -> In("type", <<RegexType, RuneType>>) \cup In("data type", it.data)
      [] it.form = ".undefined" -> In("type", it.types) \cup In("kind", it.types)
      [] it.form = ".alias" -> In("data type", it.data) \cup In("type", it.types)
      [] it.form = ".cast" -> In("data type", it.data) \cup In("coercion type", it.coercions)
CheckDataSets(i, it) == IF Signed(it) THEN {} ELSE {<<"data type", i>>}

\* The loops over the globals of a code item, of which each pass has its own.
CheckCodeNeeds(it) ==
    In("type", it.types) \cup {<<"kind", t>> : t \in ToSet(it.types) \ it.ext}
      \cup In("code type", it.code) \cup In("coercion type", it.coercions)
      \cup In("data type", Globals(it.data))

\* gstypes_type_check_item.
CheckNeeds(it) == CASE IsData(it) -> CheckDataNeeds(it)
                    [] IsCode(it) -> CheckCodeNeeds(it)
                    [] IsCoercion(it) -> In("type", it.types)
                                           \cup In("definition", <<Head(it.types)>>)
                    [] IsType(it) -> {}
CheckSets(i, it) == CASE IsData(it) -> CheckDataSets(i, it)
                      [] IsCode(it) -> {<<"code type", i>>}
                      [] IsCoercion(it) -> {<<"coercion type", i>>}
                      [] IsType(it) -> {}

\* gsbc_size_data_item: another name for a value has to have the value.
SizeDataNeeds(it) == IF it.form \in {".alias", ".cast"} THEN In("value", it.data) ELSE {}
AllocDataSets(i, it) == IF IsData(it) THEN {<<"value", i>>} ELSE {}

\* gsbc_alloc_code_for_scc.
SizeCodeNeeds(it) == IF IsCode(it) THEN In("code type", it.code) ELSE {}
AllocCodeSets(i, it) == IF IsCode(it) THEN {<<"code", i>>} ELSE {}

\* gsbc_bytecompile_data_item, and the globals of gsbc_byte_compile_code_ops.
CompileNeeds(it) ==
    CASE it.form = ".closure" -> In("code", it.code)
      [] it.form \in {".record", ".list"} -> In("value", it.data)
      [] it.form = ".constr" -> In("type", it.types) \cup In("value", it.data)
      [] it.form = ".regex" -> In("type", <<RegexType, RegexClassType, RuneType>>)
                                 \cup In("definition", <<RegexType, RegexClassType>>)
                                 \cup In("value", it.data)
      [] IsCode(it) -> In("type", it.types) \cup In("code", it.code)
                         \cup In("code type", it.code)
                         \cup In("value", Globals(it.data))
                         \cup In("data type", Globals(it.data))
      [] OTHER -> {}

\* A .string with a tail is not implemented.
Compiles(it) == ~(it.form = ".string" /\ it.data # <<>>)
=============================================================================

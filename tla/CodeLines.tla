---------------------------- MODULE CodeLines ----------------------------
(***************************************************************************)
(* What the readers of a code item share.  A code item of string code is a *)
(* list of lines; the parser (load.c), the type checker (typecheck.c), the *)
(* size pass and the emitter (bytecompile.c) each read the same list from  *)
(* the top, in loops that take the ops of one kind as long as they come:   *)
(*                                                                         *)
(*     while (type_gvar_op(p)) p = next(p);                                *)
(*     while (subcode_op(p)) p = next(p); ...                              *)
(*                                                                         *)
(* A line is taken by the first loop, at or after the loop the reader is   *)
(* in, whose condition accepts its op, and is fatal when there is none.    *)
(* A reader is a record with the fields loop (where it is), fatal (why it  *)
(* stopped, "" while it has not) and the registers and sizes it keeps; an  *)
(* operation of a reader is a function of that record and of the line.     *)
(***************************************************************************)
EXTENDS Integers, Sequences, FiniteSets, SequencesExt

CONSTANTS
    MaxRegs,   \* MAX_NUM_REGISTERS
    SubCodes   \* the code types of the code items a .subcode line can name

ASSUME MaxRegsAssumption == MaxRegs \in Nat \ {0}

-----------------------------------------------------------------------------
(* Types (gstypealloc.h).  A type is a node with the names and the types   *)
(* of its fields, constructors or arguments.                               *)

Type(node, names, args) == [node |-> node, names |-> names, args |-> args]
NoType == Type("none", <<>>, <<>>)
BadType == Type("bad", <<>>, <<>>)
Prim == Type("prim", <<>>, <<>>)
Lift(t) == Type("lift", <<>>, <<t>>)
Fun(a, r) == Type("fun", <<>>, <<a, r>>)
Forall(t) == Type("forall", <<>>, <<t>>)
Exists(t) == Type("exists", <<>>, <<t>>)
ApiApp(t) == Type("app", <<>>, <<t>>)
Product(names, types) == Type("product", names, types)
UbProduct(names, types) == Type("ubproduct", names, types)
Sum(names, types) == Type("sum", names, types)
UbSum(names, types) == Type("ubsum", names, types)

\* gstypes_calculate_kind: a quantified type has the kind of its body.
Lifted(t) == t.node = "lift" \/ (t.node \in {"forall", "exists"} /\ t.args[1].node = "lift")
Boxed(t) == t.node \notin {"ubproduct", "ubsum", "bad", "none"}
Unlift(t) == IF t.node = "lift" THEN t.args[1] ELSE t
FieldOf(t, name) == SelectInSeq(t.names, LAMBDA n : n = name)
Ordered(names) == \A i \in 1 .. Len(names) - 1 : names[i] < names[i + 1]

\* gstype_instantiate, once for each type argument of the line; a variable
\* is not named, so that the body is the same for every argument.
Instantiated(t, ntyargs) ==
    FoldLeft(LAMBDA u, i : IF u.node = "forall" THEN u.args[1] ELSE BadType,
             t, [i \in 1 .. ntyargs |-> i])

-----------------------------------------------------------------------------
(* Lines.                                                                  *)

Line(op) == [op |-> op, sub |-> "", label |-> 0, args |-> <<>>, names |-> <<>>,
             type |-> NoType, code |-> "", codes |-> <<>>, ntyargs |-> 0, known |-> TRUE]

Ops == [tygvar |-> {".tygvar", ".tyextabstype", ".tyextelimprim"},
        subcode |-> {".subcode"},
        cogvar |-> {".cogvar"},
        gvar |-> {".gvar", ".rune", ".natural"},
        tyfv |-> {".tyfv"},
        tyarg |-> {".tyarg"},
        exkarg |-> {".exkarg"},
        tylet |-> {".tylet"},
        fv |-> {".fv", ".efv"},
        karg |-> {".karg"},
        fkarg |-> {".fkarg"},
        arg |-> {".arg", ".larg"},
        alloc |-> {".closure", ".prim", ".impprim", ".constr", ".exconstr",
                   ".record", ".lrecord", ".field", ".lfield", ".undefined",
                   ".appty", ".cast", ".lifted", ".apply"},
        bind |-> {".bind"},
        cast |-> {".coerce", ".lift", ".tyapp"},
        push |-> {".app", ".force", ".strict", ".ubanalyze"},
        terminal |-> {".yield", ".enter", ".ubprim", ".lprim", ".undef"},
        branch |-> {".analyze", ".danalyze"},
        body |-> {".body"},
        case |-> {".case"},
        default |-> {".default"}]

Group(l) == CHOOSE g \in DOMAIN Ops : l.op \in Ops[g]

\* gsbc_find_register: the first register with that label, 0 when there is none.
Register(labels, x) == SelectInSeq(labels, LAMBDA y : y = x)
AllFound(labels, xs) == \A i \in DOMAIN xs : Register(labels, xs[i]) # 0

-----------------------------------------------------------------------------
(* The loops of a reader, and the blocks of an item: the item itself, and  *)
(* the .default and .case blocks that follow an .analyze or .danalyze.     *)

Many(ops) == [ops |-> ops, next |-> 0, must |-> FALSE]
One(g) == [ops |-> {g}, next |-> 1, must |-> TRUE]      \* if (op(p)) ... else gsfatal
Instead(g) == [ops |-> {g}, next |-> 2, must |-> FALSE] \* if (op(p)) ... else the next loop
Loops(groups) == [i \in DOMAIN groups |-> Many(groups[i])]
Globals == Loops(<<{"tygvar"}, {"subcode"}, {"cogvar"}, {"gvar"}>>)

NextLoop(loops, k, g) ==
    LET taking == {i \in k .. Len(loops) : /\ g \in loops[i].ops
                                            /\ \A j \in k .. i - 1 : ~loops[j].must}
    IN  IF taking = {} THEN 0 ELSE CHOOSE i \in taking : \A j \in taking : i <= j

Fatal(s, why) == IF s.fatal = "" THEN [s EXCEPT !.fatal = why] ELSE s
Check(s, ok, why) == IF ok THEN s ELSE Fatal(s, why)

\* The reader moved to the loop that takes an op of the group.
Sought(s, loops, g) ==
    LET k == NextLoop(loops, s.loop, g)
    IN  IF k = 0 THEN Fatal(s, "order") ELSE [s EXCEPT !.loop = k + loops[k].next]

\* A branch is read block by block, and a block may end in another branch.  A
\* reader keeps a frame for each branch it is in: left counts the cases that are
\* still to come, the rest is what the reader comes back to after each of them.
StartBranch(s, l, frame) ==
    [s EXCEPT !.block = IF l.op = ".analyze" THEN "cases" ELSE "default?",
              !.branches = Append(@, frame)]
StartCase(s) == [s EXCEPT !.block = "case", !.loop = 1, !.branches[Len(s.branches)].left = @ - 1]
StartDefault(s) == [s EXCEPT !.block = "default", !.loop = 1]

\* A block that ends is the end of the block around it when its branch has no
\* more cases.  The frames of the branches with a block that ends, from inside:
StillIn(s) == Max({0} \cup {i \in DOMAIN s.branches : s.branches[i].left > 0})
Ending(s) == Reverse(SubSeq(s.branches, Max({1, StillIn(s)}), Len(s.branches)))
EndBlock(s) == [s EXCEPT !.block = IF StillIn(s) = 0 THEN "done" ELSE "cases",
                         !.branches = SubSeq(@, 1, StillIn(s))]

-----------------------------------------------------------------------------
(* The layout of byte code (gsbytecode.h).  An instruction holds a source  *)
(* position and an opcode (17 bytes) and its argument bytes, and is padded *)
(* to the next multiple of a word, by a whole word when it already is one. *)

Word == 8
ArgsOffset == 17
Bytecode(n) == ArgsOffset + n + (Word - ((ArgsOffset + n) % Word))
SizeofBco == 64

EfvSize == Bytecode(1)
ClosureSize(nfvs) == Bytecode(2 + nfvs)
PrimSize(nargs) == Bytecode(3 + nargs)
ImpprimSize(nargs) == Bytecode(2 + nargs)
UnknownPrimSize == Bytecode(0)
ConstrSize(nargs) == Bytecode(2 + nargs)
RecordSize(nfields) == Bytecode(1 + nfields)
FieldSize == Bytecode(2)
UndefinedSize == Bytecode(0)
AliasSize == Bytecode(1)
ApplySize(nargs) == Bytecode(2 + nargs)
AppSize(nargs) == Bytecode(1 + nargs)
ContSize(nfvs) == Bytecode(2 + nfvs)
UbanalyzeSize(ncases, nfvs) == Bytecode(2 + ncases + nfvs)
ReturnSize == Bytecode(1)
AnalyzeSize(ncases) == Bytecode(1) + ncases * Word
DanalyzeSize(ncases) == Bytecode(2 + ncases) + (1 + ncases) * Word
=============================================================================

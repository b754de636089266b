---------------------------- MODULE CodeEmitter ----------------------------
(***************************************************************************)
(* The emitter (bytecompile.c: gsbc_byte_compile_code_ops for expressions  *)
(* and continuations, gsbc_byte_compile_api_ops for imperative programs).  *)
(* It writes the instructions and has its own tables of registers.  types  *)
(* stands for the array regtypes: it is zeroed once, an op that names its  *)
(* register without a type leaves the entry as it was, and the end of a    *)
(* .case takes nregs back but not the types of the registers above it.     *)
(***************************************************************************)
EXTENDS CodeLines

EmitterNew == [block |-> "item", loop |-> 1, fatal |-> "", branches |-> <<>>,
               out |-> SizeofBco, regs |-> <<>>, types |-> <<>>, ntyregs |-> 0,
               codes |-> <<>>, nglobals |-> 0, nfvs |-> 0, nargs |-> 0,
               fields |-> <<>>, field |-> 0]

EmitBody == Loops(<<{"alloc"}, {"cast", "push"}, {"terminal", "branch"}>>)
EmitCodeLoops == Globals \o Loops(<<{"tyfv"}, {"tylet"}, {"fv"},
                                     {"cast", "tyarg", "exkarg", "tylet", "karg", "fkarg", "arg"}>>)
                         \o EmitBody
\* Mutant: nothing between the type arguments and the arguments.
EmitCaseLoopsNoLet ==
    Loops(<<{"tyarg", "exkarg"}, {"karg", "fkarg", "arg"}>>) \o EmitBody
EmitCaseLoops == Loops(<<{"tyarg", "exkarg"}, {"tylet"}, {"karg", "fkarg", "arg"}>>) \o EmitBody
EmitDefaultLoops == EmitBody
EmitApiLoops == Globals \o Loops(<<{"tyfv"}, {"tylet"}, {"tyarg", "exkarg"}, {"fv"},
                                    {"cast", "tylet", "karg", "fkarg", "arg"},
                                    {"alloc", "bind"}, {"body"}>>)

\* gsbc_bytecompile_code_item: which of the two walks an item gets.
EmitterLoops(s, kind) == CASE s.block = "case" -> EmitCaseLoops
                           [] s.block = "default" -> EmitDefaultLoops
                           [] OTHER -> IF kind = ".impprog" THEN EmitApiLoops ELSE EmitCodeLoops

Emitted(s, n) == [s EXCEPT !.out = @ + n]
NumFvsOf(l) == Len(SubCodes[l.code].fvs)

\* ADD_LABEL_TO_REGS and ADD_LABEL_TO_REGS_WITH_TYPE.
NameRegister(s, l) ==
    IF Len(s.regs) >= MaxRegs THEN Fatal(s, "registers")
    ELSE [s EXCEPT !.regs = Append(@, l.label),
                   !.types = IF Len(s.regs) < Len(@) THEN @ ELSE Append(@, NoType)]
NameTypedRegister(s, l, t) ==
    IF Len(s.regs) >= MaxRegs THEN Fatal(s, "registers")
    ELSE [NameRegister(s, l) EXCEPT !.types[Len(s.regs) + 1] = t]

TypeRegister(s) == IF s.ntyregs >= MaxRegs THEN Fatal(s, "registers")
                   ELSE [s EXCEPT !.ntyregs = @ + 1]

Finds(s, labels) == Check(s, AllFound(s.regs, labels), "register")
FindsCode(s, code) == Check(s, Register(s.codes, code) # 0, "register")
Captures(s, code) == Finds(s, [i \in DOMAIN SubCodes[code].fvs |-> SubCodes[code].fvs[i].name])
TypeOf(s, x) == IF Register(s.regs, x) = 0 THEN NoType ELSE s.types[Register(s.regs, x)]

-----------------------------------------------------------------------------
(* Globals, free variables and arguments.                                  *)

EmitTypeGvar(s, l) == TypeRegister(s)
EmitTypeFv(s, l) == TypeRegister(s)
EmitTypeArg(s, l) == TypeRegister(s)
EmitTypeLet(s, l) == TypeRegister(s)
EmitCogvar(s, l) == s
EmitCast(s, l) == s

EmitSubcode(s, l) ==
    IF Len(s.codes) >= MaxRegs THEN Fatal(s, "registers")
    ELSE [Emitted(s, Word) EXCEPT !.codes = Append(@, l.code)]

\* A .gvar has the type of the global; a .rune or a .natural gets none.
EmitDataGvar(s, l) ==
    LET t == IF l.op = ".gvar" THEN NameTypedRegister(s, l, l.type) ELSE NameRegister(s, l)
    IN  [Emitted(t, Word) EXCEPT !.nglobals = @ + 1]

\* Mutant: an .efv is no free variable.
EmitDataFvPlain(s, l) ==
    [NameTypedRegister(Emitted(s, IF l.op = ".efv" THEN EfvSize ELSE 0), l, l.type)
     EXCEPT !.nfvs = IF l.op = ".efv" THEN @ ELSE @ + 1]
EmitDataFv(s, l) ==
    [NameTypedRegister(Emitted(s, IF l.op = ".efv" THEN EfvSize ELSE 0), l, l.type)
     EXCEPT !.nfvs = @ + 1]

\* .arg, .larg, .karg and .fkarg; the fields of .fkargs come in order.
EmitArg(s, l) ==
    LET t == [NameTypedRegister(s, l, l.type) EXCEPT !.nargs = @ + 1]
    IN  IF l.op # ".fkarg" THEN t
        ELSE [Check(t, t.fields = <<>> \/ Last(t.fields) < l.names[1], "fields")
              EXCEPT !.fields = Append(@, l.names[1])]

-----------------------------------------------------------------------------
(* Allocations.                                                            *)

EmitClosure(s, l) ==
    Emitted(NameTypedRegister(Captures(FindsCode(s, l.code), l.code), l, SubCodes[l.code].result),
            ClosureSize(NumFvsOf(l)))

EmitPrim(s, l) ==
    IF l.known THEN Emitted(Finds(NameRegister(s, l), l.args), PrimSize(Len(l.args)))
    ELSE Emitted(NameRegister(s, l), UnknownPrimSize)

EmitImpprim(s, l) ==
    IF l.known THEN Emitted(NameRegister(Finds(s, l.args), l), ImpprimSize(Len(l.args)))
    ELSE Emitted(NameRegister(s, l), UnknownPrimSize)

\* The parser lets no constructor by with a value that is not in a pair (ParseConstr), so
\* the branch for such a value (2097-2099) is never taken.
EmitConstr(s, l) ==
    Emitted(Finds(Check(NameTypedRegister(s, l, l.type),
                        FieldOf(l.type, l.names[1]) # 0, "constructor"),
                  l.args),
            ConstrSize(Len(l.args)))

\* The fields of a record come in the order of their names.
EmitRecord(s, l) ==
    Emitted(NameRegister(Check(Finds(s, l.args), Ordered(l.names), "fields"), l),
            RecordSize(Len(l.args)))

\* The number of the field is found in the emitter's type of the record.
EmitField(s, l) ==
    LET known == TypeOf(s, l.args[1])
        product == IF l.op = ".lfield" /\ known.node = "lift" THEN known.args[1] ELSE known
        k == FieldOf(product, l.names[1])
        t == Check(Check(Finds(s, l.args), known # NoType, "no type"), k # 0, "field")
    IN  [Emitted(NameTypedRegister(t, l, IF k = 0 THEN BadType ELSE product.args[k]), FieldSize)
         EXCEPT !.field = k]

EmitUndefined(s, l) == Emitted(NameTypedRegister(s, l, l.type), UndefinedSize)
EmitAlias(s, l) == Emitted(NameRegister(Finds(s, l.args), l), AliasSize)

\* The type of an application as the emitter works it out: no argument is checked.
ResultType(t, nargs) ==
    FoldLeft(LAMBDA f, i : IF Unlift(f).node = "fun" THEN Unlift(f).args[2] ELSE BadType,
             t, [i \in 1 .. nargs |-> i])

\* Mutant: the last argument is not applied.
ApplyTypeButLast(s, l) ==
    ResultType(Instantiated(TypeOf(s, l.args[1]), l.ntyargs), Len(l.args) - 2)
ApplyType(s, l) == ResultType(Instantiated(TypeOf(s, l.args[1]), l.ntyargs), Len(l.args) - 1)
EmitsApply(s, l) ==
    Check(Check(Finds(s, l.args), TypeOf(s, l.args[1]) # NoType, "no type"),
          ApplyType(s, l) # BadType, "function")
EmitApply(s, l) ==
    Emitted(NameTypedRegister(EmitsApply(s, l), l, ApplyType(s, l)), ApplySize(Len(l.args) - 1))

EmitAlloc(s, l) ==
    CASE l.op = ".closure" -> EmitClosure(s, l)
      [] l.op = ".prim" -> EmitPrim(s, l)
      [] l.op = ".impprim" -> EmitImpprim(s, l)
      [] l.op \in {".constr", ".exconstr"} -> EmitConstr(s, l)
      [] l.op \in {".record", ".lrecord"} -> EmitRecord(s, l)
      [] l.op \in {".field", ".lfield"} -> EmitField(s, l)
      [] l.op = ".undefined" -> EmitUndefined(s, l)
      [] l.op \in {".appty", ".cast", ".lifted"} -> EmitAlias(s, l)
      [] l.op = ".apply" -> EmitApply(s, l)

\* A .bind .closure names its register with the type the statement returns.
EmitBindClosure(s, l) ==
    LET t == Unlift(SubCodes[l.code].result)
        ok == Captures(FindsCode(s, l.code), l.code)
    IN  Emitted(NameTypedRegister(Check(ok, t.node = "app", "application"), l,
                                  IF t.node = "app" THEN t.args[1] ELSE BadType),
                ClosureSize(NumFvsOf(l)))
EmitBindApply(s, l) == Emitted(NameRegister(EmitsApply(s, l), l), ApplySize(Len(l.args) - 1))
EmitBind(s, l) == CASE l.sub = ".closure" -> EmitBindClosure(s, l)
                    [] l.sub = ".apply" -> EmitBindApply(s, l)
                    [] OTHER -> Fatal(s, "unimplemented")

-----------------------------------------------------------------------------
(* Continuations and terminals.                                            *)

EmitApp(s, l) == Emitted(Finds(s, l.args), AppSize(Len(l.args)))
EmitForce(s, l) == Emitted(Captures(FindsCode(s, l.code), l.code), ContSize(NumFvsOf(l)))
EmitUbanalyze(s, l) ==
    LET t == Check(s, l.names # <<>> /\ AllFound(s.codes, l.codes), "register")
    IN  Emitted(Captures(t, l.code), UbanalyzeSize(Len(l.names), NumFvsOf(l)))
EmitPush(s, l) == CASE l.op = ".app" -> EmitApp(s, l)
                    [] l.op \in {".force", ".strict"} -> EmitForce(s, l)
                    [] l.op = ".ubanalyze" -> EmitUbanalyze(s, l)

EmitReturn(s, l) == IF l.op = ".undef" THEN Emitted(s, UndefinedSize)
                    ELSE Emitted(Finds(s, l.args), ReturnSize)
EmitTerminalPrim(s, l) ==
    IF l.known THEN Emitted(Finds(s, l.args), PrimSize(Len(l.args)))
    ELSE Emitted(s, UnknownPrimSize)

\* A block that ends gives back what it named; the blocks of a .danalyze keep
\* their type registers.
\* Mutant: they stay named.
EmitEndNamed(s) == EndBlock(s)
EmitEnd(s) ==
    LET Restored(t, frame) ==
            [t EXCEPT !.regs = SubSeq(@, 1, frame.nregs), !.nargs = frame.nargs,
                      !.ntyregs = IF frame.op = ".danalyze" THEN @ ELSE frame.ntyregs]
    IN  EndBlock(FoldLeft(Restored, s, Ending(s)))
EmitTerminal(s, l) ==
    EmitEnd(IF l.op \in {".ubprim", ".lprim"} THEN EmitTerminalPrim(s, l) ELSE EmitReturn(s, l))

Saving(s, l) == [left |-> Len(l.names), op |-> l.op, names |-> l.names,
                 sum |-> TypeOf(s, l.args[1]), nregs |-> Len(s.regs), nargs |-> s.nargs,
                 ntyregs |-> s.ntyregs]
EmitAnalyze(s, l) ==
    StartBranch(Emitted(Finds(s, l.args), AnalyzeSize(Len(l.names))), l, Saving(s, l))
EmitDanalyze(s, l) ==
    LET known == Check(Finds(s, l.args), TypeOf(s, l.args[1]) # NoType, "no type")
    IN  StartBranch(Emitted(known, DanalyzeSize(Len(l.names))), l, Saving(s, l))

\* gsbc_typecheck_find_constr with the emitter's type: a constructor of a .danalyze
\* is found behind the last one.
FindsConstr(s, l) ==
    LET frame == Last(s.branches)
        last == Len(frame.names) - frame.left
        k == FieldOf(frame.sum, l.names[1])
    IN  frame.op = ".danalyze" =>
            /\ k > IF last = 0 THEN 0 ELSE FieldOf(frame.sum, frame.names[last])
            /\ Ordered(SubSeq(frame.sum.names, 1, k))
EmitCase(s, l) ==
    LET t == Check(s, l.op = ".case" /\ s.block = "cases", "order")
    IN  [StartCase(Check(t, FindsConstr(s, l), "constructor")) EXCEPT !.fields = <<>>]
EmitDefault(s, l) ==
    [StartDefault(Check(s, l.op = ".default" /\ s.block = "default?", "order"))
     EXCEPT !.fields = <<>>]

EmitBodyOp(s, l) ==
    EndBlock(CASE l.sub = ".closure" ->
                    Emitted(Captures(FindsCode(s, l.code), l.code), ClosureSize(NumFvsOf(l)))
               [] l.sub = ".undefined" -> Emitted(s, UndefinedSize)
               [] l.sub = ".appty" -> Emitted(Finds(s, l.args), AliasSize)
               [] l.sub = ".apply" -> Emitted(Finds(s, l.args), ApplySize(Len(l.args) - 1)))

-----------------------------------------------------------------------------

EmitOp(s, l) ==
    LET g == Group(l)
    IN  CASE g = "tygvar" -> EmitTypeGvar(s, l)
          [] g = "subcode" -> EmitSubcode(s, l)
          [] g = "cogvar" -> EmitCogvar(s, l)
          [] g = "gvar" -> EmitDataGvar(s, l)
          [] g = "tyfv" -> EmitTypeFv(s, l)
          [] g \in {"tyarg", "exkarg"} -> EmitTypeArg(s, l)
          [] g = "tylet" -> EmitTypeLet(s, l)
          [] g = "fv" -> EmitDataFv(s, l)
          [] g \in {"karg", "fkarg", "arg"} -> EmitArg(s, l)
          [] g = "alloc" -> EmitAlloc(s, l)
          [] g = "bind" -> EmitBind(s, l)
          [] g = "cast" -> EmitCast(s, l)
          [] g = "push" -> EmitPush(s, l)
          [] g = "terminal" -> EmitTerminal(s, l)
          [] g = "branch" -> IF l.op = ".analyze" THEN EmitAnalyze(s, l) ELSE EmitDanalyze(s, l)
          [] g = "body" -> EmitBodyOp(s, l)

EmitterReads(s, l, kind) ==
    IF s.fatal # "" THEN s
    ELSE CASE l.op = ".case" -> EmitCase(s, l)
           [] l.op = ".default" -> EmitDefault(s, l)
           [] OTHER -> LET t == Sought([s EXCEPT !.field = 0], EmitterLoops(s, kind), Group(l))
                       IN  IF t.fatal # "" THEN t ELSE EmitOp(t, l)
=============================================================================

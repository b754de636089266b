---------------------------- MODULE CodeSizer ----------------------------
(***************************************************************************)
(* The size pass (bytecompile.c: gsbc_bytecode_size_item): how many bytes  *)
(* the byte code of a code item takes, counted line by line before the     *)
(* block it is emitted into is reserved.                                   *)
(***************************************************************************)
EXTENDS CodeLines

SizerNew == [block |-> "item", loop |-> 1, fatal |-> "", branches |-> <<>>,
             size |-> SizeofBco, nregs |-> 0, codes |-> <<>>]

SizeItemLoops == Globals \o Loops(<<{"tyfv"}, {"tylet"}, {"fv"},
                                     {"cast", "tyarg", "tylet", "karg", "fkarg", "arg"},
                                     {"alloc", "bind"}, {"cast", "push"},
                                     {"terminal", "branch", "body"}>>)
SizeCaseLoops == Loops(<<{"exkarg"}, {"tylet"}, {"karg", "fkarg"}, {"alloc", "bind"},
                         {"cast", "push"}, {"terminal", "branch", "body"}>>)
SizeDefaultLoops == Loops(<<{"alloc", "bind"}, {"cast", "push"},
                            {"terminal", "branch", "body"}>>)

SizerLoops(s) == CASE s.block = "case" -> SizeCaseLoops
                   [] s.block = "default" -> SizeDefaultLoops
                   [] OTHER -> SizeItemLoops

Sized(s, n) == [s EXCEPT !.size = @ + n]
CountRegister(s) == IF s.nregs >= MaxRegs THEN Fatal(s, "registers")
                    ELSE [s EXCEPT !.nregs = @ + 1]
Aligned(s) == Check(s, s.size % Word = 0, "alignment")

\* The code of a .subcode line, and how many free variables it has.
KnownCode(s, l) == Check(s, Register(s.codes, l.code) # 0, "register")
NumFvs(l) == Len(SubCodes[l.code].fvs)

-----------------------------------------------------------------------------
(* Types are erased.                                                       *)

SizeTypeGvar(s, l) == s
SizeTypeFv(s, l) == s
SizeTypeArg(s, l) == s
SizeContTypeArg(s, l) == s
SizeTypeLet(s, l) == s
SizeCogvar(s, l) == s
SizeCast(s, l) == s

SizeSubcode(s, l) ==
    IF Len(s.codes) >= MaxRegs THEN Fatal(s, "registers")
    ELSE [Sized(Aligned(s), Word) EXCEPT !.codes = Append(@, l.code)]

\* .gvar, .rune and .natural alike: one word of the item.
SizeDataGvar(s, l) == Sized(Aligned(CountRegister(s)), Word)

\* Mutant: the instruction an .efv takes is not counted.
SizeDataFvUncounted(s, l) == CountRegister(s)
SizeDataFv(s, l) == Sized(CountRegister(s), IF l.op = ".efv" THEN EfvSize ELSE 0)
SizeContArg(s, l) == CountRegister(s)
SizeArg(s, l) == CountRegister(s)

-----------------------------------------------------------------------------
(* Allocations.  .constr and .exconstr do not count their register.        *)

SizeClosure(s, l) == Sized(KnownCode(CountRegister(s), l), ClosureSize(NumFvs(l)))
SizePrim(s, l) == Sized(CountRegister(s),
                        IF l.known THEN PrimSize(Len(l.args)) ELSE UnknownPrimSize)
SizeImpprim(s, l) == Sized(CountRegister(s),
                           IF l.known THEN ImpprimSize(Len(l.args)) ELSE UnknownPrimSize)
SizeConstr(s, l) == Sized(s, ConstrSize(Len(l.args)))
SizeRecord(s, l) == Sized(CountRegister(s), RecordSize(Len(l.args)))
SizeField(s, l) == Sized(CountRegister(s), FieldSize)
SizeUndefined(s, l) == Sized(CountRegister(s), UndefinedSize)
SizeAlias(s, l) == Sized(CountRegister(s), AliasSize)
SizeApply(s, l) == Sized(CountRegister(s), ApplySize(Len(l.args) - 1))
SizeBindClosure(s, l) == Sized(KnownCode(CountRegister(s), l), ClosureSize(NumFvs(l)))
SizeBindApply(s, l) == Sized(CountRegister(s), ApplySize(Len(l.args) - 1))

SizeAlloc(s, l) ==
    CASE l.op = ".closure" -> SizeClosure(s, l)
      [] l.op = ".prim" -> SizePrim(s, l)
      [] l.op = ".impprim" -> SizeImpprim(s, l)
      [] l.op \in {".constr", ".exconstr"} -> SizeConstr(s, l)
      [] l.op \in {".record", ".lrecord"} -> SizeRecord(s, l)
      [] l.op \in {".field", ".lfield"} -> SizeField(s, l)
      [] l.op = ".undefined" -> SizeUndefined(s, l)
      [] l.op \in {".appty", ".cast", ".lifted"} -> SizeAlias(s, l)
      [] l.op = ".apply" -> SizeApply(s, l)
      [] l.op = ".bind" /\ l.sub = ".closure" -> SizeBindClosure(s, l)
      [] l.op = ".bind" /\ l.sub = ".apply" -> SizeBindApply(s, l)
      [] OTHER -> Fatal(s, "unimplemented")

-----------------------------------------------------------------------------
(* Continuations and terminals.                                            *)

\* The continuations of .force, .strict and .ubanalyze; the first code of an
\* .ubanalyze stands for all of them.
SizePush(s, l) ==
    CASE l.op = ".app" -> Sized(s, AppSize(Len(l.args)))
      [] l.op \in {".force", ".strict"} -> Sized(KnownCode(s, l), ContSize(NumFvs(l)))
      [] l.op = ".ubanalyze" ->
            Sized(KnownCode(Check(s, l.names # <<>>, "cases"), l),
                  UbanalyzeSize(Len(l.names), NumFvs(l)))

SizeReturn(s, l) == Sized(s, IF l.op = ".undef" THEN UndefinedSize ELSE ReturnSize)
SizeTerminalPrim(s, l) == Sized(s, IF l.known THEN PrimSize(Len(l.args)) ELSE UnknownPrimSize)
SizeAnalyze(s, l) == Sized(s, AnalyzeSize(Len(l.names)))
SizeDanalyze(s, l) == Sized(s, DanalyzeSize(Len(l.names)))
SizeBody(s, l) ==
    CASE l.sub = ".closure" -> Sized(KnownCode(s, l), ClosureSize(NumFvs(l)))
      [] l.sub = ".undefined" -> Sized(s, UndefinedSize)
      [] l.sub = ".appty" -> Sized(s, AliasSize)
      [] l.sub = ".apply" -> Sized(CountRegister(s), ApplySize(Len(l.args) - 1))

SizeTerminal(s, l) ==
    LET t == CASE l.op \in {".yield", ".enter", ".undef"} -> SizeReturn(s, l)
               [] l.op \in {".ubprim", ".lprim"} -> SizeTerminalPrim(s, l)
               [] l.op = ".body" -> SizeBody(s, l)
        Restored(u, frame) == [u EXCEPT !.nregs = frame.nregs]
    IN  EndBlock(FoldLeft(Restored, t, Ending(s)))

SizeBranch(s, l) ==
    StartBranch(IF l.op = ".analyze" THEN SizeAnalyze(s, l) ELSE SizeDanalyze(s, l), l,
                [left |-> Len(l.names), nregs |-> s.nregs])

SizeCase(s, l) == StartCase(Check(s, l.op = ".case" /\ s.block = "cases", "order"))
SizeDefault(s, l) == StartDefault(Check(s, l.op = ".default" /\ s.block = "default?", "order"))

-----------------------------------------------------------------------------

SizeOp(s, l) ==
    LET g == Group(l)
    IN  CASE g = "tygvar" -> SizeTypeGvar(s, l)
          [] g = "subcode" -> SizeSubcode(s, l)
          [] g = "cogvar" -> SizeCogvar(s, l)
          [] g = "gvar" -> SizeDataGvar(s, l)
          [] g = "tyfv" -> SizeTypeFv(s, l)
          [] g = "tyarg" -> SizeTypeArg(s, l)
          [] g = "exkarg" -> SizeContTypeArg(s, l)
          [] g = "tylet" -> SizeTypeLet(s, l)
          [] g = "fv" -> SizeDataFv(s, l)
          [] g \in {"karg", "fkarg"} -> SizeContArg(s, l)
          [] g = "arg" -> SizeArg(s, l)
          [] g \in {"alloc", "bind"} -> SizeAlloc(s, l)
          [] g = "cast" -> SizeCast(s, l)
          [] g = "push" -> SizePush(s, l)
          [] g \in {"terminal", "body"} -> SizeTerminal(s, l)
          [] g = "branch" -> SizeBranch(s, l)

SizerReads(s, l) ==
    IF s.fatal # "" THEN s
    ELSE CASE l.op = ".case" -> SizeCase(s, l)
           [] l.op = ".default" -> SizeDefault(s, l)
           [] OTHER -> LET t == Sought(s, SizerLoops(s), Group(l))
                       IN  IF t.fatal # "" THEN t ELSE SizeOp(t, l)
=============================================================================

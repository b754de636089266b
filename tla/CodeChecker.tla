---------------------------- MODULE CodeChecker ----------------------------
(***************************************************************************)
(* The type checker of code items (typecheck.c: gsbc_typecheck_code_expr,  *)
(* gsbc_typecheck_force_cont, gsbc_typecheck_strict_cont,                  *)
(* gsbc_typecheck_ubcase_cont and gsbc_typecheck_api_expr).  It works out  *)
(* the type of an item from its end: the ops that change the type of what  *)
(* follows them, arguments and continuations, are pushed on a stack, and   *)
(* popped once the type of the terminal is known.                          *)
(*                                                                         *)
(* Data registers keep their labels and types; the type and coercion       *)
(* registers, which take places of the same table, are only counted.  The  *)
(* parser takes no type arguments for a .closure, so a free type variable  *)
(* of a code item is the variable of that name in the item that uses it:   *)
(* variables are numbered as they are bound, and substituting one for      *)
(* itself changes nothing.                                                 *)
(***************************************************************************)
EXTENDS CodeLines

CheckerNew ==
    [block |-> "item", loop |-> 1, fatal |-> "", branches |-> <<>>,
     regs |-> <<>>, types |-> <<>>, bound |-> <<>>, others |-> 0,
     codes |-> <<>>, tyvars |-> 0, ntyfvs |-> 0, fvs |-> <<>>, stack |-> <<>>,
     karg |-> NoType, fields |-> <<>>, exargs |-> 0, result |-> NoType]

CheckBodyLoops == Loops(<<{"alloc"}, {"cast", "push"}, {"terminal", "branch"}>>)
CheckFvs == Loops(<<{"tyfv"}, {"tylet"}, {"fv"}>>)
CheckExprLoops == Globals \o CheckFvs \o Loops(<<{"cast", "tyarg", "tylet", "arg"}>>) \o CheckBodyLoops
CheckForceContLoops == Globals \o CheckFvs \o Loops(<<{"tylet"}>>) \o <<One("karg")>> \o CheckBodyLoops
CheckStrictContLoops == Globals \o CheckFvs \o <<One("karg")>> \o CheckBodyLoops
CheckUbcaseContLoops == Globals \o CheckFvs \o <<Instead("karg"), Many({"fkarg"})>> \o CheckBodyLoops
CheckApiLoops == Globals \o Loops(<<{"tyfv"}, {"tyarg"}, {"tylet"}, {"fv"},
                                     {"cast", "tylet", "arg"}, {"alloc", "bind"}, {"body"}>>)
CheckCaseLoops == Loops(<<{"exkarg"}, {"tylet"}>>)
                    \o <<Instead("karg"), Many({"fkarg"})>> \o CheckBodyLoops
CheckDefaultLoops == CheckBodyLoops

CheckItemLoops(kind) == CASE kind = ".expr" -> CheckExprLoops
                          [] kind = ".forcecont" -> CheckForceContLoops
                          [] kind = ".strictcont" -> CheckStrictContLoops
                          [] kind = ".ubcasecont" -> CheckUbcaseContLoops
                          [] kind = ".impprog" -> CheckApiLoops
CheckerLoops(s, kind) == CASE s.block = "case" -> CheckCaseLoops
                           [] s.block = "default" -> CheckDefaultLoops
                           [] OTHER -> CheckItemLoops(kind)

-----------------------------------------------------------------------------
(* Registers.                                                              *)

NumRegs(s) == Len(s.regs) + s.others
NewRegister(s, l, t, isbound) ==
    [s EXCEPT !.regs = Append(@, l.label), !.types = Append(@, t), !.bound = Append(@, isbound)]
DataRegister(s, l, t) ==
    IF NumRegs(s) >= MaxRegs THEN Fatal(s, "registers") ELSE NewRegister(s, l, t, FALSE)
OtherRegister(s) ==
    IF NumRegs(s) >= MaxRegs THEN Fatal(s, "registers") ELSE [s EXCEPT !.others = @ + 1]
TypeVariable(s) == [OtherRegister(s) EXCEPT !.tyvars = @ + 1]

CFinds(s, labels) == Check(s, AllFound(s.regs, labels), "register")
TypeAt(s, x) == IF Register(s.regs, x) = 0 THEN BadType ELSE s.types[Register(s.regs, x)]
Push(s, l) == IF Len(s.stack) >= MaxRegs THEN Fatal(s, "stack")
              ELSE [s EXCEPT !.stack = Append(@, l)]

WellTyped(s, t) == Check(s, t # BadType, "type")
IsLifted(s, t) == Check(s, Lifted(t), "kind")
IsUnlifted(s, t) == Check(s, ~Lifted(t), "kind")
IsBoxed(s, t) == Check(s, Boxed(t), "boxed")

CheckTypeGvar(s, l) == OtherRegister(s)
CheckTypeFv(s, l) == [TypeVariable(s) EXCEPT !.ntyfvs = @ + 1]
CheckTypeArg(s, l) == Push(TypeVariable(s), l)
CheckTypeLet(s, l) == OtherRegister(s)
CheckCogvar(s, l) == OtherRegister(s)
CheckContTypeArg(s, l) == [TypeVariable(s) EXCEPT !.exargs = @ + 1]
CheckSubcode(s, l) == IF Len(s.codes) >= MaxRegs THEN Fatal(s, "registers")
                      ELSE [s EXCEPT !.codes = Append(@, l.code)]
CheckDataGvar(s, l) == DataRegister(s, l, IF l.op = ".gvar" THEN l.type ELSE Prim)
CheckDataFv(s, l) ==
    [DataRegister(Check(s, l.op = ".efv" => ~Lifted(l.type), "kind"), l, l.type)
     EXCEPT !.fvs = Append(@, [name |-> l.label, type |-> l.type, efv |-> l.op = ".efv"])]
CheckDataArg(s, l) == Push(DataRegister(IsBoxed(s, l.type), l, l.type), l)

\* .karg: what a .forcecont gets is not lifted, what a .strictcont gets is.
CheckContArg(s, l, kind) ==
    LET t == Check(IsBoxed(Check(s, s.karg = NoType, "karg"), l.type),
                   s.block = "item" => /\ kind = ".forcecont" => ~Lifted(l.type)
                                       /\ kind = ".strictcont" => Lifted(l.type), "kind")
    IN  [DataRegister(t, l, l.type) EXCEPT !.karg = l.type]
CheckFieldContArg(s, l) ==
    [DataRegister(IsBoxed(s, l.type), l, l.type)
     EXCEPT !.fields = Append(@, [name |-> l.names[1], type |-> l.type])]

-----------------------------------------------------------------------------
(* What a code item needs where it is used: its free type variables and    *)
(* its free variables, by name and with their types; and, in an imperative *)
(* program, .efv for what is .bind-bound and not lifted.                   *)

HasTypeVariables(s, code) == SubCodes[code].ntyfvs <= s.tyvars
HasVariables(s, code) ==
    \A i \in DOMAIN SubCodes[code].fvs :
        LET fv == SubCodes[code].fvs[i]
        IN  Register(s.regs, fv.name) # 0 /\ TypeAt(s, fv.name) = fv.type
Available(s, code) ==
    Register(s.codes, code) # 0 /\ HasTypeVariables(s, code) /\ HasVariables(s, code)
DeclaresBound(s, code) ==
    \A i \in DOMAIN SubCodes[code].fvs :
        LET fv == SubCodes[code].fvs[i]
        IN  s.bound[Register(s.regs, fv.name)] => fv.efv \/ Lifted(fv.type)

\* The type of a function applied to one argument.
AppliedTo(s, f, x) == IF f.node = "fun" /\ f.args[1] = TypeAt(s, x) THEN f.args[2] ELSE BadType
PrimApplied(s, t, args) == FoldLeft(LAMBDA f, x : AppliedTo(s, f, x), t, args)
AppApplied(s, t, args) == FoldLeft(LAMBDA f, x : AppliedTo(s, Unlift(f), x), t, args)
ThunkApplied(s, t, args) ==
    FoldLeft(LAMBDA f, x : LET r == AppliedTo(s, Unlift(f), x)
                           IN  IF f.node = "lift" /\ ~Lifted(r) THEN BadType ELSE r, t, args)

\* gsbc_typecheck_check_api_statement_type: what a statement of the program
\* returns, or, whole, its type without the lift.
Statement(t, whole) == IF Unlift(t).node # "app" THEN BadType
                       ELSE IF whole THEN Unlift(t) ELSE Unlift(t).args[1]

-----------------------------------------------------------------------------
(* Thunks (gsbc_typecheck_alloc_rhs): the right-hand side of an allocation *)
(* or, in an imperative program, of a .bind or a .body.                    *)

RhsType(s, l, sub) ==
    CASE sub = ".closure" -> SubCodes[l.code].result
      [] sub = ".undefined" -> l.type
      [] sub = ".apply" -> ThunkApplied(s, Instantiated(TypeAt(s, l.args[1]), l.ntyargs),
                                        Tail(l.args))
      [] sub = ".appty" -> Instantiated(TypeAt(s, l.args[1]), l.ntyargs)

RhsClosure(s, l, isalloc) ==
    LET available == Check(s, Available(s, l.code), "free variable")
        t == IF isalloc \/ available.fatal # "" THEN available
             ELSE Check(available, DeclaresBound(s, l.code), "efv")
    IN  IsBoxed(Check(t, isalloc => Lifted(RhsType(s, l, ".closure")), "kind"),
                RhsType(s, l, ".closure"))
RhsApply(s, l, isalloc) ==
    LET r == RhsType(s, l, ".apply")
        found == CFinds(s, l.args)
        t == IF found.fatal # "" THEN found
             ELSE Check(WellTyped(found, r),
                        \A i \in 2 .. Len(l.args) :
                            ~isalloc /\ s.bound[Register(s.regs, l.args[i])] =>
                                Lifted(TypeAt(s, l.args[i])), "efv")
    IN  Check(IsBoxed(t, r), isalloc => Lifted(r), "kind")
CheckedRhs(s, l, sub, isalloc) ==
    CASE sub = ".closure" -> RhsClosure(s, l, isalloc)
      [] sub = ".undefined" -> IsLifted(s, l.type)
      [] sub = ".apply" -> RhsApply(s, l, isalloc)
      [] sub = ".appty" -> LET r == RhsType(s, l, sub)
                           IN  IsBoxed(WellTyped(CFinds(s, l.args), r), r)

\* The register of a .bind has what the statement returns; the table is not
\* looked at for room.
CheckBind(s, l) ==
    LET t == Statement(RhsType(s, l, l.sub), FALSE)
    IN  NewRegister(WellTyped(CheckedRhs(s, l, l.sub, FALSE), t), l, t, TRUE)

-----------------------------------------------------------------------------
(* Values (gsbc_typecheck_alloc_op).                                       *)

CheckThunk(s, l) == DataRegister(CheckedRhs(s, l, l.op, TRUE), l, RhsType(s, l, l.op))

PrimResult(s, l) == PrimApplied(s, l.type, l.args)
CheckPrim(s, l) ==
    LET r == PrimResult(s, l)
    IN  DataRegister(IsBoxed(IsUnlifted(WellTyped(CFinds(s, l.args), r), r), r), l, r)
CheckImpprim(s, l) ==
    LET r == PrimResult(s, l)
    IN  DataRegister(WellTyped(CFinds(s, l.args), Statement(r, FALSE)), l, r)

\* The fields given are the fields of the constructor, in the order of their
\* names; .exconstr instantiates its existential types first.
Opened(t, ntyargs) ==
    FoldLeft(LAMBDA u, i : IF u.node = "exists" THEN u.args[1] ELSE BadType,
             t, [i \in 1 .. ntyargs |-> i])
CheckConstr(s, l) ==
    LET k == IF l.type.node = "sum" THEN FieldOf(l.type, l.names[1]) ELSE 0
        fields == Tail(l.names)
        given == UbProduct(fields, [i \in DOMAIN l.args |-> TypeAt(s, l.args[i])])
        taken == IF k = 0 THEN BadType ELSE Opened(l.type.args[k], l.ntyargs)
        t == Check(CFinds(s, l.args), k # 0 /\ Ordered(l.type.names), "constructor")
    IN  DataRegister(Check(Check(t, Ordered(fields), "fields"), given = taken, "type"), l, l.type)

RecordType(s, l) ==
    LET p == Product(l.names, [i \in DOMAIN l.args |-> TypeAt(s, l.args[i])])
    IN  IF l.op = ".lrecord" THEN Lift(p) ELSE p
CheckRecord(s, l) ==
    DataRegister(Check(CFinds(s, l.args), l.type \in {NoType, RecordType(s, l)}, "type"),
                 l, RecordType(s, l))

CheckField(s, l) ==
    LET known == TypeAt(s, l.args[1])
        p == IF l.op = ".field" THEN known
             ELSE IF known.node = "lift" THEN known.args[1] ELSE BadType
        k == IF p.node = "product" THEN FieldOf(p, l.names[1]) ELSE 0
        field == IF k = 0 THEN BadType ELSE p.args[k]
        t == Check(CFinds(s, l.args), k # 0, "field")
    IN  DataRegister(Check(t, l.op = ".lfield" => Lifted(field), "kind"), l, field)

CheckLifted(s, l) ==
    LET t == TypeAt(s, l.args[1])
    IN  DataRegister(IsUnlifted(CFinds(s, l.args), t), l, Lift(t))
CheckCastAlloc(s, l) ==
    DataRegister(Check(CFinds(s, l.args), TypeAt(s, l.args[1]) = l.type.args[1], "type"),
                 l, l.type.args[2])

CheckAlloc(s, l) ==
    CASE l.op \in {".closure", ".undefined", ".apply", ".appty"} -> CheckThunk(s, l)
      [] l.op = ".prim" -> CheckPrim(s, l)
      [] l.op = ".impprim" -> CheckImpprim(s, l)
      [] l.op \in {".constr", ".exconstr"} -> CheckConstr(s, l)
      [] l.op \in {".record", ".lrecord"} -> CheckRecord(s, l)
      [] l.op \in {".field", ".lfield"} -> CheckField(s, l)
      [] l.op = ".lifted" -> CheckLifted(s, l)
      [] l.op = ".cast" -> CheckCastAlloc(s, l)

CheckCast(s, l) == Push(s, l)
CheckContPush(s, l) == Push(s, l)

-----------------------------------------------------------------------------
(* Unwinding (gsbc_typecheck_cont, gsbc_typecheck_data_arg and             *)
(* gsbc_typecheck_code_type_arg): from the type t of what follows an op of *)
(* the stack, the type of the op and what follows it; BadType is fatal.    *)

Coerced(t, l) == IF l.type.args[1] = t THEN l.type.args[2] ELSE BadType
ForceCont(s, t, l) ==
    IF /\ t.node = "lift"
       /\ SubCodes[l.code].kind = ".forcecont"
       /\ Available(s, l.code)
       /\ SubCodes[l.code].karg = t.args[1]
    THEN SubCodes[l.code].result ELSE BadType
StrictCont(s, t, l) ==
    IF /\ Lifted(t)
       /\ SubCodes[l.code].kind = ".strictcont"
       /\ Available(s, l.code)
       /\ SubCodes[l.code].karg = t
    THEN SubCodes[l.code].result ELSE BadType

\* The continuations of an .ubanalyze are emitted with one list of free
\* variables, the first one's: all have to have that list.
FvNames(code) == [i \in DOMAIN SubCodes[code].fvs |-> SubCodes[code].fvs[i].name]
UbanalyzeCont(s, t, l) ==
    IF /\ t.node = "ubsum"
       /\ l.names # <<>>
       /\ \A i \in DOMAIN l.codes : /\ Available(s, l.codes[i])
                                     /\ SubCodes[l.codes[i]].ntyfvs = SubCodes[l.code].ntyfvs
                                     /\ FvNames(l.codes[i]) = FvNames(l.code)
                                     /\ SubCodes[l.codes[i]].result = SubCodes[l.code].result
       /\ t = UbSum(l.names, [i \in DOMAIN l.codes |-> SubCodes[l.codes[i]].karg])
    THEN SubCodes[l.code].result ELSE BadType

DataArg(t, l) == IF l.op = ".larg" THEN Lift(Fun(l.type, t)) ELSE Fun(l.type, t)

Popped(s, t, l) ==
    IF t = BadType THEN BadType
    ELSE CASE l.op = ".lift" -> IF Lifted(t) THEN BadType ELSE Lift(t)
           [] l.op = ".tyapp" -> Instantiated(t, l.ntyargs)
           [] l.op = ".coerce" -> Coerced(t, l)
           [] l.op = ".force" -> ForceCont(s, t, l)
           [] l.op = ".strict" -> StrictCont(s, t, l)
           [] l.op = ".ubanalyze" -> UbanalyzeCont(s, t, l)
           [] l.op = ".app" -> AppApplied(s, t, l.args)
           [] l.op \in {".arg", ".larg"} -> DataArg(t, l)
           [] l.op = ".tyarg" -> Forall(t)

Unwound(s, t, size) ==
    FoldLeft(LAMBDA u, l : Popped(s, u, l), t, Reverse(SubSeq(s.stack, size + 1, Len(s.stack))))

-----------------------------------------------------------------------------
(* Terminals and branches.                                                 *)

TerminalType(s, l) ==
    CASE l.op = ".undef" -> l.type
      [] l.op \in {".yield", ".enter"} -> Instantiated(TypeAt(s, l.args[1]), l.ntyargs)
      [] l.op \in {".ubprim", ".lprim"} -> PrimApplied(s, l.type, l.args)
      [] l.op = ".body" -> Statement(RhsType(s, l, l.sub), TRUE)

CheckUndef(s, t) == IsLifted(s, t)
CheckYield(s, t) == IsUnlifted(s, t)
CheckEnter(s, t) == IsLifted(s, t)
CheckUbprim(s, t) == Check(s, t.node = "ubsum", "type")
CheckLprim(s, t) == IsBoxed(IsLifted(s, t), t)
CheckBody(s, l) == CheckedRhs(s, l, l.sub, FALSE)
CheckedTerminal(s, l, t) ==
    CASE l.op = ".undef" -> CheckUndef(s, t)
      [] l.op = ".yield" -> CheckYield(s, t)
      [] l.op = ".enter" -> CheckEnter(s, t)
      [] l.op = ".ubprim" -> CheckUbprim(s, t)
      [] l.op = ".lprim" -> CheckLprim(s, t)
      [] l.op = ".body" -> CheckBody(s, l)

\* The item ends: the rest of the stack is unwound.  What a .forcecont and a
\* .strictcont return is lifted.
Finished(s, t, kind) ==
    LET u == Unwound(s, t, 0)
        done == Check(WellTyped(s, u), kind \in {".forcecont", ".strictcont"} => Lifted(u), "kind")
    IN  [done EXCEPT !.block = "done", !.stack = <<>>, !.result = u]

\* The argument of a continuation or a .case: the .karg or, without one, the
\* product of the .fkargs, with the types an .exkarg stands for hidden.
ContArg(s) ==
    FoldLeft(LAMBDA t, i : Exists(t),
             IF s.karg # NoType THEN s.karg
             ELSE UbProduct([i \in DOMAIN s.fields |-> s.fields[i].name],
                            [i \in DOMAIN s.fields |-> s.fields[i].type]),
             [i \in 1 .. s.exargs |-> i])

\* Mutant: any number of the fields will do.
CaseFitsInPart(s, frame) ==
    s.block = "case" => ContArg(s).node = frame.sum.args[frame.constr].node
CaseFits(s, frame) == s.block = "case" => ContArg(s) = frame.sum.args[frame.constr]

\* The end of a block of a branch (gsbc_typecheck_case, gsbc_typecheck_default):
\* its continuations are unwound, its argument is its constructor's, and all the
\* blocks of the branch have one type, which is that of the branch.
EndCase(ending, frame) ==
    LET s == ending.state
        t == Unwound(s, ending.type, frame.stack)
        arg == Check(WellTyped(s, t), CaseFits(s, frame), "case")
        left == [Check(arg, frame.result \in {NoType, t}, "result")
                 EXCEPT !.regs = SubSeq(@, 1, frame.nregs), !.types = SubSeq(@, 1, frame.nregs),
                        !.bound = SubSeq(@, 1, frame.nregs), !.others = frame.others,
                        !.tyvars = frame.tyvars, !.stack = SubSeq(@, 1, frame.stack),
                        !.block = frame.block, !.karg = frame.karg, !.fields = frame.fields,
                        !.exargs = frame.exargs, !.branches[Len(s.branches)].result = t]
    IN  [type |-> t,
         state |-> IF frame.left > 0 THEN [left EXCEPT !.block = "cases"]
                   ELSE [left EXCEPT !.branches = Front(@)]]

CheckTerminal(s, l, kind) ==
    LET t == TerminalType(s, l)
        found == CFinds(s, l.args)
        valid == IF found.fatal # "" THEN found ELSE CheckedTerminal(WellTyped(found, t), l, t)
        ended == FoldLeft(EndCase, [state |-> valid, type |-> t], Ending(s))
    IN  IF valid.fatal # "" THEN valid
        ELSE IF StillIn(s) > 0 THEN ended.state
        ELSE Finished(ended.state, ended.type, kind)

Frame(s, l) ==
    [left |-> Len(l.names), names |-> l.names, sum |-> TypeAt(s, l.args[1]), constr |-> 0,
     result |-> NoType, block |-> s.block, nregs |-> Len(s.regs), others |-> s.others,
     tyvars |-> s.tyvars, stack |-> Len(s.stack), karg |-> s.karg, fields |-> s.fields,
     exargs |-> s.exargs]
Scrutinised(s, l) == Check(CFinds(s, l.args), TypeAt(s, l.args[1]).node = "sum", "sum")
CheckAnalyze(s, l) ==
    StartBranch(Check(Scrutinised(s, l), Len(l.names) = Len(TypeAt(s, l.args[1]).names),
                      "constructors"), l, Frame(s, l))
CheckDanalyze(s, l) == StartBranch(Scrutinised(s, l), l, Frame(s, l))

\* gsbc_typecheck_check_constr and gsbc_typecheck_find_constr: the constructors
\* come in the order of the sum; an .analyze has all of them, and a .danalyze
\* finds each behind the last.
CheckCase(s, l) ==
    LET frame == Last(s.branches)
        k == FieldOf(frame.sum, l.names[1])
        t == Check(s, /\ l.names[1] = frame.names[Len(frame.names) - frame.left + 1]
                      /\ Ordered(SubSeq(frame.sum.names, 1, k))
                      /\ IF Len(frame.names) = Len(frame.sum.names) THEN k = frame.constr + 1
                         ELSE k > frame.constr, "constructor")
    IN  [StartCase(t) EXCEPT !.branches[Len(s.branches)].constr = k, !.karg = NoType,
                             !.fields = <<>>, !.exargs = 0]

CheckBranch(s, l) == IF l.op = ".analyze" THEN CheckAnalyze(s, l) ELSE CheckDanalyze(s, l)
CheckStartCase(s, l) ==
    LET t == Check(s, l.op = ".case" /\ s.block = "cases", "order")
    IN  IF t.fatal # "" THEN t ELSE CheckCase(t, l)
CheckStartDefault(s, l) ==
    [StartDefault(Check(s, l.op = ".default" /\ s.block = "default?", "order"))
     EXCEPT !.karg = NoType, !.fields = <<>>, !.exargs = 0]

-----------------------------------------------------------------------------

CheckOp(s, l, kind) ==
    LET g == Group(l)
    IN  CASE g = "tygvar" -> CheckTypeGvar(s, l)
          [] g = "subcode" -> CheckSubcode(s, l)
          [] g = "cogvar" -> CheckCogvar(s, l)
          [] g = "gvar" -> CheckDataGvar(s, l)
          [] g = "tyfv" -> CheckTypeFv(s, l)
          [] g = "tyarg" -> CheckTypeArg(s, l)
          [] g = "exkarg" -> CheckContTypeArg(s, l)
          [] g = "tylet" -> CheckTypeLet(s, l)
          [] g = "fv" -> CheckDataFv(s, l)
          [] g = "karg" -> CheckContArg(s, l, kind)
          [] g = "fkarg" -> CheckFieldContArg(s, l)
          [] g = "arg" -> CheckDataArg(s, l)
          [] g = "alloc" -> CheckAlloc(s, l)
          [] g = "bind" -> CheckBind(s, l)
          [] g = "cast" -> CheckCast(s, l)
          [] g = "push" -> CheckContPush(s, l)
          [] g \in {"terminal", "body"} -> CheckTerminal(s, l, kind)
          [] g = "branch" -> CheckBranch(s, l)

CheckerReads(s, l, kind) ==
    IF s.block = "default?" THEN CheckStartDefault(s, l)
    ELSE IF s.block = "cases" \/ l.op = ".case" THEN CheckStartCase(s, l)
    ELSE LET t == Sought(s, CheckerLoops(s, kind), Group(l))
         IN  IF t.fatal # "" THEN t ELSE CheckOp(t, l, kind)

\* gsbc_typecheck_compile_code_item_type: what the item is to the items that
\* name it in a .subcode line.
CodeItemType(s, kind) ==
    [kind |-> kind, fvs |-> s.fvs, ntyfvs |-> s.ntyfvs, result |-> s.result,
     karg |-> IF kind \in {".expr", ".impprog"} THEN NoType ELSE ContArg(s)]
=============================================================================

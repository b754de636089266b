---------------------------- MODULE CodeParser ----------------------------
(***************************************************************************)
(* The parser of code items (load.c: gsparse_code_item and the walks it    *)
(* hands an item to).  It knows the order of the ops, which of them carry  *)
(* a label and what has to be written after each; it knows no types.       *)
(***************************************************************************)
EXTENDS CodeLines

ParserNew == [block |-> "item", loop |-> 1, fatal |-> "", branches |-> <<>>]

ParseBody == Loops(<<{"alloc"}, {"cast", "push"}, {"terminal", "branch"}>>)
ParseExprLoops == Globals \o Loops(<<{"tyfv"}, {"tylet"}, {"fv"},
                                      {"cast", "tyarg", "tylet", "arg"}>>) \o ParseBody
ParseForceContLoops == Globals \o Loops(<<{"tyfv"}, {"tylet"}, {"fv"}, {"tylet"}>>)
                               \o <<One("karg")>> \o ParseBody
ParseStrictContLoops == Globals \o Loops(<<{"tyfv"}, {"fv"}, {"tylet"}>>)
                                \o <<One("karg")>> \o ParseBody
ParseUbcaseContLoops == Globals \o Loops(<<{"tyfv"}, {"fv"}, {"tylet"}>>)
                                \o <<Instead("karg"), Many({"fkarg"})>> \o ParseBody
ParseImpLoops == Globals \o Loops(<<{"tyfv"}, {"tylet"}, {"fv"}, {"tyarg"}, {"tylet"},
                                     {"cast", "arg"}, {"alloc", "bind"}, {"body"}>>)
ParseCaseLoops == Loops(<<{"exkarg"}, {"tylet"}>>)
                    \o <<Instead("karg"), Many({"fkarg"})>> \o ParseBody
ParseDefaultLoops == <<Many({"alloc", "cast", "push", "terminal", "branch"})>>

\* gsparse_code_item.
ParseItemLoops(kind) == CASE kind = ".expr" -> ParseExprLoops
                          [] kind = ".forcecont" -> ParseForceContLoops
                          [] kind = ".strictcont" -> ParseStrictContLoops
                          [] kind = ".ubcasecont" -> ParseUbcaseContLoops
                          [] kind = ".impprog" -> ParseImpLoops
ParserLoops(s, kind) == CASE s.block = "case" -> ParseCaseLoops
                          [] s.block = "default" -> ParseDefaultLoops
                          [] OTHER -> ParseItemLoops(kind)

-----------------------------------------------------------------------------
(* The ops.  A label that has to be there, or must not be, is fatal; an    *)
(* allocation without one is only warned about.                            *)

Labelled(s, l) == Check(s, l.label # 0, "label")
Unlabelled(s, l) == Check(s, l.label = 0, "label")

ParseTypeGvar(s, l) == Labelled(s, l)
ParseTypeFv(s, l) == Labelled(s, l)
ParseTypeArg(s, l) == Labelled(s, l)
ParseTypeLet(s, l) == Labelled(s, l)
ParseContTypeArg(s, l) == s
ParseSubcode(s, l) == Check(s, l.code # "", "label")
ParseCoercionGvar(s, l) == Labelled(s, l)

ParseValueGvar(s, l) == Labelled(s, l)
ParseValueFv(s, l) == Check(Labelled(s, l), l.type # NoType, "arguments")
ParseValueArg(s, l) == Check(Labelled(s, l), l.type # NoType, "arguments")
ParseContArg(s, l) == Check(Labelled(s, l), l.type # NoType, "arguments")
ParseFieldContArg(s, l) == Check(Labelled(s, l), l.names # <<>> /\ l.type # NoType, "arguments")

ThunkAllocs == {".closure", ".undefined", ".apply", ".appty", ".lfield"}
ParseThunkAlloc(s, l, sub) ==
    Check(s, CASE sub = ".closure" -> l.code # ""
               [] sub = ".undefined" -> l.type # NoType
               [] sub \in {".apply", ".appty"} -> l.args # <<>>
               [] sub = ".lfield" -> l.names # <<>> /\ l.args # <<>>, "arguments")

\* The values of a .constr or an .exconstr come in pairs, each after the name of its
\* field: a value of its own is not implemented (1482, 1510), nor is it in the checker.
ParseConstr(s, l) == Check(s, l.type # NoType /\ l.names # <<>>
                              /\ Len(l.args) = Len(l.names) - 1, "arguments")
ParseRecord(s, l) == Check(s, Len(l.args) = Len(l.names), "arguments")
ParsePrim(s, l) == Check(Labelled(s, l), l.type # NoType, "arguments")
ParseValueAlloc(s, l) ==
    CASE l.op \in {".prim", ".impprim"} -> ParsePrim(s, l)
      [] l.op \in {".constr", ".exconstr"} -> ParseConstr(s, l)
      [] l.op \in {".record", ".lrecord"} -> ParseRecord(s, l)
      [] l.op = ".field" -> Check(s, l.names # <<>> /\ l.args # <<>>, "arguments")
      [] l.op = ".lifted" -> Check(s, Len(l.args) = 1, "arguments")
      [] l.op = ".cast" -> Check(s, l.args # <<>> /\ l.type # NoType, "arguments")

\* An imperative program allocates thunks only.
ParseAlloc(s, l, kind) ==
    IF l.op \in ThunkAllocs THEN ParseThunkAlloc(s, l, l.op)
    ELSE IF kind = ".impprog" THEN Fatal(s, "order")
    ELSE ParseValueAlloc(s, l)

\* .lfield is looked for in the op of the line and so is never a sub-op.
ParseBindOrBody(s, l) ==
    IF l.sub \in ThunkAllocs \ {".lfield"} THEN ParseThunkAlloc(s, l, l.sub)
    ELSE Fatal(s, "sub-op")

ParseCast(s, l) == IF l.op = ".coerce" THEN Check(s, l.type # NoType, "arguments")
                   ELSE Unlabelled(s, l)
ParseContPush(s, l) ==
    Check(Unlabelled(s, l),
          CASE l.op = ".app" -> TRUE
            [] l.op \in {".force", ".strict"} -> l.code # ""
            [] l.op = ".ubanalyze" -> Len(l.codes) = Len(l.names), "arguments")

ParseTerminal(s, l) ==
    EndBlock(Check(Unlabelled(s, l),
                   IF l.op \in {".yield", ".enter"} THEN l.args # <<>> ELSE l.type # NoType,
                   "arguments"))
ParseBranch(s, l) ==
    StartBranch(Check(Unlabelled(s, l), l.args # <<>> /\ l.names # <<>>, "arguments"), l,
                [left |-> Len(l.names), names |-> l.names])

\* The .case blocks name the constructors of the branch, in its order.
Expected(frame) == frame.names[Len(frame.names) - frame.left + 1]
ParseCase(s, l) ==
    LET here == s.block = "cases" /\ l.op = ".case"
        t == Check(Check(Unlabelled(s, l), here, "order"),
                   here => l.names = <<Expected(Last(s.branches))>>, "constructor")
    IN  IF t.fatal # "" THEN t ELSE StartCase(t)
ParseDefault(s, l) ==
    StartDefault(Check(Unlabelled(s, l), s.block = "default?" /\ l.op = ".default", "order"))

-----------------------------------------------------------------------------

ParseOp(s, l, kind) ==
    LET g == Group(l)
    IN  CASE g = "tygvar" -> ParseTypeGvar(s, l)
          [] g = "subcode" -> ParseSubcode(s, l)
          [] g = "cogvar" -> ParseCoercionGvar(s, l)
          [] g = "gvar" -> ParseValueGvar(s, l)
          [] g = "tyfv" -> ParseTypeFv(s, l)
          [] g = "tyarg" -> ParseTypeArg(s, l)
          [] g = "exkarg" -> ParseContTypeArg(s, l)
          [] g = "tylet" -> ParseTypeLet(s, l)
          [] g = "fv" -> ParseValueFv(s, l)
          [] g = "arg" -> ParseValueArg(s, l)
          [] g = "karg" -> ParseContArg(s, l)
          [] g = "fkarg" -> ParseFieldContArg(s, l)
          [] g = "alloc" -> ParseAlloc(s, l, kind)
          [] g = "bind" -> ParseBindOrBody(s, l)
          [] g = "body" -> EndBlock(ParseBindOrBody(s, l))
          [] g = "cast" -> ParseCast(s, l)
          [] g = "push" -> ParseContPush(s, l)
          [] g = "terminal" -> ParseTerminal(s, l)
          [] g = "branch" -> ParseBranch(s, l)

ParserReads(s, l, kind) ==
    IF s.block \in {"cases", "default?"} \/ l.op \in {".case", ".default"}
    THEN IF s.block = "default?" THEN ParseDefault(s, l) ELSE ParseCase(s, l)
    ELSE LET t == Sought(s, ParserLoops(s, kind), Group(l))
         IN  IF t.fatal # "" THEN t ELSE ParseOp(t, l, kind)
=============================================================================

---------------------------- MODULE CodePasses ----------------------------
(***************************************************************************)
(* The passes over a code item, one beside the other.  A step reads one    *)
(* line of the item: the parser and the type checker read it and, when     *)
(* neither refuses it, the size pass and the emitter do.  In the program   *)
(* each pass walks the whole list before the next starts; they share       *)
(* nothing but the list and what it names, so that what each of them knows *)
(* of the item at a line is the same either way.  An item ends with its    *)
(* last block, or with the first line that is refused.                     *)
(***************************************************************************)
EXTENDS CodeParser, CodeChecker, CodeSizer, CodeEmitter

CONSTANTS
    Topics,    \* the ops, and how many of each, that one item is written with
    Kinds      \* the kinds of code item a topic is about

VARIABLES topic, kind, read, line, parser, checker, sizer, emitter

vars == <<topic, kind, read, line, parser, checker, sizer, emitter>>

NoLine == Line("")

Init == /\ topic \in DOMAIN Topics
        /\ kind \in Kinds[topic]
        /\ read = [op \in DOMAIN Topics[topic].ops |-> 0]
        /\ line = NoLine
        /\ parser = ParserNew
        /\ checker = CheckerNew
        /\ sizer = SizerNew
        /\ emitter = EmitterNew

Refused == parser.fatal # "" \/ checker.fatal # ""
Accepted == ~Refused /\ checker.block = "done"

\* The line the item goes on with.
Writes(l) == /\ line' = l
             /\ read' = [read EXCEPT ![l.op] = @ + 1]

\* gs_parse_file, gstypes_type_check_scc, gsbc_alloc_code_for_scc and
\* gsbc_bytecompile_scc, for that line.
Passes ==
    /\ parser' = ParserReads(parser, line', kind)
    /\ checker' = IF parser'.fatal = "" THEN CheckerReads(checker, line', kind) ELSE checker
    /\ IF Refused' THEN UNCHANGED <<sizer, emitter>>
       ELSE /\ sizer' = SizerReads(sizer, line')
            /\ emitter' = EmitterReads(emitter, line', kind)
    /\ UNCHANGED <<topic, kind>>

-----------------------------------------------------------------------------
(* The lines an item may go on with.                                       *)

This == Topics[topic]
Ready(op) == op \in DOMAIN This.ops /\ read[op] < This.ops[op]
Each(ops) == {op \in ops : Ready(op)}

Scope == 1 .. Len(checker.regs)
Fresh == Len(checker.regs) + 1
Operands(n) == IF n = 0 THEN {<<>>} ELSE [1 .. n -> Scope]
Upto(n) == UNION {Operands(i) : i \in 0 .. n}
Codes == {checker.codes[i] : i \in DOMAIN checker.codes}

WriteTypeLine ==
    \E op \in Each(Ops.tygvar \cup Ops.tyfv \cup Ops.tyarg \cup Ops.exkarg \cup Ops.tylet
                     \cup Ops.cogvar) :
        Writes([Line(op) EXCEPT !.label = 1])
WriteSubcode == \E op \in Each(Ops.subcode), c \in This.codes : Writes([Line(op) EXCEPT !.code = c])
WriteGvar == \E op \in Each(Ops.gvar), t \in This.globals :
                 Writes([Line(op) EXCEPT !.label = Fresh, !.type = t])
WriteFv == \E op \in Each(Ops.fv), t \in This.types :
               Writes([Line(op) EXCEPT !.label = Fresh, !.type = t])
WriteArg == \E op \in Each(Ops.arg \cup Ops.karg), t \in This.types :
                Writes([Line(op) EXCEPT !.label = Fresh, !.type = t])
WriteFkarg == \E op \in Each(Ops.fkarg), f \in This.fields, t \in This.types :
                  Writes([Line(op) EXCEPT !.label = Fresh, !.names = <<f>>, !.type = t])

WriteClosure == \E op \in Each({".closure"}), c \in Codes, x \in {0, Fresh} :
                    Writes([Line(op) EXCEPT !.label = x, !.code = c])
WriteUndefined == \E op \in Each({".undefined"}), t \in This.types :
                      Writes([Line(op) EXCEPT !.label = Fresh, !.type = t])
WriteApply == \E op \in Each({".apply", ".appty"}), f \in Operands(1), n \in 0 .. 1 :
                  \E xs \in IF op = ".apply" THEN Operands(1) ELSE {<<>>} :
                      Writes([Line(op) EXCEPT !.label = Fresh, !.args = f \o xs, !.ntyargs = n])
WritePrim == \E op \in Each({".prim", ".impprim"}), t \in This.globals, xs \in Upto(1),
                known \in BOOLEAN :
                 Writes([Line(op) EXCEPT !.label = Fresh, !.type = t, !.args = xs,
                                        !.known = known])
WriteConstr == \E op \in Each({".constr", ".exconstr"}), t \in This.globals, n \in 0 .. 1 :
                   \E c \in This.constrs, fs \in This.records :
                       \E xs \in Operands(Len(fs)) :
                           Writes([Line(op) EXCEPT !.label = Fresh, !.type = t, !.ntyargs = n,
                                                  !.names = <<c>> \o fs, !.args = xs])
WriteRecord == \E op \in Each({".record", ".lrecord"}), fs \in This.records :
                   \E xs \in Operands(Len(fs)) :
                       Writes([Line(op) EXCEPT !.label = Fresh, !.names = fs, !.args = xs])
WriteField == \E op \in Each({".field", ".lfield"}), f \in This.fields, x \in Scope :
                  Writes([Line(op) EXCEPT !.label = Fresh, !.names = <<f>>, !.args = <<x>>])
WriteAlias == \E op \in Each({".lifted", ".cast"}), x \in Scope, t \in This.coercions :
                  Writes([Line(op) EXCEPT !.label = Fresh, !.args = <<x>>, !.type = t])

WriteCast == \E op \in Each(Ops.cast), t \in This.coercions :
                 Writes([Line(op) EXCEPT !.type = t, !.ntyargs = 1])
WritePush == \E op \in Each({".force", ".strict"}), c \in Codes :
                 Writes([Line(op) EXCEPT !.code = c])
WriteApp == \E op \in Each({".app"}), xs \in Operands(1) : Writes([Line(op) EXCEPT !.args = xs])
WriteUbanalyze == \E op \in Each({".ubanalyze"}), cs \in [1 .. 2 -> Codes] :
                      Writes([Line(op) EXCEPT !.names = <<1, 2>>, !.codes = cs, !.code = cs[1]])

\* A register that is not in scope is asked for too.
WriteReturn == \E op \in Each({".yield", ".enter"}), x \in Scope \cup {Fresh} :
                   Writes([Line(op) EXCEPT !.args = <<x>>])
WriteUndef == \E op \in Each({".undef"}), t \in This.types : Writes([Line(op) EXCEPT !.type = t])
WriteTerminalPrim == \E op \in Each({".ubprim", ".lprim"}), t \in This.globals, xs \in Upto(1),
                        known \in BOOLEAN :
                         Writes([Line(op) EXCEPT !.type = t, !.args = xs, !.known = known])
WriteBranch == \E op \in Each(Ops.branch), x \in Scope, cs \in {<<1>>, <<2>>, <<1, 2>>, <<2, 1>>} :
                   Writes([Line(op) EXCEPT !.args = <<x>>, !.names = cs])
WriteCase == \E op \in Each(Ops.case), c \in This.constrs : Writes([Line(op) EXCEPT !.names = <<c>>])
WriteDefault == \E op \in Each(Ops.default) : Writes(Line(op))

WriteStatement ==
    \E op \in Each({".bind", ".body"}), x \in {0, Fresh} :
        /\ op = ".body" => x = 0
        /\ \/ \E c \in Codes :
                 Writes([Line(op) EXCEPT !.sub = ".closure", !.label = x, !.code = c])
           \/ \E f \in Operands(1), xs \in Upto(1) :
                 Writes([Line(op) EXCEPT !.sub = ".apply", !.label = x, !.args = f \o xs])
           \/ \E t \in This.types :
                 Writes([Line(op) EXCEPT !.sub = ".undefined", !.label = x, !.type = t])
           \/ \E f \in Operands(1), sub \in {".appty", ".lfield"} :
                 Writes([Line(op) EXCEPT !.sub = sub, !.label = x, !.args = f, !.ntyargs = 1])

Write == \/ WriteTypeLine \/ WriteSubcode \/ WriteGvar \/ WriteFv \/ WriteArg \/ WriteFkarg
         \/ WriteClosure \/ WriteUndefined \/ WriteApply \/ WritePrim \/ WriteConstr \/ WriteRecord
         \/ WriteField \/ WriteAlias \/ WriteCast \/ WritePush \/ WriteApp \/ WriteUbanalyze
         \/ WriteReturn \/ WriteUndef \/ WriteTerminalPrim \/ WriteBranch \/ WriteCase \/ WriteDefault
         \/ WriteStatement

Next == /\ ~Refused /\ checker.block # "done"
        /\ Write
        /\ Passes

Spec == Init /\ [][Next]_vars

-----------------------------------------------------------------------------
(* Properties.                                                             *)

Compiling == ~Refused /\ sizer.fatal = "" /\ emitter.fatal = ""

\* The block reserved for an item has the size of the byte code that is written
\* into it: the two walks of bytecompile.c count every op alike.
SizesAgree == Compiling => sizer.size = emitter.out

\* A name stands for the same register in the code that is checked and in the
\* code that is emitted, also in and behind the blocks of a branch.
RegistersAgree == Compiling => emitter.regs = checker.regs /\ emitter.codes = checker.codes

\* Outside the blocks of a branch, what the emitter takes to be the type of a
\* register is the type the checker gave it, or nothing.
TypesAgree ==
    Compiling => \A i \in DOMAIN checker.regs :
        \/ checker.branches # <<>> /\ i > Head(checker.branches).nregs
        \/ emitter.types[i] \in {NoType, checker.types[i]}

\* The first n argument types of a function type, under its lifts and foralls.
ArgTypes(t, n) ==
    FoldLeft(LAMBDA a, i :
                 CASE Len(a.args) < n /\ a.rest.node = "fun" ->
                          [args |-> Append(a.args, a.rest.args[1]), rest |-> a.rest.args[2]]
                   [] Len(a.args) < n /\ a.rest.node \in {"lift", "forall"} ->
                          [a EXCEPT !.rest = a.rest.args[1]]
                   [] OTHER -> a,
             [args |-> <<>>, rest |-> t], [i \in 1 .. 2 * MaxRegs |-> i]).args

\* The frame of an item that is called: its globals, then the free variables in
\* the order in which a closure of it captures them, then the arguments in the
\* order in which its type takes them.
FrameAgrees ==
    Compiling /\ checker.block = "done" =>
        LET item == CodeItemType(checker, kind)
            start == emitter.nglobals + emitter.nfvs
            taken == CASE kind \in {".expr", ".impprog"} -> ArgTypes(item.result, emitter.nargs)
                       [] item.karg.node = "ubproduct" -> item.karg.args
                       [] OTHER -> <<item.karg>>
        IN  /\ emitter.nfvs = Len(item.fvs)
            /\ \A i \in DOMAIN item.fvs :
                   emitter.regs[emitter.nglobals + i] = item.fvs[i].name
            /\ ".coerce" \notin DOMAIN read =>
                   SubSeq(emitter.types, start + 1, start + emitter.nargs) = taken

\* In a .case the registers of the .fkargs are in the order of the fields of the
\* constructor, in which the evaluator pushes them.
CaseArgsInPlace ==
    [][checker.block = "case" /\ line'.op \in Ops.terminal /\ ~Refused' /\ Compiling =>
           LET frame == Last(checker.branches)
               arg == FoldLeft(LAMBDA t, i : t.args[1], frame.sum.args[frame.constr],
                               [i \in 1 .. checker.exargs |-> i])
           IN  IF arg.node = "ubproduct" THEN emitter.fields = arg.names
               ELSE emitter.nargs = Last(emitter.branches).nargs + 1]_vars

\* The emitter has a register of a block that is not the first of its branch: a
\* .default comes before the cases of a .danalyze.
KeepsTypes ==
    \E i \in DOMAIN emitter.branches :
        LET frame == emitter.branches[i]
        IN  /\ Len(emitter.regs) > frame.nregs
            /\ Len(frame.names) - frame.left > IF frame.op = ".danalyze" THEN 0 ELSE 1

\* An item that was checked compiles, but for what the emitter has no type of, a
\* record whose fields are not in order and the sub-ops it does not know; but for an
\* imperative program that has all the registers there are: a .bind is not counted by
\* the checker, and a .body .apply is counted by the size pass; but for an item whose
\* .danalyze has in all its cases together more types than there are registers: the
\* emitter keeps the type registers of a case that is over; and but for a register
\* without a type in a block of a branch that is not the first: the emitter keeps the
\* type that register had in an earlier block, which may have no such field or
\* constructor, or not be a function.
CheckedCompiles ==
    Accepted => /\ sizer.fatal \in {"", "unimplemented", "registers"}
                /\ emitter.fatal \in {"", "no type", "fields", "unimplemented", "registers",
                                      "field", "constructor", "function"}
                /\ "registers" \in {sizer.fatal, emitter.fatal} =>
                       \/ kind = ".impprog" /\ NumRegs(checker) >= MaxRegs
                       \/ /\ emitter.ntyregs = MaxRegs /\ sizer.fatal # "registers"
                          /\ ".danalyze" \in DOMAIN read /\ read[".danalyze"] > 0
                /\ emitter.fatal \in {"field", "constructor", "function"} => KeepsTypes

\* A .field reads the field it names: the number written for it is the field's
\* place in the product the checker knows.
FieldsRight ==
    Compiling /\ line.op = ".field" =>
        emitter.field = FieldOf(TypeAt(checker, line.args[1]), line.names[1])
=============================================================================

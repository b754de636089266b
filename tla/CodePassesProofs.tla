-------------------------- MODULE CodePassesProofs --------------------------
(***************************************************************************)
(* The type checker, the size pass and the emitter agree on every code     *)
(* item, whatever its lines, for any subcodes and any number of registers. *)
(* What each op of a line does is said once for each pass, as far as it    *)
(* regards sizes, names, frames, types and arguments; a step of a pass is  *)
(* one of these; and the steps of two passes over one line are then        *)
(* compared.                                                               *)
(***************************************************************************)
EXTENDS CodePasses, WellFoundedInduction, SequenceTheorems, TLAPS

-----------------------------------------------------------------------------
(* The ops by their groups, and what they take.                            *)

\* The op of the line is one of those the program knows.
Known(l) == \E g \in DOMAIN Ops : l.op \in Ops[g]

\* Every op has a group, and is one of the ops of its group.
LEMMA GroupOf == ASSUME NEW l, Known(l) PROVE Group(l) \in DOMAIN Ops /\ l.op \in Ops[Group(l)]
  BY DEF Known, Group

\* The ops of each group.
LEMMA OpsOfGroups ==
    ASSUME NEW l, Known(l)
    PROVE  LET g == Group(l)
           IN  /\ g \in {"tygvar", "subcode", "cogvar", "gvar", "tyfv", "tyarg", "exkarg", "tylet",
                         "fv", "karg", "fkarg", "arg", "alloc", "bind", "cast", "push",
                         "terminal", "branch", "body", "case", "default"}
               /\ g = "gvar" => l.op \in {".gvar", ".rune", ".natural"}
               /\ g = "subcode" => l.op = ".subcode"
               /\ g = "fv" => l.op \in {".fv", ".efv"}
               /\ g = "karg" => l.op = ".karg"
               /\ g = "fkarg" => l.op = ".fkarg"
               /\ g = "arg" => l.op \in {".arg", ".larg"}
               /\ g = "alloc" =>
                    l.op \in {".closure", ".prim", ".impprim", ".constr", ".exconstr",
                              ".record", ".lrecord", ".field", ".lfield", ".undefined",
                              ".appty", ".cast", ".lifted", ".apply"}
               /\ g = "bind" => l.op = ".bind"
               /\ g = "cast" => l.op \in {".coerce", ".lift", ".tyapp"}
               /\ g = "push" => l.op \in {".app", ".force", ".strict", ".ubanalyze"}
               /\ g = "terminal" => l.op \in {".yield", ".enter", ".ubprim", ".lprim", ".undef"}
               /\ g = "branch" => l.op \in {".analyze", ".danalyze"}
               /\ g = "body" => l.op = ".body"
               /\ g = "case" => l.op = ".case"
               /\ g = "default" => l.op = ".default"
  BY GroupOf DEF Ops

\* The size of the byte code of an allocation, by its op.
AllocSize(l) ==
    CASE l.op = ".closure" -> ClosureSize(NumFvs(l))
      [] l.op = ".prim" -> IF l.known THEN PrimSize(Len(l.args)) ELSE UnknownPrimSize
      [] l.op = ".impprim" -> IF l.known THEN ImpprimSize(Len(l.args)) ELSE UnknownPrimSize
      [] l.op \in {".constr", ".exconstr"} -> ConstrSize(Len(l.args))
      [] l.op \in {".record", ".lrecord"} -> RecordSize(Len(l.args))
      [] l.op \in {".field", ".lfield"} -> FieldSize
      [] l.op = ".undefined" -> UndefinedSize
      [] l.op \in {".appty", ".cast", ".lifted"} -> AliasSize
      [] l.op = ".apply" -> ApplySize(Len(l.args) - 1)

\* The size of the byte code of a .bind or a .body, by its sub-op.
StatementSize(l) ==
    CASE l.sub = ".closure" -> ClosureSize(NumFvs(l))
      [] l.sub = ".undefined" -> UndefinedSize
      [] l.sub = ".appty" -> AliasSize
      [] l.sub = ".apply" -> ApplySize(Len(l.args) - 1)

\* The size of the byte code of a continuation that is pushed.
PushSize(l) ==
    CASE l.op = ".app" -> AppSize(Len(l.args))
      [] l.op \in {".force", ".strict"} -> ContSize(NumFvs(l))
      [] l.op = ".ubanalyze" -> UbanalyzeSize(Len(l.names), NumFvs(l))

\* The size of the byte code of what ends a block.
TerminalSize(l) ==
    CASE l.op \in {".yield", ".enter"} -> ReturnSize
      [] l.op = ".undef" -> UndefinedSize
      [] l.op \in {".ubprim", ".lprim"} ->
            IF l.known THEN PrimSize(Len(l.args)) ELSE UnknownPrimSize

\* The size of the byte code of a branch.
BranchSize(l) == IF l.op = ".analyze" THEN AnalyzeSize(Len(l.names))
                 ELSE DanalyzeSize(Len(l.names))

\* The size of the byte code after the line, when it is n before.
Grown(n, l) ==
    LET g == Group(l)
    IN  CASE g \in {"subcode", "gvar"} -> n + Word
          [] g = "fv" -> n + (IF l.op = ".efv" THEN EfvSize ELSE 0)
          [] g = "alloc" -> n + AllocSize(l)
          [] g = "push" -> n + PushSize(l)
          [] g = "terminal" -> n + TerminalSize(l)
          [] g = "branch" -> n + BranchSize(l)
          [] g \in {"bind", "body"} -> n + StatementSize(l)
          [] OTHER -> n

\* The pass has not stopped at an earlier line.
Alive(s) == s.fatal = ""

\* The emitter is a record of its fields, whatever is in them.
IsEmitter(s) ==
    DOMAIN s = {"block", "loop", "fatal", "branches", "out", "regs", "types", "ntyregs",
                "codes", "nglobals", "nfvs", "nargs", "fields", "field"}

\* The line names a register.
Names(l) == Group(l) \in {"gvar", "fv", "karg", "fkarg", "arg", "alloc", "bind"}

\* The emitter has gone from s to t in one block and one loop.
Stays(s, t) == IsEmitter(t) /\ Alive(s) /\ t.block = s.block /\ t.branches = s.branches /\ t.loop = s.loop

\* It has named the register of the line l, and has written n bytes altogether.
NamedIn(s, t, l, n) ==
    Stays(s, t) /\ t.regs = Append(s.regs, l.label) /\ t.codes = s.codes /\ t.out = n

\* A check that is passed leaves the emitter as it is.
LEMMA EmitterChecks ==
    ASSUME NEW s, NEW ok, NEW why, IsEmitter(s), why # ""
    PROVE  LET t == Check(s, ok, why)
           IN  IsEmitter(t) /\ (Alive(t) => t = s /\ ok)
  BY DEF Check, Fatal, IsEmitter, Alive

\* Looking up the operands of a line leaves the emitter as it is.
LEMMA FindsPasses ==
    ASSUME NEW s, NEW xs, IsEmitter(s)
    PROVE  LET t == Finds(s, xs) IN IsEmitter(t) /\ (Alive(t) => t = s)
  BY  DEF Finds, Check, Fatal, IsEmitter, Alive

\* So does looking up a subcode.
LEMMA FindsCodePasses ==
    ASSUME NEW s, NEW c, IsEmitter(s)
    PROVE  LET t == FindsCode(s, c) IN IsEmitter(t) /\ (Alive(t) => t = s)
  BY  DEF FindsCode, Check, Fatal, IsEmitter, Alive

\* So does looking up the free variables of a subcode.
LEMMA CapturesPasses ==
    ASSUME NEW s, NEW c, IsEmitter(s)
    PROVE  LET t == Captures(s, c) IN IsEmitter(t) /\ (Alive(t) => t = s)
  BY FindsPasses DEF Captures

\* So does looking up a subcode and its free variables.
LEMMA BothPass ==
    ASSUME NEW s, NEW c, IsEmitter(s)
    PROVE  LET t == Captures(FindsCode(s, c), c) IN IsEmitter(t) /\ (Alive(t) => t = s)
  BY CapturesPasses, FindsCodePasses

\* Naming a register adds the label of the line to the registers, and nothing else.
LEMMA NamesRegister ==
    ASSUME NEW s, NEW l, IsEmitter(s)
    PROVE  LET t == NameRegister(s, l)
           IN  /\ IsEmitter(t)
               /\ Alive(t) => Alive(s) /\ NamedIn(s, t, l, s.out)
<1>1. CASE Len(s.regs) >= MaxRegs
  BY <1>1 DEF NameRegister, Fatal, IsEmitter, Alive
<1>2. CASE ~(Len(s.regs) >= MaxRegs)
  BY <1>2 DEF NameRegister, Fatal, Stays, NamedIn, IsEmitter, Alive
<1> QED  BY <1>1, <1>2

\* So does naming a register of a known type.
LEMMA NamesTypedRegister ==
    ASSUME NEW s, NEW l, NEW ty, IsEmitter(s)
    PROVE  LET t == NameTypedRegister(s, l, ty)
           IN  /\ IsEmitter(t)
               /\ Alive(t) => Alive(s) /\ NamedIn(s, t, l, s.out)
<1>1. CASE Len(s.regs) >= MaxRegs
  BY <1>1 DEF NameTypedRegister, Fatal, IsEmitter, Alive
<1>2. CASE ~(Len(s.regs) >= MaxRegs)
  BY <1>2 DEF NameTypedRegister, NameRegister, Fatal, Stays, NamedIn, IsEmitter, Alive
<1> QED  BY <1>1, <1>2

\* Writing bytes stops no pass.
LEMMA EmittedStays ==
    ASSUME NEW s, NEW n, IsEmitter(s)
    PROVE  IsEmitter(Emitted(s, n)) /\ (Alive(Emitted(s, n)) <=> Alive(s))
  BY  DEF Emitted, IsEmitter, Alive

\* Bytes written after a register is named count as well.
LEMMA EmittedNamed ==
    ASSUME NEW s, NEW t, NEW l, NEW m, NEW n, NamedIn(s, t, l, m)
    PROVE  NamedIn(s, Emitted(t, n), l, m + n)
  BY  DEF Emitted, Stays, NamedIn, IsEmitter

\* The number of a field is written beside the register.
LEMMA FieldNamed ==
    ASSUME NEW s, NEW t, NEW l, NEW m, NEW n, NamedIn(s, t, l, m)
    PROVE  NamedIn(s, [t EXCEPT !.field = n], l, m) /\ (Alive([t EXCEPT !.field = n]) <=> Alive(t))
  BY  DEF Stays, NamedIn, IsEmitter, Alive

\* Every allocation that is emitted names its register and writes AllocSize bytes.
LEMMA EmitAllocKeeps ==
    ASSUME NEW s, NEW l, IsEmitter(s), Known(l), Group(l) = "alloc", Alive(EmitAlloc(s, l))
    PROVE  NamedIn(s, EmitAlloc(s, l), l, s.out + AllocSize(l))
<1>1. CASE l.op = ".closure"
  <2> DEFINE u == Captures(FindsCode(s, l.code), l.code)
             v == NameTypedRegister(u, l, SubCodes[l.code].result)
  <2>1. EmitAlloc(s, l) = Emitted(v, ClosureSize(NumFvs(l)))
    BY <1>1 DEF EmitAlloc, EmitClosure, NumFvs, NumFvsOf
  <2>2. u = s /\ Alive(v)
    BY <2>1, BothPass, NamesTypedRegister, EmittedStays
  <2> QED  BY <1>1, <2>1, <2>2, NamesTypedRegister, EmittedNamed DEF AllocSize
<1>2. CASE l.op = ".prim"
  <2>1. CASE l.known
    <3> DEFINE u == NameRegister(s, l)
               v == Finds(u, l.args)
    <3>1. EmitAlloc(s, l) = Emitted(v, PrimSize(Len(l.args)))
      BY <1>2, <2>1 DEF EmitAlloc, EmitPrim
    <3>2. v = u /\ Alive(u)
      BY <3>1, NamesRegister, FindsPasses, EmittedStays
    <3> QED  BY <1>2, <2>1, <3>1, <3>2, NamesRegister, EmittedNamed DEF AllocSize
  <2>2. CASE ~l.known
    <3>1. EmitAlloc(s, l) = Emitted(NameRegister(s, l), UnknownPrimSize)
      BY <1>2, <2>2 DEF EmitAlloc, EmitPrim
    <3> QED  BY <1>2, <2>2, <3>1, NamesRegister, EmittedStays, EmittedNamed DEF AllocSize
  <2> QED  BY <2>1, <2>2
<1>3. CASE l.op = ".impprim"
  <2>1. CASE l.known
    <3> DEFINE u == Finds(s, l.args)
               v == NameRegister(u, l)
    <3>1. EmitAlloc(s, l) = Emitted(v, ImpprimSize(Len(l.args)))
      BY <1>3, <2>1 DEF EmitAlloc, EmitImpprim
    <3>2. u = s /\ Alive(v)
      BY <3>1, NamesRegister, FindsPasses, EmittedStays
    <3> QED  BY <1>3, <2>1, <3>1, <3>2, NamesRegister, EmittedNamed DEF AllocSize
  <2>2. CASE ~l.known
    <3>1. EmitAlloc(s, l) = Emitted(NameRegister(s, l), UnknownPrimSize)
      BY <1>3, <2>2 DEF EmitAlloc, EmitImpprim
    <3> QED  BY <1>3, <2>2, <3>1, NamesRegister, EmittedStays, EmittedNamed DEF AllocSize
  <2> QED  BY <2>1, <2>2
<1>4. CASE l.op \in {".constr", ".exconstr"}
  <2> DEFINE u == NameTypedRegister(s, l, l.type)
             v == Check(u, FieldOf(l.type, l.names[1]) # 0, "constructor")
             w == Finds(v, l.args)
  <2>1. EmitAlloc(s, l) = Emitted(w, ConstrSize(Len(l.args)))
    BY <1>4 DEF EmitAlloc, EmitConstr
  <2>2. IsEmitter(u) /\ IsEmitter(v) /\ (Alive(v) => v = u)
    BY NamesTypedRegister, EmitterChecks
  <2>3. w = u /\ Alive(u)
    BY <2>1, <2>2, FindsPasses, EmittedStays
  <2> QED  BY <1>4, <2>1, <2>3, NamesTypedRegister, EmittedNamed DEF AllocSize
<1>5. CASE l.op \in {".record", ".lrecord"}
  <2> DEFINE u == Finds(s, l.args)
             v == Check(u, Ordered(l.names), "fields")
             w == NameRegister(v, l)
  <2>1. EmitAlloc(s, l) = Emitted(w, RecordSize(Len(l.args)))
    BY <1>5 DEF EmitAlloc, EmitRecord
  <2>2. IsEmitter(u) /\ IsEmitter(v) /\ (Alive(v) => v = u)
    BY FindsPasses, EmitterChecks
  <2>3. v = s /\ Alive(w)
    BY <2>1, <2>2, FindsPasses, EmittedStays, NamesRegister
  <2> QED  BY <1>5, <2>1, <2>3, NamesRegister, EmittedNamed DEF AllocSize
<1>6. CASE l.op \in {".field", ".lfield"}
  <2> DEFINE known == TypeOf(s, l.args[1])
             product == IF l.op = ".lfield" /\ known.node = "lift" THEN known.args[1] ELSE known
             k == FieldOf(product, l.names[1])
             ty == IF k = 0 THEN BadType ELSE product.args[k]
             u == Finds(s, l.args)
             v == Check(u, known # NoType, "no type")
             w == Check(v, k # 0, "field")
             x == NameTypedRegister(w, l, ty)
  <2>1. EmitAlloc(s, l) = [Emitted(x, FieldSize) EXCEPT !.field = k]
    BY <1>6 DEF EmitAlloc, EmitField
  <2> HIDE DEF known, product, k, ty
  <2>2. IsEmitter(u) /\ IsEmitter(v) /\ IsEmitter(w) /\ (Alive(w) => w = v) /\ (Alive(v) => v = u)
    BY FindsPasses, EmitterChecks
  <2>3. IsEmitter(x) /\ IsEmitter(Emitted(x, FieldSize))
    BY <2>2, NamesTypedRegister, EmittedStays
  <2>4. Alive(Emitted(x, FieldSize))
    BY <2>1, <2>3 DEF IsEmitter, Alive
  <2>5. Alive(x) /\ Alive(w)
    BY <2>2, <2>3, <2>4, EmittedStays, NamesTypedRegister DEF NamedIn, Stays
  <2>6. w = s
    BY <2>2, <2>5, FindsPasses
  <2>7. NamedIn(s, x, l, s.out)
    BY <2>5, <2>6, NamesTypedRegister
  <2>8. NamedIn(s, Emitted(x, FieldSize), l, s.out + FieldSize)
    BY <2>7, EmittedNamed
  <2>9. NamedIn(s, [Emitted(x, FieldSize) EXCEPT !.field = k], l, s.out + FieldSize)
    BY <2>8, FieldNamed
  <2>10. AllocSize(l) = FieldSize
    BY <1>6 DEF AllocSize
  <2> QED  BY <2>1, <2>9, <2>10
<1>7. CASE l.op = ".undefined"
  <2>1. EmitAlloc(s, l) = Emitted(NameTypedRegister(s, l, l.type), UndefinedSize)
    BY <1>7 DEF EmitAlloc, EmitUndefined
  <2> QED  BY <1>7, <2>1, NamesTypedRegister, EmittedStays, EmittedNamed DEF AllocSize
<1>8. CASE l.op \in {".appty", ".cast", ".lifted"}
  <2> DEFINE u == Finds(s, l.args)
             v == NameRegister(u, l)
  <2>1. EmitAlloc(s, l) = Emitted(v, AliasSize)
    BY <1>8 DEF EmitAlloc, EmitAlias
  <2>2. u = s /\ Alive(v)
    BY <2>1, NamesRegister, FindsPasses, EmittedStays
  <2> QED  BY <1>8, <2>1, <2>2, NamesRegister, EmittedNamed DEF AllocSize
<1>9. CASE l.op = ".apply"
  <2> DEFINE u == Finds(s, l.args)
             v == Check(u, TypeOf(s, l.args[1]) # NoType, "no type")
             w == Check(v, ApplyType(s, l) # BadType, "function")
             x == NameTypedRegister(w, l, ApplyType(s, l))
  <2>1. EmitAlloc(s, l) = Emitted(x, ApplySize(Len(l.args) - 1))
    BY <1>9 DEF EmitAlloc, EmitApply, EmitsApply
  <2>2. IsEmitter(u) /\ IsEmitter(v) /\ IsEmitter(w) /\ (Alive(w) => w = v) /\ (Alive(v) => v = u)
    BY FindsPasses, EmitterChecks
  <2> HIDE DEF w
  <2>4. Alive(x) /\ Alive(w)
    BY <2>1, <2>2, EmittedStays, NamesTypedRegister
  <2>3. w = s /\ Alive(x)
    BY <2>2, <2>4, FindsPasses
  <2> QED  BY <1>9, <2>1, <2>3, NamesTypedRegister, EmittedNamed DEF AllocSize
<1> QED  BY <1>1, <1>2, <1>3, <1>4, <1>5, <1>6, <1>7, <1>8, <1>9, OpsOfGroups

-----------------------------------------------------------------------------
(* Induction and folds.                                                    *)

\* Induction up to n as a statement about a set: tlapm cannot instantiate the
\* library's induction theorems, which take an operator.
LEMMA UpTo ==
    ASSUME NEW n \in Nat, NEW T, 0 \in T, \A k \in 1 .. n : k - 1 \in T => k \in T
    PROVE  \A k \in 0 .. n : k \in T
<1> SUFFICES ASSUME ~(\A k \in 0 .. n : k \in T) PROVE FALSE
  OBVIOUS
<1> DEFINE U == {k \in 0 .. n : k \notin T}
<1>1. U \subseteq Nat /\ U # {}
  OBVIOUS
<1>2. \E x \in U : \A y \in U : ~(<<y, x>> \in OpToRel(<, Nat))
  BY <1>1, NatLessThanWellFounded, WFMin, Zenon
<1>3. PICK x \in U : \A y \in U : ~(<<y, x>> \in OpToRel(<, Nat))
  BY <1>2
<1>4. \A y \in U : ~(y < x)
  <2> TAKE y \in U
  <2>1. y \in Nat /\ x \in Nat
    BY <1>1
  <2> QED  BY <1>3, <2>1 DEF OpToRel
<1>5. x \in 1 .. n /\ x - 1 \in 0 .. n /\ x - 1 < x
  OBVIOUS
<1>6. x - 1 \in T
  BY <1>4, <1>5
<1> QED  BY <1>5, <1>6

\* The greatest number of a set of numbers up to n.
LEMMA MaxUpTo ==
    ASSUME NEW n \in Nat, NEW t, t \in SUBSET (0 .. n), t # {}
    PROVE  /\ Max(t) \in t /\ \A y \in t : Max(t) >= y
           /\ n \in t => Max(t) = n
<1> DEFINE Reached(k) == (\E x \in t : \A y \in t : x >= y) \/ (\E x \in t : k <= x)
           T == {k \in 0 .. n : Reached(k)}
<1>0. \A x \in t : x \in Nat /\ x <= n
  OBVIOUS
<1>1. 0 \in T
  <2>1. PICK x \in t : TRUE
    OBVIOUS
  <2> QED  BY <2>1, <1>0
<1>2. \A k \in 1 .. n : k - 1 \in T => k \in T
  <2> TAKE k \in 1 .. n
  <2> HAVE k - 1 \in T
  <2>1. CASE \E x \in t : \A y \in t : x >= y
    BY <2>1
  <2>2. CASE \E x \in t : k - 1 <= x
    <3>1. PICK x \in t : k - 1 <= x
      BY <2>2
    <3>2. CASE \E y \in t : ~(x >= y)
      <4>1. PICK y \in t : ~(x >= y)
        BY <3>2
      <4>2. k <= y
        BY <3>1, <4>1, <1>0
      <4> QED  BY <4>2
    <3> QED  BY <3>2
  <2> QED  BY <2>1, <2>2
<1>3. n \in T
  <2> HIDE DEF T
  <2> QED  BY <1>1, <1>2, UpTo
<1>4. \E x \in t : \A y \in t : x >= y
  <2>1. CASE \E x \in t : n <= x
    BY <2>1, <1>0
  <2> QED  BY <1>3, <2>1
<1>5. Max(t) \in t /\ \A y \in t : Max(t) >= y
  BY <1>4 DEF Max
<1>6. ASSUME n \in t PROVE Max(t) = n
  <2>1. Max(t) \in Nat /\ Max(t) <= n /\ Max(t) >= n
    BY <1>5, <1>6, <1>0
  <2> HIDE DEF T, Reached
  <2> QED  BY <2>1
<1> QED  BY <1>5, <1>6

\* The same for positive numbers.
LEMMA MaxOfUpTo ==
    ASSUME NEW n \in Nat, NEW t, t \in SUBSET (1 .. n), t # {}
    PROVE  /\ Max(t) \in t /\ \A y \in t : Max(t) >= y
           /\ n \in t => Max(t) = n
<1>1. t \in SUBSET (0 .. n)
  OBVIOUS
<1> QED  BY <1>1, MaxUpTo

\* What the emitter takes up again from the frame of a block that ends.
EmitRestored(t, frame) ==
    [t EXCEPT !.regs = SubSeq(@, 1, frame.nregs), !.nargs = frame.nargs,
              !.ntyregs = IF frame.op = ".danalyze" THEN @ ELSE frame.ntyregs]

\* The emitter after a sequence of frames has been taken up again.
EmitUnwound(s, seq) == FoldLeft(EmitRestored, s, seq)

\* The sequence has the length n.
Spans(seq, n) == DOMAIN seq = 1 .. n

\* That fold, one frame after the other.
LEMMA EmitUnrolls ==
    ASSUME NEW s, NEW seq, NEW n \in Nat, Spans(seq, n)
    PROVE  \E f : /\ f[0] = s
                  /\ \A k \in 1 .. n : f[k] = EmitRestored(f[k - 1], seq[k])
                  /\ EmitUnwound(s, seq) = f[n]
<1> DEFINE Is(f, m) ==
      f = [t \in SUBSET (1 .. m) |-> IF t = {} THEN s
                                     ELSE EmitRestored(f[t \ {Max(t)}], seq[Max(t)])]
           T == {m \in 0 .. n : \E f : Is(f, m)}
<1>1. 0 \in T
  <2> DEFINE f == [t \in SUBSET (1 .. 0) |-> s]
  <2>1. Is(f, 0)
    OBVIOUS
  <2> QED  BY <2>1
<1>2. \A m \in 1 .. n : m - 1 \in T => m \in T
  <2> TAKE m \in 1 .. n
  <2> HAVE m - 1 \in T
  <2>1. PICK g : Is(g, m - 1)
    OBVIOUS
  <2> DEFINE f == [t \in SUBSET (1 .. m) |->
                      IF m \in t THEN EmitRestored(g[t \ {m}], seq[m]) ELSE g[t]]
  <2>2. ASSUME NEW t \in SUBSET (1 .. m)
        PROVE  f[t] = IF t = {} THEN s ELSE EmitRestored(f[t \ {Max(t)}], seq[Max(t)])
    <3>1. CASE m \in t
      <4>1. Max(t) = m
        <5>1. m \in Nat /\ t # {}
          BY <3>1
        <5> QED  BY <3>1, <5>1, MaxOfUpTo
      <4>2. t # {} /\ f[t \ {m}] = g[t \ {m}]
        BY <3>1
      <4> QED  BY <3>1, <4>1, <4>2
    <3>2. CASE m \notin t
      <4>1. t \in SUBSET (1 .. m - 1)
        BY <3>2
      <4>2. f[t] = g[t] /\ f[t \ {Max(t)}] = g[t \ {Max(t)}]
        BY <3>2
      <4>3. g[t] = IF t = {} THEN s ELSE EmitRestored(g[t \ {Max(t)}], seq[Max(t)])
        BY <2>1, <4>1
      <4> QED  BY <4>2, <4>3
    <3> QED  BY <3>1, <3>2
  <2>3. Is(f, m)
    <3> DEFINE h == [t \in SUBSET (1 .. m) |-> IF t = {} THEN s
                                     ELSE EmitRestored(f[t \ {Max(t)}], seq[Max(t)])]
    <3>1. \A t \in SUBSET (1 .. m) : f[t] = h[t]
      <4> HIDE DEF f
      <4> QED  BY <2>2
    <3> QED  BY <3>1
  <2> HIDE DEF f
  <2>4. m \in 0 .. n
    OBVIOUS
  <2> HIDE DEF Is
  <2> QED  BY <2>3, <2>4
<1>3. \E f : Is(f, n)
  <2> HIDE DEF T
  <2>1. n \in T
    BY <1>1, <1>2, UpTo
  <2> QED  BY <2>1 DEF T
<1> DEFINE iter == CHOOSE f : Is(f, n)
<1>4. Is(iter, n)
  BY <1>3
<1>5. EmitUnwound(s, seq) = iter[1 .. n]
  BY DEF Spans, EmitUnwound, FoldLeft, MapThenFoldSet
<1> HIDE DEF iter
<1> DEFINE f == [k \in 0 .. n |-> iter[1 .. k]]
<1>6. f[0] = s
  <2>1. 1 .. 0 = {} /\ {} \in SUBSET (1 .. n)
    OBVIOUS
  <2> QED  BY <1>4, <2>1
<1>7. ASSUME NEW k \in 1 .. n PROVE f[k] = EmitRestored(f[k - 1], seq[k])
  <2>1. Max(1 .. k) = k
    <3>1. k \in Nat /\ 1 .. k \in SUBSET (1 .. k) /\ 1 .. k # {} /\ k \in 1 .. k
      OBVIOUS
    <3> QED  BY <3>1, MaxOfUpTo
  <2>2. (1 .. k) \ {k} = 1 .. k - 1 /\ 1 .. k # {} /\ 1 .. k \in SUBSET (1 .. n)
    OBVIOUS
  <2>3. iter[1 .. k] = EmitRestored(iter[1 .. k - 1], seq[k])
    BY <1>4, <2>1, <2>2
  <2> QED  BY <2>3
<1>8. f[n] = iter[1 .. n]
  OBVIOUS
<1> HIDE DEF f
<1> QED  BY <1>5, <1>6, <1>7, <1>8

-----------------------------------------------------------------------------
(* The emitter, op by op.                                                  *)

\* The emitter has written up to n bytes, and named nothing.
KeptIn(s, t, n) ==
    Stays(s, t) /\ t.regs = s.regs /\ t.types = s.types /\ t.codes = s.codes /\ t.out = n

\* It has named the subcode of the line l.
CodedIn(s, t, l, n) ==
    /\ Stays(s, t) /\ t.regs = s.regs /\ t.types = s.types
    /\ t.codes = Append(s.codes, l.code) /\ t.out = n

\* Bytes written after others count as well.
LEMMA EmittedKept ==
    ASSUME NEW s, NEW t, NEW m, NEW n, KeptIn(s, t, m)
    PROVE  KeptIn(s, Emitted(t, n), m + n)
  BY  DEF Emitted, Stays, KeptIn, IsEmitter

\* An emitter that does nothing has written what it had.
LEMMA KeepsItself ==
    ASSUME NEW s, IsEmitter(s), Alive(s)
    PROVE  KeptIn(s, s, s.out)
  BY DEF KeptIn, Stays

\* Bytes written before a register is named count as well.
LEMMA NamedAfterEmitted ==
    ASSUME NEW s, NEW t, NEW l, NEW m, NEW n, IsEmitter(s), NamedIn(Emitted(s, n), t, l, m)
    PROVE  NamedIn(s, t, l, m)
  BY EmittedStays DEF NamedIn, Stays, Emitted, IsEmitter, Alive

\* Writing n bytes adds n to what is written.
LEMMA EmittedOut ==
    ASSUME NEW s, NEW n, IsEmitter(s)
    PROVE  Emitted(s, n).out = s.out + n
  BY  DEF Emitted, IsEmitter

\* A .subcode names a subcode and takes a word.
LEMMA EmitSubcodeCodes ==
    ASSUME NEW s, NEW l, IsEmitter(s), Alive(EmitSubcode(s, l))
    PROVE  CodedIn(s, EmitSubcode(s, l), l, s.out + Word)
<1>1. CASE Len(s.codes) >= MaxRegs
  BY <1>1 DEF EmitSubcode, Fatal, IsEmitter, Alive
<1>2. CASE ~(Len(s.codes) >= MaxRegs)
  BY <1>2 DEF EmitSubcode, Emitted, CodedIn, Stays, IsEmitter, Alive
<1> QED  BY <1>1, <1>2

\* A type register takes no bytes and names nothing.
LEMMA TypeRegisterKeeps ==
    ASSUME NEW s, IsEmitter(s), Alive(TypeRegister(s))
    PROVE  KeptIn(s, TypeRegister(s), s.out)
  BY DEF TypeRegister, Fatal, KeptIn, Stays, IsEmitter, Alive

\* A global takes a word.
LEMMA EmitGvarNames ==
    ASSUME NEW s, NEW l, IsEmitter(s), Alive(EmitDataGvar(s, l))
    PROVE  NamedIn(s, EmitDataGvar(s, l), l, s.out + Word)
<1> DEFINE t == IF l.op = ".gvar" THEN NameTypedRegister(s, l, l.type) ELSE NameRegister(s, l)
<1>1. EmitDataGvar(s, l) = [Emitted(t, Word) EXCEPT !.nglobals = @ + 1]
  BY DEF EmitDataGvar
<1>2. IsEmitter(t) /\ (Alive(t) => NamedIn(s, t, l, s.out))
  BY NamesRegister, NamesTypedRegister
<1> HIDE DEF t
<1>3. IsEmitter(Emitted(t, Word)) /\ (Alive(Emitted(t, Word)) => NamedIn(s, Emitted(t, Word), l, s.out + Word))
  BY <1>2, EmittedStays, EmittedNamed
<1> QED  BY <1>1, <1>3 DEF NamedIn, Stays, IsEmitter, Alive

\* A free variable takes no bytes, unless it is an .efv.
LEMMA EmitFvNames ==
    ASSUME NEW s, NEW l, IsEmitter(s), Alive(EmitDataFv(s, l))
    PROVE  NamedIn(s, EmitDataFv(s, l), l, s.out + (IF l.op = ".efv" THEN EfvSize ELSE 0))
<1> DEFINE n == IF l.op = ".efv" THEN EfvSize ELSE 0
           t == NameTypedRegister(Emitted(s, n), l, l.type)
<1>1. EmitDataFv(s, l) = [t EXCEPT !.nfvs = @ + 1]
  BY DEF EmitDataFv
<1> HIDE DEF n
<1>2. IsEmitter(t) /\ (Alive(t) => NamedIn(Emitted(s, n), t, l, Emitted(s, n).out))
  BY EmittedStays, NamesTypedRegister
<1> HIDE DEF t
<1>3. Alive(t) => NamedIn(s, t, l, s.out + n)
  BY <1>2, NamedAfterEmitted, EmittedOut
<1>4. NamedIn(s, EmitDataFv(s, l), l, s.out + n)
  BY <1>1, <1>2, <1>3 DEF NamedIn, Stays, IsEmitter, Alive
<1> QED  BY <1>4 DEF n

\* An argument names a register and takes no bytes.
LEMMA EmitArgNames ==
    ASSUME NEW s, NEW l, IsEmitter(s), Alive(EmitArg(s, l))
    PROVE  NamedIn(s, EmitArg(s, l), l, s.out)
<1> DEFINE u == NameTypedRegister(s, l, l.type)
           t == [u EXCEPT !.nargs = @ + 1]
           v == Check(t, t.fields = <<>> \/ Last(t.fields) < l.names[1], "fields")
<1>1. EmitArg(s, l) = IF l.op # ".fkarg" THEN t ELSE [v EXCEPT !.fields = Append(@, l.names[1])]
  BY DEF EmitArg
<1>2. IsEmitter(u) /\ (Alive(u) => NamedIn(s, u, l, s.out))
  BY NamesTypedRegister
<1> HIDE DEF u
<1>3. IsEmitter(t) /\ (Alive(t) => NamedIn(s, t, l, s.out))
  BY <1>2 DEF NamedIn, Stays, IsEmitter, Alive
<1> HIDE DEF t
<1>4. IsEmitter(v) /\ (Alive(v) => v = t)
  BY <1>3, EmitterChecks
<1> HIDE DEF v
<1> QED  BY <1>1, <1>3, <1>4 DEF NamedIn, Stays, IsEmitter, Alive

\* A .bind names a register, with or without a label, and takes a statement's bytes.
LEMMA EmitBindNames ==
    ASSUME NEW s, NEW l, IsEmitter(s), Alive(EmitBind(s, l))
    PROVE  NamedIn(s, EmitBind(s, l), l, s.out + StatementSize(l))
<1>1. CASE l.sub = ".closure"
  <2> DEFINE t == Unlift(SubCodes[l.code].result)
             u == Captures(FindsCode(s, l.code), l.code)
             v == Check(u, t.node = "app", "application")
             ty == IF t.node = "app" THEN t.args[1] ELSE BadType
             w == NameTypedRegister(v, l, ty)
  <2>1. EmitBind(s, l) = Emitted(w, ClosureSize(NumFvs(l)))
    BY <1>1 DEF EmitBind, EmitBindClosure, NumFvs, NumFvsOf
  <2>2. IsEmitter(u) /\ (Alive(u) => u = s)
    BY BothPass
  <2>3. IsEmitter(v) /\ (Alive(v) => v = u)
    BY <2>2, EmitterChecks
  <2> HIDE DEF v, t, ty
  <2>4. Alive(v) /\ Alive(w)
    BY <2>1, <2>3, NamesTypedRegister, EmittedStays
  <2>5. v = s
    BY <2>2, <2>3, <2>4
  <2>6. NamedIn(s, w, l, s.out)
    BY <2>4, <2>5, NamesTypedRegister
  <2> QED  BY <1>1, <2>1, <2>6, EmittedNamed DEF StatementSize
<1>2. CASE l.sub = ".apply"
  <2> DEFINE u == Finds(s, l.args)
             v == Check(u, TypeOf(s, l.args[1]) # NoType, "no type")
             w == Check(v, ApplyType(s, l) # BadType, "function")
             x == NameRegister(w, l)
  <2>1. EmitBind(s, l) = Emitted(x, ApplySize(Len(l.args) - 1))
    BY <1>2 DEF EmitBind, EmitBindApply, EmitsApply
  <2>2. IsEmitter(u) /\ IsEmitter(v) /\ IsEmitter(w) /\ (Alive(w) => w = v) /\ (Alive(v) => v = u)
    BY FindsPasses, EmitterChecks
  <2> HIDE DEF w
  <2>4. Alive(x) /\ Alive(w)
    BY <2>1, <2>2, EmittedStays, NamesRegister
  <2>3. w = s /\ Alive(x)
    BY <2>2, <2>4, FindsPasses
  <2> QED  BY <1>2, <2>1, <2>3, NamesRegister, EmittedNamed DEF StatementSize
<1>3. CASE l.sub \notin {".closure", ".apply"}
  BY <1>3 DEF EmitBind, Fatal, IsEmitter, Alive
<1> QED  BY <1>1, <1>2, <1>3

\* A continuation names nothing and takes PushSize bytes.
LEMMA EmitPushKeeps ==
    ASSUME NEW s, NEW l, IsEmitter(s), Known(l), Group(l) = "push", Alive(EmitPush(s, l))
    PROVE  KeptIn(s, EmitPush(s, l), s.out + PushSize(l))
<1>1. CASE l.op = ".app"
  <2>1. EmitPush(s, l) = Emitted(Finds(s, l.args), AppSize(Len(l.args)))
    BY <1>1 DEF EmitPush, EmitApp
  <2>2. Finds(s, l.args) = s /\ Alive(s)
    BY <2>1, FindsPasses, EmittedStays
  <2> QED  BY <1>1, <2>1, <2>2, KeepsItself, EmittedKept DEF PushSize
<1>2. CASE l.op \in {".force", ".strict"}
  <2> DEFINE u == Captures(FindsCode(s, l.code), l.code)
  <2>1. EmitPush(s, l) = Emitted(u, ContSize(NumFvs(l)))
    BY <1>2 DEF EmitPush, EmitForce, NumFvs, NumFvsOf
  <2>2. u = s /\ Alive(s)
    BY <2>1, BothPass, EmittedStays
  <2> QED  BY <1>2, <2>1, <2>2, KeepsItself, EmittedKept DEF PushSize
<1>3. CASE l.op = ".ubanalyze"
  <2> DEFINE u == Check(s, l.names # <<>> /\ AllFound(s.codes, l.codes), "register")
             v == Captures(u, l.code)
  <2>1. EmitPush(s, l) = Emitted(v, UbanalyzeSize(Len(l.names), NumFvs(l)))
    BY <1>3 DEF EmitPush, EmitUbanalyze, NumFvs, NumFvsOf
  <2>2. IsEmitter(u) /\ (Alive(u) => u = s)
    BY EmitterChecks
  <2> HIDE DEF u
  <2>3. v = s /\ Alive(s)
    BY <2>1, <2>2, CapturesPasses, EmittedStays
  <2> QED  BY <1>3, <2>1, <2>3, KeepsItself, EmittedKept DEF PushSize
<1> QED  BY <1>1, <1>2, <1>3, OpsOfGroups

\* What EmitTerminal writes before it ends the block.
EmitsTerminal(s, l) ==
    IF l.op \in {".ubprim", ".lprim"} THEN EmitTerminalPrim(s, l) ELSE EmitReturn(s, l)

\* It names nothing and takes TerminalSize bytes.
LEMMA EmitsTerminalKeeps ==
    ASSUME NEW s, NEW l, IsEmitter(s), Known(l), Group(l) = "terminal", Alive(EmitsTerminal(s, l))
    PROVE  KeptIn(s, EmitsTerminal(s, l), s.out + TerminalSize(l))
<1> DEFINE u == Finds(s, l.args)
<1>1. CASE l.op \in {".ubprim", ".lprim"} /\ l.known
  <2>1. EmitsTerminal(s, l) = Emitted(u, PrimSize(Len(l.args)))
    BY <1>1 DEF EmitsTerminal, EmitTerminalPrim
  <2>2. u = s /\ Alive(s)
    BY <2>1, FindsPasses, EmittedStays
  <2> QED  BY <1>1, <2>1, <2>2, KeepsItself, EmittedKept DEF TerminalSize
<1>2. CASE l.op \in {".ubprim", ".lprim"} /\ ~l.known
  <2>1. EmitsTerminal(s, l) = Emitted(s, UnknownPrimSize)
    BY <1>2 DEF EmitsTerminal, EmitTerminalPrim
  <2> QED  BY <1>2, <2>1, EmittedStays, KeepsItself, EmittedKept DEF TerminalSize
<1>3. CASE l.op = ".undef"
  <2>1. EmitsTerminal(s, l) = Emitted(s, UndefinedSize)
    BY <1>3 DEF EmitsTerminal, EmitReturn
  <2> QED  BY <1>3, <2>1, EmittedStays, KeepsItself, EmittedKept DEF TerminalSize
<1>4. CASE l.op \in {".yield", ".enter"}
  <2>1. EmitsTerminal(s, l) = Emitted(u, ReturnSize)
    BY <1>4 DEF EmitsTerminal, EmitReturn
  <2>2. u = s /\ Alive(s)
    BY <2>1, FindsPasses, EmittedStays
  <2> QED  BY <1>4, <2>1, <2>2, KeepsItself, EmittedKept DEF TerminalSize
<1> QED  BY <1>1, <1>2, <1>3, <1>4, OpsOfGroups

\* The sub-ops of a statement that load.c lets through.
Subs == {".closure", ".undefined", ".apply", ".appty"}

\* What EmitBodyOp writes before it ends the program.
EmitsBody(s, l) ==
    CASE l.sub = ".closure" ->
            Emitted(Captures(FindsCode(s, l.code), l.code), ClosureSize(NumFvsOf(l)))
      [] l.sub = ".undefined" -> Emitted(s, UndefinedSize)
      [] l.sub = ".appty" -> Emitted(Finds(s, l.args), AliasSize)
      [] l.sub = ".apply" -> Emitted(Finds(s, l.args), ApplySize(Len(l.args) - 1))

\* It names nothing and takes a statement's bytes.
LEMMA EmitsBodyKeeps ==
    ASSUME NEW s, NEW l, IsEmitter(s), l.sub \in Subs, Alive(EmitsBody(s, l))
    PROVE  KeptIn(s, EmitsBody(s, l), s.out + StatementSize(l))
<1> DEFINE u == Finds(s, l.args)
           v == Captures(FindsCode(s, l.code), l.code)
<1>1. CASE l.sub = ".closure"
  <2>1. EmitsBody(s, l) = Emitted(v, ClosureSize(NumFvs(l)))
    BY <1>1 DEF EmitsBody, NumFvs, NumFvsOf
  <2>2. v = s /\ Alive(s)
    BY <2>1, BothPass, EmittedStays
  <2> QED  BY <1>1, <2>1, <2>2, KeepsItself, EmittedKept DEF StatementSize
<1>2. CASE l.sub = ".undefined"
  <2>1. EmitsBody(s, l) = Emitted(s, UndefinedSize)
    BY <1>2 DEF EmitsBody
  <2> QED  BY <1>2, <2>1, EmittedStays, KeepsItself, EmittedKept DEF StatementSize
<1>3. CASE l.sub \in {".appty", ".apply"}
  <2>1. EmitsBody(s, l) = Emitted(u, IF l.sub = ".appty" THEN AliasSize ELSE ApplySize(Len(l.args) - 1))
    BY <1>3 DEF EmitsBody
  <2>2. u = s /\ Alive(s)
    BY <2>1, FindsPasses, EmittedStays
  <2> QED  BY <1>3, <2>1, <2>2, KeepsItself, EmittedKept DEF StatementSize
<1> QED  BY <1>1, <1>2, <1>3 DEF Subs

-----------------------------------------------------------------------------
(* Frames, and the end of blocks.                                          *)

\* Frames are a sequence, of whatever they are.
IsSeq(b) == \E X : b \in Seq(X)

\* The length and the domain of a sequence of frames.
LEMMA FramesFacts ==
    ASSUME NEW b, IsSeq(b)
    PROVE  Len(b) \in Nat /\ DOMAIN b = 1 .. Len(b)
  BY DEF IsSeq

\* The empty sequence is one of frames.
LEMMA NoFrames == IsSeq(<<>>) /\ Len(<<>>) = 0
<1>1. <<>> \in Seq({})
  OBVIOUS
<1> QED  BY <1>1 DEF IsSeq

\* A frame put on top of others.
LEMMA FramesAppend ==
    ASSUME NEW b, NEW x, IsSeq(b)
    PROVE  /\ IsSeq(Append(b, x)) /\ Len(Append(b, x)) = Len(b) + 1
           /\ Append(b, x)[Len(b) + 1] = x
           /\ \A i \in 1 .. Len(b) : Append(b, x)[i] = b[i]
<1>1. PICK X : b \in Seq(X)
  BY Zenon DEF IsSeq
<1> DEFINE Y == X \cup {x}
<1>2. b \in Seq(Y) /\ x \in Y
  BY <1>1
<1>3. Append(b, x) \in Seq(Y)
  BY <1>2
<1> QED  BY <1>2, <1>3 DEF IsSeq

\* The outer frames of a sequence.
LEMMA FramesPrefix ==
    ASSUME NEW b, NEW m, IsSeq(b), m \in 0 .. Len(b)
    PROVE  /\ IsSeq(SubSeq(b, 1, m)) /\ Len(SubSeq(b, 1, m)) = m
           /\ \A i \in 1 .. m : SubSeq(b, 1, m)[i] = b[i]
<1>1. PICK X : b \in Seq(X)
  BY Zenon DEF IsSeq
<1>2. SubSeq(b, 1, m) \in Seq(X)
  BY <1>1
<1> QED  BY <1>1, <1>2 DEF IsSeq

\* A frame replaced.
LEMMA FramesExcept ==
    ASSUME NEW b, NEW k, NEW x, IsSeq(b)
    PROVE  LET c == [b EXCEPT ![k] = x]
           IN  /\ IsSeq(c) /\ Len(c) = Len(b)
               /\ \A i \in 1 .. Len(b) : c[i] = IF i = k THEN x ELSE b[i]
<1>1. PICK X : b \in Seq(X)
  BY Zenon DEF IsSeq
<1> DEFINE Y == X \cup {x}
           c == [b EXCEPT ![k] = x]
<1>2. b \in Seq(Y) /\ x \in Y
  BY <1>1
<1>3. Len(b) \in Nat /\ b \in [1 .. Len(b) -> Y]
  <2> HIDE DEF Y
  <2> QED  BY <1>2, LenProperties
<1>4. CASE k \in 1 .. Len(b)
  <2> HIDE DEF Y
  <2>1. c \in Seq(Y) /\ Len(c) = Len(b)
        /\ \A i \in 1 .. Len(b) : c[i] = IF i = k THEN x ELSE b[i]
    BY <1>2, <1>4, ExceptSeq
  <2> QED  BY <2>1 DEF IsSeq
<1>5. CASE k \notin 1 .. Len(b)
  <2>1. c = b
    BY <1>3, <1>5
  <2> QED  BY <2>1, <1>5
<1> QED  BY <1>4, <1>5

\* StillIn is the innermost frame with a case left, or 0: the greatest such index.
LEMMA StillInIs ==
    ASSUME NEW s, IsSeq(s.branches)
    PROVE  /\ StillIn(s) \in 0 .. Len(s.branches)
           /\ StillIn(s) # 0 => s.branches[StillIn(s)].left > 0
           /\ \A i \in 1 .. Len(s.branches) : s.branches[i].left > 0 => i <= StillIn(s)
<1> DEFINE n == Len(s.branches)
           t == {0} \cup {i \in DOMAIN s.branches : s.branches[i].left > 0}
<1>1. n \in Nat /\ DOMAIN s.branches = 1 .. n
  BY FramesFacts
<1>2. t \in SUBSET (0 .. n) /\ t # {}
  BY <1>1
<1>3. Max(t) \in t /\ \A y \in t : Max(t) >= y
  <2> HIDE DEF t, n
  <2> QED  BY <1>1, <1>2, MaxUpTo
<1>4. StillIn(s) = Max(t)
  BY DEF StillIn
<1> QED  BY <1>1, <1>2, <1>3, <1>4

\* The outermost frame that ends: the one with a case left, or the first.
LEMMA OuterIs ==
    ASSUME NEW k \in Nat
    PROVE  Max({1, k}) = IF k = 0 THEN 1 ELSE k
<1> DEFINE t == {1, k}
           n == IF k = 0 THEN 1 ELSE k
<1>1. t \in SUBSET (0 .. n) /\ t # {} /\ n \in t /\ n \in Nat
  OBVIOUS
<1>2. Max(t) = n
  <2> HIDE DEF t, n
  <2> QED  BY <1>1, MaxUpTo
<1> QED  BY <1>2

\* How many blocks end with a terminal.
Ended(s) == IF StillIn(s) = 0 THEN Len(s.branches) ELSE Len(s.branches) - StillIn(s) + 1

\* The frames that end, innermost first, are the top ones.
LEMMA EndingIs ==
    ASSUME NEW s, IsSeq(s.branches)
    PROVE  /\ Ended(s) \in Nat /\ Ended(s) <= Len(s.branches)
           /\ Spans(Ending(s), Ended(s))
           /\ \A k \in 1 .. Ended(s) : Ending(s)[k] = s.branches[Len(s.branches) - k + 1]
<1> DEFINE n == Len(s.branches)
           m == IF StillIn(s) = 0 THEN 1 ELSE StillIn(s)
           r == SubSeq(s.branches, m, n)
<1>1. n \in Nat /\ StillIn(s) \in 0 .. n
  BY FramesFacts, StillInIs
<1>2. Ended(s) = n - m + 1
  BY <1>1 DEF Ended
<1>3. Ending(s) = Reverse(r)
  BY <1>1, OuterIs DEF Ending
<1>4. m \in 1 .. n + 1
  BY <1>1
<1>5. PICK X : s.branches \in Seq(X)
  BY DEF IsSeq
<1>6. Len(r) = n - m + 1 /\ \A i \in 1 .. n - m + 1 : r[i] = s.branches[i + m - 1]
  BY <1>1, <1>4, <1>5
<1>7. n - m + 1 \in Nat /\ n - m + 1 <= n
  BY <1>1
<1> HIDE DEF r, m
<1>8. Ending(s) = [i \in 1 .. n - m + 1 |-> r[(n - m + 1) - i + 1]]
  BY <1>3, <1>6 DEF Reverse
<1>9. ASSUME NEW k \in 1 .. n - m + 1 PROVE Ending(s)[k] = s.branches[n - k + 1]
  <2>1. (n - m + 1) - k + 1 \in 1 .. n - m + 1 /\ (n - m + 1) - k + 1 + m - 1 = n - k + 1
    BY <1>1, <1>4, <1>7
  <2> QED  BY <1>6, <1>8, <2>1
<1> QED  BY <1>2, <1>7, <1>8, <1>9 DEF Spans

\* The sequence x of the pass s, cut back to the registers of one ended block after the
\* other, is y.
Cuts(s, x, y) ==
    \E f : /\ f[0] = x
           /\ \A k \in 1 .. Ended(s) : f[k] = SubSeq(f[k - 1], 1, Ending(s)[k].nregs)
           /\ y = f[Ended(s)]

\* The registers of s, cut back in this way, are r.
RegsUnwind(s, r) == Cuts(s, s.regs, r)

\* The emitter t is s after the blocks that end have ended, but for its registers.
EndsIn(s, t) ==
    /\ IsEmitter(t) /\ Alive(s)
    /\ t.block = IF StillIn(s) = 0 THEN "done" ELSE "cases"
    /\ t.branches = SubSeq(s.branches, 1, StillIn(s))
    /\ t.codes = s.codes /\ t.types = s.types
    /\ t.out = s.out /\ t.loop = s.loop

\* EmitEnd ends those blocks and cuts off their registers.
LEMMA EmitEndIs ==
    ASSUME NEW s, IsEmitter(s), IsSeq(s.branches), Alive(EmitEnd(s))
    PROVE  EndsIn(s, EmitEnd(s)) /\ RegsUnwind(s, EmitEnd(s).regs)
<1> DEFINE n == Ended(s)
           t == EmitUnwound(s, Ending(s))
<1>1. n \in Nat /\ Spans(Ending(s), n)
  BY EndingIs
<1>2. EmitEnd(s) = EndBlock(t)
  BY DEF EmitEnd, EmitUnwound, EmitRestored, FoldLeft, MapThenFoldSet
<1>3. PICK f : /\ f[0] = s
               /\ \A k \in 1 .. n : f[k] = EmitRestored(f[k - 1], Ending(s)[k])
               /\ EmitUnwound(s, Ending(s)) = f[n]
  <2> HIDE DEF n
  <2> QED  BY <1>1, EmitUnrolls
<1> DEFINE Like(u) == /\ IsEmitter(u) /\ u.fatal = s.fatal /\ u.branches = s.branches
                      /\ u.codes = s.codes /\ u.out = s.out /\ u.loop = s.loop
                      /\ u.types = s.types
           T == {k \in 0 .. n : Like(f[k])}
<1>4. 0 \in T
  BY <1>1, <1>3
<1>5. \A k \in 1 .. n : k - 1 \in T => k \in T
  <2> TAKE k \in 1 .. n
  <2> HAVE k - 1 \in T
  <2>1. f[k] = EmitRestored(f[k - 1], Ending(s)[k]) /\ Like(f[k - 1])
    BY <1>3
  <2>2. Like(f[k])
    BY <2>1 DEF EmitRestored, IsEmitter
  <2> QED  BY <2>2
<1>6. \A k \in 0 .. n : Like(f[k])
  <2>1. \A k \in 0 .. n : k \in T
    <3> HIDE DEF T, n
    <3> QED  BY <1>1, <1>4, <1>5, UpTo
  <2> QED  BY <2>1
<1>7. Like(t)
  BY <1>1, <1>3, <1>6
<1>8. StillIn(t) = StillIn(s)
  BY <1>7 DEF StillIn
<1>9. EndsIn(s, EmitEnd(s)) /\ EmitEnd(s).regs = t.regs
  <2> HIDE DEF t
  <2>1. LET v == EndBlock(t)
        IN  /\ IsEmitter(v) /\ v.fatal = t.fatal /\ v.codes = t.codes /\ v.out = t.out
            /\ v.loop = t.loop /\ v.regs = t.regs /\ v.types = t.types
            /\ v.block = IF StillIn(t) = 0 THEN "done" ELSE "cases"
            /\ v.branches = SubSeq(t.branches, 1, StillIn(t))
    <3>1. IsEmitter(t)
      BY <1>7
    <3> QED  BY <3>1 DEF EndBlock, IsEmitter
  <2>2. Alive(s)
    BY <1>2, <1>7, <2>1 DEF Alive
  <2> QED  BY <1>2, <1>7, <1>8, <2>1, <2>2 DEF EndsIn
<1>10. RegsUnwind(s, t.regs)
  <2> DEFINE g == [k \in 0 .. n |-> f[k].regs]
  <2>1. g[0] = s.regs /\ t.regs = g[n]
    BY <1>1, <1>3
  <2>2. ASSUME NEW k \in 1 .. n PROVE g[k] = SubSeq(g[k - 1], 1, Ending(s)[k].nregs)
    <3>1. k - 1 \in 0 .. n /\ k \in 0 .. n
      BY <1>1
    <3>2. f[k].regs = SubSeq(f[k - 1].regs, 1, Ending(s)[k].nregs)
      BY <1>3, <1>6, <3>1 DEF EmitRestored, IsEmitter
    <3> QED  BY <3>1, <3>2
  <2> HIDE DEF g
  <2> QED  BY <2>1, <2>2 DEF RegsUnwind, Cuts
<1> QED  BY <1>9, <1>10

-----------------------------------------------------------------------------
(* The loops of the emitter.                                               *)

\* Loops over any number of lines of one of the sets of groups gs.
ManyOf(gs) == {Many(x) : x \in gs}

\* Loops makes one loop of each set of groups.
LEMMA LoopsAre ==
    ASSUME NEW S, NEW gs \in Seq(S)
    PROVE  Loops(gs) \in Seq(ManyOf(S))
<1>1. Len(gs) \in Nat /\ DOMAIN gs = 1 .. Len(gs) /\ \A i \in 1 .. Len(gs) : gs[i] \in S
  OBVIOUS
<1>2. Loops(gs) = [i \in 1 .. Len(gs) |-> Many(gs[i])]
  BY <1>1 DEF Loops
<1>3. \A i \in 1 .. Len(gs) : Many(gs[i]) \in ManyOf(S)
  BY <1>1 DEF ManyOf
<1> QED  BY <1>1, <1>2, <1>3

\* Loops one after the other.
LEMMA ConcatAre ==
    ASSUME NEW A, NEW B, NEW C, NEW a \in Seq(A), NEW b \in Seq(B), A \subseteq C, B \subseteq C
    PROVE  a \o b \in Seq(C)
<1>1. a \in Seq(C) /\ b \in Seq(C)
  OBVIOUS
<1> QED  BY <1>1

\* The groups of the loops of each part of bytecompile.c's walk.
GlobalGroups == {{"tygvar"}, {"subcode"}, {"cogvar"}, {"gvar"}}

\* The loops over what is global.
LEMMA GlobalsAre == Globals \in Seq(ManyOf(GlobalGroups))
<1> DEFINE gs == <<{"tygvar"}, {"subcode"}, {"cogvar"}, {"gvar"}>>
<1>1. gs \in Seq(GlobalGroups)
  BY DEF GlobalGroups
<1> QED  BY <1>1, LoopsAre DEF Globals

EmitBodyGroups == {{"alloc"}, {"cast", "push"}, {"terminal", "branch"}}

\* The loops over the body of a block.
LEMMA EmitBodyAre == EmitBody \in Seq(ManyOf(EmitBodyGroups))
<1> DEFINE gs == <<{"alloc"}, {"cast", "push"}, {"terminal", "branch"}>>
<1>1. gs \in Seq(EmitBodyGroups)
  BY DEF EmitBodyGroups
<1> QED  BY <1>1, LoopsAre DEF EmitBody
EmitApiGroups == GlobalGroups \cup {{"tyfv"}, {"tylet"}, {"tyarg", "exkarg"}, {"fv"},
                     {"cast", "tylet", "karg", "fkarg", "arg"}, {"alloc", "bind"}, {"body"}}

\* The loops over an imperative program: no terminal and no branch.
LEMMA EmitApiAre == EmitApiLoops \in Seq(ManyOf(EmitApiGroups))
<1> DEFINE gs == <<{"tyfv"}, {"tylet"}, {"tyarg", "exkarg"}, {"fv"},
                                    {"cast", "tylet", "karg", "fkarg", "arg"},
                                    {"alloc", "bind"}, {"body"}>>
           hs == {{"tyfv"}, {"tylet"}, {"tyarg", "exkarg"}, {"fv"},
                     {"cast", "tylet", "karg", "fkarg", "arg"}, {"alloc", "bind"}, {"body"}}
<1>1. gs \in Seq(hs)
  OBVIOUS
<1>2. Loops(gs) \in Seq(ManyOf(hs))
  <2> HIDE DEF gs, hs
  <2> QED  BY <1>1, LoopsAre
<1>3. ManyOf(hs) \subseteq ManyOf(EmitApiGroups) /\ ManyOf(GlobalGroups) \subseteq ManyOf(EmitApiGroups)
  BY DEF ManyOf, EmitApiGroups
<1>4. EmitApiLoops = Globals \o Loops(gs)
  BY DEF EmitApiLoops
<1> HIDE DEF gs, hs
<1> QED  BY <1>2, <1>3, <1>4, GlobalsAre, ConcatAre
EmitExprGroups == GlobalGroups \cup {{"tyfv"}, {"tylet"}, {"fv"}, {"tyarg", "exkarg"},
                     {"cast", "tyarg", "exkarg", "tylet", "karg", "fkarg", "arg"}, {"karg", "fkarg", "arg"}}
                     \cup EmitBodyGroups

\* The loops over any other item.
LEMMA EmitCodeAre == EmitCodeLoops \in Seq(ManyOf(EmitExprGroups))
<1> DEFINE gs == <<{"tyfv"}, {"tylet"}, {"fv"}, {"cast", "tyarg", "exkarg", "tylet", "karg", "fkarg", "arg"}>>
           hs == {{"tyfv"}, {"tylet"}, {"fv"}, {"cast", "tyarg", "exkarg", "tylet", "karg", "fkarg", "arg"}}
<1>1. gs \in Seq(hs)
  OBVIOUS
<1>2. Loops(gs) \in Seq(ManyOf(hs))
  <2> HIDE DEF gs, hs
  <2> QED  BY <1>1, LoopsAre
<1>3. /\ ManyOf(hs) \subseteq ManyOf(EmitExprGroups) /\ ManyOf(GlobalGroups) \subseteq ManyOf(EmitExprGroups)
      /\ ManyOf(EmitBodyGroups) \subseteq ManyOf(EmitExprGroups)
  BY DEF ManyOf, EmitExprGroups
<1>4. EmitCodeLoops = (Globals \o Loops(gs)) \o EmitBody
  BY DEF EmitCodeLoops
<1> HIDE DEF gs, hs
<1>5. Globals \o Loops(gs) \in Seq(ManyOf(EmitExprGroups))
  BY <1>2, <1>3, GlobalsAre, ConcatAre
<1> QED  BY <1>3, <1>4, <1>5, EmitBodyAre, ConcatAre

\* The loops over a case.
LEMMA EmitCaseAre == EmitCaseLoops \in Seq(ManyOf(EmitExprGroups))
<1> DEFINE gs == <<{"tyarg", "exkarg"}, {"tylet"}, {"karg", "fkarg", "arg"}>>
           hs == {{"tyarg", "exkarg"}, {"tylet"}, {"karg", "fkarg", "arg"}}
<1>1. gs \in Seq(hs)
  OBVIOUS
<1>2. Loops(gs) \in Seq(ManyOf(hs))
  <2> HIDE DEF gs, hs
  <2> QED  BY <1>1, LoopsAre
<1>3. /\ ManyOf(hs) \subseteq ManyOf(EmitExprGroups)
      /\ ManyOf(EmitBodyGroups) \subseteq ManyOf(EmitExprGroups)
  BY DEF ManyOf, EmitExprGroups
<1>4. EmitCaseLoops = Loops(gs) \o EmitBody
  BY DEF EmitCaseLoops
<1> HIDE DEF gs, hs
<1> QED  BY <1>2, <1>3, <1>4, EmitBodyAre, ConcatAre

\* The loops over a default.
LEMMA EmitDefaultAre == EmitDefaultLoops \in Seq(ManyOf(EmitExprGroups))
<1>1. ManyOf(EmitBodyGroups) \subseteq ManyOf(EmitExprGroups)
  BY DEF ManyOf, EmitExprGroups
<1> QED  BY <1>1, EmitBodyAre DEF EmitDefaultLoops

\* The line is one of an imperative program, outside of cases.
InProgram(s, kd) == kd = ".impprog" /\ s.block \notin {"case", "default"}

\* The loops the emitter is in.
LEMMA EmitterLoopsAre ==
    ASSUME NEW s, NEW kd
    PROVE  EmitterLoops(s, kd) \in Seq(ManyOf(IF InProgram(s, kd) THEN EmitApiGroups ELSE EmitExprGroups))
<1>1. CASE InProgram(s, kd)
  <2>1. EmitterLoops(s, kd) = EmitApiLoops
    BY <1>1 DEF EmitterLoops, InProgram
  <2> QED  BY <1>1, <2>1, EmitApiAre
<1>2. CASE ~InProgram(s, kd)
  <2>1. EmitterLoops(s, kd) \in {EmitCaseLoops, EmitDefaultLoops, EmitCodeLoops}
    BY <1>2 DEF EmitterLoops, InProgram
  <2> QED  BY <1>2, <2>1, EmitCodeAre, EmitCaseAre, EmitDefaultAre
<1> QED  BY <1>1, <1>2

\* The loop that is next for a group is at or behind the present one and takes it.
LEMMA NextLoopIs ==
    ASSUME NEW S, NEW loops \in Seq(ManyOf(S)), NEW k \in Nat \ {0}, NEW g, NextLoop(loops, k, g) # 0
    PROVE  LET j == NextLoop(loops, k, g)
           IN  /\ j \in k .. Len(loops) /\ loops[j].next = 0
               /\ \E x \in S : g \in x
<1> DEFINE taking == {i \in k .. Len(loops) : /\ g \in loops[i].ops
                                            /\ \A j \in k .. i - 1 : ~loops[j].must}
           j == CHOOSE i \in taking : \A h \in taking : i <= h
<1>1. taking # {} /\ NextLoop(loops, k, g) = j
  BY DEF NextLoop
<1>2. \A h \in taking : h \in Nat
  OBVIOUS
<1>3. \E i \in taking : \A h \in taking : i <= h
  <2> HIDE DEF taking
  <2>1. taking \subseteq Nat
    BY <1>2
  <2>2. PICK x \in taking : \A y \in taking : ~(<<y, x>> \in OpToRel(<, Nat))
    BY <1>1, <2>1, NatLessThanWellFounded, WFMin, Zenon
  <2>3. \A y \in taking : x <= y
    <3> TAKE y \in taking
    <3>1. ~(y < x) /\ x \in Nat /\ y \in Nat
      BY <2>1, <2>2 DEF OpToRel
    <3> QED  BY <3>1
  <2> QED  BY <2>3
<1>4. j \in taking
  <2> HIDE DEF taking
  <2> QED  BY <1>3
<1>5. j \in k .. Len(loops) /\ g \in loops[j].ops
  <2> HIDE DEF j
  <2> QED  BY <1>4
<1> HIDE DEF j
<1>6. loops[j] \in ManyOf(S)
  BY <1>5
<1>7. PICK x \in S : loops[j] = Many(x)
  BY <1>6 DEF ManyOf
<1>8. loops[j].next = 0 /\ loops[j].ops = x
  BY <1>7 DEF Many
<1> QED  BY <1>1, <1>5, <1>8

-----------------------------------------------------------------------------
(* The emitter's blocks.                                                   *)

\* The emitter has only come to another loop.
Moved(s, t) ==
    /\ IsEmitter(t) /\ t.loop \in Nat \ {0}
    /\ t.block = s.block /\ t.branches = s.branches /\ t.regs = s.regs /\ t.codes = s.codes
    /\ t.out = s.out /\ t.types = s.types /\ t.fields = s.fields
    /\ t.nglobals = s.nglobals /\ t.nfvs = s.nfvs /\ t.nargs = s.nargs

\* The emitter at the loop of the line l.
EmitterAt(s, l, kd) == Sought([s EXCEPT !.field = 0], EmitterLoops(s, kd), Group(l))

\* The emitter that finds a loop for the line has only moved, and the line's group is
\* one of those of its loops.
LEMMA EmitterSought ==
    ASSUME NEW s, NEW l, NEW kd, IsEmitter(s), s.loop \in Nat \ {0}, Alive(s),
           Alive(EmitterAt(s, l, kd))
    PROVE  /\ Moved(s, EmitterAt(s, l, kd))
           /\ \E x \in IF InProgram(s, kd) THEN EmitApiGroups ELSE EmitExprGroups : Group(l) \in x
<1> DEFINE u == [s EXCEPT !.field = 0]
           loops == EmitterLoops(s, kd)
           S == IF InProgram(s, kd) THEN EmitApiGroups ELSE EmitExprGroups
           k == NextLoop(loops, u.loop, Group(l))
           t == EmitterAt(s, l, kd)
<1>1. IsEmitter(u) /\ u.loop = s.loop /\ Alive(u)
  BY DEF IsEmitter, Alive
<1>2. t = IF k = 0 THEN Fatal(u, "order") ELSE [u EXCEPT !.loop = k + loops[k].next]
  BY DEF EmitterAt, Sought
<1>3. k # 0
  <2> HIDE DEF u, k
  <2> QED  BY <1>1, <1>2 DEF Fatal, IsEmitter, Alive
<1>4. loops \in Seq(ManyOf(S))
  BY EmitterLoopsAre
<1>5. k \in s.loop .. Len(loops) /\ loops[k].next = 0 /\ \E x \in S : Group(l) \in x
  <2> HIDE DEF S, loops
  <2> QED  BY <1>1, <1>3, <1>4, NextLoopIs
<1>6. k + loops[k].next \in Nat \ {0} /\ t = [u EXCEPT !.loop = k + loops[k].next]
  <2>1. Len(loops) \in Nat
    <3> HIDE DEF S, loops
    <3> QED  BY <1>4
  <2> HIDE DEF k, S, loops, u, t
  <2> QED  BY <1>2, <1>3, <1>5, <2>1
<1>7. Moved(s, t)
  <2> HIDE DEF k, S, loops, t
  <2> QED  BY <1>6 DEF Moved, IsEmitter
<1> QED  BY <1>5, <1>7

\* A statement's body is only read in an imperative program, a terminal and a branch
\* only elsewhere, and no loop reads the start of a case.
LEMMA EmitGroups ==
    ASSUME NEW s, NEW kd, NEW g,
           \E x \in IF InProgram(s, kd) THEN EmitApiGroups ELSE EmitExprGroups : g \in x
    PROVE  /\ g = "body" => InProgram(s, kd)
           /\ g \in {"terminal", "branch"} => ~InProgram(s, kd)
           /\ g \in {"tygvar", "subcode", "cogvar", "gvar", "tyfv", "tyarg", "exkarg", "tylet",
                         "fv", "karg", "fkarg", "arg", "alloc", "bind", "cast", "push",
                         "terminal", "branch", "body"}
  BY DEF EmitApiGroups, EmitExprGroups, EmitBodyGroups, GlobalGroups

\* The emitter t is s after a branch: its registers are saved in a new frame.
BranchesOut(s, t, l) ==
    /\ IsEmitter(t) /\ Alive(s)
    /\ t.block = IF l.op = ".analyze" THEN "cases" ELSE "default?"
    /\ t.branches = Append(s.branches, Saving(s, l))
    /\ t.regs = s.regs /\ t.codes = s.codes /\ t.out = s.out + BranchSize(l)
    /\ t.types = s.types /\ t.loop = s.loop

\* The emitter's two branches.
EmitBranch(s, l) == IF l.op = ".analyze" THEN EmitAnalyze(s, l) ELSE EmitDanalyze(s, l)

\* Each saves the registers and takes BranchSize bytes.
LEMMA EmitBranchBranches ==
    ASSUME NEW s, NEW l, IsEmitter(s), Alive(EmitBranch(s, l))
    PROVE  BranchesOut(s, EmitBranch(s, l), l)
<1> DEFINE u == Finds(s, l.args)
<1>0. IsEmitter(u) /\ (Alive(u) => u = s)
  BY FindsPasses
<1>1. CASE l.op = ".analyze"
  <2> DEFINE v == Emitted(u, AnalyzeSize(Len(l.names)))
  <2>1. EmitBranch(s, l) = StartBranch(v, l, Saving(s, l))
    BY <1>1 DEF EmitBranch, EmitAnalyze
  <2>2. IsEmitter(v) /\ (Alive(v) <=> Alive(u))
    BY <1>0, EmittedStays
  <2>3. Alive(v)
    <3> HIDE DEF v
    <3> QED  BY <2>1, <2>2 DEF StartBranch, IsEmitter, Alive
  <2>4. KeptIn(s, v, s.out + BranchSize(l))
    BY <1>0, <1>1, <2>2, <2>3, KeepsItself, EmittedKept DEF BranchSize
  <2> HIDE DEF v
  <2> QED  BY <2>1, <2>4 DEF StartBranch, KeptIn, Stays, BranchesOut, IsEmitter
<1>2. CASE l.op # ".analyze"
  <2> DEFINE w == Check(u, TypeOf(s, l.args[1]) # NoType, "no type")
             v == Emitted(w, DanalyzeSize(Len(l.names)))
  <2>1. EmitBranch(s, l) = StartBranch(v, l, Saving(s, l))
    BY <1>2 DEF EmitBranch, EmitDanalyze
  <2>2. IsEmitter(w) /\ (Alive(w) => w = u)
    BY <1>0, EmitterChecks
  <2> HIDE DEF w
  <2>3. IsEmitter(v) /\ (Alive(v) <=> Alive(w))
    BY <2>2, EmittedStays
  <2>4. Alive(v)
    <3> HIDE DEF v
    <3> QED  BY <2>1, <2>3 DEF StartBranch, IsEmitter, Alive
  <2>5. KeptIn(s, v, s.out + BranchSize(l))
    BY <1>0, <1>2, <2>2, <2>3, <2>4, KeepsItself, EmittedKept DEF BranchSize
  <2> HIDE DEF v
  <2> QED  BY <2>1, <2>5 DEF StartBranch, KeptIn, Stays, BranchesOut, IsEmitter
<1> QED  BY <1>1, <1>2

\* The emitter t is s at the start of a case: the frame has one case less left.
CaseOut(s, t, l) ==
    /\ IsEmitter(t) /\ Alive(s) /\ s.block = "cases" /\ l.op = ".case" /\ t.block = "case"
    /\ t.branches = [s.branches EXCEPT ![Len(s.branches)].left = @ - 1]
    /\ t.regs = s.regs /\ t.types = s.types /\ t.codes = s.codes /\ t.out = s.out /\ t.loop = 1

\* EmitCase starts a case.
LEMMA EmitCaseStarts ==
    ASSUME NEW s, NEW l, IsEmitter(s), Alive(EmitCase(s, l))
    PROVE  CaseOut(s, EmitCase(s, l), l)
<1> DEFINE t == Check(s, l.op = ".case" /\ s.block = "cases", "order")
           found == FindsConstr(s, l)
           u == Check(t, found, "constructor")
<1>1. EmitCase(s, l) = [StartCase(u) EXCEPT !.fields = <<>>]
  BY DEF EmitCase
<1> HIDE DEF found
<1>2. IsEmitter(u) /\ (Alive(u) => u = s /\ l.op = ".case" /\ s.block = "cases")
  <2>1. IsEmitter(t) /\ (Alive(t) => t = s /\ l.op = ".case" /\ s.block = "cases")
    BY EmitterChecks
  <2> HIDE DEF t
  <2>2. IsEmitter(u) /\ (Alive(u) => u = t)
    BY <2>1, EmitterChecks
  <2> HIDE DEF u
  <2> QED  BY <2>1, <2>2
<1> HIDE DEF u
<1>3. Alive(u)
  BY <1>1, <1>2 DEF StartCase, IsEmitter, Alive
<1> QED  BY <1>1, <1>2, <1>3 DEF StartCase, CaseOut, IsEmitter

\* The emitter t is s at the start of a default.
DefaultOut(s, t, l) ==
    /\ IsEmitter(t) /\ Alive(s) /\ s.block = "default?" /\ l.op = ".default" /\ t.block = "default"
    /\ t.branches = s.branches
    /\ t.regs = s.regs /\ t.types = s.types /\ t.codes = s.codes /\ t.out = s.out /\ t.loop = 1

\* EmitDefault starts a default.
LEMMA EmitDefaultStarts ==
    ASSUME NEW s, NEW l, IsEmitter(s), Alive(EmitDefault(s, l))
    PROVE  DefaultOut(s, EmitDefault(s, l), l)
<1> DEFINE u == Check(s, l.op = ".default" /\ s.block = "default?", "order")
<1>1. EmitDefault(s, l) = [StartDefault(u) EXCEPT !.fields = <<>>]
  BY DEF EmitDefault
<1>2. IsEmitter(u) /\ (Alive(u) => u = s /\ l.op = ".default" /\ s.block = "default?")
  BY EmitterChecks
<1> HIDE DEF u
<1>3. Alive(u)
  BY <1>1, <1>2 DEF StartDefault, IsEmitter, Alive
<1> QED  BY <1>1, <1>2, <1>3 DEF StartDefault, DefaultOut, IsEmitter

\* A terminal is written, and then the blocks end.
LEMMA EmitTerminalEnds ==
    ASSUME NEW s, NEW l, IsEmitter(s), IsSeq(s.branches), Known(l), Group(l) = "terminal",
           Alive(EmitTerminal(s, l))
    PROVE  \E u : /\ KeptIn(s, u, s.out + TerminalSize(l))
                  /\ EndsIn(u, EmitTerminal(s, l)) /\ RegsUnwind(u, EmitTerminal(s, l).regs)
<1> DEFINE u == EmitsTerminal(s, l)
<1>1. EmitTerminal(s, l) = EmitEnd(u)
  BY DEF EmitTerminal, EmitsTerminal
<1>2. IsEmitter(u) /\ u.branches = s.branches
  BY FindsPasses, EmittedStays DEF EmitsTerminal, EmitTerminalPrim, EmitReturn, Emitted, Finds,
     Check, Fatal, IsEmitter
<1> HIDE DEF u
<1>3. EndsIn(u, EmitEnd(u)) /\ RegsUnwind(u, EmitEnd(u).regs)
  BY <1>1, <1>2, EmitEndIs
<1>4. KeptIn(s, u, s.out + TerminalSize(l))
  BY <1>3, EmitsTerminalKeeps DEF EndsIn, u
<1> QED  BY <1>1, <1>3, <1>4

\* The body of a program is written, and then the program ends.
LEMMA EmitBodyEnds ==
    ASSUME NEW s, NEW l, IsEmitter(s), l.sub \in Subs, Alive(EmitBodyOp(s, l))
    PROVE  \E u : /\ KeptIn(s, u, s.out + StatementSize(l))
                  /\ EndsIn(u, EmitBodyOp(s, l)) /\ EmitBodyOp(s, l).regs = u.regs
<1> DEFINE u == EmitsBody(s, l)
<1>1. EmitBodyOp(s, l) = EndBlock(u)
  BY DEF EmitBodyOp, EmitsBody
<1>2. IsEmitter(u)
  BY FindsPasses, BothPass, EmittedStays DEF EmitsBody, Subs
<1> HIDE DEF u
<1>3. Alive(u) /\ EndsIn(u, EndBlock(u)) /\ EndBlock(u).regs = u.regs
  BY <1>1, <1>2 DEF EndBlock, EndsIn, IsEmitter, Alive
<1>4. KeptIn(s, u, s.out + StatementSize(l))
  BY <1>3, EmitsBodyKeeps DEF u
<1> QED  BY <1>1, <1>3, <1>4

-----------------------------------------------------------------------------
(* A step of the emitter.                                                  *)

\* The groups whose lines name no register.
Quiet == {"tygvar", "cogvar", "tyfv", "tyarg", "exkarg", "tylet", "cast", "push"}

\* What the emitter, at the loop of a line, does with it: it names a register or a
\* subcode, or neither, opens a branch, or ends blocks; each writes Grown bytes.
EmitterReadsAt(r, t, l, kd) ==
    \/ Names(l) /\ NamedIn(r, t, l, Grown(r.out, l))
    \/ Group(l) = "subcode" /\ CodedIn(r, t, l, Grown(r.out, l))
    \/ Group(l) \in Quiet /\ KeptIn(r, t, Grown(r.out, l))
    \/ Group(l) = "branch" /\ ~InProgram(r, kd) /\ BranchesOut(r, t, l)
    \/ /\ Group(l) = "terminal" /\ ~InProgram(r, kd)
       /\ \E u : KeptIn(r, u, Grown(r.out, l)) /\ EndsIn(u, t) /\ RegsUnwind(u, t.regs)
    \/ /\ Group(l) = "body" /\ InProgram(r, kd)
       /\ \E u : KeptIn(r, u, Grown(r.out, l)) /\ EndsIn(u, t) /\ t.regs = u.regs

\* EmitOp does that, whatever the op.
LEMMA EmitOpReads ==
    ASSUME NEW r, NEW l, NEW kd, IsEmitter(r), IsSeq(r.branches), Known(l), Alive(EmitOp(r, l)),
           Group(l) = "body" => l.sub \in Subs,
           \E x \in IF InProgram(r, kd) THEN EmitApiGroups ELSE EmitExprGroups : Group(l) \in x
    PROVE  EmitterReadsAt(r, EmitOp(r, l), l, kd)
<1> DEFINE g == Group(l)
           t == EmitOp(r, l)
<1> HIDE DEF t
<1>1. CASE g = "gvar"
  <2>1. t = EmitDataGvar(r, l)
    BY <1>1 DEF EmitOp, t
  <2>2. NamedIn(r, t, l, r.out + Word)
    BY <2>1, EmitGvarNames DEF t
  <2> QED  BY <1>1, <2>2 DEF EmitterReadsAt, Names, Grown, t
<1>2. CASE g = "fv"
  <2>1. t = EmitDataFv(r, l)
    BY <1>2 DEF EmitOp, t
  <2>2. NamedIn(r, t, l, r.out + (IF l.op = ".efv" THEN EfvSize ELSE 0))
    BY <2>1, EmitFvNames DEF t
  <2>3. Grown(r.out, l) = r.out + (IF l.op = ".efv" THEN EfvSize ELSE 0)
    BY <1>2 DEF Grown
  <2> QED  BY <1>2, <2>2, <2>3 DEF EmitterReadsAt, Names, t
<1>3. CASE g \in {"karg", "fkarg", "arg"}
  <2>1. t = EmitArg(r, l)
    BY <1>3 DEF EmitOp, t
  <2>2. NamedIn(r, t, l, r.out)
    BY <2>1, EmitArgNames DEF t
  <2> QED  BY <1>3, <2>2 DEF EmitterReadsAt, Names, Grown, t
<1>4. CASE g = "alloc"
  <2>1. t = EmitAlloc(r, l)
    BY <1>4 DEF EmitOp, t
  <2>2. NamedIn(r, t, l, r.out + AllocSize(l))
    BY <1>4, <2>1, EmitAllocKeeps DEF t
  <2> QED  BY <1>4, <2>2 DEF EmitterReadsAt, Names, Grown, t
<1>5. CASE g = "bind"
  <2>1. t = EmitBind(r, l)
    BY <1>5 DEF EmitOp, t
  <2>2. NamedIn(r, t, l, r.out + StatementSize(l))
    BY <2>1, EmitBindNames DEF t
  <2> QED  BY <1>5, <2>2 DEF EmitterReadsAt, Names, Grown, t
<1>6. CASE g = "subcode"
  <2>1. t = EmitSubcode(r, l)
    BY <1>6 DEF EmitOp, t
  <2>2. CodedIn(r, t, l, r.out + Word)
    BY <2>1, EmitSubcodeCodes DEF t
  <2> QED  BY <1>6, <2>2 DEF EmitterReadsAt, Grown, t
<1>7. CASE g \in {"tygvar", "tyfv", "tyarg", "exkarg", "tylet"}
  <2>1. t = TypeRegister(r)
    BY <1>7 DEF EmitOp, EmitTypeGvar, EmitTypeFv, EmitTypeArg, EmitTypeLet, t
  <2>2. KeptIn(r, t, r.out)
    BY <2>1, TypeRegisterKeeps DEF t
  <2> QED  BY <1>7, <2>2 DEF EmitterReadsAt, Grown, Quiet, t
<1>8. CASE g \in {"cogvar", "cast"}
  <2>1. t = r
    BY <1>8 DEF EmitOp, EmitCogvar, EmitCast, t
  <2>2. KeptIn(r, t, r.out)
    BY <2>1, KeepsItself DEF t
  <2> QED  BY <1>8, <2>2 DEF EmitterReadsAt, Grown, Quiet, t
<1>9. CASE g = "push"
  <2>1. t = EmitPush(r, l)
    BY <1>9 DEF EmitOp, t
  <2>2. KeptIn(r, t, r.out + PushSize(l))
    BY <1>9, <2>1, EmitPushKeeps DEF t
  <2> QED  BY <1>9, <2>2 DEF EmitterReadsAt, Grown, Quiet, t
<1>10. CASE g = "branch"
  <2>1. t = EmitBranch(r, l)
    BY <1>10 DEF EmitOp, EmitBranch, t
  <2>2. BranchesOut(r, t, l)
    BY <1>10, <2>1, EmitBranchBranches DEF t
  <2> QED  BY <1>10, <2>2, EmitGroups DEF EmitterReadsAt, t
<1>11. CASE g = "terminal"
  <2>1. t = EmitTerminal(r, l)
    BY <1>11 DEF EmitOp, t
  <2>2. \E u : KeptIn(r, u, r.out + TerminalSize(l)) /\ EndsIn(u, t) /\ RegsUnwind(u, t.regs)
    BY <1>11, <2>1, EmitTerminalEnds DEF t
  <2>3. Grown(r.out, l) = r.out + TerminalSize(l)
    BY <1>11 DEF Grown
  <2>4. ~InProgram(r, kd)
    BY <1>11, EmitGroups
  <2> QED  BY <1>11, <2>2, <2>3, <2>4 DEF EmitterReadsAt, t
<1>12. CASE g = "body"
  <2>1. t = EmitBodyOp(r, l)
    BY <1>12 DEF EmitOp, t
  <2>2. \E u : KeptIn(r, u, r.out + StatementSize(l)) /\ EndsIn(u, t) /\ t.regs = u.regs
    BY <1>12, <2>1, EmitBodyEnds DEF t
  <2>3. Grown(r.out, l) = r.out + StatementSize(l)
    BY <1>12 DEF Grown
  <2>4. InProgram(r, kd)
    BY <1>12, EmitGroups
  <2> QED  BY <1>12, <2>2, <2>3, <2>4 DEF EmitterReadsAt, t
<1> QED  BY <1>1, <1>2, <1>3, <1>4, <1>5, <1>6, <1>7, <1>8, <1>9, <1>10, <1>11, <1>12,
            EmitGroups DEF t

\* What the emitter does with a line: it starts a case or a default, or moves to the
\* line's loop and reads it there.
EmitterStep(s, t, l, kd) ==
    \/ CaseOut(s, t, l)
    \/ DefaultOut(s, t, l)
    \/ /\ l.op \notin {".case", ".default"}
       /\ \E r : Moved(s, r) /\ EmitterReadsAt(r, t, l, kd)

\* An emitter that is not stopped by a line does one of these.
LEMMA EmitterSteps ==
    ASSUME NEW s, NEW l, NEW kd, IsEmitter(s), IsSeq(s.branches), s.loop \in Nat \ {0}, Known(l),
           Group(l) = "body" => l.sub \in Subs, Alive(EmitterReads(s, l, kd))
    PROVE  EmitterStep(s, EmitterReads(s, l, kd), l, kd) /\ Alive(s)
<1> DEFINE t == EmitterReads(s, l, kd)
           r == EmitterAt(s, l, kd)
<1>1. Alive(s)
  BY DEF EmitterReads, Alive
<1>2. CASE l.op = ".case"
  <2>1. t = EmitCase(s, l)
    BY <1>1, <1>2 DEF EmitterReads, Alive
  <2> QED  BY <1>1, <2>1, EmitCaseStarts DEF EmitterStep
<1>3. CASE l.op = ".default"
  <2>1. t = EmitDefault(s, l)
    BY <1>1, <1>3 DEF EmitterReads, Alive
  <2> QED  BY <1>1, <2>1, EmitDefaultStarts DEF EmitterStep
<1>4. CASE l.op \notin {".case", ".default"}
  <2>1. t = IF r.fatal # "" THEN r ELSE EmitOp(r, l)
    BY <1>1, <1>4 DEF EmitterReads, EmitterAt, Alive
  <2>2. Alive(r) /\ t = EmitOp(r, l)
    <3> HIDE DEF r
    <3> QED  BY <2>1 DEF Alive
  <2>3. /\ Moved(s, r) /\ IsEmitter(r) /\ r.branches = s.branches
        /\ \E x \in IF InProgram(s, kd) THEN EmitApiGroups ELSE EmitExprGroups : Group(l) \in x
    BY <1>1, <2>2, EmitterSought DEF Moved
  <2>4. InProgram(r, kd) <=> InProgram(s, kd)
    BY <2>3 DEF InProgram, Moved
  <2>5. EmitterReadsAt(r, t, l, kd)
    <3> HIDE DEF r
    <3> QED  BY <2>2, <2>3, <2>4, EmitOpReads
  <2> QED  BY <1>1, <1>4, <2>3, <2>5 DEF EmitterStep
<1> QED  BY <1>2, <1>3, <1>4

-----------------------------------------------------------------------------
(* The size pass, op by op.                                                *)

\* The size pass is a record of its fields, whatever is in them.
IsSizer(s) == DOMAIN s = {"block", "loop", "fatal", "branches", "size", "nregs", "codes"}

\* The frames stay a sequence.
Framed(s, t) == IsSeq(s.branches) => IsSeq(t.branches)

\* The size pass s has become t, with a size of n.
SizeIs(s, t, n) == IsSizer(t) /\ Alive(s) /\ Framed(s, t) /\ t.size = n

\* What the size pass takes up again from the frame of a block that ends.
SizeRestored(u, frame) == [u EXCEPT !.nregs = frame.nregs]

\* The size pass after a sequence of frames has been taken up again.
SizeUnwound(s, seq) == FoldLeft(SizeRestored, s, seq)

\* That fold, one frame after the other.
LEMMA SizeUnrolls ==
    ASSUME NEW s, NEW seq, NEW n \in Nat, Spans(seq, n)
    PROVE  \E f : /\ f[0] = s
                  /\ \A k \in 1 .. n : f[k] = SizeRestored(f[k - 1], seq[k])
                  /\ SizeUnwound(s, seq) = f[n]
<1> DEFINE Is(f, m) ==
      f = [t \in SUBSET (1 .. m) |-> IF t = {} THEN s
                                     ELSE SizeRestored(f[t \ {Max(t)}], seq[Max(t)])]
           T == {m \in 0 .. n : \E f : Is(f, m)}
<1>1. 0 \in T
  <2> DEFINE f == [t \in SUBSET (1 .. 0) |-> s]
  <2>1. Is(f, 0)
    OBVIOUS
  <2> QED  BY <2>1
<1>2. \A m \in 1 .. n : m - 1 \in T => m \in T
  <2> TAKE m \in 1 .. n
  <2> HAVE m - 1 \in T
  <2>1. PICK g : Is(g, m - 1)
    OBVIOUS
  <2> DEFINE f == [t \in SUBSET (1 .. m) |->
                      IF m \in t THEN SizeRestored(g[t \ {m}], seq[m]) ELSE g[t]]
  <2>2. ASSUME NEW t \in SUBSET (1 .. m)
        PROVE  f[t] = IF t = {} THEN s ELSE SizeRestored(f[t \ {Max(t)}], seq[Max(t)])
    <3>1. CASE m \in t
      <4>1. Max(t) = m
        <5>1. m \in Nat /\ t # {}
          BY <3>1
        <5> QED  BY <3>1, <5>1, MaxOfUpTo
      <4>2. t # {} /\ f[t \ {m}] = g[t \ {m}]
        BY <3>1
      <4> QED  BY <3>1, <4>1, <4>2
    <3>2. CASE m \notin t
      <4>1. t \in SUBSET (1 .. m - 1)
        BY <3>2
      <4>2. f[t] = g[t] /\ f[t \ {Max(t)}] = g[t \ {Max(t)}]
        BY <3>2
      <4>3. g[t] = IF t = {} THEN s ELSE SizeRestored(g[t \ {Max(t)}], seq[Max(t)])
        BY <2>1, <4>1
      <4> QED  BY <4>2, <4>3
    <3> QED  BY <3>1, <3>2
  <2>3. Is(f, m)
    <3> DEFINE h == [t \in SUBSET (1 .. m) |-> IF t = {} THEN s
                                     ELSE SizeRestored(f[t \ {Max(t)}], seq[Max(t)])]
    <3>1. \A t \in SUBSET (1 .. m) : f[t] = h[t]
      <4> HIDE DEF f
      <4> QED  BY <2>2
    <3> QED  BY <3>1
  <2> HIDE DEF f
  <2>4. m \in 0 .. n
    OBVIOUS
  <2> HIDE DEF Is
  <2> QED  BY <2>3, <2>4
<1>3. \E f : Is(f, n)
  <2> HIDE DEF T
  <2>1. n \in T
    BY <1>1, <1>2, UpTo
  <2> QED  BY <2>1 DEF T
<1> DEFINE iter == CHOOSE f : Is(f, n)
<1>4. Is(iter, n)
  BY <1>3
<1>5. SizeUnwound(s, seq) = iter[1 .. n]
  BY DEF Spans, SizeUnwound, FoldLeft, MapThenFoldSet
<1> HIDE DEF iter
<1> DEFINE f == [k \in 0 .. n |-> iter[1 .. k]]
<1>6. f[0] = s
  <2>1. 1 .. 0 = {} /\ {} \in SUBSET (1 .. n)
    OBVIOUS
  <2> QED  BY <1>4, <2>1
<1>7. ASSUME NEW k \in 1 .. n PROVE f[k] = SizeRestored(f[k - 1], seq[k])
  <2>1. Max(1 .. k) = k
    <3>1. k \in Nat /\ 1 .. k \in SUBSET (1 .. k) /\ 1 .. k # {} /\ k \in 1 .. k
      OBVIOUS
    <3> QED  BY <3>1, MaxOfUpTo
  <2>2. (1 .. k) \ {k} = 1 .. k - 1 /\ 1 .. k # {} /\ 1 .. k \in SUBSET (1 .. n)
    OBVIOUS
  <2>3. iter[1 .. k] = SizeRestored(iter[1 .. k - 1], seq[k])
    BY <1>4, <2>1, <2>2
  <2> QED  BY <2>3
<1>8. f[n] = iter[1 .. n]
  OBVIOUS
<1> HIDE DEF f
<1> QED  BY <1>5, <1>6, <1>7, <1>8

\* A check that is passed leaves the size pass as it is.
LEMMA SizerChecks ==
    ASSUME NEW s, NEW ok, NEW why, IsSizer(s), why # ""
    PROVE  LET t == Check(s, ok, why)
           IN  IsSizer(t) /\ (Alive(t) => t = s /\ ok)
  BY DEF Check, Fatal, IsSizer, Alive

\* So does looking up a subcode.
LEMMA KnownCodePasses ==
    ASSUME NEW s, NEW l, IsSizer(s)
    PROVE  LET t == KnownCode(s, l) IN IsSizer(t) /\ (Alive(t) => t = s)
  BY DEF KnownCode, Check, Fatal, IsSizer, Alive

\* So does looking at the alignment.
LEMMA AlignedPasses ==
    ASSUME NEW s, IsSizer(s)
    PROVE  LET t == Aligned(s) IN IsSizer(t) /\ (Alive(t) => t = s)
  BY DEF Aligned, Check, Fatal, IsSizer, Alive

\* Counting a register leaves the size.
LEMMA RegisterCounted ==
    ASSUME NEW s, IsSizer(s)
    PROVE  LET t == CountRegister(s) IN IsSizer(t) /\ (Alive(t) => SizeIs(s, t, s.size))
<1>1. CASE s.nregs >= MaxRegs
  BY <1>1 DEF CountRegister, Fatal, IsSizer, Alive
<1>2. CASE ~(s.nregs >= MaxRegs)
  BY <1>2 DEF CountRegister, SizeIs, Framed, IsSizer, Alive
<1> QED  BY <1>1, <1>2

\* Adding to the size stops no pass.
LEMMA SizedStays ==
    ASSUME NEW s, NEW n, IsSizer(s)
    PROVE  IsSizer(Sized(s, n)) /\ (Alive(Sized(s, n)) <=> Alive(s))
  BY DEF Sized, IsSizer, Alive

\* Sizes add up.
LEMMA SizedIs ==
    ASSUME NEW s, NEW t, NEW m, NEW n, SizeIs(s, t, m)
    PROVE  SizeIs(s, Sized(t, n), m + n)
  BY DEF Sized, SizeIs, Framed, IsSizer

\* A size pass that does nothing keeps its size.
LEMMA SizeItself ==
    ASSUME NEW s, IsSizer(s), Alive(s)
    PROVE  SizeIs(s, s, s.size)
  BY DEF SizeIs, Framed

\* A size added beside a register that is counted.
LEMMA SizedCounted ==
    ASSUME NEW s, NEW n, IsSizer(s), Alive(Sized(CountRegister(s), n))
    PROVE  SizeIs(s, Sized(CountRegister(s), n), s.size + n)
  BY RegisterCounted, SizedStays, SizedIs

\* A size added by itself.
LEMMA SizedHere ==
    ASSUME NEW s, NEW n, IsSizer(s), Alive(Sized(s, n))
    PROVE  SizeIs(s, Sized(s, n), s.size + n)
  BY SizeItself, SizedStays, SizedIs

\* A size added beside a subcode that is looked up.
LEMMA SizedCode ==
    ASSUME NEW s, NEW l, NEW n, IsSizer(s), Alive(Sized(KnownCode(s, l), n))
    PROVE  SizeIs(s, Sized(KnownCode(s, l), n), s.size + n)
  BY KnownCodePasses, SizeItself, SizedStays, SizedIs

\* A size added beside a register and a subcode.
LEMMA SizedCodeCounted ==
    ASSUME NEW s, NEW l, NEW n, IsSizer(s), Alive(Sized(KnownCode(CountRegister(s), l), n))
    PROVE  SizeIs(s, Sized(KnownCode(CountRegister(s), l), n), s.size + n)
  BY KnownCodePasses, RegisterCounted, SizedStays, SizedIs

\* The size pass takes a .subcode for a word.
LEMMA SizeSubcodeIs ==
    ASSUME NEW s, NEW l, IsSizer(s), Alive(SizeSubcode(s, l))
    PROVE  SizeIs(s, SizeSubcode(s, l), s.size + Word)
<1>1. CASE Len(s.codes) >= MaxRegs
  BY <1>1 DEF SizeSubcode, Fatal, IsSizer, Alive
<1>2. CASE ~(Len(s.codes) >= MaxRegs)
  <2> DEFINE t == Sized(Aligned(s), Word)
  <2>1. SizeSubcode(s, l) = [t EXCEPT !.codes = Append(@, l.code)]
    BY <1>2 DEF SizeSubcode
  <2>2. IsSizer(t) /\ (Alive(t) => SizeIs(s, t, s.size + Word))
    BY AlignedPasses, SizedStays, SizedHere
  <2> HIDE DEF t
  <2> QED  BY <2>1, <2>2 DEF SizeIs, Framed, IsSizer, Alive
<1> QED  BY <1>1, <1>2

\* And a global.
LEMMA SizeGvarIs ==
    ASSUME NEW s, NEW l, IsSizer(s), Alive(SizeDataGvar(s, l))
    PROVE  SizeIs(s, SizeDataGvar(s, l), s.size + Word)
  BY AlignedPasses, RegisterCounted, SizedStays, SizedIs DEF SizeDataGvar

\* An allocation of any op has AllocSize bytes for the size pass.
LEMMA SizeAllocIs ==
    ASSUME NEW s, NEW l, IsSizer(s), Known(l), Group(l) = "alloc", Alive(SizeAlloc(s, l))
    PROVE  SizeIs(s, SizeAlloc(s, l), s.size + AllocSize(l))
<1> DEFINE t == SizeAlloc(s, l)
<1>1. CASE l.op = ".closure"
  <2>1. t = Sized(KnownCode(CountRegister(s), l), AllocSize(l))
    BY <1>1 DEF SizeAlloc, SizeClosure, AllocSize
  <2> QED  BY <2>1, SizedCodeCounted
<1>2. CASE l.op \in {".constr", ".exconstr"}
  <2>1. t = Sized(s, AllocSize(l))
    BY <1>2 DEF SizeAlloc, SizeConstr, AllocSize
  <2> QED  BY <2>1, SizedHere
<1>3. CASE l.op = ".prim"
  <2>1. t = Sized(CountRegister(s), AllocSize(l))
    BY <1>3 DEF SizeAlloc, SizePrim, AllocSize
  <2> QED  BY <2>1, SizedCounted
<1>4. CASE l.op = ".impprim"
  <2>1. t = Sized(CountRegister(s), AllocSize(l))
    BY <1>4 DEF SizeAlloc, SizeImpprim, AllocSize
  <2> QED  BY <2>1, SizedCounted
<1>5. CASE l.op \in {".record", ".lrecord", ".field", ".lfield"}
  <2>1. t = Sized(CountRegister(s), AllocSize(l))
    BY <1>5 DEF SizeAlloc, SizeRecord, SizeField, AllocSize
  <2> QED  BY <2>1, SizedCounted
<1>6. CASE l.op \in {".undefined", ".appty", ".cast", ".lifted", ".apply"}
  <2>1. t = Sized(CountRegister(s), AllocSize(l))
    BY <1>6 DEF SizeAlloc, SizeUndefined, SizeAlias, SizeApply, AllocSize
  <2> QED  BY <2>1, SizedCounted
<1> QED  BY <1>1, <1>2, <1>3, <1>4, <1>5, <1>6, OpsOfGroups

\* A .bind has a statement's bytes.
LEMMA SizeBindIs ==
    ASSUME NEW s, NEW l, IsSizer(s), Known(l), Group(l) = "bind", Alive(SizeAlloc(s, l))
    PROVE  SizeIs(s, SizeAlloc(s, l), s.size + StatementSize(l))
<1> DEFINE t == SizeAlloc(s, l)
<1>0. l.op = ".bind"
  BY OpsOfGroups
<1>1. CASE l.sub = ".closure"
  <2>1. t = Sized(KnownCode(CountRegister(s), l), StatementSize(l))
    BY <1>0, <1>1 DEF SizeAlloc, SizeBindClosure, StatementSize
  <2> QED  BY <2>1, SizedCodeCounted
<1>2. CASE l.sub = ".apply"
  <2>1. t = Sized(CountRegister(s), StatementSize(l))
    BY <1>0, <1>2 DEF SizeAlloc, SizeBindApply, StatementSize
  <2> QED  BY <2>1, SizedCounted
<1>3. CASE l.sub \notin {".closure", ".apply"}
  BY <1>0, <1>3 DEF SizeAlloc, Fatal, IsSizer, Alive
<1> QED  BY <1>1, <1>2, <1>3

\* A continuation has PushSize bytes.
LEMMA SizePushIs ==
    ASSUME NEW s, NEW l, IsSizer(s), Known(l), Group(l) = "push", Alive(SizePush(s, l))
    PROVE  SizeIs(s, SizePush(s, l), s.size + PushSize(l))
<1> DEFINE t == SizePush(s, l)
<1>1. CASE l.op = ".app"
  <2>1. t = Sized(s, PushSize(l))
    BY <1>1 DEF SizePush, PushSize
  <2> QED  BY <2>1, SizedHere
<1>2. CASE l.op \in {".force", ".strict"}
  <2>1. t = Sized(KnownCode(s, l), PushSize(l))
    BY <1>2 DEF SizePush, PushSize
  <2> QED  BY <2>1, SizedCode
<1>3. CASE l.op = ".ubanalyze"
  <2> DEFINE u == Check(s, l.names # <<>>, "cases")
  <2>1. t = Sized(KnownCode(u, l), PushSize(l))
    BY <1>3 DEF SizePush, PushSize
  <2>2. IsSizer(u) /\ (Alive(u) => u = s)
    BY SizerChecks
  <2> HIDE DEF u
  <2>3. u = s
    BY <2>1, <2>2, KnownCodePasses, SizedStays
  <2> QED  BY <2>1, <2>3, SizedCode
<1> QED  BY <1>1, <1>2, <1>3, OpsOfGroups

\* What SizeTerminal counts before it ends the block.
SizesTerminal(s, l) ==
    CASE l.op \in {".yield", ".enter", ".undef"} -> SizeReturn(s, l)
      [] l.op \in {".ubprim", ".lprim"} -> SizeTerminalPrim(s, l)
      [] l.op = ".body" -> SizeBody(s, l)

\* The size of what ends a block.
EndSize(l) == IF l.op = ".body" THEN StatementSize(l) ELSE TerminalSize(l)

\* That is what it counts.
LEMMA SizesTerminalIs ==
    ASSUME NEW s, NEW l, IsSizer(s), Known(l), Group(l) \in {"terminal", "body"},
           Group(l) = "body" => l.sub \in Subs
    PROVE  /\ IsSizer(SizesTerminal(s, l))
           /\ Alive(SizesTerminal(s, l)) => SizeIs(s, SizesTerminal(s, l), s.size + EndSize(l))
<1> DEFINE t == SizesTerminal(s, l)
<1>1. CASE l.op \in {".yield", ".enter", ".undef"}
  <2>1. t = Sized(s, EndSize(l))
    BY <1>1 DEF SizesTerminal, SizeReturn, EndSize, TerminalSize
  <2> QED  BY <2>1, SizedHere, SizedStays
<1>2. CASE l.op \in {".ubprim", ".lprim"}
  <2>1. t = Sized(s, EndSize(l))
    BY <1>2 DEF SizesTerminal, SizeTerminalPrim, EndSize, TerminalSize
  <2> QED  BY <2>1, SizedHere, SizedStays
<1>3. CASE l.op = ".body" /\ l.sub = ".closure"
  <2>1. t = Sized(KnownCode(s, l), EndSize(l))
    BY <1>3 DEF SizesTerminal, SizeBody, EndSize, StatementSize
  <2> QED  BY <2>1, SizedCode, KnownCodePasses, SizedStays
<1>4. CASE l.op = ".body" /\ l.sub \in {".undefined", ".appty"}
  <2>1. t = Sized(s, EndSize(l))
    BY <1>4 DEF SizesTerminal, SizeBody, EndSize, StatementSize
  <2> QED  BY <2>1, SizedHere, SizedStays
<1>5. CASE l.op = ".body" /\ l.sub = ".apply"
  <2>1. t = Sized(CountRegister(s), EndSize(l))
    BY <1>5 DEF SizesTerminal, SizeBody, EndSize, StatementSize
  <2> QED  BY <2>1, SizedCounted, RegisterCounted, SizedStays
<1> QED  BY <1>1, <1>2, <1>3, <1>4, <1>5, OpsOfGroups DEF Subs

\* Ending the block leaves the size.
LEMMA SizeTerminalIs ==
    ASSUME NEW s, NEW l, IsSizer(s), IsSeq(s.branches), Known(l), Group(l) \in {"terminal", "body"},
           Group(l) = "body" => l.sub \in Subs, Alive(SizeTerminal(s, l))
    PROVE  SizeIs(s, SizeTerminal(s, l), s.size + EndSize(l))
<1> DEFINE n == Ended(s)
           t == SizesTerminal(s, l)
           v == SizeUnwound(t, Ending(s))
<1>1. n \in Nat /\ Spans(Ending(s), n)
  BY EndingIs
<1>2. SizeTerminal(s, l) = EndBlock(v)
  BY DEF SizeTerminal, SizesTerminal, SizeUnwound, SizeRestored, FoldLeft, MapThenFoldSet
<1>3. PICK f : /\ f[0] = t
               /\ \A k \in 1 .. n : f[k] = SizeRestored(f[k - 1], Ending(s)[k])
               /\ SizeUnwound(t, Ending(s)) = f[n]
  <2> HIDE DEF n, t
  <2> QED  BY <1>1, SizeUnrolls
<1> DEFINE Like(u) == IsSizer(u) /\ u.fatal = t.fatal /\ u.size = t.size /\ u.branches = t.branches
           T == {k \in 0 .. n : Like(f[k])}
<1>0. IsSizer(t) /\ (Alive(t) => SizeIs(s, t, s.size + EndSize(l)))
  BY SizesTerminalIs
<1>4. 0 \in T
  BY <1>0, <1>1, <1>3
<1>5. \A k \in 1 .. n : k - 1 \in T => k \in T
  <2> TAKE k \in 1 .. n
  <2> HAVE k - 1 \in T
  <2> HIDE DEF t
  <2>1. f[k] = SizeRestored(f[k - 1], Ending(s)[k]) /\ Like(f[k - 1])
    BY <1>3
  <2>2. Like(f[k])
    BY <2>1 DEF SizeRestored, IsSizer
  <2> QED  BY <2>2
<1>6. n \in T
  <2> HIDE DEF T, n
  <2> QED  BY <1>1, <1>4, <1>5, UpTo
<1>7. Like(v)
  <2> HIDE DEF t
  <2> QED  BY <1>3, <1>6
<1> HIDE DEF v
<1>8. LET u == EndBlock(v)
      IN  /\ IsSizer(u) /\ u.fatal = v.fatal /\ u.size = v.size
          /\ u.branches = SubSeq(v.branches, 1, StillIn(v))
  <2>1. IsSizer(v)
    BY <1>7
  <2> QED  BY <2>1 DEF EndBlock, IsSizer
<1>9. Alive(t)
  <2> HIDE DEF t
  <2> QED  BY <1>2, <1>7, <1>8 DEF Alive
<1> HIDE DEF t
<1>10. IsSeq(t.branches) /\ IsSeq(v.branches)
  BY <1>0, <1>7, <1>9 DEF SizeIs, Framed
<1>11. IsSeq(EndBlock(v).branches)
  BY <1>8, <1>10, FramesPrefix, StillInIs
<1> QED  BY <1>0, <1>2, <1>7, <1>8, <1>9, <1>11 DEF SizeIs, Framed

\* A branch has BranchSize bytes.
LEMMA SizeBranchIs ==
    ASSUME NEW s, NEW l, IsSizer(s), Alive(SizeBranch(s, l))
    PROVE  SizeIs(s, SizeBranch(s, l), s.size + BranchSize(l))
<1> DEFINE u == IF l.op = ".analyze" THEN SizeAnalyze(s, l) ELSE SizeDanalyze(s, l)
<1>1. u = Sized(s, BranchSize(l))
  BY DEF SizeAnalyze, SizeDanalyze, BranchSize
<1>2. SizeBranch(s, l) = StartBranch(u, l, [left |-> Len(l.names), nregs |-> s.nregs])
  BY DEF SizeBranch
<1>3. IsSizer(u) /\ (Alive(u) => SizeIs(s, u, s.size + BranchSize(l)))
  BY <1>1, SizedStays, SizedHere
<1> HIDE DEF u
<1> DEFINE frame == [left |-> Len(l.names), nregs |-> s.nregs]
           t == SizeBranch(s, l)
<1>4. /\ IsSizer(t) /\ t.fatal = u.fatal /\ t.size = u.size
      /\ t.branches = Append(u.branches, frame)
  BY <1>2, <1>3 DEF StartBranch, IsSizer
<1>5. Framed(u, t)
  BY <1>4, FramesAppend DEF Framed
<1> HIDE DEF t
<1>6. SizeIs(s, t, s.size + BranchSize(l))
  BY <1>3, <1>4, <1>5 DEF SizeIs, Framed, Alive, t
<1> QED  BY <1>6 DEF t

\* The start of a case has none.
LEMMA SizeCaseIs ==
    ASSUME NEW s, NEW l, IsSizer(s), Alive(SizeCase(s, l))
    PROVE  SizeIs(s, SizeCase(s, l), s.size)
<1> DEFINE u == Check(s, l.op = ".case" /\ s.block = "cases", "order")
<1>1. IsSizer(u) /\ (Alive(u) => u = s)
  BY SizerChecks
<1>2. SizeCase(s, l) = StartCase(u)
  BY DEF SizeCase
<1> HIDE DEF u
<1> DEFINE t == SizeCase(s, l)
           n == Len(u.branches)
           frame == [u.branches[n] EXCEPT !.left = u.branches[n].left - 1]
<1>3. /\ IsSizer(t) /\ t.fatal = u.fatal /\ t.size = u.size
      /\ t.branches = [u.branches EXCEPT ![n] = frame]
  BY <1>1, <1>2 DEF StartCase, IsSizer
<1> HIDE DEF t, frame, n
<1>4. Framed(u, t)
  <2>1. IsSeq(u.branches) => IsSeq([u.branches EXCEPT ![n] = frame])
    BY FramesExcept, Zenon
  <2> QED  BY <1>3, <2>1, Zenon DEF Framed
<1>5. SizeIs(s, t, s.size)
  BY <1>1, <1>3, <1>4 DEF SizeIs, Framed, Alive, t
<1> QED  BY <1>5 DEF t

\* Nor has that of a default.
LEMMA SizeDefaultIs ==
    ASSUME NEW s, NEW l, IsSizer(s), Alive(SizeDefault(s, l))
    PROVE  SizeIs(s, SizeDefault(s, l), s.size)
<1> DEFINE u == Check(s, l.op = ".default" /\ s.block = "default?", "order")
<1>1. IsSizer(u) /\ (Alive(u) => u = s)
  BY SizerChecks
<1>2. SizeDefault(s, l) = StartDefault(u)
  BY DEF SizeDefault
<1> HIDE DEF u
<1> QED  BY <1>1, <1>2 DEF StartDefault, SizeIs, Framed, IsSizer, Alive

-----------------------------------------------------------------------------
(* A step of the size pass.                                                *)

\* A free variable has no bytes, unless it is an .efv.
LEMMA SizeFvIs ==
    ASSUME NEW s, NEW l, IsSizer(s), Alive(SizeDataFv(s, l))
    PROVE  SizeIs(s, SizeDataFv(s, l), s.size + (IF l.op = ".efv" THEN EfvSize ELSE 0))
  BY SizedCounted DEF SizeDataFv

\* The size pass adds to its size what the line's group has, Grown.
LEMMA SizeOpIs ==
    ASSUME NEW s, NEW l, IsSizer(s), IsSeq(s.branches), Known(l),
           Group(l) \notin {"case", "default"},
           Group(l) = "body" => l.sub \in Subs, Alive(SizeOp(s, l))
    PROVE  SizeIs(s, SizeOp(s, l), Grown(s.size, l))
<1> DEFINE g == Group(l)
           t == SizeOp(s, l)
<1> HIDE DEF t
<1>1. CASE g = "gvar"
  <2>1. t = SizeDataGvar(s, l)
    BY <1>1 DEF SizeOp, t
  <2>2. SizeIs(s, t, s.size + Word)
    BY <2>1, SizeGvarIs DEF t
  <2> QED  BY <1>1, <2>2 DEF Grown, t
<1>2. CASE g = "fv"
  <2>1. t = SizeDataFv(s, l)
    BY <1>2 DEF SizeOp, t
  <2>2. SizeIs(s, t, s.size + (IF l.op = ".efv" THEN EfvSize ELSE 0))
    BY <2>1, SizeFvIs DEF t
  <2>3. Grown(s.size, l) = s.size + (IF l.op = ".efv" THEN EfvSize ELSE 0)
    BY <1>2 DEF Grown
  <2> QED  BY <2>2, <2>3 DEF t
<1>3. CASE g \in {"karg", "fkarg", "arg"}
  <2>1. t = CountRegister(s)
    BY <1>3 DEF SizeOp, SizeContArg, SizeArg, t
  <2>2. SizeIs(s, t, s.size)
    BY <2>1, RegisterCounted DEF t
  <2> QED  BY <1>3, <2>2 DEF Grown, t
<1>4. CASE g = "alloc"
  <2>1. t = SizeAlloc(s, l)
    BY <1>4 DEF SizeOp, t
  <2>2. SizeIs(s, t, s.size + AllocSize(l))
    BY <1>4, <2>1, SizeAllocIs DEF t
  <2> QED  BY <1>4, <2>2 DEF Grown, t
<1>5. CASE g = "bind"
  <2>1. t = SizeAlloc(s, l)
    BY <1>5 DEF SizeOp, t
  <2>2. SizeIs(s, t, s.size + StatementSize(l))
    BY <1>5, <2>1, SizeBindIs DEF t
  <2> QED  BY <1>5, <2>2 DEF Grown, t
<1>6. CASE g = "subcode"
  <2>1. t = SizeSubcode(s, l)
    BY <1>6 DEF SizeOp, t
  <2>2. SizeIs(s, t, s.size + Word)
    BY <2>1, SizeSubcodeIs DEF t
  <2> QED  BY <1>6, <2>2 DEF Grown, t
<1>7. CASE g \in {"tygvar", "cogvar", "tyfv", "tyarg", "exkarg", "tylet", "cast"}
  <2>1. t = s
    BY <1>7 DEF SizeOp, SizeTypeGvar, SizeCogvar, SizeTypeFv, SizeTypeArg, SizeContTypeArg,
                SizeTypeLet, SizeCast, t
  <2>2. SizeIs(s, t, s.size)
    BY <2>1, SizeItself DEF t
  <2> QED  BY <1>7, <2>2 DEF Grown, t
<1>8. CASE g = "push"
  <2>1. t = SizePush(s, l)
    BY <1>8 DEF SizeOp, t
  <2>2. SizeIs(s, t, s.size + PushSize(l))
    BY <1>8, <2>1, SizePushIs DEF t
  <2> QED  BY <1>8, <2>2 DEF Grown, t
<1>9. CASE g = "branch"
  <2>1. t = SizeBranch(s, l)
    BY <1>9 DEF SizeOp, t
  <2>2. SizeIs(s, t, s.size + BranchSize(l))
    BY <2>1, SizeBranchIs DEF t
  <2> QED  BY <1>9, <2>2 DEF Grown, t
<1>10. CASE g \in {"terminal", "body"}
  <2>1. t = SizeTerminal(s, l)
    BY <1>10 DEF SizeOp, t
  <2>2. SizeIs(s, t, s.size + EndSize(l))
    BY <1>10, <2>1, SizeTerminalIs DEF t
  <2>3. Grown(s.size, l) = s.size + EndSize(l)
    BY <1>10, OpsOfGroups DEF Grown, EndSize
  <2> QED  BY <2>2, <2>3 DEF t
<1> QED  BY <1>1, <1>2, <1>3, <1>4, <1>5, <1>6, <1>7, <1>8, <1>9, <1>10, OpsOfGroups DEF t

\* Looking for the loop of a line leaves the size and the frames.
LEMMA SizerSought ==
    ASSUME NEW s, NEW loops, NEW g, IsSizer(s), Alive(Sought(s, loops, g))
    PROVE  LET t == Sought(s, loops, g)
           IN  IsSizer(t) /\ Alive(s) /\ t.size = s.size /\ t.branches = s.branches
<1> DEFINE k == NextLoop(loops, s.loop, g)
           n == k + loops[k].next
<1>1. Sought(s, loops, g) = IF k = 0 THEN Fatal(s, "order") ELSE [s EXCEPT !.loop = n]
  BY DEF Sought
<1> HIDE DEF k, n
<1>2. IsSizer(Fatal(s, "order")) /\ ~Alive(Fatal(s, "order"))
  BY DEF Fatal, IsSizer, Alive
<1>3. LET t == [s EXCEPT !.loop = n]
      IN  IsSizer(t) /\ t.fatal = s.fatal /\ t.size = s.size /\ t.branches = s.branches
  BY DEF IsSizer
<1> QED  BY <1>1, <1>2, <1>3 DEF Alive

\* The start of a case or of a default is a group of its own.
LEMMA StartsAreNoOps ==
    ASSUME NEW l, Known(l)
    PROVE  /\ Group(l) = "case" <=> l.op = ".case"
           /\ Group(l) = "default" <=> l.op = ".default"
<1>1. Group(l) = "case" => l.op = ".case"
  BY OpsOfGroups
<1>2. Group(l) = "default" => l.op = ".default"
  BY OpsOfGroups
<1>3. l.op = ".case" => Group(l) = "case"
  <2> SUFFICES ASSUME l.op = ".case" PROVE Group(l) = "case"
    OBVIOUS
  <2> QED  BY GroupOf DEF Ops
<1>4. l.op = ".default" => Group(l) = "default"
  <2> SUFFICES ASSUME l.op = ".default" PROVE Group(l) = "default"
    OBVIOUS
  <2> QED  BY GroupOf DEF Ops
<1> QED  BY <1>1, <1>2, <1>3, <1>4

\* A size pass that is not stopped by a line has grown by the line's size.
LEMMA SizerSteps ==
    ASSUME NEW s, NEW l, IsSizer(s), IsSeq(s.branches), Known(l),
           Group(l) = "body" => l.sub \in Subs, Alive(SizerReads(s, l))
    PROVE  SizeIs(s, SizerReads(s, l), Grown(s.size, l))
<1> DEFINE t == SizerReads(s, l)
           r == Sought(s, SizerLoops(s), Group(l))
<1>1. Alive(s)
  BY DEF SizerReads, Alive
<1>2. CASE l.op = ".case"
  <2>1. t = SizeCase(s, l)
    BY <1>1, <1>2 DEF SizerReads, Alive
  <2>2. Grown(s.size, l) = s.size
    BY <1>2, StartsAreNoOps DEF Grown
  <2> QED  BY <2>1, <2>2, SizeCaseIs
<1>3. CASE l.op = ".default"
  <2>1. t = SizeDefault(s, l)
    BY <1>1, <1>3 DEF SizerReads, Alive
  <2>2. Grown(s.size, l) = s.size
    BY <1>3, StartsAreNoOps DEF Grown
  <2> QED  BY <2>1, <2>2, SizeDefaultIs
<1>4. CASE l.op \notin {".case", ".default"}
  <2>1. t = IF r.fatal # "" THEN r ELSE SizeOp(r, l)
    BY <1>1, <1>4 DEF SizerReads, Alive
  <2>2. Alive(r) /\ t = SizeOp(r, l)
    <3> HIDE DEF r
    <3> QED  BY <2>1 DEF Alive
  <2>3. IsSizer(r) /\ r.size = s.size /\ r.branches = s.branches
    BY <2>2, SizerSought
  <2>4. Group(l) \notin {"case", "default"}
    BY <1>4, StartsAreNoOps
  <2> HIDE DEF r
  <2>5. SizeIs(r, t, Grown(r.size, l))
    BY <2>2, <2>3, <2>4, SizeOpIs
  <2> QED  BY <1>1, <2>3, <2>5 DEF SizeIs, Framed
<1> QED  BY <1>2, <1>3, <1>4

-----------------------------------------------------------------------------
(* The parser: what it lets through.                                       *)

\* The parser is a record of its fields, whatever is in them.
IsParser(s) == DOMAIN s = {"block", "loop", "fatal", "branches"}

\* A check that is passed leaves the parser as it is.
LEMMA ParserChecks ==
    ASSUME NEW s, NEW ok, NEW why, IsParser(s), why # ""
    PROVE  LET t == Check(s, ok, why)
           IN  IsParser(t) /\ (Alive(t) => t = s /\ ok)
  BY DEF Check, Fatal, IsParser, Alive

\* Looking at the label of a line makes nothing else of a parser.
LEMMA LabelsPass ==
    ASSUME NEW s, NEW l, IsParser(s)
    PROVE  IsParser(Labelled(s, l)) /\ IsParser(Unlabelled(s, l))
  BY DEF Labelled, Unlabelled, Check, Fatal, IsParser

\* Nor does a check behind that.
LEMMA LabelChecked ==
    ASSUME NEW s, NEW l, NEW ok, NEW why, IsParser(s), why # ""
    PROVE  IsParser(Check(Labelled(s, l), ok, why))
<1> DEFINE u == Labelled(s, l)
<1>1. IsParser(u)
  BY LabelsPass
<1> HIDE DEF u
<1>2. IsParser(Check(u, ok, why))
  BY <1>1, ParserChecks
<1> QED  BY <1>2 DEF u

\* Nor do the starts and ends of blocks.
LEMMA ParserMoves ==
    ASSUME NEW s, NEW l, NEW frame, IsParser(s)
    PROVE  /\ IsParser(EndBlock(s)) /\ (Alive(EndBlock(s)) => Alive(s))
           /\ IsParser(StartBranch(s, l, frame))
           /\ IsParser(StartCase(s)) /\ (Alive(StartCase(s)) => Alive(s))
           /\ IsParser(StartDefault(s)) /\ (Alive(StartDefault(s)) => Alive(s))
  BY DEF EndBlock, StartBranch, StartCase, StartDefault, IsParser, Alive

\* An allocation of a thunk is parsed.
LEMMA ThunkParsed ==
    ASSUME NEW s, NEW l, NEW sub, IsParser(s)
    PROVE  IsParser(ParseThunkAlloc(s, l, sub))
  BY ParserChecks DEF ParseThunkAlloc

\* And one of a value.
LEMMA ValueParsed ==
    ASSUME NEW s, NEW l, IsParser(s), Known(l), Group(l) = "alloc", l.op \notin ThunkAllocs
    PROVE  IsParser(ParseValueAlloc(s, l))
<1> DEFINE t == ParseValueAlloc(s, l)
<1> HIDE DEF t
<1>1. CASE l.op \in {".prim", ".impprim"}
  <2> DEFINE ok == l.type # NoType
  <2>1. t = Check(Labelled(s, l), ok, "arguments")
    BY <1>1 DEF ParseValueAlloc, ParsePrim, t
  <2> HIDE DEF ok
  <2> QED  BY <2>1, LabelChecked DEF t
<1>2. CASE l.op \in {".constr", ".exconstr"}
  <2> DEFINE ok == l.type # NoType /\ l.names # <<>> /\ Len(l.args) = Len(l.names) - 1
  <2>1. t = Check(s, ok, "arguments")
    BY <1>2 DEF ParseValueAlloc, ParseConstr, t
  <2> HIDE DEF ok
  <2> QED  BY <2>1, ParserChecks DEF t
<1>3. CASE l.op \in {".record", ".lrecord"}
  <2> DEFINE ok == Len(l.args) = Len(l.names)
  <2>1. t = Check(s, ok, "arguments")
    BY <1>3 DEF ParseValueAlloc, ParseRecord, t
  <2> HIDE DEF ok
  <2> QED  BY <2>1, ParserChecks DEF t
<1>4. CASE l.op = ".field"
  <2> DEFINE ok == l.names # <<>> /\ l.args # <<>>
  <2>1. t = Check(s, ok, "arguments")
    BY <1>4 DEF ParseValueAlloc, t
  <2> HIDE DEF ok
  <2> QED  BY <2>1, ParserChecks DEF t
<1>5. CASE l.op = ".lifted"
  <2> DEFINE ok == Len(l.args) = 1
  <2>1. t = Check(s, ok, "arguments")
    BY <1>5 DEF ParseValueAlloc, t
  <2> HIDE DEF ok
  <2> QED  BY <2>1, ParserChecks DEF t
<1>6. CASE l.op = ".cast"
  <2> DEFINE ok == l.args # <<>> /\ l.type # NoType
  <2>1. t = Check(s, ok, "arguments")
    BY <1>6 DEF ParseValueAlloc, t
  <2> HIDE DEF ok
  <2> QED  BY <2>1, ParserChecks DEF t
<1> QED  BY <1>1, <1>2, <1>3, <1>4, <1>5, <1>6, OpsOfGroups DEF t, ThunkAllocs

\* And so every allocation.
LEMMA AllocParsed ==
    ASSUME NEW s, NEW l, NEW kd, IsParser(s), Known(l), Group(l) = "alloc"
    PROVE  IsParser(ParseAlloc(s, l, kd))
<1>1. IsParser(Fatal(s, "order"))
  BY DEF Fatal, IsParser
<1> QED  BY <1>1, ThunkParsed, ValueParsed DEF ParseAlloc

\* A statement that is parsed has one of the sub-ops of Subs.
LEMMA StatementParsed ==
    ASSUME NEW s, NEW l, IsParser(s)
    PROVE  /\ IsParser(ParseBindOrBody(s, l))
           /\ Alive(ParseBindOrBody(s, l)) => l.sub \in Subs
<1>1. IsParser(Fatal(s, "sub-op")) /\ ~Alive(Fatal(s, "sub-op"))
  BY DEF Fatal, IsParser, Alive
<1> QED  BY <1>1, ThunkParsed DEF ParseBindOrBody, ThunkAllocs, Subs

\* A continuation is parsed.
LEMMA PushParsed ==
    ASSUME NEW s, NEW l, IsParser(s)
    PROVE  IsParser(ParseContPush(s, l))
  BY LabelsPass, ParserChecks DEF ParseContPush

\* A terminal is parsed.
LEMMA TerminalParsed ==
    ASSUME NEW s, NEW l, IsParser(s)
    PROVE  IsParser(ParseTerminal(s, l))
<1> DEFINE ok == IF l.op \in {".yield", ".enter"} THEN l.args # <<>> ELSE l.type # NoType
           t == Check(Unlabelled(s, l), ok, "arguments")
<1>1. ParseTerminal(s, l) = EndBlock(t)
  BY DEF ParseTerminal
<1> HIDE DEF ok
<1>2. IsParser(t)
  BY LabelsPass, ParserChecks
<1> HIDE DEF t
<1> QED  BY <1>1, <1>2, ParserMoves

\* A branch is parsed.
LEMMA BranchParsed ==
    ASSUME NEW s, NEW l, IsParser(s)
    PROVE  IsParser(ParseBranch(s, l))
<1> DEFINE t == Check(Unlabelled(s, l), l.args # <<>> /\ l.names # <<>>, "arguments")
           frame == [left |-> Len(l.names), names |-> l.names]
<1>1. ParseBranch(s, l) = StartBranch(t, l, frame)
  BY DEF ParseBranch
<1>2. IsParser(t)
  BY LabelsPass, ParserChecks
<1> HIDE DEF t, frame
<1> QED  BY <1>1, <1>2, ParserMoves

\* So is every op, and a statement that the parser lets through has a sub-op of Subs.
LEMMA ParseOpKeeps ==
    ASSUME NEW s, NEW l, NEW kd, IsParser(s), Known(l), Group(l) \notin {"case", "default"}
    PROVE  /\ IsParser(ParseOp(s, l, kd))
           /\ Alive(ParseOp(s, l, kd)) /\ Group(l) \in {"bind", "body"} => l.sub \in Subs
<1> DEFINE g == Group(l)
           t == ParseOp(s, l, kd)
<1> HIDE DEF t
<1>1. CASE g \in {"tygvar", "cogvar", "gvar", "tyfv", "tyarg", "tylet"}
  <2>1. t = Labelled(s, l)
    BY <1>1 DEF ParseOp, ParseTypeGvar, ParseCoercionGvar, ParseValueGvar, ParseTypeFv,
       ParseTypeArg,
                ParseTypeLet, t
  <2> QED  BY <1>1, <2>1, LabelsPass DEF t
<1>2. CASE g = "subcode"
  <2>1. t = Check(s, l.code # "", "label")
    BY <1>2 DEF ParseOp, ParseSubcode, t
  <2> QED  BY <1>2, <2>1, ParserChecks DEF t
<1>3. CASE g = "exkarg"
  <2>1. t = s
    BY <1>3 DEF ParseOp, ParseContTypeArg, t
  <2> QED  BY <1>3, <2>1 DEF t
<1>4. CASE g \in {"fv", "arg", "karg"}
  <2> DEFINE ok == l.type # NoType
  <2>1. t = Check(Labelled(s, l), ok, "arguments")
    BY <1>4 DEF ParseOp, ParseValueFv, ParseValueArg, ParseContArg, t
  <2> HIDE DEF ok
  <2> QED  BY <1>4, <2>1, LabelChecked DEF t
<1>5. CASE g = "fkarg"
  <2> DEFINE ok == l.names # <<>> /\ l.type # NoType
  <2>1. t = Check(Labelled(s, l), ok, "arguments")
    BY <1>5 DEF ParseOp, ParseFieldContArg, t
  <2> HIDE DEF ok
  <2> QED  BY <1>5, <2>1, LabelChecked DEF t
<1>6. CASE g = "alloc"
  <2>1. t = ParseAlloc(s, l, kd)
    BY <1>6 DEF ParseOp, t
  <2> QED  BY <1>6, <2>1, AllocParsed DEF t
<1>7. CASE g = "bind"
  <2>1. t = ParseBindOrBody(s, l)
    BY <1>7 DEF ParseOp, t
  <2> QED  BY <1>7, <2>1, StatementParsed DEF t
<1>8. CASE g = "body"
  <2>1. t = EndBlock(ParseBindOrBody(s, l))
    BY <1>8 DEF ParseOp, t
  <2> QED  BY <1>8, <2>1, StatementParsed, ParserMoves DEF t
<1>9. CASE g = "cast"
  <2>1. t = Check(s, l.type # NoType, "arguments") \/ t = Unlabelled(s, l)
    BY <1>9 DEF ParseOp, ParseCast, t
  <2> QED  BY <1>9, <2>1, ParserChecks, LabelsPass DEF t
<1>10. CASE g = "push"
  <2>1. t = ParseContPush(s, l)
    BY <1>10 DEF ParseOp, t
  <2> QED  BY <1>10, <2>1, PushParsed DEF t
<1>11. CASE g = "terminal"
  <2>1. t = ParseTerminal(s, l)
    BY <1>11 DEF ParseOp, t
  <2> QED  BY <1>11, <2>1, TerminalParsed DEF t
<1>12. CASE g = "branch"
  <2>1. t = ParseBranch(s, l)
    BY <1>12 DEF ParseOp, t
  <2> QED  BY <1>12, <2>1, BranchParsed DEF t
<1> QED  BY <1>1, <1>2, <1>3, <1>4, <1>5, <1>6, <1>7, <1>8, <1>9, <1>10, <1>11, <1>12, OpsOfGroups
         DEF t

\* Only a .case starts a case.
LEMMA ParseCaseKeeps ==
    ASSUME NEW s, NEW l, IsParser(s)
    PROVE  IsParser(ParseCase(s, l)) /\ (Alive(ParseCase(s, l)) => l.op = ".case")
<1> DEFINE here == s.block = "cases" /\ l.op = ".case"
           u == Check(Unlabelled(s, l), here, "order")
           ok == here => l.names = <<Expected(Last(s.branches))>>
           t == Check(u, ok, "constructor")
<1>1. ParseCase(s, l) = IF t.fatal # "" THEN t ELSE StartCase(t)
  BY DEF ParseCase
<1>2. IsParser(u) /\ (Alive(u) => here)
  BY LabelsPass, ParserChecks
<1> HIDE DEF u, ok
<1>3. IsParser(t) /\ (Alive(t) => t = u)
  BY <1>2, ParserChecks
<1> HIDE DEF t
<1> QED  BY <1>1, <1>2, <1>3, ParserMoves DEF Alive

\* Only a .default starts a default.
LEMMA ParseDefaultKeeps ==
    ASSUME NEW s, NEW l, IsParser(s)
    PROVE  IsParser(ParseDefault(s, l)) /\ (Alive(ParseDefault(s, l)) => l.op = ".default")
<1> DEFINE t == Check(Unlabelled(s, l), s.block = "default?" /\ l.op = ".default", "order")
<1>1. ParseDefault(s, l) = StartDefault(t)
  BY DEF ParseDefault
<1>2. IsParser(t) /\ (Alive(t) => l.op = ".default")
  BY LabelsPass, ParserChecks
<1> HIDE DEF t
<1> QED  BY <1>1, <1>2, ParserMoves

\* The parser stays one, and a statement it lets through has a sub-op of Subs.
LEMMA ParserSteps ==
    ASSUME NEW s, NEW l, NEW kd, IsParser(s), Known(l)
    PROVE  /\ IsParser(ParserReads(s, l, kd))
           /\ Alive(ParserReads(s, l, kd)) /\ Group(l) \in {"bind", "body"} => l.sub \in Subs
<1> DEFINE t == Sought(s, ParserLoops(s, kd), Group(l))
<1>1. IsParser(t)
  <2> DEFINE k == NextLoop(ParserLoops(s, kd), s.loop, Group(l))
             n == k + ParserLoops(s, kd)[k].next
  <2>1. t = IF k = 0 THEN Fatal(s, "order") ELSE [s EXCEPT !.loop = n]
    BY DEF Sought
  <2> HIDE DEF k, n, t
  <2> QED  BY <2>1 DEF Fatal, IsParser
<1>2. CASE s.block \in {"cases", "default?"} \/ l.op \in {".case", ".default"}
  <2>1. ParserReads(s, l, kd) \in {ParseDefault(s, l), ParseCase(s, l)}
    BY <1>2 DEF ParserReads
  <2>2. Group(l) \in {"bind", "body"} => l.op \in {".bind", ".body"}
    BY OpsOfGroups
  <2> QED  BY <2>1, <2>2, ParseCaseKeeps, ParseDefaultKeeps
<1>3. CASE ~(s.block \in {"cases", "default?"} \/ l.op \in {".case", ".default"})
  <2>1. ParserReads(s, l, kd) = IF t.fatal # "" THEN t ELSE ParseOp(t, l, kd)
    BY <1>3 DEF ParserReads
  <2>2. Group(l) \notin {"case", "default"}
    BY <1>3, StartsAreNoOps
  <2> HIDE DEF t
  <2> QED  BY <1>1, <2>1, <2>2, ParseOpKeeps DEF Alive
<1> QED  BY <1>2, <1>3

-----------------------------------------------------------------------------
(* The lines an item may go on with.                                       *)

\* An op of some group is known.
LEMMA KnownIn ==
    ASSUME NEW l, NEW g \in DOMAIN Ops, l.op \in Ops[g] PROVE Known(l)
  BY DEF Known

\* The groups there are.
LEMMA GroupsAre ==
    DOMAIN Ops = {"tygvar", "subcode", "cogvar", "gvar", "tyfv", "tyarg", "exkarg", "tylet",
                  "fv", "karg", "fkarg", "arg", "alloc", "bind", "cast", "push",
                  "terminal", "branch", "body", "case", "default"}
  BY DEF Ops

\* An op that is taken from a set is one of the set.
LEMMA EachOne ==
    ASSUME NEW ops, NEW op \in Each(ops)
    PROVE  op \in ops
  BY DEF Each

\* Every line an item may go on with has a known op.
LEMMA LineKnown ==
    ASSUME Write
    PROVE  Known(line')
<1>1. CASE WriteTypeLine
  <2>1. line'.op \in Ops.tygvar \cup Ops.tyfv \cup Ops.tyarg \cup Ops.exkarg \cup Ops.tylet \cup Ops.cogvar
    BY <1>1, EachOne DEF WriteTypeLine, Writes, Line
  <2> QED  BY <2>1, GroupsAre, KnownIn
<1>2. CASE WriteSubcode
  <2>1. line'.op \in Ops.subcode
    BY <1>2, EachOne DEF WriteSubcode, Writes, Line, Ops
  <2> QED  BY <2>1, GroupsAre, KnownIn
<1>3. CASE WriteGvar
  <2>1. line'.op \in Ops.gvar
    BY <1>3, EachOne DEF WriteGvar, Writes, Line, Ops
  <2> QED  BY <2>1, GroupsAre, KnownIn
<1>4. CASE WriteFv
  <2>1. line'.op \in Ops.fv
    BY <1>4, EachOne DEF WriteFv, Writes, Line, Ops
  <2> QED  BY <2>1, GroupsAre, KnownIn
<1>5. CASE WriteArg
  <2>1. line'.op \in Ops.arg \cup Ops.karg
    BY <1>5, EachOne DEF WriteArg, Writes, Line, Ops
  <2> QED  BY <2>1, GroupsAre, KnownIn
<1>6. CASE WriteFkarg
  <2>1. line'.op \in Ops.fkarg
    BY <1>6, EachOne DEF WriteFkarg, Writes, Line, Ops
  <2> QED  BY <2>1, GroupsAre, KnownIn
<1>7. CASE WriteClosure
  <2>1. line'.op \in Ops.alloc
    BY <1>7, EachOne DEF WriteClosure, Writes, Line, Ops
  <2> QED  BY <2>1, GroupsAre, KnownIn
<1>8. CASE WriteUndefined
  <2>1. line'.op \in Ops.alloc
    BY <1>8, EachOne DEF WriteUndefined, Writes, Line, Ops
  <2> QED  BY <2>1, GroupsAre, KnownIn
<1>9. CASE WriteApply
  <2>1. line'.op \in Ops.alloc
    BY <1>9, EachOne DEF WriteApply, Writes, Line, Ops
  <2> QED  BY <2>1, GroupsAre, KnownIn
<1>10. CASE WritePrim
  <2>1. line'.op \in Ops.alloc
    BY <1>10, EachOne DEF WritePrim, Writes, Line, Ops
  <2> QED  BY <2>1, GroupsAre, KnownIn
<1>11. CASE WriteConstr
  <2>1. line'.op \in Ops.alloc
    BY <1>11, EachOne DEF WriteConstr, Writes, Line, Ops
  <2> QED  BY <2>1, GroupsAre, KnownIn
<1>12. CASE WriteRecord
  <2>1. line'.op \in Ops.alloc
    BY <1>12, EachOne DEF WriteRecord, Writes, Line, Ops
  <2> QED  BY <2>1, GroupsAre, KnownIn
<1>13. CASE WriteField
  <2>1. line'.op \in Ops.alloc
    BY <1>13, EachOne DEF WriteField, Writes, Line, Ops
  <2> QED  BY <2>1, GroupsAre, KnownIn
<1>14. CASE WriteAlias
  <2>1. line'.op \in Ops.alloc
    BY <1>14, EachOne DEF WriteAlias, Writes, Line, Ops
  <2> QED  BY <2>1, GroupsAre, KnownIn
<1>15. CASE WriteCast
  <2>1. line'.op \in Ops.cast
    BY <1>15, EachOne DEF WriteCast, Writes, Line, Ops
  <2> QED  BY <2>1, GroupsAre, KnownIn
<1>16. CASE WritePush
  <2>1. line'.op \in Ops.push
    BY <1>16, EachOne DEF WritePush, Writes, Line, Ops
  <2> QED  BY <2>1, GroupsAre, KnownIn
<1>17. CASE WriteApp
  <2>1. line'.op \in Ops.push
    BY <1>17, EachOne DEF WriteApp, Writes, Line, Ops
  <2> QED  BY <2>1, GroupsAre, KnownIn
<1>18. CASE WriteUbanalyze
  <2>1. line'.op \in Ops.push
    BY <1>18, EachOne DEF WriteUbanalyze, Writes, Line, Ops
  <2> QED  BY <2>1, GroupsAre, KnownIn
<1>19. CASE WriteReturn
  <2>1. line'.op \in Ops.terminal
    BY <1>19, EachOne DEF WriteReturn, Writes, Line, Ops
  <2> QED  BY <2>1, GroupsAre, KnownIn
<1>20. CASE WriteUndef
  <2>1. line'.op \in Ops.terminal
    BY <1>20, EachOne DEF WriteUndef, Writes, Line, Ops
  <2> QED  BY <2>1, GroupsAre, KnownIn
<1>21. CASE WriteTerminalPrim
  <2>1. line'.op \in Ops.terminal
    BY <1>21, EachOne DEF WriteTerminalPrim, Writes, Line, Ops
  <2> QED  BY <2>1, GroupsAre, KnownIn
<1>22. CASE WriteBranch
  <2>1. line'.op \in Ops.branch
    BY <1>22, EachOne DEF WriteBranch, Writes, Line, Ops
  <2> QED  BY <2>1, GroupsAre, KnownIn
<1>23. CASE WriteCase
  <2>1. line'.op \in Ops.case
    BY <1>23, EachOne DEF WriteCase, Writes, Line, Ops
  <2> QED  BY <2>1, GroupsAre, KnownIn
<1>24. CASE WriteDefault
  <2>1. line'.op \in Ops.default
    <3>1. PICK op \in Each(Ops.default) : line' = Line(op)
      BY <1>24 DEF WriteDefault, Writes
    <3>2. line'.op = op /\ op \in Ops.default
      BY <3>1, EachOne DEF Line
    <3> QED  BY <3>2
  <2> QED  BY <2>1, GroupsAre, KnownIn
<1>25. CASE WriteStatement
  <2>1. line'.op \in Ops.bind \cup Ops.body
    <3>1. PICK op \in Each({".bind", ".body"}), x \in {0, Fresh} :
              \/ \E c \in Codes :
                    Writes([Line(op) EXCEPT !.sub = ".closure", !.label = x, !.code = c])
              \/ \E f \in Operands(1), xs \in Upto(1) :
                    Writes([Line(op) EXCEPT !.sub = ".apply", !.label = x, !.args = f \o xs])
              \/ \E t \in This.types :
                    Writes([Line(op) EXCEPT !.sub = ".undefined", !.label = x, !.type = t])
              \/ \E f \in Operands(1), sub \in {".appty", ".lfield"} :
                    Writes([Line(op) EXCEPT !.sub = sub, !.label = x, !.args = f, !.ntyargs = 1])
      BY <1>25 DEF WriteStatement
    <3>2. line'.op = op
      BY <3>1 DEF Writes, Line
    <3> QED  BY <3>1, <3>2, EachOne DEF Ops
  <2> QED  BY <2>1, GroupsAre, KnownIn
<1> QED  BY <1>1, <1>2, <1>3, <1>4, <1>5, <1>6, <1>7, <1>8, <1>9, <1>10, <1>11, <1>12, <1>13,
            <1>14, <1>15, <1>16, <1>17, <1>18, <1>19, <1>20, <1>21, <1>22, <1>23, <1>24,
            <1>25 DEF Write

-----------------------------------------------------------------------------
(* The sizes agree.                                                        *)

\* What is always true of an emitter that goes on.
Emitting(s) == IsEmitter(s) /\ IsSeq(s.branches) /\ s.loop \in Nat \ {0}

\* A step of the emitter keeps it and writes the line's bytes.
LEMMA EmitterGoesOn ==
    ASSUME NEW s, NEW t, NEW l, NEW kd, Emitting(s), Known(l), EmitterStep(s, t, l, kd)
    PROVE  Emitting(t) /\ t.out = Grown(s.out, l)
<1>1. CASE CaseOut(s, t, l)
  <2>1. l.op = ".case" /\ Grown(s.out, l) = s.out
    BY <1>1, StartsAreNoOps DEF CaseOut, Grown
  <2> DEFINE n == Len(s.branches)
             frame == [s.branches[n] EXCEPT !.left = s.branches[n].left - 1]
  <2>2. t.branches = [s.branches EXCEPT ![n] = frame]
    BY <1>1 DEF CaseOut
  <2> HIDE DEF n, frame
  <2>3. IsSeq(t.branches)
    <3>1. IsSeq([s.branches EXCEPT ![n] = frame])
      BY FramesExcept, Zenon DEF Emitting
    <3> QED  BY <2>2, <3>1, Zenon
  <2> QED  BY <1>1, <2>1, <2>3 DEF CaseOut, Emitting
<1>2. CASE DefaultOut(s, t, l)
  <2>1. l.op = ".default" /\ Grown(s.out, l) = s.out
    BY <1>2, StartsAreNoOps DEF DefaultOut, Grown
  <2> QED  BY <1>2, <2>1 DEF DefaultOut, Emitting
<1>3. ASSUME NEW r, Moved(s, r), EmitterReadsAt(r, t, l, kd)
      PROVE  Emitting(t) /\ t.out = Grown(s.out, l)
  <2>1. Emitting(r) /\ r.out = s.out
    BY <1>3 DEF Moved, Emitting
  <2>2. CASE NamedIn(r, t, l, Grown(r.out, l)) \/ CodedIn(r, t, l, Grown(r.out, l))
             \/ KeptIn(r, t, Grown(r.out, l))
    BY <2>1, <2>2 DEF NamedIn, CodedIn, KeptIn, Stays, Emitting
  <2>3. CASE Group(l) = "branch" /\ BranchesOut(r, t, l)
    <3>1. IsSeq(t.branches)
      BY <2>1, <2>3, FramesAppend DEF BranchesOut, Emitting
    <3>2. Grown(r.out, l) = r.out + BranchSize(l)
      BY <2>3 DEF Grown
    <3> QED  BY <2>1, <2>3, <3>1, <3>2 DEF BranchesOut, Emitting
  <2>4. CASE \E u : KeptIn(r, u, Grown(r.out, l)) /\ EndsIn(u, t)
    <3>1. PICK u : KeptIn(r, u, Grown(r.out, l)) /\ EndsIn(u, t)
      BY <2>4
    <3>2. Emitting(u) /\ u.out = Grown(s.out, l)
      BY <2>1, <3>1 DEF KeptIn, Stays, Emitting
    <3>3. IsSeq(t.branches)
      BY <3>1, <3>2, StillInIs, FramesPrefix DEF EndsIn, Emitting
    <3> QED  BY <3>1, <3>2, <3>3 DEF EndsIn, Emitting
  <2> QED  BY <1>3, <2>2, <2>3, <2>4 DEF EmitterReadsAt
<1> QED  BY <1>1, <1>2, <1>3 DEF EmitterStep

\* What is always true of a size pass that goes on.
Sizing(s) == IsSizer(s) /\ IsSeq(s.branches)

\* A step of the size pass keeps it and adds the line's bytes.
LEMMA SizerGoesOn ==
    ASSUME NEW s, NEW l, Sizing(s), Known(l), Group(l) = "body" => l.sub \in Subs,
           Alive(SizerReads(s, l))
    PROVE  Alive(s) /\ Sizing(SizerReads(s, l)) /\ SizerReads(s, l).size = Grown(s.size, l)
  BY SizerSteps DEF Sizing, SizeIs, Framed

\* The inductive invariant behind SizesAgree: as long as no pass has stopped, the size
\* that is counted is the one that is written.  SizesAgree alone is not inductive: a
\* step is known only of passes that are records with their frames in a sequence, and the
\* body of a statement has one size only for the sub-ops the parser lets through.
InStep ==
    /\ IsParser(parser)
    /\ Compiling => Emitting(emitter) /\ Sizing(sizer) /\ sizer.size = emitter.out

\* The emitter starts with the head of the byte code.
LEMMA NewEmits == Emitting(EmitterNew) /\ EmitterNew.out = SizeofBco
  BY NoFrames DEF EmitterNew, Emitting, IsEmitter

\* And the size pass with its size.
LEMMA NewSizes == Sizing(SizerNew) /\ SizerNew.size = SizeofBco
  BY NoFrames DEF SizerNew, Sizing, IsSizer

\* The passes start in step.
LEMMA InStepInit == Init => InStep
<1> SUFFICES ASSUME Init PROVE InStep
  OBVIOUS
<1>1. IsParser(parser)
  BY DEF Init, ParserNew, IsParser
<1> QED  BY <1>1, NewEmits, NewSizes DEF InStep, Init

\* A line that no pass refuses has been read by all of them, none of which had stopped.
LEMMA LineCompiled ==
    ASSUME IsParser(parser), Next, Compiling'
    PROVE  /\ Known(line') /\ Compiling
           /\ Group(line') \in {"bind", "body"} => line'.sub \in Subs
           /\ sizer' = SizerReads(sizer, line') /\ Alive(sizer')
           /\ emitter' = EmitterReads(emitter, line', kind) /\ Alive(emitter')
           /\ checker' = CheckerReads(checker, line', kind) /\ Alive(checker') /\ Alive(checker)
<1>1. Known(line')
  BY LineKnown DEF Next
<1>2. /\ parser' = ParserReads(parser, line', kind) /\ Alive(parser')
      /\ checker' = CheckerReads(checker, line', kind) /\ Alive(checker') /\ Alive(checker)
      /\ sizer' = SizerReads(sizer, line') /\ Alive(sizer')
      /\ emitter' = EmitterReads(emitter, line', kind) /\ Alive(emitter')
  BY DEF Next, Passes, Compiling, Refused, Alive
<1>3. sizer.fatal = "" /\ emitter.fatal = ""
  BY <1>2 DEF SizerReads, EmitterReads, Alive
<1> QED  BY <1>1, <1>2, <1>3, ParserSteps DEF Next, Compiling

\* Each line keeps them in step.
LEMMA InStepNext == InStep /\ [Next]_vars => InStep'
<1> SUFFICES ASSUME InStep, [Next]_vars PROVE InStep'
  OBVIOUS
<1>1. CASE UNCHANGED vars
  BY <1>1 DEF InStep, Compiling, Refused, vars
<1>2. CASE Next
  <2>1. IsParser(parser')
    BY <1>2, LineKnown, ParserSteps DEF InStep, Next, Passes
  <2>2. ASSUME Compiling' PROVE Emitting(emitter') /\ Sizing(sizer') /\ sizer'.size = emitter'.out
    <3>1. /\ Known(line') /\ Compiling
          /\ Group(line') \in {"bind", "body"} => line'.sub \in Subs
          /\ sizer' = SizerReads(sizer, line') /\ Alive(sizer')
          /\ emitter' = EmitterReads(emitter, line', kind) /\ Alive(emitter')
      BY <1>2, <2>2, LineCompiled DEF InStep
    <3>2. Emitting(emitter) /\ Sizing(sizer) /\ sizer.size = emitter.out
      BY <3>1 DEF InStep
    <3>3. Sizing(sizer') /\ sizer'.size = Grown(sizer.size, line')
      BY <3>1, <3>2, SizerGoesOn
    <3>4. EmitterStep(emitter, emitter', line', kind)
      BY <3>1, <3>2, EmitterSteps DEF Emitting
    <3>5. Emitting(emitter') /\ emitter'.out = Grown(emitter.out, line')
      BY <3>1, <3>2, <3>4, EmitterGoesOn
    <3> QED  BY <3>2, <3>3, <3>5
  <2> QED  BY <2>1, <2>2 DEF InStep
<1> QED  BY <1>1, <1>2

\* The size pass and the emitter of bytecompile.c are in step at every line, for any
\* subcodes, any item and any number of registers.
THEOREM PassesInStep == Spec => []InStep
  BY InStepInit, InStepNext, PTL DEF Spec

\* The block that gsbc_alloc_code_for_scc reserves for an item has the size of the byte
\* code that gsbc_bytecompile_scc writes into it.
THEOREM SizesAlwaysAgree == Spec => []SizesAgree
<1>1. InStep => SizesAgree
  BY DEF InStep, SizesAgree
<1> QED  BY <1>1, PassesInStep, PTL

-----------------------------------------------------------------------------
(* The checker, op by op.                                                  *)

\* The checker is a record of its fields, whatever is in them.
IsChecker(s) ==
    DOMAIN s = {"block", "loop", "fatal", "branches", "regs", "types", "bound", "others", "codes",
                "tyvars", "ntyfvs", "fvs", "stack", "karg", "fields", "exargs", "result"}

\* The checker t is s, or has stopped.
Passed(s, t) == IsChecker(t) /\ (Alive(t) => t = s)

\* Another check of a checker that is s or has stopped.
LEMMA CheckerChecks ==
    ASSUME NEW s, NEW t, NEW ok, NEW why, Passed(s, t), why # ""
    PROVE  Passed(s, Check(t, ok, why))
  BY DEF Check, Fatal, Passed, IsChecker, Alive

\* A check that lets the checker go on holds.
LEMMA CheckHolds ==
    ASSUME NEW t, NEW ok, NEW why, IsChecker(t), why # "", Alive(Check(t, ok, why))
    PROVE  Alive(t) /\ ok
  BY DEF Check, Fatal, IsChecker, Alive

\* A checker that does nothing is itself.
LEMMA PassedItself == ASSUME NEW s, IsChecker(s) PROVE Passed(s, s)
  BY DEF Passed

\* The checks on operands and types.
LEMMA SidePasses ==
    ASSUME NEW s, NEW t, NEW xs, NEW ty, Passed(s, t)
    PROVE  /\ Passed(s, CFinds(t, xs)) /\ Passed(s, WellTyped(t, ty)) /\ Passed(s, IsLifted(t, ty))
           /\ Passed(s, IsUnlifted(t, ty)) /\ Passed(s, IsBoxed(t, ty))
<1>1. \A ok : Passed(s, Check(t, ok, "register")) /\ Passed(s, Check(t, ok, "type"))
              /\ Passed(s, Check(t, ok, "kind")) /\ Passed(s, Check(t, ok, "boxed"))
  BY CheckerChecks
<1> QED  BY <1>1 DEF CFinds, WellTyped, IsLifted, IsUnlifted, IsBoxed

\* The checker has gone from s to t in one block.
CheckerStays(s, t) == IsChecker(t) /\ Alive(s) /\ t.block = s.block /\ t.branches = s.branches

\* It has added the register of the line, of the type ty, the subcode of the line, or
\* nothing.
RegisterIn(s, t, l, ty) ==
    /\ CheckerStays(s, t) /\ t.regs = Append(s.regs, l.label) /\ t.types = Append(s.types, ty)
    /\ t.codes = s.codes
CodeIn(s, t, l) == CheckerStays(s, t) /\ t.regs = s.regs /\ t.types = s.types
                   /\ t.codes = Append(s.codes, l.code)
NothingIn(s, t) == CheckerStays(s, t) /\ t.regs = s.regs /\ t.types = s.types /\ t.codes = s.codes

\* A new register is the line's.
LEMMA NewRegisterIn ==
    ASSUME NEW s, NEW t, NEW l, NEW ty, NEW b, Passed(s, t)
    PROVE  LET u == NewRegister(t, l, ty, b)
           IN  IsChecker(u) /\ (Alive(u) => RegisterIn(s, u, l, ty))
<1> DEFINE u == NewRegister(t, l, ty, b)
<1>1. /\ IsChecker(u) /\ u.fatal = t.fatal /\ u.block = t.block /\ u.branches = t.branches
      /\ u.regs = Append(t.regs, l.label) /\ u.types = Append(t.types, ty) /\ u.codes = t.codes
  BY DEF NewRegister, Passed, IsChecker
<1> HIDE DEF u
<1>2. IsChecker(u) /\ (Alive(u) => RegisterIn(s, u, l, ty))
  BY <1>1 DEF Passed, Alive, RegisterIn, CheckerStays
<1> QED  BY <1>2 DEF u

\* So is one for data.
LEMMA DataRegisterIn ==
    ASSUME NEW s, NEW t, NEW l, NEW ty, Passed(s, t)
    PROVE  LET u == DataRegister(t, l, ty)
           IN  IsChecker(u) /\ (Alive(u) => RegisterIn(s, u, l, ty))
<1>1. IsChecker(Fatal(t, "registers")) /\ ~Alive(Fatal(t, "registers"))
  BY DEF Fatal, IsChecker, Alive, Passed
<1> QED  BY <1>1, NewRegisterIn DEF DataRegister

\* A register for something else than data is not counted among the names.
LEMMA OtherIn ==
    ASSUME NEW s, NEW t, Passed(s, t)
    PROVE  LET u == OtherRegister(t) IN IsChecker(u) /\ (Alive(u) => NothingIn(s, u))
<1>1. IsChecker(Fatal(t, "registers")) /\ ~Alive(Fatal(t, "registers"))
  BY DEF Fatal, IsChecker, Alive, Passed
<1> DEFINE u == [t EXCEPT !.others = @ + 1]
<1>2. /\ IsChecker(u) /\ u.fatal = t.fatal /\ u.block = t.block /\ u.branches = t.branches
      /\ u.regs = t.regs /\ u.types = t.types /\ u.codes = t.codes
  BY DEF Passed, IsChecker
<1>3. OtherRegister(t) = IF NumRegs(t) >= MaxRegs THEN Fatal(t, "registers") ELSE u
  BY DEF OtherRegister
<1> HIDE DEF u
<1>4. IsChecker(u) /\ (Alive(u) => NothingIn(s, u))
  BY <1>2 DEF Passed, Alive, NothingIn, CheckerStays
<1> QED  BY <1>1, <1>3, <1>4

\* Nor is a type variable.
LEMMA VariableIn ==
    ASSUME NEW s, IsChecker(s)
    PROVE  LET u == TypeVariable(s) IN IsChecker(u) /\ (Alive(u) => NothingIn(s, u))
<1> DEFINE t == OtherRegister(s)
           u == [t EXCEPT !.tyvars = @ + 1]
<1>1. IsChecker(t) /\ (Alive(t) => NothingIn(s, t))
  BY OtherIn, PassedItself
<1> HIDE DEF t
<1>2. /\ IsChecker(u) /\ u.fatal = t.fatal /\ u.block = t.block /\ u.branches = t.branches
      /\ u.regs = t.regs /\ u.types = t.types /\ u.codes = t.codes
  BY <1>1 DEF IsChecker
<1> HIDE DEF u
<1>3. IsChecker(u) /\ (Alive(u) => NothingIn(s, u))
  BY <1>1, <1>2 DEF Alive, NothingIn, CheckerStays
<1> QED  BY <1>3 DEF TypeVariable, t, u

\* A line that is pushed for later names nothing.
LEMMA PushIn ==
    ASSUME NEW s, NEW l, IsChecker(s)
    PROVE  LET u == Push(s, l)
           IN  IsChecker(u) /\ (Alive(u) => /\ Alive(s) /\ u.block = s.block /\ u.branches = s.branches
                                            /\ u.regs = s.regs /\ u.types = s.types
                                            /\ u.codes = s.codes)
<1>1. IsChecker(Fatal(s, "stack")) /\ ~Alive(Fatal(s, "stack"))
  BY DEF Fatal, IsChecker, Alive
<1> DEFINE u == [s EXCEPT !.stack = Append(@, l)]
<1>2. /\ IsChecker(u) /\ u.fatal = s.fatal /\ u.block = s.block /\ u.branches = s.branches
      /\ u.regs = s.regs /\ u.types = s.types /\ u.codes = s.codes
  BY DEF IsChecker
<1>3. Push(s, l) = IF Len(s.stack) >= MaxRegs THEN Fatal(s, "stack") ELSE u
  BY DEF Push
<1> HIDE DEF u
<1> QED  BY <1>1, <1>2, <1>3 DEF Alive

\* A line that is pushed, by itself.
LEMMA PushKeeps ==
    ASSUME NEW s, NEW l, IsChecker(s), Alive(Push(s, l))
    PROVE  NothingIn(s, Push(s, l))
  BY PushIn DEF NothingIn, CheckerStays

\* And beside a register.
LEMMA PushAfterRegister ==
    ASSUME NEW s, NEW t, NEW l, NEW ty, IsChecker(t), Alive(t) => RegisterIn(s, t, l, ty),
           Alive(Push(t, l))
    PROVE  RegisterIn(s, Push(t, l), l, ty)
  BY PushIn DEF RegisterIn, CheckerStays

\* And beside nothing.
LEMMA PushAfterNothing ==
    ASSUME NEW s, NEW t, NEW l, IsChecker(t), Alive(t) => NothingIn(s, t), Alive(Push(t, l))
    PROVE  NothingIn(s, Push(t, l))
  BY PushIn DEF NothingIn, CheckerStays

\* A .subcode adds a subcode.
LEMMA CheckSubcodeIn ==
    ASSUME NEW s, NEW l, IsChecker(s), Alive(CheckSubcode(s, l))
    PROVE  CodeIn(s, CheckSubcode(s, l), l)
<1>1. ~Alive(Fatal(s, "registers"))
  BY DEF Fatal, IsChecker, Alive
<1> DEFINE u == [s EXCEPT !.codes = Append(@, l.code)]
<1>2. /\ IsChecker(u) /\ u.fatal = s.fatal /\ u.block = s.block /\ u.branches = s.branches
      /\ u.regs = s.regs /\ u.types = s.types /\ u.codes = Append(s.codes, l.code)
  BY DEF IsChecker
<1>3. CheckSubcode(s, l) = IF Len(s.codes) >= MaxRegs THEN Fatal(s, "registers") ELSE u
  BY DEF CheckSubcode
<1> HIDE DEF u
<1> QED  BY <1>1, <1>2, <1>3 DEF CodeIn, CheckerStays, Alive

\* The type ops add neither register nor subcode: a type that is free,
LEMMA CheckTypeFvIn ==
    ASSUME NEW s, NEW l, IsChecker(s), Alive(CheckTypeFv(s, l))
    PROVE  NothingIn(s, CheckTypeFv(s, l))
<1> DEFINE t == TypeVariable(s)
           u == [t EXCEPT !.ntyfvs = @ + 1]
<1>1. IsChecker(t) /\ (Alive(t) => NothingIn(s, t))
  BY VariableIn
<1> HIDE DEF t
<1>2. /\ IsChecker(u) /\ u.fatal = t.fatal /\ u.block = t.block /\ u.branches = t.branches
      /\ u.regs = t.regs /\ u.types = t.types /\ u.codes = t.codes
  BY <1>1 DEF IsChecker
<1>3. CheckTypeFv(s, l) = u
  BY DEF CheckTypeFv, t
<1> HIDE DEF u
<1> QED  BY <1>1, <1>2, <1>3 DEF Alive, NothingIn, CheckerStays

\* the type of a continuation's argument,
LEMMA CheckContTypeArgIn ==
    ASSUME NEW s, NEW l, IsChecker(s), Alive(CheckContTypeArg(s, l))
    PROVE  NothingIn(s, CheckContTypeArg(s, l))
<1> DEFINE t == TypeVariable(s)
           u == [t EXCEPT !.exargs = @ + 1]
<1>1. IsChecker(t) /\ (Alive(t) => NothingIn(s, t))
  BY VariableIn
<1> HIDE DEF t
<1>2. /\ IsChecker(u) /\ u.fatal = t.fatal /\ u.block = t.block /\ u.branches = t.branches
      /\ u.regs = t.regs /\ u.types = t.types /\ u.codes = t.codes
  BY <1>1 DEF IsChecker
<1>3. CheckContTypeArg(s, l) = u
  BY DEF CheckContTypeArg, t
<1> HIDE DEF u
<1> QED  BY <1>1, <1>2, <1>3 DEF Alive, NothingIn, CheckerStays

\* and a type argument.
LEMMA CheckTypeArgIn ==
    ASSUME NEW s, NEW l, IsChecker(s), Alive(CheckTypeArg(s, l))
    PROVE  NothingIn(s, CheckTypeArg(s, l))
  BY VariableIn, PushAfterNothing DEF CheckTypeArg

\* Nor does a register that is not for data.
LEMMA OtherRegisterIn ==
    ASSUME NEW s, IsChecker(s), Alive(OtherRegister(s))
    PROVE  NothingIn(s, OtherRegister(s))
  BY OtherIn, PassedItself

\* The data ops add the register of the line: a global,
LEMMA CheckGvarIn ==
    ASSUME NEW s, NEW l, IsChecker(s), Alive(CheckDataGvar(s, l))
    PROVE  RegisterIn(s, CheckDataGvar(s, l), l, IF l.op = ".gvar" THEN l.type ELSE Prim)
  BY DataRegisterIn, PassedItself DEF CheckDataGvar

\* an argument,
LEMMA CheckArgIn ==
    ASSUME NEW s, NEW l, IsChecker(s), Alive(CheckDataArg(s, l))
    PROVE  RegisterIn(s, CheckDataArg(s, l), l, l.type)
<1> DEFINE t == IsBoxed(s, l.type)
           u == DataRegister(t, l, l.type)
<1>1. Passed(s, t)
  BY PassedItself, SidePasses
<1> HIDE DEF t
<1>2. IsChecker(u) /\ (Alive(u) => RegisterIn(s, u, l, l.type))
  BY <1>1, DataRegisterIn
<1>3. CheckDataArg(s, l) = Push(u, l)
  BY DEF CheckDataArg, t
<1> HIDE DEF u
<1> QED  BY <1>2, <1>3, PushAfterRegister

\* a free variable,
LEMMA CheckFvIn ==
    ASSUME NEW s, NEW l, IsChecker(s), Alive(CheckDataFv(s, l))
    PROVE  RegisterIn(s, CheckDataFv(s, l), l, l.type)
<1> DEFINE ok == l.op = ".efv" => ~Lifted(l.type)
           t == Check(s, ok, "kind")
           u == DataRegister(t, l, l.type)
           fv == [name |-> l.label, type |-> l.type, efv |-> l.op = ".efv"]
           v == [u EXCEPT !.fvs = Append(@, fv)]
<1>1. CheckDataFv(s, l) = v
  BY DEF CheckDataFv
<1> HIDE DEF ok, fv
<1>2. Passed(s, t)
  BY PassedItself, CheckerChecks
<1> HIDE DEF t
<1>3. IsChecker(u) /\ (Alive(u) => RegisterIn(s, u, l, l.type))
  BY <1>2, DataRegisterIn
<1> HIDE DEF u
<1>4. /\ IsChecker(v) /\ v.fatal = u.fatal /\ v.block = u.block /\ v.branches = u.branches
      /\ v.regs = u.regs /\ v.types = u.types /\ v.codes = u.codes
  BY <1>3 DEF IsChecker
<1> HIDE DEF v
<1> QED  BY <1>1, <1>3, <1>4 DEF Alive, RegisterIn, CheckerStays

\* the argument of a continuation,
LEMMA CheckContArgIn ==
    ASSUME NEW s, NEW l, NEW kd, IsChecker(s), Alive(CheckContArg(s, l, kd))
    PROVE  RegisterIn(s, CheckContArg(s, l, kd), l, l.type)
<1> DEFINE ok == s.karg = NoType
           right == s.block = "item" => /\ kd = ".forcecont" => ~Lifted(l.type)
                                        /\ kd = ".strictcont" => Lifted(l.type)
           r == Check(s, ok, "karg")
           q == IsBoxed(r, l.type)
           t == Check(q, right, "kind")
           u == DataRegister(t, l, l.type)
           v == [u EXCEPT !.karg = l.type]
<1>1. CheckContArg(s, l, kd) = v
  BY DEF CheckContArg
<1> HIDE DEF ok, right
<1>2. Passed(s, r)
  BY PassedItself, CheckerChecks
<1> HIDE DEF r
<1>3. Passed(s, q)
  BY <1>2, SidePasses
<1> HIDE DEF q
<1>4. Passed(s, t)
  BY <1>3, CheckerChecks
<1> HIDE DEF t
<1>5. IsChecker(u) /\ (Alive(u) => RegisterIn(s, u, l, l.type))
  BY <1>4, DataRegisterIn
<1> HIDE DEF u
<1>6. /\ IsChecker(v) /\ v.fatal = u.fatal /\ v.block = u.block /\ v.branches = u.branches
      /\ v.regs = u.regs /\ v.types = u.types /\ v.codes = u.codes
  BY <1>5 DEF IsChecker
<1> HIDE DEF v
<1> QED  BY <1>1, <1>5, <1>6 DEF Alive, RegisterIn, CheckerStays

\* and a field of it.
LEMMA CheckFieldArgIn ==
    ASSUME NEW s, NEW l, IsChecker(s), Alive(CheckFieldContArg(s, l))
    PROVE  RegisterIn(s, CheckFieldContArg(s, l), l, l.type)
<1> DEFINE t == IsBoxed(s, l.type)
           u == DataRegister(t, l, l.type)
           field == [name |-> l.names[1], type |-> l.type]
           v == [u EXCEPT !.fields = Append(@, field)]
<1>1. CheckFieldContArg(s, l) = v
  BY DEF CheckFieldContArg
<1> HIDE DEF field
<1>2. Passed(s, t)
  BY PassedItself, SidePasses
<1> HIDE DEF t
<1>3. IsChecker(u) /\ (Alive(u) => RegisterIn(s, u, l, l.type))
  BY <1>2, DataRegisterIn
<1> HIDE DEF u
<1>4. /\ IsChecker(v) /\ v.fatal = u.fatal /\ v.block = u.block /\ v.branches = u.branches
      /\ v.regs = u.regs /\ v.types = u.types /\ v.codes = u.codes
  BY <1>3 DEF IsChecker
<1> HIDE DEF v
<1> QED  BY <1>1, <1>3, <1>4 DEF Alive, RegisterIn, CheckerStays

-----------------------------------------------------------------------------
(* Allocations and statements.                                             *)

\* The checks on what a statement or a thunk is made of add nothing.
LEMMA RhsPasses ==
    ASSUME NEW s, NEW t, NEW l, NEW sub, NEW isalloc, Passed(s, t), sub \in Subs
    PROVE  Passed(s, CheckedRhs(t, l, sub, isalloc))
<1>1. CASE sub = ".closure"
  <2> DEFINE ok == Available(t, l.code)
             u == Check(t, ok, "free variable")
             declared == DeclaresBound(t, l.code)
             v == IF isalloc \/ u.fatal # "" THEN u ELSE Check(u, declared, "efv")
             lifts == isalloc => Lifted(RhsType(t, l, ".closure"))
             w == Check(v, lifts, "kind")
             ty == RhsType(t, l, ".closure")
  <2>1. CheckedRhs(t, l, sub, isalloc) = IsBoxed(w, ty)
    BY <1>1 DEF CheckedRhs, RhsClosure
  <2> HIDE DEF ok, declared, lifts, ty
  <2>2. Passed(s, u)
    BY CheckerChecks
  <2> HIDE DEF u
  <2>3. Passed(s, v)
    BY <2>2, CheckerChecks
  <2> HIDE DEF v
  <2>4. Passed(s, w)
    BY <2>3, CheckerChecks
  <2> HIDE DEF w
  <2> QED  BY <2>1, <2>4, SidePasses
<1>2. CASE sub = ".undefined"
  <2>1. CheckedRhs(t, l, sub, isalloc) = IsLifted(t, l.type)
    BY <1>2 DEF CheckedRhs
  <2> QED  BY <2>1, SidePasses
<1>3. CASE sub = ".apply"
  <2> DEFINE r == RhsType(t, l, ".apply")
             u == CFinds(t, l.args)
             q == WellTyped(u, r)
             declared == \A i \in 2 .. Len(l.args) :
                            ~isalloc /\ t.bound[Register(t.regs, l.args[i])] =>
                                Lifted(TypeAt(t, l.args[i]))
             v == IF u.fatal # "" THEN u ELSE Check(q, declared, "efv")
             w == IsBoxed(v, r)
             lifts == isalloc => Lifted(r)
  <2>1. CheckedRhs(t, l, sub, isalloc) = Check(w, lifts, "kind")
    BY <1>3 DEF CheckedRhs, RhsApply
  <2> HIDE DEF declared, lifts, r
  <2>2. Passed(s, u)
    BY SidePasses
  <2> HIDE DEF u
  <2>3. Passed(s, q)
    BY <2>2, SidePasses
  <2> HIDE DEF q
  <2>4. Passed(s, v)
    BY <2>2, <2>3, CheckerChecks
  <2> HIDE DEF v
  <2>5. Passed(s, w)
    BY <2>4, SidePasses
  <2> HIDE DEF w
  <2> QED  BY <2>1, <2>5, CheckerChecks
<1>4. CASE sub = ".appty"
  <2> DEFINE r == RhsType(t, l, sub)
             u == CFinds(t, l.args)
             v == WellTyped(u, r)
  <2>1. CheckedRhs(t, l, sub, isalloc) = IsBoxed(v, r)
    BY <1>4 DEF CheckedRhs
  <2> HIDE DEF r
  <2>2. Passed(s, u)
    BY SidePasses
  <2> HIDE DEF u
  <2>3. Passed(s, v)
    BY <2>2, SidePasses
  <2> HIDE DEF v
  <2> QED  BY <2>1, <2>3, SidePasses
<1> QED  BY <1>1, <1>2, <1>3, <1>4 DEF Subs

\* The product a field of which is taken, as the checker sees it.
CheckedProduct(s, l) ==
    LET known == TypeAt(s, l.args[1])
    IN  IF l.op = ".field" THEN known ELSE IF known.node = "lift" THEN known.args[1] ELSE BadType

\* The checker gives the register of an allocation the type ty; for what the emitter has
\* a type of too, it is this one.
Valued(s, l, ty) ==
    /\ l.op = ".closure" => ty = SubCodes[l.code].result
    /\ l.op \in {".constr", ".exconstr", ".undefined"} => ty = l.type
    /\ l.op \in {".field", ".lfield"} =>
           LET p == CheckedProduct(s, l)
               k == FieldOf(p, l.names[1])
           IN  p.node = "product" /\ k # 0 /\ ty = p.args[k]
    /\ l.op = ".apply" => ty = RhsType(s, l, ".apply") /\ ty # BadType

\* The checker goes on only behind an application that has a type.
LEMMA ApplyTyped ==
    ASSUME NEW s, NEW l, NEW isalloc, IsChecker(s), Alive(RhsApply(s, l, isalloc))
    PROVE  RhsType(s, l, ".apply") # BadType
<1> DEFINE r == RhsType(s, l, ".apply")
           u == CFinds(s, l.args)
           typed == r # BadType
           q == Check(u, typed, "type")
           declared == \A i \in 2 .. Len(l.args) :
                          ~isalloc /\ s.bound[Register(s.regs, l.args[i])] =>
                              Lifted(TypeAt(s, l.args[i]))
           v == IF u.fatal # "" THEN u ELSE Check(q, declared, "efv")
           boxed == Boxed(r)
           w == Check(v, boxed, "boxed")
           lifts == isalloc => Lifted(r)
<1>1. RhsApply(s, l, isalloc) = Check(w, lifts, "kind")
  BY DEF RhsApply, WellTyped, IsBoxed
<1>0. typed => RhsType(s, l, ".apply") # BadType
  OBVIOUS
<1> HIDE DEF declared, lifts, r, typed, boxed
<1>2. Passed(s, u)
  BY PassedItself, SidePasses
<1> HIDE DEF u
<1>3. Passed(s, q) /\ (Alive(q) => typed)
  <2>1. IsChecker(u)
    BY <1>2 DEF Passed
  <2>2. Alive(q) => typed
    BY <2>1 DEF Check, Fatal, IsChecker, Alive
  <2> QED  BY <1>2, <2>2, CheckerChecks
<1> HIDE DEF q
<1>4. Passed(s, v) /\ (Alive(v) => typed)
  <2>1. Passed(s, Check(q, declared, "efv")) /\ (Alive(Check(q, declared, "efv")) => Alive(q))
    BY <1>3, CheckerChecks, CheckHolds DEF Passed
  <2> QED  BY <1>2, <1>3, <2>1 DEF Alive
<1> HIDE DEF v
<1>5. Passed(s, w) /\ (Alive(w) => Alive(v))
  BY <1>4, CheckerChecks, CheckHolds DEF Passed
<1> HIDE DEF w
<1>6. Alive(w)
  BY <1>1, <1>5, CheckHolds DEF Passed
<1> QED  BY <1>0, <1>4, <1>5, <1>6

\* A .bind adds its register, also where it has no label.
LEMMA CheckBindIn ==
    ASSUME NEW s, NEW l, IsChecker(s), l.sub \in Subs, Alive(CheckBind(s, l))
    PROVE  RegisterIn(s, CheckBind(s, l), l, Statement(RhsType(s, l, l.sub), FALSE))
<1> DEFINE ty == Statement(RhsType(s, l, l.sub), FALSE)
           isalloc == FALSE
           t == CheckedRhs(s, l, l.sub, isalloc)
           u == WellTyped(t, ty)
           b == TRUE
           v == NewRegister(u, l, ty, b)
<1>1. CheckBind(s, l) = v
  BY DEF CheckBind
<1> HIDE DEF ty, isalloc, b
<1>2. Passed(s, t)
  BY PassedItself, RhsPasses
<1> HIDE DEF t
<1>3. Passed(s, u)
  BY <1>2, SidePasses
<1> HIDE DEF u
<1>4. Alive(v) => RegisterIn(s, v, l, ty)
  BY <1>3, NewRegisterIn
<1> HIDE DEF v
<1> QED  BY <1>1, <1>4 DEF ty

\* Every allocation names its register behind the checks, with the type of its op.
LEMMA AllocValued ==
    ASSUME NEW s, NEW l, IsChecker(s), Known(l), Group(l) = "alloc"
    PROVE  \E u, ty : /\ Passed(s, u) /\ CheckAlloc(s, l) = DataRegister(u, l, ty)
                      /\ Alive(u) => Valued(s, l, ty)
<1> DEFINE t == CheckAlloc(s, l)
           found == CFinds(s, l.args)
<1>0. Passed(s, found)
  BY PassedItself, SidePasses
<1>1. CASE l.op \in {".closure", ".undefined", ".apply", ".appty"}
  <2> DEFINE isalloc == TRUE
             u == CheckedRhs(s, l, l.op, isalloc)
             ty == RhsType(s, l, l.op)
  <2>1. t = DataRegister(u, l, ty)
    BY <1>1 DEF CheckAlloc, CheckThunk
  <2>3. l.op = ".apply" => u = RhsApply(s, l, isalloc)
    BY DEF CheckedRhs
  <2>4. l.op = ".closure" => ty = SubCodes[l.code].result
    BY DEF RhsType
  <2>5. l.op = ".undefined" => ty = l.type
    BY DEF RhsType
  <2> HIDE DEF isalloc
  <2>2. Passed(s, u)
    BY <1>1, PassedItself, RhsPasses DEF Subs
  <2>6. ASSUME Alive(u) PROVE l.op = ".apply" => ty = RhsType(s, l, ".apply") /\ ty # BadType
    BY <2>3, <2>6, ApplyTyped
  <2> HIDE DEF u, ty
  <2>7. Alive(u) => Valued(s, l, ty)
    BY <1>1, <2>4, <2>5, <2>6 DEF Valued
  <2> QED  BY <2>1, <2>2, <2>7
<1>2. CASE l.op = ".prim"
  <2> DEFINE r == PrimResult(s, l)
             p == WellTyped(found, r)
             q == IsUnlifted(p, r)
             u == IsBoxed(q, r)
  <2>1. t = DataRegister(u, l, r)
    BY <1>2 DEF CheckAlloc, CheckPrim
  <2> HIDE DEF r, found
  <2>2. Passed(s, p)
    BY <1>0, SidePasses
  <2> HIDE DEF p
  <2>3. Passed(s, q)
    BY <2>2, SidePasses
  <2> HIDE DEF q
  <2>4. Passed(s, u)
    BY <2>3, SidePasses
  <2>9. Alive(u) => Valued(s, l, r)
    BY <1>2 DEF Valued
  <2> HIDE DEF u
  <2> QED  BY <2>1, <2>9, <2>4
<1>3. CASE l.op = ".impprim"
  <2> DEFINE r == PrimResult(s, l)
             u == WellTyped(found, Statement(r, FALSE))
  <2>1. t = DataRegister(u, l, r)
    BY <1>3 DEF CheckAlloc, CheckImpprim
  <2> HIDE DEF r, found
  <2>2. Passed(s, u)
    <3> DEFINE ty == Statement(r, FALSE)
    <3> HIDE DEF ty
    <3>1. Passed(s, WellTyped(found, ty))
      BY <1>0, SidePasses
    <3> QED  BY <3>1 DEF ty
  <2>9. Alive(u) => Valued(s, l, r)
    BY <1>3 DEF Valued
  <2> HIDE DEF u
  <2> QED  BY <2>1, <2>9, <2>2
<1>4. CASE l.op \in {".constr", ".exconstr"}
  <2> DEFINE k == IF l.type.node = "sum" THEN FieldOf(l.type, l.names[1]) ELSE 0
             fields == Tail(l.names)
             given == UbProduct(fields, [i \in DOMAIN l.args |-> TypeAt(s, l.args[i])])
             taken == IF k = 0 THEN BadType ELSE Opened(l.type.args[k], l.ntyargs)
             sum == k # 0 /\ Ordered(l.type.names)
             ordered == Ordered(fields)
             fits == given = taken
             p == Check(found, sum, "constructor")
             q == Check(p, ordered, "fields")
             u == Check(q, fits, "type")
  <2>1. t = DataRegister(u, l, l.type)
    BY <1>4 DEF CheckAlloc, CheckConstr
  <2> HIDE DEF sum, ordered, fits, found
  <2>2. Passed(s, p)
    BY <1>0, CheckerChecks
  <2> HIDE DEF p
  <2>3. Passed(s, q)
    BY <2>2, CheckerChecks
  <2> HIDE DEF q
  <2>4. Passed(s, u)
    BY <2>3, CheckerChecks
  <2>9. Alive(u) => Valued(s, l, l.type)
    BY <1>4 DEF Valued
  <2> HIDE DEF u
  <2> QED  BY <2>1, <2>9, <2>4
<1>5. CASE l.op \in {".record", ".lrecord"}
  <2> DEFINE ty == RecordType(s, l)
             fits == l.type \in {NoType, RecordType(s, l)}
             u == Check(found, fits, "type")
  <2>1. t = DataRegister(u, l, ty)
    BY <1>5 DEF CheckAlloc, CheckRecord
  <2> HIDE DEF ty, fits, found
  <2>2. Passed(s, u)
    BY <1>0, CheckerChecks
  <2>9. Alive(u) => Valued(s, l, ty)
    BY <1>5 DEF Valued
  <2> HIDE DEF u
  <2> QED  BY <2>1, <2>9, <2>2
<1>6. CASE l.op \in {".field", ".lfield"}
  <2> DEFINE known == TypeAt(s, l.args[1])
             p == IF l.op = ".field" THEN known
                  ELSE IF known.node = "lift" THEN known.args[1] ELSE BadType
             k == IF p.node = "product" THEN FieldOf(p, l.names[1]) ELSE 0
             field == IF k = 0 THEN BadType ELSE p.args[k]
             has == k # 0
             lifts == l.op = ".lfield" => Lifted(field)
             q == Check(found, has, "field")
             u == Check(q, lifts, "kind")
  <2>1. t = DataRegister(u, l, field)
    BY <1>6 DEF CheckAlloc, CheckField
  <2>7. has => /\ CheckedProduct(s, l).node = "product" /\ FieldOf(CheckedProduct(s, l), l.names[1]) # 0
               /\ field = CheckedProduct(s, l).args[FieldOf(CheckedProduct(s, l), l.names[1])]
    BY <1>6 DEF CheckedProduct
  <2> HIDE DEF has, lifts, field, found
  <2>2. Passed(s, q)
    BY <1>0, CheckerChecks
  <2>8. Alive(q) => has
    <3>1. IsChecker(found)
      BY <1>0 DEF Passed
    <3> QED  BY <3>1 DEF Check, Fatal, IsChecker, Alive
  <2> HIDE DEF q
  <2>3. Passed(s, u)
    BY <2>2, CheckerChecks
  <2>9. Alive(u) => Valued(s, l, field)
    <3> SUFFICES ASSUME Alive(u) PROVE Valued(s, l, field)
      OBVIOUS
    <3>1. Alive(q) /\ has
      BY <2>2, <2>8, CheckHolds DEF Passed
    <3> QED  BY <1>6, <2>7, <3>1 DEF Valued
  <2> HIDE DEF u
  <2> QED  BY <2>1, <2>9, <2>3
<1>7. CASE l.op = ".lifted"
  <2> DEFINE ty == TypeAt(s, l.args[1])
             u == IsUnlifted(found, ty)
             lifted == Lift(ty)
  <2>1. t = DataRegister(u, l, lifted)
    BY <1>7 DEF CheckAlloc, CheckLifted
  <2> HIDE DEF ty, lifted, found
  <2>2. Passed(s, u)
    BY <1>0, SidePasses
  <2>9. Alive(u) => Valued(s, l, lifted)
    BY <1>7 DEF Valued
  <2> HIDE DEF u
  <2> QED  BY <2>1, <2>9, <2>2
<1>8. CASE l.op = ".cast"
  <2> DEFINE fits == TypeAt(s, l.args[1]) = l.type.args[1]
             ty == l.type.args[2]
             u == Check(found, fits, "type")
  <2>1. t = DataRegister(u, l, ty)
    BY <1>8 DEF CheckAlloc, CheckCastAlloc
  <2> HIDE DEF fits, ty, found
  <2>2. Passed(s, u)
    BY <1>0, CheckerChecks
  <2>9. Alive(u) => Valued(s, l, ty)
    BY <1>8 DEF Valued
  <2> HIDE DEF u
  <2> QED  BY <2>1, <2>9, <2>2
<1> QED  BY <1>1, <1>2, <1>3, <1>4, <1>5, <1>6, <1>7, <1>8, OpsOfGroups

\* So does every allocation, of that type.
LEMMA CheckAllocIn ==
    ASSUME NEW s, NEW l, IsChecker(s), Known(l), Group(l) = "alloc", Alive(CheckAlloc(s, l))
    PROVE  \E ty : RegisterIn(s, CheckAlloc(s, l), l, ty) /\ Valued(s, l, ty)
<1>1. PICK u, ty : /\ Passed(s, u) /\ CheckAlloc(s, l) = DataRegister(u, l, ty)
                   /\ Alive(u) => Valued(s, l, ty)
  BY AllocValued
<1>2. RegisterIn(s, CheckAlloc(s, l), l, ty)
  BY <1>1, DataRegisterIn
<1>3. Alive(u)
  BY <1>1 DEF DataRegister, NewRegister, Fatal, Alive, Passed, IsChecker
<1> QED  BY <1>1, <1>2, <1>3

-----------------------------------------------------------------------------
(* The end of a case.                                                      *)

\* A frame has the number of its cases that are left and of its registers.
HasFrame(f) == "left" \in DOMAIN f /\ "nregs" \in DOMAIN f

\* Two frames of one branch, as far as registers go.
AlikeFrame(f, g) == HasFrame(f) /\ HasFrame(g) /\ f.left = g.left /\ f.nregs = g.nregs

\* Frames of the same branches, as far as registers go.
Alike(a, b) == /\ IsSeq(a) /\ IsSeq(b) /\ Len(a) = Len(b)
               /\ \A i \in 1 .. Len(a) : AlikeFrame(a[i], b[i])

\* A check, passed or not, leaves the registers and the frames.
LEMMA CheckAnyway ==
    ASSUME NEW s, NEW ok, NEW why, IsChecker(s)
    PROVE  LET t == Check(s, ok, why)
           IN  /\ IsChecker(t) /\ t.block = s.block /\ t.branches = s.branches
               /\ t.regs = s.regs /\ t.types = s.types /\ t.codes = s.codes
  BY DEF Check, Fatal, IsChecker

\* The end of a case cuts off its registers and takes its frame away, unless a case is
\* left.
LEMMA EndCaseIs ==
    ASSUME NEW e, NEW frame, IsChecker(e.state)
    PROVE  LET s == e.state
               u == EndCase(e, frame).state
               n == Len(s.branches)
           IN  /\ IsChecker(u) /\ u.regs = SubSeq(s.regs, 1, frame.nregs) /\ u.codes = s.codes
               /\ u.types = SubSeq(s.types, 1, frame.nregs)
               /\ frame.left > 0 => u.block = "cases"
               /\ \E x : u.branches =
                      LET b == [s.branches EXCEPT ![n] = [s.branches[n] EXCEPT !.result = x]]
                      IN  IF frame.left > 0 THEN b ELSE Front(b)
<1> DEFINE s == e.state
           n == Len(s.branches)
           x == Unwound(s, e.type, frame.stack)
           typed == x # BadType
           p == Check(s, typed, "type")
           fits == CaseFits(s, frame)
           q == Check(p, fits, "case")
           one == frame.result \in {NoType, x}
           r == Check(q, one, "result")
           left == [r EXCEPT !.regs = SubSeq(@, 1, frame.nregs), !.types = SubSeq(@, 1, frame.nregs),
                        !.bound = SubSeq(@, 1, frame.nregs), !.others = frame.others,
                        !.tyvars = frame.tyvars, !.stack = SubSeq(@, 1, frame.stack),
                        !.block = frame.block, !.karg = frame.karg, !.fields = frame.fields,
                        !.exargs = frame.exargs, !.branches[n].result = x]
           cases == [left EXCEPT !.block = "cases"]
           out == [left EXCEPT !.branches = Front(@)]
<1>1. EndCase(e, frame).state = IF frame.left > 0 THEN cases ELSE out
  BY DEF EndCase, WellTyped
<1> HIDE DEF x, typed, fits, one, n, s
<1>2. /\ IsChecker(p) /\ p.block = s.block /\ p.branches = s.branches
      /\ p.regs = s.regs /\ p.types = s.types /\ p.codes = s.codes
  BY CheckAnyway DEF s
<1> HIDE DEF p
<1>3. /\ IsChecker(q) /\ q.block = p.block /\ q.branches = p.branches
      /\ q.regs = p.regs /\ q.types = p.types /\ q.codes = p.codes
  BY <1>2, CheckAnyway
<1> HIDE DEF q
<1>4. /\ IsChecker(r) /\ r.block = q.block /\ r.branches = q.branches
      /\ r.regs = q.regs /\ r.types = q.types /\ r.codes = q.codes
  BY <1>3, CheckAnyway
<1> HIDE DEF r
<1>5. /\ IsChecker(left) /\ left.types = SubSeq(r.types, 1, frame.nregs)
      /\ left.regs = SubSeq(r.regs, 1, frame.nregs) /\ left.codes = r.codes
      /\ left.branches = [r.branches EXCEPT ![n] = [r.branches[n] EXCEPT !.result = x]]
  BY <1>4 DEF IsChecker
<1> HIDE DEF left
<1>6. /\ cases.types = left.types /\ out.types = left.types
      /\ IsChecker(cases) /\ cases.regs = left.regs /\ cases.codes = left.codes
      /\ cases.block = "cases" /\ cases.branches = left.branches
      /\ IsChecker(out) /\ out.regs = left.regs /\ out.codes = left.codes
      /\ out.branches = Front(left.branches)
  BY <1>5 DEF IsChecker
<1> HIDE DEF cases, out
<1> DEFINE u == EndCase(e, frame).state
           b == [s.branches EXCEPT ![n] = [s.branches[n] EXCEPT !.result = x]]
<1>8. left.branches = b
  BY <1>2, <1>3, <1>4, <1>5
<1> HIDE DEF b, u
<1>7. /\ IsChecker(u) /\ u.regs = SubSeq(s.regs, 1, frame.nregs) /\ u.codes = s.codes
      /\ u.types = SubSeq(s.types, 1, frame.nregs)
      /\ frame.left > 0 => u.block = "cases"
      /\ u.branches = IF frame.left > 0 THEN b ELSE Front(b)
  BY <1>1, <1>2, <1>3, <1>4, <1>5, <1>6, <1>8 DEF u
<1> QED  BY <1>7 DEF u, b, n, s

\* A frame replaced.
Put(b, k, x) == [b EXCEPT ![k] = x]

\* Its facts.
LEMMA PutIs ==
    ASSUME NEW b, NEW k, NEW x, IsSeq(b)
    PROVE  /\ IsSeq(Put(b, k, x)) /\ Len(Put(b, k, x)) = Len(b)
           /\ \A i \in 1 .. Len(b) : Put(b, k, x)[i] = IF i = k THEN x ELSE b[i]
<1> DEFINE c == [b EXCEPT ![k] = x]
<1>1. IsSeq(c) /\ Len(c) = Len(b)
  BY FramesExcept, Zenon
<1>2. \A i \in 1 .. Len(b) : c[i] = IF i = k THEN x ELSE b[i]
  <2>1. DOMAIN b = 1 .. Len(b)
    BY FramesFacts
  <2> QED  BY <2>1
<1> QED  BY <1>1, <1>2 DEF Put

\* The type of a branch's result says nothing of registers.
LEMMA ResultAlike ==
    ASSUME NEW f, NEW g, NEW x, AlikeFrame(f, g)
    PROVE  AlikeFrame(f, [g EXCEPT !.result = x])
  BY DEF AlikeFrame, HasFrame

\* The checker after the cases of a sequence of frames have ended.
CasesEnded(s, seq) == FoldLeft(EndCase, s, seq)

\* That fold, one frame after the other.
LEMMA CasesUnroll ==
    ASSUME NEW s, NEW seq, NEW n \in Nat, Spans(seq, n)
    PROVE  \E f : /\ f[0] = s
                  /\ \A k \in 1 .. n : f[k] = EndCase(f[k - 1], seq[k])
                  /\ CasesEnded(s, seq) = f[n]
<1> DEFINE Is(f, m) ==
      f = [t \in SUBSET (1 .. m) |-> IF t = {} THEN s
                                     ELSE EndCase(f[t \ {Max(t)}], seq[Max(t)])]
           T == {m \in 0 .. n : \E f : Is(f, m)}
<1>1. 0 \in T
  <2> DEFINE f == [t \in SUBSET (1 .. 0) |-> s]
  <2>1. Is(f, 0)
    OBVIOUS
  <2> QED  BY <2>1
<1>2. \A m \in 1 .. n : m - 1 \in T => m \in T
  <2> TAKE m \in 1 .. n
  <2> HAVE m - 1 \in T
  <2>1. PICK g : Is(g, m - 1)
    OBVIOUS
  <2> DEFINE f == [t \in SUBSET (1 .. m) |->
                      IF m \in t THEN EndCase(g[t \ {m}], seq[m]) ELSE g[t]]
  <2>2. ASSUME NEW t \in SUBSET (1 .. m)
        PROVE  f[t] = IF t = {} THEN s ELSE EndCase(f[t \ {Max(t)}], seq[Max(t)])
    <3>1. CASE m \in t
      <4>1. Max(t) = m
        <5>1. m \in Nat /\ t # {}
          BY <3>1
        <5> QED  BY <3>1, <5>1, MaxOfUpTo
      <4>2. t # {} /\ f[t \ {m}] = g[t \ {m}]
        BY <3>1
      <4> QED  BY <3>1, <4>1, <4>2
    <3>2. CASE m \notin t
      <4>1. t \in SUBSET (1 .. m - 1)
        BY <3>2
      <4>2. f[t] = g[t] /\ f[t \ {Max(t)}] = g[t \ {Max(t)}]
        BY <3>2
      <4>3. g[t] = IF t = {} THEN s ELSE EndCase(g[t \ {Max(t)}], seq[Max(t)])
        BY <2>1, <4>1
      <4> QED  BY <4>2, <4>3
    <3> QED  BY <3>1, <3>2
  <2>3. Is(f, m)
    <3> DEFINE h == [t \in SUBSET (1 .. m) |-> IF t = {} THEN s
                                     ELSE EndCase(f[t \ {Max(t)}], seq[Max(t)])]
    <3>1. \A t \in SUBSET (1 .. m) : f[t] = h[t]
      <4> HIDE DEF f
      <4> QED  BY <2>2
    <3> QED  BY <3>1
  <2> HIDE DEF f
  <2>4. m \in 0 .. n
    OBVIOUS
  <2> HIDE DEF Is
  <2> QED  BY <2>3, <2>4
<1>3. \E f : Is(f, n)
  <2> HIDE DEF T
  <2>1. n \in T
    BY <1>1, <1>2, UpTo
  <2> QED  BY <2>1 DEF T
<1> DEFINE iter == CHOOSE f : Is(f, n)
<1>4. Is(iter, n)
  BY <1>3
<1>5. CasesEnded(s, seq) = iter[1 .. n]
  BY DEF Spans, CasesEnded, FoldLeft, MapThenFoldSet
<1> HIDE DEF iter
<1> DEFINE f == [k \in 0 .. n |-> iter[1 .. k]]
<1>6. f[0] = s
  <2>1. 1 .. 0 = {} /\ {} \in SUBSET (1 .. n)
    OBVIOUS
  <2> QED  BY <1>4, <2>1
<1>7. ASSUME NEW k \in 1 .. n PROVE f[k] = EndCase(f[k - 1], seq[k])
  <2>1. Max(1 .. k) = k
    <3>1. k \in Nat /\ 1 .. k \in SUBSET (1 .. k) /\ 1 .. k # {} /\ k \in 1 .. k
      OBVIOUS
    <3> QED  BY <3>1, MaxOfUpTo
  <2>2. (1 .. k) \ {k} = 1 .. k - 1 /\ 1 .. k # {} /\ 1 .. k \in SUBSET (1 .. n)
    OBVIOUS
  <2>3. iter[1 .. k] = EndCase(iter[1 .. k - 1], seq[k])
    BY <1>4, <2>1, <2>2
  <2> QED  BY <2>3
<1>8. f[n] = iter[1 .. n]
  OBVIOUS
<1> HIDE DEF f
<1> QED  BY <1>5, <1>6, <1>7, <1>8

\* It cuts off the registers as the emitter does, and leaves the outer frames.
LEMMA CasesEndedAre ==
    ASSUME NEW s, NEW ty, IsChecker(s), Alike(s.branches, s.branches)
    PROVE  LET r == CasesEnded([state |-> s, type |-> ty], Ending(s)).state
           IN  /\ IsChecker(r) /\ r.codes = s.codes /\ RegsUnwind(s, r.regs)
               /\ Cuts(s, s.types, r.types)
               /\ Alike(SubSeq(s.branches, 1, StillIn(s)), r.branches)
               /\ StillIn(s) # 0 => r.block = "cases"
<1> DEFINE n == Ended(s)
           L == Len(s.branches)
           b == s.branches
           start == [state |-> s, type |-> ty]
           end == CasesEnded(start, Ending(s))
           m(k) == IF k = n /\ StillIn(s) # 0 THEN StillIn(s) ELSE L - k
           Has(u, k) == /\ IsChecker(u) /\ u.codes = s.codes /\ IsSeq(u.branches)
                        /\ Len(u.branches) = m(k)
                        /\ \A i \in 1 .. m(k) : AlikeFrame(b[i], u.branches[i])
<1>0. IsSeq(b) /\ L \in Nat /\ \A i \in 1 .. L : AlikeFrame(b[i], b[i])
  BY FramesFacts DEF Alike
<1>1. /\ n \in Nat /\ n <= L /\ Spans(Ending(s), n)
      /\ \A k \in 1 .. n : Ending(s)[k] = b[L - k + 1]
  BY <1>0, EndingIs
<1>2. /\ StillIn(s) \in 0 .. L
      /\ StillIn(s) # 0 => b[StillIn(s)].left > 0
      /\ \A i \in 1 .. L : b[i].left > 0 => i <= StillIn(s)
  BY <1>0, StillInIs
<1>3. n = IF StillIn(s) = 0 THEN L ELSE L - StillIn(s) + 1
  BY DEF Ended
<1>4. PICK f : /\ f[0] = start
               /\ \A k \in 1 .. n : f[k] = EndCase(f[k - 1], Ending(s)[k])
               /\ end = f[n]
  <2> HIDE DEF n, start
  <2> QED  BY <1>1, CasesUnroll
<1>5. f[0].state = s
  BY <1>4
<1> HIDE DEF start, n, L, b
<1>6. Has(f[0].state, 0)
  <2>1. m(0) = L
    BY <1>0, <1>1, <1>2, <1>3
  <2> QED  BY <1>0, <1>5, <2>1 DEF b, L
<1>7. ASSUME NEW k \in 1 .. n, Has(f[k - 1].state, k - 1)
      PROVE  /\ Has(f[k].state, k)
             /\ f[k].state.regs = SubSeq(f[k - 1].state.regs, 1, Ending(s)[k].nregs)
             /\ f[k].state.types = SubSeq(f[k - 1].state.types, 1, Ending(s)[k].nregs)
  <2> DEFINE v == f[k - 1].state
             u == f[k].state
             j == L - k + 1
             frame == Ending(s)[k]
  <2>1. j \in 1 .. L /\ m(k - 1) = j /\ frame = b[j] /\ k \in 1 .. L
    BY <1>0, <1>1
  <2>2. IsChecker(v) /\ v.codes = s.codes /\ IsSeq(v.branches) /\ Len(v.branches) = j
    BY <1>7, <2>1
  <2>3. \A i \in 1 .. j : AlikeFrame(b[i], v.branches[i])
    BY <1>7, <2>1
  <2>4. PICK x : /\ u.types = SubSeq(v.types, 1, frame.nregs)
                 /\ IsChecker(u) /\ u.regs = SubSeq(v.regs, 1, frame.nregs) /\ u.codes = v.codes
                 /\ u.branches =
                      LET c == [v.branches EXCEPT ![Len(v.branches)]
                                    = [v.branches[Len(v.branches)] EXCEPT !.result = x]]
                      IN  IF frame.left > 0 THEN c ELSE Front(c)
    <3> DEFINE e == f[k - 1]
               w == EndCase(e, frame).state
    <3>1. f[k].state = w /\ IsChecker(e.state)
      BY <1>4, <2>2
    <3> HIDE DEF frame, e
    <3>2. /\ w.types = SubSeq(e.state.types, 1, frame.nregs)
          /\ IsChecker(w) /\ w.regs = SubSeq(e.state.regs, 1, frame.nregs) /\ w.codes = e.state.codes
          /\ \E x : w.branches =
                LET c == [e.state.branches EXCEPT ![Len(e.state.branches)]
                              = [e.state.branches[Len(e.state.branches)] EXCEPT !.result = x]]
                IN  IF frame.left > 0 THEN c ELSE Front(c)
      BY <3>1, EndCaseIs, Zenon
    <3> HIDE DEF w
    <3> QED  BY <3>1, <3>2, Zenon DEF e
  <2> DEFINE g == [v.branches[j] EXCEPT !.result = x]
             c == [v.branches EXCEPT ![j] = g]
  <2>5. u.branches = IF frame.left > 0 THEN c ELSE Front(c)
    BY <2>2, <2>4
  <2>6. AlikeFrame(b[j], g)
    <3>1. AlikeFrame(b[j], v.branches[j])
      BY <2>1, <2>3
    <3> DEFINE old == v.branches[j]
    <3> HIDE DEF old
    <3>2. AlikeFrame(b[j], [old EXCEPT !.result = x])
      BY <3>1, ResultAlike DEF old
    <3> QED  BY <3>2 DEF old
  <2> HIDE DEF g, u, v, j
  <2>7. /\ IsSeq(c) /\ Len(c) = Len(v.branches)
        /\ \A i \in 1 .. Len(v.branches) : c[i] = IF i = j THEN g ELSE v.branches[i]
    <3>1. IsSeq(v.branches) /\ c = Put(v.branches, j, g)
      BY <2>2 DEF Put
    <3> HIDE DEF c
    <3> QED  BY <3>1, PutIs
  <2>8. IsSeq(c) /\ Len(c) = j /\ \A i \in 1 .. j : AlikeFrame(b[i], c[i])
    <3> HIDE DEF c
    <3> QED  BY <2>2, <2>3, <2>6, <2>7
  <2> HIDE DEF c
  <2>9. CASE frame.left > 0
    <3>1. m(k) = j
      BY <1>0, <1>1, <1>2, <1>3, <2>1, <2>9 DEF j
    <3> QED  BY <2>2, <2>4, <2>5, <2>8, <2>9, <3>1 DEF u, v
  <2>10. CASE ~(frame.left > 0)
    <3>1. m(k) = j - 1
      BY <1>0, <1>1, <1>2, <1>3, <2>1, <2>10 DEF j
    <3>2. Front(c) = SubSeq(c, 1, j - 1) /\ j - 1 \in 0 .. Len(c)
      BY <2>1, <2>8 DEF Front
    <3>3. /\ IsSeq(Front(c)) /\ Len(Front(c)) = j - 1
          /\ \A i \in 1 .. j - 1 : Front(c)[i] = c[i]
      BY <2>8, <3>2, FramesPrefix
    <3>4. \A i \in 1 .. j - 1 : AlikeFrame(b[i], Front(c)[i])
      BY <2>1, <2>8, <3>3
    <3> QED  BY <2>2, <2>4, <2>5, <2>10, <3>1, <3>3, <3>4 DEF u, v
  <2> QED  BY <2>9, <2>10
<1> HIDE DEF Has
<1> DEFINE T == {k \in 0 .. n : Has(f[k].state, k)}
<1>8. \A k \in 0 .. n : k \in T
  <2>1. 0 \in T
    BY <1>1, <1>6
  <2>2. \A k \in 1 .. n : k - 1 \in T => k \in T
    BY <1>1, <1>7
  <2> HIDE DEF T
  <2> QED  BY <1>1, <2>1, <2>2, UpTo
<1>9. Has(end.state, n)
  BY <1>1, <1>4, <1>8
<1>10. m(n) = StillIn(s)
  BY <1>0, <1>1, <1>2, <1>3
<1>11. IsChecker(end.state) /\ end.state.codes = s.codes
  BY <1>9 DEF Has
<1>12. Alike(SubSeq(b, 1, StillIn(s)), end.state.branches)
  <2>1. /\ IsSeq(SubSeq(b, 1, StillIn(s))) /\ Len(SubSeq(b, 1, StillIn(s))) = StillIn(s)
        /\ \A i \in 1 .. StillIn(s) : SubSeq(b, 1, StillIn(s))[i] = b[i]
    BY <1>0, <1>2, FramesPrefix DEF L, b
  <2>2. /\ IsSeq(end.state.branches) /\ Len(end.state.branches) = StillIn(s)
        /\ \A i \in 1 .. StillIn(s) : AlikeFrame(b[i], end.state.branches[i])
    BY <1>9, <1>10 DEF Has
  <2> QED  BY <2>1, <2>2 DEF Alike
<1>13. RegsUnwind(s, end.state.regs)
  <2> DEFINE g == [k \in 0 .. n |-> f[k].state.regs]
  <2>1. g[0] = s.regs /\ end.state.regs = g[n]
    BY <1>1, <1>4, <1>5
  <2>2. ASSUME NEW k \in 1 .. n PROVE g[k] = SubSeq(g[k - 1], 1, Ending(s)[k].nregs)
    <3>1. k - 1 \in 0 .. n /\ k \in 0 .. n /\ k - 1 \in T
      BY <1>1, <1>8
    <3>2. f[k].state.regs = SubSeq(f[k - 1].state.regs, 1, Ending(s)[k].nregs)
      BY <1>7, <3>1
    <3> QED  BY <3>1, <3>2
  <2> HIDE DEF g
  <2> QED  BY <2>1, <2>2 DEF RegsUnwind, Cuts, n
<1>16. Cuts(s, s.types, end.state.types)
  <2> DEFINE g == [k \in 0 .. n |-> f[k].state.types]
  <2>1. g[0] = s.types /\ end.state.types = g[n]
    BY <1>1, <1>4, <1>5
  <2>2. ASSUME NEW k \in 1 .. n PROVE g[k] = SubSeq(g[k - 1], 1, Ending(s)[k].nregs)
    <3>1. k - 1 \in 0 .. n /\ k \in 0 .. n /\ k - 1 \in T
      BY <1>1, <1>8
    <3>2. f[k].state.types = SubSeq(f[k - 1].state.types, 1, Ending(s)[k].nregs)
      BY <1>7, <3>1
    <3> QED  BY <3>1, <3>2
  <2> HIDE DEF g
  <2> QED  BY <2>1, <2>2 DEF Cuts, n
<1>14. ASSUME StillIn(s) # 0 PROVE end.state.block = "cases"
  <2>1. n \in 1 .. n /\ L - n + 1 = StillIn(s) /\ n - 1 \in 0 .. n
    BY <1>0, <1>1, <1>2, <1>3, <1>14
  <2>2. Ending(s)[n].left > 0 /\ f[n] = EndCase(f[n - 1], Ending(s)[n]) /\ n - 1 \in T
    BY <1>1, <1>2, <1>4, <1>8, <1>14, <2>1
  <2>3. IsChecker(f[n - 1].state)
    BY <2>2 DEF Has
  <2> DEFINE e == f[n - 1]
             frame == Ending(s)[n]
  <2> HIDE DEF e, frame
  <2>4. EndCase(e, frame).state.block = "cases"
    BY <2>2, <2>3, EndCaseIs DEF e, frame
  <2> QED  BY <1>4, <2>2, <2>4 DEF e, frame
<1> HIDE DEF end
<1>15. end = CasesEnded([state |-> s, type |-> ty], Ending(s))
  BY DEF end, start
<1> QED  BY <1>11, <1>12, <1>13, <1>14, <1>15, <1>16 DEF b

-----------------------------------------------------------------------------
(* Terminals, branches and cases.                                          *)

\* The checks on a terminal add nothing.
LEMMA TerminalPasses ==
    ASSUME NEW s, NEW t, NEW l, NEW ty, Passed(s, t), Known(l), Group(l) \in {"terminal", "body"},
           Group(l) = "body" => l.sub \in Subs
    PROVE  Passed(s, CheckedTerminal(t, l, ty))
<1>1. CASE l.op = ".body"
  <2> DEFINE isalloc == FALSE
  <2>1. CheckedTerminal(t, l, ty) = CheckedRhs(t, l, l.sub, isalloc)
    BY <1>1 DEF CheckedTerminal, CheckBody
  <2> HIDE DEF isalloc
  <2>2. l.sub \in Subs
    BY <1>1, OpsOfGroups
  <2> QED  BY <2>1, <2>2, RhsPasses
<1>2. CASE l.op = ".ubprim"
  <2> DEFINE ok == ty.node = "ubsum"
  <2>1. CheckedTerminal(t, l, ty) = Check(t, ok, "type")
    BY <1>2 DEF CheckedTerminal, CheckUbprim
  <2> HIDE DEF ok
  <2> QED  BY <2>1, CheckerChecks
<1>3. CASE l.op = ".lprim"
  <2> DEFINE u == IsLifted(t, ty)
  <2>1. CheckedTerminal(t, l, ty) = IsBoxed(u, ty)
    BY <1>3 DEF CheckedTerminal, CheckLprim
  <2>2. Passed(s, u)
    BY SidePasses
  <2> HIDE DEF u
  <2> QED  BY <2>1, <2>2, SidePasses
<1>4. CASE l.op = ".yield"
  <2>1. CheckedTerminal(t, l, ty) = IsUnlifted(t, ty)
    BY <1>4 DEF CheckedTerminal, CheckYield
  <2> QED  BY <2>1, SidePasses
<1>5. CASE l.op \in {".undef", ".enter"}
  <2>1. CheckedTerminal(t, l, ty) = IsLifted(t, ty)
    BY <1>5 DEF CheckedTerminal, CheckUndef, CheckEnter
  <2> QED  BY <2>1, SidePasses
<1> QED  BY <1>1, <1>2, <1>3, <1>4, <1>5, OpsOfGroups

\* The checker t is s after the blocks that end have ended.
CheckerEndsIn(s, t) ==
    /\ IsChecker(t) /\ Alive(s) /\ t.codes = s.codes /\ RegsUnwind(s, t.regs)
    /\ Cuts(s, s.types, t.types)
    /\ Alike(SubSeq(s.branches, 1, StillIn(s)), t.branches)
    /\ t.block = IF StillIn(s) = 0 THEN "done" ELSE "cases"

\* What is checked of an item at its end leaves the registers.
LEMMA FinishedIs ==
    ASSUME NEW s, NEW ty, NEW kd, IsChecker(s)
    PROVE  LET u == Finished(s, ty, kd)
           IN  /\ IsChecker(u) /\ u.codes = s.codes /\ u.regs = s.regs /\ u.types = s.types
               /\ u.branches = s.branches
               /\ u.block = "done"
<1> DEFINE x == Unwound(s, ty, 0)
           ok == x # BadType
           lifts == kd \in {".forcecont", ".strictcont"} => Lifted(x)
           p == Check(s, ok, "type")
           done == Check(p, lifts, "kind")
           u == [done EXCEPT !.block = "done", !.stack = <<>>, !.result = x]
<1>1. Finished(s, ty, kd) = u
  BY DEF Finished, WellTyped
<1> HIDE DEF x, ok, lifts
<1>2. /\ IsChecker(p) /\ p.branches = s.branches /\ p.regs = s.regs /\ p.types = s.types
      /\ p.codes = s.codes
  BY CheckAnyway
<1> HIDE DEF p
<1>3. /\ IsChecker(done) /\ done.branches = p.branches /\ done.regs = p.regs
      /\ done.types = p.types /\ done.codes = p.codes
  BY <1>2, CheckAnyway
<1> HIDE DEF done
<1>4. /\ IsChecker(u) /\ u.codes = done.codes /\ u.regs = done.regs
      /\ u.types = done.types /\ u.branches = done.branches
      /\ u.block = "done"
  BY <1>3 DEF IsChecker
<1> HIDE DEF u
<1> QED  BY <1>1, <1>2, <1>3, <1>4

\* CheckTerminal ends the blocks that end.
LEMMA CheckTerminalEnds ==
    ASSUME NEW s, NEW l, NEW kd, IsChecker(s), Alike(s.branches, s.branches), Known(l),
           Group(l) \in {"terminal", "body"}, Group(l) = "body" => l.sub \in Subs,
           Alive(CheckTerminal(s, l, kd))
    PROVE  CheckerEndsIn(s, CheckTerminal(s, l, kd))
<1> DEFINE t == TerminalType(s, l)
           found == CFinds(s, l.args)
           typed == WellTyped(found, t)
           valid == IF found.fatal # "" THEN found ELSE CheckedTerminal(typed, l, t)
           ended == CasesEnded([state |-> valid, type |-> t], Ending(s))
           out == CheckTerminal(s, l, kd)
<1>1. out = IF valid.fatal # "" THEN valid
            ELSE IF StillIn(s) > 0 THEN ended.state
            ELSE Finished(ended.state, ended.type, kd)
  BY DEF CheckTerminal, CasesEnded, FoldLeft, MapThenFoldSet
<1> HIDE DEF t, out
<1>2. Passed(s, found)
  BY PassedItself, SidePasses
<1> HIDE DEF found
<1>3. Passed(s, typed)
  BY <1>2, SidePasses
<1> HIDE DEF typed
<1>4. Passed(s, valid)
  BY <1>2, <1>3, TerminalPasses
<1> HIDE DEF valid
<1>5. valid = s /\ Alive(s)
  <2>1. Alive(valid)
    <3> HIDE DEF ended
    <3> QED  BY <1>1 DEF out, Alive
  <2> QED  BY <1>4, <2>1 DEF Passed
<1>6. ended = CasesEnded([state |-> s, type |-> t], Ending(s))
  BY <1>5
<1> HIDE DEF ended
<1> DEFINE r == ended.state
<1>7. /\ IsChecker(r) /\ r.codes = s.codes /\ RegsUnwind(s, r.regs) /\ Cuts(s, s.types, r.types)
      /\ Alike(SubSeq(s.branches, 1, StillIn(s)), r.branches)
      /\ StillIn(s) # 0 => r.block = "cases"
  BY <1>6, CasesEndedAre
<1> HIDE DEF r
<1>8. out = IF StillIn(s) > 0 THEN r ELSE Finished(r, ended.type, kd)
  BY <1>1, <1>5 DEF r, Alive
<1>9. StillIn(s) \in Nat
  <2>1. IsSeq(s.branches)
    BY DEF Alike
  <2> QED  BY <2>1, StillInIs, FramesFacts
<1>10. CheckerEndsIn(s, out)
  <2>1. CASE StillIn(s) > 0
    BY <1>5, <1>7, <1>8, <1>9, <2>1 DEF CheckerEndsIn
  <2>2. CASE StillIn(s) = 0
    BY <1>5, <1>7, <1>8, <2>2, FinishedIs DEF CheckerEndsIn
  <2> QED  BY <1>9, <2>1, <2>2
<1> QED  BY <1>10 DEF out

\* The checker t is s after a branch.
CheckerBranchesOut(s, t, l) ==
    /\ IsChecker(t) /\ Alive(s)
    /\ t.block = IF l.op = ".analyze" THEN "cases" ELSE "default?"
    /\ \E f : /\ HasFrame(f) /\ f.left = Len(l.names) /\ f.nregs = Len(s.regs)
              /\ t.branches = Append(s.branches, f)
    /\ t.regs = s.regs /\ t.types = s.types /\ t.codes = s.codes

\* CheckBranch makes a frame of the registers there are.
LEMMA CheckBranchBranches ==
    ASSUME NEW s, NEW l, IsChecker(s), Alive(CheckBranch(s, l))
    PROVE  CheckerBranchesOut(s, CheckBranch(s, l), l)
<1> DEFINE f == Frame(s, l)
           found == CFinds(s, l.args)
           sum == TypeAt(s, l.args[1]).node = "sum"
           p == Check(found, sum, "sum")
           all == Len(l.names) = Len(TypeAt(s, l.args[1]).names)
           q == IF l.op = ".analyze" THEN Check(p, all, "constructors") ELSE p
           t == StartBranch(q, l, f)
<1>1. CheckBranch(s, l) = t
  BY DEF CheckBranch, CheckAnalyze, CheckDanalyze, Scrutinised
<1>2. HasFrame(f) /\ f.left = Len(l.names) /\ f.nregs = Len(s.regs)
  BY DEF Frame, HasFrame
<1> HIDE DEF f, sum, all
<1>3. Passed(s, found)
  BY PassedItself, SidePasses
<1> HIDE DEF found
<1>4. Passed(s, p)
  BY <1>3, CheckerChecks
<1> HIDE DEF p
<1>5. Passed(s, q)
  BY <1>4, CheckerChecks
<1> HIDE DEF q
<1>6. /\ IsChecker(t) /\ t.fatal = q.fatal /\ t.regs = q.regs /\ t.types = q.types
      /\ t.codes = q.codes
      /\ t.block = IF l.op = ".analyze" THEN "cases" ELSE "default?"
      /\ t.branches = Append(q.branches, f)
  BY <1>5 DEF StartBranch, Passed, IsChecker
<1> HIDE DEF t
<1>7. q = s /\ Alive(s)
  BY <1>1, <1>5, <1>6 DEF Passed, Alive
<1> QED  BY <1>1, <1>2, <1>6, <1>7 DEF CheckerBranchesOut

\* The frames of a branch one of whose cases starts.
CaseTaken(a, b) ==
    /\ IsSeq(b) /\ Len(b) = Len(a)
    /\ \A i \in 1 .. Len(a) :
           /\ HasFrame(b[i]) /\ b[i].nregs = a[i].nregs
           /\ b[i].left = IF i = Len(a) THEN a[i].left - 1 ELSE a[i].left

\* One case less is left.
LEMMA LeftTaken ==
    ASSUME NEW a, Alike(a, a)
    PROVE  CaseTaken(a, [a EXCEPT ![Len(a)].left = @ - 1])
<1> DEFINE n == Len(a)
           f == [a[n] EXCEPT !.left = a[n].left - 1]
           b == Put(a, n, f)
<1>1. [a EXCEPT ![Len(a)].left = @ - 1] = b
  BY DEF Put
<1>2. IsSeq(a) /\ \A i \in 1 .. n : HasFrame(a[i])
  BY DEF Alike, AlikeFrame
<1>3. \A i \in 1 .. n : i = n => HasFrame(f) /\ f.left = a[n].left - 1 /\ f.nregs = a[n].nregs
  <2> SUFFICES ASSUME HasFrame(a[n])
               PROVE  HasFrame(f) /\ f.left = a[n].left - 1 /\ f.nregs = a[n].nregs
    BY <1>2
  <2> QED  BY DEF HasFrame
<1> HIDE DEF f, n
<1>4. /\ IsSeq(b) /\ Len(b) = Len(a)
      /\ \A i \in 1 .. Len(a) : b[i] = IF i = n THEN f ELSE a[i]
  BY <1>2, PutIs
<1> HIDE DEF b
<1>5. CaseTaken(a, b)
  BY <1>2, <1>3, <1>4 DEF CaseTaken, n
<1> QED  BY <1>1, <1>5

\* Which constructor it is for says nothing of registers.
LEMMA ConstrNoted ==
    ASSUME NEW a, NEW b, NEW k, CaseTaken(a, b)
    PROVE  CaseTaken(a, [b EXCEPT ![Len(a)].constr = k])
<1> DEFINE n == Len(a)
           f == [b[n] EXCEPT !.constr = k]
           c == Put(b, n, f)
<1>1. [b EXCEPT ![Len(a)].constr = k] = c
  BY DEF Put
<1>2. IsSeq(b) /\ Len(b) = n /\ \A i \in 1 .. n : HasFrame(b[i])
  BY DEF CaseTaken
<1>3. \A i \in 1 .. n : i = n => HasFrame(f) /\ f.left = b[n].left /\ f.nregs = b[n].nregs
  <2> SUFFICES ASSUME HasFrame(b[n])
               PROVE  HasFrame(f) /\ f.left = b[n].left /\ f.nregs = b[n].nregs
    BY <1>2
  <2> QED  BY DEF HasFrame
<1> HIDE DEF f, n
<1>4. /\ IsSeq(c) /\ Len(c) = Len(b)
      /\ \A i \in 1 .. Len(b) : c[i] = IF i = n THEN f ELSE b[i]
  BY <1>2, PutIs
<1> HIDE DEF c
<1>5. CaseTaken(a, c)
  BY <1>2, <1>3, <1>4 DEF CaseTaken, n
<1> QED  BY <1>1, <1>5

\* The checker t is s at the start of a case.
CheckerCaseOut(s, t, l) ==
    /\ IsChecker(t) /\ Alive(s) /\ s.block = "cases" /\ l.op = ".case" /\ t.block = "case"
    /\ CaseTaken(s.branches, t.branches) /\ t.regs = s.regs /\ t.types = s.types
    /\ t.codes = s.codes

\* CheckStartCase starts a case.
LEMMA CheckCaseStarts ==
    ASSUME NEW s, NEW l, IsChecker(s), Alike(s.branches, s.branches), Alive(CheckStartCase(s, l))
    PROVE  CheckerCaseOut(s, CheckStartCase(s, l), l)
<1> DEFINE here == l.op = ".case" /\ s.block = "cases"
           p == Check(s, here, "order")
           frame == Last(p.branches)
           k == FieldOf(frame.sum, l.names[1])
           right == /\ l.names[1] = frame.names[Len(frame.names) - frame.left + 1]
                    /\ Ordered(SubSeq(frame.sum.names, 1, k))
                    /\ IF Len(frame.names) = Len(frame.sum.names) THEN k = frame.constr + 1
                       ELSE k > frame.constr
           q == Check(p, right, "constructor")
           r == StartCase(q)
           n == Len(p.branches)
           t == [r EXCEPT !.branches[n].constr = k, !.karg = NoType, !.fields = <<>>, !.exargs = 0]
           out == CheckStartCase(s, l)
<1>1. out = IF p.fatal # "" THEN p ELSE t
  BY DEF CheckStartCase, CheckCase
<1>2. Passed(s, p) /\ (Alive(p) => here)
  BY DEF Check, Fatal, Passed, IsChecker, Alive
<1> HIDE DEF p, k, right, out, n
<1>3. Alive(p) /\ out = t
  <2> HIDE DEF t
  <2> QED  BY <1>1 DEF out, Alive
<1>4. p = s /\ here
  BY <1>2, <1>3 DEF Passed
<1>5. Passed(s, q)
  BY <1>2, CheckerChecks
<1> HIDE DEF q
<1>6. /\ IsChecker(r) /\ r.fatal = q.fatal /\ r.block = "case" /\ r.regs = q.regs
      /\ r.types = q.types /\ r.codes = q.codes
      /\ r.branches = [q.branches EXCEPT ![Len(q.branches)].left = @ - 1]
  BY <1>5 DEF StartCase, Passed, IsChecker
<1> HIDE DEF r
<1>7. /\ IsChecker(t) /\ t.fatal = r.fatal /\ t.block = r.block /\ t.regs = r.regs
      /\ t.types = r.types /\ t.codes = r.codes
      /\ t.branches = [r.branches EXCEPT ![n].constr = k]
  BY <1>6 DEF IsChecker
<1> HIDE DEF t
<1>8. Alive(q) /\ q = s
  <2>1. Alive(q)
    BY <1>3, <1>6, <1>7 DEF out, Alive
  <2> QED  BY <1>5, <2>1 DEF Passed
<1>9. CaseTaken(s.branches, r.branches)
  BY <1>6, <1>8, LeftTaken
<1>10. CaseTaken(s.branches, t.branches)
  <2> DEFINE a == s.branches
             b == r.branches
  <2>1. t.branches = [b EXCEPT ![Len(a)].constr = k] /\ CaseTaken(a, b)
    BY <1>4, <1>7, <1>9 DEF n
  <2> HIDE DEF a, b
  <2>2. CaseTaken(a, [b EXCEPT ![Len(a)].constr = k])
    BY <2>1, ConstrNoted, Zenon
  <2> QED  BY <2>1, <2>2, Zenon DEF a
<1>11. CheckerCaseOut(s, out, l)
  BY <1>3, <1>4, <1>6, <1>7, <1>8, <1>10 DEF CheckerCaseOut
<1> QED  BY <1>11 DEF out

\* The checker t is s at the start of a default.
CheckerDefaultOut(s, t, l) ==
    /\ IsChecker(t) /\ Alive(s) /\ s.block = "default?" /\ l.op = ".default" /\ t.block = "default"
    /\ t.branches = s.branches /\ t.regs = s.regs /\ t.types = s.types /\ t.codes = s.codes

\* CheckStartDefault starts a default.
LEMMA CheckDefaultStarts ==
    ASSUME NEW s, NEW l, IsChecker(s), Alive(CheckStartDefault(s, l))
    PROVE  CheckerDefaultOut(s, CheckStartDefault(s, l), l)
<1> DEFINE here == l.op = ".default" /\ s.block = "default?"
           p == Check(s, here, "order")
           r == StartDefault(p)
           t == [r EXCEPT !.karg = NoType, !.fields = <<>>, !.exargs = 0]
<1>1. CheckStartDefault(s, l) = t
  BY DEF CheckStartDefault
<1>2. Passed(s, p) /\ (Alive(p) => here)
  BY DEF Check, Fatal, Passed, IsChecker, Alive
<1> HIDE DEF p
<1>3. /\ IsChecker(r) /\ r.fatal = p.fatal /\ r.block = "default" /\ r.regs = p.regs
      /\ r.types = p.types
      /\ r.codes = p.codes /\ r.branches = p.branches
  BY <1>2 DEF StartDefault, Passed, IsChecker
<1> HIDE DEF r
<1>4. /\ IsChecker(t) /\ t.fatal = r.fatal /\ t.block = r.block /\ t.regs = r.regs
      /\ t.types = r.types /\ t.codes = r.codes /\ t.branches = r.branches
  BY <1>3 DEF IsChecker
<1> HIDE DEF t
<1>5. p = s /\ here
  BY <1>1, <1>2, <1>3, <1>4 DEF Passed, Alive
<1> QED  BY <1>1, <1>2, <1>3, <1>4, <1>5 DEF CheckerDefaultOut, Alive

-----------------------------------------------------------------------------
(* A step of the checker.                                                  *)

\* The type ty the checker gives the register of a line, for what the emitter has a
\* type of too.
TypedIn(r, l, ty) ==
    /\ Group(l) = "gvar" /\ l.op = ".gvar" => ty = l.type
    /\ Group(l) \in {"fv", "karg", "fkarg", "arg"} => ty = l.type
    /\ Group(l) = "alloc" => Valued(r, l, ty)
    /\ Group(l) = "bind" => ty = Statement(RhsType(r, l, l.sub), FALSE)

\* What the checker, at the loop of a line, does with it, said as of the emitter.
CheckerReadsAt(r, t, l) ==
    \/ Names(l) /\ \E ty : RegisterIn(r, t, l, ty) /\ TypedIn(r, l, ty)
    \/ Group(l) = "subcode" /\ CodeIn(r, t, l)
    \/ Group(l) \in Quiet /\ NothingIn(r, t)
    \/ Group(l) = "branch" /\ CheckerBranchesOut(r, t, l)
    \/ Group(l) \in {"terminal", "body"} /\ CheckerEndsIn(r, t)

\* CheckOp does that, whatever the op.
LEMMA CheckOpReads ==
    ASSUME NEW r, NEW l, NEW kd, IsChecker(r), Alike(r.branches, r.branches), Known(l),
           Group(l) \notin {"case", "default"},
           Group(l) \in {"bind", "body"} => l.sub \in Subs, Alive(CheckOp(r, l, kd))
    PROVE  CheckerReadsAt(r, CheckOp(r, l, kd), l)
<1> DEFINE g == Group(l)
           t == CheckOp(r, l, kd)
<1> HIDE DEF t
<1>1. CASE g = "gvar"
  <2>1. t = CheckDataGvar(r, l)
    BY <1>1 DEF CheckOp, t
  <2> DEFINE ty == IF l.op = ".gvar" THEN l.type ELSE Prim
  <2>2. RegisterIn(r, t, l, ty)
    BY <2>1, CheckGvarIn DEF t
  <2>3. TypedIn(r, l, ty)
    BY <1>1 DEF TypedIn
  <2> HIDE DEF ty
  <2>4. Names(l)
    BY <1>1 DEF Names
  <2> QED  BY <2>2, <2>3, <2>4 DEF CheckerReadsAt, t
<1>2. CASE g = "fv"
  <2>1. t = CheckDataFv(r, l)
    BY <1>2 DEF CheckOp, t
  <2>2. RegisterIn(r, t, l, l.type)
    BY <2>1, CheckFvIn DEF t
  <2>3. TypedIn(r, l, l.type)
    BY <1>2 DEF TypedIn
  <2>4. Names(l)
    BY <1>2 DEF Names
  <2> QED  BY <2>2, <2>3, <2>4 DEF CheckerReadsAt, t
<1>3. CASE g = "karg"
  <2>1. t = CheckContArg(r, l, kd)
    BY <1>3 DEF CheckOp, t
  <2>2. RegisterIn(r, t, l, l.type)
    BY <2>1, CheckContArgIn DEF t
  <2>3. TypedIn(r, l, l.type)
    BY <1>3 DEF TypedIn
  <2>4. Names(l)
    BY <1>3 DEF Names
  <2> QED  BY <2>2, <2>3, <2>4 DEF CheckerReadsAt, t
<1>4. CASE g = "fkarg"
  <2>1. t = CheckFieldContArg(r, l)
    BY <1>4 DEF CheckOp, t
  <2>2. RegisterIn(r, t, l, l.type)
    BY <2>1, CheckFieldArgIn DEF t
  <2>3. TypedIn(r, l, l.type)
    BY <1>4 DEF TypedIn
  <2>4. Names(l)
    BY <1>4 DEF Names
  <2> QED  BY <2>2, <2>3, <2>4 DEF CheckerReadsAt, t
<1>5. CASE g = "arg"
  <2>1. t = CheckDataArg(r, l)
    BY <1>5 DEF CheckOp, t
  <2>2. RegisterIn(r, t, l, l.type)
    BY <2>1, CheckArgIn DEF t
  <2>3. TypedIn(r, l, l.type)
    BY <1>5 DEF TypedIn
  <2>4. Names(l)
    BY <1>5 DEF Names
  <2> QED  BY <2>2, <2>3, <2>4 DEF CheckerReadsAt, t
<1>6. CASE g = "alloc"
  <2>1. t = CheckAlloc(r, l)
    BY <1>6 DEF CheckOp, t
  <2>2. PICK ty : RegisterIn(r, t, l, ty) /\ Valued(r, l, ty)
    BY <1>6, <2>1, CheckAllocIn DEF t
  <2>3. TypedIn(r, l, ty)
    BY <1>6, <2>2 DEF TypedIn
  <2>4. Names(l)
    BY <1>6 DEF Names
  <2> QED  BY <2>2, <2>3, <2>4 DEF CheckerReadsAt, t
<1>7. CASE g = "bind"
  <2>1. t = CheckBind(r, l)
    BY <1>7 DEF CheckOp, t
  <2> DEFINE ty == Statement(RhsType(r, l, l.sub), FALSE)
  <2>2. RegisterIn(r, t, l, ty)
    BY <1>7, <2>1, CheckBindIn DEF t
  <2>3. TypedIn(r, l, ty)
    BY <1>7 DEF TypedIn
  <2> HIDE DEF ty
  <2>4. Names(l)
    BY <1>7 DEF Names
  <2> QED  BY <2>2, <2>3, <2>4 DEF CheckerReadsAt, t
<1>8. CASE g = "subcode"
  <2>1. t = CheckSubcode(r, l)
    BY <1>8 DEF CheckOp, t
  <2>2. CodeIn(r, t, l)
    BY <2>1, CheckSubcodeIn DEF t
  <2> QED  BY <1>8, <2>2 DEF CheckerReadsAt, t
<1>9. CASE g \in {"tygvar", "cogvar", "tylet"}
  <2>1. t = OtherRegister(r)
    BY <1>9 DEF CheckOp, CheckTypeGvar, CheckCogvar, CheckTypeLet, t
  <2>2. NothingIn(r, t)
    BY <2>1, OtherRegisterIn DEF t
  <2> QED  BY <1>9, <2>2 DEF CheckerReadsAt, Quiet, t
<1>10. CASE g = "tyfv"
  <2>1. t = CheckTypeFv(r, l)
    BY <1>10 DEF CheckOp, t
  <2>2. NothingIn(r, t)
    BY <2>1, CheckTypeFvIn DEF t
  <2> QED  BY <1>10, <2>2 DEF CheckerReadsAt, Quiet, t
<1>11. CASE g = "tyarg"
  <2>1. t = CheckTypeArg(r, l)
    BY <1>11 DEF CheckOp, t
  <2>2. NothingIn(r, t)
    BY <2>1, CheckTypeArgIn DEF t
  <2> QED  BY <1>11, <2>2 DEF CheckerReadsAt, Quiet, t
<1>12. CASE g = "exkarg"
  <2>1. t = CheckContTypeArg(r, l)
    BY <1>12 DEF CheckOp, t
  <2>2. NothingIn(r, t)
    BY <2>1, CheckContTypeArgIn DEF t
  <2> QED  BY <1>12, <2>2 DEF CheckerReadsAt, Quiet, t
<1>13. CASE g \in {"cast", "push"}
  <2>1. t = Push(r, l)
    BY <1>13 DEF CheckOp, CheckCast, CheckContPush, t
  <2>2. NothingIn(r, t)
    BY <2>1, PushKeeps DEF t
  <2> QED  BY <1>13, <2>2 DEF CheckerReadsAt, Quiet, t
<1>14. CASE g = "branch"
  <2>1. t = CheckBranch(r, l)
    BY <1>14 DEF CheckOp, t
  <2>2. CheckerBranchesOut(r, t, l)
    BY <2>1, CheckBranchBranches DEF t
  <2> QED  BY <1>14, <2>2 DEF CheckerReadsAt, t
<1>15. CASE g \in {"terminal", "body"}
  <2>1. t = CheckTerminal(r, l, kd)
    BY <1>15 DEF CheckOp, t
  <2>2. CheckerEndsIn(r, t)
    BY <1>15, <2>1, CheckTerminalEnds DEF t
  <2> QED  BY <1>15, <2>2 DEF CheckerReadsAt, t
<1> QED  BY <1>1, <1>2, <1>3, <1>4, <1>5, <1>6, <1>7, <1>8, <1>9, <1>10, <1>11, <1>12, <1>13,
            <1>14, <1>15, OpsOfGroups DEF t

\* The checker has only come to another loop.
CheckerMoved(s, r) ==
    /\ IsChecker(r) /\ r.block = s.block /\ r.branches = s.branches
    /\ r.regs = s.regs /\ r.types = s.types /\ r.codes = s.codes

\* The checker that finds a loop for a line has only moved.
LEMMA CheckerSought ==
    ASSUME NEW s, NEW loops, NEW g, IsChecker(s), Alive(Sought(s, loops, g))
    PROVE  CheckerMoved(s, Sought(s, loops, g)) /\ Alive(s)
<1> DEFINE k == NextLoop(loops, s.loop, g)
           n == k + loops[k].next
           t == [s EXCEPT !.loop = n]
<1>1. Sought(s, loops, g) = IF k = 0 THEN Fatal(s, "order") ELSE t
  BY DEF Sought
<1> HIDE DEF k, n
<1>2. ~Alive(Fatal(s, "order"))
  BY DEF Fatal, IsChecker, Alive
<1>3. CheckerMoved(s, t) /\ t.fatal = s.fatal
  BY DEF IsChecker, CheckerMoved
<1> QED  BY <1>1, <1>2, <1>3 DEF Alive

\* What the checker does with a line.
CheckerStep(s, t, l) ==
    \/ CheckerDefaultOut(s, t, l)
    \/ CheckerCaseOut(s, t, l)
    \/ /\ s.block \notin {"cases", "default?"} /\ l.op # ".case"
       /\ l.op # ".default" => \E r : CheckerMoved(s, r) /\ CheckerReadsAt(r, t, l)

\* A checker that is not stopped by a line does one of these.
LEMMA CheckerSteps ==
    ASSUME NEW s, NEW l, NEW kd, IsChecker(s), Alike(s.branches, s.branches), Known(l),
           Group(l) \in {"bind", "body"} => l.sub \in Subs, Alive(CheckerReads(s, l, kd))
    PROVE  CheckerStep(s, CheckerReads(s, l, kd), l)
<1> DEFINE t == CheckerReads(s, l, kd)
           r == Sought(s, CheckerLoops(s, kd), Group(l))
<1>1. CASE s.block = "default?"
  <2>1. t = CheckStartDefault(s, l)
    BY <1>1 DEF CheckerReads
  <2> QED  BY <2>1, CheckDefaultStarts DEF CheckerStep
<1>2. CASE s.block # "default?" /\ (s.block = "cases" \/ l.op = ".case")
  <2>1. t = CheckStartCase(s, l)
    BY <1>2 DEF CheckerReads
  <2> QED  BY <2>1, CheckCaseStarts DEF CheckerStep
<1>3. CASE s.block \notin {"cases", "default?"} /\ l.op # ".case"
  <2>1. t = IF r.fatal # "" THEN r ELSE CheckOp(r, l, kd)
    BY <1>3 DEF CheckerReads
  <2>2. Alive(r) /\ t = CheckOp(r, l, kd)
    <3> HIDE DEF r
    <3> QED  BY <2>1 DEF Alive
  <2>3. CheckerMoved(s, r)
    BY <2>2, CheckerSought
  <2>4. ASSUME l.op # ".default" PROVE CheckerReadsAt(r, t, l)
    <3>1. Group(l) \notin {"case", "default"}
      BY <1>3, <2>4, StartsAreNoOps
    <3> HIDE DEF r
    <3>2. IsChecker(r) /\ Alike(r.branches, r.branches)
      BY <2>3 DEF CheckerMoved
    <3> QED  BY <2>2, <3>1, <3>2, CheckOpReads
  <2> HIDE DEF r, t
  <2>5. CheckerStep(s, t, l)
    BY <1>3, <2>3, <2>4 DEF CheckerStep
  <2> QED  BY <2>5 DEF t
<1> QED  BY <1>1, <1>2, <1>3

-----------------------------------------------------------------------------
(* Frames that are alike.                                                  *)

\* Frames that are like others are frames.
LEMMA AlikeItself ==
    ASSUME NEW a, NEW b, Alike(a, b)
    PROVE  Alike(a, a) /\ Alike(b, b)
  BY DEF Alike, AlikeFrame

\* Likeness goes on from one to the next.
LEMMA AlikeThrough ==
    ASSUME NEW a, NEW b, NEW c, Alike(a, b), Alike(b, c)
    PROVE  Alike(a, c)
  BY DEF Alike, AlikeFrame

\* The outer frames of two alike are alike.
LEMMA AlikePrefix ==
    ASSUME NEW a, NEW b, NEW m, Alike(a, b), m \in 0 .. Len(a)
    PROVE  Alike(SubSeq(a, 1, m), SubSeq(b, 1, m))
<1>1. IsSeq(a) /\ IsSeq(b) /\ Len(a) = Len(b) /\ \A i \in 1 .. Len(a) : AlikeFrame(a[i], b[i])
  BY DEF Alike
<1>2. /\ IsSeq(SubSeq(a, 1, m)) /\ Len(SubSeq(a, 1, m)) = m
      /\ \A i \in 1 .. m : SubSeq(a, 1, m)[i] = a[i]
  BY <1>1, FramesPrefix
<1>3. /\ IsSeq(SubSeq(b, 1, m)) /\ Len(SubSeq(b, 1, m)) = m
      /\ \A i \in 1 .. m : SubSeq(b, 1, m)[i] = b[i]
  BY <1>1, FramesPrefix
<1>4. \A i \in 1 .. m : AlikeFrame(a[i], b[i])
  <2>1. Len(a) \in Nat
    BY <1>1, FramesFacts
  <2> QED  BY <1>1, <2>1
<1> QED  BY <1>2, <1>3, <1>4 DEF Alike

\* So are they with an inner frame of one branch.
LEMMA AlikeAppend ==
    ASSUME NEW a, NEW b, NEW f, NEW g, Alike(a, b), AlikeFrame(f, g)
    PROVE  Alike(Append(a, f), Append(b, g))
<1>1. IsSeq(a) /\ IsSeq(b) /\ Len(a) = Len(b) /\ \A i \in 1 .. Len(a) : AlikeFrame(a[i], b[i])
  BY DEF Alike
<1>2. /\ IsSeq(Append(a, f)) /\ Len(Append(a, f)) = Len(a) + 1 /\ Append(a, f)[Len(a) + 1] = f
      /\ \A i \in 1 .. Len(a) : Append(a, f)[i] = a[i]
  BY <1>1, FramesAppend
<1>3. /\ IsSeq(Append(b, g)) /\ Len(Append(b, g)) = Len(a) + 1 /\ Append(b, g)[Len(a) + 1] = g
      /\ \A i \in 1 .. Len(a) : Append(b, g)[i] = b[i]
  BY <1>1, FramesAppend
<1>4. Len(a) \in Nat
  BY <1>1, FramesFacts
<1> QED  BY <1>1, <1>2, <1>3, <1>4 DEF Alike

\* So are they after the start of a case.
LEMMA AlikeTaken ==
    ASSUME NEW a, NEW b, NEW c, NEW d, Alike(a, b), CaseTaken(a, c), CaseTaken(b, d)
    PROVE  Alike(c, d)
  BY DEF Alike, AlikeFrame, CaseTaken

\* What the emitter s and the checker t have of names and of frames is alike.
Twins(s, t) == s.regs = t.regs /\ s.codes = t.codes /\ Alike(s.branches, t.branches)

\* Of frames that are alike the same end.
LEMMA AlikeStillIn ==
    ASSUME NEW s, NEW t, Alike(s.branches, t.branches)
    PROVE  StillIn(s) = StillIn(t) /\ Ended(s) = Ended(t)
<1>1. IsSeq(s.branches) /\ IsSeq(t.branches) /\ Len(s.branches) = Len(t.branches)
  BY DEF Alike
<1>2. DOMAIN s.branches = 1 .. Len(s.branches) /\ DOMAIN t.branches = 1 .. Len(s.branches)
  BY <1>1, FramesFacts
<1>3. {i \in DOMAIN s.branches : s.branches[i].left > 0}
        = {i \in DOMAIN t.branches : t.branches[i].left > 0}
  BY <1>2 DEF Alike, AlikeFrame
<1>4. StillIn(s) = StillIn(t)
  BY <1>3 DEF StillIn
<1> QED  BY <1>1, <1>4 DEF Ended

\* The same registers are cut off.
LEMMA AlikeUnwind ==
    ASSUME NEW s, NEW t, NEW r, NEW q, Alike(s.branches, t.branches), s.regs = t.regs,
           RegsUnwind(s, r), RegsUnwind(t, q)
    PROVE  r = q
<1> DEFINE n == Ended(s)
           L == Len(s.branches)
<1>1. IsSeq(s.branches) /\ IsSeq(t.branches) /\ Len(t.branches) = L /\ L \in Nat
  BY FramesFacts DEF Alike
<1>2. /\ n \in Nat /\ n <= L
      /\ \A k \in 1 .. n : Ending(s)[k] = s.branches[L - k + 1]
  BY <1>1, EndingIs
<1>3. Ended(t) = n
  BY AlikeStillIn
<1>4. \A k \in 1 .. n : Ending(t)[k] = t.branches[L - k + 1]
  BY <1>1, <1>3, EndingIs
<1>5. \A k \in 1 .. n : Ending(t)[k].nregs = Ending(s)[k].nregs
  <2> TAKE k \in 1 .. n
  <2>1. L - k + 1 \in 1 .. L
    BY <1>1, <1>2
  <2>2. AlikeFrame(s.branches[L - k + 1], t.branches[L - k + 1])
    BY <2>1 DEF Alike
  <2> QED  BY <1>2, <1>4, <2>2 DEF AlikeFrame
<1>6. PICK f : /\ f[0] = s.regs
               /\ \A k \in 1 .. n : f[k] = SubSeq(f[k - 1], 1, Ending(s)[k].nregs)
               /\ r = f[n]
  BY DEF RegsUnwind, Cuts
<1>7. PICK g : /\ g[0] = t.regs
               /\ \A k \in 1 .. n : g[k] = SubSeq(g[k - 1], 1, Ending(t)[k].nregs)
               /\ q = g[n]
  BY <1>3 DEF RegsUnwind, Cuts
<1> HIDE DEF n, L
<1> DEFINE T == {k \in 0 .. n : f[k] = g[k]}
<1>8. n \in T
  <2>1. 0 \in T
    BY <1>2, <1>6, <1>7
  <2>2. \A k \in 1 .. n : k - 1 \in T => k \in T
    <3> TAKE k \in 1 .. n
    <3> HAVE k - 1 \in T
    <3>1. f[k] = SubSeq(f[k - 1], 1, Ending(s)[k].nregs)
      BY <1>6
    <3>2. g[k] = SubSeq(g[k - 1], 1, Ending(s)[k].nregs)
      BY <1>5, <1>7
    <3>3. f[k - 1] = g[k - 1] /\ k \in 0 .. n
      BY <1>2
    <3> QED  BY <3>1, <3>2, <3>3
  <2> HIDE DEF T
  <2> QED  BY <1>2, <2>1, <2>2, UpTo
<1> QED  BY <1>6, <1>7, <1>8

\* So that what is alike before blocks end is alike behind them.
LEMMA TwinsEnd ==
    ASSUME NEW s, NEW t, NEW u, NEW v, Twins(s, t), EndsIn(s, u), RegsUnwind(s, u.regs),
           CheckerEndsIn(t, v)
    PROVE  Twins(u, v) /\ u.block = v.block
<1>1. StillIn(s) = StillIn(t)
  BY AlikeStillIn DEF Twins
<1>2. StillIn(s) \in 0 .. Len(s.branches)
  <2>1. IsSeq(s.branches)
    BY DEF Twins, Alike
  <2> QED  BY <2>1, StillInIs
<1>3. Alike(u.branches, SubSeq(t.branches, 1, StillIn(t)))
  BY <1>1, <1>2, AlikePrefix DEF Twins, EndsIn
<1>4. Alike(u.branches, v.branches)
  BY <1>3, AlikeThrough DEF CheckerEndsIn
<1>5. u.regs = v.regs
  BY AlikeUnwind DEF Twins, CheckerEndsIn
<1> QED  BY <1>1, <1>4, <1>5 DEF Twins, EndsIn, CheckerEndsIn

-----------------------------------------------------------------------------
(* The registers agree.                                                    *)

\* The emitter e and the checker c are at one place with the same names and frames.
Matched(e, c) == Emitting(e) /\ IsChecker(c) /\ e.block = c.block /\ Twins(e, c)

\* There are no branches in an imperative program.
Flat(e, kd) == kd = ".impprog" => e.branches = <<>> /\ e.block \in {"item", "done"}

\* Its body ends the item.
LEMMA FlatEnds ==
    ASSUME NEW u, NEW t, u.branches = <<>>, EndsIn(u, t)
    PROVE  StillIn(u) = 0 /\ Ended(u) = 0 /\ t.branches = <<>> /\ t.block = "done"
<1>1. IsSeq(u.branches) /\ Len(u.branches) = 0
  BY NoFrames
<1>2. StillIn(u) = 0
  BY <1>1, StillInIs
<1>3. SubSeq(u.branches, 1, 0) = <<>>
  <2>1. u.branches = <<>>
    OBVIOUS
  <2>2. SubSeq(<<>>, 1, 0) = <<>>
    BY SMT
  <2> QED  BY <2>1, <2>2
<1> QED  BY <1>1, <1>2, <1>3 DEF EndsIn, Ended

\* Where no block ends nothing is cut.
LEMMA NothingCut ==
    ASSUME NEW s, NEW x, Ended(s) = 0
    PROVE  Cuts(s, x, x)
<1> DEFINE g == [k \in {0} |-> x]
<1>1. g[0] = x /\ \A k \in 1 .. 0 : g[k] = SubSeq(g[k - 1], 1, Ending(s)[k].nregs)
  OBVIOUS
<1> HIDE DEF g
<1> QED  BY <1>1 DEF Cuts

\* One op read by both keeps them matched.  A body ends the blocks for the checker and
\* the program for the emitter, which is the same since there are no branches.
LEMMA OpMatched ==
    ASSUME NEW r, NEW f, NEW q, NEW d, NEW l, NEW kd, Known(l),
           Matched(r, q), Flat(r, kd), EmitterReadsAt(r, f, l, kd), CheckerReadsAt(q, d, l),
           Emitting(f)
    PROVE  Matched(f, d) /\ Flat(f, kd)
<1>1. CASE Names(l)
  <2>1. NamedIn(r, f, l, Grown(r.out, l)) /\ \E ty : RegisterIn(q, d, l, ty)
    BY <1>1 DEF EmitterReadsAt, CheckerReadsAt, Names, Quiet
  <2> QED  BY <2>1 DEF NamedIn, Stays, RegisterIn, CheckerStays, Matched, Twins, Flat
<1>2. CASE Group(l) = "subcode"
  <2>1. CodedIn(r, f, l, Grown(r.out, l)) /\ CodeIn(q, d, l)
    BY <1>2 DEF EmitterReadsAt, CheckerReadsAt, Names, Quiet
  <2> QED  BY <2>1 DEF CodedIn, Stays, CodeIn, CheckerStays, Matched, Twins, Flat
<1>3. CASE Group(l) \in Quiet
  <2>1. KeptIn(r, f, Grown(r.out, l)) /\ NothingIn(q, d)
    BY <1>3 DEF EmitterReadsAt, CheckerReadsAt, Names, Quiet
  <2> QED  BY <2>1 DEF KeptIn, Stays, NothingIn, CheckerStays, Matched, Twins, Flat
<1>4. CASE Group(l) = "branch"
  <2>1. ~InProgram(r, kd) /\ BranchesOut(r, f, l) /\ CheckerBranchesOut(q, d, l)
    BY <1>4 DEF EmitterReadsAt, CheckerReadsAt, Names, Quiet
  <2>2. kd # ".impprog"
    BY <2>1 DEF InProgram, Flat
  <2>3. PICK g : /\ HasFrame(g) /\ g.left = Len(l.names) /\ g.nregs = Len(q.regs)
                 /\ d.branches = Append(q.branches, g)
    BY <2>1 DEF CheckerBranchesOut
  <2>4. AlikeFrame(Saving(r, l), g)
    BY <2>3 DEF AlikeFrame, HasFrame, Saving, Matched, Twins
  <2>5. Alike(f.branches, d.branches)
    BY <2>1, <2>3, <2>4, AlikeAppend DEF BranchesOut, Matched, Twins
  <2> QED  BY <2>1, <2>2, <2>5 DEF BranchesOut, CheckerBranchesOut, Matched, Twins, Flat
<1>5. CASE Group(l) = "terminal"
  <2>1. /\ ~InProgram(r, kd) /\ CheckerEndsIn(q, d)
        /\ \E u : KeptIn(r, u, Grown(r.out, l)) /\ EndsIn(u, f) /\ RegsUnwind(u, f.regs)
    BY <1>5 DEF EmitterReadsAt, CheckerReadsAt, Names, Quiet
  <2>2. PICK u : KeptIn(r, u, Grown(r.out, l)) /\ EndsIn(u, f) /\ RegsUnwind(u, f.regs)
    BY <2>1
  <2>3. kd # ".impprog"
    BY <2>1 DEF InProgram, Flat
  <2>4. Twins(u, q)
    BY <2>2 DEF KeptIn, Stays, Matched, Twins
  <2>5. Twins(f, d) /\ f.block = d.block
    BY <2>1, <2>2, <2>4, TwinsEnd
  <2> QED  BY <2>1, <2>3, <2>5 DEF CheckerEndsIn, Matched, Flat
<1>6. CASE Group(l) = "body"
  <2>1. /\ InProgram(r, kd) /\ CheckerEndsIn(q, d)
        /\ \E u : KeptIn(r, u, Grown(r.out, l)) /\ EndsIn(u, f) /\ f.regs = u.regs
    BY <1>6 DEF EmitterReadsAt, CheckerReadsAt, Names, Quiet
  <2>2. PICK u : KeptIn(r, u, Grown(r.out, l)) /\ EndsIn(u, f) /\ f.regs = u.regs
    BY <2>1
  <2>3. u.branches = <<>>
    BY <2>1, <2>2 DEF InProgram, Flat, KeptIn, Stays
  <2>4. Ended(u) = 0 /\ f.branches = <<>> /\ f.block = "done"
    BY <2>2, <2>3, FlatEnds
  <2>5. RegsUnwind(u, f.regs)
    BY <2>2, <2>4, NothingCut DEF RegsUnwind
  <2>6. Twins(u, q)
    BY <2>2 DEF KeptIn, Stays, Matched, Twins
  <2>7. Twins(f, d) /\ f.block = d.block
    BY <2>1, <2>2, <2>5, <2>6, TwinsEnd
  <2> QED  BY <2>1, <2>4, <2>7 DEF CheckerEndsIn, Matched, Flat
<1> QED  BY <1>1, <1>2, <1>3, <1>4, <1>5, <1>6 DEF EmitterReadsAt

\* So does any line.
LEMMA StepMatched ==
    ASSUME NEW e, NEW f, NEW c, NEW d, NEW l, NEW kd, Known(l), Matched(e, c), Flat(e, kd),
           EmitterStep(e, f, l, kd), CheckerStep(c, d, l)
    PROVE  Matched(f, d) /\ Flat(f, kd)
<1>0. Emitting(f)
  BY EmitterGoesOn DEF Matched
<1>1. CASE CheckerDefaultOut(c, d, l)
  <2>1. l.op = ".default" /\ e.block = "default?"
    BY <1>1 DEF CheckerDefaultOut, Matched
  <2>2. DefaultOut(e, f, l)
    BY <2>1 DEF EmitterStep, CaseOut
  <2> QED  BY <1>0, <1>1, <2>1, <2>2 DEF CheckerDefaultOut, DefaultOut, Matched, Twins, Flat
<1>2. CASE CheckerCaseOut(c, d, l)
  <2>1. l.op = ".case" /\ e.block = "cases"
    BY <1>2 DEF CheckerCaseOut, Matched
  <2>2. CaseOut(e, f, l)
    BY <2>1 DEF EmitterStep, DefaultOut
  <2>3. CaseTaken(e.branches, f.branches)
    <3> DEFINE a == e.branches
    <3>1. Alike(a, a) /\ f.branches = [a EXCEPT ![Len(a)].left = @ - 1]
      BY <2>2, AlikeItself DEF CaseOut, Matched, Twins
    <3> HIDE DEF a
    <3>2. CaseTaken(a, [a EXCEPT ![Len(a)].left = @ - 1])
      BY <3>1, LeftTaken, Zenon
    <3> QED  BY <3>1, <3>2, Zenon DEF a
  <2>4. Alike(f.branches, d.branches)
    BY <1>2, <2>3, AlikeTaken DEF CheckerCaseOut, Matched, Twins
  <2> QED  BY <1>0, <1>2, <2>1, <2>2, <2>4 DEF CheckerCaseOut, CaseOut, Matched, Twins, Flat
<1>3. CASE /\ c.block \notin {"cases", "default?"} /\ l.op # ".case"
           /\ l.op # ".default" => \E q : CheckerMoved(c, q) /\ CheckerReadsAt(q, d, l)
  <2>1. e.block = c.block
    BY DEF Matched
  <2>2. l.op \notin {".case", ".default"} /\ \E r : Moved(e, r) /\ EmitterReadsAt(r, f, l, kd)
    BY <1>3, <2>1 DEF EmitterStep, CaseOut, DefaultOut
  <2>3. PICK r : Moved(e, r) /\ EmitterReadsAt(r, f, l, kd)
    BY <2>2
  <2>4. PICK q : CheckerMoved(c, q) /\ CheckerReadsAt(q, d, l)
    BY <1>3, <2>2
  <2>5. Matched(r, q) /\ Flat(r, kd)
    BY <2>3, <2>4 DEF Moved, CheckerMoved, Matched, Twins, Flat, Emitting
  <2> QED  BY <1>0, <2>3, <2>4, <2>5, OpMatched
<1> QED  BY <1>1, <1>2, <1>3 DEF CheckerStep

\* The inductive invariant behind RegistersAgree.  That the names agree is not enough:
\* a block that ends cuts both back to what their own frames say, so that the frames must
\* agree, case by case, on the cases left and on the registers saved.
InAgreement == InStep /\ (Compiling => Matched(emitter, checker) /\ Flat(emitter, kind))

\* The checker and the emitter start without names.
LEMMA AgreementInit == Init => InAgreement
<1> SUFFICES ASSUME Init PROVE Matched(emitter, checker) /\ Flat(emitter, kind)
  BY InStepInit DEF InAgreement
<1>1. IsChecker(CheckerNew)
  BY DEF CheckerNew, IsChecker
<1>2. /\ CheckerNew.block = "item" /\ CheckerNew.branches = <<>> /\ CheckerNew.regs = <<>>
      /\ CheckerNew.codes = <<>>
  BY DEF CheckerNew
<1>3. /\ EmitterNew.block = "item" /\ EmitterNew.branches = <<>> /\ EmitterNew.regs = <<>>
      /\ EmitterNew.codes = <<>>
  BY DEF EmitterNew
<1>4. Alike(<<>>, <<>>)
  BY NoFrames DEF Alike
<1> QED  BY <1>1, <1>2, <1>3, <1>4, NewEmits DEF Init, Matched, Twins, Flat

\* Every line keeps them in agreement.
LEMMA AgreementNext == InAgreement /\ [Next]_vars => InAgreement'
<1> SUFFICES ASSUME InAgreement, [Next]_vars PROVE InAgreement'
  OBVIOUS
<1>0. InStep'
  BY InStepNext DEF InAgreement
<1>1. CASE UNCHANGED vars
  BY <1>0, <1>1 DEF InAgreement, Compiling, Refused, vars
<1>2. CASE Next
  <2>1. ASSUME Compiling' PROVE Matched(emitter', checker') /\ Flat(emitter', kind')
    <3>1. /\ Known(line') /\ Compiling
          /\ Group(line') \in {"bind", "body"} => line'.sub \in Subs
          /\ emitter' = EmitterReads(emitter, line', kind) /\ Alive(emitter')
          /\ checker' = CheckerReads(checker, line', kind) /\ Alive(checker')
      BY <1>2, <2>1, LineCompiled DEF InAgreement, InStep
    <3>2. Matched(emitter, checker) /\ Flat(emitter, kind) /\ kind' = kind
      BY <1>2, <3>1 DEF InAgreement, Next, Passes
    <3>3. EmitterStep(emitter, emitter', line', kind)
      BY <3>1, <3>2, EmitterSteps DEF Matched, Emitting
    <3>4. CheckerStep(checker, checker', line')
      BY <3>1, <3>2, AlikeItself, CheckerSteps DEF Matched, Twins
    <3> QED  BY <3>1, <3>2, <3>3, <3>4, StepMatched
  <2> QED  BY <1>0, <2>1 DEF InAgreement
<1> QED  BY <1>1, <1>2

\* The type checker and the emitter are in agreement at every line, for any subcodes,
\* any item and any number of registers.
THEOREM PassesInAgreement == Spec => []InAgreement
  BY AgreementInit, AgreementNext, PTL DEF Spec

\* A name stands for the same register where typecheck.c checks a line and where
\* bytecompile.c compiles it, in and behind the blocks of branches.
THEOREM RegistersAlwaysAgree == Spec => []RegistersAgree
<1>1. InAgreement => RegistersAgree
  BY DEF InAgreement, RegistersAgree, Matched, Twins
<1> QED  BY <1>1, PassesInAgreement, PTL

-----------------------------------------------------------------------------
(* The types the emitter gives.                                            *)

\* The emitter's types with an entry for the next register: a new one, or the one that
\* a block that is over left there.
NewTypes(s) == IF Len(s.regs) < Len(s.types) THEN s.types ELSE Append(s.types, NoType)

\* The emitter t takes the register named after s to be of the type ty; without a
\* type an entry stays as it was.
Gives(s, t, ty) == \/ t.types = [NewTypes(s) EXCEPT ![Len(s.regs) + 1] = ty]
                   \/ ty = NoType /\ t.types = NewTypes(s)

\* A register named without a type.
LEMMA NameGives ==
    ASSUME NEW s, NEW l, IsEmitter(s), Alive(NameRegister(s, l))
    PROVE  Gives(s, NameRegister(s, l), NoType)
<1>1. CASE Len(s.regs) >= MaxRegs
  BY <1>1 DEF NameRegister, Fatal, IsEmitter, Alive
<1>2. CASE ~(Len(s.regs) >= MaxRegs)
  BY <1>2 DEF NameRegister, NewTypes, Gives, IsEmitter
<1> QED  BY <1>1, <1>2

\* A register named with a type.
LEMMA TypedGives ==
    ASSUME NEW s, NEW l, NEW ty, IsEmitter(s), Alive(NameTypedRegister(s, l, ty))
    PROVE  Gives(s, NameTypedRegister(s, l, ty), ty)
<1>1. CASE Len(s.regs) >= MaxRegs
  BY <1>1 DEF NameTypedRegister, Fatal, IsEmitter, Alive
<1>2. CASE ~(Len(s.regs) >= MaxRegs)
  <2>1. NameTypedRegister(s, l, ty).types = [NewTypes(s) EXCEPT ![Len(s.regs) + 1] = ty]
    BY <1>2 DEF NameTypedRegister, NameRegister, NewTypes, IsEmitter
  <2> QED  BY <2>1 DEF Gives
<1> QED  BY <1>1, <1>2

\* Writing bytes changes no type and no register.
LEMMA EmittedTypes ==
    ASSUME NEW s, NEW n, IsEmitter(s)
    PROVE  /\ Emitted(s, n).types = s.types /\ Emitted(s, n).regs = s.regs
           /\ IsEmitter(Emitted(s, n)) /\ (Alive(Emitted(s, n)) <=> Alive(s))
  BY DEF Emitted, IsEmitter, Alive

\* The type the emitter has of a field.
FieldType(s, l) ==
    LET known == TypeOf(s, l.args[1])
        product == IF l.op = ".lfield" /\ known.node = "lift" THEN known.args[1] ELSE known
        k == FieldOf(product, l.names[1])
    IN  IF k = 0 THEN BadType ELSE product.args[k]

\* The type it has of an allocation.
AllocType(s, l) ==
    CASE l.op = ".closure" -> SubCodes[l.code].result
      [] l.op \in {".constr", ".exconstr", ".undefined"} -> l.type
      [] l.op \in {".field", ".lfield"} -> FieldType(s, l)
      [] l.op = ".apply" -> ApplyType(s, l)
      [] OTHER -> NoType

\* The type it has of a .bind.
BindType(l) == IF l.sub = ".closure" THEN Unlift(SubCodes[l.code].result).args[1] ELSE NoType

\* The type it has of the register of a line.
NamedType(s, l) ==
    LET g == Group(l)
    IN  CASE g = "gvar" -> IF l.op = ".gvar" THEN l.type ELSE NoType
          [] g \in {"fv", "karg", "fkarg", "arg"} -> l.type
          [] g = "alloc" -> AllocType(s, l)
          [] g = "bind" -> BindType(l)

\* The emitter has the type it works out that one from.
KnowsType(s, l) == l.op \in {".field", ".lfield", ".apply"} => TypeOf(s, l.args[1]) # NoType

\* Every allocation gives its register the type of its op, and that only when the
\* emitter has the type it needs for that.
LEMMA EmitAllocGives ==
    ASSUME NEW s, NEW l, IsEmitter(s), Known(l), Group(l) = "alloc", Alive(EmitAlloc(s, l))
    PROVE  Gives(s, EmitAlloc(s, l), AllocType(s, l)) /\ KnowsType(s, l)
<1>1. CASE l.op = ".closure"
  <2> DEFINE u == Captures(FindsCode(s, l.code), l.code)
             v == NameTypedRegister(u, l, SubCodes[l.code].result)
  <2>1. EmitAlloc(s, l) = Emitted(v, ClosureSize(NumFvs(l)))
    BY <1>1 DEF EmitAlloc, EmitClosure, NumFvs, NumFvsOf
  <2>2. u = s /\ Alive(v) /\ IsEmitter(v)
    BY <2>1, BothPass, NamesTypedRegister, EmittedStays
  <2>3. Gives(s, v, SubCodes[l.code].result)
    BY <2>2, TypedGives
  <2>7. AllocType(s, l) = SubCodes[l.code].result /\ KnowsType(s, l)
    BY <1>1 DEF AllocType, KnowsType
  <2>8. EmitAlloc(s, l).types = v.types
    BY <2>1, <2>2, EmittedTypes
  <2> QED  BY <2>7, <2>8, <2>3 DEF Gives
<1>2. CASE l.op = ".prim"
  <2>1. CASE l.known
    <3> DEFINE u == NameRegister(s, l)
               v == Finds(u, l.args)
    <3>1. EmitAlloc(s, l) = Emitted(v, PrimSize(Len(l.args)))
      BY <1>2, <2>1 DEF EmitAlloc, EmitPrim
    <3>2. v = u /\ Alive(u) /\ IsEmitter(u)
      BY <3>1, NamesRegister, FindsPasses, EmittedStays
    <3>3. Gives(s, u, NoType)
      BY <3>2, NameGives
    <3> QED  BY <1>2, <3>1, <3>2, <3>3, EmittedTypes DEF AllocType, KnowsType, Gives
  <2>2. CASE ~l.known
    <3> DEFINE u == NameRegister(s, l)
    <3>1. EmitAlloc(s, l) = Emitted(u, UnknownPrimSize)
      BY <1>2, <2>2 DEF EmitAlloc, EmitPrim
    <3>2. Alive(u) /\ IsEmitter(u)
      BY <3>1, NamesRegister, EmittedStays
    <3>3. Gives(s, u, NoType)
      BY <3>2, NameGives
    <3> QED  BY <1>2, <3>1, <3>2, <3>3, EmittedTypes DEF AllocType, KnowsType, Gives
  <2> QED  BY <2>1, <2>2
<1>3. CASE l.op = ".impprim"
  <2> DEFINE u == IF l.known THEN Finds(s, l.args) ELSE s
             v == NameRegister(u, l)
             n == IF l.known THEN ImpprimSize(Len(l.args)) ELSE UnknownPrimSize
  <2>1. EmitAlloc(s, l) = Emitted(v, n)
    BY <1>3 DEF EmitAlloc, EmitImpprim
  <2>2. IsEmitter(u) /\ (Alive(u) => u = s)
    BY FindsPasses
  <2> HIDE DEF u, n
  <2>3. IsEmitter(v) /\ Alive(v) /\ Alive(u)
    BY <2>1, <2>2, NamesRegister, EmittedStays
  <2>4. Gives(s, v, NoType)
    BY <2>2, <2>3, NameGives
  <2>7. AllocType(s, l) = NoType /\ KnowsType(s, l)
    BY <1>3 DEF AllocType, KnowsType
  <2>8. EmitAlloc(s, l).types = v.types
    BY <2>1, <2>3, EmittedTypes
  <2> QED  BY <2>7, <2>8, <2>4 DEF Gives
<1>4. CASE l.op \in {".constr", ".exconstr"}
  <2> DEFINE u == NameTypedRegister(s, l, l.type)
             v == Check(u, FieldOf(l.type, l.names[1]) # 0, "constructor")
             w == Finds(v, l.args)
  <2>1. EmitAlloc(s, l) = Emitted(w, ConstrSize(Len(l.args)))
    BY <1>4 DEF EmitAlloc, EmitConstr
  <2>2. IsEmitter(u) /\ IsEmitter(v) /\ (Alive(v) => v = u)
    BY NamesTypedRegister, EmitterChecks
  <2>3. w = u /\ Alive(u)
    BY <2>1, <2>2, FindsPasses, EmittedStays
  <2>4. Gives(s, u, l.type)
    BY <2>3, TypedGives
  <2>7. AllocType(s, l) = l.type /\ KnowsType(s, l)
    BY <1>4 DEF AllocType, KnowsType
  <2>8. EmitAlloc(s, l).types = u.types
    BY <2>1, <2>2, <2>3, EmittedTypes
  <2> QED  BY <2>7, <2>8, <2>4 DEF Gives
<1>5. CASE l.op \in {".record", ".lrecord"}
  <2> DEFINE u == Finds(s, l.args)
             v == Check(u, Ordered(l.names), "fields")
             w == NameRegister(v, l)
  <2>1. EmitAlloc(s, l) = Emitted(w, RecordSize(Len(l.args)))
    BY <1>5 DEF EmitAlloc, EmitRecord
  <2>2. IsEmitter(u) /\ IsEmitter(v) /\ (Alive(v) => v = u)
    BY FindsPasses, EmitterChecks
  <2>3. v = s /\ Alive(w) /\ IsEmitter(w)
    BY <2>1, <2>2, FindsPasses, EmittedStays, NamesRegister
  <2>4. Gives(s, w, NoType)
    BY <2>3, NameGives
  <2>7. AllocType(s, l) = NoType /\ KnowsType(s, l)
    BY <1>5 DEF AllocType, KnowsType
  <2>8. EmitAlloc(s, l).types = w.types
    BY <2>1, <2>3, EmittedTypes
  <2> QED  BY <2>7, <2>8, <2>4 DEF Gives
<1>6. CASE l.op \in {".field", ".lfield"}
  <2> DEFINE known == TypeOf(s, l.args[1])
             product == IF l.op = ".lfield" /\ known.node = "lift" THEN known.args[1] ELSE known
             k == FieldOf(product, l.names[1])
             ty == IF k = 0 THEN BadType ELSE product.args[k]
             has == known # NoType
             u == Finds(s, l.args)
             v == Check(u, has, "no type")
             w == Check(v, k # 0, "field")
             x == NameTypedRegister(w, l, ty)
  <2>1. EmitAlloc(s, l) = [Emitted(x, FieldSize) EXCEPT !.field = k]
    BY <1>6 DEF EmitAlloc, EmitField
  <2>0. ty = FieldType(s, l)
    BY DEF FieldType
  <2>00. has <=> TypeOf(s, l.args[1]) # NoType
    OBVIOUS
  <2> HIDE DEF known, product, k, ty, has
  <2>2. /\ IsEmitter(u) /\ IsEmitter(v) /\ IsEmitter(w) /\ (Alive(w) => w = v)
        /\ (Alive(v) => v = u /\ has)
    BY FindsPasses, EmitterChecks
  <2>3. IsEmitter(x) /\ IsEmitter(Emitted(x, FieldSize))
    BY <2>2, NamesTypedRegister, EmittedStays
  <2>4. Alive(Emitted(x, FieldSize))
    BY <2>1, <2>3 DEF IsEmitter, Alive
  <2>5. Alive(x) /\ Alive(w)
    BY <2>2, <2>3, <2>4, EmittedStays, NamesTypedRegister DEF NamedIn, Stays
  <2>6. w = s /\ has
    BY <2>2, <2>5, FindsPasses
  <2>7. Gives(s, x, ty)
    BY <2>5, <2>6, TypedGives
  <2>8. EmitAlloc(s, l).types = x.types
    <3> DEFINE y == Emitted(x, FieldSize)
    <3>1. EmitAlloc(s, l) = [y EXCEPT !.field = k] /\ IsEmitter(y) /\ y.types = x.types
      BY <2>1, <2>3, EmittedTypes
    <3> HIDE DEF y
    <3> QED  BY <3>1 DEF IsEmitter
  <2> QED  BY <1>6, <2>0, <2>00, <2>6, <2>7, <2>8 DEF AllocType, KnowsType, Gives
<1>7. CASE l.op = ".undefined"
  <2> DEFINE v == NameTypedRegister(s, l, l.type)
  <2>1. EmitAlloc(s, l) = Emitted(v, UndefinedSize)
    BY <1>7 DEF EmitAlloc, EmitUndefined
  <2>2. Alive(v) /\ IsEmitter(v)
    BY <2>1, NamesTypedRegister, EmittedStays
  <2>3. Gives(s, v, l.type)
    BY <2>2, TypedGives
  <2>7. AllocType(s, l) = l.type /\ KnowsType(s, l)
    BY <1>7 DEF AllocType, KnowsType
  <2>8. EmitAlloc(s, l).types = v.types
    BY <2>1, <2>2, EmittedTypes
  <2> QED  BY <2>7, <2>8, <2>3 DEF Gives
<1>8. CASE l.op \in {".appty", ".cast", ".lifted"}
  <2> DEFINE u == Finds(s, l.args)
             v == NameRegister(u, l)
  <2>1. EmitAlloc(s, l) = Emitted(v, AliasSize)
    BY <1>8 DEF EmitAlloc, EmitAlias
  <2>2. u = s /\ Alive(v) /\ IsEmitter(v)
    BY <2>1, NamesRegister, FindsPasses, EmittedStays
  <2>3. Gives(s, v, NoType)
    BY <2>2, NameGives
  <2>7. AllocType(s, l) = NoType /\ KnowsType(s, l)
    BY <1>8 DEF AllocType, KnowsType
  <2>8. EmitAlloc(s, l).types = v.types
    BY <2>1, <2>2, EmittedTypes
  <2> QED  BY <2>7, <2>8, <2>3 DEF Gives
<1>9. CASE l.op = ".apply"
  <2> DEFINE has == TypeOf(s, l.args[1]) # NoType
             u == Finds(s, l.args)
             v == Check(u, has, "no type")
             w == Check(v, ApplyType(s, l) # BadType, "function")
             x == NameTypedRegister(w, l, ApplyType(s, l))
  <2>1. EmitAlloc(s, l) = Emitted(x, ApplySize(Len(l.args) - 1))
    BY <1>9 DEF EmitAlloc, EmitApply, EmitsApply
  <2>0. has <=> TypeOf(s, l.args[1]) # NoType
    OBVIOUS
  <2> HIDE DEF has
  <2>2. /\ IsEmitter(u) /\ IsEmitter(v) /\ IsEmitter(w) /\ (Alive(w) => w = v)
        /\ (Alive(v) => v = u /\ has)
    BY FindsPasses, EmitterChecks
  <2> HIDE DEF w
  <2>4. Alive(x) /\ Alive(w) /\ IsEmitter(x)
    BY <2>1, <2>2, EmittedStays, NamesTypedRegister
  <2>3. w = s /\ has
    BY <2>2, <2>4, FindsPasses
  <2>5. Gives(s, x, ApplyType(s, l))
    BY <2>3, <2>4, TypedGives
  <2> QED  BY <1>9, <2>0, <2>1, <2>3, <2>4, <2>5, EmittedTypes DEF AllocType, KnowsType, Gives
<1> QED  BY <1>1, <1>2, <1>3, <1>4, <1>5, <1>6, <1>7, <1>8, <1>9, OpsOfGroups

\* A .gvar gives a type, a .rune and a .natural none.
LEMMA EmitGvarGives ==
    ASSUME NEW s, NEW l, IsEmitter(s), Alive(EmitDataGvar(s, l))
    PROVE  Gives(s, EmitDataGvar(s, l), IF l.op = ".gvar" THEN l.type ELSE NoType)
<1> DEFINE t == IF l.op = ".gvar" THEN NameTypedRegister(s, l, l.type) ELSE NameRegister(s, l)
           v == EmitDataGvar(s, l)
<1>1. v = [Emitted(t, Word) EXCEPT !.nglobals = @ + 1]
  BY DEF EmitDataGvar
<1>2. IsEmitter(t) /\ (Alive(t) => Gives(s, t, IF l.op = ".gvar" THEN l.type ELSE NoType))
  BY NamesRegister, NamesTypedRegister, NameGives, TypedGives
<1> HIDE DEF t
<1>3. v.types = t.types /\ v.fatal = t.fatal
  BY <1>1, <1>2 DEF Emitted, IsEmitter
<1> QED  BY <1>2, <1>3 DEF Gives, Alive

\* A free variable has the type of its line.
LEMMA EmitFvGives ==
    ASSUME NEW s, NEW l, IsEmitter(s), Alive(EmitDataFv(s, l))
    PROVE  Gives(s, EmitDataFv(s, l), l.type)
<1> DEFINE n == IF l.op = ".efv" THEN EfvSize ELSE 0
           u == Emitted(s, n)
           t == NameTypedRegister(u, l, l.type)
           v == EmitDataFv(s, l)
<1>1. v = [t EXCEPT !.nfvs = @ + 1]
  BY DEF EmitDataFv
<1> HIDE DEF n
<1>2. IsEmitter(t) /\ (Alive(t) => Gives(u, t, l.type)) /\ u.types = s.types /\ u.regs = s.regs
  BY EmittedTypes, NamesTypedRegister, TypedGives
<1> HIDE DEF t, u
<1>3. v.types = t.types /\ v.fatal = t.fatal
  BY <1>1, <1>2 DEF IsEmitter
<1> QED  BY <1>2, <1>3 DEF Gives, NewTypes, Alive

\* So has an argument.
LEMMA EmitArgGives ==
    ASSUME NEW s, NEW l, IsEmitter(s), Alive(EmitArg(s, l))
    PROVE  Gives(s, EmitArg(s, l), l.type)
<1> DEFINE u == NameTypedRegister(s, l, l.type)
           t == [u EXCEPT !.nargs = @ + 1]
           v == Check(t, t.fields = <<>> \/ Last(t.fields) < l.names[1], "fields")
           x == EmitArg(s, l)
<1>1. x = IF l.op # ".fkarg" THEN t ELSE [v EXCEPT !.fields = Append(@, l.names[1])]
  BY DEF EmitArg
<1>2. IsEmitter(u) /\ (Alive(u) => Gives(s, u, l.type))
  BY NamesTypedRegister, TypedGives
<1> HIDE DEF u
<1>3. IsEmitter(t) /\ t.types = u.types /\ t.fatal = u.fatal
  BY <1>2 DEF IsEmitter
<1> HIDE DEF t
<1>4. IsEmitter(v) /\ (Alive(v) => v = t)
  BY <1>3, EmitterChecks
<1> HIDE DEF v
<1>5. Alive(t) /\ x.types = t.types
  BY <1>1, <1>3, <1>4 DEF IsEmitter, Alive
<1> QED  BY <1>2, <1>3, <1>5 DEF Gives, Alive

\* A .bind .closure gives a type, a .bind .apply none, and there is no other.
LEMMA EmitBindGives ==
    ASSUME NEW s, NEW l, IsEmitter(s), Alive(EmitBind(s, l))
    PROVE  /\ Gives(s, EmitBind(s, l), BindType(l)) /\ l.sub \in {".closure", ".apply"}
           /\ l.sub = ".closure" => Unlift(SubCodes[l.code].result).node = "app"
<1>1. CASE l.sub = ".closure"
  <2> DEFINE t == Unlift(SubCodes[l.code].result)
             app == t.node = "app"
             u == Captures(FindsCode(s, l.code), l.code)
             v == Check(u, app, "application")
             ty == IF t.node = "app" THEN t.args[1] ELSE BadType
             w == NameTypedRegister(v, l, ty)
  <2>1. EmitBind(s, l) = Emitted(w, ClosureSize(NumFvs(l)))
    BY <1>1 DEF EmitBind, EmitBindClosure, NumFvs, NumFvsOf
  <2>2. IsEmitter(u) /\ (Alive(u) => u = s)
    BY BothPass
  <2>0. app <=> Unlift(SubCodes[l.code].result).node = "app"
    OBVIOUS
  <2>00. app => ty = BindType(l)
    BY <1>1 DEF BindType
  <2> HIDE DEF app
  <2> HIDE DEF u, t, ty
  <2>3. IsEmitter(v) /\ (Alive(v) => v = u /\ app)
    BY <2>2 DEF Check, Fatal, IsEmitter, Alive
  <2> HIDE DEF v
  <2>4. Alive(v) /\ Alive(w) /\ IsEmitter(w)
    BY <2>1, <2>3, NamesTypedRegister, EmittedStays
  <2>5. v = s /\ app
    BY <2>2, <2>3, <2>4
  <2>6. Gives(s, w, ty)
    BY <2>4, <2>5, TypedGives
  <2> HIDE DEF w
  <2> QED  BY <1>1, <2>0, <2>00, <2>1, <2>4, <2>5, <2>6, EmittedTypes DEF Gives
<1>2. CASE l.sub = ".apply"
  <2> DEFINE u == Finds(s, l.args)
             v == Check(u, TypeOf(s, l.args[1]) # NoType, "no type")
             w == Check(v, ApplyType(s, l) # BadType, "function")
             x == NameRegister(w, l)
  <2>1. EmitBind(s, l) = Emitted(x, ApplySize(Len(l.args) - 1))
    BY <1>2 DEF EmitBind, EmitBindApply, EmitsApply
  <2>2. IsEmitter(u) /\ IsEmitter(v) /\ IsEmitter(w) /\ (Alive(w) => w = v) /\ (Alive(v) => v = u)
    BY FindsPasses, EmitterChecks
  <2> HIDE DEF w
  <2>4. Alive(x) /\ Alive(w) /\ IsEmitter(x)
    BY <2>1, <2>2, EmittedStays, NamesRegister
  <2>3. w = s /\ Alive(x)
    BY <2>2, <2>4, FindsPasses
  <2>5. Gives(s, x, NoType)
    BY <2>3, NameGives
  <2> QED  BY <1>2, <2>1, <2>4, <2>5, EmittedTypes DEF Gives, BindType
<1>3. CASE l.sub \notin {".closure", ".apply"}
  BY <1>3 DEF EmitBind, Fatal, IsEmitter, Alive
<1> QED  BY <1>1, <1>2, <1>3

-----------------------------------------------------------------------------
(* Registers and their types.                                              *)

\* A register that is looked up is one of the registers, or 0.
LEMMA RegisterIs ==
    ASSUME NEW b, NEW x, IsSeq(b)
    PROVE  Register(b, x) \in 0 .. Len(b)
<1> DEFINE I == {i \in 1 .. Len(b) : b[i] = x}
<1>1. Len(b) \in Nat
  BY FramesFacts
<1>2. Register(b, x) = IF I # {} THEN Min(I) ELSE 0
  BY DEF Register, SelectInSeq
<1>3. ASSUME I # {} PROVE Min(I) \in I
  <2>1. I \subseteq Nat
    BY <1>1
  <2>2. \E m \in I : \A y \in I : ~(<<y, m>> \in OpToRel(<, Nat))
    BY <1>3, <2>1, NatLessThanWellFounded, WFMin, Zenon
  <2>3. PICK m \in I : \A y \in I : ~(<<y, m>> \in OpToRel(<, Nat))
    BY <2>2
  <2> HIDE DEF I
  <2>5. \A y \in I : ~(y < m)
    <3> TAKE y \in I
    <3>1. y \in Nat /\ m \in Nat
      BY <2>1
    <3> QED  BY <2>3, <3>1 DEF OpToRel
  <2>4. \A y \in I : m <= y
    BY <2>1, <2>5
  <2> QED  BY <2>3, <2>4 DEF Min
<1>4. I \subseteq 1 .. Len(b)
  OBVIOUS
<1> HIDE DEF I
<1>5. CASE I # {}
  <2>1. Register(b, x) = Min(I)
    BY <1>2, <1>5
  <2>2. Min(I) \in 1 .. Len(b)
    BY <1>3, <1>4, <1>5
  <2> QED  BY <1>1, <2>1, <2>2
<1>6. CASE I = {}
  BY <1>1, <1>2, <1>6
<1> QED  BY <1>5, <1>6

\* What a named register leaves of the types there were, and what it adds to them when
\* there was an entry for each register.
LEMMA GivesMeans ==
    ASSUME NEW s, NEW t, NEW ty, IsSeq(s.regs), IsSeq(s.types), Len(s.regs) <= Len(s.types),
           Gives(s, t, ty)
    PROVE  /\ IsSeq(t.types) /\ Len(s.regs) + 1 <= Len(t.types)
           /\ \A i \in 1 .. Len(s.regs) : t.types[i] = s.types[i]
           /\ Len(s.types) = Len(s.regs) => /\ Len(t.types) = Len(s.regs) + 1
                                            /\ t.types[Len(s.regs) + 1] = ty
<1> DEFINE n == Len(s.regs)
           b == NewTypes(s)
           c == [b EXCEPT ![n + 1] = ty]
<1>1. n \in Nat /\ Len(s.types) \in Nat
  BY FramesFacts
<1>2. /\ IsSeq(b) /\ n + 1 <= Len(b) /\ \A i \in 1 .. n : b[i] = s.types[i]
      /\ Len(s.types) = n => Len(b) = n + 1 /\ b[n + 1] = NoType
  <2>1. CASE n < Len(s.types)
    BY <1>1, <2>1 DEF NewTypes
  <2>2. CASE ~(n < Len(s.types))
    <3>1. b = Append(s.types, NoType) /\ Len(s.types) = n
      BY <1>1, <2>2 DEF NewTypes
    <3> HIDE DEF b, n
    <3> QED  BY <1>1, <3>1, FramesAppend
  <2> QED  BY <2>1, <2>2
<1> HIDE DEF b
<1>3. CASE t.types = c
  <2>1. IsSeq(c) /\ Len(c) = Len(b) /\ \A i \in 1 .. Len(b) : c[i] = IF i = n + 1 THEN ty ELSE b[i]
    <3> DEFINE k == n + 1
    <3> HIDE DEF k
    <3>1. LET e == Put(b, k, ty)
          IN  IsSeq(e) /\ Len(e) = Len(b) /\ \A i \in 1 .. Len(b) : e[i] = IF i = k THEN ty ELSE b[i]
      BY <1>2, PutIs
    <3>2. c = Put(b, k, ty)
      BY DEF Put, k
    <3> HIDE DEF c
    <3> QED  BY <3>1, <3>2 DEF k
  <2>2. Len(b) \in Nat
    BY <1>2, FramesFacts
  <2> HIDE DEF c, n
  <2> QED  BY <1>1, <1>2, <1>3, <2>1, <2>2 DEF n
<1>4. CASE t.types = b /\ ty = NoType
  <2> HIDE DEF n
  <2> QED  BY <1>1, <1>2, <1>4 DEF n
<1> QED  BY <1>3, <1>4 DEF Gives, b

-----------------------------------------------------------------------------
(* The type of an application.                                             *)

\* The type of a function after one more argument, as the emitter works it out.
ResultStep(f) == IF Unlift(f).node = "fun" THEN Unlift(f).args[2] ELSE BadType

\* The same as the checker works it out.
ThunkStep(c, f, x) == LET r == AppliedTo(c, Unlift(f), x)
                      IN  IF f.node = "lift" /\ ~Lifted(r) THEN BadType ELSE r

\* The emitter's type of an application, one argument after the other.
LEMMA ResultUnrolls ==
    ASSUME NEW s, NEW n \in Nat
    PROVE  \E f : /\ f[0] = s
                  /\ \A k \in 1 .. n : f[k] = ResultStep(f[k - 1])
                  /\ ResultType(s, n) = f[n]
<1> DEFINE Is(f, m) ==
      f = [t \in SUBSET (1 .. m) |-> IF t = {} THEN s
                                     ELSE ResultStep(f[t \ {Max(t)}])]
           T == {m \in 0 .. n : \E f : Is(f, m)}
<1>1. 0 \in T
  <2> DEFINE f == [t \in SUBSET (1 .. 0) |-> s]
  <2>1. Is(f, 0)
    OBVIOUS
  <2> QED  BY <2>1
<1>2. \A m \in 1 .. n : m - 1 \in T => m \in T
  <2> TAKE m \in 1 .. n
  <2> HAVE m - 1 \in T
  <2>1. PICK g : Is(g, m - 1)
    OBVIOUS
  <2> DEFINE f == [t \in SUBSET (1 .. m) |->
                      IF m \in t THEN ResultStep(g[t \ {m}]) ELSE g[t]]
  <2>2. ASSUME NEW t \in SUBSET (1 .. m)
        PROVE  f[t] = IF t = {} THEN s ELSE ResultStep(f[t \ {Max(t)}])
    <3>1. CASE m \in t
      <4>1. Max(t) = m
        <5>1. m \in Nat /\ t # {}
          BY <3>1
        <5> QED  BY <3>1, <5>1, MaxOfUpTo
      <4>2. t # {} /\ f[t \ {m}] = g[t \ {m}]
        BY <3>1
      <4> QED  BY <3>1, <4>1, <4>2
    <3>2. CASE m \notin t
      <4>1. t \in SUBSET (1 .. m - 1)
        BY <3>2
      <4>2. f[t] = g[t] /\ f[t \ {Max(t)}] = g[t \ {Max(t)}]
        BY <3>2
      <4>3. g[t] = IF t = {} THEN s ELSE ResultStep(g[t \ {Max(t)}])
        BY <2>1, <4>1
      <4> QED  BY <4>2, <4>3
    <3> QED  BY <3>1, <3>2
  <2>3. Is(f, m)
    <3> DEFINE h == [t \in SUBSET (1 .. m) |-> IF t = {} THEN s
                                     ELSE ResultStep(f[t \ {Max(t)}])]
    <3>1. \A t \in SUBSET (1 .. m) : f[t] = h[t]
      <4> HIDE DEF f
      <4> QED  BY <2>2
    <3> QED  BY <3>1
  <2> HIDE DEF f
  <2>4. m \in 0 .. n
    OBVIOUS
  <2> HIDE DEF Is
  <2> QED  BY <2>3, <2>4
<1>3. \E f : Is(f, n)
  <2> HIDE DEF T
  <2>1. n \in T
    BY <1>1, <1>2, UpTo
  <2> QED  BY <2>1 DEF T
<1> DEFINE iter == CHOOSE f : Is(f, n)
<1>4. Is(iter, n)
  BY <1>3
<1>5. ResultType(s, n) = iter[1 .. n]
  BY DEF ResultType, ResultStep, FoldLeft, MapThenFoldSet
<1> HIDE DEF iter
<1> DEFINE f == [k \in 0 .. n |-> iter[1 .. k]]
<1>6. f[0] = s
  <2>1. 1 .. 0 = {} /\ {} \in SUBSET (1 .. n)
    OBVIOUS
  <2> QED  BY <1>4, <2>1
<1>7. ASSUME NEW k \in 1 .. n PROVE f[k] = ResultStep(f[k - 1])
  <2>1. Max(1 .. k) = k
    <3>1. k \in Nat /\ 1 .. k \in SUBSET (1 .. k) /\ 1 .. k # {} /\ k \in 1 .. k
      OBVIOUS
    <3> QED  BY <3>1, MaxOfUpTo
  <2>2. (1 .. k) \ {k} = 1 .. k - 1 /\ 1 .. k # {} /\ 1 .. k \in SUBSET (1 .. n)
    OBVIOUS
  <2>3. iter[1 .. k] = ResultStep(iter[1 .. k - 1])
    BY <1>4, <2>1, <2>2
  <2> QED  BY <2>3
<1>8. f[n] = iter[1 .. n]
  OBVIOUS
<1> HIDE DEF f
<1> QED  BY <1>5, <1>6, <1>7, <1>8

\* The checker's type of an application, one argument after the other.
LEMMA ThunkUnrolls ==
    ASSUME NEW c, NEW s, NEW seq, NEW n \in Nat, Spans(seq, n)
    PROVE  \E f : /\ f[0] = s
                  /\ \A k \in 1 .. n : f[k] = ThunkStep(c, f[k - 1], seq[k])
                  /\ ThunkApplied(c, s, seq) = f[n]
<1> DEFINE Is(f, m) ==
      f = [t \in SUBSET (1 .. m) |-> IF t = {} THEN s
                                     ELSE ThunkStep(c, f[t \ {Max(t)}], seq[Max(t)])]
           T == {m \in 0 .. n : \E f : Is(f, m)}
<1>1. 0 \in T
  <2> DEFINE f == [t \in SUBSET (1 .. 0) |-> s]
  <2>1. Is(f, 0)
    OBVIOUS
  <2> QED  BY <2>1
<1>2. \A m \in 1 .. n : m - 1 \in T => m \in T
  <2> TAKE m \in 1 .. n
  <2> HAVE m - 1 \in T
  <2>1. PICK g : Is(g, m - 1)
    OBVIOUS
  <2> DEFINE f == [t \in SUBSET (1 .. m) |->
                      IF m \in t THEN ThunkStep(c, g[t \ {m}], seq[m]) ELSE g[t]]
  <2>2. ASSUME NEW t \in SUBSET (1 .. m)
        PROVE  f[t] = IF t = {} THEN s ELSE ThunkStep(c, f[t \ {Max(t)}], seq[Max(t)])
    <3>1. CASE m \in t
      <4>1. Max(t) = m
        <5>1. m \in Nat /\ t # {}
          BY <3>1
        <5> QED  BY <3>1, <5>1, MaxOfUpTo
      <4>2. t # {} /\ f[t \ {m}] = g[t \ {m}]
        BY <3>1
      <4> QED  BY <3>1, <4>1, <4>2
    <3>2. CASE m \notin t
      <4>1. t \in SUBSET (1 .. m - 1)
        BY <3>2
      <4>2. f[t] = g[t] /\ f[t \ {Max(t)}] = g[t \ {Max(t)}]
        BY <3>2
      <4>3. g[t] = IF t = {} THEN s ELSE ThunkStep(c, g[t \ {Max(t)}], seq[Max(t)])
        BY <2>1, <4>1
      <4> QED  BY <4>2, <4>3
    <3> QED  BY <3>1, <3>2
  <2>3. Is(f, m)
    <3> DEFINE h == [t \in SUBSET (1 .. m) |-> IF t = {} THEN s
                                     ELSE ThunkStep(c, f[t \ {Max(t)}], seq[Max(t)])]
    <3>1. \A t \in SUBSET (1 .. m) : f[t] = h[t]
      <4> HIDE DEF f
      <4> QED  BY <2>2
    <3> QED  BY <3>1
  <2> HIDE DEF f
  <2>4. m \in 0 .. n
    OBVIOUS
  <2> HIDE DEF Is
  <2> QED  BY <2>3, <2>4
<1>3. \E f : Is(f, n)
  <2> HIDE DEF T
  <2>1. n \in T
    BY <1>1, <1>2, UpTo
  <2> QED  BY <2>1 DEF T
<1> DEFINE iter == CHOOSE f : Is(f, n)
<1>4. Is(iter, n)
  BY <1>3
<1>5. ThunkApplied(c, s, seq) = iter[1 .. n]
  BY DEF Spans, ThunkApplied, ThunkStep, FoldLeft, MapThenFoldSet
<1> HIDE DEF iter
<1> DEFINE f == [k \in 0 .. n |-> iter[1 .. k]]
<1>6. f[0] = s
  <2>1. 1 .. 0 = {} /\ {} \in SUBSET (1 .. n)
    OBVIOUS
  <2> QED  BY <1>4, <2>1
<1>7. ASSUME NEW k \in 1 .. n PROVE f[k] = ThunkStep(c, f[k - 1], seq[k])
  <2>1. Max(1 .. k) = k
    <3>1. k \in Nat /\ 1 .. k \in SUBSET (1 .. k) /\ 1 .. k # {} /\ k \in 1 .. k
      OBVIOUS
    <3> QED  BY <3>1, MaxOfUpTo
  <2>2. (1 .. k) \ {k} = 1 .. k - 1 /\ 1 .. k # {} /\ 1 .. k \in SUBSET (1 .. n)
    OBVIOUS
  <2>3. iter[1 .. k] = ThunkStep(c, iter[1 .. k - 1], seq[k])
    BY <1>4, <2>1, <2>2
  <2> QED  BY <2>3
<1>8. f[n] = iter[1 .. n]
  OBVIOUS
<1> HIDE DEF f
<1> QED  BY <1>5, <1>6, <1>7, <1>8

-----------------------------------------------------------------------------
(* The types of a line, side by side.                                      *)

\* An application that has a type for the checker has that type for the emitter.
LEMMA AppliedAlike ==
    ASSUME NEW c, NEW t, NEW seq, NEW n \in Nat, Spans(seq, n), ThunkApplied(c, t, seq) # BadType
    PROVE  ResultType(t, n) = ThunkApplied(c, t, seq)
<1>1. PICK f : /\ f[0] = t
               /\ \A k \in 1 .. n : f[k] = ResultStep(f[k - 1])
               /\ ResultType(t, n) = f[n]
  BY ResultUnrolls
<1>2. PICK g : /\ g[0] = t
               /\ \A k \in 1 .. n : g[k] = ThunkStep(c, g[k - 1], seq[k])
               /\ ThunkApplied(c, t, seq) = g[n]
  BY ThunkUnrolls
<1>3. \A v, x : ThunkStep(c, v, x) \in {BadType, ResultStep(v)}
  BY DEF ThunkStep, ResultStep, AppliedTo
<1>4. \A x : ThunkStep(c, BadType, x) = BadType
  <2>1. BadType.node = "bad" /\ Unlift(BadType) = BadType
    BY DEF BadType, Type, Unlift
  <2> QED  BY <2>1 DEF ThunkStep, AppliedTo
<1> DEFINE T == {k \in 0 .. n : g[k] \in {BadType, f[k]}}
<1>5. 0 \in T
  BY <1>1, <1>2
<1>6. \A k \in 1 .. n : k - 1 \in T => k \in T
  <2> TAKE k \in 1 .. n
  <2> HAVE k - 1 \in T
  <2>1. g[k] = ThunkStep(c, g[k - 1], seq[k]) /\ f[k] = ResultStep(f[k - 1]) /\ k \in 0 .. n
    BY <1>1, <1>2
  <2>2. CASE g[k - 1] = BadType
    BY <1>4, <2>1, <2>2
  <2>3. CASE g[k - 1] = f[k - 1]
    BY <1>3, <2>1, <2>3
  <2> QED  BY <2>2, <2>3
<1>7. n \in T
  <2> HIDE DEF T
  <2> QED  BY <1>5, <1>6, UpTo
<1> QED  BY <1>1, <1>2, <1>7

\* What the emitter r takes to be the type of a register is nothing, or what the checker q
\* takes it to be.
Knows(r, q) == /\ IsSeq(r.regs) /\ r.regs = q.regs
               /\ \A i \in 1 .. Len(r.regs) : r.types[i] \in {NoType, q.types[i]}

\* A type the emitter has is the checker's.
LEMMA KnownAlike ==
    ASSUME NEW r, NEW q, NEW x, Knows(r, q), TypeOf(r, x) # NoType
    PROVE  TypeOf(r, x) = TypeAt(q, x)
<1>1. Register(r.regs, x) \in 0 .. Len(r.regs)
  BY RegisterIs DEF Knows
<1>2. Register(r.regs, x) # 0 /\ TypeOf(r, x) = r.types[Register(r.regs, x)]
  BY DEF TypeOf
<1>3. Register(r.regs, x) \in 1 .. Len(r.regs)
  <2>1. Len(r.regs) \in Nat
    BY FramesFacts DEF Knows
  <2> QED  BY <1>1, <1>2, <2>1
<1> QED  BY <1>2, <1>3 DEF Knows, TypeAt

\* What stands behind the function in an application.
LEMMA ArgumentsBehind ==
    ASSUME NEW b, IsSeq(b), Len(b) # 0
    PROVE  Spans(Tail(b), Len(b) - 1) /\ Len(b) - 1 \in Nat
<1>1. PICK X : b \in Seq(X)
  BY Zenon DEF IsSeq
<1>2. Len(b) \in Nat /\ Len(b) - 1 \in Nat /\ b # <<>>
  BY <1>1
<1>3. Tail(b) \in Seq(X) /\ Len(Tail(b)) = Len(b) - 1
  BY <1>1, <1>2, HeadTailProperties
<1> QED  BY <1>2, <1>3, LenProperties DEF Spans

\* The line is as it may be written: an application has a function to apply.
Applies(l) == l.op = ".apply" => IsSeq(l.args) /\ Len(l.args) # 0

\* The types the two have of an allocation.
LEMMA AllocAlike ==
    ASSUME NEW r, NEW q, NEW l, NEW ty, Knows(r, q), Known(l), Group(l) = "alloc", KnowsType(r, l),
           Applies(l), Valued(q, l, ty)
    PROVE  AllocType(r, l) \in {NoType, ty}
<1>1. CASE l.op = ".closure"
  BY <1>1 DEF AllocType, Valued
<1>2. CASE l.op \in {".constr", ".exconstr", ".undefined"}
  BY <1>2 DEF AllocType, Valued
<1>3. CASE l.op \in {".field", ".lfield"}
  <2> DEFINE known == TypeOf(r, l.args[1])
             p == CheckedProduct(q, l)
             k == FieldOf(p, l.names[1])
  <2>1. known = TypeAt(q, l.args[1])
    BY <1>3, KnownAlike DEF KnowsType
  <2>2. p.node = "product" /\ k # 0 /\ ty = p.args[k]
    BY <1>3 DEF Valued
  <2>3. p = IF l.op = ".lfield" /\ known.node = "lift" THEN known.args[1] ELSE known
    <3>1. BadType.node # "product"
      BY DEF BadType, Type
    <3> QED  BY <1>3, <2>1, <2>2, <3>1 DEF CheckedProduct
  <2>4. FieldType(r, l) = p.args[k]
    <3> HIDE DEF p
    <3> QED  BY <2>2, <2>3 DEF FieldType
  <2> QED  BY <1>3, <2>2, <2>4 DEF AllocType
<1>4. CASE l.op = ".apply"
  <2> DEFINE f == Instantiated(TypeAt(q, l.args[1]), l.ntyargs)
  <2>1. TypeOf(r, l.args[1]) = TypeAt(q, l.args[1])
    BY <1>4, KnownAlike DEF KnowsType
  <2>2. ty = ThunkApplied(q, f, Tail(l.args)) /\ ty # BadType
    BY <1>4 DEF Valued, RhsType
  <2>3. ApplyType(r, l) = ResultType(f, Len(l.args) - 1)
    BY <2>1 DEF ApplyType
  <2>4. Spans(Tail(l.args), Len(l.args) - 1) /\ Len(l.args) - 1 \in Nat
    BY <1>4, ArgumentsBehind DEF Applies
  <2> HIDE DEF f
  <2>5. ApplyType(r, l) = ty
    BY <2>2, <2>3, <2>4, AppliedAlike
  <2> QED  BY <1>4, <2>5 DEF AllocType
<1>5. CASE l.op \notin {".closure", ".constr", ".exconstr", ".undefined", ".field", ".lfield", ".apply"}
  BY <1>5 DEF AllocType
<1> QED  BY <1>1, <1>2, <1>3, <1>4, <1>5

\* The .bind is one the emitter takes.
BindTaken(l) == /\ l.sub \in {".closure", ".apply"}
                /\ l.sub = ".closure" => Unlift(SubCodes[l.code].result).node = "app"

\* The types the two have of the register of a line.
LEMMA NamedAlike ==
    ASSUME NEW r, NEW q, NEW l, NEW ty, Knows(r, q), Known(l), Names(l),
           Group(l) = "alloc" => KnowsType(r, l), Group(l) = "bind" => BindTaken(l),
           Applies(l), TypedIn(q, l, ty)
    PROVE  NamedType(r, l) \in {NoType, ty}
<1>1. CASE Group(l) = "gvar"
  BY <1>1 DEF NamedType, TypedIn
<1>2. CASE Group(l) \in {"fv", "karg", "fkarg", "arg"}
  BY <1>2 DEF NamedType, TypedIn
<1>3. CASE Group(l) = "alloc"
  BY <1>3, AllocAlike DEF NamedType, TypedIn
<1>4. CASE Group(l) = "bind"
  <2>1. NamedType(r, l) = BindType(l)
    BY <1>4 DEF NamedType
  <2>2. ASSUME l.sub = ".closure" PROVE BindType(l) = ty
    <3>1. RhsType(q, l, l.sub) = SubCodes[l.code].result
      BY <2>2 DEF RhsType
    <3>2. ty = Unlift(SubCodes[l.code].result).args[1]
      BY <1>4, <2>2, <3>1 DEF TypedIn, Statement, BindTaken
    <3> QED  BY <2>2, <3>2 DEF BindType
  <2>3. l.sub # ".closure" => BindType(l) = NoType
    BY DEF BindType
  <2> QED  BY <2>1, <2>2, <2>3
<1> QED  BY <1>1, <1>2, <1>3, <1>4 DEF Names

-----------------------------------------------------------------------------
(* The types of a step of the emitter.                                     *)

\* Every op that names a register gives it its type.
LEMMA OpGives ==
    ASSUME NEW r, NEW l, IsEmitter(r), Known(l), Names(l), Alive(EmitOp(r, l))
    PROVE  /\ Gives(r, EmitOp(r, l), NamedType(r, l))
           /\ Group(l) = "alloc" => KnowsType(r, l)
           /\ Group(l) = "bind" => BindTaken(l)
<1> DEFINE g == Group(l)
           t == EmitOp(r, l)
<1> HIDE DEF t
<1>1. CASE g = "gvar"
  <2>1. t = EmitDataGvar(r, l)
    BY <1>1 DEF EmitOp, t
  <2>2. NamedType(r, l) = IF l.op = ".gvar" THEN l.type ELSE NoType
    BY <1>1 DEF NamedType
  <2>3. Gives(r, t, IF l.op = ".gvar" THEN l.type ELSE NoType)
    BY <2>1, EmitGvarGives DEF t
  <2> QED  BY <1>1, <2>2, <2>3 DEF t
<1>2. CASE g = "fv"
  <2>1. t = EmitDataFv(r, l) /\ NamedType(r, l) = l.type
    BY <1>2 DEF EmitOp, NamedType, t
  <2>2. Gives(r, t, l.type)
    BY <2>1, EmitFvGives DEF t
  <2> QED  BY <1>2, <2>1, <2>2 DEF t
<1>3. CASE g \in {"karg", "fkarg", "arg"}
  <2>1. t = EmitArg(r, l) /\ NamedType(r, l) = l.type
    BY <1>3 DEF EmitOp, NamedType, t
  <2>2. Gives(r, t, l.type)
    BY <2>1, EmitArgGives DEF t
  <2> QED  BY <1>3, <2>1, <2>2 DEF t
<1>4. CASE g = "alloc"
  <2>1. t = EmitAlloc(r, l) /\ NamedType(r, l) = AllocType(r, l)
    BY <1>4 DEF EmitOp, NamedType, t
  <2>2. Gives(r, t, AllocType(r, l)) /\ KnowsType(r, l)
    BY <1>4, <2>1, EmitAllocGives DEF t
  <2> QED  BY <1>4, <2>1, <2>2 DEF t
<1>5. CASE g = "bind"
  <2>1. t = EmitBind(r, l) /\ NamedType(r, l) = BindType(l)
    BY <1>5 DEF EmitOp, NamedType, t
  <2>2. Gives(r, t, BindType(l)) /\ BindTaken(l)
    BY <2>1, EmitBindGives DEF BindTaken, t
  <2> QED  BY <1>5, <2>1, <2>2 DEF t
<1> QED  BY <1>1, <1>2, <1>3, <1>4, <1>5 DEF Names

\* The emitter t has read the line l after s, as far as types go.
TypesNamed(s, t, l) ==
    Names(l) => \E r : /\ r.regs = s.regs /\ r.types = s.types
                       /\ Gives(r, t, NamedType(r, l))
                       /\ Group(l) = "alloc" => KnowsType(r, l)
                       /\ Group(l) = "bind" => BindTaken(l)

\* So does every line.
LEMMA ReadsGive ==
    ASSUME NEW s, NEW l, NEW kd, IsEmitter(s), s.loop \in Nat \ {0}, Known(l),
           Alive(EmitterReads(s, l, kd))
    PROVE  TypesNamed(s, EmitterReads(s, l, kd), l)
<1> DEFINE t == EmitterReads(s, l, kd)
           r == EmitterAt(s, l, kd)
<1> SUFFICES ASSUME Names(l) PROVE TypesNamed(s, t, l)
  BY DEF TypesNamed
<1>1. Alive(s)
  BY DEF EmitterReads, Alive
<1>2. l.op \notin {".case", ".default"}
  BY OpsOfGroups DEF Names
<1>3. t = IF r.fatal # "" THEN r ELSE EmitOp(r, l)
  BY <1>1, <1>2 DEF EmitterReads, EmitterAt, Alive
<1>4. Alive(r) /\ t = EmitOp(r, l)
  <2> HIDE DEF r
  <2> QED  BY <1>3 DEF Alive
<1>5. Moved(s, r)
  BY <1>1, <1>4, EmitterSought
<1> HIDE DEF r
<1>6. IsEmitter(r) /\ r.regs = s.regs /\ r.types = s.types
  BY <1>5 DEF Moved
<1>7. /\ Gives(r, EmitOp(r, l), NamedType(r, l))
      /\ Group(l) = "alloc" => KnowsType(r, l)
      /\ Group(l) = "bind" => BindTaken(l)
  BY <1>4, <1>6, OpGives
<1> QED  BY <1>4, <1>6, <1>7 DEF TypesNamed

-----------------------------------------------------------------------------
(* What is left of the registers behind a block.                           *)

\* The frames of nested branches, when n registers are named: none has more registers
\* than those inside it, or than there are.
FramesFit(b, n) ==
    \A i \in 1 .. Len(b) : b[i].nregs \in 0 .. n /\ \A j \in 1 .. i : b[j].nregs <= b[i].nregs

\* What is cut back is the beginning of what there was: as much as the frame of the
\* outermost block that ends says.
LEMMA CutsTo ==
    ASSUME NEW s, NEW x, NEW y, IsSeq(s.branches), IsSeq(x), FramesFit(s.branches, Len(x)),
           Cuts(s, x, y)
    PROVE  /\ IsSeq(y) /\ Len(y) <= Len(x) /\ \A i \in 1 .. Len(y) : y[i] = x[i]
           /\ Len(y) = IF Ended(s) = 0 THEN Len(x)
                       ELSE s.branches[Len(s.branches) - Ended(s) + 1].nregs
<1> DEFINE n == Ended(s)
           L == Len(s.branches)
           M(k) == IF k = 0 THEN Len(x) ELSE s.branches[L - k + 1].nregs
<1>1. L \in Nat /\ n \in Nat /\ n <= L /\ Len(x) \in Nat
  BY FramesFacts, EndingIs
<1>2. PICK f : /\ f[0] = x
               /\ \A k \in 1 .. n : f[k] = SubSeq(f[k - 1], 1, Ending(s)[k].nregs)
               /\ y = f[n]
  BY DEF Cuts
<1>3. \A k \in 1 .. n : Ending(s)[k].nregs = M(k)
  <2> TAKE k \in 1 .. n
  <2>1. Ending(s)[k] = s.branches[L - k + 1] /\ k # 0
    BY EndingIs
  <2> QED  BY <2>1
<1>4. \A k \in 0 .. n : M(k) \in Nat /\ M(k) <= Len(x)
  <2> TAKE k \in 0 .. n
  <2>1. CASE k = 0
    BY <1>1, <2>1
  <2>2. CASE k # 0
    <3>1. L - k + 1 \in 1 .. L
      BY <1>1, <2>2
    <3>2. s.branches[L - k + 1].nregs \in 0 .. Len(x)
      BY <3>1 DEF FramesFit
    <3> QED  BY <1>1, <2>2, <3>2
  <2> QED  BY <2>1, <2>2
<1>5. \A k \in 1 .. n : M(k) <= M(k - 1)
  <2> TAKE k \in 1 .. n
  <2>1. CASE k = 1
    <3>1. M(k - 1) = Len(x) /\ k \in 0 .. n
      BY <2>1
    <3> QED  BY <1>4, <3>1
  <2>2. CASE k # 1
    <3>1. L - k + 1 \in 1 .. L - k + 2 /\ L - k + 2 \in 1 .. L
      BY <1>1, <2>2
    <3>2. s.branches[L - k + 1].nregs <= s.branches[L - k + 2].nregs
      BY <3>1 DEF FramesFit
    <3>3. M(k) = s.branches[L - k + 1].nregs
      BY <1>1
    <3>4. M(k - 1) = s.branches[L - k + 2].nregs
      <4>1. k - 1 # 0 /\ L - (k - 1) + 1 = L - k + 2
        BY <1>1, <2>2
      <4> QED  BY <4>1
    <3> QED  BY <3>2, <3>3, <3>4
  <2> QED  BY <2>1, <2>2
<1> HIDE DEF n, L, M
<1> DEFINE Is(k) == IsSeq(f[k]) /\ Len(f[k]) = M(k) /\ \A i \in 1 .. M(k) : f[k][i] = x[i]
           T == {k \in 0 .. n : Is(k)}
<1>6. 0 \in T
  <2>1. M(0) = Len(x)
    BY DEF M
  <2> QED  BY <1>1, <1>2, <2>1
<1>7. \A k \in 1 .. n : k - 1 \in T => k \in T
  <2> TAKE k \in 1 .. n
  <2> HAVE k - 1 \in T
  <2>1. f[k] = SubSeq(f[k - 1], 1, M(k))
    BY <1>2, <1>3
  <2>2. k \in 0 .. n /\ k - 1 \in 0 .. n
    BY <1>1
  <2>3. M(k) \in 0 .. Len(f[k - 1]) /\ M(k - 1) \in Nat /\ M(k) \in Nat /\ M(k) <= M(k - 1)
    BY <1>4, <1>5, <2>2
  <2>4. /\ IsSeq(f[k]) /\ Len(f[k]) = M(k)
        /\ \A i \in 1 .. M(k) : f[k][i] = f[k - 1][i]
    BY <2>1, <2>3, FramesPrefix
  <2>5. \A i \in 1 .. M(k) : f[k][i] = x[i]
    <3> TAKE i \in 1 .. M(k)
    <3>1. i \in 1 .. M(k - 1)
      BY <2>3
    <3> QED  BY <2>4, <3>1
  <2> QED  BY <2>2, <2>4, <2>5
<1>8. Is(n)
  <2>1. n \in T
    <3> HIDE DEF T
    <3> QED  BY <1>1, <1>6, <1>7, UpTo
  <2> QED  BY <2>1
<1>9. M(n) <= Len(x)
  BY <1>1, <1>4
<1> QED  BY <1>2, <1>8, <1>9 DEF M, n, L

-----------------------------------------------------------------------------
(* Types that match.                                                       *)

\* How many registers are outside every branch.
Base(b, n) == IF Len(b) = 0 THEN n ELSE b[1].nregs

\* What the emitter e and the checker c have of the types of an item: as many as the
\* registers, in the emitter more behind a branch; of a register outside every branch the
\* emitter has the checker's type or none.
TypesMatch(e, c) ==
    /\ IsSeq(e.regs) /\ IsSeq(e.types) /\ IsSeq(c.types)
    /\ Len(c.types) = Len(c.regs) /\ Len(e.regs) <= Len(e.types)
    /\ FramesFit(e.branches, Len(e.regs))
    /\ Len(e.branches) = 0 /\ e.block # "done" => Len(e.types) = Len(e.regs)
    /\ \A i \in 1 .. Base(e.branches, Len(e.regs)) : e.types[i] \in {NoType, c.types[i]}

\* No more registers are outside the branches than there are.
LEMMA BaseIs ==
    ASSUME NEW b, NEW n \in Nat, IsSeq(b), FramesFit(b, n)
    PROVE  Base(b, n) \in 0 .. n
<1>1. Len(b) \in Nat
  BY FramesFacts
<1>2. CASE Len(b) = 0
  BY <1>2 DEF Base
<1>3. CASE Len(b) # 0
  <2>1. 1 \in 1 .. Len(b)
    BY <1>1, <1>3
  <2> QED  BY <1>3, <2>1 DEF Base, FramesFit
<1> QED  BY <1>2, <1>3

\* A register more, of types that are alike.
LEMMA NamesMatch ==
    ASSUME NEW e, NEW f, NEW c, NEW d, NEW r, NEW l, NEW nt, NEW ty,
           TypesMatch(e, c), IsSeq(e.branches), e.regs = c.regs, e.block # "done",
           r.regs = e.regs, r.types = e.types, Gives(r, f, nt),
           Len(e.branches) = 0 => nt \in {NoType, ty},
           f.regs = Append(e.regs, l.label), f.branches = e.branches,
           d.regs = Append(c.regs, l.label), d.types = Append(c.types, ty)
    PROVE  TypesMatch(f, d)
<1> DEFINE n == Len(e.regs)
           m == Base(e.branches, n)
<1>1. n \in Nat /\ IsSeq(e.regs) /\ IsSeq(e.types) /\ IsSeq(c.types) /\ Len(c.types) = n
  BY FramesFacts DEF TypesMatch
<1>2. m \in 0 .. n
  BY <1>1, BaseIs DEF TypesMatch
<1>3. /\ IsSeq(f.types) /\ n + 1 <= Len(f.types)
      /\ \A i \in 1 .. n : f.types[i] = e.types[i]
      /\ Len(e.types) = n => Len(f.types) = n + 1 /\ f.types[n + 1] = nt
  <2>1. Len(r.regs) <= Len(r.types) /\ IsSeq(r.regs) /\ IsSeq(r.types)
    BY <1>1 DEF TypesMatch
  <2>2. /\ IsSeq(f.types) /\ Len(r.regs) + 1 <= Len(f.types)
        /\ \A i \in 1 .. Len(r.regs) : f.types[i] = r.types[i]
        /\ Len(r.types) = Len(r.regs) => /\ Len(f.types) = Len(r.regs) + 1
                                         /\ f.types[Len(r.regs) + 1] = nt
    BY <2>1, GivesMeans
  <2> QED  BY <2>2
<1>4. IsSeq(f.regs) /\ Len(f.regs) = n + 1
  BY <1>1, FramesAppend
<1>5. /\ IsSeq(d.types) /\ Len(d.types) = n + 1 /\ d.types[n + 1] = ty
      /\ \A i \in 1 .. n : d.types[i] = c.types[i]
  BY <1>1, FramesAppend
<1>6. Len(d.regs) = n + 1
  BY <1>1, FramesAppend
<1>7. FramesFit(f.branches, n + 1)
  <2>1. FramesFit(e.branches, n)
    BY DEF TypesMatch
  <2>2. \A x : x \in 0 .. n => x \in 0 .. n + 1
    BY <1>1
  <2> HIDE DEF n
  <2> QED  BY <2>1, <2>2 DEF FramesFit
<1>8. Len(f.branches) = 0 => Len(f.types) = n + 1
  BY <1>3 DEF TypesMatch
<1>9. \A i \in 1 .. Base(f.branches, n + 1) : f.types[i] \in {NoType, d.types[i]}
  <2> TAKE i \in 1 .. Base(f.branches, n + 1)
  <2>1. CASE i \in 1 .. m
    <3>1. e.types[i] \in {NoType, c.types[i]} /\ i \in 1 .. n
      BY <1>1, <1>2, <2>1 DEF TypesMatch
    <3> QED  BY <1>3, <1>5, <3>1
  <2>2. CASE i \notin 1 .. m
    <3>1. Len(e.branches) = 0
      BY <2>2 DEF Base
    <3>2. i = n + 1
      BY <1>1, <2>2, <3>1 DEF Base
    <3>3. f.types[n + 1] = nt
      BY <1>3, <3>1 DEF TypesMatch
    <3> QED  BY <1>5, <3>1, <3>2, <3>3
  <2> QED  BY <2>1, <2>2
<1> HIDE DEF n, m
<1> QED  BY <1>1, <1>3, <1>4, <1>5, <1>6, <1>7, <1>8, <1>9 DEF TypesMatch

\* Nothing of what regards types changes.
LEMMA KeepsMatch ==
    ASSUME NEW e, NEW f, NEW c, NEW d, TypesMatch(e, c), f.regs = e.regs, f.types = e.types,
           d.regs = c.regs, d.types = c.types, f.branches = e.branches, e.block # "done"
    PROVE  TypesMatch(f, d)
  BY DEF TypesMatch

\* A branch more.
LEMMA BranchMatches ==
    ASSUME NEW e, NEW f, NEW c, NEW d, NEW g, TypesMatch(e, c), IsSeq(e.branches),
           f.regs = e.regs, f.types = e.types, d.regs = c.regs, d.types = c.types,
           f.branches = Append(e.branches, g), g.nregs = Len(e.regs)
    PROVE  TypesMatch(f, d)
<1> DEFINE n == Len(e.regs)
           L == Len(e.branches)
           b == f.branches
<1>1. n \in Nat /\ L \in Nat
  BY FramesFacts DEF TypesMatch
<1>2. IsSeq(b) /\ Len(b) = L + 1 /\ b[L + 1] = g /\ \A i \in 1 .. L : b[i] = e.branches[i]
  BY FramesAppend
<1>3. FramesFit(e.branches, n) /\ g.nregs = n
  BY DEF TypesMatch
<1> HIDE DEF n, L, b
<1>4. FramesFit(b, n)
  <2> SUFFICES ASSUME NEW i \in 1 .. L + 1
               PROVE  b[i].nregs \in 0 .. n /\ \A j \in 1 .. i : b[j].nregs <= b[i].nregs
    BY <1>2 DEF FramesFit
  <2>1. CASE i = L + 1
    <3>1. \A j \in 1 .. L : b[j].nregs \in 0 .. n
      BY <1>2, <1>3 DEF FramesFit, L
    <3>2. \A j \in 1 .. i : j = i \/ j \in 1 .. L
      BY <1>1, <2>1
    <3> QED  BY <1>1, <1>2, <1>3, <2>1, <3>1, <3>2
  <2>2. CASE i # L + 1
    <3>1. i \in 1 .. L /\ \A j \in 1 .. i : j \in 1 .. L
      BY <1>1, <2>2
    <3> QED  BY <1>2, <1>3, <3>1 DEF FramesFit, L
  <2> QED  BY <2>1, <2>2
<1>5. Base(b, n) = Base(e.branches, n)
  <2>1. CASE L = 0
    BY <1>2, <1>3, <2>1 DEF Base, L
  <2>2. CASE L # 0
    <3>1. 1 \in 1 .. L /\ L + 1 # 0
      BY <1>1, <2>2
    <3> QED  BY <1>2, <2>2, <3>1 DEF Base, L
  <2> QED  BY <2>1, <2>2
<1>6. Len(b) # 0
  BY <1>1, <1>2
<1> QED  BY <1>4, <1>5, <1>6 DEF TypesMatch, n, b

\* A case of a branch starts.
LEMMA CaseMatches ==
    ASSUME NEW e, NEW f, NEW c, NEW d, TypesMatch(e, c), IsSeq(e.branches),
           CaseTaken(e.branches, f.branches), e.block # "done",
           f.regs = e.regs, f.types = e.types, d.regs = c.regs, d.types = c.types
    PROVE  TypesMatch(f, d)
<1>1. Len(e.branches) \in Nat
  BY FramesFacts
<1>2. Len(f.branches) = Len(e.branches)
      /\ \A i \in 1 .. Len(e.branches) : f.branches[i].nregs = e.branches[i].nregs
  BY DEF CaseTaken
<1>3. FramesFit(f.branches, Len(f.regs))
  <2>1. \A i \in 1 .. Len(e.branches) : \A j \in 1 .. i : j \in 1 .. Len(e.branches)
    BY <1>1
  <2> QED  BY <1>2, <2>1 DEF TypesMatch, FramesFit
<1>4. Base(f.branches, Len(f.regs)) = Base(e.branches, Len(e.regs))
  <2>1. Len(e.branches) # 0 => 1 \in 1 .. Len(e.branches)
    BY <1>1
  <2> QED  BY <1>2, <2>1 DEF Base
<1> QED  BY <1>2, <1>3, <1>4 DEF TypesMatch

-----------------------------------------------------------------------------
(* Types behind a block that ends.                                         *)

\* Blocks end: the types behind the registers of the frames are out of use, or are
\* cut off.
LEMMA EndMatches ==
    ASSUME NEW e, NEW f, NEW c, NEW d, TypesMatch(e, c), e.regs = c.regs,
           Alike(e.branches, c.branches), EndsIn(e, f), Cuts(e, e.regs, f.regs),
           CheckerEndsIn(c, d)
    PROVE  TypesMatch(f, d)
<1> DEFINE n == Len(e.regs)
           L == Len(e.branches)
           k == StillIn(e)
           m == Len(f.regs)
<1>1. /\ IsSeq(e.branches) /\ IsSeq(c.branches) /\ Len(c.branches) = L /\ L \in Nat /\ n \in Nat
      /\ IsSeq(e.regs) /\ IsSeq(e.types) /\ IsSeq(c.types) /\ Len(c.types) = n
      /\ Len(c.regs) = n
  BY FramesFacts DEF Alike, TypesMatch
<1>2. k \in 0 .. L /\ Ended(e) = IF k = 0 THEN L ELSE L - k + 1
  BY <1>1, StillInIs DEF Ended
<1>3. FramesFit(e.branches, n)
  BY DEF TypesMatch
<1>4. /\ IsSeq(f.regs) /\ m <= n /\ \A i \in 1 .. m : f.regs[i] = e.regs[i]
      /\ m = IF Ended(e) = 0 THEN n ELSE e.branches[L - Ended(e) + 1].nregs
  BY <1>1, <1>3, CutsTo
<1>5. \A i \in 1 .. L : c.branches[i].nregs = e.branches[i].nregs
  BY DEF Alike, AlikeFrame
<1>6. FramesFit(c.branches, n)
  <2>1. \A i \in 1 .. L : \A j \in 1 .. i : j \in 1 .. L
    BY <1>1
  <2> QED  BY <1>1, <1>3, <1>5, <2>1 DEF FramesFit
<1>7. Ended(c) = Ended(e)
  BY AlikeStillIn
<1>8. /\ L - Ended(e) + 1 \in 1 .. L \/ Ended(e) = 0
      /\ Ended(e) \in Nat /\ Ended(e) <= L
  <2>1. Ended(e) \in Nat /\ Ended(e) <= L
    BY <1>1, EndingIs
  <2> HIDE DEF L, k
  <2> QED  BY <1>1, <2>1
<1>9. /\ IsSeq(d.types) /\ Len(d.types) = m /\ \A i \in 1 .. m : d.types[i] = c.types[i]
  <2>1. Cuts(c, c.types, d.types)
    BY DEF CheckerEndsIn
  <2>2. /\ IsSeq(d.types) /\ \A i \in 1 .. Len(d.types) : d.types[i] = c.types[i]
        /\ Len(d.types) = IF Ended(c) = 0 THEN Len(c.types)
                          ELSE c.branches[Len(c.branches) - Ended(c) + 1].nregs
    BY <1>1, <1>6, <2>1, CutsTo
  <2>3. Len(d.types) = m
    BY <1>1, <1>4, <1>5, <1>7, <1>8, <2>2
  <2> QED  BY <2>2, <2>3
<1>10. Len(d.regs) = m
  <2>1. Cuts(c, c.regs, d.regs)
    BY DEF CheckerEndsIn, RegsUnwind
  <2>2. Len(d.regs) = IF Ended(c) = 0 THEN Len(c.regs)
                      ELSE c.branches[Len(c.branches) - Ended(c) + 1].nregs
    <3>1. IsSeq(c.regs) /\ FramesFit(c.branches, Len(c.regs))
      BY <1>1, <1>6
    <3> QED  BY <1>1, <2>1, <3>1, CutsTo
  <2> QED  BY <1>1, <1>4, <1>5, <1>7, <1>8, <2>2
<1>11. /\ IsSeq(f.branches) /\ Len(f.branches) = k
       /\ \A i \in 1 .. k : f.branches[i] = e.branches[i]
  BY <1>1, <1>2, FramesPrefix DEF EndsIn
<1>12. f.types = e.types /\ (f.block = "done" <=> k = 0)
  BY DEF EndsIn
<1>13. m \in Nat
  BY <1>4, FramesFacts
<1>14. k # 0 => m = e.branches[k].nregs
  BY <1>1, <1>2, <1>4
<1>15. k = 0 => m = Base(e.branches, n)
  BY <1>1, <1>2, <1>4 DEF Base
<1> HIDE DEF n, L, k, m
<1>16. FramesFit(f.branches, m)
  <2> SUFFICES ASSUME NEW i \in 1 .. k
               PROVE  /\ f.branches[i].nregs \in 0 .. m
                      /\ \A j \in 1 .. i : f.branches[j].nregs <= f.branches[i].nregs
    BY <1>11 DEF FramesFit
  <2>1. i \in 1 .. L /\ k \in 1 .. L /\ i \in 1 .. k /\ \A j \in 1 .. i : j \in 1 .. k
    BY <1>1, <1>2
  <2>2. k # 0
    BY <1>2
  <2>3. /\ e.branches[i].nregs \in 0 .. n /\ e.branches[i].nregs <= e.branches[k].nregs
        /\ \A j \in 1 .. i : e.branches[j].nregs <= e.branches[i].nregs
    BY <1>3, <2>1 DEF FramesFit, L
  <2>4. e.branches[i].nregs \in 0 .. m
    BY <1>1, <1>13, <1>14, <2>2, <2>3
  <2> QED  BY <1>11, <2>1, <2>3, <2>4
<1>17. Base(f.branches, m) = Base(e.branches, n)
  <2>1. CASE k = 0
    BY <1>11, <1>15, <2>1 DEF Base
  <2>2. CASE k # 0
    <3>1. 1 \in 1 .. k /\ L # 0
      BY <1>1, <1>2, <2>2
    <3> QED  BY <1>11, <2>2, <3>1 DEF Base, L
  <2> QED  BY <2>1, <2>2
<1>18. Base(f.branches, m) \in 0 .. m
  BY <1>11, <1>13, <1>16, BaseIs
<1>19. \A i \in 1 .. Base(f.branches, m) : f.types[i] \in {NoType, d.types[i]}
  <2> TAKE i \in 1 .. Base(f.branches, m)
  <2>1. i \in 1 .. m
    BY <1>13, <1>18
  <2>2. e.types[i] \in {NoType, c.types[i]}
    BY <1>17 DEF TypesMatch, n
  <2> QED  BY <1>9, <1>12, <2>1, <2>2
<1>20. m <= Len(f.types)
  <2>1. n <= Len(e.types) /\ Len(e.types) \in Nat
    BY <1>1, FramesFacts DEF TypesMatch, n
  <2> QED  BY <1>1, <1>4, <1>12, <1>13, <2>1
<1> QED  BY <1>1, <1>4, <1>9, <1>10, <1>11, <1>12, <1>16, <1>19, <1>20 DEF TypesMatch, m

-----------------------------------------------------------------------------
(* The types of a step.                                                    *)

\* A line that both passes read keeps their types matching.
LEMMA StepTypes ==
    ASSUME NEW e, NEW f, NEW c, NEW d, NEW l, NEW kd, Known(l), Applies(l),
           Matched(e, c), Flat(e, kd), TypesMatch(e, c), e.block # "done",
           EmitterStep(e, f, l, kd), TypesNamed(e, f, l), CheckerStep(c, d, l)
    PROVE  TypesMatch(f, d)
<1>0. e.block = c.block /\ IsSeq(e.branches) /\ e.regs = c.regs /\ Alike(e.branches, c.branches)
  BY DEF Matched, Twins, Emitting
<1>1. CASE CheckerDefaultOut(c, d, l)
  <2>1. l.op = ".default" /\ e.block = "default?"
    BY <1>0, <1>1 DEF CheckerDefaultOut
  <2>2. DefaultOut(e, f, l)
    BY <2>1 DEF EmitterStep, CaseOut
  <2> QED  BY <1>1, <2>2, KeepsMatch DEF CheckerDefaultOut, DefaultOut
<1>2. CASE CheckerCaseOut(c, d, l)
  <2>1. l.op = ".case" /\ e.block = "cases"
    BY <1>0, <1>2 DEF CheckerCaseOut
  <2>2. CaseOut(e, f, l)
    BY <2>1 DEF EmitterStep, DefaultOut
  <2>3. CaseTaken(e.branches, f.branches)
    <3> DEFINE a == e.branches
    <3>1. Alike(a, a) /\ f.branches = [a EXCEPT ![Len(a)].left = @ - 1]
      BY <1>0, <2>2, AlikeItself DEF CaseOut
    <3> HIDE DEF a
    <3>2. CaseTaken(a, [a EXCEPT ![Len(a)].left = @ - 1])
      BY <3>1, LeftTaken, Zenon
    <3> QED  BY <3>1, <3>2, Zenon DEF a
  <2> QED  BY <1>0, <1>2, <2>2, <2>3, CaseMatches DEF CheckerCaseOut, CaseOut
<1>3. CASE /\ c.block \notin {"cases", "default?"} /\ l.op # ".case"
           /\ l.op # ".default" => \E q : CheckerMoved(c, q) /\ CheckerReadsAt(q, d, l)
  <2>1. l.op \notin {".case", ".default"} /\ \E r : Moved(e, r) /\ EmitterReadsAt(r, f, l, kd)
    BY <1>0, <1>3 DEF EmitterStep, CaseOut, DefaultOut
  <2>2. PICK r : Moved(e, r) /\ EmitterReadsAt(r, f, l, kd)
    BY <2>1
  <2>3. PICK q : CheckerMoved(c, q) /\ CheckerReadsAt(q, d, l)
    BY <1>3, <2>1
  <2>4. /\ r.regs = e.regs /\ r.types = e.types /\ r.branches = e.branches /\ r.block = e.block
        /\ q.regs = c.regs /\ q.types = c.types /\ q.branches = c.branches
    BY <2>2, <2>3 DEF Moved, CheckerMoved
  <2>5. TypesMatch(r, q) /\ r.block # "done" /\ r.regs = q.regs /\ IsSeq(r.branches)
    <3>1. TypesMatch(r, q)
      BY <2>4, KeepsMatch
    <3> QED  BY <1>0, <2>4, <3>1
  <2>6. CASE Names(l)
    <3>1. NamedIn(r, f, l, Grown(r.out, l)) /\ \E ty : RegisterIn(q, d, l, ty) /\ TypedIn(q, l, ty)
      BY <2>2, <2>3, <2>6 DEF EmitterReadsAt, CheckerReadsAt, Names, Quiet
    <3>2. PICK ty : RegisterIn(q, d, l, ty) /\ TypedIn(q, l, ty)
      BY <3>1
    <3>3. PICK p : /\ p.regs = e.regs /\ p.types = e.types /\ Gives(p, f, NamedType(p, l))
                   /\ Group(l) = "alloc" => KnowsType(p, l)
                   /\ Group(l) = "bind" => BindTaken(l)
      BY <2>6 DEF TypesNamed
    <3>4. ASSUME Len(r.branches) = 0 PROVE NamedType(p, l) \in {NoType, ty}
      <4>1. Knows(p, q)
        BY <2>4, <2>5, <3>3, <3>4 DEF Knows, TypesMatch, Base
      <4> QED  BY <2>6, <3>2, <3>3, <4>1, NamedAlike
    <3>5. f.regs = Append(r.regs, l.label) /\ f.branches = r.branches
      BY <3>1 DEF NamedIn, Stays
    <3>6. d.regs = Append(q.regs, l.label) /\ d.types = Append(q.types, ty)
      BY <3>2 DEF RegisterIn
    <3>7. p.regs = r.regs /\ p.types = r.types
      BY <2>4, <3>3
    <3> DEFINE nt == NamedType(p, l)
    <3>8. Gives(p, f, nt) /\ (Len(r.branches) = 0 => nt \in {NoType, ty})
      BY <3>3, <3>4
    <3> HIDE DEF nt
    <3> QED  BY <2>5, <3>5, <3>6, <3>7, <3>8, NamesMatch
  <2>7. CASE Group(l) = "subcode"
    <3>1. CodedIn(r, f, l, Grown(r.out, l)) /\ CodeIn(q, d, l)
      BY <2>2, <2>3, <2>7 DEF EmitterReadsAt, CheckerReadsAt, Names, Quiet
    <3> QED  BY <2>5, <3>1, KeepsMatch DEF CodedIn, Stays, CodeIn
  <2>8. CASE Group(l) \in Quiet
    <3>1. KeptIn(r, f, Grown(r.out, l)) /\ NothingIn(q, d)
      BY <2>2, <2>3, <2>8 DEF EmitterReadsAt, CheckerReadsAt, Names, Quiet
    <3> QED  BY <2>5, <3>1, KeepsMatch DEF KeptIn, Stays, NothingIn
  <2>9. CASE Group(l) = "branch"
    <3>1. BranchesOut(r, f, l) /\ CheckerBranchesOut(q, d, l)
      BY <2>2, <2>3, <2>9 DEF EmitterReadsAt, CheckerReadsAt, Names, Quiet
    <3> DEFINE g == Saving(r, l)
    <3>2. g.nregs = Len(r.regs)
      BY DEF Saving
    <3>3. /\ f.regs = r.regs /\ f.types = r.types /\ d.regs = q.regs /\ d.types = q.types
          /\ f.branches = Append(r.branches, g)
      BY <3>1 DEF BranchesOut, CheckerBranchesOut
    <3> HIDE DEF g
    <3> QED  BY <2>5, <3>2, <3>3, BranchMatches
  <2>10. CASE Group(l) \in {"terminal", "body"}
    <3>1. CheckerEndsIn(q, d) /\ \E u : /\ KeptIn(r, u, Grown(r.out, l)) /\ EndsIn(u, f)
                                        /\ RegsUnwind(u, f.regs) \/ (Group(l) = "body" /\ f.regs = u.regs)
      BY <2>2, <2>3, <2>10 DEF EmitterReadsAt, CheckerReadsAt, Names, Quiet
    <3>2. PICK u : /\ KeptIn(r, u, Grown(r.out, l)) /\ EndsIn(u, f)
                   /\ RegsUnwind(u, f.regs) \/ (Group(l) = "body" /\ f.regs = u.regs)
      BY <3>1
    <3>3. /\ u.regs = r.regs /\ u.types = r.types /\ u.branches = r.branches /\ u.block = r.block
      BY <3>2 DEF KeptIn, Stays
    <3>4. Cuts(u, u.regs, f.regs)
      <4>1. CASE RegsUnwind(u, f.regs)
        BY <4>1 DEF RegsUnwind
      <4>2. CASE Group(l) = "body" /\ f.regs = u.regs
        <5>1. InProgram(r, kd)
          BY <2>2, <4>2 DEF EmitterReadsAt, Names, Quiet
        <5>2. u.branches = <<>>
          BY <2>4, <3>3, <5>1 DEF InProgram, Flat
        <5>3. Ended(u) = 0
          BY <3>2, <5>2, FlatEnds
        <5> QED  BY <4>2, <5>3, NothingCut
      <4> QED  BY <3>2, <4>1, <4>2
    <3>5. TypesMatch(u, q)
      BY <2>5, <3>3, KeepsMatch
    <3>6. Alike(u.branches, q.branches)
      BY <1>0, <2>4, <3>3
    <3> QED  BY <2>5, <3>1, <3>2, <3>3, <3>4, <3>5, <3>6, EndMatches
  <2> QED  BY <2>3, <2>6, <2>7, <2>8, <2>9, <2>10 DEF CheckerReadsAt
<1> QED  BY <1>1, <1>2, <1>3 DEF CheckerStep

-----------------------------------------------------------------------------
(* The types agree.                                                        *)

\* Operands of a line are a sequence.
LEMMA OperandSeq ==
    ASSUME NEW n \in Nat, NEW f, f \in Operands(n)
    PROVE  f \in Seq(Scope) /\ Len(f) = n
<1>1. CASE n = 0
  BY <1>1 DEF Operands
<1>2. CASE n # 0
  <2>1. f \in [1 .. n -> Scope]
    BY <1>2 DEF Operands
  <2> HIDE DEF Scope
  <2> QED  BY <2>1
<1> QED  BY <1>1, <1>2

\* A line that is written has a function where it applies one.
LEMMA LineApplies ==
    ASSUME Write
    PROVE  Applies(line')
<1> SUFFICES ASSUME line'.op = ".apply" PROVE IsSeq(line'.args) /\ Len(line'.args) # 0
  BY DEF Applies
<1>1. CASE WriteTypeLine
  <2>1. line'.op \in Ops.tygvar \cup Ops.tyfv \cup Ops.tyarg \cup Ops.exkarg \cup Ops.tylet
                        \cup Ops.cogvar
    BY <1>1, EachOne DEF WriteTypeLine, Writes, Line
  <2> QED  BY <2>1 DEF Ops
<1>2. CASE WriteSubcode
  BY <1>2, EachOne DEF WriteSubcode, Writes, Line, Ops
<1>3. CASE WriteGvar
  BY <1>3, EachOne DEF WriteGvar, Writes, Line, Ops
<1>4. CASE WriteFv
  BY <1>4, EachOne DEF WriteFv, Writes, Line, Ops
<1>5. CASE WriteArg
  BY <1>5, EachOne DEF WriteArg, Writes, Line, Ops
<1>6. CASE WriteFkarg
  BY <1>6, EachOne DEF WriteFkarg, Writes, Line, Ops
<1>7. CASE WriteClosure
  BY <1>7, EachOne DEF WriteClosure, Writes, Line, Ops
<1>8. CASE WriteUndefined
  BY <1>8, EachOne DEF WriteUndefined, Writes, Line, Ops
<1>9. CASE WriteApply
  <2>1. PICK op \in Each({".apply", ".appty"}), f \in Operands(1), n \in 0 .. 1 :
                 \E xs \in IF op = ".apply" THEN Operands(1) ELSE {<<>>} :
                     Writes([Line(op) EXCEPT !.label = Fresh, !.args = f \o xs, !.ntyargs = n])
    BY <1>9 DEF WriteApply
  <2>2. PICK xs \in IF op = ".apply" THEN Operands(1) ELSE {<<>>} :
                 Writes([Line(op) EXCEPT !.label = Fresh, !.args = f \o xs, !.ntyargs = n])
    BY <2>1
  <2>3. op = ".apply" /\ line'.args = f \o xs
    BY <2>2 DEF Writes, Line
  <2>4. f \in Seq(Scope) /\ Len(f) = 1 /\ xs \in Seq(Scope) /\ Len(xs) = 1
    BY <2>3, OperandSeq
  <2> HIDE DEF Scope
  <2>5. f \o xs \in Seq(Scope) /\ Len(f \o xs) = 2
    BY <2>4, ConcatProperties
  <2> QED  BY <2>3, <2>5 DEF IsSeq
<1>10. CASE WritePrim
  BY <1>10, EachOne DEF WritePrim, Writes, Line, Ops
<1>11. CASE WriteConstr
  BY <1>11, EachOne DEF WriteConstr, Writes, Line, Ops
<1>12. CASE WriteRecord
  BY <1>12, EachOne DEF WriteRecord, Writes, Line, Ops
<1>13. CASE WriteField
  BY <1>13, EachOne DEF WriteField, Writes, Line, Ops
<1>14. CASE WriteAlias
  BY <1>14, EachOne DEF WriteAlias, Writes, Line, Ops
<1>15. CASE WriteCast
  BY <1>15, EachOne DEF WriteCast, Writes, Line, Ops
<1>16. CASE WritePush
  BY <1>16, EachOne DEF WritePush, Writes, Line, Ops
<1>17. CASE WriteApp
  BY <1>17, EachOne DEF WriteApp, Writes, Line, Ops
<1>18. CASE WriteUbanalyze
  BY <1>18, EachOne DEF WriteUbanalyze, Writes, Line, Ops
<1>19. CASE WriteReturn
  BY <1>19, EachOne DEF WriteReturn, Writes, Line, Ops
<1>20. CASE WriteUndef
  BY <1>20, EachOne DEF WriteUndef, Writes, Line, Ops
<1>21. CASE WriteTerminalPrim
  BY <1>21, EachOne DEF WriteTerminalPrim, Writes, Line, Ops
<1>22. CASE WriteBranch
  BY <1>22, EachOne DEF WriteBranch, Writes, Line, Ops
<1>23. CASE WriteCase
  BY <1>23, EachOne DEF WriteCase, Writes, Line, Ops
<1>24. CASE WriteDefault
  <2>1. PICK op \in Each(Ops.default) : line' = Line(op)
    BY <1>24 DEF WriteDefault, Writes
  <2>2. line'.op = op /\ op \in Ops.default
    BY <2>1, EachOne DEF Line
  <2> QED  BY <2>2 DEF Ops
<1>25. CASE WriteStatement
  <2>1. PICK op \in Each({".bind", ".body"}), x \in {0, Fresh} :
              \/ \E c \in Codes :
                    Writes([Line(op) EXCEPT !.sub = ".closure", !.label = x, !.code = c])
              \/ \E f \in Operands(1), xs \in Upto(1) :
                    Writes([Line(op) EXCEPT !.sub = ".apply", !.label = x, !.args = f \o xs])
              \/ \E t \in This.types :
                    Writes([Line(op) EXCEPT !.sub = ".undefined", !.label = x, !.type = t])
              \/ \E f \in Operands(1), sub \in {".appty", ".lfield"} :
                    Writes([Line(op) EXCEPT !.sub = sub, !.label = x, !.args = f, !.ntyargs = 1])
    BY <1>25 DEF WriteStatement
  <2>2. line'.op = op
    BY <2>1 DEF Writes, Line
  <2> QED  BY <2>1, <2>2, EachOne
<1> QED  BY <1>1, <1>2, <1>3, <1>4, <1>5, <1>6, <1>7, <1>8, <1>9, <1>10, <1>11, <1>12, <1>13,
            <1>14, <1>15, <1>16, <1>17, <1>18, <1>19, <1>20, <1>21, <1>22, <1>23, <1>24,
            <1>25 DEF Write

\* The inductive invariant: the passes agree, and their types match.
InTypes == InAgreement /\ (Compiling => TypesMatch(emitter, checker))

\* It holds before the first line.
LEMMA TypesInit == Init => InTypes
<1> SUFFICES ASSUME Init PROVE TypesMatch(emitter, checker)
  BY AgreementInit DEF InTypes
<1>1. /\ CheckerNew.regs = <<>> /\ CheckerNew.types = <<>>
      /\ EmitterNew.branches = <<>> /\ EmitterNew.regs = <<>> /\ EmitterNew.types = <<>>
  BY DEF CheckerNew, EmitterNew
<1>2. emitter = EmitterNew /\ checker = CheckerNew
  BY DEF Init
<1>3. FramesFit(<<>>, 0) /\ Base(<<>>, 0) = 0
  BY NoFrames DEF FramesFit, Base
<1> QED  BY <1>1, <1>2, <1>3, NoFrames DEF TypesMatch

\* Every line keeps it.
LEMMA TypesNext == InTypes /\ [Next]_vars => InTypes'
<1> SUFFICES ASSUME InTypes, [Next]_vars PROVE InTypes'
  OBVIOUS
<1>0. InAgreement'
  BY AgreementNext DEF InTypes
<1>1. CASE UNCHANGED vars
  BY <1>0, <1>1 DEF InTypes, Compiling, Refused, vars
<1>2. CASE Next
  <2>1. ASSUME Compiling' PROVE TypesMatch(emitter', checker')
    <3>1. /\ Known(line') /\ Compiling
          /\ Group(line') \in {"bind", "body"} => line'.sub \in Subs
          /\ emitter' = EmitterReads(emitter, line', kind) /\ Alive(emitter')
          /\ checker' = CheckerReads(checker, line', kind) /\ Alive(checker')
      BY <1>2, <2>1, LineCompiled DEF InTypes, InAgreement, InStep
    <3>2. /\ Matched(emitter, checker) /\ Flat(emitter, kind) /\ TypesMatch(emitter, checker)
          /\ checker.block # "done" /\ Write
      BY <1>2, <3>1 DEF InTypes, InAgreement, Next
    <3>3. EmitterStep(emitter, emitter', line', kind) /\ TypesNamed(emitter, emitter', line')
      BY <3>1, <3>2, EmitterSteps, ReadsGive DEF Matched, Emitting
    <3>4. CheckerStep(checker, checker', line')
      BY <3>1, <3>2, AlikeItself, CheckerSteps DEF Matched, Twins
    <3>5. Applies(line') /\ emitter.block # "done"
      BY <3>2, LineApplies DEF Matched
    <3> QED  BY <3>1, <3>2, <3>3, <3>4, <3>5, StepTypes
  <2> QED  BY <1>0, <2>1 DEF InTypes
<1> QED  BY <1>1, <1>2

\* It holds always.
THEOREM TypesInStep == Spec => []InTypes
  BY TypesInit, TypesNext, PTL DEF Spec

\* TypesAgree for any item: outside the blocks of a branch the type that
\* gsbc_byte_compile_code_ops has in regtypes for a register is the one
\* gsbc_typecheck_code_expr gave it, or none.
THEOREM TypesAlwaysAgree == Spec => []TypesAgree
<1>1. ASSUME InTypes PROVE TypesAgree
  <2> SUFFICES ASSUME Compiling, NEW i \in DOMAIN checker.regs,
                      ~(checker.branches # <<>> /\ i > Head(checker.branches).nregs)
               PROVE  emitter.types[i] \in {NoType, checker.types[i]}
    BY DEF TypesAgree
  <2>1. /\ emitter.regs = checker.regs /\ Alike(emitter.branches, checker.branches)
        /\ TypesMatch(emitter, checker)
    BY <1>1 DEF InTypes, InAgreement, Matched, Twins
  <2>2. IsSeq(emitter.branches) /\ IsSeq(checker.branches) /\ IsSeq(emitter.regs)
    BY <2>1 DEF Alike, TypesMatch
  <2>3. i \in 1 .. Len(emitter.regs) /\ Len(emitter.regs) \in Nat
    BY <2>1, <2>2, FramesFacts
  <2>4. i \in 1 .. Base(emitter.branches, Len(emitter.regs))
    <3>1. CASE Len(emitter.branches) = 0
      BY <2>3, <3>1 DEF Base
    <3>2. CASE Len(emitter.branches) # 0
      <4>1. Len(emitter.branches) \in Nat /\ 1 \in 1 .. Len(emitter.branches)
        BY <2>2, <3>2, FramesFacts
      <4>2. checker.branches # <<>>
        BY <2>1, <3>2, NoFrames DEF Alike
      <4>3. Head(checker.branches) = checker.branches[1]
        OBVIOUS
      <4>4. checker.branches[1].nregs = emitter.branches[1].nregs
        BY <2>1, <4>1 DEF Alike, AlikeFrame
      <4>5. emitter.branches[1].nregs \in 0 .. Len(emitter.regs)
        BY <2>1, <4>1 DEF TypesMatch, FramesFit
      <4> QED  BY <2>3, <3>2, <4>2, <4>3, <4>4, <4>5 DEF Base
    <3> QED  BY <3>1, <3>2
  <2> QED  BY <2>1, <2>4 DEF TypesMatch
<1> QED  BY <1>1, TypesInStep, PTL

-----------------------------------------------------------------------------
(* Types that are hidden.                                                  *)

\* The type t with n of its types hidden, as ContArg hides them.
Hides(t, n) == FoldLeft(LAMBDA u, i : Exists(u), t, [i \in 1 .. n |-> i])

\* What a quantified type is about.
BodyOf(t) == t.args[1]

\* The type t with n of its types bared again, as CaseArgsInPlace bares them.
Bares(t, n) == FoldLeft(LAMBDA u, i : u.args[1], t, [i \in 1 .. n |-> i])

\* The one fold, type by type.
LEMMA HidesUnroll ==
    ASSUME NEW s, NEW n \in Nat
    PROVE  \E f : /\ f[0] = s
                  /\ \A k \in 1 .. n : f[k] = Exists(f[k - 1])
                  /\ Hides(s, n) = f[n]
<1> DEFINE Is(f, m) ==
      f = [t \in SUBSET (1 .. m) |-> IF t = {} THEN s
                                     ELSE Exists(f[t \ {Max(t)}])]
           T == {m \in 0 .. n : \E f : Is(f, m)}
<1>1. 0 \in T
  <2> DEFINE f == [t \in SUBSET (1 .. 0) |-> s]
  <2>1. Is(f, 0)
    OBVIOUS
  <2> QED  BY <2>1
<1>2. \A m \in 1 .. n : m - 1 \in T => m \in T
  <2> TAKE m \in 1 .. n
  <2> HAVE m - 1 \in T
  <2>1. PICK g : Is(g, m - 1)
    OBVIOUS
  <2> DEFINE f == [t \in SUBSET (1 .. m) |->
                      IF m \in t THEN Exists(g[t \ {m}]) ELSE g[t]]
  <2>2. ASSUME NEW t \in SUBSET (1 .. m)
        PROVE  f[t] = IF t = {} THEN s ELSE Exists(f[t \ {Max(t)}])
    <3>1. CASE m \in t
      <4>1. Max(t) = m
        <5>1. m \in Nat /\ t # {}
          BY <3>1
        <5> QED  BY <3>1, <5>1, MaxOfUpTo
      <4>2. t # {} /\ f[t \ {m}] = g[t \ {m}]
        BY <3>1
      <4> QED  BY <3>1, <4>1, <4>2
    <3>2. CASE m \notin t
      <4>1. t \in SUBSET (1 .. m - 1)
        BY <3>2
      <4>2. f[t] = g[t] /\ f[t \ {Max(t)}] = g[t \ {Max(t)}]
        BY <3>2
      <4>3. g[t] = IF t = {} THEN s ELSE Exists(g[t \ {Max(t)}])
        BY <2>1, <4>1
      <4> QED  BY <4>2, <4>3
    <3> QED  BY <3>1, <3>2
  <2>3. Is(f, m)
    <3> DEFINE h == [t \in SUBSET (1 .. m) |-> IF t = {} THEN s
                                     ELSE Exists(f[t \ {Max(t)}])]
    <3>1. \A t \in SUBSET (1 .. m) : f[t] = h[t]
      <4> HIDE DEF f
      <4> QED  BY <2>2
    <3> QED  BY <3>1
  <2> HIDE DEF f
  <2>4. m \in 0 .. n
    OBVIOUS
  <2> HIDE DEF Is
  <2> QED  BY <2>3, <2>4
<1>3. \E f : Is(f, n)
  <2> HIDE DEF T
  <2>1. n \in T
    BY <1>1, <1>2, UpTo
  <2> QED  BY <2>1 DEF T
<1> DEFINE iter == CHOOSE f : Is(f, n)
<1>4. Is(iter, n)
  BY <1>3
<1>5. Hides(s, n) = iter[1 .. n]
  BY DEF Hides, FoldLeft, MapThenFoldSet
<1> HIDE DEF iter
<1> DEFINE f == [k \in 0 .. n |-> iter[1 .. k]]
<1>6. f[0] = s
  <2>1. 1 .. 0 = {} /\ {} \in SUBSET (1 .. n)
    OBVIOUS
  <2> QED  BY <1>4, <2>1
<1>7. ASSUME NEW k \in 1 .. n PROVE f[k] = Exists(f[k - 1])
  <2>1. Max(1 .. k) = k
    <3>1. k \in Nat /\ 1 .. k \in SUBSET (1 .. k) /\ 1 .. k # {} /\ k \in 1 .. k
      OBVIOUS
    <3> QED  BY <3>1, MaxOfUpTo
  <2>2. (1 .. k) \ {k} = 1 .. k - 1 /\ 1 .. k # {} /\ 1 .. k \in SUBSET (1 .. n)
    OBVIOUS
  <2>3. iter[1 .. k] = Exists(iter[1 .. k - 1])
    BY <1>4, <2>1, <2>2
  <2> QED  BY <2>3
<1>8. f[n] = iter[1 .. n]
  OBVIOUS
<1> HIDE DEF f
<1> QED  BY <1>5, <1>6, <1>7, <1>8

\* The other one.
LEMMA BaresUnroll ==
    ASSUME NEW s, NEW n \in Nat
    PROVE  \E f : /\ f[0] = s
                  /\ \A k \in 1 .. n : f[k] = BodyOf(f[k - 1])
                  /\ Bares(s, n) = f[n]
<1> DEFINE Is(f, m) ==
      f = [t \in SUBSET (1 .. m) |-> IF t = {} THEN s
                                     ELSE BodyOf(f[t \ {Max(t)}])]
           T == {m \in 0 .. n : \E f : Is(f, m)}
<1>1. 0 \in T
  <2> DEFINE f == [t \in SUBSET (1 .. 0) |-> s]
  <2>1. Is(f, 0)
    OBVIOUS
  <2> QED  BY <2>1
<1>2. \A m \in 1 .. n : m - 1 \in T => m \in T
  <2> TAKE m \in 1 .. n
  <2> HAVE m - 1 \in T
  <2>1. PICK g : Is(g, m - 1)
    OBVIOUS
  <2> DEFINE f == [t \in SUBSET (1 .. m) |->
                      IF m \in t THEN BodyOf(g[t \ {m}]) ELSE g[t]]
  <2>2. ASSUME NEW t \in SUBSET (1 .. m)
        PROVE  f[t] = IF t = {} THEN s ELSE BodyOf(f[t \ {Max(t)}])
    <3>1. CASE m \in t
      <4>1. Max(t) = m
        <5>1. m \in Nat /\ t # {}
          BY <3>1
        <5> QED  BY <3>1, <5>1, MaxOfUpTo
      <4>2. t # {} /\ f[t \ {m}] = g[t \ {m}]
        BY <3>1
      <4> QED  BY <3>1, <4>1, <4>2
    <3>2. CASE m \notin t
      <4>1. t \in SUBSET (1 .. m - 1)
        BY <3>2
      <4>2. f[t] = g[t] /\ f[t \ {Max(t)}] = g[t \ {Max(t)}]
        BY <3>2
      <4>3. g[t] = IF t = {} THEN s ELSE BodyOf(g[t \ {Max(t)}])
        BY <2>1, <4>1
      <4> QED  BY <4>2, <4>3
    <3> QED  BY <3>1, <3>2
  <2>3. Is(f, m)
    <3> DEFINE h == [t \in SUBSET (1 .. m) |-> IF t = {} THEN s
                                     ELSE BodyOf(f[t \ {Max(t)}])]
    <3>1. \A t \in SUBSET (1 .. m) : f[t] = h[t]
      <4> HIDE DEF f
      <4> QED  BY <2>2
    <3> QED  BY <3>1
  <2> HIDE DEF f
  <2>4. m \in 0 .. n
    OBVIOUS
  <2> HIDE DEF Is
  <2> QED  BY <2>3, <2>4
<1>3. \E f : Is(f, n)
  <2> HIDE DEF T
  <2>1. n \in T
    BY <1>1, <1>2, UpTo
  <2> QED  BY <2>1 DEF T
<1> DEFINE iter == CHOOSE f : Is(f, n)
<1>4. Is(iter, n)
  BY <1>3
<1>5. Bares(s, n) = iter[1 .. n]
  BY DEF Bares, BodyOf, FoldLeft, MapThenFoldSet
<1> HIDE DEF iter
<1> DEFINE f == [k \in 0 .. n |-> iter[1 .. k]]
<1>6. f[0] = s
  <2>1. 1 .. 0 = {} /\ {} \in SUBSET (1 .. n)
    OBVIOUS
  <2> QED  BY <1>4, <2>1
<1>7. ASSUME NEW k \in 1 .. n PROVE f[k] = BodyOf(f[k - 1])
  <2>1. Max(1 .. k) = k
    <3>1. k \in Nat /\ 1 .. k \in SUBSET (1 .. k) /\ 1 .. k # {} /\ k \in 1 .. k
      OBVIOUS
    <3> QED  BY <3>1, MaxOfUpTo
  <2>2. (1 .. k) \ {k} = 1 .. k - 1 /\ 1 .. k # {} /\ 1 .. k \in SUBSET (1 .. n)
    OBVIOUS
  <2>3. iter[1 .. k] = BodyOf(iter[1 .. k - 1])
    BY <1>4, <2>1, <2>2
  <2> QED  BY <2>3
<1>8. f[n] = iter[1 .. n]
  OBVIOUS
<1> HIDE DEF f
<1> QED  BY <1>5, <1>6, <1>7, <1>8

\* What was hidden is bared: the type is what it was.
LEMMA BaresWhatHides ==
    ASSUME NEW t, NEW n \in Nat
    PROVE  Bares(Hides(t, n), n) = t
<1>1. PICK f : /\ f[0] = t
               /\ \A k \in 1 .. n : f[k] = Exists(f[k - 1])
               /\ Hides(t, n) = f[n]
  BY HidesUnroll
<1>2. PICK g : /\ g[0] = Hides(t, n)
               /\ \A k \in 1 .. n : g[k] = BodyOf(g[k - 1])
               /\ Bares(Hides(t, n), n) = g[n]
  <2> DEFINE u == Hides(t, n)
  <2> HIDE DEF u
  <2>1. \E g : /\ g[0] = u
               /\ \A k \in 1 .. n : g[k] = BodyOf(g[k - 1])
               /\ Bares(u, n) = g[n]
    BY BaresUnroll
  <2> QED  BY <2>1 DEF u
<1> DEFINE T == {k \in 0 .. n : g[k] = f[n - k]}
<1>3. 0 \in T
  BY <1>1, <1>2
<1>4. \A k \in 1 .. n : k - 1 \in T => k \in T
  <2> TAKE k \in 1 .. n
  <2> HAVE k - 1 \in T
  <2>1. n - k + 1 \in 1 .. n /\ n - (k - 1) = n - k + 1 /\ (n - k + 1) - 1 = n - k /\ k \in 0 .. n
    OBVIOUS
  <2>2. g[k] = BodyOf(f[n - k + 1])
    BY <1>2, <2>1
  <2>3. f[n - k + 1] = Exists(f[n - k])
    BY <1>1, <2>1
  <2>4. BodyOf(Exists(f[n - k])) = f[n - k]
    BY DEF BodyOf, Exists, Type
  <2> QED  BY <2>1, <2>2, <2>3, <2>4
<1>5. n \in T
  <2> HIDE DEF T
  <2> QED  BY <1>3, <1>4, UpTo
<1> QED  BY <1>1, <1>2, <1>5

-----------------------------------------------------------------------------
(* The arguments of the emitter.                                           *)

\* The emitter t has the arguments of s, and the fields.
SameArgs(s, t) == IsEmitter(t) /\ t.nargs = s.nargs /\ t.fields = s.fields

\* As s has itself.
LEMMA ArgsOfItself == ASSUME NEW s, IsEmitter(s) PROVE SameArgs(s, s)
  BY DEF SameArgs

\* A check leaves them as they are.
LEMMA ArgsChecked ==
    ASSUME NEW s, NEW t, NEW ok, NEW why, SameArgs(s, t)
    PROVE  SameArgs(s, Check(t, ok, why))
  BY DEF SameArgs, Check, Fatal, IsEmitter

\* So does a look at the registers,
LEMMA ArgsFound ==
    ASSUME NEW s, NEW t, NEW xs, NEW code, SameArgs(s, t)
    PROVE  /\ SameArgs(s, Finds(t, xs)) /\ SameArgs(s, FindsCode(t, code))
           /\ SameArgs(s, Captures(t, code))
<1>1. \A ok : SameArgs(s, Check(t, ok, "register"))
  BY ArgsChecked
<1>2. \A ys : SameArgs(s, Finds(t, ys))
  BY <1>1 DEF Finds
<1> QED  BY <1>1, <1>2 DEF FindsCode, Captures

\* a register that is named,
LEMMA ArgsNamed ==
    ASSUME NEW s, NEW t, NEW l, NEW ty, SameArgs(s, t)
    PROVE  SameArgs(s, NameRegister(t, l)) /\ SameArgs(s, NameTypedRegister(t, l, ty))
<1>1. SameArgs(s, NameRegister(t, l))
  BY DEF SameArgs, NameRegister, Fatal, IsEmitter
<1>2. SameArgs(s, NameTypedRegister(t, l, ty))
  BY <1>1 DEF SameArgs, NameTypedRegister, Fatal, IsEmitter
<1> QED  BY <1>1, <1>2

\* and an instruction.
LEMMA ArgsEmitted ==
    ASSUME NEW s, NEW t, NEW n, SameArgs(s, t)
    PROVE  SameArgs(s, Emitted(t, n))
  BY DEF SameArgs, Emitted, IsEmitter

\* Hence every allocation does,
LEMMA AllocSameArgs ==
    ASSUME NEW s, NEW l, IsEmitter(s), Known(l), Group(l) = "alloc"
    PROVE  SameArgs(s, EmitAlloc(s, l))
<1>0. SameArgs(s, s)
  BY ArgsOfItself
<1>1. CASE l.op = ".closure"
  <2> DEFINE u == FindsCode(s, l.code)
             v == Captures(u, l.code)
             w == NameTypedRegister(v, l, SubCodes[l.code].result)
  <2>1. EmitAlloc(s, l) = Emitted(w, ClosureSize(NumFvsOf(l)))
    BY <1>1 DEF EmitAlloc, EmitClosure
  <2>2. SameArgs(s, u)
    BY <1>0, ArgsFound
  <2> HIDE DEF u
  <2>3. SameArgs(s, v)
    BY <2>2, ArgsFound
  <2> HIDE DEF v
  <2>4. SameArgs(s, w)
    BY <2>3, ArgsNamed
  <2> HIDE DEF w
  <2> QED  BY <2>1, <2>4, ArgsEmitted
<1>2. CASE l.op \in {".prim", ".impprim"}
  <2> DEFINE u == NameRegister(s, l)
             v == Finds(s, l.args)
  <2>1. \/ EmitAlloc(s, l) = Emitted(Finds(u, l.args), PrimSize(Len(l.args)))
        \/ EmitAlloc(s, l) = Emitted(NameRegister(v, l), ImpprimSize(Len(l.args)))
        \/ EmitAlloc(s, l) = Emitted(u, UnknownPrimSize)
    BY <1>2 DEF EmitAlloc, EmitPrim, EmitImpprim
  <2>2. SameArgs(s, u) /\ SameArgs(s, v)
    BY <1>0, ArgsNamed, ArgsFound
  <2> HIDE DEF u, v
  <2>3. SameArgs(s, Finds(u, l.args)) /\ SameArgs(s, NameRegister(v, l))
    BY <2>2, ArgsNamed, ArgsFound
  <2> QED  BY <2>1, <2>2, <2>3, ArgsEmitted
<1>3. CASE l.op \in {".constr", ".exconstr"}
  <2> DEFINE has == FieldOf(l.type, l.names[1]) # 0
             u == NameTypedRegister(s, l, l.type)
             v == Check(u, has, "constructor")
             w == Finds(v, l.args)
  <2>1. EmitAlloc(s, l) = Emitted(w, ConstrSize(Len(l.args)))
    BY <1>3 DEF EmitAlloc, EmitConstr
  <2> HIDE DEF has
  <2>2. SameArgs(s, u)
    BY <1>0, ArgsNamed
  <2> HIDE DEF u
  <2>3. SameArgs(s, v)
    BY <2>2, ArgsChecked
  <2> HIDE DEF v
  <2>4. SameArgs(s, w)
    BY <2>3, ArgsFound
  <2> HIDE DEF w
  <2> QED  BY <2>1, <2>4, ArgsEmitted
<1>4. CASE l.op \in {".record", ".lrecord"}
  <2> DEFINE ordered == Ordered(l.names)
             u == Finds(s, l.args)
             v == Check(u, ordered, "fields")
             w == NameRegister(v, l)
  <2>1. EmitAlloc(s, l) = Emitted(w, RecordSize(Len(l.args)))
    BY <1>4 DEF EmitAlloc, EmitRecord
  <2> HIDE DEF ordered
  <2>2. SameArgs(s, u)
    BY <1>0, ArgsFound
  <2> HIDE DEF u
  <2>3. SameArgs(s, v)
    BY <2>2, ArgsChecked
  <2> HIDE DEF v
  <2>4. SameArgs(s, w)
    BY <2>3, ArgsNamed
  <2> HIDE DEF w
  <2> QED  BY <2>1, <2>4, ArgsEmitted
<1>5. CASE l.op \in {".field", ".lfield"}
  <2> DEFINE known == TypeOf(s, l.args[1])
             product == IF l.op = ".lfield" /\ known.node = "lift" THEN known.args[1] ELSE known
             k == FieldOf(product, l.names[1])
             ty == IF k = 0 THEN BadType ELSE product.args[k]
             typed == known # NoType
             has == k # 0
             u == Finds(s, l.args)
             v == Check(u, typed, "no type")
             w == Check(v, has, "field")
             x == NameTypedRegister(w, l, ty)
             y == Emitted(x, FieldSize)
  <2>1. EmitAlloc(s, l) = [y EXCEPT !.field = k]
    BY <1>5 DEF EmitAlloc, EmitField
  <2> HIDE DEF has, typed, ty, k
  <2>2. SameArgs(s, u)
    BY <1>0, ArgsFound
  <2> HIDE DEF u
  <2>3. SameArgs(s, v)
    BY <2>2, ArgsChecked
  <2> HIDE DEF v
  <2>4. SameArgs(s, w)
    BY <2>3, ArgsChecked
  <2> HIDE DEF w
  <2>5. SameArgs(s, x)
    BY <2>4, ArgsNamed
  <2> HIDE DEF x
  <2>6. SameArgs(s, y)
    BY <2>5, ArgsEmitted
  <2> HIDE DEF y
  <2> QED  BY <2>1, <2>6 DEF SameArgs, IsEmitter
<1>6. CASE l.op = ".undefined"
  <2> DEFINE u == NameTypedRegister(s, l, l.type)
  <2>1. EmitAlloc(s, l) = Emitted(u, UndefinedSize)
    BY <1>6 DEF EmitAlloc, EmitUndefined
  <2>2. SameArgs(s, u)
    BY <1>0, ArgsNamed
  <2> HIDE DEF u
  <2> QED  BY <2>1, <2>2, ArgsEmitted
<1>7. CASE l.op \in {".appty", ".cast", ".lifted"}
  <2> DEFINE u == Finds(s, l.args)
             v == NameRegister(u, l)
  <2>1. EmitAlloc(s, l) = Emitted(v, AliasSize)
    BY <1>7 DEF EmitAlloc, EmitAlias
  <2>2. SameArgs(s, u)
    BY <1>0, ArgsFound
  <2> HIDE DEF u
  <2>3. SameArgs(s, v)
    BY <2>2, ArgsNamed
  <2> HIDE DEF v
  <2> QED  BY <2>1, <2>3, ArgsEmitted
<1>8. CASE l.op = ".apply"
  <2> DEFINE typed == TypeOf(s, l.args[1]) # NoType
             ty == ApplyType(s, l)
             fun == ty # BadType
             u == Finds(s, l.args)
             v == Check(u, typed, "no type")
             w == Check(v, fun, "function")
             x == NameTypedRegister(w, l, ty)
  <2>1. EmitAlloc(s, l) = Emitted(x, ApplySize(Len(l.args) - 1))
    BY <1>8 DEF EmitAlloc, EmitApply, EmitsApply
  <2> HIDE DEF typed, fun, ty
  <2>2. SameArgs(s, u)
    BY <1>0, ArgsFound
  <2> HIDE DEF u
  <2>3. SameArgs(s, v)
    BY <2>2, ArgsChecked
  <2> HIDE DEF v
  <2>4. SameArgs(s, w)
    BY <2>3, ArgsChecked
  <2> HIDE DEF w
  <2>5. SameArgs(s, x)
    BY <2>4, ArgsNamed
  <2> HIDE DEF x
  <2> QED  BY <2>1, <2>5, ArgsEmitted
<1> QED  BY <1>1, <1>2, <1>3, <1>4, <1>5, <1>6, <1>7, <1>8, OpsOfGroups

\* every continuation,
LEMMA PushSameArgs ==
    ASSUME NEW s, NEW l, IsEmitter(s), Known(l), Group(l) = "push"
    PROVE  SameArgs(s, EmitPush(s, l))
<1>0. SameArgs(s, s)
  BY ArgsOfItself
<1>1. CASE l.op = ".app"
  <2> DEFINE u == Finds(s, l.args)
  <2>1. EmitPush(s, l) = Emitted(u, AppSize(Len(l.args)))
    BY <1>1 DEF EmitPush, EmitApp
  <2>2. SameArgs(s, u)
    BY <1>0, ArgsFound
  <2> HIDE DEF u
  <2> QED  BY <2>1, <2>2, ArgsEmitted
<1>2. CASE l.op \in {".force", ".strict", ".ubanalyze"}
  <2> DEFINE has == l.names # <<>> /\ AllFound(s.codes, l.codes)
             u == IF l.op = ".ubanalyze" THEN Check(s, has, "register") ELSE FindsCode(s, l.code)
             v == Captures(u, l.code)
  <2>1. \E n : EmitPush(s, l) = Emitted(v, n)
    <3>1. CASE l.op = ".ubanalyze"
      <4>1. EmitPush(s, l) = Emitted(v, UbanalyzeSize(Len(l.names), NumFvsOf(l)))
        BY <3>1 DEF EmitPush, EmitUbanalyze
      <4> QED  BY <4>1
    <3>2. CASE l.op # ".ubanalyze"
      <4>1. EmitPush(s, l) = Emitted(v, ContSize(NumFvsOf(l)))
        BY <1>2, <3>2 DEF EmitPush, EmitForce
      <4> QED  BY <4>1
    <3> QED  BY <3>1, <3>2
  <2> HIDE DEF has
  <2>2. SameArgs(s, u)
    BY <1>0, ArgsFound, ArgsChecked
  <2> HIDE DEF u
  <2>3. SameArgs(s, v)
    BY <2>2, ArgsFound
  <2> HIDE DEF v
  <2> QED  BY <2>1, <2>3, ArgsEmitted
<1> QED  BY <1>1, <1>2, OpsOfGroups

\* and a type register.
LEMMA TypeRegisterSameArgs ==
    ASSUME NEW s, IsEmitter(s)
    PROVE  SameArgs(s, TypeRegister(s))
  BY DEF TypeRegister, Fatal, SameArgs, IsEmitter

\* An argument is counted, and a field noted by its name.
LEMMA ArgCounted ==
    ASSUME NEW s, NEW l, IsEmitter(s)
    PROVE  LET t == EmitArg(s, l)
           IN  /\ t.nargs = s.nargs + 1
               /\ t.fields = IF l.op = ".fkarg" THEN Append(s.fields, l.names[1]) ELSE s.fields
<1> DEFINE u == NameTypedRegister(s, l, l.type)
           t == [u EXCEPT !.nargs = @ + 1]
           next == t.fields = <<>> \/ Last(t.fields) < l.names[1]
           v == Check(t, next, "fields")
           w == [v EXCEPT !.fields = Append(@, l.names[1])]
<1>1. EmitArg(s, l) = IF l.op # ".fkarg" THEN t ELSE w
  BY DEF EmitArg
<1>2. SameArgs(s, u)
  BY ArgsOfItself, ArgsNamed
<1> HIDE DEF u, next
<1>3. IsEmitter(t) /\ t.nargs = s.nargs + 1 /\ t.fields = s.fields
  BY <1>2 DEF SameArgs, IsEmitter
<1> HIDE DEF t
<1>4. SameArgs(t, v)
  BY <1>3, ArgsOfItself, ArgsChecked
<1> HIDE DEF v
<1>5. w.nargs = t.nargs /\ w.fields = Append(t.fields, l.names[1])
  BY <1>4 DEF SameArgs, IsEmitter
<1> HIDE DEF w
<1> QED  BY <1>1, <1>3, <1>5

\* Where blocks end, the count goes back to what it was before the branch that goes on.
LEMMA EndTakesArgs ==
    ASSUME NEW s, IsEmitter(s), IsSeq(s.branches), StillIn(s) # 0
    PROVE  EmitEnd(s).nargs = s.branches[StillIn(s)].nargs
<1> DEFINE n == Ended(s)
           L == Len(s.branches)
           t == EmitUnwound(s, Ending(s))
<1>1. /\ n \in Nat /\ Spans(Ending(s), n) /\ n = L - StillIn(s) + 1
      /\ \A k \in 1 .. n : Ending(s)[k] = s.branches[L - k + 1]
  BY EndingIs DEF Ended
<1>2. L \in Nat /\ StillIn(s) \in 1 .. L
  BY StillInIs, FramesFacts
<1>3. EmitEnd(s) = EndBlock(t)
  BY DEF EmitEnd, EmitUnwound, EmitRestored, FoldLeft, MapThenFoldSet
<1>4. PICK f : /\ f[0] = s
               /\ \A k \in 1 .. n : f[k] = EmitRestored(f[k - 1], Ending(s)[k])
               /\ EmitUnwound(s, Ending(s)) = f[n]
  <2>1. n \in Nat /\ Spans(Ending(s), n)
    BY <1>1
  <2> HIDE DEF n
  <2> QED  BY <2>1, EmitUnrolls
<1> DEFINE T == {k \in 0 .. n : IsEmitter(f[k])}
<1>5. 0 \in T
  BY <1>1, <1>4
<1>6. \A k \in 1 .. n : k - 1 \in T => k \in T
  <2> TAKE k \in 1 .. n
  <2> HAVE k - 1 \in T
  <2>1. f[k] = EmitRestored(f[k - 1], Ending(s)[k]) /\ IsEmitter(f[k - 1])
    BY <1>4
  <2>2. IsEmitter(f[k])
    BY <2>1 DEF EmitRestored, IsEmitter
  <2> QED  BY <2>2
<1>7. \A k \in 0 .. n : k \in T
  <2> HIDE DEF T, n
  <2> QED  BY <1>1, <1>5, <1>6, UpTo
<1> HIDE DEF t, T
<1>8. n \in 1 .. n /\ n - 1 \in 0 .. n /\ n \in 0 .. n /\ L - n + 1 = StillIn(s)
  BY <1>1, <1>2
<1>11. t = f[n]
  BY <1>4 DEF t
<1>9. IsEmitter(t) /\ t.nargs = Ending(s)[n].nargs
  <2>1. f[n] = EmitRestored(f[n - 1], Ending(s)[n]) /\ IsEmitter(f[n - 1]) /\ IsEmitter(f[n])
    BY <1>4, <1>7, <1>8 DEF T
  <2> QED  BY <1>11, <2>1 DEF EmitRestored, IsEmitter
<1>10. EndBlock(t).nargs = t.nargs
  BY <1>9 DEF EndBlock, IsEmitter
<1> QED  BY <1>1, <1>3, <1>8, <1>9, <1>10

\* So it does at a terminal, which ends blocks.
LEMMA TerminalTakesArgs ==
    ASSUME NEW s, NEW l, Emitting(s), Known(l), Group(l) = "terminal",
           Alive(EmitTerminal(s, l)), StillIn(s) # 0
    PROVE  EmitTerminal(s, l).nargs = s.branches[StillIn(s)].nargs
<1> DEFINE u == EmitsTerminal(s, l)
<1>1. EmitTerminal(s, l) = EmitEnd(u)
  BY DEF EmitTerminal, EmitsTerminal
<1>2. IsEmitter(u) /\ u.branches = s.branches
  BY FindsPasses, EmittedStays DEF EmitsTerminal, EmitTerminalPrim, EmitReturn, Emitted, Finds,
     Check, Fatal, IsEmitter, Emitting
<1> HIDE DEF u
<1>3. StillIn(u) = StillIn(s)
  BY <1>2 DEF StillIn
<1> QED  BY <1>1, <1>2, <1>3, EndTakesArgs DEF Emitting

\* A branch that starts leaves the count.
LEMMA BranchSameArgs ==
    ASSUME NEW s, NEW l, IsEmitter(s)
    PROVE  EmitBranch(s, l).nargs = s.nargs
<1> DEFINE typed == TypeOf(s, l.args[1]) # NoType
           u == Finds(s, l.args)
           v == Check(u, typed, "no type")
           x == Emitted(u, AnalyzeSize(Len(l.names)))
           y == Emitted(v, DanalyzeSize(Len(l.names)))
<1>1. EmitBranch(s, l) = IF l.op = ".analyze" THEN StartBranch(x, l, Saving(s, l))
                         ELSE StartBranch(y, l, Saving(s, l))
  BY DEF EmitBranch, EmitAnalyze, EmitDanalyze
<1> HIDE DEF typed
<1>2. SameArgs(s, u)
  BY ArgsOfItself, ArgsFound
<1> HIDE DEF u
<1>3. SameArgs(s, v)
  BY <1>2, ArgsChecked
<1> HIDE DEF v
<1>4. SameArgs(s, x) /\ SameArgs(s, y)
  BY <1>2, <1>3, ArgsEmitted
<1> HIDE DEF x, y
<1>5. \A z : SameArgs(s, z) => StartBranch(z, l, Saving(s, l)).nargs = s.nargs
  BY DEF StartBranch, SameArgs, IsEmitter
<1> QED  BY <1>1, <1>4, <1>5

-----------------------------------------------------------------------------
(* The argument of a .case in the checker.                                 *)

\* The checker t has of the argument of a .case what s has, and reads on in its loop.
SameCont(s, t) == t.loop = s.loop /\ t.karg = s.karg /\ t.fields = s.fields /\ t.exargs = s.exargs

\* A register more is no argument more,
LEMMA RegisterSameCont ==
    ASSUME NEW s, NEW t, NEW l, NEW ty, Passed(s, t), Alive(DataRegister(t, l, ty))
    PROVE  IsChecker(DataRegister(t, l, ty)) /\ SameCont(s, DataRegister(t, l, ty)) /\ Alive(t)
<1> DEFINE u == NewRegister(t, l, ty, FALSE)
<1>1. ~Alive(Fatal(t, "registers"))
  BY DEF Fatal, IsChecker, Alive, Passed
<1>2. DataRegister(t, l, ty) = u
  BY <1>1 DEF DataRegister
<1>3. IsChecker(u) /\ SameCont(t, u) /\ u.fatal = t.fatal
  BY DEF NewRegister, SameCont, Passed, IsChecker
<1> HIDE DEF u
<1> QED  BY <1>2, <1>3 DEF Alive, Passed

\* a register for a type is not,
LEMMA OtherSameCont ==
    ASSUME NEW s, IsChecker(s), Alive(OtherRegister(s))
    PROVE  IsChecker(OtherRegister(s)) /\ SameCont(s, OtherRegister(s))
<1>1. ~Alive(Fatal(s, "registers"))
  BY DEF Fatal, IsChecker, Alive
<1>2. OtherRegister(s) = [s EXCEPT !.others = @ + 1]
  BY <1>1 DEF OtherRegister
<1> QED  BY <1>2 DEF SameCont, IsChecker

\* nor is what is pushed,
LEMMA PushSameCont ==
    ASSUME NEW s, NEW l, IsChecker(s), Alive(Push(s, l))
    PROVE  SameCont(s, Push(s, l))
<1>1. ~Alive(Fatal(s, "stack"))
  BY DEF Fatal, IsChecker, Alive
<1>2. Push(s, l) = [s EXCEPT !.stack = Append(@, l)]
  BY <1>1 DEF Push
<1> QED  BY <1>2 DEF SameCont, IsChecker

\* nor an allocation.
LEMMA AllocSameCont ==
    ASSUME NEW s, NEW l, IsChecker(s), Known(l), Group(l) = "alloc", Alive(CheckAlloc(s, l))
    PROVE  SameCont(s, CheckAlloc(s, l))
<1>1. PICK u, ty : Passed(s, u) /\ CheckAlloc(s, l) = DataRegister(u, l, ty)
  BY AllocValued
<1> QED  BY <1>1, RegisterSameCont

\* An .exkarg is one more type to hide.
LEMMA ContTypeArgHidden ==
    ASSUME NEW s, NEW l, IsChecker(s), Alive(CheckContTypeArg(s, l))
    PROVE  LET t == CheckContTypeArg(s, l)
           IN  /\ t.loop = s.loop /\ t.karg = s.karg /\ t.fields = s.fields
               /\ t.exargs = s.exargs + 1
<1> DEFINE p == OtherRegister(s)
           q == [p EXCEPT !.tyvars = @ + 1]
           t == [q EXCEPT !.exargs = @ + 1]
<1>1. CheckContTypeArg(s, l) = t
  BY DEF CheckContTypeArg, TypeVariable
<1>2. IsChecker(p)
  BY OtherIn, PassedItself
<1>3. p.fatal = t.fatal
  <2> HIDE DEF p
  <2> QED  BY <1>2 DEF IsChecker
<1>4. SameCont(s, p)
  BY <1>1, <1>3, OtherSameCont DEF Alive
<1> HIDE DEF p
<1> QED  BY <1>1, <1>2, <1>4 DEF SameCont, IsChecker

\* A .karg is the argument, and boxed.
LEMMA ContArgBound ==
    ASSUME NEW s, NEW l, NEW kd, IsChecker(s), Alive(CheckContArg(s, l, kd))
    PROVE  LET t == CheckContArg(s, l, kd)
           IN  /\ t.loop = s.loop /\ t.karg = l.type /\ t.fields = s.fields
               /\ t.exargs = s.exargs /\ Boxed(l.type)
<1> DEFINE ok == s.karg = NoType
           right == s.block = "item" => /\ kd = ".forcecont" => ~Lifted(l.type)
                                        /\ kd = ".strictcont" => Lifted(l.type)
           boxed == Boxed(l.type)
           r == Check(s, ok, "karg")
           q == Check(r, boxed, "boxed")
           t == Check(q, right, "kind")
           u == DataRegister(t, l, l.type)
           v == [u EXCEPT !.karg = l.type]
<1>1. CheckContArg(s, l, kd) = v
  BY DEF CheckContArg, IsBoxed
<1> HIDE DEF ok, right, boxed
<1>2. Passed(s, r)
  BY PassedItself, CheckerChecks
<1> HIDE DEF r
<1>3. Passed(s, q)
  BY <1>2, CheckerChecks
<1>4. Alive(q) => boxed
  <2>1. IsChecker(r)
    BY <1>2 DEF Passed
  <2> QED  BY <2>1 DEF Check, Fatal, IsChecker, Alive
<1> HIDE DEF q
<1>5. Passed(s, t)
  BY <1>3, CheckerChecks
<1>6. Alive(t) => Alive(q)
  BY <1>3, CheckHolds DEF Passed
<1> HIDE DEF t
<1>7. IsChecker(u)
  BY <1>5, DataRegisterIn
<1>8. Alive(u)
  <2> HIDE DEF u
  <2> QED  BY <1>1, <1>7 DEF Alive, IsChecker
<1>9. SameCont(s, u) /\ Alive(t)
  BY <1>5, <1>8, RegisterSameCont
<1> HIDE DEF u
<1>10. /\ v.loop = u.loop /\ v.karg = l.type /\ v.fields = u.fields /\ v.exargs = u.exargs
  BY <1>7 DEF IsChecker
<1> HIDE DEF v
<1> QED  BY <1>1, <1>4, <1>6, <1>9, <1>10 DEF SameCont, boxed

\* An .fkarg is one more field.
LEMMA FieldArgAdded ==
    ASSUME NEW s, NEW l, IsChecker(s), Alive(CheckFieldContArg(s, l))
    PROVE  LET t == CheckFieldContArg(s, l)
           IN  /\ t.loop = s.loop /\ t.karg = s.karg /\ t.exargs = s.exargs
               /\ t.fields = Append(s.fields, [name |-> l.names[1], type |-> l.type])
<1> DEFINE t == IsBoxed(s, l.type)
           u == DataRegister(t, l, l.type)
           field == [name |-> l.names[1], type |-> l.type]
           v == [u EXCEPT !.fields = Append(@, field)]
<1>1. CheckFieldContArg(s, l) = v
  BY DEF CheckFieldContArg
<1> HIDE DEF field
<1>2. Passed(s, t)
  BY PassedItself, SidePasses
<1> HIDE DEF t
<1>3. IsChecker(u)
  BY <1>2, DataRegisterIn
<1>4. Alive(u)
  <2> HIDE DEF u
  <2> QED  BY <1>1, <1>3 DEF Alive, IsChecker
<1>5. SameCont(s, u)
  BY <1>2, <1>4, RegisterSameCont
<1> HIDE DEF u
<1>6. v.loop = u.loop /\ v.karg = u.karg /\ v.exargs = u.exargs /\ v.fields = Append(u.fields, field)
  BY <1>3 DEF IsChecker
<1> HIDE DEF v
<1> QED  BY <1>1, <1>5, <1>6 DEF SameCont, field

\* A .case starts with no argument.
LEMMA CaseStartsEmpty ==
    ASSUME NEW s, NEW l, IsChecker(s), Alive(CheckStartCase(s, l))
    PROVE  LET t == CheckStartCase(s, l)
           IN  t.loop = 1 /\ t.karg = NoType /\ t.fields = <<>> /\ t.exargs = 0
<1> DEFINE here == l.op = ".case" /\ s.block = "cases"
           p == Check(s, here, "order")
           frame == Last(p.branches)
           k == FieldOf(frame.sum, l.names[1])
           right == /\ l.names[1] = frame.names[Len(frame.names) - frame.left + 1]
                    /\ Ordered(SubSeq(frame.sum.names, 1, k))
                    /\ IF Len(frame.names) = Len(frame.sum.names) THEN k = frame.constr + 1
                       ELSE k > frame.constr
           q == Check(p, right, "constructor")
           r == StartCase(q)
           n == Len(p.branches)
           t == [r EXCEPT !.branches[n].constr = k, !.karg = NoType, !.fields = <<>>, !.exargs = 0]
           out == CheckStartCase(s, l)
<1>1. out = IF p.fatal # "" THEN p ELSE t
  BY DEF CheckStartCase, CheckCase
<1>2. Passed(s, p)
  BY DEF Check, Fatal, Passed, IsChecker, Alive
<1> HIDE DEF p, k, right, out, n
<1>3. out = t
  <2> HIDE DEF t
  <2> QED  BY <1>1 DEF out, Alive
<1>5. Passed(s, q)
  BY <1>2, CheckerChecks
<1> HIDE DEF q
<1>6. IsChecker(r) /\ r.loop = 1
  BY <1>5 DEF StartCase, Passed, IsChecker
<1> HIDE DEF r
<1>7. t.loop = r.loop /\ t.karg = NoType /\ t.fields = <<>> /\ t.exargs = 0
  BY <1>6 DEF IsChecker
<1> HIDE DEF t
<1> QED  BY <1>3, <1>6, <1>7 DEF out

\* The loops of the checker in a .case.
LEMMA CaseLoopsAre ==
    /\ Len(CheckCaseLoops) = 7
    /\ CheckCaseLoops[1] = Many({"exkarg"}) /\ CheckCaseLoops[2] = Many({"tylet"})
    /\ CheckCaseLoops[3] = Instead("karg") /\ CheckCaseLoops[4] = Many({"fkarg"})
    /\ CheckCaseLoops[5] = Many({"alloc"}) /\ CheckCaseLoops[6] = Many({"cast", "push"})
    /\ CheckCaseLoops[7] = Many({"terminal", "branch"})
<1> DEFINE a == Loops(<<{"exkarg"}, {"tylet"}>>)
           b == <<Instead("karg"), Many({"fkarg"})>>
           c == CheckBodyLoops
<1>1. a = <<Many({"exkarg"}), Many({"tylet"})>>
  BY DEF Loops
<1>2. c = <<Many({"alloc"}), Many({"cast", "push"}), Many({"terminal", "branch"})>>
  BY DEF Loops, CheckBodyLoops
<1>3. CheckCaseLoops = (a \o b) \o c
  BY DEF CheckCaseLoops
<1> HIDE DEF a, c
<1> DEFINE m1 == Many({"exkarg"})
           m2 == Many({"tylet"})
           m3 == Instead("karg")
           m4 == Many({"fkarg"})
           m5 == Many({"alloc"})
           m6 == Many({"cast", "push"})
           m7 == Many({"terminal", "branch"})
<1>4. a = <<m1, m2>> /\ b = <<m3, m4>> /\ c = <<m5, m6, m7>>
  BY <1>1, <1>2
<1> HIDE DEF m1, m2, m3, m4, m5, m6, m7, b
<1> DEFINE S == {m1, m2, m3, m4, m5, m6, m7}
           d == a \o b
<1>7. a \in Seq(S) /\ b \in Seq(S) /\ c \in Seq(S) /\ Len(a) = 2 /\ Len(b) = 2 /\ Len(c) = 3
  BY <1>4
<1> HIDE DEF a, b, c, S
<1>8. /\ d \in Seq(S) /\ Len(d) = 4
      /\ \A i \in 1 .. 4 : d[i] = IF i <= 2 THEN a[i] ELSE b[i - 2]
  BY <1>7, ConcatProperties
<1>9. d[1] = m1 /\ d[2] = m2 /\ d[3] = m3 /\ d[4] = m4
  <2> HIDE DEF d
  <2> QED  BY <1>4, <1>8
<1> HIDE DEF d
<1>5. /\ Len(d \o c) = 7
      /\ \A i \in 1 .. 7 : (d \o c)[i] = IF i <= 4 THEN d[i] ELSE c[i - 4]
  <2>1. /\ Len(d \o c) = Len(d) + Len(c)
        /\ \A i \in 1 .. Len(d) + Len(c) : (d \o c)[i] = IF i <= Len(d) THEN d[i] ELSE c[i - Len(d)]
    BY <1>7, <1>8, ConcatProperties
  <2>2. Len(d) + Len(c) = 7 /\ Len(d) = 4
    BY <1>7, <1>8
  <2> HIDE DEF m1, m2, m3, m4, m5, m6, m7
  <2> QED  BY <2>1, <2>2
<1>6. /\ Len(CheckCaseLoops) = 7
      /\ CheckCaseLoops[1] = m1 /\ CheckCaseLoops[2] = m2 /\ CheckCaseLoops[3] = m3
      /\ CheckCaseLoops[4] = m4 /\ CheckCaseLoops[5] = m5 /\ CheckCaseLoops[6] = m6
      /\ CheckCaseLoops[7] = m7
  BY <1>3, <1>4, <1>5, <1>9 DEF d
<1> QED  BY <1>6 DEF m1, m2, m3, m4, m5, m6, m7

\* The loop that takes a line: none is left for one before it; a .karg comes before any
\* .fkarg and goes behind the loop that takes these.
LEMMA CaseLoopFound ==
    ASSUME NEW k \in Nat \ {0}, NEW g, NextLoop(CheckCaseLoops, k, g) # 0
    PROVE  LET j == NextLoop(CheckCaseLoops, k, g)
               n == j + CheckCaseLoops[j].next
           IN  /\ n \in Nat \ {0} /\ n >= k
               /\ g \in {"exkarg", "tylet", "karg", "fkarg", "alloc", "cast", "push",
                         "terminal", "branch"}
               /\ g = "karg" => k < 4 /\ n = 5
               /\ g = "fkarg" => n = 4
               /\ n < 4 => g \in {"exkarg", "tylet"}
<1> DEFINE loops == CheckCaseLoops
           taking == {i \in k .. Len(loops) : /\ g \in loops[i].ops
                                              /\ \A j \in k .. i - 1 : ~loops[j].must}
           j == CHOOSE i \in taking : \A h \in taking : i <= h
<1>1. taking # {} /\ NextLoop(loops, k, g) = j
  BY DEF NextLoop
<1>2. \E i \in taking : \A h \in taking : i <= h
  <2>1. taking \subseteq Nat
    OBVIOUS
  <2> HIDE DEF taking
  <2>2. PICK x \in taking : \A y \in taking : ~(<<y, x>> \in OpToRel(<, Nat))
    BY <1>1, <2>1, NatLessThanWellFounded, WFMin, Zenon
  <2>3. \A y \in taking : x <= y
    <3> TAKE y \in taking
    <3>1. ~(y < x) /\ x \in Nat /\ y \in Nat
      BY <2>1, <2>2 DEF OpToRel
    <3> QED  BY <3>1
  <2> QED  BY <2>3
<1>3. j \in taking
  <2> HIDE DEF taking
  <2> QED  BY <1>2
<1>4. j \in k .. Len(loops) /\ g \in loops[j].ops
  <2> HIDE DEF j
  <2> QED  BY <1>3
<1> HIDE DEF j
<1>5. j \in 1 .. 7 /\ j >= k
  BY <1>4, CaseLoopsAre
<1>6. CASE j \in {1, 2, 5, 6, 7}
  <2>1. loops[j].next = 0
    BY <1>6, CaseLoopsAre DEF Many
  <2>2. g \in CASE j = 1 -> {"exkarg"} [] j = 2 -> {"tylet"} [] j = 5 -> {"alloc"}
                [] j = 6 -> {"cast", "push"} [] j = 7 -> {"terminal", "branch"}
    BY <1>4, <1>6, CaseLoopsAre DEF Many
  <2> QED  BY <1>1, <1>5, <1>6, <2>1, <2>2
<1>7. CASE j = 3
  <2>1. loops[j].next = 2 /\ g = "karg"
    BY <1>4, <1>7, CaseLoopsAre DEF Instead
  <2> QED  BY <1>1, <1>5, <1>7, <2>1
<1>8. CASE j = 4
  <2>1. loops[j].next = 0 /\ g = "fkarg"
    BY <1>4, <1>8, CaseLoopsAre DEF Many
  <2> QED  BY <1>1, <1>5, <1>8, <2>1
<1> QED  BY <1>5, <1>6, <1>7, <1>8

\* A .case whose end the checker accepts has the argument of its constructor.
LEMMA EndCaseFits ==
    ASSUME NEW e, NEW frame, IsChecker(e.state), Alive(EndCase(e, frame).state)
    PROVE  Alive(e.state) /\ CaseFits(e.state, frame)
<1> DEFINE s == e.state
           n == Len(s.branches)
           x == Unwound(s, e.type, frame.stack)
           typed == x # BadType
           p == Check(s, typed, "type")
           fits == CaseFits(s, frame)
           q == Check(p, fits, "case")
           one == frame.result \in {NoType, x}
           r == Check(q, one, "result")
           left == [r EXCEPT !.regs = SubSeq(@, 1, frame.nregs), !.types = SubSeq(@, 1, frame.nregs),
                        !.bound = SubSeq(@, 1, frame.nregs), !.others = frame.others,
                        !.tyvars = frame.tyvars, !.stack = SubSeq(@, 1, frame.stack),
                        !.block = frame.block, !.karg = frame.karg, !.fields = frame.fields,
                        !.exargs = frame.exargs, !.branches[n].result = x]
           cases == [left EXCEPT !.block = "cases"]
           out == [left EXCEPT !.branches = Front(@)]
<1>1. EndCase(e, frame).state = IF frame.left > 0 THEN cases ELSE out
  BY DEF EndCase, WellTyped
<1> HIDE DEF x, typed, fits, one, n, s
<1>2. IsChecker(p)
  BY CheckAnyway DEF s
<1>3. IsChecker(q)
  <2> HIDE DEF p
  <2> QED  BY <1>2, CheckAnyway
<1>4. IsChecker(r)
  <2> HIDE DEF q
  <2> QED  BY <1>3, CheckAnyway
<1>5. cases.fatal = r.fatal /\ out.fatal = r.fatal
  <2> HIDE DEF r
  <2>1. IsChecker(left) /\ left.fatal = r.fatal
    BY <1>4 DEF IsChecker
  <2> HIDE DEF left
  <2> QED  BY <2>1 DEF IsChecker
<1>6. Alive(r)
  <2> HIDE DEF r, cases, out
  <2> QED  BY <1>1, <1>5 DEF Alive
<1>7. Alive(q)
  <2> HIDE DEF q
  <2> QED  BY <1>3, <1>6, CheckHolds
<1>8. Alive(p) /\ fits
  <2> HIDE DEF p
  <2>1. Alive(Check(p, fits, "case"))
    BY <1>7
  <2> QED  BY <1>2, <2>1 DEF Check, Fatal, IsChecker, Alive
<1>9. Alive(s)
  BY <1>8, CheckHolds DEF s
<1> QED  BY <1>8, <1>9 DEF s, fits

\* So has the innermost one of several that end.
LEMMA CasesFit ==
    ASSUME NEW e, NEW seq, NEW n \in Nat \ {0}, Spans(seq, n), IsChecker(e.state),
           Alive(CasesEnded(e, seq).state)
    PROVE  CaseFits(e.state, seq[1])
<1>1. PICK f : /\ f[0] = e
               /\ \A k \in 1 .. n : f[k] = EndCase(f[k - 1], seq[k])
               /\ CasesEnded(e, seq) = f[n]
  BY CasesUnroll
<1> DEFINE T == {k \in 0 .. n : IsChecker(f[k].state)}
<1>2. 0 \in T
  BY <1>1
<1>3. \A k \in 1 .. n : k - 1 \in T => k \in T
  <2> TAKE k \in 1 .. n
  <2> HAVE k - 1 \in T
  <2>1. f[k] = EndCase(f[k - 1], seq[k]) /\ IsChecker(f[k - 1].state)
    BY <1>1
  <2>2. IsChecker(f[k].state)
    BY <2>1, EndCaseIs
  <2> QED  BY <2>2
<1>4. \A k \in 0 .. n : k \in T
  <2> HIDE DEF T
  <2> QED  BY <1>2, <1>3, UpTo
<1> DEFINE U == {k \in 0 .. n - 1 : Alive(f[n - 1 - k + 1].state)}
<1>5. 0 \in U
  BY <1>1
<1>6. \A k \in 1 .. n - 1 : k - 1 \in U => k \in U
  <2> TAKE k \in 1 .. n - 1
  <2> HAVE k - 1 \in U
  <2> DEFINE m == n - k
  <2>0. /\ m + 1 \in 1 .. n /\ (m + 1) - 1 = m /\ n - 1 - (k - 1) + 1 = m + 1 /\ n - 1 - k + 1 = m
        /\ m \in 0 .. n
    OBVIOUS
  <2>1. Alive(f[m + 1].state)
    BY <2>0
  <2>2. f[m + 1] = EndCase(f[m], seq[m + 1])
    BY <1>1, <2>0
  <2>3. IsChecker(f[m].state)
    BY <1>4, <2>0
  <2>4. Alive(f[m].state)
    <3> HIDE DEF m
    <3> QED  BY <2>1, <2>2, <2>3, EndCaseFits
  <2> QED  BY <2>0, <2>4
<1>7. n - 1 \in U
  <2> HIDE DEF U
  <2>1. n - 1 \in Nat
    OBVIOUS
  <2>2. \A k \in 0 .. n - 1 : k \in U
    <3> DEFINE m == n - 1
    <3>1. m \in Nat /\ \A k \in 1 .. m : k - 1 \in U => k \in U
      BY <1>6
    <3> HIDE DEF m
    <3>2. \A k \in 0 .. m : k \in U
      BY <1>5, <3>1, UpTo
    <3> QED  BY <3>2 DEF m
  <2> QED  BY <2>2
<1>8. Alive(f[1].state)
  <2>1. n - 1 - (n - 1) + 1 = 1
    OBVIOUS
  <2> QED  BY <1>7, <2>1
<1>9. f[1] = EndCase(e, seq[1])
  BY <1>1
<1> QED  BY <1>8, <1>9, EndCaseFits

\* So has the one a terminal ends.
LEMMA TerminalFits ==
    ASSUME NEW s, NEW l, NEW kd, IsChecker(s), IsSeq(s.branches), s.branches # <<>>, Known(l),
           Group(l) = "terminal", Alive(CheckTerminal(s, l, kd))
    PROVE  CaseFits(s, s.branches[Len(s.branches)])
<1> DEFINE t == TerminalType(s, l)
           found == CFinds(s, l.args)
           typed == WellTyped(found, t)
           valid == IF found.fatal # "" THEN found ELSE CheckedTerminal(typed, l, t)
           ended == CasesEnded([state |-> valid, type |-> t], Ending(s))
           out == CheckTerminal(s, l, kd)
<1>1. out = IF valid.fatal # "" THEN valid
            ELSE IF StillIn(s) > 0 THEN ended.state
            ELSE Finished(ended.state, ended.type, kd)
  BY DEF CheckTerminal, CasesEnded, FoldLeft, MapThenFoldSet
<1> HIDE DEF t, out
<1>2. Passed(s, found)
  BY PassedItself, SidePasses
<1> HIDE DEF found
<1>3. Passed(s, typed)
  BY <1>2, SidePasses
<1> HIDE DEF typed
<1>4. Passed(s, valid)
  BY <1>2, <1>3, TerminalPasses
<1> HIDE DEF valid
<1>5. valid = s
  <2>1. Alive(valid)
    <3> HIDE DEF ended
    <3> QED  BY <1>1 DEF out, Alive
  <2> QED  BY <1>4, <2>1 DEF Passed
<1> DEFINE e == [state |-> s, type |-> t]
<1>6. ended = CasesEnded(e, Ending(s)) /\ e.state = s
  BY <1>5
<1> HIDE DEF e, ended
<1> DEFINE n == Ended(s)
           L == Len(s.branches)
<1>7. L \in Nat \ {0} /\ StillIn(s) \in 0 .. L
  BY FramesFacts, StillInIs DEF IsSeq
<1>8. /\ n \in Nat \ {0} /\ Spans(Ending(s), n) /\ Ending(s)[1] = s.branches[L]
  <2>1. n \in Nat \ {0}
    BY <1>7 DEF Ended
  <2> QED  BY <1>7, <2>1, EndingIs
<1> HIDE DEF n, L
<1>9. IsChecker(ended.state)
  <2>1. PICK f : /\ f[0] = e
                 /\ \A k \in 1 .. n : f[k] = EndCase(f[k - 1], Ending(s)[k])
                 /\ CasesEnded(e, Ending(s)) = f[n]
    BY <1>8, CasesUnroll
  <2> DEFINE T == {k \in 0 .. n : IsChecker(f[k].state)}
  <2>2. 0 \in T
    BY <1>6, <1>8, <2>1
  <2>3. \A k \in 1 .. n : k - 1 \in T => k \in T
    <3> TAKE k \in 1 .. n
    <3> HAVE k - 1 \in T
    <3>1. f[k] = EndCase(f[k - 1], Ending(s)[k]) /\ IsChecker(f[k - 1].state)
      BY <2>1
    <3>2. IsChecker(f[k].state)
      BY <3>1, EndCaseIs
    <3> QED  BY <3>2
  <2>4. n \in T
    <3> HIDE DEF T
    <3> QED  BY <1>8, <2>2, <2>3, UpTo
  <2> QED  BY <1>6, <2>1, <2>4
<1>10. Alive(ended.state)
  <2>1. ASSUME Alive(Finished(ended.state, ended.type, kd)) PROVE Alive(ended.state)
    <3> DEFINE x == Unwound(ended.state, ended.type, 0)
               ok == x # BadType
               lifts == kd \in {".forcecont", ".strictcont"} => Lifted(x)
               p == Check(ended.state, ok, "type")
               done == Check(p, lifts, "kind")
               u == [done EXCEPT !.block = "done", !.stack = <<>>, !.result = x]
    <3>1. Finished(ended.state, ended.type, kd) = u
      BY DEF Finished, WellTyped
    <3> HIDE DEF x, ok, lifts
    <3>2. IsChecker(p)
      BY <1>9, CheckAnyway
    <3>3. Alive(p) => Alive(ended.state)
      BY <1>9, CheckHolds
    <3> HIDE DEF p
    <3>4. IsChecker(done) /\ (Alive(done) => Alive(p))
      BY <3>2, CheckAnyway, CheckHolds
    <3> HIDE DEF done
    <3>5. u.fatal = done.fatal
      BY <3>4 DEF IsChecker
    <3> QED  BY <2>1, <3>1, <3>3, <3>4, <3>5 DEF Alive
  <2>2. Alive(out) /\ Alive(valid)
    <3> QED  BY <1>1 DEF out, Alive
  <2> QED  BY <1>1, <2>1, <2>2 DEF Alive
<1>11. CaseFits(s, Ending(s)[1])
  BY <1>6, <1>8, <1>10, CasesFit
<1> QED  BY <1>8, <1>11 DEF L

-----------------------------------------------------------------------------
(* The arguments of a .case.                                               *)

\* Every frame remembers a count of arguments.
NargsIn(b) == \A i \in 1 .. Len(b) : "nargs" \in DOMAIN b[i]

\* The count before the branch the emitter is in.
Start(e) == e.branches[Len(e.branches)].nargs

\* The names of the fields.
FieldNames(fields) == [i \in DOMAIN fields |-> fields[i].name]

\* In a .case: the two have the same fields; a .karg is the one argument there is, and
\* while it may still come there is none.
InCase(e, c) ==
    /\ c.loop \in Nat \ {0} /\ c.exargs \in Nat
    /\ IsSeq(c.fields) /\ e.fields = FieldNames(c.fields)
    /\ c.karg # NoType => c.loop > 4 /\ Boxed(c.karg) /\ e.nargs = Start(e) + 1
    /\ c.loop < 4 => c.karg = NoType /\ e.nargs = Start(e)

\* Between the cases of a branch the count is what it was before the branch.
CaseArgs(e, c) ==
    /\ NargsIn(e.branches)
    /\ c.block \in {"cases", "default?"} => e.branches # <<>> /\ e.nargs = Start(e)
    /\ c.block = "case" => e.branches # <<>> /\ InCase(e, c)

\* An op that is about no argument.
LEMMA ArgsStay ==
    ASSUME NEW e, NEW f, NEW c, NEW d, InCase(e, c), f.branches = e.branches,
           f.nargs = e.nargs, f.fields = e.fields, d.fields = c.fields, d.karg = c.karg,
           d.exargs \in Nat, d.loop \in Nat \ {0}, d.loop >= c.loop
    PROVE  InCase(f, d)
  BY DEF InCase, Start

\* A .karg, where one may come.
LEMMA KargBound ==
    ASSUME NEW e, NEW f, NEW c, NEW d, InCase(e, c), f.branches = e.branches, c.loop < 4,
           f.nargs = e.nargs + 1, f.fields = e.fields, d.fields = c.fields, Boxed(d.karg),
           d.exargs \in Nat, d.loop = 5
    PROVE  InCase(f, d)
  BY DEF InCase, Start

\* The names when there is one field more.
LEMMA NamesAdded ==
    ASSUME NEW fs, NEW x, IsSeq(fs)
    PROVE  FieldNames(Append(fs, x)) = Append(FieldNames(fs), x.name)
<1> DEFINE n == Len(fs)
           gs == FieldNames(fs)
           a == Append(fs, x)
           b == Append(gs, x.name)
<1>1. n \in Nat /\ DOMAIN fs = 1 .. n
  BY FramesFacts
<1>2. IsSeq(a) /\ Len(a) = n + 1 /\ a[n + 1] = x /\ \A i \in 1 .. n : a[i] = fs[i]
  BY FramesAppend
<1>3. DOMAIN a = 1 .. n + 1
  BY <1>2, FramesFacts
<1>4. gs = [i \in 1 .. n |-> fs[i].name]
  BY <1>1 DEF FieldNames
<1>5. IsSeq(gs) /\ Len(gs) = n
  <2> DEFINE X == {fs[i].name : i \in 1 .. n}
  <2>1. gs \in [1 .. n -> X]
    BY <1>4
  <2> HIDE DEF gs, X, n
  <2>2. gs \in Seq(X)
    BY <1>1, <2>1
  <2> QED  BY <1>1, <2>1, <2>2 DEF IsSeq
<1> HIDE DEF gs
<1>6. IsSeq(b) /\ Len(b) = n + 1 /\ b[n + 1] = x.name /\ \A i \in 1 .. n : b[i] = gs[i]
  BY <1>5, FramesAppend
<1>7. DOMAIN b = 1 .. n + 1
  BY <1>6, FramesFacts
<1>8. b = [i \in 1 .. n + 1 |-> b[i]]
  <2>1. \E X : b \in Seq(X)
    BY <1>6 DEF IsSeq
  <2> HIDE DEF b
  <2> QED  BY <1>7, <2>1
<1> HIDE DEF a, b, n
<1>9. \A i \in 1 .. n + 1 : b[i] = a[i].name
  <2> TAKE i \in 1 .. n + 1
  <2>1. CASE i = n + 1
    BY <1>2, <1>6, <2>1
  <2>2. CASE i # n + 1
    <3>1. i \in 1 .. n
      BY <1>1, <2>2
    <3> QED  BY <1>2, <1>4, <1>6, <3>1
  <2> QED  BY <2>1, <2>2
<1>10. FieldNames(a) = [i \in 1 .. n + 1 |-> a[i].name]
  BY <1>3 DEF FieldNames
<1>11. FieldNames(a) = b
  BY <1>8, <1>9, <1>10
<1> QED  BY <1>11 DEF a, b, gs

\* An .fkarg, which only comes when there was no .karg.
LEMMA FkargBound ==
    ASSUME NEW e, NEW f, NEW c, NEW d, NEW x, InCase(e, c), f.branches = e.branches, c.loop <= 4,
           f.fields = Append(e.fields, x.name), d.fields = Append(c.fields, x),
           d.karg = c.karg, d.exargs \in Nat, d.loop = 4
    PROVE  InCase(f, d)
<1>1. IsSeq(d.fields) /\ f.fields = FieldNames(d.fields)
  BY NamesAdded, FramesAppend DEF InCase
<1> QED  BY <1>1 DEF InCase

\* The checker q is c, moved to the loop of a .case that takes an op of the group g.
CaseMoved(c, q, g) ==
    /\ IsChecker(q) /\ q.block = c.block
    /\ q.karg = c.karg /\ q.fields = c.fields /\ q.exargs = c.exargs
    /\ q.loop \in Nat \ {0} /\ q.loop >= c.loop
    /\ g \in {"exkarg", "tylet", "karg", "fkarg", "alloc", "cast", "push", "terminal", "branch"}
    /\ g = "karg" => c.loop < 4 /\ q.loop = 5
    /\ g = "fkarg" => q.loop = 4
    /\ q.loop < 4 => g \in {"exkarg", "tylet"}

\* It is what the checker moves to.
LEMMA CaseSought ==
    ASSUME NEW c, NEW kd, NEW g, IsChecker(c), c.block = "case", c.loop \in Nat \ {0},
           Alive(Sought(c, CheckerLoops(c, kd), g))
    PROVE  CaseMoved(c, Sought(c, CheckerLoops(c, kd), g), g)
<1> DEFINE loops == CheckCaseLoops
           k == NextLoop(loops, c.loop, g)
           n == k + loops[k].next
           q == [c EXCEPT !.loop = n]
<1>1. Sought(c, CheckerLoops(c, kd), g) = IF k = 0 THEN Fatal(c, "order") ELSE q
  BY DEF Sought, CheckerLoops
<1>2. ~Alive(Fatal(c, "order"))
  BY DEF Fatal, IsChecker, Alive
<1>3. k # 0
  <2> HIDE DEF k, n
  <2> QED  BY <1>1, <1>2
<1>4. /\ n \in Nat \ {0} /\ n >= c.loop
      /\ g \in {"exkarg", "tylet", "karg", "fkarg", "alloc", "cast", "push", "terminal", "branch"}
      /\ g = "karg" => c.loop < 4 /\ n = 5
      /\ g = "fkarg" => n = 4
      /\ n < 4 => g \in {"exkarg", "tylet"}
  BY <1>3, CaseLoopFound
<1> HIDE DEF k, n, loops
<1>5. IsChecker(q) /\ q.loop = n /\ q.block = c.block
      /\ q.karg = c.karg /\ q.fields = c.fields /\ q.exargs = c.exargs
  BY DEF IsChecker
<1>6. CaseMoved(c, q, g)
  <2> HIDE DEF q
  <2> QED  BY <1>4, <1>5 DEF CaseMoved
<1> QED  BY <1>1, <1>3, <1>6

\* A .case that starts leaves the count, and forgets the fields.
LEMMA CaseStartsArgs ==
    ASSUME NEW s, NEW l, IsEmitter(s), Alive(EmitCase(s, l))
    PROVE  EmitCase(s, l).nargs = s.nargs /\ EmitCase(s, l).fields = <<>>
<1> DEFINE q == Check(s, l.op = ".case" /\ s.block = "cases", "order")
           found == FindsConstr(s, l)
           u == Check(q, found, "constructor")
           r == StartCase(u)
           t == [r EXCEPT !.fields = <<>>]
<1>1. EmitCase(s, l) = t
  BY DEF EmitCase
<1> HIDE DEF found
<1>0. SameArgs(s, q)
  BY ArgsOfItself, ArgsChecked
<1> HIDE DEF q
<1>2. SameArgs(s, u)
  BY <1>0, ArgsChecked
<1> HIDE DEF u
<1>3. IsEmitter(r) /\ r.nargs = u.nargs
  BY <1>2 DEF StartCase, SameArgs, IsEmitter
<1> HIDE DEF r
<1>4. t.nargs = r.nargs /\ t.fields = <<>>
  BY <1>3 DEF IsEmitter
<1> HIDE DEF t
<1> QED  BY <1>1, <1>2, <1>3, <1>4 DEF SameArgs

\* It leaves what the frames remember of it.
LEMMA CaseStartKeeps ==
    ASSUME NEW b, IsSeq(b), b # <<>>, NargsIn(b)
    PROVE  LET a == [b EXCEPT ![Len(b)].left = @ - 1]
           IN  /\ NargsIn(a) /\ Len(a) = Len(b) /\ a # <<>>
               /\ a[Len(a)].nargs = b[Len(b)].nargs
<1> DEFINE n == Len(b)
           f == [b[n] EXCEPT !.left = b[n].left - 1]
           a == Put(b, n, f)
<1>1. [b EXCEPT ![Len(b)].left = @ - 1] = a
  BY DEF Put
<1>2. n \in Nat \ {0} /\ n \in 1 .. n
  <2>1. n \in Nat
    BY FramesFacts
  <2>2. n # 0
    <3> SUFFICES ASSUME n = 0 PROVE FALSE
      OBVIOUS
    <3>1. PICK X : b \in Seq(X)
      BY DEF IsSeq
    <3> QED  BY <3>1
  <2> QED  BY <2>1, <2>2
<1>3. "nargs" \in DOMAIN b[n]
  BY <1>2 DEF NargsIn
<1>4. "nargs" \in DOMAIN f /\ f.nargs = b[n].nargs
  BY <1>3
<1> HIDE DEF f
<1>5. IsSeq(a) /\ Len(a) = n /\ \A i \in 1 .. n : a[i] = IF i = n THEN f ELSE b[i]
  BY PutIs
<1> HIDE DEF a
<1>6. NargsIn(a)
  BY <1>4, <1>5 DEF NargsIn
<1>7. a # <<>>
  BY <1>2, <1>5, NoFrames
<1>8. a[n] = f
  BY <1>2, <1>5
<1> QED  BY <1>1, <1>4, <1>5, <1>6, <1>7, <1>8

-----------------------------------------------------------------------------
(* The ops of a .case.                                                     *)

\* Every op of a .case, the ones that end it aside.
LEMMA CaseOpArgs ==
    ASSUME NEW e, NEW f, NEW r, NEW c, NEW d, NEW q, NEW l, NEW kd, Known(l), InCase(e, c),
           Moved(e, r), f = EmitOp(r, l), f.branches = e.branches,
           CaseMoved(c, q, Group(l)), d = CheckOp(q, l, kd), Alive(d),
           Group(l) \notin {"terminal", "branch"}
    PROVE  InCase(f, d)
<1> DEFINE g == Group(l)
<1>1. /\ IsEmitter(r) /\ r.nargs = e.nargs /\ r.fields = e.fields
      /\ IsChecker(q) /\ q.loop \in Nat \ {0} /\ q.loop >= c.loop
      /\ q.karg = c.karg /\ q.fields = c.fields /\ q.exargs = c.exargs
      /\ c.exargs \in Nat /\ c.loop \in Nat /\ q.exargs + 1 \in Nat
  BY DEF Moved, CaseMoved, InCase
<1>2. ASSUME SameArgs(r, f), SameCont(q, d) PROVE InCase(f, d)
  <2>1. f.nargs = e.nargs /\ f.fields = e.fields
    BY <1>1, <1>2 DEF SameArgs
  <2>2. d.karg = c.karg /\ d.fields = c.fields /\ d.exargs \in Nat /\ d.loop = q.loop
    BY <1>1, <1>2 DEF SameCont
  <2> QED  BY <1>1, <2>1, <2>2, ArgsStay
<1>3. CASE g = "exkarg"
  <2>1. f = TypeRegister(r) /\ d = CheckContTypeArg(q, l)
    BY <1>3 DEF EmitOp, EmitTypeArg, CheckOp
  <2>2. f.nargs = e.nargs /\ f.fields = e.fields
    BY <1>1, <2>1, TypeRegisterSameArgs DEF SameArgs
  <2>3. d.karg = c.karg /\ d.fields = c.fields /\ d.exargs \in Nat /\ d.loop = q.loop
    BY <1>1, <2>1, ContTypeArgHidden
  <2> QED  BY <1>1, <2>2, <2>3, ArgsStay
<1>4. CASE g = "tylet"
  <2>1. f = TypeRegister(r) /\ d = OtherRegister(q)
    BY <1>4 DEF EmitOp, EmitTypeLet, CheckOp, CheckTypeLet
  <2> QED  BY <1>1, <1>2, <2>1, TypeRegisterSameArgs, OtherSameCont
<1>5. CASE g = "karg"
  <2>1. f = EmitArg(r, l) /\ d = CheckContArg(q, l, kd) /\ l.op = ".karg"
    BY <1>5, OpsOfGroups DEF EmitOp, CheckOp
  <2>2. f.nargs = e.nargs + 1 /\ f.fields = e.fields
    BY <1>1, <2>1, ArgCounted
  <2>3. Boxed(d.karg) /\ d.fields = c.fields /\ d.exargs \in Nat /\ d.loop = q.loop
    BY <1>1, <2>1, ContArgBound
  <2>4. c.loop < 4 /\ q.loop = 5
    BY <1>5 DEF CaseMoved
  <2> QED  BY <2>2, <2>3, <2>4, KargBound
<1>6. CASE g = "fkarg"
  <2> DEFINE x == [name |-> l.names[1], type |-> l.type]
  <2>1. f = EmitArg(r, l) /\ d = CheckFieldContArg(q, l) /\ l.op = ".fkarg"
    BY <1>6, OpsOfGroups DEF EmitOp, CheckOp
  <2>5. x.name = l.names[1]
    OBVIOUS
  <2>2. f.fields = Append(e.fields, x.name)
    <3> HIDE DEF x
    <3>1. EmitArg(r, l).fields = IF l.op = ".fkarg" THEN Append(r.fields, l.names[1]) ELSE r.fields
      BY <1>1, ArgCounted
    <3>2. f.fields = Append(r.fields, l.names[1])
      BY <2>1, <3>1
    <3> QED  BY <1>1, <2>5, <3>2
  <2>3. d.karg = c.karg /\ d.fields = Append(c.fields, x) /\ d.exargs \in Nat /\ d.loop = q.loop
    BY <1>1, <2>1, FieldArgAdded
  <2>4. c.loop <= 4 /\ q.loop = 4
    BY <1>1, <1>6 DEF CaseMoved
  <2> HIDE DEF x
  <2> QED  BY <2>2, <2>3, <2>4, FkargBound
<1>7. CASE g = "alloc"
  <2>1. f = EmitAlloc(r, l) /\ d = CheckAlloc(q, l)
    BY <1>7 DEF EmitOp, CheckOp
  <2> QED  BY <1>1, <1>2, <1>7, <2>1, AllocSameArgs, AllocSameCont
<1>8. CASE g = "cast"
  <2>1. f = r /\ d = Push(q, l)
    BY <1>8 DEF EmitOp, EmitCast, CheckOp, CheckCast
  <2> QED  BY <1>1, <1>2, <2>1, ArgsOfItself, PushSameCont
<1>9. CASE g = "push"
  <2>1. f = EmitPush(r, l) /\ d = Push(q, l)
    BY <1>9 DEF EmitOp, CheckOp, CheckContPush
  <2> QED  BY <1>1, <1>2, <1>9, <2>1, PushSameArgs, PushSameCont
<1> QED  BY <1>3, <1>4, <1>5, <1>6, <1>7, <1>8, <1>9 DEF CaseMoved

\* A branch that starts remembers the count.
LEMMA BranchArgs ==
    ASSUME NEW r, NEW f, NEW l, Emitting(r), NargsIn(r.branches), BranchesOut(r, f, l),
           f.nargs = r.nargs
    PROVE  NargsIn(f.branches) /\ f.branches # <<>> /\ f.nargs = Start(f)
<1> DEFINE n == Len(r.branches)
           g == Saving(r, l)
<1>1. "nargs" \in DOMAIN g /\ g.nargs = r.nargs
  BY DEF Saving
<1>2. n \in Nat /\ f.branches = Append(r.branches, g)
  BY FramesFacts DEF Emitting, BranchesOut
<1> HIDE DEF g, n
<1>3. /\ Len(f.branches) = n + 1 /\ f.branches[n + 1] = g
      /\ \A i \in 1 .. n : f.branches[i] = r.branches[i]
  BY <1>2, FramesAppend DEF Emitting, n
<1>4. NargsIn(f.branches)
  <2> SUFFICES ASSUME NEW i \in 1 .. n + 1 PROVE "nargs" \in DOMAIN f.branches[i]
    BY <1>3 DEF NargsIn
  <2>1. i = n + 1 \/ i \in 1 .. n
    BY <1>2
  <2> QED  BY <1>1, <1>3, <2>1 DEF NargsIn, n
<1>5. f.branches # <<>>
  <2>1. n + 1 # 0
    BY <1>2
  <2> QED  BY <1>3, <2>1, NoFrames
<1> QED  BY <1>1, <1>3, <1>4, <1>5 DEF Start

\* Behind a case that ends, the count is what the frame of the branch remembers.
LEMMA EndArgs ==
    ASSUME NEW u, NEW f, IsSeq(u.branches), NargsIn(u.branches), EndsIn(u, f),
           StillIn(u) # 0 => f.nargs = u.branches[StillIn(u)].nargs
    PROVE  /\ NargsIn(f.branches)
           /\ f.block = "cases" => f.branches # <<>> /\ f.nargs = Start(f)
           /\ f.block \in {"cases", "done"}
<1> DEFINE k == StillIn(u)
           b == u.branches
<1>1. k \in 0 .. Len(b) /\ Len(b) \in Nat
  BY FramesFacts, StillInIs
<1>2. /\ f.branches = SubSeq(b, 1, k) /\ f.block = IF k = 0 THEN "done" ELSE "cases"
  BY DEF EndsIn
<1>3. IsSeq(b) /\ NargsIn(b) /\ (k # 0 => f.nargs = b[k].nargs)
  OBVIOUS
<1> HIDE DEF k, b
<1>4. Len(f.branches) = k /\ \A i \in 1 .. k : f.branches[i] = b[i]
  BY <1>1, <1>2, <1>3, FramesPrefix
<1>5. NargsIn(f.branches)
  <2> SUFFICES ASSUME NEW i \in 1 .. k PROVE "nargs" \in DOMAIN f.branches[i]
    BY <1>4 DEF NargsIn
  <2>1. i \in 1 .. Len(b)
    BY <1>1
  <2> QED  BY <1>3, <1>4, <2>1 DEF NargsIn
<1>6. ASSUME k # 0 PROVE f.branches # <<>> /\ f.nargs = Start(f)
  <2>1. k \in 1 .. k
    BY <1>1, <1>6
  <2>2. f.branches # <<>>
    BY <1>4, <1>6, NoFrames
  <2> QED  BY <1>3, <1>4, <1>6, <2>1, <2>2 DEF Start
<1> QED  BY <1>2, <1>5, <1>6

-----------------------------------------------------------------------------
(* The arguments of a step.                                                *)

\* The op of a line in the emitter.
LEMMA EmitterOpAt ==
    ASSUME NEW s, NEW l, NEW kd, Emitting(s), Known(l), l.op \notin {".case", ".default"},
           Group(l) = "body" => l.sub \in Subs, Alive(EmitterReads(s, l, kd))
    PROVE  \E r : /\ Moved(s, r) /\ EmitterReads(s, l, kd) = EmitOp(r, l)
                  /\ EmitterReadsAt(r, EmitOp(r, l), l, kd)
<1> DEFINE t == EmitterReads(s, l, kd)
           r == EmitterAt(s, l, kd)
<1>1. Alive(s)
  BY DEF EmitterReads, Alive
<1>2. t = IF r.fatal # "" THEN r ELSE EmitOp(r, l)
  BY <1>1 DEF EmitterReads, EmitterAt, Alive
<1>3. Alive(r) /\ t = EmitOp(r, l) /\ Alive(EmitOp(r, l))
  <2>1. Alive(t)
    OBVIOUS
  <2> HIDE DEF r, t
  <2> QED  BY <1>2, <2>1 DEF Alive
<1>4. /\ Moved(s, r) /\ IsEmitter(r) /\ r.branches = s.branches
      /\ \E x \in IF InProgram(s, kd) THEN EmitApiGroups ELSE EmitExprGroups : Group(l) \in x
  BY <1>1, <1>3, EmitterSought DEF Moved, Emitting
<1>5. InProgram(r, kd) <=> InProgram(s, kd)
  BY <1>4 DEF InProgram, Moved
<1>6. EmitterReadsAt(r, EmitOp(r, l), l, kd)
  <2> HIDE DEF r
  <2> QED  BY <1>3, <1>4, <1>5, EmitOpReads DEF Emitting
<1> QED  BY <1>3, <1>4, <1>6

\* The op of a line in the checker.
LEMMA CheckerOpAt ==
    ASSUME NEW s, NEW l, NEW kd, IsChecker(s), Alike(s.branches, s.branches), Known(l),
           Group(l) \in {"bind", "body"} => l.sub \in Subs, Alive(CheckerReads(s, l, kd)),
           s.block \notin {"cases", "default?"}, l.op \notin {".case", ".default"}
    PROVE  LET r == Sought(s, CheckerLoops(s, kd), Group(l))
           IN  /\ Alive(r) /\ CheckerMoved(s, r) /\ CheckerReads(s, l, kd) = CheckOp(r, l, kd)
               /\ CheckerReadsAt(r, CheckOp(r, l, kd), l)
<1> DEFINE t == CheckerReads(s, l, kd)
           r == Sought(s, CheckerLoops(s, kd), Group(l))
<1>1. t = IF r.fatal # "" THEN r ELSE CheckOp(r, l, kd)
  BY DEF CheckerReads
<1>2. Alive(r) /\ t = CheckOp(r, l, kd) /\ Alive(CheckOp(r, l, kd))
  <2>1. Alive(t)
    OBVIOUS
  <2> HIDE DEF r, t
  <2> QED  BY <1>1, <2>1 DEF Alive
<1>3. CheckerMoved(s, r)
  BY <1>2, CheckerSought
<1>4. CheckerReadsAt(r, CheckOp(r, l, kd), l)
  <2>1. Group(l) \notin {"case", "default"}
    BY StartsAreNoOps
  <2> HIDE DEF r
  <2>2. IsChecker(r) /\ Alike(r.branches, r.branches)
    BY <1>3 DEF CheckerMoved
  <2> QED  BY <1>2, <2>1, <2>2, CheckOpReads
<1> QED  BY <1>2, <1>3, <1>4

\* A line that both passes read keeps the arguments in place.
LEMMA StepArgs ==
    ASSUME NEW e, NEW f, NEW c, NEW d, NEW l, NEW kd, Known(l),
           Group(l) \in {"bind", "body"} => l.sub \in Subs,
           Matched(e, c), Matched(f, d), Flat(e, kd), CaseArgs(e, c),
           f = EmitterReads(e, l, kd), Alive(f), d = CheckerReads(c, l, kd), Alive(d),
           EmitterStep(e, f, l, kd), CheckerStep(c, d, l)
    PROVE  CaseArgs(f, d)
<1>0. /\ e.block = c.block /\ IsSeq(e.branches) /\ Emitting(e) /\ IsChecker(c)
      /\ Alike(c.branches, c.branches) /\ NargsIn(e.branches) /\ f.block = d.block
  BY AlikeItself DEF Matched, Twins, Emitting, CaseArgs
<1>1. CASE CheckerDefaultOut(c, d, l)
  <2>1. l.op = ".default" /\ e.block = "default?"
    BY <1>0, <1>1 DEF CheckerDefaultOut
  <2>2. DefaultOut(e, f, l)
    BY <2>1 DEF EmitterStep, CaseOut
  <2> QED  BY <1>0, <1>1, <2>2 DEF CheckerDefaultOut, DefaultOut, CaseArgs
<1>2. CASE CheckerCaseOut(c, d, l)
  <2>1. l.op = ".case" /\ e.block = "cases" /\ c.block = "cases" /\ d.block = "case"
    BY <1>0, <1>2 DEF CheckerCaseOut
  <2>2. CaseOut(e, f, l)
    BY <2>1 DEF EmitterStep, DefaultOut
  <2>3. f = EmitCase(e, l)
    BY <2>1, <2>2 DEF EmitterReads, CaseOut, Alive
  <2>4. f.nargs = e.nargs /\ f.fields = <<>>
    BY <1>0, <2>3, CaseStartsArgs DEF Emitting
  <2>5. e.branches # <<>> /\ e.nargs = Start(e)
    BY <2>1 DEF CaseArgs
  <2>6. NargsIn(f.branches) /\ f.branches # <<>> /\ Start(f) = Start(e)
    <3> DEFINE b == e.branches
    <3>1. /\ IsSeq(b) /\ b # <<>> /\ NargsIn(b)
          /\ f.branches = [b EXCEPT ![Len(b)].left = @ - 1]
          /\ Start(e) = b[Len(b)].nargs
      BY <1>0, <2>2, <2>5 DEF CaseOut, Start
    <3> HIDE DEF b
    <3> QED  BY <3>1, CaseStartKeeps DEF Start
  <2>7. d = CheckStartCase(c, l)
    BY <2>1 DEF CheckerReads
  <2>8. d.loop = 1 /\ d.karg = NoType /\ d.fields = <<>> /\ d.exargs = 0
    BY <1>0, <2>7, CaseStartsEmpty
  <2>9. FieldNames(<<>>) = <<>>
    BY DEF FieldNames
  <2>10. InCase(f, d)
    BY <2>4, <2>5, <2>6, <2>8, <2>9, NoFrames DEF InCase
  <2> QED  BY <2>1, <2>6, <2>10 DEF CaseArgs
<1>3. CASE /\ c.block \notin {"cases", "default?"} /\ l.op # ".case"
           /\ l.op # ".default" => \E q : CheckerMoved(c, q) /\ CheckerReadsAt(q, d, l)
  <2>1. l.op \notin {".case", ".default"}
    BY <1>0, <1>3 DEF EmitterStep, CaseOut, DefaultOut
  <2>2. PICK r : Moved(e, r) /\ f = EmitOp(r, l) /\ EmitterReadsAt(r, f, l, kd)
    BY <1>0, <2>1, EmitterOpAt
  <2> DEFINE q == Sought(c, CheckerLoops(c, kd), Group(l))
  <2>3. /\ Alive(q) /\ CheckerMoved(c, q) /\ d = CheckOp(q, l, kd) /\ CheckerReadsAt(q, d, l)
    BY <1>0, <1>3, <2>1, CheckerOpAt
  <2>4. c.block = "case" => InCase(e, c) /\ CaseMoved(c, q, Group(l))
    BY <1>0, <2>3, CaseSought DEF CaseArgs, InCase
  <2> HIDE DEF q
  <2>5. r.branches = e.branches /\ r.block = e.block /\ Emitting(r) /\ r.nargs = e.nargs
    BY <1>0, <2>2 DEF Moved, Emitting
  <2>6. CASE Group(l) = "branch"
    <3>1. BranchesOut(r, f, l) /\ f = EmitBranch(r, l)
      BY <2>2, <2>6 DEF EmitterReadsAt, Names, Quiet, EmitOp, EmitBranch
    <3>2. f.nargs = r.nargs
      BY <2>5, <3>1, BranchSameArgs DEF Emitting
    <3>3. NargsIn(f.branches) /\ f.branches # <<>> /\ f.nargs = Start(f)
      BY <1>0, <2>5, <3>1, <3>2, BranchArgs
    <3>4. d.block # "case"
      BY <1>0, <3>1 DEF BranchesOut
    <3> QED  BY <3>3, <3>4 DEF CaseArgs
  <2>7. CASE Group(l) \in {"terminal", "body"}
    <3>1. PICK u : KeptIn(r, u, Grown(r.out, l)) /\ EndsIn(u, f)
      BY <2>2, <2>7 DEF EmitterReadsAt, Names, Quiet
    <3>2. u.branches = e.branches
      BY <2>5, <3>1 DEF KeptIn, Stays
    <3>3. StillIn(u) = StillIn(r)
      BY <2>5, <3>2 DEF StillIn
    <3>4. StillIn(u) # 0 => f.nargs = u.branches[StillIn(u)].nargs
      <4>1. CASE Group(l) = "terminal"
        <5>1. f = EmitTerminal(r, l)
          BY <2>2, <4>1 DEF EmitOp
        <5> QED  BY <2>5, <3>2, <3>3, <4>1, <5>1, TerminalTakesArgs
      <4>2. CASE Group(l) = "body"
        <5>1. InProgram(r, kd)
          BY <2>2, <4>2 DEF EmitterReadsAt, Names, Quiet
        <5>2. u.branches = <<>>
          BY <2>5, <3>2, <5>1 DEF InProgram, Flat
        <5> QED  BY <3>1, <5>2, FlatEnds
      <4> QED  BY <2>7, <4>1, <4>2
    <3>5. /\ NargsIn(f.branches) /\ f.block \in {"cases", "done"}
          /\ f.block = "cases" => f.branches # <<>> /\ f.nargs = Start(f)
      BY <1>0, <3>1, <3>2, <3>4, EndArgs
    <3> QED  BY <1>0, <3>5 DEF CaseArgs
  <2>8. CASE Group(l) \notin {"branch", "terminal", "body"}
    <3>1. f.branches = e.branches
      BY <2>2, <2>5, <2>8 DEF EmitterReadsAt, NamedIn, CodedIn, KeptIn, Stays
    <3>2. d.block = c.block
      BY <2>3, <2>8 DEF CheckerReadsAt, RegisterIn, CodeIn, NothingIn, CheckerStays, CheckerMoved
    <3>3. c.block = "case" => e.branches # <<>> /\ InCase(f, d)
      <4> SUFFICES ASSUME c.block = "case" PROVE e.branches # <<>> /\ InCase(f, d)
        OBVIOUS
      <4>1. e.branches # <<>>
        BY DEF CaseArgs
      <4> QED  BY <2>2, <2>3, <2>4, <2>8, <3>1, <4>1, CaseOpArgs
    <3> QED  BY <1>0, <1>3, <3>1, <3>2, <3>3 DEF CaseArgs
  <2> QED  BY <2>6, <2>7, <2>8
<1> QED  BY <1>1, <1>2, <1>3 DEF CheckerStep

-----------------------------------------------------------------------------
(* The arguments are in place.                                             *)

\* The inductive invariant: the passes agree, and so do their arguments.
InArgs == InAgreement /\ (Compiling => CaseArgs(emitter, checker))

\* It holds before the first line.
LEMMA ArgsInit == Init => InArgs
<1> SUFFICES ASSUME Init PROVE CaseArgs(emitter, checker)
  BY AgreementInit DEF InArgs
<1>1. CheckerNew.block = "item" /\ EmitterNew.branches = <<>>
  BY DEF CheckerNew, EmitterNew
<1>2. NargsIn(<<>>)
  BY NoFrames DEF NargsIn
<1> QED  BY <1>1, <1>2 DEF Init, CaseArgs

\* Every line keeps it.
LEMMA ArgsNext == InArgs /\ [Next]_vars => InArgs'
<1> SUFFICES ASSUME InArgs, [Next]_vars PROVE InArgs'
  OBVIOUS
<1>0. InAgreement'
  BY AgreementNext DEF InArgs
<1>1. CASE UNCHANGED vars
  BY <1>0, <1>1 DEF InArgs, Compiling, Refused, vars
<1>2. CASE Next
  <2>1. ASSUME Compiling' PROVE CaseArgs(emitter', checker')
    <3>1. /\ Known(line') /\ Compiling
          /\ Group(line') \in {"bind", "body"} => line'.sub \in Subs
          /\ emitter' = EmitterReads(emitter, line', kind) /\ Alive(emitter')
          /\ checker' = CheckerReads(checker, line', kind) /\ Alive(checker')
      BY <1>2, <2>1, LineCompiled DEF InArgs, InAgreement, InStep
    <3>2. /\ Matched(emitter, checker) /\ Flat(emitter, kind) /\ CaseArgs(emitter, checker)
          /\ Matched(emitter', checker')
      BY <1>0, <2>1, <3>1 DEF InArgs, InAgreement
    <3>3. EmitterStep(emitter, emitter', line', kind)
      BY <3>1, <3>2, EmitterSteps DEF Matched, Emitting
    <3>4. CheckerStep(checker, checker', line')
      BY <3>1, <3>2, AlikeItself, CheckerSteps DEF Matched, Twins
    <3> QED  BY <3>1, <3>2, <3>3, <3>4, StepArgs
  <2> QED  BY <1>0, <2>1 DEF InArgs
<1> QED  BY <1>1, <1>2

\* It holds always.
THEOREM ArgsInStep == Spec => []InArgs
  BY ArgsInit, ArgsNext, PTL DEF Spec

\* The argument of a .case without the types it hides: the .karg, or the fields.
LEMMA ContArgIs ==
    ASSUME NEW s, NEW e, InCase(e, s)
    PROVE  LET t == Bares(ContArg(s), s.exargs)
           IN  IF s.karg = NoType THEN t.node = "ubproduct" /\ t.names = FieldNames(s.fields)
               ELSE t = s.karg /\ t.node # "ubproduct"
<1> DEFINE p == UbProduct([i \in DOMAIN s.fields |-> s.fields[i].name],
                          [i \in DOMAIN s.fields |-> s.fields[i].type])
           base == IF s.karg # NoType THEN s.karg ELSE p
<1>1. ContArg(s) = Hides(base, s.exargs)
  BY DEF ContArg, Hides
<1>2. p.node = "ubproduct" /\ p.names = FieldNames(s.fields)
  BY DEF UbProduct, Type, FieldNames
<1>3. s.karg # NoType => s.karg.node # "ubproduct"
  BY DEF InCase, Boxed
<1> HIDE DEF p
<1>4. Bares(ContArg(s), s.exargs) = base
  <2> HIDE DEF base
  <2> QED  BY <1>1, BaresWhatHides DEF InCase
<1> QED  BY <1>2, <1>3, <1>4

\* An op that is a terminal is one that ends a block.
LEMMA TerminalOps ==
    ASSUME NEW l, l.op \in Ops.terminal
    PROVE  Known(l) /\ Group(l) = "terminal"
<1>1. Known(l)
  BY DEF Known, Ops
<1>2. Group(l) \in DOMAIN Ops /\ l.op \in Ops[Group(l)]
  BY <1>1, GroupOf
<1>3. \A g \in DOMAIN Ops : l.op \in Ops[g] => g = "terminal"
  BY DEF Ops
<1> QED  BY <1>1, <1>2, <1>3

\* CaseArgsInPlace for any item: when a .case ends, the emitter has the .fkargs of the
\* constructor in the order of its fields, or one argument and no more.
THEOREM CaseArgsAlwaysInPlace == Spec => CaseArgsInPlace
<1> DEFINE frame == Last(checker.branches)
           arg == FoldLeft(LAMBDA t, i : t.args[1], frame.sum.args[frame.constr],
                           [i \in 1 .. checker.exargs |-> i])
           placed == IF arg.node = "ubproduct" THEN emitter.fields = arg.names
                     ELSE emitter.nargs = Last(emitter.branches).nargs + 1
           ends == checker.block = "case" /\ line'.op \in Ops.terminal /\ ~Refused' /\ Compiling
<1>1. ASSUME InArgs, Next, ends PROVE placed
  <2>1. Known(line') /\ Group(line') = "terminal"
    BY <1>1, TerminalOps
  <2>2. Matched(emitter, checker) /\ CaseArgs(emitter, checker) /\ InCase(emitter, checker)
    BY <1>1 DEF InArgs, InAgreement, CaseArgs
  <2>3. checker' = CheckerReads(checker, line', kind) /\ Alive(checker')
    BY <1>1 DEF Next, Passes, Refused, Alive
  <2> DEFINE q == Sought(checker, CheckerLoops(checker, kind), Group(line'))
  <2>4. /\ IsChecker(checker) /\ Alike(checker.branches, checker.branches)
        /\ IsSeq(checker.branches) /\ emitter.branches # <<>>
        /\ Len(checker.branches) = Len(emitter.branches)
    BY <1>1, <2>2, AlikeItself DEF Matched, Twins, CaseArgs, Alike
  <2>5. line'.op \notin {".case", ".default"}
    BY <1>1 DEF Ops
  <2>6. /\ Alive(q) /\ CheckerMoved(checker, q) /\ checker' = CheckOp(q, line', kind)
    BY <1>1, <2>1, <2>3, <2>4, <2>5, CheckerOpAt
  <2>7. CaseMoved(checker, q, Group(line'))
    BY <1>1, <2>2, <2>4, <2>6, CaseSought DEF InCase
  <2> HIDE DEF q
  <2>8. /\ IsChecker(q) /\ q.branches = checker.branches /\ q.block = "case"
        /\ q.karg = checker.karg /\ q.fields = checker.fields /\ q.exargs = checker.exargs
    BY <1>1, <2>6, <2>7 DEF CheckerMoved, CaseMoved
  <2>9. checker.branches # <<>> /\ Last(checker.branches) = checker.branches[Len(checker.branches)]
    <3>1. Len(emitter.branches) # 0
      <4>1. \E X : emitter.branches \in Seq(X)
        BY <2>2 DEF Matched, Emitting, IsSeq
      <4> QED  BY <2>4, <4>1
    <3> QED  BY <2>4, <3>1, NoFrames DEF Last
  <2>10. checker' = CheckTerminal(q, line', kind)
    BY <2>1, <2>6 DEF CheckOp
  <2>11. CaseFits(q, frame)
    BY <2>1, <2>3, <2>4, <2>8, <2>9, <2>10, TerminalFits
  <2>12. ContArg(q) = frame.sum.args[frame.constr] /\ ContArg(q) = ContArg(checker)
    BY <2>8, <2>11 DEF CaseFits, ContArg
  <2>13. arg = Bares(ContArg(checker), checker.exargs)
    BY <2>12 DEF Bares
  <2>14. IF checker.karg = NoType
         THEN arg.node = "ubproduct" /\ arg.names = FieldNames(checker.fields)
         ELSE arg = checker.karg /\ arg.node # "ubproduct"
    <3> HIDE DEF arg
    <3> QED  BY <2>2, <2>13, ContArgIs
  <2>15. CASE checker.karg = NoType
    <3> HIDE DEF arg
    <3> QED  BY <2>2, <2>14, <2>15 DEF InCase
  <2>16. CASE checker.karg # NoType
    <3>1. emitter.nargs = Start(emitter) + 1
      BY <2>2, <2>16 DEF InCase
    <3>2. Last(emitter.branches) = emitter.branches[Len(emitter.branches)]
      BY DEF Last
    <3> HIDE DEF arg
    <3> QED  BY <2>14, <2>16, <3>1, <3>2 DEF Start
  <2> QED  BY <2>15, <2>16
<1>2. InArgs /\ [Next]_vars => [ends => placed]_vars
  <2> HIDE DEF ends, placed
  <2> QED  BY <1>1
<1>3. CaseArgsInPlace <=> [][ends => placed]_vars
  BY DEF CaseArgsInPlace
<1> HIDE DEF ends, placed
<1> QED  BY <1>2, <1>3, ArgsInStep, PTL DEF Spec

=============================================================================

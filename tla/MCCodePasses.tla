---------------------------- MODULE MCCodePasses ----------------------------
(***************************************************************************)
(* Code items of a few lines.  A topic bounds an item: how many lines of   *)
(* each op it may have, and the types and names they draw from.            *)
(***************************************************************************)
EXTENDS CodePasses

L == Lift(Prim)
Poly == Forall(Fun(Prim, L))
Pair == Product(<<1, 2>>, <<Prim, L>>)
Swapped == Product(<<2, 3>>, <<Prim, L>>)
UbPair == UbProduct(<<1, 2>>, <<Prim, Prim>>)
Boolean == Sum(<<1, 2>>, <<UbProduct(<<>>, <<>>), UbPair>>)
Single == Sum(<<1, 2>>, <<Prim, Exists(Prim)>>)
Either == Sum(<<1, 2>>, <<UbProduct(<<1>>, <<L>>), UbProduct(<<>>, <<>>)>>)
Unordered == Sum(<<2, 1>>, <<Prim, Prim>>)
Hidden == Exists(Exists(Exists(UbProduct(<<>>, <<>>))))
Opening == Sum(<<1, 2>>, <<Hidden, Hidden>>)
Imp(t) == Lift(ApiApp(t))

Fv(name, t, efv) == [name |-> name, type |-> t, efv |-> efv]
Code(kind_, fvs, karg, result) ==
    [kind |-> kind_, fvs |-> fvs, ntyfvs |-> 0, karg |-> karg, result |-> result]
MCSubCodes ==
    [thunk |-> Code(".expr", <<Fv(1, Prim, FALSE)>>, NoType, L),
     generic |-> [Code(".expr", <<>>, NoType, L) EXCEPT !.ntyfvs = 1],
     statement |-> Code(".expr", <<Fv(1, Prim, FALSE)>>, NoType, Imp(Prim)),
     escaping |-> Code(".expr", <<Fv(1, Prim, TRUE)>>, NoType, Imp(Prim)),
     forced |-> Code(".forcecont", <<Fv(1, Prim, FALSE)>>, Prim, L),
     demanded |-> Code(".strictcont", <<>>, L, L),
     left |-> Code(".ubcasecont", <<Fv(1, Prim, FALSE)>>, Prim, L),
     right |-> Code(".ubcasecont", <<Fv(1, Prim, FALSE)>>, UbPair, L)]

NoTopic == [ops |-> <<>>, types |-> {}, globals |-> {}, codes |-> {}, fields |-> {},
            records |-> {}, constrs |-> {}, coercions |-> {NoType}]
Once(ops) == [op \in ops |-> 1]
Twice(ops) == [op \in ops |-> 2]

WrittenTopics ==
    [thunks |-> [NoTopic EXCEPT
         !.ops = Twice({".gvar", ".closure"}) @@ Once({".tyfv", ".subcode", ".fv", ".apply",
                                                       ".undefined", ".enter"}),
         !.types = {L}, !.globals = {Prim, Fun(Prim, L), Lift(Fun(Prim, L))},
         !.codes = {"thunk", "generic"}],
     functions |-> [NoTopic EXCEPT
         !.ops = Once({".gvar", ".arg", ".tyarg", ".larg", ".lift", ".tyapp", ".app", ".appty", ".enter",
                       ".yield"}),
         !.types = {Prim, L}, !.globals = {Poly}],
     values |-> [NoTopic EXCEPT
         !.ops = Once({".gvar", ".lift", ".yield", ".record", ".lrecord", ".field", ".lfield",
                       ".lifted", ".cast"}),
         !.globals = {Prim, L}, !.fields = {1, 2},
         !.records = {<<1, 2>>, <<2, 1>>}, !.coercions = {Fun(Prim, L)}],
     constrs |-> [NoTopic EXCEPT
         !.ops = Twice({".natural"}) @@ Once({".constr", ".exconstr", ".yield"}),
         !.globals = {Boolean, Single, Unordered}, !.constrs = {1, 2},
         !.records = {<<>>, <<1>>, <<1, 2>>, <<2, 1>>}],
     prims |-> [NoTopic EXCEPT
         !.ops = Once({".rune", ".natural", ".efv", ".prim", ".impprim", ".ubprim", ".lprim"}),
         !.types = {Prim},
         !.globals = {Fun(Prim, Prim), Fun(Prim, L), Fun(Prim, Imp(Prim)), UbSum(<<1>>, <<Prim>>)}],
     conts |-> [NoTopic EXCEPT
         !.ops = Twice({".subcode"}) @@ Once({".fv", ".coerce", ".force", ".strict", ".undef",
                                              ".yield"}),
         !.types = {Prim, L}, !.codes = {"forced", "demanded"}, !.coercions = {Fun(L, L)}],
     unboxed |-> [NoTopic EXCEPT
         !.ops = Twice({".subcode"}) @@ Once({".fv", ".ubanalyze", ".force", ".ubprim"}),
         !.types = {Prim}, !.globals = {UbSum(<<1, 2>>, <<Prim, UbPair>>)},
         !.codes = {"left", "right", "forced"}],
     returns |-> [NoTopic EXCEPT
         !.ops = Twice({".fkarg"}) @@ Once({".tyfv", ".tylet", ".fv", ".karg", ".enter", ".undef"}),
         !.types = {Prim, L}, !.fields = {1, 2}],
     branches |-> [NoTopic EXCEPT
         !.ops = Once({".gvar", ".tylet", ".analyze", ".danalyze", ".default"}) @@ Twice({".fkarg"})
                 @@ [op \in {".case", ".undef"} |-> 3],
         !.types = {Prim, L}, !.globals = {Boolean}, !.constrs = {1, 2}, !.fields = {1, 2}],
     openings |-> [NoTopic EXCEPT
         !.ops = Twice({".case", ".karg", ".yield"}) @@ Once({".gvar", ".arg", ".analyze", ".exkarg"}),
         !.types = {Prim}, !.globals = {Single}, !.constrs = {1, 2}],
     defaults |-> [NoTopic EXCEPT
         !.ops = Once({".gvar", ".danalyze", ".default"})
                 @@ [op \in {".case", ".undef", ".karg"} |-> 3] @@ [op \in {".exkarg"} |-> 6],
         !.types = {Prim, L}, !.globals = {Opening}, !.constrs = {1, 2}],
     leftovers |-> [NoTopic EXCEPT
         !.ops = Once({".gvar", ".analyze", ".danalyze", ".default", ".fkarg", ".record", ".field",
                       ".cast", ".apply"}) @@ [op \in {".case", ".undef"} |-> 4],
         !.types = {L}, !.globals = {Either}, !.constrs = {1, 2}, !.fields = {1},
         !.records = {<<1>>}, !.coercions = {Fun(Either, Boolean), Fun(Either, Fun(Either, L))}],
     statements |-> [NoTopic EXCEPT
         !.ops = Twice({".bind"}) @@ Once({".subcode", ".gvar", ".rune", ".arg", ".closure",
                                           ".body"}),
         !.types = {Prim, Imp(Prim)}, !.globals = {Fun(Prim, Imp(Prim))},
         !.codes = {"statement", "escaping"}],
     declarations |-> [NoTopic EXCEPT
         !.ops = Once({".tygvar", ".tyextabstype", ".tyextelimprim", ".cogvar", ".tyfv", ".tyarg",
                       ".tylet", ".fv", ".arg", ".larg", ".body", ".enter"}),
         !.types = {L, Imp(L)}]]

\* The same as a function of the name, which TLC evaluates once.
MCTopics == [t \in DOMAIN WrittenTopics |-> WrittenTopics[t]]

MCKinds ==
    [thunks |-> {".expr"}, functions |-> {".expr"}, values |-> {".expr"},
     constrs |-> {".expr"}, prims |-> {".expr"}, unboxed |-> {".expr"}, conts |-> {".expr"},
     returns |-> {".forcecont", ".strictcont", ".ubcasecont"},
     branches |-> {".expr"}, openings |-> {".expr"}, defaults |-> {".expr"}, leftovers |-> {".expr"},
     statements |-> {".impprog"},
     declarations |-> {".expr", ".impprog"}]


\* Two cases: one binds a product in the register in which the other makes a record.
MCStale == [stale |-> [NoTopic EXCEPT
         !.ops = Twice({".case", ".undef"}) @@ Once({".natural", ".gvar", ".analyze", ".fkarg",
                                                     ".record", ".field"}),
         !.types = {Swapped, L}, !.fields = {1, 2}, !.constrs = {1, 2}, !.records = {<<1, 2>>},
         !.globals = {Sum(<<1, 2>>, <<UbProduct(<<1>>, <<Swapped>>), UbProduct(<<>>, <<>>)>>)}]]
MCStaleKinds == [stale |-> {".expr"}]
=============================================================================

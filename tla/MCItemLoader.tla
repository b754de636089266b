---------------------------- MODULE MCItemLoader ----------------------------
(***************************************************************************)
(* Programs of a few items.  A topic says of each label which items it may *)
(* stand for, and into which files the labels go.                          *)
(***************************************************************************)
EXTENDS ItemLoader

MCItems == {"a", "b", "c", "d", "e", "p", "q", "t", "u", "v", "k", "list.t", "rune.t", "regex.t",
            "regex.class.t", "1", "2", "3", "4", "5", "6", "7"}

It(form) == NoNames @@ [form |-> form]
Data(form, ts, data) == [It(form) EXCEPT !.types = ts, !.data = data]
Closure(code, ts) == [It(".closure") EXCEPT !.code = <<code>>, !.types = ts]
Cast(x) == [It(".cast") EXCEPT !.data = <<x>>, !.coercions = <<"k">>]
Expr(form, codes, data) == [It(form) EXCEPT !.code = codes, !.data = data]
Type(form, ts, ext) == [It(form) EXCEPT !.types = ts, !.ext = ext, !.kinded = TRUE]
Abstract == Type(".tyabstract", <<>>, {})
Prim == Type(".tydefinedprim", <<>>, {})
Coercion(t) == [It(".tycoercion") EXCEPT !.types = <<t>>, !.ext = {t}]

Prefix(items) == [table |-> 1, type |-> "prefix", items |-> items]
Document(items) == [table |-> 1, type |-> "document", items |-> items]
OneFile(items) == {<<Prefix(items)>>, <<Prefix(Reverse(items))>>}

Written(items, ways) == {[tables |-> <<f>>, files |-> fs] : f \in items, fs \in ways}

\* Closures and code that call one another; .rune and .natural among the globals.
Functions ==
    LET choices ==
          [a : {Closure("p", <<>>), Closure("p", <<"t">>), Data(".record", <<>>, <<"b">>)},
           b : {Closure("p", <<>>), Closure("p", <<"t">>), Closure("q", <<"t">>),
                Data(".record", <<>>, <<"a">>), Data(".alias", <<"t">>, <<"a">>)},
           p : {Expr(".expr", c, d) : c \in {<<>>, <<"q">>},
                   d \in {<<>>, <<"a">>, <<"b">>, <<"a", "b">>, <<Rune, "b">>,
                          <<Natural, "b">>, <<"b", Rune, "a">>}},
           q : {[Expr(".forcecont", c, d) EXCEPT !.types = <<"t">>] :
                   c \in {<<>>, <<"p">>}, d \in {<<>>, <<"a">>, <<"b">>, <<Natural, "b", Rune>>}},
           t : {Prim}]
        all == <<"a", "b", "p", "q", "t">>
        isEntry(x, items) == \A i \in DOMAIN items : x \notin ToSet(items[i].data)
    IN Written(choices, OneFile(all) \cup {<<Prefix(<<"b", "q", "t">>), Prefix(<<"p", "a">>)>>})
         \cup {w \in Written(choices, {<<Document(all)>>}) : isEntry("a", w.tables[1])}

\* Constants that name one another, and another type or name for them.
Values ==
    LET of(x, y) == {Data(".record", <<>>, <<x>>), Data(".record", <<"u">>, <<x, y>>),
                     Data(".constr", <<"u">>, <<y>>), Data(".alias", <<"u">>, <<x>>), Cast(x)}
        leaves == {Data(".undefined", <<"t">>, <<>>), It(".rune")}
        choices == [a : of("b", "c"), b : of("c", "a") \cup {It(".rune")},
                    c : of("a", "b") \cup leaves,
                    t : {Abstract}, u : {[It(".tyexpr") EXCEPT !.types = <<"t">>]},
                    k : {Coercion("t")}]
    IN Written(choices, {<<Prefix(<<"a", "b", "c", "t", "u", "k">>)>>,
                         <<Prefix(<<"k", "c">>), Prefix(<<"t", "u", "b", "a">>)>>})

\* Types that name one another, in all the ways; a coercion to one of them.
Types ==
    LET of(x, y) == {Type(form, ts, ext) : form \in {".tyexpr", ".tyabstract"},
                        ts \in {<<>>, <<x>>, <<x, y>>}, ext \in {{}, {x}}}
        proper(its) == {it \in its : it.ext \subseteq ToSet(it.types)}
        unkinded(its) == its \cup {[it EXCEPT !.kinded = FALSE] :
                                      it \in {j \in its : j.form = ".tyexpr"}}
        choices == [t : proper(of("u", "v") \cup of("t", "u")),
                    u : unkinded(proper(of("v", "t"))),
                    v : {Type(".tyexpr", <<"t">>, {}), Type(".tyintrprim", <<>>, {}),
                           Type(".tyabstract", <<"u">>, {})},
                    k : {Coercion("v")},
                    a : {Data(".undefined", <<"u">>, <<>>)}]
        all == Written(choices, {<<Prefix(<<"t", "k", "a", "u", "v">>)>>})
    IN all \cup {[w EXCEPT !.tables[1] = [x \in {"t", "u", "v", "a"} |-> @[x]],
                            !.files = <<Prefix(<<"a", "v", "t", "u">>)>>] : w \in all}

\* The values that are written with types of the compiler's own.
Builtins ==
    LET choices ==
          [a : {Closure("p", <<>>)},
           b : {Data(".string", <<>>, <<>>), Data(".string", <<>>, <<"c">>),
                Data(".list", <<"t">>, <<"c">>), Data(".regex", <<>>, <<"c">>)},
           c : {Data(".string", <<>>, <<>>), Data(".regex", <<>>, <<>>),
                Data(".constr", <<"t">>, <<>>)},
           p : {Expr(".impprog", <<>>, <<"b">>), Expr(".ubcasecont", <<>>, <<Rune, "b">>)},
           t : {Type(".tyexpr", <<"rune.t">>, {})}]
        library == ("list.t" :> Abstract) @@ ("rune.t" :> Prim)
                     @@ ("regex.class.t" :> Abstract)
        regexes == {Type(".tyabstract", ts, {}) : ts \in {<<>>, <<"regex.class.t">>}}
        uses == <<"a", "b", "c", "p", "t">>
        builtin == <<"list.t", "rune.t", "regex.t", "regex.class.t">>
    IN {[w EXCEPT !.tables[1] = @ @@ library @@ ("regex.t" :> r)] :
           r \in regexes,
           w \in Written(choices, {<<Document(uses \o builtin)>>,
                                   <<Prefix(uses), Prefix(builtin)>>})}
         \cup {[w EXCEPT !.tables[1] = @ @@ ("rune.t" :> Prim)] :
                  w \in Written(choices, {<<Document(uses \o <<"rune.t">>)>>})}

\* A chain with as many items as the stacks hold, and one with one more, in a circle or not.
Chain(n, last) ==
    LET xs == SubSeq(<<"1", "2", "3", "4", "5", "6", "7">>, 1, n)
        place(x) == CHOOSE m \in 1 .. n : xs[m] = x
        record(x) ==
            Data(".record", <<"t">>, IF place(x) = n THEN last ELSE <<xs[place(x) + 1]>>)
    IN [tables |-> <<[x \in ToSet(xs) |-> record(x)] @@ ("t" :> Prim)>>,
        files |-> <<Prefix(xs), Prefix(<<"t">>)>>]
Chains == {Chain(n, last) : n \in 5 .. 7, last \in {<<>>, <<"1">>}}

\* A library in one table or two, and a document that uses it and has items of its own
\* under labels of the library.
Libraries ==
    LET library == [b : {Closure("q", <<>>), Closure("q", <<"t">>), Cast("c")},
                    c : {Closure("q", <<"t">>), Data(".record", <<>>, <<"b">>),
                         Data(".undefined", <<"t">>, <<>>)},
                    q : {Expr(".expr", <<>>, d) : d \in {<<"b">>, <<Rune, "b">>, <<"c">>}},
                    t : {Abstract}, k : {Coercion("t")}]
        own == [e : {Closure("p", <<>>)},
                p : {Expr(".expr", <<>>, d) : d \in {<<"b">>, <<Rune, "b">>, <<"b", "d">>}},
                d : {Closure("q", <<>>), Cast("b")}]
        hiding == {<<>>} \cup {("q" :> Expr(".expr", <<>>, d)) : d \in {<<"b">>, <<"d">>}}
                    \cup {("b" :> it) : it \in {Closure("q", <<>>),
                                                Data(".alias", <<"t">>, <<"c">>)}}
                    \cup {"t" :> Prim,
                          ("b" :> Data(".alias", <<"t">>, <<"c">>))
                             @@ ("c" :> Data(".record", <<"t">>, <<"b">>))}
        libraryOf(t, n) == [Prefix(t) EXCEPT !.table = n]
        documentOf(own1, n) ==
            [Document(<<"e">> \o SetToSeq(DOMAIN own1 \ {"e"})) EXCEPT !.table = n]
    IN {[tables |-> <<l, h @@ o>>,
         files |-> <<libraryOf(<<"b", "c", "q", "t", "k">>, 1), documentOf(h @@ o, 2)>>] :
            l \in library, h \in hiding, o \in own}
         \cup
       {[tables |-> <<l, ("q" :> Expr(".expr", <<>>, <<"b">>)), o>>,
         files |-> <<libraryOf(<<"k", "t">>, 1), libraryOf(<<"q", "c", "b">>, 1),
                     libraryOf(<<"q">>, 2), documentOf(o, 3)>>] :
            l \in library, o \in own}

MCPrograms == Functions \cup Values \cup Types \cup Builtins \cup Chains \cup Libraries

ASSUME FilesHaveTheItems ==
    \A w \in MCPrograms, n \in 1 .. 3 :
        LET of == SelectSeq(w.files, LAMBDA f : f.table = n)
        IN n \in DOMAIN w.tables =>
              UNION {ToSet(of[m].items) : m \in DOMAIN of} = DOMAIN w.tables[n]
=============================================================================

--------------------------- MODULE AceValueProofs ---------------------------
(***************************************************************************)
(* What the evaluator tells its clients: the values that the code means,   *)
(* or a failure; and, when there is a slot for every item, it implements   *)
(* LazyHeap.                                                               *)
(***************************************************************************)
EXTENDS AceEvalProofs

-----------------------------------------------------------------------------
(* What programs mean *)

\* What an item means depends on what its needs mean, and on nothing else.
LEMMA MeaningLocal ==
  ASSUME code \in Programs, NEW i \in Items, NEW m, NEW w,
         \A k \in 1 .. Len(code[i].needs) : m[code[i].needs[k]] = w[code[i].needs[k]]
  PROVE  MeaningFrom(code, m, i) = MeaningFrom(code, w, i)
<1> DEFINE needs == code[i].needs
           bad(x) == {k \in DOMAIN needs : IsError(x[needs[k]])}
           first(x) == CHOOSE k \in bad(x) : \A l \in bad(x) : k <= l
<1>1. /\ DOMAIN needs = 1 .. Len(needs) /\ Len(needs) \in Nat
      /\ code[i].ends = "enter" => Len(needs) >= 1
      /\ code[i].ends \in {"yield", "undef", "enter"}
  BY CodeFacts
<1>2. bad(m) = bad(w)
  BY <1>1
<1>3. first(m) = first(w)
  BY <1>2
<1>4. bad(m) # {} => first(m) \in 1 .. Len(needs)
  <2> SUFFICES ASSUME bad(m) # {} PROVE first(m) \in bad(m)
    BY <1>1
  <2>1. bad(m) \in SUBSET Nat
    BY <1>1
  <2>2. \E k \in bad(m) : \A l \in bad(m) : k <= l
    <3> HIDE DEF bad
    <3> QED BY <2>1, LeastNat
  <2> QED BY <2>2
<1>5. code[i].ends = "enter" => Len(needs) \in 1 .. Len(needs)
  BY <1>1
<1> HIDE DEF needs
<1>6. bad(m) # {} => m[needs[first(m)]] = w[needs[first(w)]]
  BY <1>3, <1>4 DEF needs
<1>7. code[i].ends = "enter" => m[needs[Len(needs)]] = w[needs[Len(needs)]]
  BY <1>5 DEF needs
<1>8. \A x : MeaningFrom(code, x, i) =
        CASE code[i].kind = "function" -> Val(i)
          [] code[i].kind # "function" /\ bad(x) # {} -> x[needs[first(x)]]
          [] OTHER -> CASE code[i].ends = "yield" -> Val(i)
                        [] code[i].ends = "undef" -> Err(i)
                        [] code[i].ends = "enter" -> x[needs[Len(needs)]]
  BY DEF MeaningFrom, needs
<1> HIDE DEF bad, first
<1>9. CASE code[i].kind = "function"
  BY <1>8, <1>9
<1>10. CASE code[i].kind # "function" /\ bad(m) # {}
  BY <1>2, <1>6, <1>8, <1>10
<1>11. CASE code[i].kind # "function" /\ bad(m) = {}
  BY <1>1, <1>2, <1>7, <1>8, <1>11
<1> QED BY <1>9, <1>10, <1>11

\* A program in which no item needs itself has a meaning: a least item of those without
\* one, by rank, would have one.
LEMMA MeaningExists ==
  ASSUME NoCircles, code \in Programs
  PROVE  \E m : m = [i \in Items |-> MeaningFrom(code, m, i)]
<1>1. PICK rank \in [Items -> 0 .. Cardinality(Items)] :
        \A i \in Items : \A k \in 1 .. Len(code[i].needs) : rank[code[i].needs[k]] < rank[i]
  <2>1. Acyclic(code) /\ DOMAIN code = Items
    BY ProgramsWellFormed DEF NoCircles
  <2>2. \A i \in Items : DOMAIN code[i].needs = 1 .. Len(code[i].needs)
    BY CodeFacts
  <2> QED BY <2>1, <2>2 DEF Acyclic
<1>2. Cardinality(Items) \in Nat
  BY ThreadsFinite, ThreadsAreItems, FS_CardinalityType
<1> DEFINE Upto(n, m) == /\ m = [i \in Items |-> m[i]]
                         /\ \A i \in Items : rank[i] < n => m[i] = MeaningFrom(code, m, i)
           Fails == {n \in Nat : ~ \E m : Upto(n, m)}
<1>3. 0 \notin Fails
  <2> DEFINE m == [i \in Items |-> 0]
  <2>1. Upto(0, m)
    BY <1>1
  <2> QED BY <2>1
<1>4. ASSUME NEW n \in Nat, n \notin Fails PROVE n + 1 \notin Fails
  <2>1. PICK m : Upto(n, m)
    BY <1>4
  <2> DEFINE w == [i \in Items |-> IF rank[i] = n THEN MeaningFrom(code, m, i) ELSE m[i]]
  <2>2. ASSUME NEW i \in Items, rank[i] < n + 1 PROVE w[i] = MeaningFrom(code, w, i)
    <3>1. \A k \in 1 .. Len(code[i].needs) : m[code[i].needs[k]] = w[code[i].needs[k]]
      <4> SUFFICES ASSUME NEW k \in 1 .. Len(code[i].needs)
                   PROVE  m[code[i].needs[k]] = w[code[i].needs[k]]
        OBVIOUS
      <4>1. code[i].needs[k] \in Items
        BY CodeFacts
      <4>2. rank[code[i].needs[k]] < rank[i] /\ rank[i] \in Nat /\ rank[code[i].needs[k]] \in Nat
        BY <1>1, <1>2, <4>1
      <4>3. rank[code[i].needs[k]] # n
        BY <2>2, <4>2
      <4> QED BY <4>1, <4>3
    <3> HIDE DEF w
    <3>2. MeaningFrom(code, m, i) = MeaningFrom(code, w, i)
      BY <3>1, MeaningLocal
    <3>3. CASE rank[i] = n
      BY <3>2, <3>3 DEF w
    <3>4. CASE rank[i] # n
      <4>1. rank[i] < n
        BY <1>1, <1>2, <2>2, <3>4
      <4>2. m[i] = MeaningFrom(code, m, i)
        BY <2>1, <4>1
      <4> QED BY <3>2, <3>4, <4>2 DEF w
    <3> QED BY <3>3, <3>4
  <2>3. Upto(n + 1, w)
    <3>1. w = [i \in Items |-> w[i]]
      OBVIOUS
    <3> HIDE DEF w
    <3> QED BY <2>2, <3>1
  <2> HIDE DEF Upto, w
  <2> QED BY <2>3
<1> HIDE DEF Upto
<1>5. Fails = {}
  <2> SUFFICES ASSUME Fails # {} PROVE FALSE
    OBVIOUS
  <2>1. PICK n \in Fails : \A k \in Fails : n <= k
    <3>1. Fails \in SUBSET Nat
      OBVIOUS
    <3> HIDE DEF Fails
    <3> QED BY <3>1, LeastNat
  <2>2. n \in Nat /\ n # 0
    BY <1>3, <2>1
  <2>3. n - 1 \in Nat /\ n - 1 \notin Fails /\ (n - 1) + 1 = n
    <3>1. n - 1 \in Nat /\ (n - 1) + 1 = n /\ ~(n <= n - 1)
      BY <2>2
    <3> HIDE DEF Fails
    <3> QED BY <2>1, <3>1
  <2>4. (n - 1) + 1 \notin Fails
    <3> HIDE DEF Fails
    <3> QED BY <1>4, <2>3
  <2> QED BY <2>1, <2>3, <2>4
<1>6. PICK m : Upto(Cardinality(Items) + 1, m)
  <2>1. Cardinality(Items) + 1 \in Nat
    BY <1>2
  <2> QED BY <1>5, <2>1
<1>7. \A i \in Items : rank[i] < Cardinality(Items) + 1
  BY <1>1, <1>2
<1>8. m = [i \in Items |-> m[i]] /\ \A i \in Items : m[i] = MeaningFrom(code, m, i)
  BY <1>6, <1>7 DEF Upto
<1>9. m = [i \in Items |-> MeaningFrom(code, m, i)]
  BY <1>8
<1> QED BY <1>9

\* Its meaning is what every item means by the others.
LEMMA MeaningUnfolds ==
  ASSUME NoCircles, code \in Programs, NEW i \in Items
  PROVE  Meaning(code)[i] = MeaningFrom(code, Meaning(code), i)
<1> DEFINE m == CHOOSE w : w = [j \in Items |-> MeaningFrom(code, w, j)]
<1>1. m = [j \in Items |-> MeaningFrom(code, m, j)]
  BY MeaningExists
<1>2. DOMAIN code = Items
  BY ProgramsWellFormed
<1>3. Meaning(code) = m
  BY <1>2 DEF Meaning
<1> HIDE DEF m
<1>4. m[i] = MeaningFrom(code, m, i)
  BY <1>1
<1> QED BY <1>3, <1>4

-----------------------------------------------------------------------------
(* What stacks wait for *)

\* What the items mean.
Meant == Meaning(code)

\* What an item means: the first error among its needs, or what its code ends with.
LEMMA Means ==
  ASSUME NoCircles, code \in Programs, NEW i \in Items
  PROVE  /\ code[i].kind = "function" => Meant[i] = Val(i)
         /\ code[i].kind # "function" =>
              \A k \in 1 .. Len(code[i].needs) :
                 IsError(Meant[code[i].needs[k]])
                   /\ (\A l \in 1 .. k - 1 : ~IsError(Meant[code[i].needs[l]])) => Meant[i] = Meant[code[i].needs[k]]
         /\ code[i].kind # "function"
              /\ (\A k \in 1 .. Len(code[i].needs) : ~IsError(Meant[code[i].needs[k]])) =>
                /\ code[i].ends = "yield" => Meant[i] = Val(i)
                /\ code[i].ends = "undef" => Meant[i] = Err(i)
                /\ code[i].ends = "enter" => Meant[i] = Meant[code[i].needs[Len(code[i].needs)]]
<1> DEFINE needs == code[i].needs
           bad == {k \in DOMAIN needs : IsError(Meant[needs[k]])}
           first == CHOOSE k \in bad : \A l \in bad : k <= l
<1>1. /\ DOMAIN needs = 1 .. Len(needs) /\ Len(needs) \in Nat
      /\ code[i].ends \in {"yield", "undef", "enter"}
  BY CodeFacts
<1>2. Meant[i] = CASE code[i].kind = "function" -> Val(i)
          [] code[i].kind # "function" /\ bad # {} -> Meant[needs[first]]
          [] OTHER -> CASE code[i].ends = "yield" -> Val(i)
                        [] code[i].ends = "undef" -> Err(i)
                        [] code[i].ends = "enter" -> Meant[needs[Len(needs)]]
  BY MeaningUnfolds DEF MeaningFrom, Meant
<1> HIDE DEF Meant
<1>3. ASSUME NEW k \in 1 .. Len(needs), IsError(Meant[needs[k]]),
             \A l \in 1 .. k - 1 : ~IsError(Meant[needs[l]])
      PROVE  bad # {} /\ first = k
  <2>1. k \in bad /\ bad \subseteq 1 .. Len(needs)
    BY <1>1, <1>3
  <2>2. \A l \in bad : k <= l
    <3> SUFFICES ASSUME NEW l \in bad, l < k PROVE FALSE
      BY <1>1, <2>1
    <3>1. l \in 1 .. k - 1
      BY <1>1, <2>1
    <3> QED BY <1>3, <3>1
  <2>3. \A x \in bad : (\A l \in bad : x <= l) => x = k
    <3> SUFFICES ASSUME NEW x \in bad, \A l \in bad : x <= l PROVE x = k
      OBVIOUS
    <3>1. x <= k /\ k <= x /\ x \in Nat /\ k \in Nat
      BY <1>1, <2>1, <2>2
    <3> QED BY <3>1
  <2> HIDE DEF bad
  <2> QED BY <2>1, <2>2, <2>3
<1>4. (\A k \in 1 .. Len(needs) : ~IsError(Meant[needs[k]])) => bad = {}
  BY <1>1
<1> HIDE DEF bad, first
<1>5. code[i].kind = "function" => Meant[i] = Val(i)
  BY <1>2
<1>6. ASSUME code[i].kind # "function", NEW k \in 1 .. Len(needs), IsError(Meant[needs[k]]),
             \A l \in 1 .. k - 1 : ~IsError(Meant[needs[l]])
      PROVE  Meant[i] = Meant[needs[k]]
  BY <1>2, <1>3, <1>6
<1>7. ASSUME code[i].kind # "function", \A k \in 1 .. Len(needs) : ~IsError(Meant[needs[k]])
      PROVE  /\ code[i].ends = "yield" => Meant[i] = Val(i)
             /\ code[i].ends = "undef" => Meant[i] = Err(i)
             /\ code[i].ends = "enter" => Meant[i] = Meant[needs[Len(needs)]]
  BY <1>2, <1>4, <1>7
<1> QED BY <1>5, <1>6, <1>7

\* Code that ends with entering its last need means what that means.
LEMMA EnterMeans ==
  ASSUME NoCircles, code \in Programs, NEW i \in Items, code[i].kind # "function",
         code[i].ends = "enter",
         \A l \in 1 .. Len(code[i].needs) - 1 : ~IsError(Meant[code[i].needs[l]])
  PROVE  Meant[i] = Meant[code[i].needs[Len(code[i].needs)]]
<1> DEFINE n == Len(code[i].needs)
<1>1. n \in Nat /\ n >= 1
  BY CodeFacts
<1>2. CASE IsError(Meant[code[i].needs[n]])
  <2>1. n \in 1 .. n
    BY <1>1
  <2> QED BY <1>2, <2>1, Means
<1>3. CASE ~IsError(Meant[code[i].needs[n]])
  <2>1. \A k \in 1 .. n : k = n \/ k \in 1 .. n - 1
    BY <1>1
  <2>2. \A k \in 1 .. n : ~IsError(Meant[code[i].needs[k]])
    BY <1>3, <2>1
  <2> QED BY <2>2, Means
<1> QED BY <1>2, <1>3

\* The value that continuation f waits for, and the one that it then passes on.
Exp(f) == IF f.node = "update" THEN Meant[f.item] ELSE Meant[code[f.item].needs[f.k]]
Pass(f) == Meant[f.item]

\* Stack s waits for v.
Expected(v, s) ==
  \A m \in 1 .. Len(s) : (\A l \in 1 .. m - 1 : s[l].node = "update") => Exp(s[m]) = v

\* Each continuation passes on what the one below waits for.
Chain(s) ==
  \A n, m \in 1 .. Len(s) : n < m =>
     /\ IsError(Exp(s[n])) => Exp(s[m]) = Exp(s[n])
     /\ (\A l \in n + 1 .. m - 1 : s[l].node = "update") => Exp(s[m]) = Pass(s[n])

\* The needs before the one that a continuation waits for were there, without an error.
Prior(s) ==
  \A n \in 1 .. Len(s) : s[n].node = "resume" =>
    \A l \in 1 .. s[n].k - 1 : ~IsError(Meant[code[s[n].item].needs[l]])

\* Nothing is expected of a thread with no continuations.
LEMMA NoneExpected ==
  Chain(<<>>) /\ Prior(<<>>) /\ \A v : Expected(v, <<>>)
<1>1. Len(<<>>) = 0
  OBVIOUS
<1> QED BY <1>1 DEF Chain, Prior, Expected

\* An error that is expected on top is expected all the way down.
LEMMA ErrorDown ==
  ASSUME NEW s \in Seq(Frames), Chain(s), NEW v, IsError(v), Expected(v, s)
  PROVE  \A m \in 1 .. Len(s) : Exp(s[m]) = v
<1> SUFFICES ASSUME NEW m \in 1 .. Len(s) PROVE Exp(s[m]) = v
  OBVIOUS
<1>1. 1 \in 1 .. Len(s) /\ m \in Nat
  OBVIOUS
<1>2. Exp(s[1]) = v
  BY <1>1 DEF Expected
<1>3. CASE m = 1
  BY <1>2, <1>3
<1>4. CASE 1 < m
  BY <1>1, <1>2, <1>4 DEF Chain
<1> QED BY <1>1, <1>3, <1>4

\* A continuation goes on top.
LEMMA PushChain ==
  ASSUME NEW s \in Seq(Frames), NEW f \in Frames, Chain(s), Prior(s), Expected(Pass(f), s),
         IsError(Exp(f)) => Exp(f) = Pass(f),
         f.node = "resume" => \A l \in 1 .. f.k - 1 : ~IsError(Meant[code[f.item].needs[l]])
  PROVE  /\ Chain(Push(f, s)) /\ Prior(Push(f, s))
         /\ f.node = "resume" => Expected(Exp(f), Push(f, s))
         /\ f.node = "update" => Expected(Exp(f), Push(f, s))
<1> DEFINE r == Push(f, s)
<1>1. /\ r \in Seq(Frames) /\ Len(r) = Len(s) + 1
      /\ r[1] = f
      /\ \A n \in 2 .. Len(s) + 1 : r[n] = s[n - 1]
      /\ \A n \in 1 .. Len(s) : r[n + 1] = s[n]
  BY DEF Push
<1>2. Len(s) \in Nat
  OBVIOUS
<1> HIDE DEF r
<1>3. ASSUME NEW m \in 1 .. Len(s), \A l \in 2 .. m : r[l].node = "update"
      PROVE  Exp(s[m]) = Pass(f)
  <2>1. \A l \in 1 .. m - 1 : l + 1 \in 2 .. m /\ r[l + 1] = s[l]
    BY <1>1, <1>2
  <2>2. \A l \in 1 .. m - 1 : s[l].node = "update"
    BY <1>3, <2>1
  <2> QED BY <2>2 DEF Expected
<1>4. ASSUME NEW n \in 1 .. Len(r), NEW m \in 1 .. Len(r), n < m
      PROVE  /\ IsError(Exp(r[n])) => Exp(r[m]) = Exp(r[n])
             /\ (\A l \in n + 1 .. m - 1 : r[l].node = "update") => Exp(r[m]) = Pass(r[n])
  <2>1. m - 1 \in 1 .. Len(s) /\ r[m] = s[m - 1] /\ m \in Nat /\ n \in Nat
    BY <1>1, <1>2, <1>4
  <2>2. CASE n = 1
    <3>1. r[n] = f
      BY <1>1, <2>2
    <3>2. IsError(Exp(f)) => Exp(s[m - 1]) = Exp(f)
      BY <2>1, ErrorDown
    <3>3. (\A l \in 2 .. m - 1 : r[l].node = "update") => Exp(s[m - 1]) = Pass(f)
      BY <1>3, <2>1
    <3> QED BY <2>1, <2>2, <3>1, <3>2, <3>3
  <2>3. CASE n # 1
    <3>1. n - 1 \in 1 .. Len(s) /\ r[n] = s[n - 1] /\ n - 1 < m - 1
      BY <1>1, <1>2, <1>4, <2>3
    <3>2. ASSUME \A l \in n + 1 .. m - 1 : r[l].node = "update"
          PROVE  \A l \in (n - 1) + 1 .. (m - 1) - 1 : s[l].node = "update"
      <4>1. ASSUME NEW l \in (n - 1) + 1 .. (m - 1) - 1
            PROVE  l + 1 \in n + 1 .. m - 1 /\ r[l + 1] = s[l]
        BY <1>1, <1>2, <2>1, <3>1
      <4> QED BY <3>2, <4>1
    <3> QED BY <2>1, <3>1, <3>2 DEF Chain
  <2> QED BY <2>2, <2>3
<1>5. Chain(r)
  BY <1>4 DEF Chain
<1>6. Prior(r)
  <2>1. ASSUME NEW n \in 1 .. Len(r), r[n].node = "resume"
        PROVE  \A l \in 1 .. r[n].k - 1 : ~IsError(Meant[code[r[n].item].needs[l]])
    <3>1. CASE n = 1
      BY <1>1, <2>1, <3>1
    <3>2. CASE n # 1
      <4>1. n - 1 \in 1 .. Len(s) /\ r[n] = s[n - 1]
        BY <1>1, <1>2, <3>2
      <4> QED BY <2>1, <4>1 DEF Prior
    <3> QED BY <3>1, <3>2
  <2> QED BY <2>1 DEF Prior
<1>7. ASSUME NEW m \in 1 .. Len(r), \A l \in 1 .. m - 1 : r[l].node = "update",
             f.node = "update" => Exp(f) = Pass(f)
      PROVE  Exp(r[m]) = Exp(f)
  <2>1. CASE m = 1
    BY <1>1, <2>1
  <2>2. CASE m # 1
    <3>1. m - 1 \in 1 .. Len(s) /\ r[m] = s[m - 1] /\ 1 \in 1 .. m - 1
      BY <1>1, <1>2, <2>2
    <3>2. f.node = "update"
      BY <1>1, <1>7, <3>1
    <3>3. \A l \in 2 .. m - 1 : r[l].node = "update"
      BY <1>7
    <3> QED BY <1>3, <1>7, <3>1, <3>2, <3>3
  <2> QED BY <2>1, <2>2
<1>8. f.node = "update" => Exp(f) = Pass(f)
  BY DEF Exp, Pass
<1> QED BY <1>5, <1>6, <1>7, <1>8 DEF Expected, r

\* The top continuation goes.
LEMMA TailChain ==
  ASSUME NEW s \in Seq(Frames), s # <<>>, Chain(s), Prior(s)
  PROVE  /\ Chain(Tail(s)) /\ Prior(Tail(s)) /\ Expected(Pass(s[1]), Tail(s))
         /\ \A v : Expected(v, s) =>
              /\ Exp(s[1]) = v
              /\ s[1].node = "update" => Expected(v, Tail(s))
<1> DEFINE r == Tail(s)
<1>1. /\ r \in Seq(Frames) /\ Len(r) = Len(s) - 1 /\ Len(s) \in Nat \ {0}
      /\ \A n \in 1 .. Len(s) - 1 : r[n] = s[n + 1]
  BY TailFacts
<1> HIDE DEF r
<1>2. ASSUME NEW m \in 1 .. Len(r)
      PROVE  m + 1 \in 1 .. Len(s) /\ r[m] = s[m + 1] /\ m \in Nat /\ 1 < m + 1
  BY <1>1
<1>3. ASSUME NEW a \in Nat, NEW m \in 1 .. Len(r), \A l \in a .. m - 1 : r[l].node = "update", a >= 1
      PROVE  \A l \in a + 1 .. (m + 1) - 1 : s[l].node = "update"
  <2> SUFFICES ASSUME NEW l \in a + 1 .. (m + 1) - 1 PROVE s[l].node = "update"
    OBVIOUS
  <2>1. l - 1 \in a .. m - 1 /\ l - 1 \in 1 .. Len(s) - 1 /\ (l - 1) + 1 = l
    BY <1>1, <1>2, <1>3
  <2> QED BY <1>1, <1>3, <2>1
<1>4. Chain(r)
  <2> SUFFICES ASSUME NEW n \in 1 .. Len(r), NEW m \in 1 .. Len(r), n < m
               PROVE  /\ IsError(Exp(r[n])) => Exp(r[m]) = Exp(r[n])
                      /\ (\A l \in n + 1 .. m - 1 : r[l].node = "update") => Exp(r[m]) = Pass(r[n])
    BY DEF Chain
  <2>1. n + 1 < m + 1 /\ n + 1 \in Nat /\ n + 1 >= 1
    BY <1>2
  <2>2. (\A l \in n + 1 .. m - 1 : r[l].node = "update") =>
           \A l \in (n + 1) + 1 .. (m + 1) - 1 : s[l].node = "update"
    BY <1>3, <2>1
  <2> QED BY <1>2, <2>1, <2>2 DEF Chain
<1>5. Prior(r)
  BY <1>2 DEF Prior
<1>6. 1 \in 1 .. Len(s)
  BY <1>1
<1>7. Expected(Pass(s[1]), r)
  <2> SUFFICES ASSUME NEW m \in 1 .. Len(r), \A l \in 1 .. m - 1 : r[l].node = "update"
               PROVE  Exp(r[m]) = Pass(s[1])
    BY DEF Expected
  <2>1. \A l \in 1 + 1 .. (m + 1) - 1 : s[l].node = "update"
    BY <1>3
  <2> QED BY <1>2, <1>6, <2>1 DEF Chain
<1>8. ASSUME NEW v, Expected(v, s) PROVE Exp(s[1]) = v
  BY <1>6, <1>8 DEF Expected
<1>9. s[1].node = "update" => Exp(s[1]) = Pass(s[1])
  BY DEF Exp, Pass
<1>10. ASSUME NEW v, Expected(v, s), s[1].node = "update" PROVE Expected(v, r)
  <2>1. v = Pass(s[1])
    BY <1>8, <1>9, <1>10
  <2> QED BY <1>7, <2>1
<1> QED BY <1>4, <1>5, <1>7, <1>8, <1>10 DEF r

-----------------------------------------------------------------------------
(* What is right for a stack to wait for *)

\* Some update frames go, and nothing else above the last one that stays.
LEMMA ThinChain ==
  ASSUME NEW s \in Seq(Frames), NEW r \in Seq(Frames), NEW h, Thins(s, r, h),
         \A p \in 1 .. Len(s) : s[p].node = "resume" /\ p < h[Len(r)] =>
            \E q \in 1 .. Len(r) : h[q] = p,
         Chain(s), Prior(s)
  PROVE  /\ Chain(r) /\ Prior(r)
         /\ \A v : Expected(v, s) => Expected(v, r)
<1>1. /\ \A n \in 1 .. Len(r) : h[n] \in 1 .. Len(s) /\ r[n] = s[h[n]]
      /\ \A n, m \in 1 .. Len(r) : n < m => h[n] < h[m]
      /\ Len(r) \in Nat /\ Len(s) \in Nat
  BY DEF Thins
<1>2. \A n, m \in 1 .. Len(r) : h[n] < h[m] => n < m
  <2> SUFFICES ASSUME NEW n \in 1 .. Len(r), NEW m \in 1 .. Len(r), h[n] < h[m], ~(n < m)
               PROVE  FALSE
    OBVIOUS
  <2>1. m < n \/ m = n
    OBVIOUS
  <2>2. h[m] \in Nat /\ h[n] \in Nat
    BY <1>1
  <2> QED BY <1>1, <2>1, <2>2
<1>3. \A m \in 1 .. Len(r) : h[m] <= h[Len(r)]
  <2> SUFFICES ASSUME NEW m \in 1 .. Len(r) PROVE h[m] <= h[Len(r)]
    OBVIOUS
  <2>1. Len(r) \in 1 .. Len(r) /\ (m = Len(r) \/ m < Len(r))
    BY <1>1
  <2>2. h[m] \in Nat /\ h[Len(r)] \in Nat
    BY <1>1, <2>1
  <2> QED BY <1>1, <2>1, <2>2
<1>4. \A p \in 1 .. Len(s) : s[p].node # "resume" => s[p].node = "update"
  <2>1. \A p \in 1 .. Len(s) : s[p] \in Frames
    OBVIOUS
  <2> QED BY <2>1 DEF Frames
\* Between two frames of r only update frames have gone.
<1>5. ASSUME NEW m \in 1 .. Len(r), NEW p \in 1 .. Len(s), p < h[m],
             s[p].node = "resume"
      PROVE  \E q \in 1 .. Len(r) : h[q] = p /\ q < m /\ r[q].node = "resume"
  <2>1. p < h[Len(r)]
    <3>1. h[m] \in Nat /\ h[Len(r)] \in Nat /\ p \in Nat /\ h[m] <= h[Len(r)]
      <4>1. Len(r) \in 1 .. Len(r)
        BY <1>1
      <4> QED BY <1>1, <1>3, <4>1
    <3> QED BY <1>5, <3>1
  <2>2. PICK q \in 1 .. Len(r) : h[q] = p
    BY <1>5, <2>1
  <2> QED BY <1>1, <1>2, <1>5, <2>2
<1>6. Chain(r)
  <2> SUFFICES ASSUME NEW n \in 1 .. Len(r), NEW m \in 1 .. Len(r), n < m
               PROVE  /\ IsError(Exp(r[n])) => Exp(r[m]) = Exp(r[n])
                      /\ (\A l \in n + 1 .. m - 1 : r[l].node = "update") => Exp(r[m]) = Pass(r[n])
    BY DEF Chain
  <2>1. h[n] < h[m] /\ h[n] \in 1 .. Len(s) /\ h[m] \in 1 .. Len(s) /\ r[n] = s[h[n]] /\ r[m] = s[h[m]]
    BY <1>1
  <2>2. ASSUME \A l \in n + 1 .. m - 1 : r[l].node = "update"
        PROVE  \A p \in h[n] + 1 .. h[m] - 1 : s[p].node = "update"
    <3> SUFFICES ASSUME NEW p \in h[n] + 1 .. h[m] - 1, s[p].node = "resume" PROVE FALSE
      <4>1. \A p \in h[n] + 1 .. h[m] - 1 : p \in 1 .. Len(s)
        BY <1>1, <2>1
      <4> QED BY <1>4, <4>1
    <3>1. p \in 1 .. Len(s) /\ p < h[m] /\ h[n] < p
      BY <1>1, <2>1
    <3>2. PICK q \in 1 .. Len(r) : h[q] = p /\ q < m /\ r[q].node = "resume"
      BY <1>5, <3>1
    <3>3. n < q
      BY <1>2, <3>1, <3>2
    <3>4. q \in n + 1 .. m - 1
      BY <3>2, <3>3
    <3> QED BY <2>2, <3>2, <3>4
  <2>3. PICK a \in 1 .. Len(s), b \in 1 .. Len(s) : a = h[n] /\ b = h[m]
    BY <2>1
  <2>4. /\ IsError(Exp(s[a])) => Exp(s[b]) = Exp(s[a])
        /\ (\A l \in a + 1 .. b - 1 : s[l].node = "update") => Exp(s[b]) = Pass(s[a])
    <3>1. a < b
      BY <2>1, <2>3
    <3> QED BY <3>1 DEF Chain
  <2> QED BY <2>1, <2>2, <2>3, <2>4
<1>7. Prior(r)
  BY <1>1 DEF Prior
<1>8. ASSUME NEW v, Expected(v, s) PROVE Expected(v, r)
  <2> SUFFICES ASSUME NEW m \in 1 .. Len(r), \A l \in 1 .. m - 1 : r[l].node = "update"
               PROVE  Exp(r[m]) = v
    BY DEF Expected
  <2>1. h[m] \in 1 .. Len(s) /\ r[m] = s[h[m]]
    BY <1>1
  <2>2. \A p \in 1 .. h[m] - 1 : s[p].node = "update"
    <3> SUFFICES ASSUME NEW p \in 1 .. h[m] - 1, s[p].node = "resume" PROVE FALSE
      <4>1. \A p \in 1 .. h[m] - 1 : p \in 1 .. Len(s)
        BY <1>1, <2>1
      <4> QED BY <1>4, <4>1
    <3>1. p \in 1 .. Len(s) /\ p < h[m]
      BY <1>1, <2>1
    <3>2. PICK q \in 1 .. Len(r) : h[q] = p /\ q < m /\ r[q].node = "resume"
      BY <1>5, <3>1
    <3>3. q \in 1 .. m - 1
      BY <3>2
    <3> QED BY <3>2, <3>3
  <2> QED BY <1>8, <2>1, <2>2 DEF Expected
<1> QED BY <1>6, <1>7, <1>8

\* What is left of a stack on which an error is expected, below place c.
LEMMA LeftChain ==
  ASSUME NEW s \in Seq(Frames), NEW c \in 1 .. Len(s), Chain(s), Prior(s)
  PROVE  LET r == SubSeq(s, c + 1, Len(s)) IN
         /\ Chain(r) /\ Prior(r)
         /\ \A v : IsError(v) /\ Expected(v, s) => Exp(s[c]) = v /\ Expected(v, r)
<1> DEFINE r == SubSeq(s, c + 1, Len(s))
<1>1. r \in Seq(Frames) /\ Len(r) = Len(s) - c /\ \A n \in 1 .. Len(s) - c : r[n] = s[n + c]
  BY DropFacts
<1>2. Len(s) \in Nat /\ c \in Nat
  OBVIOUS
<1> HIDE DEF r
<1>3. ASSUME NEW m \in 1 .. Len(r)
      PROVE  m + c \in 1 .. Len(s) /\ r[m] = s[m + c] /\ m \in Nat
  BY <1>1, <1>2
<1>4. Chain(r)
  <2> SUFFICES ASSUME NEW n \in 1 .. Len(r), NEW m \in 1 .. Len(r), n < m
               PROVE  /\ IsError(Exp(r[n])) => Exp(r[m]) = Exp(r[n])
                      /\ (\A l \in n + 1 .. m - 1 : r[l].node = "update") => Exp(r[m]) = Pass(r[n])
    BY DEF Chain
  <2>1. n + c < m + c
    BY <1>2, <1>3
  <2>2. ASSUME \A l \in n + 1 .. m - 1 : r[l].node = "update"
        PROVE  \A l \in (n + c) + 1 .. (m + c) - 1 : s[l].node = "update"
    <3> SUFFICES ASSUME NEW l \in (n + c) + 1 .. (m + c) - 1 PROVE s[l].node = "update"
      OBVIOUS
    <3>1. l - c \in n + 1 .. m - 1 /\ l - c \in 1 .. Len(s) - c /\ (l - c) + c = l
      BY <1>1, <1>2, <1>3
    <3> QED BY <1>1, <2>2, <3>1
  <2> QED BY <1>3, <2>1, <2>2 DEF Chain
<1>5. Prior(r)
  BY <1>3 DEF Prior
<1>6. ASSUME NEW v, IsError(v), Expected(v, s) PROVE Exp(s[c]) = v /\ Expected(v, r)
  <2>1. \A m \in 1 .. Len(s) : Exp(s[m]) = v
    BY <1>6, ErrorDown
  <2> QED BY <1>3, <2>1 DEF Expected
<1> QED BY <1>4, <1>5, <1>6 DEF r

\* The value that a thread in state x works for or has.
Wanted(x) == IF x[1] = "returning" THEN x[2] ELSE Meant[x[2]]

\* A stack as evaluation leaves it, and a thread that works for what its stack waits for.
Good(s) == Chain(s) /\ Prior(s)
Right(x, s) == x[1] \in {"entering", "blocked", "returning"} => Expected(Wanted(x), s)

\* An item is entered.
LEMMA EntryVals ==
  ASSUME NoCircles, code \in Programs, NEW i \in Items, code[i].kind # "function",
         NEW below \in Seq(Frames), Good(below), Expected(Meant[i], below)
  PROVE  Good(EntryStack(i, below)) /\ Right(EntryState(i), EntryStack(i, below))
<1> DEFINE u == Push(Update(i), below)
<1>1. Update(i) \in Frames /\ Update(i).node = "update" /\ Update(i).item = i
  BY DEF Update, Frames
<1>2. Exp(Update(i)) = Meant[i] /\ Pass(Update(i)) = Meant[i]
  BY <1>1 DEF Exp, Pass
<1>3. u \in Seq(Frames) /\ Good(u) /\ Expected(Meant[i], u)
  <2>1. u \in Seq(Frames)
    BY <1>1 DEF Push
  <2> QED BY <1>1, <1>2, <2>1, PushChain DEF Good
<1> HIDE DEF u
<1>4. CASE code[i].kind = "application"
  <2> DEFINE f == Resume(i, 1)
             n == code[i].needs[1]
  <2>1. f \in Frames /\ f.node = "resume" /\ f.item = i /\ f.k = 1
    BY DEF Resume, Frames
  <2>2. Exp(f) = Meant[n] /\ Pass(f) = Meant[i]
    BY <2>1 DEF Exp, Pass
  <2>3. 1 \in 1 .. Len(code[i].needs)
    BY <1>4, CodeFacts
  <2>4. IsError(Meant[n]) => Meant[i] = Meant[n]
    <3>1. \A l \in 1 .. 1 - 1 : FALSE
      OBVIOUS
    <3> QED BY <2>3, <3>1, Means
  <2>5. \A l \in 1 .. f.k - 1 : FALSE
    BY <2>1
  <2>6. EntryState(i) = Blocked(n) /\ EntryStack(i, below) = Push(f, u)
    BY <1>4 DEF EntryState, EntryStack, u
  <2> HIDE DEF f, n
  <2>7. Good(Push(f, u)) /\ Expected(Meant[n], Push(f, u))
    BY <1>3, <2>1, <2>2, <2>4, <2>5, PushChain DEF Good
  <2>8. Right(Blocked(n), Push(f, u))
    BY <2>7 DEF Right, Wanted, Blocked
  <2> QED BY <2>6, <2>7, <2>8
<1>5. CASE code[i].kind # "application"
  <2>1. EntryState(i) = Entering(i) /\ EntryStack(i, below) = u
    BY <1>5 DEF EntryState, EntryStack, u
  <2>2. Right(Entering(i), u)
    BY <1>3 DEF Right, Wanted, Entering
  <2> QED BY <1>3, <2>1, <2>2
<1> QED BY <1>4, <1>5

\* Thread t runs: what the rest of its stack waits for, and what it knows of its needs.
LEMMA RunVals ==
  ASSUME NoCircles, ItemTypes, ThreadTypes, NEW t \in Threads, Bottomed(stack[t]), Runs(t),
         Good(stack[t]), Right(state[t], stack[t])
  PROVE  /\ Good(Rest(t)) /\ Expected(Meant[Item(t)], Rest(t))
         /\ \A l \in 1 .. Done(t) : ~IsError(Meant[Needs(t)[l]])
<1> DEFINE s == stack[t]
<1>1. s \in Seq(Frames) /\ s # <<>> /\ StateOK(state[t])
  BY DEF ThreadTypes, StackOK, Bottomed
<1>2. CASE state[t][1] = "entering"
  <2>1. Rest(t) = s /\ Item(t) = state[t][2] /\ Done(t) = 0
    BY <1>2 DEF Rest, Item, Done
  <2>2. Expected(Meant[state[t][2]], s)
    BY <1>2 DEF Right, Wanted
  <2> QED BY <2>1, <2>2
<1>3. CASE state[t][1] # "entering"
  <2>1. state[t][1] = "returning" /\ Head(s).node = "resume" /\ Head(s) = s[1] /\ s[1] \in Frames
    <3>1. Head(s) = s[1] /\ s[1] \in Frames
      BY <1>1
    <3> QED BY <1>3, <3>1 DEF Runs, Top
  <2>2. Rest(t) = Tail(s) /\ Item(t) = s[1].item /\ Done(t) = s[1].k
    BY <1>3, <2>1 DEF Rest, Below, Item, Done, Top
  <2>3. Expected(state[t][2], s)
    BY <2>1 DEF Right, Wanted
  <2>4. /\ Chain(Tail(s)) /\ Prior(Tail(s)) /\ Expected(Pass(s[1]), Tail(s))
        /\ Exp(s[1]) = state[t][2]
    BY <1>1, <2>3, TailChain DEF Good
  <2>5. Meant[Needs(t)[Done(t)]] = state[t][2]
    BY <2>1, <2>2, <2>4 DEF Exp, Needs
  <2>6. ~IsError(state[t][2])
    <3>1. PICK i \in Items : state[t][2] = Val(i)
      BY <1>1, <2>1, StateForms DEF StateOK
    <3> QED BY <3>1, ValueForms
  <2>7. \A l \in 1 .. Done(t) - 1 : ~IsError(Meant[Needs(t)[l]])
    <3>1. 1 \in 1 .. Len(s)
      BY <1>1
    <3> QED BY <2>1, <2>2, <3>1 DEF Good, Prior, Needs
  <2>8. \A l \in 1 .. Done(t) : l = Done(t) \/ l \in 1 .. Done(t) - 1
    <3>1. Done(t) \in Nat
      BY <2>1, <2>2 DEF Frames
    <3> QED BY <3>1
  <2>9. \A l \in 1 .. Done(t) : ~IsError(Meant[Needs(t)[l]])
    BY <2>5, <2>6, <2>7, <2>8
  <2>10. Pass(s[1]) = Meant[Item(t)]
    BY <2>2 DEF Pass
  <2> QED BY <2>2, <2>4, <2>9, <2>10 DEF Good
<1> QED BY <1>2, <1>3

\* The running thread enters its next need: the stack waits for what that means.
LEMMA PushedVals ==
  ASSUME NoCircles, ItemTypes, ThreadTypes, NEW t \in Threads, Bottomed(stack[t]), Runs(t),
         Good(stack[t]), Right(state[t], stack[t]), Done(t) < Len(Needs(t))
  PROVE  Good(Pushed(t)) /\ Expected(Meant[NextNeed(t)], Pushed(t))
<1> DEFINE i == Item(t)
           d == Done(t) + 1
           s == Rest(t)
<1>1. /\ Good(s) /\ Expected(Meant[i], s)
      /\ \A l \in 1 .. Done(t) : ~IsError(Meant[Needs(t)[l]])
  BY RunVals
<1>2. /\ i \in Items /\ code[i].kind # "function" /\ Len(Needs(t)) \in Nat
      /\ Done(t) \in 0 .. Len(Needs(t)) /\ s \in Seq(Frames)
  BY RunFacts DEF StackOK
<1>3. d \in 1 .. Len(Needs(t)) /\ \A l \in 1 .. d - 1 : ~IsError(Meant[Needs(t)[l]])
  BY <1>1, <1>2
<1>4. code \in Programs
  BY DEF ItemTypes
<1>5. Needs(t) = code[i].needs /\ NextNeed(t) = Needs(t)[d]
  BY DEF Needs, NextNeed
<1>6. CASE d = Len(Needs(t)) /\ code[i].ends = "enter"
  <2>1. Meant[i] = Meant[NextNeed(t)]
    <3> HIDE DEF i, d
    <3> QED BY <1>2, <1>3, <1>4, <1>5, <1>6, EnterMeans
  <2>2. Pushed(t) = s
    BY <1>6 DEF Pushed
  <2> QED BY <1>1, <2>1, <2>2
<1>7. CASE ~(d = Len(Needs(t)) /\ code[i].ends = "enter")
  <2> DEFINE f == Resume(i, d)
  <2>1. Pushed(t) = Push(f, s)
    BY <1>7 DEF Pushed
  <2>2. f \in Frames /\ f.node = "resume" /\ f.item = i /\ f.k = d
    BY <1>2 DEF Resume, Frames
  <2> HIDE DEF f, i, d, s
  <2>3. Exp(f) = Meant[NextNeed(t)] /\ Pass(f) = Meant[i]
    BY <1>5, <2>2 DEF Exp, Pass
  <2>4. IsError(Meant[NextNeed(t)]) => Meant[i] = Meant[NextNeed(t)]
    BY <1>2, <1>3, <1>4, <1>5, Means
  <2>5. \A l \in 1 .. f.k - 1 : ~IsError(Meant[code[f.item].needs[l]])
    BY <1>3, <1>5, <2>2
  <2>6. Good(Push(f, s)) /\ Expected(Meant[NextNeed(t)], Push(f, s))
    BY <1>1, <1>2, <2>2, <2>3, <2>4, <2>5, PushChain DEF Good
  <2> QED BY <2>1, <2>6
<1> QED BY <1>6, <1>7

-----------------------------------------------------------------------------
(* Steps that tell nobody anything *)

\* Thread t is being failed.
Failing(t) == pool.at = "fail" /\ pool.thread = t

\* What items and clients were told is right.
Told ==
  /\ \A i \in Items : dest[i] \in {None, Failure, Meant[i]}
  /\ \A c \in Clients : answer[c] \in {None, Failure, Meant[asked[c]]}

\* What threads will tell the items is right.
Waiting ==
  /\ \A t \in Threads : Good(stack[t])
  /\ \A t \in Threads : Failing(t) \/ Right(state[t], stack[t])
  /\ pool.at = "fail" => pool.err = Failure \/ Expected(pool.err, stack[pool.thread])

\* The inductive invariant for SoundValues.
Vals == Types /\ Told /\ Waiting

\* Code does not change, and so nor does what a stack may wait for.
LEMMA SameMeaning ==
  ASSUME code' = code
  PROVE  /\ \A s : Good(s)' <=> Good(s)
         /\ \A v, s : Expected(v, s)' <=> Expected(v, s)
         /\ \A x, s : Right(x, s)' <=> Right(x, s)
<1>1. \A f : Exp(f)' = Exp(f) /\ Pass(f)' = Pass(f)
  BY DEF Exp, Pass, Meant
<1>2. \A v, s : Expected(v, s)' <=> Expected(v, s)
  BY <1>1 DEF Expected
<1>3. \A s : Chain(s)' <=> Chain(s)
  BY <1>1 DEF Chain
<1>4. \A s : Prior(s)' <=> Prior(s)
  BY DEF Prior, Meant
<1>5. \A x : Wanted(x)' = Wanted(x)
  BY DEF Wanted, Meant
<1> QED BY <1>2, <1>3, <1>4, <1>5 DEF Good, Right

\* What has to be shown of a step.
LEMMA WaitingNext ==
  ASSUME code' = code,
         \A u \in Threads : Good(stack'[u]),
         \A u \in Threads : (pool'.at = "fail" /\ pool'.thread = u) \/ Right(state'[u], stack'[u]),
         pool'.at = "fail" => pool'.err = Failure \/ Expected(pool'.err, stack'[pool'.thread])
  PROVE  Waiting'
<1>1. \A s : Good(s)' <=> Good(s)
  BY SameMeaning
<1>2. \A v, s : Expected(v, s)' <=> Expected(v, s)
  BY SameMeaning
<1>3. \A x, s : Right(x, s)' <=> Right(x, s)
  BY SameMeaning
<1>4. \A u \in Threads : Good(stack[u])'
  BY <1>1
<1>5. \A u \in Threads : Failing(u)' \/ Right(state[u], stack[u])'
  BY <1>3 DEF Failing
<1>6. pool'.at = "fail" => pool'.err = Failure \/ Expected(pool.err, stack[pool.thread])'
  BY <1>2
<1> QED BY <1>4, <1>5, <1>6 DEF Waiting

\* A step that tells nobody anything.
LEMMA ToldNext ==
  ASSUME Told, code' = code, asked' = asked, dest' = dest, answer' = answer
  PROVE  Told'
BY DEF Told, Meant

\* Thread t goes on with state x and stack s.
LEMMA WaitingMove ==
  ASSUME Vals, code' = code, NEW t \in Threads, NEW x, NEW s,
         state' = [state EXCEPT ![t] = x], stack' = [stack EXCEPT ![t] = s],
         Good(s), Right(x, s) \/ (pool'.at = "fail" /\ pool'.thread = t),
         pool.at = "fail" => pool' = pool \/ pool.thread = t,
         pool'.at = "fail" =>
           \/ pool' = pool /\ pool.thread # t
           \/ pool'.thread = t /\ (pool'.err = Failure \/ Expected(pool'.err, s))
  PROVE  Waiting'
<1>1. \A u \in Threads : /\ state'[u] = IF u = t THEN x ELSE state[u]
                         /\ stack'[u] = IF u = t THEN s ELSE stack[u]
  BY DEF Vals, Types, ThreadTypes
<1>2. \A u \in Threads : Good(stack'[u])
  BY <1>1 DEF Vals, Waiting
<1>3. ASSUME NEW u \in Threads
      PROVE  (pool'.at = "fail" /\ pool'.thread = u) \/ Right(state'[u], stack'[u])
  <2>1. CASE u = t
    BY <1>1, <2>1
  <2>2. CASE u # t
    BY <1>1, <2>2 DEF Vals, Waiting, Failing
  <2> QED BY <2>1, <2>2
<1>4. ASSUME pool'.at = "fail" PROVE pool'.err = Failure \/ Expected(pool'.err, stack'[pool'.thread])
  <2>1. CASE pool' = pool /\ pool.thread # t
    <3>1. pool.thread \in Threads
      BY <1>4, <2>1 DEF Vals, Types, Control
    <3> QED BY <1>1, <1>4, <2>1, <3>1 DEF Vals, Waiting
  <2>2. CASE pool'.thread = t
    BY <1>1, <1>4, <2>2
  <2> QED BY <1>4, <2>1, <2>2
<1> QED BY <1>2, <1>3, <1>4, WaitingNext

\* A step that touches neither values nor threads.
LEMMA ValsSame ==
  ASSUME Vals, Types', UNCHANGED <<code, asked, dest, answer, state, stack>>,
         pool.at # "fail", pool'.at # "fail"
  PROVE  Vals'
<1>1. Told'
  BY ToldNext DEF Vals
<1>2. Waiting'
  BY WaitingNext DEF Vals, Waiting, Failing
<1> QED BY <1>1, <1>2 DEF Vals

\* A value that is found is the right one, unless it is a failure.
LEMMA FoundValue ==
  ASSUME NoCircles, Types, Told, NEW i \in Items, ValueNow(i) # None
  PROVE  /\ ValueNow(i) = Failure \/ ValueNow(i) = Meant[i]
         /\ ~IsError(ValueNow(i)) => ValueNow(i) = Meant[i]
<1>1. code[i].kind = "function" <=> type[i] = "whnf"
  BY DEF Types, ItemTypes
<1>2. code[i].kind = "function" => Meant[i] = Val(i)
  BY Means DEF Types, ItemTypes
<1>3. ValueNow(i) = Failure \/ ValueNow(i) = Meant[i]
  BY <1>1, <1>2 DEF ValueNow, Told
<1> QED BY <1>3, ValueForms

\* A new thread works for what its item means.
LEMMA StartVals ==
  ASSUME NoCircles, Vals, code' = code, NEW i \in Items, StartEvaluation(i),
         pool.at = "fail" => pool' = pool, pool'.at = "fail" => pool' = pool
  PROVE  Waiting'
<1>1. /\ i \in Threads /\ life[i] = "unmade" /\ type[i] = "thunk"
      /\ state' = [state EXCEPT ![i] = EntryState(i)]
      /\ stack' = [stack EXCEPT ![i] = EntryStack(i, <<>>)]
  BY DEF StartEvaluation, AllocThread, EnterClosure
<1>2. code \in Programs /\ code[i].kind # "function"
  BY <1>1 DEF Vals, Types, ItemTypes
<1>3. PICK b : b = <<>>
  OBVIOUS
<1>4. b \in Seq(Frames) /\ Good(b) /\ Expected(Meant[i], b)
  BY <1>3, EmptyFacts, NoneExpected DEF Good
<1>5. Good(EntryStack(i, b)) /\ Right(EntryState(i), EntryStack(i, b))
  BY <1>2, <1>4, EntryVals
<1>6. pool.at = "fail" => pool.thread # i
  BY <1>1 DEF Vals, Types, Control
<1> DEFINE x == EntryState(i)
           s == EntryStack(i, b)
<1>7. state' = [state EXCEPT ![i] = x] /\ stack' = [stack EXCEPT ![i] = s] /\ Good(s) /\ Right(x, s)
  BY <1>1, <1>3, <1>5
<1> HIDE DEF x, s
<1> QED BY <1>1, <1>6, <1>7, WaitingMove

\* The steps of the clients preserve Vals.
LEMMA ClientVals ==
  ASSUME NoCircles, Vals, Types', NEW c \in Clients, ClientStep(c)
  PROVE  Vals'
<1>1. /\ UNCHANGED <<code, asked, pool>>
      /\ client \in [Clients -> {"ask", "enqueue", "done"}] /\ asked[c] \in Items
      /\ answer \in [Clients -> Values \cup {None}]
  BY DEF ClientStep, ClientStarts, ClientEnqueues, ClientSees, fixed, Vals, Types, PoolTypes
<1>2. CASE ClientStarts(c)
  <2>1. Told'
    BY <1>1, <1>2, ToldNext DEF ClientStarts, StartEvaluation, EnterClosure, Vals
  <2>2. Waiting'
    BY <1>1, <1>2, StartVals DEF ClientStarts
  <2> QED BY <2>1, <2>2 DEF Vals
<1>3. CASE ClientEnqueues(c) \/ ClientSees(c)
  <2>1. UNCHANGED <<dest, state, stack>>
    BY <1>3 DEF ClientEnqueues, ClientSees
  <2>2. Waiting'
    BY <1>1, <2>1, WaitingNext DEF Vals, Waiting, Failing
  <2>3. answer' = answer \/ answer' = [answer EXCEPT ![c] = Failure] \/ answer' = [answer EXCEPT ![c] = Meant[asked[c]]]
    <3>1. ClientSees(c) => ValueNow(asked[c]) = Failure \/ ValueNow(asked[c]) = Meant[asked[c]]
      BY <1>1, FoundValue DEF ClientSees, Vals
    <3> QED BY <1>3, <3>1 DEF ClientEnqueues, ClientSees
  <2>4. Told'
    <3>1. Meant' = Meant
      BY <1>1 DEF Meant
    <3> QED BY <1>1, <2>1, <2>3, <3>1 DEF Vals, Told
  <2> QED BY <2>2, <2>4 DEF Vals
<1> QED BY <1>2, <1>3 DEF ClientStep

\* So do waking or failing a blocked thread, and starting or queueing what it needs.
LEMMA FoundVals ==
  ASSUME NoCircles, Vals, Types', FindUnblocked \/ FindUnstarted \/ PoolEnqueues
  PROVE  Vals'
<1>1. UNCHANGED <<code, asked, dest, answer>> /\ pool.at # "fail"
  BY DEF FindUnblocked, FindUnstarted, StartEvaluation, EnterClosure, PoolEnqueues, fixed
<1>2. Told'
  BY <1>1, ToldNext DEF Vals
<1>3. CASE FindUnblocked
  <2> DEFINE t == threads[cursor]
             i == state[t][2]
             v == ValueNow(i)
  <2>1. t \in Threads /\ StateOK(state[t])
    BY <1>3, FoundThread DEF FindUnblocked, Vals, Types, ThreadTypes
  <2>2. i \in Items /\ Right(state[t], stack[t]) /\ Good(stack[t]) /\ state[t][1] = "blocked"
    BY <1>1, <1>3, <2>1, StateForms DEF FindUnblocked, StateOK, Vals, Waiting, Failing
  <2>3. Expected(Meant[i], stack[t])
    BY <2>2 DEF Right, Wanted
  <2>4. (v = Failure \/ v = Meant[i]) /\ (~IsError(v) => v = Meant[i])
    BY <1>3, <2>2, FoundValue DEF FindUnblocked, Vals
  <2>5. stack' = [stack EXCEPT ![t] = stack[t]] /\ (state' = state => state' = [state EXCEPT ![t] = state[t]])
    BY <1>3, <2>1 DEF FindUnblocked, Vals, Types, ThreadTypes
  <2>6. "fail" \in Places /\ "turn" \in Places
    BY DEF Places
  <2>7. CASE IsError(v)
    <3>1. pool' = [At("fail", t) EXCEPT !.err = v] /\ state' = [state EXCEPT ![t] = state[t]]
      BY <1>3, <2>5, <2>7 DEF FindUnblocked
    <3>2. pool'.at = "fail" /\ pool'.thread = t /\ pool'.err = v
      BY <3>1 DEF At, Find
    <3>3. pool'.err = Failure \/ Expected(pool'.err, stack[t])
      BY <2>3, <2>4, <3>2
    <3> HIDE DEF t, i, v
    <3>4. Waiting'
      BY <1>1, <2>1, <2>2, <2>5, <3>1, <3>2, <3>3, WaitingMove
    <3> QED BY <1>2, <3>4 DEF Vals
  <2>8. CASE ~IsError(v)
    <3>1. pool' = At("turn", t) /\ state' = [state EXCEPT ![t] = Returning(v)]
      BY <1>3, <2>8 DEF FindUnblocked
    <3>2. pool'.at = "turn"
      BY <3>1 DEF At, Find
    <3> HIDE DEF t, i, v
    <3>3. Right(Returning(v), stack[t])
      BY <2>3, <2>4, <2>8 DEF Right, Wanted, Returning
    <3>4. Waiting'
      BY <1>1, <2>1, <2>2, <2>5, <3>1, <3>2, <3>3, WaitingMove
    <3> QED BY <1>2, <3>4 DEF Vals
  <2> QED BY <2>7, <2>8
<1>4. CASE FindUnstarted
  <2> DEFINE t == threads[cursor]
             i == state[t][2]
  <2>1. t \in Threads /\ StateOK(state[t])
    BY <1>4, FoundThread DEF FindUnstarted, Vals, Types, ThreadTypes
  <2>2. i \in Items
    BY <1>4, <2>1, StateForms DEF FindUnstarted, StateOK
  <2>3. pool'.at # "fail"
    BY <1>4 DEF FindUnstarted, At, Find
  <2>4. Waiting'
    BY <1>1, <1>4, <2>2, <2>3, StartVals DEF FindUnstarted
  <2> QED BY <1>2, <2>4 DEF Vals
<1>5. CASE PoolEnqueues
  <2>1. UNCHANGED <<state, stack>>
    BY <1>5 DEF PoolEnqueues
  <2>2. pool' = At("advance", NoThread) \/ pool' = [At("fail", pool.thread) EXCEPT !.err = Failure]
    BY <1>5 DEF PoolEnqueues
  <2>3. pool'.at # "fail" \/ pool'.err = Failure
    BY <2>2 DEF At, Find
  <2>4. Waiting'
    BY <1>1, <2>1, <2>3, WaitingNext DEF Vals, Waiting, Failing
  <2> QED BY <1>2, <2>4 DEF Vals
<1> QED BY <1>3, <1>4, <1>5

-----------------------------------------------------------------------------
(* Steps that update items *)

\* What holds of the running thread.
LEMMA RunningVals ==
  ASSUME Vals, pool.at \in {"turn", "run"}, NEW t, t = pool.thread
  PROVE  /\ t \in Threads /\ Bottomed(stack[t]) /\ stack[t] \in Seq(Frames) /\ FramesOK(stack[t])
         /\ stack[t] # <<>> /\ StateOK(state[t])
         /\ Good(stack[t]) /\ Right(state[t], stack[t])
         /\ ItemTypes /\ ThreadTypes /\ code \in Programs
<1>1. t \in Threads /\ Bottomed(stack[t]) /\ StackOK(stack[t]) /\ StateOK(state[t])
  BY Running DEF Vals
<1>2. Good(stack[t]) /\ Right(state[t], stack[t])
  BY <1>1 DEF Vals, Waiting, Failing
<1> QED BY <1>1, <1>2 DEF StackOK, Bottomed, Vals, Types, ItemTypes

\* The running thread enters its next need: Vals is preserved.
LEMMA EnterVals ==
  ASSUME NoCircles, Vals, Types', RunThread, Enter(pool.thread)
  PROVE  Vals'
<1> DEFINE t == pool.thread
           i == NextNeed(t)
           s == Pushed(t)
           v == ValueNow(i)
           room == Len(Pushed(t)) < MaxStack
<1>1. /\ t \in Threads /\ Bottomed(stack[t])
      /\ Good(stack[t]) /\ Right(state[t], stack[t])
      /\ ItemTypes /\ ThreadTypes /\ code \in Programs
      /\ pool.at \in {"turn", "run"} /\ Runs(t) /\ Done(t) < Len(Needs(t))
  BY RunningVals DEF RunThread, Enter
<1>2. Good(s) /\ Expected(Meant[i], s)
  BY <1>1, PushedVals
<1>3. i \in Items /\ s \in Seq(Frames)
  BY <1>1, PushedFacts DEF StackOK
<1>4. UNCHANGED <<code, asked, answer, dest>>
  BY DEF RunThread, fixed, Enter, EnterClosure
<1>5. Told'
  BY <1>4, ToldNext DEF Vals
<1>6. pool.at # "fail" /\ code' = code
  BY <1>1, <1>4
<1>7. At("run", t).at # "fail" /\ [At("enqueue", t) EXCEPT !.new = i].at # "fail"
  BY DEF At, Find
<1>8. CASE room /\ EnterClosure(t, i, s) /\ UNCHANGED queue /\ Continue(t)
  <2> DEFINE x == EntryState(i)
             r == EntryStack(i, s)
  <2>1. code[i].kind # "function"
    BY <1>1, <1>3, <1>8 DEF EnterClosure, ItemTypes
  <2>2. Good(r) /\ Right(x, r)
    <3> HIDE DEF i, s
    <3> QED BY <1>1, <1>2, <1>3, <2>1, EntryVals
  <2>3. /\ state' = [state EXCEPT ![t] = x] /\ stack' = [stack EXCEPT ![t] = r]
        /\ pool'.at # "fail"
    BY <1>7, <1>8 DEF EnterClosure, Continue
  <2> HIDE DEF x, r, t
  <2>4. Waiting'
    BY <1>1, <1>6, <2>2, <2>3, WaitingMove
  <2> QED BY <1>5, <2>4 DEF Vals
<1>9. CASE /\ ~room /\ type[i] = "thunk"
           /\ AllocThread(i)
           /\ type' = [type EXCEPT ![i] = "eval"]
           /\ state' = [state EXCEPT ![i] = EntryState(i), ![t] = Blocked(i)]
           /\ stack' = [stack EXCEPT ![i] = EntryStack(i, <<>>), ![t] = s]
           /\ pool' = [At("enqueue", t) EXCEPT !.new = i]
           /\ UNCHANGED dest
  <2> DEFINE x == EntryState(i)
             r == EntryStack(i, <<>>)
  <2>1. i \in Threads
    BY <1>3, ThreadsAreItems
  <2>2. \A u \in Threads :
          /\ state'[u] = IF u = t THEN Blocked(i) ELSE IF u = i THEN x ELSE state[u]
          /\ stack'[u] = IF u = t THEN s ELSE IF u = i THEN r ELSE stack[u]
    BY <1>1, <1>9, <2>1 DEF ThreadTypes
  <2>3. code[i].kind # "function"
    BY <1>1, <1>3, <1>9 DEF ItemTypes
  <2>4. Good(r) /\ Right(x, r)
    <3>1. PICK b : b = <<>>
      OBVIOUS
    <3>2. b \in Seq(Frames) /\ Good(b) /\ Expected(Meant[i], b)
      BY <3>1, EmptyFacts, NoneExpected DEF Good
    <3>3. Good(EntryStack(i, b)) /\ Right(EntryState(i), EntryStack(i, b))
      <4> HIDE DEF i
      <4> QED BY <1>1, <1>3, <2>3, <3>2, EntryVals
    <3> QED BY <3>1, <3>3
  <2>5. Right(Blocked(i), s)
    <3> HIDE DEF i, s
    <3> QED BY <1>2 DEF Right, Wanted, Blocked
  <2>6. pool'.at # "fail"
    BY <1>7, <1>9
  <2> HIDE DEF x, r, t, i, s
  <2>7. \A u \in Threads : Good(stack'[u])
    BY <1>2, <2>2, <2>4 DEF Vals, Waiting
  <2>8. \A u \in Threads : Right(state'[u], stack'[u])
    <3> SUFFICES ASSUME NEW u \in Threads PROVE Right(state'[u], stack'[u])
      OBVIOUS
    <3>1. CASE u = t
      BY <2>2, <2>5, <3>1
    <3>2. CASE u # t /\ u = i
      BY <2>2, <2>4, <3>2
    <3>3. CASE u # t /\ u # i
      BY <1>6, <2>2, <3>3 DEF Vals, Waiting, Failing
    <3> QED BY <3>1, <3>2, <3>3
  <2>9. Waiting'
    BY <1>6, <2>6, <2>7, <2>8, WaitingNext
  <2> QED BY <1>5, <2>9 DEF Vals
<1>10. CASE /\ type[i] = "eval"
            /\ state' = [state EXCEPT ![t] = Blocked(i)]
            /\ stack' = [stack EXCEPT ![t] = s]
            /\ Continue(t)
  <2>1. pool'.at # "fail"
    BY <1>7, <1>10 DEF Continue
  <2> HIDE DEF i, s, t
  <2>2. Right(Blocked(i), s)
    BY <1>2 DEF Right, Wanted, Blocked
  <2>3. Waiting'
    BY <1>1, <1>2, <1>6, <1>10, <2>1, <2>2, WaitingMove
  <2> QED BY <1>5, <2>3 DEF Vals
<1>11. v # None => (v = Failure \/ v = Meant[i]) /\ (~IsError(v) => v = Meant[i])
  BY <1>3, FoundValue DEF Vals
<1>12. CASE /\ v # None /\ ~IsError(v)
            /\ state' = [state EXCEPT ![t] = Returning(v)]
            /\ stack' = [stack EXCEPT ![t] = s]
            /\ Continue(t)
  <2>1. pool'.at # "fail"
    BY <1>7, <1>12 DEF Continue
  <2> HIDE DEF i, s, t, v
  <2>2. Right(Returning(v), s)
    BY <1>2, <1>11, <1>12 DEF Right, Wanted, Returning
  <2>3. Waiting'
    BY <1>1, <1>2, <1>6, <1>12, <2>1, <2>2, WaitingMove
  <2> QED BY <1>5, <2>3 DEF Vals
<1>13. CASE /\ v # None /\ IsError(v)
            /\ pool' = [At("fail", t) EXCEPT !.err = v]
            /\ stack' = [stack EXCEPT ![t] = s]
            /\ UNCHANGED state
  <2>1. pool'.at = "fail" /\ pool'.thread = t /\ pool'.err = v
    BY <1>13 DEF At, Find
  <2>2. state' = [state EXCEPT ![t] = state[t]]
    BY <1>1, <1>13 DEF ThreadTypes
  <2> HIDE DEF i, s, t, v
  <2>3. pool'.err = Failure \/ Expected(pool'.err, s)
    BY <1>2, <1>11, <1>13, <2>1
  <2>4. Waiting'
    BY <1>1, <1>2, <1>6, <1>13, <2>1, <2>2, <2>3, WaitingMove
  <2> QED BY <1>5, <2>4 DEF Vals
<1> QED BY <1>8, <1>9, <1>10, <1>12, <1>13 DEF Enter

\* It comes to the end of an item's code: Vals is preserved.
LEMMA FinishVals ==
  ASSUME NoCircles, Vals, Types', RunThread, Finish(pool.thread)
  PROVE  Vals'
<1> DEFINE t == pool.thread
           i == Item(t)
           s == Rest(t)
<1>1. /\ t \in Threads /\ Bottomed(stack[t])
      /\ Good(stack[t]) /\ Right(state[t], stack[t])
      /\ ItemTypes /\ ThreadTypes /\ code \in Programs
      /\ pool.at \in {"turn", "run"} /\ Runs(t) /\ Done(t) = Len(Needs(t))
  BY RunningVals DEF RunThread, Finish
<1>2. /\ Good(s) /\ Expected(Meant[i], s)
      /\ \A l \in 1 .. Len(code[i].needs) : ~IsError(Meant[code[i].needs[l]])
  BY <1>1, RunVals DEF Needs
<1>3. i \in Items /\ code[i].kind # "function"
  BY <1>1, RunFacts
<1>4. UNCHANGED <<code, asked, answer, dest>>
  BY DEF RunThread, fixed, Finish
<1>5. Told'
  BY <1>4, ToldNext DEF Vals
<1>6. /\ code[i].ends = "yield" => Meant[i] = Val(i)
      /\ code[i].ends = "undef" => Meant[i] = Err(i)
  <2> HIDE DEF i
  <2> QED BY <1>1, <1>2, <1>3, Means
<1>7. stack' = [stack EXCEPT ![t] = s] /\ pool.at # "fail" /\ code' = code
  BY <1>1, <1>4 DEF Finish
<1>8. CASE code[i].ends = "yield" /\ state' = [state EXCEPT ![t] = Returning(Val(i))] /\ Continue(t)
  <2>1. pool'.at # "fail"
    BY <1>8 DEF Continue, At, Find
  <2>2. Right(Returning(Val(i)), s)
    <3> HIDE DEF i, s
    <3> QED BY <1>2, <1>6, <1>8 DEF Right, Wanted, Returning
  <2> HIDE DEF i, s, t
  <2>3. Waiting'
    BY <1>1, <1>2, <1>7, <1>8, <2>1, <2>2, WaitingMove
  <2> QED BY <1>5, <2>3 DEF Vals
<1>9. CASE code[i].ends = "undef" /\ pool' = [At("fail", t) EXCEPT !.err = Err(i)] /\ UNCHANGED state
  <2>1. pool'.at = "fail" /\ pool'.thread = t /\ pool'.err = Err(i)
    BY <1>9 DEF At, Find
  <2>2. state' = [state EXCEPT ![t] = state[t]]
    BY <1>1, <1>9 DEF ThreadTypes
  <2> HIDE DEF i, s, t
  <2>3. pool'.err = Failure \/ Expected(pool'.err, s)
    BY <1>2, <1>6, <1>9, <2>1
  <2>4. Waiting'
    BY <1>1, <1>2, <1>7, <2>1, <2>2, <2>3, WaitingMove
  <2> QED BY <1>5, <2>4 DEF Vals
<1> QED BY <1>8, <1>9 DEF Finish

\* An item gets the value that it means, or a failure.
LEMMA UpdateTold ==
  ASSUME Told, Types, NEW i \in Items, NEW v, v = Failure \/ v = Meant[i], UpdateItem(i, v),
         UNCHANGED <<code, asked, answer>>
  PROVE  Told'
<1>1. Meant' = Meant
  BY DEF Meant
<1>2. \A j \in Items : dest'[j] = IF j = i THEN v ELSE dest[j]
  BY DEF UpdateItem, Types, ItemTypes
<1> QED BY <1>1, <1>2 DEF Told

\* The value that is returned to an update frame is what its item means.
LEMMA ReturnVals ==
  ASSUME NoCircles, Vals, Types', RunThread, ReturnToUpdate(pool.thread)
  PROVE  Vals'
<1> DEFINE t == pool.thread
           i == Item(t)
           v == state[t][2]
           s == Below(t)
           w == stack[t]
<1>1. /\ t \in Threads /\ w \in Seq(Frames) /\ w # <<>> /\ Good(w) /\ Right(state[t], w)
      /\ ThreadTypes /\ pool.at \in {"turn", "run"}
  BY RunningVals DEF RunThread
<1>2. state[t][1] = "returning" /\ Top(t).node = "update"
  BY DEF ReturnToUpdate
<1>3. Top(t) = w[1] /\ s = Tail(w) /\ i = w[1].item /\ w[1] \in Frames /\ w[1].node = "update"
  <2>1. Head(w) = w[1] /\ w[1] \in Frames
    BY <1>1
  <2> QED BY <1>2, <2>1 DEF Top, Below, Item
<1>4. Expected(v, w)
  BY <1>1, <1>2 DEF Right, Wanted
<1>5. Good(s) /\ Exp(w[1]) = v /\ Expected(v, s)
  <2> HIDE DEF w, v
  <2> QED BY <1>1, <1>3, <1>4, TailChain DEF Good
<1>6. v = Meant[i] /\ i \in Items
  BY <1>3, <1>5 DEF Exp, Frames
<1>7. UpdateItem(i, v) /\ stack' = [stack EXCEPT ![t] = s] /\ UNCHANGED <<code, asked, answer, state>>
  BY DEF ReturnToUpdate, RunThread, fixed
<1>8. Told'
  <2> HIDE DEF i, v
  <2> QED BY <1>6, <1>7, UpdateTold DEF Vals
<1>9. state' = [state EXCEPT ![t] = state[t]] /\ pool.at # "fail" /\ pool'.at # "fail"
  BY <1>1, <1>7 DEF ThreadTypes, ReturnToUpdate, At, Find
<1>10. Right(state[t], s)
  BY <1>2, <1>5 DEF Right, Wanted
<1> HIDE DEF t, s
<1>11. Waiting'
  BY <1>1, <1>5, <1>7, <1>9, <1>10, WaitingMove
<1> QED BY <1>8, <1>11 DEF Vals

\* The error for which a thread gives up an item is what that item means, or a failure.
LEMMA FailVals ==
  ASSUME NoCircles, Vals, Types', FailThread
  PROVE  Vals'
<1> DEFINE t == pool.thread
           w == stack[t]
           first == CHOOSE n \in Updates(w) : \A m \in Updates(w) : n <= m
           left == SubSeq(w, first + 1, Len(w))
           s == IF Updates(left) = {} THEN <<>> ELSE left
           i == w[first].item
           v == pool.err
<1>1. t \in Threads /\ Bottomed(w) /\ StackOK(w) /\ pool.at = "fail"
  BY Running DEF FailThread, Vals
<1>2. w \in Seq(Frames) /\ FramesOK(w) /\ Good(w) /\ (v = Failure \/ Expected(v, w)) /\ IsError(v)
  BY <1>1 DEF StackOK, Vals, Waiting, Types, Control
<1>3. /\ first \in 1 .. Len(w) /\ w[first].node = "update" /\ i \in Items
      /\ Updates(left) = {} => left = <<>>
  <2> HIDE DEF t
  <2> QED BY <1>1, <1>2, FailFacts
<1>4. s = left
  BY <1>3
<1>5. Good(left) /\ (v = Failure \/ (Exp(w[first]) = v /\ Expected(v, left)))
  <2> HIDE DEF first, w, v
  <2> QED BY <1>2, <1>3, LeftChain DEF Good
<1>6. v = Failure \/ v = Meant[i]
  BY <1>3, <1>5 DEF Exp
<1>7. /\ UpdateItem(i, v) /\ stack' = [stack EXCEPT ![t] = s]
      /\ UNCHANGED <<code, asked, answer, state>>
      /\ (pool' = At("unlink", t) /\ s = <<>>) \/ pool' = pool
  BY DEF FailThread, fixed
<1>8. Told'
  <2> HIDE DEF i, v
  <2> QED BY <1>3, <1>6, <1>7, UpdateTold DEF Vals
<1>9. state' = [state EXCEPT ![t] = state[t]]
  BY <1>1, <1>7 DEF Vals, Types, ThreadTypes
<1>10. CASE pool' = pool
  <2>1. pool'.at = "fail" /\ pool'.thread = t /\ (pool'.err = Failure \/ Expected(pool'.err, s))
    BY <1>1, <1>4, <1>5, <1>10
  <2>2. Good(s)
    BY <1>4, <1>5
  <2> HIDE DEF t, s
  <2>3. Waiting'
    BY <1>1, <1>7, <1>9, <1>10, <2>1, <2>2, WaitingMove
  <2> QED BY <1>8, <2>3 DEF Vals
<1>11. CASE pool' = At("unlink", t) /\ s = <<>>
  <2>1. pool'.at # "fail"
    BY <1>11 DEF At, Find
  <2>2. Right(state[t], <<>>) /\ Good(<<>>)
    BY NoneExpected DEF Right, Good
  <2>3. stack' = [stack EXCEPT ![t] = <<>>] /\ t = pool.thread
    BY <1>7, <1>11
  <2> HIDE DEF t, s
  <2>4. Waiting'
    BY <1>1, <1>7, <1>9, <2>1, <2>2, <2>3, WaitingMove
  <2> QED BY <1>8, <2>4 DEF Vals
<1> QED BY <1>7, <1>10, <1>11

\* Update frames that a collection drops pass on what they were waiting for.
LEMMA CollectionVals ==
  ASSUME Vals, Types', Collection
  PROVE  Vals'
<1> DEFINE reached == {t \in Threads : life[t] = "active" /\ LiveUpdates(stack[t]) # {}}
<1>1. /\ UNCHANGED <<code, asked, dest, answer, state, pool>> /\ pool.at = "find"
      /\ stack' = StacksAfter(reached)
  BY DEF Collection, fixed
<1>2. \A t \in Threads : stack'[t] = IF t \in reached THEN Consolidate(stack[t])
                     ELSE IF life[t] = "orphan" THEN stack[t] ELSE <<>>
  BY <1>1 DEF StacksAfter
<1>3. ASSUME NEW t \in Threads
      PROVE  Good(stack'[t]) /\ \A v : Expected(v, stack[t]) => Expected(v, stack'[t])
  <2>1. Good(stack[t]) /\ stack[t] \in Seq(Frames)
    BY DEF Vals, Waiting, Types, ThreadTypes, StackOK
  <2>2. CASE t \in reached
    <3> DEFINE s == stack[t]
               r == Consolidate(s)
    <3>1. stack'[t] = r /\ LiveUpdates(s) # {}
      BY <1>2, <2>2
    <3>2. r \in Seq(Frames)
      BY <2>1, <3>1, Consolidated
    <3>3. PICK h : /\ Thins(s, r, h)
                   /\ \A m \in 1 .. Len(s) : s[m].node = "resume" /\ m < h[Len(r)] =>
                        \E n \in 1 .. Len(r) : h[n] = m
      BY <2>1, <3>1, Consolidated
    <3> HIDE DEF r, s
    <3>4. Good(r) /\ \A v : Expected(v, s) => Expected(v, r)
      BY <2>1, <3>2, <3>3, ThinChain DEF Good, s
    <3> QED BY <3>1, <3>4 DEF s
  <2>3. CASE t \notin reached
    BY <1>2, <2>1, <2>3, NoneExpected DEF Good
  <2> QED BY <2>2, <2>3
<1>4. \A t \in Threads : Right(state'[t], stack'[t])
  BY <1>1, <1>3 DEF Vals, Waiting, Failing, Right
<1>5. Waiting'
  BY <1>1, <1>3, <1>4, WaitingNext
<1>6. Told'
  BY <1>1, ToldNext DEF Vals
<1> QED BY <1>5, <1>6 DEF Vals

\* Every step of the evaluator preserves Vals.
LEMMA ValsStep ==
  ASSUME NoCircles, Vals, [EvalNext]_<<queue, eval>>
  PROVE  Vals'
<1>1. Types'
  BY TypesStep DEF Vals
<1>2. CASE UNCHANGED <<code, asked, dest, answer, state, stack>> /\ pool.at # "fail" /\ pool'.at # "fail"
  BY <1>1, <1>2, ValsSame
<1>3. CASE PoolStep
  <2>1. CASE LeavePool \/ FindNothing \/ FindRunnable \/ StopRunning \/ PoolUnlinks \/ Advance
    <3>1. UNCHANGED <<code, asked, dest, answer, state, stack>> /\ pool.at # "fail"
      BY <2>1 DEF LeavePool, FindNothing, FindRunnable, StopRunning, PoolUnlinks, Advance, fixed
    <3>2. \/ pool' = At("left", NoThread) \/ pool' = At("advance", NoThread) \/ pool' = Find
          \/ pool' = At("turn", threads[cursor])
      BY <2>1 DEF LeavePool, FindNothing, FindRunnable, StopRunning, PoolUnlinks, Advance
    <3>3. \A u : /\ At("left", u).at = "left" /\ At("advance", u).at = "advance"
                 /\ At("turn", u).at = "turn" /\ Find.at = "find"
      BY DEF At, Find
    <3>4. pool'.at # "fail"
      BY <3>2, <3>3
    <3> QED BY <1>2, <3>1, <3>4
  <2> QED BY <1>1, <1>3, <2>1, FoundVals, EnterVals, FinishVals, ReturnVals, FailVals DEF PoolStep, RunThread
<1>4. CASE \E c \in Clients : ClientStep(c)
  BY <1>1, <1>4, ClientVals
<1>5. CASE Collection
  BY <1>1, <1>5, CollectionVals
<1>6. CASE Over \/ UNCHANGED <<queue, eval>>
  <2>1. UNCHANGED <<code, asked, dest, answer, state, stack, pool>>
    BY <1>6 DEF Over, eval
  <2>2. Waiting'
    BY <2>1, WaitingNext DEF Vals, Waiting, Failing
  <2>3. Told'
    BY <2>1, ToldNext DEF Vals
  <2> QED BY <1>1, <2>2, <2>3 DEF Vals
<1> QED BY <1>3, <1>4, <1>5, <1>6 DEF EvalNext

\* Vals always holds.
LEMMA ValsAlways ==
  ASSUME NoCircles
  PROVE  EvalSpec => []Vals
<1>1. EvalInit => Vals
  <2> SUFFICES ASSUME EvalInit PROVE Vals
    OBVIOUS
  <2>1. Types
    BY TypesInit, InitInv DEF Types, EvalInit
  <2>2. Told
    BY DEF EvalInit, Told
  <2>3. Waiting
    <3>1. /\ \A t \in Threads : stack[t] = <<>> /\ state[t] = <<"none">>
          /\ pool.at = "find"
      BY DEF EvalInit, Find
    <3>2. \A t \in Threads : Good(stack[t]) /\ Right(state[t], stack[t])
      BY <3>1, NoneExpected DEF Good, Right
    <3> QED BY <3>1, <3>2 DEF Waiting
  <2> QED BY <2>1, <2>2, <2>3 DEF Vals
<1>2. Vals /\ [EvalNext]_<<queue, eval>> => Vals'
  BY ValsStep
<1> QED BY <1>1, <1>2, PTL DEF EvalSpec

\* Whatever the order in which items are evaluated, whoever starts them, however stacks are
\* collected and whoever is refused a slot: an item that has a value has what its code
\* means, or the failure, and a client is told nothing else.
THEOREM SoundValuesAlways ==
  ASSUME NoCircles
  PROVE  EvalSpec => []SoundValues
<1>1. Vals => SoundValues
  BY DEF Vals, Told, SoundValues, Meant
<1> QED BY <1>1, ValsAlways, PTL

-----------------------------------------------------------------------------
(* Failures *)

\* Nobody is told of a failure.
Fortunate ==
  /\ \A i \in Items : dest[i] # Failure
  /\ \A c \in Clients : answer[c] # Failure
  /\ pool.at = "fail" => pool.err # Failure

\* With a slot for every item, no step tells anybody of a failure.
LEMMA FortunateStep ==
  ASSUME RoomForAll, Types, Fortunate, [EvalNext]_<<queue, eval>>
  PROVE  Fortunate'
<1>1. /\ life \in [Threads -> {"unmade", "starting", "orphan", "gone"} \cup InQueue] /\ QueueInv
      /\ dest \in [Items -> Values \cup {None}] /\ answer \in [Clients -> Values \cup {None}]
  BY DEF Types, QueueInv, QueueTypeOK, ItemTypes, PoolTypes
<1>2. \A t \in Threads : ~OutOfThreads(t)
  BY <1>1, RoomLeft, RoomForOne DEF OutOfThreads, QueueInv, QueueTypeOK
<1>3. \A i : Val(i) # Failure /\ Err(i) # Failure
  <2>1. "value" # "failure" /\ "error" # "failure"
    OBVIOUS
  <2>2. \A i : Val(i)[1] = "value" /\ Err(i)[1] = "error" /\ Failure[1] = "failure"
    BY DEF Val, Err, Failure
  <2> QED BY <2>1, <2>2
<1>4. \A i \in Items : ValueNow(i) # Failure
  BY <1>3 DEF ValueNow, Fortunate
<1>5. \A p, t : At(p, t).at = p /\ \A v : /\ [At(p, t) EXCEPT !.err = v].err = v
                                          /\ [At(p, t) EXCEPT !.new = v].at = p
  BY DEF At, Find
<1>0. ASSUME NEW t, NEW v, pool' = [At("fail", t) EXCEPT !.err = v] PROVE pool'.err = v
  BY <1>0 DEF At, Find
<1>6. CASE dest' = dest /\ answer' = answer /\ (pool'.at = "fail" => pool'.err # Failure)
  BY <1>6 DEF Fortunate
<1>7. ASSUME NEW i \in Items, NEW v, v # Failure, UpdateItem(i, v), answer' = answer,
             pool'.at = "fail" => pool'.err # Failure
      PROVE  Fortunate'
  BY <1>1, <1>7 DEF Fortunate, UpdateItem
<1>8. CASE PoolStep
  <2>1. CASE LeavePool \/ FindNothing \/ FindRunnable \/ StopRunning \/ PoolUnlinks \/ Advance
    <3>1. dest' = dest /\ answer' = answer
      BY <2>1 DEF LeavePool, FindNothing, FindRunnable, StopRunning, PoolUnlinks, Advance, fixed
    <3>2. \/ pool' = At("left", NoThread) \/ pool' = At("advance", NoThread) \/ pool' = Find
          \/ pool' = At("turn", threads[cursor])
      BY <2>1 DEF LeavePool, FindNothing, FindRunnable, StopRunning, PoolUnlinks, Advance
    <3>3. Find.at = "find"
      BY DEF Find
    <3>4. pool'.at # "fail"
      BY <1>5, <3>2, <3>3
    <3> QED BY <1>6, <3>1, <3>4
  <2>2. CASE FindUnblocked
    <3> DEFINE t == threads[cursor]
               v == ValueNow(state[t][2])
    <3>1. t \in Threads /\ StateOK(state[t]) /\ state[t][1] = "blocked"
      BY <2>2, FoundThread DEF FindUnblocked, Types, ThreadTypes
    <3>2. v # Failure
      BY <1>4, <3>1, StateForms DEF StateOK
    <3>3. pool' = [At("fail", t) EXCEPT !.err = v] \/ pool' = At("turn", t)
      BY <2>2 DEF FindUnblocked
    <3>4. pool'.at = "fail" => pool'.err # Failure
      <4> HIDE DEF t, v
      <4> QED BY <1>0, <1>5, <3>2, <3>3
    <3> QED BY <1>6, <2>2, <3>4 DEF FindUnblocked
  <2>3. CASE FindUnstarted
    <3>1. pool' = [At("enqueue", threads[cursor]) EXCEPT !.new = state[threads[cursor]][2]]
      BY <2>3 DEF FindUnstarted
    <3>2. pool'.at # "fail"
      BY <1>5, <3>1
    <3> QED BY <1>6, <2>3, <3>2 DEF FindUnstarted, StartEvaluation, EnterClosure
  <2>4. CASE PoolEnqueues
    <3>1. pool.new \in Threads
      BY <2>4 DEF PoolEnqueues, Types, Control
    <3>2. pool' = At("advance", NoThread)
      BY <1>2, <2>4, <3>1 DEF PoolEnqueues
    <3>3. pool'.at # "fail"
      BY <1>5, <3>2
    <3> QED BY <1>6, <2>4, <3>3 DEF PoolEnqueues
  <2>5. CASE RunThread
    <3> DEFINE t == pool.thread
    <3>1. t \in Threads /\ Bottomed(stack[t]) /\ StackOK(stack[t]) /\ StateOK(state[t])
          /\ answer' = answer
      BY <2>5, Running DEF RunThread
    <3>2. CASE Enter(t)
      <4>1. NextNeed(t) \in Items
        BY <3>1, <3>2, PushedFacts DEF Enter, Types
      <4>2. \/ pool' = At("run", t) \/ pool' = [At("enqueue", t) EXCEPT !.new = NextNeed(t)]
            \/ pool' = [At("fail", t) EXCEPT !.err = ValueNow(NextNeed(t))]
        BY <3>2 DEF Enter, Continue
      <4>3. pool'.at = "fail" => pool'.err # Failure
        <5> DEFINE j == NextNeed(t)
        <5>1. \/ pool' = At("run", t) \/ pool' = [At("enqueue", t) EXCEPT !.new = j]
              \/ pool' = [At("fail", t) EXCEPT !.err = ValueNow(j)]
          BY <4>2
        <5>2. ValueNow(j) # Failure
          BY <1>4, <4>1
        <5> HIDE DEF t, j
        <5>3. pool' = [At("enqueue", t) EXCEPT !.new = j] => pool'.at # "fail"
          BY <1>5
        <5>4. pool' = At("run", t) => pool'.at # "fail"
          BY <1>5
        <5> QED BY <1>0, <5>1, <5>2, <5>3, <5>4
      <4> QED BY <1>6, <3>1, <3>2, <4>3 DEF Enter, EnterClosure
    <3>3. CASE Finish(t)
      <4>1. pool' = At("run", t) \/ pool' = [At("fail", t) EXCEPT !.err = Err(Item(t))]
        BY <3>3 DEF Finish, Continue
      <4>2. pool'.at = "fail" => pool'.err # Failure
        <5> HIDE DEF t
        <5> QED BY <1>0, <1>3, <1>5, <4>1
      <4> QED BY <1>6, <3>1, <3>3, <4>2 DEF Finish
    <3>4. CASE ReturnToUpdate(t)
      <4>1. Item(t) = Top(t).item /\ Top(t) \in Frames
        BY <3>1, <3>4, TopGone DEF ReturnToUpdate, Item, Top, StackOK
      <4>2. Item(t) \in Items
        BY <4>1 DEF Frames
      <4>3. state[t][2] # Failure
        <5>1. PICK i \in Items : state[t][2] = Val(i)
          BY <3>1, <3>4, StateForms DEF ReturnToUpdate, StateOK
        <5> QED BY <1>3, <5>1
      <4>4. UpdateItem(Item(t), state[t][2]) /\ (pool' = At("unlink", t) \/ pool' = At("turn", t))
        BY <3>4 DEF ReturnToUpdate
      <4>5. pool'.at # "fail"
        BY <1>5, <4>4
      <4> HIDE DEF t
      <4> QED BY <1>7, <3>1, <4>2, <4>3, <4>4, <4>5
    <3> QED BY <2>5, <3>2, <3>3, <3>4 DEF RunThread
  <2>6. CASE FailThread
    <3> DEFINE t == pool.thread
               w == stack[t]
               first == CHOOSE n \in Updates(w) : \A m \in Updates(w) : n <= m
               i == w[first].item
    <3>1. Bottomed(w) /\ w \in Seq(Frames) /\ FramesOK(w)
      BY <2>6, Running DEF FailThread, StackOK
    <3>2. i \in Items
      <4> HIDE DEF w
      <4> QED BY <3>1, FailFacts
    <3>3. pool.at = "fail" /\ UpdateItem(i, pool.err) /\ answer' = answer
          /\ (pool' = At("unlink", t) \/ pool' = pool)
      BY <2>6 DEF FailThread
    <3>4. pool.err # Failure
      BY <3>3 DEF Fortunate
    <3>5. pool'.at = "fail" => pool'.err # Failure
      BY <1>5, <3>3, <3>4
    <3> HIDE DEF i
    <3> QED BY <1>7, <3>2, <3>3, <3>4, <3>5
  <2> QED BY <1>8, <2>1, <2>2, <2>3, <2>4, <2>5, <2>6 DEF PoolStep
<1>9. ASSUME NEW c \in Clients, ClientStep(c) PROVE Fortunate'
  <2>1. asked[c] \in Threads /\ asked[c] \in Items
    BY ThreadsAreItems DEF Types, PoolTypes
  <2>2. dest' = dest /\ pool' = pool
    BY <1>9 DEF ClientStep, ClientStarts, ClientEnqueues, ClientSees, StartEvaluation, EnterClosure
  <2>3. answer' = answer \/ answer' = [answer EXCEPT ![c] = ValueNow(asked[c])]
    BY <1>2, <1>9, <2>1 DEF ClientStep, ClientStarts, ClientEnqueues, ClientSees
  <2> QED BY <1>1, <1>4, <2>1, <2>2, <2>3 DEF Fortunate
<1>10. CASE Collection \/ Over \/ UNCHANGED <<queue, eval>>
  BY <1>10, <1>6 DEF Collection, Over, eval, Fortunate
<1> QED BY <1>8, <1>9, <1>10 DEF EvalNext

\* Nobody is ever told of one, then.
LEMMA FortunateAlways ==
  ASSUME RoomForAll
  PROVE  EvalSpec => []Fortunate
<1>1. EvalInit => Fortunate
  BY ValueForms DEF EvalInit, Fortunate, Find
<1>2. Types /\ Fortunate /\ [EvalNext]_<<queue, eval>> => Fortunate'
  BY FortunateStep
<1> QED BY <1>1, <1>2, TypesAlways, PTL DEF EvalSpec

\* The abstract specification means the same by the code.
LEMMA SameLazy ==
  /\ Lazy!None = None
  /\ \A i : Lazy!Val(i) = Val(i)
  /\ Lazy!Meaning(code) = Meaning(code)
<1>1. Lazy!None = None /\ \A i : Lazy!Val(i) = Val(i)
  BY DEF Lazy!None, None, Lazy!Val, Val
<1>2. \A c, m, i : Lazy!MeaningFrom(c, m, i) = MeaningFrom(c, m, i)
  BY DEF Lazy!MeaningFrom, MeaningFrom, Lazy!Val, Val, Lazy!Err, Err, Lazy!IsError, IsError
<1>3. Lazy!Meaning(code) = Meaning(code)
  BY <1>2 DEF Lazy!Meaning, Meaning
<1> QED BY <1>1, <1>3

-----------------------------------------------------------------------------
(* The refinement *)

\* A step that updates no item and answers nobody is a stuttering step of LazyHeap.
LEMMA KnownSame ==
  ASSUME Types, UNCHANGED <<code, asked, dest, answer>>,
         \A i \in Items : type'[i] = type[i] \/ (type[i] # "whnf" /\ type'[i] # "whnf")
  PROVE  UNCHANGED Lazy!vars
<1>1. Known' = Known
  BY DEF Known, ValueNow
<1> QED BY <1>1 DEF Lazy!vars

\* UpdateItem of an item under evaluation is Evaluate.
LEMMA UpdateEvaluates ==
  ASSUME Types, Vals', Fortunate', NEW i \in Items, NEW v, type[i] = "eval", UpdateItem(i, v),
         UNCHANGED <<code, asked, answer>>
  PROVE  Lazy!Evaluate(i)
<1>1. /\ \A j \in Items : dest'[j] = IF j = i THEN v ELSE dest[j]
      /\ \A j \in Items : type'[j] = IF j = i THEN "indirection" ELSE type[j]
  BY DEF UpdateItem, Types, ItemTypes
<1>2. Meant' = Meant
  BY DEF Meant
<1>3. v \in {None, Failure, Meant[i]}
  BY <1>1, <1>2 DEF Vals, Told
<1>4. v # None /\ v # Failure
  BY <1>1 DEF Vals, Types, ItemTypes, Fortunate
<1>5. v = Meant[i]
  BY <1>3, <1>4
<1>6. dest[i] = None
  BY DEF Types, ItemTypes
<1>7. Known[i] = None
  BY <1>6 DEF Known, ValueNow
<1>8. Known' = [Known EXCEPT ![i] = v]
  BY <1>1 DEF Known, ValueNow
<1>9. Lazy!Meaning(code)[i] = v /\ Lazy!None = None
  BY <1>5, SameLazy DEF Meant
<1> QED BY <1>7, <1>8, <1>9 DEF Lazy!Evaluate

\* An item that is entered had no value, and has none yet.
LEMMA ThunkStarts ==
  ASSUME Types, NEW i \in Items, type[i] = "thunk", type' = [type EXCEPT ![i] = "eval"]
  PROVE  \A j \in Items : type'[j] = type[j] \/ (type[j] # "whnf" /\ type'[j] # "whnf")
<1>1. \A j \in Items : type'[j] = IF j = i THEN "eval" ELSE type[j]
  BY DEF Types, ItemTypes
<1> QED BY <1>1

\* Starting a thread is a stuttering step.
LEMMA StartKnows ==
  ASSUME Types, NEW i \in Items, StartEvaluation(i), UNCHANGED <<code, asked, answer>>
  PROVE  UNCHANGED Lazy!vars
<1>1. type[i] = "thunk" /\ type' = [type EXCEPT ![i] = "eval"] /\ dest' = dest
  BY DEF StartEvaluation, EnterClosure
<1>2. \A j \in Items : type'[j] = type[j] \/ (type[j] # "whnf" /\ type'[j] # "whnf")
  BY <1>1, ThunkStarts
<1> QED BY <1>1, <1>2, KnownSame

\* So is entering the next need.
LEMMA EnterKnows ==
  ASSUME Types, RunThread, Enter(pool.thread)
  PROVE  UNCHANGED Lazy!vars
<1> DEFINE t == pool.thread
           i == NextNeed(t)
<1>1. i \in Items
  <2>1. t \in Threads /\ Bottomed(stack[t]) /\ StackOK(stack[t]) /\ StateOK(state[t])
    BY Running DEF RunThread
  <2> QED BY <2>1, PushedFacts DEF Enter, Types
<1>2. UNCHANGED <<code, asked, dest, answer>>
  BY DEF Enter, EnterClosure, RunThread, fixed
<1>3. type' = type \/ (type[i] = "thunk" /\ type' = [type EXCEPT ![i] = "eval"])
  BY DEF Enter, EnterClosure
<1>4. \A j \in Items : type'[j] = type[j] \/ (type[j] # "whnf" /\ type'[j] # "whnf")
  <2> HIDE DEF i
  <2> QED BY <1>1, <1>3, ThunkStarts
<1> QED BY <1>2, <1>4, KnownSame

\* Returning to an update frame evaluates its item.
LEMMA ReturnKnows ==
  ASSUME Evals, Vals', Fortunate', RunThread, ReturnToUpdate(pool.thread)
  PROVE  \E i \in Items : Lazy!Evaluate(i)
<1> DEFINE t == pool.thread
           i == Item(t)
<1>1. t \in Threads /\ Bottomed(stack[t]) /\ StackOK(stack[t])
  BY Running DEF RunThread, Evals
<1>2. state[t][1] = "returning" /\ Top(t).node = "update"
  BY DEF ReturnToUpdate
<1>3. i = stack[t][1].item /\ stack[t][1] \in Frames /\ stack[t][1].node = "update"
  BY <1>1, <1>2, TopGone DEF Item, Top, StackOK
<1>4. i \in ItemsIn(stack[t])
  BY <1>1, <1>3, TopGone DEF StackOK
<1>5. i \in Items /\ type[i] = "eval"
  BY <1>1, <1>3, <1>4 DEF Frames, Evals, Exclusive
<1>6. UpdateItem(i, state[t][2]) /\ UNCHANGED <<code, asked, answer>> /\ Types
  BY DEF ReturnToUpdate, RunThread, fixed, Evals
<1>7. Lazy!Evaluate(i)
  <2> HIDE DEF i
  <2> QED BY <1>5, <1>6, UpdateEvaluates
<1> QED BY <1>5, <1>7

\* So does giving up an item for an error.
LEMMA FailKnows ==
  ASSUME Evals, Vals', Fortunate', FailThread
  PROVE  \E i \in Items : Lazy!Evaluate(i)
<1> DEFINE t == pool.thread
           w == stack[t]
           first == CHOOSE n \in Updates(w) : \A m \in Updates(w) : n <= m
           i == w[first].item
<1>1. t \in Threads /\ Bottomed(w) /\ StackOK(w)
  BY Running DEF FailThread, Evals
<1>2. i \in Items /\ i \in ItemsIn(w)
  <2> HIDE DEF w
  <2> QED BY <1>1, FailFacts DEF StackOK
<1>3. type[i] = "eval"
  BY <1>1, <1>2 DEF Evals, Exclusive
<1>4. UpdateItem(i, pool.err) /\ UNCHANGED <<code, asked, answer>> /\ Types
  BY DEF FailThread, fixed, Evals
<1>5. Lazy!Evaluate(i)
  <2> HIDE DEF i
  <2> QED BY <1>2, <1>3, <1>4, UpdateEvaluates
<1> QED BY <1>2, <1>5

\* What a client does is Answer, or nothing.
LEMMA ClientKnows ==
  ASSUME RoomForAll, Types, NEW c \in Clients, ClientStep(c)
  PROVE  Lazy!Answer(c) \/ UNCHANGED Lazy!vars
<1>1. asked[c] \in Threads /\ asked[c] \in Items /\ QueueInv
  BY ThreadsAreItems DEF Types, PoolTypes
<1>2. CASE ClientStarts(c)
  BY <1>1, <1>2, StartKnows DEF ClientStarts, fixed
<1>3. CASE ClientEnqueues(c)
  <2>1. ~OutOfThreads(asked[c])
    BY <1>1, RoomLeft, RoomForOne DEF OutOfThreads, QueueInv, QueueTypeOK
  <2>2. UNCHANGED <<code, asked, type, dest, answer>>
    BY <1>3, <2>1 DEF ClientEnqueues, fixed
  <2> QED BY <2>2, KnownSame
<1>4. CASE ClientSees(c)
  <2>1. UNCHANGED <<code, asked, type, dest>> /\ answer' = [answer EXCEPT ![c] = Known[asked[c]]]
    BY <1>1, <1>4 DEF ClientSees, fixed, Known
  <2>2. Known' = Known
    BY <2>1 DEF Known, ValueNow
  <2>3. Known[asked[c]] # None
    BY <1>1, <1>4 DEF ClientSees, Known
  <2>4. client[c] # "done"
    BY <1>4 DEF ClientSees
  <2>5. answer[c] = None
    BY <2>4 DEF Types, PoolTypes
  <2> QED BY <2>1, <2>2, <2>3, <2>5, SameLazy DEF Lazy!Answer
<1> QED BY <1>2, <1>3, <1>4 DEF ClientStep

\* Every step of the evaluator is a step of LazyHeap, or stutters.
LEMMA LazyStep ==
  ASSUME RoomForAll, Evals, Vals', Fortunate', [EvalNext]_<<queue, eval>>
  PROVE  [Lazy!Next]_(Lazy!vars)
<1>0. Types
  BY DEF Evals
<1>1. CASE PoolStep
  <2>1. CASE \/ LeavePool \/ FindNothing \/ FindRunnable \/ FindUnblocked \/ PoolEnqueues
             \/ StopRunning \/ PoolUnlinks \/ Advance
    <3>1. UNCHANGED <<code, asked, type, dest, answer>>
      BY <2>1 DEF LeavePool, FindNothing, FindRunnable, FindUnblocked, PoolEnqueues,
           StopRunning, PoolUnlinks, Advance, fixed
    <3> QED BY <1>0, <3>1, KnownSame
  <2>2. CASE FindUnstarted
    <3> DEFINE t == threads[cursor]
               i == state[t][2]
    <3>1. t \in Threads /\ StateOK(state[t]) /\ state[t][1] = "blocked"
      BY <1>0, <2>2, FoundThread DEF FindUnstarted, Types, ThreadTypes
    <3>2. i \in Items
      BY <3>1, StateForms DEF StateOK
    <3>3. StartEvaluation(i) /\ UNCHANGED <<code, asked, answer>>
      BY <2>2 DEF FindUnstarted, fixed
    <3> HIDE DEF i
    <3> QED BY <1>0, <3>2, <3>3, StartKnows
  <2>3. CASE RunThread
    <3>1. CASE Finish(pool.thread)
      <4>1. UNCHANGED <<code, asked, type, dest, answer>>
        BY <2>3, <3>1 DEF RunThread, Finish, fixed
      <4> QED BY <1>0, <4>1, KnownSame
    <3>2. Enter(pool.thread) \/ Finish(pool.thread) \/ ReturnToUpdate(pool.thread)
      BY <2>3 DEF RunThread
    <3> QED BY <1>0, <2>3, <3>1, <3>2, EnterKnows, ReturnKnows DEF Lazy!Next
  <2>4. CASE FailThread
    BY <2>4, FailKnows DEF Lazy!Next
  <2> QED BY <1>1, <2>1, <2>2, <2>3, <2>4 DEF PoolStep
<1>2. ASSUME NEW c \in Clients, ClientStep(c) PROVE [Lazy!Next]_(Lazy!vars)
  BY <1>0, <1>2, ClientKnows DEF Lazy!Next
<1>3. CASE Collection \/ Over \/ UNCHANGED <<queue, eval>>
  <2>1. UNCHANGED <<code, asked, type, dest, answer>>
    BY <1>3 DEF Collection, Over, eval, fixed
  <2> QED BY <1>0, <2>1, KnownSame
<1> QED BY <1>1, <1>2, <1>3 DEF EvalNext

\* The evaluator implements call by need, when no item needs itself and there is a slot
\* for every item: threads, turns, stacks and collections cannot be seen from outside.
THEOREM CallByNeedHolds ==
  ASSUME NoCircles, RoomForAll
  PROVE  EvalSpec => CallByNeed
<1>1. EvalInit => Lazy!Init
  <2> SUFFICES ASSUME EvalInit PROVE Lazy!Init
    OBVIOUS
  <2>1. Known = [i \in Items |-> IF code[i].kind = "function" THEN Val(i) ELSE None]
    BY DEF EvalInit, Known, ValueNow
  <2>2. \A i : Lazy!Val(i) = Val(i)
    BY SameLazy
  <2>3. answer = [c \in Clients |-> None]
    BY DEF EvalInit
  <2> QED BY <2>1, <2>2, <2>3, SameLazy DEF Lazy!Init
<1>2. Evals /\ Vals' /\ Fortunate' /\ [EvalNext]_<<queue, eval>> => [Lazy!Next]_(Lazy!vars)
  BY LazyStep
<1>3. EvalSpec => []Evals /\ []Vals /\ []Fortunate
  BY EvalsAlways, ValsAlways, FortunateAlways
<1> QED BY <1>1, <1>2, <1>3, PTL DEF EvalSpec, CallByNeed, Lazy!Spec
=============================================================================

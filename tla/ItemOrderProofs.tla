--------------------------- MODULE ItemOrderProofs ---------------------------
(***************************************************************************)
(* The order of items: the algorithm keeps its invariant, and so the groups *)
(* it makes are what ItemGroups promises, for every program and every size *)
(* of the stacks.                                                          *)
(*                                                                         *)
(* The path is the stack of calls.  The maybes cut the stack of items into *)
(* segments; each segment is strongly connected at every step, and no edge *)
(* that has been followed leads from a segment into a lower one.  An edge  *)
(* from the top back into a lower segment makes one segment of it and all  *)
(* above it (MergeStrong), and a call that ends as the top maybe makes its *)
(* segment a group (PopFacts).                                             *)
(***************************************************************************)
EXTENDS ItemLoader, WellFoundedInduction, SequenceTheorems, TLAPS

-----------------------------------------------------------------------------
(* The invariant of the sort *)

\* What the stack of frames is made of.
Frames == [item : Items, left : Seq(Items)]

\* What the sort takes an item to need.
Needed(x) == ToSet(Edges(Item(x)))

\* The items without a group that have a number, and those whose calls are not over.
Active == ToSet(unassigned)
OnPath == {frames[k].item : k \in DOMAIN frames}

\* What the file is sorted for; the first of it is the entry of a document.
TheRoots == ToSet(RootsOf(program.files[file]))
Entry == Head(RootsOf(program.files[file]))

\* The types of the state.
SortTypes ==
  /\ program \in Programs
  /\ file \in 0 .. Len(program.files)
  /\ file # 0 => table = program.files[file].table
  /\ sorting \in BOOLEAN
  /\ roots \in Seq(Items) /\ frames \in Seq(Frames)
  /\ counter \in Nat
  /\ \A x \in DOMAIN preorders : x \in Items /\ preorders[x] \in Nat /\ preorders[x] < counter
  /\ unassigned \in Seq(Items) /\ Len(unassigned) <= StackCapacity
  /\ maybe \in Seq(Items)
  /\ sccs \subseteq Items /\ groups \in Seq(Seq(Items))

\* What is empty between two files, and between two roots.
Idle ==
  /\ sorting => file # 0
  /\ ~sorting => roots = <<>> /\ frames = <<>>
  /\ frames = <<>> => unassigned = <<>> /\ maybe = <<>>

\* The calls: each item needs the next one, and they have numbers in their order.
Path ==
  /\ \A k \in DOMAIN frames :
       frames[k].item \in Active /\ ToSet(frames[k].left) \subseteq Needed(frames[k].item)
  /\ \A k \in DOMAIN frames : k + 1 \in DOMAIN frames =>
       frames[k + 1].item \in Needed(frames[k].item)
  /\ \A k, l \in DOMAIN frames : k < l => preorders[frames[k].item] < preorders[frames[l].item]

\* Both stacks are in the order of the numbers, and all that has a number and no group is on
\* the first one.  The maybes are items of the path, and the lowest items are the same.
Stacks ==
  /\ Active = DOMAIN preorders \ sccs
  /\ \A x \in Active : Named(x)
  /\ \A k, l \in DOMAIN unassigned : k < l => preorders[unassigned[k]] < preorders[unassigned[l]]
  /\ \A k, l \in DOMAIN maybe : k < l => preorders[maybe[k]] < preorders[maybe[l]]
  /\ ToSet(maybe) \subseteq OnPath
  /\ unassigned # <<>> => maybe # <<>> /\ maybe[1] = unassigned[1]

\* An edge of an item on the stack is left to do in its frame, or leads to an item that has
\* a group, or to one on the stack with no maybe between the two.
Followed ==
  \A x \in Active : \A y \in Needed(x) :
    \/ y \in sccs
    \/ y \in Active /\ \A m \in ToSet(maybe) : preorders[m] <= preorders[x] => preorders[m] <= preorders[y]
    \/ \E k \in DOMAIN frames : frames[k].item = x /\ y \in ToSet(frames[k].left)

\* The items of the stack from the j-th maybe up to the next one.
Segment(j) == {x \in Active : /\ preorders[maybe[j]] <= preorders[x]
                              /\ j + 1 \in DOMAIN maybe => preorders[x] < preorders[maybe[j + 1]]}

\* The items of a set all need one another, however far: no part of it is closed.
Strong(S) == \A T \in SUBSET S : T = {} \/ T = S \/ \E x \in T : Needed(x) \cap (S \ T) # {}

\* What the algorithm rests on: a segment is always strongly connected.
Segments == \A j \in DOMAIN maybe : Strong(Segment(j))

\* The groups so far: disjoint, of items of the table, without an item twice, no larger than
\* the stack, after all that they need, and strongly connected.
Grouping ==
  /\ \A x \in sccs : \E k \in DOMAIN groups : x \in ToSet(groups[k])
  /\ \A k \in DOMAIN groups :
       /\ Len(groups[k]) \in 1 .. StackCapacity
       /\ \A p, q \in DOMAIN groups[k] : groups[k][p] = groups[k][q] => p = q
       /\ Strong(ToSet(groups[k]))
       /\ \A x \in ToSet(groups[k]) :
            /\ x \in sccs /\ Named(x)
            /\ \A y \in Needed(x) : \E l \in 1 .. k : y \in ToSet(groups[l])
  /\ \A k, l \in DOMAIN groups : k # l => ToSet(groups[k]) \cap ToSet(groups[l]) = {}

\* Every root of the file is waiting, has a group or is on the stack.
RootsDone ==
  file # 0 => /\ ToSet(roots) \subseteq TheRoots
              /\ TheRoots \subseteq ToSet(roots) \cup sccs \cup Active

\* A set with a root of a file of this table in it.
RootOf(S) == \E f \in 1 .. file :
  program.files[f].table = table /\ S \cap ToSet(RootsOf(program.files[f])) # {}

\* Every group is there for a root, or for an item that needs it.
Asked ==
  /\ frames # <<>> => frames[1].item \in TheRoots
  /\ \A k \in DOMAIN groups :
       \/ RootOf(ToSet(groups[k]))
       \/ \E x \in Active : Needed(x) \cap ToSet(groups[k]) # {}
       \/ \E l \in DOMAIN groups : k < l /\ \E x \in ToSet(groups[l]) : Needed(x) \cap ToSet(groups[k]) # {}

\* A document has one root, and its group is the last.
DocumentSort ==
  file # 0 /\ program.files[file].type = "document" =>
    \/ sorting /\ frames = <<>> /\ roots = <<Entry>> /\ groups = <<>>
    \/ sorting /\ frames # <<>> /\ roots = <<>> /\ frames[1].item = Entry
    \/ frames = <<>> /\ roots = <<>> /\ groups # <<>> /\ Entry \in ToSet(Last(groups))

\* The inductive invariant of the sort.
SortInv ==
  Running => /\ SortTypes /\ Idle /\ Path /\ Stacks /\ Followed /\ Segments /\ Grouping
             /\ RootsDone /\ Asked /\ DocumentSort

-----------------------------------------------------------------------------
(* Numbers and sequences *)

\* A set of numbers has a least one.
LEMMA LeastNat ==
  ASSUME NEW S \in SUBSET Nat, S # {}
  PROVE  \E n \in S : \A m \in S : n <= m
<1>1. IsWellFoundedOn(OpToRel(<,Nat), Nat)
  BY NatLessThanWellFounded
<1>2. PICK x \in S : \A y \in S : ~ (<<y, x>> \in OpToRel(<,Nat))
  BY <1>1, WFMin
<1>3. \A y \in S : ~(y < x)
  BY <1>2 DEF OpToRel
<1>4. \A y \in S : x <= y
  <2> TAKE y \in S
  <2>1. x \in Nat /\ y \in Nat /\ ~(y < x)
    BY <1>3
  <2> QED BY <2>1
<1> QED BY <1>4

\* A bounded set of numbers has a greatest one, and Max finds it.
LEMMA MaxFacts ==
  ASSUME NEW S \in SUBSET Nat, S # {}, NEW b \in Nat, \A n \in S : n <= b
  PROVE  Max(S) \in S /\ \A n \in S : n <= Max(S)
<1>1. PICK D : D = {b - n : n \in S}
  OBVIOUS
<1>2. D \in SUBSET Nat /\ D # {}
  <2>1. \A n \in S : b - n \in Nat
    BY SMT
  <2> QED BY <1>1, <2>1
<1>3. PICK d \in D : \A m \in D : d <= m
  BY <1>2, LeastNat
<1>4. PICK x \in S : d = b - x
  BY <1>1, <1>3
<1>5. \A n \in S : n <= x
  <2> TAKE n \in S
  <2>1. b - n \in D /\ b - n \in Nat
    BY <1>1, <1>2
  <2>2. d <= b - n
    BY <1>3, <2>1
  <2> QED BY <1>4, <2>2
<1>6. \E y \in S : \A n \in S : y >= n
  BY <1>5
<1>7. Max(S) \in S /\ \A n \in S : Max(S) >= n
  BY <1>6, Zenon DEF Max
<1>8. \A n \in S : n <= Max(S)
  <2> TAKE n \in S
  <2>1. PICK m : m = Max(S)
    OBVIOUS
  <2>2. m \in Nat /\ n \in Nat /\ m >= n
    BY <1>7, <2>1
  <2> QED BY <2>1, <2>2
<1> QED BY <1>7, <1>8

\* Min finds the least of a set of numbers.
LEMMA MinFacts ==
  ASSUME NEW S \in SUBSET Nat, S # {}
  PROVE  Min(S) \in S /\ \A n \in S : Min(S) <= n
<1>1. PICK x \in S : \A n \in S : x <= n
  BY LeastNat
<1> QED BY <1>1, Zenon DEF Min

\* The elements of a sequence, and what is in it.
LEMMA SeqFacts ==
  ASSUME NEW S, NEW s \in Seq(S)
  PROVE  /\ Len(s) \in Nat /\ DOMAIN s = 1 .. Len(s)
         /\ \A j \in 1 .. Len(s) : s[j] \in S /\ s[j] \in ToSet(s)
         /\ \A x \in ToSet(s) : x \in S /\ \E j \in 1 .. Len(s) : x = s[j]
         /\ s = <<>> <=> Len(s) = 0
BY DEF ToSet

\* A sequence after Append.
LEMMA AppendFacts ==
  ASSUME NEW S, NEW s \in Seq(S), NEW x \in S, NEW n, n = Len(s)
  PROVE  /\ Append(s, x) \in Seq(S) /\ n \in Nat /\ DOMAIN s = 1 .. n
         /\ DOMAIN Append(s, x) = 1 .. n + 1 /\ Len(Append(s, x)) = n + 1
         /\ \A k \in 1 .. n : Append(s, x)[k] = s[k]
         /\ Append(s, x)[n + 1] = x
         /\ ToSet(Append(s, x)) = ToSet(s) \cup {x}
         /\ Append(s, x) # <<>>
<1>1. /\ Append(s, x) \in Seq(S) /\ n \in Nat /\ DOMAIN s = 1 .. n
      /\ DOMAIN Append(s, x) = 1 .. n + 1 /\ Len(Append(s, x)) = n + 1
      /\ \A k \in 1 .. n : Append(s, x)[k] = s[k]
      /\ Append(s, x)[n + 1] = x
      /\ Append(s, x) # <<>>
  OBVIOUS
<1>2. PICK t : t = Append(s, x)
  OBVIOUS
<1>3. ToSet(t) = ToSet(s) \cup {x}
  <2>1. DOMAIN t = 1 .. n + 1 /\ (\A k \in 1 .. n : t[k] = s[k]) /\ t[n + 1] = x
    BY <1>1, <1>2
  <2>2. \A y \in ToSet(t) : y \in ToSet(s) \cup {x}
    BY <1>1, <2>1 DEF ToSet
  <2>3. \A y \in ToSet(s) : y \in ToSet(t)
    BY <1>1, <2>1 DEF ToSet
  <2>4. x \in ToSet(t)
    <3>1. n + 1 \in DOMAIN t
      BY <1>1, <2>1
    <3> QED BY <2>1, <3>1 DEF ToSet
  <2> QED BY <2>2, <2>3, <2>4
<1> QED BY <1>1, <1>2, <1>3

\* What is in two sequences together.
LEMMA ConcatSet ==
  ASSUME NEW S, NEW s \in Seq(S), NEW t \in Seq(S)
  PROVE  s \o t \in Seq(S) /\ ToSet(s \o t) = ToSet(s) \cup ToSet(t)
<1>1. PICK u, m, n : u = s \o t /\ m = Len(s) /\ n = Len(t)
  OBVIOUS
<1>2. /\ u \in Seq(S) /\ m \in Nat /\ n \in Nat /\ DOMAIN u = 1 .. m + n /\ DOMAIN s = 1 .. m /\ DOMAIN t = 1 .. n
      /\ (\A k \in 1 .. m : u[k] = s[k])
      /\ (\A k \in 1 .. m + n : k \notin 1 .. m => k - m \in 1 .. n /\ u[k] = t[k - m])
      /\ (\A k \in 1 .. n : m + k \in 1 .. m + n /\ u[m + k] = t[k])
  BY <1>1
<1>3. \A x \in ToSet(u) : x \in ToSet(s) \cup ToSet(t)
  BY <1>2 DEF ToSet
<1>4. \A x \in ToSet(s) : x \in ToSet(u)
  <2>1. 1 .. m \subseteq 1 .. m + n
    BY <1>2
  <2> QED BY <1>2, <2>1, Zenon DEF ToSet
<1>5. \A x \in ToSet(t) : x \in ToSet(u)
  <2> SUFFICES ASSUME NEW k \in 1 .. n PROVE t[k] \in ToSet(u)
    BY <1>2 DEF ToSet
  <2> QED BY <1>2, Zenon DEF ToSet
<1> QED BY <1>1, <1>2, <1>3, <1>4, <1>5

\* What is in three sequences together.
LEMMA ConcatSet3 ==
  ASSUME NEW S, NEW s \in Seq(S), NEW t \in Seq(S), NEW u \in Seq(S)
  PROVE  s \o t \o u \in Seq(S) /\ ToSet(s \o t \o u) = ToSet(s) \cup ToSet(t) \cup ToSet(u)
<1>1. PICK v : v = s \o t
  OBVIOUS
<1>2. v \in Seq(S) /\ ToSet(v) = ToSet(s) \cup ToSet(t)
  BY <1>1, ConcatSet
<1>3. v \o u \in Seq(S) /\ ToSet(v \o u) = ToSet(v) \cup ToSet(u)
  BY <1>2, ConcatSet
<1> QED BY <1>1, <1>2, <1>3

\* A sequence is its head and its tail.
LEMMA HeadTailSet ==
  ASSUME NEW S, NEW s \in Seq(S), s # <<>>
  PROVE  /\ Head(s) \in S /\ Head(s) \in ToSet(s) /\ Head(s) = s[1] /\ Tail(s) \in Seq(S)
         /\ ToSet(s) = {Head(s)} \cup ToSet(Tail(s))
<1>1. PICK t, n : t = Tail(s) /\ n = Len(s)
  OBVIOUS
<1>2. /\ n \in Nat /\ n # 0 /\ DOMAIN s = 1 .. n /\ t \in Seq(S) /\ DOMAIN t = 1 .. n - 1
      /\ Head(s) = s[1] /\ Head(s) \in S
      /\ (\A k \in 1 .. n - 1 : t[k] = s[k + 1] /\ k + 1 \in 1 .. n)
      /\ (\A k \in 1 .. n : k = 1 \/ (k - 1 \in 1 .. n - 1 /\ t[k - 1] = s[k]))
  BY <1>1
<1>3. \A x \in ToSet(s) : x = Head(s) \/ x \in ToSet(t)
  <2> SUFFICES ASSUME NEW k \in 1 .. n PROVE s[k] = Head(s) \/ s[k] \in ToSet(t)
    BY <1>2 DEF ToSet
  <2> QED BY <1>2, Zenon DEF ToSet
<1>4. \A x \in ToSet(t) : x \in ToSet(s)
  <2> SUFFICES ASSUME NEW k \in 1 .. n - 1 PROVE t[k] \in ToSet(s)
    BY <1>2 DEF ToSet
  <2> QED BY <1>2, Zenon DEF ToSet
<1>5. 1 \in DOMAIN s
  BY <1>2
<1>6. Head(s) \in ToSet(s)
  BY <1>2, <1>5 DEF ToSet
<1> QED BY <1>1, <1>2, <1>3, <1>4, <1>6

\* A sequence is its front and its last element.
LEMMA FrontLast ==
  ASSUME NEW S, NEW s \in Seq(S), s # <<>>, NEW n, n = Len(s)
  PROVE  /\ n \in Nat \ {0} /\ DOMAIN s = 1 .. n /\ n \in DOMAIN s
         /\ Last(s) = s[n] /\ Last(s) \in S
         /\ Front(s) \in Seq(S) /\ Len(Front(s)) = n - 1 /\ DOMAIN Front(s) = 1 .. n - 1
         /\ \A k \in 1 .. n - 1 : Front(s)[k] = s[k]
<1>1. n \in Nat \ {0} /\ DOMAIN s = 1 .. n /\ n \in DOMAIN s
  OBVIOUS
<1>2. Last(s) = s[n] /\ Last(s) \in S
  BY <1>1 DEF Last
<1>3. Front(s) = SubSeq(s, 1, n - 1)
  BY DEF Front
<1>4. /\ SubSeq(s, 1, n - 1) \in Seq(S) /\ Len(SubSeq(s, 1, n - 1)) = n - 1
      /\ DOMAIN SubSeq(s, 1, n - 1) = 1 .. n - 1
      /\ \A k \in 1 .. n - 1 : SubSeq(s, 1, n - 1)[k] = s[k]
  BY <1>1
<1> QED BY <1>1, <1>2, <1>3, <1>4

\* The elements of a part of a sequence, in their order.
LEMMA Cut ==
  ASSUME NEW S, NEW s \in Seq(S), NEW a \in Nat, NEW b \in Nat, NEW n \in Nat,
         1 <= a, b <= Len(s), a <= b + 1, n = b - a + 1
  PROVE  /\ SubSeq(s, a, b) \in Seq(S) /\ Len(SubSeq(s, a, b)) = n
         /\ DOMAIN SubSeq(s, a, b) = 1 .. n
         /\ \A j \in 1 .. n : SubSeq(s, a, b)[j] = s[a + j - 1]
<1>1. \A j \in a .. b : s[j] \in S
  OBVIOUS
<1> QED BY <1>1

\* The elements of a sequence from its end.
LEMMA ReverseFacts ==
  ASSUME NEW S, NEW s \in Seq(S)
  PROVE  /\ Reverse(s) \in Seq(S) /\ Len(Reverse(s)) = Len(s) /\ DOMAIN Reverse(s) = 1 .. Len(s)
         /\ \A a \in 1 .. Len(s) : Reverse(s)[a] = s[Len(s) - a + 1]
         /\ ToSet(Reverse(s)) = ToSet(s)
<1>1. PICK n, t : n = Len(s) /\ t = Reverse(s)
  OBVIOUS
<1>2. t = [i \in 1 .. n |-> s[(n - i) + 1]]
  BY <1>1 DEF Reverse
<1>3. n \in Nat /\ DOMAIN s = 1 .. n /\ (\A j \in 1 .. n : s[j] \in S) /\ DOMAIN t = 1 .. n
      /\ \A j \in 1 .. n : n - j + 1 \in 1 .. n /\ t[j] = s[n - j + 1] /\ n - (n - j + 1) + 1 = j
  BY <1>1, <1>2
<1>4. t \in Seq(S) /\ Len(t) = n
  BY <1>3, <1>2
<1>5. \A x \in ToSet(t) : x \in ToSet(s)
  BY <1>3 DEF ToSet
<1>6. \A x \in ToSet(s) : x \in ToSet(t)
  <2> SUFFICES ASSUME NEW j \in 1 .. n PROVE s[j] \in ToSet(t)
    BY <1>3 DEF ToSet
  <2>1. PICK k : k = n - j + 1
    OBVIOUS
  <2>2. k \in 1 .. n /\ t[k] = s[j]
    BY <1>3, <2>1
  <2> QED BY <1>3, <2>2 DEF ToSet
<1> QED BY <1>1, <1>3, <1>4, <1>5, <1>6

\* What holds at 0 and is handed on from each number to the next one holds up to any number.
LEMMA UpTo ==
  ASSUME NEW n \in Nat, NEW S \in SUBSET (0 .. n), 0 \in S, \A k \in 1 .. n : k - 1 \in S => k \in S
  PROVE  S = 0 .. n
<1> SUFFICES ASSUME (0 .. n) \ S # {} PROVE FALSE
  OBVIOUS
<1>1. PICK D : D = (0 .. n) \ S
  OBVIOUS
<1>2. D \in SUBSET Nat /\ D # {}
  BY <1>1
<1>3. PICK k \in D : \A m \in D : k <= m
  BY <1>2, LeastNat
<1>4. k \in 1 .. n /\ k \notin S /\ k - 1 \in 0 .. n
  BY <1>1, <1>3
<1>5. k - 1 \in S
  BY <1>1, <1>3, <1>4
<1> QED BY <1>4, <1>5

\* Among keeps those of a sequence that are in the set, and nothing else.
LEMMA AmongFacts ==
  ASSUME NEW R, NEW s \in Seq(R), NEW S
  PROVE  Among(s, S) \in Seq(R \cap S) /\ ToSet(Among(s, S)) = ToSet(s) \cap S
<1> DEFINE n == Len(s)
           Next1(u, k) == IF s[k] \in S THEN Append(u[k - 1], s[k]) ELSE u[k - 1]
           Body(u, k) == IF k = 0 THEN <<>> ELSE Next1(u, k)
           Good(u, m) == /\ u = [k \in 0 .. m |-> u[k]] /\ u[0] = <<>>
                         /\ \A k \in 1 .. m : u[k] = Next1(u, k)
<1>1. n \in Nat /\ DOMAIN s = 1 .. n /\ \A j \in 1 .. n : s[j] \in R
  OBVIOUS
<1>2. \E u : Good(u, n)
  <2>1. PICK T : T = {m \in 0 .. n : \E u : Good(u, m)}
    OBVIOUS
  <2>2. 0 \in T
    <3>1. PICK u : u = [k \in 0 .. 0 |-> <<>>]
      OBVIOUS
    <3>2. Good(u, 0)
      BY <3>1
    <3> QED BY <1>1, <2>1, <3>2
  <2>3. ASSUME NEW m \in 1 .. n, m - 1 \in T PROVE m \in T
    <3>1. PICK u : Good(u, m - 1)
      BY <2>1, <2>3
    <3>2. PICK w : w = [k \in 0 .. m |-> IF k = m THEN Next1(u, m) ELSE u[k]]
      OBVIOUS
    <3>3. \A k \in 0 .. m - 1 : w[k] = u[k]
      BY <3>2, <1>1
    <3>4. \A k \in 1 .. m : w[k] = Next1(w, k)
      <4> SUFFICES ASSUME NEW k \in 1 .. m PROVE w[k] = Next1(w, k)
        OBVIOUS
      <4>1. k - 1 \in 0 .. m - 1 /\ w[k - 1] = u[k - 1]
        BY <3>3, <1>1
      <4>2. CASE k = m
        BY <3>2, <4>1, <4>2
      <4>3. CASE k # m
        <5>1. k \in 1 .. m - 1 /\ k \in 0 .. m - 1
          BY <4>3, <1>1
        <5> QED BY <3>1, <3>3, <4>1, <5>1
      <4> QED BY <4>2, <4>3
    <3>5. w = [k \in 0 .. m |-> w[k]] /\ w[0] = <<>>
      <4>1. 0 \in 0 .. m - 1
        BY <1>1
      <4> QED BY <3>1, <3>2, <3>3, <4>1
    <3>6. Good(w, m)
      BY <3>4, <3>5
    <3> QED BY <2>1, <3>6
  <2>4. n \in T
    <3>1. T \in SUBSET (0 .. n)
      BY <2>1
    <3>2. T = 0 .. n
      BY <1>1, <2>2, <2>3, <3>1, UpTo
    <3> QED BY <1>1, <3>2
  <2> QED BY <2>1, <2>4
<1>3. PICK v : v = CHOOSE u : u = [k \in 0 .. n |-> Body(u, k)]
  OBVIOUS
<1>4. Among(s, S) = v[n]
  BY <1>3 DEF Among
<1>5. v = [k \in 0 .. n |-> Body(v, k)]
  <2>1. PICK u : Good(u, n)
    BY <1>2
  <2>2. \A k \in 0 .. n : u[k] = Body(u, k)
    <3> SUFFICES ASSUME NEW k \in 0 .. n PROVE u[k] = Body(u, k)
      OBVIOUS
    <3>1. k = 0 \/ (k # 0 /\ k \in 1 .. n)
      BY <1>1
    <3> QED BY <2>1, <3>1
  <2>3. u = [k \in 0 .. n |-> Body(u, k)]
    BY <2>1, <2>2
  <2> QED BY <1>3, <2>3
<1>b. \A k \in 0 .. n : v[k] = Body(v, k)
  BY <1>5
<1>6. PICK T : T = {m \in 0 .. n : v[m] \in Seq(R \cap S) /\ ToSet(v[m]) = {s[j] : j \in 1 .. m} \cap S}
  OBVIOUS
<1>7. 0 \in T
  <2>1. v[0] = <<>>
    BY <1>1, <1>b
  <2>2. <<>> \in Seq(R \cap S) /\ ToSet(<<>>) = {} /\ {s[j] : j \in 1 .. 0} = {}
    BY DEF ToSet
  <2>3. 0 \in 0 .. n
    BY <1>1
  <2> HIDE DEF n, Body, Next1
  <2> QED BY <1>6, <2>1, <2>2, <2>3
<1>8. ASSUME NEW m \in 1 .. n, m - 1 \in T PROVE m \in T
  <2>1. v[m] = Next1(v, m)
    <3>1. m \in 0 .. n /\ m # 0
      BY <1>1
    <3> QED BY <1>b, <3>1
  <2>2. PICK p : p = v[m - 1]
    OBVIOUS
  <2>3. p \in Seq(R \cap S) /\ ToSet(p) = {s[j] : j \in 1 .. m - 1} \cap S
    BY <1>6, <1>8, <2>2
  <2>4. {s[j] : j \in 1 .. m} = {s[j] : j \in 1 .. m - 1} \cup {s[m]}
    BY <1>1
  <2>5. CASE s[m] \in S
    <3>1. v[m] = Append(p, s[m]) /\ s[m] \in R \cap S
      BY <1>1, <2>1, <2>2, <2>5, Zenon
    <3>2. PICK c, Q, x : c = Len(p) /\ Q = R \cap S /\ x = s[m]
      OBVIOUS
    <3>0. p \in Seq(Q) /\ x \in Q
      BY <2>3, <3>1, <3>2
    <3>4. Append(p, x) \in Seq(Q) /\ ToSet(Append(p, x)) = ToSet(p) \cup {x}
      BY <3>0, <3>2, AppendFacts
    <3>3. v[m] \in Seq(R \cap S) /\ ToSet(v[m]) = ToSet(p) \cup {s[m]}
      BY <3>1, <3>2, <3>4, Zenon
    <3> QED BY <1>6, <2>3, <2>4, <2>5, <3>3
  <2>6. CASE s[m] \notin S
    BY <1>6, <2>1, <2>2, <2>3, <2>4, <2>6
  <2> QED BY <2>5, <2>6
<1>9. n \in T
  <2>1. T \in SUBSET (0 .. n) /\ n \in 0 .. n
    BY <1>1, <1>6
  <2>2. T = 0 .. n
    BY <1>1, <1>7, <1>8, <2>1, UpTo
  <2> QED BY <2>1, <2>2
<1>10. ToSet(s) = {s[j] : j \in 1 .. n}
  BY <1>1 DEF ToSet
<1> QED BY <1>4, <1>6, <1>9, <1>10

-----------------------------------------------------------------------------
(* Programs *)

\* The tables and the files of a program are sequences.
LEMMA ProgramShape ==
  ASSUME NEW w \in Programs
  PROVE  /\ Len(w.tables) \in Nat /\ DOMAIN w.tables = 1 .. Len(w.tables)
         /\ Len(w.files) \in Nat /\ DOMAIN w.files = 1 .. Len(w.files)
<1>1. w.tables \in Seq(ToSet(w.tables)) /\ w.files \in Seq(ToSet(w.files))
  BY ProgramsAssumption
<1> QED BY <1>1

\* What a lookup finds is an item of a table up to this one, as the parser makes them.
LEMMA LookupFacts ==
  ASSUME NEW w \in Programs, NEW t \in DOMAIN w.tables, NEW i, DefiningIn(w, t, i) # {}
  PROVE  /\ i \in Items /\ Parsed(ItemIn(w, t, i))
         /\ \E d \in DOMAIN w.tables : i \in DOMAIN w.tables[d] /\ ItemIn(w, t, i) = w.tables[d][i]
         /\ t \in DefiningIn(w, t, i) => ItemIn(w, t, i) = w.tables[t][i]
<1>1. PICK D, d : D = DefiningIn(w, t, i) /\ d = Max(D)
  OBVIOUS
<1>2. t \in Nat /\ t <= Len(w.tables) /\ DOMAIN w.tables = 1 .. Len(w.tables) /\ Len(w.tables) \in Nat
  BY ProgramShape
<1>3. D \in SUBSET Nat /\ D # {} /\ (\A n \in D : n <= t /\ n \in DOMAIN w.tables /\ i \in DOMAIN w.tables[n])
  BY <1>1, <1>2 DEF DefiningIn
<1>4. d \in D /\ \A n \in D : n <= d
  BY <1>1, <1>2, <1>3, MaxFacts
<1>5. d \in DOMAIN w.tables /\ i \in DOMAIN w.tables[d] /\ ItemIn(w, t, i) = w.tables[d][i]
  BY <1>1, <1>3, <1>4 DEF ItemIn
<1>6. i \in Items /\ Parsed(w.tables[d][i])
  BY <1>5, ProgramsAssumption
<1>7. t \in D => d = t
  BY <1>2, <1>3, <1>4
<1> QED BY <1>1, <1>5, <1>6, <1>7

\* The globals of code that the sort goes through are globals of it.
LEMMA WalkedFacts ==
  ASSUME NEW it, NEW S, it.data \in Seq(S)
  PROVE  Walked(it) \in Seq(S) /\ ToSet(Walked(it)) \subseteq ToSet(it.data)
<1>1. CASE Runes(it) = {}
  BY <1>1 DEF Walked
<1>2. CASE Runes(it) # {}
  <2>1. PICK s, m, e, n : s = it.data /\ m = Min(Runes(it)) /\ e = m - 1 /\ n = Len(s)
    OBVIOUS
  <2>2. s \in Seq(S) /\ n \in Nat /\ DOMAIN s = 1 .. n
    BY <2>1
  <2>3. Runes(it) \in SUBSET Nat /\ Runes(it) \subseteq 1 .. n
    BY <2>1, <2>2 DEF Runes
  <2>4. m \in 1 .. n
    BY <1>2, <2>1, <2>3, MinFacts
  <2>5. e \in Nat /\ e <= n /\ 1 \in Nat /\ 1 <= 1 /\ 1 <= e + 1 /\ e = e - 1 + 1 /\ m \in Nat
    BY <2>1, <2>2, <2>4
  <2>6. PICK r : r = SubSeq(s, 1, e)
    OBVIOUS
  <2>7. r \in Seq(S) /\ DOMAIN r = 1 .. e /\ \A j \in 1 .. e : r[j] = s[1 + j - 1]
    BY <2>1, <2>2, <2>5, <2>6, Cut
  <2>8. \A j \in 1 .. e : r[j] = s[j] /\ j \in DOMAIN s
    BY <2>2, <2>5, <2>7
  <2>9. Walked(it) = r
    BY <1>2, <2>1, <2>6, Zenon DEF Walked
  <2>10. ToSet(r) \subseteq ToSet(s)
    BY <2>7, <2>8 DEF ToSet
  <2> QED BY <2>1, <2>7, <2>9, <2>10
<1> QED BY <1>1, <1>2

\* The edges of an item are labels.  Those of code are all its names but the globals that
\* are not gone through and the ops that are no labels.
LEMMA EdgesFacts ==
  ASSUME NEW it, Parsed(it)
  PROVE  /\ Edges(it) \in Seq(Items)
         /\ IsCode(it) => ToSet(Edges(it)) = ToSet(it.types) \cup ToSet(it.code) \cup ToSet(it.coercions)
                                               \cup (ToSet(Walked(it)) \cap Items)
         /\ IsData(it) => ToSet(Edges(it)) =
              CASE it.form = ".closure" -> ToSet(it.code) \cup ToSet(it.types)
                [] it.form \in {".record", ".constr", ".undefined", ".alias"} -> ToSet(it.data) \cup ToSet(it.types)
                [] it.form = ".rune" -> {}
                [] it.form = ".string" -> {ListType, RuneType} \cup ToSet(it.data)
                [] it.form = ".list" -> {ListType} \cup ToSet(it.data)
                [] it.form = ".regex" -> {RegexType, RuneType} \cup ToSet(it.data)
                [] it.form = ".cast" -> ToSet(it.data) \cup ToSet(it.coercions)
<1>1. /\ it.types \in Seq(Items) /\ it.code \in Seq(Items) /\ it.coercions \in Seq(Items)
      /\ it.data \in Seq(IF IsCode(it) THEN Items \cup {Rune, Natural} ELSE Items) /\ it.form \in Forms
  BY DEF Parsed
<1>2. CASE IsCode(it)
  <2>1. PICK g : g = Globals(Walked(it))
    OBVIOUS
  <2>2. g \in Seq(Items) /\ ToSet(g) = ToSet(Walked(it)) \cap Items
    <3>1. PICK S, v : S = Items \cup {Rune, Natural} /\ v = Walked(it)
      OBVIOUS
    <3>2. v \in Seq(S)
      BY <1>1, <1>2, <3>1, WalkedFacts
    <3>3. Among(v, Items) \in Seq(S \cap Items) /\ ToSet(Among(v, Items)) = ToSet(v) \cap Items
      BY <3>2, AmongFacts
    <3>4. S \cap Items = Items
      BY <3>1
    <3> QED BY <2>1, <3>1, <3>3, <3>4 DEF Globals
  <2>3. ~IsData(it)
    BY <1>2 DEF IsCode, IsData, CodeForms, DataForms
  <2>4. PICK a : a = it.types \o it.code \o it.coercions
    OBVIOUS
  <2>5. a \in Seq(Items) /\ ToSet(a) = ToSet(it.types) \cup ToSet(it.code) \cup ToSet(it.coercions)
    BY <1>1, <2>4, ConcatSet3
  <2>6. a \o g \in Seq(Items) /\ ToSet(a \o g) = ToSet(a) \cup ToSet(g)
    BY <2>2, <2>5, ConcatSet
  <2>7. Edges(it) = a \o g
    BY <1>2, <2>1, <2>3, <2>4 DEF Edges, CodeEdges
  <2> QED BY <2>2, <2>3, <2>5, <2>6, <2>7
<1>3. CASE IsData(it)
  <2>0. ~IsCode(it)
    BY <1>3 DEF IsCode, IsData, CodeForms, DataForms
  <2>1. it.data \in Seq(Items) /\ ~IsCode(it)
    <3>1. PICK S : S = IF IsCode(it) THEN Items \cup {Rune, Natural} ELSE Items
      OBVIOUS
    <3>2. S = Items
      BY <2>0, <3>1
    <3>3. it.data \in Seq(S)
      BY <1>1, <3>1, Zenon
    <3>4. it.data \in Seq(Items)
      BY <3>2, <3>3
    <3> QED BY <2>0, <3>4, Zenon
  <2>2. Edges(it) = DataEdges(it)
    BY <1>3, <2>1 DEF Edges
  <2>3. it.form \in DataForms
    BY <1>3 DEF IsData
  <2>4. PICK d, t, c, k : d = it.data /\ t = it.types /\ c = it.code /\ k = it.coercions
    OBVIOUS
  <2>5. d \in Seq(Items) /\ t \in Seq(Items) /\ c \in Seq(Items) /\ k \in Seq(Items)
    BY <1>1, <2>1, <2>4
  <2>6. /\ c \o t \in Seq(Items) /\ ToSet(c \o t) = ToSet(c) \cup ToSet(t)
        /\ d \o t \in Seq(Items) /\ ToSet(d \o t) = ToSet(d) \cup ToSet(t)
        /\ t \o d \in Seq(Items) /\ ToSet(t \o d) = ToSet(d) \cup ToSet(t)
        /\ d \o k \in Seq(Items) /\ ToSet(d \o k) = ToSet(d) \cup ToSet(k)
    BY <2>5, ConcatSet
  <2>7. PICK u, v, w : u = <<ListType, RuneType>> /\ v = <<ListType>> /\ w = <<RegexType, RuneType>>
    OBVIOUS
  <2>8. /\ u \in Seq(Items) /\ ToSet(u) = {ListType, RuneType}
        /\ v \in Seq(Items) /\ ToSet(v) = {ListType}
        /\ w \in Seq(Items) /\ ToSet(w) = {RegexType, RuneType}
    BY <2>7, CompilerNames DEF ToSet
  <2>9. /\ u \o d \in Seq(Items) /\ ToSet(u \o d) = {ListType, RuneType} \cup ToSet(d)
        /\ v \o d \in Seq(Items) /\ ToSet(v \o d) = {ListType} \cup ToSet(d)
        /\ w \o d \in Seq(Items) /\ ToSet(w \o d) = {RegexType, RuneType} \cup ToSet(d)
    BY <2>5, <2>8, ConcatSet
  <2>10. <<>> \in Seq(Items) /\ ToSet(<<>>) = {}
    BY DEF ToSet
  <2>11. DataEdges(it) =
           CASE it.form = ".closure" -> c \o t
             [] it.form = ".record" -> d \o t
             [] it.form \in {".constr", ".undefined"} -> t \o d
             [] it.form = ".rune" -> <<>>
             [] it.form = ".string" -> u \o d
             [] it.form = ".list" -> v \o d
             [] it.form = ".regex" -> w \o d
             [] it.form = ".alias" -> d \o t
             [] it.form = ".cast" -> d \o k
    BY <2>4, <2>7, Zenon DEF DataEdges
  <2>12. CASE it.form = ".closure"
    BY <2>2, <2>4, <2>6, <2>11, <2>12, <2>1
  <2>13. CASE it.form \in {".record", ".alias"}
    BY <2>2, <2>4, <2>6, <2>11, <2>13, <2>1
  <2>14. CASE it.form \in {".constr", ".undefined"}
    BY <2>2, <2>4, <2>6, <2>11, <2>14, <2>1
  <2>15. CASE it.form = ".rune"
    BY <2>2, <2>10, <2>11, <2>15, <2>1
  <2>16. CASE it.form = ".string"
    BY <2>2, <2>4, <2>9, <2>11, <2>16, <2>1
  <2>17. CASE it.form = ".list"
    BY <2>2, <2>4, <2>9, <2>11, <2>17, <2>1
  <2>18. CASE it.form = ".regex"
    BY <2>2, <2>4, <2>9, <2>11, <2>18, <2>1
  <2>19. CASE it.form = ".cast"
    BY <2>2, <2>4, <2>6, <2>11, <2>19, <2>1
  <2> QED BY <2>3, <2>12, <2>13, <2>14, <2>15, <2>16, <2>17, <2>18, <2>19 DEF DataForms
<1>4. CASE ~IsCode(it) /\ ~IsData(it)
  BY <1>1, <1>4 DEF Edges, TypeEdges
<1> QED BY <1>2, <1>3, <1>4

\* The roots of a file are named in its table, none of them is code, and a document has one.
LEMMA RootsFacts ==
  ASSUME program \in Programs, NEW n \in DOMAIN program.files
  PROVE  /\ program.files[n].table \in DOMAIN program.tables
         /\ RootsOf(program.files[n]) \in Seq(Items)
         /\ \A x \in ToSet(RootsOf(program.files[n])) :
              /\ DefiningIn(program, program.files[n].table, x) # {}
              /\ ItemOf(program.files[n].table, x).form \in DataForms \cup TypeForms \cup CoercionForms
         /\ program.files[n].type = "document" =>
              /\ RootsOf(program.files[n]) = <<Head(RootsOf(program.files[n]))>>
              /\ Head(RootsOf(program.files[n])) \in ToSet(RootsOf(program.files[n]))
              /\ \A m \in 1 .. n - 1 : program.files[m].table # program.files[n].table
<1>1. PICK f, R, d : f = program.files[n] /\ d = f.table /\ R = DOMAIN program.tables[d]
  OBVIOUS
<1>2. /\ d \in DOMAIN program.tables /\ f.type \in {"prefix", "document"} /\ f.items \in Seq(R)
      /\ f.type = "document" => /\ \E i \in ToSet(f.items) : IsData(program.tables[d][i])
                                /\ \A m \in 1 .. n - 1 : program.files[m].table # d
  BY <1>1, ProgramsAssumption
<1>3. \A i \in R : i \in Items /\ DefiningIn(program, d, i) # {} /\ d \in DefiningIn(program, d, i)
                   /\ ItemOf(d, i) = program.tables[d][i]
  <2> SUFFICES ASSUME NEW i \in R
               PROVE  i \in Items /\ DefiningIn(program, d, i) # {} /\ d \in DefiningIn(program, d, i)
                      /\ ItemOf(d, i) = program.tables[d][i]
    OBVIOUS
  <2>1. d \in 1 .. d
    BY <1>2, ProgramShape
  <2>2. d \in DefiningIn(program, d, i)
    BY <1>1, <2>1 DEF DefiningIn
  <2> QED BY <1>2, <2>2, LookupFacts DEF ItemOf
<1> DEFINE In1(kind) == {i \in ToSet(f.items) : ItemOf(d, i).form \in kind}
           Of(kind) == Among(f.items, In1(kind))
<1>4. \A kind : Of(kind) \in Seq(R) /\ ToSet(Of(kind)) = In1(kind)
  <2> TAKE kind
  <2>1. PICK S : S = In1(kind)
    OBVIOUS
  <2>2. Among(f.items, S) \in Seq(R \cap S) /\ ToSet(Among(f.items, S)) = ToSet(f.items) \cap S
    BY <1>2, AmongFacts
  <2>3. S \subseteq ToSet(f.items)
    BY <2>1
  <2>4. Among(f.items, S) \in Seq(R)
    BY <2>2
  <2> QED BY <2>1, <2>2, <2>3, <2>4
<1>5. ToSet(f.items) \subseteq R
  BY <1>2 DEF ToSet
<1>6. RootsOf(f) = IF f.type = "prefix" THEN Of(DataForms) \o Of(TypeForms) \o Of(CoercionForms)
                   ELSE <<Head(Of(DataForms))>>
  BY <1>1 DEF RootsOf
<1>7. \A s : s \in Seq(R) => s \in Seq(Items)
  BY <1>3
<1> HIDE DEF Of
<1>8. CASE f.type = "prefix"
  <2>1. RootsOf(f) \in Seq(R) /\ ToSet(RootsOf(f)) = In1(DataForms) \cup In1(TypeForms) \cup In1(CoercionForms)
    BY <1>4, <1>6, <1>8, ConcatSet3
  <2>2. \A x \in ToSet(RootsOf(f)) : x \in R /\ ItemOf(d, x).form \in DataForms \cup TypeForms \cup CoercionForms
    BY <1>5, <2>1
  <2> QED BY <1>1, <1>2, <1>3, <1>7, <1>8, <2>1, <2>2
<1>9. CASE f.type = "document"
  <2>1. PICK i \in ToSet(f.items) : IsData(program.tables[d][i])
    BY <1>2, <1>9
  <2>2. i \in In1(DataForms)
    BY <1>3, <1>5, <2>1 DEF IsData
  <2>3. PICK s, h : s = Of(DataForms) /\ h = Head(s)
    OBVIOUS
  <2>4. s \in Seq(R) /\ ToSet(s) = In1(DataForms) /\ s # <<>>
    <3>1. s \in Seq(R) /\ ToSet(s) = In1(DataForms)
      BY <1>4, <2>3
    <3>2. \A b : b = <<>> => ToSet(b) = {}
      BY DEF ToSet
    <3> QED BY <2>2, <3>1, <3>2
  <2>5. h \in R /\ h \in In1(DataForms)
    BY <2>3, <2>4, HeadTailSet
  <2>6. RootsOf(f) = <<h>>
    BY <1>6, <1>9, <2>3
  <2>7. ToSet(<<h>>) = {h} /\ <<h>> \in Seq(Items) /\ Head(<<h>>) = h
    BY <1>3, <2>5 DEF ToSet
  <2>8. /\ RootsOf(f) \in Seq(Items)
        /\ \A x \in ToSet(RootsOf(f)) : DefiningIn(program, d, x) # {}
              /\ ItemOf(d, x).form \in DataForms \cup TypeForms \cup CoercionForms
    BY <1>3, <2>5, <2>6, <2>7
  <2>9. RootsOf(f) = <<Head(RootsOf(f))>> /\ Head(RootsOf(f)) \in ToSet(RootsOf(f))
    BY <2>6, <2>7
  <2> QED BY <1>1, <1>2, <1>9, <2>8, <2>9
<1> QED BY <1>2, <1>8, <1>9

-----------------------------------------------------------------------------
(* What follows from the invariant in a state *)

\* While there is a file, there is a table at work.
LEMMA TableFacts ==
  ASSUME SortTypes, file # 0
  PROVE  /\ file \in DOMAIN program.files /\ table = program.files[file].table
         /\ table \in DOMAIN program.tables
<1>1. /\ program \in Programs /\ file \in 0 .. Len(program.files)
      /\ table = program.files[file].table
  BY DEF SortTypes
<1>2. file \in DOMAIN program.files
  BY <1>1, ProgramShape
<1> QED BY <1>1, <1>2, RootsFacts

\* What a label names is an item as the parser makes them.
LEMMA NamedFacts ==
  ASSUME SortTypes, file # 0, NEW i, Named(i)
  PROVE  /\ i \in Items /\ Parsed(Item(i)) /\ Edges(Item(i)) \in Seq(Items)
         /\ Needed(i) \subseteq Items
<1>1. table \in DOMAIN program.tables /\ program \in Programs
  BY TableFacts DEF SortTypes
<1>2. i \in Items /\ Parsed(Item(i))
  BY <1>1, LookupFacts DEF Named, Item, ItemOf
<1>3. Edges(Item(i)) \in Seq(Items)
  BY <1>2, EdgesFacts
<1> QED BY <1>2, <1>3, SeqFacts DEF Needed

\* In a table a label names the same item, with the same edges.
LEMMA SameTable ==
  ASSUME UNCHANGED <<program, table>>
  PROVE  \A x : (Named(x)' <=> Named(x)) /\ Item(x)' = Item(x) /\ Needed(x)' = Needed(x)
BY DEF Named, Item, ItemOf, Needed

\* The roots of a file are the same as long as it is the file.
LEMMA SameRoots ==
  ASSUME UNCHANGED <<program, table, file>>
  PROVE  /\ TheRoots' = TheRoots /\ Entry' = Entry
         /\ \A S : RootOf(S)' <=> RootOf(S)
BY DEF TheRoots, Entry, RootOf, RootsOf, ItemOf

\* The items on the stack, on the path and among the maybes.
LEMMA StackFacts ==
  ASSUME SortTypes, Path, Stacks
  PROVE  /\ \A x \in Active : /\ x \in Items /\ x \in DOMAIN preorders /\ x \notin sccs
                              /\ preorders[x] \in Nat /\ preorders[x] < counter /\ Named(x)
         /\ \A x \in DOMAIN preorders : x \in Active \/ x \in sccs
         /\ \A k \in DOMAIN frames : frames[k].item \in Active
         /\ \A m \in ToSet(maybe) : m \in Active /\ \E k \in DOMAIN frames : m = frames[k].item
         /\ \A k \in DOMAIN maybe : maybe[k] \in ToSet(maybe) /\ maybe[k] \in Active
         /\ \A m \in ToSet(maybe) : \E k \in DOMAIN maybe : m = maybe[k]
         /\ \A k \in DOMAIN unassigned : unassigned[k] \in Active
         /\ \A x \in Active : \E k \in DOMAIN unassigned : x = unassigned[k]
<1>1. \A x \in Active : /\ x \in Items /\ x \in DOMAIN preorders /\ x \notin sccs
                        /\ preorders[x] \in Nat /\ preorders[x] < counter /\ Named(x)
  BY DEF SortTypes, Stacks
<1>2. \A x \in DOMAIN preorders : x \in Active \/ x \in sccs
  BY DEF Stacks
<1>3. \A k \in DOMAIN frames : frames[k].item \in Active
  BY DEF Path
<1>4. \A m \in ToSet(maybe) : m \in Active /\ \E k \in DOMAIN frames : m = frames[k].item
  BY <1>3 DEF Stacks, OnPath
<1>5. \A k \in DOMAIN maybe : maybe[k] \in ToSet(maybe)
  BY Zenon DEF ToSet
<1>6. \A m \in ToSet(maybe) : \E k \in DOMAIN maybe : m = maybe[k]
  BY Zenon DEF ToSet
<1>7. \A k \in DOMAIN unassigned : unassigned[k] \in Active
  BY Zenon DEF ToSet, Active
<1>8. \A x \in Active : \E k \in DOMAIN unassigned : x = unassigned[k]
  BY Zenon DEF ToSet, Active
<1> QED BY <1>1, <1>2, <1>3, <1>4, <1>5, <1>6, <1>7, <1>8

\* The lengths of the stacks.
LEMMA Lengths ==
  ASSUME SortTypes
  PROVE  /\ Len(maybe) \in Nat /\ DOMAIN maybe = 1 .. Len(maybe)
         /\ Len(unassigned) \in Nat /\ DOMAIN unassigned = 1 .. Len(unassigned)
         /\ Len(frames) \in Nat /\ DOMAIN frames = 1 .. Len(frames)
         /\ Len(groups) \in Nat /\ DOMAIN groups = 1 .. Len(groups)
         /\ (maybe = <<>> <=> Len(maybe) = 0) /\ (unassigned = <<>> <=> Len(unassigned) = 0)
         /\ (frames = <<>> <=> Len(frames) = 0) /\ (groups = <<>> <=> Len(groups) = 0)
<1>1. maybe \in Seq(Items) /\ unassigned \in Seq(Items) /\ frames \in Seq(Frames) /\ groups \in Seq(Seq(Items))
  BY DEF SortTypes
<1> QED BY <1>1, SeqFacts

\* An item on the stack has its own number.
LEMMA OneNumber ==
  ASSUME SortTypes, Path, Stacks, NEW x \in Active, NEW y \in Active, preorders[x] = preorders[y]
  PROVE  x = y
<1>1. PICK k \in DOMAIN unassigned : x = unassigned[k]
  BY StackFacts
<1>2. PICK l \in DOMAIN unassigned : y = unassigned[l]
  BY StackFacts
<1>3. ~(preorders[x] < preorders[y]) /\ ~(preorders[y] < preorders[x])
  BY StackFacts
<1>4. ~(k < l) /\ ~(l < k)
  BY <1>1, <1>2, <1>3 DEF Stacks
<1>5. k = l
  BY <1>4, Lengths
<1> QED BY <1>1, <1>2, <1>5

\* The first maybe is the lowest item of the stack.
LEMMA Lowest ==
  ASSUME SortTypes, Path, Stacks, NEW x \in Active
  PROVE  1 \in DOMAIN maybe /\ preorders[maybe[1]] <= preorders[x]
<1>1. PICK k \in DOMAIN unassigned : x = unassigned[k]
  BY StackFacts
<1>2. unassigned # <<>> /\ 1 \in DOMAIN unassigned /\ k \in Nat /\ 1 <= k
  BY <1>1, Lengths
<1>3. maybe # <<>> /\ maybe[1] = unassigned[1]
  BY <1>2 DEF Stacks
<1>4. 1 \in DOMAIN maybe
  BY <1>3, Lengths
<1>5. unassigned[1] \in Active /\ preorders[unassigned[1]] \in Nat /\ preorders[x] \in Nat
  BY <1>2, StackFacts
<1>6. CASE k = 1
  BY <1>1, <1>3, <1>4, <1>5, <1>6
<1>7. CASE k # 1
  <2>1. 1 < k
    BY <1>2, <1>7
  <2>2. preorders[unassigned[1]] < preorders[unassigned[k]]
    BY <1>2, <2>1 DEF Stacks
  <2> QED BY <1>1, <1>3, <1>4, <1>5, <2>2
<1> QED BY <1>6, <1>7

\* The maybes, and the items of the path, come in the order of their numbers.
LEMMA InTheirOrder ==
  ASSUME SortTypes, Path, Stacks
  PROVE  /\ \A k, l \in DOMAIN maybe : k <= l <=> preorders[maybe[k]] <= preorders[maybe[l]]
         /\ \A k, l \in DOMAIN frames : k <= l <=> preorders[frames[k].item] <= preorders[frames[l].item]
<1>1. ASSUME NEW k \in DOMAIN maybe, NEW l \in DOMAIN maybe
      PROVE  k <= l <=> preorders[maybe[k]] <= preorders[maybe[l]]
  <2>1. k \in Nat /\ l \in Nat
    BY Lengths
  <2>2. preorders[maybe[k]] \in Nat /\ preorders[maybe[l]] \in Nat
    BY StackFacts
  <2>3. /\ k < l => preorders[maybe[k]] < preorders[maybe[l]]
        /\ l < k => preorders[maybe[l]] < preorders[maybe[k]]
    BY DEF Stacks
  <2>4. k = l => preorders[maybe[k]] = preorders[maybe[l]]
    OBVIOUS
  <2> QED BY <2>1, <2>2, <2>3, <2>4
<1>2. ASSUME NEW k \in DOMAIN frames, NEW l \in DOMAIN frames
      PROVE  k <= l <=> preorders[frames[k].item] <= preorders[frames[l].item]
  <2>1. k \in Nat /\ l \in Nat
    BY Lengths
  <2>2. preorders[frames[k].item] \in Nat /\ preorders[frames[l].item] \in Nat
    BY StackFacts
  <2>3. /\ k < l => preorders[frames[k].item] < preorders[frames[l].item]
        /\ l < k => preorders[frames[l].item] < preorders[frames[k].item]
    BY DEF Path
  <2>4. k = l => preorders[frames[k].item] = preorders[frames[l].item]
    OBVIOUS
  <2> QED BY <2>1, <2>2, <2>3, <2>4
<1> QED BY <1>1, <1>2

\* Every item on the stack from a maybe on is in the segment of this or of a later one.
LEMMA SegmentOf ==
  ASSUME SortTypes, Path, Stacks, NEW x \in Active, NEW j \in DOMAIN maybe,
         preorders[maybe[j]] <= preorders[x]
  PROVE  \E k \in DOMAIN maybe : j <= k /\ x \in Segment(k)
<1>1. PICK K : K = {k \in DOMAIN maybe : preorders[maybe[k]] <= preorders[x]}
  OBVIOUS
<1>2. K \in SUBSET Nat /\ K # {} /\ j \in K /\ Len(maybe) \in Nat /\ \A k \in K : k <= Len(maybe)
  BY <1>1, Lengths
<1>3. PICK m : m = Max(K)
  OBVIOUS
<1>4. m \in K /\ \A k \in K : k <= m
  BY <1>2, <1>3, MaxFacts
<1>5. m \in DOMAIN maybe /\ j <= m /\ m \in Nat
  BY <1>1, <1>2, <1>4
<1>6. m + 1 \in DOMAIN maybe => preorders[x] < preorders[maybe[m + 1]]
  <2> SUFFICES ASSUME m + 1 \in DOMAIN maybe PROVE preorders[x] < preorders[maybe[m + 1]]
    OBVIOUS
  <2>1. m + 1 \notin K
    BY <1>4, <1>5
  <2>2. ~(preorders[maybe[m + 1]] <= preorders[x])
    BY <1>1, <2>1
  <2>3. preorders[maybe[m + 1]] \in Nat /\ preorders[x] \in Nat
    BY StackFacts
  <2> QED BY <2>2, <2>3
<1>7. x \in Segment(m)
  BY <1>1, <1>4, <1>6 DEF Segment
<1> QED BY <1>5, <1>7

\* A maybe is in its segment.
LEMMA SegmentHead ==
  ASSUME SortTypes, Path, Stacks, NEW j \in DOMAIN maybe
  PROVE  maybe[j] \in Segment(j)
<1>1. maybe[j] \in Active /\ preorders[maybe[j]] \in Nat
  BY StackFacts
<1>2. j + 1 \in DOMAIN maybe => preorders[maybe[j]] < preorders[maybe[j + 1]]
  <2>1. j < j + 1
    BY Lengths
  <2> QED BY <2>1 DEF Stacks
<1> QED BY <1>1, <1>2 DEF Segment

\* What goes from each item of the path to the next one reaches the top.
LEMMA PathReach ==
  ASSUME SortTypes, NEW p \in DOMAIN frames, NEW T, frames[p].item \in T,
         \A q \in DOMAIN frames : p <= q /\ q + 1 \in DOMAIN frames /\ frames[q].item \in T
                                     => frames[q + 1].item \in T
  PROVE  \A q \in DOMAIN frames : p <= q => frames[q].item \in T
<1>1. PICK n : n = Len(frames) - p
  OBVIOUS
<1>2. n \in Nat /\ p \in Nat /\ p >= 1 /\ DOMAIN frames = 1 .. p + n
  BY <1>1, Lengths
<1>3. PICK S : S = {d \in 0 .. n : frames[p + d].item \in T}
  OBVIOUS
<1>4. 0 \in S
  BY <1>2, <1>3
<1>5. ASSUME NEW d \in 1 .. n, d - 1 \in S PROVE d \in S
  <2>1. PICK q : q = p + d - 1
    OBVIOUS
  <2>2. q \in DOMAIN frames /\ p <= q /\ q + 1 \in DOMAIN frames /\ p + (d - 1) = q /\ p + d = q + 1
    BY <1>2, <2>1
  <2>3. frames[q].item \in T
    BY <1>3, <1>5, <2>2
  <2>4. frames[q + 1].item \in T
    BY <2>2, <2>3
  <2>5. d \in 0 .. n
    BY <1>2
  <2> QED BY <1>3, <2>2, <2>4, <2>5
<1>6. S = 0 .. n
  BY <1>2, <1>3, <1>4, <1>5, UpTo
<1> SUFFICES ASSUME NEW q \in DOMAIN frames, p <= q PROVE frames[q].item \in T
  OBVIOUS
<1>7. PICK d : d = q - p
  OBVIOUS
<1>8. d \in 0 .. n /\ p + d = q
  BY <1>2, <1>7
<1> QED BY <1>3, <1>6, <1>8

-----------------------------------------------------------------------------
(* A step of the sort adds to the stacks *)

\* To have strong segments after a step, it is enough to know what sets they are.
LEMMA StrongSegments ==
  ASSUME UNCHANGED <<program, table>>,
         \A j \in DOMAIN maybe' : \E S : Segment(j)' = S /\ Strong(S)
  PROVE  Segments'
<1>1. \A x : Needed(x)' = Needed(x)
  BY SameTable
<1> SUFFICES ASSUME NEW j \in DOMAIN maybe'
             PROVE  \A T \in SUBSET Segment(j)' : T = {} \/ T = Segment(j)'
                       \/ \E x \in T : Needed(x)' \cap (Segment(j)' \ T) # {}
  BY DEF Segments, Strong
<1>2. PICK S : Segment(j)' = S /\ Strong(S)
  OBVIOUS
<1>3. \A T \in SUBSET S : T = {} \/ T = S \/ \E x \in T : Needed(x) \cap (S \ T) # {}
  BY <1>2 DEF Strong
<1> QED BY <1>1, <1>2, <1>3

\* The calls that are left when the top one has taken its next edge.
Waiting == Append(Front(frames), [Last(frames) EXCEPT !.left = Tail(@)])

\* The calls go on as they are, but for the edge to i of the top one.
GoesOn(left, i) ==
  /\ left \in Seq(Frames) /\ Len(left) = Len(frames)
  /\ \A k \in DOMAIN frames :
       /\ left[k].item = frames[k].item
       /\ ToSet(left[k].left) \subseteq ToSet(frames[k].left)
       /\ ToSet(frames[k].left) \subseteq ToSet(left[k].left) \cup {i}
       /\ i \in ToSet(frames[k].left) => i \in ToSet(left[k].left) \/ k = Len(frames)
       /\ k = Len(frames) => i \in Needed(frames[k].item)

\* Taking an edge leaves the calls as they are, but for that edge.
LEMMA WaitingGoesOn ==
  ASSUME SortTypes, Path, frames # <<>>, Last(frames).left # <<>>
  PROVE  /\ GoesOn(Waiting, Head(Last(frames).left)) /\ Head(Last(frames).left) \in Items
         /\ Waiting # <<>> /\ Head(Last(frames).left) \in Needed(Last(frames).item)
<1>1. PICK n, f, l, i, h : n = Len(frames) /\ f = Last(frames) /\ l = f.left /\ i = Head(l) /\ h = Front(frames)
  OBVIOUS
<1>2. /\ n \in Nat \ {0} /\ DOMAIN frames = 1 .. n /\ n \in DOMAIN frames /\ f = frames[n] /\ f \in Frames
      /\ h \in Seq(Frames) /\ Len(h) = n - 1 /\ DOMAIN h = 1 .. n - 1
      /\ \A k \in 1 .. n - 1 : h[k] = frames[k]
  <2>1. frames \in Seq(Frames)
    BY DEF SortTypes
  <2>2. /\ n \in Nat \ {0} /\ DOMAIN frames = 1 .. n /\ n \in DOMAIN frames
        /\ Last(frames) = frames[n] /\ Last(frames) \in Frames
        /\ Front(frames) \in Seq(Frames) /\ Len(Front(frames)) = n - 1 /\ DOMAIN Front(frames) = 1 .. n - 1
        /\ \A k \in 1 .. n - 1 : Front(frames)[k] = frames[k]
    <3>1. PICK s : s = frames
      OBVIOUS
    <3>2. s \in Seq(Frames) /\ s # <<>> /\ n = Len(s)
      BY <1>1, <2>1, <3>1
    <3>3. /\ n \in Nat \ {0} /\ DOMAIN s = 1 .. n /\ n \in DOMAIN s
          /\ Last(s) = s[n] /\ Last(s) \in Frames
          /\ Front(s) \in Seq(Frames) /\ Len(Front(s)) = n - 1 /\ DOMAIN Front(s) = 1 .. n - 1
          /\ \A k \in 1 .. n - 1 : Front(s)[k] = s[k]
      BY <3>2, FrontLast
    <3> QED BY <3>1, <3>3, Zenon
  <2> QED BY <1>1, <2>2, Zenon
<1>3. l \in Seq(Items) /\ l # <<>> /\ f.item \in Items /\ f = [item |-> f.item, left |-> l]
  BY <1>1, <1>2 DEF Frames
<1>4. i \in Items /\ i \in ToSet(l) /\ Tail(l) \in Seq(Items) /\ ToSet(l) = {i} \cup ToSet(Tail(l))
  BY <1>1, <1>3, HeadTailSet
<1>5. PICK g, w : g = [f EXCEPT !.left = Tail(l)] /\ w = Append(h, g)
  OBVIOUS
<1>6. g = [item |-> f.item, left |-> Tail(l)]
  BY <1>3, <1>5
<1>7. g \in Frames /\ g.item = f.item /\ g.left = Tail(l)
  BY <1>3, <1>4, <1>6 DEF Frames
<1>8. PICK m : m = n - 1
  OBVIOUS
<1>9. /\ w \in Seq(Frames) /\ DOMAIN w = 1 .. m + 1 /\ Len(w) = m + 1 /\ (\A k \in 1 .. m : w[k] = h[k])
      /\ w[m + 1] = g /\ w # <<>>
  BY <1>2, <1>5, <1>7, <1>8, AppendFacts
<1>10. m \in Nat /\ m + 1 = n
  BY <1>2, <1>8
<1>11. Waiting = w
  BY <1>1, <1>5 DEF Waiting
<1>12. i \in Needed(f.item)
  BY <1>1, <1>2, <1>4 DEF Path
<1>13. ASSUME NEW k \in DOMAIN frames
       PROVE  /\ w[k].item = frames[k].item
              /\ ToSet(w[k].left) \subseteq ToSet(frames[k].left)
              /\ ToSet(frames[k].left) \subseteq ToSet(w[k].left) \cup {i}
              /\ i \in ToSet(frames[k].left) => i \in ToSet(w[k].left) \/ k = n
              /\ k = n => i \in Needed(frames[k].item)
  <2>1. CASE k = n
    BY <1>1, <1>2, <1>4, <1>7, <1>9, <1>10, <1>12, <2>1
  <2>2. CASE k # n
    <3>1. k \in 1 .. m
      BY <1>2, <1>10, <2>2
    <3> QED BY <1>2, <1>8, <1>9, <2>2, <3>1
  <2> QED BY <2>1, <2>2
<1>14. GoesOn(w, i)
  <2>1. w \in Seq(Frames) /\ Len(w) = Len(frames)
    BY <1>1, <1>9, <1>10
  <2> QED BY <1>1, <1>13, <2>1 DEF GoesOn
<1> QED BY <1>1, <1>4, <1>9, <1>11, <1>12, <1>14

\* A call for an item without a number, whoever calls: it is a segment of its own.
LEMMA VisitStep ==
  ASSUME SortTypes, Path, Stacks, Followed, Segments, UNCHANGED <<program, table, file, sorting, sccs, groups>>,
         roots' \in Seq(Items), file # 0,
         NEW left, NEW i, GoesOn(left, i), Named(i), i \notin DOMAIN preorders, i \notin sccs,
         Visit(i, left), Running'
  PROVE  /\ SortTypes' /\ Path' /\ Stacks' /\ Followed' /\ Segments'
         /\ Active' = Active \cup {i} /\ frames' # <<>>
         /\ frames'[1].item = IF frames = <<>> THEN i ELSE frames[1].item
<1> USE DEF Running
<1>1. i \in Items /\ Edges(Item(i)) \in Seq(Items)
  BY NamedFacts
<1>2. /\ Len(unassigned) < StackCapacity
      /\ preorders' = [x \in DOMAIN preorders \cup {i} |-> IF x = i THEN counter ELSE preorders[x]]
      /\ counter' = counter + 1
      /\ unassigned' = Append(unassigned, i)
      /\ maybe' = Append(maybe, i)
      /\ frames' = Append(left, [item |-> i, left |-> Edges(Item(i))])
  <2>1. ~(Len(unassigned) >= StackCapacity)
    BY DEF Visit, Fatal
  <2>2. Len(unassigned) \in Nat /\ StackCapacity \in Nat
    BY Lengths, StackCapacityAssumption
  <2> QED BY <2>1, <2>2 DEF Visit
<1>3. PICK f, n, a, b : f = [item |-> i, left |-> Edges(Item(i))] /\ n = Len(frames) /\ a = Len(unassigned) /\ b = Len(maybe)
  OBVIOUS
<1>4. /\ f \in Frames /\ f.item = i /\ f.left = Edges(Item(i)) /\ left \in Seq(Frames) /\ Len(left) = n
      /\ n \in Nat /\ DOMAIN frames = 1 .. n /\ a \in Nat /\ DOMAIN unassigned = 1 .. a
      /\ b \in Nat /\ DOMAIN maybe = 1 .. b /\ unassigned \in Seq(Items) /\ maybe \in Seq(Items)
      /\ (unassigned = <<>> <=> a = 0) /\ (maybe = <<>> <=> b = 0) /\ (frames = <<>> <=> n = 0)
  BY <1>1, <1>3, Lengths DEF Frames, GoesOn, SortTypes
<1>5. /\ frames' \in Seq(Frames) /\ DOMAIN frames' = 1 .. n + 1 /\ (\A k \in 1 .. n : frames'[k] = left[k])
      /\ frames'[n + 1] = f /\ frames' # <<>>
  BY <1>2, <1>3, <1>4, AppendFacts
<1>6. /\ unassigned' \in Seq(Items) /\ DOMAIN unassigned' = 1 .. a + 1 /\ Len(unassigned') = a + 1
      /\ (\A k \in 1 .. a : unassigned'[k] = unassigned[k]) /\ unassigned'[a + 1] = i
      /\ ToSet(unassigned') = ToSet(unassigned) \cup {i}
  <2>1. PICK u : u = Append(unassigned, i)
    OBVIOUS
  <2>2. /\ u \in Seq(Items) /\ DOMAIN u = 1 .. a + 1 /\ Len(u) = a + 1
        /\ (\A k \in 1 .. a : u[k] = unassigned[k]) /\ u[a + 1] = i /\ ToSet(u) = ToSet(unassigned) \cup {i}
    BY <1>1, <1>3, <1>4, <2>1, AppendFacts
  <2> QED BY <1>2, <2>1, <2>2, Zenon
<1>7. /\ maybe' \in Seq(Items) /\ DOMAIN maybe' = 1 .. b + 1
      /\ (\A k \in 1 .. b : maybe'[k] = maybe[k]) /\ maybe'[b + 1] = i
      /\ ToSet(maybe') = ToSet(maybe) \cup {i}
  <2>1. PICK u : u = Append(maybe, i)
    OBVIOUS
  <2>2. /\ u \in Seq(Items) /\ DOMAIN u = 1 .. b + 1 /\ Len(u) = b + 1
        /\ (\A k \in 1 .. b : u[k] = maybe[k]) /\ u[b + 1] = i /\ ToSet(u) = ToSet(maybe) \cup {i}
    <3>1. i \in Items /\ maybe \in Seq(Items) /\ b = Len(maybe)
      BY <1>1, <1>3, <1>4
    <3> QED BY <2>1, <3>1, AppendFacts
  <2> QED BY <1>2, <2>1, <2>2, Zenon
<1>8. Active' = Active \cup {i}
  BY <1>6 DEF Active
<1>9. /\ DOMAIN preorders' = DOMAIN preorders \cup {i} /\ preorders'[i] = counter /\ counter \in Nat
      /\ \A x \in DOMAIN preorders : preorders'[x] = preorders[x] /\ x # i
  BY <1>2 DEF SortTypes
<1>10. /\ \A x \in Active : x # i /\ preorders'[x] = preorders[x] /\ preorders[x] \in Nat /\ preorders[x] < counter
       /\ \A k \in DOMAIN frames : frames[k].item \in Active
       /\ \A k \in DOMAIN maybe : maybe[k] \in Active /\ maybe[k] \in ToSet(maybe)
       /\ \A m \in ToSet(maybe) : m \in Active
       /\ \A k \in DOMAIN unassigned : unassigned[k] \in Active
  BY <1>9, StackFacts
<1>11. /\ \A x : (Named(x)' <=> Named(x)) /\ Needed(x)' = Needed(x)
  BY SameTable
<1>12. Needed(i) = ToSet(f.left)
  BY <1>4 DEF Needed
<1>13. \A k \in 1 .. n : frames'[k].item = frames[k].item
  BY <1>4, <1>5 DEF GoesOn
<1>14. SortTypes'
  <2>1. \A x \in DOMAIN preorders' : x \in Items /\ preorders'[x] \in Nat /\ preorders'[x] < counter'
    <3> SUFFICES ASSUME NEW x \in DOMAIN preorders'
                 PROVE x \in Items /\ preorders'[x] \in Nat /\ preorders'[x] < counter'
      OBVIOUS
    <3>1. CASE x = i
      BY <1>1, <1>2, <1>9, <3>1
    <3>2. CASE x # i
      <4>1. x \in DOMAIN preorders
        BY <1>9, <3>2
      <4>2. x \in Items /\ preorders[x] \in Nat /\ preorders[x] < counter
        BY <4>1 DEF SortTypes
      <4> QED BY <1>2, <1>9, <4>1, <4>2
    <3> QED BY <3>1, <3>2
  <2>2. counter' \in Nat /\ Len(unassigned') <= StackCapacity
    BY <1>2, <1>3, <1>4, <1>6, <1>9, StackCapacityAssumption
  <2> QED BY <1>5, <1>6, <1>7, <2>1, <2>2 DEF SortTypes
<1>15. Path'
  <2>1. ASSUME NEW k \in 1 .. n + 1
        PROVE  frames'[k].item \in Active' /\ ToSet(frames'[k].left) \subseteq Needed(frames'[k].item)
    <3>1. CASE k = n + 1
      BY <1>4, <1>5, <1>8, <1>12, <3>1
    <3>2. CASE k # n + 1
      <4>1. k \in 1 .. n
        BY <1>4, <3>2
      <4>2. ToSet(frames[k].left) \subseteq Needed(frames[k].item)
        BY <1>4, <4>1 DEF Path
      <4>3. ToSet(left[k].left) \subseteq ToSet(frames[k].left)
        BY <1>4, <4>1 DEF GoesOn
      <4> QED BY <1>4, <1>5, <1>8, <1>10, <1>13, <4>1, <4>2, <4>3
    <3> QED BY <3>1, <3>2
  <2>2. ASSUME NEW k \in 1 .. n + 1, k + 1 \in 1 .. n + 1
        PROVE  frames'[k + 1].item \in Needed(frames'[k].item)
    <3>1. k \in 1 .. n
      BY <1>4, <2>2
    <3>2. CASE k = n
      <4>1. i \in Needed(frames[k].item)
        BY <1>3, <1>4, <3>1, <3>2 DEF GoesOn
      <4> QED BY <1>4, <1>5, <1>13, <3>1, <3>2, <4>1
    <3>3. CASE k # n
      <4>1. k + 1 \in 1 .. n
        BY <1>4, <3>1, <3>3
      <4>2. frames[k + 1].item \in Needed(frames[k].item)
        BY <1>4, <3>1, <4>1 DEF Path
      <4> QED BY <1>13, <3>1, <4>1, <4>2
    <3> QED BY <3>2, <3>3
  <2>3. ASSUME NEW k \in 1 .. n + 1, NEW l \in 1 .. n + 1, k < l
        PROVE  preorders'[frames'[k].item] < preorders'[frames'[l].item]
    <3>1. k \in 1 .. n
      BY <1>4, <2>3
    <3>2. frames'[k].item = frames[k].item /\ frames[k].item \in Active
      BY <1>4, <1>10, <1>13, <3>1
    <3>3. CASE l = n + 1
      BY <1>4, <1>5, <1>9, <1>10, <3>2, <3>3
    <3>4. CASE l # n + 1
      <4>1. l \in 1 .. n
        BY <1>4, <3>4
      <4>2. preorders[frames[k].item] < preorders[frames[l].item]
        BY <1>4, <2>3, <3>1, <4>1 DEF Path
      <4>3. frames'[l].item = frames[l].item /\ frames[l].item \in Active
        BY <1>4, <1>10, <1>13, <4>1
      <4> QED BY <1>10, <3>2, <4>2, <4>3
    <3> QED BY <3>3, <3>4
  <2> QED BY <1>5, <1>11, <2>1, <2>2, <2>3 DEF Path
<1>16. Stacks'
  <2>1. Active' = DOMAIN preorders' \ sccs'
    BY <1>8, <1>9 DEF Stacks
  <2>2. \A x \in Active' : Named(x)'
    BY <1>8, <1>11 DEF Stacks
  <2>3. ASSUME NEW k \in 1 .. a + 1, NEW l \in 1 .. a + 1, k < l
        PROVE  preorders'[unassigned'[k]] < preorders'[unassigned'[l]]
    <3>0. k \in 1 .. a
      BY <1>4, <2>3
    <3>1. k \in 1 .. a /\ unassigned'[k] = unassigned[k] /\ unassigned[k] \in Active
      BY <1>4, <1>6, <1>10, <3>0
    <3>2. CASE l = a + 1
      <4>1. preorders'[unassigned'[k]] < counter
        BY <1>10, <3>1
      <4>2. unassigned'[l] = i
        BY <1>6, <3>2
      <4> QED BY <1>9, <4>1, <4>2
    <3>3. CASE l # a + 1
      <4>0. l \in 1 .. a
        BY <1>4, <3>3
      <4>1. l \in 1 .. a /\ unassigned'[l] = unassigned[l] /\ unassigned[l] \in Active
        BY <1>4, <1>6, <1>10, <4>0
      <4>2. preorders[unassigned[k]] < preorders[unassigned[l]]
        BY <1>4, <2>3, <3>1, <4>1 DEF Stacks
      <4> QED BY <1>10, <3>1, <4>1, <4>2
    <3> QED BY <3>2, <3>3
  <2>4. ASSUME NEW k \in 1 .. b + 1, NEW l \in 1 .. b + 1, k < l
        PROVE  preorders'[maybe'[k]] < preorders'[maybe'[l]]
    <3>0. k \in 1 .. b
      BY <1>4, <2>4
    <3>1. k \in 1 .. b /\ maybe'[k] = maybe[k] /\ maybe[k] \in Active
      BY <1>4, <1>7, <1>10, <3>0
    <3>2. CASE l = b + 1
      <4>1. preorders'[maybe'[k]] < counter
        BY <1>10, <3>1
      <4>2. maybe'[l] = i
        BY <1>7, <3>2
      <4> QED BY <1>9, <4>1, <4>2
    <3>3. CASE l # b + 1
      <4>0. l \in 1 .. b
        BY <1>4, <3>3
      <4>1. l \in 1 .. b /\ maybe'[l] = maybe[l] /\ maybe[l] \in Active
        BY <1>4, <1>7, <1>10, <4>0
      <4>2. preorders[maybe[k]] < preorders[maybe[l]]
        BY <1>4, <2>4, <3>1, <4>1 DEF Stacks
      <4> QED BY <1>10, <3>1, <4>1, <4>2
    <3> QED BY <3>2, <3>3
  <2>5. ToSet(maybe') \subseteq OnPath'
    <3> SUFFICES ASSUME NEW m \in ToSet(maybe') PROVE \E k \in DOMAIN frames' : m = frames'[k].item
      BY DEF OnPath
    <3>1. CASE m = i
      <4>1. n + 1 \in DOMAIN frames'
        BY <1>4, <1>5
      <4> QED BY <1>4, <1>5, <3>1, <4>1
    <3>2. CASE m # i
      <4>1. m \in OnPath
        BY <1>7, <3>2 DEF Stacks
      <4>2. PICK k \in DOMAIN frames : m = frames[k].item
        BY <4>1 DEF OnPath
      <4>3. k \in DOMAIN frames'
        BY <1>4, <1>5
      <4> QED BY <1>4, <1>13, <4>2, <4>3
    <3> QED BY <3>1, <3>2
  <2>6. maybe'[1] = unassigned'[1] /\ maybe' # <<>>
    <3>1. CASE unassigned = <<>>
      <4>1. b = 0
        <5>1. Active = {}
          BY <1>4, <3>1 DEF Active, ToSet
        <5>2. DOMAIN maybe = {}
          BY <1>10, <5>1
        <5>3. 1 \notin 1 .. b
          BY <1>4, <5>2
        <5>4. b \in Nat
          BY <1>4
        <5>5. b # 0 => 1 \in 1 .. b
          BY <5>4
        <5> QED BY <5>3, <5>5
      <4>2. a = 0
        BY <1>4, <3>1
      <4>3. maybe'[1] = i /\ unassigned'[1] = i /\ 1 \in DOMAIN maybe'
        BY <1>6, <1>7, <4>1, <4>2
      <4>4. \A s : s = <<>> => DOMAIN s = {}
        OBVIOUS
      <4> QED BY <4>3, <4>4
    <3>2. CASE unassigned # <<>>
      <4>1. maybe # <<>> /\ maybe[1] = unassigned[1]
        BY <3>2 DEF Stacks
      <4>2. 1 \in 1 .. a /\ 1 \in 1 .. b
        BY <1>4, <3>2, <4>1
      <4> QED BY <1>4, <1>6, <1>7, <4>1, <4>2
    <3> QED BY <3>1, <3>2
  <2> QED BY <1>6, <1>7, <2>1, <2>2, <2>3, <2>4, <2>5, <2>6 DEF Stacks
<1>17. Followed'
  <2> SUFFICES ASSUME NEW x \in Active', NEW y \in Needed(x)
               PROVE  \/ y \in sccs
                      \/ y \in Active' /\ \A m \in ToSet(maybe') : preorders'[m] <= preorders'[x] => preorders'[m] <= preorders'[y]
                      \/ \E k \in DOMAIN frames' : frames'[k].item = x /\ y \in ToSet(frames'[k].left)
    BY <1>11 DEF Followed
  <2>1. CASE x = i
    <3>1. n + 1 \in DOMAIN frames'
      BY <1>4, <1>5
    <3> QED BY <1>4, <1>5, <1>12, <2>1, <3>1
  <2>2. CASE x # i
    <3>1. x \in Active
      BY <1>8, <2>2
    <3>2. CASE y = i
      <4>1. \A m \in ToSet(maybe') : preorders'[m] <= preorders'[y]
        <5> TAKE m \in ToSet(maybe')
        <5>1. m = i \/ m \in Active
          BY <1>7, <1>10
        <5> QED BY <1>9, <1>10, <3>2, <5>1
      <4> QED BY <1>8, <3>2, <4>1
    <3>3. CASE y # i
      <4>1. CASE y \in Active /\ \A m \in ToSet(maybe) : preorders[m] <= preorders[x] => preorders[m] <= preorders[y]
        <5>1. ASSUME NEW m \in ToSet(maybe'), preorders'[m] <= preorders'[x] PROVE preorders'[m] <= preorders'[y]
          <6>1. m # i
            BY <1>9, <1>10, <3>1, <5>1
          <6>2. m \in ToSet(maybe) /\ m \in Active
            BY <1>7, <1>10, <6>1
          <6> QED BY <1>10, <3>1, <4>1, <5>1, <6>2
        <5> QED BY <1>8, <4>1, <5>1
      <4>2. CASE \E k \in DOMAIN frames : frames[k].item = x /\ y \in ToSet(frames[k].left)
        <5>1. PICK k \in DOMAIN frames : frames[k].item = x /\ y \in ToSet(frames[k].left)
          BY <4>2
        <5>2. y \in ToSet(left[k].left)
          BY <3>3, <5>1 DEF GoesOn
        <5>3. k \in DOMAIN frames'
          BY <1>4, <1>5
        <5> QED BY <1>4, <1>5, <1>13, <5>1, <5>2, <5>3
      <4> QED BY <3>1, <4>1, <4>2 DEF Followed
    <3> QED BY <3>2, <3>3
  <2> QED BY <2>1, <2>2
<1>18. Segments'
  <2> SUFFICES ASSUME NEW j \in DOMAIN maybe' PROVE \E S : Segment(j)' = S /\ Strong(S)
    BY StrongSegments
  <2>0. Segment(j)' = {x \in Active' : /\ preorders'[maybe'[j]] <= preorders'[x]
                                       /\ j + 1 \in DOMAIN maybe' => preorders'[x] < preorders'[maybe'[j + 1]]}
    BY DEF Segment
  <2>1. CASE j = b + 1
    <3>1. j + 1 \notin DOMAIN maybe'
      BY <1>4, <1>7, <2>1
    <3>2. Segment(j)' = {i}
      BY <1>7, <1>8, <1>9, <1>10, <2>0, <2>1, <3>1
    <3>3. Strong({i})
      BY DEF Strong
    <3> QED BY <3>2, <3>3
  <2>2. CASE j # b + 1
    <3>1. j \in DOMAIN maybe /\ maybe'[j] = maybe[j] /\ maybe[j] \in Active /\ j + 1 \in DOMAIN maybe'
      BY <1>4, <1>7, <1>10, <2>2
    <3>2. ASSUME NEW x
          PROVE  x \in Active' /\ preorders'[maybe'[j]] <= preorders'[x] /\ preorders'[x] < preorders'[maybe'[j + 1]]
                 <=> x \in Active /\ preorders[maybe[j]] <= preorders[x]
                        /\ (j + 1 \in DOMAIN maybe => preorders[x] < preorders[maybe[j + 1]])
      <4>1. CASE x = i
        <5>1. j + 1 \in 1 .. b \/ j = b
          BY <1>4, <1>7, <2>2
        <5>2. CASE j + 1 \in 1 .. b
          BY <1>4, <1>7, <1>9, <1>10, <4>1, <5>2
        <5>3. CASE j = b
          BY <1>4, <1>7, <1>9, <1>10, <4>1, <5>3
        <5> QED BY <5>1, <5>2, <5>3
      <4>2. CASE x \in Active
        <5>1. preorders'[maybe'[j]] = preorders[maybe[j]] /\ preorders'[x] = preorders[x]
          BY <1>10, <3>1, <4>2
        <5>2. CASE j + 1 \in 1 .. b
          BY <1>4, <1>7, <1>8, <1>10, <4>2, <5>1, <5>2
        <5>3. CASE j + 1 \notin 1 .. b
          <6>1. j = b
            BY <1>4, <3>1, <5>3
          <6>2. preorders'[maybe'[j + 1]] = counter
            BY <1>7, <1>9, <6>1
          <6> QED BY <1>4, <1>8, <1>10, <4>2, <5>1, <5>3, <6>2
        <5> QED BY <5>2, <5>3
      <4>3. CASE x # i /\ x \notin Active
        BY <1>8, <4>3
      <4> QED BY <4>1, <4>2, <4>3
    <3>3. Segment(j)' = Segment(j)
      BY <2>0, <3>1, <3>2 DEF Segment
    <3>4. Strong(Segment(j))
      BY <3>1 DEF Segments
    <3> QED BY <3>3, <3>4
  <2> QED BY <2>1, <2>2
<1>19. frames'[1].item = IF frames = <<>> THEN i ELSE frames[1].item
  <2>1. CASE n = 0
    BY <1>4, <1>5, <2>1
  <2>2. CASE n # 0
    <3>1. 1 \in 1 .. n
      BY <1>4, <2>2
    <3> QED BY <1>4, <1>13, <2>2, <3>1
  <2> QED BY <2>1, <2>2
<1> QED BY <1>5, <1>8, <1>14, <1>15, <1>16, <1>17, <1>18, <1>19

-----------------------------------------------------------------------------
(* A step of the sort takes an edge *)

\* An edge from the top of the path back into the segment of a maybe makes one strong set of
\* this segment and all later ones: what is closed in it goes up the path to the top, from
\* there to the segment of that maybe, and from there up the path to every later maybe.
LEMMA MergeStrong ==
  ASSUME SortTypes, Path, Stacks, Segments, frames # <<>>,
         NEW K \in DOMAIN maybe, NEW i \in Active, i \in Needed(frames[Len(frames)].item),
         preorders[maybe[K]] <= preorders[i],
         K + 1 \in DOMAIN maybe => preorders[i] < preorders[maybe[K + 1]]
  PROVE  Strong({x \in Active : preorders[maybe[K]] <= preorders[x]})
<1>1. PICK U : U = {x \in Active : preorders[maybe[K]] <= preorders[x]}
  OBVIOUS
<1> SUFFICES ASSUME NEW T \in SUBSET U, T # {}, \A x \in T : Needed(x) \cap (U \ T) = {}
             PROVE  T = U
  BY <1>1 DEF Strong
<1>2. /\ \A x \in Active : preorders[x] \in Nat
      /\ \A k \in DOMAIN maybe : maybe[k] \in Active
      /\ \A k \in DOMAIN frames : frames[k].item \in Active
      /\ \A k \in DOMAIN maybe : \E p \in DOMAIN frames : maybe[k] = frames[p].item
  BY StackFacts
<1>3. \A k \in DOMAIN maybe : K <= k => preorders[maybe[K]] <= preorders[maybe[k]]
  BY InTheirOrder
<1>4. ASSUME NEW k \in DOMAIN maybe, K <= k PROVE Segment(k) \subseteq U
  <2> SUFFICES ASSUME NEW x \in Segment(k) PROVE x \in U
    OBVIOUS
  <2>1. x \in Active /\ preorders[maybe[k]] <= preorders[x]
    BY DEF Segment
  <2>2. /\ preorders[maybe[K]] \in Nat /\ preorders[maybe[k]] \in Nat /\ preorders[x] \in Nat
        /\ preorders[maybe[K]] <= preorders[maybe[k]]
    BY <1>2, <1>3, <1>4, <2>1
  <2> QED BY <1>1, <2>1, <2>2
<1>5. ASSUME NEW k \in DOMAIN maybe, K <= k, NEW z \in T, z \in Segment(k) PROVE Segment(k) \subseteq T
  <2>1. PICK G : G = Segment(k)
    OBVIOUS
  <2>2. G \subseteq U
    BY <1>4, <1>5, <2>1
  <2>3. \A R \in SUBSET G : R = {} \/ R = G \/ \E x \in R : Needed(x) \cap (G \ R) # {}
    BY <2>1 DEF Segments, Strong
  <2>4. PICK R : R = T \cap G
    OBVIOUS
  <2>5. R \in SUBSET G /\ R # {}
    BY <1>5, <2>1, <2>4
  <2>6. ~ \E x \in R : Needed(x) \cap (G \ R) # {}
    <3> SUFFICES ASSUME NEW x \in R, NEW y \in Needed(x), y \in G \ R PROVE FALSE
      OBVIOUS
    <3>1. x \in T /\ y \in U \ T
      BY <2>2, <2>4
    <3> QED BY <3>1
  <2>7. R = G
    BY <2>3, <2>5, <2>6
  <2> QED BY <2>1, <2>4, <2>7
<1>6. ASSUME NEW x \in U PROVE \E k \in DOMAIN maybe : K <= k /\ x \in Segment(k)
  <2>1. x \in Active /\ preorders[maybe[K]] <= preorders[x]
    BY <1>1
  <2> QED BY <2>1, SegmentOf
<1>7. ASSUME NEW p \in DOMAIN frames, frames[p].item \in T
      PROVE  \A q \in DOMAIN frames : p <= q => frames[q].item \in T
  <2>1. ASSUME NEW q \in DOMAIN frames, p <= q, q + 1 \in DOMAIN frames, frames[q].item \in T
        PROVE  frames[q + 1].item \in T
    <3>1. frames[q + 1].item \in Needed(frames[q].item)
      BY <2>1 DEF Path
    <3>2. q <= q + 1
      BY Lengths
    <3>3. preorders[frames[q].item] <= preorders[frames[q + 1].item]
      BY <2>1, <3>2, InTheirOrder
    <3>4. frames[q].item \in Active /\ frames[q + 1].item \in Active /\ preorders[maybe[K]] <= preorders[frames[q].item]
      BY <1>1, <1>2, <2>1
    <3>5. /\ preorders[maybe[K]] \in Nat /\ preorders[frames[q].item] \in Nat
          /\ preorders[frames[q + 1].item] \in Nat
      BY <1>2, <3>4
    <3>6. preorders[maybe[K]] <= preorders[frames[q + 1].item]
      BY <3>3, <3>4, <3>5
    <3>7. frames[q + 1].item \in U
      BY <1>1, <3>4, <3>6
    <3> QED BY <2>1, <3>1, <3>7
  <2> QED BY <1>7, <2>1, PathReach
<1>8. PICK z \in T : TRUE
  OBVIOUS
<1>9. PICK k \in DOMAIN maybe : K <= k /\ z \in Segment(k)
  BY <1>6, <1>8
<1>10. maybe[k] \in T
  BY <1>5, <1>9, SegmentHead
<1>11. PICK p \in DOMAIN frames : maybe[k] = frames[p].item
  BY <1>2
<1>12. Len(frames) \in DOMAIN frames /\ p <= Len(frames)
  BY Lengths
<1>13. frames[Len(frames)].item \in T
  BY <1>7, <1>10, <1>11, <1>12
<1>14. i \in U
  BY <1>1
<1>15. i \in T
  BY <1>13, <1>14
<1>16. i \in Segment(K)
  BY DEF Segment
<1>17. K <= K
  BY Lengths
<1>18. maybe[K] \in T
  BY <1>5, <1>15, <1>16, <1>17, SegmentHead
<1>19. ASSUME NEW l \in DOMAIN maybe, K <= l PROVE Segment(l) \subseteq T
  <2>1. PICK a \in DOMAIN frames : maybe[K] = frames[a].item
    BY <1>2
  <2>2. PICK b \in DOMAIN frames : maybe[l] = frames[b].item
    BY <1>2
  <2>3. a <= b
    BY <1>3, <1>19, <2>1, <2>2, InTheirOrder
  <2>4. maybe[l] \in T
    BY <1>7, <1>18, <2>1, <2>2, <2>3
  <2> QED BY <1>5, <1>19, <2>4, SegmentHead
<1> QED BY <1>6, <1>19

\* What BackTo leaves of the maybes: those up to the last one that is not above the item.
LEMMA BackToFacts ==
  ASSUME SortTypes, Path, Stacks, NEW i \in Active
  PROVE  \E K \in DOMAIN maybe :
           /\ BackTo(i) \in Seq(Items) /\ DOMAIN BackTo(i) = 1 .. K
           /\ \A k \in 1 .. K : BackTo(i)[k] = maybe[k]
           /\ preorders[maybe[K]] <= preorders[i]
           /\ K + 1 \in DOMAIN maybe => preorders[i] < preorders[maybe[K + 1]]
<1>1. PICK S, K : S = {k \in DOMAIN maybe : preorders[maybe[k]] <= preorders[i]} /\ K = Max(S)
  OBVIOUS
<1>2. S \in SUBSET Nat /\ S # {} /\ Len(maybe) \in Nat /\ \A k \in S : k <= Len(maybe)
  BY <1>1, Lengths, Lowest
<1>3. K \in S /\ \A k \in S : k <= K
  BY <1>1, <1>2, MaxFacts
<1>4. K \in DOMAIN maybe /\ preorders[maybe[K]] <= preorders[i]
  BY <1>1, <1>3
<1>5. K + 1 \in DOMAIN maybe => preorders[i] < preorders[maybe[K + 1]]
  <2> SUFFICES ASSUME K + 1 \in DOMAIN maybe PROVE preorders[i] < preorders[maybe[K + 1]]
    OBVIOUS
  <2>1. K + 1 \notin S
    BY <1>2, <1>3
  <2>2. preorders[maybe[K + 1]] \in Nat /\ preorders[i] \in Nat
    BY StackFacts
  <2>3. ~(preorders[maybe[K + 1]] <= preorders[i])
    BY <1>1, <2>1
  <2> QED BY <2>2, <2>3
<1>6. K \in Nat /\ 1 <= K /\ K <= Len(maybe) /\ 1 <= K + 1 /\ K = K - 1 + 1 /\ maybe \in Seq(Items) /\ 1 \in Nat /\ 1 <= 1
  BY <1>4, Lengths DEF SortTypes
<1>7. PICK r : r = SubSeq(maybe, 1, K)
  OBVIOUS
<1>8. r \in Seq(Items) /\ DOMAIN r = 1 .. K /\ \A j \in 1 .. K : r[j] = maybe[1 + j - 1]
  BY <1>6, <1>7, Cut
<1>9. \A j \in 1 .. K : r[j] = maybe[j]
  BY <1>6, <1>8
<1>10. BackTo(i) = r
  BY <1>1, <1>7, Zenon DEF BackTo
<1> QED BY <1>4, <1>5, <1>8, <1>9, <1>10

\* The top call takes an edge to an item that has a group, or to one on the stack.
LEMMA EdgeStep ==
  ASSUME SortTypes, Path, Stacks, Followed, Segments, frames # <<>>, Last(frames).left # <<>>,
         UNCHANGED <<program, table, file, sorting, roots, preorders, counter, unassigned, sccs, groups>>,
         frames' = Waiting,
         NEW i, i = Head(Last(frames).left),
         \/ i \in sccs /\ maybe' = maybe
         \/ i \in Active /\ maybe' = BackTo(i)
  PROVE  /\ SortTypes' /\ Path' /\ Stacks' /\ Followed' /\ Segments'
         /\ Active' = Active /\ frames' # <<>> /\ frames'[1].item = frames[1].item
<1>1. GoesOn(frames', i) /\ frames' # <<>> /\ i \in Needed(Last(frames).item)
  BY WaitingGoesOn
<1>2. PICK n : n = Len(frames)
  OBVIOUS
<1>3. n \in Nat \ {0} /\ DOMAIN frames = 1 .. n /\ DOMAIN frames' = 1 .. n /\ frames' \in Seq(Frames)
  <2>1. frames' \in Seq(Frames) /\ Len(frames') = n
    BY <1>1, <1>2 DEF GoesOn
  <2> QED BY <1>2, <2>1, Lengths
<1>4. \A k \in 1 .. n : /\ frames'[k].item = frames[k].item
                        /\ ToSet(frames'[k].left) \subseteq ToSet(frames[k].left)
                        /\ ToSet(frames[k].left) \subseteq ToSet(frames'[k].left) \cup {i}
  BY <1>1, <1>3 DEF GoesOn
<1>5. Active' = Active /\ preorders' = preorders
  BY DEF Active
<1>6. \A x : (Named(x)' <=> Named(x)) /\ Needed(x)' = Needed(x)
  BY SameTable
<1>7. PICK b : b = Len(maybe)
  OBVIOUS
<1>8. b \in Nat /\ DOMAIN maybe = 1 .. b
  BY <1>7, Lengths
<1>9. PICK K : /\ K \in 1 .. b /\ maybe' \in Seq(Items) /\ DOMAIN maybe' = 1 .. K
               /\ \A k \in 1 .. K : maybe'[k] = maybe[k]
               /\ \/ i \in sccs /\ K = b
                  \/ /\ i \in Active /\ preorders[maybe[K]] <= preorders[i]
                     /\ K + 1 \in DOMAIN maybe => preorders[i] < preorders[maybe[K + 1]]
  <2>1. CASE i \in sccs /\ maybe' = maybe
    <3>1. 1 \in DOMAIN frames
      BY <1>3
    <3>2. frames[1].item \in Active
      BY <3>1, StackFacts
    <3>3. 1 \in DOMAIN maybe
      BY <3>2, Lowest
    <3>4. b \in 1 .. b
      BY <1>8, <3>3
    <3>5. maybe \in Seq(Items)
      BY DEF SortTypes
    <3> QED BY <1>8, <2>1, <3>4, <3>5
  <2>2. CASE i \in Active /\ maybe' = BackTo(i)
    <3>1. PICK K \in DOMAIN maybe :
             /\ BackTo(i) \in Seq(Items) /\ DOMAIN BackTo(i) = 1 .. K
             /\ \A k \in 1 .. K : BackTo(i)[k] = maybe[k]
             /\ preorders[maybe[K]] <= preorders[i]
             /\ K + 1 \in DOMAIN maybe => preorders[i] < preorders[maybe[K + 1]]
      BY <2>2, BackToFacts
    <3> QED BY <1>8, <2>2, <3>1
  <2> QED BY <2>1, <2>2
<1>10. /\ ToSet(maybe') \subseteq ToSet(maybe)
       /\ 1 \in 1 .. K /\ K \in Nat /\ 1 .. K \subseteq 1 .. b
  <2>1. 1 .. K \subseteq 1 .. b /\ K \in Nat /\ 1 \in 1 .. K
    BY <1>8, <1>9
  <2>2. ToSet(maybe') \subseteq ToSet(maybe)
    BY <1>8, <1>9, <2>1, Zenon DEF ToSet
  <2> QED BY <2>1, <2>2
<1>11. SortTypes'
  BY <1>3, <1>9 DEF SortTypes
<1>12. Path'
  <2>1. ASSUME NEW k \in 1 .. n
        PROVE  frames'[k].item \in Active' /\ ToSet(frames'[k].left) \subseteq Needed(frames'[k].item)
    BY <1>3, <1>4, <1>5 DEF Path
  <2>2. ASSUME NEW k \in 1 .. n, k + 1 \in 1 .. n PROVE frames'[k + 1].item \in Needed(frames'[k].item)
    BY <1>3, <1>4, <2>2 DEF Path
  <2>3. ASSUME NEW k \in 1 .. n, NEW l \in 1 .. n, k < l
        PROVE  preorders'[frames'[k].item] < preorders'[frames'[l].item]
    BY <1>3, <1>4, <1>5, <2>3 DEF Path
  <2> QED BY <1>3, <1>6, <2>1, <2>2, <2>3 DEF Path
<1>13. OnPath' = OnPath
  BY <1>3, <1>4 DEF OnPath
<1>14. Stacks'
  <2>1. Active' = DOMAIN preorders' \ sccs' /\ \A x \in Active' : Named(x)'
    BY <1>5, <1>6 DEF Stacks
  <2>2. \A k, l \in DOMAIN unassigned' : k < l => preorders'[unassigned'[k]] < preorders'[unassigned'[l]]
    BY <1>5 DEF Stacks
  <2>3. ASSUME NEW k \in 1 .. K, NEW l \in 1 .. K, k < l PROVE preorders'[maybe'[k]] < preorders'[maybe'[l]]
    <3>1. k \in DOMAIN maybe /\ l \in DOMAIN maybe /\ maybe'[k] = maybe[k] /\ maybe'[l] = maybe[l]
      BY <1>8, <1>9, <1>10
    <3> QED BY <1>5, <2>3, <3>1 DEF Stacks
  <2>4. ToSet(maybe') \subseteq OnPath'
    BY <1>10, <1>13 DEF Stacks
  <2>5. unassigned' # <<>> => maybe' # <<>> /\ maybe'[1] = unassigned'[1]
    <3>1. maybe' # <<>>
      <4>1. \A s : s = <<>> => DOMAIN s = {}
        OBVIOUS
      <4> QED BY <1>9, <1>10, <4>1
    <3>2. maybe'[1] = maybe[1]
      BY <1>9, <1>10
    <3> QED BY <3>1, <3>2 DEF Stacks
  <2> QED BY <1>9, <2>1, <2>2, <2>3, <2>4, <2>5 DEF Stacks
<1>15. Followed'
  <2> SUFFICES ASSUME NEW x \in Active, NEW y \in Needed(x)
               PROVE  \/ y \in sccs
                      \/ y \in Active /\ \A m \in ToSet(maybe') : preorders[m] <= preorders[x] => preorders[m] <= preorders[y]
                      \/ \E k \in DOMAIN frames' : frames'[k].item = x /\ y \in ToSet(frames'[k].left)
    BY <1>5, <1>6 DEF Followed
  <2>1. CASE y \in Active /\ \A m \in ToSet(maybe) : preorders[m] <= preorders[x] => preorders[m] <= preorders[y]
    BY <1>10, <2>1
  <2>2. CASE \E k \in DOMAIN frames : frames[k].item = x /\ y \in ToSet(frames[k].left)
    <3>1. PICK k \in DOMAIN frames : frames[k].item = x /\ y \in ToSet(frames[k].left)
      BY <2>2
    <3>2. CASE y \in ToSet(frames'[k].left)
      BY <1>3, <1>4, <3>1, <3>2
    <3>3. CASE y = i /\ i \in Active
      <4> SUFFICES ASSUME i \notin sccs, NEW m \in ToSet(maybe') PROVE preorders[m] <= preorders[i]
        BY <3>3
      <4>1. PICK k1 \in DOMAIN maybe' : m = maybe'[k1]
        BY Zenon DEF ToSet
      <4>2. k1 \in 1 .. K /\ k1 \in DOMAIN maybe /\ K \in DOMAIN maybe /\ m = maybe[k1] /\ k1 <= K
        BY <1>8, <1>9, <1>10, <4>1
      <4>3. preorders[maybe[k1]] <= preorders[maybe[K]]
        BY <4>2, InTheirOrder
      <4>4. preorders[maybe[k1]] \in Nat /\ preorders[maybe[K]] \in Nat /\ preorders[i] \in Nat
        BY <3>3, <4>2, StackFacts
      <4>5. preorders[maybe[K]] <= preorders[i]
        BY <1>9
      <4> QED BY <4>2, <4>3, <4>4, <4>5
    <3>4. y = i => i \in sccs \/ i \in Active
      BY <1>9
    <3>5. y \in ToSet(frames'[k].left) \/ y = i
      BY <1>3, <1>4, <3>1
    <3> QED BY <3>2, <3>3, <3>4, <3>5
  <2> QED BY <2>1, <2>2 DEF Followed
<1>16. Segments'
  <2> SUFFICES ASSUME NEW j \in DOMAIN maybe' PROVE \E S : Segment(j)' = S /\ Strong(S)
    BY StrongSegments
  <2>1. Segment(j)' = {x \in Active : /\ preorders[maybe'[j]] <= preorders[x]
                                      /\ j + 1 \in DOMAIN maybe' => preorders[x] < preorders[maybe'[j + 1]]}
    BY <1>5 DEF Segment
  <2>2. j \in 1 .. K /\ j \in DOMAIN maybe /\ maybe'[j] = maybe[j]
    BY <1>8, <1>9, <1>10
  <2>3. CASE j # K \/ K = b
    <3>1. j + 1 \in DOMAIN maybe' <=> j + 1 \in DOMAIN maybe
      BY <1>8, <1>9, <1>10, <2>2, <2>3
    <3>2. j + 1 \in DOMAIN maybe' => maybe'[j + 1] = maybe[j + 1]
      BY <1>9
    <3>3. Segment(j)' = Segment(j)
      BY <2>1, <2>2, <3>1, <3>2 DEF Segment
    <3> QED BY <2>2, <3>3 DEF Segments
  <2>4. CASE j = K /\ K # b
    <3>1. j + 1 \notin DOMAIN maybe'
      BY <1>9, <1>10, <2>4
    <3>2. Segment(j)' = {x \in Active : preorders[maybe[K]] <= preorders[x]}
      BY <2>1, <2>2, <2>4, <3>1
    <3>3. Last(frames) = frames[Len(frames)]
      BY DEF Last
    <3>4. Strong({x \in Active : preorders[maybe[K]] <= preorders[x]})
      <4>1. /\ K \in DOMAIN maybe /\ i \in Active /\ i \in Needed(frames[Len(frames)].item)
            /\ preorders[maybe[K]] <= preorders[i]
            /\ K + 1 \in DOMAIN maybe => preorders[i] < preorders[maybe[K + 1]]
        BY <1>1, <1>9, <2>2, <2>4, <3>3
      <4> QED BY <4>1, MergeStrong
    <3> QED BY <3>2, <3>4
  <2> QED BY <2>3, <2>4
<1>17. frames'[1].item = frames[1].item
  <2>1. 1 \in 1 .. n
    BY <1>3
  <2> QED BY <1>4, <2>1
<1> QED BY <1>1, <1>5, <1>11, <1>12, <1>14, <1>15, <1>16, <1>17

-----------------------------------------------------------------------------
(* A step of the sort ends a call *)

\* The top call, and the calls below it.
LEMMA TopFacts ==
  ASSUME SortTypes, Path, Stacks, frames # <<>>, NEW n, n = Len(frames)
  PROVE  /\ n \in Nat \ {0} /\ DOMAIN frames = 1 .. n /\ n \in DOMAIN frames
         /\ Last(frames) = frames[n] /\ Last(frames).item \in Active
         /\ Front(frames) \in Seq(Frames) /\ DOMAIN Front(frames) = 1 .. n - 1
         /\ \A k \in 1 .. n - 1 : Front(frames)[k] = frames[k]
         /\ (Front(frames) = <<>> <=> n = 1)
         /\ \A p \in DOMAIN frames : preorders[Last(frames).item] <= preorders[frames[p].item] => p = n
         /\ \A m \in ToSet(maybe) : preorders[m] <= preorders[Last(frames).item]
<1>1. PICK s : s = frames
  OBVIOUS
<1>2. s \in Seq(Frames) /\ s # <<>> /\ n = Len(s)
  BY <1>1 DEF SortTypes
<1>3. /\ n \in Nat \ {0} /\ DOMAIN s = 1 .. n /\ n \in DOMAIN s
      /\ Last(s) = s[n] /\ Last(s) \in Frames
      /\ Front(s) \in Seq(Frames) /\ Len(Front(s)) = n - 1 /\ DOMAIN Front(s) = 1 .. n - 1
      /\ \A k \in 1 .. n - 1 : Front(s)[k] = s[k]
  BY <1>2, FrontLast
<1>4. Front(s) = <<>> <=> n = 1
  <2>1. PICK f : f = Front(s)
    OBVIOUS
  <2>2. f \in Seq(Frames) /\ Len(f) = n - 1
    BY <1>3, <2>1
  <2>3. f = <<>> <=> Len(f) = 0
    BY <2>2, SeqFacts
  <2> QED BY <1>3, <2>1, <2>2, <2>3
<1>5. /\ n \in Nat \ {0} /\ DOMAIN frames = 1 .. n /\ n \in DOMAIN frames
      /\ Last(frames) = frames[n] /\ Front(frames) \in Seq(Frames) /\ DOMAIN Front(frames) = 1 .. n - 1
      /\ (\A k \in 1 .. n - 1 : Front(frames)[k] = frames[k])
      /\ (Front(frames) = <<>> <=> n = 1)
  BY <1>1, <1>3, <1>4, Zenon
<1>6. Last(frames).item \in Active
  BY <1>5, StackFacts
<1>7. \A p \in DOMAIN frames : p <= n
  BY <1>5
<1>8. ASSUME NEW p \in DOMAIN frames, preorders[Last(frames).item] <= preorders[frames[p].item] PROVE p = n
  <2>1. n <= p
    BY <1>5, <1>8, InTheirOrder
  <2> QED BY <1>5, <1>7, <2>1
<1>9. ASSUME NEW m \in ToSet(maybe) PROVE preorders[m] <= preorders[Last(frames).item]
  <2>1. PICK p \in DOMAIN frames : m = frames[p].item
    BY StackFacts
  <2> QED BY <1>5, <1>7, <2>1, InTheirOrder
<1> QED BY <1>5, <1>6, <1>8, <1>9

\* A call ends whose item is not the top maybe, and so not a maybe at all.
LEMMA KeepStep ==
  ASSUME SortTypes, Path, Stacks, Followed, Segments, frames # <<>>, Last(frames).left = <<>>,
         UNCHANGED <<program, table, file, sorting, roots, preorders, counter, unassigned, maybe, sccs, groups>>,
         frames' = Front(frames), ~(maybe # <<>> /\ Last(maybe) = Last(frames).item)
  PROVE  /\ SortTypes' /\ Path' /\ Stacks' /\ Followed' /\ Segments'
         /\ Active' = Active /\ frames' # <<>> /\ frames'[1].item = frames[1].item
<1>1. PICK n, x : n = Len(frames) /\ x = Last(frames).item
  OBVIOUS
<1>2. /\ n \in Nat \ {0} /\ DOMAIN frames = 1 .. n /\ n \in DOMAIN frames /\ Last(frames) = frames[n] /\ x \in Active
      /\ frames' \in Seq(Frames) /\ DOMAIN frames' = 1 .. n - 1 /\ \A k \in 1 .. n - 1 : frames'[k] = frames[k]
      /\ (frames' = <<>> <=> n = 1)
      /\ \A p \in DOMAIN frames : preorders[x] <= preorders[frames[p].item] => p = n
      /\ \A m \in ToSet(maybe) : preorders[m] <= preorders[x]
  BY <1>1, TopFacts
<1>3. Active' = Active /\ preorders' = preorders
  BY DEF Active
<1>4. \A y : (Named(y)' <=> Named(y)) /\ Needed(y)' = Needed(y)
  BY SameTable
<1>5. 1 .. n - 1 \subseteq 1 .. n
  BY <1>2
<1>6. x \notin ToSet(maybe)
  <2> SUFFICES ASSUME x \in ToSet(maybe) PROVE FALSE
    OBVIOUS
  <2>1. PICK j \in DOMAIN maybe : x = maybe[j]
    BY StackFacts
  <2>2. PICK b : b = Len(maybe)
    OBVIOUS
  <2>3. b \in DOMAIN maybe /\ j <= b /\ b \in Nat /\ j \in Nat /\ maybe # <<>>
    BY <2>1, <2>2, Lengths
  <2>4. maybe[b] \in ToSet(maybe)
    BY <2>3, StackFacts
  <2>5. preorders[maybe[b]] <= preorders[maybe[j]]
    BY <1>2, <2>1, <2>4
  <2>6. b <= j
    BY <2>3, <2>5, InTheirOrder
  <2>7. b = j
    BY <2>3, <2>6
  <2>8. Last(maybe) = maybe[b]
    BY <2>2 DEF Last
  <2> QED BY <1>1, <2>1, <2>3, <2>7, <2>8
<1>7. ToSet(maybe) \subseteq OnPath'
  <2> SUFFICES ASSUME NEW m \in ToSet(maybe) PROVE \E k \in DOMAIN frames' : m = frames'[k].item
    BY DEF OnPath
  <2>1. PICK k \in DOMAIN frames : m = frames[k].item
    BY StackFacts
  <2>2. k # n
    BY <1>1, <1>2, <1>6, <2>1
  <2>3. k \in 1 .. n - 1
    BY <1>2, <2>2
  <2> QED BY <1>2, <2>1, <2>3
<1>8. frames' # <<>>
  <2>1. 1 \in DOMAIN maybe
    BY <1>2, Lowest
  <2>2. maybe[1] \in OnPath'
    BY <1>7, <2>1, StackFacts
  <2>3. DOMAIN frames' # {}
    BY <2>2 DEF OnPath
  <2>4. \A s : s = <<>> => DOMAIN s = {}
    OBVIOUS
  <2> QED BY <2>3, <2>4
<1>9. SortTypes'
  BY <1>2 DEF SortTypes
<1>10. Path'
  <2>1. ASSUME NEW k \in 1 .. n - 1
        PROVE  frames'[k].item \in Active' /\ ToSet(frames'[k].left) \subseteq Needed(frames'[k].item)
    BY <1>2, <1>3, <1>5 DEF Path
  <2>2. ASSUME NEW k \in 1 .. n - 1, k + 1 \in 1 .. n - 1 PROVE frames'[k + 1].item \in Needed(frames'[k].item)
    BY <1>2, <1>5, <2>2 DEF Path
  <2>3. ASSUME NEW k \in 1 .. n - 1, NEW l \in 1 .. n - 1, k < l
        PROVE  preorders'[frames'[k].item] < preorders'[frames'[l].item]
    BY <1>2, <1>3, <1>5, <2>3 DEF Path
  <2> QED BY <1>2, <1>4, <2>1, <2>2, <2>3 DEF Path
<1>11. Stacks'
  BY <1>3, <1>4, <1>7 DEF Stacks
<1>12. Followed'
  <2> SUFFICES ASSUME NEW z \in Active, NEW y \in Needed(z)
               PROVE  \/ y \in sccs
                      \/ y \in Active /\ \A m \in ToSet(maybe) : preorders[m] <= preorders[z] => preorders[m] <= preorders[y]
                      \/ \E k \in DOMAIN frames' : frames'[k].item = z /\ y \in ToSet(frames'[k].left)
    BY <1>3, <1>4 DEF Followed
  <2>1. CASE \E k \in DOMAIN frames : frames[k].item = z /\ y \in ToSet(frames[k].left)
    <3>1. PICK k \in DOMAIN frames : frames[k].item = z /\ y \in ToSet(frames[k].left)
      BY <2>1
    <3>2. k # n
      <4>1. ToSet(<<>>) = {}
        BY DEF ToSet
      <4> QED BY <1>2, <3>1, <4>1
    <3>3. k \in 1 .. n - 1
      BY <1>2, <3>2
    <3> QED BY <1>2, <3>1, <3>3
  <2> QED BY <2>1 DEF Followed
<1>13. Segments'
  <2> SUFFICES ASSUME NEW j \in DOMAIN maybe' PROVE \E S : Segment(j)' = S /\ Strong(S)
    BY StrongSegments
  <2>1. Segment(j)' = Segment(j)
    BY <1>3 DEF Segment
  <2> QED BY <2>1 DEF Segments
<1>14. frames'[1].item = frames[1].item
  <2>1. 1 \in 1 .. n - 1
    BY <1>2, <1>8
  <2> QED BY <1>2, <2>1
<1> QED BY <1>3, <1>8, <1>9, <1>10, <1>11, <1>12, <1>13, <1>14

\* Where the top maybe is on the stack, and its group: what came onto the stack from there.
PlaceOf(x) == Max({m \in DOMAIN unassigned : unassigned[m] = x} \cup {0})
GroupFrom(k) == Reverse(SubSeq(unassigned, k, Len(unassigned)))

\* The group is the top segment.
LEMMA PopFacts ==
  ASSUME SortTypes, Path, Stacks, maybe # <<>>, NEW x, x = Last(maybe), NEW k, k = PlaceOf(x)
  PROVE  /\ k \in DOMAIN unassigned /\ unassigned[k] = x /\ x \in Active
         /\ GroupFrom(k) \in Seq(Items) /\ Len(GroupFrom(k)) \in 1 .. StackCapacity
         /\ \A p, q \in DOMAIN GroupFrom(k) : GroupFrom(k)[p] = GroupFrom(k)[q] => p = q
         /\ ToSet(GroupFrom(k)) = {y \in Active : preorders[x] <= preorders[y]}
         /\ SubSeq(unassigned, 1, k - 1) \in Seq(Items) /\ DOMAIN SubSeq(unassigned, 1, k - 1) = 1 .. k - 1
         /\ Len(SubSeq(unassigned, 1, k - 1)) = k - 1
         /\ \A j \in 1 .. k - 1 : SubSeq(unassigned, 1, k - 1)[j] = unassigned[j]
         /\ ToSet(SubSeq(unassigned, 1, k - 1)) = {y \in Active : preorders[y] < preorders[x]}
<1>1. PICK a, b : a = Len(unassigned) /\ b = Len(maybe)
  OBVIOUS
<1>2. /\ a \in Nat /\ DOMAIN unassigned = 1 .. a /\ unassigned \in Seq(Items) /\ a <= StackCapacity
      /\ b \in DOMAIN maybe /\ StackCapacity \in Nat
  BY <1>1, Lengths, StackCapacityAssumption DEF SortTypes
<1>3. x = maybe[b]
  BY <1>1 DEF Last
<1>4. x \in Active
  BY <1>2, <1>3, StackFacts
<1>5. PICK M : M = {m \in DOMAIN unassigned : unassigned[m] = x} \cup {0}
  OBVIOUS
<1>6. PICK k0 \in DOMAIN unassigned : x = unassigned[k0]
  BY <1>4, StackFacts
<1>7. M \in SUBSET Nat /\ M # {} /\ (\A m \in M : m <= a) /\ k0 \in M /\ 1 <= k0 /\ k0 \in Nat
  BY <1>2, <1>5, <1>6
<1>8. k \in M /\ \A m \in M : m <= k
  <2>1. k = Max(M)
    BY <1>5 DEF PlaceOf
  <2> QED BY <1>2, <1>7, <2>1, MaxFacts
<1>9. k # 0
  BY <1>7, <1>8
<1>10. k \in DOMAIN unassigned /\ unassigned[k] = x
  BY <1>5, <1>8, <1>9
<1>11. k \in 1 .. a /\ k \in Nat
  BY <1>2, <1>10
<1>12. /\ \A j \in 1 .. a : unassigned[j] \in Active /\ preorders[unassigned[j]] \in Nat
       /\ \A y \in Active : \E j \in 1 .. a : y = unassigned[j]
  BY <1>2, StackFacts
<1>13. \A i, j \in 1 .. a : /\ i < j => preorders[unassigned[i]] < preorders[unassigned[j]]
                            /\ unassigned[i] = unassigned[j] => i = j
  <2>1. \A i, j \in 1 .. a : i < j => preorders[unassigned[i]] < preorders[unassigned[j]]
    BY <1>2 DEF Stacks
  <2>2. \A i, j \in 1 .. a : unassigned[i] = unassigned[j] => i = j
    <3> SUFFICES ASSUME NEW i \in 1 .. a, NEW j \in 1 .. a, unassigned[i] = unassigned[j] PROVE i = j
      OBVIOUS
    <3>1. preorders[unassigned[i]] \in Nat
      BY <1>12
    <3>2. ~(i < j) /\ ~(j < i)
      BY <2>1, <3>1
    <3> QED BY <3>2, <1>2
  <2> QED BY <2>1, <2>2
<1>14. \A j \in 1 .. a : k <= j <=> preorders[x] <= preorders[unassigned[j]]
  <2> TAKE j \in 1 .. a
  <2>1. preorders[x] \in Nat /\ preorders[unassigned[j]] \in Nat /\ j \in Nat
    BY <1>2, <1>4, <1>12, StackFacts
  <2>2. k < j => preorders[x] < preorders[unassigned[j]]
    BY <1>10, <1>11, <1>13
  <2>3. j < k => preorders[unassigned[j]] < preorders[x]
    BY <1>10, <1>11, <1>13
  <2>4. k = j => preorders[x] = preorders[unassigned[j]]
    BY <1>10
  <2> QED BY <1>11, <2>1, <2>2, <2>3, <2>4
<1>15. PICK s, c : c = a - k + 1 /\ s = SubSeq(unassigned, k, a)
  OBVIOUS
<1>16. s \in Seq(Items) /\ Len(s) = c /\ DOMAIN s = 1 .. c /\ \A j \in 1 .. c : s[j] = unassigned[k + j - 1]
  <2>1. c \in Nat /\ 1 <= k /\ a <= Len(unassigned) /\ k <= a + 1
    BY <1>1, <1>2, <1>11, <1>15
  <2> QED BY <1>2, <1>11, <1>15, <2>1, Cut
<1>17. c \in 1 .. a /\ \A j \in 1 .. c : k + j - 1 \in 1 .. a /\ k <= k + j - 1
  BY <1>11, <1>15, <1>2
<1>18. ToSet(s) = {y \in Active : preorders[x] <= preorders[y]}
  <2>1. ASSUME NEW y \in ToSet(s) PROVE y \in Active /\ preorders[x] <= preorders[y]
    <3>1. PICK j \in 1 .. c : y = s[j]
      BY <1>16 DEF ToSet
    <3>2. PICK l : l = k + j - 1
      OBVIOUS
    <3>3. l \in 1 .. a /\ k <= l /\ y = unassigned[l]
      BY <1>16, <1>17, <3>1, <3>2
    <3> QED BY <1>12, <1>14, <3>3
  <2>2. ASSUME NEW y \in Active, preorders[x] <= preorders[y] PROVE y \in ToSet(s)
    <3>1. PICK l \in 1 .. a : y = unassigned[l]
      BY <1>12
    <3>2. k <= l
      BY <1>14, <2>2, <3>1
    <3>3. PICK j : j = l - k + 1
      OBVIOUS
    <3>4. j \in 1 .. c /\ k + j - 1 = l
      BY <1>2, <1>11, <1>15, <3>2, <3>3
    <3>5. s[j] = y /\ j \in DOMAIN s
      BY <1>16, <3>1, <3>4
    <3> QED BY <3>5, Zenon DEF ToSet
  <2> QED BY <2>1, <2>2
<1>19. PICK g : g = Reverse(s)
  OBVIOUS
<1>20. /\ g \in Seq(Items) /\ Len(g) = c /\ DOMAIN g = 1 .. c /\ (\A j \in 1 .. c : g[j] = s[c - j + 1])
       /\ ToSet(g) = ToSet(s)
  <2>1. /\ g \in Seq(Items) /\ Len(g) = Len(s) /\ DOMAIN g = 1 .. Len(s)
        /\ (\A j \in 1 .. Len(s) : g[j] = s[Len(s) - j + 1]) /\ ToSet(g) = ToSet(s)
    BY <1>16, <1>19, ReverseFacts
  <2> QED BY <1>16, <2>1
<1>21. \A p, q \in 1 .. c : g[p] = g[q] => p = q
  <2> SUFFICES ASSUME NEW p \in 1 .. c, NEW q \in 1 .. c, g[p] = g[q] PROVE p = q
    OBVIOUS
  <2>1. PICK p1, q1 : p1 = c - p + 1 /\ q1 = c - q + 1
    OBVIOUS
  <2>2. p1 \in 1 .. c /\ q1 \in 1 .. c /\ (p1 = q1 => p = q)
    BY <1>2, <1>17, <2>1
  <2>3. s[p1] = s[q1]
    BY <1>20, <2>1
  <2>4. PICK p2, q2 : p2 = k + p1 - 1 /\ q2 = k + q1 - 1
    OBVIOUS
  <2>5. p2 \in 1 .. a /\ q2 \in 1 .. a /\ unassigned[p2] = unassigned[q2] /\ (p2 = q2 => p1 = q1)
    <3>1. p2 \in 1 .. a /\ q2 \in 1 .. a
      BY <1>17, <2>2, <2>4
    <3>2. unassigned[p2] = unassigned[q2]
      BY <1>16, <2>2, <2>3, <2>4
    <3>3. p2 = q2 => p1 = q1
      BY <1>11, <1>17, <1>2, <2>2, <2>4
    <3> QED BY <3>1, <3>2, <3>3
  <2>6. p2 = q2
    BY <1>13, <2>5
  <2> QED BY <2>2, <2>5, <2>6
<1>22. GroupFrom(k) = g
  BY <1>1, <1>15, <1>19, Zenon DEF GroupFrom
<1>23. PICK e, r : e = k - 1 /\ r = SubSeq(unassigned, 1, e)
  OBVIOUS
<1>24. r \in Seq(Items) /\ Len(r) = e /\ DOMAIN r = 1 .. e /\ \A j \in 1 .. e : r[j] = unassigned[j]
  <2>1. e \in Nat /\ 1 <= 1 /\ 1 \in Nat /\ e <= Len(unassigned) /\ 1 <= e + 1 /\ e = e - 1 + 1
    BY <1>1, <1>2, <1>11, <1>23
  <2>2. r \in Seq(Items) /\ Len(r) = e /\ DOMAIN r = 1 .. e /\ \A j \in 1 .. e : r[j] = unassigned[1 + j - 1]
    BY <1>2, <1>23, <2>1, Cut
  <2>3. \A j \in 1 .. e : 1 + j - 1 = j
    BY <2>1
  <2> QED BY <2>2, <2>3
<1>25. \A j \in 1 .. a : j \in 1 .. e <=> ~(k <= j)
  BY <1>11, <1>23, <1>2
<1>26. 1 .. e \subseteq 1 .. a
  BY <1>11, <1>23, <1>2
<1>27. ToSet(r) = {y \in Active : preorders[y] < preorders[x]}
  <2>0. \A y \in Active : preorders[y] \in Nat /\ preorders[x] \in Nat
    BY <1>4, StackFacts
  <2>1. ASSUME NEW y \in ToSet(r) PROVE y \in Active /\ preorders[y] < preorders[x]
    <3>1. PICK j \in 1 .. e : y = r[j]
      BY <1>24 DEF ToSet
    <3>2. j \in 1 .. a /\ y = unassigned[j] /\ ~(k <= j)
      BY <1>24, <1>25, <1>26, <3>1
    <3>3. y \in Active /\ ~(preorders[x] <= preorders[y])
      BY <1>12, <1>14, <3>2
    <3> QED BY <2>0, <3>3
  <2>2. ASSUME NEW y \in Active, preorders[y] < preorders[x] PROVE y \in ToSet(r)
    <3>1. PICK j \in 1 .. a : y = unassigned[j]
      BY <1>12
    <3>2. ~(preorders[x] <= preorders[y])
      BY <2>0, <2>2
    <3>3. j \in 1 .. e
      BY <1>14, <1>25, <3>1, <3>2
    <3>4. y = r[j] /\ j \in DOMAIN r
      BY <1>24, <3>1, <3>3
    <3> QED BY <3>4, Zenon DEF ToSet
  <2> QED BY <2>1, <2>2
<1>28. Len(g) \in 1 .. StackCapacity
  BY <1>2, <1>17, <1>20
<1>29. /\ GroupFrom(k) \in Seq(Items) /\ Len(GroupFrom(k)) \in 1 .. StackCapacity
       /\ (\A p, q \in DOMAIN GroupFrom(k) : GroupFrom(k)[p] = GroupFrom(k)[q] => p = q)
       /\ ToSet(GroupFrom(k)) = {y \in Active : preorders[x] <= preorders[y]}
  BY <1>18, <1>20, <1>21, <1>22, <1>28
<1>30. /\ SubSeq(unassigned, 1, k - 1) \in Seq(Items) /\ DOMAIN SubSeq(unassigned, 1, k - 1) = 1 .. k - 1
       /\ Len(SubSeq(unassigned, 1, k - 1)) = k - 1
       /\ \A j \in 1 .. k - 1 : SubSeq(unassigned, 1, k - 1)[j] = unassigned[j]
       /\ ToSet(SubSeq(unassigned, 1, k - 1)) = {y \in Active : preorders[y] < preorders[x]}
  BY <1>23, <1>24, <1>27, Zenon
<1> QED BY <1>4, <1>10, <1>29, <1>30

\* What is strongly connected stays so in the same table.
LEMMA StaysStrong ==
  ASSUME UNCHANGED <<program, table>>, NEW S, Strong(S)
  PROVE  \A T \in SUBSET S : T = {} \/ T = S \/ \E x \in T : Needed(x)' \cap (S \ T) # {}
<1>1. \A x : Needed(x)' = Needed(x)
  BY SameTable
<1>2. \A T \in SUBSET S : T = {} \/ T = S \/ \E x \in T : Needed(x) \cap (S \ T) # {}
  BY DEF Strong
<1> QED BY <1>1, <1>2

\* To have good groups after a step that adds one, it is enough to look at that one.
LEMMA GroupingStep ==
  ASSUME SortTypes, Grouping, UNCHANGED <<program, table>>,
         NEW g \in Seq(Items), groups' = Append(groups, g), sccs' = sccs \cup ToSet(g),
         ToSet(g) \cap sccs = {}, Len(g) \in 1 .. StackCapacity,
         \A p, q \in DOMAIN g : g[p] = g[q] => p = q,
         Strong(ToSet(g)),
         \A x \in ToSet(g) : Named(x) /\ \A y \in Needed(x) : y \in sccs \/ y \in ToSet(g)
  PROVE  Grouping'
<1>1. PICK c : c = Len(groups)
  OBVIOUS
<1>2. /\ c \in Nat /\ DOMAIN groups = 1 .. c /\ DOMAIN groups' = 1 .. c + 1 /\ groups'[c + 1] = g
      /\ \A k \in 1 .. c : groups'[k] = groups[k]
  <2>1. PICK G, S : G = groups /\ S = Seq(Items)
    OBVIOUS
  <2>2. G \in Seq(S) /\ g \in S /\ c = Len(G)
    BY <1>1, <2>1 DEF SortTypes
  <2>3. /\ c \in Nat /\ DOMAIN G = 1 .. c /\ DOMAIN Append(G, g) = 1 .. c + 1 /\ Append(G, g)[c + 1] = g
        /\ \A k \in 1 .. c : Append(G, g)[k] = G[k]
    BY <2>2, AppendFacts
  <2> QED BY <2>1, <2>3, Zenon
<1>3. \A x : (Named(x)' <=> Named(x)) /\ Needed(x)' = Needed(x)
  BY SameTable
<1>4. 1 .. c \subseteq 1 .. c + 1 /\ c + 1 \in 1 .. c + 1 /\ \A k \in 1 .. c : 1 .. k \subseteq 1 .. c
  BY <1>2
<1>5. \A x \in sccs : \E k \in 1 .. c : x \in ToSet(groups'[k])
  BY <1>2 DEF Grouping
<1>6. \A x \in sccs' : \E k \in 1 .. c + 1 : x \in ToSet(groups'[k])
  <2> TAKE x \in sccs'
  <2>1. CASE x \in sccs
    BY <1>4, <1>5, <2>1
  <2>2. CASE x \in ToSet(g)
    BY <1>2, <1>4, <2>2
  <2> QED BY <2>1, <2>2
<1>7. ASSUME NEW k \in 1 .. c + 1
      PROVE  /\ Len(groups'[k]) \in 1 .. StackCapacity
             /\ \A p, q \in DOMAIN groups'[k] : groups'[k][p] = groups'[k][q] => p = q
             /\ Strong(ToSet(groups'[k]))
             /\ \A x \in ToSet(groups'[k]) : /\ x \in sccs' /\ Named(x)
                                             /\ \A y \in Needed(x) : \E l \in 1 .. k : y \in ToSet(groups'[l])
  <2>1. CASE k = c + 1
    <3>1. ASSUME NEW x \in ToSet(g), NEW y \in Needed(x) PROVE \E l \in 1 .. c + 1 : y \in ToSet(groups'[l])
      <4>1. y \in sccs'
        BY <3>1
      <4> QED BY <1>6, <4>1
    <3> QED BY <1>2, <2>1, <3>1
  <2>2. CASE k # c + 1
    <3>1. k \in 1 .. c /\ groups'[k] = groups[k] /\ k \in DOMAIN groups
      BY <1>2, <2>2
    <3>2. ASSUME NEW x \in ToSet(groups[k]), NEW y \in Needed(x) PROVE \E l \in 1 .. k : y \in ToSet(groups'[l])
      <4>1. PICK l \in 1 .. k : y \in ToSet(groups[l])
        BY <3>1, <3>2 DEF Grouping
      <4>2. l \in 1 .. c
        BY <1>4, <3>1
      <4> QED BY <1>2, <4>1, <4>2
    <3>3. /\ Len(groups[k]) \in 1 .. StackCapacity
          /\ \A p, q \in DOMAIN groups[k] : groups[k][p] = groups[k][q] => p = q
          /\ Strong(ToSet(groups[k]))
          /\ \A x \in ToSet(groups[k]) : x \in sccs /\ Named(x)
      BY <3>1 DEF Grouping
    <3> QED BY <3>1, <3>2, <3>3
  <2> QED BY <2>1, <2>2
<1>8. ASSUME NEW k \in 1 .. c + 1, NEW l \in 1 .. c + 1, k # l
      PROVE  ToSet(groups'[k]) \cap ToSet(groups'[l]) = {}
  <2>1. \A j \in 1 .. c : groups'[j] = groups[j] /\ ToSet(groups[j]) \subseteq sccs
    BY <1>2 DEF Grouping
  <2>2. CASE k = c + 1
    <3>1. l \in 1 .. c
      BY <1>2, <1>8, <2>2
    <3> QED BY <1>2, <2>1, <2>2, <3>1
  <2>3. CASE l = c + 1
    <3>1. k \in 1 .. c
      BY <1>2, <1>8, <2>3
    <3> QED BY <1>2, <2>1, <2>3, <3>1
  <2>4. CASE k # c + 1 /\ l # c + 1
    <3>1. k \in 1 .. c /\ l \in 1 .. c
      BY <1>2, <2>4
    <3> QED BY <1>2, <1>8, <2>1, <3>1 DEF Grouping
  <2> QED BY <2>2, <2>3, <2>4
<1>9. \A k \in 1 .. c + 1 : \A T \in SUBSET ToSet(groups'[k]) : T = {} \/ T = ToSet(groups'[k])
        \/ \E x \in T : Needed(x)' \cap (ToSet(groups'[k]) \ T) # {}
  BY <1>7, StaysStrong
<1>10. \A k \in DOMAIN groups' :
         /\ Len(groups'[k]) \in 1 .. StackCapacity
         /\ \A p, q \in DOMAIN groups'[k] : groups'[k][p] = groups'[k][q] => p = q
         /\ \A x \in ToSet(groups'[k]) : /\ x \in sccs' /\ Named(x)'
                                         /\ \A y \in Needed(x)' : \E l \in 1 .. k : y \in ToSet(groups'[l])
  BY <1>2, <1>3, <1>7
<1>11. \A k \in DOMAIN groups' : Strong(ToSet(groups[k]))'
  BY <1>2, <1>9 DEF Strong
<1>12. /\ \A x \in sccs' : \E k \in DOMAIN groups' : x \in ToSet(groups'[k])
       /\ \A k, l \in DOMAIN groups' : k # l => ToSet(groups'[k]) \cap ToSet(groups'[l]) = {}
  BY <1>2, <1>6, <1>8
<1> QED BY <1>10, <1>11, <1>12 DEF Grouping

\* A call ends whose item is the top maybe: the top segment is a group.
LEMMA PopStep ==
  ASSUME SortTypes, Path, Stacks, Followed, Segments, Grouping, frames # <<>>, Last(frames).left = <<>>,
         maybe # <<>>, NEW x, x = Last(frames).item, x = Last(maybe), NEW k, k = PlaceOf(x),
         UNCHANGED <<program, table, file, sorting, roots, preorders, counter>>,
         frames' = Front(frames), unassigned' = SubSeq(unassigned, 1, k - 1), maybe' = Front(maybe),
         NEW G, G = ToSet(GroupFrom(k)), sccs' = sccs \cup G, groups' = Append(groups, GroupFrom(k))
  PROVE  /\ SortTypes' /\ Path' /\ Stacks' /\ Followed' /\ Segments' /\ Grouping'
         /\ G \cap sccs = {} /\ x \in G /\ Active' = Active \ G
         /\ frames' = <<>> => unassigned' = <<>> /\ maybe' = <<>>
         /\ frames' # <<>> => frames'[1] = frames[1] /\ \E z \in Active' : x \in Needed(z)
         /\ frames' = <<>> => x = frames[1].item
<1>1. PICK n, b, g : n = Len(frames) /\ b = Len(maybe) /\ g = GroupFrom(k)
  OBVIOUS
<1>2. /\ n \in Nat \ {0} /\ DOMAIN frames = 1 .. n /\ n \in DOMAIN frames /\ Last(frames) = frames[n] /\ x \in Active
      /\ frames' \in Seq(Frames) /\ DOMAIN frames' = 1 .. n - 1 /\ (\A j \in 1 .. n - 1 : frames'[j] = frames[j])
      /\ (frames' = <<>> <=> n = 1)
      /\ (\A p \in DOMAIN frames : preorders[x] <= preorders[frames[p].item] => p = n)
      /\ \A m \in ToSet(maybe) : preorders[m] <= preorders[x]
  BY <1>1, TopFacts
<1>3. /\ k \in DOMAIN unassigned /\ unassigned[k] = x
      /\ g \in Seq(Items) /\ Len(g) \in 1 .. StackCapacity
      /\ (\A p, q \in DOMAIN g : g[p] = g[q] => p = q)
      /\ ToSet(g) = {y \in Active : preorders[x] <= preorders[y]}
      /\ unassigned' \in Seq(Items) /\ DOMAIN unassigned' = 1 .. k - 1 /\ Len(unassigned') = k - 1
      /\ (\A j \in 1 .. k - 1 : unassigned'[j] = unassigned[j])
      /\ Active' = {y \in Active : preorders[y] < preorders[x]}
  BY <1>1, PopFacts DEF Active
<1>4. G = ToSet(g) /\ G = {y \in Active : preorders[x] <= preorders[y]}
  BY <1>1, <1>3
<1>5. /\ b \in Nat \ {0} /\ DOMAIN maybe = 1 .. b /\ b \in DOMAIN maybe /\ x = maybe[b]
      /\ maybe' \in Seq(Items) /\ DOMAIN maybe' = 1 .. b - 1 /\ Len(maybe') = b - 1 /\ \A j \in 1 .. b - 1 : maybe'[j] = maybe[j]
  <2>1. PICK s : s = maybe
    OBVIOUS
  <2>2. s \in Seq(Items) /\ s # <<>> /\ b = Len(s)
    BY <1>1, <2>1 DEF SortTypes
  <2>3. /\ b \in Nat \ {0} /\ DOMAIN s = 1 .. b /\ b \in DOMAIN s /\ Last(s) = s[b] /\ Last(s) \in Items
        /\ Front(s) \in Seq(Items) /\ Len(Front(s)) = b - 1 /\ DOMAIN Front(s) = 1 .. b - 1
        /\ \A j \in 1 .. b - 1 : Front(s)[j] = s[j]
    BY <2>2, FrontLast, SMTT(60)
  <2> QED BY <2>1, <2>3, Zenon
<1>6. preorders' = preorders /\ \A y \in Active : preorders[y] \in Nat /\ y \notin sccs
  BY StackFacts
<1>7. Active' = Active \ G /\ x \in G /\ G \cap sccs = {} /\ Active' \cap G = {}
  BY <1>2, <1>3, <1>4, <1>6
<1>8. \A y : (Named(y)' <=> Named(y)) /\ Needed(y)' = Needed(y)
  BY SameTable
<1>9. /\ 1 .. n - 1 \subseteq 1 .. n /\ n \notin 1 .. n - 1 /\ (\A p \in 1 .. n : p # n => p \in 1 .. n - 1)
      /\ 1 .. b - 1 \subseteq 1 .. b /\ (\A j \in 1 .. b - 1 : j < b)
      /\ k \in Nat /\ 1 <= k /\ 1 .. k - 1 \subseteq DOMAIN unassigned /\ (\A j \in 1 .. k - 1 : j < k)
  <2>1. Len(unassigned) \in Nat /\ DOMAIN unassigned = 1 .. Len(unassigned)
    BY Lengths
  <2> QED BY <1>2, <1>3, <1>5, <2>1
<1>10. \A j \in 1 .. b - 1 : maybe[j] \in Active /\ preorders[maybe[j]] < preorders[x]
  BY <1>5, <1>9, StackFacts DEF Stacks
<1>11. \A m \in ToSet(maybe') : /\ m \in ToSet(maybe) /\ preorders[m] < preorders[x]
                                /\ \E j \in 1 .. n - 1 : m = frames[j].item
  <2> SUFFICES ASSUME NEW j \in 1 .. b - 1
               PROVE  /\ maybe[j] \in ToSet(maybe) /\ preorders[maybe[j]] < preorders[x]
                      /\ \E i \in 1 .. n - 1 : maybe[j] = frames[i].item
    BY <1>5 DEF ToSet
  <2>1. maybe[j] \in ToSet(maybe) /\ preorders[maybe[j]] < preorders[x]
    BY <1>5, <1>9, <1>10, StackFacts
  <2>2. PICK p \in DOMAIN frames : maybe[j] = frames[p].item
    BY <2>1, StackFacts
  <2>3. preorders[x] \in Nat
    BY <1>2, <1>6
  <2>4. p # n
    <3>1. p = n => maybe[j] = x
      BY <1>2, <2>2
    <3>2. ~(preorders[x] < preorders[x])
      BY <2>3
    <3> QED BY <2>1, <3>1, <3>2
  <2> QED BY <1>2, <1>9, <2>1, <2>2, <2>4
<1>12. \A j \in 1 .. n - 1 : frames[j].item \in Active /\ frames[j].item \in Active'
  <2> TAKE j \in 1 .. n - 1
  <2>1. j \in DOMAIN frames /\ j # n
    BY <1>2, <1>9
  <2>2. frames[j].item \in Active /\ ~(preorders[x] <= preorders[frames[j].item])
    BY <1>2, <2>1, StackFacts
  <2> QED BY <1>4, <1>7, <2>2
<1>13. SortTypes'
  <2>1. Len(unassigned') <= StackCapacity
    <3>1. k - 1 <= Len(unassigned) /\ Len(unassigned) <= StackCapacity /\ Len(unassigned) \in Nat /\ StackCapacity \in Nat
      BY <1>3, <1>9, Lengths, StackCapacityAssumption DEF SortTypes
    <3> QED BY <1>3, <1>9, <3>1
  <2>2. sccs' \subseteq Items
    BY <1>4, StackFacts DEF SortTypes
  <2>3. groups' \in Seq(Seq(Items))
    <3>1. PICK S : S = Seq(Items)
      OBVIOUS
    <3>2. groups \in Seq(S) /\ g \in S
      BY <1>3, <3>1 DEF SortTypes
    <3>3. Append(groups, g) \in Seq(S)
      BY <3>2
    <3> QED BY <1>1, <3>1, <3>3
  <2> QED BY <1>2, <1>3, <1>5, <2>1, <2>2, <2>3 DEF SortTypes
<1>14. Path'
  <2>1. ASSUME NEW j \in 1 .. n - 1
        PROVE  frames'[j].item \in Active' /\ ToSet(frames'[j].left) \subseteq Needed(frames'[j].item)
    BY <1>2, <1>9, <1>12 DEF Path
  <2>2. ASSUME NEW j \in 1 .. n - 1, j + 1 \in 1 .. n - 1 PROVE frames'[j + 1].item \in Needed(frames'[j].item)
    BY <1>2, <1>9, <2>2 DEF Path
  <2>3. ASSUME NEW j \in 1 .. n - 1, NEW l \in 1 .. n - 1, j < l
        PROVE  preorders'[frames'[j].item] < preorders'[frames'[l].item]
    BY <1>2, <1>6, <1>9, <2>3 DEF Path
  <2> QED BY <1>2, <1>8, <2>1, <2>2, <2>3 DEF Path
<1>15. Stacks'
  <2>1. Active' = DOMAIN preorders' \ sccs'
    BY <1>7 DEF Stacks
  <2>2. \A y \in Active' : Named(y)'
    BY <1>7, <1>8 DEF Stacks
  <2>3. ASSUME NEW i \in 1 .. k - 1, NEW j \in 1 .. k - 1, i < j
        PROVE  preorders'[unassigned'[i]] < preorders'[unassigned'[j]]
    BY <1>3, <1>6, <1>9, <2>3 DEF Stacks
  <2>4. ASSUME NEW i \in 1 .. b - 1, NEW j \in 1 .. b - 1, i < j PROVE preorders'[maybe'[i]] < preorders'[maybe'[j]]
    BY <1>5, <1>6, <1>9, <2>4 DEF Stacks
  <2>5. ToSet(maybe') \subseteq OnPath'
    <3> SUFFICES ASSUME NEW m \in ToSet(maybe') PROVE \E j \in DOMAIN frames' : m = frames'[j].item
      BY DEF OnPath
    <3> QED BY <1>2, <1>11
  <2>6. ASSUME unassigned' # <<>> PROVE maybe' # <<>> /\ maybe'[1] = unassigned'[1]
    <3>1. 1 \in 1 .. k - 1
      <4>1. Len(unassigned') # 0
        BY <1>3, <2>6, SeqFacts
      <4> QED BY <1>3, <1>9, <4>1
    <3>2. unassigned[1] = unassigned'[1] /\ preorders[unassigned[1]] < preorders[unassigned[k]] /\ unassigned # <<>>
      <4>1. 1 \in DOMAIN unassigned /\ 1 < k
        BY <1>9, <3>1
      <4>2. unassigned # <<>>
        BY <4>1, Lengths
      <4> QED BY <1>3, <3>1, <4>1, <4>2 DEF Stacks
    <3>3. maybe[1] = unassigned[1]
      BY <3>2 DEF Stacks
    <3>4. b # 1
      <4>1. preorders[maybe[1]] < preorders[x] /\ preorders[x] \in Nat
        BY <1>2, <1>3, <1>6, <3>2, <3>3
      <4>2. maybe[1] # x
        BY <4>1
      <4> QED BY <1>5, <4>2
    <3>5. 1 \in 1 .. b - 1
      BY <1>5, <3>4
    <3>6. \A s : s = <<>> => DOMAIN s = {}
      OBVIOUS
    <3> QED BY <1>5, <3>2, <3>3, <3>5, <3>6
  <2> QED BY <1>3, <1>5, <2>1, <2>2, <2>3, <2>4, <2>5, <2>6 DEF Stacks
<1>16. ASSUME NEW z \in Active, NEW y \in Needed(z)
       PROVE  \/ y \in sccs \/ y \in G
              \/ y \in Active' /\ z \notin G /\ \A m \in ToSet(maybe') : preorders[m] <= preorders[z] => preorders[m] <= preorders[y]
              \/ z \notin G /\ \E j \in DOMAIN frames' : frames'[j].item = z /\ y \in ToSet(frames'[j].left)
  <2>1. CASE y \in Active /\ \A m \in ToSet(maybe) : preorders[m] <= preorders[z] => preorders[m] <= preorders[y]
    <3>1. z \in G => y \in G
      <4>1. x \in ToSet(maybe)
        BY <1>5, StackFacts
      <4> QED BY <1>4, <2>1, <4>1
    <3> QED BY <1>7, <1>11, <2>1, <3>1
  <2>2. CASE \E j \in DOMAIN frames : frames[j].item = z /\ y \in ToSet(frames[j].left)
    <3>1. PICK j \in DOMAIN frames : frames[j].item = z /\ y \in ToSet(frames[j].left)
      BY <2>2
    <3>2. j # n
      <4>1. ToSet(<<>>) = {}
        BY DEF ToSet
      <4> QED BY <1>2, <3>1, <4>1
    <3>3. j \in 1 .. n - 1
      BY <1>2, <1>9, <3>2
    <3>4. z \notin G
      BY <1>7, <1>12, <3>1, <3>3
    <3> QED BY <1>2, <3>1, <3>3, <3>4
  <2> QED BY <2>1, <2>2 DEF Followed
<1>17. Followed'
  <2> SUFFICES ASSUME NEW z \in Active', NEW y \in Needed(z)
               PROVE  \/ y \in sccs'
                      \/ y \in Active' /\ \A m \in ToSet(maybe') : preorders[m] <= preorders[z] => preorders[m] <= preorders[y]
                      \/ \E j \in DOMAIN frames' : frames'[j].item = z /\ y \in ToSet(frames'[j].left)
    BY <1>6, <1>8 DEF Followed
  <2>1. z \in Active
    BY <1>7
  <2> QED BY <1>16, <2>1
<1>18. Segments'
  <2> SUFFICES ASSUME NEW j \in DOMAIN maybe' PROVE \E S : Segment(j)' = S /\ Strong(S)
    BY StrongSegments
  <2>1. Segment(j)' = {y \in Active' : /\ preorders[maybe'[j]] <= preorders[y]
                                       /\ j + 1 \in DOMAIN maybe' => preorders[y] < preorders[maybe'[j + 1]]}
    BY <1>6 DEF Segment
  <2>2. j \in 1 .. b - 1 /\ j \in DOMAIN maybe /\ maybe'[j] = maybe[j] /\ j + 1 \in DOMAIN maybe
    BY <1>5, <1>9
  <2>3. CASE j = b - 1
    <3>1. j + 1 \notin DOMAIN maybe' /\ maybe[j + 1] = x
      BY <1>5, <2>3
    <3>2. Segment(j)' = Segment(j)
      BY <1>3, <2>1, <2>2, <3>1 DEF Segment
    <3> QED BY <2>2, <3>2 DEF Segments
  <2>4. CASE j # b - 1
    <3>1. j + 1 \in 1 .. b - 1 /\ j + 1 \in DOMAIN maybe' /\ maybe'[j + 1] = maybe[j + 1]
      BY <1>5, <2>2, <2>4
    <3>2. maybe[j + 1] \in Active /\ preorders[maybe[j + 1]] < preorders[x]
      BY <1>10, <3>1
    <3>3. \A y \in Active : preorders[y] < preorders[maybe[j + 1]] => preorders[y] < preorders[x]
      <4> TAKE y \in Active
      <4>1. preorders[y] \in Nat /\ preorders[maybe[j + 1]] \in Nat /\ preorders[x] \in Nat
        BY <1>2, <1>6, <3>2
      <4> QED BY <3>2, <4>1
    <3>4. Segment(j)' = Segment(j)
      BY <1>3, <2>1, <2>2, <3>1, <3>3 DEF Segment
    <3> QED BY <2>2, <3>4 DEF Segments
  <2> QED BY <2>3, <2>4
<1>19. Strong(ToSet(g))
  <2>1. b + 1 \notin DOMAIN maybe
    BY <1>5
  <2>2. Segment(b) = ToSet(g)
    BY <1>4, <1>5, <2>1 DEF Segment
  <2> QED BY <1>5, <2>2 DEF Segments
<1>20. Grouping'
  <2>1. \A z \in ToSet(g) : Named(z) /\ \A y \in Needed(z) : y \in sccs \/ y \in ToSet(g)
    <3> TAKE z \in ToSet(g)
    <3>1. z \in Active /\ z \in G
      BY <1>4
    <3>2. Named(z)
      BY <3>1, StackFacts
    <3> QED BY <1>4, <1>16, <3>1, <3>2
  <2>2. groups' = Append(groups, g) /\ sccs' = sccs \cup ToSet(g) /\ ToSet(g) \cap sccs = {}
    BY <1>1, <1>4, <1>7
  <2> QED BY <1>3, <1>19, <2>1, <2>2, GroupingStep
<1>21. ASSUME frames' = <<>> PROVE unassigned' = <<>> /\ maybe' = <<>>
  <2>1. 1 .. n - 1 = {}
    BY <1>2, <1>21
  <2>2. ToSet(maybe') = {}
    BY <1>11, <2>1
  <2>3. maybe' = <<>>
    <3>1. b - 1 \in 1 .. b - 1 \/ b - 1 = 0
      BY <1>5
    <3>2. \A j \in 1 .. b - 1 : maybe'[j] \in ToSet(maybe')
      BY <1>5, Zenon DEF ToSet
    <3>3. Len(maybe') = 0
      BY <1>5, <2>2, <3>1, <3>2
    <3> QED BY <1>5, <3>3, SeqFacts
  <2> QED BY <1>15, <2>3 DEF Stacks
<1>22. ASSUME frames' # <<>> PROVE frames'[1] = frames[1] /\ \E z \in Active' : x \in Needed(z)
  <2>1. PICK p : p = n - 1
    OBVIOUS
  <2>2. p \in 1 .. n - 1 /\ p \in DOMAIN frames /\ p + 1 = n /\ p + 1 \in DOMAIN frames /\ 1 \in 1 .. n - 1
    BY <1>2, <1>9, <1>22, <2>1
  <2>3. x \in Needed(frames[p].item)
    BY <1>2, <2>2 DEF Path
  <2> QED BY <1>2, <1>12, <2>2, <2>3
<1>23. frames' = <<>> => x = frames[1].item
  BY <1>2
<1> QED BY <1>7, <1>13, <1>14, <1>15, <1>17, <1>18, <1>20, <1>21, <1>22, <1>23

-----------------------------------------------------------------------------
(* The steps of the sort keep the invariant *)

\* A step that leaves the stacks and the groups alone keeps what is said of them.
LEMMA SameStacks ==
  ASSUME UNCHANGED <<program, table, frames, preorders, unassigned, maybe, sccs, groups>>,
         Path, Stacks, Followed, Segments, Grouping
  PROVE  Path' /\ Stacks' /\ Followed' /\ Segments' /\ Grouping'
<1>1. /\ Active' = Active /\ OnPath' = OnPath
      /\ \A x : (Named(x)' <=> Named(x)) /\ Needed(x)' = Needed(x)
  BY SameTable DEF Active, OnPath
<1>2. Path'
  BY <1>1 DEF Path
<1>3. Stacks'
  BY <1>1 DEF Stacks
<1>4. Followed'
  BY <1>1 DEF Followed
<1>5. Segments'
  <2>1. ASSUME NEW j \in DOMAIN maybe' PROVE Segment(j)' = Segment(j) /\ Strong(Segment(j))
    BY <1>1 DEF Segment, Segments
  <2> QED BY <2>1, StrongSegments
<1>6. Grouping'
  <2>1. \A k \in DOMAIN groups : Strong(ToSet(groups[k]))
    BY DEF Grouping
  <2>2. \A k \in DOMAIN groups : \A T \in SUBSET ToSet(groups[k]) : T = {} \/ T = ToSet(groups[k])
          \/ \E x \in T : Needed(x)' \cap (ToSet(groups[k]) \ T) # {}
    BY <2>1, StaysStrong
  <2>3. \A k \in DOMAIN groups' : Strong(ToSet(groups[k]))'
    BY <2>2 DEF Strong
  <2>4. /\ \A x \in sccs : \E k \in DOMAIN groups : x \in ToSet(groups[k])
        /\ \A k, l \in DOMAIN groups : k # l => ToSet(groups[k]) \cap ToSet(groups[l]) = {}
    BY DEF Grouping
  <2>5. \A k \in DOMAIN groups :
         /\ Len(groups[k]) \in 1 .. StackCapacity
         /\ \A p, q \in DOMAIN groups[k] : groups[k][p] = groups[k][q] => p = q
         /\ \A x \in ToSet(groups[k]) : /\ x \in sccs /\ Named(x)'
                                        /\ \A y \in Needed(x)' : \E l \in 1 .. k : y \in ToSet(groups[l])
    BY <1>1 DEF Grouping
  <2> QED BY <2>3, <2>4, <2>5 DEF Grouping
<1> QED BY <1>2, <1>3, <1>4, <1>5, <1>6

\* A step that makes no group keeps what is said of the groups.
LEMMA SameGroups ==
  ASSUME UNCHANGED <<program, table, sccs, groups>>, Grouping
  PROVE  Grouping'
<1>1. \A x : (Named(x)' <=> Named(x)) /\ Needed(x)' = Needed(x)
  BY SameTable
<1>2. \A k \in DOMAIN groups : Strong(ToSet(groups[k]))
  BY DEF Grouping
<1>3. \A k \in DOMAIN groups : \A T \in SUBSET ToSet(groups[k]) : T = {} \/ T = ToSet(groups[k])
        \/ \E x \in T : Needed(x)' \cap (ToSet(groups[k]) \ T) # {}
  BY <1>2, StaysStrong
<1>4. \A k \in DOMAIN groups' : Strong(ToSet(groups[k]))'
  BY <1>3 DEF Strong
<1>5. /\ \A x \in sccs : \E k \in DOMAIN groups : x \in ToSet(groups[k])
      /\ \A k, l \in DOMAIN groups : k # l => ToSet(groups[k]) \cap ToSet(groups[l]) = {}
  BY DEF Grouping
<1>6. \A k \in DOMAIN groups :
       /\ Len(groups[k]) \in 1 .. StackCapacity
       /\ \A p, q \in DOMAIN groups[k] : groups[k][p] = groups[k][q] => p = q
       /\ \A x \in ToSet(groups[k]) : /\ x \in sccs /\ Named(x)'
                                      /\ \A y \in Needed(x)' : \E l \in 1 .. k : y \in ToSet(groups[l])
  BY <1>1 DEF Grouping
<1> QED BY <1>4, <1>5, <1>6 DEF Grouping

\* A group stays asked for while no item leaves the stack.
LEMMA StaysAsked ==
  ASSUME UNCHANGED <<program, table, file, groups>>, Asked, Active \subseteq Active',
         frames' # <<>> => frames'[1].item \in TheRoots
  PROVE  Asked'
<1>1. \A x : Needed(x)' = Needed(x)
  BY SameTable
<1>2. TheRoots' = TheRoots /\ \A S : RootOf(S)' <=> RootOf(S)
  BY SameRoots
<1>3. \A k \in DOMAIN groups :
       \/ RootOf(ToSet(groups[k]))
       \/ \E x \in Active' : Needed(x) \cap ToSet(groups[k]) # {}
       \/ \E l \in DOMAIN groups : k < l /\ \E x \in ToSet(groups[l]) : Needed(x) \cap ToSet(groups[k]) # {}
  BY DEF Asked
<1>4. \A k \in DOMAIN groups' : RootOf(ToSet(groups[k])) => RootOf(ToSet(groups[k]))'
  BY <1>2
<1> QED BY <1>1, <1>2, <1>3, <1>4 DEF Asked

\* SortRoot: a root that has a group is passed over, another one is visited.
LEMMA SortRootStep ==
  ASSUME SortInv, SortRoot
  PROVE  SortInv'
<1> SUFFICES ASSUME Running'
             PROVE  /\ SortTypes' /\ Idle' /\ Path' /\ Stacks' /\ Followed' /\ Segments' /\ Grouping'
                    /\ RootsDone' /\ Asked' /\ DocumentSort'
  BY DEF SortInv
<1>1. /\ SortTypes /\ Idle /\ Path /\ Stacks /\ Followed /\ Segments /\ Grouping
      /\ RootsDone /\ Asked /\ DocumentSort
  BY DEF SortInv, SortRoot
<1>2. /\ frames = <<>> /\ roots # <<>> /\ roots' = Tail(roots)
      /\ UNCHANGED <<program, table, file, sorting, sccs, groups>>
  BY DEF SortRoot
<1>3. /\ sorting /\ sorting' /\ file # 0 /\ file' # 0 /\ unassigned = <<>> /\ maybe = <<>>
  BY <1>1, <1>2 DEF Idle, SortTypes
<1>4. Active = {}
  BY <1>3 DEF Active, ToSet
<1>5. PICK h : h = Head(roots)
  OBVIOUS
<1>6. /\ h \in Items /\ h \in ToSet(roots) /\ roots' \in Seq(Items) /\ ToSet(roots) = {h} \cup ToSet(roots')
  BY <1>1, <1>2, <1>5, HeadTailSet DEF SortTypes
<1>7. h \in TheRoots
  BY <1>1, <1>3, <1>6 DEF RootsDone
<1>8. Named(h)
  <2>1. file \in DOMAIN program.files /\ table = program.files[file].table
    BY <1>1, <1>3, TableFacts
  <2>2. program \in Programs
    BY <1>1 DEF SortTypes
  <2> QED BY <1>7, <2>1, <2>2, RootsFacts DEF TheRoots, Named
<1>9. TheRoots' = TheRoots /\ Entry' = Entry
  BY <1>2, SameRoots
<1>10. CASE h \in sccs
  <2>1. UNCHANGED <<frames, preorders, counter, unassigned, maybe, fatal>>
    BY <1>5, <1>10 DEF SortRoot
  <2>2. Path' /\ Stacks' /\ Followed' /\ Segments' /\ Grouping'
    BY <1>1, <1>2, <2>1, SameStacks
  <2>3. SortTypes'
    BY <1>1, <1>2, <1>6, <2>1 DEF SortTypes
  <2>4. Idle'
    BY <1>1, <1>2, <1>3, <2>1 DEF Idle
  <2>5. Active' = Active
    BY <2>1 DEF Active
  <2>6. RootsDone'
    BY <1>1, <1>2, <1>3, <1>6, <1>9, <1>10, <2>5 DEF RootsDone
  <2>7. Asked'
    <3>1. frames' = <<>>
      BY <1>2, <2>1
    <3> QED BY <1>1, <1>2, <2>5, <3>1, StaysAsked
  <2>8. DocumentSort'
    <3> SUFFICES ASSUME program.files[file].type = "document" PROVE FALSE
      BY <1>2 DEF DocumentSort
    <3>1. groups = <<>>
      BY <1>1, <1>2, <1>3 DEF DocumentSort
    <3>2. DOMAIN groups = {}
      BY <3>1
    <3> QED BY <1>1, <1>10, <3>2 DEF Grouping
  <2> QED BY <2>2, <2>3, <2>4, <2>6, <2>7, <2>8
<1>11. CASE h \notin sccs
  <2>1. Visit(h, frames)
    BY <1>5, <1>11 DEF SortRoot
  <2>2. h \notin DOMAIN preorders
    BY <1>1, <1>4, <1>11 DEF Stacks
  <2>3. GoesOn(frames, h)
    <3>1. DOMAIN frames = {} /\ frames \in Seq(Frames)
      BY <1>1, <1>2 DEF SortTypes
    <3> QED BY <3>1 DEF GoesOn
  <2>4. /\ SortTypes' /\ Path' /\ Stacks' /\ Followed' /\ Segments'
        /\ Active' = Active \cup {h} /\ frames' # <<>> /\ frames'[1].item = h
    <3>1. /\ SortTypes' /\ Path' /\ Stacks' /\ Followed' /\ Segments'
          /\ Active' = Active \cup {h} /\ frames' # <<>>
          /\ frames'[1].item = IF frames = <<>> THEN h ELSE frames[1].item
      BY <1>1, <1>2, <1>3, <1>6, <1>8, <1>11, <2>1, <2>2, <2>3, VisitStep
    <3> QED BY <1>2, <3>1
  <2>5. Grouping'
    BY <1>1, <1>2, SameGroups
  <2>6. Idle'
    BY <1>3, <2>4 DEF Idle
  <2>7. RootsDone'
    BY <1>1, <1>2, <1>3, <1>6, <1>9, <2>4 DEF RootsDone
  <2>8. Asked'
    BY <1>1, <1>2, <1>7, <2>4, StaysAsked
  <2>9. DocumentSort'
    <3> SUFFICES ASSUME program.files[file].type = "document"
                 PROVE  roots' = <<>> /\ frames'[1].item = Entry
      BY <1>2, <1>3, <1>9, <2>4 DEF DocumentSort
    <3>1. roots = <<Entry>>
      BY <1>1, <1>2, <1>3 DEF DocumentSort
    <3> QED BY <1>2, <1>5, <2>4, <3>1
  <2> QED BY <2>4, <2>5, <2>6, <2>7, <2>8, <2>9
<1> QED BY <1>10, <1>11

\* SortDone: what was sorted is not touched.
LEMMA SortDoneStep ==
  ASSUME SortInv, SortDone
  PROVE  SortInv'
<1> SUFFICES ASSUME Running'
             PROVE  /\ SortTypes' /\ Idle' /\ Path' /\ Stacks' /\ Followed' /\ Segments' /\ Grouping'
                    /\ RootsDone' /\ Asked' /\ DocumentSort'
  BY DEF SortInv
<1>1. /\ SortTypes /\ Idle /\ Path /\ Stacks /\ Followed /\ Segments /\ Grouping
      /\ RootsDone /\ Asked /\ DocumentSort
  BY DEF SortInv, SortDone
<1>2. /\ frames = <<>> /\ roots = <<>> /\ sorting' = FALSE
      /\ UNCHANGED <<program, table, file, roots, frames, preorders, counter, unassigned, maybe, sccs, groups>>
  BY DEF SortDone
<1>3. Path' /\ Stacks' /\ Followed' /\ Segments' /\ Grouping'
  BY <1>1, <1>2, SameStacks
<1>4. TheRoots' = TheRoots /\ Entry' = Entry /\ Active' = Active
  BY <1>2, SameRoots DEF Active
<1>5. SortTypes'
  BY <1>1, <1>2 DEF SortTypes
<1>6. Idle'
  BY <1>1, <1>2 DEF Idle
<1>7. RootsDone'
  BY <1>1, <1>2, <1>4 DEF RootsDone
<1>8. Asked'
  BY <1>1, <1>2, <1>4, StaysAsked
<1>9. DocumentSort'
  <2> SUFFICES ASSUME file # 0, program.files[file].type = "document"
               PROVE  groups # <<>> /\ Entry \in ToSet(Last(groups))
    BY <1>2, <1>4 DEF DocumentSort
  <2>1. roots # <<Entry>>
    BY <1>2
  <2> QED BY <1>1, <1>2, <2>1 DEF DocumentSort
<1> QED BY <1>3, <1>5, <1>6, <1>7, <1>8, <1>9

\* OutgoingEdge: the edge leads to an item with a group, to one on the stack, or to a new one.
LEMMA OutgoingEdgeStep ==
  ASSUME SortInv, OutgoingEdge
  PROVE  SortInv'
<1> SUFFICES ASSUME Running'
             PROVE  /\ SortTypes' /\ Idle' /\ Path' /\ Stacks' /\ Followed' /\ Segments' /\ Grouping'
                    /\ RootsDone' /\ Asked' /\ DocumentSort'
  BY DEF SortInv
<1>1. /\ SortTypes /\ Idle /\ Path /\ Stacks /\ Followed /\ Segments /\ Grouping
      /\ RootsDone /\ Asked /\ DocumentSort
  BY DEF SortInv, OutgoingEdge
<1>2. /\ frames # <<>> /\ Last(frames).left # <<>>
      /\ UNCHANGED <<program, table, file, sorting, roots, sccs, groups>>
  BY DEF OutgoingEdge
<1>3. /\ sorting /\ file # 0 /\ sorting' /\ file' # 0 /\ roots' \in Seq(Items)
  BY <1>1, <1>2 DEF Idle, SortTypes
<1>4. PICK i : i = Head(Last(frames).left)
  OBVIOUS
<1>5. GoesOn(Waiting, i)
  BY <1>1, <1>2, <1>4, WaitingGoesOn
<1>6. Named(i)
  <2> SUFFICES ASSUME ~Named(i) PROVE FALSE
    OBVIOUS
  <2>1. fatal' = <<"no item", Last(frames).item, i>>
    <3>1. i \notin sccs /\ i \notin DOMAIN preorders \ sccs
      BY <1>1 DEF Grouping, Stacks
    <3> QED BY <1>4, <3>1 DEF OutgoingEdge, Fatal
  <2>2. \A a, b, c : <<a, b, c>> # <<>>
    OBVIOUS
  <2> QED BY <2>1, <2>2, Zenon DEF Running
<1>7. /\ SortTypes' /\ Path' /\ Stacks' /\ Followed' /\ Segments'
      /\ Active \subseteq Active' /\ frames' # <<>> /\ frames'[1].item = frames[1].item
  <2>1. CASE i \in sccs
    <3>1. frames' = Waiting /\ UNCHANGED <<preorders, counter, unassigned, maybe>>
      BY <1>4, <1>6, <2>1 DEF OutgoingEdge, Waiting
    <3>2. /\ SortTypes' /\ Path' /\ Stacks' /\ Followed' /\ Segments'
          /\ Active' = Active /\ frames' # <<>> /\ frames'[1].item = frames[1].item
      BY <1>1, <1>2, <1>4, <2>1, <3>1, EdgeStep
    <3> QED BY <3>2
  <2>2. CASE i \notin sccs /\ i \in DOMAIN preorders
    <3>1. i \in Active
      BY <1>1, <2>2 DEF Stacks
    <3>2. i \in DOMAIN preorders \ sccs /\ i \in ToSet(unassigned)
      BY <2>2, <3>1 DEF Active
    <3>3. frames' = Waiting /\ maybe' = BackTo(i) /\ UNCHANGED <<preorders, counter, unassigned>>
      BY <1>4, <1>6, <2>2, <3>2 DEF OutgoingEdge, Waiting
    <3>4. /\ SortTypes' /\ Path' /\ Stacks' /\ Followed' /\ Segments'
          /\ Active' = Active /\ frames' # <<>> /\ frames'[1].item = frames[1].item
      BY <1>1, <1>2, <1>4, <3>1, <3>3, EdgeStep
    <3> QED BY <3>4
  <2>3. CASE i \notin sccs /\ i \notin DOMAIN preorders
    <3>1. Visit(i, Waiting)
      BY <1>4, <1>6, <2>3 DEF OutgoingEdge, Waiting
    <3>2. /\ SortTypes' /\ Path' /\ Stacks' /\ Followed' /\ Segments'
          /\ Active' = Active \cup {i} /\ frames' # <<>>
          /\ frames'[1].item = IF frames = <<>> THEN i ELSE frames[1].item
      BY <1>1, <1>2, <1>3, <1>5, <1>6, <2>3, <3>1, VisitStep
    <3> QED BY <1>2, <3>2
  <2> QED BY <2>1, <2>2, <2>3
<1>8. TheRoots' = TheRoots /\ Entry' = Entry
  BY <1>2, SameRoots
<1>9. Grouping'
  BY <1>1, <1>2, SameGroups
<1>10. Idle'
  BY <1>3, <1>7 DEF Idle
<1>11. RootsDone'
  BY <1>1, <1>2, <1>3, <1>7, <1>8 DEF RootsDone
<1>12. frames[1].item \in TheRoots
  BY <1>1, <1>2 DEF Asked
<1>13. Asked'
  BY <1>1, <1>2, <1>7, <1>12, StaysAsked
<1>14. DocumentSort'
  BY <1>1, <1>2, <1>3, <1>7, <1>8 DEF DocumentSort
<1> QED BY <1>7, <1>9, <1>10, <1>11, <1>13, <1>14

\* FinishItem: the call of an item that is no maybe is forgotten, another one gives a group.
LEMMA FinishItemStep ==
  ASSUME SortInv, FinishItem
  PROVE  SortInv'
<1> SUFFICES ASSUME Running'
             PROVE  /\ SortTypes' /\ Idle' /\ Path' /\ Stacks' /\ Followed' /\ Segments' /\ Grouping'
                    /\ RootsDone' /\ Asked' /\ DocumentSort'
  BY DEF SortInv
<1>1. /\ SortTypes /\ Idle /\ Path /\ Stacks /\ Followed /\ Segments /\ Grouping
      /\ RootsDone /\ Asked /\ DocumentSort
  BY DEF SortInv, FinishItem
<1>2. /\ frames # <<>> /\ Last(frames).left = <<>> /\ frames' = Front(frames)
      /\ UNCHANGED <<program, table, file, sorting, roots, preorders, counter>>
  BY DEF FinishItem
<1>3. /\ sorting /\ file # 0 /\ sorting' /\ file' # 0
  BY <1>1, <1>2 DEF Idle
<1>4. TheRoots' = TheRoots /\ Entry' = Entry /\ \A S : RootOf(S)' <=> RootOf(S)
  BY <1>2, SameRoots
<1>5. frames[1].item \in TheRoots
  BY <1>1, <1>2 DEF Asked
<1>6. CASE ~(maybe # <<>> /\ Last(maybe) = Last(frames).item)
  <2>1. UNCHANGED <<unassigned, maybe, sccs, groups>>
    BY <1>6 DEF FinishItem
  <2>2. /\ SortTypes' /\ Path' /\ Stacks' /\ Followed' /\ Segments'
        /\ Active' = Active /\ frames' # <<>> /\ frames'[1].item = frames[1].item
    BY <1>1, <1>2, <1>6, <2>1, KeepStep
  <2>3. Grouping'
    BY <1>1, <1>2, <2>1, SameGroups
  <2>4. Idle'
    BY <1>3, <2>2 DEF Idle
  <2>5. RootsDone'
    BY <1>1, <1>2, <1>3, <1>4, <2>1, <2>2 DEF RootsDone
  <2>6. Asked'
    BY <1>1, <1>2, <1>5, <2>1, <2>2, StaysAsked
  <2>7. DocumentSort'
    BY <1>1, <1>2, <1>3, <1>4, <2>1, <2>2 DEF DocumentSort
  <2> QED BY <2>2, <2>3, <2>4, <2>5, <2>6, <2>7
<1>7. CASE maybe # <<>> /\ Last(maybe) = Last(frames).item
  <2>1. PICK x, k, g, G : x = Last(frames).item /\ k = PlaceOf(x) /\ g = GroupFrom(k) /\ G = ToSet(g)
    OBVIOUS
  <2>2. /\ unassigned' = SubSeq(unassigned, 1, k - 1) /\ maybe' = Front(maybe)
        /\ sccs' = sccs \cup G /\ groups' = Append(groups, g)
    BY <1>7, <2>1 DEF FinishItem, PlaceOf, GroupFrom
  <2>3. /\ SortTypes' /\ Path' /\ Stacks' /\ Followed' /\ Segments' /\ Grouping'
        /\ G \cap sccs = {} /\ x \in G /\ Active' = Active \ G
        /\ (frames' = <<>> => unassigned' = <<>> /\ maybe' = <<>>)
        /\ (frames' # <<>> => frames'[1] = frames[1] /\ \E z \in Active' : x \in Needed(z))
        /\ (frames' = <<>> => x = frames[1].item)
    <3>1. /\ maybe # <<>> /\ x = Last(frames).item /\ x = Last(maybe) /\ k = PlaceOf(x)
          /\ UNCHANGED <<program, table, file, sorting, roots, preorders, counter>>
          /\ frames' = Front(frames) /\ unassigned' = SubSeq(unassigned, 1, k - 1) /\ maybe' = Front(maybe)
          /\ G = ToSet(GroupFrom(k)) /\ sccs' = sccs \cup G /\ groups' = Append(groups, GroupFrom(k))
      BY <1>2, <1>7, <2>1, <2>2, Zenon
    <3>2. /\ SortTypes /\ Path /\ Stacks /\ Followed /\ Segments /\ Grouping
          /\ frames # <<>> /\ Last(frames).left = <<>>
      BY <1>1, <1>2
    <3> QED BY <3>1, <3>2, PopStep
  <2>4. PICK c : c = Len(groups)
    OBVIOUS
  <2>5. /\ c \in Nat /\ DOMAIN groups = 1 .. c /\ DOMAIN groups' = 1 .. c + 1 /\ groups'[c + 1] = g
        /\ (\A j \in 1 .. c : groups'[j] = groups[j]) /\ groups' # <<>> /\ Len(groups') = c + 1
    <3>1. PICK Gs, S : Gs = groups /\ S = Seq(Items)
      OBVIOUS
    <3>2. g \in Seq(Items)
      BY <1>1, <1>7, <2>1, PopFacts
    <3>3. Gs \in Seq(S) /\ g \in S /\ c = Len(Gs)
      BY <1>1, <2>4, <3>1, <3>2 DEF SortTypes
    <3>4. /\ c \in Nat /\ DOMAIN Gs = 1 .. c /\ DOMAIN Append(Gs, g) = 1 .. c + 1 /\ Append(Gs, g)[c + 1] = g
          /\ (\A j \in 1 .. c : Append(Gs, g)[j] = Gs[j]) /\ Append(Gs, g) # <<>> /\ Len(Append(Gs, g)) = c + 1
      BY <3>3, AppendFacts
    <3> QED BY <2>2, <3>1, <3>4, Zenon
  <2>6. Idle'
    BY <1>3, <2>3 DEF Idle
  <2>7. RootsDone'
    BY <1>1, <1>2, <1>3, <1>4, <2>2, <2>3 DEF RootsDone
  <2>8. \A y : Needed(y)' = Needed(y)
    BY <1>2, SameTable
  <2>9. ASSUME NEW j \in 1 .. c + 1
        PROVE  \/ RootOf(ToSet(groups'[j]))
               \/ \E z \in Active' : Needed(z) \cap ToSet(groups'[j]) # {}
               \/ \E l \in 1 .. c + 1 : j < l /\ \E z \in ToSet(groups'[l]) : Needed(z) \cap ToSet(groups'[j]) # {}
    <3>1. CASE j = c + 1
      <4>1. groups'[j] = g /\ G = ToSet(groups'[j])
        BY <2>1, <2>5, <3>1
      <4>2. CASE frames' = <<>>
        <5>1. x \in TheRoots
          BY <1>5, <2>3, <4>2
        <5>2. file \in 1 .. file /\ program.files[file].table = table
          BY <1>1, <1>3 DEF SortTypes
        <5>3. RootOf(G)
          BY <2>3, <5>1, <5>2 DEF RootOf, TheRoots
        <5> QED BY <4>1, <5>3
      <4>3. CASE frames' # <<>>
        BY <2>3, <4>1, <4>3
      <4> QED BY <4>2, <4>3
    <3>2. CASE j # c + 1
      <4>1. j \in DOMAIN groups /\ groups'[j] = groups[j] /\ j < c + 1 /\ c + 1 \in 1 .. c + 1
            /\ \A l \in 1 .. c : l \in 1 .. c + 1 /\ groups'[l] = groups[l]
        BY <2>5, <3>2
      <4>2. CASE RootOf(ToSet(groups[j]))
        BY <4>1, <4>2
      <4>3. CASE \E z \in Active : Needed(z) \cap ToSet(groups[j]) # {}
        <5>1. PICK z \in Active : Needed(z) \cap ToSet(groups[j]) # {}
          BY <4>3
        <5>2. CASE z \in G
          <6>1. z \in ToSet(groups'[c + 1]) /\ Needed(z) \cap ToSet(groups'[j]) # {}
            BY <2>1, <2>5, <4>1, <5>1, <5>2
          <6> QED BY <4>1, <6>1
        <5>3. CASE z \notin G
          <6>1. z \in Active' /\ Needed(z) \cap ToSet(groups'[j]) # {}
            BY <2>3, <4>1, <5>1, <5>3
          <6> QED BY <6>1
        <5> QED BY <5>2, <5>3
      <4>4. CASE \E l \in DOMAIN groups : j < l /\ \E z \in ToSet(groups[l]) : Needed(z) \cap ToSet(groups[j]) # {}
        <5>1. PICK l \in 1 .. c : j < l /\ \E z \in ToSet(groups[l]) : Needed(z) \cap ToSet(groups[j]) # {}
          BY <2>5, <4>4
        <5> QED BY <4>1, <5>1
      <4> QED BY <1>1, <4>1, <4>2, <4>3, <4>4 DEF Asked
    <3> QED BY <3>1, <3>2
  <2>10. Asked'
    <3>1. frames' # <<>> => frames'[1].item \in TheRoots'
      BY <1>4, <1>5, <2>3
    <3>2. \A j \in DOMAIN groups' :
            \/ RootOf(ToSet(groups'[j]))
            \/ \E z \in Active' : Needed(z)' \cap ToSet(groups'[j]) # {}
            \/ \E l \in DOMAIN groups' : j < l /\ \E z \in ToSet(groups'[l]) : Needed(z)' \cap ToSet(groups'[j]) # {}
      BY <2>5, <2>8, <2>9
    <3>3. \A j \in DOMAIN groups' : RootOf(ToSet(groups'[j])) => RootOf(ToSet(groups[j]))'
      <4>1. \A S : RootOf(S) => \E f \in 1 .. file' :
                 program'.files[f].table = table' /\ S \cap ToSet(RootsOf(program.files[f]))' # {}
        BY <1>2 DEF RootOf, RootsOf, ItemOf
      <4> QED BY <4>1 DEF RootOf
    <3> QED BY <3>1, <3>2, <3>3 DEF Asked
  <2>11. DocumentSort'
    <3> SUFFICES ASSUME program.files[file].type = "document"
                 PROVE  \/ frames' # <<>> /\ roots' = <<>> /\ frames'[1].item = Entry
                        \/ frames' = <<>> /\ roots' = <<>> /\ groups' # <<>> /\ Entry \in ToSet(Last(groups'))
      BY <1>2, <1>3, <1>4 DEF DocumentSort
    <3>1. roots = <<>> /\ frames[1].item = Entry
      BY <1>1, <1>2, <1>3 DEF DocumentSort
    <3>2. Last(groups') = g
      BY <2>5 DEF Last
    <3>3. frames' = <<>> => Entry \in ToSet(Last(groups'))
      BY <2>1, <2>3, <3>1, <3>2
    <3> QED BY <1>2, <2>3, <2>5, <3>1, <3>3
  <2> QED BY <2>3, <2>6, <2>7, <2>10, <2>11
<1> QED BY <1>6, <1>7

\* SortFile: the next file begins with empty stacks, and with the groups of its table so far.
LEMMA SortFileStep ==
  ASSUME SortInv, SortFile
  PROVE  SortInv'
<1> SUFFICES ASSUME Running'
             PROVE  /\ SortTypes' /\ Idle' /\ Path' /\ Stacks' /\ Followed' /\ Segments' /\ Grouping'
                    /\ RootsDone' /\ Asked' /\ DocumentSort'
  BY DEF SortInv
<1>1. /\ SortTypes /\ Idle /\ Path /\ Stacks /\ Followed /\ Segments /\ Grouping
      /\ RootsDone /\ Asked /\ DocumentSort
  BY DEF SortInv, SortFile
<1>2. /\ ~sorting /\ file < Len(program.files) /\ file' = file + 1
      /\ table' = program.files[file + 1].table /\ sorting' = TRUE
      /\ roots' = RootsOf(program.files[file + 1])
      /\ preorders' = <<>> /\ counter' = 1 /\ unassigned' = <<>> /\ maybe' = <<>>
      /\ program' = program /\ frames' = frames
      /\ \/ table' = table /\ sccs' = sccs /\ groups' = groups
         \/ table' # table /\ sccs' = {} /\ groups' = <<>>
  BY DEF SortFile
<1>3. frames = <<>> /\ roots = <<>> /\ unassigned = <<>> /\ maybe = <<>>
  BY <1>1, <1>2 DEF Idle
<1>4. /\ program \in Programs /\ file \in Nat /\ file' # 0 /\ file' \in Nat
      /\ file' \in 0 .. Len(program.files) /\ file' \in DOMAIN program.files
  <2>1. program \in Programs /\ file \in 0 .. Len(program.files)
    BY <1>1 DEF SortTypes
  <2>2. Len(program.files) \in Nat /\ DOMAIN program.files = 1 .. Len(program.files)
    BY <2>1, ProgramShape
  <2> QED BY <1>2, <2>1, <2>2
<1>5. /\ roots' \in Seq(Items)
      /\ program.files[file'].type = "document" =>
           /\ roots' = <<Head(roots')>>
           /\ \A m \in 1 .. file' - 1 : program.files[m].table # program.files[file'].table
  BY <1>2, <1>4, RootsFacts
<1>6. DOMAIN preorders' = {} /\ DOMAIN maybe' = {} /\ DOMAIN unassigned' = {} /\ DOMAIN frames' = {}
      /\ DOMAIN frames = {} /\ ToSet(maybe') = {} /\ ToSet(unassigned') = {} /\ ToSet(unassigned) = {}
  <2>1. \A s : s = <<>> => DOMAIN s = {} /\ ToSet(s) = {}
    BY DEF ToSet
  <2> QED BY <1>2, <1>3, <2>1
<1>7. Active' = {} /\ Active = {}
  BY <1>6 DEF Active
<1>8. SortTypes'
  <2>1. sccs \subseteq Items /\ groups \in Seq(Seq(Items)) /\ frames \in Seq(Frames)
    BY <1>1 DEF SortTypes
  <2>2. sccs' \subseteq Items /\ groups' \in Seq(Seq(Items)) /\ frames' \in Seq(Frames)
    <3>1. <<>> \in Seq(Seq(Items))
      OBVIOUS
    <3>2. groups' \in Seq(Seq(Items))
      BY <1>2, <2>1, <3>1, Zenon
    <3> QED BY <1>2, <2>1, <3>2
  <2>3. unassigned' \in Seq(Items) /\ maybe' \in Seq(Items) /\ Len(unassigned') <= StackCapacity
    BY <1>2, StackCapacityAssumption
  <2>4. \A x \in DOMAIN preorders' : x \in Items /\ preorders'[x] \in Nat /\ preorders'[x] < counter'
    BY <1>6
  <2> QED BY <1>2, <1>4, <1>5, <2>2, <2>3, <2>4 DEF SortTypes
<1>9. Idle'
  BY <1>2, <1>4 DEF Idle
<1>10. Path'
  BY <1>6 DEF Path
<1>11. Stacks'
  BY <1>2, <1>6, <1>7 DEF Stacks
<1>12. Followed' /\ Segments'
  BY <1>6, <1>7 DEF Followed, Segments
<1>13. Grouping'
  <2>1. CASE table' = table /\ sccs' = sccs /\ groups' = groups
    BY <1>1, <1>2, <2>1, SameGroups
  <2>2. CASE sccs' = {} /\ groups' = <<>>
    <3>1. DOMAIN groups' = {}
      BY <2>2
    <3> QED BY <2>2, <3>1 DEF Grouping
  <2> QED BY <1>2, <2>1, <2>2
<1>14. TheRoots' = ToSet(roots')
  BY <1>2 DEF TheRoots, RootsOf, ItemOf
<1>15. RootsDone'
  BY <1>14 DEF RootsDone
<1>16. ASSUME file = 0 PROVE groups = <<>>
  <2> SUFFICES ASSUME groups # <<>> PROVE FALSE
    OBVIOUS
  <2>1. PICK c : c = Len(groups)
    OBVIOUS
  <2>2. c \in DOMAIN groups /\ DOMAIN groups = 1 .. c /\ c \in Nat
    BY <1>1, <2>1, Lengths
  <2>3. ~ \E l \in DOMAIN groups : c < l
    BY <2>2
  <2>4. ~ RootOf(ToSet(groups[c]))
    BY <1>16 DEF RootOf
  <2> QED BY <1>1, <1>7, <2>2, <2>3, <2>4 DEF Asked
<1>17. Asked'
  <2>1. CASE table' = table /\ groups' = groups
    <3>1. \A y : Needed(y)' = Needed(y)
      BY <1>2, <2>1, SameTable
    <3>2. \A S : RootOf(S) => RootOf(S)'
      <4>1. \A S : RootOf(S) => \E f \in 1 .. file' :
                 program'.files[f].table = table' /\ S \cap ToSet(RootsOf(program.files[f]))' # {}
        <5>1. 1 .. file \subseteq 1 .. file'
          BY <1>2, <1>4
        <5> QED BY <1>2, <2>1, <5>1 DEF RootOf, RootsOf, ItemOf
      <4> QED BY <4>1 DEF RootOf
    <3>3. \A k \in DOMAIN groups :
            \/ RootOf(ToSet(groups[k]))
            \/ \E l \in DOMAIN groups : k < l /\ \E x \in ToSet(groups[l]) : Needed(x) \cap ToSet(groups[k]) # {}
      BY <1>1, <1>7 DEF Asked
    <3>4. \A k \in DOMAIN groups' : RootOf(ToSet(groups[k])) => RootOf(ToSet(groups[k]))'
      BY <2>1, <3>2
    <3> QED BY <1>2, <1>3, <2>1, <3>1, <3>3, <3>4 DEF Asked
  <2>2. CASE groups' = <<>>
    <3>1. DOMAIN groups' = {}
      BY <2>2
    <3> QED BY <1>2, <1>3, <3>1 DEF Asked
  <2> QED BY <1>2, <2>1, <2>2
<1>18. DocumentSort'
  <2> SUFFICES ASSUME program.files[file'].type = "document"
               PROVE  roots' = <<Entry'>> /\ groups' = <<>>
    BY <1>2, <1>3 DEF DocumentSort
  <2>1. Entry' = Head(roots')
    BY <1>2 DEF Entry, RootsOf, ItemOf
  <2>2. groups' = <<>>
    <3>1. CASE file = 0
      BY <1>2, <1>16, <3>1
    <3>2. CASE file # 0
      <4>1. file \in 1 .. file' - 1
        BY <1>2, <1>4, <3>2
      <4>2. table = program.files[file].table
        BY <1>1, <3>2 DEF SortTypes
      <4>3. table' # table
        BY <1>2, <1>5, <4>1, <4>2
      <4> QED BY <1>2, <4>3
    <3> QED BY <3>1, <3>2
  <2> QED BY <1>5, <2>1, <2>2
<1> QED BY <1>8, <1>9, <1>10, <1>11, <1>12, <1>13, <1>15, <1>17, <1>18

\* What the sort leaves to the loader stays as it is.
LEMMA SortKept ==
  ASSUME SortInv, Running,
         UNCHANGED <<program, table, file, sorting, roots, frames, preorders, counter, unassigned, maybe, sccs, groups>>
  PROVE  SortInv'
<1> SUFFICES ASSUME Running'
             PROVE  /\ SortTypes' /\ Idle' /\ Path' /\ Stacks' /\ Followed' /\ Segments' /\ Grouping'
                    /\ RootsDone' /\ Asked' /\ DocumentSort'
  BY DEF SortInv
<1>1. /\ SortTypes /\ Idle /\ Path /\ Stacks /\ Followed /\ Segments /\ Grouping
      /\ RootsDone /\ Asked /\ DocumentSort
  BY DEF SortInv
<1>2. Path' /\ Stacks' /\ Followed' /\ Segments' /\ Grouping'
  BY <1>1, SameStacks
<1>3. TheRoots' = TheRoots /\ Entry' = Entry /\ Active' = Active
  BY SameRoots DEF Active
<1>4. SortTypes' /\ Idle'
  BY <1>1 DEF SortTypes, Idle
<1>5. RootsDone'
  BY <1>1, <1>3 DEF RootsDone
<1>6. frames' # <<>> => frames'[1].item \in TheRoots
  BY <1>1 DEF Asked
<1>7. Asked'
  BY <1>1, <1>3, <1>6, StaysAsked
<1>8. DocumentSort'
  BY <1>1, <1>3 DEF DocumentSort
<1> QED BY <1>2, <1>4, <1>5, <1>7, <1>8

\* Nothing is sorted at the start.
LEMMA SortInit ==
  ASSUME OrderInit
  PROVE  SortInv
<1>1. /\ program \in Programs /\ file = 0 /\ sorting = FALSE /\ roots = <<>> /\ frames = <<>>
      /\ preorders = <<>> /\ counter = 1 /\ unassigned = <<>> /\ maybe = <<>> /\ sccs = {} /\ groups = <<>>
  BY DEF OrderInit
<1>2. /\ DOMAIN preorders = {} /\ DOMAIN maybe = {} /\ DOMAIN unassigned = {} /\ DOMAIN frames = {}
      /\ DOMAIN groups = {} /\ ToSet(maybe) = {} /\ ToSet(unassigned) = {}
  BY <1>1 DEF ToSet
<1>3. Active = {}
  BY <1>2 DEF Active
<1>4. SortTypes
  <2>1. Len(program.files) \in Nat
    BY <1>1, ProgramShape
  <2>2. file \in 0 .. Len(program.files)
    BY <1>1, <2>1
  <2>3. roots \in Seq(Items) /\ frames \in Seq(Frames) /\ unassigned \in Seq(Items) /\ maybe \in Seq(Items)
    BY <1>1
  <2>4. groups \in Seq(Seq(Items)) /\ Len(unassigned) <= StackCapacity
    BY <1>1, StackCapacityAssumption
  <2> QED BY <1>1, <1>2, <2>2, <2>3, <2>4 DEF SortTypes
<1>5. Idle /\ Path /\ Stacks
  BY <1>1, <1>2, <1>3 DEF Idle, Path, Stacks
<1>6. Followed /\ Segments /\ Grouping
  BY <1>1, <1>2, <1>3 DEF Followed, Segments, Grouping
<1>7. RootsDone /\ Asked /\ DocumentSort
  BY <1>1, <1>2 DEF RootsDone, Asked, DocumentSort
<1> QED BY <1>4, <1>5, <1>6, <1>7 DEF SortInv

\* The invariant of the sort, over all files and whatever the loader does between them.
THEOREM SortInductive == Spec => []SortInv
<1>1. Init => SortInv
  BY SortInit DEF Init
<1>2. SortInv /\ [Next]_vars => SortInv'
  <2> SUFFICES ASSUME SortInv, [Next]_vars PROVE SortInv'
    OBVIOUS
  <2>1. CASE NextFile
    BY <2>1, SortFileStep DEF NextFile
  <2>2. CASE Sort
    BY <2>2, SortRootStep, SortDoneStep, OutgoingEdgeStep, FinishItemStep DEF Sort
  <2>3. CASE LoadGroup /\ UNCHANGED <<program, table, file, sorting, roots, frames, preorders, counter,
                                      unassigned, maybe, sccs, groups>>
    <3>1. Running
      BY <2>3 DEF LoadGroup, BeginGroup, PhaseItem, TypesItem, TypeReferent, TypeDone, EndGroup, InTypes,
                  InPhase, Loading
    <3> QED BY <2>3, <3>1, SortKept
  <2>4. CASE UNCHANGED vars
    <3>1. UNCHANGED <<program, table, file, sorting, roots, frames, preorders, counter, unassigned, maybe,
                      sccs, groups, fatal>>
      BY <2>4 DEF vars, order
    <3>2. CASE Running
      BY <3>1, <3>2, SortKept
    <3>3. CASE ~Running
      BY <3>1, <3>3 DEF SortInv, Running
    <3> QED BY <3>2, <3>3
  <2> QED BY <2>1, <2>2, <2>3, <2>4 DEF Next, Terminated
<1> QED BY <1>1, <1>2, PTL DEF Spec

-----------------------------------------------------------------------------
(* The groups the sort makes *)

\* A call that ends as the top maybe makes a group of new items.
LEMMA GroupMade ==
  ASSUME SortInv, FinishItem, maybe # <<>>, Last(maybe) = Last(frames).item,
         NEW g, g = GroupFrom(PlaceOf(Last(frames).item)), NEW c, c = Len(groups)
  PROVE  /\ groups' = Append(groups, g) /\ sccs' = sccs \cup ToSet(g) /\ fatal' = fatal
         /\ g \in Seq(Items) /\ ToSet(g) \cap sccs = {} /\ Last(frames).item \in ToSet(g)
         /\ c \in Nat /\ DOMAIN groups = 1 .. c /\ Len(groups') = c + 1 /\ DOMAIN groups' = 1 .. c + 1
         /\ groups'[c + 1] = g /\ \A j \in 1 .. c : groups'[j] = groups[j]
         /\ Grouping'
<1>1. /\ SortTypes /\ Idle /\ Path /\ Stacks /\ Followed /\ Segments /\ Grouping
  BY DEF SortInv, FinishItem
<1>2. /\ frames # <<>> /\ Last(frames).left = <<>> /\ frames' = Front(frames)
      /\ UNCHANGED <<program, table, file, sorting, roots, preorders, counter>>
  BY DEF FinishItem
<1>3. PICK x, k, G : x = Last(frames).item /\ k = PlaceOf(x) /\ G = ToSet(g)
  OBVIOUS
<1>4. g = GroupFrom(k)
  BY <1>3
<1>5. /\ unassigned' = SubSeq(unassigned, 1, k - 1) /\ maybe' = Front(maybe)
      /\ sccs' = sccs \cup G /\ groups' = Append(groups, g)
  BY <1>3, <1>4 DEF FinishItem, PlaceOf, GroupFrom
<1>6. Grouping' /\ G \cap sccs = {} /\ x \in G
  <2>1. /\ maybe # <<>> /\ x = Last(frames).item /\ x = Last(maybe) /\ k = PlaceOf(x)
        /\ UNCHANGED <<program, table, file, sorting, roots, preorders, counter>>
        /\ frames' = Front(frames) /\ unassigned' = SubSeq(unassigned, 1, k - 1) /\ maybe' = Front(maybe)
        /\ G = ToSet(GroupFrom(k)) /\ sccs' = sccs \cup G /\ groups' = Append(groups, GroupFrom(k))
    BY <1>2, <1>3, <1>4, <1>5, Zenon
  <2>2. /\ SortTypes /\ Path /\ Stacks /\ Followed /\ Segments /\ Grouping
        /\ frames # <<>> /\ Last(frames).left = <<>>
    BY <1>1, <1>2
  <2> QED BY <2>1, <2>2, PopStep
<1>7. fatal' = fatal
  BY <1>3, <1>4, <1>6 DEF FinishItem, PlaceOf, GroupFrom
<1>8. g \in Seq(Items)
  BY <1>1, <1>2, <1>3, <1>4, PopFacts
<1>9. /\ c \in Nat /\ DOMAIN groups = 1 .. c /\ DOMAIN groups' = 1 .. c + 1 /\ groups'[c + 1] = g
      /\ (\A j \in 1 .. c : groups'[j] = groups[j]) /\ Len(groups') = c + 1
  <2>1. PICK Gs, S : Gs = groups /\ S = Seq(Items)
    OBVIOUS
  <2>2. Gs \in Seq(S) /\ g \in S /\ c = Len(Gs)
    BY <1>1, <1>8, <2>1 DEF SortTypes
  <2>3. /\ c \in Nat /\ DOMAIN Gs = 1 .. c /\ DOMAIN Append(Gs, g) = 1 .. c + 1 /\ Append(Gs, g)[c + 1] = g
        /\ (\A j \in 1 .. c : Append(Gs, g)[j] = Gs[j]) /\ Append(Gs, g) # <<>> /\ Len(Append(Gs, g)) = c + 1
    BY <2>2, AppendFacts
  <2> QED BY <1>5, <2>1, <2>3, Zenon
<1> QED BY <1>3, <1>5, <1>6, <1>7, <1>8, <1>9

-----------------------------------------------------------------------------
(* The sort implements ItemGroups *)

\* What stands for the variables of ItemGroups.
AbsGraph == [t \in DOMAIN program.tables |->
                [i \in Items |-> IF DefiningIn(program, t, i) = {} THEN {} ELSE ToSet(Edges(ItemOf(t, i)))]]
AbsFiles == [n \in DOMAIN program.files |->
                [table |-> program.files[n].table, type |-> program.files[n].type,
                 roots |-> ToSet(RootsOf(program.files[n]))]]
AbsGroups == [k \in DOMAIN groups |-> ToSet(groups[k])]
AbsSorted == IF sorting THEN file - 1 ELSE file

\* The items of all groups, and what a set of items needs.
AbsGrouped == UNION ToSet(AbsGroups)
AbsNeeds(S) == UNION {AbsGraph[table][i] : i \in S}

\* The variables of ItemGroups.
LEMMA AbsVars ==
  ASSUME UNCHANGED <<AbsGraph, AbsFiles, AbsGroups, AbsSorted, table>>
  PROVE  UNCHANGED Promised!vars
BY Zenon DEF Promised!vars, AbsGraph, AbsFiles, AbsGroups, AbsSorted

\* Its start.
LEMMA AbsInit ==
  ASSUME table = 1, AbsGroups = <<>>, AbsSorted = 0
  PROVE  Promised!Init
BY Zenon DEF Promised!Init, AbsGroups, AbsSorted

\* Its steps: a new table,
LEMMA AbsNewTable ==
  ASSUME AbsSorted < Len(AbsFiles), table # AbsFiles[AbsSorted + 1].table,
         table' = AbsFiles[AbsSorted + 1].table, AbsGroups' = <<>>, UNCHANGED <<AbsGraph, AbsFiles, AbsSorted>>
  PROVE  Promised!NewTable
BY Zenon DEF Promised!NewTable, AbsGraph, AbsFiles, AbsGroups, AbsSorted

\* a group,
LEMMA AbsGroup ==
  ASSUME NEW S, AbsSorted < Len(AbsFiles), table = AbsFiles[AbsSorted + 1].table,
         S \subseteq Items, S # {}, S \cap AbsGrouped = {},
         \A T \in (SUBSET S) \ {{}, S} : AbsNeeds(T) \cap (S \ T) # {},
         AbsNeeds(S) \subseteq S \cup AbsGrouped,
         AbsGroups' = Append(AbsGroups, S), UNCHANGED <<AbsGraph, AbsFiles, table, AbsSorted>>
  PROVE  Promised!Group(S)
BY Zenon DEF Promised!Group, Promised!Connected, Promised!Needs, Promised!Grouped, AbsGraph, AbsFiles, AbsGroups, AbsSorted,
       AbsGrouped, AbsNeeds, Promised!ToSet, ToSet

\* the end of a file.
LEMMA AbsEndFile ==
  ASSUME AbsSorted < Len(AbsFiles), table = AbsFiles[AbsSorted + 1].table,
         AbsFiles[AbsSorted + 1].roots \subseteq AbsGrouped,
         AbsFiles[AbsSorted + 1].type = "document" => AbsFiles[AbsSorted + 1].roots \subseteq Last(AbsGroups),
         \A k \in DOMAIN AbsGroups :
           \/ \E f \in 1 .. AbsSorted + 1 : AbsFiles[f].table = table /\ AbsGroups[k] \cap AbsFiles[f].roots # {}
           \/ \E l \in k + 1 .. Len(AbsGroups) : AbsNeeds(AbsGroups[l]) \cap AbsGroups[k] # {},
         AbsSorted' = AbsSorted + 1, UNCHANGED <<AbsGraph, AbsFiles, table, AbsGroups>>
  PROVE  Promised!EndFile
BY Zenon DEF Promised!EndFile, Promised!Wanted, Promised!Needs, Promised!Grouped, AbsGraph, AbsFiles, AbsGroups, AbsSorted,
       AbsGrouped, AbsNeeds, Promised!ToSet, ToSet, Promised!Last, Last

\* A step is one of these.
LEMMA AbsNext ==
  ASSUME \/ Promised!NewTable
         \/ Promised!EndFile
         \/ \E S \in ToSet(AbsGroups') : Promised!Group(S)
  PROVE  Promised!Next
BY Zenon DEF Promised!Next, AbsGroups, Promised!ToSet, ToSet

\* The files and the groups of ItemGroups are sequences like those of the program.
LEMMA AbsShapes ==
  ASSUME SortTypes
  PROVE  /\ Len(AbsFiles) = Len(program.files)
         /\ \A n \in DOMAIN program.files :
              /\ AbsFiles[n].table = program.files[n].table /\ AbsFiles[n].type = program.files[n].type
              /\ AbsFiles[n].roots = ToSet(RootsOf(program.files[n]))
         /\ AbsGroups \in Seq(SUBSET Items) /\ Len(AbsGroups) = Len(groups) /\ DOMAIN AbsGroups = DOMAIN groups
         /\ \A k \in DOMAIN groups : AbsGroups[k] = ToSet(groups[k])
<1>1. PICK m, c : m = Len(program.files) /\ c = Len(groups)
  OBVIOUS
<1>2. m \in Nat /\ DOMAIN program.files = 1 .. m
  BY <1>1, ProgramShape DEF SortTypes
<1>3. c \in Nat /\ DOMAIN groups = 1 .. c
  BY <1>1, Lengths
<1>4. Len(AbsFiles) = m
  BY <1>2 DEF AbsFiles
<1>5. \A n \in DOMAIN program.files :
        /\ AbsFiles[n].table = program.files[n].table /\ AbsFiles[n].type = program.files[n].type
        /\ AbsFiles[n].roots = ToSet(RootsOf(program.files[n]))
  BY DEF AbsFiles
<1>6. DOMAIN AbsGroups = 1 .. c /\ \A k \in 1 .. c : AbsGroups[k] = ToSet(groups[k])
  BY <1>3 DEF AbsGroups
<1>7. \A k \in 1 .. c : ToSet(groups[k]) \in SUBSET Items
  <2> SUFFICES ASSUME NEW k \in 1 .. c PROVE ToSet(groups[k]) \subseteq Items
    OBVIOUS
  <2>1. PICK g : g = groups[k]
    OBVIOUS
  <2>2. g \in Seq(Items)
    BY <1>3, <2>1 DEF SortTypes
  <2> QED BY <2>1, <2>2, SeqFacts
<1>8. AbsGroups \in Seq(SUBSET Items) /\ Len(AbsGroups) = c
  <2>1. AbsGroups = [k \in 1 .. c |-> ToSet(groups[k])]
    BY <1>3 DEF AbsGroups
  <2>2. AbsGroups \in [1 .. c -> SUBSET Items]
    BY <1>7, <2>1
  <2> QED BY <1>3, <2>2
<1> QED BY <1>1, <1>3, <1>4, <1>5, <1>6, <1>8

\* The items of the groups are those the table has a group for, and what ItemGroups takes an
\* item to need is what the sort takes it to need.
LEMMA AbsData ==
  ASSUME SortTypes, Grouping, file # 0
  PROVE  /\ AbsGrouped = sccs
         /\ \A S : (\A x \in S : Named(x)) => AbsNeeds(S) = UNION {Needed(x) : x \in S}
<1>1. DOMAIN AbsGroups = DOMAIN groups /\ \A k \in DOMAIN groups : AbsGroups[k] = ToSet(groups[k])
  BY AbsShapes
<1>2. \A x : x \in AbsGrouped <=> \E k \in DOMAIN groups : x \in ToSet(groups[k])
  <2>1. ToSet(AbsGroups) = {AbsGroups[k] : k \in DOMAIN AbsGroups}
    BY DEF ToSet
  <2> QED BY <1>1, <2>1, Zenon DEF AbsGrouped
<1>3. AbsGrouped = sccs
  BY <1>2 DEF Grouping
<1>4. ASSUME NEW x, Named(x) PROVE AbsGraph[table][x] = Needed(x)
  <2>1. table \in DOMAIN program.tables /\ x \in Items /\ DefiningIn(program, table, x) # {}
    BY <1>4, TableFacts, NamedFacts DEF Named
  <2> QED BY <2>1, Zenon DEF AbsGraph, Needed, Item
<1>5. ASSUME NEW S, \A x \in S : Named(x) PROVE AbsNeeds(S) = UNION {Needed(x) : x \in S}
  <2>1. \A x \in S : AbsGraph[table][x] = Needed(x)
    BY <1>4, <1>5
  <2>2. {AbsGraph[table][x] : x \in S} = {Needed(x) : x \in S}
    BY <2>1
  <2> QED BY <2>2 DEF AbsNeeds
<1> QED BY <1>3, <1>5

\* The program stays, and so do its files and what its items need.
LEMMA SameProgram ==
  ASSUME UNCHANGED program
  PROVE  UNCHANGED <<AbsGraph, AbsFiles>>
BY DEF AbsGraph, AbsFiles, ItemOf, RootsOf

\* The end of a file.
LEMMA AbsSortDone ==
  ASSUME SortInv, SortDone
  PROVE  Promised!EndFile
<1>1. SortTypes /\ Idle /\ Grouping /\ RootsDone /\ Asked /\ DocumentSort
  BY DEF SortInv, SortDone
<1>2. /\ sorting /\ frames = <<>> /\ roots = <<>> /\ sorting' = FALSE
      /\ UNCHANGED <<program, table, file, groups>>
  BY DEF SortDone
<1>3. file # 0 /\ Active = {} /\ ToSet(roots) = {}
  <2>1. unassigned = <<>>
    BY <1>1, <1>2 DEF Idle
  <2>2. \A s : s = <<>> => ToSet(s) = {}
    BY DEF ToSet
  <2> QED BY <1>1, <1>2, <2>1, <2>2 DEF Idle, Active
<1>4. file \in DOMAIN program.files /\ table = program.files[file].table /\ table \in DOMAIN program.tables
  BY <1>1, <1>3, TableFacts
<1>5. file \in Nat /\ file <= Len(program.files) /\ Len(program.files) \in Nat /\ program \in Programs
      /\ DOMAIN program.files = 1 .. Len(program.files)
  BY <1>1, <1>4, ProgramShape DEF SortTypes
<1>6. AbsSorted = file - 1 /\ AbsSorted + 1 = file /\ AbsSorted' = file
  BY <1>2, <1>5 DEF AbsSorted
<1>7. /\ Len(AbsFiles) = Len(program.files)
      /\ \A n \in DOMAIN program.files :
              /\ AbsFiles[n].table = program.files[n].table /\ AbsFiles[n].type = program.files[n].type
              /\ AbsFiles[n].roots = ToSet(RootsOf(program.files[n]))
      /\ AbsGroups \in Seq(SUBSET Items) /\ Len(AbsGroups) = Len(groups) /\ DOMAIN AbsGroups = DOMAIN groups
      /\ \A k \in DOMAIN groups : AbsGroups[k] = ToSet(groups[k])
  BY <1>1, AbsShapes
<1>8. AbsSorted < Len(AbsFiles) /\ table = AbsFiles[AbsSorted + 1].table
  BY <1>4, <1>5, <1>6, <1>7
<1>9. TheRoots \subseteq sccs
  BY <1>1, <1>3 DEF RootsDone
<1>10. AbsFiles[AbsSorted + 1].roots = TheRoots
  BY <1>4, <1>6, <1>7 DEF TheRoots
<1>11. AbsGrouped = sccs
  BY <1>1, <1>3, AbsData
<1>12. AbsFiles[AbsSorted + 1].roots \subseteq AbsGrouped
  BY <1>9, <1>10, <1>11
<1>13. ASSUME AbsFiles[AbsSorted + 1].type = "document"
       PROVE  AbsFiles[AbsSorted + 1].roots \subseteq Last(AbsGroups)
  <2>1. program.files[file].type = "document"
    BY <1>4, <1>6, <1>7, <1>13
  <2>2. groups # <<>> /\ Entry \in ToSet(Last(groups))
    <3>1. roots # <<Entry>>
      BY <1>2
    <3> QED BY <1>1, <1>2, <1>3, <2>1, <3>1 DEF DocumentSort
  <2>3. PICK c : c = Len(groups)
    OBVIOUS
  <2>4. c \in DOMAIN groups
    BY <1>1, <2>2, <2>3, Lengths
  <2>5. Last(AbsGroups) = ToSet(Last(groups))
    BY <1>7, <2>3, <2>4 DEF Last
  <2>6. RootsOf(program.files[file]) = <<Entry>>
    BY <1>4, <1>5, <2>1, RootsFacts DEF Entry
  <2>7. \A e : ToSet(<<e>>) = {e}
    BY DEF ToSet
  <2>8. TheRoots = {Entry}
    BY <2>6, <2>7 DEF TheRoots
  <2> QED BY <1>10, <2>2, <2>5, <2>8
<1>14. ASSUME NEW k \in DOMAIN AbsGroups
       PROVE  \/ \E f \in 1 .. AbsSorted + 1 : AbsFiles[f].table = table /\ AbsGroups[k] \cap AbsFiles[f].roots # {}
              \/ \E l \in k + 1 .. Len(AbsGroups) : AbsNeeds(AbsGroups[l]) \cap AbsGroups[k] # {}
  <2>1. k \in DOMAIN groups /\ AbsGroups[k] = ToSet(groups[k])
    BY <1>7
  <2>2. CASE RootOf(ToSet(groups[k]))
    <3>1. PICK f \in 1 .. file :
              program.files[f].table = table /\ ToSet(groups[k]) \cap ToSet(RootsOf(program.files[f])) # {}
      BY <2>2 DEF RootOf
    <3>2. f \in DOMAIN program.files
      BY <1>5
    <3> QED BY <1>6, <1>7, <2>1, <3>1, <3>2
  <2>3. CASE \E l \in DOMAIN groups : k < l /\ \E x \in ToSet(groups[l]) : Needed(x) \cap ToSet(groups[k]) # {}
    <3>1. PICK l \in DOMAIN groups : k < l /\ \E x \in ToSet(groups[l]) : Needed(x) \cap ToSet(groups[k]) # {}
      BY <2>3
    <3>2. \A x \in ToSet(groups[l]) : Named(x)
      BY <1>1 DEF Grouping
    <3>3. AbsNeeds(ToSet(groups[l])) = UNION {Needed(x) : x \in ToSet(groups[l])}
      BY <1>1, <1>3, <3>2, AbsData
    <3>4. AbsNeeds(AbsGroups[l]) \cap AbsGroups[k] # {}
      BY <1>7, <2>1, <3>1, <3>3
    <3>5. l \in k + 1 .. Len(AbsGroups)
      <4>1. DOMAIN groups = 1 .. Len(groups) /\ Len(groups) \in Nat
        BY <1>1, Lengths
      <4> QED BY <1>7, <2>1, <3>1, <4>1
    <3> QED BY <3>4, <3>5
  <2> QED BY <1>1, <1>3, <2>1, <2>2, <2>3 DEF Asked
<1>15. UNCHANGED <<AbsGraph, AbsFiles, table, AbsGroups>>
  BY <1>2, SameProgram DEF AbsGroups
<1>16. AbsSorted' = AbsSorted + 1
  BY <1>6
<1> QED BY <1>8, <1>12, <1>13, <1>14, <1>15, <1>16, AbsEndFile

\* A group.
LEMMA AbsFinishItem ==
  ASSUME SortInv, FinishItem, maybe # <<>>, Last(maybe) = Last(frames).item
  PROVE  \E S \in ToSet(AbsGroups') : Promised!Group(S)
<1>1. SortTypes /\ Idle /\ Grouping
  BY DEF SortInv, FinishItem
<1>2. /\ frames # <<>> /\ UNCHANGED <<program, table, file, sorting>>
  BY DEF FinishItem
<1>3. sorting /\ file # 0
  BY <1>1, <1>2 DEF Idle
<1>4. PICK g, c, S : g = GroupFrom(PlaceOf(Last(frames).item)) /\ c = Len(groups) /\ S = ToSet(g)
  OBVIOUS
<1>5. /\ groups' = Append(groups, g) /\ sccs' = sccs \cup ToSet(g) /\ fatal' = fatal
      /\ g \in Seq(Items) /\ ToSet(g) \cap sccs = {} /\ Last(frames).item \in ToSet(g)
      /\ c \in Nat /\ DOMAIN groups = 1 .. c /\ Len(groups') = c + 1 /\ DOMAIN groups' = 1 .. c + 1
      /\ groups'[c + 1] = g /\ (\A j \in 1 .. c : groups'[j] = groups[j])
      /\ Grouping'
  BY <1>4, GroupMade
<1>6. file \in DOMAIN program.files /\ table = program.files[file].table /\ table \in DOMAIN program.tables
  BY <1>1, <1>3, TableFacts
<1>7. file \in Nat /\ file <= Len(program.files) /\ Len(program.files) \in Nat /\ program \in Programs
  BY <1>1, <1>6, ProgramShape DEF SortTypes
<1>8. AbsSorted + 1 = file /\ AbsSorted = file - 1 /\ AbsSorted' = AbsSorted
  BY <1>2, <1>3, <1>7 DEF AbsSorted
<1>9. /\ Len(AbsFiles) = Len(program.files)
      /\ \A n \in DOMAIN program.files :
              /\ AbsFiles[n].table = program.files[n].table /\ AbsFiles[n].type = program.files[n].type
              /\ AbsFiles[n].roots = ToSet(RootsOf(program.files[n]))
      /\ AbsGroups \in Seq(SUBSET Items) /\ Len(AbsGroups) = Len(groups) /\ DOMAIN AbsGroups = DOMAIN groups
      /\ \A k \in DOMAIN groups : AbsGroups[k] = ToSet(groups[k])
  BY <1>1, AbsShapes
<1>10. AbsSorted < Len(AbsFiles) /\ table = AbsFiles[AbsSorted + 1].table
  BY <1>6, <1>7, <1>8, <1>9
<1>11. S \subseteq Items /\ S # {}
  <2>1. \A x \in ToSet(g) : x \in Items
    BY <1>5, SeqFacts
  <2> QED BY <1>4, <1>5, <2>1
<1>12. AbsGrouped = sccs /\ \A T : (\A x \in T : Named(x)) => AbsNeeds(T) = UNION {Needed(x) : x \in T}
  BY <1>1, <1>3, AbsData
<1>13. S \cap AbsGrouped = {}
  BY <1>4, <1>5, <1>12
<1>14. \A x : (Named(x)' <=> Named(x)) /\ Needed(x)' = Needed(x)
  BY <1>2, SameTable
<1>15. c + 1 \in DOMAIN groups'
  BY <1>5
<1>16. \A x \in S : Named(x) /\ \A y \in Needed(x) : \E l \in 1 .. c + 1 : y \in ToSet(groups'[l])
  <2>1. \A x \in ToSet(groups'[c + 1]) : Named(x)' /\ \A y \in Needed(x)' : \E l \in 1 .. c + 1 : y \in ToSet(groups'[l])
    BY <1>5, <1>15 DEF Grouping
  <2> QED BY <1>4, <1>5, <1>14, <2>1
<1>17. \A T \in SUBSET S : T = {} \/ T = S \/ \E x \in T : Needed(x) \cap (S \ T) # {}
  <2>1. Strong(ToSet(groups[c + 1]))'
    BY <1>5, <1>15 DEF Grouping
  <2>2. \A T \in SUBSET ToSet(groups'[c + 1]) : T = {} \/ T = ToSet(groups'[c + 1])
          \/ \E x \in T : Needed(x)' \cap (ToSet(groups'[c + 1]) \ T) # {}
    BY <2>1 DEF Strong
  <2> QED BY <1>4, <1>5, <1>14, <2>2
<1>18. \A T \in (SUBSET S) \ {{}, S} : AbsNeeds(T) \cap (S \ T) # {}
  <2> SUFFICES ASSUME NEW T \in SUBSET S, T # {}, T # S PROVE AbsNeeds(T) \cap (S \ T) # {}
    OBVIOUS
  <2>1. AbsNeeds(T) = UNION {Needed(x) : x \in T}
    BY <1>12, <1>16
  <2>2. PICK x \in T : Needed(x) \cap (S \ T) # {}
    BY <1>17
  <2> QED BY <2>1, <2>2
<1>19. AbsNeeds(S) \subseteq S \cup AbsGrouped
  <2>1. AbsNeeds(S) = UNION {Needed(x) : x \in S}
    BY <1>12, <1>16
  <2> SUFFICES ASSUME NEW x \in S, NEW y \in Needed(x) PROVE y \in S \cup sccs
    BY <1>12, <2>1
  <2>2. PICK l \in 1 .. c + 1 : y \in ToSet(groups'[l])
    BY <1>16
  <2>3. CASE l = c + 1
    BY <1>4, <1>5, <2>2, <2>3
  <2>4. CASE l # c + 1
    <3>1. l \in 1 .. c
      BY <1>5, <2>4
    <3>2. y \in ToSet(groups[l]) /\ l \in DOMAIN groups
      BY <1>5, <2>2, <3>1
    <3> QED BY <1>1, <3>2 DEF Grouping
  <2> QED BY <2>3, <2>4
<1>20. AbsGroups' = Append(AbsGroups, S)
  <2>1. PICK s, X : s = AbsGroups /\ X = SUBSET Items
    OBVIOUS
  <2>2. s \in Seq(X) /\ S \in X /\ c = Len(s)
    BY <1>4, <1>9, <1>11, <2>1
  <2>3. /\ Append(s, S) \in Seq(X) /\ DOMAIN Append(s, S) = 1 .. c + 1
        /\ (\A k \in 1 .. c : Append(s, S)[k] = s[k]) /\ Append(s, S)[c + 1] = S
    BY <2>2, AppendFacts
  <2>4. \A k \in 1 .. c + 1 : Append(s, S)[k] = ToSet(groups'[k])
    <3> SUFFICES ASSUME NEW k \in 1 .. c + 1 PROVE Append(s, S)[k] = ToSet(groups'[k])
      OBVIOUS
    <3>1. CASE k = c + 1
      BY <1>4, <1>5, <2>3, <3>1
    <3>2. CASE k # c + 1
      <4>1. k \in 1 .. c
        BY <1>5, <3>2
      <4> QED BY <1>5, <1>9, <2>1, <2>3, <4>1
    <3> QED BY <3>1, <3>2
  <2>5. PICK a, b : a = AbsGroups' /\ b = Append(s, S)
    OBVIOUS
  <2>6. a = [k \in 1 .. c + 1 |-> ToSet(groups'[k])]
    BY <1>5, <2>5 DEF AbsGroups
  <2>7. b \in Seq(X) /\ Len(b) = c + 1 /\ \A k \in 1 .. c + 1 : b[k] = ToSet(groups'[k])
    BY <1>5, <2>3, <2>4, <2>5
  <2>8. a \in Seq(X) /\ Len(a) = c + 1 /\ \A k \in 1 .. c + 1 : a[k] = ToSet(groups'[k])
    <3>1. c + 1 \in Nat /\ \A k \in 1 .. c + 1 : b[k] \in X
      BY <1>5, <2>7
    <3>2. a \in [1 .. c + 1 -> X]
      BY <2>6, <2>7, <3>1
    <3> QED BY <2>6, <3>1, <3>2
  <2>9. a = b
    BY <2>7, <2>8, SeqEqual
  <2> QED BY <2>1, <2>5, <2>9
<1>21. UNCHANGED <<AbsGraph, AbsFiles, table, AbsSorted>>
  BY <1>2, <1>8, SameProgram
<1>22. Promised!Group(S)
  BY <1>10, <1>11, <1>13, <1>18, <1>19, <1>20, <1>21, AbsGroup
<1>23. S \in ToSet(AbsGroups')
  <2>1. c + 1 \in DOMAIN AbsGroups' /\ AbsGroups'[c + 1] = S
    BY <1>4, <1>5 DEF AbsGroups
  <2> QED BY <2>1, Zenon DEF ToSet
<1> QED BY <1>22, <1>23

\* A step that leaves the groups and the files as they are.
LEMMA AbsStutter ==
  ASSUME UNCHANGED <<program, table, file, sorting, groups>>
  PROVE  UNCHANGED Promised!vars
<1>1. UNCHANGED <<AbsGraph, AbsFiles>>
  BY SameProgram
<1>2. UNCHANGED <<AbsGroups, AbsSorted, table>>
  BY DEF AbsGroups, AbsSorted
<1> QED BY <1>1, <1>2, AbsVars

\* The next file.
LEMMA AbsSortFile ==
  ASSUME SortInv, SortFile
  PROVE  Promised!NewTable \/ UNCHANGED Promised!vars
<1>1. SortTypes
  BY DEF SortInv, SortFile
<1>2. /\ ~sorting /\ file < Len(program.files) /\ file' = file + 1 /\ sorting' = TRUE
      /\ table' = program.files[file + 1].table /\ program' = program
      /\ \/ table' = table /\ groups' = groups
         \/ table' # table /\ groups' = <<>>
  BY DEF SortFile
<1>3. file \in Nat /\ Len(program.files) \in Nat /\ DOMAIN program.files = 1 .. Len(program.files)
  <2>1. program \in Programs /\ file \in 0 .. Len(program.files)
    BY <1>1 DEF SortTypes
  <2>2. Len(program.files) \in Nat /\ DOMAIN program.files = 1 .. Len(program.files)
    BY <2>1, ProgramShape
  <2> QED BY <2>1, <2>2
<1>4. AbsSorted = file /\ AbsSorted' = file
  BY <1>2, <1>3 DEF AbsSorted
<1>5. UNCHANGED <<AbsGraph, AbsFiles, AbsSorted>>
  BY <1>2, <1>4, SameProgram
<1>6. CASE table' = table /\ groups' = groups
  <2>1. UNCHANGED <<AbsGraph, AbsFiles, AbsGroups, AbsSorted, table>>
    BY <1>5, <1>6 DEF AbsGroups
  <2> QED BY <2>1, AbsVars
<1>7. CASE table' # table /\ groups' = <<>>
  <2>1. /\ Len(AbsFiles) = Len(program.files)
        /\ \A n \in DOMAIN program.files : AbsFiles[n].table = program.files[n].table
    BY <1>1, AbsShapes
  <2>2. file + 1 \in DOMAIN program.files
    BY <1>2, <1>3
  <2>3. AbsSorted < Len(AbsFiles) /\ AbsFiles[AbsSorted + 1].table = table'
    BY <1>2, <1>4, <2>1, <2>2
  <2>4. \A f : [k \in DOMAIN <<>> |-> f[k]] = <<>>
    OBVIOUS
  <2>5. AbsGroups' = <<>>
    BY <1>7, <2>4 DEF AbsGroups
  <2> QED BY <1>5, <1>7, <2>3, <2>5, AbsNewTable
<1> QED BY <1>2, <1>6, <1>7

\* The groups come as ItemGroups promises: no item in two of them, each of them strongly
\* connected and after all it needs, each of them needed, and the group of the entry of a
\* document the last one (gsbc_topsortfile, gsbc_topsort_item, gsbc_topsort_outgoing_edge).
THEOREM SortKeepsItsPromise == Spec => GroupsInOrder
<1>1. Init => Promised!Init
  <2> SUFFICES ASSUME Init PROVE Promised!Init
    OBVIOUS
  <2>1. table = 1 /\ groups = <<>> /\ sorting = FALSE /\ file = 0
    BY DEF Init, OrderInit
  <2>2. \A f : [k \in DOMAIN <<>> |-> f[k]] = <<>>
    OBVIOUS
  <2>3. AbsGroups = <<>> /\ AbsSorted = 0
    BY <2>1, <2>2 DEF AbsGroups, AbsSorted
  <2> QED BY <2>1, <2>3, AbsInit
<1>2. SortInv /\ [Next]_vars => [Promised!Next]_Promised!vars
  <2> SUFFICES ASSUME SortInv, [Next]_vars PROVE Promised!Next \/ UNCHANGED Promised!vars
    OBVIOUS
  <2>1. CASE NextFile
    BY <2>1, AbsSortFile, AbsNext DEF NextFile
  <2>2. CASE SortRoot \/ OutgoingEdge
    <3>1. UNCHANGED <<program, table, file, sorting, groups>>
      BY <2>2 DEF SortRoot, OutgoingEdge
    <3> QED BY <3>1, AbsStutter
  <2>3. CASE SortDone
    BY <2>3, AbsSortDone, AbsNext
  <2>4. CASE FinishItem
    <3>1. CASE maybe # <<>> /\ Last(maybe) = Last(frames).item
      BY <2>4, <3>1, AbsFinishItem, AbsNext
    <3>2. CASE ~(maybe # <<>> /\ Last(maybe) = Last(frames).item)
      <4>1. UNCHANGED <<program, table, file, sorting, groups>>
        BY <2>4, <3>2 DEF FinishItem
      <4> QED BY <4>1, AbsStutter
    <3> QED BY <3>1, <3>2
  <2>5. CASE LoadGroup /\ UNCHANGED <<program, table, file, sorting, roots, frames, preorders, counter,
                                      unassigned, maybe, sccs, groups>>
    BY <2>5, AbsStutter
  <2>6. CASE UNCHANGED vars
    <3>1. UNCHANGED <<program, table, file, sorting, groups>>
      BY <2>6 DEF vars, order
    <3> QED BY <3>1, AbsStutter
  <2> QED BY <2>1, <2>2, <2>3, <2>4, <2>5, <2>6 DEF Next, Sort, Terminated
<1> QED BY <1>1, <1>2, SortInductive, PTL DEF Spec, GroupsInOrder, Promised!Spec
=============================================================================

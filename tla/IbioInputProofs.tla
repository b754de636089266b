---------------------------- MODULE IbioInputProofs ----------------------------
(***************************************************************************)
(* Proofs about IbioInput, for any number of iports, walkers, slots and    *)
(* programs, any size of a segment and any files: the invariant InputInv,  *)
(* from which InputTypeOK and ReadsAccounted follow; ContentInv, that the  *)
(* items of a channel are those of the file, in order; and that the input  *)
(* of a program is that of the abstract ports of InputPort.                *)
(***************************************************************************)
EXTENDS IbioInput, SequenceTheorems, FiniteSetTheorems, TLAPS

\* The places of the main process within a statement of the thread.
InStatement == {"eval", "prim", "success", "blocked", "refused", "opening", "registering"}

\* There is a statement to be run, and the thread is marked as running only within one.
ThreadInv ==
  /\ ThreadTypeOK
  /\ main \in InStatement \/ state \in {"active", "running"} => left # <<>>
  /\ state = "running" => main \in InStatement
  /\ main \in {"opening", "registering"} => Head(left).op = "open"
  /\ main # "exited" => exit = "none"

\* The main process has let the thread go and is on its way out.
Leaving == main \in {"stopping", "leaving"} \/ (main = "exited" /\ exit # "crash")

\* The read process has one client until it has been told.
RefcountRight ==
  refcount = IF main = "leaving" \/ (main = "exited" /\ exit # "crash") THEN 0 ELSE 1

\* The thread is let go only when it is linked to no iport.
LetGo == Leaving => links = {}

\* What comes with a statement that has not been run has not been used.
Unused(x) ==
  /\ x \in Iports => ~active[x] /\ reading[x] = NoAcceptor /\ nextsym[x] = NoPlace
  /\ x \in Walkers => walk[x] = NoWalk

FreshInv ==
  /\ \A i \in 1 .. Len(left) :
       (i = 1 /\ main = "success") \/ \A x \in Makes[left[i]] : Unused(x)
  /\ \A i, j \in 1 .. Len(left) : i # j => Makes[left[i]] \cap Makes[left[j]] = {}

\* Where the next symbol of a segment will be there is a place, and none behind it.
Valid(p, place) == place.at <= Len(channel[p][place.seg]) + 1

\* The channel of an iport, and the places in it.
ChannelOK(p) ==
  /\ \A n \in 1 .. LastSegment(p) : Len(channel[p][n]) <= SegmentRoom
  /\ position[p] \in PlacesOf(p) /\ Valid(p, position[p])
  /\ nextsym[p] \in [seg : 1 .. LastSegment(p), at : 1 .. SegmentRoom + 1] \cup {NoPlace}
  /\ nextsym[p] # NoPlace => Valid(p, nextsym[p])
  /\ accessed[p] <= LastSegment(p)
  /\ stuck[p] <= LastSegment(p)

\* What is in the buffer has been read from the file, up to an end of it.
BufferOK(p) ==
  /\ offset[p] <= Len(data[p])
  /\ buffered[p] <= offset[p]
  /\ \A i \in offset[p] - buffered[p] + 1 .. offset[p] : data[p][i] # Eof

\* An active iport is looked after, only an active one reads, and where nothing is read
\* nothing is half-read.
ReadOK(p) ==
  /\ active[p] => p \in registered
  /\ active[p] /\ reading[p] = NoAcceptor => nextsym[p] = NoPlace
  /\ reading[p] # NoAcceptor =>
       /\ active[p]
       /\ nextsym[p] # NoPlace =>
            /\ \/ position[p].seg < nextsym[p].seg
               \/ position[p].seg = nextsym[p].seg /\ position[p].at <= nextsym[p].at
            /\ AtLimit(nextsym[p]) => nextsym[p].seg = LastSegment(p)

PortOK(p) == ChannelOK(p) /\ BufferOK(p) /\ ReadOK(p)

\* A walker is at a place there is, and goes to the next segment from the last item of one.
WalkOK(w) ==
  LET p == walk[w].port  place == walk[w].at IN
    /\ p \in Iports
    /\ walk[w].from \in PlacesOf(p) /\ place \in PlacesOf(p)
    /\ Valid(p, walk[w].from) /\ Valid(p, place)
    /\ walk[w].needs # "read"
    /\ walk[w].needs = "segment" =>
         place \in Places(p) /\ (place.at = SegmentRoom \/ place.at = Len(channel[p][place.seg]) + 1)

\* The types of the variables, without the bounds.
PortShapes ==
  /\ active \in [Iports -> BOOLEAN]
  /\ reading \in [Iports -> Acceptors \cup {NoAcceptor}]
  /\ channel \in [Iports -> Seq(Seq(Symbols)) \ {<<>>}]
  /\ position \in [Iports -> Place] /\ nextsym \in [Iports -> Place]
  /\ accessed \in [Iports -> Nat] /\ stuck \in [Iports -> Nat]
  /\ offset \in [Iports -> Nat] /\ buffered \in [Iports -> Nat]
  /\ error \in [Iports -> BOOLEAN]
  /\ links \subseteq Iports

OtherShapes ==
  /\ data \in Files
  /\ registered \subseteq Iports /\ Cardinality(registered) <= Slots
  /\ reader \in {"loop", "closing", "gone"}
  /\ told \in BOOLEAN
  /\ refcount \in {0, 1}
  /\ waiting \in [Iports -> BOOLEAN]
  /\ blocker \in {"none", "fresh", "queued"}
  /\ walk \in [Walkers -> Walk]
  /\ ace \in {"serving", "spinning", "gone"}
  /\ exhausted \in BOOLEAN

LinksExact == links = {p \in Iports : reading[p] # NoAcceptor}

InputInv ==
  /\ PortShapes /\ OtherShapes
  /\ ThreadInv
  /\ RefcountRight
  /\ LetGo
  /\ LinksExact
  /\ FreshInv
  /\ \A p \in Iports : PortOK(p)
  /\ \A w \in Walkers : walk[w] = NoWalk \/ WalkOK(w)

-----------------------------------------------------------------------------
(* The steps of the thread *)

\* The thread starts with one statement.
LEMMA ThreadInitially == ThreadInit => ThreadInv
<1> SUFFICES ASSUME ThreadInit PROVE ThreadInv
  OBVIOUS
<1>1. PICK program \in Programs : left = <<program>>
  BY DEF ThreadInit
<1>2. left \in Seq(Statements) /\ left # <<>>
  BY <1>1, StatementsClosed
<1> QED BY <1>2 DEF ThreadInit, ThreadInv, ThreadTypeOK, Terminating, InStatement

\* Unpacking a block puts its body in front of the rest, or leaves what fits of that.
LEMMA UnpackLeaves ==
  ASSUME ThreadInv, UnpackBlock
  PROVE  /\ Head(left) \in Statements /\ Head(left).op = "block"
         /\ Head(left).body \in Seq(Statements) /\ Tail(left) \in Seq(Statements)
         /\ left' \in Seq(Statements) \ {<<>>}
         /\ \E k \in Nat :
              /\ Len(left') = Len(Head(left).body \o Tail(left)) - k
              /\ \A i \in 1 .. Len(left') : left'[i] = (Head(left).body \o Tail(left))[i + k]
<1> DEFINE body == Head(left).body
           all == body \o Tail(left)
           last == SubSeq(all, Len(all) - SegmentSize + 1, Len(all))
<1>1. left # <<>> /\ left \in Seq(Statements) /\ Head(left).op = "block"
  BY DEF ThreadInv, ThreadTypeOK, UnpackBlock, InStatement
<1>2. Head(left) \in Statements /\ Tail(left) \in Seq(Statements)
  BY <1>1, HeadTailProperties
<1>3. body \in Seq(Statements) /\ body # <<>>
  BY <1>1, <1>2, StatementsClosed
<1>4. all \in Seq(Statements) /\ Len(all) \in Nat /\ all # <<>>
  BY <1>2, <1>3, ConcatProperties, LenProperties, EmptySeq
<1>5. left' \in Seq(Statements) \ {<<>>}
         /\ \E k \in Nat :
              /\ Len(left') = Len(all) - k
              /\ \A i \in 1 .. Len(left') : left'[i] = all[i + k]
  <2>1. CASE Len(all) <= SegmentSize
    <3>1. left' = all
      BY <2>1 DEF UnpackBlock
    <3> HIDE DEF all
    <3>2. Len(left') = Len(all) - 0 /\ \A i \in 1 .. Len(left') : left'[i] = all[i + 0]
      BY <1>4, <3>1
    <3> QED BY <1>4, <3>1, <3>2
  <2>2. CASE ~(Len(all) <= SegmentSize)
    <3>1. SegmentSize \in Nat \ {0}
      BY RoomForEntry
    <3> DEFINE m == Len(all) - SegmentSize + 1
    <3>2. \A i \in m .. Len(all) : all[i] \in Statements
      BY <1>4, <2>2, <3>1, ElementOfSeq
    <3>3. m \in Int /\ Len(all) \in Int /\ m <= Len(all) /\ Len(all) - m + 1 = SegmentSize
      BY <1>4, <2>2, <3>1
    <3>4. left' = SubSeq(all, m, Len(all))
      BY <2>2 DEF UnpackBlock
    <3>6. m - 1 \in Nat
      BY <1>4, <2>2, <3>1
    <3> HIDE DEF all
    <3>5. /\ left' \in Seq(Statements) /\ Len(left') = SegmentSize
          /\ \A i \in 1 .. SegmentSize : left'[i] = all[m + i - 1]
      <4> HIDE DEF m
      <4>1. /\ SubSeq(all, m, Len(all)) \in Seq(Statements) /\ Len(SubSeq(all, m, Len(all))) = SegmentSize
            /\ \A i \in 1 .. Len(all) - m + 1 : SubSeq(all, m, Len(all))[i] = all[m + i - 1]
        BY <3>2, <3>3, SubSeqProperties
      <4> QED BY <3>3, <3>4, <4>1
    <3>7. left' # <<>>
      BY <3>1, <3>5, EmptySeq
    <3>8. Len(left') = Len(all) - (m - 1)
      BY <1>4, <3>3, <3>5
    <3>9. \A i \in 1 .. Len(left') : left'[i] = all[i + (m - 1)]
      <4> TAKE i \in 1 .. Len(left')
      <4>1. m + i - 1 = i + (m - 1)
        BY <3>3, <3>5
      <4> QED BY <3>5, <4>1
    <3> QED BY <3>5, <3>6, <3>7, <3>8, <3>9
  <2> QED BY <2>1, <2>2
<1> QED BY <1>1, <1>2, <1>3, <1>5

\* The main process goes on with the thread.
Advances ==
  \/ TakeTurn \/ Unevaluated \/ EvaluatesToError \/ UnpackBlock \/ EvaluatesToPrim
  \/ main = "eval" /\ EndTurn("abend") /\ UNCHANGED left
  \/ \E st \in {"success", "blocked", "refused"} : PrimReturns(st)
  \/ PrimSucceeded \/ PrimBlocked \/ PrimRefused
  \/ main = "prim" /\ Head(left).op = "open" /\ main' = "opening" /\ UNCHANGED <<state, left, ended, exit>>
  \/ main = "opening" /\ main' \in {"blocked", "registering"} /\ UNCHANGED <<state, left, ended, exit>>
  \/ main = "opening" /\ EndTurn("abend") /\ UNCHANGED left
  \/ main = "registering" /\ main' = "success" /\ UNCHANGED <<state, left, ended, exit>>
  \/ \E short : LookAtMemory(short)
  \/ \E busy : StillBusy(busy) \/ ThreadEnds(busy)
  \/ CallbacksDone \/ MainExits

\* Whatever the main process does with the thread keeps it in order.
LEMMA ThreadAdvances ==
  ASSUME ThreadInv, Advances \/ ApiThreadPost \/ UNCHANGED thread
  PROVE  ThreadInv'
<1> USE DEF ThreadInv, ThreadTypeOK, Terminating, InStatement
<1>1. CASE TakeTurn
  BY <1>1 DEF TakeTurn
<1>2. CASE Unevaluated \/ EvaluatesToError \/ (main = "eval" /\ EndTurn("abend") /\ UNCHANGED left)
  BY <1>2 DEF Unevaluated, EvaluatesToError, EndTurn
<1>3. CASE UnpackBlock
  BY <1>3, UnpackLeaves DEF UnpackBlock, EndTurn
<1>4. CASE EvaluatesToPrim
  BY <1>4 DEF EvaluatesToPrim
<1>5. CASE \E st \in {"success", "blocked", "refused"} : PrimReturns(st)
  BY <1>5 DEF PrimReturns
<1>6. CASE PrimSucceeded
  <2>1. Tail(left) \in Seq(Statements)
    BY <1>6, HeadTailProperties DEF PrimSucceeded
  <2> QED BY <1>6, <2>1 DEF PrimSucceeded, EndTurn
<1>7. CASE PrimBlocked \/ PrimRefused
  BY <1>7 DEF PrimBlocked, PrimRefused, EndTurn
<1>8. CASE \E short : LookAtMemory(short)
  BY <1>8 DEF LookAtMemory
<1>9. CASE \E busy : StillBusy(busy) \/ ThreadEnds(busy)
  BY <1>9 DEF StillBusy, ThreadEnds, EndTurn
<1>10. CASE CallbacksDone \/ MainExits
  BY <1>10 DEF CallbacksDone, MainExits
<1>11. CASE ApiThreadPost
  BY <1>11 DEF ApiThreadPost
<1>12. CASE UNCHANGED thread
  BY <1>12 DEF thread
<1>13. CASE \/ main = "prim" /\ Head(left).op = "open" /\ main' = "opening" /\ UNCHANGED <<state, left, ended, exit>>
            \/ main = "opening" /\ main' \in {"blocked", "registering"} /\ UNCHANGED <<state, left, ended, exit>>
            \/ main = "registering" /\ main' = "success" /\ UNCHANGED <<state, left, ended, exit>>
  BY <1>13
<1>14. CASE main = "opening" /\ EndTurn("abend") /\ UNCHANGED left
  BY <1>14 DEF EndTurn
<1> QED BY <1>1, <1>2, <1>3, <1>4, <1>5, <1>6, <1>7, <1>8, <1>9, <1>10, <1>11, <1>12, <1>13, <1>14
        DEF Advances

\* Every step of the main process is of this kind.
LEMMA MainAdvances ==
  ASSUME MainStep
  PROVE  Advances
<1>1. CASE ExecOther
  <2>1. CASE LookAtMemory(exhausted) \/ StillBusy(links # {}) \/ ThreadEnds(links # {})
    BY <2>1, Zenon DEF Advances
  <2>2. CASE PrimReturns("success")
    BY <2>2 DEF Advances
  <2>3. CASE Evaluated
    BY <2>3 DEF Evaluated, Advances
  <2> QED BY <1>1, <2>1, <2>2, <2>3 DEF ExecOther, Advances
<1>2. CASE ExecRead
  <2>1. \E st \in {"success", "blocked", "refused"} : PrimReturns(st)
    BY <1>2 DEF ExecRead, ReadRefused, ReadTakes, ReadBlocks
  <2> QED BY <2>1 DEF Advances
<1>3. CASE Open
  BY <1>3 DEF Open, OpenTakesThread, NameBlocks, NameFails, NameReady, OpenRegisters, Goes, Advances
<1>4. CASE StatementDone \/ ReadThreadsDown
  BY <1>4 DEF StatementDone, ReadThreadsDown, Advances
<1> QED BY <1>1, <1>2, <1>3, <1>4 DEF MainStep

\* What the other steps do to the thread.
LEMMA OthersPost ==
  ASSUME InputNext \/ UNCHANGED vars, ~MainStep
  PROVE  \/ ApiThreadPost \/ UNCHANGED thread
         \/ CollectionCrashes \/ CollectionFails
<1>1. ASSUME NEW p \in Iports, ReaderTurn(p) PROVE ApiThreadPost \/ UNCHANGED thread
  BY <1>1 DEF ReaderTurn, MakesSegment, AcceptorTurn, AcceptorBinds, BindKnown, BindKnownEof, BindDecodes,
     BindFails, BindRefills, BindEof, AcceptorAccepts, AcceptorFails, AcceptorIsError, AcceptorIsUnknown,
     Unregister, Feeds,
     Shutdown, ShutdownWithError
<1>2. ASSUME NEW p \in Iports, ReaderCloses(p) PROVE ApiThreadPost \/ UNCHANGED thread
  BY <1>2 DEF ReaderCloses
<1> QED BY <1>1, <1>2
        DEF InputNext, ReaderStep, ReaderGivesUp, ReaderGoesOn, ReaderLeaves, WalkerStep, AceLeaves,
            Collection, CollectionSucceeds, MemoryFills, Over, vars

\* So every step keeps the thread in order.
LEMMA ThreadStep ==
  ASSUME ThreadInv, [InputNext]_vars
  PROVE  ThreadInv'
<1>1. CASE MainStep
  BY <1>1, MainAdvances, ThreadAdvances
<1>2. CASE CollectionCrashes \/ CollectionFails
  BY <1>2 DEF CollectionCrashes, CollectionFails, EverybodyWaits, ThreadInv, ThreadTypeOK, Terminating,
              InStatement
<1> QED BY <1>1, <1>2, OthersPost, ThreadAdvances

\* No acceptor is one that has ended.
LEMMA AcceptorReal == NoAcceptor \notin Acceptors
BY DEF NoAcceptor, Acceptors, AcceptorEnds

\* What the channel of an iport consists of.
LEMMA ChannelTyped ==
  ASSUME PortShapes, NEW p \in Iports, ChannelOK(p)
  PROVE  /\ LastSegment(p) \in Nat \ {0} /\ channel[p] \in Seq(Seq(Symbols)) /\ SegmentRoom \in Nat \ {0}
         /\ \A n \in 1 .. LastSegment(p) :
              channel[p][n] \in Seq(Symbols) /\ Len(channel[p][n]) \in 0 .. SegmentRoom
<1>1. channel[p] \in Seq(Seq(Symbols)) /\ channel[p] # <<>>
  BY DEF PortShapes
<1>2. LastSegment(p) \in Nat \ {0}
  BY <1>1, LenProperties, EmptySeq DEF LastSegment
<1>3. ASSUME NEW n \in 1 .. LastSegment(p)
      PROVE  channel[p][n] \in Seq(Symbols) /\ Len(channel[p][n]) \in Nat
  BY <1>1, ElementOfSeq, LenProperties DEF LastSegment
<1> QED BY <1>1, <1>2, <1>3, RoomForInput DEF ChannelOK

\* The place a read has got to is one where a symbol may be.
LEMMA CurrentOK ==
  ASSUME PortShapes, NEW p \in Iports, PortOK(p), ~SegmentFull(p)
  PROVE  LET cur == Current(p) IN
           /\ cur \in PlacesOf(p) /\ Valid(p, cur)
           /\ reading[p] # NoAcceptor =>
                \/ position[p].seg < cur.seg
                \/ position[p].seg = cur.seg /\ position[p].at <= cur.at
<1>1. CASE nextsym[p] = NoPlace
  BY <1>1 DEF Current, PortOK, ChannelOK, PlacesOf
<1>2. CASE nextsym[p] # NoPlace
  <2>1. nextsym[p] \in [seg : 1 .. LastSegment(p), at : 1 .. SegmentRoom + 1] /\ Valid(p, nextsym[p])
    BY <1>2 DEF PortOK, ChannelOK
  <2>2. ~(nextsym[p].at > SegmentRoom) /\ SegmentRoom \in Nat
    BY RoomForInput DEF SegmentFull, AtLimit
  <2>3. nextsym[p] \in PlacesOf(p)
    BY <2>1, <2>2 DEF PlacesOf
  <2> QED BY <1>2, <2>1, <2>3 DEF Current, PortOK, ReadOK
<1> QED BY <1>1, <1>2

-----------------------------------------------------------------------------
(* How a channel grows *)

\* A symbol is put at the end of the last segment, ...
Appends(p, symbol) ==
  /\ symbol \in Symbols
  /\ Len(channel[p][LastSegment(p)]) < SegmentRoom
  /\ channel' = [channel EXCEPT ![p][LastSegment(p)] = Append(@, symbol)]

\* ... or an empty segment behind it.
Extends(p) == channel' = [channel EXCEPT ![p] = Append(@, <<>>)]

Grows(p) == UNCHANGED channel \/ Extends(p) \/ \E symbol \in Symbols : Appends(p, symbol)

\* Nothing that is there changes.
LEMMA Growth ==
  ASSUME PortShapes, NEW p \in Iports, ChannelOK(p), Grows(p)
  PROVE  /\ channel' \in [Iports -> Seq(Seq(Symbols)) \ {<<>>}]
         /\ \A q \in Iports \ {p} : channel'[q] = channel[q]
         /\ LastSegment(p)' \in {LastSegment(p), LastSegment(p) + 1}
         /\ \A n \in 1 .. LastSegment(p)' : Len(channel'[p][n]) <= SegmentRoom
         /\ \A n \in 1 .. LastSegment(p) :
              /\ Len(channel'[p][n]) \in {Len(channel[p][n]), Len(channel[p][n]) + 1}
              /\ n < LastSegment(p) => Len(channel'[p][n]) = Len(channel[p][n])
<1> DEFINE c == channel[p]
           last == LastSegment(p)
<1>1. /\ c \in Seq(Seq(Symbols)) /\ c # <<>> /\ last = Len(c) /\ last \in Nat \ {0} /\ SegmentRoom \in Nat \ {0}
      /\ \A n \in 1 .. last : c[n] \in Seq(Symbols) /\ Len(c[n]) \in 0 .. SegmentRoom
      /\ channel \in [Iports -> Seq(Seq(Symbols)) \ {<<>>}]
  <2>1. channel \in [Iports -> Seq(Seq(Symbols)) \ {<<>>}]
    BY DEF PortShapes
  <2> QED BY <2>1, ChannelTyped DEF LastSegment
<1>2. CASE UNCHANGED channel
  BY <1>1, <1>2 DEF LastSegment
<1>3. CASE Extends(p)
  <2> DEFINE d == Append(c, <<>>)
  <2>1. <<>> \in Seq(Symbols) /\ Len(<<>>) = 0
    BY EmptySeq
  <2>2. d \in Seq(Seq(Symbols)) /\ Len(d) = last + 1 /\ d # <<>>
    BY <1>1, <2>1, AppendProperties
  <2>3. d[last + 1] = <<>> /\ \A n \in 1 .. last : d[n] = c[n]
    BY <1>1, AppendProperties
  <2>4. channel' = [channel EXCEPT ![p] = d]
    BY <1>3 DEF Extends
  <2> HIDE DEF d
  <2>5. channel'[p] = d /\ LastSegment(p)' = last + 1
    BY <1>1, <2>2, <2>4 DEF LastSegment
  <2>6. \A n \in 1 .. last + 1 : Len(d[n]) <= SegmentRoom
    BY <1>1, <2>1, <2>3
  <2>7. channel' \in [Iports -> Seq(Seq(Symbols)) \ {<<>>}] /\ \A q \in Iports \ {p} : channel'[q] = channel[q]
    BY <1>1, <2>2, <2>4
  <2> HIDE DEF last
  <2> QED BY <1>1, <2>3, <2>5, <2>6, <2>7 DEF last
<1>4. CASE \E symbol \in Symbols : Appends(p, symbol)
  <2>1. PICK symbol \in Symbols : Appends(p, symbol)
    BY <1>4
  <2> DEFINE e == Append(c[last], symbol)
             d == [c EXCEPT ![last] = e]
  <2>2. e \in Seq(Symbols) /\ Len(e) = Len(c[last]) + 1 /\ Len(e) <= SegmentRoom
    BY <1>1, <2>1, AppendProperties DEF Appends
  <2> HIDE DEF e
  <2>3. d \in Seq(Seq(Symbols)) /\ Len(d) = last /\ d # <<>>
    BY <1>1, <2>2, ExceptSeq, EmptySeq
  <2>4. d[last] = e /\ \A n \in 1 .. last : n # last => d[n] = c[n]
    BY <1>1, <2>2, ExceptSeq
  <2>5. channel' = [channel EXCEPT ![p] = d]
    BY <1>1, <2>1 DEF Appends, e
  <2> HIDE DEF d
  <2>6. channel'[p] = d /\ LastSegment(p)' = last
    BY <1>1, <2>3, <2>5 DEF LastSegment
  <2>7. channel' \in [Iports -> Seq(Seq(Symbols)) \ {<<>>}] /\ \A q \in Iports \ {p} : channel'[q] = channel[q]
    BY <1>1, <2>3, <2>5
  <2>8. \A n \in 1 .. last : Len(d[n]) \in {Len(c[n]), Len(c[n]) + 1} /\ (n < last => Len(d[n]) = Len(c[n]))
    BY <1>1, <2>2, <2>4
  <2>9. \A n \in 1 .. last : Len(d[n]) <= SegmentRoom
    BY <1>1, <2>2, <2>4
  <2> HIDE DEF last
  <2> QED BY <2>6, <2>7, <2>8, <2>9 DEF last
<1> QED BY <1>2, <1>3, <1>4 DEF Grows

\* Whatever is a place in the channel stays one.
LEMMA PlacesStayHere ==
  ASSUME PortShapes, NEW p \in Iports, Grows(p), ChannelOK(p)
  PROVE  /\ LastSegment(p) <= LastSegment(p)' /\ LastSegment(p)' \in Nat
         /\ \A place \in PlacesOf(p) :
              /\ place \in PlacesOf(p)'
              /\ Valid(p, place) => Valid(p, place)'
         /\ \A place \in Places(p) : place \in Places(p)'
<1>1. /\ LastSegment(p) \in Nat /\ SegmentRoom \in Nat
      /\ \A n \in 1 .. LastSegment(p) : Len(channel[p][n]) \in 0 .. SegmentRoom
  BY ChannelTyped
<1>2. LastSegment(p)' \in {LastSegment(p), LastSegment(p) + 1}
  BY Growth
<1>3. \A n \in 1 .. LastSegment(p) :
            /\ Len(channel'[p][n]) \in {Len(channel[p][n]), Len(channel[p][n]) + 1}
            /\ n < LastSegment(p) => Len(channel'[p][n]) = Len(channel[p][n])
  BY Growth
<1>4. LastSegment(p) <= LastSegment(p)' /\ LastSegment(p)' \in Nat
  BY <1>1, <1>2
<1>5. ASSUME NEW place \in PlacesOf(p)
      PROVE  place \in PlacesOf(p)' /\ (Valid(p, place) => Valid(p, place)')
  <2>1. place.seg \in 1 .. LastSegment(p) /\ place.at \in 1 .. SegmentRoom
    BY DEF PlacesOf
  <2>2. place \in PlacesOf(p)'
    BY <1>1, <1>4 DEF PlacesOf
  <2> DEFINE n == place.seg
             k == Len(channel[p][n])
             l == Len(channel'[p][n])
  <2>3. k \in Nat /\ l \in {k, k + 1}
    BY <1>1, <1>3, <2>1
  <2>4. Valid(p, place) <=> place.at <= k + 1
    BY DEF Valid
  <2>5. Valid(p, place)' <=> place.at <= l + 1
    BY DEF Valid
  <2> HIDE DEF k, l, n
  <2> QED BY <2>1, <2>2, <2>3, <2>4, <2>5
<1>6. ASSUME NEW place \in Places(p) PROVE place \in Places(p)'
  <2>1. place \in PlacesOf(p) /\ place.seg \in 1 .. LastSegment(p) /\ place.at \in 1 .. SegmentRoom
    BY DEF PlacesOf, Places
  <2>2. place \in PlacesOf(p)'
    BY <1>5, <2>1
  <2> DEFINE n == place.seg
             k == Len(channel[p][n])
             l == Len(channel'[p][n])
  <2>3. k \in Nat /\ l \in {k, k + 1} /\ (n < LastSegment(p) => l = k) /\ n \in Nat
    BY <1>1, <1>3, <2>1
  <2>4. place.at <= k + (IF k < SegmentRoom /\ n < LastSegment(p) THEN 1 ELSE 0)
    BY DEF Places, HasItem
  <2> HIDE DEF k, l, n
  <2>5. place.at <= l + (IF l < SegmentRoom /\ n < LastSegment(p)' THEN 1 ELSE 0)
    BY <1>1, <1>4, <2>1, <2>3, <2>4
  <2>6. HasItem(p, place)'
    BY <2>5 DEF HasItem, l, n
  <2> QED BY <2>2, <2>6 DEF Places
<1> QED BY <1>4, <1>5, <1>6

\* The places of a channel that is as it was.
LEMMA PlacesSame ==
  ASSUME NEW q \in Iports, channel'[q] = channel[q]
  PROVE  /\ LastSegment(q)' = LastSegment(q)
         /\ PlacesOf(q)' = PlacesOf(q)
         /\ \A place : Valid(q, place)' <=> Valid(q, place)
         /\ \A place : HasItem(q, place)' <=> HasItem(q, place)
         /\ Places(q)' = Places(q)
<1>1. LastSegment(q)' = LastSegment(q)
  BY DEF LastSegment
<1>2. PlacesOf(q)' = PlacesOf(q)
  BY <1>1 DEF PlacesOf
<1>3. \A place : Valid(q, place)' <=> Valid(q, place)
  BY DEF Valid
<1>4. \A place : HasItem(q, place)' <=> HasItem(q, place)
  BY <1>1 DEF HasItem
<1>5. Places(q)' = Places(q)
  BY <1>2, <1>4 DEF Places
<1> QED BY <1>1, <1>2, <1>3, <1>4, <1>5

\* Places that were there stay, in every channel.
LEMMA PlacesStay ==
  ASSUME PortShapes, NEW p \in Iports, Grows(p), ChannelOK(p), NEW q \in Iports, ChannelOK(q)
  PROVE  /\ LastSegment(q) <= LastSegment(q)' /\ LastSegment(q)' \in Nat
         /\ \A place \in PlacesOf(q) :
              /\ place \in PlacesOf(q)'
              /\ Valid(q, place) => Valid(q, place)'
         /\ \A place \in Places(q) : place \in Places(q)'
<1>1. CASE q = p
  BY <1>1, PlacesStayHere
<1>2. CASE q # p
  <2>1. channel'[q] = channel[q]
    BY <1>2, Growth
  <2>2. LastSegment(q) \in Nat
    BY ChannelTyped
  <2> QED BY <2>1, <2>2, PlacesSame
<1> QED BY <1>1, <1>2

-----------------------------------------------------------------------------
(* The kinds of turns of the read process *)

\* The read is over with the iport, ...
Ends(p) ==
  /\ ~SegmentFull(p) \/ UNCHANGED <<nextsym, stuck>>
  /\ active' = [active EXCEPT ![p] = FALSE]
  /\ reading' = [reading EXCEPT ![p] = NoAcceptor]
  /\ links' = links \ {p}
  /\ error' \in {error, [error EXCEPT ![p] = TRUE]}
  /\ nextsym' \in {nextsym, [nextsym EXCEPT ![p] = Current(p)]}
  /\ stuck' \in {stuck, [stuck EXCEPT ![p] = Current(p).seg]}
  /\ UNCHANGED <<position, channel, accessed, files>>

\* ... or goes on with an item, ...
FedBy(p, place, item) ==
  /\ ~SegmentFull(p)
  /\ reading[p] # NoAcceptor /\ reading[p].steps # <<>>
  /\ reading' = [reading EXCEPT ![p].steps = Tail(@), ![p].heard = Append(@, item)]
  /\ nextsym' = [nextsym EXCEPT ![p] = place]
  /\ UNCHANGED <<active, position, accessed, error, stuck, links, data>>

Knows(p) ==
  LET cur == Current(p)  seg == channel[p][cur.seg] IN
    /\ FedBy(p, [cur EXCEPT !.at = @ + 1], seg[cur.at])
    /\ cur.at <= Len(seg) /\ cur.seg = LastSegment(p) /\ Len(seg) < SegmentRoom
    /\ UNCHANGED <<channel, offset, buffered>>

KnowsEof(p) ==
  LET cur == Current(p) IN
    /\ FedBy(p, [seg |-> cur.seg + 1, at |-> 1], Eof)
    /\ cur.at > Len(channel[p][cur.seg]) /\ cur.seg < LastSegment(p)
    /\ UNCHANGED <<channel, offset, buffered>>

Decodes(p) ==
  LET cur == Current(p)  symbol == data[p][offset[p] - buffered[p] + 1] IN
    /\ FedBy(p, [cur EXCEPT !.at = @ + 1], symbol)
    /\ Waits(p, cur) /\ buffered[p] > 0 /\ symbol \in Symbols
    /\ Appends(p, symbol)
    /\ buffered' = [buffered EXCEPT ![p] = @ - 1]
    /\ UNCHANGED offset

FindsEof(p) ==
  LET cur == Current(p) IN
    /\ FedBy(p, [seg |-> cur.seg + 1, at |-> 1], Eof)
    /\ Waits(p, cur) /\ buffered[p] = 0
    /\ offset[p] < Len(data[p]) => data[p][offset[p] + 1] = Eof
    /\ offset' = [offset EXCEPT ![p] = IF @ < Len(data[p]) THEN @ + 1 ELSE @]
    /\ Extends(p)
    /\ UNCHANGED buffered

\* ... or accepts what it has taken, or fails, ...
Accepts(p) ==
  /\ ~SegmentFull(p)
  /\ reading[p] # NoAcceptor
  /\ AcceptorAccepts(p, Current(p))

GivesUp(p) ==
  /\ reading[p] # NoAcceptor
  /\ reading' = [reading EXCEPT ![p] = NoAcceptor]
  /\ nextsym' = [nextsym EXCEPT ![p] = NoPlace]
  /\ links' = links \ {p}
  /\ UNCHANGED <<active, position, channel, accessed, error, stuck, files>>

\* ... or only the file goes on, or the channel, or nothing does.
Refills(p) ==
  /\ ~SegmentFull(p)
  /\ reading[p] # NoAcceptor
  /\ buffered[p] = 0
  /\ \E n \in offset[p] + 1 .. Len(data[p]) :
       /\ \A i \in offset[p] + 1 .. n : data[p][i] # Eof
       /\ offset' = [offset EXCEPT ![p] = n]
       /\ buffered' = [buffered EXCEPT ![p] = n - offset[p]]
  /\ nextsym' = [nextsym EXCEPT ![p] = Current(p)]
  /\ UNCHANGED <<active, reading, position, channel, accessed, error, stuck, data, links>>

GoesToNext(p) ==
  /\ SegmentFull(p)
  /\ active[p] \/ reading[p] # NoAcceptor
  /\ Extends(p)
  /\ nextsym' = [nextsym EXCEPT ![p] = [seg |-> LastSegment(p) + 1, at |-> 1]]
  /\ UNCHANGED <<active, reading, position, accessed, error, stuck, files, links>>

\* The file of an iport, and the place its buffer has got to.
LEMMA FileTyped ==
  ASSUME PortShapes, OtherShapes, NEW p \in Iports, BufferOK(p)
  PROVE  /\ data[p] \in Seq(Symbols \cup {Eof, BadSymbol}) /\ Len(data[p]) \in Nat
         /\ offset[p] \in Nat /\ buffered[p] \in Nat /\ buffered[p] <= offset[p] /\ offset[p] <= Len(data[p])
         /\ buffered[p] > 0 =>
              LET symbol == data[p][offset[p] - buffered[p] + 1] IN
                symbol \in Symbols \cup {BadSymbol} /\ symbol # Eof
<1>1. data \in [Iports -> Seq(Symbols \cup {Eof, BadSymbol})]
  BY FilesTyped DEF OtherShapes
<1>2. data[p] \in Seq(Symbols \cup {Eof, BadSymbol}) /\ Len(data[p]) \in Nat
  BY <1>1, LenProperties
<1>3. offset[p] \in Nat /\ buffered[p] \in Nat
  BY DEF PortShapes
<1>4. ASSUME buffered[p] > 0
      PROVE  LET symbol == data[p][offset[p] - buffered[p] + 1] IN
               symbol \in Symbols \cup {BadSymbol} /\ symbol # Eof
  <2> DEFINE i == offset[p] - buffered[p] + 1
  <2>1. i \in 1 .. Len(data[p]) /\ i \in i .. offset[p]
    BY <1>2, <1>3, <1>4 DEF BufferOK
  <2>2. data[p][i] # Eof
    BY <2>1 DEF BufferOK
  <2> HIDE DEF i
  <2>3. data[p][i] \in Symbols \cup {Eof, BadSymbol}
    BY <1>2, <2>1, ElementOfSeq
  <2> QED BY <2>2, <2>3 DEF i
<1> QED BY <1>2, <1>3, <1>4 DEF BufferOK

\* There are no other turns.
TurnKinds(p) ==
  \/ Ends(p) \/ GivesUp(p)
  \/ Knows(p) \/ KnowsEof(p) \/ Decodes(p) \/ FindsEof(p)
  \/ Accepts(p) \/ Refills(p) \/ GoesToNext(p)
  \/ UNCHANGED <<port, files, links>>

\* An acceptor that binds a symbol feeds an item, refills the buffer or ends.
LEMMA BindIsOfKind ==
  ASSUME PortShapes, OtherShapes, NEW p \in Iports, PortOK(p),
         ~SegmentFull(p), reading[p] # NoAcceptor, AcceptorBinds(p, Current(p))
  PROVE  TurnKinds(p)
<1> DEFINE cur == Current(p)
<1>0. /\ LastSegment(p) \in Nat /\ SegmentRoom \in Nat /\ cur.seg \in 1 .. LastSegment(p) /\ cur.at \in 1 .. SegmentRoom
      /\ Len(channel[p][cur.seg]) \in 0 .. SegmentRoom
  <2>1. cur \in PlacesOf(p)
    BY CurrentOK
  <2>2. cur.seg \in 1 .. LastSegment(p) /\ cur.at \in 1 .. SegmentRoom
    BY <2>1 DEF PlacesOf
  <2> QED BY <2>2, ChannelTyped DEF PortOK
<1>1. reading[p].steps # <<>>
  BY DEF AcceptorBinds
<1>2. ASSUME ShutdownWithError(p, cur) PROVE Ends(p)
  BY <1>2 DEF ShutdownWithError, Shutdown, Ends
<1>3. ASSUME NEW place, NEW item, Feeds(p, place, item), UNCHANGED <<accessed, data>> PROVE FedBy(p, place, item)
  BY <1>1, <1>3 DEF Feeds, FedBy
<1>4. CASE BindKnown(p, cur)
  <2> DEFINE seg == channel[p][cur.seg]
  <2>1. CASE ShutdownWithError(p, cur)
    BY <1>2, <2>1 DEF TurnKinds
  <2>2. CASE ~ShutdownWithError(p, cur)
    <3>1. /\ cur.at <= Len(seg)
          /\ ~(cur.at < Len(seg) \/ cur.seg < LastSegment(p) \/ Len(seg) = SegmentRoom)
          /\ Feeds(p, [cur EXCEPT !.at = @ + 1], seg[cur.at])
          /\ UNCHANGED <<channel, accessed, files>>
      BY <1>4, <2>2 DEF BindKnown
    <3>2. FedBy(p, [cur EXCEPT !.at = @ + 1], seg[cur.at])
      BY <1>3, <3>1 DEF files
    <3>3. cur.seg = LastSegment(p) /\ Len(seg) < SegmentRoom
      BY <1>0, <3>1
    <3>4. Knows(p)
      BY <3>1, <3>2, <3>3 DEF Knows, files
    <3> QED BY <3>4 DEF TurnKinds
  <2> QED BY <2>1, <2>2
<1>5. CASE BindKnownEof(p, cur)
  BY <1>3, <1>5 DEF BindKnownEof, KnowsEof, TurnKinds, files
<1>6. CASE BindDecodes(p, cur)
  <2> DEFINE symbol == data[p][offset[p] - buffered[p] + 1]
  <2>1. CASE symbol = BadSymbol
    <3>1. Ends(p)
      BY <1>6, <2>1 DEF BindDecodes, Shutdown, Ends, files
    <3> QED BY <3>1 DEF TurnKinds
  <2>2. CASE symbol # BadSymbol
    <3>1. FedBy(p, [cur EXCEPT !.at = @ + 1], symbol)
      BY <1>3, <1>6, <2>2 DEF BindDecodes
    <3>2. Waits(p, cur) /\ buffered[p] > 0
      BY <1>6 DEF BindDecodes
    <3>3. symbol \in Symbols
      BY <2>2, <3>2, FileTyped DEF PortOK
    <3>4. Appends(p, symbol)
      <4>1. cur.seg = LastSegment(p) /\ Len(channel[p][cur.seg]) < SegmentRoom
        BY <1>0, <3>2 DEF Waits
      <4>2. channel' = [channel EXCEPT ![p][cur.seg] = Append(@, symbol)]
        BY <1>6, <2>2 DEF BindDecodes
      <4> HIDE DEF cur, symbol
      <4> QED BY <3>3, <4>1, <4>2 DEF Appends
    <3>5. buffered' = [buffered EXCEPT ![p] = @ - 1] /\ UNCHANGED offset
      BY <1>6, <2>2 DEF BindDecodes
    <3>6. Decodes(p)
      BY <3>1, <3>2, <3>3, <3>4, <3>5 DEF Decodes
    <3> QED BY <3>6 DEF TurnKinds
  <2> QED BY <2>1, <2>2
<1>7. CASE BindFails(p, cur)
  BY <1>2, <1>7 DEF BindFails, TurnKinds
<1>8. CASE BindRefills(p, cur)
  BY <1>8 DEF BindRefills, Refills, TurnKinds
<1>9. CASE BindEof(p, cur)
  <2>1. FedBy(p, [seg |-> cur.seg + 1, at |-> 1], Eof)
    BY <1>3, <1>9 DEF BindEof
  <2>2. FindsEof(p)
    BY <1>9, <2>1 DEF BindEof, FindsEof, Extends
  <2> QED BY <2>2 DEF TurnKinds
<1> QED BY <1>4, <1>5, <1>6, <1>7, <1>8, <1>9 DEF AcceptorBinds

\* Every turn of the read process is of one of the kinds.
LEMMA TurnIsOfKind ==
  ASSUME PortShapes, OtherShapes, NEW p \in Iports, PortOK(p), ReaderTurn(p) \/ ReaderCloses(p)
  PROVE  TurnKinds(p)
<1>1. CASE ReaderCloses(p)
  <2>1. Ends(p)
    BY <1>1 DEF ReaderCloses, Ends
  <2> QED BY <2>1 DEF TurnKinds
<1>2. CASE ReaderTurn(p)
  <2>1. CASE MakesSegment(p) /\ (active[p] \/ reading[p] # NoAcceptor)
    BY <2>1 DEF MakesSegment, GoesToNext, Extends, TurnKinds
  <2>2. CASE AcceptorTurn(p)
    <3>1. CASE AcceptorBinds(p, Current(p))
      BY <2>2, <3>1, BindIsOfKind DEF AcceptorTurn
    <3>2. CASE AcceptorAccepts(p, Current(p))
      BY <2>2, <3>2 DEF AcceptorTurn, Accepts, TurnKinds
    <3>3. CASE AcceptorFails(p)
      BY <2>2, <3>3 DEF AcceptorTurn, AcceptorFails, GivesUp, TurnKinds
    <3>4. CASE AcceptorIsError(p, Current(p))
      <4>1. Ends(p)
        BY <2>2, <3>4 DEF AcceptorTurn, AcceptorIsError, ShutdownWithError, Shutdown, Ends
      <4> QED BY <4>1 DEF TurnKinds
    <3>5. CASE AcceptorIsUnknown(p, Current(p))
      <4>1. Ends(p)
        BY <2>2, <3>5 DEF AcceptorTurn, AcceptorIsUnknown, Shutdown, Ends
      <4> QED BY <4>1 DEF TurnKinds
    <3> QED BY <2>2, <3>1, <3>2, <3>3, <3>4, <3>5 DEF AcceptorTurn
  <2>3. CASE Unregister(p)
    BY <2>3 DEF Unregister, TurnKinds
  <2> QED BY <1>2, <2>1, <2>2, <2>3 DEF ReaderTurn
<1> QED BY <1>1, <1>2

-----------------------------------------------------------------------------
(* What a turn does to the iports *)

\* A turn leaves the channel as it is or lets its end grow.
LEMMA TurnGrows ==
  ASSUME NEW p \in Iports, TurnKinds(p)
  PROVE  Grows(p)
BY DEF TurnKinds, Ends, GivesUp, FedBy, Knows, KnowsEof, Decodes, FindsEof, Accepts, AcceptorAccepts, Refills, GoesToNext, Grows, port

\* The other iports are as they were.
LEMMA TurnElsewhere ==
  ASSUME PortShapes, OtherShapes, NEW p \in Iports, ChannelOK(p), TurnKinds(p), NEW q \in Iports, q # p
  PROVE  /\ active'[q] = active[q] /\ reading'[q] = reading[q] /\ position'[q] = position[q]
         /\ nextsym'[q] = nextsym[q] /\ channel'[q] = channel[q] /\ accessed'[q] = accessed[q]
         /\ stuck'[q] = stuck[q] /\ offset'[q] = offset[q] /\ buffered'[q] = buffered[q]
         /\ data' = data /\ (q \in links' <=> q \in links)
<1>1. channel'[q] = channel[q]
  BY TurnGrows, Growth
<1>2. /\ active'[q] = active[q] /\ reading'[q] = reading[q] /\ position'[q] = position[q]
      /\ nextsym'[q] = nextsym[q] /\ accessed'[q] = accessed[q]
      /\ stuck'[q] = stuck[q] /\ offset'[q] = offset[q] /\ buffered'[q] = buffered[q]
      /\ data' = data /\ (q \in links' <=> q \in links)
  <2> USE DEF PortShapes
  <2>1. CASE Ends(p) \/ GivesUp(p)
    BY <2>1 DEF Ends, GivesUp, files
  <2>2. CASE Knows(p) \/ KnowsEof(p) \/ Decodes(p) \/ FindsEof(p)
    BY <2>2 DEF Knows, KnowsEof, Decodes, FindsEof, FedBy
  <2>3. CASE Accepts(p) \/ Refills(p) \/ GoesToNext(p) \/ UNCHANGED <<port, files, links>>
    BY <2>3 DEF Accepts, AcceptorAccepts, Refills, GoesToNext, port, files
  <2> QED BY <2>1, <2>2, <2>3 DEF TurnKinds
<1> QED BY <1>1, <1>2

\* Types are kept when each variable changes at one iport, if at all.
LEMMA ShapesFromParts ==
  ASSUME PortShapes, NEW p \in Iports,
         channel' \in [Iports -> Seq(Seq(Symbols)) \ {<<>>}],
         \/ UNCHANGED active
         \/ active' = [active EXCEPT ![p] = FALSE],
         \/ UNCHANGED reading
         \/ \E r \in Acceptors \cup {NoAcceptor} : reading' = [reading EXCEPT ![p] = r],
         UNCHANGED position \/ \E place \in Place : position' = [position EXCEPT ![p] = place],
         UNCHANGED nextsym \/ \E place \in Place : nextsym' = [nextsym EXCEPT ![p] = place],
         UNCHANGED accessed,
         UNCHANGED stuck \/ \E n \in Nat : stuck' = [stuck EXCEPT ![p] = n],
         UNCHANGED offset \/ \E n \in Nat : offset' = [offset EXCEPT ![p] = n],
         UNCHANGED buffered \/ \E n \in Nat : buffered' = [buffered EXCEPT ![p] = n],
         UNCHANGED error \/ error' = [error EXCEPT ![p] = TRUE],
         UNCHANGED links \/ links' = links \ {p}
  PROVE  PortShapes'
<1>1. active' \in [Iports -> BOOLEAN] /\ error' \in [Iports -> BOOLEAN]
  BY Zenon DEF PortShapes
<1>2. reading' \in [Iports -> Acceptors \cup {NoAcceptor}]
  BY DEF PortShapes
<1>3. position' \in [Iports -> Place] /\ nextsym' \in [Iports -> Place]
  <2>1. position' \in [Iports -> Place]
    <3>1. position \in [Iports -> Place]
      BY DEF PortShapes
    <3> QED BY <3>1
  <2>2. nextsym' \in [Iports -> Place]
    <3>1. nextsym \in [Iports -> Place]
      BY DEF PortShapes
    <3> QED BY <3>1
  <2> QED BY <2>1, <2>2
<1>4. accessed' \in [Iports -> Nat] /\ stuck' \in [Iports -> Nat]
  <2>1. accessed' \in [Iports -> Nat]
    BY DEF PortShapes
  <2>2. stuck' \in [Iports -> Nat]
    <3>1. stuck \in [Iports -> Nat]
      BY DEF PortShapes
    <3> QED BY <3>1
  <2> QED BY <2>1, <2>2
<1>5. offset' \in [Iports -> Nat] /\ buffered' \in [Iports -> Nat]
  <2>1. offset' \in [Iports -> Nat]
    <3>1. offset \in [Iports -> Nat]
      BY DEF PortShapes
    <3> QED BY <3>1
  <2>2. buffered' \in [Iports -> Nat]
    <3>1. buffered \in [Iports -> Nat]
      BY DEF PortShapes
    <3> QED BY <3>1
  <2> QED BY <2>1, <2>2
<1>6. links' \subseteq Iports
  BY DEF PortShapes
<1> QED BY <1>1, <1>2, <1>3, <1>4, <1>5, <1>6 DEF PortShapes

\* A place is a pair of numbers.
LEMMA PlaceTyped ==
  ASSUME NEW p \in Iports, LastSegment(p) \in Nat, SegmentRoom \in Nat, NEW place,
         place \in [seg : 1 .. LastSegment(p), at : 1 .. SegmentRoom + 1] \cup PlacesOf(p) \cup {NoPlace}
  PROVE  place \in Place
BY DEF PlacesOf, Place, NoPlace

\* The acceptor is still one when it goes on.
LEMMA FeedTyped ==
  ASSUME PortShapes, NEW p \in Iports, NEW item \in Symbols \cup {Eof}, NEW place, FedBy(p, place, item)
  PROVE  \E r \in Acceptors :
           /\ reading' = [reading EXCEPT ![p] = r]
           /\ r = [reading[p] EXCEPT !.steps = Tail(@), !.heard = Append(@, item)]
<1>1. reading[p] \in Acceptors /\ reading \in [Iports -> Acceptors \cup {NoAcceptor}]
  BY DEF PortShapes, FedBy
<1>2. reading[p].steps \in Seq(AcceptorSteps) /\ reading[p].steps # <<>> /\ reading[p].heard \in Seq(Symbols \cup {Eof})
  BY <1>1 DEF Acceptors, FedBy
<1> DEFINE r == [reading[p] EXCEPT !.steps = Tail(@), !.heard = Append(@, item)]
<1>3. Tail(reading[p].steps) \in Seq(AcceptorSteps) /\ Append(reading[p].heard, item) \in Seq(Symbols \cup {Eof})
  BY <1>2, HeadTailProperties, AppendProperties
<1>4. r \in Acceptors
  BY <1>1, <1>3 DEF Acceptors
<1>5. reading' = [reading EXCEPT ![p] = r]
  BY <1>1 DEF FedBy
<1> QED BY <1>4, <1>5

\* A read that is over leaves nothing half-read.
LEMMA EndsKeeps ==
  ASSUME PortShapes, OtherShapes, NEW p \in Iports, PortOK(p), LinksExact, Ends(p) \/ GivesUp(p),
         active'[p] => p \in registered'
  PROVE  PortShapes' /\ PortOK(p)' /\ LinksExact'
<1>0. LastSegment(p) \in Nat \ {0} /\ SegmentRoom \in Nat \ {0} /\ LastSegment(p)' = LastSegment(p)
        /\ channel' \in [Iports -> Seq(Seq(Symbols)) \ {<<>>}] /\ channel' = channel
  BY ChannelTyped DEF PortOK, Ends, GivesUp, LastSegment, PortShapes
<1>1. ~SegmentFull(p) =>
        /\ Current(p) \in PlacesOf(p) /\ Valid(p, Current(p)) /\ Current(p) \in Place
        /\ Current(p).seg \in 1 .. LastSegment(p) /\ Current(p).at \in 1 .. SegmentRoom
  BY <1>0, CurrentOK, PlaceTyped DEF PlacesOf
<1>2. NoPlace \in Place
  BY DEF Place, NoPlace
<1>3. PortShapes'
  <2>1. UNCHANGED active \/ active' = [active EXCEPT ![p] = FALSE]
    BY DEF Ends, GivesUp
  <2>2. \E r \in Acceptors \cup {NoAcceptor} : reading' = [reading EXCEPT ![p] = r]
    BY DEF Ends, GivesUp
  <2>3. UNCHANGED position /\ UNCHANGED accessed /\ UNCHANGED offset /\ UNCHANGED buffered
    BY DEF Ends, GivesUp, files
  <2>4. UNCHANGED nextsym \/ \E place \in Place : nextsym' = [nextsym EXCEPT ![p] = place]
    BY <1>1, <1>2 DEF Ends, GivesUp
  <2>5. UNCHANGED stuck \/ \E n \in Nat : stuck' = [stuck EXCEPT ![p] = n]
    BY <1>0, <1>1 DEF Ends, GivesUp
  <2>6. UNCHANGED error \/ error' = [error EXCEPT ![p] = TRUE]
    BY DEF Ends, GivesUp
  <2>7. links' = links \ {p}
    BY DEF Ends, GivesUp
  <2> QED BY <1>0, <2>1, <2>2, <2>3, <2>4, <2>5, <2>6, <2>7, ShapesFromParts
<1>4. nextsym'[p] \in {nextsym[p], NoPlace} \/ (~SegmentFull(p) /\ nextsym'[p] = Current(p))
  BY DEF Ends, GivesUp, PortShapes
<1>5. stuck'[p] = stuck[p] \/ (~SegmentFull(p) /\ stuck'[p] = Current(p).seg)
  BY DEF Ends, GivesUp, PortShapes
<1>6. ChannelOK(p)'
  <2>1. \A n \in 1 .. LastSegment(p)' : Len(channel'[p][n]) <= SegmentRoom
    BY <1>0 DEF PortOK, ChannelOK
  <2>2. position'[p] \in PlacesOf(p)' /\ Valid(p, position[p])'
    BY <1>0, PlacesSame DEF PortOK, ChannelOK, Ends, GivesUp
  <2>3. nextsym'[p] \in [seg : 1 .. LastSegment(p)', at : 1 .. SegmentRoom + 1] \cup {NoPlace}
    BY <1>0, <1>1, <1>4 DEF PortOK, ChannelOK, PlacesOf
  <2>4. nextsym'[p] # NoPlace => Valid(p, nextsym[p])'
    BY <1>0, <1>1, <1>4, PlacesSame DEF PortOK, ChannelOK
  <2>5. accessed'[p] <= LastSegment(p)'
    BY <1>0 DEF Ends, GivesUp, PortOK, ChannelOK
  <2>6. stuck'[p] <= LastSegment(p)'
    BY <1>0, <1>1, <1>5 DEF PortOK, ChannelOK
  <2> QED BY <2>1, <2>2, <2>3, <2>4, <2>5, <2>6 DEF ChannelOK
<1>7. BufferOK(p)'
  BY DEF PortOK, BufferOK, Ends, GivesUp, files
<1>8. reading'[p] = NoAcceptor /\ (active'[p] => nextsym'[p] = NoPlace)
  BY DEF Ends, GivesUp, PortShapes
<1>9. ReadOK(p)'
  BY <1>8 DEF ReadOK
<1>10. LinksExact'
  <2>1. \A q \in Iports : q # p => reading'[q] = reading[q]
    BY DEF Ends, GivesUp, PortShapes
  <2>2. links' = links \ {p}
    BY DEF Ends, GivesUp
  <2> QED BY <1>8, <2>1, <2>2 DEF LinksExact
<1> QED BY <1>3, <1>6, <1>7, <1>9, <1>10 DEF PortOK

\* A place is not before another.
Reaches(place, other) ==
  place.seg < other.seg \/ (place.seg = other.seg /\ place.at <= other.at)

\* A read that goes on to a place there is.
LEMMA MovesKeep ==
  ASSUME PortShapes, OtherShapes, NEW p \in Iports, PortOK(p), LinksExact, active'[p] => p \in registered',
         NEW place \in [seg : 1 .. LastSegment(p)', at : 1 .. SegmentRoom + 1],
         nextsym' = [nextsym EXCEPT ![p] = place],
         place.at <= Len(channel'[p][place.seg]) + 1,
         Grows(p),
         \/ UNCHANGED position /\ Reaches(position[p], place)
         \/ position' = [position EXCEPT ![p] = place] /\ place \in PlacesOf(p)',
         AtLimit(place) => place.seg = LastSegment(p)',
         \/ UNCHANGED reading
         \/ \E r \in Acceptors : reading' = [reading EXCEPT ![p] = r],
         reading[p] # NoAcceptor,
         UNCHANGED <<active, accessed, error, stuck, links, data>>,
         UNCHANGED offset \/ \E n \in Nat : offset' = [offset EXCEPT ![p] = n],
         UNCHANGED buffered \/ \E n \in Nat : buffered' = [buffered EXCEPT ![p] = n],
         BufferOK(p)'
  PROVE  PortShapes' /\ PortOK(p)' /\ LinksExact'
<1>0. /\ LastSegment(p) \in Nat \ {0} /\ SegmentRoom \in Nat \ {0}
      /\ LastSegment(p)' \in Nat /\ LastSegment(p) <= LastSegment(p)'
      /\ ChannelOK(p) /\ ReadOK(p)
  BY ChannelTyped, PlacesStay DEF PortOK
<1>1. place \in Place /\ place # NoPlace
  BY <1>0 DEF Place, NoPlace
<1>2. PICK r \in Acceptors : reading' = [reading EXCEPT ![p] = r]
  <2>1. reading[p] \in Acceptors
    BY DEF PortShapes
  <2>2. UNCHANGED reading => reading' = [reading EXCEPT ![p] = reading[p]]
    BY DEF PortShapes
  <2> QED BY <2>1, <2>2
<1>4. channel' \in [Iports -> Seq(Seq(Symbols)) \ {<<>>}]
  BY <1>0, Growth
<1>5. PortShapes'
  <2>1. \E r1 \in Acceptors \cup {NoAcceptor} : reading' = [reading EXCEPT ![p] = r1]
    BY <1>2
  <2>2. \E place1 \in Place : nextsym' = [nextsym EXCEPT ![p] = place1]
    BY <1>1
  <2>3. UNCHANGED position \/ \E place1 \in Place : position' = [position EXCEPT ![p] = place1]
    BY <1>1
  <2> QED BY <1>4, <2>1, <2>2, <2>3, ShapesFromParts
<1>6. nextsym'[p] = place /\ reading'[p] = r
  BY <1>2 DEF PortShapes
<1>7. position'[p] \in PlacesOf(p)' /\ position'[p].at <= Len(channel'[p][position'[p].seg]) + 1
  <2>1. CASE UNCHANGED position
    <3>1. position[p] \in PlacesOf(p) /\ Valid(p, position[p])
      BY <1>0 DEF ChannelOK
    <3>2. \A pl \in PlacesOf(p) : pl \in PlacesOf(p)' /\ (Valid(p, pl) => Valid(p, pl)')
      BY <1>0, PlacesStayHere
    <3>3. \A pl \in PlacesOf(p) : Valid(p, pl) => pl.at <= Len(channel'[p][pl.seg]) + 1
      BY <3>2 DEF Valid
    <3> QED BY <2>1, <3>1, <3>2, <3>3
  <2>2. CASE position' = [position EXCEPT ![p] = place] /\ place \in PlacesOf(p)'
    <3>1. position'[p] = place
      BY <2>2 DEF PortShapes
    <3> QED BY <2>2, <3>1
  <2> QED BY <2>1, <2>2
<1>8. ChannelOK(p)'
  <2>1. \A n \in 1 .. LastSegment(p)' : Len(channel'[p][n]) <= SegmentRoom
    BY <1>0, Growth
  <2>2. position'[p] \in PlacesOf(p)' /\ Valid(p, position[p])'
    BY <1>7 DEF Valid
  <2>3. nextsym'[p] \in [seg : 1 .. LastSegment(p)', at : 1 .. SegmentRoom + 1] \cup {NoPlace}
    BY <1>6
  <2>4. Valid(p, nextsym[p])'
    BY <1>6 DEF Valid
  <2>5. accessed'[p] <= LastSegment(p)' /\ stuck'[p] <= LastSegment(p)'
    BY <1>0 DEF ChannelOK, PortShapes
  <2> QED BY <2>1, <2>2, <2>3, <2>4, <2>5 DEF ChannelOK
<1>9. ReadOK(p)'
  <2>1. reading'[p] # NoAcceptor
    BY <1>6, AcceptorReal
  <2>2. active'[p]
    BY <1>0 DEF ReadOK
  <2>3. Reaches(position'[p], nextsym'[p])
    BY <1>0, <1>1, <1>6 DEF Reaches, PortShapes, Place
  <2>4. AtLimit(nextsym[p])' => nextsym'[p].seg = LastSegment(p)'
    BY <1>6 DEF AtLimit
  <2> QED BY <2>1, <2>2, <2>3, <2>4 DEF ReadOK, Reaches
<1>10. LinksExact'
  <2>1. \A q \in Iports : q # p => reading'[q] = reading[q]
    BY <1>2 DEF PortShapes
  <2> QED BY <1>6, <2>1, AcceptorReal DEF LinksExact
<1> QED BY <1>5, <1>8, <1>9, <1>10 DEF PortOK

\* A read that is given an item.
LEMMA FeedKeeps ==
  ASSUME PortShapes, OtherShapes, NEW p \in Iports, PortOK(p), LinksExact, active'[p] => p \in registered',
         NEW place, NEW item \in Symbols \cup {Eof}, FedBy(p, place, item), Grows(p),
         place \in [seg : 1 .. LastSegment(p)', at : 1 .. SegmentRoom + 1],
         place.at <= Len(channel'[p][place.seg]) + 1,
         Reaches(Current(p), place),
         AtLimit(place) => place.seg = LastSegment(p)',
         UNCHANGED offset \/ \E n \in Nat : offset' = [offset EXCEPT ![p] = n],
         UNCHANGED buffered \/ \E n \in Nat : buffered' = [buffered EXCEPT ![p] = n],
         BufferOK(p)'
  PROVE  PortShapes' /\ PortOK(p)' /\ LinksExact'
<1>1. /\ SegmentRoom \in Nat \ {0} /\ LastSegment(p) \in Nat /\ LastSegment(p)' \in Nat
      /\ ReadOK(p) /\ ChannelOK(p) /\ reading[p] # NoAcceptor /\ ~SegmentFull(p)
  BY ChannelTyped, PlacesStay DEF PortOK, FedBy
<1>2. Reaches(position[p], place)
  <2>1. Reaches(position[p], Current(p))
    BY <1>1, CurrentOK DEF Reaches
  <2>2. Current(p) \in PlacesOf(p) /\ position[p] \in PlacesOf(p)
    BY <1>1, CurrentOK DEF ChannelOK
  <2>3. /\ position[p].seg \in Nat /\ position[p].at \in Nat /\ Current(p).seg \in Nat /\ Current(p).at \in Nat
        /\ place.seg \in Nat /\ place.at \in Nat
    BY <1>1, <2>2 DEF PlacesOf
  <2> QED BY <2>1, <2>3 DEF Reaches
<1>3. PICK r \in Acceptors : reading' = [reading EXCEPT ![p] = r]
  BY FeedTyped
<1>4. nextsym' = [nextsym EXCEPT ![p] = place] /\ UNCHANGED <<active, position, accessed, error, stuck, links, data>>
  BY DEF FedBy
<1> QED BY <1>1, <1>2, <1>3, <1>4, MovesKeep

\* The channel is a sequence of segments.
LEMMA KnownKeeps ==
  ASSUME PortShapes, OtherShapes, NEW p \in Iports, PortOK(p), LinksExact, active'[p] => p \in registered',
         Knows(p) \/ KnowsEof(p)
  PROVE  PortShapes' /\ PortOK(p)' /\ LinksExact'
<1> DEFINE cur == Current(p)
           seg == channel[p][cur.seg]
<1>1. ~SegmentFull(p) /\ channel' = channel /\ UNCHANGED offset /\ UNCHANGED buffered /\ data' = data
  BY DEF Knows, KnowsEof, FedBy
<1>2. /\ LastSegment(p) \in Nat /\ SegmentRoom \in Nat \ {0} /\ cur.seg \in 1 .. LastSegment(p) /\ cur.at \in 1 .. SegmentRoom
      /\ seg \in Seq(Symbols) /\ Len(seg) \in 0 .. SegmentRoom
      /\ cur = [seg |-> cur.seg, at |-> cur.at]
      /\ \A n \in 1 .. LastSegment(p) : Len(channel[p][n]) \in 0 .. SegmentRoom
  <2>1. cur \in PlacesOf(p)
    BY <1>1, CurrentOK
  <2>2. cur.seg \in 1 .. LastSegment(p) /\ cur.at \in 1 .. SegmentRoom /\ cur = [seg |-> cur.seg, at |-> cur.at]
    BY <2>1 DEF PlacesOf
  <2> QED BY <2>2, ChannelTyped DEF PortOK
<1>3. LastSegment(p)' = LastSegment(p)
  BY <1>1 DEF LastSegment
<1>4. Grows(p) /\ BufferOK(p)'
  BY <1>1 DEF Grows, BufferOK, PortOK
<1>5. CASE Knows(p)
  <2> DEFINE place == [cur EXCEPT !.at = @ + 1]
  <2>1. FedBy(p, place, seg[cur.at]) /\ cur.at <= Len(seg) /\ cur.seg = LastSegment(p)
    BY <1>5 DEF Knows
  <2>2. seg[cur.at] \in Symbols
    BY <1>2, <2>1, ElementOfSeq
  <2>3. place = [seg |-> cur.seg, at |-> cur.at + 1]
    BY <1>2
  <2>4. place \in [seg : 1 .. LastSegment(p)', at : 1 .. SegmentRoom + 1]
    BY <1>2, <1>3, <2>3
  <2>5. place.at <= Len(channel'[p][place.seg]) + 1
    BY <1>1, <1>2, <2>1, <2>3
  <2>6. Reaches(cur, place) /\ place.seg = LastSegment(p)'
    BY <1>2, <1>3, <2>1, <2>3 DEF Reaches
  <2>7. seg[cur.at] \in Symbols \cup {Eof}
    BY <2>2
  <2> HIDE DEF place, seg
  <2> QED BY <1>1, <1>4, <2>1, <2>7, <2>4, <2>5, <2>6, FeedKeeps
<1>6. CASE KnowsEof(p)
  <2> DEFINE place == [seg |-> cur.seg + 1, at |-> 1]
  <2>1. FedBy(p, place, Eof) /\ cur.seg < LastSegment(p)
    BY <1>6 DEF KnowsEof
  <2>2. place \in [seg : 1 .. LastSegment(p)', at : 1 .. SegmentRoom + 1]
    BY <1>2, <1>3, <2>1
  <2>3. place.at <= Len(channel'[p][place.seg]) + 1
    BY <1>1, <1>2, <2>1
  <2>4. Reaches(cur, place) /\ ~AtLimit(place)
    BY <1>2 DEF Reaches, AtLimit
  <2>5. Eof \in Symbols \cup {Eof}
    OBVIOUS
  <2> HIDE DEF place
  <2> QED BY <1>1, <1>4, <2>1, <2>2, <2>3, <2>4, <2>5, FeedKeeps
<1> QED BY <1>5, <1>6

\* Where the read has got to when it waits for the file.
LEMMA WaitsAt ==
  ASSUME PortShapes, NEW p \in Iports, PortOK(p), ~SegmentFull(p)
  PROVE  LET cur == Current(p)  len == Len(channel[p][cur.seg]) IN
           /\ LastSegment(p) \in Nat \ {0} /\ SegmentRoom \in Nat \ {0}
           /\ cur.seg \in 1 .. LastSegment(p) /\ cur.at \in 1 .. SegmentRoom
           /\ cur = [seg |-> cur.seg, at |-> cur.at]
           /\ len \in 0 .. SegmentRoom /\ cur.at <= len + 1
           /\ Waits(p, cur) => cur.seg = LastSegment(p) /\ cur.at = len + 1 /\ len < SegmentRoom
<1> DEFINE cur == Current(p)
           len == Len(channel[p][cur.seg])
<1>1. cur \in PlacesOf(p) /\ Valid(p, cur)
  BY CurrentOK
<1>2. cur.seg \in 1 .. LastSegment(p) /\ cur.at \in 1 .. SegmentRoom /\ cur = [seg |-> cur.seg, at |-> cur.at]
  BY <1>1 DEF PlacesOf
<1>3. LastSegment(p) \in Nat \ {0} /\ SegmentRoom \in Nat \ {0} /\ len \in 0 .. SegmentRoom
  BY <1>2, ChannelTyped DEF PortOK
<1>4. cur.at <= len + 1
  BY <1>1 DEF Valid
<1>5. Waits(p, cur) => cur.seg = LastSegment(p) /\ cur.at > len
  BY DEF Waits
<1> HIDE DEF cur, len
<1>6. Waits(p, cur) => cur.seg = LastSegment(p) /\ cur.at = len + 1 /\ len < SegmentRoom
  BY <1>2, <1>3, <1>4, <1>5
<1> QED BY <1>2, <1>3, <1>4, <1>6 DEF cur, len

\* The last segment when a symbol has been put at its end, or a segment behind it.
LEMMA GrowthAtEnd ==
  ASSUME PortShapes, NEW p \in Iports, ChannelOK(p)
  PROVE  /\ \A symbol \in Symbols : Appends(p, symbol) =>
              /\ LastSegment(p)' = LastSegment(p)
              /\ channel'[p][LastSegment(p)] = Append(channel[p][LastSegment(p)], symbol)
              /\ \A n \in 1 .. LastSegment(p) - 1 : channel'[p][n] = channel[p][n]
         /\ Extends(p) =>
              /\ LastSegment(p)' = LastSegment(p) + 1
              /\ channel'[p][LastSegment(p) + 1] = <<>>
              /\ \A n \in 1 .. LastSegment(p) : channel'[p][n] = channel[p][n]
<1> DEFINE c == channel[p]
           last == LastSegment(p)
<1>1. /\ c \in Seq(Seq(Symbols)) /\ last = Len(c) /\ last \in Nat \ {0}
      /\ \A n \in 1 .. last : c[n] \in Seq(Symbols)
      /\ channel \in [Iports -> Seq(Seq(Symbols)) \ {<<>>}]
  BY ChannelTyped DEF LastSegment, PortShapes
<1>2. ASSUME NEW symbol \in Symbols, Appends(p, symbol)
      PROVE  /\ LastSegment(p)' = last
             /\ channel'[p][last] = Append(c[last], symbol)
             /\ \A n \in 1 .. last - 1 : channel'[p][n] = c[n]
  <2> DEFINE e == Append(c[last], symbol)
             d == [c EXCEPT ![last] = e]
  <2>1. e \in Seq(Symbols)
    BY <1>1, AppendProperties
  <2>2. channel' = [channel EXCEPT ![p] = d]
    BY <1>1, <1>2 DEF Appends
  <2> HIDE DEF e
  <2>3. d \in Seq(Seq(Symbols)) /\ Len(d) = last
    BY <1>1, <2>1, ExceptSeq
  <2>4. d[last] = e /\ \A n \in 1 .. last - 1 : d[n] = c[n]
    BY <1>1, <2>1, ExceptSeq
  <2> HIDE DEF d
  <2>5. channel'[p] = d
    BY <1>1, <2>2
  <2> QED BY <2>3, <2>4, <2>5 DEF LastSegment, e
<1>3. ASSUME Extends(p)
      PROVE  /\ LastSegment(p)' = last + 1
             /\ channel'[p][last + 1] = <<>>
             /\ \A n \in 1 .. last : channel'[p][n] = c[n]
  <2> DEFINE d == Append(c, <<>>)
  <2>1. <<>> \in Seq(Symbols)
    BY EmptySeq
  <2>2. Len(d) = last + 1 /\ d[last + 1] = <<>> /\ \A n \in 1 .. last : d[n] = c[n]
    BY <1>1, <2>1, AppendProperties
  <2>3. channel' = [channel EXCEPT ![p] = d]
    BY <1>3 DEF Extends
  <2> HIDE DEF d
  <2>4. channel'[p] = d
    BY <1>1, <2>3
  <2> QED BY <2>2, <2>4 DEF LastSegment
<1> QED BY <1>2, <1>3

\* A symbol that is decoded goes to the end of the last segment, out of the buffer.
LEMMA DecodesKeeps ==
  ASSUME PortShapes, OtherShapes, NEW p \in Iports, PortOK(p), LinksExact, active'[p] => p \in registered',
         Decodes(p)
  PROVE  PortShapes' /\ PortOK(p)' /\ LinksExact'
<1> DEFINE cur == Current(p)
           seg == channel[p][cur.seg]
           symbol == data[p][offset[p] - buffered[p] + 1]
           place == [cur EXCEPT !.at = @ + 1]
<1>1. /\ FedBy(p, place, symbol) /\ ~SegmentFull(p) /\ Waits(p, cur)
      /\ symbol \in Symbols /\ Appends(p, symbol)
      /\ buffered[p] > 0 /\ buffered' = [buffered EXCEPT ![p] = @ - 1] /\ offset' = offset /\ data' = data
  BY DEF Decodes, FedBy
<1>2. /\ LastSegment(p) \in Nat \ {0} /\ SegmentRoom \in Nat \ {0}
      /\ cur.seg = LastSegment(p) /\ cur.at \in 1 .. SegmentRoom /\ cur = [seg |-> cur.seg, at |-> cur.at]
      /\ Len(seg) \in 0 .. SegmentRoom /\ cur.at = Len(seg) + 1
  BY <1>1, WaitsAt
<1>3. seg \in Seq(Symbols)
  BY <1>2, ChannelTyped DEF PortOK
<1>4. LastSegment(p)' = LastSegment(p) /\ channel'[p][LastSegment(p)] = Append(channel[p][LastSegment(p)], symbol)
  <2> HIDE DEF symbol
  <2> QED BY <1>1, GrowthAtEnd DEF PortOK
<1>5. Len(channel'[p][cur.seg]) = Len(seg) + 1
  <2> HIDE DEF symbol, cur
  <2> QED BY <1>1, <1>2, <1>3, <1>4, AppendProperties
<1>6. Grows(p)
  BY <1>1 DEF Grows
<1>7. place = [seg |-> cur.seg, at |-> cur.at + 1]
  BY <1>2
<1>8. place \in [seg : 1 .. LastSegment(p)', at : 1 .. SegmentRoom + 1]
  BY <1>2, <1>4, <1>7
<1>9. place.at <= Len(channel'[p][place.seg]) + 1
  BY <1>2, <1>5, <1>7
<1>10. Reaches(cur, place) /\ place.seg = LastSegment(p)'
  BY <1>2, <1>4, <1>7 DEF Reaches
<1>11. symbol \in Symbols \cup {Eof}
  BY <1>1
<1>12. /\ offset[p] \in Nat /\ buffered[p] \in Nat /\ buffered[p] <= offset[p] /\ offset[p] <= Len(data[p])
       /\ Len(data[p]) \in Nat /\ BufferOK(p)
  BY FileTyped DEF PortOK
<1>13. \E n \in Nat : buffered' = [buffered EXCEPT ![p] = n]
  <2>1. buffered[p] - 1 \in Nat /\ buffered' = [buffered EXCEPT ![p] = buffered[p] - 1]
    BY <1>1, <1>12
  <2> QED BY <2>1
<1>14. BufferOK(p)'
  <2>1. buffered'[p] = buffered[p] - 1 /\ offset'[p] = offset[p]
    BY <1>1 DEF PortShapes
  <2>2. \A i \in offset[p] - buffered'[p] + 1 .. offset[p] : i \in offset[p] - buffered[p] + 1 .. offset[p]
    BY <1>12, <2>1
  <2>3. \A i \in offset[p] - buffered'[p] + 1 .. offset[p] : data[p][i] # Eof
    BY <1>12, <2>2 DEF BufferOK
  <2>4. offset'[p] <= Len(data'[p]) /\ buffered'[p] <= offset'[p]
    BY <1>1, <1>12, <2>1
  <2> QED BY <1>1, <2>1, <2>3, <2>4 DEF BufferOK
<1> HIDE DEF place, symbol, cur
<1>15. FedBy(p, place, symbol) /\ Reaches(Current(p), place)
  BY <1>1, <1>10 DEF cur
<1> QED BY <1>1, <1>6, <1>8, <1>9, <1>10, <1>11, <1>13, <1>14, <1>15, FeedKeeps

\* An end of file ends the segment, and the read goes on in the next.
LEMMA FindsEofKeeps ==
  ASSUME PortShapes, OtherShapes, NEW p \in Iports, PortOK(p), LinksExact, active'[p] => p \in registered',
         FindsEof(p)
  PROVE  PortShapes' /\ PortOK(p)' /\ LinksExact'
<1> DEFINE cur == Current(p)
           place == [seg |-> cur.seg + 1, at |-> 1]
<1>1. /\ FedBy(p, place, Eof) /\ ~SegmentFull(p) /\ Waits(p, cur) /\ Extends(p)
      /\ buffered[p] = 0 /\ buffered' = buffered /\ data' = data
      /\ offset' = [offset EXCEPT ![p] = IF @ < Len(data[p]) THEN @ + 1 ELSE @]
  BY DEF FindsEof, FedBy
<1>2. LastSegment(p) \in Nat \ {0} /\ SegmentRoom \in Nat \ {0} /\ cur.seg = LastSegment(p) /\ cur.at \in 1 .. SegmentRoom
  BY <1>1, WaitsAt
<1>3. LastSegment(p)' = LastSegment(p) + 1 /\ channel'[p][LastSegment(p) + 1] = <<>>
  BY <1>1, GrowthAtEnd DEF PortOK
<1>4. Grows(p) /\ Eof \in Symbols \cup {Eof}
  BY <1>1 DEF Grows
<1>5. place \in [seg : 1 .. LastSegment(p)', at : 1 .. SegmentRoom + 1]
  BY <1>2, <1>3
<1>6. place.at <= Len(channel'[p][place.seg]) + 1
  BY <1>2, <1>3, EmptySeq
<1>7. Reaches(cur, place) /\ place.seg = LastSegment(p)'
  BY <1>2, <1>3 DEF Reaches
<1>8. /\ offset[p] \in Nat /\ buffered[p] \in Nat /\ offset[p] <= Len(data[p]) /\ Len(data[p]) \in Nat
  BY FileTyped DEF PortOK
<1>9. \E n \in Nat : offset' = [offset EXCEPT ![p] = n]
  <2> DEFINE n == IF offset[p] < Len(data[p]) THEN offset[p] + 1 ELSE offset[p]
  <2>1. n \in Nat
    BY <1>8
  <2>2. offset' = [offset EXCEPT ![p] = n]
    BY <1>1
  <2> QED BY <2>1, <2>2
<1>10. BufferOK(p)'
  <2>1. buffered'[p] = 0 /\ offset'[p] = IF offset[p] < Len(data[p]) THEN offset[p] + 1 ELSE offset[p]
    BY <1>1 DEF PortShapes
  <2>2. offset'[p] <= Len(data'[p]) /\ buffered'[p] <= offset'[p] /\ offset'[p] \in Nat
    BY <1>1, <1>8, <2>1
  <2>3. \A i : i \notin offset'[p] - buffered'[p] + 1 .. offset'[p]
    BY <2>1, <2>2
  <2> QED BY <2>2, <2>3 DEF BufferOK
<1> HIDE DEF place
<1> QED BY <1>1, <1>4, <1>5, <1>6, <1>7, <1>9, <1>10, FeedKeeps

\* Accepting, refilling and making the next segment keep the iport right.
LEMMA OthersKeep ==
  ASSUME PortShapes, OtherShapes, NEW p \in Iports, PortOK(p), LinksExact, active'[p] => p \in registered',
         Accepts(p) \/ Refills(p) \/ GoesToNext(p)
  PROVE  PortShapes' /\ PortOK(p)' /\ LinksExact'
<1>1. CASE Accepts(p)
  <2> DEFINE cur == Current(p)
  <2>1. /\ ~SegmentFull(p) /\ reading[p] # NoAcceptor /\ reading[p].steps # <<>>
        /\ position' = [position EXCEPT ![p] = cur] /\ nextsym' = [nextsym EXCEPT ![p] = cur]
        /\ reading' = [reading EXCEPT ![p].steps = Tail(@)]
        /\ UNCHANGED <<active, channel, accessed, error, stuck, links, data, offset, buffered>>
    BY <1>1 DEF Accepts, AcceptorAccepts, files
  <2>2. LastSegment(p)' = LastSegment(p) /\ PlacesOf(p)' = PlacesOf(p)
    BY <2>1, PlacesSame
  <2>3. cur \in PlacesOf(p) /\ cur.at <= Len(channel[p][cur.seg]) + 1
    BY <2>1, CurrentOK DEF Valid
  <2>4. cur \in [seg : 1 .. LastSegment(p)', at : 1 .. SegmentRoom + 1] /\ ~AtLimit(cur)
    BY <2>2, <2>3, RoomForInput DEF PlacesOf, AtLimit
  <2>5. \E r \in Acceptors : reading' = [reading EXCEPT ![p] = r]
    <3>1. reading[p] \in Acceptors
      BY <2>1 DEF PortShapes
    <3>2. Tail(reading[p].steps) \in Seq(AcceptorSteps)
      BY <2>1, <3>1, HeadTailProperties DEF Acceptors
    <3>3. [reading[p] EXCEPT !.steps = Tail(@)] \in Acceptors
      BY <3>1, <3>2 DEF Acceptors
    <3>4. reading' = [reading EXCEPT ![p] = [reading[p] EXCEPT !.steps = Tail(@)]]
      BY <2>1 DEF PortShapes
    <3> QED BY <3>3, <3>4
  <2>6. Grows(p) /\ BufferOK(p)'
    BY <2>1 DEF Grows, BufferOK, PortOK
  <2> HIDE DEF cur
  <2>7. cur \in PlacesOf(p)' /\ cur.at <= Len(channel'[p][cur.seg]) + 1
    BY <2>1, <2>2, <2>3
  <2> QED BY <2>1, <2>4, <2>5, <2>6, <2>7, MovesKeep
<1>2. CASE Refills(p)
  <2> DEFINE cur == Current(p)
  <2>1. /\ ~SegmentFull(p) /\ reading[p] # NoAcceptor /\ buffered[p] = 0
        /\ nextsym' = [nextsym EXCEPT ![p] = cur]
        /\ UNCHANGED <<active, reading, position, channel, accessed, error, stuck, links, data>>
    BY <1>2 DEF Refills
  <2>2. PICK n \in offset[p] + 1 .. Len(data[p]) :
          /\ \A i \in offset[p] + 1 .. n : data[p][i] # Eof
          /\ offset' = [offset EXCEPT ![p] = n]
          /\ buffered' = [buffered EXCEPT ![p] = n - offset[p]]
    BY <1>2 DEF Refills
  <2>3. LastSegment(p)' = LastSegment(p)
    BY <2>1, PlacesSame
  <2>4. cur \in PlacesOf(p) /\ cur.at <= Len(channel'[p][cur.seg]) + 1 /\ Reaches(position[p], cur)
    BY <2>1, CurrentOK DEF Valid, Reaches
  <2>5. cur \in [seg : 1 .. LastSegment(p)', at : 1 .. SegmentRoom + 1] /\ ~AtLimit(cur)
    BY <2>3, <2>4, RoomForInput DEF PlacesOf, AtLimit
  <2>6. Grows(p)
    BY <2>1 DEF Grows
  <2>7. offset[p] \in Nat /\ Len(data[p]) \in Nat /\ n \in Nat /\ n - offset[p] \in Nat
    BY FileTyped DEF PortOK
  <2>8. BufferOK(p)'
    <3>1. offset'[p] = n /\ buffered'[p] = n - offset[p]
      BY <2>2 DEF PortShapes
    <3>2. n <= Len(data[p]) /\ n - offset[p] <= n /\ n - (n - offset[p]) = offset[p]
      BY <2>2, <2>7
    <3>3. \A i \in n - (n - offset[p]) + 1 .. n : data[p][i] # Eof
      BY <2>2, <3>2
    <3> QED BY <2>1, <3>1, <3>2, <3>3 DEF BufferOK
  <2>9. (\E k \in Nat : offset' = [offset EXCEPT ![p] = k]) /\ \E k \in Nat : buffered' = [buffered EXCEPT ![p] = k]
    BY <2>2, <2>7
  <2> HIDE DEF cur
  <2> QED BY <2>1, <2>4, <2>5, <2>6, <2>8, <2>9, MovesKeep
<1>3. CASE GoesToNext(p)
  <2> DEFINE place == [seg |-> LastSegment(p) + 1, at |-> 1]
  <2>1. /\ SegmentFull(p) /\ Extends(p) /\ nextsym' = [nextsym EXCEPT ![p] = place]
        /\ UNCHANGED <<active, reading, position, accessed, error, stuck, links, data, offset, buffered>>
    BY <1>3 DEF GoesToNext, files
  <2>2. reading[p] # NoAcceptor
    <3>1. nextsym[p] # NoPlace
      BY <2>1, RoomForInput DEF SegmentFull, AtLimit, NoPlace
    <3> QED BY <1>3, <3>1 DEF GoesToNext, PortOK, ReadOK
  <2>3. LastSegment(p)' = LastSegment(p) + 1 /\ channel'[p][LastSegment(p) + 1] = <<>> /\ ChannelOK(p)
    BY <2>1, GrowthAtEnd DEF PortOK
  <2>4. LastSegment(p) \in Nat /\ SegmentRoom \in Nat \ {0}
    BY <2>3, ChannelTyped
  <2>5. place \in [seg : 1 .. LastSegment(p)', at : 1 .. SegmentRoom + 1] /\ place.seg = LastSegment(p)'
    BY <2>3, <2>4
  <2>6. place.at <= Len(channel'[p][place.seg]) + 1
    BY <2>3, EmptySeq
  <2>7. Reaches(position[p], place)
    <3>1. position[p].seg \in 1 .. LastSegment(p)
      BY <2>3 DEF ChannelOK, PlacesOf
    <3> QED BY <2>4, <3>1 DEF Reaches
  <2>8. Grows(p) /\ BufferOK(p)'
    BY <2>1 DEF Grows, BufferOK, PortOK
  <2> HIDE DEF place
  <2> QED BY <2>1, <2>2, <2>5, <2>6, <2>7, <2>8, MovesKeep
<1> QED BY <1>1, <1>2, <1>3

\* A turn keeps the iport in order.
LEMMA TurnKeeps ==
  ASSUME PortShapes, OtherShapes, NEW p \in Iports, PortOK(p), LinksExact, active'[p] => p \in registered',
         TurnKinds(p)
  PROVE  PortShapes' /\ PortOK(p)' /\ LinksExact'
<1>1. CASE UNCHANGED <<port, files, links>>
  <2>1. PortShapes' /\ LinksExact'
    BY <1>1 DEF PortShapes, LinksExact, port, files
  <2>2. LastSegment(p)' = LastSegment(p) /\ PlacesOf(p)' = PlacesOf(p) /\ \A place : Valid(p, place)' <=> Valid(p, place)
    BY <1>1, PlacesSame DEF port
  <2>3. ChannelOK(p)'
    BY <1>1, <2>2 DEF PortOK, ChannelOK, port
  <2>4. BufferOK(p)'
    BY <1>1 DEF PortOK, BufferOK, files
  <2>5. ReadOK(p)'
    BY <1>1, <2>2 DEF PortOK, ReadOK, port, AtLimit
  <2> QED BY <2>1, <2>3, <2>4, <2>5 DEF PortOK
<1> QED BY <1>1, EndsKeeps, KnownKeeps, DecodesKeeps, FindsEofKeeps, OthersKeep DEF TurnKinds

-----------------------------------------------------------------------------
(* The iports in all steps *)

\* An iport whose channel and file are as they were.
LEMMA PortFrame ==
  ASSUME NEW p \in Iports, PortOK(p),
         channel'[p] = channel[p], position'[p] = position[p], nextsym'[p] = nextsym[p],
         stuck'[p] = stuck[p], accessed'[p] <= LastSegment(p),
         offset'[p] = offset[p], buffered'[p] = buffered[p], data' = data,
         active'[p] => p \in registered',
         active'[p] /\ reading'[p] = NoAcceptor => nextsym[p] = NoPlace,
         reading'[p] # NoAcceptor => active'[p] /\ (reading[p] # NoAcceptor \/ nextsym[p] = NoPlace)
  PROVE  PortOK(p)'
<1>1. LastSegment(p)' = LastSegment(p) /\ PlacesOf(p)' = PlacesOf(p) /\ \A place : Valid(p, place)' <=> Valid(p, place)
  BY PlacesSame
<1>2. ChannelOK(p)'
  BY <1>1 DEF PortOK, ChannelOK
<1>3. BufferOK(p)'
  BY DEF PortOK, BufferOK
<1>4. ReadOK(p)'
  <2>1. reading'[p] # NoAcceptor /\ nextsym'[p] # NoPlace =>
          /\ \/ position'[p].seg < nextsym'[p].seg
             \/ position'[p].seg = nextsym'[p].seg /\ position'[p].at <= nextsym'[p].at
          /\ AtLimit(nextsym[p])' => nextsym'[p].seg = LastSegment(p)'
    BY <1>1 DEF PortOK, ReadOK, AtLimit
  <2> QED BY <2>1 DEF ReadOK
<1> QED BY <1>2, <1>3, <1>4 DEF PortOK

\* The statement in hand is one of the program's.
LEMMA HeadTyped ==
  ASSUME ThreadInv, main \in InStatement
  PROVE  /\ left # <<>> /\ Head(left) \in Statements /\ left \in Seq(Statements)
         /\ Head(left) = left[1] /\ Len(left) \in Nat \ {0} /\ 1 \in 1 .. Len(left)
<1>1. left # <<>> /\ left \in Seq(Statements)
  BY DEF ThreadInv, ThreadTypeOK
<1>2. Head(left) \in Statements /\ Head(left) = left[1]
  BY <1>1, HeadTailProperties
<1>3. Len(left) \in Nat \ {0}
  BY <1>1, LenProperties, EmptySeq
<1> QED BY <1>1, <1>2, <1>3

\* A read that starts, ...
LEMMA ReadTakesKeeps ==
  ASSUME InputInv, ExecRead, NEW p \in Iports, p = Head(left).port, ReadTakes(p)
  PROVE  PortShapes' /\ (\A q \in Iports : PortOK(q)') /\ LinksExact'
<1> DEFINE s == Head(left)
           r == [steps |-> s.steps, ends |-> s.ends, heard |-> <<>>]
<1>1. s \in Statements /\ s.op = "read"
  BY HeadTyped DEF InputInv, ExecRead, InStatement
<1>2. r \in Acceptors
  <2>1. s.steps \in Seq(AcceptorSteps) /\ s.ends \in AcceptorEnds
    BY <1>1, StatementsTyped
  <2>2. <<>> \in Seq(Symbols \cup {Eof})
    BY EmptySeq
  <2> QED BY <2>1, <2>2 DEF Acceptors
<1> HIDE DEF r
<1>3. /\ active[p] /\ reading[p] = NoAcceptor
      /\ reading' = [reading EXCEPT ![p] = r]
      /\ accessed' = [accessed EXCEPT ![p] = position[p].seg]
      /\ links' = links \cup {p}
      /\ UNCHANGED <<active, position, nextsym, channel, error, stuck, files, registered>>
  BY DEF ExecRead, ReadTakes, procs, r
<1>4. position[p] \in PlacesOf(p) /\ LastSegment(p) \in Nat
  BY ChannelTyped DEF InputInv, PortOK, ChannelOK
<1>5. position[p].seg \in 1 .. LastSegment(p)
  BY <1>4 DEF PlacesOf
<1>6. PortShapes'
  <2>1. reading' \in [Iports -> Acceptors \cup {NoAcceptor}]
    BY <1>2, <1>3 DEF InputInv, PortShapes
  <2>2. accessed' \in [Iports -> Nat]
    BY <1>3, <1>4, <1>5 DEF InputInv, PortShapes
  <2> QED BY <1>3, <2>1, <2>2 DEF InputInv, PortShapes, files
<1>7. ASSUME NEW q \in Iports PROVE PortOK(q)'
  <2>0. PortOK(q)
    BY DEF InputInv
  <2>1. accessed'[q] <= LastSegment(q)
    BY <1>3, <1>4, <1>5, <2>0 DEF InputInv, PortShapes, PortOK, ChannelOK
  <2>2. q # p => reading'[q] = reading[q]
    BY <1>3 DEF InputInv, PortShapes
  <2>3. reading'[q] # NoAcceptor => active'[q] /\ (reading[q] # NoAcceptor \/ nextsym[q] = NoPlace)
    BY <1>3, <2>0, <2>2 DEF PortOK, ReadOK
  <2>4. active'[q] /\ reading'[q] = NoAcceptor => nextsym[q] = NoPlace
    BY <1>3, <2>0, <2>2 DEF PortOK, ReadOK
  <2>5. active'[q] => q \in registered'
    BY <1>3, <2>0 DEF PortOK, ReadOK
  <2> QED BY <1>3, <2>0, <2>1, <2>3, <2>4, <2>5, PortFrame DEF files
<1>8. LinksExact'
  <2>1. reading'[p] = r /\ r # NoAcceptor /\ \A q \in Iports : q # p => reading'[q] = reading[q]
    BY <1>2, <1>3, AcceptorReal DEF InputInv, PortShapes
  <2> QED BY <1>3, <2>1 DEF InputInv, LinksExact
<1> QED BY <1>6, <1>7, <1>8

\* ... an iport that is opened, ...
LEMMA OpenKeeps ==
  ASSUME InputInv, OpenRegisters
  PROVE  PortShapes' /\ (\A q \in Iports : PortOK(q)') /\ LinksExact'
<1> DEFINE p == Head(left).port
<1>1. /\ Head(left) \in Statements /\ Head(left).op = "open" /\ Head(left) = left[1] /\ 1 \in 1 .. Len(left)
      /\ main = "registering"
  BY HeadTyped DEF InputInv, OpenRegisters, InStatement, ThreadInv
<1>2. p \in Iports /\ p \in Makes[left[1]]
  BY <1>1, StatementsTyped, MakesOwn
<1>3. ~active[p] /\ reading[p] = NoAcceptor /\ nextsym[p] = NoPlace
  <2>1. \A x \in Makes[left[1]] : Unused(x)
    BY <1>1 DEF InputInv, FreshInv
  <2> QED BY <1>2, <2>1 DEF Unused
<1>4. /\ \/ registered' = registered \cup {p} /\ active' = [active EXCEPT ![p] = TRUE]
         \/ UNCHANGED <<registered, active>>
      /\ UNCHANGED <<reading, position, nextsym, channel, accessed, error, stuck, files, links>>
  BY DEF OpenRegisters, api
<1> HIDE DEF p
<1>5. active' \in [Iports -> BOOLEAN]
  BY <1>4, Zenon DEF InputInv, PortShapes
<1>6. PortShapes' /\ LinksExact'
  BY <1>4, <1>5 DEF InputInv, PortShapes, LinksExact, files
<1>7. ASSUME NEW q \in Iports PROVE PortOK(q)'
  <2>0. PortOK(q)
    BY DEF InputInv
  <2>1. accessed'[q] <= LastSegment(q)
    BY <1>4, <2>0 DEF PortOK, ChannelOK
  <2>2. active'[q] => active[q] \/ (q = p /\ p \in registered')
    BY <1>4 DEF InputInv, PortShapes
  <2>3. active[q] => active'[q]
    BY <1>4 DEF InputInv, PortShapes
  <2>4. active'[q] => q \in registered'
    BY <1>4, <2>0, <2>2 DEF PortOK, ReadOK
  <2>5. reading'[q] # NoAcceptor => active'[q] /\ (reading[q] # NoAcceptor \/ nextsym[q] = NoPlace)
    BY <1>4, <2>0, <2>3 DEF PortOK, ReadOK
  <2>6. active'[q] /\ reading'[q] = NoAcceptor => nextsym[q] = NoPlace
    BY <1>3, <1>4, <2>0, <2>2 DEF PortOK, ReadOK
  <2> QED BY <1>4, <2>0, <2>1, <2>4, <2>5, <2>6, PortFrame DEF files
<1> QED BY <1>6, <1>7

\* ... iports that are closed, when the thread is let go or by a collection, and a segment
\* that a walker has come to.
LEMMA ClosingKeeps ==
  ASSUME InputInv,
         active' \in [Iports -> BOOLEAN], \A q \in Iports : active'[q] => active[q],
         \A q \in links : active'[q],
         accessed' \in [Iports -> Nat], \A q \in Iports : accessed'[q] <= LastSegment(q),
         UNCHANGED <<reading, position, nextsym, channel, error, stuck, files, registered, links>>
  PROVE  PortShapes' /\ (\A q \in Iports : PortOK(q)') /\ LinksExact'
<1>1. PortShapes' /\ LinksExact'
  BY DEF InputInv, PortShapes, LinksExact, files
<1>2. ASSUME NEW q \in Iports PROVE PortOK(q)'
  <2>0. PortOK(q)
    BY DEF InputInv
  <2>1. active'[q] => q \in registered'
    BY <2>0 DEF PortOK, ReadOK
  <2>2. reading'[q] # NoAcceptor => active'[q] /\ (reading[q] # NoAcceptor \/ nextsym[q] = NoPlace)
    BY <2>0 DEF InputInv, LinksExact
  <2>3. active'[q] /\ reading'[q] = NoAcceptor => nextsym[q] = NoPlace
    BY <2>0 DEF PortOK, ReadOK
  <2> QED BY <2>0, <2>1, <2>2, <2>3, PortFrame DEF files
<1> QED BY <1>1, <1>2

\* A turn at one iport leaves all of them in order.
LEMMA ReaderKeeps ==
  ASSUME InputInv, NEW p \in Iports, ReaderTurn(p) \/ ReaderCloses(p)
  PROVE  PortShapes' /\ (\A q \in Iports : PortOK(q)') /\ LinksExact'
<1>1. TurnKinds(p) /\ PortOK(p) /\ PortShapes /\ OtherShapes /\ LinksExact
  BY TurnIsOfKind DEF InputInv
<1>2. registered' = registered \/ (registered' = registered \ {p} /\ ~active[p] /\ UNCHANGED <<port, files, links>>)
  BY DEF ReaderTurn, ReaderCloses, Unregister, procs
<1>3. active'[p] => p \in registered'
  <2>1. active'[p] => active[p]
    BY <1>1 DEF TurnKinds, Ends, GivesUp, Knows, KnowsEof, Decodes, FindsEof, FedBy, Accepts, AcceptorAccepts,
                Refills, GoesToNext, port, PortShapes
  <2> QED BY <1>1, <1>2, <2>1 DEF PortOK, ReadOK
<1>4. PortShapes' /\ PortOK(p)' /\ LinksExact'
  BY <1>1, <1>3, TurnKeeps
<1>5. ASSUME NEW q \in Iports, q # p PROVE PortOK(q)'
  <2>1. PortOK(q)
    BY DEF InputInv
  <2>2. /\ active'[q] = active[q] /\ reading'[q] = reading[q] /\ position'[q] = position[q]
        /\ nextsym'[q] = nextsym[q] /\ channel'[q] = channel[q] /\ accessed'[q] = accessed[q]
        /\ stuck'[q] = stuck[q] /\ offset'[q] = offset[q] /\ buffered'[q] = buffered[q]
        /\ data' = data
    BY <1>1, <1>5, TurnElsewhere DEF PortOK
  <2>3. q \in registered' <=> q \in registered
    BY <1>2, <1>5
  <2>4. accessed'[q] <= LastSegment(q) /\ (active'[q] => q \in registered')
    BY <2>1, <2>2, <2>3 DEF PortOK, ChannelOK, ReadOK
  <2>5. reading'[q] # NoAcceptor => active'[q] /\ (reading[q] # NoAcceptor \/ nextsym[q] = NoPlace)
    BY <2>1, <2>2 DEF PortOK, ReadOK
  <2>6. active'[q] /\ reading'[q] = NoAcceptor => nextsym[q] = NoPlace
    BY <2>1, <2>2 DEF PortOK, ReadOK
  <2> QED BY <2>1, <2>2, <2>4, <2>5, <2>6, PortFrame
<1> QED BY <1>4, <1>5

\* The iports a link leads to are kept.
LEMMA PortsStep ==
  ASSUME InputInv, [InputNext]_vars
  PROVE  PortShapes' /\ (\A q \in Iports : PortOK(q)') /\ LinksExact'
<1>0. PortShapes /\ LinksExact /\ \A q \in Iports : PortOK(q) /\ accessed[q] <= LastSegment(q)
  BY DEF InputInv, PortOK, ChannelOK
<1>1. \A q \in links : active[q]
  BY <1>0 DEF LinksExact, PortOK, ReadOK
<1>2. CASE UNCHANGED <<active, reading, position, nextsym, channel, accessed, error, stuck, files, registered, links>>
  BY <1>0, <1>1, <1>2, ClosingKeeps DEF PortShapes
<1>3. CASE ExecRead
  <2> DEFINE p == Head(left).port
  <2>1. p \in Iports
    BY <1>3 DEF ExecRead
  <2>2. CASE ReadTakes(p)
    BY <1>3, <2>1, <2>2, ReadTakesKeeps
  <2>3. CASE ReadRefused(p) \/ ReadBlocks(p)
    BY <1>2, <1>3, <2>3 DEF ExecRead, ReadRefused, ReadBlocks, procs
  <2> QED BY <1>3, <2>2, <2>3 DEF ExecRead
<1>4. CASE OpenRegisters
  BY <1>4, OpenKeeps
<1>5. CASE ReadThreadsDown
  <2>1. links = {}
    BY <1>5 DEF InputInv, LetGo, Leaving, ReadThreadsDown, CallbacksDone
  <2>2. /\ active' = [p \in Iports |-> active[p] /\ p \notin registered]
        /\ UNCHANGED <<reading, position, nextsym, channel, accessed, error, stuck, files, registered, links>>
    BY <1>5 DEF ReadThreadsDown, api
  <2>3. active' \in [Iports -> BOOLEAN] /\ \A q \in Iports : active'[q] => active[q]
    BY <2>2, Zenon
  <2> QED BY <1>0, <2>1, <2>2, <2>3, ClosingKeeps DEF PortShapes
<1>6. ASSUME NEW p \in Iports, ReaderTurn(p) \/ ReaderCloses(p)
      PROVE  PortShapes' /\ (\A q \in Iports : PortOK(q)') /\ LinksExact'
  BY <1>6, ReaderKeeps
<1>7. ASSUME NEW w \in Walkers, WalkerStep(w)
      PROVE  PortShapes' /\ (\A q \in Iports : PortOK(q)') /\ LinksExact'
  <2>1. /\ UNCHANGED <<active, reading, position, nextsym, channel, error, stuck, files, registered, links>>
        /\ \/ UNCHANGED accessed
           \/ WalkerCrosses(w)
    BY <1>7 DEF WalkerStep, procs, api, WalkerSees, WalkerFails, WalkerBlocks, WalkerSpins
  <2>2. CASE UNCHANGED accessed
    BY <1>2, <2>1, <2>2
  <2>3. CASE WalkerCrosses(w)
    <3> DEFINE p == walk[w].port
               n == walk[w].at.seg
    <3>1. walk[w] # NoWalk /\ WalkOK(w)
      BY <2>3 DEF InputInv, WalkerCrosses, NoWalk
    <3>2. p \in Iports /\ n \in Nat /\ LastSegment(p) \in Nat
      BY <1>0, <3>1, ChannelTyped DEF WalkOK, PlacesOf, PortOK
    <3>3. n + 1 <= LastSegment(p) /\ n + 1 \in Nat
      BY <2>3, <3>2 DEF WalkerCrosses
    <3>4. accessed' = [accessed EXCEPT ![p] = IF @ = n THEN n + 1 ELSE @]
      BY <2>3 DEF WalkerCrosses
    <3> HIDE DEF p, n
    <3>5. accessed' \in [Iports -> Nat]
      BY <1>0, <3>2, <3>3, <3>4 DEF PortShapes
    <3>6. \A q \in Iports : accessed'[q] <= LastSegment(q)
      BY <1>0, <3>2, <3>3, <3>4 DEF PortShapes
    <3> QED BY <1>0, <1>1, <2>1, <3>5, <3>6, ClosingKeeps DEF PortShapes
  <2> QED BY <2>1, <2>2, <2>3
<1>8. CASE CollectionSucceeds
  <2>1. UNCHANGED <<reading, position, nextsym, channel, error, stuck, files, registered, links>>
    BY <1>8 DEF CollectionSucceeds, procs, api
  <2>2. PICK kept \in SUBSET Iports :
          /\ Reached \subseteq kept
          /\ active' = [p \in Iports |-> active[p] /\ (p \in kept \/ p \notin registered)]
    BY <1>8 DEF CollectionSucceeds
  <2>3. PICK forgotten \in SUBSET registered :
          accessed' = [p \in Iports |-> IF p \in forgotten THEN 0 ELSE accessed[p]]
    BY <1>8 DEF CollectionSucceeds
  <2>4. links \subseteq kept
    BY <1>0, <2>2 DEF Reached, PortShapes
  <2>5. active' \in [Iports -> BOOLEAN] /\ \A q \in Iports : active'[q] => active[q]
    BY <2>2, Zenon
  <2>6. \A q \in links : active'[q]
    BY <1>0, <1>1, <2>2, <2>4 DEF PortShapes
  <2>7. accessed' \in [Iports -> Nat]
    BY <1>0, <2>3 DEF PortShapes
  <2>8. \A q \in Iports : accessed'[q] <= LastSegment(q)
    <3>1. \A q \in Iports : LastSegment(q) \in Nat
      BY <1>0, ChannelTyped DEF PortOK
    <3> QED BY <1>0, <2>3, <3>1
  <2> QED BY <2>1, <2>5, <2>6, <2>7, <2>8, ClosingKeeps
<1>9. CASE ExecOther /\ UNCHANGED <<port, files, procs, api, walk, ace, exhausted>>
  BY <1>2, <1>9 DEF port, procs, api
<1>10. CASE Open
  BY <1>2, <1>4, <1>10 DEF Open, OpenTakesThread, NameBlocks, NameFails, NameReady, Goes, port, procs, api
<1>11. CASE StatementDone
  BY <1>2, <1>11 DEF StatementDone, port, procs
<1>12. CASE ReaderStep
  BY <1>2, <1>12 DEF ReaderStep, ReaderGivesUp, ReaderGoesOn, ReaderLeaves, port, api
<1>13. CASE AceLeaves \/ CollectionCrashes \/ CollectionFails \/ MemoryFills
  BY <1>2, <1>13 DEF AceLeaves, CollectionCrashes, CollectionFails, MemoryFills, port, procs, api
<1>14. CASE UNCHANGED vars
  BY <1>2, <1>14 DEF vars, port, procs, api
<1>15. CASE MainStep
  BY <1>3, <1>5, <1>9, <1>10, <1>11, <1>15 DEF MainStep
<1>16. CASE Collection \/ Over
  BY <1>8, <1>13, <1>14, <1>16 DEF Collection, Over
<1> QED BY <1>6, <1>7, <1>12, <1>13, <1>14, <1>15, <1>16 DEF InputNext

-----------------------------------------------------------------------------
(* The walkers *)

\* What it takes for a walker to be at a place there is, after a step.
LEMMA WalkOKAt ==
  ASSUME NEW w \in Walkers, NEW p \in Iports, NEW from, NEW place,
         walk'[w].port = p, walk'[w].from = from, walk'[w].at = place, walk'[w].needs # "read",
         from \in PlacesOf(p)', place \in PlacesOf(p)', Valid(p, from)', Valid(p, place)',
         walk'[w].needs = "segment" =>
           place \in Places(p)' /\ (place.at = SegmentRoom \/ place.at = Len(channel'[p][place.seg]) + 1)
  PROVE  WalkOK(w)'
<1>1. from.at <= Len(channel'[p][from.seg]) + 1 /\ place.at <= Len(channel'[p][place.seg]) + 1
  BY DEF Valid
<1>2. Valid(walk[w].port, walk[w].from)' /\ Valid(walk[w].port, walk[w].at)'
  BY <1>1 DEF Valid
<1>3. PlacesOf(walk[w].port)' = PlacesOf(p)' /\ Places(walk[w].port)' = Places(p)'
  BY DEF PlacesOf, Places, HasItem, LastSegment
<1> QED BY <1>2, <1>3 DEF WalkOK

\* A walker that stays where it is, while the channels grow.
LEMMA WalkStays ==
  ASSUME PortShapes, NEW p \in Iports, Grows(p), \A q \in Iports : ChannelOK(q),
         NEW w \in Walkers, WalkOK(w), walk'[w] = walk[w]
  PROVE  WalkOK(w)'
<1>0. PICK q \in Iports : q = walk[w].port
  BY DEF WalkOK
<1>7. PICK from, place : from = walk[w].from /\ place = walk[w].at
  OBVIOUS
<1> DEFINE n == place.seg
           len == Len(channel[q][n])
<1>1. /\ from \in PlacesOf(q) /\ place \in PlacesOf(q)
      /\ Valid(q, from) /\ Valid(q, place)
      /\ walk[w].needs # "read"
  BY <1>0, <1>7 DEF WalkOK
<1>2. /\ LastSegment(q) <= LastSegment(q)'
      /\ \A pl \in PlacesOf(q) : pl \in PlacesOf(q)' /\ (Valid(q, pl) => Valid(q, pl)')
      /\ \A pl \in Places(q) : pl \in Places(q)'
  BY PlacesStay
<1>3. \A pl \in PlacesOf(q) : Valid(q, pl) => pl.at <= Len(channel'[q][pl.seg]) + 1
  BY <1>2 DEF Valid
<1>4. walk[w].needs = "segment" =>
        place \in Places(q)' /\ (place.at = SegmentRoom \/ place.at = Len(channel'[q][n]) + 1)
  <2> SUFFICES ASSUME walk[w].needs = "segment"
               PROVE  place \in Places(q)' /\ (place.at = SegmentRoom \/ place.at = Len(channel'[q][n]) + 1)
    OBVIOUS
  <2>1. place \in Places(q) /\ (place.at = SegmentRoom \/ place.at = Len(channel[q][n]) + 1)
    BY <1>0, <1>7 DEF WalkOK
  <2>2. n \in 1 .. LastSegment(q) /\ place.at \in 1 .. SegmentRoom
    BY <1>1 DEF PlacesOf
  <2>3. CASE place.at = SegmentRoom
    BY <1>2, <2>1, <2>3
  <2>4. CASE place.at = Len(channel[q][n]) + 1
    <3>1. n < LastSegment(q)
      <4>1. HasItem(q, place)
        BY <2>1 DEF Places
      <4>2. \A k \in 1 .. LastSegment(q) : Len(channel[q][k]) \in 0 .. SegmentRoom
        BY ChannelTyped
      <4>3. LastSegment(q) \in Nat /\ len \in 0 .. SegmentRoom
        BY <2>2, <4>2, ChannelTyped
      <4>4. place.at <= len + (IF len < SegmentRoom /\ n < LastSegment(q) THEN 1 ELSE 0)
        BY <4>1 DEF HasItem
      <4>5. place.at = len + 1
        BY <2>4
      <4> HIDE DEF len, n
      <4> QED BY <2>2, <4>3, <4>4, <4>5
    <3>2. Len(channel'[q][n]) = Len(channel[q][n])
      <4>1. CASE q = p
        BY <2>2, <3>1, <4>1, Growth
      <4>2. CASE q # p
        BY <4>2, Growth
      <4> QED BY <4>1, <4>2
    <3> QED BY <1>2, <2>1, <2>4, <3>2
  <2> QED BY <2>1, <2>3, <2>4
<1>5. walk'[w].port = q /\ walk'[w].at = place /\ walk'[w].from = from /\ walk'[w].needs = walk[w].needs
  BY <1>0, <1>7
<1>6. from \in PlacesOf(q)' /\ place \in PlacesOf(q)' /\ Valid(q, from)' /\ Valid(q, place)'
  BY <1>1, <1>2
<1> QED BY <1>1, <1>4, <1>5, <1>6, WalkOKAt

\* Where a walker is that waits for a symbol.
LEMMA WalkerAt ==
  ASSUME InputInv, NEW w \in Walkers, walk[w] # NoWalk
  PROVE  LET p == walk[w].port  place == walk[w].at  len == Len(channel[p][place.seg]) IN
           /\ WalkOK(w) /\ p \in Iports /\ place \in PlacesOf(p) /\ walk[w] \in Walk
           /\ LastSegment(p) \in Nat \ {0} /\ SegmentRoom \in Nat \ {0}
           /\ place.seg \in 1 .. LastSegment(p) /\ place.at \in 1 .. SegmentRoom
           /\ place = [seg |-> place.seg, at |-> place.at]
           /\ channel[p][place.seg] \in Seq(Symbols) /\ len \in 0 .. SegmentRoom /\ place.at <= len + 1
           /\ PortOK(p) /\ PortShapes
<1> DEFINE p == walk[w].port
           place == walk[w].at
           len == Len(channel[p][place.seg])
<1>1. WalkOK(w) /\ walk[w] \in Walk /\ PortShapes
  BY DEF InputInv, OtherShapes
<1>2. p \in Iports /\ place \in PlacesOf(p) /\ Valid(p, place) /\ PortOK(p)
  BY <1>1 DEF WalkOK, InputInv
<1>3. place.seg \in 1 .. LastSegment(p) /\ place.at \in 1 .. SegmentRoom /\ place = [seg |-> place.seg, at |-> place.at]
  BY <1>2 DEF PlacesOf
<1>4. /\ LastSegment(p) \in Nat \ {0} /\ SegmentRoom \in Nat \ {0}
      /\ channel[p][place.seg] \in Seq(Symbols) /\ len \in 0 .. SegmentRoom
  BY <1>1, <1>2, <1>3, ChannelTyped DEF PortOK
<1>5. place.at <= len + 1
  BY <1>2 DEF Valid
<1> HIDE DEF p, place, len
<1> QED BY <1>1, <1>2, <1>3, <1>4, <1>5 DEF p, place, len

\* The symbol or the end of file that a walker sees is an item of the channel.
LEMMA SeesItem ==
  ASSUME InputInv, NEW w \in Walkers, walk[w] # NoWalk,
         LET len == Len(Here(w)) IN
           walk[w].at.at <= len \/ (walk[w].at.at > len /\ walk[w].at.seg < LastSegment(walk[w].port))
  PROVE  walk[w].at \in Places(walk[w].port)
<1> DEFINE p == walk[w].port
           place == walk[w].at
           len == Len(channel[p][place.seg])
<1>1. /\ place \in PlacesOf(p) /\ LastSegment(p) \in Nat /\ SegmentRoom \in Nat /\ place.seg \in 1 .. LastSegment(p)
      /\ place.at \in 1 .. SegmentRoom /\ len \in 0 .. SegmentRoom /\ place.at <= len + 1
  BY WalkerAt
<1>2. place.at <= len \/ (place.at > len /\ place.seg < LastSegment(p))
  BY DEF Here
<1> HIDE DEF p, place, len
<1>3. place.at <= len + (IF len < SegmentRoom /\ place.seg < LastSegment(p) THEN 1 ELSE 0)
  BY <1>1, <1>2
<1>4. HasItem(p, place)
  BY <1>3 DEF HasItem, len
<1> QED BY <1>1, <1>4 DEF Places, p, place

\* A walker that goes on is at a place there is, at the last item if it needs a segment.
LEMMA ContinueOK ==
  ASSUME InputInv, NEW w \in Walkers, walk[w] # NoWalk, NEW item \in Symbols \cup {Eof},
         walk[w].at \in Places(walk[w].port),
         UNCHANGED channel, walk' = [walk EXCEPT ![w] = Continue(w, item)]
  PROVE  WalkOK(w)' /\ Continue(w, item) \in Walk
<1>0. PICK p, place, from, len, new :
        p = walk[w].port /\ place = walk[w].at /\ from = walk[w].from /\ len = Len(Here(w)) /\ new = Continue(w, item)
  OBVIOUS
<1> DEFINE need == NextNeed(place, Here(w))
<1>1. /\ p \in Iports /\ place \in PlacesOf(p) /\ walk[w] \in Walk
      /\ LastSegment(p) \in Nat /\ SegmentRoom \in Nat /\ place.seg \in 1 .. LastSegment(p)
      /\ place.at \in 1 .. SegmentRoom /\ len \in 0 .. SegmentRoom /\ place.at <= len + 1
      /\ place = [seg |-> place.seg, at |-> place.at]
      /\ WalkOK(w)
  BY <1>0, WalkerAt DEF Here
<1>2. /\ new.port = p /\ new.from = from
      /\ new.needs = (IF walk[w].togo = 1 THEN "nothing" ELSE need)
      /\ new.at = [seg |-> place.seg, at |-> IF walk[w].togo = 1 \/ need = "segment" THEN place.at ELSE place.at + 1]
      /\ new.togo = walk[w].togo - 1 /\ new.seen = Append(walk[w].seen, item) /\ new.asked = walk[w].asked
      /\ new = [port |-> new.port, from |-> new.from, at |-> new.at, needs |-> new.needs,
                togo |-> new.togo, seen |-> new.seen, asked |-> new.asked]
  <2>1. PICK x : x = walk[w]
    OBVIOUS
  <2>2. x = [port |-> x.port, from |-> x.from, at |-> x.at, needs |-> x.needs,
             togo |-> x.togo, seen |-> x.seen, asked |-> x.asked]
    BY <1>1, <2>1 DEF Walk
  <2>3. /\ x.at = place /\ x.from = from /\ x.port = p
        /\ new = [x EXCEPT !.seen = Append(@, item), !.togo = @ - 1,
                           !.needs = IF x.togo = 1 THEN "nothing" ELSE need,
                           !.at.at = IF x.togo = 1 \/ need = "segment" THEN @ ELSE @ + 1]
    BY <1>0, <2>1 DEF Continue
  <2> HIDE DEF need
  <2>4. [x.at EXCEPT !.at = IF x.togo = 1 \/ need = "segment" THEN @ ELSE @ + 1]
          = [seg |-> place.seg, at |-> IF x.togo = 1 \/ need = "segment" THEN place.at ELSE place.at + 1]
    BY <1>1, <2>3
  <2>5. /\ new.port = x.port /\ new.from = x.from /\ new.needs = (IF x.togo = 1 THEN "nothing" ELSE need)
        /\ new.at = [x.at EXCEPT !.at = IF x.togo = 1 \/ need = "segment" THEN @ ELSE @ + 1]
        /\ new.togo = x.togo - 1 /\ new.seen = Append(x.seen, item) /\ new.asked = x.asked
        /\ new = [port |-> new.port, from |-> new.from, at |-> new.at, needs |-> new.needs,
                  togo |-> new.togo, seen |-> new.seen, asked |-> new.asked]
    BY <2>2, <2>3
  <2> QED BY <2>1, <2>3, <2>4, <2>5
<1>3. need \in {"symbol", "segment"} /\ (need = "segment" <=> place.at = len + 1 \/ place.at = SegmentRoom)
  BY <1>0 DEF NextNeed
<1>4. new.seen \in Seq(Symbols \cup {Eof}) /\ new.togo \in Int
  BY <1>1, <1>2, AppendProperties DEF Walk
<1> HIDE DEF need
<1>5. new.at \in PlacesOf(p) /\ new.at.at <= len + 1 /\ new.at.seg = place.seg
  <2>1. CASE walk[w].togo = 1 \/ need = "segment"
    BY <1>1, <1>2, <2>1
  <2>2. CASE ~(walk[w].togo = 1 \/ need = "segment")
    <3>1. place.at + 1 \in 1 .. SegmentRoom /\ place.at + 1 <= len + 1
      BY <1>1, <1>3, <2>2
    <3> QED BY <1>1, <1>2, <2>2, <3>1 DEF PlacesOf
  <2> QED BY <2>1, <2>2
<1>6. new \in Walk
  <2>1. from \in Place /\ new.asked \in BOOLEAN
    BY <1>0, <1>1, <1>2 DEF Walk
  <2>2. new.at \in Place
    BY <1>1, <1>5 DEF PlacesOf, Place
  <2>3. new.needs \in {"read", "symbol", "segment", "nothing", "failed"} /\ new.port \in Iports \cup {"none"}
    BY <1>1, <1>2, <1>3
  <2> QED BY <1>2, <1>4, <2>1, <2>2, <2>3 DEF Walk
<1>7. walk'[w] = new
  BY <1>0 DEF InputInv, OtherShapes
<1>8. channel'[p] = channel[p] /\ PlacesOf(p)' = PlacesOf(p) /\ Places(p)' = Places(p)
        /\ \A pl : Valid(p, pl)' <=> Valid(p, pl)
  BY <1>1, PlacesSame
<1>9. from \in PlacesOf(p) /\ Valid(p, from) /\ place \in Places(p)
  BY <1>0, <1>1 DEF WalkOK
<1>10. Len(channel[p][place.seg]) = len
  BY <1>0 DEF Here
<1>11. Valid(p, new.at)
  BY <1>5, <1>10 DEF Valid
<1>12. WalkOK(w)'
  <2>1. new.needs # "read"
    BY <1>2, <1>3
  <2>2. new.needs = "segment" => new.at = place /\ (place.at = SegmentRoom \/ place.at = len + 1)
    BY <1>1, <1>2, <1>3
  <2> QED BY <1>1, <1>2, <1>5, <1>7, <1>8, <1>9, <1>10, <1>11, <2>1, <2>2, WalkOKAt
<1> QED BY <1>0, <1>6, <1>12

\* A step of a walker leaves it at a place there is.
LEMMA WalkerKeeps ==
  ASSUME InputInv, NEW w \in Walkers, WalkerStep(w)
  PROVE  WalkOK(w)' /\ walk' \in [Walkers -> Walk] /\ \A v \in Walkers : v # w => walk'[v] = walk[v]
<1>0. PICK p, place, from, len :
        p = walk[w].port /\ place = walk[w].at /\ from = walk[w].from /\ len = Len(Here(w))
  OBVIOUS
<1>1. walk \in [Walkers -> Walk] /\ channel' = channel /\ walk[w] # NoWalk
  BY DEF InputInv, OtherShapes, WalkerStep, NoWalk
<1>2. /\ WalkOK(w) /\ p \in Iports /\ place \in PlacesOf(p) /\ walk[w] \in Walk
      /\ LastSegment(p) \in Nat /\ SegmentRoom \in Nat \ {0} /\ place.seg \in 1 .. LastSegment(p)
      /\ place.at \in 1 .. SegmentRoom /\ len \in 0 .. SegmentRoom /\ place.at <= len + 1
      /\ channel[p][place.seg] \in Seq(Symbols) /\ PortOK(p) /\ PortShapes
  BY <1>0, <1>1, WalkerAt DEF Here
<1>3. /\ LastSegment(p)' = LastSegment(p) /\ PlacesOf(p)' = PlacesOf(p) /\ Places(p)' = Places(p)
      /\ \A pl : Valid(p, pl)' <=> Valid(p, pl)
  BY <1>1, <1>2, PlacesSame
<1>10. from \in PlacesOf(p) /\ Valid(p, from) /\ Valid(p, place)
  BY <1>0, <1>2 DEF WalkOK
<1>4. ASSUME NEW new \in Walk, walk' = [walk EXCEPT ![w] = new], WalkOK(w)'
      PROVE  WalkOK(w)' /\ walk' \in [Walkers -> Walk] /\ \A v \in Walkers : v # w => walk'[v] = walk[v]
  BY <1>1, <1>4
<1>5. CASE WalkerSees(w)
  <2>1. PICK item \in Symbols \cup {Eof} :
          walk' = [walk EXCEPT ![w] = Continue(w, item)] /\ place \in Places(p)
    <3>1. CASE place.at <= len /\ walk' = [walk EXCEPT ![w] = Continue(w, Here(w)[place.at])]
      <4>1. Here(w)[place.at] \in Symbols
        BY <1>0, <1>2, <3>1, ElementOfSeq DEF Here
      <4>2. place \in Places(p)
        BY <1>0, <1>1, <3>1, SeesItem
      <4> QED BY <3>1, <4>1, <4>2
    <3>2. CASE place.at > len /\ place.seg < LastSegment(p) /\ walk' = [walk EXCEPT ![w] = Continue(w, Eof)]
      BY <1>0, <1>1, <3>2, SeesItem
    <3> QED BY <1>0, <1>5, <3>1, <3>2 DEF WalkerSees
  <2>2. WalkOK(w)' /\ Continue(w, item) \in Walk
    BY <1>0, <1>1, <2>1, ContinueOK
  <2> QED BY <1>4, <2>1, <2>2
<1>6. CASE WalkerFails(w)
  <2> DEFINE new == [walk[w] EXCEPT !.needs = "failed"]
  <2>1. walk' = [walk EXCEPT ![w] = new]
    BY <1>6 DEF WalkerFails
  <2>2. new \in Walk /\ new.port = p /\ new.at = place /\ new.from = from /\ new.needs = "failed"
    BY <1>0, <1>2 DEF Walk
  <2> HIDE DEF new
  <2>3. walk'[w] = new
    BY <1>1, <2>1
  <2>4. WalkOK(w)'
    <3>1. new.needs # "read" /\ (new.needs = "segment" => walk[w].needs = "segment")
      BY <1>2, <2>2 DEF WalkOK
    <3>2. walk[w].needs = "segment" =>
            place \in Places(p)' /\ (place.at = SegmentRoom \/ place.at = Len(channel'[p][place.seg]) + 1)
      BY <1>0, <1>1, <1>2, <1>3 DEF WalkOK
    <3> QED BY <1>2, <1>3, <1>10, <2>2, <2>3, <3>1, <3>2, WalkOKAt
  <2> QED BY <1>4, <2>1, <2>2, <2>4
<1>7. CASE WalkerCrosses(w)
  <2> DEFINE n == place.seg
             new == [walk[w] EXCEPT !.at = [seg |-> n + 1, at |-> 1], !.needs = "symbol", !.asked = FALSE]
  <2>1. walk' = [walk EXCEPT ![w] = new] /\ n < LastSegment(p)
    BY <1>0, <1>1, <1>7 DEF WalkerCrosses
  <2>2. [seg |-> n + 1, at |-> 1] \in PlacesOf(p)
    BY <1>2, <2>1 DEF PlacesOf
  <2>3. Valid(p, [seg |-> n + 1, at |-> 1])
    <3>1. n + 1 \in 1 .. LastSegment(p)
      BY <1>2, <2>1
    <3>3. \A k \in 1 .. LastSegment(p) : Len(channel[p][k]) \in 0 .. SegmentRoom
      BY <1>2, ChannelTyped DEF PortOK
    <3>2. Len(channel[p][n + 1]) \in Nat
      BY <1>2, <3>1, <3>3
    <3> QED BY <3>2 DEF Valid
  <2>4. /\ new \in Walk /\ new.port = p /\ new.at = [seg |-> n + 1, at |-> 1] /\ new.from = from
        /\ new.needs = "symbol"
    <3>1. [seg |-> n + 1, at |-> 1] \in Place
      BY <1>2 DEF Place
    <3> QED BY <1>0, <1>2, <3>1 DEF Walk
  <2> HIDE DEF new, n
  <2>5. walk'[w] = new
    BY <1>1, <2>1
  <2>6. WalkOK(w)'
    BY <1>2, <1>3, <1>10, <2>2, <2>3, <2>4, <2>5, WalkOKAt
  <2> QED BY <1>4, <2>1, <2>4, <2>6
<1>8. CASE WalkerBlocks(w)
  <2> DEFINE new == [walk[w] EXCEPT !.asked = TRUE]
  <2>1. walk' = [walk EXCEPT ![w] = new]
    BY <1>8 DEF WalkerBlocks
  <2>2. new \in Walk /\ new.port = p /\ new.at = place /\ new.from = from /\ new.needs = walk[w].needs
    BY <1>0, <1>2 DEF Walk
  <2> HIDE DEF new
  <2>3. walk'[w] = new
    BY <1>1, <2>1
  <2>4. WalkOK(w)'
    <3>1. new.needs # "read" /\ (new.needs = "segment" => walk[w].needs = "segment")
      BY <1>2, <2>2 DEF WalkOK
    <3>2. walk[w].needs = "segment" =>
            place \in Places(p)' /\ (place.at = SegmentRoom \/ place.at = Len(channel'[p][place.seg]) + 1)
      BY <1>0, <1>1, <1>2, <1>3 DEF WalkOK
    <3> QED BY <1>2, <1>3, <1>10, <2>2, <2>3, <3>1, <3>2, WalkOKAt
  <2> QED BY <1>4, <2>1, <2>2, <2>4
<1>9. CASE WalkerSpins(w)
  <2>1. walk' = walk
    BY <1>9 DEF WalkerSpins
  <2>2. WalkOK(w)'
    <3>1. walk[w].needs # "read"
      BY <1>2 DEF WalkOK
    <3>2. walk[w].needs = "segment" =>
            place \in Places(p)' /\ (place.at = SegmentRoom \/ place.at = Len(channel'[p][place.seg]) + 1)
      BY <1>0, <1>1, <1>2, <1>3 DEF WalkOK
    <3> QED BY <1>0, <1>2, <1>3, <1>10, <2>1, <3>1, <3>2, WalkOKAt
  <2> QED BY <1>1, <2>1, <2>2
<1> QED BY <1>5, <1>6, <1>7, <1>8, <1>9 DEF WalkerStep

-----------------------------------------------------------------------------
(* All steps: the other variables *)

\* No turn changes the file.
LEMMA TurnKeepsData ==
  ASSUME NEW p \in Iports, TurnKinds(p)
  PROVE  data' = data
BY DEF TurnKinds, Ends, GivesUp, Knows, KnowsEof, Decodes, FindsEof, FedBy, Accepts, AcceptorAccepts, Refills, GoesToNext, files

\* The walk that comes with a read.
LEMMA FreshWalk ==
  ASSUME InputInv, ExecRead, NEW p \in Iports, p = Head(left).port, ReadTakes(p)
  PROVE  LET s == Head(left)
             new == [NoWalk EXCEPT !.port = p, !.from = position[p], !.at = position[p],
                                   !.needs = "symbol", !.togo = s.walk] IN
           /\ s \in Statements /\ s.op = "read" /\ s.walker \in Walkers /\ s = left[1] /\ 1 \in 1 .. Len(left)
           /\ walk' = [walk EXCEPT ![s.walker] = new]
           /\ new \in Walk
           /\ new = [port |-> p, from |-> position[p], at |-> position[p], needs |-> "symbol",
                     togo |-> s.walk, seen |-> <<>>, asked |-> FALSE]
<1> DEFINE s == Head(left)
           new == [NoWalk EXCEPT !.port = p, !.from = position[p], !.at = position[p],
                                 !.needs = "symbol", !.togo = s.walk]
<1>1. s \in Statements /\ s.op = "read" /\ s = left[1] /\ 1 \in 1 .. Len(left)
  BY HeadTyped DEF InputInv, ExecRead, InStatement
<1>2. s.walker \in Walkers /\ s.walk \in Nat
  BY <1>1, StatementsTyped
<1>3. position[p] \in Place /\ <<>> \in Seq(Symbols \cup {Eof})
  BY EmptySeq DEF InputInv, PortShapes
<1>4. new = [port |-> p, from |-> position[p], at |-> position[p], needs |-> "symbol",
             togo |-> s.walk, seen |-> <<>>, asked |-> FALSE]
  <2>1. PICK no : no = NoWalk
    OBVIOUS
  <2>2. PICK idle : idle = FALSE
    OBVIOUS
  <2>3. no = [port |-> "none", from |-> NoPlace, at |-> NoPlace, needs |-> "read", togo |-> 0, seen |-> <<>>, asked |-> idle]
    BY <2>1, <2>2, Zenon DEF NoWalk
  <2>4. PICK x : x = [no EXCEPT !.port = p, !.from = position[p], !.at = position[p], !.needs = "symbol", !.togo = s.walk]
    OBVIOUS
  <2>5. no = [port |-> no.port, from |-> no.from, at |-> no.at, needs |-> no.needs, togo |-> no.togo,
              seen |-> no.seen, asked |-> no.asked]
    BY <2>3
  <2>6. /\ x.port = p /\ x.from = position[p] /\ x.at = position[p] /\ x.needs = "symbol" /\ x.togo = s.walk
        /\ x.seen = no.seen /\ x.asked = no.asked
        /\ x = [port |-> x.port, from |-> x.from, at |-> x.at, needs |-> x.needs, togo |-> x.togo,
                seen |-> x.seen, asked |-> x.asked]
    BY <2>4, <2>5
  <2>7. no.seen = <<>> /\ no.asked = idle
    BY <2>3
  <2>8. x = [port |-> p, from |-> position[p], at |-> position[p], needs |-> "symbol", togo |-> s.walk,
             seen |-> <<>>, asked |-> idle]
    BY <2>6, <2>7
  <2> QED BY <2>1, <2>2, <2>4, <2>8, Zenon
<1>5. new \in Walk
  <2>1. \A place \in Place, n \in Int :
          [port |-> p, from |-> place, at |-> place, needs |-> "symbol", togo |-> n, seen |-> <<>>, asked |-> FALSE] \in Walk
    BY <1>3 DEF Walk
  <2> QED BY <1>2, <1>3, <1>4, <2>1
<1>6. walk' = [walk EXCEPT ![s.walker] = new]
  BY DEF ReadTakes
<1> QED BY <1>1, <1>2, <1>4, <1>5, <1>6

\* The variables outside of the iports keep their types.
LEMMA OthersStep ==
  ASSUME InputInv, [InputNext]_vars
  PROVE  OtherShapes'
<1> USE DEF OtherShapes
<1>0. OtherShapes /\ IsFiniteSet(Iports) /\ PortShapes
  BY IportsFinite DEF InputInv
<1>1. CASE UNCHANGED <<data, registered, reader, told, refcount, waiting, blocker, walk, ace, exhausted>>
  BY <1>0, <1>1
<1>2. CASE ExecRead
  <2>1. UNCHANGED <<data, registered, reader, told, refcount, ace, exhausted>>
    BY <1>2 DEF ExecRead, files, procs
  <2>2. PICK p \in Iports : p = Head(left).port /\ (ReadRefused(p) \/ ReadTakes(p) \/ ReadBlocks(p))
    BY <1>2 DEF ExecRead
  <2>3. waiting' \in [Iports -> BOOLEAN]
    BY <1>0, <2>2, Zenon DEF ReadRefused, ReadTakes, ReadBlocks
  <2>4. blocker' \in {"none", "fresh", "queued"}
    BY <1>0, <2>2 DEF ReadRefused, ReadTakes, ReadBlocks
  <2>5. walk' \in [Walkers -> Walk]
    <3>1. CASE ReadTakes(p)
      <4>1. \E v \in Walkers, new \in Walk : walk' = [walk EXCEPT ![v] = new]
        BY <1>2, <2>2, <3>1, FreshWalk
      <4> QED BY <1>0, <4>1
    <3>2. CASE ReadRefused(p) \/ ReadBlocks(p)
      BY <1>0, <3>2 DEF ReadRefused, ReadBlocks
    <3> QED BY <2>2, <3>1, <3>2
  <2> QED BY <1>0, <2>1, <2>3, <2>4, <2>5
<1>3. CASE OpenRegisters
  <2>1. UNCHANGED <<data, reader, told, refcount, waiting, blocker, walk, ace, exhausted>>
    BY <1>3 DEF OpenRegisters, files, api
  <2>2. registered' \subseteq Iports /\ Cardinality(registered') <= Slots
    <3>1. CASE UNCHANGED registered
      BY <1>0, <3>1
    <3>2. CASE registered' # registered
      <4> DEFINE p == Head(left).port
      <4>1. Head(left) \in Statements /\ Head(left).op = "open"
        BY <1>3, HeadTyped DEF InputInv, OpenRegisters, InStatement, ThreadInv
      <4>2. p \in Iports
        BY <4>1, StatementsTyped
      <4>3. registered' = registered \cup {p} /\ Cardinality(registered) < Slots
        BY <1>3, <3>2 DEF OpenRegisters
      <4>4. IsFiniteSet(registered)
        BY <1>0, FS_Subset
      <4>5. Cardinality(registered') = Cardinality(registered) \/ Cardinality(registered') = Cardinality(registered) + 1
        BY <4>3, <4>4, FS_AddElement
      <4>6. Cardinality(registered) \in Nat
        BY <4>4, FS_CardinalityType
      <4> QED BY <1>0, <4>2, <4>3, <4>5, <4>6, RoomForInput
    <3> QED BY <3>1, <3>2
  <2> QED BY <1>0, <2>1, <2>2
<1>4. CASE ReadThreadsDown
  <2>1. refcount = 1
    BY <1>4 DEF InputInv, RefcountRight, ReadThreadsDown, CallbacksDone
  <2> QED BY <1>0, <1>4, <2>1 DEF ReadThreadsDown, files, api
<1>5. ASSUME NEW p \in Iports, ReaderTurn(p) \/ ReaderCloses(p) PROVE OtherShapes'
  <2>1. TurnKinds(p)
    BY <1>5, TurnIsOfKind DEF InputInv
  <2>2. data' = data
    BY <2>1, TurnKeepsData
  <2>3. UNCHANGED <<reader, told, refcount, waiting, blocker, walk, ace, exhausted>>
    BY <1>5 DEF ReaderTurn, ReaderCloses, procs
  <2>4. registered' \subseteq registered
    BY <1>5 DEF ReaderTurn, ReaderCloses, procs, Unregister
  <2>5. IsFiniteSet(registered) /\ IsFiniteSet(registered')
    BY <1>0, <2>4, FS_Subset
  <2>6. Cardinality(registered') <= Cardinality(registered)
    BY <2>4, <2>5, FS_Subset
  <2>7. Cardinality(registered') \in Nat /\ Cardinality(registered) \in Nat
    BY <2>5, FS_CardinalityType
  <2>8. registered' \subseteq Iports /\ Cardinality(registered') <= Slots
    BY <1>0, <2>4, <2>6, <2>7, RoomForInput
  <2> QED BY <1>0, <2>2, <2>3, <2>8
<1>6. ASSUME NEW w \in Walkers, WalkerStep(w) PROVE OtherShapes'
  <2>1. UNCHANGED <<data, registered, reader, told, refcount, waiting, blocker, exhausted>>
    BY <1>6 DEF WalkerStep, files, procs, api
  <2>2. walk' \in [Walkers -> Walk]
    BY <1>6, WalkerKeeps
  <2>3. ace' \in {"serving", "spinning", "gone"}
    BY <1>0, <1>6 DEF WalkerStep, WalkerSees, WalkerFails, WalkerCrosses, WalkerBlocks, WalkerSpins
  <2> QED BY <1>0, <2>1, <2>2, <2>3
<1>7. CASE ReaderStep
  BY <1>0, <1>7 DEF ReaderStep, ReaderGivesUp, ReaderGoesOn, ReaderLeaves, files, api
<1>8. CASE AceLeaves \/ CollectionSucceeds \/ CollectionCrashes \/ CollectionFails \/ MemoryFills
  BY <1>0, <1>8 DEF AceLeaves, CollectionSucceeds, CollectionCrashes, CollectionFails, MemoryFills, files, procs, api
<1>9. CASE Open
  BY <1>1, <1>3, <1>9 DEF Open, OpenTakesThread, NameBlocks, NameFails, NameReady, Goes, files, procs, api
<1>10. CASE StatementDone
  BY <1>0, <1>10 DEF StatementDone, files, procs
<1>11. CASE ExecOther /\ UNCHANGED <<port, files, procs, api, walk, ace, exhausted>>
  BY <1>1, <1>11 DEF files, procs, api
<1>12. CASE UNCHANGED vars
  BY <1>1, <1>12 DEF vars, files, procs, api
<1>13. CASE MainStep
  BY <1>2, <1>4, <1>9, <1>10, <1>11, <1>13 DEF MainStep
<1> QED BY <1>5, <1>6, <1>7, <1>8, <1>12, <1>13 DEF InputNext, Collection, Over

\* Every walker stays in order.
LEMMA WalksStep ==
  ASSUME InputInv, [InputNext]_vars, NEW w \in Walkers
  PROVE  walk'[w] = NoWalk \/ WalkOK(w)'
<1>0. PortShapes /\ OtherShapes /\ (\A q \in Iports : PortOK(q) /\ ChannelOK(q)) /\ (walk[w] = NoWalk \/ WalkOK(w))
  BY DEF InputInv, PortOK
<1>1. ASSUME NEW p \in Iports, Grows(p), walk'[w] = walk[w]
      PROVE  walk'[w] = NoWalk \/ WalkOK(w)'
  BY <1>0, <1>1, WalkStays
<1>2. CASE UNCHANGED <<walk, channel>>
  <2>1. Grows(Stdin)
    BY <1>2 DEF Grows
  <2> QED BY <1>1, <1>2, <2>1, IportsFinite
<1>3. CASE ExecRead
  <2>1. PICK p \in Iports : p = Head(left).port /\ (ReadRefused(p) \/ ReadTakes(p) \/ ReadBlocks(p))
    BY <1>3 DEF ExecRead
  <2>2. CASE ReadRefused(p) \/ ReadBlocks(p)
    BY <1>2, <1>3, <2>2 DEF ExecRead, ReadRefused, ReadBlocks
  <2>3. CASE ReadTakes(p)
    <3> DEFINE s == Head(left)
    <3>1. PICK place : place = position[p]
      OBVIOUS
    <3>2. PICK new \in Walk :
            /\ walk' = [walk EXCEPT ![s.walker] = new] /\ s.walker \in Walkers
            /\ new.port = p /\ new.from = place /\ new.at = place /\ new.needs = "symbol"
      BY <1>3, <2>1, <2>3, <3>1, FreshWalk
    <3>3. place \in PlacesOf(p) /\ Valid(p, place) /\ channel' = channel
      BY <1>0, <1>3, <3>1 DEF ChannelOK, ExecRead
    <3>4. place \in PlacesOf(p)' /\ Valid(p, place)'
      BY <3>3, PlacesSame
    <3>5. CASE w = s.walker
      <4>1. walk'[w] = new
        BY <1>0, <3>2, <3>5 DEF OtherShapes
      <4> QED BY <3>2, <3>4, <4>1, WalkOKAt
    <3>6. CASE w # s.walker
      <4>1. walk'[w] = walk[w]
        BY <1>0, <3>2, <3>6 DEF OtherShapes
      <4>2. Grows(p)
        BY <3>3 DEF Grows
      <4> QED BY <1>1, <4>1, <4>2
    <3> QED BY <3>5, <3>6
  <2> QED BY <2>1, <2>2, <2>3
<1>4. ASSUME NEW p \in Iports, ReaderTurn(p) \/ ReaderCloses(p) PROVE walk'[w] = NoWalk \/ WalkOK(w)'
  <2>1. Grows(p)
    BY <1>0, <1>4, TurnIsOfKind, TurnGrows
  <2>2. walk' = walk
    BY <1>4 DEF ReaderTurn, ReaderCloses
  <2> QED BY <1>1, <2>1, <2>2
<1>5. ASSUME NEW v \in Walkers, WalkerStep(v) PROVE walk'[w] = NoWalk \/ WalkOK(w)'
  <2>1. CASE w = v
    BY <1>5, <2>1, WalkerKeeps
  <2>2. CASE w # v
    <3>1. walk'[w] = walk[w]
      BY <1>5, <2>2, WalkerKeeps
    <3>2. Grows(Stdin)
      BY <1>5 DEF WalkerStep, Grows
    <3> QED BY <1>1, <3>1, <3>2, IportsFinite
  <2> QED BY <2>1, <2>2
<1>6. CASE MainStep
  BY <1>2, <1>3, <1>6 DEF MainStep, Open, OpenTakesThread, NameBlocks, NameFails, NameReady, Goes, OpenRegisters,
     StatementDone, ReadThreadsDown, port
<1>7. CASE ReaderStep
  BY <1>2, <1>7 DEF ReaderStep, ReaderGivesUp, ReaderGoesOn, ReaderLeaves, port
<1>8. CASE AceLeaves \/ CollectionSucceeds \/ CollectionCrashes \/ CollectionFails \/ MemoryFills
  BY <1>2, <1>8 DEF AceLeaves, CollectionSucceeds, CollectionCrashes, CollectionFails, MemoryFills, port
<1>9. CASE UNCHANGED vars
  BY <1>2, <1>9 DEF vars, port
<1> QED BY <1>4, <1>5, <1>6, <1>7, <1>8, <1>9 DEF InputNext, Collection, Over

-----------------------------------------------------------------------------
(* What has not been used *)

\* The only steps that change what is left of the program.
LEMMA LeftChanges ==
  ASSUME InputInv, [InputNext]_vars
  PROVE  \/ UnpackBlock /\ UNCHANGED <<port, walk>>
         \/ PrimSucceeded /\ UNCHANGED <<port, walk>>
         \/ left' = left /\ (main = "success" => main' = "success")
<1>1. CASE MainStep
  <2>1. CASE ExecOther /\ UNCHANGED <<port, files, procs, api, walk, ace, exhausted>>
    <3>1. CASE UnpackBlock
      BY <2>1, <3>1
    <3>2. CASE ~UnpackBlock
      <4>1. left' = left /\ main # "success"
        BY <2>1, <3>2 DEF ExecOther, Evaluated, TakeTurn, Unevaluated, EvaluatesToError, EvaluatesToPrim, EndTurn,
           PrimReturns, PrimBlocked, PrimRefused, LookAtMemory, StillBusy, ThreadEnds, MainExits
      <4> QED BY <4>1
    <3> QED BY <3>1, <3>2
  <2>2. CASE ExecRead
    BY <2>2 DEF ExecRead, ReadRefused, ReadTakes, ReadBlocks, PrimReturns
  <2>3. CASE Open
    BY <2>3 DEF Open, OpenTakesThread, NameBlocks, NameFails, NameReady, Goes, OpenRegisters
  <2>4. CASE StatementDone \/ ReadThreadsDown
    BY <2>4 DEF StatementDone, ReadThreadsDown, CallbacksDone
  <2> QED BY <1>1, <2>1, <2>2, <2>3, <2>4 DEF MainStep
<1>2. CASE ~MainStep
  <2>1. \/ ApiThreadPost \/ UNCHANGED thread
        \/ CollectionCrashes \/ CollectionFails
    BY <1>2, OthersPost
  <2> QED BY <2>1 DEF ApiThreadPost, thread, CollectionCrashes, CollectionFails, EverybodyWaits
<1> QED BY <1>1, <1>2

\* Nothing is used by the wrong statement.
LEMMA UnusedStays ==
  ASSUME InputInv, [InputNext]_vars, NEW x, Unused(x),
         ~(main' = "success" /\ x \in Makes[left[1]] /\ main \in {"prim", "registering"})
  PROVE  Unused(x)'
<1>0. PortShapes /\ OtherShapes /\ \A q \in Iports : PortOK(q)
  BY DEF InputInv
<1>1. CASE UNCHANGED <<active, reading, nextsym, walk>>
  BY <1>1 DEF Unused
<1>2. CASE /\ active' \in [Iports -> BOOLEAN] /\ \A q \in Iports : active'[q] => active[q]
           /\ UNCHANGED <<reading, nextsym, walk>>
  BY <1>2 DEF Unused
<1>3. CASE ExecRead
  <2>1. PICK p \in Iports : p = Head(left).port /\ (ReadRefused(p) \/ ReadTakes(p) \/ ReadBlocks(p))
    BY <1>3 DEF ExecRead
  <2>2. CASE ReadRefused(p) \/ ReadBlocks(p)
    BY <1>1, <1>3, <2>2 DEF ExecRead, ReadRefused, ReadBlocks
  <2>3. CASE ReadTakes(p)
    <3>1. PICK v \in Walkers, new \in Walk : walk' = [walk EXCEPT ![v] = new] /\ v = Head(left).walker
      BY <1>3, <2>1, <2>3, FreshWalk
    <3>2. main = "prim" /\ main' = "success"
      BY <1>3, <2>3 DEF ExecRead, ReadTakes, PrimReturns
    <3>3. v \in Makes[left[1]]
      BY <1>3, <2>1, <2>3, <3>1, FreshWalk, MakesOwn
    <3>4. x # v
      BY <3>2, <3>3
    <3>5. active[p] /\ UNCHANGED <<active, nextsym>> /\ \A q \in Iports : q # p => reading'[q] = reading[q]
      BY <1>0, <1>3, <2>3 DEF ExecRead, ReadTakes, PortShapes
    <3>6. x # p
      BY <3>5 DEF Unused
    <3>7. x \in Walkers => walk'[x] = walk[x]
      BY <1>0, <3>1, <3>4 DEF OtherShapes
    <3> QED BY <3>5, <3>6, <3>7 DEF Unused
  <2> QED BY <2>1, <2>2, <2>3
<1>4. CASE OpenRegisters
  <2> DEFINE p == Head(left).port
  <2>1. /\ Head(left) \in Statements /\ Head(left).op = "open" /\ Head(left) = left[1] /\ main = "registering"
        /\ main' = "success"
    BY <1>4, HeadTyped DEF InputInv, OpenRegisters, InStatement, ThreadInv
  <2>2. p \in Makes[left[1]]
    BY <2>1, StatementsTyped, MakesOwn
  <2>3. x # p
    BY <2>1, <2>2
  <2>4. UNCHANGED <<reading, nextsym, walk>> /\ \A q \in Iports : q # p => active'[q] = active[q]
    BY <1>0, <1>4 DEF OpenRegisters, PortShapes
  <2> QED BY <2>3, <2>4 DEF Unused
<1>5. CASE ReadThreadsDown
  <2>1. /\ active' = [p \in Iports |-> active[p] /\ p \notin registered]
        /\ UNCHANGED <<reading, nextsym, walk>>
    BY <1>5 DEF ReadThreadsDown
  <2>2. active' \in [Iports -> BOOLEAN] /\ \A q \in Iports : active'[q] => active[q]
    BY <2>1, Zenon
  <2> QED BY <1>2, <2>1, <2>2
<1>6. ASSUME NEW p \in Iports, ReaderTurn(p) \/ ReaderCloses(p) PROVE Unused(x)'
  <2>1. TurnKinds(p) /\ walk' = walk
    BY <1>0, <1>6, TurnIsOfKind DEF ReaderTurn, ReaderCloses
  <2>2. CASE x \in Iports /\ x # p
    <3>1. active'[x] = active[x] /\ reading'[x] = reading[x] /\ nextsym'[x] = nextsym[x]
      BY <1>0, <2>1, <2>2, TurnElsewhere DEF PortOK
    <3> QED BY <2>1, <3>1 DEF Unused
  <2>3. CASE x \notin Iports
    BY <2>1, <2>3 DEF Unused
  <2>4. CASE x = p
    <3>1. ~active[p] /\ reading[p] = NoAcceptor
      BY <2>4 DEF Unused
    <3>2. UNCHANGED <<port, walk>>
      BY <1>6, <2>1, <3>1 DEF ReaderTurn, ReaderCloses, Unregister
    <3> QED BY <1>1, <3>2 DEF port
  <2> QED BY <2>2, <2>3, <2>4
<1>7. ASSUME NEW w \in Walkers, WalkerStep(w) PROVE Unused(x)'
  <2>1. walk[w] # NoWalk /\ UNCHANGED <<active, reading, nextsym>> /\ \A v \in Walkers : v # w => walk'[v] = walk[v]
    BY <1>7, WalkerKeeps DEF WalkerStep, NoWalk
  <2> QED BY <2>1 DEF Unused
<1>8. CASE CollectionSucceeds
  <2>1. PICK kept \in SUBSET Iports :
          active' = [p \in Iports |-> active[p] /\ (p \in kept \/ p \notin registered)]
    BY <1>8 DEF CollectionSucceeds
  <2>2. active' \in [Iports -> BOOLEAN] /\ \A q \in Iports : active'[q] => active[q]
    BY <2>1, Zenon
  <2> QED BY <1>2, <1>8, <2>2 DEF CollectionSucceeds
<1>9. CASE MainStep
  <2>1. CASE Open
    BY <1>1, <1>4, <2>1 DEF Open, OpenTakesThread, NameBlocks, NameFails, NameReady, Goes, port
  <2> QED BY <1>1, <1>3, <1>5, <1>9, <2>1 DEF MainStep, StatementDone, port
<1>10. CASE ReaderStep
  BY <1>1, <1>10 DEF ReaderStep, ReaderGivesUp, ReaderGoesOn, ReaderLeaves, port
<1>11. CASE AceLeaves \/ CollectionCrashes \/ CollectionFails \/ MemoryFills
  BY <1>1, <1>11 DEF AceLeaves, CollectionCrashes, CollectionFails, MemoryFills, port
<1>12. CASE UNCHANGED vars
  BY <1>1, <1>12 DEF vars, port
<1> QED BY <1>6, <1>7, <1>8, <1>9, <1>10, <1>11, <1>12 DEF InputNext, Collection, Over

\* What comes with the statements that are left is not used by others.
LEMMA FreshStep ==
  ASSUME InputInv, [InputNext]_vars
  PROVE  FreshInv'
<1>0. /\ left \in Seq(Statements) /\ Len(left) \in Nat
      /\ \A i \in 1 .. Len(left) : (i = 1 /\ main = "success") \/ \A x \in Makes[left[i]] : Unused(x)
      /\ \A i, j \in 1 .. Len(left) : i # j => Makes[left[i]] \cap Makes[left[j]] = {}
  BY LenProperties DEF InputInv, FreshInv, ThreadInv, ThreadTypeOK
<1>1. CASE UnpackBlock /\ UNCHANGED <<port, walk>>
  <2> DEFINE body == Head(left).body
             tail == Tail(left)
             all == body \o tail
  <2>1. /\ Head(left) \in Statements /\ Head(left).op = "block"
        /\ body \in Seq(Statements) /\ tail \in Seq(Statements)
        /\ left' \in Seq(Statements) \ {<<>>}
    BY <1>1, UnpackLeaves DEF InputInv
  <2>2. PICK k \in Nat : Len(left') = Len(all) - k /\ \A i \in 1 .. Len(left') : left'[i] = all[i + k]
    BY <1>1, UnpackLeaves DEF InputInv
  <2>3. main = "eval" /\ left # <<>> /\ Head(left) = left[1] /\ 1 \in 1 .. Len(left) /\ Len(left) \in Nat \ {0}
    BY <1>1, HeadTyped DEF UnpackBlock, InputInv, InStatement
  <2>4. /\ Len(body) \in Nat /\ Len(tail) = Len(left) - 1 /\ \A i \in 1 .. Len(tail) : tail[i] = left[i + 1]
    BY <1>0, <2>1, <2>3, HeadTailProperties, LenProperties
  <2>5. /\ Len(all) = Len(body) + Len(tail)
        /\ \A i \in 1 .. Len(body) : all[i] = body[i]
        /\ \A i \in 1 .. Len(tail) : all[Len(body) + i] = tail[i]
    BY <2>1, <2>4, ConcatProperties
  <2>6. PICK b, t, c : b = body /\ t = tail /\ c = all
    OBVIOUS
  <2> HIDE DEF body, tail, all
  <2>7. \A x : Unused(x)' <=> Unused(x)
    BY <1>1 DEF Unused, port
  \* where the statements come from
  <2>8. ASSUME NEW i \in 1 .. Len(all)
        PROVE  \/ i <= Len(body) /\ i \in 1 .. Len(body) /\ all[i] = body[i] /\ Makes[all[i]] \subseteq Makes[left[1]]
               \/ i > Len(body) /\ i - Len(body) + 1 \in 2 .. Len(left) /\ all[i] = left[i - Len(body) + 1]
    <3>1. CASE i <= Len(body)
      <4>1. i \in 1 .. Len(body)
        BY <2>4, <2>5, <3>1
      <4>2. Makes[body[i]] \subseteq Makes[left[1]]
        BY <2>1, <2>3, <4>1, MakesOwn DEF body
      <4> QED BY <2>5, <3>1, <4>1, <4>2
    <3>2. CASE i > Len(body)
      <4>1. i - Len(body) \in 1 .. Len(tail) /\ i = Len(body) + (i - Len(body))
        BY <2>3, <2>4, <2>5, <3>2
      <4>2. all[i] = tail[i - Len(body)]
        BY <2>5, <4>1
      <4> QED BY <2>3, <2>4, <3>2, <4>1, <4>2
    <3> QED BY <2>3, <2>4, <2>5, <3>1, <3>2
  <2>9. \A i \in 1 .. Len(all) : \A x \in Makes[all[i]] : Unused(x)
    <3> TAKE i \in 1 .. Len(all)
    <3>1. \A x \in Makes[left[1]] : Unused(x)
      BY <1>0, <2>3
    <3>2. CASE i <= Len(body)
      BY <2>8, <3>1, <3>2
    <3>3. CASE ~(i <= Len(body))
      <4>1. i - Len(body) + 1 \in 2 .. Len(left) /\ all[i] = left[i - Len(body) + 1]
        BY <2>8, <3>3
      <4> QED BY <1>0, <2>3, <4>1
    <3> QED BY <3>2, <3>3
  <2>10. \A i, j \in 1 .. Len(all) : i # j => Makes[all[i]] \cap Makes[all[j]] = {}
    <3>1. ASSUME NEW i \in 1 .. Len(all), NEW j \in 1 .. Len(all), i < j
          PROVE  Makes[all[i]] \cap Makes[all[j]] = {}
      <4>0. Len(all) \in Nat
        BY <2>3, <2>4, <2>5
      <4>1. CASE j <= Len(body)
        <5>1. i \in 1 .. Len(body) /\ j \in 1 .. Len(body) /\ i # j /\ all[i] = body[i] /\ all[j] = body[j]
          BY <2>4, <2>5, <3>1, <4>0, <4>1
        <5>2. \A m, n \in 1 .. Len(body) : m # n => Makes[body[m]] \cap Makes[body[n]] = {}
          BY <2>1, MakesOwn DEF body
        <5> QED BY <5>1, <5>2
      <4>2. CASE j > Len(body)
        <5>1. j - Len(body) + 1 \in 2 .. Len(left) /\ all[j] = left[j - Len(body) + 1]
          BY <2>4, <2>8, <4>2
        <5>2. CASE i <= Len(body)
          <6>1. Makes[all[i]] \subseteq Makes[left[1]]
            BY <2>4, <2>8, <5>2
          <6>2. Makes[left[1]] \cap Makes[left[j - Len(body) + 1]] = {}
            <7>1. PICK m : m = j - Len(body) + 1
              OBVIOUS
            <7>2. m \in 1 .. Len(left) /\ 1 # m
              BY <2>3, <5>1, <7>1
            <7> QED BY <1>0, <2>3, <7>1, <7>2
          <6> QED BY <5>1, <6>1, <6>2
        <5>3. CASE i > Len(body)
          <6>1. i - Len(body) + 1 \in 2 .. Len(left) /\ all[i] = left[i - Len(body) + 1]
            BY <2>4, <2>8, <5>3
          <6>2. i - Len(body) + 1 # j - Len(body) + 1
            BY <2>4, <3>1, <4>0
          <6> QED BY <1>0, <5>1, <6>1, <6>2
        <5> QED BY <2>4, <4>0, <5>2, <5>3
      <4> QED BY <2>4, <4>0, <4>1, <4>2
    <3>2. Len(all) \in Nat
      BY <2>3, <2>4, <2>5
    <3> TAKE i, j \in 1 .. Len(all)
    <3>3. i < j \/ j < i \/ i = j
      BY <3>2
    <3> QED BY <3>1, <3>3
  <2>11. Len(all) \in Nat /\ \A i \in 1 .. Len(left') : i + k \in 1 .. Len(all)
    BY <2>2, <2>3, <2>4, <2>5
  <2>12. \A i \in 1 .. Len(left') : \A x \in Makes[left'[i]] : Unused(x)'
    BY <2>2, <2>7, <2>9, <2>11
  <2>13. \A i, j \in 1 .. Len(left') : i # j => Makes[left'[i]] \cap Makes[left'[j]] = {}
    <3> TAKE i, j \in 1 .. Len(left')
    <3>1. i + k \in 1 .. Len(all) /\ j + k \in 1 .. Len(all) /\ left'[i] = all[i + k] /\ left'[j] = all[j + k]
      BY <2>2, <2>11
    <3>2. i # j => i + k # j + k
      BY <2>2, <2>11
    <3> QED BY <2>10, <3>1, <3>2
  <2> QED BY <2>12, <2>13 DEF FreshInv
<1>2. CASE PrimSucceeded /\ UNCHANGED <<port, walk>>
  <2>1. main = "success" /\ left' = Tail(left)
    BY <1>2 DEF PrimSucceeded
  <2>2. left # <<>> /\ Len(left) \in Nat \ {0}
    BY <2>1, HeadTyped DEF InputInv, InStatement
  <2>3. Len(left') = Len(left) - 1 /\ \A i \in 1 .. Len(left') : left'[i] = left[i + 1]
    BY <1>0, <2>1, <2>2, HeadTailProperties
  <2>4. \A x : Unused(x)' <=> Unused(x)
    BY <1>2 DEF Unused, port
  <2>5. \A i \in 1 .. Len(left') : i + 1 \in 1 .. Len(left) /\ i + 1 # 1
    BY <2>2, <2>3
  <2>6. \A i \in 1 .. Len(left') : \A x \in Makes[left'[i]] : Unused(x)'
    BY <1>0, <2>3, <2>4, <2>5
  <2>7. \A i, j \in 1 .. Len(left') : i # j => Makes[left'[i]] \cap Makes[left'[j]] = {}
    <3> TAKE i, j \in 1 .. Len(left')
    <3>1. i # j => i + 1 # j + 1
      BY <2>2, <2>3
    <3> QED BY <1>0, <2>3, <2>5, <3>1
  <2> QED BY <2>6, <2>7 DEF FreshInv
<1>3. CASE left' = left /\ (main = "success" => main' = "success")
  <2>1. ASSUME NEW i \in 1 .. Len(left), ~(i = 1 /\ main' = "success"), NEW x \in Makes[left[i]]
        PROVE  Unused(x)'
    <3>1. Unused(x)
      BY <1>0, <1>3, <2>1
    <3>2. CASE i = 1
      BY <2>1, <3>1, <3>2, UnusedStays
    <3>3. CASE i # 1
      <4>1. 1 \in 1 .. Len(left)
        BY <1>0
      <4>2. x \notin Makes[left[1]]
        BY <1>0, <2>1, <3>3, <4>1
      <4> QED BY <3>1, <4>2, UnusedStays
    <3> QED BY <3>2, <3>3
  <2> QED BY <1>0, <1>3, <2>1 DEF FreshInv
<1> QED BY <1>1, <1>2, <1>3, LeftChanges

-----------------------------------------------------------------------------
(* The invariant *)

\* At the start nothing is read and nothing has been used.
LEMMA InputInitially == InputInit => InputInv
<1> SUFFICES ASSUME InputInit PROVE InputInv
  OBVIOUS
<1> USE DEF InputInit
<1>1. /\ <<>> \in Seq(Symbols) /\ Len(<<>>) = 0 /\ <<<<>>>> \in Seq(Seq(Symbols)) /\ <<<<>>>> # <<>>
      /\ Len(<<<<>>>>) = 1 /\ SegmentRoom \in Nat \ {0} /\ Slots \in Nat \ {0}
  <2>1. <<>> \in Seq(Symbols) /\ Len(<<>>) = 0
    BY EmptySeq
  <2>2. \A s \in Seq(Symbols) : <<s>> \in Seq(Seq(Symbols)) /\ Len(<<s>>) = 1 /\ <<s>> # <<>>
    OBVIOUS
  <2> QED BY <2>1, <2>2, RoomForInput
<1>2. PortShapes
  <2>1. reading \in [Iports -> Acceptors \cup {NoAcceptor}]
    OBVIOUS
  <2>2. channel \in [Iports -> Seq(Seq(Symbols)) \ {<<>>}]
    BY <1>1
  <2>3. position \in [Iports -> Place] /\ nextsym \in [Iports -> Place]
    <3>1. [seg |-> 1, at |-> 1] \in Place /\ NoPlace \in Place
      BY DEF Place, NoPlace
    <3> QED BY <3>1
  <2>4. accessed \in [Iports -> Nat] /\ stuck \in [Iports -> Nat] /\ offset \in [Iports -> Nat] /\ buffered \in [Iports -> Nat]
    OBVIOUS
  <2>5. active \in [Iports -> BOOLEAN] /\ error \in [Iports -> BOOLEAN]
    BY Zenon
  <2>6. links \subseteq Iports
    OBVIOUS
  <2> QED BY <2>1, <2>2, <2>3, <2>4, <2>5, <2>6 DEF PortShapes
<1>3. OtherShapes
  <2>1. registered \subseteq Iports /\ Cardinality(registered) <= Slots
    <3>1. Cardinality({Stdin}) = 1
      BY FS_Singleton
    <3> QED BY <1>1, <3>1, IportsFinite
  <2>2. walk \in [Walkers -> Walk]
    <3>1. NoWalk \in Walk
      <4>1. NoPlace \in Place /\ <<>> \in Seq(Symbols \cup {Eof}) /\ 0 \in Int /\ FALSE \in BOOLEAN
        BY EmptySeq DEF Place, NoPlace
      <4>2. "none" \in Iports \cup {"none"} /\ "read" \in {"read", "symbol", "segment", "nothing", "failed"}
        OBVIOUS
      <4>3. \A a \in Iports \cup {"none"}, b \in Place, c \in {"read", "symbol", "segment", "nothing", "failed"},
               d \in Int, e \in Seq(Symbols \cup {Eof}), f \in BOOLEAN :
              [port |-> a, from |-> b, at |-> b, needs |-> c, togo |-> d, seen |-> e, asked |-> f] \in Walk
        BY Zenon DEF Walk
      <4> QED BY <4>1, <4>2, <4>3, Zenon DEF NoWalk
    <3> QED BY <3>1
  <2>3. waiting \in [Iports -> BOOLEAN] /\ told \in BOOLEAN /\ exhausted \in BOOLEAN
    BY Zenon
  <2> QED BY <2>1, <2>2, <2>3 DEF OtherShapes
<1>4. ThreadInv
  BY ThreadInitially
<1>5. main = "top" /\ RefcountRight /\ LetGo
  BY DEF ThreadInit, RefcountRight, LetGo
<1>6. LinksExact
  BY DEF LinksExact
<1>7. FreshInv
  <2>1. PICK program \in Programs : left = <<program>>
    BY DEF ThreadInit
  <2>2. Len(left) = 1 /\ left[1] = program /\ program \in Statements /\ Stdin \notin Makes[program]
    BY <2>1, StatementsClosed, MakesOwn
  <2>3. \A x : x # Stdin => Unused(x)
    BY DEF Unused
  <2>4. \A x \in Makes[program] : Unused(x)
    BY <2>2, <2>3
  <2>5. \A i \in 1 .. Len(left) : i = 1
    BY <2>2
  <2> QED BY <2>2, <2>4, <2>5 DEF FreshInv
<1>8. ASSUME NEW p \in Iports PROVE PortOK(p)
  <2>1. LastSegment(p) = 1 /\ channel[p] = <<<<>>>>
    BY <1>1 DEF LastSegment
  <2>2. channel[p][1] = <<>>
    BY <2>1
  <2>3. position[p] = [seg |-> 1, at |-> 1] /\ position[p] \in PlacesOf(p)
    BY <1>1, <2>1 DEF PlacesOf
  <2>4. Valid(p, position[p])
    BY <1>1, <2>2, <2>3 DEF Valid
  <2>5. ChannelOK(p)
    BY <1>1, <2>1, <2>2, <2>3, <2>4 DEF ChannelOK
  <2>6. BufferOK(p)
    <3>1. data \in [Iports -> Seq(Symbols \cup {Eof, BadSymbol})]
      BY FilesTyped
    <3>2. Len(data[p]) \in Nat
      BY <3>1, LenProperties
    <3>3. offset[p] = 0 /\ buffered[p] = 0
      OBVIOUS
    <3>4. \A i : i \notin offset[p] - buffered[p] + 1 .. offset[p]
      BY <3>3
    <3> QED BY <3>2, <3>3, <3>4 DEF BufferOK
  <2>7. ReadOK(p)
    BY DEF ReadOK
  <2> QED BY <2>5, <2>6, <2>7 DEF PortOK
<1> QED BY <1>2, <1>3, <1>4, <1>5, <1>6, <1>7, <1>8 DEF InputInv

\* The thread is not let go while it is linked to an iport, and nothing is read for it then.
LEMMA LetGoStep ==
  ASSUME InputInv, [InputNext]_vars
  PROVE  LetGo' /\ RefcountRight'
<1>0. LetGo /\ RefcountRight /\ LinksExact
  BY DEF InputInv
<1>1. CASE MainStep
  <2>1. CASE ExecOther /\ UNCHANGED <<port, files, procs, api, walk, ace, exhausted>>
    <3>1. UNCHANGED <<links, refcount>>
      BY <2>1 DEF procs, api
    <3>2. CASE ThreadEnds(links # {})
      BY <3>1, <3>2, <1>0 DEF ThreadEnds, LetGo, Leaving, RefcountRight
    <3>3. CASE MainExits
      <4>1. main = "leaving" /\ main' = "exited"
        BY <3>3 DEF MainExits
      <4>2. exit' = ended /\ ended # "crash"
        BY <3>3 DEF MainExits, InputInv, ThreadInv, ThreadTypeOK, Terminating
      <4> QED BY <1>0, <3>1, <4>1, <4>2 DEF LetGo, Leaving, RefcountRight
    <3>4. CASE ~ThreadEnds(links # {}) /\ ~MainExits
      <4>1. main \notin {"stopping", "leaving", "exited"} /\ main' \notin {"stopping", "leaving", "exited"}
        BY <2>1, <3>4 DEF ExecOther, Evaluated, TakeTurn, Unevaluated, EvaluatesToError, UnpackBlock,
           EvaluatesToPrim, EndTurn, PrimReturns, PrimBlocked, PrimRefused, LookAtMemory, StillBusy
      <4> QED BY <1>0, <3>1, <4>1 DEF LetGo, Leaving, RefcountRight
    <3> QED BY <3>2, <3>3, <3>4
  <2>2. CASE ExecRead
    <3>1. /\ main = "prim" /\ main' \in {"success", "blocked", "refused"} /\ refcount' = refcount
      BY <2>2 DEF ExecRead, ReadRefused, ReadTakes, ReadBlocks, PrimReturns, procs
    <3> QED BY <1>0, <3>1 DEF LetGo, Leaving, RefcountRight
  <2>3. CASE Open
    <3>1. /\ main \in {"prim", "opening", "registering"}
          /\ main' \in {"opening", "blocked", "top", "registering", "success"} /\ refcount' = refcount
      BY <2>3 DEF Open, OpenTakesThread, NameBlocks, NameFails, NameReady, Goes, OpenRegisters, EndTurn, procs
    <3> QED BY <1>0, <3>1 DEF LetGo, Leaving, RefcountRight
  <2>4. CASE StatementDone
    <3>1. main = "success" /\ main' = "top" /\ refcount' = refcount
      BY <2>4 DEF StatementDone, PrimSucceeded, EndTurn, procs
    <3> QED BY <1>0, <3>1 DEF LetGo, Leaving, RefcountRight
  <2>5. CASE ReadThreadsDown
    <3>1. main = "stopping" /\ main' = "leaving" /\ refcount' = refcount - 1 /\ links' = links
      BY <2>5 DEF ReadThreadsDown, CallbacksDone, api
    <3> QED BY <1>0, <3>1 DEF LetGo, Leaving, RefcountRight
  <2> QED BY <1>1, <2>1, <2>2, <2>3, <2>4, <2>5 DEF MainStep
<1>2. CASE UNCHANGED <<main, exit, refcount>> /\ links' \subseteq links
  BY <1>0, <1>2 DEF LetGo, Leaving, RefcountRight
<1>3. ASSUME NEW p \in Iports, ReaderTurn(p) \/ ReaderCloses(p) PROVE LetGo' /\ RefcountRight'
  <2>1. TurnKinds(p)
    BY <1>3, TurnIsOfKind DEF InputInv
  <2>2. links' \subseteq links
    BY <2>1 DEF TurnKinds, Ends, GivesUp, Knows, KnowsEof, Decodes, FindsEof, FedBy, Accepts, AcceptorAccepts,
       Refills, GoesToNext
  <2>3. ApiThreadPost \/ UNCHANGED thread
    BY <1>3, OthersPost DEF ReaderTurn, MakesSegment, AcceptorTurn, AcceptorBinds, BindKnown, BindKnownEof, BindDecodes,
     BindFails, BindRefills, BindEof, AcceptorAccepts, AcceptorFails, AcceptorIsError, AcceptorIsUnknown,
     Unregister, Feeds,
     Shutdown, ShutdownWithError, ReaderCloses
  <2>4. refcount' = refcount
    BY <1>3 DEF ReaderTurn, ReaderCloses, procs
  <2> QED BY <1>2, <2>2, <2>3, <2>4 DEF ApiThreadPost, thread
<1>4. CASE ReaderStep
  BY <1>2, <1>4 DEF ReaderStep, ReaderGivesUp, ReaderGoesOn, ReaderLeaves, thread, api
<1>5. CASE AceLeaves \/ CollectionSucceeds \/ MemoryFills \/ UNCHANGED vars \/ \E w \in Walkers : WalkerStep(w)
  BY <1>2, <1>5 DEF AceLeaves, CollectionSucceeds, MemoryFills, WalkerStep, thread, procs, api, vars
<1>6. CASE CollectionCrashes \/ CollectionFails
  <2>1. UNCHANGED <<links, refcount>> /\ main = "top" /\ (main' = "top" \/ (main' = "exited" /\ exit' = "crash"))
    BY <1>6 DEF CollectionCrashes, CollectionFails, EverybodyWaits, procs, api
  <2> QED BY <1>0, <2>1 DEF LetGo, Leaving, RefcountRight
<1> QED BY <1>1, <1>3, <1>4, <1>5, <1>6 DEF InputNext, Collection, Over

\* The input of a program and all that refers to it stays in order.
THEOREM InputInductive == InputSpec => []InputInv
<1>1. InputInv /\ [InputNext]_vars => InputInv'
  <2> SUFFICES ASSUME InputInv, [InputNext]_vars PROVE InputInv'
    OBVIOUS
  <2>1. PortShapes' /\ (\A p \in Iports : PortOK(p)') /\ LinksExact'
    BY PortsStep
  <2>2. OtherShapes' /\ FreshInv' /\ LetGo' /\ RefcountRight'
    BY OthersStep, FreshStep, LetGoStep
  <2>3. ThreadInv'
    BY ThreadStep DEF InputInv
  <2>4. \A w \in Walkers : walk'[w] = NoWalk \/ WalkOK(w)'
    BY WalksStep
  <2> QED BY <2>1, <2>2, <2>3, <2>4 DEF InputInv
<1> QED BY <1>1, InputInitially, PTL DEF InputSpec

\* The invariant is stronger than the types, ...
LEMMA TypesFollow == InputInv => InputTypeOK
<1> SUFFICES ASSUME InputInv PROVE InputTypeOK
  OBVIOUS
<1>1. ThreadTypeOK
  BY DEF InputInv, ThreadInv
<1>2. /\ active \in [Iports -> BOOLEAN]
      /\ reading \in [Iports -> Acceptors \cup {NoAcceptor}]
      /\ channel \in [Iports -> Seq(Seq(Symbols)) \ {<<>>}]
      /\ {position, nextsym} \subseteq [Iports -> Place]
      /\ {accessed, stuck, offset, buffered} \subseteq [Iports -> Nat]
      /\ error \in [Iports -> BOOLEAN] /\ links \subseteq Iports
  BY DEF InputInv, PortShapes
<1>3. \A p \in Iports :
        /\ \A n \in 1 .. LastSegment(p) : Len(channel[p][n]) <= SegmentRoom
        /\ position[p] \in PlacesOf(p)
        /\ nextsym[p] \in [seg : 1 .. LastSegment(p), at : 1 .. SegmentRoom + 1] \cup {NoPlace}
        /\ accessed[p] <= LastSegment(p)
        /\ stuck[p] <= LastSegment(p)
        /\ offset[p] <= Len(data[p])
        /\ buffered[p] <= offset[p]
  BY DEF InputInv, PortOK, ChannelOK, BufferOK
<1> QED BY <1>1, <1>2, <1>3 DEF InputTypeOK, InputInv, OtherShapes

\* Every variable of the input has its type, and what it leads to is there.
THEOREM InputTypesHold == InputSpec => []InputTypeOK
BY InputInductive, TypesFollow, PTL

\* ... and than the accounts of the thread and the iports.
LEMMA AccountFollows == InputInv => ReadsAccounted
<1> SUFFICES ASSUME InputInv PROVE ReadsAccounted
  OBVIOUS
<1>1. LinksExact /\ \A p \in Iports : ReadOK(p)
  BY DEF InputInv, PortOK
<1> QED BY <1>1 DEF LinksExact, ReadOK, ReadsAccounted

\* The thread is linked to exactly the iports that read for it, each of which is looked after.
THEOREM ReadsAlwaysAccounted == InputSpec => []ReadsAccounted
BY InputInductive, AccountFollows, PTL

-----------------------------------------------------------------------------
(* The items of a channel *)

\* What is at a place of a channel: a symbol, or an end of file.
ItemAt(p, place) ==
  LET seg == channel[p][place.seg] IN IF place.at <= Len(seg) THEN seg[place.at] ELSE Eof

\* What is in the channel are the first items of the file.
Content(p) ==
  \A place \in Places(p) : ItemAt(p, place) = Port!Item(p, Index(p, place) + 1)

\* It is all that was decoded, but for ends of file that the end of the file goes on in.
FileRead(p) ==
  \/ Cardinality(Places(p)) = offset[p] - buffered[p]
  \/ Cardinality(Places(p)) >= Len(data[p]) /\ offset[p] = Len(data[p]) /\ buffered[p] = 0

\* A walker has seen what is between where it started and where it is.
Seen(w) ==
  LET p == walk[w].port
      n == Index(p, walk[w].from) + Len(walk[w].seen) IN
    /\ walk[w].needs = "symbol" => n = Index(p, walk[w].at)
    /\ walk[w].needs = "segment" => n = Index(p, walk[w].at) + 1

ContentInv ==
  /\ \A p \in Iports : Content(p) /\ FileRead(p)
  /\ \A w \in Walkers : walk[w] = NoWalk \/ Seen(w)

\* What is before a place, of a set of places.
PlacesBefore(S, place) == {q \in S : Before(q, place)}

\* The places of a channel are finitely many.
LEMMA PlacesFinite ==
  ASSUME PortShapes, NEW p \in Iports, ChannelOK(p)
  PROVE  /\ IsFiniteSet(Places(p)) /\ Cardinality(Places(p)) \in Nat
         /\ \A place : IsFiniteSet(PlacesBefore(Places(p), place)) /\ Index(p, place) \in Nat
                       /\ Index(p, place) = Cardinality(PlacesBefore(Places(p), place))
<1> DEFINE S == 1 .. LastSegment(p)
           T == 1 .. SegmentRoom
           f == [x \in S \X T |-> [seg |-> x[1], at |-> x[2]]]
<1>1. IsFiniteSet(S) /\ IsFiniteSet(T)
  <2>1. LastSegment(p) \in Int /\ SegmentRoom \in Int /\ 1 \in Int
    BY ChannelTyped
  <2> QED BY <2>1, FS_Interval
<1>2. IsFiniteSet(S \X T)
  BY <1>1, FS_Product
<1>3. f \in Surjection(S \X T, PlacesOf(p))
  <2>1. f \in [S \X T -> PlacesOf(p)]
    BY DEF PlacesOf
  <2>2. ASSUME NEW place \in PlacesOf(p) PROVE \E x \in S \X T : f[x] = place
    <3>1. place.seg \in S /\ place.at \in T /\ place = [seg |-> place.seg, at |-> place.at]
      BY DEF PlacesOf
    <3>2. <<place.seg, place.at>> \in S \X T /\ f[<<place.seg, place.at>>] = place
      BY <3>1
    <3> QED BY <3>2
  <2> QED BY <2>1, <2>2 DEF Surjection
<1>4. IsFiniteSet(PlacesOf(p))
  BY <1>2, <1>3, FS_Surjection
<1>5. IsFiniteSet(Places(p)) /\ Cardinality(Places(p)) \in Nat
  <2>1. Places(p) \subseteq PlacesOf(p)
    BY DEF Places
  <2> QED BY <1>4, <2>1, FS_Subset, FS_CardinalityType
<1>6. ASSUME NEW place
      PROVE  IsFiniteSet(PlacesBefore(Places(p), place)) /\ Index(p, place) \in Nat
             /\ Index(p, place) = Cardinality(PlacesBefore(Places(p), place))
  <2>1. PlacesBefore(Places(p), place) \subseteq Places(p)
    BY DEF PlacesBefore
  <2>2. IsFiniteSet(PlacesBefore(Places(p), place))
    BY <1>5, <2>1, FS_Subset
  <2>3. Index(p, place) = Cardinality(PlacesBefore(Places(p), place))
    BY DEF Index, PlacesBefore
  <2> QED BY <2>2, <2>3, FS_CardinalityType
<1> QED BY <1>5, <1>6

\* A place is a pair of numbers, and two of them are comparable.
LEMMA PlaceOrder ==
  ASSUME NEW p \in Iports, NEW m \in PlacesOf(p), NEW n \in PlacesOf(p)
  PROVE  /\ m.seg \in Int /\ m.at \in Int /\ m = [seg |-> m.seg, at |-> m.at]
         /\ m = n <=> m.seg = n.seg /\ m.at = n.at
BY DEF PlacesOf

\* The place behind an item has one more before it.
LEMMA NextIndex ==
  ASSUME PortShapes, NEW p \in Iports, ChannelOK(p), NEW place \in Places(p), NEW next,
         \A q \in Places(p) : Before(q, next) <=> Before(q, place) \/ q = place
  PROVE  Index(p, next) = Index(p, place) + 1
<1>1. PlacesBefore(Places(p), next) = PlacesBefore(Places(p), place) \cup {place}
  BY DEF PlacesBefore
<1>2. place \notin PlacesBefore(Places(p), place)
  BY DEF PlacesBefore, Before, Places, PlacesOf
<1>3. IsFiniteSet(PlacesBefore(Places(p), place))
  BY PlacesFinite
<1>4. Cardinality(PlacesBefore(Places(p), place) \cup {place}) = Cardinality(PlacesBefore(Places(p), place)) + 1
  BY <1>2, <1>3, FS_AddElement
<1>5. /\ Index(p, next) = Cardinality(PlacesBefore(Places(p), next))
      /\ Index(p, place) = Cardinality(PlacesBefore(Places(p), place))
  BY PlacesFinite
<1> QED BY <1>1, <1>4, <1>5

\* ... in its segment, ...
LEMMA StepInside ==
  ASSUME PortShapes, NEW p \in Iports, ChannelOK(p), NEW place \in Places(p)
  PROVE  Index(p, [seg |-> place.seg, at |-> place.at + 1]) = Index(p, place) + 1
<1> DEFINE next == [seg |-> place.seg, at |-> place.at + 1]
<1>1. ASSUME NEW q \in Places(p) PROVE Before(q, next) <=> Before(q, place) \/ q = place
  <2>1. q \in PlacesOf(p) /\ place \in PlacesOf(p)
    BY DEF Places
  <2>2. /\ q.seg \in Int /\ q.at \in Int /\ place.seg \in Int /\ place.at \in Int
        /\ (q = place <=> q.seg = place.seg /\ q.at = place.at)
    BY <2>1, PlaceOrder
  <2>3. next.seg = place.seg /\ next.at = place.at + 1
    OBVIOUS
  <2> HIDE DEF next
  <2> QED BY <2>2, <2>3 DEF Before
<1> HIDE DEF next
<1>2. Index(p, next) = Index(p, place) + 1
  BY <1>1, NextIndex
<1> QED BY <1>2 DEF next

\* The last item of a segment
LastItem(p, place) == place.at = SegmentRoom \/ place.at = Len(channel[p][place.seg]) + 1

\* ... and from the last item of a segment to the first place of the next.
LEMMA StepAcross ==
  ASSUME PortShapes, NEW p \in Iports, ChannelOK(p), NEW place \in Places(p), LastItem(p, place)
  PROVE  Index(p, [seg |-> place.seg + 1, at |-> 1]) = Index(p, place) + 1
<1> DEFINE next == [seg |-> place.seg + 1, at |-> 1]
           len == Len(channel[p][place.seg])
<1>0. place \in PlacesOf(p) /\ place.seg \in 1 .. LastSegment(p)
  BY DEF Places, PlacesOf
<1>00. len \in Nat /\ SegmentRoom \in Nat
  BY <1>0, ChannelTyped
<1>1. ASSUME NEW q \in Places(p) PROVE Before(q, next) <=> Before(q, place) \/ q = place
  <2>1. q \in PlacesOf(p) /\ HasItem(p, q)
    BY DEF Places
  <2>2. /\ q.seg \in Int /\ q.at \in Int /\ place.seg \in Int /\ place.at \in Int
        /\ (q = place <=> q.seg = place.seg /\ q.at = place.at)
    BY <1>0, <2>1, PlaceOrder
  <2>3. next.seg = place.seg + 1 /\ next.at = 1
    OBVIOUS
  <2>4. q.at \in 1 .. SegmentRoom
    BY <2>1 DEF PlacesOf
  <2>5. q.seg = place.seg => q.at <= len + 1
    <3> SUFFICES ASSUME q.seg = place.seg PROVE q.at <= len + 1
      OBVIOUS
    <3>1. q.at <= len + (IF len < SegmentRoom /\ q.seg < LastSegment(p) THEN 1 ELSE 0)
      BY <2>1 DEF HasItem
    <3> HIDE DEF len
    <3> QED BY <1>00, <2>2, <3>1
  <2>6. place.at = SegmentRoom \/ place.at = len + 1
    BY DEF LastItem
  <2> HIDE DEF next, len
  <2>7. q.seg = place.seg => q.at <= place.at
    BY <1>00, <2>2, <2>4, <2>5, <2>6
  <2> QED BY <2>2, <2>3, <2>4, <2>7 DEF Before
<1> HIDE DEF next
<1>2. Index(p, next) = Index(p, place) + 1
  BY <1>1, NextIndex
<1> QED BY <1>2 DEF next

\* At the end of a channel everything is before.
LEMMA AtEnd ==
  ASSUME PortShapes, NEW p \in Iports, ChannelOK(p), NEW place \in PlacesOf(p), Waits(p, place)
  PROVE  Index(p, place) = Cardinality(Places(p))
<1> DEFINE len == Len(channel[p][place.seg])
<1>0. place.seg \in Int /\ place.at \in Int /\ LastSegment(p) \in Nat /\ len \in Nat /\ SegmentRoom \in Nat
  <2>1. place.seg \in 1 .. LastSegment(p) /\ place.at \in Int /\ place.seg \in Int
    BY DEF PlacesOf
  <2> QED BY <2>1, ChannelTyped
<1>1. ASSUME NEW q \in Places(p) PROVE Before(q, place)
  <2>1. q \in PlacesOf(p) /\ HasItem(p, q)
    BY DEF Places
  <2>2. q.seg \in 1 .. LastSegment(p) /\ q.at \in Int
    BY <2>1 DEF PlacesOf
  <2>3. place.at > len /\ place.seg = LastSegment(p)
    BY DEF Waits
  <2>4. CASE q.seg = place.seg
    <3>1. q.at <= len + (IF len < SegmentRoom /\ q.seg < LastSegment(p) THEN 1 ELSE 0)
      BY <2>1, <2>4 DEF HasItem
    <3> HIDE DEF len
    <3>2. q.at <= len
      BY <1>0, <2>2, <2>3, <2>4, <3>1
    <3> QED BY <1>0, <2>2, <2>3, <2>4, <3>2 DEF Before
  <2>5. CASE q.seg # place.seg
    BY <1>0, <2>2, <2>3, <2>5 DEF Before
  <2> QED BY <2>4, <2>5
<1>2. PlacesBefore(Places(p), place) = Places(p)
  BY <1>1 DEF PlacesBefore
<1>3. Index(p, place) = Cardinality(PlacesBefore(Places(p), place))
  BY PlacesFinite
<1> QED BY <1>2, <1>3

\* An item is one of those that have been read.
LEMMA IndexBound ==
  ASSUME PortShapes, NEW p \in Iports, ChannelOK(p), NEW place \in Places(p)
  PROVE  Index(p, place) + 1 <= Cardinality(Places(p))
<1>1. place \notin PlacesBefore(Places(p), place)
  BY DEF PlacesBefore, Before, Places, PlacesOf
<1>2. IsFiniteSet(PlacesBefore(Places(p), place)) /\ IsFiniteSet(Places(p))
        /\ Index(p, place) = Cardinality(PlacesBefore(Places(p), place)) /\ Index(p, place) \in Nat
        /\ Cardinality(Places(p)) \in Nat
  BY PlacesFinite
<1> DEFINE S == PlacesBefore(Places(p), place) \cup {place}
<1>3. IsFiniteSet(S) /\ Cardinality(S) = Index(p, place) + 1
  BY <1>1, <1>2, FS_AddElement
<1>4. S \subseteq Places(p)
  BY DEF PlacesBefore
<1>5. Cardinality(S) <= Cardinality(Places(p))
  BY <1>2, <1>4, FS_Subset
<1> QED BY <1>3, <1>5

-----------------------------------------------------------------------------
(* Items that are added to a channel *)

\* A channel gains an item at the place cur, behind all others.
Gains(p, cur, item) ==
  /\ cur \in PlacesOf(p) /\ cur \notin Places(p)
  /\ Waits(p, cur)
  /\ Places(p)' = Places(p) \cup {cur}
  /\ ItemAt(p, cur)' = item
  /\ \A place \in Places(p) : ItemAt(p, place)' = ItemAt(p, place)
  /\ \A place \in PlacesOf(p) : Valid(p, place) => ~Before(cur, place)

\* Neither the number of an item nor an item changes.
KeepsItems(p) ==
  /\ Places(p)' = Places(p)
  /\ \A place \in Places(p) : ItemAt(p, place)' = ItemAt(p, place)

\* With the items their number and their order stay.
LEMMA KeptIndex ==
  ASSUME NEW p \in Iports, KeepsItems(p)
  PROVE  /\ Cardinality(Places(p))' = Cardinality(Places(p))
         /\ \A place : Index(p, place)' = Index(p, place)
<1>1. Places(p)' = Places(p)
  BY DEF KeepsItems
<1>2. Cardinality(Places(p))' = Cardinality(Places(p))
  BY <1>1
<1>3. ASSUME NEW place PROVE Index(p, place)' = Index(p, place)
  BY <1>1 DEF Index
<1> QED BY <1>2, <1>3

\* The numbers of the items that were there stay what they are.
LEMMA GainedIndex ==
  ASSUME PortShapes, NEW p \in Iports, ChannelOK(p), NEW cur, NEW item, Gains(p, cur, item)
  PROVE  /\ Cardinality(Places(p))' = Cardinality(Places(p)) + 1
         /\ Index(p, cur) = Cardinality(Places(p)) /\ Index(p, cur)' = Cardinality(Places(p))
         /\ \A place \in PlacesOf(p) : Valid(p, place) => Index(p, place)' = Index(p, place)
<1>1. IsFiniteSet(Places(p)) /\ cur \notin Places(p) /\ Places(p)' = Places(p) \cup {cur}
  BY PlacesFinite DEF Gains
<1>2. Cardinality(Places(p))' = Cardinality(Places(p)) + 1
  <2>1. Cardinality(Places(p) \cup {cur}) = Cardinality(Places(p)) + 1
    BY <1>1, FS_AddElement
  <2> QED BY <1>1, <2>1
<1>3. ASSUME NEW place, ~Before(cur, place) PROVE Index(p, place)' = Index(p, place)
  <2>1. {q \in Places(p)' : Before(q, place)} = {q \in Places(p) : Before(q, place)}
    BY <1>1, <1>3
  <2> QED BY <2>1 DEF Index
<1>4. Index(p, cur) = Cardinality(Places(p))
  BY AtEnd DEF Gains
<1>5. ~Before(cur, cur)
  <2>1. cur.seg \in Int /\ cur.at \in Int
    BY PlaceOrder DEF Gains
  <2> QED BY <2>1 DEF Before
<1>6. Index(p, cur)' = Cardinality(Places(p))
  BY <1>3, <1>4, <1>5
<1>7. ASSUME NEW place \in PlacesOf(p), Valid(p, place) PROVE Index(p, place)' = Index(p, place)
  BY <1>3, <1>7 DEF Gains
<1> QED BY <1>2, <1>4, <1>6, <1>7

\* Behind the end of a channel there are no places.
LEMMA BehindNone ==
  ASSUME PortShapes, NEW p \in Iports, ChannelOK(p), NEW cur \in PlacesOf(p), Waits(p, cur),
         NEW place \in PlacesOf(p), Valid(p, place),
         cur.at = Len(channel[p][LastSegment(p)]) + 1
  PROVE  ~Before(cur, place)
<1>1. /\ cur.seg = LastSegment(p) /\ LastSegment(p) \in Nat
      /\ place.seg \in 1 .. LastSegment(p) /\ place.at \in Int
  BY ChannelTyped DEF Waits, PlacesOf
<1>2. place.seg = LastSegment(p) => place.at <= Len(channel[p][LastSegment(p)]) + 1
  BY DEF Valid
<1>3. Len(channel[p][LastSegment(p)]) \in Nat
  <2>1. LastSegment(p) \in 1 .. LastSegment(p)
    BY ChannelTyped
  <2> QED BY <2>1, ChannelTyped
<1> QED BY <1>1, <1>2, <1>3 DEF Before

\* The symbol that is decoded is the new item, ...
LEMMA DecodesGains ==
  ASSUME PortShapes, OtherShapes, NEW p \in Iports, PortOK(p), Decodes(p), NEW cur, cur = Current(p)
  PROVE  LET symbol == data[p][offset[p] - buffered[p] + 1] IN
           symbol \in Symbols /\ Gains(p, cur, symbol)
<1>0. PICK symbol : symbol = data[p][offset[p] - buffered[p] + 1]
  OBVIOUS
<1>1. symbol \in Symbols /\ Waits(p, cur) /\ ~SegmentFull(p) /\ Appends(p, symbol)
  BY <1>0 DEF Decodes, FedBy
<1>2. PICK last, len : last = LastSegment(p) /\ len = Len(channel[p][last])
  OBVIOUS
<1>3. /\ last \in Nat \ {0} /\ SegmentRoom \in Nat \ {0} /\ cur.seg = last /\ cur.at = len + 1
      /\ len \in Nat /\ len < SegmentRoom /\ cur \in PlacesOf(p) /\ cur = [seg |-> last, at |-> len + 1]
      /\ ChannelOK(p)
  BY <1>1, <1>2, WaitsAt, CurrentOK DEF PortOK
<1>4. /\ LastSegment(p)' = last
      /\ channel'[p][last] = Append(channel[p][last], symbol)
      /\ \A n \in 1 .. last - 1 : channel'[p][n] = channel[p][n]
  BY <1>1, <1>2, <1>3, GrowthAtEnd
<1>5. /\ Len(channel'[p][last]) = len + 1
      /\ channel'[p][last][len + 1] = symbol
      /\ \A i \in 1 .. len : channel'[p][last][i] = channel[p][last][i]
  <2>1. channel[p][last] \in Seq(Symbols)
    BY <1>2, <1>3, ChannelTyped
  <2> QED BY <1>1, <1>2, <1>3, <1>4, <2>1, AppendProperties
<1>6. PlacesOf(p)' = PlacesOf(p)
  BY <1>2, <1>4 DEF PlacesOf
<1>7. ASSUME NEW place \in PlacesOf(p)
      PROVE  /\ HasItem(p, place)' <=> HasItem(p, place) \/ place = cur
             /\ HasItem(p, place) => ItemAt(p, place)' = ItemAt(p, place) /\ place # cur
  <2>1. place.seg \in 1 .. last /\ place.at \in 1 .. SegmentRoom /\ (place = cur <=> place.seg = last /\ place.at = len + 1)
    BY <1>2, <1>3 DEF PlacesOf
  <2>2. CASE place.seg = last
    <3>1. HasItem(p, place) <=> place.at <= len
      <4>1. HasItem(p, place) <=> place.at <= len + (IF len < SegmentRoom /\ last < last THEN 1 ELSE 0)
        BY <1>2, <2>2 DEF HasItem
      <4> QED BY <1>3, <2>1, <4>1
    <3>2. HasItem(p, place)' <=> place.at <= len + 1
      <4>1. HasItem(p, place)' <=>
              place.at <= len + 1 + (IF len + 1 < SegmentRoom /\ last < last THEN 1 ELSE 0)
        BY <1>4, <1>5, <2>2 DEF HasItem
      <4> QED BY <1>3, <2>1, <4>1
    <3>3. place.at <= len => ItemAt(p, place)' = ItemAt(p, place)
      <4> SUFFICES ASSUME place.at <= len PROVE ItemAt(p, place)' = ItemAt(p, place)
        OBVIOUS
      <4>1. ItemAt(p, place) = channel[p][last][place.at]
        BY <1>2, <2>2 DEF ItemAt
      <4>2. place.at <= len + 1 /\ place.at \in 1 .. len
        BY <1>3, <2>1
      <4>3. ItemAt(p, place)' = channel'[p][last][place.at]
        BY <1>5, <2>2, <4>2 DEF ItemAt
      <4> QED BY <1>5, <4>1, <4>2, <4>3
    <3> QED BY <1>3, <2>1, <2>2, <3>1, <3>2, <3>3
  <2>3. CASE place.seg # last
    <3>1. place.seg \in 1 .. last - 1
      BY <1>3, <2>1, <2>3
    <3>2. channel'[p][place.seg] = channel[p][place.seg]
      BY <1>4, <3>1
    <3> QED BY <1>2, <1>4, <2>1, <2>3, <3>2 DEF HasItem, ItemAt
  <2> QED BY <2>2, <2>3
<1>8. ItemAt(p, cur)' = symbol
  BY <1>3, <1>5 DEF ItemAt
<1>9. Places(p)' = Places(p) \cup {cur} /\ cur \notin Places(p)
  BY <1>3, <1>6, <1>7 DEF Places
<1>10. \A place \in Places(p) : ItemAt(p, place)' = ItemAt(p, place)
  BY <1>7 DEF Places
<1>11. \A place \in PlacesOf(p) : Valid(p, place) => ~Before(cur, place)
  BY <1>1, <1>2, <1>3, BehindNone
<1> QED BY <1>0, <1>1, <1>3, <1>8, <1>9, <1>10, <1>11 DEF Gains

\* ... and so is the end of file where a segment is left.
LEMMA FindsEofGains ==
  ASSUME PortShapes, OtherShapes, NEW p \in Iports, PortOK(p), FindsEof(p), NEW cur, cur = Current(p)
  PROVE  Gains(p, cur, Eof)
<1>1. Waits(p, cur) /\ ~SegmentFull(p) /\ Extends(p)
  BY DEF FindsEof, FedBy
<1>2. PICK last, len : last = LastSegment(p) /\ len = Len(channel[p][last])
  OBVIOUS
<1>3. /\ last \in Nat \ {0} /\ SegmentRoom \in Nat \ {0} /\ cur.seg = last /\ cur.at = len + 1
      /\ len \in Nat /\ len < SegmentRoom /\ cur \in PlacesOf(p) /\ cur = [seg |-> last, at |-> len + 1]
      /\ ChannelOK(p)
  BY <1>1, <1>2, WaitsAt, CurrentOK DEF PortOK
<1>4. /\ LastSegment(p)' = last + 1
      /\ channel'[p][last + 1] = <<>>
      /\ \A n \in 1 .. last : channel'[p][n] = channel[p][n]
  BY <1>1, <1>2, <1>3, GrowthAtEnd
<1>5. PlacesOf(p)' = [seg : 1 .. last + 1, at : 1 .. SegmentRoom] /\ PlacesOf(p) = [seg : 1 .. last, at : 1 .. SegmentRoom]
  BY <1>2, <1>4 DEF PlacesOf
<1>6. ASSUME NEW place \in PlacesOf(p)
      PROVE  /\ HasItem(p, place)' <=> HasItem(p, place) \/ place = cur
             /\ HasItem(p, place) => ItemAt(p, place)' = ItemAt(p, place) /\ place # cur
  <2>1. place.seg \in 1 .. last /\ place.at \in 1 .. SegmentRoom /\ (place = cur <=> place.seg = last /\ place.at = len + 1)
    BY <1>3, <1>5
  <2>2. channel'[p][place.seg] = channel[p][place.seg]
    BY <1>4, <2>1
  <2>3. ItemAt(p, place)' = ItemAt(p, place)
    BY <2>2 DEF ItemAt
  <2>4. CASE place.seg = last
    <3>1. HasItem(p, place) <=> place.at <= len
      <4>1. HasItem(p, place) <=> place.at <= len + (IF len < SegmentRoom /\ last < last THEN 1 ELSE 0)
        BY <1>2, <2>4 DEF HasItem
      <4> QED BY <1>3, <2>1, <4>1
    <3>2. HasItem(p, place)' <=> place.at <= len + 1
      <4>1. HasItem(p, place)' <=> place.at <= len + (IF len < SegmentRoom /\ last < last + 1 THEN 1 ELSE 0)
        BY <1>2, <1>4, <2>2, <2>4 DEF HasItem
      <4> QED BY <1>3, <2>1, <4>1
    <3> QED BY <1>3, <2>1, <2>3, <2>4, <3>1, <3>2
  <2>5. CASE place.seg # last
    <3>1. place.seg < last /\ place.seg < last + 1
      BY <1>3, <2>1, <2>5
    <3>2. HasItem(p, place)' <=> HasItem(p, place)
      <4>1. (LastSegment(p) > place.seg)' /\ LastSegment(p) > place.seg
        BY <1>2, <1>3, <1>4, <2>1, <3>1
      <4> QED BY <1>2, <1>4, <2>2, <3>1 DEF HasItem
    <3> QED BY <1>3, <2>1, <2>3, <2>5, <3>2
  <2> QED BY <2>4, <2>5
<1>7. ASSUME NEW place \in PlacesOf(p)', place \notin PlacesOf(p) PROVE ~HasItem(p, place)'
  <2>1. place.seg = last + 1 /\ place.at \in 1 .. SegmentRoom
    BY <1>3, <1>5, <1>7
  <2>2. Len(channel'[p][place.seg]) = 0
    BY <1>4, <2>1, EmptySeq
  <2>3. HasItem(p, place)' <=> place.at <= 0 + (IF 0 < SegmentRoom /\ last + 1 < last + 1 THEN 1 ELSE 0)
    BY <1>4, <2>1, <2>2 DEF HasItem
  <2> QED BY <1>3, <2>1, <2>3
<1>8. ItemAt(p, cur)' = Eof
  <2>1. channel'[p][cur.seg] = channel[p][last] /\ ~(cur.at <= len)
    BY <1>3, <1>4
  <2> QED BY <1>2, <2>1 DEF ItemAt
<1>9. Places(p)' = Places(p) \cup {cur} /\ cur \notin Places(p)
  <2>1. PlacesOf(p) \subseteq PlacesOf(p)'
    BY <1>3, <1>5
  <2> QED BY <1>3, <1>6, <1>7, <2>1 DEF Places
<1>10. \A place \in Places(p) : ItemAt(p, place)' = ItemAt(p, place)
  BY <1>6 DEF Places
<1>11. \A place \in PlacesOf(p) : Valid(p, place) => ~Before(cur, place)
  BY <1>1, <1>2, <1>3, BehindNone
<1> QED BY <1>1, <1>3, <1>8, <1>9, <1>10, <1>11 DEF Gains

\* An item is at a place that has been reached.
LEMMA ItemValid ==
  ASSUME PortShapes, NEW p \in Iports, ChannelOK(p), NEW place \in Places(p)
  PROVE  place \in PlacesOf(p) /\ Valid(p, place)
<1>1. place \in PlacesOf(p) /\ HasItem(p, place) /\ place.seg \in 1 .. LastSegment(p) /\ place.at \in Int
  BY DEF Places, PlacesOf
<1>2. PICK len : len = Len(channel[p][place.seg])
  OBVIOUS
<1>3. len \in Nat
  BY <1>1, <1>2, ChannelTyped
<1>4. place.at <= len + (IF len < SegmentRoom /\ place.seg < LastSegment(p) THEN 1 ELSE 0)
  BY <1>1, <1>2 DEF HasItem
<1>5. place.at <= len + 1
  BY <1>1, <1>3, <1>4
<1> QED BY <1>1, <1>2, <1>5 DEF Valid

\* A channel that does not change keeps its items, ...
LEMMA SameKeeps ==
  ASSUME NEW p \in Iports, channel'[p] = channel[p]
  PROVE  KeepsItems(p)
BY PlacesSame DEF KeepsItems, ItemAt

\* ... and so does one that goes on in a segment; where the read is stays the end.
LEMMA NextKeeps ==
  ASSUME PortShapes, NEW p \in Iports, PortOK(p), GoesToNext(p)
  PROVE  /\ KeepsItems(p) /\ reading[p] # NoAcceptor
         /\ Index(p, Current(p)) = Cardinality(Places(p))
         /\ Index(p, Current(p))' = Cardinality(Places(p))
<1>0. PICK last, len, cur, next :
        last = LastSegment(p) /\ len = Len(channel[p][last]) /\ cur = nextsym[p] /\ next = [seg |-> last + 1, at |-> 1]
  OBVIOUS
<1>1. /\ last \in Nat \ {0} /\ SegmentRoom \in Nat \ {0} /\ len \in 0 .. SegmentRoom
      /\ \A n \in 1 .. last : Len(channel[p][n]) \in 0 .. SegmentRoom
  <2>1. last \in Nat \ {0} /\ SegmentRoom \in Nat \ {0} /\ \A n \in 1 .. last : Len(channel[p][n]) \in 0 .. SegmentRoom
    BY <1>0, ChannelTyped DEF PortOK
  <2> QED BY <1>0, <2>1
<1>2. cur.at > SegmentRoom /\ cur # NoPlace
  BY <1>0, <1>1 DEF GoesToNext, SegmentFull, AtLimit, NoPlace
<1>3. reading[p] # NoAcceptor
  BY <1>0, <1>2 DEF GoesToNext, PortOK, ReadOK
<1>4. cur.seg = last /\ cur.at = SegmentRoom + 1 /\ len = SegmentRoom
  <2>1. cur \in [seg : 1 .. last, at : 1 .. SegmentRoom + 1] /\ Valid(p, cur)
    BY <1>0, <1>2 DEF PortOK, ChannelOK
  <2>2. cur.seg = last
    BY <1>0, <1>2, <1>3 DEF PortOK, ReadOK, AtLimit
  <2>3. cur.at <= len + 1
    BY <1>0, <2>1, <2>2 DEF Valid
  <2> QED BY <1>1, <1>2, <2>1, <2>2, <2>3
<1>5. /\ LastSegment(p)' = last + 1
      /\ channel'[p][last + 1] = <<>>
      /\ \A n \in 1 .. last : channel'[p][n] = channel[p][n]
  BY <1>0, GrowthAtEnd DEF GoesToNext, PortOK
<1>6. PlacesOf(p)' = [seg : 1 .. last + 1, at : 1 .. SegmentRoom] /\ PlacesOf(p) = [seg : 1 .. last, at : 1 .. SegmentRoom]
  BY <1>0, <1>5 DEF PlacesOf
<1>7. ASSUME NEW place \in PlacesOf(p)
      PROVE  (HasItem(p, place)' <=> HasItem(p, place)) /\ ItemAt(p, place)' = ItemAt(p, place)
  <2>1. place.seg \in 1 .. last /\ place.at \in 1 .. SegmentRoom
    BY <1>6
  <2>2. channel'[p][place.seg] = channel[p][place.seg]
    BY <1>5, <2>1
  <2>3. ItemAt(p, place)' = ItemAt(p, place)
    BY <2>2 DEF ItemAt
  <2>4. CASE place.seg = last
    <3>1. HasItem(p, place) <=> place.at <= len + (IF len < SegmentRoom /\ last < last THEN 1 ELSE 0)
      BY <1>0, <2>4 DEF HasItem
    <3>2. HasItem(p, place)' <=> place.at <= len + (IF len < SegmentRoom /\ last < last + 1 THEN 1 ELSE 0)
      BY <1>0, <1>5, <2>2, <2>4 DEF HasItem
    <3> QED BY <1>1, <1>4, <2>1, <2>3, <3>1, <3>2
  <2>5. CASE place.seg # last
    <3>1. place.seg < last /\ place.seg < last + 1
      BY <1>1, <2>1, <2>5
    <3>2. (LastSegment(p) > place.seg)' /\ LastSegment(p) > place.seg
      BY <1>0, <1>1, <1>5, <2>1, <3>1
    <3>3. HasItem(p, place)' <=> HasItem(p, place)
      BY <1>0, <1>5, <2>2, <3>1 DEF HasItem
    <3> QED BY <2>3, <3>3
  <2> QED BY <2>4, <2>5
<1>8. ASSUME NEW place \in PlacesOf(p)', place \notin PlacesOf(p) PROVE ~HasItem(p, place)'
  <2>1. place.seg = last + 1 /\ place.at \in 1 .. SegmentRoom
    BY <1>1, <1>6, <1>8
  <2>2. Len(channel'[p][place.seg]) = 0
    BY <1>5, <2>1, EmptySeq
  <2>3. HasItem(p, place)' <=> place.at <= 0 + (IF 0 < SegmentRoom /\ last + 1 < last + 1 THEN 1 ELSE 0)
    BY <1>5, <2>1, <2>2 DEF HasItem
  <2> QED BY <1>1, <2>1, <2>3
<1>9. PlacesOf(p) \subseteq PlacesOf(p)'
  BY <1>1, <1>6
<1>10. KeepsItems(p)
  <2>1. Places(p)' = Places(p)
    BY <1>7, <1>8, <1>9 DEF Places
  <2> QED BY <1>7, <2>1 DEF KeepsItems, Places
<1>11. ASSUME NEW q \in Places(p) PROVE Before(q, cur) /\ Before(q, next)
  <2>1. q.seg \in 1 .. last /\ q.at \in 1 .. SegmentRoom
    BY <1>6 DEF Places
  <2>2. next.seg = last + 1
    BY <1>0
  <2> QED BY <1>1, <1>4, <2>1, <2>2 DEF Before
<1>12. {q \in Places(p) : Before(q, cur)} = Places(p) /\ {q \in Places(p) : Before(q, next)} = Places(p)
  BY <1>11
<1>13. Index(p, cur) = Cardinality(Places(p)) /\ Index(p, next) = Cardinality(Places(p))
  BY <1>12 DEF Index
<1>14. Current(p) = cur
  BY <1>0, <1>2 DEF Current
<1>15. Current(p)' = next
  <2>1. nextsym'[p] = next
    BY <1>0 DEF GoesToNext, PortShapes
  <2>2. next # NoPlace
    BY <1>0, <1>1 DEF NoPlace
  <2> QED BY <2>1, <2>2 DEF Current
<1>16. Index(p, next)' = Index(p, next)
  BY <1>10, KeptIndex
<1> QED BY <1>3, <1>10, <1>13, <1>14, <1>15, <1>16

-----------------------------------------------------------------------------
(* What is in the channel is what was in the file *)

\* With the items what is in the channel stays right.
LEMMA KeptContent ==
  ASSUME NEW p \in Iports, Content(p), KeepsItems(p), data' = data
  PROVE  Content(p)'
<1>1. Places(p)' = Places(p) /\ \A place : Index(p, place)' = Index(p, place)
  BY KeptIndex DEF KeepsItems
<1>2. \A n : Port!Item(p, n)' = Port!Item(p, n)
  BY DEF Port!Item
<1>3. ASSUME NEW place \in Places(p) PROVE ItemAt(p, place)' = Port!Item(p, Index(p, place) + 1)'
  <2>1. ItemAt(p, place) = Port!Item(p, Index(p, place) + 1) /\ ItemAt(p, place)' = ItemAt(p, place)
    BY DEF Content, KeepsItems
  <2>2. Index(p, place)' = Index(p, place)
    BY <1>1
  <2> QED BY <2>1, <2>2 DEF Port!Item
<1> QED BY <1>1, <1>3 DEF Content

\* A new item is the next one of the file.
LEMMA GainedContent ==
  ASSUME PortShapes, NEW p \in Iports, ChannelOK(p), NEW cur, NEW item, Gains(p, cur, item),
         Content(p), data' = data, item = Port!Item(p, Cardinality(Places(p)) + 1)
  PROVE  Content(p)'
<1>1. ASSUME NEW place \in Places(p)' PROVE ItemAt(p, place)' = Port!Item(p, Index(p, place) + 1)'
  <2>1. CASE place = cur
    <3>1. Index(p, place)' = Cardinality(Places(p)) /\ ItemAt(p, place)' = item
      BY <2>1, GainedIndex DEF Gains
    <3> QED BY <3>1 DEF Port!Item
  <2>2. CASE place \in Places(p)
    <3>1. place \in PlacesOf(p) /\ Valid(p, place)
      BY <2>2, ItemValid
    <3>2. Index(p, place)' = Index(p, place)
      BY <3>1, GainedIndex
    <3>3. ItemAt(p, place)' = ItemAt(p, place) /\ ItemAt(p, place) = Port!Item(p, Index(p, place) + 1)
      BY <2>2 DEF Gains, Content
    <3> QED BY <3>2, <3>3 DEF Port!Item
  <2> QED BY <2>1, <2>2 DEF Gains
<1> QED BY <1>1 DEF Content

\* How a turn of the read process changes the items of its channel.
TurnItems(p) ==
  /\ Content(p)' /\ FileRead(p)'
  /\ \A place \in PlacesOf(p) : Valid(p, place) => Index(p, place)' = Index(p, place)

\* A decoded symbol is the next item of the file, ...
LEMMA DecodesItems ==
  ASSUME PortShapes, OtherShapes, NEW p \in Iports, PortOK(p), Content(p), FileRead(p), Decodes(p),
         NEW cur, cur = Current(p)
  PROVE  LET symbol == data[p][offset[p] - buffered[p] + 1] IN
           /\ symbol = Port!Item(p, Cardinality(Places(p)) + 1)
           /\ Gains(p, cur, symbol)
           /\ TurnItems(p)
<1>0. PICK symbol, n : symbol = data[p][offset[p] - buffered[p] + 1] /\ n = Cardinality(Places(p))
  OBVIOUS
<1>1. Gains(p, cur, symbol) /\ ChannelOK(p) /\ BufferOK(p)
  BY <1>0, DecodesGains DEF PortOK
<1>2. /\ Len(data[p]) \in Nat /\ offset[p] \in Nat /\ buffered[p] \in Nat
      /\ buffered[p] <= offset[p] /\ offset[p] <= Len(data[p]) /\ n \in Nat
  BY <1>0, <1>1, FileTyped, PlacesFinite
<1>3. n = offset[p] - buffered[p] /\ buffered[p] > 0
  BY <1>0, <1>2 DEF FileRead, Decodes
<1>4. symbol = Port!Item(p, n + 1)
  <2>1. n + 1 <= Len(data[p]) /\ symbol = data[p][n + 1]
    BY <1>0, <1>2, <1>3
  <2> QED BY <2>1 DEF Port!Item
<1>5. data' = data
  BY DEF Decodes, FedBy
<1>6. Content(p)'
  BY <1>0, <1>1, <1>4, <1>5, GainedContent
<1>7. Cardinality(Places(p))' = n + 1 /\ \A place \in PlacesOf(p) : Valid(p, place) => Index(p, place)' = Index(p, place)
  BY <1>0, <1>1, GainedIndex
<1>8. offset'[p] = offset[p] /\ buffered'[p] = buffered[p] - 1
  BY DEF Decodes, PortShapes
<1>9. FileRead(p)'
  <2>1. n + 1 = offset'[p] - buffered'[p]
    BY <1>2, <1>3, <1>8
  <2> QED BY <1>7, <2>1 DEF FileRead
<1> QED BY <1>0, <1>1, <1>4, <1>6, <1>7, <1>9 DEF TurnItems

\* ... and so is an end of file, also behind the last item.
LEMMA FindsEofItems ==
  ASSUME PortShapes, OtherShapes, NEW p \in Iports, PortOK(p), Content(p), FileRead(p), FindsEof(p),
         NEW cur, cur = Current(p)
  PROVE  /\ Eof = Port!Item(p, Cardinality(Places(p)) + 1)
         /\ Gains(p, cur, Eof)
         /\ TurnItems(p)
<1>0. PICK n : n = Cardinality(Places(p))
  OBVIOUS
<1>1. Gains(p, cur, Eof) /\ ChannelOK(p) /\ BufferOK(p)
  BY FindsEofGains DEF PortOK
<1>2. /\ Len(data[p]) \in Nat /\ offset[p] \in Nat /\ buffered[p] = 0
      /\ offset[p] <= Len(data[p]) /\ n \in Nat
  BY <1>0, <1>1, FileTyped, PlacesFinite DEF FindsEof
<1>3. /\ n = offset[p] \/ (n >= Len(data[p]) /\ offset[p] = Len(data[p]))
      /\ offset[p] < Len(data[p]) => data[p][offset[p] + 1] = Eof
  BY <1>0, <1>2 DEF FileRead, FindsEof
<1>4. Eof = Port!Item(p, n + 1)
  <2>1. n + 1 <= Len(data[p]) => n = offset[p] /\ offset[p] < Len(data[p])
    BY <1>2, <1>3
  <2> QED BY <1>3, <2>1 DEF Port!Item
<1>5. data' = data
  BY DEF FindsEof, FedBy
<1>6. Content(p)'
  BY <1>0, <1>1, <1>4, <1>5, GainedContent
<1>7. Cardinality(Places(p))' = n + 1 /\ \A place \in PlacesOf(p) : Valid(p, place) => Index(p, place)' = Index(p, place)
  BY <1>0, <1>1, GainedIndex
<1>8. offset'[p] = (IF offset[p] < Len(data[p]) THEN offset[p] + 1 ELSE offset[p]) /\ buffered'[p] = 0
  BY <1>2 DEF FindsEof, PortShapes
<1>9. FileRead(p)'
  <2>1. CASE offset[p] < Len(data[p])
    <3>1. n + 1 = offset'[p] - buffered'[p]
      BY <1>2, <1>3, <1>8, <2>1
    <3> QED BY <1>7, <3>1 DEF FileRead
  <2>2. CASE ~(offset[p] < Len(data[p]))
    <3>1. n + 1 >= Len(data[p]) /\ offset'[p] = Len(data[p])
      BY <1>2, <1>3, <1>8, <2>2
    <3> QED BY <1>5, <1>7, <1>8, <3>1 DEF FileRead
  <2> QED BY <2>1, <2>2
<1> QED BY <1>0, <1>1, <1>4, <1>6, <1>7, <1>9 DEF TurnItems

\* No turn spoils the channel, or changes the number of a place.
LEMMA ItemsOfTurn ==
  ASSUME PortShapes, OtherShapes, NEW p \in Iports, PortOK(p), Content(p), FileRead(p), TurnKinds(p)
  PROVE  TurnItems(p)
<1>0. data' = data
  BY TurnKeepsData
<1>1. ASSUME KeepsItems(p), FileRead(p)' PROVE TurnItems(p)
  BY <1>0, <1>1, KeptContent, KeptIndex DEF TurnItems
<1>2. CASE UNCHANGED <<channel, offset, buffered>>
  <2>1. KeepsItems(p)
    BY <1>2, SameKeeps
  <2>2. Cardinality(Places(p))' = Cardinality(Places(p))
    BY <2>1, KeptIndex
  <2> QED BY <1>0, <1>1, <1>2, <2>1, <2>2 DEF FileRead
<1>3. CASE Decodes(p)
  BY <1>3, DecodesItems
<1>4. CASE FindsEof(p)
  BY <1>4, FindsEofItems
<1>5. CASE Refills(p)
  <2>1. KeepsItems(p)
    BY <1>5, SameKeeps DEF Refills
  <2>2. Cardinality(Places(p))' = Cardinality(Places(p))
    BY <2>1, KeptIndex
  <2>3. PICK n \in offset[p] + 1 .. Len(data[p]) : offset'[p] = n /\ buffered'[p] = n - offset[p]
    BY <1>5 DEF Refills, PortShapes
  <2>4. /\ Len(data[p]) \in Nat /\ offset[p] \in Nat /\ buffered[p] = 0
    BY <1>5, FileTyped DEF Refills, PortOK
  <2>5. Cardinality(Places(p)) = offset[p]
    BY <2>3, <2>4 DEF FileRead
  <2>6. Cardinality(Places(p))' = offset'[p] - buffered'[p]
    BY <2>2, <2>3, <2>4, <2>5
  <2> QED BY <1>1, <2>1, <2>6 DEF FileRead
<1>6. CASE GoesToNext(p)
  <2>1. KeepsItems(p)
    BY <1>6, NextKeeps
  <2>2. Cardinality(Places(p))' = Cardinality(Places(p))
    BY <2>1, KeptIndex
  <2> QED BY <1>1, <1>6, <2>1, <2>2 DEF FileRead, GoesToNext, files
<1> QED BY <1>2, <1>3, <1>4, <1>5, <1>6 DEF TurnKinds, Ends, GivesUp, Knows, KnowsEof, Accepts, AcceptorAccepts, port, files

-----------------------------------------------------------------------------
(* All steps: the items, and what walkers have seen of them *)

\* Items, and who has got to which of them, are changed by turns of the read process, reads
\* and walkers only.
LEMMA StepKinds ==
  ASSUME InputInv, [InputNext]_vars
  PROVE  \/ \E p \in Iports : (ReaderTurn(p) \/ ReaderCloses(p)) /\ TurnKinds(p) /\ UNCHANGED walk
         \/ \E p \in Iports : ExecRead /\ p = Head(left).port /\ ReadTakes(p)
         \/ \E w \in Walkers : WalkerStep(w)
         \/ UNCHANGED <<reading, position, nextsym, channel, data, offset, buffered, walk>>
<1> DEFINE Same == UNCHANGED <<reading, position, nextsym, channel, data, offset, buffered, walk>>
<1>1. CASE ExecRead
  <2>1. PICK p \in Iports : p = Head(left).port /\ (ReadRefused(p) \/ ReadTakes(p) \/ ReadBlocks(p))
    BY <1>1 DEF ExecRead
  <2>2. CASE ReadTakes(p)
    BY <1>1, <2>1, <2>2
  <2>3. CASE ReadRefused(p) \/ ReadBlocks(p)
    <3>1. Same
      BY <1>1, <2>3 DEF ExecRead, ReadRefused, ReadBlocks, files
    <3> QED BY <3>1
  <2> QED BY <2>1, <2>2, <2>3
<1>2. CASE MainStep /\ ~ExecRead
  <2>1. Same
    BY <1>2 DEF MainStep, Open, OpenTakesThread, NameBlocks, NameFails, NameReady, OpenRegisters, Goes,
                StatementDone, ReadThreadsDown, port, files
  <2> QED BY <2>1
<1>3. ASSUME NEW p \in Iports, ReaderTurn(p) \/ ReaderCloses(p)
      PROVE  TurnKinds(p) /\ UNCHANGED walk
  <2>1. TurnKinds(p)
    BY <1>3, TurnIsOfKind DEF InputInv
  <2>2. UNCHANGED walk
    BY <1>3 DEF ReaderTurn, ReaderCloses
  <2> QED BY <2>1, <2>2
<1>4. CASE ReaderStep \/ AceLeaves \/ Collection \/ MemoryFills \/ Over \/ UNCHANGED vars
  <2>1. Same
    BY <1>4 DEF ReaderStep, ReaderGivesUp, ReaderGoesOn, ReaderLeaves, AceLeaves, Collection, CollectionSucceeds,
                CollectionCrashes, CollectionFails, MemoryFills, Over, vars, port, files
  <2> QED BY <2>1
<1> QED BY <1>1, <1>2, <1>3, <1>4 DEF InputNext

\* Nor does what leaves the channel and the file alone, ...
LEMMA ItemsStay ==
  ASSUME NEW p \in Iports, channel'[p] = channel[p], data' = data, offset'[p] = offset[p],
         buffered'[p] = buffered[p], Content(p), FileRead(p)
  PROVE  TurnItems(p)
<1>1. KeepsItems(p)
  BY SameKeeps
<1>2. Cardinality(Places(p))' = Cardinality(Places(p)) /\ \A place : Index(p, place)' = Index(p, place)
  BY <1>1, KeptIndex
<1>3. Content(p)'
  BY <1>1, KeptContent
<1>4. FileRead(p)'
  BY <1>2 DEF FileRead
<1> QED BY <1>2, <1>3, <1>4 DEF TurnItems

\* ... and no step does.
LEMMA ItemsStep ==
  ASSUME InputInv, ContentInv, [InputNext]_vars, NEW p \in Iports
  PROVE  TurnItems(p)
<1>0. PortShapes /\ OtherShapes /\ PortOK(p) /\ ChannelOK(p) /\ Content(p) /\ FileRead(p)
  BY DEF InputInv, ContentInv, PortOK
<1>1. CASE UNCHANGED <<channel, data, offset, buffered>>
  BY <1>0, <1>1, ItemsStay
<1>2. ASSUME NEW q \in Iports, TurnKinds(q) PROVE TurnItems(p)
  <2>1. CASE q = p
    BY <1>0, <1>2, <2>1, ItemsOfTurn
  <2>2. CASE q # p
    <3>1. ChannelOK(q)
      BY DEF InputInv, PortOK
    <3>2. channel'[p] = channel[p] /\ data' = data /\ offset'[p] = offset[p] /\ buffered'[p] = buffered[p]
      BY <1>0, <1>2, <2>2, <3>1, TurnElsewhere
    <3> QED BY <1>0, <3>2, ItemsStay
  <2> QED BY <2>1, <2>2
<1>3. CASE ExecRead
  BY <1>1, <1>3 DEF ExecRead, files
<1>4. ASSUME NEW w \in Walkers, WalkerStep(w) PROVE TurnItems(p)
  BY <1>1, <1>4 DEF WalkerStep, files
<1> QED BY <1>1, <1>2, <1>3, <1>4, StepKinds

\* What a walker that goes on has seen.
LEMMA SeenStays ==
  ASSUME NEW w \in Walkers, WalkOK(w), Seen(w), TurnItems(walk[w].port), walk'[w] = walk[w]
  PROVE  Seen(w)'
<1>0. PICK x : x = walk[w]
  OBVIOUS
<1>1. /\ x.from \in PlacesOf(x.port) /\ Valid(x.port, x.from)
      /\ x.at \in PlacesOf(x.port) /\ Valid(x.port, x.at)
  BY <1>0 DEF WalkOK
<1>2. Index(x.port, x.from)' = Index(x.port, x.from) /\ Index(x.port, x.at)' = Index(x.port, x.at)
  BY <1>0, <1>1 DEF TurnItems
<1> QED BY <1>0, <1>2 DEF Seen

\* A walker has seen what is before the place it goes to.
LEMMA WalkerSeen ==
  ASSUME InputInv, ContentInv, NEW w \in Walkers, WalkerStep(w)
  PROVE  Seen(w)'
<1>0. PICK x, y : x = walk[w] /\ y = walk'[w]
  OBVIOUS
<1>00. PICK p, place, from : p = x.port /\ place = x.at /\ from = x.from
  OBVIOUS
<1>1. walk \in [Walkers -> Walk] /\ UNCHANGED <<channel, files>> /\ x # NoWalk
  BY <1>0 DEF InputInv, OtherShapes, WalkerStep, NoWalk
<1>2. /\ WalkOK(w) /\ p \in Iports /\ place \in PlacesOf(p) /\ x \in Walk /\ Seen(w)
      /\ SegmentRoom \in Nat /\ PortShapes /\ ChannelOK(p)
  BY <1>0, <1>00, <1>1, WalkerAt DEF PortOK, ContentInv
<1>3. Places(p)' = Places(p) /\ \A pl : Index(p, pl)' = Index(p, pl)
  <2>1. KeepsItems(p)
    BY <1>1, <1>2, SameKeeps
  <2>2. Places(p)' = Places(p)
    BY <2>1 DEF KeepsItems
  <2>3. \A pl : Index(p, pl)' = Index(p, pl)
    BY <1>2, <2>1, KeptIndex
  <2> QED BY <2>2, <2>3
<1>4. Index(p, from) \in Nat /\ Index(p, place) \in Nat /\ Len(x.seen) \in Nat
  BY <1>2, PlacesFinite, LenProperties DEF Walk
<1>5. /\ x.needs = "symbol" => Index(p, from) + Len(x.seen) = Index(p, place)
      /\ x.needs = "segment" => Index(p, from) + Len(x.seen) = Index(p, place) + 1
  BY <1>0, <1>00, <1>2 DEF Seen
<1>6. ASSUME y.port = p, y.from = from,
             y.needs = "symbol" => Index(p, from) + Len(y.seen) = Index(p, y.at),
             y.needs = "segment" => Index(p, from) + Len(y.seen) = Index(p, y.at) + 1
      PROVE  Seen(w)'
  BY <1>0, <1>3, <1>6 DEF Seen
<1>7. CASE WalkerSees(w)
  <2>1. PICK item : y = Continue(w, item) /\ place \in Places(p) /\ item \in Symbols \cup {Eof}
    <3>1. CASE place.at <= Len(Here(w)) /\ walk' = [walk EXCEPT ![w] = Continue(w, Here(w)[place.at])]
      <4>1. place \in Places(p)
        BY <1>0, <1>00, <1>1, <3>1, SeesItem
      <4>2. Here(w)[place.at] \in Symbols
        <5>1. channel[p][place.seg] \in Seq(Symbols)
          BY <1>0, <1>00, <1>1, WalkerAt
        <5>2. place.at \in 1 .. Len(channel[p][place.seg])
          BY <1>0, <1>00, <1>2, <3>1, <5>1, LenProperties DEF Here, PlacesOf
        <5> QED BY <1>0, <1>00, <5>1, <5>2, ElementOfSeq DEF Here
      <4> QED BY <1>0, <1>1, <3>1, <4>1, <4>2
    <3>2. CASE place.at > Len(Here(w)) /\ place.seg < LastSegment(p) /\ walk' = [walk EXCEPT ![w] = Continue(w, Eof)]
      <4>1. place \in Places(p)
        BY <1>0, <1>00, <1>1, <3>2, SeesItem
      <4> QED BY <1>0, <1>1, <3>2, <4>1
    <3> QED BY <1>0, <1>00, <1>7, <3>1, <3>2 DEF WalkerSees
  <2> DEFINE need == NextNeed(place, Here(w))
  <2>2. /\ y.port = p /\ y.from = from /\ y.seen = Append(x.seen, item)
        /\ y.needs = (IF x.togo = 1 THEN "nothing" ELSE need)
        /\ x.togo # 1 /\ need = "symbol" => y.at = [seg |-> place.seg, at |-> place.at + 1]
        /\ x.togo # 1 /\ need = "segment" => y.at = place
    <3>1. x = [port |-> p, from |-> from, at |-> place, needs |-> x.needs,
               togo |-> x.togo, seen |-> x.seen, asked |-> x.asked]
      BY <1>00, <1>2 DEF Walk
    <3>2. y = [x EXCEPT !.seen = Append(@, item), !.togo = @ - 1,
                        !.needs = IF x.togo = 1 THEN "nothing" ELSE need,
                        !.at.at = IF x.togo = 1 \/ need = "segment" THEN @ ELSE @ + 1]
      BY <1>0, <1>00, <2>1 DEF Continue
    <3> HIDE DEF need
    <3>3. place = [seg |-> place.seg, at |-> place.at]
      BY <1>2 DEF PlacesOf
    <3>4. /\ y.port = x.port /\ y.from = x.from /\ y.seen = Append(x.seen, item)
          /\ y.needs = (IF x.togo = 1 THEN "nothing" ELSE need)
          /\ y.at = [x.at EXCEPT !.at = IF x.togo = 1 \/ need = "segment" THEN @ ELSE @ + 1]
      BY <3>1, <3>2
    <3>5. [place EXCEPT !.at = IF x.togo = 1 \/ need = "segment" THEN @ ELSE @ + 1]
            = [seg |-> place.seg, at |-> IF x.togo = 1 \/ need = "segment" THEN place.at ELSE place.at + 1]
      BY <3>3
    <3> QED BY <1>00, <3>3, <3>4, <3>5
  <2>3. Len(y.seen) = Len(x.seen) + 1
    BY <1>2, <2>1, <2>2, AppendProperties DEF Walk
  <2>4. need \in {"symbol", "segment"}
    BY DEF NextNeed
  <2>5. Index(p, [seg |-> place.seg, at |-> place.at + 1]) = Index(p, place) + 1
    BY <1>2, <2>1, StepInside
  <2>6. x.needs = "symbol"
    BY <1>0, <1>7 DEF WalkerSees
  <2> HIDE DEF need
  <2>7. y.needs = "symbol" => Index(p, from) + Len(y.seen) = Index(p, y.at)
    <3> SUFFICES ASSUME y.needs = "symbol" PROVE Index(p, from) + Len(y.seen) = Index(p, y.at)
      OBVIOUS
    <3>1. y.at = [seg |-> place.seg, at |-> place.at + 1]
      BY <2>2, <2>4
    <3>2. Index(p, y.at) = Index(p, place) + 1
      BY <2>5, <3>1
    <3> QED BY <1>4, <1>5, <2>3, <2>6, <3>2
  <2>8. y.needs = "segment" => Index(p, from) + Len(y.seen) = Index(p, y.at) + 1
    <3> SUFFICES ASSUME y.needs = "segment" PROVE Index(p, from) + Len(y.seen) = Index(p, y.at) + 1
      OBVIOUS
    <3>1. y.at = place
      BY <2>2, <2>4
    <3> QED BY <1>4, <1>5, <2>3, <2>6, <3>1
  <2> QED BY <1>6, <2>2, <2>7, <2>8
<1>8. CASE WalkerFails(w)
  <2>1. y.needs = "failed" /\ y.port = p /\ y.from = from
    BY <1>0, <1>00, <1>1, <1>2, <1>8 DEF WalkerFails, Walk
  <2> QED BY <1>6, <2>1
<1>9. CASE WalkerCrosses(w)
  <2>1. /\ y.needs = "symbol" /\ y.port = p /\ y.from = from /\ y.seen = x.seen
        /\ y.at = [seg |-> place.seg + 1, at |-> 1]
    BY <1>0, <1>00, <1>1, <1>2, <1>9 DEF WalkerCrosses, Walk
  <2>2. x.needs = "segment" /\ place \in Places(p) /\ LastItem(p, place)
    BY <1>0, <1>00, <1>2, <1>9 DEF WalkerCrosses, WalkOK, LastItem
  <2>3. Index(p, y.at) = Index(p, place) + 1
    BY <1>2, <2>1, <2>2, StepAcross
  <2> QED BY <1>4, <1>5, <1>6, <2>1, <2>2, <2>3
<1>10. CASE WalkerBlocks(w)
  <2>1. y.needs = x.needs /\ y.port = p /\ y.from = from /\ y.seen = x.seen /\ y.at = place
    BY <1>0, <1>00, <1>1, <1>2, <1>10 DEF WalkerBlocks, Walk
  <2> QED BY <1>5, <1>6, <2>1
<1>11. CASE WalkerSpins(w)
  <2>1. y = x
    BY <1>0, <1>11 DEF WalkerSpins
  <2> QED BY <1>00, <1>5, <1>6, <2>1
<1> QED BY <1>7, <1>8, <1>9, <1>10, <1>11 DEF WalkerStep

\* So it is for all walkers, in every step.
LEMMA SeenStep ==
  ASSUME InputInv, ContentInv, [InputNext]_vars, NEW w \in Walkers
  PROVE  walk'[w] = NoWalk \/ Seen(w)'
<1>1. walk \in [Walkers -> Walk]
  BY DEF InputInv, OtherShapes
<1>2. CASE walk'[w] = walk[w]
  <2>1. CASE walk[w] = NoWalk
    BY <1>2, <2>1
  <2>2. CASE walk[w] # NoWalk
    <3>1. WalkOK(w) /\ Seen(w) /\ walk[w].port \in Iports
      BY <2>2 DEF InputInv, ContentInv, WalkOK
    <3>2. TurnItems(walk[w].port)
      BY <3>1, ItemsStep
    <3> QED BY <1>2, <3>1, <3>2, SeenStays
  <2> QED BY <2>1, <2>2
<1>3. ASSUME NEW p \in Iports, ExecRead, p = Head(left).port, ReadTakes(p)
      PROVE  walk'[w] = NoWalk \/ Seen(w)'
  <2>1. PICK s : s = Head(left)
    OBVIOUS
  <2>2. PICK new :
          /\ s.walker \in Walkers
          /\ walk' = [walk EXCEPT ![s.walker] = new]
          /\ new = [port |-> p, from |-> position[p], at |-> position[p], needs |-> "symbol",
                    togo |-> s.walk, seen |-> <<>>, asked |-> FALSE]
    BY <1>3, <2>1, FreshWalk
  <2>3. CASE w = s.walker
    <3>1. walk'[w] = new
      BY <1>1, <2>2, <2>3
    <3>2. PICK place : place = position[p]
      OBVIOUS
    <3>3. new.from = place /\ new.at = place /\ new.needs = "symbol" /\ new.port = p /\ new.seen = <<>>
      BY <2>2, <3>2
    <3>4. Len(new.seen) = 0 /\ Index(p, place)' \in Int
      <4>1. (\A q \in Iports : PortOK(q))' /\ PortShapes'
        BY PortsStep
      <4>2. Index(p, place) \in Nat /\ Index(p, place)' = Index(p, place)
        <5>1. PortShapes /\ ChannelOK(p) /\ channel' = channel
          BY <1>3 DEF InputInv, PortOK, ExecRead
        <5>2. Index(p, place) \in Nat
          BY <5>1, PlacesFinite
        <5>3. KeepsItems(p)
          BY <5>1, SameKeeps
        <5> QED BY <5>2, <5>3, KeptIndex
      <4> QED BY <3>3, <4>2, EmptySeq
    <3>5. Seen(w)'
      BY <3>1, <3>3, <3>4 DEF Seen
    <3> QED BY <3>5
  <2>4. CASE w # s.walker
    <3>1. walk'[w] = walk[w]
      BY <1>1, <2>2, <2>4
    <3> QED BY <1>2, <3>1
  <2> QED BY <2>3, <2>4
<1>4. ASSUME NEW v \in Walkers, WalkerStep(v)
      PROVE  walk'[w] = NoWalk \/ Seen(w)'
  <2>1. CASE w = v
    BY <1>4, <2>1, WalkerSeen
  <2>2. CASE w # v
    BY <1>2, <1>4, <2>2, WalkerKeeps
  <2> QED BY <2>1, <2>2
<1> QED BY <1>2, <1>3, <1>4, StepKinds

\* What is in the channels and what has been seen stays right.
LEMMA ContentStep ==
  ASSUME InputInv, ContentInv, [InputNext]_vars
  PROVE  ContentInv'
<1>1. ASSUME NEW p \in Iports PROVE Content(p)' /\ FileRead(p)'
  BY ItemsStep DEF TurnItems
<1>2. ASSUME NEW w \in Walkers PROVE walk'[w] = NoWalk \/ Seen(w)'
  BY SeenStep
<1> QED BY <1>1, <1>2 DEF ContentInv

\* At the start no channel has any items.
LEMMA NoItems ==
  ASSUME InputInit, NEW p \in Iports
  PROVE  /\ Places(p) = {} /\ Cardinality(Places(p)) = 0
         /\ \A place : Index(p, place) = 0
<1>1. LastSegment(p) = 1 /\ Len(channel[p][1]) = 0
  <2>1. channel[p] = <<<<>>>>
    BY DEF InputInit
  <2> QED BY <2>1, EmptySeq DEF LastSegment
<1>2. ASSUME NEW place \in PlacesOf(p) PROVE ~HasItem(p, place)
  <2>1. place.seg = 1 /\ place.at \in 1 .. SegmentRoom
    BY <1>1 DEF PlacesOf
  <2>2. HasItem(p, place) <=> place.at <= 0 + (IF 0 < SegmentRoom /\ 1 < 1 THEN 1 ELSE 0)
    BY <1>1, <2>1 DEF HasItem
  <2> QED BY <2>1, <2>2, RoomForInput
<1>3. Places(p) = {}
  BY <1>2 DEF Places
<1>4. Cardinality({}) = 0
  BY FS_EmptySet
<1>5. ASSUME NEW place PROVE Index(p, place) = 0
  <2>1. {q \in Places(p) : Before(q, place)} = {}
    BY <1>3
  <2> QED BY <1>4, <2>1 DEF Index
<1> QED BY <1>3, <1>4, <1>5

\* At the start there are no items.
LEMMA ContentInitially == InputInit => ContentInv
<1> SUFFICES ASSUME InputInit PROVE ContentInv
  OBVIOUS
<1>1. ASSUME NEW p \in Iports PROVE Content(p) /\ FileRead(p)
  <2>1. Places(p) = {} /\ Cardinality(Places(p)) = 0
    BY NoItems
  <2>2. offset[p] = 0 /\ buffered[p] = 0
    BY DEF InputInit
  <2> QED BY <2>1, <2>2 DEF Content, FileRead
<1>2. \A w \in Walkers : walk[w] = NoWalk
  BY DEF InputInit
<1> QED BY <1>1, <1>2 DEF ContentInv

\* What has been read is what was in the file, and a walker has seen what is before it.
THEOREM ContentRight == InputSpec => []ContentInv
<1>1. InputInit => ContentInv
  BY ContentInitially
<1>2. InputInv /\ ContentInv /\ [InputNext]_vars => ContentInv'
  BY ContentStep
<1> QED BY <1>1, <1>2, InputInductive, PTL DEF InputSpec

-----------------------------------------------------------------------------
(* The ports a program reads from *)

\* The variables of the abstract ports
Accepted == [p \in Iports |-> Index(p, position[p])]
Taken == [p \in Iports |-> Index(p, Current(p))]
Known == [p \in Iports |-> Cardinality(Places(p))]
Heard == [p \in Iports |-> reading[p].heard]
Walks == [w \in Walkers |->
            [port |-> walk[w].port, seen |-> walk[w].seen,
             from |-> IF walk[w] = NoWalk THEN 0 ELSE Index(walk[w].port, walk[w].from)]]

\* The steps of the abstract ports, in terms of these
LEMMA TakeIs ==
  ASSUME NEW p \in Iports, NEW item,
         item = Port!Item(p, Taken'[p]),
         Taken' = [Taken EXCEPT ![p] = @ + 1],
         Heard' = [Heard EXCEPT ![p] = Append(@, item)],
         Known' = [Known EXCEPT ![p] = IF @ < Taken'[p] THEN Taken'[p] ELSE @],
         data' = data, Accepted' = Accepted, Walks' = Walks
  PROVE  Port!Take(p)
BY DEF Port!Take, Taken, Heard, Known, Accepted, Walks

\* A read accepts what it has taken.
LEMMA AcceptIs ==
  ASSUME NEW p \in Iports, Accepted' = [Accepted EXCEPT ![p] = Taken[p]],
         data' = data, Taken' = Taken, Known' = Known, Heard' = Heard, Walks' = Walks
  PROVE  Port!Accept(p)
BY DEF Port!Accept, Taken, Heard, Known, Accepted, Walks

\* A read is over.
LEMMA FinishIs ==
  ASSUME NEW p \in Iports, Taken' = Taken \/ Taken' = [Taken EXCEPT ![p] = Accepted[p]],
         Heard' = [Heard EXCEPT ![p] = <<>>],
         data' = data, Accepted' = Accepted, Known' = Known, Walks' = Walks
  PROVE  Port!Finish(p)
BY DEF Port!Finish, Taken, Heard, Known, Accepted, Walks

\* A read starts, with its walker.
LEMMA ReadIs ==
  ASSUME NEW p \in Iports, NEW w \in Walkers,
         Taken[p] = Accepted[p], Heard[p] = <<>>, Walks[w] = Port!NoWalk,
         Walks' = [Walks EXCEPT ![w] = [port |-> p, from |-> Accepted[p], seen |-> <<>>]],
         data' = data, Accepted' = Accepted, Taken' = Taken, Known' = Known, Heard' = Heard
  PROVE  Port!Read(p, w)
BY DEF Port!Read, Taken, Heard, Known, Accepted, Walks

\* A walker sees an item.
LEMMA SeeIs ==
  ASSUME NEW w \in Walkers, NEW p, NEW n, Walks[w] # Port!NoWalk,
         p = Walks[w].port, n = Walks[w].from + Len(Walks[w].seen) + 1,
         n <= Known[p],
         Walks' = [Walks EXCEPT ![w].seen = Append(@, Port!Item(p, n))],
         data' = data, Accepted' = Accepted, Taken' = Taken, Known' = Known, Heard' = Heard
  PROVE  Port!See(w)
BY DEF Port!See, Taken, Heard, Known, Accepted, Walks

\* Nothing happens at the abstract ports.
LEMMA NothingIs ==
  ASSUME data' = data, Accepted' = Accepted, Taken' = Taken, Known' = Known, Heard' = Heard, Walks' = Walks
  PROVE  UNCHANGED Port!inputVars
BY DEF Port!inputVars, Taken, Heard, Known, Accepted, Walks

\* A turn at an iport changes nothing of the others, and no walk.
LEMMA TurnFrame ==
  ASSUME InputInv, ContentInv, [InputNext]_vars, NEW p \in Iports, TurnKinds(p), walk' = walk
  PROVE  /\ data' = data /\ Walks' = Walks
         /\ \A n : Index(p, position[p])' = n => Accepted' = [Accepted EXCEPT ![p] = n]
         /\ \A n : Index(p, Current(p))' = n => Taken' = [Taken EXCEPT ![p] = n]
         /\ \A n : Cardinality(Places(p))' = n => Known' = [Known EXCEPT ![p] = n]
         /\ \A h : reading'[p].heard = h => Heard' = [Heard EXCEPT ![p] = h]
<1>0. PortShapes /\ OtherShapes /\ ChannelOK(p)
  BY DEF InputInv, PortOK
<1>1. data' = data
  BY TurnKeepsData
<1>2. ASSUME NEW q \in Iports, q # p
      PROVE  /\ Index(q, position[q])' = Index(q, position[q]) /\ Index(q, Current(q))' = Index(q, Current(q))
             /\ Cardinality(Places(q))' = Cardinality(Places(q)) /\ reading'[q] = reading[q]
  <2>1. /\ reading'[q] = reading[q] /\ position'[q] = position[q] /\ nextsym'[q] = nextsym[q]
        /\ channel'[q] = channel[q]
    BY <1>0, <1>2, TurnElsewhere
  <2>2. Cardinality(Places(q))' = Cardinality(Places(q)) /\ \A place : Index(q, place)' = Index(q, place)
    BY <2>1, SameKeeps, KeptIndex
  <2>3. PICK position0, current0 : position0 = position[q] /\ current0 = Current(q)
    OBVIOUS
  <2>4. position'[q] = position0 /\ Current(q)' = current0
    BY <2>1, <2>3 DEF Current
  <2> QED BY <2>1, <2>2, <2>3, <2>4
<1>3. Walks' = Walks
  <2>1. ASSUME NEW w \in Walkers, walk[w] # NoWalk
        PROVE  Index(walk[w].port, walk[w].from)' = Index(walk[w].port, walk[w].from)
    <3>1. PICK q, from : q = walk[w].port /\ from = walk[w].from
      OBVIOUS
    <3>2. q \in Iports /\ from \in PlacesOf(q) /\ Valid(q, from)
      BY <2>1, <3>1 DEF InputInv, WalkOK
    <3>3. Index(q, from)' = Index(q, from)
      BY <3>2, ItemsStep DEF TurnItems
    <3> QED BY <3>1, <3>3
  <2>2. ASSUME NEW w \in Walkers PROVE Walks'[w] = Walks[w]
    BY <2>1 DEF Walks
  <2> QED BY <2>2 DEF Walks
<1>4. ASSUME NEW n, Index(p, position[p])' = n PROVE Accepted' = [Accepted EXCEPT ![p] = n]
  <2>1. Accepted' = [q \in Iports |-> Index(q, position[q])'] /\ Accepted = [q \in Iports |-> Index(q, position[q])]
    BY DEF Accepted
  <2> QED BY <1>2, <1>4, <2>1, Zenon
<1>5. ASSUME NEW n, Index(p, Current(p))' = n PROVE Taken' = [Taken EXCEPT ![p] = n]
  <2>1. Taken' = [q \in Iports |-> Index(q, Current(q))'] /\ Taken = [q \in Iports |-> Index(q, Current(q))]
    BY DEF Taken
  <2> QED BY <1>2, <1>5, <2>1, Zenon
<1>6. ASSUME NEW n, Cardinality(Places(p))' = n PROVE Known' = [Known EXCEPT ![p] = n]
  <2>1. Known' = [q \in Iports |-> Cardinality(Places(q))'] /\ Known = [q \in Iports |-> Cardinality(Places(q))]
    BY DEF Known
  <2> QED BY <1>2, <1>6, <2>1, Zenon
<1>7. ASSUME NEW h, reading'[p].heard = h PROVE Heard' = [Heard EXCEPT ![p] = h]
  BY <1>2, <1>7 DEF Heard
<1> QED BY <1>1, <1>3, <1>4, <1>5, <1>6, <1>7

\* What does not change at the iport does not change at all.
LEMMA TurnSame ==
  ASSUME InputInv, ContentInv, [InputNext]_vars, NEW p \in Iports, TurnKinds(p), walk' = walk
  PROVE  /\ Index(p, position[p])' = Index(p, position[p]) => Accepted' = Accepted
         /\ Index(p, Current(p))' = Index(p, Current(p)) => Taken' = Taken
         /\ Cardinality(Places(p))' = Cardinality(Places(p)) => Known' = Known
         /\ reading'[p].heard = reading[p].heard => Heard' = Heard
<1>1. /\ Accepted = [Accepted EXCEPT ![p] = Index(p, position[p])]
      /\ Taken = [Taken EXCEPT ![p] = Index(p, Current(p))]
      /\ Known = [Known EXCEPT ![p] = Cardinality(Places(p))]
      /\ Heard = [Heard EXCEPT ![p] = reading[p].heard]
  BY DEF Accepted, Taken, Known, Heard
<1>2. PICK a, t, k, h : /\ a = Index(p, position[p]) /\ t = Index(p, Current(p))
                        /\ k = Cardinality(Places(p)) /\ h = reading[p].heard
  OBVIOUS
<1>3. /\ Index(p, position[p])' = a => Accepted' = [Accepted EXCEPT ![p] = a]
      /\ Index(p, Current(p))' = t => Taken' = [Taken EXCEPT ![p] = t]
      /\ Cardinality(Places(p))' = k => Known' = [Known EXCEPT ![p] = k]
      /\ reading'[p].heard = h => Heard' = [Heard EXCEPT ![p] = h]
  BY TurnFrame
<1> QED BY <1>1, <1>2, <1>3

\* The next item is taken.
LEMMA TakesItem ==
  ASSUME InputInv, ContentInv, [InputNext]_vars, NEW p \in Iports, TurnKinds(p), walk' = walk,
         NEW n \in Nat, n = Index(p, Current(p)), NEW item, item = Port!Item(p, n + 1),
         Index(p, Current(p))' = n + 1,
         reading' = [reading EXCEPT ![p].steps = Tail(@), ![p].heard = Append(@, item)],
         UNCHANGED position,
         \/ channel' = channel /\ n + 1 <= Cardinality(Places(p))
         \/ Cardinality(Places(p)) = n /\ Cardinality(Places(p))' = n + 1
  PROVE  Port!Take(p)
<1>0. PICK place, h, k : place = position[p] /\ h = reading[p].heard /\ k = Cardinality(Places(p))
  OBVIOUS
<1>1. place \in PlacesOf(p) /\ Valid(p, place) /\ PortShapes /\ ChannelOK(p)
  BY <1>0 DEF InputInv, PortOK, ChannelOK
<1>2. Index(p, position[p])' = Index(p, position[p])
  <2>1. Index(p, place)' = Index(p, place)
    BY <1>1, ItemsStep DEF TurnItems
  <2> QED BY <1>0, <2>1
<1>3. Accepted' = Accepted /\ data' = data /\ Walks' = Walks
  BY <1>2, TurnSame, TurnFrame
<1>4. Taken' = [Taken EXCEPT ![p] = @ + 1] /\ Taken'[p] = n + 1
  <2>1. Taken' = [Taken EXCEPT ![p] = n + 1]
    BY TurnFrame
  <2>2. Taken[p] = n /\ p \in DOMAIN Taken
    BY DEF Taken
  <2> QED BY <2>1, <2>2
<1>5. Heard' = [Heard EXCEPT ![p] = Append(@, item)]
  <2>1. reading'[p].heard = Append(h, item)
    <3>1. reading \in [Iports -> Acceptors \cup {NoAcceptor}]
      BY <1>1 DEF PortShapes
    <3>2. reading[p] = [steps |-> reading[p].steps, ends |-> reading[p].ends, heard |-> reading[p].heard]
      BY <3>1 DEF Acceptors, NoAcceptor
    <3> QED BY <1>0, <3>1, <3>2
  <2>2. Heard' = [Heard EXCEPT ![p] = Append(h, item)]
    BY <2>1, TurnFrame
  <2>3. Heard[p] = h
    BY <1>0 DEF Heard
  <2> QED BY <2>2, <2>3
<1>6. Known' = [Known EXCEPT ![p] = IF @ < Taken'[p] THEN Taken'[p] ELSE @]
  <2>1. k \in Nat /\ Known[p] = k
    BY <1>0, <1>1, PlacesFinite DEF Known
  <2>2. CASE channel' = channel /\ n + 1 <= Cardinality(Places(p))
    <3>1. Cardinality(Places(p))' = k
      BY <1>0, <2>2, SameKeeps, KeptIndex
    <3>2. Known' = [Known EXCEPT ![p] = k]
      BY <3>1, TurnFrame
    <3>3. ~(k < n + 1)
      BY <1>0, <2>1, <2>2
    <3> QED BY <1>4, <2>1, <3>2, <3>3
  <2>3. CASE Cardinality(Places(p)) = n /\ Cardinality(Places(p))' = n + 1
    <3>1. Known' = [Known EXCEPT ![p] = n + 1]
      BY <2>3, TurnFrame
    <3>2. k < n + 1
      BY <1>0, <2>3
    <3> QED BY <1>4, <2>1, <3>1, <3>2
  <2> QED BY <2>2, <2>3
<1>7. item = Port!Item(p, Taken'[p])
  BY <1>4
<1> QED BY <1>3, <1>4, <1>5, <1>6, <1>7, TakeIs

\* An item that has been read before, ...
LEMMA KnownTaken ==
  ASSUME InputInv, ContentInv, [InputNext]_vars, NEW p \in Iports, TurnKinds(p), walk' = walk,
         Knows(p) \/ KnowsEof(p)
  PROVE  Port!Take(p)
<1>0. PICK cur, len, n, next :
        /\ cur = Current(p) /\ len = Len(channel[p][cur.seg]) /\ n = Index(p, cur) /\ next = nextsym'[p]
  OBVIOUS
<1>00. PICK item : item = ItemAt(p, cur)
  OBVIOUS
<1>1. PortShapes /\ PortOK(p) /\ ChannelOK(p) /\ ~SegmentFull(p) /\ UNCHANGED <<channel, position>> /\ Content(p)
  BY DEF InputInv, PortOK, Knows, KnowsEof, FedBy, ContentInv
<1>2. /\ LastSegment(p) \in Nat /\ SegmentRoom \in Nat
      /\ cur.seg \in 1 .. LastSegment(p) /\ cur.at \in 1 .. SegmentRoom
      /\ cur = [seg |-> cur.seg, at |-> cur.at]
      /\ len \in 0 .. SegmentRoom /\ cur.at <= len + 1 /\ cur \in PlacesOf(p)
  BY <1>0, <1>1, WaitsAt, CurrentOK
<1>3. /\ \/ Knows(p) /\ cur.at <= len
         \/ KnowsEof(p) /\ cur.at > len /\ cur.seg < LastSegment(p)
  BY <1>0 DEF Knows, KnowsEof
<1>4. cur \in Places(p)
  <2>1. cur.at <= len + (IF len < SegmentRoom /\ cur.seg < LastSegment(p) THEN 1 ELSE 0)
    BY <1>2, <1>3
  <2>2. HasItem(p, cur)
    BY <1>0, <2>1 DEF HasItem
  <2> QED BY <1>2, <2>2 DEF Places
<1>5. n \in Nat /\ n + 1 <= Cardinality(Places(p)) /\ item = Port!Item(p, n + 1)
  <2>1. Index(p, cur) \in Nat
    BY <1>1, PlacesFinite
  <2> QED BY <1>0, <1>00, <1>1, <1>4, <2>1, IndexBound DEF Content
<1>6. next = [seg |-> cur.seg, at |-> cur.at + 1] \/ (next = [seg |-> cur.seg + 1, at |-> 1] /\ LastItem(p, cur))
  <2>1. nextsym \in [Iports -> Place]
    BY <1>1 DEF PortShapes
  <2>2. CASE Knows(p)
    <3>1. nextsym' = [nextsym EXCEPT ![p] = [cur EXCEPT !.at = @ + 1]]
      BY <1>0, <2>2 DEF Knows, FedBy
    <3>2. [cur EXCEPT !.at = @ + 1] = [seg |-> cur.seg, at |-> cur.at + 1]
      BY <1>2
    <3> QED BY <1>0, <2>1, <3>1, <3>2
  <2>3. CASE KnowsEof(p) /\ cur.at > len
    <3>1. nextsym' = [nextsym EXCEPT ![p] = [seg |-> cur.seg + 1, at |-> 1]]
      BY <1>0, <2>3 DEF KnowsEof, FedBy
    <3>2. cur.at = len + 1
      BY <1>2, <2>3
    <3> QED BY <1>0, <2>1, <3>1, <3>2 DEF LastItem
  <2> QED BY <1>3, <2>2, <2>3
<1>7. Index(p, next) = n + 1
  BY <1>0, <1>1, <1>4, <1>6, StepInside, StepAcross
<1>8. next # NoPlace
  BY <1>2, <1>6 DEF NoPlace
<1>9. Index(p, Current(p))' = n + 1
  <2>1. Current(p)' = next
    BY <1>0, <1>8 DEF Current
  <2>2. Index(p, next)' = Index(p, next)
    BY <1>1, SameKeeps, KeptIndex
  <2> QED BY <1>7, <2>1, <2>2
<1>10. reading' = [reading EXCEPT ![p].steps = Tail(@), ![p].heard = Append(@, item)]
  <2>1. CASE Knows(p) /\ cur.at <= len
    <3>1. item = channel[p][cur.seg][cur.at]
      BY <1>0, <1>00, <2>1 DEF ItemAt
    <3> QED BY <1>0, <2>1, <3>1 DEF Knows, FedBy
  <2>2. CASE KnowsEof(p) /\ cur.at > len
    <3>1. item = Eof
      BY <1>0, <1>00, <1>2, <2>2 DEF ItemAt
    <3> QED BY <2>2, <3>1 DEF KnowsEof, FedBy
  <2> QED BY <1>3, <2>1, <2>2
<1> QED BY <1>0, <1>1, <1>5, <1>9, <1>10, TakesItem

\* ... or is read now.
LEMMA GainedNext ==
  ASSUME PortShapes, NEW p \in Iports, ChannelOK(p), NEW cur, NEW item, Gains(p, cur, item),
         NEW next, \A place \in Places(p) \cup {cur} : Before(place, next)
  PROVE  Index(p, next)' = Cardinality(Places(p)) + 1
<1>1. Places(p)' = Places(p) \cup {cur}
  BY DEF Gains
<1>2. {q \in Places(p)' : Before(q, next)} = Places(p)'
  BY <1>1
<1>3. Index(p, next)' = Cardinality(Places(p))'
  BY <1>2 DEF Index
<1> QED BY <1>3, GainedIndex

\* Taking a new item is a step of the abstract port.
LEMMA NewTaken ==
  ASSUME InputInv, ContentInv, [InputNext]_vars, NEW p \in Iports, TurnKinds(p), walk' = walk,
         Decodes(p) \/ FindsEof(p)
  PROVE  Port!Take(p)
<1>0. PICK cur, n, next : cur = Current(p) /\ n = Cardinality(Places(p)) /\ next = nextsym'[p]
  OBVIOUS
<1>1. PortShapes /\ OtherShapes /\ PortOK(p) /\ ChannelOK(p) /\ ~SegmentFull(p) /\ UNCHANGED position
        /\ Content(p) /\ FileRead(p)
  BY DEF InputInv, PortOK, Decodes, FindsEof, FedBy, ContentInv
<1>2. PICK item :
        /\ item = Port!Item(p, n + 1) /\ Gains(p, cur, item)
        /\ reading' = [reading EXCEPT ![p].steps = Tail(@), ![p].heard = Append(@, item)]
        /\ nextsym' = [nextsym EXCEPT ![p] = IF Decodes(p) THEN [cur EXCEPT !.at = @ + 1] ELSE [seg |-> cur.seg + 1, at |-> 1]]
  <2>1. CASE Decodes(p)
    <3>1. PICK symbol : symbol = data[p][offset[p] - buffered[p] + 1]
      OBVIOUS
    <3>2. symbol = Port!Item(p, n + 1) /\ Gains(p, cur, symbol)
      BY <1>0, <1>1, <2>1, <3>1, DecodesItems
    <3>3. /\ reading' = [reading EXCEPT ![p].steps = Tail(@), ![p].heard = Append(@, symbol)]
          /\ nextsym' = [nextsym EXCEPT ![p] = [cur EXCEPT !.at = @ + 1]]
      BY <1>0, <2>1, <3>1 DEF Decodes, FedBy
    <3> QED BY <2>1, <3>2, <3>3
  <2>2. CASE ~Decodes(p)
    <3>1. FindsEof(p)
      BY <2>2
    <3>2. Eof = Port!Item(p, n + 1) /\ Gains(p, cur, Eof)
      BY <1>0, <1>1, <3>1, FindsEofItems
    <3>3. /\ reading' = [reading EXCEPT ![p].steps = Tail(@), ![p].heard = Append(@, Eof)]
          /\ nextsym' = [nextsym EXCEPT ![p] = [seg |-> cur.seg + 1, at |-> 1]]
      BY <1>0, <3>1 DEF FindsEof, FedBy
    <3> QED BY <2>2, <3>2, <3>3
  <2> QED BY <2>1, <2>2
<1>3. cur \in PlacesOf(p) /\ cur.seg \in Int /\ cur.at \in Int /\ cur.seg >= 1 /\ cur = [seg |-> cur.seg, at |-> cur.at]
  BY <1>2 DEF Gains, PlacesOf
<1>4. next = [seg |-> cur.seg, at |-> cur.at + 1] \/ next = [seg |-> cur.seg + 1, at |-> 1]
  <2>1. nextsym \in [Iports -> Place]
    BY <1>1 DEF PortShapes
  <2>2. [cur EXCEPT !.at = @ + 1] = [seg |-> cur.seg, at |-> cur.at + 1]
    BY <1>3
  <2> QED BY <1>0, <1>2, <2>1, <2>2
<1>5. /\ n \in Nat /\ Index(p, cur) = n /\ Cardinality(Places(p))' = n + 1
  BY <1>0, <1>1, <1>2, GainedIndex, PlacesFinite
<1>6. ASSUME NEW place \in Places(p) \cup {cur} PROVE Before(place, next)
  <2>1. Before(cur, next)
    BY <1>3, <1>4 DEF Before
  <2>2. CASE place # cur
    <3>1. place \in PlacesOf(p) /\ Valid(p, place)
      BY <1>1, <2>2, ItemValid
    <3>2. ~Before(cur, place)
      BY <1>2, <3>1 DEF Gains
    <3>3. place.seg \in Int /\ place.at \in Int
      BY <3>1 DEF PlacesOf
    <3> QED BY <1>3, <2>1, <3>2, <3>3, <1>4 DEF Before
  <2> QED BY <2>1, <2>2
<1>7. Index(p, next)' = n + 1
  BY <1>0, <1>1, <1>2, <1>6, GainedNext
<1>8. Index(p, Current(p))' = n + 1
  <2>1. next # NoPlace
    BY <1>3, <1>4 DEF NoPlace
  <2>2. Current(p)' = next
    BY <1>0, <2>1 DEF Current
  <2> QED BY <1>7, <2>2
<1> QED BY <1>0, <1>1, <1>2, <1>5, <1>8, TakesItem

\* Every turn of the read process is a step of an abstract port, or none.
LEMMA TurnMaps ==
  ASSUME InputInv, ContentInv, [InputNext]_vars, NEW p \in Iports, TurnKinds(p), walk' = walk
  PROVE  Port!Take(p) \/ Port!Accept(p) \/ Port!Finish(p) \/ UNCHANGED Port!inputVars
<1>0. /\ PortShapes /\ OtherShapes /\ PortOK(p) /\ ChannelOK(p)
      /\ data' = data /\ Walks' = Walks
  BY TurnFrame DEF InputInv, PortOK
<1>00. PICK place, cur, h : place = position[p] /\ cur = Current(p) /\ h = reading[p].heard
  OBVIOUS
<1>1. Index(p, place)' = Index(p, place)
  BY <1>0, <1>00, ItemsStep DEF TurnItems, ChannelOK
<1>2. ASSUME UNCHANGED position PROVE Accepted' = Accepted
  BY <1>00, <1>1, <1>2, TurnSame
<1>3. ASSUME UNCHANGED channel
      PROVE  Known' = Known /\ \A pl : Index(p, pl)' = Index(p, pl)
  <2>1. Cardinality(Places(p))' = Cardinality(Places(p)) /\ \A pl : Index(p, pl)' = Index(p, pl)
    BY <1>3, SameKeeps, KeptIndex
  <2> QED BY <2>1, TurnSame
<1>4. ASSUME UNCHANGED channel, Current(p)' = cur PROVE Taken' = Taken
  <2>1. Index(p, cur)' = Index(p, cur)
    BY <1>3, <1>4
  <2> QED BY <1>00, <1>4, <2>1, TurnSame
<1>5. ASSUME reading' = reading PROVE Heard' = Heard
  BY <1>5, TurnSame
<1>6. ASSUME reading' = [reading EXCEPT ![p] = NoAcceptor] PROVE Heard' = [Heard EXCEPT ![p] = <<>>]
  <2>1. reading'[p].heard = <<>>
    BY <1>0, <1>6 DEF PortShapes, NoAcceptor
  <2> QED BY <2>1, TurnFrame
<1>7. place # NoPlace /\ (SegmentFull(p) \/ cur # NoPlace)
  <2>1. place # NoPlace
    BY <1>0, <1>00 DEF ChannelOK, PlacesOf, NoPlace
  <2>2. ~SegmentFull(p) => cur \in PlacesOf(p)
    BY <1>0, <1>00, CurrentOK
  <2> QED BY <2>1, <2>2 DEF PlacesOf, NoPlace
<1>8. CASE Ends(p)
  <2>1. Accepted' = Accepted /\ Known' = Known /\ Heard' = [Heard EXCEPT ![p] = <<>>]
    BY <1>2, <1>3, <1>6, <1>8 DEF Ends
  <2>2. Current(p)' = cur
    <3>1. CASE nextsym' = nextsym
      BY <1>8, <1>00, <3>1 DEF Ends, Current
    <3>2. CASE nextsym' # nextsym
      <4>1. nextsym' = [nextsym EXCEPT ![p] = cur] /\ ~SegmentFull(p)
        BY <1>8, <1>00, <3>2 DEF Ends
      <4>2. nextsym'[p] = cur
        BY <1>0, <4>1 DEF PortShapes
      <4> QED BY <1>7, <4>1, <4>2 DEF Current
    <3> QED BY <3>1, <3>2
  <2>3. Taken' = Taken
    BY <1>4, <1>8, <2>2 DEF Ends
  <2> QED BY <1>0, <2>1, <2>3, FinishIs
<1>9. CASE GivesUp(p)
  <2>1. Accepted' = Accepted /\ Known' = Known /\ Heard' = [Heard EXCEPT ![p] = <<>>]
    BY <1>2, <1>3, <1>6, <1>9 DEF GivesUp
  <2>2. Current(p)' = place
    <3>1. nextsym'[p] = NoPlace /\ position'[p] = place
      BY <1>0, <1>00, <1>9 DEF GivesUp, PortShapes
    <3> QED BY <3>1 DEF Current
  <2>3. Taken' = [Taken EXCEPT ![p] = Accepted[p]]
    <3>1. PICK n : n = Index(p, place)
      OBVIOUS
    <3>2. Index(p, Current(p))' = n
      BY <1>1, <2>2, <3>1
    <3>3. Accepted[p] = n
      BY <1>00, <3>1 DEF Accepted
    <3> QED BY <3>2, <3>3, TurnFrame
  <2> QED BY <1>0, <2>1, <2>3, FinishIs
<1>10. CASE Knows(p) \/ KnowsEof(p)
  BY <1>10, KnownTaken
<1>11. CASE Decodes(p) \/ FindsEof(p)
  BY <1>11, NewTaken
<1>12. CASE Accepts(p)
  <2>1. /\ position' = [position EXCEPT ![p] = cur] /\ nextsym' = [nextsym EXCEPT ![p] = cur]
        /\ reading' = [reading EXCEPT ![p].steps = Tail(@)] /\ UNCHANGED channel /\ ~SegmentFull(p)
    BY <1>00, <1>12 DEF Accepts, AcceptorAccepts
  <2>2. Known' = Known
    BY <1>3, <2>1
  <2>3. position'[p] = cur /\ nextsym'[p] = cur
    BY <1>0, <2>1 DEF PortShapes
  <2>4. Current(p)' = cur
    BY <1>7, <2>1, <2>3 DEF Current
  <2>5. Taken' = Taken
    BY <1>4, <2>1, <2>4
  <2>6. Heard' = Heard
    <3>1. reading \in [Iports -> Acceptors \cup {NoAcceptor}]
      BY <1>0 DEF PortShapes
    <3>2. reading[p] = [steps |-> reading[p].steps, ends |-> reading[p].ends, heard |-> reading[p].heard]
      BY <3>1 DEF Acceptors, NoAcceptor
    <3>3. reading'[p].heard = reading[p].heard
      BY <2>1, <3>1, <3>2
    <3> QED BY <3>3, TurnSame
  <2>7. Accepted' = [Accepted EXCEPT ![p] = Taken[p]]
    <3>1. PICK n : n = Index(p, cur)
      OBVIOUS
    <3>2. Index(p, position[p])' = n
      BY <1>3, <2>1, <2>3, <3>1
    <3>3. Taken[p] = n
      BY <1>00, <3>1 DEF Taken
    <3> QED BY <3>2, <3>3, TurnFrame
  <2> QED BY <1>0, <2>2, <2>5, <2>6, <2>7, AcceptIs
<1>13. CASE Refills(p)
  <2>1. nextsym' = [nextsym EXCEPT ![p] = cur] /\ UNCHANGED <<channel, reading, position>> /\ ~SegmentFull(p)
    BY <1>00, <1>13 DEF Refills
  <2>2. nextsym'[p] = cur
    BY <1>0, <2>1 DEF PortShapes
  <2>3. Current(p)' = cur
    BY <1>7, <2>1, <2>2 DEF Current
  <2>4. Accepted' = Accepted /\ Taken' = Taken /\ Known' = Known /\ Heard' = Heard
    BY <1>2, <1>3, <1>4, <1>5, <2>1, <2>3
  <2> QED BY <1>0, <2>4, NothingIs
<1>14. CASE GoesToNext(p)
  <2>1. UNCHANGED <<reading, position>>
    BY <1>14 DEF GoesToNext
  <2>2. /\ KeepsItems(p) /\ Index(p, Current(p)) = Cardinality(Places(p))
        /\ Index(p, Current(p))' = Cardinality(Places(p))
    BY <1>0, <1>14, NextKeeps
  <2>3. Cardinality(Places(p))' = Cardinality(Places(p))
    BY <2>2, KeptIndex
  <2>4. Accepted' = Accepted /\ Taken' = Taken /\ Known' = Known /\ Heard' = Heard
    BY <1>2, <1>5, <2>1, <2>2, <2>3, TurnSame
  <2> QED BY <1>0, <2>4, NothingIs
<1>15. CASE UNCHANGED <<port, files, links>>
  <2>1. UNCHANGED <<channel, reading, position, nextsym>>
    BY <1>15 DEF port
  <2>2. Current(p)' = cur
    BY <1>00, <2>1 DEF Current
  <2>4. Accepted' = Accepted /\ Taken' = Taken /\ Known' = Known /\ Heard' = Heard
    BY <1>2, <1>3, <1>4, <1>5, <2>1, <2>2
  <2> QED BY <1>0, <2>4, NothingIs
<1> QED BY <1>8, <1>9, <1>10, <1>11, <1>12, <1>13, <1>14, <1>15 DEF TurnKinds

\* A step that leaves the channels alone leaves the ports alone, but for reads.
LEMMA ChannelsFrame ==
  ASSUME UNCHANGED <<channel, data, position, nextsym>>
  PROVE  /\ data' = data /\ Accepted' = Accepted /\ Taken' = Taken /\ Known' = Known
         /\ \A p \in Iports : \A place : Index(p, place)' = Index(p, place)
<1>1. ASSUME NEW p \in Iports
      PROVE  Cardinality(Places(p))' = Cardinality(Places(p)) /\ \A place : Index(p, place)' = Index(p, place)
  BY <1>1, SameKeeps, KeptIndex
<1>2. ASSUME NEW p \in Iports
      PROVE  Index(p, position[p])' = Index(p, position[p]) /\ Index(p, Current(p))' = Index(p, Current(p))
  <2>1. PICK place, cur : place = position[p] /\ cur = Current(p)
    OBVIOUS
  <2>2. position'[p] = place /\ Current(p)' = cur
    BY <2>1 DEF Current
  <2> QED BY <1>1, <2>1, <2>2
<1> QED BY <1>1, <1>2, Zenon DEF Accepted, Taken, Known

\* A read that starts
LEMMA ReadMaps ==
  ASSUME InputInv, ContentInv, ExecRead, NEW p \in Iports, p = Head(left).port, ReadTakes(p)
  PROVE  \E w \in Walkers : Port!Read(p, w)
<1>1. PICK s : s = Head(left)
  OBVIOUS
<1>2. PICK new :
        /\ s \in Statements /\ s.op = "read" /\ s = left[1] /\ 1 \in 1 .. Len(left)
        /\ s.walker \in Walkers
        /\ walk' = [walk EXCEPT ![s.walker] = new]
        /\ new = [port |-> p, from |-> position[p], at |-> position[p], needs |-> "symbol",
                  togo |-> s.walk, seen |-> <<>>, asked |-> FALSE]
  BY <1>1, FreshWalk
<1>3. /\ UNCHANGED <<channel, data, position, nextsym>> /\ walk \in [Walkers -> Walk]
      /\ PortShapes /\ PortOK(p) /\ FreshInv /\ main = "prim"
  BY DEF ExecRead, files, InputInv, OtherShapes
<1>4. /\ data' = data /\ Accepted' = Accepted /\ Taken' = Taken /\ Known' = Known
      /\ \A q \in Iports : \A place : Index(q, place)' = Index(q, place)
  BY <1>3, ChannelsFrame
<1>5. walk[s.walker] = NoWalk
  <2>1. s.walker \in Makes[s]
    BY <1>2, MakesOwn
  <2>2. \A x \in Makes[left[1]] : Unused(x)
    BY <1>2, <1>3 DEF FreshInv
  <2> QED BY <1>2, <2>1, <2>2 DEF Unused
<1>6. Taken[p] = Accepted[p]
  <2>1. nextsym[p] = NoPlace
    BY <1>3 DEF ReadTakes, PortOK, ReadOK
  <2> QED BY <2>1 DEF Taken, Accepted, Current
<1>7. Heard[p] = <<>> /\ Heard' = Heard
  <2>1. reading[p] = NoAcceptor /\ NoAcceptor.heard = <<>>
    BY DEF ReadTakes, NoAcceptor
  <2>2. reading' = [reading EXCEPT ![p] = [steps |-> s.steps, ends |-> s.ends, heard |-> <<>>]]
    BY <1>1 DEF ReadTakes
  <2>3. \A q \in Iports : reading'[q].heard = reading[q].heard
    BY <1>3, <2>1, <2>2 DEF PortShapes
  <2> QED BY <2>1, <2>3 DEF Heard
<1>8. Walks[s.walker] = Port!NoWalk
  <2>1. NoWalk.port = "none" /\ NoWalk.seen = <<>>
    BY DEF NoWalk
  <2> QED BY <1>2, <1>5, <2>1 DEF Walks, Port!NoWalk
<1>9. Walks' = [Walks EXCEPT ![s.walker] = [port |-> p, from |-> Accepted[p], seen |-> <<>>]]
  <2>1. PICK n, idle : n = Accepted[p] /\ idle = NoWalk
    OBVIOUS
  <2>2. walk'[s.walker] = new /\ \A w \in Walkers : w # s.walker => walk'[w] = walk[w]
    BY <1>2, <1>3
  <2>3. new.port = p /\ new.from = position[p] /\ new.seen = <<>> /\ new # NoWalk
    <3>1. new.needs = "symbol" /\ NoWalk.needs = "read"
      BY <1>2 DEF NoWalk
    <3> QED BY <1>2, <3>1
  <2>4. Index(p, position[p]) = n
    BY <2>1 DEF Accepted
  <2>5. PICK place : place = position[p]
    OBVIOUS
  <2>6. Walks'[s.walker] = [port |-> p, from |-> n, seen |-> <<>>]
    <3>1. Walks'[s.walker] = [port |-> new.port, seen |-> new.seen, from |-> Index(p, place)']
      BY <1>2, <2>2, <2>3, <2>5 DEF Walks
    <3>2. Index(p, place)' = n
      BY <1>4, <2>4, <2>5
    <3> QED BY <2>3, <3>1, <3>2
  <2>7. ASSUME NEW w \in Walkers, w # s.walker PROVE Walks'[w] = Walks[w]
    <3>1. PICK x : x = walk[w]
      OBVIOUS
    <3>2. x # NoWalk => x.port \in Iports
      BY <3>1 DEF InputInv, WalkOK
    <3>3. x # NoWalk => Index(x.port, x.from)' = Index(x.port, x.from)
      BY <1>4, <3>2
    <3>4. walk'[w] = x
      BY <2>2, <2>7, <3>1
    <3> QED BY <3>1, <3>3, <3>4 DEF Walks
  <2> QED BY <2>1, <2>6, <2>7 DEF Walks
<1> QED BY <1>2, <1>4, <1>6, <1>7, <1>8, <1>9, ReadIs

\* A walker sees the next item, or nothing.
LEMMA WalkerMaps ==
  ASSUME InputInv, ContentInv, NEW w \in Walkers, WalkerStep(w)
  PROVE  Port!See(w) \/ UNCHANGED Port!inputVars
<1>0. PICK x, y : x = walk[w] /\ y = walk'[w]
  OBVIOUS
<1>00. PICK p, place, n : p = x.port /\ place = x.at /\ n = Index(p, x.from)
  OBVIOUS
<1>1. /\ walk \in [Walkers -> Walk] /\ x # NoWalk
      /\ UNCHANGED <<channel, data, position, nextsym, reading>>
  BY <1>0 DEF InputInv, OtherShapes, WalkerStep, NoWalk, files
<1>2. /\ WalkOK(w) /\ p \in Iports /\ place \in PlacesOf(p) /\ x \in Walk /\ Seen(w) /\ Content(p)
      /\ PortShapes /\ ChannelOK(p) /\ SegmentRoom \in Nat /\ LastSegment(p) \in Nat
      /\ Len(channel[p][place.seg]) \in Nat /\ place.at \in Nat
  <2>1. Len(channel[p][place.seg]) \in 0 .. SegmentRoom /\ place.at \in 1 .. SegmentRoom
    BY <1>0, <1>00, <1>1, WalkerAt
  <2>2. /\ WalkOK(w) /\ p \in Iports /\ place \in PlacesOf(p) /\ x \in Walk
        /\ PortShapes /\ PortOK(p) /\ SegmentRoom \in Nat /\ LastSegment(p) \in Nat
    BY <1>0, <1>00, <1>1, WalkerAt
  <2>3. Seen(w) /\ Content(p)
    BY <1>0, <1>1, <2>2 DEF ContentInv
  <2>4. Len(channel[p][place.seg]) \in Nat /\ place.at \in Nat
    BY <2>1
  <2> QED BY <2>2, <2>3, <2>4 DEF PortOK
<1>3. /\ data' = data /\ Accepted' = Accepted /\ Taken' = Taken /\ Known' = Known /\ Heard' = Heard
      /\ \A q \in Iports : \A pl : Index(q, pl)' = Index(q, pl)
  <2>1. Heard' = Heard
    BY <1>1 DEF Heard
  <2> QED BY <1>1, <2>1, ChannelsFrame
<1>4. WalkOK(w)' /\ \A v \in Walkers : v # w => walk'[v] = walk[v]
  BY WalkerKeeps
<1>5. y # NoWalk
  BY <1>0, <1>4 DEF WalkOK, NoWalk
<1>6. Walks[w] = [port |-> p, seen |-> x.seen, from |-> n]
  BY <1>0, <1>00, <1>1 DEF Walks
<1>7. ASSUME NEW seen, y.port = p, y.from = x.from, y.seen = seen
      PROVE  Walks' = [Walks EXCEPT ![w].seen = seen]
  <2>1. Walks'[w] = [port |-> p, seen |-> seen, from |-> n]
    <3>1. Walks'[w] = [port |-> y.port, seen |-> y.seen, from |-> Index(y.port, y.from)']
      BY <1>0, <1>5 DEF Walks
    <3>2. Index(p, x.from)' = n
      BY <1>00, <1>2, <1>3
    <3> QED BY <1>7, <3>1, <3>2
  <2>2. ASSUME NEW v \in Walkers, v # w PROVE Walks'[v] = Walks[v]
    <3>1. PICK z : z = walk[v]
      OBVIOUS
    <3>2. z # NoWalk => z.port \in Iports
      BY <3>1 DEF InputInv, WalkOK
    <3>3. z # NoWalk => Index(z.port, z.from)' = Index(z.port, z.from)
      BY <1>3, <3>2
    <3>4. walk'[v] = z
      BY <1>4, <2>2, <3>1
    <3> QED BY <3>1, <3>3, <3>4 DEF Walks
  <2>3. [Walks[w] EXCEPT !.seen = seen] = [port |-> p, seen |-> seen, from |-> n]
    BY <1>6
  <2>4. [Walks EXCEPT ![w].seen = seen] = [Walks EXCEPT ![w] = [port |-> p, seen |-> seen, from |-> n]]
    BY <2>3
  <2> QED BY <2>1, <2>2, <2>4 DEF Walks
<1>8. ASSUME y.port = p, y.from = x.from, y.seen = x.seen
      PROVE  UNCHANGED Port!inputVars
  <2>1. Walks' = [Walks EXCEPT ![w].seen = x.seen]
    BY <1>7, <1>8
  <2>2. [Walks EXCEPT ![w].seen = x.seen] = Walks
    BY <1>6 DEF Walks
  <2> QED BY <1>3, <2>1, <2>2, NothingIs
<1>9. CASE WalkerSees(w)
  <2>1. PICK item :
          /\ walk' = [walk EXCEPT ![w] = Continue(w, item)] /\ item = ItemAt(p, place)
          /\ place.at <= Len(Here(w)) \/ (place.at > Len(Here(w)) /\ place.seg < LastSegment(p))
    <3>1. CASE place.at <= Len(Here(w)) /\ walk' = [walk EXCEPT ![w] = Continue(w, Here(w)[place.at])]
      BY <1>0, <1>00, <3>1 DEF ItemAt, Here
    <3>2. CASE place.at > Len(Here(w)) /\ place.seg < LastSegment(p) /\ walk' = [walk EXCEPT ![w] = Continue(w, Eof)]
      <4>1. ~(place.at <= Len(channel[p][place.seg]))
        BY <1>0, <1>00, <1>2, <3>2 DEF Here
      <4>2. ItemAt(p, place) = Eof
        BY <4>1 DEF ItemAt
      <4> QED BY <3>2, <4>2
    <3> QED BY <1>0, <1>00, <1>9, <3>1, <3>2 DEF WalkerSees
  <2>2. place \in Places(p)
    BY <1>0, <1>00, <1>1, <2>1, SeesItem
  <2>3. /\ y.port = p /\ y.from = x.from /\ y.seen = Append(x.seen, item)
    <3>1. x = [port |-> x.port, from |-> x.from, at |-> x.at, needs |-> x.needs,
               togo |-> x.togo, seen |-> x.seen, asked |-> x.asked]
      BY <1>2 DEF Walk
    <3>2. y = Continue(w, item)
      BY <1>0, <1>1, <2>1
    <3>3. PICK need : need = NextNeed(place, Here(w))
      OBVIOUS
    <3>4. y = [x EXCEPT !.seen = Append(@, item), !.togo = @ - 1,
                        !.needs = IF x.togo = 1 THEN "nothing" ELSE need,
                        !.at.at = IF x.togo = 1 \/ need = "segment" THEN @ ELSE @ + 1]
      BY <1>0, <1>00, <3>2, <3>3 DEF Continue
    <3> QED BY <1>00, <3>1, <3>4
  <2>4. Walks' = [Walks EXCEPT ![w].seen = Append(x.seen, item)]
    BY <1>7, <2>3
  <2>5. PICK m : m = n + Len(x.seen) + 1
    OBVIOUS
  <2>6. n \in Nat /\ Len(x.seen) \in Nat /\ n + Len(x.seen) = Index(p, place) /\ Index(p, place) \in Nat
    <3>1. Index(p, x.from) \in Nat /\ Index(p, place) \in Nat
      BY <1>2, PlacesFinite
    <3>2. Len(x.seen) \in Nat
      BY <1>2, LenProperties DEF Walk
    <3>3. x.needs = "symbol"
      BY <1>0, <1>9 DEF WalkerSees
    <3> QED BY <1>0, <1>00, <1>2, <3>1, <3>2, <3>3 DEF Seen
  <2>7. m = Index(p, place) + 1
    BY <2>5, <2>6
  <2>8. m <= Known[p]
    BY <1>2, <2>2, <2>7, IndexBound DEF Known
  <2>9. item = Port!Item(p, m)
    BY <1>2, <2>1, <2>2, <2>7 DEF Content
  <2>10. Walks[w] # Port!NoWalk /\ p = Walks[w].port /\ m = Walks[w].from + Len(Walks[w].seen) + 1
    BY <1>2, <1>6, <2>5, IportsFinite DEF Port!NoWalk
  <2>11. Walks' = [Walks EXCEPT ![w].seen = Append(@, Port!Item(p, m))]
    BY <1>6, <2>4, <2>9
  <2> QED BY <1>3, <2>8, <2>10, <2>11, SeeIs
<1>10. CASE WalkerFails(w) \/ WalkerCrosses(w) \/ WalkerBlocks(w)
  <2>1. y.port = p /\ y.from = x.from /\ y.seen = x.seen
    BY <1>0, <1>00, <1>1, <1>2, <1>10 DEF WalkerFails, WalkerCrosses, WalkerBlocks, Walk
  <2> QED BY <1>8, <2>1
<1>11. CASE WalkerSpins(w)
  BY <1>0, <1>00, <1>8, <1>11 DEF WalkerSpins
<1> QED BY <1>9, <1>10, <1>11 DEF WalkerStep

\* Every step is one of the abstract ports, or none.
LEMMA PortStep ==
  ASSUME InputInv, ContentInv, [InputNext]_vars
  PROVE  [Port!InputNext]_(Port!inputVars)
<1>1. ASSUME NEW p \in Iports, ReaderTurn(p) \/ ReaderCloses(p), TurnKinds(p), UNCHANGED walk
      PROVE  [Port!InputNext]_(Port!inputVars)
  BY <1>1, TurnMaps DEF Port!InputNext
<1>2. ASSUME NEW p \in Iports, ExecRead, p = Head(left).port, ReadTakes(p)
      PROVE  [Port!InputNext]_(Port!inputVars)
  BY <1>2, ReadMaps DEF Port!InputNext
<1>3. ASSUME NEW w \in Walkers, WalkerStep(w)
      PROVE  [Port!InputNext]_(Port!inputVars)
  BY <1>3, WalkerMaps DEF Port!InputNext
<1>4. CASE UNCHANGED <<reading, position, nextsym, channel, data, offset, buffered, walk>>
  <2>1. /\ data' = data /\ Accepted' = Accepted /\ Taken' = Taken /\ Known' = Known
        /\ \A p \in Iports : \A place : Index(p, place)' = Index(p, place)
    BY <1>4, ChannelsFrame
  <2>2. Heard' = Heard
    BY <1>4 DEF Heard
  <2>3. Walks' = Walks
    <3>1. ASSUME NEW w \in Walkers PROVE Walks'[w] = Walks[w]
      <4>1. PICK x : x = walk[w]
        OBVIOUS
      <4>2. x # NoWalk => x.port \in Iports
        BY <4>1 DEF InputInv, WalkOK
      <4>3. x # NoWalk => Index(x.port, x.from)' = Index(x.port, x.from)
        BY <2>1, <4>2
      <4>4. walk'[w] = x
        BY <1>4, <4>1
      <4> QED BY <4>1, <4>3, <4>4 DEF Walks
    <3> QED BY <3>1 DEF Walks
  <2> QED BY <2>1, <2>2, <2>3, NothingIs
<1> QED BY <1>1, <1>2, <1>3, <1>4, StepKinds

\* At the start no port has been read from.
LEMMA PortInitially == InputInit => Port!PortInit
<1> SUFFICES ASSUME InputInit PROVE Port!PortInit
  OBVIOUS
<1> DEFINE zeros == [p \in Iports |-> 0]
<1>1. \A p \in Iports : Cardinality(Places(p)) = 0 /\ \A place : Index(p, place) = 0
  BY NoItems
<1>2. Accepted = zeros /\ Taken = zeros /\ Known = zeros
  BY <1>1, Zenon DEF Accepted, Taken, Known
<1>3. Heard = [p \in Iports |-> <<>>]
  BY DEF Heard, InputInit, NoAcceptor
<1>4. Walks = [w \in Walkers |-> Port!NoWalk]
  <2>1. \A w \in Walkers : walk[w] = NoWalk
    BY DEF InputInit
  <2>2. NoWalk.port = "none" /\ NoWalk.seen = <<>>
    BY DEF NoWalk
  <2> QED BY <2>1, <2>2 DEF Walks, Port!NoWalk
<1>5. DOMAIN data = Iports
  BY FilesTyped DEF InputInit
<1> QED BY <1>2, <1>3, <1>4, <1>5 DEF Port!PortInit, Accepted, Taken, Known, Heard, Walks

\* The input of a program is that of the abstract ports.
THEOREM ReadInOrder == InputSpec => ReadsInOrder
<1>1. InputInit => Port!PortInit
  BY PortInitially
<1>2. InputInv /\ ContentInv /\ [InputNext]_vars => [Port!InputNext]_(Port!inputVars)
  BY PortStep
<1> QED BY <1>1, <1>2, InputInductive, ContentRight, PTL DEF InputSpec, ReadsInOrder, Port!InputSpec
=============================================================================

-------------------------- MODULE IbioOutputProofs --------------------------
(***************************************************************************)
(* The links, the counts, the ACE pool and the output of IbioOutput, for   *)
(* every set of programs, finite set of ports and size of buffer.          *)
(***************************************************************************)
EXTENDS IbioOutput, SequenceTheorems, FiniteSetTheorems, TLAPS

\* The places of the main process within a statement of the thread.
InStatement == {"eval", "prim", "success", "blocked", "refused"}

\* There is a statement to be run, and the thread is marked as running only within one.
ThreadInv ==
  /\ ThreadTypeOK
  /\ main \in InStatement \/ state \in {"active", "running"} => left # <<>>
  /\ state = "running" => main \in InStatement
  /\ main # "exited" => exit = "none"

\* The main process has let the thread go and is on its way out.
Leaving == main \in {"stopping", "leaving"} \/ (main = "exited" /\ exit # "crash")

\* The write threads have one client until it has told them.
RefcountRight ==
  refcount = IF main = "leaving" \/ (main = "exited" /\ exit # "crash") THEN 0 ELSE 1

\* The thread is let go only when it is linked to no port.
LetGo == Leaving => links = {} /\ state = "unused"

\* Without the ACE pool nothing of the thread is run, and every string is that of a
\* process that will give up or has left.
AceInv ==
  ace = "gone" =>
    /\ main \notin InStatement
    /\ state \notin {"active", "running"}
    /\ \A o \in Ports : writing[o] # NoString => (told[o] /\ writer[o] = "loop") \/ Stranded(o)

OutputInv ==
  /\ OutputTypeOK
  /\ ThreadInv
  /\ RefcountRight
  /\ LinksExact
  /\ CountsExact
  /\ LetGo
  /\ AceInv

-----------------------------------------------------------------------------
(* The steps of the thread *)

\* The thread starts with one statement.
LEMMA ThreadInitially == ThreadInit => ThreadInv
<1> SUFFICES ASSUME ThreadInit PROVE ThreadInv
  OBVIOUS
<1>1. PICK program \in Programs : left = <<program>>
  BY DEF ThreadInit
<1>2. left \in Seq(Statements) /\ left # <<>>
  BY <1>1, StatementsClosed
<1> QED BY <1>2 DEF ThreadInit, ThreadInv, ThreadTypeOK, Terminating, InStatement

\* Unpacking a block leaves something to be run.
LEMMA UnpackKeeps ==
  ASSUME ThreadInv, UnpackBlock
  PROVE  left' \in Seq(Statements) \ {<<>>}
<1> DEFINE body == Head(left).body
           all == body \o Tail(left)
           last == SubSeq(all, Len(all) - SegmentSize + 1, Len(all))
<1>1. left # <<>> /\ left \in Seq(Statements) /\ Head(left).op = "block"
  BY DEF ThreadInv, ThreadTypeOK, UnpackBlock, InStatement
<1>2. Head(left) \in Statements /\ Tail(left) \in Seq(Statements)
  BY <1>1, HeadTailProperties
<1>3. body \in Seq(Statements) /\ body # <<>>
  BY <1>1, <1>2, StatementsClosed
<1>4. all \in Seq(Statements) /\ Len(all) \in Nat /\ all # <<>>
  BY <1>2, <1>3, ConcatProperties, LenProperties, EmptySeq
<1>5. CASE Len(all) <= SegmentSize
  BY <1>4, <1>5 DEF UnpackBlock
<1>6. CASE ~(Len(all) <= SegmentSize)
  <2>1. SegmentSize \in Nat \ {0}
    BY RoomForEntry
  <2>2. \A i \in Len(all) - SegmentSize + 1 .. Len(all) : all[i] \in Statements
    BY <1>4, <1>6, <2>1, ElementOfSeq
  <2> DEFINE m == Len(all) - SegmentSize + 1
  <2>3. m \in Int /\ Len(all) \in Int /\ m <= Len(all) /\ Len(all) - m + 1 = SegmentSize
    BY <1>4, <1>6, <2>1
  <2>4. last \in Seq(Statements) /\ Len(last) = SegmentSize
    <3> HIDE DEF all, m
    <3>1. SubSeq(all, m, Len(all)) \in Seq(Statements) /\ Len(SubSeq(all, m, Len(all))) = SegmentSize
      BY <2>2, <2>3, SubSeqProperties DEF m
    <3> QED BY <3>1 DEF m
  <2>5. last # <<>>
    BY <2>1, <2>4, EmptySeq
  <2> QED BY <1>6, <2>4, <2>5 DEF UnpackBlock
<1> QED BY <1>5, <1>6

\* The main process goes on with the thread.
Advances ==
  \/ TakeTurn \/ Unevaluated \/ EvaluatesToError \/ UnpackBlock \/ EvaluatesToPrim
  \/ \E st \in {"success", "blocked", "refused"} : PrimReturns(st)
  \/ PrimSucceeded \/ PrimBlocked \/ PrimRefused
  \/ \E short : LookAtMemory(short)
  \/ \E busy : StillBusy(busy) \/ ThreadEnds(busy)
  \/ CallbacksDone \/ MainExits

\* Whatever the main process does with the thread keeps it in order.
LEMMA ThreadAdvances ==
  ASSUME ThreadInv, Advances \/ ApiThreadPost \/ UNCHANGED thread
  PROVE  ThreadInv'
<1> USE DEF ThreadInv, ThreadTypeOK, Terminating, InStatement
<1>1. CASE TakeTurn
  BY <1>1 DEF TakeTurn
<1>2. CASE Unevaluated \/ EvaluatesToError
  BY <1>2 DEF Unevaluated, EvaluatesToError, EndTurn
<1>3. CASE UnpackBlock
  BY <1>3, UnpackKeeps DEF UnpackBlock, EndTurn
<1>4. CASE EvaluatesToPrim
  BY <1>4 DEF EvaluatesToPrim
<1>5. CASE \E st \in {"success", "blocked", "refused"} : PrimReturns(st)
  BY <1>5 DEF PrimReturns
<1>6. CASE PrimSucceeded
  <2>1. Tail(left) \in Seq(Statements)
    BY <1>6, HeadTailProperties DEF PrimSucceeded
  <2> QED BY <1>6, <2>1 DEF PrimSucceeded, EndTurn
<1>7. CASE PrimBlocked \/ PrimRefused
  BY <1>7 DEF PrimBlocked, PrimRefused, EndTurn
<1>8. CASE \E short : LookAtMemory(short)
  BY <1>8 DEF LookAtMemory
<1>9. CASE \E busy : StillBusy(busy) \/ ThreadEnds(busy)
  BY <1>9 DEF StillBusy, ThreadEnds, EndTurn
<1>10. CASE CallbacksDone \/ MainExits
  BY <1>10 DEF CallbacksDone, MainExits
<1>11. CASE ApiThreadPost
  BY <1>11 DEF ApiThreadPost
<1>12. CASE UNCHANGED thread
  BY <1>12 DEF thread
<1> QED BY <1>1, <1>2, <1>3, <1>4, <1>5, <1>6, <1>7, <1>8, <1>9, <1>10, <1>11, <1>12
        DEF Advances

\* So does every step of the system.
LEMMA ThreadStep ==
  ASSUME ThreadInv, [OutputNext]_vars
  PROVE  ThreadInv'
<1>1. CASE MainStep
  <2>1. CASE ExecOther
    <3>1. CASE LookAtMemory(exhausted) \/ StillBusy(links # {}) \/ ThreadEnds(links # {})
      BY <3>1, ThreadAdvances, Zenon DEF Advances
    <3>2. CASE PrimReturns("success")
      BY <3>2, ThreadAdvances DEF Advances
    <3> QED BY <2>1, <3>1, <3>2, ThreadAdvances DEF ExecOther, Evaluated, Advances
  <2>2. CASE ExecWrite
    <3>1. \E st \in {"success", "blocked", "refused"} : PrimReturns(st)
      BY <2>2 DEF ExecWrite, WriteRefused, WriteAccepted, WriteBlocks
    <3> QED BY <3>1, ThreadAdvances DEF Advances
  <2>3. CASE StatementDone \/ WriteThreadsDown \/ AceDownAndExit
    BY <2>3, ThreadAdvances DEF StatementDone, WriteThreadsDown, AceDownAndExit, Advances
  <2> QED BY <1>1, <2>1, <2>2, <2>3 DEF MainStep
<1>2. CASE \E o \in Ports : WriterStep(o) \/ WriterAceDown(o)
  <2>1. ApiThreadPost \/ UNCHANGED thread
    BY <1>2 DEF WriterStep, Register, WriterTurn, GivesUp, RuneFails, RuneReady, StringLate, StringHasRune,
                StringEnds, StringFails, NothingLeft, Unregister, WriterAceDown, PostAndClose, Stays
  <2> QED BY <2>1, ThreadAdvances
<1>3. CASE WritePoolLeaves \/ WritePoolAceDown \/ AceLeaves \/ MemoryFills \/ CollectionSucceeds \/ Over
             \/ UNCHANGED vars
  <2>1. UNCHANGED thread
    BY <1>3 DEF WritePoolLeaves, WritePoolAceDown, AceLeaves, MemoryFills, CollectionSucceeds, Over, vars
  <2> QED BY <2>1, ThreadAdvances
<1>4. CASE CollectionCrashes \/ CollectionFails
  BY <1>4 DEF CollectionCrashes, CollectionFails, EverybodyWaits, ThreadInv, ThreadTypeOK, Terminating,
              InStatement
<1> QED BY <1>1, <1>2, <1>3, <1>4 DEF OutputNext, Collection

-----------------------------------------------------------------------------
(* Type correctness *)

\* The initial state has its types.
LEMMA TypeInitially == OutputInit => OutputTypeOK
<1> SUFFICES ASSUME OutputInit PROVE OutputTypeOK
  OBVIOUS
<1>1. ThreadTypeOK
  BY ThreadInitially DEF OutputInit, ThreadInv
<1>2. Cardinality(Ports) \in Nat
  BY PortsFinite, FS_CardinalityType
<1>3. Len(<<>>) = 0 /\ <<>> \in Seq(Runes)
  BY EmptySeq
<1>4. \A o \in Ports : Len(buf[o]) <= BufferRoom - (IF writer[o] \in {"born", "loop"} THEN 1 ELSE 0)
  BY <1>3, RoomForRune DEF OutputInit
<1>5. buf \in [Ports -> Seq(Runes)]
  BY <1>3 DEF OutputInit
<1>6. ace_refs \in Int
  BY <1>2 DEF OutputInit
<1>7. writing \in [Ports -> Strings \cup {NoString}] /\ symbol \in [Ports -> Runes \cup {NoString}]
  BY DEF OutputInit
<1>8. active \in [Ports -> BOOLEAN] /\ waiting \in [Ports -> BOOLEAN] /\ told \in [Ports -> BOOLEAN]
  BY DEF OutputInit
<1>9. writer \in [Ports -> {"born", "loop", "left", "down", "gone"}]
  BY DEF OutputInit
<1>10. /\ \A o \in Ports : symbol[o] # NoString => writing[o] # NoString
       /\ blocker \in {"none", "fresh", "queued"}
       /\ links \in SUBSET Ports
       /\ refcount \in {0, 1}
       /\ num_threads \in Int
       /\ write_pool \in {"loop", "down", "gone"}
       /\ ace \in {"serving", "gone"}
       /\ posted \in SUBSET Ports
  BY DEF OutputInit
<1>11. exhausted \in BOOLEAN
  BY Zenon DEF OutputInit
<1> QED BY <1>1, <1>4, <1>5, <1>6, <1>7, <1>8, <1>9, <1>10, <1>11, Zenon DEF OutputTypeOK

\* What a write takes its string from.
LEMMA NextWrite ==
  ASSUME ThreadInv, main = "prim", Head(left).op = "write"
  PROVE  Head(left).port \in Ports /\ Head(left).string \in Strings
<1>1. Head(left) \in Statements
  BY HeadTailProperties DEF ThreadInv, ThreadTypeOK, InStatement
<1> QED BY <1>1, WritesTyped

\* A step of the main process keeps the types.
LEMMA MainTypes ==
  ASSUME OutputTypeOK, ThreadInv, RefcountRight, ThreadTypeOK', MainStep
  PROVE  OutputTypeOK'
<1> USE DEF OutputTypeOK, port, files, api, procs
<1>1. CASE ExecOther /\ UNCHANGED <<port, files, api, procs, exhausted>>
  BY <1>1
<1>2. CASE ExecWrite
  <2>1. PICK o \in Ports : o = Head(left).port /\ (WriteRefused(o) \/ WriteAccepted(o) \/ WriteBlocks(o))
    BY <1>2 DEF ExecWrite
  <2>2. Head(left).string \in Strings
    BY <1>2, NextWrite DEF ExecWrite
  <2>3. Head(left).string # NoString
    BY <2>2, StringsReal
  <2>4. UNCHANGED <<active, buf, output, posted, procs, exhausted>>
    BY <1>2 DEF ExecWrite
  <2>5. CASE WriteRefused(o)
    BY <2>4, <2>5 DEF WriteRefused
  <2>6. CASE WriteAccepted(o)
    BY <2>2, <2>3, <2>4, <2>6 DEF WriteAccepted
  <2>7. CASE WriteBlocks(o)
    BY <2>4, <2>7 DEF WriteBlocks
  <2> QED BY <2>1, <2>5, <2>6, <2>7
<1>3. CASE StatementDone
  BY <1>3 DEF StatementDone
<1>4. CASE WriteThreadsDown /\ UNCHANGED <<files, api, exhausted>>
  BY <1>4 DEF WriteThreadsDown, CallbacksDone, RefcountRight
<1>5. CASE AceDownAndExit /\ UNCHANGED <<files, api, exhausted>>
  BY <1>5 DEF AceDownAndExit
<1> QED BY <1>1, <1>2, <1>3, <1>4, <1>5 DEF MainStep

\* The parts of the state that a write process changes.
PlacesOK ==
  /\ active \in [Ports -> BOOLEAN]
  /\ writer \in [Ports -> {"born", "loop", "left", "down", "gone"}]
  /\ told \in [Ports -> BOOLEAN]
  /\ links \in SUBSET Ports
  /\ posted \in SUBSET Ports

WordsOK ==
  /\ writing \in [Ports -> Strings \cup {NoString}]
  /\ symbol \in [Ports -> Runes \cup {NoString}]
  /\ \A p \in Ports : symbol[p] # NoString => writing[p] # NoString

BuffersOK ==
  /\ buf \in [Ports -> Seq(Runes)]
  /\ \A p \in Ports : Len(buf[p]) <= BufferRoom - (IF writer[p] \in {"born", "loop"} THEN 1 ELSE 0)

\* A write process takes a turn, and stays in its loop or leaves it.
LEMMA WriterPlaces ==
  ASSUME PlacesOK, NEW o \in Ports, WriterTurn(o)
  PROVE  PlacesOK' /\ (UNCHANGED writer \/ writer' = [writer EXCEPT ![o] = "left"])
<1> USE DEF PlacesOK
<1>1. CASE UNCHANGED <<active, writer, told, posted>> /\ (UNCHANGED links \/ links' = links \ {o})
  BY <1>1
<1>2. CASE Closes(o) /\ (UNCHANGED posted \/ posted' = posted \cup {o})
             /\ (UNCHANGED links \/ links' = links \ {o})
  BY <1>2 DEF Closes
<1> QED BY <1>1, <1>2 DEF WriterTurn, GivesUp, RuneFails, RuneReady, StringLate, StringHasRune,
             StringEnds, StringFails, NothingLeft, PostAndClose, Stays, files

\* What a write process has in hand stays a rune and the rest of a string.
LEMMA WriterWords ==
  ASSUME WordsOK, NEW o \in Ports, WriterTurn(o)
  PROVE  WordsOK'
<1> USE DEF WordsOK
<1>1. CASE UNCHANGED <<writing, symbol>>
  BY <1>1
<1>2. CASE writing' = [writing EXCEPT ![o] = NoString] /\ symbol' = [symbol EXCEPT ![o] = NoString]
  BY <1>2
<1>3. CASE UNCHANGED writing /\ symbol' = [symbol EXCEPT ![o] = NoString]
  BY <1>3
<1>4. CASE StringHasRune(o)
  <2>1. writing[o] \in Strings /\ writing[o].runes # <<>>
    BY <1>4 DEF StringHasRune
  <2>2. Head(writing[o].runes) \in Runes /\ Tail(writing[o].runes) \in Seq(Runes)
    BY <2>1, HeadTailProperties DEF Strings
  <2> DEFINE rest == [writing[o] EXCEPT !.runes = Tail(writing[o].runes)]
  <2>3. rest \in Strings
    BY <2>1, <2>2 DEF Strings
  <2>4. writing' = [writing EXCEPT ![o] = rest]
    BY <1>4 DEF StringHasRune
  <2>5. rest # NoString
    BY <2>3, StringsReal
  <2> HIDE DEF rest
  <2> QED BY <1>4, <2>2, <2>3, <2>4, <2>5 DEF StringHasRune
<1>5. CASE StringEnds(o)
  BY <1>5 DEF StringEnds
<1> QED BY <1>1, <1>2, <1>3, <1>4, <1>5 DEF WriterTurn, GivesUp, RuneFails, RuneReady, StringLate,
             StringFails, NothingLeft, PostAndClose

\* A write process that stays in its loop leaves room for a rune in its buffer.
LEMMA WriterBuffers ==
  ASSUME BuffersOK, WordsOK, PlacesOK, NEW o \in Ports, WriterTurn(o)
  PROVE  BuffersOK'
<1>1. writer[o] = "loop" /\ Len(buf[o]) \in Nat /\ BufferRoom \in Nat \ {0} /\ Len(buf[o]) <= BufferRoom - 1
  BY RoomForRune, LenProperties DEF WriterTurn, BuffersOK
<1>2. UNCHANGED writer \/ writer' = [writer EXCEPT ![o] = "left"]
  BY WriterPlaces
<1>3. ASSUME NEW b \in Seq(Runes), buf' = [buf EXCEPT ![o] = b],
             Len(b) <= BufferRoom - 1 \/ (Len(b) <= BufferRoom /\ writer' = [writer EXCEPT ![o] = "left"])
      PROVE  BuffersOK'
  <2>1. buf' \in [Ports -> Seq(Runes)]
    BY <1>3 DEF BuffersOK
  <2>2. Len(b) \in Nat
    BY LenProperties
  <2>3. Len(buf'[o]) <= BufferRoom - (IF writer'[o] \in {"born", "loop"} THEN 1 ELSE 0)
    BY <1>1, <1>2, <1>3, <2>2 DEF BuffersOK, PlacesOK
  <2>4. \A p \in Ports \ {o} : buf'[p] = buf[p] /\ writer'[p] = writer[p]
    BY <1>2, <1>3 DEF BuffersOK, PlacesOK
  <2> QED BY <2>1, <2>3, <2>4 DEF BuffersOK
<1>4. CASE UNCHANGED buf
  <2>1. buf[o] \in Seq(Runes) /\ buf' = [buf EXCEPT ![o] = buf[o]]
    BY <1>4 DEF BuffersOK
  <2> QED BY <1>1, <1>3, <2>1
<1>5. CASE buf' = [buf EXCEPT ![o] = <<>>]
  <2>1. <<>> \in Seq(Runes) /\ Len(<<>>) = 0
    BY EmptySeq
  <2>2. Len(<<>>) <= BufferRoom - 1
    BY <1>1, <2>1
  <2> QED BY <1>3, <1>5, <2>1, <2>2
<1>6. CASE RuneReady(o)
  <2>1. symbol[o] \in Runes
    BY <1>6 DEF RuneReady, WordsOK
  <2> DEFINE b == Append(buf[o], symbol[o])
  <2>2. b \in Seq(Runes) /\ Len(b) = Len(buf[o]) + 1
    BY <2>1 DEF BuffersOK
  <2>3. buf' = [buf EXCEPT ![o] = b] /\ buf'[o] = b
    BY <1>6 DEF RuneReady, BuffersOK
  <2> HIDE DEF b
  <2>4. CASE Len(b) = BufferRoom
    <3>1. writer' = [writer EXCEPT ![o] = "left"]
      BY <1>6, <2>3, <2>4 DEF RuneReady, PostAndClose, Closes
    <3>2. Len(b) <= BufferRoom
      BY <1>1, <2>4
    <3> QED BY <1>3, <2>2, <2>3, <3>1, <3>2
  <2>5. CASE Len(b) # BufferRoom
    <3>1. Len(b) <= BufferRoom - 1
      BY <1>1, <2>2, <2>5
    <3> QED BY <1>3, <2>2, <2>3, <3>1
  <2> QED BY <2>4, <2>5
<1> QED BY <1>4, <1>5, <1>6 DEF WriterTurn, GivesUp, RuneFails, StringLate, StringHasRune,
             StringEnds, StringFails, NothingLeft

\* A turn of a write process keeps the types.
LEMMA WriterTypes ==
  ASSUME OutputTypeOK, ThreadTypeOK', NEW o \in Ports, WriterTurn(o),
         UNCHANGED <<text, waiting, blocker, refcount, write_pool, ace, ace_refs, exhausted>>
  PROVE  OutputTypeOK'
<1>1. UNCHANGED num_threads
  BY DEF WriterTurn
<1>2. PlacesOK' /\ WordsOK' /\ BuffersOK'
  BY WriterPlaces, WriterWords, WriterBuffers DEF OutputTypeOK, PlacesOK, WordsOK, BuffersOK
<1> QED BY <1>1, <1>2 DEF OutputTypeOK, PlacesOK, WordsOK, BuffersOK

\* Every step keeps the types.
LEMMA TypeStep ==
  ASSUME OutputTypeOK, ThreadInv, RefcountRight, [OutputNext]_vars
  PROVE  OutputTypeOK'
<1> USE DEF OutputTypeOK, port, files, api, procs
<1>1. ThreadTypeOK'
  BY ThreadStep DEF ThreadInv
<1>2. CASE MainStep
  BY <1>1, <1>2, MainTypes
<1>3. ASSUME NEW o \in Ports, WriterStep(o) PROVE OutputTypeOK'
  <2>1. UNCHANGED <<text, waiting, blocker, refcount, write_pool, ace, ace_refs, exhausted>>
    BY <1>3 DEF WriterStep
  <2>2. CASE Register(o)
    <3>1. UNCHANGED <<writing, symbol, buf, links, told, posted>> /\ writer[o] = "born"
      BY <2>2 DEF Register, files
    <3>2. active' \in [Ports -> BOOLEAN]
      <4>1. active' = active \/ active' = [active EXCEPT ![o] = FALSE]
        BY <2>2 DEF Register
      <4> QED BY <4>1
    <3>3. num_threads' \in Int
      <4>1. num_threads' = num_threads \/ num_threads' = num_threads + 1
        BY <2>2 DEF Register
      <4> QED BY <4>1
    <3>4. writer' = [writer EXCEPT ![o] = "loop"] \/ writer' = [writer EXCEPT ![o] = "down"]
      BY <2>2 DEF Register
    <3>5. \A p \in Ports : Len(buf[p]) \in Nat
      BY LenProperties
    <3>6. \A p \in Ports : writer'[p] \in {"born", "loop"} => writer[p] \in {"born", "loop"}
      BY <3>1, <3>4
    <3>7. \A p \in Ports : Len(buf'[p]) <= BufferRoom - (IF writer'[p] \in {"born", "loop"} THEN 1 ELSE 0)
      BY <3>1, <3>5, <3>6, RoomForRune
    <3> QED BY <1>1, <2>1, <3>1, <3>2, <3>3, <3>4, <3>7
  <2>3. CASE WriterTurn(o)
    BY <1>1, <2>1, <2>3, WriterTypes
  <2>4. CASE Unregister(o)
    BY <1>1, <2>1, <2>4 DEF Unregister
  <2> QED BY <1>3, <2>2, <2>3, <2>4 DEF WriterStep
<1>4. ASSUME NEW o \in Ports, WriterAceDown(o) PROVE OutputTypeOK'
  BY <1>1, <1>4 DEF WriterAceDown
<1>5. CASE WritePoolLeaves \/ WritePoolAceDown \/ AceLeaves
  BY <1>1, <1>5 DEF WritePoolLeaves, WritePoolAceDown, AceLeaves
<1>6. CASE CollectionSucceeds
  BY <1>1, <1>6 DEF CollectionSucceeds
<1>7. CASE CollectionFails
  BY <1>1, <1>7 DEF CollectionFails
<1>8. CASE CollectionCrashes \/ MemoryFills
  BY <1>1, <1>8 DEF CollectionCrashes, MemoryFills
<1>9. CASE Over \/ UNCHANGED vars
  BY <1>1, <1>9 DEF Over, vars
<1> QED BY <1>2, <1>3, <1>4, <1>5, <1>6, <1>7, <1>8, <1>9 DEF OutputNext, Collection

-----------------------------------------------------------------------------
(* The links *)

\* A write process stays linked to the thread as long as it has a string of its.
LEMMA WriterLinks ==
  ASSUME OutputTypeOK, LinksExact, NEW o \in Ports, WriterTurn(o)
  PROVE  LinksExact'
<1> USE DEF OutputTypeOK, LinksExact
<1>1. CASE UNCHANGED <<writing, links>>
  BY <1>1
<1>2. CASE writing' = [writing EXCEPT ![o] = NoString] /\ links' = links \ {o}
  BY <1>2
<1>3. CASE StringHasRune(o)
  <2>1. UNCHANGED links /\ writing[o] # NoString
    BY <1>3 DEF StringHasRune, Stays
  <2>2. writing'[o] # NoString
    <3>1. symbol'[o] # NoString
      <4>1. writing[o] \in Strings /\ writing[o].runes # <<>>
        BY <1>3 DEF StringHasRune
      <4>2. Head(writing[o].runes) \in Runes
        BY <4>1, HeadTailProperties DEF Strings
      <4> QED BY <1>3, <4>2, StringsReal DEF StringHasRune
    <3> QED BY <3>1, WriterWords DEF WordsOK
  <2>3. \A p \in Ports \ {o} : writing'[p] = writing[p]
    BY <1>3 DEF StringHasRune
  <2> QED BY <2>1, <2>2, <2>3
<1> QED BY <1>1, <1>2, <1>3 DEF WriterTurn, GivesUp, RuneFails, RuneReady, StringLate, StringEnds,
             StringFails, NothingLeft, PostAndClose, Stays

\* Every step keeps the links exact: a write links the thread to its port, and whoever takes
\* the string from the port unlinks it.
LEMMA LinksStep ==
  ASSUME OutputTypeOK, ThreadInv, LinksExact, [OutputNext]_vars
  PROVE  LinksExact'
<1>1. CASE UNCHANGED <<writing, links>>
  BY <1>1 DEF LinksExact
<1>2. CASE ExecWrite
  <2>1. PICK o \in Ports : o = Head(left).port /\ (WriteRefused(o) \/ WriteAccepted(o) \/ WriteBlocks(o))
    BY <1>2 DEF ExecWrite
  <2>2. CASE WriteAccepted(o)
    <3>1. Head(left).string # NoString
      BY <1>2, NextWrite, StringsReal DEF ExecWrite
    <3> QED BY <2>2, <3>1 DEF WriteAccepted, LinksExact, OutputTypeOK
  <2>3. CASE WriteRefused(o) \/ WriteBlocks(o)
    BY <1>1, <2>3 DEF WriteRefused, WriteBlocks
  <2> QED BY <2>1, <2>2, <2>3
<1>3. ASSUME NEW o \in Ports, WriterTurn(o) PROVE LinksExact'
  BY <1>3, WriterLinks
<1> QED BY <1>1, <1>2, <1>3
        DEF OutputNext, MainStep, StatementDone, WriteThreadsDown, AceDownAndExit, WriterStep, Register,
            Unregister, WriterAceDown, WritePoolLeaves, WritePoolAceDown, AceLeaves, Collection,
            CollectionSucceeds, CollectionCrashes, CollectionFails, MemoryFills, Over, vars, port, api

-----------------------------------------------------------------------------
(* The way out *)

\* The write threads lose their client when they are told, and only then.
LEMMA RefcountStep ==
  ASSUME OutputTypeOK, ThreadInv, RefcountRight, [OutputNext]_vars
  PROVE  RefcountRight'
<1> USE DEF RefcountRight
<1>1. CASE UNCHANGED <<main, exit, refcount>>
  BY <1>1
<1>2. CASE main \notin {"leaving", "exited"} /\ main' \notin {"leaving", "exited"} /\ UNCHANGED refcount
  BY <1>2
<1>3. CASE WriteThreadsDown
  BY <1>3 DEF WriteThreadsDown, CallbacksDone
<1>4. CASE AceDownAndExit
  BY <1>4 DEF AceDownAndExit, MainExits, ThreadInv, ThreadTypeOK, Terminating
<1>5. CASE CollectionCrashes
  BY <1>5 DEF CollectionCrashes, EverybodyWaits, procs
<1>6. CASE ExecOther /\ UNCHANGED <<port, files, api, procs, exhausted>>
  BY <1>2, <1>6 DEF ExecOther, Evaluated, TakeTurn, Unevaluated, EvaluatesToError, UnpackBlock, EndTurn,
       EvaluatesToPrim, PrimReturns, PrimBlocked, PrimRefused, LookAtMemory, StillBusy, ThreadEnds, procs
<1>7. CASE ExecWrite
  BY <1>2, <1>7 DEF ExecWrite, WriteRefused, WriteAccepted, WriteBlocks, PrimReturns, procs
<1>8. CASE StatementDone
  BY <1>2, <1>8 DEF StatementDone, PrimSucceeded, EndTurn, procs
<1>9. ASSUME NEW o \in Ports, WriterStep(o) \/ WriterAceDown(o) PROVE RefcountRight'
  <2>1. UNCHANGED refcount
    BY <1>9 DEF WriterStep, WriterAceDown
  <2>2. UNCHANGED <<main, exit>>
    BY <1>9 DEF WriterStep, Register, WriterTurn, GivesUp, RuneFails, RuneReady, StringLate,
       StringHasRune, StringEnds, StringFails, NothingLeft, Unregister, WriterAceDown, PostAndClose,
       ApiThreadPost, Stays, thread
  <2> QED BY <1>1, <2>1, <2>2
<1> QED BY <1>1, <1>3, <1>4, <1>5, <1>6, <1>7, <1>8, <1>9
        DEF OutputNext, MainStep, WritePoolLeaves, WritePoolAceDown, AceLeaves, Collection,
            CollectionSucceeds, CollectionFails, MemoryFills, Over, vars, thread, procs

\* A write process leaves a thread that is not linked to it alone.
LEMMA WriterQuiet ==
  ASSUME OutputTypeOK, LinksExact, links = {}, NEW o \in Ports, WriterTurn(o)
  PROVE  UNCHANGED <<thread, links, posted>>
<1>1. writing[o] = NoString /\ symbol[o] = NoString
  BY DEF LinksExact, OutputTypeOK
<1> QED BY <1>1 DEF WriterTurn, GivesUp, RuneFails, RuneReady, StringLate, StringHasRune, StringEnds,
             StringFails, NothingLeft, files

\* Nor does a write process move the main process.
LEMMA WriterKeepsMain ==
  ASSUME NEW o \in Ports, WriterStep(o) \/ WriterAceDown(o)
  PROVE  UNCHANGED <<main, exit>>
BY DEF WriterStep, Register, WriterTurn, GivesUp, RuneFails, RuneReady, StringLate, StringHasRune,
       StringEnds, StringFails, NothingLeft, Unregister, WriterAceDown, PostAndClose, ApiThreadPost,
       Stays, thread

\* A thread that has been let go is not linked to a port again.
LEMMA LetGoStep ==
  ASSUME OutputTypeOK, ThreadInv, LinksExact, LetGo, [OutputNext]_vars
  PROVE  LetGo'
<1> USE DEF LetGo, Leaving
<1>1. CASE UNCHANGED <<main, exit, state, links>>
  BY <1>1
<1>2. CASE main' \notin {"stopping", "leaving", "exited"}
  BY <1>2
<1>3. CASE ExecOther /\ UNCHANGED <<port, files, api, procs, exhausted>>
  <2>1. CASE ThreadEnds(links # {})
    BY <1>3, <2>1 DEF ThreadEnds, api
  <2>2. CASE ~ThreadEnds(links # {})
    BY <1>2, <1>3, <2>2 DEF ExecOther, Evaluated, TakeTurn, Unevaluated, EvaluatesToError, UnpackBlock,
         EndTurn, EvaluatesToPrim, PrimReturns, PrimBlocked, PrimRefused, LookAtMemory, StillBusy
  <2> QED BY <2>1, <2>2
<1>4. CASE ExecWrite
  BY <1>2, <1>4 DEF ExecWrite, WriteRefused, WriteAccepted, WriteBlocks, PrimReturns
<1>5. CASE StatementDone
  BY <1>2, <1>5 DEF StatementDone, PrimSucceeded, EndTurn
<1>6. CASE (WriteThreadsDown \/ AceDownAndExit) /\ UNCHANGED <<files, api, exhausted>>
  BY <1>6 DEF WriteThreadsDown, AceDownAndExit, CallbacksDone, MainExits, ThreadInv, api
<1>7. ASSUME NEW o \in Ports, WriterStep(o) \/ WriterAceDown(o) PROVE LetGo'
  <2>1. CASE Leaving
    <3>1. CASE WriterTurn(o)
      BY <1>1, <2>1, <3>1, WriterQuiet DEF thread
    <3>2. CASE ~WriterTurn(o)
      BY <1>1, <1>7, <3>2 DEF WriterStep, Register, Unregister, WriterAceDown, thread, api
    <3> QED BY <3>1, <3>2
  <2>2. CASE ~Leaving
    BY <1>7, <2>2, WriterKeepsMain
  <2> QED BY <2>1, <2>2
<1>8. CASE Collection
  BY <1>1, <1>2, <1>8 DEF Collection, CollectionSucceeds, CollectionCrashes, CollectionFails,
       EverybodyWaits, thread, api
<1> QED BY <1>1, <1>3, <1>4, <1>5, <1>6, <1>7, <1>8
        DEF OutputNext, MainStep, WritePoolLeaves, WritePoolAceDown, AceLeaves, MemoryFills, Over,
            vars, thread, api

-----------------------------------------------------------------------------
(* The counts *)

\* The write processes at some of their places.
At(places) == {o \in Ports : writer[o] \in places}

\* They are finitely many.
LEMMA AtFinite == \A places : IsFiniteSet(At(places)) /\ Cardinality(At(places)) \in Nat
BY PortsFinite, FS_Subset, FS_CardinalityType DEF At

\* When one process moves, the others stay where they are.
LEMMA OneMoves ==
  ASSUME writer \in [Ports -> {"born", "loop", "left", "down", "gone"}],
         NEW o \in Ports, NEW there, writer' = [writer EXCEPT ![o] = there], NEW places
  PROVE  Cardinality(At(places)') = Cardinality(At(places))
                                     - (IF writer[o] \in places THEN 1 ELSE 0)
                                     + (IF there \in places THEN 1 ELSE 0)
<1> DEFINE others == At(places) \ {o}
<1>1. IsFiniteSet(At(places)) /\ IsFiniteSet(others) /\ Cardinality(At(places)) \in Nat
  BY AtFinite, FS_RemoveElement
<1>2. Cardinality(others) = Cardinality(At(places)) - (IF writer[o] \in places THEN 1 ELSE 0)
  BY <1>1, FS_RemoveElement DEF At
<1>3. At(places)' = IF there \in places THEN others \cup {o} ELSE others
  BY DEF At
<1>4. Cardinality(others \cup {o}) = Cardinality(others) + 1
  BY <1>1, FS_AddElement
<1> HIDE DEF others
<1>5. Cardinality(others) \in Int
  BY <1>1, FS_CardinalityType
<1> QED BY <1>1, <1>2, <1>3, <1>4, <1>5

\* What the counts are, in terms of the places of the processes.
Holders == At({"born", "loop", "left", "down"})
Registered == At({"loop", "left"})
PoolHolds == IF write_pool = "gone" THEN 0 ELSE 1
MainHolds == IF main = "exited" /\ exit # "crash" THEN 0 ELSE 1

\* CountsExact in these terms, in a state and in its successor.
LEMMA CountsAre ==
  ASSUME OutputTypeOK, OutputTypeOK'
  PROVE  /\ CountsExact <=> /\ ace_refs = Cardinality(Holders) + PoolHolds + MainHolds
                            /\ num_threads = Cardinality(Registered)
         /\ CountsExact' <=> /\ ace_refs' = Cardinality(Holders') + PoolHolds' + MainHolds'
                             /\ num_threads' = Cardinality(Registered')
<1>1. {o \in Ports : writer[o] # "gone"} = Holders
  BY DEF Holders, At, OutputTypeOK
<1>2. {o \in Ports : writer'[o] # "gone"} = Holders'
  BY DEF Holders, At, OutputTypeOK
<1> QED BY <1>1, <1>2 DEF CountsExact, PoolHolds, MainHolds, Registered, At

\* The terms are numbers.
LEMMA CountsTyped ==
  /\ Cardinality(Holders) \in Nat /\ Cardinality(Registered) \in Nat
  /\ PoolHolds \in {0, 1} /\ MainHolds \in {0, 1}
BY AtFinite DEF Holders, Registered, PoolHolds, MainHolds

\* A write process moves, and counts itself in or out.
Moves(o, there) ==
  /\ writer[o] # "gone"
  /\ there \in {"loop", "left", "down", "gone"}
  /\ writer' = [writer EXCEPT ![o] = there]
  /\ UNCHANGED <<main, exit, write_pool>>
  /\ ace_refs' = IF there = "gone" THEN ace_refs - 1 ELSE ace_refs
  /\ num_threads' = num_threads - (IF writer[o] \in {"loop", "left"} THEN 1 ELSE 0)
                                + (IF there \in {"loop", "left"} THEN 1 ELSE 0)

\* Such a move keeps the counts exact.
LEMMA CountsMove ==
  ASSUME OutputTypeOK, CountsExact, OutputTypeOK', NEW o \in Ports, NEW there, Moves(o, there)
  PROVE  CountsExact'
<1> USE DEF Moves
<1>1. /\ writer \in [Ports -> {"born", "loop", "left", "down", "gone"}]
      /\ writer[o] \in {"born", "loop", "left", "down"}
  BY DEF OutputTypeOK
<1>2. Cardinality(Holders')
        = Cardinality(Holders) - (IF writer[o] \in {"born", "loop", "left", "down"} THEN 1 ELSE 0)
                               + (IF there \in {"born", "loop", "left", "down"} THEN 1 ELSE 0)
  <2>1. \A places : Cardinality(At(places)') = Cardinality(At(places))
                                     - (IF writer[o] \in places THEN 1 ELSE 0)
                                     + (IF there \in places THEN 1 ELSE 0)
    BY <1>1, OneMoves
  <2> QED BY <2>1, Zenon DEF Holders
<1>3. Cardinality(Registered')
        = Cardinality(Registered) - (IF writer[o] \in {"loop", "left"} THEN 1 ELSE 0)
                                  + (IF there \in {"loop", "left"} THEN 1 ELSE 0)
  BY <1>1, OneMoves DEF Registered
<1>4. PoolHolds' = PoolHolds /\ MainHolds' = MainHolds
  BY DEF PoolHolds, MainHolds
<1>5. ace_refs = Cardinality(Holders) + PoolHolds + MainHolds /\ num_threads = Cardinality(Registered)
  BY CountsAre
<1>6. ace_refs' = Cardinality(Holders') + PoolHolds' + MainHolds'
  BY <1>1, <1>2, <1>4, <1>5, CountsTyped
<1>7. num_threads' = Cardinality(Registered')
  BY <1>3, <1>5
<1> QED BY <1>6, <1>7, CountsAre

\* The main process or the write pool lets go of the ACE pool.
LEMMA CountsDrop ==
  ASSUME OutputTypeOK, CountsExact, OutputTypeOK', UNCHANGED <<writer, num_threads>>,
         ace_refs' = ace_refs - 1, PoolHolds' + MainHolds' = PoolHolds + MainHolds - 1
  PROVE  CountsExact'
<1>1. Holders' = Holders /\ Registered' = Registered
  BY DEF Holders, Registered, At
<1>2. PoolHolds' \in Int /\ MainHolds' \in Int
  BY DEF PoolHolds, MainHolds
<1>3. ace_refs = Cardinality(Holders) + PoolHolds + MainHolds /\ num_threads = Cardinality(Registered)
  BY CountsAre
<1>4. ace_refs' = Cardinality(Holders') + PoolHolds' + MainHolds'
  <2> DEFINE n == Cardinality(Holders)
             p == PoolHolds
             m == MainHolds
             q == PoolHolds'
             r == MainHolds'
  <2>1. n \in Int /\ p \in Int /\ m \in Int /\ q \in Int /\ r \in Int
    BY <1>2, CountsTyped
  <2>2. ace_refs = n + p + m /\ ace_refs' = ace_refs - 1 /\ q + r = p + m - 1 /\ Cardinality(Holders') = n
    BY <1>1, <1>3
  <2> HIDE DEF n, p, m, q, r
  <2>3. ace_refs' = n + q + r
    BY <2>1, <2>2
  <2> QED BY <2>2, <2>3 DEF q, r
<1> QED BY <1>1, <1>3, <1>4, CountsAre

\* Every process lets go of the ACE pool once, and of the queue of write threads once.
LEMMA CountsStep ==
  ASSUME OutputTypeOK, ThreadInv, RefcountRight, CountsExact, [OutputNext]_vars
  PROVE  CountsExact'
<1>1. OutputTypeOK'
  BY TypeStep
<1>2. CASE UNCHANGED <<writer, num_threads, ace_refs, write_pool, MainHolds>>
  BY <1>2 DEF CountsExact, MainHolds
<1>3. CASE main # "exited" /\ main' # "exited" /\ UNCHANGED procs
  BY <1>2, <1>3 DEF MainHolds, procs
<1>4. CASE MainStep
  <2>1. CASE ExecOther /\ UNCHANGED <<port, files, api, procs, exhausted>>
    BY <1>3, <2>1 DEF ExecOther, Evaluated, TakeTurn, Unevaluated, EvaluatesToError, UnpackBlock, EndTurn,
       EvaluatesToPrim, PrimReturns, PrimBlocked, PrimRefused, LookAtMemory, StillBusy, ThreadEnds
  <2>2. CASE ExecWrite
    BY <1>3, <2>2 DEF ExecWrite, WriteRefused, WriteAccepted, WriteBlocks, PrimReturns
  <2>3. CASE StatementDone
    BY <1>3, <2>3 DEF StatementDone, PrimSucceeded, EndTurn
  <2>4. CASE WriteThreadsDown
    BY <1>2, <2>4 DEF WriteThreadsDown, CallbacksDone, MainHolds
  <2>5. CASE AceDownAndExit
    <3>1. MainHolds = 1 /\ MainHolds' = 0
      BY <2>5 DEF AceDownAndExit, MainExits, MainHolds, ThreadInv, ThreadTypeOK, Terminating
    <3>2. PoolHolds' = PoolHolds /\ PoolHolds \in {0, 1}
      BY <2>5 DEF AceDownAndExit, PoolHolds
    <3> QED BY <1>1, <2>5, <3>1, <3>2, CountsDrop DEF AceDownAndExit
  <2> QED BY <1>4, <2>1, <2>2, <2>3, <2>4, <2>5 DEF MainStep
<1>5. ASSUME NEW o \in Ports, WriterStep(o) \/ WriterAceDown(o) PROVE CountsExact'
  <2>1. UNCHANGED <<main, exit, write_pool>>
    BY <1>5, WriterKeepsMain DEF WriterStep, WriterAceDown
  <2>2. CASE WriterStep(o) /\ UNCHANGED <<writer, num_threads>>
    BY <1>2, <2>1, <2>2 DEF WriterStep, MainHolds
  <2>3. CASE WriterStep(o) /\ Register(o)
    <3>1. \E there \in {"loop", "down"} : Moves(o, there)
      BY <2>1, <2>3 DEF WriterStep, Register, OutputTypeOK, Moves
    <3> QED BY <1>1, <3>1, CountsMove
  <2>4. CASE WriterStep(o) /\ WriterTurn(o)
    <3>1. PlacesOK
      BY DEF OutputTypeOK, PlacesOK
    <3>2. writer[o] = "loop" /\ UNCHANGED <<num_threads, ace_refs>>
      BY <2>4 DEF WriterTurn, WriterStep
    <3>3. CASE UNCHANGED writer
      BY <2>2, <2>4, <3>2, <3>3
    <3>4. CASE writer' = [writer EXCEPT ![o] = "left"]
      <4>1. Moves(o, "left")
        BY <2>1, <3>2, <3>4 DEF Moves, OutputTypeOK
      <4> QED BY <1>1, <4>1, CountsMove
    <3> QED BY <2>4, <3>1, <3>3, <3>4, WriterPlaces
  <2>5. CASE WriterStep(o) /\ Unregister(o)
    <3>1. Moves(o, "down")
      BY <2>1, <2>5 DEF WriterStep, Unregister, Moves, OutputTypeOK
    <3> QED BY <1>1, <3>1, CountsMove
  <2>6. CASE WriterAceDown(o)
    <3>1. Moves(o, "gone")
      BY <2>1, <2>6 DEF WriterAceDown, Moves, OutputTypeOK
    <3> QED BY <1>1, <3>1, CountsMove
  <2> QED BY <1>5, <2>3, <2>4, <2>5, <2>6 DEF WriterStep
<1>6. CASE WritePoolLeaves
  <2>1. PoolHolds' = PoolHolds
    BY <1>6 DEF WritePoolLeaves, PoolHolds
  <2> QED BY <1>6, <2>1 DEF WritePoolLeaves, CountsExact, thread, PoolHolds
<1>7. CASE WritePoolAceDown
  <2>1. PoolHolds = 1 /\ PoolHolds' = 0
    BY <1>7 DEF WritePoolAceDown, PoolHolds
  <2>2. MainHolds' = MainHolds /\ MainHolds \in {0, 1}
    BY <1>7 DEF WritePoolAceDown, MainHolds, thread
  <2> QED BY <1>1, <1>7, <2>1, <2>2, CountsDrop DEF WritePoolAceDown
<1>8. CASE CollectionCrashes
  BY <1>8 DEF CollectionCrashes, EverybodyWaits, CountsExact, procs
<1> QED BY <1>2, <1>4, <1>5, <1>6, <1>7, <1>8
        DEF OutputNext, AceLeaves, Collection, CollectionSucceeds, CollectionFails, MemoryFills, Over,
            vars, thread, procs, MainHolds

-----------------------------------------------------------------------------
(* The ACE pool *)

\* When no count is left, nobody is left who would ask the ACE pool for anything.
LEMMA NobodyLeft ==
  ASSUME OutputTypeOK, CountsExact, ace_refs <= 0
  PROVE  main = "exited" /\ exit # "crash"
<1>1. Cardinality({o \in Ports : writer[o] # "gone"}) \in Nat
  BY PortsFinite, FS_Subset, FS_CardinalityType
<1> QED BY <1>1 DEF CountsExact

\* Without the ACE pool the main process does nothing with the thread but end it.
LEMMA MainAlone ==
  ASSUME AceInv, ace = "gone", MainStep
  PROVE  /\ main' \notin InStatement /\ state' \notin {"active", "running"}
         /\ UNCHANGED <<writing, told, writer, ace>>
<1> USE DEF AceInv, InStatement
<1>1. CASE ExecOther /\ UNCHANGED <<port, files, api, procs, exhausted>>
  <2>1. LookAtMemory(exhausted) \/ StillBusy(links # {}) \/ ThreadEnds(links # {})
    BY <1>1 DEF ExecOther, TakeTurn, Unevaluated, Evaluated, PrimBlocked, PrimRefused
  <2> QED BY <1>1, <2>1 DEF LookAtMemory, StillBusy, ThreadEnds, EndTurn, port, procs
<1>2. CASE WriteThreadsDown \/ AceDownAndExit
  BY <1>2 DEF WriteThreadsDown, AceDownAndExit, CallbacksDone, MainExits, port
<1> QED BY <1>1, <1>2 DEF MainStep, ExecWrite, StatementDone, PrimSucceeded

\* Nor does a write process take up anything: it gives up, or has nothing to do.
LEMMA WriterAlone ==
  ASSUME OutputTypeOK, AceInv, ace = "gone", NEW o \in Ports, WriterStep(o) \/ WriterAceDown(o)
  PROVE  AceInv'
<1> USE DEF AceInv
<1>1. UNCHANGED main /\ (UNCHANGED state \/ state' = "abend")
  BY WriterKeepsMain DEF WriterStep, Register, WriterTurn, GivesUp, RuneFails, RuneReady, StringLate,
       StringHasRune, StringEnds, StringFails, NothingLeft, Unregister, WriterAceDown, PostAndClose,
       ApiThreadPost, Stays, thread
<1>2. ASSUME \A p \in Ports \ {o} : UNCHANGED <<writing[p], told[p], writer[p]>>,
             writing'[o] # NoString => writer'[o] \in {"left", "down", "gone"}
      PROVE  AceInv'
  BY <1>1, <1>2 DEF Stranded
<1>3. CASE WriterStep(o) /\ Register(o)
  BY <1>2, <1>3 DEF Register, Stranded, OutputTypeOK
<1>4. CASE WriterStep(o) /\ WriterTurn(o)
  <2>1. CASE writing[o] = NoString
    <3>1. symbol[o] = NoString
      BY <2>1 DEF OutputTypeOK
    <3>2. UNCHANGED writing /\ (Closes(o) \/ UNCHANGED <<told, writer>>)
      BY <1>4, <2>1, <3>1 DEF WriterTurn, GivesUp, RuneFails, RuneReady, StringLate, StringHasRune,
         StringEnds, StringFails, NothingLeft
    <3> QED BY <1>2, <2>1, <3>2 DEF Closes, OutputTypeOK
  <2>2. CASE writing[o] # NoString
    <3>1. told[o]
      BY <1>4, <2>2 DEF WriterTurn, Stranded
    <3>2. GivesUp(o)
      BY <1>4, <2>2, <3>1 DEF WriterTurn, NothingLeft
    <3> QED BY <1>2, <2>2, <3>2 DEF GivesUp, PostAndClose, Closes, OutputTypeOK
  <2> QED BY <2>1, <2>2
<1>5. CASE WriterStep(o) /\ Unregister(o)
  BY <1>2, <1>5 DEF Unregister, OutputTypeOK, port
<1>6. CASE WriterAceDown(o)
  BY <1>2, <1>6 DEF WriterAceDown, OutputTypeOK, port
<1> QED BY <1>3, <1>4, <1>5, <1>6 DEF WriterStep

\* The ACE pool returns when nobody is left, or when everybody has been told.
LEMMA AceStep ==
  ASSUME OutputInv, [OutputNext]_vars
  PROVE  AceInv'
<1> USE DEF OutputInv
<1>1. CASE UNCHANGED <<ace, main, state, writing, told, writer>>
  BY <1>1 DEF AceInv, Stranded
<1>2. CASE MainStep
  <2>1. UNCHANGED ace
    BY <1>2 DEF MainStep, ExecWrite, StatementDone, WriteThreadsDown, AceDownAndExit, procs
  <2>2. CASE ace = "gone"
    BY <1>2, <2>2, MainAlone DEF AceInv, Stranded
  <2> QED BY <2>1, <2>2 DEF AceInv
<1>3. ASSUME NEW o \in Ports, WriterStep(o) \/ WriterAceDown(o) PROVE AceInv'
  <2>1. UNCHANGED ace
    BY <1>3 DEF WriterStep, WriterAceDown
  <2> QED BY <1>3, <2>1, WriterAlone DEF AceInv
<1>4. CASE AceLeaves
  <2>1. main = "exited" /\ exit # "crash"
    BY <1>4, NobodyLeft DEF AceLeaves
  <2>2. state = "unused" /\ \A o \in Ports : writing[o] = NoString
    BY <2>1 DEF LetGo, Leaving, LinksExact
  <2> QED BY <1>4, <2>1, <2>2 DEF AceLeaves, AceInv, InStatement, thread, port
<1>5. CASE CollectionFails
  <2>1. main = "top" /\ state # "running" /\ \A o \in Ports : writer[o] \in {"loop", "gone"}
    BY <1>5 DEF CollectionFails, EverybodyWaits, ThreadInv, InStatement
  <2>2. UNCHANGED <<main, writing, writer>> /\ state' \notin {"active", "running"}
    BY <1>5, <2>1 DEF CollectionFails, port
  <2>3. \A o \in Ports : writer[o] = "loop" => told'[o]
    BY <1>5 DEF CollectionFails
  <2> QED BY <2>1, <2>2, <2>3 DEF AceInv, Stranded, InStatement
<1>6. CASE CollectionCrashes
  BY <1>6 DEF CollectionCrashes, AceInv, Stranded, InStatement, port, procs
<1> QED BY <1>1, <1>2, <1>3, <1>4, <1>5, <1>6
        DEF OutputNext, WritePoolLeaves, WritePoolAceDown, Collection, CollectionSucceeds, MemoryFills,
            Over, vars, thread, port, procs

-----------------------------------------------------------------------------
(* Theorems *)

\* The invariant holds at the start.
LEMMA InvInitially == OutputInit => OutputInv
<1> SUFFICES ASSUME OutputInit PROVE OutputInv
  OBVIOUS
<1>1. OutputTypeOK /\ ThreadInv
  BY TypeInitially, ThreadInitially DEF OutputInit
<1>2. main = "top" /\ exit = "none"
  BY DEF OutputInit, ThreadInit
<1>3. RefcountRight /\ LinksExact /\ LetGo /\ AceInv
  BY <1>2 DEF OutputInit, RefcountRight, LinksExact, LetGo, Leaving, AceInv
<1>4. CountsExact
  <2>1. {o \in Ports : writer[o] # "gone"} = Ports /\ {o \in Ports : writer[o] \in {"loop", "left"}} = {}
    BY DEF OutputInit
  <2>2. Cardinality(Ports) \in Nat /\ Cardinality({}) = 0
    BY PortsFinite, FS_CardinalityType, FS_EmptySet
  <2>3. ace_refs = Cardinality(Ports) + 2 /\ num_threads = 0 /\ write_pool = "loop"
    BY DEF OutputInit
  <2>4. ace_refs = Cardinality(Ports) + 1 + 1
    BY <2>2, <2>3
  <2> QED BY <1>2, <2>1, <2>2, <2>3, <2>4 DEF CountsExact
<1> QED BY <1>1, <1>3, <1>4 DEF OutputInv

\* Every step preserves the invariant.
LEMMA InvStep == OutputInv /\ [OutputNext]_vars => OutputInv'
BY TypeStep, ThreadStep, RefcountStep, LinksStep, CountsStep, LetGoStep, AceStep DEF OutputInv

\* OutputInv is an invariant of the system.
THEOREM OutputInvariant == OutputSpec => []OutputInv
BY InvInitially, InvStep, PTL DEF OutputSpec

\* Every variable has its type: in particular the buffer is never full when a write
\* process looks for its next rune, and there is a string for every rune in hand.
THEOREM OutputTypeCorrect == OutputSpec => []OutputTypeOK
<1>1. OutputInv => OutputTypeOK
  BY DEF OutputInv
<1> QED BY <1>1, OutputInvariant, PTL

\* The thread is linked to exactly the ports that have a string of its.
THEOREM LinksAlwaysExact == OutputSpec => []LinksExact
<1>1. OutputInv => LinksExact
  BY DEF OutputInv
<1> QED BY <1>1, OutputInvariant, PTL

\* The counts of the ACE pool and of the write pool are those of the processes there are.
THEOREM CountsAlwaysExact == OutputSpec => []CountsExact
<1>1. OutputInv => CountsExact
  BY DEF OutputInv
<1> QED BY <1>1, OutputInvariant, PTL

\* The ACE pool does not return while somebody waits for a value of it.
THEOREM AceAlwaysServes == OutputSpec => []AceServes
<1>1. OutputInv => AceServes
  BY DEF OutputInv, AceInv, AceServes
<1> QED BY <1>1, OutputInvariant, PTL

\* Nobody posts to the thread once the main process has locked it for good.
THEOREM PostedInTime == OutputSpec => PostsInTime
<1>1. OutputInv /\ [OutputNext]_vars
        => [(main \in {"stopping", "leaving", "exited"}) => UNCHANGED posted]_vars
  <2> SUFFICES ASSUME OutputInv, OutputNext, main \in {"stopping", "leaving", "exited"}
               PROVE  UNCHANGED posted
    BY DEF vars, files
  <2>1. ASSUME NEW o \in Ports, WriterStep(o) PROVE UNCHANGED posted
    <3>1. Leaving
      BY <2>1 DEF WriterStep, Leaving
    <3>2. CASE WriterTurn(o)
      BY <3>1, <3>2, WriterQuiet DEF OutputInv, LetGo
    <3>3. CASE ~WriterTurn(o)
      BY <2>1, <3>3 DEF WriterStep, Register, Unregister, files
    <3> QED BY <3>2, <3>3
  <2> QED BY <2>1
          DEF OutputNext, MainStep, ExecWrite, StatementDone, WriterAceDown, WritePoolLeaves,
              WritePoolAceDown, AceLeaves, Collection, CollectionSucceeds, CollectionCrashes,
              CollectionFails, MemoryFills, Over, vars, files
<1> QED BY <1>1, OutputInvariant, PTL DEF OutputSpec, PostsInTime

-----------------------------------------------------------------------------
(* The abstract ports *)

\* What a port has accepted and not written yet: the buffer, the rune in hand, and what is
\* left of the string.
InHand(o) == IF symbol[o] = NoString THEN <<>> ELSE <<symbol[o]>>
Rest(o) == IF writing[o] = NoString THEN <<>> ELSE writing[o].runes

\* A port whose failure has not been posted has lost nothing; one whose failure has been
\* is not written to any more.
Delivers(o) ==
  /\ o \notin posted =>
       /\ text[o] = output[o] \o (buf[o] \o (InHand(o) \o Rest(o)))
       /\ writing[o] = NoString => buf[o] = <<>>
  /\ o \in posted =>
       /\ Port!IsPrefix(output[o], text[o])
       /\ ~active[o] /\ writer[o] \in {"left", "down", "gone"}

DeliveryInv ==
  /\ text \in [Ports -> Seq(Runes)]
  /\ output \in [Ports -> Seq(Runes)]
  /\ \A o \in Ports : Delivers(o)

\* A text is a prefix of what it goes on to.
LEMMA PrefixConcat ==
  ASSUME NEW s \in Seq(Runes), NEW t \in Seq(Runes)
  PROVE  Port!IsPrefix(s, s \o t)
<1> DEFINE st == s \o t
<1>1. st \in Seq(Runes) /\ Len(st) = Len(s) + Len(t) /\ Len(s) \in Nat /\ Len(t) \in Nat
  BY ConcatProperties, LenProperties
<1>2. SubSeq(st, 1, Len(s)) = SubSeq(s, 1, Len(s))
  BY <1>1, SubSeqOfConcat1, SMT
<1>3. Len(s) <= Len(st)
  BY <1>1
<1> HIDE DEF st
<1>4. Port!IsPrefix(s, st)
  BY <1>2, <1>3, Zenon DEF Port!IsPrefix
<1> QED BY <1>4 DEF st

\* Texts may be put together in any order.
LEMMA TextsAssociative ==
  \A x, y, z \in Seq(Runes) : x \o (y \o z) = (x \o y) \o z
<1> SUFFICES ASSUME NEW x \in Seq(Runes), NEW y \in Seq(Runes), NEW z \in Seq(Runes)
             PROVE  x \o (y \o z) = (x \o y) \o z
  OBVIOUS
<1> QED BY ConcatAssociative

\* What is written from the front of the buffer is taken off what remains.
LEMMA TextWritten ==
  \A x, y, z, v \in Seq(Runes) : x \o ((y \o z) \o v) = (x \o y) \o (z \o v)
<1> SUFFICES ASSUME NEW x \in Seq(Runes), NEW y \in Seq(Runes), NEW z \in Seq(Runes), NEW v \in Seq(Runes)
             PROVE  x \o ((y \o z) \o v) = (x \o y) \o (z \o v)
  OBVIOUS
<1>1. z \o v \in Seq(Runes)
  BY ConcatProperties
<1>2. (y \o z) \o v = y \o (z \o v)
  BY TextsAssociative
<1>3. x \o (y \o (z \o v)) = (x \o y) \o (z \o v)
  BY <1>1, TextsAssociative
<1> QED BY <1>2, <1>3

\* The rune in hand and the rest of the string are texts.
LEMMA RestTyped ==
  ASSUME OutputTypeOK, NEW o \in Ports
  PROVE  InHand(o) \in Seq(Runes) /\ Rest(o) \in Seq(Runes) /\ InHand(o) \o Rest(o) \in Seq(Runes)
<1>1. symbol[o] \in Runes \cup {NoString} /\ writing[o] \in Strings \cup {NoString}
  BY DEF OutputTypeOK
<1>2. InHand(o) \in Seq(Runes)
  <2>1. CASE symbol[o] = NoString
    BY <2>1, EmptySeq DEF InHand
  <2>2. CASE symbol[o] # NoString
    <3>1. symbol[o] \in Runes
      BY <1>1, <2>2
    <3>2. InHand(o) = <<symbol[o]>>
      BY <2>2 DEF InHand
    <3> QED BY <3>1, <3>2
  <2> QED BY <2>1, <2>2
<1>3. Rest(o) \in Seq(Runes)
  BY <1>1, EmptySeq DEF Rest, Strings
<1> QED BY <1>2, <1>3, ConcatProperties

\* A step of a write process writes a first part of its buffer, if anything.
PartWritten(o) ==
  \E x \in Seq(Runes), y \in Seq(Runes) :
    /\ buf[o] = x \o y
    /\ output' = [output EXCEPT ![o] = @ \o x]

\* Each way to use the buffer writes a first part of it.
LEMMA FlushWrites ==
  ASSUME OutputTypeOK, DeliveryInv, NEW o \in Ports
  PROVE  /\ UNCHANGED output => PartWritten(o)
         /\ Flushes(o) => PartWritten(o)
         /\ FlushFails(o) => PartWritten(o)
<1> DEFINE b == buf[o]
           e == <<>>
<1>1. b \in Seq(Runes) /\ Len(b) \in Nat /\ output[o] \in Seq(Runes) /\ e \in Seq(Runes)
  BY EmptySeq, LenProperties DEF OutputTypeOK, DeliveryInv
<1>2. b = b \o e /\ b = e \o b /\ output[o] \o e = output[o]
  BY <1>1, ConcatEmptySeq
<1>3. ASSUME UNCHANGED output PROVE PartWritten(o)
  <2>1. output' = [output EXCEPT ![o] = output[o] \o e]
    BY <1>2, <1>3 DEF DeliveryInv
  <2> HIDE DEF e
  <2> QED BY <1>1, <1>2, <2>1, Zenon DEF PartWritten
<1>4. ASSUME Flushes(o) PROVE PartWritten(o)
  <2>1. output' = [output EXCEPT ![o] = @ \o b]
    BY <1>4 DEF Flushes
  <2> HIDE DEF e
  <2> QED BY <1>1, <1>2, <2>1, Zenon DEF PartWritten
<1>5. ASSUME FlushFails(o) PROVE PartWritten(o)
  <2>1. PICK n \in 0 .. Len(b) - 1 : output' = [output EXCEPT ![o] = @ \o SubSeq(b, 1, n)]
    BY <1>5 DEF FlushFails
  <2> DEFINE x == SubSeq(b, 1, n)
             y == SubSeq(b, n + 1, Len(b))
  <2>0. n \in Nat /\ n < Len(b)
    BY <1>1
  <2>2. x \o y = SubSeq(b, 1, Len(b))
    <3> DEFINE k == Len(b)
    <3>1. b \in Seq(Runes) /\ 1 \in 1 .. Len(b) + 1 /\ n \in 1 - 1 .. Len(b) /\ k \in n .. Len(b)
      BY <1>1, <2>0
    <3>2. SubSeq(b, 1, n) \o SubSeq(b, n + 1, k) = SubSeq(b, 1, k)
      BY <3>1, ConcatAdjacentSubSeq
    <3> QED BY <3>2
  <2>3. x \in Seq(Runes) /\ y \in Seq(Runes)
    <3>1. \A i \in 1 .. n : b[i] \in Runes
      BY <1>1, <2>0
    <3>2. \A i \in n + 1 .. Len(b) : b[i] \in Runes
      BY <1>1, <2>0
    <3>3. x \in Seq(Runes)
      BY <2>0, <3>1, SubSeqProperties
    <3>4. y \in Seq(Runes)
      BY <1>1, <2>0, <3>2, SubSeqProperties
    <3> QED BY <3>3, <3>4
  <2>4. b = x \o y
    BY <1>1, <2>2, SubSeqFull
  <2> HIDE DEF x, y
  <2>5. output' = [output EXCEPT ![o] = @ \o x]
    BY <2>1 DEF x
  <2> QED BY <2>3, <2>4, <2>5, Zenon DEF PartWritten
<1> QED BY <1>3, <1>4, <1>5

\* Writing part of the buffer is putting runes, as the abstract port does.
LEMMA PartIsPut ==
  ASSUME OutputTypeOK, DeliveryInv, NEW o \in Ports, o \notin posted, PartWritten(o)
  PROVE  /\ output' \in [Ports -> Seq(Runes)]
         /\ output' = [output EXCEPT ![o] = output'[o]]
         /\ Port!IsPrefix(output[o], output'[o])
         /\ Port!IsPrefix(output'[o], text[o])
<1>1. PICK first \in Seq(Runes), second \in Seq(Runes) :
        /\ buf[o] = first \o second
        /\ output' = [output EXCEPT ![o] = @ \o first]
  BY DEF PartWritten
<1> DEFINE todo == InHand(o) \o Rest(o)
           then == second \o todo
           done == output[o]
           now == done \o first
<1>2. todo \in Seq(Runes) /\ done \in Seq(Runes) /\ output \in [Ports -> Seq(Runes)]
  BY RestTyped DEF DeliveryInv
<1>3. then \in Seq(Runes) /\ now \in Seq(Runes)
  BY <1>2, ConcatProperties
<1>4. text[o] = done \o ((first \o second) \o todo)
  BY <1>1 DEF DeliveryInv, Delivers
<1>5. text[o] = now \o then
  <2>1. \A u, w \in Seq(Runes) : u \o ((first \o second) \o w) = (u \o first) \o (second \o w)
    BY TextWritten
  <2>2. done \o ((first \o second) \o todo) = (done \o first) \o (second \o todo)
    BY <1>2, <2>1, Zenon
  <2> QED BY <1>4, <2>2
<1> HIDE DEF then
<1>6. Port!IsPrefix(now, now \o then) /\ Port!IsPrefix(done, done \o first)
  BY <1>2, <1>3, PrefixConcat
<1>7. output'[o] = now /\ output' \in [Ports -> Seq(Runes)] /\ output' = [output EXCEPT ![o] = now]
  BY <1>1, <1>2, <1>3
<1> HIDE DEF done, now
<1>8. Port!IsPrefix(output'[o], text[o])
  BY <1>5, <1>6, <1>7, Zenon
<1>9. Port!IsPrefix(output[o], output'[o])
  BY <1>6, <1>7 DEF now, done
<1> QED BY <1>7, <1>8, <1>9

\* A turn of a write process that leaves the program as it was writes a part of its buffer.
LEMMA TurnWrites ==
  ASSUME OutputTypeOK, DeliveryInv, NEW o \in Ports, WriterTurn(o)
  PROVE  PartWritten(o) /\ posted' \in {posted, posted \cup {o}}
<1>1. UNCHANGED output \/ Flushes(o) \/ FlushFails(o)
  BY DEF WriterTurn, GivesUp, RuneFails, RuneReady, StringLate, StringHasRune, StringEnds, StringFails,
         NothingLeft, files
<1>2. posted' \in {posted, posted \cup {o}}
  BY DEF WriterTurn, GivesUp, RuneFails, RuneReady, StringLate, StringHasRune, StringEnds, StringFails,
         NothingLeft, PostAndClose, Stays, files
<1> QED BY <1>1, <1>2, FlushWrites

\* Once the failure is posted the port is closed for good, and its process leaves.
LEMMA TurnCloses ==
  ASSUME OutputTypeOK, NEW o \in Ports, o \notin posted, WriterTurn(o), o \in posted'
  PROVE  ~active'[o] /\ writer'[o] = "left"
<1>1. Closes(o)
  BY DEF WriterTurn, GivesUp, RuneFails, RuneReady, StringLate, StringHasRune, StringEnds, StringFails,
         NothingLeft, PostAndClose, Stays, files
<1> QED BY <1>1 DEF Closes, OutputTypeOK

\* Otherwise what has been accepted is all written or still there.
LEMMA TurnKeeps ==
  ASSUME OutputTypeOK, DeliveryInv, NEW o \in Ports, o \notin posted, WriterTurn(o), o \notin posted',
         UNCHANGED text
  PROVE  Delivers(o)'
<1> DEFINE b == buf[o]
           done == output[o]
           h == InHand(o)
           r == Rest(o)
<1>1. /\ b \in Seq(Runes) /\ done \in Seq(Runes) /\ h \in Seq(Runes) /\ r \in Seq(Runes)
      /\ h \o r \in Seq(Runes) /\ <<>> \in Seq(Runes)
  BY RestTyped, EmptySeq DEF OutputTypeOK, DeliveryInv
<1>2. text[o] = done \o (b \o (h \o r)) /\ (writing[o] = NoString => b = <<>>)
  BY DEF DeliveryInv, Delivers
<1>3. /\ output \in [Ports -> Seq(Runes)] /\ buf \in [Ports -> Seq(Runes)]
      /\ writing \in [Ports -> Strings \cup {NoString}] /\ symbol \in [Ports -> Runes \cup {NoString}]
      /\ symbol[o] # NoString => writing[o] # NoString
  BY DEF OutputTypeOK, DeliveryInv
<1>4. ASSUME UNCHANGED <<output, buf, writing, symbol>> PROVE Delivers(o)'
  BY <1>2, <1>4 DEF Delivers, InHand, Rest
<1>5. ASSUME RuneReady(o) PROVE Delivers(o)'
  <2> DEFINE c == symbol[o]
  <2>1. c \in Runes /\ buf' = [buf EXCEPT ![o] = Append(@, c)] /\ UNCHANGED output
    BY <1>3, <1>5 DEF RuneReady
  <2>2. symbol' = [symbol EXCEPT ![o] = NoString] /\ UNCHANGED writing
    BY <1>5 DEF RuneReady, PostAndClose, Stays
  <2>3. h = <<c>> /\ writing[o] # NoString
    BY <1>3, <1>5 DEF RuneReady, InHand
  <2>4. buf'[o] = b \o h
    BY <1>1, <1>3, <2>1, <2>3, AppendIsConcat
  <2>5. InHand(o)' = <<>> /\ Rest(o)' = r /\ output'[o] = done /\ writing'[o] # NoString
    BY <1>3, <2>1, <2>2, <2>3 DEF InHand, Rest
  <2> HIDE DEF b, h, r, done, c
  <2>6. b \o (h \o r) = (b \o h) \o r
    BY <1>1, ConcatAssociative
  <2>7. <<>> \o r = r
    BY <1>1, ConcatEmptySeq
  <2>8. text'[o] = output'[o] \o (buf'[o] \o (InHand(o)' \o Rest(o)'))
    BY <1>2, <2>4, <2>5, <2>6, <2>7
  <2> QED BY <2>5, <2>8 DEF Delivers
<1>6. ASSUME StringHasRune(o) PROVE Delivers(o)'
  <2> DEFINE c == Head(r)
             t == Tail(r)
  <2>1. writing[o] \in Strings /\ r = writing[o].runes /\ r # <<>> /\ h = <<>>
    BY <1>3, <1>6 DEF StringHasRune, InHand, Rest
  <2>2. c \in Runes /\ t \in Seq(Runes)
    BY <1>1, <2>1, HeadTailProperties
  <2>3. r = <<c>> \o t
    <3> HIDE DEF r
    <3>1. Len(r) \in Nat /\ Len(r) # 0
      BY <1>1, <2>1, EmptySeq, LenProperties
    <3> QED BY <1>1, <2>1, <3>1
  <2>4. symbol' = [symbol EXCEPT ![o] = c] /\ writing' = [writing EXCEPT ![o].runes = t]
    BY <1>6, <2>1 DEF StringHasRune
  <2>5. UNCHANGED <<buf, output>>
    BY <1>6 DEF StringHasRune
  <2>6. writing'[o].runes = t /\ writing'[o] \in Strings
    BY <1>3, <2>1, <2>2, <2>4 DEF Strings
  <2>7. c # NoString /\ writing'[o] # NoString
    BY <2>2, <2>6, StringsReal
  <2>8. InHand(o)' = <<c>> /\ Rest(o)' = t
    BY <1>3, <2>4, <2>6, <2>7 DEF InHand, Rest
  <2> HIDE DEF b, done, c, t
  <2>9. <<>> \o r = r
    BY <1>1, ConcatEmptySeq
  <2>10. text'[o] = output'[o] \o (buf'[o] \o (InHand(o)' \o Rest(o)'))
    BY <1>2, <2>1, <2>3, <2>5, <2>8, <2>9 DEF b, done
  <2> QED BY <2>7, <2>10 DEF Delivers
<1>7. ASSUME Flushes(o), buf' = [buf EXCEPT ![o] = <<>>], UNCHANGED symbol,
             UNCHANGED writing \/ (writing' = [writing EXCEPT ![o] = NoString] /\ symbol[o] = NoString
                                    /\ r = <<>>)
      PROVE  Delivers(o)'
  <2>1. output'[o] = done \o b /\ buf'[o] = <<>>
    BY <1>3, <1>7 DEF Flushes
  <2>2. InHand(o)' = h
    BY <1>7 DEF InHand
  <2>3. Rest(o)' = r
    BY <1>3, <1>7 DEF Rest
  <2> DEFINE todo == h \o r
  <2> HIDE DEF b, done, h, r
  <2>4. todo \in Seq(Runes)
    BY <1>1
  <2>5. InHand(o)' \o Rest(o)' = todo
    BY <2>2, <2>3
  <2> HIDE DEF todo
  <2>61. done \in Seq(Runes)
    BY <1>1
  <2>62. b \in Seq(Runes)
    BY <1>1
  <2>63. todo \in Seq(Runes)
    BY <2>4
  <2>6. done \o (b \o todo) = (done \o b) \o todo
    BY <2>61, <2>62, <2>63, TextsAssociative
  <2>8. <<>> \o todo = todo
    BY <2>4, ConcatEmptySeq
  <2>7. text'[o] = output'[o] \o (buf'[o] \o (InHand(o)' \o Rest(o)'))
    BY <1>2, <2>1, <2>5, <2>6, <2>8 DEF todo
  <2> QED BY <2>1, <2>7 DEF Delivers
<1>8. CASE GivesUp(o)
  <2>1. UNCHANGED <<output, buf, writing, symbol>>
    BY <1>8 DEF GivesUp, PostAndClose
  <2> QED BY <1>4, <2>1
<1>9. CASE StringLate(o)
  <2>1. Flushes(o)
    BY <1>9 DEF StringLate
  <2> QED BY <1>7, <1>9, <2>1 DEF StringLate
<1>10. CASE StringEnds(o)
  <2>1. Flushes(o)
    BY <1>10 DEF StringEnds
  <2>2. r = <<>>
    BY <1>10 DEF StringEnds, Rest
  <2> QED BY <1>7, <1>10, <2>1, <2>2 DEF StringEnds
<1>11. CASE NothingLeft(o)
  BY <1>4, <1>11 DEF NothingLeft, files
<1>12. CASE RuneFails(o) \/ StringFails(o)
  BY <1>12 DEF RuneFails, StringFails, PostAndClose
<1> QED BY <1>5, <1>6, <1>8, <1>9, <1>10, <1>11, <1>12 DEF WriterTurn

\* A port that nothing is written to, from or on stays as it is.
LEMMA PortStays ==
  ASSUME NEW p \in Ports, Delivers(p),
         text'[p] = text[p], output'[p] = output[p], buf'[p] = buf[p], writing'[p] = writing[p],
         symbol'[p] = symbol[p],
         p \in posted' <=> p \in posted, active'[p] => active[p],
         writer'[p] = writer[p] \/ writer'[p] \in {"left", "down", "gone"}
  PROVE  Delivers(p)'
<1>1. InHand(p)' = InHand(p) /\ Rest(p)' = Rest(p)
  BY DEF InHand, Rest
<1>2. CASE p \in posted
  BY <1>2 DEF Delivers
<1>3. CASE p \notin posted
  <2>1. text[p] = output[p] \o (buf[p] \o (InHand(p) \o Rest(p))) /\ (writing[p] = NoString => buf[p] = <<>>)
    BY <1>3 DEF Delivers
  <2>2. text'[p] = output'[p] \o (buf'[p] \o (InHand(p)' \o Rest(p)'))
    BY <1>1, <2>1
  <2>3. writing'[p] = NoString => buf'[p] = <<>>
    BY <2>1
  <2>4. p \notin posted'
    BY <1>3
  <2> QED BY <2>2, <2>3, <2>4 DEF Delivers
<1> QED BY <1>2, <1>3

\* So do all of them when only ports are closed and processes leave.
LEMMA PortsStay ==
  ASSUME OutputTypeOK, OutputTypeOK', DeliveryInv, UNCHANGED <<text, output, buf, writing, symbol, posted>>,
         \A p \in Ports : active'[p] => active[p],
         \A p \in Ports : writer'[p] = writer[p] \/ writer'[p] \in {"left", "down", "gone"}
  PROVE  DeliveryInv'
BY PortStays DEF DeliveryInv

\* A port without a string has nothing left to write.
LEMMA AllWritten ==
  ASSUME OutputTypeOK, DeliveryInv, NEW o \in Ports, o \notin posted, writing[o] = NoString
  PROVE  text[o] = output[o] /\ buf[o] = <<>> /\ symbol[o] = NoString
<1>1. symbol[o] = NoString
  BY DEF OutputTypeOK
<1>2. InHand(o) = <<>> /\ Rest(o) = <<>> /\ buf[o] = <<>>
  BY <1>1 DEF InHand, Rest, DeliveryInv, Delivers
<1>3. text[o] = output[o] \o (<<>> \o (<<>> \o <<>>))
  BY <1>2 DEF DeliveryInv, Delivers
<1>4. <<>> \in Seq(Runes) /\ output[o] \in Seq(Runes)
  BY EmptySeq DEF DeliveryInv
<1>5. <<>> \o <<>> = <<>> /\ output[o] \o <<>> = output[o]
  BY <1>4, ConcatEmptySeq
<1> QED BY <1>1, <1>2, <1>3, <1>5

\* A port that takes a string owes its runes.
LEMMA AcceptOwes ==
  ASSUME OutputTypeOK, ThreadInv, DeliveryInv, NEW o \in Ports, main = "prim", Head(left).op = "write",
         WriteAccepted(o), UNCHANGED <<active, buf, output, posted, writer>>
  PROVE  DeliveryInv' /\ o \notin posted
<1> DEFINE s == Head(left).string
           r == s.runes
<1>1. s \in Strings /\ s # NoString /\ r \in Seq(Runes)
  BY NextWrite, StringsReal DEF Strings
<1>2. o \notin posted /\ writing[o] = NoString
  BY DEF WriteAccepted, DeliveryInv, Delivers
<1>3. text[o] = output[o] /\ buf[o] = <<>> /\ symbol[o] = NoString
  BY <1>2, AllWritten
<1>4. /\ text \in [Ports -> Seq(Runes)] /\ output \in [Ports -> Seq(Runes)]
      /\ writing \in [Ports -> Strings \cup {NoString}]
  BY DEF DeliveryInv, OutputTypeOK
<1>5. /\ text' = [text EXCEPT ![o] = @ \o r] /\ writing' = [writing EXCEPT ![o] = s]
      /\ UNCHANGED symbol
  BY DEF WriteAccepted
<1> HIDE DEF s
<1>6. text' \in [Ports -> Seq(Runes)]
  BY <1>1, <1>4, <1>5, ConcatProperties
<1>7. ASSUME NEW p \in Ports PROVE Delivers(p)'
  <2>1. CASE p # o
    <3>1. Delivers(p)
      BY DEF DeliveryInv
    <3>2. text'[p] = text[p] /\ writing'[p] = writing[p]
      BY <1>4, <1>5, <2>1
    <3> QED BY <1>5, <3>1, <3>2, PortStays
  <2>2. CASE p = o
    <3>1. text'[o] = output[o] \o r
      BY <1>3, <1>4, <1>5
    <3>2. writing'[o] = s
      BY <1>4, <1>5
    <3>3. InHand(o)' = <<>> /\ Rest(o)' = r
      BY <1>1, <1>3, <1>5, <3>2 DEF InHand, Rest
    <3>4. <<>> \o (<<>> \o r) = r
      BY <1>1, ConcatEmptySeq
    <3>5. text'[o] = output'[o] \o (buf'[o] \o (InHand(o)' \o Rest(o)'))
      BY <1>3, <3>1, <3>3, <3>4
    <3> QED BY <1>1, <1>2, <2>2, <3>2, <3>5 DEF Delivers
  <2> QED BY <2>1, <2>2
<1>8. output' \in [Ports -> Seq(Runes)]
  BY <1>4
<1> QED BY <1>2, <1>6, <1>7, <1>8 DEF DeliveryInv

\* A write process takes its turn at its own port.
LEMMA TurnElsewhere ==
  ASSUME OutputTypeOK, NEW o \in Ports, WriterTurn(o), NEW p \in Ports, p # o
  PROVE  /\ buf'[p] = buf[p] /\ writing'[p] = writing[p] /\ symbol'[p] = symbol[p]
         /\ active'[p] = active[p] /\ writer'[p] = writer[p]
BY DEF WriterTurn, GivesUp, RuneFails, RuneReady, StringLate, StringHasRune, StringEnds, StringFails,
       NothingLeft, PostAndClose, Closes, Stays, OutputTypeOK

\* A turn of a write process.
LEMMA TurnDelivers ==
  ASSUME OutputTypeOK, OutputTypeOK', DeliveryInv, NEW o \in Ports, WriterTurn(o), UNCHANGED text
  PROVE  DeliveryInv' /\ o \notin posted
<1>1. o \notin posted
  BY DEF WriterTurn, DeliveryInv, Delivers
<1>2. PartWritten(o) /\ posted' \in {posted, posted \cup {o}}
  BY TurnWrites
<1>3. /\ output' \in [Ports -> Seq(Runes)]
      /\ output' = [output EXCEPT ![o] = output'[o]]
      /\ Port!IsPrefix(output'[o], text[o])
  BY <1>1, <1>2, PartIsPut
<1>4. ASSUME NEW p \in Ports PROVE Delivers(p)'
  <2>1. CASE p # o
    <3>1. Delivers(p) /\ output \in [Ports -> Seq(Runes)]
      BY DEF DeliveryInv
    <3>2. output'[p] = output[p]
      BY <1>3, <2>1, <3>1
    <3>3. p \in posted' <=> p \in posted
      BY <1>2, <2>1
    <3> QED BY <2>1, <3>1, <3>2, <3>3, PortStays, TurnElsewhere
  <2>2. CASE p = o /\ o \notin posted'
    BY <1>1, <2>2, TurnKeeps
  <2>3. CASE p = o /\ o \in posted'
    <3>1. ~active'[o] /\ writer'[o] = "left"
      BY <1>1, <2>3, TurnCloses
    <3>2. Port!IsPrefix(output'[o], text'[o])
      BY <1>3
    <3>3. Delivers(o)'
      BY <2>3, <3>1, <3>2 DEF Delivers
    <3> QED BY <2>3, <3>3
  <2> QED BY <2>1, <2>2, <2>3
<1> QED BY <1>1, <1>3, <1>4 DEF DeliveryInv

\* At the start nothing has been accepted.
LEMMA DeliveryInitially == OutputInit => DeliveryInv
<1> SUFFICES ASSUME OutputInit PROVE DeliveryInv
  OBVIOUS
<1> DEFINE e == <<>>
<1>1. e \in Seq(Runes) /\ e \o e = e
  BY EmptySeq, ConcatEmptySeq
<1>2. text = [o \in Ports |-> e] /\ output = [o \in Ports |-> e] /\ buf = [o \in Ports |-> e] /\ posted = {}
  BY DEF OutputInit
<1>3. \A o \in Ports : InHand(o) = e /\ Rest(o) = e
  BY DEF OutputInit, InHand, Rest
<1> HIDE DEF e
<1>4. \A o \in Ports : text[o] = e /\ output[o] = e /\ buf[o] = e
  BY <1>2
<1>5. \A o \in Ports : Delivers(o)
  <2> TAKE o \in Ports
  <2>1. text[o] = output[o] \o (buf[o] \o (InHand(o) \o Rest(o)))
    BY <1>1, <1>3, <1>4
  <2>2. buf[o] = <<>>
    BY <1>4 DEF e
  <2> QED BY <1>2, <2>1, <2>2 DEF Delivers
<1>6. text \in [Ports -> Seq(Runes)] /\ output \in [Ports -> Seq(Runes)]
  BY <1>1, <1>2
<1> QED BY <1>5, <1>6 DEF DeliveryInv

\* A step of the main process accepts at most the string of one write.
LEMMA MainDelivers ==
  ASSUME OutputTypeOK, OutputTypeOK', ThreadInv, DeliveryInv, MainStep
  PROVE  /\ DeliveryInv'
         /\ UNCHANGED <<output, posted>>
         /\ \/ UNCHANGED text
            \/ \E o \in Ports : exit = "none" /\ UNCHANGED exit /\ Port!Accept(o)
<1>1. CASE ExecWrite
  <2>1. PICK o \in Ports : o = Head(left).port /\ (WriteRefused(o) \/ WriteAccepted(o) \/ WriteBlocks(o))
    BY <1>1 DEF ExecWrite
  <2>2. UNCHANGED <<active, buf, output, posted, writer>> /\ main = "prim" /\ Head(left).op = "write"
    BY <1>1 DEF ExecWrite, procs
  <2>3. CASE WriteRefused(o) \/ WriteBlocks(o)
    <3>1. UNCHANGED <<text, output, buf, writing, symbol, posted>>
      BY <2>2, <2>3 DEF WriteRefused, WriteBlocks
    <3> QED BY <2>2, <3>1, PortsStay
  <2>4. CASE WriteAccepted(o)
    <3>1. DeliveryInv' /\ o \notin posted
      BY <2>2, <2>4, AcceptOwes
    <3>2. output[o] = text[o]
      BY <2>4, <3>1, AllWritten DEF WriteAccepted
    <3>3. exit = "none" /\ UNCHANGED exit
      BY <2>2, <2>4 DEF ThreadInv, WriteAccepted, PrimReturns
    <3>4. Head(left).string.runes \in Texts
      <4>1. Head(left) \in Statements
        BY <2>2, HeadTailProperties DEF ThreadInv, ThreadTypeOK, InStatement
      <4> QED BY <2>2, <4>1 DEF Texts
    <3>5. text' = [text EXCEPT ![o] = @ \o Head(left).string.runes]
      BY <2>4 DEF WriteAccepted
    <3>6. exit \notin Terminating
      BY <3>3 DEF Terminating
    <3>7. Port!Accept(o)
      BY <2>2, <3>1, <3>2, <3>3, <3>4, <3>5, <3>6 DEF Port!Accept
    <3> QED BY <2>2, <3>1, <3>3, <3>7
  <2> QED BY <2>1, <2>3, <2>4
<1>2. CASE ~ExecWrite
  <2>1. UNCHANGED <<text, output, buf, writing, symbol, posted, writer>>
    BY <1>2 DEF MainStep, StatementDone, WriteThreadsDown, AceDownAndExit, port, files, procs
  <2>2. \A p \in Ports : active'[p] => active[p]
    <3>1. UNCHANGED active \/ active' = [o \in Ports |-> active[o] /\ writer[o] \notin {"loop", "left"}]
      BY <1>2 DEF MainStep, StatementDone, WriteThreadsDown, AceDownAndExit, port
    <3> QED BY <3>1, Zenon
  <2> QED BY <2>1, <2>2, PortsStay
<1> QED BY <1>1, <1>2

\* So do the others: only a write process in its turn writes.
LEMMA OthersDeliver ==
  ASSUME OutputTypeOK, OutputTypeOK', DeliveryInv,
         \/ \E o \in Ports : WriterStep(o) /\ ~WriterTurn(o)
         \/ \E o \in Ports : WriterAceDown(o)
         \/ WritePoolLeaves \/ WritePoolAceDown \/ AceLeaves \/ Collection \/ MemoryFills \/ Over
         \/ UNCHANGED vars
  PROVE  DeliveryInv' /\ UNCHANGED <<text, output, posted>>
<1>1. UNCHANGED <<text, output, buf, writing, symbol, posted>>
  BY DEF WriterStep, Register, Unregister, WriterAceDown, WritePoolLeaves, WritePoolAceDown, AceLeaves,
         Collection, CollectionSucceeds, CollectionCrashes, CollectionFails, MemoryFills, Over, vars, port,
         files
<1>2. \A p \in Ports : active'[p] => active[p]
  <2>1. \/ UNCHANGED active
        \/ \E o \in Ports : active' = [active EXCEPT ![o] = FALSE]
        \/ CollectionSucceeds
    BY DEF WriterStep, Register, Unregister, WriterAceDown, WritePoolLeaves, WritePoolAceDown, AceLeaves,
           Collection, CollectionCrashes, CollectionFails, MemoryFills, Over, vars, port
  <2>2. CASE CollectionSucceeds
    BY <2>2, Zenon DEF CollectionSucceeds
  <2>3. active \in [Ports -> BOOLEAN]
    BY DEF OutputTypeOK
  <2> QED BY <2>1, <2>2, <2>3
<1>3. ASSUME NEW p \in Ports, p \in posted PROVE writer[p] \in {"left", "down", "gone"}
  BY <1>3 DEF DeliveryInv, Delivers
<1>4. ASSUME NEW p \in Ports, p \in posted PROVE writer'[p] \in {"left", "down", "gone"}
  <2>1. \/ UNCHANGED writer
        \/ \E o \in Ports, there \in {"down", "gone"} : writer' = [writer EXCEPT ![o] = there]
        \/ \E o \in Ports : writer[o] = "born" /\ writer' = [writer EXCEPT ![o] = "loop"]
    BY DEF WriterStep, Register, Unregister, WriterAceDown, WritePoolLeaves, WritePoolAceDown, AceLeaves,
           Collection, CollectionSucceeds, CollectionCrashes, CollectionFails, MemoryFills, Over, vars, procs
  <2>2. writer[p] \in {"left", "down", "gone"} /\ writer \in [Ports -> {"born", "loop", "left", "down", "gone"}]
    BY <1>3, <1>4 DEF OutputTypeOK
  <2> QED BY <2>1, <2>2
<1>5. ASSUME NEW p \in Ports PROVE Delivers(p)'
  <2>1. Delivers(p)
    BY DEF DeliveryInv
  <2>2. CASE p \in posted
    BY <1>1, <1>2, <1>4, <2>1, <2>2, PortStays
  <2>3. CASE p \notin posted
    BY <1>1, <2>1, <2>3 DEF Delivers, InHand, Rest
  <2> QED BY <2>2, <2>3
<1> QED BY <1>1, <1>5 DEF DeliveryInv

\* Nothing accepted is lost but on broken ports.
LEMMA DeliveryStep ==
  ASSUME OutputInv, DeliveryInv, [OutputNext]_vars
  PROVE  DeliveryInv'
<1>1. OutputTypeOK /\ ThreadInv /\ OutputTypeOK'
  BY InvStep DEF OutputInv
<1>2. ASSUME NEW o \in Ports, WriterStep(o), WriterTurn(o) PROVE DeliveryInv'
  BY <1>1, <1>2, TurnDelivers DEF WriterStep
<1> QED BY <1>1, <1>2, MainDelivers, OthersDeliver DEF OutputNext

\* The main process exits when nothing is left to write.
LEMMA ExitWritten ==
  ASSUME OutputInv, DeliveryInv, MainExits, NEW o \in Ports, o \notin posted
  PROVE  output[o] = text[o]
<1>1. links = {} /\ LinksExact
  BY DEF OutputInv, LetGo, Leaving, MainExits
<1>2. writing[o] = NoString
  BY <1>1 DEF LinksExact
<1> QED BY <1>2, AllWritten DEF OutputInv

\* Every step is one of the abstract ports, or none.
LEMMA PortStep ==
  ASSUME OutputInv, DeliveryInv, [OutputNext]_vars
  PROVE  [Port!PortNext]_(Port!portVars)
<1> USE DEF Port!portVars
<1>1. OutputTypeOK /\ ThreadInv /\ OutputTypeOK'
  BY InvStep DEF OutputInv
<1>2. CASE UNCHANGED <<text, output, posted, exit>>
  BY <1>2
<1>3. CASE MainStep /\ ~AceDownAndExit
  <2>1. UNCHANGED exit
    BY <1>3 DEF MainStep, ExecOther, Evaluated, TakeTurn, Unevaluated, EvaluatesToError, UnpackBlock, EndTurn,
       EvaluatesToPrim, PrimReturns, PrimBlocked, PrimRefused, LookAtMemory, StillBusy, ThreadEnds,
       ExecWrite, WriteRefused, WriteAccepted, WriteBlocks, StatementDone, PrimSucceeded,
       WriteThreadsDown, CallbacksDone
  <2> QED BY <1>1, <1>2, <1>3, <2>1, MainDelivers DEF Port!PortNext
<1>4. CASE MainStep /\ AceDownAndExit
  <2>1. UNCHANGED <<text, output, posted>>
    BY <1>4 DEF MainStep, ExecOther, ExecWrite, StatementDone, WriteThreadsDown, AceDownAndExit, files, port,
         MainExits, CallbacksDone, PrimSucceeded, Evaluated, TakeTurn, Unevaluated, EvaluatesToError,
         UnpackBlock, EvaluatesToPrim, PrimReturns, PrimBlocked, PrimRefused, LookAtMemory, StillBusy,
         ThreadEnds
  <2>2. exit = "none"
    BY <1>1, <1>4 DEF AceDownAndExit, MainExits, ThreadInv
  <2>3. CASE exit' \in Terminating
    <3>1. \A o \in Ports \ posted : output[o] = text[o]
      BY <1>4, ExitWritten DEF AceDownAndExit
    <3> QED BY <2>1, <2>2, <2>3, <3>1 DEF Port!PortNext, Port!Exit, Terminating
  <2>4. CASE exit' \notin Terminating
    BY <2>1, <2>2, <2>4 DEF Terminating
  <2> QED BY <2>3, <2>4
<1>5. ASSUME NEW o \in Ports, WriterStep(o), WriterTurn(o) PROVE Port!Put(o)
  <2>1. o \notin posted /\ UNCHANGED <<text, exit>>
    BY <1>1, <1>5, TurnDelivers, WriterKeepsMain DEF WriterStep
  <2>2. PartWritten(o) /\ posted' \in {posted, posted \cup {o}}
    BY <1>1, <1>5, TurnWrites
  <2>3. /\ Port!IsPrefix(output[o], output'[o]) /\ Port!IsPrefix(output'[o], text[o])
        /\ output' = [output EXCEPT ![o] = output'[o]]
    BY <1>1, <2>1, <2>2, PartIsPut
  <2> QED BY <2>1, <2>2, <2>3 DEF Port!Put
<1>6. ASSUME NEW o \in Ports, WriterStep(o) \/ WriterAceDown(o), ~WriterTurn(o)
      PROVE  UNCHANGED <<text, output, posted, exit>>
  <2>1. UNCHANGED exit
    BY <1>6, WriterKeepsMain
  <2> QED BY <1>1, <1>6, <2>1, OthersDeliver
<1>7. CASE WritePoolLeaves \/ WritePoolAceDown \/ AceLeaves \/ CollectionSucceeds \/ CollectionFails
             \/ MemoryFills \/ Over \/ UNCHANGED vars
  BY <1>2, <1>7 DEF WritePoolLeaves, WritePoolAceDown, AceLeaves, CollectionSucceeds, CollectionFails,
                    MemoryFills, Over, vars, thread, files
<1>8. CASE CollectionCrashes
  <2>1. UNCHANGED <<text, output, posted>> /\ exit' = "crash" /\ exit = "none"
    BY <1>1, <1>8 DEF CollectionCrashes, EverybodyWaits, ThreadInv, files
  <2> QED BY <2>1 DEF Terminating
<1>9. ASSUME NEW o \in Ports, WriterAceDown(o) PROVE UNCHANGED <<text, output, posted, exit>>
  BY <1>9 DEF WriterAceDown, thread, files
<1> QED BY <1>2, <1>3, <1>4, <1>5, <1>6, <1>7, <1>8, <1>9 DEF OutputNext, Collection, Port!PortNext

\* What a port has accepted and not written is in its buffer, in hand or in its string,
\* and the port of a failed write is closed.
THEOREM NothingLost == OutputSpec => []DeliveryInv
<1>1. OutputInit => DeliveryInv
  BY DeliveryInitially
<1>2. OutputInv /\ DeliveryInv /\ [OutputNext]_vars => DeliveryInv'
  BY DeliveryStep
<1> QED BY <1>1, <1>2, OutputInvariant, PTL DEF OutputSpec

\* The output of a program is that of the abstract ports.
THEOREM WrittenInOrder == OutputSpec => WritesInOrder
<1>1. OutputInit => Port!PortInit
  BY DEF OutputInit, ThreadInit, Port!PortInit, Terminating
<1>2. OutputInv /\ DeliveryInv /\ [OutputNext]_vars => [Port!PortNext]_(Port!portVars)
  BY PortStep
<1> QED BY <1>1, <1>2, OutputInvariant, NothingLost, PTL DEF OutputSpec, WritesInOrder, Port!PortSpec
=============================================================================

------------------------------ MODULE MCIbioInput ------------------------------
(* IbioInput on programs that read a few symbols from one or two short files. *)
EXTENDS IbioInput, SequencesExt

CONSTANTS a, b, stdin, file, w1, w2

MCIports == {stdin, file}
MCPrimitives == {"unit", "read", "open"}

\* A file that fills a segment and more, a terminal, and one that is not text
MCFiles ==
  {[p \in MCIports |-> IF p = stdin THEN f ELSE <<b>>] :
     f \in {<<a, b, a, b>>, <<a, Eof>>, <<b, BadSymbol>>}}

Bind == "symbol.bind"
Plus == "unit.plus"
Read(p, w, steps, ends, n) ==
  [op |-> "read", port |-> p, walker |-> w, steps |-> steps, ends |-> ends, walk |-> n]
OpenFile == [op |-> "open", port |-> file]
Use(ws) == [op |-> "unit", needs |-> ws]
Block(statements) == [op |-> "block", body |-> statements]

\* One read of two symbols and more, whose walker the program needs; two of which the second
\* starts where the first has accepted, and then fails; one that goes on while the program
\* opens a second file and reads it, with an acceptor in a state the reader has no case for.
MCBodies ==
  {<<Read(stdin, w1, <<Bind, Plus, Bind, Bind, Bind>>, "fail", 3), Use({w1})>>,
   <<Read(stdin, w1, <<Bind, Plus, Bind>>, "fail", 3),
     Read(stdin, w2, <<Bind, Bind>>, "error", 1), Use({w1})>>,
   <<Read(stdin, w1, <<>>, "fail", 1), OpenFile, Read(file, w2, <<>>, "unknown", 1)>>}

MCPrograms == {Block(body) : body \in MCBodies}
MCStatements == MCPrograms \cup UNION {Range(body) : body \in MCBodies}

\* The walkers and the iports that come with a statement
MCMakes ==
  LET makes(s) == CASE s.op = "read" -> {s.walker} [] s.op = "open" -> {s.port} [] OTHER -> {} IN
    [s \in MCStatements |->
       IF s.op = "block" THEN UNION {makes(t) : t \in Range(s.body)} ELSE makes(s)]
=============================================================================

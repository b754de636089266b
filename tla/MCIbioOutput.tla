----------------------------- MODULE MCIbioOutput -----------------------------
(* IbioOutput on programs that write a few short strings to two ports. *)
EXTENDS IbioOutput

CONSTANTS a, b, out, err

MCPorts == {out, err}

\* Strings that are read to the end, that fail after a rune, and with a bad rune.
MCStrings ==
  [runes : {<<>>, <<a>>, <<a, b>>}, ends : {"nil"}]
    \cup [runes : {<<>>, <<a>>}, ends : {"error"}]
    \cup [runes : {<<a, BadRune>>}, ends : {"nil"}]

MCPrimitives == {"unit", "write"}

Write(o, s) == [op |-> "write", port |-> o, string |-> s]
Unit == [op |-> "unit"]
Error == [op |-> "error"]
Block(statements) == [op |-> "block", body |-> statements]

Shorter == {s \in MCStrings : Len(s.runes) = 1}

\* Two statements, three in a block within a block, and more than fit.
MCPrograms ==
  {Block(<<Write(out, s), t>>) :
     s \in MCStrings,
     t \in {Write(o, r) : o \in MCPorts, r \in Shorter} \cup {Unit, Error}}
    \cup {Block(<<Write(out, s), Block(<<Write(out, s), Write(err, s)>>)>>) : s \in Shorter}
    \cup {Block(<<Unit, Unit, Unit, Unit>>)}

MCStatements ==
  MCPrograms
    \cup {Write(o, s) : o \in MCPorts, s \in MCStrings} \cup {Unit, Error}
    \cup {Block(<<Write(out, s), Write(err, s)>>) : s \in Shorter}
=============================================================================

---------------------------- MODULE MCSmallParts ----------------------------
(* Two clients and three names for a table of two; a line of seven; every  *)
(* command of the parser and some that are none.                           *)
EXTENDS SmallParts

CONSTANTS c1, c2, trains, sensors, longname

TwoClients == {c1, c2}
SomeNames == {NAME, trains, sensors, longname}
OneLong == {longname}

SomeKeys == {"e", "t", "q", "r", "v", "1", " ", ESC, BACKSPACE, CR}

SomeHeads ==
  {<<a>> : a \in {"q", "s", "x"}} \cup
  {<<a, b>> : a \in {"b", "e", "h", "r", "s", "t"},
              b \in {"e", "m", "p", "r", "t", "v", "w", "z", " "}}
SomeRest == {" ", "1", "-", "x"}
=============================================================================

----------------------------- MODULE SmallParts -----------------------------
(***************************************************************************)
(* The parts that stand alone, side by side: a behaviour exercises one of  *)
(* them and leaves the others in their initial states.  The parts without  *)
(* a state are functions: a behaviour gives them one input after another.  *)
(***************************************************************************)
EXTENDS PriorityQueueUse, NameServer, CommandLine, ChoosePriority, Formatting

CONSTANTS
  HEADS,       \* how the texts for the parser begin
  REST,        \* the characters that go on
  MAX_REST     \* how many of them

(* The terminator is in no text.                                           *)
ASSUME TextsAssumption ==
  /\ MAX_REST \in Nat /\ NUL \notin REST
  /\ \A head \in HEADS : head \in Seq(Range(head)) /\ NUL \notin Range(head)

VARIABLES
  part,        \* the part that this behaviour exercises
  input        \* the input of a function, as a sequence of one, or <<>>

pvars == <<part, input, qvars, vars, lvars>>

PInit ==
  /\ part \in {"queue", "names", "line", "parser", "bitmap", "numbers"}
  /\ input = <<>>
  /\ UInit /\ Init /\ LInit

QueueStep == part = "queue" /\ UNext /\ UNCHANGED <<part, input, vars, lvars>>

NamesStep == part = "names" /\ Next /\ UNCHANGED <<part, input, qvars, lvars>>

LineStep == part = "line" /\ LNext /\ UNCHANGED <<part, input, qvars, vars>>

(* The launcher has exited, or has shut the system down.                   *)
LineEnded == launcher # "reads" /\ UNCHANGED pvars

Texts ==
  {<<CR>>} \cup
  {head \o rest \o <<CR>> :
     head \in HEADS, rest \in UNION {[1 .. n -> REST] : n \in 0 .. MAX_REST}}

Give ==
  /\ input = <<>>
  /\ \/ part = "parser" /\ \E text \in Texts : input' = <<text>>
     \/ part = "bitmap" /\ \E v \in WordsOfBits : input' = <<v>>
     \/ part = "numbers" /\ \E word \in UINT : input' = <<word>>
  /\ UNCHANGED <<part, qvars, vars, lvars>>

Take ==
  /\ input # <<>>
  /\ input' = <<>>
  /\ UNCHANGED <<part, qvars, vars, lvars>>

PNext == QueueStep \/ NamesStep \/ LineStep \/ LineEnded \/ Give \/ Take

PSpec == PInit /\ [][PNext]_pvars

-----------------------------------------------------------------------------
(* Properties.                                                             *)

Given(p) == part = p /\ input # <<>>

(* The parser takes every text for what its words mean, and reads nothing  *)
(* past its terminator.                                                    *)
ParserMeetsMeaning ==
  Given("parser") => parse_command(input[1]) = Meaning(input[1])

(* The table and the search of choose_priority find the highest bit of     *)
(* every bitmap, which is what Kernel takes them for.                      *)
ChoosesHighest == Given("bitmap") => IsHighestBit(input[1])

(* Every number that is written in any base reads back as itself, the      *)
(* smallest integer and 0 included, and fills its column.                  *)
NumbersReadBack == Given("numbers") => ReadsBack(input[1])
=============================================================================

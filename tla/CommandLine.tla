---------------------------- MODULE CommandLine ----------------------------
(***************************************************************************)
(* The task launcher (task_launcher.c): it reads a line key by key, shows  *)
(* it in its row of the screen, and acts on it.  A cell of the row is a    *)
(* column after the prompt; the escapes for moving the cursor and erasing  *)
(* are modelled by what they do to the row.                                *)
(***************************************************************************)
EXTENDS CommandParser

CONSTANTS
  KEYBOARD,    \* the keys that are struck
  LINE         \* sizeof(line), which is also how many cells the row has

ASSUME LineAssumption == LINE \in Nat /\ LINE > 3

VARIABLES
  line,        \* line[0 .. insert-1]
  row,         \* the cells of the row on the screen
  shown,       \* the row when CR was struck, until the next key
  did,         \* what the line was taken for then
  launcher     \* "reads", "gone" after its Exit, or "shutdown"

lvars == <<line, row, shown, did, launcher>>

BACKSPACE == "bs"
ESC == "esc"
BLOCK_CURSOR == "block"
BLANK == "blank"

(* Every key but NUL is struck, and none is what the cursor looks like.    *)
ASSUME KeyboardAssumption == KEYBOARD \cap {NUL, BLOCK_CURSOR} = {}

(* What a text, then the cursor, then blanks look like.                    *)
Row(text) ==
  [i \in 1 .. LINE |-> CASE i <= Len(text) -> text[i]
                         [] i = Len(text) + 1 -> BLOCK_CURSOR
                         [] OTHER -> BLANK]

(* The cursor after the prompt, and the rest of the row erased.            *)
Prompt == Row(<<>>)

LInit ==
  /\ line = <<>>
  /\ row = Prompt
  /\ shown = <<>>
  /\ did = ERROR
  /\ launcher = "reads"

(* With nothing to take back the key is ignored.                           *)
Backspace ==
  /\ line # <<>>
  /\ line' = Front(line)
  /\ row' = [i \in 1 .. LINE |-> CASE i < Len(line) -> row[i]
                                   [] i = Len(line) -> BLOCK_CURSOR
                                   [] OTHER -> BLANK]
  /\ shown' = <<>> /\ did' = ERROR
  /\ UNCHANGED launcher

(* Mutant: a full line is not noticed.                                     *)
NeverFull == line

(* A line that is full gives up its last character for the next.           *)
MakeRoom == IF Len(line) = LINE - 2 THEN Front(line) ELSE line

(***************************************************************************)
(* A character goes to the line and, with the cursor after it, to the row. *)
(* An escape is taken as ^ so that it moves nothing.                       *)
(***************************************************************************)
Character(key) ==
  LET c      == IF key = ESC THEN "^" ELSE key
      insert == Len(MakeRoom)
  IN  /\ line' = Append(MakeRoom, c)
      /\ row' = [row EXCEPT ![insert + 1] = c, ![insert + 2] = BLOCK_CURSOR]
      /\ shown' = <<>> /\ did' = ERROR
      /\ UNCHANGED launcher

(* What becomes of the launcher.  The other commands only start tasks or   *)
(* print: their calls for the trains are commented out.                    *)
action(command) ==
  CASE command.cmd = "QUIT" -> "shutdown"
    [] command.cmd = "CMD_ECHO" -> "gone"
    [] OTHER -> "reads"

(* CR ends the line, and is not to be seen in the row.                     *)
Return ==
  /\ did' = parse_command(Append(MakeRoom, CR))
  /\ launcher' = action(did')
  /\ shown' = row
  /\ line' = <<>>
  /\ row' = IF launcher' = "reads" THEN Prompt ELSE row

Strike(key) ==
  /\ launcher = "reads"
  /\ CASE key = BACKSPACE -> Backspace
       [] key = CR -> Return
       [] OTHER -> Character(key)

LNext == \E key \in KEYBOARD : Strike(key)

LSpec == LInit /\ [][LNext]_lvars

-----------------------------------------------------------------------------
(* Properties.                                                             *)

(* The line fits in its array with the terminator, and the row shows it    *)
(* with the cursor after it.                                               *)
RowShowsLine ==
  /\ Len(line) <= LINE - 2
  /\ launcher = "reads" => row = Row(line)

(***************************************************************************)
(* What is shown is what is done, whatever was typed and taken back: the   *)
(* row shows the line, and the command that a CR gives is the meaning of   *)
(* what the row showed, less the last character of a line that was full.   *)
(***************************************************************************)
ShownIsDone ==
  LET end  == CHOOSE i \in DOMAIN shown : shown[i] = BLOCK_CURSOR
      kept == SubSeq(shown, 1, IF end = LINE - 1 THEN LINE - 3 ELSE end - 1)
  IN  /\ RowShowsLine
      /\ shown # <<>> => did = Meaning(Append(kept, CR))
=============================================================================

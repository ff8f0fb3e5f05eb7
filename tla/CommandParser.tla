--------------------------- MODULE CommandParser ---------------------------
(***************************************************************************)
(* The parser of the task launcher (task_launcher/parse.c), and what a     *)
(* command line means, stated by its words.  A text is a sequence of       *)
(* characters; the terminator that follows it in C is at index Len(text),  *)
(* where the first character has index 0.  There is nothing at an index    *)
(* past it, and TLC stops where a definition reads there.                  *)
(***************************************************************************)
EXTENDS Powers, SequencesExt

CR == "\r"
NUL == "nul"

At(str, i) == IF i = Len(str) THEN NUL ELSE str[i + 1]

Digits == <<"0", "1", "2", "3", "4", "5", "6", "7", "8", "9">>

(* Of the characters of isspace, those that come from the keyboard.        *)
Spaces == {" ", CR}
isspace(c) == c \in Spaces
isdigit(c) == c \in Range(Digits)
DigitOf(c) == CHOOSE d \in 0 .. 9 : Digits[d + 1] = c

-----------------------------------------------------------------------------
(* The parser.  What it returns carries the index it has come to.          *)

(* The first index from i on whose character is none of some.              *)
Skip(str, i, chars) ==
  CHOOSE j \in i .. Len(str) :
    At(str, j) \notin chars /\ \A k \in i .. j - 1 : At(str, k) \in chars

(* The loop of consume_integer: its result after k digits.                 *)
Number(digits) ==
  LET result[k \in 0 .. Len(digits)] ==
        IF k = 0 THEN 0 ELSE 10 * result[k - 1] + DigitOf(digits[k])
  IN  result[Len(digits)]

consume_integer(str, index) ==
  LET from == IF At(str, index) \in {"-", "+"} THEN index + 1 ELSE index
      to   == Skip(str, from, Range(Digits))
      n    == Number(SubSeq(str, from + 1, to))
  IN  [arg |-> IF At(str, index) = "-" THEN -n ELSE n, index |-> to]

(* Mutant: a space with nothing after it will do.                          *)
NoSpaceFails(str, index) == ~isspace(At(str, index))

(* No space, or nothing after it.                                          *)
consume_whitespace_fails(str, index) ==
  \/ ~isspace(At(str, index))
  \/ At(str, Skip(str, index, Spaces)) = NUL

(* An integer ("i") or a character ("c") after some space.                 *)
parse_argument(cmd, type, index) ==
  LET from == Skip(cmd, index, Spaces)
      int  == consume_integer(cmd, from)
  IN  IF consume_whitespace_fails(cmd, index)
      THEN [ok |-> FALSE, index |-> from, arg |-> 0]
      ELSE IF type = "i"
           THEN [ok |-> TRUE, index |-> int.index, arg |-> int.arg]
           ELSE [ok |-> TRUE, index |-> from + 1, arg |-> At(cmd, from)]

ERROR == [cmd |-> "ERROR", args |-> <<>>]
Command(name, args) == [cmd |-> name, args |-> args]

(* A command of two letters that takes nothing, to be followed by space.   *)
Plain(cmd, name) == IF isspace(At(cmd, 2)) THEN Command(name, <<>>) ELSE ERROR

One(cmd, name) ==
  LET a == parse_argument(cmd, "i", 2)
  IN  IF a.ok /\ isspace(At(cmd, a.index)) THEN Command(name, <<a.arg>>)
      ELSE ERROR

Two(cmd, type, name) ==
  LET a == parse_argument(cmd, "i", 2)
      b == parse_argument(cmd, type, a.index)
  IN  IF a.ok /\ b.ok /\ isspace(At(cmd, b.index))
      THEN Command(name, <<a.arg, b.arg>>)
      ELSE ERROR

parse_s(cmd) ==
  CASE At(cmd, 1) = "t" -> Plain(cmd, "CMD_STRESS")
    [] At(cmd, 1) = "w" -> Two(cmd, "c", "TRACK_TURNOUT")
    [] At(cmd, 1) = "p" -> Command("SEPPUKU", <<>>)
    [] At(cmd, 1) = "z" -> Command("SIZES", <<>>)
    [] OTHER -> ERROR

parse_t(cmd) == IF At(cmd, 1) = "r" THEN Two(cmd, "i", "LOC_SPEED") ELSE ERROR

parse_q(cmd) == IF isspace(At(cmd, 1)) THEN Command("QUIT", <<>>) ELSE ERROR

parse_r(cmd) ==
  CASE At(cmd, 1) = "v" -> One(cmd, "LOC_REVERSE")
    [] At(cmd, 1) = "e" -> Plain(cmd, "TRACK_RESET")
    [] OTHER -> ERROR

parse_b(cmd) == IF At(cmd, 1) = "m" THEN Plain(cmd, "CMD_BENCHMARK") ELSE ERROR

(* Nothing is asked of what follows the number.                            *)
parse_h(cmd) ==
  LET a == parse_argument(cmd, "i", 2)
  IN  IF At(cmd, 1) = "r" /\ a.ok THEN Command("LOC_HORN", <<a.arg>>)
      ELSE ERROR

parse_e(cmd) == IF At(cmd, 1) = "t" THEN Plain(cmd, "CMD_ECHO") ELSE ERROR

parse_command(cmd) ==
  CASE At(cmd, 0) = CR  -> Command("NONE", <<>>)
    [] At(cmd, 0) = "b" -> parse_b(cmd)
    [] At(cmd, 0) = "e" -> parse_e(cmd)
    [] At(cmd, 0) = "h" -> parse_h(cmd)
    [] At(cmd, 0) = "q" -> parse_q(cmd)
    [] At(cmd, 0) = "s" -> parse_s(cmd)
    [] At(cmd, 0) = "r" -> parse_r(cmd)
    [] At(cmd, 0) = "t" -> parse_t(cmd)
    [] OTHER -> ERROR

-----------------------------------------------------------------------------
(* What a line means.                                                      *)

(* How many of the numbers in S go up to i.                                *)
Rank(S, i) == Cardinality({j \in S : j <= i})

(* The words of a text: its longest runs of characters that are no space.  *)
Starts(text) == {i \in 1 .. Len(text) :
                   ~isspace(text[i]) /\ (i = 1 \/ isspace(text[i - 1]))}
Ends(text) == {i \in 1 .. Len(text) :
                 ~isspace(text[i]) /\ (i = Len(text) \/ isspace(text[i + 1]))}

Words(text) ==
  LET Nth(S, k) == CHOOSE i \in S : Rank(S, i) = k
  IN  [k \in 1 .. Cardinality(Starts(text)) |->
         SubSeq(text, Nth(Starts(text), k), Nth(Ends(text), k))]

Unsigned(w) == IF w # <<>> /\ w[1] \in {"-", "+"} THEN Tail(w) ELSE w

IsNumber(w) == \A i \in DOMAIN Unsigned(w) : isdigit(Unsigned(w)[i])

(* Its value, which goes as far as the digits do: each digit counts for    *)
(* itself times the power of ten of its place.                             *)
Value(w) ==
  LET u == Unsigned(w)
      n == Max({k \in 0 .. Len(u) : \A i \in 1 .. k : isdigit(u[i])})
      v[i \in 0 .. n] ==
        IF i = 0 THEN 0 ELSE v[i - 1] + DigitOf(u[i]) * Power(10, n - i)
  IN  IF w[1] = "-" THEN -v[n] ELSE v[n]

(* The text begins with the word, without space before it.                 *)
Named(text, name) ==
  ~isspace(text[1]) /\ Words(text) # <<>> /\ Words(text)[1] = name

(* A line is its words, the first without space before it.  A number may   *)
(* be a sign without digits; sp and sz may be followed by anything, and so *)
(* may the number of hr; words after the last that is asked for are left.  *)
Meaning(text) ==
  LET w == Words(text)
      IsNum(k) == Len(w) >= k /\ IsNumber(w[k])
  IN  CASE text[1] = CR -> Command("NONE", <<>>)
        [] Named(text, <<"q">>) -> Command("QUIT", <<>>)
        [] Named(text, <<"b", "m">>) -> Command("CMD_BENCHMARK", <<>>)
        [] Named(text, <<"e", "t">>) -> Command("CMD_ECHO", <<>>)
        [] Named(text, <<"s", "t">>) -> Command("CMD_STRESS", <<>>)
        [] Named(text, <<"r", "e">>) -> Command("TRACK_RESET", <<>>)
        [] IsPrefix(<<"s", "p">>, text) -> Command("SEPPUKU", <<>>)
        [] IsPrefix(<<"s", "z">>, text) -> Command("SIZES", <<>>)
        [] Named(text, <<"r", "v">>) /\ IsNum(2) ->
             Command("LOC_REVERSE", <<Value(w[2])>>)
        [] Named(text, <<"h", "r">>) /\ Len(w) >= 2 ->
             Command("LOC_HORN", <<Value(w[2])>>)
        [] Named(text, <<"t", "r">>) /\ IsNum(2) /\ IsNum(3) ->
             Command("LOC_SPEED", <<Value(w[2]), Value(w[3])>>)
        [] Named(text, <<"s", "w">>) /\ IsNum(2) /\ Len(w) >= 3
             /\ Len(w[3]) = 1 ->
             Command("TRACK_TURNOUT", <<Value(w[2]), w[3][1]>>)
        [] OTHER -> ERROR
=============================================================================

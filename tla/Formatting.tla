----------------------------- MODULE Formatting -----------------------------
(***************************************************************************)
(* How numbers are written (stdio.c) and padded to a column (ui.c, std.c). *)
(* A text is a sequence of characters; a word is its unsigned value.       *)
(***************************************************************************)
EXTENDS Powers, SequencesExt

CONSTANTS
  NIBBLES,     \* in a word: 8 where a word has 32 bits
  DECIMALS     \* the digits of the largest word: 10 there

ASSUME DigitsAssumption ==
  /\ NIBBLES \in Nat \ {0} /\ DECIMALS \in Nat \ {0}
  /\ Power(10, DECIMALS - 1) < Power(16, NIBBLES)
  /\ Power(16, NIBBLES) <= Power(10, DECIMALS)

(* How many words there are, and what they are.                            *)
WORDS == Power(16, NIBBLES)
UINT == 0 .. WORDS - 1

(* A word as a signed number, and back.                                    *)
Signed(word) == IF 2 * word >= WORDS THEN word - WORDS ELSE word
Unsign(int) == int % WORDS

Numerals == <<"0", "1", "2", "3", "4", "5", "6", "7",
              "8", "9", "A", "B", "C", "D", "E", "F">>

(* The stack of digits from its top: a given number of them.               *)
Popped(word, base, digits) ==
  [k \in 1 .. digits |->
     Numerals[((word \div Power(base, digits - k)) % base) + 1]]

(* Mutant: zeros are skipped wherever they are.                            *)
SkipZeros(text) == SelectSeq(text, LAMBDA c : c # "0")

(* Digits count from the first that is not 0.                              *)
Started(text) ==
  LET first == CHOOSE i \in DOMAIN text :
                 text[i] # "0" /\ \A j \in 1 .. i - 1 : text[j] = "0"
  IN  SubSeq(text, first, Len(text))

sprintf_uint(word) ==
  IF word = 0 THEN <<"0">> ELSE Started(Popped(word, 10, DECIMALS))

sprintf_int(word) ==
  IF Signed(word) < 0
  THEN <<"-">> \o sprintf_uint(Unsign(-Signed(word)))
  ELSE sprintf_uint(word)

sprintf_hex(word) ==
  <<"0", "x">> \o
  IF word = 0 THEN <<"0">> ELSE Started(Popped(word, 16, NIBBLES))

sprintf_ptr(word) == <<"0", "x">> \o Popped(word, 16, NIBBLES)

(* The digits of a word, but none of 0.                                    *)
ulog10(word) ==
  CHOOSE n \in 0 .. DECIMALS :
    word < Power(10, n) /\ (n = 0 \/ word >= Power(10, n - 1))

(* How many spaces follow an input of a width; a width of 0 counts as 1.   *)
ui_pad(input_width, total_width) ==
  LET count == total_width - (IF input_width = 0 THEN 1 ELSE input_width)
  IN  IF count > 0 THEN count ELSE 0

-----------------------------------------------------------------------------
(* The number that a text of digits denotes, the shortest such text.       *)
DigitValue(c) == CHOOSE d \in 0 .. 15 : Numerals[d + 1] = c

Denotes(text, base) ==
  LET n[k \in 0 .. Len(text)] ==
        IF k = 0 THEN 0 ELSE base * n[k - 1] + DigitValue(text[k])
  IN  n[Len(text)]

Shortest(text) == text # <<>> /\ (text[1] = "0" => Len(text) = 1)

(* What is written reads back as the word, with no digit too many, and     *)
(* padded as the screens do it fills a column.                             *)
ReadsBack(word) ==
  LET u == sprintf_uint(word)
      i == sprintf_int(word)
      h == Tail(Tail(sprintf_hex(word)))
      p == Tail(Tail(sprintf_ptr(word)))
  IN  /\ Denotes(u, 10) = word /\ Shortest(u)
      /\ Signed(word) = IF i[1] = "-" THEN -Denotes(Tail(i), 10)
                        ELSE Denotes(i, 10)
      /\ Denotes(h, 16) = word /\ Shortest(h)
      /\ Denotes(p, 16) = word /\ Len(p) = NIBBLES
      /\ Len(u) + ui_pad(ulog10(word), DECIMALS) = DECIMALS
=============================================================================

--------------------------- MODULE ChoosePriority ---------------------------
(***************************************************************************)
(* How the scheduler finds the highest bit of its bitmap: a table of the   *)
(* logarithms of a byte (kernel_init), and the search for the highest byte *)
(* that is not 0 (clz.h).  Kernel takes choose_priority for its result.    *)
(***************************************************************************)
EXTENDS Powers

CONSTANT BYTE      \* the bits of a byte; a word has four bytes

ASSUME ByteAssumption == BYTE \in Nat \ {0, 1}

Bytes == 0 .. Power(2, BYTE) - 1
WordsOfBits == 0 .. Power(2, 4 * BYTE) - 1

(* Priority 32, which scheduler_get_next asserts not to get.               *)
NO_TASKS == 4 * BYTE

(* Mutant: the loop that fills the table starts at 1.                      *)
FromOne ==
  LET lg[i \in Bytes] == IF i = 0 THEN 0 ELSE 1 + lg[i \div 2]
  IN  [lg EXCEPT ![0] = NO_TASKS]

table ==
  LET lg[i \in Bytes] == IF i <= 1 THEN 0 ELSE 1 + lg[i \div 2]
  IN  [lg EXCEPT ![0] = NO_TASKS]

Shift(v, bits) == v \div Power(2, bits)

choose_priority(v) ==
  LET tt == Shift(v, 2 * BYTE)
      t  == IF tt # 0 THEN Shift(tt, BYTE) ELSE Shift(v, BYTE)
  IN  CASE tt # 0 /\ t # 0 -> 3 * BYTE + table[t]
        [] tt # 0 /\ t = 0 -> 2 * BYTE + table[tt]
        [] tt = 0 /\ t # 0 -> BYTE + table[t]
        [] tt = 0 /\ t = 0 -> table[v]

(* The answer for a word is its highest bit, or NO_TASKS.                  *)
IsHighestBit(v) ==
  LET p == choose_priority(v)
  IN  IF v = 0 THEN p = NO_TASKS ELSE Power(2, p) <= v /\ v < Power(2, p + 1)
=============================================================================

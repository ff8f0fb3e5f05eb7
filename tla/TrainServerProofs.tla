------------------------- MODULE TrainServerProofs -------------------------
(***************************************************************************)
(* The train server, its carrier and its notifier, for any tasks, any      *)
(* lengths of commands and answers and any size of the buffers.            *)
(*                                                                         *)
(* First who waits for whom (ControlInv), from which four properties       *)
(* follow; then the bytes: their positions on the way to the train         *)
(* (CommandInv) and from it (AnswerInv).  A byte's number is its position  *)
(* modulo BYTES.  What the recursive functions Produced and Consumed       *)
(* return is shown by going up the interval they recurse over.             *)
(***************************************************************************)
EXTENDS TrainServer, SequenceTheorems, FiniteSetTheorems,
        WellFoundedInduction, NaturalsInduction, TLAPS

-----------------------------------------------------------------------------
(* Arithmetic modulo a number.                                             *)

(* Quotient and remainder.                                                 *)
LEMMA DivMod ==
  ASSUME NEW a \in Int, NEW m \in Nat \ {0}
  PROVE  /\ a = m * (a \div m) + (a % m)
         /\ a % m \in 0 .. m - 1
         /\ a \div m \in Int
BY Z3

(* Zero is the only multiple of m below m.                                 *)
LEMMA SmallMultiple ==
  ASSUME NEW k \in Int, NEW m \in Nat \ {0}, m * k < m, -m < m * k
  PROVE  k = 0
<1>1. CASE k >= 1
  <2>1. m * k >= m
    BY <1>1, Z3
  <2> QED BY <2>1
<1>2. CASE k <= -1
  <2>1. m * k <= -m
    BY <1>2, Z3
  <2> QED BY <2>1
<1> QED BY <1>1, <1>2

(* The remainder is unique.                                                *)
LEMMA ModIs ==
  ASSUME NEW a \in Int, NEW m \in Nat \ {0}, NEW q \in Int,
         NEW r \in 0 .. m - 1, a = m * q + r
  PROVE  a % m = r
<1> DEFINE d == a \div m
           k == q - d
<1>1. a = m * d + (a % m) /\ a % m \in 0 .. m - 1 /\ d \in Int
  BY DivMod
<1>2. m * k = (a % m) - r
  BY <1>1, Z3
<1>3. k \in Int /\ m * k < m /\ -m < m * k
  BY <1>1, <1>2
<1>4. m * k = 0
  BY <1>3, SmallMultiple
<1> QED
  BY <1>1, <1>2, <1>4

(* A remainder may be taken early.                                         *)
LEMMA PlusMod ==
  ASSUME NEW a \in Int, NEW b \in Int, NEW m \in Nat \ {0}
  PROVE  ((a % m) + b) % m = (a + b) % m
<1> DEFINE c == (a % m) + b
           q == (a \div m) + (c \div m)
<1>1. /\ a = m * (a \div m) + (a % m)
      /\ a % m \in 0 .. m - 1 /\ a \div m \in Int
  BY DivMod
<1>2. c \in Int
  BY <1>1
<1>3. c = m * (c \div m) + (c % m) /\ c % m \in 0 .. m - 1 /\ c \div m \in Int
  <2> HIDE DEF c
  <2> QED BY <1>2, DivMod
<1>4. a + b = m * q + (c % m) /\ q \in Int /\ a + b \in Int
  BY <1>1, <1>3, Z3
<1> HIDE DEF q
<1> QED
  BY <1>3, <1>4, ModIs

(* The number of the byte at position n of the output.                     *)
Number(n) == n % BYTES

LEMMA NumberPlus ==
  ASSUME NEW n \in Nat, NEW k \in Nat
  PROVE  /\ Number(n) \in Numbers
         /\ Plus(Number(n), k) = Number(n + k)
<1>0. BYTES \in Nat \ {0}
  BY BytesAssumption, LengthAssumption
<1>1. n % BYTES \in 0 .. BYTES - 1
  BY <1>0, DivMod
<1>2. ((n % BYTES) + k) % BYTES = (n + k) % BYTES
  <2>1. n \in Int /\ k \in Int
    OBVIOUS
  <2> QED BY <1>0, <2>1, PlusMod, Zenon
<1> QED
  BY <1>1, <1>2 DEF Number, Numbers, Plus

-----------------------------------------------------------------------------
(* Sequences.                                                              *)

(* A sequence that has grown at its end.                                   *)
LEMMA AppendIs ==
  ASSUME NEW S, NEW s \in Seq(S), NEW x \in S, NEW n, n = Append(s, x)
  PROVE  /\ n \in Seq(S) /\ n # <<>>
         /\ Len(s) \in Nat /\ Len(n) = Len(s) + 1
         /\ DOMAIN s = 1 .. Len(s) /\ DOMAIN n = 1 .. Len(s) + 1
         /\ n[Len(s) + 1] = x
         /\ \A i \in DOMAIN s : n[i] = s[i]
BY AppendProperties, LenProperties

(* A sequence that has lost its head.                                      *)
LEMMA TailIs ==
  ASSUME NEW S, NEW s \in Seq(S), s # <<>>, NEW n, n = Tail(s)
  PROVE  /\ n \in Seq(S)
         /\ Head(s) = s[1] /\ Head(s) \in S /\ 1 \in DOMAIN s
         /\ Len(s) \in Nat \ {0} /\ Len(n) = Len(s) - 1
         /\ DOMAIN s = 1 .. Len(s) /\ DOMAIN n = 1 .. Len(s) - 1
         /\ \A i \in DOMAIN n : n[i] = s[i + 1]
<1>1. Len(s) \in Nat /\ DOMAIN s = 1 .. Len(s) /\ s \in [1 .. Len(s) -> S]
  BY LenProperties
<1>2. Len(s) # 0
  BY <1>1, EmptySeq
<1> QED
  BY <1>1, <1>2, HeadTailProperties

(* A nonempty set of natural numbers has a least one.                      *)
LEMMA LeastNatural ==
  ASSUME NEW S \in SUBSET Nat, S # {}
  PROVE  \E x \in S : \A y \in S : x <= y
<1> DEFINE R == {ss \in Nat \X Nat : ss[1] < ss[2]}
<1>1. IsWellFoundedOn(R, Nat)
  BY NatLessThanWellFounded DEF OpToRel
<1>2. PICK x \in S : \A y \in S : ~(<<y, x>> \in R)
  <2> HIDE DEF R
  <2> QED BY <1>1, WFMin
<1>3. ASSUME NEW y \in S PROVE x <= y
  <2>1. <<y, x>> \in Nat \X Nat /\ <<y, x>>[1] = y /\ <<y, x>>[2] = x
    OBVIOUS
  <2>2. ~(y < x)
    BY <1>2, <2>1
  <2> QED BY <2>2
<1> QED BY <1>3

-----------------------------------------------------------------------------
(* Recursion over an interval.                                             *)

(* What holds of 0 and of k when it holds of k - 1 holds up to n.          *)
LEMMA UpTo ==
  ASSUME NEW n \in Nat, NEW G, 0 \in G,
         \A k \in 1 .. n : k - 1 \in G => k \in G
  PROVE  \A k \in 0 .. n : k \in G
<1> DEFINE Bad == {k \in 0 .. n : k \notin G}
<1> SUFFICES ASSUME Bad # {} PROVE FALSE
  OBVIOUS
<1>1. Bad \in SUBSET Nat
  OBVIOUS
<1>2. PICK x \in Bad : \A y \in Bad : x <= y
  <2> HIDE DEF Bad
  <2> QED BY <1>1, LeastNatural
<1>3. x \in 1 .. n /\ x - 1 \in 0 .. n /\ ~(x <= x - 1)
  OBVIOUS
<1>4. x - 1 \in G
  BY <1>2, <1>3
<1> QED BY <1>3, <1>4

(* A function that takes a step for each number is defined.                *)
Walks(f, n, S, b, step) ==
  /\ f \in [0 .. n -> S]
  /\ f[0] = b
  /\ \A k \in 1 .. n : f[k] = step[<<k, f[k - 1]>>]

LEMMA WalkIsDefined ==
  ASSUME NEW n \in Nat, NEW S, NEW b \in S,
         NEW step \in [(1 .. n) \X S -> S]
  PROVE  \E f : Walks(f, n, S, b, step)
<1> DEFINE Steps(f, m) == /\ f \in [0 .. m -> S]
                          /\ f[0] = b
                          /\ \A k \in 1 .. m : f[k] = step[<<k, f[k - 1]>>]
           G == {m \in 0 .. n : \E f : Steps(f, m)}
<1>1. 0 \in G
  <2>1. Steps([k \in 0 .. 0 |-> b], 0)
    OBVIOUS
  <2>2. 0 \in 0 .. n
    OBVIOUS
  <2> HIDE DEF Steps
  <2> QED BY <2>1, <2>2
<1>2. ASSUME NEW m \in 1 .. n, m - 1 \in G PROVE m \in G
  <2>1. PICK f : Steps(f, m - 1)
    BY <1>2
  <2> DEFINE g == [k \in 0 .. m |-> IF k = m THEN step[<<m, f[m - 1]>>]
                                              ELSE f[k]]
  <2>2. f[m - 1] \in S /\ step[<<m, f[m - 1]>>] \in S
    <3>1. f[m - 1] \in S
      BY <2>1
    <3>2. <<m, f[m - 1]>> \in (1 .. n) \X S
      BY <3>1
    <3> QED BY <3>1, <3>2
  <2>3. g \in [0 .. m -> S] /\ g[0] = b
    <3>1. \A k \in 0 .. m : k = m \/ k \in 0 .. m - 1
      OBVIOUS
    <3>2. 0 # m /\ 0 \in 0 .. m
      OBVIOUS
    <3> QED BY <2>1, <2>2, <3>1, <3>2
  <2>4. ASSUME NEW k \in 1 .. m PROVE g[k] = step[<<k, g[k - 1]>>]
    <3>1. k \in 0 .. m /\ k - 1 \in 0 .. m /\ k - 1 # m
      OBVIOUS
    <3>2. g[k - 1] = f[k - 1]
      BY <3>1
    <3>3. CASE k = m
      BY <3>1, <3>2, <3>3
    <3>4. CASE k # m
      <4>1. k \in 1 .. m - 1
        BY <3>4
      <4> QED BY <2>1, <3>1, <3>2, <3>4, <4>1
    <3> QED BY <3>3, <3>4
  <2>5. Steps(g, m)
    BY <2>3, <2>4
  <2>6. m \in 0 .. n
    OBVIOUS
  <2> HIDE DEF Steps, g
  <2> QED BY <2>5, <2>6
<1> HIDE DEF G
<1>3. n \in G
  <2>1. n \in 0 .. n
    OBVIOUS
  <2> QED BY <1>1, <1>2, <2>1, UpTo
<1> QED BY <1>3 DEF G, Walks

-----------------------------------------------------------------------------
(* Buffers.                                                                *)

Buffers == [head : Offsets, tail : Offsets, count : Int,
            buffer : [Offsets -> Int]]

(* The slot of the i-th byte, counted from the oldest, which is byte 0.    *)
Slot(cb, i) ==
  IF cb.tail + i < LENGTH THEN cb.tail + i ELSE cb.tail + i - LENGTH

At(cb, i) == cb.buffer[Slot(cb, i)]

(* The head is where the next byte belongs.                                *)
Proper(cb) ==
  /\ cb \in Buffers
  /\ cb.count \in Offsets
  /\ cb.head = Slot(cb, cb.count)

LEMMA SlotIs ==
  ASSUME NEW cb \in Buffers, NEW i \in Offsets
  PROVE  /\ Slot(cb, i) \in Offsets
         /\ At(cb, i) \in Int
         /\ \A j \in Offsets : Slot(cb, i) = Slot(cb, j) => i = j
<1>1. cb.tail \in Offsets /\ cb.buffer \in [Offsets -> Int]
  BY DEF Buffers
<1>2. Slot(cb, i) \in Offsets
  BY <1>1, LengthAssumption DEF Slot, Offsets
<1>3. \A j \in Offsets : Slot(cb, i) = Slot(cb, j) => i = j
  BY <1>1, LengthAssumption DEF Slot, Offsets
<1> QED BY <1>1, <1>2, <1>3 DEF At

LEMMA ProduceIs ==
  ASSUME NEW cb \in Buffers, NEW c \in Int
  PROVE  LET n == cbuf_produce(cb, c)
         IN  /\ n \in Buffers /\ n.count \in Offsets
             /\ Proper(cb) /\ cb.count + 1 < LENGTH =>
                  /\ Proper(n) /\ n.count = cb.count + 1
                  /\ \A i \in 0 .. cb.count - 1 : At(n, i) = At(cb, i)
                  /\ At(n, cb.count) = c
<1> DEFINE n == cbuf_produce(cb, c)
<1>1. /\ n.head = Around(cb.head + 1) /\ n.tail = cb.tail
      /\ n.count = (cb.count + 1) % LENGTH
      /\ n.buffer = [cb.buffer EXCEPT ![cb.head] = c]
      /\ n = [head |-> n.head, tail |-> n.tail, count |-> n.count,
              buffer |-> n.buffer]
  BY DEF cbuf_produce
<1>2. /\ cb.head \in Offsets /\ cb.tail \in Offsets /\ cb.count \in Int
      /\ cb.buffer \in [Offsets -> Int]
      /\ LENGTH \in Nat \ {0} /\ LENGTH > 1
  BY LengthAssumption DEF Buffers
<1>3. n.count \in Offsets /\ cb.count + 1 \in Int
  <2>1. cb.count + 1 \in Int
    BY <1>2
  <2> QED BY <1>1, <1>2, <2>1, DivMod DEF Offsets
<1>4. n.head \in Offsets
  BY <1>1, <1>2 DEF Around, Offsets
<1>5. n.buffer \in [Offsets -> Int]
  BY <1>1, <1>2
<1> HIDE DEF n
<1>6. n \in Buffers
  <2>1. n.count \in Int
    BY <1>2, <1>3 DEF Offsets
  <2> QED BY <1>1, <1>2, <1>4, <1>5, <2>1 DEF Buffers
<1>7. ASSUME Proper(cb), cb.count + 1 < LENGTH
      PROVE  /\ Proper(n) /\ n.count = cb.count + 1
             /\ \A i \in 0 .. cb.count - 1 : At(n, i) = At(cb, i)
             /\ At(n, cb.count) = c
  <2>1. /\ cb.count \in Nat /\ cb.count + 1 \in 0 .. LENGTH - 1
        /\ cb.count + 1 = LENGTH * 0 + (cb.count + 1)
    BY <1>2, <1>7 DEF Proper, Offsets
  <2>2. n.count = cb.count + 1
    <3>1. 0 \in Int
      OBVIOUS
    <3> QED BY <1>1, <1>2, <1>3, <2>1, <3>1, ModIs
  <2>3. n.head = Slot(n, n.count)
    <3> DEFINE t == cb.tail
               k == cb.count
    <3>1. /\ t \in Nat /\ k \in Nat /\ t < LENGTH /\ k + 1 < LENGTH
      BY <1>2, <2>1 DEF Offsets
    <3>2. cb.head = IF t + k < LENGTH THEN t + k ELSE t + k - LENGTH
      BY <1>7 DEF Proper, Slot
    <3>3. n.head = IF cb.head + 1 = LENGTH THEN 0 ELSE cb.head + 1
      BY <1>1 DEF Around
    <3>4. n.tail = t /\ n.count = k + 1
      BY <1>1, <2>2
    <3>5. n.head = IF t + (k + 1) < LENGTH THEN t + (k + 1)
                   ELSE t + (k + 1) - LENGTH
      <4> HIDE DEF t, k
      <4> QED BY <1>2, <3>1, <3>2, <3>3
    <3> QED BY <3>4, <3>5 DEF Slot
  <2>4. \A i : Slot(n, i) = Slot(cb, i)
    BY <1>1 DEF Slot
  <2>5. ASSUME NEW i \in 0 .. cb.count - 1 PROVE At(n, i) = At(cb, i)
    <3>1. i \in Offsets /\ cb.count \in Offsets /\ i # cb.count
      BY <1>2, <2>1 DEF Offsets
    <3>2. Slot(cb, i) # cb.head /\ Slot(cb, i) \in Offsets
      BY <1>7, <3>1, SlotIs DEF Proper
    <3> QED BY <1>1, <1>2, <2>4, <3>2 DEF At
  <2>6. At(n, cb.count) = c
    BY <1>1, <1>2, <1>7, <2>4 DEF At, Proper
  <2> QED BY <1>3, <1>6, <2>2, <2>3, <2>5, <2>6 DEF Proper
<1> QED BY <1>3, <1>6, <1>7 DEF n

LEMMA ConsumeIs ==
  ASSUME NEW cb \in Buffers
  PROVE  LET n == cbuf_consume(cb)
         IN  /\ n \in Buffers /\ n.count = cb.count - 1
             /\ \A i \in 0 .. LENGTH - 2 : At(n, i) = At(cb, i + 1)
             /\ cbuf_peek(cb) = At(cb, 0) /\ cbuf_peek(cb) \in Int
             /\ Proper(cb) /\ cb.count > 0 => Proper(n)
<1> DEFINE n == cbuf_consume(cb)
<1>1. /\ n.head = cb.head /\ n.tail = Around(cb.tail + 1)
      /\ n.count = cb.count - 1 /\ n.buffer = cb.buffer
      /\ n = [head |-> n.head, tail |-> n.tail, count |-> n.count,
              buffer |-> n.buffer]
  BY DEF cbuf_consume
<1>2. /\ cb.head \in Offsets /\ cb.tail \in Offsets /\ cb.count \in Int
      /\ cb.buffer \in [Offsets -> Int]
      /\ LENGTH \in Nat \ {0} /\ LENGTH > 1
  BY LengthAssumption DEF Buffers
<1> HIDE DEF n
<1>3. n.tail \in Offsets
  BY <1>1, <1>2 DEF Around, Offsets
<1>4. n \in Buffers
  <2>1. n.count \in Int
    BY <1>1, <1>2
  <2> QED BY <1>1, <1>2, <1>3, <2>1 DEF Buffers
<1>5. \A i \in 0 .. LENGTH - 2 : Slot(n, i) = Slot(cb, i + 1)
  <2> SUFFICES ASSUME NEW i \in 0 .. LENGTH - 2
               PROVE  Slot(n, i) = Slot(cb, i + 1)
    OBVIOUS
  <2> DEFINE t == cb.tail
  <2>1. n.tail = IF t + 1 = LENGTH THEN 0 ELSE t + 1
    BY <1>1 DEF Around
  <2>2. t \in Nat /\ t < LENGTH
    BY <1>2 DEF Offsets
  <2>3. (IF n.tail + i < LENGTH THEN n.tail + i ELSE n.tail + i - LENGTH) =
        (IF t + (i + 1) < LENGTH THEN t + (i + 1) ELSE t + (i + 1) - LENGTH)
    <3> HIDE DEF t
    <3>1. CASE t + 1 = LENGTH
      BY <1>2, <2>1, <2>2, <3>1
    <3>2. CASE t + 1 # LENGTH
      BY <1>2, <2>1, <2>2, <3>2
    <3> QED BY <3>1, <3>2
  <2> QED BY <2>3 DEF Slot
<1>6. \A i \in 0 .. LENGTH - 2 : At(n, i) = At(cb, i + 1)
  BY <1>1, <1>5 DEF At
<1>7. cbuf_peek(cb) = At(cb, 0) /\ cbuf_peek(cb) \in Int
  BY <1>2 DEF cbuf_peek, At, Slot, Offsets
<1>8. ASSUME Proper(cb), cb.count > 0 PROVE Proper(n)
  <2>1. /\ cb.count - 1 \in 0 .. LENGTH - 2 /\ (cb.count - 1) + 1 = cb.count
        /\ cb.count - 1 \in Offsets
    BY <1>2, <1>8 DEF Proper, Offsets
  <2>2. n.head = Slot(n, n.count)
    BY <1>1, <1>5, <1>8, <2>1 DEF Proper
  <2> QED BY <1>1, <1>4, <2>1, <2>2 DEF Proper
<1> QED BY <1>1, <1>4, <1>6, <1>7, <1>8 DEF n

(* The bytes of a string go in one after another.                          *)
LEMMA ProducedIs ==
  ASSUME NEW cb \in Buffers, cb.count \in Offsets, NEW data \in Seq(Int)
  PROVE  LET n == Produced(cb, data)
         IN  /\ n \in Buffers /\ n.count \in Offsets
             /\ Proper(cb) /\ cb.count + Len(data) < LENGTH =>
                  /\ Proper(n) /\ n.count = cb.count + Len(data)
                  /\ \A i \in 0 .. cb.count - 1 : At(n, i) = At(cb, i)
                  /\ \A j \in 1 .. Len(data) :
                       At(n, cb.count + j - 1) = data[j]
<1> DEFINE m == Len(data)
           Step(f) == [k \in 0 .. Len(data) |->
                         IF k = 0 THEN cb ELSE cbuf_produce(f[k - 1], data[k])]
           after == CHOOSE f : f = Step(f)
           step == [d \in (1 .. m) \X Buffers |->
                      cbuf_produce(d[2], data[d[1]])]
<1>1. Produced(cb, data) = after[m]
  BY DEF Produced
<1>2. m \in Nat /\ \A k \in 1 .. m : data[k] \in Int
  BY LenProperties
<1>3. PICK g : /\ g \in [0 .. m -> Buffers]
               /\ g[0] = cb
               /\ \A k \in 1 .. m : g[k] = step[<<k, g[k - 1]>>]
  <2>1. ASSUME NEW d \in (1 .. m) \X Buffers
        PROVE  cbuf_produce(d[2], data[d[1]]) \in Buffers
    <3>1. d[1] \in 1 .. m /\ d[2] \in Buffers
      OBVIOUS
    <3>2. data[d[1]] \in Int
      BY <1>2, <3>1
    <3> QED BY <3>1, <3>2, ProduceIs
  <2>2. step \in [(1 .. m) \X Buffers -> Buffers]
    BY <2>1
  <2> HIDE DEF step, m
  <2>3. PICK g : Walks(g, m, Buffers, cb, step)
    BY <1>2, <2>2, WalkIsDefined
  <2> QED BY <2>3 DEF Walks
<1>4. ASSUME NEW k \in 1 .. m
      PROVE  g[k] = cbuf_produce(g[k - 1], data[k]) /\ g[k - 1] \in Buffers
  <2>1. k - 1 \in 0 .. m
    BY <1>2
  <2>2. <<k, g[k - 1]>> \in (1 .. m) \X Buffers
    BY <1>3, <2>1
  <2>3. step[<<k, g[k - 1]>>] = cbuf_produce(g[k - 1], data[k])
    BY <2>2
  <2> HIDE DEF step
  <2> QED BY <1>3, <2>1, <2>3
<1>5. g = Step(g)
  <2>1. \A k \in 0 .. m : g[k] = IF k = 0 THEN cb
                                 ELSE cbuf_produce(g[k - 1], data[k])
    <3>1. \A k \in 0 .. m : k = 0 \/ k \in 1 .. m
      BY <1>2
    <3> QED BY <1>3, <1>4, <3>1
  <2>2. g = [k \in 0 .. m |-> g[k]]
    BY <1>3
  <2> QED BY <2>1, <2>2, Zenon
<1>6. after = Step(after)
  <2> HIDE DEF Step
  <2> QED BY <1>5, Zenon
<1> HIDE DEF after
<1>7. after[0] = cb /\ \A k \in 1 .. m :
        after[k] = cbuf_produce(after[k - 1], data[k])
  <2>1. \A k \in 0 .. m : after[k] = IF k = 0 THEN cb
                          ELSE cbuf_produce(after[k - 1], data[k])
    BY <1>6, Zenon
  <2>2. 0 \in 0 .. m /\ \A k \in 1 .. m : k \in 0 .. m /\ k # 0
    BY <1>2
  <2> QED BY <2>1, <2>2
<1> DEFINE
      G == {k \in 0 .. m :
              /\ after[k] \in Buffers /\ after[k].count \in Offsets
              /\ Proper(cb) /\ cb.count + m < LENGTH =>
                   /\ Proper(after[k]) /\ after[k].count = cb.count + k
                   /\ \A i \in 0 .. cb.count - 1 : At(after[k], i) = At(cb, i)
                   /\ \A j \in 1 .. k :
                        At(after[k], cb.count + j - 1) = data[j]}
<1>8. 0 \in G
  BY <1>2, <1>7, LengthAssumption DEF Offsets
<1>9. ASSUME NEW k \in 1 .. m, k - 1 \in G PROVE k \in G
  <2> DEFINE a == after[k - 1]
             n == after[k]
  <2>1. n = cbuf_produce(a, data[k]) /\ data[k] \in Int
    BY <1>2, <1>7
  <2>2. /\ a \in Buffers /\ a.count \in Offsets
        /\ Proper(cb) /\ cb.count + m < LENGTH =>
             /\ Proper(a) /\ a.count = cb.count + (k - 1)
             /\ \A i \in 0 .. cb.count - 1 : At(a, i) = At(cb, i)
             /\ \A j \in 1 .. k - 1 : At(a, cb.count + j - 1) = data[j]
    BY <1>9
  <2> HIDE DEF a, n
  <2>3. /\ n \in Buffers /\ n.count \in Offsets
        /\ Proper(a) /\ a.count + 1 < LENGTH =>
             /\ Proper(n) /\ n.count = a.count + 1
             /\ \A i \in 0 .. a.count - 1 : At(n, i) = At(a, i)
             /\ At(n, a.count) = data[k]
    BY <2>1, <2>2, ProduceIs
  <2>4. ASSUME Proper(cb), cb.count + m < LENGTH
        PROVE  /\ Proper(n) /\ n.count = cb.count + k
               /\ \A i \in 0 .. cb.count - 1 : At(n, i) = At(cb, i)
               /\ \A j \in 1 .. k : At(n, cb.count + j - 1) = data[j]
    <3>1. /\ cb.count \in Nat /\ k \in Nat /\ m \in Nat /\ k <= m
          /\ LENGTH \in Nat
          /\ a.count = cb.count + (k - 1)
      BY <1>2, <2>2, <2>4, LengthAssumption DEF Offsets
    <3>2. a.count + 1 < LENGTH
      BY <2>4, <3>1
    <3>3. \A i \in 0 .. cb.count - 1 : i \in 0 .. a.count - 1
      BY <3>1
    <3>4. ASSUME NEW j \in 1 .. k PROVE At(n, cb.count + j - 1) = data[j]
      <4>1. CASE j = k
        <5>1. cb.count + j - 1 = a.count
          BY <3>1, <4>1
        <5> QED BY <2>2, <2>3, <2>4, <3>2, <4>1, <5>1
      <4>2. CASE j # k
        <5>1. j \in 1 .. k - 1 /\ cb.count + j - 1 \in 0 .. a.count - 1
          BY <3>1, <4>2
        <5> QED BY <2>2, <2>3, <2>4, <3>2, <5>1
      <4> QED BY <4>1, <4>2
    <3>5. n.count = cb.count + k
      BY <2>2, <2>3, <2>4, <3>1, <3>2
    <3> QED BY <2>2, <2>3, <2>4, <3>2, <3>3, <3>4, <3>5
  <2>5. k \in 0 .. m
    OBVIOUS
  <2> QED BY <2>3, <2>4, <2>5 DEF n
<1> HIDE DEF G, m
<1>10. m \in G
  <2>1. m \in 0 .. m
    BY <1>2
  <2> QED BY <1>2, <1>8, <1>9, <2>1, UpTo
<1> QED BY <1>1, <1>10 DEF G, m

(* And come out one after another.                                         *)
LEMMA ConsumedIs ==
  ASSUME NEW cb \in Buffers, cb.count \in Offsets, NEW size \in 0 .. cb.count
  PROVE  LET c == Consumed(cb, size)
         IN  /\ c.rest \in Buffers /\ c.rest.count = cb.count - size
             /\ c.rest.count \in Offsets
             /\ Proper(cb) => Proper(c.rest)
             /\ \A i \in 0 .. cb.count - size - 1 :
                  At(c.rest, i) = At(cb, i + size)
             /\ c.data \in Seq(Int) /\ Len(c.data) = size
             /\ \A j \in 1 .. size : c.data[j] = At(cb, j - 1)
<1> DEFINE Pairs == [rest : Buffers, data : Seq(Int)]
           OneOut(p) == [rest |-> cbuf_consume(p.rest),
                        data |-> Append(p.data, cbuf_peek(p.rest))]
           Step(f) == [k \in 0 .. size |->
                         IF k = 0 THEN [rest |-> cb, data |-> <<>>]
                         ELSE [rest |-> cbuf_consume(f[k - 1].rest),
                               data |-> Append(f[k - 1].data,
                                               cbuf_peek(f[k - 1].rest))]]
           after == CHOOSE f : f = Step(f)
           step == [d \in (1 .. size) \X Pairs |-> OneOut(d[2])]
           start == [rest |-> cb, data |-> <<>>]
<1>1. Consumed(cb, size) = after[size]
  BY DEF Consumed
<1>2. size \in Nat /\ cb.count \in Nat /\ size <= cb.count
      /\ cb.count < LENGTH /\ LENGTH \in Nat
  BY LengthAssumption DEF Offsets
<1>3. ASSUME NEW p \in Pairs PROVE OneOut(p) \in Pairs
  <2>1. p.rest \in Buffers /\ p.data \in Seq(Int)
    OBVIOUS
  <2>2. cbuf_consume(p.rest) \in Buffers /\ cbuf_peek(p.rest) \in Int
    BY <2>1, ConsumeIs
  <2>3. Append(p.data, cbuf_peek(p.rest)) \in Seq(Int)
    BY <2>1, <2>2
  <2> QED BY <2>2, <2>3
<1>4. PICK g : /\ g \in [0 .. size -> Pairs]
               /\ g[0] = start
               /\ \A k \in 1 .. size : g[k] = step[<<k, g[k - 1]>>]
  <2>1. step \in [(1 .. size) \X Pairs -> Pairs]
    <3> HIDE DEF Pairs, OneOut
    <3> QED BY <1>3
  <2>2. start \in Pairs
    OBVIOUS
  <2> HIDE DEF step, start, Pairs
  <2>3. PICK g : Walks(g, size, Pairs, start, step)
    BY <1>2, <2>1, <2>2, WalkIsDefined
  <2> QED BY <2>3 DEF Walks
<1>5. \A k \in 1 .. size : g[k] = OneOut(g[k - 1])
  <2> SUFFICES ASSUME NEW k \in 1 .. size PROVE g[k] = OneOut(g[k - 1])
    OBVIOUS
  <2>1. k - 1 \in 0 .. size
    BY <1>2
  <2> HIDE DEF Pairs, OneOut
  <2>2. <<k, g[k - 1]>> \in (1 .. size) \X Pairs
    BY <1>4, <2>1
  <2>3. step[<<k, g[k - 1]>>] = OneOut(g[k - 1])
    BY <2>2
  <2> HIDE DEF step
  <2> QED BY <1>4, <2>3
<1>6. g = Step(g)
  <2>1. \A k \in 0 .. size : g[k] = IF k = 0 THEN start ELSE OneOut(g[k - 1])
    <3>1. \A k \in 0 .. size : k = 0 \/ k \in 1 .. size
      BY <1>2
    <3> HIDE DEF start, OneOut
    <3> QED BY <1>4, <1>5, <3>1
  <2>2. g = [k \in 0 .. size |-> g[k]]
    <3> HIDE DEF Pairs
    <3> QED BY <1>4
  <2> QED BY <2>1, <2>2, Zenon
<1>7. after = Step(after)
  <2> HIDE DEF Step
  <2> QED BY <1>6, Zenon
<1> HIDE DEF after
<1>8. after[0] = start /\ \A k \in 1 .. size : after[k] = OneOut(after[k - 1])
  <2>1. \A k \in 0 .. size : after[k] = IF k = 0 THEN start
                                        ELSE OneOut(after[k - 1])
    BY <1>7, Zenon
  <2>2. 0 \in 0 .. size /\ \A k \in 1 .. size : k \in 0 .. size /\ k # 0
    BY <1>2
  <2> HIDE DEF start, OneOut
  <2> QED BY <2>1, <2>2
<1> DEFINE Holds(p, k) ==
             /\ p.rest \in Buffers /\ p.rest.count = cb.count - k
             /\ Proper(cb) => Proper(p.rest)
             /\ \A i \in 0 .. cb.count - k - 1 :
                  At(p.rest, i) = At(cb, i + k)
             /\ p.data \in Seq(Int) /\ Len(p.data) = k
             /\ \A j \in 1 .. k : p.data[j] = At(cb, j - 1)
           G == {k \in 0 .. size : Holds(after[k], k)}
<1>9. 0 \in G
  <2>1. Holds(start, 0)
    <3>1. \A i \in 0 .. cb.count - 0 - 1 : i + 0 = i
      BY <1>2
    <3>2. start.rest = cb /\ start.data = <<>> /\ <<>> \in Seq(Int)
          /\ Len(<<>>) = 0 /\ cb.count - 0 = cb.count
      BY <1>2
    <3> HIDE DEF start
    <3> QED BY <3>1, <3>2
  <2>2. 0 \in 0 .. size
    BY <1>2
  <2> HIDE DEF Holds, start
  <2> QED BY <1>8, <2>1, <2>2
<1>10. ASSUME NEW k \in 1 .. size, k - 1 \in G PROVE k \in G
  <2> DEFINE a == after[k - 1]
             b == a.rest
             n == cbuf_consume(b)
  <2>1. Holds(a, k - 1)
    BY <1>10
  <2>2. after[k] = [rest |-> n, data |-> Append(a.data, cbuf_peek(b))]
    BY <1>8
  <2>3. after[k].rest = n /\ after[k].data = Append(a.data, cbuf_peek(b))
    BY <2>2
  <2> HIDE DEF n, b, a
  <2>4. /\ b \in Buffers /\ b.count = cb.count - (k - 1)
        /\ Proper(cb) => Proper(b)
        /\ \A i \in 0 .. cb.count - (k - 1) - 1 :
             At(b, i) = At(cb, i + (k - 1))
        /\ a.data \in Seq(Int) /\ Len(a.data) = k - 1
        /\ \A j \in 1 .. k - 1 : a.data[j] = At(cb, j - 1)
    BY <2>1 DEF b
  <2>5. /\ n \in Buffers /\ n.count = b.count - 1
        /\ \A i \in 0 .. LENGTH - 2 : At(n, i) = At(b, i + 1)
        /\ cbuf_peek(b) = At(b, 0) /\ cbuf_peek(b) \in Int
        /\ Proper(b) /\ b.count > 0 => Proper(n)
    BY <2>4, ConsumeIs DEF n
  <2>6. k \in Nat /\ k > 0 /\ k <= cb.count /\ k \in 0 .. size
    BY <1>2
  <2>7. n.count = cb.count - k /\ b.count > 0
    BY <1>2, <2>4, <2>5, <2>6
  <2>8. ASSUME NEW i \in 0 .. cb.count - k - 1
        PROVE  At(n, i) = At(cb, i + k)
    <3>1. /\ i \in 0 .. LENGTH - 2
          /\ i + 1 \in 0 .. cb.count - (k - 1) - 1
          /\ (i + 1) + (k - 1) = i + k
      BY <1>2, <2>6
    <3> QED BY <2>4, <2>5, <3>1
  <2>9. cbuf_peek(b) = At(cb, k - 1)
    <3>1. 0 \in 0 .. cb.count - (k - 1) - 1 /\ 0 + (k - 1) = k - 1
      BY <1>2, <2>6
    <3> QED BY <2>4, <2>5, <3>1
  <2>10. /\ Append(a.data, cbuf_peek(b)) \in Seq(Int)
         /\ Len(Append(a.data, cbuf_peek(b))) = k
         /\ \A j \in 1 .. k - 1 : Append(a.data, cbuf_peek(b))[j] = a.data[j]
         /\ Append(a.data, cbuf_peek(b))[k] = cbuf_peek(b)
    BY <2>4, <2>5, <2>6, AppendProperties
  <2>11. ASSUME NEW j \in 1 .. k
         PROVE  Append(a.data, cbuf_peek(b))[j] = At(cb, j - 1)
    <3>1. j = k \/ j \in 1 .. k - 1
      OBVIOUS
    <3> QED BY <2>4, <2>9, <2>10, <3>1
  <2>12. Proper(cb) => Proper(n)
    BY <2>4, <2>5, <2>7
  <2>13. Holds(after[k], k)
    BY <2>3, <2>5, <2>7, <2>8, <2>10, <2>11, <2>12
  <2> HIDE DEF Holds
  <2> QED BY <2>6, <2>13
<1> HIDE DEF G, Holds
<1>11. Holds(after[size], size)
  <2>1. size \in 0 .. size
    BY <1>2
  <2>2. size \in G
    BY <1>2, <1>9, <1>10, <2>1, UpTo
  <2> QED BY <2>2 DEF G
<1>12. cb.count - size \in Offsets
  BY <1>2 DEF Offsets
<1> QED BY <1>1, <1>11, <1>12 DEF Holds

-----------------------------------------------------------------------------
(* The control of the server and of its two helpers.                       *)

Requests == [type : {"put", "get", CARRIER, NOTIFIER},
             from : Clients \cup {CARRIER, NOTIFIER},
             data : Seq(Int)]
Carriers == [at   : {"ask", "server", "cts", "on_cts", "send", "down",
                     "on_down"},
             data : Seq(Int)]
Notifiers == [at : {"await", "woken", "server"}, data : Seq(Int)]

TypeOK ==
  /\ train_out \in Buffers /\ train_out.count \in Offsets
  /\ train_in \in Buffers /\ train_in.count \in Offsets
  /\ get_tid \in Clients \cup {NOBODY} /\ get_expecting \in Nat
  /\ send_tid \in BOOLEAN
  /\ inbox \in Seq(Requests)
  /\ client \in [Clients -> {"idle", "put", "get"}]
  /\ carrier \in Carriers
  /\ notifier \in Notifiers
  /\ cts \in BOOLEAN /\ busy \in BOOLEAN /\ aborted \in BOOLEAN
  /\ put \in Int /\ sent \in Int /\ come \in Int /\ got \in Int

(* A byte that the line has not answered is one after which the carrier    *)
(* has not gone on; and it writes when the line is up.                     *)
LineOK ==
  /\ LINE_IS_SLOW => AwaitedChangeComes
  /\ LINE_IS_SLOW => (cts /\ carrier.at = "down" => busy)
  /\ carrier.at = "send" => cts
  /\ busy => cts /\ carrier.at \in {"down", "on_down"}
  /\ carrier.at \in {"ask", "server"} => carrier.data = <<>>
  /\ carrier.at \in {"cts", "on_cts", "send"} => carrier.data # <<>>

(* Requests in the inbox are from different tasks and of the kind that     *)
(* the task is waiting for.                                                *)
InboxOK ==
  /\ \A i, j \in DOMAIN inbox : inbox[i].from = inbox[j].from => i = j
  /\ \A i \in DOMAIN inbox :
       inbox[i].type = IF inbox[i].from \in Clients
                       THEN client[inbox[i].from] ELSE inbox[i].from

Senders == {inbox[i].from : i \in DOMAIN inbox}

(* Who waits for the server is in the inbox, or is the one it keeps.       *)
WaitersAreKnown ==
  /\ carrier.at = "server" /\ ~send_tid <=> CARRIER \in Senders
  /\ notifier.at = "server" <=> NOTIFIER \in Senders
  /\ \A c \in Clients :
       /\ client[c] # "idle" <=> c \in Senders \/ c = get_tid
       /\ ~(c \in Senders /\ c = get_tid)

ControlInv ==
  /\ TypeOK
  /\ LineOK
  /\ InboxOK
  /\ NobodyWaitsInVain
  /\ ~aborted => WaitersAreKnown

(* A request arrives, of a task that had none in the inbox.                *)
LEMMA InboxGrows ==
  ASSUME TypeOK, InboxOK, NEW r \in Requests, r.from \notin Senders,
         inbox' = Append(inbox, r),
         r.type = IF r.from \in Clients THEN client'[r.from] ELSE r.from,
         \A c \in Clients : c # r.from => client'[c] = client[c]
  PROVE  /\ InboxOK' /\ inbox' \in Seq(Requests)
         /\ Senders' = Senders \cup {r.from}
<1>1. /\ inbox \in Seq(Requests) /\ Len(inbox) \in Nat
      /\ inbox' \in Seq(Requests)
      /\ DOMAIN inbox = 1 .. Len(inbox) /\ DOMAIN inbox' = 1 .. Len(inbox) + 1
      /\ inbox'[Len(inbox) + 1] = r
      /\ \A i \in DOMAIN inbox : inbox'[i] = inbox[i] /\ inbox[i] \in Requests
  BY AppendIs DEF TypeOK
<1>2. /\ DOMAIN inbox' = DOMAIN inbox \cup {Len(inbox) + 1}
      /\ Len(inbox) + 1 \notin DOMAIN inbox
  BY <1>1
<1>3. \A i \in DOMAIN inbox : inbox[i].from # r.from
  BY DEF Senders
<1>4. \A i, j \in DOMAIN inbox' : inbox'[i].from = inbox'[j].from => i = j
  BY <1>1, <1>2, <1>3 DEF InboxOK
<1>5. \A i \in DOMAIN inbox' :
        inbox'[i].type = IF inbox'[i].from \in Clients
                         THEN client'[inbox'[i].from] ELSE inbox'[i].from
  <2>1. \A i \in DOMAIN inbox :
          inbox[i].type = IF inbox[i].from \in Clients
                          THEN client'[inbox[i].from] ELSE inbox[i].from
    BY <1>3 DEF InboxOK
  <2> QED BY <1>1, <1>2, <2>1
<1>6. Senders' = Senders \cup {r.from}
  BY <1>1, <1>2 DEF Senders
<1> QED BY <1>1, <1>4, <1>5, <1>6 DEF InboxOK

(* A request is received.                                                  *)
LEMMA ReceivedIs ==
  ASSUME TypeOK, InboxOK, inbox # <<>>
  PROVE  /\ Received = inbox[1] /\ 1 \in DOMAIN inbox
         /\ Received \in Requests /\ Received.from \in Senders
         /\ Received.type = IF Received.from \in Clients
                            THEN client[Received.from] ELSE Received.from
<1>1. Received = inbox[1] /\ 1 \in DOMAIN inbox /\ Received \in Requests
  BY TailIs DEF TypeOK, Received
<1> QED BY <1>1 DEF Senders, InboxOK

LEMMA InboxShrinks ==
  ASSUME TypeOK, InboxOK, inbox # <<>>, inbox' = Tail(inbox),
         \A c \in Clients : c \in Senders /\ c # Received.from =>
           client'[c] = client[c]
  PROVE  /\ InboxOK' /\ inbox' \in Seq(Requests)
         /\ Senders' = Senders \ {Received.from}
<1>1. /\ inbox' \in Seq(Requests)
      /\ Received = inbox[1] /\ 1 \in DOMAIN inbox
      /\ Len(inbox) \in Nat \ {0}
      /\ DOMAIN inbox = 1 .. Len(inbox) /\ DOMAIN inbox' = 1 .. Len(inbox) - 1
      /\ \A i \in DOMAIN inbox' : inbox'[i] = inbox[i + 1]
  BY TailIs DEF TypeOK, Received
<1>2. \A i \in DOMAIN inbox' : i + 1 \in DOMAIN inbox /\ i + 1 # 1 /\ i \in Int
  BY <1>1
<1>3. \A j \in DOMAIN inbox : j # 1 =>
        j - 1 \in DOMAIN inbox' /\ (j - 1) + 1 = j
  BY <1>1
<1>4. \A i, j \in DOMAIN inbox' : inbox'[i].from = inbox'[j].from => i = j
  <2> SUFFICES ASSUME NEW i \in DOMAIN inbox', NEW j \in DOMAIN inbox',
                      inbox'[i].from = inbox'[j].from
               PROVE  i = j
    OBVIOUS
  <2>1. i + 1 = j + 1
    BY <1>1, <1>2 DEF InboxOK
  <2> QED BY <1>2, <2>1
<1>5. \A i \in DOMAIN inbox' :
        /\ inbox'[i].from \in Senders /\ inbox'[i].from # Received.from
        /\ inbox'[i].type = IF inbox'[i].from \in Clients
                            THEN client'[inbox'[i].from] ELSE inbox'[i].from
  <2> SUFFICES ASSUME NEW i \in DOMAIN inbox'
               PROVE  /\ inbox'[i].from \in Senders
                      /\ inbox'[i].from # Received.from
                      /\ inbox'[i].type = IF inbox'[i].from \in Clients
                           THEN client'[inbox'[i].from] ELSE inbox'[i].from
    OBVIOUS
  <2>1. inbox'[i] = inbox[i + 1] /\ i + 1 \in DOMAIN inbox /\ i + 1 # 1
    BY <1>1, <1>2
  <2>2. inbox[i + 1].from \in Senders /\ inbox[i + 1].from # Received.from
    BY <1>1, <2>1 DEF Senders, InboxOK
  <2> QED BY <2>1, <2>2 DEF InboxOK
<1>6. Senders' = Senders \ {Received.from}
  <2>1. \A x \in Senders' : x \in Senders \ {Received.from}
    BY <1>5 DEF Senders
  <2>2. ASSUME NEW x \in Senders \ {Received.from} PROVE x \in Senders'
    <3>1. PICK j \in DOMAIN inbox : inbox[j].from = x
      BY DEF Senders
    <3>2. j # 1
      BY <1>1, <2>2, <3>1
    <3>3. j - 1 \in DOMAIN inbox' /\ inbox'[j - 1] = inbox[j]
      BY <1>1, <1>3, <3>2
    <3>4. \E i \in DOMAIN inbox' : inbox'[i].from = x
      BY <3>1, <3>3
    <3> QED BY <3>4 DEF Senders
  <2> QED BY <2>1, <2>2
<1> QED BY <1>1, <1>4, <1>5, <1>6 DEF InboxOK

-----------------------------------------------------------------------------
(* The steps of the carrier and of the line.                               *)

LEMMA ControlInit == Init => ControlInv
<1> SUFFICES ASSUME Init PROVE ControlInv
  OBVIOUS
<1>1. cbuf_init \in Buffers /\ cbuf_init.count \in Offsets
  BY LengthAssumption DEF cbuf_init, Buffers, Offsets
<1>2. <<>> \in Seq(Int) /\ <<>> \in Seq(Requests)
  OBVIOUS
<1>3. TypeOK
  <2>1. carrier \in Carriers /\ notifier \in Notifiers
    BY <1>2 DEF Init, Carriers, Notifiers
  <2>2. client \in [Clients -> {"idle", "put", "get"}]
    BY DEF Init
  <2>3. /\ train_out \in Buffers /\ train_out.count \in Offsets
        /\ train_in \in Buffers /\ train_in.count \in Offsets
    BY <1>1, Zenon DEF Init
  <2>4. /\ send_tid \in BOOLEAN /\ cts \in BOOLEAN /\ busy \in BOOLEAN
        /\ aborted \in BOOLEAN
    BY DEF Init
  <2>5. /\ get_tid \in Clients \cup {NOBODY} /\ get_expecting \in Nat
        /\ inbox \in Seq(Requests)
        /\ put \in Int /\ sent \in Int /\ come \in Int /\ got \in Int
    BY <1>2 DEF Init
  <2> QED BY <2>1, <2>2, <2>3, <2>4, <2>5 DEF TypeOK
<1>4. LineOK
  BY DEF Init, LineOK, AwaitedChangeComes
<1>5. DOMAIN inbox = {} /\ Senders = {}
  BY DEF Init, Senders
<1>6. InboxOK /\ NobodyWaitsInVain
  BY <1>5 DEF Init, InboxOK, NobodyWaitsInVain
<1>7. WaitersAreKnown
  BY <1>5, ClientsAssumption DEF Init, WaitersAreKnown
<1> QED BY <1>3, <1>4, <1>6, <1>7 DEF ControlInv

(* The carrier moves and the line changes; nobody asks and nobody answers. *)
LEMMA CarrierMoves ==
  ASSUME ControlInv, LineOK',
         UNCHANGED <<server, inbox, client, notifier, put, come, got,
                     aborted>>,
         carrier'.at = "server" <=> carrier.at = "server",
         carrier' \in Carriers, cts' \in BOOLEAN, busy' \in BOOLEAN,
         sent' \in Int
  PROVE  ControlInv'
<1>1. TypeOK'
  BY DEF ControlInv, TypeOK, server
<1>2. InboxOK' /\ NobodyWaitsInVain'
  BY DEF ControlInv, InboxOK, NobodyWaitsInVain, server
<1>3. ~aborted' => WaitersAreKnown'
  BY DEF ControlInv, WaitersAreKnown, Senders, server
<1> QED BY <1>1, <1>2, <1>3 DEF ControlInv

LEMMA AwaitCtsControl ==
  ASSUME ControlInv, AwaitCts PROVE ControlInv'
<1>1. /\ carrier.at = "cts"
      /\ carrier' = [carrier EXCEPT !.at = IF cts THEN "send" ELSE "on_cts"]
      /\ UNCHANGED <<server, inbox, client, notifier, uart, put, come, got,
                     aborted>>
  BY DEF AwaitCts, CarrierGoes
<1>2. /\ carrier \in Carriers /\ cts \in BOOLEAN /\ busy \in BOOLEAN
      /\ sent \in Int
  BY DEF ControlInv, TypeOK
<1>3. /\ carrier' \in Carriers /\ carrier'.data = carrier.data
      /\ carrier'.at = IF cts THEN "send" ELSE "on_cts"
  BY <1>1, <1>2 DEF Carriers
<1>4. LineOK'
  BY <1>1, <1>3 DEF ControlInv, LineOK, AwaitedChangeComes, uart
<1> QED BY <1>1, <1>2, <1>3, <1>4, CarrierMoves DEF uart

LEMMA SendControl ==
  ASSUME ControlInv, irq_uart1_send PROVE ControlInv'
<1>1. /\ carrier.at = "send"
      /\ carrier' = [at |-> "down", data |-> Tail(carrier.data)]
      /\ sent' = IF Head(carrier.data) = sent THEN Plus(sent, 1) ELSE BYTES
      /\ busy' = TRUE
      /\ UNCHANGED <<server, inbox, client, notifier, cts, put, come, got,
                     aborted>>
  BY DEF irq_uart1_send, AfterSend
<1>2. /\ carrier \in Carriers /\ cts \in BOOLEAN /\ sent \in Int
      /\ carrier.data # <<>>
  BY <1>1 DEF ControlInv, TypeOK, LineOK
<1>3. Tail(carrier.data) \in Seq(Int)
  <2>1. carrier.data \in Seq(Int)
    BY <1>2 DEF Carriers
  <2> QED BY <1>2, <2>1, TailIs
<1>4. /\ carrier' \in Carriers /\ carrier'.at = "down"
  BY <1>1, <1>3 DEF Carriers
<1>5. sent' \in Int
  <2>1. BYTES \in Nat \ {0}
    BY BytesAssumption, LengthAssumption
  <2>2. sent + 1 \in Int
    BY <1>2
  <2>3. (sent + 1) % BYTES \in 0 .. BYTES - 1
    BY <2>1, <2>2, DivMod
  <2> QED BY <1>1, <2>1, <2>3 DEF Plus
<1>6. LineOK'
  BY <1>1, <1>4 DEF ControlInv, LineOK, AwaitedChangeComes
<1> QED BY <1>1, <1>2, <1>4, <1>5, <1>6, CarrierMoves

LEMMA AwaitDownControl ==
  ASSUME ControlInv, AwaitDown PROVE ControlInv'
<1>1. /\ carrier.at = "down"
      /\ carrier' = [carrier EXCEPT !.at =
                       IF cts THEN "on_down" ELSE AfterByte(carrier.data)]
      /\ UNCHANGED <<server, inbox, client, notifier, uart, put, come, got,
                     aborted>>
  BY DEF AwaitDown, CarrierGoes
<1>2. /\ carrier \in Carriers /\ cts \in BOOLEAN /\ busy \in BOOLEAN
      /\ sent \in Int
  BY DEF ControlInv, TypeOK
<1>3. /\ carrier' \in Carriers /\ carrier'.data = carrier.data
      /\ carrier'.at = IF cts THEN "on_down" ELSE
                         IF carrier.data = <<>> THEN "ask" ELSE "cts"
  BY <1>1, <1>2 DEF Carriers, AfterByte
<1>4. LineOK'
  BY <1>1, <1>3 DEF ControlInv, LineOK, AwaitedChangeComes, uart
<1> QED BY <1>1, <1>2, <1>3, <1>4, CarrierMoves DEF uart

LEMMA LineFallsControl ==
  ASSUME ControlInv, LineFalls PROVE ControlInv'
<1>1. /\ cts /\ busy /\ cts' = FALSE /\ busy' = FALSE
      /\ carrier' = [carrier EXCEPT !.at =
                       IF carrier.at = "on_down" THEN AfterByte(carrier.data)
                       ELSE carrier.at]
      /\ UNCHANGED <<server, inbox, client, notifier, sent, put, come, got,
                     aborted>>
  BY DEF LineFalls, irq_uart1
<1>2. carrier \in Carriers /\ sent \in Int
  BY DEF ControlInv, TypeOK
<1>3. carrier.at = "down" \/ carrier.at = "on_down"
  BY <1>1 DEF ControlInv, LineOK
<1>4. /\ carrier' \in Carriers /\ carrier'.data = carrier.data
      /\ carrier'.at = IF carrier.at = "down" THEN "down" ELSE
                         IF carrier.data = <<>> THEN "ask" ELSE "cts"
  BY <1>1, <1>2, <1>3 DEF Carriers, AfterByte
<1>5. LineOK'
  BY <1>1, <1>4 DEF ControlInv, LineOK, AwaitedChangeComes
<1>6. carrier'.at # "server" /\ carrier.at # "server"
  BY <1>3, <1>4
<1>7. cts' \in BOOLEAN /\ busy' \in BOOLEAN /\ sent' \in Int
  BY <1>1, <1>2
<1> QED BY <1>1, <1>4, <1>5, <1>6, <1>7, CarrierMoves

LEMMA LineRisesControl ==
  ASSUME ControlInv, LineRises PROVE ControlInv'
<1>1. /\ ~cts /\ cts' = TRUE
      /\ LINE_IS_SLOW => carrier.at # "down"
      /\ carrier' = [carrier EXCEPT !.at =
                       IF carrier.at = "on_cts" THEN "send" ELSE carrier.at]
      /\ UNCHANGED <<server, inbox, client, notifier, busy, sent, put, come,
                     got, aborted>>
  BY DEF LineRises, irq_uart1
<1>2. carrier \in Carriers /\ sent \in Int /\ busy \in BOOLEAN
  BY DEF ControlInv, TypeOK
<1>3. /\ carrier' \in Carriers /\ carrier'.data = carrier.data
      /\ carrier'.at = IF carrier.at = "on_cts" THEN "send" ELSE carrier.at
  BY <1>1, <1>2 DEF Carriers
<1>4. LineOK'
  BY <1>1, <1>3 DEF ControlInv, LineOK, AwaitedChangeComes
<1> QED BY <1>1, <1>2, <1>3, <1>4, CarrierMoves

LEMMA CarrierAsksControl ==
  ASSUME ControlInv, CarrierAsks PROVE ControlInv'
<1> DEFINE r == Request(CARRIER, CARRIER, <<>>)
<1>1. /\ ~aborted /\ carrier.at = "ask"
      /\ carrier' = [carrier EXCEPT !.at = "server"]
      /\ inbox' = Append(inbox, r)
      /\ UNCHANGED <<server, client, notifier, uart, put, come, got, aborted>>
  BY DEF CarrierAsks
<1>2. TypeOK /\ InboxOK /\ LineOK /\ NobodyWaitsInVain /\ WaitersAreKnown
  BY <1>1 DEF ControlInv
<1>3. /\ r \in Requests /\ r.from = CARRIER /\ r.type = CARRIER
      /\ CARRIER \notin Clients /\ NOTIFIER # CARRIER
  <2>1. <<>> \in Seq(Int)
    OBVIOUS
  <2> QED BY <2>1, ClientsAssumption DEF Request, Requests, CARRIER, NOTIFIER
<1> HIDE DEF r
<1>4. CARRIER \notin Senders
  BY <1>1, <1>2 DEF WaitersAreKnown
<1>5. /\ InboxOK' /\ inbox' \in Seq(Requests)
      /\ Senders' = Senders \cup {CARRIER}
  BY <1>1, <1>2, <1>3, <1>4, InboxGrows
<1>6. /\ carrier' \in Carriers /\ carrier'.data = carrier.data
      /\ carrier'.at = "server"
  BY <1>1, <1>2 DEF TypeOK, Carriers
<1>7. TypeOK'
  BY <1>1, <1>2, <1>5, <1>6 DEF TypeOK, server, uart
<1>8. LineOK'
  BY <1>1, <1>2, <1>6 DEF LineOK, AwaitedChangeComes, uart
<1>9. NobodyWaitsInVain'
  BY <1>1, <1>2, <1>6 DEF NobodyWaitsInVain, server
<1>10. WaitersAreKnown'
  <2>1. send_tid = FALSE
    BY <1>1, <1>2 DEF NobodyWaitsInVain, TypeOK
  <2> QED BY <1>1, <1>2, <1>3, <1>5, <1>6, <2>1 DEF WaitersAreKnown, server
<1> QED BY <1>5, <1>7, <1>8, <1>9, <1>10 DEF ControlInv

-----------------------------------------------------------------------------
(* The steps of the clients, the notifier and the server.                  *)

LEMMA NumberedIs ==
  ASSUME NEW first \in Int, NEW size \in Nat
  PROVE  /\ Numbered(first, size) \in Seq(Int)
         /\ Len(Numbered(first, size)) = size
         /\ \A i \in 1 .. size :
              Numbered(first, size)[i] = Plus(first, i - 1)
<1>1. BYTES \in Nat \ {0}
  BY BytesAssumption, LengthAssumption
<1>2. ASSUME NEW i \in 1 .. size PROVE Plus(first, i - 1) \in Int
  <2>1. first + (i - 1) \in Int
    OBVIOUS
  <2> QED BY <1>1, <2>1, DivMod DEF Plus
<1>3. Numbered(first, size) = [i \in 1 .. size |-> Plus(first, i - 1)]
  BY DEF Numbered
<1> QED BY <1>2, <1>3

LEMMA CallControl ==
  ASSUME ControlInv, NEW c \in Clients, NEW type \in {"put", "get"},
         NEW data \in Seq(Int), Call(c, type, data), put' \in Int
  PROVE  ControlInv'
<1> DEFINE r == Request(type, c, data)
<1>1. /\ ~aborted /\ client[c] = "idle"
      /\ client' = [client EXCEPT ![c] = type]
      /\ inbox' = Append(inbox, r)
      /\ UNCHANGED <<server, carrier, notifier, uart, come, got, aborted>>
  BY DEF Call
<1>2. TypeOK /\ InboxOK /\ LineOK /\ NobodyWaitsInVain /\ WaitersAreKnown
  BY <1>1 DEF ControlInv
<1>3. /\ r \in Requests /\ r.from = c /\ r.type = type
      /\ CARRIER # c /\ NOTIFIER # c
  BY ClientsAssumption DEF Request, Requests
<1> HIDE DEF r
<1>4. c \notin Senders /\ c # get_tid
  BY <1>1, <1>2 DEF WaitersAreKnown
<1>5. /\ client' \in [Clients -> {"idle", "put", "get"}]
      /\ client'[c] = type /\ type # "idle"
      /\ \A d \in Clients : d # c => client'[d] = client[d]
  BY <1>1, <1>2 DEF TypeOK
<1>6. /\ InboxOK' /\ inbox' \in Seq(Requests)
      /\ Senders' = Senders \cup {c}
  BY <1>1, <1>2, <1>3, <1>4, <1>5, InboxGrows
<1>7. TypeOK'
  BY <1>1, <1>2, <1>5, <1>6 DEF TypeOK, server, uart
<1>8. LineOK'
  BY <1>1, <1>2 DEF LineOK, AwaitedChangeComes, uart
<1>9. NobodyWaitsInVain'
  BY <1>1, <1>2, <1>4, <1>5 DEF NobodyWaitsInVain, server, TypeOK
<1>10. WaitersAreKnown'
  BY <1>1, <1>2, <1>3, <1>4, <1>5, <1>6 DEF WaitersAreKnown, server
<1> QED BY <1>6, <1>7, <1>8, <1>9, <1>10 DEF ControlInv

LEMMA PutControl ==
  ASSUME ControlInv, NEW c \in Clients, NEW size \in COMMANDS, Put(c, size)
  PROVE  ControlInv'
<1>1. size \in Nat /\ put \in Int
  BY PayloadAssumption DEF ControlInv, TypeOK
<1>2. Numbered(put, size) \in Seq(Int)
  BY <1>1, NumberedIs
<1>3. put' \in Int
  <2>1. put + size \in Int /\ BYTES \in Nat \ {0}
    BY <1>1, BytesAssumption, LengthAssumption
  <2> QED BY <2>1, DivMod DEF Put, Plus
<1> QED BY <1>2, <1>3, CallControl DEF Put

LEMMA GetControl ==
  ASSUME ControlInv, NEW c \in Clients, NEW size \in GETS, Get(c, size)
  PROVE  ControlInv'
<1>1. size \in Nat /\ 0 \in Int
  BY PayloadAssumption
<1>2. Numbered(0, size) \in Seq(Int)
  BY <1>1, NumberedIs
<1>3. put' \in Int
  BY DEF Get, ControlInv, TypeOK
<1> QED BY <1>2, <1>3, CallControl DEF Get

(* An abort leaves everything but the inbox as it is.                      *)
LEMMA AbortControl ==
  ASSUME ControlInv, aborted' = TRUE,
         InboxOK', inbox' \in Seq(Requests),
         UNCHANGED <<server, client, carrier, notifier, uart, put, come, got>>
  PROVE  ControlInv'
<1>1. TypeOK' /\ LineOK' /\ NobodyWaitsInVain'
  BY DEF ControlInv, TypeOK, LineOK, AwaitedChangeComes, NobodyWaitsInVain,
         server, uart
<1> QED BY <1>1 DEF ControlInv

LEMMA RecvControl ==
  ASSUME ControlInv, irq_uart1_recv PROVE ControlInv'
<1>1. CASE notifier.at = "await"
  <2>1. /\ ~aborted
        /\ notifier' = [at |-> "woken", data |-> Append(notifier.data, come)]
        /\ come' = Plus(come, 1)
        /\ UNCHANGED <<server, inbox, client, carrier, uart, put, got,
                       aborted>>
    BY <1>1 DEF irq_uart1_recv
  <2>2. TypeOK /\ LineOK /\ InboxOK /\ NobodyWaitsInVain /\ WaitersAreKnown
    BY <2>1 DEF ControlInv
  <2>3. come' \in Int
    <3>1. come + 1 \in Int /\ BYTES \in Nat \ {0}
      BY <2>2, BytesAssumption, LengthAssumption DEF TypeOK
    <3> QED BY <2>1, <3>1, DivMod DEF Plus
  <2>4. notifier' \in Notifiers /\ notifier'.at = "woken"
    <3>1. notifier.data \in Seq(Int) /\ come \in Int
      BY <2>2 DEF TypeOK, Notifiers
    <3>2. Append(notifier.data, come) \in Seq(Int)
      BY <3>1
    <3> QED BY <2>1, <3>2 DEF Notifiers
  <2>5. TypeOK'
    BY <2>1, <2>2, <2>3, <2>4 DEF TypeOK, server, uart
  <2>6. LineOK' /\ InboxOK' /\ NobodyWaitsInVain'
    BY <2>1, <2>2 DEF LineOK, AwaitedChangeComes, InboxOK, NobodyWaitsInVain,
                      server, uart
  <2>7. WaitersAreKnown'
    BY <1>1, <2>1, <2>2, <2>4 DEF WaitersAreKnown, Senders, server
  <2> QED BY <2>5, <2>6, <2>7 DEF ControlInv
<1>2. CASE notifier.at # "await"
  <2>1. Abort /\ UNCHANGED inbox
    BY <1>2 DEF irq_uart1_recv
  <2>2. InboxOK' /\ inbox' \in Seq(Requests)
    BY <2>1 DEF Abort, ControlInv, TypeOK, InboxOK
  <2> QED BY <2>1, <2>2, AbortControl DEF Abort
<1> QED BY <1>1, <1>2

LEMMA NotifyControl ==
  ASSUME ControlInv, Notify PROVE ControlInv'
<1> DEFINE r == Request(NOTIFIER, NOTIFIER, notifier.data)
<1>1. /\ ~aborted /\ notifier.at = "woken"
      /\ UNCHANGED <<server, client, carrier, uart, put, come, got, aborted>>
  BY DEF Notify
<1>2. TypeOK /\ InboxOK /\ LineOK /\ NobodyWaitsInVain /\ WaitersAreKnown
  BY <1>1 DEF ControlInv
<1>3. LineOK' /\ NobodyWaitsInVain'
  BY <1>1, <1>2 DEF LineOK, AwaitedChangeComes, NobodyWaitsInVain, server, uart
<1>4. NOTIFIER \notin Senders
  BY <1>1, <1>2 DEF WaitersAreKnown
<1>5. CASE Len(notifier.data) < NOTE
  <2>1. notifier' = [notifier EXCEPT !.at = "await"] /\ inbox' = inbox
    BY <1>5 DEF Notify
  <2>2. notifier' \in Notifiers /\ notifier'.at = "await"
    BY <1>2, <2>1 DEF TypeOK, Notifiers
  <2>3. TypeOK'
    BY <1>1, <1>2, <2>1, <2>2 DEF TypeOK, server, uart
  <2>4. InboxOK' /\ WaitersAreKnown'
    BY <1>1, <1>2, <1>4, <2>1, <2>2
       DEF InboxOK, WaitersAreKnown, Senders, server
  <2> QED BY <1>3, <2>3, <2>4 DEF ControlInv
<1>6. CASE ~(Len(notifier.data) < NOTE)
  <2>1. /\ notifier' = [at |-> "server", data |-> <<>>]
        /\ inbox' = Append(inbox, r)
    BY <1>6 DEF Notify
  <2>2. /\ r \in Requests /\ r.from = NOTIFIER /\ r.type = NOTIFIER
        /\ NOTIFIER \notin Clients /\ NOTIFIER # CARRIER
    <3>1. notifier.data \in Seq(Int)
      BY <1>2 DEF TypeOK, Notifiers
    <3> QED BY <3>1, ClientsAssumption
            DEF Request, Requests, CARRIER, NOTIFIER
  <2> HIDE DEF r
  <2>3. /\ InboxOK' /\ inbox' \in Seq(Requests)
        /\ Senders' = Senders \cup {NOTIFIER}
    BY <1>1, <1>2, <1>4, <2>1, <2>2, InboxGrows
  <2>4. notifier' \in Notifiers /\ notifier'.at = "server"
    <3>1. <<>> \in Seq(Int)
      OBVIOUS
    <3> QED BY <2>1, <3>1 DEF Notifiers
  <2>5. TypeOK'
    BY <1>1, <1>2, <2>3, <2>4 DEF TypeOK, server, uart
  <2>6. WaitersAreKnown'
    BY <1>1, <1>2, <2>2, <2>3, <2>4 DEF WaitersAreKnown, server
  <2> QED BY <1>3, <2>3, <2>5, <2>6 DEF ControlInv
<1> QED BY <1>5, <1>6

LEMMA ChunkIs ==
  ASSUME NEW cb \in Buffers, cb.count \in Offsets
  PROVE  Chunk(cb) \in 0 .. cb.count /\ (Chunk(cb) = 0 => cb.count = 0)
BY PayloadAssumption, LengthAssumption DEF Chunk, cbuf_count, Offsets

(* The carrier that waits is served.                                       *)
LEMMA ServedIs ==
  ASSUME NEW cb \in Buffers, cb.count \in Offsets,
         carrier \in Carriers, carrier.at = "server", ServeCarrier(cb)
  PROVE  /\ train_out' \in Buffers /\ train_out'.count \in Offsets
         /\ carrier' \in Carriers /\ send_tid' \in BOOLEAN
         /\ send_tid' => carrier' = carrier /\ train_out'.count = 0
         /\ ~send_tid' => carrier'.at = "cts" /\ carrier'.data # <<>>
<1> DEFINE out == Consumed(cb, Chunk(cb))
<1>1. Chunk(cb) \in 0 .. cb.count /\ (Chunk(cb) = 0 => cb.count = 0)
  BY ChunkIs
<1>2. CASE Chunk(cb) = 0
  BY <1>1, <1>2 DEF ServeCarrier
<1>3. CASE Chunk(cb) # 0
  <2>1. /\ out.rest \in Buffers /\ out.rest.count \in Offsets
        /\ out.data \in Seq(Int) /\ Len(out.data) = Chunk(cb)
    BY <1>1, ConsumedIs
  <2>2. out.data # <<>>
    BY <1>3, <2>1
  <2>3. /\ train_out' = out.rest /\ send_tid' = FALSE
        /\ carrier' = [at |-> "cts", data |-> out.data]
    BY <1>3 DEF ServeCarrier
  <2> HIDE DEF out
  <2>4. /\ carrier' \in Carriers /\ carrier'.at = "cts"
        /\ carrier'.data = out.data
    BY <2>1, <2>3 DEF Carriers
  <2> QED BY <2>1, <2>2, <2>3, <2>4
<1> QED BY <1>2, <1>3

(* A client's request is answered.                                         *)
LEMMA DeliveredIs ==
  ASSUME NEW cb \in Buffers, cb.count \in Offsets, NEW size \in 0 .. cb.count,
         NEW c \in Clients, got \in Int,
         client \in [Clients -> {"idle", "put", "get"}],
         ts_deliver_request(cb, c, size)
  PROVE  /\ train_in' \in Buffers /\ train_in'.count \in Offsets
         /\ train_in'.count = cb.count - size
         /\ client' \in [Clients -> {"idle", "put", "get"}]
         /\ client'[c] = "idle"
         /\ \A d \in Clients : d # c => client'[d] = client[d]
         /\ got' \in Int
<1>1. /\ train_in' = Consumed(cb, size).rest
      /\ client' = [client EXCEPT ![c] = "idle"]
      /\ got' = Plus(got, size) \/ got' = BYTES
  BY DEF ts_deliver_request
<1>2. /\ Consumed(cb, size).rest \in Buffers
      /\ Consumed(cb, size).rest.count \in Offsets
      /\ Consumed(cb, size).rest.count = cb.count - size
  BY ConsumedIs
<1>3. got' \in Int
  <2>1. got + size \in Int /\ BYTES \in Nat \ {0}
    BY BytesAssumption, LengthAssumption DEF Offsets
  <2>2. (got + size) % BYTES \in 0 .. BYTES - 1
    BY <2>1, DivMod
  <2> QED BY <1>1, <2>1, <2>2 DEF Plus
<1> QED BY <1>1, <1>2, <1>3

LEMMA ReceiveCarrierControl ==
  ASSUME ControlInv, ReceiveCarrier PROVE ControlInv'
<1>1. /\ ~aborted /\ inbox # <<>> /\ Received.type = CARRIER
      /\ inbox' = Tail(inbox)
  BY DEF ReceiveCarrier, Receive, Received
<1>2. TypeOK /\ InboxOK /\ LineOK /\ NobodyWaitsInVain /\ WaitersAreKnown
  BY <1>1 DEF ControlInv
<1>3. Received.from = CARRIER /\ CARRIER \in Senders
  <2>1. /\ Received \in Requests /\ Received.from \in Senders
        /\ Received.type = IF Received.from \in Clients
                           THEN client[Received.from] ELSE Received.from
    BY <1>1, <1>2, ReceivedIs
  <2> QED BY <1>1, <1>2, <2>1 DEF TypeOK, Requests, CARRIER, NOTIFIER
<1>4. carrier.at = "server" /\ ~send_tid
  BY <1>2, <1>3 DEF WaitersAreKnown
<1>5. /\ ServeCarrier(train_out)
      /\ UNCHANGED <<train_in, get_tid, get_expecting, client, notifier, uart,
                     put, come, got, aborted>>
  BY <1>4 DEF ReceiveCarrier
<1>6. /\ InboxOK' /\ inbox' \in Seq(Requests)
      /\ Senders' = Senders \ {CARRIER}
  BY <1>1, <1>2, <1>3, <1>5, InboxShrinks
<1>7. /\ train_out' \in Buffers /\ train_out'.count \in Offsets
      /\ carrier' \in Carriers /\ send_tid' \in BOOLEAN
      /\ send_tid' => carrier' = carrier /\ train_out'.count = 0
      /\ ~send_tid' => carrier'.at = "cts" /\ carrier'.data # <<>>
  BY <1>2, <1>4, <1>5, ServedIs DEF TypeOK
<1>8. TypeOK'
  BY <1>2, <1>5, <1>6, <1>7 DEF TypeOK, uart
<1>9. LineOK'
  BY <1>2, <1>4, <1>5, <1>7 DEF LineOK, AwaitedChangeComes, uart
<1>10. NobodyWaitsInVain'
  BY <1>2, <1>4, <1>5, <1>7 DEF NobodyWaitsInVain, cbuf_count
<1>11. WaitersAreKnown'
  <2>1. CARRIER \notin Clients /\ CARRIER # NOTIFIER
    BY ClientsAssumption DEF CARRIER, NOTIFIER
  <2> QED BY <1>2, <1>4, <1>5, <1>6, <1>7, <2>1 DEF WaitersAreKnown
<1> QED BY <1>6, <1>8, <1>9, <1>10, <1>11 DEF ControlInv

(* A client's request is received.                                         *)
LEMMA FromClient ==
  ASSUME TypeOK, InboxOK, NEW type \in {"put", "get"}, Receive(type)
  PROVE  /\ Received.from \in Clients /\ Received.from \in Senders
         /\ client[Received.from] = type
         /\ Received.data \in Seq(Int)
<1>1. inbox # <<>> /\ Received.type = type
  BY DEF Receive, Received
<1>2. /\ Received \in Requests /\ Received.from \in Senders
      /\ Received.type = IF Received.from \in Clients
                         THEN client[Received.from] ELSE Received.from
  BY <1>1, ReceivedIs
<1> QED BY <1>1, <1>2 DEF Requests, CARRIER, NOTIFIER

LEMMA ReceivePutControl ==
  ASSUME ControlInv, ReceivePut PROVE ControlInv'
<1> DEFINE c == Received.from
           cb == Produced(train_out, Received.data)
<1>1. /\ ~aborted /\ inbox # <<>> /\ Receive("put") /\ inbox' = Tail(inbox)
      /\ client' = [client EXCEPT ![c] = "idle"]
      /\ PutInto(cb)
      /\ UNCHANGED <<train_in, get_tid, get_expecting, notifier, uart, put,
                     come, got, aborted>>
  BY DEF ReceivePut, Receive
<1>2. TypeOK /\ InboxOK /\ LineOK /\ NobodyWaitsInVain /\ WaitersAreKnown
  BY <1>1 DEF ControlInv
<1>3. /\ c \in Clients /\ c \in Senders /\ Received.data \in Seq(Int)
      /\ CARRIER # c /\ NOTIFIER # c
  BY <1>1, <1>2, FromClient, ClientsAssumption
<1>4. cb \in Buffers /\ cb.count \in Offsets
  BY <1>2, <1>3, ProducedIs DEF TypeOK
<1> HIDE DEF cb
<1>5. c # get_tid
  BY <1>2, <1>3 DEF WaitersAreKnown
<1>6. /\ client' \in [Clients -> {"idle", "put", "get"}]
      /\ client'[c] = "idle"
      /\ \A d \in Clients : d # c => client'[d] = client[d]
  BY <1>1, <1>2, <1>3 DEF TypeOK
<1> HIDE DEF c
<1>7. /\ InboxOK' /\ inbox' \in Seq(Requests)
      /\ Senders' = Senders \ {c}
  BY <1>1, <1>2, <1>6, InboxShrinks DEF c
<1>8. /\ train_out' \in Buffers /\ train_out'.count \in Offsets
      /\ carrier' \in Carriers /\ send_tid' \in BOOLEAN
      /\ IF send_tid
         THEN /\ send_tid' => carrier' = carrier /\ train_out'.count = 0
              /\ ~send_tid' => carrier'.at = "cts" /\ carrier'.data # <<>>
         ELSE ~send_tid' /\ carrier' = carrier
  <2>1. CASE send_tid
    <3>1. carrier.at = "server" /\ ServeCarrier(cb)
      BY <1>1, <1>2, <2>1 DEF NobodyWaitsInVain, PutInto
    <3> QED BY <1>2, <1>4, <2>1, <3>1, ServedIs DEF TypeOK
  <2>2. CASE ~send_tid
    BY <1>1, <1>2, <1>4, <2>2 DEF PutInto, TypeOK
  <2> QED BY <2>1, <2>2
<1>9. send_tid => carrier.at = "server"
  BY <1>2 DEF NobodyWaitsInVain
<1>10. TypeOK'
  BY <1>1, <1>2, <1>6, <1>7, <1>8 DEF TypeOK, uart
<1>11. LineOK'
  BY <1>1, <1>2, <1>8, <1>9 DEF LineOK, AwaitedChangeComes, uart
<1>12. NobodyWaitsInVain'
  <2>1. send_tid' => carrier'.at = "server" /\ train_out'.count = 0
    BY <1>8, <1>9
  <2>2. get_tid # NOBODY => get_tid \in Clients /\ client'[get_tid] = "get"
    BY <1>2, <1>5, <1>6 DEF NobodyWaitsInVain, TypeOK
  <2> QED BY <1>1, <1>2, <2>1, <2>2 DEF NobodyWaitsInVain, cbuf_count
<1>13. WaitersAreKnown'
  BY <1>1, <1>2, <1>3, <1>5, <1>6, <1>7, <1>8, <1>9 DEF WaitersAreKnown
<1> QED BY <1>7, <1>10, <1>11, <1>12, <1>13 DEF ControlInv

LEMMA ReceiveGetControl ==
  ASSUME ControlInv, ReceiveGet PROVE ControlInv'
<1> DEFINE c == Received.from
           size == Len(Received.data)
<1>1. /\ ~aborted /\ inbox # <<>> /\ Receive("get") /\ inbox' = Tail(inbox)
      /\ UNCHANGED <<train_out, send_tid, carrier, notifier, uart, put, come>>
  BY DEF ReceiveGet, Receive
<1>2. TypeOK /\ InboxOK /\ LineOK /\ NobodyWaitsInVain /\ WaitersAreKnown
  BY <1>1 DEF ControlInv
<1>3. /\ c \in Clients /\ c \in Senders /\ client[c] = "get"
      /\ Received.data \in Seq(Int) /\ size \in Nat
      /\ CARRIER # c /\ NOTIFIER # c
  <2>1. /\ c \in Clients /\ c \in Senders /\ client[c] = "get"
        /\ Received.data \in Seq(Int)
    BY <1>1, <1>2, FromClient
  <2> QED BY <2>1, ClientsAssumption, LenProperties
<1>4. c # get_tid /\ train_in.count \in Nat
  BY <1>2, <1>3, LengthAssumption DEF WaitersAreKnown, TypeOK, Offsets
<1>5. \/ /\ train_in.count >= size
         /\ ts_deliver_request(train_in, c, size)
         /\ UNCHANGED <<get_tid, get_expecting, aborted>>
      \/ /\ train_in.count < size
         /\ get_tid = NOBODY /\ get_tid' = c /\ get_expecting' = size
         /\ UNCHANGED <<train_in, client, got, aborted>>
      \/ /\ aborted' = TRUE
         /\ UNCHANGED <<get_tid, get_expecting, train_in, client, got>>
  BY DEF ReceiveGet, PlaceFree, cbuf_count
<1> HIDE DEF c, size
<1>6. LineOK'
  BY <1>1, <1>2 DEF LineOK, AwaitedChangeComes, uart
<1>7. CASE /\ train_in.count >= size
           /\ ts_deliver_request(train_in, c, size)
           /\ UNCHANGED <<get_tid, get_expecting, aborted>>
  <2>1. size \in 0 .. train_in.count
    BY <1>3, <1>4, <1>7
  <2>2. /\ train_in' \in Buffers /\ train_in'.count \in Offsets
        /\ train_in'.count = train_in.count - size
        /\ client' \in [Clients -> {"idle", "put", "get"}]
        /\ client'[c] = "idle"
        /\ \A d \in Clients : d # c => client'[d] = client[d]
        /\ got' \in Int
    BY <1>2, <1>3, <1>7, <2>1, DeliveredIs DEF TypeOK
  <2>3. /\ InboxOK' /\ inbox' \in Seq(Requests)
        /\ Senders' = Senders \ {c}
    BY <1>1, <1>2, <2>2, InboxShrinks DEF c
  <2>4. TypeOK'
    BY <1>1, <1>2, <1>7, <2>2, <2>3 DEF TypeOK, uart
  <2>5. NobodyWaitsInVain'
    <3>1. get_tid # NOBODY =>
            /\ get_tid \in Clients /\ client'[get_tid] = "get"
            /\ train_in'.count < get_expecting
      BY <1>2, <1>3, <1>4, <2>2 DEF NobodyWaitsInVain, TypeOK, cbuf_count
    <3> QED BY <1>1, <1>2, <1>7, <3>1 DEF NobodyWaitsInVain, cbuf_count
  <2>6. WaitersAreKnown'
    BY <1>1, <1>2, <1>3, <1>4, <1>7, <2>2, <2>3 DEF WaitersAreKnown
  <2> QED BY <1>6, <2>3, <2>4, <2>5, <2>6 DEF ControlInv
<1>8. CASE UNCHANGED client
  <2>1. /\ InboxOK' /\ inbox' \in Seq(Requests)
        /\ Senders' = Senders \ {c}
    BY <1>1, <1>2, <1>8, InboxShrinks DEF c
  <2>2. CASE /\ train_in.count < size
             /\ get_tid = NOBODY /\ get_tid' = c /\ get_expecting' = size
             /\ UNCHANGED <<train_in, client, got, aborted>>
    <3>1. TypeOK'
      BY <1>1, <1>2, <1>3, <2>1, <2>2 DEF TypeOK, uart
    <3>2. NobodyWaitsInVain'
      BY <1>1, <1>2, <1>3, <2>2 DEF NobodyWaitsInVain, cbuf_count
    <3>3. WaitersAreKnown'
      <4>1. NOBODY \notin Clients
        BY ClientsAssumption
      <4> QED BY <1>1, <1>2, <1>3, <2>1, <2>2, <4>1 DEF WaitersAreKnown
    <3> QED BY <1>6, <2>1, <3>1, <3>2, <3>3 DEF ControlInv
  <2>3. CASE /\ aborted' = TRUE
             /\ UNCHANGED <<get_tid, get_expecting, train_in, client, got>>
    BY <1>1, <2>1, <2>3, AbortControl DEF server
  <2>4. CASE /\ train_in.count >= size
             /\ ts_deliver_request(train_in, c, size)
             /\ UNCHANGED <<get_tid, get_expecting, aborted>>
    BY <1>7, <2>4
  <2> QED BY <1>5, <2>2, <2>3, <2>4
<1> QED BY <1>5, <1>7, <1>8

LEMMA ReceiveNotifyControl ==
  ASSUME ControlInv, ReceiveNotify PROVE ControlInv'
<1> DEFINE after == Produced(train_in, Received.data)
<1>1. /\ ~aborted /\ inbox # <<>> /\ Received.type = NOTIFIER
      /\ inbox' = Tail(inbox)
      /\ notifier' = [notifier EXCEPT !.at = "await"]
      /\ IF Enough(after)
         THEN /\ ts_deliver_request(after, get_tid, get_expecting)
              /\ get_tid' = NOBODY
              /\ get_expecting' = 0
         ELSE /\ train_in' = after
              /\ UNCHANGED <<get_tid, get_expecting, client, got>>
      /\ UNCHANGED <<train_out, send_tid, carrier, uart, put, come, aborted>>
  BY DEF ReceiveNotify, Receive, Received
<1>2. TypeOK /\ InboxOK /\ LineOK /\ NobodyWaitsInVain /\ WaitersAreKnown
  BY <1>1 DEF ControlInv
<1>3. /\ Received.from = NOTIFIER /\ NOTIFIER \in Senders
      /\ Received.data \in Seq(Int)
  <2>1. /\ Received \in Requests /\ Received.from \in Senders
        /\ Received.type = IF Received.from \in Clients
                           THEN client[Received.from] ELSE Received.from
    BY <1>1, <1>2, ReceivedIs
  <2> QED BY <1>1, <1>2, <2>1 DEF TypeOK, Requests, CARRIER, NOTIFIER
<1>4. after \in Buffers /\ after.count \in Offsets
  BY <1>2, <1>3, ProducedIs DEF TypeOK
<1> HIDE DEF after
<1>5. notifier' \in Notifiers /\ notifier'.at = "await"
  BY <1>1, <1>2 DEF TypeOK, Notifiers
<1>6. LineOK'
  BY <1>1, <1>2 DEF LineOK, AwaitedChangeComes, uart
<1>7. NOTIFIER \notin Clients /\ NOTIFIER # CARRIER /\ NOBODY \notin Clients
  BY ClientsAssumption DEF NOTIFIER, CARRIER
<1>8. CASE Enough(after)
  <2> DEFINE c == get_tid
  <2>1. /\ c \in Clients /\ get_expecting \in Nat
        /\ after.count >= get_expecting /\ after.count \in Nat
    BY <1>2, <1>4, <1>8, LengthAssumption
       DEF Enough, TypeOK, cbuf_count, Offsets
  <2>2. get_expecting \in 0 .. after.count
    BY <2>1
  <2>3. /\ train_in' \in Buffers /\ train_in'.count \in Offsets
        /\ client' \in [Clients -> {"idle", "put", "get"}]
        /\ client'[c] = "idle"
        /\ \A d \in Clients : d # c => client'[d] = client[d]
        /\ got' \in Int
    BY <1>1, <1>2, <1>4, <1>8, <2>1, <2>2, DeliveredIs DEF TypeOK
  <2>4. c \notin Senders
    BY <1>2, <2>1 DEF WaitersAreKnown
  <2>5. /\ InboxOK' /\ inbox' \in Seq(Requests)
        /\ Senders' = Senders \ {NOTIFIER}
    BY <1>1, <1>2, <1>3, <2>3, <2>4, InboxShrinks
  <2>6. get_tid' = NOBODY /\ get_expecting' = 0
    BY <1>1, <1>8
  <2>7. TypeOK'
    BY <1>1, <1>2, <1>5, <2>3, <2>5, <2>6 DEF TypeOK, uart
  <2>8. NobodyWaitsInVain'
    BY <1>1, <1>2, <2>6 DEF NobodyWaitsInVain
  <2>9. WaitersAreKnown'
    BY <1>1, <1>2, <1>5, <1>7, <2>1, <2>3, <2>4, <2>5, <2>6
       DEF WaitersAreKnown
  <2> QED BY <1>6, <2>5, <2>7, <2>8, <2>9 DEF ControlInv
<1>9. CASE ~Enough(after)
  <2>1. train_in' = after /\ UNCHANGED <<get_tid, get_expecting, client, got>>
    BY <1>1, <1>9
  <2>2. /\ InboxOK' /\ inbox' \in Seq(Requests)
        /\ Senders' = Senders \ {NOTIFIER}
    BY <1>1, <1>2, <1>3, <2>1, InboxShrinks
  <2>3. TypeOK'
    BY <1>1, <1>2, <1>4, <1>5, <2>1, <2>2 DEF TypeOK, uart
  <2>4. get_tid # NOBODY => after.count < get_expecting
    BY <1>2, <1>4, <1>9, LengthAssumption
       DEF Enough, cbuf_count, TypeOK, Offsets
  <2>5. NobodyWaitsInVain'
    BY <1>1, <1>2, <2>1, <2>4 DEF NobodyWaitsInVain, cbuf_count
  <2>6. WaitersAreKnown'
    BY <1>1, <1>2, <1>5, <1>7, <2>1, <2>2 DEF WaitersAreKnown
  <2> QED BY <1>6, <2>2, <2>3, <2>5, <2>6 DEF ControlInv
<1> QED BY <1>8, <1>9

LEMMA ControlStep == ControlInv /\ [Next]_vars => ControlInv'
<1> SUFFICES ASSUME ControlInv, [Next]_vars PROVE ControlInv'
  OBVIOUS
<1>1. CASE UNCHANGED vars
  BY <1>1 DEF vars, server, uart, ControlInv, TypeOK, LineOK,
              AwaitedChangeComes, InboxOK, NobodyWaitsInVain,
              WaitersAreKnown, Senders
<1>2. CASE \E c \in Clients, size \in COMMANDS : Put(c, size)
  BY <1>2, PutControl
<1>3. CASE \E c \in Clients, size \in GETS : Get(c, size)
  BY <1>3, GetControl
<1>4. CASE Server
  BY <1>4, ReceiveCarrierControl, ReceivePutControl, ReceiveGetControl,
     ReceiveNotifyControl DEF Server
<1>5. CASE Carrier
  BY <1>5, CarrierAsksControl, AwaitCtsControl, SendControl, AwaitDownControl
     DEF Carrier
<1>6. CASE Line
  BY <1>6, LineFallsControl, LineRisesControl DEF Line
<1>7. CASE irq_uart1_recv
  BY <1>7, RecvControl
<1>8. CASE Notify
  BY <1>8, NotifyControl
<1> QED BY <1>1, <1>2, <1>3, <1>4, <1>5, <1>6, <1>7, <1>8 DEF Next

LEMMA ControlIsKept == Spec => []ControlInv
BY ControlInit, ControlStep, PTL DEF Spec

(* Neither the carrier nor a client is kept waiting for what the server    *)
(* has, and no request makes the server forget who waits.                  *)
THEOREM NobodyIsKeptInVain == Spec => []NobodyWaitsInVain
<1>1. ControlInv => NobodyWaitsInVain
  BY DEF ControlInv
<1> QED BY <1>1, ControlIsKept, PTL

(* If the line, once down, stays down until the carrier awaits UART1_DOWN, *)
(* the change of the line for which the carrier waits has not happened     *)
(* yet.  The other theorems do not assume this of the line.                *)
THEOREM LineIsNotMissed ==
  ASSUME LINE_IS_SLOW
  PROVE  Spec => []AwaitedChangeComes
<1>1. ControlInv => AwaitedChangeComes
  BY DEF ControlInv, LineOK
<1> QED BY <1>1, ControlIsKept, PTL

(* A byte is written to the train only when the line is up and has         *)
(* answered the byte before.                                               *)
THEOREM LineAnswersEachByte == Spec => OneByteAtATime
<1>1. ControlInv /\ [Next]_vars => [sent' # sent => cts /\ ~busy]_vars
  <2> SUFFICES ASSUME ControlInv, Next, sent' # sent PROVE cts /\ ~busy
    BY DEF vars, uart
  <2>1. irq_uart1_send
    BY DEF Next, Put, Get, Call, Server, ReceiveCarrier, ReceivePut,
           ReceiveGet, ReceiveNotify, Carrier, CarrierAsks, AwaitCts,
           AwaitDown, CarrierGoes, Line, LineFalls, LineRises,
           irq_uart1_recv, Notify, Abort, uart
  <2> QED BY <2>1 DEF irq_uart1_send, ControlInv, LineOK
<1> QED BY <1>1, ControlIsKept, PTL DEF Spec, OneByteAtATime

(* A client that waits has one request, in the inbox or kept by the server,*)
(* and an idle one has none.                                               *)
THEOREM CallsAreKept == Spec => []EveryCallIsKept
<1>1. ASSUME ControlInv, ~aborted, NEW c \in Clients
      PROVE  LET requests == {i \in DOMAIN inbox : inbox[i].from = c}
             IN  Cardinality(requests) + (IF get_tid = c THEN 1 ELSE 0)
                   = IF client[c] = "idle" THEN 0 ELSE 1
  <2> DEFINE requests == {i \in DOMAIN inbox : inbox[i].from = c}
  <2>1. InboxOK /\ WaitersAreKnown
    BY <1>1 DEF ControlInv
  <2>2. CASE c \in Senders
    <3>1. PICK i \in DOMAIN inbox : inbox[i].from = c
      BY <2>2 DEF Senders
    <3>2. requests = {i}
      BY <2>1, <3>1 DEF InboxOK
    <3>3. Cardinality(requests) = 1
      BY <3>2, FS_Singleton
    <3> HIDE DEF requests
    <3>4. get_tid # c /\ client[c] # "idle"
      BY <2>1, <2>2 DEF WaitersAreKnown
    <3> QED BY <3>3, <3>4 DEF requests
  <2>3. CASE c \notin Senders
    <3>1. requests = {}
      BY <2>3 DEF Senders
    <3>2. Cardinality(requests) = 0
      BY <3>1, FS_EmptySet
    <3> HIDE DEF requests
    <3>3. client[c] # "idle" <=> get_tid = c
      BY <2>1, <2>3 DEF WaitersAreKnown
    <3> QED BY <3>2, <3>3 DEF requests
  <2> QED BY <2>2, <2>3
<1>2. ControlInv => EveryCallIsKept
  BY <1>1 DEF EveryCallIsKept
<1> QED BY <1>2, ControlIsKept, PTL


-----------------------------------------------------------------------------
(* The bytes on their way.                                                 *)

(* The bytes of a string, and of a buffer, are those from position n on.   *)
Carries(data, n) == \A k \in DOMAIN data : data[k] = Number(n + k - 1)
Holds(cb, n) ==
  /\ Proper(cb)
  /\ \A i \in 0 .. cb.count - 1 : At(cb, i) = Number(n + i)

(* The bytes that a request brings to the train.                           *)
Load(r) == IF r.type = "put" THEN Len(r.data) ELSE 0

(* The train has got n bytes of the m that were put.  The carrier has the  *)
(* next ones, the buffer those after them, and each put in the inbox those *)
(* from its position at[i] on.                                             *)
Queued(n, m, at) ==
  /\ n \in Nat /\ m \in Nat /\ m < n + LENGTH
  /\ sent = Number(n) /\ put = Number(m)
  /\ Carries(carrier.data, n)
  /\ Holds(train_out, n + Len(carrier.data))
  /\ at \in [1 .. Len(inbox) + 1 -> 0 .. m]
  /\ at[1] = n + Len(carrier.data) + train_out.count
  /\ at[Len(inbox) + 1] = m
  /\ \A i \in DOMAIN inbox :
       /\ at[i + 1] = at[i] + Load(inbox[i])
       /\ inbox[i].type = "put" => Carries(inbox[i].data, at[i])

CommandInv ==
  /\ CommandsInOrder
  /\ ~aborted => \E n, m, at : Queued(n, m, at)

(* h bytes have come and g of them were got.  The buffer has those that    *)
(* follow, and the notifier, or its notice in the inbox, the rest.         *)
Brought(g, h) ==
  /\ g \in Nat /\ h \in Nat /\ g + train_in.count <= h /\ h < g + LENGTH
  /\ got = Number(g) /\ come = Number(h)
  /\ Holds(train_in, g)
  /\ notifier.at = "server" => notifier.data = <<>>
  /\ notifier.at # "server" =>
       /\ h = g + train_in.count + Len(notifier.data)
       /\ Carries(notifier.data, g + train_in.count)
  /\ \A i \in DOMAIN inbox : inbox[i].type = NOTIFIER =>
       /\ h = g + train_in.count + Len(inbox[i].data)
       /\ Carries(inbox[i].data, g + train_in.count)

AnswerInv ==
  /\ AnswersInOrder
  /\ ~aborted => \E g, h : Brought(g, h)

(* The number of bytes between two positions.                              *)
LEMMA NumbersApart ==
  ASSUME NEW n \in Nat, NEW m \in Nat, n <= m, m < n + LENGTH
  PROVE  (Number(m) - Number(n)) % BYTES = m - n
<1>0. BYTES \in Nat \ {0} /\ LENGTH \in Nat /\ LENGTH < BYTES
  BY BytesAssumption, LengthAssumption
<1> DEFINE q == (n \div BYTES) - (m \div BYTES)
           a == Number(m) - Number(n)
<1>1. /\ n = BYTES * (n \div BYTES) + (n % BYTES) /\ n \div BYTES \in Int
      /\ m = BYTES * (m \div BYTES) + (m % BYTES) /\ m \div BYTES \in Int
      /\ n % BYTES \in Int /\ m % BYTES \in Int
  BY <1>0, DivMod
<1>2. a = BYTES * q + (m - n) /\ a \in Int /\ q \in Int
  BY <1>0, <1>1, Z3 DEF Number
<1>3. m - n \in 0 .. BYTES - 1
  BY <1>0
<1> HIDE DEF a, q
<1>4. a % BYTES = m - n
  BY <1>0, <1>2, <1>3, ModIs
<1> QED BY <1>4 DEF a

(* What a buffer with the bytes from n on holds when a string that follows *)
(* them has gone in.                                                       *)
LEMMA ProducedHolds ==
  ASSUME NEW cb, NEW n \in Nat, NEW data \in Seq(Int), Holds(cb, n),
         Carries(data, n + cb.count), cb.count + Len(data) < LENGTH
  PROVE  /\ Holds(Produced(cb, data), n)
         /\ Produced(cb, data).count = cb.count + Len(data)
<1> DEFINE new == Produced(cb, data)
<1>1. cb \in Buffers /\ cb.count \in Offsets /\ Proper(cb)
  BY DEF Holds, Proper
<1>2. /\ Proper(new) /\ new.count = cb.count + Len(data)
      /\ \A i \in 0 .. cb.count - 1 : At(new, i) = At(cb, i)
      /\ \A j \in 1 .. Len(data) : At(new, cb.count + j - 1) = data[j]
  BY <1>1, ProducedIs
<1>3. cb.count \in Nat /\ Len(data) \in Nat /\ DOMAIN data = 1 .. Len(data)
  BY <1>1, LengthAssumption, LenProperties DEF Offsets
<1> HIDE DEF new
<1>4. ASSUME NEW i \in 0 .. new.count - 1 PROVE At(new, i) = Number(n + i)
  <2>1. CASE i < cb.count
    <3>1. i \in 0 .. cb.count - 1
      BY <1>3, <2>1
    <3> QED BY <1>2, <3>1 DEF Holds
  <2>2. CASE ~(i < cb.count)
    <3> DEFINE k == cb.count
               l == Len(data)
               j == i - k + 1
    <3>1. /\ j \in 1 .. Len(data) /\ cb.count + j - 1 = i
          /\ (n + cb.count) + j - 1 = n + i
      <4>1. i \in 0 .. (k + l) - 1 /\ k \in Nat /\ l \in Nat /\ i >= k
        BY <1>2, <1>3, <2>2
      <4> HIDE DEF k, l
      <4>2. j \in 1 .. l /\ k + j - 1 = i /\ (n + k) + j - 1 = n + i
        BY <4>1
      <4> QED BY <4>2 DEF k, l
    <3>2. data[j] = Number((n + cb.count) + j - 1)
      BY <1>3, <3>1 DEF Carries
    <3> HIDE DEF j, k, l
    <3> QED BY <1>2, <3>1, <3>2
  <2> QED BY <2>1, <2>2
<1> QED BY <1>2, <1>4 DEF Holds, new

(* And what it holds, and what has come out, when the oldest have gone.    *)
LEMMA ConsumedHolds ==
  ASSUME NEW cb, NEW n \in Nat, Holds(cb, n), NEW size \in 0 .. cb.count
  PROVE  LET c == Consumed(cb, size)
         IN  /\ Holds(c.rest, n + size) /\ c.rest.count = cb.count - size
             /\ Carries(c.data, n) /\ Len(c.data) = size
             /\ c.data \in Seq(Int)
<1> DEFINE c == Consumed(cb, size)
<1>1. cb \in Buffers /\ cb.count \in Offsets /\ Proper(cb)
  BY DEF Holds, Proper
<1>2. /\ c.rest.count = cb.count - size
      /\ Proper(c.rest)
      /\ \A i \in 0 .. cb.count - size - 1 : At(c.rest, i) = At(cb, i + size)
      /\ c.data \in Seq(Int) /\ Len(c.data) = size
      /\ \A j \in 1 .. size : c.data[j] = At(cb, j - 1)
  BY <1>1, ConsumedIs
<1>3. cb.count \in Nat /\ size \in Nat /\ size <= cb.count
  BY <1>1, LengthAssumption DEF Offsets
<1> HIDE DEF c
<1>4. ASSUME NEW i \in 0 .. c.rest.count - 1
      PROVE  At(c.rest, i) = Number((n + size) + i)
  <2>1. /\ i \in 0 .. cb.count - size - 1 /\ i + size \in 0 .. cb.count - 1
        /\ n + (i + size) = (n + size) + i
    BY <1>2, <1>3
  <2>2. At(cb, i + size) = Number(n + (i + size))
    BY <2>1 DEF Holds
  <2> QED BY <1>2, <2>1, <2>2
<1>5. ASSUME NEW j \in DOMAIN c.data PROVE c.data[j] = Number(n + j - 1)
  <2>1. /\ j \in 1 .. size /\ j - 1 \in 0 .. cb.count - 1
        /\ n + (j - 1) = n + j - 1
    BY <1>2, <1>3, LenProperties
  <2>2. At(cb, j - 1) = Number(n + (j - 1))
    BY <2>1 DEF Holds
  <2> QED BY <1>2, <2>1, <2>2
<1> QED BY <1>2, <1>4, <1>5 DEF Holds, Carries, c

-----------------------------------------------------------------------------
(* The bytes for the train.                                                *)

LEMMA QueuedIs ==
  ASSUME TypeOK, NEW n, NEW m, NEW at, Queued(n, m, at)
  PROVE  /\ Len(carrier.data) \in Nat /\ train_out.count \in Nat
         /\ carrier.data \in Seq(Int)
         /\ Len(inbox) \in Nat /\ DOMAIN inbox = 1 .. Len(inbox)
         /\ \A i \in 1 .. Len(inbox) + 1 : at[i] \in 0 .. m
         /\ n <= m
<1>1. /\ Len(carrier.data) \in Nat /\ train_out.count \in Nat
      /\ carrier.data \in Seq(Int)
  <2>1. carrier.data \in Seq(Int)
    BY DEF TypeOK, Carriers
  <2> QED BY <2>1, LengthAssumption, LenProperties DEF TypeOK, Offsets
<1>2. Len(inbox) \in Nat /\ DOMAIN inbox = 1 .. Len(inbox)
  BY LenProperties DEF TypeOK
<1>3. \A i \in 1 .. Len(inbox) + 1 : at[i] \in 0 .. m
  BY DEF Queued
<1>4. n <= m
  <2>1. 1 \in 1 .. Len(inbox) + 1
    BY <1>2
  <2>2. at[1] \in 0 .. m /\ at[1] = n + Len(carrier.data) + train_out.count
    BY <1>3, <2>1 DEF Queued
  <2> QED BY <1>1, <2>2 DEF Queued
<1> QED BY <1>1, <1>2, <1>3, <1>4

(* The steps that touch no byte for the train.                             *)
LEMMA QueuedStays ==
  ASSUME NEW n, NEW m, NEW at, Queued(n, m, at), carrier'.data = carrier.data,
         UNCHANGED <<sent, put, train_out, inbox>>
  PROVE  Queued(n, m, at)'
BY DEF Queued

(* A request arrives.                                                      *)
LEMMA QueuedGrows ==
  ASSUME TypeOK, NEW n, NEW m, NEW at, Queued(n, m, at),
         NEW r \in Requests, inbox' = Append(inbox, r),
         r.type = "put" => Carries(r.data, m),
         put' = Number(m + Load(r)), m + Load(r) < n + LENGTH,
         carrier'.data = carrier.data, UNCHANGED <<sent, train_out>>
  PROVE  \E new : Queued(n, m + Load(r), new)'
<1> DEFINE l == Len(inbox)
           k == Load(r)
<1>1. /\ l \in Nat /\ DOMAIN inbox = 1 .. l
      /\ \A i \in 1 .. l + 1 : at[i] \in 0 .. m
      /\ n \in Nat /\ m \in Nat
  BY QueuedIs DEF Queued
<1>2. k \in Nat
  <2>1. r.data \in Seq(Int)
    BY DEF Requests
  <2> QED BY <2>1, LenProperties DEF Load
<1>3. /\ Len(inbox') = l + 1 /\ DOMAIN inbox' = 1 .. l + 1
      /\ inbox'[l + 1] = r
      /\ \A i \in 1 .. l : inbox'[i] = inbox[i]
  BY <1>1, AppendIs DEF TypeOK
<1> HIDE DEF l, k
<1>4. PICK new :
        new = [i \in 1 .. (l + 1) + 1 |-> IF i = l + 2 THEN m + k ELSE at[i]]
  OBVIOUS
<1>5. /\ \A i \in 1 .. l + 1 : new[i] = at[i]
      /\ new[l + 2] = m + k
  <2>1. \A i \in 1 .. l + 1 : i \in 1 .. (l + 1) + 1 /\ i # l + 2
    BY <1>1
  <2>2. l + 2 \in 1 .. (l + 1) + 1
    BY <1>1
  <2> QED BY <1>4, <2>1, <2>2
<1>6. new \in [1 .. Len(inbox') + 1 -> 0 .. m + k]
  <2>1. ASSUME NEW i \in 1 .. (l + 1) + 1
        PROVE  (IF i = l + 2 THEN m + k ELSE at[i]) \in 0 .. m + k
    <3>1. CASE i = l + 2
      BY <1>1, <1>2, <3>1
    <3>2. CASE i # l + 2
      <4>1. at[i] \in 0 .. m
        BY <1>1, <3>2
      <4> QED BY <1>1, <1>2, <3>2, <4>1
    <3> QED BY <3>1, <3>2
  <2> QED BY <1>3, <1>4, <2>1
<1>7. /\ new[1] = n + Len(carrier'.data) + train_out'.count
      /\ new[Len(inbox') + 1] = m + k
  <2>1. 1 \in 1 .. l + 1 /\ (l + 1) + 1 = l + 2
    BY <1>1
  <2> QED BY <1>3, <1>5, <2>1 DEF Queued
<1>8. ASSUME NEW i \in DOMAIN inbox'
      PROVE  /\ new[i + 1] = new[i] + Load(inbox'[i])
             /\ inbox'[i].type = "put" => Carries(inbox'[i].data, new[i])
  <2>1. CASE i = l + 1
    <3>1. new[i] = m /\ new[i + 1] = m + k
      <4>1. l + 1 \in 1 .. l + 1 /\ (l + 1) + 1 = l + 2
        BY <1>1
      <4> QED BY <1>5, <2>1, <4>1 DEF Queued, l
    <3> QED BY <1>3, <2>1, <3>1 DEF k
  <2>2. CASE i # l + 1
    <3>1. i \in 1 .. l /\ i \in 1 .. l + 1 /\ i + 1 \in 1 .. l + 1
      BY <1>1, <1>3, <2>2
    <3>2. /\ at[i + 1] = at[i] + Load(inbox[i])
          /\ inbox[i].type = "put" => Carries(inbox[i].data, at[i])
      BY <1>1, <3>1 DEF Queued
    <3> QED BY <1>3, <1>5, <3>1, <3>2
  <2> QED BY <2>1, <2>2
<1>9. /\ Carries(carrier'.data, n)
      /\ Holds(train_out', n + Len(carrier'.data))
      /\ sent' = Number(n) /\ put' = Number(m + k)
      /\ n \in Nat /\ m + k \in Nat /\ m + k < n + LENGTH
  BY <1>1, <1>2 DEF Queued, k
<1>10. Queued(n, m + k, new)'
  BY <1>6, <1>7, <1>8, <1>9 DEF Queued
<1> QED BY <1>10 DEF k

(* A request is received, and what it brings goes into the buffer and      *)
(* perhaps on to the carrier.                                              *)
LEMMA QueuedShrinks ==
  ASSUME TypeOK, NEW n, NEW m, NEW at, Queued(n, m, at),
         inbox # <<>>, inbox' = Tail(inbox), UNCHANGED <<sent, put>>,
         Carries(carrier'.data, n), Holds(train_out', n + Len(carrier'.data)),
         Len(carrier'.data) + train_out'.count =
           Len(carrier.data) + train_out.count + Load(Received),
         Len(carrier'.data) \in Nat, train_out'.count \in Nat
  PROVE  \E new : Queued(n, m, new)'
<1> DEFINE l == Len(inbox)
<1>1. /\ l \in Nat /\ DOMAIN inbox = 1 .. l
      /\ \A i \in 1 .. l + 1 : at[i] \in 0 .. m
      /\ Len(carrier.data) \in Nat /\ train_out.count \in Nat
      /\ n \in Nat /\ m \in Nat
  BY QueuedIs DEF Queued
<1>2. /\ l \in Nat \ {0} /\ Len(inbox') = l - 1 /\ DOMAIN inbox' = 1 .. l - 1
      /\ Received = inbox[1] /\ Received \in Requests
      /\ \A i \in 1 .. l - 1 : inbox'[i] = inbox[i + 1]
  BY TailIs DEF TypeOK, Received
<1>3. Load(Received) \in Nat
  <2>1. Received.data \in Seq(Int)
    BY <1>2 DEF Requests
  <2> QED BY <2>1, LenProperties DEF Load
<1> HIDE DEF l
<1>4. PICK new : new = [i \in 1 .. (l - 1) + 1 |-> at[i + 1]]
  OBVIOUS
<1>5. \A i \in 1 .. l : /\ new[i] = at[i + 1] /\ i + 1 \in 1 .. l + 1
  <2>1. \A i \in 1 .. l : i \in 1 .. (l - 1) + 1 /\ i + 1 \in 1 .. l + 1
    BY <1>2
  <2> QED BY <1>4, <2>1
<1>6. new \in [1 .. Len(inbox') + 1 -> 0 .. m]
  <2>1. \A i \in 1 .. (l - 1) + 1 : at[i + 1] \in 0 .. m
    BY <1>1, <1>2
  <2> QED BY <1>2, <1>4, <2>1
<1>7. new[1] = n + Len(carrier'.data) + train_out'.count
  <2>1. 1 \in 1 .. l /\ 1 + 1 = 2
    BY <1>2
  <2>2. at[2] = at[1] + Load(inbox[1])
    BY <1>1, <2>1 DEF Queued
  <2>3. new[1] = (n + Len(carrier.data) + train_out.count) + Load(Received)
    BY <1>2, <1>5, <2>1, <2>2 DEF Queued
  <2> DEFINE a == Len(carrier.data)
             b == train_out.count
             c == Len(carrier'.data)
             d == train_out'.count
             e == Load(Received)
  <2>4. c + d = a + b + e
    OBVIOUS
  <2>5. /\ a \in Int /\ b \in Int /\ c \in Int /\ d \in Int /\ e \in Int
        /\ n \in Int
    BY <1>1, <1>3
  <2>6. new[1] = (n + a + b) + e
    BY <2>3
  <2> HIDE DEF a, b, c, d, e
  <2>7. new[1] = n + c + d
    BY <2>4, <2>5, <2>6
  <2> QED BY <2>7 DEF c, d
<1>8. new[Len(inbox') + 1] = m
  <2>1. (l - 1) + 1 = l /\ l \in 1 .. l
    BY <1>2
  <2> QED BY <1>2, <1>5, <2>1 DEF Queued, l
<1>9. ASSUME NEW i \in DOMAIN inbox'
      PROVE  /\ new[i + 1] = new[i] + Load(inbox'[i])
             /\ inbox'[i].type = "put" => Carries(inbox'[i].data, new[i])
  <2>1. i \in 1 .. l - 1 /\ i \in 1 .. l /\ i + 1 \in 1 .. l
    BY <1>2
  <2>2. /\ at[(i + 1) + 1] = at[i + 1] + Load(inbox[i + 1])
        /\ inbox[i + 1].type = "put" => Carries(inbox[i + 1].data, at[i + 1])
    BY <1>1, <2>1 DEF Queued
  <2> QED BY <1>2, <1>5, <2>1, <2>2
<1>10. /\ sent' = Number(n) /\ put' = Number(m)
       /\ n \in Nat /\ m \in Nat /\ m < n + LENGTH
  BY DEF Queued
<1>11. Queued(n, m, new)'
  BY <1>6, <1>7, <1>8, <1>9, <1>10 DEF Queued
<1> QED BY <1>11


LEMMA CommandsFrom ==
  ASSUME NEW n, NEW m, NEW at, Queued(n, m, at)' PROVE CommandInv'
<1>1. n \in Nat /\ 0 \in Nat /\ sent' = Number(n)
  BY DEF Queued
<1>2. Number(n) \in Numbers
  BY <1>1, NumberPlus
<1> QED BY <1>1, <1>2 DEF CommandInv, CommandsInOrder

LEMMA CommandsInit == Init => CommandInv
<1> SUFFICES ASSUME Init PROVE CommandInv
  OBVIOUS
<1>1. Number(0) = 0 /\ Number(0) \in Numbers
  <2>1. BYTES \in Nat \ {0} /\ 0 \in Int /\ 0 \in 0 .. BYTES - 1
        /\ 0 = BYTES * 0 + 0
    BY BytesAssumption, LengthAssumption
  <2>2. 0 % BYTES = 0
    BY <2>1, ModIs
  <2> QED BY <2>1, <2>2 DEF Number, Numbers
<1>2. /\ sent = 0 /\ put = 0 /\ inbox = <<>> /\ carrier.data = <<>>
      /\ train_out = cbuf_init
  BY DEF Init
<1>3. Len(<<>>) = 0 /\ DOMAIN <<>> = {}
  OBVIOUS
<1>4. Holds(train_out, 0) /\ train_out.count = 0
  BY <1>2, LengthAssumption
     DEF Holds, Proper, cbuf_init, Buffers, Offsets, Slot
<1>5. PICK at : at = [i \in 1 .. 1 |-> 0]
  OBVIOUS
<1>6. at \in [1 .. Len(inbox) + 1 -> 0 .. 0] /\ at[1] = 0
      /\ Len(inbox) + 1 = 1
  BY <1>2, <1>3, <1>5
<1>7. Queued(0, 0, at)
  BY <1>1, <1>2, <1>3, <1>4, <1>6, LengthAssumption DEF Queued, Carries
<1> QED BY <1>1, <1>2, <1>7 DEF CommandInv, CommandsInOrder

LEMMA SendCommands ==
  ASSUME ControlInv, NEW n, NEW m, NEW at, Queued(n, m, at), irq_uart1_send
  PROVE  CommandInv'
<1>1. /\ carrier.at = "send"
      /\ carrier'.data = Tail(carrier.data)
      /\ sent' = IF Head(carrier.data) = sent THEN Plus(sent, 1) ELSE BYTES
      /\ UNCHANGED <<train_out, inbox, put>>
  BY DEF irq_uart1_send, server
<1>2. TypeOK /\ carrier.data # <<>>
  BY <1>1 DEF ControlInv, LineOK
<1> DEFINE data == carrier.data
           l == Len(data)
<1>3. /\ Head(data) = data[1] /\ 1 \in DOMAIN data
      /\ l \in Nat \ {0} /\ Len(Tail(data)) = l - 1
      /\ DOMAIN data = 1 .. l /\ DOMAIN Tail(data) = 1 .. l - 1
      /\ \A i \in DOMAIN Tail(data) : Tail(data)[i] = data[i + 1]
  <2>1. data \in Seq(Int)
    BY <1>2 DEF TypeOK, Carriers
  <2> HIDE DEF data
  <2> QED BY <1>2, <2>1, TailIs DEF data
<1>4. /\ n \in Nat /\ m \in Nat /\ m < n + LENGTH /\ LENGTH \in Nat
      /\ sent = Number(n) /\ Carries(data, n) /\ Holds(train_out, n + l)
      /\ at[1] = n + l + train_out.count
      /\ train_out.count \in Nat
  BY QueuedIs, <1>2, LengthAssumption DEF Queued
<1>5. sent' = Number(n + 1)
  <2>1. n + 1 - 1 = n /\ 1 \in Nat
    BY <1>4
  <2>2. data[1] = Number(n + 1 - 1)
    BY <1>3, <1>4 DEF Carries
  <2>3. Plus(Number(n), 1) = Number(n + 1)
    BY <1>4, <2>1, NumberPlus
  <2> QED BY <1>1, <1>3, <1>4, <2>1, <2>2, <2>3
<1>6. Carries(Tail(data), n + 1)
  <2> SUFFICES ASSUME NEW k \in DOMAIN Tail(data)
               PROVE  Tail(data)[k] = Number((n + 1) + k - 1)
    BY DEF Carries
  <2>1. k + 1 \in 1 .. l /\ n + (k + 1) - 1 = (n + 1) + k - 1
    <3>1. k \in 1 .. l - 1 /\ l \in Nat /\ n \in Nat
      BY <1>3, <1>4
    <3> HIDE DEF l
    <3> QED BY <3>1
  <2>2. data[k + 1] = Number(n + (k + 1) - 1)
    BY <1>3, <1>4, <2>1 DEF Carries
  <2> QED BY <1>3, <2>1, <2>2
<1>7. (n + 1) + (l - 1) = n + l
  <2>1. l \in Nat /\ n \in Nat
    BY <1>3, <1>4
  <2> HIDE DEF l
  <2> QED BY <2>1
<1>8. /\ n + 1 \in Nat /\ m < (n + 1) + LENGTH
      /\ Len(carrier'.data) = l - 1
  BY <1>1, <1>3, <1>4
<1>9. Queued(n + 1, m, at)'
  <2>1. /\ Holds(train_out', (n + 1) + Len(carrier'.data))
        /\ at[1] = (n + 1) + Len(carrier'.data) + train_out'.count
        /\ Carries(carrier'.data, n + 1)
    BY <1>1, <1>4, <1>6, <1>7, <1>8
  <2>2. /\ m \in Nat /\ put' = Number(m)
        /\ at \in [1 .. Len(inbox') + 1 -> 0 .. m]
        /\ at[Len(inbox') + 1] = m
        /\ \A i \in DOMAIN inbox' :
             /\ at[i + 1] = at[i] + Load(inbox'[i])
             /\ inbox'[i].type = "put" => Carries(inbox'[i].data, at[i])
    BY <1>1 DEF Queued
  <2> HIDE DEF l, data
  <2> QED BY <1>5, <1>8, <2>1, <2>2 DEF Queued
<1> QED BY <1>9, CommandsFrom

(* A request arrives that brings no bytes.                                 *)
LEMMA AskCommands ==
  ASSUME ControlInv, NEW n, NEW m, NEW at, Queued(n, m, at),
         NEW r \in Requests, r.type # "put", inbox' = Append(inbox, r),
         carrier'.data = carrier.data, UNCHANGED <<sent, put, train_out>>
  PROVE  CommandInv'
<1>1. /\ n \in Nat /\ m \in Nat /\ m < n + LENGTH /\ put = Number(m)
      /\ Load(r) = 0 /\ m + 0 = m
  BY DEF Queued, Load
<1>2. TypeOK
  BY DEF ControlInv
<1>3. \E new : Queued(n, m + Load(r), new)'
  BY <1>1, <1>2, QueuedGrows
<1> QED BY <1>3, CommandsFrom

LEMMA PutCommands ==
  ASSUME ControlInv, NEW n, NEW m, NEW at, Queued(n, m, at),
         NEW c \in Clients, NEW size \in COMMANDS, Put(c, size)
  PROVE  CommandInv'
<1> DEFINE data == Numbered(put, size)
           r == Request("put", c, data)
<1>1. /\ Unsent + size < LENGTH /\ put' = Plus(put, size)
      /\ inbox' = Append(inbox, r)
      /\ UNCHANGED <<sent, train_out, carrier>>
  BY DEF Put, Call, uart, server
<1>2. TypeOK /\ size \in Nat /\ put \in Int
  BY PayloadAssumption DEF ControlInv, TypeOK
<1>3. /\ data \in Seq(Int) /\ Len(data) = size
      /\ \A i \in 1 .. size : data[i] = Plus(put, i - 1)
  BY <1>2, NumberedIs
<1>4. /\ n \in Nat /\ m \in Nat /\ m < n + LENGTH /\ n <= m
      /\ sent = Number(n) /\ put = Number(m)
  BY <1>2, QueuedIs DEF Queued
<1>5. DOMAIN data = 1 .. size
  BY <1>3, LenProperties
<1> HIDE DEF data
<1>6. r \in Requests /\ r.type = "put" /\ Load(r) = size /\ r.data = data
  BY <1>3 DEF Request, Requests, Load
<1>7. m + size < n + LENGTH
  <2>1. (put - sent) % BYTES = m - n
    BY <1>4, NumbersApart
  <2> QED BY <1>1, <1>2, <1>4, <2>1, LengthAssumption DEF Unsent
<1>8. Carries(data, m)
  <2> SUFFICES ASSUME NEW k \in 1 .. size PROVE data[k] = Number(m + k - 1)
    BY <1>5 DEF Carries
  <2>1. k - 1 \in Nat /\ m + (k - 1) = m + k - 1
    BY <1>2, <1>4
  <2>2. Plus(Number(m), k - 1) = Number(m + (k - 1))
    BY <1>4, <2>1, NumberPlus
  <2> QED BY <1>3, <1>4, <2>1, <2>2
<1>9. put' = Number(m + Load(r))
  BY <1>1, <1>2, <1>4, <1>6, NumberPlus
<1>10. /\ Carries(r.data, m) /\ m + Load(r) < n + LENGTH
       /\ carrier'.data = carrier.data /\ UNCHANGED <<sent, train_out>>
  BY <1>1, <1>6, <1>7, <1>8
<1> HIDE DEF r
<1>11. \E new : Queued(n, m + size, new)'
  <2>1. ASSUME NEW q \in Requests, q = r
        PROVE  \E new : Queued(n, m + Load(q), new)'
    <3>1. /\ inbox' = Append(inbox, q) /\ put' = Number(m + Load(q))
          /\ m + Load(q) < n + LENGTH
          /\ Carries(q.data, m)
      BY <1>1, <1>9, <1>10, <2>1
    <3> QED BY <1>2, <1>10, <2>1, <3>1, QueuedGrows
  <2> QED BY <1>6, <2>1
<1> QED BY <1>11, CommandsFrom

(* The carrier that has nothing left is served.                            *)
LEMMA ServedHolds ==
  ASSUME NEW cb, NEW n \in Nat, Holds(cb, n), carrier.data = <<>>,
         ServeCarrier(cb)
  PROVE  /\ Carries(carrier'.data, n) /\ Len(carrier'.data) \in Nat
         /\ Holds(train_out', n + Len(carrier'.data))
         /\ train_out'.count \in Nat
         /\ Len(carrier'.data) + train_out'.count = cb.count
<1>1. cb \in Buffers /\ cb.count \in Offsets /\ cb.count \in Nat
  BY LengthAssumption DEF Holds, Proper, Offsets
<1>2. Chunk(cb) \in 0 .. cb.count
  BY <1>1, ChunkIs
<1>3. CASE Chunk(cb) = 0
  <2>1. train_out' = cb /\ carrier'.data = <<>>
    BY <1>3 DEF ServeCarrier
  <2>2. /\ Len(<<>>) = 0 /\ DOMAIN <<>> = {}
        /\ n + 0 = n /\ 0 + cb.count = cb.count
    BY <1>1
  <2> QED BY <1>1, <2>1, <2>2 DEF Carries
<1>4. CASE Chunk(cb) # 0
  <2> DEFINE out == Consumed(cb, Chunk(cb))
  <2>1. train_out' = out.rest /\ carrier'.data = out.data
    BY <1>4 DEF ServeCarrier
  <2>2. /\ Holds(out.rest, n + Chunk(cb))
        /\ out.rest.count = cb.count - Chunk(cb)
        /\ Carries(out.data, n) /\ Len(out.data) = Chunk(cb)
    BY <1>2, ConsumedHolds
  <2> HIDE DEF out
  <2>3. /\ Chunk(cb) \in Nat /\ cb.count - Chunk(cb) \in Nat
        /\ Chunk(cb) + (cb.count - Chunk(cb)) = cb.count
    BY <1>1, <1>2
  <2> QED BY <2>1, <2>2, <2>3
<1> QED BY <1>3, <1>4

LEMMA ReceiveCarrierCommands ==
  ASSUME ControlInv, ~aborted, NEW n, NEW m, NEW at, Queued(n, m, at),
         ReceiveCarrier
  PROVE  CommandInv'
<1>1. /\ inbox # <<>> /\ inbox' = Tail(inbox) /\ Received.type = CARRIER
      /\ UNCHANGED <<sent, put>>
  BY DEF ReceiveCarrier, Receive, Received, Abort, uart
<1>2. TypeOK /\ InboxOK /\ WaitersAreKnown /\ LineOK
  BY DEF ControlInv
<1>3. Received.from = CARRIER /\ CARRIER \in Senders
  <2>1. /\ Received \in Requests /\ Received.from \in Senders
        /\ Received.type = IF Received.from \in Clients
                           THEN client[Received.from] ELSE Received.from
    BY <1>1, <1>2, ReceivedIs
  <2> QED BY <1>1, <1>2, <2>1 DEF TypeOK, Requests, CARRIER, NOTIFIER
<1>4. carrier.at = "server" /\ ~send_tid /\ carrier.data = <<>>
  BY <1>2, <1>3 DEF WaitersAreKnown, LineOK
<1>5. ServeCarrier(train_out)
  BY <1>4 DEF ReceiveCarrier
<1>6. n \in Nat /\ Holds(train_out, n) /\ train_out.count \in Nat
  <2>1. n \in Nat /\ Holds(train_out, n + Len(carrier.data))
    BY DEF Queued
  <2>2. Len(carrier.data) = 0 /\ n + 0 = n
    BY <1>4, <2>1
  <2> QED BY <1>2, <2>1, <2>2, QueuedIs
<1>7. /\ Carries(carrier'.data, n) /\ Len(carrier'.data) \in Nat
      /\ Holds(train_out', n + Len(carrier'.data))
      /\ train_out'.count \in Nat
      /\ Len(carrier'.data) + train_out'.count = train_out.count
  BY <1>4, <1>5, <1>6, ServedHolds
<1>8. /\ Load(Received) = 0 /\ Len(carrier.data) = 0
      /\ 0 + train_out.count + 0 = train_out.count
  BY <1>1, <1>4, <1>6 DEF Load, CARRIER
<1>9. \E new : Queued(n, m, new)'
  <2>1. Len(carrier'.data) + train_out'.count =
          Len(carrier.data) + train_out.count + Load(Received)
    BY <1>7, <1>8
  <2> QED BY <1>1, <1>2, <1>7, <2>1, QueuedShrinks
<1> QED BY <1>9, CommandsFrom

(* A request is received that brings no bytes and is not the carrier's.    *)
LEMMA OtherCommands ==
  ASSUME ControlInv, NEW n, NEW m, NEW at, Queued(n, m, at),
         inbox # <<>>, inbox' = Tail(inbox), Received.type # "put",
         UNCHANGED <<sent, put, carrier, train_out>>
  PROVE  CommandInv'
<1>1. TypeOK
  BY DEF ControlInv
<1>2. Len(carrier.data) \in Nat /\ train_out.count \in Nat
  BY <1>1, QueuedIs
<1>3. /\ Carries(carrier.data, n) /\ Holds(train_out, n + Len(carrier.data))
  BY DEF Queued
<1>4. Len(carrier'.data) + train_out'.count =
        Len(carrier.data) + train_out.count + Load(Received)
  BY <1>2 DEF Load
<1>5. \E new : Queued(n, m, new)'
  BY <1>1, <1>2, <1>3, <1>4, QueuedShrinks
<1> QED BY <1>5, CommandsFrom

LEMMA ReceivePutCommands ==
  ASSUME ControlInv, ~aborted, NEW n, NEW m, NEW at, Queued(n, m, at),
         ReceivePut
  PROVE  CommandInv'
<1> DEFINE data == Received.data
           cb == Produced(train_out, data)
           a == Len(carrier.data)
           b == train_out.count
           l == Len(data)
<1>1. /\ inbox # <<>> /\ inbox' = Tail(inbox) /\ Received.type = "put"
      /\ Receive("put") /\ PutInto(cb) /\ UNCHANGED <<sent, put>>
  BY DEF ReceivePut, Receive, Received, uart
<1>2. TypeOK /\ InboxOK /\ NobodyWaitsInVain /\ LineOK
  BY DEF ControlInv
<1>3. /\ data \in Seq(Int) /\ l \in Nat
      /\ Received = inbox[1] /\ Len(inbox) \in Nat \ {0}
  <2>1. data \in Seq(Int)
    BY <1>1, <1>2, FromClient
  <2>2. Received = inbox[1] /\ Len(inbox) \in Nat \ {0}
    BY <1>1, <1>2, TailIs DEF TypeOK, Received
  <2> QED BY <2>1, <2>2, LenProperties
<1>4. /\ n \in Nat /\ m \in Nat /\ m < n + LENGTH /\ a \in Nat /\ b \in Nat
      /\ DOMAIN inbox = 1 .. Len(inbox)
      /\ \A i \in 1 .. Len(inbox) + 1 : at[i] \in 0 .. m
      /\ Holds(train_out, n + a) /\ Carries(carrier.data, n)
      /\ at[1] = n + a + b
  BY <1>2, QueuedIs DEF Queued
<1>5. Carries(data, (n + a) + b) /\ a + b + l < LENGTH /\ Load(Received) = l
  <2>1. 1 \in DOMAIN inbox /\ 2 \in 1 .. Len(inbox) + 1 /\ 1 + 1 = 2
    BY <1>3, <1>4
  <2>2. at[2] = at[1] + Load(inbox[1]) /\ Carries(inbox[1].data, at[1])
    BY <1>1, <1>3, <2>1 DEF Queued
  <2>3. at[2] \in 0 .. m
    BY <1>4, <2>1
  <2>4. Load(Received) = l
    BY <1>1 DEF Load
  <2>5. at[2] = (n + a + b) + l
    BY <1>3, <1>4, <2>2, <2>4
  <2> HIDE DEF a, b, l
  <2>6. a + b + l < LENGTH
    BY <1>3, <1>4, <2>3, <2>5, LengthAssumption
  <2> QED BY <1>3, <1>4, <2>2, <2>4, <2>6
<1>6. n + a \in Nat /\ b + l < LENGTH
  <2> HIDE DEF a, b, l
  <2> QED BY <1>3, <1>4, <1>5, LengthAssumption
<1>7. Holds(cb, n + a) /\ cb.count = b + l
  BY <1>3, <1>4, <1>5, <1>6, ProducedHolds
<1> HIDE DEF cb
<1>8. /\ Carries(carrier'.data, n) /\ Len(carrier'.data) \in Nat
      /\ Holds(train_out', n + Len(carrier'.data))
      /\ train_out'.count \in Nat
      /\ Len(carrier'.data) + train_out'.count = a + b + l
  <2>1. CASE send_tid
    <3>1. ServeCarrier(cb) /\ carrier.data = <<>>
      BY <1>1, <1>2, <2>1 DEF PutInto, NobodyWaitsInVain, LineOK
    <3>2. a = 0
      BY <3>1
    <3>3. n + a = n /\ a + b + l = b + l
      <4> HIDE DEF b, l, a
      <4> QED BY <1>3, <1>4, <3>2
    <3> QED BY <1>4, <1>7, <3>1, <3>3, ServedHolds
  <2>2. CASE ~send_tid
    <3>1. train_out' = cb /\ carrier' = carrier
      BY <1>1, <2>2 DEF PutInto
    <3>2. b + l \in Nat /\ a + (b + l) = a + b + l
      <4> HIDE DEF b, l, a
      <4> QED BY <1>3, <1>4
    <3> QED BY <1>4, <1>7, <3>1, <3>2
  <2> QED BY <2>1, <2>2
<1>9. \E new : Queued(n, m, new)'
  BY <1>1, <1>2, <1>5, <1>8, QueuedShrinks
<1> QED BY <1>9, CommandsFrom

LEMMA CommandStep ==
  ControlInv /\ CommandInv /\ [Next]_vars => CommandInv'
<1> SUFFICES ASSUME ControlInv, CommandInv, [Next]_vars PROVE CommandInv'
  OBVIOUS
<1>1. CASE UNCHANGED vars
  BY <1>1 DEF vars, server, uart, CommandInv, CommandsInOrder, Queued
<1>2. CASE aborted' /\ UNCHANGED sent
  BY <1>2 DEF CommandInv, CommandsInOrder
<1> SUFFICES ASSUME Next PROVE CommandInv'
  BY <1>1
<1>3. ~aborted
  BY DEF Next, Put, Get, Call, Server, Receive, ReceiveCarrier, ReceivePut,
         ReceiveGet, ReceiveNotify, Carrier, CarrierAsks, AwaitCts,
         irq_uart1_send, AwaitDown, CarrierGoes, Line, LineFalls, LineRises,
         irq_uart1_recv, Notify
<1>4. PICK n, m, at : Queued(n, m, at)
  BY <1>3 DEF CommandInv
<1>5. TypeOK
  BY DEF ControlInv
<1>6. ASSUME NEW c \in Clients, NEW size \in COMMANDS, Put(c, size)
      PROVE  CommandInv'
  BY <1>4, <1>6, PutCommands
<1>7. ASSUME NEW c \in Clients, NEW size \in GETS, Get(c, size)
      PROVE  CommandInv'
  <2> DEFINE r == Request("get", c, Numbered(0, size))
  <2>1. /\ inbox' = Append(inbox, r)
        /\ UNCHANGED <<sent, put, train_out, carrier>>
    BY <1>7 DEF Get, Call, uart, server
  <2>2. r \in Requests /\ r.type # "put"
    <3>1. size \in Nat /\ 0 \in Int
      BY PayloadAssumption
    <3>2. Numbered(0, size) \in Seq(Int)
      BY <3>1, NumberedIs
    <3> QED BY <3>2 DEF Request, Requests
  <2> HIDE DEF r
  <2> QED BY <1>4, <2>1, <2>2, AskCommands
<1>8. CASE CarrierAsks
  <2> DEFINE r == Request(CARRIER, CARRIER, <<>>)
  <2>1. /\ inbox' = Append(inbox, r) /\ carrier'.data = carrier.data
        /\ UNCHANGED <<sent, put, train_out>>
    BY <1>5, <1>8 DEF CarrierAsks, uart, server, TypeOK, Carriers
  <2>2. r \in Requests /\ r.type # "put"
    <3>1. <<>> \in Seq(Int)
      OBVIOUS
    <3> QED BY <3>1 DEF Request, Requests, CARRIER
  <2> HIDE DEF r
  <2> QED BY <1>4, <2>1, <2>2, AskCommands
<1>9. CASE Notify
  <2> DEFINE r == Request(NOTIFIER, NOTIFIER, notifier.data)
  <2>1. UNCHANGED <<sent, put, train_out, carrier>>
    BY <1>9 DEF Notify, uart, server
  <2>2. CASE UNCHANGED inbox
    BY <1>4, <2>1, <2>2, QueuedStays, CommandsFrom
  <2>3. CASE inbox' = Append(inbox, r)
    <3>1. r \in Requests /\ r.type # "put"
      BY <1>5 DEF Request, Requests, NOTIFIER, TypeOK, Notifiers
    <3> HIDE DEF r
    <3> QED BY <1>4, <2>1, <2>3, <3>1, AskCommands
  <2> QED BY <1>9, <2>2, <2>3 DEF Notify
<1>10. CASE Line \/ AwaitCts \/ AwaitDown
  <2>1. /\ carrier'.data = carrier.data
        /\ UNCHANGED <<sent, put, train_out, inbox>>
    BY <1>5, <1>10 DEF Line, LineFalls, LineRises, irq_uart1, AwaitCts,
                       AwaitDown, CarrierGoes, server, uart, TypeOK, Carriers
  <2> QED BY <1>4, <2>1, QueuedStays, CommandsFrom
<1>11. CASE irq_uart1_recv
  <2>1. CASE notifier.at = "await"
    <3>1. UNCHANGED <<sent, put, train_out, inbox, carrier>>
      BY <1>11, <2>1 DEF irq_uart1_recv, server, uart
    <3> QED BY <1>4, <3>1, QueuedStays, CommandsFrom
  <2>2. CASE notifier.at # "await"
    BY <1>2, <1>11, <2>2 DEF irq_uart1_recv, Abort, uart
  <2> QED BY <2>1, <2>2
<1>12. CASE irq_uart1_send
  BY <1>4, <1>12, SendCommands
<1>13. CASE ReceiveCarrier
  BY <1>3, <1>4, <1>13, ReceiveCarrierCommands
<1>14. CASE ReceivePut
  BY <1>3, <1>4, <1>14, ReceivePutCommands
<1>15. CASE ReceiveGet \/ ReceiveNotify
  <2>1. /\ inbox # <<>> /\ inbox' = Tail(inbox) /\ Received.type # "put"
        /\ UNCHANGED <<sent, put, carrier, train_out>>
    BY <1>15 DEF ReceiveGet, ReceiveNotify, Receive, Received, uart, NOTIFIER
  <2> QED BY <1>4, <2>1, OtherCommands
<1> QED BY <1>6, <1>7, <1>8, <1>9, <1>10, <1>11, <1>12, <1>13, <1>14, <1>15
        DEF Next, Server, Carrier

(* The train gets the bytes of all commands, each once and in the order in *)
(* which they were put: it misses none and gets none twice.                *)
THEOREM CommandsGoInOrder == Spec => []CommandsInOrder
<1>1. CommandInv => CommandsInOrder
  BY DEF CommandInv
<1> QED BY <1>1, CommandsInit, CommandStep, ControlIsKept, PTL DEF Spec

-----------------------------------------------------------------------------
(* The bytes from the train.                                               *)

LEMMA BroughtIs ==
  ASSUME TypeOK, NEW g, NEW h, Brought(g, h)
  PROVE  /\ g \in Nat /\ h \in Nat /\ g <= h /\ h < g + LENGTH
         /\ LENGTH \in Nat
         /\ train_in.count \in Nat
         /\ notifier.data \in Seq(Int) /\ Len(notifier.data) \in Nat
<1>1. notifier.data \in Seq(Int)
  BY DEF TypeOK, Notifiers
<1>2. train_in.count \in Nat
  BY LengthAssumption DEF TypeOK, Offsets
<1> QED BY <1>1, <1>2, LenProperties, LengthAssumption DEF Brought

(* Only the notifier sends a notice, and then it waits.                    *)
LEMMA NoticeIs ==
  ASSUME ControlInv, ~aborted, NEW i \in DOMAIN inbox,
         inbox[i].type = NOTIFIER
  PROVE  inbox[i].from = NOTIFIER /\ notifier.at = "server"
<1>1. /\ client \in [Clients -> {"idle", "put", "get"}]
      /\ inbox[i].type = IF inbox[i].from \in Clients
                         THEN client[inbox[i].from] ELSE inbox[i].from
  BY DEF ControlInv, TypeOK, InboxOK
<1>2. inbox[i].from = NOTIFIER
  BY <1>1 DEF NOTIFIER
<1> QED BY <1>2 DEF ControlInv, WaitersAreKnown, Senders

LEMMA AnswersFrom ==
  ASSUME NEW g, NEW h, Brought(g, h)' PROVE AnswerInv'
<1>1. g \in Nat /\ 0 \in Nat /\ got' = Number(g)
  BY DEF Brought
<1>2. Number(g) \in Numbers
  BY <1>1, NumberPlus
<1> QED BY <1>1, <1>2 DEF AnswerInv, AnswersInOrder

LEMMA AnswersInit == Init => AnswerInv
<1> SUFFICES ASSUME Init PROVE AnswerInv
  OBVIOUS
<1>1. Number(0) = 0 /\ Number(0) \in Numbers
  <2>1. BYTES \in Nat \ {0} /\ 0 \in Int /\ 0 \in 0 .. BYTES - 1
        /\ 0 = BYTES * 0 + 0
    BY BytesAssumption, LengthAssumption
  <2>2. 0 % BYTES = 0
    BY <2>1, ModIs
  <2> QED BY <2>1, <2>2 DEF Number, Numbers
<1>2. /\ got = 0 /\ come = 0 /\ inbox = <<>> /\ notifier.data = <<>>
      /\ train_in = cbuf_init
  BY DEF Init
<1>3. Len(<<>>) = 0 /\ DOMAIN <<>> = {}
  OBVIOUS
<1>4. Holds(train_in, 0) /\ train_in.count = 0
  BY <1>2, LengthAssumption
     DEF Holds, Proper, cbuf_init, Buffers, Offsets, Slot
<1>5. Brought(0, 0)
  BY <1>1, <1>2, <1>3, <1>4, LengthAssumption DEF Brought, Carries
<1> QED BY <1>1, <1>2, <1>5 DEF AnswerInv, AnswersInOrder

(* The buffer may lose its oldest bytes to a client; nothing else happens  *)
(* to the bytes, and no notice arrives.                                    *)
LEMMA BroughtMoves ==
  ASSUME TypeOK, NEW g, NEW h, Brought(g, h), NEW new \in Nat, g <= new,
         Holds(train_in', new), got' = Number(new),
         train_in'.count \in Nat,
         new + train_in'.count = g + train_in.count,
         UNCHANGED <<come, notifier>>,
         \A i \in DOMAIN inbox' : inbox'[i].type = NOTIFIER =>
           \E j \in DOMAIN inbox : inbox'[i] = inbox[j]
  PROVE  Brought(new, h)'
<1>1. /\ g \in Nat /\ h \in Nat /\ h < g + LENGTH /\ LENGTH \in Nat
      /\ g + train_in.count <= h /\ come = Number(h)
      /\ notifier.at = "server" => notifier.data = <<>>
      /\ notifier.at # "server" =>
           /\ h = g + train_in.count + Len(notifier.data)
           /\ Carries(notifier.data, g + train_in.count)
      /\ \A i \in DOMAIN inbox : inbox[i].type = NOTIFIER =>
           /\ h = g + train_in.count + Len(inbox[i].data)
           /\ Carries(inbox[i].data, g + train_in.count)
  BY LengthAssumption DEF Brought
<1>2. /\ notifier.at # "server" =>
           /\ h = new + train_in'.count + Len(notifier.data)
           /\ Carries(notifier.data, new + train_in'.count)
      /\ \A i \in DOMAIN inbox' : inbox'[i].type = NOTIFIER =>
           /\ h = new + train_in'.count + Len(inbox'[i].data)
           /\ Carries(inbox'[i].data, new + train_in'.count)
  BY <1>1
<1>3. new + train_in'.count <= h /\ h < new + LENGTH
  BY <1>1
<1> QED BY <1>1, <1>2, <1>3 DEF Brought

LEMMA BroughtStays ==
  ASSUME TypeOK, NEW g, NEW h, Brought(g, h),
         UNCHANGED <<got, come, train_in, notifier>>,
         \A i \in DOMAIN inbox' : inbox'[i].type = NOTIFIER =>
           \E j \in DOMAIN inbox : inbox'[i] = inbox[j]
  PROVE  AnswerInv'
<1>1. /\ g \in Nat /\ g <= g /\ Holds(train_in, g) /\ got = Number(g)
      /\ train_in.count \in Nat
  BY BroughtIs DEF Brought
<1>2. Brought(g, h)'
  BY <1>1, BroughtMoves
<1> QED BY <1>2, AnswersFrom

(* No notice arrives with a request of another task, nor with none.        *)
LEMMA NoNewNotice ==
  ASSUME TypeOK,
         \/ UNCHANGED inbox
         \/ inbox # <<>> /\ inbox' = Tail(inbox)
         \/ \E r \in Requests : r.type # NOTIFIER /\ inbox' = Append(inbox, r)
  PROVE  \A i \in DOMAIN inbox' : inbox'[i].type = NOTIFIER =>
           \E j \in DOMAIN inbox : inbox'[i] = inbox[j]
<1>1. CASE UNCHANGED inbox
  BY <1>1
<1>2. CASE inbox # <<>> /\ inbox' = Tail(inbox)
  <2>1. /\ Len(inbox) \in Nat \ {0}
        /\ DOMAIN inbox = 1 .. Len(inbox)
        /\ DOMAIN inbox' = 1 .. Len(inbox) - 1
        /\ \A i \in DOMAIN inbox' : inbox'[i] = inbox[i + 1]
    BY <1>2, TailIs DEF TypeOK
  <2> DEFINE l == Len(inbox)
  <2>2. ASSUME NEW i \in DOMAIN inbox' PROVE i + 1 \in DOMAIN inbox
    <3>1. i \in 1 .. l - 1 /\ l \in Nat
      BY <2>1
    <3> HIDE DEF l
    <3>2. i + 1 \in 1 .. l
      BY <3>1
    <3> QED BY <2>1, <3>2 DEF l
  <2> QED BY <2>1, <2>2
<1>3. CASE \E r \in Requests : r.type # NOTIFIER /\ inbox' = Append(inbox, r)
  <2>1. PICK r \in Requests : r.type # NOTIFIER /\ inbox' = Append(inbox, r)
    BY <1>3
  <2>2. /\ Len(inbox) \in Nat
        /\ DOMAIN inbox = 1 .. Len(inbox)
        /\ DOMAIN inbox' = 1 .. Len(inbox) + 1
        /\ inbox'[Len(inbox) + 1] = r
        /\ \A i \in DOMAIN inbox : inbox'[i] = inbox[i]
    BY <2>1, AppendIs DEF TypeOK
  <2> DEFINE l == Len(inbox)
  <2>3. ASSUME NEW i \in DOMAIN inbox'
        PROVE  i = l + 1 \/ i \in DOMAIN inbox
    <3>1. i \in 1 .. l + 1 /\ l \in Nat
      BY <2>2
    <3> HIDE DEF l
    <3>2. i = l + 1 \/ i \in 1 .. l
      BY <3>1
    <3> QED BY <2>2, <3>2 DEF l
  <2> QED BY <2>1, <2>2, <2>3
<1> QED BY <1>1, <1>2, <1>3

(* What a client reads are the oldest bytes of the buffer.                 *)
LEMMA DeliveredHolds ==
  ASSUME NEW cb, NEW g \in Nat, Holds(cb, g), NEW size \in 0 .. cb.count,
         NEW c, got = Number(g), ts_deliver_request(cb, c, size)
  PROVE  /\ Holds(train_in', g + size)
         /\ train_in'.count = cb.count - size
         /\ got' = Number(g + size)
<1> DEFINE out == Consumed(cb, size)
           word == AsNumber(out.data)
<1>1. /\ train_in' = out.rest
      /\ got' = IF \A i \in 1 .. size : word[size + 1 - i] = Plus(got, i - 1)
                THEN Plus(got, size) ELSE BYTES
  BY DEF ts_deliver_request
<1>2. /\ Holds(out.rest, g + size) /\ out.rest.count = cb.count - size
      /\ Carries(out.data, g) /\ Len(out.data) = size
      /\ out.data \in Seq(Int)
  BY ConsumedHolds
<1>3. size \in Nat /\ DOMAIN out.data = 1 .. size
  <2>1. cb.count \in Nat
    BY LengthAssumption DEF Holds, Proper, Offsets
  <2> QED BY <1>2, <2>1, LenProperties
<1>4. word = [i \in 1 .. size |-> out.data[size + 1 - i]]
  BY <1>2, <1>3 DEF AsNumber
<1> HIDE DEF word, out
<1>5. ASSUME NEW i \in 1 .. size PROVE word[size + 1 - i] = Plus(got, i - 1)
  <2>1. /\ size + 1 - i \in 1 .. size /\ size + 1 - (size + 1 - i) = i
        /\ g + i - 1 = g + (i - 1) /\ i - 1 \in Nat
    BY <1>3
  <2>2. out.data[i] = Number(g + i - 1)
    BY <1>2, <1>3 DEF Carries
  <2>3. Plus(Number(g), i - 1) = Number(g + (i - 1))
    BY <2>1, NumberPlus
  <2> QED BY <1>4, <2>1, <2>2, <2>3
<1>6. Plus(Number(g), size) = Number(g + size)
  BY <1>3, NumberPlus
<1> QED BY <1>1, <1>2, <1>5, <1>6

LEMMA RecvAnswers ==
  ASSUME ControlInv, ~aborted, NEW g, NEW h, Brought(g, h),
         irq_uart1_recv, notifier.at = "await"
  PROVE  AnswerInv'
<1> DEFINE data == notifier.data
           new == Append(data, come)
           k == train_in.count
           l == Len(data)
<1>1. /\ Unread < LENGTH - 1
      /\ notifier' = [at |-> "woken", data |-> new]
      /\ come' = Plus(come, 1)
      /\ UNCHANGED <<train_in, got, inbox>>
  BY DEF irq_uart1_recv, server
<1>2. TypeOK
  BY DEF ControlInv
<1>3. /\ g \in Nat /\ h \in Nat /\ g <= h /\ h < g + LENGTH /\ LENGTH \in Nat
      /\ k \in Nat /\ l \in Nat /\ data \in Seq(Int)
      /\ g + k <= h
      /\ got = Number(g) /\ come = Number(h) /\ come \in Int
      /\ Holds(train_in, g)
      /\ h = g + k + l /\ Carries(data, g + k)
  BY <1>2, BroughtIs DEF Brought, TypeOK
<1>4. h + 1 < g + LENGTH
  <2>1. (come - got) % BYTES = h - g
    BY <1>3, NumbersApart
  <2> QED BY <1>1, <1>3, <2>1 DEF Unread
<1>5. /\ Len(new) = l + 1 /\ DOMAIN data = 1 .. l /\ DOMAIN new = 1 .. l + 1
      /\ new[l + 1] = come /\ \A i \in DOMAIN data : new[i] = data[i]
  BY <1>3, AppendIs
<1>6. come' = Number(h + 1)
  BY <1>1, <1>3, NumberPlus
<1>7. notifier'.at = "woken" /\ notifier'.data = new
  BY <1>1
<1>8. \A i \in DOMAIN inbox : inbox[i].type # NOTIFIER
  BY NoticeIs
<1> HIDE DEF new, k, l, data
<1>9. Carries(new, g + k)
  <2> SUFFICES ASSUME NEW i \in 1 .. l + 1
               PROVE  new[i] = Number((g + k) + i - 1)
    BY <1>5 DEF Carries
  <2>1. CASE i = l + 1
    <3>1. (g + k) + i - 1 = h
      BY <1>3, <2>1
    <3> QED BY <1>3, <1>5, <2>1, <3>1
  <2>2. CASE i # l + 1
    <3>1. i \in 1 .. l
      BY <1>3, <2>2
    <3> QED BY <1>3, <1>5, <3>1 DEF Carries
  <2> QED BY <2>1, <2>2
<1>10. /\ h + 1 \in Nat /\ g + k <= h + 1 /\ h + 1 = g + k + (l + 1)
  BY <1>3
<1>11. Brought(g, h + 1)'
  BY <1>1, <1>3, <1>4, <1>5, <1>6, <1>7, <1>8, <1>9, <1>10 DEF Brought, k
<1> QED BY <1>11, AnswersFrom

LEMMA NotifyAnswers ==
  ASSUME ControlInv, ~aborted, NEW g, NEW h, Brought(g, h), Notify
  PROVE  AnswerInv'
<1> DEFINE r == Request(NOTIFIER, NOTIFIER, notifier.data)
<1>1. /\ notifier.at = "woken"
      /\ UNCHANGED <<train_in, got, come>>
  BY DEF Notify, server
<1>2. TypeOK
  BY DEF ControlInv
<1>3. /\ g \in Nat /\ h \in Nat /\ h < g + LENGTH
      /\ g + train_in.count <= h
      /\ got = Number(g) /\ come = Number(h)
      /\ Holds(train_in, g)
      /\ h = g + train_in.count + Len(notifier.data)
      /\ Carries(notifier.data, g + train_in.count)
  BY <1>1 DEF Brought
<1>4. \A i \in DOMAIN inbox : inbox[i].type # NOTIFIER
  BY <1>1, NoticeIs
<1>5. CASE Len(notifier.data) < NOTE
  <2>1. /\ inbox' = inbox
        /\ notifier'.at = "await" /\ notifier'.data = notifier.data
    BY <1>2, <1>5 DEF Notify, TypeOK, Notifiers
  <2>2. Brought(g, h)'
    BY <1>1, <1>3, <1>4, <2>1 DEF Brought
  <2> QED BY <2>2, AnswersFrom
<1>6. CASE ~(Len(notifier.data) < NOTE)
  <2>1. /\ inbox' = Append(inbox, r)
        /\ notifier'.at = "server" /\ notifier'.data = <<>>
    BY <1>6 DEF Notify
  <2>2. r \in Requests /\ r.data = notifier.data
    BY <1>2 DEF TypeOK, Notifiers, Request, Requests
  <2> HIDE DEF r
  <2>3. /\ Len(inbox) \in Nat
        /\ DOMAIN inbox = 1 .. Len(inbox)
        /\ DOMAIN inbox' = 1 .. Len(inbox) + 1
        /\ inbox'[Len(inbox) + 1] = r
        /\ \A i \in DOMAIN inbox : inbox'[i] = inbox[i]
    BY <1>2, <2>1, <2>2, AppendIs DEF TypeOK
  <2>4. \A i \in DOMAIN inbox' : inbox'[i].type = NOTIFIER => inbox'[i] = r
    <3>1. \A i \in DOMAIN inbox' : i = Len(inbox) + 1 \/ i \in DOMAIN inbox
      BY <2>3
    <3> QED BY <1>4, <2>3, <3>1
  <2>5. Brought(g, h)'
    BY <1>1, <1>3, <2>1, <2>2, <2>4 DEF Brought
  <2> QED BY <2>5, AnswersFrom
<1> QED BY <1>5, <1>6

LEMMA ReceiveGetAnswers ==
  ASSUME ControlInv, ~aborted, ~aborted', NEW g, NEW h, Brought(g, h),
         ReceiveGet
  PROVE  AnswerInv'
<1> DEFINE c == Received.from
           size == Len(Received.data)
<1>1. /\ inbox # <<>> /\ inbox' = Tail(inbox) /\ Receive("get")
      /\ UNCHANGED <<notifier, come>>
  BY DEF ReceiveGet, Receive
<1>2. TypeOK /\ InboxOK
  BY DEF ControlInv
<1>3. \A i \in DOMAIN inbox' : inbox'[i].type = NOTIFIER =>
        \E j \in DOMAIN inbox : inbox'[i] = inbox[j]
  BY <1>1, <1>2, NoNewNotice
<1>4. CASE UNCHANGED <<train_in, got>>
  BY <1>1, <1>2, <1>3, <1>4, BroughtStays
<1>5. CASE /\ train_in.count >= size
           /\ ts_deliver_request(train_in, c, size)
  <2>1. Received.data \in Seq(Int)
    BY <1>1, <1>2, FromClient
  <2>2. /\ g \in Nat /\ Holds(train_in, g) /\ got = Number(g)
        /\ train_in.count \in Nat /\ size \in Nat
    BY <1>2, <2>1, BroughtIs, LenProperties DEF Brought
  <2>3. PICK k \in 0 .. train_in.count :
          k = size /\ ts_deliver_request(train_in, c, k)
    <3> HIDE DEF size, c
    <3> QED BY <1>5, <2>2
  <2>4. /\ Holds(train_in', g + k)
        /\ train_in'.count = train_in.count - k
        /\ got' = Number(g + k)
    BY <2>2, <2>3, DeliveredHolds
  <2>5. /\ g + k \in Nat /\ g <= g + k
        /\ train_in'.count \in Nat
        /\ (g + k) + train_in'.count = g + train_in.count
    BY <2>2, <2>3, <2>4
  <2>6. Brought(g + k, h)'
    BY <1>1, <1>2, <1>3, <2>4, <2>5, BroughtMoves
  <2> QED BY <2>6, AnswersFrom
<1> QED BY <1>4, <1>5 DEF ReceiveGet, cbuf_count

LEMMA ReceiveNotifyAnswers ==
  ASSUME ControlInv, ~aborted, NEW g, NEW h, Brought(g, h), ReceiveNotify
  PROVE  AnswerInv'
<1> DEFINE data == Received.data
           after == Produced(train_in, data)
           k == train_in.count
           l == Len(data)
<1>1. /\ inbox # <<>> /\ inbox' = Tail(inbox) /\ Received.type = NOTIFIER
      /\ notifier' = [notifier EXCEPT !.at = "await"]
      /\ UNCHANGED come
      /\ IF Enough(after)
         THEN ts_deliver_request(after, get_tid, get_expecting)
         ELSE train_in' = after /\ UNCHANGED got
  BY DEF ReceiveNotify, Receive, Received
<1>2. TypeOK /\ InboxOK
  BY DEF ControlInv
<1>3. /\ Received = inbox[1] /\ Received \in Requests
      /\ Len(inbox) \in Nat \ {0}
      /\ DOMAIN inbox = 1 .. Len(inbox)
      /\ DOMAIN inbox' = 1 .. Len(inbox) - 1
      /\ \A i \in DOMAIN inbox' : inbox'[i] = inbox[i + 1]
  BY <1>1, <1>2, TailIs DEF TypeOK, Received
<1>4. 1 \in DOMAIN inbox
  BY <1>3
<1>5. data \in Seq(Int) /\ l \in Nat
  <2>1. data \in Seq(Int)
    BY <1>3 DEF Requests
  <2> QED BY <2>1, LenProperties
<1>6. /\ g \in Nat /\ h \in Nat /\ h < g + LENGTH /\ LENGTH \in Nat
      /\ k \in Nat /\ Holds(train_in, g)
      /\ got = Number(g) /\ come = Number(h)
      /\ h = g + k + l /\ Carries(data, g + k)
  BY <1>1, <1>2, <1>3, <1>4, BroughtIs DEF Brought
<1>7. notifier.data = <<>> /\ inbox[1].from = NOTIFIER
  BY <1>1, <1>3, <1>4, NoticeIs DEF Brought
<1>8. notifier'.at = "await" /\ notifier'.data = <<>>
  BY <1>1, <1>2, <1>7 DEF TypeOK, Notifiers
<1>9. \A i \in DOMAIN inbox' : inbox'[i].type # NOTIFIER
  <2> SUFFICES ASSUME NEW i \in DOMAIN inbox', inbox'[i].type = NOTIFIER
               PROVE  FALSE
    OBVIOUS
  <2>1. i + 1 \in DOMAIN inbox /\ i + 1 # 1 /\ inbox'[i] = inbox[i + 1]
    BY <1>3
  <2>2. inbox[i + 1].from = NOTIFIER
    BY <2>1, NoticeIs
  <2> QED BY <1>2, <1>4, <1>7, <2>1, <2>2 DEF InboxOK
<1> HIDE DEF k, l
<1>10. k + l < LENGTH
  BY <1>5, <1>6
<1>11. Holds(after, g) /\ after.count = k + l
  BY <1>5, <1>6, <1>10, ProducedHolds DEF k, l
<1> HIDE DEF after, data
<1>12. k + l \in Nat /\ h = g + (k + l) /\ h = h + 0
  BY <1>5, <1>6
<1>13. Len(<<>>) = 0 /\ DOMAIN <<>> = {}
  OBVIOUS
<1>14. ASSUME NEW new \in Nat, Holds(train_in', new), got' = Number(new),
              new + train_in'.count = h, g <= new
       PROVE  AnswerInv'
  <2>1. new + train_in'.count <= h /\ h < new + LENGTH
    BY <1>6, <1>14
  <2>2. /\ h = new + train_in'.count + Len(notifier'.data)
        /\ Carries(notifier'.data, new + train_in'.count)
    BY <1>8, <1>12, <1>13, <1>14 DEF Carries
  <2>3. Brought(new, h)'
    BY <1>1, <1>6, <1>8, <1>9, <1>14, <2>1, <2>2 DEF Brought
  <2> QED BY <2>3, AnswersFrom
<1>15. CASE ~Enough(after)
  <2>1. train_in' = after /\ got' = got
    BY <1>1, <1>15
  <2> QED BY <1>6, <1>11, <1>12, <1>14, <2>1
<1>16. CASE Enough(after)
  <2>1. /\ ts_deliver_request(after, get_tid, get_expecting)
        /\ get_expecting \in 0 .. after.count
    <3>1. get_expecting \in Nat /\ after.count >= get_expecting
      BY <1>2, <1>16 DEF Enough, cbuf_count, TypeOK
    <3> QED BY <1>1, <1>11, <1>12, <1>16, <3>1
  <2>2. /\ Holds(train_in', g + get_expecting)
        /\ train_in'.count = after.count - get_expecting
        /\ got' = Number(g + get_expecting)
    BY <1>6, <1>11, <2>1, DeliveredHolds
  <2>3. /\ g + get_expecting \in Nat /\ g <= g + get_expecting
        /\ (g + get_expecting) + train_in'.count = h
    BY <1>6, <1>11, <1>12, <2>1, <2>2
  <2> QED BY <1>14, <2>2, <2>3
<1> QED BY <1>15, <1>16

LEMMA AnswerStep ==
  ControlInv /\ AnswerInv /\ [Next]_vars => AnswerInv'
<1> SUFFICES ASSUME ControlInv, AnswerInv, [Next]_vars PROVE AnswerInv'
  OBVIOUS
<1>1. CASE UNCHANGED vars
  BY <1>1 DEF vars, server, AnswerInv, AnswersInOrder, Brought
<1>2. CASE aborted' /\ UNCHANGED got
  BY <1>2 DEF AnswerInv, AnswersInOrder
<1> SUFFICES ASSUME Next PROVE AnswerInv'
  BY <1>1
<1>3. ~aborted
  BY DEF Next, Put, Get, Call, Server, Receive, ReceiveCarrier, ReceivePut,
         ReceiveGet, ReceiveNotify, Carrier, CarrierAsks, AwaitCts,
         irq_uart1_send, AwaitDown, CarrierGoes, Line, LineFalls, LineRises,
         irq_uart1_recv, Notify
<1>4. PICK g, h : Brought(g, h)
  BY <1>3 DEF AnswerInv
<1>5. TypeOK
  BY DEF ControlInv
<1>6. CASE /\ UNCHANGED <<got, come, train_in, notifier>>
           /\ \/ UNCHANGED inbox
              \/ inbox # <<>> /\ inbox' = Tail(inbox)
              \/ \E r \in Requests : /\ r.type # NOTIFIER
                                     /\ inbox' = Append(inbox, r)
  BY <1>4, <1>5, <1>6, NoNewNotice, BroughtStays
<1>7. ASSUME NEW c \in Clients, NEW size,
             \/ size \in COMMANDS /\ Put(c, size)
             \/ size \in GETS /\ Get(c, size)
      PROVE  AnswerInv'
  <2>1. PICK type \in {"put", "get"}, first \in Int :
          Call(c, type, Numbered(first, size))
    BY <1>5, <1>7 DEF Put, Get, TypeOK
  <2>2. Numbered(first, size) \in Seq(Int)
    <3>1. size \in 1 .. PAYLOAD
      BY <1>7, PayloadAssumption, Zenon
    <3>2. size \in Nat
      BY <3>1, PayloadAssumption
    <3> QED BY <3>2, NumberedIs
  <2> DEFINE r == Request(type, c, Numbered(first, size))
  <2>3. r \in Requests /\ r.type # NOTIFIER
    BY <2>2 DEF Request, Requests, NOTIFIER
  <2>4. /\ inbox' = Append(inbox, r)
        /\ UNCHANGED <<got, come, train_in, notifier>>
    BY <2>1 DEF Call, server
  <2> QED BY <1>6, <2>3, <2>4
<1>8. CASE CarrierAsks
  <2> DEFINE r == Request(CARRIER, CARRIER, <<>>)
  <2>1. /\ inbox' = Append(inbox, r)
        /\ UNCHANGED <<got, come, train_in, notifier>>
    BY <1>8 DEF CarrierAsks, server
  <2>2. r \in Requests /\ r.type # NOTIFIER
    <3>1. <<>> \in Seq(Int)
      OBVIOUS
    <3> QED BY <3>1 DEF Request, Requests, CARRIER, NOTIFIER
  <2> QED BY <1>6, <2>1, <2>2
<1>9. CASE Line \/ AwaitCts \/ AwaitDown \/ irq_uart1_send
  BY <1>6, <1>9 DEF Line, LineFalls, LineRises, AwaitCts, AwaitDown,
                    irq_uart1_send, CarrierGoes, server
<1>10. CASE ReceiveCarrier \/ ReceivePut
  BY <1>6, <1>10 DEF ReceiveCarrier, ReceivePut, Receive, Abort, server
<1>11. CASE irq_uart1_recv
  <2>1. CASE notifier.at = "await"
    BY <1>3, <1>4, <1>11, <2>1, RecvAnswers
  <2>2. CASE notifier.at # "await"
    BY <1>2, <1>11, <2>2 DEF irq_uart1_recv, Abort
  <2> QED BY <2>1, <2>2
<1>12. CASE Notify
  BY <1>3, <1>4, <1>12, NotifyAnswers
<1>13. CASE ReceiveGet
  <2>1. CASE aborted'
    <3>1. UNCHANGED got
      BY <1>3, <1>13, <2>1 DEF ReceiveGet
    <3> QED BY <1>2, <2>1, <3>1
  <2>2. CASE ~aborted'
    BY <1>3, <1>4, <1>13, <2>2, ReceiveGetAnswers
  <2> QED BY <2>1, <2>2
<1>14. CASE ReceiveNotify
  BY <1>3, <1>4, <1>14, ReceiveNotifyAnswers
<1> QED BY <1>7, <1>8, <1>9, <1>10, <1>11, <1>12, <1>13, <1>14
        DEF Next, Server, Carrier

(* What the clients read is what the train sent, each byte once and in     *)
(* order, the first of an answer the highest of the number that is read.   *)
THEOREM AnswersComeInOrder == Spec => []AnswersInOrder
<1>1. AnswerInv => AnswersInOrder
  BY DEF AnswerInv
<1> QED BY <1>1, AnswersInit, AnswerStep, ControlIsKept, PTL DEF Spec
=============================================================================

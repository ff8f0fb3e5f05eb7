------------------------ MODULE PriorityQueueProofs ------------------------
(***************************************************************************)
(* The priority queue, for a heap of any even size, any keys and any       *)
(* values, equal ones too.                                                 *)
(*                                                                         *)
(* pq_add (HeapAdds) and pq_delete (HeapDeletes) leave a heap in order     *)
(* with the nodes it had, but for the one that was added or the smallest   *)
(* that was taken, in some other order of the array.  Of the loops in them *)
(* it is proved that they end, and that what each round keeps holds then.  *)
(***************************************************************************)
EXTENDS PriorityQueue, Bags, FiniteSetTheorems, WellFoundedInduction,
        NaturalsInduction, TLAPS

-----------------------------------------------------------------------------
(* Loops.                                                                  *)

(* A nonempty set of natural numbers has a least one.                      *)
LEMMA LeastNatural ==
  ASSUME NEW S \in SUBSET Nat, S # {}
  PROVE  \E x \in S : \A y \in S : x <= y
<1> DEFINE R == {ss \in Nat \X Nat : ss[1] < ss[2]}
<1>1. IsWellFoundedOn(R, Nat)
  BY NatLessThanWellFounded DEF OpToRel
<1>2. PICK x \in S : \A y \in S : ~(<<y, x>> \in R)
  <2> HIDE DEF R
  <2> QED BY <1>1, WFMin
<1>3. ASSUME NEW y \in S PROVE x <= y
  <2>1. <<y, x>> \in Nat \X Nat /\ <<y, x>>[1] = y /\ <<y, x>>[2] = x
    OBVIOUS
  <2>2. ~(y < x)
    BY <1>2, <2>1
  <2> QED BY <2>2
<1> QED BY <1>3

(***************************************************************************)
(* A loop goes from one state of D to the next until it is in Stop, and    *)
(* rank falls in every round.  It is written as a recursive function:      *)
(* there is a function that satisfies the equation, since one for the      *)
(* states of rank up to n extends to those of rank n + 1.                  *)
(***************************************************************************)
Loops(D, Stop, next, rank) ==
  /\ rank \in [D -> Nat]
  /\ \A d \in D \ Stop : next[d] \in D /\ rank[next[d]] < rank[d]

LEMMA LoopIsDefined ==
  ASSUME NEW D, NEW Stop, NEW next, NEW rank, NEW out,
         Loops(D, Stop, next, rank)
  PROVE  \E f : f = [d \in D |-> IF d \in Stop THEN out[d] ELSE f[next[d]]]
<1> DEFINE Part(n) == {d \in D : rank[d] < n}
           Fix(f, n) ==
             f = [d \in Part(n) |-> IF d \in Stop THEN out[d] ELSE f[next[d]]]
           Bad == {n \in Nat : ~ \E f : Fix(f, n)}
<1>0. /\ \A d \in D : rank[d] \in Nat
      /\ \A d \in D \ Stop : next[d] \in D /\ rank[next[d]] < rank[d]
  BY DEF Loops
<1>1. Bad = {}
  <2> SUFFICES ASSUME Bad # {} PROVE FALSE
    OBVIOUS
  <2>1. Bad \in SUBSET Nat
    OBVIOUS
  <2>2. PICK n \in Bad : \A k \in Bad : n <= k
    <3> HIDE DEF Bad
    <3> QED BY <2>1, LeastNatural
  <2>3. n \in Nat /\ ~ \E f : Fix(f, n)
    OBVIOUS
  <2>4. CASE n = 0
    <3>1. Part(n) = {}
      BY <1>0, <2>4
    <3> DEFINE e == [d \in {} |-> d]
    <3>2. Fix(e, n)
      BY <3>1
    <3> QED BY <2>3, <3>2
  <2>5. CASE n # 0
    <3>1. n - 1 \in Nat /\ n - 1 < n
      BY <2>3, <2>5
    <3>2. n - 1 \notin Bad
      <4>1. ~(n <= n - 1)
        BY <3>1
      <4> HIDE DEF Bad
      <4> QED BY <2>2, <4>1
    <3>3. PICK f : Fix(f, n - 1)
      <4> HIDE DEF Fix
      <4> QED BY <3>1, <3>2, Zenon
    <3> DEFINE g == [d \in Part(n) |->
                       IF d \in Stop THEN out[d] ELSE f[next[d]]]
    <3>4. ASSUME NEW d \in Part(n - 1)
          PROVE  d \in Part(n) /\ g[d] = f[d]
      <4>1. d \in D /\ rank[d] < n - 1 /\ rank[d] \in Nat
        BY <1>0, <3>4
      <4>2. d \in Part(n)
        BY <2>3, <4>1
      <4>3. f[d] = IF d \in Stop THEN out[d] ELSE f[next[d]]
        BY <3>3, <3>4, Zenon
      <4> QED BY <4>2, <4>3
    <3>5. ASSUME NEW d \in Part(n), d \notin Stop
          PROVE  next[d] \in Part(n - 1)
      BY <1>0, <2>3, <3>5
    <3>6. Fix(g, n)
      <4>1. ASSUME NEW d \in Part(n)
            PROVE  (IF d \in Stop THEN out[d] ELSE f[next[d]])
                   = (IF d \in Stop THEN out[d] ELSE g[next[d]])
        <5> HIDE DEF g, Part
        <5> QED BY <3>4, <3>5, <4>1
      <4> QED BY <4>1, Zenon
    <3> QED BY <2>3, <3>6, Zenon
  <2> QED BY <2>4, <2>5
<1>2. \A n \in Nat : \E f : Fix(f, n)
  BY <1>1
<1> DEFINE F(n) == CHOOSE f : Fix(f, n)
           whole == [d \in D |-> F(rank[d] + 1)[d]]
<1>3. \A n \in Nat : Fix(F(n), n)
  BY <1>2, Zenon
<1>4. ASSUME NEW d \in D, NEW n \in Nat, rank[d] < n
      PROVE  F(n)[d] = IF d \in Stop THEN out[d] ELSE F(n)[next[d]]
  <2>1. d \in Part(n) /\ Fix(F(n), n)
    BY <1>3, <1>4, Zenon
  <2> HIDE DEF F, Part
  <2> QED BY <2>1, Zenon
<1> HIDE DEF F, Fix, Part
<1>5. \A d \in D, m \in Nat, n \in Nat :
        rank[d] < m /\ rank[d] < n => F(m)[d] = F(n)[d]
  <2> DEFINE Differ(d) == \E m \in Nat, n \in Nat :
                /\ rank[d] < m /\ rank[d] < n /\ F(m)[d] # F(n)[d]
             Ranks == {r \in Nat : \E d \in D : rank[d] = r /\ Differ(d)}
  <2> SUFFICES ASSUME NEW d0 \in D, Differ(d0) PROVE FALSE
    BY Zenon
  <2>1. Ranks \in SUBSET Nat /\ rank[d0] \in Ranks
    BY <1>0
  <2>2. PICK r \in Ranks : \A k \in Ranks : r <= k
    <3> HIDE DEF Ranks
    <3> QED BY <2>1, LeastNatural
  <2>3. PICK d \in D : rank[d] = r /\ Differ(d)
    BY <2>2
  <2>4. PICK m \in Nat, n \in Nat :
          rank[d] < m /\ rank[d] < n /\ F(m)[d] # F(n)[d]
    BY <2>3
  <2>5. d \notin Stop /\ F(m)[next[d]] # F(n)[next[d]]
    BY <1>4, <2>4
  <2>6. next[d] \in D /\ rank[next[d]] < rank[d] /\ rank[next[d]] \in Nat
    BY <1>0, <2>5
  <2>7. rank[next[d]] < m /\ rank[next[d]] < n
    BY <1>0, <2>4, <2>6
  <2>8. Differ(next[d])
    BY <2>5, <2>7, Zenon
  <2>9. rank[next[d]] \in Ranks
    <3> HIDE DEF Differ
    <3> QED BY <2>6, <2>8
  <2> QED BY <2>2, <2>3, <2>6, <2>9, <1>0
<1>6. ASSUME NEW d \in D
      PROVE  whole[d] = IF d \in Stop THEN out[d] ELSE whole[next[d]]
  <2>1. rank[d] \in Nat /\ rank[d] + 1 \in Nat /\ rank[d] < rank[d] + 1
    BY <1>0
  <2>2. whole[d] = IF d \in Stop THEN out[d] ELSE F(rank[d] + 1)[next[d]]
    BY <1>4, <2>1
  <2>3. CASE d \notin Stop
    <3>1. /\ next[d] \in D /\ rank[next[d]] + 1 \in Nat
          /\ rank[next[d]] < rank[next[d]] + 1
          /\ rank[next[d]] < rank[d] + 1
      BY <1>0, <2>1, <2>3
    <3>2. F(rank[d] + 1)[next[d]] = F(rank[next[d]] + 1)[next[d]]
      BY <1>5, <2>1, <3>1
    <3> QED BY <2>2, <2>3, <3>1, <3>2
  <2> QED BY <2>2, <2>3
<1> HIDE DEF whole
<1>7. whole = [d \in D |-> IF d \in Stop THEN out[d] ELSE whole[next[d]]]
  <2>1. whole = [d \in D |-> whole[d]]
    BY DEF whole
  <2> QED BY <1>6, <2>1, Zenon
<1> QED BY <1>7, Zenon

(* What holds at the start of a loop, and is kept by its rounds, holds     *)
(* where it stops.                                                         *)
LEMMA LoopEnds ==
  ASSUME NEW D, NEW Stop, NEW next, NEW rank, NEW out, NEW f,
         Loops(D, Stop, next, rank),
         \A d \in D : f[d] = IF d \in Stop THEN out[d] ELSE f[next[d]],
         NEW Good \in SUBSET D,
         \A d \in Good : d \notin Stop => next[d] \in Good,
         NEW s \in Good
  PROVE  \E e \in Good : e \in Stop /\ f[s] = out[e]
<1> DEFINE Ends(d) == \E e \in Good : e \in Stop /\ f[d] = out[e]
           Ranks == {r \in Nat : \E d \in Good : rank[d] = r /\ ~Ends(d)}
<1>0. /\ \A d \in D : rank[d] \in Nat
      /\ \A d \in D \ Stop : next[d] \in D /\ rank[next[d]] < rank[d]
  BY DEF Loops
<1> SUFFICES ASSUME ~Ends(s) PROVE FALSE
  OBVIOUS
<1>1. Ranks \in SUBSET Nat /\ Ranks # {}
  BY <1>0
<1>2. PICK r \in Ranks : \A k \in Ranks : r <= k
  <2> HIDE DEF Ranks
  <2> QED BY <1>1, LeastNatural
<1>3. PICK d \in Good : rank[d] = r /\ ~Ends(d)
  BY <1>2
<1>4. d \notin Stop
  BY <1>3
<1>5. next[d] \in Good /\ f[d] = f[next[d]] /\ rank[next[d]] < rank[d]
  BY <1>0, <1>4
<1>6. ~Ends(next[d])
  BY <1>3, <1>5
<1>7. rank[next[d]] \in Ranks
  <2> HIDE DEF Ends
  <2> QED BY <1>0, <1>5, <1>6
<1> QED BY <1>0, <1>2, <1>3, <1>5, <1>7
-----------------------------------------------------------------------------
(* The two loops of the heap.                                              *)

LEMMA SwapIsHeap ==
  ASSUME NEW h \in Heaps, NEW i \in Slots, NEW j \in Slots
  PROVE  /\ Swap(h, i, j) \in Heaps
         /\ Swap(h, i, j)[i] = IF i = j THEN h[i] ELSE h[j]
         /\ Swap(h, i, j)[j] = h[i]
         /\ \A k \in Slots : k # i /\ k # j => Swap(h, i, j)[k] = h[k]
BY DEF Swap, Heaps

(* A parent comes before its child.                                        *)
LEMMA ParentIs ==
  ASSUME NEW i \in Slots
  PROVE  /\ PARENT(i) \in Slots
         /\ i = 2 * PARENT(i) \/ i = 2 * PARENT(i) + 1
         /\ i # 0 => PARENT(i) < i
         /\ i = 0 => PARENT(i) = 0
BY SizeAssumption, Z3 DEF Slots, PARENT

LEMMA ParentOf ==
  ASSUME NEW i \in Slots, NEW j \in Slots, PARENT(j) = i
  PROVE  j = LEFT(i) \/ j = RIGHT(i)
BY ParentIs DEF LEFT, RIGHT

(* The child with which a node changes places comes after it.              *)
LEMMA SmallestIs ==
  ASSUME NEW h \in Heaps, NEW i \in Slots, LEFT(i) < SIZE
  PROVE  /\ LEFT(i) \in Slots /\ RIGHT(i) \in Slots
         /\ Smallest(h, i) \in Slots
         /\ h[Smallest(h, i)].key <= h[i].key
         /\ h[Smallest(h, i)].key <= h[LEFT(i)].key
         /\ h[Smallest(h, i)].key <= h[RIGHT(i)].key
         /\ Smallest(h, i) # i =>
              /\ h[Smallest(h, i)].key < h[i].key
              /\ i < Smallest(h, i)
              /\ PARENT(Smallest(h, i)) = i
<1>1. i \in Nat /\ LEFT(i) \in Nat /\ RIGHT(i) = LEFT(i) + 1 /\ i <= LEFT(i)
  BY DEF Slots, LEFT, RIGHT
<1>2. LEFT(i) \in Slots /\ RIGHT(i) \in Slots
  <2>1. SIZE \in Nat /\ SIZE % 2 = 0 /\ 2 * i < SIZE
    BY SizeAssumption DEF LEFT
  <2>2. 2 * i + 1 < SIZE
    BY <1>1, <2>1, Z3
  <2> QED BY <1>1, <2>1, <2>2 DEF Slots, LEFT, RIGHT
<1>3. PARENT(LEFT(i)) = i /\ PARENT(RIGHT(i)) = i
  BY <1>1, Z3 DEF PARENT, LEFT, RIGHT
<1>4. h[i].key \in Int /\ h[LEFT(i)].key \in Int /\ h[RIGHT(i)].key \in Int
  BY <1>2 DEF Heaps, Nodes
<1>5. LEFT(i) # i => i < LEFT(i)
  BY <1>1, <1>2 DEF Slots
<1> DEFINE l == IF h[LEFT(i)].key < h[i].key THEN LEFT(i) ELSE i
<1>6. /\ l \in Slots /\ h[l].key <= h[i].key /\ h[l].key <= h[LEFT(i)].key
      /\ h[l].key \in Int
      /\ l # i => h[l].key < h[i].key /\ i < l /\ PARENT(l) = i
  BY <1>2, <1>3, <1>4, <1>5
<1>7. Smallest(h, i) = IF h[RIGHT(i)].key < h[l].key THEN RIGHT(i) ELSE l
  BY DEF Smallest
<1> HIDE DEF l
<1> QED BY <1>1, <1>2, <1>3, <1>4, <1>6, <1>7

(* What the rounds of pq_add keep holds when its node rises no more.       *)
LEMMA BubbleUpEnds ==
  ASSUME NEW heap \in Heaps, NEW start \in Slots,
         NEW Good \in SUBSET LoopStates, <<heap, start>> \in Good,
         \A h \in Heaps, i \in Slots : <<h, i>> \in Good /\ Rises(h, i) =>
           <<Swap(h, i, PARENT(i)), PARENT(i)>> \in Good
  PROVE  \E h \in Heaps, i \in Slots :
           <<h, i>> \in Good /\ ~Rises(h, i) /\ BubbleUp(heap, start) = h
<1> DEFINE Step(f) == [s \in LoopStates |->
                         IF Rises(s[1], s[2])
                         THEN f[<<Swap(s[1], s[2], PARENT(s[2])),
                                  PARENT(s[2])>>]
                         ELSE s[1]]
           up == CHOOSE f : f = Step(f)
           Stop == {s \in LoopStates : ~Rises(s[1], s[2])}
           next == [s \in LoopStates |->
                      <<Swap(s[1], s[2], PARENT(s[2])), PARENT(s[2])>>]
           rank == [s \in LoopStates |-> s[2]]
           out == [s \in LoopStates |-> s[1]]
<1>1. BubbleUp(heap, start) = up[<<heap, start>>]
  BY DEF BubbleUp
<1>2. \A s \in LoopStates : /\ s[1] \in Heaps /\ s[2] \in Slots
                            /\ s = <<s[1], s[2]>>
  BY DEF LoopStates
<1>3. Loops(LoopStates, Stop, next, rank)
  <2>1. rank \in [LoopStates -> Nat]
    BY <1>2 DEF Slots
  <2>2. ASSUME NEW s \in LoopStates, s \notin Stop
        PROVE  next[s] \in LoopStates /\ rank[next[s]] < rank[s]
    <3> DEFINE h == s[1]
               i == s[2]
    <3>1. h \in Heaps /\ i \in Slots /\ Rises(h, i)
      BY <1>2, <2>2
    <3>2. i # 0
      BY <3>1, ParentIs DEF Rises, Heaps, Nodes
    <3>3. PARENT(i) \in Slots /\ PARENT(i) < i
      BY <3>1, <3>2, ParentIs
    <3>4. Swap(h, i, PARENT(i)) \in Heaps
      BY <3>1, <3>3, SwapIsHeap
    <3>5. next[s] = <<Swap(h, i, PARENT(i)), PARENT(i)>>
      OBVIOUS
    <3>6. next[s] \in LoopStates /\ next[s][2] = PARENT(i)
      BY <3>3, <3>4, <3>5 DEF LoopStates
    <3> HIDE DEF next
    <3> QED BY <3>3, <3>6
  <2> QED BY <2>1, <2>2 DEF Loops
<1>4. PICK g : g = [s \in LoopStates |-> IF s \in Stop THEN out[s]
                                         ELSE g[next[s]]]
  <2> HIDE DEF Stop, next, rank, out
  <2> QED BY <1>3, LoopIsDefined
<1>5. g = Step(g)
  <2>1. \A s \in LoopStates :
          (IF s \in Stop THEN out[s] ELSE g[next[s]]) =
          (IF Rises(s[1], s[2])
           THEN g[<<Swap(s[1], s[2], PARENT(s[2])), PARENT(s[2])>>]
           ELSE s[1])
    OBVIOUS
  <2> QED BY <1>4, <2>1, Zenon
<1>6. up = Step(up)
  <2> HIDE DEF Step
  <2> QED BY <1>5, Zenon
<1> HIDE DEF up
<1>7. \A s \in LoopStates : up[s] = IF s \in Stop THEN out[s] ELSE up[next[s]]
  <2>1. ASSUME NEW s \in LoopStates
        PROVE  up[s] = IF Rises(s[1], s[2])
                 THEN up[<<Swap(s[1], s[2], PARENT(s[2])), PARENT(s[2])>>]
                 ELSE s[1]
    BY <1>6, Zenon
  <2> QED BY <2>1
<1>8. \A s \in Good : s \notin Stop => next[s] \in Good
  <2> SUFFICES ASSUME NEW s \in Good, s \notin Stop PROVE next[s] \in Good
    OBVIOUS
  <2>1. /\ s \in LoopStates /\ s[1] \in Heaps /\ s[2] \in Slots
        /\ s = <<s[1], s[2]>> /\ Rises(s[1], s[2])
    BY <1>2
  <2>2. next[s] = <<Swap(s[1], s[2], PARENT(s[2])), PARENT(s[2])>>
    BY <2>1
  <2> HIDE DEF next
  <2> QED BY <2>1, <2>2
<1>9. PICK e \in Good : e \in Stop /\ up[<<heap, start>>] = out[e]
  <2> HIDE DEF Stop, next, rank, out
  <2> QED BY <1>3, <1>7, <1>8, LoopEnds
<1>10. /\ e[1] \in Heaps /\ e[2] \in Slots /\ <<e[1], e[2]>> \in Good
       /\ ~Rises(e[1], e[2]) /\ out[e] = e[1]
  BY <1>2, <1>9
<1> HIDE DEF out
<1> QED BY <1>1, <1>9, <1>10

(* What the rounds of pq_delete keep holds when its node sinks no more.    *)
LEMMA BubbleDownEnds ==
  ASSUME NEW heap \in Heaps,
         NEW Good \in SUBSET LoopStates, <<heap, 0>> \in Good,
         \A h \in Heaps, i \in Slots : <<h, i>> \in Good /\ Sinks(h, i) =>
           <<Swap(h, i, Smallest(h, i)), Smallest(h, i)>> \in Good
  PROVE  \E h \in Heaps, i \in Slots :
           <<h, i>> \in Good /\ ~Sinks(h, i) /\ BubbleDown(heap) = h
<1> DEFINE Step(f) == [s \in LoopStates |->
                         IF Sinks(s[1], s[2])
                         THEN f[<<Swap(s[1], s[2], Smallest(s[1], s[2])),
                                  Smallest(s[1], s[2])>>]
                         ELSE s[1]]
           down == CHOOSE f : f = Step(f)
           Stop == {s \in LoopStates : ~Sinks(s[1], s[2])}
           next == [s \in LoopStates |->
                      <<Swap(s[1], s[2], Smallest(s[1], s[2])),
                        Smallest(s[1], s[2])>>]
           rank == [s \in LoopStates |-> SIZE - s[2]]
           out == [s \in LoopStates |-> s[1]]
<1>1. BubbleDown(heap) = down[<<heap, 0>>]
  BY DEF BubbleDown
<1>2. \A s \in LoopStates : /\ s[1] \in Heaps /\ s[2] \in Slots
                            /\ s = <<s[1], s[2]>>
  BY DEF LoopStates
<1>3. Loops(LoopStates, Stop, next, rank)
  <2>1. rank \in [LoopStates -> Nat]
    BY <1>2, SizeAssumption DEF Slots
  <2>2. ASSUME NEW s \in LoopStates, s \notin Stop
        PROVE  next[s] \in LoopStates /\ rank[next[s]] < rank[s]
    <3> DEFINE h == s[1]
               i == s[2]
    <3>1. h \in Heaps /\ i \in Slots /\ Sinks(h, i)
      BY <1>2, <2>2
    <3>3. Smallest(h, i) \in Slots /\ i < Smallest(h, i)
      BY <3>1, SmallestIs DEF Sinks
    <3>4. Swap(h, i, Smallest(h, i)) \in Heaps
      BY <3>1, <3>3, SwapIsHeap
    <3>5. next[s] = <<Swap(h, i, Smallest(h, i)), Smallest(h, i)>>
      OBVIOUS
    <3>6. next[s] \in LoopStates /\ next[s][2] = Smallest(h, i)
      BY <3>3, <3>4, <3>5 DEF LoopStates
    <3> HIDE DEF next
    <3> QED BY <3>1, <3>3, <3>6, SizeAssumption DEF Slots
  <2> QED BY <2>1, <2>2 DEF Loops
<1>4. PICK g : g = [s \in LoopStates |-> IF s \in Stop THEN out[s]
                                         ELSE g[next[s]]]
  <2> HIDE DEF Stop, next, rank, out
  <2> QED BY <1>3, LoopIsDefined
<1>5. g = Step(g)
  <2>1. \A s \in LoopStates :
          (IF s \in Stop THEN out[s] ELSE g[next[s]]) =
          (IF Sinks(s[1], s[2])
           THEN g[<<Swap(s[1], s[2], Smallest(s[1], s[2])),
                    Smallest(s[1], s[2])>>]
           ELSE s[1])
    OBVIOUS
  <2> QED BY <1>4, <2>1, Zenon
<1>6. down = Step(down)
  <2> HIDE DEF Step
  <2> QED BY <1>5, Zenon
<1> HIDE DEF down
<1>7. \A s \in LoopStates : down[s] = IF s \in Stop THEN out[s]
                                      ELSE down[next[s]]
  <2>1. ASSUME NEW s \in LoopStates
        PROVE  down[s] = IF Sinks(s[1], s[2])
                 THEN down[<<Swap(s[1], s[2], Smallest(s[1], s[2])),
                             Smallest(s[1], s[2])>>]
                 ELSE s[1]
    BY <1>6, Zenon
  <2> QED BY <2>1
<1>8. \A s \in Good : s \notin Stop => next[s] \in Good
  <2> SUFFICES ASSUME NEW s \in Good, s \notin Stop PROVE next[s] \in Good
    OBVIOUS
  <2>1. /\ s \in LoopStates /\ s[1] \in Heaps /\ s[2] \in Slots
        /\ s = <<s[1], s[2]>> /\ Sinks(s[1], s[2])
    BY <1>2
  <2>2. next[s] = <<Swap(s[1], s[2], Smallest(s[1], s[2])),
                    Smallest(s[1], s[2])>>
    BY <2>1
  <2> HIDE DEF next
  <2> QED BY <2>1, <2>2
<1>9. PICK e \in Good : e \in Stop /\ down[<<heap, 0>>] = out[e]
  <2> HIDE DEF Stop, next, rank, out
  <2> QED BY <1>3, <1>7, <1>8, LoopEnds
<1>10. /\ e[1] \in Heaps /\ e[2] \in Slots /\ <<e[1], e[2]>> \in Good
       /\ ~Sinks(e[1], e[2]) /\ out[e] = e[1]
  BY <1>2, <1>9
<1> HIDE DEF out
<1> QED BY <1>1, <1>9, <1>10

-----------------------------------------------------------------------------
(* What a heap is.                                                         *)

Entries == [key : {k \in Int : k <= INT_MAX}, val : VALUES]

(* The first n nodes of h are in use.                                      *)
Fits(h, n) ==
  /\ n \in 0 .. SIZE
  /\ h \in Heaps
  /\ \A i \in Slots : IF i < n THEN h[i] \in Entries ELSE h[i] = Free

Ordered(h) == \A j \in Slots \ {0} : h[PARENT(j)].key <= h[j].key

IsHeap(pq) ==
  /\ pq = [count |-> pq.count, heap |-> pq.heap]
  /\ Fits(pq.heap, pq.count)
  /\ Ordered(pq.heap)

(* The first n nodes of h are those of g, in some order: node i of h was   *)
(* node p[i] of g.                                                         *)
SameNodes(h, g, n) ==
  \E p \in [0 .. n - 1 -> 0 .. n - 1] :
    /\ \A i, j \in 0 .. n - 1 : p[i] = p[j] => i = j
    /\ \A j \in 0 .. n - 1 : \E i \in 0 .. n - 1 : p[i] = j
    /\ \A i \in 0 .. n - 1 : h[i] = g[p[i]]

LEMMA SameIfEqual ==
  ASSUME NEW h, NEW g, NEW n \in Nat, \A i \in 0 .. n - 1 : h[i] = g[i]
  PROVE  SameNodes(h, g, n)
<1> DEFINE p == [i \in 0 .. n - 1 |-> i]
<1>1. /\ p \in [0 .. n - 1 -> 0 .. n - 1]
      /\ \A i \in 0 .. n - 1 : p[i] = i
  OBVIOUS
<1> HIDE DEF p
<1> QED BY <1>1 DEF SameNodes

(* The exchange of two nodes in use.                                       *)
LEMMA SwapKeeps ==
  ASSUME NEW h, NEW n, Fits(h, n), NEW i \in 0 .. n - 1, NEW j \in 0 .. n - 1,
         NEW g, SameNodes(h, g, n)
  PROVE  /\ Fits(Swap(h, i, j), n)
         /\ SameNodes(Swap(h, i, j), g, n)
<1> DEFINE s == Swap(h, i, j)
           to == [k \in Slots |-> IF k = i THEN j ELSE IF k = j THEN i ELSE k]
<1>1. /\ n \in Nat /\ n <= SIZE /\ h \in Heaps
      /\ \A k \in 0 .. n - 1 : k \in Slots /\ k < n
      /\ \A k \in Slots : k < n => k \in 0 .. n - 1
  BY SizeAssumption DEF Fits, Slots
<1>2. s \in Heaps /\ \A k \in Slots : s[k] = h[to[k]]
  <2>1. i \in Slots /\ j \in Slots
    BY <1>1
  <2>2. /\ s \in Heaps
        /\ s[i] = IF i = j THEN h[i] ELSE h[j]
        /\ s[j] = h[i]
        /\ \A k \in Slots : k # i /\ k # j => s[k] = h[k]
    BY <1>1, <2>1, SwapIsHeap
  <2>3. \A k \in Slots : to[k] = IF k = i THEN j ELSE IF k = j THEN i ELSE k
    OBVIOUS
  <2> HIDE DEF s, to
  <2> QED BY <2>2, <2>3
<1>3. /\ \A k \in 0 .. n - 1 : to[k] \in 0 .. n - 1 /\ to[to[k]] = k
      /\ \A k \in Slots : k < n <=> to[k] < n
      /\ \A k \in Slots : ~(k < n) => to[k] = k
      /\ \A k \in Slots : to[k] \in Slots
  BY <1>1
<1> HIDE DEF s, to
<1>4. \A k \in Slots : IF k < n THEN s[k] \in Entries ELSE s[k] = Free
  BY <1>2, <1>3 DEF Fits
<1> DEFINE D == 0 .. n - 1
<1>5. SameNodes(s, g, n)
  <2>1. PICK p \in [D -> D] :
          /\ \A k, l \in D : p[k] = p[l] => k = l
          /\ \A l \in D : \E k \in D : p[k] = l
          /\ \A k \in D : h[k] = g[p[k]]
    BY DEF SameNodes
  <2> DEFINE r == [k \in D |-> p[to[k]]]
  <2>2. /\ \A k \in D : to[k] \in D /\ to[to[k]] = k
        /\ \A k \in D : s[k] = h[to[k]]
    BY <1>1, <1>2, <1>3
  <2> HIDE DEF D
  <2>3. /\ r \in [D -> D]
        /\ \A k \in D : r[k] = p[to[k]]
    BY <2>2
  <2> HIDE DEF r
  <2>4. \A k, l \in D : r[k] = r[l] => k = l
    BY <2>1, <2>2, <2>3
  <2>5. \A l \in D : \E k \in D : r[k] = l
    BY <2>1, <2>2, <2>3
  <2>6. \A k \in D : s[k] = g[r[k]]
    BY <2>1, <2>2, <2>3
  <2> QED BY <2>3, <2>4, <2>5, <2>6 DEF SameNodes, D
<1>6. Fits(s, n)
  BY <1>2, <1>4 DEF Fits
<1> QED BY <1>5, <1>6 DEF s

(* The root has the smallest key.                                          *)
LEMMA RootIsLeast ==
  ASSUME NEW h \in Heaps, Ordered(h)
  PROVE  \A i \in Slots : h[0].key <= h[i].key
<1> DEFINE Bad == {i \in Slots : ~(h[0].key <= h[i].key)}
<1>1. Bad \in SUBSET Nat
  BY DEF Slots
<1> SUFFICES ASSUME Bad # {} PROVE FALSE
  OBVIOUS
<1>2. PICK i \in Bad : \A j \in Bad : i <= j
  <2> HIDE DEF Bad
  <2> QED BY <1>1, LeastNatural
<1>3. /\ i \in Slots /\ ~(h[0].key <= h[i].key) /\ 0 \in Slots
      /\ \A j \in Slots : h[j].key \in Int
  BY SizeAssumption DEF Heaps, Nodes, Slots
<1>4. i # 0
  BY <1>3
<1>5. PARENT(i) \in Slots /\ PARENT(i) < i /\ h[PARENT(i)].key <= h[i].key
  BY <1>3, <1>4, ParentIs DEF Ordered
<1>6. PARENT(i) \in Bad
  BY <1>3, <1>5
<1> QED BY <1>2, <1>3, <1>5, <1>6 DEF Slots

(***************************************************************************)
(* pq_add.  While a node rises the heap is in order but for that node, and *)
(* what is below it is above what is above it.                             *)
(***************************************************************************)
Rising(h, i) ==
  /\ \A j \in Slots \ {0, i} : h[PARENT(j)].key <= h[j].key
  /\ i # 0 => \A j \in Slots \ {0} :
       PARENT(j) = i => h[PARENT(i)].key <= h[j].key

LEMMA RiseKeeps ==
  ASSUME NEW h \in Heaps, NEW i \in Slots, Rising(h, i), Rises(h, i)
  PROVE  Rising(Swap(h, i, PARENT(i)), PARENT(i))
<1> DEFINE p == PARENT(i)
           s == Swap(h, i, p)
<1>1. \A j \in Slots : h[j].key \in Int
  BY DEF Heaps, Nodes
<1>2. i # 0
  BY <1>1, ParentIs DEF Rises
<1>3. p \in Slots /\ p < i
  BY <1>2, ParentIs
<1>4. h[i].key < h[p].key
  BY DEF Rises
<1>5. /\ s[i] = h[p] /\ s[p] = h[i]
      /\ \A j \in Slots : j # i /\ j # p => s[j] = h[j]
  BY <1>3, SwapIsHeap
<1>6. \A j \in Slots \ {0} : PARENT(j) \in Slots /\ PARENT(j) < j
  BY ParentIs
<1>7. \A j \in Slots : j \in Int
  BY DEF Slots
<1>8. PARENT(i) = p
  OBVIOUS
<1> HIDE DEF p, s
<1>9. ASSUME NEW j \in Slots \ {0, p}
      PROVE  s[PARENT(j)].key <= s[j].key
  <2>1. CASE j = i
    BY <1>1, <1>3, <1>4, <1>5, <1>8, <2>1
  <2>2. CASE j # i /\ PARENT(j) = i
    BY <1>2, <1>5, <1>8, <2>2 DEF Rising
  <2>3. CASE j # i /\ PARENT(j) = p
    <3>1. h[p].key <= h[j].key
      BY <2>3 DEF Rising
    <3>2. s[PARENT(j)] = h[i] /\ s[j] = h[j]
      BY <1>5, <2>3
    <3> QED BY <1>1, <1>3, <1>4, <3>1, <3>2
  <2>4. CASE j # i /\ PARENT(j) # i /\ PARENT(j) # p
    BY <1>5, <1>6, <2>4 DEF Rising
  <2> QED BY <2>1, <2>2, <2>3, <2>4
<1>10. ASSUME p # 0, NEW j \in Slots \ {0}, PARENT(j) = p
       PROVE  s[PARENT(p)].key <= s[j].key
  <2>1. PARENT(p) \in Slots /\ PARENT(p) < p /\ PARENT(p) # i
    BY <1>3, <1>6, <1>7, <1>10
  <2>2. s[PARENT(p)] = h[PARENT(p)] /\ h[PARENT(p)].key <= h[p].key
    BY <1>3, <1>5, <1>7, <1>10, <2>1 DEF Rising
  <2>3. CASE j = i
    BY <1>5, <2>2, <2>3
  <2>4. CASE j # i
    <3>1. j # p
      BY <1>3, <1>6, <1>7, <1>10
    <3>2. h[p].key <= h[j].key /\ s[j] = h[j]
      BY <1>5, <1>10, <2>4, <3>1 DEF Rising
    <3> QED BY <1>1, <1>3, <2>1, <2>2, <3>2
  <2> QED BY <2>3, <2>4
<1>11. Rising(s, p)
  BY <1>9, <1>10 DEF Rising
<1> QED BY <1>11 DEF s, p

(***************************************************************************)
(* pq_delete.  While a node sinks the heap is in order but below it, and   *)
(* what is below it is below what is above it.                             *)
(***************************************************************************)
Sinking(h, i) ==
  /\ \A j \in Slots \ {0} : PARENT(j) # i => h[PARENT(j)].key <= h[j].key
  /\ i # 0 => \A j \in Slots \ {0} :
       PARENT(j) = i => h[PARENT(i)].key <= h[j].key

LEMMA SinkKeeps ==
  ASSUME NEW h \in Heaps, NEW i \in Slots, Sinking(h, i), Sinks(h, i)
  PROVE  Sinking(Swap(h, i, Smallest(h, i)), Smallest(h, i))
<1> DEFINE m == Smallest(h, i)
           s == Swap(h, i, m)
<1>1. \A j \in Slots : h[j].key \in Int /\ j \in Int
  BY DEF Heaps, Nodes, Slots
<1>2. /\ m \in Slots /\ i < m /\ PARENT(m) = i /\ h[m].key < h[i].key
      /\ h[m].key <= h[LEFT(i)].key /\ h[m].key <= h[RIGHT(i)].key
  BY SmallestIs DEF Sinks
<1>3. \A j \in Slots : PARENT(j) = i => h[m].key <= h[j].key
  <2> SUFFICES ASSUME NEW j \in Slots, PARENT(j) = i
               PROVE  h[m].key <= h[j].key
    OBVIOUS
  <2>1. j = LEFT(i) \/ j = RIGHT(i)
    BY ParentOf
  <2> HIDE DEF m
  <2> QED BY <1>2, <2>1
<1>5. /\ s[i] = h[m] /\ s[m] = h[i]
      /\ \A j \in Slots : j # i /\ j # m => s[j] = h[j]
  BY <1>2, SwapIsHeap
<1>6. \A j \in Slots \ {0} : PARENT(j) \in Slots /\ PARENT(j) < j
  BY ParentIs
<1>7. m # 0
  BY <1>1, <1>2 DEF Slots
<1> HIDE DEF m, s
<1>9. ASSUME NEW j \in Slots \ {0}, PARENT(j) # m
      PROVE  s[PARENT(j)].key <= s[j].key
  <2>1. CASE PARENT(j) = i /\ j = m
    BY <1>1, <1>2, <1>5, <2>1
  <2>2. CASE PARENT(j) = i /\ j # m
    <3>1. j # i
      BY <1>1, <1>6, <2>2
    <3> QED BY <1>3, <1>5, <2>2, <3>1
  <2>3. CASE PARENT(j) # i /\ j = i
    <3>1. h[PARENT(i)].key <= h[m].key
      BY <1>2, <1>7, <1>9, <2>3 DEF Sinking
    <3>2. s[PARENT(j)] = h[PARENT(i)] /\ s[j] = h[m]
      BY <1>5, <1>6, <1>9, <2>3
    <3> QED BY <3>1, <3>2
  <2>4. CASE PARENT(j) # i /\ j # i
    <3>1. j # m
      BY <1>2, <2>4
    <3> QED BY <1>5, <1>6, <1>9, <2>4, <3>1 DEF Sinking
  <2> QED BY <2>1, <2>2, <2>3, <2>4
<1>10. ASSUME NEW j \in Slots \ {0}, PARENT(j) = m
       PROVE  s[PARENT(m)].key <= s[j].key
  <2>1. j # i /\ j # m /\ PARENT(j) # i
    BY <1>1, <1>2, <1>6, <1>10
  <2> QED BY <1>2, <1>5, <1>10, <2>1 DEF Sinking
<1>11. Sinking(s, m)
  BY <1>9, <1>10 DEF Sinking
<1> QED BY <1>11 DEF s, m

LEMMA HeapIs ==
  ASSUME NEW pq, IsHeap(pq)
  PROVE  /\ pq.count \in Nat /\ pq.count <= SIZE
         /\ pq.heap \in Heaps /\ Ordered(pq.heap)
         /\ \A i \in 0 .. pq.count - 1 : i \in Slots /\ pq.heap[i] \in Entries
         /\ \A i \in Slots : ~(i < pq.count) => pq.heap[i] = Free
         /\ \A i \in Slots :
              pq.heap[i].key \in Int /\ pq.heap[i].key <= INT_MAX
<1>1. Fits(pq.heap, pq.count) /\ Ordered(pq.heap)
  BY DEF IsHeap
<1>2. pq.count \in Nat /\ pq.count <= SIZE /\ pq.heap \in Heaps
  BY <1>1, SizeAssumption DEF Fits
<1>3. \A i \in 0 .. pq.count - 1 : i \in Slots /\ i < pq.count
  BY <1>2, SizeAssumption DEF Slots
<1>4. \A i \in Slots : IF i < pq.count THEN pq.heap[i] \in Entries
                                       ELSE pq.heap[i] = Free
  BY <1>1 DEF Fits
<1>5. \A i \in Slots : pq.heap[i].key \in Int /\ pq.heap[i].key <= INT_MAX
  BY <1>4, KeyAssumption DEF Entries, Free
<1> QED BY <1>1, <1>2, <1>3, <1>4, <1>5

LEMMA InitIsHeap == IsHeap(pq_init)
<1>1. pq_init.count = 0 /\ \A i \in Slots : pq_init.heap[i] = Free
  BY DEF pq_init
<1>2. pq_init.heap \in Heaps
  BY KeyAssumption DEF pq_init, Free, Heaps, Nodes
<1>3. Fits(pq_init.heap, 0)
  BY <1>1, <1>2, SizeAssumption DEF Fits, Slots
<1>4. Ordered(pq_init.heap)
  BY <1>1, ParentIs, KeyAssumption DEF Ordered, Free
<1> QED BY <1>1, <1>3, <1>4 DEF IsHeap, pq_init

(***************************************************************************)
(* pq_add puts its node into the heap and leaves the others in it.         *)
(***************************************************************************)
THEOREM HeapAdds ==
  ASSUME NEW pq, IsHeap(pq), pq.count < SIZE,
         NEW key \in Int, key <= INT_MAX, NEW val \in VALUES
  PROVE  LET new == pq_add(pq, key, val)
             all == [pq.heap EXCEPT ![pq.count] = [key |-> key, val |-> val]]
         IN  /\ IsHeap(new)
             /\ new.count = pq.count + 1
             /\ SameNodes(new.heap, all, new.count)
<1> DEFINE n == pq.count
           node == [key |-> key, val |-> val]
           g == [pq.heap EXCEPT ![n] = node]
           Good == {s \in LoopStates : /\ s[2] < n + 1 /\ Fits(s[1], n + 1)
                                       /\ SameNodes(s[1], g, n + 1)
                                       /\ Rising(s[1], s[2])}
<1>1. /\ n \in Nat /\ n \in Slots /\ n + 1 \in 0 .. SIZE
      /\ 0 .. (n + 1) - 1 = (0 .. n - 1) \cup {n} /\ n \notin 0 .. n - 1
      /\ \A i \in Slots : i < n + 1 => i < n \/ i = n
      /\ \A i \in 0 .. n - 1 : i \in Slots /\ i < n
  BY HeapIs, SizeAssumption DEF Slots
<1>2. /\ node \in Entries /\ node.val = val /\ node.key = key /\ node \in Nodes
  BY DEF Entries, Nodes
<1>3. /\ g \in Heaps /\ g[n] = node
      /\ \A i \in Slots : i # n => g[i] = pq.heap[i]
  BY <1>1, <1>2, HeapIs DEF Heaps
<1> HIDE DEF node, g, Good
<1>4. Fits(g, n + 1)
  <2>1. ASSUME NEW i \in Slots
        PROVE  IF i < n + 1 THEN g[i] \in Entries ELSE g[i] = Free
    <3>1. CASE i = n
      BY <1>1, <1>2, <1>3, <3>1
    <3>2. CASE i # n
      <4>1. /\ i < n + 1 <=> i < n
            /\ i < n <=> i \in 0 .. n - 1
        BY <1>1, <3>2 DEF Slots
      <4> QED BY <1>3, <3>2, <4>1, HeapIs
    <3> QED BY <3>1, <3>2
  <2> QED BY <1>1, <1>3, <2>1 DEF Fits
<1>5. SameNodes(g, g, n + 1)
  BY <1>1, SameIfEqual
<1>6. Rising(g, n)
  <2>1. ASSUME NEW j \in Slots \ {0, n}
        PROVE  g[PARENT(j)].key <= g[j].key
    <3>1. g[j] = pq.heap[j] /\ PARENT(j) \in Slots
      BY <1>3, ParentIs
    <3>2. CASE PARENT(j) # n
      BY <1>3, <3>1, <3>2, HeapIs DEF Ordered
    <3>3. CASE PARENT(j) = n
      <4>1. ~(j < n)
        BY <1>1, <3>3, ParentIs DEF Slots
      <4>2. g[j].key = INT_MAX
        BY <3>1, <4>1, HeapIs DEF Free
      <4> QED BY <1>2, <1>3, <3>3, <4>2
    <3> QED BY <3>2, <3>3
  <2>2. ASSUME n # 0, NEW j \in Slots \ {0}, PARENT(j) = n
        PROVE  g[PARENT(n)].key <= g[j].key
    <3>1. ~(j < n) /\ j # n /\ PARENT(n) \in Slots /\ PARENT(n) # n
      BY <1>1, <2>2, ParentIs DEF Slots
    <3>2. g[j].key = INT_MAX /\ g[PARENT(n)] = pq.heap[PARENT(n)]
      BY <1>3, <3>1, HeapIs DEF Free
    <3> QED BY <3>1, <3>2, HeapIs
  <2> QED BY <2>1, <2>2 DEF Rising
<1>7. <<g, n>> \in Good
  BY <1>1, <1>3, <1>4, <1>5, <1>6 DEF Good, LoopStates
<1>8. ASSUME NEW h \in Heaps, NEW i \in Slots, <<h, i>> \in Good, Rises(h, i)
      PROVE  <<Swap(h, i, PARENT(i)), PARENT(i)>> \in Good
  <2>1. /\ i < n + 1 /\ Fits(h, n + 1) /\ SameNodes(h, g, n + 1)
        /\ Rising(h, i)
    BY <1>8 DEF Good
  <2>2. PARENT(i) \in Slots /\ PARENT(i) < n + 1
    BY <1>1, <2>1, ParentIs DEF Slots
  <2>3. i \in 0 .. (n + 1) - 1 /\ PARENT(i) \in 0 .. (n + 1) - 1
    BY <1>1, <2>1, <2>2 DEF Slots
  <2>4. /\ Fits(Swap(h, i, PARENT(i)), n + 1)
        /\ SameNodes(Swap(h, i, PARENT(i)), g, n + 1)
    BY <2>1, <2>3, SwapKeeps
  <2>5. Rising(Swap(h, i, PARENT(i)), PARENT(i))
    BY <1>8, <2>1, RiseKeeps
  <2>6. Swap(h, i, PARENT(i)) \in Heaps
    BY <2>2, SwapIsHeap
  <2> QED BY <2>2, <2>4, <2>5, <2>6 DEF Good, LoopStates
<1>9. Good \in SUBSET LoopStates
  BY DEF Good
<1>10. PICK h \in Heaps, i \in Slots :
         <<h, i>> \in Good /\ ~Rises(h, i) /\ BubbleUp(g, n) = h
  BY <1>1, <1>3, <1>7, <1>8, <1>9, BubbleUpEnds
<1>11. Fits(h, n + 1) /\ SameNodes(h, g, n + 1) /\ Rising(h, i)
  BY <1>10 DEF Good
<1>12. Ordered(h)
  <2>1. \A j \in Slots : h[j].key \in Int /\ PARENT(j) \in Slots
    BY ParentIs DEF Heaps, Nodes
  <2> QED BY <1>10, <1>11, <2>1 DEF Rising, Rises, Ordered
<1>13. pq_add(pq, key, val) = [count |-> n + 1, heap |-> h]
  BY <1>10 DEF pq_add, g, node
<1> QED
  BY <1>11, <1>12, <1>13 DEF IsHeap, g, node

(***************************************************************************)
(* pq_delete takes the root, whose key is the smallest, out of the heap    *)
(* and leaves the others in it.                                            *)
(***************************************************************************)
THEOREM HeapDeletes ==
  ASSUME NEW pq, IsHeap(pq), pq.count # 0
  PROVE  LET new == pq_delete(pq)
             rest == [pq.heap EXCEPT ![0] = pq.heap[pq.count - 1]]
         IN  /\ IsHeap(new)
             /\ new.count = pq.count - 1
             /\ SameNodes(new.heap, rest, new.count)
             /\ \A i \in Slots : pq.heap[0].key <= pq.heap[i].key
<1> DEFINE n == pq.count - 1
           rest == [pq.heap EXCEPT ![0] = pq.heap[n]]
           g == [pq.heap EXCEPT ![0] = pq.heap[n], ![n] = Free]
           Good == {s \in LoopStates : /\ Fits(s[1], n)
                                       /\ SameNodes(s[1], rest, n)
                                       /\ Sinking(s[1], s[2])}
<1>1. /\ n \in Nat /\ n \in Slots /\ n \in 0 .. SIZE /\ pq.count = n + 1
      /\ \A i \in Slots : i < pq.count <=> i < n \/ i = n
      /\ \A i \in 0 .. n - 1 : i \in Slots /\ i < n /\ i # n
      /\ 0 \in Slots /\ 0 \in 0 .. pq.count - 1
  BY HeapIs, SizeAssumption DEF Slots
<1>2. Free \in Nodes /\ pq.heap[n] \in Nodes
  BY <1>1, HeapIs, KeyAssumption DEF Free, Nodes, Heaps
<1>3. /\ g \in Heaps /\ g[n] = Free
      /\ n # 0 => g[0] = pq.heap[n]
      /\ \A i \in Slots : i # n /\ i # 0 => g[i] = pq.heap[i]
      /\ \A i \in Slots : i # n => g[i] = rest[i]
  BY <1>1, <1>2, HeapIs DEF Heaps
<1> HIDE DEF g, rest, Good
<1>6. Fits(g, n)
  <2>1. \A i \in Slots : IF i < n THEN g[i] \in Entries ELSE g[i] = Free
    <3>1. ASSUME NEW i \in Slots, i < n
          PROVE  g[i] \in Entries
      <4>1. /\ i \in 0 .. pq.count - 1 /\ n \in 0 .. pq.count - 1
            /\ i # n /\ n # 0
        BY <1>1, <3>1 DEF Slots
      <4>2. pq.heap[i] \in Entries /\ pq.heap[n] \in Entries
        BY <4>1, HeapIs
      <4> QED BY <1>3, <4>1, <4>2
    <3>2. ASSUME NEW i \in Slots, ~(i < n)
          PROVE  g[i] = Free
      <4>1. CASE i = n
        BY <1>3, <4>1
      <4>2. CASE i # n
        <5>1. ~(i < pq.count) /\ i # 0
          BY <1>1, <3>2, <4>2 DEF Slots
        <5> QED BY <1>3, <4>2, <5>1, HeapIs
      <4> QED BY <4>1, <4>2
    <3> QED BY <3>1, <3>2
  <2> QED BY <1>1, <1>3, <2>1 DEF Fits
<1>7. SameNodes(g, rest, n)
  <2>1. \A i \in 0 .. n - 1 : g[i] = rest[i]
    BY <1>1, <1>3
  <2> HIDE DEF n
  <2> QED BY <1>1, <2>1, SameIfEqual
<1>8. Sinking(g, 0)
  <2> SUFFICES ASSUME NEW j \in Slots \ {0}, PARENT(j) # 0
               PROVE  g[PARENT(j)].key <= g[j].key
    BY DEF Sinking
  <2>1. PARENT(j) \in Slots /\ PARENT(j) < j /\ j \in Nat
    BY ParentIs DEF Slots
  <2>2. g[PARENT(j)].key <= INT_MAX
    <3>1. CASE PARENT(j) = n
      BY <1>3, <3>1, KeyAssumption DEF Free
    <3>2. CASE PARENT(j) # n
      BY <1>3, <2>1, <3>2, HeapIs
    <3> QED BY <3>1, <3>2
  <2>3. CASE j = n
    BY <1>3, <2>2, <2>3 DEF Free
  <2>4. CASE j # n /\ PARENT(j) = n
    <3>1. ~(j < pq.count)
      BY <1>1, <2>1, <2>4
    <3>2. g[j] = Free
      BY <1>3, <2>4, <3>1, HeapIs
    <3> QED BY <2>2, <3>2 DEF Free
  <2>5. CASE j # n /\ PARENT(j) # n
    BY <1>3, <2>1, <2>5, HeapIs DEF Ordered
  <2> QED BY <2>3, <2>4, <2>5
<1>9. <<g, 0>> \in Good
  BY <1>1, <1>3, <1>6, <1>7, <1>8 DEF Good, LoopStates
<1>10. ASSUME NEW h \in Heaps, NEW i \in Slots, <<h, i>> \in Good, Sinks(h, i)
       PROVE  <<Swap(h, i, Smallest(h, i)), Smallest(h, i)>> \in Good
  <2> DEFINE m == Smallest(h, i)
  <2>1. /\ Fits(h, n) /\ SameNodes(h, rest, n) /\ Sinking(h, i)
    BY <1>10 DEF Good
  <2>2. m \in Slots /\ i < m /\ h[m].key < h[i].key
    BY <1>10, SmallestIs DEF Sinks
  <2>3. /\ \A k \in Slots : IF k < n THEN h[k] \in Entries ELSE h[k] = Free
        /\ i \in Nat /\ m \in Nat /\ h[i].key \in Int /\ h[m].key \in Int
    BY <2>1, <2>2 DEF Fits, Slots, Heaps, Nodes
  <2> HIDE DEF m
  <2>4. m < n
    BY <2>2, <2>3, KeyAssumption DEF Entries, Free
  <2>5. i \in 0 .. n - 1 /\ m \in 0 .. n - 1
    BY <1>1, <2>2, <2>3, <2>4
  <2>6. Fits(Swap(h, i, m), n) /\ SameNodes(Swap(h, i, m), rest, n)
    BY <2>1, <2>5, SwapKeeps
  <2>7. Sinking(Swap(h, i, m), m)
    BY <1>10, <2>1, SinkKeeps DEF m
  <2>8. Swap(h, i, m) \in Heaps
    BY <2>2, SwapIsHeap
  <2>9. <<Swap(h, i, m), m>> \in Good
    BY <2>2, <2>6, <2>7, <2>8 DEF Good, LoopStates
  <2> QED BY <2>9 DEF m
<1>11. Good \in SUBSET LoopStates
  BY DEF Good
<1>12. PICK h \in Heaps, i \in Slots :
         <<h, i>> \in Good /\ ~Sinks(h, i) /\ BubbleDown(g) = h
  BY <1>3, <1>9, <1>10, <1>11, BubbleDownEnds
<1>13. Fits(h, n) /\ SameNodes(h, rest, n) /\ Sinking(h, i)
  BY <1>12 DEF Good
<1>14. ASSUME NEW j \in Slots \ {0}, PARENT(j) = i
       PROVE  h[PARENT(j)].key <= h[j].key
  <2>1. j = LEFT(i) \/ j = RIGHT(i)
    BY <1>14, ParentOf
  <2>2. LEFT(i) < SIZE
    BY <2>1, SizeAssumption DEF LEFT, RIGHT, Slots
  <2>3. h[i].key <= h[LEFT(i)].key /\ h[i].key <= h[RIGHT(i)].key
    BY <1>12, <2>2, SmallestIs DEF Sinks
  <2> QED BY <1>14, <2>1, <2>3
<1>15. Ordered(h)
  BY <1>13, <1>14 DEF Sinking, Ordered
<1>16. pq_delete(pq) = [count |-> n, heap |-> h]
  BY <1>12 DEF pq_delete, g
<1>18. \A i_1 \in Slots : pq.heap[0].key <= pq.heap[i_1].key
  BY HeapIs, RootIsLeast
<1> QED
  BY <1>13, <1>15, <1>16, <1>18 DEF IsHeap, rest

-----------------------------------------------------------------------------
(* The bag of the nodes in use.                                            *)

(* Where a node is in the heap.                                            *)
Where(pq, x) == {i \in 0 .. pq.count - 1 : pq.heap[i] = x}

LEMMA Matched ==
  ASSUME NEW S, NEW T, IsFiniteSet(S), NEW f \in [S -> T],
         \A i, j \in S : f[i] = f[j] => i = j,
         \A k \in T : \E i \in S : f[i] = k
  PROVE  IsFiniteSet(T) /\ Cardinality(T) = Cardinality(S)
<1>1. f \in Bijection(S, T)
  BY DEF Bijection, Injection, Surjection, IsInjective
<1>2. ExistsBijection(S, T)
  BY <1>1 DEF ExistsBijection
<1> QED BY <1>2, FS_Bijection

LEMMA WhereIs ==
  ASSUME NEW pq, pq.count \in Nat
  PROVE  /\ Contents(pq) = [x \in {pq.heap[i] : i \in 0 .. pq.count - 1} |->
                              Cardinality(Where(pq, x))]
         /\ \A x : /\ IsFiniteSet(Where(pq, x))
                   /\ Cardinality(Where(pq, x)) \in Nat
                   /\ (x \in {pq.heap[i] : i \in 0 .. pq.count - 1}) <=>
                        Cardinality(Where(pq, x)) > 0
<1>1. Contents(pq) = [x \in {pq.heap[i] : i \in 0 .. pq.count - 1} |->
                        Cardinality(Where(pq, x))]
  BY DEF Contents, Where
<1>2. ASSUME NEW x
      PROVE  /\ IsFiniteSet(Where(pq, x))
             /\ Cardinality(Where(pq, x)) \in Nat
             /\ (x \in {pq.heap[i] : i \in 0 .. pq.count - 1}) <=>
                  Cardinality(Where(pq, x)) > 0
  <2>1. IsFiniteSet(0 .. pq.count - 1)
    BY FS_Interval
  <2>2. Where(pq, x) \in SUBSET (0 .. pq.count - 1)
    BY DEF Where
  <2>3. IsFiniteSet(Where(pq, x))
    BY <2>1, <2>2, FS_Subset
  <2>4. /\ Cardinality(Where(pq, x)) \in Nat
        /\ Cardinality(Where(pq, x)) = 0 <=> Where(pq, x) = {}
    BY <2>3, FS_CardinalityType, FS_EmptySet
  <2>5. (x \in {pq.heap[i] : i \in 0 .. pq.count - 1}) <=> Where(pq, x) # {}
    BY DEF Where
  <2> QED BY <2>3, <2>4, <2>5
<1> QED BY <1>1, <1>2

(* The bag depends on the nodes, and not on their order.                   *)
LEMMA SameContents ==
  ASSUME NEW a, NEW b, a.count \in Nat, b.count = a.count,
         SameNodes(a.heap, b.heap, a.count)
  PROVE  Contents(a) = Contents(b)
<1> DEFINE D == 0 .. a.count - 1
<1>1. PICK p \in [D -> D] :
        /\ \A i, j \in D : p[i] = p[j] => i = j
        /\ \A j \in D : \E i \in D : p[i] = j
        /\ \A i \in D : a.heap[i] = b.heap[p[i]]
  BY DEF SameNodes
<1>2. \A x : /\ Where(a, x) = {i \in D : a.heap[i] = x}
             /\ Where(b, x) = {i \in D : b.heap[i] = x}
  BY DEF Where
<1>3. /\ Contents(a) = [x \in {a.heap[i] : i \in D} |->
                          Cardinality(Where(a, x))]
      /\ Contents(b) = [x \in {b.heap[i] : i \in D} |->
                          Cardinality(Where(b, x))]
      /\ \A x : IsFiniteSet(Where(a, x))
  BY WhereIs
<1> HIDE DEF D
<1>4. {a.heap[i] : i \in D} = {b.heap[i] : i \in D}
  BY <1>1
<1>5. ASSUME NEW x PROVE Cardinality(Where(a, x)) = Cardinality(Where(b, x))
  <2> DEFINE S == Where(a, x)
             T == Where(b, x)
             f == [i \in S |-> p[i]]
  <2>1. /\ S = {i \in D : a.heap[i] = x} /\ T = {i \in D : b.heap[i] = x}
        /\ IsFiniteSet(S)
    BY <1>2, <1>3
  <2> HIDE DEF S, T
  <2>2. f \in [S -> T] /\ \A i \in S : f[i] = p[i]
    BY <1>1, <2>1
  <2> HIDE DEF f
  <2>3. \A i, j \in S : f[i] = f[j] => i = j
    BY <1>1, <2>1, <2>2
  <2>4. \A k \in T : \E i \in S : f[i] = k
    <3> SUFFICES ASSUME NEW k \in T PROVE \E i \in S : f[i] = k
      OBVIOUS
    <3>1. k \in D /\ b.heap[k] = x
      BY <2>1
    <3>2. PICK i \in D : p[i] = k
      BY <1>1, <3>1
    <3>3. a.heap[i] = b.heap[k]
      BY <1>1, <3>2
    <3> QED BY <2>1, <2>2, <3>1, <3>2, <3>3
  <2>5. Cardinality(T) = Cardinality(S)
    BY <2>1, <2>2, <2>3, <2>4, Matched
  <2> QED BY <2>5 DEF S, T
<1> QED BY <1>3, <1>4, <1>5

(* One node more.                                                          *)
LEMMA ContentsAdd ==
  ASSUME NEW a, NEW b, NEW node, a.count \in Nat, b.count = a.count + 1,
         b.heap[a.count] = node,
         \A i \in 0 .. a.count - 1 : b.heap[i] = a.heap[i]
  PROVE  Contents(b) = Contents(a) (+) SetToBag({node})
<1> DEFINE n == a.count
           D == 0 .. n - 1
           E == 0 .. b.count - 1
           A == {a.heap[i] : i \in D}
           B == {b.heap[i] : i \in E}
           one == SetToBag({node})
           sum == Contents(a) (+) one
<1>1. E = D \cup {n} /\ n \notin D
  OBVIOUS
<1>2. /\ Contents(a) = [x \in A |-> Cardinality(Where(a, x))]
      /\ Contents(b) = [x \in B |-> Cardinality(Where(b, x))]
      /\ \A x : /\ IsFiniteSet(Where(a, x))
                /\ Cardinality(Where(a, x)) \in Nat
                /\ x \in A <=> Cardinality(Where(a, x)) > 0
  <2>1. a.count \in Nat /\ b.count \in Nat
    OBVIOUS
  <2>2. /\ Contents(a) = [x \in A |-> Cardinality(Where(a, x))]
        /\ \A x : /\ IsFiniteSet(Where(a, x))
                  /\ Cardinality(Where(a, x)) \in Nat
                  /\ x \in A <=> Cardinality(Where(a, x)) > 0
    BY <2>1, WhereIs, Zenon
  <2>3. Contents(b) = [x \in B |-> Cardinality(Where(b, x))]
    BY <2>1, WhereIs, Zenon
  <2> HIDE DEF A, B
  <2> QED BY <2>2, <2>3
<1>3. \A x : /\ Where(a, x) = {i \in D : a.heap[i] = x}
             /\ Where(b, x) = {i \in E : b.heap[i] = x}
  BY DEF Where
<1>4. one = [x \in {node} |-> 1]
  BY DEF SetToBag
<1>5. sum = [x \in A \cup {node} |->
               (IF x \in A THEN Contents(a)[x] ELSE 0)
               + (IF x \in {node} THEN one[x] ELSE 0)]
  <2>1. DOMAIN Contents(a) = A /\ DOMAIN one = {node}
    BY <1>2, <1>4
  <2> HIDE DEF one, A
  <2> QED BY <2>1 DEF (+)
<1>6. A = {a.heap[i] : i \in D} /\ B = {b.heap[i] : i \in E}
  OBVIOUS
<1>7. b.heap[n] = node /\ \A i \in D : b.heap[i] = a.heap[i]
  OBVIOUS
<1> HIDE DEF n, D, E, A, B, one, sum
<1>8. B = A \cup {node}
  BY <1>1, <1>6, <1>7
<1>9. ASSUME NEW x
      PROVE  Cardinality(Where(b, x)) =
               Cardinality(Where(a, x)) + IF x = node THEN 1 ELSE 0
  <2>1. CASE x = node
    <3>1. Where(b, x) = Where(a, x) \cup {n} /\ n \notin Where(a, x)
      BY <1>1, <1>3, <1>7, <2>1
    <3>2. Cardinality(Where(a, x) \cup {n}) = Cardinality(Where(a, x)) + 1
      BY <1>2, <3>1, FS_AddElement
    <3> QED BY <2>1, <3>1, <3>2
  <2>2. CASE x # node
    <3>1. Where(b, x) = Where(a, x)
      BY <1>1, <1>3, <1>7, <2>2
    <3> QED BY <1>2, <2>2, <3>1
  <2> QED BY <2>1, <2>2
<1>10. ASSUME NEW x \in A \cup {node}
       PROVE  (IF x \in A THEN Contents(a)[x] ELSE 0)
              + (IF x \in {node} THEN one[x] ELSE 0)
              = Cardinality(Where(b, x))
  <2>1. x \in A => Contents(a)[x] = Cardinality(Where(a, x))
    BY <1>2
  <2>2. x \notin A => Cardinality(Where(a, x)) = 0
    BY <1>2
  <2>3. x \in {node} => one[x] = 1
    BY <1>4
  <2>4. Cardinality(Where(a, x)) \in Nat
    BY <1>2
  <2> QED BY <1>9, <2>1, <2>2, <2>3, <2>4
<1> QED BY <1>2, <1>5, <1>8, <1>10 DEF sum, one

(* The root less: the last node takes its place.                           *)
LEMMA ContentsDelete ==
  ASSUME NEW a, NEW b, b.count \in Nat, a.count = b.count + 1,
         \A i \in 0 .. b.count - 1 :
           b.heap[i] = IF i = 0 THEN a.heap[b.count] ELSE a.heap[i]
  PROVE  Contents(b) = Contents(a) (-) SetToBag({a.heap[0]})
<1> DEFINE n == b.count
           D == 0 .. n - 1
           E == 0 .. a.count - 1
           A == {a.heap[i] : i \in E}
           B == {b.heap[i] : i \in D}
           root == a.heap[0]
           one == SetToBag({root})
           diff == [x \in A |-> IF x \in {root}
                                THEN Contents(a)[x] - one[x]
                                ELSE Contents(a)[x]]
<1>1. /\ E = D \cup {n} /\ n \notin D /\ 0 \in E
      /\ n = 0 \/ 0 \in D
      /\ n = 0 => D = {}
  OBVIOUS
<1>2. /\ Contents(a) = [x \in A |-> Cardinality(Where(a, x))]
      /\ Contents(b) = [x \in B |-> Cardinality(Where(b, x))]
      /\ \A x : /\ IsFiniteSet(Where(a, x)) /\ IsFiniteSet(Where(b, x))
                /\ Cardinality(Where(a, x)) \in Nat
                /\ Cardinality(Where(b, x)) \in Nat
                /\ x \in A <=> Cardinality(Where(a, x)) > 0
                /\ x \in B <=> Cardinality(Where(b, x)) > 0
  <2>1. a.count \in Nat /\ b.count \in Nat
    OBVIOUS
  <2>2. /\ Contents(a) = [x \in A |-> Cardinality(Where(a, x))]
        /\ \A x : /\ IsFiniteSet(Where(a, x))
                  /\ Cardinality(Where(a, x)) \in Nat
                  /\ x \in A <=> Cardinality(Where(a, x)) > 0
    BY <2>1, WhereIs, Zenon
  <2>3. /\ Contents(b) = [x \in B |-> Cardinality(Where(b, x))]
        /\ \A x : /\ IsFiniteSet(Where(b, x))
                  /\ Cardinality(Where(b, x)) \in Nat
                  /\ x \in B <=> Cardinality(Where(b, x)) > 0
    BY <2>1, WhereIs, Zenon
  <2> HIDE DEF A, B
  <2> QED BY <2>2, <2>3
<1>3. \A x : /\ Where(a, x) = {i \in E : a.heap[i] = x}
             /\ Where(b, x) = {i \in D : b.heap[i] = x}
  BY DEF Where
<1>4. one = [x \in {root} |-> 1]
  BY DEF SetToBag
<1>5. Contents(a) (-) one =
        [x \in {y \in DOMAIN diff : diff[y] > 0} |-> diff[x]]
  <2>1. DOMAIN Contents(a) = A /\ DOMAIN one = {root}
    BY <1>2, <1>4
  <2> HIDE DEF one, A
  <2> QED BY <2>1 DEF (-)
<1>6. /\ \A i \in D : b.heap[i] = IF i = 0 THEN a.heap[n] ELSE a.heap[i]
      /\ root = a.heap[0]
  OBVIOUS
<1> HIDE DEF n, D, E, A, B, one, root
<1>7. ASSUME NEW x
      PROVE  Cardinality(Where(b, x)) =
               Cardinality(Where(a, x)) - IF x = root THEN 1 ELSE 0
  <2> DEFINE S == Where(b, x)
             T == Where(a, x) \ {0}
             f == [i \in S |-> IF i = 0 THEN n ELSE i]
  <2>1. /\ S = {i \in D : b.heap[i] = x} /\ IsFiniteSet(S)
        /\ T = {i \in E : a.heap[i] = x /\ i # 0}
    BY <1>2, <1>3
  <2> HIDE DEF S, T
  <2>2. f \in [S -> T] /\ \A i \in S : f[i] = IF i = 0 THEN n ELSE i
    BY <1>1, <1>6, <2>1
  <2> HIDE DEF f
  <2>3. \A i, j \in S : f[i] = f[j] => i = j
    BY <1>1, <2>1, <2>2
  <2>4. \A k \in T : \E i \in S : f[i] = k
    <3> SUFFICES ASSUME NEW k \in T PROVE \E i \in S : f[i] = k
      OBVIOUS
    <3>1. k \in E /\ a.heap[k] = x /\ k # 0
      BY <2>1
    <3>2. CASE k = n
      <4>1. 0 \in S
        BY <1>1, <1>6, <2>1, <3>1, <3>2
      <4> QED BY <2>2, <3>2, <4>1
    <3>3. CASE k # n
      <4>1. k \in S
        BY <1>1, <1>6, <2>1, <3>1, <3>3
      <4> QED BY <2>2, <3>1, <4>1
    <3> QED BY <3>2, <3>3
  <2>5. Cardinality(T) = Cardinality(S)
    <3>1. IsFiniteSet(S) /\ f \in [S -> T]
      BY <2>1, <2>2
    <3> QED BY <3>1, <2>3, <2>4, Matched, Zenon
  <2>6. 0 \in Where(a, x) <=> x = root
    BY <1>1, <1>3, <1>6
  <2>7. Cardinality(Where(a, x) \ {0}) =
          IF 0 \in Where(a, x) THEN Cardinality(Where(a, x)) - 1
                               ELSE Cardinality(Where(a, x))
    BY <1>2, FS_RemoveElement
  <2>8. Cardinality(Where(a, x)) \in Nat
    BY <1>2
  <2> QED BY <2>5, <2>6, <2>7, <2>8 DEF S, T
<1>8. DOMAIN diff = A
  OBVIOUS
<1>9. ASSUME NEW x \in A PROVE diff[x] = Cardinality(Where(b, x))
  <2>1. /\ Contents(a)[x] = Cardinality(Where(a, x))
        /\ x \in {root} => one[x] = 1
        /\ Cardinality(Where(a, x)) \in Nat
    BY <1>2, <1>4
  <2>2. diff[x] = IF x \in {root} THEN Contents(a)[x] - one[x]
                                  ELSE Contents(a)[x]
    OBVIOUS
  <2> HIDE DEF diff
  <2> QED BY <1>7, <2>1, <2>2
<1> HIDE DEF diff
<1>10. \A x : x \in B <=> x \in A /\ Cardinality(Where(b, x)) > 0
  <2> SUFFICES ASSUME NEW x PROVE
        x \in B <=> x \in A /\ Cardinality(Where(b, x)) > 0
    OBVIOUS
  <2>1. /\ Cardinality(Where(a, x)) \in Nat /\ Cardinality(Where(b, x)) \in Nat
        /\ x \in A <=> Cardinality(Where(a, x)) > 0
        /\ x \in B <=> Cardinality(Where(b, x)) > 0
    BY <1>2
  <2>2. Cardinality(Where(b, x)) =
          Cardinality(Where(a, x)) - IF x = root THEN 1 ELSE 0
    BY <1>7
  <2> QED BY <2>1, <2>2
<1>11. {y \in DOMAIN diff : diff[y] > 0} = B
  BY <1>8, <1>9, <1>10
<1>12. \A x \in B : diff[x] = Cardinality(Where(b, x))
  BY <1>9, <1>10
<1>13. [x \in B |-> diff[x]] = Contents(b)
  BY <1>2, <1>12
<1> QED BY <1>5, <1>11, <1>13 DEF one, root
=============================================================================

---------------------------- MODULE KernelProofs ----------------------------
(***************************************************************************)
(* Theorems about Kernel, for every value of its constants.                *)
(*                                                                         *)
(* The pointer operations of TaskQueue are the operations on sequences     *)
(* they stand for: produce appends, consume drops the head, and neither    *)
(* disturbs another queue that shares no task with the one it changes.     *)
(* Following the pointers of a proper list gives that list (ChainFollows). *)
(* Of the whole store of the kernel, whose queues share one array of next  *)
(* fields, there is a Layout: every queue a proper list, and the one       *)
(* queue that each task is on.  Each operation of the scheduler changes    *)
(* the layout by moving one task.                                          *)
(*                                                                         *)
(* Typed: every field keeps its type.  WakeupsAreNotLost: a task that      *)
(* waits has nothing queued to it.  NoLostWakeup excepts the callee:       *)
(* between two rounds of a ksyscall_recv the receiver may still carry its  *)
(* wait mark and have senders queued.  So it is not inductive: WakeupInv   *)
(* adds to it the types, and CalleeOK, that outside those rounds there is  *)
(* no callee and nobody is excepted.                                       *)
(*                                                                         *)
(* QueueInvariant: every queue is a proper list, the bitmap agrees with    *)
(* the ready queues, and the fields of a task descriptor decide which one  *)
(* queue the task is on (QueueInv).  From it follow the state invariants   *)
(* KernelDoesNotPanic, QueuesAreExact and HighestRuns.                     *)
(*                                                                         *)
(* QueueStep gives, with QueueInv', the Effects of a step: what it can do  *)
(* to ids, requests, marks and inboxes.  The action properties             *)
(* QueuesAreFifo and SendsEndRight are proved one effect at a time, and so *)
(* is ImplementsMessagePassing, that the kernel implements                 *)
(* SendReceiveReply.                                                       *)
(*                                                                         *)
(* MessagesArriveWhereSent: the id of a task wraps, so a task may get an   *)
(* id that another task has had.  Still no message reaches a task it was   *)
(* not sent to, by NamesInv: a message that waits in a queue carries the   *)
(* id its receiver has now, because a task that goes leaves no message     *)
(* that could still be delivered.                                          *)
(***************************************************************************)
EXTENDS KernelRefinement, SequenceTheorems, FiniteSetTheorems,
        WellFoundedInduction, TLAPS

-----------------------------------------------------------------------------
(* The operations on queues.                                               *)

(* The stores over tasks T, queues Q and marker values X.                  *)
StoresOver(T, Q, X) ==
  [next : [T -> T \cup {NULL} \cup X], head : [Q -> T \cup {NULL} \cup X],
   tail : [Q -> T \cup {NULL} \cup X], state : SUBSET Int]

(* Appending a task that is not on the queue is Append.                    *)
THEOREM ProduceAppends ==
  ASSUME NEW T, NEW Q, NEW X, NULL \notin T,
         NEW m \in StoresOver(T, Q, X), NEW q \in Q, NEW s \in Seq(T),
         Represents(m, q, s),
         NEW t \in T, \A i \in 1..Len(s) : s[i] # t
  PROVE  Represents(Produce(m, q, t), q, Append(s, t))
<1> DEFINE n == Produce(m, q, t)
           a == Append(s, t)
<1>1. /\ a \in Seq(T) /\ a # <<>>
      /\ Len(a) = Len(s) + 1
      /\ a[Len(s) + 1] = t
      /\ \A i \in 1..Len(s) : a[i] = s[i] /\ s[i] \in T
      /\ Len(s) \in Nat
  BY AppendProperties, ElementOfSeq, LenProperties
<1>2. /\ n.tail[q] = t
      /\ n.next[t] = NULL
  BY DEF Produce, StoresOver
<1>3. CASE s = <<>>
  <2>1. Len(s) = 0 /\ a[1] = t
    BY <1>1, <1>3
  <2>2. n.head[q] = t
    BY <1>3 DEF Produce, StoresOver, Represents
  <2>3. Len(a) = 1
    BY <1>1, <2>1
  <2> HIDE DEF n, a
  <2>4. Represents(n, q, a)
    BY <1>1, <1>2, <2>1, <2>2, <2>3 DEF Represents
  <2> QED
    BY <2>4 DEF n, a
<1>4. CASE s # <<>>
  <2>1. /\ Len(s) \in Nat \ {0}
        /\ m.head[q] = s[1]
        /\ m.tail[q] = s[Len(s)]
    BY <1>1, <1>4, EmptySeq DEF Represents
  <2>2. m.head[q] # NULL
    BY <1>1, <2>1
  <2>3. /\ n.head[q] = a[1]
        /\ n.next = [m.next EXCEPT ![s[Len(s)]] = t, ![t] = NULL]
    BY <1>1, <2>1, <2>2 DEF Produce
  <2>4. ASSUME NEW i \in 1..Len(a)-1 PROVE n.next[a[i]] = a[i+1]
    <3>1. i \in 1..Len(s) /\ s[i] \in T /\ s[i] # t /\ a[i] = s[i]
      BY <1>1
    <3>2. CASE i = Len(s)
      BY <1>1, <2>3, <3>1, <3>2 DEF StoresOver
    <3>3. CASE i # Len(s)
      <4>1. i \in 1..Len(s)-1 /\ i+1 \in 1..Len(s)
        BY <1>1, <3>1, <3>3
      <4>2. s[i] # s[Len(s)] /\ m.next[s[i]] = s[i+1]
        BY <1>1, <2>1, <3>1, <3>3, <4>1 DEF Represents
      <4> QED
        BY <1>1, <2>1, <2>3, <3>1, <4>1, <4>2 DEF StoresOver
    <3> QED
      BY <3>2, <3>3
  <2>5. \A i, j \in 1..Len(a) : a[i] = a[j] => i = j
    <3>1. \A i \in 1..Len(a) : i \in 1..Len(s) \/ i = Len(s) + 1
      BY <1>1
    <3>2. \A i, j \in 1..Len(s) : s[i] = s[j] => i = j
      BY DEF Represents
    <3> HIDE DEF a
    <3> QED
      BY <1>1, <3>1, <3>2
  <2> HIDE DEF n, a
  <2>6. Represents(n, q, a)
    BY <1>1, <1>2, <2>3, <2>4, <2>5 DEF Represents
  <2> QED
    BY <2>6 DEF n, a
<1> QED
  BY <1>3, <1>4

(* Appending to q leaves every queue as it is that shares no task with q   *)
(* and does not hold the new task.                                         *)
THEOREM ProduceKeepsOthers ==
  ASSUME NEW T, NEW Q, NEW X, NULL \notin T,
         NEW m \in StoresOver(T, Q, X),
         NEW q \in Q, NEW s \in Seq(T), Represents(m, q, s),
         NEW o \in Q, NEW u \in Seq(T), Represents(m, o, u), o # q,
         NEW t \in T, \A i \in 1..Len(u) : u[i] # t,
         \A i \in 1..Len(s), j \in 1..Len(u) : s[i] # u[j]
  PROVE  Represents(Produce(m, q, t), o, u)
<1> DEFINE n == Produce(m, q, t)
<1>1. /\ Len(u) \in Nat /\ Len(s) \in Nat
      /\ \A j \in 1..Len(u) : u[j] \in T
      /\ u # <<>> => Len(u) \in Nat \ {0}
      /\ s # <<>> => Len(s) \in Nat \ {0}
  BY ElementOfSeq, LenProperties, EmptySeq
<1>2. n.head[o] = m.head[o] /\ n.tail[o] = m.tail[o]
  BY DEF Produce, StoresOver
<1>3. ASSUME NEW j \in 1..Len(u) PROVE n.next[u[j]] = m.next[u[j]]
  <2>1. CASE m.head[q] = NULL
    BY <1>1, <2>1 DEF Produce, StoresOver
  <2>2. CASE m.head[q] # NULL
    <3>1. s # <<>> /\ m.tail[q] = s[Len(s)]
      BY <2>2 DEF Represents
    <3>2. Len(s) \in 1..Len(s)
      BY <1>1, <3>1
    <3>3. m.tail[q] # u[j] /\ t # u[j]
      BY <3>1, <3>2
    <3> QED
      BY <1>1, <2>2, <3>3 DEF Produce, StoresOver
  <2> QED
    BY <2>1, <2>2
<1> HIDE DEF n
<1>4. Represents(n, o, u)
  BY <1>1, <1>2, <1>3 DEF Represents
<1> QED
  BY <1>4 DEF n

(* Consuming from a queue that is not empty is Tail.                       *)
THEOREM ConsumeDropsHead ==
  ASSUME NEW T, NEW Q, NEW X, NULL \notin T,
         NEW m \in StoresOver(T, Q, X), NEW q \in Q, NEW s \in Seq(T),
         Represents(m, q, s), s # <<>>
  PROVE  /\ m.head[q] = Head(s)
         /\ Represents(Consume(m, q), q, Tail(s))
<1> DEFINE n == Consume(m, q)
           r == Tail(s)
<1>1. /\ r \in Seq(T)
      /\ Len(r) = Len(s) - 1
      /\ \A i \in 1..Len(r) : r[i] = s[i+1]
      /\ Head(s) = s[1]
      /\ Len(s) \in Nat \ {0}
      /\ \A i \in 1..Len(s) : s[i] \in T
  BY HeadTailProperties, EmptySeq, ElementOfSeq
<1>2. m.head[q] = s[1]
  BY DEF Represents
<1>3. /\ n.next = m.next
      /\ n.tail = m.tail
      /\ n.head[q] = m.next[s[1]]
  BY <1>2 DEF Consume, StoresOver
<1>4. r = <<>> <=> Len(s) = 1
  <2>1. r = <<>> => Len(r) = 0
    BY EmptySeq
  <2>2. r # <<>> => Len(r) \in Nat \ {0}
    BY <1>1, EmptySeq
  <2> HIDE DEF r
  <2> QED
    BY <1>1, <2>1, <2>2
<1> HIDE DEF n, r
<1>5. n.head[q] = IF r = <<>> THEN NULL ELSE r[1]
  <2>1. CASE r = <<>>
    BY <1>3, <1>4, <2>1 DEF Represents
  <2>2. CASE r # <<>>
    <3>1. 1 \in 1..Len(s)-1 /\ 1 \in 1..Len(r)
      BY <1>1, <1>4, <2>2
    <3>2. m.next[s[1]] = s[1+1] /\ r[1] = s[1+1]
      BY <1>1, <3>1 DEF Represents
    <3> QED
      BY <1>3, <2>2, <3>2
  <2> QED
    BY <2>1, <2>2
<1>6. r # <<>> => /\ n.tail[q] = r[Len(r)]
                  /\ n.next[r[Len(r)]] = NULL
  <2> SUFFICES ASSUME r # <<>>
               PROVE  n.tail[q] = r[Len(r)] /\ n.next[r[Len(r)]] = NULL
    OBVIOUS
  <2>1. Len(r) \in 1..Len(r)
    BY <1>1, <1>4
  <2>2. r[Len(r)] = s[Len(s)]
    BY <1>1, <2>1
  <2> QED
    BY <1>3, <2>2 DEF Represents
<1>7. ASSUME NEW i \in 1..Len(r)-1 PROVE n.next[r[i]] = r[i+1]
  <2>1. /\ i \in 1..Len(r) /\ i+1 \in 1..Len(r)
        /\ i+1 \in 1..Len(s)-1
    BY <1>1
  <2>2. m.next[s[i+1]] = s[(i+1)+1]
    BY <2>1 DEF Represents
  <2> QED
    BY <1>1, <1>3, <2>1, <2>2
<1>8. ASSUME NEW i \in 1..Len(r), NEW j \in 1..Len(r), r[i] = r[j]
      PROVE  i = j
  <2>1. i+1 \in 1..Len(s) /\ j+1 \in 1..Len(s) /\ s[i+1] = s[j+1]
    BY <1>1, <1>8
  <2>2. i+1 = j+1
    BY <2>1 DEF Represents
  <2> QED
    BY <1>1, <2>2
<1>9. Represents(n, q, r)
  BY <1>5, <1>6, <1>7, <1>8 DEF Represents
<1> QED
  BY <1>1, <1>2, <1>9 DEF n, r

(* Consuming from q leaves every other queue as it is.                     *)
THEOREM ConsumeKeepsOthers ==
  ASSUME NEW T, NEW Q, NEW X,
         NEW m \in StoresOver(T, Q, X), NEW q \in Q,
         NEW o \in Q, o # q, NEW u \in Seq(T), Represents(m, o, u)
  PROVE  Represents(Consume(m, q), o, u)
<1>1. /\ Consume(m, q).head[o] = m.head[o]
      /\ Consume(m, q).tail = m.tail
      /\ Consume(m, q).next = m.next
  BY DEF Consume, StoresOver
<1> QED
  BY <1>1 DEF Represents
-----------------------------------------------------------------------------
(* A nonempty set of natural numbers has a least one.                      *)
LEMMA LeastNatural ==
  ASSUME NEW S \in SUBSET Nat, S # {}
  PROVE  \E x \in S : \A y \in S : x <= y
<1> DEFINE R == {ss \in Nat \X Nat : ss[1] < ss[2]}
<1>1. IsWellFoundedOn(R, Nat)
  BY NatLessThanWellFounded DEF OpToRel
<1>2. PICK x \in S : \A y \in S : ~(<<y, x>> \in R)
  <2> HIDE DEF R
  <2> QED BY <1>1, WFMin
<1>3. ASSUME NEW y \in S PROVE x <= y
  <2>1. <<y, x>> \in Nat \X Nat /\ <<y, x>>[1] = y /\ <<y, x>>[2] = x
    OBVIOUS
  <2>2. ~(y < x)
    BY <1>2, <2>1
  <2> QED BY <2>2
<1> QED BY <1>3

(* A sequence without repetitions is no longer than the set it is over has *)
(* elements.                                                               *)
LEMMA NoRepetitions ==
  ASSUME NEW T, IsFiniteSet(T), NEW s \in Seq(T),
         \A i, j \in 1 .. Len(s) : s[i] = s[j] => i = j
  PROVE  Len(s) <= Cardinality(T)
<1>1. Len(s) \in Nat /\ s \in [1 .. Len(s) -> T]
  BY LenProperties
<1>2. IsFiniteSet(1 .. Len(s)) /\ Cardinality(1 .. Len(s)) = Len(s)
  BY <1>1, FS_Interval
<1>3. Cardinality(T) \in Nat
  BY FS_CardinalityType
<1>4. ~(Cardinality(T) < Cardinality(1 .. Len(s)))
  BY <1>1, <1>2, FS_PigeonHole
<1> QED BY <1>1, <1>2, <1>3, <1>4

(***************************************************************************)
(* Following the links from the head of a queue yields the sequence that   *)
(* it represents.  The definition of Chain is recursive: there is a        *)
(* function that satisfies it, and two that do agree, as there is no least *)
(* index at which they differ.                                             *)
(***************************************************************************)
THEOREM ChainFollows ==
  ASSUME NEW T, NEW m, DOMAIN m.next = T, NULL \notin T,
         NEW q, NEW s \in Seq(T), Represents(m, q, s),
         NEW n \in Nat, Len(s) <= n
  PROVE  Chain(m, q, n) = s
<1> DEFINE after == [p \in T \cup {m.next[t] : t \in T} |->
                       IF p \in T THEN m.next[p] ELSE NULL]
           Step(f) == [i \in 1..n |-> IF i = 1 THEN m.head[q]
                                    ELSE after[f[i-1]]]
           at == CHOOSE f : f = Step(f)
           met == {k \in 1..n : at[k] \in T}
           walk == [i \in 1..n |-> IF i <= Len(s) THEN s[i] ELSE NULL]
<1>1. Chain(m, q, n) = IF m.head[q] \notin T THEN <<>>
                       ELSE [i \in 1 .. Cardinality(met) |-> at[i]]
  BY DEF Chain
<1> HIDE DEF at
<1>2. Len(s) \in Nat /\ s \in [1 .. Len(s) -> T]
  BY LenProperties
<1>3. CASE s = <<>>
  <2>1. m.head[q] = NULL
    BY <1>3 DEF Represents
  <2> QED BY <1>1, <1>3, <2>1
<1>4. CASE s # <<>>
  <2>1. Len(s) >= 1 /\ 1 \in 1 .. Len(s) /\ Len(s) \in 1 .. Len(s)
    BY <1>2, <1>4, EmptySeq
  <2>2. m.head[q] = s[1] /\ m.head[q] \in T
    BY <1>2, <1>4, <2>1 DEF Represents
  <2>3. m.next[s[Len(s)]] = NULL /\ s[Len(s)] \in T
    BY <1>2, <1>4, <2>1 DEF Represents
  <2>4. after[NULL] = NULL
    BY <2>3
  <2>5. ASSUME NEW i \in 1..n, i # 1
        PROVE  walk[i] = after[walk[i-1]]
    <3>1. i - 1 \in 1..n
      BY <2>5
    <3>2. CASE i <= Len(s)
      <4>1. i-1 \in 1 .. Len(s)-1 /\ (i-1)+1 = i
        BY <1>2, <3>1, <3>2
      <4>2. m.next[s[i-1]] = s[i] /\ s[i-1] \in T
        BY <1>2, <4>1 DEF Represents
      <4>3. walk[i-1] = s[i-1] /\ walk[i] = s[i]
        BY <1>2, <3>1, <3>2, <4>1
      <4> HIDE DEF walk
      <4> QED BY <4>2, <4>3
    <3>3. CASE i = Len(s) + 1
      <4>1. walk[i-1] = s[Len(s)] /\ walk[i] = NULL
        BY <1>2, <3>1, <3>3, <2>1
      <4> HIDE DEF walk
      <4> QED BY <2>3, <4>1
    <3>4. CASE i > Len(s) + 1
      <4>1. walk[i-1] = NULL /\ walk[i] = NULL
        BY <1>2, <3>1, <3>4
      <4> HIDE DEF walk, after
      <4> QED BY <2>4, <4>1
    <3>5. i <= Len(s) \/ i = Len(s) + 1 \/ i > Len(s) + 1
      BY <1>2
    <3> HIDE DEF walk, after
    <3> QED BY <3>2, <3>3, <3>4, <3>5
  <2>6. walk = Step(walk)
    <3>1. n >= 1 /\ walk[1] = s[1]
      BY <1>2, <2>1
    <3> HIDE DEF after
    <3>2. DOMAIN walk = 1..n /\ walk = [i \in 1..n |-> walk[i]]
      OBVIOUS
    <3> HIDE DEF walk
    <3> QED BY <2>2, <2>5, <3>1, <3>2
  <2>7. at = Step(at)
    <3> HIDE DEF after, walk
    <3> QED BY <2>6 DEF at
  <2>8. \A i \in 1..n : at[i] = walk[i]
    <3> DEFINE D == {i \in 1..n : at[i] # walk[i]}
    <3> SUFFICES ASSUME D # {} PROVE FALSE
      OBVIOUS
    <3>1. PICK i \in D : \A j \in D : i <= j
      <4>1. D \in SUBSET Nat
        OBVIOUS
      <4> HIDE DEF D
      <4> QED BY <4>1, LeastNatural
    <3>2. i \in 1..n /\ at[i] # walk[i]
      OBVIOUS
    <3>3. CASE i = 1
      <4> HIDE DEF after, walk
      <4> QED BY <2>6, <2>7, <3>2, <3>3
    <3>4. CASE i # 1
      <4>1. i - 1 \in 1..n /\ i - 1 \notin D
        BY <3>1, <3>2, <3>4
      <4>2. at[i-1] = walk[i-1]
        BY <4>1
      <4> HIDE DEF after, walk, D
      <4>3. at[i] = after[at[i-1]] /\ walk[i] = after[walk[i-1]]
        BY <2>6, <2>7, <3>2, <3>4
      <4> QED BY <3>2, <4>2, <4>3
    <3> QED BY <3>3, <3>4
  <2>9. Cardinality(met) = Len(s)
    <3>1. met = 1 .. Len(s)
      BY <1>2, <2>8
    <3>2. Cardinality(1 .. Len(s)) = Len(s)
      <4>1. \A k \in Nat : Cardinality(1 .. k) = k
        BY FS_Interval
      <4> QED BY <1>2, <4>1
    <3> QED BY <3>1, <3>2
  <2>10. Chain(m, q, n) = [i \in 1 .. Len(s) |-> at[i]]
    <3> HIDE DEF met
    <3> QED BY <1>1, <2>2, <2>9
  <2>11. \A i \in 1 .. Len(s) : at[i] = s[i]
    BY <1>2, <2>8
  <2> QED BY <1>2, <2>10, <2>11
<1> QED BY <1>3, <1>4

-----------------------------------------------------------------------------
(* The stores of the kernel: the operations of the scheduler keep their    *)
(* types.                                                                  *)

(* The highest priority of a nonempty set of priorities is one of them.    *)
LEMMA MaxPriority ==
  ASSUME NEW S \in SUBSET Priorities, S # {}
  PROVE  Max(S) \in S /\ \A p \in S : p <= Max(S)
<1> DEFINE R == {ss \in Nat \X Nat : ss[1] < ss[2]}
           T == {TASK_PRIORITY_MAX - p : p \in S}
<1>1. TASK_PRIORITY_MAX \in Nat
  BY PriorityAssumption
<1>2. S \subseteq 0 .. TASK_PRIORITY_MAX
  BY DEF Priorities
<1>3. T \subseteq Nat
  BY <1>1, <1>2
<1>4. T # {}
  OBVIOUS
<1>5. IsWellFoundedOn(R, Nat)
  BY NatLessThanWellFounded DEF OpToRel
<1>6. \E x \in T : \A y \in T : ~(<<y, x>> \in R)
  <2> HIDE DEF T, R
  <2> QED
    BY <1>3, <1>4, <1>5, WFMin
<1>7. PICK x \in T : \A y \in T : ~(<<y, x>> \in R)
  BY <1>6
<1>8. ASSUME NEW y \in T PROVE x <= y
  <2>1. x \in Nat /\ y \in Nat
    BY <1>3, <1>7
  <2>2. <<y, x>> \in Nat \X Nat /\ <<y, x>>[1] = y /\ <<y, x>>[2] = x
    BY <2>1
  <2>3. ~(y < x)
    BY <1>7, <2>2
  <2> QED
    BY <2>1, <2>3
<1>9. PICK q \in S : x = TASK_PRIORITY_MAX - q
  OBVIOUS
<1>10. ASSUME NEW p \in S PROVE q >= p
  <2>1. TASK_PRIORITY_MAX - p \in T
    OBVIOUS
  <2>2. TASK_PRIORITY_MAX - q <= TASK_PRIORITY_MAX - p
    BY <1>8, <1>9, <2>1
  <2>3. p \in Int /\ q \in Int
    BY <1>2
  <2> QED
    BY <1>1, <2>2, <2>3
<1> QED
  BY <1>2, <1>10 DEF Max

-----------------------------------------------------------------------------
(* The identifiers that name the queues of the kernel.                     *)
LEMMA QueueIds ==
  /\ FreeList \in Queues
  /\ \A p \in Priorities : ReadyQ(p) \in Queues
  /\ \A t \in Tasks : RecvQ(t) \in Queues
BY DEF Queues

(* The statements that write next, head, tail and the bitmap, each with    *)
(* its type.                                                               *)
LEMMA StoreTypes ==
  ASSUME NEW m \in Stores, NEW q \in Queues
  PROVE  /\ \A t \in Tasks : Produce(m, q, t) \in Stores
         /\ m.head[q] \in Tasks => Consume(m, q) \in Stores
         /\ \A t \in Tasks, p \in Pointers : Link(m, t, p) \in Stores
         /\ \A bits \in SUBSET Priorities : SetState(m, bits) \in Stores
<1>1. \A t \in Tasks : Produce(m, q, t) \in Stores
  BY DEF Produce, Stores, Pointers
<1>2. m.head[q] \in Tasks => Consume(m, q) \in Stores
  BY DEF Consume, Stores
<1>3. \A t \in Tasks, p \in Pointers : Link(m, t, p) \in Stores
  BY DEF Link, Stores
<1>4. \A bits \in SUBSET Priorities : SetState(m, bits) \in Stores
  BY DEF SetState, Stores
<1> QED
  BY <1>1, <1>2, <1>3, <1>4

(* scheduler_schedule of a task keeps the store well typed.                *)
LEMMA ScheduleType ==
  ASSUME NEW m \in Stores, NEW t \in Tasks, NEW p \in Priorities
  PROVE  scheduler_schedule(m, t, p) \in Stores
<1>1. m.state \cup {p} \in SUBSET Priorities
  BY DEF Stores
<1>2. SetState(m, m.state \cup {p}) \in Stores
  BY <1>1, QueueIds, StoreTypes
<1> QED
  BY <1>2, QueueIds, StoreTypes DEF scheduler_schedule

(* scheduler_schedule changes the head of the ready queue it appends to    *)
(* and of no other queue.                                                  *)
LEMMA ScheduleHead ==
  ASSUME NEW m \in Stores, NEW t \in Tasks, NEW p \in Priorities,
         NEW q \in Queues, q # ReadyQ(p)
  PROVE  scheduler_schedule(m, t, p).head[q] = m.head[q]
BY DEF scheduler_schedule, SetState, Produce, Stores

(* scheduler_get_next keeps what it writes well typed, whether it finds a  *)
(* task to run or panics.                                                  *)
LEMMA GetNextType ==
  ASSUME NEW m \in Stores, NEW r \in [Tasks -> Int], task_active \in Tasks,
         scheduler_get_next(m, r)
  PROVE  /\ lists' \in Stores
         /\ result' \in [Tasks -> Int]
         /\ task_active' \in Tasks
         /\ mode' \in {"user", "panic"}
<1>1. CASE \/ m.state = {}
           \/ m.head[ReadyQ(choose_priority(m.state))] \notin Tasks
  BY <1>1 DEF scheduler_get_next, ClearBitIfEmpty, Modes
<1>2. CASE /\ m.state # {}
           /\ m.head[ReadyQ(choose_priority(m.state))] \in Tasks
  <2> DEFINE p == choose_priority(m.state)
             rest == Consume(m, ReadyQ(p))
  <2>1. m.state \in SUBSET Priorities
    BY DEF Stores
  <2>2. ReadyQ(p) \in Queues
    BY <1>2, <2>1, MaxPriority, QueueIds DEF choose_priority
  <2>3. rest \in Stores
    BY <1>2, <2>2, StoreTypes
  <2>4. SetState(rest, rest.state \ {p}) \in Stores
    <3>1. rest.state \ {p} \in SUBSET Priorities
      BY <2>3 DEF Stores
    <3> QED
      BY <3>1, <2>2, <2>3, StoreTypes
  <2>5. /\ mode' = "user"
        /\ task_active' = m.head[ReadyQ(p)]
        /\ result' = [r EXCEPT ![m.head[ReadyQ(p)]] = OK]
        /\ lists' = IF rest.head[ReadyQ(p)] = NULL
                    THEN SetState(rest, rest.state \ {p}) ELSE rest
    BY <1>2 DEF scheduler_get_next, ClearBitIfEmpty
  <2> QED
    BY <1>2, <2>3, <2>4, <2>5 DEF Modes, OK
<1> QED
  BY <1>1, <1>2

(* The same for the end of a call that reschedules its caller first.       *)
LEMMA RescheduleType ==
  ASSUME TypeOK, NEW m \in Stores, NEW r \in [Tasks -> Int], Reschedule(m, r)
  PROVE  /\ lists' \in Stores
         /\ result' \in [Tasks -> Int]
         /\ task_active' \in Tasks
         /\ mode' \in {"user", "panic"}
<1>1. task_active \in Tasks /\ priority[task_active] \in Priorities
  BY DEF TypeOK
<1>2. scheduler_schedule(m, task_active, priority[task_active]) \in Stores
  BY <1>1, ScheduleType
<1> QED
  BY <1>1, <1>2, GetNextType DEF Reschedule

-----------------------------------------------------------------------------
(* Stores as layouts.                                                      *)

(* The queue of a store, as a sequence.                                    *)
On(m, q) == Chain(m, q, TASK_MAX + 1)

(* The place of a task that is on no queue.                                *)
OFF == <<"off", 0>>
Places == Queues \cup {OFF}

(* Every queue of m is a proper list, and place says which one a task is   *)
(* on: no task is on two.                                                  *)
Layout(m, place) ==
  /\ m \in Stores
  /\ place \in [Tasks -> Places]
  /\ \A q \in Queues :
       /\ On(m, q) \in Seq(Tasks)
       /\ Represents(m, q, On(m, q))
       /\ \A t \in Tasks : place[t] = q <=> t \in ToSet(On(m, q))

(* The bitmap has the bits of the ready queues that are not empty.         *)
BitsOK(m) == \A p \in Priorities : p \in m.state <=> m.head[ReadyQ(p)] # NULL

(* The marks that blocked tasks carry in their next fields.                *)
Marks == {RECV_BLOCKED, RPLY_BLOCKED}
Marking(m) ==
  [t \in Tasks |-> IF m.next[t] \in Marks THEN m.next[t] ELSE NULL]

-----------------------------------------------------------------------------
(* The operations on stores, as changes of a layout.                       *)

(* The identifiers of the queues are all different.                        *)
LEMMA PlaceIds ==
  /\ OFF \notin Queues
  /\ FreeList \in Queues
  /\ \A p \in Priorities :
       /\ ReadyQ(p) \in Queues
       /\ ReadyQ(p) # FreeList
       /\ ReadyQ(p) # OFF
       /\ \A r \in Priorities : ReadyQ(p) = ReadyQ(r) => p = r
       /\ \A t : ReadyQ(p) # RecvQ(t)
  /\ \A t :
       /\ t \in Tasks => RecvQ(t) \in Queues
       /\ RecvQ(t) # FreeList
       /\ RecvQ(t) # OFF
       /\ \A u : RecvQ(t) = RecvQ(u) => t = u
  /\ FreeList # OFF
BY DEF OFF, Queues, FreeList, ReadyQ, RecvQ

(* The kernel's stores are such stores.                                    *)
LEMMA KernelStores == Stores \subseteq StoresOver(Tasks, Queues, Marks)
<1>1. SUBSET Priorities \subseteq SUBSET Int
  BY PriorityAssumption DEF Priorities
<1>2. Pointers = Tasks \cup {NULL} \cup Marks
  BY DEF Pointers, Marks
<1> QED
  BY <1>1, <1>2 DEF Stores, StoresOver

(* There are TASK_MAX tasks, and the markers are not among them.           *)
LEMMA TaskFacts ==
  /\ IsFiniteSet(Tasks)
  /\ Cardinality(Tasks) = TASK_MAX
  /\ TASK_MAX \in Nat \ {0}
  /\ NULL \notin Tasks
  /\ NULL \notin Marks
  /\ \A k \in Marks : k \notin Tasks
  /\ RECV_BLOCKED # RPLY_BLOCKED
  /\ Marks \subseteq Pointers
<1>1. TASK_MAX \in Nat \ {0}
  BY TaskMaxAssumption
<1>2. /\ IsFiniteSet(0 .. TASK_MAX - 1)
      /\ Cardinality(0 .. TASK_MAX - 1) = TASK_MAX
  <2>1. 0 \in Int /\ TASK_MAX - 1 \in Int /\ 0 <= TASK_MAX - 1
    BY <1>1
  <2>2. \A a, b \in Int :
          /\ IsFiniteSet(a .. b)
          /\ Cardinality(a .. b) = IF a > b THEN 0 ELSE b - a + 1
    BY FS_Interval
  <2> QED
    BY <1>1, <2>1, <2>2
<1> QED
  BY <1>1, <1>2, PointerAssumption DEF Tasks, Marks, Pointers

(* A queue that represents a sequence is read back as that sequence.       *)
LEMMA OnIs ==
  ASSUME NEW m \in Stores, NEW q \in Queues, NEW s \in Seq(Tasks),
         Represents(m, q, s)
  PROVE  On(m, q) = s
<1>1. \A i, j \in 1 .. Len(s) : s[i] = s[j] => i = j
  BY DEF Represents
<1>2. Len(s) <= TASK_MAX
  BY <1>1, TaskFacts, NoRepetitions
<1>3. DOMAIN m.next = Tasks
  BY DEF Stores
<1>4. TASK_MAX + 1 \in Nat /\ Len(s) <= TASK_MAX + 1
  BY <1>2, TaskFacts, LenProperties
<1> QED
  BY <1>3, <1>4, TaskFacts, ChainFollows DEF On

(* The elements of a queue, by their positions.                            *)
LEMMA OnQueue ==
  ASSUME NEW s \in Seq(Tasks), NEW t
  PROVE  t \in ToSet(s) <=> \E i \in 1 .. Len(s) : s[i] = t
BY DEF ToSet

(* The head of a queue, read through the layout.                           *)
LEMMA HeadLayout ==
  ASSUME NEW m, NEW place, Layout(m, place), NEW q \in Queues
  PROVE  /\ m.head[q] \in Tasks \cup {NULL}
         /\ m.head[q] = NULL <=> On(m, q) = <<>>
         /\ m.head[q] # NULL => /\ m.head[q] = Head(On(m, q))
                                /\ place[m.head[q]] = q
         /\ m.head[q] = NULL <=> \A t \in Tasks : place[t] # q
<1> DEFINE s == On(m, q)
<1>1. /\ s \in Seq(Tasks)
      /\ m.head[q] = IF s = <<>> THEN NULL ELSE s[1]
      /\ \A t \in Tasks : place[t] = q <=> t \in ToSet(s)
  BY DEF Layout, Represents
<1> HIDE DEF s
<1>2. CASE s = <<>>
  <2>1. \A t : t \notin ToSet(s)
    BY <1>2 DEF ToSet
  <2> QED
    BY <1>1, <1>2, <2>1 DEF s
<1>3. CASE s # <<>>
  <2>1. 1 \in 1 .. Len(s) /\ s[1] \in Tasks /\ Head(s) = s[1]
    BY <1>1, <1>3
  <2>2. s[1] \in ToSet(s)
    BY <1>1, <2>1, OnQueue
  <2> QED
    BY <1>1, <1>3, <2>1, <2>2, TaskFacts DEF s
<1> QED
  BY <1>2, <1>3

(* A task that is on a queue carries no mark.                              *)
LEMMA NoMarkOnQueue ==
  ASSUME NEW m, NEW place, Layout(m, place),
         NEW t \in Tasks, place[t] \in Queues
  PROVE  m.next[t] \in Tasks \cup {NULL}
<1> DEFINE s == On(m, place[t])
<1>1. /\ s \in Seq(Tasks)
      /\ s # <<>> => m.next[s[Len(s)]] = NULL
      /\ \A i \in 1 .. Len(s) - 1 : m.next[s[i]] = s[i + 1]
      /\ t \in ToSet(s)
  BY DEF Layout, Represents
<1> HIDE DEF s
<1>2. PICK i \in 1 .. Len(s) : s[i] = t
  BY <1>1, OnQueue
<1>3. CASE i = Len(s)
  BY <1>1, <1>2, <1>3
<1>4. CASE i # Len(s)
  <2>1. i \in 1 .. Len(s) - 1 /\ s[i + 1] \in Tasks
    BY <1>1, <1>2, <1>4
  <2> QED
    BY <1>1, <1>2, <2>1
<1> QED
  BY <1>3, <1>4

(* Appending a task that is on no queue.                                   *)
LEMMA ProduceLayout ==
  ASSUME NEW m, NEW place, Layout(m, place), NEW q \in Queues,
         NEW t \in Tasks, place[t] = OFF
  PROVE  /\ Layout(Produce(m, q, t), [place EXCEPT ![t] = q])
         /\ On(Produce(m, q, t), q) = Append(On(m, q), t)
         /\ \A o \in Queues \ {q} : On(Produce(m, q, t), o) = On(m, o)
         /\ Marking(Produce(m, q, t)) = [Marking(m) EXCEPT ![t] = NULL]
<1> DEFINE n == Produce(m, q, t)
           s == On(m, q)
<1>1. /\ m \in Stores
      /\ m \in StoresOver(Tasks, Queues, Marks)
      /\ place \in [Tasks -> Places]
      /\ \A o \in Queues : /\ On(m, o) \in Seq(Tasks)
                           /\ Represents(m, o, On(m, o))
                           /\ \A u \in Tasks : place[u] = o
                                                 <=> u \in ToSet(On(m, o))
  BY KernelStores DEF Layout
<1>2. n \in Stores
  BY <1>1, StoreTypes
<1>3. ASSUME NEW o \in Queues
      PROVE  \A i \in 1 .. Len(On(m, o)) : On(m, o)[i] # t
  <2>1. t \notin ToSet(On(m, o)) /\ On(m, o) \in Seq(Tasks)
    BY <1>1, <1>3, PlaceIds
  <2> QED
    BY <2>1, OnQueue
<1>4. On(n, q) = Append(s, t) /\ Represents(n, q, Append(s, t))
  <2>1. Represents(n, q, Append(s, t))
    BY <1>1, <1>3, TaskFacts, ProduceAppends
  <2>2. Append(s, t) \in Seq(Tasks)
    BY <1>1
  <2> QED
    BY <1>2, <2>1, <2>2, OnIs
<1>5. ASSUME NEW o \in Queues \ {q}
      PROVE  On(n, o) = On(m, o) /\ Represents(n, o, On(m, o))
  <2> DEFINE u == On(m, o)
  <2>1. \A i \in 1 .. Len(s), j \in 1 .. Len(u) : s[i] # u[j]
    BY <1>1, <1>5, OnQueue
  <2>2. u \in Seq(Tasks) /\ Represents(m, o, u) /\ o # q
    BY <1>1, <1>5
  <2>3. s \in Seq(Tasks) /\ Represents(m, q, s)
    BY <1>1
  <2>4. \A i \in 1 .. Len(u) : u[i] # t
    BY <1>3, <1>5
  <2> HIDE DEF u, s, n
  <2>5. Represents(n, o, u)
    BY <1>1, <1>5, <2>1, <2>2, <2>3, <2>4, TaskFacts, ProduceKeepsOthers DEF n
  <2> QED
    BY <1>2, <1>5, <2>2, <2>5, OnIs DEF u
<1>6. [place EXCEPT ![t] = q] \in [Tasks -> Places]
  BY <1>1 DEF Places
<1>7. ASSUME NEW o \in Queues, NEW u \in Tasks
      PROVE  [place EXCEPT ![t] = q][u] = o <=> u \in ToSet(On(n, o))
  <2>1. CASE o = q
    <3>1. ToSet(Append(s, t)) = ToSet(s) \cup {t}
      <4>1. /\ Len(Append(s, t)) = Len(s) + 1
            /\ Append(s, t)[Len(s) + 1] = t
            /\ \A i \in 1 .. Len(s) : Append(s, t)[i] = s[i]
            /\ Len(s) \in Nat
        BY <1>1
      <4> QED
        BY <4>1 DEF ToSet
    <3> QED
      BY <1>1, <1>4, <2>1, <3>1
  <2>2. CASE o # q
    BY <1>1, <1>5, <1>7, <2>2, PlaceIds
  <2> QED
    BY <2>1, <2>2
<1>8. Layout(n, [place EXCEPT ![t] = q])
  <2>1. \A o \in Queues : On(n, o) \in Seq(Tasks) /\ Represents(n, o, On(n, o))
    <3>1. Append(s, t) \in Seq(Tasks)
      BY <1>1
    <3> QED
      BY <1>1, <1>4, <1>5, <3>1
  <2> HIDE DEF n
  <2> QED
    BY <1>2, <1>6, <1>7, <2>1 DEF Layout
<1>9. Marking(n) = [Marking(m) EXCEPT ![t] = NULL]
  <2>1. CASE m.head[q] = NULL
    BY <1>1, <2>1, TaskFacts DEF Marking, Produce, Stores
  <2>2. CASE m.head[q] # NULL
    <3>1. /\ m.tail[q] = s[Len(s)]
          /\ m.next[m.tail[q]] = NULL
          /\ m.tail[q] \in Tasks
      BY <1>1, <2>2 DEF Represents
    <3> QED
      BY <1>1, <2>2, <3>1, TaskFacts DEF Marking, Produce, Stores
  <2> QED
    BY <2>1, <2>2
<1> QED
  BY <1>4, <1>5, <1>8, <1>9

(* Dropping the head of a queue that has one.                              *)
LEMMA ConsumeLayout ==
  ASSUME NEW m, NEW place, Layout(m, place), NEW q \in Queues,
         m.head[q] # NULL
  PROVE  /\ m.head[q] \in Tasks
         /\ Layout(Consume(m, q), [place EXCEPT ![m.head[q]] = OFF])
         /\ On(m, q) # <<>>
         /\ On(Consume(m, q), q) = Tail(On(m, q))
         /\ \A o \in Queues \ {q} : On(Consume(m, q), o) = On(m, o)
         /\ Marking(Consume(m, q)) = Marking(m)
<1> DEFINE n == Consume(m, q)
           s == On(m, q)
           t == m.head[q]
<1>1. /\ m \in Stores
      /\ m \in StoresOver(Tasks, Queues, Marks)
      /\ place \in [Tasks -> Places]
      /\ \A o \in Queues : /\ On(m, o) \in Seq(Tasks)
                           /\ Represents(m, o, On(m, o))
                           /\ \A u \in Tasks : place[u] = o
                                                 <=> u \in ToSet(On(m, o))
  BY KernelStores DEF Layout
<1>2. t \in Tasks /\ s # <<>> /\ t = Head(s) /\ place[t] = q
  BY HeadLayout
<1>3. n \in Stores
  BY <1>1, <1>2, StoreTypes
<1>4. Tail(s) \in Seq(Tasks)
  BY <1>1, <1>2
<1>5. Represents(n, q, Tail(s))
  BY <1>1, <1>2, TaskFacts, ConsumeDropsHead
<1>6. On(n, q) = Tail(s)
  BY <1>3, <1>4, <1>5, OnIs
<1>7. ASSUME NEW o \in Queues \ {q}
      PROVE  On(n, o) = On(m, o) /\ Represents(n, o, On(m, o))
  <2>1. Represents(n, o, On(m, o))
    BY <1>1, <1>7, ConsumeKeepsOthers
  <2> QED
    BY <1>1, <1>3, <1>7, <2>1, OnIs
<1>8. \A u \in Tasks : u \in ToSet(Tail(s)) <=> u \in ToSet(s) /\ u # t
  <2>1. /\ Len(Tail(s)) = Len(s) - 1
        /\ \A i \in 1 .. Len(Tail(s)) : Tail(s)[i] = s[i + 1]
        /\ Len(s) \in Nat \ {0}
        /\ t = s[1]
    BY <1>1, <1>2
  <2>2. \A i, j \in 1 .. Len(s) : s[i] = s[j] => i = j
    BY <1>1 DEF Represents
  <2>3. s \in Seq(Tasks)
    BY <1>1
  <2> HIDE DEF s, t
  <2>4. ASSUME NEW u \in Tasks, NEW i \in 1 .. Len(s) - 1, s[i + 1] = u
        PROVE  u # t
    <3>1. 1 \in 1 .. Len(s) /\ i + 1 \in 1 .. Len(s) /\ i + 1 # 1
      BY <2>1
    <3> QED
      BY <2>1, <2>2, <2>4, <3>1
  <2>5. \A u : u \in ToSet(Tail(s))
                 <=> \E i \in 1 .. Len(s) - 1 : s[i + 1] = u
    <3>1. \A u : u \in ToSet(Tail(s))
                   <=> \E i \in 1 .. Len(Tail(s)) : Tail(s)[i] = u
      BY <1>4, OnQueue
    <3>2. 1 .. Len(Tail(s)) = 1 .. Len(s) - 1
      BY <2>1
    <3> QED
      BY <2>1, <3>1, <3>2
  <2>6. \A u : u \in ToSet(s) <=> \E i \in 1 .. Len(s) : s[i] = u
    BY <2>3, OnQueue
  <2>7. \A i \in 1 .. Len(s) : i = 1 \/ \E j \in 1 .. Len(s) - 1 : j + 1 = i
    <3> SUFFICES ASSUME NEW i \in 1 .. Len(s), i # 1
                 PROVE  \E j \in 1 .. Len(s) - 1 : j + 1 = i
      OBVIOUS
    <3>1. i - 1 \in 1 .. Len(s) - 1 /\ (i - 1) + 1 = i
      BY <2>1
    <3> QED
      BY <3>1
  <2>8. \A j \in 1 .. Len(s) - 1 : j + 1 \in 1 .. Len(s)
    BY <2>1
  <2> QED
    BY <2>1, <2>4, <2>5, <2>6, <2>7, <2>8
<1>9. [place EXCEPT ![t] = OFF] \in [Tasks -> Places]
  BY <1>1 DEF Places
<1>10. ASSUME NEW o \in Queues, NEW u \in Tasks
       PROVE  [place EXCEPT ![t] = OFF][u] = o <=> u \in ToSet(On(n, o))
  <2>1. /\ place[u] = o <=> u \in ToSet(On(m, o))
        /\ [place EXCEPT ![t] = OFF][u] = IF u = t THEN OFF ELSE place[u]
        /\ OFF # o
    BY <1>1, <1>2, <1>10, PlaceIds
  <2>2. CASE o = q
    <3> DEFINE rest == Tail(s)
    <3>1. On(n, q) = rest /\ (u \in ToSet(rest) <=> u \in ToSet(s) /\ u # t)
      BY <1>6, <1>8, <1>10
    <3>2. u \in ToSet(On(n, o)) <=> u \in ToSet(On(m, o)) /\ u # t
      BY <2>2, <3>1, Zenon
    <3> HIDE DEF n, rest, s, t
    <3> QED
      BY <2>1, <3>2
  <2>3. CASE o # q
    BY <1>2, <1>7, <1>10, <2>1, <2>3
  <2> QED
    BY <2>2, <2>3
<1>11. Layout(n, [place EXCEPT ![t] = OFF])
  <2>1. \A o \in Queues : On(n, o) \in Seq(Tasks) /\ Represents(n, o, On(n, o))
    BY <1>1, <1>4, <1>5, <1>6, <1>7
  <2> HIDE DEF n, t
  <2> QED
    BY <1>3, <1>9, <1>10, <2>1 DEF Layout
<1>12. Marking(n) = Marking(m)
  BY DEF Marking, Consume
<1> QED
  BY <1>2, <1>6, <1>7, <1>11, <1>12

(* A store with the same lists, over other bits and other next fields of   *)
(* tasks that are on no queue.                                             *)
LEMMA SameLayout ==
  ASSUME NEW m, NEW place, Layout(m, place), NEW n \in Stores,
         n.head = m.head, n.tail = m.tail,
         \A u \in Tasks : place[u] \in Queues => n.next[u] = m.next[u]
  PROVE  /\ Layout(n, place)
         /\ \A o \in Queues : On(n, o) = On(m, o)
<1>1. ASSUME NEW o \in Queues
      PROVE  Represents(n, o, On(m, o)) /\ On(n, o) = On(m, o)
  <2> DEFINE s == On(m, o)
  <2>1. /\ s \in Seq(Tasks)
        /\ Represents(m, o, s)
        /\ \A u \in Tasks : place[u] = o <=> u \in ToSet(s)
    BY <1>1 DEF Layout
  <2> HIDE DEF s
  <2>2. \A i \in 1 .. Len(s) : n.next[s[i]] = m.next[s[i]]
    <3>1. \A i \in 1 .. Len(s) : s[i] \in Tasks /\ place[s[i]] = o
      BY <2>1, OnQueue
    <3> QED
      BY <1>1, <3>1
  <2>3. s # <<>> => Len(s) \in 1 .. Len(s)
    BY <2>1
  <2>4. \A i \in 1 .. Len(s) - 1 : i \in 1 .. Len(s)
    BY <2>1
  <2>5. Represents(n, o, s)
    BY <2>1, <2>2, <2>3, <2>4 DEF Represents
  <2> QED
    BY <1>1, <2>1, <2>5, OnIs DEF s
<1> QED
  BY <1>1 DEF Layout

(* Writing the next field of a task that is on no queue.                   *)
LEMMA LinkLayout ==
  ASSUME NEW m, NEW place, Layout(m, place),
         NEW t \in Tasks, place[t] = OFF, NEW k \in Marks
  PROVE  /\ Layout(Link(m, t, k), place)
         /\ \A o \in Queues : On(Link(m, t, k), o) = On(m, o)
         /\ Marking(Link(m, t, k)) = [Marking(m) EXCEPT ![t] = k]
<1>1. m \in Stores /\ Link(m, t, k) \in Stores
  BY TaskFacts, StoreTypes, PlaceIds DEF Layout
<1>2. \A u \in Tasks : place[u] \in Queues
                         => Link(m, t, k).next[u] = m.next[u]
  BY <1>1, PlaceIds DEF Link, Stores
<1>3. /\ Link(m, t, k).head = m.head
      /\ Link(m, t, k).tail = m.tail
      /\ Link(m, t, k).next = [m.next EXCEPT ![t] = k]
  BY DEF Link
<1>4. Marking(Link(m, t, k)) = [Marking(m) EXCEPT ![t] = k]
  BY <1>1, <1>3, TaskFacts DEF Marking, Stores
<1>5. /\ Layout(Link(m, t, k), place)
      /\ \A o \in Queues : On(Link(m, t, k), o) = On(m, o)
  <2> DEFINE n == Link(m, t, k)
  <2>1. /\ n \in Stores /\ n.head = m.head /\ n.tail = m.tail
        /\ \A u \in Tasks : place[u] \in Queues => n.next[u] = m.next[u]
    BY <1>1, <1>2, <1>3
  <2> HIDE DEF n
  <2>2. Layout(n, place) /\ \A o \in Queues : On(n, o) = On(m, o)
    BY <2>1, SameLayout
  <2> QED
    BY <2>2 DEF n
<1> QED
  BY <1>4, <1>5

(* Writing the bitmap.                                                     *)
LEMMA SetStateLayout ==
  ASSUME NEW m, NEW place, Layout(m, place), NEW bits \in SUBSET Priorities
  PROVE  /\ Layout(SetState(m, bits), place)
         /\ \A o \in Queues : On(SetState(m, bits), o) = On(m, o)
         /\ Marking(SetState(m, bits)) = Marking(m)
<1>1. /\ SetState(m, bits) \in Stores
      /\ SetState(m, bits).head = m.head
      /\ SetState(m, bits).tail = m.tail
      /\ SetState(m, bits).next = m.next
  BY PlaceIds, StoreTypes DEF Layout, SetState
<1> QED
  BY <1>1, SameLayout DEF Marking

(* The store after ksyscall_exit has thrown a queue away.                  *)
Dropped(m, q) ==
  [next |-> m.next, head |-> [m.head EXCEPT ![q] = NULL],
   tail |-> m.tail, state |-> m.state]

(* Clearing the head of a queue takes its tasks off it, and moves nobody   *)
(* else.                                                                   *)
LEMMA DropLayout ==
  ASSUME NEW m, NEW place, Layout(m, place), NEW q \in Queues
  PROVE  /\ Layout(Dropped(m, q),
                   [t \in Tasks |-> IF place[t] = q THEN OFF ELSE place[t]])
         /\ On(Dropped(m, q), q) = <<>>
         /\ \A o \in Queues \ {q} : On(Dropped(m, q), o) = On(m, o)
         /\ Marking(Dropped(m, q)) = Marking(m)
<1> DEFINE n == Dropped(m, q)
           left == [t \in Tasks |-> IF place[t] = q THEN OFF ELSE place[t]]
<1>1. /\ m \in Stores
      /\ place \in [Tasks -> Places]
      /\ \A o \in Queues : /\ On(m, o) \in Seq(Tasks)
                           /\ Represents(m, o, On(m, o))
                           /\ \A u \in Tasks : place[u] = o
                                                 <=> u \in ToSet(On(m, o))
  BY DEF Layout
<1>2. n \in Stores
  BY <1>1 DEF Dropped, Stores, Pointers
<1>3. /\ n.next = m.next
      /\ n.tail = m.tail
      /\ n.head = [m.head EXCEPT ![q] = NULL]
      /\ n.head[q] = NULL
      /\ \A o \in Queues \ {q} : n.head[o] = m.head[o]
  BY <1>1 DEF Dropped, Stores
<1>4. Marking(n) = Marking(m)
  BY <1>3 DEF Marking
<1> HIDE DEF n
<1>5. Represents(n, q, <<>>) /\ <<>> \in Seq(Tasks)
  BY <1>3 DEF Represents
<1>6. On(n, q) = <<>>
  BY <1>2, <1>5, OnIs
<1>7. ASSUME NEW o \in Queues \ {q}
      PROVE  On(n, o) = On(m, o) /\ Represents(n, o, On(m, o))
  <2>1. Represents(n, o, On(m, o))
    BY <1>1, <1>3, <1>7 DEF Represents
  <2> QED
    BY <1>1, <1>2, <1>7, <2>1, OnIs
<1>8. ASSUME NEW o \in Queues, NEW u \in Tasks
      PROVE  left[u] = o <=> u \in ToSet(On(n, o))
  <2>1. CASE o = q
    <3>1. u \notin ToSet(<<>>)
      BY DEF ToSet
    <3>2. left[u] # q
      BY <1>8, PlaceIds
    <3> QED
      BY <1>6, <2>1, <3>1, <3>2
  <2>2. CASE o # q
    <3>1. On(n, o) = On(m, o) /\ (place[u] = o <=> u \in ToSet(On(m, o)))
      BY <1>1, <1>7, <1>8, <2>2
    <3>2. left[u] = o <=> place[u] = o
      BY <1>8, <2>2, PlaceIds
    <3> QED
      BY <3>1, <3>2
  <2> QED
    BY <2>1, <2>2
<1>9. left \in [Tasks -> Places]
  BY <1>1 DEF Places
<1>10. Layout(n, left)
  <2>1. \A o \in Queues : On(n, o) \in Seq(Tasks) /\ Represents(n, o, On(n, o))
    BY <1>1, <1>5, <1>6, <1>7
  <2> HIDE DEF left
  <2> QED
    BY <1>2, <1>8, <1>9, <2>1 DEF Layout
<1> QED
  BY <1>4, <1>6, <1>7, <1>10 DEF n

(* scheduler_schedule of a task that is on no queue.                       *)
LEMMA ScheduleLayout ==
  ASSUME NEW m, NEW place, Layout(m, place), BitsOK(m),
         NEW t \in Tasks, place[t] = OFF, NEW p \in Priorities
  PROVE  /\ Layout(scheduler_schedule(m, t, p),
                   [place EXCEPT ![t] = ReadyQ(p)])
         /\ BitsOK(scheduler_schedule(m, t, p))
         /\ Marking(scheduler_schedule(m, t, p))
              = [Marking(m) EXCEPT ![t] = NULL]
         /\ On(scheduler_schedule(m, t, p), ReadyQ(p))
              = Append(On(m, ReadyQ(p)), t)
         /\ \A o \in Queues \ {ReadyQ(p)} :
              On(scheduler_schedule(m, t, p), o) = On(m, o)
<1> DEFINE set == SetState(m, m.state \cup {p})
           n == scheduler_schedule(m, t, p)
<1>1. m \in Stores /\ m.state \cup {p} \in SUBSET Priorities
  BY DEF Layout, Stores
<1>2. /\ Layout(set, place)
      /\ \A o \in Queues : On(set, o) = On(m, o)
      /\ Marking(set) = Marking(m)
  BY <1>1, SetStateLayout
<1>3. ReadyQ(p) \in Queues
  BY PlaceIds
<1>4. n = Produce(set, ReadyQ(p), t)
  BY DEF scheduler_schedule
<1>5. set.state = m.state \cup {p} /\ set.head = m.head
  BY DEF SetState
<1> HIDE DEF set
<1>6. /\ Layout(n, [place EXCEPT ![t] = ReadyQ(p)])
      /\ Marking(n) = [Marking(m) EXCEPT ![t] = NULL]
      /\ On(n, ReadyQ(p)) = Append(On(m, ReadyQ(p)), t)
      /\ \A o \in Queues \ {ReadyQ(p)} : On(n, o) = On(m, o)
  BY <1>2, <1>3, <1>4, ProduceLayout
<1>7. n.state = m.state \cup {p}
  BY <1>4, <1>5 DEF Produce
<1>8. \A r \in Priorities \ {p} : n.head[ReadyQ(r)] = m.head[ReadyQ(r)]
  BY <1>1, PlaceIds, ScheduleHead
<1>9. n.head[ReadyQ(p)] # NULL
  <2>1. [place EXCEPT ![t] = ReadyQ(p)][t] = ReadyQ(p)
    BY DEF Layout
  <2> HIDE DEF n
  <2> QED
    BY <1>3, <1>6, <2>1, HeadLayout
<1>10. BitsOK(n)
  BY <1>7, <1>8, <1>9 DEF BitsOK
<1> QED
  BY <1>6, <1>10

(* A bitmap that says which ready queues are not empty says where the      *)
(* ready tasks are.                                                        *)
LEMMA BitsLayout ==
  ASSUME NEW m, NEW place, Layout(m, place), BitsOK(m)
  PROVE  /\ m.state \in SUBSET Priorities
         /\ \A p \in Priorities :
              p \in m.state <=> \E t \in Tasks : place[t] = ReadyQ(p)
<1>1. m.state \in SUBSET Priorities
  BY DEF Layout, Stores
<1>2. ASSUME NEW p \in Priorities
      PROVE  p \in m.state <=> \E t \in Tasks : place[t] = ReadyQ(p)
  BY <1>2, PlaceIds, HeadLayout DEF BitsOK
<1> QED
  BY <1>1, <1>2

(* From m to n, the head of q has left and no other queue has changed.     *)
Takes(m, n, q) ==
  /\ On(m, q) # <<>>
  /\ On(n, q) = Tail(On(m, q))
  /\ \A o \in Queues \ {q} : On(n, o) = On(m, o)

(* scheduler_get_next when some task is ready: it takes the first of the   *)
(* highest queue.                                                          *)
LEMMA GetNextLayout ==
  ASSUME NEW m, NEW place, Layout(m, place), BitsOK(m), NEW r,
         scheduler_get_next(m, r),
         NEW i \in Tasks, NEW b \in Priorities, place[i] = ReadyQ(b)
  PROVE  /\ mode' = "user"
         /\ task_active' \in Tasks
         /\ result' = [r EXCEPT ![task_active'] = OK]
         /\ Layout(lists', [place EXCEPT ![task_active'] = OFF])
         /\ BitsOK(lists')
         /\ Marking(lists') = Marking(m)
         /\ \E p \in Priorities :
              /\ place[task_active'] = ReadyQ(p)
              /\ \A u \in lists'.state : u <= p
              /\ Takes(m, lists', ReadyQ(p))
<1> DEFINE p == choose_priority(m.state)
           n == Consume(m, ReadyQ(p))
           t == m.head[ReadyQ(p)]
<1>1. m.state \in SUBSET Priorities /\ m.state # {} /\ m \in Stores
  BY BitsLayout DEF Layout
<1>2. p \in m.state /\ p \in Priorities /\ \A u \in m.state : u <= p
  BY <1>1, MaxPriority DEF choose_priority
<1>3. ReadyQ(p) \in Queues /\ t # NULL
  BY <1>2, PlaceIds DEF BitsOK
<1> HIDE DEF p
<1>4. t \in Tasks /\ place[t] = ReadyQ(p)
  BY <1>3, HeadLayout
<1>5. /\ Layout(n, [place EXCEPT ![t] = OFF])
      /\ On(m, ReadyQ(p)) # <<>>
      /\ On(n, ReadyQ(p)) = Tail(On(m, ReadyQ(p)))
      /\ \A o \in Queues \ {ReadyQ(p)} : On(n, o) = On(m, o)
      /\ Marking(n) = Marking(m)
  BY <1>3, ConsumeLayout
<1>6. /\ mode' = "user"
      /\ task_active' = t
      /\ result' = [r EXCEPT ![t] = OK]
      /\ lists' = ClearBitIfEmpty(n, p)
  BY <1>1, <1>4 DEF scheduler_get_next, p
<1>7. /\ n.state = m.state
      /\ n.state \ {p} \in SUBSET Priorities
      /\ \A q \in Queues \ {ReadyQ(p)} : n.head[q] = m.head[q]
  BY <1>1 DEF Consume, Stores
<1> HIDE DEF n, t
<1>8. /\ Layout(lists', [place EXCEPT ![t] = OFF])
      /\ \A o \in Queues : On(lists', o) = On(n, o)
      /\ Marking(lists') = Marking(n)
      /\ lists'.head = n.head
      /\ lists'.state = IF n.head[ReadyQ(p)] = NULL
                        THEN m.state \ {p} ELSE m.state
  <2>1. CASE n.head[ReadyQ(p)] = NULL
    <3>1. lists' = SetState(n, n.state \ {p})
      BY <1>6, <2>1 DEF ClearBitIfEmpty
    <3>2. lists'.head = n.head /\ lists'.state = m.state \ {p}
      BY <1>7, <3>1 DEF SetState
    <3> QED
      BY <1>5, <1>7, <2>1, <3>1, <3>2, SetStateLayout
  <2>2. CASE n.head[ReadyQ(p)] # NULL
    BY <1>5, <1>6, <1>7, <2>2 DEF ClearBitIfEmpty
  <2> QED
    BY <2>1, <2>2
<1>9. BitsOK(lists')
  <2>1. \A u \in Priorities \ {p} : n.head[ReadyQ(u)] = m.head[ReadyQ(u)]
    BY <1>2, <1>7, PlaceIds
  <2> QED
    BY <1>2, <1>8, <2>1 DEF BitsOK
<1>10. \A u \in lists'.state : u <= p
  BY <1>2, <1>8
<1> QED
  BY <1>2, <1>3, <1>4, <1>5, <1>6, <1>8, <1>9, <1>10 DEF Takes


-----------------------------------------------------------------------------
(* The order of the queues.                                                *)

(* At most the head leaves, and tasks join at the end.                     *)
Fifo(s, u) == IsPrefix(s, u) \/ (s # <<>> /\ IsPrefix(Tail(s), u))

(* From the store b to m, tasks have joined the queues at their ends, and  *)
(* o alone may have lost its head.                                         *)
Moves(b, m, o) ==
  \A q \in Queues :
    /\ On(b, q) \in Seq(Tasks)
    /\ IF q = o THEN Fifo(On(b, q), On(m, q)) ELSE IsPrefix(On(b, q), On(m, q))

(* From b to m no queue has lost more than its head or changed its order.  *)
Orderly(b, m) == \A q \in Queues : Fifo(On(b, q), On(m, q))

(* o is not a ready queue.                                                 *)
Unready(o) == \A p \in Priorities : o # ReadyQ(p)

(* The receive queues, by their owners.                                    *)
Inboxes(m) == [r \in Tasks |-> On(m, RecvQ(r))]

(* Prefixes, element by element.                                           *)
LEMMA PrefixIs ==
  ASSUME NEW s \in Seq(Tasks), NEW u \in Seq(Tasks)
  PROVE  IsPrefix(s, u) <=> /\ Len(s) <= Len(u)
                            /\ \A i \in 1 .. Len(s) : s[i] = u[i]
<1>1. Len(s) \in Nat /\ Len(u) \in Nat
  OBVIOUS
<1>2. ASSUME Len(s) <= Len(u)
      PROVE  SubSeq(s, 1, Len(s)) = SubSeq(u, 1, Len(s))
               <=> \A i \in 1 .. Len(s) : s[i] = u[i]
  <2>1. /\ SubSeq(s, 1, Len(s)) \in Seq(Tasks)
        /\ SubSeq(u, 1, Len(s)) \in Seq(Tasks)
        /\ Len(SubSeq(s, 1, Len(s))) = Len(s)
        /\ Len(SubSeq(u, 1, Len(s))) = Len(s)
        /\ \A i \in 1 .. Len(s) : /\ SubSeq(s, 1, Len(s))[i] = s[i]
                                  /\ SubSeq(u, 1, Len(s))[i] = u[i]
    BY <1>1, <1>2
  <2>2. \A a, b \in Seq(Tasks) :
          /\ Len(a) = Len(b)
          /\ \A i \in 1 .. Len(a) : a[i] = b[i]
          => a = b
    OBVIOUS
  <2> QED
    BY <2>1, <2>2
<1> QED
  BY <1>2 DEF IsPrefix

(* Appending, and dropping the head, from where the queue was.             *)
LEMMA PrefixSteps ==
  ASSUME NEW s \in Seq(Tasks), NEW u \in Seq(Tasks)
  PROVE  /\ IsPrefix(s, s)
         /\ \A t \in Tasks : /\ IsPrefix(s, u) => IsPrefix(s, Append(u, t))
                             /\ Fifo(s, u) => Fifo(s, Append(u, t))
         /\ IsPrefix(s, u) /\ u # <<>> => Fifo(s, Tail(u))
<1>1. \A a, b \in Seq(Tasks) :
        IsPrefix(a, b) <=> /\ Len(a) <= Len(b)
                           /\ \A i \in 1 .. Len(a) : a[i] = b[i]
  BY PrefixIs
<1>2. IsPrefix(s, s)
  BY <1>1
<1>3. ASSUME NEW t \in Tasks, NEW a \in Seq(Tasks), IsPrefix(a, u)
      PROVE  IsPrefix(a, Append(u, t))
  <2>1. Append(u, t) \in Seq(Tasks) /\ Len(Append(u, t)) = Len(u) + 1
        /\ \A i \in 1 .. Len(u) : Append(u, t)[i] = u[i]
    BY <1>3
  <2>2. Len(a) <= Len(u) /\ \A i \in 1 .. Len(a) : a[i] = u[i]
    BY <1>1, <1>3
  <2>3. Len(a) \in Nat /\ Len(u) \in Nat
    BY <1>3
  <2>4. Len(a) <= Len(Append(u, t))
        /\ \A i \in 1 .. Len(a) : a[i] = Append(u, t)[i]
    BY <2>1, <2>2, <2>3
  <2> QED
    BY <1>1, <1>3, <2>1, <2>4
<1>4. s # <<>> => Tail(s) \in Seq(Tasks)
  OBVIOUS
<1>5. ASSUME NEW t \in Tasks, Fifo(s, u)
      PROVE  Fifo(s, Append(u, t))
  BY <1>3, <1>4, <1>5 DEF Fifo
<1>6. ASSUME IsPrefix(s, u), u # <<>>
      PROVE  Fifo(s, Tail(u))
  <2>1. Len(s) <= Len(u) /\ \A i \in 1 .. Len(s) : s[i] = u[i]
    BY <1>1, <1>6
  <2>2. /\ Tail(u) \in Seq(Tasks) /\ Len(Tail(u)) = Len(u) - 1
        /\ \A i \in 1 .. Len(u) - 1 : Tail(u)[i] = u[i + 1]
        /\ Len(s) \in Nat /\ Len(u) \in Nat
    BY <1>6
  <2>3. CASE s = <<>>
    <3>1. Len(s) = 0
      BY <2>3
    <3>2. Len(s) <= Len(Tail(u)) /\ \A i \in 1 .. Len(s) : s[i] = Tail(u)[i]
      <4>1. Len(Tail(u)) \in Nat
        BY <2>2
      <4> QED
        BY <3>1, <4>1
    <3>3. IsPrefix(s, Tail(u))
      BY <1>1, <2>2, <3>2
    <3> QED
      BY <3>3 DEF Fifo
  <2>4. CASE s # <<>>
    <3>1. /\ Tail(s) \in Seq(Tasks) /\ Len(Tail(s)) = Len(s) - 1
          /\ \A i \in 1 .. Len(s) - 1 : Tail(s)[i] = s[i + 1]
      BY <2>4
    <3>2. /\ Len(Tail(s)) <= Len(Tail(u))
          /\ \A i \in 1 .. Len(Tail(s)) : Tail(s)[i] = Tail(u)[i]
      BY <2>1, <2>2, <3>1
    <3>3. IsPrefix(Tail(s), Tail(u))
      BY <1>1, <2>2, <3>1, <3>2
    <3> QED
      BY <2>4, <3>3 DEF Fifo
  <2> QED
    BY <2>3, <2>4
<1> QED
  BY <1>2, <1>3, <1>5, <1>6

(* Only ready queues are ready queues.                                     *)
LEMMA UnreadyIds ==
  /\ Unready(OFF) /\ Unready(FreeList) /\ \A r : Unready(RecvQ(r))
BY PlaceIds DEF Unready

(* A step that touches one queue touches at most one inbox.                *)
LEMMA InboxesOf ==
  ASSUME NEW m, NEW n, NEW q \in Queues,
         \A o \in Queues \ {q} : On(n, o) = On(m, o)
  PROVE  /\ \A r \in Tasks : q = RecvQ(r) =>
              Inboxes(n) = [Inboxes(m) EXCEPT ![r] = On(n, q)]
         /\ (\A r \in Tasks : q # RecvQ(r)) => Inboxes(n) = Inboxes(m)
BY PlaceIds DEF Inboxes

(* A store moves to itself.                                                *)
LEMMA MovesStart ==
  ASSUME NEW m, NEW place, Layout(m, place)
  PROVE  Moves(m, m, OFF)
<1>1. \A q \in Queues : On(m, q) \in Seq(Tasks)
  BY DEF Layout
<1> QED
  BY <1>1, PrefixSteps, PlaceIds DEF Moves

(* Nothing has moved between stores with the same queues.                  *)
LEMMA MovesSame ==
  ASSUME NEW b, NEW m, NEW n, NEW o, Moves(b, m, o),
         \A q \in Queues : On(n, q) = On(m, q)
  PROVE  Moves(b, n, o) /\ Inboxes(n) = Inboxes(m)
BY PlaceIds DEF Moves, Inboxes

(* A task joins a queue.                                                   *)
LEMMA MovesJoin ==
  ASSUME NEW b, NEW m, NEW n, NEW o, Moves(b, m, o), NEW place,
         Layout(m, place), NEW q \in Queues, NEW t \in Tasks,
         On(n, q) = Append(On(m, q), t),
         \A p \in Queues \ {q} : On(n, p) = On(m, p)
  PROVE  Moves(b, n, o)
<1>1. \A p \in Queues : On(m, p) \in Seq(Tasks) /\ On(b, p) \in Seq(Tasks)
  BY DEF Layout, Moves
<1>2. ASSUME NEW p \in Queues
      PROVE  IF p = o THEN Fifo(On(b, p), On(n, p))
                      ELSE IsPrefix(On(b, p), On(n, p))
  <2>1. IF p = o THEN Fifo(On(b, p), On(m, p))
                 ELSE IsPrefix(On(b, p), On(m, p))
    BY <1>2 DEF Moves
  <2>2. CASE p = q
    BY <1>1, <1>2, <2>1, <2>2, PrefixSteps
  <2>3. CASE p # q
    BY <1>2, <2>1, <2>3
  <2> QED
    BY <2>2, <2>3
<1> QED
  BY <1>1, <1>2 DEF Moves

(* The head leaves a queue, when none has before.                          *)
LEMMA MovesLeave ==
  ASSUME NEW b, NEW m, NEW n, Moves(b, m, OFF), NEW place,
         Layout(m, place), NEW q \in Queues,
         On(m, q) # <<>>, On(n, q) = Tail(On(m, q)),
         \A p \in Queues \ {q} : On(n, p) = On(m, p)
  PROVE  Moves(b, n, q)
<1>1. \A p \in Queues : On(m, p) \in Seq(Tasks) /\ On(b, p) \in Seq(Tasks)
  BY DEF Layout, Moves
<1>2. \A p \in Queues : IsPrefix(On(b, p), On(m, p))
  BY PlaceIds DEF Moves
<1>3. Fifo(On(b, q), On(n, q))
  BY <1>1, <1>2, PrefixSteps
<1> QED
  BY <1>1, <1>2, <1>3 DEF Moves

(* scheduler_schedule moves no inbox and keeps the order.                  *)
LEMMA ScheduleMoves ==
  ASSUME NEW m, NEW place, Layout(m, place), BitsOK(m),
         NEW t \in Tasks, place[t] = OFF, NEW p \in Priorities
  PROVE  /\ Inboxes(scheduler_schedule(m, t, p)) = Inboxes(m)
         /\ \A b, o : Moves(b, m, o)
                        => Moves(b, scheduler_schedule(m, t, p), o)
<1> DEFINE n == scheduler_schedule(m, t, p)
           q == ReadyQ(p)
<1>1. /\ On(n, q) = Append(On(m, q), t)
      /\ \A o \in Queues \ {q} : On(n, o) = On(m, o)
  BY ScheduleLayout
<1>2. q \in Queues /\ \A r \in Tasks : q # RecvQ(r)
  BY PlaceIds
<1> HIDE DEF n, q
<1>3. Inboxes(n) = Inboxes(m)
  BY <1>1, <1>2, InboxesOf
<1>4. \A b, o : Moves(b, m, o) => Moves(b, n, o)
  BY <1>1, <1>2, MovesJoin
<1> QED
  BY <1>3, <1>4 DEF n

(* scheduler_get_next takes the head of a ready queue, so that every queue *)
(* is in order at the end of a call that took from another one.            *)
LEMMA GetNextMoves ==
  ASSUME NEW m, NEW place, Layout(m, place), BitsOK(m), NEW r,
         scheduler_get_next(m, r),
         NEW i \in Tasks, NEW b \in Priorities, place[i] = ReadyQ(b),
         NEW o, Moves(lists, m, o), Unready(o)
  PROVE  Inboxes(lists') = Inboxes(m) /\ Orderly(lists, lists')
<1>1. PICK p \in Priorities :
        /\ place[task_active'] = ReadyQ(p)
        /\ \A u \in lists'.state : u <= p
        /\ Takes(m, lists', ReadyQ(p))
  BY GetNextLayout
<1>2. ReadyQ(p) \in Queues /\ \A u \in Tasks : ReadyQ(p) # RecvQ(u)
  BY PlaceIds
<1>3. Inboxes(lists') = Inboxes(m)
  BY <1>1, <1>2, InboxesOf DEF Takes
<1>4. ASSUME NEW q \in Queues
      PROVE  Fifo(On(lists, q), On(lists', q))
  <2>1. /\ On(lists, q) \in Seq(Tasks) /\ On(m, q) \in Seq(Tasks)
        /\ IF q = o THEN Fifo(On(lists, q), On(m, q))
                    ELSE IsPrefix(On(lists, q), On(m, q))
    BY <1>4 DEF Moves, Layout
  <2>2. CASE q = ReadyQ(p)
    <3>1. q # o
      BY <2>2 DEF Unready
    <3> QED
      BY <1>1, <2>1, <2>2, <3>1, PrefixSteps DEF Takes
  <2>3. CASE q # ReadyQ(p)
    BY <1>1, <1>4, <2>1, <2>3 DEF Fifo, Takes
  <2> QED
    BY <2>2, <2>3
<1> QED
  BY <1>3, <1>4 DEF Orderly

-----------------------------------------------------------------------------
(* Requests and rounds of ksyscall_recv have their types.                 *)

(* Requests are well typed.                                                *)
LEMMA RequestTypes ==
  /\ NoReq \in Requests
  /\ \A len \in LENGTHS : RecvReq(len) \in Requests
  /\ \A d \in AnyTid, len, rlen \in LENGTHS :
       SendReq(d, len, rlen) \in Requests
<1>1. LENGTHS \subseteq Nat /\ 0 \in AnyTid
  BY LengthAssumption, TidAssumption DEF AnyTid
<1> QED
  BY <1>1 DEF NoReq, SendReq, RecvReq, Requests

(* One round of ksyscall_recv keeps the fields well typed.                 *)
LEMMA RecvType ==
  ASSUME TypeOK, NEW m \in Stores, NEW rq \in [Tasks -> Requests],
         NEW receiver \in Tasks, ksyscall_recv(m, rq, receiver)
  PROVE  /\ lists' \in Stores
         /\ result' \in [Tasks -> Int]
         /\ task_active' \in Tasks
         /\ mode' \in {"user", "panic", "recv"}
         /\ req' \in [Tasks -> Requests]
         /\ callee' \in Tasks \cup {NULL}
         /\ mode' = "recv" => callee' \in Tasks
<1> DEFINE q == RecvQ(receiver)
<1> USE RequestTypes, QueueIds
<1>1. CASE RecvBlock(m, rq, receiver)
  <2>1. Link(m, receiver, RECV_BLOCKED) \in Stores
    BY StoreTypes DEF Pointers
  <2> QED
    BY <1>1, <2>1, GetNextType DEF RecvBlock, TypeOK
<1>2. CASE ~BadSender(m, receiver) /\ RecvReject(m, rq, receiver)
  <2>1. m.head[q] \in Tasks
    BY <1>2 DEF RecvReject, BadSender
  <2>2. Consume(m, q) \in Stores
    BY <2>1, StoreTypes
  <2>3. priority[m.head[q]] \in Priorities
    BY <2>1 DEF TypeOK
  <2>4. lists' \in Stores
    BY <1>2, <2>1, <2>2, <2>3, ScheduleType DEF RecvReject
  <2> QED
    BY <1>2, <2>1, <2>4 DEF RecvReject, TypeOK, Modes, ERR_NOT_ENUF_MEMORY
<1>3. CASE ~BadSender(m, receiver) /\ RecvAccept(m, rq, receiver)
  <2> DEFINE taken == Link(Consume(m, q), m.head[q], RPLY_BLOCKED)
  <2>1. m.head[q] \in Tasks
    BY <1>3 DEF RecvAccept, BadSender
  <2>2. taken \in Stores
    BY <2>1, StoreTypes DEF Pointers
  <2>3. priority[receiver] \in Priorities
    BY DEF TypeOK
  <2>4. scheduler_schedule(taken, receiver, priority[receiver]) \in Stores
    BY <2>2, <2>3, ScheduleType
  <2>5. [result EXCEPT ![receiver] = OK] \in [Tasks -> Int]
    BY DEF TypeOK, OK
  <2>6. scheduler_get_next(
          scheduler_schedule(taken, receiver, priority[receiver]),
          [result EXCEPT ![receiver] = OK])
    BY <1>3 DEF RecvAccept
  <2>7. /\ req' = [rq EXCEPT ![receiver] = NoReq]
        /\ callee' = NULL
    BY <1>3 DEF RecvAccept
  <2> QED
    BY <2>4, <2>5, <2>6, <2>7, GetNextType DEF TypeOK
<1>4. CASE RecvBadPointer(m, rq, receiver)
  BY <1>4 DEF RecvBadPointer, TypeOK, Modes
<1> QED
  BY <1>1, <1>2, <1>3, <1>4 DEF ksyscall_recv

-----------------------------------------------------------------------------
(* Ids.                                                                    *)

(* Adding multiples of n changes nothing modulo n.                         *)
LEMMA ModStep ==
  ASSUME NEW n \in Nat \ {0}, NEW d \in Int, NEW k \in Int
  PROVE  (d + n * k) % n = d % n
<1>1. \A e \in Int : /\ e = n * (e \div n) + (e % n)
                     /\ e % n \in Int /\ e \div n \in Int
                     /\ 0 <= e % n /\ e % n < n
  OBVIOUS
<1>2. n * k \in Int
  OBVIOUS
<1>3. PICK e \in Int : e = d + n * k
  BY <1>2
<1> DEFINE x == e \div n
           y == d \div n + k
           r == e % n
           s == d % n
<1>4. x \in Int /\ y \in Int /\ r \in Int /\ s \in Int
      /\ 0 <= r /\ r < n /\ 0 <= s /\ s < n
  BY <1>1
<1>5. n * x + r = n * y + s
  <2>1. e = n * x + r
    BY <1>1
  <2>2. d = n * (d \div n) + s
    BY <1>1
  <2>3. \A a, b \in Int : n * (a + b) = n * a + n * b
    OBVIOUS
  <2>4. n * y = n * (d \div n) + n * k
    BY <1>1, <2>3
  <2> HIDE DEF x, y, r, s
  <2>5. n * (d \div n) \in Int /\ n * y \in Int /\ n * x \in Int
    BY <1>1, <1>4
  <2> QED
    BY <1>2, <1>3, <1>4, <2>1, <2>2, <2>4, <2>5
<1>6. \A a, b \in Int : a >= b + 1 => n * a >= n * b + n
  <2> SUFFICES ASSUME NEW a \in Int, NEW b \in Int, a >= b + 1
               PROVE  n * a >= n * b + n
    OBVIOUS
  <2>1. \A c \in Nat : n * c \in Nat
    OBVIOUS
  <2>2. a - (b + 1) \in Nat
    OBVIOUS
  <2>3. n * (a - (b + 1)) = n * a - (n * b + n)
    OBVIOUS
  <2>4. n * (a - (b + 1)) \in Nat
    BY <2>1, <2>2
  <2> QED
    BY <2>3, <2>4
<1> HIDE DEF x, y, r, s
<1>7. n * x \in Int /\ n * y \in Int
  BY <1>4
<1>8. x >= y + 1 => FALSE
  <2>1. x >= y + 1 => n * x >= n * y + n
    BY <1>4, <1>6
  <2> QED
    BY <1>4, <1>5, <1>7, <2>1
<1>9. y >= x + 1 => FALSE
  <2>1. y >= x + 1 => n * y >= n * x + n
    BY <1>4, <1>6
  <2> QED
    BY <1>4, <1>5, <1>7, <2>1
<1>10. x = y
  BY <1>4, <1>8, <1>9
<1>11. r = s
  BY <1>4, <1>5, <1>7, <1>10
<1> QED
  BY <1>3, <1>11 DEF r, s

(* The ids wrap at a multiple of TASK_MAX.                                 *)
LEMMA TidMaxIs ==
  /\ TASK_MAX \in Nat \ {0} /\ TID_MAX \in Nat
  /\ TASK_MAX <= TID_MAX + 1
  /\ \E k \in Int : TID_MAX + 1 = TASK_MAX * k
<1> DEFINE n == TASK_MAX
           w == TID_MAX + 1
           k == w \div n
<1>1. n \in Nat \ {0} /\ TID_MAX \in Nat /\ w % n = 0 /\ w \in Nat \ {0}
  BY TaskMaxAssumption, TidAssumption
<1>2. w = n * k /\ k \in Int
  BY <1>1
<1>3. n <= w
  <2>1. \A a \in Int : a <= 0 => n * a <= 0
    BY <1>1
  <2>2. \A a \in Int : a >= 1 => n * a >= n
    BY <1>1
  <2> HIDE DEF k, w
  <2> QED
    BY <1>1, <1>2, <2>1, <2>2
<1> QED
  BY <1>1, <1>2, <1>3

(* The next id of a slot is again an int that leads to the slot.           *)
LEMMA NextTidIs ==
  ASSUME TypeOK, NEW t \in Tasks
  PROVE  /\ NextTid(t) \in AnyTid
         /\ task_index_from_tid(NextTid(t)) = task_index_from_tid(tid[t])
<1> DEFINE n == TASK_MAX
           w == TID_MAX + 1
<1>1. n \in Nat \ {0} /\ TID_MAX \in Nat /\ n <= w /\ w \in Nat
  BY TidMaxIs
<1>2. PICK d \in Int : d = tid[t] /\ -w <= d /\ d <= TID_MAX
  BY DEF TypeOK, AnyTid
<1>3. PICK k \in Int : w = n * k
  BY TidMaxIs
<1>4. NextTid(t) = IF d + n > TID_MAX THEN (d + n) - 2 * w ELSE d + n
  BY <1>2 DEF NextTid, Wrap
<1>5. NextTid(t) \in AnyTid
  BY <1>1, <1>2, <1>4 DEF AnyTid
<1>6. (d + n) % n = d % n
  <2>1. \A j \in Int : (d + n * j) % n = d % n
    BY <1>1, <1>2, ModStep
  <2>2. n * 1 = n
    BY <1>1
  <2> QED
    BY <2>1, <2>2
<1>7. ((d + n) - 2 * w) % n = d % n
  <2>1. PICK j \in Int : j = 1 - 2 * k
    BY <1>3
  <2>2. \A a \in Int : n * (1 - 2 * a) = n - 2 * (n * a)
    BY <1>1
  <2>3. n * j = n - 2 * w
    BY <1>3, <2>1, <2>2
  <2>4. (d + n * j) % n = d % n
    BY <1>1, <1>2, <2>1, ModStep
  <2>5. d + n * j = (d + n) - 2 * w
    BY <1>1, <1>2, <2>3
  <2> QED
    BY <2>4, <2>5
<1> QED
  BY <1>2, <1>4, <1>5, <1>6, <1>7 DEF task_index_from_tid

-----------------------------------------------------------------------------
(* Type correctness: one step for each action.                             *)

(* The fields of the initial state have their types.                       *)
LEMMA InitTyped == Init => TypeOK
<1> SUFFICES ASSUME Init PROVE TypeOK
  OBVIOUS
<1>1. TASK_MAX \in Nat \ {0} /\ TASK_PRIORITY_MAX \in Nat
  BY TaskMaxAssumption, PriorityAssumption
<1>2. 0 \in Tasks /\ TASK_MAX - 1 \in Tasks /\ 0 \in Priorities
  BY <1>1 DEF Tasks, Priorities
<1>3. lists \in Stores
  BY <1>2 DEF Init, FreeLinks, Stores, Pointers
<1>4. tid \in [Tasks -> AnyTid]
  BY <1>1, TidMaxIs DEF Init, AnyTid, Tasks
<1>5. req \in [Tasks -> Requests]
  BY RequestTypes DEF Init
<1> QED
  BY <1>2, <1>3, <1>4, <1>5 DEF Init, FreeLinks, TypeOK, Modes, OK

(* kernel_init gives its tasks priorities that exist.                      *)
LEMMA BootPriority ==
  ASSUME Booted < Len(BOOT)
  PROVE  BOOT[Booted + 1] \in Priorities
<1>1. IsFiniteSet(Tasks)
  BY TaskMaxAssumption, FS_Interval DEF Tasks
<1>2. Booted \in Nat
  BY <1>1, FS_Subset, FS_CardinalityType DEF Booted
<1> QED
  BY <1>2, BootAssumption

(* An abort or a shutdown leaves every field well typed.                   *)
LEMMA HaltTyped ==
  ASSUME TypeOK, NEW how \in {"panic", "shutdown"}, Halt(how)
  PROVE  TypeOK'
BY DEF TypeOK, Halt, Modes

(* task_create keeps the store well typed.                                 *)
LEMMA CreateStore ==
  ASSUME TypeOK, lists.head[FreeList] \in Tasks, NEW p \in Priorities
  PROVE  AfterCreate(p) \in Stores
<1>1. Consume(lists, FreeList) \in Stores
  BY QueueIds, StoreTypes DEF TypeOK
<1> QED
  BY <1>1, ScheduleType DEF AfterCreate

(* Every step keeps the types: one case for each action.                   *)
LEMMA NextTyped == TypeOK /\ [Next]_vars => TypeOK'
<1> SUFFICES ASSUME TypeOK, [Next]_vars PROVE TypeOK'
  OBVIOUS
<1> USE QueueIds, RequestTypes
<1>0. /\ lists \in Stores
      /\ task_active \in Tasks
      /\ result \in [Tasks -> Int]
      /\ req \in [Tasks -> Requests]
      /\ priority[task_active] \in Priorities
  BY DEF TypeOK
<1>1. ASSUME NEW c \in Int,
             Return(lists, c),
             UNCHANGED <<tid, stranded, priority, sp, int_queue, req, callee>>
      PROVE  TypeOK'
  <2>1. [result EXCEPT ![task_active] = c] \in [Tasks -> Int]
    BY <1>0
  <2> QED
    BY <1>0, <1>1, <2>1, RescheduleType DEF Modes, Return, TypeOK
<1>2. CASE Pass
  BY <1>1, <1>2 DEF Pass, OK
<1>3. CASE CreateFails
  BY <1>1, <1>3 DEF CreateFails, ERR_NO_DESCRIPTORS
<1>4. ASSUME NEW p \in ASKED, Create(p), lists.head[FreeList] \notin Tasks
      PROVE  TypeOK'
  BY <1>4, HaltTyped DEF Create
<1>5. ASSUME NEW p \in ASKED, Create(p), lists.head[FreeList] \in Tasks
      PROVE  TypeOK'
  <2>1. p \in Priorities
    BY AskedAssumption
  <2>2. AfterCreate(p) \in Stores
    BY <1>5, <2>1, CreateStore DEF Create
  <2>3. [result EXCEPT ![task_active] = OK] \in [Tasks -> Int]
    BY <1>0 DEF OK
  <2>4. Reschedule(AfterCreate(p), [result EXCEPT ![task_active] = OK])
    BY <1>5 DEF Create, Return
  <2>5. /\ priority' \in [Tasks -> Priorities] /\ sp' \in [Tasks -> BOOLEAN]
        /\ UNCHANGED <<tid, stranded, int_queue, req, callee>>
    BY <1>5, <2>1 DEF Create, task_create, TypeOK
  <2>6. /\ lists' \in Stores
        /\ result' \in [Tasks -> Int]
        /\ task_active' \in Tasks
        /\ mode' \in {"user", "panic"}
    BY <2>2, <2>3, <2>4, RescheduleType
  <2> QED
    BY <2>5, <2>6 DEF Modes, TypeOK
<1>6. ASSUME NEW p \in ASKED, ChangePriority(p) PROVE TypeOK'
  <2>1. p \in Priorities
    BY AskedAssumption
  <2>2. scheduler_schedule(lists, task_active, p) \in Stores
    BY <1>0, <2>1, ScheduleType
  <2>3. [result EXCEPT ![task_active] = OK] \in [Tasks -> Int]
    BY <1>0 DEF OK
  <2> QED
    BY <1>0, <1>6, <2>1, <2>2, <2>3, GetNextType
    DEF Modes, ChangePriority, TypeOK
<1>7. ASSUME NEW len \in LENGTHS, Receive(len) PROVE TypeOK'
  <2>1. [req EXCEPT ![task_active] = RecvReq(len)] \in [Tasks -> Requests]
    <3>1. RecvReq(len) \in Requests
      BY <1>7
    <3> QED
      BY <1>0, <3>1
  <2> QED
    BY <1>0, <1>7, <2>1, RecvType DEF Modes, Receive, TypeOK
<1>8. ASSUME NEW d \in AnyTid, SendInvalid(d) PROVE TypeOK'
  BY <1>1, <1>8
  DEF SendInvalid, InvalidTidError, ERR_IMPOSSIBLE_TASK, ERR_INVALID_TASK
<1>9. ASSUME NEW d \in AnyTid, NEW len \in LENGTHS, NEW rlen \in LENGTHS,
             Send(d, len, rlen)
      PROVE  TypeOK'
  <2> DEFINE receiver == task_index_from_tid(d)
             queued   == Produce(lists, RecvQ(receiver), task_active)
             saved    == [req EXCEPT ![task_active] = SendReq(d, len, rlen)]
  <2>1. receiver \in Tasks
    <3>1. d \in Int /\ TASK_MAX \in Nat \ {0}
      BY TaskMaxAssumption DEF AnyTid
    <3> QED
      BY <3>1 DEF task_index_from_tid, Tasks
  <2>2. queued \in Stores
    BY <1>0, <2>1, StoreTypes
  <2>3. saved \in [Tasks -> Requests]
    BY <1>0
  <2>4. CASE ksyscall_recv(queued, saved, receiver)
    BY <1>9, <2>1, <2>2, <2>3, <2>4, RecvType
    DEF Modes, Send, WaitsForMessage, TypeOK
  <2>5. CASE /\ req' = saved
             /\ scheduler_get_next(queued, result)
             /\ UNCHANGED callee
    BY <1>0, <1>9, <2>2, <2>3, <2>5, GetNextType
    DEF Modes, Send, WaitsForMessage, TypeOK
  <2> QED
    BY <1>9, <2>4, <2>5 DEF Send, WaitsForMessage, WaitsForMessage
<1>10. CASE SendSelf
  BY <1>10, HaltTyped DEF SendSelf
<1>11. ASSUME NEW d \in AnyTid, NEW rlen \in LENGTHS, ReplyFails(d, rlen)
       PROVE  TypeOK'
  BY <1>1, <1>11
  DEF ReplyFails, InvalidTidError, ERR_IMPOSSIBLE_TASK, ERR_INVALID_TASK,
      ERR_INVALID_RECVER, ERR_NOT_ENUF_MEMORY
<1>12. ASSUME NEW d \in AnyTid, NEW rlen \in LENGTHS, Reply(d, rlen)
       PROVE  TypeOK'
  <2> DEFINE sender == task_index_from_tid(d)
             woken  == scheduler_schedule(lists, sender, priority[sender])
             codes  == [result EXCEPT ![task_active] = OK, ![sender] = OK]
  <2>1. sender \in Tasks
    <3>1. d \in Int /\ TASK_MAX \in Nat \ {0}
      BY TaskMaxAssumption DEF AnyTid
    <3> QED
      BY <3>1 DEF task_index_from_tid, Tasks
  <2>2. woken \in Stores
    BY <1>0, <2>1, ScheduleType DEF TypeOK
  <2>3. scheduler_schedule(woken, task_active, priority[task_active])
          \in Stores
    BY <1>0, <2>2, ScheduleType
  <2>4. codes \in [Tasks -> Int]
    BY <1>0, <2>1 DEF OK
  <2>5. scheduler_get_next(
          scheduler_schedule(woken, task_active, priority[task_active]), codes)
    BY <1>12 DEF Reply, AwaitsReply
  <2> HIDE DEF woken, codes
  <2> QED
    BY <1>0, <1>12, <2>1, <2>3, <2>4, <2>5, GetNextType
    DEF Modes, Reply, AwaitsReply, TypeOK
<1>13. CASE Exit
  <2>1. NextTid(task_active) \in AnyTid
    BY <1>0, NextTidIs
  <2> QED
    BY <1>0, <1>13, <2>1 DEF Exit, TypeOK, Modes
<1>14. ASSUME NEW e \in EVENTS, Await(e) PROVE TypeOK'
  BY <1>0, <1>14, GetNextType DEF Modes, Await, TypeOK
<1>15. ASSUME NEW e \in EVENTS, AwaitPast(e) PROVE TypeOK'
  BY <1>0, <1>15, RescheduleType DEF Modes, AwaitPast, TypeOK
<1>16. ASSUME NEW e \in EVENTS, EventCollision(e) PROVE TypeOK'
  BY <1>16, HaltTyped DEF EventCollision
<1>17. CASE Shutdown
  BY <1>17, HaltTyped DEF Shutdown
<1>18. CASE IrqIgnored
  BY <1>0, <1>18, RescheduleType DEF Modes, IrqIgnored, TypeOK
<1>19. ASSUME NEW e \in EVENTS, IrqWake(e) PROVE TypeOK'
  <2> DEFINE t == int_queue[e]
  <2>1. t \in Tasks /\ priority[t] \in Priorities
    BY <1>19 DEF IrqWake, TypeOK
  <2>2. scheduler_schedule(lists, t, priority[t]) \in Stores
    BY <1>0, <2>1, ScheduleType
  <2>3. [result EXCEPT ![t] = OK] \in [Tasks -> Int]
    BY <1>0, <2>1 DEF OK
  <2> QED
    BY <1>19, <2>2, <2>3, RescheduleType DEF Modes, IrqWake, TypeOK
<1>20. ASSUME NEW e \in EVENTS, IrqMissed(e) PROVE TypeOK'
  BY <1>20, HaltTyped DEF IrqMissed
<1>21. CASE BootCreate
  <2>1. BOOT[Booted + 1] \in Priorities
    BY <1>21, BootPriority DEF BootCreate
  <2>2. AfterCreate(BOOT[Booted + 1]) \in Stores
    BY <1>21, <2>1, CreateStore DEF BootCreate
  <2> QED
    BY <1>0, <1>21, <2>1, <2>2 DEF BootCreate, task_create, TypeOK
<1>22. CASE scheduler_first_run
  BY <1>0, <1>22, GetNextType DEF Modes, scheduler_first_run, TypeOK
<1>23. CASE ReceiveAgain
  <2>1. callee \in Tasks
    BY <1>23 DEF ReceiveAgain, TypeOK
  <2> QED
    BY <1>0, <1>23, <2>1, RecvType DEF ReceiveAgain, TypeOK, Modes
<1>24. CASE FlushSender /\ lists.head[RecvQ(task_active)] \in Tasks
  <2> DEFINE q      == RecvQ(task_active)
             sender == lists.head[q]
             woken  == scheduler_schedule(lists, sender, priority[sender])
  <2>1. sender \in Tasks /\ priority[sender] \in Priorities
    BY <1>24 DEF FlushSender, TypeOK
  <2>2. woken \in Stores
    BY <1>0, <2>1, ScheduleType
  <2>3. lists' \in Stores
    <3>1. woken.head[q] = sender
      BY <1>0, <2>1, ScheduleHead DEF RecvQ, ReadyQ
    <3>2. lists' = Consume(woken, q)
      BY <1>24 DEF FlushSender
    <3> HIDE DEF woken
    <3> QED
      BY <1>0, <2>1, <2>2, <3>1, <3>2, StoreTypes
  <2> QED
    BY <1>0, <1>24, <2>1, <2>3 DEF FlushSender, TypeOK, ERR_INCOMPLETE
<1>25. CASE FlushSender /\ lists.head[RecvQ(task_active)] \notin Tasks
  BY <1>25, HaltTyped DEF FlushSender
<1>26. CASE FreeDescriptor
  <2>1. Produce(lists, FreeList, task_active) \in Stores
    BY <1>0, StoreTypes
  <2> QED
    BY <1>0, <1>26, <2>1, GetNextType DEF Modes, FreeDescriptor, TypeOK
<1>27. CASE UNCHANGED vars
  BY <1>27 DEF vars, TypeOK
<1> QED
  BY <1>2, <1>3, <1>4, <1>5, <1>6, <1>7, <1>8, <1>9, <1>10, <1>11, <1>12,
     <1>13, <1>14, <1>15, <1>16, <1>17, <1>18, <1>19, <1>20, <1>21, <1>22,
     <1>23, <1>24, <1>25, <1>26, <1>27
  DEF Next, Syscall, Irq, Kernel, Stop

(* Every field of the kernel has its C type in every reachable state.      *)
THEOREM Typed == Spec => []TypeOK
BY InitTyped, NextTyped, PTL DEF Spec

-----------------------------------------------------------------------------
(***************************************************************************)
(* No lost wakeup.  Awake(m, x) is the invariant as a fact about a store:  *)
(* scheduling and dispatching move other queues and write no RECV_BLOCKED, *)
(* so only ksyscall_recv and ksyscall_send have to be looked at.           *)
(***************************************************************************)
Awake(m, x) ==
  \A t \in Tasks \ {x} : m.next[t] = RECV_BLOCKED => m.head[RecvQ(t)] = NULL

(* Only a ksyscall_recv under way has a callee.                            *)
CalleeOK == mode \in {"boot", "user", "destroy"} => callee = NULL

WakeupInv == TypeOK /\ CalleeOK /\ NoLostWakeup

(* Appending to a queue that is not a receive queue puts a wait mark on    *)
(* nobody and takes it from the task appended.                             *)
LEMMA ProduceAwake ==
  ASSUME NEW m \in Stores, NEW q \in Queues, NEW t \in Tasks, NEW x,
         \A r \in Tasks : q # RecvQ(r),
         Awake(m, x)
  PROVE  Awake(Produce(m, q, t), x) /\ Produce(m, q, t).next[t] = NULL
<1>1. RECV_BLOCKED # NULL /\ RECV_BLOCKED # t
  BY PointerAssumption
<1>2. \A r \in Tasks :
        /\ Produce(m, q, t).next[r] \in {m.next[r], t, NULL}
        /\ Produce(m, q, t).head[RecvQ(r)] = m.head[RecvQ(r)]
  BY QueueIds DEF Produce, Stores
<1>3. Produce(m, q, t).next[t] = NULL
  BY DEF Produce, Stores
<1> QED
  BY <1>1, <1>2, <1>3 DEF Awake

(* scheduler_schedule of a task wakes it and touches no receive queue.     *)
LEMMA ScheduleAwake ==
  ASSUME NEW m \in Stores, NEW t \in Tasks, NEW p \in Priorities, NEW x,
         Awake(m, x)
  PROVE  /\ Awake(scheduler_schedule(m, t, p), x)
         /\ scheduler_schedule(m, t, p).next[t] = NULL
<1> DEFINE set == SetState(m, m.state \cup {p})
<1>1. set \in Stores /\ set.next = m.next /\ set.head = m.head
  BY DEF SetState, Stores
<1>2. Awake(set, x)
  BY <1>1 DEF Awake
<1>3. ReadyQ(p) \in Queues /\ \A r \in Tasks : ReadyQ(p) # RecvQ(r)
  BY QueueIds DEF ReadyQ, RecvQ
<1> HIDE DEF set
<1> QED
  BY <1>1, <1>2, <1>3, ProduceAwake DEF scheduler_schedule, set

(* Nor does scheduler_get_next.                                            *)
LEMMA GetNextAwake ==
  ASSUME NEW m \in Stores, NEW r, NEW x, Awake(m, x), scheduler_get_next(m, r)
  PROVE  Awake(lists', x) /\ lists'.next = m.next
<1>1. \A p, t : ReadyQ(p) # RecvQ(t)
  BY DEF ReadyQ, RecvQ
<1>2. CASE lists' = m
  BY <1>2
<1>3. ASSUME NEW p,
             \/ lists' = Consume(m, ReadyQ(p))
             \/ lists' = SetState(Consume(m, ReadyQ(p)),
                                  Consume(m, ReadyQ(p)).state \ {p})
      PROVE  Awake(lists', x) /\ lists'.next = m.next
  <2>1. /\ lists'.next = m.next
        /\ lists'.head = [m.head EXCEPT ![ReadyQ(p)]
                                  = m.next[m.head[ReadyQ(p)]]]
    BY <1>3 DEF Consume, SetState
  <2>2. \A t \in Tasks : lists'.head[RecvQ(t)] = m.head[RecvQ(t)]
    BY <1>1, <2>1, QueueIds DEF Stores
  <2> QED
    BY <2>1, <2>2 DEF Awake
<1> QED
  BY <1>2, <1>3 DEF scheduler_get_next, ClearBitIfEmpty

(* One round of ksyscall_recv: either the receiver waits with an empty     *)
(* queue, or it does not wait.                                             *)
LEMMA RecvAwake ==
  ASSUME TypeOK, NEW m \in Stores, NEW rq, NEW receiver \in Tasks,
         Awake(m, receiver), ksyscall_recv(m, rq, receiver)
  PROVE  NoLostWakeup' /\ CalleeOK'
<1> DEFINE q == RecvQ(receiver)
<1>1. /\ RECV_BLOCKED # NULL /\ RECV_BLOCKED # RPLY_BLOCKED
      /\ NULL \notin Tasks
      /\ q \in Queues
      /\ \A t \in Tasks : RecvQ(t) \in Queues /\ (t # receiver => RecvQ(t) # q)
      /\ priority[receiver] \in Priorities
  BY PointerAssumption, QueueIds DEF RecvQ, TypeOK
<1>2. \A n, r : scheduler_get_next(n, r) => mode' \in {"user", "panic"}
  BY DEF scheduler_get_next, ClearBitIfEmpty
<1>3. ASSUME m.head[q] \in Tasks
      PROVE  /\ Consume(m, q) \in Stores
             /\ Awake(Consume(m, q), receiver)
  <2>1. Consume(m, q) \in Stores
    BY <1>1, <1>3, StoreTypes
  <2>2. \A t \in Tasks \ {receiver} :
          /\ Consume(m, q).next[t] = m.next[t]
          /\ Consume(m, q).head[RecvQ(t)] = m.head[RecvQ(t)]
    BY <1>1 DEF Consume, Stores
  <2> QED
    BY <2>1, <2>2 DEF Awake
<1>4. CASE RecvBlock(m, rq, receiver)
  <2> DEFINE n == Link(m, receiver, RECV_BLOCKED)
  <2>1. m.head[q] = NULL /\ callee' = NULL
    BY <1>4 DEF RecvBlock
  <2>2. n \in Stores /\ n.head = m.head
    BY <1>1, StoreTypes DEF Link, Pointers
  <2>3. \A t \in Tasks \ {receiver} : n.next[t] = m.next[t]
    BY DEF Link, Stores
  <2>4. Awake(n, NULL)
    BY <2>1, <2>2, <2>3 DEF Awake
  <2>5. Awake(lists', NULL)
    BY <1>4, <2>2, <2>4, GetNextAwake DEF RecvBlock
  <2> QED
    BY <1>1, <2>1, <2>5 DEF Awake, NoLostWakeup, CalleeOK
<1>5. CASE ~BadSender(m, receiver) /\ RecvReject(m, rq, receiver)
  <2> DEFINE sender == m.head[q]
  <2>1. /\ sender \in Tasks
        /\ lists' = scheduler_schedule(Consume(m, q), sender,
                                       priority[sender])
        /\ mode' = "recv"
        /\ callee' = receiver
    BY <1>5 DEF RecvReject, BadSender
  <2>2. priority[sender] \in Priorities
    BY <2>1 DEF TypeOK
  <2>3. Awake(lists', receiver)
    BY <1>3, <2>1, <2>2, ScheduleAwake
  <2> QED
    BY <2>1, <2>3 DEF Awake, NoLostWakeup, CalleeOK
<1>6. CASE ~BadSender(m, receiver) /\ RecvAccept(m, rq, receiver)
  <2> DEFINE sender == m.head[q]
             taken  == Link(Consume(m, q), sender, RPLY_BLOCKED)
             ready  == scheduler_schedule(taken, receiver, priority[receiver])
  <2>1. /\ sender \in Tasks
        /\ callee' = NULL
        /\ scheduler_get_next(ready, [result EXCEPT ![receiver] = OK])
    BY <1>6 DEF RecvAccept, BadSender
  <2>2. taken \in Stores /\ taken.head = Consume(m, q).head
    BY <1>1, <1>3, <2>1, StoreTypes DEF Link, Pointers
  <2>3. \A t \in Tasks :
          taken.next[t] \in {Consume(m, q).next[t], RPLY_BLOCKED}
    BY <1>3, <2>1 DEF Link, Stores
  <2>4. Awake(taken, receiver)
    BY <1>1, <1>3, <2>1, <2>2, <2>3 DEF Awake
  <2> HIDE DEF taken
  <2>5. Awake(ready, receiver) /\ ready.next[receiver] = NULL
    BY <1>1, <2>2, <2>4, ScheduleAwake
  <2>6. ready \in Stores
    BY <1>1, <2>2, ScheduleType
  <2> HIDE DEF ready
  <2>7. Awake(lists', receiver) /\ lists'.next[receiver] = NULL
    BY <2>1, <2>5, <2>6, GetNextAwake
  <2> QED
    BY <1>1, <2>1, <2>7 DEF Awake, NoLostWakeup, CalleeOK
<1>7. CASE RecvBadPointer(m, rq, receiver)
  BY <1>7 DEF RecvBadPointer, Awake, NoLostWakeup, CalleeOK
<1> QED
  BY <1>4, <1>5, <1>6, <1>7 DEF ksyscall_recv

(* The same for a call that ends with scheduler_get_next.                  *)
LEMMA DispatchAwake ==
  ASSUME CalleeOK, mode \in {"boot", "user", "destroy"}, callee' = callee,
         NEW m \in Stores, NEW r, Awake(m, callee), scheduler_get_next(m, r)
  PROVE  NoLostWakeup' /\ CalleeOK'
<1>1. Awake(lists', callee)
  BY GetNextAwake
<1>2. callee = NULL
  BY DEF CalleeOK
<1> QED
  BY <1>1, <1>2 DEF Awake, NoLostWakeup, CalleeOK

(* The same for a call that reschedules its caller.                        *)
LEMMA RescheduleAwake ==
  ASSUME TypeOK, CalleeOK, mode = "user", callee' = callee,
         NEW m \in Stores, NEW r, Awake(m, callee), Reschedule(m, r)
  PROVE  NoLostWakeup' /\ CalleeOK'
<1> DEFINE n == scheduler_schedule(m, task_active, priority[task_active])
<1>1. task_active \in Tasks /\ priority[task_active] \in Priorities
  BY DEF TypeOK
<1>2. n \in Stores /\ Awake(n, callee)
  BY <1>1, ScheduleType, ScheduleAwake
<1>3. scheduler_get_next(n, r)
  BY DEF Reschedule
<1> HIDE DEF n
<1> QED
  BY <1>2, <1>3, DispatchAwake

(* task_create marks nobody as waiting and touches no receive queue.       *)
LEMMA CreateAwake ==
  ASSUME TypeOK, NoLostWakeup, lists.head[FreeList] \in Tasks,
         NEW p \in Priorities
  PROVE  Awake(AfterCreate(p), callee)
<1> DEFINE m == Consume(lists, FreeList)
<1>1. lists \in Stores /\ FreeList \in Queues
  BY QueueIds DEF TypeOK
<1>2. m \in Stores
  BY <1>1, StoreTypes
<1>3. \A t \in Tasks : /\ m.next[t] = lists.next[t]
                       /\ m.head[RecvQ(t)] = lists.head[RecvQ(t)]
  BY <1>1, QueueIds DEF Consume, Stores, FreeList, RecvQ
<1>4. Awake(m, callee)
  BY <1>3 DEF Awake, NoLostWakeup
<1> HIDE DEF m
<1> QED
  BY <1>2, <1>4, ScheduleAwake DEF AfterCreate, m

(* Every step keeps the strengthened invariant: one case for each action.  *)
LEMMA WakeupStep == WakeupInv /\ [Next]_vars => CalleeOK' /\ NoLostWakeup'
<1> SUFFICES ASSUME TypeOK, CalleeOK, NoLostWakeup, [Next]_vars
             PROVE  CalleeOK' /\ NoLostWakeup'
  BY DEF WakeupInv
<1>0. /\ lists \in Stores
      /\ task_active \in Tasks
      /\ priority[task_active] \in Priorities
      /\ Awake(lists, callee)
      /\ mode = "user" => callee = NULL
  BY DEF TypeOK, Awake, NoLostWakeup, CalleeOK
<1>1. ASSUME mode = "user", callee' = callee,
             NEW r, Reschedule(lists, r)
      PROVE  CalleeOK' /\ NoLostWakeup'
  BY <1>0, <1>1, RescheduleAwake
<1>2. ASSUME NEW how \in {"panic", "shutdown"}, Halt(how)
      PROVE  CalleeOK' /\ NoLostWakeup'
  BY <1>2 DEF Halt, CalleeOK, NoLostWakeup
<1>3. CASE Pass
  BY <1>1, <1>3 DEF Pass, Calls, Return
<1>4. CASE CreateFails
  BY <1>1, <1>4 DEF CreateFails, Calls, Return
<1>5. ASSUME NEW p \in ASKED, Create(p), lists.head[FreeList] \notin Tasks
      PROVE  CalleeOK' /\ NoLostWakeup'
  BY <1>2, <1>5 DEF Create
<1>6. ASSUME NEW p \in ASKED, Create(p), lists.head[FreeList] \in Tasks
      PROVE  CalleeOK' /\ NoLostWakeup'
  <2>1. p \in Priorities /\ lists.head[FreeList] \in Tasks
    BY <1>6, AskedAssumption DEF Create
  <2>2. AfterCreate(p) \in Stores /\ Awake(AfterCreate(p), callee)
    BY <2>1, CreateStore, CreateAwake
  <2>3. PICK r : Reschedule(AfterCreate(p), r)
    <3>1. Reschedule(AfterCreate(p), [result EXCEPT ![task_active] = OK])
      BY <1>6 DEF Create, Return
    <3> QED
      BY <3>1
  <2>4. mode = "user" /\ callee' = callee
    BY <1>6 DEF Create, Calls
  <2> QED
    BY <2>2, <2>3, <2>4, RescheduleAwake
<1>7. ASSUME NEW p \in ASKED, ChangePriority(p)
      PROVE  CalleeOK' /\ NoLostWakeup'
  <2> DEFINE m == scheduler_schedule(lists, task_active, p)
  <2>1. p \in Priorities
    BY AskedAssumption
  <2>2. m \in Stores /\ Awake(m, callee)
    BY <1>0, <2>1, ScheduleType, ScheduleAwake
  <2>3. /\ scheduler_get_next(m, [result EXCEPT ![task_active] = OK])
        /\ mode = "user"
        /\ callee' = callee
    BY <1>7 DEF ChangePriority, Calls
  <2> HIDE DEF m
  <2> QED
    BY <2>2, <2>3, DispatchAwake
<1>8. ASSUME NEW len \in LENGTHS, Receive(len)
      PROVE  CalleeOK' /\ NoLostWakeup'
  <2>1. Awake(lists, task_active)
    BY <1>0, <1>8, PointerAssumption DEF Receive, Calls, Awake
  <2> QED
    BY <1>0, <1>8, <2>1, RecvAwake DEF Receive
<1>9. ASSUME NEW d \in AnyTid, SendInvalid(d)
      PROVE  CalleeOK' /\ NoLostWakeup'
  BY <1>1, <1>9 DEF SendInvalid, Calls, Return
<1>10. ASSUME NEW d \in AnyTid, NEW len \in LENGTHS, NEW rlen \in LENGTHS,
              Send(d, len, rlen)
       PROVE  CalleeOK' /\ NoLostWakeup'
  <2> DEFINE receiver == task_index_from_tid(d)
             queued   == Produce(lists, RecvQ(receiver), task_active)
             saved    == [req EXCEPT ![task_active] = SendReq(d, len, rlen)]
  <2>1. receiver \in Tasks
    <3>1. d \in Int /\ TASK_MAX \in Nat \ {0}
      BY TaskMaxAssumption DEF AnyTid
    <3> QED
      BY <3>1 DEF task_index_from_tid, Tasks
  <2>2. queued \in Stores
    BY <1>0, <2>1, QueueIds, StoreTypes
  <2>3. mode = "user" /\ callee = NULL
    BY <1>0, <1>10 DEF Send, WaitsForMessage, Calls
  <2>4. /\ RECV_BLOCKED # NULL /\ RECV_BLOCKED # task_active
        /\ NULL \notin Tasks
    BY <1>0, PointerAssumption
  <2>5. \A t \in Tasks :
          queued.next[t] \in {lists.next[t], task_active, NULL}
    BY <1>0 DEF Produce, Stores
  <2>6. \A t \in Tasks \ {receiver} :
          queued.head[RecvQ(t)] = lists.head[RecvQ(t)]
    BY <1>0, QueueIds DEF Produce, Stores, RecvQ
  <2>7. Awake(queued, receiver)
    BY <1>0, <2>3, <2>4, <2>5, <2>6 DEF Awake
  <2>8. CASE ksyscall_recv(queued, saved, receiver)
    BY <2>1, <2>2, <2>7, <2>8, RecvAwake
  <2>9. CASE /\ queued.next[receiver] # RECV_BLOCKED
             /\ scheduler_get_next(queued, result)
             /\ UNCHANGED callee
    <3>1. Awake(queued, callee)
      BY <2>7, <2>9 DEF Awake
    <3> QED
      BY <2>2, <2>3, <2>9, <3>1, DispatchAwake
  <2> QED
    BY <1>10, <2>8, <2>9 DEF Send, WaitsForMessage, WaitsForMessage
<1>11. CASE SendSelf
  BY <1>2, <1>11 DEF SendSelf
<1>12. ASSUME NEW d \in AnyTid, NEW rlen \in LENGTHS, ReplyFails(d, rlen)
       PROVE  CalleeOK' /\ NoLostWakeup'
  BY <1>1, <1>12 DEF ReplyFails, Calls, Return
<1>13. ASSUME NEW d \in AnyTid, NEW rlen \in LENGTHS, Reply(d, rlen)
       PROVE  CalleeOK' /\ NoLostWakeup'
  <2> DEFINE sender == task_index_from_tid(d)
             woken  == scheduler_schedule(lists, sender, priority[sender])
             both   == scheduler_schedule(woken, task_active,
                                          priority[task_active])
  <2>1. sender \in Tasks
    <3>1. d \in Int /\ TASK_MAX \in Nat \ {0}
      BY TaskMaxAssumption DEF AnyTid
    <3> QED
      BY <3>1 DEF task_index_from_tid, Tasks
  <2>2. priority[sender] \in Priorities
    BY <2>1 DEF TypeOK
  <2>3. woken \in Stores /\ Awake(woken, callee)
    BY <1>0, <2>1, <2>2, ScheduleType, ScheduleAwake
  <2> HIDE DEF woken
  <2>4. both \in Stores /\ Awake(both, callee)
    BY <1>0, <2>3, ScheduleType, ScheduleAwake
  <2>5. /\ scheduler_get_next(both, [result EXCEPT ![task_active] = OK,
                                                  ![sender] = OK])
        /\ mode = "user"
        /\ callee' = callee
    BY <1>13 DEF Reply, AwaitsReply, Calls, woken
  <2> HIDE DEF both
  <2> QED
    BY <2>4, <2>5, DispatchAwake
<1>14. CASE Exit
  BY <1>0, <1>14 DEF Exit, NextTid, Calls, CalleeOK, NoLostWakeup
<1>15. ASSUME NEW e \in EVENTS, Await(e) PROVE CalleeOK' /\ NoLostWakeup'
  BY <1>0, <1>15, DispatchAwake DEF Await, Calls
<1>16. ASSUME NEW e \in EVENTS, AwaitPast(e)
       PROVE  CalleeOK' /\ NoLostWakeup'
  BY <1>1, <1>16 DEF AwaitPast, Calls
<1>17. ASSUME NEW e \in EVENTS, EventCollision(e)
       PROVE  CalleeOK' /\ NoLostWakeup'
  BY <1>2, <1>17 DEF EventCollision
<1>18. CASE Shutdown
  BY <1>2, <1>18 DEF Shutdown
<1>19. CASE IrqIgnored
  BY <1>1, <1>19 DEF IrqIgnored
<1>20. ASSUME NEW e \in EVENTS, IrqWake(e) PROVE CalleeOK' /\ NoLostWakeup'
  <2> DEFINE t == int_queue[e]
             m == scheduler_schedule(lists, t, priority[t])
  <2>1. t \in Tasks /\ priority[t] \in Priorities
    BY <1>20 DEF IrqWake, TypeOK
  <2>2. m \in Stores /\ Awake(m, callee)
    BY <1>0, <2>1, ScheduleType, ScheduleAwake
  <2>3. /\ Reschedule(m, [result EXCEPT ![t] = OK])
        /\ mode = "user"
        /\ callee' = callee
    BY <1>20 DEF IrqWake
  <2> HIDE DEF m
  <2> QED
    BY <2>2, <2>3, RescheduleAwake
<1>21. ASSUME NEW e \in EVENTS, IrqMissed(e)
       PROVE  CalleeOK' /\ NoLostWakeup'
  BY <1>2, <1>21 DEF IrqMissed
<1>22. CASE BootCreate
  <2>1. BOOT[Booted + 1] \in Priorities
    BY <1>22, BootPriority DEF BootCreate
  <2>2. Awake(AfterCreate(BOOT[Booted + 1]), callee)
    BY <1>22, <2>1, CreateAwake DEF BootCreate
  <2> QED
    BY <1>22, <2>2 DEF BootCreate, Awake, NoLostWakeup, CalleeOK
<1>23. CASE scheduler_first_run
  BY <1>0, <1>23, DispatchAwake DEF scheduler_first_run
<1>24. CASE ReceiveAgain
  <2>1. callee \in Tasks
    BY <1>24 DEF ReceiveAgain, TypeOK
  <2> QED
    BY <1>0, <1>24, <2>1, RecvAwake DEF ReceiveAgain
<1>25. CASE FlushSender /\ lists.head[RecvQ(task_active)] \in Tasks
  <2> DEFINE q      == RecvQ(task_active)
             sender == lists.head[q]
             woken  == scheduler_schedule(lists, sender, priority[sender])
  <2>1. sender \in Tasks /\ priority[sender] \in Priorities
    BY <1>25 DEF FlushSender, TypeOK
  <2>2. /\ woken \in Stores
        /\ Awake(woken, callee)
        /\ woken.next[sender] = NULL
        /\ woken.head[q] = sender
    <3>1. q \in Queues /\ q # ReadyQ(priority[sender])
      BY <1>0, QueueIds DEF RecvQ, ReadyQ
    <3> QED
      BY <1>0, <2>1, <3>1, ScheduleType, ScheduleAwake, ScheduleHead
  <2>3. lists' = Consume(woken, q) /\ UNCHANGED <<mode, callee>>
    BY <1>25 DEF FlushSender
  <2> HIDE DEF woken
  <2>4. \A t \in Tasks : /\ lists'.next[t] = woken.next[t]
                         /\ lists'.head[RecvQ(t)]
                               \in {woken.head[RecvQ(t)], NULL}
    BY <2>2, <2>3, QueueIds DEF Consume, Stores
  <2> QED
    BY <2>2, <2>3, <2>4 DEF Awake, NoLostWakeup, CalleeOK
<1>26. CASE FlushSender /\ lists.head[RecvQ(task_active)] \notin Tasks
  BY <1>2, <1>26 DEF FlushSender
<1>27. CASE FreeDescriptor
  <2> DEFINE m == Produce(lists, FreeList, task_active)
  <2>1. FreeList \in Queues /\ \A t \in Tasks : FreeList # RecvQ(t)
    BY QueueIds DEF FreeList, RecvQ
  <2>2. m \in Stores /\ Awake(m, callee)
    BY <1>0, <2>1, StoreTypes, ProduceAwake
  <2> QED
    BY <1>27, <2>2, DispatchAwake DEF FreeDescriptor
<1>28. CASE UNCHANGED vars
  BY <1>28 DEF vars, CalleeOK, NoLostWakeup
<1> QED
  BY <1>3, <1>4, <1>5, <1>6, <1>7, <1>8, <1>9, <1>10, <1>11, <1>12, <1>13,
     <1>14, <1>15, <1>16, <1>17, <1>18, <1>19, <1>20, <1>21, <1>22, <1>23,
     <1>24, <1>25, <1>26, <1>27, <1>28
  DEF Next, Syscall, Irq, Kernel, Stop

(* At the start nobody waits.                                              *)
LEMMA InitAwake == Init => CalleeOK /\ NoLostWakeup
<1> SUFFICES ASSUME Init PROVE CalleeOK /\ NoLostWakeup
  OBVIOUS
<1>1. \A t \in Tasks : lists.head[RecvQ(t)] = NULL
  BY QueueIds DEF Init, FreeLinks, FreeList, RecvQ
<1> QED
  BY <1>1 DEF Init, FreeLinks, CalleeOK, NoLostWakeup

(* A task that waits for a message has none queued to it, whatever calls   *)
(* and interrupts came before.                                             *)
THEOREM WakeupsAreNotLost == Spec => []NoLostWakeup
<1>1. Init => WakeupInv
  BY InitTyped, InitAwake DEF WakeupInv
<1>2. WakeupInv /\ [Next]_vars => WakeupInv'
  BY NextTyped, WakeupStep DEF WakeupInv
<1> QED
  BY <1>1, <1>2, PTL DEF Spec, WakeupInv
-----------------------------------------------------------------------------
(***************************************************************************)
(* The inductive invariant.  Its parts are about the fields of the task    *)
(* descriptors given as arguments, because ksyscall_recv reads them while  *)
(* a call has changed some: pr, ex and rq are what priority, sp and req    *)
(* hold, iq is the array of awaited events, mk the marks, and out the      *)
(* tasks that were thrown away.                                            *)
(***************************************************************************)
Awaits(iq, t) == \E e \in EVENTS : iq[e] = t

(* The slot that a send is for.                                            *)
Receiver(r) == task_index_from_tid(r.tid)

(* Where a task that does not run belongs.                                 *)
Rest(t, out, pr, ex, iq, mk, rq) ==
  CASE ~ex[t] -> FreeList
    [] ex[t] /\ rq[t].call = "none" ->
         IF Awaits(iq, t) THEN OFF ELSE ReadyQ(pr[t])
    [] ex[t] /\ rq[t].call = "send" ->
         IF mk[t] # RPLY_BLOCKED /\ t \notin out
         THEN RecvQ(Receiver(rq[t])) ELSE OFF
    [] ex[t] /\ rq[t].call = "recv" -> OFF

Resting(out, pr, ex, iq, mk, rq) ==
  [t \in Tasks |-> Rest(t, out, pr, ex, iq, mk, rq)]

(* A task that was thrown away lives, and its message waits for ever.  The *)
(* marks of blocked tasks agree with their requests, except that x, the    *)
(* receiver the kernel works for, may have no mark.  A task awaits at most *)
(* one event and does nothing else meanwhile; a slot without a task does   *)
(* nothing.                                                                *)
StatusOK(out, ex, iq, mk, rq, x) ==
  /\ \A t \in Tasks :
       /\ t \in out =>
            ex[t] /\ rq[t].call = "send" /\ mk[t] # RPLY_BLOCKED
       /\ rq[t].call = "none" => rq[t] = NoReq
       /\ mk[t] = RECV_BLOCKED => rq[t].call = "recv"
       /\ mk[t] = RPLY_BLOCKED => rq[t].call = "send"
       /\ rq[t].call = "recv" => mk[t] = RECV_BLOCKED \/ t = x
       /\ ~ex[t] \/ Awaits(iq, t) => rq[t] = NoReq
  /\ \A e \in EVENTS : iq[e] # NULL =>
       /\ ex[iq[e]]
       /\ \A f \in EVENTS : iq[f] = iq[e] => f = e

(* The idle task is there and ready or running.                            *)
IdleOK(ex, iq, rq) == ex[IDLE] /\ rq[IDLE] = NoReq /\ ~Awaits(iq, IDLE)

(* Where the tasks are between two steps.                                  *)
Place(t) ==
  IF mode \in {"user", "destroy"} /\ t = task_active THEN OFF
  ELSE Rest(t, stranded, priority, sp, int_queue, Marking(lists), req)

Here == [t \in Tasks |-> Place(t)]

(* The task that the kernel is working for.                                *)
ActiveOK ==
  /\ mode \in {"user", "destroy"} =>
       req[task_active] = NoReq /\ ~Awaits(int_queue, task_active)
  /\ mode = "user" => /\ sp[task_active]
                      /\ \A p \in lists.state : p <= priority[task_active]
  /\ mode = "destroy" => ~sp[task_active]
  /\ mode = "recv" => sp[callee] /\ req[callee].call = "recv"

(* kernel_init takes the descriptors in their order.                       *)
BootOK ==
  /\ Booted \in 0 .. TASK_MAX
  /\ Booted <= Len(BOOT)
  /\ \A t \in Tasks : /\ sp[t] <=> t < Booted
                      /\ req[t] = NoReq
                      /\ ~Awaits(int_queue, t)
  /\ On(lists, FreeList) = [i \in 1 .. TASK_MAX - Booted |-> Booted + i - 1]

(* The whole of it.  A kernel that has been shut down does not come back.  *)
QueueInv ==
  mode # "shutdown" =>
    /\ mode # "panic"
    /\ StatusOK(stranded, sp, int_queue, Marking(lists), req,
                IF mode = "recv" THEN callee ELSE NULL)
    /\ Layout(lists, Here)
    /\ BitsOK(lists)
    /\ ActiveOK
    /\ IF mode = "boot" THEN BootOK ELSE IdleOK(sp, int_queue, req)


-----------------------------------------------------------------------------
(* The ends of the steps.                                                  *)

(* Rest depends on the fields of the task alone.                           *)
LEMMA RestIs ==
  ASSUME NEW t, NEW out, NEW pr, NEW ex, NEW iq, NEW mk, NEW rq,
         rq[t] \in Requests
  PROVE  LET p == Rest(t, out, pr, ex, iq, mk, rq)
         IN  /\ ~ex[t] => p = FreeList
             /\ ex[t] /\ rq[t].call = "none" =>
                  p = IF Awaits(iq, t) THEN OFF ELSE ReadyQ(pr[t])
             /\ ex[t] /\ rq[t].call = "send" =>
                  p = IF mk[t] # RPLY_BLOCKED /\ t \notin out
                      THEN RecvQ(Receiver(rq[t])) ELSE OFF
             /\ ex[t] /\ rq[t].call = "recv" => p = OFF
             /\ rq[t].call \in {"none", "send", "recv"}
BY DEF Rest, Requests

(* A task on a receive queue lives, and waits there with its message.      *)
LEMMA OnRecvQ ==
  ASSUME TypeOK, NEW t \in Tasks, NEW r \in Tasks, Here[t] = RecvQ(r)
  PROVE  /\ mode \in {"user", "destroy"} => t # task_active
         /\ sp[t] /\ req[t].call = "send" /\ Receiver(req[t]) = r
         /\ Marking(lists)[t] # RPLY_BLOCKED
         /\ t \notin stranded
<1>1. /\ mode \in {"user", "destroy"} => t # task_active
      /\ RecvQ(r) = Rest(t, stranded, priority, sp, int_queue,
                         Marking(lists), req)
      /\ req[t] \in Requests /\ priority[t] \in Priorities
  BY PlaceIds DEF Here, Place, TypeOK
<1>2. /\ RecvQ(r) # FreeList /\ RecvQ(r) # OFF
      /\ RecvQ(r) # ReadyQ(priority[t])
  BY <1>1, PlaceIds
<1>3. sp[t] /\ req[t].call = "send"
  BY <1>1, <1>2, RestIs DEF Requests
<1>4. /\ Marking(lists)[t] # RPLY_BLOCKED /\ t \notin stranded
      /\ RecvQ(r) = RecvQ(Receiver(req[t]))
  BY <1>1, <1>2, <1>3, RestIs
<1> QED
  BY <1>1, <1>3, <1>4, PlaceIds

(* A step after which a task runs, the marks are mk, the receive queues    *)
(* ib, and every queue is in order.                                        *)
After(mk, ib) ==
  /\ mode' = "user"
  /\ Marking(lists') = mk
  /\ Inboxes(lists') = ib
  /\ Orderly(lists, lists')

(* When every task is where it belongs, scheduler_get_next leaves them     *)
(* there but for the one it takes.                                         *)
LEMMA Resume ==
  ASSUME NEW m, NEW place, Layout(m, place), BitsOK(m),
         NEW r, scheduler_get_next(m, r), NEW mk, mk = Marking(m),
         priority' \in [Tasks -> Priorities], req' \in [Tasks -> Requests],
         place = Resting(stranded', priority', sp', int_queue', mk, req'),
         StatusOK(stranded', sp', int_queue', mk, req', NULL),
         IdleOK(sp', int_queue', req'),
         NEW o, Moves(lists, m, o), Unready(o), NEW ib, ib = Inboxes(m)
  PROVE  QueueInv' /\ After(mk, ib)
<1>0. \A t \in Tasks : place[t]
                         = Rest(t, stranded', priority', sp', int_queue',
                                        mk, req')
  BY DEF Resting
<1>1. IDLE \in Tasks /\ priority'[IDLE] \in Priorities
  BY IdleAssumption
<1>2. place[IDLE] = ReadyQ(priority'[IDLE])
  BY <1>0, <1>1, RestIs DEF IdleOK, NoReq
<1>3. /\ mode' = "user"
      /\ task_active' \in Tasks
      /\ Layout(lists', [place EXCEPT ![task_active'] = OFF])
      /\ BitsOK(lists')
      /\ Marking(lists') = mk
      /\ \E p \in Priorities :
           /\ place[task_active'] = ReadyQ(p)
           /\ \A u \in lists'.state : u <= p
  BY <1>1, <1>2, GetNextLayout
<1>4. PICK p \in Priorities : /\ place[task_active'] = ReadyQ(p)
                              /\ \A u \in lists'.state : u <= p
  BY <1>3
<1>5. /\ sp'[task_active']
      /\ req'[task_active'].call = "none"
      /\ ~Awaits(int_queue', task_active')
      /\ priority'[task_active'] = p
  <2> DEFINE a == task_active'
  <2>1. /\ a \in Tasks
        /\ req'[a] \in Requests
        /\ priority'[a] \in Priorities
        /\ ReadyQ(p) = Rest(a, stranded', priority', sp', int_queue',
                            mk, req')
    BY <1>0, <1>3, <1>4
  <2> HIDE DEF a
  <2>2. sp'[a] /\ req'[a].call = "none" /\ ~Awaits(int_queue', a)
    BY <2>1, RestIs, PlaceIds
  <2>3. ReadyQ(p) = ReadyQ(priority'[a])
    BY <2>1, <2>2, RestIs
  <2>4. priority'[a] = p
    BY <2>1, <2>3, PlaceIds
  <2> QED
    BY <2>2, <2>4 DEF a
<1>6. req'[task_active'] = NoReq
  BY <1>3, <1>5 DEF StatusOK
<1>7. ASSUME NEW t \in Tasks
      PROVE  Place(t)' = [place EXCEPT ![task_active'] = OFF][t]
  <2>1. place \in [Tasks -> Places]
    BY DEF Layout
  <2>2. Place(t)' = IF t = task_active' THEN OFF
                    ELSE Rest(t, stranded', priority', sp', int_queue',
                              Marking(lists'), req')
    BY <1>3 DEF Place
  <2> QED
    BY <1>0, <1>3, <1>7, <2>1, <2>2
<1>8. Here' = [place EXCEPT ![task_active'] = OFF]
  <2>1. place \in [Tasks -> Places]
    BY DEF Layout
  <2> QED
    BY <1>7, <2>1 DEF Here
<1>9. ActiveOK'
  BY <1>3, <1>4, <1>5, <1>6 DEF ActiveOK
<1>10. Inboxes(lists') = ib /\ Orderly(lists, lists')
  BY <1>1, <1>2, GetNextMoves
<1> QED
  BY <1>3, <1>8, <1>9, <1>10 DEF QueueInv, After

(* The slot of an id is a slot.                                            *)
LEMMA Index == \A d \in Int : task_index_from_tid(d) \in Tasks
BY TaskFacts DEF task_index_from_tid, Tasks

(* Every mark is a mark, and the task on a queue has none.                 *)
LEMMA MarkTypes ==
  ASSUME NEW m, NEW place, Layout(m, place)
  PROVE  /\ Marking(m) \in [Tasks -> Marks \cup {NULL}]
         /\ \A t \in Tasks : place[t] \in Queues => Marking(m)[t] = NULL
<1>1. \A t \in Tasks : place[t] \in Queues => m.next[t] \in Tasks \cup {NULL}
  BY NoMarkOnQueue
<1> QED
  BY <1>1, TaskFacts DEF Marking

(* What the invariant says while a task runs.                              *)
Running ==
  /\ Layout(lists, Here) /\ BitsOK(lists)
  /\ StatusOK(stranded, sp, int_queue, Marking(lists), req, NULL)
  /\ IdleOK(sp, int_queue, req)
  /\ task_active \in Tasks /\ Here[task_active] = OFF
  /\ sp[task_active] /\ req[task_active].call = "none"
  /\ ~Awaits(int_queue, task_active)
  /\ Marking(lists)[task_active] = NULL
  /\ Marking(lists) \in [Tasks -> Marks \cup {NULL}]
  /\ Here \in [Tasks -> Places]
  /\ \A t \in Tasks \ {task_active} :
       Here[t]
         = Rest(t, stranded, priority, sp, int_queue, Marking(lists), req)
  /\ priority \in [Tasks -> Priorities]
  /\ req \in [Tasks -> Requests]
  /\ sp \in [Tasks -> BOOLEAN]
  /\ int_queue \in [EVENTS -> Tasks \cup {NULL}]

(* Between calls, when a task runs, the invariant says this much of it.    *)
LEMMA UserState ==
  ASSUME TypeOK, QueueInv, mode = "user"
  PROVE  Running
<1>1. /\ Layout(lists, Here)
      /\ BitsOK(lists)
      /\ StatusOK(stranded, sp, int_queue, Marking(lists), req, NULL)
      /\ IdleOK(sp, int_queue, req)
      /\ ActiveOK
  BY DEF QueueInv
<1>2. Marking(lists) \in [Tasks -> Marks \cup {NULL}]
  BY <1>1, MarkTypes
<1>3. task_active \in Tasks /\ req[task_active].call = "none"
  BY <1>1 DEF ActiveOK, NoReq, TypeOK
<1>4. Marking(lists)[task_active] = NULL
  BY <1>1, <1>2, <1>3 DEF StatusOK, Marks
<1>5. \A t \in Tasks :
        Here[t] = IF t = task_active THEN OFF
                  ELSE Rest(t, stranded, priority, sp, int_queue,
                            Marking(lists), req)
  BY DEF Here, Place
<1> QED
  BY <1>1, <1>2, <1>3, <1>4, <1>5 DEF Running, ActiveOK, Layout, TypeOK

(* A call after which its caller is ready and nothing else has changed,    *)
(* except perhaps the caller's priority.                                   *)
LEMMA RescheduleStep ==
  ASSUME Running, UNCHANGED <<tid, stranded, sp, int_queue, req>>,
         NEW p \in Priorities,
         priority' = [priority EXCEPT ![task_active] = p],
         NEW r,
         scheduler_get_next(scheduler_schedule(lists, task_active, p), r)
  PROVE  QueueInv' /\ After(Marking(lists), Inboxes(lists))
<1> DEFINE mk == Marking(lists)
           n == scheduler_schedule(lists, task_active, p)
           place == [Here EXCEPT ![task_active] = ReadyQ(p)]
<1> USE DEF Running
<1>1. /\ Layout(n, place)
      /\ BitsOK(n)
      /\ Marking(n) = [mk EXCEPT ![task_active] = NULL]
      /\ scheduler_get_next(n, r)
  BY ScheduleLayout
<1>2. /\ Marking(n) = mk
      /\ Moves(lists, n, OFF) /\ Inboxes(n) = Inboxes(lists) /\ Unready(OFF)
  BY <1>1, MovesStart, ScheduleMoves, UnreadyIds
<1> HIDE DEF n, mk
<1>3. priority' \in [Tasks -> Priorities] /\ req' \in [Tasks -> Requests]
  OBVIOUS
<1>4. ASSUME NEW t \in Tasks
      PROVE  place[t]
               = Rest(t, stranded', priority', sp', int_queue', mk, req')
  BY <1>4 DEF Rest, mk
<1>5. place = Resting(stranded', priority', sp', int_queue', mk, req')
  BY <1>4 DEF Resting
<1>6. /\ StatusOK(stranded', sp', int_queue', mk, req', NULL)
      /\ IdleOK(sp', int_queue', req')
  BY DEF mk
<1> HIDE DEF place, Running
<1>7. QueueInv' /\ After(mk, Inboxes(lists))
  BY <1>1, <1>2, <1>3, <1>5, <1>6, Resume
<1> QED
  BY <1>7 DEF mk

(* Create, with the descriptor it takes.                                   *)
LEMMA CreateStep ==
  ASSUME Running, UNCHANGED <<tid, stranded, int_queue, req>>,
         NEW p \in Priorities, lists.head[FreeList] # NULL, task_create(p),
         NEW r,
         scheduler_get_next(
           scheduler_schedule(AfterCreate(p), task_active,
                              priority[task_active]), r)
  PROVE  QueueInv' /\ After(Marking(lists), Inboxes(lists))
<1> DEFINE a == task_active
           b == priority[a]
           t == lists.head[FreeList]
           mk == Marking(lists)
           m1 == Consume(lists, FreeList)
           m2 == scheduler_schedule(m1, t, p)
           n == scheduler_schedule(m2, a, b)
           place1 == [Here EXCEPT ![t] = OFF]
           place2 == [place1 EXCEPT ![t] = ReadyQ(p)]
           place == [place2 EXCEPT ![a] = ReadyQ(b)]
<1> USE DEF Running
<1>1. /\ t \in Tasks /\ Here[t] = FreeList
      /\ Layout(m1, place1) /\ BitsOK(m1) /\ Marking(m1) = mk
      /\ Moves(lists, m1, FreeList) /\ Inboxes(m1) = Inboxes(lists)
  <2>1. FreeList \in Queues /\ \A u \in Priorities : ReadyQ(u) # FreeList
    BY PlaceIds
  <2>2. t \in Tasks /\ Here[t] = FreeList
    BY <2>1, HeadLayout
  <2>3. /\ Layout(m1, place1) /\ Marking(m1) = mk
        /\ On(lists, FreeList) # <<>>
        /\ On(m1, FreeList) = Tail(On(lists, FreeList))
        /\ \A o \in Queues \ {FreeList} : On(m1, o) = On(lists, o)
    BY <2>1, ConsumeLayout
  <2>4. m1.state = lists.state
        /\ \A u \in Priorities : m1.head[ReadyQ(u)] = lists.head[ReadyQ(u)]
    BY <2>1, PlaceIds DEF Consume, Layout, Stores
  <2>5. BitsOK(m1)
    BY <2>4 DEF BitsOK
  <2>6. Moves(lists, lists, OFF) /\ Layout(lists, Here)
    BY MovesStart
  <2>7. \A o \in Tasks : FreeList # RecvQ(o)
    BY PlaceIds
  <2> HIDE DEF m1, Running
  <2>8. Moves(lists, m1, FreeList)
    BY <2>1, <2>3, <2>6, MovesLeave
  <2>9. Inboxes(m1) = Inboxes(lists)
    BY <2>1, <2>3, <2>7, InboxesOf
  <2> QED
    BY <2>2, <2>3, <2>5, <2>8, <2>9
<1>2. t # a /\ ~sp[t] /\ req[t].call = "none" /\ ~Awaits(int_queue, t)
  <2>1. t # a
    BY <1>1, PlaceIds
  <2>2. /\ FreeList = Rest(t, stranded, priority, sp, int_queue, mk, req)
        /\ req[t] \in Requests
        /\ priority[t] \in Priorities
    BY <1>1, <2>1
  <2>3. ~sp[t]
    BY <2>2, RestIs, PlaceIds
  <2>4. t # NULL
    BY <1>1, TaskFacts
  <2> QED
    BY <1>1, <2>1, <2>3, <2>4 DEF StatusOK, Awaits, NoReq
<1>3. /\ Layout(m2, place2) /\ BitsOK(m2)
      /\ Marking(m2) = [mk EXCEPT ![t] = NULL]
      /\ Moves(lists, m2, FreeList) /\ Inboxes(m2) = Inboxes(lists)
  <2>1. place1[t] = OFF
    BY <1>1
  <2> HIDE DEF m1, place1, t, Running
  <2> QED
    BY <1>1, <2>1, ScheduleLayout, ScheduleMoves
<1>4. a \in Tasks /\ b \in Priorities /\ place2[a] = OFF
  BY <1>1, <1>2
<1>5. /\ Layout(n, place)
      /\ BitsOK(n)
      /\ Marking(n) = [Marking(m2) EXCEPT ![a] = NULL]
      /\ Moves(lists, n, FreeList) /\ Inboxes(n) = Inboxes(lists)
      /\ scheduler_get_next(n, r)
  <2> HIDE DEF m2, place2, b, a, Running
  <2>1. /\ Layout(n, place)
        /\ BitsOK(n)
        /\ Marking(n) = [Marking(m2) EXCEPT ![a] = NULL]
        /\ Moves(lists, n, FreeList) /\ Inboxes(n) = Inboxes(lists)
    BY <1>3, <1>4, ScheduleLayout, ScheduleMoves
  <2>2. scheduler_get_next(n, r)
    BY DEF AfterCreate, m2, b, a
  <2> QED
    BY <2>1, <2>2
<1>6. mk[t] = NULL
  BY <1>1, PlaceIds, MarkTypes
<1>7. Marking(n) = mk
  BY <1>3, <1>5, <1>6
<1> HIDE DEF n, mk, m2, t, b
<1>8. /\ priority' = [priority EXCEPT ![t] = p]
      /\ sp' = [sp EXCEPT ![t] = TRUE]
      /\ b = priority[a]
  BY DEF task_create, t, b
<1>9. priority' \in [Tasks -> Priorities] /\ req' \in [Tasks -> Requests]
  BY <1>8
<1>10. ASSUME NEW u \in Tasks
       PROVE  place[u]
                = Rest(u, stranded', priority', sp', int_queue', mk, req')
  BY <1>1, <1>2, <1>8, <1>10 DEF Rest, mk
<1>11. place = Resting(stranded', priority', sp', int_queue', mk, req')
  BY <1>10 DEF Resting
<1>12. /\ StatusOK(stranded', sp', int_queue', mk, req', NULL)
       /\ IdleOK(sp', int_queue', req')
  BY <1>1, <1>8, IdleAssumption DEF mk, StatusOK, IdleOK
<1> HIDE DEF place, Running
<1>13. QueueInv' /\ After(mk, Inboxes(lists))
  BY <1>5, <1>7, <1>9, <1>11, <1>12, Resume, UnreadyIds
<1> QED
  BY <1>13 DEF mk

(* Await: the caller leaves the processor for the event's place.           *)
LEMMA AwaitStep ==
  ASSUME Running, UNCHANGED <<tid, stranded, priority, sp, req>>,
         task_active # IDLE, NEW e \in EVENTS, int_queue[e] = NULL,
         int_queue' = [int_queue EXCEPT ![e] = task_active],
         NEW r, scheduler_get_next(lists, r)
  PROVE  QueueInv' /\ After(Marking(lists), Inboxes(lists))
<1> DEFINE mk == Marking(lists)
<1> USE DEF Running
<1>1. \A t \in Tasks : Awaits(int_queue', t)
                         <=> t = task_active \/ Awaits(int_queue, t)
  BY TaskFacts DEF Awaits
<1>2. /\ Layout(lists, Here) /\ BitsOK(lists)
      /\ Moves(lists, lists, OFF) /\ Unready(OFF)
  BY MovesStart, UnreadyIds
<1>3. priority' \in [Tasks -> Priorities] /\ req' \in [Tasks -> Requests]
  OBVIOUS
<1>4. ASSUME NEW t \in Tasks
      PROVE  Here[t] = Rest(t, stranded', priority', sp', int_queue', mk, req')
  BY <1>1, <1>4 DEF Rest
<1>5. Here = Resting(stranded', priority', sp', int_queue', mk, req')
  BY <1>4 DEF Resting
<1>6. StatusOK(stranded', sp', int_queue', mk, req', NULL)
  <2>1. req[task_active] = NoReq
    BY DEF StatusOK
  <2>2. \A f \in EVENTS : int_queue[f] # task_active
    BY DEF Awaits
  <2>3. \A t \in Tasks : Awaits(int_queue', t) => req[t] = NoReq
    BY <1>1, <2>1 DEF StatusOK
  <2> QED
    BY <2>2, <2>3, TaskFacts DEF StatusOK
<1>7. IdleOK(sp', int_queue', req')
  BY <1>1, IdleAssumption DEF IdleOK
<1> HIDE DEF Running, mk
<1>8. QueueInv' /\ After(mk, Inboxes(lists))
  BY <1>2, <1>3, <1>5, <1>6, <1>7, Resume DEF mk
<1> QED
  BY <1>8 DEF mk

(* An interrupt that wakes the task that awaits its event.                 *)
LEMMA IrqWakeStep ==
  ASSUME Running, UNCHANGED <<tid, stranded, priority, sp, req>>,
         NEW e \in EVENTS, int_queue[e] # NULL,
         int_queue' = [int_queue EXCEPT ![e] = NULL], NEW r,
         scheduler_get_next(
           scheduler_schedule(
             scheduler_schedule(lists, int_queue[e], priority[int_queue[e]]),
             task_active, priority[task_active]), r)
  PROVE  QueueInv' /\ After(Marking(lists), Inboxes(lists))
<1> DEFINE a == task_active
           b == priority[a]
           t == int_queue[e]
           c == priority[t]
           mk == Marking(lists)
           m == scheduler_schedule(lists, t, c)
           n == scheduler_schedule(m, a, b)
           place1 == [Here EXCEPT ![t] = ReadyQ(c)]
           place == [place1 EXCEPT ![a] = ReadyQ(b)]
<1> USE DEF Running
<1>1. /\ t \in Tasks /\ Awaits(int_queue, t) /\ t # a
      /\ a \in Tasks /\ b \in Priorities /\ c \in Priorities
  BY DEF Awaits
<1>2. sp[t] /\ req[t] = NoReq /\ Here[t] = OFF
  <2>1. sp[t] /\ req[t] = NoReq
    BY <1>1 DEF StatusOK
  <2> QED
    BY <1>1, <2>1 DEF Rest, NoReq
<1>3. mk[t] = NULL
  BY <1>1, <1>2 DEF StatusOK, NoReq, Marks
<1>4. /\ Layout(m, place1) /\ BitsOK(m)
      /\ Marking(m) = [mk EXCEPT ![t] = NULL]
      /\ Moves(lists, m, OFF) /\ Inboxes(m) = Inboxes(lists)
  <2>1. Layout(lists, Here) /\ BitsOK(lists) /\ Moves(lists, lists, OFF)
    BY MovesStart
  <2> HIDE DEF t, c, Running
  <2> QED
    BY <1>1, <1>2, <2>1, ScheduleLayout, ScheduleMoves
<1>5. place1[a] = OFF
  BY <1>1
<1>6. /\ Layout(n, place) /\ BitsOK(n)
      /\ Marking(n) = [Marking(m) EXCEPT ![a] = NULL]
      /\ Moves(lists, n, OFF) /\ Inboxes(n) = Inboxes(lists)
      /\ scheduler_get_next(n, r)
  <2> HIDE DEF m, place1, a, b, Running
  <2>1. /\ Layout(n, place) /\ BitsOK(n)
        /\ Marking(n) = [Marking(m) EXCEPT ![a] = NULL]
        /\ Moves(lists, n, OFF) /\ Inboxes(n) = Inboxes(lists)
    BY <1>1, <1>4, <1>5, ScheduleLayout, ScheduleMoves
  <2>2. scheduler_get_next(n, r)
    BY DEF m, a, b
  <2> QED
    BY <2>1, <2>2
<1>7. Marking(n) = mk
  BY <1>3, <1>4, <1>6
<1>8. /\ ~Awaits(int_queue', t)
      /\ \A u \in Tasks \ {t} : Awaits(int_queue', u) <=> Awaits(int_queue, u)
  <2>1. \A f \in EVENTS : int_queue[f] = t => f = e
    BY DEF StatusOK
  <2>2. int_queue'[e] = NULL
          /\ \A f \in EVENTS \ {e} : int_queue'[f] = int_queue[f]
    OBVIOUS
  <2>3. t # NULL
    OBVIOUS
  <2>4. int_queue[e] = t
    OBVIOUS
  <2> HIDE DEF t
  <2> QED
    BY <2>1, <2>2, <2>3, <2>4, TaskFacts DEF Awaits
<1>9. priority' \in [Tasks -> Priorities] /\ req' \in [Tasks -> Requests]
  OBVIOUS
<1> HIDE DEF n, m, mk, t, b, c
<1>10. ASSUME NEW u \in Tasks
       PROVE  place[u]
                = Rest(u, stranded', priority', sp', int_queue', mk, req')
  <2>1. CASE u = t
    BY <1>1, <1>2, <1>8, <1>10, <2>1 DEF Rest, NoReq, c
  <2>2. CASE u = a
    BY <1>1, <1>8, <1>10, <2>2 DEF Rest, b
  <2>3. CASE u # t /\ u # a
    BY <1>1, <1>8, <1>10, <2>3 DEF Rest, mk
  <2> QED
    BY <2>1, <2>2, <2>3
<1>11. place = Resting(stranded', priority', sp', int_queue', mk, req')
  BY <1>10 DEF Resting
<1>12. StatusOK(stranded', sp', int_queue', mk, req', NULL)
  BY <1>2, <1>8 DEF StatusOK, mk
<1>13. IdleOK(sp', int_queue', req')
  BY <1>8, IdleAssumption DEF IdleOK
<1> HIDE DEF place, Running
<1>14. QueueInv' /\ After(mk, Inboxes(lists))
  BY <1>6, <1>7, <1>9, <1>11, <1>12, <1>13, Resume, UnreadyIds
<1> QED
  BY <1>14 DEF mk

(* Reply, to a task that has been received.                                *)
LEMMA ReplyStep ==
  ASSUME Running, UNCHANGED <<tid, stranded, priority, sp, int_queue>>,
         NEW t \in Tasks, sp[t], lists.next[t] = RPLY_BLOCKED,
         req' = [req EXCEPT ![t] = NoReq], NEW r,
         scheduler_get_next(
           scheduler_schedule(scheduler_schedule(lists, t, priority[t]),
                              task_active, priority[task_active]), r)
  PROVE  /\ QueueInv'
         /\ After([Marking(lists) EXCEPT ![t] = NULL], Inboxes(lists))
<1> DEFINE a == task_active
           b == priority[a]
           c == priority[t]
           mk == Marking(lists)
           m == scheduler_schedule(lists, t, c)
           n == scheduler_schedule(m, a, b)
           mk2 == [mk EXCEPT ![t] = NULL]
           place1 == [Here EXCEPT ![t] = ReadyQ(c)]
           place == [place1 EXCEPT ![a] = ReadyQ(b)]
<1> USE DEF Running
<1>1. mk[t] = RPLY_BLOCKED
  BY DEF Marking, Marks
<1>2. /\ t # a /\ a \in Tasks /\ b \in Priorities /\ c \in Priorities
      /\ req[t].call = "send" /\ ~Awaits(int_queue, t)
      /\ Here[t] = OFF
  <2>1. t # a
    BY <1>1, TaskFacts DEF Marks
  <2>2. req[t].call = "send" /\ ~Awaits(int_queue, t)
    BY <1>1 DEF StatusOK, NoReq
  <2>3. Here[t] = OFF
    BY <1>1, <2>1, <2>2 DEF Rest
  <2> QED
    BY <2>1, <2>2, <2>3
<1>3. /\ Layout(m, place1) /\ BitsOK(m)
      /\ Marking(m) = mk2
      /\ Moves(lists, m, OFF) /\ Inboxes(m) = Inboxes(lists)
  <2>1. Layout(lists, Here) /\ BitsOK(lists) /\ Moves(lists, lists, OFF)
    BY MovesStart
  <2> HIDE DEF c, Running
  <2> QED
    BY <1>2, <2>1, ScheduleLayout, ScheduleMoves
<1>4. place1[a] = OFF
  BY <1>2
<1>5. /\ Layout(n, place) /\ BitsOK(n)
      /\ Marking(n) = [Marking(m) EXCEPT ![a] = NULL]
      /\ Moves(lists, n, OFF) /\ Inboxes(n) = Inboxes(lists)
      /\ scheduler_get_next(n, r)
  <2> HIDE DEF m, place1, a, b, Running
  <2>1. /\ Layout(n, place) /\ BitsOK(n)
        /\ Marking(n) = [Marking(m) EXCEPT ![a] = NULL]
    BY <1>2, <1>3, <1>4, ScheduleLayout
  <2>2. Moves(lists, n, OFF) /\ Inboxes(n) = Inboxes(lists)
    BY <1>2, <1>3, <1>4, ScheduleMoves
  <2>3. scheduler_get_next(n, r)
    BY DEF m, a, b
  <2> QED
    BY <2>1, <2>2, <2>3
<1>6. Marking(n) = mk2
  BY <1>2, <1>3, <1>5
<1>7. /\ priority' \in [Tasks -> Priorities]
      /\ req' \in [Tasks -> Requests]
      /\ req'[t] = NoReq
      /\ \A u \in Tasks \ {t} : req'[u] = req[u] /\ mk2[u] = mk[u]
      /\ mk2[t] = NULL
  BY RequestTypes
<1> HIDE DEF n, m, mk, mk2, b, c
<1>8. ASSUME NEW u \in Tasks
      PROVE  place[u]
               = Rest(u, stranded', priority', sp', int_queue', mk2, req')
  <2>1. CASE u = t
    BY <1>2, <1>7, <1>8, <2>1 DEF Rest, NoReq, c
  <2>2. CASE u = a
    BY <1>2, <1>7, <1>8, <2>2 DEF Rest, b
  <2>3. CASE u # t /\ u # a
    <3>1. place[u] = Rest(u, stranded, priority, sp, int_queue, mk, req)
      BY <1>2, <1>8, <2>3 DEF mk
    <3>2. req'[u] = req[u] /\ mk2[u] = mk[u]
      BY <1>7, <1>8, <2>3
    <3> HIDE DEF Running, place
    <3> QED
      BY <3>1, <3>2 DEF Rest
  <2> QED
    BY <2>1, <2>2, <2>3
<1>9. place = Resting(stranded', priority', sp', int_queue', mk2, req')
  BY <1>8 DEF Resting
<1>10. StatusOK(stranded', sp', int_queue', mk2, req', NULL)
  <2>1. t \notin stranded
    BY <1>1 DEF StatusOK, mk
  <2>2. NoReq.call = "none" /\ NULL \notin Marks
    BY TaskFacts DEF NoReq
  <2> QED
    BY <1>7, <2>1, <2>2 DEF StatusOK, mk, Marks
<1>11. IdleOK(sp', int_queue', req')
  BY <1>7, IdleAssumption DEF IdleOK
<1> HIDE DEF place, Running
<1>12. QueueInv' /\ After(mk2, Inboxes(lists))
  BY <1>5, <1>6, <1>7, <1>9, <1>10, <1>11, Resume, UnreadyIds
<1> QED
  BY <1>12 DEF mk, mk2

(* The state in which ksyscall_recv works for receiver: m and rq are the   *)
(* store and the requests, of which a call may have changed some.          *)
Receiving(m, rq, receiver) ==
  /\ Layout(m, Resting(stranded, priority, sp, int_queue, Marking(m), rq))
  /\ BitsOK(m)
  /\ StatusOK(stranded, sp, int_queue, Marking(m), rq, receiver)
  /\ IdleOK(sp, int_queue, rq)
  /\ rq \in [Tasks -> Requests]
  /\ receiver \in Tasks /\ sp[receiver] /\ rq[receiver].call = "recv"
  /\ priority \in [Tasks -> Priorities]
  /\ Moves(lists, m, OFF)

(* What one round of it does: the receiver waits, takes the oldest message *)
(* or refuses it.                                                          *)
Blocks(m, rq, receiver) ==
  /\ Inboxes(m)[receiver] = <<>>
  /\ req' = rq /\ callee' = NULL
  /\ After([Marking(m) EXCEPT ![receiver] = RECV_BLOCKED], Inboxes(m))

Accepts(m, rq, receiver) ==
  LET box == Inboxes(m)[receiver]
  IN  /\ box # <<>>
      /\ Head(box) \in Tasks \ {receiver} /\ rq[Head(box)].call = "send"
      /\ req' = [rq EXCEPT ![receiver] = NoReq] /\ callee' = NULL
      /\ After([[Marking(m) EXCEPT ![Head(box)] = RPLY_BLOCKED]
                  EXCEPT ![receiver] = NULL],
               [Inboxes(m) EXCEPT ![receiver] = Tail(box)])

Rejects(m, rq, receiver) ==
  LET box == Inboxes(m)[receiver]
  IN  /\ box # <<>>
      /\ Head(box) \in Tasks \ {receiver} /\ rq[Head(box)].call = "send"
      /\ sp[Head(box)] /\ Marking(m)[Head(box)] = NULL
      /\ req' = [rq EXCEPT ![Head(box)] = NoReq]
      /\ result' = [result EXCEPT ![Head(box)] = ERR_NOT_ENUF_MEMORY]
      /\ mode' = "recv" /\ callee' = receiver
      /\ Marking(lists') = Marking(m)
      /\ Inboxes(lists') = [Inboxes(m) EXCEPT ![receiver] = Tail(box)]
      /\ Orderly(lists, lists')

(* What it finds at the head of the queue: a task that sends and is well   *)
(* linked, which it takes from the queue.                                  *)
LEMMA SenderState ==
  ASSUME NEW m, NEW rq, NEW receiver, Receiving(m, rq, receiver),
         NEW q, q = RecvQ(receiver), NEW s, s = m.head[q]
  PROVE  /\ ~Awaits(int_queue, receiver)
         /\ Resting(stranded, priority, sp, int_queue, Marking(m), rq)
              [receiver]
              = OFF
         /\ s # NULL =>
              /\ s \in Tasks /\ s # receiver /\ sp[s]
              /\ rq[s].call = "send" /\ ~Awaits(int_queue, s)
              /\ Marking(m)[s] = NULL /\ s \notin stranded
              /\ Layout(Consume(m, q),
                   [Resting(stranded, priority, sp, int_queue, Marking(m), rq)
                      EXCEPT ![s] = OFF])
              /\ BitsOK(Consume(m, q))
              /\ Marking(Consume(m, q)) = Marking(m)
              /\ Inboxes(m)[receiver] # <<>>
              /\ s = Head(Inboxes(m)[receiver])
              /\ Inboxes(Consume(m, q))
                   = [Inboxes(m) EXCEPT ![receiver]
                                          = Tail(Inboxes(m)[receiver])]
              /\ Moves(lists, Consume(m, q), q)
         /\ s = NULL => Inboxes(m)[receiver] = <<>>
<1> DEFINE place ==
   Resting(stranded, priority, sp, int_queue, Marking(m), rq)
<1>1. q \in Queues /\ \A p \in Priorities : ReadyQ(p) # q
  BY PlaceIds DEF Receiving
<1>2. ~Awaits(int_queue, receiver) /\ place[receiver] = OFF
  BY DEF Receiving, StatusOK, NoReq, Resting, Rest
<1>3. ASSUME s # NULL
      PROVE  /\ s \in Tasks /\ place[s] = q
             /\ Layout(Consume(m, q), [place EXCEPT ![s] = OFF])
             /\ BitsOK(Consume(m, q))
             /\ Marking(Consume(m, q)) = Marking(m)
             /\ Marking(m)[s] = NULL
  <2> HIDE DEF place
  <2>1. Layout(m, place) /\ BitsOK(m)
    BY DEF Receiving, place
  <2>2. s \in Tasks /\ place[s] = q
    BY <1>1, <1>3, <2>1, HeadLayout
  <2>3. /\ Layout(Consume(m, q), [place EXCEPT ![s] = OFF])
        /\ Marking(Consume(m, q)) = Marking(m)
    BY <1>1, <1>3, <2>1, ConsumeLayout
  <2>4. /\ Consume(m, q).state = m.state
        /\ \A p \in Priorities :
             Consume(m, q).head[ReadyQ(p)] = m.head[ReadyQ(p)]
    BY <1>1, <2>1, PlaceIds DEF Consume, Layout, Stores
  <2>5. BitsOK(Consume(m, q))
    BY <2>1, <2>4 DEF BitsOK
  <2>6. Marking(m)[s] = NULL
    BY <1>1, <2>1, <2>2, MarkTypes, NoMarkOnQueue
  <2> QED
    BY <2>2, <2>3, <2>5, <2>6
<1>4. ASSUME s # NULL
      PROVE  s # receiver /\ sp[s] /\ rq[s].call = "send" /\ s \notin stranded
  <2>1. /\ q = Rest(s, stranded, priority, sp, int_queue, Marking(m), rq)
        /\ rq[s] \in Requests /\ priority[s] \in Priorities
    BY <1>3, <1>4 DEF Resting, Receiving
  <2>2. /\ q # FreeList /\ q # OFF /\ q # ReadyQ(priority[s])
    BY <1>1, <2>1, PlaceIds
  <2>3. sp[s] /\ rq[s].call = "send"
    BY <2>1, <2>2, RestIs
  <2>4. s \notin stranded
    BY <2>1, <2>2, <2>3, RestIs
  <2> QED
    BY <2>3, <2>4 DEF Receiving
<1>5. s # NULL => ~Awaits(int_queue, s)
  BY <1>3, <1>4 DEF Receiving, StatusOK, NoReq
<1>6. /\ Layout(m, place) /\ Moves(lists, m, OFF) /\ receiver \in Tasks
      /\ Inboxes(m)[receiver] = On(m, q)
  BY DEF Receiving, Inboxes
<1>7. /\ s = NULL => On(m, q) = <<>>
      /\ s # NULL => On(m, q) # <<>> /\ s = Head(On(m, q))
  <2>1. Layout(m, place)
    BY <1>6
  <2> HIDE DEF place
  <2> QED
    BY <1>1, <2>1, HeadLayout
<1>8. ASSUME s # NULL
      PROVE  /\ Inboxes(m)[receiver] # <<>>
             /\ s = Head(Inboxes(m)[receiver])
             /\ Inboxes(Consume(m, q))
                  = [Inboxes(m) EXCEPT ![receiver]
                                         = Tail(Inboxes(m)[receiver])]
             /\ Moves(lists, Consume(m, q), q)
  <2> DEFINE n == Consume(m, q)
  <2> HIDE DEF place
  <2>0. Layout(m, place)
    BY <1>6
  <2>1. /\ On(m, q) # <<>>
        /\ On(n, q) = Tail(On(m, q))
        /\ \A o \in Queues \ {q} : On(n, o) = On(m, o)
    BY <1>1, <1>8, <2>0, ConsumeLayout
  <2> HIDE DEF n
  <2>2. Moves(lists, n, q)
    BY <1>1, <1>6, <2>1, MovesLeave
  <2>3. Inboxes(n) = [Inboxes(m) EXCEPT ![receiver] = On(n, q)]
    BY <1>1, <1>6, <2>1, InboxesOf
  <2> QED
    BY <1>6, <1>7, <1>8, <2>1, <2>2, <2>3 DEF n
<1>9. s = NULL => Inboxes(m)[receiver] = <<>>
  BY <1>6, <1>7
<1> QED
  BY <1>2, <1>3, <1>4, <1>5, <1>8, <1>9

(* The receiver waits.                                                     *)
LEMMA RecvBlockStep ==
  ASSUME NEW m, NEW rq, NEW receiver, Receiving(m, rq, receiver),
         UNCHANGED <<tid, stranded, priority, sp, int_queue>>,
         RecvBlock(m, rq, receiver)
  PROVE  QueueInv' /\ Blocks(m, rq, receiver)
<1> DEFINE mk == Marking(m)
           place == Resting(stranded, priority, sp, int_queue, mk, rq)
           n == Link(m, receiver, RECV_BLOCKED)
           mk2 == [mk EXCEPT ![receiver] = RECV_BLOCKED]
<1>1. Layout(m, place) /\ BitsOK(m) /\ receiver \in Tasks
  BY DEF Receiving
<1>2. place[receiver] = OFF /\ ~Awaits(int_queue, receiver)
  BY DEF Receiving, StatusOK, NoReq, Resting, Rest
<1>3. mk \in [Tasks -> Marks \cup {NULL}]
  <2> HIDE DEF place
  <2> QED
    BY <1>1, MarkTypes
<1>4. /\ Layout(n, place) /\ Marking(n) = mk2
      /\ Moves(lists, n, OFF) /\ Inboxes(n) = Inboxes(m)
  <2>1. Moves(lists, m, OFF)
    BY DEF Receiving
  <2> HIDE DEF place
  <2>2. /\ Layout(n, place) /\ Marking(n) = mk2
        /\ \A o \in Queues : On(n, o) = On(m, o)
    BY <1>1, <1>2, LinkLayout DEF Marks
  <2> HIDE DEF n
  <2> QED
    BY <2>1, <2>2, MovesSame
<1>5. BitsOK(n)
  BY <1>1 DEF Link, BitsOK
<1>6. /\ req' = rq /\ callee' = NULL /\ scheduler_get_next(n, result)
      /\ Inboxes(m)[receiver] = <<>>
  BY SenderState DEF RecvBlock
<1>7. /\ priority' \in [Tasks -> Priorities] /\ req' \in [Tasks -> Requests]
      /\ rq[receiver].call = "recv" /\ sp[receiver]
      /\ mk2[receiver] = RECV_BLOCKED
      /\ \A t \in Tasks \ {receiver} : mk2[t] = mk[t]
  BY <1>1, <1>3, <1>6 DEF Receiving
<1> HIDE DEF n, mk, mk2
<1>8. place = Resting(stranded', priority', sp', int_queue', mk2, req')
  <2>1. ASSUME NEW t \in Tasks
        PROVE  Rest(t, stranded', priority', sp', int_queue', mk2, req')
                 = Rest(t, stranded, priority, sp, int_queue, mk, rq)
    BY <1>6, <1>7, <2>1 DEF Rest
  <2> QED
    BY <2>1 DEF Resting
<1>9. StatusOK(stranded', sp', int_queue', mk2, req', NULL)
  BY <1>6, <1>7, TaskFacts DEF Receiving, StatusOK, mk
<1>10. IdleOK(sp', int_queue', req')
  BY <1>6 DEF Receiving, IdleOK
<1> HIDE DEF place
<1>11. QueueInv' /\ After(mk2, Inboxes(m))
  BY <1>4, <1>5, <1>6, <1>7, <1>8, <1>9, <1>10, Resume, UnreadyIds
<1> QED
  BY <1>6, <1>11 DEF Blocks, mk, mk2

(* The receiver takes a message: its sender waits for the reply.           *)
LEMMA RecvAcceptStep ==
  ASSUME NEW m, NEW rq, NEW receiver, Receiving(m, rq, receiver),
         UNCHANGED <<tid, stranded, priority, sp, int_queue>>,
         RecvAccept(m, rq, receiver)
  PROVE  QueueInv' /\ Accepts(m, rq, receiver)
<1> DEFINE mk == Marking(m)
           place == Resting(stranded, priority, sp, int_queue, mk, rq)
           q == RecvQ(receiver)
           s == m.head[q]
           b == priority[receiver]
           m1 == Consume(m, q)
           m2 == Link(m1, s, RPLY_BLOCKED)
           n == scheduler_schedule(m2, receiver, b)
           place1 == [place EXCEPT ![s] = OFF]
           place2 == [place1 EXCEPT ![receiver] = ReadyQ(b)]
           mk1 == [mk EXCEPT ![s] = RPLY_BLOCKED]
           mk2 == [mk1 EXCEPT ![receiver] = NULL]
           box == Inboxes(m)[receiver]
           ib == [Inboxes(m) EXCEPT ![receiver] = Tail(box)]
<1>1. /\ s # NULL /\ callee' = NULL
      /\ req' = [rq EXCEPT ![receiver] = NoReq]
      /\ scheduler_get_next(n, [result EXCEPT ![receiver] = OK])
  BY DEF RecvAccept
<1>2. /\ s \in Tasks /\ s # receiver /\ sp[s]
      /\ rq[s].call = "send" /\ ~Awaits(int_queue, s)
      /\ mk[s] = NULL /\ s \notin stranded
      /\ Layout(m1, place1) /\ BitsOK(m1) /\ Marking(m1) = mk
      /\ place[receiver] = OFF /\ ~Awaits(int_queue, receiver)
      /\ box # <<>> /\ s = Head(box)
      /\ Inboxes(m1) = ib /\ Moves(lists, m1, q)
  BY <1>1, SenderState
<1> HIDE DEF box, ib
<1>3. /\ receiver \in Tasks /\ b \in Priorities /\ sp[receiver]
      /\ rq[receiver].call = "recv"
      /\ place \in [Tasks -> Places]
      /\ mk \in [Tasks -> Marks \cup {NULL}]
      /\ rq \in [Tasks -> Requests]
      /\ priority \in [Tasks -> Priorities]
  <2>1. Layout(m, place)
    BY DEF Receiving
  <2> HIDE DEF place
  <2> QED
    BY <2>1, MarkTypes DEF Receiving, Layout
<1>4. place1[s] = OFF /\ place1[receiver] = OFF
  BY <1>2, <1>3
<1>5. /\ Layout(m2, place1) /\ Marking(m2) = mk1 /\ BitsOK(m2)
      /\ Inboxes(m2) = ib /\ Moves(lists, m2, q)
  <2> HIDE DEF m1, place1, s, mk, q
  <2>1. /\ Layout(m2, place1) /\ Marking(m2) = mk1
        /\ \A o \in Queues : On(m2, o) = On(m1, o)
    BY <1>2, <1>4, LinkLayout DEF Marks
  <2>2. BitsOK(m2)
    BY <1>2 DEF Link, BitsOK
  <2> HIDE DEF m2
  <2>3. Inboxes(m2) = ib /\ Moves(lists, m2, q)
    BY <1>2, <2>1, MovesSame
  <2> QED
    BY <2>1, <2>2, <2>3
<1>6. /\ Layout(n, place2) /\ Marking(n) = mk2 /\ BitsOK(n)
      /\ Inboxes(n) = ib /\ Moves(lists, n, q) /\ Unready(q)
  <2>1. Unready(q)
    BY UnreadyIds
  <2> HIDE DEF m2, place1, mk1, b, q
  <2>2. Layout(n, place2) /\ Marking(n) = mk2 /\ BitsOK(n)
    BY <1>3, <1>4, <1>5, ScheduleLayout
  <2>3. Inboxes(n) = ib /\ Moves(lists, n, q)
    BY <1>3, <1>4, <1>5, ScheduleMoves
  <2> QED
    BY <2>1, <2>2, <2>3
<1>7. /\ priority' \in [Tasks -> Priorities]
      /\ req' \in [Tasks -> Requests]
      /\ req'[receiver] = NoReq
      /\ mk2[receiver] = NULL
      /\ mk2[s] = RPLY_BLOCKED /\ req'[s] = rq[s]
      /\ \A t \in Tasks \ {receiver, s} : mk2[t] = mk[t] /\ req'[t] = rq[t]
      /\ place2[receiver] = ReadyQ(b) /\ place2[s] = OFF
      /\ place2 \in [Tasks -> Places]
      /\ \A t \in Tasks \ {receiver, s} :
           place2[t] = Rest(t, stranded, priority, sp, int_queue, mk, rq)
  <2>1. req' \in [Tasks -> Requests] /\ priority' \in [Tasks -> Priorities]
    BY <1>1, <1>3, RequestTypes
  <2>2. ReadyQ(b) \in Places /\ OFF \in Places
    BY <1>3, PlaceIds DEF Places
  <2>3. \A t \in Tasks :
          place[t] = Rest(t, stranded, priority, sp, int_queue, mk, rq)
    BY DEF Resting
  <2> HIDE DEF place, mk, s
  <2> QED
    BY <1>1, <1>2, <1>3, <2>1, <2>2, <2>3
<1> HIDE DEF n, mk, mk2, place, place2, s, b
<1>8. ASSUME NEW t \in Tasks
      PROVE  place2[t]
               = Rest(t, stranded', priority', sp', int_queue', mk2, req')
  <2>1. CASE t = receiver
    BY <1>2, <1>3, <1>7, <2>1 DEF Rest, NoReq, b
  <2>2. CASE t = s
    BY <1>2, <1>7, <2>2 DEF Rest
  <2>3. CASE t # receiver /\ t # s
    BY <1>7, <1>8, <2>3 DEF Rest
  <2> QED
    BY <2>1, <2>2, <2>3
<1>9. place2 = Resting(stranded', priority', sp', int_queue', mk2, req')
  BY <1>7, <1>8 DEF Resting
<1>10. StatusOK(stranded', sp', int_queue', mk2, req', NULL)
  <2>1. StatusOK(stranded, sp, int_queue, mk, rq, receiver)
    BY DEF Receiving, mk
  <2>2. req'[receiver].call = "none"
    BY <1>7 DEF NoReq
  <2> QED
    BY <1>2, <1>3, <1>7, <2>1, <2>2, TaskFacts DEF StatusOK, Marks
<1>11. IdleOK(sp', int_queue', req')
  <2>1. IdleOK(sp, int_queue, rq)
    BY DEF Receiving
  <2>2. req'[IDLE] = NoReq
    BY <1>7, <2>1, IdleAssumption DEF IdleOK
  <2> QED
    BY <2>1, <2>2 DEF IdleOK
<1>12. QueueInv' /\ After(mk2, ib)
  BY <1>1, <1>6, <1>7, <1>9, <1>10, <1>11, Resume
<1> QED
  BY <1>1, <1>2, <1>12 DEF Accepts, mk, mk1, mk2, box, ib

(* The receiver refuses a message: its sender goes on with an error.       *)
LEMMA RecvRejectStep ==
  ASSUME NEW m, NEW rq, NEW receiver, Receiving(m, rq, receiver),
         UNCHANGED <<tid, stranded, priority, sp, int_queue>>,
         RecvReject(m, rq, receiver)
  PROVE  QueueInv' /\ Rejects(m, rq, receiver)
<1> DEFINE mk == Marking(m)
           place == Resting(stranded, priority, sp, int_queue, mk, rq)
           q == RecvQ(receiver)
           s == m.head[q]
           b == priority[s]
           m1 == Consume(m, q)
           n == scheduler_schedule(m1, s, b)
           place1 == [place EXCEPT ![s] = OFF]
           place2 == [place1 EXCEPT ![s] = ReadyQ(b)]
           mk2 == [mk EXCEPT ![s] = NULL]
           box == Inboxes(m)[receiver]
           ib == [Inboxes(m) EXCEPT ![receiver] = Tail(box)]
<1>1. /\ s # NULL
      /\ result' = [result EXCEPT ![s] = ERR_NOT_ENUF_MEMORY]
      /\ req' = [rq EXCEPT ![s] = NoReq]
      /\ lists' = n
      /\ mode' = "recv"
      /\ callee' = receiver
  BY DEF RecvReject
<1>2. /\ s \in Tasks /\ s # receiver /\ sp[s]
      /\ ~Awaits(int_queue, s) /\ rq[s].call = "send"
      /\ mk[s] = NULL /\ s \notin stranded
      /\ Layout(m1, place1) /\ BitsOK(m1) /\ Marking(m1) = mk
      /\ box # <<>> /\ s = Head(box)
      /\ Inboxes(m1) = ib /\ Moves(lists, m1, q)
  BY <1>1, SenderState
<1> HIDE DEF box, ib
<1>3. /\ receiver \in Tasks /\ b \in Priorities /\ sp[receiver]
      /\ rq[receiver].call = "recv"
      /\ place \in [Tasks -> Places]
      /\ mk \in [Tasks -> Marks \cup {NULL}]
      /\ rq \in [Tasks -> Requests]
      /\ priority \in [Tasks -> Priorities]
  <2>1. Layout(m, place)
    BY DEF Receiving
  <2>2. b \in Priorities
    BY <1>2 DEF Receiving
  <2> HIDE DEF place, b
  <2> QED
    BY <2>1, <2>2, MarkTypes DEF Receiving, Layout
<1>4. place1[s] = OFF
  BY <1>2, <1>3
<1>5. /\ Layout(n, place2) /\ Marking(n) = mk2 /\ BitsOK(n)
      /\ Inboxes(n) = ib /\ Moves(lists, n, q)
  <2>1. /\ s \in Tasks /\ b \in Priorities
        /\ Layout(m1, place1) /\ BitsOK(m1) /\ Marking(m1) = mk
        /\ Inboxes(m1) = ib /\ Moves(lists, m1, q)
    BY <1>2, <1>3
  <2> HIDE DEF m1, place1, s, b, mk, q
  <2>2. Layout(n, place2) /\ Marking(n) = mk2 /\ BitsOK(n)
    BY <1>4, <2>1, ScheduleLayout
  <2>3. Inboxes(n) = ib /\ Moves(lists, n, q)
    BY <1>4, <2>1, ScheduleMoves
  <2> QED
    BY <2>2, <2>3
<1>6. mk2 = mk
  BY <1>2, <1>3
<1>7. /\ req' \in [Tasks -> Requests]
      /\ req'[s] = NoReq
      /\ \A t \in Tasks \ {s} : req'[t] = rq[t]
      /\ place2[s] = ReadyQ(b)
      /\ place2 \in [Tasks -> Places]
      /\ \A t \in Tasks \ {s} :
           place2[t] = Rest(t, stranded, priority, sp, int_queue, mk, rq)
  <2>1. req' \in [Tasks -> Requests]
    BY <1>1, <1>3, RequestTypes
  <2>2. ReadyQ(b) \in Places /\ OFF \in Places
    BY <1>3, PlaceIds DEF Places
  <2>3. \A t \in Tasks :
          place[t] = Rest(t, stranded, priority, sp, int_queue, mk, rq)
    BY DEF Resting
  <2> HIDE DEF place, mk, s
  <2> QED
    BY <1>1, <1>2, <1>3, <2>1, <2>2, <2>3
<1> HIDE DEF n, mk, mk2, place, place2, s, b
<1>8. Here' = place2
  <2>1. ASSUME NEW t \in Tasks PROVE Place(t)' = place2[t]
    <3>1. Place(t)' = Rest(t, stranded, priority, sp, int_queue, mk, req')
      BY <1>1, <1>5, <1>6 DEF Place
    <3>2. CASE t = s
      BY <1>2, <1>7, <3>1, <3>2 DEF Rest, NoReq, b
    <3>3. CASE t # s
      BY <1>7, <2>1, <3>1, <3>3 DEF Rest
    <3> QED
      BY <3>2, <3>3
  <2> QED
    BY <1>7, <2>1 DEF Here
<1>9. StatusOK(stranded', sp', int_queue', Marking(lists)', req', receiver)
  <2>1. StatusOK(stranded, sp, int_queue, mk, rq, receiver)
    BY DEF Receiving, mk
  <2>2. req'[s].call = "none"
    BY <1>7 DEF NoReq
  <2>3. Marking(lists)' = mk
    BY <1>1, <1>5, <1>6
  <2> QED
    BY <1>2, <1>3, <1>7, <2>1, <2>2, <2>3, TaskFacts DEF StatusOK, Marks
<1>10. IdleOK(sp', int_queue', req')
  <2>1. IdleOK(sp, int_queue, rq)
    BY DEF Receiving
  <2>2. req'[IDLE] = NoReq
    BY <1>7, <2>1, IdleAssumption DEF IdleOK
  <2> QED
    BY <2>1, <2>2 DEF IdleOK
<1>11. ActiveOK'
  BY <1>1, <1>2, <1>3, <1>7 DEF ActiveOK
<1>12. QueueInv'
  BY <1>1, <1>5, <1>8, <1>9, <1>10, <1>11 DEF QueueInv
<1>13. Orderly(lists, lists')
  BY <1>1, <1>5 DEF Orderly, Moves, Fifo
<1>14. Marking(lists') = Marking(m) /\ Inboxes(lists') = ib
  BY <1>1, <1>5, <1>6 DEF mk
<1> QED
  BY <1>1, <1>2, <1>12, <1>13, <1>14 DEF Rejects, mk, box, ib

(* The outcomes of a round.                                                *)
Received(m, rq, receiver) ==
  \/ Blocks(m, rq, receiver)
  \/ Accepts(m, rq, receiver)
  \/ Rejects(m, rq, receiver)

(* One round of ksyscall_recv.                                             *)
LEMMA RecvStep ==
  ASSUME NEW m, NEW rq, NEW receiver, Receiving(m, rq, receiver),
         UNCHANGED <<tid, stranded, priority, sp, int_queue>>,
         ksyscall_recv(m, rq, receiver)
  PROVE  QueueInv' /\ Received(m, rq, receiver)
<1>1. ~BadSender(m, receiver)
  <2> DEFINE q == RecvQ(receiver)
             s == m.head[q]
             place ==
               Resting(stranded, priority, sp, int_queue, Marking(m), rq)
  <2>1. s # NULL => s \in Tasks /\ Marking(m)[s] = NULL
    <3>1. Layout(m, place) /\ q \in Queues
      BY PlaceIds DEF Receiving
    <3> HIDE DEF place, q
    <3>2. s # NULL => s \in Tasks /\ place[s] = q
      BY <3>1, HeadLayout
    <3> QED
      BY <3>1, <3>2, MarkTypes, NoMarkOnQueue
  <2>2. m \in Stores
    BY DEF Receiving, Layout
  <2>3. s # NULL => m.next[s] \in Tasks \cup {NULL}
    BY <2>1, <2>2, TaskFacts DEF Marking, Marks, Stores, Pointers
  <2> QED
    BY <2>1, <2>3 DEF BadSender
<1>2. CASE RecvBlock(m, rq, receiver)
  BY <1>2, RecvBlockStep DEF Received
<1>3. CASE RecvReject(m, rq, receiver)
  BY <1>3, RecvRejectStep DEF Received
<1>4. CASE RecvAccept(m, rq, receiver)
  BY <1>4, RecvAcceptStep DEF Received
<1> QED
  BY <1>1, <1>2, <1>3, <1>4 DEF ksyscall_recv

(* Receive, by the active task.                                            *)
LEMMA ReceiveStep ==
  ASSUME Running, NEW len \in LENGTHS, task_active # IDLE,
         UNCHANGED <<tid, stranded, priority, sp, int_queue>>,
         NEW rq, rq = [req EXCEPT ![task_active] = RecvReq(len)],
         ksyscall_recv(lists, rq, task_active)
  PROVE  QueueInv' /\ Received(lists, rq, task_active)
<1> DEFINE mk == Marking(lists)
<1> USE DEF Running
<1>1. /\ rq \in [Tasks -> Requests]
      /\ rq[task_active].call = "recv"
      /\ \A t \in Tasks \ {task_active} : rq[t] = req[t]
  <2>1. RecvReq(len) \in Requests /\ RecvReq(len).call = "recv"
    <3>1. RecvReq(len) \in Requests
      BY RequestTypes
    <3> QED
      BY <3>1 DEF RecvReq
  <2> QED
    BY <2>1
<1> HIDE DEF mk
<1>2. ASSUME NEW t \in Tasks
      PROVE  Here[t] = Rest(t, stranded, priority, sp, int_queue, mk, rq)
  BY <1>1, <1>2 DEF Rest, mk
<1>3. Here = Resting(stranded, priority, sp, int_queue, mk, rq)
  BY <1>2 DEF Resting
<1>4. StatusOK(stranded, sp, int_queue, mk, rq, task_active)
  BY <1>1, TaskFacts DEF StatusOK, mk, Marks
<1>5. IdleOK(sp, int_queue, rq)
  BY <1>1, IdleAssumption DEF IdleOK
<1>6. Moves(lists, lists, OFF)
  <2>1. Layout(lists, Here)
    OBVIOUS
  <2> HIDE DEF Running
  <2> QED
    BY <2>1, MovesStart
<1>7. Receiving(lists, rq, task_active)
  BY <1>1, <1>3, <1>4, <1>5, <1>6 DEF Receiving, mk
<1> HIDE DEF Running
<1> QED
  BY <1>7, RecvStep

(* How ksyscall_send goes on when the sender has been queued.              *)
Delivers(n, rq, receiver) ==
  \/ n.next[receiver] = RECV_BLOCKED /\ ksyscall_recv(n, rq, receiver)
  \/ /\ n.next[receiver] # RECV_BLOCKED
     /\ req' = rq
     /\ scheduler_get_next(n, result)

(* The caller waits in the receiver's queue, and another task runs.        *)
Queued(rq, receiver) ==
  /\ req' = rq
  /\ After(Marking(lists), [Inboxes(lists) EXCEPT
                              ![receiver] = Append(@, task_active)])

(* What Send does, n being the store after the caller has been queued.     *)
Sent(n, rq, receiver) ==
  /\ receiver \in Tasks \ {task_active} /\ sp[receiver]
  /\ tid[receiver] = rq[task_active].tid
  /\ Receiver(rq[task_active]) = receiver
  /\ rq \in [Tasks -> Requests] /\ rq[task_active].call = "send"
  /\ \A t \in Tasks \ {task_active} : rq[t] = req[t]
  /\ Marking(n) = Marking(lists)
  /\ Inboxes(n) = [Inboxes(lists) EXCEPT ![receiver] = Append(@, task_active)]
  /\ \/ Marking(lists)[receiver] = RECV_BLOCKED /\ Received(n, rq, receiver)
     \/ Marking(lists)[receiver] # RECV_BLOCKED /\ Queued(rq, receiver)

(* Send, which appends the caller to the receiver's queue.                 *)
LEMMA SendStep ==
  ASSUME Running, NEW d \in AnyTid, NEW len \in LENGTHS, NEW rlen \in LENGTHS,
         task_active # IDLE, ValidTid(d), tid[task_active] # d,
         NEW receiver, receiver = task_index_from_tid(d),
         NEW n, n = Produce(lists, RecvQ(receiver), task_active),
         NEW rq, rq = [req EXCEPT ![task_active] = SendReq(d, len, rlen)],
         UNCHANGED <<tid, stranded, priority, sp, int_queue>>,
         Delivers(n, rq, receiver)
  PROVE  QueueInv' /\ Sent(n, rq, receiver)
<1> DEFINE a == task_active
           mk == Marking(lists)
           place == [Here EXCEPT ![a] = RecvQ(receiver)]
<1> USE DEF Running
<1>1. receiver \in Tasks /\ RecvQ(receiver) \in Queues
  BY Index, PlaceIds DEF AnyTid
<1>2. /\ Layout(n, place)
      /\ Marking(n) = [mk EXCEPT ![a] = NULL]
      /\ Moves(lists, n, OFF)
      /\ Inboxes(n) = [Inboxes(lists) EXCEPT ![receiver] = Append(@, a)]
  <2>1. Layout(lists, Here) /\ a \in Tasks /\ Here[a] = OFF
    OBVIOUS
  <2> HIDE DEF Running
  <2>2. /\ Layout(Produce(lists, RecvQ(receiver), a), place)
        /\ Marking(Produce(lists, RecvQ(receiver), a))
             = [mk EXCEPT ![a] = NULL]
        /\ On(n, RecvQ(receiver)) = Append(On(lists, RecvQ(receiver)), a)
        /\ \A o \in Queues \ {RecvQ(receiver)} : On(n, o) = On(lists, o)
    BY <1>1, <2>1, ProduceLayout
  <2>3. Moves(lists, lists, OFF)
    BY <2>1, MovesStart
  <2>4. Moves(lists, n, OFF)
    BY <1>1, <2>1, <2>2, <2>3, MovesJoin
  <2>5. Inboxes(n) = [Inboxes(lists) EXCEPT ![receiver]
                        = On(n, RecvQ(receiver))]
    BY <1>1, <2>2, InboxesOf
  <2>6. Inboxes(lists)[receiver] = On(lists, RecvQ(receiver))
    BY <1>1 DEF Inboxes
  <2> QED
    BY <2>2, <2>4, <2>5, <2>6
<1>3. BitsOK(n)
  <2>1. \A p \in Priorities : n.head[ReadyQ(p)] = lists.head[ReadyQ(p)]
    BY <1>1, PlaceIds DEF Produce, Layout, Stores
  <2>2. n.state = lists.state
    BY DEF Produce
  <2> QED
    BY <2>1, <2>2 DEF BitsOK
<1>4. Marking(n) = mk
  BY <1>2
<1>5. /\ rq \in [Tasks -> Requests]
      /\ rq[a].call = "send" /\ rq[a].tid = d
      /\ \A t \in Tasks \ {a} : rq[t] = req[t]
  <2>1. /\ SendReq(d, len, rlen) \in Requests
        /\ SendReq(d, len, rlen).call = "send"
        /\ SendReq(d, len, rlen).tid = d
    <3>1. SendReq(d, len, rlen) \in Requests
      BY RequestTypes
    <3> QED
      BY <3>1 DEF SendReq
  <2> QED
    BY <2>1
<1>6. tid[receiver] = d /\ sp[receiver]
  BY DEF ValidTid
<1> HIDE DEF mk, place
<1>7. ASSUME NEW t \in Tasks
      PROVE  place[t] = Rest(t, stranded, priority, sp, int_queue, mk, rq)
  <2>1. CASE t = a
    <3>1. a \notin stranded /\ mk[a] = NULL /\ sp[a]
      BY DEF StatusOK, mk
    <3>2. place[a] = RecvQ(Receiver(rq[a]))
      BY <1>5 DEF place, Receiver
    <3> QED
      BY <1>5, <2>1, <3>1, <3>2, TaskFacts DEF Rest, Marks
  <2>2. CASE t # a
    <3>1. place[t] = Rest(t, stranded, priority, sp, int_queue, mk, req)
      BY <1>7, <2>2 DEF place, mk
    <3> QED
      BY <1>5, <1>7, <2>2, <3>1 DEF Rest
  <2> QED
    BY <2>1, <2>2
<1>8. place = Resting(stranded, priority, sp, int_queue, mk, rq)
  BY <1>2, <1>7 DEF Resting, Layout
<1>9. \A x : StatusOK(stranded, sp, int_queue, mk, req, x)
               => StatusOK(stranded, sp, int_queue, mk, rq, x)
  BY <1>5, TaskFacts DEF StatusOK, mk, Marks
<1>10. StatusOK(stranded, sp, int_queue, mk, rq, NULL)
  BY <1>9 DEF mk
<1>11. StatusOK(stranded, sp, int_queue, mk, rq, receiver)
  BY <1>10, TaskFacts DEF StatusOK
<1>12. IdleOK(sp, int_queue, rq)
  BY <1>5, IdleAssumption DEF IdleOK
<1>13. ASSUME n.next[receiver] = RECV_BLOCKED, ksyscall_recv(n, rq, receiver)
       PROVE  /\ QueueInv' /\ Received(n, rq, receiver)
              /\ mk[receiver] = RECV_BLOCKED
  <2>1. Marking(n)[receiver] = RECV_BLOCKED
    BY <1>1, <1>13 DEF Marking, Marks
  <2>2. rq[receiver].call = "recv"
    BY <1>1, <1>4, <1>10, <2>1 DEF StatusOK
  <2>3. Receiving(n, rq, receiver)
    BY <1>1, <1>2, <1>3, <1>4, <1>5, <1>6, <1>8, <1>11, <1>12, <2>2
    DEF Receiving
  <2> HIDE DEF Running
  <2> QED
    BY <1>4, <1>13, <2>1, <2>3, RecvStep
<1>14. ASSUME n.next[receiver] # RECV_BLOCKED, req' = rq,
              scheduler_get_next(n, result)
       PROVE  /\ QueueInv' /\ Queued(rq, receiver)
              /\ mk[receiver] # RECV_BLOCKED
  <2>1. /\ priority' \in [Tasks -> Priorities]
        /\ req' \in [Tasks -> Requests]
        /\ place = Resting(stranded', priority', sp', int_queue', mk, req')
        /\ StatusOK(stranded', sp', int_queue', mk, req', NULL)
        /\ IdleOK(sp', int_queue', req')
    BY <1>5, <1>8, <1>10, <1>12, <1>14
  <2>2. mk[receiver] # RECV_BLOCKED
    <3>1. Marking(n)[receiver] # RECV_BLOCKED
      BY <1>1, <1>14, TaskFacts DEF Marking, Marks
    <3> QED
      BY <1>4, <3>1
  <2> HIDE DEF Running
  <2>3. QueueInv' /\ After(mk, [Inboxes(lists) EXCEPT
                                  ![receiver] = Append(@, a)])
    BY <1>2, <1>3, <1>4, <1>14, <2>1, Resume, UnreadyIds
  <2> QED
    BY <1>14, <2>2, <2>3 DEF Queued, mk
<1>15. receiver # a
  BY <1>6
<1>16. /\ rq \in [Tasks -> Requests] /\ rq[a].call = "send"
       /\ tid[receiver] = rq[a].tid /\ Receiver(rq[a]) = receiver
       /\ \A t \in Tasks \ {a} : rq[t] = req[t]
       /\ Marking(n) = mk
       /\ Inboxes(n) = [Inboxes(lists) EXCEPT ![receiver] = Append(@, a)]
  BY <1>2, <1>4, <1>5, <1>6 DEF Receiver
<1> HIDE DEF Running
<1> QED
  BY <1>1, <1>6, <1>13, <1>14, <1>15, <1>16 DEF Delivers, Sent, mk

(* Exit: the caller goes, and nobody else changes place.                   *)
LEMMA ExitStep ==
  ASSUME Running, Exit
  PROVE  QueueInv'
<1> DEFINE a == task_active
           mk == Marking(lists)
<1> USE DEF Running
<1>1. /\ a # IDLE
      /\ sp' = [sp EXCEPT ![a] = FALSE]
      /\ mode' = "destroy"
      /\ UNCHANGED <<stranded, priority, lists, task_active, int_queue, req>>
  BY DEF Exit, Calls
<1>2. ~sp'[a] /\ \A t \in Tasks \ {a} : sp'[t] = sp[t]
  BY <1>1
<1> HIDE DEF mk
<1>3. ASSUME NEW t \in Tasks
      PROVE  Place(t)' = Here[t]
  <2>1. CASE t = a
    BY <1>1, <2>1 DEF Place
  <2>2. CASE t # a
    <3>1. /\ Place(t)' = Rest(t, stranded, priority, sp', int_queue, mk, req)
          /\ Here[t] = Rest(t, stranded, priority, sp, int_queue, mk, req)
          /\ sp'[t] = sp[t]
      BY <1>1, <1>2, <1>3, <2>2 DEF Place, mk
    <3> QED
      BY <3>1 DEF Rest
  <2> QED
    BY <2>1, <2>2
<1>4. Here' = Here
  <2>1. Here = [t \in Tasks |-> Here[t]]
    OBVIOUS
  <2>2. Here' = [t \in Tasks |-> Place(t)']
    BY DEF Here
  <2> HIDE DEF Running
  <2> QED
    BY <1>3, <2>1, <2>2
<1>5. StatusOK(stranded', sp', int_queue', mk, req', NULL)
  <2>1. req[a] = NoReq /\ \A e \in EVENTS : int_queue[e] # a
    BY DEF StatusOK, Awaits
  <2>2. NoReq.call # "send"
    BY DEF NoReq
  <2> QED
    BY <1>1, <1>2, <2>1, <2>2 DEF StatusOK, mk
<1>6. IdleOK(sp', int_queue', req')
  BY <1>1, <1>2, IdleAssumption DEF IdleOK
<1>7. ActiveOK'
  <2>1. req[a] = NoReq
    BY DEF StatusOK
  <2> QED
    BY <1>1, <1>2, <2>1 DEF ActiveOK
<1> QED
  BY <1>1, <1>4, <1>5, <1>6, <1>7 DEF QueueInv, mk

(* What the invariant says while task_destroy runs.                        *)
Dying ==
  /\ Layout(lists, Here) /\ BitsOK(lists)
  /\ StatusOK(stranded, sp, int_queue, Marking(lists), req, NULL)
  /\ IdleOK(sp, int_queue, req)
  /\ task_active \in Tasks /\ ~sp[task_active] /\ req[task_active] = NoReq
  /\ Marking(lists) \in [Tasks -> Marks \cup {NULL}]
  /\ Here \in [Tasks -> Places]
  /\ \A t \in Tasks :
       Here[t] = IF t = task_active THEN OFF
                 ELSE Rest(t, stranded, priority, sp, int_queue,
                           Marking(lists), req)
  /\ priority \in [Tasks -> Priorities]
  /\ req \in [Tasks -> Requests]

(* Between the steps of task_destroy the invariant says this much.         *)
LEMMA DyingState ==
  ASSUME TypeOK, QueueInv, mode = "destroy"
  PROVE  Dying
<1>1. /\ Layout(lists, Here)
      /\ BitsOK(lists)
      /\ StatusOK(stranded, sp, int_queue, Marking(lists), req, NULL)
      /\ IdleOK(sp, int_queue, req)
      /\ ActiveOK
  BY DEF QueueInv
<1>2. Marking(lists) \in [Tasks -> Marks \cup {NULL}]
  BY <1>1, MarkTypes
<1>3. \A t \in Tasks :
        Here[t] = IF t = task_active THEN OFF
                  ELSE Rest(t, stranded, priority, sp, int_queue,
                            Marking(lists), req)
  BY DEF Here, Place
<1> QED
  BY <1>1, <1>2, <1>3 DEF Dying, ActiveOK, Layout, TypeOK

(* The loop of task_destroy schedules the head and then follows its next   *)
(* field, which ends the receive queue: the rest of it is thrown away.     *)
LEMMA FlushStore ==
  ASSUME NEW m \in Stores, NEW q \in Queues, NEW s \in Tasks, m.head[q] = s,
         NEW b \in Priorities, q # ReadyQ(b)
  PROVE  Consume(scheduler_schedule(m, s, b), q)
           = scheduler_schedule(Dropped(m, q), s, b)
<1> DEFINE n == scheduler_schedule(m, s, b)
           o == scheduler_schedule(Dropped(m, q), s, b)
<1>1. ReadyQ(b) \in Queues /\ NULL \notin Tasks
  BY PlaceIds, TaskFacts
<1>2. n.next[s] = NULL /\ n.head[q] = s
  BY <1>1 DEF scheduler_schedule, SetState, Produce, Stores
<1>3. n.next = o.next /\ n.tail = o.tail /\ n.state = o.state
  BY <1>1 DEF scheduler_schedule, SetState, Produce, Dropped, Stores
<1>4. [n.head EXCEPT ![q] = NULL] = o.head
  BY <1>1 DEF scheduler_schedule, SetState, Produce, Dropped, Stores
<1>5. o = [next |-> o.next, head |-> o.head, tail |-> o.tail,
           state |-> o.state]
  BY DEF scheduler_schedule, Produce
<1> HIDE DEF n, o
<1> QED
  BY <1>2, <1>3, <1>4, <1>5 DEF Consume, n, o

(* The head of the receive queue of the task that exits goes on with an    *)
(* error, the others are thrown away, and the queue is empty after that.   *)
Flushes ==
  LET box == Inboxes(lists)[task_active]
      s   == Head(box)
  IN  /\ box # <<>>
      /\ s \in Tasks \ {task_active} /\ sp[s] /\ req[s].call = "send"
      /\ Marking(lists)[s] = NULL
      /\ req' = [req EXCEPT ![s] = NoReq]
      /\ result' = [result EXCEPT ![s] = ERR_INCOMPLETE]
      /\ stranded \subseteq stranded'
      /\ mode' = "destroy"
      /\ Marking(lists') = Marking(lists)
      /\ Inboxes(lists') = [Inboxes(lists) EXCEPT ![task_active] = <<>>]
      /\ \A q \in Queues \ {RecvQ(task_active)} :
           Fifo(On(lists, q), On(lists', q))

(* One round of the loop.                                                  *)
LEMMA FlushStep ==
  ASSUME TypeOK, Dying, FlushSender
  PROVE  QueueInv' /\ Flushes
<1> DEFINE a == task_active
           q == RecvQ(a)
           s == lists.head[q]
           b == priority[s]
           mk == Marking(lists)
           m == Dropped(lists, q)
           n == scheduler_schedule(m, s, b)
           place1 == [t \in Tasks |-> IF Here[t] = q THEN OFF ELSE Here[t]]
           place2 == [place1 EXCEPT ![s] = ReadyQ(b)]
<1> USE DEF Dying
<1>1. mode = "destroy" /\ s # NULL /\ q \in Queues
  BY PlaceIds DEF FlushSender
<1>2. s \in Tasks /\ Here[s] = q /\ b \in Priorities /\ q # ReadyQ(b)
  <2>1. s \in Tasks /\ Here[s] = q
    BY <1>1, HeadLayout
  <2>2. b \in Priorities
    BY <2>1
  <2> QED
    BY <2>1, <2>2, PlaceIds
<1>3. /\ req' = [req EXCEPT ![s] = NoReq]
      /\ result' = [result EXCEPT ![s] = ERR_INCOMPLETE]
      /\ lists' = Consume(scheduler_schedule(lists, s, b), q)
      /\ mode' = "destroy"
      /\ stranded' = stranded \cup
           {t \in Tasks \ {s} : t \in ToSet(On(lists, q))}
      /\ UNCHANGED <<tid, priority, sp, task_active, int_queue>>
  BY <1>1, <1>2 DEF FlushSender, Queue, On
<1>4. lists' = n
  <2>1. lists \in Stores
    BY DEF Layout
  <2> HIDE DEF s, b, q, Dying
  <2> QED
    BY <1>1, <1>2, <1>3, <2>1, FlushStore DEF s
<1>5. /\ Layout(m, place1) /\ On(m, q) = <<>> /\ Marking(m) = mk
      /\ \A o \in Queues \ {q} : On(m, o) = On(lists, o)
  <2>1. Layout(lists, Here)
    OBVIOUS
  <2> HIDE DEF q, Dying
  <2> QED
    BY <1>1, <2>1, DropLayout
<1>6. BitsOK(m)
  <2>1. \A p \in Priorities : m.head[ReadyQ(p)] = lists.head[ReadyQ(p)]
    BY <1>1, PlaceIds DEF Dropped, Layout, Stores
  <2>2. m.state = lists.state
    BY DEF Dropped
  <2> QED
    BY <2>1, <2>2 DEF BitsOK
<1>7. place1[s] = OFF
  BY <1>2
<1>8. /\ Layout(n, place2) /\ BitsOK(n) /\ On(n, q) = <<>>
      /\ Marking(n) = [mk EXCEPT ![s] = NULL]
  <2> HIDE DEF m, place1, s, b, q, Dying
  <2> QED
    BY <1>1, <1>2, <1>5, <1>6, <1>7, ScheduleLayout, SMTT(60)
<1>9. Marking(n) = mk /\ mk[s] = NULL
  <2>1. mk[s] = NULL
    BY <1>1, <1>2, MarkTypes
  <2> QED
    BY <1>8, <2>1
<1>10. ASSUME NEW t \in Tasks
       PROVE  /\ Here[t] = q => /\ t # a /\ sp[t] /\ req[t].call = "send"
                                /\ mk[t] # RPLY_BLOCKED /\ t \notin stranded
              /\ t \in stranded' <=> t \in stranded \/ (Here[t] = q /\ t # s)
  <2>1. Here[t] = q <=> t \in ToSet(On(lists, q))
    BY <1>1, <1>10 DEF Layout
  <2>2. a \in Tasks /\ mode = "destroy"
    BY <1>1
  <2> HIDE DEF Dying, s
  <2> QED
    BY <1>2, <1>3, <1>10, <2>1, <2>2, OnRecvQ
<1>11. /\ req' \in [Tasks -> Requests] /\ req'[s] = NoReq
       /\ \A t \in Tasks \ {s} : req'[t] = req[t]
       /\ place2[s] = ReadyQ(b)
       /\ \A t \in Tasks \ {s} : place2[t] = IF Here[t] = q THEN OFF
                                             ELSE Here[t]
  BY <1>2, <1>3, RequestTypes
<1>12. sp[s] /\ s # a /\ ~Awaits(int_queue, s) /\ req[s].call = "send"
  <2>1. sp[s] /\ s # a /\ req[s].call = "send"
    BY <1>2, <1>10
  <2>2. ~Awaits(int_queue, s)
    BY <1>2, <2>1 DEF StatusOK, NoReq
  <2> QED
    BY <2>1, <2>2
<1> HIDE DEF n, m, mk, place2, place1, s, b
<1>13. ASSUME NEW t \in Tasks
       PROVE  Place(t)' = place2[t]
  <2>1. Place(t)' = IF t = a THEN OFF
                    ELSE Rest(t, stranded', priority, sp, int_queue, mk, req')
    BY <1>3, <1>4, <1>9, <1>13 DEF Place
  <2>2. CASE t = s
    BY <1>11, <1>12, <2>1, <2>2 DEF Rest, NoReq, b
  <2>3. CASE t # s /\ Here[t] = q
    <3>1. /\ sp[t] /\ req[t].call = "send" /\ t # a
          /\ t \in stranded'
      BY <1>10, <1>13, <2>3
    <3> QED
      BY <1>11, <1>13, <2>1, <2>3, <3>1 DEF Rest
  <2>4. CASE t # s /\ Here[t] # q
    <3>1. Here[t] = IF t = a THEN OFF
                    ELSE Rest(t, stranded, priority, sp, int_queue, mk, req)
      BY <1>13, <2>4 DEF mk
    <3>2. /\ place2[t] = Here[t] /\ req'[t] = req[t]
          /\ t \in stranded' <=> t \in stranded
      BY <1>10, <1>11, <1>13, <2>4
    <3> HIDE DEF Dying
    <3> QED
      BY <2>1, <3>1, <3>2 DEF Rest
  <2> QED
    BY <2>2, <2>3, <2>4
<1>14. Here' = place2
  <2>1. place2 \in [Tasks -> Places]
    BY <1>8 DEF Layout
  <2> QED
    BY <1>13, <2>1 DEF Here
<1>15. StatusOK(stranded', sp', int_queue', mk, req', NULL)
  <2>1. req'[s].call = "none" /\ mk[s] = NULL
    <3>1. mk[s] = NULL
      BY <1>1, <1>2, MarkTypes DEF mk
    <3> QED
      BY <1>11, <3>1 DEF NoReq
  <2>2. \A t \in stranded' : t \in Tasks \ {s} =>
          sp[t] /\ req[t].call = "send" /\ mk[t] # RPLY_BLOCKED
    BY <1>10 DEF StatusOK, mk
  <2>3. s \notin stranded'
    BY <1>2, <1>10
  <2> QED
    BY <1>2, <1>3, <1>11, <1>12, <2>1, <2>2, <2>3, TaskFacts
    DEF StatusOK, mk, Marks
<1>16. IdleOK(sp', int_queue', req')
  BY <1>3, <1>11, IdleAssumption DEF IdleOK
<1>17. ActiveOK'
  <2>1. /\ ~sp[a] /\ a \in Tasks /\ req'[a] = NoReq
        /\ \A e \in EVENTS : int_queue[e] # NULL => sp[int_queue[e]]
    BY <1>11, <1>12 DEF StatusOK
  <2>2. ~Awaits(int_queue, a)
    BY <2>1, TaskFacts DEF Awaits
  <2> HIDE DEF Dying
  <2> QED
    BY <1>3, <2>1, <2>2 DEF ActiveOK
<1>18. QueueInv'
  BY <1>3, <1>4, <1>8, <1>9, <1>14, <1>15, <1>16, <1>17 DEF QueueInv
<1>19. /\ Inboxes(n) = [Inboxes(lists) EXCEPT ![a] = <<>>]
       /\ \A o \in Queues \ {q} : Fifo(On(lists, o), On(n, o))
  <2> HIDE DEF q, Dying
  <2>1. Moves(m, m, OFF)
    BY <1>5, MovesStart
  <2>2. Moves(m, n, OFF) /\ Inboxes(n) = Inboxes(m)
    <3> USE DEF n
    <3> QED
      BY <1>2, <1>5, <1>6, <1>7, <2>1, ScheduleMoves
  <2>3. \A o \in Queues : IsPrefix(On(m, o), On(n, o))
    BY <2>2, PlaceIds DEF Moves
  <2>4. Inboxes(m) = [Inboxes(lists) EXCEPT ![a] = <<>>]
    BY <1>1, <1>5, InboxesOf DEF q, Dying
  <2> QED
    BY <1>5, <2>2, <2>3, <2>4 DEF Fifo
<1>20. /\ Inboxes(lists)[a] # <<>> /\ s = Head(Inboxes(lists)[a])
  <2>1. Layout(lists, Here) /\ a \in Tasks
    OBVIOUS
  <2>2. Inboxes(lists)[a] = On(lists, q)
    BY DEF Inboxes
  <2> HIDE DEF Dying, q
  <2> QED
    BY <1>1, <2>1, <2>2, HeadLayout DEF s
<1>21. stranded \subseteq stranded'
  BY <1>3
<1> HIDE DEF Dying
<1> QED
  BY <1>2, <1>3, <1>4, <1>9, <1>12, <1>18, <1>19, <1>20, <1>21 DEF Flushes, mk

(* The end of task_destroy: the descriptor goes to the free list.          *)
LEMMA FreeStep ==
  ASSUME Dying, FreeDescriptor
  PROVE  /\ QueueInv'
         /\ Inboxes(lists)[task_active] = <<>>
         /\ After(Marking(lists), Inboxes(lists))
<1> DEFINE a == task_active
           q == RecvQ(a)
           mk == Marking(lists)
           n == Produce(lists, FreeList, a)
           place == [Here EXCEPT ![a] = FreeList]
<1> USE DEF Dying
<1>1. /\ lists.head[q] = NULL
      /\ scheduler_get_next(n, result)
      /\ UNCHANGED <<tid, stranded, priority, sp, int_queue, req>>
      /\ q \in Queues /\ FreeList \in Queues
  BY PlaceIds DEF FreeDescriptor
<1>2. Layout(lists, Here) /\ a \in Tasks
  OBVIOUS
<1>3. Here[a] = OFF
  OBVIOUS
<1>4. /\ Layout(n, place) /\ Marking(n) = [mk EXCEPT ![a] = NULL]
      /\ Moves(lists, n, OFF) /\ Inboxes(n) = Inboxes(lists)
  <2> HIDE DEF Dying, a
  <2>0. FreeList \in Queues
    BY <1>1
  <2>1. /\ Layout(n, place)
        /\ On(n, FreeList) = Append(On(lists, FreeList), a)
        /\ \A o \in Queues \ {FreeList} : On(n, o) = On(lists, o)
        /\ Marking(n) = [mk EXCEPT ![a] = NULL]
    BY <1>2, <1>3, <2>0, ProduceLayout, SMTT(60)
  <2> HIDE DEF n, place
  <2>2. Moves(lists, lists, OFF)
    BY <1>2, MovesStart
  <2>3. Moves(lists, n, OFF)
    BY <1>1, <1>2, <2>1, <2>2, MovesJoin
  <2>4. Inboxes(n) = Inboxes(lists)
    BY <1>1, <2>1, InboxesOf, PlaceIds
  <2> QED
    BY <2>1, <2>3, <2>4
<1>5. BitsOK(n)
  <2>1. \A p \in Priorities : n.head[ReadyQ(p)] = lists.head[ReadyQ(p)]
    BY <1>1, PlaceIds DEF Produce, Layout, Stores
  <2>2. n.state = lists.state
    BY DEF Produce
  <2> QED
    BY <2>1, <2>2 DEF BitsOK
<1>6. Marking(n) = mk
  <2>1. mk[a] = NULL
    <3>1. req[a].call = "none"
      BY DEF NoReq
    <3> QED
      BY <3>1 DEF StatusOK, Marks
  <2> QED
    BY <1>4, <2>1
<1> HIDE DEF mk, n
<1>7. ASSUME NEW t \in Tasks
      PROVE  place[t]
               = Rest(t, stranded', priority', sp', int_queue', mk, req')
  BY <1>1, <1>7 DEF Rest, mk
<1>8. place = Resting(stranded', priority', sp', int_queue', mk, req')
  BY <1>7 DEF Resting
<1>9. /\ StatusOK(stranded', sp', int_queue', mk, req', NULL)
       /\ IdleOK(sp', int_queue', req')
       /\ priority' \in [Tasks -> Priorities]
       /\ req' \in [Tasks -> Requests]
  BY <1>1 DEF mk
<1>10. Inboxes(lists)[a] = <<>>
  <2>1. Inboxes(lists)[a] = On(lists, q)
    BY <1>2 DEF Inboxes
  <2> HIDE DEF Dying, q
  <2> QED
    BY <1>1, <1>2, <2>1, HeadLayout
<1> HIDE DEF Dying, place
<1>11. QueueInv' /\ After(mk, Inboxes(lists))
  BY <1>1, <1>4, <1>5, <1>6, <1>8, <1>9, Resume, UnreadyIds
<1> QED
  BY <1>10, <1>11 DEF mk


-----------------------------------------------------------------------------
(* kernel_init.                                                            *)

(* Before the first task is created, every descriptor is on the free list  *)
(* and in its order, as the table's initialisation links them.             *)
LEMMA InitQueueInv == Init => QueueInv
<1> SUFFICES ASSUME Init PROVE QueueInv
  OBVIOUS
<1> DEFINE s == [i \in 1 .. TASK_MAX |-> i - 1]
           free == [t \in Tasks |-> FreeList]
<1>1. TASK_MAX \in Nat \ {0} /\ Tasks = 0 .. TASK_MAX - 1
  BY TaskMaxAssumption DEF Tasks
<1>2. lists \in Stores
  BY InitTyped DEF TypeOK
<1>3. /\ s \in Seq(Tasks) /\ Len(s) = TASK_MAX
      /\ \A i \in 1 .. TASK_MAX : s[i] = i - 1
  BY <1>1
<1>4. \A t \in Tasks : t \in ToSet(s)
  <2>1. ASSUME NEW t \in Tasks PROVE \E i \in 1 .. Len(s) : s[i] = t
    <3>1. t + 1 \in 1 .. Len(s) /\ s[t + 1] = t
      BY <1>1, <1>3, <2>1
    <3> QED
      BY <3>1
  <2> HIDE DEF s
  <2> QED
    BY <1>3, <2>1, OnQueue
<1> HIDE DEF s
<1>5. /\ lists.next = FreeLinks /\ lists.state = {}
      /\ lists.head[FreeList] = 0 /\ lists.tail[FreeList] = TASK_MAX - 1
      /\ \A q \in Queues \ {FreeList} : lists.head[q] = NULL
  BY PlaceIds DEF Init
<1>6. Represents(lists, FreeList, s)
  <2>1. s # <<>> /\ s[1] = 0 /\ s[Len(s)] = TASK_MAX - 1
    BY <1>1, <1>3
  <2>2. FreeLinks[TASK_MAX - 1] = NULL
    BY <1>1 DEF FreeLinks
  <2>3. \A i \in 1 .. Len(s) - 1 : FreeLinks[s[i]] = s[i + 1]
    <3>1. ASSUME NEW i \in 1 .. Len(s) - 1
          PROVE  /\ s[i] \in Tasks /\ s[i] + 1 \in Tasks
                 /\ s[i] + 1 = s[i + 1]
      BY <1>1, <1>3, <3>1
    <3> QED
      BY <3>1 DEF FreeLinks
  <2>4. \A i, j \in 1 .. Len(s) : s[i] = s[j] => i = j
    BY <1>1, <1>3
  <2> QED
    BY <1>5, <2>1, <2>2, <2>3, <2>4 DEF Represents
<1>7. On(lists, FreeList) = s
  BY <1>2, <1>3, <1>6, PlaceIds, OnIs
<1>8. ASSUME NEW q \in Queues, q # FreeList
      PROVE  Represents(lists, q, <<>>) /\ On(lists, q) = <<>>
  <2>1. Represents(lists, q, <<>>) /\ <<>> \in Seq(Tasks)
    BY <1>5, <1>8 DEF Represents
  <2> QED
    BY <1>2, <1>8, <2>1, OnIs
<1>9. Layout(lists, free)
  <2>1. free \in [Tasks -> Places]
    BY PlaceIds DEF Places
  <2>2. ASSUME NEW q \in Queues
        PROVE  /\ On(lists, q) \in Seq(Tasks)
               /\ Represents(lists, q, On(lists, q))
               /\ \A t \in Tasks : free[t] = q <=> t \in ToSet(On(lists, q))
    <3>1. CASE q = FreeList
      BY <1>3, <1>4, <1>6, <1>7, <3>1
    <3>2. CASE q # FreeList
      <4>1. \A t : t \notin ToSet(<<>>)
        BY DEF ToSet
      <4>2. Represents(lists, q, <<>>) /\ On(lists, q) = <<>>
        BY <1>8, <2>2, <3>2
      <4> QED
        BY <4>1, <4>2, <3>2, <2>2
    <3> QED
      BY <3>1, <3>2
  <2> HIDE DEF free
  <2> QED
    BY <1>2, <2>1, <2>2 DEF Layout
<1>10. BitsOK(lists)
  BY <1>5, PlaceIds DEF BitsOK
<1>11. \A t \in Tasks : Marking(lists)[t] = NULL
  BY <1>5, TaskFacts DEF Marking, FreeLinks
<1>12. /\ \A t \in Tasks : sp[t] = FALSE /\ req[t] = NoReq
       /\ stranded = {}
       /\ \A t : ~Awaits(int_queue, t) \/ t = NULL
       /\ \A e \in EVENTS : int_queue[e] = NULL
       /\ mode = "boot"
  BY DEF Init, Awaits
<1>13. Here = free
  BY <1>12 DEF Here, Place, Rest
<1>14. StatusOK(stranded, sp, int_queue, Marking(lists), req, NULL)
  <2>1. NoReq.call = "none"
    BY DEF NoReq
  <2> QED
    BY <1>11, <1>12, <2>1, TaskFacts DEF StatusOK, Marks
<1>15. Booted = 0
  <2>1. {t \in Tasks : sp[t]} = {}
    BY <1>12
  <2> QED
    BY <2>1, FS_EmptySet DEF Booted
<1>16. BootOK
  <2>1. [i \in 1 .. TASK_MAX - Booted |-> Booted + i - 1] = s
    BY <1>1, <1>15 DEF s
  <2>2. Len(BOOT) \in Nat
    BY BootAssumption
  <2>3. \A t \in Tasks : sp[t] <=> t < Booted
    BY <1>1, <1>12, <1>15
  <2> QED
    BY <1>1, <1>7, <1>12, <1>15, <2>1, <2>2, <2>3, TaskFacts DEF BootOK
<1>17. ActiveOK
  BY <1>12 DEF ActiveOK
<1> QED
  BY <1>9, <1>10, <1>12, <1>13, <1>14, <1>16, <1>17 DEF QueueInv

(* What the invariant says during kernel_init.                             *)
LEMMA BootState ==
  ASSUME TypeOK, QueueInv, mode = "boot"
  PROVE  /\ Layout(lists, Here) /\ BitsOK(lists) /\ BootOK
         /\ StatusOK(stranded, sp, int_queue, Marking(lists), req, NULL)
         /\ Here
              = Resting(stranded, priority, sp, int_queue, Marking(lists), req)
BY DEF QueueInv, Here, Place, Resting

(* The descriptors that are taken are an initial part of the table.        *)
LEMMA BootStep ==
  ASSUME TypeOK, QueueInv, BootCreate
  PROVE  /\ QueueInv'
         /\ lists.head[FreeList] = Booted /\ ~sp[Booted]
         /\ Marking(lists') = Marking(lists)
         /\ Inboxes(lists') = Inboxes(lists)
         /\ Orderly(lists, lists')
<1> DEFINE k == Booted
           t == lists.head[FreeList]
           p == BOOT[k + 1]
           mk == Marking(lists)
           m == Consume(lists, FreeList)
           n == scheduler_schedule(m, t, p)
           place1 == [Here EXCEPT ![t] = OFF]
           place == [place1 EXCEPT ![t] = ReadyQ(p)]
<1>1. /\ mode = "boot" /\ mode' = "boot" /\ k < Len(BOOT) /\ t \in Tasks
      /\ p \in Priorities
      /\ task_create(p) /\ lists' = n
      /\ UNCHANGED <<tid, stranded, task_active, int_queue, req, result,
                      callee>>
  BY BootPriority DEF BootCreate, AfterCreate
<1>2. /\ Layout(lists, Here) /\ BitsOK(lists) /\ BootOK
      /\ StatusOK(stranded, sp, int_queue, mk, req, NULL)
      /\ Here = Resting(stranded, priority, sp, int_queue, mk, req)
  BY <1>1, BootState
<1>3. /\ t = k /\ k < TASK_MAX
      /\ Tail(On(lists, FreeList))
           = [i \in 1 .. TASK_MAX - (k + 1) |-> (k + 1) + i - 1]
      /\ k \in Nat /\ k + 1 <= Len(BOOT)
  <2> HIDE DEF k
  <2>1. /\ On(lists, FreeList) = [i \in 1 .. TASK_MAX - k |-> k + i - 1]
        /\ k \in 0 .. TASK_MAX
    BY <1>2 DEF BootOK, k
  <2>2. t = Head(On(lists, FreeList)) /\ On(lists, FreeList) # <<>>
    <3>1. t # NULL
      BY <1>1, TaskFacts
    <3> QED
      BY <1>2, <3>1, PlaceIds, HeadLayout
  <2>3. TASK_MAX \in Nat /\ Len(BOOT) \in Nat
    BY TaskFacts, BootAssumption
  <2> HIDE DEF t
  <2>4. k < TASK_MAX
    BY <2>1, <2>2, <2>3
  <2>5. k \in Nat /\ k + 1 <= Len(BOOT)
    BY <1>1, <2>1, <2>3
  <2>6. t = k
    BY <2>1, <2>2, <2>3, <2>4
  <2>7. Tail(On(lists, FreeList))
          = [i \in 1 .. TASK_MAX - (k + 1) |-> (k + 1) + i - 1]
    BY <2>1, <2>3, <2>4, <2>5
  <2> QED
    BY <2>4, <2>5, <2>6, <2>7
<1>4. /\ Layout(m, place1) /\ Marking(m) = mk
      /\ On(m, FreeList) = Tail(On(lists, FreeList))
      /\ Here[t] = FreeList
      /\ Moves(lists, m, FreeList) /\ Inboxes(m) = Inboxes(lists)
  <2>1. t # NULL
    BY <1>1, TaskFacts
  <2>2. FreeList \in Queues
    BY PlaceIds
  <2>3. /\ Layout(m, place1) /\ Marking(m) = mk
        /\ On(m, FreeList) = Tail(On(lists, FreeList))
        /\ On(lists, FreeList) # <<>>
        /\ \A o \in Queues \ {FreeList} : On(m, o) = On(lists, o)
    BY <1>2, <2>1, <2>2, ConsumeLayout
  <2>4. Here[t] = FreeList
    BY <1>2, <2>1, <2>2, HeadLayout
  <2> HIDE DEF m
  <2>5. Moves(lists, lists, OFF)
    BY <1>2, MovesStart
  <2>6. Moves(lists, m, FreeList)
    BY <1>2, <2>2, <2>3, <2>5, MovesLeave
  <2>7. Inboxes(m) = Inboxes(lists)
    BY <2>2, <2>3, InboxesOf, PlaceIds
  <2> QED
    BY <2>3, <2>4, <2>6, <2>7
<1>5. BitsOK(m)
  <2>1. m.state = lists.state
        /\ \A u \in Priorities : m.head[ReadyQ(u)] = lists.head[ReadyQ(u)]
    BY <1>2, PlaceIds DEF Consume, Layout, Stores
  <2> QED
    BY <1>2, <2>1 DEF BitsOK
<1>6. /\ Layout(n, place) /\ BitsOK(n)
      /\ Marking(n) = [mk EXCEPT ![t] = NULL]
      /\ On(n, FreeList) = On(m, FreeList)
      /\ Moves(lists, n, FreeList) /\ Inboxes(n) = Inboxes(lists)
  <2>1. place1[t] = OFF
    BY <1>1, <1>2 DEF Layout
  <2>2. FreeList \in Queues \ {ReadyQ(p)}
    BY <1>1, PlaceIds
  <2> HIDE DEF m, place1, t, k, p
  <2>3. Layout(m, place1) /\ t \in Tasks /\ p \in Priorities
    BY <1>1, <1>4
  <2>4. /\ Layout(n, place) /\ BitsOK(n)
        /\ Marking(n) = [Marking(m) EXCEPT ![t] = NULL]
        /\ \A o \in Queues \ {ReadyQ(p)} : On(n, o) = On(m, o)
    BY <1>5, <2>1, <2>3, ScheduleLayout, SMTT(60)
  <2>5. /\ Marking(n) = [mk EXCEPT ![t] = NULL]
        /\ On(n, FreeList) = On(m, FreeList)
    <3> HIDE DEF n, place
    <3> QED
      BY <1>4, <2>2, <2>4
  <2>6. Moves(lists, n, FreeList) /\ Inboxes(n) = Inboxes(lists)
    BY <1>1, <1>4, <1>5, <2>1, ScheduleMoves
  <2> QED
    BY <2>4, <2>5, <2>6
<1>7. Marking(n) = mk
  <2>1. mk[t] = NULL /\ mk \in [Tasks -> Marks \cup {NULL}]
    BY <1>1, <1>2, <1>4, PlaceIds, MarkTypes
  <2> QED
    BY <1>6, <2>1
<1> HIDE DEF n, m, mk
<1>8. /\ priority' = [priority EXCEPT ![t] = p]
      /\ sp' = [sp EXCEPT ![t] = TRUE]
      /\ priority \in [Tasks -> Priorities] /\ sp \in [Tasks -> BOOLEAN]
  BY <1>1 DEF task_create, TypeOK
<1>9. Booted' = k + 1
  <2>1. Tasks = 0 .. TASK_MAX - 1
    BY DEF Tasks
  <2>2. \A u \in Tasks : sp[u] <=> u < k
    BY <1>2 DEF BootOK
  <2>3. {u \in Tasks : sp'[u]} = 0 .. k
    <3> HIDE DEF k, t, p
    <3> QED
      BY <1>1, <1>3, <1>8, <2>1, <2>2, TaskFacts
  <2>4. Cardinality(0 .. k) = k + 1
    <3> HIDE DEF k
    <3> QED
      BY <1>3, FS_Interval
  <2> QED
    BY <2>3, <2>4 DEF Booted
<1>10. /\ \A u \in Tasks : /\ sp[u] <=> u < k
                           /\ req[u] = NoReq
                           /\ ~Awaits(int_queue, u)
       /\ NoReq.call = "none"
  BY <1>2 DEF BootOK, NoReq
<1> HIDE DEF k, t, p
<1>11. ASSUME NEW u \in Tasks
       PROVE  place[u]
                = Rest(u, stranded', priority', sp', int_queue', mk, req')
  <2>1. CASE u = t
    BY <1>1, <1>2, <1>8, <1>10, <2>1 DEF Rest, Layout
  <2>2. CASE u # t
    <3>1. place[u] = Rest(u, stranded, priority, sp, int_queue, mk, req)
      BY <1>2, <1>11, <2>2 DEF Resting, Layout
    <3>2. sp'[u] = sp[u] /\ priority'[u] = priority[u]
      BY <1>8, <1>11, <2>2
    <3> QED
      BY <1>1, <3>1, <3>2 DEF Rest
  <2> QED
    BY <2>1, <2>2
<1>12. Here' = place
  <2>1. place \in [Tasks -> Places]
    BY <1>6 DEF Layout
  <2>2. \A u \in Tasks : Place(u)' = place[u]
    <3> HIDE DEF place
    <3> QED
      BY <1>1, <1>7, <1>11 DEF Place
  <2> QED
    BY <2>1, <2>2 DEF Here
<1>13. StatusOK(stranded', sp', int_queue', mk, req', NULL)
  BY <1>1, <1>2, <1>8, <1>10, TaskFacts DEF StatusOK, Awaits
<1>14. BootOK'
  <2>1. \A u \in Tasks : sp'[u] <=> u < k + 1
    <3>1. Tasks = 0 .. TASK_MAX - 1 /\ TASK_MAX \in Nat
      BY TaskFacts DEF Tasks
    <3> QED
      BY <1>1, <1>3, <1>8, <1>10, <3>1
  <2>2. k + 1 \in 0 .. TASK_MAX
    BY <1>3, TaskFacts
  <2>3. On(lists', FreeList)
          = [i \in 1 .. TASK_MAX - (k + 1) |-> (k + 1) + i - 1]
    BY <1>1, <1>3, <1>4, <1>6
  <2> QED
    BY <1>1, <1>3, <1>9, <1>10, <2>1, <2>2, <2>3 DEF BootOK
<1>15. ActiveOK'
  BY <1>1 DEF ActiveOK
<1>16. QueueInv'
  BY <1>1, <1>6, <1>7, <1>12, <1>13, <1>14, <1>15 DEF QueueInv
<1>17. Orderly(lists, lists')
  BY <1>1, <1>6 DEF Moves, Orderly, Fifo
<1>18. lists.head[FreeList] = Booted /\ ~sp[Booted]
  BY <1>1, <1>3, <1>10 DEF t, k
<1> QED
  BY <1>1, <1>6, <1>7, <1>16, <1>17, <1>18 DEF mk

(* scheduler_first_run: by then the idle task has been created.            *)
LEMMA FirstRunStep ==
  ASSUME TypeOK, QueueInv, scheduler_first_run
  PROVE  QueueInv' /\ After(Marking(lists), Inboxes(lists))
<1> DEFINE mk == Marking(lists)
<1>1. /\ mode = "boot"
      /\ Booted = Len(BOOT) \/ lists.head[FreeList] \notin Tasks
      /\ scheduler_get_next(lists, result)
      /\ UNCHANGED <<tid, stranded, priority, sp, int_queue, req, callee>>
  BY DEF scheduler_first_run
<1>2. /\ Layout(lists, Here) /\ BitsOK(lists) /\ BootOK
      /\ StatusOK(stranded, sp, int_queue, mk, req, NULL)
      /\ Here = Resting(stranded, priority, sp, int_queue, mk, req)
  BY <1>1, BootState
<1>3. IDLE < Booted
  <2>1. CASE Booted = Len(BOOT)
    BY <2>1, IdleAssumption
  <2>2. CASE lists.head[FreeList] \notin Tasks
    <3> DEFINE k == Booted
    <3>1. /\ On(lists, FreeList) = [i \in 1 .. TASK_MAX - k |-> k + i - 1]
          /\ k \in 0 .. TASK_MAX
      BY <1>2 DEF BootOK
    <3>2. On(lists, FreeList) = <<>>
      BY <1>2, <2>2, PlaceIds, HeadLayout
    <3> HIDE DEF k
    <3>3. k = TASK_MAX
      <4>1. Len([i \in 1 .. TASK_MAX - k |-> k + i - 1]) = TASK_MAX - k
        BY <3>1, TaskFacts
      <4> QED
        BY <3>1, <3>2, <4>1, TaskFacts
    <3> QED
      BY <3>3, IdleAssumption, TaskFacts DEF Tasks, k
  <2> QED
    BY <1>1, <2>1, <2>2
<1>4. IdleOK(sp, int_queue, req)
  BY <1>2, <1>3, IdleAssumption DEF BootOK, IdleOK
<1>5. /\ priority' \in [Tasks -> Priorities] /\ req' \in [Tasks -> Requests]
      /\ Here = Resting(stranded', priority', sp', int_queue', mk, req')
      /\ StatusOK(stranded', sp', int_queue', mk, req', NULL)
      /\ IdleOK(sp', int_queue', req')
  BY <1>1, <1>2, <1>4 DEF TypeOK
<1>6. Moves(lists, lists, OFF)
  BY <1>2, MovesStart
<1> QED
  BY <1>1, <1>2, <1>5, <1>6, Resume, UnreadyIds

-----------------------------------------------------------------------------
(* What a step can do to the ids, the requests, the marks and the queues:  *)
(* every action does one of these.                                         *)
Outside == mode \notin {"recv", "destroy"}

QueuesKept ==
  /\ Marking(lists') = Marking(lists)
  /\ Inboxes(lists') = Inboxes(lists)
  /\ Orderly(lists, lists')

Still ==
  /\ mode # "shutdown" /\ Outside /\ Outside'
  /\ UNCHANGED <<tid, stranded, sp, req>>
  /\ QueuesKept

Starts(t) ==
  /\ mode # "shutdown" /\ Outside /\ Outside'
  /\ ~sp[t] /\ sp' = [sp EXCEPT ![t] = TRUE]
  /\ UNCHANGED <<tid, stranded, req>>
  /\ QueuesKept

Receives(r, rq) ==
  /\ (mode = "user" /\ r = task_active) \/ (mode = "recv" /\ r = callee)
  /\ rq \in [Tasks -> Requests] /\ rq[r].call = "recv"
  /\ req[r].call # "send" /\ \A t \in Tasks \ {r} : rq[t] = req[t]
  /\ UNCHANGED <<tid, stranded, sp>>
  /\ Received(lists, rq, r)

Sends(n, rq, r) ==
  /\ mode = "user"
  /\ UNCHANGED <<tid, stranded, sp>>
  /\ Sent(n, rq, r)

Replies(t) ==
  /\ mode = "user"
  /\ sp[t] /\ Marking(lists)[t] = RPLY_BLOCKED
  /\ req' = [req EXCEPT ![t] = NoReq] /\ result'[t] = OK
  /\ UNCHANGED <<tid, stranded, sp>>
  /\ After([Marking(lists) EXCEPT ![t] = NULL], Inboxes(lists))

Exits ==
  /\ mode = "user" /\ mode' = "destroy"
  /\ tid' = [tid EXCEPT ![task_active] = NextTid(task_active)]
  /\ sp' = [sp EXCEPT ![task_active] = FALSE]
  /\ UNCHANGED <<stranded, task_active, req, lists>>

Releases ==
  /\ mode = "destroy"
  /\ UNCHANGED <<task_active, tid, sp>>
  /\ Flushes

Frees ==
  /\ mode = "destroy"
  /\ UNCHANGED <<tid, stranded, sp, req>>
  /\ Inboxes(lists)[task_active] = <<>>
  /\ After(Marking(lists), Inboxes(lists))

Effects ==
  \/ Still
  \/ \E t \in Tasks : Starts(t) \/ Replies(t)
  \/ \E r \in Tasks : \E rq : Receives(r, rq) \/ \E n : Sends(n, rq, r)
  \/ Exits
  \/ Releases
  \/ Frees

(* A queue that has not changed is in order.                               *)
LEMMA SameOrder ==
  ASSUME Layout(lists, Here), UNCHANGED lists
  PROVE  Orderly(lists, lists')
<1>1. Moves(lists, lists, OFF)
  BY MovesStart
<1> QED
  BY <1>1, PlaceIds DEF Moves, Orderly, Fifo

(* Every step keeps the invariant and has one of the effects: one case for *)
(* each action.                                                            *)
LEMMA QueueStep ==
  ASSUME TypeOK, QueueInv, [Next]_vars
  PROVE  QueueInv' /\ (UNCHANGED vars \/ Effects)
<1>1. /\ task_active \in Tasks /\ priority[task_active] \in Priorities
      /\ priority
           = [priority EXCEPT ![task_active] = priority[task_active]]
  BY DEF TypeOK
<1>2. Calls => Running /\ task_active # IDLE /\ mode = "user"
  BY UserState DEF Calls
<1>3. mode = "user" => Running
  BY UserState
<1>4. ASSUME mode = "user", UNCHANGED <<tid, stranded, sp, req>>,
             After(Marking(lists), Inboxes(lists))
      PROVE  Still
  BY <1>4 DEF Still, Outside, QueuesKept, After
<1>5. ASSUME mode = "user", NEW r, Reschedule(lists, r),
             UNCHANGED <<tid, stranded, priority, sp, int_queue, req>>
      PROVE  QueueInv' /\ Still
  <2>1. QueueInv' /\ After(Marking(lists), Inboxes(lists))
    BY <1>1, <1>3, <1>5, RescheduleStep DEF Reschedule
  <2> QED
    BY <1>4, <1>5, <2>1
<1>6. ASSUME mode = "user", NEW c, Return(lists, c),
             UNCHANGED <<tid, stranded, priority, sp, int_queue, req>>
      PROVE  QueueInv' /\ Still
  BY <1>5, <1>6 DEF Return
<1>7. ASSUME mode = "user", Halt("shutdown")
      PROVE  QueueInv' /\ Still
  <2>1. QueueInv'
    BY <1>7 DEF Halt, QueueInv
  <2>2. Orderly(lists, lists')
    BY <1>3, <1>7, SameOrder DEF Halt, Running
  <2>3. Still
    BY <1>7, <2>2 DEF Halt, Still, Outside, QueuesKept
  <2> QED
    BY <2>1, <2>3
<1>8. ASSUME Pass
      PROVE  QueueInv' /\ Still
  BY <1>2, <1>6, <1>8 DEF Pass
<1>9. ASSUME CreateFails
      PROVE  QueueInv' /\ Still
  BY <1>2, <1>6, <1>9 DEF CreateFails
<1>10. ASSUME NEW p \in ASKED, Create(p)
       PROVE  QueueInv' /\ \E t \in Tasks : Starts(t)
  <2> DEFINE t == lists.head[FreeList]
  <2>1. Running /\ mode = "user" /\ t # NULL /\ p \in Priorities
    BY <1>2, <1>10, AskedAssumption DEF Create
  <2>2. t \in Tasks /\ Here[t] = FreeList
    BY <2>1, PlaceIds, HeadLayout DEF Running
  <2>3. ~sp[t]
    <3>1. /\ FreeList = Rest(t, stranded, priority, sp, int_queue,
                             Marking(lists), req)
          /\ req[t] \in Requests /\ priority[t] \in Priorities
      BY <2>1, <2>2, PlaceIds DEF Running
    <3> HIDE DEF t
    <3> QED
      BY <3>1, RestIs, PlaceIds
  <2>4. /\ task_create(p) /\ Return(AfterCreate(p), OK)
        /\ UNCHANGED <<tid, stranded, int_queue, req, callee>>
    BY <1>10, <2>2 DEF Create
  <2>5. QueueInv' /\ After(Marking(lists), Inboxes(lists))
    BY <2>1, <2>4, CreateStep DEF Return, Reschedule
  <2>6. Starts(t)
    BY <2>1, <2>3, <2>4, <2>5
    DEF Starts, Outside, QueuesKept, After, task_create
  <2> QED
    BY <2>2, <2>5, <2>6
<1>11. ASSUME NEW p \in ASKED, ChangePriority(p)
       PROVE  QueueInv' /\ Still
  <2>1. Running /\ mode = "user" /\ p \in Priorities
    BY <1>2, <1>11, AskedAssumption DEF ChangePriority
  <2>2. QueueInv' /\ After(Marking(lists), Inboxes(lists))
    BY <1>11, <2>1, RescheduleStep DEF ChangePriority
  <2> QED
    BY <1>4, <1>11, <2>1, <2>2 DEF ChangePriority
<1>12. ASSUME NEW len \in LENGTHS, Receive(len)
       PROVE  QueueInv' /\ \E r \in Tasks : \E rq : Receives(r, rq)
  <2> DEFINE rq == [req EXCEPT ![task_active] = RecvReq(len)]
  <2>1. /\ Running /\ task_active # IDLE /\ mode = "user"
        /\ UNCHANGED <<tid, stranded, priority, sp, int_queue>>
        /\ ksyscall_recv(lists, rq, task_active)
    BY <1>2, <1>12 DEF Receive
  <2>2. /\ rq \in [Tasks -> Requests] /\ rq[task_active].call = "recv"
        /\ req[task_active].call # "send"
        /\ \A t \in Tasks \ {task_active} : rq[t] = req[t]
    <3>1. RecvReq(len) \in Requests /\ RecvReq(len).call = "recv"
      <4>1. RecvReq(len) \in Requests
        BY <1>12, RequestTypes
      <4> QED
        BY <4>1 DEF RecvReq
    <3> QED
      BY <2>1, <3>1 DEF Running
  <2>3. rq = [req EXCEPT ![task_active] = RecvReq(len)]
    OBVIOUS
  <2> HIDE DEF rq
  <2>4. QueueInv' /\ Received(lists, rq, task_active)
    BY <1>12, <2>1, <2>3, ReceiveStep
  <2>5. Receives(task_active, rq)
    BY <2>1, <2>2, <2>4 DEF Receives
  <2> QED
    BY <1>1, <2>4, <2>5
<1>13. ASSUME NEW d \in AnyTid, SendInvalid(d)
       PROVE  QueueInv' /\ Still
  BY <1>2, <1>6, <1>13 DEF SendInvalid
<1>14. ASSUME NEW d \in AnyTid, NEW len \in LENGTHS, NEW rlen \in LENGTHS,
              Send(d, len, rlen)
       PROVE  QueueInv' /\ \E r \in Tasks : \E rq, n : Sends(n, rq, r)
  <2> DEFINE receiver == task_index_from_tid(d)
             n == Produce(lists, RecvQ(receiver), task_active)
             rq == [req EXCEPT ![task_active] = SendReq(d, len, rlen)]
  <2>1. /\ Running /\ task_active # IDLE /\ mode = "user" /\ ValidTid(d)
        /\ tid[task_active] # d /\ d \in Int
        /\ UNCHANGED <<tid, stranded, priority, sp, int_queue>>
        /\ Delivers(n, rq, receiver)
    BY <1>2, <1>14 DEF Send, WaitsForMessage, AnyTid, Delivers
  <2> HIDE DEF n, rq, receiver
  <2>2. /\ receiver = task_index_from_tid(d)
        /\ n = Produce(lists, RecvQ(receiver), task_active)
        /\ rq = [req EXCEPT ![task_active] = SendReq(d, len, rlen)]
    BY DEF n, rq, receiver
  <2>3. QueueInv' /\ Sent(n, rq, receiver)
    BY <1>14, <2>1, <2>2, SendStep
  <2>4. receiver \in Tasks
    BY <2>3 DEF Sent
  <2>5. Sends(n, rq, receiver)
    BY <2>1, <2>3 DEF Sends
  <2> QED
    BY <2>3, <2>4, <2>5
<1>15. ASSUME SendSelf
       PROVE  QueueInv' /\ Still
  BY <1>2, <1>7, <1>15 DEF SendSelf
<1>16. ASSUME NEW d \in AnyTid, NEW rlen \in LENGTHS, Reply(d, rlen)
       PROVE  QueueInv' /\ \E t \in Tasks : Replies(t)
  <2> DEFINE t == task_index_from_tid(d)
             r == [result EXCEPT ![task_active] = OK, ![t] = OK]
             n == scheduler_schedule(
                    scheduler_schedule(lists, t, priority[t]),
                    task_active, priority[task_active])
  <2>1. /\ Running /\ mode = "user" /\ sp[t]
        /\ lists.next[t] = RPLY_BLOCKED
        /\ req' = [req EXCEPT ![t] = NoReq]
        /\ UNCHANGED <<tid, stranded, priority, sp, int_queue>>
        /\ scheduler_get_next(n, r)
    BY <1>2, <1>16 DEF Reply, ValidTid, AwaitsReply
  <2>2. t \in Tasks
    BY Index DEF AnyTid
  <2>3. r \in [Tasks -> Int] /\ r[t] = OK
    BY <2>2 DEF TypeOK, OK
  <2> HIDE DEF t, r
  <2>4. QueueInv' /\ After([Marking(lists) EXCEPT ![t] = NULL], Inboxes(lists))
    BY <2>1, <2>2, ReplyStep
  <2>5. result'[t] = OK
    <3> HIDE DEF n
    <3> QED
      BY <2>1, <2>2, <2>3 DEF scheduler_get_next
  <2>6. Marking(lists)[t] = RPLY_BLOCKED
    BY <2>1, <2>2 DEF Marking, Marks
  <2>7. Replies(t)
    BY <2>1, <2>4, <2>5, <2>6 DEF Replies
  <2> QED
    BY <2>2, <2>4, <2>7
<1>17. ASSUME NEW d \in AnyTid, NEW rlen \in LENGTHS, ReplyFails(d, rlen)
       PROVE  QueueInv' /\ Still
  BY <1>2, <1>6, <1>17 DEF ReplyFails
<1>18. ASSUME Exit
       PROVE  QueueInv' /\ Exits
  <2>1. QueueInv'
    BY <1>2, <1>18, ExitStep DEF Exit
  <2>2. Exits
    BY <1>18 DEF Exit, Exits, Calls
  <2> QED
    BY <2>1, <2>2
<1>19. ASSUME NEW e \in EVENTS, Await(e)
       PROVE  QueueInv' /\ Still
  <2>1. Running /\ mode = "user"
    BY <1>2, <1>19 DEF Await
  <2>2. QueueInv' /\ After(Marking(lists), Inboxes(lists))
    BY <1>2, <1>19, AwaitStep DEF Await
  <2> QED
    BY <1>4, <1>19, <2>1, <2>2 DEF Await
<1>20. ASSUME NEW e \in EVENTS, AwaitPast(e)
       PROVE  QueueInv' /\ Still
  BY <1>2, <1>5, <1>20 DEF AwaitPast
<1>21. ASSUME NEW e \in EVENTS, EventCollision(e)
       PROVE  QueueInv' /\ Still
  BY <1>2, <1>7, <1>21 DEF EventCollision
<1>22. ASSUME Shutdown
       PROVE  QueueInv' /\ Still
  BY <1>2, <1>7, <1>22 DEF Shutdown
<1>23. ASSUME IrqIgnored
       PROVE  QueueInv' /\ Still
  BY <1>5, <1>23 DEF IrqIgnored
<1>24. ASSUME NEW e \in EVENTS, IrqWake(e)
       PROVE  QueueInv' /\ Still
  <2>1. Running /\ mode = "user"
    BY <1>3, <1>24 DEF IrqWake
  <2>2. QueueInv' /\ After(Marking(lists), Inboxes(lists))
    BY <1>24, <2>1, IrqWakeStep DEF IrqWake, Reschedule
  <2> QED
    BY <1>4, <1>24, <2>1, <2>2 DEF IrqWake
<1>25. ASSUME NEW e \in EVENTS, IrqMissed(e)
       PROVE  QueueInv' /\ Still
  BY <1>7, <1>25 DEF IrqMissed
<1>26. ASSUME BootCreate
       PROVE  QueueInv' /\ \E t \in Tasks : Starts(t)
  <2> DEFINE t == lists.head[FreeList]
  <2>1. QueueInv' /\ QueuesKept /\ ~sp[t]
    BY <1>26, BootStep DEF QueuesKept
  <2>2. t \in Tasks /\ Starts(t)
    BY <1>26, <2>1 DEF BootCreate, Starts, Outside, task_create
  <2> QED
    BY <2>1, <2>2
<1>27. ASSUME scheduler_first_run
       PROVE  QueueInv' /\ Still
  <2>1. QueueInv' /\ After(Marking(lists), Inboxes(lists))
    BY <1>27, FirstRunStep
  <2>2. mode = "boot" /\ UNCHANGED <<tid, stranded, sp, req>>
    BY <1>27 DEF scheduler_first_run
  <2> QED
    BY <2>1, <2>2 DEF Still, Outside, QueuesKept, After
<1>28. ASSUME ReceiveAgain
       PROVE  QueueInv' /\ \E r \in Tasks : \E rq : Receives(r, rq)
  <2>1. mode = "recv" /\ callee \in Tasks /\ req \in [Tasks -> Requests]
    BY <1>28 DEF ReceiveAgain, TypeOK
  <2>2. Here = Resting(stranded, priority, sp, int_queue, Marking(lists), req)
    BY <2>1 DEF Here, Place, Resting
  <2>3. Moves(lists, lists, OFF)
    BY <2>1, MovesStart DEF QueueInv
  <2>4. Receiving(lists, req, callee)
    BY <2>1, <2>2, <2>3 DEF Receiving, QueueInv, ActiveOK, TypeOK
  <2>5. /\ ksyscall_recv(lists, req, callee)
        /\ UNCHANGED <<tid, stranded, priority, sp, int_queue>>
    BY <1>28 DEF ReceiveAgain
  <2>6. QueueInv' /\ Received(lists, req, callee)
    BY <2>4, <2>5, RecvStep
  <2>7. Receives(callee, req)
    BY <2>1, <2>4, <2>5, <2>6 DEF Receives, Receiving
  <2> QED
    BY <2>1, <2>6, <2>7
<1>29. ASSUME FlushSender
       PROVE  QueueInv' /\ Releases
  <2>1. Dying /\ mode = "destroy"
    BY <1>29, DyingState DEF FlushSender
  <2>2. QueueInv' /\ Flushes
    BY <1>29, <2>1, FlushStep
  <2>3. UNCHANGED <<task_active, tid, sp>>
    BY <1>29 DEF FlushSender, Halt
  <2> QED
    BY <2>1, <2>2, <2>3 DEF Releases
<1>30. ASSUME FreeDescriptor
       PROVE  QueueInv' /\ Frees
  <2>1. Dying /\ mode = "destroy"
    BY <1>30, DyingState DEF FreeDescriptor
  <2>2. /\ QueueInv' /\ Inboxes(lists)[task_active] = <<>>
        /\ After(Marking(lists), Inboxes(lists))
    BY <1>30, <2>1, FreeStep
  <2> QED
    BY <1>30, <2>1, <2>2 DEF FreeDescriptor, Frees
<1>31. CASE UNCHANGED vars
  <2>1. QueueInv'
    BY <1>31
    DEF vars, QueueInv, Here, Place, ActiveOK, BootOK, Booted
  <2> QED
    BY <1>31, <2>1
<1>32. CASE Stop
  BY <1>31, <1>32 DEF Stop
<1>33. CASE Syscall
  BY <1>8, <1>9, <1>10, <1>11, <1>12, <1>13, <1>14, <1>15, <1>16, <1>17,
     <1>18, <1>19, <1>20, <1>21, <1>22, <1>33 DEF Syscall, Effects
<1>34. CASE Irq
  BY <1>23, <1>24, <1>25, <1>34 DEF Irq, Effects
<1>35. CASE Kernel
  BY <1>26, <1>27, <1>28, <1>29, <1>30, <1>35 DEF Kernel, Effects
<1> QED
  BY <1>31, <1>32, <1>33, <1>34, <1>35 DEF Next

(* QueueInv is an invariant.                                               *)
THEOREM QueueInvariant == Spec => [](TypeOK /\ QueueInv)
<1>1. Init => TypeOK /\ QueueInv
  BY InitTyped, InitQueueInv
<1>2. TypeOK /\ QueueInv /\ [Next]_vars => TypeOK' /\ QueueInv'
  BY NextTyped, QueueStep
<1> QED
  BY <1>1, <1>2, PTL DEF Spec

-----------------------------------------------------------------------------
(* Whose name a message carries.                                           *)

(* A message that waits to be received.                                    *)
Undelivered(t, out, mk, rq) ==
  t \notin out /\ mk[t] # RPLY_BLOCKED /\ rq[t].call = "send"

(* It is for the task that lives in the receiver's slot now, unless that   *)
(* task is being destroyed.                                                *)
Known(t, id, ex, md, a, rq) ==
  \/ id[Receiver(rq[t])] = rq[t].tid /\ ex[Receiver(rq[t])]
  \/ md = "destroy" /\ Receiver(rq[t]) = a

(* Ids stay in their slots, and no message waits for a task that has gone. *)
NamesInv ==
  \A t \in Tasks :
    /\ task_index_from_tid(tid[t]) = t
    /\ Undelivered(t, stranded, Marking(lists), req)
         => Known(t, tid, sp, mode, task_active, req)

(* At the start nobody sends.                                              *)
LEMMA InitNames == Init => NamesInv
<1> SUFFICES ASSUME Init, NEW t \in Tasks
             PROVE  /\ task_index_from_tid(tid[t]) = t
                    /\ req[t].call # "send"
  BY DEF NamesInv, Undelivered
<1>1. TASK_MAX \in Nat \ {0} /\ tid[t] = t /\ t \in 0 .. TASK_MAX - 1
  BY TaskMaxAssumption DEF Init, Tasks
<1>2. t % TASK_MAX = t
  BY <1>1
<1> QED
  BY <1>1, <1>2 DEF Init, NoReq, task_index_from_tid

(* A task on a receive queue is one whose message waits for the queue's    *)
(* owner, and the other way round.                                         *)
LEMMA BoxIs ==
  ASSUME TypeOK, QueueInv, mode # "shutdown", NEW r \in Tasks
  PROVE  /\ Inboxes(lists)[r] \in Seq(Tasks)
         /\ \A t \in Tasks :
              t \in ToSet(Inboxes(lists)[r]) <=>
                /\ Undelivered(t, stranded, Marking(lists), req)
                /\ Receiver(req[t]) = r
<1>1. /\ Inboxes(lists)[r] = On(lists, RecvQ(r))
      /\ RecvQ(r) \in Queues
  BY PlaceIds DEF Inboxes
<1>2. /\ On(lists, RecvQ(r)) \in Seq(Tasks)
      /\ \A t \in Tasks :
           Here[t] = RecvQ(r) <=> t \in ToSet(On(lists, RecvQ(r)))
  BY <1>1 DEF QueueInv, Layout
<1>3. ASSUME NEW t \in Tasks, Undelivered(t, stranded, Marking(lists), req),
             Receiver(req[t]) = r
      PROVE  Here[t] = RecvQ(r)
  <2>1. req[t] # NoReq
    BY <1>3 DEF Undelivered, NoReq
  <2>2. mode \in {"user", "destroy"} => t # task_active
    BY <2>1 DEF QueueInv, ActiveOK
  <2>3. sp[t]
    BY <2>1 DEF QueueInv, StatusOK
  <2>4. Here[t] = Rest(t, stranded, priority, sp, int_queue,
                       Marking(lists), req)
    BY <2>2 DEF Here, Place
  <2> QED
    BY <1>3, <2>3, <2>4 DEF Rest, Undelivered
<1>4. ASSUME NEW t \in Tasks, Here[t] = RecvQ(r)
      PROVE  /\ Undelivered(t, stranded, Marking(lists), req)
             /\ Receiver(req[t]) = r
  BY <1>4, OnRecvQ DEF Undelivered
<1> QED
  BY <1>1, <1>2, <1>3, <1>4

(* One round of ksyscall_recv takes at most one message, which waited.     *)
LEMMA ReceivedNames ==
  ASSUME NEW m, NEW rq, NEW r \in Tasks, Received(m, rq, r),
         rq \in [Tasks -> Requests], rq[r].call # "send",
         Marking(m) \in [Tasks -> Marks \cup {NULL}], NEW t \in Tasks,
         UNCHANGED stranded
  PROVE  /\ mode' # "destroy"
         /\ Undelivered(t, stranded', Marking(lists'), req')
              => Undelivered(t, stranded, Marking(m), rq) /\ req'[t] = rq[t]
         /\ Marking(lists')[t] = RPLY_BLOCKED /\ Marking(m)[t] # RPLY_BLOCKED
              => /\ Inboxes(m)[r] # <<>> /\ t = Head(Inboxes(m)[r])
                 /\ req'[t] = rq[t]
<1>1. NoReq.call # "send" /\ RECV_BLOCKED # RPLY_BLOCKED /\ NULL # RPLY_BLOCKED
  BY TaskFacts, PointerAssumption DEF NoReq, Marks
<1>2. CASE Blocks(m, rq, r)
  BY <1>1, <1>2 DEF Blocks, After, Undelivered
<1>3. CASE Accepts(m, rq, r)
  <2> DEFINE s == Head(Inboxes(m)[r])
  <2>1. /\ s \in Tasks \ {r} /\ Inboxes(m)[r] # <<>> /\ mode' = "user"
        /\ req' = [rq EXCEPT ![r] = NoReq]
        /\ Marking(lists') = [[Marking(m) EXCEPT ![s] = RPLY_BLOCKED]
                                EXCEPT ![r] = NULL]
    BY <1>3 DEF Accepts, After
  <2> HIDE DEF s
  <2>2. /\ Marking(lists')[s] = RPLY_BLOCKED /\ Marking(lists')[r] = NULL
        /\ t \notin {s, r} => Marking(lists')[t] = Marking(m)[t]
        /\ t # r => req'[t] = rq[t]
        /\ req'[r] = NoReq
    BY <2>1
  <2> QED
    BY <1>1, <2>1, <2>2 DEF Undelivered, s
<1>4. CASE Rejects(m, rq, r)
  <2> DEFINE s == Head(Inboxes(m)[r])
  <2>1. /\ s \in Tasks /\ mode' = "recv"
        /\ req' = [rq EXCEPT ![s] = NoReq]
        /\ Marking(lists') = Marking(m)
    BY <1>4 DEF Rejects
  <2> HIDE DEF s
  <2> QED
    BY <1>1, <2>1 DEF Undelivered
<1> QED
  BY <1>2, <1>3, <1>4 DEF Received

(* The effects on the names: an id moves only when its task goes, and then *)
(* its queue is emptied before the slot is free.                           *)
LEMMA KeepsNames ==
  ASSUME TypeOK, QueueInv, NamesInv, Effects
  PROVE  NamesInv'
<1>1. /\ req \in [Tasks -> Requests] /\ sp \in [Tasks -> BOOLEAN]
      /\ tid \in [Tasks -> AnyTid] /\ task_active \in Tasks
      /\ Marking(lists) \in [Tasks -> Marks \cup {NULL}]
      /\ NoReq.call # "send"
  <2>1. mode # "shutdown"
    BY DEF Effects, Still, Starts, Receives, Sends, Replies, Exits,
           Releases, Frees
  <2> QED
    BY <2>1, MarkTypes DEF TypeOK, QueueInv, NoReq
<1>2. \A t \in Tasks : task_index_from_tid(tid[t]) = t
  BY DEF NamesInv
<1> SUFFICES ASSUME NEW t \in Tasks
             PROVE  /\ task_index_from_tid(tid'[t]) = t
                    /\ Undelivered(t, stranded', Marking(lists'), req')
                         => Known(t, tid', sp', mode', task_active', req')
  BY DEF NamesInv
<1> DEFINE Kept == /\ Undelivered(t, stranded, Marking(lists), req)
                   /\ req'[t] = req[t]
<1>3. Undelivered(t, stranded, Marking(lists), req)
        => Known(t, tid, sp, mode, task_active, req)
  BY DEF NamesInv
<1>4. ASSUME UNCHANGED tid, \A u \in Tasks : sp[u] => sp'[u],
             mode # "destroy", Kept
      PROVE  Known(t, tid', sp', mode', task_active', req')
  <2>1. Receiver(req[t]) \in Tasks
    <3>1. req[t].tid \in Int
      BY <1>1 DEF Requests, AnyTid
    <3> QED
      BY <3>1, Index DEF Receiver
  <2>2. tid[Receiver(req[t])] = req[t].tid /\ sp[Receiver(req[t])]
    BY <1>3, <1>4 DEF Known
  <2> QED
    BY <1>4, <2>1, <2>2 DEF Known
<1>5. CASE Still
  BY <1>2, <1>4, <1>5 DEF Still, Outside, QueuesKept, Undelivered
<1>6. ASSUME NEW u \in Tasks, Starts(u)
      PROVE  /\ UNCHANGED <<tid, stranded, req>> /\ mode # "destroy"
             /\ Marking(lists') = Marking(lists)
             /\ \A v \in Tasks : sp[v] => sp'[v]
  BY <1>1, <1>6 DEF Starts, Outside, QueuesKept
<1>7. ASSUME NEW u \in Tasks, Starts(u)
      PROVE  /\ task_index_from_tid(tid'[t]) = t
             /\ Undelivered(t, stranded', Marking(lists'), req')
                  => Known(t, tid', sp', mode', task_active', req')
  BY <1>2, <1>4, <1>6, <1>7 DEF Undelivered
<1>8. ASSUME NEW u \in Tasks, Replies(u)
      PROVE  /\ task_index_from_tid(tid'[t]) = t
             /\ Undelivered(t, stranded', Marking(lists'), req')
                  => Known(t, tid', sp', mode', task_active', req')
  <2>1. /\ UNCHANGED <<tid, stranded, sp>> /\ mode # "destroy"
        /\ req' = [req EXCEPT ![u] = NoReq]
        /\ Marking(lists') = [Marking(lists) EXCEPT ![u] = NULL]
    BY <1>8 DEF Replies, After
  <2>2. Undelivered(t, stranded', Marking(lists'), req') => Kept
    BY <1>1, <2>1 DEF Undelivered
  <2> QED
    BY <1>2, <1>4, <2>1, <2>2
<1>9. ASSUME NEW r \in Tasks, NEW rq, Receives(r, rq)
      PROVE  /\ task_index_from_tid(tid'[t]) = t
             /\ Undelivered(t, stranded', Marking(lists'), req')
                  => Known(t, tid', sp', mode', task_active', req')
  <2>1. /\ UNCHANGED <<tid, stranded, sp>> /\ mode # "destroy"
        /\ Received(lists, rq, r) /\ rq \in [Tasks -> Requests]
        /\ rq[r].call = "recv" /\ \A u \in Tasks \ {r} : rq[u] = req[u]
    BY <1>9 DEF Receives
  <2>2. Undelivered(t, stranded', Marking(lists'), req')
          => Undelivered(t, stranded, Marking(lists), rq) /\ req'[t] = rq[t]
    BY <1>1, <2>1, ReceivedNames
  <2>3. Undelivered(t, stranded', Marking(lists'), req') => Kept
    BY <2>1, <2>2 DEF Undelivered
  <2> QED
    BY <1>2, <1>4, <2>1, <2>3
<1>10. ASSUME NEW r \in Tasks, NEW rq, NEW n, Sends(n, rq, r)
       PROVE  /\ task_index_from_tid(tid'[t]) = t
              /\ Undelivered(t, stranded', Marking(lists'), req')
                   => Known(t, tid', sp', mode', task_active', req')
  <2>1. /\ UNCHANGED <<tid, stranded, sp>> /\ mode = "user"
        /\ r # task_active /\ rq \in [Tasks -> Requests]
        /\ \A u \in Tasks \ {task_active} : rq[u] = req[u]
        /\ Marking(n) = Marking(lists)
        /\ tid[r] = rq[task_active].tid /\ sp[r]
        /\ Receiver(rq[task_active]) = r
        /\ \/ Received(n, rq, r) /\ Marking(lists)[r] = RECV_BLOCKED
           \/ Queued(rq, r)
    BY <1>10 DEF Sends, Sent
  <2>2. Received(n, rq, r) /\ Marking(lists)[r] = RECV_BLOCKED
          => rq[r].call # "send"
    BY <2>1 DEF QueueInv, StatusOK
  <2>3. Undelivered(t, stranded', Marking(lists'), req')
          => Undelivered(t, stranded, Marking(lists), rq) /\ req'[t] = rq[t]
    <3>1. CASE Received(n, rq, r) /\ Marking(lists)[r] = RECV_BLOCKED
      BY <1>1, <2>1, <2>2, <3>1, ReceivedNames
    <3>2. CASE Queued(rq, r)
      BY <2>1, <3>2 DEF Queued, After, Undelivered
    <3> QED
      BY <2>1, <3>1, <3>2
  <2>4. CASE t = task_active
    BY <1>2, <2>1, <2>3, <2>4 DEF Known, Receiver
  <2>5. CASE t # task_active
    <3>1. Undelivered(t, stranded', Marking(lists'), req') => Kept
      BY <2>1, <2>3, <2>5 DEF Undelivered
    <3> QED
      BY <1>2, <1>4, <2>1, <3>1
  <2> QED
    BY <2>4, <2>5
<1>11. CASE Exits
  <2>1. /\ mode = "user" /\ mode' = "destroy"
        /\ tid' = [tid EXCEPT ![task_active] = NextTid(task_active)]
        /\ sp' = [sp EXCEPT ![task_active] = FALSE]
        /\ UNCHANGED <<stranded, task_active, req, lists>>
    BY <1>11 DEF Exits
  <2>2. task_index_from_tid(tid'[t]) = t
    <3>1. task_index_from_tid(NextTid(task_active)) = task_active
      BY <1>1, <1>2, NextTidIs
    <3> QED
      BY <1>1, <1>2, <2>1, <3>1
  <2>3. ASSUME Undelivered(t, stranded', Marking(lists'), req')
        PROVE  Known(t, tid', sp', mode', task_active', req')
    <3>1. Known(t, tid, sp, mode, task_active, req) /\ req'[t] = req[t]
      BY <1>3, <2>1, <2>3 DEF Undelivered
    <3>2. CASE Receiver(req[t]) = task_active
      BY <2>1, <3>2 DEF Known
    <3>3. CASE Receiver(req[t]) # task_active
      <4>1. Receiver(req[t]) \in Tasks
        <5>1. req[t].tid \in Int
          BY <1>1 DEF Requests, AnyTid
        <5> QED
          BY <5>1, Index DEF Receiver
      <4>2. /\ tid'[Receiver(req[t])] = tid[Receiver(req[t])]
            /\ sp'[Receiver(req[t])] = sp[Receiver(req[t])]
        BY <1>1, <2>1, <3>3, <4>1
      <4> QED
        BY <2>1, <3>1, <4>2 DEF Known
    <3> QED
      BY <3>2, <3>3
  <2> QED
    BY <2>2, <2>3
<1>12. CASE Releases
  <2> DEFINE s == Head(Inboxes(lists)[task_active])
  <2>1. /\ UNCHANGED <<task_active, tid, sp>> /\ mode = "destroy"
        /\ mode' = mode /\ req' = [req EXCEPT ![s] = NoReq]
        /\ stranded \subseteq stranded'
        /\ Marking(lists') = Marking(lists)
    BY <1>12 DEF Releases, Flushes
  <2> HIDE DEF s
  <2>2. Undelivered(t, stranded', Marking(lists'), req') => Kept
    BY <1>1, <2>1 DEF Undelivered
  <2> QED
    BY <1>2, <1>3, <2>1, <2>2 DEF Known
<1>13. CASE Frees
  <2>1. /\ UNCHANGED <<tid, stranded, sp, req>> /\ mode = "destroy"
        /\ Inboxes(lists)[task_active] = <<>>
        /\ Marking(lists') = Marking(lists)
    BY <1>13 DEF Frees, After
  <2>2. ASSUME Undelivered(t, stranded, Marking(lists), req)
        PROVE  Receiver(req[t]) # task_active
    <3>1. \A u : u \notin ToSet(<<>>)
      BY DEF ToSet
    <3> QED
      BY <1>1, <2>1, <2>2, <3>1, BoxIs
  <2> QED
    BY <1>2, <1>3, <2>1, <2>2 DEF Known, Undelivered
<1> QED
  BY <1>5, <1>7, <1>8, <1>9, <1>10, <1>11, <1>12, <1>13 DEF Effects

(* NamesInv is an invariant.                                               *)
THEOREM NamesInvariant == Spec => []NamesInv
<1>1. NamesInv /\ UNCHANGED vars => NamesInv'
  BY DEF NamesInv, vars
<1>2. TypeOK /\ QueueInv /\ NamesInv /\ [Next]_vars => NamesInv'
  BY <1>1, QueueStep, KeepsNames
<1> QED
  BY <1>2, InitNames, QueueInvariant, PTL DEF Spec

-----------------------------------------------------------------------------
(* What the tasks see between two calls.                                   *)

(* Members, for each kind of queue.                                        *)
LEMMA MembersAre ==
  ASSUME NEW t \in Tasks
  PROVE  /\ t \in Members(FreeList) <=> ~sp[t]
         /\ \A p : t \in Members(ReadyQ(p)) <=>
                     /\ sp[t] /\ ~Active(t) /\ ~AwaitsEvent(t)
                     /\ req[t] = NoReq /\ priority[t] = p
         /\ \A r : t \in Members(RecvQ(r)) <=>
                     /\ sp[t] /\ sp[r] /\ Sending(t) /\ t \notin stranded
                     /\ req[t].tid = tid[r]
<1>1. /\ FreeList[1] = "free"
      /\ \A p : ReadyQ(p)[1] = "ready" /\ ReadyQ(p)[2] = p
      /\ \A r : RecvQ(r)[1] = "recv" /\ RecvQ(r)[2] = r
  BY DEF FreeList, ReadyQ, RecvQ
<1> QED
  BY <1>1 DEF Members

(* Between two calls, the place of a task is the queue it belongs on.      *)
LEMMA HereIsMembers ==
  ASSUME Running, NamesInv, mode = "user", NEW t \in Tasks, NEW q \in Queues
  PROVE  Here[t] = q <=> t \in Members(q)
<1> DEFINE mk == Marking(lists)
<1> USE DEF Running
<1>1. /\ task_index_from_tid(tid[q[2]]) = q[2] \/ q[2] \notin Tasks
      /\ req[t].call = "none" <=> req[t] = NoReq
      /\ mk[t] # RPLY_BLOCKED <=> lists.next[t] # RPLY_BLOCKED
  <2>1. \A u \in Tasks : task_index_from_tid(tid[u]) = u
    BY DEF NamesInv
  <2>2. req[t].call = "none" <=> req[t] = NoReq
    BY DEF StatusOK, NoReq
  <2>3. mk[t] # RPLY_BLOCKED <=> lists.next[t] # RPLY_BLOCKED
    BY TaskFacts DEF Marking, Marks
  <2> QED
    BY <2>1, <2>2, <2>3
<1>2. AwaitsEvent(t) <=> Awaits(int_queue, t)
  BY DEF AwaitsEvent, Awaits
<1>3. req[t] \in Requests /\ priority[t] \in Priorities
  OBVIOUS
<1> DEFINE home == Rest(t, stranded, priority, sp, int_queue, mk, req)
<1>4. /\ ~sp[t] => home = FreeList
      /\ sp[t] /\ req[t].call = "none" =>
           home = IF Awaits(int_queue, t) THEN OFF ELSE ReadyQ(priority[t])
      /\ sp[t] /\ req[t].call = "send" =>
           home = IF mk[t] # RPLY_BLOCKED /\ t \notin stranded
                  THEN RecvQ(Receiver(req[t])) ELSE OFF
      /\ sp[t] /\ req[t].call = "recv" => home = OFF
      /\ req[t].call \in {"none", "send", "recv"}
  BY <1>3, RestIs
<1>5. CASE t = task_active
  <2>1. Here[t] = OFF /\ sp[t] /\ req[t].call = "none" /\ Active(t)
    BY <1>5 DEF Active
  <2>2. ~Sending(t)
    BY <2>1 DEF Sending
  <2>3. Here[t] # q
    BY <2>1, PlaceIds
  <2> HIDE DEF Running
  <2> QED
    BY <2>1, <2>2, <2>3, MembersAre DEF Queues
<1>6. CASE t # task_active
  <2>1. Here[t] = home /\ ~Active(t)
    BY <1>6 DEF Active
  <2> HIDE DEF Running, home, mk
  <2>2. CASE q = FreeList
    BY <1>3, <1>4, <2>1, <2>2, MembersAre, PlaceIds
  <2>3. ASSUME NEW p \in Priorities, q = ReadyQ(p)
        PROVE  Here[t] = q <=> t \in Members(q)
    <3>1. Here[t] = q <=> /\ sp[t] /\ req[t].call = "none"
                          /\ ~Awaits(int_queue, t) /\ priority[t] = p
      BY <1>3, <1>4, <2>1, <2>3, PlaceIds
    <3> QED
      BY <1>1, <1>2, <2>1, <2>3, <3>1, MembersAre
  <2>4. ASSUME NEW r \in Tasks, q = RecvQ(r)
        PROVE  Here[t] = q <=> t \in Members(q)
    <3>1. q[2] = r
      BY <2>4 DEF RecvQ
    <3>2. Here[t] = q <=> /\ sp[t] /\ req[t].call = "send"
                          /\ mk[t] # RPLY_BLOCKED /\ t \notin stranded
                          /\ Receiver(req[t]) = r
      BY <1>3, <1>4, <2>1, <2>4, PlaceIds
    <3>3. Here[t] = q => tid[r] = req[t].tid /\ sp[r]
      <4> SUFFICES ASSUME Here[t] = q PROVE tid[r] = req[t].tid /\ sp[r]
        OBVIOUS
      <4>1. Undelivered(t, stranded, mk, req)
        BY <3>2 DEF Undelivered
      <4>2. Known(t, tid, sp, mode, task_active, req)
        BY <4>1 DEF NamesInv, mk
      <4> QED
        BY <3>2, <4>2 DEF Known
    <3>4. Here[t] = q <=> /\ sp[t] /\ sp[r] /\ Sending(t)
                          /\ t \notin stranded
                          /\ req[t].tid = tid[r]
      BY <1>1, <2>4, <3>1, <3>2, <3>3 DEF Sending, Receiver
    <3> QED
      BY <2>4, <3>4, MembersAre
  <2> QED
    BY <2>2, <2>3, <2>4 DEF Queues
<1> QED
  BY <1>5, <1>6

(* Every queue is a proper list of exactly the tasks that belong on it: no *)
(* live task is lost or on two queues.                                     *)
LEMMA InvQueuesExact == TypeOK /\ QueueInv /\ NamesInv => QueuesExact
<1> SUFFICES ASSUME TypeOK, QueueInv, NamesInv, mode = "user", NEW q \in Queues
             PROVE  /\ Represents(lists, q, Queue(q))
                    /\ ToSet(Queue(q)) = Members(q)
  BY DEF QueuesExact
<1>1. Running
  BY UserState
<1>2. Queue(q) = On(lists, q)
  BY DEF Queue, On
<1>3. /\ Represents(lists, q, On(lists, q))
      /\ On(lists, q) \in Seq(Tasks)
      /\ \A t \in Tasks : Here[t] = q <=> t \in ToSet(On(lists, q))
  BY <1>1 DEF Running, Layout
<1>4. ToSet(On(lists, q)) \subseteq Tasks
  BY <1>3 DEF ToSet
<1>5. Members(q) \subseteq Tasks
  BY DEF Members
<1>6. \A t \in Tasks : Here[t] = q <=> t \in Members(q)
  BY <1>1, HereIsMembers
<1> QED
  BY <1>2, <1>3, <1>4, <1>5, <1>6

(* The bitmap names the priorities at which some task is ready, and none   *)
(* of them is above the priority of the task that runs.                    *)
LEMMA InvHighestPriority ==
  TypeOK /\ QueueInv /\ NamesInv => HighestPriorityRuns
<1> SUFFICES ASSUME TypeOK, QueueInv, NamesInv, mode = "user"
             PROVE  /\ lists.state
                         = {p \in Priorities : Members(ReadyQ(p)) # {}}
                    /\ \A p \in lists.state : p <= priority[task_active]
  BY DEF HighestPriorityRuns
<1>1. Running /\ ActiveOK
  BY UserState DEF QueueInv
<1>2. Layout(lists, Here) /\ BitsOK(lists)
  BY <1>1 DEF Running
<1>3. /\ lists.state \in SUBSET Priorities
      /\ \A p \in Priorities :
           p \in lists.state <=> \E t \in Tasks : Here[t] = ReadyQ(p)
  BY <1>2, BitsLayout
<1>4. \A p \in Priorities, t \in Tasks :
        Here[t] = ReadyQ(p) <=> t \in Members(ReadyQ(p))
  BY <1>1, HereIsMembers, PlaceIds
<1>5. \A q : Members(q) \subseteq Tasks
  BY DEF Members
<1> QED
  BY <1>1, <1>3, <1>4, <1>5 DEF ActiveOK

(* The kernel never runs out of tasks to dispatch and never follows a bad  *)
(* pointer, whatever the tasks call and whatever the interrupts do.        *)
THEOREM KernelDoesNotPanic == Spec => []NoPanic
<1>1. QueueInv => NoPanic
  BY DEF QueueInv, NoPanic
<1> QED
  BY <1>1, QueueInvariant, PTL

(* Between two calls, every queue holds exactly its tasks, in a proper     *)
(* list.                                                                   *)
THEOREM QueuesAreExact == Spec => []QueuesExact
BY InvQueuesExact, QueueInvariant, NamesInvariant, PTL

(* Between two calls, no ready task has a higher priority than the one     *)
(* that runs.                                                              *)
THEOREM HighestRuns == Spec => []HighestPriorityRuns
BY InvHighestPriority, QueueInvariant, NamesInvariant, PTL

-----------------------------------------------------------------------------
(* What no step does.                                                      *)

(* The effects on the order of a queue.                                    *)
LEMMA KeepsOrder ==
  ASSUME TypeOK, QueueInv, Effects, NEW q \in Queues
  PROVE  \/ Fifo(On(lists, q), On(lists', q))
         \/ mode = "destroy" /\ q = RecvQ(task_active)
<1>1. Orderly(lists, lists') => Fifo(On(lists, q), On(lists', q))
  BY DEF Orderly
<1>2. CASE Still
  BY <1>1, <1>2 DEF Still, QueuesKept
<1>3. ASSUME NEW t \in Tasks, Starts(t) \/ Replies(t)
      PROVE  Orderly(lists, lists')
  BY <1>3 DEF Starts, Replies, QueuesKept, After
<1>4. ASSUME NEW m, NEW rq, NEW r, Received(m, rq, r)
      PROVE  Orderly(lists, lists')
  BY <1>4 DEF Received, Blocks, Accepts, Rejects, After
<1>5. ASSUME NEW r \in Tasks, NEW rq, Receives(r, rq)
      PROVE  Orderly(lists, lists')
  BY <1>4, <1>5 DEF Receives
<1>6. ASSUME NEW r \in Tasks, NEW rq, NEW n, Sends(n, rq, r)
      PROVE  Orderly(lists, lists')
  BY <1>4, <1>6 DEF Sends, Sent, Queued, After
<1>7. CASE Exits
  <2>1. Layout(lists, Here) /\ UNCHANGED lists
    BY <1>7 DEF Exits, QueueInv
  <2> QED
    BY <1>1, <2>1, SameOrder
<1>8. CASE Releases
  BY <1>8 DEF Releases, Flushes
<1>9. CASE Frees
  BY <1>1, <1>9 DEF Frees, After
<1> QED
  BY <1>1, <1>2, <1>3, <1>5, <1>6, <1>7, <1>8, <1>9 DEF Effects

(* The effects on a Send: only a reply, a refusal and the exit of the      *)
(* receiver end one.                                                       *)
LEMMA EndsSends ==
  ASSUME TypeOK, QueueInv, Effects, NEW t \in Tasks,
         req[t].call = "send", req'[t] # req[t]
  PROVE  /\ req'[t] = NoReq
         /\ sp'[t]
         /\ IF lists.next[t] = RPLY_BLOCKED
            THEN result'[t] = OK
            ELSE result'[t] \in {ERR_NOT_ENUF_MEMORY, ERR_INCOMPLETE}
<1>1. /\ req \in [Tasks -> Requests] /\ result \in [Tasks -> Int]
      /\ Marking(lists)[t] = RPLY_BLOCKED <=> lists.next[t] = RPLY_BLOCKED
  BY TaskFacts DEF TypeOK, Marking, Marks
<1>2. ASSUME NEW m, NEW rq, NEW r \in Tasks, Received(m, rq, r), t # r,
             rq \in [Tasks -> Requests], rq[t] = req[t], UNCHANGED sp,
             Marking(m) = Marking(lists)
      PROVE  /\ req'[t] = NoReq /\ sp'[t] /\ Marking(lists)[t] = NULL
             /\ result'[t] = ERR_NOT_ENUF_MEMORY
  <2>1. ~Blocks(m, rq, r)
    BY <1>2 DEF Blocks
  <2>2. ~Accepts(m, rq, r)
    BY <1>2 DEF Accepts
  <2>3. Rejects(m, rq, r)
    BY <1>2, <2>1, <2>2 DEF Received
  <2> DEFINE s == Head(Inboxes(m)[r])
  <2>4. /\ req' = [rq EXCEPT ![s] = NoReq] /\ sp[s]
        /\ result' = [result EXCEPT ![s] = ERR_NOT_ENUF_MEMORY]
        /\ Marking(m)[s] = NULL
    BY <2>3 DEF Rejects
  <2> HIDE DEF s
  <2>5. t = s
    BY <1>2, <2>4
  <2> QED
    BY <1>1, <1>2, <2>4, <2>5
<1>3. /\ NULL # RPLY_BLOCKED
      /\ \A s \in Tasks : Marking(lists)[s] = RECV_BLOCKED /\ mode = "user"
                            => req[s].call # "send"
  <2>1. NULL # RPLY_BLOCKED
    BY TaskFacts DEF Marks
  <2>2. ASSUME NEW s \in Tasks, Marking(lists)[s] = RECV_BLOCKED,
               mode = "user"
        PROVE  req[s].call = "recv"
    BY <2>2 DEF QueueInv, StatusOK
  <2> QED
    BY <2>1, <2>2
<1>4. CASE Still
  BY <1>4 DEF Still
<1>5. ASSUME NEW s \in Tasks, Starts(s)
      PROVE  FALSE
  BY <1>5 DEF Starts
<1>6. ASSUME NEW s \in Tasks, Replies(s)
      PROVE  /\ req'[t] = NoReq /\ sp'[t]
             /\ Marking(lists)[t] = RPLY_BLOCKED /\ result'[t] = OK
  BY <1>1, <1>6 DEF Replies
<1>7. ASSUME NEW r \in Tasks, NEW rq, Receives(r, rq)
      PROVE  /\ req'[t] = NoReq /\ sp'[t] /\ Marking(lists)[t] = NULL
             /\ result'[t] = ERR_NOT_ENUF_MEMORY
  BY <1>2, <1>7 DEF Receives
<1>8. ASSUME NEW r \in Tasks, NEW rq, NEW n, Sends(n, rq, r)
      PROVE  /\ req'[t] = NoReq /\ sp'[t] /\ Marking(lists)[t] = NULL
             /\ result'[t] = ERR_NOT_ENUF_MEMORY
  <2>1. t # task_active
    BY <1>8 DEF Sends, QueueInv, ActiveOK, NoReq
  <2>2. rq \in [Tasks -> Requests] /\ rq[t] = req[t] /\ UNCHANGED sp
        /\ Marking(n) = Marking(lists)
    BY <1>8, <2>1 DEF Sends, Sent
  <2>3. ~Queued(rq, r)
    BY <2>2 DEF Queued
  <2>4. Received(n, rq, r) /\ Marking(lists)[r] = RECV_BLOCKED /\ mode = "user"
    BY <1>8, <2>3 DEF Sends, Sent
  <2>5. t # r
    BY <1>3, <2>4
  <2> QED
    BY <1>2, <2>2, <2>4, <2>5
<1>9. CASE Exits
  BY <1>9 DEF Exits
<1>10. CASE Releases
  <2> DEFINE s == Head(Inboxes(lists)[task_active])
  <2>1. /\ req' = [req EXCEPT ![s] = NoReq] /\ sp[s] /\ sp' = sp
        /\ result' = [result EXCEPT ![s] = ERR_INCOMPLETE]
        /\ Marking(lists)[s] = NULL
    BY <1>10 DEF Releases, Flushes
  <2> HIDE DEF s
  <2>2. t = s
    BY <1>1, <2>1
  <2> QED
    BY <1>1, <1>3, <2>1, <2>2
<1>11. CASE Frees
  BY <1>11 DEF Frees
<1> QED
  BY <1>1, <1>3, <1>4, <1>5, <1>6, <1>7, <1>8, <1>9, <1>10, <1>11
  DEF Effects

(* The effects on what is received: the receiver takes the head of its own *)
(* queue.                                                                  *)
LEMMA ArrivesWhereSent ==
  ASSUME TypeOK, TypeOK', QueueInv, NamesInv, Effects, NEW t \in Tasks,
         lists'.next[t] = RPLY_BLOCKED, lists.next[t] # RPLY_BLOCKED
  PROVE  /\ req'[t].call = "send"
         /\ tid'[Receiver(req'[t])] = req'[t].tid
         /\ sp'[Receiver(req'[t])]
<1>1. /\ Marking(lists')[t] = RPLY_BLOCKED
      /\ Marking(lists)[t] # RPLY_BLOCKED
      /\ NULL # RPLY_BLOCKED
  BY TaskFacts DEF Marking, Marks
<1>2. mode # "shutdown"
  BY DEF Effects, Still, Starts, Receives, Sends, Replies, Exits,
         Releases, Frees
<1>3. /\ Marking(lists) \in [Tasks -> Marks \cup {NULL}]
      /\ NoReq.call # "send" /\ req \in [Tasks -> Requests]
      /\ task_active \in Tasks
  BY <1>2, MarkTypes DEF TypeOK, QueueInv, NoReq
<1>4. ~Still /\ \A u \in Tasks : ~Starts(u)
  BY <1>1 DEF Still, Starts, QueuesKept
<1>5. \A u \in Tasks : ~Replies(u)
  BY <1>1, <1>3 DEF Replies, After
<1>6. ~Exits /\ ~Releases /\ ~Frees
  BY <1>1 DEF Exits, Releases, Flushes, Frees, After
<1>7. ASSUME NEW r \in Tasks, t \in ToSet(Inboxes(lists)[r]),
             mode # "destroy", UNCHANGED <<tid, sp>>, req'[t] = req[t]
      PROVE  /\ req'[t].call = "send"
             /\ tid'[Receiver(req'[t])] = req'[t].tid
             /\ sp'[Receiver(req'[t])]
  <2>1. Undelivered(t, stranded, Marking(lists), req)
    BY <1>2, <1>7, BoxIs
  <2>2. Known(t, tid, sp, mode, task_active, req)
    BY <2>1 DEF NamesInv
  <2> QED
    BY <1>7, <2>1, <2>2 DEF Known, Undelivered
<1>8. ASSUME NEW r \in Tasks, Inboxes(lists)[r] # <<>>
      PROVE  Head(Inboxes(lists)[r]) \in ToSet(Inboxes(lists)[r])
  <2>1. Inboxes(lists)[r] \in Seq(Tasks)
    BY <1>2, BoxIs
  <2>2. \A s \in Seq(Tasks) : s # <<>> => Head(s) = s[1] /\ 1 \in 1 .. Len(s)
    BY HeadTailProperties, EmptySeq, LenProperties
  <2> QED
    BY <1>8, <2>1, <2>2, OnQueue
<1>9. ASSUME NEW r \in Tasks, NEW rq, Receives(r, rq)
      PROVE  /\ req'[t].call = "send"
             /\ tid'[Receiver(req'[t])] = req'[t].tid
             /\ sp'[Receiver(req'[t])]
  <2>1. /\ UNCHANGED <<tid, stranded, sp>> /\ mode # "destroy"
        /\ Received(lists, rq, r) /\ rq \in [Tasks -> Requests]
        /\ rq[r].call = "recv" /\ \A u \in Tasks \ {r} : rq[u] = req[u]
    BY <1>9 DEF Receives
  <2>2. /\ Inboxes(lists)[r] # <<>> /\ t = Head(Inboxes(lists)[r])
        /\ req'[t] = rq[t]
    BY <1>1, <1>3, <2>1, ReceivedNames
  <2>3. t # r
    BY <1>9, <2>2, <1>8, <1>2, BoxIs DEF Undelivered, Receives
  <2> QED
    BY <1>7, <1>8, <2>1, <2>2, <2>3
<1>10. ASSUME NEW r \in Tasks, NEW rq, NEW n, Sends(n, rq, r)
       PROVE  /\ req'[t].call = "send"
              /\ tid'[Receiver(req'[t])] = req'[t].tid
              /\ sp'[Receiver(req'[t])]
  <2>1. /\ UNCHANGED <<tid, stranded, sp>> /\ mode = "user"
        /\ r # task_active /\ rq \in [Tasks -> Requests]
        /\ \A u \in Tasks \ {task_active} : rq[u] = req[u]
        /\ Marking(n) = Marking(lists)
        /\ rq[task_active].call = "send"
        /\ tid[r] = rq[task_active].tid /\ sp[r]
        /\ Receiver(rq[task_active]) = r
        /\ Inboxes(n) = [Inboxes(lists) EXCEPT ![r] = Append(@, task_active)]
        /\ \/ Received(n, rq, r) /\ Marking(lists)[r] = RECV_BLOCKED
           \/ Queued(rq, r)
    BY <1>10 DEF Sends, Sent
  <2>2. ~Queued(rq, r)
    BY <1>1 DEF Queued, After
  <2>3. rq[r].call # "send" /\ Received(n, rq, r)
    BY <2>1, <2>2 DEF QueueInv, StatusOK
  <2>4. t = Head(Inboxes(n)[r]) /\ req'[t] = rq[t]
    <3>1. /\ rq \in [Tasks -> Requests] /\ UNCHANGED stranded
          /\ Marking(n) \in [Tasks -> Marks \cup {NULL}]
          /\ Marking(n)[t] # RPLY_BLOCKED
      BY <1>1, <1>3, <2>1
    <3> QED
      BY <1>1, <2>3, <3>1, ReceivedNames
  <2>5. Inboxes(n)[r] = Append(Inboxes(lists)[r], task_active)
    BY <2>1 DEF Inboxes
  <2>6. /\ Inboxes(lists)[r] = <<>> => t = task_active
        /\ Inboxes(lists)[r] # <<>> => t = Head(Inboxes(lists)[r])
    <3>1. Inboxes(lists)[r] \in Seq(Tasks)
      BY <1>2, BoxIs
    <3>2. \A s \in Seq(Tasks), a \in Tasks :
            Head(Append(s, a)) = IF s = <<>> THEN a ELSE Head(s)
      <4> SUFFICES ASSUME NEW s \in Seq(Tasks), NEW a \in Tasks
                   PROVE  Head(Append(s, a)) = IF s = <<>> THEN a ELSE Head(s)
        OBVIOUS
      <4>1. /\ Append(s, a) \in Seq(Tasks) /\ Append(s, a) # <<>>
            /\ Len(s) \in Nat /\ Append(s, a)[Len(s) + 1] = a
            /\ \A i \in 1 .. Len(s) : Append(s, a)[i] = s[i]
        BY AppendProperties, LenProperties
      <4>2. Head(Append(s, a)) = Append(s, a)[1]
        BY <4>1, HeadTailProperties
      <4>3. CASE s = <<>>
        BY <4>1, <4>2, <4>3
      <4>4. CASE s # <<>>
        <5>1. Head(s) = s[1] /\ Len(s) # 0
          BY <4>4, HeadTailProperties, EmptySeq
        <5>2. 1 \in 1 .. Len(s)
          BY <4>1, <5>1
        <5> QED
          BY <4>1, <4>2, <4>4, <5>1, <5>2
      <4> QED
        BY <4>3, <4>4
    <3> QED
      BY <1>3, <2>4, <2>5, <3>1, <3>2
  <2>7. CASE t = task_active
    BY <2>1, <2>4, <2>7
  <2>8. CASE t # task_active
    BY <1>7, <1>8, <2>1, <2>4, <2>6, <2>8
  <2> QED
    BY <2>7, <2>8
<1> QED
  BY <1>4, <1>5, <1>6, <1>9, <1>10 DEF Effects

(* Every queue is first in, first out.                                     *)
THEOREM QueuesAreFifo == Spec => QueueDiscipline
<1>1. ASSUME TypeOK, QueueInv, [Next]_vars
      PROVE  [\A q \in Queues :
                LET before == Queue(q)
                    after  == Queue(q)'
                IN  \/ before = after
                    \/ IsPrefix(before, after)
                    \/ before # <<>> /\ IsPrefix(Tail(before), after)
                    \/ mode = "destroy" /\ q = RecvQ(task_active)]_vars
  <2>1. CASE UNCHANGED vars
    BY <2>1
  <2>2. CASE Effects
    BY <2>2, <1>1, KeepsOrder DEF Fifo, Queue, On
  <2> QED
    BY <1>1, <2>1, <2>2, QueueStep
<1> QED
  BY <1>1, QueueInvariant, PTL DEF QueueDiscipline, Spec

(* Every Send ends once, and with the answer it should have.               *)
THEOREM SendsEndRight == Spec => SendOutcome
<1>1. ASSUME TypeOK, QueueInv, [Next]_vars
      PROVE  [\A t \in Tasks :
                req[t].call = "send" /\ req'[t] # req[t] =>
                  /\ req'[t] = NoReq
                  /\ sp'[t]
                  /\ IF lists.next[t] = RPLY_BLOCKED
                     THEN result'[t] = OK
                     ELSE result'[t] \in {ERR_NOT_ENUF_MEMORY,
                                          ERR_INCOMPLETE}]_vars
  BY <1>1, QueueStep, EndsSends
<1> QED
  BY <1>1, QueueInvariant, PTL DEF SendOutcome, Spec

(* A message is received by the living task that it was sent to.           *)
THEOREM MessagesArriveWhereSent == Spec => MessagesReachTheirTask
<1>1. ASSUME TypeOK, TypeOK', QueueInv, NamesInv, [Next]_vars
      PROVE  [\A t \in Tasks :
                lists'.next[t] = RPLY_BLOCKED /\ lists.next[t] # RPLY_BLOCKED
                  => LET receiver == task_index_from_tid(req'[t].tid)
                     IN  /\ req'[t].call = "send"
                         /\ tid'[receiver] = req'[t].tid
                         /\ sp'[receiver]]_vars
  BY <1>1, QueueStep, ArrivesWhereSent DEF Receiver
<1> QED
  BY <1>1, QueueInvariant, NamesInvariant, PTL
  DEF MessagesReachTheirTask, Spec

-----------------------------------------------------------------------------
(* The kernel implements rendezvous message passing: every effect is a     *)
(* step of SendReceiveReply, or none.                                      *)

(* StateOf as an operator of the fields that it reads.                     *)
AsState(t, md, a, c, ex, mk, rq) ==
  IF md = "destroy" /\ t = a THEN "ending"
  ELSE IF md = "recv" /\ t = c THEN "receiving"
  ELSE IF ~ex[t] THEN "none"
  ELSE IF mk[t] = RECV_BLOCKED THEN "waiting"
  ELSE IF mk[t] = RPLY_BLOCKED THEN "answering"
  ELSE IF rq[t].call = "send" THEN "sending"
  ELSE "running"

StateNow(t) ==
  AsState(t, mode, task_active, callee, sp, Marking(lists), req)

StateThen(t) ==
  AsState(t, mode', task_active', callee', sp', Marking(lists'), req')

(* The abstract states and inboxes before and after a step are these.      *)
LEMMA AbstractView ==
  /\ [t \in Tasks |-> StateOf(t)] = [t \in Tasks |-> StateNow(t)]
  /\ [t \in Tasks |-> StateOf(t)]' = [t \in Tasks |-> StateThen(t)]
  /\ [t \in Tasks |-> Queue(RecvQ(t))] = Inboxes(lists)
  /\ [t \in Tasks |-> Queue(RecvQ(t))]' = Inboxes(lists')
<1>1. /\ NULL # RECV_BLOCKED /\ NULL # RPLY_BLOCKED
      /\ RECV_BLOCKED \in Marks /\ RPLY_BLOCKED \in Marks
  BY TaskFacts DEF Marks
<1>2. ASSUME NEW t \in Tasks PROVE StateOf(t) = StateNow(t)
  BY <1>1, <1>2 DEF StateOf, StateNow, AsState, Marking
<1>3. ASSUME NEW t \in Tasks PROVE StateOf(t)' = StateThen(t)
  BY <1>1, <1>3 DEF StateOf, StateThen, AsState, Marking
<1>4. /\ [t \in Tasks |-> Queue(RecvQ(t))] = Inboxes(lists)
      /\ [t \in Tasks |-> Queue(RecvQ(t))]' = Inboxes(lists')
  BY DEF Queue, On, Inboxes
<1> QED
  BY <1>2, <1>3, <1>4

(* Before the first step no task exists and every inbox is empty.          *)
LEMMA StartsAbstract == Init => SRR!AInit
<1> SUFFICES ASSUME Init PROVE SRR!AInit
  OBVIOUS
<1>1. QueueInv /\ TypeOK
  BY InitQueueInv, InitTyped
<1>2. \A t \in Tasks : StateOf(t) = "none"
  BY DEF Init, StateOf
<1>3. ASSUME NEW r \in Tasks PROVE Queue(RecvQ(r)) = <<>>
  <2>1. lists.head[RecvQ(r)] = NULL /\ Layout(lists, Here)
        /\ RecvQ(r) \in Queues
    BY <1>1, PlaceIds DEF Init, QueueInv
  <2> QED
    BY <2>1, HeadLayout DEF Queue, On
<1> QED
  BY <1>2, <1>3 DEF SRR!AInit

(* What the states of tasks mean, when the invariant holds.                *)
LEMMA StateFacts ==
  ASSUME TypeOK, QueueInv, mode # "shutdown"
  PROVE  /\ Marking(lists) \in [Tasks -> Marks \cup {NULL}]
         /\ NULL \notin Marks /\ RECV_BLOCKED # RPLY_BLOCKED
         /\ \A t \in Tasks :
              /\ ~sp[t] => Marking(lists)[t] = NULL /\ req[t].call = "none"
              /\ Marking(lists)[t] = RECV_BLOCKED => req[t].call = "recv"
              /\ Marking(lists)[t] = RPLY_BLOCKED => req[t].call = "send"
         /\ mode = "user" =>
              /\ sp[task_active] /\ req[task_active].call = "none"
              /\ Marking(lists)[task_active] = NULL
         /\ mode = "recv" => sp[callee] /\ req[callee].call = "recv"
         /\ mode = "destroy" => ~sp[task_active]
         /\ task_active \in Tasks
         /\ sp \in [Tasks -> BOOLEAN] /\ req \in [Tasks -> Requests]
<1>1. Marking(lists) \in [Tasks -> Marks \cup {NULL}]
  BY MarkTypes DEF QueueInv
<1>2. NULL \notin Marks /\ RECV_BLOCKED # RPLY_BLOCKED
  BY TaskFacts
<1>3. ASSUME NEW t \in Tasks
      PROVE  /\ ~sp[t] => Marking(lists)[t] = NULL /\ req[t].call = "none"
             /\ Marking(lists)[t] = RECV_BLOCKED => req[t].call = "recv"
             /\ Marking(lists)[t] = RPLY_BLOCKED => req[t].call = "send"
  BY <1>1, <1>3 DEF QueueInv, StatusOK, NoReq, Marks
<1>4. mode = "user" =>
        /\ sp[task_active] /\ req[task_active].call = "none"
        /\ Marking(lists)[task_active] = NULL
  BY UserState DEF Running
<1>5. /\ mode = "recv" => sp[callee] /\ req[callee].call = "recv"
      /\ mode = "destroy" => ~sp[task_active]
  BY DEF QueueInv, ActiveOK
<1> QED
  BY <1>1, <1>2, <1>3, <1>4, <1>5 DEF TypeOK

(* Steps that change at most one task's state.                             *)
LEMMA SimpleSteps ==
  ASSUME TypeOK, QueueInv, Effects,
         \/ Still \/ Exits \/ Releases \/ Frees
         \/ \E t \in Tasks : Starts(t) \/ Replies(t)
  PROVE  SRR!ANext \/ UNCHANGED SRR!avars
<1> DEFINE A == [t \in Tasks |-> StateNow(t)]
           B == [t \in Tasks |-> StateThen(t)]
           mk == Marking(lists)
           a == task_active
<1>1. CASE Still
  <2>1. \A t \in Tasks : StateThen(t) = StateNow(t)
    BY <1>1 DEF Still, Outside, QueuesKept, StateNow, StateThen, AsState
  <2>2. Inboxes(lists') = Inboxes(lists)
    BY <1>1 DEF Still, QueuesKept
  <2> QED
    BY <2>1, <2>2, AbstractView DEF SRR!avars
<1>2. ASSUME NEW t \in Tasks, Starts(t)
      PROVE  SRR!Start(t)
  <2>1. /\ ~sp[t] /\ sp'[t] /\ mk[t] = NULL /\ req[t].call = "none"
        /\ NULL \notin Marks /\ RECV_BLOCKED \in Marks
        /\ RPLY_BLOCKED \in Marks
    BY <1>2, StateFacts DEF Starts, Marks
  <2>2. StateNow(t) = "none" /\ StateThen(t) = "running"
    BY <1>2, <2>1
    DEF Starts, Outside, QueuesKept, StateNow, StateThen, AsState
  <2>3. \A u \in Tasks \ {t} : StateThen(u) = StateNow(u)
    BY <1>2 DEF Starts, Outside, QueuesKept, StateNow, StateThen, AsState
  <2>4. Inboxes(lists') = Inboxes(lists)
    BY <1>2 DEF Starts, QueuesKept
  <2>5. A[t] = "none" /\ B = [A EXCEPT ![t] = "running"]
    BY <1>2, <2>2, <2>3
  <2> QED
    BY <2>4, <2>5, AbstractView DEF SRR!Start
<1>3. ASSUME NEW t \in Tasks, Replies(t)
      PROVE  SRR!Answer(t)
  <2>1. /\ mode = "user" /\ mode' = "user" /\ sp[t] /\ mk[t] = RPLY_BLOCKED
        /\ mk \in [Tasks -> Marks \cup {NULL}] /\ req \in [Tasks -> Requests]
        /\ a \in Tasks /\ sp[a] /\ mk[a] = NULL /\ req[a].call = "none"
        /\ NULL \notin Marks /\ RECV_BLOCKED \in Marks
        /\ RPLY_BLOCKED \in Marks /\ RECV_BLOCKED # RPLY_BLOCKED
    BY <1>3, StateFacts DEF Replies, Marks, After
  <2>2. /\ Marking(lists') = [mk EXCEPT ![t] = NULL]
        /\ req' = [req EXCEPT ![t] = NoReq] /\ NoReq.call = "none"
        /\ sp' = sp /\ Inboxes(lists') = Inboxes(lists)
    BY <1>3 DEF Replies, After, NoReq
  <2> HIDE DEF mk, a
  <2>3. StateNow(t) = "answering" /\ StateThen(t) = "running"
    BY <1>3, <2>1, <2>2 DEF StateNow, StateThen, AsState, mk
  <2>4. StateNow(a) = "running"
    BY <2>1 DEF StateNow, AsState, mk
  <2>5. \A u \in Tasks \ {t} : StateThen(u) = StateNow(u)
    BY <2>1, <2>2 DEF StateNow, StateThen, AsState, mk
  <2>6. /\ A[t] = "answering" /\ A[a] = "running"
        /\ B = [A EXCEPT ![t] = "running"]
    BY <1>3, <2>1, <2>3, <2>4, <2>5
  <2> QED
    BY <2>1, <2>2, <2>6, AbstractView DEF SRR!Answer
<1>4. ASSUME Exits
      PROVE  SRR!End(a)
  <2>1. /\ mode = "user" /\ mode' = "destroy" /\ a' = a
        /\ a \in Tasks /\ sp[a] /\ mk[a] = NULL /\ req[a].call = "none"
        /\ NULL \notin Marks /\ RECV_BLOCKED \in Marks
        /\ RPLY_BLOCKED \in Marks
        /\ sp' = [sp EXCEPT ![a] = FALSE] /\ sp \in [Tasks -> BOOLEAN]
        /\ UNCHANGED <<req, lists>>
    BY <1>4, StateFacts DEF Exits, Marks
  <2>2. StateNow(a) = "running" /\ StateThen(a) = "ending"
    BY <2>1 DEF StateNow, StateThen, AsState
  <2>3. \A u \in Tasks \ {a} : StateThen(u) = StateNow(u)
    BY <2>1 DEF StateNow, StateThen, AsState
  <2> HIDE DEF a
  <2>4. A[a] = "running" /\ B = [A EXCEPT ![a] = "ending"]
    BY <2>1, <2>2, <2>3
  <2> QED
    BY <2>1, <2>4, AbstractView DEF SRR!End
<1>5. ASSUME Frees
      PROVE  SRR!Gone(a)
  <2>1. /\ mode = "destroy" /\ mode' = "user" /\ a \in Tasks /\ ~sp[a]
        /\ UNCHANGED <<sp, req>> /\ Marking(lists') = mk
        /\ Inboxes(lists') = Inboxes(lists) /\ Inboxes(lists)[a] = <<>>
    BY <1>5, StateFacts DEF Frees, After
  <2>2. StateNow(a) = "ending" /\ StateThen(a) = "none"
    BY <2>1 DEF StateNow, StateThen, AsState
  <2>3. \A u \in Tasks \ {a} : StateThen(u) = StateNow(u)
    BY <2>1 DEF StateNow, StateThen, AsState
  <2> HIDE DEF a
  <2>4. A[a] = "ending" /\ B = [A EXCEPT ![a] = "none"]
    BY <2>1, <2>2, <2>3
  <2> QED
    BY <2>1, <2>4, AbstractView DEF SRR!Gone
<1>6. ASSUME Releases
      PROVE  SRR!Release(a)
  <2> DEFINE box == Inboxes(lists)[a]
             s == Head(box)
  <2>1. /\ mode = "destroy" /\ mode' = "destroy" /\ a \in Tasks /\ a' = a
        /\ box # <<>> /\ s \in Tasks \ {a} /\ sp[s] /\ mk[s] = NULL
        /\ sp' = sp /\ Marking(lists') = mk
        /\ req' = [req EXCEPT ![s] = NoReq] /\ NoReq.call = "none"
        /\ req \in [Tasks -> Requests]
        /\ Inboxes(lists') = [Inboxes(lists) EXCEPT ![a] = <<>>]
        /\ NULL \notin Marks /\ RECV_BLOCKED \in Marks
        /\ RPLY_BLOCKED \in Marks
    BY <1>6, StateFacts DEF Releases, Flushes, NoReq, Marks
  <2> HIDE DEF s, box
  <2>2. StateNow(a) = "ending" /\ StateThen(s) = "running"
    BY <2>1 DEF StateNow, StateThen, AsState
  <2>3. \A u \in Tasks \ {s} : StateThen(u) = StateNow(u)
    BY <2>1 DEF StateNow, StateThen, AsState
  <2> HIDE DEF a
  <2>4. A[a] = "ending" /\ B = [A EXCEPT ![s] = "running"]
    BY <2>1, <2>2, <2>3
  <2> QED
    BY <2>1, <2>4, AbstractView DEF SRR!Release, s, box
<1>7. a \in Tasks
  BY DEF TypeOK
<1> QED
  BY <1>1, <1>2, <1>3, <1>4, <1>5, <1>6, <1>7 DEF SRR!ANext

(* Receive: the task that the kernel works for waits, takes the oldest     *)
(* message or refuses it.                                                  *)
LEMMA ReceiveSteps ==
  ASSUME TypeOK, QueueInv, NEW r \in Tasks, NEW rq, Receives(r, rq)
  PROVE  SRR!Wait(r) \/ SRR!Take(r) \/ SRR!Refuse(r)
<1> DEFINE A == [t \in Tasks |-> StateNow(t)]
           B == [t \in Tasks |-> StateThen(t)]
           mk == Marking(lists)
           box == Inboxes(lists)[r]
           s == Head(box)
<1>1. /\ (sp[r] /\ mk[r] = NULL) \/ mode = "recv"
      /\ mk \in [Tasks -> Marks \cup {NULL}]
      /\ \A t \in Tasks : ~sp[t] => req[t].call = "none"
      /\ \A t \in Tasks : mk[t] = RECV_BLOCKED => req[t].call = "recv"
      /\ rq \in [Tasks -> Requests] /\ rq[r].call = "recv"
      /\ \A t \in Tasks \ {r} : rq[t] = req[t]
      /\ (mode = "user" /\ r = task_active /\ req[r].call = "none")
           \/ (mode = "recv" /\ r = callee)
      /\ sp[r] /\ sp' = sp
      /\ NULL \notin Marks /\ RECV_BLOCKED \in Marks
      /\ RPLY_BLOCKED \in Marks /\ RECV_BLOCKED # RPLY_BLOCKED
      /\ NoReq.call = "none"
  BY StateFacts DEF Receives, Marks, NoReq
<1>2. A[r] \in {"running", "receiving"}
  BY <1>1 DEF StateNow, AsState
<1> HIDE DEF mk, box, s
<1>3. ASSUME Blocks(lists, rq, r)
      PROVE  SRR!Wait(r)
  <2>1. /\ box = <<>> /\ req' = rq /\ mode' = "user"
        /\ Marking(lists') = [mk EXCEPT ![r] = RECV_BLOCKED]
        /\ Inboxes(lists') = Inboxes(lists)
    BY <1>3 DEF Blocks, After, mk, box
  <2>2. StateThen(r) = "waiting"
    BY <1>1, <2>1 DEF StateThen, AsState
  <2>3. \A u \in Tasks \ {r} : StateThen(u) = StateNow(u)
    BY <1>1, <2>1 DEF StateNow, StateThen, AsState, mk
  <2>4. B = [A EXCEPT ![r] = "waiting"]
    BY <2>2, <2>3
  <2> QED
    BY <1>2, <2>1, <2>4, AbstractView DEF SRR!Wait, box
<1>4. ASSUME Accepts(lists, rq, r)
      PROVE  SRR!Take(r)
  <2>1. /\ box # <<>> /\ s \in Tasks \ {r} /\ rq[s].call = "send"
        /\ req' = [rq EXCEPT ![r] = NoReq] /\ mode' = "user"
        /\ Marking(lists') = [[mk EXCEPT ![s] = RPLY_BLOCKED]
                                EXCEPT ![r] = NULL]
        /\ Inboxes(lists') = [Inboxes(lists) EXCEPT ![r] = Tail(box)]
    BY <1>4 DEF Accepts, After, mk, box, s
  <2>2. StateThen(r) = "running" /\ StateThen(s) = "answering"
    <3>1. sp[s]
      BY <1>1, <2>1
    <3> QED
      BY <1>1, <2>1, <3>1 DEF StateThen, AsState
  <2>3. \A u \in Tasks \ {r, s} : StateThen(u) = StateNow(u)
    BY <1>1, <2>1 DEF StateNow, StateThen, AsState, mk
  <2>4. B = [A EXCEPT ![s] = "answering", ![r] = "running"]
    BY <2>1, <2>2, <2>3
  <2> QED
    BY <1>2, <2>1, <2>4, AbstractView DEF SRR!Take, box, s
<1>5. ASSUME Rejects(lists, rq, r)
      PROVE  SRR!Refuse(r)
  <2>1. /\ box # <<>> /\ s \in Tasks \ {r} /\ rq[s].call = "send"
        /\ sp[s] /\ mk[s] = NULL
        /\ req' = [rq EXCEPT ![s] = NoReq]
        /\ mode' = "recv" /\ callee' = r
        /\ Marking(lists') = mk
        /\ Inboxes(lists') = [Inboxes(lists) EXCEPT ![r] = Tail(box)]
    BY <1>5 DEF Rejects, mk, box, s
  <2>2. StateThen(r) = "receiving" /\ StateThen(s) = "running"
    BY <1>1, <2>1 DEF StateThen, AsState
  <2>3. \A u \in Tasks \ {r, s} : StateThen(u) = StateNow(u)
    BY <1>1, <2>1 DEF StateNow, StateThen, AsState, mk
  <2>4. B = [A EXCEPT ![s] = "running", ![r] = "receiving"]
    BY <2>1, <2>2, <2>3
  <2> QED
    BY <1>2, <2>1, <2>4, AbstractView DEF SRR!Refuse, box, s
<1> QED
  BY <1>3, <1>4, <1>5 DEF Receives, Received

(* Send: the caller waits in the receiver's inbox, or the receiver was     *)
(* waiting and takes or refuses the message at once.                       *)
LEMMA SendSteps ==
  ASSUME TypeOK, QueueInv, CalleeOK, NoLostWakeup,
         NEW r \in Tasks, NEW rq, NEW n, Sends(n, rq, r)
  PROVE  \E s \in Tasks : SRR!Post(s, r) \/ SRR!Hand(s, r)
<1> DEFINE A == [t \in Tasks |-> StateNow(t)]
           B == [t \in Tasks |-> StateThen(t)]
           mk == Marking(lists)
           a == task_active
<1>1. /\ mode = "user" /\ a \in Tasks /\ sp[a] /\ mk[a] = NULL
      /\ req[a].call = "none"
      /\ mk \in [Tasks -> Marks \cup {NULL}]
      /\ \A t \in Tasks : mk[t] = RECV_BLOCKED => req[t].call = "recv"
      /\ rq \in [Tasks -> Requests] /\ rq[a].call = "send"
      /\ \A t \in Tasks \ {a} : rq[t] = req[t]
      /\ r # a /\ sp[r] /\ sp' = sp
      /\ NULL \notin Marks /\ RECV_BLOCKED \in Marks
      /\ RPLY_BLOCKED \in Marks /\ RECV_BLOCKED # RPLY_BLOCKED
      /\ NoReq.call = "none"
  BY StateFacts DEF Sends, Sent, Marks, NoReq
<1>2. /\ Marking(n) = mk
      /\ Inboxes(n) = [Inboxes(lists) EXCEPT ![r] = Append(@, a)]
  BY DEF Sends, Sent
<1>3. A[a] = "running"
  BY <1>1 DEF StateNow, AsState
<1>4. \A t \in Tasks : Inboxes(lists)[t] \in Seq(Tasks)
  BY <1>1, PlaceIds DEF Inboxes, QueueInv, Layout
<1>5. Inboxes(lists) = [t \in Tasks |-> Inboxes(lists)[t]]
  BY DEF Inboxes
<1> HIDE DEF mk, a
<1>6. ASSUME mk[r] # RECV_BLOCKED, Queued(rq, r)
      PROVE  SRR!Post(a, r)
  <2>1. /\ req' = rq /\ mode' = "user" /\ Marking(lists') = mk
        /\ Inboxes(lists') = [Inboxes(lists) EXCEPT ![r] = Append(@, a)]
    BY <1>6 DEF Queued, After, mk, a
  <2>2. A[r] \notin {"none", "waiting", "ending"}
    BY <1>1, <1>6 DEF StateNow, AsState, mk
  <2>3. StateThen(a) = "sending"
    BY <1>1, <2>1 DEF StateThen, AsState
  <2>4. \A u \in Tasks \ {a} : StateThen(u) = StateNow(u)
    BY <1>1, <2>1 DEF StateNow, StateThen, AsState, mk
  <2>5. B = [A EXCEPT ![a] = "sending"]
    BY <1>1, <2>3, <2>4
  <2> QED
    BY <1>1, <1>3, <2>1, <2>2, <2>5, AbstractView DEF SRR!Post
<1>7. ASSUME mk[r] = RECV_BLOCKED, Received(n, rq, r)
      PROVE  SRR!Hand(a, r)
  <2> DEFINE box == Inboxes(n)[r]
  <2>1. Inboxes(lists)[r] = <<>>
    <3>1. lists.next[r] = RECV_BLOCKED /\ r # callee
      BY <1>1, <1>7, TaskFacts DEF mk, Marking, CalleeOK
    <3>2. lists.head[RecvQ(r)] = NULL
      BY <3>1 DEF NoLostWakeup
    <3>3. Layout(lists, Here) /\ RecvQ(r) \in Queues
      BY <1>1, PlaceIds DEF QueueInv
    <3> QED
      BY <3>2, <3>3, HeadLayout DEF Inboxes
  <2>2. box = <<a>> /\ Head(box) = a /\ box # <<>> /\ Tail(box) = <<>>
    <3>1. box = Append(<<>>, a)
      BY <1>2, <1>5, <2>1
    <3> QED
      BY <3>1
  <2>3. [Inboxes(n) EXCEPT ![r] = Tail(box)] = Inboxes(lists)
    BY <1>2, <1>5, <2>1, <2>2
  <2>4. A[r] = "waiting"
    BY <1>1, <1>7 DEF StateNow, AsState, mk
  <2> HIDE DEF box
  <2>5. CASE Accepts(n, rq, r)
    <3>1. /\ req' = [rq EXCEPT ![r] = NoReq] /\ mode' = "user"
          /\ Marking(lists') = [[mk EXCEPT ![a] = RPLY_BLOCKED]
                                  EXCEPT ![r] = NULL]
          /\ Inboxes(lists') = Inboxes(lists)
      BY <1>2, <2>2, <2>3, <2>5 DEF Accepts, After, box
    <3>2. StateThen(a) = "answering" /\ StateThen(r) = "running"
      BY <1>1, <3>1 DEF StateThen, AsState
    <3>3. \A u \in Tasks \ {a, r} : StateThen(u) = StateNow(u)
      BY <1>1, <3>1 DEF StateNow, StateThen, AsState, mk
    <3>4. B = [A EXCEPT ![a] = "answering", ![r] = "running"]
      BY <1>1, <3>2, <3>3
    <3> QED
      BY <1>3, <2>4, <3>1, <3>4, AbstractView DEF SRR!Hand
  <2>6. CASE Rejects(n, rq, r)
    <3>1. /\ req' = [rq EXCEPT ![a] = NoReq]
          /\ mode' = "recv" /\ callee' = r /\ Marking(lists') = mk
          /\ Inboxes(lists') = Inboxes(lists)
      BY <1>2, <2>2, <2>3, <2>6 DEF Rejects, box
    <3>2. StateThen(a) = "running" /\ StateThen(r) = "receiving"
      BY <1>1, <3>1 DEF StateThen, AsState
    <3>3. \A u \in Tasks \ {r} : StateThen(u) = StateNow(u)
      BY <1>1, <1>3, <3>1, <3>2 DEF StateNow, StateThen, AsState, mk
    <3>4. B = [A EXCEPT ![r] = "receiving"]
      BY <1>1, <3>2, <3>3
    <3> QED
      BY <1>3, <2>4, <3>1, <3>4, AbstractView DEF SRR!Hand
  <2>7. ~Blocks(n, rq, r)
    BY <2>2 DEF Blocks, box
  <2> QED
    BY <1>7, <2>5, <2>6, <2>7 DEF Received
<1> QED
  BY <1>1, <1>6, <1>7 DEF Sends, Sent, mk

(* Every step of the kernel is one of message passing, or none.            *)
LEMMA StepsAreAbstract ==
  ASSUME TypeOK, QueueInv, CalleeOK, NoLostWakeup, [Next]_vars
  PROVE  [SRR!ANext]_(SRR!avars)
<1>1. CASE UNCHANGED vars
  BY <1>1 DEF vars, SRR!avars, StateOf, Queue
<1>2. CASE Effects
  <2>1. ASSUME NEW r \in Tasks, NEW rq, Receives(r, rq)
        PROVE  SRR!ANext
    BY <2>1, ReceiveSteps DEF SRR!ANext
  <2>2. ASSUME NEW r \in Tasks, NEW rq, NEW n, Sends(n, rq, r)
        PROVE  SRR!ANext
    BY <2>2, SendSteps DEF SRR!ANext
  <2> QED
    BY <1>2, <2>1, <2>2, SimpleSteps DEF Effects
<1> QED
  BY <1>1, <1>2, QueueStep

(* What tasks see of the kernel is message passing as SendReceiveReply     *)
(* specifies it.                                                           *)
THEOREM ImplementsMessagePassing == Spec => ImplementsSendReceiveReply
<1>1. Init => TypeOK /\ QueueInv /\ CalleeOK /\ NoLostWakeup
  BY InitTyped, InitQueueInv, InitAwake
<1>2. TypeOK /\ QueueInv /\ CalleeOK /\ NoLostWakeup /\ [Next]_vars
        => (TypeOK /\ QueueInv /\ CalleeOK /\ NoLostWakeup)'
  BY NextTyped, QueueStep, WakeupStep DEF WakeupInv
<1>3. TypeOK /\ QueueInv /\ CalleeOK /\ NoLostWakeup /\ [Next]_vars
        => [SRR!ANext]_(SRR!avars)
  BY StepsAreAbstract
<1> QED
  BY <1>1, <1>2, <1>3, StartsAbstract, PTL
  DEF Spec, ImplementsSendReceiveReply, SRR!ASpec

=============================================================================

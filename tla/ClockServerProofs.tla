------------------------- MODULE ClockServerProofs -------------------------
(***************************************************************************)
(* The clock server, for any clients, delays and heap.                     *)
(*                                                                         *)
(* The server loses no tick (TicksAreCounted) and no caller                *)
(* (CallersAreKnown); and as long as no deadline passes INT_MAX, nobody    *)
(* sleeps past his time (NobodySleepsPast) and nobody is woken before it   *)
(* (NobodyIsWokenEarly).                                                   *)
(***************************************************************************)
EXTENDS ClockServer, PriorityQueueProofs, SequenceTheorems

-----------------------------------------------------------------------------
(* The queue of the clock server is a heap of values that are different.   *)

Used(h, n) == {h[i] : i \in 0 .. n - 1}

Distinct(h, n) == \A i, j \in 0 .. n - 1 : h[i].val = h[j].val => i = j

IsQueue(pq) == IsHeap(pq) /\ Distinct(pq.heap, pq.count)

LEMMA SameIsDistinct ==
  ASSUME NEW h, NEW g, NEW n, SameNodes(h, g, n), Distinct(g, n)
  PROVE  Distinct(h, n) /\ Used(h, n) = Used(g, n)
<1> DEFINE D == 0 .. n - 1
<1>1. PICK p \in [D -> D] :
        /\ \A i, j \in D : p[i] = p[j] => i = j
        /\ \A j \in D : \E i \in D : p[i] = j
        /\ \A i \in D : h[i] = g[p[i]]
  BY DEF SameNodes
<1>2. \A i, j \in D : g[i].val = g[j].val => i = j
  BY DEF Distinct
<1>3. (\A i, j \in D : h[i].val = h[j].val => i = j) => Distinct(h, n)
  BY DEF Distinct
<1>4. Used(h, n) = {h[i] : i \in D} /\ Used(g, n) = {g[i] : i \in D}
  BY DEF Used
<1> HIDE DEF D
<1>5. \A i, j \in D : h[i].val = h[j].val => i = j
  BY <1>1, <1>2
<1>6. {h[i] : i \in D} = {g[i] : i \in D}
  BY <1>1
<1> QED BY <1>3, <1>4, <1>5, <1>6

LEMMA QueueIs ==
  ASSUME NEW pq, IsQueue(pq)
  PROVE  /\ pq.count \in Nat /\ pq.count <= SIZE
         /\ pq.heap \in Heaps /\ Ordered(pq.heap)
         /\ \A i \in 0 .. pq.count - 1 : i \in Slots /\ pq.heap[i] \in Entries
         /\ \A i \in Slots : ~(i < pq.count) => pq.heap[i] = Free
         /\ \A i \in Slots :
              pq.heap[i].key \in Int /\ pq.heap[i].key <= INT_MAX
         /\ \A i, j \in 0 .. pq.count - 1 :
              pq.heap[i].val = pq.heap[j].val => i = j
BY HeapIs DEF IsQueue, Distinct

LEMMA InitIsQueue == IsQueue(pq_init)
<1>1. pq_init.count = 0
  BY DEF pq_init
<1> QED BY <1>1, InitIsHeap DEF IsQueue, Distinct

(* pq_add of a value that is not in the queue.                             *)
LEMMA QueueAdds ==
  ASSUME NEW pq, IsQueue(pq), pq.count < SIZE,
         NEW key \in Int, key <= INT_MAX, NEW val \in VALUES,
         \A i \in 0 .. pq.count - 1 : pq.heap[i].val # val
  PROVE  LET new == pq_add(pq, key, val)
         IN  /\ IsQueue(new)
             /\ new.count = pq.count + 1
             /\ Used(new.heap, new.count) =
                  Used(pq.heap, pq.count) \cup {[key |-> key, val |-> val]}
<1> DEFINE n == pq.count
           node == [key |-> key, val |-> val]
           g == [pq.heap EXCEPT ![n] = node]
           new == pq_add(pq, key, val)
<1>1. IsHeap(pq) /\ Distinct(pq.heap, n) /\ pq.heap \in Heaps
  BY QueueIs DEF IsQueue
<1>2. IsHeap(new) /\ new.count = n + 1 /\ SameNodes(new.heap, g, n + 1)
  <2> HIDE DEF new
  <2>1. /\ IsHeap(pq_add(pq, key, val))
        /\ pq_add(pq, key, val).count = n + 1
        /\ SameNodes(pq_add(pq, key, val).heap, g,
                     pq_add(pq, key, val).count)
    BY <1>1, HeapAdds
  <2> QED BY <2>1 DEF new
<1>3. /\ 0 .. (n + 1) - 1 = (0 .. n - 1) \cup {n} /\ n \in Slots
      /\ \A i \in 0 .. n - 1 : i \in Slots /\ i # n
  BY <1>1, HeapIs, SizeAssumption DEF Slots
<1>4. g[n] = node /\ \A i \in 0 .. n - 1 : g[i] = pq.heap[i]
  BY <1>1, <1>3 DEF Heaps
<1> HIDE DEF g, new
<1>5. node.val = val
  OBVIOUS
<1> HIDE DEF node
<1>6. \A i \in 0 .. n - 1 : g[i].val # val
  BY <1>4
<1>7. Distinct(g, n + 1)
  BY <1>1, <1>3, <1>4, <1>5, <1>6 DEF Distinct
<1>8. Used(g, n + 1) = Used(pq.heap, n) \cup {node}
  BY <1>3, <1>4 DEF Used
<1> QED
  BY <1>2, <1>7, <1>8, SameIsDistinct DEF IsQueue, new, node

LEMMA QueueDeletes ==
  ASSUME NEW pq, IsQueue(pq), pq.count # 0
  PROVE  LET new == pq_delete(pq)
         IN  /\ IsQueue(new)
             /\ new.count = pq.count - 1
             /\ Used(new.heap, new.count) =
                  Used(pq.heap, pq.count) \ {pq.heap[0]}
             /\ pq.heap[0] \in Used(pq.heap, pq.count)
             /\ \A i \in Slots : pq.heap[0].key <= pq.heap[i].key
<1> DEFINE n == pq.count - 1
           g == [pq.heap EXCEPT ![0] = pq.heap[n]]
           new == pq_delete(pq)
<1>1. /\ IsHeap(pq) /\ pq.heap \in Heaps
      /\ \A i, j \in 0 .. pq.count - 1 :
           pq.heap[i].val = pq.heap[j].val => i = j
  BY QueueIs DEF IsQueue
<1>2. /\ IsHeap(new) /\ new.count = n /\ SameNodes(new.heap, g, n)
      /\ \A i \in Slots : pq.heap[0].key <= pq.heap[i].key
  <2> HIDE DEF new
  <2>1. /\ IsHeap(pq_delete(pq)) /\ pq_delete(pq).count = n
        /\ SameNodes(pq_delete(pq).heap, g, pq_delete(pq).count)
        /\ \A i \in Slots : pq.heap[0].key <= pq.heap[i].key
    BY <1>1, HeapDeletes
  <2> QED BY <2>1 DEF new
<1> DEFINE D == 0 .. n - 1
           E == 0 .. pq.count - 1
<1>3. /\ E = D \cup {n} /\ n \notin D /\ E \subseteq Slots
      /\ 0 \in E
      /\ n # 0 => 0 \in D
  BY <1>1, HeapIs, SizeAssumption DEF Slots
<1>4. \A i \in D : g[i] = IF i = 0 THEN pq.heap[n] ELSE pq.heap[i]
  BY <1>1, <1>3 DEF Heaps
<1>5. /\ Used(g, n) = {g[i] : i \in D}
      /\ Used(pq.heap, pq.count) = {pq.heap[i] : i \in E}
      /\ (\A i, j \in D : g[i].val = g[j].val => i = j) => Distinct(g, n)
      /\ \A i, j \in E : pq.heap[i].val = pq.heap[j].val => i = j
  BY <1>1 DEF Used, Distinct
<1> HIDE DEF g, new, n, D, E
<1>6. \A i, j \in D : g[i].val = g[j].val => i = j
  BY <1>3, <1>4, <1>5
<1>7. \A i \in E : i # 0 => pq.heap[i] # pq.heap[0]
  BY <1>3, <1>5
<1>8. {g[i] : i \in D} = {pq.heap[i] : i \in E} \ {pq.heap[0]}
  <2>1. ASSUME NEW i \in D
        PROVE  g[i] \in {pq.heap[k] : k \in E} \ {pq.heap[0]}
    BY <1>3, <1>4, <1>7
  <2>2. ASSUME NEW k \in E, k # 0
        PROVE  pq.heap[k] \in {g[i] : i \in D}
    <3>1. CASE k = n
      BY <1>3, <1>4, <2>2, <3>1
    <3>2. CASE k # n
      BY <1>3, <1>4, <2>2, <3>2
    <3> QED BY <3>1, <3>2
  <2> QED BY <2>1, <2>2
<1>9. Distinct(new.heap, n) /\ Used(new.heap, n) = Used(g, n)
  BY <1>2, <1>5, <1>6, SameIsDistinct
<1> QED
  BY <1>2, <1>3, <1>5, <1>8, <1>9 DEF IsQueue, new, n

-----------------------------------------------------------------------------
(* The time.                                                               *)

Requests == [kind : {"notify", "delay", "until", "time"},
             from : Clients \cup {NOTIFIER}, arg : Int]

Notifies(i) == inbox[i].kind = "notify"

(* One message at most tells of a tick, and only while its notifier waits  *)
(* for the reply.                                                          *)
OneNotice ==
  \A i \in DOMAIN inbox :
    Notifies(i) => /\ notifier = "send"
                   /\ \A j \in DOMAIN inbox : Notifies(j) => j = i

TickInv ==
  /\ ticks \in 0 .. MAX_TIME
  /\ inbox \in Seq(Requests)
  /\ OneNotice
  /\ NoTickIsLost

(* A time that the timer has reached is no overflow.                       *)
LEMMA WrapKeeps ==
  ASSUME NEW n \in Nat, n <= INT_MAX
  PROVE  Wrap(n) = n
<1> DEFINE m == 2 * (INT_MAX + 1)
           k == n - INT_MIN
<1>1. m \in Nat \ {0} /\ k \in Nat /\ k < m
  BY TimeAssumption DEF INT_MIN
<1>2. \A a \in Nat, b \in Nat \ {0} : a < b => a % b = a
  BY Z3
<1>3. k % m = k
  <2> HIDE DEF k, m
  <2> QED BY <1>1, <1>2
<1> QED BY <1>3, TimeAssumption DEF Wrap, INT_MIN

(* What an append of a request does to the notices.                        *)
LEMMA CallsAreNoNotices ==
  ASSUME TickInv, NEW c \in Clients, NEW kind \in {"delay", "until", "time"},
         NEW arg \in Int, Call(c, kind, arg)
  PROVE  TickInv'
<1> DEFINE r == Request(kind, c, arg)
<1>1. r \in Requests /\ r.kind # "notify"
  BY DEF Request, Requests
<1>2. inbox' = Append(inbox, r) /\ UNCHANGED <<ticks, notifier, time>>
  BY DEF Call
<1> HIDE DEF r
<1>3. /\ inbox' \in Seq(Requests)
      /\ \A i \in DOMAIN inbox' :
           inbox'[i].kind = "notify" =>
             i \in DOMAIN inbox /\ inbox'[i] = inbox[i]
  BY <1>1, <1>2 DEF TickInv
<1>4. OneNotice'
  BY <1>2, <1>3 DEF TickInv, OneNotice, Notifies
<1> QED BY <1>2, <1>3, <1>4 DEF TickInv, NoTickIsLost

(* The notifier brings its tick, and has brought no other.                 *)
LEMMA NoticeIsOne ==
  ASSUME TickInv, Notify
  PROVE  TickInv'
<1> DEFINE r == Request("notify", NOTIFIER, 0)
<1>1. r \in Requests
  BY DEF Request, Requests
<1>2. /\ inbox' = Append(inbox, r) /\ UNCHANGED <<ticks, time>>
      /\ notifier = "woken" /\ notifier' = "send"
  BY DEF Notify
<1> HIDE DEF r
<1>3. \A i \in DOMAIN inbox : ~Notifies(i)
  BY <1>2 DEF TickInv, OneNotice
<1>4. /\ inbox' \in Seq(Requests)
      /\ \A i \in DOMAIN inbox' :
           \/ i = Len(inbox) + 1
           \/ i \in DOMAIN inbox /\ inbox'[i] = inbox[i]
  <2>1. inbox \in Seq(Requests)
    BY DEF TickInv
  <2>2. /\ Append(inbox, r) \in Seq(Requests)
        /\ Len(Append(inbox, r)) = Len(inbox) + 1
        /\ \A i \in 1 .. Len(inbox) : Append(inbox, r)[i] = inbox[i]
    BY <1>1, <2>1, AppendProperties
  <2>3. ASSUME NEW i \in DOMAIN inbox'
        PROVE  \/ i = Len(inbox) + 1
               \/ i \in DOMAIN inbox /\ inbox'[i] = inbox[i]
    <3>1. i = Len(inbox) + 1 \/ i \in 1 .. Len(inbox)
      BY <1>2, <2>1, <2>2
    <3> QED BY <1>2, <2>1, <2>2, <3>1
  <2>4. inbox' \in Seq(Requests)
    BY <1>2, <2>2
  <2> QED BY <2>3, <2>4, Zenon
<1>5. OneNotice'
  BY <1>2, <1>3, <1>4 DEF OneNotice, Notifies
<1> QED BY <1>2, <1>4, <1>5 DEF TickInv, NoTickIsLost

(* A request that is received leaves the others as they were.              *)
LEMMA TailOfInbox ==
  ASSUME TickInv, inbox # <<>>, inbox' = Tail(inbox)
  PROVE  /\ inbox' \in Seq(Requests)
         /\ \A i \in DOMAIN inbox' :
              i + 1 \in DOMAIN inbox /\ i + 1 # 1 /\ inbox'[i] = inbox[i + 1]
<1>1. inbox \in Seq(Requests)
  BY DEF TickInv
<1>2. /\ Tail(inbox) \in Seq(Requests) /\ Len(Tail(inbox)) = Len(inbox) - 1
      /\ \A i \in 1 .. Len(Tail(inbox)) : Tail(inbox)[i] = inbox[i + 1]
  BY <1>1, HeadTailProperties
<1> QED BY <1>1, <1>2

(* The tick that the notifier waits with is the one that is counted.       *)
LEMMA NoticeIsCounted ==
  ASSUME TickInv, ReceiveNotify
  PROVE  TickInv'
<1>1. /\ inbox # <<>> /\ inbox[1].kind = "notify" /\ inbox' = Tail(inbox)
      /\ notifier' = "awaiting" /\ time' = Wrap(time + 1) /\ ticks' = ticks
  BY DEF ReceiveNotify, Receive, Received, TickInv
<1>2. notifier = "send" /\ \A j \in DOMAIN inbox : Notifies(j) => j = 1
  <2>1. 1 \in DOMAIN inbox
    BY <1>1 DEF TickInv
  <2> QED BY <1>1, <2>1 DEF TickInv, OneNotice, Notifies
<1>3. OneNotice'
  BY <1>1, <1>2, TailOfInbox DEF OneNotice, Notifies
<1>4. time' = ticks
  <2>1. time + 1 = ticks /\ ticks \in Nat /\ ticks <= INT_MAX
    BY <1>2, TimeAssumption DEF TickInv, NoTickIsLost
  <2> QED BY <1>1, <2>1, WrapKeeps
<1> QED BY <1>1, <1>3, <1>4, TailOfInbox DEF TickInv, NoTickIsLost

(* Another request that is received has nothing to do with ticks.          *)
LEMMA OthersReceived ==
  ASSUME TickInv, inbox # <<>>, inbox' = Tail(inbox),
         UNCHANGED <<ticks, notifier, time>>
  PROVE  TickInv'
<1>1. OneNotice'
  BY TailOfInbox DEF TickInv, OneNotice, Notifies
<1> QED BY <1>1, TailOfInbox DEF TickInv, NoTickIsLost

(* The steps that leave the time and the inbox alone.                      *)
LEMMA TimeStands ==
  ASSUME TickInv, UNCHANGED <<ticks, notifier, inbox, time>>
  PROVE  TickInv'
BY DEF TickInv, OneNotice, Notifies, NoTickIsLost

LEMMA TickIsPending ==
  ASSUME TickInv, Tick
  PROVE  TickInv'
<1>1. OneNotice'
  BY DEF Tick, TickInv, OneNotice, Notifies
<1> QED BY <1>1, TimeAssumption DEF Tick, TickInv, NoTickIsLost

LEMMA TickInvariant == Spec => []TickInv
<1>1. Init => TickInv
  BY TimeAssumption DEF Init, TickInv, OneNotice, NoTickIsLost
<1>2. TickInv /\ [Next]_vars => TickInv'
  <2> SUFFICES ASSUME TickInv, [Next]_vars PROVE TickInv'
    OBVIOUS
  <2>1. CASE Tick
    BY <2>1, TickIsPending
  <2>2. CASE MissedTick
    BY <2>2, TimeStands DEF MissedTick, Abort
  <2>3. CASE Notify
    BY <2>3, NoticeIsOne
  <2>4. CASE Server
    <3>1. CASE ReceiveNotify
      BY <3>1, NoticeIsCounted
    <3>2. CASE WakeNext
      BY <3>2, TimeStands DEF WakeNext, Abort
    <3>3. CASE WokeAll
      BY <3>3, TimeStands DEF WokeAll
    <3>4. CASE ReceiveDelay
      BY <3>4, OthersReceived DEF ReceiveDelay, Receive
    <3>5. CASE ReceiveTime
      BY <3>5, OthersReceived DEF ReceiveTime, Receive
    <3>6. CASE ReceiveDelayUntil
      BY <3>6, OthersReceived DEF ReceiveDelayUntil, Receive
    <3> QED BY <2>4, <3>1, <3>2, <3>3, <3>4, <3>5, <3>6 DEF Server
  <2>5. ASSUME NEW c \in Clients, Client(c)
        PROVE  TickInv'
    <3>1. CASE Time(c)
      BY <3>1, CallsAreNoNotices DEF Time
    <3>2. ASSUME NEW n \in TICKS, Delay(c, n)
          PROVE  TickInv'
      BY <3>2, CallsAreNoNotices, TimeStands, TimeAssumption DEF Delay
    <3>3. ASSUME NEW n \in TICKS, DelayUntil(c, n)
          PROVE  TickInv'
      BY <3>3, CallsAreNoNotices, TimeStands, TimeAssumption
         DEF DelayUntil, Abort
    <3> QED BY <2>5, <3>1, <3>2, <3>3 DEF Client
  <2>6. CASE UNCHANGED vars
    BY <2>6, TimeStands DEF vars
  <2> QED BY <2>1, <2>2, <2>3, <2>4, <2>5, <2>6 DEF Next
<1> QED BY <1>1, <1>2, PTL DEF Spec

(***************************************************************************)
(* The server's time is the timer's, but for the tick that the notifier is *)
(* bringing: what irq_clock signals is counted once by clock_server.       *)
(***************************************************************************)
THEOREM TicksAreCounted == Spec => []NoTickIsLost
<1>1. TickInv => NoTickIsLost
  BY DEF TickInv
<1> QED BY <1>1, TickInvariant, PTL

-----------------------------------------------------------------------------
(* The callers.                                                            *)

Calls == [kind : {"none", "delay", "until", "time"}, arg : Int, since : Int]

(* Requests in the inbox are from different tasks, and only the notifier   *)
(* sends notices.                                                          *)
InboxOK ==
  /\ inbox \in Seq(Requests)
  /\ \A i, j \in DOMAIN inbox : inbox[i].from = inbox[j].from => i = j
  /\ \A i \in DOMAIN inbox : Notifies(i) <=> inbox[i].from = NOTIFIER
  /\ \A i \in DOMAIN inbox : inbox[i].arg <= INT_MAX

Blocked == {c \in Clients : call[c] # NoCall}

CallInv ==
  /\ TickInv
  /\ InboxOK
  /\ IsQueue(q)
  /\ call \in [Clients -> Calls]
  /\ Blocked = (Sleepers \cup Senders) \ {NOTIFIER}
  /\ Sleepers \cap Senders = {}

SleepersOf(pq) == {e.val : e \in Used(pq.heap, pq.count)}

LEMMA SleepersAre ==
  ASSUME IsQueue(q)
  PROVE  /\ Sleepers = SleepersOf(q)
         /\ Sleepers \subseteq Clients
<1>1. Sleepers = SleepersOf(q)
  BY DEF Sleepers, SleepersOf, Used
<1>2. \A i \in 0 .. q.count - 1 : q.heap[i].val \in VALUES
  BY QueueIs DEF Entries
<1> QED BY <1>1, <1>2, ClientsAssumption DEF Sleepers

(* The values in use are as many as the nodes.                             *)
LEMMA SleepersAreCounted ==
  ASSUME IsQueue(q)
  PROVE  IsFiniteSet(Sleepers) /\ Cardinality(Sleepers) = q.count
<1> DEFINE n == q.count
           f == [i \in 0 .. n - 1 |-> q.heap[i].val]
<1>1. n \in Nat /\ \A i, j \in 0 .. n - 1 : f[i] = f[j] => i = j
  BY QueueIs
<1>2. /\ f \in [0 .. n - 1 -> Sleepers]
      /\ \A v \in Sleepers : \E i \in 0 .. n - 1 : f[i] = v
  BY DEF Sleepers
<1>3. IsFiniteSet(0 .. n - 1) /\ Cardinality(0 .. n - 1) = n
  <2>1. 0 \in Int /\ n - 1 \in Int
    BY <1>1
  <2>2. /\ IsFiniteSet(0 .. n - 1)
        /\ Cardinality(0 .. n - 1) = IF 0 > n - 1 THEN 0 ELSE (n - 1) - 0 + 1
    BY <2>1, FS_Interval
  <2> QED BY <1>1, <2>2
<1> HIDE DEF f, n
<1>4. f \in Surjection(0 .. n - 1, Sleepers)
  BY <1>2 DEF Surjection
<1>5. f \in Injection(0 .. n - 1, Sleepers)
  BY <1>1, <1>2 DEF Injection, IsInjective
<1>6. /\ IsFiniteSet(Sleepers)
      /\ Cardinality(Sleepers) = Cardinality(0 .. n - 1)
  BY <1>3, <1>4, <1>5, FS_Surjection
<1> QED BY <1>3, <1>6 DEF n

(* So there is room for one who does not sleep.                            *)
LEMMA RoomForOneMore ==
  ASSUME IsQueue(q), NEW c \in Clients, c \notin Sleepers
  PROVE  q.count < SIZE
<1>1. IsFiniteSet(Sleepers) /\ Cardinality(Sleepers) = q.count
  BY SleepersAreCounted
<1>2. /\ IsFiniteSet(Sleepers \cup {c})
      /\ Cardinality(Sleepers \cup {c}) = q.count + 1
  BY <1>1, FS_AddElement
<1>3. Sleepers \cup {c} \in SUBSET Clients
  BY SleepersAre
<1>4. Cardinality(Sleepers \cup {c}) <= Cardinality(Clients)
  BY <1>3, ClientsAssumption, FS_Subset
<1>5. Cardinality(Clients) \in Nat
  BY ClientsAssumption, FS_CardinalityType
<1> QED
  BY <1>2, <1>4, <1>5, QueueIs, ClientsAssumption, SizeAssumption

(* The senders are as many as their requests.                              *)
LEMMA SendersAreCounted ==
  ASSUME InboxOK
  PROVE  Cardinality(Senders) = Len(inbox)
<1> DEFINE n == Len(inbox)
           f == [i \in 1 .. n |-> inbox[i].from]
<1>0. n \in Nat /\ DOMAIN inbox = 1 .. n
  BY LenProperties DEF InboxOK
<1>1. \A i, j \in 1 .. n : f[i] = f[j] => i = j
  BY <1>0 DEF InboxOK
<1>2. /\ f \in [1 .. n -> Senders]
      /\ \A v \in Senders : \E i \in 1 .. n : f[i] = v
  BY <1>0 DEF Senders
<1>3. IsFiniteSet(1 .. n) /\ Cardinality(1 .. n) = n
  <2>1. 1 \in Int /\ n \in Int
    BY <1>0
  <2>2. /\ IsFiniteSet(1 .. n)
        /\ Cardinality(1 .. n) = IF 1 > n THEN 0 ELSE n - 1 + 1
    BY <2>1, FS_Interval
  <2> QED BY <1>0, <2>2
<1> HIDE DEF f, n
<1>4. f \in Surjection(1 .. n, Senders)
  BY <1>2 DEF Surjection
<1>5. f \in Injection(1 .. n, Senders)
  BY <1>1, <1>2 DEF Injection, IsInjective
<1>6. Cardinality(Senders) = Cardinality(1 .. n)
  BY <1>3, <1>4, <1>5, FS_Surjection
<1> QED BY <1>3, <1>6 DEF n

(* A request arrives.                                                      *)
LEMMA InboxGrows ==
  ASSUME InboxOK, NEW r \in Requests, r.from \notin Senders,
         r.kind = "notify" <=> r.from = NOTIFIER, r.arg <= INT_MAX,
         inbox' = Append(inbox, r)
  PROVE  /\ InboxOK'
         /\ Senders' = Senders \cup {r.from}
         /\ DOMAIN inbox' = 1 .. Len(inbox) + 1 /\ inbox'[Len(inbox) + 1] = r
         /\ \A i \in DOMAIN inbox : i \in DOMAIN inbox' /\ inbox'[i] = inbox[i]
<1>1. inbox \in Seq(Requests) /\ Len(inbox) \in Nat
      /\ DOMAIN inbox = 1 .. Len(inbox)
  BY LenProperties DEF InboxOK
<1>2. /\ inbox' \in Seq(Requests)
      /\ DOMAIN inbox' = 1 .. Len(inbox) + 1
      /\ inbox'[Len(inbox) + 1] = r
      /\ \A i \in 1 .. Len(inbox) : inbox'[i] = inbox[i]
  BY <1>1, AppendProperties, LenProperties
<1>3. /\ 1 .. Len(inbox) + 1 = (1 .. Len(inbox)) \cup {Len(inbox) + 1}
      /\ Len(inbox) + 1 \notin 1 .. Len(inbox)
  BY <1>1
<1>4. \A i \in DOMAIN inbox : inbox[i].from # r.from
  BY DEF Senders
<1>5. \A i, j \in DOMAIN inbox' : inbox'[i].from = inbox'[j].from => i = j
  BY <1>1, <1>2, <1>3, <1>4 DEF InboxOK
<1>6. \A i \in DOMAIN inbox' : /\ inbox'[i].kind = "notify" <=>
                                    inbox'[i].from = NOTIFIER
                               /\ inbox'[i].arg <= INT_MAX
  BY <1>1, <1>2, <1>3 DEF InboxOK, Notifies
<1>7. Senders' = Senders \cup {r.from}
  BY <1>1, <1>2, <1>3 DEF Senders
<1>8. InboxOK'
  BY <1>2, <1>5, <1>6 DEF InboxOK, Notifies
<1> QED BY <1>1, <1>2, <1>3, <1>7, <1>8

(* A request is received.                                                  *)
LEMMA InboxShrinks ==
  ASSUME InboxOK, inbox # <<>>, inbox' = Tail(inbox)
  PROVE  /\ InboxOK'
         /\ Senders' = Senders \ {Received.from}
         /\ 1 \in DOMAIN inbox /\ Received = inbox[1] /\ Received \in Requests
         /\ Received.from \in Senders
         /\ \A i \in DOMAIN inbox' :
              i + 1 \in DOMAIN inbox /\ i + 1 # 1 /\ inbox'[i] = inbox[i + 1]
<1>1. /\ inbox \in Seq(Requests) /\ Len(inbox) \in Nat \ {0}
      /\ DOMAIN inbox = 1 .. Len(inbox)
      /\ Received = inbox[1]
      /\ inbox' \in Seq(Requests) /\ DOMAIN inbox' = 1 .. Len(inbox) - 1
      /\ \A i \in DOMAIN inbox' : inbox'[i] = inbox[i + 1]
  <2>1. inbox \in Seq(Requests)
    BY DEF InboxOK
  <2>2. Len(inbox) \in Nat /\ Len(inbox) # 0 /\ DOMAIN inbox = 1 .. Len(inbox)
    BY <2>1, LenProperties, EmptySeq
  <2>3. /\ Tail(inbox) \in Seq(Requests) /\ Len(Tail(inbox)) = Len(inbox) - 1
        /\ \A i \in 1 .. Len(Tail(inbox)) : Tail(inbox)[i] = inbox[i + 1]
        /\ Head(inbox) = inbox[1]
    BY <2>1, HeadTailProperties
  <2>4. DOMAIN Tail(inbox) = 1 .. Len(Tail(inbox))
    BY <2>3, LenProperties
  <2> QED BY <2>1, <2>2, <2>3, <2>4 DEF Received
<1>2. \A i \in DOMAIN inbox' :
        i + 1 \in DOMAIN inbox /\ i + 1 # 1 /\ inbox'[i] = inbox[i + 1]
  BY <1>1
<1>3. \A i \in DOMAIN inbox : i # 1 =>
        i - 1 \in DOMAIN inbox' /\ inbox'[i - 1] = inbox[i]
  BY <1>1
<1>4. 1 \in DOMAIN inbox /\ Received \in Requests /\ Received.from \in Senders
  <2>1. 1 \in DOMAIN inbox
    BY <1>1
  <2>2. \A i \in DOMAIN inbox : inbox[i] \in Requests
    BY <1>1, ElementOfSeq
  <2> QED BY <1>1, <2>1, <2>2 DEF Senders
<1>5. \A i, j \in DOMAIN inbox' : inbox'[i].from = inbox'[j].from => i = j
  <2> SUFFICES ASSUME NEW i \in DOMAIN inbox', NEW j \in DOMAIN inbox',
                      inbox'[i].from = inbox'[j].from
               PROVE  i = j
    OBVIOUS
  <2>1. i + 1 = j + 1
    BY <1>2 DEF InboxOK
  <2> QED BY <1>1, <2>1
<1>6. \A i \in DOMAIN inbox' : /\ inbox'[i].kind = "notify" <=>
                                    inbox'[i].from = NOTIFIER
                               /\ inbox'[i].arg <= INT_MAX
  BY <1>2 DEF InboxOK, Notifies
<1>7. \A i \in DOMAIN inbox : i # 1 => inbox[i].from # Received.from
  BY <1>1, <1>4 DEF InboxOK
<1>8. Senders' = Senders \ {Received.from}
  <2>1. Senders' = {inbox'[i].from : i \in DOMAIN inbox'}
    BY DEF Senders
  <2>2. \A v \in Senders' : v \in Senders \ {Received.from}
    BY <1>2, <1>7, <2>1 DEF Senders
  <2>3. ASSUME NEW v \in Senders, v # Received.from PROVE v \in Senders'
    <3>1. PICK i \in DOMAIN inbox : v = inbox[i].from
      BY DEF Senders
    <3>2. i - 1 \in DOMAIN inbox' /\ inbox'[i - 1] = inbox[i]
      BY <1>1, <1>3, <2>3, <3>1
    <3> QED BY <2>1, <3>1, <3>2
  <2>4. Received.from \notin Senders'
    BY <2>2
  <2> QED BY <2>2, <2>3, <2>4
<1>9. InboxOK'
  BY <1>1, <1>5, <1>6 DEF InboxOK, Notifies
<1> QED BY <1>1, <1>2, <1>4, <1>8, <1>9

(* What the two operations of the queue do to the sleepers.                *)
LEMMA SleeperIsAdded ==
  ASSUME IsQueue(q), NEW c \in Clients, c \notin Sleepers,
         NEW key \in Int, key <= INT_MAX, q' = pq_add(q, key, c)
  PROVE  /\ IsQueue(q)'
         /\ Used(q.heap, q.count)' =
              Used(q.heap, q.count) \cup {[key |-> key, val |-> c]}
         /\ Sleepers' = Sleepers \cup {c}
<1>1. q.count < SIZE
  BY RoomForOneMore
<1>2. \A i \in 0 .. q.count - 1 : q.heap[i].val # c
  BY DEF Sleepers
<1>3. c \in VALUES
  BY ClientsAssumption
<1> DEFINE new == pq_add(q, key, c)
<1>4. /\ IsQueue(new)
      /\ Used(new.heap, new.count) =
           Used(q.heap, q.count) \cup {[key |-> key, val |-> c]}
  BY <1>1, <1>2, <1>3, QueueAdds
<1> HIDE DEF new
<1>5. SleepersOf(new) = SleepersOf(q) \cup {c}
  <2>1. PICK node : node = [key |-> key, val |-> c]
    OBVIOUS
  <2>2. node.val = c
    BY <2>1
  <2>3. Used(new.heap, new.count) = Used(q.heap, q.count) \cup {node}
    BY <1>4, <2>1
  <2> QED BY <2>2, <2>3 DEF SleepersOf
<1>6. q' = new
  BY DEF new
<1>7. IsQueue(q') /\ Used(q'.heap, q'.count) =
           Used(q.heap, q.count) \cup {[key |-> key, val |-> c]}
  BY <1>4, <1>6
<1>8. Sleepers' = SleepersOf(q')
  BY DEF Sleepers, SleepersOf, Used
<1> QED BY <1>5, <1>6, <1>7, <1>8, SleepersAre

LEMMA SleeperIsWoken ==
  ASSUME IsQueue(q), q.count # 0, q' = pq_delete(q)
  PROVE  /\ IsQueue(q)'
         /\ Used(q.heap, q.count)' =
              Used(q.heap, q.count) \ {q.heap[0]}
         /\ q.heap[0] \in Used(q.heap, q.count)
         /\ q.heap[0].val \in Sleepers
         /\ Sleepers' = Sleepers \ {q.heap[0].val}
<1> DEFINE new == pq_delete(q)
<1>1. /\ IsQueue(new)
      /\ Used(new.heap, new.count) = Used(q.heap, q.count) \ {q.heap[0]}
      /\ q.heap[0] \in Used(q.heap, q.count)
  BY QueueDeletes
<1> HIDE DEF new
<1>2. \A d, e \in Used(q.heap, q.count) : d.val = e.val => d = e
  BY QueueIs DEF Used
<1>3. SleepersOf(new) = SleepersOf(q) \ {q.heap[0].val}
  BY <1>1, <1>2 DEF SleepersOf
<1>4. q' = new
  BY DEF new
<1>5. /\ IsQueue(q')
      /\ Used(q'.heap, q'.count) = Used(q.heap, q.count) \ {q.heap[0]}
  BY <1>1, <1>4
<1>6. Sleepers' = SleepersOf(q')
  BY DEF Sleepers, SleepersOf, Used
<1>7. q.heap[0].val \in SleepersOf(q)
  BY <1>1 DEF SleepersOf
<1> QED BY <1>1, <1>3, <1>4, <1>5, <1>6, <1>7, SleepersAre

(* A time fits in an int.                                                  *)
LEMMA WrapFits ==
  ASSUME NEW n \in Int
  PROVE  Wrap(n) \in Int /\ Wrap(n) <= INT_MAX
<1> DEFINE m == 2 * (INT_MAX + 1)
<1>1. m \in Nat \ {0} /\ n - INT_MIN \in Int
  BY TimeAssumption DEF INT_MIN
<1>2. \A a \in Int, b \in Nat \ {0} : a % b \in 0 .. b - 1
  BY Z3
<1>3. (n - INT_MIN) % m \in 0 .. m - 1
  <2> HIDE DEF m
  <2> QED BY <1>1, <1>2
<1>4. Wrap(n) = ((n - INT_MIN) % m) + INT_MIN
  BY DEF Wrap
<1>5. m - 1 + INT_MIN = INT_MAX /\ m \in Int /\ INT_MIN \in Int
  BY TimeAssumption DEF INT_MIN
<1> HIDE DEF m
<1> QED BY <1>3, <1>4, <1>5, TimeAssumption

-----------------------------------------------------------------------------
(* One lemma for each kind of step.                                        *)

(* Neither the inbox nor the queue nor the calls change.                   *)
LEMMA CallersStand ==
  ASSUME CallInv, TickInv', UNCHANGED <<inbox, q, call>>
  PROVE  CallInv'
<1>1. /\ InboxOK' /\ IsQueue(q)' /\ (call \in [Clients -> Calls])'
      /\ Blocked' = Blocked /\ Sleepers' = Sleepers /\ Senders' = Senders
  BY DEF CallInv, InboxOK, Notifies, Blocked, Sleepers, Senders, IsQueue
<1> QED BY <1>1 DEF CallInv

(* A client that calls was in no place and is in the inbox now.            *)
LEMMA CallerAsks ==
  ASSUME CallInv, TickInv', NEW c \in Clients,
         NEW kind \in {"delay", "until", "time"},
         NEW arg \in Int, arg <= INT_MAX, Call(c, kind, arg)
  PROVE  CallInv'
<1> DEFINE r == Request(kind, c, arg)
           made == [kind |-> kind, arg |-> arg, since |-> ticks]
<1>1. /\ r \in Requests /\ r.kind # "notify" /\ r.from = c /\ r.arg = arg
      /\ c # NOTIFIER
  BY ClientsAssumption DEF Request, Requests
<1>2. /\ inbox' = Append(inbox, r) /\ call[c] = NoCall
      /\ call' = [call EXCEPT ![c] = made] /\ q' = q
  BY DEF Call
<1>3. made \in Calls /\ made # NoCall
  <2>1. made.kind # NoCall.kind
    BY DEF NoCall
  <2> QED BY <2>1 DEF Calls, CallInv, TickInv
<1> HIDE DEF r, made
<1>4. c \notin Senders /\ c \notin Sleepers
  BY <1>1, <1>2 DEF CallInv, Blocked
<1>5. InboxOK' /\ Senders' = Senders \cup {c}
  BY <1>1, <1>2, <1>4, InboxGrows DEF CallInv
<1>6. call' \in [Clients -> Calls] /\ Blocked' = Blocked \cup {c}
  BY <1>2, <1>3 DEF CallInv, Blocked
<1>7. Sleepers' = Sleepers /\ IsQueue(q)'
  BY <1>2 DEF Sleepers, IsQueue, CallInv
<1> QED
  BY <1>1, <1>4, <1>5, <1>6, <1>7 DEF CallInv

(* The notifier calls.                                                     *)
LEMMA NotifierAsks ==
  ASSUME CallInv, TickInv', Notify
  PROVE  CallInv'
<1> DEFINE r == Request("notify", NOTIFIER, 0)
<1>1. /\ r \in Requests /\ r.kind = "notify" /\ r.from = NOTIFIER /\ r.arg = 0
  BY DEF Request, Requests
<1>2. /\ inbox' = Append(inbox, r) /\ q' = q /\ call' = call
      /\ notifier = "woken"
  BY DEF Notify
<1> HIDE DEF r
<1>3. NOTIFIER \notin Senders
  <2>1. \A i \in DOMAIN inbox : ~Notifies(i)
    BY <1>2 DEF CallInv, TickInv, OneNotice
  <2> QED BY <2>1 DEF CallInv, InboxOK, Senders
<1>4. InboxOK' /\ Senders' = Senders \cup {NOTIFIER}
  BY <1>1, <1>2, <1>3, InboxGrows, TimeAssumption DEF CallInv
<1>5. /\ Sleepers' = Sleepers /\ IsQueue(q)' /\ Blocked' = Blocked
      /\ call' \in [Clients -> Calls]
  BY <1>2 DEF Sleepers, IsQueue, Blocked, CallInv
<1>6. NOTIFIER \notin Sleepers
  BY SleepersAre, ClientsAssumption DEF CallInv
<1> QED
  BY <1>4, <1>5, <1>6 DEF CallInv

(* The server receives what the notifier sent.                             *)
LEMMA NotifierIsAnswered ==
  ASSUME CallInv, TickInv', ReceiveNotify
  PROVE  CallInv'
<1>1. /\ inbox # <<>> /\ inbox' = Tail(inbox) /\ Received.kind = "notify"
      /\ q' = q /\ call' = call
  BY DEF ReceiveNotify, Receive
<1>2. /\ InboxOK' /\ Senders' = Senders \ {Received.from}
      /\ 1 \in DOMAIN inbox /\ Received = inbox[1]
  BY <1>1, InboxShrinks DEF CallInv
<1>3. Received.from = NOTIFIER
  BY <1>1, <1>2 DEF CallInv, InboxOK, Notifies
<1>4. /\ Sleepers' = Sleepers /\ IsQueue(q)' /\ Blocked' = Blocked
      /\ call' \in [Clients -> Calls]
  BY <1>1 DEF Sleepers, IsQueue, Blocked, CallInv
<1> QED
  BY <1>2, <1>3, <1>4 DEF CallInv

(* What the server receives from a client.                                 *)
LEMMA FromClient ==
  ASSUME CallInv, NEW kind \in {"delay", "until", "time"}, Receive(kind)
  PROVE  /\ InboxOK' /\ Senders' = Senders \ {Received.from}
         /\ Received.from \in Senders /\ Received.from \in Clients
         /\ Received.from \notin Sleepers /\ Received.from # NOTIFIER
         /\ Received.arg \in Int /\ Received.arg <= INT_MAX
<1>1. inbox # <<>> /\ inbox' = Tail(inbox) /\ Received.kind = kind
  BY DEF Receive
<1>2. /\ InboxOK' /\ Senders' = Senders \ {Received.from}
      /\ 1 \in DOMAIN inbox /\ Received = inbox[1] /\ Received \in Requests
      /\ Received.from \in Senders
  BY <1>1, InboxShrinks DEF CallInv
<1>3. Received.from # NOTIFIER
  BY <1>1, <1>2 DEF CallInv, InboxOK, Notifies
<1> QED
  BY <1>2, <1>3 DEF CallInv, InboxOK, Requests

(* It answers at once.                                                     *)
LEMMA ClientIsAnswered ==
  ASSUME CallInv, TickInv', NEW kind \in {"delay", "until", "time"},
         Receive(kind), NEW n, ReplyTo(Received.from, n), q' = q
  PROVE  CallInv'
<1> DEFINE c == Received.from
<1>1. /\ InboxOK' /\ Senders' = Senders \ {c} /\ c \in Senders
      /\ c \in Clients /\ c \notin Sleepers
  BY FromClient
<1>2. call' = [call EXCEPT ![c] = NoCall]
  BY DEF ReplyTo
<1> HIDE DEF c
<1>3. call' \in [Clients -> Calls] /\ Blocked' = Blocked \ {c}
  <2>1. NoCall \in Calls
    BY DEF NoCall, Calls
  <2> QED BY <1>1, <1>2, <2>1 DEF CallInv, Blocked
<1>4. Sleepers' = Sleepers /\ IsQueue(q)'
  BY DEF Sleepers, IsQueue, CallInv
<1> QED
  BY <1>1, <1>3, <1>4 DEF CallInv

(* It puts the client to sleep.                                            *)
LEMMA ClientIsQueued ==
  ASSUME CallInv, TickInv', NEW kind \in {"delay", "until", "time"},
         Receive(kind), NEW key \in Int, key <= INT_MAX,
         q' = pq_add(q, key, Received.from), call' = call
  PROVE  CallInv'
<1> DEFINE c == Received.from
<1>1. /\ InboxOK' /\ Senders' = Senders \ {c} /\ c \in Senders
      /\ c \in Clients /\ c \notin Sleepers
  BY FromClient
<1>2. q' = pq_add(q, key, c)
  OBVIOUS
<1> HIDE DEF c
<1>3. IsQueue(q)' /\ Sleepers' = Sleepers \cup {c}
  BY <1>1, <1>2, SleeperIsAdded DEF CallInv
<1>4. call' \in [Clients -> Calls] /\ Blocked' = Blocked
  BY DEF CallInv, Blocked
<1> QED
  BY <1>1, <1>3, <1>4 DEF CallInv

(* It wakes one.                                                           *)
LEMMA ClientIsWoken ==
  ASSUME CallInv, TickInv', q.count # 0, q' = pq_delete(q),
         NEW n, ReplyTo(q.heap[0].val, n), inbox' = inbox
  PROVE  CallInv'
<1> DEFINE c == q.heap[0].val
<1>1. IsQueue(q)' /\ c \in Sleepers /\ Sleepers' = Sleepers \ {c}
  BY SleeperIsWoken DEF CallInv
<1>2. call' = [call EXCEPT ![c] = NoCall]
  BY DEF ReplyTo
<1>3. c \in Clients
  BY <1>1, SleepersAre DEF CallInv
<1> HIDE DEF c
<1>4. call' \in [Clients -> Calls] /\ Blocked' = Blocked \ {c}
  <2>1. NoCall \in Calls
    BY DEF NoCall, Calls
  <2> QED BY <1>2, <1>3, <2>1 DEF CallInv, Blocked
<1>5. Senders' = Senders /\ InboxOK'
  BY DEF Senders, InboxOK, Notifies, CallInv
<1> QED
  BY <1>1, <1>3, <1>4, <1>5 DEF CallInv

LEMMA CallInit == Init => CallInv
<1> SUFFICES ASSUME Init PROVE CallInv
  OBVIOUS
<1>1. TickInv
  BY TimeAssumption DEF Init, TickInv, OneNotice, NoTickIsLost
<1>2. inbox = <<>> /\ q = pq_init /\ call = [c \in Clients |-> NoCall]
  BY DEF Init
<1>3. InboxOK /\ Senders = {}
  BY <1>2 DEF InboxOK, Senders
<1>4. IsQueue(q)
  BY <1>2, InitIsQueue
<1>5. Sleepers = {}
  <2>1. q.count = 0
    BY <1>2 DEF pq_init
  <2> QED BY <2>1 DEF Sleepers
<1>6. call \in [Clients -> Calls] /\ Blocked = {}
  BY <1>2 DEF NoCall, Calls, Blocked
<1> QED BY <1>1, <1>3, <1>4, <1>5, <1>6 DEF CallInv

LEMMA CallStep ==
  ASSUME CallInv, TickInv', [Next]_vars
  PROVE  CallInv'
<1>1. CASE Tick
  BY <1>1, CallersStand DEF Tick
<1>2. CASE MissedTick
  BY <1>2, CallersStand DEF MissedTick, Abort
<1>3. CASE Notify
  BY <1>3, NotifierAsks
<1>4. CASE Server
  <2>1. CASE ReceiveNotify
    BY <2>1, NotifierIsAnswered
  <2>2. CASE WakeNext
    <3>1. CASE pq_size(q) = 0
      BY <2>2, <3>1, CallersStand DEF WakeNext, Abort
    <3>2. CASE pq_size(q) # 0
      <4>1. /\ q.count # 0 /\ q' = pq_delete(q) /\ inbox' = inbox
            /\ ReplyTo(q.heap[0].val, time)
        BY <2>2, <3>2 DEF WakeNext, pq_size, pq_peek_val
      <4> QED BY <4>1, ClientIsWoken
    <3> QED BY <3>1, <3>2
  <2>3. CASE WokeAll
    BY <2>3, CallersStand DEF WokeAll
  <2>4. CASE ReceiveDelay
    <3>1. /\ Receive("delay") /\ call' = call
          /\ q' = pq_add(q, WakeTime(Received.arg), Received.from)
      BY <2>4 DEF ReceiveDelay
    <3>2. Received.arg + time \in Int
      BY <3>1, FromClient DEF CallInv, TickInv, NoTickIsLost
    <3>3. WakeTime(Received.arg) \in Int /\ WakeTime(Received.arg) <= INT_MAX
      BY <3>2, WrapFits DEF WakeTime
    <3> QED BY <3>1, <3>3, ClientIsQueued
  <2>5. CASE ReceiveTime
    BY <2>5, ClientIsAnswered DEF ReceiveTime
  <2>6. CASE ReceiveDelayUntil
    <3>1. Receive("until")
      BY <2>6 DEF ReceiveDelayUntil
    <3>2. ASSUME NEW n, ReplyTo(Received.from, n), q' = q
          PROVE  CallInv'
      BY <3>1, <3>2, ClientIsAnswered
    <3>3. ASSUME q' = pq_add(q, Received.arg, Received.from), call' = call
          PROVE  CallInv'
      <4>1. Received.arg \in Int /\ Received.arg <= INT_MAX
        BY <3>1, FromClient
      <4> QED BY <3>1, <3>3, <4>1, ClientIsQueued
    <3> QED BY <2>6, <3>2, <3>3 DEF ReceiveDelayUntil
  <2> QED BY <1>4, <2>1, <2>2, <2>3, <2>4, <2>5, <2>6 DEF Server
<1>5. ASSUME NEW c \in Clients, Client(c)
      PROVE  CallInv'
  <2>1. CASE Time(c)
    BY <2>1, CallerAsks, TimeAssumption DEF Time
  <2>2. ASSUME NEW n \in TICKS, Delay(c, n)
        PROVE  CallInv'
    <3>1. n \in Int /\ n <= INT_MAX
      BY TimeAssumption
    <3> QED BY <2>2, <3>1, CallerAsks, CallersStand DEF Delay
  <2>3. ASSUME NEW n \in TICKS, DelayUntil(c, n)
        PROVE  CallInv'
    <3>1. n \in Int /\ n <= INT_MAX
      BY TimeAssumption
    <3> QED BY <2>3, <3>1, CallerAsks, CallersStand DEF DelayUntil, Abort
  <2> QED BY <1>5, <2>1, <2>2, <2>3 DEF Client
<1>6. CASE UNCHANGED vars
  BY <1>6, CallersStand DEF vars
<1> QED BY <1>1, <1>2, <1>3, <1>4, <1>5, <1>6 DEF Next

LEMMA CallInvariant == Spec => []CallInv
<1>1. CallInv /\ TickInv' /\ [Next]_vars => CallInv'
  BY CallStep
<1> QED BY <1>1, CallInit, TickInvariant, PTL DEF Spec

(***************************************************************************)
(* No caller is forgotten: a client that is blocked in a call has its      *)
(* request in the inbox or sleeps in the queue, in one place and once, so  *)
(* that clock_server never replies to a task that does not wait for it.    *)
(***************************************************************************)
THEOREM CallersAreKnown == Spec => []EveryCallerIsKnown
<1>1. CallInv => EveryCallerIsKnown
  BY SleepersAreCounted, SendersAreCounted
     DEF CallInv, EveryCallerIsKnown, Blocked
<1> QED BY <1>1, CallInvariant, PTL

-----------------------------------------------------------------------------
(* The deadlines.                                                          *)

(* No deadline that is asked for passes INT_MAX.                           *)
NoOverflow == \A n \in TICKS : n + MAX_TIME <= INT_MAX

(* A request tells what its sender has called, and when it is received the *)
(* server's time is not before that call: if a tick has come that the      *)
(* server has not counted, then its notice is received before.             *)
RequestsOK ==
  \A i \in DOMAIN inbox : inbox[i].from \in Clients =>
    /\ call[inbox[i].from].kind = inbox[i].kind
    /\ call[inbox[i].from].arg = inbox[i].arg
    /\ inbox[i].kind = "delay" => inbox[i].arg \in TICKS /\ inbox[i].arg > 0
    /\ \/ call[inbox[i].from].since <= time
       \/ \E j \in DOMAIN inbox : j < i /\ Notifies(j)

(* The key of a sleeper is its deadline.                                   *)
DeadlineOK(e) ==
  /\ call[e.val].kind = "delay" =>
       e.key >= call[e.val].since + call[e.val].arg
  /\ call[e.val].kind = "until" => e.key = call[e.val].arg

WakeInv ==
  /\ CallInv
  /\ RequestsOK
  /\ \A e \in Used(q.heap, q.count) : DeadlineOK(e)
  /\ \A c \in Clients : call[c].since <= ticks
  /\ notifier \in {"awaiting", "woken", "send"}
  /\ notifier = "send" => \E j \in DOMAIN inbox : Notifies(j)
  /\ NobodyOversleeps

(* Who sleeps in the queue.                                                *)
LEMMA UsedAre ==
  ASSUME IsQueue(q)
  PROVE  /\ \A e \in Used(q.heap, q.count) :
              e \in Entries /\ e.val \in Sleepers /\ e.val \in Clients
         /\ NobodyOversleeps <=>
              (pc = "receive" => \A e \in Used(q.heap, q.count) : e.key > time)
<1>1. \A i \in 0 .. q.count - 1 : q.heap[i] \in Entries
  BY QueueIs
<1> QED
  BY <1>1, ClientsAssumption DEF Used, Entries, Sleepers, NobodyOversleeps

(* Time passes, and nothing else.                                          *)
LEMMA DeadlinesStand ==
  ASSUME WakeInv, CallInv', UNCHANGED <<inbox, q, call, time>>,
         ticks <= ticks', notifier' \in {notifier, "woken"},
         NobodyOversleeps'
  PROVE  WakeInv'
<1>1. RequestsOK'
  BY DEF WakeInv, RequestsOK, Notifies
<1>2. (\A e \in Used(q.heap, q.count) : DeadlineOK(e))'
  BY DEF WakeInv, DeadlineOK, Used
<1>3. (\A c \in Clients : call[c].since <= ticks)'
  <2>1. ticks \in Int /\ ticks' \in Int
    BY DEF WakeInv, CallInv, TickInv
  <2>2. \A c \in Clients : call[c].since \in Int
    BY DEF WakeInv, CallInv, Calls
  <2> QED BY <2>1, <2>2 DEF WakeInv
<1>4. /\ (notifier = "send" => \E j \in DOMAIN inbox : Notifies(j))'
      /\ notifier' \in {"awaiting", "woken", "send"}
  BY DEF WakeInv, Notifies
<1> QED BY <1>1, <1>2, <1>3, <1>4 DEF WakeInv

(* The steps that only change what the server does next.                   *)
LEMMA PcMoves ==
  ASSUME WakeInv, CallInv',
         UNCHANGED <<ticks, notifier, inbox, q, call, time>>,
         pc' = "receive" => NobodyOversleeps'
  PROVE  WakeInv'
<1>1. NobodyOversleeps'
  BY DEF NobodyOversleeps
<1>2. ticks <= ticks'
  BY DEF WakeInv, CallInv, TickInv
<1> QED BY <1>1, <1>2, DeadlinesStand

(* A call is made now.  If the server's time is behind, the notice of the  *)
(* tick is in the inbox, before it.                                        *)
LEMMA CallIsTimely ==
  ASSUME WakeInv, CallInv', NEW c \in Clients,
         NEW kind \in {"delay", "until", "time"}, NEW arg \in Int,
         kind = "delay" => arg \in TICKS /\ arg > 0, arg <= INT_MAX,
         Call(c, kind, arg)
  PROVE  WakeInv'
<1> DEFINE r == Request(kind, c, arg)
           made == [kind |-> kind, arg |-> arg, since |-> ticks]
           n == Len(inbox)
<1>1. /\ r \in Requests /\ r.kind = kind /\ kind # "notify" /\ r.from = c
      /\ r.arg = arg /\ c # NOTIFIER
  BY ClientsAssumption DEF Request, Requests
<1>2. /\ inbox' = Append(inbox, r) /\ call[c] = NoCall
      /\ call' = [call EXCEPT ![c] = made]
      /\ notifier # "woken" /\ UNCHANGED <<ticks, notifier, time, q, pc>>
  BY DEF Call, Runs
<1>3. made.kind = kind /\ made.arg = arg /\ made.since = ticks
  OBVIOUS
<1> HIDE DEF r, made
<1>4. /\ CallInv /\ TickInv /\ InboxOK /\ IsQueue(q) /\ ticks \in Int
      /\ call \in [Clients -> Calls]
  BY DEF WakeInv, CallInv, TickInv
<1>5. c \notin Senders /\ c \notin Sleepers
  BY <1>1, <1>2 DEF WakeInv, CallInv, Blocked
<1>6. /\ DOMAIN inbox' = 1 .. n + 1 /\ inbox'[n + 1] = r
      /\ DOMAIN inbox = 1 .. n /\ n \in Nat
      /\ \A i \in DOMAIN inbox : i \in DOMAIN inbox' /\ inbox'[i] = inbox[i]
  <2>1. inbox \in Seq(Requests)
    BY <1>4 DEF InboxOK
  <2> QED
    BY <1>1, <1>2, <1>4, <1>5, <2>1, InboxGrows, LenProperties
<1>7. call'[c] = made /\ \A d \in Clients : d # c => call'[d] = call[d]
  BY <1>2, <1>4
<1>8. \A i \in DOMAIN inbox : inbox[i].from # c
  BY <1>5 DEF Senders
<1> HIDE DEF n
<1>9. notifier = "send" => \E j \in DOMAIN inbox : Notifies(j) /\ Notifies(j)'
  BY <1>6 DEF WakeInv, Notifies
<1>10. RequestsOK'
  <2> SUFFICES ASSUME NEW i \in DOMAIN inbox', inbox'[i].from \in Clients
               PROVE  /\ call'[inbox'[i].from].kind = inbox'[i].kind
                      /\ call'[inbox'[i].from].arg = inbox'[i].arg
                      /\ inbox'[i].kind = "delay" =>
                           inbox'[i].arg \in TICKS /\ inbox'[i].arg > 0
                      /\ \/ call'[inbox'[i].from].since <= time'
                         \/ \E j \in DOMAIN inbox' : j < i /\ Notifies(j)'
    BY Zenon DEF RequestsOK
  <2>1. CASE i = n + 1
    <3>1. \/ ticks <= time
          \/ \E j \in DOMAIN inbox' : j < n + 1 /\ Notifies(j)'
      <4>1. CASE notifier = "send"
        <5>1. PICK j \in DOMAIN inbox : Notifies(j)'
          BY <1>9, <4>1
        <5>2. j \in DOMAIN inbox' /\ j < n + 1
          BY <1>6
        <5> QED BY <5>1, <5>2
      <4>2. CASE notifier = "awaiting"
        BY <1>4, <4>2 DEF TickInv, NoTickIsLost
      <4> QED BY <1>2, <4>1, <4>2 DEF WakeInv
    <3> QED BY <1>1, <1>2, <1>3, <1>6, <1>7, <2>1, <3>1
  <2>2. CASE i # n + 1
    <3>1. i \in DOMAIN inbox /\ inbox'[i] = inbox[i] /\ inbox[i].from # c
      BY <1>6, <1>8, <2>2
    <3>2. call'[inbox'[i].from] = call[inbox[i].from]
      BY <1>7, <3>1
    <3>3. \A j \in DOMAIN inbox :
           j \in DOMAIN inbox' /\ (Notifies(j)' <=> Notifies(j))
      BY <1>6 DEF Notifies
    <3> QED BY <1>2, <3>1, <3>2, <3>3 DEF WakeInv, RequestsOK
  <2> QED BY <2>1, <2>2
<1>11. (\A e \in Used(q.heap, q.count) : DeadlineOK(e))'
  <2>1. \A e \in Used(q.heap, q.count) : call'[e.val] = call[e.val]
    BY <1>4, <1>5, <1>7, UsedAre
  <2> QED BY <1>2, <2>1 DEF WakeInv, DeadlineOK, Used
<1>12. (\A d \in Clients : call[d].since <= ticks)'
  BY <1>2, <1>3, <1>4, <1>7 DEF WakeInv
<1>13. /\ (notifier = "send" => \E j \in DOMAIN inbox : Notifies(j))'
       /\ notifier' \in {"awaiting", "woken", "send"}
  BY <1>2, <1>6, <1>9 DEF WakeInv
<1>14. NobodyOversleeps'
  BY <1>2 DEF WakeInv, NobodyOversleeps
<1> QED BY <1>10, <1>11, <1>12, <1>13, <1>14 DEF WakeInv

(* The notifier brings the notice of a tick.                               *)
LEMMA NoticeIsBrought ==
  ASSUME WakeInv, CallInv', Notify
  PROVE  WakeInv'
<1> DEFINE r == Request("notify", NOTIFIER, 0)
           n == Len(inbox)
<1>1. /\ r \in Requests /\ r.kind = "notify" /\ r.from = NOTIFIER /\ r.arg = 0
      /\ NOTIFIER \notin Clients
  BY ClientsAssumption DEF Request, Requests
<1>2. /\ inbox' = Append(inbox, r) /\ notifier' = "send"
      /\ notifier = "woken" /\ UNCHANGED <<ticks, time, q, pc, call>>
  BY DEF Notify
<1> HIDE DEF r
<1>3. CallInv /\ InboxOK /\ inbox \in Seq(Requests)
  BY DEF WakeInv, CallInv, InboxOK
<1>4. NOTIFIER \notin Senders
  <2>1. \A i \in DOMAIN inbox : ~Notifies(i)
    BY <1>2, <1>3 DEF CallInv, TickInv, OneNotice
  <2> QED BY <1>3, <2>1 DEF InboxOK, Senders
<1>5. /\ DOMAIN inbox' = 1 .. n + 1 /\ inbox'[n + 1] = r
      /\ DOMAIN inbox = 1 .. n /\ n \in Nat
      /\ \A i \in DOMAIN inbox : i \in DOMAIN inbox' /\ inbox'[i] = inbox[i]
  BY <1>1, <1>2, <1>3, <1>4, InboxGrows, LenProperties, TimeAssumption
<1> HIDE DEF n
<1>6. RequestsOK'
  <2> SUFFICES ASSUME NEW i \in DOMAIN inbox', inbox'[i].from \in Clients
               PROVE  /\ call'[inbox'[i].from].kind = inbox'[i].kind
                      /\ call'[inbox'[i].from].arg = inbox'[i].arg
                      /\ inbox'[i].kind = "delay" =>
                           inbox'[i].arg \in TICKS /\ inbox'[i].arg > 0
                      /\ \/ call'[inbox'[i].from].since <= time'
                         \/ \E j \in DOMAIN inbox' : j < i /\ Notifies(j)'
    BY Zenon DEF RequestsOK
  <2>1. i \in DOMAIN inbox /\ inbox'[i] = inbox[i]
    BY <1>1, <1>5
  <2>2. \A j \in DOMAIN inbox :
         j \in DOMAIN inbox' /\ (Notifies(j)' <=> Notifies(j))
    BY <1>5 DEF Notifies
  <2> QED BY <1>2, <2>1, <2>2 DEF WakeInv, RequestsOK
<1>7. (\A e \in Used(q.heap, q.count) : DeadlineOK(e))'
  BY <1>2 DEF WakeInv, DeadlineOK, Used
<1>8. (\E j \in DOMAIN inbox : Notifies(j))'
  <2>1. n + 1 \in DOMAIN inbox' /\ inbox'[n + 1].kind = "notify"
    BY <1>1, <1>5
  <2> QED BY <2>1 DEF Notifies
<1>9. /\ (\A c \in Clients : call[c].since <= ticks)'
      /\ notifier' \in {"awaiting", "woken", "send"}
      /\ NobodyOversleeps'
  BY <1>2 DEF WakeInv, NobodyOversleeps
<1> QED BY <1>6, <1>7, <1>8, <1>9 DEF WakeInv

(* The server counts the tick: it is as late as the timer now, and no call *)
(* is later.                                                               *)
LEMMA TickIsCounted ==
  ASSUME WakeInv, CallInv', ReceiveNotify
  PROVE  WakeInv'
<1>1. /\ inbox # <<>> /\ inbox' = Tail(inbox)
      /\ notifier' = "awaiting" /\ pc' = "waking"
      /\ UNCHANGED <<ticks, q, call>>
  BY DEF ReceiveNotify, Receive
<1>2. \A i \in DOMAIN inbox' :
        i + 1 \in DOMAIN inbox /\ inbox'[i] = inbox[i + 1]
  BY <1>1, InboxShrinks DEF WakeInv, CallInv
<1>3. time' = ticks
  BY <1>1 DEF CallInv, TickInv, NoTickIsLost
<1>4. RequestsOK'
  <2> SUFFICES ASSUME NEW i \in DOMAIN inbox', inbox'[i].from \in Clients
               PROVE  /\ call'[inbox'[i].from].kind = inbox'[i].kind
                      /\ call'[inbox'[i].from].arg = inbox'[i].arg
                      /\ inbox'[i].kind = "delay" =>
                           inbox'[i].arg \in TICKS /\ inbox'[i].arg > 0
                      /\ call'[inbox'[i].from].since <= time'
    BY Zenon DEF RequestsOK
  <2>1. i + 1 \in DOMAIN inbox /\ inbox'[i] = inbox[i + 1]
    BY <1>2
  <2> QED BY <1>1, <1>3, <2>1 DEF WakeInv, RequestsOK
<1>5. (\A e \in Used(q.heap, q.count) : DeadlineOK(e))'
  BY <1>1 DEF WakeInv, DeadlineOK, Used
<1>6. (\A c \in Clients : call[c].since <= ticks)' /\ NobodyOversleeps'
  BY <1>1 DEF WakeInv, NobodyOversleeps
<1> QED BY <1>1, <1>4, <1>5, <1>6 DEF WakeInv

(* The server receives the request of a client, whose call was made when   *)
(* or before the server's time is.  For the others, nothing changes.       *)
LEMMA RequestIsTimely ==
  ASSUME WakeInv, NEW kind \in {"delay", "until", "time"}, Receive(kind),
         UNCHANGED <<ticks, notifier, time>>,
         \A d \in Clients : d # Received.from => call'[d] = call[d]
  PROVE  /\ Received.from \in Clients
         /\ call[Received.from].kind = kind
         /\ call[Received.from].arg = Received.arg
         /\ call[Received.from].since <= time
         /\ kind = "delay" => Received.arg \in TICKS /\ Received.arg > 0
         /\ RequestsOK'
         /\ (notifier = "send" => \E j \in DOMAIN inbox : Notifies(j))'
<1>1. /\ inbox # <<>> /\ inbox' = Tail(inbox) /\ Received.kind = kind
      /\ kind # "notify"
  BY DEF Receive
<1>2. /\ CallInv /\ InboxOK /\ inbox \in Seq(Requests)
      /\ DOMAIN inbox = 1 .. Len(inbox) /\ Len(inbox) \in Nat
  BY LenProperties DEF WakeInv, CallInv, InboxOK
<1>3. /\ Received.from \in Clients
      /\ 1 \in DOMAIN inbox /\ Received = inbox[1] /\ ~Notifies(1)
      /\ Received.from \notin Senders'
      /\ \A i \in DOMAIN inbox' :
           i + 1 \in DOMAIN inbox /\ i + 1 # 1 /\ inbox'[i] = inbox[i + 1]
  BY <1>1, <1>2, FromClient, InboxShrinks DEF Notifies
<1>4. \A j \in DOMAIN inbox : Notifies(j) =>
        j - 1 \in DOMAIN inbox' /\ Notifies(j - 1)'
  <2> SUFFICES ASSUME NEW j \in DOMAIN inbox, Notifies(j)
               PROVE  j - 1 \in DOMAIN inbox' /\ Notifies(j - 1)'
    OBVIOUS
  <2>1. j # 1
    BY <1>3
  <2>2. DOMAIN inbox' = 1 .. Len(inbox) - 1
    BY <1>1, <1>2, HeadTailProperties, LenProperties
  <2>3. j - 1 \in DOMAIN inbox' /\ (j - 1) + 1 = j
    BY <1>2, <2>1, <2>2
  <2> QED BY <1>3, <2>3 DEF Notifies
<1>5. /\ call[Received.from].kind = kind
      /\ call[Received.from].arg = Received.arg
      /\ call[Received.from].since <= time
      /\ kind = "delay" => Received.arg \in TICKS /\ Received.arg > 0
  <2>1. \A j \in DOMAIN inbox : ~(j < 1)
    BY <1>2
  <2> QED BY <1>1, <1>3, <2>1 DEF WakeInv, RequestsOK
<1>6. RequestsOK'
  <2> SUFFICES ASSUME NEW i \in DOMAIN inbox', inbox'[i].from \in Clients
               PROVE  /\ call'[inbox'[i].from].kind = inbox'[i].kind
                      /\ call'[inbox'[i].from].arg = inbox'[i].arg
                      /\ inbox'[i].kind = "delay" =>
                           inbox'[i].arg \in TICKS /\ inbox'[i].arg > 0
                      /\ \/ call'[inbox'[i].from].since <= time'
                         \/ \E j \in DOMAIN inbox' : j < i /\ Notifies(j)'
    BY Zenon DEF RequestsOK
  <2>1. i + 1 \in DOMAIN inbox /\ inbox'[i] = inbox[i + 1]
    BY <1>3
  <2>2. inbox'[i].from # Received.from
    BY <1>3 DEF Senders
  <2>3. call'[inbox'[i].from] = call[inbox[i + 1].from]
    BY <2>1, <2>2
  <2>4. \/ call[inbox[i + 1].from].since <= time
        \/ \E j \in DOMAIN inbox : j < i + 1 /\ Notifies(j)
    BY <2>1 DEF WakeInv, RequestsOK
  <2>5. ASSUME NEW j \in DOMAIN inbox, j < i + 1, Notifies(j)
        PROVE  \E k \in DOMAIN inbox' : k < i /\ Notifies(k)'
    <3>1. j - 1 \in DOMAIN inbox' /\ Notifies(j - 1)'
      BY <1>4, <2>5
    <3>2. i \in Int /\ j \in Int
      BY <1>2, <2>1, <1>1, HeadTailProperties, LenProperties
    <3>3. j - 1 < i
      BY <2>5, <3>2
    <3> QED BY <3>1, <3>3
  <2> QED BY <2>1, <2>3, <2>4, <2>5 DEF WakeInv, RequestsOK
<1>7. (notifier = "send" => \E j \in DOMAIN inbox : Notifies(j))'
  BY <1>4 DEF WakeInv
<1> QED BY <1>3, <1>5, <1>6, <1>7

(* A client that is answered waits for nothing any more.                   *)
LEMMA AnswerFrees ==
  ASSUME WakeInv, NEW c \in Clients, NEW n, ReplyTo(c, n)
  PROVE  /\ call'[c] = NoCall
         /\ \A d \in Clients : d # c => call'[d] = call[d]
         /\ ticks' = ticks => (\A d \in Clients : call[d].since <= ticks)'
<1>1. /\ call'[c] = NoCall
      /\ \A d \in Clients : d # c => call'[d] = call[d]
  BY DEF ReplyTo, WakeInv, CallInv
<1>2. NoCall.since = 0 /\ 0 <= ticks
  BY DEF NoCall, WakeInv, CallInv, TickInv
<1> QED BY <1>1, <1>2 DEF WakeInv

(* A request is answered at once.                                          *)
LEMMA AnswerIsTimely ==
  ASSUME WakeInv, CallInv', NEW kind \in {"delay", "until", "time"},
         Receive(kind), NEW n, ReplyTo(Received.from, n),
         UNCHANGED <<ticks, notifier, time, q, pc>>
  PROVE  WakeInv'
<1>1. Received.from \in Clients /\ Received.from \notin Sleepers
  BY FromClient DEF WakeInv
<1>2. /\ \A d \in Clients : d # Received.from => call'[d] = call[d]
      /\ (\A d \in Clients : call[d].since <= ticks)'
  BY <1>1, AnswerFrees
<1>3. /\ RequestsOK'
      /\ (notifier = "send" => \E j \in DOMAIN inbox : Notifies(j))'
  BY <1>2, RequestIsTimely
<1>4. (\A e \in Used(q.heap, q.count) : DeadlineOK(e))'
  <2>1. \A e \in Used(q.heap, q.count) : call'[e.val] = call[e.val]
    BY <1>1, <1>2, UsedAre DEF WakeInv, CallInv
  <2> QED BY <2>1 DEF WakeInv, DeadlineOK, Used
<1>5. NobodyOversleeps' /\ notifier' \in {"awaiting", "woken", "send"}
  BY DEF WakeInv, NobodyOversleeps
<1> QED BY <1>2, <1>3, <1>4, <1>5 DEF WakeInv

(* A request is put to sleep until its deadline, which is to come.         *)
LEMMA SleepIsTimely ==
  ASSUME WakeInv, CallInv', NEW kind \in {"delay", "until"}, Receive(kind),
         NEW key \in Int, time < key, key <= INT_MAX,
         kind = "delay" => key = Received.arg + time,
         kind = "until" => key = Received.arg,
         q' = pq_add(q, key, Received.from),
         UNCHANGED <<ticks, notifier, time, call, pc>>
  PROVE  WakeInv'
<1> DEFINE c == Received.from
<1>1. /\ c \in Clients /\ c \notin Sleepers /\ IsQueue(q)
      /\ Received.arg \in Int
  BY FromClient DEF WakeInv, CallInv
<1>2. /\ RequestsOK'
      /\ (notifier = "send" => \E j \in DOMAIN inbox : Notifies(j))'
      /\ call[c].kind = kind /\ call[c].arg = Received.arg
      /\ call[c].since <= time
  BY RequestIsTimely
<1>3. q' = pq_add(q, key, c)
  OBVIOUS
<1> HIDE DEF c
<1>4. PICK node : node = [key |-> key, val |-> c]
  OBVIOUS
<1>5. /\ IsQueue(q)'
      /\ Used(q.heap, q.count)' = Used(q.heap, q.count) \cup {node}
  BY <1>1, <1>3, <1>4, SleeperIsAdded
<1>6. node.key = key /\ node.val = c
  BY <1>4
<1>7. \A e \in Used(q.heap, q.count)' : DeadlineOK(e)'
  <2>1. /\ time \in Int /\ call[c].since \in Int /\ call[c].arg \in Int
    BY <1>1 DEF WakeInv, CallInv, TickInv, NoTickIsLost, Calls
  <2>2. DeadlineOK(node)
    BY <1>1, <1>2, <1>6, <2>1 DEF DeadlineOK
  <2>3. \A e : DeadlineOK(e)' <=> DeadlineOK(e)
    BY DEF DeadlineOK
  <2> QED BY <1>5, <2>2, <2>3 DEF WakeInv
<1>8. NobodyOversleeps'
  <2>1. NobodyOversleeps' <=>
          (pc' = "receive" => \A e \in Used(q.heap, q.count)' : e.key > time')
    BY DEF NobodyOversleeps, Used
  <2>2. pc = "receive" => \A e \in Used(q.heap, q.count) : e.key > time
    BY <1>1, UsedAre DEF WakeInv
  <2> QED BY <1>5, <1>6, <2>1, <2>2
<1>9. /\ (\A d \in Clients : call[d].since <= ticks)'
      /\ notifier' \in {"awaiting", "woken", "send"}
  BY DEF WakeInv
<1> QED BY <1>2, <1>7, <1>8, <1>9 DEF WakeInv

(* A sleeper is woken.                                                     *)
LEMMA WakingIsTimely ==
  ASSUME WakeInv, CallInv', q.count # 0, q' = pq_delete(q), pc # "receive",
         NEW n, ReplyTo(q.heap[0].val, n),
         UNCHANGED <<ticks, notifier, inbox, time, pc>>
  PROVE  WakeInv'
<1> DEFINE c == q.heap[0].val
<1>1. IsQueue(q) /\ Sleepers \cap Senders = {}
  BY DEF WakeInv, CallInv
<1>2. /\ IsQueue(q)' /\ c \in Sleepers /\ c \in Clients
      /\ Used(q.heap, q.count)' = Used(q.heap, q.count) \ {q.heap[0]}
      /\ Sleepers' = Sleepers \ {c}
  BY <1>1, SleeperIsWoken, SleepersAre
<1>3. ReplyTo(c, n)
  OBVIOUS
<1> HIDE DEF c
<1>4. /\ \A d \in Clients : d # c => call'[d] = call[d]
      /\ (\A d \in Clients : call[d].since <= ticks)'
  BY <1>2, <1>3, AnswerFrees
<1>5. RequestsOK'
  <2>1. \A i \in DOMAIN inbox : inbox[i].from # c
    BY <1>1, <1>2 DEF Senders
  <2> QED BY <1>4, <2>1 DEF WakeInv, RequestsOK, Notifies
<1>6. \A e \in Used(q.heap, q.count)' : DeadlineOK(e)'
  <2>1. \A e \in Used(q.heap, q.count)' :
          e.val \in Sleepers' /\ e.val \in Clients
    <3>1. \A e \in Used(q.heap, q.count)' : e.val \in Sleepers'
      BY DEF Used, Sleepers
    <3> QED BY <1>1, <1>2, <3>1, UsedAre
  <2>2. \A e \in Used(q.heap, q.count)' : call'[e.val] = call[e.val]
    BY <1>2, <1>4, <2>1
  <2> QED BY <1>2, <2>2 DEF WakeInv, DeadlineOK
<1>7. /\ NobodyOversleeps'
      /\ (notifier = "send" => \E j \in DOMAIN inbox : Notifies(j))'
      /\ notifier' \in {"awaiting", "woken", "send"}
  BY DEF WakeInv, NobodyOversleeps, Notifies
<1> QED BY <1>4, <1>5, <1>6, <1>7 DEF WakeInv

(* When the loop ends nobody is due: the root of the heap is not, and its  *)
(* key is the smallest.                                                    *)
LEMMA LoopWakesAll ==
  ASSUME WakeInv, CallInv', WokeAll
  PROVE  WakeInv'
<1>1. /\ ~(q.heap[0].key <= time) /\ pc' = "receive"
      /\ UNCHANGED <<ticks, notifier, inbox, q, call, time>>
  BY DEF WokeAll, Due, pq_peek_key
<1>2. IsQueue(q) /\ time \in Int
  BY DEF WakeInv, CallInv, TickInv, NoTickIsLost
<1>3. \A i \in 0 .. q.count - 1 :
        /\ i \in Slots /\ q.heap[0].key <= q.heap[i].key
        /\ q.heap[i].key \in Int /\ q.heap[0].key \in Int
  BY <1>2, QueueIs, RootIsLeast, SizeAssumption DEF Slots
<1>4. NobodyOversleeps'
  BY <1>1, <1>2, <1>3 DEF NobodyOversleeps
<1> QED BY <1>1, <1>4, PcMoves

LEMMA WakeInit == Init => WakeInv
<1> SUFFICES ASSUME Init PROVE WakeInv
  OBVIOUS
<1>1. CallInv
  BY CallInit
<1>2. /\ inbox = <<>> /\ q.count = 0 /\ call = [c \in Clients |-> NoCall]
      /\ ticks = 0 /\ notifier = "awaiting"
  BY DEF Init, pq_init
<1>3. RequestsOK
  BY <1>2 DEF RequestsOK
<1>4. Used(q.heap, q.count) = {} /\ NobodyOversleeps
  BY <1>2 DEF Used, NobodyOversleeps
<1>5. \A c \in Clients : call[c].since <= ticks
  BY <1>2 DEF NoCall
<1> QED BY <1>1, <1>2, <1>3, <1>4, <1>5 DEF WakeInv

(* The end of a Delay is no overflow.                                      *)
LEMMA DelayFits ==
  ASSUME NoOverflow, WakeInv, Receive("delay"),
         UNCHANGED <<ticks, notifier, time, call>>
  PROVE  LET key == WakeTime(Received.arg)
         IN  /\ key = Received.arg + time /\ key \in Int
             /\ time < key /\ key <= INT_MAX
<1>1. Received.arg \in TICKS /\ Received.arg > 0
  BY RequestIsTimely
<1>2. time \in Int /\ -1 <= time /\ time <= MAX_TIME
  <2>1. ticks \in 0 .. MAX_TIME /\ NoTickIsLost
    BY DEF WakeInv, CallInv, TickInv
  <2> QED BY <2>1, TimeAssumption DEF NoTickIsLost
<1>3. Received.arg \in Int /\ Received.arg + MAX_TIME <= INT_MAX
  <2>1. \A n \in TICKS : n \in Int
    BY TimeAssumption DEF INT_MIN
  <2> QED BY <1>1, <2>1 DEF NoOverflow
<1>4. /\ Received.arg + time \in Nat /\ Received.arg + time <= INT_MAX
      /\ time < Received.arg + time
  BY <1>1, <1>2, <1>3, TimeAssumption
<1> QED BY <1>4, WrapKeeps DEF WakeTime

LEMMA WakeStep ==
  ASSUME NoOverflow, WakeInv, CallInv', [Next]_vars
  PROVE  WakeInv'
<1>1. CASE Tick
  <2>1. ticks <= ticks'
    BY <1>1 DEF Tick, WakeInv, CallInv, TickInv
  <2>2. NobodyOversleeps'
    BY <1>1 DEF Tick, WakeInv, NobodyOversleeps
  <2> QED BY <1>1, <2>1, <2>2, DeadlinesStand DEF Tick
<1>2. CASE MissedTick
  BY <1>2, PcMoves DEF MissedTick, Abort
<1>3. CASE Notify
  BY <1>3, NoticeIsBrought
<1>4. CASE Server
  <2>1. CASE ReceiveNotify
    BY <2>1, TickIsCounted
  <2>2. CASE WakeNext
    <3>1. CASE pq_size(q) = 0
      BY <2>2, <3>1, PcMoves DEF WakeNext, Abort
    <3>2. CASE pq_size(q) # 0
      <4>1. /\ q.count # 0 /\ q' = pq_delete(q) /\ pc # "receive"
            /\ ReplyTo(q.heap[0].val, time)
            /\ UNCHANGED <<ticks, notifier, inbox, time, pc>>
        BY <2>2, <3>2 DEF WakeNext, pq_size, pq_peek_val
      <4> QED BY <4>1, WakingIsTimely
    <3> QED BY <3>1, <3>2
  <2>3. CASE WokeAll
    BY <2>3, LoopWakesAll
  <2>4. CASE ReceiveDelay
    <3> DEFINE key == WakeTime(Received.arg)
    <3>1. /\ Receive("delay") /\ q' = pq_add(q, key, Received.from)
          /\ UNCHANGED <<ticks, notifier, time, call, pc>>
      BY <2>4 DEF ReceiveDelay
    <3>2. /\ key = Received.arg + time /\ key \in Int
          /\ time < key /\ key <= INT_MAX
      BY <3>1, DelayFits
    <3> HIDE DEF key
    <3> QED BY <3>1, <3>2, SleepIsTimely
  <2>5. CASE ReceiveTime
    BY <2>5, AnswerIsTimely DEF ReceiveTime
  <2>6. CASE ReceiveDelayUntil
    <3>1. Receive("until") /\ UNCHANGED <<ticks, notifier, time, pc>>
      BY <2>6 DEF ReceiveDelayUntil
    <3>2. ASSUME NEW n, ReplyTo(Received.from, n), q' = q
          PROVE  WakeInv'
      BY <3>1, <3>2, AnswerIsTimely
    <3>3. ASSUME Received.arg > time, call' = call,
                 q' = pq_add(q, Received.arg, Received.from)
          PROVE  WakeInv'
      <4>1. Received.arg \in Int /\ Received.arg <= INT_MAX /\ time \in Int
        BY <3>1, FromClient DEF WakeInv, CallInv, TickInv, NoTickIsLost
      <4>2. time < Received.arg
        BY <3>3, <4>1
      <4> QED BY <3>1, <3>3, <4>1, <4>2, SleepIsTimely
    <3> QED BY <2>6, <3>2, <3>3 DEF ReceiveDelayUntil
  <2> QED BY <1>4, <2>1, <2>2, <2>3, <2>4, <2>5, <2>6 DEF Server
<1>5. ASSUME NEW c \in Clients, Client(c)
      PROVE  WakeInv'
  <2>1. CASE Time(c)
    BY <2>1, CallIsTimely, TimeAssumption DEF Time
  <2>2. ASSUME NEW n \in TICKS, Delay(c, n)
        PROVE  WakeInv'
    <3>1. n \in Int /\ n <= INT_MAX
      BY TimeAssumption
    <3>2. CASE n > 0 /\ Call(c, "delay", n)
      BY <3>1, <3>2, CallIsTimely
    <3>3. CASE ~(n > 0 /\ Call(c, "delay", n))
      BY <2>2, <3>3, PcMoves DEF Delay, WakeInv, NobodyOversleeps
    <3> QED BY <3>2, <3>3
  <2>3. ASSUME NEW n \in TICKS, DelayUntil(c, n)
        PROVE  WakeInv'
    <3>1. n \in Int /\ n <= INT_MAX
      BY TimeAssumption
    <3>2. CASE n > 0 /\ Call(c, "until", n)
      BY <3>1, <3>2, CallIsTimely
    <3>3. CASE ~(n > 0 /\ Call(c, "until", n))
      BY <2>3, <3>3, PcMoves DEF DelayUntil, Abort
    <3> QED BY <3>2, <3>3
  <2> QED BY <1>5, <2>1, <2>2, <2>3 DEF Client
<1>6. CASE UNCHANGED vars
  BY <1>6, PcMoves DEF vars, WakeInv, NobodyOversleeps
<1> QED BY <1>1, <1>2, <1>3, <1>4, <1>5, <1>6 DEF Next

LEMMA WakeInvariant ==
  ASSUME NoOverflow
  PROVE  Spec => []WakeInv
<1>1. WakeInv /\ CallInv' /\ [Next]_vars => WakeInv'
  BY WakeStep
<1> QED BY <1>1, WakeInit, CallInvariant, PTL DEF Spec

(***************************************************************************)
(* Between requests nobody sleeps whose time has come, as long as no       *)
(* deadline passes INT_MAX: the loop of clock_server that wakes sleepers   *)
(* looks at the root of its heap only, and leaves none behind it.          *)
(***************************************************************************)
THEOREM NobodySleepsPast ==
  ASSUME NoOverflow
  PROVE  Spec => []NobodyOversleeps
<1>1. WakeInv => NobodyOversleeps
  BY DEF WakeInv
<1> QED BY <1>1, WakeInvariant, PTL

(* What an answer ends has lasted long enough.                             *)
LEMMA AnswersAreDue ==
  ASSUME WakeInv, [Next]_vars,
         NEW c \in Clients, call[c] # NoCall, call'[c] = NoCall
  PROVE  /\ call[c].kind = "delay" => ticks - call[c].since >= call[c].arg
         /\ call[c].kind = "until" => \/ ticks >= call[c].arg
                                      \/ answer' = ERR_MISSED_DEADLINE
<1>1. /\ CallInv /\ TickInv /\ IsQueue(q) /\ call \in [Clients -> Calls]
      /\ time \in Int /\ ticks \in Int /\ time <= ticks
      /\ call[c].since \in Int /\ call[c].arg \in Int
  BY DEF WakeInv, CallInv, TickInv, NoTickIsLost, Calls
<1>2. CASE WakeNext
  <2>1. /\ q.heap[0].key <= time /\ q.count # 0
        /\ ReplyTo(q.heap[0].val, time)
    BY <1>2 DEF WakeNext, Due, Abort, pq_peek_key, pq_peek_val, pq_size
  <2>2. c = q.heap[0].val
    BY <1>1, <2>1 DEF ReplyTo
  <2>3. q.heap[0] \in Used(q.heap, q.count)
    BY <1>1, <2>1, QueueDeletes
  <2>4. DeadlineOK(q.heap[0]) /\ q.heap[0].key \in Int
    BY <1>1, <2>3, UsedAre DEF WakeInv, Entries
  <2> QED BY <1>1, <2>1, <2>2, <2>4 DEF DeadlineOK
<1>3. CASE ReceiveTime
  <2>1. /\ Receive("time") /\ ReplyTo(Received.from, time)
        /\ UNCHANGED <<ticks, notifier, time>>
    BY <1>3 DEF ReceiveTime
  <2>2. c = Received.from
    BY <1>1, <2>1 DEF ReplyTo
  <2>3. \A d \in Clients : d # Received.from => call'[d] = call[d]
    BY <1>1, <2>1 DEF ReplyTo
  <2>4. call[c].kind = "time"
    BY <2>1, <2>2, <2>3, RequestIsTimely
  <2> QED BY <2>4
<1>4. CASE ReceiveDelayUntil
  <2>1. Receive("until") /\ UNCHANGED <<ticks, notifier, time>>
    BY <1>4 DEF ReceiveDelayUntil
  <2>2. \/ ReplyTo(Received.from, ERR_MISSED_DEADLINE)
        \/ Received.arg = time /\ ReplyTo(Received.from, time)
    BY <1>4 DEF ReceiveDelayUntil
  <2>3. c = Received.from
    BY <1>1, <2>2 DEF ReplyTo
  <2>4. \A d \in Clients : d # Received.from => call'[d] = call[d]
    BY <1>1, <2>2 DEF ReplyTo
  <2>5. call[c].kind = "until" /\ call[c].arg = Received.arg
    BY <2>1, <2>3, <2>4, RequestIsTimely
  <2> QED BY <1>1, <2>2, <2>5 DEF ReplyTo
<1>5. CASE call' = call
  BY <1>5
<1>6. ASSUME NEW d \in Clients, NEW kind \in {"delay", "until", "time"}, NEW n,
             Call(d, kind, n)
      PROVE  FALSE
  <2>1. call' = [call EXCEPT ![d] =
                    [kind |-> kind, arg |-> n, since |-> ticks]]
        /\ call[d] = NoCall
    BY <1>6 DEF Call
  <2>2. c # d
    BY <2>1
  <2> QED BY <1>1, <2>1, <2>2
<1>7. \/ WakeNext \/ ReceiveTime \/ ReceiveDelayUntil \/ call' = call
      \/ \E d \in Clients : \E n :
                               \/ Call(d, "time", n)
                               \/ Call(d, "delay", n)
                               \/ Call(d, "until", n)
  <2>1. CASE Server
    BY <2>1 DEF Server, ReceiveNotify, WokeAll, ReceiveDelay
  <2>2. ASSUME NEW d \in Clients, Client(d)
        PROVE  \/ call' = call
               \/ \E n : \/ Call(d, "time", n)
                         \/ Call(d, "delay", n)
                         \/ Call(d, "until", n)
    BY <2>2 DEF Client, Time, Delay, DelayUntil, Abort
  <2>3. CASE ~Server /\ ~ \E d \in Clients : Client(d)
    BY <2>3 DEF Next, Tick, MissedTick, Notify, Abort, vars
  <2> QED BY <2>1, <2>2, <2>3
<1> QED BY <1>2, <1>3, <1>4, <1>5, <1>6, <1>7

(***************************************************************************)
(* Nobody is woken before its time, as long as no deadline passes INT_MAX: *)
(* a Delay lasts the ticks that were asked for, counted from the call and  *)
(* not from when clock_server receives it.                                 *)
(***************************************************************************)
THEOREM NobodyIsWokenEarly ==
  ASSUME NoOverflow
  PROVE  Spec => NobodyWakesEarly
<1>1. ASSUME WakeInv, [Next]_vars
      PROVE  [\A c \in Clients :
                call[c] # NoCall /\ call'[c] = NoCall =>
                  /\ call[c].kind = "delay" =>
                       ticks - call[c].since >= call[c].arg
                  /\ call[c].kind = "until" =>
                       \/ ticks >= call[c].arg
                       \/ answer' = ERR_MISSED_DEADLINE]_vars
  BY <1>1, AnswersAreDue
<1> QED BY <1>1, WakeInvariant, PTL DEF Spec, NobodyWakesEarly
=============================================================================

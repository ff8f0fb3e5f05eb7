-------------------------- MODULE SmallPartsProofs --------------------------
(***************************************************************************)
(* The theorems about the parts that SmallParts runs side by side: the     *)
(* priority queue, the name server, the parser and the line of the task    *)
(* launcher, the search of the bitmap and the writing of numbers, each by  *)
(* itself.                                                                 *)
(***************************************************************************)
EXTENDS SmallParts, PriorityQueueProofs, SequenceTheorems

-----------------------------------------------------------------------------
(* The priority queue holds the bag of what was added and not yet deleted. *)

UInv == IsHeap(q) /\ HoldsWhatWasAdded

LEMMA AddKeeps ==
  ASSUME UInv, NEW key \in KEYS, NEW val \in VALUES, Add(key, val)
  PROVE  UInv' /\ pq_size(q') = pq_size(q) + 1
<1> DEFINE node == [key |-> key, val |-> val]
<1>1. PICK pq : pq = q
  OBVIOUS
<1>2. PICK new : new = pq_add(pq, key, val)
  OBVIOUS
<1>3. PICK all : all = [count |-> pq.count + 1,
                        heap  |-> [pq.heap EXCEPT ![pq.count] = node]]
  OBVIOUS
<1>4. /\ IsHeap(pq) /\ pq.count < SIZE /\ key \in Int /\ key <= INT_MAX
      /\ q' = new /\ held' = held (+) SetToBag({node})
      /\ Contents(pq) = held
  BY <1>1, <1>2, KeysAssumption DEF UInv, HoldsWhatWasAdded, Add, pq_size
<1>5. /\ IsHeap(new) /\ new.count = pq.count + 1
      /\ SameNodes(new.heap, all.heap, new.count)
  <2>1. all.heap = [pq.heap EXCEPT ![pq.count] = [key |-> key, val |-> val]]
    BY <1>3
  <2> QED BY <1>2, <1>4, <2>1, HeapAdds
<1>6. /\ pq.count \in Nat /\ pq.count \in Slots /\ pq.heap \in Heaps
      /\ \A i \in 0 .. pq.count - 1 : i \in Slots /\ i # pq.count
  BY <1>4, HeapIs, SizeAssumption DEF Slots
<1>7. /\ all.count = pq.count + 1 /\ all.heap[pq.count] = node
      /\ \A i \in 0 .. pq.count - 1 : all.heap[i] = pq.heap[i]
  BY <1>3, <1>6 DEF Heaps
<1> HIDE DEF node
<1>8. Contents(all) = Contents(pq) (+) SetToBag({node})
  BY <1>6, <1>7, ContentsAdd
<1>9. Contents(new) = Contents(all)
  <2>1. new.count \in Nat /\ all.count = new.count
    BY <1>5, <1>6, <1>7
  <2> QED BY <1>5, <2>1, SameContents
<1>10. IsHeap(q') /\ Contents(q') = held' /\ pq_size(q') = pq_size(q) + 1
  BY <1>1, <1>4, <1>5, <1>8, <1>9 DEF pq_size
<1> QED BY <1>10 DEF UInv, HoldsWhatWasAdded

LEMMA DeleteKeeps ==
  ASSUME UInv, Delete
  PROVE  /\ UInv'
         /\ BagIn(last', held)
         /\ \A n \in BagToSet(held) : last'.key <= n.key
<1>1. PICK pq : pq = q
  OBVIOUS
<1>2. PICK new : new = pq_delete(pq)
  OBVIOUS
<1>3. PICK rest : rest = [count |-> pq.count - 1,
                          heap  |-> [pq.heap EXCEPT ![0] =
                                       pq.heap[pq.count - 1]]]
  OBVIOUS
<1>4. /\ IsHeap(pq) /\ pq.count > 0 /\ q' = new
      /\ last' = [key |-> pq.heap[0].key, val |-> pq.heap[0].val]
      /\ held' = held (-) SetToBag({last'}) /\ Contents(pq) = held
  BY <1>1, <1>2
  DEF UInv, HoldsWhatWasAdded, Delete, pq_size, pq_peek_key, pq_peek_val
<1>5. /\ pq.count \in Nat /\ pq.count - 1 \in Nat /\ pq.heap \in Heaps
      /\ 0 \in Slots /\ 0 \in 0 .. pq.count - 1
      /\ \A i \in 0 .. pq.count - 1 : i \in Slots
      /\ \A i \in 0 .. (pq.count - 1) - 1 : i \in Slots
  BY <1>4, HeapIs, SizeAssumption DEF Slots
<1>6. /\ IsHeap(new) /\ new.count = pq.count - 1
      /\ SameNodes(new.heap, rest.heap, new.count)
      /\ \A i \in Slots : pq.heap[0].key <= pq.heap[i].key
  <2>1. rest.heap = [pq.heap EXCEPT ![0] = pq.heap[pq.count - 1]]
    BY <1>3
  <2>2. pq.count # 0
    BY <1>4
  <2> QED BY <1>2, <1>4, <2>1, <2>2, HeapDeletes
<1>7. last' = pq.heap[0]
  BY <1>4, <1>5 DEF Heaps, Nodes
<1>8. /\ rest.count = pq.count - 1
      /\ \A i \in 0 .. rest.count - 1 :
           rest.heap[i] = IF i = 0 THEN pq.heap[rest.count] ELSE pq.heap[i]
  BY <1>3, <1>5 DEF Heaps
<1>9. Contents(rest) = Contents(pq) (-) SetToBag({pq.heap[0]})
  <2>1. rest.count \in Nat /\ pq.count = rest.count + 1
    BY <1>5, <1>8
  <2> QED BY <1>8, <2>1, ContentsDelete
<1>10. Contents(new) = Contents(rest)
  <2>1. new.count \in Nat /\ rest.count = new.count
    BY <1>5, <1>6, <1>8
  <2> QED BY <1>6, <2>1, SameContents
<1>11. IsHeap(q') /\ Contents(q') = held'
  BY <1>4, <1>6, <1>7, <1>9, <1>10
<1>12. BagToSet(held) = {pq.heap[i] : i \in 0 .. pq.count - 1}
  BY <1>4, <1>5, WhereIs DEF BagToSet
<1>13. BagIn(last', held)
  BY <1>5, <1>7, <1>12 DEF BagIn
<1>14. \A n \in BagToSet(held) : last'.key <= n.key
  BY <1>5, <1>6, <1>7, <1>12
<1> QED BY <1>11, <1>13, <1>14 DEF UInv, HoldsWhatWasAdded

LEMMA QueueInvariant == USpec => []UInv
<1>1. UInit => UInv
  <2> SUFFICES ASSUME UInit PROVE UInv
    OBVIOUS
  <2>1. IsHeap(q) /\ q.count = 0
    BY InitIsHeap DEF UInit, pq_init
  <2>2. Contents(q) = EmptyBag
    BY <2>1 DEF Contents, EmptyBag, SetToBag
  <2> QED BY <2>1, <2>2 DEF UInit, UInv, HoldsWhatWasAdded
<1>2. UInv /\ [UNext]_qvars => UInv'
  <2> SUFFICES ASSUME UInv, [UNext]_qvars PROVE UInv'
    OBVIOUS
  <2>1. CASE Delete
    BY <2>1, DeleteKeeps
  <2>2. CASE \E key \in KEYS, val \in VALUES : Add(key, val)
    BY <2>2, AddKeeps
  <2>3. CASE UNCHANGED qvars
    BY <2>3 DEF qvars, UInv, HoldsWhatWasAdded
  <2> QED BY <2>1, <2>2, <2>3 DEF UNext
<1> QED BY <1>1, <1>2, PTL DEF USpec

(***************************************************************************)
(* After any calls of pq_add and pq_delete the heap holds every node that  *)
(* was added and not deleted, as often as it was added, and nothing else.  *)
(***************************************************************************)
THEOREM QueueHoldsItsBag == USpec => []HoldsWhatWasAdded
<1>1. UInv => HoldsWhatWasAdded
  BY DEF UInv
<1> QED BY <1>1, QueueInvariant, PTL

(***************************************************************************)
(* What pq_delete takes was in the queue, and no key in it was smaller.    *)
(***************************************************************************)
THEOREM QueueDeletesTheSmallest == USpec => DeletesTheSmallest
<1> DEFINE Takes == pq_size(q') < pq_size(q) =>
                      /\ BagIn(last', held)
                      /\ \A n \in BagToSet(held) : last'.key <= n.key
<1>1. UInv /\ [UNext]_qvars => [Takes]_qvars
  <2> SUFFICES ASSUME UInv, [UNext]_qvars PROVE [Takes]_qvars
    OBVIOUS
  <2>1. CASE Delete
    BY <2>1, DeleteKeeps
  <2>2. CASE \E key \in KEYS, val \in VALUES : Add(key, val)
    <3>1. pq_size(q') = pq_size(q) + 1 /\ pq_size(q) \in Nat
      BY <2>2, AddKeeps, HeapIs DEF UInv, pq_size
    <3> HIDE DEF DeletesTheSmallest
    <3> QED BY <3>1
  <2>3. CASE UNCHANGED qvars
    BY <2>3
  <2> QED BY <2>1, <2>2, <2>3 DEF UNext
<1> QED BY <1>1, QueueInvariant, PTL DEF USpec, DeletesTheSmallest

-----------------------------------------------------------------------------
(* The name server implements NameRegistry, for any set of clients and     *)
(* names and any size of the table.  The inductive invariant is the type   *)
(* invariant with OneEntryPerName; it makes the owner that the refinement  *)
(* mapping reads off the table unique, and the number of names that have   *)
(* an owner the length of the table.                                       *)

NInv == TypeOK /\ OneEntryPerName

(* A search returns 0 when nothing is found, and otherwise an index of     *)
(* what it looked for.                                                     *)
LEMMA FirstFinds ==
  ASSUME NEW T, NEW s \in Seq(T), NEW x
  PROVE  \/ First(s, x) = 0 /\ \A i \in DOMAIN s : s[i] # x
         \/ First(s, x) \in DOMAIN s /\ s[First(s, x)] = x
<1> DEFINE Found(i) == i \in DOMAIN s /\ s[i] = x
           Earliest(i) == Found(i) /\ \A j \in 1 .. i - 1 : s[j] # x
<1>1. CASE \A i \in DOMAIN s : s[i] # x
  BY <1>1 DEF First
<1>2. CASE \E i \in DOMAIN s : s[i] = x
  <2> DEFINE R == {ss \in Nat \X Nat : ss[1] < ss[2]}
             Hits == {i \in DOMAIN s : s[i] = x}
  <2>1. Hits # {} /\ Hits \subseteq Nat
    BY <1>2, LenProperties
  <2>2. PICK k \in Hits : Earliest(k)
    <3>1. IsWellFoundedOn(R, Nat)
      BY NatLessThanWellFounded DEF OpToRel
    <3>2. PICK k \in Hits : \A j \in Hits : ~(<<j, k>> \in R)
      <4>1. IsWellFoundedOn(R, Nat)
        BY <3>1
      <4> HIDE DEF R, Hits
      <4> QED
        BY <2>1, <4>1, WFMin
    <3>3. ASSUME NEW j \in 1 .. k - 1, s[j] = x PROVE FALSE
      <4>1. j \in Hits /\ j \in Nat /\ k \in Nat /\ j < k
        BY <3>3, <2>1, LenProperties
      <4>2. <<j, k>> \in R
        BY <4>1
      <4> QED
        BY <3>2, <4>1, <4>2
    <3> QED
      BY <3>3
  <2>3. PICK i \in DOMAIN s : i = First(s, x) /\ Earliest(i)
    BY <1>2, <2>2 DEF First
  <2> QED
    BY <2>3
<1> QED
  BY <1>1, <1>2

-----------------------------------------------------------------------------
(* The invariant.                                                          *)

LEMMA NInvInit == Init => NInv
<1> SUFFICES ASSUME Init PROVE NInv
  OBVIOUS
<1>1. /\ lookup \in Seq(Names) /\ Len(lookup) = 1
      /\ tasks \in Seq(Registry!Tasks) /\ Len(tasks) = 1
      /\ DOMAIN lookup = 1 .. 1
  BY NamesAssumption DEF Init, Registry!Tasks
<1>2. TypeOK
  BY <1>1, NameMaxAssumption DEF Init, TypeOK, NoCall
<1>3. OneEntryPerName
  BY <1>1 DEF OneEntryPerName
<1> QED
  BY <1>2, <1>3 DEF NInv

(* The client at the head of the inbox has called.                         *)
LEMMA ReceivedCall ==
  ASSUME TypeOK, inbox # <<>>
  PROVE  /\ tid \in Clients
         /\ inbox' = Tail(inbox) => inbox' \in Seq(Clients)
         /\ Payload \in Registry!Calls \cup {NoCall}
BY HeadTailProperties DEF TypeOK, tid, Payload

(* A call ends, with the table as it was.                                  *)
LEMMA AnswerKeeps ==
  ASSUME NInv, NEW a, NEW k, Receive(k), Reply(a), UNCHANGED <<lookup, tasks>>
  PROVE  NInv'
<1>1. TypeOK'
  BY ReceivedCall DEF NInv, TypeOK, Receive, Reply
<1> QED
  BY <1>1 DEF NInv, OneEntryPerName

LEMMA RegisterKeeps == NInv /\ register_tid => NInv'
<1> SUFFICES ASSUME NInv, register_tid PROVE NInv'
  OBVIOUS
<1> DEFINE name == Payload.name
           loc  == find_loc(lookup, name)
<1>1. /\ TypeOK /\ OneEntryPerName
      /\ inbox # <<>> /\ inbox' = Tail(inbox)
      /\ Payload.kind = "RegisterAs"
  BY DEF NInv, register_tid, Receive, Payload, tid
<1>2. tid \in Clients /\ name \in Names /\ inbox' \in Seq(Clients)
  BY <1>1, ReceivedCall DEF Registry!Calls, NoCall, Registry!NoCall
<1>3. \/ loc = 0 /\ \A i \in DOMAIN lookup : lookup[i] # name
      \/ loc \in DOMAIN lookup /\ lookup[loc] = name
  BY <1>1, FirstFinds DEF find_loc, TypeOK
<1>4. call' \in [Clients -> Registry!Calls \cup {NoCall}]
  BY <1>1, <1>2 DEF register_tid, Reply, TypeOK
<1>5. CASE /\ loc = 0 /\ Len(lookup) < NAME_MAX
           /\ lookup' = Append(lookup, name)
           /\ tasks' = Append(tasks, tid)
  <2>1. /\ lookup' \in Seq(Names) /\ Len(lookup') = Len(lookup) + 1
        /\ \A i \in 1 .. Len(lookup) : lookup'[i] = lookup[i]
        /\ lookup'[Len(lookup) + 1] = name
    BY <1>1, <1>2, <1>5, AppendProperties DEF TypeOK
  <2>2. /\ tasks' \in Seq(Registry!Tasks) /\ Len(tasks') = Len(tasks) + 1
    BY <1>1, <1>2, <1>5, AppendProperties DEF TypeOK, Registry!Tasks
  <2>3. DOMAIN lookup = 1 .. Len(lookup) /\ DOMAIN lookup' = 1 .. Len(lookup')
    BY <1>1, <2>1, LenProperties DEF TypeOK
  <2>4. TypeOK'
    BY <1>1, <1>2, <1>4, <1>5, <2>1, <2>2, NameMaxAssumption DEF TypeOK
  <2>5. OneEntryPerName'
    <3> SUFFICES ASSUME NEW i \in DOMAIN lookup', NEW j \in DOMAIN lookup',
                        lookup'[i] = lookup'[j]
                 PROVE  i = j
      BY DEF OneEntryPerName
    <3>1. \A k \in DOMAIN lookup : lookup'[k] # name
      BY <1>3, <1>5, <2>1, <2>3
    <3>2. Len(lookup) \in Nat
      BY <1>1 DEF TypeOK
    <3>3. /\ i \in DOMAIN lookup \/ i = Len(lookup) + 1
          /\ j \in DOMAIN lookup \/ j = Len(lookup) + 1
      BY <2>1, <2>3, <3>2
    <3>4. CASE i \in DOMAIN lookup /\ j \in DOMAIN lookup
      BY <1>1, <2>1, <2>3, <3>4 DEF OneEntryPerName
    <3> QED
      BY <2>1, <3>1, <3>3, <3>4
  <2> QED
    BY <2>4, <2>5 DEF NInv
<1>6. CASE UNCHANGED <<lookup, tasks>>
  BY <1>1, <1>2, <1>4, <1>6 DEF NInv, TypeOK, OneEntryPerName
<1>7. CASE /\ loc # 0
           /\ tasks' = [tasks EXCEPT ![loc] = tid]
           /\ UNCHANGED lookup
  <2>1. loc \in 1 .. Len(tasks)
    BY <1>1, <1>3, <1>7, LenProperties DEF TypeOK
  <2>2. tid \in Registry!Tasks /\ tasks \in Seq(Registry!Tasks)
    BY <1>1, <1>2 DEF TypeOK, Registry!Tasks
  <2>3. /\ tasks' \in Seq(Registry!Tasks) /\ Len(tasks') = Len(tasks)
    BY <1>7, <2>1, <2>2, ExceptSeq
  <2> QED
    BY <1>1, <1>2, <1>4, <1>7, <2>3 DEF NInv, TypeOK, OneEntryPerName
<1> QED
  BY <1>5, <1>6, <1>7 DEF register_tid, Room

LEMMA SendKeeps ==
  ASSUME NInv, NEW c \in Clients, NEW request \in Registry!Calls,
         Send(c, request)
  PROVE  NInv'
<1>1. inbox' \in Seq(Clients)
  BY AppendProperties DEF NInv, TypeOK, Send
<1>2. call' \in [Clients -> Registry!Calls \cup {NoCall}]
  BY DEF NInv, TypeOK, Send
<1> QED
  BY <1>1, <1>2 DEF NInv, TypeOK, OneEntryPerName, Send

LEMMA SendNameKeeps ==
  ASSUME NInv, NEW c \in Clients, NEW kind \in {"RegisterAs", "WhoIs"},
         NEW n \in Names, SendName(c, kind, n)
  PROVE  NInv'
<1>1. CASE n \in Long
  BY <1>1 DEF NInv, TypeOK, OneEntryPerName, SendName
<1>2. CASE n \notin Long
  <2>1. [kind |-> kind, name |-> n] \in Registry!Calls
    BY DEF Registry!Calls
  <2> QED
    BY <1>2, <2>1, SendKeeps DEF SendName
<1> QED
  BY <1>1, <1>2

LEMMA NInvNext == NInv /\ [Next]_vars => NInv'
<1> SUFFICES ASSUME NInv, [Next]_vars PROVE NInv'
  OBVIOUS
<1>1. ASSUME NEW c \in Clients, NEW n \in Names,
             RegisterAs(c, n) \/ WhoIs(c, n)
      PROVE  NInv'
  BY <1>1, SendNameKeeps DEF RegisterAs, WhoIs
<1>2. ASSUME NEW c \in Clients, NEW t \in Registry!Tasks, WhoTid(c, t)
      PROVE  NInv'
  <2>1. [kind |-> "WhoTid", tid |-> t] \in Registry!Calls
    BY DEF Registry!Calls
  <2> QED
    BY <1>2, <2>1, SendKeeps DEF WhoTid
<1>3. CASE register_tid
  BY <1>3, RegisterKeeps
<1>4. CASE lookup_tid
  BY <1>4, AnswerKeeps DEF lookup_tid
<1>5. CASE lookup_name
  BY <1>5, AnswerKeeps DEF lookup_name
<1>6. CASE UNCHANGED vars
  BY <1>6 DEF NInv, TypeOK, OneEntryPerName, vars
<1> QED
  BY <1>1, <1>2, <1>3, <1>4, <1>5, <1>6 DEF Next, name_server

(* The table stays within its arrays, and no name gets two entries, for    *)
(* any clients and names and any size of the table (register_tid).         *)
THEOREM NamesAreUnique == Spec => [](TypeOK /\ OneEntryPerName)
<1>1. NInv => TypeOK /\ OneEntryPerName
  BY DEF NInv
<1> QED
  BY <1>1, NInvInit, NInvNext, PTL DEF Spec

-----------------------------------------------------------------------------
(* The refinement.                                                         *)

\* The owners that a table of names l and tasks t stands for.
Owners(l, t) ==
  [n \in Names |-> IF \E i \in DOMAIN l : l[i] = n
                   THEN t[CHOOSE i \in DOMAIN l : l[i] = n]
                   ELSE NO_TASK]

\* A table: no name twice, and a task for each.
Table(l, t) ==
  /\ l \in Seq(Names) /\ t \in Seq(Registry!Tasks) /\ Len(t) = Len(l)
  /\ \A i, j \in DOMAIN l : l[i] = l[j] => i = j

LEMMA OwnersOf ==
  ASSUME NEW l, NEW t, Table(l, t)
  PROVE  /\ \A i \in DOMAIN l : /\ l[i] \in Names /\ t[i] \in Registry!Tasks
                                /\ Owners(l, t)[l[i]] = t[i]
                                /\ t[i] # NO_TASK
         /\ \A n \in Names : (\A i \in DOMAIN l : l[i] # n)
                                => Owners(l, t)[n] = NO_TASK
<1>1. /\ DOMAIN l = 1 .. Len(l) /\ DOMAIN t = 1 .. Len(l)
      /\ l \in [1 .. Len(l) -> Names]
      /\ t \in [1 .. Len(l) -> Registry!Tasks]
  BY LenProperties DEF Table
<1>2. ASSUME NEW i \in DOMAIN l
      PROVE  (CHOOSE j \in DOMAIN l : l[j] = l[i]) = i
  BY <1>2 DEF Table
<1>3. ASSUME NEW i \in DOMAIN l
      PROVE  /\ l[i] \in Names /\ t[i] \in Registry!Tasks
             /\ Owners(l, t)[l[i]] = t[i]
  BY <1>1, <1>2, <1>3 DEF Owners
<1>4. NO_TASK \notin Registry!Tasks
  BY TasksAssumption DEF Registry!Tasks
<1>5. ASSUME NEW n \in Names, \A i \in DOMAIN l : l[i] # n
      PROVE  Owners(l, t)[n] = NO_TASK
  BY <1>5 DEF Owners
<1> QED
  BY <1>3, <1>4, <1>5

(* As many names have an owner as the table has entries.                   *)
LEMMA OwnedNames ==
  ASSUME NEW l, NEW t, Table(l, t)
  PROVE  /\ {n \in Names : Owners(l, t)[n] # NO_TASK} = {l[i] : i \in DOMAIN l}
         /\ Cardinality({l[i] : i \in DOMAIN l}) = Len(l)
<1> DEFINE Owned == {l[i] : i \in DOMAIN l}
<1>1. {n \in Names : Owners(l, t)[n] # NO_TASK} = Owned
  BY OwnersOf
<1>2. /\ DOMAIN l = 1 .. Len(l) /\ Len(l) \in Nat
      /\ l \in [1 .. Len(l) -> Names]
  BY LenProperties DEF Table
<1>3. l \in Surjection(1 .. Len(l), Owned) /\ l \in Injection(1 .. Len(l), Owned)
  BY <1>2 DEF Table, Surjection, Injection, IsInjective
<1>4. IsFiniteSet(1 .. Len(l)) /\ Cardinality(1 .. Len(l)) = Len(l)
  BY <1>2, FS_Interval
<1>5. Cardinality(Owned) = Cardinality(1 .. Len(l))
  <2> HIDE DEF Owned
  <2> QED
    BY <1>3, <1>4, FS_Surjection
<1> QED
  BY <1>1, <1>4, <1>5

(* The mapping in terms of Owners, before and after a step.                *)
LEMMA Mapping ==
  ASSUME NInv
  PROVE  /\ Table(lookup, tasks)
         /\ Registry!Owned = {lookup[i] : i \in DOMAIN lookup}
         /\ Registry!Cardinality(Registry!Owned) = Len(lookup)
<1>1. Table(lookup, tasks)
  BY DEF NInv, TypeOK, OneEntryPerName, Table
<1>2. Registry!Owned = {n \in Names : Owners(lookup, tasks)[n] # NO_TASK}
  BY DEF Registry!Owned, Owners
<1>3. Cardinality(Registry!Owned) = Len(lookup)
  BY <1>1, <1>2, OwnedNames
<1>4. Registry!Cardinality(Registry!Owned) = Cardinality(Registry!Owned)
  BY DEF Registry!Cardinality, Cardinality
<1> QED
  BY <1>1, <1>2, <1>3, <1>4, OwnedNames

LEMMA InitMaps == Init => Registry!RInit
<1> SUFFICES ASSUME Init PROVE Registry!RInit
  OBVIOUS
<1>1. DOMAIN lookup = {1} /\ lookup[1] = NAME /\ tasks[1] = SERVER
  BY DEF Init
<1>2. \A n \in Names : Owners(lookup, tasks)[n]
                         = IF n = NAME THEN SERVER ELSE NO_TASK
  <2> SUFFICES ASSUME NEW n \in Names
               PROVE  Owners(lookup, tasks)[n]
                        = IF n = NAME THEN SERVER ELSE NO_TASK
    OBVIOUS
  <2>1. CASE n = NAME
    <3>1. (CHOOSE i \in DOMAIN lookup : lookup[i] = n) = 1
      BY <1>1, <2>1
    <3> QED
      BY <1>1, <2>1, <3>1 DEF Owners
  <2>2. CASE n # NAME
    BY <1>1, <2>2 DEF Owners
  <2> QED
    BY <2>1, <2>2
<1> QED
  BY <1>2 DEF Init, Owners, Registry!RInit, Registry!OK, NoCall

LEMMA SendMaps ==
  ASSUME NEW c \in Clients, NEW request \in Registry!Calls, Send(c, request)
  PROVE  Registry!Begin(c, request)
BY DEF Send, Registry!Begin, Owners, NoCall

LEMMA SendNameMaps ==
  ASSUME NEW c \in Clients, NEW kind \in {"RegisterAs", "WhoIs"},
         NEW n \in Names, SendName(c, kind, n)
  PROVE  Registry!RNext
<1>1. CASE n \in Long
  <2>1. Registry!RefuseLong(c)
    BY <1>1 DEF SendName, Registry!RefuseLong, NoCall, Registry!TOO_LONG
  <2> QED
    BY <2>1 DEF Registry!RNext
<1>2. CASE n \notin Long
  <2>1. [kind |-> kind, name |-> n] \in Registry!Calls
    BY DEF Registry!Calls
  <2> QED
    BY <1>2, <2>1, SendMaps DEF SendName, Registry!RNext
<1> QED
  BY <1>1, <1>2

(* An entry that is new, none, or an old entry with a new task.            *)
LEMMA RegisterMaps == NInv /\ NInv' /\ register_tid => Registry!RNext
<1> SUFFICES ASSUME NInv, NInv', register_tid PROVE Registry!RNext
  OBVIOUS
<1> DEFINE name == Payload.name
           loc  == find_loc(lookup, name)
<1>1. /\ TypeOK /\ inbox # <<>>
      /\ call[tid].kind = "RegisterAs" /\ name = call[tid].name
  BY DEF NInv, register_tid, Receive, Payload, tid
<1>2. tid \in Clients /\ name \in Names
  BY <1>1, ReceivedCall DEF Registry!Calls, NoCall, Registry!NoCall, Payload
<1>12. PICK c \in Clients : c = tid
  BY <1>2
<1>3. /\ lookup \in Seq(Names) /\ DOMAIN lookup = 1 .. Len(lookup)
      /\ tasks \in Seq(Registry!Tasks) /\ DOMAIN tasks = 1 .. Len(lookup)
      /\ Len(lookup) \in Nat
  BY <1>1, LenProperties DEF TypeOK
<1>4. \/ loc = 0 /\ \A i \in DOMAIN lookup : lookup[i] # name
      \/ loc \in DOMAIN lookup /\ lookup[loc] = name
  BY <1>3, FirstFinds DEF find_loc
<1>5. /\ Table(lookup, tasks)
      /\ Registry!Owned = {lookup[i] : i \in DOMAIN lookup}
      /\ Registry!Cardinality(Registry!Owned) = Len(lookup)
  BY Mapping
<1>6. Table(lookup', tasks')
  BY DEF NInv, TypeOK, OneEntryPerName, Table
<1>7. /\ \A i \in DOMAIN lookup : Owners(lookup, tasks)[lookup[i]] = tasks[i]
      /\ \A n \in Names : (\A i \in DOMAIN lookup : lookup[i] # n)
                            => Owners(lookup, tasks)[n] = NO_TASK
  BY <1>5, OwnersOf
<1>8. /\ \A i \in DOMAIN lookup' : Owners(lookup', tasks')[lookup'[i]] = tasks'[i]
      /\ \A n \in Names : (\A i \in DOMAIN lookup' : lookup'[i] # n)
                            => Owners(lookup', tasks')[n] = NO_TASK
  BY <1>6, OwnersOf
<1>9. CASE /\ loc = 0 /\ Len(lookup) < NAME_MAX /\ Reply(0)
           /\ lookup' = Append(lookup, name)
           /\ tasks' = Append(tasks, tid)
  <2>1. /\ \A i \in DOMAIN lookup : /\ lookup'[i] = lookup[i]
                                    /\ tasks'[i] = tasks[i]
        /\ lookup'[Len(lookup) + 1] = name /\ tasks'[Len(lookup) + 1] = tid
        /\ DOMAIN lookup' = 1 .. Len(lookup) + 1
    BY <1>2, <1>3, <1>9, <1>1 DEF TypeOK
  <2>2. ASSUME NEW n \in Names
        PROVE  Owners(lookup', tasks')[n]
                 = IF n = name THEN tid ELSE Owners(lookup, tasks)[n]
    <3>1. CASE n = name
      BY <1>3, <1>8, <2>1, <3>1
    <3>2. CASE n # name /\ \E i \in DOMAIN lookup : lookup[i] = n
      BY <1>3, <1>7, <1>8, <2>1, <3>2
    <3>3. CASE n # name /\ \A i \in DOMAIN lookup : lookup[i] # n
      BY <1>3, <1>7, <1>8, <2>1, <3>3
    <3> QED
      BY <3>1, <3>2, <3>3
  <2>3. Owners(lookup', tasks') = [Owners(lookup, tasks) EXCEPT ![name] = tid]
    BY <2>2 DEF Owners
  <2>5. name \in Registry!Owned \/ Registry!Cardinality(Registry!Owned) < NAME_MAX
    BY <1>5, <1>9
  <2>4. Registry!Register(c)
    BY <1>1, <1>9, <1>12, <2>3, <2>5
       DEF Registry!Register, Registry!End, Registry!OK, Reply, NoCall, Owners
  <2> QED
    BY <2>4 DEF Registry!RNext
<1>10. CASE /\ loc = 0 /\ ~(Len(lookup) < NAME_MAX) /\ Reply(-69)
            /\ UNCHANGED <<lookup, tasks>>
  <2>1. name \notin Registry!Owned
    BY <1>3, <1>4, <1>5, <1>10
  <2>3. Registry!Cardinality(Registry!Owned) >= NAME_MAX
    <3>1. Len(lookup) >= NAME_MAX
      BY <1>3, <1>10, NameMaxAssumption
    <3>2. Registry!Cardinality(Registry!Owned) = Len(lookup)
      BY <1>5
    <3> QED
      BY <3>1, <3>2
  <2>2. Registry!Register(c)
    BY <1>1, <1>10, <1>12, <2>1, <2>3
       DEF Registry!Register, Registry!End, Registry!FULL, Reply, NoCall
  <2> QED
    BY <2>2 DEF Registry!RNext
<1>11. CASE /\ loc # 0 /\ Reply(0)
            /\ tasks' = [tasks EXCEPT ![loc] = tid]
            /\ UNCHANGED lookup
  <2>1. loc \in DOMAIN lookup /\ lookup[loc] = name
    BY <1>4, <1>11
  <2>2. ASSUME NEW n \in Names
        PROVE  Owners(lookup', tasks')[n]
                 = IF n = name THEN tid ELSE Owners(lookup, tasks)[n]
    <3>1. CASE n = name
      BY <1>3, <1>8, <1>11, <2>1, <3>1
    <3>2. CASE n # name /\ \E i \in DOMAIN lookup : lookup[i] = n
      <4>1. PICK i \in DOMAIN lookup : lookup[i] = n
        BY <3>2
      <4>2. i # loc /\ tasks'[i] = tasks[i]
        BY <1>3, <1>11, <2>1, <3>2, <4>1
      <4> QED
        BY <1>7, <1>8, <1>11, <3>2, <4>1, <4>2
    <3>3. CASE n # name /\ \A i \in DOMAIN lookup : lookup[i] # n
      BY <1>7, <1>8, <1>11, <3>3
    <3> QED
      BY <3>1, <3>2, <3>3
  <2>3. Owners(lookup', tasks') = [Owners(lookup, tasks) EXCEPT ![name] = tid]
    BY <2>2 DEF Owners
  <2>4. name \in Registry!Owned
    BY <1>5, <2>1
  <2>5. Registry!Register(c)
    BY <1>1, <1>11, <1>12, <2>3, <2>4
       DEF Registry!Register, Registry!End, Registry!OK, Reply, NoCall, Owners
  <2> QED
    BY <2>5 DEF Registry!RNext
<1> QED
  BY <1>9, <1>10, <1>11 DEF register_tid, Room

LEMMA LookupMaps == NInv /\ lookup_tid => Registry!RNext
<1> SUFFICES ASSUME NInv, lookup_tid PROVE Registry!RNext
  OBVIOUS
<1> DEFINE name == Payload.name
           loc  == find_loc(lookup, name)
<1>1. /\ TypeOK /\ inbox # <<>>
      /\ call[tid].kind = "WhoIs" /\ name = call[tid].name
  BY DEF NInv, lookup_tid, Receive, Payload, tid
<1>2. tid \in Clients /\ name \in Names
  BY <1>1, ReceivedCall DEF Registry!Calls, NoCall, Registry!NoCall, Payload
<1>3. PICK c \in Clients : c = tid
  BY <1>2
<1>4. /\ Table(lookup, tasks)
      /\ Registry!Owned = {lookup[i] : i \in DOMAIN lookup}
  BY Mapping
<1>5. /\ lookup \in Seq(Names) /\ DOMAIN lookup = 1 .. Len(lookup)
  BY <1>4, LenProperties DEF Table
<1>6. \/ loc = 0 /\ \A i \in DOMAIN lookup : lookup[i] # name
      \/ loc \in DOMAIN lookup /\ lookup[loc] = name
  BY <1>5, FirstFinds DEF find_loc
<1>7. answer' = IF name \in Registry!Owned THEN Owners(lookup, tasks)[name]
                ELSE -69
  <2>1. CASE loc = 0
    BY <1>4, <1>5, <1>6, <2>1 DEF lookup_tid, Reply
  <2>2. CASE loc # 0
    <3>1. name \in Registry!Owned /\ Owners(lookup, tasks)[name] = tasks[loc]
      BY <1>4, <1>6, <2>2, OwnersOf
    <3> QED
      BY <2>2, <3>1 DEF lookup_tid, Reply
  <2> QED
    BY <2>1, <2>2
<1>8. Registry!Find(c)
  BY <1>1, <1>3, <1>7
     DEF lookup_tid, Reply, Registry!Find, Registry!End, Registry!FULL, NoCall,
         Owners
<1> QED
  BY <1>8 DEF Registry!RNext

LEMMA ReverseMaps == NInv /\ lookup_name => Registry!RNext
<1> SUFFICES ASSUME NInv, lookup_name PROVE Registry!RNext
  OBVIOUS
<1> DEFINE task == Payload.tid
           loc  == find_name(tasks, task)
           names == {n \in Names : Owners(lookup, tasks)[n] = task}
<1>1. /\ TypeOK /\ inbox # <<>>
      /\ call[tid].kind = "WhoTid" /\ task = call[tid].tid
  BY DEF NInv, lookup_name, Receive, Payload, tid
<1>2. tid \in Clients /\ task \in Registry!Tasks
  BY <1>1, ReceivedCall DEF Registry!Calls, NoCall, Registry!NoCall, Payload
<1>3. PICK c \in Clients : c = tid
  BY <1>2
<1>4. Table(lookup, tasks)
  BY Mapping
<1>5. /\ tasks \in Seq(Registry!Tasks)
      /\ DOMAIN tasks = 1 .. Len(lookup) /\ DOMAIN lookup = 1 .. Len(lookup)
  BY <1>4, LenProperties DEF Table
<1>6. \/ loc = 0 /\ \A i \in DOMAIN tasks : tasks[i] # task
      \/ loc \in DOMAIN tasks /\ tasks[loc] = task
  BY <1>5, FirstFinds DEF find_name
<1>7. \/ names = {} /\ answer' = -63
      \/ \E n \in names : answer' = n
  <2>1. CASE loc = 0
    <3>1. ASSUME NEW n \in Names PROVE Owners(lookup, tasks)[n] # task
      <4>1. CASE \E i \in DOMAIN lookup : lookup[i] = n
        BY <1>4, <1>5, <1>6, <2>1, <4>1, OwnersOf
      <4>2. CASE \A i \in DOMAIN lookup : lookup[i] # n
        BY <1>2, <1>4, <4>2, OwnersOf, TasksAssumption DEF Registry!Tasks
      <4> QED
        BY <4>1, <4>2
    <3> QED
      BY <2>1, <3>1 DEF lookup_name, Reply
  <2>2. CASE loc # 0
    <3>1. loc \in DOMAIN lookup /\ tasks[loc] = task
      BY <1>5, <1>6, <2>2
    <3>2. lookup[loc] \in names
      BY <1>4, <3>1, OwnersOf
    <3> QED
      BY <2>2, <3>2 DEF lookup_name, Reply
  <2> QED
    BY <2>1, <2>2
<1>8. Registry!Reverse(c)
  BY <1>1, <1>3, <1>7
     DEF lookup_name, Reply, Registry!Reverse, Registry!End, Registry!NO_ENTRY,
         NoCall, Owners
<1> QED
  BY <1>8 DEF Registry!RNext

LEMMA StepMaps ==
  NInv /\ NInv' /\ [Next]_vars => [Registry!RNext]_(Registry!rvars)
<1> SUFFICES ASSUME NInv, NInv', [Next]_vars
             PROVE  [Registry!RNext]_(Registry!rvars)
  OBVIOUS
<1>1. ASSUME NEW c \in Clients, NEW n \in Names,
             RegisterAs(c, n) \/ WhoIs(c, n)
      PROVE  Registry!RNext
  BY <1>1, SendNameMaps DEF RegisterAs, WhoIs
<1>2. ASSUME NEW c \in Clients, NEW t \in Registry!Tasks, WhoTid(c, t)
      PROVE  Registry!RNext
  <2>1. [kind |-> "WhoTid", tid |-> t] \in Registry!Calls
    BY DEF Registry!Calls
  <2> QED
    BY <1>2, <2>1, SendMaps DEF WhoTid, Registry!RNext
<1>3. CASE name_server
  BY <1>3, RegisterMaps, LookupMaps, ReverseMaps DEF name_server
<1>4. CASE UNCHANGED vars
  BY <1>4 DEF vars, Registry!rvars
<1> QED
  BY <1>1, <1>2, <1>3, <1>4 DEF Next

(* The name server is a registry in which a name belongs to the task that  *)
(* registered it last and every call takes effect at one moment, for any   *)
(* clients and names and any size of the table.                            *)
THEOREM NameServerImplementsRegistry == Spec => ImplementsRegistry
<1>1. Init => Registry!RInit
  BY InitMaps
<1>2. NInv /\ NInv' /\ [Next]_vars => [Registry!RNext]_(Registry!rvars)
  BY StepMaps
<1> QED
  BY <1>1, <1>2, NInvInit, NInvNext, PTL
     DEF Spec, ImplementsRegistry, Registry!RSpec

-----------------------------------------------------------------------------
(* Recursion over 0 .. n.                                                  *)

(* A set of 0 .. n that has 0, and k when it has k - 1, has all of them.    *)
LEMMA Upward ==
  ASSUME NEW n \in Nat, NEW S \in SUBSET (0 .. n), 0 \in S,
         \A k \in 1 .. n : k - 1 \in S => k \in S
  PROVE  S = 0 .. n
<1> DEFINE Rest == (0 .. n) \ S
<1> SUFFICES ASSUME Rest # {} PROVE FALSE
  OBVIOUS
<1>1. Rest \in SUBSET Nat
  OBVIOUS
<1>2. PICK k \in Rest : \A j \in Rest : k <= j
  <2> HIDE DEF Rest
  <2> QED BY <1>1, LeastNatural
<1>3. k \in 1 .. n /\ k - 1 \in 0 .. n /\ k - 1 \notin Rest
  BY <1>2
<1> QED BY <1>3

(* f starts from base, and a step gives each of its values from the last.  *)
Recurs(f, n, base, step) ==
  f[0] = base /\ \A k \in 1 .. n : f[k] = step[k][f[k - 1]]

(* Such a function exists whenever the steps stay in a set.                 *)
LEMMA RecursionExists ==
  ASSUME NEW n \in Nat, NEW V, NEW base \in V,
         NEW step \in [1 .. n -> [V -> V]]
  PROVE  \E f \in [0 .. n -> V] : Recurs(f, n, base, step)
<1> DEFINE S == {m \in 0 .. n : \E f \in [0 .. m -> V] :
                                  Recurs(f, m, base, step)}
<1>1. 0 \in S
  <2> DEFINE f == [k \in 0 .. 0 |-> base]
  <2>1. f \in [0 .. 0 -> V] /\ f[0] = base /\ 1 .. 0 = {}
    OBVIOUS
  <2>2. Recurs(f, 0, base, step)
    <3> HIDE DEF f
    <3> QED BY <2>1 DEF Recurs
  <2> HIDE DEF f
  <2> QED BY <2>1, <2>2
<1>2. ASSUME NEW m \in 1 .. n, m - 1 \in S
      PROVE  m \in S
  <2>1. PICK f \in [0 .. m - 1 -> V] : Recurs(f, m - 1, base, step)
    BY <1>2
  <2> DEFINE g == [k \in 0 .. m |->
                     IF k = m THEN step[m][f[m - 1]] ELSE f[k]]
  <2>2. f[m - 1] \in V /\ step[m][f[m - 1]] \in V
    BY <2>1
  <2>3. g \in [0 .. m -> V]
    <3>1. ASSUME NEW k \in 0 .. m, k # m
          PROVE  f[k] \in V
      BY <2>1, <3>1
    <3> QED BY <2>2, <3>1
  <2>4. g[0] = base
    BY <2>1 DEF Recurs
  <2>5. ASSUME NEW k \in 1 .. m
        PROVE  g[k] = step[k][g[k - 1]]
    <3>1. k \in 0 .. m /\ k - 1 \in 0 .. m /\ k - 1 # m
      OBVIOUS
    <3>2. g[k - 1] = f[k - 1]
      BY <3>1
    <3>3. CASE k = m
      BY <3>1, <3>2, <3>3
    <3>4. CASE k # m
      <4>1. k \in 1 .. m - 1 /\ g[k] = f[k]
        BY <3>1, <3>4
      <4> QED BY <2>1, <3>2, <4>1 DEF Recurs
    <3> QED BY <3>3, <3>4
  <2>6. Recurs(g, m, base, step)
    <3> HIDE DEF g
    <3> QED BY <2>4, <2>5 DEF Recurs
  <2> QED BY <2>3, <2>6
<1>3. S = 0 .. n
  <2>1. S \in SUBSET (0 .. n)
    OBVIOUS
  <2> HIDE DEF S
  <2> QED BY <1>1, <1>2, <2>1, Upward
<1> QED BY <1>3

(* The powers of a base.                                                   *)
LEMMA PowersAre ==
  ASSUME NEW b \in Int, NEW n \in Nat
  PROVE  \E p \in [0 .. n -> Int] :
           /\ p[0] = 1
           /\ \A k \in 1 .. n : p[k] = b * p[k - 1]
           /\ Power(b, n) = p[n]
<1> DEFINE times == [x \in Int |-> b * x]
           step == [k \in 1 .. n |-> times]
           Eq(p) == p = [k \in 0 .. n |-> IF k = 0 THEN 1 ELSE b * p[k - 1]]
           power == CHOOSE p : Eq(p)
<1>1. Power(b, n) = power[n]
  BY DEF Power
<1>2. step \in [1 .. n -> [Int -> Int]] /\ 1 \in Int
  <2>1. times \in [Int -> Int]
    OBVIOUS
  <2> HIDE DEF times
  <2> QED BY <2>1
<1>3. \A k \in 1 .. n, x \in Int : step[k][x] = b * x
  OBVIOUS
<1> HIDE DEF step
<1>4. PICK p \in [0 .. n -> Int] : Recurs(p, n, 1, step)
  BY <1>2, RecursionExists, Zenon
<1>5. p[0] = 1 /\ \A k \in 1 .. n : p[k] = b * p[k - 1]
  <2>1. p[0] = 1 /\ \A k \in 1 .. n : p[k] = step[k][p[k - 1]]
    BY <1>4 DEF Recurs
  <2>2. \A k \in 1 .. n : p[k - 1] \in Int
    OBVIOUS
  <2> QED BY <1>3, <2>1, <2>2, Zenon
<1>6. \A k \in 0 .. n : p[k] = IF k = 0 THEN 1 ELSE b * p[k - 1]
  <2>1. \A k \in 0 .. n : k # 0 => k \in 1 .. n
    OBVIOUS
  <2> QED BY <1>5, <2>1, Zenon
<1>7. Eq(p)
  <2>1. p = [k \in 0 .. n |-> p[k]]
    OBVIOUS
  <2> QED BY <1>6, <2>1, Zenon
<1>8. Eq(power)
  <2> HIDE DEF Eq
  <2> QED BY <1>7, Zenon
<1> HIDE DEF power
<1>9. \A k \in 0 .. n : power[k] = IF k = 0 THEN 1 ELSE b * power[k - 1]
  BY <1>8, Zenon
<1> HIDE DEF Eq
<1> DEFINE S == {k \in 0 .. n : power[k] = p[k]}
<1>10. S = 0 .. n
  <2>1. 0 \in S
    BY <1>6, <1>9
  <2>2. ASSUME NEW k \in 1 .. n, k - 1 \in S
        PROVE  k \in S
    <3>1. k \in 0 .. n /\ k # 0 /\ power[k - 1] = p[k - 1]
      BY <2>2
    <3> QED BY <1>6, <1>9, <3>1, Zenon
  <2>3. S \in SUBSET (0 .. n)
    OBVIOUS
  <2> HIDE DEF S
  <2> QED BY <2>1, <2>2, <2>3, Upward
<1>11. n \in 0 .. n
  OBVIOUS
<1> QED BY <1>1, <1>5, <1>10, <1>11, Zenon

(* A power is the base times the power before it.                           *)
LEMMA PowerIs ==
  ASSUME NEW b \in Int, NEW n \in Nat
  PROVE  /\ Power(b, n) \in Int
         /\ Power(b, 0) = 1
         /\ Power(b, n + 1) = b * Power(b, n)
<1>1. PICK z \in [0 .. 0 -> Int] : z[0] = 1 /\ Power(b, 0) = z[0]
  BY PowersAre
<1>2. PICK p \in [0 .. n -> Int] :
        /\ p[0] = 1
        /\ \A k \in 1 .. n : p[k] = b * p[k - 1]
        /\ Power(b, n) = p[n]
  BY PowersAre
<1>3. PICK r \in [0 .. n + 1 -> Int] :
        /\ r[0] = 1
        /\ \A k \in 1 .. n + 1 : r[k] = b * r[k - 1]
        /\ Power(b, n + 1) = r[n + 1]
  <2>1. n + 1 \in Nat
    OBVIOUS
  <2> QED BY <2>1, PowersAre, Zenon
<1> DEFINE S == {k \in 0 .. n : r[k] = p[k]}
<1>4. S = 0 .. n
  <2>1. 0 \in S
    BY <1>2, <1>3
  <2>2. ASSUME NEW k \in 1 .. n, k - 1 \in S
        PROVE  k \in S
    <3>1. k \in 0 .. n /\ k \in 1 .. n + 1 /\ r[k - 1] = p[k - 1]
      BY <2>2
    <3> QED BY <1>2, <1>3, <3>1, Zenon
  <2>3. S \in SUBSET (0 .. n)
    OBVIOUS
  <2> HIDE DEF S
  <2> QED BY <2>1, <2>2, <2>3, Upward
<1>5. n \in 0 .. n /\ n + 1 \in 1 .. n + 1 /\ (n + 1) - 1 = n /\ p[n] \in Int
  BY <1>2
<1>6. r[n + 1] = b * r[n]
  BY <1>3, <1>5, Zenon
<1> QED BY <1>1, <1>2, <1>3, <1>4, <1>5, <1>6, Zenon

-----------------------------------------------------------------------------
(* The numbers of a command.                                               *)

(* A digit is one of ten characters, and worth 0 to 9.                      *)
LEMMA DigitIs ==
  ASSUME NEW c
  PROVE  /\ isdigit(c) <=> c \in {"0", "1", "2", "3", "4",
                                "5", "6", "7", "8", "9"}
         /\ isdigit(c) => DigitOf(c) \in 0 .. 9
<1> DEFINE Decimal == {"0", "1", "2", "3", "4", "5", "6", "7", "8", "9"}
<1>1. DOMAIN Digits = 1 .. 10
  BY DEF Digits
<1>2. isdigit(c) <=> \E d \in 0 .. 9 : Digits[d + 1] = c
  <2>1. isdigit(c) <=> \E i \in 1 .. 10 : Digits[i] = c
    BY <1>1 DEF isdigit, Range
  <2>2. \A i \in 1 .. 10 : i - 1 \in 0 .. 9 /\ (i - 1) + 1 = i
    OBVIOUS
  <2>3. \A d \in 0 .. 9 : d + 1 \in 1 .. 10
    OBVIOUS
  <2> QED BY <2>1, <2>2, <2>3, Zenon
<1>3. isdigit(c) => DigitOf(c) \in 0 .. 9
  BY <1>2, Zenon DEF DigitOf
<1>4. isdigit(c) <=> c \in Decimal
  <2>1. /\ Digits[1] = "0" /\ Digits[2] = "1" /\ Digits[3] = "2"
        /\ Digits[4] = "3" /\ Digits[5] = "4" /\ Digits[6] = "5"
        /\ Digits[7] = "6" /\ Digits[8] = "7" /\ Digits[9] = "8"
        /\ Digits[10] = "9"
    BY DEF Digits
  <2>2. isdigit(c) <=> \E i \in 1 .. 10 : Digits[i] = c
    BY <1>1 DEF isdigit, Range
  <2>3. ASSUME NEW i \in 1 .. 10, Digits[i] = c
        PROVE  c \in Decimal
    <3>1. \/ i = 1 \/ i = 2 \/ i = 3 \/ i = 4 \/ i = 5
          \/ i = 6 \/ i = 7 \/ i = 8 \/ i = 9 \/ i = 10
      OBVIOUS
    <3> QED BY <2>1, <2>3, <3>1
  <2>4. ASSUME c \in Decimal
        PROVE  \E i \in 1 .. 10 : Digits[i] = c
    BY <2>1, <2>4
  <2> QED BY <2>2, <2>3, <2>4
<1> QED BY <1>3, <1>4

(* What the loop of consume_integer computes.                              *)
LEMMA NumberIs ==
  ASSUME NEW S, NEW d \in Seq(S), \A i \in 1 .. Len(d) : isdigit(d[i])
  PROVE  \E r \in [0 .. Len(d) -> Int] :
           /\ r[0] = 0
           /\ \A k \in 1 .. Len(d) : r[k] = 10 * r[k - 1] + DigitOf(d[k])
           /\ Number(d) = r[Len(d)]
<1> DEFINE n == Len(d)
           step == [k \in 1 .. n |-> [x \in Int |-> 10 * x + DigitOf(d[k])]]
           Eq(r) == r = [k \in 0 .. n |->
                           IF k = 0 THEN 0
                           ELSE 10 * r[k - 1] + DigitOf(d[k])]
           result == CHOOSE r : Eq(r)
<1>1. Number(d) = result[n]
  BY DEF Number
<1>2. n \in Nat /\ \A k \in 1 .. n : DigitOf(d[k]) \in Int
  BY DigitIs
<1> HIDE DEF n
<1>3. step \in [1 .. n -> [Int -> Int]] /\ 0 \in Int
  BY <1>2
<1>4. \A k \in 1 .. n, x \in Int : step[k][x] = 10 * x + DigitOf(d[k])
  OBVIOUS
<1> HIDE DEF step
<1>5. PICK r \in [0 .. n -> Int] : Recurs(r, n, 0, step)
  BY <1>2, <1>3, RecursionExists, Zenon
<1>6. \A k \in 0 .. n : r[k] = IF k = 0 THEN 0
                               ELSE 10 * r[k - 1] + DigitOf(d[k])
  <2>1. r[0] = 0 /\ \A k \in 1 .. n : r[k] = step[k][r[k - 1]]
    BY <1>5 DEF Recurs
  <2>2. \A k \in 0 .. n : k # 0 => k \in 1 .. n /\ r[k - 1] \in Int
    BY <1>2
  <2> QED BY <1>4, <2>1, <2>2, Zenon
<1>7. Eq(r)
  <2>1. r = [k \in 0 .. n |-> r[k]]
    OBVIOUS
  <2> QED BY <1>6, <2>1, Zenon
<1>8. Eq(result)
  <2> HIDE DEF Eq
  <2> QED BY <1>7, Zenon
<1> HIDE DEF result
<1>9. \A k \in 0 .. n : result[k] = IF k = 0 THEN 0
                                    ELSE 10 * result[k - 1] + DigitOf(d[k])
  BY <1>8, Zenon
<1>10. DOMAIN result = 0 .. n /\ result = [k \in 0 .. n |-> result[k]]
  BY <1>8, Zenon
<1> HIDE DEF Eq
<1> DEFINE Typed == {k \in 0 .. n : result[k] \in Int}
<1>11. Typed = 0 .. n
  <2>1. 0 \in Typed
    BY <1>2, <1>9
  <2>2. ASSUME NEW k \in 1 .. n, k - 1 \in Typed
        PROVE  k \in Typed
    <3>1. k \in 0 .. n /\ k # 0 /\ result[k - 1] \in Int
      BY <1>2, <2>2
    <3>2. result[k] = 10 * result[k - 1] + DigitOf(d[k])
      BY <1>9, <3>1, Zenon
    <3> QED BY <1>2, <3>1, <3>2
  <2>3. Typed \in SUBSET (0 .. n)
    OBVIOUS
  <2> HIDE DEF Typed
  <2> QED BY <1>2, <2>1, <2>2, <2>3, Upward
<1>12. result \in [0 .. n -> Int]
  BY <1>10, <1>11
<1>13. result[0] = 0
  BY <1>2, <1>9
<1>14. \A k \in 1 .. n : result[k] = 10 * result[k - 1] + DigitOf(d[k])
  <2>1. \A k \in 1 .. n : k \in 0 .. n /\ k # 0
    BY <1>2
  <2> QED BY <1>9, <2>1, Zenon
<1> QED BY <1>1, <1>12, <1>13, <1>14, Zenon DEF n

(* And the sum over the places of the first n digits.                      *)
PlaceSum(d, n) ==
  CHOOSE f : f = [i \in 0 .. n |->
    IF i = 0 THEN 0 ELSE f[i - 1] + DigitOf(d[i]) * Power(10, n - i)]

(* It is a sum from the front of the digits to their end.                   *)
LEMMA SumIs ==
  ASSUME NEW S, NEW d \in Seq(S), NEW n \in 0 .. Len(d),
         \A i \in 1 .. n : isdigit(d[i])
  PROVE  \E v \in [0 .. n -> Int] :
           /\ v = PlaceSum(d, n)
           /\ v[0] = 0
           /\ \A i \in 1 .. n :
                v[i] = v[i - 1] + DigitOf(d[i]) * Power(10, n - i)
<1> PICK v : v = PlaceSum(d, n)
  BY Zenon
<1> DEFINE place == [i \in 1 .. n |-> DigitOf(d[i]) * Power(10, n - i)]
           step == [i \in 1 .. n |-> [x \in Int |-> x + place[i]]]
           Eq(f) == f = [i \in 0 .. n |->
                           IF i = 0 THEN 0
                           ELSE f[i - 1] + DigitOf(d[i]) * Power(10, n - i)]
<1>1. place \in [1 .. n -> Int]
  <2>1. ASSUME NEW i \in 1 .. n
        PROVE  DigitOf(d[i]) * Power(10, n - i) \in Int
    <3>1. DigitOf(d[i]) \in Int
      BY DigitIs
    <3>2. n - i \in Nat /\ 10 \in Int
      OBVIOUS
    <3>3. Power(10, n - i) \in Int
      BY <3>2, PowerIs
    <3> QED BY <3>1, <3>3
  <2> QED BY <2>1
<1>2. \A i \in 1 .. n : DigitOf(d[i]) * Power(10, n - i) = place[i]
  OBVIOUS
<1> HIDE DEF place
<1>3. step \in [1 .. n -> [Int -> Int]] /\ 0 \in Int /\ n \in Nat
  BY <1>1
<1>4. \A i \in 1 .. n, x \in Int : step[i][x] = x + place[i]
  OBVIOUS
<1> HIDE DEF step
<1>5. PICK f \in [0 .. n -> Int] : Recurs(f, n, 0, step)
  BY <1>3, RecursionExists, Zenon
<1>6. \A i \in 0 .. n : f[i] = IF i = 0 THEN 0
          ELSE f[i - 1] + DigitOf(d[i]) * Power(10, n - i)
  <2>1. f[0] = 0 /\ \A i \in 1 .. n : f[i] = step[i][f[i - 1]]
    BY <1>5 DEF Recurs
  <2>2. \A i \in 0 .. n : i # 0 => i \in 1 .. n /\ f[i - 1] \in Int
    BY <1>3
  <2> QED BY <1>2, <1>4, <2>1, <2>2, Zenon
<1>7. Eq(f)
  <2>1. f = [i \in 0 .. n |-> f[i]]
    OBVIOUS
  <2> QED BY <1>6, <2>1, Zenon
<1>8. Eq(v)
  <2>1. v = CHOOSE g : Eq(g)
    BY Zenon DEF PlaceSum
  <2> HIDE DEF Eq
  <2> QED BY <1>7, <2>1, Zenon
<1>9. \A i \in 0 .. n : v[i] = IF i = 0 THEN 0
          ELSE v[i - 1] + DigitOf(d[i]) * Power(10, n - i)
  BY <1>8, Zenon
<1>10. v = [i \in 0 .. n |-> v[i]]
  BY <1>8, Zenon
<1>11. v[0] = 0
  <2>1. 0 \in 0 .. n
    BY <1>3
  <2> QED BY <1>9, <2>1, Zenon
<1>12. \A i \in 1 .. n : v[i] = v[i - 1] + DigitOf(d[i]) * Power(10, n - i)
  <2>1. \A i \in 1 .. n : i \in 0 .. n /\ i # 0
    BY <1>3
  <2> QED BY <1>9, <2>1, Zenon
<1> HIDE DEF Eq
<1> DEFINE Typed == {i \in 0 .. n : v[i] \in Int}
<1>13. Typed = 0 .. n
  <2>1. 0 \in Typed
    BY <1>3, <1>11
  <2>2. ASSUME NEW i \in 1 .. n, i - 1 \in Typed
        PROVE  i \in Typed
    <3>1. v[i] = v[i - 1] + place[i]
      BY <1>2, <1>12, Zenon
    <3>2. v[i - 1] \in Int /\ place[i] \in Int /\ i \in 0 .. n
      BY <1>1, <1>3, <2>2
    <3> QED BY <3>1, <3>2
  <2>3. Typed \in SUBSET (0 .. n)
    OBVIOUS
  <2> HIDE DEF Typed
  <2> QED BY <1>3, <2>1, <2>2, <2>3, Upward
<1>14. v \in [0 .. n -> Int]
  BY <1>10, <1>13
<1> QED BY <1>11, <1>12, <1>14

(* They are the same: after k digits the loop lacks the power of ten of    *)
(* those to come.                                                          *)
LEMMA Horner ==
  ASSUME NEW S, NEW d \in Seq(S), \A i \in 1 .. Len(d) : isdigit(d[i]),
         NEW v,
         v \in [0 .. Len(d) -> Int], v[0] = 0,
         \A i \in 1 .. Len(d) :
           v[i] = v[i - 1] + DigitOf(d[i]) * Power(10, Len(d) - i)
  PROVE  Number(d) = v[Len(d)]
<1> DEFINE n == Len(d)
<1>1. n \in Nat
  OBVIOUS
<1>2. PICK r \in [0 .. n -> Int] :
        /\ r[0] = 0
        /\ \A k \in 1 .. n : r[k] = 10 * r[k - 1] + DigitOf(d[k])
        /\ Number(d) = r[n]
  BY NumberIs
<1>3. ASSUME NEW k \in 1 .. n
      PROVE  DigitOf(d[k]) \in Int
  <2>1. isdigit(d[k])
    OBVIOUS
  <2> QED BY <2>1, DigitIs
<1>4. \A k \in 1 .. n : v[k] = v[k - 1] + DigitOf(d[k]) * Power(10, n - k)
  OBVIOUS
<1> HIDE DEF n
<1> DEFINE Done == {k \in 0 .. n : r[k] * Power(10, n - k) = v[k]}
<1>5. 0 \in Done
  <2>1. 10 \in Int /\ n - 0 \in Nat /\ 0 \in 0 .. n
    BY <1>1
  <2>2. Power(10, n - 0) \in Int
    BY <2>1, PowerIs
  <2>3. 0 * Power(10, n - 0) = 0
    BY <2>2
  <2> QED BY <1>2, <2>1, <2>3
<1>6. ASSUME NEW k \in 1 .. n, k - 1 \in Done
      PROVE  k \in Done
  <2> DEFINE P == Power(10, n - k)
             D == DigitOf(d[k])
  <2>1. n - k \in Nat /\ 10 \in Int /\ n - (k - 1) = (n - k) + 1
    BY <1>1
  <2>2. P \in Int /\ Power(10, n - (k - 1)) = 10 * P
    BY <2>1, PowerIs
  <2>3. /\ r[k - 1] \in Int /\ D \in Int /\ k \in 0 .. n
        /\ r[k] = 10 * r[k - 1] + D
        /\ v[k] = v[k - 1] + D * P
    <3>1. k - 1 \in 0 .. n /\ k \in 0 .. n
      BY <1>1
    <3>2. r[k - 1] \in Int
      BY <3>1
    <3> QED BY <1>2, <1>3, <1>4, <3>1, <3>2, Zenon
  <2>4. r[k - 1] * (10 * P) = v[k - 1]
    BY <1>6, <2>2
  <2>5. \A x \in Int, p \in Int, c \in Int :
          (10 * x + c) * p = x * (10 * p) + c * p
    BY Z3
  <2>6. r[k] * P = r[k - 1] * (10 * P) + D * P
    <3> HIDE DEF P, D
    <3> QED BY <2>2, <2>3, <2>5
  <2>7. r[k] * P = v[k]
    BY <2>3, <2>4, <2>6
  <2> QED BY <2>3, <2>7
<1>7. Done = 0 .. n
  <2>1. Done \in SUBSET (0 .. n)
    OBVIOUS
  <2> HIDE DEF Done
  <2> QED BY <1>1, <1>5, <1>6, <2>1, Upward
<1>8. r[n] * Power(10, 0) = v[n]
  <2>1. n \in 0 .. n /\ n - n = 0
    BY <1>1
  <2> QED BY <1>7, <2>1
<1>9. Power(10, 0) = 1 /\ r[n] \in Int
  <2>1. 10 \in Int /\ 0 \in Nat /\ n \in 0 .. n
    BY <1>1
  <2> QED BY <1>2, <2>1, PowerIs
<1> QED BY <1>2, <1>8, <1>9 DEF n

(* Both follow the same digits, those at the front of a word after its     *)
(* sign.                                                                   *)
LEMMA ValueIs ==
  ASSUME NEW S, NEW w \in Seq(S), w # <<>>,
         NEW u \in Seq(S), u = Unsigned(w),
         NEW n \in 0 .. Len(u), \A i \in 1 .. n : isdigit(u[i]),
         n < Len(u) => ~isdigit(u[n + 1])
  PROVE  Value(w) = IF w[1] = "-" THEN - Number(SubSeq(u, 1, n))
                    ELSE Number(SubSeq(u, 1, n))
<1> DEFINE most(x) == Max({k \in 0 .. Len(x) : \A i \in 1 .. k : isdigit(x[i])})
           d == SubSeq(u, 1, n)
<1>1. most(u) = n
  <2> DEFINE K == {k \in 0 .. Len(u) : \A i \in 1 .. k : isdigit(u[i])}
  <2>1. n \in K
    OBVIOUS
  <2>2. ASSUME NEW k \in K
        PROVE  n >= k
    <3>1. CASE n < Len(u)
      <4>1. ~ (n + 1 <= k)
        BY <3>1
      <4> QED BY <4>1
    <3>2. CASE n = Len(u)
      BY <3>2
    <3> QED BY <3>1, <3>2
  <2>3. \A x \in K : x \in Int
    OBVIOUS
  <2>4. ASSUME NEW x \in K, \A y \in K : x >= y
        PROVE  x = n
    <3> HIDE DEF K
    <3> QED BY <2>1, <2>2, <2>3, <2>4
  <2>5. most(u) = CHOOSE x \in K : \A y \in K : x >= y
    BY DEF Max
  <2> HIDE DEF K, most
  <2> QED BY <2>1, <2>2, <2>4, <2>5, Zenon
<1>2. PICK v \in [0 .. n -> Int] :
        /\ v = PlaceSum(u, n)
        /\ v[0] = 0
        /\ \A i \in 1 .. n :
             v[i] = v[i - 1] + DigitOf(u[i]) * Power(10, n - i)
  <2>1. ASSUME NEW x \in Seq(S), NEW k \in 0 .. Len(x),
               \A i \in 1 .. k : isdigit(x[i])
        PROVE  \E v \in [0 .. k -> Int] :
                 /\ v = PlaceSum(x, k)
                 /\ v[0] = 0
                 /\ \A i \in 1 .. k :
                      v[i] = v[i - 1] + DigitOf(x[i]) * Power(10, k - i)
    BY <2>1, SumIs
  <2> QED BY <2>1
<1>3. Value(w) = IF w[1] = "-" THEN - v[n] ELSE v[n]
  <2> DEFINE x == Unsigned(w)
             z == PlaceSum(x, most(x))[most(x)]
  <2>1. Value(w) = IF w[1] = "-" THEN - z ELSE z
    BY Zenon DEF Value, PlaceSum
  <2>2. z = v[n]
    <3> HIDE DEF most
    <3> QED BY <1>1, <1>2
  <2> HIDE DEF z
  <2> QED BY <2>1, <2>2
<1>4. /\ d \in Seq(S) /\ Len(d) = n
      /\ \A i \in 1 .. n : d[i] = u[i]
  <2>1. \A i \in 1 .. n : u[i] \in S
    OBVIOUS
  <2> QED BY <2>1, SubSeqProperties
<1> HIDE DEF d, most
<1>5. \A i \in 1 .. Len(d) : isdigit(d[i])
  BY <1>4
<1>6. \A i \in 1 .. Len(d) :
        v[i] = v[i - 1] + DigitOf(d[i]) * Power(10, Len(d) - i)
  BY <1>2, <1>4
<1>7. Number(d) = v[n]
  <2>1. v \in [0 .. Len(d) -> Int] /\ v[0] = 0
    BY <1>2, <1>4
  <2> QED BY <1>4, <1>5, <1>6, <2>1, Horner
<1> QED BY <1>3, <1>7 DEF d

-----------------------------------------------------------------------------
(* The words of a text.                                                    *)

(* A line as the launcher ends it, over the characters C.                  *)
Lines(C) ==
  {t \in Seq(C) : /\ Len(t) >= 1 /\ t[Len(t)] = CR
                  /\ \A i \in 1 .. Len(t) : t[i] # NUL}

(* What is read at each index of a line.                                    *)
LEMMA AtIs ==
  ASSUME NEW C, NEW t \in Lines(C)
  PROVE  /\ t \in Seq(C) /\ Len(t) \in Nat /\ Len(t) >= 1
         /\ t[Len(t)] = CR
         /\ \A i \in 0 .. Len(t) - 1 : At(t, i) = t[i + 1] /\ At(t, i) # NUL
         /\ At(t, Len(t)) = NUL
BY DEF Lines, At

(* A space or a digit is not the terminator.                               *)
LEMMA SkipIs ==
  ASSUME NEW C, NEW t \in Lines(C), NEW i \in 0 .. Len(t),
         NEW chars, NUL \notin chars
  PROVE  \E j \in i .. Len(t) :
           /\ j = Skip(t, i, chars)
           /\ At(t, j) \notin chars
           /\ \A k \in i .. j - 1 : At(t, k) \in chars
<1> DEFINE Stops == {j \in i .. Len(t) : At(t, j) \notin chars}
<1>1. Len(t) \in Nat /\ Len(t) \in Stops
  BY AtIs
<1>2. Stops \in SUBSET Nat
  BY <1>1
<1>3. PICK j \in Stops : \A k \in Stops : j <= k
  <2> HIDE DEF Stops
  <2> QED BY <1>1, <1>2, LeastNatural
<1>4. j \in i .. Len(t) /\ At(t, j) \notin chars
  OBVIOUS
<1>5. ASSUME NEW k \in i .. j - 1
      PROVE  At(t, k) \in chars
  <2>1. k \in i .. Len(t) /\ ~ (j <= k)
    BY <1>1, <1>4
  <2> QED BY <1>3, <2>1
<1> QED BY <1>4, <1>5, Zenon DEF Skip

(* Ranks in a finite set of numbers.                                       *)
LEMMA RankIs ==
  ASSUME NEW n \in Nat, NEW S \in SUBSET (1 .. n), NEW i \in S
  PROVE  /\ IsFiniteSet(S) /\ Cardinality(S) \in Nat
         /\ Rank(S, i) \in 1 .. Cardinality(S)
         /\ Rank(S, i) = Cardinality(S) <=> \A j \in S : j <= i
<1> DEFINE R == {j \in S : j <= i}
<1>1. IsFiniteSet(S)
  <2>1. IsFiniteSet(1 .. n)
    BY FS_Interval
  <2> QED BY <2>1, FS_Subset
<1>2. /\ IsFiniteSet(R) /\ Cardinality(R) <= Cardinality(S)
      /\ Cardinality(R) = Cardinality(S) => R = S
  <2>1. R \in SUBSET S
    OBVIOUS
  <2> HIDE DEF R
  <2> QED BY <1>1, <2>1, FS_Subset
<1>3. i \in R
  OBVIOUS
<1>4. Cardinality(R) \in Nat /\ Cardinality(S) \in Nat
  <2> HIDE DEF R
  <2> QED BY <1>1, <1>2, FS_CardinalityType
<1>5. Cardinality(R) # 0
  <2> HIDE DEF R
  <2> QED BY <1>2, <1>3, FS_EmptySet
<1>6. (\A j \in S : j <= i) <=> R = S
  OBVIOUS
<1>7. Rank(S, i) = Cardinality(R)
  BY DEF Rank
<1> HIDE DEF R
<1> QED BY <1>1, <1>2, <1>4, <1>5, <1>6, <1>7

(* The smallest is the first.                                               *)
LEMMA RankFirst ==
  ASSUME NEW n \in Nat, NEW S \in SUBSET (1 .. n), NEW i \in S,
         \A j \in S : i <= j
  PROVE  Rank(S, i) = 1
<1>1. \A j \in S : j \in Nat
  OBVIOUS
<1>2. \A j \in S : j <= i <=> j = i
  BY <1>1
<1>3. {j \in S : j <= i} = {i}
  BY <1>2
<1> QED BY <1>3, FS_Singleton DEF Rank

(* The next has the next rank.                                              *)
LEMMA RankNext ==
  ASSUME NEW n \in Nat, NEW S \in SUBSET (1 .. n), NEW i \in S, NEW k \in S,
         i < k, \A j \in S : j <= i \/ k <= j
  PROVE  Rank(S, k) = Rank(S, i) + 1
<1> DEFINE R == {j \in S : j <= i}
<1>0. \A j \in S : j \in Nat
  OBVIOUS
<1>1. {j \in S : j <= k} = R \cup {k} /\ k \notin R
  <2>1. /\ \A j \in S : j <= k <=> j <= i \/ j = k
        /\ ~ (k <= i)
    BY <1>0
  <2> QED BY <2>1
<1>2. IsFiniteSet(R)
  <2>1. IsFiniteSet(S) /\ R \in SUBSET S
    BY RankIs
  <2> HIDE DEF R
  <2> QED BY <2>1, FS_Subset
<1>3. Rank(S, i) = Cardinality(R)
  BY DEF Rank
<1> HIDE DEF R
<1>4. Cardinality(R \cup {k}) = Cardinality(R) + 1
  BY <1>1, <1>2, FS_AddElement
<1> QED BY <1>1, <1>3, <1>4 DEF Rank

(* No two have the same rank.                                               *)
LEMMA RankSame ==
  ASSUME NEW n \in Nat, NEW S \in SUBSET (1 .. n), NEW i \in S, NEW k \in S,
         Rank(S, i) = Rank(S, k)
  PROVE  i = k
<1>0. \A j \in S : j \in Nat
  OBVIOUS
<1>1. ASSUME NEW a \in S, NEW b \in S, a < b
      PROVE  Rank(S, a) # Rank(S, b)
  <2> DEFINE A == {j \in S : j <= a}
             B == {j \in S : j <= b}
  <2>1. A \in SUBSET B /\ b \in B /\ b \notin A
    <3>1. (\A j \in S : j <= a => j <= b) /\ b <= b /\ ~ (b <= a)
      BY <1>0, <1>1
    <3> QED BY <3>1
  <2>2. IsFiniteSet(B)
    <3>1. IsFiniteSet(S) /\ B \in SUBSET S
      BY RankIs
    <3> HIDE DEF B
    <3> QED BY <3>1, FS_Subset
  <2>3. Rank(S, a) = Cardinality(A) /\ Rank(S, b) = Cardinality(B)
    BY DEF Rank
  <2> HIDE DEF A, B
  <2> QED BY <2>1, <2>2, <2>3, FS_Subset
<1>2. i \in Nat /\ k \in Nat
  BY <1>0
<1> QED BY <1>1, <1>2

(* The k-th word of t goes from s to e.                                    *)
IsWord(t, k, s, e) ==
  /\ s \in Starts(t) /\ Rank(Starts(t), s) = k
  /\ e \in Ends(t) /\ Rank(Ends(t), e) = k
  /\ s <= e /\ \A i \in s .. e : ~isspace(t[i])

(* Words start and end in the line, and a space follows each.               *)
LEMMA StartsAndEnds ==
  ASSUME NEW C, NEW t \in Lines(C)
  PROVE  /\ Starts(t) \in SUBSET (1 .. Len(t))
         /\ Ends(t) \in SUBSET (1 .. Len(t))
         /\ \A e \in Ends(t) : e < Len(t) /\ isspace(t[e + 1])
<1>1. Len(t) \in Nat /\ isspace(t[Len(t)])
  BY AtIs DEF isspace, Spaces
<1>2. ASSUME NEW e \in Ends(t)
      PROVE  e < Len(t) /\ isspace(t[e + 1])
  BY <1>1 DEF Ends
<1> QED BY <1>2 DEF Starts, Ends

(* Such a word is the k-th, and the last if none starts after it.           *)
LEMMA WordIs ==
  ASSUME NEW C, NEW t \in Lines(C), NEW k, NEW s, NEW e, IsWord(t, k, s, e)
  PROVE  /\ k \in 1 .. Len(Words(t)) /\ Len(Words(t)) \in Nat
         /\ Words(t)[k] = SubSeq(t, s, e)
         /\ Len(Words(t)) = k <=> \A j \in Starts(t) : j <= s
<1> DEFINE S == Starts(t)
           E == Ends(t)
           n == Len(t)
<1>1. n \in Nat /\ S \in SUBSET (1 .. n) /\ E \in SUBSET (1 .. n)
  BY AtIs, StartsAndEnds
<1>2. s \in S /\ e \in E /\ Rank(S, s) = k /\ Rank(E, e) = k
  BY DEF IsWord
<1>3. Words(t) = [x \in 1 .. Cardinality(S) |->
                    SubSeq(t, CHOOSE i \in S : Rank(S, i) = x,
                              CHOOSE i \in E : Rank(E, i) = x)]
  BY Zenon DEF Words
<1> HIDE DEF S, E, n
<1>4. /\ k \in 1 .. Cardinality(S) /\ Cardinality(S) \in Nat
      /\ k = Cardinality(S) <=> \A j \in S : j <= s
  BY <1>1, <1>2, RankIs
<1>5. Len(Words(t)) = Cardinality(S)
  BY <1>3, <1>4
<1>6. (CHOOSE i \in S : Rank(S, i) = k) = s
  <2>1. \A i \in S : Rank(S, i) = k => i = s
    BY <1>1, <1>2, RankSame
  <2> QED BY <1>2, <2>1, Zenon
<1>7. (CHOOSE i \in E : Rank(E, i) = k) = e
  <2>1. \A i \in E : Rank(E, i) = k => i = e
    BY <1>1, <1>2, RankSame
  <2> QED BY <1>2, <2>1, Zenon
<1>8. Words(t)[k] = SubSeq(t, s, e)
  BY <1>3, <1>4, <1>6, <1>7, Zenon
<1> QED BY <1>4, <1>5, <1>8 DEF S

(* A word goes on to the next space.                                       *)
LEMMA WordEnds ==
  ASSUME NEW C, NEW t \in Lines(C), NEW s \in 1 .. Len(t), ~isspace(t[s])
  PROVE  \E e \in s .. Len(t) - 1 :
           /\ e \in Ends(t) /\ \A i \in s .. e : ~isspace(t[i])
           /\ \A j \in Ends(t) : j < s \/ e <= j
<1> DEFINE Stops == {j \in s .. Len(t) : isspace(t[j])}
<1>1. Len(t) \in Nat /\ isspace(t[Len(t)]) /\ Len(t) \in Stops
  <2>1. Len(t) \in Nat /\ isspace(t[Len(t)])
    BY AtIs DEF isspace, Spaces
  <2> QED BY <2>1
<1>2. Stops \in SUBSET Nat
  BY <1>1
<1>3. PICK m \in Stops : \A k \in Stops : m <= k
  <2> HIDE DEF Stops
  <2> QED BY <1>1, <1>2, LeastNatural
<1>4. m \in s .. Len(t) /\ isspace(t[m]) /\ m # s
  OBVIOUS
<1>5. ASSUME NEW i \in s .. m - 1
      PROVE  ~isspace(t[i])
  <2>1. i \in s .. Len(t) /\ ~ (m <= i)
    BY <1>1, <1>4
  <2> QED BY <1>3, <2>1
<1>6. m - 1 \in s .. Len(t) - 1
  BY <1>1, <1>4
<1>7. m - 1 \in Ends(t)
  <2>1. m - 1 \in 1 .. Len(t) /\ (m - 1) + 1 = m /\ m - 1 \in s .. m - 1
    BY <1>1, <1>4
  <2> QED BY <1>4, <1>5, <2>1, Zenon DEF Ends
<1>8. ASSUME NEW j \in Ends(t)
      PROVE  j < s \/ m - 1 <= j
  <2>1. j \in 1 .. Len(t) /\ j < Len(t) /\ isspace(t[j + 1])
    BY StartsAndEnds
  <2>2. ~ (j + 1 \in s .. m - 1)
    BY <1>5, <2>1
  <2>3. j + 1 # s
    BY <2>1
  <2> QED BY <1>1, <1>4, <2>1, <2>2, <2>3
<1> QED BY <1>5, <1>6, <1>7, <1>8

(* A line that does not begin with a space begins with its first word.      *)
LEMMA FirstWord ==
  ASSUME NEW C, NEW t \in Lines(C), ~isspace(t[1])
  PROVE  \E e \in 1 .. Len(t) - 1 : IsWord(t, 1, 1, e)
<1>1. Len(t) \in Nat /\ 1 \in 1 .. Len(t)
  BY AtIs
<1>2. PICK e \in 1 .. Len(t) - 1 :
        /\ e \in Ends(t) /\ \A i \in 1 .. e : ~isspace(t[i])
        /\ \A j \in Ends(t) : j < 1 \/ e <= j
  BY <1>1, WordEnds
<1>3. 1 \in Starts(t) /\ \A j \in Starts(t) : 1 <= j
  BY <1>1 DEF Starts
<1>4. Rank(Starts(t), 1) = 1
  BY <1>1, <1>3, StartsAndEnds, RankFirst
<1>5. \A j \in Ends(t) : e <= j
  <2>1. \A j \in Ends(t) : j \in Nat /\ ~ (j < 1)
    BY StartsAndEnds
  <2> QED BY <1>2, <2>1
<1>6. Rank(Ends(t), e) = 1
  BY <1>1, <1>2, <1>5, StartsAndEnds, RankFirst
<1> QED BY <1>2, <1>3, <1>4, <1>6 DEF IsWord

(* The first character after a word that is no space begins the next.       *)
LEMMA NextWord ==
  ASSUME NEW C, NEW t \in Lines(C), NEW k, NEW s, NEW e, IsWord(t, k, s, e),
         NEW i \in e + 1 .. Len(t), ~isspace(t[i]),
         \A j \in e + 1 .. i - 1 : isspace(t[j])
  PROVE  \E f \in i .. Len(t) - 1 : IsWord(t, k + 1, i, f)
<1>1. /\ Len(t) \in Nat /\ s \in 1 .. Len(t) /\ e \in 1 .. Len(t) - 1
      /\ s <= e /\ isspace(t[e + 1])
      /\ s \in Starts(t) /\ e \in Ends(t)
      /\ \A j \in s .. e : ~isspace(t[j])
      /\ Rank(Starts(t), s) = k /\ Rank(Ends(t), e) = k
  BY AtIs, StartsAndEnds DEF IsWord
<1>2. i # e + 1
  BY <1>1
<1>3. i \in 1 .. Len(t) /\ i - 1 \in e + 1 .. i - 1 /\ i # 1
  BY <1>1, <1>2
<1>4. PICK f \in i .. Len(t) - 1 :
        /\ f \in Ends(t) /\ \A j \in i .. f : ~isspace(t[j])
        /\ \A j \in Ends(t) : j < i \/ f <= j
  BY <1>3, WordEnds
<1>5. i \in Starts(t)
  BY <1>3 DEF Starts
<1>6. ASSUME NEW j \in Starts(t)
      PROVE  j <= s \/ i <= j
  <2>1. /\ j \in 1 .. Len(t) /\ ~isspace(t[j])
        /\ j = 1 \/ isspace(t[j - 1])
    BY DEF Starts
  <2>2. ~ (j \in e + 1 .. i - 1)
    BY <2>1
  <2>3. ~ (s < j /\ j <= e)
    <3>1. s < j /\ j <= e => j - 1 \in s .. e /\ j # 1
      BY <1>1, <2>1
    <3> QED BY <1>1, <2>1, <3>1
  <2> QED BY <1>1, <1>3, <2>1, <2>2, <2>3
<1>7. ASSUME NEW j \in Ends(t)
      PROVE  j <= e \/ f <= j
  <2>1. j \in 1 .. Len(t) /\ ~isspace(t[j])
    BY DEF Ends
  <2>2. ~ (j \in e + 1 .. i - 1)
    BY <2>1
  <2>3. j < i \/ f <= j
    BY <1>4
  <2> QED BY <1>1, <1>3, <2>1, <2>2, <2>3
<1>8. Rank(Starts(t), i) = k + 1
  <2>1. s < i /\ Starts(t) \in SUBSET (1 .. Len(t))
    BY <1>1, <1>3, StartsAndEnds
  <2>2. Rank(Starts(t), i) = Rank(Starts(t), s) + 1
    BY <1>1, <1>5, <1>6, <2>1, RankNext
  <2> QED BY <1>1, <2>2
<1>9. Rank(Ends(t), f) = k + 1
  <2>1. e < f /\ Ends(t) \in SUBSET (1 .. Len(t))
    BY <1>1, <1>3, <1>4, StartsAndEnds
  <2>2. Rank(Ends(t), f) = Rank(Ends(t), e) + 1
    BY <1>1, <1>4, <1>7, <2>1, RankNext
  <2> QED BY <1>1, <2>2
<1> QED BY <1>3, <1>4, <1>5, <1>8, <1>9 DEF IsWord

-----------------------------------------------------------------------------
(* The arguments of a command.                                             *)

(* What is read at the characters of a word and after it.                   *)
LEMMA AroundWord ==
  ASSUME NEW C, NEW t \in Lines(C), NEW k, NEW s, NEW e, IsWord(t, k, s, e)
  PROVE  /\ Len(t) \in Nat /\ e \in 1 .. Len(t) - 1 /\ s \in 1 .. e
         /\ At(t, e) = t[e + 1] /\ isspace(At(t, e))
         /\ \A i \in s .. e : At(t, i - 1) = t[i] /\ ~isspace(t[i])
<1>1. /\ Len(t) \in Nat /\ s \in 1 .. Len(t) /\ e \in 1 .. Len(t) - 1
      /\ s <= e /\ isspace(t[e + 1])
      /\ \A j \in s .. e : ~isspace(t[j])
  BY AtIs, StartsAndEnds DEF IsWord
<1>2. \A i \in s .. e + 1 : i - 1 \in 0 .. Len(t) - 1 /\ (i - 1) + 1 = i
  BY <1>1
<1>3. \A i \in s .. e + 1 : At(t, i - 1) = t[i]
  BY <1>2, AtIs
<1>4. At(t, e) = t[e + 1]
  <2>1. e + 1 \in s .. e + 1 /\ (e + 1) - 1 = e
    BY <1>1
  <2> QED BY <1>3, <2>1, Zenon
<1>5. \A i \in s .. e : i \in s .. e + 1
  BY <1>1
<1> QED BY <1>1, <1>3, <1>4, <1>5

(* The text from s to e, as a word w.                                      *)
Spans(C, t, s, e, w) ==
  /\ w \in Seq(C) /\ w = SubSeq(t, s, e) /\ Len(w) = e - s + 1
  /\ \A i \in 1 .. e - s + 1 : w[i] = t[s + i - 1]

(* There is such a word.                                                    *)
LEMMA WordText ==
  ASSUME NEW C, NEW t \in Lines(C), NEW k, NEW s, NEW e, IsWord(t, k, s, e)
  PROVE  \E w : Spans(C, t, s, e, w)
<1>1. Len(t) \in Nat /\ e \in 1 .. Len(t) - 1 /\ s \in 1 .. e
  BY AroundWord
<1>2. t \in Seq(C) /\ \A i \in s .. e : t[i] \in C
  BY <1>1, AtIs
<1>3. s \in Int /\ e \in Int /\ s <= e
  BY <1>1
<1>4. PICK w : w = SubSeq(t, s, e)
  BY Zenon
<1>5. /\ SubSeq(t, s, e) \in Seq(C)
      /\ Len(SubSeq(t, s, e)) = IF s <= e THEN e - s + 1 ELSE 0
      /\ \A i \in 1 .. e - s + 1 : SubSeq(t, s, e)[i] = t[s + i - 1]
  BY <1>2, <1>3, SubSeqProperties
<1>6. Spans(C, t, s, e, w)
  BY <1>3, <1>4, <1>5, Zenon DEF Spans
<1> QED BY <1>6

(* After a word there is another or there is only space.                   *)
LEMMA WhitespaceIs ==
  ASSUME NEW C, NEW t \in Lines(C), NEW k, NEW s, NEW e, IsWord(t, k, s, e)
  PROVE  \/ Len(Words(t)) = k /\ consume_whitespace_fails(t, e)
         \/ /\ ~consume_whitespace_fails(t, e)
            /\ \E f \in e + 1 .. Len(t), g \in 1 .. Len(t) - 1 :
                 IsWord(t, k + 1, f, g) /\ Skip(t, e, Spaces) = f - 1
<1>1. /\ Len(t) \in Nat /\ e \in 1 .. Len(t) - 1 /\ s \in 1 .. e
      /\ isspace(At(t, e)) /\ \A i \in s .. e : ~isspace(t[i])
  BY AroundWord
<1>2. NUL \notin Spaces /\ e \in 0 .. Len(t)
  BY <1>1 DEF NUL, Spaces, CR
<1>3. PICK j \in e .. Len(t) :
        /\ j = Skip(t, e, Spaces)
        /\ At(t, j) \notin Spaces
        /\ \A i \in e .. j - 1 : At(t, i) \in Spaces
  BY <1>2, SkipIs
<1>4. \A i \in e + 1 .. j : isspace(t[i])
  <2>1. ASSUME NEW i \in e + 1 .. j
        PROVE  isspace(t[i])
    <3>1. i - 1 \in e .. j - 1 /\ i - 1 \in 0 .. Len(t) - 1 /\ (i - 1) + 1 = i
      BY <1>1
    <3>2. At(t, i - 1) = t[i]
      BY <3>1, AtIs
    <3> QED BY <1>3, <3>1, <3>2 DEF isspace
  <2> QED BY <2>1
<1>5. CASE j = Len(t)
  <2>1. consume_whitespace_fails(t, e)
    BY <1>3, <1>5, AtIs DEF consume_whitespace_fails
  <2>2. ASSUME NEW i \in Starts(t)
        PROVE  i <= s
    <3>1. /\ i \in 1 .. Len(t) /\ ~isspace(t[i])
          /\ i = 1 \/ isspace(t[i - 1])
      BY DEF Starts
    <3>2. ~ (i \in e + 1 .. j)
      BY <1>4, <3>1
    <3>3. s < i /\ i <= e => i - 1 \in s .. e /\ i # 1
      BY <1>1, <3>1
    <3> QED BY <1>1, <1>5, <3>1, <3>2, <3>3
  <2>3. Len(Words(t)) = k
    BY <2>2, WordIs
  <2> QED BY <2>1, <2>3
<1>6. CASE j # Len(t)
  <2>1. /\ j \in 0 .. Len(t) - 1 /\ j + 1 \in e + 1 .. Len(t)
        /\ (j + 1) - 1 = j /\ j \in e .. Len(t)
    BY <1>1, <1>6
  <2>2. At(t, j) = t[j + 1] /\ At(t, j) # NUL
    BY <2>1, AtIs
  <2>3. ~consume_whitespace_fails(t, e)
    BY <1>1, <1>3, <2>2 DEF consume_whitespace_fails
  <2>4. ~isspace(t[j + 1])
    BY <1>3, <2>2 DEF isspace
  <2>5. \A i \in e + 1 .. (j + 1) - 1 : isspace(t[i])
    BY <1>4, <2>1
  <2>6. PICK g \in j + 1 .. Len(t) - 1 : IsWord(t, k + 1, j + 1, g)
    BY <2>1, <2>4, <2>5, NextWord
  <2>7. g \in 1 .. Len(t) - 1
    BY <1>1, <2>1
  <2> QED BY <1>3, <2>1, <2>3, <2>6, <2>7, Zenon
<1> QED BY <1>5, <1>6

(* consume_integer takes a word for its value, and comes to its end if it  *)
(* is a number.                                                            *)
TakesInteger(t, i, e, w) ==
  /\ consume_integer(t, i).arg = Value(w)
  /\ IsNumber(w) => consume_integer(t, i).index = e
  /\ ~IsNumber(w) => ~isspace(At(t, consume_integer(t, i).index))

(* So it is for every word of the line.                                     *)
LEMMA IntegerIs ==
  ASSUME NEW C, NEW t \in Lines(C), NEW k, NEW s, NEW e, IsWord(t, k, s, e),
         NEW w, Spans(C, t, s, e, w)
  PROVE  TakesInteger(t, s - 1, e, w)
<1> DEFINE sign == t[s] \in {"-", "+"}
           from == IF sign THEN s ELSE s - 1
<1>1. /\ Len(t) \in Nat /\ e \in 1 .. Len(t) - 1 /\ s \in 1 .. e
      /\ At(t, e) = t[e + 1] /\ isspace(At(t, e))
      /\ \A i \in s .. e : At(t, i - 1) = t[i] /\ ~isspace(t[i])
      /\ w \in Seq(C) /\ Len(w) = e - s + 1
      /\ \A i \in 1 .. e - s + 1 : w[i] = t[s + i - 1]
  <2>1. /\ Len(t) \in Nat /\ e \in 1 .. Len(t) - 1 /\ s \in 1 .. e
        /\ At(t, e) = t[e + 1] /\ isspace(At(t, e))
        /\ \A i \in s .. e : At(t, i - 1) = t[i] /\ ~isspace(t[i])
    BY AroundWord
  <2>2. /\ w \in Seq(C) /\ Len(w) = e - s + 1
        /\ \A i \in 1 .. e - s + 1 : w[i] = t[s + i - 1]
    BY DEF Spans
  <2> QED BY <2>1, <2>2
<1>2. w # <<>> /\ w[1] = t[s] /\ At(t, s - 1) = t[s]
  BY <1>1
<1>3. from \in s - 1 .. s /\ from \in 0 .. e /\ from \in 0 .. Len(t)
  BY <1>1
<1>4. PICK u : u = Unsigned(w)
  BY Zenon
<1>5. /\ u \in Seq(C) /\ Len(u) = e - from
      /\ \A i \in 1 .. e - from : u[i] = t[from + i]
  <2>1. CASE sign
    <3>1. u = Tail(w)
      BY <1>2, <1>4, <2>1 DEF Unsigned
    <3>2. /\ Tail(w) \in Seq(C) /\ Len(Tail(w)) = Len(w) - 1
          /\ \A i \in 1 .. Len(Tail(w)) : Tail(w)[i] = w[i + 1]
      BY <1>1, <1>2, HeadTailProperties
    <3>3. \A i \in 1 .. e - s : w[i + 1] = t[s + i]
      <4>1. \A i \in 1 .. e - s : i + 1 \in 1 .. e - s + 1
                                  /\ s + (i + 1) - 1 = s + i
        BY <1>1
      <4> QED BY <1>1, <4>1
    <3> QED BY <1>1, <2>1, <3>1, <3>2, <3>3
  <2>2. CASE ~sign
    <3>1. u = w
      BY <1>2, <1>4, <2>2 DEF Unsigned
    <3>2. e - from = e - s + 1 /\ \A i \in 1 .. e - from : from + i = s + i - 1
      BY <1>1, <2>2
    <3> QED BY <1>1, <3>1, <3>2
  <2> QED BY <2>1, <2>2
<1>6. sign <=> At(t, s - 1) \in {"-", "+"}
  BY <1>2
<1> HIDE DEF sign, from
<1>7. NUL \notin Range(Digits) /\ At(t, e) \notin Range(Digits)
  <2> DEFINE Decimal == {"0", "1", "2", "3", "4", "5", "6", "7", "8", "9"}
  <2>1. ~isdigit(NUL) /\ ~isdigit(" ") /\ ~isdigit(CR)
    <3>1. NUL \notin Decimal /\ " " \notin Decimal /\ CR \notin Decimal
      BY DEF NUL, CR
    <3> QED BY <3>1, DigitIs
  <2> QED BY <1>1, <2>1 DEF isdigit, isspace, Spaces
<1>8. PICK to \in from .. Len(t) :
        /\ to = Skip(t, from, Range(Digits))
        /\ At(t, to) \notin Range(Digits)
        /\ \A i \in from .. to - 1 : At(t, i) \in Range(Digits)
  BY <1>3, <1>7, SkipIs
<1>9. to <= e
  <2>1. e < to => e \in from .. to - 1
    BY <1>1, <1>3
  <2> QED BY <1>1, <1>7, <1>8, <2>1
<1>10. PICK n \in 0 .. Len(u) : from + n = to
  <2>1. to - from \in 0 .. Len(u) /\ from + (to - from) = to
    BY <1>1, <1>3, <1>5, <1>9
  <2> QED BY <2>1
<1>11. ASSUME NEW i \in 1 .. Len(u)
       PROVE  u[i] = At(t, (from + i) - 1)
  <2>1. from + i \in s .. e /\ i \in 1 .. e - from
    BY <1>1, <1>3, <1>5
  <2>2. At(t, (from + i) - 1) = t[from + i]
    BY <1>1, <2>1, Zenon
  <2>3. u[i] = t[from + i]
    BY <1>5, <2>1, Zenon
  <2> QED BY <2>2, <2>3, Zenon
<1>12. ASSUME NEW i \in 1 .. n
       PROVE  isdigit(u[i])
  <2>1. i \in 1 .. Len(u) /\ (from + i) - 1 \in from .. to - 1
    BY <1>3, <1>10
  <2> QED BY <1>8, <1>11, <2>1 DEF isdigit
<1>13. n < Len(u) => ~isdigit(u[n + 1])
  <2> SUFFICES ASSUME n < Len(u) PROVE ~isdigit(u[n + 1])
    OBVIOUS
  <2>1. n + 1 \in 1 .. Len(u) /\ (from + (n + 1)) - 1 = to
    BY <1>3, <1>5, <1>10
  <2> QED BY <1>8, <1>11, <2>1 DEF isdigit
<1>14. Value(w) = IF w[1] = "-" THEN - Number(SubSeq(u, 1, n))
                  ELSE Number(SubSeq(u, 1, n))
  <2>1. ASSUME NEW m \in 0 .. Len(u), \A i \in 1 .. m : isdigit(u[i]),
               m < Len(u) => ~isdigit(u[m + 1])
        PROVE  Value(w) = IF w[1] = "-" THEN - Number(SubSeq(u, 1, m))
                          ELSE Number(SubSeq(u, 1, m))
    <3>1. w \in Seq(C) /\ u \in Seq(C)
      BY <1>1, <1>5
    <3> QED BY <1>2, <1>4, <2>1, <3>1, ValueIs
  <2> QED BY <1>10, <1>12, <1>13, <2>1
<1>15. SubSeq(u, 1, n) = SubSeq(t, from + 1, to)
  <2>1. /\ SubSeq(u, 1, n) \in Seq(C) /\ Len(SubSeq(u, 1, n)) = n
        /\ \A i \in 1 .. n : SubSeq(u, 1, n)[i] = u[i]
    <3>1. n \in Int /\ \A i \in 1 .. n : u[i] \in C
      BY <1>5, <1>10
    <3>2. /\ SubSeq(u, 1, n) \in Seq(C)
          /\ Len(SubSeq(u, 1, n)) = IF 1 <= n THEN n - 1 + 1 ELSE 0
          /\ \A i \in 1 .. n - 1 + 1 : SubSeq(u, 1, n)[i] = u[1 + i - 1]
      BY <3>1, SubSeqProperties
    <3> QED BY <1>10, <3>1, <3>2
  <2>2. /\ SubSeq(t, from + 1, to) \in Seq(C)
        /\ Len(SubSeq(t, from + 1, to)) = n
        /\ \A i \in 1 .. n : SubSeq(t, from + 1, to)[i] = t[from + i]
    <3>1. t \in Seq(C)
      BY AtIs
    <3>2. /\ from + 1 \in Int /\ to \in Int
          /\ \A i \in from + 1 .. to : t[i] \in C
      BY <1>1, <1>3, <1>9, <3>1
    <3>3. /\ SubSeq(t, from + 1, to) \in Seq(C)
          /\ Len(SubSeq(t, from + 1, to)) =
               IF from + 1 <= to THEN to - (from + 1) + 1 ELSE 0
          /\ \A i \in 1 .. to - (from + 1) + 1 :
               SubSeq(t, from + 1, to)[i] = t[(from + 1) + i - 1]
      BY <3>2, SubSeqProperties
    <3> QED BY <1>3, <1>10, <3>3
  <2>3. \A i \in 1 .. n : u[i] = t[from + i]
    BY <1>5, <1>10
  <2>4. \A x, y \in Seq(C) :
          Len(x) = Len(y) /\ (\A i \in 1 .. Len(x) : x[i] = y[i]) => x = y
    BY SeqEqual, Zenon
  <2> QED BY <2>1, <2>2, <2>3, <2>4
<1>16. /\ consume_integer(t, s - 1).index = to
       /\ consume_integer(t, s - 1).arg =
            IF At(t, s - 1) = "-" THEN - Number(SubSeq(t, from + 1, to))
            ELSE Number(SubSeq(t, from + 1, to))
  <2>1. from = IF At(t, s - 1) \in {"-", "+"} THEN (s - 1) + 1 ELSE s - 1
    BY <1>1, <1>6 DEF from
  <2> QED BY <1>8, <2>1 DEF consume_integer
<1>17. consume_integer(t, s - 1).arg = Value(w)
  BY <1>2, <1>14, <1>15, <1>16
<1>18. CASE n = Len(u)
  <2>1. to = e
    BY <1>1, <1>3, <1>5, <1>10, <1>18
  <2>2. IsNumber(w)
    BY <1>4, <1>5, <1>12, <1>18 DEF IsNumber
  <2> QED BY <1>16, <1>17, <2>1, <2>2 DEF TakesInteger
<1>19. CASE n # Len(u)
  <2>1. n < Len(u) /\ n + 1 \in DOMAIN u /\ to + 1 \in s .. e
    <3>1. Len(u) \in Nat /\ DOMAIN u = 1 .. Len(u)
      BY <1>5
    <3>2. n < Len(u) /\ n + 1 \in 1 .. Len(u)
      <4>1. \A m \in Nat : \A l \in 0 .. m :
              l # m => l < m /\ l + 1 \in 1 .. m
        OBVIOUS
      <4> QED BY <1>19, <3>1, <4>1
    <3>3. to + 1 \in s .. e
      <4>1. /\ e \in Int /\ s \in Int /\ from \in s - 1 .. s /\ to = from + n
            /\ n \in Nat /\ n + 1 <= e - from
        BY <1>1, <1>3, <1>5, <1>10, <3>2
      <4> QED BY <4>1
    <3> QED BY <3>1, <3>2, <3>3
  <2>2. ~IsNumber(w)
    BY <1>4, <1>13, <2>1 DEF IsNumber
  <2>3. ~isspace(At(t, to))
    <3>1. At(t, (to + 1) - 1) = t[to + 1] /\ ~isspace(t[to + 1])
      BY <1>1, <2>1, Zenon
    <3>2. (to + 1) - 1 = to
      BY <1>3
    <3> QED BY <3>1, <3>2
  <2> QED BY <1>16, <1>17, <2>2, <2>3 DEF TakesInteger
<1> QED BY <1>18, <1>19

(* An argument takes the next word, if there is one: as an integer it      *)
(* comes to its end if it is a number, as a character if it has one.       *)
TakesNext(t, k, a, b) ==
  /\ k \in 1 .. Len(Words(t)) /\ Len(Words(t)) \in Nat
  /\ Len(Words(t)) = k => ~a.ok /\ ~b.ok
  /\ Len(Words(t)) # k =>
       /\ k + 1 \in 1 .. Len(Words(t))
       /\ a.ok
       /\ a.arg = Value(Words(t)[k + 1])
       /\ isspace(At(t, a.index)) <=> IsNumber(Words(t)[k + 1])
       /\ IsNumber(Words(t)[k + 1]) => \E f : IsWord(t, k + 1, f, a.index)
       /\ b.ok
       /\ b.arg = Words(t)[k + 1][1]
       /\ isspace(At(t, b.index)) <=> Len(Words(t)[k + 1]) = 1

(* So it is after every word of the line.                                   *)
LEMMA ArgumentIs ==
  ASSUME NEW C, NEW t \in Lines(C), NEW k, NEW s, NEW e, IsWord(t, k, s, e)
  PROVE  TakesNext(t, k, parse_argument(t, "i", e), parse_argument(t, "c", e))
<1> DEFINE from == Skip(t, e, Spaces)
           int == consume_integer(t, from)
<1>0. PICK a, b, w : /\ a = parse_argument(t, "i", e)
                     /\ b = parse_argument(t, "c", e)
                     /\ w = Words(t)[k + 1]
  BY Zenon
<1>1. k \in 1 .. Len(Words(t)) /\ Len(Words(t)) \in Nat
  BY WordIs
<1>2. /\ consume_whitespace_fails(t, e) =>
           /\ a = [ok |-> FALSE, index |-> from, arg |-> 0]
           /\ b = [ok |-> FALSE, index |-> from, arg |-> 0]
      /\ ~consume_whitespace_fails(t, e) =>
           /\ a = [ok |-> TRUE, index |-> int.index, arg |-> int.arg]
           /\ b = [ok |-> TRUE, index |-> from + 1, arg |-> At(t, from)]
  BY <1>0, Zenon DEF parse_argument
<1> HIDE DEF from, int
<1>3. \/ Len(Words(t)) = k /\ consume_whitespace_fails(t, e)
      \/ /\ ~consume_whitespace_fails(t, e)
         /\ \E f \in e + 1 .. Len(t), g \in 1 .. Len(t) - 1 :
              IsWord(t, k + 1, f, g) /\ from = f - 1
  BY WhitespaceIs DEF from
<1>4. CASE Len(Words(t)) = k /\ consume_whitespace_fails(t, e)
  <2>1. ~a.ok /\ ~b.ok
    BY <1>2, <1>4
  <2> QED BY <1>0, <1>1, <1>4, <2>1, Zenon DEF TakesNext
<1>5. CASE /\ ~consume_whitespace_fails(t, e)
           /\ \E f \in e + 1 .. Len(t), g \in 1 .. Len(t) - 1 :
                IsWord(t, k + 1, f, g) /\ from = f - 1
  <2>1. PICK f \in e + 1 .. Len(t), g \in 1 .. Len(t) - 1 :
          IsWord(t, k + 1, f, g) /\ from = f - 1
    BY <1>5
  <2>2. /\ k + 1 \in 1 .. Len(Words(t))
        /\ Words(t)[k + 1] = SubSeq(t, f, g)
    BY <2>1, WordIs
  <2>3. Len(Words(t)) # k
    BY <1>1, <2>2
  <2>4. /\ a.ok /\ a.index = int.index /\ a.arg = int.arg
        /\ b.ok /\ b.index = from + 1 /\ b.arg = At(t, from)
    BY <1>2, <1>5
  <2>5. int = consume_integer(t, f - 1)
    BY <2>1 DEF int
  <2>6. PICK v : Spans(C, t, f, g, v)
    BY <2>1, WordText, Zenon
  <2>7. w = v
    BY <1>0, <2>2, <2>6 DEF Spans
  <2>8. /\ int.arg = Value(v)
        /\ IsNumber(v) => int.index = g
        /\ ~IsNumber(v) => ~isspace(At(t, int.index))
    <3>1. TakesInteger(t, f - 1, g, v)
      BY <2>1, <2>6, IntegerIs, Zenon
    <3> QED BY <2>5, <3>1, Zenon DEF TakesInteger
  <2>9. /\ Len(t) \in Nat /\ g \in 1 .. Len(t) - 1 /\ f \in 1 .. g
        /\ At(t, g) = t[g + 1] /\ isspace(At(t, g))
        /\ \A i \in f .. g : At(t, i - 1) = t[i] /\ ~isspace(t[i])
    BY <2>1, AroundWord
  <2>10. At(t, from) = v[1]
    <3>1. v[1] = t[f] /\ At(t, f - 1) = t[f]
      BY <2>6, <2>9 DEF Spans
    <3> QED BY <2>1, <3>1
  <2>11. isspace(At(t, from + 1)) <=> Len(v) = 1
    <3>1. from + 1 = f
      BY <2>1, <2>9
    <3>2. CASE f = g
      BY <2>6, <2>9, <3>1, <3>2 DEF Spans
    <3>3. CASE f # g
      <4>1. f + 1 \in f .. g /\ (f + 1) - 1 = f /\ Len(v) # 1
        BY <2>6, <2>9, <3>3 DEF Spans
      <4>2. At(t, (f + 1) - 1) = t[f + 1] /\ ~isspace(t[f + 1])
        BY <2>9, <4>1, Zenon
      <4> QED BY <3>1, <4>1, <4>2
    <3> QED BY <3>2, <3>3
  <2>12. isspace(At(t, a.index)) <=> IsNumber(v)
    BY <2>4, <2>8, <2>9
  <2>13. IsNumber(v) => IsWord(t, k + 1, f, a.index)
    BY <2>1, <2>4, <2>8
  <2> QED BY <1>0, <1>1, <2>2, <2>3, <2>4, <2>7, <2>8, <2>10, <2>11, <2>12,
             <2>13, Zenon DEF TakesNext
<1> QED BY <1>3, <1>4, <1>5

(* There is none where there is no space.                                  *)
LEMMA NoArgument ==
  ASSUME NEW t, NEW type, NEW i, ~isspace(At(t, i))
  PROVE  ~parse_argument(t, type, i).ok
BY DEF parse_argument, consume_whitespace_fails

-----------------------------------------------------------------------------
(* The commands.                                                           *)

(* What is read at the first indices of a line.                             *)
LEMMA FirstAt ==
  ASSUME NEW C, NEW t \in Lines(C)
  PROVE  /\ At(t, 0) = t[1]
         /\ Len(t) >= 2 => At(t, 1) = t[2]
         /\ Len(t) >= 3 => At(t, 2) = t[3]
<1>1. Len(t) \in Nat /\ Len(t) >= 1
  BY AtIs
<1> QED BY <1>1 DEF At

(* The first word has one letter, or two.                                  *)
LEMMA OneLetter ==
  ASSUME NEW C, NEW t \in Lines(C), NEW a, ~isspace(a), t[1] = a
  PROVE  /\ Len(t) >= 2 /\ At(t, 0) = t[1] /\ At(t, 1) = t[2]
         /\ Named(t, <<a>>) <=> isspace(t[2])
         /\ \A b, c : Named(t, <<b, c>>) => b = a /\ c = t[2]
<1>1. t \in Seq(C) /\ Len(t) \in Nat /\ Len(t) >= 1
  BY AtIs
<1>2. Len(t) # 1
  BY AtIs DEF isspace, Spaces
<1>3. At(t, 0) = t[1] /\ At(t, 1) = t[2]
  BY <1>1, <1>2, FirstAt
<1>4. PICK e \in 1 .. Len(t) - 1 : IsWord(t, 1, 1, e)
  BY FirstWord
<1>5. PICK w : Spans(C, t, 1, e, w)
  BY <1>4, WordText, Zenon
<1>6. Words(t) # <<>> /\ Words(t)[1] = w
  <2>1. /\ 1 \in 1 .. Len(Words(t)) /\ Len(Words(t)) \in Nat
        /\ Words(t)[1] = SubSeq(t, 1, e)
    BY <1>4, WordIs
  <2> QED BY <1>5, <2>1 DEF Spans
<1>7. w \in Seq(C) /\ Len(w) = e /\ \A i \in 1 .. e : w[i] = t[i]
  BY <1>5 DEF Spans
<1>8. /\ t[e + 1] = At(t, e) /\ isspace(At(t, e))
      /\ \A i \in 1 .. e : ~isspace(t[i])
  BY <1>4, AroundWord
<1>9. Named(t, <<a>>) <=> w = <<a>>
  BY <1>6 DEF Named
<1>10. w = <<a>> <=> e = 1
  <2>1. ASSUME w = <<a>> PROVE e = 1
    <3>1. Len(<<a>>) = 1
      OBVIOUS
    <3> QED BY <1>7, <2>1, <3>1
  <2>2. ASSUME e = 1 PROVE w = <<a>>
    BY <1>7, <2>2
  <2> QED BY <2>1, <2>2
<1>11. e = 1 <=> isspace(t[2])
  <2>1. e # 1 => 2 \in 1 .. e
    OBVIOUS
  <2> QED BY <1>8, <2>1
<1>12. ASSUME NEW b, NEW c, Named(t, <<b, c>>)
       PROVE  b = a /\ c = t[2]
  <2>1. w = <<b, c>>
    BY <1>6, <1>12 DEF Named
  <2>2. Len(<<b, c>>) = 2 /\ <<b, c>>[1] = b /\ <<b, c>>[2] = c
    OBVIOUS
  <2>3. e = 2
    BY <1>7, <2>1, <2>2
  <2> QED BY <1>7, <2>1, <2>2, <2>3
<1> QED BY <1>1, <1>2, <1>3, <1>9, <1>10, <1>11, <1>12

(* The first word has the two letters if a space follows them.              *)
LEMMA TwoLetters ==
  ASSUME NEW C, NEW t \in Lines(C), NEW a, NEW b, ~isspace(a), ~isspace(b),
         t[1] = a, t[2] = b
  PROVE  /\ Len(t) >= 3 /\ At(t, 2) = t[3]
         /\ Named(t, <<a, b>>) <=> isspace(At(t, 2))
         /\ isspace(At(t, 2)) => IsWord(t, 1, 1, 2)
<1>1. t \in Seq(C) /\ Len(t) \in Nat /\ Len(t) >= 2
  BY AtIs, OneLetter
<1>2. Len(t) # 2
  BY AtIs DEF isspace, Spaces
<1>3. Len(t) >= 3 /\ At(t, 1) = t[2] /\ At(t, 2) = t[3]
  <2>1. Len(t) >= 3
    <3>1. \A n \in Nat : n >= 2 /\ n # 2 => n >= 3
      OBVIOUS
    <3> QED BY <1>1, <1>2, <3>1
  <2> QED BY <2>1, FirstAt
<1>4. PICK e \in 1 .. Len(t) - 1 : IsWord(t, 1, 1, e)
  BY FirstWord
<1>5. PICK w : Spans(C, t, 1, e, w)
  BY <1>4, WordText, Zenon
<1>6. Words(t) # <<>> /\ Words(t)[1] = w
  <2>1. /\ 1 \in 1 .. Len(Words(t)) /\ Len(Words(t)) \in Nat
        /\ Words(t)[1] = SubSeq(t, 1, e)
    BY <1>4, WordIs
  <2> QED BY <1>5, <2>1 DEF Spans
<1>7. w \in Seq(C) /\ Len(w) = e /\ \A i \in 1 .. e : w[i] = t[i]
  BY <1>5 DEF Spans
<1>8. /\ t[e + 1] = At(t, e) /\ isspace(At(t, e))
      /\ \A i \in 1 .. e : ~isspace(t[i])
  BY <1>4, AroundWord
<1>9. e # 1
  BY <1>3, <1>8
<1>10. e = 2 <=> isspace(t[3])
  <2>1. e # 2 => 3 \in 1 .. e
    BY <1>9
  <2> QED BY <1>8, <2>1
<1>11. w = <<a, b>> <=> e = 2
  <2>1. ASSUME w = <<a, b>> PROVE e = 2
    <3>1. Len(<<a, b>>) = 2
      OBVIOUS
    <3> QED BY <1>7, <2>1, <3>1
  <2>2. ASSUME e = 2 PROVE w = <<a, b>>
    BY <1>7, <2>2
  <2> QED BY <2>1, <2>2
<1>12. Named(t, <<a, b>>) <=> w = <<a, b>>
  BY <1>6 DEF Named
<1> QED BY <1>1, <1>3, <1>4, <1>10, <1>11, <1>12

(* A text begins with two letters if they are its first.                    *)
LEMMA PrefixIs ==
  ASSUME NEW C, NEW t \in Lines(C), NEW a, NEW b
  PROVE  IsPrefix(<<a, b>>, t) <=> Len(t) >= 2 /\ t[1] = a /\ t[2] = b
<1>1. t \in Seq(C) /\ Len(t) \in Nat
  BY AtIs
<1>2. IsPrefix(<<a, b>>, t) <=>
        2 <= Len(t) /\ SubSeq(<<a, b>>, 1, 2) = SubSeq(t, 1, 2)
  BY DEF IsPrefix
<1>3. /\ Len(SubSeq(<<a, b>>, 1, 2)) = 2
      /\ SubSeq(<<a, b>>, 1, 2)[1] = a /\ SubSeq(<<a, b>>, 1, 2)[2] = b
      /\ SubSeq(<<a, b>>, 1, 2) \in Seq({a, b})
  OBVIOUS
<1>4. ASSUME Len(t) >= 2
      PROVE  /\ SubSeq(t, 1, 2) \in Seq(C) /\ Len(SubSeq(t, 1, 2)) = 2
             /\ SubSeq(t, 1, 2)[1] = t[1] /\ SubSeq(t, 1, 2)[2] = t[2]
  BY <1>1, <1>4
<1> QED BY <1>1, <1>2, <1>3, <1>4

(* The commands of one word and its arguments.                             *)
LEMMA OneIs ==
  ASSUME NEW C, NEW t \in Lines(C), IsWord(t, 1, 1, 2), NEW name
  PROVE  One(t, name) = IF Len(Words(t)) >= 2 /\ IsNumber(Words(t)[2])
                        THEN Command(name, <<Value(Words(t)[2])>>) ELSE ERROR
<1>1. PICK n, a, w : /\ n = Len(Words(t)) /\ w = Words(t)[2]
                     /\ a = parse_argument(t, "i", 2)
  BY Zenon
<1>2. TakesNext(t, 1, a, parse_argument(t, "c", 2))
  BY <1>1, ArgumentIs, Zenon
<1>3. /\ n \in Nat /\ n >= 1
      /\ n = 1 => ~a.ok
      /\ n # 1 => /\ a.ok /\ a.arg = Value(w)
                  /\ isspace(At(t, a.index)) <=> IsNumber(w)
  <2>1. 1 \in 1 .. n /\ n \in Nat /\ 1 + 1 = 2
    BY <1>1, <1>2 DEF TakesNext
  <2>2. /\ n = 1 => ~a.ok
        /\ n # 1 => /\ a.ok /\ a.arg = Value(w)
                    /\ isspace(At(t, a.index)) <=> IsNumber(w)
    BY <1>1, <1>2, <2>1, Zenon DEF TakesNext
  <2> QED BY <2>1, <2>2
<1>4. n >= 2 <=> n # 1
  BY <1>3
<1>5. One(t, name) = IF a.ok /\ isspace(At(t, a.index))
                     THEN Command(name, <<a.arg>>) ELSE ERROR
  BY <1>1, Zenon DEF One
<1>6. CASE n = 1
  BY <1>1, <1>3, <1>4, <1>5, <1>6, Zenon
<1>7. CASE n # 1
  BY <1>1, <1>3, <1>4, <1>5, <1>7, Zenon
<1> QED BY <1>6, <1>7

(* Nothing is asked of what follows the number.                            *)
LEMMA HornIs ==
  ASSUME NEW C, NEW t \in Lines(C), IsWord(t, 1, 1, 2), At(t, 1) = "r"
  PROVE  parse_h(t) = IF Len(Words(t)) >= 2
                      THEN Command("LOC_HORN", <<Value(Words(t)[2])>>)
                      ELSE ERROR
<1>1. PICK n, a, w : /\ n = Len(Words(t)) /\ w = Words(t)[2]
                     /\ a = parse_argument(t, "i", 2)
  BY Zenon
<1>2. TakesNext(t, 1, a, parse_argument(t, "c", 2))
  BY <1>1, ArgumentIs, Zenon
<1>3. /\ n \in Nat /\ n >= 1
      /\ n = 1 => ~a.ok
      /\ n # 1 => a.ok /\ a.arg = Value(w)
  <2>1. 1 \in 1 .. n /\ n \in Nat /\ 1 + 1 = 2
    BY <1>1, <1>2 DEF TakesNext
  <2>2. /\ n = 1 => ~a.ok
        /\ n # 1 => a.ok /\ a.arg = Value(w)
    BY <1>1, <1>2, <2>1, Zenon DEF TakesNext
  <2> QED BY <2>1, <2>2
<1>4. n >= 2 <=> n # 1
  BY <1>3
<1>5. parse_h(t) = IF a.ok THEN Command("LOC_HORN", <<a.arg>>) ELSE ERROR
  BY <1>1, Zenon DEF parse_h
<1> QED BY <1>1, <1>3, <1>4, <1>5, Zenon

(* The commands of one word and two arguments, the second a number or a    *)
(* character.                                                              *)
LEMMA TwoAre ==
  ASSUME NEW C, NEW t \in Lines(C), IsWord(t, 1, 1, 2), NEW name
  PROVE  /\ Two(t, "i", name) =
              IF /\ Len(Words(t)) >= 3
                 /\ IsNumber(Words(t)[2]) /\ IsNumber(Words(t)[3])
              THEN Command(name, <<Value(Words(t)[2]), Value(Words(t)[3])>>)
              ELSE ERROR
         /\ Two(t, "c", name) =
              IF /\ Len(Words(t)) >= 3
                 /\ IsNumber(Words(t)[2]) /\ Len(Words(t)[3]) = 1
              THEN Command(name, <<Value(Words(t)[2]), Words(t)[3][1]>>)
              ELSE ERROR
<1>1. PICK n, a, v, w :
        /\ n = Len(Words(t)) /\ v = Words(t)[2] /\ w = Words(t)[3]
        /\ a = parse_argument(t, "i", 2)
  BY Zenon
<1>2. PICK b, c : /\ b = parse_argument(t, "i", a.index)
                  /\ c = parse_argument(t, "c", a.index)
  BY Zenon
<1>3. /\ Two(t, "i", name) =
           IF a.ok /\ b.ok /\ isspace(At(t, b.index))
           THEN Command(name, <<a.arg, b.arg>>) ELSE ERROR
      /\ Two(t, "c", name) =
           IF a.ok /\ c.ok /\ isspace(At(t, c.index))
           THEN Command(name, <<a.arg, c.arg>>) ELSE ERROR
  BY <1>1, <1>2, Zenon DEF Two
<1>4. TakesNext(t, 1, a, parse_argument(t, "c", 2))
  BY <1>1, ArgumentIs, Zenon
<1>5. /\ n \in Nat /\ n >= 1
      /\ n = 1 => ~a.ok
      /\ n # 1 => /\ a.ok /\ a.arg = Value(v)
                  /\ isspace(At(t, a.index)) <=> IsNumber(v)
                  /\ IsNumber(v) => \E f : IsWord(t, 2, f, a.index)
  <2>1. 1 \in 1 .. n /\ n \in Nat /\ 1 + 1 = 2
    BY <1>1, <1>4 DEF TakesNext
  <2>2. /\ n = 1 => ~a.ok
        /\ n # 1 => /\ a.ok /\ a.arg = Value(v)
                    /\ isspace(At(t, a.index)) <=> IsNumber(v)
                    /\ IsNumber(v) => \E f : IsWord(t, 2, f, a.index)
    BY <1>1, <1>4, <2>1, Zenon DEF TakesNext
  <2> QED BY <2>1, <2>2
<1>6. CASE n = 1
  <2>1. ~ (n >= 3)
    BY <1>6
  <2> QED BY <1>1, <1>3, <1>5, <1>6, <2>1, Zenon
<1>7. CASE n # 1 /\ ~IsNumber(v)
  <2>1. ~isspace(At(t, a.index))
    BY <1>5, <1>7, Zenon
  <2>2. ~b.ok /\ ~c.ok
    BY <1>2, <2>1, NoArgument, Zenon
  <2> QED BY <1>1, <1>3, <1>7, <2>2, Zenon
<1>8. CASE n # 1 /\ IsNumber(v)
  <2>1. TakesNext(t, 2, b, c)
    <3>1. PICK f : IsWord(t, 2, f, a.index)
      BY <1>5, <1>8, Zenon
    <3> QED BY <1>2, <3>1, ArgumentIs, Zenon
  <2>2. /\ n >= 2
        /\ n = 2 => ~b.ok /\ ~c.ok
        /\ n # 2 => /\ b.ok /\ b.arg = Value(w)
                    /\ isspace(At(t, b.index)) <=> IsNumber(w)
                    /\ c.ok /\ c.arg = w[1]
                    /\ isspace(At(t, c.index)) <=> Len(w) = 1
    <3>1. 2 + 1 = 3 /\ n >= 2
      BY <1>5, <1>8
    <3> QED BY <1>1, <2>1, <3>1, Zenon DEF TakesNext
  <2>3. n >= 3 <=> n # 2
    BY <1>5, <2>2
  <2>4. CASE n = 2
    BY <1>1, <1>3, <2>2, <2>3, <2>4, Zenon
  <2>5. CASE n # 2
    <3>1. /\ a.ok /\ a.arg = Value(v) /\ n >= 3
      BY <1>5, <1>8, <2>3, <2>5, Zenon
    <3>2. /\ b.ok /\ b.arg = Value(w)
          /\ isspace(At(t, b.index)) <=> IsNumber(w)
          /\ c.ok /\ c.arg = w[1]
          /\ isspace(At(t, c.index)) <=> Len(w) = 1
      BY <2>2, <2>5, Zenon
    <3> QED BY <1>1, <1>3, <1>8, <3>1, <3>2, Zenon
  <2> QED BY <2>4, <2>5
<1> QED BY <1>6, <1>7, <1>8

(* Without space after two letters they take nothing.                      *)
LEMMA NoneTaken ==
  ASSUME NEW t, ~isspace(At(t, 2)), NEW name, NEW type
  PROVE  /\ Plain(t, name) = ERROR
         /\ One(t, name) = ERROR
         /\ Two(t, type, name) = ERROR
         /\ parse_h(t) = ERROR
<1>1. ~parse_argument(t, "i", 2).ok
  BY NoArgument
<1> QED BY <1>1, Zenon DEF Plain, One, Two, parse_h

-----------------------------------------------------------------------------
(* Each letter that a command may begin with.                              *)

Letters == {"b", "e", "h", "m", "p", "q", "r", "s", "t", "v", "w", "z"}

(* None of them is a space.                                                 *)
LEMMA LettersAre ==
  ASSUME NEW c \in Letters
  PROVE  ~isspace(c)
BY DEF isspace, Spaces, CR, Letters

(* Of a line that begins with some letter it is told by the next.          *)
BeginsWith(t, a, b) ==
  /\ At(t, 0) = a /\ At(t, 1) = b /\ t[1] # CR
  /\ Named(t, <<"q">>) <=> a = "q" /\ isspace(b)
  /\ \A c, d \in Letters :
       /\ IsPrefix(<<c, d>>, t) <=> a = c /\ b = d
       /\ Named(t, <<c, d>>) <=> a = c /\ b = d /\ isspace(At(t, 2))
       /\ Named(t, <<c, d>>) => IsWord(t, 1, 1, 2)

(* So it is for every line that does not begin with a space.                *)
LEMMA LineBegins ==
  ASSUME NEW C, NEW t \in Lines(C), NEW a, a = t[1], ~isspace(a)
  PROVE  BeginsWith(t, a, At(t, 1))
<1>1. /\ Len(t) >= 2 /\ At(t, 0) = a /\ At(t, 1) = t[2]
      /\ Named(t, <<a>>) <=> isspace(At(t, 1))
      /\ \A b, c : Named(t, <<b, c>>) => b = a /\ c = At(t, 1)
  BY OneLetter
<1>2. t[1] # CR
  BY DEF isspace, Spaces
<1>3. Named(t, <<"q">>) <=> a = "q" /\ isspace(At(t, 1))
  <2>1. CASE a = "q"
    BY <1>1, <2>1
  <2>2. CASE a # "q"
    <3>1. PICK e \in 1 .. Len(t) - 1 : IsWord(t, 1, 1, e)
      BY FirstWord
    <3>2. PICK w : Spans(C, t, 1, e, w)
      BY <3>1, WordText, Zenon
    <3>3. Words(t)[1] = w
      BY <3>1, <3>2, WordIs DEF Spans
    <3>4. 1 \in 1 .. e - 1 + 1 /\ 1 + 1 - 1 = 1
      BY <3>1
    <3>5. w[1] = a
      BY <3>2, <3>4 DEF Spans
    <3>6. w # <<"q">>
      BY <2>2, <3>5
    <3> QED BY <2>2, <3>3, <3>6 DEF Named
  <2> QED BY <2>1, <2>2
<1>4. ASSUME NEW b \in Letters,
             NEW c \in Letters
      PROVE  /\ IsPrefix(<<b, c>>, t) <=> a = b /\ At(t, 1) = c
             /\ Named(t, <<b, c>>) <=>
                  a = b /\ At(t, 1) = c /\ isspace(At(t, 2))
             /\ Named(t, <<b, c>>) => IsWord(t, 1, 1, 2)
  <2>1. ~isspace(b) /\ ~isspace(c)
    BY LettersAre
  <2>2. IsPrefix(<<b, c>>, t) <=> a = b /\ At(t, 1) = c
    BY <1>1, PrefixIs
  <2>3. a = b /\ At(t, 1) = c =>
          /\ Named(t, <<b, c>>) <=> isspace(At(t, 2))
          /\ isspace(At(t, 2)) => IsWord(t, 1, 1, 2)
    BY <1>1, <2>1, TwoLetters
  <2> QED BY <1>1, <2>2, <2>3
<1> QED BY <1>1, <1>2, <1>3, <1>4, Zenon DEF BeginsWith

(* The parser returns what the line means.                                 *)
LEMMA ParserIsRight ==
  ASSUME NEW C, NEW t \in Lines(C)
  PROVE  parse_command(t) = Meaning(t)
<1>1. PICK a, b, w : /\ a = t[1] /\ b = At(t, 1) /\ w = Words(t)
  BY Zenon
<1>2. At(t, 0) = a
  BY <1>1, FirstAt
<1>3. CASE isspace(a)
  <2>1. a \notin Letters
    BY <1>3, LettersAre
  <2>2. \A name : ~Named(t, name)
    BY <1>1, <1>3, Zenon DEF Named
  <2>3. ~IsPrefix(<<"s", "p">>, t) /\ ~IsPrefix(<<"s", "z">>, t)
    BY <1>1, <2>1, PrefixIs DEF Letters
  <2>4. CASE a = CR
    <3>1. parse_command(t) = Command("NONE", <<>>)
      BY <1>2, <2>4 DEF parse_command, CR
    <3>2. Meaning(t) = Command("NONE", <<>>)
      BY <1>1, <2>2, <2>3, <2>4, Zenon DEF Meaning
    <3> QED BY <3>1, <3>2
  <2>5. CASE a # CR
    <3>1. parse_command(t) = ERROR
      BY <1>2, <2>5, <2>1 DEF parse_command, Letters
    <3>2. Meaning(t) = ERROR
      BY <1>1, <2>2, <2>3, <2>5, Zenon DEF Meaning
    <3> QED BY <3>1, <3>2
  <2> QED BY <2>4, <2>5
<1>4. CASE ~isspace(a)
  <2>0. Len(w) \in Nat /\ (Len(w) >= 3 => Len(w) >= 2)
    <3>1. PICK e : IsWord(t, 1, 1, e)
      BY <1>1, <1>4, FirstWord
    <3>2. Len(Words(t)) \in Nat
      BY <3>1, WordIs
    <3> QED BY <1>1, <3>2
  <2>1. BeginsWith(t, a, b)
    BY <1>1, <1>4, LineBegins, Zenon
  <2>2. t[1] # CR /\ a # CR
    BY <1>1, <2>1, Zenon DEF BeginsWith
  <2>3. /\ Named(t, <<"q">>) <=> a = "q" /\ isspace(b)
        /\ Named(t, <<"b", "m">>) <=> a = "b" /\ b = "m" /\ isspace(At(t, 2))
        /\ Named(t, <<"e", "t">>) <=> a = "e" /\ b = "t" /\ isspace(At(t, 2))
        /\ Named(t, <<"s", "t">>) <=> a = "s" /\ b = "t" /\ isspace(At(t, 2))
        /\ Named(t, <<"r", "e">>) <=> a = "r" /\ b = "e" /\ isspace(At(t, 2))
        /\ IsPrefix(<<"s", "p">>, t) <=> a = "s" /\ b = "p"
        /\ IsPrefix(<<"s", "z">>, t) <=> a = "s" /\ b = "z"
        /\ Named(t, <<"r", "v">>) <=> a = "r" /\ b = "v" /\ isspace(At(t, 2))
        /\ Named(t, <<"h", "r">>) <=> a = "h" /\ b = "r" /\ isspace(At(t, 2))
        /\ Named(t, <<"t", "r">>) <=> a = "t" /\ b = "r" /\ isspace(At(t, 2))
        /\ Named(t, <<"s", "w">>) <=> a = "s" /\ b = "w" /\ isspace(At(t, 2))
    BY <2>1 DEF BeginsWith, Letters
  <2>4. CASE a = "b"
    <3>1. parse_command(t) = IF b = "m" /\ isspace(At(t, 2))
                             THEN Command("CMD_BENCHMARK", <<>>) ELSE ERROR
      BY <2>1, <2>4 DEF parse_command, parse_b, Plain, BeginsWith, CR
    <3>2. Meaning(t) = IF b = "m" /\ isspace(At(t, 2))
                       THEN Command("CMD_BENCHMARK", <<>>) ELSE ERROR
      BY <2>2, <2>3, <2>4 DEF Meaning
    <3> QED BY <3>1, <3>2
  <2>5. CASE a = "e"
    <3>1. parse_command(t) = IF b = "t" /\ isspace(At(t, 2))
                             THEN Command("CMD_ECHO", <<>>) ELSE ERROR
      BY <2>1, <2>5 DEF parse_command, parse_e, Plain, BeginsWith, CR
    <3>2. Meaning(t) = IF b = "t" /\ isspace(At(t, 2))
                       THEN Command("CMD_ECHO", <<>>) ELSE ERROR
      BY <2>2, <2>3, <2>5 DEF Meaning
    <3> QED BY <3>1, <3>2
  <2>6. CASE a = "q"
    <3>1. parse_command(t) = IF isspace(b) THEN Command("QUIT", <<>>)
                             ELSE ERROR
      BY <2>1, <2>6 DEF parse_command, parse_q, BeginsWith, CR
    <3>2. Meaning(t) = IF isspace(b) THEN Command("QUIT", <<>>) ELSE ERROR
      BY <2>2, <2>3, <2>6 DEF Meaning
    <3> QED BY <3>1, <3>2
  <2>7. CASE a = "h"
    <3>1. parse_command(t) = parse_h(t) /\ At(t, 1) = b
      BY <2>1, <2>7 DEF parse_command, BeginsWith, CR
    <3>2. Meaning(t) = IF b = "r" /\ isspace(At(t, 2)) /\ Len(w) >= 2
                       THEN Command("LOC_HORN", <<Value(w[2])>>) ELSE ERROR
      BY <1>1, <2>2, <2>3, <2>7 DEF Meaning
    <3>3. CASE b = "r" /\ isspace(At(t, 2))
      <4>1. IsWord(t, 1, 1, 2)
        BY <2>1, <2>3, <2>7, <3>3 DEF BeginsWith, Letters
      <4>2. parse_h(t) = IF Len(w) >= 2
                         THEN Command("LOC_HORN", <<Value(w[2])>>) ELSE ERROR
        BY <1>1, <3>1, <3>3, <4>1, HornIs, Zenon
      <4> QED BY <3>1, <3>2, <3>3, <4>2
    <3>4. CASE b # "r"
      BY <3>1, <3>2, <3>4 DEF parse_h
    <3>5. CASE ~isspace(At(t, 2))
      BY <3>1, <3>2, <3>5, NoneTaken
    <3> QED BY <3>3, <3>4, <3>5
  <2>8. CASE a = "t"
    <3>1. parse_command(t) = IF b = "r" THEN Two(t, "i", "LOC_SPEED")
                             ELSE ERROR
      BY <2>1, <2>8 DEF parse_command, parse_t, BeginsWith, CR
    <3>2. Meaning(t) =
            IF /\ b = "r" /\ isspace(At(t, 2))
               /\ Len(w) >= 2 /\ IsNumber(w[2])
               /\ Len(w) >= 3 /\ IsNumber(w[3])
            THEN Command("LOC_SPEED", <<Value(w[2]), Value(w[3])>>)
            ELSE ERROR
      BY <1>1, <2>2, <2>3, <2>8 DEF Meaning
    <3>3. CASE b = "r" /\ isspace(At(t, 2))
      <4>1. IsWord(t, 1, 1, 2)
        BY <2>1, <2>3, <2>8, <3>3 DEF BeginsWith, Letters
      <4>2. Two(t, "i", "LOC_SPEED") =
              IF Len(w) >= 3 /\ IsNumber(w[2]) /\ IsNumber(w[3])
              THEN Command("LOC_SPEED", <<Value(w[2]), Value(w[3])>>)
              ELSE ERROR
        BY <1>1, <4>1, TwoAre, Zenon
      <4> QED BY <2>0, <3>1, <3>2, <3>3, <4>2
    <3>4. CASE b # "r"
      BY <3>1, <3>2, <3>4
    <3>5. CASE ~isspace(At(t, 2))
      BY <3>1, <3>2, <3>5, NoneTaken
    <3> QED BY <3>3, <3>4, <3>5
  <2>9. CASE a = "r"
    <3>1. parse_command(t) =
            CASE b = "v" -> One(t, "LOC_REVERSE")
              [] b = "e" -> Plain(t, "TRACK_RESET")
              [] OTHER -> ERROR
      BY <2>1, <2>9 DEF parse_command, parse_r, BeginsWith, CR
    <3>2. Meaning(t) =
            CASE b = "e" /\ isspace(At(t, 2)) -> Command("TRACK_RESET", <<>>)
              [] /\ b = "v" /\ isspace(At(t, 2))
                 /\ Len(w) >= 2 /\ IsNumber(w[2]) ->
                   Command("LOC_REVERSE", <<Value(w[2])>>)
              [] OTHER -> ERROR
      BY <1>1, <2>2, <2>3, <2>9 DEF Meaning
    <3>3. CASE b = "v" /\ isspace(At(t, 2))
      <4>1. IsWord(t, 1, 1, 2)
        BY <2>1, <2>3, <2>9, <3>3 DEF BeginsWith, Letters
      <4>2. One(t, "LOC_REVERSE") =
              IF Len(w) >= 2 /\ IsNumber(w[2])
              THEN Command("LOC_REVERSE", <<Value(w[2])>>) ELSE ERROR
        BY <1>1, <4>1, OneIs, Zenon
      <4> QED BY <3>1, <3>2, <3>3, <4>2
    <3>4. CASE b # "v" /\ isspace(At(t, 2))
      BY <3>1, <3>2, <3>4 DEF Plain
    <3>5. CASE ~isspace(At(t, 2))
      BY <3>1, <3>2, <3>5, NoneTaken
    <3> QED BY <3>3, <3>4, <3>5
  <2>10. CASE a = "s"
    <3>1. parse_command(t) =
            CASE b = "t" -> Plain(t, "CMD_STRESS")
              [] b = "w" -> Two(t, "c", "TRACK_TURNOUT")
              [] b = "p" -> Command("SEPPUKU", <<>>)
              [] b = "z" -> Command("SIZES", <<>>)
              [] OTHER -> ERROR
      BY <2>1, <2>10 DEF parse_command, parse_s, BeginsWith, CR
    <3>2. Meaning(t) =
            CASE b = "t" /\ isspace(At(t, 2)) -> Command("CMD_STRESS", <<>>)
              [] b = "p" -> Command("SEPPUKU", <<>>)
              [] b = "z" -> Command("SIZES", <<>>)
              [] /\ b = "w" /\ isspace(At(t, 2))
                 /\ Len(w) >= 2 /\ IsNumber(w[2])
                 /\ Len(w) >= 3 /\ Len(w[3]) = 1 ->
                   Command("TRACK_TURNOUT", <<Value(w[2]), w[3][1]>>)
              [] OTHER -> ERROR
      BY <1>1, <2>2, <2>3, <2>10 DEF Meaning
    <3>3. CASE b = "w" /\ isspace(At(t, 2))
      <4>1. IsWord(t, 1, 1, 2)
        BY <2>1, <2>3, <2>10, <3>3 DEF BeginsWith, Letters
      <4>2. Two(t, "c", "TRACK_TURNOUT") =
              IF Len(w) >= 3 /\ IsNumber(w[2]) /\ Len(w[3]) = 1
              THEN Command("TRACK_TURNOUT", <<Value(w[2]), w[3][1]>>)
              ELSE ERROR
        BY <1>1, <4>1, TwoAre, Zenon
      <4> QED BY <2>0, <3>1, <3>2, <3>3, <4>2
    <3>4. CASE b # "w" /\ isspace(At(t, 2))
      BY <3>1, <3>2, <3>4 DEF Plain
    <3>5. CASE ~isspace(At(t, 2))
      BY <3>1, <3>2, <3>5, NoneTaken
    <3> QED BY <3>3, <3>4, <3>5
  <2>11. CASE a \notin {"b", "e", "q", "h", "t", "r", "s"}
    <3>1. parse_command(t) = ERROR
      BY <2>1, <2>2, <2>11 DEF parse_command, BeginsWith, CR
    <3>2. Meaning(t) = ERROR
      BY <2>2, <2>3, <2>11, Zenon DEF Meaning
    <3> QED BY <3>1, <3>2
  <2> QED BY <2>4, <2>5, <2>6, <2>7, <2>8, <2>9, <2>10, <2>11
<1> QED BY <1>3, <1>4

(* Every text that the parser is given is a line.                          *)
LEMMA TextsAreLines ==
  ASSUME NEW text \in Texts
  PROVE  \E C : text \in Lines(C)
<1>1. CASE text = <<CR>>
  <2>1. text \in Lines({CR})
    BY <1>1 DEF Lines, CR, NUL
  <2> QED BY <2>1
<1>2. ASSUME NEW head \in HEADS, NEW n \in 0 .. MAX_REST,
             NEW rest \in [1 .. n -> REST],
             text = head \o rest \o <<CR>>
      PROVE  \E C : text \in Lines(C)
  <2> DEFINE C == Range(head) \cup REST \cup {CR}
  <2>1. n \in Nat /\ rest \in Seq(REST) /\ Len(rest) = n
    BY TextsAssumption
  <2>2. head \in Seq(Range(head)) /\ NUL \notin Range(head) /\ NUL \notin REST
    BY TextsAssumption
  <2>3. NUL \notin C
    BY <2>2 DEF NUL, CR
  <2>4. head \in Seq(C) /\ rest \in Seq(C) /\ <<CR>> \in Seq(C)
    <3> HIDE DEF C
    <3>1. Range(head) \in SUBSET C /\ REST \in SUBSET C /\ CR \in C
      BY DEF C
    <3> QED BY <2>1, <2>2, <3>1
  <2> HIDE DEF C
  <2>5. PICK both \in Seq(C) : both = head \o rest
    <3>1. head \o rest \in Seq(C)
      BY <2>4, ConcatProperties, Zenon
    <3> QED BY <3>1
  <2>6. text = Append(both, CR)
    BY <1>2, <2>5
  <2>7. /\ text \in Seq(C) /\ Len(text) = Len(both) + 1
        /\ text[Len(both) + 1] = CR
    BY <2>5, <2>6, <2>4
  <2>8. \A i \in 1 .. Len(text) : text[i] # NUL
    BY <2>3, <2>7
  <2> QED BY <2>7, <2>8 DEF Lines
<1>3. \/ text = <<CR>>
      \/ \E head \in HEADS, n \in 0 .. MAX_REST :
           \E rest \in [1 .. n -> REST] : text = head \o rest \o <<CR>>
  <2> DEFINE Rests == UNION {[1 .. n -> REST] : n \in 0 .. MAX_REST}
             Text(head, rest) == head \o rest \o <<CR>>
  <2>1. \/ text = <<CR>>
        \/ \E head \in HEADS, rest \in Rests : text = Text(head, rest)
    <3>1. Texts = {<<CR>>} \cup
                  {Text(head, rest) : head \in HEADS, rest \in Rests}
      BY DEF Texts
    <3> HIDE DEF Rests, Text
    <3> QED BY <3>1
  <2>2. \A rest \in Rests : \E n \in 0 .. MAX_REST : rest \in [1 .. n -> REST]
    BY Zenon
  <2> QED BY <2>1, <2>2, Zenon
<1> QED BY <1>1, <1>2, <1>3

(* Every input is one that its function is for.                            *)
InputInv ==
  /\ Given("parser") => \E C : input[1] \in Lines(C)
  /\ Given("bitmap") => input[1] \in WordsOfBits
  /\ Given("numbers") => input[1] \in UINT

(* Nothing else is given.                                                  *)
LEMMA InputsAreRight == PSpec => []InputInv
<1>1. PInit => InputInv
  BY DEF PInit, InputInv, Given
<1>2. InputInv /\ [PNext]_pvars => InputInv'
  <2> SUFFICES ASSUME InputInv, [PNext]_pvars PROVE InputInv'
    OBVIOUS
  <2>1. CASE Give
    <3>1. CASE part = "parser" /\ \E text \in Texts : input' = <<text>>
      BY <2>1, <3>1, TextsAreLines DEF Give, InputInv, Given
    <3>2. CASE part = "bitmap" /\ \E v \in WordsOfBits : input' = <<v>>
      BY <2>1, <3>2 DEF Give, InputInv, Given
    <3>3. CASE part = "numbers" /\ \E word \in UINT : input' = <<word>>
      BY <2>1, <3>3 DEF Give, InputInv, Given
    <3> QED BY <2>1, <3>1, <3>2, <3>3 DEF Give
  <2>2. CASE Take
    BY <2>2 DEF Take, InputInv, Given
  <2>3. CASE UNCHANGED <<part, input>>
    BY <2>3 DEF InputInv, Given
  <2> QED BY <2>1, <2>2, <2>3
          DEF PNext, QueueStep, NamesStep, LineStep, LineEnded, pvars
<1> QED BY <1>1, <1>2, PTL DEF PSpec

(***************************************************************************)
(* parse_command takes every text for what its words mean, whatever the    *)
(* heads of the texts, the characters that go on and how many there are:   *)
(* its scan of the line finds the words, their numbers and their ends.     *)
(***************************************************************************)
THEOREM ParserIsTrue == PSpec => []ParserMeetsMeaning
<1>1. InputInv => ParserMeetsMeaning
  BY ParserIsRight DEF ParserMeetsMeaning, InputInv
<1> QED BY <1>1, InputsAreRight, PTL

-----------------------------------------------------------------------------
(* The row of the task launcher shows its line, for a line of any length   *)
(* and any keyboard.                                                       *)

LineInv == line \in Seq(KEYBOARD \cup {"^"}) /\ RowShowsLine

(* What the last character of a line leaves, shorter by one.               *)
LEMMA FrontIsShorter ==
  ASSUME NEW S, NEW s \in Seq(S), s # <<>>
  PROVE  /\ Front(s) \in Seq(S)
         /\ Len(Front(s)) = Len(s) - 1
         /\ \A i \in 1 .. Len(s) - 1 : Front(s)[i] = s[i]
<1>1. Front(s) = SubSeq(s, 1, Len(s) - 1)
  BY DEF Front
<1>2. Len(s) \in Nat /\ Len(s) >= 1
  OBVIOUS
<1>3. SubSeq(s, 1, Len(s) - 1) \in Seq(S)
  BY <1>2
<1>4. Len(SubSeq(s, 1, Len(s) - 1)) = Len(s) - 1
  BY <1>2
<1>5. \A i \in 1 .. Len(s) - 1 : SubSeq(s, 1, Len(s) - 1)[i] = s[i]
  BY <1>2
<1> QED BY <1>1, <1>3, <1>4, <1>5

(* There is room for one more character, and what is kept is a prefix.     *)
LEMMA RoomIsMade ==
  ASSUME LineInv
  PROVE  /\ MakeRoom \in Seq(KEYBOARD \cup {"^"})
         /\ Len(MakeRoom) <= Len(line) /\ Len(MakeRoom) <= LINE - 3
         /\ \A i \in 1 .. Len(MakeRoom) : MakeRoom[i] = line[i]
         /\ Len(MakeRoom) >= Len(line) - 1
<1>1. CASE Len(line) = LINE - 2
  <2>1. line # <<>>
    BY <1>1, LineAssumption
  <2>2. MakeRoom = Front(line)
    BY <1>1 DEF MakeRoom
  <2> QED BY <1>1, <2>1, <2>2, LineAssumption, FrontIsShorter DEF LineInv
<1>2. CASE Len(line) # LINE - 2
  BY <1>2, LineAssumption DEF MakeRoom, LineInv, RowShowsLine
<1> QED BY <1>1, <1>2

(* A character is taken back from the line and from the row alike.         *)
LEMMA BackspaceShows ==
  ASSUME LineInv, launcher = "reads", Backspace
  PROVE  LineInv'
<1> DEFINE n == Len(line)
<1>1. /\ line' \in Seq(KEYBOARD \cup {"^"}) /\ Len(line') = n - 1
      /\ \A i \in 1 .. n - 1 : line'[i] = line[i]
  BY FrontIsShorter DEF Backspace, LineInv
<1>2. \A i \in 1 .. LINE : i < n => row[i] = line[i]
  BY DEF LineInv, RowShowsLine, Row
<1>3. n \in Nat /\ n >= 1 /\ n <= LINE - 2
  BY LineAssumption DEF Backspace, LineInv, RowShowsLine
<1>4. row' = Row(line')
  <2>1. row' = [i \in 1 .. LINE |-> CASE i < n -> row[i]
                                      [] i = n -> BLOCK_CURSOR
                                      [] OTHER -> BLANK]
    BY DEF Backspace
  <2>2. ASSUME NEW i \in 1 .. LINE
        PROVE  row'[i] = Row(line')[i]
    <3>1. CASE i < n
      BY <1>1, <1>2, <1>3, <2>1, <3>1, LineAssumption DEF Row
    <3>2. CASE i = n
      BY <1>1, <1>3, <2>1, <3>2, LineAssumption DEF Row
    <3>3. CASE i > n
      BY <1>1, <1>3, <2>1, <3>3, LineAssumption DEF Row
    <3> QED BY <1>3, <3>1, <3>2, <3>3, LineAssumption
  <2> QED BY <2>1, <2>2 DEF Row
<1> QED BY <1>1, <1>3, <1>4, LineAssumption DEF LineInv, RowShowsLine

(* A character comes after what is kept, and the cursor after it.          *)
LEMMA CharacterShows ==
  ASSUME LineInv, launcher = "reads",
         NEW key \in KEYBOARD, Character(key)
  PROVE  LineInv'
<1> DEFINE c == IF key = ESC THEN "^" ELSE key
           before == MakeRoom
           insert == Len(before)
<1>1. /\ before \in Seq(KEYBOARD \cup {"^"})
      /\ insert \in Nat /\ insert <= LINE - 3
      /\ insert >= Len(line) - 1 /\ insert <= Len(line)
      /\ \A i \in 1 .. insert : before[i] = line[i]
  BY RoomIsMade
<1> HIDE DEF before
<1>2. /\ line' = Append(before, c)
      /\ row' = [row EXCEPT ![insert + 1] = c, ![insert + 2] = BLOCK_CURSOR]
      /\ launcher' = launcher
  BY DEF Character, before
<1>3. /\ line' \in Seq(KEYBOARD \cup {"^"}) /\ Len(line') = insert + 1
      /\ \A i \in 1 .. insert : line'[i] = before[i]
      /\ line'[insert + 1] = c
  BY <1>1, <1>2
<1>4. row = Row(line) /\ Len(line) \in Nat
  BY DEF LineInv, RowShowsLine
<1>5. row' = Row(line')
  <2>1. row' = [i \in 1 .. LINE |-> IF i = insert + 2 THEN BLOCK_CURSOR
                                    ELSE IF i = insert + 1 THEN c ELSE row[i]]
    <3>1. DOMAIN row = 1 .. LINE /\ row = [i \in DOMAIN row |-> row[i]]
      BY <1>4 DEF Row
    <3>2. row' = [i \in DOMAIN row |->
                    IF i = insert + 2 THEN BLOCK_CURSOR
                    ELSE IF i = insert + 1 THEN c ELSE row[i]]
      <4> HIDE DEF insert, c
      <4> QED BY <1>2, <3>1, <1>1
    <3> QED BY <3>1, <3>2
  <2>2. ASSUME NEW i \in 1 .. LINE
        PROVE  row'[i] = Row(line')[i]
    <3>1. CASE i <= insert
      BY <1>1, <1>3, <1>4, <2>1, <3>1, LineAssumption DEF Row
    <3>2. CASE i = insert + 1
      BY <1>1, <1>3, <2>1, <3>2, LineAssumption DEF Row
    <3>3. CASE i = insert + 2
      BY <1>1, <1>3, <2>1, <3>3, LineAssumption DEF Row
    <3>4. CASE i > insert + 2
      BY <1>1, <1>3, <1>4, <2>1, <3>4, LineAssumption DEF Row
    <3> QED BY <1>1, <3>1, <3>2, <3>3, <3>4, LineAssumption
  <2> QED BY <2>1, <2>2 DEF Row
<1> QED BY <1>1, <1>3, <1>5, LineAssumption DEF LineInv, RowShowsLine

(* After a CR the row is the prompt and the line is empty.                 *)
LEMMA ReturnShows ==
  ASSUME LineInv, Return
  PROVE  LineInv'
BY LineAssumption DEF Return, LineInv, RowShowsLine, Prompt

(***************************************************************************)
(* The row shows the line that the task launcher has read, with the cursor *)
(* after it, and the line fits in its array: for every sequence of keys.   *)
(***************************************************************************)
THEOREM RowIsTrue == LSpec => []RowShowsLine
<1>1. LInit => LineInv
  BY LineAssumption DEF LInit, LineInv, RowShowsLine, Prompt
<1>2. LineInv /\ [LNext]_lvars => LineInv'
  <2> SUFFICES ASSUME LineInv, [LNext]_lvars PROVE LineInv'
    OBVIOUS
  <2>1. ASSUME NEW key \in KEYBOARD, Strike(key)
        PROVE  LineInv'
    <3>1. launcher = "reads" /\ (Backspace \/ Return \/ Character(key))
      BY <2>1 DEF Strike
    <3> QED BY <3>1, BackspaceShows, ReturnShows, CharacterShows
  <2>2. CASE UNCHANGED lvars
    BY <2>2 DEF lvars, LineInv, RowShowsLine, Row
  <2> QED BY <2>1, <2>2 DEF LNext
<1> QED BY <1>1, <1>2, PTL DEF LSpec, LineInv

(* What was struck when a line was ended is still what was done.           *)
ShownInv == LineInv /\ (shown # <<>> => ShownIsDone)

(* A line of keys, less its last character if it is full, is what the row  *)
(* that shows it gives back.                                               *)
LEMMA RowGivesBack ==
  ASSUME NEW K, BLOCK_CURSOR \notin K, NEW l \in Seq(K), Len(l) <= LINE - 2,
         NEW cells, cells = Row(l), NEW end,
         end = CHOOSE i \in DOMAIN cells : cells[i] = BLOCK_CURSOR
  PROVE  /\ end = Len(l) + 1
         /\ \A n \in 0 .. Len(l) :
              /\ SubSeq(cells, 1, n) \in Seq(K) /\ Len(SubSeq(cells, 1, n)) = n
              /\ \A i \in 1 .. n : SubSeq(cells, 1, n)[i] = l[i]
<1>1. Len(l) \in Nat /\ LINE \in Nat /\ LINE > 3
  BY LineAssumption
<1>2. /\ DOMAIN cells = 1 .. LINE
      /\ \A i \in 1 .. Len(l) : cells[i] = l[i] /\ cells[i] \in K
      /\ cells[Len(l) + 1] = BLOCK_CURSOR
      /\ \A i \in Len(l) + 2 .. LINE : cells[i] = BLANK
  <2>1. cells = [i \in 1 .. LINE |-> CASE i <= Len(l) -> l[i]
                                      [] i = Len(l) + 1 -> BLOCK_CURSOR
                                      [] OTHER -> BLANK]
    BY DEF Row
  <2>2. ASSUME NEW i \in 1 .. LINE
        PROVE  cells[i] = CASE i <= Len(l) -> l[i]
                            [] i = Len(l) + 1 -> BLOCK_CURSOR
                            [] OTHER -> BLANK
    BY <2>1
  <2>3. DOMAIN cells = 1 .. LINE
    BY <2>1
  <2>4. \A i \in 1 .. Len(l) : cells[i] = l[i] /\ l[i] \in K
    BY <1>1, <2>2
  <2>5. cells[Len(l) + 1] = BLOCK_CURSOR
    <3>1. Len(l) + 1 \in 1 .. LINE /\ ~(Len(l) + 1 <= Len(l))
      BY <1>1
    <3> QED BY <2>2, <3>1
  <2>6. \A i \in Len(l) + 2 .. LINE : cells[i] = BLANK
    BY <1>1, <2>2
  <2> QED BY <2>3, <2>4, <2>5, <2>6
<1>3. Len(l) + 1 \in DOMAIN cells /\ BLANK # BLOCK_CURSOR
  BY <1>1, <1>2 DEF BLANK, BLOCK_CURSOR
<1>4. \A i \in DOMAIN cells : cells[i] = BLOCK_CURSOR => i = Len(l) + 1
  BY <1>1, <1>2, <1>3
<1>5. end = Len(l) + 1
  BY <1>2, <1>3, <1>4
<1>6. ASSUME NEW n \in 0 .. Len(l)
      PROVE  /\ SubSeq(cells, 1, n) \in Seq(K) /\ Len(SubSeq(cells, 1, n)) = n
             /\ \A i \in 1 .. n : SubSeq(cells, 1, n)[i] = l[i]
  <2>1. SubSeq(cells, 1, n) = [i \in 1 .. n |-> cells[i]]
    BY <1>1, <1>2 DEF SubSeq
  <2>2. \A i \in 1 .. n : cells[i] = l[i] /\ l[i] \in K
    BY <1>1, <1>2
  <2> QED BY <1>1, <2>1, <2>2
<1> QED BY <1>5, <1>6

(* What a CR gives is the meaning of what the row showed.                  *)
LEMMA ReturnDoesShown ==
  ASSUME LineInv, launcher = "reads", Return
  PROVE  ShownIsDone'
<1> DEFINE K == KEYBOARD \cup {"^"}
<1>1. PICK l, room, cells, end :
        /\ l = line /\ room = MakeRoom /\ cells = shown'
        /\ end = CHOOSE i \in DOMAIN cells : cells[i] = BLOCK_CURSOR
  BY Zenon
<1>2. PICK kept : kept = SubSeq(cells, 1, IF end = LINE - 1 THEN LINE - 3
                                          ELSE end - 1)
  BY Zenon
<1>3. BLOCK_CURSOR \notin K /\ NUL \notin K
  BY KeyboardAssumption DEF BLOCK_CURSOR, NUL
<1>4. /\ l \in Seq(K) /\ Len(l) <= LINE - 2 /\ cells = Row(l)
      /\ did' = parse_command(Append(room, CR))
  BY <1>1 DEF LineInv, RowShowsLine, Return
<1>5. /\ room \in Seq(K)
      /\ Len(room) = IF Len(l) = LINE - 2 THEN LINE - 3 ELSE Len(l)
      /\ \A i \in 1 .. Len(room) : room[i] = l[i]
  <2>1. /\ room \in Seq(K) /\ Len(room) <= Len(l)
        /\ \A i \in 1 .. Len(room) : room[i] = l[i]
    BY <1>1, RoomIsMade
  <2>2. CASE Len(l) = LINE - 2
    <3>1. room = Front(l) /\ l # <<>>
      BY <1>1, <2>2, LineAssumption DEF MakeRoom
    <3>2. Len(room) = Len(l) - 1
      BY <1>4, <3>1, FrontIsShorter
    <3> QED BY <2>1, <2>2, <3>2, LineAssumption
  <2>3. CASE Len(l) # LINE - 2
    BY <1>1, <2>1, <2>3 DEF MakeRoom
  <2> QED BY <2>2, <2>3
<1> HIDE DEF K
<1>6. /\ end = Len(l) + 1
      /\ \A n \in 0 .. Len(l) :
           /\ SubSeq(cells, 1, n) \in Seq(K) /\ Len(SubSeq(cells, 1, n)) = n
           /\ \A i \in 1 .. n : SubSeq(cells, 1, n)[i] = l[i]
  BY <1>1, <1>3, <1>4, RowGivesBack
<1>7. kept = room
  <2>1. kept = SubSeq(cells, 1, Len(room)) /\ Len(room) \in 0 .. Len(l)
    BY <1>2, <1>4, <1>5, <1>6, LineAssumption
  <2>2. /\ kept \in Seq(K) /\ Len(kept) = Len(room)
        /\ \A i \in 1 .. Len(kept) : kept[i] = room[i]
    BY <1>5, <1>6, <2>1
  <2> QED BY <1>5, <2>2, SeqEqual
<1>8. did' = Meaning(Append(kept, CR))
  <2>1. ASSUME NEW text, text = Append(room, CR)
        PROVE  text \in Lines(K \cup {CR})
    <3>1. /\ text \in Seq(K \cup {CR}) /\ Len(text) = Len(room) + 1
          /\ text[Len(room) + 1] = CR
          /\ \A i \in 1 .. Len(room) : text[i] = room[i] /\ room[i] \in K
      BY <1>5, <2>1
    <3>2. CR # NUL
      BY DEF CR, NUL
    <3> QED BY <1>3, <1>5, <3>1, <3>2 DEF Lines
  <2> QED BY <1>4, <1>7, <2>1, ParserIsRight
<1>9. RowShowsLine'
  BY ReturnShows DEF LineInv
<1>10. end = CHOOSE i \in DOMAIN shown' : shown'[i] = BLOCK_CURSOR
  BY <1>1
<1>11. kept = SubSeq(shown', 1, IF end = LINE - 1 THEN LINE - 3 ELSE end - 1)
  BY <1>1, <1>2
<1> QED BY <1>8, <1>9, <1>10, <1>11 DEF ShownIsDone

(***************************************************************************)
(* What the launcher does at a CR is the meaning of what its row showed,   *)
(* less the last character of a line that was full: for every keyboard, a  *)
(* line of any length, and whatever was typed and taken back.              *)
(***************************************************************************)
THEOREM ShownIsWhatIsDone == LSpec => []ShownIsDone
<1>1. LInit => ShownInv
  BY LineAssumption DEF LInit, ShownInv, LineInv, RowShowsLine, Prompt
<1>2. ShownInv /\ [LNext]_lvars => ShownInv'
  <2> SUFFICES ASSUME ShownInv, [LNext]_lvars PROVE ShownInv'
    OBVIOUS
  <2>1. LineInv
    BY DEF ShownInv
  <2>2. ASSUME NEW key \in KEYBOARD, Strike(key)
        PROVE  ShownInv'
    <3>1. launcher = "reads" /\ (Backspace \/ Return \/ Character(key))
      BY <2>2 DEF Strike
    <3>2. CASE Backspace
      BY <2>1, <3>1, <3>2, BackspaceShows DEF ShownInv, Backspace
    <3>3. CASE Return
      BY <2>1, <3>1, <3>3, ReturnShows, ReturnDoesShown DEF ShownInv
    <3>4. CASE Character(key)
      BY <2>1, <3>1, <3>4, CharacterShows DEF ShownInv, Character
    <3> QED BY <3>1, <3>2, <3>3, <3>4
  <2>3. CASE UNCHANGED lvars
    BY <2>3 DEF lvars, ShownInv, LineInv, ShownIsDone, RowShowsLine, Row
  <2> QED BY <2>2, <2>3 DEF LNext
<1>3. ShownInv => ShownIsDone
  BY DEF ShownInv, ShownIsDone, LineInv
<1> QED BY <1>1, <1>2, <1>3, PTL DEF LSpec

-----------------------------------------------------------------------------
(* The highest bit of a word.                                              *)

(* Powers multiply.                                                        *)
LEMMA PowerPlus ==
  ASSUME NEW b \in Int, NEW m \in Nat, NEW n \in Nat
  PROVE  Power(b, m + n) = Power(b, m) * Power(b, n)
<1> DEFINE S == {k \in 0 .. n : Power(b, m + k) = Power(b, m) * Power(b, k)}
<1>1. 0 \in S
  <2>1. Power(b, m) \in Int /\ Power(b, 0) = 1 /\ m + 0 = m
    BY PowerIs
  <2> QED BY <2>1
<1>2. ASSUME NEW k \in 1 .. n, k - 1 \in S
      PROVE  k \in S
  <2>1. k - 1 \in Nat /\ (k - 1) + 1 = k /\ m + (k - 1) \in Nat
        /\ (m + (k - 1)) + 1 = m + k /\ k \in 0 .. n
    OBVIOUS
  <2>2. Power(b, (k - 1) + 1) = b * Power(b, k - 1)
    BY <2>1, PowerIs, Zenon
  <2>3. Power(b, (m + (k - 1)) + 1) = b * Power(b, m + (k - 1))
    BY <2>1, PowerIs, Zenon
  <2>4. Power(b, m) \in Int /\ Power(b, k - 1) \in Int
    BY <2>1, PowerIs, Zenon
  <2>5. Power(b, m + (k - 1)) = Power(b, m) * Power(b, k - 1)
    BY <1>2
  <2>6. \A x, y \in Int : b * (x * y) = x * (b * y)
    BY Z3
  <2>7. b * (Power(b, m) * Power(b, k - 1))
        = Power(b, m) * (b * Power(b, k - 1))
    BY <2>4, <2>6
  <2> QED BY <2>1, <2>2, <2>3, <2>5, <2>7
<1>3. S \in SUBSET (0 .. n) /\ n \in 0 .. n
  OBVIOUS
<1>4. S = 0 .. n
  <2> HIDE DEF S
  <2> QED BY <1>1, <1>2, <1>3, Upward
<1> QED BY <1>3, <1>4

(* They are positive, and grow.                                            *)
LEMMA PowerGrows ==
  ASSUME NEW b \in Nat, b >= 2, NEW n \in Nat
  PROVE  /\ Power(b, n) \in Nat \ {0}
         /\ Power(b, n) < Power(b, n + 1)
         /\ \A m \in 0 .. n : Power(b, m) <= Power(b, n)
<1>1. ASSUME NEW x \in Nat
      PROVE  Power(b, x) \in Nat \ {0}
  <2> DEFINE S == {k \in 0 .. x : Power(b, k) \in Nat \ {0}}
  <2>1. 0 \in S
    BY PowerIs
  <2>2. ASSUME NEW k \in 1 .. x, k - 1 \in S
        PROVE  k \in S
    <3>1. k - 1 \in Nat /\ (k - 1) + 1 = k /\ k \in 0 .. x /\ b \in Int
      OBVIOUS
    <3>2. Power(b, (k - 1) + 1) = b * Power(b, k - 1)
      BY <3>1, PowerIs, Zenon
    <3>3. Power(b, k - 1) \in Nat \ {0}
      BY <2>2
    <3>4. \A y \in Nat \ {0} : b * y \in Nat \ {0}
      BY Z3
    <3> QED BY <3>1, <3>2, <3>3, <3>4
  <2>3. S \in SUBSET (0 .. x) /\ x \in 0 .. x
    OBVIOUS
  <2>4. S = 0 .. x
    <3> HIDE DEF S
    <3> QED BY <2>1, <2>2, <2>3, Upward
  <2> QED BY <2>3, <2>4
<1>2. Power(b, n) < Power(b, n + 1)
  <2>1. Power(b, n + 1) = b * Power(b, n) /\ Power(b, n) \in Nat \ {0}
    BY <1>1, PowerIs
  <2>2. \A y \in Nat \ {0} : y < b * y
    BY Z3
  <2> QED BY <2>1, <2>2
<1>3. ASSUME NEW m \in 0 .. n
      PROVE  Power(b, m) <= Power(b, n)
  <2>1. m \in Nat /\ n - m \in Nat /\ m + (n - m) = n
    OBVIOUS
  <2>2. Power(b, m + (n - m)) = Power(b, m) * Power(b, n - m)
    BY <2>1, PowerPlus
  <2>3. Power(b, m) \in Nat \ {0} /\ Power(b, n - m) \in Nat \ {0}
    BY <1>1, <2>1
  <2>4. \A x, y \in Nat \ {0} : x <= x * y
    BY Z3
  <2> QED BY <2>1, <2>2, <2>3, <2>4
<1> QED BY <1>1, <1>2, <1>3

(* A quotient is the greatest number of times that a divisor goes.         *)
LEMMA QuotientIs ==
  ASSUME NEW v \in Nat, NEW d \in Nat \ {0}
  PROVE  /\ v \div d \in Nat
         /\ d * (v \div d) <= v /\ v < d * ((v \div d) + 1)
<1>1. v \div d \in Nat /\ d * (v \div d) <= v /\ v < d * (v \div d) + d
  BY Z3
<1>2. \A x \in Nat : d * (x + 1) = d * x + d
  BY Z3
<1> QED BY <1>1, <1>2

(* It is below a bound that the divisor times the bound is above.          *)
LEMMA QuotientBelow ==
  ASSUME NEW v \in Nat, NEW d \in Nat \ {0}, NEW m \in Nat, v < d * m
  PROVE  v \div d < m
<1>1. v \div d \in Nat /\ d * (v \div d) <= v
  BY QuotientIs
<1>2. \A x \in Nat : m <= x => d * m <= d * x
  BY Z3
<1> QED BY <1>1, <1>2

(* The loop that fills the table gives each byte the place of its highest  *)
(* bit.                                                                    *)
Logarithms(f) ==
  f = [i \in Bytes |-> IF i <= 1 THEN 0 ELSE 1 + f[i \div 2]]

(* The bytes go up from 0.                                                 *)
LEMMA BytesAre == \E n \in Nat : n = Power(2, BYTE) - 1 /\ Bytes = 0 .. n
<1>1. Power(2, BYTE) \in Nat \ {0}
  BY ByteAssumption, PowerGrows
<1> QED BY <1>1 DEF Bytes

(* What half of a number is.                                               *)
LEMMA HalfIs ==
  ASSUME NEW i \in Nat, i >= 2
  PROVE  /\ i \div 2 \in 1 .. i - 1
         /\ 2 * (i \div 2) <= i /\ i <= 2 * (i \div 2) + 1
BY Z3

(* There is such a table.                                                  *)
LEMMA LogarithmsExist == \E f : Logarithms(f)
<1> DEFINE Halves(f, m) ==
      \A i \in 0 .. m : f[i] = IF i <= 1 THEN 0 ELSE 1 + f[i \div 2]
<1>1. PICK n \in Nat : Bytes = 0 .. n
  BY BytesAre
<1> DEFINE S == {m \in 0 .. n : \E f : /\ f = [i \in 0 .. m |-> f[i]]
                                       /\ Halves(f, m)}
<1>2. 0 \in S
  <2> DEFINE f == [i \in 0 .. 0 |-> 0]
  <2>1. f = [i \in 0 .. 0 |-> f[i]] /\ \A i \in 0 .. 0 : f[i] = 0 /\ i <= 1
    OBVIOUS
  <2> HIDE DEF f
  <2>2. Halves(f, 0)
    BY <2>1
  <2> HIDE DEF Halves
  <2> QED BY <2>1, <2>2
<1>3. ASSUME NEW m \in 1 .. n, m - 1 \in S
      PROVE  m \in S
  <2>1. PICK f : f = [i \in 0 .. m - 1 |-> f[i]] /\ Halves(f, m - 1)
    BY <1>3
  <2> DEFINE g == [i \in 0 .. m |->
                     IF i = m THEN IF m <= 1 THEN 0 ELSE 1 + f[m \div 2]
                     ELSE f[i]]
  <2>2. g = [i \in 0 .. m |-> g[i]]
    OBVIOUS
  <2>3. ASSUME NEW i \in 0 .. m
        PROVE  g[i] = IF i <= 1 THEN 0 ELSE 1 + g[i \div 2]
    <3>1. i >= 2 => i \div 2 \in 0 .. m /\ i \div 2 # m
      <4>1. i >= 2 => i \div 2 \in 1 .. i - 1
        BY HalfIs
      <4> QED BY <4>1
    <3>2. i >= 2 => g[i \div 2] = f[i \div 2]
      BY <3>1
    <3>3. CASE i = m
      BY <3>2, <3>3
    <3>4. CASE i # m
      <4>1. i \in 0 .. m - 1 /\ g[i] = f[i]
        BY <3>4
      <4>2. f[i] = IF i <= 1 THEN 0 ELSE 1 + f[i \div 2]
        BY <2>1, <4>1
      <4> HIDE DEF g
      <4> QED BY <3>2, <4>1, <4>2
    <3> QED BY <3>3, <3>4
  <2> HIDE DEF g
  <2>4. Halves(g, m)
    BY <2>3
  <2>5. m \in 0 .. n
    OBVIOUS
  <2> HIDE DEF Halves
  <2> QED BY <2>2, <2>4, <2>5
<1>4. S \in SUBSET (0 .. n) /\ n \in 0 .. n
  OBVIOUS
<1>5. S = 0 .. n
  <2> HIDE DEF S
  <2> QED BY <1>2, <1>3, <1>4, Upward
<1>6. PICK f : f = [i \in 0 .. n |-> f[i]] /\ Halves(f, n)
  BY <1>4, <1>5
<1>7. f = [i \in Bytes |-> IF i <= 1 THEN 0 ELSE 1 + f[i \div 2]]
  BY <1>1, <1>6, Zenon
<1> QED BY <1>7, Zenon DEF Logarithms

(* The table tells the place of the highest bit of a byte.                 *)
LEMMA TableIs ==
  ASSUME NEW i \in Bytes
  PROVE  /\ i = 0 => table[i] = NO_TASKS
         /\ i # 0 => /\ table[i] \in Nat
                     /\ Power(2, table[i]) <= i /\ i < Power(2, table[i] + 1)
<1> DEFINE lg == CHOOSE f : Logarithms(f)
           High(k) == /\ lg[k] \in Nat
                      /\ Power(2, lg[k]) <= k /\ k < Power(2, lg[k] + 1)
<1>1. table = [lg EXCEPT ![0] = NO_TASKS]
  BY Zenon DEF table, Logarithms
<1>2. lg = [k \in Bytes |-> IF k <= 1 THEN 0 ELSE 1 + lg[k \div 2]]
  <2>1. Logarithms(lg)
    BY LogarithmsExist, Zenon
  <2> HIDE DEF lg
  <2> QED BY <2>1, Zenon DEF Logarithms
<1> HIDE DEF lg
<1>3. PICK n \in Nat : Bytes = 0 .. n
  BY BytesAre
<1>4. \A k \in Bytes : lg[k] = IF k <= 1 THEN 0 ELSE 1 + lg[k \div 2]
  BY <1>2, Zenon
<1> DEFINE S == {m \in 0 .. n : \A k \in 1 .. m : High(k)}
<1>5. 0 \in S
  BY <1>3
<1>6. ASSUME NEW m \in 1 .. n, m - 1 \in S
      PROVE  m \in S
  <2>1. High(m)
    <3>1. CASE m = 1
      <4>1. lg[1] = 0
        BY <1>3, <1>4, <3>1
      <4>2. Power(2, 0) = 1 /\ Power(2, 0 + 1) = 2 * Power(2, 0)
        BY PowerIs
      <4> QED BY <3>1, <4>1, <4>2
    <3>2. CASE m # 1
      <4> DEFINE h == m \div 2
      <4>1. h \in 1 .. m - 1 /\ 2 * h <= m /\ m <= 2 * h + 1
        BY <3>2, HalfIs
      <4> HIDE DEF h
      <4>2. High(h)
        BY <1>6, <4>1
      <4>3. lg[m] = 1 + lg[h]
        BY <1>3, <1>4, <3>2 DEF h
      <4>4. PICK l \in Nat : l = lg[h]
        BY <4>2
      <4>5. /\ Power(2, l) \in Int /\ Power(2, l + 1) = 2 * Power(2, l)
            /\ Power(2, (l + 1) + 1) = 2 * Power(2, l + 1)
        BY PowerIs
      <4>6. Power(2, l) <= h /\ h < Power(2, l + 1) /\ lg[m] = l + 1
        BY <4>2, <4>3, <4>4
      <4>7. Power(2, l + 1) <= m /\ m < Power(2, (l + 1) + 1)
        BY <4>1, <4>5, <4>6
      <4> QED BY <4>6, <4>7
    <3> QED BY <3>1, <3>2
  <2>2. \A k \in 1 .. m - 1 : High(k)
    BY <1>6
  <2>3. m \in 0 .. n /\ \A k \in 1 .. m : k = m \/ k \in 1 .. m - 1
    OBVIOUS
  <2> HIDE DEF High
  <2> QED BY <2>1, <2>2, <2>3
<1>7. S \in SUBSET (0 .. n) /\ n \in 0 .. n
  OBVIOUS
<1>8. S = 0 .. n
  <2> HIDE DEF S
  <2> QED BY <1>5, <1>6, <1>7, Upward
<1>9. \A k \in 1 .. n : High(k)
  <2> HIDE DEF High
  <2> QED BY <1>7, <1>8
<1>10. DOMAIN lg = Bytes /\ 0 \in Bytes
  BY <1>2, <1>3
<1>11. i = 0 => table[i] = NO_TASKS
  BY <1>1, <1>10
<1>12. i # 0 => table[i] = lg[i] /\ i \in 1 .. n
  BY <1>1, <1>3, <1>10
<1> QED BY <1>9, <1>11, <1>12

(* A quotient with its highest bit at l has v with it at d times that.     *)
LEMMA ShiftedBit ==
  ASSUME NEW v \in Nat, NEW bits \in Nat, NEW t \in Nat,
         Power(2, bits) * t <= v, v < Power(2, bits) * (t + 1),
         NEW l \in Nat, Power(2, l) <= t, t < Power(2, l + 1)
  PROVE  Power(2, bits + l) <= v /\ v < Power(2, (bits + l) + 1)
<1> DEFINE d == Power(2, bits)
           low == Power(2, l)
           high == Power(2, l + 1)
<1>1. d \in Nat \ {0} /\ low \in Nat /\ high \in Nat
  BY PowerGrows
<1>2. /\ Power(2, bits + l) = d * low
      /\ Power(2, (bits + l) + 1) = d * high
  <2>1. l + 1 \in Nat /\ (bits + l) + 1 = bits + (l + 1)
    OBVIOUS
  <2> QED BY <2>1, PowerPlus
<1> HIDE DEF d, low, high
<1>3. \A x, y \in Nat : x <= y => d * x <= d * y
  BY <1>1, Z3
<1>4. d * low <= d * t /\ d * (t + 1) <= d * high
  <2>1. t + 1 \in Nat /\ t + 1 <= high /\ low <= t
    BY <1>1 DEF low, high
  <2> QED BY <1>1, <1>3, <2>1
<1>5. d * t <= v /\ v < d * (t + 1)
  BY DEF d
<1>6. /\ d * low \in Nat /\ d * t \in Nat
      /\ d * high \in Nat /\ d * (t + 1) \in Nat
  BY <1>1
<1>7. d * low <= v /\ v < d * high
  BY <1>4, <1>5, <1>6
<1> QED BY <1>2, <1>7

(* Both halves of a word, and both halves of those.                        *)
LEMMA WordIsShifted ==
  ASSUME NEW v \in WordsOfBits
  PROVE  /\ v \in Nat
         /\ Shift(v, 2 * BYTE) \in Nat
         /\ Shift(Shift(v, 2 * BYTE), BYTE) \in Bytes
         /\ Shift(v, 2 * BYTE) = 0 => Shift(v, BYTE) \in Bytes
         /\ Shift(v, BYTE) = 0 => v \in Bytes
         /\ Shift(Shift(v, 2 * BYTE), BYTE) = 0 => Shift(v, 2 * BYTE) \in Bytes
<1> DEFINE T == Power(2, BYTE)
           tt == Shift(v, 2 * BYTE)
<1>1. T \in Nat \ {0} /\ BYTE \in Nat
  BY ByteAssumption, PowerGrows
<1>2. Power(2, 2 * BYTE) = T * T /\ Power(2, 4 * BYTE) = (T * T) * (T * T)
  <2>1. 2 \in Int /\ 2 * BYTE \in Nat /\ 2 * BYTE = BYTE + BYTE
        /\ 4 * BYTE = 2 * BYTE + 2 * BYTE
    BY <1>1
  <2>2. Power(2, BYTE + BYTE) = T * T
    BY <1>1, PowerPlus
  <2>3. Power(2, 2 * BYTE + 2 * BYTE) = Power(2, 2 * BYTE) * Power(2, 2 * BYTE)
    BY <2>1, PowerPlus, Zenon
  <2> QED BY <2>1, <2>2, <2>3
<1>3. T * T \in Nat \ {0} /\ (T * T) * (T * T) \in Nat \ {0}
  <2> HIDE DEF T
  <2>1. \A x \in Nat \ {0} : x * x \in Nat \ {0}
    BY Z3
  <2> QED BY <1>1, <2>1
<1>4. v \in Nat /\ v < (T * T) * (T * T)
  BY <1>2, <1>3 DEF WordsOfBits
<1>5. tt = v \div (T * T) /\ tt \in Nat /\ tt < T * T
  <2>1. tt = v \div (T * T)
    BY <1>2 DEF Shift
  <2> HIDE DEF T, tt
  <2> QED BY <1>3, <1>4, <2>1, QuotientIs, QuotientBelow
<1>6. \A x \in Nat : /\ Shift(x, BYTE) = x \div T /\ x \div T \in Nat
                     /\ x < T * T => x \div T < T
                     /\ x \div T = 0 => x < T
  <2>1. ASSUME NEW x \in Nat
        PROVE  /\ Shift(x, BYTE) = x \div T /\ x \div T \in Nat
               /\ x < T * T => x \div T < T
               /\ x \div T = 0 => x < T
    <3>1. Shift(x, BYTE) = x \div T
      BY DEF Shift
    <3> HIDE DEF T, tt
    <3>2. x \div T \in Nat /\ x < T * ((x \div T) + 1)
      BY <1>1, QuotientIs
    <3>3. x < T * T => x \div T < T
      BY <1>1, QuotientBelow
    <3>4. T * (0 + 1) = T
      BY <1>1
    <3> QED BY <3>1, <3>2, <3>3, <3>4
  <2> QED BY <2>1
<1>7. tt = 0 => v < T * T
  <2>1. v < (T * T) * ((v \div (T * T)) + 1)
    BY <1>3, <1>4, QuotientIs
  <2>2. (T * T) * (0 + 1) = T * T
    BY <1>3
  <2> QED BY <1>5, <2>1, <2>2
<1>8. \A x \in Nat : x < T => x \in Bytes
  BY <1>1 DEF Bytes
<1> HIDE DEF T
<1> QED BY <1>4, <1>5, <1>6, <1>7, <1>8

(* The place of the highest bit.                                           *)
HighestBit(x, l) == l \in Nat /\ Power(2, l) <= x /\ x < Power(2, l + 1)

(* A bit of the shifted word is a bit of the word, further up.             *)
LEMMA BitOfShifted ==
  ASSUME NEW v \in Nat, NEW bits \in Nat, NEW l, HighestBit(Shift(v, bits), l)
  PROVE  HighestBit(v, bits + l)
<1> DEFINE d == Power(2, bits)
           t == Shift(v, bits)
<1>1. d \in Nat \ {0}
  BY PowerGrows
<1>2. t \in Nat /\ d * t <= v /\ v < d * (t + 1)
  <2>1. t = v \div d
    BY DEF Shift
  <2> HIDE DEF d, t
  <2> QED BY <1>1, <2>1, QuotientIs
<1>3. l \in Nat /\ Power(2, l) <= t /\ t < Power(2, l + 1)
  BY DEF HighestBit
<1> HIDE DEF t
<1>4. Power(2, bits + l) <= v /\ v < Power(2, (bits + l) + 1)
  BY <1>2, <1>3, ShiftedBit
<1> QED BY <1>3, <1>4 DEF HighestBit

(* choose_priority returns the highest bit of every word.                  *)
LEMMA HighestIsChosen ==
  ASSUME NEW v \in WordsOfBits
  PROVE  IsHighestBit(v)
<1>1. PICK p, tt, t : /\ p = choose_priority(v)
                      /\ tt = Shift(v, 2 * BYTE)
                      /\ t = IF tt # 0 THEN Shift(tt, BYTE) ELSE Shift(v, BYTE)
  BY Zenon
<1>2. /\ v \in Nat /\ tt \in Nat
      /\ t \in Bytes
      /\ tt # 0 /\ t = 0 => tt \in Bytes
      /\ tt = 0 /\ t = 0 => v \in Bytes
  BY <1>1, WordIsShifted
<1>3. /\ tt # 0 /\ t # 0 => p = 3 * BYTE + table[t]
      /\ tt # 0 /\ t = 0 => p = 2 * BYTE + table[tt]
      /\ tt = 0 /\ t # 0 => p = BYTE + table[t]
      /\ tt = 0 /\ t = 0 => p = table[v]
  BY <1>1 DEF choose_priority
<1>4. \A i \in Bytes : i # 0 => HighestBit(i, table[i])
  BY TableIs DEF HighestBit
<1>5. BYTE \in Nat /\ 2 * BYTE \in Nat
  BY ByteAssumption
<1>6. HighestBit(v, p) => IsHighestBit(v)
  <2> SUFFICES ASSUME HighestBit(v, p) PROVE IsHighestBit(v)
    OBVIOUS
  <2>1. Power(2, p) \in Nat \ {0}
    BY PowerGrows DEF HighestBit
  <2>2. v # 0
    BY <2>1 DEF HighestBit
  <2> QED BY <1>1, <2>2 DEF HighestBit, IsHighestBit
<1>7. CASE tt # 0 /\ t # 0
  <2>1. HighestBit(Shift(tt, BYTE), table[t])
    BY <1>1, <1>2, <1>4, <1>7
  <2>2. HighestBit(Shift(v, 2 * BYTE), BYTE + table[t])
    BY <1>1, <1>2, <1>5, <2>1, BitOfShifted
  <2>3. HighestBit(v, 2 * BYTE + (BYTE + table[t]))
    BY <1>2, <1>5, <2>2, BitOfShifted
  <2>4. table[t] \in Nat
    BY <1>2, <1>4, <1>7 DEF HighestBit
  <2>5. p = 2 * BYTE + (BYTE + table[t])
    BY <1>3, <1>5, <1>7, <2>4
  <2> QED BY <1>6, <2>3, <2>5
<1>8. CASE tt # 0 /\ t = 0
  <2>1. HighestBit(Shift(v, 2 * BYTE), table[tt])
    BY <1>1, <1>2, <1>4, <1>8
  <2> QED BY <1>2, <1>3, <1>5, <1>6, <1>8, <2>1, BitOfShifted
<1>9. CASE tt = 0 /\ t # 0
  <2>1. HighestBit(Shift(v, BYTE), table[t])
    BY <1>1, <1>2, <1>4, <1>9
  <2> QED BY <1>2, <1>3, <1>5, <1>6, <1>9, <2>1, BitOfShifted
<1>10. CASE tt = 0 /\ t = 0
  <2>1. CASE v = 0
    BY <1>1, <1>2, <1>3, <1>10, <2>1, TableIs DEF IsHighestBit
  <2>2. CASE v # 0
    BY <1>2, <1>3, <1>4, <1>6, <1>10, <2>2
  <2> QED BY <2>1, <2>2
<1> QED BY <1>7, <1>8, <1>9, <1>10

(***************************************************************************)
(* The search by bytes and the table of kernel_init give the highest bit   *)
(* of every bitmap, for bytes of any number of bits: what Kernel takes     *)
(* choose_priority for.                                                    *)
(***************************************************************************)
THEOREM SearchFindsHighest == PSpec => []ChoosesHighest
<1>1. InputInv => ChoosesHighest
  BY HighestIsChosen DEF ChoosesHighest, InputInv
<1> QED BY <1>1, InputsAreRight, PTL

-----------------------------------------------------------------------------
(* The numbers on the screen.                                              *)

(* The characters of a number.                                             *)
Marks == Range(Numerals)

(* A numeral stands for one digit.                                         *)
LEMMA NumeralIs ==
  ASSUME NEW d \in 0 .. 15
  PROVE  /\ Numerals[d + 1] \in Marks
         /\ DigitValue(Numerals[d + 1]) = d
         /\ Numerals[d + 1] = "0" <=> d = 0
         /\ Numerals[d + 1] # "-"
<1>1. /\ Numerals[1] = "0" /\ Numerals[2] = "1" /\ Numerals[3] = "2"
      /\ Numerals[4] = "3" /\ Numerals[5] = "4" /\ Numerals[6] = "5"
      /\ Numerals[7] = "6" /\ Numerals[8] = "7" /\ Numerals[9] = "8"
      /\ Numerals[10] = "9" /\ Numerals[11] = "A" /\ Numerals[12] = "B"
      /\ Numerals[13] = "C" /\ Numerals[14] = "D" /\ Numerals[15] = "E"
      /\ Numerals[16] = "F" /\ DOMAIN Numerals = 1 .. 16
  BY DEF Numerals
<1>2. \A e \in 0 .. 15 :
        \/ e = 0 \/ e = 1 \/ e = 2 \/ e = 3 \/ e = 4 \/ e = 5 \/ e = 6
        \/ e = 7 \/ e = 8 \/ e = 9 \/ e = 10 \/ e = 11 \/ e = 12 \/ e = 13
        \/ e = 14 \/ e = 15
  OBVIOUS
<1>3. \A e \in 0 .. 15 : Numerals[e + 1] = Numerals[d + 1] => e = d
  BY <1>1, <1>2
<1>4. DigitValue(Numerals[d + 1]) = d
  BY <1>3, Zenon DEF DigitValue
<1>5. (Numerals[d + 1] = "0" <=> d = 0) /\ Numerals[d + 1] # "-"
  BY <1>1, <1>2
<1>6. Numerals[d + 1] \in Marks
  BY <1>1 DEF Marks, Range
<1> QED BY <1>4, <1>5, <1>6

(* What a text denotes, digit by digit.                                    *)
LEMMA DenotesIs ==
  ASSUME NEW S, NEW text \in Seq(S), NEW base \in Int,
         \A i \in 1 .. Len(text) : DigitValue(text[i]) \in Int
  PROVE  \E r \in [0 .. Len(text) -> Int] :
           /\ r[0] = 0
           /\ \A k \in 1 .. Len(text) :
                r[k] = base * r[k - 1] + DigitValue(text[k])
           /\ Denotes(text, base) = r[Len(text)]
<1> DEFINE n == Len(text)
           step == [k \in 1 .. n |->
                      [x \in Int |-> base * x + DigitValue(text[k])]]
           Eq(r) == r = [k \in 0 .. n |->
                           IF k = 0 THEN 0
                           ELSE base * r[k - 1] + DigitValue(text[k])]
           result == CHOOSE r : Eq(r)
<1>1. Denotes(text, base) = result[n]
  BY DEF Denotes
<1>2. n \in Nat /\ \A k \in 1 .. n : DigitValue(text[k]) \in Int
  OBVIOUS
<1> HIDE DEF n
<1>3. step \in [1 .. n -> [Int -> Int]] /\ 0 \in Int
  BY <1>2
<1>4. \A k \in 1 .. n, x \in Int :
        step[k][x] = base * x + DigitValue(text[k])
  OBVIOUS
<1> HIDE DEF step
<1>5. PICK r \in [0 .. n -> Int] : Recurs(r, n, 0, step)
  BY <1>2, <1>3, RecursionExists, Zenon
<1>6. \A k \in 0 .. n : r[k] = IF k = 0 THEN 0
                               ELSE base * r[k - 1] + DigitValue(text[k])
  <2>1. r[0] = 0 /\ \A k \in 1 .. n : r[k] = step[k][r[k - 1]]
    BY <1>5 DEF Recurs
  <2>2. \A k \in 0 .. n : k # 0 => k \in 1 .. n /\ r[k - 1] \in Int
    BY <1>2
  <2> QED BY <1>4, <2>1, <2>2, Zenon
<1>7. Eq(r)
  <2>1. r = [k \in 0 .. n |-> r[k]]
    OBVIOUS
  <2> QED BY <1>6, <2>1, Zenon
<1>8. Eq(result)
  <2> HIDE DEF Eq
  <2> QED BY <1>7, Zenon
<1> HIDE DEF result
<1>9. \A k \in 0 .. n : result[k] = IF k = 0 THEN 0
                          ELSE base * result[k - 1] + DigitValue(text[k])
  BY <1>8, Zenon
<1>10. DOMAIN result = 0 .. n /\ result = [k \in 0 .. n |-> result[k]]
  BY <1>8, Zenon
<1> HIDE DEF Eq
<1> DEFINE Typed == {k \in 0 .. n : result[k] \in Int}
<1>11. Typed = 0 .. n
  <2>1. 0 \in Typed
    BY <1>2, <1>9
  <2>2. ASSUME NEW k \in 1 .. n, k - 1 \in Typed
        PROVE  k \in Typed
    <3>1. k \in 0 .. n /\ k # 0 /\ result[k - 1] \in Int
      BY <1>2, <2>2
    <3>2. result[k] = base * result[k - 1] + DigitValue(text[k])
      BY <1>9, <3>1, Zenon
    <3> QED BY <1>2, <3>1, <3>2
  <2>3. Typed \in SUBSET (0 .. n)
    OBVIOUS
  <2> HIDE DEF Typed
  <2> QED BY <1>2, <2>1, <2>2, <2>3, Upward
<1>12. result \in [0 .. n -> Int]
  BY <1>10, <1>11
<1>13. result[0] = 0
  BY <1>2, <1>9
<1>14. \A k \in 1 .. n :
         result[k] = base * result[k - 1] + DigitValue(text[k])
  <2>1. \A k \in 1 .. n : k \in 0 .. n /\ k # 0
    BY <1>2
  <2> QED BY <1>9, <2>1, Zenon
<1> QED BY <1>1, <1>12, <1>13, <1>14, Zenon DEF n

(* Any values that follow the digits end at what the text denotes.         *)
LEMMA ReadsAs ==
  ASSUME NEW S, NEW text \in Seq(S), NEW base \in Int,
         \A i \in 1 .. Len(text) : DigitValue(text[i]) \in Int,
         NEW v, v[0] = 0,
         \A k \in 1 .. Len(text) :
           v[k] = base * v[k - 1] + DigitValue(text[k])
  PROVE  Denotes(text, base) = v[Len(text)]
<1>1. PICK r \in [0 .. Len(text) -> Int] :
        /\ r[0] = 0
        /\ \A k \in 1 .. Len(text) :
             r[k] = base * r[k - 1] + DigitValue(text[k])
        /\ Denotes(text, base) = r[Len(text)]
  BY DenotesIs
<1>2. PICK n \in Nat : n = Len(text)
  OBVIOUS
<1> DEFINE Same == {k \in 0 .. n : r[k] = v[k]}
<1>3. 0 \in Same
  BY <1>1
<1>4. ASSUME NEW k \in 1 .. n, k - 1 \in Same
      PROVE  k \in Same
  <2>1. k \in 0 .. n /\ k \in 1 .. Len(text) /\ r[k - 1] = v[k - 1]
    BY <1>2, <1>4
  <2> QED BY <1>1, <2>1, Zenon
<1>5. Same \in SUBSET (0 .. n) /\ n \in 0 .. n
  OBVIOUS
<1>6. Same = 0 .. n
  <2> HIDE DEF Same
  <2> QED BY <1>3, <1>4, <1>5, Upward
<1> QED BY <1>1, <1>2, <1>5, <1>6

(* There is one quotient.                                                  *)
LEMMA QuotientUnique ==
  ASSUME NEW v \in Nat, NEW d \in Nat \ {0}, NEW x \in Nat,
         d * x <= v, v < d * (x + 1)
  PROVE  v \div d = x
<1>1. /\ v \div d \in Nat
      /\ d * (v \div d) <= v /\ v < d * ((v \div d) + 1)
  BY QuotientIs
<1>2. \A y, z \in Nat : y + 1 <= z => d * (y + 1) <= d * z
  BY Z3
<1>3. \A y, z \in Nat : d * y <= v /\ v < d * (z + 1) => ~ (z + 1 <= y)
  <2>1. ASSUME NEW y \in Nat, NEW z \in Nat,
               d * y <= v, v < d * (z + 1), z + 1 <= y
        PROVE  FALSE
    <3>1. d * (z + 1) <= d * y
      BY <1>2, <2>1
    <3>2. d * y \in Nat /\ d * (z + 1) \in Nat
      OBVIOUS
    <3> QED BY <2>1, <3>1, <3>2
  <2> QED BY <2>1
<1>4. ~ (x + 1 <= v \div d) /\ ~ ((v \div d) + 1 <= x)
  BY <1>1, <1>3
<1> QED BY <1>1, <1>4

(* To divide twice is to divide by the product.                            *)
LEMMA QuotientTwice ==
  ASSUME NEW v \in Nat, NEW d \in Nat \ {0}, NEW b \in Nat \ {0}
  PROVE  v \div (b * d) = (v \div d) \div b
<1>1. PICK x \in Nat : x = v \div d /\ d * x <= v /\ v < d * (x + 1)
  BY QuotientIs
<1>2. PICK y \in Nat : y = x \div b /\ b * y <= x /\ x < b * (y + 1)
  BY QuotientIs
<1>3. b * d \in Nat \ {0} /\ b * y \in Nat /\ b * (y + 1) \in Nat
  <2>1. \A m, n \in Nat \ {0} : m * n \in Nat \ {0}
    BY Z3
  <2> QED BY <2>1
<1>4. \A m, n \in Nat : m <= n => d * m <= d * n
  BY Z3
<1>5. \A m \in Nat : d * (b * m) = (b * d) * m
  BY Z3
<1>6. d * (b * y) <= d * x /\ d * (x + 1) <= d * (b * (y + 1))
  BY <1>2, <1>3, <1>4
<1>7. d * (b * y) = (b * d) * y /\ d * (b * (y + 1)) = (b * d) * (y + 1)
  BY <1>5
<1>8. /\ d * x \in Nat /\ d * (x + 1) \in Nat
      /\ (b * d) * y \in Nat /\ (b * d) * (y + 1) \in Nat
  BY <1>3
<1>9. (b * d) * y <= v /\ v < (b * d) * (y + 1)
  BY <1>1, <1>6, <1>7, <1>8
<1>10. v \div (b * d) = y
  BY <1>3, <1>9, QuotientUnique
<1> QED BY <1>1, <1>2, <1>10

(* The digits of a word, from the highest, and what they come to so far.   *)
WordDigits(word, base, count, text, v) ==
  /\ text \in Seq(Marks) /\ Len(text) = count
  /\ v \in [0 .. count -> Nat] /\ v[0] = 0 /\ v[count] = word
  /\ \A k \in 0 .. count : v[k] = word \div Power(base, count - k)
  /\ \A k \in 1 .. count :
       /\ DigitValue(text[k]) \in Nat
       /\ v[k] = base * v[k - 1] + DigitValue(text[k])
       /\ text[k] = "0" <=> DigitValue(text[k]) = 0
       /\ text[k] # "-"

(* Popped has them all.                                                    *)
LEMMA PoppedIs ==
  ASSUME NEW word \in Nat, NEW base \in 2 .. 16, NEW count \in Nat \ {0},
         word < Power(base, count)
  PROVE  \E v : WordDigits(word, base, count, Popped(word, base, count), v)
<1> DEFINE text == Popped(word, base, count)
           v == [k \in 0 .. count |-> word \div Power(base, count - k)]
<1>1. \A m \in Nat : /\ Power(base, m) \in Nat \ {0}
                     /\ Power(base, m + 1) = base * Power(base, m)
  <2>1. base \in Nat /\ base \in Int /\ base >= 2
    OBVIOUS
  <2> QED BY <2>1, PowerGrows, PowerIs, Zenon
<1>2. \A k \in 0 .. count : count - k \in Nat
  OBVIOUS
<1>3. \A k \in 0 .. count : word \div Power(base, count - k) \in Nat
  BY <1>1, <1>2, QuotientIs
<1>4. v \in [0 .. count -> Nat]
  BY <1>3
<1>5. v[0] = 0
  <2>1. v[0] = word \div Power(base, count)
    OBVIOUS
  <2>2. Power(base, count) \in Nat \ {0} /\ word < Power(base, count) * 1
    BY <1>1
  <2>3. word \div Power(base, count) < 1
    BY <2>2, QuotientBelow
  <2> QED BY <1>4, <2>1, <2>3
<1>6. v[count] = word
  <2>1. v[count] = word \div Power(base, count - count)
    OBVIOUS
  <2>2. Power(base, count - count) = 1
    BY PowerIs
  <2>3. word \div 1 = word
    OBVIOUS
  <2> QED BY <2>1, <2>2, <2>3
<1>7. ASSUME NEW k \in 1 .. count
      PROVE  /\ v[k] % base \in 0 .. 15
             /\ v[k] = base * v[k - 1] + (v[k] % base)
             /\ text[k] = Numerals[(v[k] % base) + 1]
  <2>1. count - k \in Nat /\ count - (k - 1) = (count - k) + 1
        /\ k - 1 \in 0 .. count /\ k \in 0 .. count /\ base \in Nat \ {0}
    OBVIOUS
  <2>2. /\ v[k] = word \div Power(base, count - k) /\ v[k] \in Nat
        /\ v[k - 1] = word \div Power(base, count - (k - 1))
    BY <1>3, <2>1
  <2>3. PICK x \in Nat : x = v[k]
    BY <2>2
  <2>4. v[k - 1] = x \div base
    <3>1. PICK d \in Nat \ {0} :
            /\ d = Power(base, count - k)
            /\ base * d = Power(base, (count - k) + 1)
      BY <1>1, <2>1
    <3>2. v[k - 1] = word \div (base * d) /\ x = word \div d
      BY <2>1, <2>2, <2>3, <3>1
    <3> HIDE DEF v
    <3> QED BY <2>1, <3>2, QuotientTwice
  <2>5. x = base * (x \div base) + (x % base) /\ x % base \in 0 .. 15
    <3>1. \A y \in Nat, b \in 2 .. 16 :
            y = b * (y \div b) + (y % b) /\ y % b \in 0 .. 15
      BY Z3
    <3> QED BY <3>1
  <2>6. text[k] = Numerals[(v[k] % base) + 1]
    BY <2>2 DEF Popped
  <2> HIDE DEF v, text
  <2> QED BY <2>3, <2>4, <2>5, <2>6
<1>8. ASSUME NEW k \in 1 .. count
      PROVE  /\ text[k] \in Marks
             /\ DigitValue(text[k]) \in Nat
             /\ v[k] = base * v[k - 1] + DigitValue(text[k])
             /\ text[k] = "0" <=> DigitValue(text[k]) = 0
             /\ text[k] # "-"
  <2> HIDE DEF v, text
  <2>1. PICK d \in 0 .. 15 : d = v[k] % base
    BY <1>7
  <2>2. text[k] = Numerals[d + 1] /\ v[k] = base * v[k - 1] + d
    BY <1>7, <2>1
  <2> QED BY <2>1, <2>2, NumeralIs
<1>9. text \in Seq(Marks) /\ Len(text) = count
  <2>1. text = [k \in 1 .. count |-> text[k]]
    BY DEF Popped
  <2> HIDE DEF text
  <2>2. text \in [1 .. count -> Marks]
    BY <1>8, <2>1
  <2> QED BY <2>2
<1>10. \A k \in 0 .. count : v[k] = word \div Power(base, count - k)
  OBVIOUS
<1> HIDE DEF v, text
<1>11. WordDigits(word, base, count, text, v)
  BY <1>4, <1>5, <1>6, <1>8, <1>9, <1>10 DEF WordDigits
<1> QED BY <1>11 DEF text

(* The number they denote is the word.                                     *)
LEMMA PoppedDenotes ==
  ASSUME NEW word \in Nat, NEW base \in 2 .. 16, NEW count \in Nat \ {0},
         word < Power(base, count)
  PROVE  /\ Denotes(Popped(word, base, count), base) = word
         /\ Len(Popped(word, base, count)) = count
<1>1. PICK text, v : /\ text = Popped(word, base, count)
                     /\ WordDigits(word, base, count, text, v)
  BY PoppedIs
<1>2. base \in Int
  OBVIOUS
<1>3. Denotes(text, base) = v[Len(text)]
  <2>1. /\ text \in Seq(Marks) /\ v[0] = 0
        /\ \A k \in 1 .. Len(text) :
             /\ DigitValue(text[k]) \in Int
             /\ v[k] = base * v[k - 1] + DigitValue(text[k])
    <3>1. /\ text \in Seq(Marks) /\ Len(text) = count /\ v[0] = 0
          /\ \A k \in 1 .. count :
               /\ DigitValue(text[k]) \in Nat
               /\ v[k] = base * v[k - 1] + DigitValue(text[k])
      BY <1>1, Zenon DEF WordDigits
    <3>2. \A x \in Nat : x \in Int
      OBVIOUS
    <3> QED BY <3>1, <3>2, Zenon
  <2> QED BY <1>2, <2>1, ReadsAs
<1> QED BY <1>1, <1>3 DEF WordDigits

(* The same word with no 0 before its first digit.                         *)
Writes(text, word, base, count) ==
  /\ text \in Seq(Marks) /\ Len(text) \in 1 .. count
  /\ Denotes(text, base) = word
  /\ text[1] # "0" /\ text[1] # "-"
  /\ Power(base, Len(text) - 1) <= word /\ word < Power(base, Len(text))

(* Started leaves out what is before the first digit, and nothing else.    *)
LEMMA StartedIs ==
  ASSUME NEW word \in Nat \ {0}, NEW base \in 2 .. 16, NEW count \in Nat \ {0},
         word < Power(base, count)
  PROVE  Writes(Started(Popped(word, base, count)), word, base, count)
<1>1. PICK text, v : /\ text = Popped(word, base, count)
                     /\ WordDigits(word, base, count, text, v)
  BY PoppedIs
<1>2. \A m \in Nat : Power(base, m) \in Nat \ {0}
  <2>1. base \in Nat /\ base >= 2
    OBVIOUS
  <2> QED BY <2>1, PowerGrows, Zenon
<1>3. PICK f \in 1 .. count : v[f - 1] = 0 /\ v[f] # 0
  <2> DEFINE S == {k \in 0 .. count : v[k] = 0}
  <2> SUFFICES ASSUME \A k \in 1 .. count : v[k - 1] = 0 => v[k] = 0
               PROVE  FALSE
    OBVIOUS
  <2>1. 0 \in S
    BY <1>1 DEF WordDigits
  <2>2. \A k \in 1 .. count : k - 1 \in S => k \in S
    OBVIOUS
  <2>3. S \in SUBSET (0 .. count) /\ count \in 0 .. count
    OBVIOUS
  <2>4. S = 0 .. count
    <3> HIDE DEF S
    <3> QED BY <2>1, <2>2, <2>3, Upward
  <2>5. v[count] = 0
    BY <2>3, <2>4
  <2> QED BY <1>1, <2>5 DEF WordDigits
<1>4. /\ count - f \in Nat /\ f - 1 \in 0 .. count /\ f \in 0 .. count
      /\ count - (f - 1) = (count - f) + 1 /\ (count - f) + 1 \in Nat
  OBVIOUS
<1>5. word < Power(base, (count - f) + 1)
  <2>1. word \div Power(base, (count - f) + 1) = 0
    BY <1>1, <1>3, <1>4 DEF WordDigits
  <2>2. PICK d \in Nat \ {0} : d = Power(base, (count - f) + 1)
    BY <1>2, <1>4
  <2>3. word < d * ((word \div d) + 1)
    BY <2>2, QuotientIs
  <2>4. d * (0 + 1) = d
    OBVIOUS
  <2> QED BY <2>1, <2>2, <2>3, <2>4
<1>6. Power(base, count - f) <= word
  <2>1. v[f] = word \div Power(base, count - f) /\ v[f] \in Nat
    BY <1>1, <1>4 DEF WordDigits
  <2>2. PICK d \in Nat \ {0} : d = Power(base, count - f)
    BY <1>2, <1>4
  <2>3. d * (word \div d) <= word /\ word \div d \in Nat \ {0}
    BY <1>3, <2>1, <2>2, QuotientIs
  <2>4. \A x \in Nat \ {0} : d <= d * x
    BY Z3
  <2> QED BY <2>2, <2>3, <2>4
<1>7. ASSUME NEW j \in 1 .. f - 1
      PROVE  text[j] = "0"
  <2>1. /\ j \in 0 .. count /\ j \in 1 .. count /\ j - 1 \in 0 .. count
        /\ count - j \in Nat /\ base \in Nat /\ base >= 2
        /\ (count - f) + 1 \in 0 .. count - j
    OBVIOUS
  <2>2. Power(base, (count - f) + 1) <= Power(base, count - j)
    BY <2>1, PowerGrows, Zenon
  <2>3. PICK d \in Nat \ {0} : d = Power(base, count - j)
    BY <1>2, <2>1
  <2>4. word < d * 1
    <3>1. Power(base, (count - f) + 1) \in Nat
      BY <1>2, <1>4
    <3> QED BY <1>5, <2>2, <2>3, <3>1
  <2>5. word \div d < 1 /\ word \div d \in Nat
    BY <2>4, QuotientBelow, QuotientIs
  <2>6. v[j] = 0
    BY <1>1, <2>1, <2>3, <2>5 DEF WordDigits
  <2>7. /\ 0 = base * v[j - 1] + DigitValue(text[j])
        /\ v[j - 1] \in Nat /\ DigitValue(text[j]) \in Nat
        /\ text[j] = "0" <=> DigitValue(text[j]) = 0
    BY <1>1, <2>1, <2>6 DEF WordDigits
  <2>8. \A x, y \in Nat : 0 = base * x + y => y = 0
    BY Z3
  <2> QED BY <2>7, <2>8
<1>8. text[f] # "0" /\ text[f] # "-"
  <2>1. /\ v[f] = base * 0 + DigitValue(text[f])
        /\ DigitValue(text[f]) \in Nat
        /\ text[f] = "0" <=> DigitValue(text[f]) = 0
        /\ text[f] # "-"
    BY <1>1, <1>3, <1>4 DEF WordDigits
  <2> QED BY <1>3, <2>1
<1>9. text \in Seq(Marks) /\ Len(text) = count /\ DOMAIN text = 1 .. count
  BY <1>1 DEF WordDigits
<1>10. Started(text) = SubSeq(text, f, count)
  <2> DEFINE IsFirst(i) == text[i] # "0" /\ \A j \in 1 .. i - 1 : text[j] = "0"
  <2>1. \A i \in DOMAIN text : IsFirst(i) => i = f
    <3>1. \A i \in 1 .. count : i = f \/ i \in 1 .. f - 1 \/ f \in 1 .. i - 1
      OBVIOUS
    <3> QED BY <1>7, <1>8, <1>9, <3>1
  <2>2. f \in DOMAIN text /\ IsFirst(f)
    BY <1>7, <1>8, <1>9
  <2>3. (CHOOSE i \in DOMAIN text : IsFirst(i)) = f
    <3> HIDE DEF IsFirst
    <3> QED BY <2>1, <2>2, Zenon
  <2> QED BY <1>9, <2>3, Zenon DEF Started
<1> DEFINE s == SubSeq(text, f, count)
           n == (count - f) + 1
           w == [k \in 0 .. n |-> v[(f - 1) + k]]
<1>11. /\ s \in Seq(Marks) /\ Len(s) = n /\ n \in 1 .. count
       /\ \A k \in 1 .. n : s[k] = text[(f - 1) + k]
  BY <1>9
<1>12. \A k \in 1 .. n : /\ (f - 1) + k \in 1 .. count
                         /\ ((f - 1) + k) - 1 = (f - 1) + (k - 1)
                         /\ k - 1 \in 0 .. n /\ k \in 0 .. n
  OBVIOUS
<1>13. w[0] = 0 /\ w[n] = word
  <2>1. 0 \in 0 .. n /\ n \in 0 .. n /\ (f - 1) + 0 = f - 1
        /\ (f - 1) + n = count
    OBVIOUS
  <2> QED BY <1>1, <1>3, <2>1 DEF WordDigits
<1>14. \A k \in 1 .. n :
         /\ DigitValue(s[k]) \in Int
         /\ w[k] = base * w[k - 1] + DigitValue(s[k])
  <2> SUFFICES ASSUME NEW k \in 1 .. n
               PROVE  /\ DigitValue(s[k]) \in Int
                      /\ w[k] = base * w[k - 1] + DigitValue(s[k])
    OBVIOUS
  <2>1. PICK i \in 1 .. count : i = (f - 1) + k /\ i - 1 = (f - 1) + (k - 1)
    BY <1>12
  <2>2. w[k] = v[i] /\ w[k - 1] = v[i - 1]
    BY <1>12, <2>1
  <2>3. s[k] = text[i]
    BY <1>11, <2>1
  <2> HIDE DEF w, s
  <2>4. /\ DigitValue(text[i]) \in Nat
        /\ v[i] = base * v[i - 1] + DigitValue(text[i])
    BY <1>1, <2>1 DEF WordDigits
  <2> QED BY <2>2, <2>3, <2>4
<1>15. Denotes(s, base) = word
  <2>1. base \in Int
    OBVIOUS
  <2> HIDE DEF w, s, n
  <2> QED BY <1>11, <1>13, <1>14, <2>1, ReadsAs
<1>16. s[1] # "0" /\ s[1] # "-"
  <2>1. 1 \in 1 .. n /\ (f - 1) + 1 = f
    OBVIOUS
  <2> QED BY <1>8, <1>11, <2>1
<1>17. Power(base, n - 1) <= word /\ word < Power(base, n)
  <2>1. n - 1 = count - f
    OBVIOUS
  <2> QED BY <1>5, <1>6, <2>1
<1> HIDE DEF s, n
<1>18. Writes(s, word, base, count)
  BY <1>11, <1>15, <1>16, <1>17 DEF Writes
<1> QED BY <1>1, <1>10, <1>18 DEF s

(* The words are so many as can be written.                                *)
LEMMA WordsAre ==
  /\ WORDS \in Nat \ {0} /\ UINT = 0 .. WORDS - 1
  /\ \A word \in UINT : /\ word \in Nat /\ word < Power(16, NIBBLES)
                        /\ word < Power(10, DECIMALS)
<1>1. NIBBLES \in Nat /\ DECIMALS \in Nat /\ WORDS <= Power(10, DECIMALS)
  BY DigitsAssumption DEF WORDS
<1>2. WORDS \in Nat \ {0} /\ Power(10, DECIMALS) \in Nat
  BY <1>1, PowerGrows DEF WORDS
<1>3. UINT = 0 .. WORDS - 1 /\ WORDS = Power(16, NIBBLES)
  BY DEF UINT, WORDS
<1> QED BY <1>1, <1>2, <1>3

(* The text of 0.                                                          *)
LEMMA ZeroDenotes ==
  ASSUME NEW base \in Int
  PROVE  Denotes(<<"0">>, base) = 0
<1> DEFINE v == [k \in 0 .. 1 |-> 0]
           text == <<"0">>
<1>1. DigitValue("0") = 0
  <2>1. 0 \in 0 .. 15 /\ Numerals[0 + 1] = "0"
    BY DEF Numerals
  <2> QED BY <2>1, NumeralIs
<1>2. text \in Seq({"0"}) /\ Len(text) = 1 /\ text[1] = "0"
  OBVIOUS
<1>3. v[0] = 0 /\ v[1] = 0
  OBVIOUS
<1>4. \A k \in 1 .. Len(text) :
        /\ DigitValue(text[k]) \in Int
        /\ v[k] = base * v[k - 1] + DigitValue(text[k])
  <2>1. base * 0 + 0 = 0 /\ \A k \in 1 .. 1 : k = 1 /\ k - 1 = 0
    OBVIOUS
  <2> HIDE DEF v, text
  <2> QED BY <1>1, <1>2, <1>3, <2>1
<1> HIDE DEF v, text
<1>5. Denotes(text, base) = v[Len(text)]
  BY <1>2, <1>3, <1>4, ReadsAs
<1> QED BY <1>2, <1>3, <1>5 DEF text

(* A number without a sign, as it is written in a base.                    *)
WrittenAs(text, word, base, count) ==
  /\ text \in Seq(Marks) /\ Len(text) \in 1 .. count
  /\ Denotes(text, base) = word /\ Shortest(text) /\ text[1] # "-"

(* That is how words are written, 0 included.                              *)
LEMMA UnsignedIs ==
  ASSUME NEW word \in Nat, NEW base \in 2 .. 16, NEW count \in Nat \ {0},
         word < Power(base, count),
         NEW text, text = IF word = 0 THEN <<"0">>
                          ELSE Started(Popped(word, base, count))
  PROVE  WrittenAs(text, word, base, count)
<1>1. CASE word = 0
  <2>1. text = <<"0">> /\ base \in Int
    BY <1>1
  <2>2. Denotes(text, base) = 0
    BY <2>1, ZeroDenotes
  <2>3. "0" \in Marks
    <3>1. 0 \in 0 .. 15 /\ Numerals[0 + 1] = "0"
      BY DEF Numerals
    <3> QED BY <3>1, NumeralIs
  <2>4. /\ text \in Seq(Marks) /\ Len(text) = 1 /\ 1 \in 1 .. count
        /\ text # <<>> /\ text[1] # "-"
    <3> HIDE <1>1
    <3>1. text = <<"0">> /\ <<"0">> \in Seq(Marks)
      BY <2>1, <2>3
    <3>2. Len(<<"0">>) = 1 /\ <<"0">> # <<>> /\ <<"0">>[1] # "-"
      OBVIOUS
    <3>3. 1 \in 1 .. count
      OBVIOUS
    <3> QED BY <3>1, <3>2, <3>3, Zenon
  <2> QED BY <1>1, <2>2, <2>4 DEF WrittenAs, Shortest
<1>2. CASE word # 0
  <2>1. Writes(text, word, base, count)
    BY <1>2, StartedIs
  <2>2. text \in Seq(Marks) /\ Len(text) # 0
    BY <2>1 DEF Writes
  <2>3. text # <<>>
    BY <2>2
  <2> QED BY <2>1, <2>3 DEF Writes, WrittenAs, Shortest
<1> QED BY <1>1, <1>2

(* ulog10 counts the digits that sprintf_uint writes, but none of 0.       *)
LEMMA LengthIs ==
  ASSUME NEW word \in UINT
  PROVE  ulog10(word) = IF word = 0 THEN 0 ELSE Len(sprintf_uint(word))
<1> DEFINE Counts(n) == /\ word < Power(10, n)
                        /\ n = 0 \/ word >= Power(10, n - 1)
<1>1. word \in Nat /\ word < Power(10, DECIMALS) /\ DECIMALS \in Nat \ {0}
  BY WordsAre, DigitsAssumption
<1>2. \A n \in Nat : /\ Power(10, n) \in Nat \ {0}
                     /\ \A m \in 0 .. n : Power(10, m) <= Power(10, n)
  <2>1. 10 \in Nat /\ 10 >= 2
    OBVIOUS
  <2> QED BY <2>1, PowerGrows, Zenon
<1>3. ASSUME NEW m \in Nat, NEW n \in Nat, Counts(m), Counts(n)
      PROVE  ~ (m < n)
  <2> SUFFICES ASSUME m < n PROVE FALSE
    OBVIOUS
  <2>1. n - 1 \in Nat /\ m \in 0 .. n - 1 /\ n # 0
    OBVIOUS
  <2>2. Power(10, m) <= Power(10, n - 1)
    BY <1>2, <2>1
  <2>3. word < Power(10, m) /\ word >= Power(10, n - 1)
    BY <1>3, <2>1
  <2>4. Power(10, m) \in Nat /\ Power(10, n - 1) \in Nat
    BY <1>2, <2>1
  <2> QED BY <1>1, <2>2, <2>3, <2>4
<1>4. \A m, n \in Nat : Counts(m) /\ Counts(n) => m = n
  <2>1. \A m, n \in Nat : ~ (m < n) /\ ~ (n < m) => m = n
    OBVIOUS
  <2> HIDE DEF Counts
  <2> QED BY <1>3, <2>1
<1>5. ASSUME NEW n \in 0 .. DECIMALS, Counts(n)
      PROVE  ulog10(word) = n
  <2>1. \A m \in 0 .. DECIMALS : m \in Nat
    OBVIOUS
  <2>2. \A m \in 0 .. DECIMALS : Counts(m) => m = n
    <3> HIDE DEF Counts
    <3> QED BY <1>4, <1>5, <2>1
  <2>3. ulog10(word) = CHOOSE m \in 0 .. DECIMALS : Counts(m)
    BY Zenon DEF ulog10
  <2> HIDE DEF Counts
  <2> QED BY <1>5, <2>2, <2>3, Zenon
<1>6. CASE word = 0
  <2>1. 0 \in 0 .. DECIMALS /\ Counts(0)
    <3>1. Power(10, 0) = 1
      BY PowerIs
    <3> QED BY <1>1, <1>6, <3>1
  <2> QED BY <1>5, <1>6, <2>1
<1>7. CASE word # 0
  <2>1. PICK text : /\ text = sprintf_uint(word)
                    /\ Writes(text, word, 10, DECIMALS)
    BY <1>1, <1>7, StartedIs DEF sprintf_uint
  <2>2. PICK n \in 1 .. DECIMALS : n = Len(text)
    BY <2>1 DEF Writes
  <2>3. Power(10, n - 1) <= word /\ word < Power(10, n)
    BY <2>1, <2>2 DEF Writes
  <2>4. n \in 0 .. DECIMALS /\ Counts(n)
    <3>1. n - 1 \in Nat /\ n \in 0 .. DECIMALS
      OBVIOUS
    <3>2. Power(10, n - 1) \in Nat
      BY <1>2, <3>1
    <3> QED BY <1>1, <2>3, <3>1, <3>2
  <2>5. ulog10(word) = n
    BY <1>5, <2>4
  <2> QED BY <1>7, <2>1, <2>2, <2>5
<1> QED BY <1>6, <1>7

(* All but the first character.                                            *)
LEMMA RestIs ==
  ASSUME NEW S, NEW text \in Seq(S), NEW n \in Nat, Len(text) = n + 1
  PROVE  /\ Tail(text) \in Seq(S) /\ Len(Tail(text)) = n
         /\ \A i \in 1 .. n : Tail(text)[i] = text[i + 1]
<1>1. text # <<>>
  <2>1. Len(text) # 0
    OBVIOUS
  <2> QED BY <2>1
<1>2. (n + 1) - 1 = n
  OBVIOUS
<1> QED BY <1>1, <1>2, HeadTailProperties

(* What follows the first character, and what follows the first two.       *)
LEMMA TailsAre ==
  ASSUME NEW S, NEW text \in Seq(S), NEW c, NEW d
  PROVE  /\ (<<c>> \o text)[1] = c /\ Tail(<<c>> \o text) = text
         /\ Tail(Tail(<<c, d>> \o text)) = text
<1> DEFINE T == S \cup {c, d}
           one == <<c>> \o text
           two == <<c, d>> \o text
<1>1. text \in Seq(T) /\ <<c>> \in Seq(T) /\ <<c, d>> \in Seq(T)
  <2>1. S \in SUBSET T /\ c \in T /\ d \in T
    OBVIOUS
  <2> HIDE DEF T
  <2> QED BY <2>1
<1> HIDE DEF T
<1>2. PICK n \in Nat : n = Len(text)
  OBVIOUS
<1>3. /\ one \in Seq(T) /\ Len(one) = n + 1 /\ one[1] = c
      /\ \A i \in 1 .. n : one[i + 1] = text[i]
  <2>1. one \in Seq(T) /\ Len(one) = 1 + n
    BY <1>1, <1>2, ConcatProperties
  <2>2. \A i \in 1 .. Len(one) :
          one[i] = IF i <= 1 THEN <<c>>[i] ELSE text[i - 1]
    BY <1>1, <1>2, ConcatProperties
  <2> HIDE DEF one
  <2>3. \A i \in 1 .. n : i + 1 \in 1 .. Len(one) /\ (i + 1) - 1 = i
    BY <2>1
  <2> QED BY <2>1, <2>2, <2>3
<1>4. /\ two \in Seq(T) /\ Len(two) = n + 2
      /\ \A i \in 1 .. n : two[i + 2] = text[i]
  <2>1. two \in Seq(T) /\ Len(two) = 2 + n
    BY <1>1, <1>2, ConcatProperties
  <2>2. \A i \in 1 .. Len(two) :
          two[i] = IF i <= 2 THEN <<c, d>>[i] ELSE text[i - 2]
    BY <1>1, <1>2, ConcatProperties
  <2> HIDE DEF two
  <2>3. \A i \in 1 .. n : i + 2 \in 1 .. Len(two) /\ (i + 2) - 2 = i
    BY <2>1
  <2> QED BY <2>1, <2>2, <2>3
<1> HIDE DEF one, two
<1>5. Tail(one) = text
  <2>1. /\ Tail(one) \in Seq(T) /\ Len(Tail(one)) = n
        /\ \A i \in 1 .. n : Tail(one)[i] = one[i + 1]
    BY <1>3, RestIs
  <2> QED BY <1>1, <1>2, <1>3, <2>1, SeqEqual
<1>6. Tail(Tail(two)) = text
  <2>1. PICK t \in Seq(T) : /\ t = Tail(two) /\ Len(t) = n + 1
                            /\ \A i \in 1 .. n + 1 : t[i] = two[i + 1]
    <3>1. PICK m \in Nat : m = n + 1 /\ n + 2 = m + 1
      OBVIOUS
    <3>2. two \in Seq(T) /\ Len(two) = m + 1
      BY <1>4, <3>1
    <3>3. /\ Tail(two) \in Seq(T) /\ Len(Tail(two)) = m
          /\ \A i \in 1 .. m : Tail(two)[i] = two[i + 1]
      BY <3>2, RestIs
    <3> QED BY <3>1, <3>3
  <2>2. /\ Tail(t) \in Seq(T) /\ Len(Tail(t)) = n
        /\ \A i \in 1 .. n : Tail(t)[i] = t[i + 1]
    BY <2>1, RestIs
  <2>3. \A i \in 1 .. n : i + 1 \in 1 .. n + 1 /\ (i + 1) + 1 = i + 2
    OBVIOUS
  <2>4. \A i \in 1 .. n : Tail(t)[i] = text[i]
    BY <1>4, <2>1, <2>2, <2>3
  <2> QED BY <1>1, <1>2, <2>1, <2>2, <2>4, SeqEqual
<1> QED BY <1>3, <1>5, <1>6 DEF one, two

(* Every word reads back.                                                  *)
LEMMA WordsReadBack ==
  ASSUME NEW word \in UINT
  PROVE  ReadsBack(word)
<1> DEFINE u == sprintf_uint(word)
           i == sprintf_int(word)
           x == IF word = 0 THEN <<"0">>
                ELSE Started(Popped(word, 16, NIBBLES))
           y == Popped(word, 16, NIBBLES)
<1>1. /\ NIBBLES \in Nat \ {0} /\ DECIMALS \in Nat \ {0}
      /\ word \in Nat /\ word < Power(16, NIBBLES)
      /\ 10 \in 2 .. 16 /\ 16 \in 2 .. 16
  BY WordsAre, DigitsAssumption
<1>2. \A w \in UINT : WrittenAs(sprintf_uint(w), w, 10, DECIMALS)
  <2> SUFFICES ASSUME NEW w \in UINT
               PROVE  WrittenAs(sprintf_uint(w), w, 10, DECIMALS)
    OBVIOUS
  <2>1. PICK text : /\ text = sprintf_uint(w)
                    /\ text = IF w = 0 THEN <<"0">>
                              ELSE Started(Popped(w, 10, DECIMALS))
    BY DEF sprintf_uint
  <2>2. w \in Nat /\ w < Power(10, DECIMALS)
    BY WordsAre
  <2>3. WrittenAs(text, w, 10, DECIMALS)
    BY <1>1, <2>1, <2>2, UnsignedIs
  <2> QED BY <2>1, <2>3
<1>3. Denotes(u, 10) = word /\ Shortest(u) /\ u[1] # "-"
  BY <1>2, Zenon DEF WrittenAs
<1>4. WrittenAs(x, word, 16, NIBBLES)
  <2>1. PICK text : text = x
    OBVIOUS
  <2>2. WrittenAs(text, word, 16, NIBBLES)
    BY <1>1, <2>1, UnsignedIs
  <2> QED BY <2>1, <2>2
<1>5. /\ Denotes(y, 16) = word /\ Len(y) = NIBBLES
      /\ \E S : y \in Seq(S)
  <2>1. Denotes(y, 16) = word /\ Len(y) = NIBBLES
    BY <1>1, PoppedDenotes
  <2>2. PICK v : WordDigits(word, 16, NIBBLES, y, v)
    BY <1>1, PoppedIs
  <2>3. y \in Seq(Marks)
    BY <2>2, Zenon DEF WordDigits
  <2> QED BY <2>1, <2>3
<1>6. Tail(Tail(sprintf_hex(word))) = x /\ Tail(Tail(sprintf_ptr(word))) = y
  <2>1. sprintf_hex(word) = <<"0", "x">> \o x
    BY DEF sprintf_hex
  <2>2. sprintf_ptr(word) = <<"0", "x">> \o y
    BY DEF sprintf_ptr
  <2>3. x \in Seq(Marks)
    BY <1>4, Zenon DEF WrittenAs
  <2> HIDE DEF x, y
  <2>4. Tail(Tail(<<"0", "x">> \o x)) = x
    BY <2>3, TailsAre, Zenon
  <2>5. Tail(Tail(<<"0", "x">> \o y)) = y
    BY <1>5, TailsAre, Zenon
  <2> QED BY <2>1, <2>2, <2>4, <2>5
<1>7. Denotes(x, 16) = word /\ Shortest(x)
  BY <1>4, Zenon DEF WrittenAs
<1>8. Len(u) + ui_pad(ulog10(word), DECIMALS) = DECIMALS
  <2>1. PICK n \in 1 .. DECIMALS : n = Len(u)
    BY <1>2, Zenon DEF WrittenAs
  <2>2. ulog10(word) = IF word = 0 THEN 0 ELSE n
    BY <2>1, LengthIs
  <2>3. word = 0 => n = 1
    <3>1. word = 0 => u = <<"0">> /\ Len(<<"0">>) = 1
      BY DEF sprintf_uint
    <3> QED BY <2>1, <3>1
  <2>4. (IF ulog10(word) = 0 THEN 1 ELSE ulog10(word)) = n
    BY <2>2, <2>3
  <2>5. ui_pad(ulog10(word), DECIMALS) = DECIMALS - n
    BY <1>1, <2>4 DEF ui_pad
  <2> QED BY <1>1, <2>1, <2>5
<1>9. Signed(word) = IF i[1] = "-" THEN -Denotes(Tail(i), 10)
                     ELSE Denotes(i, 10)
  <2>1. CASE Signed(word) < 0
    <3>1. PICK w \in UINT : w = Unsign(-Signed(word)) /\ Signed(word) = -w
      <4>1. WORDS \in Nat \ {0} /\ word \in 0 .. WORDS - 1
        BY WordsAre
      <4>2. 2 * word >= WORDS /\ Signed(word) = word - WORDS
        BY <1>1, <2>1 DEF Signed
      <4>3. WORDS - word \in 0 .. WORDS - 1
        BY <4>1, <4>2
      <4>4. -(word - WORDS) = WORDS - word /\ -(WORDS - word) = word - WORDS
        BY <4>1
      <4>5. \A m \in Nat \ {0} : \A z \in 0 .. m - 1 : z % m = z
        BY Z3
      <4>6. (WORDS - word) % WORDS = WORDS - word
        BY <4>1, <4>3, <4>5
      <4> QED BY <4>2, <4>3, <4>4, <4>6, WordsAre DEF Unsign
    <3>2. i = <<"-">> \o sprintf_uint(w)
      BY <2>1, <3>1 DEF sprintf_int
    <3>3. sprintf_uint(w) \in Seq(Marks) /\ Denotes(sprintf_uint(w), 10) = w
      BY <1>2, Zenon DEF WrittenAs
    <3>4. i[1] = "-" /\ Tail(i) = sprintf_uint(w)
      BY <3>2, <3>3, TailsAre
    <3> HIDE DEF i
    <3> QED BY <3>1, <3>3, <3>4
  <2>2. CASE ~ (Signed(word) < 0)
    <3>1. Signed(word) = word
      <4>1. WORDS \in Nat \ {0} /\ word \in 0 .. WORDS - 1
        BY WordsAre
      <4> QED BY <2>2, <4>1 DEF Signed
    <3>2. i = u
      BY <2>2 DEF sprintf_int
    <3> HIDE DEF i, u
    <3> QED BY <1>3, <3>1, <3>2
  <2> QED BY <2>1, <2>2
<1> HIDE DEF u, i, x, y
<1> QED BY <1>3, <1>5, <1>6, <1>7, <1>8, <1>9 DEF ReadsBack, u, i

(***************************************************************************)
(* Every word is written as the number it is, in decimal with and without  *)
(* a sign and in hexadecimal, and fills its column, for words of any       *)
(* number of nibbles: the loops of sprintf stop with no digit missing and  *)
(* none too many.                                                          *)
(***************************************************************************)
THEOREM WhatIsWrittenReadsBack == PSpec => []NumbersReadBack
<1>1. InputInv => NumbersReadBack
  BY WordsReadBack DEF NumbersReadBack, InputInv
<1> QED BY <1>1, InputsAreRight, PTL
=============================================================================

----------------------------- MODULE TaskQueue -----------------------------
(***************************************************************************)
(* The intrusive task queue of the kernel.                                 *)
(*                                                                         *)
(* A queue is a head and a tail pointer; the links are the `next' fields   *)
(* of the task descriptors themselves, so one descriptor is on at most one *)
(* queue.  The code spells the same two operations out three times, for    *)
(* the free list (task.c), the ready queues (scheduler.c) and the receive  *)
(* queues (syscall.c).  A store is a record                                *)
(*   m = [next |-> task -> pointer, head |-> queue -> pointer,             *)
(*        tail |-> queue -> pointer, state |-> the scheduler's bitmap]     *)
(* and an operation maps a store to the store the C statements leave.      *)
(* The tail of a queue that has run empty is stale, as it is in the code.  *)
(***************************************************************************)
EXTENDS Integers, Sequences, FiniteSets

CONSTANT NULL     \* the null pointer

(* Mutants of Produce: one that leaves the new tail's `next' as it was, and *)
(* one that pushes at the front.                                           *)
ProduceUnended(m, q, t) ==
  [next  |-> IF m.head[q] = NULL THEN m.next
             ELSE [m.next EXCEPT ![m.tail[q]] = t],
   head  |-> IF m.head[q] = NULL THEN [m.head EXCEPT ![q] = t] ELSE m.head,
   tail  |-> [m.tail EXCEPT ![q] = t],
   state |-> m.state]

ProduceAtFront(m, q, t) ==
  [next  |-> [m.next EXCEPT ![t] = m.head[q]],
   head  |-> [m.head EXCEPT ![q] = t],
   tail  |-> IF m.head[q] = NULL THEN [m.tail EXCEPT ![q] = t] ELSE m.tail,
   state |-> m.state]

(***************************************************************************)
(* Append t: the old tail (if the head says there is one) or the head is   *)
(* made to point at t, then the tail is, then t ends the list.             *)
(***************************************************************************)
Produce(m, q, t) ==
  LET empty == m.head[q] = NULL
  IN  [next  |-> IF empty THEN [m.next EXCEPT ![t] = NULL]
                 ELSE [m.next EXCEPT ![m.tail[q]] = t, ![t] = NULL],
       head  |-> IF empty THEN [m.head EXCEPT ![q] = t] ELSE m.head,
       tail  |-> [m.tail EXCEPT ![q] = t],
       state |-> m.state]

(***************************************************************************)
(* Drop the head: only the head pointer moves.  The descriptor that leaves *)
(* keeps its `next', and the tail is not touched.                          *)
(***************************************************************************)
Consume(m, q) ==
  [next  |-> m.next,
   head  |-> [m.head EXCEPT ![q] = m.next[m.head[q]]],
   tail  |-> m.tail,
   state |-> m.state]

(* Write p in the `next' field of t.                                       *)
Link(m, t, p) ==
  [next  |-> [m.next EXCEPT ![t] = p],
   head  |-> m.head,
   tail  |-> m.tail,
   state |-> m.state]

(***************************************************************************)
(* The tasks met on the way from the head of q to the end of the list, at  *)
(* most n of them: a cycle shows as a sequence of length n.                *)
(***************************************************************************)
Chain(m, q, n) ==
  LET tasks    == DOMAIN m.next
      after    == [p \in tasks \cup {m.next[t] : t \in tasks} |->
                     IF p \in tasks THEN m.next[p] ELSE NULL]
      at[i \in 1..n] == IF i = 1 THEN m.head[q] ELSE after[at[i-1]]
  IN  IF m.head[q] \notin tasks THEN <<>>
      ELSE [i \in 1 .. Cardinality({k \in 1..n : at[k] \in tasks}) |-> at[i]]

(***************************************************************************)
(* q represents the sequence s: it starts at the head, follows the links,  *)
(* ends with NULL, and the tail is its last element.                       *)
(***************************************************************************)
Represents(m, q, s) ==
  /\ m.head[q] = IF s = <<>> THEN NULL ELSE s[1]
  /\ s # <<>> => /\ m.tail[q] = s[Len(s)]
                 /\ m.next[s[Len(s)]] = NULL
  /\ \A i \in 1..Len(s)-1 : m.next[s[i]] = s[i+1]
  /\ \A i, j \in 1..Len(s) : s[i] = s[j] => i = j
=============================================================================

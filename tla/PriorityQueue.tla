--------------------------- MODULE PriorityQueue ---------------------------
(***************************************************************************)
(* priority_queue.c: a binary heap of (key, val) nodes, smallest key       *)
(* first, in an array whose root is node 0.                                *)
(*                                                                         *)
(* The children of i are 2i and 2i+1 and its parent is i \div 2, so node 0 *)
(* has one child, node 1, and is its own left child and its own parent.    *)
(* Free nodes hold the sentinel key INT_MAX.                               *)
(***************************************************************************)
EXTENDS Integers, FiniteSets

CONSTANTS SIZE,      \* nodes in the heap array
          INT_MAX,
          VALUES,    \* what the queue holds (task ids)
          NOBODY     \* -1

(* pq_delete reads the right child after it has checked the left one.      *)
ASSUME SizeAssumption == SIZE \in Nat \ {0} /\ SIZE % 2 = 0
ASSUME NobodyAssumption == NOBODY \notin VALUES
ASSUME KeyAssumption == INT_MAX \in Int

Slots == 0 .. SIZE - 1
Nodes == [key : Int, val : VALUES \cup {NOBODY}]
Heaps == [Slots -> Nodes]

LEFT(i) == 2 * i
RIGHT(i) == 2 * i + 1
PARENT(i) == i \div 2

Free == [key |-> INT_MAX, val |-> NOBODY]

pq_init == [count |-> 0, heap |-> [i \in Slots |-> Free]]

pq_peek_key(q) == q.heap[0].key
pq_peek_val(q) == q.heap[0].val
pq_size(q) == q.count

(* Mutant: one half of the exchange is forgotten.                          *)
Overwrite(h, i, j) == [h EXCEPT ![j] = h[i]]

Swap(h, i, j) == [h EXCEPT ![i] = h[j], ![j] = h[i]]

(* The state of a loop: the array, and the node it has come to.            *)
LoopStates == Heaps \X Slots

Rises(h, i) == h[i].key < h[PARENT(i)].key

(* The loop of pq_add: node i rises while its key is below its parent's.   *)
BubbleUp(heap, start) ==
  LET up[s \in LoopStates] ==
        LET h == s[1]  i == s[2]
        IN  IF Rises(h, i)
            THEN up[<<Swap(h, i, PARENT(i)), PARENT(i)>>]
            ELSE h
  IN  up[<<heap, start>>]

(* Mutant: a node is compared with its left child only.                    *)
LeftIfSmaller(h, i) ==
  IF h[LEFT(i)].key < h[i].key THEN LEFT(i) ELSE i

(* The node with the smallest key among i and its children.                *)
Smallest(h, i) ==
  LET left == IF h[LEFT(i)].key < h[i].key THEN LEFT(i) ELSE i
  IN  IF h[RIGHT(i)].key < h[left].key THEN RIGHT(i) ELSE left

Sinks(h, i) == LEFT(i) < SIZE /\ Smallest(h, i) # i

(* The loop of pq_delete: the root sinks below its smallest child.         *)
BubbleDown(heap) ==
  LET down[s \in LoopStates] ==
        LET h == s[1]  i == s[2]
        IN  IF Sinks(h, i)
            THEN down[<<Swap(h, i, Smallest(h, i)), Smallest(h, i)>>]
            ELSE h
  IN  down[<<heap, 0>>]

(* The last node goes to the root, and sinks.                              *)
pq_delete(q) ==
  LET last == q.count - 1
  IN  [count |-> last,
       heap  |-> BubbleDown([q.heap EXCEPT ![0] = q.heap[last],
                                           ![last] = Free])]

pq_add(q, key, val) ==
  [count |-> q.count + 1,
   heap  |-> BubbleUp([q.heap EXCEPT ![q.count] = [key |-> key, val |-> val]],
                      q.count)]

-----------------------------------------------------------------------------
(* The nodes in use, with how often each occurs.                           *)
Contents(q) ==
  LET used == {q.heap[i] : i \in 0 .. q.count - 1}
  IN  [n \in used |-> Cardinality({i \in 0 .. q.count - 1 : q.heap[i] = n})]
=============================================================================

-------------------------- MODULE PriorityQueueUse --------------------------
(***************************************************************************)
(* A priority queue under every sequence of pq_add and pq_delete, beside   *)
(* the bag of nodes that it should hold.                                   *)
(***************************************************************************)
EXTENDS PriorityQueue, Bags

CONSTANTS KEYS      \* the keys that are added

ASSUME KeysAssumption == \A key \in KEYS : key \in Int /\ key <= INT_MAX

VARIABLES q,        \* the queue
          held,     \* the bag of nodes added and not deleted yet
          last      \* the node the last step deleted, or Free

qvars == <<q, held, last>>

UInit ==
  /\ q = pq_init
  /\ held = EmptyBag
  /\ last = Free

(* pq_add asserts that the queue is not full.                              *)
Add(key, val) ==
  /\ pq_size(q) < SIZE
  /\ q' = pq_add(q, key, val)
  /\ held' = held (+) SetToBag({[key |-> key, val |-> val]})
  /\ last' = Free

(* pq_delete asserts that the queue is not empty.                          *)
Delete ==
  /\ pq_size(q) > 0
  /\ last' = [key |-> pq_peek_key(q), val |-> pq_peek_val(q)]
  /\ q' = pq_delete(q)
  /\ held' = held (-) SetToBag({last'})

UNext == Delete \/ \E key \in KEYS, val \in VALUES : Add(key, val)

USpec == UInit /\ [][UNext]_qvars

(* Every node that was added and not deleted is in the heap, as often as   *)
(* it was added, and nothing else is.                                      *)
HoldsWhatWasAdded == Contents(q) = held

(* A delete takes a node that was there, and none with a smaller key stays.*)
DeletesTheSmallest ==
  [][pq_size(q') < pq_size(q) =>
       /\ BagIn(last', held)
       /\ \A n \in BagToSet(held) : last'.key <= n.key]_qvars
=============================================================================

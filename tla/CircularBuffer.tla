--------------------------- MODULE CircularBuffer ---------------------------
(***************************************************************************)
(* CHAR_BUFFER and BULK_CHAR_BUFFER (circular_buffer.h).  The pointers     *)
(* head and tail are offsets into the buffer, whose end is LENGTH.  The    *)
(* count is kept modulo LENGTH.                                            *)
(***************************************************************************)
EXTENDS Integers, Sequences

CONSTANT LENGTH        \* n, a power of two

ASSUME LengthAssumption == LENGTH \in Nat /\ LENGTH > 1

Offsets == 0 .. LENGTH - 1

cbuf_init == [head |-> 0, tail |-> 0, count |-> 0,
              buffer |-> [i \in Offsets |-> 0]]

cbuf_count(cb) == cb.count

(* A pointer that has reached the end starts over.                         *)
Around(i) == IF i = LENGTH THEN 0 ELSE i

(* The head points at a slot of the buffer.                                *)
HeadInside(cb) == cb.head \in Offsets

(* For a head that points at a slot.                                       *)
cbuf_produce(cb, c) ==
  [head   |-> Around(cb.head + 1),
   tail   |-> cb.tail,
   count  |-> (cb.count + 1) % LENGTH,
   buffer |-> [cb.buffer EXCEPT ![cb.head] = c]]

cbuf_peek(cb) == cb.buffer[cb.tail]

(* Mutant: the tail is not brought round.                                  *)
ConsumeStuck(cb) ==
  [head   |-> cb.head,
   tail   |-> IF cb.tail + 1 = LENGTH THEN cb.tail ELSE cb.tail + 1,
   count  |-> cb.count - 1,
   buffer |-> cb.buffer]

cbuf_consume(cb) ==
  [head   |-> cb.head,
   tail   |-> Around(cb.tail + 1),
   count  |-> cb.count - 1,
   buffer |-> cb.buffer]

(***************************************************************************)
(* The string s goes to the slots from head on, and what does not fit      *)
(* before the end to the slots from 0 on.  A string that ends where the    *)
(* buffer does leaves the head at the end.                                 *)
(***************************************************************************)
cbuf_bulk_produce(cb, s) ==
  LET fits  == cb.head + Len(s) <= LENGTH
      first == LENGTH - cb.head
      slot(i) == (cb.head + i - 1) % LENGTH
  IN  [head   |-> IF fits THEN cb.head + Len(s) ELSE Len(s) - first,
       tail   |-> cb.tail,
       count  |-> (cb.count + Len(s)) % LENGTH,
       buffer |-> [o \in Offsets |->
                    IF \E i \in 1 .. Len(s) : slot(i) = o
                    THEN s[CHOOSE i \in 1 .. Len(s) : slot(i) = o]
                    ELSE cb.buffer[o]]]
=============================================================================

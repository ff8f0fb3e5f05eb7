----------------------------- MODULE TermInput -----------------------------
(***************************************************************************)
(* The input side of the terminal server (term_server.c): the notifier     *)
(* that waits for the UART, the server's input buffer, and the tasks that  *)
(* call Getc.  The output side is TermServer; the two handle different     *)
(* requests of one server and share no state.                              *)
(*                                                                         *)
(* The bytes typed are numbered modulo BYTES, which is more than can be    *)
(* under way at once, so a byte's number tells its place in what was typed.*)
(***************************************************************************)
EXTENDS CircularBuffer, FiniteSets

CONSTANTS
  Readers,       \* the tasks that call Getc
  NOBODY,        \* -1
  FIFO,          \* the most bytes that one interrupt brings
  TYPE_AHEAD,    \* bound: bytes typed and not yet read
  BYTES          \* the numbers of bytes start over here

NOTIFIER == "notifier"

ASSUME ReadersAssumption == {NOBODY, NOTIFIER} \cap Readers = {}
ASSUME FifoAssumption == FIFO \in 1 .. LENGTH
ASSUME BytesAssumption ==
  BYTES \in Nat /\ TYPE_AHEAD \in Nat /\ BYTES > TYPE_AHEAD

VARIABLES
  input_q,       \* the server's buffer of bytes
  in_tid,        \* the reader it keeps waiting, or NOBODY
  input,         \* the notifier's array, which the server reads by pointer
  inbox,         \* requests the server has not received, in order
  readers,       \* reader -> is it in Getc?
  typed,         \* the number of the next byte typed
  got,           \* the number of the next byte a reader should get
  pc             \* "running", "aborted", or "smashed" after a write past
                 \* the end of the buffer

vars == <<input_q, in_tid, input, inbox, readers, typed, got, pc>>

Plus(n, k) == (n + k) % BYTES

(* Bytes typed that no reader has got.                                     *)
Unread == (typed - got) % BYTES

Init ==
  /\ input_q = cbuf_init
  /\ in_tid = NOBODY
  /\ input = <<>>
  /\ inbox = <<>>
  /\ readers = [r \in Readers |-> FALSE]
  /\ typed = 0
  /\ got = 0
  /\ pc = "running"

Stop(how) ==
  /\ pc' = how
  /\ UNCHANGED <<input_q, in_tid, input, readers, typed, got>>

(***************************************************************************)
(* AwaitEvent fills the notifier's array with what the UART holds, and the *)
(* notifier sends its length.  Until the server replies it sends nothing.  *)
(***************************************************************************)
Notifying == \E i \in DOMAIN inbox : inbox[i].from = NOTIFIER

(* The notifier has been given some bytes, and sends their number.         *)
NotifierSends(bytes) ==
  /\ pc = "running"
  /\ ~Notifying
  /\ input' = bytes
  /\ inbox' = Append(inbox, [from |-> NOTIFIER, length |-> Len(bytes)])
  /\ UNCHANGED <<input_q, in_tid, readers, got, pc>>

(* The interrupt hands over the next bytes typed.  Uart2 says how.         *)
Input(len) ==
  /\ Unread + len <= TYPE_AHEAD
  /\ typed' = Plus(typed, len)
  /\ NotifierSends([i \in 1 .. len |-> Plus(typed, i - 1)])

get_term_char(r) ==
  /\ pc = "running"
  /\ ~readers[r]
  /\ readers' = [readers EXCEPT ![r] = TRUE]
  /\ inbox' = Append(inbox, [from |-> r, length |-> 0])
  /\ UNCHANGED <<input_q, in_tid, input, typed, got, pc>>

(***************************************************************************)
(* A reader gets the oldest byte of the buffer, or waits.  A byte that is  *)
(* not the one it should get shows as got = BYTES.                         *)
(***************************************************************************)
_term_try_getc(cb, reader) ==
  IF cbuf_count(cb) = 0
  THEN /\ input_q' = cb
       /\ in_tid' = reader
       /\ UNCHANGED <<readers, got>>
  ELSE /\ input_q' = cbuf_consume(cb)
       /\ in_tid' = NOBODY
       /\ readers' = [readers EXCEPT ![reader] = FALSE]
       /\ got' = IF cbuf_peek(cb) = got THEN Plus(got, 1) ELSE BYTES

Receive(from) ==
  /\ pc = "running"
  /\ inbox # <<>>
  /\ Head(inbox).from = from
  /\ inbox' = Tail(inbox)

(* GETC: only one task may wait for input.                                 *)
ReceiveGetc(r) ==
  /\ Receive(r)
  /\ IF in_tid # NOBODY
     THEN Stop("aborted")
     ELSE /\ _term_try_getc(input_q, r)
          /\ UNCHANGED <<input, typed, pc>>

(***************************************************************************)
(* _term_recv.  More than one byte goes in bulk.  A single byte goes to    *)
(* the slot at the head, which may be no slot of the buffer.  The final    *)
(* assertion, that the count is below the length, cannot fail: the count   *)
(* is kept modulo the length.                                              *)
(***************************************************************************)
ReceiveInput ==
  LET len   == Head(inbox).length
      after == IF len > 1 THEN cbuf_bulk_produce(input_q, input)
               ELSE cbuf_produce(input_q, input[1])
  IN  /\ Receive(NOTIFIER)
      /\ IF len = 1 /\ ~HeadInside(input_q)
         THEN Stop("smashed")
         ELSE /\ IF in_tid # NOBODY
                 THEN _term_try_getc(after, in_tid)
                 ELSE input_q' = after /\ UNCHANGED <<in_tid, readers, got>>
              /\ UNCHANGED <<input, typed, pc>>

Next ==
  \/ \E len \in 1 .. FIFO : Input(len)
  \/ \E r \in Readers : get_term_char(r) \/ ReceiveGetc(r)
  \/ ReceiveInput

Spec == Init /\ [][Next]_vars

-----------------------------------------------------------------------------
(* Properties.                                                             *)

(* Readers get the bytes that were typed, each once and in order.          *)
BytesInOrder == got \in 0 .. BYTES - 1

(* circular_buffer.h: head is the "pointer to next producer slot": no byte *)
(* is written outside the buffer.                                          *)
NothingIsSmashed == pc # "smashed"
=============================================================================

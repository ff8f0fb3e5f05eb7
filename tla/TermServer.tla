----------------------------- MODULE TermServer -----------------------------
(***************************************************************************)
(* The output side of the terminal server (term_server.c): clients that    *)
(* call Puts, the server's ring of output buffers, and the carrier task    *)
(* that pumps a buffer to the UART while the server fills the next one.    *)
(*                                                                         *)
(* The server is one task; the steps of its loops are steps here, so that  *)
(* clients and carrier run between any two of them.  The bytes of the      *)
(* strings are numbered in the order in which the server receives the      *)
(* requests, modulo BYTES, which is more than can be under way at once.    *)
(***************************************************************************)
EXTENDS Integers, Sequences, FiniteSets

CONSTANTS
  Clients,               \* the tasks that call Puts
  LENGTHS,               \* the lengths of their strings
  OUTPUT_BUFFER_COUNT,
  OUTPUT_BUFFER_SIZE,
  FIFO,                  \* the most bytes one interrupt takes
  BYTES                  \* the numbers of bytes start over here

ASSUME BufferAssumption ==
  /\ OUTPUT_BUFFER_COUNT \in Nat /\ OUTPUT_BUFFER_COUNT > 1
  /\ OUTPUT_BUFFER_SIZE \in Nat \ {0}
ASSUME LengthsAssumption == LENGTHS \subseteq Nat \ {0}
ASSUME FifoAssumption == FIFO \in Nat \ {0}
ASSUME BytesAssumption == BYTES \in Nat \ {0}

Buffers == 0 .. OUTPUT_BUFFER_COUNT - 1
Numbers == 0 .. BYTES - 1

VARIABLES
  obuffers,      \* buffer -> offset -> byte
  obuffer_idx,   \* the buffer the server fills
  out_head,      \* the offset of the next byte in it
  carrier_idx,   \* the buffer the server gave to the carrier last
  carrier,       \* does the carrier wait for a buffer?
  output_q,      \* the strings not yet copied, oldest first
  pc,            \* "receive", "fill" (_term_try_fill), "send" (_term_try_send)
  puts,          \* client -> the length of the string it is putting, or 0
  inbox,         \* requests the server has not received, in order
  pump,          \* the carrier: its buffer, what it has sent of it, what is
                 \* left, and whether its request is under way
  received,      \* the number of the next byte to be received from a client
  sent           \* the number of the byte that should go out next, or BYTES
                 \* after another one went

vars == <<obuffers, obuffer_idx, out_head, carrier_idx, carrier, output_q,
          pc, puts, inbox, pump, received, sent>>

server == <<obuffers, obuffer_idx, out_head, carrier_idx, carrier, output_q,
            pc>>

CARRIER == "carrier"
ASSUME ClientsAssumption == CARRIER \notin Clients

NextBuffer(b) == (b + 1) % OUTPUT_BUFFER_COUNT
Plus(n, k) == (n + k) % BYTES

(* What is taken of length bytes when there is space for so many.          *)
Fit(space, length) == IF space < length THEN space ELSE length

(* The handshake of _term_obuffer is over: the server has just been asked  *)
(* for the first buffer.                                                   *)
Init ==
  /\ obuffers = [b \in Buffers |-> [o \in 0 .. OUTPUT_BUFFER_SIZE - 1 |-> 0]]
  /\ obuffer_idx = 0
  /\ out_head = 0
  /\ carrier_idx = OUTPUT_BUFFER_COUNT - 1
  /\ carrier = FALSE
  /\ output_q = <<>>
  /\ pc = "receive"
  /\ puts = [c \in Clients |-> 0]
  /\ inbox = <<CARRIER>>
  /\ pump = [buffer_idx |-> OUTPUT_BUFFER_COUNT - 1, chunk |-> 0,
             length |-> 0, asking |-> TRUE]
  /\ received = 0
  /\ sent = 0

-----------------------------------------------------------------------------
(* The clients and the carrier.                                            *)

term_put_string(c, len) ==
  /\ puts[c] = 0
  /\ puts' = [puts EXCEPT ![c] = len]
  /\ inbox' = Append(inbox, c)
  /\ UNCHANGED <<server, pump, received, sent>>

(* The carrier asks for a buffer when it has pumped the last one out.      *)
CarrierAsks ==
  /\ ~pump.asking
  /\ pump.length = 0
  /\ pump' = [pump EXCEPT !.asking = TRUE]
  /\ inbox' = Append(inbox, CARRIER)
  /\ UNCHANGED <<server, puts, received, sent>>

(* The interrupt fills the FIFO of the UART with what there is.            *)
irq_uart2_send(length) == Fit(FIFO, length)

(* One AwaitEvent of the carrier, which goes on after the bytes taken.     *)
Pump ==
  LET n     == irq_uart2_send(pump.length)
      bytes == [i \in 0 .. n - 1 |->
                 obuffers[pump.buffer_idx][pump.chunk + i]]
  IN  /\ ~pump.asking
      /\ pump.length > 0
      /\ sent' = IF \A i \in 0 .. n - 1 : bytes[i] = Plus(sent, i)
                 THEN Plus(sent, n) ELSE BYTES
      /\ pump' = [pump EXCEPT !.chunk = @ + n, !.length = @ - n]
      /\ UNCHANGED <<server, puts, inbox, received>>

-----------------------------------------------------------------------------
(* The server.                                                             *)

(* The entry of _term_try_fill: nothing to send and nothing to fill with.  *)
EnterFill(head, queue) ==
  pc' = IF head = 0 /\ queue = <<>> THEN "receive" ELSE "fill"

(* The end of _term_try_fill.                                              *)
AfterFill == IF carrier THEN "send" ELSE "receive"

(* Mutant: a request is queued in front.                                   *)
QueueFront(queue, x) == <<x>> \o queue

(* Mutant: a short string overtakes a long one.                            *)
QueueShort(queue, x) ==
  IF queue # <<>> /\ x.length < Head(queue).length
  THEN <<x>> \o queue
  ELSE Append(queue, x)

pbuf_produce(queue, x) == Append(queue, x)

(***************************************************************************)
(* PUTS: the request joins output_q.  If the carrier is still at the       *)
(* buffer that is to be filled next, the client waits.                     *)
(***************************************************************************)
ReceivePuts(c) ==
  LET request == [tid |-> c, first |-> received, length |-> puts[c]]
  IN  /\ pc = "receive"
      /\ inbox # <<>> /\ Head(inbox) = c
      /\ inbox' = Tail(inbox)
      /\ output_q' = pbuf_produce(output_q, request)
      /\ received' = Plus(received, puts[c])
      /\ IF obuffer_idx # carrier_idx
         THEN EnterFill(out_head, output_q')
         ELSE UNCHANGED pc
      /\ UNCHANGED <<obuffers, obuffer_idx, out_head, carrier_idx, carrier,
                     puts, pump, sent>>

ReceiveCarrier ==
  /\ pc = "receive"
  /\ inbox # <<>> /\ Head(inbox) = CARRIER
  /\ inbox' = Tail(inbox)
  /\ carrier' = TRUE
  /\ pc' = "send"
  /\ UNCHANGED <<obuffers, obuffer_idx, out_head, carrier_idx, output_q,
                 puts, pump, received, sent>>

(* Mutant: the buffer that the carrier pumps is filled too.                *)
NeverBusy(b) == FALSE

(* The carrier is at buffer b.                                             *)
Busy(b) == b = carrier_idx

(* Mutant: the client is let go at the first chunk.                        *)
ReplyAtFirstChunk(first, chunk) ==
  /\ output_q' = IF chunk = first.length
                 THEN Tail(output_q)
                 ELSE <<[first EXCEPT !.first = Plus(@, chunk),
                                      !.length = @ - chunk]>>
                        \o Tail(output_q)
  /\ puts' = [puts EXCEPT ![first.tid] = 0]

(* A chunk of the oldest string is copied; its client goes with the last.  *)
Copied(first, chunk) ==
  IF chunk = first.length
  THEN /\ output_q' = Tail(output_q)
       /\ puts' = [puts EXCEPT ![first.tid] = 0]
  ELSE /\ output_q' = <<[first EXCEPT !.first = Plus(@, chunk),
                                      !.length = @ - chunk]>>
                      \o Tail(output_q)
       /\ UNCHANGED puts

(***************************************************************************)
(* One round of the loop of _term_try_fill: copy what fits of the oldest   *)
(* string, let its client go when all of it is copied, and go on to the    *)
(* next buffer when this one is full, unless the carrier is at that one.   *)
(***************************************************************************)
FillChunk ==
  LET first == Head(output_q)
      space == OUTPUT_BUFFER_SIZE - out_head
      chunk == Fit(space, first.length)
      full  == chunk = space
      next  == NextBuffer(obuffer_idx)
  IN  /\ pc = "fill"
      /\ output_q # <<>>
      /\ obuffers' = [obuffers EXCEPT ![obuffer_idx] =
                       [o \in DOMAIN @ |->
                         IF o \in out_head .. out_head + chunk - 1
                         THEN Plus(first.first, o - out_head)
                         ELSE @[o]]]
      /\ Copied(first, chunk)
      /\ obuffer_idx' = IF full THEN next ELSE obuffer_idx
      /\ out_head' = IF full THEN 0 ELSE out_head + chunk
      /\ pc' = IF full /\ Busy(next) THEN AfterFill ELSE "fill"
      /\ UNCHANGED <<carrier_idx, carrier, inbox, pump, received, sent>>

FillDone ==
  /\ pc = "fill"
  /\ output_q = <<>>
  /\ pc' = AfterFill
  /\ UNCHANGED <<obuffers, obuffer_idx, out_head, carrier_idx, carrier,
                 output_q, puts, inbox, pump, received, sent>>

(* Mutant: the carrier stays at its buffer.                                *)
CarrierStays(length) ==
  pump' = [pump EXCEPT !.chunk = 0, !.length = length, !.asking = FALSE]

(* The carrier gets the length of the next buffer and switches to it.      *)
ReplyToCarrier(length) ==
  pump' = [buffer_idx |-> NextBuffer(pump.buffer_idx), chunk |-> 0,
           length |-> length, asking |-> FALSE]

(* Mutant: a buffer that is not full is kept.                              *)
FullOnly(b) == IF b = obuffer_idx THEN 0 ELSE OUTPUT_BUFFER_SIZE

(* The bytes to send of buffer b: what the server has put in the one that  *)
(* it fills, and all of any other.                                         *)
SizeOf(b) == IF b = obuffer_idx THEN out_head ELSE OUTPUT_BUFFER_SIZE

(***************************************************************************)
(* _term_try_send: the buffer after the one the carrier had is a full one, *)
(* or the one that is being filled.  If that one is empty the carrier goes *)
(* on waiting; otherwise the server moves on to the next buffer.           *)
(***************************************************************************)
TrySend ==
  LET next    == NextBuffer(carrier_idx)
      current == next = obuffer_idx
      size    == SizeOf(next)
  IN  /\ pc = "send"
      /\ IF size = 0
         THEN /\ pc' = "receive"
              /\ UNCHANGED <<obuffer_idx, out_head, carrier_idx, carrier,
                             pump>>
         ELSE /\ carrier_idx' = next
              /\ obuffer_idx' = IF current THEN NextBuffer(obuffer_idx)
                                ELSE obuffer_idx
              /\ out_head' = IF current THEN 0 ELSE out_head
              /\ carrier' = FALSE
              /\ ReplyToCarrier(size)
              /\ EnterFill(out_head', output_q)
      /\ UNCHANGED <<obuffers, output_q, puts, inbox, received, sent>>

Server ==
  \/ \E c \in Clients : ReceivePuts(c)
  \/ ReceiveCarrier
  \/ FillChunk
  \/ FillDone
  \/ TrySend

Carrier == CarrierAsks \/ Pump

Next ==
  \/ \E c \in Clients, len \in LENGTHS : term_put_string(c, len)
  \/ Server
  \/ Carrier

Spec == Init /\ [][Next]_vars

(* Server and carrier have priorities above most clients' and the UART     *)
(* goes on taking bytes.  Clients need not put anything.                   *)
FairSpec == Spec /\ WF_vars(Server) /\ WF_vars(Carrier)

-----------------------------------------------------------------------------
(* Properties.                                                             *)

(* The strings reach the UART whole, in the order in which the server      *)
(* received them, and no byte is lost, repeated or overwritten.            *)
OutputInOrder == sent \in Numbers

(* The server and the carrier count buffers apart and agree: while it      *)
(* pumps, the carrier is at the buffer that the server takes it to be at.  *)
SameBuffer == carrier_idx = pump.buffer_idx

(* The server never fills a buffer from which the carrier pumps.           *)
FillsAnotherBuffer ==
  [][pump.length > 0 =>
       obuffers'[pump.buffer_idx] = obuffers[pump.buffer_idx]]_vars

(* A client is let go only when all of its string is in the buffers.       *)
ClientsWait ==
  \A c \in Clients : puts[c] # 0 <=>
    \/ \E i \in DOMAIN inbox : inbox[i] = c
    \/ \E i \in DOMAIN output_q : output_q[i].tid = c

(* Every Puts returns.                                                     *)
EveryPutsReturns == \A c \in Clients : puts[c] # 0 ~> puts[c] = 0

(* If the clients stop putting, every byte goes out: none stays behind in  *)
(* a buffer for want of a message that would make the server send it.      *)
OutputDrains ==
  <>[](\A c \in Clients : puts[c] = 0) => <>[](sent = received)
=============================================================================

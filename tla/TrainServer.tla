---------------------------- MODULE TrainServer ----------------------------
(***************************************************************************)
(* The train server (train_server.c), its carrier and its notifier, the    *)
(* interrupts of UART1 (io.c) and the CTS line of the train controller.    *)
(*                                                                         *)
(* The bytes put, and the bytes the controller sends, are each numbered    *)
(* modulo BYTES, more than can be under way at once, so a byte's number    *)
(* tells its place.  A request is handled in one step: what the server     *)
(* does after a Reply is seen by nobody before it receives again.  Left    *)
(* out are the counts of bytes for the display, and get_train, which       *)
(* nothing calls.                                                          *)
(***************************************************************************)
EXTENDS CircularBuffer, FiniteSets

CONSTANTS
  Clients,
  NOBODY,        \* -1
  PAYLOAD,       \* the bytes of a request
  COMMANDS,      \* the lengths put: a byte, a command, a turnout command
  GETS,          \* the lengths got: a byte, a sensor bank
  NOTE,          \* the bytes that the notifier brings at a time
  BYTES,         \* the numbers of bytes start over here
  LINE_IS_SLOW   \* does the line stay down until the carrier awaits it?

CARRIER == "carrier"
NOTIFIER == "notifier"

ASSUME ClientsAssumption ==
  {NOBODY, CARRIER, NOTIFIER} \cap Clients = {}
ASSUME PayloadAssumption ==
  /\ PAYLOAD \in Nat /\ NOTE \in 1 .. PAYLOAD
  /\ COMMANDS \subseteq 1 .. PAYLOAD /\ GETS \subseteq 1 .. PAYLOAD
ASSUME BytesAssumption == BYTES \in Nat /\ BYTES > LENGTH
ASSUME LineAssumption == LINE_IS_SLOW \in BOOLEAN

VARIABLES
  train_out,     \* the server's buffer of bytes for the train
  train_in,      \* and of bytes from it
  get_tid, get_expecting,  \* who waits for how many bytes
  send_tid,      \* does the carrier wait?
  inbox,         \* requests the server has not received, in order
  client,        \* client -> "idle", "put" or "get"
  carrier,       \* where the carrier is, and the bytes it still has to send
  notifier,      \* where the notifier is, and how many bytes it has
  cts,           \* is the line up?
  busy,          \* has a byte been written that the line has not answered?
  put, sent,     \* the number of the next byte put, and of the next to send
  come, got,     \* the number of the next byte to come, and to be got
  aborted

server == <<train_out, train_in, get_tid, get_expecting, send_tid>>
uart == <<cts, busy, sent>>
vars == <<server, inbox, client, carrier, notifier, uart, put, come, got,
          aborted>>

Plus(n, k) == (n + k) % BYTES
Numbered(first, n) == [i \in 1 .. n |-> Plus(first, i - 1)]

\* Not yet sent, and come but not yet got.
Unsent == (put - sent) % BYTES
Unread == (come - got) % BYTES

Init ==
  /\ train_out = cbuf_init /\ train_in = cbuf_init
  /\ get_tid = NOBODY /\ get_expecting = 0
  /\ send_tid = FALSE
  /\ inbox = <<>>
  /\ client = [c \in Clients |-> "idle"]
  /\ carrier = [at |-> "ask", data |-> <<>>]
  /\ notifier = [at |-> "await", data |-> <<>>]
  /\ cts = TRUE /\ busy = FALSE
  /\ put = 0 /\ sent = 0 /\ come = 0 /\ got = 0
  /\ aborted = FALSE

Request(type, from, data) == [type |-> type, from |-> from, data |-> data]

Abort ==
  /\ aborted' = TRUE
  /\ UNCHANGED <<server, client, carrier, notifier, uart, put, come, got>>

-----------------------------------------------------------------------------
(* Bytes into and out of a buffer, one by one.                             *)

\* The buffer after the first n bytes of data went in.
Produced(cb, data) ==
  LET after[n \in 0 .. Len(data)] ==
        IF n = 0 THEN cb ELSE cbuf_produce(after[n - 1], data[n])
  IN  after[Len(data)]

\* The buffer after n bytes came out, and the bytes, oldest first.
Consumed(cb, size) ==
  LET after[n \in 0 .. size] ==
        IF n = 0 THEN [rest |-> cb, data |-> <<>>]
        ELSE [rest |-> cbuf_consume(after[n - 1].rest),
              data |-> Append(after[n - 1].data, cbuf_peek(after[n - 1].rest))]
  IN  after[size]

-----------------------------------------------------------------------------
(* The clients.                                                            *)

Call(c, type, data) ==
  /\ ~aborted
  /\ client[c] = "idle"
  /\ client' = [client EXCEPT ![c] = type]
  /\ inbox' = Append(inbox, Request(type, c, data))
  /\ UNCHANGED <<server, carrier, notifier, uart, come, got, aborted>>

(* put_train_char, put_train_cmd, put_train_turnout.  The buffer of bytes  *)
(* to send has no guard against more than it holds: a bound here.          *)
Put(c, size) ==
  /\ Unsent + size < LENGTH
  /\ Call(c, "put", Numbered(put, size))
  /\ put' = Plus(put, size)

(* get_train_char, get_train_bank.  Only the length of the data counts.    *)
Get(c, size) ==
  /\ Call(c, "get", Numbered(0, size))
  /\ UNCHANGED put

-----------------------------------------------------------------------------
(* The carrier and the line.                                               *)

CarrierAsks ==
  /\ ~aborted
  /\ carrier.at = "ask"
  /\ carrier' = [carrier EXCEPT !.at = "server"]
  /\ inbox' = Append(inbox, Request(CARRIER, CARRIER, <<>>))
  /\ UNCHANGED <<server, client, notifier, uart, put, come, got, aborted>>

CarrierGoes(from, to) ==
  /\ ~aborted
  /\ carrier.at = from
  /\ carrier' = [carrier EXCEPT !.at = to]
  /\ UNCHANGED <<server, inbox, client, notifier, uart, put, come, got,
                 aborted>>

(* After a byte: the next one, or the next request.                        *)
AfterByte(left) == IF left = <<>> THEN "ask" ELSE "cts"

(* Mutant: the level of the line is not looked at.                         *)
AwaitCtsBlind == CarrierGoes("cts", "on_cts")

(* AwaitEvent of UART1_CTS returns at once when the line is up.            *)
AwaitCts == CarrierGoes("cts", IF cts THEN "send" ELSE "on_cts")

(* Mutant: the carrier does not wait for the line to go down.              *)
NextAtOnce(left) == AfterByte(left)

(* A byte is written: the carrier is to await UART1_DOWN.                  *)
AfterSend(left) == "down"

(* The interrupt of UART1_SEND writes a byte.  A byte that is not the next *)
(* one shows as sent = BYTES.                                              *)
irq_uart1_send ==
  /\ ~aborted
  /\ carrier.at = "send"
  /\ carrier' = [at   |-> AfterSend(Tail(carrier.data)),
                 data |-> Tail(carrier.data)]
  /\ sent' = IF Head(carrier.data) = sent THEN Plus(sent, 1) ELSE BYTES
  /\ busy' = TRUE
  /\ UNCHANGED <<server, inbox, client, notifier, cts, put, come, got,
                 aborted>>

(* And that of UART1_DOWN when it is down.                                 *)
AwaitDown == CarrierGoes("down", IF cts THEN "on_down" ELSE AfterByte(carrier.data))

(* The modem interrupt lets the carrier go if it awaits the change.        *)
irq_uart1(event, next) ==
  carrier' = [carrier EXCEPT !.at = IF @ = event THEN next ELSE @]

(* The controller takes the byte and is not clear to receive another.      *)
LineFalls ==
  /\ ~aborted
  /\ cts /\ busy
  /\ cts' = FALSE /\ busy' = FALSE
  /\ irq_uart1("on_down", AfterByte(carrier.data))
  /\ UNCHANGED <<server, inbox, client, notifier, sent, put, come, got,
                 aborted>>

(***************************************************************************)
(* The code does not see a line that falls and rises between the carrier's *)
(* UART1_SEND and its UART1_DOWN, for the interrupt looks at the level and *)
(* only lets go who waits.  With LINE_IS_SLOW this does not happen: a byte *)
(* takes 4 ms, and only notifiers have a higher priority than the carrier. *)
(***************************************************************************)
LineRises ==
  /\ ~aborted
  /\ ~cts
  /\ LINE_IS_SLOW => carrier.at # "down"
  /\ cts' = TRUE
  /\ irq_uart1("on_cts", "send")
  /\ UNCHANGED <<server, inbox, client, notifier, busy, sent, put, come, got,
                 aborted>>

-----------------------------------------------------------------------------
(* The notifier.                                                           *)

(* The controller sends a byte, while the server has room for it.  Without *)
(* a task that waits it is lost, and the kernel stops ("UART1 dropped      *)
(* char").                                                                 *)
irq_uart1_recv ==
  /\ ~aborted
  /\ Unread < LENGTH - 1
  /\ IF notifier.at = "await"
     THEN /\ notifier' = [at |-> "woken", data |-> Append(notifier.data, come)]
          /\ come' = Plus(come, 1)
          /\ UNCHANGED <<server, inbox, client, carrier, uart, put, got,
                         aborted>>
     ELSE Abort /\ UNCHANGED inbox

(* The notifier awaits the next byte, or sends what it has.                *)
Notify ==
  /\ ~aborted
  /\ notifier.at = "woken"
  /\ IF Len(notifier.data) < NOTE
     THEN /\ notifier' = [notifier EXCEPT !.at = "await"]
          /\ UNCHANGED inbox
     ELSE /\ notifier' = [at |-> "server", data |-> <<>>]
          /\ inbox' = Append(inbox,
                             Request(NOTIFIER, NOTIFIER, notifier.data))
  /\ UNCHANGED <<server, client, carrier, uart, put, come, got, aborted>>

-----------------------------------------------------------------------------
(* The server.                                                             *)

Receive(type) ==
  /\ ~aborted
  /\ inbox # <<>>
  /\ Head(inbox).type = type
  /\ inbox' = Tail(inbox)

Received == Head(inbox)

(* What a reply to the carrier holds.                                      *)
Chunk(cb) == IF cbuf_count(cb) < PAYLOAD THEN cbuf_count(cb) ELSE PAYLOAD

(* The carrier gets what there is to send, or is kept waiting.             *)
ServeCarrier(cb) ==
  IF Chunk(cb) = 0
  THEN /\ train_out' = cb
       /\ send_tid' = TRUE
       /\ UNCHANGED carrier
  ELSE /\ train_out' = Consumed(cb, Chunk(cb)).rest
       /\ send_tid' = FALSE
       /\ carrier' = [at |-> "cts", data |-> Consumed(cb, Chunk(cb)).data]

ReceiveCarrier ==
  /\ Receive(CARRIER)
  /\ IF send_tid
     THEN Abort
     ELSE /\ ServeCarrier(train_out)
          /\ UNCHANGED <<train_in, get_tid, get_expecting, client, notifier,
                         uart, put, come, got, aborted>>

(* Mutant: the carrier is served only when it asks.                        *)
PutOnly(cb) == train_out' = cb /\ UNCHANGED <<send_tid, carrier>>

(* After a put: the carrier is served if it waits.                         *)
PutInto(cb) ==
  IF send_tid
  THEN ServeCarrier(cb)
  ELSE train_out' = cb /\ UNCHANGED <<send_tid, carrier>>

ReceivePut ==
  /\ Receive("put")
  /\ client' = [client EXCEPT ![Received.from] = "idle"]
  /\ PutInto(Produced(train_out, Received.data))
  /\ UNCHANGED <<train_in, get_tid, get_expecting, notifier, uart, put, come,
                 got, aborted>>

(* Mutant: the first byte comes first.                                     *)
FirstByteFirst(data) == data

(* The bytes are filled in from the end of the word, so that the first is  *)
(* the highest one of the number that the client reads.                    *)
AsNumber(data) == [i \in DOMAIN data |-> data[Len(data) + 1 - i]]

(* The client reads it from its highest byte on.  Bytes that are not the   *)
(* next ones show as got = BYTES.                                          *)
ts_deliver_request(cb, c, size) ==
  LET word == AsNumber(Consumed(cb, size).data)
  IN  /\ train_in' = Consumed(cb, size).rest
      /\ client' = [client EXCEPT ![c] = "idle"]
      /\ got' = IF \A i \in 1 .. size : word[size + 1 - i] = Plus(got, i - 1)
                THEN Plus(got, size) ELSE BYTES

(* Mutant: a second task takes the place of the one that waits.            *)
AlwaysFree == TRUE

(* One task may wait.                                                      *)
PlaceFree == get_tid = NOBODY

ReceiveGet ==
  LET size == Len(Received.data)
      c    == Received.from
  IN  /\ Receive("get")
      /\ \/ /\ cbuf_count(train_in) >= size
            /\ ts_deliver_request(train_in, c, size)
            /\ UNCHANGED <<get_tid, get_expecting, aborted>>
         \/ /\ cbuf_count(train_in) < size
            /\ PlaceFree
            /\ get_tid' = c
            /\ get_expecting' = size
            /\ UNCHANGED <<train_in, client, got, aborted>>
         \/ /\ cbuf_count(train_in) < size
            /\ ~PlaceFree
            /\ aborted' = TRUE
            /\ UNCHANGED <<get_tid, get_expecting, train_in, client, got>>
      /\ UNCHANGED <<train_out, send_tid, carrier, notifier, uart, put, come>>

(* There is enough for the waiting task.                                   *)
Enough(cb) == get_tid # NOBODY /\ cbuf_count(cb) >= get_expecting

ReceiveNotify ==
  LET after == Produced(train_in, Received.data)
  IN  /\ Receive(NOTIFIER)
      /\ notifier' = [notifier EXCEPT !.at = "await"]
      /\ IF Enough(after)
         THEN /\ ts_deliver_request(after, get_tid, get_expecting)
              /\ get_tid' = NOBODY
              /\ get_expecting' = 0
         ELSE /\ train_in' = after
              /\ UNCHANGED <<get_tid, get_expecting, client, got>>
      /\ UNCHANGED <<train_out, send_tid, carrier, uart, put, come, aborted>>

Server == ReceiveCarrier \/ ReceivePut \/ ReceiveGet \/ ReceiveNotify
Carrier == CarrierAsks \/ AwaitCts \/ irq_uart1_send \/ AwaitDown
Line == LineFalls \/ LineRises

Next ==
  \/ \E c \in Clients, size \in COMMANDS : Put(c, size)
  \/ \E c \in Clients, size \in GETS : Get(c, size)
  \/ Server
  \/ Carrier
  \/ Line
  \/ irq_uart1_recv
  \/ Notify

Spec == Init /\ [][Next]_vars

-----------------------------------------------------------------------------
(* Properties.                                                             *)

Numbers == 0 .. BYTES - 1

(* The train gets the bytes of all commands, each once and in the order in *)
(* which they were put.                                                    *)
CommandsInOrder == sent \in Numbers

(* guide.tex: "Between every UART1_SEND event the carrier ensures that the *)
(* clear to send line has both gone down and up": a byte is written only   *)
(* when the line is up and has answered the byte before.                   *)
OneByteAtATime == [][sent' # sent => cts /\ ~busy]_vars

(* What a client reads is the bytes the train sent, each once and in       *)
(* order, the first of them the highest.                                   *)
AnswersInOrder == got \in Numbers

(* The carrier is kept waiting only when there is nothing to send, and a   *)
(* client only when too little has come for it.                            *)
NobodyWaitsInVain ==
  /\ send_tid => carrier.at = "server" /\ cbuf_count(train_out) = 0
  /\ get_tid # NOBODY => /\ client[get_tid] = "get"
                         /\ cbuf_count(train_in) < get_expecting

(* A blocked client's request is in the inbox, once, or is the one that    *)
(* the server keeps.                                                       *)
EveryCallIsKept ==
  ~aborted => \A c \in Clients :
    LET requests == {i \in DOMAIN inbox : inbox[i].from = c}
    IN  Cardinality(requests) + (IF get_tid = c THEN 1 ELSE 0)
          = IF client[c] = "idle" THEN 0 ELSE 1

(* No change of a slow line is lost: the one that the carrier awaits is    *)
(* still to come, though the line changed at any moment of its other steps *)
(* and its next change wakes nobody else.                                  *)
AwaitedChangeComes ==
  /\ carrier.at = "on_cts" => ~cts
  /\ carrier.at = "on_down" => cts /\ busy
=============================================================================

---------------------------- MODULE Uart2Proofs ----------------------------
(***************************************************************************)
(* What holds of UART2's input, and of its handlers, for FIFOs of any      *)
(* depth, buffers of any length and any number of readers.                 *)
(*                                                                         *)
(*  - The handlers fit the device (HandlersFit), blocks being at most half *)
(*    of a FIFO and requests of any lengths.                               *)
(*  - Readers get the bytes that were typed, each once and in order        *)
(*    (InputComesInOrder).  ByteInv gives every byte its place: what was   *)
(*    typed is, from the oldest on, what the readers have got, what lies   *)
(*    in the server's buffer, what the notifier has sent, and what lies in *)
(*    the FIFO, unless the UART has lost a byte.                           *)
(*  - The UART, the handler and the notifier do what TermInput takes them  *)
(*    to do (NotifierSendsWhatWasTyped), by the same invariant.            *)
(***************************************************************************)
EXTENDS Uart2, SequenceTheorems, TLAPS

(* The fields that the argument needs have their types.                    *)
DeviceTypes ==
  /\ typed \in Int
  /\ rx \in Seq(Int)
  /\ silent \in BOOLEAN
  /\ awaits_send \in BOOLEAN
  /\ tx \in Nat
  /\ length \in Nat

(* No interrupt lets a handler run without its cause: the send interrupt   *)
(* is on only while the carrier awaits it, and the timeout is pending only *)
(* while bytes lie in the FIFO.                                            *)
CausesHold ==
  /\ "TIEN" \in ctlr => awaits_send
  /\ silent => rx # <<>>

DeviceInv == DeviceTypes /\ CausesHold /\ HandlersFitTheDevice

(* The device and the tasks: nothing here runs a handler.                  *)
LEMMA DeviceAndTasks ==
  ASSUME DeviceInv,
         \/ Device \/ AwaitRecv \/ AwaitSend \/ Server
         \/ \E r \in Readers : Reader(r)
         \/ \E len \in LENGTHS : CarrierGets(len)
  PROVE  DeviceInv'
<1> USE DEF DeviceInv, DeviceTypes, CausesHold, HandlersFitTheDevice
<1>1. CASE Type
  <2>1. typed' \in Int
    BY <1>1, BytesAssumption DEF Type, Plus
  <2>2. rx' \in Seq(Int) /\ (rx # <<>> => rx' # <<>>)
    <3>1. rx' = Append(rx, typed) \/ rx' = rx
      BY <1>1 DEF Type
    <3>2. Append(rx, typed) \in Seq(Int) /\ Append(rx, typed) # <<>>
      OBVIOUS
    <3> QED BY <3>1, <3>2
  <2> QED BY <1>1, <2>1, <2>2 DEF Type, send_vars
<1>2. CASE Silence
  BY <1>2 DEF Silence, server_vars, vars, send_vars
<1>3. CASE Transmit
  <2>1. tx' \in Nat /\ tx' <= UART_FIFO_SIZE
    BY <1>3, DepthAssumption DEF Transmit
  <2> QED BY <1>3, <2>1 DEF Transmit, server_vars, vars, uart_vars
<1>4. CASE AwaitRecv
  BY <1>4 DEF AwaitRecv, server_vars, vars, send_vars
<1>5. CASE AwaitSend
  BY <1>5 DEF AwaitSend, server_vars, vars
<1>6. CASE Server
  BY <1>6 DEF Server, ReceiveInput, ReceiveGetc, Receive, Stop,
              uart_vars, send_vars
<1>7. CASE \E r \in Readers : Reader(r)
  BY <1>7 DEF Reader, get_term_char, uart_vars, send_vars
<1>8. CASE \E len \in LENGTHS : CarrierGets(len)
  BY <1>8, LengthsAssumption DEF CarrierGets, server_vars, vars, uart_vars
<1> QED BY <1>1, <1>2, <1>3, <1>4, <1>5, <1>6, <1>7, <1>8 DEF Device

(* The receive handler, if bytes lie in the FIFO.                          *)
LEMMA RecvHandler ==
  ASSUME DeviceInv, rx # <<>>, irq_uart2_recv
  PROVE  DeviceInv'
<1> USE DEF DeviceInv, DeviceTypes, CausesHold, HandlersFitTheDevice
<1>1. CASE Deliver
  <2>1. rx' \in Seq(Int)
    <3>1. Len(ReadFifo) \in Nat
      BY DepthAssumption DEF ReadFifo
    <3> QED BY <1>1, <3>1 DEF Deliver, HandOver
  <2>2. silent' \in BOOLEAN /\ (silent' => rx' # <<>>)
    BY <1>1 DEF Deliver, HandOver
  <2> QED BY <1>1, <2>1, <2>2
          DEF Deliver, HandOver, NotifierSends, send_vars
<1>2. CASE NobodyWaits
  BY <1>2 DEF NobodyWaits, uvars, server_vars, vars, uart_vars, send_vars
<1>3. CASE RecvHalts
  BY <1>3 DEF RecvHalts, Halt, Stop, uart_vars, send_vars
<1> QED BY <1>1, <1>2, <1>3 DEF irq_uart2_recv

(* The send handler, if the FIFO is at most half full.                     *)
LEMMA SendHandler ==
  ASSUME DeviceInv, TIS, irq_uart2_send
  PROVE  DeviceInv'
<1> USE DEF DeviceInv, DeviceTypes, CausesHold, HandlersFitTheDevice
<1>1. awaits_send /\ 2 * tx <= UART_FIFO_SIZE
  BY DEF TIS
<1>2. CASE PutBlock /\ ctlr' = ctlr \ {"TIEN"}
            /\ UNCHANGED <<server_vars, rx, silent, overrun, awaits_recv>>
  <2>1. /\ Count \in Nat /\ length - Count \in Nat
        /\ tx + Count <= UART_FIFO_SIZE
    <3>1. Count \in Nat /\ Count <= BLOCK /\ Count <= length
      BY DepthAssumption DEF Count
    <3> QED BY <1>1, <3>1, DepthAssumption
  <2>2. DeviceTypes'
    <3>1. awaits_send' \in BOOLEAN
      BY <1>2, Zenon DEF PutBlock
    <3>2. tx' \in Nat /\ length' \in Nat
      BY <1>2, <2>1 DEF PutBlock
    <3> QED BY <1>2, <3>1, <3>2 DEF server_vars, vars
  <2>3. CausesHold'
    <3>1. "TIEN" \notin ctlr'
      BY <1>2
    <3> QED BY <1>2, <3>1
  <2>4. HandlersFitTheDevice'
    BY <1>2, <2>1 DEF PutBlock, server_vars, vars
  <2> QED BY <2>2, <2>3, <2>4
<1>3. CASE overrun /\ Halt("halted")
  BY <1>3 DEF Halt, Stop, uart_vars, send_vars
<1> QED BY <1>1, <1>2, <1>3 DEF irq_uart2_send

(* ksyscall_irq finds the handler of an interrupt that is pending.         *)
LEMMA Handlers ==
  ASSUME DeviceInv, Interrupt
  PROVE  DeviceInv'
<1>1. CASE RIS /\ irq_uart2_recv
  <2>1. rx # <<>>
    BY <1>1, DepthAssumption DEF RIS
  <2> QED BY <1>1, <2>1, RecvHandler
<1>2. CASE TIS /\ irq_uart2_send
  BY <1>2, SendHandler
<1>3. CASE RTIS /\ irq_uart2
  <2>1. rx # <<>> /\ irq_uart2_recv
    BY <1>3 DEF RTIS, irq_uart2, DeviceInv, CausesHold
  <2> QED BY <2>1, RecvHandler
<1> QED BY <1>1, <1>2, <1>3 DEF Interrupt

(* At the start.                                                           *)
LEMMA DeviceInit == UInit => DeviceInv
<1> SUFFICES ASSUME UInit PROVE DeviceInv
  OBVIOUS
<1>1. DeviceTypes
  <2>1. silent \in BOOLEAN /\ awaits_send \in BOOLEAN
    BY Zenon DEF UInit
  <2>2. rx \in Seq(Int)
    BY DEF UInit
  <2> QED BY <2>1, <2>2 DEF UInit, Init, DeviceTypes
<1>2. CausesHold
  <2>1. "TIEN" \notin ctlr /\ ~silent
    BY DEF UInit
  <2> QED BY <2>1 DEF CausesHold
<1>3. HandlersFitTheDevice
  BY DepthAssumption DEF UInit, Init, HandlersFitTheDevice
<1> QED BY <1>1, <1>2, <1>3 DEF DeviceInv

(* In every step.                                                          *)
LEMMA DeviceStep == DeviceInv /\ [UNext]_uvars => DeviceInv'
<1> SUFFICES ASSUME DeviceInv, [UNext]_uvars PROVE DeviceInv'
  OBVIOUS
<1>1. CASE Interrupt
  BY <1>1, Handlers
<1>2. CASE UNCHANGED uvars
  BY <1>2 DEF uvars, server_vars, vars, uart_vars, send_vars,
              DeviceInv, DeviceTypes, CausesHold, HandlersFitTheDevice
<1> QED BY <1>1, <1>2, DeviceAndTasks DEF UNext

(***************************************************************************)
(* The handlers of UART2 run only for the causes that they assert, and the *)
(* transmit FIFO never overflows: two interrupts of one controller and a   *)
(* general one of the other, in the order in which ksyscall_irq finds them.*)
(***************************************************************************)
THEOREM HandlersFit == USpec => []HandlersFitTheDevice
<1>1. UInit => DeviceInv
  BY DeviceInit
<1>2. DeviceInv /\ [UNext]_uvars => DeviceInv'
  BY DeviceStep
<1>3. DeviceInv => HandlersFitTheDevice
  BY DEF DeviceInv
<1> QED BY <1>1, <1>2, <1>3, PTL DEF USpec

-----------------------------------------------------------------------------
(* Arithmetic modulo a number.                                             *)

(* Quotient and remainder.                                                 *)
LEMMA DivMod ==
  ASSUME NEW a \in Int, NEW m \in Nat \ {0}
  PROVE  /\ a = m * (a \div m) + (a % m)
         /\ a % m \in 0 .. m - 1
         /\ a \div m \in Int
BY Z3

(* Zero is the only multiple of m below m.                                 *)
LEMMA SmallMultiple ==
  ASSUME NEW k \in Int, NEW m \in Nat \ {0}, m * k < m, -m < m * k
  PROVE  k = 0
<1>1. CASE k >= 1
  <2>1. m * k >= m
    BY <1>1, Z3
  <2> QED BY <2>1
<1>2. CASE k <= -1
  <2>1. m * k <= -m
    BY <1>2, Z3
  <2> QED BY <2>1
<1> QED BY <1>1, <1>2

(* The remainder is unique.                                                *)
LEMMA ModIs ==
  ASSUME NEW a \in Int, NEW m \in Nat \ {0}, NEW q \in Int,
         NEW r \in 0 .. m - 1, a = m * q + r
  PROVE  a % m = r
<1> DEFINE d == a \div m
           k == q - d
<1>1. a = m * d + (a % m) /\ a % m \in 0 .. m - 1 /\ d \in Int
  BY DivMod
<1>2. m * k = (a % m) - r
  BY <1>1, Z3
<1>3. k \in Int /\ m * k < m /\ -m < m * k
  BY <1>1, <1>2
<1>4. m * k = 0
  BY <1>3, SmallMultiple
<1> QED
  BY <1>1, <1>2, <1>4

(* A remainder may be taken early.                                         *)
LEMMA PlusMod ==
  ASSUME NEW a \in Int, NEW b \in Int, NEW m \in Nat \ {0}
  PROVE  ((a % m) + b) % m = (a + b) % m
<1> DEFINE c == (a % m) + b
           q == (a \div m) + (c \div m)
<1>1. /\ a = m * (a \div m) + (a % m)
      /\ a % m \in 0 .. m - 1 /\ a \div m \in Int
  BY DivMod
<1>2. c \in Int
  BY <1>1
<1>3. c = m * (c \div m) + (c % m) /\ c % m \in 0 .. m - 1 /\ c \div m \in Int
  <2> HIDE DEF c
  <2> QED BY <1>2, DivMod
<1>4. a + b = m * q + (c % m) /\ q \in Int /\ a + b \in Int
  BY <1>1, <1>3, Z3
<1> HIDE DEF q
<1> QED
  BY <1>3, <1>4, ModIs

(* The number of the byte typed at position n.                             *)
Number(n) == n % BYTES

(* Some byte can be under way.                                             *)
LEMMA BytesIsPositive == BYTES \in Nat \ {0}
BY BytesAssumption

(* The number of a position further on.                                    *)
LEMMA NumberPlus ==
  ASSUME NEW n \in Nat, NEW k \in Nat
  PROVE  /\ Number(n) \in 0 .. BYTES - 1
         /\ Plus(Number(n), k) = Number(n + k)
<1>1. n % BYTES \in 0 .. BYTES - 1
  BY BytesIsPositive, DivMod
<1>2. ((n % BYTES) + k) % BYTES = (n + k) % BYTES
  <2>1. n \in Int /\ k \in Int
    OBVIOUS
  <2> QED BY <2>1, BytesIsPositive, PlusMod, Zenon
<1> QED
  BY <1>1, <1>2 DEF Number, Plus

(* How many bytes lie between two positions.                               *)
LEMMA NumbersApart ==
  ASSUME NEW n \in Nat, NEW m \in Nat, n <= m, m <= n + ON_THE_WAY
  PROVE  (Number(m) - Number(n)) % BYTES = m - n
<1>0. BYTES \in Nat \ {0} /\ ON_THE_WAY \in Nat /\ ON_THE_WAY < BYTES
  BY BytesIsPositive, OnTheWayAssumption
<1> DEFINE q == (n \div BYTES) - (m \div BYTES)
           a == Number(m) - Number(n)
<1>1. /\ n = BYTES * (n \div BYTES) + (n % BYTES) /\ n \div BYTES \in Int
      /\ m = BYTES * (m \div BYTES) + (m % BYTES) /\ m \div BYTES \in Int
      /\ n % BYTES \in Int /\ m % BYTES \in Int
  BY <1>0, DivMod
<1>2. a = BYTES * q + (m - n) /\ a \in Int /\ q \in Int
  BY <1>0, <1>1, Z3 DEF Number
<1>3. m - n \in 0 .. BYTES - 1
  BY <1>0
<1> HIDE DEF a, q
<1>4. a % BYTES = m - n
  BY <1>0, <1>2, <1>3, ModIs
<1> QED BY <1>4 DEF a

(* A sequence that has grown at its end.                                   *)
LEMMA AppendIs ==
  ASSUME NEW S, NEW s \in Seq(S), NEW x \in S, NEW n, n = Append(s, x)
  PROVE  /\ n \in Seq(S) /\ n # <<>>
         /\ Len(s) \in Nat /\ Len(n) = Len(s) + 1
         /\ DOMAIN s = 1 .. Len(s) /\ DOMAIN n = 1 .. Len(s) + 1
         /\ n[Len(s) + 1] = x
         /\ \A i \in DOMAIN s : n[i] = s[i]
BY AppendProperties, LenProperties

(* A sequence that has lost its head.                                      *)
LEMMA TailIs ==
  ASSUME NEW S, NEW s \in Seq(S), s # <<>>, NEW n, n = Tail(s)
  PROVE  /\ n \in Seq(S)
         /\ Head(s) = s[1] /\ Head(s) \in S /\ 1 \in DOMAIN s
         /\ Len(s) \in Nat \ {0} /\ Len(n) = Len(s) - 1
         /\ DOMAIN s = 1 .. Len(s) /\ DOMAIN n = 1 .. Len(s) - 1
         /\ \A i \in DOMAIN n : n[i] = s[i + 1]
<1>1. Len(s) \in Nat /\ DOMAIN s = 1 .. Len(s) /\ s \in [1 .. Len(s) -> S]
  BY LenProperties
<1>2. Len(s) # 0
  BY <1>1, EmptySeq
<1> QED
  BY <1>1, <1>2, HeadTailProperties

-----------------------------------------------------------------------------
(* The buffer.  Its head may be at the end, which means its first slot.    *)

Buffers == [head : 0 .. LENGTH, tail : Offsets, count : Offsets,
            buffer : [Offsets -> Int]]

(* The slot of the i-th byte, counted from the oldest, which is byte 0.    *)
Slot(cb, i) ==
  IF cb.tail + i < LENGTH THEN cb.tail + i ELSE cb.tail + i - LENGTH

At(cb, i) == cb.buffer[Slot(cb, i)]

(* The head is where the next byte belongs.                                *)
Proper(cb) == cb \in Buffers /\ Around(cb.head) = Slot(cb, cb.count)

(* Bytes of the buffer have slots of their own.                            *)
LEMMA SlotIs ==
  ASSUME NEW cb \in Buffers, NEW i \in Offsets
  PROVE  /\ Slot(cb, i) \in Offsets
         /\ \A j \in Offsets : Slot(cb, i) = Slot(cb, j) => i = j
<1>1. cb.tail \in Offsets
  BY DEF Buffers
<1> QED BY <1>1, LengthAssumption DEF Slot, Offsets

(* The oldest byte goes.                                                   *)
LEMMA ConsumeIs ==
  ASSUME NEW cb, Proper(cb), cb.count # 0
  PROVE  LET n == cbuf_consume(cb)
         IN  /\ Proper(n) /\ n.count = cb.count - 1
             /\ \A i \in 0 .. n.count - 1 : At(n, i) = At(cb, i + 1)
             /\ cbuf_peek(cb) = At(cb, 0)
<1> DEFINE n == cbuf_consume(cb)
           t == cb.tail
           k == cb.count
<1>1. /\ n.head = cb.head /\ n.tail = Around(t + 1)
      /\ n.count = k - 1 /\ n.buffer = cb.buffer
      /\ n = [head |-> n.head, tail |-> n.tail, count |-> n.count,
              buffer |-> n.buffer]
  BY DEF cbuf_consume
<1>2. /\ cb.head \in 0 .. LENGTH /\ cb.buffer \in [Offsets -> Int]
      /\ t \in Nat /\ t < LENGTH
      /\ k \in Nat \ {0} /\ k < LENGTH /\ LENGTH \in Nat /\ LENGTH > 1
  BY LengthAssumption DEF Proper, Buffers, Offsets
<1> HIDE DEF n, t, k
<1>3. /\ n.tail = IF t + 1 = LENGTH THEN 0 ELSE t + 1
      /\ n.tail \in Offsets /\ n.count \in Offsets
  BY <1>1, <1>2 DEF Around, Offsets
<1>4. n \in Buffers
  BY <1>1, <1>2, <1>3 DEF Buffers
<1>5. ASSUME NEW i \in 0 .. LENGTH - 2 PROVE Slot(n, i) = Slot(cb, i + 1)
  <2>1. (IF n.tail + i < LENGTH THEN n.tail + i ELSE n.tail + i - LENGTH) =
        (IF t + (i + 1) < LENGTH THEN t + (i + 1) ELSE t + (i + 1) - LENGTH)
    <3>1. CASE t + 1 = LENGTH
      BY <1>2, <1>3, <3>1
    <3>2. CASE t + 1 # LENGTH
      BY <1>2, <1>3, <3>2
    <3> QED BY <3>1, <3>2
  <2> QED BY <2>1 DEF Slot, t
<1>6. /\ k - 1 \in 0 .. LENGTH - 2 /\ (k - 1) + 1 = k
      /\ \A i \in 0 .. (k - 1) - 1 : i \in 0 .. LENGTH - 2
  BY <1>2
<1>7. Around(n.head) = Slot(n, n.count)
  BY <1>1, <1>5, <1>6 DEF Proper, k
<1>8. \A i \in 0 .. n.count - 1 : At(n, i) = At(cb, i + 1)
  BY <1>1, <1>5, <1>6 DEF At
<1>9. cbuf_peek(cb) = At(cb, 0)
  BY <1>2 DEF cbuf_peek, At, Slot, t
<1> QED BY <1>1, <1>4, <1>7, <1>8, <1>9 DEF Proper, n, k

(* Where a head ends up that goes on by l slots, and which they are.       *)
LEMMA HeadGoesOn ==
  ASSUME NEW n \in Nat, NEW h \in Nat, NEW t \in Nat, NEW k \in Nat,
         NEW l \in Nat, h <= n, t < n, k + l < n,
         (IF h = n THEN 0 ELSE h) = (IF t + k < n THEN t + k ELSE t + k - n),
         NEW e, e = IF h + l <= n THEN h + l ELSE l - (n - h)
  PROVE  /\ e \in 0 .. n
         /\ (IF e = n THEN 0 ELSE e) =
              IF t + (k + l) < n THEN t + (k + l) ELSE t + (k + l) - n
<1>1. \/ h = n /\ t + k = n
      \/ h = n /\ t = 0 /\ k = 0
      \/ h < n /\ h = t + k
      \/ h < n /\ h = t + k - n
  OBVIOUS
<1>2. CASE h + l <= n
  BY <1>1, <1>2
<1>3. CASE ~(h + l <= n)
  BY <1>1, <1>3
<1> QED BY <1>2, <1>3

(* The slots from the head on are those that follow the newest byte.       *)
LEMMA SlotsFollow ==
  ASSUME NEW n \in Nat, NEW h \in Nat, NEW t \in Nat, NEW k \in Nat,
         NEW l \in Nat, h <= n, t < n, k + l < n,
         (IF h = n THEN 0 ELSE h) = (IF t + k < n THEN t + k ELSE t + k - n),
         NEW j \in 1 .. l, NEW v,
         v = IF t + (k + j - 1) < n THEN t + (k + j - 1)
             ELSE t + (k + j - 1) - n
  PROVE  v \in 0 .. n - 1 /\ (h + j - 1 = v \/ h + j - 1 = n + v)
<1>1. \/ h = n /\ t + k = n
      \/ h = n /\ t = 0 /\ k = 0
      \/ h < n /\ h = t + k
      \/ h < n /\ h = t + k - n
  OBVIOUS
<1> QED BY <1>1

(* A string that there is room for goes in, wherever the head is.          *)
LEMMA BulkIs ==
  ASSUME NEW cb, Proper(cb), NEW s \in Seq(Int), cb.count + Len(s) < LENGTH
  PROVE  LET n == cbuf_bulk_produce(cb, s)
         IN  /\ Proper(n) /\ n.count = cb.count + Len(s)
             /\ \A i \in 0 .. cb.count - 1 : At(n, i) = At(cb, i)
             /\ \A j \in 1 .. Len(s) : At(n, cb.count + j - 1) = s[j]
<1> DEFINE n == cbuf_bulk_produce(cb, s)
           slot(i) == (cb.head + i - 1) % LENGTH
           t == cb.tail
           k == cb.count
           h == cb.head
           l == Len(s)
<1>1. /\ n.head = IF h + l <= LENGTH THEN h + l ELSE l - (LENGTH - h)
      /\ n.tail = t /\ n.count = (k + l) % LENGTH
      /\ n.buffer = [o \in Offsets |->
                       IF \E i \in 1 .. l : slot(i) = o
                       THEN s[CHOOSE i \in 1 .. l : slot(i) = o]
                       ELSE cb.buffer[o]]
      /\ n = [head |-> n.head, tail |-> n.tail, count |-> n.count,
              buffer |-> n.buffer]
  BY DEF cbuf_bulk_produce
<1>2. /\ h \in Nat /\ h <= LENGTH /\ cb.buffer \in [Offsets -> Int]
      /\ t \in Nat /\ t < LENGTH /\ k \in Nat /\ k < LENGTH
      /\ LENGTH \in Nat \ {0} /\ LENGTH > 1
      /\ cb \in Buffers
  BY LengthAssumption DEF Proper, Buffers, Offsets
<1>3. l \in Nat /\ \A i \in 1 .. l : s[i] \in Int
  BY LenProperties
<1>4. k + l < LENGTH
  OBVIOUS
<1>5. (IF h = LENGTH THEN 0 ELSE h) =
        (IF t + k < LENGTH THEN t + k ELSE t + k - LENGTH)
  BY DEF Proper, Around, Slot
<1> HIDE DEF n, t, k, h, l
<1>6. ASSUME NEW j \in 1 .. l
      PROVE  slot(j) = Slot(cb, k + j - 1) /\ k + j - 1 \in Offsets
  <2> DEFINE p == h + j - 1
             v == IF t + (k + j - 1) < LENGTH THEN t + (k + j - 1)
                  ELSE t + (k + j - 1) - LENGTH
  <2>1. /\ p \in Int /\ v \in 0 .. LENGTH - 1
        /\ p = LENGTH * 0 + v \/ p = LENGTH * 1 + v
    <3>1. v \in 0 .. LENGTH - 1 /\ (p = v \/ p = LENGTH + v)
      BY <1>2, <1>3, <1>4, <1>5, SlotsFollow
    <3> HIDE DEF p, v
    <3> QED BY <1>2, <3>1
  <2>2. k + j - 1 \in Offsets
    BY <1>2, <1>3, <1>4 DEF Offsets
  <2>3. 0 \in Int /\ 1 \in Int
    OBVIOUS
  <2>4. v = Slot(cb, k + j - 1) /\ slot(j) = p % LENGTH
    BY DEF Slot, t, h
  <2> HIDE DEF p, v, slot
  <2>5. p % LENGTH = v
    BY <1>2, <2>1, <2>3, ModIs
  <2> QED BY <2>2, <2>4, <2>5
<1> HIDE DEF slot
<1>7. n.count = k + l /\ n.count \in Offsets
  <2>1. /\ k + l \in Int /\ k + l \in 0 .. LENGTH - 1 /\ 0 \in Int
        /\ k + l = LENGTH * 0 + (k + l)
    BY <1>2, <1>3, <1>4
  <2>2. (k + l) % LENGTH = k + l
    BY <1>2, <2>1, ModIs
  <2> QED BY <1>1, <2>1, <2>2 DEF Offsets
<1>8. n.buffer \in [Offsets -> Int]
  <2>1. ASSUME NEW o \in Offsets
        PROVE  (IF \E i \in 1 .. l : slot(i) = o
                THEN s[CHOOSE i \in 1 .. l : slot(i) = o]
                ELSE cb.buffer[o]) \in Int
    <3>1. (\E i \in 1 .. l : slot(i) = o) =>
            (CHOOSE i \in 1 .. l : slot(i) = o) \in 1 .. l
      OBVIOUS
    <3> QED BY <1>2, <1>3, <3>1
  <2> QED BY <1>1, <2>1
<1>9. n.head \in 0 .. LENGTH /\
      (IF n.head = LENGTH THEN 0 ELSE n.head) =
        (IF t + (k + l) < LENGTH THEN t + (k + l) ELSE t + (k + l) - LENGTH)
  <2> DEFINE e == n.head
  <2>1. e = IF h + l <= LENGTH THEN h + l ELSE l - (LENGTH - h)
    BY <1>1
  <2>2. h \in Nat /\ h <= LENGTH /\ t \in Nat /\ t < LENGTH /\ k \in Nat
        /\ LENGTH \in Nat
    BY <1>2
  <2> HIDE DEF e
  <2>3. /\ e \in 0 .. LENGTH
        /\ (IF e = LENGTH THEN 0 ELSE e) =
             IF t + (k + l) < LENGTH THEN t + (k + l)
             ELSE t + (k + l) - LENGTH
    BY <1>3, <1>4, <1>5, <2>1, <2>2, HeadGoesOn
  <2> QED BY <2>3 DEF e
<1>10. Proper(n)
  <2>1. n \in Buffers
    <3>1. n.tail \in Offsets
      BY <1>1, <1>2 DEF Offsets
    <3> QED BY <1>1, <1>7, <1>8, <1>9, <3>1 DEF Buffers
  <2>2. Around(n.head) = Slot(n, n.count)
    BY <1>1, <1>7, <1>9 DEF Around, Slot
  <2> QED BY <2>1, <2>2 DEF Proper
<1>11. \A i : Slot(n, i) = Slot(cb, i)
  BY <1>1 DEF Slot, t
<1>12. ASSUME NEW i \in 0 .. k - 1 PROVE At(n, i) = At(cb, i)
  <2>1. i \in Offsets /\ \A j \in 1 .. l : i # k + j - 1
    BY <1>2, <1>3 DEF Offsets
  <2>2. Slot(cb, i) \in Offsets /\ \A j \in 1 .. l : slot(j) # Slot(cb, i)
    BY <1>2, <1>6, <2>1, SlotIs
  <2> QED BY <1>1, <1>11, <2>2 DEF At
<1>13. ASSUME NEW j \in 1 .. l PROVE At(n, k + j - 1) = s[j]
  <2>1. slot(j) \in Offsets /\ k + j - 1 \in Offsets
        /\ slot(j) = Slot(cb, k + j - 1)
    BY <1>2, <1>6, SlotIs
  <2> DEFINE x == CHOOSE i \in 1 .. l : slot(i) = slot(j)
  <2>2. x \in 1 .. l /\ slot(x) = slot(j)
    OBVIOUS
  <2> HIDE DEF x
  <2>3. k + x - 1 \in Offsets /\ slot(x) = Slot(cb, k + x - 1)
    BY <1>6, <2>2
  <2>4. k + x - 1 = k + j - 1
    BY <1>2, <2>1, <2>2, <2>3, SlotIs
  <2>5. x = j
    BY <1>2, <1>3, <2>2, <2>4
  <2>6. n.buffer[slot(j)] = s[x]
    BY <1>1, <2>1 DEF x
  <2> QED BY <1>11, <2>1, <2>5, <2>6 DEF At
<1> QED BY <1>7, <1>10, <1>12, <1>13 DEF n, k, l

(* A single byte goes in when the head is at a slot.                       *)
LEMMA ProduceIs ==
  ASSUME NEW cb, Proper(cb), HeadInside(cb), NEW c \in Int,
         cb.count + 1 < LENGTH
  PROVE  LET n == cbuf_produce(cb, c)
         IN  /\ Proper(n) /\ n.count = cb.count + 1
             /\ \A i \in 0 .. cb.count - 1 : At(n, i) = At(cb, i)
             /\ At(n, cb.count) = c
<1> DEFINE n == cbuf_produce(cb, c)
           t == cb.tail
           k == cb.count
           h == cb.head
<1>1. /\ n.head = Around(h + 1) /\ n.tail = t
      /\ n.count = (k + 1) % LENGTH
      /\ n.buffer = [cb.buffer EXCEPT ![h] = c]
      /\ n = [head |-> n.head, tail |-> n.tail, count |-> n.count,
              buffer |-> n.buffer]
  BY DEF cbuf_produce
<1>2. /\ h \in Offsets /\ cb.buffer \in [Offsets -> Int]
      /\ h \in Nat /\ h < LENGTH
      /\ t \in Nat /\ t < LENGTH /\ k \in Nat /\ k < LENGTH /\ k \in Offsets
      /\ LENGTH \in Nat \ {0} /\ LENGTH > 1
      /\ cb \in Buffers
  BY LengthAssumption DEF Proper, Buffers, Offsets, HeadInside
<1>3. k + 1 < LENGTH
  OBVIOUS
<1>4. h = IF t + k < LENGTH THEN t + k ELSE t + k - LENGTH
  BY <1>2 DEF Proper, Around, Slot
<1>5. h = Slot(cb, k)
  BY <1>4 DEF Slot, t
<1> HIDE DEF n, t, k, h
<1>6. n.count = k + 1 /\ n.count \in Offsets
  <2>1. /\ k + 1 \in Int /\ k + 1 \in 0 .. LENGTH - 1 /\ 0 \in Int
        /\ k + 1 = LENGTH * 0 + (k + 1)
    BY <1>2, <1>3
  <2>2. (k + 1) % LENGTH = k + 1
    BY <1>2, <2>1, ModIs
  <2> QED BY <1>1, <2>1, <2>2 DEF Offsets
<1>7. n.head \in 0 .. LENGTH /\
      (IF n.head = LENGTH THEN 0 ELSE n.head) =
        (IF t + (k + 1) < LENGTH THEN t + (k + 1) ELSE t + (k + 1) - LENGTH)
  BY <1>1, <1>2, <1>3, <1>4 DEF Around
<1>8. Proper(n)
  <2>1. n \in Buffers
    <3>1. n.tail \in Offsets /\ n.buffer \in [Offsets -> Int]
      BY <1>1, <1>2 DEF Offsets
    <3> QED BY <1>1, <1>6, <1>7, <3>1 DEF Buffers
  <2>2. Around(n.head) = Slot(n, n.count)
    BY <1>1, <1>6, <1>7 DEF Around, Slot
  <2> QED BY <2>1, <2>2 DEF Proper
<1>9. \A i : Slot(n, i) = Slot(cb, i)
  BY <1>1 DEF Slot, t
<1>10. ASSUME NEW i \in 0 .. k - 1 PROVE At(n, i) = At(cb, i)
  <2>1. i \in Offsets /\ i # k
    BY <1>2 DEF Offsets
  <2>2. Slot(cb, i) \in Offsets /\ Slot(cb, i) # h
    BY <1>2, <1>5, <2>1, SlotIs
  <2> QED BY <1>1, <1>2, <1>9, <2>2 DEF At
<1>11. At(n, k) = c
  BY <1>1, <1>2, <1>5, <1>9 DEF At
<1> QED BY <1>6, <1>8, <1>10, <1>11 DEF n, k

-----------------------------------------------------------------------------
(* The bytes on their way to the readers.                                  *)

(* The bytes of a string, and of a buffer, are those from position n on.   *)
Carries(data, n) == \A k \in DOMAIN data : data[k] = Number(n + k - 1)
Holds(cb, n) ==
  /\ Proper(cb)
  /\ \A i \in 0 .. cb.count - 1 : At(cb, i) = Number(n + i)

Requests == [from : Readers \cup {NOTIFIER}, length : Nat]

(* The notifier has at most one request in the inbox, for what is in its   *)
(* array.                                                                  *)
InboxOK ==
  /\ inbox \in Seq(Requests)
  /\ \A i, j \in DOMAIN inbox :
       inbox[i].from = NOTIFIER /\ inbox[j].from = NOTIFIER => i = j
  /\ \A i \in DOMAIN inbox : inbox[i].from = NOTIFIER =>
       inbox[i].length = Len(input) /\ input # <<>>

(* What the notifier has sent and the server has not yet taken.            *)
Pending == IF Notifying THEN input ELSE <<>>

(* t bytes were typed, s of them were handed over, and g of these were     *)
(* got: the buffer and then the notifier have those from g on, the FIFO    *)
(* those from s on, unless one of them was lost.                           *)
Placed(g, s, t) ==
  /\ g \in Nat /\ s \in Nat /\ t \in Nat
  /\ s <= t /\ t <= g + ON_THE_WAY
  /\ got = Number(g) /\ typed = Number(t)
  /\ Holds(input_q, g)
  /\ s = g + input_q.count + Len(Pending)
  /\ Carries(Pending, g + input_q.count)
  /\ ~overrun => t = s + Len(rx) /\ Carries(rx, s)

ByteInv ==
  /\ BytesInOrder
  /\ pc = "running" => /\ InboxOK
                       /\ input \in Seq(Int)
                       /\ \E g, s, t : Placed(g, s, t)

(* Positions and lengths are numbers.                                      *)
LEMMA PlacedIs ==
  ASSUME input \in Seq(Int), rx \in Seq(Int),
         NEW g, NEW s, NEW t, Placed(g, s, t)
  PROVE  /\ Pending \in Seq(Int) /\ Len(Pending) \in Nat
         /\ input_q.count \in Nat /\ Len(rx) \in Nat
         /\ g <= s /\ g <= t
<1>1. Pending \in Seq(Int)
  <2>1. <<>> \in Seq(Int)
    OBVIOUS
  <2> QED BY <2>1 DEF Pending
<1>2. Len(Pending) \in Nat /\ Len(rx) \in Nat
  BY <1>1, LenProperties
<1>3. input_q.count \in Nat
  BY LengthAssumption DEF Placed, Holds, Proper, Buffers, Offsets
<1> DEFINE k == input_q.count
           l == Len(Pending)
<1>4. g \in Nat /\ s = g + k + l /\ s <= t /\ t \in Nat
  BY DEF Placed
<1> HIDE DEF k, l
<1>5. g <= s /\ g <= t
  BY <1>2, <1>3, <1>4 DEF k, l
<1> QED BY <1>1, <1>2, <1>3, <1>5

(* The invariant holds if every byte has its place.                        *)
LEMMA BytesFrom ==
  ASSUME InboxOK', input' \in Seq(Int), NEW g, NEW s, NEW t, Placed(g, s, t)'
  PROVE  ByteInv'
<1>1. g \in Nat /\ 0 \in Nat /\ got' = Number(g)
  BY DEF Placed
<1>2. Number(g) \in 0 .. BYTES - 1
  BY <1>1, NumberPlus
<1> QED BY <1>1, <1>2 DEF ByteInv, BytesInOrder

(* A step that moves no byte and changes no request.                       *)
LEMMA BytesStay ==
  ASSUME ByteInv, pc = "running",
         UNCHANGED <<input_q, input, inbox, got, typed, rx, overrun>>
  PROVE  ByteInv'
<1>1. PICK g, s, t : Placed(g, s, t)
  BY DEF ByteInv
<1>2. Placed(g, s, t)'
  BY <1>1 DEF Placed, Pending, Notifying
<1>3. InboxOK' /\ input' \in Seq(Int)
  BY DEF ByteInv, InboxOK
<1> QED BY <1>2, <1>3, BytesFrom

(* The system stops.                                                       *)
LEMMA BytesStop ==
  ASSUME ByteInv, pc' # "running", UNCHANGED got
  PROVE  ByteInv'
BY DEF ByteInv, BytesInOrder

(* At the start nothing has been typed.                                    *)
LEMMA BytesInit == UInit => ByteInv
<1> SUFFICES ASSUME UInit PROVE ByteInv
  OBVIOUS
<1>1. Number(0) = 0 /\ Number(0) \in 0 .. BYTES - 1
  <2>1. BYTES \in Nat \ {0} /\ 0 \in Int /\ 0 \in 0 .. BYTES - 1
        /\ 0 = BYTES * 0 + 0
    BY BytesIsPositive
  <2>2. 0 % BYTES = 0
    BY <2>1, ModIs
  <2> QED BY <2>1, <2>2 DEF Number
<1>2. /\ got = 0 /\ typed = 0 /\ inbox = <<>> /\ input = <<>> /\ rx = <<>>
      /\ input_q = cbuf_init
  BY DEF UInit, Init
<1>3. Len(<<>>) = 0 /\ DOMAIN <<>> = {} /\ <<>> \in Seq(Int)
      /\ <<>> \in Seq(Requests)
  OBVIOUS
<1>4. Holds(input_q, 0) /\ input_q.count = 0
  <2>1. input_q.head = 0 /\ input_q.tail = 0 /\ input_q.count = 0
    BY <1>2 DEF cbuf_init
  <2>2. input_q \in Buffers
    BY <1>2, LengthAssumption DEF cbuf_init, Buffers, Offsets
  <2> QED BY <2>1, <2>2, LengthAssumption DEF Holds, Proper, Slot, Around
<1>5. Pending = <<>>
  BY <1>2 DEF Pending
<1>6. Placed(0, 0, 0)
  BY <1>1, <1>2, <1>3, <1>4, <1>5, OnTheWayAssumption DEF Placed, Carries
<1>7. InboxOK
  BY <1>2, <1>3 DEF InboxOK
<1> QED BY <1>1, <1>2, <1>3, <1>6, <1>7 DEF ByteInv, BytesInOrder

(* A byte is typed.                                                        *)
LEMMA TypeBytes ==
  ASSUME DeviceInv, ByteInv, Type PROVE ByteInv'
<1>1. /\ pc = "running" /\ Unread < ON_THE_WAY /\ typed' = Plus(typed, 1)
      /\ UNCHANGED <<input_q, input, inbox, got>>
  BY DEF Type
<1>2. rx \in Seq(Int) /\ input \in Seq(Int) /\ InboxOK
  BY <1>1 DEF DeviceInv, DeviceTypes, ByteInv
<1>3. PICK g, s, t : Placed(g, s, t)
  BY <1>1 DEF ByteInv
<1>4. /\ g \in Nat /\ s \in Nat /\ t \in Nat /\ s <= t /\ t <= g + ON_THE_WAY
      /\ g <= t /\ got = Number(g) /\ typed = Number(t) /\ typed \in Int
      /\ ON_THE_WAY \in Nat
  BY <1>2, <1>3, PlacedIs, OnTheWayAssumption
     DEF Placed, DeviceInv, DeviceTypes
<1>5. t + 1 <= g + ON_THE_WAY
  <2>1. (typed - got) % BYTES = t - g
    BY <1>4, NumbersApart
  <2> QED BY <1>1, <1>4, <2>1 DEF Unread
<1>6. typed' = Number(t + 1)
  BY <1>1, <1>4, NumberPlus
<1>7. ~overrun' => t + 1 = s + Len(rx') /\ Carries(rx', s)
  <2> SUFFICES ASSUME ~overrun' PROVE t + 1 = s + Len(rx') /\ Carries(rx', s)
    OBVIOUS
  <2>1. rx' = Append(rx, typed) /\ overrun' = overrun
    BY DEF Type
  <2>2. t = s + Len(rx) /\ Carries(rx, s)
    BY <1>3, <2>1 DEF Placed
  <2>3. /\ Len(rx) \in Nat /\ Len(rx') = Len(rx) + 1
        /\ DOMAIN rx = 1 .. Len(rx) /\ DOMAIN rx' = 1 .. Len(rx) + 1
        /\ rx'[Len(rx) + 1] = typed
        /\ \A i \in DOMAIN rx : rx'[i] = rx[i]
    BY <1>2, <1>4, <2>1, AppendIs
  <2> DEFINE l == Len(rx)
  <2> HIDE DEF l
  <2>4. t = s + l /\ l \in Nat /\ Len(rx') = l + 1 /\ DOMAIN rx = 1 .. l
        /\ DOMAIN rx' = 1 .. l + 1 /\ rx'[l + 1] = typed
    BY <2>2, <2>3 DEF l
  <2>5. ASSUME NEW k \in 1 .. l + 1 PROVE rx'[k] = Number(s + k - 1)
    <3>1. CASE k = l + 1
      <4>1. s + k - 1 = t
        BY <1>4, <2>4, <3>1
      <4> QED BY <1>4, <2>4, <3>1, <4>1
    <3>2. CASE k # l + 1
      <4>1. k \in 1 .. l
        BY <2>4, <3>2
      <4> QED BY <2>2, <2>3, <2>4, <4>1 DEF Carries
    <3> QED BY <3>1, <3>2
  <2>6. t + 1 = s + (l + 1)
    BY <1>4, <2>4
  <2> QED BY <2>4, <2>5, <2>6 DEF Carries
<1>8. t + 1 \in Nat /\ s <= t + 1
  BY <1>4
<1>9. Placed(g, s, t + 1)'
  BY <1>1, <1>3, <1>5, <1>6, <1>7, <1>8 DEF Placed, Pending, Notifying
<1>10. InboxOK' /\ input' \in Seq(Int)
  BY <1>1, <1>2 DEF InboxOK
<1> QED BY <1>9, <1>10, BytesFrom

(* The notifier gets what the FIFO holds.                                  *)
LEMMA ReadFifoIs ==
  ASSUME rx \in Seq(Int), rx # <<>>
  PROVE  /\ ReadFifo \in Seq(Int) /\ ReadFifo # <<>>
         /\ Len(ReadFifo) \in 1 .. Len(rx)
         /\ Len(ReadFifo) <= UART_FIFO_SIZE
         /\ DOMAIN ReadFifo = 1 .. Len(ReadFifo)
         /\ \A i \in 1 .. Len(ReadFifo) : ReadFifo[i] = rx[i]
<1> DEFINE c == IF Len(rx) < UART_FIFO_SIZE THEN Len(rx) ELSE UART_FIFO_SIZE
<1>1. Len(rx) \in Nat \ {0} /\ DOMAIN rx = 1 .. Len(rx)
  <2>1. Len(rx) \in Nat /\ Len(rx) # 0
    BY EmptySeq, LenProperties
  <2> QED BY <2>1, LenProperties
<1>2. c \in 1 .. Len(rx) /\ c <= UART_FIFO_SIZE /\ c \in Nat
  BY <1>1, DepthAssumption
<1>3. ReadFifo = SubSeq(rx, 1, c)
  BY DEF ReadFifo
<1> HIDE DEF c
<1>4. \A i \in 1 .. c : i \in 1 .. Len(rx)
  BY <1>1, <1>2
<1>5. /\ SubSeq(rx, 1, c) \in Seq(Int)
      /\ Len(SubSeq(rx, 1, c)) = c
      /\ \A i \in 1 .. c : SubSeq(rx, 1, c)[i] = rx[1 + i - 1]
  <2>1. 1 \in Int /\ 1 .. c \subseteq DOMAIN rx /\ c - 1 + 1 = c
    BY <1>1, <1>2, <1>4
  <2> QED BY <1>1, <1>2, <1>4, <2>1, SubSeqProperties
<1>6. \A i \in 1 .. c : 1 + i - 1 = i
  BY <1>2
<1>7. ReadFifo # <<>>
  BY <1>2, <1>3, <1>5
<1> QED BY <1>2, <1>3, <1>5, <1>6, <1>7, LenProperties

(* The interrupt hands over what it has read, and the notifier sends it.   *)
LEMMA HandOverIs ==
  ASSUME DeviceInv, ByteInv, Deliver
  PROVE  \E g, s, t, v, c :
           /\ Placed(g, s, t) /\ Placed(g, v, t)'
           /\ v = s + c /\ c = Len(ReadFifo) /\ c \in 1 .. UART_FIFO_SIZE
           /\ Carries(ReadFifo, s) /\ ReadFifo \in Seq(Int)
           /\ InboxOK' /\ input' = ReadFifo
<1>1. /\ pc = "running" /\ pc' = "running" /\ ~overrun /\ ~overrun'
      /\ ~Notifying /\ rx # <<>> /\ input' = ReadFifo
      /\ inbox' = Append(inbox, [from |-> NOTIFIER, length |-> Len(ReadFifo)])
      /\ rx' = SubSeq(rx, Len(ReadFifo) + 1, Len(rx))
      /\ UNCHANGED <<input_q, got, typed>>
  BY DEF Deliver, HandOver, NotifierSends
<1>2. rx \in Seq(Int) /\ input \in Seq(Int) /\ InboxOK
  BY <1>1 DEF DeviceInv, DeviceTypes, ByteInv
<1>3. PICK g, s, t : Placed(g, s, t)
  BY <1>1 DEF ByteInv
<1> DEFINE c == Len(ReadFifo)
           l == Len(rx)
           notice == [from |-> NOTIFIER, length |-> c]
<1>4. /\ ReadFifo \in Seq(Int) /\ ReadFifo # <<>> /\ c \in 1 .. l
      /\ l \in Nat /\ DOMAIN ReadFifo = 1 .. c /\ DOMAIN rx = 1 .. l
      /\ \A i \in 1 .. c : ReadFifo[i] = rx[i]
      /\ c \in 1 .. UART_FIFO_SIZE
  <2>1. /\ ReadFifo \in Seq(Int) /\ ReadFifo # <<>> /\ c \in 1 .. l
        /\ l \in Nat /\ DOMAIN ReadFifo = 1 .. c /\ DOMAIN rx = 1 .. l
        /\ \A i \in 1 .. c : ReadFifo[i] = rx[i]
        /\ c <= UART_FIFO_SIZE
    BY <1>1, <1>2, ReadFifoIs, LenProperties
  <2> HIDE DEF c, l
  <2>2. c \in 1 .. UART_FIFO_SIZE
    BY <2>1, DepthAssumption
  <2> QED BY <2>1, <2>2
<1>5. notice \in Requests
  BY <1>4 DEF Requests
<1>6. /\ g \in Nat /\ s \in Nat /\ t = s + l /\ Carries(rx, s)
      /\ s = g + input_q.count
  <2> DEFINE k == input_q.count
  <2>1. Pending = <<>> /\ Len(Pending) = 0
    BY <1>1 DEF Pending
  <2>2. k \in Nat
    BY <1>2, <1>3, PlacedIs
  <2>3. /\ g \in Nat /\ s \in Nat /\ t = s + l /\ Carries(rx, s)
        /\ s = g + k + Len(Pending)
    BY <1>1, <1>3 DEF Placed
  <2> HIDE DEF k
  <2>4. s = g + k
    BY <2>1, <2>2, <2>3
  <2> QED BY <2>3, <2>4 DEF k
<1>7. /\ inbox' \in Seq(Requests)
      /\ Len(inbox) \in Nat /\ DOMAIN inbox = 1 .. Len(inbox)
      /\ DOMAIN inbox' = 1 .. Len(inbox) + 1
      /\ inbox'[Len(inbox) + 1] = notice
      /\ \A i \in DOMAIN inbox : inbox'[i] = inbox[i]
  <2> HIDE DEF notice
  <2>1. inbox' = Append(inbox, notice) /\ inbox \in Seq(Requests)
    BY <1>1, <1>2 DEF notice, InboxOK
  <2> QED BY <1>5, <2>1, AppendIs
<1>8. \A i \in DOMAIN inbox : inbox[i].from # NOTIFIER
  BY <1>1 DEF Notifying
<1>9. /\ rx' \in Seq(Int) /\ Len(rx') = l - c
      /\ DOMAIN rx' = 1 .. l - c
      /\ \A i \in 1 .. l - c : rx'[i] = rx[c + i]
  <2> HIDE DEF c, l
  <2>1. c + 1 \in Int /\ l \in Int /\ c + 1 .. l \subseteq 1 .. l
    BY <1>4
  <2>2. rx' = SubSeq(rx, c + 1, l)
    BY <1>1 DEF c, l
  <2>3. c + 1 <= l + 1 /\ l - (c + 1) + 1 = l - c
    BY <1>4
  <2>4. /\ SubSeq(rx, c + 1, l) \in Seq(Int)
        /\ Len(SubSeq(rx, c + 1, l)) = IF c + 1 <= l THEN l - (c + 1) + 1
                                       ELSE 0
        /\ \A i \in 1 .. l - (c + 1) + 1 :
             SubSeq(rx, c + 1, l)[i] = rx[c + 1 + i - 1]
    <3>1. \A i \in c + 1 .. l : rx[i] \in Int
      BY <1>2, <1>4, <2>1
    <3> QED BY <2>1, <3>1, SubSeqProperties
  <2>5. Len(SubSeq(rx, c + 1, l)) = l - c
    BY <1>4, <2>4
  <2>6. \A i \in 1 .. l - c : c + 1 + i - 1 = c + i
    BY <1>4
  <2> QED BY <2>2, <2>3, <2>4, <2>5, <2>6, LenProperties
<1> HIDE DEF c, l, notice
<1>10. InboxOK' /\ input' \in Seq(Int)
  <2>1. \A i \in DOMAIN inbox' :
          inbox'[i].from = NOTIFIER => i = Len(inbox) + 1
    BY <1>7, <1>8
  <2>2. notice.length = Len(input') /\ input' # <<>>
    BY <1>1, <1>4 DEF notice, c
  <2> QED BY <1>1, <1>4, <1>7, <2>1, <2>2 DEF InboxOK
<1>11. Pending' = input' /\ Len(Pending') = c
  <2>1. inbox'[Len(inbox) + 1].from = NOTIFIER
        /\ Len(inbox) + 1 \in DOMAIN inbox'
    BY <1>7 DEF notice
  <2>2. Notifying'
    BY <2>1 DEF Notifying
  <2> QED BY <1>1, <2>2 DEF Pending, c
<1>12. Carries(input', s) /\ Carries(rx', s + c)
  <2>1. \A k \in 1 .. c : input'[k] = Number(s + k - 1)
    <3>1. \A k \in 1 .. c : k \in DOMAIN rx /\ input'[k] = rx[k]
      BY <1>1, <1>4
    <3>2. \A k \in DOMAIN rx : rx[k] = Number(s + k - 1)
      BY <1>6 DEF Carries
    <3> QED BY <3>1, <3>2
  <2>2. ASSUME NEW k \in 1 .. l - c PROVE rx'[k] = Number(s + c + k - 1)
    <3>1. c + k \in 1 .. l /\ s + (c + k) - 1 = s + c + k - 1
      BY <1>4, <1>6
    <3> QED BY <1>4, <1>6, <1>9, <3>1 DEF Carries
  <2> QED BY <1>1, <1>4, <1>9, <2>1, <2>2 DEF Carries
<1>13. /\ s + c \in Nat /\ s + c <= t /\ t = (s + c) + (l - c)
       /\ s + c = g + input_q.count + c
  <2>1. s + c \in Nat /\ s + c <= t /\ t = (s + c) + (l - c)
    <3>1. t = s + l
      BY <1>6
    <3> QED BY <1>4, <1>6, <3>1
  <2> QED BY <1>6, <2>1
<1>14. PICK v \in Nat : v = s + c
  BY <1>13
<1>15. Placed(g, v, t)'
  <2>1. Carries(Pending, g + input_q.count)'
    BY <1>1, <1>6, <1>11, <1>12 DEF Carries
  <2>2. Holds(input_q, g)'
    BY <1>1, <1>3 DEF Placed
  <2>3. Carries(rx, v)'
    BY <1>12, <1>14 DEF Carries
  <2>4. got' = Number(g) /\ typed' = Number(t) /\ t \in Nat
        /\ t <= g + ON_THE_WAY
    BY <1>1, <1>3 DEF Placed
  <2>5. v = g + input_q'.count + Len(Pending')
    BY <1>1, <1>11, <1>13, <1>14
  <2>6. t = v + Len(rx') /\ v <= t
    BY <1>9, <1>13, <1>14
  <2> HIDE DEF Carries, Holds
  <2> QED BY <1>6, <1>14, <2>1, <2>2, <2>3, <2>4, <2>5, <2>6 DEF Placed
<1>16. PICK w : w = c
  OBVIOUS
<1>17. Carries(ReadFifo, s)
  BY <1>1, <1>12
<1> HIDE DEF Placed, InboxOK, Carries
<1> QED BY <1>1, <1>3, <1>4, <1>10, <1>14, <1>15, <1>16, <1>17 DEF c

(* So every byte still has its place.                                      *)
LEMMA HandOverBytes ==
  ASSUME DeviceInv, ByteInv, Deliver PROVE ByteInv'
<1>1. PICK g, s, t, v, c :
        /\ Placed(g, v, t)' /\ InboxOK'
        /\ input' = ReadFifo /\ ReadFifo \in Seq(Int)
  BY HandOverIs
<1> QED BY <1>1, BytesFrom

(* A reader asks.                                                          *)
LEMMA ReaderBytes ==
  ASSUME ByteInv, NEW r \in Readers, Reader(r) PROVE ByteInv'
<1> DEFINE ask == [from |-> r, length |-> 0]
<1>1. /\ pc = "running" /\ inbox' = Append(inbox, ask)
      /\ UNCHANGED <<input_q, input, got, typed, rx, overrun>>
  BY DEF Reader, get_term_char, uart_vars
<1>2. ask \in Requests /\ ask.from # NOTIFIER
  BY ReadersAssumption DEF Requests
<1>3. inbox \in Seq(Requests) /\ InboxOK /\ input \in Seq(Int)
  BY <1>1 DEF ByteInv, InboxOK
<1> HIDE DEF ask
<1>4. /\ inbox' \in Seq(Requests)
      /\ Len(inbox) \in Nat /\ DOMAIN inbox = 1 .. Len(inbox)
      /\ DOMAIN inbox' = 1 .. Len(inbox) + 1
      /\ inbox'[Len(inbox) + 1] = ask
      /\ \A i \in DOMAIN inbox : inbox'[i] = inbox[i]
  BY <1>1, <1>2, <1>3, AppendIs
<1>5. \A i \in DOMAIN inbox' :
        inbox'[i].from = NOTIFIER =>
          i \in DOMAIN inbox /\ inbox[i].from = NOTIFIER
  BY <1>2, <1>4
<1>6. InboxOK' /\ input' \in Seq(Int)
  BY <1>1, <1>3, <1>4, <1>5 DEF InboxOK
<1>7. Notifying' = Notifying
  <2>1. \A i \in DOMAIN inbox : i \in DOMAIN inbox'
    BY <1>4
  <2> QED BY <1>4, <1>5, <2>1 DEF Notifying
<1>8. PICK g, s, t : Placed(g, s, t)
  BY <1>1 DEF ByteInv
<1>9. Pending' = Pending
  BY <1>1, <1>7 DEF Pending
<1>10. Placed(g, s, t)'
  BY <1>1, <1>8, <1>9 DEF Placed
<1> QED BY <1>6, <1>10, BytesFrom

(* A reader gets the oldest byte of the buffer, if there is one.           *)
LEMMA TryGetcIs ==
  ASSUME NEW cb, NEW g \in Nat, NEW r, Holds(cb, g), got = Number(g),
         _term_try_getc(cb, r)
  PROVE  \E d \in {0, 1} : /\ d <= cb.count /\ Holds(input_q', g + d)
                           /\ input_q'.count = cb.count - d
                           /\ got' = Number(g + d)
<1> DEFINE k == cb.count
<1>1. Proper(cb) /\ k \in Nat /\ g + 0 = g /\ k - 0 = k
  BY LengthAssumption DEF Holds, Proper, Buffers, Offsets
<1>2. CASE k = 0
  <2>1. input_q' = cb /\ got' = got
    BY <1>2 DEF _term_try_getc, cbuf_count
  <2> QED BY <1>1, <1>2, <2>1
<1>3. CASE k # 0
  <2> DEFINE n == cbuf_consume(cb)
  <2>1. /\ Proper(n) /\ n.count = k - 1
        /\ \A i \in 0 .. n.count - 1 : At(n, i) = At(cb, i + 1)
        /\ cbuf_peek(cb) = At(cb, 0)
    BY <1>1, <1>3, ConsumeIs
  <2>2. /\ input_q' = n
        /\ got' = IF cbuf_peek(cb) = got THEN Plus(got, 1) ELSE BYTES
    BY <1>3 DEF _term_try_getc, cbuf_count
  <2> HIDE DEF n
  <2>3. \A i \in 0 .. k - 1 : At(cb, i) = Number(g + i)
    BY DEF Holds
  <2> HIDE DEF k
  <2>4. got' = Number(g + 1)
    <3>1. 0 \in 0 .. k - 1
      BY <1>1, <1>3
    <3>2. cbuf_peek(cb) = got
      BY <1>1, <2>1, <2>3, <3>1
    <3> QED BY <2>2, <3>2, NumberPlus
  <2>5. ASSUME NEW i \in 0 .. n.count - 1 PROVE At(n, i) = Number(g + 1 + i)
    <3>1. i + 1 \in 0 .. k - 1 /\ g + (i + 1) = g + 1 + i
      BY <1>1, <1>3, <2>1
    <3> QED BY <2>1, <2>3, <3>1
  <2>6. Holds(input_q', g + 1)
    BY <2>1, <2>2, <2>5 DEF Holds
  <2>7. 1 <= k
    BY <1>1, <1>3
  <2> QED BY <2>1, <2>2, <2>4, <2>6, <2>7 DEF k
<1> QED BY <1>2, <1>3

(* The server has taken a request and the buffer is cb; the notifier's     *)
(* bytes are in it, or still pending.                                      *)
LEMMA ServeBytes ==
  ASSUME InboxOK', input' \in Seq(Int), Pending' \in Seq(Int),
         UNCHANGED <<typed, rx, overrun>>,
         NEW g, NEW s, NEW t, Placed(g, s, t),
         NEW cb, Holds(cb, g), s = g + cb.count + Len(Pending'),
         Carries(Pending', g + cb.count),
         NEW r,
         \/ _term_try_getc(cb, r)
         \/ input_q' = cb /\ got' = got
  PROVE  ByteInv'
<1> DEFINE k == cb.count
           l == Len(Pending')
<1>1. /\ g \in Nat /\ s \in Nat /\ t \in Nat /\ s <= t
      /\ t <= g + ON_THE_WAY /\ ON_THE_WAY \in Nat
      /\ got = Number(g) /\ typed = Number(t)
      /\ ~overrun => t = s + Len(rx) /\ Carries(rx, s)
  BY OnTheWayAssumption DEF Placed
<1>2. k \in Nat /\ l \in Nat
  <2>1. k \in Nat
    BY LengthAssumption DEF Holds, Proper, Buffers, Offsets
  <2> QED BY <2>1, LenProperties
<1>3. PICK d \in {0, 1} : /\ d <= k /\ Holds(input_q', g + d)
                          /\ input_q'.count = k - d
                          /\ got' = Number(g + d)
  <2>1. CASE _term_try_getc(cb, r)
    BY <1>1, <2>1, TryGetcIs
  <2>2. CASE input_q' = cb /\ got' = got
    <3>1. g + 0 = g /\ k - 0 = k /\ 0 <= k
      BY <1>1, <1>2
    <3> QED BY <1>1, <2>2, <3>1
  <2> QED BY <2>1, <2>2
<1>4. s = g + k + l
  OBVIOUS
<1>5. Carries(Pending', g + k)
  OBVIOUS
<1> HIDE DEF k, l
<1>6. /\ g + d \in Nat /\ t <= (g + d) + ON_THE_WAY
      /\ (g + d) + (k - d) = g + k /\ s = (g + d) + (k - d) + l
  BY <1>1, <1>2, <1>3, <1>4
<1>7. PICK e \in Nat : e = g + d
  BY <1>6
<1>8. Placed(e, s, t)'
  <2>1. Carries(Pending, e + input_q.count)'
    <3>1. Carries(Pending', e + input_q'.count)
      BY <1>3, <1>5, <1>6, <1>7
    <3> QED BY <3>1 DEF Carries
  <2>2. Holds(input_q, e)'
    <3>1. Holds(input_q', e)
      BY <1>3, <1>7
    <3> QED BY <3>1
  <2>3. ~overrun' => t = s + Len(rx') /\ Carries(rx, s)'
    BY <1>1 DEF Carries
  <2>4. s = e + input_q'.count + Len(Pending')
    BY <1>3, <1>6, <1>7 DEF l
  <2>5. got' = Number(e) /\ typed' = Number(t) /\ t <= e + ON_THE_WAY
    BY <1>1, <1>3, <1>6, <1>7
  <2> HIDE DEF Carries, Holds
  <2> QED BY <1>1, <1>7, <2>1, <2>2, <2>3, <2>4, <2>5 DEF Placed
<1> QED BY <1>8, BytesFrom

(* The inbox without its first request.                                    *)
LEMMA NextRequest ==
  ASSUME InboxOK, inbox # <<>>, inbox' = Tail(inbox), input' = input
  PROVE  /\ InboxOK'
         /\ Head(inbox).from # NOTIFIER => Notifying' = Notifying
         /\ Head(inbox).from = NOTIFIER =>
              /\ Notifying /\ ~Notifying'
              /\ Head(inbox).length = Len(input) /\ input # <<>>
<1>1. /\ inbox' \in Seq(Requests)
      /\ Head(inbox) = inbox[1] /\ 1 \in DOMAIN inbox
      /\ Len(inbox) \in Nat \ {0}
      /\ DOMAIN inbox = 1 .. Len(inbox) /\ DOMAIN inbox' = 1 .. Len(inbox) - 1
      /\ \A i \in DOMAIN inbox' : inbox'[i] = inbox[i + 1]
  BY TailIs DEF InboxOK
<1>2. \A i \in DOMAIN inbox' : i + 1 \in DOMAIN inbox /\ i \in Int
                               /\ i + 1 # 1
  BY <1>1
<1>3. InboxOK'
  <2>1. ASSUME NEW i \in DOMAIN inbox', NEW j \in DOMAIN inbox',
               inbox'[i].from = NOTIFIER, inbox'[j].from = NOTIFIER
        PROVE  i = j
    <3>1. i + 1 = j + 1
      BY <1>1, <1>2, <2>1 DEF InboxOK
    <3> QED BY <1>2, <3>1
  <2>2. \A i \in DOMAIN inbox' : inbox'[i].from = NOTIFIER =>
          inbox'[i].length = Len(input') /\ input' # <<>>
    BY <1>1, <1>2 DEF InboxOK
  <2> QED BY <1>1, <2>1, <2>2 DEF InboxOK
<1>4. ASSUME Head(inbox).from # NOTIFIER PROVE Notifying' = Notifying
  <2>1. ASSUME NEW i \in DOMAIN inbox, inbox[i].from = NOTIFIER
        PROVE  i - 1 \in DOMAIN inbox' /\ inbox'[i - 1].from = NOTIFIER
    <3>1. i # 1
      BY <1>1, <1>4, <2>1
    <3>2. i - 1 \in DOMAIN inbox' /\ (i - 1) + 1 = i
      BY <1>1, <3>1
    <3> QED BY <1>1, <2>1, <3>2
  <2>2. Notifying => Notifying'
    BY <2>1 DEF Notifying
  <2>3. Notifying' => Notifying
    BY <1>1, <1>2 DEF Notifying
  <2> QED BY <2>2, <2>3 DEF Notifying
<1>5. ASSUME Head(inbox).from = NOTIFIER
      PROVE  /\ Notifying /\ ~Notifying'
             /\ Head(inbox).length = Len(input) /\ input # <<>>
  <2>1. \A i \in DOMAIN inbox' : inbox'[i].from # NOTIFIER
    BY <1>1, <1>2, <1>5 DEF InboxOK
  <2> QED BY <1>1, <1>5, <2>1 DEF Notifying, InboxOK
<1> QED BY <1>3, <1>4, <1>5

(* GETC.                                                                   *)
LEMMA GetcBytes ==
  ASSUME ByteInv, NEW r \in Readers, ReceiveGetc(r),
         UNCHANGED <<uart_vars, send_vars>>
  PROVE  ByteInv'
<1>1. /\ pc = "running" /\ inbox # <<>> /\ Head(inbox).from = r
      /\ inbox' = Tail(inbox) /\ r # NOTIFIER
      /\ UNCHANGED <<rx, overrun>>
  BY ReadersAssumption DEF ReceiveGetc, Receive, uart_vars
<1>2. CASE in_tid # NOBODY
  BY <1>2, BytesStop DEF ReceiveGetc, Stop
<1>3. CASE ~(in_tid # NOBODY)
  <2>1. _term_try_getc(input_q, r) /\ UNCHANGED <<input, typed, pc>>
    BY <1>3 DEF ReceiveGetc
  <2>2. InboxOK /\ input \in Seq(Int)
    BY <1>1 DEF ByteInv
  <2>3. InboxOK' /\ Pending' = Pending
    BY <1>1, <2>1, <2>2, NextRequest DEF Pending
  <2>4. PICK g, s, t : Placed(g, s, t)
    BY <1>1 DEF ByteInv
  <2>5. PICK cb : cb = input_q
    OBVIOUS
  <2>6. _term_try_getc(cb, r)
    BY <2>1, <2>5 DEF _term_try_getc
  <2>7. /\ Holds(cb, g) /\ s = g + cb.count + Len(Pending')
        /\ Carries(Pending', g + cb.count)
    BY <2>3, <2>4, <2>5 DEF Placed
  <2>8. Pending' \in Seq(Int) /\ input' \in Seq(Int)
    <3>1. <<>> \in Seq(Int)
      OBVIOUS
    <3> QED BY <2>1, <2>2, <2>3, <3>1 DEF Pending
  <2> HIDE DEF InboxOK, Placed, Holds, Carries, Pending, _term_try_getc
  <2> QED BY <1>1, <2>1, <2>3, <2>4, <2>6, <2>7, <2>8, ServeBytes
<1> QED BY <1>2, <1>3

(* What the notifier has sent goes into the buffer, all of it.             *)
LEMMA RecvIs ==
  ASSUME NEW cb, NEW g \in Nat, Holds(cb, g), NEW s \in Seq(Int), s # <<>>,
         Carries(s, g + cb.count), cb.count + Len(s) < LENGTH,
         Len(s) > 1 \/ HeadInside(cb),
         NEW n, n = IF Len(s) > 1 THEN cbuf_bulk_produce(cb, s)
                    ELSE cbuf_produce(cb, s[1])
  PROVE  Holds(n, g) /\ n.count = cb.count + Len(s)
<1> DEFINE k == cb.count
           l == Len(s)
<1>1. /\ Proper(cb) /\ k \in Nat /\ l \in Nat \ {0}
      /\ DOMAIN s = 1 .. l /\ \A i \in 1 .. l : s[i] \in Int
  <2>1. l \in Nat /\ DOMAIN s = 1 .. l /\ \A i \in 1 .. l : s[i] \in Int
    BY LenProperties
  <2>2. l # 0
    BY EmptySeq
  <2> QED BY <2>1, <2>2, LengthAssumption
          DEF Holds, Proper, Buffers, Offsets
<1>2. /\ Proper(n) /\ n.count = k + l
      /\ \A i \in 0 .. k - 1 : At(n, i) = At(cb, i)
      /\ \A j \in 1 .. l : At(n, k + j - 1) = s[j]
  <2>1. CASE l > 1
    <3>1. n = cbuf_bulk_produce(cb, s)
      BY <2>1
    <3> QED BY <1>1, <3>1, BulkIs
  <2>2. CASE ~(l > 1)
    <3>1. l = 1 /\ 1 \in 1 .. l
      <4> HIDE DEF l
      <4> QED BY <1>1, <2>2
    <3>2. n = cbuf_produce(cb, s[1]) /\ HeadInside(cb) /\ k + 1 < LENGTH
      BY <2>2, <3>1
    <3>3. /\ Proper(n) /\ n.count = k + 1
          /\ \A i \in 0 .. k - 1 : At(n, i) = At(cb, i)
          /\ At(n, k) = s[1]
      BY <1>1, <3>1, <3>2, ProduceIs
    <3>4. \A j \in 1 .. l : j = 1 /\ k + j - 1 = k
      BY <1>1, <3>1
    <3> QED BY <3>1, <3>3, <3>4
  <2> QED BY <2>1, <2>2
<1> HIDE DEF k, l
<1>3. ASSUME NEW i \in 0 .. k + l - 1 PROVE At(n, i) = Number(g + i)
  <2>1. CASE i < k
    <3>1. i \in 0 .. k - 1
      BY <1>1, <2>1
    <3> QED BY <1>2, <3>1 DEF Holds, k
  <2>2. CASE ~(i < k)
    <3>1. PICK j \in 1 .. l : j = i - k + 1
      BY <1>1, <2>2
    <3>2. k + j - 1 = i /\ g + k + j - 1 = g + i
      BY <1>1, <3>1
    <3>3. s[j] = Number(g + k + j - 1)
      BY <1>1 DEF Carries, k
    <3> QED BY <1>2, <3>2, <3>3
  <2> QED BY <2>1, <2>2
<1>4. ASSUME NEW i \in 0 .. n.count - 1 PROVE At(n, i) = Number(g + i)
  <2>1. i \in 0 .. k + l - 1
    BY <1>1, <1>2
  <2> QED BY <1>3, <2>1
<1>5. Holds(n, g)
  BY <1>2, <1>4, Zenon DEF Holds
<1> QED BY <1>2, <1>5 DEF k, l

(* What the notifier has sent.                                             *)
LEMMA InputBytes ==
  ASSUME ON_THE_WAY < LENGTH, ByteInv, rx \in Seq(Int), ReceiveInput,
         UNCHANGED <<uart_vars, send_vars>>
  PROVE  ByteInv'
<1> DEFINE m == Head(inbox).length
           after == IF m > 1 THEN cbuf_bulk_produce(input_q, input)
                    ELSE cbuf_produce(input_q, input[1])
<1>1. /\ pc = "running" /\ inbox # <<>> /\ Head(inbox).from = NOTIFIER
      /\ inbox' = Tail(inbox)
      /\ UNCHANGED <<rx, overrun>>
  BY DEF ReceiveInput, Receive, uart_vars
<1>2. CASE m = 1 /\ ~HeadInside(input_q)
  BY <1>2, BytesStop DEF ReceiveInput, Stop
<1>3. CASE ~(m = 1 /\ ~HeadInside(input_q))
  <2>1. /\ \/ _term_try_getc(after, in_tid)
           \/ input_q' = after /\ got' = got
        /\ UNCHANGED <<input, typed, pc>>
    BY <1>3, Zenon DEF ReceiveInput
  <2>2. InboxOK /\ input \in Seq(Int)
    BY <1>1 DEF ByteInv
  <2>3. InboxOK' /\ Notifying /\ ~Notifying' /\ m = Len(input) /\ input # <<>>
    BY <1>1, <2>1, <2>2, NextRequest
  <2>4. Pending = input /\ Pending' = <<>>
    BY <2>3 DEF Pending
  <2>5. PICK g, s, t : Placed(g, s, t)
    BY <1>1 DEF ByteInv
  <2>6. PICK cb : cb = input_q
    OBVIOUS
  <2>7. PICK r : r = in_tid
    OBVIOUS
  <2>8. PICK new : new = after
    OBVIOUS
  <2>9. /\ g \in Nat /\ Holds(cb, g) /\ s = g + cb.count + Len(input)
        /\ Carries(input, g + cb.count) /\ cb.count \in Nat
        /\ Len(input) \in Nat /\ s <= g + ON_THE_WAY /\ s \in Nat
    <3>1. s \in Nat /\ s <= g + ON_THE_WAY
      <4>1. g \in Nat /\ s \in Nat /\ t \in Nat /\ s <= t
            /\ t <= g + ON_THE_WAY
        BY <2>5 DEF Placed
      <4> QED BY <4>1, OnTheWayAssumption
    <3>2. g \in Nat /\ Holds(cb, g) /\ s = g + cb.count + Len(input)
          /\ Carries(input, g + cb.count)
      BY <2>4, <2>5, <2>6 DEF Placed
    <3>3. cb.count \in Nat /\ Len(input) \in Nat
      BY <2>2, <2>4, <2>5, <2>6, PlacedIs
    <3> QED BY <3>1, <3>2, <3>3
  <2>10. cb.count + Len(input) < LENGTH
    <3> DEFINE k == cb.count
               l == Len(input)
    <3>1. g \in Nat /\ k \in Nat /\ l \in Nat /\ s = g + k + l
          /\ s <= g + ON_THE_WAY
      BY <2>9
    <3> HIDE DEF k, l
    <3>2. k + l < LENGTH
      BY <3>1, OnTheWayAssumption, LengthAssumption
    <3> QED BY <3>2 DEF k, l
  <2>11. Holds(new, g) /\ new.count = cb.count + Len(input)
    <3>1. PICK w : w = input
      OBVIOUS
    <3>2. /\ Holds(cb, g) /\ w \in Seq(Int) /\ w # <<>>
          /\ Carries(w, g + cb.count) /\ cb.count + Len(w) < LENGTH
          /\ (Len(w) > 1 \/ HeadInside(cb))
          /\ new = IF Len(w) > 1 THEN cbuf_bulk_produce(cb, w)
                   ELSE cbuf_produce(cb, w[1])
      <4>1. Len(w) > 1 \/ HeadInside(cb)
        <5>1. Len(w) \in Nat /\ Len(w) # 0
          BY <2>2, <2>3, <3>1, EmptySeq, LenProperties
        <5> QED BY <1>3, <2>3, <2>6, <3>1, <5>1
      <4> QED BY <2>2, <2>3, <2>6, <2>8, <2>9, <2>10, <3>1, <4>1
    <3> HIDE DEF Holds, Carries
    <3>3. Holds(new, g) /\ new.count = cb.count + Len(w)
      BY <2>9, <3>2, RecvIs
    <3> QED BY <3>1, <3>3
  <2>12. s = g + new.count + Len(Pending') /\ Carries(Pending', g + new.count)
    <3>1. Len(<<>>) = 0 /\ DOMAIN <<>> = {}
      OBVIOUS
    <3>2. s = g + new.count /\ new.count \in Nat
      <4> DEFINE k == cb.count
                 l == Len(input)
      <4>1. g \in Nat /\ k \in Nat /\ l \in Nat /\ s = g + k + l
            /\ new.count = k + l
        BY <2>9, <2>11
      <4> HIDE DEF k, l
      <4> QED BY <4>1
    <3> DEFINE u == new.count
    <3> HIDE DEF u
    <3>3. s = g + u + 0
      BY <2>9, <3>2 DEF u
    <3> QED BY <2>4, <3>1, <3>3 DEF Carries, u
  <2>13. _term_try_getc(new, r) \/ (input_q' = new /\ got' = got)
    BY <2>1, <2>7, <2>8 DEF _term_try_getc
  <2>14. Pending' \in Seq(Int) /\ input' \in Seq(Int)
    <3>1. <<>> \in Seq(Int)
      OBVIOUS
    <3> QED BY <2>1, <2>2, <2>4, <3>1
  <2> HIDE DEF InboxOK, Placed, Holds, Carries, Pending, _term_try_getc
  <2> QED BY <1>1, <2>1, <2>3, <2>5, <2>11, <2>12, <2>13, <2>14, ServeBytes
<1> QED BY <1>2, <1>3

(* The handlers; those that halt the kernel leave the bytes as they are.   *)
LEMMA InterruptBytes ==
  ASSUME DeviceInv, ByteInv, Interrupt PROVE ByteInv'
<1>1. pc = "running"
  BY DEF Interrupt
<1>2. ASSUME NEW how \in {"halted", "surprised"}, Halt(how) PROVE ByteInv'
  BY <1>2, BytesStop DEF Halt, Stop
<1>3. ASSUME irq_uart2_recv PROVE ByteInv'
  <2>1. CASE Deliver
    BY <2>1, HandOverBytes
  <2>2. CASE NobodyWaits
    BY <1>1, <2>2, BytesStay
       DEF NobodyWaits, uvars, server_vars, vars, uart_vars
  <2>3. CASE \E how \in {"halted", "surprised"} : Halt(how)
    BY <1>2, <2>3
  <2> QED BY <1>3, <2>1, <2>2, <2>3 DEF irq_uart2_recv, RecvHalts
<1>4. ASSUME irq_uart2_send PROVE ByteInv'
  <2>1. CASE UNCHANGED <<server_vars, rx, silent, overrun, awaits_recv>>
    BY <1>1, <2>1, BytesStay DEF server_vars, vars
  <2>2. CASE \E how \in {"halted", "surprised"} : Halt(how)
    BY <1>2, <2>2
  <2> QED BY <1>4, <2>1, <2>2 DEF irq_uart2_send
<1> QED BY <1>2, <1>3, <1>4 DEF Interrupt, irq_uart2

(* Every step keeps each byte in its place.                                *)
LEMMA BytesStep ==
  ASSUME ON_THE_WAY < LENGTH, DeviceInv, ByteInv, [UNext]_uvars PROVE ByteInv'
<1>1. CASE Type
  BY <1>1, TypeBytes
<1>2. CASE Silence \/ Transmit \/ AwaitRecv \/ AwaitSend
           \/ \E len \in LENGTHS : CarrierGets(len)
  <2>1. /\ pc = "running"
        /\ UNCHANGED <<input_q, input, inbox, got, typed, rx, overrun>>
    BY <1>2 DEF Silence, Transmit, AwaitRecv, AwaitSend, CarrierGets,
                server_vars, vars, uart_vars
  <2> QED BY <2>1, BytesStay
<1>3. CASE Interrupt
  BY <1>3, InterruptBytes
<1>4. CASE Server
  <2>1. rx \in Seq(Int)
    BY DEF DeviceInv, DeviceTypes
  <2> QED BY <1>4, <2>1, GetcBytes, InputBytes DEF Server
<1>5. CASE \E r \in Readers : Reader(r)
  BY <1>5, ReaderBytes
<1>6. CASE UNCHANGED uvars
  <2>1. CASE pc = "running"
    BY <1>6, <2>1, BytesStay DEF uvars, server_vars, vars, uart_vars
  <2>2. CASE pc # "running"
    BY <1>6, <2>2, BytesStop DEF uvars, server_vars, vars
  <2> QED BY <2>1, <2>2
<1> QED BY <1>1, <1>2, <1>3, <1>4, <1>5, <1>6 DEF UNext, Device

(***************************************************************************)
(* Readers get the bytes that were typed, each once and in order, for      *)
(* FIFOs and buffers of any size: through the FIFO, the array of the       *)
(* notifier, which the server reads while the notifier waits, and the      *)
(* buffer, whose head may stand at its end.  The hypothesis is that the    *)
(* readers keep up: the bytes under way fit in the buffer.                 *)
(***************************************************************************)
THEOREM InputComesInOrder ==
  ON_THE_WAY < LENGTH => (USpec => []BytesInOrder)
<1> SUFFICES ASSUME ON_THE_WAY < LENGTH PROVE USpec => []BytesInOrder
  OBVIOUS
<1>1. UInit => ByteInv
  BY BytesInit
<1>2. UInit => DeviceInv
  BY DeviceInit
<1>3. DeviceInv /\ [UNext]_uvars => DeviceInv'
  BY DeviceStep
<1>4. DeviceInv /\ ByteInv /\ [UNext]_uvars => ByteInv'
  BY BytesStep
<1>5. ByteInv => BytesInOrder
  BY DEF ByteInv
<1> QED BY <1>1, <1>2, <1>3, <1>4, <1>5, PTL DEF USpec

-----------------------------------------------------------------------------
(* The UART and its handlers do what TermInput promises of the notifier.   *)

(* What the notifier has sent ends where the FIFO begins.                  *)
Sent == IF rx = <<>> THEN typed ELSE rx[1]

(* Where a string begins that ends at position t.                          *)
LEMMA SentIs ==
  ASSUME NEW q \in Seq(Int), NEW s \in Nat, NEW t \in Nat, t = s + Len(q),
         Carries(q, s)
  PROVE  (IF q = <<>> THEN Number(t) ELSE q[1]) = Number(s)
<1> DEFINE l == Len(q)
<1>1. /\ t = s + l /\ l \in Nat
      /\ DOMAIN q = 1 .. l /\ \A k \in 1 .. l : q[k] = Number(s + k - 1)
  BY LenProperties DEF Carries
<1>2. CASE q = <<>>
  <2>1. l = 0
    BY <1>2
  <2> HIDE DEF l
  <2>2. t = s
    BY <1>1, <2>1
  <2> QED BY <1>2, <2>2
<1>3. CASE q # <<>>
  <2>1. l # 0
    BY <1>3, EmptySeq
  <2> HIDE DEF l
  <2>2. 1 \in 1 .. l /\ s + 1 - 1 = s
    BY <1>1, <2>1
  <2> QED BY <1>1, <1>3, <2>2
<1> QED BY <1>2, <1>3

(* A byte that is typed goes behind what is to be sent next.               *)
LEMMA TypeIsNoStep ==
  ASSUME DeviceInv, Type PROVE UNCHANGED Promise!vars
<1>1. Sent' = Sent
  <2>1. rx \in Seq(Int) /\ typed \in Int
    BY DEF DeviceInv, DeviceTypes
  <2>2. CASE Len(rx) < UART_FIFO_SIZE
    <3>1. rx' = Append(rx, typed)
      BY <2>2 DEF Type
    <3>2. /\ rx' # <<>> /\ Len(rx) \in Nat
          /\ DOMAIN rx = 1 .. Len(rx) /\ rx'[Len(rx) + 1] = typed
          /\ \A i \in DOMAIN rx : rx'[i] = rx[i]
      BY <2>1, <3>1, AppendIs
    <3>3. CASE rx = <<>>
      <4>1. Len(rx) + 1 = 1
        BY <3>3
      <4> QED BY <3>2, <3>3, <4>1 DEF Sent
    <3>4. CASE rx # <<>>
      <4>1. 1 \in DOMAIN rx
        BY <2>1, <3>2, <3>4, EmptySeq
      <4> QED BY <3>2, <3>4, <4>1 DEF Sent
    <3> QED BY <3>3, <3>4
  <2>3. CASE ~(Len(rx) < UART_FIFO_SIZE)
    <3>1. rx' = rx /\ rx # <<>>
      BY <2>3, DepthAssumption DEF Type
    <3> QED BY <3>1 DEF Sent
  <2> QED BY <2>2, <2>3
<1> QED BY <1>1 DEF Sent, Type, Promise!vars

(* The handler gives the notifier the next bytes that were typed.          *)
LEMMA DeliverIsInput ==
  ASSUME UART_FIFO_SIZE <= FIFO, ON_THE_WAY <= TYPE_AHEAD,
         DeviceInv, ByteInv, Deliver
  PROVE  \E len \in 1 .. FIFO : Promise!Input(len)
<1>1. /\ pc = "running" /\ pc' = "running" /\ ~overrun /\ ~overrun'
      /\ ~Notifying /\ input' = ReadFifo
      /\ inbox' = Append(inbox, [from |-> NOTIFIER, length |-> Len(ReadFifo)])
      /\ UNCHANGED <<input_q, in_tid, readers, got, typed>>
  BY DEF Deliver, HandOver, NotifierSends
<1>2. PICK g, s, t, v, c :
        /\ Placed(g, s, t) /\ Placed(g, v, t)'
        /\ v = s + c /\ c = Len(ReadFifo) /\ c \in 1 .. UART_FIFO_SIZE
        /\ Carries(ReadFifo, s) /\ ReadFifo \in Seq(Int)
  BY HandOverIs
<1>3. rx \in Seq(Int) /\ rx' \in Seq(Int)
  <2>1. DeviceInv'
    BY RecvHandler DEF Deliver, HandOver, irq_uart2_recv
  <2> QED BY <2>1 DEF DeviceInv, DeviceTypes
<1>4. /\ g \in Nat /\ s \in Nat /\ t \in Nat
      /\ s <= t /\ t <= g + ON_THE_WAY
      /\ got = Number(g) /\ typed = Number(t)
      /\ t = s + Len(rx) /\ Carries(rx, s)
  BY <1>1, <1>2 DEF Placed
<1>5. v \in Nat /\ v <= t /\ t = v + Len(rx') /\ Carries(rx', v)
      /\ typed' = Number(t)
  BY <1>1, <1>2 DEF Placed, Carries
<1>6. g <= s
  <2>1. input \in Seq(Int)
    BY <1>1 DEF ByteInv
  <2> QED BY <1>2, <1>3, <2>1, PlacedIs
<1>7. c \in 1 .. FIFO /\ c \in Nat
  <2>1. UART_FIFO_SIZE \in Nat /\ FIFO \in Nat
    BY DepthAssumption, FifoAssumption, LengthAssumption
  <2> QED BY <1>2, <2>1
<1>8. Sent = Number(s)
  <2>1. PICK q : q = rx
    OBVIOUS
  <2> HIDE DEF Carries, Number
  <2>2. (IF q = <<>> THEN Number(t) ELSE q[1]) = Number(s)
    BY <1>3, <1>4, <2>1, SentIs
  <2> QED BY <1>4, <2>1, <2>2 DEF Sent
<1>9. Sent' = Number(v)
  <2>1. PICK q : q = rx'
    OBVIOUS
  <2> HIDE DEF Carries, Number
  <2>2. (IF q = <<>> THEN Number(t) ELSE q[1]) = Number(v)
    BY <1>3, <1>4, <1>5, <2>1, SentIs
  <2> QED BY <1>5, <2>1, <2>2 DEF Sent
<1>10. ((Sent - got) % BYTES) + c <= TYPE_AHEAD
  <2>1. s <= g + ON_THE_WAY /\ s - g \in Nat
        /\ s - g + c <= ON_THE_WAY
    BY <1>2, <1>4, <1>5, <1>6, <1>7, OnTheWayAssumption
  <2>2. (Number(s) - Number(g)) % BYTES = s - g
    BY <1>4, <1>6, <2>1, NumbersApart
  <2>3. s - g + c <= TYPE_AHEAD
    BY <1>7, <2>1, OnTheWayAssumption, BytesAssumption
  <2> QED BY <1>4, <1>8, <2>2, <2>3
<1>11. Sent' = Plus(Sent, c)
  BY <1>2, <1>4, <1>7, <1>8, <1>9, NumberPlus
<1>12. input' = [i \in 1 .. c |-> Plus(Sent, i - 1)]
  <2>1. ReadFifo = [i \in 1 .. c |-> ReadFifo[i]]
    <3>1. ReadFifo = [i \in 1 .. Len(ReadFifo) |-> ReadFifo[i]]
      BY <1>2, LenProperties
    <3> QED BY <1>2, <3>1
  <2>2. ASSUME NEW i \in 1 .. c PROVE ReadFifo[i] = Plus(Sent, i - 1)
    <3>1. i \in DOMAIN ReadFifo
      BY <1>2, LenProperties
    <3>2. ReadFifo[i] = Number(s + i - 1)
      BY <1>2, <3>1 DEF Carries
    <3>3. i - 1 \in Nat /\ s + (i - 1) = s + i - 1
      BY <1>4, <1>7
    <3>4. Plus(Number(s), i - 1) = Number(s + (i - 1))
      BY <1>4, <3>3, NumberPlus
    <3> QED BY <1>8, <3>2, <3>3, <3>4
  <2>3. [i \in 1 .. c |-> ReadFifo[i]] = [i \in 1 .. c |-> Plus(Sent, i - 1)]
    BY <2>2
  <2> QED BY <1>1, <2>1, <2>3
<1>13. Promise!NotifierSends([i \in 1 .. c |-> Plus(Sent, i - 1)])
  <2>1. ~Promise!Notifying
    BY <1>1 DEF Promise!Notifying, Promise!NOTIFIER, Notifying, NOTIFIER
  <2>2. inbox' = Append(inbox, [from |-> NOTIFIER, length |-> Len(input')])
    BY <1>1
  <2> QED BY <1>1, <1>12, <2>1, <2>2
          DEF Promise!NotifierSends, Promise!NOTIFIER, NOTIFIER
<1>14. Promise!Input(c)
  BY <1>10, <1>11, <1>13
     DEF Promise!Input, Promise!Unread, Promise!Plus, Plus, Sent
<1> QED BY <1>7, <1>14

(* The tasks take the steps that they take there.                          *)
LEMMA ReaderIsReader ==
  ASSUME NEW r \in Readers, Reader(r) PROVE Promise!get_term_char(r)
<1>1. get_term_char(r) /\ UNCHANGED <<rx, typed>> /\ pc = "running"
  BY DEF Reader, get_term_char, uart_vars
<1> QED BY <1>1 DEF get_term_char, Promise!get_term_char

(* GETC, for the server.                                                   *)
LEMMA GetcIsGetc ==
  ASSUME NEW r \in Readers, ReceiveGetc(r), UNCHANGED <<uart_vars, send_vars>>
  PROVE  Promise!ReceiveGetc(r)
<1>1. pc = "running" /\ UNCHANGED <<rx, typed>> /\ Receive(r)
  BY DEF ReceiveGetc, Receive, Stop, uart_vars
<1>2. Promise!Receive(r)
  BY <1>1 DEF Receive, Promise!Receive
<1>3. CASE in_tid # NOBODY
  <2>1. Stop("aborted")
    BY <1>3 DEF ReceiveGetc
  <2>2. Promise!Stop("aborted")
    BY <1>1, <2>1 DEF Stop, Promise!Stop
  <2> QED BY <1>2, <1>3, <2>2 DEF Promise!ReceiveGetc
<1>4. CASE ~(in_tid # NOBODY)
  <2>1. _term_try_getc(input_q, r) /\ UNCHANGED <<input, typed, pc>>
    BY <1>4 DEF ReceiveGetc
  <2>2. Promise!_term_try_getc(input_q, r)
    BY <2>1 DEF
       _term_try_getc, cbuf_count, cbuf_consume, cbuf_peek, Around, Plus,
       Promise!_term_try_getc, Promise!cbuf_count, Promise!cbuf_consume,
       Promise!cbuf_peek, Promise!Around, Promise!Plus
  <2> HIDE DEF Promise!_term_try_getc
  <2> QED BY <1>1, <1>2, <1>4, <2>1, <2>2 DEF Promise!ReceiveGetc
<1> QED BY <1>3, <1>4

(* What the notifier has sent, for the server.                             *)
LEMMA InputIsInput ==
  ASSUME ReceiveInput, UNCHANGED <<uart_vars, send_vars>>
  PROVE  Promise!ReceiveInput
<1> DEFINE len == Head(inbox).length
           after == IF len > 1 THEN cbuf_bulk_produce(input_q, input)
                    ELSE cbuf_produce(input_q, input[1])
<1>1. pc = "running" /\ UNCHANGED <<rx, typed>> /\ Receive(NOTIFIER)
  BY DEF ReceiveInput, Receive, Stop, uart_vars
<1>2. Promise!Receive(Promise!NOTIFIER)
  BY <1>1 DEF Receive, Promise!Receive, Promise!NOTIFIER, NOTIFIER
<1>3. after = IF len > 1 THEN Promise!cbuf_bulk_produce(input_q, input)
              ELSE Promise!cbuf_produce(input_q, input[1])
  BY DEF cbuf_bulk_produce, cbuf_produce, Around, Offsets,
         Promise!cbuf_bulk_produce, Promise!cbuf_produce, Promise!Around,
         Promise!Offsets
<1>4. HeadInside(input_q) <=> Promise!HeadInside(input_q)
  BY DEF HeadInside, Promise!HeadInside, Offsets, Promise!Offsets
<1>5. CASE len = 1 /\ ~HeadInside(input_q)
  <2>1. Stop("smashed")
    BY <1>5 DEF ReceiveInput
  <2>2. Promise!Stop("smashed")
    BY <1>1, <2>1 DEF Stop, Promise!Stop
  <2> QED BY <1>2, <1>4, <1>5, <2>2 DEF Promise!ReceiveInput
<1>6. CASE ~(len = 1 /\ ~HeadInside(input_q))
  <2>1. /\ IF in_tid # NOBODY THEN _term_try_getc(after, in_tid)
           ELSE input_q' = after /\ UNCHANGED <<in_tid, readers, got>>
        /\ UNCHANGED <<input, typed, pc>>
    BY <1>6, Zenon DEF ReceiveInput
  <2> HIDE DEF after
  <2>2. _term_try_getc(after, in_tid) => Promise!_term_try_getc(after, in_tid)
    BY DEF
       _term_try_getc, cbuf_count, cbuf_consume, cbuf_peek, Around, Plus,
       Promise!_term_try_getc, Promise!cbuf_count, Promise!cbuf_consume,
       Promise!cbuf_peek, Promise!Around, Promise!Plus
  <2> QED BY <1>1, <1>2, <1>3, <1>4, <1>6, <2>1, <2>2
          DEF Promise!ReceiveInput
<1> QED BY <1>5, <1>6

(* A handler that halts the kernel leaves the terminal server's side as it *)
(* is.                                                                     *)
LEMMA InterruptIsInput ==
  ASSUME UART_FIFO_SIZE <= FIFO, ON_THE_WAY <= TYPE_AHEAD,
         DeviceInv, ByteInv, Interrupt
  PROVE  [Promise!Next]_Promise!vars
<1>1. pc = "running"
  BY DEF Interrupt
<1>2. ASSUME NEW how \in {"halted", "surprised"}, Halt(how)
      PROVE  UNCHANGED Promise!vars
  BY <1>1, <1>2 DEF Halt, Stop, uart_vars, Promise!vars
<1>3. ASSUME irq_uart2_recv PROVE [Promise!Next]_Promise!vars
  <2>1. CASE Deliver
    BY <2>1, DeliverIsInput DEF Promise!Next
  <2>2. CASE NobodyWaits
    BY <2>2 DEF NobodyWaits, uvars, server_vars, vars, uart_vars,
                Promise!vars
  <2>3. CASE \E how \in {"halted", "surprised"} : Halt(how)
    BY <1>2, <2>3
  <2> QED BY <1>3, <2>1, <2>2, <2>3 DEF irq_uart2_recv, RecvHalts
<1>4. ASSUME irq_uart2_send PROVE UNCHANGED Promise!vars
  <2>1. CASE UNCHANGED <<server_vars, rx, silent, overrun, awaits_recv>>
    BY <2>1 DEF server_vars, vars, Promise!vars
  <2>2. CASE \E how \in {"halted", "surprised"} : Halt(how)
    BY <1>2, <2>2
  <2> QED BY <1>4, <2>1, <2>2 DEF irq_uart2_send
<1> QED BY <1>2, <1>3, <1>4 DEF Interrupt, irq_uart2

(***************************************************************************)
(* The UART, the handler and the notifier keep what TermInput promises of  *)
(* them: what the notifier sends is what was typed, next and in order, and *)
(* nothing before it is lost while the kernel runs.  A byte that the UART  *)
(* loses is never handed over: the handler sees the error first.           *)
(***************************************************************************)
THEOREM NotifierSendsWhatWasTyped ==
  ON_THE_WAY < LENGTH /\ ON_THE_WAY <= TYPE_AHEAD /\ UART_FIFO_SIZE <= FIFO
    => (USpec => ImplementsTermInput)
<1> SUFFICES ASSUME ON_THE_WAY < LENGTH, ON_THE_WAY <= TYPE_AHEAD,
                    UART_FIFO_SIZE <= FIFO
             PROVE  USpec => ImplementsTermInput
  OBVIOUS
<1>1. UInit => ByteInv /\ DeviceInv
  BY BytesInit, DeviceInit
<1>2. DeviceInv /\ ByteInv /\ [UNext]_uvars => DeviceInv' /\ ByteInv'
  BY DeviceStep, BytesStep
<1>3. UInit => Promise!Init
  BY DEF UInit, Init, Promise!Init, cbuf_init, Promise!cbuf_init, Offsets,
         Promise!Offsets
<1>4. DeviceInv /\ ByteInv /\ [UNext]_uvars => [Promise!Next]_Promise!vars
  <2> SUFFICES ASSUME DeviceInv, ByteInv, [UNext]_uvars
               PROVE  [Promise!Next]_Promise!vars
    OBVIOUS
  <2>1. CASE Type
    BY <2>1, TypeIsNoStep
  <2>2. CASE Silence \/ Transmit \/ AwaitRecv \/ AwaitSend
             \/ \E len \in LENGTHS : CarrierGets(len)
    <3>1. UNCHANGED <<server_vars, rx>>
      BY <2>2 DEF Silence, Transmit, AwaitRecv, AwaitSend, CarrierGets,
                  uart_vars
    <3> QED BY <3>1 DEF server_vars, vars, Promise!vars
  <2>3. CASE Interrupt
    BY <2>3, InterruptIsInput
  <2>4. CASE Server
    BY <2>4, GetcIsGetc, InputIsInput DEF Server, Promise!Next
  <2>5. CASE \E r \in Readers : Reader(r)
    BY <2>5, ReaderIsReader DEF Promise!Next
  <2>6. CASE UNCHANGED uvars
    BY <2>6 DEF uvars, server_vars, vars, uart_vars, Promise!vars
  <2> QED BY <2>1, <2>2, <2>3, <2>4, <2>5, <2>6 DEF UNext, Device
<1> QED BY <1>1, <1>2, <1>3, <1>4, PTL
        DEF USpec, ImplementsTermInput, Promise!Spec
=============================================================================

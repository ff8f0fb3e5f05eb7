-------------------------- MODULE TermServerProofs --------------------------
(***************************************************************************)
(* The output side of the terminal server, for any clients, any number and *)
(* size of buffers and any FIFO: the server and the carrier agree on the   *)
(* buffers (CarrierIsWhereItSeems), the server overwrites nothing that is  *)
(* still to be pumped (NothingIsOverwritten), no client goes before its    *)
(* string is in the buffers (ClientsAreKept), and every byte goes out      *)
(* once and in order (BytesGoOutInOrder).                                  *)
(***************************************************************************)
EXTENDS TermServer, SequenceTheorems, TLAPS

-----------------------------------------------------------------------------
(* Arithmetic modulo a number.                                             *)

(* Quotient and remainder.                                                 *)
LEMMA DivMod ==
  ASSUME NEW a \in Int, NEW m \in Nat \ {0}
  PROVE  /\ a = m * (a \div m) + (a % m)
         /\ a % m \in 0 .. m - 1
         /\ a \div m \in Int
BY Z3

(* Zero is the only multiple of m below m.                                 *)
LEMMA SmallMultiple ==
  ASSUME NEW k \in Int, NEW m \in Nat \ {0}, m * k < m, -m < m * k
  PROVE  k = 0
<1>1. CASE k >= 1
  <2>1. m * k >= m
    BY <1>1, Z3
  <2> QED BY <2>1
<1>2. CASE k <= -1
  <2>1. m * k <= -m
    BY <1>2, Z3
  <2> QED BY <2>1
<1> QED BY <1>1, <1>2

(* The remainder is unique.                                                *)
LEMMA ModIs ==
  ASSUME NEW a \in Int, NEW m \in Nat \ {0}, NEW q \in Int,
         NEW r \in 0 .. m - 1, a = m * q + r
  PROVE  a % m = r
<1> DEFINE d == a \div m
           k == q - d
<1>1. a = m * d + (a % m) /\ a % m \in 0 .. m - 1 /\ d \in Int
  BY DivMod
<1>2. m * k = (a % m) - r
  BY <1>1, Z3
<1>3. k \in Int /\ m * k < m /\ -m < m * k
  BY <1>1, <1>2
<1>4. m * k = 0
  BY <1>3, SmallMultiple
<1> QED
  BY <1>1, <1>2, <1>4

(* A remainder may be taken early.                                         *)
LEMMA PlusMod ==
  ASSUME NEW a \in Int, NEW b \in Int, NEW m \in Nat \ {0}
  PROVE  ((a % m) + b) % m = (a + b) % m
<1> DEFINE c == (a % m) + b
           q == (a \div m) + (c \div m)
<1>1. /\ a = m * (a \div m) + (a % m)
      /\ a % m \in 0 .. m - 1 /\ a \div m \in Int
  BY DivMod
<1>2. c \in Int
  BY <1>1
<1>3. c = m * (c \div m) + (c % m) /\ c % m \in 0 .. m - 1 /\ c \div m \in Int
  <2> HIDE DEF c
  <2> QED BY <1>2, DivMod
<1>4. a + b = m * q + (c % m) /\ q \in Int /\ a + b \in Int
  BY <1>1, <1>3, Z3
<1> HIDE DEF q
<1> QED
  BY <1>3, <1>4, ModIs

(* The number of the byte at position n of the output.                     *)
Number(n) == n % BYTES

LEMMA NumberPlus ==
  ASSUME NEW n \in Nat, NEW k \in Nat
  PROVE  /\ Number(n) \in Numbers
         /\ Plus(Number(n), k) = Number(n + k)
<1>1. n % BYTES \in 0 .. BYTES - 1
  BY DivMod, BytesAssumption
<1>2. ((n % BYTES) + k) % BYTES = (n + k) % BYTES
  <2>1. n \in Int /\ k \in Int
    OBVIOUS
  <2> QED BY <2>1, PlusMod, BytesAssumption, Zenon
<1> QED
  BY <1>1, <1>2 DEF Number, Numbers, Plus

(* Numbers add up.                                                         *)
LEMMA PlusPlus ==
  ASSUME NEW n \in Numbers, NEW j \in Nat, NEW k \in Nat
  PROVE  /\ Plus(n, j) \in Numbers
         /\ Plus(Plus(n, j), k) = Plus(n, j + k)
<1>1. n \in Int /\ n + j \in Int /\ k \in Int /\ n + (j + k) = (n + j) + k
  BY BytesAssumption DEF Numbers
<1>2. (((n + j) % BYTES) + k) % BYTES = ((n + j) + k) % BYTES
  BY <1>1, PlusMod, BytesAssumption, Zenon
<1>3. (n + j) % BYTES \in 0 .. BYTES - 1
  BY <1>1, DivMod, BytesAssumption
<1> QED
  BY <1>1, <1>2, <1>3 DEF Plus, Numbers

(* The buffers form a ring.                                                *)
LEMMA NextBufferIs ==
  ASSUME NEW b \in Buffers
  PROVE  /\ NextBuffer(b) = IF b + 1 = OUTPUT_BUFFER_COUNT THEN 0 ELSE b + 1
         /\ NextBuffer(b) \in Buffers
         /\ NextBuffer(b) # b
<1> DEFINE m == OUTPUT_BUFFER_COUNT
<1>1. m \in Nat \ {0} /\ m > 1 /\ b \in 0 .. m - 1
  BY BufferAssumption DEF Buffers
<1>2. CASE b + 1 = m
  <2>1. b + 1 \in Int /\ 1 \in Int /\ 0 \in 0 .. m - 1 /\ b + 1 = m * 1 + 0
    BY <1>1, <1>2
  <2>2. (b + 1) % m = 0
    <3> HIDE DEF m
    <3> QED BY <1>1, <2>1, ModIs
  <2> QED BY <1>1, <1>2, <2>2 DEF NextBuffer, Buffers
<1>3. CASE b + 1 # m
  <2>1. /\ b + 1 \in Int /\ 0 \in Int /\ b + 1 \in 0 .. m - 1
        /\ b + 1 = m * 0 + (b + 1)
    BY <1>1, <1>3
  <2>2. (b + 1) % m = b + 1
    <3> HIDE DEF m
    <3> QED BY <1>1, <2>1, ModIs
  <2> QED BY <1>1, <1>3, <2>2 DEF NextBuffer, Buffers
<1> QED
  BY <1>2, <1>3

-----------------------------------------------------------------------------
(* Sequences.                                                              *)

(* A sequence that has grown at its end.                                   *)
LEMMA AppendIs ==
  ASSUME NEW S, NEW s \in Seq(S), NEW x \in S, NEW n, n = Append(s, x)
  PROVE  /\ n \in Seq(S) /\ n # <<>>
         /\ Len(s) \in Nat /\ Len(n) = Len(s) + 1
         /\ DOMAIN s = 1 .. Len(s) /\ DOMAIN n = 1 .. Len(s) + 1
         /\ n[Len(s) + 1] = x
         /\ \A i \in DOMAIN s : n[i] = s[i]
BY AppendProperties, LenProperties

(* A sequence that has lost its head.                                      *)
LEMMA TailIs ==
  ASSUME NEW S, NEW s \in Seq(S), s # <<>>, NEW n, n = Tail(s)
  PROVE  /\ n \in Seq(S)
         /\ Head(s) = s[1] /\ Head(s) \in S /\ 1 \in DOMAIN s
         /\ Len(s) \in Nat \ {0} /\ Len(n) = Len(s) - 1
         /\ DOMAIN s = 1 .. Len(s) /\ DOMAIN n = 1 .. Len(s) - 1
         /\ \A i \in DOMAIN n : n[i] = s[i + 1]
<1>1. Len(s) \in Nat /\ DOMAIN s = 1 .. Len(s) /\ s \in [1 .. Len(s) -> S]
  BY LenProperties
<1>2. Len(s) # 0
  BY <1>1, EmptySeq
<1> QED
  BY <1>1, <1>2, HeadTailProperties

(* A sequence whose head has changed.                                      *)
LEMMA HeadReplaced ==
  ASSUME NEW S, NEW s \in Seq(S), s # <<>>, NEW x \in S,
         NEW n, n = <<x>> \o Tail(s)
  PROVE  /\ n \in Seq(S) /\ n # <<>>
         /\ Len(n) = Len(s) /\ DOMAIN n = DOMAIN s
         /\ n[1] = x
         /\ \A i \in DOMAIN s : i # 1 => n[i] = s[i]
<1> DEFINE t == Tail(s)
<1>1. /\ t \in Seq(S)
      /\ Len(s) \in Nat \ {0} /\ Len(t) = Len(s) - 1
      /\ DOMAIN s = 1 .. Len(s) /\ DOMAIN t = 1 .. Len(s) - 1
      /\ \A i \in DOMAIN t : t[i] = s[i + 1]
  BY TailIs
<1>2. <<x>> \in Seq(S) /\ Len(<<x>>) = 1 /\ <<x>>[1] = x
  OBVIOUS
<1> HIDE DEF t
<1>3. n = <<x>> \o t
  BY DEF t
<1>4. /\ n \in Seq(S) /\ Len(n) = Len(s)
      /\ \A i \in 1 .. Len(s) : n[i] = IF i <= 1 THEN <<x>>[i] ELSE t[i - 1]
  BY <1>1, <1>2, <1>3, ConcatProperties
<1>5. DOMAIN n = 1 .. Len(n) /\ n # <<>>
  BY <1>1, <1>4, LenProperties, EmptySeq
<1>6. ASSUME NEW i \in DOMAIN s, i # 1 PROVE n[i] = s[i]
  <2>1. i - 1 \in DOMAIN t /\ (i - 1) + 1 = i /\ ~(i <= 1)
    BY <1>1, <1>6
  <2> QED BY <1>1, <1>4, <2>1
<1>7. n[1] = x
  BY <1>1, <1>2, <1>4
<1> QED
  BY <1>1, <1>4, <1>5, <1>6, <1>7

-----------------------------------------------------------------------------
(* The inductive invariant.                                                *)

Offsets == 0 .. OUTPUT_BUFFER_SIZE - 1
Strings == [tid : Clients, first : Numbers, length : Nat \ {0}]

TypeOK ==
  /\ obuffers \in [Buffers -> [Offsets -> Numbers]]
  /\ obuffer_idx \in Buffers /\ carrier_idx \in Buffers
  /\ out_head \in Offsets
  /\ carrier \in BOOLEAN
  /\ output_q \in Seq(Strings)
  /\ pc \in {"receive", "fill", "send"}
  /\ puts \in [Clients -> Nat]
  /\ inbox \in Seq(Clients \cup {CARRIER})
  /\ pump \in [buffer_idx : Buffers, chunk : Nat, length : Nat,
               asking : BOOLEAN]
  /\ pump.chunk + pump.length <= OUTPUT_BUFFER_SIZE
  /\ received \in Numbers

(* The server fills no buffer that the carrier is at.  When it has come    *)
(* round to the carrier's it has filled nothing of it.                     *)
RingOK ==
  /\ SameBuffer
  /\ pc = "fill" => obuffer_idx # carrier_idx
  /\ obuffer_idx = carrier_idx => out_head = 0

(* The carrier asks once, when it has nothing left, and the server sends   *)
(* only to a carrier that waits.                                           *)
CarrierOK ==
  /\ carrier => pump.asking
  /\ pc = "send" => carrier
  /\ pump.asking => pump.length = 0
  /\ \A i \in DOMAIN inbox : inbox[i] = CARRIER => pump.asking /\ ~carrier

(* A client that waits does so in one place.                               *)
OncePerClient ==
  /\ \A i, j \in DOMAIN inbox : inbox[i] = inbox[j] => i = j
  /\ \A i, j \in DOMAIN output_q : output_q[i].tid = output_q[j].tid => i = j
  /\ \A i \in DOMAIN inbox, j \in DOMAIN output_q :
       inbox[i] # output_q[j].tid

RingInv == TypeOK /\ RingOK /\ CarrierOK /\ OncePerClient /\ ClientsWait

(* At the start nobody has asked for anything but the carrier.             *)
LEMMA RingInit == Init => RingInv
<1> SUFFICES ASSUME Init PROVE RingInv
  OBVIOUS
<1>1. /\ 0 \in Buffers /\ OUTPUT_BUFFER_COUNT - 1 \in Buffers
      /\ 0 # OUTPUT_BUFFER_COUNT - 1
      /\ 0 \in Offsets /\ 0 \in Numbers
  BY BufferAssumption, BytesAssumption DEF Buffers, Offsets, Numbers
<1>2. TypeOK
  <2>1. obuffers \in [Buffers -> [Offsets -> Numbers]]
    BY <1>1 DEF Init, Offsets
  <2>2. output_q \in Seq(Strings) /\ inbox \in Seq(Clients \cup {CARRIER})
    BY DEF Init
  <2>3. pump \in [buffer_idx : Buffers, chunk : Nat, length : Nat,
                  asking : BOOLEAN]
    BY <1>1 DEF Init
  <2>4. pump.chunk + pump.length <= OUTPUT_BUFFER_SIZE
    BY BufferAssumption DEF Init
  <2> QED
    BY <1>1, <2>1, <2>2, <2>3, <2>4 DEF Init, TypeOK
<1>3. RingOK /\ CarrierOK
  BY <1>1 DEF Init, RingOK, CarrierOK, SameBuffer
<1>4. OncePerClient /\ ClientsWait
  BY ClientsAssumption DEF Init, OncePerClient, ClientsWait
<1> QED
  BY <1>2, <1>3, <1>4 DEF RingInv

-----------------------------------------------------------------------------
(* The steps keep the invariant.                                           *)

(* The inbox after a request has joined it.                                *)
LEMMA AsksIs ==
  ASSUME TypeOK, NEW x \in Clients \cup {CARRIER}, inbox' = Append(inbox, x)
  PROVE  /\ inbox' \in Seq(Clients \cup {CARRIER})
         /\ \A i \in DOMAIN inbox : i \in DOMAIN inbox' /\ inbox'[i] = inbox[i]
         /\ \E k \in DOMAIN inbox' :
              /\ inbox'[k] = x
              /\ \A i \in DOMAIN inbox' : i = k \/ i \in DOMAIN inbox
<1>1. inbox \in Seq(Clients \cup {CARRIER})
  BY DEF TypeOK
<1>2. /\ inbox' \in Seq(Clients \cup {CARRIER})
      /\ Len(inbox) \in Nat
      /\ DOMAIN inbox = 1 .. Len(inbox)
      /\ DOMAIN inbox' = 1 .. Len(inbox) + 1
      /\ inbox'[Len(inbox) + 1] = x
      /\ \A i \in DOMAIN inbox : inbox'[i] = inbox[i]
  BY <1>1, AppendIs
<1>3. \A i \in DOMAIN inbox : i \in DOMAIN inbox'
  BY <1>2
<1>4. Len(inbox) + 1 \in DOMAIN inbox'
  BY <1>2
<1>5. \A i \in DOMAIN inbox' : i = Len(inbox) + 1 \/ i \in DOMAIN inbox
  BY <1>2
<1> QED
  BY <1>2, <1>3, <1>4, <1>5

(* Puts of a client that waits for nothing.                                *)
LEMMA PutsRing ==
  ASSUME RingInv, NEW c \in Clients, NEW len \in LENGTHS,
         term_put_string(c, len)
  PROVE  RingInv'
<1>1. /\ puts[c] = 0 /\ puts' = [puts EXCEPT ![c] = len]
      /\ inbox' = Append(inbox, c)
      /\ UNCHANGED <<server, pump, received, sent>>
      /\ len \in Nat \ {0}
  BY LengthsAssumption DEF term_put_string
<1>2. TypeOK /\ RingOK /\ CarrierOK /\ OncePerClient /\ ClientsWait
  BY DEF RingInv
<1>3. /\ inbox' \in Seq(Clients \cup {CARRIER})
      /\ \A i \in DOMAIN inbox : i \in DOMAIN inbox' /\ inbox'[i] = inbox[i]
      /\ \E k \in DOMAIN inbox' :
           /\ inbox'[k] = c
           /\ \A i \in DOMAIN inbox' : i = k \/ i \in DOMAIN inbox
  BY <1>1, <1>2, AsksIs
<1>4. PICK k \in DOMAIN inbox' :
        inbox'[k] = c /\ \A i \in DOMAIN inbox' : i = k \/ i \in DOMAIN inbox
  BY <1>3
<1>5. /\ \A i \in DOMAIN inbox : inbox[i] # c
      /\ \A i \in DOMAIN output_q : output_q[i].tid # c
  BY <1>1, <1>2 DEF ClientsWait
<1>6. TypeOK'
  BY <1>1, <1>2, <1>3 DEF TypeOK, server
<1>7. RingOK'
  BY <1>1, <1>2 DEF RingOK, SameBuffer, server
<1>8. CarrierOK'
  <2>1. c # CARRIER
    BY ClientsAssumption
  <2> QED
    BY <1>1, <1>2, <1>3, <1>4, <2>1 DEF CarrierOK, server
<1>9. OncePerClient'
  BY <1>1, <1>2, <1>3, <1>4, <1>5 DEF OncePerClient, server
<1>10. ClientsWait'
  <2> SUFFICES ASSUME NEW d \in Clients
               PROVE  puts'[d] # 0 <=>
                        \/ \E i \in DOMAIN inbox' : inbox'[i] = d
                        \/ \E i \in DOMAIN output_q' : output_q'[i].tid = d
    BY DEF ClientsWait
  <2>1. puts'[d] = IF d = c THEN len ELSE puts[d]
    BY <1>1, <1>2 DEF TypeOK
  <2>2. UNCHANGED output_q
    BY <1>1 DEF server
  <2>3. CASE d = c
    BY <1>1, <1>4, <2>1, <2>3
  <2>4. CASE d # c
    <3>1. (\E i \in DOMAIN inbox' : inbox'[i] = d)
             <=> \E i \in DOMAIN inbox : inbox[i] = d
      BY <1>3, <1>4, <2>4
    <3> QED
      BY <1>2, <2>1, <2>2, <2>4, <3>1 DEF ClientsWait
  <2> QED BY <2>3, <2>4
<1> QED
  BY <1>6, <1>7, <1>8, <1>9, <1>10 DEF RingInv

(* The carrier asks for a buffer.                                          *)
LEMMA CarrierAsksRing ==
  ASSUME RingInv, CarrierAsks
  PROVE  RingInv'
<1>1. /\ ~pump.asking /\ pump.length = 0
      /\ pump' = [pump EXCEPT !.asking = TRUE]
      /\ inbox' = Append(inbox, CARRIER)
      /\ UNCHANGED <<server, puts, received, sent>>
  BY DEF CarrierAsks
<1>2. TypeOK /\ RingOK /\ CarrierOK /\ OncePerClient /\ ClientsWait
  BY DEF RingInv
<1>3. /\ inbox' \in Seq(Clients \cup {CARRIER})
      /\ \A i \in DOMAIN inbox : i \in DOMAIN inbox' /\ inbox'[i] = inbox[i]
      /\ \E k \in DOMAIN inbox' :
           /\ inbox'[k] = CARRIER
           /\ \A i \in DOMAIN inbox' : i = k \/ i \in DOMAIN inbox
  BY <1>1, <1>2, AsksIs
<1>4. PICK k \in DOMAIN inbox' :
        /\ inbox'[k] = CARRIER
        /\ \A i \in DOMAIN inbox' : i = k \/ i \in DOMAIN inbox
  BY <1>3
<1>5. /\ pump'.asking /\ pump'.length = 0
      /\ pump'.buffer_idx = pump.buffer_idx /\ pump'.chunk = pump.chunk
      /\ pump' \in [buffer_idx : Buffers, chunk : Nat, length : Nat,
                    asking : BOOLEAN]
  BY <1>1, <1>2 DEF TypeOK
<1>6. \A i \in DOMAIN inbox : inbox[i] # CARRIER
  BY <1>1, <1>2 DEF CarrierOK
<1>7. \A i \in DOMAIN output_q : output_q[i].tid # CARRIER
  <2>1. \A i \in DOMAIN output_q : output_q[i] \in Strings
    BY <1>2 DEF TypeOK
  <2> QED BY <2>1, ClientsAssumption DEF Strings
<1>8. TypeOK'
  BY <1>1, <1>2, <1>3, <1>5 DEF TypeOK, server
<1>9. RingOK'
  BY <1>1, <1>2, <1>5 DEF RingOK, SameBuffer, server
<1>10. CarrierOK'
  <2>1. ~carrier
    BY <1>1, <1>2 DEF CarrierOK
  <2> QED
    BY <1>1, <1>2, <1>5, <2>1 DEF CarrierOK, server
<1>11. OncePerClient'
  BY <1>1, <1>2, <1>3, <1>4, <1>6, <1>7 DEF OncePerClient, server
<1>12. ClientsWait'
  <2> SUFFICES ASSUME NEW d \in Clients
               PROVE  puts'[d] # 0 <=>
                        \/ \E i \in DOMAIN inbox' : inbox'[i] = d
                        \/ \E i \in DOMAIN output_q' : output_q'[i].tid = d
    BY DEF ClientsWait
  <2>1. d # CARRIER
    BY ClientsAssumption
  <2>2. UNCHANGED <<output_q, puts>>
    BY <1>1 DEF server
  <2>3. (\E i \in DOMAIN inbox' : inbox'[i] = d)
          <=> \E i \in DOMAIN inbox : inbox[i] = d
    BY <1>3, <1>4, <2>1
  <2> QED
    BY <1>2, <2>2, <2>3 DEF ClientsWait
<1> QED
  BY <1>8, <1>9, <1>10, <1>11, <1>12 DEF RingInv

(* The carrier pumps out some of its buffer.                               *)
LEMMA PumpRing ==
  ASSUME RingInv, Pump
  PROVE  RingInv'
<1> DEFINE n == irq_uart2_send(pump.length)
<1>1. /\ ~pump.asking /\ pump.length > 0
      /\ pump' = [pump EXCEPT !.chunk = @ + n, !.length = @ - n]
      /\ UNCHANGED <<server, puts, inbox, received>>
  BY DEF Pump
<1>2. TypeOK /\ RingOK /\ CarrierOK /\ OncePerClient /\ ClientsWait
  BY DEF RingInv
<1>3. n \in Nat /\ n <= pump.length
  BY <1>2, FifoAssumption DEF irq_uart2_send, Fit, TypeOK
<1> HIDE DEF n
<1>4. /\ pump'.asking = pump.asking /\ pump'.buffer_idx = pump.buffer_idx
      /\ pump' \in [buffer_idx : Buffers, chunk : Nat, length : Nat,
                    asking : BOOLEAN]
      /\ pump'.chunk + pump'.length <= OUTPUT_BUFFER_SIZE
  <2>1. /\ pump \in [buffer_idx : Buffers, chunk : Nat, length : Nat,
                     asking : BOOLEAN]
        /\ pump.chunk \in Nat /\ pump.length \in Nat
        /\ pump.chunk + pump.length <= OUTPUT_BUFFER_SIZE
    BY <1>2 DEF TypeOK
  <2>2. /\ pump'.asking = pump.asking /\ pump'.buffer_idx = pump.buffer_idx
        /\ pump'.chunk = pump.chunk + n /\ pump'.length = pump.length - n
    BY <1>1, <2>1
  <2>3. pump.chunk + n \in Nat /\ pump.length - n \in Nat
    BY <1>3, <2>1
  <2>4. pump' \in [buffer_idx : Buffers, chunk : Nat, length : Nat,
                   asking : BOOLEAN]
    BY <1>1, <2>1, <2>3
  <2>5. pump'.chunk + pump'.length = pump.chunk + pump.length
    BY <1>3, <2>1, <2>2
  <2> QED
    BY <2>1, <2>2, <2>4, <2>5
<1>5. TypeOK'
  BY <1>1, <1>2, <1>4 DEF TypeOK, server
<1>6. RingOK' /\ CarrierOK'
  BY <1>1, <1>2, <1>4 DEF RingOK, CarrierOK, SameBuffer, server
<1>7. OncePerClient' /\ ClientsWait'
  BY <1>1, <1>2 DEF OncePerClient, ClientsWait, server
<1> QED
  BY <1>5, <1>6, <1>7 DEF RingInv

(* The inbox after its oldest request has been received.                   *)
LEMMA ReceivesIs ==
  ASSUME RingInv, inbox # <<>>, inbox' = Tail(inbox)
  PROVE  /\ inbox' \in Seq(Clients \cup {CARRIER})
         /\ Head(inbox) = inbox[1] /\ 1 \in DOMAIN inbox
         /\ \A i \in DOMAIN inbox' :
              /\ i + 1 \in DOMAIN inbox /\ i + 1 # 1
              /\ i \in Int
              /\ inbox'[i] = inbox[i + 1]
              /\ inbox'[i] # inbox[1]
         /\ \A i \in DOMAIN inbox : i # 1 => \E j \in DOMAIN inbox' : i = j + 1
<1>1. inbox \in Seq(Clients \cup {CARRIER}) /\ OncePerClient
  BY DEF RingInv, TypeOK
<1>2. /\ inbox' \in Seq(Clients \cup {CARRIER})
      /\ Head(inbox) = inbox[1] /\ 1 \in DOMAIN inbox
      /\ Len(inbox) \in Nat
      /\ DOMAIN inbox = 1 .. Len(inbox)
      /\ DOMAIN inbox' = 1 .. Len(inbox) - 1
      /\ \A i \in DOMAIN inbox' : inbox'[i] = inbox[i + 1]
  BY <1>1, TailIs
<1>3. \A i \in DOMAIN inbox' : /\ i + 1 \in DOMAIN inbox /\ i + 1 # 1
                               /\ i \in Int
                               /\ inbox'[i] = inbox[i + 1]
  BY <1>2
<1>4. \A i \in DOMAIN inbox' : inbox'[i] # inbox[1]
  BY <1>1, <1>2, <1>3 DEF OncePerClient
<1>5. ASSUME NEW i \in DOMAIN inbox, i # 1
      PROVE  \E j \in DOMAIN inbox' : i = j + 1
  <2>1. i - 1 \in DOMAIN inbox' /\ i = (i - 1) + 1
    BY <1>2, <1>5
  <2> QED BY <2>1
<1> QED
  BY <1>2, <1>3, <1>4, <1>5

(* The server receives the request of the carrier.                         *)
LEMMA ReceiveCarrierRing ==
  ASSUME RingInv, ReceiveCarrier
  PROVE  RingInv'
<1>1. /\ inbox # <<>> /\ Head(inbox) = CARRIER /\ inbox' = Tail(inbox)
      /\ carrier' = TRUE /\ pc' = "send"
      /\ UNCHANGED <<obuffers, obuffer_idx, out_head, carrier_idx, output_q,
                     puts, pump, received, sent>>
  BY DEF ReceiveCarrier
<1>2. TypeOK /\ RingOK /\ CarrierOK /\ OncePerClient /\ ClientsWait
  BY DEF RingInv
<1>3. /\ inbox' \in Seq(Clients \cup {CARRIER})
      /\ inbox[1] = CARRIER /\ 1 \in DOMAIN inbox
      /\ \A i \in DOMAIN inbox' :
           /\ i + 1 \in DOMAIN inbox /\ i + 1 # 1
           /\ i \in Int
           /\ inbox'[i] = inbox[i + 1]
           /\ inbox'[i] # CARRIER
      /\ \A i \in DOMAIN inbox : i # 1 => \E j \in DOMAIN inbox' : i = j + 1
  BY <1>1, ReceivesIs
<1>4. TypeOK'
  BY <1>1, <1>2, <1>3 DEF TypeOK
<1>5. RingOK' /\ CarrierOK'
  BY <1>1, <1>2, <1>3 DEF RingOK, CarrierOK, SameBuffer
<1>6. OncePerClient'
  BY <1>1, <1>2, <1>3 DEF OncePerClient
<1>7. ClientsWait'
  <2> SUFFICES ASSUME NEW d \in Clients
               PROVE  puts'[d] # 0 <=>
                        \/ \E i \in DOMAIN inbox' : inbox'[i] = d
                        \/ \E i \in DOMAIN output_q' : output_q'[i].tid = d
    BY DEF ClientsWait
  <2>1. d # CARRIER
    BY ClientsAssumption
  <2>2. (\E i \in DOMAIN inbox' : inbox'[i] = d)
          <=> \E i \in DOMAIN inbox : inbox[i] = d
    BY <1>3, <2>1
  <2> QED
    BY <1>1, <1>2, <2>2 DEF ClientsWait
<1> QED
  BY <1>4, <1>5, <1>6, <1>7 DEF RingInv

(* The server receives a string: its client moves from the inbox to the    *)
(* queue of strings.                                                       *)
LEMMA ReceivePutsRing ==
  ASSUME RingInv, NEW c \in Clients, ReceivePuts(c)
  PROVE  RingInv'
<1> DEFINE x == [tid |-> c, first |-> received, length |-> puts[c]]
<1>1. /\ pc = "receive" /\ inbox # <<>> /\ Head(inbox) = c
      /\ inbox' = Tail(inbox)
      /\ output_q' = Append(output_q, x)
      /\ received' = Plus(received, puts[c])
      /\ IF obuffer_idx # carrier_idx
         THEN EnterFill(out_head, output_q')
         ELSE UNCHANGED pc
      /\ UNCHANGED <<obuffers, obuffer_idx, out_head, carrier_idx, carrier,
                     puts, pump, sent>>
  BY DEF ReceivePuts, pbuf_produce
<1>2. TypeOK /\ RingOK /\ CarrierOK /\ OncePerClient /\ ClientsWait
  BY DEF RingInv
<1>3. /\ inbox' \in Seq(Clients \cup {CARRIER})
      /\ inbox[1] = c /\ 1 \in DOMAIN inbox
      /\ \A i \in DOMAIN inbox' :
           /\ i + 1 \in DOMAIN inbox /\ i + 1 # 1
           /\ i \in Int
           /\ inbox'[i] = inbox[i + 1]
           /\ inbox'[i] # c
      /\ \A i \in DOMAIN inbox : i # 1 => \E j \in DOMAIN inbox' : i = j + 1
  BY <1>1, ReceivesIs
<1>4. x \in Strings /\ x.tid = c
  <2>1. puts[c] \in Nat /\ puts[c] # 0
    BY <1>2, <1>3 DEF TypeOK, ClientsWait
  <2> QED BY <1>2, <2>1 DEF Strings, TypeOK
<1> HIDE DEF x
<1>5. /\ output_q' \in Seq(Strings)
      /\ \A i \in DOMAIN output_q : /\ i \in DOMAIN output_q'
                                    /\ output_q'[i] = output_q[i]
      /\ \E k \in DOMAIN output_q' :
           /\ output_q'[k] = x
           /\ \A i \in DOMAIN output_q' : i = k \/ i \in DOMAIN output_q
  <2>1. output_q \in Seq(Strings)
    BY <1>2 DEF TypeOK
  <2>2. /\ output_q' \in Seq(Strings)
        /\ Len(output_q) \in Nat
        /\ DOMAIN output_q = 1 .. Len(output_q)
        /\ DOMAIN output_q' = 1 .. Len(output_q) + 1
        /\ output_q'[Len(output_q) + 1] = x
        /\ \A i \in DOMAIN output_q : output_q'[i] = output_q[i]
    BY <1>1, <1>4, <2>1, AppendIs
  <2>3. \A i \in DOMAIN output_q : i \in DOMAIN output_q'
    BY <2>2
  <2>4. /\ Len(output_q) + 1 \in DOMAIN output_q'
        /\ \A i \in DOMAIN output_q' :
             i = Len(output_q) + 1 \/ i \in DOMAIN output_q
    BY <2>2
  <2> QED BY <2>2, <2>3, <2>4
<1>6. PICK k \in DOMAIN output_q' :
        /\ output_q'[k] = x
        /\ \A i \in DOMAIN output_q' : i = k \/ i \in DOMAIN output_q
  BY <1>5
<1>7. \A i \in DOMAIN output_q : output_q[i].tid # c
  BY <1>2, <1>3 DEF OncePerClient
<1>8. pc' \in {"receive", "fill"} /\ (pc' = "fill" => obuffer_idx # carrier_idx)
  BY <1>1 DEF EnterFill
<1>9. TypeOK'
  <2>1. received' \in Numbers
    BY <1>1, <1>2, PlusPlus DEF TypeOK
  <2> QED
    BY <1>1, <1>2, <1>3, <1>5, <1>8, <2>1 DEF TypeOK
<1>10. RingOK' /\ CarrierOK'
  BY <1>1, <1>2, <1>3, <1>8 DEF RingOK, CarrierOK, SameBuffer
<1>11. OncePerClient'
  <2>1. \A i, j \in DOMAIN inbox' : inbox'[i] = inbox'[j] => i = j
    BY <1>2, <1>3 DEF OncePerClient
  <2>2. \A i, j \in DOMAIN output_q' :
          output_q'[i].tid = output_q'[j].tid => i = j
    BY <1>2, <1>4, <1>5, <1>6, <1>7 DEF OncePerClient
  <2>3. \A i \in DOMAIN inbox', j \in DOMAIN output_q' :
          inbox'[i] # output_q'[j].tid
    BY <1>2, <1>3, <1>4, <1>5, <1>6 DEF OncePerClient
  <2> QED BY <2>1, <2>2, <2>3 DEF OncePerClient
<1>12. ClientsWait'
  <2> SUFFICES ASSUME NEW d \in Clients
               PROVE  puts'[d] # 0 <=>
                        \/ \E i \in DOMAIN inbox' : inbox'[i] = d
                        \/ \E i \in DOMAIN output_q' : output_q'[i].tid = d
    BY DEF ClientsWait
  <2>1. CASE d = c
    BY <1>1, <1>2, <1>3, <1>4, <1>6, <2>1 DEF ClientsWait
  <2>2. CASE d # c
    <3>1. (\E i \in DOMAIN inbox' : inbox'[i] = d)
            <=> \E i \in DOMAIN inbox : inbox[i] = d
      BY <1>3, <2>2
    <3>2. (\E i \in DOMAIN output_q' : output_q'[i].tid = d)
            <=> \E i \in DOMAIN output_q : output_q[i].tid = d
      BY <1>4, <1>5, <1>6, <2>2
    <3> QED
      BY <1>1, <1>2, <3>1, <3>2 DEF ClientsWait
  <2> QED BY <2>1, <2>2
<1> QED
  BY <1>9, <1>10, <1>11, <1>12 DEF RingInv

(* Nothing is left to fill with.                                           *)
LEMMA FillDoneRing ==
  ASSUME RingInv, FillDone
  PROVE  RingInv'
<1>1. TypeOK /\ RingOK /\ CarrierOK /\ OncePerClient /\ ClientsWait
  BY DEF RingInv
<1>2. pc' \in {"receive", "send"} /\ (pc' = "send" => carrier)
  BY DEF FillDone, AfterFill
<1>3. TypeOK' /\ RingOK' /\ CarrierOK'
  BY <1>1, <1>2 DEF FillDone, TypeOK, RingOK, CarrierOK, SameBuffer
<1>4. OncePerClient' /\ ClientsWait'
  BY <1>1 DEF FillDone, OncePerClient, ClientsWait
<1> QED
  BY <1>1, <1>3, <1>4 DEF RingInv

(* What a round of the filling loop has to do with.                        *)
First == Head(output_q)
Space == OUTPUT_BUFFER_SIZE - out_head
Chunk == Fit(Space, First.length)

(* There is something to copy in each round.                               *)
LEMMA ChunkIs ==
  ASSUME RingInv, output_q # <<>>
  PROVE  /\ First = output_q[1] /\ 1 \in DOMAIN output_q
         /\ First \in Strings
         /\ Chunk \in Nat \ {0} /\ Chunk <= Space /\ Chunk <= First.length
         /\ Chunk = Space \/ Chunk = First.length
         /\ out_head + Chunk <= OUTPUT_BUFFER_SIZE
         /\ Chunk = Space <=> out_head + Chunk = OUTPUT_BUFFER_SIZE
<1>1. /\ output_q \in Seq(Strings)
      /\ out_head \in 0 .. OUTPUT_BUFFER_SIZE - 1
  BY DEF RingInv, TypeOK, Offsets
<1>2. First = output_q[1] /\ 1 \in DOMAIN output_q /\ First \in Strings
  BY <1>1, TailIs DEF First
<1>3. First.length \in Nat \ {0} /\ Space \in Nat \ {0}
  BY <1>1, <1>2, BufferAssumption DEF Strings, Space
<1>4. /\ Chunk \in Nat \ {0} /\ Chunk <= Space /\ Chunk <= First.length
      /\ Chunk = Space \/ Chunk = First.length
  BY <1>3 DEF Chunk, Fit
<1> QED
  BY <1>1, <1>2, <1>4, BufferAssumption DEF Space

(* What is left of the oldest string after n bytes.                        *)
RestOf(x, n) == [x EXCEPT !.first = Plus(@, n), !.length = @ - n]

(* It is a string if there is something left.                              *)
LEMMA RestOfIs ==
  ASSUME NEW x \in Strings, NEW n \in Nat, n < x.length
  PROVE  /\ RestOf(x, n) \in Strings
         /\ RestOf(x, n).tid = x.tid
         /\ RestOf(x, n).first = Plus(x.first, n)
         /\ RestOf(x, n).length = x.length - n
<1>1. x.first \in Numbers /\ x.length \in Nat /\ 0 \in Nat
  BY DEF Strings
<1>2. Plus(x.first, n) \in Numbers
  BY <1>1, PlusPlus
<1>3. x.length - n \in Nat \ {0}
  BY <1>1
<1> QED
  BY <1>2, <1>3 DEF RestOf, Strings

(* A round either finishes the oldest string, and lets its client go, or   *)
(* leaves the rest of it in front.                                         *)
LEMMA CopiedIs ==
  ASSUME RingInv, output_q # <<>>, Copied(First, Chunk)
  PROVE  \/ /\ Chunk = First.length
            /\ output_q' = Tail(output_q)
            /\ puts' = [puts EXCEPT ![First.tid] = 0]
         \/ /\ Chunk # First.length
            /\ RestOf(First, Chunk) \in Strings
            /\ output_q' = <<RestOf(First, Chunk)>> \o Tail(output_q)
            /\ puts' = puts
<1>1. /\ First \in Strings
      /\ Chunk \in Nat \ {0} /\ Chunk <= First.length
  BY ChunkIs
<1>2. CASE Chunk = First.length
  BY <1>2 DEF Copied
<1>3. CASE Chunk # First.length
  <2>1. Chunk \in Nat /\ Chunk < First.length
    BY <1>1, <1>3 DEF Strings
  <2>2. RestOf(First, Chunk) \in Strings
    BY <1>1, <2>1, RestOfIs
  <2> QED
    BY <1>3, <2>2 DEF Copied, RestOf
<1> QED
  BY <1>2, <1>3

(* The clients whose strings are queued afterwards.                        *)
LEMMA CopiedRing ==
  ASSUME RingInv, output_q # <<>>, Copied(First, Chunk), UNCHANGED inbox
  PROVE  /\ output_q' \in Seq(Strings)
         /\ puts' \in [Clients -> Nat]
         /\ OncePerClient' /\ ClientsWait'
<1>1. TypeOK /\ OncePerClient /\ ClientsWait
  BY DEF RingInv
<1>2. output_q \in Seq(Strings) /\ puts \in [Clients -> Nat]
  BY <1>1 DEF TypeOK
<1>3. First = output_q[1] /\ 1 \in DOMAIN output_q /\ First \in Strings
  BY ChunkIs
<1>4. First.tid \in Clients
  BY <1>3 DEF Strings
<1>5. CASE /\ Chunk = First.length
           /\ output_q' = Tail(output_q)
           /\ puts' = [puts EXCEPT ![First.tid] = 0]
  <2>1. /\ output_q' \in Seq(Strings)
        /\ Len(output_q) \in Nat
        /\ DOMAIN output_q = 1 .. Len(output_q)
        /\ DOMAIN output_q' = 1 .. Len(output_q) - 1
        /\ \A i \in DOMAIN output_q' : output_q'[i] = output_q[i + 1]
    BY <1>2, <1>5, TailIs
  <2>2. \A i \in DOMAIN output_q' : /\ i + 1 \in DOMAIN output_q
                                    /\ i + 1 # 1 /\ i \in Int
                                    /\ output_q'[i] = output_q[i + 1]
    BY <2>1
  <2>3. ASSUME NEW i \in DOMAIN output_q, i # 1
        PROVE  \E j \in DOMAIN output_q' : i = j + 1
    <3>1. i - 1 \in DOMAIN output_q' /\ i = (i - 1) + 1
      BY <2>1, <2>3
    <3> QED BY <3>1
  <2>4. OncePerClient'
    BY <1>1, <2>2 DEF OncePerClient
  <2>5. ASSUME NEW d \in Clients
        PROVE  puts'[d] # 0 <=>
                 \/ \E i \in DOMAIN inbox' : inbox'[i] = d
                 \/ \E i \in DOMAIN output_q' : output_q'[i].tid = d
    <3>1. puts'[d] = IF d = First.tid THEN 0 ELSE puts[d]
      BY <1>2, <1>5
    <3>2. CASE d = First.tid
      <4>1. \A i \in DOMAIN inbox : inbox[i] # d
        BY <1>1, <1>3, <3>2 DEF OncePerClient
      <4>2. \A i \in DOMAIN output_q : i # 1 => output_q[i].tid # d
        BY <1>1, <1>3, <3>2 DEF OncePerClient
      <4>3. \A i \in DOMAIN output_q' : output_q'[i].tid # d
        BY <2>2, <4>2
      <4> QED BY <3>1, <3>2, <4>1, <4>3
    <3>3. CASE d # First.tid
      <4>1. (\E i \in DOMAIN output_q' : output_q'[i].tid = d)
              <=> \E i \in DOMAIN output_q : output_q[i].tid = d
        BY <1>3, <2>2, <2>3, <3>3
      <4> QED BY <1>1, <3>1, <3>3, <4>1 DEF ClientsWait
    <3> QED BY <3>2, <3>3
  <2> QED
    BY <1>2, <1>5, <2>1, <2>4, <2>5 DEF ClientsWait
<1>6. CASE /\ Chunk # First.length
           /\ RestOf(First, Chunk) \in Strings
           /\ output_q' = <<RestOf(First, Chunk)>> \o Tail(output_q)
           /\ puts' = puts
  <2> DEFINE x == RestOf(First, Chunk)
  <2>1. x.tid = First.tid
    <3>1. Chunk \in Nat /\ Chunk < First.length
      BY <1>6, ChunkIs DEF Strings
    <3> QED BY <1>3, <3>1, RestOfIs
  <2> HIDE DEF x
  <2>2. /\ output_q' \in Seq(Strings)
        /\ DOMAIN output_q' = DOMAIN output_q
        /\ output_q'[1] = x
        /\ \A i \in DOMAIN output_q : i # 1 => output_q'[i] = output_q[i]
    BY <1>2, <1>6, HeadReplaced DEF x
  <2>3. \A i \in DOMAIN output_q : output_q'[i].tid = output_q[i].tid
    BY <1>3, <2>1, <2>2
  <2>4. OncePerClient'
    BY <1>1, <2>2, <2>3 DEF OncePerClient
  <2>5. ClientsWait'
    <3> HIDE DEF x
    <3>1. \A d : (\E i \in DOMAIN output_q' : output_q'[i].tid = d)
                  <=> \E i \in DOMAIN output_q : output_q[i].tid = d
      BY <2>2, <2>3
    <3> QED
      BY <1>1, <1>6, <3>1 DEF ClientsWait
  <2> QED
    BY <1>2, <1>6, <2>2, <2>4, <2>5
<1> QED
  BY <1>5, <1>6, CopiedIs

(* One round of the filling loop: the server goes on only at a buffer that *)
(* the carrier is not at.                                                  *)
LEMMA FillChunkRing ==
  ASSUME RingInv, FillChunk
  PROVE  RingInv'
<1> DEFINE next == NextBuffer(obuffer_idx)
           written == [o \in DOMAIN obuffers[obuffer_idx] |->
                         IF o \in out_head .. out_head + Chunk - 1
                         THEN Plus(First.first, o - out_head)
                         ELSE obuffers[obuffer_idx][o]]
<1>1. /\ pc = "fill" /\ output_q # <<>>
      /\ obuffers' = [obuffers EXCEPT ![obuffer_idx] = written]
      /\ Copied(First, Chunk)
      /\ obuffer_idx' = IF Chunk = Space THEN next ELSE obuffer_idx
      /\ out_head' = IF Chunk = Space THEN 0 ELSE out_head + Chunk
      /\ pc' = IF Chunk = Space /\ next = carrier_idx THEN AfterFill ELSE "fill"
      /\ UNCHANGED <<carrier_idx, carrier, inbox, pump, received, sent>>
  BY DEF FillChunk, First, Space, Chunk, Busy
<1>2. TypeOK /\ RingOK /\ CarrierOK
  BY DEF RingInv
<1>3. /\ next \in Buffers
      /\ First.first \in Numbers
      /\ Chunk \in Nat \ {0} /\ out_head + Chunk <= OUTPUT_BUFFER_SIZE
      /\ Chunk = Space <=> out_head + Chunk = OUTPUT_BUFFER_SIZE
      /\ out_head \in Nat /\ 0 \in Offsets
  BY <1>1, <1>2, ChunkIs, NextBufferIs, BufferAssumption
  DEF TypeOK, Strings, Offsets
<1> HIDE DEF next
<1>4. obuffers' \in [Buffers -> [Offsets -> Numbers]]
  <2>1. obuffers[obuffer_idx] \in [Offsets -> Numbers]
    BY <1>2 DEF TypeOK
  <2>2. ASSUME NEW o \in Offsets, o \in out_head .. out_head + Chunk - 1
        PROVE  Plus(First.first, o - out_head) \in Numbers
    <3>1. o - out_head \in Nat
      BY <1>3, <2>2
    <3> QED BY <1>3, <3>1, PlusPlus
  <2>3. written \in [Offsets -> Numbers]
    BY <2>1, <2>2
  <2> HIDE DEF written
  <2> QED
    BY <1>1, <1>2, <2>3 DEF TypeOK
<1> HIDE DEF written
<1>5. output_q' \in Seq(Strings) /\ puts' \in [Clients -> Nat]
  BY <1>1, CopiedRing
<1>6. OncePerClient' /\ ClientsWait'
  BY <1>1, CopiedRing
<1>7. /\ pc' \in {"receive", "fill", "send"}
      /\ pc' = "send" => carrier
      /\ pc' = "fill" => obuffer_idx' # carrier_idx
  BY <1>1, <1>2 DEF AfterFill, RingOK
<1>8. /\ obuffer_idx' \in Buffers /\ out_head' \in Offsets
      /\ obuffer_idx' = carrier_idx => out_head' = 0
  <2>1. CASE Chunk = Space
    BY <1>1, <1>3, <2>1
  <2>2. CASE Chunk # Space
    <3>1. obuffer_idx' = obuffer_idx /\ out_head' = out_head + Chunk
      BY <1>1, <2>2
    <3>2. out_head + Chunk \in Offsets
      BY <1>3, <2>2, BufferAssumption DEF Offsets
    <3> QED
      BY <1>1, <1>2, <3>1, <3>2 DEF TypeOK, RingOK
  <2> QED BY <2>1, <2>2
<1>9. TypeOK'
  BY <1>1, <1>2, <1>4, <1>5, <1>7, <1>8 DEF TypeOK
<1>10. RingOK' /\ CarrierOK'
  BY <1>1, <1>2, <1>7, <1>8 DEF RingOK, CarrierOK, SameBuffer
<1> QED
  BY <1>6, <1>9, <1>10 DEF RingInv

(* What _term_try_send gives to the carrier, when it gives it something.   *)
LEMMA SizeIs ==
  ASSUME RingInv, SizeOf(NextBuffer(carrier_idx)) # 0
  PROVE  /\ SizeOf(NextBuffer(carrier_idx)) \in Nat \ {0}
         /\ SizeOf(NextBuffer(carrier_idx)) <= OUTPUT_BUFFER_SIZE
BY BufferAssumption DEF RingInv, TypeOK, SizeOf, Offsets

(* _term_try_send: server and carrier go on to the same buffer, and the    *)
(* server leaves it.                                                       *)
LEMMA TrySendRing ==
  ASSUME RingInv, TrySend
  PROVE  RingInv'
<1> DEFINE next == NextBuffer(carrier_idx)
           size == SizeOf(next)
<1>1. TypeOK /\ RingOK /\ CarrierOK /\ OncePerClient /\ ClientsWait
  BY DEF RingInv
<1>2. UNCHANGED <<obuffers, output_q, puts, inbox, received, sent>>
  BY DEF TrySend
<1>3. OncePerClient' /\ ClientsWait'
  BY <1>1, <1>2 DEF OncePerClient, ClientsWait
<1>4. CASE size = 0
  <2>1. /\ pc' = "receive"
        /\ UNCHANGED <<obuffer_idx, out_head, carrier_idx, carrier, pump>>
    BY <1>4 DEF TrySend
  <2>2. TypeOK' /\ RingOK' /\ CarrierOK'
    BY <1>1, <1>2, <2>1 DEF TypeOK, RingOK, CarrierOK, SameBuffer
  <2> QED
    BY <1>3, <2>2 DEF RingInv
<1>5. CASE size # 0
  <2>1. /\ pc = "send"
        /\ carrier_idx' = next
        /\ obuffer_idx' = IF next = obuffer_idx THEN NextBuffer(obuffer_idx)
                          ELSE obuffer_idx
        /\ out_head' = IF next = obuffer_idx THEN 0 ELSE out_head
        /\ carrier' = FALSE
        /\ pump' = [buffer_idx |-> NextBuffer(pump.buffer_idx), chunk |-> 0,
                    length |-> size, asking |-> FALSE]
        /\ pc' \in {"receive", "fill"}
    BY <1>5 DEF TrySend, ReplyToCarrier, EnterFill
  <2>2. size \in Nat /\ size <= OUTPUT_BUFFER_SIZE
    BY <1>5, SizeIs
  <2>3. /\ next \in Buffers
        /\ NextBuffer(obuffer_idx) \in Buffers
        /\ NextBuffer(obuffer_idx) # obuffer_idx
        /\ 0 \in Offsets
    BY <1>1, NextBufferIs, BufferAssumption DEF TypeOK, Offsets
  <2>4. pump.buffer_idx = carrier_idx
    BY <1>1 DEF RingOK, SameBuffer
  <2> HIDE DEF next, size
  <2>5. /\ pump'.buffer_idx = next /\ ~pump'.asking
        /\ pump' \in [buffer_idx : Buffers, chunk : Nat, length : Nat,
                      asking : BOOLEAN]
        /\ pump'.chunk = 0 /\ pump'.length = size
    BY <2>1, <2>2, <2>3, <2>4 DEF next
  <2>6. TypeOK'
    <3>1. pump'.chunk + pump'.length <= OUTPUT_BUFFER_SIZE
      BY <2>2, <2>5
    <3>2. obuffer_idx' \in Buffers /\ carrier_idx' \in Buffers
      BY <1>1, <2>1, <2>3 DEF TypeOK
    <3>3. out_head' \in Offsets /\ carrier' \in BOOLEAN
      BY <1>1, <2>1, <2>3 DEF TypeOK
    <3> QED
      BY <1>1, <1>2, <2>1, <2>5, <3>1, <3>2, <3>3 DEF TypeOK
  <2>7. RingOK'
    BY <2>1, <2>3, <2>5 DEF RingOK, SameBuffer
  <2>8. CarrierOK'
    <3>1. carrier
      BY <1>1, <2>1 DEF CarrierOK
    <3> QED
      BY <1>1, <1>2, <2>1, <2>5, <3>1 DEF CarrierOK
  <2> QED
    BY <1>3, <2>6, <2>7, <2>8 DEF RingInv
<1> QED
  BY <1>4, <1>5

(* Every step keeps the invariant of the ring.                             *)
LEMMA RingStep == RingInv /\ [Next]_vars => RingInv'
<1> SUFFICES ASSUME RingInv, [Next]_vars PROVE RingInv'
  OBVIOUS
<1>1. ASSUME NEW c \in Clients, NEW len \in LENGTHS, term_put_string(c, len)
      PROVE  RingInv'
  BY <1>1, PutsRing
<1>2. ASSUME NEW c \in Clients, ReceivePuts(c)
      PROVE  RingInv'
  BY <1>2, ReceivePutsRing
<1>3. CASE ReceiveCarrier
  BY <1>3, ReceiveCarrierRing
<1>4. CASE FillChunk
  BY <1>4, FillChunkRing
<1>5. CASE FillDone
  BY <1>5, FillDoneRing
<1>6. CASE TrySend
  BY <1>6, TrySendRing
<1>7. CASE CarrierAsks
  BY <1>7, CarrierAsksRing
<1>8. CASE Pump
  BY <1>8, PumpRing
<1>9. CASE UNCHANGED vars
  BY <1>9 DEF vars, RingInv, TypeOK, RingOK, CarrierOK, OncePerClient,
              ClientsWait, SameBuffer
<1> QED
  BY <1>1, <1>2, <1>3, <1>4, <1>5, <1>6, <1>7, <1>8, <1>9
  DEF Next, Server, Carrier

(* It holds in every reachable state.                                      *)
LEMMA RingIsKept == Spec => []RingInv
<1> QED
  BY RingInit, RingStep, PTL DEF Spec

(* _term_try_send and the carrier count buffers apart and agree.           *)
THEOREM CarrierIsWhereItSeems == Spec => []SameBuffer
<1>1. RingInv => SameBuffer
  BY DEF RingInv, RingOK
<1> QED
  BY <1>1, RingIsKept, PTL

(* term_put_string returns only when all of the string is in the buffers.  *)
THEOREM ClientsAreKept == Spec => []ClientsWait
<1>1. RingInv => ClientsWait
  BY DEF RingInv
<1> QED
  BY <1>1, RingIsKept, PTL

(* _term_try_fill writes into no buffer from which the carrier pumps.      *)
THEOREM NothingIsOverwritten == Spec => FillsAnotherBuffer
<1>1. ASSUME RingInv, [Next]_vars
      PROVE  pump.length > 0 =>
               obuffers'[pump.buffer_idx] = obuffers[pump.buffer_idx]
  <2>1. CASE FillChunk
    <3>1. pc = "fill" /\ pump.buffer_idx = carrier_idx
      BY <1>1, <2>1 DEF FillChunk, RingInv, RingOK, SameBuffer
    <3>2. obuffer_idx # pump.buffer_idx
      BY <1>1, <3>1 DEF RingInv, RingOK
    <3> QED
      BY <1>1, <2>1, <3>2 DEF FillChunk, RingInv, TypeOK
  <2>2. CASE ~FillChunk
    <3>1. obuffers' = obuffers
      BY <1>1, <2>2
      DEF Next, vars, Server, Carrier, server, term_put_string, ReceivePuts,
          ReceiveCarrier, FillDone, TrySend, CarrierAsks, Pump
    <3> QED BY <3>1
  <2> QED BY <2>1, <2>2
<1>2. RingInv /\ [Next]_vars =>
        [pump.length > 0 =>
           obuffers'[pump.buffer_idx] = obuffers[pump.buffer_idx]]_vars
  BY <1>1
<1> QED
  BY <1>2, RingIsKept, PTL DEF Spec, FillsAnotherBuffer

-----------------------------------------------------------------------------
(***************************************************************************)
(* The output.  Between the carrier's buffer and the server's lie those    *)
(* that are full.  Data(n, at) says what all of them hold, when n bytes    *)
(* have gone out and the first byte of buffer b is the at[b]-th of all.    *)
(***************************************************************************)
Between(b, c, o) ==
  IF c < o THEN c < b /\ b < o ELSE c < b \/ b < o

(* From its offset k on the buffer f holds k bytes, from the p-th on.      *)
Holds(f, k, p, len) == \A i \in 0 .. len - 1 : f[k + i] = Number(p + i)

(* The strings of s follow each other from the p-th byte on, and r is the  *)
(* number of the byte after the last of them.                              *)
Queued(s, p, r) ==
  /\ s # <<>> => s[1].first = Number(p)
  /\ \A i \in DOMAIN s : i + 1 \in DOMAIN s =>
       s[i + 1].first = Plus(s[i].first, s[i].length)
  /\ r = IF s = <<>> THEN Number(p)
         ELSE Plus(s[Len(s)].first, s[Len(s)].length)

Data(n, at) ==
  /\ sent = Number(n)
  /\ Holds(obuffers[carrier_idx], pump.chunk, n, pump.length)
  /\ at[NextBuffer(carrier_idx)] = n + pump.length
  /\ \A b \in Buffers : Between(b, carrier_idx, obuffer_idx) =>
       /\ at[NextBuffer(b)] = at[b] + OUTPUT_BUFFER_SIZE
       /\ Holds(obuffers[b], 0, at[b], OUTPUT_BUFFER_SIZE)
  /\ Holds(obuffers[obuffer_idx], 0, at[obuffer_idx], out_head)
  /\ Queued(output_q, at[obuffer_idx] + out_head, received)

OutputInv == \E n \in Nat, at \in [Buffers -> Nat] : Data(n, at)

(* When the server goes on to the next buffer, the one it leaves is full.  *)
LEMMA BetweenGrows ==
  ASSUME NEW c \in Buffers, NEW o \in Buffers, c # o
  PROVE  /\ ~Between(o, c, o) /\ ~Between(NextBuffer(o), c, o)
         /\ NextBuffer(c) # NextBuffer(o)
         /\ \A b \in Buffers :
              /\ Between(b, c, NextBuffer(o)) <=> Between(b, c, o) \/ b = o
              /\ NextBuffer(b) = NextBuffer(o) <=> b = o
<1>1. c \in Nat /\ o \in Nat /\ c < OUTPUT_BUFFER_COUNT
      /\ o < OUTPUT_BUFFER_COUNT
  BY BufferAssumption DEF Buffers
<1>2. /\ NextBuffer(o) = IF o + 1 = OUTPUT_BUFFER_COUNT THEN 0 ELSE o + 1
      /\ NextBuffer(c) = IF c + 1 = OUTPUT_BUFFER_COUNT THEN 0 ELSE c + 1
  BY NextBufferIs
<1>3. /\ ~Between(o, c, o) /\ ~Between(NextBuffer(o), c, o)
      /\ NextBuffer(c) # NextBuffer(o)
  BY <1>1, <1>2, BufferAssumption DEF Between
<1>4. ASSUME NEW b \in Buffers
      PROVE  /\ Between(b, c, NextBuffer(o)) <=> Between(b, c, o) \/ b = o
             /\ NextBuffer(b) = NextBuffer(o) <=> b = o
  <2>1. b \in Nat /\ b < OUTPUT_BUFFER_COUNT
    BY BufferAssumption DEF Buffers
  <2>2. NextBuffer(b) = IF b + 1 = OUTPUT_BUFFER_COUNT THEN 0 ELSE b + 1
    BY NextBufferIs
  <2>3. NextBuffer(b) = NextBuffer(o) <=> b = o
    BY <1>1, <1>2, <2>1, <2>2
  <2>4. Between(b, c, NextBuffer(o)) <=> Between(b, c, o) \/ b = o
    BY <1>1, <1>2, <2>1, BufferAssumption DEF Between
  <2> QED BY <2>3, <2>4
<1> QED
  BY <1>3, <1>4

(* When the carrier goes on, it goes to the first of the full ones, or to  *)
(* the server's if there is none.                                          *)
LEMMA BetweenShrinks ==
  ASSUME NEW c \in Buffers, NEW o \in Buffers
  PROVE  LET n == NextBuffer(c)
         IN  /\ n # o => Between(n, c, o)
             /\ \A b \in Buffers :
                  /\ n # o /\ Between(b, n, o) => Between(b, c, o)
                  /\ ~Between(b, n, NextBuffer(n))
<1>1. c \in Nat /\ o \in Nat /\ c < OUTPUT_BUFFER_COUNT
      /\ o < OUTPUT_BUFFER_COUNT
  BY BufferAssumption DEF Buffers
<1> DEFINE n == NextBuffer(c)
           m == NextBuffer(n)
<1>2. /\ n = IF c + 1 = OUTPUT_BUFFER_COUNT THEN 0 ELSE c + 1
      /\ n \in Buffers /\ n \in Nat /\ n < OUTPUT_BUFFER_COUNT
  BY NextBufferIs, BufferAssumption DEF Buffers
<1>3. m = IF n + 1 = OUTPUT_BUFFER_COUNT THEN 0 ELSE n + 1
  <2> HIDE DEF n
  <2> QED BY <1>2, NextBufferIs
<1> HIDE DEF n, m
<1>4. n # o => Between(n, c, o)
  BY <1>1, <1>2 DEF Between
<1>5. ASSUME NEW b \in Buffers
      PROVE  /\ n # o /\ Between(b, n, o) => Between(b, c, o)
             /\ ~Between(b, n, m)
  <2>1. b \in Nat /\ b < OUTPUT_BUFFER_COUNT
    BY BufferAssumption DEF Buffers
  <2> QED
    BY <1>1, <1>2, <1>3, <2>1, BufferAssumption DEF Between
<1> QED
  BY <1>4, <1>5 DEF n, m

(* A string that is received joins the others.                             *)
LEMMA QueuedAppend ==
  ASSUME NEW s \in Seq(Strings), NEW p \in Nat, NEW r, Queued(s, p, r),
         NEW x \in Strings, x.first = r
  PROVE  Queued(Append(s, x), p, Plus(r, x.length))
<1> DEFINE n == Append(s, x)
<1>1. /\ n \in Seq(Strings) /\ n # <<>>
      /\ Len(s) \in Nat /\ Len(n) = Len(s) + 1
      /\ DOMAIN s = 1 .. Len(s) /\ DOMAIN n = 1 .. Len(s) + 1
      /\ n[Len(s) + 1] = x
      /\ \A i \in DOMAIN s : n[i] = s[i]
  BY AppendIs
<1> HIDE DEF n
<1>2. CASE s = <<>>
  <2>1. Len(s) = 0 /\ r = Number(p)
    BY <1>2 DEF Queued
  <2>2. n[1] = x /\ n[Len(n)] = x
    BY <1>1, <2>1
  <2>3. \A i \in DOMAIN n : i + 1 \notin DOMAIN n
    BY <1>1, <2>1
  <2>4. Queued(n, p, Plus(r, x.length))
    BY <1>1, <2>1, <2>2, <2>3 DEF Queued
  <2> QED BY <2>4 DEF n
<1>3. CASE s # <<>>
  <2>1. /\ Len(s) >= 1 /\ 1 \in DOMAIN s /\ Len(s) \in DOMAIN s
    BY <1>1, <1>3, EmptySeq
  <2>2. n[1] = s[1] /\ n[Len(s)] = s[Len(s)] /\ n[Len(n)] = x
    BY <1>1, <2>1
  <2>3. /\ s[1].first = Number(p)
        /\ r = Plus(s[Len(s)].first, s[Len(s)].length)
    BY <1>3 DEF Queued
  <2>4. ASSUME NEW i \in DOMAIN n, i + 1 \in DOMAIN n
        PROVE  n[i + 1].first = Plus(n[i].first, n[i].length)
    <3>1. CASE i = Len(s)
      BY <1>1, <2>2, <2>3, <3>1
    <3>2. CASE i # Len(s)
      <4>1. i \in DOMAIN s /\ i + 1 \in DOMAIN s
        BY <1>1, <2>4, <3>2
      <4>2. s[i + 1].first = Plus(s[i].first, s[i].length)
        BY <4>1 DEF Queued
      <4> QED BY <1>1, <4>1, <4>2
    <3> QED BY <3>1, <3>2
  <2>5. Queued(n, p, Plus(r, x.length))
    BY <1>1, <2>2, <2>3, <2>4 DEF Queued
  <2> QED BY <2>5 DEF n
<1> QED
  BY <1>2, <1>3

(* What is left when the oldest string has been copied.                    *)
LEMMA QueuedTail ==
  ASSUME NEW s \in Seq(Strings), s # <<>>, NEW p \in Nat, NEW r,
         Queued(s, p, r)
  PROVE  Queued(Tail(s), p + s[1].length, r)
<1> DEFINE n == Tail(s)
<1>1. /\ n \in Seq(Strings)
      /\ s[1] \in Strings
      /\ Len(s) \in Nat \ {0} /\ Len(n) = Len(s) - 1
      /\ DOMAIN s = 1 .. Len(s) /\ DOMAIN n = 1 .. Len(s) - 1
      /\ \A i \in DOMAIN n : n[i] = s[i + 1]
  BY TailIs
<1> HIDE DEF n
<1>2. /\ s[1].first = Number(p)
      /\ r = Plus(s[Len(s)].first, s[Len(s)].length)
      /\ \A i \in DOMAIN s : i + 1 \in DOMAIN s =>
           s[i + 1].first = Plus(s[i].first, s[i].length)
  BY DEF Queued
<1>3. Plus(s[1].first, s[1].length) = Number(p + s[1].length)
  BY <1>1, <1>2, NumberPlus DEF Strings
<1>4. CASE Len(s) = 1
  <2>1. n = <<>> /\ DOMAIN n = {}
    BY <1>1, <1>4, EmptySeq
  <2>2. Queued(n, p + s[1].length, r)
    BY <1>2, <1>3, <1>4, <2>1 DEF Queued
  <2> QED BY <2>2 DEF n
<1>5. CASE Len(s) # 1
  <2>1. /\ Len(n) >= 1 /\ n # <<>> /\ 1 \in DOMAIN n /\ Len(n) \in DOMAIN n
        /\ 1 \in DOMAIN s /\ 1 + 1 \in DOMAIN s
        /\ Len(n) + 1 = Len(s)
    BY <1>1, <1>5
  <2>2. n[1].first = Number(p + s[1].length)
    BY <1>1, <1>2, <1>3, <2>1
  <2>3. n[Len(n)] = s[Len(s)]
    BY <1>1, <2>1
  <2>4. ASSUME NEW i \in DOMAIN n, i + 1 \in DOMAIN n
        PROVE  n[i + 1].first = Plus(n[i].first, n[i].length)
    <3>1. i + 1 \in DOMAIN s /\ (i + 1) + 1 \in DOMAIN s
      BY <1>1, <2>4
    <3> QED BY <1>1, <1>2, <2>4, <3>1
  <2>5. Queued(n, p + s[1].length, r)
    BY <1>2, <2>1, <2>2, <2>3, <2>4 DEF Queued
  <2> QED BY <2>5 DEF n
<1> QED
  BY <1>4, <1>5

(* What is left when k bytes of the oldest string have been copied.        *)
LEMMA QueuedRest ==
  ASSUME NEW s \in Seq(Strings), s # <<>>, NEW p \in Nat, NEW r,
         Queued(s, p, r), NEW k \in Nat, k < s[1].length
  PROVE  Queued(<<RestOf(s[1], k)>> \o Tail(s), p + k, r)
<1> DEFINE x == RestOf(s[1], k)
           n == <<x>> \o Tail(s)
<1>1. /\ s[1] \in Strings /\ 1 \in DOMAIN s
      /\ Len(s) \in Nat \ {0} /\ DOMAIN s = 1 .. Len(s)
  BY TailIs
<1>2. /\ x \in Strings
      /\ x.first = Plus(s[1].first, k)
      /\ x.length = s[1].length - k
  BY <1>1, RestOfIs
<1> HIDE DEF x
<1>3. /\ n \in Seq(Strings) /\ n # <<>>
      /\ Len(n) = Len(s) /\ DOMAIN n = DOMAIN s
      /\ n[1] = x
      /\ \A i \in DOMAIN s : i # 1 => n[i] = s[i]
  BY <1>2, HeadReplaced
<1> HIDE DEF n
<1>4. /\ s[1].first = Number(p)
      /\ r = Plus(s[Len(s)].first, s[Len(s)].length)
      /\ \A i \in DOMAIN s : i + 1 \in DOMAIN s =>
           s[i + 1].first = Plus(s[i].first, s[i].length)
  BY DEF Queued
<1>5. n[1].first = Number(p + k)
  BY <1>2, <1>3, <1>4, NumberPlus
<1>6. Plus(x.first, x.length) = Plus(s[1].first, s[1].length)
  <2>1. /\ s[1].first \in Numbers /\ s[1].length \in Nat
        /\ s[1].length - k \in Nat /\ k + (s[1].length - k) = s[1].length
    BY <1>1 DEF Strings
  <2>2. Plus(Plus(s[1].first, k), s[1].length - k)
          = Plus(s[1].first, k + (s[1].length - k))
    BY <2>1, PlusPlus, Zenon
  <2> QED BY <1>2, <2>1, <2>2
<1>7. \A i \in DOMAIN s :
        Plus(n[i].first, n[i].length) = Plus(s[i].first, s[i].length)
  BY <1>3, <1>6
<1>8. ASSUME NEW i \in DOMAIN n, i + 1 \in DOMAIN n
      PROVE  n[i + 1].first = Plus(n[i].first, n[i].length)
  <2>1. i + 1 # 1
    BY <1>1, <1>3, <1>8
  <2> QED BY <1>3, <1>4, <1>7, <1>8, <2>1
<1>9. Len(s) \in DOMAIN s
  BY <1>1
<1>10. Queued(n, p + k, r)
  BY <1>3, <1>4, <1>5, <1>7, <1>8, <1>9 DEF Queued
<1> QED
  BY <1>10 DEF n, x

(* A step that leaves the output alone.                                    *)
LEMMA DataStays ==
  ASSUME NEW n, NEW at, Data(n, at),
         UNCHANGED <<obuffers, obuffer_idx, out_head, carrier_idx, output_q,
                     received, sent>>,
         pump'.chunk = pump.chunk, pump'.length = pump.length
  PROVE  Data(n, at)'
BY DEF Data

(* The bytes that the carrier pumps out are the next ones.                 *)
LEMMA PumpData ==
  ASSUME RingInv, NEW n \in Nat, NEW at, Data(n, at), Pump
  PROVE  \E m \in Nat : Data(m, at)'
<1> DEFINE k == irq_uart2_send(pump.length)
           bytes == [i \in 0 .. k - 1 |->
                       obuffers[pump.buffer_idx][pump.chunk + i]]
<1>1. TypeOK /\ pump.buffer_idx = carrier_idx
  BY DEF RingInv, RingOK, SameBuffer
<1>2. /\ pump.length \in Nat /\ pump.chunk \in Nat
      /\ k \in Nat /\ k <= pump.length
  BY <1>1, FifoAssumption DEF irq_uart2_send, Fit, TypeOK
<1>3. /\ pump' = [pump EXCEPT !.chunk = @ + k, !.length = @ - k]
      /\ sent' = IF \A i \in 0 .. k - 1 : bytes[i] = Plus(sent, i)
                 THEN Plus(sent, k) ELSE BYTES
      /\ UNCHANGED <<obuffers, obuffer_idx, out_head, carrier_idx, output_q,
                     received>>
  BY DEF Pump, server
<1> HIDE DEF k
<1>4. pump'.chunk = pump.chunk + k /\ pump'.length = pump.length - k
  BY <1>1, <1>3 DEF TypeOK
<1>5. /\ sent = Number(n)
      /\ \A i \in 0 .. pump.length - 1 :
           obuffers[carrier_idx][pump.chunk + i] = Number(n + i)
      /\ at[NextBuffer(carrier_idx)] = n + pump.length
  BY DEF Data, Holds
<1>6. ASSUME NEW i \in 0 .. k - 1
      PROVE  bytes[i] = Plus(sent, i)
  <2>1. i \in Nat /\ i \in 0 .. pump.length - 1
    BY <1>2
  <2>2. bytes[i] = Number(n + i)
    BY <1>1, <1>5, <2>1
  <2> QED BY <1>5, <2>1, <2>2, NumberPlus
<1> HIDE DEF bytes
<1> HIDE DEF k
<1>7. PICK m \in Nat : m = n + k
  BY <1>2
<1>8. sent' = Number(m)
  BY <1>2, <1>3, <1>5, <1>6, <1>7, NumberPlus
<1>9. \A i \in 0 .. pump'.length - 1 :
        obuffers'[carrier_idx'][pump'.chunk + i] = Number(m + i)
  <2> SUFFICES ASSUME NEW i \in 0 .. pump.length - k - 1
               PROVE  obuffers[carrier_idx][(pump.chunk + k) + i]
                        = Number((n + k) + i)
    BY <1>3, <1>4, <1>7
  <2>1. /\ k + i \in 0 .. pump.length - 1
        /\ pump.chunk + (k + i) = (pump.chunk + k) + i
        /\ n + (k + i) = (n + k) + i
    BY <1>2
  <2>2. obuffers[carrier_idx][pump.chunk + (k + i)] = Number(n + (k + i))
    BY <1>5, <2>1
  <2> QED BY <2>1, <2>2
<1>10. at[NextBuffer(carrier_idx')] = m + pump'.length
  BY <1>2, <1>3, <1>4, <1>5, <1>7
<1>11. Data(m, at)'
  BY <1>3, <1>8, <1>9, <1>10 DEF Data, Holds
<1> QED
  BY <1>11

(* A string that is received comes after those that wait.                  *)
LEMMA ReceivePutsData ==
  ASSUME RingInv, NEW n \in Nat, NEW at \in [Buffers -> Nat], Data(n, at),
         NEW c \in Clients, ReceivePuts(c)
  PROVE  Data(n, at)'
<1> DEFINE x == [tid |-> c, first |-> received, length |-> puts[c]]
           p == at[obuffer_idx] + out_head
<1>1. /\ inbox # <<>> /\ Head(inbox) = c
      /\ output_q' = Append(output_q, x)
      /\ received' = Plus(received, puts[c])
      /\ UNCHANGED <<obuffers, obuffer_idx, out_head, carrier_idx, pump, sent>>
  BY DEF ReceivePuts, pbuf_produce
<1>2. TypeOK /\ ClientsWait
  BY DEF RingInv
<1>3. x \in Strings /\ x.first = received /\ x.length = puts[c]
  <2>1. Head(inbox) = inbox[1] /\ 1 \in DOMAIN inbox
    BY <1>1, <1>2, TailIs DEF TypeOK
  <2>2. puts[c] \in Nat /\ puts[c] # 0
    BY <1>1, <1>2, <2>1 DEF TypeOK, ClientsWait
  <2> QED BY <1>2, <2>2 DEF Strings, TypeOK
<1> HIDE DEF x
<1>4. p \in Nat /\ output_q \in Seq(Strings)
  BY <1>2 DEF TypeOK, Offsets
<1>5. Queued(output_q, p, received)
  BY DEF Data
<1> HIDE DEF p
<1>6. Queued(output_q', p, received')
  BY <1>1, <1>3, <1>4, <1>5, QueuedAppend
<1> QED
  BY <1>1, <1>6 DEF Data, p

(* _term_try_send gives to the carrier the buffer with the bytes that      *)
(* follow those it has pumped.                                             *)
LEMMA TrySendData ==
  ASSUME RingInv, NEW n \in Nat, NEW at \in [Buffers -> Nat], Data(n, at),
         TrySend
  PROVE  \E a \in [Buffers -> Nat] : Data(n, a)'
<1> DEFINE c == carrier_idx
           o == obuffer_idx
           next == NextBuffer(c)
           size == SizeOf(next)
<1>1. TypeOK /\ pump.buffer_idx = c /\ (pc = "send" => pump.length = 0)
  BY DEF RingInv, RingOK, SameBuffer, CarrierOK
<1>2. c \in Buffers /\ o \in Buffers /\ out_head \in Nat
  BY <1>1 DEF TypeOK, Offsets
<1>3. UNCHANGED <<obuffers, output_q, received, sent>> /\ pc = "send"
  BY DEF TrySend
<1>4. CASE size = 0
  <2>1. UNCHANGED <<obuffer_idx, out_head, carrier_idx, pump>>
    BY <1>4 DEF TrySend
  <2>2. Data(n, at)'
    BY <1>3, <2>1, DataStays
  <2> QED BY <2>2
<1>5. CASE size # 0
  <2>1. /\ carrier_idx' = next
        /\ obuffer_idx' = IF next = o THEN NextBuffer(o) ELSE o
        /\ out_head' = IF next = o THEN 0 ELSE out_head
        /\ pump'.chunk = 0 /\ pump'.length = size
    BY <1>5 DEF TrySend, ReplyToCarrier
  <2>2. next \in Buffers /\ NextBuffer(next) \in Buffers
    BY <1>2, NextBufferIs
  <2>3. /\ next # o => Between(next, c, o)
        /\ \A b \in Buffers : /\ next # o /\ Between(b, next, o)
                                   => Between(b, c, o)
                              /\ ~Between(b, next, NextBuffer(next))
    BY <1>2, BetweenShrinks
  <2>4. /\ sent = Number(n) /\ at[next] = n
        /\ \A b \in Buffers : Between(b, c, o) =>
             /\ at[NextBuffer(b)] = at[b] + OUTPUT_BUFFER_SIZE
             /\ Holds(obuffers[b], 0, at[b], OUTPUT_BUFFER_SIZE)
        /\ Holds(obuffers[o], 0, at[o], out_head)
        /\ Queued(output_q, at[o] + out_head, received)
    BY <1>1, <1>3 DEF Data
  <2>5. CASE next # o
    <3>1. size = OUTPUT_BUFFER_SIZE
      BY <2>5 DEF SizeOf
    <3> HIDE DEF next, size
    <3>2. Data(n, at)'
      BY <1>3, <2>1, <2>2, <2>3, <2>4, <2>5, <3>1 DEF Data
    <3> QED BY <3>2
  <2>6. CASE next = o
    <3>1. size = out_head
      BY <2>6 DEF SizeOf
    <3> DEFINE m == NextBuffer(next)
    <3>2. m # next
      BY <2>2, NextBufferIs
    <3>3. PICK a \in [Buffers -> Nat] : a[m] = n + size
      <4>1. [at EXCEPT ![m] = n + size] \in [Buffers -> Nat]
        BY <1>2, <2>2, <3>1
      <4> QED BY <2>2, <4>1
    <3>4. Holds(obuffers[next], 0, n, size)
      BY <2>4, <2>6, <3>1
    <3>5. Queued(output_q, a[m] + 0, received)
      BY <1>2, <2>4, <2>6, <3>1, <3>3
    <3>6. /\ carrier_idx' = next /\ obuffer_idx' = m /\ out_head' = 0
          /\ NextBuffer(carrier_idx') = m
      BY <2>1, <2>6
    <3>7. Holds(obuffers[m], 0, a[m], 0)
      BY DEF Holds
    <3>8. \A b \in Buffers : ~Between(b, next, m)
      BY <2>3
    <3> HIDE DEF next, size, m
    <3>9. Data(n, a)'
      BY <1>3, <2>1, <2>4, <3>3, <3>4, <3>5, <3>6, <3>7, <3>8 DEF Data
    <3> QED BY <3>3, <3>9
  <2> QED BY <2>5, <2>6
<1> QED
  BY <1>4, <1>5

(* What _term_try_fill copies goes on where the buffer ends.               *)
LEMMA WrittenIs ==
  ASSUME RingInv, NEW n \in Nat, NEW at \in [Buffers -> Nat], Data(n, at),
         FillChunk
  PROVE  /\ Holds(obuffers'[obuffer_idx], 0, at[obuffer_idx],
                  out_head + Chunk)
         /\ \A b \in Buffers : b # obuffer_idx => obuffers'[b] = obuffers[b]
<1> DEFINE o == obuffer_idx
           written == [i \in DOMAIN obuffers[o] |->
                         IF i \in out_head .. out_head + Chunk - 1
                         THEN Plus(First.first, i - out_head)
                         ELSE obuffers[o][i]]
<1>1. output_q # <<>> /\ obuffers' = [obuffers EXCEPT ![o] = written]
  BY DEF FillChunk, First, Space, Chunk
<1>2. /\ obuffers \in [Buffers -> [Offsets -> Numbers]]
      /\ o \in Buffers /\ out_head \in Nat /\ at[o] \in Nat
  BY DEF RingInv, TypeOK, Offsets
<1>3. /\ First = output_q[1]
      /\ Chunk \in Nat /\ out_head + Chunk <= OUTPUT_BUFFER_SIZE
  BY <1>1, ChunkIs
<1>4. /\ First.first = Number(at[o] + out_head)
      /\ \A i \in 0 .. out_head - 1 : obuffers[o][0 + i] = Number(at[o] + i)
  BY <1>1, <1>3 DEF Data, Queued, Holds
<1>5. ASSUME NEW i \in 0 .. out_head + Chunk - 1
      PROVE  written[0 + i] = Number(at[o] + i)
  <2>1. 0 + i = i /\ i \in Nat /\ i \in Offsets /\ i \in DOMAIN obuffers[o]
    BY <1>2, <1>3, BufferAssumption DEF Offsets
  <2>2. CASE i < out_head
    <3>1. /\ i \in 0 .. out_head - 1
          /\ i \notin out_head .. out_head + Chunk - 1
      BY <1>2, <2>1, <2>2
    <3>2. obuffers[o][i] = Number(at[o] + i)
      BY <1>4, <2>1, <3>1
    <3> QED BY <2>1, <3>1, <3>2
  <2>3. CASE i >= out_head
    <3>1. /\ i \in out_head .. out_head + Chunk - 1
          /\ i - out_head \in Nat /\ at[o] + out_head \in Nat
          /\ (at[o] + out_head) + (i - out_head) = at[o] + i
      BY <1>2, <1>3, <2>1, <2>3
    <3>2. Plus(Number(at[o] + out_head), i - out_head)
            = Number((at[o] + out_head) + (i - out_head))
      BY <3>1, NumberPlus
    <3> QED BY <1>4, <2>1, <3>1, <3>2
  <2> QED BY <1>2, <2>1, <2>2, <2>3
<1> HIDE DEF written
<1>6. /\ obuffers'[o] = written
      /\ \A b \in Buffers : b # o => obuffers'[b] = obuffers[b]
  BY <1>1, <1>2
<1>7. Holds(written, 0, at[o], out_head + Chunk)
  BY <1>2, <1>3, <1>5 DEF Holds
<1> QED
  BY <1>6, <1>7

(* One round of the filling loop puts the next bytes where they belong.    *)
LEMMA FillChunkData ==
  ASSUME RingInv, NEW n \in Nat, NEW at \in [Buffers -> Nat], Data(n, at),
         FillChunk
  PROVE  \E a \in [Buffers -> Nat] : Data(n, a)'
<1> DEFINE c == carrier_idx
           o == obuffer_idx
           p == at[o] + out_head
           next == NextBuffer(o)
<1>1. /\ pc = "fill" /\ output_q # <<>>
      /\ Copied(First, Chunk)
      /\ obuffer_idx' = IF Chunk = Space THEN next ELSE o
      /\ out_head' = IF Chunk = Space THEN 0 ELSE out_head + Chunk
      /\ UNCHANGED <<carrier_idx, carrier, inbox, pump, received, sent>>
  BY DEF FillChunk, First, Space, Chunk
<1>2. /\ c \in Buffers /\ o \in Buffers /\ c # o
      /\ out_head \in Nat /\ at[o] \in Nat /\ p \in Nat
      /\ output_q \in Seq(Strings)
  BY <1>1 DEF RingInv, TypeOK, RingOK, Offsets
<1>3. /\ First = output_q[1] /\ Chunk \in Nat
      /\ Chunk <= First.length
      /\ Chunk = Space <=> out_head + Chunk = OUTPUT_BUFFER_SIZE
  BY <1>1, ChunkIs
<1>4. /\ Holds(obuffers'[o], 0, at[o], out_head + Chunk)
      /\ \A b \in Buffers : b # o => obuffers'[b] = obuffers[b]
  BY WrittenIs
<1>5. Queued(output_q', p + Chunk, received)
  <2>1. Queued(output_q, p, received)
    BY DEF Data
  <2> HIDE DEF p
  <2>2. CASE Chunk = First.length /\ output_q' = Tail(output_q)
    <3>1. Queued(Tail(output_q), p + output_q[1].length, received)
      BY <1>1, <1>2, <2>1, QueuedTail
    <3> QED BY <1>3, <2>2, <3>1
  <2>3. CASE /\ Chunk # First.length
             /\ output_q' = <<RestOf(First, Chunk)>> \o Tail(output_q)
    <3>1. Chunk < output_q[1].length
      <4>1. First.length \in Nat
        BY <1>1, ChunkIs DEF Strings
      <4> QED BY <1>3, <2>3, <4>1
    <3>2. Queued(<<RestOf(output_q[1], Chunk)>> \o Tail(output_q),
                 p + Chunk, received)
      BY <1>1, <1>2, <1>3, <2>1, <3>1, QueuedRest
    <3> QED BY <1>3, <2>3, <3>2
  <2> QED BY <1>1, <2>2, <2>3, CopiedIs
<1>6. /\ sent = Number(n)
      /\ Holds(obuffers[c], pump.chunk, n, pump.length)
      /\ at[NextBuffer(c)] = n + pump.length
      /\ \A b \in Buffers : Between(b, c, o) =>
           /\ at[NextBuffer(b)] = at[b] + OUTPUT_BUFFER_SIZE
           /\ Holds(obuffers[b], 0, at[b], OUTPUT_BUFFER_SIZE)
  BY DEF Data
<1>7. /\ ~Between(o, c, o) /\ ~Between(next, c, o)
      /\ NextBuffer(c) # next
      /\ \A b \in Buffers :
           /\ Between(b, c, next) <=> Between(b, c, o) \/ b = o
           /\ NextBuffer(b) = next <=> b = o
  BY <1>2, BetweenGrows
<1>8. CASE Chunk # Space
  <2>1. obuffer_idx' = o /\ out_head' = out_head + Chunk
    BY <1>1, <1>8
  <2>2. Queued(output_q', at[o] + (out_head + Chunk), received)
    <3>1. p + Chunk = at[o] + (out_head + Chunk)
      BY <1>2, <1>3
    <3> QED BY <1>5, <3>1
  <2>3. \A b \in Buffers : Between(b, c, o) => obuffers'[b] = obuffers[b]
    BY <1>4, <1>7
  <2> HIDE DEF p, next
  <2>4. Data(n, at)'
    BY <1>1, <1>2, <1>4, <1>6, <2>1, <2>2, <2>3 DEF Data
  <2> QED BY <2>4
<1>9. CASE Chunk = Space
  <2>1. /\ obuffer_idx' = next /\ out_head' = 0
        /\ out_head + Chunk = OUTPUT_BUFFER_SIZE
    BY <1>1, <1>3, <1>9
  <2>2. next \in Buffers /\ next # o
    BY <1>2, NextBufferIs
  <2>3. PICK a \in [Buffers -> Nat] : a = [at EXCEPT ![next] = p + Chunk]
    <3>1. p + Chunk \in Nat
      BY <1>2, <1>3
    <3>2. [at EXCEPT ![next] = p + Chunk] \in [Buffers -> Nat]
      BY <3>1
    <3> QED BY <3>2
  <2>4. /\ a[next] = p + Chunk /\ a[next] + 0 = p + Chunk
        /\ \A b \in Buffers : b # next => a[b] = at[b]
    BY <1>2, <1>3, <2>2, <2>3
  <2>5. a[next] = at[o] + OUTPUT_BUFFER_SIZE
    BY <1>2, <1>3, <2>1, <2>4
  <2>6. a[NextBuffer(c)] = n + pump.length
    BY <1>2, <1>6, <1>7, <2>4, NextBufferIs
  <2>7. ASSUME NEW b \in Buffers, Between(b, c, next)
        PROVE  /\ a[NextBuffer(b)] = a[b] + OUTPUT_BUFFER_SIZE
               /\ Holds(obuffers'[b], 0, a[b], OUTPUT_BUFFER_SIZE)
    <3>1. CASE b = o
      BY <1>4, <1>7, <2>1, <2>2, <2>4, <2>5, <3>1
    <3>2. CASE b # o
      <4>1. /\ Between(b, c, o) /\ NextBuffer(b) # next /\ b # next
            /\ NextBuffer(b) \in Buffers
        BY <1>7, <2>7, <3>2, NextBufferIs
      <4> HIDE DEF next
      <4> QED BY <1>4, <1>6, <2>4, <3>2, <4>1
    <3> QED BY <3>1, <3>2
  <2>8. Holds(obuffers'[next], 0, a[next], 0)
    BY DEF Holds
  <2>9. Queued(output_q', a[next] + 0, received)
    BY <1>5, <2>4
  <2> HIDE DEF next, p
  <2>10. Data(n, a)'
    BY <1>1, <1>2, <1>4, <1>6, <2>1, <2>6, <2>7, <2>8, <2>9 DEF Data
  <2> QED BY <2>10
<1> QED
  BY <1>8, <1>9

(* At the start there are no bytes.                                        *)
LEMMA OutputInit == Init => OutputInv
<1> SUFFICES ASSUME Init PROVE OutputInv
  OBVIOUS
<1> DEFINE at == [b \in Buffers |-> 0]
<1>1. Number(0) = 0
  BY ModIs, BytesAssumption DEF Number
<1>2. at \in [Buffers -> Nat] /\ 0 \in Buffers
      /\ OUTPUT_BUFFER_COUNT - 1 \in Buffers
  BY BufferAssumption DEF Buffers
<1>3. NextBuffer(OUTPUT_BUFFER_COUNT - 1) = 0
  BY <1>2, NextBufferIs, BufferAssumption
<1>4. \A b \in Buffers : ~Between(b, OUTPUT_BUFFER_COUNT - 1, 0)
  BY BufferAssumption DEF Between, Buffers
<1>5. at[0] = 0
  BY <1>2
<1> HIDE DEF at
<1>6. Data(0, at)
  BY <1>1, <1>3, <1>4, <1>5 DEF Init, Data, Holds, Queued
<1> QED
  BY <1>2, <1>6 DEF OutputInv

(* Every step keeps what the buffers hold.                                 *)
LEMMA OutputStep == RingInv /\ OutputInv /\ [Next]_vars => OutputInv'
<1> SUFFICES ASSUME RingInv, [Next]_vars,
                    NEW n \in Nat, NEW at \in [Buffers -> Nat], Data(n, at)
             PROVE  \E m \in Nat, a \in [Buffers -> Nat] : Data(m, a)'
  BY DEF OutputInv
<1>1. ASSUME UNCHANGED <<obuffers, obuffer_idx, out_head, carrier_idx,
                         output_q, received, sent>>,
             pump'.chunk = pump.chunk, pump'.length = pump.length
      PROVE  Data(n, at)'
  BY <1>1, DataStays
<1>2. ASSUME NEW c \in Clients, NEW len \in LENGTHS, term_put_string(c, len)
      PROVE  Data(n, at)'
  BY <1>1, <1>2 DEF term_put_string, server
<1>3. ASSUME NEW c \in Clients, ReceivePuts(c)
      PROVE  Data(n, at)'
  BY <1>3, ReceivePutsData
<1>4. CASE ReceiveCarrier
  BY <1>1, <1>4 DEF ReceiveCarrier
<1>5. CASE FillChunk
  BY <1>5, FillChunkData
<1>6. CASE FillDone
  BY <1>1, <1>6 DEF FillDone
<1>7. CASE TrySend
  BY <1>7, TrySendData
<1>8. CASE CarrierAsks
  <2>1. pump'.chunk = pump.chunk /\ pump'.length = pump.length
    BY <1>8 DEF CarrierAsks, RingInv, TypeOK
  <2> QED BY <1>1, <1>8, <2>1 DEF CarrierAsks, server
<1>9. CASE Pump
  BY <1>9, PumpData
<1>10. CASE UNCHANGED vars
  BY <1>1, <1>10 DEF vars
<1> QED
  BY <1>2, <1>3, <1>4, <1>5, <1>6, <1>7, <1>8, <1>9, <1>10
  DEF Next, Server, Carrier

(***************************************************************************)
(* The strings reach the UART whole and in the order in which the server   *)
(* received them: no byte is lost, sent twice or overwritten in the ring.  *)
(***************************************************************************)
THEOREM BytesGoOutInOrder == Spec => []OutputInOrder
<1>1. OutputInv => OutputInOrder
  BY NumberPlus DEF OutputInv, Data, OutputInOrder
<1>2. Init => RingInv /\ OutputInv
  BY RingInit, OutputInit
<1>3. RingInv /\ OutputInv /\ [Next]_vars => RingInv' /\ OutputInv'
  BY RingStep, OutputStep
<1> QED
  BY <1>1, <1>2, <1>3, PTL DEF Spec

=============================================================================

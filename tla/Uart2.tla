------------------------------- MODULE Uart2 -------------------------------
(***************************************************************************)
(* UART2, the terminal's: its FIFOs, the interrupts that its control       *)
(* register lets through, their handlers (io.c), and the two tasks that    *)
(* await them.  The input side is composed with the terminal server, which *)
(* TermInput models; of the output side only the carrier's loop is here.   *)
(*                                                                         *)
(* `typed' counts the bytes that have reached the UART; TermInput's own    *)
(* `typed' is what the notifier has sent of them (see Promise).            *)
(***************************************************************************)
EXTENDS TermInput

CONSTANTS
  UART_FIFO_SIZE,  \* the depth of each FIFO
  BLOCK,           \* the most bytes that one send interrupt puts (8)
  LENGTHS,         \* how many bytes the carrier may get at a time
  ON_THE_WAY       \* bound: bytes typed, in the UART or after it, not read

(* A block fits in the half of the FIFO that the interrupt says is free.   *)
ASSUME DepthAssumption ==
  /\ UART_FIFO_SIZE \in Nat /\ BLOCK \in Nat \ {0}
  /\ 2 * BLOCK <= UART_FIFO_SIZE
ASSUME LengthsAssumption == LENGTHS \subseteq Nat
ASSUME OnTheWayAssumption == ON_THE_WAY \in Nat /\ ON_THE_WAY < BYTES

VARIABLES
  ctlr,          \* the interrupt bits that are set in the control register
  rx,            \* the receive FIFO
  silent,        \* nothing has come for the time of the receive timeout
  overrun,       \* OE of the error register: a byte has been lost
  awaits_recv,   \* int_queue[UART2_RECV] holds the notifier
  tx,            \* how many bytes the transmit FIFO holds
  awaits_send,   \* int_queue[UART2_SEND] holds the carrier
  length         \* the bytes the carrier has still to pump

server_vars == vars
uart_vars == <<ctlr, rx, silent, overrun, awaits_recv>>
send_vars == <<tx, awaits_send, length>>
uvars == <<server_vars, uart_vars, send_vars>>

(* uart_initirq, before any task has run.                                  *)
UInit ==
  /\ Init
  /\ ctlr = {"RIEN", "MSIEN"}
  /\ rx = <<>>
  /\ silent = FALSE
  /\ overrun = FALSE
  /\ awaits_recv = FALSE
  /\ tx = 0
  /\ awaits_send = FALSE
  /\ length = 0

(* The kernel halts.  It is "surprised" by an interrupt that should not    *)
(* have come, and "halted" by what the outside may do to it.               *)
Halt(how) ==
  /\ Stop(how)
  /\ UNCHANGED <<inbox, uart_vars, send_vars>>

-----------------------------------------------------------------------------
(* The device.  It asks for service when the receive FIFO is half full,    *)
(* when bytes lie in it and no more come, and when half of the transmit    *)
(* FIFO is free.                                                           *)

RIS == "RIEN" \in ctlr /\ 2 * Len(rx) >= UART_FIFO_SIZE
TIS == "TIEN" \in ctlr /\ 2 * tx <= UART_FIFO_SIZE
RTIS == "RTIEN" \in ctlr /\ silent

(* A byte comes in.  One that finds the FIFO full is lost.                 *)
Type ==
  /\ pc = "running"
  /\ Unread < ON_THE_WAY
  /\ typed' = Plus(typed, 1)
  /\ IF Len(rx) < UART_FIFO_SIZE
     THEN rx' = Append(rx, typed) /\ UNCHANGED overrun
     ELSE overrun' = TRUE /\ UNCHANGED rx
  /\ UNCHANGED <<input_q, in_tid, input, inbox, readers, got, pc, ctlr,
                 silent, awaits_recv, send_vars>>

Silence ==
  /\ pc = "running"
  /\ rx # <<>>
  /\ silent' = TRUE
  /\ UNCHANGED <<server_vars, ctlr, rx, overrun, awaits_recv, send_vars>>

Transmit ==
  /\ pc = "running"
  /\ tx > 0
  /\ tx' = tx - 1
  /\ UNCHANGED <<server_vars, uart_vars, awaits_send, length>>

-----------------------------------------------------------------------------
(* The tasks.                                                              *)

(* Mutant: the await does not ask for the timeout.                         *)
AwaitRecvNoTimeout ==
  /\ pc = "running"
  /\ ~Notifying
  /\ ~awaits_recv
  /\ awaits_recv' = TRUE
  /\ UNCHANGED <<server_vars, ctlr, rx, silent, overrun, send_vars>>

(* The notifier, which the server has answered, awaits UART2_RECV.         *)
AwaitRecv ==
  /\ pc = "running"
  /\ ~Notifying
  /\ ~awaits_recv
  /\ awaits_recv' = TRUE
  /\ ctlr' = ctlr \union {"RTIEN"}
  /\ UNCHANGED <<server_vars, rx, silent, overrun, send_vars>>

(* The server answers the carrier with the number of bytes to pump.        *)
CarrierGets(len) ==
  /\ pc = "running"
  /\ length = 0
  /\ length' = len
  /\ UNCHANGED <<server_vars, uart_vars, tx, awaits_send>>

AwaitSend ==
  /\ pc = "running"
  /\ length > 0
  /\ ~awaits_send
  /\ awaits_send' = TRUE
  /\ ctlr' = ctlr \union {"TIEN"}
  /\ UNCHANGED <<server_vars, rx, silent, overrun, awaits_recv, tx, length>>

-----------------------------------------------------------------------------
(* The handlers.  Each first makes sure that the UART has seen no error.   *)

(* Mutant: the byte read to look for the key is not stored.                *)
ReadFifoButFirst == SubSeq(rx, 2, IF Len(rx) < UART_FIFO_SIZE THEN Len(rx)
                                  ELSE UART_FIFO_SIZE)

(* What the handler reads into the array of the notifier, all that the     *)
(* FIFO holds: the array is as long as the FIFO is deep.                   *)
ReadFifo == SubSeq(rx, 1, IF Len(rx) < UART_FIFO_SIZE THEN Len(rx)
                          ELSE UART_FIFO_SIZE)

(***************************************************************************)
(* The notifier gets the bytes, and sends before any other task runs.      *)
(* RTIS_MASK, which is cleared in the control register, is the bit that    *)
(* enables the modem interrupt there.                                      *)
(***************************************************************************)
HandOver ==
  /\ rx # <<>>
  /\ awaits_recv
  /\ awaits_recv' = FALSE
  /\ NotifierSends(ReadFifo)
  /\ UNCHANGED typed
  /\ rx' = SubSeq(rx, Len(ReadFifo) + 1, Len(rx))
  /\ silent' = (silent /\ rx' # <<>>)
  /\ ctlr' = ctlr \ {"MSIEN"}
  /\ UNCHANGED <<overrun, send_vars>>

(* Mutant: no look at the error register.                                  *)
DeliverUnchecked == HandOver

Deliver == ~overrun /\ HandOver

(* Nobody waits: the handler leaves the bytes where they are, and the      *)
(* interrupt comes again.                                                  *)
NobodyWaits ==
  /\ ~overrun
  /\ rx # <<>>
  /\ ~awaits_recv
  /\ Len(rx) < UART_FIFO_SIZE
  /\ UNCHANGED uvars

(* An error of the UART, the key that stops the system first among the     *)
(* bytes, or a full FIFO and nobody waiting.                               *)
RecvHalts ==
  /\ \/ overrun
     \/ rx # <<>> /\ (awaits_recv \/ Len(rx) = UART_FIFO_SIZE)
  /\ Halt("halted")

irq_uart2_recv ==
  \/ Deliver
  \/ NobodyWaits
  \/ RecvHalts
  \/ ~overrun /\ rx = <<>> /\ Halt("surprised")

(* What one interrupt takes of a request.                                  *)
Count == IF BLOCK < length THEN BLOCK ELSE length

(* The carrier gets back how many bytes the FIFO has taken.                *)
PutBlock ==
  /\ ~overrun
  /\ awaits_send
  /\ awaits_send' = FALSE
  /\ tx' = tx + Count
  /\ length' = length - Count

(* Mutant: the interrupt stays enabled after a block.                      *)
SendKeepsInterrupt ==
  \/ PutBlock /\ UNCHANGED <<server_vars, uart_vars>>
  \/ overrun /\ Halt("halted")
  \/ ~overrun /\ ~awaits_send /\ Halt("surprised")

irq_uart2_send ==
  \/ /\ PutBlock
     /\ ctlr' = ctlr \ {"TIEN"}
     /\ UNCHANGED <<server_vars, rx, silent, overrun, awaits_recv>>
  \/ overrun /\ Halt("halted")
  \/ ~overrun /\ ~awaits_send /\ Halt("surprised")

(* The general interrupt is the sum of all, and meant for the timeout.     *)
irq_uart2 == IF RTIS \/ overrun THEN irq_uart2_recv ELSE Halt("surprised")

(***************************************************************************)
(* ksyscall_irq: the vector that the controllers give is the receive       *)
(* interrupt's (25), else the send interrupt's (26), else that of the      *)
(* second controller, the general one (54).                                *)
(***************************************************************************)
Interrupt ==
  /\ pc = "running"
  /\ \/ RIS /\ irq_uart2_recv
     \/ ~RIS /\ TIS /\ irq_uart2_send
     \/ ~RIS /\ ~TIS /\ (RIS \/ TIS \/ RTIS) /\ irq_uart2

Device == Type \/ Silence \/ Transmit

Server ==
  /\ ReceiveInput \/ \E r \in Readers : ReceiveGetc(r)
  /\ UNCHANGED <<uart_vars, send_vars>>

Reader(r) == get_term_char(r) /\ UNCHANGED <<uart_vars, send_vars>>

UNext ==
  \/ Device
  \/ Interrupt
  \/ AwaitRecv \/ AwaitSend
  \/ Server
  \/ \E r \in Readers : Reader(r)
  \/ \E len \in LENGTHS : CarrierGets(len)

USpec == UInit /\ [][UNext]_uvars

(***************************************************************************)
(* The device and the processor run: a byte that lies in the FIFO times    *)
(* out, an interrupt is taken as soon as no other goes before it, and the  *)
(* notifier and the server, with their high priorities, go on.             *)
(***************************************************************************)
UFairSpec ==
  /\ USpec
  /\ WF_uvars(Silence)
  /\ WF_uvars(Interrupt)
  /\ SF_uvars(Interrupt /\ Deliver)
  /\ WF_uvars(AwaitRecv)
  /\ WF_uvars(Server)

-----------------------------------------------------------------------------
(* Properties.                                                             *)

(* The bytes that the notifier sends, and what becomes of them, are what   *)
(* TermInput takes them to be, up to the moment when the kernel halts.     *)
Promise == INSTANCE TermInput WITH
  typed <- IF rx = <<>> THEN typed ELSE rx[1],
  pc <- IF pc \in {"halted", "surprised"} THEN "running" ELSE pc
ImplementsTermInput == Promise!Spec

(* The handlers' assertions hold: none runs without the cause it is meant  *)
(* for, and what a send interrupt puts fits in the FIFO.                   *)
HandlersFitTheDevice == pc # "surprised" /\ tx <= UART_FIFO_SIZE

(***************************************************************************)
(* The receive interrupt cannot be taken back: while it is pending and     *)
(* nobody awaits it, no task is sure to run an instruction.                *)
(***************************************************************************)
InterruptsInVain == (RIS \/ RTIS) /\ ~awaits_recv

(* Input never sticks: it is not so that from some moment on a reader      *)
(* waits, typed bytes lie unread, and none is read, however few they are   *)
(* (guide.tex: when less than 8 characters are placed into the buffer      *)
(* "we will still make them available to the system").                     *)
InputNeverSticks ==
  \/ []<><<got' # got>>_uvars
  \/ []<>(\/ typed = got \/ \A r \in Readers : ~readers[r]
          \/ pc # "running" \/ InterruptsInVain)

(* irq_uart2_recv says of interrupts that find nobody waiting: "we should  *)
(* be disabling interrupts when we are not waiting for input, so we should *)
(* not be here if the notifier is not waiting".  The timeout interrupt is  *)
(* the one that the await enables.                                         *)
NoTimeoutInVain == RTIS => awaits_recv
=============================================================================

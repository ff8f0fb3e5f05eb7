# A formal model of cs452-flaming-meme

This directory models a microkernel and its servers. The kernel runs on a
TS-7200 (ARM920) and drives a model railway. The modules are TLA+; TLC checks
them on small instances, and TLAPS proves theorems about some of them for every
value of the constants. File names below are relative to `src/`, the root of
the repository.

## 1. The system

### Components

| Component | Source | State | Operations |
|---|---|---|---|
| Task descriptors | `src/kernel/task.c` | `tasks[]` (id, parent, priority, stack, `next`, receive queue), `free_list`, `task_active` | `task_create`, `task_destroy` |
| Scheduler | `src/kernel/scheduler.c`, `clz.h` | one ready queue per priority, a bitmap of those that are not empty | `scheduler_schedule`, `scheduler_get_next` |
| System calls | `src/kernel/syscall.c`, wrappers in `src/syscall.c` | `int_queue[]`: the task that awaits each event | Create, Exit, Pass, the queries, ChangePriority, Send, Receive, Reply, AwaitEvent, Shutdown, Abort, the IRQ trap |
| Interrupt handlers | `src/kernel/arch/arm920/irq.c`, `io.c`, `clock.c` | the FIFOs and control registers of the UARTs | one handler per device and cause; the controllers give the vector of one of those pending |
| Priority queue | `src/priority_queue.c` | a binary heap in an array | `pq_add`, `pq_delete` |
| Clock server | `src/tasks/clock_server.c` | the time, a priority queue of sleeping clients | Delay, DelayUntil, Time; a notifier task awaits the timer |
| Circular buffer | `include/circular_buffer.h` | head, tail, count, bytes | produce, consume, bulk produce |
| Terminal server | `src/tasks/term_server.c` | a ring of output buffers, a queue of strings, an input buffer, the waiting reader | Puts, Getc; a carrier task pumps output, a notifier brings input |
| Train server | `src/tasks/train_server.c` | two byte buffers, the waiting reader, the waiting carrier | put and get of commands; a carrier that follows CTS, a notifier |
| Name server | `src/tasks/name_server.c` | a table of 32 names and ids | RegisterAs, WhoIs, WhoTid |
| Task launcher, parser | `src/tasks/task_launcher*` | the line under the cursor and its row of the screen | keys that add to it, take back or enter it; a parser for 11 commands |
| Numbers and columns | `src/stdio.c`, `src/std.c`, `src/ui.c` | none | writing a word in decimal or hexadecimal, padding it |
| Idle task | `src/tasks/idle.c` | timer counts | a loop that makes no calls |

### How they interact

Tasks share no state with the kernel except through traps, and little with each
other: they talk by `Send`, which blocks until the receiver has called `Receive`
and then `Reply`. A server is a task in a loop around `Receive`. A device reaches
its server through a *notifier* (`AwaitEvent`, then `Send`) or a *carrier*
(`Send` to get work, then `AwaitEvent` until the device has taken it). The
exceptions to message passing are pointers sent once: the terminal server reads
the notifier's input array and the strings of clients blocked in Puts, and its
carrier reads the server's output buffers.

### What is hard

* One `next` field per descriptor serves every list a task can be on and also
  encodes, with two markers, that it waits for a message or for a reply.
* The kernel's loops wake tasks while they walk the list those tasks are on.
* Interrupts may come between any two calls and make any task ready.
* Slots are reborn: a slot gets a new id each time its task dies, by adding
  `TASK_MAX` to an int (`task.c:95`). The code marks the overflow as to do, and the
  guide says that no safety is provided there (`guide/guide.tex:99`): ids become
  negative, and in the end come round.
* The servers answer in an order that is not the order of the requests, while
  clients, ticks and bytes go on arriving.
* The carrier and the terminal server count buffers independently, without
  locks, and must agree.
* The two interrupts of the terminal's UART and its general one are enabled in
  one place, disabled in another, and taken in an order the controllers fix; one
  of them cannot be taken back, so it keeps coming until somebody waits for it.
* Counts and buffers have limits, and the code treats some as impossible.

### What makes each component correct

* Queues: each holds exactly the tasks that belong on it, first in first out.
* Scheduler: the active task has the highest priority of those ready; no ready
  task is passed over for ever by tasks of no higher priority.
* Message passing: no wakeup is lost; every Send ends once, with the right
  answer; a reply reaches only a task that awaits it; a message reaches only the
  task it was sent to, even if another has been born in its slot.
* Clock server: no tick is lost, nobody wakes early, nobody oversleeps, no
  caller is forgotten.
* Terminal output: strings reach the UART whole and in order, the buffer under
  the carrier is not written, output never stops for good.
* Terminal input: bytes reach the readers once and in order, and few bytes are
  not kept waiting for more to come.
* UART handlers: none runs without the cause it is meant for, and none overfills
  the transmit FIFO.
* Train server: each byte of a command is written once, in order, and only when
  the controller has answered the byte before; no change of the line is lost; a
  reader gets the bytes the train sent, in order.
* Name server: a name has one owner, the task that registered it last, however
  the calls of several tasks are interleaved.
* Command line: what the row shows when a line is entered is what is done, and the
  parser reads nothing past the end of the line.
* The bitmap search finds the highest bit of every word; every word written as a
  number reads back as itself.

## 2. The modules

| Module | Models | How |
|---|---|---|
| `TaskQueue` | the produce and consume statements repeated in `task.c`, `scheduler.c`, `syscall.c` | a *store* is a record of `next` fields, heads, tails and the bitmap; each statement group is a function of the store |
| `Kernel` | `task.c`, `scheduler.c`, `syscall.c` | one action per call and per outcome |
| `SendReceiveReply` | what message passing promises | an inbox per task and a state per task; the abstract specification of the kernel runs |
| `KernelRefinement` | that `Kernel` keeps that promise | a refinement mapping |
| `PriorityQueue`, `PriorityQueueUse` | `priority_queue.c` | operators on the array; a specification that adds and deletes |
| `ClockServer` | `clock_server.c`, the timer handler | extends `PriorityQueue` |
| `CircularBuffer`, `TermInput` | `circular_buffer.h`, the input half of `term_server.c` | offsets for pointers |
| `Uart2` | the handlers of UART2 in `io.c`, the device, the notifier's and the carrier's awaits | extends `TermInput`, and is shown to implement it |
| `TermServer` | the output half of `term_server.c` | numbered bytes |
| `TrainServer` | `train_server.c`, the handlers of UART1 in `io.c` | extends `CircularBuffer`; numbered bytes |
| `NameRegistry` | what the name server promises | a map from names to owners; the abstract specification of the name server |
| `NameServer` | `name_server.c` | two sequences for the table |
| `Powers` | nothing of its own | powers as a recursive function, which the provers can follow |
| `CommandParser` | `task_launcher/parse.c`, and what a line means by its words | extends `Powers`; operators on sequences of characters |
| `CommandLine` | the loop of `task_launcher.c` | extends `CommandParser` |
| `ChoosePriority` | the table of `kernel_init` and the search of `clz.h` | extends `Powers`; operators |
| `Formatting` | the writing of numbers in `stdio.c`, the padding in `ui.c` | extends `Powers`; operators |
| `SmallParts` | nothing of its own | composes the parts that need no other, one per behaviour |
| `KernelProofs`, `SendReceiveReplyProofs`, `PriorityQueueProofs`, `ClockServerProofs`, `Uart2Proofs`, `SmallPartsProofs`, `TermServerProofs`, `TrainServerProofs` | the theorems | |
| `MC*` | instances for TLC | |

A definition whose comment begins with "Mutant:" is a plausible slip of the
definition that follows it. No specification uses one. Each property of a run
has such a mutant, listed in `PROJECT.json`, that breaks it: the property can
fail.

### Kernel

A task is its index in `tasks[]`. `lists` is the store of all pointers: the free
list, the ready queues and the receive queues are queues of one store, since they
share the `next` fields. `int_queue`, `task_active`, `tid` and `priority` are the
fields of those names; `sp` says whether the stack pointer is set; `req` is the
request a blocked task's `sp[1]` points to; `result` is its `sp[0]`.

The kernel runs with interrupts off, so a trap is one step: the handler and then
`scheduler_get_next`. Two loops take a step per round, so that the state between
rounds is visible to the invariants: the recursion of `ksyscall_recv` (mode
`recv`) and the flush of `task_destroy` (mode `destroy`). `boot` is
`kernel_init`. An assertion about the kernel's own pointers that fails, or a bad
pointer followed, is mode `panic`; an abort for a task's misuse is `shutdown`.
The build modelled is the default one, with assertions on.

Interrupts (`IrqWake`, `IrqIgnored`, `IrqMissed`) may come in any state in which
a task runs. Whether the CTS line is up when a task awaits a flow-control event
is a free choice (`Await`, `AwaitPast`).

Ids are ints that wrap: `TID_MAX` is the largest one, and `NextTid` adds modulo
the range, which `TASK_MAX` divides (`TidAssumption`). So an id stays that of its
slot, but the slot gets its old ids back, and half of the ids are negative. What
survives this is what the kernel itself keeps under an id: queues and rendezvous
(`QueuesExact`, `ImplementsSendReceiveReply`, `MessagesReachTheirTask`). What does
not is what tasks remember: an id may come to name another task, and the caller of
a Create that returns a negative id takes it for an error. `stranded` is a history
variable: the senders that the flush of `task_destroy` throws away (finding
`kernel_stranded`). No guard reads it.

`SendReceiveReply` knows nothing of queues and pointers. `KernelRefinement` reads
its state off the kernel's: a task's inbox is the chain of its receive queue,
its state is decoded from `sp`, `req` and `next`. Calls that move no message are
stuttering steps.

### ClockServer

The inbox is that of `SendReceiveReply`. The steps of the loop that wakes
sleepers (`clock_server.c:179`) are steps of the model, and clients and ticks
come between them. Once the notifier is woken it sends before any other task
runs, as it has the highest priority in `tasks/priority.h`. The timer may tick
at any moment; if the notifier is not back the system aborts (`MissedTick`).
`Wrap` is C's signed arithmetic with a narrow word.

### TermServer and TermInput

The two halves of `term_server.c` handle different requests of one server and
share no state, so each is a module. Strings and input are bytes numbered in the
order they come, modulo more than can be under way at once; so a byte's number
tells its place, and order is checked without content. `pc` of `TermServer` is
the function the server is in. `FillChunk` is one round of the loop in
`_term_try_fill`, with the reply it may make. The first exchange of addresses is
over in the initial states.

### Uart2

`Uart2` puts the device below `TermInput`: `typed` counts the bytes that reach the
UART, `rx` is its receive FIFO, and the action `Input` of `TermInput` is replaced
by the interrupt that hands the FIFO to the notifier (`Deliver`). The send side has
the transmit FIFO, as a count, and the carrier's loop of awaits. `ctlr` is the
control register: the receive interrupt (`RIEN`) is on from the start, the await of
`UART2_RECV` turns on the timeout (`RTIEN`), that of `UART2_SEND` turns on the
send interrupt (`TIEN`).

`Interrupt` is `ksyscall_irq` with the order of the controllers: the receive
interrupt's vector, then the send interrupt's, then the general one, which
`irq_uart2` takes for a timeout. A handler that is run without its cause stops
with pc "surprised"; an error of the UART, the key that stops the system, and a
full FIFO that nobody awaits stop it with "halted". The receive handler clears the
wrong bit of the control register (finding `uart_timeout`), so that the timeout
stays on: if it comes while the notifier is at the server, the handler returns with
nothing done (`NobodyWaits`), and the interrupt comes again.

The refinement mapping takes for `TermInput`'s `typed` the number of the oldest
byte in the FIFO, or of the next one if it is empty: to the server a byte has been
typed when the notifier gets it.

### CommandLine and CommandParser

A cell of `row` is a column after the prompt; the escapes are modelled by what
they do to the cells. `parse_command` returns the command and its arguments, and
reads by index, so that TLC stops at a read past the terminator. `Meaning` states
the same language by its words, without an index.

`Meaning` shows where the parser is looser than its help: a number may be a sign
alone; `sp` and `sz` may be followed by anything, and so may the number of `hr`.

### SmallParts

The priority queue, the name server, the command line and the three functions
(parser, bitmap search, number writing) share no state, so one specification
composes them: a behaviour chooses a `part` and steps only that one. The functions
are given one input after another.

### TrainServer

The server, its carrier, its notifier and the CTS line of the controller. The
carrier writes a byte only after it has seen the line go down and come up again:
it awaits `UART1_CTS`, sends, and awaits `UART1_DOWN`. Each of these awaits looks
at the line when it is called (`AwaitCts`, `AwaitDown`) and otherwise sleeps until
the modem interrupt (`irq_uart1`). `LineFalls` is the controller taking a byte.
The modem interrupt looks at the level of the line and lets go only a task that
waits, so the code does not see a line that falls and rises between the write and
the await of `UART1_DOWN`: the carrier then waits for ever. The constant
`LINE_IS_SLOW` excludes just this (a guard of `LineRises`). It is an assumption on
timing, justified by the 4 ms that a byte takes on the wire and by the carrier's
priority, below the notifiers' only. `AwaitedChangeComes`, that no change is lost,
is checked and proved under it; with `LINE_IS_SLOW` FALSE, TLC violates it. The
other properties of the train server hold without it.

A byte from the train that finds no notifier waiting stops the kernel, as in
`irq_uart1_recv`. A request is one step of the server: what it does between a
Reply and the next Receive is seen by nobody.

### NameServer

`lookup` and `tasks` are the two arrays of the table, as far as `lookup_insert`.
A refinement mapping reads the owner of a name off its entry, and TLC checks that
the server implements `NameRegistry`: each call takes effect once, between its
start and its return.

## 3. The runs

| Run | Instance | Shows |
|---|---|---|
| `kernel_life` | 4 slots, 2 priorities, 2 tasks at boot, one event | the queues stay exact through creation, exit and rebirth; no wakeup lost; no panic; first in first out; no message reaches a task it was not sent to, though ids wrap; the kernel implements `SendReceiveReply`. The senders that an exit strands are the exception `kernel_stranded` shows |
| `kernel_messages` | 3 tasks that call and idle, messages and buffers of length 0 and 1 | the refinement again where messages are refused, and every Send ends with the right answer |
| `kernel_priorities` | 4 slots, 3 priorities, 2 events, timer on, no messages | creation at, and changes of, priority: the highest priority runs; no ready task starves among its equals |
| `clock_server` | 3 clients, 2 ticks, delays of 0, 1 and 2 | no tick is lost, nobody wakes early or oversleeps, no caller is forgotten, every sleeper whose tick comes is let go |
| `terminal_output` | 2 clients, 2 buffers of 2 bytes, strings of 2 and 3 | bytes in order, no buffer is written under the carrier, every Puts returns, every byte goes out |
| `terminal_uart` | 1 reader, FIFOs of 4 bytes, send blocks of 2, an input buffer of 8 | bytes reach the reader once and in order from the device on; handlers run only for their causes; the device and notifier implement what `TermInput` assumes of them; input never sticks |
| `train_server` | 2 clients, buffers of 4 bytes, requests of 1 and 2 | commands and answers in order, one byte at a time on the line, no change of a slow line lost, nobody waits in vain, no call forgotten |
| `small_parts` | a heap of 8 nodes with 4 keys; 2 clients and 4 names for a table of 2; a line of 7 with 10 keys; lines of at most 8 characters; all words of 12 and of 8 bits | the heap holds what was added and gives up the smallest; one entry per name and the registry implemented; what is shown is what is done; the parser agrees with the meaning of the words; the highest bit is found; numbers read back |

Four runs find a disagreement between the code and what the repository says of it:

* `kernel_stranded`: `task_destroy` reads a link that it has just cleared, so
  only the first of several waiting senders is woken when a receiver exits.
  `QueuesExact` and the refinement state exactly what is left: the others stay
  in state "sending", to nobody.
* `clock_server_overflow`: a Delay whose end passes `INT_MAX` returns at the
  next tick.
* `terminal_input_end`: a bulk of input that ends where the buffer does leaves
  the head one past it, and the next single byte is written there.
* `uart_timeout`: the handler of UART2 clears the status bit of the timeout, not
  its enable bit, in the control register (`io.c:186`), so the timeout interrupt
  comes while nobody waits for it, as the comment at `io.c:198` suspects.

### Bounds, and why they are enough

* Four slots allow a receiver with two senders queued and a task of another
  priority: an append to an empty and to a nonempty queue, a removal that leaves
  a queue empty and one that does not, and a queue of every kind at once.
  `TID_MAX` is 3, so that the first exit of a slot gives it a negative id and the
  second one the id that it had at first: every overflow happens. `EXITS` lets the
  tasks of one slot exit, any number of times, or none where rebirth is not the
  question. Ids in requests range over all ints: live, dead, unused and negative.
* Two priorities tell higher, equal and lower apart; the third in
  `kernel_priorities` gives the bitmap a bit to skip.
* Lengths 0 and 1 are all that the comparisons tell apart.
* The heap of 8 nodes has the depth at which the odd indexing of the root, an
  inner node with two children and one with one child all occur.
* Three clients fill three of four heap nodes. Two ticks and delays of 0 to 2
  make a deadline past, present and to come, and two sleepers with the same one.
  `INT_MAX` is 7 where overflow is not the question and 3, with three ticks,
  where it is. The bound on ticks stops the runs, so deadlock is not checked
  there; an abort stops them too. Only a sleeper whose tick comes before the
  bound is promised its wakeup.
* The output ring has two buffers instead of four, and two bytes instead of 256:
  the server is then most often up against the carrier. Strings of 2 and 3 fill
  a buffer exactly, span two, and leave one partly filled. `BYTES` exceeds the
  bytes in two full buffers and two strings.
* UART2's FIFOs hold four bytes instead of 16, and a send interrupt puts two
  instead of eight, so that a block is half of a FIFO, as there. The carrier asks
  for three bytes: one block and a part. The input buffer of eight is twice a FIFO;
  five bytes on the way are one more than a FIFO holds, so that the FIFO overruns,
  and fewer than fill the buffer: the count is kept modulo the size, so that a full
  buffer counts as empty (listed as a hazard). There is one reader, as the
  repository has at any time: a second one aborts the server. The run that finds the
  head past the end has a buffer of four.
* A line of seven cells instead of 74 holds every command's letters and a
  number. The keys are the letters of four commands, a digit, space, escape,
  backspace and CR; tab and newline, which count as space for the parser but
  move the cursor on the screen, are left out, and with them that the row is then
  not what the line is.
* The parser is given 57 beginnings, the first letters of every command and some
  of none, each followed by up to five of space, digit, minus sign and a letter:
  two arguments, with one character too many or too few between them.
* The bitmap has four bytes of 3 bits instead of 8: every word of 12 bits is tried,
  hence each combination of empty and nonempty bytes. Numbers have 8 bits instead
  of 32, which keeps what differs between the bases: a word fills its hexadecimal
  digits exactly, and its decimal ones not.
* The train server's buffers hold four bytes instead of 128, and a request two
  instead of four: so a reply to the carrier is full or not, and a buffer wraps.
  The code puts no bound on the bytes unsent or unread; the model keeps them below
  what the buffers hold. `BYTES` exceeds what one buffer holds. An abort stops the
  system, so deadlock is not checked.
* A table of two names has room for one beside the server's own: a name that
  fits, one that does not, and one that is registered again. The proofs need no
  such bound.

### Fairness

* `Kernel`: weak fairness of the next step. The CPU runs, and the timer
  interrupts a task that makes no calls.
* `ClockServer`: weak fairness of the timer, the notifier and the server, which
  have priorities above their clients' and finish a request without blocking.
  Clients need not call.
* `TermServer`: weak fairness of the server and of the carrier, whose UART goes
  on taking bytes. Clients need not put.
* `Uart2`: weak fairness of the receive timeout, of interrupts, of the notifier's
  await and of the server. Strong fairness of the interrupt that delivers: it is
  taken as soon as none goes before it, and its guard flickers only because a key
  may come or another interrupt may be served in between. Progress is not claimed
  while a receive interrupt is pending that nobody awaits (`InterruptsInVain`): it
  cannot be taken back, so the handlers may leave the tasks no instruction until
  the FIFO fills, and then the system stops.
* `TrainServer`, `NameServer` and `CommandLine` state no fairness, and only safety is checked. What
  would make the carrier sleep for ever is a lost change, which is safety here.

## 4. What is proved

All theorems hold for every value of the constants that the named assumptions
allow; the assumptions say only that sizes are positive, that marker values are
not tasks, that neither a carrier nor a notifier is a client or a reader, that the
idle task is one of the boot sequence, that priorities asked for exist, that a send
block is at most half of a FIFO (`DepthAssumption`), that lengths and times are
numbers, that the time fits in an int (`TimeAssumption`), that
`TASK_MAX` divides the range of ids (`TidAssumption`), that a key is an int
(`KeysAssumption`), and what is said below of texts and keyboards. What more a
theorem needs is a hypothesis in its statement.

* `KernelProofs`, the queues. `ProduceAppends` and `ConsumeDropsHead`: on a store where a
  queue represents a sequence (`Represents`: the head, the links and the tail are
  those of the sequence, without repetition), the pointer statements yield the
  appended sequence and the tail. `ProduceKeepsOthers` and `ConsumeKeepsOthers`:
  queues that share no task with the changed one represent what they did.
  `ChainFollows`: following the links of a queue that represents a sequence gives
  the sequence, so that `Queue(q)`, which the properties read off the pointers, is
  what the queue represents. The lemmas after that are about the store as a whole,
  where all queues share one array of next fields: `Layout(m, place)` says that each
  queue is a proper list and that each task is on the one queue `place` names, and
  each operation of the scheduler moves one task in it.
* `KernelProofs`, `Typed`: every field keeps its type, one case per action. A
  pointer that is consumed is a task because each handler has tested it; the
  dispatch of a nonempty bitmap finds a priority because a nonempty set of
  priorities has a greatest element (`MaxPriority`, by well-founded induction).
* `KernelProofs`, `WakeupsAreNotLost`: a task marked as waiting for a message has
  an empty receive queue. The property excepts the callee of a `ksyscall_recv`
  under way, whose queue and mark change in separate rounds. That exception makes
  it non-inductive; `WakeupInv` adds the types and `CalleeOK`: outside such rounds
  there is no callee. `Awake(m, x)` states the property of a store, so that the
  scheduler's operations are shown once to preserve it and each call composes
  them.
* `KernelProofs`, `QueueInvariant`: the inductive invariant `QueueInv` of the
  pointers, for any table size, boot sequence, priorities, events and lengths. None
  of `QueuesExact`, `NoPanic` and `HighestPriorityRuns` is inductive, and none can
  be strengthened alone: that a dispatch finds a task needs the idle task to be on a
  ready queue, which needs the queues to be proper, which needs a task that is
  appended to be on no other queue, which needs its request, its mark and its
  awaited event to agree. Its parts:
  * `Layout(lists, Here)`: every queue is a proper list, and `Rest` computes from
    priority, request, awaited event and mark, and from whether the task was thrown
    away, the one queue that it is on;
  * `BitsOK`: the bitmap has the bits of the ready queues that are not empty;
  * `StatusOK`: the marks agree with the requests, a task awaits at most one event
    and does nothing meanwhile, a stranded task is sending and not received;
  * `ActiveOK`: what is known of the running, the received and the dying task;
  * `IdleOK`, and while the kernel boots `BootOK`, that descriptors are taken in
    their order.

  `KernelDoesNotPanic`, `QueuesAreExact` and `HighestRuns` follow from it without
  another step. They assume that the idle task is one of those that `kernel_init`
  creates (`IdleAssumption`).
* `KernelProofs`, action properties. `QueueStep` proves with `QueueInv'` the effect
  of each step, one of eight (`Still`, `Starts`, `Receives`, `Sends`, `Replies`,
  `Exits`, `Releases`, `Frees`), on ids, requests, marks and inboxes. From the
  effects follow `QueuesAreFifo` and `SendsEndRight`, without a look at the actions.
* `KernelProofs`, `MessagesArriveWhereSent`: a message is received by the task that
  it was sent to and by none that was born in its slot since, for any range of ids
  that `TASK_MAX` divides. Ids that come round make it false that a request's id
  alone tells its task, so the invariant is about time: `NamesInv` says that a
  message that can still be received carries the id its receiver has now. It holds
  because a task that goes leaves no such message: each sender on its queue is
  either answered or stranded. `ModStep` and `NextTidIs` show that an id keeps its
  slot when it wraps.
* `KernelProofs`, `ImplementsMessagePassing`: the kernel implements
  `SendReceiveReply` under the mapping of `KernelRefinement`. Each effect is a step
  of the abstract rendezvous or a stutter (`StepsAreAbstract`); that a receiver that
  is found waiting has an empty inbox is `WakeupInv`.
* `SendReceiveReplyProofs`, `InboxesAreSound`: the abstract rendezvous keeps each
  sender in one inbox, once, and the inbox of a waiting task empty.

* `SmallPartsProofs`, `NamesAreUnique` and `NameServerImplementsRegistry`: the
  table stays within its arrays, no name has two entries, and the server
  implements `NameRegistry`. The type invariant and the uniqueness of names are
  inductive together. Given both, the owner the mapping reads off the table is the
  task of the one entry (`OwnersOf`), and as many names have an owner as the table
  has entries (`OwnedNames`), so that the server's test for room is the registry's.

* `TermServerProofs`, first half: `CarrierIsWhereItSeems`, `NothingIsOverwritten`
  and `ClientsAreKept`, from one inductive invariant, `RingInv`. That the server
  fills no buffer under the carrier needs more than that both count alike: when the
  server has come round to the carrier's buffer it has filled nothing of it
  (`RingOK`); the carrier asks once, with nothing left to send, and is sent a buffer
  only while it waits (`CarrierOK`); and a client is in one place (`OncePerClient`),
  so that the reply for one string does not let go the sender of another.
* `TermServerProofs`, second half: `BytesGoOutInOrder`. `OutputInv` says that there
  are a position `n` of the output and a position `at[b]` for each buffer from
  which everything that is stored can be computed: what the carrier holds starts at
  `n`, each full buffer between the carrier's and the server's follows the one
  before it, the server's buffer and then the strings still waiting follow them.
  Positions do not wrap, so the numbers of bytes (modulo `BYTES`) and the indices of
  the ring are compared only through `NumberPlus` and `NextBufferIs`, which rest on
  three lemmas on division (`DivMod`, `ModIs`, `PlusMod`). `BetweenGrows` and
  `BetweenShrinks` say which buffers are full after the server or the carrier has
  gone on to the next.

* `TrainServerProofs`, first half: `NobodyIsKeptInVain`, `CallsAreKept`,
  `LineIsNotMissed` and `LineAnswersEachByte`, from one inductive invariant,
  `ControlInv`. `LineIsNotMissed` has `LINE_IS_SLOW` as its hypothesis. `LineOK` relates the carrier to the line: a byte that the line has
  not answered is one after which the carrier has not gone on, and it writes only
  when the line is up. `WaitersAreKnown` says that each task that waits is in the
  inbox or the one the server keeps, and `InboxOK` that an inbox has one request of
  each, of the kind the task waits for.
* `TrainServerProofs`, second half: `CommandsGoInOrder` and `AnswersComeInOrder`.
  As in `TermServerProofs` there are positions from which all that is stored can be
  computed: on the way to the train the carrier's bytes, the buffer's, and then
  those of each put in the inbox (`Queued`); on the way from it the buffer's and
  then those of the notifier or of its notice (`Brought`). The buffers are rings
  whose loops are recursive functions: `WalkIsDefined` and `UpTo` show what such a
  function returns, and `ProducedHolds` and `ConsumedHolds` what this means for
  positions. Both theorems are about a specification in which fewer bytes than the
  buffer holds are unsent or unread (the guards of `Put` and `irq_uart1_recv`):
  nothing in the code ensures it.

* `PriorityQueueProofs`, `HeapAdds` and `HeapDeletes`: what `pq_add` and `pq_delete`
  do to a heap of any even size, with any keys and values, equal ones too (`IsHeap`:
  the first `count` nodes are entries in heap order, the others marked free). The
  nodes after a call are those before it with the new one at the end, or with the
  last one in the place of the root, in some other order (`SameNodes`, a
  permutation of the array). The loops of the two calls are recursive functions in
  `PriorityQueue`. That such a function is defined, and that what each round keeps
  holds when it ends, is shown once, for any loop with a rank that falls
  (`LoopIsDefined`, `LoopEnds`), from the least rank at which it would fail.
  `Rising` and `Sinking` are the invariants of the two loops: heap order everywhere
  but at the node that moves. `SmallestIs` is why reading the right child without a
  test does no harm: past the count a node is free, and past the array it is never
  reached, since SIZE is even. An entry may have the key INT_MAX of a free node: a
  node changes places only with a smaller one, so no free node rises above it.
* `SmallPartsProofs`, `QueueHoldsItsBag` and `QueueDeletesTheSmallest`: after any
  calls the heap holds the bag of what was added and not deleted, and each delete
  takes a smallest entry of it. A bag counts: `SameContents` shows that a
  permutation of the nodes leaves each count, by a bijection of the places where a
  node is, and `ContentsAdd` and `ContentsDelete` what one node more or less does to
  the counts.
* `ClockServerProofs`, `QueueAdds` and `QueueDeletes`: the same for the queue of the
  clock server, in which no client occurs twice (`IsQueue`).
* `ClockServerProofs`, `TicksAreCounted`: the server's time, with the tick on its
  way, is the timer's. Alone it is not inductive: two messages of the notifier could
  both be in the inbox. `TickInv` adds `OneNotice`: there is at most one, and only
  while the notifier waits for its reply. `WrapKeeps` shows that a time the timer
  has reached does not overflow.
* `ClockServerProofs`, `CallersAreKnown`: `CallInv` adds to `TickInv` that the queue
  is a heap and that the inbox has one message of each sender that waits and does
  not sleep. That `pq_add` has room is a matter of counting: who sleeps is a client,
  each once, and there are at most SIZE clients.
* `ClockServerProofs`, `NobodySleepsPast` and `NobodyIsWokenEarly`: `WakeInv` adds
  what a request means (`RequestsOK`). The server computes a deadline from its own
  time, which may be behind the timer's, when it receives the request, which may be
  long after the call. A request that was sent after the tick stands behind that
  tick's notice in the inbox, so the server's time has reached the call when it
  receives it, and the deadline is not too early (`DeadlineOK`). Both assume
  `NoOverflow`: no deadline passes INT_MAX. Without it they are false, as the run
  `clock_server_overflow` shows.
* `Uart2Proofs`, `HandlersFit`: no handler of UART2 is surprised and the transmit
  FIFO does not overflow. `DeviceInv` adds `CausesHold`: the send interrupt is on
  only while the carrier awaits it, and the timeout is pending only while bytes
  lie in the FIFO. A timeout that is served late still finds its bytes: only the
  handler that takes them ends it.
* `Uart2Proofs`, `InputComesInOrder`: `ByteInv` gives every byte under way its
  place. There are positions `g`, `s` and `t` such that `g` bytes were got, `s`
  handed to the notifier and `t` typed; the server's buffer and then the notifier's
  array, while its request is not received, have the bytes from `g` on, and the
  FIFO has those from `s` on, unless one was lost (`Placed`). The array is read when
  the request is received, long after it was filled, and the place of what is in it
  rests on there being one request of the notifier, for as many bytes as the array
  has (`InboxOK`). `BulkIs`, `ProduceIs` and `ConsumeIs` say what the operations on
  the buffer do to its contents; they cover a head that a bulk write has left at the
  end of the array. The hypothesis `ON_THE_WAY < LENGTH` is that fewer bytes are
  under way than the buffer holds: nothing in the code ensures it.
* `Uart2Proofs`, `NotifierSendsWhatWasTyped`: `Uart2` implements `TermInput`. What is
  not obvious of it is that the bytes a handler hands over are the next ones typed
  (`DeliverIsInput`, from `ByteInv`), and that a byte typed, or lost, before that is
  no step of `TermInput` (`TypeIsNoStep`). Its hypotheses besides are that the
  bounds of `TermInput` allow what the device may do.
* `SmallPartsProofs`, `RowIsTrue`: the line fits in its array and the row shows it
  with the cursor after it, for a line of any length and any keyboard.
* `SmallPartsProofs`, `ParserIsTrue`: `parse_command` takes every text for what its
  words mean, for texts of any length over any characters but the terminator
  (`TextsAssumption`). The parser goes by an index; `Meaning` speaks of the k-th
  start and end of a word, which a count of those before it gives. `IsWord` ties
  the two: `FirstWord` and `NextWord` find the next word after one by the first
  character that is no space, and `WordIs` shows that it is the one that `Meaning`
  takes. `Horner` shows that the loop of `consume_integer`, a multiplication for
  each digit, computes the sum over the places of the digits that `Value` is. Where
  a word is no number the integer ends before the word does, on a character that is
  no space (`IntegerIs`): that is how the parser finds out.
* `SmallPartsProofs`, `ShownIsWhatIsDone`: what is done at a CR is the meaning of what
  the row showed. It rests on `RowIsTrue`, on `RowGivesBack` (the cursor in a row
  tells where its line ends, as no key looks like the cursor: `KeyboardAssumption`,
  which also keeps the terminator off the keyboard) and on the parser.
* `SmallPartsProofs`, `SearchFindsHighest`: `choose_priority` returns the highest bit
  of every bitmap, for bytes of any number of bits (`ByteAssumption`): what `Kernel`
  takes it for. The loop of `kernel_init` gives an entry from that of half its index,
  and `TableIs` shows that each entry is the place of the highest bit of its index;
  `BitOfShifted` carries a bit found in a shifted word back to the word, and
  `WordIsShifted` shows that the table is never read past its end.
* `SmallPartsProofs`, `WhatIsWrittenReadsBack`: each word, the smallest integer and 0
  included, is written as the number it is, with no digit too many, and fills its
  column, for words of any number of nibbles and as many decimals as the largest
  takes (`DigitsAssumption`). `PoppedIs` shows that the digits, read from the highest,
  come to the quotients of the word by the powers of the base (`QuotientTwice`);
  `StartedIs` that what is left out before the first digit is worth nothing, and that
  the length is the least that holds the word; `LengthIs` that `ulog10` is that length.

Recursive functions are proved about by hand. The provers cannot instantiate
induction over data, so a lemma shows once that a recursion over `0 .. n` defines a
function (`RecursionExists`, from the least place at which it would fail, `Upward`),
as others do for the loops of the heap and the buffers and for `ChainFollows`; each
use takes its instance.

Only model-checked: everything that must eventually happen (`NoStarvation`,
`EverySleeperWakes`, `EveryPutsReturns`, `OutputDrains`, `InputNeverSticks`): liveness
and fairness are out of the provers' reach. And the runs that expect a violation,
whose counterexamples are TLC's.

## 5. What is not modelled

* Message contents, stacks and registers, the context switch, caches and the
  set-up of the hardware: below a model that takes a trap as one step.
* The modem interrupt of UART2, which no handler serves, and the kernel's own
  output by busy waiting (`klog`).
* The scanning of format strings, the layout of the screen, the tasks that only
  draw (`clock_ui`, `idle_ui`, `train_server_ui`), and the dump that an abort
  prints. The benchmark and stress tasks, which are loads and promise nothing.
* Of the task launcher: the tasks it starts, the echo test and the help text. The
  help names `lt` and `h`, which the parser does not have.
* Numbers on the command line too long for an int: the parser adds up digits
  without a limit, and the sum wraps, as the build has `-fwrapv` (`Makefile:37`).
* In the train server, the byte counts for the display, and `get_train`, which
  nothing calls. In the name server, the branch of RegisterAs that starts a new
  server when the old one has died, which it never does.
* What a compiler may do with functions declared `const` that read memory, and
  priorities outside the enumeration, which no caller asks for: listed as hazards
  in `PROJECT.json` with the reason.

## 6. Plan

1. `TrainServer`: that every byte put is sent at last, under fairness of the
   server, the carrier and a slow line.
2. `TermInput`: a full buffer that counts as empty, as a run.
3. Composition of `TermServer` with the send side of `Uart2`, where the carrier's
   lengths are free now.

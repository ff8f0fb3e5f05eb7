------------------------------- MODULE Kernel -------------------------------
(***************************************************************************)
(* The kernel: task descriptors (task.c), the scheduler (scheduler.c) and  *)
(* the system calls (syscall.c), at the level of the pointers the C code   *)
(* moves.                                                                  *)
(*                                                                         *)
(* A task is its descriptor's index in tasks[].  The kernel runs with      *)
(* interrupts off, so a trap is one step: the handler, then                *)
(* scheduler_get_next.  The two loops of the kernel, the recursion of      *)
(* ksyscall_recv and the flush of task_destroy, take one step for each     *)
(* round, with `mode' saying where the kernel is.  The build modelled is   *)
(* the default one, with ASSERT and DEBUG on: a failed assertion about a   *)
(* task's use of the kernel aborts, and a failed assertion about the       *)
(* kernel's own pointers (or following a bad one) is mode "panic".         *)
(*                                                                         *)
(* Left out: the contents of messages; p_tid, which only myParentTid       *)
(* reads; a call's result after its caller has been dispatched; and what   *)
(* idle does before its loop (registering, starting idle_ui).              *)
(***************************************************************************)
EXTENDS TaskQueue, FiniteSets, FiniteSetsExt, SequencesExt

CONSTANTS
  TASK_MAX,        \* descriptors in tasks[]
  TASK_PRIORITY_MAX,
  BOOT,            \* the priorities kernel_init gives its tasks, in order
  IDLE,            \* the index of the idle task, which makes no calls
  EVENTS,          \* the event ids that tasks await
  ASKED,           \* the priorities that Create and ChangePriority ask for
  LENGTHS,         \* message and buffer lengths
  TID_MAX,         \* the largest int
  EXITS,           \* bound: the slots whose tasks exit
  RECV_BLOCKED,    \* the two non-pointers a `next' field can hold
  RPLY_BLOCKED

Tasks == 0 .. TASK_MAX - 1
Priorities == 0 .. TASK_PRIORITY_MAX

ASSUME TaskMaxAssumption == TASK_MAX \in Nat \ {0}
ASSUME PriorityAssumption == TASK_PRIORITY_MAX \in Nat
ASSUME BootAssumption == BOOT \in Seq(Priorities)
ASSUME AskedAssumption == ASKED \subseteq Priorities
ASSUME IdleAssumption == IDLE \in Tasks /\ IDLE < Len(BOOT)
ASSUME LengthAssumption == LENGTHS \subseteq Nat
ASSUME TidAssumption == TID_MAX \in Nat /\ (TID_MAX + 1) % TASK_MAX = 0
ASSUME PointerAssumption ==
  /\ {NULL, RECV_BLOCKED, RPLY_BLOCKED} \cap Tasks = {}
  /\ NULL # RECV_BLOCKED /\ NULL # RPLY_BLOCKED
  /\ RECV_BLOCKED # RPLY_BLOCKED

VARIABLES
  tid,             \* task -> its current id
  priority,
  sp,              \* task -> is the stack pointer set (the task exists)?
  lists,           \* next fields, queue heads and tails, the ready bitmap
  task_active,
  int_queue,       \* event -> the task that awaits it, or NULL
  req,             \* task -> the request it is blocked on (from sp[1])
  result,          \* task -> the error its last call returns (sp[0]), or 0
  mode,            \* where the kernel is
  callee,          \* the argument of the pending ksyscall_recv, or NULL
  stranded         \* history: the tasks that task_destroy has thrown away

vars == <<tid, priority, sp, lists, task_active, int_queue, req,
          result, mode, callee, stranded>>

-----------------------------------------------------------------------------
(* Return codes (syscall.h).                                               *)
OK == 0
ERR_NO_DESCRIPTORS == -1
ERR_IMPOSSIBLE_TASK == -1
ERR_INVALID_TASK == -2
ERR_INCOMPLETE == -3
ERR_INVALID_RECVER == -3
ERR_NOT_ENUF_MEMORY == -4

Modes == {"boot", "user", "recv", "destroy", "panic", "shutdown"}

FreeList == <<"free", 0>>
ReadyQ(p) == <<"ready", p>>
RecvQ(t) == <<"recv", t>>
Queues == {FreeList} \cup {ReadyQ(p) : p \in Priorities}
                     \cup {RecvQ(t) : t \in Tasks}

Pointers == Tasks \cup {NULL, RECV_BLOCKED, RPLY_BLOCKED}

NoReq == [call |-> "none", tid |-> 0, msglen |-> 0, replylen |-> 0]
SendReq(d, len, rlen) ==
  [call |-> "send", tid |-> d, msglen |-> len, replylen |-> rlen]
RecvReq(len) == [call |-> "recv", tid |-> 0, msglen |-> len, replylen |-> 0]

(* task_index_from_tid: mod2 of the id as an unsigned word.                *)
task_index_from_tid(d) == d % TASK_MAX

(* An id names a task while the slot carries that id and has a stack.      *)
ValidTid(d) == LET t == task_index_from_tid(d) IN tid[t] = d /\ sp[t]

InvalidTidError(d) == IF d < 0 THEN ERR_IMPOSSIBLE_TASK ELSE ERR_INVALID_TASK

(* The ids a request can carry: any int.                                   *)
AnyTid == -(TID_MAX + 1) .. TID_MAX

(* A sum of ints, which wraps.                                             *)
Wrap(n) == IF n > TID_MAX THEN n - 2 * (TID_MAX + 1) ELSE n

-----------------------------------------------------------------------------
(* Steps of the C code as functions of the store.                          *)

SetState(m, bits) ==
  [next |-> m.next, head |-> m.head, tail |-> m.tail, state |-> bits]

(* Mutant: the task goes to the front of its queue.                        *)
ScheduleAtFront(m, t, p) ==
  ProduceAtFront(SetState(m, m.state \cup {p}), ReadyQ(p), t)

scheduler_schedule(m, t, p) ==
  Produce(SetState(m, m.state \cup {p}), ReadyQ(p), t)

(* The tasks on a queue, from its head along the links.                    *)
Queue(q) == Chain(lists, q, TASK_MAX + 1)

(* The highest bit of the bitmap.  ChoosePriority says how it is found.    *)
choose_priority(state) == Max(state)

ClearBitIfEmpty(m, p) ==
  IF m.head[ReadyQ(p)] = NULL THEN SetState(m, m.state \ {p}) ELSE m

(***************************************************************************)
(* scheduler_get_next and kernel_exit, the end of every trap.              *)
(***************************************************************************)
scheduler_get_next(m, r) ==
  IF m.state = {} \/ m.head[ReadyQ(choose_priority(m.state))] \notin Tasks
  THEN /\ mode' = "panic"
       /\ lists' = m
       /\ result' = r
       /\ UNCHANGED task_active
  ELSE LET p == choose_priority(m.state)
       IN  /\ mode' = "user"
           /\ task_active' = m.head[ReadyQ(p)]
           /\ result' = [r EXCEPT ![m.head[ReadyQ(p)]] = OK]
           /\ lists' = ClearBitIfEmpty(Consume(m, ReadyQ(p)), p)

Halt(how) ==
  /\ mode' = how
  /\ UNCHANGED <<tid, priority, sp, lists, task_active, int_queue,
                 req, result, callee, stranded>>

-----------------------------------------------------------------------------
(* kernel_init, and scheduler_first_run after it.                          *)

(* Mutant: the last descriptor points past the end of the table.           *)
FreeLinksUnended == [t \in Tasks |-> t + 1]

FreeLinks == [t \in Tasks |-> IF t + 1 \in Tasks THEN t + 1 ELSE NULL]

Init ==
  /\ tid = [t \in Tasks |-> t]
  /\ priority = [t \in Tasks |-> 0]
  /\ sp = [t \in Tasks |-> FALSE]
  /\ lists = [next  |-> FreeLinks,
              head  |-> [q \in Queues |-> IF q = FreeList THEN 0 ELSE NULL],
              tail  |-> [q \in Queues |->
                           IF q = FreeList THEN TASK_MAX - 1 ELSE NULL],
              state |-> {}]
  /\ task_active = 0
  /\ int_queue = [e \in EVENTS |-> NULL]
  /\ req = [t \in Tasks |-> NoReq]
  /\ result = [t \in Tasks |-> OK]
  /\ mode = "boot"
  /\ callee = NULL
  /\ stranded = {}

(***************************************************************************)
(* task_create takes the first free descriptor, whose tid was set when the *)
(* slot was freed, and makes it ready.                                     *)
(***************************************************************************)
task_create(p) ==
  LET t == lists.head[FreeList]
  IN  /\ priority' = [priority EXCEPT ![t] = p]
      /\ sp' = [sp EXCEPT ![t] = TRUE]

AfterCreate(p) ==
  scheduler_schedule(Consume(lists, FreeList), lists.head[FreeList], p)

(* The number of tasks kernel_init has created so far.                     *)
Booted == Cardinality({t \in Tasks : sp[t]})

BootCreate ==
  /\ mode = "boot"
  /\ Booted < Len(BOOT)
  /\ lists.head[FreeList] \in Tasks
  /\ task_create(BOOT[Booted + 1])
  /\ lists' = AfterCreate(BOOT[Booted + 1])
  /\ UNCHANGED <<tid, task_active, int_queue, req, result, mode, callee,
                 stranded>>

scheduler_first_run ==
  /\ mode = "boot"
  /\ Booted = Len(BOOT) \/ lists.head[FreeList] \notin Tasks
  /\ scheduler_get_next(lists, result)
  /\ UNCHANGED <<tid, priority, sp, int_queue, req, callee, stranded>>

-----------------------------------------------------------------------------
(* System calls of the active task.  The idle task only loops on the timer *)
(* once it has registered.                                                 *)

Calls == mode = "user" /\ task_active # IDLE

(* Mutant: the active task is not made ready.                              *)
DropActive(m, r) == scheduler_get_next(m, r)

(* The active task goes to the back of its queue; r is what calls return.  *)
Reschedule(m, r) ==
  scheduler_get_next(
    scheduler_schedule(m, task_active, priority[task_active]), r)

(* The call returns code to its caller.                                    *)
Return(m, code) == Reschedule(m, [result EXCEPT ![task_active] = code])

(***************************************************************************)
(* SYS_PASS, and SYS_TID, SYS_PTID and SYS_PRIORITY, which only read.      *)
(***************************************************************************)
Pass ==
  /\ Calls
  /\ Return(lists, OK)
  /\ UNCHANGED <<tid, priority, sp, int_queue, req, callee, stranded>>

CreateFails ==
  /\ Calls
  /\ lists.head[FreeList] = NULL
  /\ Return(lists, ERR_NO_DESCRIPTORS)
  /\ UNCHANGED <<tid, priority, sp, int_queue, req, callee, stranded>>

Create(p) ==
  /\ Calls
  /\ lists.head[FreeList] # NULL
  /\ IF lists.head[FreeList] \in Tasks
     THEN /\ task_create(p)
          /\ Return(AfterCreate(p), OK)
          /\ UNCHANGED <<tid, int_queue, req, callee, stranded>>
     ELSE Halt("panic")

(* Mutant: the caller is queued at the priority it had.                    *)
ChangePriorityLate(p) ==
  /\ Calls
  /\ priority' = [priority EXCEPT ![task_active] = p]
  /\ Return(lists, OK)
  /\ UNCHANGED <<tid, sp, int_queue, req, callee, stranded>>

ChangePriority(p) ==
  /\ Calls
  /\ priority' = [priority EXCEPT ![task_active] = p]
  /\ scheduler_get_next(scheduler_schedule(lists, task_active, p),
                        [result EXCEPT ![task_active] = OK])
  /\ UNCHANGED <<tid, sp, int_queue, req, callee, stranded>>

(***************************************************************************)
(* One level of ksyscall_recv(receiver), with the store m and the saved    *)
(* requests rq.  A message longer than the receiver's buffer is refused,   *)
(* its sender made ready with an error, and the function calls itself.     *)
(***************************************************************************)
RecvBlock(m, rq, receiver) ==
  /\ m.head[RecvQ(receiver)] = NULL
  /\ req' = rq
  /\ callee' = NULL
  /\ scheduler_get_next(Link(m, receiver, RECV_BLOCKED), result)

(* Mutant: the receiver waits after a refusal without looking at the rest  *)
(* of its queue.                                                           *)
RejectThenWait(m, rq, receiver) ==
  LET sender == m.head[RecvQ(receiver)]
      woken  == scheduler_schedule(Consume(m, RecvQ(receiver)), sender,
                                   priority[sender])
  IN  /\ sender # NULL
      /\ rq[sender].msglen > rq[receiver].msglen
      /\ req' = [rq EXCEPT ![sender] = NoReq]
      /\ callee' = NULL
      /\ scheduler_get_next(Link(woken, receiver, RECV_BLOCKED),
           [result EXCEPT ![sender] = ERR_NOT_ENUF_MEMORY])

RecvReject(m, rq, receiver) ==
  LET sender == m.head[RecvQ(receiver)]
  IN  /\ sender # NULL
      /\ rq[sender].msglen > rq[receiver].msglen
      /\ result' = [result EXCEPT ![sender] = ERR_NOT_ENUF_MEMORY]
      /\ req' = [rq EXCEPT ![sender] = NoReq]
      /\ lists' = scheduler_schedule(Consume(m, RecvQ(receiver)), sender,
                                     priority[sender])
      /\ mode' = "recv"
      /\ callee' = receiver
      /\ UNCHANGED task_active

RecvAccept(m, rq, receiver) ==
  LET sender == m.head[RecvQ(receiver)]
      taken  == Link(Consume(m, RecvQ(receiver)), sender, RPLY_BLOCKED)
  IN  /\ sender # NULL
      /\ rq[sender].msglen <= rq[receiver].msglen
      /\ req' = [rq EXCEPT ![receiver] = NoReq]
      /\ callee' = NULL
      /\ scheduler_get_next(
           scheduler_schedule(taken, receiver, priority[receiver]),
           [result EXCEPT ![receiver] = OK])

(* The assertions on the sender's pointers.                                *)
BadSender(m, receiver) ==
  LET sender == m.head[RecvQ(receiver)]
  IN  /\ sender # NULL
      /\ sender \in Tasks => m.next[sender] \notin Tasks \cup {NULL}

RecvBadPointer(m, rq, receiver) ==
  /\ mode' = "panic"
  /\ callee' = receiver
  /\ req' = rq
  /\ lists' = m
  /\ UNCHANGED <<task_active, result>>

ksyscall_recv(m, rq, receiver) ==
  IF BadSender(m, receiver)
  THEN RecvBadPointer(m, rq, receiver)
  ELSE \/ RecvBlock(m, rq, receiver)
       \/ RecvReject(m, rq, receiver)
       \/ RecvAccept(m, rq, receiver)

Receive(len) ==
  /\ Calls
  /\ ksyscall_recv(lists, [req EXCEPT ![task_active] = RecvReq(len)],
                   task_active)
  /\ UNCHANGED <<tid, priority, sp, int_queue, stranded>>

(* The recursive call.                                                     *)
ReceiveAgain ==
  /\ mode = "recv"
  /\ ksyscall_recv(lists, req, callee)
  /\ UNCHANGED <<tid, priority, sp, int_queue, stranded>>

(***************************************************************************)
(* ksyscall_send: the sender joins the receiver's queue, and a receiver    *)
(* that is already waiting is handed the message.                          *)
(***************************************************************************)
SendInvalid(d) ==
  /\ Calls
  /\ ~ValidTid(d)
  /\ Return(lists, InvalidTidError(d))
  /\ UNCHANGED <<tid, priority, sp, int_queue, req, callee, stranded>>

SendSelf ==
  /\ Calls
  /\ Halt("shutdown")

(* Mutant: a receiver that waits is not noticed.                           *)
NeverWaits(m, t) == FALSE

WaitsForMessage(m, t) == m.next[t] = RECV_BLOCKED

Send(d, len, rlen) ==
  LET receiver == task_index_from_tid(d)
      queued   == Produce(lists, RecvQ(receiver), task_active)
      saved    == [req EXCEPT ![task_active] = SendReq(d, len, rlen)]
  IN  /\ Calls
      /\ ValidTid(d)
      /\ tid[task_active] # d
      /\ \/ /\ WaitsForMessage(queued, receiver)
            /\ ksyscall_recv(queued, saved, receiver)
         \/ /\ ~WaitsForMessage(queued, receiver)
            /\ req' = saved
            /\ scheduler_get_next(queued, result)
            /\ UNCHANGED callee
      /\ UNCHANGED <<tid, priority, sp, int_queue, stranded>>

(***************************************************************************)
(* ksyscall_reply: any task may reply to a task that is RPLY_BLOCKED.  The *)
(* task replied to is scheduled before the replier.                        *)
(***************************************************************************)
(* Mutant: the state of the task replied to is not checked.                *)
Anything(t) == TRUE

AwaitsReply(t) == lists.next[t] = RPLY_BLOCKED

ReplyFails(d, rlen) ==
  LET sender == task_index_from_tid(d)
  IN  /\ Calls
      /\ \/ /\ ~ValidTid(d)
            /\ Return(lists, InvalidTidError(d))
         \/ /\ ValidTid(d)
            /\ ~AwaitsReply(sender)
            /\ Return(lists, ERR_INVALID_RECVER)
         \/ /\ ValidTid(d)
            /\ AwaitsReply(sender)
            /\ rlen > req[sender].replylen
            /\ Return(lists, ERR_NOT_ENUF_MEMORY)
      /\ UNCHANGED <<tid, priority, sp, int_queue, req, callee, stranded>>

Reply(d, rlen) ==
  LET sender == task_index_from_tid(d)
  IN  /\ Calls
      /\ ValidTid(d)
      /\ AwaitsReply(sender)
      /\ rlen <= req[sender].replylen
      /\ req' = [req EXCEPT ![sender] = NoReq]
      /\ scheduler_get_next(
           scheduler_schedule(
             scheduler_schedule(lists, sender, priority[sender]),
             task_active, priority[task_active]),
           [result EXCEPT ![task_active] = OK, ![sender] = OK])
      /\ UNCHANGED <<tid, priority, sp, int_queue, callee, stranded>>

-----------------------------------------------------------------------------
NextTid(t) == Wrap(tid[t] + TASK_MAX)

(***************************************************************************)
(* task_destroy.  The id moves on by TASK_MAX and the stack goes, then the *)
(* loop over the receive queue runs.  The loop body schedules the head and *)
(* only then reads the head's `next': the tasks behind it are thrown away. *)
(***************************************************************************)
Exit ==
  /\ Calls
  /\ task_active \in EXITS
  /\ tid' = [tid EXCEPT ![task_active] = NextTid(task_active)]
  /\ sp' = [sp EXCEPT ![task_active] = FALSE]
  /\ mode' = "destroy"
  /\ UNCHANGED <<priority, lists, task_active, int_queue, req, result,
                 callee, stranded>>

FlushSender ==
  LET q      == RecvQ(task_active)
      sender == lists.head[q]
      woken  == scheduler_schedule(lists, sender, priority[sender])
  IN  /\ mode = "destroy"
      /\ sender # NULL
      /\ IF sender \in Tasks
         THEN /\ result' = [result EXCEPT ![sender] = ERR_INCOMPLETE]
              /\ req' = [req EXCEPT ![sender] = NoReq]
              /\ lists' = Consume(woken, q)
              /\ stranded' = stranded \cup
                   {t \in Tasks \ {sender} : t \in ToSet(Queue(q))}
              /\ UNCHANGED <<tid, priority, sp, task_active, int_queue,
                             mode, callee>>
         ELSE Halt("panic")

(* Mutant: the descriptor is freed with its receive queue.                 *)
FreeWithQueue ==
  /\ mode = "destroy"
  /\ scheduler_get_next(Produce(lists, FreeList, task_active), result)
  /\ UNCHANGED <<tid, priority, sp, int_queue, req, callee, stranded>>

FreeDescriptor ==
  /\ mode = "destroy"
  /\ lists.head[RecvQ(task_active)] = NULL
  /\ scheduler_get_next(Produce(lists, FreeList, task_active), result)
  /\ UNCHANGED <<tid, priority, sp, int_queue, req, callee, stranded>>

-----------------------------------------------------------------------------
(***************************************************************************)
(* ksyscall_await.  UART1_DOWN and UART1_CTS look at the CTS line and      *)
(* return at once when it is already as awaited; the line is not part of   *)
(* this module, so either may happen.                                      *)
(***************************************************************************)
FlowEvents == {"UART1_CTS", "UART1_DOWN"}

Await(e) ==
  /\ Calls
  /\ int_queue[e] = NULL
  /\ int_queue' = [int_queue EXCEPT ![e] = task_active]
  /\ scheduler_get_next(lists, result)
  /\ UNCHANGED <<tid, priority, sp, req, callee, stranded>>

AwaitPast(e) ==
  /\ Calls
  /\ e \in FlowEvents
  /\ int_queue[e] = NULL
  /\ Reschedule(lists, result)
  /\ UNCHANGED <<tid, priority, sp, int_queue, req, callee, stranded>>

EventCollision(e) ==
  /\ Calls
  /\ int_queue[e] # NULL
  /\ Halt("shutdown")

(***************************************************************************)
(* ksyscall_irq: the interrupted task is made ready after the handler has  *)
(* run.  A handler makes the task that awaits its event ready.             *)
(***************************************************************************)
IrqWake(e) ==
  LET t == int_queue[e]
  IN  /\ mode = "user"
      /\ t # NULL
      /\ int_queue' = [int_queue EXCEPT ![e] = NULL]
      /\ Reschedule(scheduler_schedule(lists, t, priority[t]),
                     [result EXCEPT ![t] = OK])
      /\ UNCHANGED <<tid, priority, sp, req, callee, stranded>>

(* Events whose handler tolerates that nobody is waiting.                  *)
Tolerant == FlowEvents \cup {"UART2_RECV"}

IrqMissed(e) ==
  /\ mode = "user"
  /\ e \notin Tolerant
  /\ int_queue[e] = NULL
  /\ Halt("shutdown")

(* The handler does nothing: a tolerant one, or default_isr (irq.c).       *)
IrqIgnored ==
  /\ mode = "user"
  /\ Reschedule(lists, result)
  /\ UNCHANGED <<tid, priority, sp, int_queue, req, callee, stranded>>

(* SYS_SHUTDOWN and SYS_ABORT do not return.                               *)
Shutdown == Calls /\ Halt("shutdown")

Halted == mode \in {"panic", "shutdown"}

(* A halted kernel stays halted.                                           *)
Stop == Halted /\ UNCHANGED vars

-----------------------------------------------------------------------------
Syscall ==
  \/ Pass
  \/ CreateFails
  \/ \E p \in ASKED : Create(p) \/ ChangePriority(p)
  \/ \E len \in LENGTHS : Receive(len)
  \/ \E d \in AnyTid : SendInvalid(d)
  \/ \E d \in AnyTid, len \in LENGTHS, rlen \in LENGTHS : Send(d, len, rlen)
  \/ SendSelf
  \/ \E d \in AnyTid, rlen \in LENGTHS : Reply(d, rlen) \/ ReplyFails(d, rlen)
  \/ Exit
  \/ \E e \in EVENTS : Await(e) \/ AwaitPast(e) \/ EventCollision(e)
  \/ Shutdown

Irq == IrqIgnored \/ \E e \in EVENTS : IrqWake(e) \/ IrqMissed(e)

(* The kernel's own steps, which go on until a task runs again.            *)
Kernel ==
  \/ BootCreate
  \/ scheduler_first_run
  \/ ReceiveAgain
  \/ FlushSender
  \/ FreeDescriptor

Next == Syscall \/ Irq \/ Kernel \/ Stop

Spec == Init /\ [][Next]_vars

(***************************************************************************)
(* The CPU does not stop: the kernel finishes its calls, and the timer     *)
(* takes the CPU away from a task that makes none.                         *)
(***************************************************************************)
FairSpec == Spec /\ WF_vars(Next)

-----------------------------------------------------------------------------
(* Properties.                                                             *)

Stores == [next : [Tasks -> Pointers], head : [Queues -> Pointers],
           tail : [Queues -> Pointers], state : SUBSET Priorities]
Requests == [call : {"none", "send", "recv"}, tid : AnyTid, msglen : Nat,
             replylen : Nat]

(* Every field has its C type: a `next' field holds a task, NULL or one of *)
(* the two markers of kernel.h, a bitmap holds priorities.                 *)
TypeOK ==
  /\ tid \in [Tasks -> AnyTid]
  /\ priority \in [Tasks -> Priorities]
  /\ sp \in [Tasks -> BOOLEAN]
  /\ lists \in Stores
  /\ task_active \in Tasks
  /\ int_queue \in [EVENTS -> Tasks \cup {NULL}]
  /\ req \in [Tasks -> Requests]
  /\ result \in [Tasks -> Int]
  /\ mode \in Modes
  /\ callee \in Tasks \cup {NULL}
  /\ mode = "recv" => callee \in Tasks
  /\ stranded \subseteq Tasks

(* What a task is doing, read off the fields as the code encodes it.       *)
Active(t) == mode = "user" /\ t = task_active
AwaitsEvent(t) == \E e \in EVENTS : int_queue[e] = t
Sending(t) == req[t].call = "send" /\ lists.next[t] # RPLY_BLOCKED
Stranded(t) ==
  /\ sp[t]
  /\ Sending(t)
  /\ t \notin ToSet(Queue(RecvQ(task_index_from_tid(req[t].tid))))

(* The tasks that belong on a queue.                                       *)
Members(q) ==
  CASE q[1] = "free" -> {t \in Tasks : ~sp[t]}
    [] q[1] = "recv" -> {t \in Tasks : /\ sp[t] /\ sp[q[2]]
                                       /\ Sending(t) /\ t \notin stranded
                                       /\ req[t].tid = tid[q[2]]}
    [] OTHER -> {t \in Tasks : /\ sp[t]
                               /\ ~Active(t)
                               /\ ~AwaitsEvent(t)
                               /\ req[t] = NoReq
                               /\ priority[t] = q[2]}

(* Between calls, every queue is a proper list from its head to its tail,  *)
(* and it holds exactly the tasks that belong on it: no live task is lost  *)
(* or on two lists, whatever order the calls and interrupts came in.  The  *)
(* exception is a task stranded by its receiver's exit (NoSenderStranded). *)
QueuesExact ==
  mode = "user" =>
    \A q \in Queues :
      LET s == Queue(q)
      IN  Represents(lists, q, s) /\ ToSet(s) = Members(q)

(* Between calls, the bitmap has the bit of exactly the priorities whose   *)
(* ready queue is not empty, and the active task's priority is the highest.*)
HighestPriorityRuns ==
  mode = "user" =>
    /\ lists.state = {p \in Priorities : Members(ReadyQ(p)) # {}}
    /\ \A p \in lists.state : p <= priority[task_active]

(* No lost wakeup: a task that waits for a message has none waiting.  (The *)
(* callee of a ksyscall_recv under way is not waiting yet, or no longer.)  *)
NoLostWakeup ==
  \A t \in Tasks : lists.next[t] = RECV_BLOCKED /\ t # callee
                     => lists.head[RecvQ(t)] = NULL

(* The kernel never runs out of tasks and never follows a bad pointer.     *)
NoPanic == mode # "panic"

(* Queues are first in, first out: in a step at most the head leaves a      *)
(* queue, the tasks behind it keep their order, and a task joins at the    *)
(* end.  The receive queue that an exit throws away is not kept.           *)
QueueDiscipline ==
  [][\A q \in Queues :
       LET before == Queue(q)
           after  == Queue(q)'
       IN  \/ before = after
           \/ IsPrefix(before, after)
           \/ before # <<>> /\ IsPrefix(Tail(before), after)
           \/ mode = "destroy" /\ q = RecvQ(task_active)]_vars

(* Every Send ends once and with the right answer: a message that was      *)
(* received ends with a reply, one that was not ends with an error, and    *)
(* while the sender waits its request does not change.                     *)
SendOutcome ==
  [][\A t \in Tasks :
       req[t].call = "send" /\ req'[t] # req[t] =>
         /\ req'[t] = NoReq
         /\ sp'[t]
         /\ IF lists.next[t] = RPLY_BLOCKED
            THEN result'[t] = OK
            ELSE result'[t] \in {ERR_NOT_ENUF_MEMORY, ERR_INCOMPLETE}]_vars

(* A message is received by the task that it was sent to, which lives: by  *)
(* none that was born in its slot since, though the slot has its queue and *)
(* ids come round.                                                         *)
MessagesReachTheirTask ==
  [][\A t \in Tasks :
       lists'.next[t] = RPLY_BLOCKED /\ lists.next[t] # RPLY_BLOCKED =>
         LET receiver == task_index_from_tid(req'[t].tid)
         IN  /\ req'[t].call = "send"
             /\ tid'[receiver] = req'[t].tid
             /\ sp'[receiver]]_vars

(* Round robin: a ready task is not passed over for ever by tasks of its   *)
(* own or a lower priority.                                                *)
PassedOver(t) ==
  /\ ~Halted
  /\ sp[t] /\ req[t] = NoReq /\ ~AwaitsEvent(t)
  /\ t # task_active
  /\ priority[task_active] <= priority[t]

NoStarvation == \A t \in Tasks : []<>~PassedOver(t)

(* No task stays queued to a receiver that has exited (task.c: "empty the  *)
(* receive buffer").                                                       *)
NoSenderStranded == mode = "user" => \A t \in Tasks : ~Stranded(t)
=============================================================================

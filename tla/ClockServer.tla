---------------------------- MODULE ClockServer ----------------------------
(***************************************************************************)
(* The clock server (clock_server.c), its notifier and its clients.        *)
(*                                                                         *)
(* The timer interrupts; the notifier turns the interrupt into a message;  *)
(* the server counts ticks and keeps the sleeping clients in a priority    *)
(* queue.  The kernel's message passing is used as SendReceiveReply        *)
(* promises it: an inbox of blocked senders in the order of their Sends.   *)
(* The notifier has the highest priority of all tasks (tasks/priority.h),  *)
(* so once it is woken nothing but an interrupt comes before its Send;     *)
(* clients may run between any two steps of the server.                    *)
(***************************************************************************)
EXTENDS PriorityQueue, Sequences

CONSTANTS
  Clients,      \* the tasks that call Delay, DelayUntil and Time
  NOTIFIER,     \* the notifier
  TICKS,        \* the arguments of Delay and DelayUntil
  MAX_TIME      \* bound: the timer ticks this often

ASSUME ClientsAssumption ==
  /\ IsFiniteSet(Clients)
  /\ NOTIFIER \notin Clients
  /\ VALUES = Clients
  /\ Cardinality(Clients) <= SIZE

INT_MIN == -INT_MAX - 1

(* The time is kept in an int, and so are the arguments.                   *)
ASSUME TimeAssumption ==
  /\ INT_MAX \in Nat /\ MAX_TIME \in Nat /\ MAX_TIME <= INT_MAX
  /\ TICKS \subseteq INT_MIN .. INT_MAX

VARIABLES
  ticks,        \* timer interrupts so far
  notifier,     \* "awaiting" the event, "woken" by it, or in "send"
  inbox,        \* the requests the server has not received, in order
  time, q,      \* cs_context
  pc,           \* the server is in "receive" or "waking" sleepers
  call,         \* client -> the call it is blocked in, or NoCall
  answer        \* what the last call that has returned returned

vars == <<ticks, notifier, inbox, time, q, pc, call, answer>>

(* Signed 32 bit arithmetic, with INT_MAX for 2^31 - 1.                    *)
Wrap(n) == ((n - INT_MIN) % (2 * (INT_MAX + 1))) + INT_MIN

ERR_MISSED_DEADLINE == -8

(* A call: its kind, its argument, and (for the properties) the number of  *)
(* ticks when it was made.                                                 *)
NoCall == [kind |-> "none", arg |-> 0, since |-> 0]
Request(kind, from, arg) == [kind |-> kind, from |-> from, arg |-> arg]

Init ==
  /\ ticks = 0
  /\ notifier = "awaiting"
  /\ inbox = <<>>
  /\ time = 0
  /\ q = pq_init
  /\ pc = "receive"
  /\ call = [c \in Clients |-> NoCall]
  /\ answer = 0

Aborted == pc = "aborted"

(* Other tasks run only while the notifier waits.                          *)
Runs == ~Aborted /\ notifier # "woken"

Abort ==
  /\ pc' = "aborted"
  /\ UNCHANGED <<ticks, notifier, inbox, time, q, call, answer>>

-----------------------------------------------------------------------------
(* The timer (irq_clock in clock.c).                                       *)

Tick ==
  /\ ~Aborted
  /\ ticks < MAX_TIME
  /\ notifier = "awaiting"
  /\ ticks' = ticks + 1
  /\ notifier' = "woken"
  /\ UNCHANGED <<inbox, time, q, pc, call, answer>>

(* Mutant: a tick that finds nobody waiting is dropped without a word.     *)
IgnoreTick ==
  /\ ~Aborted
  /\ ticks < MAX_TIME
  /\ notifier # "awaiting"
  /\ ticks' = ticks + 1
  /\ UNCHANGED <<notifier, inbox, time, q, pc, call, answer>>

(* "Missed a clock tick".                                                  *)
MissedTick ==
  /\ ~Aborted
  /\ ticks < MAX_TIME
  /\ notifier # "awaiting"
  /\ Abort

(* The notifier's loop.  The server's reply lets it await again.           *)
Notify ==
  /\ ~Aborted
  /\ notifier = "woken"
  /\ notifier' = "send"
  /\ inbox' = Append(inbox, Request("notify", NOTIFIER, 0))
  /\ UNCHANGED <<ticks, time, q, pc, call, answer>>

-----------------------------------------------------------------------------
(* The clients.                                                            *)

Call(c, kind, arg) ==
  /\ Runs
  /\ call[c] = NoCall
  /\ call' = [call EXCEPT ![c] = [kind |-> kind, arg |-> arg,
                                  since |-> ticks]]
  /\ inbox' = Append(inbox, Request(kind, c, arg))
  /\ UNCHANGED <<ticks, notifier, time, q, pc, answer>>

(* Delay refuses at once what is not positive.                             *)
Delay(c, n) ==
  \/ n > 0 /\ Call(c, "delay", n)
  \/ /\ n <= 0
     /\ Runs
     /\ call[c] = NoCall
     /\ answer' = ERR_MISSED_DEADLINE
     /\ UNCHANGED <<ticks, notifier, inbox, time, q, pc, call>>

(* DelayUntil aborts on it.                                                *)
DelayUntil(c, n) ==
  \/ n > 0 /\ Call(c, "until", n)
  \/ n <= 0 /\ Runs /\ call[c] = NoCall /\ Abort

Time(c) == Call(c, "time", 0)

-----------------------------------------------------------------------------
(* The server's loop.                                                      *)

Received == Head(inbox)

(* A request can be received.                                              *)
Receive(kind) ==
  /\ pc = "receive"
  /\ Runs
  /\ inbox # <<>>
  /\ Received.kind = kind
  /\ inbox' = Tail(inbox)

(* Reply to c with the value n.                                            *)
ReplyTo(c, n) ==
  /\ call' = [call EXCEPT ![c] = NoCall]
  /\ answer' = n

(* CLOCK_NOTIFY replies to the notifier, then counts the tick.             *)
ReceiveNotify ==
  /\ Receive("notify")
  /\ notifier' = "awaiting"
  /\ time' = Wrap(time + 1)
  /\ pc' = "waking"
  /\ UNCHANGED <<ticks, q, call, answer>>

(* Mutant: a sleeper whose time has just come is left asleep.              *)
DueLate == pq_peek_key(q) < time

(* The condition of the loop that wakes sleepers.                          *)
Due == pq_peek_key(q) <= time

WakeNext ==
  /\ pc = "waking"
  /\ Runs
  /\ Due
  /\ IF pq_size(q) = 0
     THEN Abort
     ELSE /\ ReplyTo(pq_peek_val(q), time)
          /\ q' = pq_delete(q)
          /\ UNCHANGED <<ticks, notifier, inbox, time, pc>>

WokeAll ==
  /\ pc = "waking"
  /\ Runs
  /\ ~Due
  /\ pc' = "receive"
  /\ UNCHANGED <<ticks, notifier, inbox, time, q, call, answer>>

(* Mutant: the delay is taken for a time.                                  *)
WakeTimeAbsolute(n) == n

WakeTime(n) == Wrap(n + time)

ReceiveDelay ==
  /\ Receive("delay")
  /\ q' = pq_add(q, WakeTime(Received.arg), Received.from)
  /\ UNCHANGED <<ticks, notifier, time, pc, call, answer>>

(* Mutant: a task that asks for the time is left without an answer.         *)
ReceiveTimeSilently ==
  /\ Receive("time")
  /\ UNCHANGED <<ticks, notifier, time, q, pc, call, answer>>

ReceiveTime ==
  /\ Receive("time")
  /\ ReplyTo(Received.from, time)
  /\ UNCHANGED <<ticks, notifier, time, q, pc>>

(* A deadline that has passed is answered with an error, one that is now   *)
(* with the time, and one to come is queued.                               *)
ReceiveDelayUntil ==
  /\ Receive("until")
  /\ \/ /\ Received.arg < time
        /\ ReplyTo(Received.from, ERR_MISSED_DEADLINE)
        /\ UNCHANGED q
     \/ /\ Received.arg = time
        /\ ReplyTo(Received.from, time)
        /\ UNCHANGED q
     \/ /\ Received.arg > time
        /\ q' = pq_add(q, Received.arg, Received.from)
        /\ UNCHANGED <<call, answer>>
  /\ UNCHANGED <<ticks, notifier, time, pc>>

Server ==
  \/ ReceiveNotify
  \/ WakeNext
  \/ WokeAll
  \/ ReceiveDelay
  \/ ReceiveTime
  \/ ReceiveDelayUntil

Client(c) == Time(c) \/ \E n \in TICKS : Delay(c, n) \/ DelayUntil(c, n)

Next ==
  \/ Tick
  \/ MissedTick
  \/ Notify
  \/ Server
  \/ \E c \in Clients : Client(c)

Spec == Init /\ [][Next]_vars

(***************************************************************************)
(* The timer does not stop.  The notifier and the server have priorities   *)
(* above their clients' and finish each request without blocking, so they  *)
(* run when they can.  A client need not call.                             *)
(***************************************************************************)
FairSpec ==
  /\ Spec
  /\ WF_vars(Tick)
  /\ WF_vars(Notify)
  /\ WF_vars(Server)

-----------------------------------------------------------------------------
(* Properties.                                                             *)

Sleepers == {q.heap[i].val : i \in 0 .. q.count - 1}
Senders == {inbox[i].from : i \in DOMAIN inbox}

(* A blocked client is in the inbox or in the queue, once: no call is      *)
(* forgotten, and the server never replies to a task that does not wait,   *)
(* which would make it abort.                                              *)
EveryCallerIsKnown ==
  /\ {c \in Clients : call[c] # NoCall} = (Sleepers \cup Senders) \ {NOTIFIER}
  /\ Sleepers \cap Senders = {}
  /\ Cardinality(Sleepers) = q.count
  /\ Cardinality(Senders) = Len(inbox)

(* The server's time is behind the timer's by the tick that the notifier   *)
(* is bringing, never by more: a tick that would be lost aborts instead.   *)
NoTickIsLost ==
  time = ticks - (IF notifier = "awaiting" THEN 0 ELSE 1)

(* Between requests nobody sleeps whose time has come.                     *)
NobodyOversleeps ==
  pc = "receive" => \A i \in 0 .. q.count - 1 : q.heap[i].key > time

(* guide.tex: "The actual delay is guaranteed to be at least ticks clock   *)
(* ticks" (Delay), "at least until ticks clock ticks" (DelayUntil): when a *)
(* sleeper is let go, that many ticks have passed since it called, or that *)
(* time has come.                                                          *)
NobodyWakesEarly ==
  [][\A c \in Clients :
       call[c] # NoCall /\ call'[c] = NoCall =>
         /\ call[c].kind = "delay" => ticks - call[c].since >= call[c].arg
         /\ call[c].kind = "until" => \/ ticks >= call[c].arg
                                      \/ answer' = ERR_MISSED_DEADLINE]_vars

(* A client whose deadline the timer reaches gets its answer, unless the   *)
(* system was too slow for the timer and has aborted.                      *)
Reachable(c) ==
  /\ call[c] # NoCall
  /\ call[c].kind = "delay" => call[c].since + call[c].arg <= MAX_TIME
  /\ call[c].kind = "until" => call[c].arg <= MAX_TIME

EverySleeperWakes ==
  \A c \in Clients : Reachable(c) ~> call[c] = NoCall \/ Aborted
=============================================================================

-------------------------- MODULE SendReceiveReply --------------------------
(***************************************************************************)
(* What the kernel's message passing promises to tasks, with no scheduler, *)
(* no descriptors and no pointers: Send, Receive and Reply as rendezvous   *)
(* between tasks, each with an inbox of the tasks that wait to be received *)
(* in the order of their Sends.  Kernel implements this specification.     *)
(***************************************************************************)
EXTENDS Integers, Sequences

CONSTANT Tasks

VARIABLES
  state,     \* task -> what it is doing
  inbox      \* task -> the senders it has not received, oldest first

avars == <<state, inbox>>

States == {"none",       \* does not exist
           "running",    \* ready, active, or waiting for an event
           "receiving",  \* in Receive, having refused a message
           "waiting",    \* in Receive, with no message to take
           "sending",    \* in Send, not received yet
           "answering",  \* in Send, received and waiting for the reply
           "ending"}     \* in Exit

AInit ==
  /\ state = [t \in Tasks |-> "none"]
  /\ inbox = [t \in Tasks |-> <<>>]

Start(t) ==
  /\ state[t] = "none"
  /\ state' = [state EXCEPT ![t] = "running"]
  /\ UNCHANGED inbox

(***************************************************************************)
(* Receive.  A task waits only when its inbox is empty.                    *)
(***************************************************************************)
Wait(r) ==
  /\ state[r] \in {"running", "receiving"}
  /\ inbox[r] = <<>>
  /\ state' = [state EXCEPT ![r] = "waiting"]
  /\ UNCHANGED inbox

Take(r) ==
  /\ state[r] \in {"running", "receiving"}
  /\ inbox[r] # <<>>
  /\ state' = [state EXCEPT ![Head(inbox[r])] = "answering", ![r] = "running"]
  /\ inbox' = [inbox EXCEPT ![r] = Tail(@)]

Refuse(r) ==
  /\ state[r] \in {"running", "receiving"}
  /\ inbox[r] # <<>>
  /\ state' = [state EXCEPT ![Head(inbox[r])] = "running", ![r] = "receiving"]
  /\ inbox' = [inbox EXCEPT ![r] = Tail(@)]

(***************************************************************************)
(* Send, to a task that is busy or to one that waits.                      *)
(***************************************************************************)
Post(s, r) ==
  /\ state[s] = "running"
  /\ s # r
  /\ state[r] \notin {"none", "waiting", "ending"}
  /\ state' = [state EXCEPT ![s] = "sending"]
  /\ inbox' = [inbox EXCEPT ![r] = Append(@, s)]

Hand(s, r) ==
  /\ state[s] = "running"
  /\ state[r] = "waiting"
  /\ \/ state' = [state EXCEPT ![s] = "answering", ![r] = "running"]
     \/ state' = [state EXCEPT ![r] = "receiving"]
  /\ UNCHANGED inbox

(* Reply, by any task that runs.                                           *)
Answer(s) ==
  /\ state[s] = "answering"
  /\ \E t \in Tasks : state[t] = "running"
  /\ state' = [state EXCEPT ![s] = "running"]
  /\ UNCHANGED inbox

(***************************************************************************)
(* Exit.  The oldest sender in the inbox is let go; the senders behind it  *)
(* are dropped with the inbox and stay in Send (see NoSenderStranded).     *)
(***************************************************************************)
End(r) ==
  /\ state[r] = "running"
  /\ state' = [state EXCEPT ![r] = "ending"]
  /\ UNCHANGED inbox

Release(r) ==
  /\ state[r] = "ending"
  /\ inbox[r] # <<>>
  /\ state' = [state EXCEPT ![Head(inbox[r])] = "running"]
  /\ inbox' = [inbox EXCEPT ![r] = <<>>]

Gone(r) ==
  /\ state[r] = "ending"
  /\ inbox[r] = <<>>
  /\ state' = [state EXCEPT ![r] = "none"]
  /\ UNCHANGED inbox

ANext ==
  \E t \in Tasks :
    \/ Start(t) \/ Wait(t) \/ Take(t) \/ Refuse(t) \/ Answer(t)
    \/ End(t) \/ Release(t) \/ Gone(t)
    \/ \E r \in Tasks : Post(t, r) \/ Hand(t, r)

ASpec == AInit /\ [][ANext]_avars

-----------------------------------------------------------------------------
ATypeOK ==
  /\ state \in [Tasks -> States]
  /\ inbox \in [Tasks -> Seq(Tasks)]

(* The bodies of the inboxes are tasks in Send, each in one place once,    *)
(* and a task that waits for a message has none.                           *)
InboxesHoldSenders ==
  /\ \A r, q \in Tasks : \A i \in DOMAIN inbox[r] : \A j \in DOMAIN inbox[q] :
       /\ state[inbox[r][i]] = "sending"
       /\ inbox[r][i] = inbox[q][j] => r = q /\ i = j
  /\ \A r \in Tasks : state[r] \in {"waiting", "none"} => inbox[r] = <<>>
=============================================================================

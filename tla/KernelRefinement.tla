-------------------------- MODULE KernelRefinement --------------------------
(***************************************************************************)
(* The kernel implements SendReceiveReply: the refinement mapping reads a  *)
(* task's abstract state off its descriptor, and an inbox off the links of *)
(* the receive queue.                                                      *)
(***************************************************************************)
EXTENDS MCKernel

StateOf(t) ==
  IF mode = "destroy" /\ t = task_active THEN "ending"
  ELSE IF mode = "recv" /\ t = callee THEN "receiving"
  ELSE IF ~sp[t] THEN "none"
  ELSE IF lists.next[t] = RECV_BLOCKED THEN "waiting"
  ELSE IF lists.next[t] = RPLY_BLOCKED THEN "answering"
  ELSE IF req[t].call = "send" THEN "sending"
  ELSE "running"

SRR == INSTANCE SendReceiveReply
         WITH state <- [t \in Tasks |-> StateOf(t)],
              inbox <- [t \in Tasks |-> Queue(RecvQ(t))]

(* Tasks that use only the system calls see rendezvous message passing,    *)
(* with the inboxes in the order of the Sends.                             *)
ImplementsSendReceiveReply == SRR!ASpec
=============================================================================

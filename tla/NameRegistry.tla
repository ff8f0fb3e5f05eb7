---------------------------- MODULE NameRegistry ----------------------------
(***************************************************************************)
(* What the name server promises its clients: a name has at most one       *)
(* owner, the task that registered it last, and every call takes effect at *)
(* one moment between its start and its return.  NameServer implements it. *)
(***************************************************************************)
EXTENDS Integers, FiniteSets

CONSTANTS
  Clients,       \* tasks that call
  SERVER,        \* the name server
  Names,
  Long,          \* the names that are too long
  NAME,          \* the server's own
  NO_TASK,        \* owns a name that is not registered
  NAME_MAX       \* how many names can have an owner

Tasks == Clients \cup {SERVER}

OK == 0
FULL == -69              \* no room, and also: no such name
TOO_LONG == -1
NO_ENTRY == -63

NoCall == [kind |-> "none"]
Calls == [kind : {"RegisterAs", "WhoIs"}, name : Names]
           \cup [kind : {"WhoTid"}, tid : Tasks]

VARIABLES
  owner,         \* name -> its owner
  call,          \* client -> its call, or NoCall
  answer         \* what the call that returned last was answered

rvars == <<owner, call, answer>>

RInit ==
  /\ owner = [n \in Names |-> IF n = NAME THEN SERVER ELSE NO_TASK]
  /\ call = [c \in Clients |-> NoCall]
  /\ answer = OK

Owned == {n \in Names : owner[n] # NO_TASK}

Begin(c, request) ==
  /\ call[c] = NoCall
  /\ call' = [call EXCEPT ![c] = request]
  /\ UNCHANGED <<owner, answer>>

RefuseLong(c) ==
  /\ call[c] = NoCall
  /\ Long # {}
  /\ answer' = TOO_LONG
  /\ UNCHANGED <<owner, call>>

End(c, a) ==
  /\ call' = [call EXCEPT ![c] = NoCall]
  /\ answer' = a

Register(c) ==
  /\ call[c].kind = "RegisterAs"
  /\ LET name == call[c].name
     IN  \/ /\ name \in Owned \/ Cardinality(Owned) < NAME_MAX
            /\ owner' = [owner EXCEPT ![name] = c]
            /\ End(c, OK)
         \/ /\ name \notin Owned /\ Cardinality(Owned) >= NAME_MAX
            /\ End(c, FULL)
            /\ UNCHANGED owner

Find(c) ==
  /\ call[c].kind = "WhoIs"
  /\ End(c, IF call[c].name \in Owned THEN owner[call[c].name] ELSE FULL)
  /\ UNCHANGED owner

\* A task with several names may be told any of them.
Reverse(c) ==
  /\ call[c].kind = "WhoTid"
  /\ LET names == {n \in Names : owner[n] = call[c].tid}
     IN  \/ names = {} /\ End(c, NO_ENTRY)
         \/ \E n \in names : End(c, n)
  /\ UNCHANGED owner

RNext ==
  \E c \in Clients :
    \/ \E request \in Calls : Begin(c, request)
    \/ RefuseLong(c)
    \/ Register(c) \/ Find(c) \/ Reverse(c)

RSpec == RInit /\ [][RNext]_rvars
=============================================================================

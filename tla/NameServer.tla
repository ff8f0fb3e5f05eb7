----------------------------- MODULE NameServer -----------------------------
(***************************************************************************)
(* The name server (name_server.c): its table of names and of the tasks    *)
(* that registered them, and the calls RegisterAs, WhoIs and WhoTid.       *)
(*                                                                         *)
(* The table is two sequences of the length lookup_insert.  The server     *)
(* does not die, so the branch of RegisterAs that starts another one is    *)
(* left out.                                                               *)
(***************************************************************************)
EXTENDS Integers, Sequences, FiniteSets

CONSTANTS
  Clients,
  SERVER,        \* name_server_tid
  Names,
  Long,          \* those of more than NAME_MAX_SIZE characters
  NAME,          \* NAME_SERVER_NAME
  NO_TASK,
  NAME_MAX       \* the entries of the table

ASSUME TasksAssumption == NO_TASK \notin Clients \cup {SERVER}
ASSUME NamesAssumption == NAME \in Names
ASSUME NameMaxAssumption == NAME_MAX \in Nat \ {0}

VARIABLES
  lookup,        \* the names
  tasks,         \* the tasks, in the same order
  inbox,         \* clients whose requests are not received, in order
  call, answer   \* as in NameRegistry

vars == <<lookup, tasks, inbox, call, answer>>

(***************************************************************************)
(* The promise.  A name is owned by the task in its entry.                 *)
(***************************************************************************)
Registry == INSTANCE NameRegistry WITH
  owner <- [n \in Names |->
             IF \E i \in DOMAIN lookup : lookup[i] = n
             THEN tasks[CHOOSE i \in DOMAIN lookup : lookup[i] = n]
             ELSE NO_TASK]

NoCall == Registry!NoCall

Init ==
  /\ lookup = <<NAME>>
  /\ tasks = <<SERVER>>
  /\ inbox = <<>>
  /\ call = [c \in Clients |-> NoCall]
  /\ answer = 0

-----------------------------------------------------------------------------
(* The clients.                                                            *)

Send(c, request) ==
  /\ call[c] = NoCall
  /\ call' = [call EXCEPT ![c] = request]
  /\ inbox' = Append(inbox, c)
  /\ UNCHANGED <<lookup, tasks, answer>>

(* RegisterAs and WhoIs refuse a name that is too long.                    *)
SendName(c, kind, name) ==
  IF name \in Long
  THEN /\ call[c] = NoCall
       /\ answer' = -1
       /\ UNCHANGED <<lookup, tasks, inbox, call>>
  ELSE Send(c, [kind |-> kind, name |-> name])

RegisterAs(c, name) == SendName(c, "RegisterAs", name)

WhoIs(c, name) == SendName(c, "WhoIs", name)

WhoTid(c, tid) == Send(c, [kind |-> "WhoTid", tid |-> tid])

-----------------------------------------------------------------------------
(* The server.                                                             *)

\* The first index at which a sequence holds x, or 0.
First(s, x) ==
  IF \E i \in DOMAIN s : s[i] = x
  THEN CHOOSE i \in DOMAIN s : s[i] = x /\ \A j \in 1 .. i - 1 : s[j] # x
  ELSE 0

(* Mutant: the newest entry is not searched.                               *)
FindOlder(directory, name) ==
  IF directory = <<>> THEN 0
  ELSE First(SubSeq(directory, 1, Len(directory) - 1), name)

find_loc(directory, name) == First(directory, name)

(* Mutant: the index -1 of a search in vain is taken for an index.         *)
FindSomething(dir, task) == IF First(dir, task) = 0 THEN 1 ELSE First(dir, task)

find_name(dir, task) == First(dir, task)

Receive(kind) ==
  /\ inbox # <<>>
  /\ call[Head(inbox)].kind = kind
  /\ inbox' = Tail(inbox)

tid == Head(inbox)
Payload == call[tid]

Reply(a) ==
  /\ call' = [call EXCEPT ![tid] = NoCall]
  /\ answer' = a

Room == Len(lookup) < NAME_MAX

(* An entry of the same name gets a new owner; a new name a new entry, if  *)
(* there is room.                                                          *)
register_tid ==
  LET loc == find_loc(lookup, Payload.name)
  IN  /\ Receive("RegisterAs")
      /\ \/ /\ loc = 0
            /\ Room
            /\ lookup' = Append(lookup, Payload.name)
            /\ tasks' = Append(tasks, tid)
            /\ Reply(0)
         \/ /\ loc = 0
            /\ ~Room
            /\ Reply(-69)
            /\ UNCHANGED <<lookup, tasks>>
         \/ /\ loc # 0
            /\ tasks' = [tasks EXCEPT ![loc] = tid]
            /\ Reply(0)
            /\ UNCHANGED lookup

lookup_tid ==
  LET loc == find_loc(lookup, Payload.name)
  IN  /\ Receive("WhoIs")
      /\ Reply(IF loc = 0 THEN -69 ELSE tasks[loc])
      /\ UNCHANGED <<lookup, tasks>>

lookup_name ==
  LET loc == find_name(tasks, Payload.tid)
  IN  /\ Receive("WhoTid")
      /\ Reply(IF loc = 0 THEN -63 ELSE lookup[loc])
      /\ UNCHANGED <<lookup, tasks>>

name_server == register_tid \/ lookup_tid \/ lookup_name

Next ==
  \/ \E c \in Clients, n \in Names : RegisterAs(c, n) \/ WhoIs(c, n)
  \/ \E c \in Clients, t \in Registry!Tasks : WhoTid(c, t)
  \/ name_server

Spec == Init /\ [][Next]_vars

-----------------------------------------------------------------------------
(* Properties.                                                             *)

(* Fields have their types; the table stays within its arrays.             *)
TypeOK ==
  /\ lookup \in Seq(Names)
  /\ tasks \in Seq(Registry!Tasks)
  /\ Len(tasks) = Len(lookup) /\ Len(lookup) \in 1 .. NAME_MAX
  /\ inbox \in Seq(Clients)
  /\ call \in [Clients -> Registry!Calls \cup {NoCall}]

(* No name has two entries: there would be a task that registered last and *)
(* is not found.                                                           *)
OneEntryPerName ==
  \A i, j \in DOMAIN lookup : lookup[i] = lookup[j] => i = j

(* guide.tex: "the lookup will now point to the task that registered most  *)
(* recently", with calls of several tasks under way: the server implements *)
(* NameRegistry.                                                           *)
ImplementsRegistry == Registry!RSpec
=============================================================================

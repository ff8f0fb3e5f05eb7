----------------------- MODULE SendReceiveReplyProofs -----------------------
(***************************************************************************)
(* The abstract rendezvous keeps its inboxes sound, for any set of tasks.  *)
(* The inductive invariant is the type invariant with the property itself: *)
(* a task that sends is in one inbox, once, and a task that waits for a    *)
(* message has an empty inbox.                                             *)
(***************************************************************************)
EXTENDS SendReceiveReply, SequenceTheorems, TLAPS

AInv == ATypeOK /\ InboxesHoldSenders

(* What Head and Tail do to an inbox that is not empty.                    *)
LEMMA InboxStep ==
  ASSUME NEW Inbox, Inbox \in Seq(Tasks), Inbox # <<>>
  PROVE  /\ Head(Inbox) = Inbox[1] /\ Head(Inbox) \in Tasks
         /\ 1 \in DOMAIN Inbox
         /\ Tail(Inbox) \in Seq(Tasks)
         /\ \A i \in DOMAIN Tail(Inbox) : /\ i + 1 \in DOMAIN Inbox
                                          /\ i \in Nat /\ i > 0
                                          /\ Tail(Inbox)[i] = Inbox[i+1]
<1>1. /\ Head(Inbox) \in Tasks
      /\ Tail(Inbox) \in Seq(Tasks)
      /\ Len(Tail(Inbox)) = Len(Inbox) - 1
      /\ \A i \in 1..Len(Tail(Inbox)) : Tail(Inbox)[i] = Inbox[i+1]
      /\ Len(Inbox) \in Nat \ {0}
      /\ DOMAIN Inbox = 1..Len(Inbox)
      /\ DOMAIN Tail(Inbox) = 1..Len(Tail(Inbox))
      /\ Head(Inbox) = Inbox[1]
  BY HeadTailProperties, EmptySeq, LenProperties
<1> QED
  BY <1>1

(* The head of an inbox leaves, and stops sending.                         *)
LEMMA HeadLeaves ==
  ASSUME AInv, NEW r \in Tasks, inbox[r] # <<>>,
         inbox' = [inbox EXCEPT ![r] = Tail(@)],
         state' \in [Tasks -> States],
         \A t \in Tasks \ {Head(inbox[r])} :
           /\ state[t] = "sending" => state'[t] = "sending"
           /\ state'[t] \in {"waiting", "none"} => state[t] = state'[t],
         state'[Head(inbox[r])] \notin {"waiting", "none"},
         state[r] \notin {"waiting", "none"}
  PROVE  AInv'
<1> DEFINE s    == Head(inbox[r])
           rest == Tail(inbox[r])
<1>1. /\ inbox \in [Tasks -> Seq(Tasks)]
      /\ inbox[r] \in Seq(Tasks)
  BY DEF AInv, ATypeOK
<1>2. /\ s = inbox[r][1] /\ s \in Tasks
      /\ 1 \in DOMAIN inbox[r]
      /\ rest \in Seq(Tasks)
      /\ \A i \in DOMAIN rest :
           /\ i + 1 \in DOMAIN inbox[r]
           /\ i \in Nat /\ i > 0
           /\ rest[i] = inbox[r][i+1]
  BY <1>1, InboxStep
<1>3. ATypeOK'
  BY <1>1, <1>2 DEF ATypeOK
<1>4. \A q, p \in Tasks : \A i \in DOMAIN inbox[q] : \A j \in DOMAIN inbox[p] :
        /\ state[inbox[q][i]] = "sending"
        /\ inbox[q][i] = inbox[p][j] => q = p /\ i = j
  BY DEF AInv, InboxesHoldSenders
<1>5. /\ inbox'[r] = rest
      /\ \A q \in Tasks : q # r => inbox'[q] = inbox[q]
  BY <1>1
<1> HIDE DEF s, rest
<1>6. ASSUME NEW q \in Tasks, NEW i \in DOMAIN inbox'[q]
      PROVE  inbox'[q][i] # s /\ state'[inbox'[q][i]] = "sending"
  <2>1. CASE q = r
    <3>0. inbox'[q] = rest /\ i \in DOMAIN rest
      <4>1. inbox'[q] = rest
        BY <1>5, <2>1, Zenon
      <4> QED
        BY <4>1, <1>6, Zenon
    <3>1. /\ i + 1 \in DOMAIN inbox[r] /\ i + 1 # 1
          /\ inbox'[q][i] = inbox[r][i+1]
      BY <1>2, <3>0
    <3>2. inbox[r][i+1] # s /\ state[inbox[r][i+1]] = "sending"
      BY <1>2, <1>4, <3>1
    <3>3. inbox'[q][i] \in Tasks
      BY <1>1, <3>1, ElementOfSeq, LenProperties
    <3> QED
      BY <3>1, <3>2, <3>3 DEF s
  <2>2. CASE q # r
    <3>1. i \in DOMAIN inbox[q] /\ inbox'[q][i] = inbox[q][i]
      BY <1>5, <1>6, <2>2
    <3>2. inbox[q][i] # s /\ state[inbox[q][i]] = "sending"
      BY <1>2, <1>4, <2>2, <3>1
    <3>3. inbox[q] \in Seq(Tasks)
      BY <1>1
    <3>4. inbox[q][i] \in Tasks
      BY <3>1, <3>3, ElementOfSeq, LenProperties
    <3> QED
      BY <3>1, <3>2, <3>4 DEF s
  <2> QED
    BY <2>1, <2>2
<1>7. ASSUME NEW q \in Tasks, NEW p \in Tasks,
             NEW i \in DOMAIN inbox'[q], NEW j \in DOMAIN inbox'[p],
             inbox'[q][i] = inbox'[p][j]
      PROVE  q = p /\ i = j
  <2> DEFINE from(x, n) == IF x = r THEN n + 1 ELSE n
  <2>0. ASSUME NEW x \in Tasks, NEW n \in DOMAIN inbox'[x]
        PROVE  /\ from(x, n) \in DOMAIN inbox[x]
               /\ inbox[x][from(x, n)] = inbox'[x][n]
    <3>1. CASE x = r
      <4>1. inbox'[x] = rest
        BY <1>5, <3>1, Zenon
      <4>2. n \in DOMAIN rest
        BY <4>1, <2>0, Zenon
      <4> QED
        BY <1>2, <3>1, <4>1, <4>2
    <3>2. CASE x # r
      BY <1>5, <2>0, <3>2
    <3> QED
      BY <3>1, <3>2
  <2>1. /\ from(q, i) \in DOMAIN inbox[q]
        /\ inbox[q][from(q, i)] = inbox'[q][i]
    BY <1>7, <2>0
  <2>2. /\ from(p, j) \in DOMAIN inbox[p]
        /\ inbox[p][from(p, j)] = inbox'[p][j]
    BY <1>7, <2>0
  <2>3. q = p /\ from(q, i) = from(p, j)
    BY <1>4, <1>7, <2>1, <2>2
  <2>4. q = r => i \in Nat /\ j \in Nat
    <3> SUFFICES ASSUME q = r PROVE i \in Nat /\ j \in Nat
      OBVIOUS
    <3>1. inbox'[q] = rest /\ inbox'[p] = rest
      BY <1>5, <2>3, Zenon
    <3>2. i \in DOMAIN rest /\ j \in DOMAIN rest
      BY <1>7, <3>1, Zenon
    <3> QED
      BY <1>2, <3>2
  <2> QED
    BY <2>3, <2>4
<1>8. \A q \in Tasks : state'[q] \in {"waiting", "none"} => inbox'[q] = <<>>
  <2> SUFFICES ASSUME NEW q \in Tasks, state'[q] \in {"waiting", "none"}
               PROVE  inbox'[q] = <<>>
    OBVIOUS
  <2>1. q # s
    BY DEF s
  <2>2. state[q] = state'[q]
    BY <2>1 DEF s
  <2>3. q # r
    BY <2>2
  <2> QED
    BY <1>5, <2>2, <2>3 DEF AInv, InboxesHoldSenders
<1> QED
  BY <1>3, <1>6, <1>7, <1>8 DEF AInv, InboxesHoldSenders

(* No inbox changes, and no task in an inbox stops sending.                *)
LEMMA InboxesKept ==
  ASSUME AInv, inbox' = inbox, state' \in [Tasks -> States],
         \A t \in Tasks :
           /\ state[t] = "sending" => state'[t] = "sending"
           /\ state'[t] \in {"waiting", "none"} => inbox[t] = <<>>
  PROVE  AInv'
<1>1. \A r \in Tasks : \A i \in DOMAIN inbox[r] : inbox[r][i] \in Tasks
  BY ElementOfSeq, LenProperties DEF AInv, ATypeOK
<1> QED
  BY <1>1 DEF AInv, ATypeOK, InboxesHoldSenders

(* Post: a sender joins an inbox of a task that does not wait.             *)
LEMMA PostStep ==
  ASSUME AInv, NEW s \in Tasks, NEW r \in Tasks, Post(s, r)
  PROVE  AInv'
<1> DEFINE box == inbox[r]
<1>1. /\ inbox \in [Tasks -> Seq(Tasks)]
      /\ box \in Seq(Tasks)
      /\ state \in [Tasks -> States]
  BY DEF AInv, ATypeOK
<1>2. /\ Append(box, s) \in Seq(Tasks)
      /\ DOMAIN Append(box, s) = 1..(Len(box) + 1)
      /\ DOMAIN box = 1..Len(box)
      /\ \A i \in 1..Len(box) : Append(box, s)[i] = box[i]
      /\ Append(box, s)[Len(box) + 1] = s
      /\ Len(box) \in Nat
  BY <1>1, AppendProperties, LenProperties
<1>3. /\ state' = [state EXCEPT ![s] = "sending"]
      /\ \A q \in Tasks : /\ q = r => inbox'[q] = Append(box, s)
                          /\ q # r => inbox'[q] = inbox[q]
      /\ state[s] = "running"
      /\ state[r] \notin {"none", "waiting"}
  BY <1>1 DEF Post
<1>4. ATypeOK'
  BY <1>1, <1>2 DEF ATypeOK, Post, States
<1>5. \A q, p \in Tasks : \A i \in DOMAIN inbox[q] : \A j \in DOMAIN inbox[p] :
        /\ state[inbox[q][i]] = "sending"
        /\ inbox[q][i] = inbox[p][j] => q = p /\ i = j
  BY DEF AInv, InboxesHoldSenders
<1>6. ASSUME NEW q \in Tasks, NEW i \in DOMAIN inbox'[q]
      PROVE  \/ i \in DOMAIN inbox[q] /\ inbox'[q][i] = inbox[q][i]
             \/ q = r /\ i = Len(box) + 1 /\ inbox'[q][i] = s
  BY <1>2, <1>3, <1>6
<1>7. \A q \in Tasks : \A i \in DOMAIN inbox[q] :
        inbox[q][i] \in Tasks /\ inbox[q][i] # s
  BY <1>1, <1>3, <1>5, ElementOfSeq, LenProperties
<1>8. ASSUME NEW q \in Tasks, NEW i \in DOMAIN inbox'[q]
      PROVE  state'[inbox'[q][i]] = "sending"
  BY <1>1, <1>3, <1>5, <1>6, <1>7, <1>8
<1>9. ASSUME NEW q \in Tasks, NEW p \in Tasks,
             NEW i \in DOMAIN inbox'[q], NEW j \in DOMAIN inbox'[p],
             inbox'[q][i] = inbox'[p][j]
      PROVE  q = p /\ i = j
  BY <1>5, <1>6, <1>7, <1>9
<1>10. \A q \in Tasks : state'[q] \in {"waiting", "none"} => inbox'[q] = <<>>
  BY <1>1, <1>3 DEF AInv, InboxesHoldSenders
<1> QED
  BY <1>4, <1>8, <1>9, <1>10 DEF AInv, InboxesHoldSenders

(* Release: the inbox of a task that exits loses its first sender.         *)
LEMMA ReleaseStep ==
  ASSUME AInv, NEW r \in Tasks, Release(r)
  PROVE  AInv'
<1> DEFINE s == Head(inbox[r])
<1>1. /\ inbox \in [Tasks -> Seq(Tasks)] /\ inbox[r] \in Seq(Tasks)
      /\ state \in [Tasks -> States]
  BY DEF AInv, ATypeOK
<1>2. /\ s = inbox[r][1] /\ s \in Tasks /\ 1 \in DOMAIN inbox[r]
  BY <1>1, InboxStep DEF Release
<1>3. /\ state' = [state EXCEPT ![s] = "running"]
      /\ inbox' = [inbox EXCEPT ![r] = <<>>]
  BY DEF Release
<1>4. ATypeOK'
  BY <1>1, <1>3, EmptySeq DEF ATypeOK, States
<1>5. \A q, p \in Tasks : \A i \in DOMAIN inbox[q] : \A j \in DOMAIN inbox[p] :
        /\ state[inbox[q][i]] = "sending"
        /\ inbox[q][i] = inbox[p][j] => q = p /\ i = j
  BY DEF AInv, InboxesHoldSenders
<1>6. DOMAIN (<<>>) = {}
  BY EmptySeq, LenProperties
<1>7. \A q \in Tasks : \A i \in DOMAIN inbox'[q] :
        q # r /\ inbox'[q] = inbox[q] /\ inbox[q][i] # s
  BY <1>1, <1>2, <1>3, <1>5, <1>6
<1>8. \A q \in Tasks : \A i \in DOMAIN inbox[q] : inbox[q][i] \in Tasks
  BY <1>1, ElementOfSeq, LenProperties
<1>9. \A q \in Tasks : \A i \in DOMAIN inbox'[q] :
        state'[inbox'[q][i]] = "sending"
  BY <1>1, <1>3, <1>5, <1>7, <1>8
<1>10. \A q \in Tasks : state'[q] \in {"waiting", "none"} => inbox'[q] = <<>>
  BY <1>1, <1>3 DEF AInv, InboxesHoldSenders
<1>11. \A q, p \in Tasks :
         \A i \in DOMAIN inbox'[q] : \A j \in DOMAIN inbox'[p] :
           inbox'[q][i] = inbox'[p][j] => q = p /\ i = j
  BY <1>5, <1>7
<1> QED
  BY <1>4, <1>9, <1>10, <1>11 DEF AInv, InboxesHoldSenders

(* Senders wait in one inbox once, and a task that waits for a message has *)
(* an empty inbox.                                                         *)
THEOREM InboxesAreSound == ASpec => []InboxesHoldSenders
<1>1. AInit => AInv
  <2> SUFFICES ASSUME AInit PROVE AInv
    OBVIOUS
  <2>1. <<>> \in Seq(Tasks) /\ DOMAIN (<<>>) = {}
    BY EmptySeq, LenProperties
  <2> QED
    BY <2>1 DEF AInit, AInv, ATypeOK, InboxesHoldSenders, States
<1>2. AInv /\ [ANext]_avars => AInv'
  <2> SUFFICES ASSUME AInv, [ANext]_avars PROVE AInv'
    OBVIOUS
  <2>0. state \in [Tasks -> States] /\ inbox \in [Tasks -> Seq(Tasks)]
    BY DEF AInv, ATypeOK
  <2>1. \A t \in Tasks : state[t] \in {"waiting", "none"} => inbox[t] = <<>>
    BY DEF AInv, InboxesHoldSenders
  <2>2. ASSUME NEW r \in Tasks, inbox[r] # <<>>
        PROVE  Head(inbox[r]) \in Tasks /\ state[Head(inbox[r])] = "sending"
    BY <2>0, <2>2, InboxStep DEF AInv, InboxesHoldSenders
  <2>3. ASSUME NEW t \in Tasks, Start(t) PROVE AInv'
    BY <2>0, <2>1, <2>3, InboxesKept DEF Start, States
  <2>4. ASSUME NEW t \in Tasks, Wait(t) PROVE AInv'
    BY <2>0, <2>1, <2>4, InboxesKept DEF Wait, States
  <2>5. ASSUME NEW t \in Tasks, Take(t) PROVE AInv'
    <3>1. /\ Head(inbox[t]) \in Tasks /\ Head(inbox[t]) # t
          /\ inbox[t] # <<>>
      BY <2>2, <2>5 DEF Take
    <3>2. /\ inbox' = [inbox EXCEPT ![t] = Tail(@)]
          /\ state' = [state EXCEPT ![Head(inbox[t])] = "answering",
                                    ![t] = "running"]
          /\ state[t] \in {"running", "receiving"}
      BY <2>5 DEF Take
    <3>3. state' \in [Tasks -> States]
      BY <2>0, <3>2 DEF States
    <3> QED
      BY <2>0, <3>1, <3>2, <3>3, HeadLeaves
  <2>6. ASSUME NEW t \in Tasks, Refuse(t) PROVE AInv'
    <3>1. /\ Head(inbox[t]) \in Tasks /\ Head(inbox[t]) # t
          /\ inbox[t] # <<>>
      BY <2>2, <2>6 DEF Refuse
    <3>2. /\ inbox' = [inbox EXCEPT ![t] = Tail(@)]
          /\ state' = [state EXCEPT ![Head(inbox[t])] = "running",
                                    ![t] = "receiving"]
          /\ state[t] \in {"running", "receiving"}
      BY <2>6 DEF Refuse
    <3>3. state' \in [Tasks -> States]
      BY <2>0, <3>2 DEF States
    <3> QED
      BY <2>0, <3>1, <3>2, <3>3, HeadLeaves
  <2>7. ASSUME NEW t \in Tasks, Answer(t) PROVE AInv'
    BY <2>0, <2>1, <2>7, InboxesKept DEF Answer, States
  <2>8. ASSUME NEW t \in Tasks, End(t) PROVE AInv'
    BY <2>0, <2>1, <2>8, InboxesKept DEF End, States
  <2>9. ASSUME NEW t \in Tasks, Release(t) PROVE AInv'
    BY <2>9, ReleaseStep
  <2>10. ASSUME NEW t \in Tasks, Gone(t) PROVE AInv'
    BY <2>0, <2>1, <2>10, InboxesKept DEF Gone, States
  <2>11. ASSUME NEW t \in Tasks, NEW r \in Tasks, Post(t, r) PROVE AInv'
    BY <2>11, PostStep
  <2>12. ASSUME NEW t \in Tasks, NEW r \in Tasks, Hand(t, r) PROVE AInv'
    BY <2>0, <2>1, <2>12, InboxesKept DEF Hand, States
  <2>13. CASE UNCHANGED avars
    BY <2>13 DEF avars, AInv, ATypeOK, InboxesHoldSenders
  <2> QED
    BY <2>3, <2>4, <2>5, <2>6, <2>7, <2>8, <2>9, <2>10, <2>11, <2>12, <2>13
    DEF ANext
<1> QED
  BY <1>1, <1>2, PTL DEF ASpec, AInv
=============================================================================

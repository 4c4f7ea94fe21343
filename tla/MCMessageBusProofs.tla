------------------------- MODULE MCMessageBusProofs -------------------------
(***************************************************************************)
(* Theorems of the message bus under the traffic of its two clients, for   *)
(* any number of messages and whatever a damaged deque shows: the bus is   *)
(* well-typed and, until two operations on the deque have raced, nothing   *)
(* is lost or repeated; and if besides nobody has compared priorities      *)
(* while the front was changing, the commands of the server keep their     *)
(* order.                                                                  *)
(***************************************************************************)
EXTENDS MCMessageBus, MessageBusProofs, FiniteSetTheorems

-----------------------------------------------------------------------------
(* What the clients send.                                                    *)
OwnNumber(t) == IF t = COMMUNICATIONSERVICE THEN sent[t] ELSE MaxServer + sent[t]

FromServer(x) == x.priority = 2

(* The message that t is sending.                                            *)
Fresh(t, m) ==
  /\ m \in Message /\ m.dest \in Waiters
  /\ m.priority = (IF t = COMMUNICATIONSERVICE THEN 2 ELSE 1)
  /\ m.body = OwnNumber(t)

Counts ==
  /\ sent \in [Senders -> Nat] /\ \A t \in Senders : sent[t] <= Quota(t)
  /\ misled \in BOOLEAN /\ overlapped \in BOOLEAN

Traffic ==
  \A t \in Senders : sending[t].pc # "idle" => Fresh(t, sending[t].msg) /\ sent[t] > 0

(* The commands of the server whose SendMessage has returned.                *)
Finished ==
  IF sending[COMMUNICATIONSERVICE].pc = "idle" THEN sent[COMMUNICATIONSERVICE]
                                               ELSE sent[COMMUNICATIONSERVICE] - 1

Known(x, finished) == x.dest \in Waiters /\ (FromServer(x) => x.body <= finished)

AllKnown(q, finished) == \A i \in DOMAIN q : Known(q[i], finished)

(* What the service thread has popped and not yet put into a receive queue.  *)
Hand == IF service.pc = "deliver" THEN <<service.msg>> ELSE <<>>

(* Everything on the way or handed over was sent by a client.                *)
Sent ==
  /\ AllKnown(serviceQueue, Finished) /\ AllKnown(Hand, Finished)
  /\ \A t \in Tasks : AllKnown(receiveQueue[t], Finished)

(* x is handed over before y.                                                *)
Earlier(x, y) == FromServer(x) /\ FromServer(y) => x.body < y.body

Sorted(q) == \A i, j \in DOMAIN q : i < j => Earlier(q[i], q[j])

Before(q, r) == \A i \in DOMAIN q : \A j \in DOMAIN r : Earlier(q[i], r[j])

(* A command of the server that goes to the front passes no other one.       *)
Passes ==
  LET own == sending[COMMUNICATIONSERVICE] IN
    own.pc # "idle" /\ own.end = "front" =>
      \A i \in DOMAIN serviceQueue : ~FromServer(serviceQueue[i])

(* From the queue over the service thread to the receive queues, the         *)
(* commands of the server are in order.                                      *)
InOrder ==
  /\ Sorted(serviceQueue) /\ Before(Hand, serviceQueue) /\ Passes
  /\ \A t \in Tasks : /\ Sorted(receiveQueue[t])
                      /\ Before(receiveQueue[t], Hand)
                      /\ Before(receiveQueue[t], serviceQueue)

(* The message with number n was sent and its SendMessage has returned.      *)
Arrived(n) == \E t \in Senders : n \in SentBy(t) \ Pending(t)

(* Every message is once in the bus or in a receive queue from the end of    *)
(* its SendMessage on, and not before.                                       *)
Conserved == \A n \in Nat : Copies(n) = IF Arrived(n) THEN 1 ELSE 0

Inv ==
  /\ BusInv /\ Counts /\ Traffic
  /\ ~damaged => Sent /\ Conserved
  /\ ~damaged /\ ~misled => InOrder

-----------------------------------------------------------------------------
(* The numbers fit the bodies, and what a client sends is a message.         *)
LEMMA Outgoings ==
  ASSUME Counts, NEW t \in Senders, sent[t] < Quota(t), NEW m \in Outgoing(t)
  PROVE  /\ m \in Message /\ m.dest \in Waiters
         /\ m.priority = (IF t = COMMUNICATIONSERVICE THEN 2 ELSE 1)
         /\ m.body = (IF t = COMMUNICATIONSERVICE THEN 0 ELSE MaxServer) + sent[t] + 1
<1>1. sent[t] \in Nat /\ t \in {COMMUNICATIONSERVICE, STREAMMANAGER}
  BY DEF Counts, Senders
<1>2. CASE t = COMMUNICATIONSERVICE
  <2>1. m \in [dest : {STREAMMANAGER, MOTORMANAGER}, priority : {2}, body : {sent[t] + 1}]
    BY <1>2 DEF Outgoing
  <2>2. sent[t] + 1 \in Bodies
    BY <1>1, <1>2, MCBounds, MCBodies DEF Quota
  <2> QED
    BY <1>1, <1>2, <2>1, <2>2 DEF Message, Tasks, Waiters
<1>3. CASE t # COMMUNICATIONSERVICE
  <2>1. m \in [dest : {MOTORMANAGER}, priority : {1}, body : {MaxServer + sent[t] + 1}]
    BY <1>3 DEF Outgoing
  <2>2. MaxServer + sent[t] + 1 \in Bodies
    BY <1>1, <1>3, MCBounds, MCBodies DEF Quota
  <2> QED
    BY <1>1, <1>3, <2>1, <2>2, MCBounds DEF Message, Tasks, Waiters
<1> QED
  BY <1>2, <1>3

(* A client begins to send a message.                                        *)
Begins(t, m) == sent[t] < Quota(t) /\ m \in Outgoing(t) /\ BeginSend(t, m)
                /\ sent' = [sent EXCEPT ![t] = @ + 1]

(* The kinds of steps.                                                       *)
LEMMA Kinds ==
  ASSUME [MCNext]_mcVars
  PROVE  \/ \E t \in Senders : \E m \in Outgoing(t) : Begins(t, m)
         \/ \E t \in Senders : BeginPush(t) /\ UNCHANGED sent
         \/ \E t \in Senders : EndPush(t) /\ UNCHANGED sent
         \/ ServiceStep /\ UNCHANGED sent
         \/ UNCHANGED <<busVars, sent>>
<1>1. CASE UNCHANGED mcVars
  BY <1>1 DEF mcVars
<1>2. CASE MCNext
  BY <1>2 DEF MCNext, Client, SendStep, Begins
<1> QED
  BY <1>1, <1>2

(* The bus stays well-typed.                                                 *)
LEMMA BusKept == ASSUME BusInv, Counts, [MCNext]_mcVars PROVE BusInv'
<1>1. CASE \E t \in Senders : \E m \in Outgoing(t) : Begins(t, m)
  BY <1>1, Outgoings, BeginSendInv DEF Begins
<1>2. CASE \E t \in Senders : SendStep(t)
  BY <1>2, SendStepInv
<1>3. CASE ServiceStep
  BY <1>3, ServiceStepInv
<1>4. CASE UNCHANGED busVars
  BY <1>4, BusStutterInv
<1> QED
  BY Kinds, <1>1, <1>2, <1>3, <1>4 DEF SendStep

(* The counters stay within their quotas.                                    *)
LEMMA CountsKept == ASSUME Counts, [MCNext]_mcVars PROVE Counts'
<1>1. sent' \in [Senders -> Nat] /\ \A t \in Senders : sent'[t] <= Quota(t)
  <2>1. CASE UNCHANGED sent
    BY <2>1 DEF Counts
  <2>2. CASE \E t \in Senders : \E m \in Outgoing(t) : Begins(t, m)
    <3>1. PICK t \in Senders : sent[t] < Quota(t) /\ sent' = [sent EXCEPT ![t] = @ + 1]
      BY <2>2 DEF Begins
    <3>2. Quota(t) \in Nat
      BY MCBounds DEF Quota
    <3> QED
      BY <3>1, <3>2 DEF Counts
  <2> QED
    BY Kinds, <2>1, <2>2
<1>2. misled' \in BOOLEAN /\ overlapped' \in BOOLEAN
  BY DEF Counts, MCNext, mcVars
<1> QED
  BY <1>1, <1>2 DEF Counts, Quota

-----------------------------------------------------------------------------
(* The steps as they are seen by a message that is on its way: nothing       *)
(* happens to it, ...                                                        *)
Quiet ==
  /\ UNCHANGED <<serviceQueue, receiveQueue, Hand, sent>>
  /\ \A u \in Senders :
       /\ sending'[u].pc = "idle" <=> sending[u].pc = "idle"
       /\ sending'[u].msg = sending[u].msg
       /\ sending'[u].end = sending[u].end

(* ... a message is begun, ...                                               *)
Enters(t, m) == Begins(t, m) /\ UNCHANGED <<serviceQueue, receiveQueue, Hand>>

(* ... it is put into the queue, ...                                         *)
Returns(t) ==
  /\ sending[t].pc # "idle" /\ sending' = [sending EXCEPT ![t] = Idle]
  /\ serviceQueue' = IF sending[t].end = "front" THEN <<sending[t].msg>> \o serviceQueue
                                                 ELSE Append(serviceQueue, sending[t].msg)
  /\ UNCHANGED <<receiveQueue, Hand, sent>>

(* ... the service thread gets it, ...                                       *)
Popped ==
  /\ serviceQueue # <<>> /\ serviceQueue' = Tail(serviceQueue)
  /\ Hand = <<>> /\ Hand' = <<Head(serviceQueue)>>
  /\ UNCHANGED <<sending, receiveQueue, sent>>

(* ... and hands it over.                                                    *)
Delivered(m) ==
  /\ Hand = <<m>> /\ Hand' = <<>>
  /\ receiveQueue' = [receiveQueue EXCEPT ![m.dest] = Append(@, m)]
  /\ UNCHANGED <<serviceQueue, sending, sent>>

(* The service thread holds a message or nothing, unless the deque is        *)
(* damaged.                                                                  *)
LEMMA HandType == ASSUME BusInv, ~damaged PROVE Hand \in Seq(Message)
<1>1. service.pc = "deliver" => service.msg \in Message
  BY DEF BusInv, BusTypeOK, Node
<1> QED
  BY <1>1 DEF Hand

(* An undamaged deque was not damaged before, and the step is one of these.  *)
LEMMA UndamagedKinds ==
  ASSUME BusInv, [MCNext]_mcVars, ~damaged'
  PROVE  /\ ~damaged
         /\ \/ Quiet
            \/ \E t \in Senders : \E m \in Outgoing(t) : Enters(t, m)
            \/ \E t \in Senders : Returns(t)
            \/ Popped
            \/ \E m \in Message : Delivered(m)
<1> USE DEF BusInv, BusTypeOK
<1>1. CASE \E t \in Senders : \E m \in Outgoing(t) : Begins(t, m)
  <2>0. PICK t \in Senders : \E m \in Outgoing(t) : Begins(t, m)
    BY <1>1
  <2>1. PICK m \in Outgoing(t) : Begins(t, m)
    BY <2>0
  <2>2. UNCHANGED <<serviceQueue, receiveQueue, service, damaged>>
    BY <2>1 DEF Begins, BeginSend
  <2>3. Enters(t, m) /\ ~damaged
    BY <2>1, <2>2 DEF Enters, Hand
  <2> QED
    BY <2>3
<1>2. CASE \E t \in Senders : BeginPush(t) /\ UNCHANGED sent
  <2>1. PICK t \in Senders : BeginPush(t)
    BY <1>2
  <2>2. ~damaged
    BY <2>1 DEF BeginPush, Watched
  <2>3. PICK r \in BOOLEAN : sending' = [sending EXCEPT ![t].pc = "push", ![t].recentres = r]
    BY <2>1 DEF BeginPush
  <2>4. UNCHANGED <<serviceQueue, receiveQueue, Hand, sent>>
    BY <1>2, <2>1 DEF BeginPush, Holds, Hand
  <2>5. sending[t].pc = "chosen"
    BY <2>1 DEF BeginPush
  <2> QED
    BY <2>2, <2>3, <2>4, <2>5 DEF Quiet
<1>3. CASE \E t \in Senders : EndPush(t) /\ UNCHANGED sent
  <2>1. PICK t \in Senders : EndPush(t)
    BY <1>3
  <2>2. UNCHANGED <<receiveQueue, service, damaged, sent>>
    BY <1>3, <2>1 DEF EndPush
  <2>3. serviceQueue' = IF sending[t].end = "front" THEN <<sending[t].msg>> \o serviceQueue
                                                   ELSE Append(serviceQueue, sending[t].msg)
    BY <2>1 DEF EndPush, Holds
  <2>4. sending[t].pc # "idle" /\ sending' = [sending EXCEPT ![t] = Idle]
    BY <2>1 DEF EndPush
  <2>5. Returns(t) /\ ~damaged
    BY <2>2, <2>3, <2>4, Zenon DEF Returns, Hand
  <2> QED
    BY <2>5
<1>4. CASE ServiceStep /\ UNCHANGED sent
  <2>1. CASE TakeFront \/ Signal
    BY <1>4, <2>1 DEF TakeFront, Signal, Quiet, Hand
  <2>2. CASE TakeStray
    BY <2>2 DEF TakeStray
  <2>3. CASE BeginPop
    <3>1. ~damaged
      BY <2>3 DEF BeginPop, Watched
    <3> QED
      BY <1>4, <2>3, <3>1 DEF BeginPop, Holds, Quiet, Hand
  <2>4. CASE EndPop
    BY <1>4, <2>4 DEF EndPop, Holds, Popped, Hand
  <2>5. CASE Deliver
    <3>1. ~damaged /\ service.msg # Garbage /\ service.msg \in Message
      BY <2>5 DEF Deliver, Node
    <3>2. Delivered(service.msg)
      BY <1>4, <2>5, <3>1 DEF Deliver, Delivered, Hand
    <3> QED
      BY <3>1, <3>2
  <2> QED
    BY <1>4, <2>1, <2>2, <2>3, <2>4, <2>5 DEF ServiceStep
<1>5. CASE UNCHANGED <<busVars, sent>>
  BY <1>5 DEF busVars, Quiet, Hand
<1> QED
  BY Kinds, <1>1, <1>2, <1>3, <1>4, <1>5

-----------------------------------------------------------------------------
(* A sender that is inside SendMessage sends the last message it began.      *)
LEMMA TrafficKept == ASSUME BusInv, Counts, Traffic, [MCNext]_mcVars PROVE Traffic'
<1>0. sending \in [Senders -> Sending] /\ sent \in [Senders -> Nat]
  BY DEF BusInv, BusTypeOK, Sending, Counts
<1>1. CASE \E t \in Senders : \E m \in Outgoing(t) : Begins(t, m)
  <2>1. PICK t \in Senders : \E m \in Outgoing(t) : Begins(t, m)
    BY <1>1
  <2>2. PICK m \in Outgoing(t) : Begins(t, m)
    BY <2>1
  <2>3. /\ m \in Message /\ m.dest \in Waiters
        /\ m.priority = (IF t = COMMUNICATIONSERVICE THEN 2 ELSE 1)
        /\ m.body = (IF t = COMMUNICATIONSERVICE THEN 0 ELSE MaxServer) + sent[t] + 1
    BY <2>2, Outgoings DEF Begins
  <2>4. sent' = [sent EXCEPT ![t] = sent[t] + 1]
    BY <2>2 DEF Begins
  <2>5. sending'[t].msg = m /\ \A u \in Senders : u # t => sending'[u] = sending[u]
    BY <1>0, <2>2 DEF Begins, BeginSend
  <2>6. Fresh(t, m)' /\ sent'[t] > 0
    BY <1>0, <2>3, <2>4, MCBounds DEF Fresh, OwnNumber
  <2>7. \A u \in Senders : u # t =>
          (sending'[u].pc # "idle" => Fresh(u, sending[u].msg)' /\ sent'[u] > 0)
    BY <1>0, <2>4, <2>5 DEF Traffic, Fresh, OwnNumber
  <2>8. \A u \in Senders : (sending[u].pc # "idle" => Fresh(u, sending[u].msg) /\ sent[u] > 0)'
    BY <2>5, <2>6, <2>7
  <2> QED
    BY <2>8 DEF Traffic
<1>2. ASSUME UNCHANGED sent,
             \A u \in Senders : sending'[u].pc # "idle" =>
               sending[u].pc # "idle" /\ sending'[u].msg = sending[u].msg
      PROVE  Traffic'
  BY <1>2 DEF Traffic, Fresh, OwnNumber
<1>3. CASE \E t \in Senders : BeginPush(t) /\ UNCHANGED sent
  <2>1. PICK t \in Senders : BeginPush(t)
    BY <1>3
  <2>2. PICK r \in BOOLEAN : sending' = [sending EXCEPT ![t].pc = "push", ![t].recentres = r]
    BY <2>1 DEF BeginPush
  <2>3. sending[t].pc = "chosen"
    BY <2>1 DEF BeginPush
  <2> QED
    BY <1>0, <1>2, <1>3, <2>2, <2>3
<1>4. CASE \E t \in Senders : EndPush(t) /\ UNCHANGED sent
  BY <1>0, <1>2, <1>4 DEF EndPush, Idle
<1>5. CASE UNCHANGED <<sending, sent>>
  BY <1>2, <1>5
<1>6. ServiceStep \/ UNCHANGED busVars => UNCHANGED sending
  BY DEF ServiceStep, TakeFront, TakeStray, BeginPop, EndPop, Deliver, Signal, busVars
<1> QED
  BY Kinds, <1>1, <1>3, <1>4, <1>5, <1>6

-----------------------------------------------------------------------------
(* The messages of the queue after each operation of the deque.              *)
LEMMA QueueOperations ==
  ASSUME NEW q \in Seq(Message), NEW x \in Message
  PROVE  /\ Len(q) \in Nat /\ DOMAIN q = 1 .. Len(q)
         /\ Append(q, x) \in Seq(Message) /\ <<x>> \o q \in Seq(Message)
         /\ DOMAIN Append(q, x) = 1 .. Len(q) + 1
         /\ \A k \in 1 .. Len(q) : Append(q, x)[k] = q[k]
         /\ Append(q, x)[Len(q) + 1] = x
         /\ DOMAIN (<<x>> \o q) = 1 .. Len(q) + 1
         /\ (<<x>> \o q)[1] = x
         /\ \A k \in 1 .. Len(q) : (<<x>> \o q)[k + 1] = q[k]
<1>1. <<x>> \in Seq(Message) /\ Len(<<x>>) = 1 /\ <<x>>[1] = x
  OBVIOUS
<1>2. /\ DOMAIN (<<x>> \o q) = 1 .. Len(q) + 1
      /\ (<<x>> \o q)[1] = x
      /\ \A k \in 1 .. Len(q) : (<<x>> \o q)[k + 1] = q[k]
  BY <1>1
<1> QED
  BY <1>2

LEMMA QueueTail ==
  ASSUME NEW q \in Seq(Message), q # <<>>
  PROVE  /\ Len(q) \in Nat \ {0} /\ DOMAIN q = 1 .. Len(q) /\ Head(q) = q[1]
         /\ Head(q) \in Message /\ Tail(q) \in Seq(Message)
         /\ DOMAIN Tail(q) = 1 .. Len(q) - 1
         /\ \A k \in 1 .. Len(q) - 1 : Tail(q)[k] = q[k + 1]
         /\ \A k \in DOMAIN Tail(q) : k + 1 \in DOMAIN q /\ Tail(q)[k] = q[k + 1]
OBVIOUS

(* A message is put into a queue at one end; the others keep their order.    *)
LEMMA QueuePut ==
  ASSUME NEW q \in Seq(Message), NEW x \in Message, NEW r,
         r = <<x>> \o q \/ r = Append(q, x)
  PROVE  /\ r \in Seq(Message)
         /\ \A i \in DOMAIN r : r[i] = x \/ \E k \in DOMAIN q : r[i] = q[k]
<1>1. CASE r = Append(q, x)
  <2>1. \A i \in DOMAIN r : i \in DOMAIN q \/ i = Len(q) + 1
    BY <1>1, QueueOperations
  <2> QED
    BY <1>1, <2>1, QueueOperations
<1>2. CASE r = <<x>> \o q
  <2>1. \A i \in DOMAIN r : i = 1 \/ (i - 1 \in 1 .. Len(q) /\ i = (i - 1) + 1)
    BY <1>2, QueueOperations
  <2>2. \A k \in DOMAIN q : r[k + 1] = q[k]
    BY <1>2, QueueOperations
  <2> QED
    BY <1>2, <2>1, <2>2, QueueOperations
<1> QED
  BY <1>1, <1>2

LEMMA Singleton ==
  ASSUME NEW x \in Message
  PROVE  <<x>> \in Seq(Message) /\ DOMAIN <<x>> = {1} /\ <<x>>[1] = x
OBVIOUS

-----------------------------------------------------------------------------
(* What is known stays so when SendMessage returns once more.                *)
LEMMA KnownGrows ==
  ASSUME NEW q \in Seq(Message), NEW f \in Int, NEW g \in Int, f <= g, AllKnown(q, f)
  PROVE  AllKnown(q, g)
<1>1. \A i \in DOMAIN q : q[i] \in Message
  OBVIOUS
<1>2. \A x \in Message : x.body \in Int
  BY MCBounds, MCBodies DEF Message
<1> QED
  BY <1>1, <1>2 DEF AllKnown, Known

LEMMA KnownPut ==
  ASSUME NEW q \in Seq(Message), NEW x \in Message, NEW r,
         r = <<x>> \o q \/ r = Append(q, x), NEW f, AllKnown(q, f), Known(x, f)
  PROVE  AllKnown(r, f)
BY QueuePut DEF AllKnown

LEMMA FinishedType ==
  ASSUME Counts PROVE Finished \in Int /\ sent[COMMUNICATIONSERVICE] \in Nat
BY DEF Counts, Finished, Senders

(* How many SendMessage calls for the server have returned after each step.  *)
LEMMA FinishedAfter ==
  ASSUME BusInv, Counts, NEW t \in Senders
  PROVE  /\ Quiet => Finished' = Finished
         /\ \A m \in Outgoing(t) : Enters(t, m) => Finished' = Finished
         /\ Returns(t) => IF t = COMMUNICATIONSERVICE
                            THEN Finished' = sent[t] /\ Finished = sent[t] - 1
                            ELSE Finished' = Finished
         /\ UNCHANGED <<sending, sent>> => Finished' = Finished
<1>0. sending \in [Senders -> Sending] /\ sent \in [Senders -> Nat]
      /\ COMMUNICATIONSERVICE \in Senders
  BY DEF BusInv, BusTypeOK, Sending, Counts, Senders
<1>1. Quiet => Finished' = Finished
  BY <1>0 DEF Quiet, Finished
<1>2. ASSUME NEW m \in Outgoing(t), Enters(t, m) PROVE Finished' = Finished
  <2>1. /\ sending[t].pc = "idle" /\ sending'[t].pc = "chosen"
        /\ \A u \in Senders : u # t => sending'[u] = sending[u]
    BY <1>0, <1>2 DEF Enters, Begins, BeginSend
  <2>2. sent'[t] = sent[t] + 1 /\ \A u \in Senders : u # t => sent'[u] = sent[u]
    BY <1>0, <1>2 DEF Enters, Begins
  <2> QED
    BY <1>0, <2>1, <2>2 DEF Finished
<1>3. Returns(t) => IF t = COMMUNICATIONSERVICE
                      THEN Finished' = sent[t] /\ Finished = sent[t] - 1
                      ELSE Finished' = Finished
  BY <1>0 DEF Returns, Finished, Idle
<1>4. UNCHANGED <<sending, sent>> => Finished' = Finished
  BY DEF Finished
<1> QED
  BY <1>1, <1>2, <1>3, <1>4

(* The queues after each kind of step.                                       *)
LEMMA SentKept ==
  ASSUME BusInv, Counts, Traffic, Sent, [MCNext]_mcVars, ~damaged'
  PROVE  Sent'
<1>0. /\ serviceQueue \in Seq(Message) /\ receiveQueue \in [Tasks -> Seq(Message)]
      /\ ~damaged /\ Hand \in Seq(Message)
  BY HandType, UndamagedKinds DEF BusInv, BusTypeOK
<1>1. ASSUME UNCHANGED <<serviceQueue, receiveQueue, Hand>>, Finished' = Finished PROVE Sent'
  BY <1>1 DEF Sent
<1>2. CASE Quiet
  BY <1>1, <1>2, FinishedAfter DEF Quiet, Senders
<1>3. CASE \E t \in Senders : \E m \in Outgoing(t) : Enters(t, m)
  BY <1>1, <1>3, FinishedAfter DEF Enters
<1>4. CASE \E t \in Senders : Returns(t)
  <2>1. PICK t \in Senders : Returns(t)
    BY <1>4
  <2>2. Fresh(t, sending[t].msg) /\ sending[t].msg \in Message
    BY <2>1 DEF Returns, Traffic, Fresh
  <2>3. Finished \in Int /\ Finished' \in Int /\ Finished <= Finished'
    BY <2>1, FinishedAfter, FinishedType
  <2>4. Known(sending[t].msg, Finished')
    <3>1. CASE t = COMMUNICATIONSERVICE
      BY <2>1, <2>2, <3>1, FinishedAfter, FinishedType DEF Known, Fresh, OwnNumber
    <3>2. CASE t # COMMUNICATIONSERVICE
      BY <2>2, <3>2 DEF Known, Fresh, FromServer
    <3> QED
      BY <3>1, <3>2
  <2>5. PICK f \in Int : f = Finished'
    BY <2>3
  <2>6. /\ AllKnown(serviceQueue, f) /\ AllKnown(Hand, f)
        /\ \A u \in Tasks : AllKnown(receiveQueue[u], f)
    BY <1>0, <2>3, <2>5, KnownGrows DEF Sent
  <2>7. AllKnown(serviceQueue', f)
    BY <1>0, <2>1, <2>2, <2>4, <2>5, <2>6, KnownPut DEF Returns
  <2> QED
    BY <2>1, <2>5, <2>6, <2>7 DEF Returns, Sent
<1>5. CASE Popped
  <2>1. Finished' = Finished /\ UNCHANGED receiveQueue
    BY <1>5, FinishedAfter DEF Popped, Senders
  <2>2. AllKnown(Tail(serviceQueue), Finished) /\ Known(Head(serviceQueue), Finished)
    BY <1>0, <1>5, QueueTail DEF Popped, Sent, AllKnown
  <2>3. AllKnown(<<Head(serviceQueue)>>, Finished)
    BY <1>0, <1>5, <2>2, QueueTail, Singleton DEF Popped, AllKnown
  <2> QED
    BY <1>5, <2>1, <2>2, <2>3 DEF Popped, Sent
<1>6. CASE \E m \in Message : Delivered(m)
  <2>1. PICK m \in Message : Delivered(m)
    BY <1>6
  <2>2. Finished' = Finished /\ UNCHANGED serviceQueue /\ AllKnown(<<>>, Finished)
    BY <2>1, FinishedAfter DEF Delivered, Senders, AllKnown
  <2>3. Known(m, Finished)
    BY <2>1, Singleton DEF Delivered, Sent, AllKnown
  <2>4. ASSUME NEW u \in Tasks PROVE AllKnown(receiveQueue'[u], Finished)
    <3>1. CASE receiveQueue'[u] = receiveQueue[u]
      BY <3>1 DEF Sent
    <3>2. CASE receiveQueue'[u] = Append(receiveQueue[u], m)
      BY <1>0, <2>3, <3>2, KnownPut DEF Sent
    <3> QED
      BY <1>0, <2>1, <3>1, <3>2 DEF Delivered
  <2> QED
    BY <2>1, <2>2, <2>4 DEF Delivered, Sent
<1> QED
  BY <1>2, <1>3, <1>4, <1>5, <1>6, UndamagedKinds

-----------------------------------------------------------------------------
(* The order of a queue and another after each operation of the deque.       *)
LEMMA OrderPut ==
  ASSUME NEW p, NEW q \in Seq(Message), NEW x \in Message, NEW r,
         r = <<x>> \o q \/ r = Append(q, x)
  PROVE  /\ Before(p, q) /\ (\A i \in DOMAIN p : Earlier(p[i], x)) => Before(p, r)
         /\ Before(q, p) /\ (\A i \in DOMAIN p : Earlier(x, p[i])) => Before(r, p)
BY QueuePut DEF Before

LEMMA SortedAppend ==
  ASSUME NEW q \in Seq(Message), NEW x \in Message, Sorted(q),
         \A i \in DOMAIN q : Earlier(q[i], x)
  PROVE  Sorted(Append(q, x))
<1> DEFINE r == Append(q, x)
<1>1. /\ Len(q) \in Nat /\ DOMAIN q = 1 .. Len(q) /\ DOMAIN r = 1 .. Len(q) + 1
      /\ \A k \in 1 .. Len(q) : r[k] = q[k]
      /\ r[Len(q) + 1] = x
  BY QueueOperations
<1> HIDE DEF r
<1>2. ASSUME NEW i \in DOMAIN r, NEW j \in DOMAIN r, i < j PROVE Earlier(r[i], r[j])
  <2>1. i \in 1 .. Len(q) /\ (j \in 1 .. Len(q) \/ j = Len(q) + 1)
    BY <1>1, <1>2
  <2> QED
    BY <1>1, <1>2, <2>1 DEF Sorted
<1> QED
  BY <1>2 DEF Sorted, r

LEMMA SortedPush ==
  ASSUME NEW q \in Seq(Message), NEW x \in Message, Sorted(q),
         \A i \in DOMAIN q : Earlier(x, q[i])
  PROVE  Sorted(<<x>> \o q)
<1> DEFINE r == <<x>> \o q
<1>1. /\ Len(q) \in Nat /\ DOMAIN q = 1 .. Len(q) /\ DOMAIN r = 1 .. Len(q) + 1 /\ r[1] = x
      /\ \A k \in 1 .. Len(q) : r[k + 1] = q[k]
  BY QueueOperations
<1> HIDE DEF r
<1>2. ASSUME NEW i \in DOMAIN r, NEW j \in DOMAIN r, i < j PROVE Earlier(r[i], r[j])
  <2>1. j - 1 \in DOMAIN q /\ r[j] = q[j - 1]
    <3>1. j - 1 \in 1 .. Len(q) /\ (j - 1) + 1 = j
      BY <1>1, <1>2
    <3> QED
      BY <1>1, <3>1
  <2>2. CASE i = 1
    BY <1>1, <2>1, <2>2
  <2>3. CASE i # 1
    <3>1. i - 1 \in 1 .. Len(q) /\ (i - 1) + 1 = i /\ i - 1 < j - 1
      BY <1>1, <1>2, <2>3
    <3>2. r[i] = q[i - 1]
      BY <1>1, <3>1
    <3> QED
      BY <1>1, <2>1, <3>1, <3>2 DEF Sorted
  <2> QED
    BY <2>2, <2>3
<1> QED
  BY <1>2 DEF Sorted, r

LEMMA OrderTail ==
  ASSUME NEW q \in Seq(Message), q # <<>>, Sorted(q)
  PROVE  /\ Sorted(Tail(q))
         /\ \A k \in DOMAIN Tail(q) : Earlier(Head(q), Tail(q)[k])
         /\ \A p : Before(p, q) => /\ Before(p, Tail(q))
                                   /\ \A i \in DOMAIN p : Earlier(p[i], Head(q))
<1> DEFINE r == Tail(q)
<1>1. /\ Len(q) \in Nat \ {0} /\ DOMAIN q = 1 .. Len(q) /\ Head(q) = q[1]
      /\ DOMAIN r = 1 .. Len(q) - 1
      /\ \A k \in DOMAIN r : k + 1 \in DOMAIN q /\ r[k] = q[k + 1]
  BY QueueTail
<1> HIDE DEF r
<1>2. Sorted(r)
  <2> SUFFICES ASSUME NEW i \in DOMAIN r, NEW j \in DOMAIN r, i < j PROVE Earlier(r[i], r[j])
    BY DEF Sorted
  <2>1. i + 1 < j + 1
    BY <1>1
  <2> QED
    BY <1>1, <2>1 DEF Sorted
<1>3. ASSUME NEW k \in DOMAIN r PROVE Earlier(Head(q), r[k])
  <2>1. 1 \in DOMAIN q /\ 1 < k + 1
    BY <1>1
  <2> QED
    BY <1>1, <2>1 DEF Sorted
<1>4. ASSUME NEW p, Before(p, q)
      PROVE  Before(p, r) /\ \A i \in DOMAIN p : Earlier(p[i], Head(q))
  <2>1. 1 \in DOMAIN q
    BY <1>1
  <2> QED
    BY <1>1, <1>4, <2>1 DEF Before
<1> QED
  BY <1>2, <1>3, <1>4 DEF r

(* A command of the server goes to the front only of an empty queue: its     *)
(* priority is the lowest, and the comparison was not misled.                *)
LEMMA FrontOfEmpty ==
  ASSUME BusInv, Counts, NEW m \in Outgoing(COMMUNICATIONSERVICE),
         Enters(COMMUNICATIONSERVICE, m), ~FrontChanges(COMMUNICATIONSERVICE),
         sending'[COMMUNICATIONSERVICE].end = "front"
  PROVE  serviceQueue = <<>>
<1> DEFINE t == COMMUNICATIONSERVICE
<1>1. t \in Senders /\ sending \in [Senders -> Sending]
  BY DEF Senders, BusInv, BusTypeOK, Sending
<1>2. PICK e \in Ends(t, m) :
        sending' = [sending EXCEPT ![t] =
                      [pc |-> "chosen", msg |-> m, end |-> e, recentres |-> FALSE]]
  BY DEF Enters, Begins, BeginSend
<1>3. e = "front"
  BY <1>1, <1>2
<1>4. m.priority = 2
  BY <1>1, Outgoings DEF Enters, Begins
<1>5. CASE serviceQueue # <<>>
  <2>1. Head(serviceQueue).priority > m.priority
    BY <1>3, <1>5 DEF Ends, ReadsAnything
  <2>2. Head(serviceQueue) \in Message
    BY <1>5, QueueTail DEF BusInv, BusTypeOK
  <2> QED
    BY <1>4, <2>1, <2>2 DEF Message
<1> QED
  BY <1>5

(* Whatever was sent before was handed over to SendMessage before.           *)
LEMMA FreshIsLast ==
  ASSUME Counts, Traffic, BusInv, NEW t \in Senders, Returns(t),
         NEW q \in Seq(Message), AllKnown(q, Finished), NEW i \in DOMAIN q
  PROVE  Earlier(q[i], sending[t].msg)
<1>1. Fresh(t, sending[t].msg)
  BY DEF Returns, Traffic
<1>2. CASE t = COMMUNICATIONSERVICE
  <2>1. sending[t].msg.body = sent[t] /\ Finished = sent[t] - 1 /\ sent[t] \in Nat
    BY <1>1, <1>2, FinishedAfter, FinishedType DEF Fresh, OwnNumber
  <2>2. q[i] \in Message /\ (FromServer(q[i]) => q[i].body <= sent[t] - 1)
    BY <2>1 DEF AllKnown, Known
  <2>3. q[i].body \in Int
    BY <2>2, MCBounds, MCBodies DEF Message
  <2> QED
    BY <2>1, <2>2, <2>3 DEF Earlier
<1>3. CASE t # COMMUNICATIONSERVICE
  BY <1>1, <1>3 DEF Fresh, Earlier, FromServer
<1> QED
  BY <1>2, <1>3

(* Nobody has compared priorities while the front was changing.              *)
LEMMA NotMisled ==
  ASSUME BusInv, [MCNext]_mcVars, ~misled'
  PROVE  /\ ~misled
         /\ \A t \in Senders : \A m \in Outgoing(t) : Enters(t, m) => ~FrontChanges(t)
<1>1. ASSUME NEW t \in Senders, NEW m \in Outgoing(t), Enters(t, m)
      PROVE  sending[t].pc = "idle" /\ sending'[t].pc # "idle"
  BY <1>1 DEF Enters, Begins, BeginSend, BusInv, BusTypeOK
<1>2. CASE MCNext
  BY <1>1, <1>2 DEF MCNext, Misled
<1>3. CASE UNCHANGED mcVars
  BY <1>1, <1>3 DEF mcVars, busVars
<1> QED
  BY <1>2, <1>3

(* The commands of the server stay in order.                                 *)
LEMMA InOrderKept ==
  ASSUME BusInv, Counts, Traffic, Sent, InOrder, [MCNext]_mcVars, ~damaged', ~misled'
  PROVE  InOrder'
<1>0. /\ serviceQueue \in Seq(Message) /\ receiveQueue \in [Tasks -> Seq(Message)]
      /\ ~damaged /\ Hand \in Seq(Message) /\ COMMUNICATIONSERVICE \in Senders
      /\ sending \in [Senders -> Sending]
  BY HandType, UndamagedKinds DEF BusInv, BusTypeOK, Senders, Sending
<1>1. ASSUME UNCHANGED <<serviceQueue, receiveQueue, Hand>>, Passes' PROVE InOrder'
  BY <1>1 DEF InOrder
<1>2. CASE Quiet
  <2>1. Passes'
    BY <1>0, <1>2 DEF Quiet, InOrder, Passes
  <2> QED
    BY <1>1, <1>2, <2>1 DEF Quiet
<1>3. CASE \E t \in Senders : \E m \in Outgoing(t) : Enters(t, m)
  <2>1. PICK t \in Senders : \E m \in Outgoing(t) : Enters(t, m)
    BY <1>3
  <2>2. PICK m \in Outgoing(t) : Enters(t, m)
    BY <2>1
  <2>3. UNCHANGED <<serviceQueue, receiveQueue, Hand>>
    BY <2>2 DEF Enters
  <2>4. Passes'
    <3>1. CASE t = COMMUNICATIONSERVICE
      BY <2>2, <2>3, <3>1, FrontOfEmpty, NotMisled DEF Passes
    <3>2. CASE t # COMMUNICATIONSERVICE
      <4>1. sending'[COMMUNICATIONSERVICE] = sending[COMMUNICATIONSERVICE]
        BY <1>0, <2>2, <3>2 DEF Enters, Begins, BeginSend
      <4> QED
        BY <2>3, <4>1 DEF Passes, InOrder
    <3> QED
      BY <3>1, <3>2
  <2> QED
    BY <1>1, <2>3, <2>4
<1>4. CASE \E t \in Senders : Returns(t)
  <2>1. PICK t \in Senders : Returns(t)
    BY <1>4
  <2>2. PICK x \in Message : x = sending[t].msg /\ Fresh(t, x)
    BY <2>1 DEF Returns, Traffic, Fresh
  <2>3. serviceQueue' = <<x>> \o serviceQueue \/ serviceQueue' = Append(serviceQueue, x)
    BY <2>1, <2>2 DEF Returns
  <2>4. /\ \A i \in DOMAIN serviceQueue : Earlier(serviceQueue[i], x)
        /\ \A i \in DOMAIN Hand : Earlier(Hand[i], x)
        /\ \A u \in Tasks : \A i \in DOMAIN receiveQueue[u] : Earlier(receiveQueue[u][i], x)
    BY <1>0, <2>1, <2>2, FreshIsLast DEF Sent
  <2>5. Sorted(serviceQueue')
    <3>1. CASE sending[t].end = "front"
      <4>1. \A i \in DOMAIN serviceQueue : Earlier(x, serviceQueue[i])
        <5>1. CASE t = COMMUNICATIONSERVICE
          BY <2>1, <3>1, <5>1 DEF Returns, InOrder, Passes, Earlier
        <5>2. CASE t # COMMUNICATIONSERVICE
          BY <2>2, <5>2 DEF Fresh, Earlier, FromServer
        <5> QED
          BY <5>1, <5>2
      <4> QED
        BY <1>0, <2>1, <2>2, <3>1, <4>1, SortedPush DEF Returns, InOrder
    <3>2. CASE sending[t].end # "front"
      BY <1>0, <2>1, <2>2, <2>4, <3>2, SortedAppend DEF Returns, InOrder
    <3> QED
      BY <3>1, <3>2
  <2>6. Before(Hand, serviceQueue')
    BY <1>0, <2>3, <2>4, OrderPut DEF InOrder
  <2>7. \A u \in Tasks : Before(receiveQueue[u], serviceQueue')
    BY <1>0, <2>3, <2>4, OrderPut DEF InOrder
  <2>8. Passes'
    <3>1. CASE t = COMMUNICATIONSERVICE
      BY <1>0, <2>1, <3>1 DEF Returns, Passes, Idle
    <3>2. CASE t # COMMUNICATIONSERVICE
      <4>1. sending'[COMMUNICATIONSERVICE] = sending[COMMUNICATIONSERVICE]
        BY <1>0, <2>1, <3>2 DEF Returns
      <4>2. ~FromServer(x)
        BY <2>2, <3>2 DEF Fresh, FromServer
      <4>3. \A i \in DOMAIN serviceQueue' :
              serviceQueue'[i] = x \/ \E k \in DOMAIN serviceQueue : serviceQueue'[i] = serviceQueue[k]
        <5>1. PICK r : r = serviceQueue'
          OBVIOUS
        <5>2. \A i \in DOMAIN r : r[i] = x \/ \E k \in DOMAIN serviceQueue : r[i] = serviceQueue[k]
          BY <1>0, <2>3, <5>1, QueuePut
        <5> QED
          BY <5>1, <5>2
      <4> QED
        BY <4>1, <4>2, <4>3 DEF Passes, InOrder
    <3> QED
      BY <3>1, <3>2
  <2>9. UNCHANGED <<Hand, receiveQueue>>
    BY <2>1 DEF Returns
  <2> QED
    BY <2>5, <2>6, <2>7, <2>8, <2>9 DEF InOrder
<1>5. CASE Popped
  <2>1. PICK x \in Message : x = Head(serviceQueue) /\ Hand' = <<x>>
    BY <1>0, <1>5, QueueTail DEF Popped
  <2>2. /\ Sorted(serviceQueue')
        /\ \A k \in DOMAIN serviceQueue' : Earlier(x, serviceQueue'[k])
        /\ \A u \in Tasks : /\ Before(receiveQueue[u], serviceQueue')
                            /\ \A i \in DOMAIN receiveQueue[u] : Earlier(receiveQueue[u][i], x)
    BY <1>0, <1>5, <2>1, OrderTail DEF Popped, InOrder
  <2>3. DOMAIN Hand' = {1} /\ Hand'[1] = x
    BY <2>1, Singleton
  <2>4. Before(Hand', serviceQueue') /\ \A u \in Tasks : Before(receiveQueue[u], Hand')
    BY <2>2, <2>3 DEF Before
  <2>5. Passes'
    <3>1. \A k \in DOMAIN serviceQueue' :
            k + 1 \in DOMAIN serviceQueue /\ serviceQueue'[k] = serviceQueue[k + 1]
      BY <1>0, <1>5, QueueTail DEF Popped
    <3> QED
      BY <1>5, <3>1 DEF Popped, Passes, InOrder
  <2> QED
    BY <1>5, <2>2, <2>4, <2>5 DEF Popped, InOrder
<1>6. CASE \E m \in Message : Delivered(m)
  <2>1. PICK m \in Message : Delivered(m)
    BY <1>6
  <2>2. DOMAIN Hand = {1} /\ Hand[1] = m /\ DOMAIN Hand' = {}
    BY <2>1, Singleton DEF Delivered
  <2>3. /\ \A k \in DOMAIN serviceQueue : Earlier(m, serviceQueue[k])
        /\ \A u \in Tasks : \A i \in DOMAIN receiveQueue[u] : Earlier(receiveQueue[u][i], m)
    BY <2>2 DEF InOrder, Before
  <2>4. ASSUME NEW u \in Tasks
        PROVE  Sorted(receiveQueue'[u]) /\ Before(receiveQueue'[u], serviceQueue)
    <3>1. CASE receiveQueue'[u] = receiveQueue[u]
      BY <3>1 DEF InOrder
    <3>2. CASE receiveQueue'[u] = Append(receiveQueue[u], m)
      <4>1. receiveQueue[u] \in Seq(Message) /\ Sorted(receiveQueue[u])
            /\ Before(receiveQueue[u], serviceQueue)
        BY <1>0 DEF InOrder
      <4>2. Sorted(Append(receiveQueue[u], m))
        BY <2>3, <4>1, SortedAppend
      <4>3. Before(Append(receiveQueue[u], m), serviceQueue)
        BY <2>3, <4>1, OrderPut
      <4> QED
        BY <3>2, <4>2, <4>3
    <3> QED
      BY <1>0, <2>1, <3>1, <3>2 DEF Delivered
  <2>5. Before(Hand', serviceQueue) /\ \A u \in Tasks : Before(receiveQueue'[u], Hand')
    BY <2>2 DEF Before
  <2>6. Passes'
    BY <2>1 DEF Delivered, Passes, InOrder
  <2> QED
    BY <2>1, <2>4, <2>5, <2>6 DEF Delivered, InOrder
<1> QED
  BY <1>2, <1>3, <1>4, <1>5, <1>6, UndamagedKinds

-----------------------------------------------------------------------------
(* How often a message occurs in a queue, and what each operation of the     *)
(* deque adds to that.                                                       *)
Positions(n, q) == {i \in DOMAIN q : q[i].body = n}

Bit(n, x) == IF x.body = n THEN 1 ELSE 0

LEMMA OccurrencesType ==
  ASSUME NEW n, NEW q \in Seq(Message)
  PROVE  /\ IsFiniteSet(Positions(n, q)) /\ Occurrences(n, q) \in Nat
         /\ Occurrences(n, q) = Cardinality(Positions(n, q))
<1>1. IsFiniteSet(1 .. Len(q)) /\ DOMAIN q = 1 .. Len(q)
  BY FS_Interval
<1>2. Positions(n, q) \in SUBSET (1 .. Len(q))
  BY <1>1 DEF Positions
<1>3. IsFiniteSet(Positions(n, q))
  BY <1>1, <1>2, FS_Subset
<1> QED
  BY <1>3, FS_CardinalityType DEF Occurrences, Positions

LEMMA OccurrencesEmpty == \A n : Occurrences(n, <<>>) = 0
<1>1. \A n : {i \in DOMAIN <<>> : <<>>[i].body = n} = {}
  OBVIOUS
<1> QED
  BY <1>1, FS_EmptySet DEF Occurrences

(* Two queues whose positions differ by at most one.                         *)
LEMMA OccurrencesCompared ==
  ASSUME NEW n, NEW q \in Seq(Message), NEW r \in Seq(Message), NEW x, NEW k,
         k \notin Positions(n, q),
         Positions(n, r) = Positions(n, q) \cup {i \in {k} : x.body = n}
  PROVE  Occurrences(n, r) = Occurrences(n, q) + Bit(n, x)
<1>1. /\ IsFiniteSet(Positions(n, q)) /\ Occurrences(n, q) \in Nat
      /\ Occurrences(n, q) = Cardinality(Positions(n, q))
      /\ Occurrences(n, r) = Cardinality(Positions(n, r))
  BY OccurrencesType
<1>2. CASE x.body = n
  <2>1. Positions(n, r) = Positions(n, q) \cup {k} /\ Bit(n, x) = 1
    BY <1>2 DEF Bit
  <2>2. Cardinality(Positions(n, r)) = Cardinality(Positions(n, q)) + 1
    BY <1>1, <2>1, FS_AddElement
  <2> QED
    BY <1>1, <2>1, <2>2
<1>3. CASE x.body # n
  <2>1. Positions(n, r) = Positions(n, q) /\ Bit(n, x) = 0
    BY <1>3 DEF Bit
  <2>2. Occurrences(n, r) = Occurrences(n, q)
    BY <1>1, <2>1
  <2> QED
    BY <1>1, <2>1, <2>2
<1> QED
  BY <1>2, <1>3

LEMMA OccurrencesAppend ==
  ASSUME NEW n, NEW q \in Seq(Message), NEW x \in Message
  PROVE  Occurrences(n, Append(q, x)) = Occurrences(n, q) + Bit(n, x)
<1> DEFINE r == Append(q, x)
<1>1. /\ Len(q) \in Nat /\ DOMAIN q = 1 .. Len(q) /\ DOMAIN r = 1 .. Len(q) + 1
      /\ \A k \in 1 .. Len(q) : r[k] = q[k]
      /\ r[Len(q) + 1] = x
  BY QueueOperations
<1>2. r \in Seq(Message)
  OBVIOUS
<1> HIDE DEF r
<1>3. Len(q) + 1 \notin Positions(n, q)
  BY <1>1 DEF Positions
<1>4. Positions(n, r) = Positions(n, q) \cup {i \in {Len(q) + 1} : x.body = n}
  BY <1>1 DEF Positions
<1>5. Occurrences(n, r) = Occurrences(n, q) + Bit(n, x)
  BY <1>2, <1>3, <1>4, OccurrencesCompared
<1> QED
  BY <1>5 DEF r

LEMMA OccurrencesPush ==
  ASSUME NEW n, NEW q \in Seq(Message), NEW x \in Message
  PROVE  Occurrences(n, <<x>> \o q) = Bit(n, x) + Occurrences(n, q)
<1> DEFINE r == <<x>> \o q
           S == Positions(n, q)
           T == {i + 1 : i \in S}
<1>1. r \in Seq(Message)
  OBVIOUS
<1>2. IsFiniteSet(S) /\ S \subseteq Nat \ {0} /\ Cardinality(S) \in Nat
  <2>1. S \subseteq Nat \ {0}
    BY DEF Positions
  <2>2. IsFiniteSet(S)
    BY OccurrencesType
  <2> QED
    BY <2>1, <2>2, FS_CardinalityType
<1>3. IsFiniteSet(T) /\ Cardinality(T) = Cardinality(S) /\ 1 \notin T
  <2> DEFINE f == [i \in S |-> i + 1]
  <2> HIDE DEF S
  <2>1. f \in [S -> T] /\ \A t \in T : \E i \in S : f[i] = t
    OBVIOUS
  <2>2. \A i, j \in S : f[i] = f[j] => i = j
    BY <1>2
  <2> HIDE DEF f
  <2>3. f \in Surjection(S, T)
    BY <2>1 DEF Surjection
  <2>4. f \in Injection(S, T)
    BY <2>1, <2>2 DEF Injection, IsInjective
  <2>5. IsFiniteSet(T) /\ Cardinality(T) = Cardinality(S)
    BY <1>2, <2>3, <2>4, FS_Surjection
  <2> QED
    BY <1>2, <2>5
<1>4. Positions(n, r) = T \cup {i \in {1} : x.body = n}
  <2> DEFINE P(y) == y.body = n
  <2>1. /\ DOMAIN r = 1 .. Len(q) + 1 /\ r[1] = x /\ DOMAIN q = 1 .. Len(q) /\ Len(q) \in Nat
        /\ \A k \in 1 .. Len(q) : r[k + 1] = q[k]
    BY QueueOperations
  <2> HIDE DEF r, P
  <2>2. \A i : i \in 1 .. Len(q) + 1 <=> i = 1 \/ \E k \in 1 .. Len(q) : i = k + 1
    <3>1. ASSUME NEW i \in 1 .. Len(q) + 1, i # 1
          PROVE  \E k \in 1 .. Len(q) : i = k + 1
      <4>1. i - 1 \in 1 .. Len(q) /\ i = (i - 1) + 1
        BY <2>1, <3>1
      <4> QED
        BY <4>1
    <3> QED
      BY <2>1, <3>1
  <2>3. {i \in DOMAIN r : P(r[i])} = {k + 1 : k \in {j \in DOMAIN q : P(q[j])}} \cup {i \in {1} : P(x)}
    BY <2>1, <2>2
  <2> QED
    BY <2>3 DEF Positions, P
<1>5. Occurrences(n, r) = Cardinality(Positions(n, r)) /\ Occurrences(n, q) = Cardinality(S)
  BY <1>1, OccurrencesType
<1> HIDE DEF r, T, S
<1>6. Occurrences(n, r) = Bit(n, x) + Occurrences(n, q)
  <2>1. CASE x.body = n
    <3>1. Positions(n, r) = T \cup {1} /\ Bit(n, x) = 1
      BY <1>4, <2>1 DEF Bit
    <3>2. Cardinality(Positions(n, r)) = Cardinality(T) + 1
      BY <1>3, <3>1, FS_AddElement
    <3> QED
      BY <1>2, <1>3, <1>5, <3>1, <3>2
  <2>2. CASE x.body # n
    <3>1. Positions(n, r) = T /\ Bit(n, x) = 0
      BY <1>4, <2>2 DEF Bit
    <3> QED
      BY <1>2, <1>3, <1>5, <3>1
  <2> QED
    BY <2>1, <2>2
<1> QED
  BY <1>6 DEF r

LEMMA OccurrencesTail ==
  ASSUME NEW n, NEW q \in Seq(Message), q # <<>>
  PROVE  Occurrences(n, q) = Bit(n, Head(q)) + Occurrences(n, Tail(q))
<1>1. Head(q) \in Message /\ Tail(q) \in Seq(Message)
  OBVIOUS
<1>2. q = <<Head(q)>> \o Tail(q)
  OBVIOUS
<1> QED
  BY <1>1, <1>2, OccurrencesPush

LEMMA OccurrencesSingle ==
  ASSUME NEW n, NEW x \in Message PROVE Occurrences(n, <<x>>) = Bit(n, x)
<1>1. <<>> \in Seq(Message) /\ Append(<<>>, x) = <<x>>
  OBVIOUS
<1>2. Occurrences(n, <<x>>) = 0 + Bit(n, x)
  BY <1>1, OccurrencesAppend, OccurrencesEmpty
<1> QED
  BY <1>2 DEF Bit

-----------------------------------------------------------------------------
(* The copies that are in a receive queue.                                   *)
Mailed(n) == Occurrences(n, receiveQueue[STREAMMANAGER])
               + Occurrences(n, receiveQueue[MOTORMANAGER])

CopiesCounted(n) ==
  /\ Copies(n) = Occurrences(n, serviceQueue) + Mailed(n) + Occurrences(n, Hand)
  /\ Occurrences(n, serviceQueue) \in Nat /\ Mailed(n) \in Nat
  /\ Occurrences(n, Hand) \in Nat

LEMMA CopiesAre ==
  ASSUME BusInv, ~damaged, NEW n PROVE CopiesCounted(n)
<1>1. Occurrences(n, serviceQueue) \in Nat
  BY OccurrencesType DEF BusInv, BusTypeOK
<1>2. \A t \in Tasks : Occurrences(n, receiveQueue[t]) \in Nat
  BY OccurrencesType DEF BusInv, BusTypeOK
<1>3. Occurrences(n, receiveQueue[STREAMMANAGER]) \in Nat
      /\ Occurrences(n, receiveQueue[MOTORMANAGER]) \in Nat
  BY <1>2 DEF Tasks
<1>4. Occurrences(n, Hand) \in Nat
  BY HandType, OccurrencesType
<1>5. Copies(n) = Occurrences(n, serviceQueue) + Occurrences(n, receiveQueue[STREAMMANAGER])
                    + Occurrences(n, receiveQueue[MOTORMANAGER]) + Occurrences(n, Hand)
  BY DEF Copies, Hand
<1> QED
  BY <1>1, <1>3, <1>4, <1>5 DEF CopiesCounted, Mailed

(* The numbers of the two senders are disjoint, and that of the message that *)
(* is being sent is the last.                                                *)
LEMMA Numbers ==
  ASSUME Counts, NEW t \in Senders, NEW n \in Nat
  PROVE  /\ sent[t] > 0 => OwnNumber(t) \in SentBy(t)
         /\ n \in SentBy(t) => \A u \in Senders : u # t => n \notin SentBy(u)
         /\ OwnNumber(t) + 1 \notin SentBy(t) /\ OwnNumber(t) \in Nat
<1>1. sent[t] \in Nat /\ sent[t] \in 1 .. sent[t] \cup {0}
  BY DEF Counts
<1>2. \A u \in Senders : sent[u] \in Nat /\ sent[u] <= Quota(u)
  BY DEF Counts
<1>3. \A u \in Senders : n \in SentBy(u) <=>
        n \in (IF u = COMMUNICATIONSERVICE THEN 1 .. sent[u] ELSE MaxServer + 1 .. MaxServer + sent[u])
  <2> SUFFICES ASSUME NEW u \in Senders
               PROVE  n \in SentBy(u) <=>
                        n \in (IF u = COMMUNICATIONSERVICE THEN 1 .. sent[u]
                               ELSE MaxServer + 1 .. MaxServer + sent[u])
    OBVIOUS
  <2>1. CASE u = COMMUNICATIONSERVICE
    BY <1>2, <2>1 DEF SentBy
  <2>2. CASE u # COMMUNICATIONSERVICE
    <3>1. n \in MaxServer + 1 .. MaxServer + sent[u] =>
            n - MaxServer \in 1 .. sent[u] /\ n = MaxServer + (n - MaxServer)
      BY <1>2, MCBounds
    <3> QED
      BY <1>2, <2>2, <3>1, MCBounds DEF SentBy
  <2> QED
    BY <2>1, <2>2
<1>4. n \in SentBy(t) => \A u \in Senders : u # t => n \notin SentBy(u)
  BY <1>2, <1>3, MCBounds DEF Quota, Senders
<1>5. sent[t] > 0 => OwnNumber(t) \in SentBy(t)
  BY <1>1, MCBounds DEF OwnNumber, SentBy
<1>6. OwnNumber(t) + 1 \notin SentBy(t) /\ OwnNumber(t) \in Nat
  BY <1>1, MCBounds DEF OwnNumber, SentBy
<1> QED
  BY <1>4, <1>5, <1>6

(* When a SendMessage returns, its message has arrived.                      *)
LEMMA Returned ==
  ASSUME BusInv, Counts, Traffic, NEW t \in Senders, Returns(t), NEW n \in Nat
  PROVE  /\ Arrived(n)' <=> Arrived(n) \/ n = sending[t].msg.body
         /\ n = sending[t].msg.body => ~Arrived(n)
<1>1. sending[t].msg.body = OwnNumber(t) /\ sent[t] > 0
  BY DEF Returns, Traffic, Fresh
<1>2. /\ sending[t].pc # "idle" /\ sending'[t].pc = "idle"
      /\ \A u \in Senders : u # t => sending'[u] = sending[u]
  BY DEF Returns, BusInv, BusTypeOK, Idle
<1>3. Pending(t) = {sending[t].msg.body} /\ Pending(t)' = {}
      /\ \A u \in Senders : u # t => Pending(u)' = Pending(u)
  BY <1>2 DEF Pending
<1>4. \A u \in Senders : SentBy(u)' = SentBy(u)
  BY DEF Returns, SentBy
<1>5. sending[t].msg.body \in SentBy(t)
  BY <1>1, Numbers
<1>6. n = sending[t].msg.body => \A u \in Senders : u # t => n \notin SentBy(u)
  BY <1>5, Numbers
<1> QED
  BY <1>3, <1>4, <1>5, <1>6 DEF Arrived

(* A message that is begun has not arrived.                                  *)
LEMMA Begun ==
  ASSUME BusInv, Counts, NEW t \in Senders, NEW m \in Outgoing(t), Begins(t, m), NEW n \in Nat
  PROVE  Arrived(n)' <=> Arrived(n)
<1>1. m.body = OwnNumber(t) + 1
  BY Outgoings, MCBounds DEF Begins, OwnNumber, Counts
<1>2. sending[t].pc = "idle" /\ sending'[t].pc = "chosen" /\ sending'[t].msg = m
      /\ \A u \in Senders : u # t => sending'[u] = sending[u]
  BY DEF Begins, BeginSend, BusInv, BusTypeOK
<1>3. Pending(t) = {} /\ Pending(t)' = {m.body}
      /\ \A u \in Senders : u # t => Pending(u)' = Pending(u)
  BY <1>2 DEF Pending
<1>4. sent'[t] = sent[t] + 1 /\ sent[t] \in Nat /\ \A u \in Senders : u # t => sent'[u] = sent[u]
  BY DEF Begins, Counts
<1>5. \A u \in Senders : u # t => SentBy(u)' = SentBy(u)
  BY <1>4 DEF SentBy
<1>6. SentBy(t)' = SentBy(t) \cup {m.body}
  BY <1>1, <1>4, MCBounds DEF SentBy, OwnNumber
<1>7. m.body \notin SentBy(t)
  BY <1>1, Numbers
<1> QED
  BY <1>3, <1>5, <1>6, <1>7 DEF Arrived

(* Every step keeps the number of copies of every message.                   *)
LEMMA ConservedKept ==
  ASSUME BusInv, BusInv', Counts, Traffic, Sent, Conserved, [MCNext]_mcVars, ~damaged'
  PROVE  Conserved'
<1> SUFFICES ASSUME NEW n \in Nat PROVE Copies(n)' = IF Arrived(n)' THEN 1 ELSE 0
  BY DEF Conserved
<1>0. /\ serviceQueue \in Seq(Message) /\ receiveQueue \in [Tasks -> Seq(Message)]
      /\ ~damaged /\ Copies(n) = IF Arrived(n) THEN 1 ELSE 0
  BY UndamagedKinds DEF BusInv, BusTypeOK, Conserved
<1>1. /\ Copies(n) = Occurrences(n, serviceQueue) + Mailed(n) + Occurrences(n, Hand)
      /\ Occurrences(n, serviceQueue) \in Nat /\ Mailed(n) \in Nat /\ Occurrences(n, Hand) \in Nat
  BY <1>0, CopiesAre DEF CopiesCounted
<1>2. /\ Copies(n)' = Occurrences(n, serviceQueue') + Mailed(n)' + Occurrences(n, Hand')
      /\ Occurrences(n, serviceQueue') \in Nat /\ Mailed(n)' \in Nat
      /\ Occurrences(n, Hand') \in Nat
  <2>1. (BusInv /\ ~damaged => CopiesCounted(n))'
    BY CopiesAre, PTL
  <2> QED
    BY <2>1 DEF CopiesCounted
<1>3. ASSUME UNCHANGED <<serviceQueue, receiveQueue, Hand>>, Arrived(n)' <=> Arrived(n)
      PROVE  Copies(n)' = IF Arrived(n)' THEN 1 ELSE 0
  BY <1>0, <1>1, <1>2, <1>3 DEF Mailed
<1>4. UNCHANGED <<sending, sent>> => (Arrived(n)' <=> Arrived(n))
  BY DEF Arrived, SentBy, Pending
<1>5. CASE Quiet
  <2>1. \A u \in Senders : Pending(u)' = Pending(u) /\ SentBy(u)' = SentBy(u)
    BY <1>5 DEF Quiet, Pending, SentBy
  <2> QED
    BY <1>3, <1>5, <2>1 DEF Quiet, Arrived
<1>6. CASE \E t \in Senders : \E m \in Outgoing(t) : Enters(t, m)
  BY <1>3, <1>6, Begun DEF Enters
<1>7. CASE \E t \in Senders : Returns(t)
  <2>1. PICK t \in Senders : Returns(t)
    BY <1>7
  <2>2. /\ Arrived(n)' <=> Arrived(n) \/ n = sending[t].msg.body
        /\ n = sending[t].msg.body => ~Arrived(n)
    BY <2>1, Returned
  <2>3. PICK x \in Message : x = sending[t].msg
    BY <2>1 DEF Returns, BusInv, BusTypeOK
  <2>4. Occurrences(n, serviceQueue') = Occurrences(n, serviceQueue) + Bit(n, x)
    <3>1. Occurrences(n, <<x>> \o serviceQueue) = Bit(n, x) + Occurrences(n, serviceQueue)
      BY <1>0, OccurrencesPush
    <3>2. Occurrences(n, Append(serviceQueue, x)) = Occurrences(n, serviceQueue) + Bit(n, x)
      BY <1>0, OccurrencesAppend
    <3>3. Bit(n, x) \in Nat
      BY DEF Bit
    <3> QED
      BY <1>1, <2>1, <2>3, <3>1, <3>2, <3>3 DEF Returns
  <2>5. Bit(n, x) = IF n = sending[t].msg.body THEN 1 ELSE 0
    BY <2>3 DEF Bit
  <2>6. Mailed(n)' = Mailed(n) /\ Hand' = Hand
    BY <2>1 DEF Returns, Mailed
  <2> QED
    BY <1>0, <1>1, <1>2, <2>2, <2>4, <2>5, <2>6
<1>8. CASE Popped
  <2>1. Head(serviceQueue) \in Message
    BY <1>0, <1>8, QueueTail DEF Popped
  <2>2. Occurrences(n, serviceQueue) = Bit(n, Head(serviceQueue)) + Occurrences(n, serviceQueue')
    BY <1>0, <1>8, OccurrencesTail DEF Popped
  <2>3. Occurrences(n, Hand) = 0 /\ Occurrences(n, Hand') = Bit(n, Head(serviceQueue))
    BY <1>8, <2>1, OccurrencesEmpty, OccurrencesSingle DEF Popped
  <2>4. Mailed(n)' = Mailed(n)
    BY <1>8 DEF Popped, Mailed
  <2> QED
    BY <1>0, <1>1, <1>2, <1>4, <1>8, <2>2, <2>3, <2>4 DEF Popped
<1>9. CASE \E m \in Message : Delivered(m)
  <2>1. PICK m \in Message : Delivered(m)
    BY <1>9
  <2>2. m.dest \in {STREAMMANAGER, MOTORMANAGER}
    BY <2>1, Singleton DEF Delivered, Sent, AllKnown, Known, Waiters
  <2>3. Occurrences(n, Hand) = Bit(n, m) /\ Occurrences(n, Hand') = 0
    BY <2>1, OccurrencesEmpty, OccurrencesSingle DEF Delivered
  <2>4. \A u \in Tasks :
          /\ Occurrences(n, Append(receiveQueue[u], m)) = Occurrences(n, receiveQueue[u]) + Bit(n, m)
          /\ Occurrences(n, receiveQueue[u]) \in Nat
    BY <1>0, OccurrencesAppend, OccurrencesType
  <2>5. Bit(n, m) \in Nat
    BY DEF Bit
  <2>6. Mailed(n)' = Mailed(n) + Bit(n, m)
    <3>1. CASE m.dest = STREAMMANAGER
      <4>1. receiveQueue'[STREAMMANAGER] = Append(receiveQueue[STREAMMANAGER], m)
            /\ receiveQueue'[MOTORMANAGER] = receiveQueue[MOTORMANAGER]
        BY <1>0, <2>1, <3>1 DEF Delivered, Tasks, STREAMMANAGER, MOTORMANAGER
      <4> QED
        BY <2>4, <2>5, <4>1 DEF Mailed, Tasks
    <3>2. CASE m.dest = MOTORMANAGER
      <4>1. receiveQueue'[MOTORMANAGER] = Append(receiveQueue[MOTORMANAGER], m)
            /\ receiveQueue'[STREAMMANAGER] = receiveQueue[STREAMMANAGER]
        BY <1>0, <2>1, <3>2 DEF Delivered, Tasks, STREAMMANAGER, MOTORMANAGER
      <4> QED
        BY <2>4, <2>5, <4>1 DEF Mailed, Tasks
    <3> QED
      BY <2>2, <3>1, <3>2
  <2> QED
    BY <1>0, <1>1, <1>2, <1>4, <2>1, <2>3, <2>5, <2>6 DEF Delivered
<1> QED
  BY <1>5, <1>6, <1>7, <1>8, <1>9, UndamagedKinds

-----------------------------------------------------------------------------
LEMMA InvInit == MCInit => Inv
<1> SUFFICES ASSUME MCInit PROVE Inv
  OBVIOUS
<1>1. BusInv
  BY BusInitInv DEF MCInit
<1>2. /\ serviceQueue = <<>> /\ Hand = <<>> /\ ~damaged
      /\ \A t \in Senders : sending[t].pc = "idle" /\ sent[t] = 0
      /\ \A t \in Tasks : receiveQueue[t] = <<>>
  BY DEF MCInit, BusInit, Idle, Hand
<1>3. Counts
  <2>1. \A t \in Senders : Quota(t) \in Nat
    BY MCBounds DEF Quota
  <2>2. sent = [t \in Senders |-> 0] /\ misled = FALSE /\ overlapped = FALSE
    BY DEF MCInit
  <2>3. sent \in [Senders -> Nat] /\ \A t \in Senders : sent[t] <= Quota(t)
    BY <2>1, <2>2
  <2>4. misled \in BOOLEAN /\ overlapped \in BOOLEAN
    BY <2>2
  <2> QED
    BY <2>3, <2>4 DEF Counts
<1>4. Traffic
  BY <1>2 DEF Traffic
<1>5. COMMUNICATIONSERVICE \in Senders /\ STREAMMANAGER \in Tasks /\ MOTORMANAGER \in Tasks
  BY DEF Senders, Tasks
<1>6. Sent /\ InOrder
  BY <1>2, <1>5 DEF Sent, AllKnown, InOrder, Sorted, Before, Passes
<1>7. Conserved
  <2> SUFFICES ASSUME NEW n \in Nat PROVE Copies(n) = IF Arrived(n) THEN 1 ELSE 0
    BY DEF Conserved
  <2>1. ~Arrived(n)
    BY <1>2 DEF Arrived, SentBy
  <2>2. Mailed(n) = 0 /\ Occurrences(n, Hand) = 0 /\ Occurrences(n, serviceQueue) = 0
    BY <1>2, <1>5, OccurrencesEmpty DEF Mailed
  <2> QED
    BY <1>1, <1>2, <2>1, <2>2, CopiesAre DEF CopiesCounted
<1> QED
  BY <1>1, <1>3, <1>4, <1>6, <1>7 DEF Inv

LEMMA InvStep == Inv /\ [MCNext]_mcVars => Inv'
<1> SUFFICES ASSUME Inv, [MCNext]_mcVars PROVE Inv'
  OBVIOUS
<1>1. BusInv' /\ Counts' /\ Traffic'
  BY BusKept, CountsKept, TrafficKept DEF Inv
<1>2. ~damaged' => ~damaged /\ Sent' /\ Conserved'
  BY <1>1, UndamagedKinds, SentKept, ConservedKept DEF Inv
<1>3. ~damaged' /\ ~misled' => InOrder'
  BY <1>2, NotMisled, InOrderKept DEF Inv
<1> QED
  BY <1>1, <1>2, <1>3 DEF Inv

(* The invariant of the bus under the traffic of its clients.                *)
THEOREM BusInvariance == MCSpec => []Inv
BY InvInit, InvStep, PTL DEF MCSpec

(* The bus is well-typed whatever its clients send and whatever the memory   *)
(* of a damaged deque shows: until two operations have raced, the service    *)
(* thread pops the very message it has copied with front, and hands over     *)
(* nothing but messages (QueueManager::SendServiceMessage).                  *)
THEOREM BusTypeCorrect == MCSpec => []BusTypeOK
<1>1. Inv => BusTypeOK
  BY DEF Inv, BusInv
<1> QED
  BY <1>1, BusInvariance, PTL

(* The commands of the server stay in their order on the way to a receive    *)
(* queue, also while the senders are inside SendMessage together, as long as *)
(* the deque is undamaged and nobody has compared priorities while its front *)
(* was changing (QueueManager::SendMessage, SendServiceMessage).             *)
THEOREM CommandsStayInOrder == MCSpec => []ServerOrder
<1>1. Inv => ServerOrder
  <2> SUFFICES ASSUME Inv, ~damaged, ~misled, NEW t \in Tasks,
                      NEW i \in DOMAIN receiveQueue[t], NEW j \in DOMAIN receiveQueue[t], i < j,
                      receiveQueue[t][i].priority = 2, receiveQueue[t][j].priority = 2
               PROVE  receiveQueue[t][i].body < receiveQueue[t][j].body
    BY DEF ServerOrder
  <2>1. Earlier(receiveQueue[t][i], receiveQueue[t][j])
    BY DEF Inv, InOrder, Sorted
  <2> QED
    BY <2>1 DEF Earlier, FromServer
<1> QED
  BY <1>1, BusInvariance, PTL

(* Operations on the deque may overlap: until two of them race, every        *)
(* message whose SendMessage has returned is in the queue, in the hands of   *)
(* the service thread or in a receive queue, exactly once.                   *)
THEOREM NothingLostOrRepeated == MCSpec => []ExactlyOnceUndamaged
<1>1. Inv => ExactlyOnceUndamaged
  <2> SUFFICES ASSUME Inv, ~damaged, NEW t \in Senders, NEW n \in SentBy(t) \ Pending(t)
               PROVE  Copies(n) = 1
    BY DEF ExactlyOnceUndamaged
  <2>1. n \in Nat
    BY MCBounds DEF SentBy
  <2>2. Arrived(n)
    BY DEF Arrived
  <2> QED
    BY <2>1, <2>2 DEF Inv, Conserved
<1> QED
  BY <1>1, BusInvariance, PTL
=============================================================================

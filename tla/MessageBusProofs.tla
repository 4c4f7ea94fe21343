--------------------------- MODULE MessageBusProofs ---------------------------
(* Type correctness of the message bus: one lemma per operation, each from   *)
(* the inductive BusInv to BusInv, for every set of bodies and whatever the  *)
(* memory of a damaged deque shows.                                          *)
EXTENDS MessageBus, SequenceTheorems, TLAPS

(* An undamaged deque is one in which no two operations race right now; this *)
(* is what makes the front that was copied the front that is popped.         *)
BusInv == BusTypeOK /\ (~damaged => ~Race)

Sending == [pc : {"idle", "chosen", "push"}, msg : Node, end : {"front", "back"},
            recentres : BOOLEAN]

ServicePCs == {"poll", "pop", "popping", "deliver", "signal"}

(* What an idle sender has is of the type of what a busy one has. *)
LEMMA IdleSending == Idle \in Sending
BY DEF Idle, Sending, Node

(* The parts that an operation touches follow from sending and service. *)
LEMMA RaceUnchanged == UNCHANGED <<sending, service>> => (Race' <=> Race)
BY DEF Race, Touched, ServiceTouched, Pushes

(* Only a push touches the deque, and one at the front touches the front. *)
LEMMA TouchedByPush ==
  ASSUME NEW t \in Senders
  PROVE  /\ ~Pushes(t) => Touched(t) = {}
         /\ Pushes(t) /\ sending[t].end = "front" => "front" \in Touched(t)
         /\ Touched(t) \subseteq {"front", "start", "finish"}
BY DEF Touched

(* What touches no more than before begins no race. *)
LEMMA NoNewRace ==
  ASSUME ~Race,
         \A t \in Senders : Touched(t)' \subseteq Touched(t),
         ServiceTouched' \subseteq ServiceTouched
  PROVE  ~Race'
BY DEF Race, Senders

(* While the deque is undamaged and the service thread has copied the front, *)
(* nobody pushes to the front.                                               *)
LEMMA FrontHeld ==
  ASSUME BusInv, ~damaged, service.pc \in {"pop", "popping"},
         NEW t \in Senders, Pushes(t)
  PROVE  sending[t].end # "front"
<1>1. "front" \in ServiceTouched
  BY DEF ServiceTouched
<1> QED
  BY <1>1, TouchedByPush DEF BusInv, Race

(* The bus starts in a well-typed state, without a race. *)
LEMMA BusInitInv == BusInit => BusInv
<1> SUFFICES ASSUME BusInit PROVE BusInv
  OBVIOUS
<1>1. sending \in [Senders -> Sending] /\ \A t \in Senders : sending[t].pc = "idle"
  BY IdleSending DEF BusInit, Idle
<1>2. ~Race
  <2>1. \A t \in Senders : Touched(t) = {}
    BY <1>1, TouchedByPush DEF Pushes
  <2> QED
    BY <2>1 DEF Race, Senders
<1>3. serviceQueue \in Seq(Message) /\ receiveQueue \in [Tasks -> Seq(Message)]
  BY DEF BusInit
<1>4. 0 \in 0 .. MaxStrays /\ Garbage \in Node
  BY RecycledAssumption DEF Node
<1> QED
  BY <1>1, <1>2, <1>3, <1>4 DEF BusInit, BusInv, BusTypeOK, Sending

(* SendMessage keeps the bus well-typed, whichever end it selects. *)
LEMMA BeginSendInv ==
  ASSUME BusInv, NEW t \in Senders, NEW m \in Message, BeginSend(t, m)
  PROVE  BusInv'
<1>1. PICK e \in {"front", "back"} :
        sending' = [sending EXCEPT ![t] =
                      [pc |-> "chosen", msg |-> m, end |-> e, recentres |-> FALSE]]
  BY DEF BeginSend, Ends
<1>2. m \in Node
  BY DEF Node
<1>3. sending \in [Senders -> Sending]
  BY DEF BusInv, BusTypeOK, Sending
<1>4. sending' \in [Senders -> Sending]
  BY <1>1, <1>2, <1>3 DEF Sending
<1>5. ~Race => ~Race'
  <2>1. \A u \in Senders : Touched(u)' \subseteq Touched(u)
    BY <1>1, <1>3 DEF Touched, Pushes
  <2>2. ServiceTouched' = ServiceTouched
    BY DEF BeginSend, ServiceTouched
  <2> QED
    BY <2>1, <2>2, NoNewRace
<1>6. \A u \in Senders : sending'[u].pc # "idle" => sending'[u].msg \in Message
  BY <1>1, <1>3 DEF BusInv, BusTypeOK
<1> QED
  BY <1>4, <1>5, <1>6 DEF BusInv, BusTypeOK, BeginSend, Sending

(* So does the beginning of a push: a race that it begins is noticed. *)
LEMMA BeginPushInv ==
  ASSUME BusInv, NEW t \in Senders, BeginPush(t)
  PROVE  BusInv'
<1>1. PICK r \in BOOLEAN :
        sending' = [sending EXCEPT ![t].pc = "push", ![t].recentres = r]
  BY DEF BeginPush
<1>2. sending \in [Senders -> Sending]
  BY DEF BusInv, BusTypeOK, Sending
<1>3. sending' \in [Senders -> Sending]
  BY <1>1, <1>2 DEF Sending
<1>4. \A u \in Senders : sending'[u].pc # "idle" => sending'[u].msg \in Message
  BY <1>1, <1>2 DEF BusInv, BusTypeOK, BeginPush
<1>5. (damaged' <=> damaged \/ Race') /\ damaged' \in BOOLEAN
  BY DEF BeginPush, Watched, BusInv, BusTypeOK
<1>6. serviceQueue' \in Seq(Message) /\ (~damaged' => serviceQueue' = serviceQueue)
  BY DEF BeginPush, Holds, BusInv, BusTypeOK
<1>7. UNCHANGED <<service, strays, receiveQueue, waiting>>
  BY DEF BeginPush
<1> QED
  BY <1>3, <1>4, <1>5, <1>6, <1>7 DEF BusInv, BusTypeOK, Sending

(* And its end: the front stays the front while the service thread needs it. *)
LEMMA EndPushInv ==
  ASSUME BusInv, NEW t \in Senders, EndPush(t)
  PROVE  BusInv'
<1>1. sending' = [sending EXCEPT ![t] = Idle] /\ Pushes(t)
  BY DEF EndPush, Pushes
<1>2. sending \in [Senders -> Sending]
  BY DEF BusInv, BusTypeOK, Sending
<1>3. sending' \in [Senders -> Sending]
  BY <1>1, <1>2, IdleSending
<1>4. \A u \in Senders : sending'[u].pc # "idle" => sending'[u].msg \in Message
  BY <1>1, <1>2 DEF BusInv, BusTypeOK, Idle
<1>5. UNCHANGED <<service, damaged, strays, receiveQueue, waiting>>
  BY DEF EndPush
<1>6. ~Race => ~Race'
  <2>1. \A u \in Senders : Touched(u)' \subseteq Touched(u)
    BY <1>1, <1>2 DEF Touched, Pushes, Idle
  <2>2. ServiceTouched' = ServiceTouched
    BY <1>5 DEF ServiceTouched
  <2> QED
    BY <2>1, <2>2, NoNewRace
<1>7. sending[t].msg \in Message /\ serviceQueue \in Seq(Message)
  BY <1>1 DEF BusInv, BusTypeOK, Pushes
<1>8. serviceQueue' \in Seq(Message)
  <2>1. <<sending[t].msg>> \o serviceQueue \in Seq(Message)
    BY <1>7
  <2>2. Append(serviceQueue, sending[t].msg) \in Seq(Message)
    BY <1>7, AppendProperties
  <2> QED
    BY <2>1, <2>2 DEF EndPush, Holds
<1>9. ~damaged' /\ service'.pc \in {"pop", "popping"} =>
        serviceQueue' # <<>> /\ service'.msg = Head(serviceQueue')
  <2> SUFFICES ASSUME ~damaged', service'.pc \in {"pop", "popping"}
               PROVE  serviceQueue' # <<>> /\ service'.msg = Head(serviceQueue')
    OBVIOUS
  <2>1. serviceQueue # <<>> /\ service.msg = Head(serviceQueue)
    BY <1>5 DEF BusInv, BusTypeOK
  <2>2. serviceQueue' = Append(serviceQueue, sending[t].msg)
    BY <1>1, <1>5, FrontHeld DEF EndPush, Holds
  <2>3. serviceQueue' # <<>> /\ Head(serviceQueue') = Head(serviceQueue)
    BY <1>7, <2>1, <2>2, AppendProperties
  <2> QED
    BY <1>5, <2>1, <2>3
<1> QED
  BY <1>3, <1>4, <1>5, <1>6, <1>8, <1>9 DEF BusInv, BusTypeOK, Sending

(* Every step inside SendMessage keeps the bus well-typed. *)
LEMMA SendStepInv ==
  ASSUME BusInv, NEW t \in Senders, SendStep(t)
  PROVE  BusInv'
BY BeginPushInv, EndPushInv DEF SendStep

(* So is every step of the service thread: what it takes from an undamaged   *)
(* deque is the front, and what a damaged one shows has the type of a node.  *)
LEMMA ServiceStepInv ==
  ASSUME BusInv, ServiceStep
  PROVE  BusInv'
<1>1. /\ serviceQueue \in Seq(Message)
      /\ damaged \in BOOLEAN
      /\ service \in [pc : ServicePCs, msg : Node]
      /\ receiveQueue \in [Tasks -> Seq(Message)]
  BY DEF BusInv, BusTypeOK, ServicePCs
<1>2. \A m \in Message : m \in Node /\ m # Garbage
  BY GarbageAssumption DEF Node
<1>3. ASSUME UNCHANGED sending, ServiceTouched' \subseteq ServiceTouched, ~Race
      PROVE  ~Race'
  BY <1>3, NoNewRace DEF Touched, Pushes
<1>4. CASE TakeFront
  <2>1. service' = [pc |-> "pop", msg |-> Head(serviceQueue)] /\ serviceQueue # <<>>
    BY <1>4 DEF TakeFront
  <2>2. Head(serviceQueue) \in Message
    BY <1>1, <2>1, HeadTailProperties
  <2>3. UNCHANGED <<serviceQueue, sending, damaged, strays, receiveQueue, waiting>>
    BY <1>4 DEF TakeFront
  <2>4. ~Race'
    <3>1. \A t \in Senders : "front" \notin Touched(t) /\ ~Race
      BY <1>4 DEF TakeFront, BusInv
    <3>2. \A t \in Senders : Touched(t)' = Touched(t)
      BY <2>3 DEF Touched, Pushes
    <3>3. ServiceTouched' = {"front"}
      BY <2>1 DEF ServiceTouched
    <3> QED
      BY <3>1, <3>2, <3>3 DEF Race, Senders
  <2> QED
    BY <1>1, <1>2, <2>1, <2>2, <2>3, <2>4 DEF BusInv, BusTypeOK
<1>5. CASE TakeStray
  <2>1. PICK m \in Recycled \cup {Garbage} : service' = [pc |-> "pop", msg |-> m]
    BY <1>5 DEF TakeStray
  <2>2. m \in Node
    BY RecycledAssumption DEF Node
  <2>3. damaged' = TRUE /\ serviceQueue' = <<>>
    BY <1>5 DEF TakeStray, Holds
  <2>4. strays' \in 0 .. MaxStrays
    BY <1>5, RecycledAssumption DEF TakeStray, BusInv, BusTypeOK
  <2>5. UNCHANGED <<sending, receiveQueue, waiting>>
    BY <1>5 DEF TakeStray
  <2> QED
    BY <1>1, <2>1, <2>2, <2>3, <2>4, <2>5 DEF BusInv, BusTypeOK
<1>6. CASE BeginPop
  <2>1. service.pc = "pop" /\ service' = [service EXCEPT !.pc = "popping"]
    BY <1>6 DEF BeginPop
  <2>2. UNCHANGED <<sending, strays, receiveQueue, waiting>>
    BY <1>6 DEF BeginPop
  <2>3. (damaged' <=> damaged \/ Race') /\ damaged' \in BOOLEAN
    BY <1>1, <1>6 DEF BeginPop, Watched
  <2>4. serviceQueue' \in Seq(Message) /\ (~damaged' => serviceQueue' = serviceQueue)
    BY <1>1, <1>6 DEF BeginPop, Holds
  <2> QED
    BY <1>1, <2>1, <2>2, <2>3, <2>4 DEF BusInv, BusTypeOK, ServicePCs
<1>7. CASE EndPop
  <2>1. service.pc = "popping" /\ service' = [service EXCEPT !.pc = "deliver"]
    BY <1>7 DEF EndPop
  <2>2. UNCHANGED <<sending, damaged, strays, receiveQueue, waiting>>
    BY <1>7 DEF EndPop
  <2>3. ~damaged => serviceQueue # <<>> /\ service.msg = Head(serviceQueue)
    BY <2>1 DEF BusInv, BusTypeOK
  <2>4. ~damaged => Head(serviceQueue) \in Message /\ Tail(serviceQueue) \in Seq(Message)
    BY <1>1, <2>3, HeadTailProperties
  <2>5. serviceQueue' \in Seq(Message)
    BY <1>7, <2>2, <2>4 DEF EndPop, Holds
  <2>6. ~Race => ~Race'
    BY <1>3, <2>1, <2>2 DEF ServiceTouched
  <2> QED
    BY <1>1, <1>2, <2>1, <2>2, <2>3, <2>4, <2>5, <2>6 DEF BusInv, BusTypeOK, ServicePCs
<1>8. CASE Deliver
  <2>1. service.pc = "deliver"
    BY <1>8 DEF Deliver
  <2>2. UNCHANGED <<serviceQueue, sending, damaged, strays, waiting>>
    BY <1>8 DEF Deliver
  <2>3. \/ /\ service.msg = Garbage /\ service' = [service EXCEPT !.pc = "poll"]
           /\ UNCHANGED receiveQueue
        \/ /\ service.msg # Garbage /\ service' = [service EXCEPT !.pc = "signal"]
           /\ receiveQueue' = [receiveQueue EXCEPT ![service.msg.dest] =
                                 Append(@, service.msg)]
    BY <1>8 DEF Deliver
  <2>4. receiveQueue' \in [Tasks -> Seq(Message)]
    <3>1. CASE service.msg = Garbage
      BY <1>1, <2>3, <3>1
    <3>2. CASE service.msg # Garbage
      <4>1. service.msg \in Message /\ service.msg.dest \in Tasks
        BY <1>1, <3>2 DEF Node, Message
      <4>2. Append(receiveQueue[service.msg.dest], service.msg) \in Seq(Message)
        BY <1>1, <4>1, AppendProperties
      <4> QED
        BY <1>1, <2>3, <3>2, <4>2
    <3> QED
      BY <3>1, <3>2
  <2>5. ~Race => ~Race'
    BY <1>1, <1>3, <2>1, <2>2, <2>3 DEF ServiceTouched
  <2>6. service' \in [pc : ServicePCs, msg : Node] /\ service'.pc \in {"poll", "signal"}
    BY <1>1, <2>3 DEF ServicePCs
  <2>7. service'.pc = "signal" => service'.msg # Garbage
    BY <1>1, <2>3
  <2> QED
    BY <2>2, <2>4, <2>5, <2>6, <2>7 DEF BusInv, BusTypeOK, ServicePCs
<1>9. CASE Signal
  <2>1. service' = [pc |-> "poll", msg |-> Garbage]
    BY <1>9 DEF Signal
  <2>2. UNCHANGED <<serviceQueue, sending, damaged, strays, receiveQueue>>
    BY <1>9 DEF Signal
  <2>3. waiting' \subseteq Waiters
    BY <1>9 DEF Signal, BusInv, BusTypeOK
  <2>4. ~Race => ~Race'
    BY <1>3, <2>1, <2>2 DEF ServiceTouched
  <2>5. Garbage \in Node
    BY DEF Node
  <2> QED
    BY <2>1, <2>2, <2>3, <2>4, <2>5 DEF BusInv, BusTypeOK
<1> QED
  BY <1>4, <1>5, <1>6, <1>7, <1>8, <1>9 DEF ServiceStep

(* And what a manager does with its queue and its condition variable. *)
LEMMA ManagerStepInv ==
  ASSUME BusInv, NEW t \in Waiters,
         CondWait(t) \/ SpuriousWakeup(t) \/ ReceiveMessage(t)
  PROVE  BusInv'
<1>1. UNCHANGED <<serviceQueue, sending, service, damaged, strays>>
  BY DEF CondWait, SpuriousWakeup, ReceiveMessage
<1>2. Race' <=> Race
  BY <1>1, RaceUnchanged
<1>3. receiveQueue' \in [Tasks -> Seq(Message)]
  <2>1. CASE ReceiveMessage(t)
    <3>1. t \in Tasks /\ receiveQueue \in [Tasks -> Seq(Message)] /\ receiveQueue[t] # <<>>
      BY <2>1 DEF Waiters, Tasks, BusInv, BusTypeOK, ReceiveMessage, HasMail
    <3>2. Tail(receiveQueue[t]) \in Seq(Message)
      BY <3>1, HeadTailProperties
    <3> QED
      BY <2>1, <3>1, <3>2 DEF ReceiveMessage
  <2>2. CASE CondWait(t) \/ SpuriousWakeup(t)
    BY <2>2 DEF CondWait, SpuriousWakeup, BusInv, BusTypeOK
  <2> QED
    BY <2>1, <2>2
<1>4. waiting' \subseteq Waiters
  BY DEF CondWait, SpuriousWakeup, ReceiveMessage, BusInv, BusTypeOK
<1> QED
  BY <1>1, <1>2, <1>3, <1>4 DEF BusInv, BusTypeOK

(* What leaves the bus alone leaves it well-typed. *)
LEMMA BusStutterInv == BusInv /\ UNCHANGED busVars => BusInv'
<1> SUFFICES ASSUME BusInv, UNCHANGED busVars PROVE BusInv'
  OBVIOUS
<1>1. UNCHANGED <<serviceQueue, sending, service, damaged, strays, receiveQueue, waiting>>
  BY DEF busVars
<1>2. Race' <=> Race
  BY <1>1, RaceUnchanged
<1> QED
  BY <1>1, <1>2 DEF BusInv, BusTypeOK
=============================================================================

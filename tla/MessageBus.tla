----------------------------- MODULE MessageBus -----------------------------
(***************************************************************************)
(* The message bus of the camera node: QueueManager's serviceQueue, the    *)
(* QueueServiceManager thread that empties it into the managers' receive   *)
(* queues and signals them, and the operations the managers inherit from   *)
(* TaskManager (SendMessage, ReceiveMessage).                              *)
(*                                                                         *)
(* serviceQueue is a std::deque that two sender threads and the service    *)
(* thread use without a lock, so that its operations overlap.  A Message   *)
(* is larger than 512 bytes and the deque of libstdc++ keeps one per node; *)
(* every push and every pop then moves a pointer of the deque:             *)
(*   push_back   fills the node at `finish' and moves `finish';            *)
(*   push_front  moves `start', which makes a node the front that is       *)
(*               filled only afterwards;                                   *)
(*   pop_front   frees the front and moves `start';                        *)
(*   a push that finds no room in the map recentres or reallocates it and  *)
(*   rewrites both pointers.                                               *)
(* An operation has a first and a last step.  Two of them that are under   *)
(* way at once and touch the same part of the deque are a data race, and   *)
(* leave it damaged: from then on the service thread is handed whatever    *)
(* the memory shows.                                                       *)
(***************************************************************************)
EXTENDS Naturals, Sequences, FiniteSets

CONSTANTS
  Bodies,    \* what a message carries: its command and data
  Garbage,   \* bytes in which getDest finds no registered task
  Recycled,  \* the messages that the memory of a damaged deque may show
  MaxStrays  \* bound: how often the service thread takes from a damaged deque

(* The task identifiers of SEcommon.h, all four registered by initManager. *)
COMMUNICATIONSERVICE == 3
EVENTDETECTMANAGER   == 4
STREAMMANAGER        == 5
MOTORMANAGER         == 6

Tasks   == {COMMUNICATIONSERVICE, EVENTDETECTMANAGER, STREAMMANAGER, MOTORMANAGER}
Senders == {COMMUNICATIONSERVICE, STREAMMANAGER}   \* the threads that call SendMessage
Waiters == {STREAMMANAGER, MOTORMANAGER}           \* the threads with a condition variable

Message == [dest : Tasks, priority : {1, 2}, body : Bodies]
Node    == Message \cup {Garbage}

ASSUME GarbageAssumption == Garbage \notin Message

(* The nodes are the only memory of their size, so what is found in one is a *)
(* message of old or new, and these are for the stream or the motor manager. *)
ASSUME RecycledAssumption ==
  /\ Recycled \subseteq {m \in Message : m.dest \in Waiters}
  /\ MaxStrays \in Nat

VARIABLES
  serviceQueue,  \* the messages from start to finish, as long as it is not damaged
  sending,       \* how far each sender is in SendMessage
  service,       \* how far the service thread is in its loop, and its local _message
  damaged,       \* two operations on the deque have raced
  strays,        \* what the service thread took from it since then, counted
  receiveQueue,  \* the managers' ReceiveQueue objects
  waiting        \* the managers blocked in pthread_cond_wait

busVars == <<serviceQueue, sending, service, damaged, strays, receiveQueue, waiting>>

Idle == [pc |-> "idle", msg |-> Garbage, end |-> "back", recentres |-> FALSE]

-----------------------------------------------------------------------------
(* Who touches what.  Between front and pop_front the service thread relies  *)
(* on the front; while pop_front is under way it moves start as well.        *)

Pushes(t) == sending[t].pc = "push"

Touched(t) ==
  {part \in {"front", "start", "finish"} :
     /\ Pushes(t)
     /\ \/ part \in (IF sending[t].end = "front" THEN {"front", "start"} ELSE {"finish"})
        \/ part # "front" /\ sending[t].recentres}

ServiceTouched ==
  CASE service.pc = "pop"     -> {"front"}
    [] service.pc = "popping" -> {"front", "start"}
    [] OTHER                  -> {}

Race ==
  \/ Touched(COMMUNICATIONSERVICE) \cap Touched(STREAMMANAGER) # {}
  \/ \E t \in Senders : Touched(t) \cap ServiceTouched # {}

(* A step that makes an operation touch more of the deque.                   *)
Watched == damaged' = (damaged \/ Race')

(* What the deque holds after a step: q, if it still means anything.         *)
Holds(q) == serviceQueue' = IF damaged' THEN <<>> ELSE q

-----------------------------------------------------------------------------
(* The types of the bus.  Unless the deque is damaged, the message that the  *)
(* service thread copied is the one it pops, and what it hands over is a     *)
(* message.                                                                  *)
BusTypeOK ==
  /\ serviceQueue \in Seq(Message)
  /\ sending \in [Senders -> [pc : {"idle", "chosen", "push"}, msg : Node,
                              end : {"front", "back"}, recentres : BOOLEAN]]
  /\ \A t \in Senders : sending[t].pc # "idle" => sending[t].msg \in Message
  /\ service \in [pc : {"poll", "pop", "popping", "deliver", "signal"}, msg : Node]
  /\ damaged \in BOOLEAN
  /\ strays \in 0 .. MaxStrays
  /\ receiveQueue \in [Tasks -> Seq(Message)]
  /\ waiting \subseteq Waiters
  /\ ~damaged /\ service.pc \in {"pop", "popping"} =>
       serviceQueue # <<>> /\ service.msg = Head(serviceQueue)
  /\ ~damaged /\ service.pc = "deliver" => service.msg # Garbage
  /\ service.pc = "signal" => service.msg # Garbage

BusInit ==
  /\ serviceQueue = <<>>
  /\ sending = [t \in Senders |-> Idle]
  /\ service = [pc |-> "poll", msg |-> Garbage]
  /\ damaged = FALSE
  /\ strays = 0
  /\ receiveQueue = [t \in Tasks |-> <<>>]
  /\ waiting = {}

-----------------------------------------------------------------------------
(* QueueManager::SendMessage, run by the calling thread t. *)

(* front() is read while another thread puts a node there or frees it.       *)
FrontChanges(t) ==
  \/ \E u \in Senders \ {t} : "front" \in Touched(u)
  \/ service.pc = "popping"

(* The priority that the comparison reads is that of the front.  front() of  *)
(* an empty deque is undefined: it reads the node at finish.                 *)
ReadsAnything(t) == serviceQueue = <<>> \/ FrontChanges(t)

(* Mutant: >= for >, so a message overtakes those of its own priority.      *)
EndsOfEqualPriority(t, m) ==
  {e \in {"front", "back"} :
     ReadsAnything(t) \/ (e = "front" <=> Head(serviceQueue).priority >= m.priority)}

(* The end of the queue that the comparison of priorities selects for m. *)
Ends(t, m) ==
  {e \in {"front", "back"} :
     ReadsAnything(t) \/ (e = "front" <=> Head(serviceQueue).priority > m.priority)}

BeginSend(t, m) ==
  /\ sending[t].pc = "idle"
  /\ \E e \in Ends(t, m) :
       sending' = [sending EXCEPT ![t] =
                     [pc |-> "chosen", msg |-> m, end |-> e, recentres |-> FALSE]]
  /\ UNCHANGED <<serviceQueue, service, damaged, strays, receiveQueue, waiting>>

(* push_front or push_back begins.  Whether the map has room is left open.   *)
BeginPush(t) ==
  /\ sending[t].pc = "chosen"
  /\ \E recentres \in BOOLEAN :
       sending' = [sending EXCEPT ![t].pc = "push", ![t].recentres = recentres]
  /\ UNCHANGED <<service, strays, receiveQueue, waiting>>
  /\ Watched
  /\ Holds(serviceQueue)

EndPush(t) ==
  /\ sending[t].pc = "push"
  /\ sending' = [sending EXCEPT ![t] = Idle]
  /\ UNCHANGED damaged
  /\ Holds(IF sending[t].end = "front" THEN <<sending[t].msg>> \o serviceQueue
                                       ELSE Append(serviceQueue, sending[t].msg))
  /\ UNCHANGED <<service, strays, receiveQueue, waiting>>

SendStep(t) == BeginPush(t) \/ EndPush(t)

-----------------------------------------------------------------------------
(* The loop of QueueServiceManager::Run around SendServiceMessage.  A poll  *)
(* that finds the queue empty changes nothing.                              *)

(* Mutant: the queue counts as empty when one message is in it.              *)
TakeFrontLeavesOne ==
  /\ service.pc = "poll"
  /\ ~damaged /\ \A t \in Senders : "front" \notin Touched(t)
  /\ Len(serviceQueue) > 1
  /\ service' = [pc |-> "pop", msg |-> Head(serviceQueue)]
  /\ UNCHANGED <<serviceQueue, sending, damaged, strays, receiveQueue, waiting>>

(* Mutant: the message at the other end is copied, and the front popped.     *)
TakeFrontBack ==
  /\ service.pc = "poll"
  /\ ~damaged /\ \A t \in Senders : "front" \notin Touched(t)
  /\ serviceQueue # <<>>
  /\ service' = [pc |-> "pop", msg |-> serviceQueue[Len(serviceQueue)]]
  /\ UNCHANGED <<serviceQueue, sending, damaged, strays, receiveQueue, waiting>>

TakeFront ==
  /\ service.pc = "poll"
  /\ ~damaged /\ \A t \in Senders : "front" \notin Touched(t)
  /\ serviceQueue # <<>>
  /\ service' = [pc |-> "pop", msg |-> Head(serviceQueue)]
  /\ UNCHANGED <<serviceQueue, sending, damaged, strays, receiveQueue, waiting>>

(* The front is a node that push_front has not filled yet, or any memory.    *)
TakeStray ==
  /\ service.pc = "poll"
  /\ damaged \/ \E t \in Senders : "front" \in Touched(t)
  /\ strays < MaxStrays
  /\ strays' = strays + 1
  /\ damaged' = TRUE
  /\ Holds(serviceQueue)
  /\ \E m \in Recycled \cup {Garbage} : service' = [pc |-> "pop", msg |-> m]
  /\ UNCHANGED <<sending, receiveQueue, waiting>>

BeginPop ==
  /\ service.pc = "pop"
  /\ service' = [service EXCEPT !.pc = "popping"]
  /\ UNCHANGED <<sending, strays, receiveQueue, waiting>>
  /\ Watched
  /\ Holds(serviceQueue)

(* Mutant: a message that is the only one is left in the queue.             *)
EndPopKeepsLast ==
  /\ service.pc = "popping"
  /\ service' = [service EXCEPT !.pc = "deliver"]
  /\ UNCHANGED damaged
  /\ Holds(IF Len(serviceQueue) = 1 THEN serviceQueue ELSE Tail(serviceQueue))
  /\ UNCHANGED <<sending, strays, receiveQueue, waiting>>

EndPop ==
  /\ service.pc = "popping"
  /\ service' = [service EXCEPT !.pc = "deliver"]
  /\ UNCHANGED damaged
  /\ Holds(Tail(serviceQueue))
  /\ UNCHANGED <<sending, strays, receiveQueue, waiting>>

(* getReceiveQueue and Push; an unknown destination is reported and dropped. *)
Deliver ==
  /\ service.pc = "deliver"
  /\ IF service.msg = Garbage
       THEN /\ service' = [service EXCEPT !.pc = "poll"]
            /\ UNCHANGED receiveQueue
       ELSE /\ receiveQueue' = [receiveQueue EXCEPT ![service.msg.dest] =
                                  Append(@, service.msg)]
            /\ service' = [service EXCEPT !.pc = "signal"]
  /\ UNCHANGED <<serviceQueue, sending, damaged, strays, waiting>>

(* Mutant: only the motor manager is signalled.                              *)
SignalMotorOnly ==
  /\ service.pc = "signal"
  /\ waiting' = IF service.msg.dest = MOTORMANAGER THEN waiting \ {MOTORMANAGER} ELSE waiting
  /\ service' = [pc |-> "poll", msg |-> Garbage]
  /\ UNCHANGED <<serviceQueue, sending, damaged, strays, receiveQueue>>

(* pthread_cond_signal: without effect on a manager that does not wait. *)
Signal ==
  /\ service.pc = "signal"
  /\ waiting' = waiting \ {service.msg.dest}
  /\ service' = [pc |-> "poll", msg |-> Garbage]
  /\ UNCHANGED <<serviceQueue, sending, damaged, strays, receiveQueue>>

ServiceStep == TakeFront \/ TakeStray \/ BeginPop \/ EndPop \/ Deliver \/ Signal

-----------------------------------------------------------------------------
(* What a manager thread t does with its own queue and condition variable.  *)

CondWait(t) ==
  /\ waiting' = waiting \cup {t}
  /\ UNCHANGED <<serviceQueue, sending, service, damaged, strays, receiveQueue>>

(* POSIX lets pthread_cond_wait return without a signal. *)
SpuriousWakeup(t) ==
  /\ t \in waiting
  /\ waiting' = waiting \ {t}
  /\ UNCHANGED <<serviceQueue, sending, service, damaged, strays, receiveQueue>>

HasMail(t) == receiveQueue[t] # <<>>
NextMail(t) == Head(receiveQueue[t])

(* TaskManager::ReceiveMessage on a queue that is not empty.  On an empty   *)
(* queue it returns the default message, of priority 0, and changes nothing. *)
ReceiveMessage(t) ==
  /\ HasMail(t)
  /\ receiveQueue' = [receiveQueue EXCEPT ![t] = Tail(@)]
  /\ UNCHANGED <<serviceQueue, sending, service, damaged, strays, waiting>>
=============================================================================

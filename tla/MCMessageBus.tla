---------------------------- MODULE MCMessageBus ----------------------------
(***************************************************************************)
(* The message bus under the traffic its two clients produce: the          *)
(* communication thread sends with priority 2 to the stream and the motor  *)
(* manager, the stream manager sends with priority 1 to the motor manager. *)
(* The body of a message is its number, counted separately per sender.  No *)
(* manager takes part: a receive queue keeps all that was handed over.     *)
(***************************************************************************)
EXTENDS MessageBus

CONSTANTS
  MaxServer,   \* bound: messages the communication thread sends
  MaxStream    \* bound: messages the stream manager sends

ASSUME MCBounds == MaxServer \in Nat /\ MaxStream \in Nat
ASSUME MCBodies == Bodies = 1 .. (MaxServer + MaxStream)

VARIABLES
  sent,      \* how many messages each sender has begun to send
  misled,    \* a SendMessage has compared while the front was changing
  overlapped \* both senders have been inside SendMessage at the same time

mcVars == <<busVars, sent, misled, overlapped>>

(* Memory of old: any message that the clients send.                         *)
MCRecycled ==
  [dest : Waiters, priority : {2}, body : 1 .. MaxServer]
    \cup [dest : {MOTORMANAGER}, priority : {1}, body : MaxServer + 1 .. MaxServer + MaxStream]

Outgoing(t) ==
  IF t = COMMUNICATIONSERVICE
    THEN [dest : {STREAMMANAGER, MOTORMANAGER}, priority : {2}, body : {sent[t] + 1}]
    ELSE [dest : {MOTORMANAGER}, priority : {1}, body : {MaxServer + sent[t] + 1}]

Quota(t) == IF t = COMMUNICATIONSERVICE THEN MaxServer ELSE MaxStream

Overlap == \A t \in Senders : sending[t].pc # "idle"

Misled == \E t \in Senders :
  sending[t].pc = "idle" /\ sending'[t].pc # "idle" /\ FrontChanges(t)

MCInit ==
  /\ BusInit
  /\ sent = [t \in Senders |-> 0]
  /\ misled = FALSE
  /\ overlapped = FALSE

Client(t) ==
  \/ /\ sent[t] < Quota(t)
     /\ \E m \in Outgoing(t) : BeginSend(t, m)
     /\ sent' = [sent EXCEPT ![t] = @ + 1]
  \/ SendStep(t) /\ UNCHANGED sent

MCNext ==
  /\ \/ \E t \in Senders : Client(t)
     \/ ServiceStep /\ UNCHANGED sent
  /\ misled' = (misled \/ Misled)
  /\ overlapped' = (overlapped \/ Overlap')

(* A thread that is inside SendMessage finishes it, and the service thread  *)
(* polls for ever.                                                          *)
MCSpec ==
  /\ MCInit /\ [][MCNext]_mcVars
  /\ WF_mcVars(ServiceStep /\ MCNext)
  /\ \A t \in Senders : WF_mcVars(SendStep(t) /\ MCNext)

-----------------------------------------------------------------------------
Pending(t) == IF sending[t].pc = "idle" THEN {} ELSE {sending[t].msg.body}

Occurrences(n, q) == Cardinality({i \in DOMAIN q : q[i].body = n})

(* How often the message with number n is in the bus or was handed over.    *)
Copies(n) ==
    Occurrences(n, serviceQueue)
  + Occurrences(n, receiveQueue[STREAMMANAGER])
  + Occurrences(n, receiveQueue[MOTORMANAGER])
  + Occurrences(n, IF service.pc = "deliver" THEN <<service.msg>> ELSE <<>>)

SentBy(t) == {IF t = COMMUNICATIONSERVICE THEN k ELSE MaxServer + k : k \in 1 .. sent[t]}

(* Operations may overlap as long as they touch different parts of the deque *)
(* (a push_back that finds room, and front or pop_front or a push_front):    *)
(* until two have raced, every message whose SendMessage has returned is in  *)
(* the queue or was handed over, exactly once.                               *)
ExactlyOnceUndamaged ==
  ~damaged => \A t \in Senders : \A n \in SentBy(t) \ Pending(t) : Copies(n) = 1

(* The commands of the server reach a manager in the order they arrived in,  *)
(* although a message of the stream manager may overtake them and the two    *)
(* senders may be inside SendMessage together, as long as none of them       *)
(* compares priorities while the front is changing and no race has happened. *)
ServerOrder ==
  ~damaged /\ ~misled =>
    \A t \in Tasks : \A i, j \in DOMAIN receiveQueue[t] :
      (/\ i < j
       /\ receiveQueue[t][i].priority = 2
       /\ receiveQueue[t][j].priority = 2)
        => receiveQueue[t][i].body < receiveQueue[t][j].body

(* The service thread gets the queue empty, again and again, and hands over  *)
(* the last message it took, unless a race has damaged the deque.            *)
ServiceDrains == []<>(damaged \/ (serviceQueue = <<>> /\ service.pc = "poll"))

(* QueueManager.cpp:34-35: messages are handled by priority, the lower       *)
(* number first.  Even when no two sends overlap, the service thread takes   *)
(* no message while one with a lower number is in the queue.                 *)
LowestNumberFirst ==
  [][ (/\ ~damaged' /\ ~misled /\ ~overlapped
       /\ service.pc = "poll" /\ service'.pc = "pop")
        => \A i \in DOMAIN serviceQueue : serviceQueue[1].priority <= serviceQueue[i].priority
    ]_mcVars
=============================================================================

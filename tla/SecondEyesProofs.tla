--------------------------- MODULE SecondEyesProofs ---------------------------
(***************************************************************************)
(* For every set of packets and every bound on them: type correctness, the *)
(* flag under the mutex, the format of the pipeline, the alternation of    *)
(* the motor commands, and that the threads take the turns of CameraUse.   *)
(*                                                                         *)
(* All of it follows from one inductive invariant, Inv.  What holds of the *)
(* camera (LockInv, FlagInv, CommandInv, FormatInv) is about variables that *)
(* only StreamManager and EventManager write: OtherThreads says so once.   *)
(***************************************************************************)
EXTENDS SecondEyes, MessageBusProofs

(* mutex_EventManager is held exactly where the program counters say so. *)
LockInv ==
  /\ mutex_EventManager = STREAMMANAGER <=> stream \in StreamHoldPCs
  /\ mutex_EventManager = EVENTDETECTMANAGER <=> event \in EventHoldPCs

(* flag_stream spans the session. *)
FlagInv == flag_stream <=> stream \in SessionPCs

(* flag_motor and interCMD tell which command comes next. *)
CommandInv ==
  /\ flag_motor = 1 <=> stream \in SessionPCs
  /\ flag_motor = 0 => interCMD = "none"
  /\ flag_motor = 2 => interCMD = "S2M_STOP"
  /\ stream \in {"sendStart", "begin", "stream", "stop"} =>
       interCMD \in {"S2M_FIRST_START", "S2M_RESTART"}
  /\ stream \in {"sendStop", "lower"} => interCMD = "S2M_STOP"

(* The pipeline is in the large format only while EventManager records. *)
FormatInv ==
  /\ event \notin {"encode", "rebuild"} => width \in {320, 352}
  /\ event = "encode" => (width = 1280 /\ 71 \in capturing)
  /\ event = "grab" => 72 \in capturing
  /\ stream \in {"raise", "sendStart", "begin", "stream"} =>
       (width = 352 /\ 71 \in capturing)

(* The part of TypeOK that the two camera threads can disturb. *)
CameraTypeOK ==
  /\ flag_stream \in BOOLEAN
  /\ mutex_EventManager \in {Free, EVENTDETECTMANAGER, STREAMMANAGER}
  /\ stream \in {"start", "waiting", "lock"} \cup StreamHoldPCs
  /\ flag_motor \in 0 .. 2
  /\ interCMD \in {"none"} \cup MotorCommands
  /\ stream \in SessionPCs => interCMD \in MotorCommands
  /\ quit \in {"no", "key", "delta"}
  /\ event \in {"lock"} \cup EventHoldPCs
  /\ width \in {320, 352, 1280}
  /\ capturing \subseteq {71, 72}

CameraInv == CameraTypeOK /\ LockInv /\ FlagInv /\ CommandInv /\ FormatInv

Inv == TypeOK /\ BusInv /\ CameraInv

camera == <<flag_stream, mutex_EventManager, streamVars, event, omxVars>>

OtherStep ==
  \/ CommReceive \/ CommSend \/ CommSignalEnd
  \/ \E t \in Senders : BusSend(t)
  \/ BusServe
  \/ \E t \in Waiters : BusSpuriousWakeup(t)
  \/ MotorStep

CameraStep ==
  \/ StreamStep \/ StreamLock
  \/ \E frame \in {"key", "delta"} : StreamFrame(frame)
  \/ EventStep \/ EventLock \/ EventEncode

(* The communication thread, the bus and the motor thread leave alone what   *)
(* StreamManager and EventManager share.                                     *)
LEMMA OtherThreads == OtherStep => UNCHANGED camera
BY DEF OtherStep, CommReceive, CommSend, CommSignalEnd, BusSend, BusServe,
       BusSpuriousWakeup, MotorStep, MotorWait, MotorWake, MotorReceive, MotorDone,
       rest, camera, streamVars, omxVars, motorVars, commVars

(* Every step is one of the two kinds. *)
LEMMA StepKinds == Next <=> OtherStep \/ CameraStep
BY DEF Next, OtherStep, CameraStep

-----------------------------------------------------------------------------
(* The initial state satisfies the invariant. *)
LEMMA InitInv == Init => Inv
<1> SUFFICES ASSUME Init PROVE Inv
  OBVIOUS
<1>1. BusInv
  BY BusInitInv DEF Init
<1>2. TypeOK
  <2>1. comm \in [pc : {"recv", "send", "end"}, msg : Node] /\ comm.pc # "send"
    BY DEF Init, Node
  <2>2. stream = "start" /\ stream \notin SessionPCs
    BY DEF Init, SessionPCs
  <2>3. BusTypeOK /\ packets \in Nat
    BY <1>1 DEF Init, BusInv
  <2>4. capturing \subseteq {71, 72} /\ width \in {320, 352, 1280} /\ flag_motor \in 0 .. 2
    BY DEF Init
  <2>5. quit \in {"no", "key", "delta"} /\ interCMD = "none"
    BY DEF Init
  <2>6. event = "lock" /\ motor = "start" /\ pwm = "off"
    BY DEF Init
  <2>7. mutex_EventManager = Free /\ flag_stream \in BOOLEAN /\ is_end \in BOOLEAN
    BY DEF Init
  <2> QED
    BY <2>1, <2>2, <2>3, <2>4, <2>5, <2>6, <2>7 DEF TypeOK
<1>3. CameraInv
  BY <1>2 DEF Init, TypeOK, CameraInv, CameraTypeOK, LockInv, FlagInv, CommandInv,
              FormatInv, StreamHoldPCs, SessionPCs, EventHoldPCs, RecordPCs, Free,
              STREAMMANAGER, EVENTDETECTMANAGER
<1> QED
  BY <1>1, <1>2, <1>3 DEF Inv

(* The messages the threads send are messages of the bus. *)
LEMMA SentMessages ==
  ASSUME Inv
  PROVE  /\ \A dest \in Tasks, body \in PacketKinds \ {"STOP"} :
              ServerMessage(dest, body) \in Message
         /\ \A body \in MotorCommands : MotorMessage(body) \in Message
         /\ comm.pc = "send" => comm.msg \in Message
         /\ stream \in SessionPCs => MotorMessage(interCMD) \in Message
BY BodiesAssumption DEF Inv, TypeOK, ServerMessage, MotorMessage, Message, PacketKinds,
   Tasks, MOTORMANAGER

(* Every step keeps the bus well-typed. *)
LEMMA BusKept ==
  ASSUME Inv, [Next]_vars
  PROVE  BusInv'
<1>1. BusInv
  BY DEF Inv
<1>2. CASE CommSend
  BY <1>1, <1>2, SentMessages, BeginSendInv DEF CommSend, Senders
<1>3. CASE StreamSendStart \/ StreamSendStop
  <2>1. BeginSend(STREAMMANAGER, MotorMessage(interCMD)) /\ stream \in SessionPCs
    BY <1>3 DEF StreamSendStart, StreamSendStop, SessionPCs
  <2> QED
    BY <1>1, <2>1, SentMessages, BeginSendInv DEF Senders
<1>4. CASE \E t \in Senders : BusSend(t)
  BY <1>1, <1>4, SendStepInv DEF BusSend
<1>5. CASE BusServe
  BY <1>1, <1>5, ServiceStepInv DEF BusServe
<1>6. CASE \E t \in Waiters : BusSpuriousWakeup(t)
  BY <1>1, <1>6, ManagerStepInv DEF BusSpuriousWakeup
<1>7. CASE StreamWait \/ StreamReceive
  BY <1>1, <1>7, ManagerStepInv DEF StreamWait, StreamReceive, Waiters
<1>8. CASE MotorWait \/ MotorReceive
  BY <1>1, <1>8, ManagerStepInv DEF MotorWait, MotorReceive, Waiters
<1>9. CASE UNCHANGED busVars
  BY <1>1, <1>9, BusStutterInv
<1>10. CommReceive \/ CommSignalEnd \/ MotorWake \/ MotorDone => UNCHANGED busVars
  BY DEF CommReceive, CommSignalEnd, MotorWake, MotorDone
<1>11. StreamWake \/ StreamLock \/ StreamUnlock \/ StreamConfigure \/ StreamRaise
         \/ StreamBegin \/ StreamStop \/ StreamLower \/ StreamRestore
         \/ (\E frame \in {"key", "delta"} : StreamFrame(frame)) => UNCHANGED busVars
  BY DEF StreamWake, StreamLock, StreamUnlock, StreamConfigure, StreamRaise, StreamBegin,
         StreamStop, StreamLower, StreamRestore, StreamFrame
<1>12. EventStep \/ EventLock \/ EventEncode => UNCHANGED busVars
  BY DEF EventStep, EventLock, EventGrab, EventDecide, EventConfigure, EventEncode,
         EventRebuild, EventUnlock
<1>13. UNCHANGED vars => UNCHANGED busVars
  BY DEF vars
<1> QED
  BY <1>2, <1>3, <1>4, <1>5, <1>6, <1>7, <1>8, <1>9, <1>10, <1>11, <1>12, <1>13
     DEF Next, StreamStep, MotorStep

(* A step of StreamManager or EventManager keeps what holds of the camera. *)
LEMMA CameraKept ==
  ASSUME CameraInv, CameraStep
  PROVE  CameraInv'
<1> USE DEF CameraInv, CameraTypeOK, LockInv, FlagInv, CommandInv, FormatInv,
            StreamHoldPCs, SessionPCs, EventHoldPCs, RecordPCs, MotorCommands,
            Free, STREAMMANAGER, EVENTDETECTMANAGER,
            streamVars, omxVars, motorVars, commVars
<1>1. CASE StreamWait
  BY <1>1 DEF StreamWait
<1>2. CASE StreamWake
  BY <1>2 DEF StreamWake
<1>3. CASE StreamLock
  BY <1>3 DEF StreamLock
<1>4. CASE StreamReceive
  BY <1>4 DEF StreamReceive
<1>5. CASE StreamUnlock
  BY <1>5 DEF StreamUnlock
<1>6. CASE StreamConfigure
  BY <1>6 DEF StreamConfigure, ResetConfigure
<1>7. CASE StreamRaise
  BY <1>7 DEF StreamRaise
<1>8. CASE StreamSendStart
  BY <1>8 DEF StreamSendStart
<1>9. CASE StreamBegin
  BY <1>9 DEF StreamBegin
<1>10. CASE \E frame \in {"key", "delta"} : StreamFrame(frame)
  BY <1>10 DEF StreamFrame
<1>11. CASE StreamStop
  BY <1>11 DEF StreamStop
<1>12. CASE StreamSendStop
  BY <1>12 DEF StreamSendStop
<1>13. CASE StreamLower
  <2>1. stream = "lower" /\ stream' = "restore" /\ flag_motor' = 2 /\ interCMD' = "S2M_STOP"
    BY <1>13 DEF StreamLower
  <2>2. UNCHANGED <<mutex_EventManager, quit, event, width, capturing>> /\ flag_stream' = FALSE
    BY <1>13 DEF StreamLower
  <2>3. CameraTypeOK'
    <3>1. flag_stream' \in BOOLEAN
      BY <2>2, ZenonT(60)
    <3>2. flag_motor' \in 0 .. 2
      BY <2>1
    <3>3. /\ mutex_EventManager' \in {Free, EVENTDETECTMANAGER, STREAMMANAGER}
          /\ quit' \in {"no", "key", "delta"} /\ event' \in {"lock"} \cup EventHoldPCs
          /\ width' \in {320, 352, 1280} /\ capturing' \subseteq {71, 72}
      BY <2>2
    <3> QED
      BY <2>1, <3>1, <3>2, <3>3
  <2>4. LockInv' /\ FlagInv' /\ CommandInv'
    BY <2>1, <2>2
  <2>5. FormatInv'
    BY <2>1, <2>2
  <2> QED
    BY <2>3, <2>4, <2>5
<1>14. CASE StreamRestore
  BY <1>14 DEF StreamRestore, ResetConfigure
<1>15. CASE EventLock
  BY <1>15 DEF EventLock
<1>16. CASE EventGrab
  BY <1>16 DEF EventGrab
<1>17. CASE EventDecide
  BY <1>17 DEF EventDecide
<1>18. CASE EventConfigure
  BY <1>18 DEF EventConfigure, ResetConfigure
<1>19. CASE EventEncode
  BY <1>19 DEF EventEncode
<1>20. CASE EventRebuild
  BY <1>20 DEF EventRebuild
<1>21. CASE EventUnlock
  BY <1>21 DEF EventUnlock
<1> QED
  BY <1>1, <1>2, <1>3, <1>4, <1>5, <1>6, <1>7, <1>8, <1>9, <1>10, <1>11, <1>12, <1>13,
     <1>14, <1>15, <1>16, <1>17, <1>18, <1>19, <1>20, <1>21
     DEF CameraStep, StreamStep, EventStep

(* What TypeOK says of the variables that are neither the bus nor the camera. *)
RestTypeOK ==
  /\ packets \in Nat
  /\ comm \in [pc : {"recv", "send", "end"}, msg : Node]
  /\ comm.pc = "send" => comm.msg \in Message
  /\ is_end \in BOOLEAN
  /\ motor \in {"start", "waiting", "receive"}
  /\ pwm \in {"off", "on"}

(* TypeOK is made of these three parts. *)
LEMMA TypeParts == TypeOK <=> BusTypeOK /\ RestTypeOK /\ CameraTypeOK
BY DEF TypeOK, RestTypeOK, CameraTypeOK

(* The communication thread keeps the types of its own variables. *)
LEMMA CommTypes ==
  ASSUME Inv, CommReceive \/ CommSend \/ CommSignalEnd
  PROVE  RestTypeOK'
<1> USE DEF Inv, TypeOK, RestTypeOK, motorVars
<1>1. CASE CommReceive
  <2>1. packets' \in Nat /\ UNCHANGED <<is_end, motor, pwm>>
    BY <1>1 DEF CommReceive
  <2>2. \/ comm' = [comm EXCEPT !.pc = "end"]
        \/ \E msg \in Message : comm' = [pc |-> "send", msg |-> msg]
    <3>1. PICK p \in Packets :
            \/ p = "MOVE" /\ Dispatch(ServerMessage(MOTORMANAGER, p))
            \/ p \in {"OWN", "OTHER"} /\ Dispatch(ServerMessage(STREAMMANAGER, p))
            \/ comm' = [comm EXCEPT !.pc = "end"]
      BY <1>1 DEF CommReceive
    <3>2. p \in {"MOVE", "OWN", "OTHER"} =>
            /\ ServerMessage(MOTORMANAGER, p) \in Message
            /\ ServerMessage(STREAMMANAGER, p) \in Message
      BY SentMessages DEF PacketKinds, Tasks
    <3> QED
      BY <3>1, <3>2 DEF Dispatch
  <2>3. comm' \in [pc : {"recv", "send", "end"}, msg : Node]
        /\ (comm'.pc = "send" => comm'.msg \in Message)
    <3>1. CASE comm' = [comm EXCEPT !.pc = "end"]
      BY <3>1
    <3>2. CASE \E msg \in Message : comm' = [pc |-> "send", msg |-> msg]
      BY <3>2 DEF Node
    <3> QED
      BY <2>2, <3>1, <3>2
  <2> QED
    BY <2>1, <2>3
<1>2. CASE CommSend
  BY <1>2 DEF CommSend, Node
<1>3. CASE CommSignalEnd
  BY <1>3 DEF CommSignalEnd
<1> QED
  BY <1>1, <1>2, <1>3

(* A variable that is set to FALSE or left alone stays Boolean. *)
LEMMA BooleanStep ==
  ASSUME NEW a \in BOOLEAN, NEW b, b = FALSE \/ b = a
  PROVE  b \in BOOLEAN
OBVIOUS

(* So do the other threads. *)
LEMMA RestTypes ==
  ASSUME Inv, CameraStep \/ MotorStep
  PROVE  RestTypeOK'
<1> USE DEF Inv, TypeOK, RestTypeOK, motorVars, commVars
<1>1. CASE CameraStep
  <2>1. UNCHANGED <<packets, comm, motor, pwm>>
    BY <1>1 DEF CameraStep, StreamStep, EventStep, StreamWait, StreamWake, StreamLock,
       StreamReceive, StreamUnlock, StreamConfigure, StreamRaise, StreamSendStart,
       StreamBegin, StreamFrame, StreamStop, StreamSendStop, StreamLower, StreamRestore,
       EventLock, EventGrab, EventDecide, EventConfigure, EventEncode, EventRebuild,
       EventUnlock
  <2>2. is_end' = FALSE \/ is_end' = is_end
    BY <1>1 DEF CameraStep, StreamStep, EventStep, StreamWait, StreamWake, StreamLock,
       StreamReceive, StreamUnlock, StreamConfigure, StreamRaise, StreamSendStart,
       StreamBegin, StreamFrame, StreamStop, StreamSendStop, StreamLower, StreamRestore,
       EventLock, EventGrab, EventDecide, EventConfigure, EventEncode, EventRebuild,
       EventUnlock
  <2>3. is_end \in BOOLEAN
    OBVIOUS
  <2>4. is_end' \in BOOLEAN
    <3> HIDE DEF Inv, TypeOK, RestTypeOK
    <3> QED
      BY <2>2, <2>3, BooleanStep
  <2> QED
    BY <2>1, <2>4
<1>2. CASE MotorWait \/ MotorWake \/ MotorDone
  BY <1>2 DEF MotorWait, MotorWake, MotorDone
<1>3. CASE MotorReceive
  BY <1>3 DEF MotorReceive
<1> QED
  BY <1>1, <1>2, <1>3 DEF MotorStep

(* Inv is inductive. *)
LEMMA InvKept == Inv /\ [Next]_vars => Inv'
<1> SUFFICES ASSUME Inv, [Next]_vars PROVE Inv'
  OBVIOUS
<1>1. BusInv'
  BY BusKept
<1>2. CameraInv'
  <2>1. CASE CameraStep
    BY <2>1, CameraKept DEF Inv
  <2>2. CASE UNCHANGED camera
    BY <2>2 DEF Inv, camera, CameraInv, CameraTypeOK, LockInv, FlagInv, CommandInv,
                FormatInv, streamVars, omxVars
  <2>3. UNCHANGED vars => UNCHANGED camera
    BY DEF vars, camera
  <2> QED
    BY <2>1, <2>2, <2>3, OtherThreads, StepKinds
<1>3. RestTypeOK'
  <2>1. CASE UNCHANGED <<packets, comm, is_end, motor, pwm>>
    BY <2>1, TypeParts DEF Inv, RestTypeOK
  <2>2. CASE (\E t \in Senders : BusSend(t)) \/ BusServe
              \/ (\E t \in Waiters : BusSpuriousWakeup(t)) \/ UNCHANGED vars
    <3>1. UNCHANGED <<packets, comm, is_end, motor, pwm>>
      BY <2>2 DEF BusSend, BusServe, BusSpuriousWakeup, rest, vars, commVars, motorVars
    <3> QED
      BY <2>1, <3>1
  <2> QED
    BY <2>2, CommTypes, RestTypes, StepKinds DEF OtherStep
<1>4. TypeOK' <=> BusTypeOK' /\ RestTypeOK' /\ CameraTypeOK'
  BY DEF TypeOK, RestTypeOK, CameraTypeOK
<1>5. BusTypeOK' /\ CameraTypeOK'
  BY <1>1, <1>2 DEF BusInv, CameraInv
<1> QED
  BY <1>1, <1>2, <1>3, <1>4, <1>5 DEF Inv

(* The invariant holds in every reachable state. *)
THEOREM Invariance == Spec => []Inv
<1> QED
  BY InitInv, InvKept, PTL DEF Spec

(* Type correctness of all variables of the node. *)
THEOREM TypeCorrect == Spec => []TypeOK
<1>1. Inv => TypeOK
  BY DEF Inv
<1> QED
  BY <1>1, Invariance, PTL

(* EventManager never meets a raised flag_stream: the mutex excludes it. *)
THEOREM FlagCorrect == Spec => []FlagUnderMutex
<1>1. Inv => FlagUnderMutex
  BY DEF Inv, CameraInv, LockInv, FlagInv, FlagUnderMutex, SessionPCs, StreamHoldPCs,
         STREAMMANAGER, EVENTDETECTMANAGER
<1> QED
  BY <1>1, Invariance, PTL

(* Stream, recording and motion detection each find their own format. *)
THEOREM FormatCorrect == Spec => []PipelineFormat
<1>1. Inv => PipelineFormat
  BY DEF Inv, CameraInv, FormatInv, PipelineFormat
<1> QED
  BY <1>1, Invariance, PTL

(* Start, stop and restart commands take turns for ever. *)
THEOREM CommandsAlternate == Spec => MotorCommandsAlternate
<1> DEFINE Alternate ==
      /\ interCMD' # interCMD =>
           <<interCMD, interCMD'>> \in
             {<<"none", "S2M_FIRST_START">>, <<"S2M_FIRST_START", "S2M_STOP">>,
              <<"S2M_STOP", "S2M_RESTART">>, <<"S2M_RESTART", "S2M_STOP">>}
      /\ stream' # stream /\ stream' \in {"sendStart", "sendStop"} =>
           interCMD' # interCMD
<1>1. Inv /\ [Next]_vars => [Alternate]_vars
  <2> SUFFICES ASSUME Inv, Next PROVE Alternate
    OBVIOUS
  <2>1. CASE StreamRaise
    BY <2>1 DEF StreamRaise, Inv, CameraInv, CameraTypeOK, CommandInv, SessionPCs
  <2>2. CASE StreamStop
    BY <2>2 DEF StreamStop, Inv, CameraInv, CommandInv
  <2>3. CASE StreamSendStart \/ StreamSendStop
    BY <2>3 DEF StreamSendStart, StreamSendStop
  <2>4. CASE UNCHANGED interCMD /\ (stream' = stream \/ stream' \notin {"sendStart", "sendStop"})
    BY <2>4
  <2>5. OtherStep => UNCHANGED <<interCMD, stream>>
    BY OtherThreads DEF camera, streamVars
  <2>6. EventStep \/ EventLock \/ EventEncode => UNCHANGED <<interCMD, stream>>
    BY DEF EventStep, EventLock, EventGrab, EventDecide, EventConfigure, EventEncode,
           EventRebuild, EventUnlock, streamVars
  <2>7. StreamWait \/ StreamWake \/ StreamLock \/ StreamReceive \/ StreamUnlock
          \/ StreamConfigure \/ StreamBegin \/ StreamLower \/ StreamRestore
          \/ (\E frame \in {"key", "delta"} : StreamFrame(frame))
          => UNCHANGED interCMD /\ stream' \notin {"sendStart", "sendStop"}
    BY DEF StreamWait, StreamWake, StreamLock, StreamReceive, StreamUnlock,
           StreamConfigure, StreamBegin, StreamLower, StreamRestore, StreamFrame
  <2> QED
    BY <2>1, <2>2, <2>3, <2>4, <2>5, <2>6, <2>7, StepKinds DEF CameraStep, StreamStep
<1> QED
  BY <1>1, Invariance, PTL DEF Spec, MotorCommandsAlternate

(* The threads implement CameraUse: motion detection, recording and sessions *)
(* take turns with the camera.                                               *)
THEOREM Turns == Spec => CameraTurns
<1>1. Init => Use!UseInit
  BY DEF Init, Use!UseInit, Detector, Session, RecordPCs, StreamHoldPCs, SessionPCs
<1>2. Inv /\ [Next]_vars => [Use!UseNext]_(Use!useVars)
  <2> SUFFICES ASSUME Inv, [Next]_vars PROVE [Use!UseNext]_(Use!useVars)
    OBVIOUS
  <2> USE DEF Detector, Session, Use!useVars, RecordPCs, StreamHoldPCs, SessionPCs
  <2>1. CASE UNCHANGED <<flag_stream, stream, event>>
    BY <2>1
  <2>2. CASE EventLock
    BY <2>2 DEF EventLock, Use!UseNext, Use!Detect, Inv, CameraInv, LockInv, FlagInv,
                streamVars, Free, STREAMMANAGER, EVENTDETECTMANAGER
  <2>3. CASE EventStep \/ EventEncode
    BY <2>3 DEF EventStep, EventGrab, EventDecide, EventConfigure, EventEncode,
                EventRebuild, EventUnlock, Use!UseNext, Use!Record, Use!Leave, streamVars
  <2>4. CASE StreamLock
    BY <2>4 DEF StreamLock, Use!UseNext, Use!Open, Inv, CameraInv, LockInv, FlagInv,
                CameraTypeOK, EventHoldPCs, Free, STREAMMANAGER, EVENTDETECTMANAGER
  <2>5. CASE StreamRaise
    BY <2>5 DEF StreamRaise, Use!UseNext, Use!GoLive, Inv, CameraInv, FlagInv
  <2>6. CASE StreamLower
    BY <2>6 DEF StreamLower, Use!UseNext, Use!EndLive, Inv, CameraInv, FlagInv
  <2>7. CASE StreamUnlock
    BY <2>7 DEF StreamUnlock, Use!UseNext, Use!Close, Inv, CameraInv, FlagInv
  <2>8. CASE StreamWait \/ StreamWake \/ StreamReceive \/ StreamConfigure
               \/ StreamSendStart \/ StreamBegin \/ StreamStop \/ StreamSendStop
               \/ StreamRestore \/ (\E frame \in {"key", "delta"} : StreamFrame(frame))
    BY <2>8 DEF StreamWait, StreamWake, StreamReceive, StreamConfigure, StreamSendStart,
                StreamBegin, StreamStop, StreamSendStop, StreamRestore, StreamFrame,
                Inv, CameraInv, FlagInv
  <2>9. OtherStep \/ UNCHANGED vars => UNCHANGED <<flag_stream, stream, event>>
    BY OtherThreads DEF camera, streamVars, vars
  <2> QED
    BY <2>1, <2>2, <2>3, <2>4, <2>5, <2>6, <2>7, <2>8, <2>9, StepKinds
       DEF CameraStep, StreamStep
<1> QED
  BY <1>1, <1>2, Invariance, PTL DEF Spec, CameraTurns, Use!UseSpec
=============================================================================

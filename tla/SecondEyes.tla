----------------------------- MODULE SecondEyes -----------------------------
(***************************************************************************)
(* The five threads of the camera node around the message bus:             *)
(* CommunicationService (packets of the server), QueueServiceManager (in   *)
(* MessageBus), StreamManager, EventManager and MotorManager, with what    *)
(* they share: flag_stream, OpenMAX::is_end, mutex_EventManager, the       *)
(* condition variables and the configuration of the camera pipeline.       *)
(*                                                                         *)
(* Each thread is a record or a program counter; a step ends where another *)
(* thread can see the difference.  mutex_StreamManager and                 *)
(* mutex_MotorManager are only ever taken by the thread they are named     *)
(* after (the signalling thread does not take them), so they appear as     *)
(* the atomic release of pthread_cond_wait only.                           *)
(***************************************************************************)
EXTENDS MessageBus

CONSTANTS
  Packets,      \* the kinds of packets the server sends
  MaxPackets    \* bound: how many of them

(* RECV_MOTOR, RECV_STREAM for this camera or another one, RECV_STREAM_STOP. *)
PacketKinds == {"MOVE", "OWN", "OTHER", "STOP"}

ASSUME PacketsAssumption == Packets \subseteq PacketKinds /\ MaxPackets \in Nat

(* The commands of the stream manager to the motor manager.  The bodies of   *)
(* the other messages are packets of the server.                             *)
MotorCommands == {"S2M_FIRST_START", "S2M_RESTART", "S2M_STOP"}

ASSUME BodiesAssumption == {"MOVE", "OWN", "OTHER"} \cup MotorCommands \subseteq Bodies

Free == 0   \* nobody holds the mutex

VARIABLES
  packets,             \* packets received so far that were not ignored
  comm,                \* CommunicationService: pc and the message it sends
  flag_stream,         \* the global of MainTaskManager.cpp
  is_end,              \* OpenMAX::is_end
  mutex_EventManager,  \* Free or the task that holds it
  stream,              \* program counter of StreamManager
  flag_motor,          \* 0 never started, 1 started, 2 stopped
  interCMD,            \* last command to the motor manager, "none" at first
  quit,                \* quit_detected and quit_in_keyframe of StartStreaming
  event,               \* program counter of EventManager
  motor,               \* program counter of MotorManager
  pwm,                 \* whether the PWM threads of the two servo pins run
  width,               \* OpenMAX::omx_width, for the whole format
  capturing            \* the camera ports that are switched to capture

streamVars == <<stream, flag_motor, interCMD, quit>>
motorVars  == <<motor, pwm>>
commVars   == <<comm, packets>>
omxVars    == <<width, capturing>>

vars == <<busVars, commVars, flag_stream, is_end, mutex_EventManager, streamVars,
          event, motorVars, omxVars>>

(* Where StreamManager holds mutex_EventManager, and the part of it in which *)
(* flag_stream is set; likewise for EventManager.                            *)
SessionPCs    == {"sendStart", "begin", "stream", "stop", "sendStop", "lower"}
StreamHoldPCs == {"receive", "configure", "raise", "restore"} \cup SessionPCs
RecordPCs     == {"record", "encode", "rebuild"}
EventHoldPCs  == {"detect", "grab", "unlock"} \cup RecordPCs

(* The types of the node: in particular a message that is under way is a real *)
(* one, and a session never sends the uninitialised command of the start.     *)
TypeOK ==
  /\ BusTypeOK
  /\ packets \in Nat
  /\ comm \in [pc : {"recv", "send", "end"}, msg : Node]
  /\ (comm.pc = "send") => (comm.msg \in Message)
  /\ flag_stream \in BOOLEAN
  /\ is_end \in BOOLEAN
  /\ mutex_EventManager \in {Free, EVENTDETECTMANAGER, STREAMMANAGER}
  /\ stream \in {"start", "waiting", "lock"} \cup StreamHoldPCs
  /\ flag_motor \in 0 .. 2
  /\ interCMD \in {"none"} \cup MotorCommands
  /\ (stream \in SessionPCs) => (interCMD \in MotorCommands)
  /\ quit \in {"no", "key", "delta"}
  /\ event \in {"lock"} \cup EventHoldPCs
  /\ motor \in {"start", "waiting", "receive"}
  /\ pwm \in {"off", "on"}
  /\ width \in {320, 352, 1280}
  /\ capturing \subseteq {71, 72}

(* The state in which MainTaskManager::Run starts the threads, after the     *)
(* constructors of CameraManager and CommunicationService (which took a      *)
(* snapshot and switched port 72 off again).                                 *)
Init ==
  /\ BusInit
  /\ packets = 0
  /\ comm = [pc |-> "recv", msg |-> Garbage]
  /\ flag_stream = FALSE
  /\ is_end = FALSE
  /\ mutex_EventManager = Free
  /\ stream = "start"
  /\ flag_motor = 0
  /\ interCMD = "none"
  /\ quit = "no"
  /\ event = "lock"
  /\ motor = "start"
  /\ pwm = "off"
  /\ width = 352
  /\ capturing = {}

-----------------------------------------------------------------------------
(* CommunicationService::Run.  Its own receive queue is never addressed, so  *)
(* the ReceiveMessage after each packet finds nothing.                       *)

ServerMessage(dest, body) == [dest |-> dest, priority |-> 2, body |-> body]

Dispatch(msg) == comm' = [pc |-> "send", msg |-> msg]

(* ParsingMessage up to the decision what to do with the packet.  One that   *)
(* it ignores (a request during a session, a stop without one) changes       *)
(* nothing; MaxPackets bounds the others.                                    *)
CommReceive ==
  /\ comm.pc = "recv"
  /\ sending[COMMUNICATIONSERVICE].pc = "idle"
  /\ packets < MaxPackets
  /\ packets' = packets + 1
  /\ \E p \in Packets :
       \/ p = "MOVE" /\ Dispatch(ServerMessage(MOTORMANAGER, p))
       \/ /\ p \in {"OWN", "OTHER"} /\ ~flag_stream
          /\ Dispatch(ServerMessage(STREAMMANAGER, p))
       \/ p = "STOP" /\ flag_stream /\ comm' = [comm EXCEPT !.pc = "end"]
  /\ UNCHANGED <<busVars, flag_stream, is_end, mutex_EventManager, streamVars, event,
                 motorVars, omxVars>>

CommSend ==
  /\ comm.pc = "send"
  /\ BeginSend(COMMUNICATIONSERVICE, comm.msg)
  /\ comm' = [pc |-> "recv", msg |-> Garbage]
  /\ UNCHANGED <<packets, flag_stream, is_end, mutex_EventManager, streamVars, event,
                 motorVars, omxVars>>

(* OpenMAX::SignalEnd, called on the strength of the flag_stream read before. *)
CommSignalEnd ==
  /\ comm.pc = "end"
  /\ is_end' = TRUE
  /\ comm' = [comm EXCEPT !.pc = "recv"]
  /\ UNCHANGED <<busVars, packets, flag_stream, mutex_EventManager, streamVars, event,
                 motorVars, omxVars>>

-----------------------------------------------------------------------------
(* The bus: the rest of a SendMessage in progress, and QueueServiceManager.  *)

rest == <<commVars, flag_stream, is_end, mutex_EventManager, streamVars, event,
          motorVars, omxVars>>

BusSend(t) == SendStep(t) /\ UNCHANGED rest
BusServe   == ServiceStep /\ UNCHANGED rest
BusSpuriousWakeup(t) == SpuriousWakeup(t) /\ UNCHANGED rest

-----------------------------------------------------------------------------
(* OpenMAX::ResetConfigure(w, ., ., port): the new format, then the port is  *)
(* switched to capture.  No port is ever switched off by it.                 *)
ResetConfigure(w, port) ==
  /\ width' = w
  /\ capturing' = capturing \cup {port}

(* StreamManager::Run.                                                       *)

StreamWait ==
  /\ stream = "start"
  /\ CondWait(STREAMMANAGER)
  /\ stream' = "waiting"
  /\ UNCHANGED <<commVars, flag_stream, is_end, mutex_EventManager, flag_motor,
                 interCMD, quit, event, motorVars, omxVars>>

StreamWake ==
  /\ stream = "waiting"
  /\ STREAMMANAGER \notin waiting
  /\ stream' = "lock"
  /\ UNCHANGED <<busVars, commVars, flag_stream, is_end, mutex_EventManager, flag_motor,
                 interCMD, quit, event, motorVars, omxVars>>

StreamLock ==
  /\ stream = "lock"
  /\ mutex_EventManager = Free
  /\ mutex_EventManager' = STREAMMANAGER
  /\ stream' = "receive"
  /\ UNCHANGED <<busVars, commVars, flag_stream, is_end, flag_motor, interCMD, quit,
                 event, motorVars, omxVars>>

(* The next message; one that names another camera is dropped.               *)
StreamReceive ==
  /\ stream = "receive"
  /\ ReceiveMessage(STREAMMANAGER)
  /\ stream' = IF NextMail(STREAMMANAGER).body = "OWN" THEN "configure" ELSE "receive"
  /\ UNCHANGED <<commVars, flag_stream, is_end, mutex_EventManager, flag_motor,
                 interCMD, quit, event, motorVars, omxVars>>

(* Mutant: the mutex is not released.                                        *)
StreamUnlockForgets ==
  /\ stream = "receive"
  /\ ~HasMail(STREAMMANAGER)
  /\ stream' = "start"
  /\ UNCHANGED <<busVars, commVars, flag_stream, is_end, mutex_EventManager, flag_motor,
                 interCMD, quit, event, motorVars, omxVars>>

StreamUnlock ==
  /\ stream = "receive"
  /\ ~HasMail(STREAMMANAGER)
  /\ mutex_EventManager' = Free
  /\ stream' = "start"
  /\ UNCHANGED <<busVars, commVars, flag_stream, is_end, flag_motor, interCMD, quit,
                 event, motorVars, omxVars>>

StreamConfigure ==
  /\ stream = "configure"
  /\ ResetConfigure(352, 71)
  /\ stream' = "raise"
  /\ UNCHANGED <<busVars, commVars, flag_stream, is_end, mutex_EventManager, flag_motor,
                 interCMD, quit, event, motorVars>>

StreamRaise ==
  /\ stream = "raise"
  /\ flag_stream' = TRUE
  /\ interCMD' = CASE flag_motor = 0 -> "S2M_FIRST_START"
                   [] flag_motor = 2 -> "S2M_RESTART"
                   [] OTHER -> interCMD
  /\ flag_motor' = 1
  /\ stream' = "sendStart"
  /\ UNCHANGED <<busVars, commVars, is_end, mutex_EventManager, quit, event, motorVars,
                 omxVars>>

MotorMessage(body) == [dest |-> MOTORMANAGER, priority |-> 1, body |-> body]

StreamSendStart ==
  /\ stream = "sendStart"
  /\ BeginSend(STREAMMANAGER, MotorMessage(interCMD))
  /\ stream' = "begin"
  /\ UNCHANGED <<commVars, flag_stream, is_end, mutex_EventManager, flag_motor,
                 interCMD, quit, event, motorVars, omxVars>>

(* The entry of StartStreaming, which clears is_end.                         *)
StreamBegin ==
  /\ stream = "begin"
  /\ sending[STREAMMANAGER].pc = "idle"
  /\ is_end' = FALSE
  /\ quit' = "no"
  /\ stream' = "stream"
  /\ UNCHANGED <<busVars, commVars, flag_stream, mutex_EventManager, flag_motor,
                 interCMD, event, motorVars, omxVars>>

(* Mutant: the sync flag is taken again with every buffer.                   *)
StreamFrameRelatches(frame) ==
  /\ stream = "stream"
  /\ quit' = IF is_end THEN frame ELSE quit
  /\ stream' = IF quit' \notin {"no", frame} THEN "stop" ELSE "stream"
  /\ UNCHANGED <<busVars, commVars, flag_stream, is_end, mutex_EventManager, flag_motor,
                 interCMD, event, motorVars, omxVars>>

(* One encoder buffer of the loop in StartStreaming.  After is_end was seen, *)
(* the loop ends with the first buffer whose sync flag differs from the one  *)
(* it was seen with.                                                         *)
StreamFrame(frame) ==
  /\ stream = "stream"
  /\ quit' = IF is_end /\ quit = "no" THEN frame ELSE quit
  /\ stream' = IF quit' \notin {"no", frame} THEN "stop" ELSE "stream"
  /\ UNCHANGED <<busVars, commVars, flag_stream, is_end, mutex_EventManager, flag_motor,
                 interCMD, event, motorVars, omxVars>>

(* The locals of StartStreaming are gone.  SwitchCapturePort(72, OMX_FALSE).  *)
StreamStop ==
  /\ stream = "stop"
  /\ capturing' = capturing \ {72}
  /\ interCMD' = "S2M_STOP"
  /\ stream' = "sendStop"
  /\ quit' = "no"
  /\ UNCHANGED <<busVars, commVars, flag_stream, is_end, mutex_EventManager, flag_motor,
                 event, motorVars, width>>

StreamSendStop ==
  /\ stream = "sendStop"
  /\ BeginSend(STREAMMANAGER, MotorMessage(interCMD))
  /\ stream' = "lower"
  /\ UNCHANGED <<commVars, flag_stream, is_end, mutex_EventManager, flag_motor,
                 interCMD, quit, event, motorVars, omxVars>>

(* Mutant: flag_stream stays set.                                            *)
StreamLowerKeepsFlag ==
  /\ stream = "lower"
  /\ sending[STREAMMANAGER].pc = "idle"
  /\ flag_motor' = 2
  /\ stream' = "restore"
  /\ UNCHANGED <<busVars, commVars, flag_stream, is_end, mutex_EventManager, interCMD,
                 quit, event, motorVars, omxVars>>

(* Mutant: flag_motor is not set to 2.                                       *)
StreamLowerKeepsMotor ==
  /\ stream = "lower"
  /\ sending[STREAMMANAGER].pc = "idle"
  /\ flag_stream' = FALSE
  /\ stream' = "restore"
  /\ UNCHANGED <<busVars, commVars, is_end, mutex_EventManager, flag_motor, interCMD, quit,
                 event, motorVars, omxVars>>

StreamLower ==
  /\ stream = "lower"
  /\ sending[STREAMMANAGER].pc = "idle"
  /\ flag_motor' = 2
  /\ flag_stream' = FALSE
  /\ stream' = "restore"
  /\ UNCHANGED <<busVars, commVars, is_end, mutex_EventManager, interCMD, quit, event,
                 motorVars, omxVars>>

StreamRestore ==
  /\ stream = "restore"
  /\ ResetConfigure(320, 72)
  /\ stream' = "receive"
  /\ UNCHANGED <<busVars, commVars, flag_stream, is_end, mutex_EventManager, flag_motor,
                 interCMD, quit, event, motorVars>>

StreamStep ==
  \/ StreamWait \/ StreamWake \/ StreamReceive \/ StreamUnlock \/ StreamConfigure
  \/ StreamRaise \/ StreamSendStart \/ StreamBegin \/ StreamStop \/ StreamSendStop
  \/ StreamLower \/ StreamRestore

-----------------------------------------------------------------------------
(* EventManager::Run.                                                        *)

(* Mutant: EventManager does not wait for the mutex.                         *)
EventLockIgnores ==
  /\ event = "lock"
  /\ mutex_EventManager' = EVENTDETECTMANAGER
  /\ event' = "detect"
  /\ UNCHANGED <<busVars, commVars, flag_stream, is_end, streamVars, motorVars, omxVars>>

EventLock ==
  /\ event = "lock"
  /\ mutex_EventManager = Free
  /\ mutex_EventManager' = EVENTDETECTMANAGER
  /\ event' = "detect"
  /\ UNCHANGED <<busVars, commVars, flag_stream, is_end, streamVars, motorVars, omxVars>>

(* BackgroundSubtraction switches port 72 on, takes a frame and switches the *)
(* port off, twice.  The second round repeats the first.                     *)
EventGrab ==
  /\ event = "detect"
  /\ capturing' = capturing \cup {72}
  /\ event' = "grab"
  /\ UNCHANGED <<busVars, commVars, flag_stream, is_end, mutex_EventManager, streamVars,
                 motorVars, width>>

(* The frames differ or not; flag_stream is read after that.                 *)
EventDecide ==
  /\ event = "grab"
  /\ capturing' = capturing \ {72}
  /\ \E moved \in BOOLEAN :
       event' = IF moved /\ ~flag_stream THEN "record" ELSE "unlock"
  /\ UNCHANGED <<busVars, commVars, flag_stream, is_end, mutex_EventManager, streamVars,
                 motorVars, width>>

EventConfigure ==
  /\ event = "record"
  /\ ResetConfigure(1280, 71)
  /\ event' = "encode"
  /\ UNCHANGED <<busVars, commVars, flag_stream, is_end, mutex_EventManager, streamVars,
                 motorVars>>

(* EventMake, send_Event, VideoEncode and send_file; then port 71 is off and *)
(* the components go down to Loaded.  Nothing says that a recording ends: no *)
(* fairness is assumed for this step.                                        *)
EventEncode ==
  /\ event = "encode"
  /\ capturing' = capturing \ {71}
  /\ event' = "rebuild"
  /\ UNCHANGED <<busVars, commVars, flag_stream, is_end, mutex_EventManager, streamVars,
                 motorVars, width>>

(* Mutant: the format of the recording is not replaced.                      *)
EventRebuildKeepsFormat ==
  /\ event = "rebuild"
  /\ capturing' = {72}
  /\ event' = "unlock"
  /\ UNCHANGED <<busVars, commVars, flag_stream, is_end, mutex_EventManager, streamVars,
                 motorVars, width>>

(* InitComponent ... SwitchCapturePort(72, OMX_TRUE): fresh components.      *)
EventRebuild ==
  /\ event = "rebuild"
  /\ width' = 352
  /\ capturing' = {72}
  /\ event' = "unlock"
  /\ UNCHANGED <<busVars, commVars, flag_stream, is_end, mutex_EventManager, streamVars,
                 motorVars>>

EventUnlock ==
  /\ event = "unlock"
  /\ mutex_EventManager' = Free
  /\ event' = "lock"
  /\ UNCHANGED <<busVars, commVars, flag_stream, is_end, streamVars, motorVars, omxVars>>

EventStep ==
  EventGrab \/ EventDecide \/ EventConfigure \/ EventRebuild \/ EventUnlock

-----------------------------------------------------------------------------
(* MotorManager::Run.                                                        *)

MotorWait ==
  /\ motor = "start"
  /\ CondWait(MOTORMANAGER)
  /\ motor' = "waiting"
  /\ UNCHANGED <<commVars, flag_stream, is_end, mutex_EventManager, streamVars, event,
                 pwm, omxVars>>

MotorWake ==
  /\ motor = "waiting"
  /\ MOTORMANAGER \notin waiting
  /\ motor' = "receive"
  /\ UNCHANGED <<busVars, commVars, flag_stream, is_end, mutex_EventManager, streamVars,
                 event, pwm, omxVars>>

(* A command of the stream manager ends the loop (break); a motor packet     *)
(* moves the servos and the loop goes on.                                    *)
MotorReceive ==
  /\ motor = "receive"
  /\ ReceiveMessage(MOTORMANAGER)
  /\ LET body == NextMail(MOTORMANAGER).body IN
       /\ motor' = IF body \in MotorCommands THEN "start" ELSE "receive"
       /\ pwm' = CASE body \in {"S2M_FIRST_START", "S2M_RESTART"} -> "on"
                   [] body = "S2M_STOP" -> "off"
                   [] OTHER -> pwm
  /\ UNCHANGED <<commVars, flag_stream, is_end, mutex_EventManager, streamVars, event,
                 omxVars>>

MotorDone ==
  /\ motor = "receive"
  /\ ~HasMail(MOTORMANAGER)
  /\ motor' = "start"
  /\ UNCHANGED <<busVars, commVars, flag_stream, is_end, mutex_EventManager, streamVars,
                 event, pwm, omxVars>>

MotorStep == MotorWait \/ MotorWake \/ MotorReceive \/ MotorDone

-----------------------------------------------------------------------------
Next ==
  \/ CommReceive \/ CommSend \/ CommSignalEnd
  \/ \E t \in Senders : BusSend(t)
  \/ BusServe
  \/ \E t \in Waiters : BusSpuriousWakeup(t)
  \/ StreamStep \/ StreamLock
  \/ \E frame \in {"key", "delta"} : StreamFrame(frame)
  \/ EventStep \/ EventLock \/ EventEncode
  \/ MotorStep

Spec == Init /\ [][Next]_vars

(* Every thread runs on, except that a recording may last for ever.  A       *)
(* thread that keeps finding mutex_EventManager free gets it in the end:     *)
(* both contenders sleep a millisecond after unlocking.  During a stream the *)
(* encoder emits key frames and others again and again.                      *)
Fairness ==
  /\ WF_vars(CommSend \/ CommSignalEnd)
  /\ \A t \in Senders : WF_vars(BusSend(t))
  /\ WF_vars(BusServe)
  /\ SF_vars(StreamStep \/ StreamLock)
  /\ \A frame \in {"key", "delta"} : SF_vars(StreamFrame(frame))
  /\ SF_vars(EventStep \/ EventLock)
  /\ WF_vars(MotorStep)

FairSpec == Spec /\ Fairness

-----------------------------------------------------------------------------
(* Safety.                                                                   *)

(* flag_stream is only raised while StreamManager holds mutex_EventManager,  *)
(* so that EventManager, which tests it under that mutex, never sees it set: *)
(* the test in EventManager::Run cannot fail, it is the mutex that keeps     *)
(* motion detection and recording out of a live session.                     *)
FlagUnderMutex ==
  /\ flag_stream => (mutex_EventManager = STREAMMANAGER /\ stream \in SessionPCs)
  /\ event \in EventHoldPCs => ~flag_stream

(* Each user finds the pipeline in the format it set up, with its port       *)
(* capturing, whatever the other threads did in between: the frames of a     *)
(* stream are 352 wide, those of a recording 1280, and motion detection gets *)
(* small images from port 72, never full ones left over from a recording.    *)
PipelineFormat ==
  /\ stream = "stream" => (width = 352 /\ 71 \in capturing)
  /\ event = "encode" => (width = 1280 /\ 71 \in capturing)
  /\ event = "grab" => (width \in {320, 352} /\ 72 \in capturing)

(* The commands StreamManager gives to the motor: a first start once, then   *)
(* stop and restart in turn, however many requests arrive; every session     *)
(* begins and ends with a command of its own.                                *)
MotorCommandsAlternate ==
  [][ /\ interCMD' # interCMD =>
           <<interCMD, interCMD'>> \in
             {<<"none", "S2M_FIRST_START">>, <<"S2M_FIRST_START", "S2M_STOP">>,
              <<"S2M_STOP", "S2M_RESTART">>, <<"S2M_RESTART", "S2M_STOP">>}
      /\ stream' # stream /\ stream' \in {"sendStart", "sendStop"} =>
           interCMD' # interCMD ]_vars

(* The threads implement the turns of CameraUse.                             *)
Detector == IF event \in RecordPCs THEN "record"
            ELSE IF event \in {"detect", "grab"} THEN "detect" ELSE "off"
Session  == IF flag_stream THEN "live"
            ELSE IF stream \in StreamHoldPCs THEN "open" ELSE "none"

Use == INSTANCE CameraUse WITH detector <- Detector, session <- Session

CameraTurns == Use!UseSpec

-----------------------------------------------------------------------------
(* Liveness, under FairSpec.  A program with a damaged deque may crash, so    *)
(* that nothing is promised from then on.                                    *)

(* A stop of the server that reaches a running stream ends the session: once *)
(* the loop of StartStreaming runs, is_end is not lost.                      *)
StopEndsSession ==
  (stream = "stream" /\ (is_end \/ comm.pc = "end")) ~> (~flag_stream \/ damaged)

(* Motion detection goes on whenever no session is live: neither a stream    *)
(* that ended nor a recording that ended leaves mutex_EventManager locked.   *)
(* Only a recording that never ends keeps the camera.                        *)
DetectionGoesOn ==
  <>[](event = "encode") \/ []<>(event = "grab" \/ flag_stream \/ damaged)

(* A manager that waits when its message is signalled comes to read it.      *)
(* StreamManager may have to wait for a recording first, and waits in vain   *)
(* only if that recording never ends.                                        *)
SignalServed ==
  /\ (service.pc = "signal" /\ service.msg.dest \in waiting \cap {STREAMMANAGER})
       ~> (stream = "receive" \/ damaged \/ [](event = "encode"))
  /\ (service.pc = "signal" /\ service.msg.dest \in waiting \cap {MOTORMANAGER})
       ~> (motor = "receive" \/ damaged)

-----------------------------------------------------------------------------
(* What a comment of the code claims and the code does not do.               *)

(* MotorManager.cpp:88: the loop handles all messages that exist.  MotorManager *)
(* does not go back to its condition variable with a message in its queue.   *)
MotorLoopHandlesAll ==
  [][ motor = "receive" /\ motor' = "start" => ~HasMail(MOTORMANAGER)' ]_vars
=============================================================================

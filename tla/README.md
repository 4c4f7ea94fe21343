# RaspberryPi-SecondEyes in TLA+

SecondEyes is the camera node of a surveillance system: a Raspberry Pi with a
camera on two servo motors that watches for motion, records an event when it
sees one, streams live video when the server asks for it and turns the camera
when the server tells it to. This directory holds its TLA+ specifications, the
TLC configurations that check them and the proofs that TLAPS checks.

Line numbers refer to the files under `src/`.

## 1. Inventory

### Components

| component | state | operations | talks to |
|---|---|---|---|
| `QueueManager`, `Message`, `ReceiveQueue`, `TaskManager` (Core, Entity) | `serviceQueue` (a `std::deque<Message>`), the registered receive queues | `SendMessage` (any manager thread), `SendServiceMessage`, `ReceiveMessage` | all managers |
| `QueueServiceManager` thread | its local `_message` | polls `SendServiceMessage`, then `pthread_cond_signal` | the condition variables of the motor and the stream manager |
| `CommunicationService` thread | packet buffer of `ClientSocket` | `ParsingMessage`: one packet of the server, dispatch | sends messages of priority 2; reads `flag_stream`; `OpenMAX::SignalEnd` |
| `StreamManager` thread | `flag_motor`, `interCMD`, sets `flag_stream` | waits for a request, holds `mutex_EventManager` and runs the live session | motor manager (priority 1), OpenMAX, RTSP thread |
| `EventManager` thread | two frames, thresholds | background subtraction, recording of 15 s, sending of the file | OpenMAX, ClientSocket, `mutex_EventManager` |
| `MotorManager` thread | `pwm1`, `pwm2`, `_x`, `_y`, the PWM threads of two pins | first start, restart, stop, move | softPwm |
| `OpenMAX`, `CameraManager` | component states, ports, buffers, format, `ctx` flags set by callbacks | build and tear down the pipeline, reconfigure, capture, encode, stream | the Broadcom OMX components (external) |
| `PI_MEMORY_BUFFER`, `piMemoryBufferedSource`, RTSP server thread | frame being collected, newest complete frame, sps/pps, `nFrameIdx` | `push_frame_data`, `doGetNextFrame` | live555 (external) |
| `ClientSocket` | one TCP socket, one packet object per kind, `sended`, `entire_size`, `fd` | login, recv, send of files, events, URLs | server |
| `MainTaskManager`, `Thread`, `main` | mutexes, condition variables, the five thread objects | initialise, register, start, join | all |
| `JpegManager`, conversion in `OpenMAX` | the tables from YUV to RGB | `yuv420_to_rgb`, `write_JPEG_file` | libjpeg (external) |
| `omx_dump.cpp`, `jmorecfg.h` | none | debugging output, a copy of a libjpeg header | - |

### Interactions

    server --TCP--> CommunicationService --SendMessage(prio 2)--> serviceQueue
                        |  is_end = 1                                 |
                        v                                             v
                    OpenMAX <--- StreamManager <--signal--- QueueServiceManager
                        ^             | SendMessage(prio 1)           |
                        |             +------> serviceQueue           | signal
                  EventManager                                        v
                  (mutex_EventManager shared with StreamManager)  MotorManager

Shared state without a lock: `serviceQueue` (three threads), the receive queues
(two threads each), `flag_stream` (three threads), `is_end` (two threads), the
one `ClientSocket` object (the receiving, the event and the RTSP threads),
`_port` of the RTSP threads, the one `cap_frame` that every capture returns.

### What is hard

* `serviceQueue` is a deque that two threads push to and one pops from at the
  same time; `front()` is read while the deque may be empty.
* Condition variables are signalled without the mutex and waited for without a
  predicate: a signal that comes early is lost, a wakeup may be spurious.
* `flag_stream` is read at one point and acted upon at another; `is_end` is
  cleared by the thread that is to be stopped.
* A live session, a recording and motion detection share one camera pipeline
  whose format and capturing ports each of them changes.
* The pipeline is driven by callbacks of other threads and by busy loops, one of
  which tests a variable that was never initialised.
* The end of a stream and of a recording depends on flags of the buffers that
  arrive, and the recording on the second in which they arrive.
* TCP is a stream, the program reads it as packets; the buffer of the packet
  before is not cleared, and the end of the connection is not noticed.
* Descriptors, ports, threads and frames are acquired and not given back.
* A picture passes from the slices of the camera through three buffers and four
  sets of pointers before it is compared or sent.

### What makes each component correct

* bus: no message lost, repeated or reordered and the service thread never stuck,
  as long as no two operations on the unlocked deque race;
* stream and event manager: they take turns, each finds the pipeline in its own
  format, a stop ends the session, and only a recording that does not end keeps
  the camera;
* motor manager: the commands are sent to it alternately, all mail handled;
* OpenMAX: operations in an order the components allow, buffers used only by
  their owner, whole frames in a recording;
* RTSP buffer: only whole frames, in order, each at most once;
* ClientSocket: the packets of a file carry the file, an event is followed by
  its file, a session by its address, commands are executed as they were sent;
* pictures: what is sent shows what was captured, motion is what the camera saw.

## 2. Plan

In this order; what is done is marked.

1. `MessageBus` (done): the bus, with the beginning and the end of each operation
   on the deque and the parts of it they touch. `MCMessageBus` adds bounded traffic.
2. `SecondEyes` (done): the five threads around the bus, composed by EXTENDS.
   `CameraUse` (done) is the abstract specification of the shared camera, which
   `SecondEyes` implements.
3. `MessageBusProofs`, `SecondEyesProofs` (done): inductive invariants of both,
   the safety properties and the refinement.
4. `EncoderLoop` and `EncoderLoopProofs` (done): the handshake of `VideoEncode`
   and `StartStreaming` with the encoder; a recording holds whole frames and ends.
5. `RtspBuffer` (done): `PI_MEMORY_BUFFER` between the encoder loop and
   `doGetNextFrame`. `FrameCell` (done) is its abstract specification: a cell
   that holds the newest frame.
6. `OmxPipeline` (done): component states, ports, buffers and flushes under the
   sequences of operations its callers issue; `block_until_flushed`.
7. `FrameCapture` (done): the unpacking of slices in `OMXCaptureFrame`.
   `Subtraction` (done): the comparison of two frames.
   `Snapshot` (done): conversion and JPEG file. `Pictures` (done) composes the
   three, from the scene to the decision.
8. `ServerCommands`, `ServerConnection` (done): `recv`, the start-up, uploads,
   live sessions and RTSP threads on one socket. `Upload` (done) is the abstract
   specification of what the server gets.
9. `ServerConnectionProofs` (done): types, the commands, the addresses and the
   refinement of `Upload`.
10. `RtspBufferProofs` (done): types, the bound of the buffer, whole frames and
    the refinement of `FrameCell`.
11. `OmxPipelineProofs` (done): the buffers, the legal transitions and the
    readiness of what is used. `PicturesProofs` (done): the bounds of the copies,
    the snapshot and the decision for every format. `MCMessageBusProofs` (done):
    order and completeness of the bus for any number of messages.
12. `MotorControl` (left): the values written to the pins and their bounds.
13. A FIFO per sender as an abstract specification of the bus (left), which
    `MessageBus` implements as long as no two deque operations race.

## 3. The modules and the code

### MessageBus, MCMessageBus

`src/Core/QueueManager.cpp`, `QueueServiceManager.cpp`, `TaskManager.cpp`,
`src/Entity/ReceiveQueue.cpp`, `Message.cpp`.

`serviceQueue` is a `std::deque<Message>` and no operation on it takes a lock.
Overlapping operations on it are therefore modelled as what they are, data races,
but only where they are ones. A `Message` is larger than 512 bytes, so that a
node of the deque of libstdc++ holds one message, and every push and pop moves a
pointer:

| operation | touches |
|---|---|
| `push_back` | `finish` |
| `push_front` | `start` and the front: the new node is the front before it is filled |
| a push that finds no room in the map | `start` and `finish` besides: it recentres or reallocates the map |
| from `front` up to `pop_front` | the front |
| `pop_front` | the front and `start` |

An operation has a first and a last step (`BeginPush`, `EndPush`; `TakeFront`,
`BeginPop`, `EndPop`). Whether a push finds room in the map is left open. Two
operations that are under way at the same time and touch the same part are a race
(`Race`) and the deque is `damaged` from then on; two that touch different parts
(a `push_back` with room and a `pop_front`, say) are not, and their overlap is what
`ExactlyOnceUndamaged` is about. After a race nothing is known of the deque. The
service thread may then take (`TakeStray`) bytes in which `getDest` finds no
registered task (`Garbage`, reported and dropped) or whatever message the recycled
memory shows (`Recycled`), which is delivered and signalled like any other. That is
also what it copies when it looks at a front that `push_front` has not filled yet.
A damaged deque may as well crash the node: nothing is promised from then on, and
each property of the bus says so.

The comparison of `SendMessage` is a read of its own (`BeginSend`). `front()` of an
empty deque, and one that is read while `push_front` or `pop_front` changes the
front, may show anything, so that the choice of the end is free (`ReadsAnything`).
`waiting` holds the managers that are blocked in `pthread_cond_wait`, and
`receiveQueue` their queues; `Signal` reaches a manager only if it waits. A push or
a pop of a receive queue is atomic.

`MCMessageBus` adds the traffic: the communication thread sends with priority 2,
the stream manager with priority 1, each a bounded number of messages that are
numbered so that losses, repetitions and overtaking show. Its history variables say
whether a priority was compared while the front was changing (`misled`) and
whether both senders were inside `SendMessage` together (`overlapped`). The order of
the server's commands (`ServerOrder`) holds although the senders may overlap, but
not if one was misled; the documented order of priorities (`LowestNumberFirst`)
fails even when they never overlap.

### SecondEyes, MCSecondEyes, CameraUse

`src/Core/CommunicationService.cpp`, `src/Camera/StreamManager.cpp`,
`EventDetectManager.cpp`, `src/Motor/MotorManager.cpp`, `MainTaskManager.cpp`.

| thread | state | actions |
|---|---|---|
| CommunicationService | `comm`: program counter and message | `CommReceive`, `CommSend`, `CommSignalEnd` |
| QueueServiceManager | in `MessageBus` | `BusServe` |
| StreamManager | `stream`, `flag_motor`, `interCMD`, `quit` | `StreamWait` to `StreamRestore` |
| EventManager | `event` | `EventLock`, `EventGrab`, `EventDecide`, `EventConfigure`, `EventEncode`, `EventRebuild`, `EventUnlock` |
| MotorManager | `motor`, `pwm` | `MotorWait`, `MotorWake`, `MotorReceive`, `MotorDone` |

A step ends where another thread can see the difference: at each read and write
of `flag_stream`, `is_end`, `mutex_EventManager`, the bus and the configuration
of the pipeline. `CommSend` and `CommSignalEnd` are separate from `CommReceive`
because `flag_stream` is tested at one point and acted upon at another. Waking
up from `pthread_cond_wait` without a signal is an action (`BusSpuriousWakeup`).
`StreamFrame` stands for the loop of `StartStreaming` in which `is_end` is
looked at, and `EventEncode` for a recording; `EncoderLoop` has the detail of both.
A recording need not end (`encoderStall`), so that no fairness is assumed for
`EventEncode` and the liveness properties except the recording that does not. The
MAC address, file names and the
sending of the recording change no state that other threads read.

`CameraUse` says what the threads promise: detection, recording and live
sessions take turns. `SecondEyes` implements it (`CameraTurns`), with what the
camera is used for computed from the program counters.

### EncoderLoop

`OpenMAX::VideoEncode` and `StartStreaming` (`src/Camera/OpenMax.cpp:1026-1142`).
One action per stage of the loop body: `Time`, `Test`, `Exit` or `Write`,
`Refill`, `Fill`; `FillDone` is the callback, `SignalEnd` the communication
thread, `Tick` the clock. `Flush` and `Flushed` are what the configuration
before every call does to the buffer and to the flag. `elapsed` stops counting
when it has passed `record_time`, since the code only tests for equality.
`Steady` states that the loop processes a buffer in every second, which is what
the recording relies on.

### RtspBuffer, FrameCell

`src/RTSP/piMemoryBufferType.cpp`, `piMemoryBufferedSource.cpp`. `PushSps`,
`PushPps`, `PushStart` and `PushTrailing` are `push_frame_data` by the kind of
the buffer that the encoder emits; `doGetNextFrame` is the reader with the
alternation of sps, pps and frames. A piece is its frame, its part and whether
it is the last; lengths are kept because the buffer is bounded. `FrameCell`: a
cell with the newest frame, which the reader takes at most once.

### OmxPipeline

`OpenMAX` as it is called by `CameraManager`, `EventManager` and
`StreamManager`. The program is a script of calls, one operation of OMX each:
`Build`, `ResetConfigure`, `SwitchBufferFlush`, `SwitchStateLoaded` and
`InitComponent` are sequences written down as the code has them, and `Begin`
chooses the script of the next caller. An action of the program (`SendCommand`,
`SetupTunnel`, `Allocate`, `Free`, `FillThisBuffer`, `SetCapturing`, `Use`, ...)
executes the first call of the script and waits where the code waits. A
component executes the commands it was sent in their order (`ChangeState`,
`ChangePort`, `Flush`). A recording or a stream (the `Use` of "encode") may last for
ever. A transition that OMX would refuse leaves the state as
it is, and `TransitionsLegal` says that none is asked for. `camera_portdef`
is the one structure that every configuration step overwrites.

### FrameCapture, Snapshot, Subtraction, Pictures, MCPictures

`FrameCapture` is `OMXCaptureFrame` with `get_i420_frame_info`;
`OMXCaptureImage` contains the same loop. The frame is a function from bytes to
where each was copied from (image, slice, position), so that a byte at the wrong
place, one of another image and one that is missing all show.

`Snapshot` is what follows in `OMXCaptureImage`: `yuv420_to_rgb` block by block
with its three pointers, and `write_JPEG_file` row by row. A pixel of the output
keeps the bytes it was converted from; the tables (`YUV_B`, `YUV_G`, `YUV_R`) are
functions of the values of these bytes, with the factors of the code times 1000.

`Subtraction` is `EventManager::Subtraction`, pixel by pixel. `SEImage` is copied
without its pixels, therefore `dest` and `temp` are one array; `first` is a
history variable that keeps the frame as it was captured.

`Pictures` composes them by EXTENDS in the order in which the node uses them: one
snapshot (`job` = "snapshot", "file"), then comparisons for ever ("first",
"second", "compare"). `scene` is what the camera sees when an image is taken,
`Luminance` follows a byte of the frame back to it, and `seen` remembers the two
scenes of a comparison. `FirstFrame` is what the pointer that was copied in
`EventDetectManager.cpp:55-57` points to after the second capture: the first
frame still, because every capture allocates. `MotionSeen` leaves scenes at the very
thresholds open: there the code and its comments disagree, which is the matter of
`MotionFromThresholds` and the run `motionThresholds`.

| module | state | actions |
|---|---|---|
| FrameCapture | loop, callback flags, camera, buffer, frame | `Begin`, `TakeBuffer`, `NoBuffer`, `Refill`, `Leave`; camera: `FillDone`, `BufferFlag` |
| Snapshot | stage, block, pointers, picture, rows of the file | `BeginConversion`, `ConvertBlock`, `OpenFails`, `WriteScanline`, `CloseFile` |
| Subtraction | two frames, pixel, count | `Capture`, `ComparePixel`, `Return` |
| Pictures | job, scene, `temp.pData`, result | the actions above, with what surrounds them |

### ServerCommands, ServerConnection, Upload

`src/Socket/ClientSocket.cpp`, `src/Core/CommunicationService.cpp`,
`src/RTSP/piRtspServer.cpp`, and what `EventManager` and `StreamManager` do with
them. A packet of the server is two units, its head and the rest; `inbound` holds
the units that wait in the socket, `pkg_recv` the first two units of the packet
buffer. `Receive` takes any number of units that wait: several packets at once,
of which only the first is executed, or a head without its rest, with the rest of
the packet before still in the buffer. `ReceiveEnd` is a `recv` that returns 0,
`ReceiveFails` one that returns -1 (here or in the login), after which
`error_handling` ends the process.
The histories `dispatched`, `cut` and `paced` are what the properties speak of.

| thread | state | actions |
|---|---|---|
| start-up (constructor of `CommunicationService`) | `up` | `login_camera_id`, `send_MAC`, `CaptureImage`, then the snapshot is sent |
| CommunicationService | `pkg_recv` | `ParsingMessage` (`Receive` or `ReceiveEnd`, then `Execute`), `ReceiveFails` |
| EventManager | `up`, `disk` | `Detect`, `send_Event`, `VideoEncode`, `Open`, `OpenFails`, `SendHead`, `SendData`, `Complete` |
| StreamManager | `stream`, `requests`, `flag_stream`, `is_end` | `StreamRaise`, `StreamBegin`, `StreamEnd`, `StreamUnlock` |
| RTSP thread of a session | `rtsp`, `_port`, `send_stream_addr` | `CreateServer`, `CreateFails`, `BumpPort`, `FillUrl`, `SendUrl` |
| server | `announced`, `arrived`, `delivered`, `urls` | `ServerSend`, `ServerClose` |

`send_current_pic` and `send_file` have the same steps on different packets and
are one set of actions, `Pic` being the program counter of the first. `sended`,
`entire_size`, `offset` (of `fd`) and `send_stream_addr` are the members of the
one object. `descriptors` counts what was opened and never closed; a thread that
finds none left does what the code does (`OpenFails`, `CreateFails`, and the end of
the process where the result of `fopen` is not looked at). `Send` is a `send` that
is lost or ends the process once the server is gone. The bus, the motors and the
camera are in the other modules: here a request reaches the stream manager
directly, and an event may happen at any time.

`Upload` says what the server may rely on: a size, then pieces, each as large as
a packet holds, and nothing of another file before the file is complete.

## 4. The runs

| run | shows |
|---|---|
| `busTraffic` | until two operations race on the same part of the deque: every message whose `SendMessage` has returned is in the bus or was handed over, exactly once; the service thread pops what it copied and empties the bus again and again; and, unless a priority was compared while the front was changing, the commands of the server stay in order |
| `busPriority` | violation: a message of priority 1 may be queued behind one of priority 2 |
| `nodeThreads` | the flag is only raised under the mutex, every user of the camera finds its format, the motor commands are sent alternately, the camera is used in turns; a stop that reaches the loop ends the session; detection goes on and a signalled manager is served unless a recording never ends |
| `motorMail` | violation: the motor thread goes to sleep with messages in its queue |
| `encoderLoop` | ownership of the buffer, whole frames, full time, end of recordings and streams |
| `encoderStall` | violation: without a buffer in the last second the recording does not end |
| `rtspBuffer` | bounds, whole frames, newest frame at most once, parameter sets not read before they are saved, the reader gets on |
| `omxPipeline` | every request is legal, no buffer is freed or touched under OMX, every use finds the pipeline complete, every wait is answered, so that a call sequence ends if the recording or stream in it does |
| `omxFlush` | violation: `block_until_flushed` returns before the flush |
| `pictures` | copies stay in bounds and byte counts agree, the picture is whole whichever way the callback and the event interleave, the snapshot shows it in the right colours, `BackgroundSubtraction` returns 1 if the two scenes differ by more than `threshold1` in more than `threshold2` pixels, and only if they differ by `threshold1` in `threshold2` pixels or more |
| `motionThresholds` | violation: at a difference of exactly 40, or with exactly 300 such pixels, nothing is reported |
| `serverConnection` | the packets of files are an upload, every reported event is followed by its file, every session by its address (unless the connection or the descriptors have come to an end, or the recording has none), the addresses are those of running sessions, and of what is received a command is executed at most once, in order and as it was sent. (After the end of the connection the last packet is executed again and again; the properties do not speak about that.) |

### Bounds, and why they are enough

* `MCMessageBus`: 3 messages of the server and 2 of the stream manager. An
  operation that damages the deque needs two threads in one operation each; the
  order depends on the front, the new message and one between them. `MaxStrays` = 1:
  one stray message is taken from the deque that is damaged, and delivered; the
  properties claim nothing after it. In `MCMessageBusPriority` two messages of the
  stream manager and one of the server are the shortest disorder.
* `MCSecondEyes`: `MaxPackets` = 3 packets that are not ignored, each a request of
  this camera or a stop: a session, its end and a second one, which restarts the
  motors, or a stop that comes too early or too late. Moves of the motor and
  requests of another camera take part in the run `motorMail`, and the theorems
  hold for all kinds of packets. `MaxStrays` = 0: a
  race damages the deque and the messages in it are gone, but no stray is delivered
  here; `busTraffic` has strays, and the theorems of `SecondEyes` hold with any. The
  threads are not bounded: detection, recording and the camera go round for ever.
* `MCEncoderLoop`: `record_time` = 3 instead of 15. The seconds before, at and
  after `record_time` are the ones the code distinguishes. Calls follow each
  other for ever, so that what one call leaves behind is met by the next.
* `MCRtspBuffer`: four frames of up to three pieces of two lengths in a buffer
  of 8, of which some fit and some do not; parameter sets may be emitted twice.
  Four frames are enough for an overwritten frame, a read one and a pair of
  parameter sets between them at distance 2 (5 in the code).
* `OmxPipeline` has no bound: its callers go on for ever and its state is finite.
* `MCPictures`: pictures of 48 pixels, 4x12 with slices of 10 rows, 8x6 with
  slices of 2 and of 4: chroma rows that are padded or not, two or three slices,
  the last one full or not. Three scenes, of which two differ in exactly
  `threshold2` = 2 pixels by more than `threshold1` = 40, others in three, and in
  all others by exactly 40: both boundaries of `MotionFromThresholds`. The snapshot is only taken with rows that are not
  padded, like those of the 352 pixels of the camera.
* `MCServerConnection`: three packets (a session, its stop or the request of
  another, and a motor command between them), one event after the snapshot, two
  sessions, a snapshot of one packet and a recording of two, the second of which
  is not full. `MaxFds` = 4 descriptors may leak: the socket of `GetMACAddress`,
  two files and one session, so that the second session, or a file, meets the end
  of them. Ports are counted from 0 and one more than the sessions need.

Deadlock is checked except in the two runs of the bus and in those of the RTSP
buffer and of the connection to the server: there the traffic is bounded and then
stops, and a node whose `send` or `fopen` has failed has ended.

### Fairness, and why the code justifies it

* Every thread runs on (weak fairness of the steps of each): the loops of the
  managers contain no way out, and the scheduler of Linux is fair.
* `mutex_EventManager` is obtained in the end by who keeps asking for it (strong
  fairness of the steps that contain `StreamLock` and `EventLock`): both contenders
  sleep for a millisecond after unlocking.
* No fairness for the end of a recording: `VideoEncode` may go on for ever
  (`encoderStall`), with `mutex_EventManager` in its hands. `EventEncode` of
  `SecondEyes`, the `Use` of "encode" in `OmxPipeline` and `VideoEncode` of
  `ServerConnection` may therefore never be taken, and `DetectionGoesOn`,
  `SignalServed`, `CallsEnd` and `FileFollowsEvent` name that case as the one in
  which they promise nothing. `EncoderLoop` is where the end is looked into.
* Nor for the end of a stream, which needs a stop of the server.
* Nor for anything after a race on the deque, which may crash the node: the liveness
  properties of the bus and of the node end with `damaged`.
* During a stream the camera goes on delivering and the encoder emits key frames and others
  again and again (strong fairness of `StreamFrame` and of `FillDone`): the
  encoder has an intra period, and a frame has an end.
* Time passes (`Tick`). With `Steady` a second passes only after a buffer was
  processed in it; without it nothing of the kind is assumed, and `encoderStall`
  shows why it matters.
* live555 asks again after every frame (`doGetNextFrame`): the source schedules
  itself.
* A component executes what it was sent (`Component`), the camera becomes ready.
* `PicSpec`: the loop of a capture moves on, whichever of its steps is due
  (`LoopMoves`), the camera fills a buffer it was given and reports the end, and
  the program goes on after a capture.
* `ConnSpec`: the start-up and the event thread (`UploadStep`, a recording
  excepted), the stream manager and each RTSP thread run on. That `Detect` happens is not assumed.
* The server owes nothing: no fairness for packets, nor for spurious wakeups.

## 5. The proofs

They hold for every value of the constants that satisfies the ASSUMEs of the
modules: any set of message bodies (with an element outside for `Garbage`), any
number of packets and of messages of either client, any `record_time` above 0,
frames of any size, any thresholds, files, packets and buffers of any size, any
number of sessions and events, and pictures of any format that the camera can be
set to (`FormatsAssumption`: even heights, rows as long as the picture is wide, a
multiple of 4, and more than one slice), all of them with the number of pixels that
the loop of `Subtraction` runs over (`SizeAssumption`).

Every invariant and every action property of the passing runs is a theorem; a
run shows it on a small instance first.

* `MessageBusProofs`: the lemmas about the bus, one per operation. `BusInv` adds
  to the types that an undamaged deque is one in which no race is under way: a
  step that begins an operation notices the race it begins (`Watched`), a step that
  ends one begins none (`NoNewRace`). Hence nobody pushes to the front while
  the service thread relies on it (`FrontHeld`), and what it copied is what it pops.
* `SecondEyesProofs`: `TypeCorrect`, `FlagCorrect`, `FormatCorrect`,
  `CommandsAlternate` and the refinement `Turns`. None of the properties is
  inductive. Their common invariant adds who holds `mutex_EventManager` at each
  program counter (so that the two program counters exclude each other), which
  configuration of the pipeline each program counter implies, and which value
  of `flag_motor` goes with which last command of the motor. The lemmas of
  `MessageBusProofs` carry the part of the bus through every step.
* `EncoderLoopProofs`: `BufferDiscipline`, `WholeFrames` and `FullTime`. The
  invariant relates the owner of the buffer to the flag of the callback and to
  `need` at each position of the loop (`OwnerInv`), the frame that is being
  written to what the encoder will fill next (`TailInv`), and the detected end
  to the time that was read (`TimeInv`).
* `MCMessageBusProofs`: `BusTypeCorrect`, `CommandsStayInOrder` and
  `NothingLostOrRepeated`. `Counts` and `Traffic` say which message each client is
  sending, and `Sent` that everything in the bus was sent before. For completeness,
  until a race: every number is once in the queue, in the hand of the service thread
  or in a receive queue if its `SendMessage` has returned, and not at all otherwise
  (`Conserved`). For the order, until a race and until a sender is misled: the
  commands of the server ascend from the receive queues over the service thread to
  the deque, and one that goes to the front finds no other in the queue (`InOrder`,
  `Passes`). The recycled messages of a damaged deque are any set of messages
  throughout.
* `OmxPipelineProofs`: `BuffersStayInHand`, `TransitionsStayLegal` and
  `PipelineReady`. The properties speak of the call at hand while the components are
  still behind with earlier commands, hence none is inductive. A `View` is the state
  the components will be in when they have done what they were sent; `Leads` says
  that the calls of a script, begun in a view, are all sound and end in a given view.
  The invariant is that the script at hand is planned (`Planned`) and that the
  components are as the view before the call says, as the one after it says, or
  under way between the two (`Matches`). That a script of `Begin` is planned is proved
  once per script, call by call. Whether `block_until_flushed` waits makes no
  difference to these properties: the proof takes both outcomes.
* `RtspBufferProofs`: `BufferBounded`, `SetsSavedFirst`, `FramesDelivered` and the
  refinement `CellImplemented`. `WholeFrames` speaks of what was read; the
  invariant follows the pieces back: through the frame that is ready to the
  pieces that are being collected, which are of the frame being emitted and, if
  none was refused, all of it so far (`PiecesInv`). `NewestInv` says which frame
  is the newest one of the cell, `SetsInv` that frames come after both parameter
  sets.
* `ServerConnectionProofs`: one invariant for each part of the traffic.
  `FileInv`: between the packets of a file `offset`, `sended` and what the server
  has agree, and `sended` is 0 outside (the reset that a file depends on happens at
  the end of the one before); hence the refinement `UploadImplemented`.
  `CommandsInv`: what waits in the socket is the tail of the stream of units, and
  everything executed came before it; hence `CommandsExecuted`. `PacedInv`: what a
  server that waits has sent is either in the socket, as one whole packet, or
  executed; hence `PacedKept`. `UrlInv`: the address in the packet and those that
  were sent are of ports whose threads have their server; hence `UrlsOfSessions`.
  `ConnectionTypeCorrect` rests on which file is on its way for which event
  (`TransferOK`), on who holds the mutex (`TurnsOK`), and on the ports and requests
  of the sessions, which never exceed the bound (`SessionsOK`).
* `PicturesProofs`: first the layout, that the planes of a frame and of a slice lie
  one behind the other and that the slices of an image add up to its rows
  (`FrameLayout`, `BufferLayout`, `SliceCount`). With it `CaptureInv` says whose
  the buffer is (`Turn`), what the camera delivers before and after the last slice
  (`Coming`, `Over`), and which rows the frame shows (`Contents`); hence
  `PicFramesFit` and `PicPicturesWhole`. `SubInv`: the pixels that are not yet
  compared are those captured (`Untouched`), hence each comparison sees the original
  pixel although the result overwrites it, and the count is the cardinality of the
  pixels that differ so far. `SnapInv`: the three pointers follow from the block
  (`Pointers`), a pixel of the picture that is converted comes from its place in the
  frame (`Blocks`), a row of the file is a row of the picture (`Lines`). The
  composition adds which job runs what (`Roles`) and which scene each frame is of
  (`Stored`); hence `SnapshotCorrect`, `ColoursCorrect` and, from the scenes to the
  decision, `MotionCorrect`: the invariant has the exact comparison of the code
  (`MotionTold`), from which the property that leaves the boundary open follows.

Products and quotients of variables are stated as lemmas about numbers (`Products`,
`RowsOrdered`, `Quotient`, `RowAndColumn`) and cited, since the solvers do not find
them by themselves.

The type theorems of `SecondEyes`, `LoopTypeCorrect`, `BufferTypeCorrect` and those
of `CaptureSpec` and `SubSpec`, the specifications of a capture and of a comparison
by themselves, have no run of their own, nor has `DifferencesCounted`:
`MCPictures` checks both parts together.

Only model-checked: the liveness properties (`ServiceDrains`, `StopEndsSession`,
`DetectionGoesOn`, `SignalServed`, `RecordingEnds`, `StreamEnds`, `FrameMovesOn`,
`CallsEnd`, `Looks`, `FileFollowsEvent`, `UrlArrives`), since fairness and ENABLED
are beyond the prover, and the five properties that a run refutes.

## 6. What the models assume of code outside the repository

* OMX components execute commands in order; their callbacks come in order with
  the answers to `OMX_GetParameter`.
* The end of a captured image comes with a buffer of its own, and the event for
  it before any later callback.
* All buffers of a key frame carry `OMX_BUFFERFLAG_SYNCFRAME`, those of other
  frames do not.
* The camera delivers more than one slice per image; heights are even, widths
  multiples of the alignment.
* The deque is that of libstdc++, whose operations touch the parts listed in section
  3. Operations that touch different parts do not disturb each other: words are read
  and written whole, and each thread sees the writes of another in the order of its
  program (a core of the Raspberry Pi is not required to do so, and the code has no
  barrier).
* Memory of the size of a node is used by nodes only, so that what a stray node shows
  is a message of old, which was for the stream or the motor manager
  (`RecycledAssumption`), or bytes without a registered destination.
* What a race does besides (a wild pointer, a node freed twice) is not followed
  further than that.
* The encoder emits its sps and pps before the first frame, each in one buffer of at
  most 64 bytes: `save_sps_data` and `save_pps_data` copy them into arrays of that
  size without a check.
* `send` sends a packet as a whole, and packets of different threads do not mix.
* The login packet arrives as a whole and by itself. Commands are cut at most
  between head and rest, several fit into the buffer of 8 kB, the bytes of a rest
  never look like a head, and `pkg_recv` initially holds no command.
* Two addresses of this node differ in the last digits of the port only, so that
  two `strcpy` into `url_addr` that overlap leave one of the two.
* live555 fails to create a server if the port is taken or no descriptor is left.

## 7. Where code and documents disagree

Five runs end in a violation on purpose, each of a sentence that the repository
states about itself; `PROJECT.json` quotes it. They are `busPriority`,
`motorMail`, `encoderStall`, `omxFlush` and `motionThresholds`.

Read off the code, with a sentence of the repository against it:

* `OpenMax.cpp:199` and `:2075` read the frame rate from `camera_portdef` while
  it holds the definition of port 72, an image port, which has none; the comments
  say that the frame rate is configured.
* `piMemoryBufferedSource.cpp:48` sets `nFrameIdx` to 0 and line 52 increments it
  at once: from the second round on four frames, not the five of
  `PARAMETER_SET_DISTANCE`, lie between two pairs of parameter sets.
* `OpenMax.cpp:2182-2183` takes the first chroma plane for V and the second for U,
  although the frame is I420 (Y, U, V); `cap_frame` names them 'Y', 'U', 'V' at
  lines 890-892. Lines 2201-2203 write B, G, R, although `JpegManager.cpp:55`
  declares RGB. The two exchanges nearly cancel: the primary colours keep their
  channel (`PrimariesKept`), but with the factors of the other channel: a pure red
  comes out as 255, 63, 15 rather than 254, 0, 0. The comments at
  `OpenMax.cpp:1017` and 2173 promise RGB.
* `MotorManager.cpp:65`, `MIN_PWM <= _x <= MAX_PWM`, compares 0 or 1 with
  `MAX_PWM` and is always true; the message at line 70, "input is out of range",
  never appears and positions out of range are written.

Observations made while modelling that contradict no sentence:

* After a session `StreamManager` switches off port 72 (`StreamManager.cpp:107`)
  although the session had port 71 capturing, which is left on.
* A stop of the server between `StreamManager.cpp:95` (`flag_stream = true`) and
  `OpenMax.cpp:1097` (`is_end = 0`) is forgotten; the session goes on until the
  next stop. `StopEndsSession` therefore speaks about a stop that the loop meets.
* A signal to a manager that does not wait is lost; its message is handled with
  the next signal. `SignalServed` therefore speaks about a manager that waits.
* A command of the stream manager has priority 1 and may overtake moves of the
  server; it may even overtake an earlier one of its own: with start, move, stop
  in the queue and the start taken, a restart is compared with the move and goes
  to the front, before the stop. `MotorCommandsAlternate` therefore speaks about
  the order in which the commands are sent.
* Every session starts an RTSP thread that never ends.
* During the second `record_time` every buffer sets `quit_in_keyframe` anew, so
  that a recording never ends before the second after it.
* `recv` returning 0 dispatches the packet before once more, every millisecond
  (`ReceiveEnd`). `ExecutedAsSent` therefore speaks about what was received.
* A file name has 18 characters, `file_name` of the packet room for 15
  (`MAX_NAME_LEN`); an address may have more than the 35 bytes of `url_addr`.
* Two events in one minute have one file name; the second recording replaces the
  first on the node, after the first was sent.
* `send_file` and `send_current_pic` do not close their file, `GetMACAddress` does
  not close its socket, and RTSP threads keep theirs. After about a thousand
  recordings `fopen` of `VideoEncode` fails, and its result is not looked at.
* Two sessions that start at the same time may be announced with one address
  (`overlap` in `UrlOfOwnSession`): `send_stream_addr` is shared.
* A command that `recv` returns together with the one before is not executed.
  `PacedCommandsKept` therefore speaks about a server that waits.
* `RestartMotor` writes `pwm1` and `pwm2`, which `MoveMortor` never sets: the
  camera returns to the middle with every session. `CaptureImage` and
  `OMXCaptureImage` ignore their `quality`.
* `endRtspServer` closes a global `rtspServer` that nobody sets (the server is a
  local of `startRtspServer`); only `DisableComponent` calls it, which nobody calls.
* `OMXCaptureFrame` never frees `frame` and `frame_buffer`.
* The last frame of a stream stays in `temp_data`: a frame is only complete when
  the next one begins. The sps and pps that are read may be of different pairs.
* `SwitchStateLoaded` has its waits commented out: the handles are freed while
  the components may still be on their way to Loaded.

## 8. Not modelled

* The PWM values of `MotorManager`: two numbers that nothing else reads; the Run
  loop with its commands is in `SecondEyes`. `POWERMEASURE` code is not compiled.
* `ClientSocket::send_message` and `send_stream`, `CameraManager::CaptureFrame` and
  `CaptureVideo`, `OpenMAX::DisableComponent` and `CloseComponet`,
  `endRtspServer`: nobody calls them in this build.
* live555 behind `doGetNextFrame`, libjpeg behind `jpeg_write_scanlines`.
* `omx_dump.cpp` (debugging output), `jmorecfg.h` (a copy of a libjpeg header).
* The contents of packets, names and dates (`EventMake`, `MakeFileName`) and the
  MAC address: values that no decision of the program depends on.
* The picture settings of the camera (sharpness to mirror): independent
  `OMX_SetConfig` calls before the components leave Loaded.
* Creation and joining of the threads in `MainTaskManager` and `Thread`: `Init`
  of `SecondEyes` is the state after it; what happens before is in `ServerConnection`.
* Memory: what is leaked is listed above.

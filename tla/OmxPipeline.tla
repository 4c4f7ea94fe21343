----------------------------- MODULE OmxPipeline -----------------------------
(***************************************************************************)
(* The OMX components that OpenMAX drives: camera, encoder and null_sink,  *)
(* their ports, buffers and commands, under the sequences of calls that    *)
(* CameraManager, StreamManager and EventManager issue.  The mutex of the  *)
(* event manager keeps these sequences apart; each is a script of calls.   *)
(*                                                                         *)
(* The components are external.  A component executes the commands sent to *)
(* it in their order, some time after OMX_SendCommand returned, and calls  *)
(* event_handler and the FillBufferDone handler from within.  Its answers  *)
(* and its callbacks come over one channel: what OMX_GetParameter reports  *)
(* was preceded by the callbacks of the commands executed before.          *)
(*                                                                         *)
(* quit in block_until_flushed is not initialised, so that whether the     *)
(* function waits at all is open each time.                                *)
(***************************************************************************)
EXTENDS Naturals, Sequences

CONSTANTS Detection, Streaming, Recording   \* frame sizes: after a stream, of
                                            \* a stream, of a recording
None == "none"
Sizes == {Detection, Streaming, Recording}
Components == <<"camera", "encoder", "null_sink">>
Handles    == {"camera", "encoder", "null_sink"}

ComponentOf(port) ==
  CASE port \in {"70", "71", "72", "73"} -> "camera"
    [] port \in {"200", "201"}           -> "encoder"
    [] port = "240"                      -> "null_sink"

Ports == {"70", "71", "72", "73", "200", "201", "240"}
PortsOf(c) == {p \in Ports : ComponentOf(p) = c}
Allocated == {"73", "72", "201"}    \* ports whose buffer the program allocates
Tunnelled == Ports \ Allocated

VARIABLES
  script,         \* the calls still to be made
  sent,           \* the command of the call at hand was sent
  quit,           \* of the block_until_flushed at hand
  state,          \* OMX_GetState; None without a handle
  commands,       \* commands sent to each component and not executed
  enabled,        \* bEnabled
  populated,      \* ports with buffers of the program
  tunnelled,      \* OMX_SetupTunnel was called
  owner,          \* of encoder_ppBuffer_out
  capturing,      \* OMX_IndexConfigPortCapturing
  size,           \* omx_width, omx_height
  camera_portdef, \* [port, size]
  flushed, camera_ready,   \* flags of ctx
  loading         \* a callback for the camera device was requested

omx == <<state, commands, enabled, populated, tunnelled, owner, capturing>>
ctx == <<flushed, camera_ready, loading>>
config == <<size, camera_portdef>>
program == <<script, sent, quit>>
vars == <<program, omx, ctx, config>>

-----------------------------------------------------------------------------
(* The calls.                                                                *)
Call(op, on, to) == [op |-> op, on |-> on, to |-> to]

Calls ==
  [op : {"state", "load", "port", "flush", "allocate", "free", "fill", "encode", "frame",
         "capture", "clear", "gethandle", "freehandle", "driver", "configure", "ready", "tunnel"},
   on : Ports \cup Handles \cup {None},
   to : {"Loaded", "Idle", "Executing", "enabled", "disabled", "on", "off", None} \cup Sizes]

OnEach(op, seq, to) == [i \in DOMAIN seq |-> Call(op, seq[i], to)]

SwitchIdle       == OnEach("state", Components, "Idle")
SwitchExecuting  == OnEach("state", Components, "Executing")
EnablePort       == OnEach("port", <<"73", "70", "71", "72", "200", "201", "240">>, "enabled")
DisablePort      == OnEach("port", <<"73", "70", "71", "72", "200", "201", "240">>, "disabled")
AllocateBuffer   == <<Call("allocate", None, None)>>
FreeBuffer       == <<Call("free", None, None)>>
VideoEncode      == <<Call("encode", None, None)>>
OMXCaptureFrame  == <<Call("frame", None, None)>>
SwitchCapturePort(port, to) == <<Call("capture", port, to)>>

SwitchBufferFlush ==
  <<Call("fill", None, None)>>
    \o OnEach("flush", <<"73", "70", "72", "71", "200", "201", "240">>, None)

(* The waits between the two halves are commented out.                       *)
SwitchStateLoaded ==
  OnEach("load", Components, "Loaded") \o OnEach("freehandle", Components, None)

(* The ports are numbered by domain: video, image, other.                    *)
init_component_handle(c, ports) ==
  <<Call("gethandle", c, None)>> \o OnEach("port", ports, "disabled")

InitComponent ==
  <<Call("clear", None, None)>>
    \o init_component_handle("camera", <<"70", "71", "72", "73">>)
    \o init_component_handle("encoder", <<"200", "201">>)
    \o init_component_handle("null_sink", <<"240">>)

Load_camera_driver == <<Call("driver", None, None)>>
ConfigOpenMAX      == <<Call("configure", None, Streaming), Call("ready", None, None)>>
InitOpenMAXPort    == <<Call("tunnel", None, None)>>

(* Mutant: the components go on executing.                                   *)
ResetConfigureSkipsIdle(to, port) ==
  SwitchBufferFlush \o DisablePort \o FreeBuffer
    \o <<Call("configure", None, to), Call("ready", None, None)>>
    \o EnablePort \o AllocateBuffer \o SwitchExecuting
    \o SwitchCapturePort(port, "on")

ResetConfigure(to, port) ==
  SwitchBufferFlush \o DisablePort \o FreeBuffer
    \o <<Call("configure", None, to), Call("ready", None, None)>>
    \o SwitchIdle \o EnablePort \o AllocateBuffer \o SwitchExecuting
    \o SwitchCapturePort(port, "on")

(* The constructor of CameraManager; EventManager does the same again after  *)
(* it has recorded an event.                                                 *)
Build ==
  InitComponent \o Load_camera_driver \o ConfigOpenMAX \o InitOpenMAXPort
    \o SwitchIdle \o EnablePort \o AllocateBuffer \o SwitchExecuting
    \o SwitchCapturePort("72", "on")

(* The constructor of CommunicationService takes a first picture.            *)
CaptureImage ==
  SwitchCapturePort("72", "on") \o OMXCaptureFrame \o SwitchCapturePort("72", "off")

BackgroundSubtraction ==
  SwitchCapturePort("72", "on") \o OMXCaptureFrame \o SwitchCapturePort("72", "off")
    \o SwitchCapturePort("72", "on") \o OMXCaptureFrame \o SwitchCapturePort("72", "off")

DetectEvent ==
  BackgroundSubtraction
    \o ResetConfigure(Recording, "71") \o VideoEncode
    \o SwitchCapturePort("71", "off")
    \o SwitchBufferFlush \o DisablePort \o FreeBuffer \o SwitchIdle \o SwitchStateLoaded
    \o Build

Stream ==
  ResetConfigure(Streaming, "71") \o VideoEncode
    \o SwitchCapturePort("72", "off")
    \o ResetConfigure(Detection, "72")

-----------------------------------------------------------------------------
(* The types; only a port whose buffer the program allocates is populated.   *)
TypeOK ==
  /\ script \in Seq(Calls)
  /\ sent \in BOOLEAN /\ quit \in BOOLEAN
  /\ state \in [Handles -> {None, "Loaded", "Idle", "Executing"}]
  /\ commands \in [Handles -> Seq({k \in Calls : k.op \in {"state", "load", "port", "flush"}})]
  /\ enabled \subseteq Ports
  /\ populated \subseteq Allocated
  /\ tunnelled \in BOOLEAN
  /\ owner \in {"program", "encoder"}
  /\ capturing \subseteq {"71", "72"}
  /\ size \in Sizes \cup {None}
  /\ camera_portdef \in [port : {None, "70", "72"}, size : Sizes \cup {None}]
  /\ flushed \in BOOLEAN /\ camera_ready \in BOOLEAN /\ loading \in BOOLEAN

Init ==
  /\ script = Build \o CaptureImage /\ sent = FALSE /\ quit = FALSE
  /\ state = [c \in Handles |-> None]
  /\ commands = [c \in Handles |-> <<>>]
  /\ enabled = {}
  /\ populated = {} /\ tunnelled = FALSE /\ owner = "program" /\ capturing = {}
  /\ size = None /\ camera_portdef = [port |-> None, size |-> None]
  /\ flushed = FALSE /\ camera_ready = FALSE /\ loading = FALSE

(* The call at hand, when its turn has come.                                 *)
Now == Head(script)
Turn(op) == script # <<>> /\ Now.op = op
Done == script' = Tail(script) /\ sent' = FALSE /\ quit' = FALSE

-----------------------------------------------------------------------------
(* OMX_SendCommand of a call that then waits; quit of block_until_flushed is *)
(* whatever was on the stack.                                                *)
SendCommand ==
  \E op \in {"state", "port", "flush"} :
    /\ Turn(op) /\ ~sent
    /\ LET c == IF op = "state" THEN Now.on ELSE ComponentOf(Now.on)
       IN commands' = [commands EXCEPT ![c] = Append(@, Now)]
    /\ sent' = TRUE
    /\ quit' \in IF op = "flush" THEN BOOLEAN ELSE {FALSE}
    /\ UNCHANGED <<script, state, enabled, populated, tunnelled, owner, capturing, ctx, config>>

block_until_state_changed ==
  /\ Turn("state") /\ sent
  /\ state[Now.on] = Now.to
  /\ Done
  /\ UNCHANGED <<omx, ctx, config>>

(* Mutant: the change of the port is not awaited.                            *)
PortNotAwaited ==
  /\ Turn("port") /\ sent
  /\ Done
  /\ UNCHANGED <<omx, ctx, config>>

block_until_port_changed ==
  /\ Turn("port") /\ sent
  /\ (Now.on \in enabled) = (Now.to = "enabled")
  /\ Done
  /\ UNCHANGED <<omx, ctx, config>>

block_until_flushed ==
  /\ Turn("flush") /\ sent
  /\ quit \/ flushed
  /\ flushed' = (quit /\ flushed)
  /\ Done
  /\ UNCHANGED <<omx, camera_ready, loading, config>>

(* SwitchStateLoaded.                                                        *)
SendLoaded ==
  /\ Turn("load")
  /\ commands' = [commands EXCEPT ![Now.on] = Append(@, Now)]
  /\ Done
  /\ UNCHANGED <<state, enabled, populated, tunnelled, owner, capturing, ctx, config>>

FreeHandle ==
  /\ Turn("freehandle")
  /\ state' = [state EXCEPT ![Now.on] = None]
  /\ commands' = [commands EXCEPT ![Now.on] = <<>>]
  /\ tunnelled' = FALSE
  /\ capturing' = IF Now.on = "camera" THEN {} ELSE capturing
  /\ Done
  /\ UNCHANGED <<enabled, populated, owner, ctx, config>>

(* InitComponent up to the handles: memset(&ctx, 0, sizeof(ctx)).            *)
ClearContext ==
  /\ Turn("clear")
  /\ flushed' = FALSE /\ camera_ready' = FALSE
  /\ Done
  /\ UNCHANGED <<omx, loading, config>>

(* OMX_GetHandle; the ports of a new component are enabled.                  *)
GetHandle ==
  /\ Turn("gethandle")
  /\ state' = [state EXCEPT ![Now.on] = "Loaded"]
  /\ enabled' = enabled \cup PortsOf(Now.on)
  /\ Done
  /\ UNCHANGED <<commands, populated, tunnelled, owner, capturing, ctx, config>>

LoadCameraDriver ==
  /\ Turn("driver")
  /\ loading' = TRUE
  /\ Done
  /\ UNCHANGED <<omx, flushed, camera_ready, config>>

(* The configuration ends with the definition of port 70 in camera_portdef.  *)
Configure ==
  /\ Turn("configure")
  /\ size' = Now.to
  /\ camera_portdef' = [port |-> "70", size |-> Now.to]
  /\ Done
  /\ UNCHANGED <<omx, ctx>>

(* while (!ctx.camera_ready)                                                 *)
AwaitCameraReady ==
  /\ Turn("ready")
  /\ camera_ready
  /\ Done
  /\ UNCHANGED <<omx, ctx, config>>

SetupTunnel ==
  /\ Turn("tunnel")
  /\ tunnelled' = TRUE
  /\ Done
  /\ UNCHANGED <<state, commands, enabled, populated, owner, capturing, ctx, config>>

(* Mutant: buffers for the tunnelled ports, too.                             *)
AllocateAll ==
  /\ Turn("allocate")
  /\ populated' = Ports
  /\ owner' = "program"
  /\ camera_portdef' = [port |-> "72", size |-> size]
  /\ Done
  /\ UNCHANGED <<state, commands, enabled, tunnelled, capturing, ctx, size>>

(* Mutant: the definition of port 72 is not read.                            *)
AllocateKeepsPortdef ==
  /\ Turn("allocate")
  /\ populated' = Allocated
  /\ owner' = "program"
  /\ Done
  /\ UNCHANGED <<state, commands, enabled, tunnelled, capturing, ctx, config>>

(* camera_portdef is left with the definition of port 72.                    *)
Allocate ==
  /\ Turn("allocate")
  /\ populated' = Allocated
  /\ owner' = "program"
  /\ camera_portdef' = [port |-> "72", size |-> size]
  /\ Done
  /\ UNCHANGED <<state, commands, enabled, tunnelled, capturing, ctx, size>>

Free ==
  /\ Turn("free")
  /\ populated' = {}
  /\ Done
  /\ UNCHANGED <<state, commands, enabled, tunnelled, owner, capturing, ctx, config>>

FillThisBuffer ==
  /\ Turn("fill")
  /\ owner' = "encoder"
  /\ Done
  /\ UNCHANGED <<state, commands, enabled, populated, tunnelled, capturing, ctx, config>>

SetCapturing ==
  /\ Turn("capture")
  /\ capturing' = IF Now.to = "on" THEN capturing \cup {Now.on} ELSE capturing \ {Now.on}
  /\ Done
  /\ UNCHANGED <<state, commands, enabled, populated, tunnelled, owner, ctx, config>>

(* VideoEncode, StartStreaming (EncoderLoop) and OMXCaptureFrame             *)
(* (FrameCapture): if they end, then with every buffer in the hands of the   *)
(* program.                                                                  *)
Use ==
  /\ Turn("encode") \/ Turn("frame")
  /\ Done
  /\ UNCHANGED <<omx, ctx, config>>

(* The next turn of the event manager or the stream manager.                 *)
Begin ==
  /\ script = <<>>
  /\ script' \in {BackgroundSubtraction, DetectEvent, Stream}
  /\ UNCHANGED <<sent, quit, omx, ctx, config>>

-----------------------------------------------------------------------------
(* A component executes the next command.                                    *)
Complete(c) == commands' = [commands EXCEPT ![c] = Tail(@)]

(* A transition is refused while buffers or tunnels are missing or in excess.*)
MayEnter(c, to) ==
  LET on == PortsOf(c) \cap enabled IN
  CASE to = "Executing" ->
         /\ state[c] = "Idle"
         /\ on \cap Allocated \subseteq populated
         /\ on \cap Tunnelled # {} => tunnelled
    [] to = "Idle" -> state[c] = "Executing" \/ (state[c] = "Loaded" /\ on = {})
    [] to = "Loaded" -> state[c] = "Idle" /\ PortsOf(c) \cap populated = {}

ChangeState(c) ==
  /\ commands[c] # <<>> /\ Head(commands[c]).op \in {"state", "load"}
  /\ LET to == Head(commands[c]).to
     IN state' = [state EXCEPT ![c] = IF MayEnter(c, to) THEN to ELSE @]
  /\ Complete(c)
  /\ UNCHANGED <<program, enabled, populated, tunnelled, owner, capturing, ctx, config>>

ChangePort(c) ==
  /\ commands[c] # <<>> /\ Head(commands[c]).op = "port"
  /\ LET now == Head(commands[c])
     IN enabled' = IF now.to = "enabled" THEN enabled \cup {now.on} ELSE enabled \ {now.on}
  /\ owner' = IF Head(commands[c]).on = "201" THEN "program" ELSE owner
  /\ Complete(c)
  /\ UNCHANGED <<program, state, populated, tunnelled, capturing, ctx, config>>

(* Mutant: the completed flush is not recorded.                              *)
FlushSilent(c) ==
  /\ commands[c] # <<>> /\ Head(commands[c]).op = "flush"
  /\ owner' = IF Head(commands[c]).on = "201" THEN "program" ELSE owner
  /\ Complete(c)
  /\ UNCHANGED <<program, state, enabled, populated, tunnelled, capturing, ctx, config>>

(* event_handler with OMX_EventCmdComplete.                                  *)
Flush(c) ==
  /\ commands[c] # <<>> /\ Head(commands[c]).op = "flush"
  /\ owner' = IF Head(commands[c]).on = "201" THEN "program" ELSE owner
  /\ flushed' = TRUE
  /\ Complete(c)
  /\ UNCHANGED <<program, state, enabled, populated, tunnelled, capturing,
                 camera_ready, loading, config>>

(* event_handler with OMX_EventParamOrConfigChanged.                         *)
CameraReady ==
  /\ loading
  /\ loading' = FALSE /\ camera_ready' = TRUE
  /\ UNCHANGED <<program, omx, flushed, config>>

Component(c) == ChangeState(c) \/ ChangePort(c) \/ Flush(c)

Program ==
  \/ SendCommand \/ block_until_state_changed \/ block_until_port_changed
  \/ block_until_flushed \/ SendLoaded \/ FreeHandle \/ ClearContext \/ GetHandle
  \/ LoadCameraDriver \/ Configure \/ AwaitCameraReady \/ SetupTunnel \/ Allocate \/ Free
  \/ FillThisBuffer \/ SetCapturing \/ Use

Next ==
  \/ Program
  \/ Begin
  \/ \E c \in Handles : Component(c)
  \/ CameraReady

Spec == Init /\ [][Next]_vars

(* The program runs on, and the components execute what they were sent.  How *)
(* long a recording or a stream lasts is not known here, nor that it ends.   *)
FairSpec ==
  /\ Spec
  /\ WF_vars(Program /\ ~Turn("encode"))
  /\ \A c \in Handles : WF_vars(Component(c))
  /\ WF_vars(CameraReady)

-----------------------------------------------------------------------------
(* The program never touches or frees a buffer that OMX may still write to,  *)
(* and hands one over only while the port takes it: also when the waits for  *)
(* the flushes were skipped.                                                 *)
BuffersInHand ==
  /\ Turn("free") => /\ owner = "program"
                     /\ populated = Allocated
                     /\ Allocated \cap enabled = {}
  /\ Turn("allocate") => populated = {} /\ Allocated \subseteq enabled
  /\ Turn("fill") => /\ owner = "program"
                     /\ state["encoder"] = "Executing" /\ "201" \in enabled \cap populated

(* Every transition that is asked for is one the component can make.         *)
TransitionsLegal ==
  (Turn("state") \/ Turn("load")) /\ ~sent =>
    commands[Now.on] = <<>> /\ MayEnter(Now.on, Now.to)

(* When frames are captured or encoded the whole pipeline runs with all its  *)
(* ports and buffers, the port in question captures, and nothing of the      *)
(* reconfiguration is pending.  OMXCaptureFrame takes the format from        *)
(* camera_portdef: it must be the one of port 72 and of the frames to come.  *)
Ready(port) ==
  /\ \A c \in Handles : state[c] = "Executing" /\ commands[c] = <<>>
  /\ enabled = Ports
  /\ populated = Allocated /\ owner = "program" /\ port \in capturing

ReadyForUse ==
  /\ Turn("encode") => Ready("71")
  /\ Turn("frame") => Ready("72") /\ camera_portdef = [port |-> "72", size |-> size]

(* No wait of the calls is in vain, although flags and answers of commands   *)
(* executed later are awaited: every call sequence comes to its end, unless  *)
(* a recording or a stream in it never does.                                 *)
CallsEnd == (script # <<>>) ~> (script = <<>> \/ []Turn("encode"))

(* OpenMax.cpp:1861: "Some busy loops to verify we're running in order": a   *)
(* flush has been done when the function that waits for it returns.          *)
FlushesAwaited ==
  [][ \A p \in Ports : Turn("flush") /\ sent /\ Now.on = p /\ script' # script
        => commands[ComponentOf(p)] = <<>> ]_vars
=============================================================================

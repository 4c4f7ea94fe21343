-------------------------- MODULE ServerConnection --------------------------
(***************************************************************************)
(* The node on its connection to the server: the start-up of               *)
(* CommunicationService (login, MAC address, snapshot), the thread that    *)
(* executes the commands of the server (ServerCommands), the event thread  *)
(* with its uploads, the live sessions and the RTSP thread that each of    *)
(* them starts.  All of them use the one ClientSocket object, its packet   *)
(* structures and its counters.                                            *)
(*                                                                         *)
(* The message bus, the motors and the camera are left out: a request for  *)
(* a session reaches the stream manager, an event may happen at any time.  *)
(***************************************************************************)
EXTENDS ServerCommands

CONSTANTS
  MaxEvents, MaxSessions,   \* bounds
  MaxFds,                   \* how many descriptors may be leaked
  PictureSizes, RecordingSizes, PACK_MAX_SIZE

ASSUME ConnectionAssumption ==
  /\ {MaxEvents, MaxSessions, MaxFds} \subseteq Nat /\ MaxFds > 0
  /\ PictureSizes \cup RecordingSizes \subseteq Nat \ {0} /\ PACK_MAX_SIZE \in Nat \ {0}

FileSizes == PictureSizes \cup RecordingSizes
Sessions == 1 .. MaxSessions
NoPort   == MaxSessions + 2

VARIABLES
  alive,                  \* the process runs
  up,                     \* program counter of the start-up, then of the event thread
  events,                 \* packets SEND_EVNET_DETECT so far
  disk,                   \* size of the file to be sent, 0 if it is not there
  sended, entire_size, offset,   \* of ClientSocket, and the position of fd
  descriptors,            \* descriptors that were opened and never closed
  mutex_EventManager,     \* "free", "event", "stream"
  flag_stream, is_end,
  requests,               \* for the stream manager
  stream,                 \* its program counter
  rtsp,                   \* session -> program counter and port of its thread
  _port, send_stream_addr,
  announced, arrived,     \* the server: size of the file and what it has of it
  delivered,              \* the server: complete files of events
  urls,                   \* the server: session -> port in the URL it was sent
  overlap                 \* history: a URL was written while another one was to be sent

transferVars == <<up, events, disk, sended, entire_size, offset>>
streamVars   == <<flag_stream, is_end, requests, stream>>
rtspVars     == <<rtsp, _port, send_stream_addr, urls, overlap>>
serverVars   == <<announced, arrived, delivered>>
nodeVars     == <<alive, transferVars, descriptors, mutex_EventManager, streamVars,
                  rtspVars, serverVars>>
connVars     == <<commandVars, nodeVars>>

StartUp == {"login", "mac", "snapshot", "openPic", "headPic", "dataPic"}

(* The types; the events and the sessions take turns.                        *)
ConnTypeOK ==
  /\ CommandsTypeOK
  /\ alive \in BOOLEAN
  /\ up \in StartUp \cup {"wait", "event", "record", "open", "head", "data"}
  /\ events \in 0 .. MaxEvents /\ delivered \in 0 .. events
  /\ disk \in FileSizes \cup {0}
  /\ entire_size \in FileSizes \cup {0}
  /\ {sended, offset} \subseteq 0 .. entire_size
  /\ descriptors \in 0 .. MaxFds
  /\ mutex_EventManager \in {"free", "event", "stream"}
  /\ flag_stream \in BOOLEAN /\ is_end \in BOOLEAN
  /\ requests \in 0 .. MaxSessions
  /\ stream \in {"wait", "begin", "stream", "unlock"}
  /\ rtsp \in [Sessions -> [pc : {"none", "create", "bump", "url", "send", "serve"},
                            port : 0 .. NoPort]]
  /\ _port \in 0 .. MaxSessions + 1
  /\ {send_stream_addr} \cup {urls[s] : s \in Sessions} \subseteq 0 .. NoPort
  /\ mutex_EventManager = "event" <=> up \in {"event", "record", "open", "head", "data"}
  /\ flag_stream => mutex_EventManager = "stream"

ConnInit ==
  /\ CommandsInit
  /\ alive = TRUE /\ up = "login" /\ events = 0 /\ disk = 0
  /\ sended = 0 /\ entire_size = 0 /\ offset = 0 /\ descriptors = 0
  /\ mutex_EventManager = "free" /\ flag_stream = FALSE /\ is_end = FALSE
  /\ requests = 0 /\ stream = "wait"
  /\ rtsp = [s \in Sessions |-> [pc |-> "none", port |-> NoPort]]
  /\ _port = 0 /\ send_stream_addr = NoPort
  /\ announced = 0 /\ arrived = 0 /\ delivered = 0
  /\ urls = [s \in Sessions |-> NoPort] /\ overlap = FALSE

-----------------------------------------------------------------------------
(* send: once the server has closed the connection, a packet is lost, or the *)
(* node gets SIGPIPE or EPIPE and ends (error_handling calls exit).          *)
Send == IF open THEN alive' = TRUE ELSE alive' \in BOOLEAN

Threads == alive /\ up \notin StartUp

(* open or socket; the descriptor stays open.                                *)
Leak == descriptors < MaxFds /\ descriptors' = descriptors + 1

-----------------------------------------------------------------------------
(* CommunicationService::CommunicationService.                               *)

(* The server gives the node its number; at the end of the connection recv   *)
(* returns 0 and the node goes on as number 0.                               *)
login_camera_id ==
  /\ up = "login"
  /\ up' = "mac"
  /\ UNCHANGED <<commandVars, alive, events, disk, sended, entire_size, offset, descriptors,
                 mutex_EventManager, streamVars, rtspVars, serverVars>>

(* GetMACAddress leaves its socket open.                                     *)
send_MAC ==
  /\ up = "mac" /\ Leak /\ Send
  /\ up' = "snapshot"
  /\ UNCHANGED <<commandVars, events, disk, sended, entire_size, offset,
                 mutex_EventManager, streamVars, rtspVars, serverVars>>

(* The file is there if it could be written, or from an earlier run.         *)
CaptureImage ==
  /\ up = "snapshot"
  /\ disk' \in PictureSizes \cup {0}
  /\ up' = "openPic"
  /\ UNCHANGED <<commandVars, alive, events, sended, entire_size, offset, descriptors,
                 mutex_EventManager, streamVars, rtspVars, serverVars>>

-----------------------------------------------------------------------------
(* send_current_pic and send_file: the same steps, on different packets.     *)

Pic(pc) == CASE pc = "open" -> "openPic" [] pc = "head" -> "headPic" [] pc = "data" -> "dataPic"

At(pc)   == up = pc \/ up = Pic(pc)
Goto(pc) == up' = (IF up \in StartUp THEN Pic(pc) ELSE pc)

(* The end of the function, and of what follows in the caller.               *)
Finish ==
  /\ up' = "wait"
  /\ mutex_EventManager' = "free"

(* Mutant: the descriptor of the file before is read on.                     *)
OpenKeepsOffset ==
  /\ At("open")
  /\ disk # 0 /\ Leak
  /\ Goto("head")
  /\ UNCHANGED <<commandVars, alive, events, disk, sended, entire_size, offset,
                 streamVars, mutex_EventManager, rtspVars, serverVars>>

Open ==
  /\ At("open")
  /\ disk # 0 /\ Leak
  /\ Goto("head")
  /\ offset' = 0
  /\ UNCHANGED <<commandVars, alive, events, disk, sended, entire_size,
                 streamVars, mutex_EventManager, rtspVars, serverVars>>

OpenFails ==
  /\ At("open")
  /\ disk = 0 \/ descriptors = MaxFds
  /\ Finish
  /\ UNCHANGED <<commandVars, alive, events, disk, sended, entire_size, offset, descriptors,
                 streamVars, rtspVars, serverVars>>

SendHead ==
  /\ At("head") /\ Send
  /\ entire_size' = disk
  /\ Goto("data")
  /\ IF open THEN announced' = disk /\ arrived' = 0 ELSE UNCHANGED <<announced, arrived>>
  /\ UNCHANGED <<commandVars, events, disk, sended, offset, descriptors, mutex_EventManager,
                 streamVars, rtspVars, delivered>>

(* Mutant: the last packet is taken for full.                                *)
in_data_sizeFull == PACK_MAX_SIZE

in_data_size ==
  IF entire_size - sended < PACK_MAX_SIZE THEN entire_size - sended ELSE PACK_MAX_SIZE

(* One round of the loop.  The server appends what comes.                    *)
SendData ==
  /\ At("data") /\ sended < entire_size /\ Send
  /\ sended' = sended + in_data_size /\ offset' = offset + in_data_size
  /\ arrived' = IF open /\ offset = arrived THEN arrived + in_data_size ELSE arrived
  /\ UNCHANGED <<commandVars, up, events, disk, entire_size, descriptors, mutex_EventManager,
                 streamVars, rtspVars, announced, delivered>>

(* Mutant: sended is not reset.                                              *)
CompleteKeepsSended ==
  /\ At("data") /\ sended >= entire_size
  /\ Finish
  /\ delivered' = IF up = "data" /\ open /\ arrived = announced THEN delivered + 1
                  ELSE delivered
  /\ UNCHANGED <<commandVars, alive, events, disk, sended, entire_size, offset, descriptors,
                 streamVars, rtspVars, announced, arrived>>

(* fd is not closed.                                                         *)
Complete ==
  /\ At("data") /\ sended >= entire_size
  /\ Finish
  /\ sended' = 0
  /\ delivered' = IF up = "data" /\ open /\ arrived = announced THEN delivered + 1
                  ELSE delivered
  /\ UNCHANGED <<commandVars, alive, events, disk, entire_size, offset, descriptors,
                 streamVars, rtspVars, announced, arrived>>

-----------------------------------------------------------------------------
(* EventManager::Run.                                                        *)

Detect ==
  /\ up = "wait" /\ mutex_EventManager = "free" /\ events < MaxEvents
  /\ mutex_EventManager' = "event"
  /\ up' = "event"
  /\ UNCHANGED <<commandVars, alive, events, disk, sended, entire_size, offset, descriptors,
                 streamVars, rtspVars, serverVars>>

send_Event ==
  /\ up = "event" /\ Send
  /\ events' = events + 1
  /\ up' = "record"
  /\ UNCHANGED <<commandVars, disk, sended, entire_size, offset, descriptors,
                 mutex_EventManager, streamVars, rtspVars, serverVars>>

(* VideoEncode, when it ends (EncoderLoop), has closed its file.  It does    *)
(* not look at the result of fopen.                                          *)
VideoEncode ==
  /\ up = "record"
  /\ IF descriptors < MaxFds
       THEN disk' \in RecordingSizes /\ up' = "open" /\ UNCHANGED alive
       ELSE alive' = FALSE /\ UNCHANGED <<disk, up>>
  /\ UNCHANGED <<commandVars, events, sended, entire_size, offset, descriptors,
                 mutex_EventManager, streamVars, rtspVars, serverVars>>

UploadStep ==
  /\ alive
  /\ \/ login_camera_id \/ send_MAC \/ CaptureImage
     \/ Open \/ OpenFails \/ SendHead \/ SendData \/ Complete
     \/ send_Event \/ VideoEncode

-----------------------------------------------------------------------------
(* StreamManager::Run with OpenMAX::StartStreaming.                          *)

StreamRaise ==
  /\ stream = "wait" /\ requests > 0
  /\ mutex_EventManager \in {"free", "stream"}
  /\ mutex_EventManager' = "stream"
  /\ requests' = requests - 1
  /\ flag_stream' = TRUE
  /\ stream' = "begin"
  /\ UNCHANGED <<commandVars, alive, transferVars, descriptors, is_end, rtspVars, serverVars>>

(* The thread of the session is created.                                     *)
StreamBegin ==
  /\ stream = "begin"
  /\ is_end' = FALSE
  /\ \E s \in Sessions :
       /\ rtsp[s].pc = "none" /\ \A t \in Sessions : t < s => rtsp[t].pc # "none"
       /\ rtsp' = [rtsp EXCEPT ![s].pc = "create"]
  /\ stream' = "stream"
  /\ UNCHANGED <<commandVars, alive, transferVars, descriptors, mutex_EventManager, flag_stream,
                 requests, _port, send_stream_addr, urls, overlap, serverVars>>

StreamEnd ==
  /\ stream = "stream" /\ is_end
  /\ flag_stream' = FALSE
  /\ stream' = "unlock"
  /\ UNCHANGED <<commandVars, alive, transferVars, descriptors, mutex_EventManager, is_end,
                 requests, rtspVars, serverVars>>

(* The next message, or the mutexes are unlocked.                            *)
StreamUnlock ==
  /\ stream = "unlock"
  /\ mutex_EventManager' = IF requests > 0 THEN "stream" ELSE "free"
  /\ stream' = "wait"
  /\ UNCHANGED <<commandVars, alive, transferVars, descriptors, flag_stream, is_end, requests,
                 rtspVars, serverVars>>

StreamStep == Threads /\ (StreamRaise \/ StreamBegin \/ StreamEnd \/ StreamUnlock)

-----------------------------------------------------------------------------
(* startRtspServer, the thread of session s.                                 *)

Ports == {rtsp[s].port : s \in Sessions}

CreateServer(s) ==
  /\ rtsp[s].pc = "create" /\ _port \notin Ports
  /\ Leak
  /\ rtsp' = [rtsp EXCEPT ![s] = [pc |-> "url", port |-> _port]]
  /\ UNCHANGED <<_port, send_stream_addr, urls, overlap>>

CreateFails(s) ==
  /\ rtsp[s].pc = "create" /\ (_port \in Ports \/ descriptors = MaxFds)
  /\ rtsp' = [rtsp EXCEPT ![s].pc = "bump"]
  /\ UNCHANGED <<descriptors, _port, send_stream_addr, urls, overlap>>

(* Mutant: the port is not changed.                                          *)
BumpPortNot(s) ==
  /\ rtsp[s].pc = "bump"
  /\ rtsp' = [rtsp EXCEPT ![s].pc = "create"]
  /\ UNCHANGED <<descriptors, _port, send_stream_addr, urls, overlap>>

(* Without a descriptor for any port it counts on: bounded.                  *)
BumpPort(s) ==
  /\ rtsp[s].pc = "bump"
  /\ _port' = Min({_port + 1, MaxSessions + 1})
  /\ rtsp' = [rtsp EXCEPT ![s].pc = "create"]
  /\ UNCHANGED <<descriptors, send_stream_addr, urls, overlap>>

(* Mutant: the URL is made from the global.                                  *)
FillUrlGlobal(s) ==
  /\ rtsp[s].pc = "url"
  /\ send_stream_addr' = _port
  /\ overlap' = (overlap \/ \E t \in Sessions : rtsp[t].pc = "send")
  /\ rtsp' = [rtsp EXCEPT ![s].pc = "send"]
  /\ UNCHANGED <<descriptors, _port, urls>>

(* send_streamAddress: the URL is copied to the packet ...                   *)
FillUrl(s) ==
  /\ rtsp[s].pc = "url"
  /\ send_stream_addr' = rtsp[s].port
  /\ overlap' = (overlap \/ \E t \in Sessions : rtsp[t].pc = "send")
  /\ rtsp' = [rtsp EXCEPT ![s].pc = "send"]
  /\ UNCHANGED <<descriptors, _port, urls>>

(* ... and the packet sent; then the event loop runs for ever.               *)
SendUrl(s) ==
  /\ rtsp[s].pc = "send"
  /\ urls' = IF open THEN [urls EXCEPT ![s] = send_stream_addr] ELSE urls
  /\ rtsp' = [rtsp EXCEPT ![s].pc = "serve"]
  /\ UNCHANGED <<descriptors, _port, send_stream_addr, overlap>>

RtspStep(s) ==
  /\ alive
  /\ \/ (CreateServer(s) \/ CreateFails(s) \/ BumpPort(s) \/ FillUrl(s)) /\ UNCHANGED alive
     \/ SendUrl(s) /\ Send
  /\ UNCHANGED <<commandVars, transferVars, mutex_EventManager, streamVars, serverVars>>

-----------------------------------------------------------------------------
(* CommunicationService::Run.                                                *)

(* What becomes of the packet in the buffer.  The bound on the sessions      *)
(* drops requests beyond it.                                                 *)
Execute(buffer) ==
  LET begun == Cardinality({s \in Sessions : rtsp[s].pc # "none"})
                 + (IF stream = "begin" THEN 1 ELSE 0)
      command == Command(buffer)
  IN /\ requests' = IF command = "RECV_STREAM" /\ ~flag_stream
                      THEN Min({requests + 1, MaxSessions - begun}) ELSE requests
     /\ is_end' = (is_end \/ (command = "RECV_STREAM_STOP" /\ flag_stream))
     /\ UNCHANGED <<alive, transferVars, descriptors, mutex_EventManager, flag_stream, stream,
                    rtspVars, serverVars>>

ParsingMessage ==
  /\ Threads
  /\ \/ \E n \in 1 .. Len(inbound) : Receive(n, flag_stream)
     \/ ReceiveEnd
  /\ Execute(pkg_recv')

(* recv returns -1 when the connection was reset, in recv_message as well as *)
(* in login_camera_id: error_handling ends the process.                      *)
ReceiveFails ==
  /\ alive /\ ~open /\ (up = "login" \/ Threads)
  /\ alive' = FALSE
  /\ UNCHANGED <<commandVars, transferVars, descriptors, mutex_EventManager, streamVars,
                 rtspVars, serverVars>>

Server == alive /\ (ServerSend \/ ServerClose) /\ UNCHANGED nodeVars

ConnNext ==
  \/ Server \/ ParsingMessage \/ ReceiveFails \/ UploadStep \/ (alive /\ Detect) \/ StreamStep
  \/ \E s \in Sessions : RtspStep(s)

(* The threads run; the server and the events do as they like, and nothing   *)
(* says that a recording ends.                                               *)
ConnSpec ==
  /\ ConnInit /\ [][ConnNext]_connVars
  /\ WF_connVars(UploadStep /\ up # "record") /\ WF_connVars(StreamStep)
  /\ \A s \in Sessions : WF_connVars(RtspStep(s))

-----------------------------------------------------------------------------
(* What the server makes of the packets of files is an upload: no piece is   *)
(* lost, repeated or taken from another file, although one set of counters   *)
(* serves all files and URLs are sent in between.                            *)
ServerFile == INSTANCE Upload WITH size <- announced, got <- arrived,
                                    MaxPiece <- PACK_MAX_SIZE
ImplementsUpload == ServerFile!UploadSpec

(* The server is sent URLs of servers that run, and the own one of each      *)
(* session unless two threads met between writing and sending.               *)
UrlOfOwnSession ==
  \A s \in Sessions :
    urls[s] # NoPort =>
      /\ urls[s] \in Ports
      /\ ~overlap => urls[s] = rtsp[s].port

Exhausted == descriptors = MaxFds
Broken    == ~open \/ ~alive

(* An event that was reported is followed by its file, unless its recording  *)
(* never ends.                                                               *)
FileFollowsEvent ==
  \A n \in 1 .. MaxEvents :
    (events = n) ~> (delivered >= n \/ Broken \/ Exhausted \/ [](up = "record"))

(* The URL of a session is sent.                                             *)
UrlArrives ==
  \A s \in Sessions :
    (rtsp[s].pc # "none") ~> (urls[s] # NoPort \/ Broken \/ Exhausted)
=============================================================================

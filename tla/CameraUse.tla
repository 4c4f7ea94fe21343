------------------------------ MODULE CameraUse ------------------------------
(***************************************************************************)
(* What the threads of the node promise about the one camera pipeline they *)
(* share: motion detection, the recording of an event and a live stream    *)
(* take turns.  The detector leaves the camera between two detections, a   *)
(* session of the stream manager may go live several times before it       *)
(* gives the camera back.                                                  *)
(***************************************************************************)
VARIABLES
  detector,   \* what EventManager does with the camera
  session     \* what StreamManager does with the camera

useVars == <<detector, session>>

UseTypeOK ==
  /\ detector \in {"off", "detect", "record"}
  /\ session \in {"none", "open", "live"}

UseInit == detector = "off" /\ session = "none"

Detect == detector = "off" /\ session = "none" /\ detector' = "detect" /\ UNCHANGED session
Record == detector = "detect" /\ detector' = "record" /\ UNCHANGED session
Leave  == detector # "off" /\ detector' = "off" /\ UNCHANGED session

Open   == session = "none" /\ detector = "off" /\ session' = "open" /\ UNCHANGED detector
GoLive == session = "open" /\ session' = "live" /\ UNCHANGED detector
EndLive == session = "live" /\ session' = "open" /\ UNCHANGED detector
Close  == session = "open" /\ session' = "none" /\ UNCHANGED detector

UseNext == Detect \/ Record \/ Leave \/ Open \/ GoLive \/ EndLive \/ Close

UseSpec == UseInit /\ [][UseNext]_useVars
=============================================================================

------------------------------ MODULE Pictures ------------------------------
(***************************************************************************)
(* The pictures of the node from the scene in front of the camera to what  *)
(* they are taken for: CameraManager::CaptureImage once, when the node     *)
(* starts, for the picture that the server is sent; then, for ever,        *)
(* EventManager::BackgroundSubtraction, which captures two frames and      *)
(* compares them.  Composes FrameCapture, Snapshot and Subtraction.        *)
(*                                                                         *)
(* OMXCaptureFrame returns its frame by pointer, &cap_frame, and the two   *)
(* memcpy of BackgroundSubtraction copy pointers to pixels only.  The      *)
(* first frame survives the second capture because every call allocates a  *)
(* frame_buffer of its own, which nobody frees.                            *)
(***************************************************************************)
EXTENDS Snapshot, Subtraction

CONSTANTS
  Scenes,       \* what the camera may see, luminances of a picture
  threshold2    \* with which number of pixels there is motion

ASSUME ScenesAssumption == 0 \in Values /\ Scenes \subseteq Frames
ASSUME CountAssumption  == threshold2 \in Nat
ASSUME SizeAssumption   == \A f \in Formats : f.width * f.height = Pixels

VARIABLES
  job,          \* "snapshot", "file", "first", "second", "compare"
  scene,        \* what the images of the camera show
  temp_pData,   \* the luminances that temp.pData points to
  detected,     \* what BackgroundSubtraction returned last
  seen          \* history: the scenes of the two frames

picVars == <<captureVars, snapVars, subVars, job, scene, temp_pData, detected, seen>>

(* The types of the composition.                                             *)
PicTypeOK ==
  /\ CaptureTypeOK /\ SnapTypeOK /\ SubTypeOK
  /\ job \in {"snapshot", "file", "first", "second", "compare"}
  /\ scene \in [Images -> Scenes]
  /\ temp_pData \in Frames
  /\ detected \in BOOLEAN
  /\ job = "compare" => Len(seen) = 2
  /\ calling <=> job = "compare"

(* A frame whose chroma rows are padded is not converted: the picture is     *)
(* 352 pixels wide.                                                          *)
PicInit ==
  /\ CaptureInit /\ SnapInit /\ SubInit
  /\ job = IF format.width % 8 = 0 THEN "snapshot" ELSE "first"
  /\ \E s \in Scenes : scene = [n \in Images |-> s]
  /\ temp_pData = image /\ detected = FALSE /\ seen = <<>>

-----------------------------------------------------------------------------
(* SwitchCapturePort(72, OMX_TRUE) and the entry of the capture: the camera  *)
(* takes what it sees.                                                       *)
BeginPicture ==
  /\ job \in {"snapshot", "first", "second"}
  /\ Begin
  /\ \E s \in Scenes :
       /\ scene' = [scene EXCEPT ![shot'] = s]
       /\ seen' = IF job = "second" THEN Append(seen, s) ELSE <<s>>
  /\ UNCHANGED <<snapVars, subVars, job, temp_pData, detected>>

CaptureStep ==
  /\ TakeBuffer \/ NoBuffer \/ Refill
  /\ UNCHANGED <<snapVars, subVars, job, scene, temp_pData, detected, seen>>

CameraStep ==
  /\ FillDone \/ BufferFlag
  /\ UNCHANGED <<snapVars, subVars, job, scene, temp_pData, detected, seen>>

LeaveImage ==
  /\ job = "snapshot" /\ Leave
  /\ BeginConversion
  /\ job' = "file"
  /\ UNCHANGED <<subVars, scene, temp_pData, detected, seen>>

(* CaptureImage returns once the file is written, or is not.                 *)
SnapshotStep ==
  /\ job = "file" /\ SnapStep
  /\ job' = IF stage' = "none" THEN "first" ELSE "file"
  /\ UNCHANGED <<captureVars, subVars, scene, temp_pData, detected, seen>>

(* The luminance in a byte of a frame; 0 for chroma and for padding.         *)
Luminance(byte) ==
  LET p == (byte.slice - 1) * format.buf_slice_height * format.width + byte.at
  IN IF byte.at < buf_info.p_offset[1] /\ p \in Index THEN scene[byte.image][p] ELSE 0

Luminances == [p \in Index |-> Luminance(frame_buffer[p])]

(* memcpy(&temp, omx->OMXCaptureFrame(), ...) and memcpy(&dest, &temp, ...). *)
LeaveFirst ==
  /\ job = "first" /\ Leave
  /\ temp_pData' = Luminances
  /\ job' = "second"
  /\ UNCHANGED <<snapVars, subVars, scene, detected, seen>>

(* Mutant: frame_buffer is allocated once, temp.pData points to it too.      *)
FirstFrameReused == Luminances

(* What temp.pData points to after the second capture.                       *)
FirstFrame == temp_pData

(* memcpy(&image, omx->OMXCaptureFrame(), ...) and the call of Subtraction.  *)
LeaveSecond ==
  /\ job = "second" /\ Leave
  /\ image' = Luminances /\ temp' = FirstFrame
  /\ Capture
  /\ job' = "compare"
  /\ UNCHANGED <<snapVars, scene, temp_pData, detected, seen>>

CompareStep ==
  /\ job = "compare" /\ ComparePixel
  /\ UNCHANGED <<captureVars, snapVars, job, scene, temp_pData, detected, seen>>

ReturnMotion ==
  /\ job = "compare" /\ Return
  /\ detected' = (cnt > threshold2)
  /\ job' = "first"
  /\ UNCHANGED <<captureVars, snapVars, scene, temp_pData, seen>>

LeaveStep == LeaveImage \/ LeaveFirst \/ LeaveSecond

PicNext ==
  \/ BeginPicture \/ CaptureStep \/ CameraStep \/ LeaveStep
  \/ SnapshotStep \/ CompareStep \/ ReturnMotion

(* The loop of the capture moves on, whichever of its steps is due.          *)
LoopMoves == pc # "idle" /\ pc' \in {"idle", "test", "refill"}

(* The program goes on; the camera fills a buffer it is given and reports    *)
(* the end of the stream.                                                    *)
PicSpec ==
  /\ PicInit /\ [][PicNext]_picVars
  /\ WF_pc(LoopMoves)
  /\ WF_picVars(BeginPicture \/ SnapshotStep \/ CompareStep \/ ReturnMotion)
  /\ WF_picVars(CameraStep)

-----------------------------------------------------------------------------
(* In how many pixels the scenes of the two frames differ by limit or more.  *)
Changed(limit) == Cardinality({p \in Index : abs(seen[1][p] - seen[2][p]) >= limit})

Compared == job = "first" /\ pc = "idle" /\ Len(seen) = 2

(* BackgroundSubtraction tells from what the camera saw whether something    *)
(* moved: nothing is lost or mixed up between the slices of the first        *)
(* picture and the return.  A difference of exactly threshold1, and a count  *)
(* of exactly threshold2, may go either way here.                            *)
MotionSeen ==
  Compared =>
    /\ Changed(threshold1 + 1) > threshold2 => detected
    /\ detected => Changed(threshold1) >= threshold2

(* EventDetectManager.cpp:72-73: motion is a difference of 40 (threshold1)   *)
(* or more in 300 (threshold2) or more pixels.                               *)
MotionFromThresholds == Compared => (detected <=> Changed(threshold1) >= threshold2)

(* The comparisons go on: no capture waits for ever, whichever way the       *)
(* callbacks of the camera fall, and a snapshot that fails delays nothing.   *)
Looks == []<>(job = "compare")
=============================================================================

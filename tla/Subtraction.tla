----------------------------- MODULE Subtraction -----------------------------
(***************************************************************************)
(* EventManager::BackgroundSubtraction: two frames are compared pixel by   *)
(* pixel.  SEImage is copied without its pixels, so that dest and temp are *)
(* one array: Subtraction writes the difference picture over the very      *)
(* frame that it compares with.                                            *)
(***************************************************************************)
EXTENDS Integers, FiniteSets

CONSTANTS
  Pixels,                   \* number of pixels of a frame
  Values,                   \* luminances
  threshold1                \* a pixel that differs by more counts

ASSUME PixelsAssumption == Pixels \in Nat \ {0}
ASSUME ValuesAssumption == Values \subseteq 0 .. 255
ASSUME ThresholdAssumption == threshold1 \in Nat

Black == 16
Index == 0 .. Pixels - 1
Frames == [Index -> Values]

VARIABLES
  calling,    \* Subtraction is being executed
  image,      \* pData of image, the second frame
  temp,       \* pData of temp and of dest, the first frame
  at,         \* the pixel at hand
  cnt,
  first       \* history: the first frame as it was captured

subVars == <<calling, image, temp, at, cnt, first>>

(* The types; the loop stays within the frame.                               *)
SubTypeOK ==
  /\ calling \in BOOLEAN
  /\ image \in Frames /\ first \in Frames
  /\ temp \in [Index -> Values \cup {Black}]
  /\ at \in 0 .. Pixels
  /\ cnt \in 0 .. at

SubInit ==
  /\ calling = FALSE
  /\ \E v \in Values : image = [p \in Index |-> v] /\ temp = image /\ first = image
  /\ at = 0 /\ cnt = 0

abs(n) == IF n < 0 THEN -n ELSE n

(* BackgroundSubtraction: the frames are captured.                           *)
Capture ==
  /\ ~calling
  /\ image' \in Frames /\ temp' \in Frames /\ first' = temp'
  /\ at' = 0 /\ cnt' = 0
  /\ calling' = TRUE

ComparePixel ==
  /\ calling /\ at < Pixels
  /\ LET differs == abs(image[at] - temp[at]) > threshold1 IN
     /\ temp' = [temp EXCEPT ![at] = IF differs THEN image[at] ELSE Black]
     /\ cnt' = IF differs THEN cnt + 1 ELSE cnt
  /\ at' = at + 1
  /\ UNCHANGED <<calling, image, first>>

Return ==
  /\ calling /\ at = Pixels
  /\ calling' = FALSE
  /\ UNCHANGED <<image, temp, at, cnt, first>>

SubNext == Capture \/ ComparePixel \/ Return

SubSpec == SubInit /\ [][SubNext]_subVars

-----------------------------------------------------------------------------
(* How many pixels differ between the frames as they were captured.          *)
Differing(limit) ==
  Cardinality({p \in Index : p < at /\ abs(image[p] - first[p]) >= limit})

(* Although the first frame is overwritten while it is compared, what is     *)
(* counted are the differences between the two frames.                       *)
CountsDifferences == cnt = Differing(threshold1 + 1)
=============================================================================

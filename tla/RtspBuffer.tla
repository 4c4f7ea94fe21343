----------------------------- MODULE RtspBuffer -----------------------------
(***************************************************************************)
(* PI_MEMORY_BUFFER between the two threads of a live session: the loop of *)
(* StartStreaming pushes the buffers of the encoder, the RTSP thread reads *)
(* through piMemoryBufferedSource::doGetNextFrame.                         *)
(*                                                                         *)
(* The encoder is external.  It emits sps and pps before its first frame   *)
(* and perhaps again between two frames; a frame is a piece with a start   *)
(* code followed by any number of pieces without one.  The buffer cannot   *)
(* see which piece ends a frame: it takes a frame for complete when the    *)
(* next one starts.  sps_len and pps_len are not initialised by the        *)
(* constructor: what is read before anything was saved is Unset.           *)
(***************************************************************************)
EXTENDS Naturals, Sequences

CONSTANTS
  RTSP_INPUT_BUFFER_MAX,
  PARAMETER_SET_DISTANCE,
  Lengths,     \* the lengths a piece may have, start code not counted
  MaxFrames,   \* bound: frames the encoder emits
  MaxPieces,   \* bound: pieces of a frame
  MaxSets      \* bound: how often sps and pps are emitted

ASSUME MaxAssumption == RTSP_INPUT_BUFFER_MAX \in Nat
ASSUME LengthsAssumption == Lengths \subseteq Nat \ {0}
ASSUME BoundsAssumption ==
  PARAMETER_SET_DISTANCE \in Nat \ {0} /\ MaxFrames \in Nat /\ MaxPieces \in Nat /\ MaxSets \in Nat

Unset == 0
StartCode == 4   \* bytes of a start code, counted in data_len

Piece == [frame : Nat \ {0}, part : Nat \ {0}, last : BOOLEAN]

VARIABLES
  emitted,         \* the piece the encoder emitted last
  sets,            \* number of the parameter sets emitted last
  ppsDue,          \* the sps of a pair was emitted, its pps not yet
  temp_data, temp_data_len,
  frame_data, frame_data_len,
  sps, pps,        \* which pair the saved sets are from
  nFrameIdx,
  delivered,       \* what doGetNextFrame handed to live555 last
  newest,          \* history: the newest frame that was flushed
  gaps,            \* history: frames of which a piece was refused
  headless         \* history: a first piece was refused

encoder == <<emitted, sets, ppsDue>>
writer  == <<temp_data, temp_data_len>>
shared  == <<frame_data, frame_data_len>>
reader  == <<nFrameIdx, delivered>>
history == <<newest, gaps, headless>>
vars    == <<encoder, writer, shared, sps, pps, reader, history>>

(* The types of the buffer; a length of 0 stands for an empty buffer.        *)
TypeOK ==
  /\ emitted \in Piece \cup {[frame |-> 0, part |-> 0, last |-> TRUE]}
  /\ sets \in Nat
  /\ ppsDue \in BOOLEAN
  /\ temp_data \in Seq(Piece) /\ temp_data_len \in Nat
  /\ frame_data \in Seq(Piece) /\ frame_data_len \in Nat
  /\ sps \in Nat /\ pps \in Nat
  /\ nFrameIdx \in 0 .. PARAMETER_SET_DISTANCE + 1
  /\ delivered \in [kind : {"none", "frame", "sps", "pps"}, data : Seq(Piece), set : Nat]
  /\ newest \in Nat
  /\ gaps \subseteq Nat
  /\ headless \in BOOLEAN

(* Mutant: the parameter sets come first.                                   *)
InitSetsFirst ==
  /\ emitted = [frame |-> 0, part |-> 0, last |-> TRUE]
  /\ sets = 0 /\ ppsDue = FALSE
  /\ temp_data = <<>> /\ temp_data_len = 0
  /\ frame_data = <<>> /\ frame_data_len = 0
  /\ sps = Unset /\ pps = Unset
  /\ nFrameIdx = PARAMETER_SET_DISTANCE
  /\ delivered = [kind |-> "none", data |-> <<>>, set |-> Unset]
  /\ newest = 0 /\ gaps = {} /\ headless = FALSE

Init ==
  /\ emitted = [frame |-> 0, part |-> 0, last |-> TRUE]
  /\ sets = 0 /\ ppsDue = FALSE
  /\ temp_data = <<>> /\ temp_data_len = 0
  /\ frame_data = <<>> /\ frame_data_len = 0
  /\ sps = Unset /\ pps = Unset
  /\ nFrameIdx = 0
  /\ delivered = [kind |-> "none", data |-> <<>>, set |-> Unset]
  /\ newest = 0 /\ gaps = {} /\ headless = FALSE

-----------------------------------------------------------------------------
(* push_frame_data: a piece with the start code of an sps or a pps.          *)
PushSps ==
  /\ emitted.last /\ ~ppsDue /\ sets < MaxSets
  /\ sets' = sets + 1
  /\ ppsDue' = TRUE
  /\ sps' = sets'
  /\ UNCHANGED <<emitted, writer, shared, pps, reader, history>>

PushPps ==
  /\ ppsDue
  /\ ppsDue' = FALSE
  /\ pps' = sets
  /\ UNCHANGED <<emitted, sets, writer, shared, sps, reader, history>>

(* flush_frame_data: what was collected becomes the newest frame.            *)
flush_frame_data ==
  IF temp_data_len > 0
    THEN /\ frame_data' = temp_data
         /\ frame_data_len' = temp_data_len
         /\ newest' = temp_data[1].frame
    ELSE UNCHANGED <<shared, newest>>

(* Mutant: the new frame is collected before the old one is flushed.         *)
PushStartFlushesAfter(length, last) ==
  LET p == [frame |-> emitted.frame + 1, part |-> 1, last |-> last] IN
  /\ emitted.last /\ ~ppsDue /\ sets > 0
  /\ emitted.frame < MaxFrames
  /\ emitted' = p
  /\ temp_data' = <<p>> /\ frame_data' = <<p>>
  /\ temp_data_len' = length /\ frame_data_len' = length
  /\ newest' = p.frame
  /\ UNCHANGED <<sets, ppsDue, sps, pps, reader, gaps, headless>>

(* push_frame_data: the first piece of a frame.                              *)
PushStart(length, last) ==
  LET p == [frame |-> emitted.frame + 1, part |-> 1, last |-> last] IN
  /\ emitted.last /\ ~ppsDue /\ sets > 0
  /\ emitted.frame < MaxFrames
  /\ emitted' = p
  /\ IF length + StartCode > RTSP_INPUT_BUFFER_MAX
       THEN /\ headless' = TRUE
            /\ gaps' = gaps \cup {p.frame}
            /\ UNCHANGED <<writer, shared, newest>>
       ELSE /\ flush_frame_data
            /\ temp_data' = <<p>>
            /\ temp_data_len' = length
            /\ UNCHANGED <<gaps, headless>>
  /\ UNCHANGED <<sets, ppsDue, sps, pps, reader>>

(* Mutant: the piece is compared with the maximum, not the sum.              *)
FitsAlone(length) == length <= RTSP_INPUT_BUFFER_MAX

Fits(length) ==
  /\ length <= RTSP_INPUT_BUFFER_MAX
  /\ temp_data_len + length <= RTSP_INPUT_BUFFER_MAX

(* push_frame_data: trailing data.                                           *)
PushTrailing(length, last) ==
  LET p == [emitted EXCEPT !.part = @ + 1, !.last = last] IN
  /\ ~emitted.last
  /\ emitted.part < MaxPieces
  /\ emitted' = p
  /\ IF Fits(length)
       THEN /\ temp_data' = Append(temp_data, p)
            /\ temp_data_len' = temp_data_len + length
            /\ UNCHANGED gaps
       ELSE /\ gaps' = gaps \cup {p.frame}
            /\ UNCHANGED writer
  /\ UNCHANGED <<sets, ppsDue, shared, sps, pps, reader, newest, headless>>

-----------------------------------------------------------------------------
(* doGetNextFrame, by nFrameIdx.  Its busy loop waits for a frame.           *)

(* Mutant: the frame stays in the buffer after it was read.                  *)
ReadFrameKeeps ==
  /\ nFrameIdx < PARAMETER_SET_DISTANCE
  /\ frame_data_len > 0
  /\ delivered' = [kind |-> "frame", data |-> frame_data, set |-> Unset]
  /\ nFrameIdx' = nFrameIdx + 1
  /\ UNCHANGED <<encoder, writer, shared, sps, pps, history>>

ReadFrame ==
  /\ nFrameIdx < PARAMETER_SET_DISTANCE
  /\ frame_data_len > 0
  /\ delivered' = [kind |-> "frame", data |-> frame_data, set |-> Unset]
  /\ frame_data_len' = 0
  /\ nFrameIdx' = nFrameIdx + 1
  /\ UNCHANGED <<encoder, writer, frame_data, sps, pps, history>>

ReadSps ==
  /\ nFrameIdx = PARAMETER_SET_DISTANCE
  /\ delivered' = [kind |-> "sps", data |-> <<>>, set |-> sps]
  /\ nFrameIdx' = nFrameIdx + 1
  /\ UNCHANGED <<encoder, writer, shared, sps, pps, history>>

(* Mutant: the index goes back to the turn of the sps.                       *)
ReadPpsResetsShort ==
  /\ nFrameIdx > PARAMETER_SET_DISTANCE
  /\ delivered' = [kind |-> "pps", data |-> <<>>, set |-> pps]
  /\ nFrameIdx' = PARAMETER_SET_DISTANCE
  /\ UNCHANGED <<encoder, writer, shared, sps, pps, history>>

(* nFrameIdx is set to 0 and then incremented like after any other read.     *)
ReadPps ==
  /\ nFrameIdx > PARAMETER_SET_DISTANCE
  /\ delivered' = [kind |-> "pps", data |-> <<>>, set |-> pps]
  /\ nFrameIdx' = 0 + 1
  /\ UNCHANGED <<encoder, writer, shared, sps, pps, history>>

doGetNextFrame == ReadFrame \/ ReadSps \/ ReadPps

Next ==
  \/ PushSps \/ PushPps
  \/ \E length \in Lengths, last \in BOOLEAN :
       PushStart(length, last) \/ PushTrailing(length, last)
  \/ doGetNextFrame

Spec == Init /\ [][Next]_vars

(* live555 asks for the next frame again and again.                          *)
FairSpec == Spec /\ WF_vars(doGetNextFrame)

-----------------------------------------------------------------------------
(* Neither array is filled beyond its size.                                  *)
BufferBound ==
  /\ temp_data_len <= RTSP_INPUT_BUFFER_MAX
  /\ frame_data_len <= RTSP_INPUT_BUFFER_MAX

(* Pieces of one frame in their order, beginning with its first.             *)
OneFrame(data) ==
  /\ data[1].part = 1
  /\ \A i, j \in DOMAIN data :
       data[i].frame = data[j].frame /\ (i < j => data[i].part < data[j].part)

(* What is handed to live555 as a frame is made of the pieces of one frame,  *)
(* although push and read interleave, unless the first piece of some frame   *)
(* was refused; and it is the whole frame unless one of its pieces was.      *)
WholeFrames ==
  (delivered.kind = "frame" /\ ~headless) =>
    LET data == delivered.data IN
    /\ OneFrame(data)
    /\ data[1].frame \notin gaps =>
         data[Len(data)].part = Len(data) /\ data[Len(data)].last

(* No parameter set is handed out before one was saved: the uninitialised    *)
(* sps_len and pps_len are never used, because frames come first.            *)
ParameterSetsSaved == delivered.kind \in {"sps", "pps"} => delivered.set # Unset

(* The buffer implements a cell with the newest frame: the reader takes each *)
(* frame at most once, and none that is older than one it took before.       *)
Cell == INSTANCE FrameCell WITH
          cell <- IF frame_data_len = 0 THEN 0 ELSE frame_data[1].frame,
          out  <- IF delivered.kind = "frame" THEN delivered.data[1].frame ELSE 0

NewestFrameOnce == Cell!CellSpec

(* A frame that is ready is read or replaced by a newer one, also when the   *)
(* turn of the parameter sets comes first.                                   *)
FrameMovesOn ==
  \A n \in 1 .. MaxFrames :
    (frame_data_len > 0 /\ newest = n) ~> (frame_data_len = 0 \/ newest > n)
=============================================================================

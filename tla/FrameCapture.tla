---------------------------- MODULE FrameCapture ----------------------------
(***************************************************************************)
(* OMXCaptureFrame (OMXCaptureImage has the same loop): one image of the   *)
(* camera arrives in several buffers, slices of buf_slice_height rows, and *)
(* is unpacked into an I420 frame, plane by plane.                         *)
(*                                                                         *)
(* The camera is external.  It fills the one buffer whenever it is given   *)
(* it: with the slices of an image, the last one marked ENDOFFRAME, then   *)
(* with nothing for the end of the stream.  With the latter comes an       *)
(* OMX_EventBufferFlag, before or after the callback for the buffer but    *)
(* before any later callback.  The loop is written for that: it leaves     *)
(* upon the event without a look at the buffer.                            *)
(***************************************************************************)
EXTENDS Naturals

CONSTANT Formats   \* [width, height, buf_stride, buf_slice_height]

(* Frames have an even number of rows and slices too, and more than one      *)
(* slice; rows need no padding (352, 320 and 1280 are multiples of the       *)
(* alignment of the camera).                                                 *)
ASSUME FormatsAssumption ==
  \A f \in Formats :
    /\ f.width \in Nat \ {0} /\ f.height \in Nat /\ f.buf_slice_height \in Nat
    /\ f.width % 4 = 0 /\ f.buf_stride = f.width
    /\ f.height % 2 = 0 /\ f.buf_slice_height % 2 = 0
    /\ f.buf_slice_height \in 2 .. f.height - 2

Planes == 0 .. 2
Images == {1, 2}   \* successive images alternate

VARIABLES
  format,       \* of port 72
  pc,           \* "idle", "test", "refill"
  need,         \* need_next_buffer_to_be_filled
  available,    \* ctx.camera_output_buffer_available
  buff_eos,     \* ctx.buff_eos
  owner,        \* of camera_ppBuffer_out
  buffer,       \* [image, slice, flags]: what it was filled with last
  shot, slice,  \* the camera: what comes next, slice 0 for the end of stream
  event,        \* an OMX_EventBufferFlag is due
  buf_num, frame_bytes,
  frame,        \* byte -> [image, slice, at] it was copied from, or Blank
  frame_buffer, offset

loop   == <<pc, need>>
camera == <<owner, buffer, shot, slice, event>>
unpack == <<buf_num, frame_bytes, frame, frame_buffer, offset>>
captureVars   == <<format, loop, available, buff_eos, camera, unpack>>

-----------------------------------------------------------------------------
ROUND_UP_2(num) == 2 * ((num + 1) \div 2)
ROUND_UP_4(num) == 4 * ((num + 3) \div 4)

(* Mutant: every buffer is taken for full.                                   *)
PaddingNone(height, slice_height) == 0

Padding(height, slice_height) ==
  IF slice_height > 0 /\ height % slice_height > 0
    THEN slice_height - (height % slice_height) ELSE 0

get_i420_frame_info(width, height) ==
  LET y  == ROUND_UP_4(width)
      uv == ROUND_UP_4(ROUND_UP_2(width) \div 2)
      u  == y * ROUND_UP_2(height)
      v  == u + uv * (ROUND_UP_2(height) \div 2)
  IN [p_stride |-> [i \in Planes |-> IF i = 0 THEN y ELSE uv],
      p_offset |-> [i \in Planes |-> <<0, u, v>>[i + 1]],
      size     |-> v + uv * (ROUND_UP_2(height) \div 2)]

FrameInfo == [f \in Formats |-> get_i420_frame_info(f.width, f.height)]
BufInfo   == [f \in Formats |-> get_i420_frame_info(f.buf_stride, f.buf_slice_height)]

frame_info == FrameInfo[format]
buf_info   == BufInfo[format]
Blank == [image |-> 0, slice |-> 0, at |-> 0]
Empty == [i \in 0 .. frame_info.size - 1 |-> Blank]
Slices == (format.height + format.buf_slice_height - 1) \div format.buf_slice_height

CaptureTypeOK ==
  /\ format \in Formats
  /\ pc \in {"idle", "test", "refill"}
  /\ need \in BOOLEAN /\ available \in BOOLEAN /\ buff_eos \in BOOLEAN
  /\ owner \in {"program", "camera"}
  /\ buffer \in [image : {0} \cup Images, slice : 0 .. Slices, flags : {"none", "ENDOFFRAME"}]
  /\ shot \in Images /\ slice \in 0 .. Slices /\ event \in BOOLEAN
  /\ buf_num \in 0 .. Slices /\ frame_bytes \in 0 .. frame_info.size
  /\ DOMAIN frame = 0 .. frame_info.size - 1
  /\ DOMAIN frame_buffer = 0 .. frame_info.size - 1
  /\ offset \in {0, frame_info.size}

CaptureInit ==
  /\ format \in Formats
  /\ pc = "idle" /\ need = FALSE /\ available = FALSE /\ buff_eos = FALSE
  /\ owner = "program" /\ buffer = [image |-> 0, slice |-> 0, flags |-> "none"]
  /\ shot = 1 /\ slice = 1 /\ event = FALSE
  /\ buf_num = 0 /\ frame_bytes = 0 /\ offset = 0
  /\ frame = Empty /\ frame_buffer = Empty

-----------------------------------------------------------------------------
(* The entry, after SwitchCapturePort(72, OMX_TRUE): the camera begins with  *)
(* an image.                                                                 *)
Begin ==
  /\ pc = "idle"
  /\ pc' = "test" /\ need' = TRUE
  /\ slice' = 1 /\ shot' = 3 - shot
  /\ frame' = Empty /\ frame_buffer' = Empty
  /\ buf_num' = 0 /\ frame_bytes' = 0 /\ offset' = 0
  /\ UNCHANGED <<format, available, buff_eos, owner, buffer, event>>

max_spans(i) == IF i = 0 THEN format.buf_slice_height ELSE format.buf_slice_height \div 2

valid_spans(i) ==
  LET y == format.buf_slice_height
             - IF buffer.flags = "ENDOFFRAME"
                 THEN Padding(format.height, format.buf_slice_height) ELSE 0
  IN IF i = 0 THEN y ELSE y \div 2

(* Mutant: the planes of the slice lie where those of the frame do.          *)
SpanFromFrame(i) ==
  [to    |-> frame_info.p_offset[i] + buf_num * frame_info.p_stride[i] * max_spans(i),
   from  |-> frame_info.p_offset[i],
   bytes |-> frame_info.p_stride[i] * valid_spans(i)]

(* What is copied for plane i, and where to.                                 *)
Span(i) ==
  [to    |-> frame_info.p_offset[i] + buf_num * frame_info.p_stride[i] * max_spans(i),
   from  |-> buf_info.p_offset[i],
   bytes |-> frame_info.p_stride[i] * valid_spans(i)]

AllSpans == Span(0).bytes + Span(1).bytes + Span(2).bytes

Unpacked ==
  LET span == [i \in Planes |-> Span(i)]
      in(i) == span[i].to .. span[i].to + span[i].bytes - 1
      planes(b) == {i \in Planes : b \in in(i)}
  IN [b \in DOMAIN frame |->
        IF planes(b) = {} THEN frame[b]
        ELSE LET i == CHOOSE i \in planes(b) : TRUE
             IN [image |-> buffer.image, slice |-> buffer.slice,
                 at |-> span[i].from + (b - span[i].to)]]

Looked == pc = "test" /\ available

Leave ==
  /\ Looked /\ buff_eos
  /\ pc' = "idle" /\ available' = FALSE
  /\ buff_eos' = FALSE
  /\ UNCHANGED <<format, need, camera, unpack>>

(* Mutant: the buffers of the next frame are counted on.                     *)
NextNumKeeps == buf_num + 1

NextNum == IF buffer.flags = "ENDOFFRAME" THEN 0 ELSE buf_num + 1

TakeBuffer ==
  /\ Looked /\ ~buff_eos
  /\ IF buffer.flags = "ENDOFFRAME"
       THEN /\ frame_buffer' = Unpacked
            /\ offset' = offset + frame_info.size
            /\ frame_bytes' = 0
            /\ frame' = Empty
       ELSE /\ frame' = Unpacked
            /\ frame_bytes' = frame_bytes + AllSpans
            /\ UNCHANGED <<frame_buffer, offset>>
  /\ buf_num' = NextNum
  /\ pc' = "refill" /\ need' = TRUE /\ available' = FALSE
  /\ UNCHANGED <<format, buff_eos, camera>>

NoBuffer ==
  /\ pc = "test" /\ ~available
  /\ pc' = "refill"
  /\ UNCHANGED <<format, need, available, buff_eos, camera, unpack>>

(* Mutant: the buffer is not given back.                                     *)
RefillKeepsBuffer ==
  /\ pc = "refill"
  /\ pc' = "test" /\ need' = FALSE
  /\ available' = IF need THEN FALSE ELSE available
  /\ UNCHANGED <<format, buff_eos, camera, unpack>>

(* OMX_FillThisBuffer.                                                       *)
Refill ==
  /\ pc = "refill"
  /\ pc' = "test" /\ need' = FALSE
  /\ available' = IF need THEN FALSE ELSE available
  /\ owner' = IF need THEN "camera" ELSE owner
  /\ UNCHANGED <<format, buff_eos, buffer, shot, slice, event, unpack>>

LoopStep == Leave \/ TakeBuffer \/ NoBuffer \/ Refill

(* fill_output_Camerabuffer_done_handler.                                    *)
FillDone ==
  /\ owner = "camera"
  /\ slice = 0 \/ ~event
  /\ buffer' = [image |-> shot, slice |-> slice,
                flags |-> IF slice = Slices THEN "ENDOFFRAME" ELSE "none"]
  /\ slice' = IF slice = Slices THEN 0 ELSE slice + 1
  /\ shot' = IF slice = 0 THEN 3 - shot ELSE shot
  /\ event' = (event \/ slice = Slices)
  /\ owner' = "program" /\ available' = TRUE
  /\ UNCHANGED <<format, loop, buff_eos, unpack>>

(* event_handler with OMX_EventBufferFlag.                                   *)
BufferFlag ==
  /\ event
  /\ slice = 1 \/ owner = "camera"
  /\ event' = FALSE /\ buff_eos' = TRUE
  /\ UNCHANGED <<format, loop, available, owner, buffer, shot, slice, unpack>>

CaptureNext == Begin \/ LoopStep \/ FillDone \/ BufferFlag

CaptureSpec == CaptureInit /\ [][CaptureNext]_captureVars

-----------------------------------------------------------------------------
(* memcpy stays inside the frame and the frame inside frame_buffer, and the   *)
(* bytes of a complete frame add up: the program does not die at line 848.   *)
FrameFits ==
  Looked /\ ~buff_eos =>
    /\ \A i \in Planes : Span(i).to + Span(i).bytes <= frame_info.size
    /\ buffer.flags = "ENDOFFRAME" =>
         offset = 0 /\ frame_bytes + AllSpans = frame_info.size

(* The byte of plane i in a row and column of image n, by the layout of the  *)
(* slices that the camera delivers, info.                                    *)
Pixel(info, n, i, row, column) ==
  [image |-> n,
   slice |-> row \div max_spans(i) + 1,
   at |-> info.p_offset[i] + (row % max_spans(i)) * info.p_stride[i] + column]

Rows(i) == IF i = 0 THEN format.height ELSE format.height \div 2

(* What OMXCaptureFrame returns is a whole picture: every row of every plane *)
(* at its place, all of one image.                                          *)
WholePicture ==
  offset # 0 =>
    LET to == frame_info  from == buf_info IN
    \E n \in Images : \A i \in Planes :
      \A row \in 0 .. Rows(i) - 1, column \in 0 .. to.p_stride[i] - 1 :
        frame_buffer[to.p_offset[i] + row * to.p_stride[i] + column]
          = Pixel(from, n, i, row, column)
=============================================================================

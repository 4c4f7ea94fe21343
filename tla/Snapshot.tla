------------------------------ MODULE Snapshot ------------------------------
(***************************************************************************)
(* OMXCaptureImage after its capture loop: the picture is converted from   *)
(* I420 to RGB, two by two pixels at a time, and written row by row to a   *)
(* JPEG file.  CommunicationService sends that file to the server when the *)
(* node starts.                                                            *)
(*                                                                         *)
(* The conversion walks through the picture with three pointers; pixels    *)
(* keep the bytes they were converted from, so that a pointer that runs    *)
(* ahead shows.  The tables are functions of the values of these bytes.    *)
(***************************************************************************)
EXTENDS FrameCapture, Sequences, Integers

VARIABLES
  stage,         \* "none", "convert", "write", "done", "failed"
  x, y,          \* the block at hand
  pY, pU, pV,    \* offsets into frame_buffer
  rgb,           \* pixel -> the bytes it was converted from, or Unwritten
  jpeg           \* the rows in the file

snapVars == <<stage, x, y, pY, pU, pV, rgb, jpeg>>

Unwritten == [luma |-> Blank, u |-> Blank, v |-> Blank]

SnapTypeOK ==
  /\ stage \in {"none", "convert", "write", "done", "failed"}
  /\ x \in 0 .. format.width - 2 /\ y \in 0 .. format.height
  /\ {pY, pU, pV} \subseteq 0 .. frame_info.size
  /\ DOMAIN rgb = 0 .. format.width * format.height - 1
  /\ Len(jpeg) \in 0 .. format.height

SnapInit ==
  /\ stage = "none" /\ x = 0 /\ y = 0
  /\ pY = 0 /\ pU = 0 /\ pV = 0
  /\ rgb = [p \in 0 .. format.width * format.height - 1 |-> Unwritten]
  /\ jpeg = <<>>

-----------------------------------------------------------------------------
(* The tables.  The factors of the code, times 1000.                         *)

Clip(n) == IF n > 255000 THEN 255 ELSE IF n < 0 THEN 0 ELSE n \div 1000

YY(i) == 1164 * (i - 16)
BU(i) == 2018 * (i - 128)
GV(i) == 831 * (i - 128)
GU(i) == 391 * (i - 128)
RV(i) == 1596 * (i - 128)

YUV_B(i, j)    == Clip(YY(i) + BU(j))
YUV_R(i, j)    == Clip(YY(i) + RV(j))
YUV_G(i, j, k) == Clip(YY(i) - (GU(j) + GV(k)))

(* The three bytes of a pixel of the output, from the values of the bytes    *)
(* that y, u and v were read from.                                           *)
Channels(luma, u, v) == <<YUV_B(luma, u), YUV_G(luma, u, v), YUV_R(luma, v)>>

-----------------------------------------------------------------------------
(* Mutant: the planes of I420 are taken in their order.                      *)
BeginConversionUV ==
  /\ stage' = "convert" /\ x' = 0 /\ y' = 0
  /\ pY' = 0
  /\ pU' = format.width * format.height
  /\ pV' = format.width * format.height + (format.width * format.height) \div 4
  /\ UNCHANGED <<rgb, jpeg>>

(* The entry of yuv420_to_rgb.                                               *)
BeginConversion ==
  /\ stage' = "convert" /\ x' = 0 /\ y' = 0
  /\ pY' = 0
  /\ pV' = format.width * format.height
  /\ pU' = format.width * format.height + (format.width * format.height) \div 4
  /\ UNCHANGED <<rgb, jpeg>>

(* Mutant: the pointer does not skip the second row of the blocks.           *)
AfterBlockNoSkip == pY + 2

(* pY after a block: at the end of a row of blocks it skips a row of pixels. *)
AfterBlock == IF x + 2 <= format.width - 2 THEN pY + 2 ELSE pY + 2 + format.width

ConvertBlock ==
  /\ stage = "convert"
  /\ LET w == format.width
         p == w * y + x
         pixel(at) == [luma |-> frame_buffer[at], u |-> frame_buffer[pU], v |-> frame_buffer[pV]]
     IN rgb' = [rgb EXCEPT ![p] = pixel(pY), ![p + 1] = pixel(pY + 1),
                           ![p + w] = pixel(pY + w), ![p + w + 1] = pixel(pY + w + 1)]
  /\ pU' = pU + 1 /\ pV' = pV + 1 /\ pY' = AfterBlock
  /\ IF x + 2 <= format.width - 2
       THEN x' = x + 2 /\ UNCHANGED <<y, stage>>
       ELSE /\ x' = 0 /\ y' = y + 2
            /\ stage' = IF y + 2 <= format.height - 2 THEN "convert" ELSE "write"
  /\ UNCHANGED jpeg

(* write_JPEG_file: fopen fails, and nothing is written.                     *)
OpenFails ==
  /\ stage = "write" /\ jpeg = <<>>
  /\ stage' = "failed"
  /\ UNCHANGED <<x, y, pY, pU, pV, rgb, jpeg>>

Scanline(row) == [column \in 0 .. format.width - 1 |-> rgb[row * format.width + column]]

(* jpeg_write_scanlines with row_pointer at the next row.                    *)
WriteScanline ==
  /\ stage = "write"
  /\ jpeg' = Append(jpeg, Scanline(Len(jpeg)))
  /\ stage' = IF Len(jpeg') = format.height THEN "done" ELSE "write"
  /\ UNCHANGED <<x, y, pY, pU, pV, rgb>>

(* The return of write_JPEG_file and of OMXCaptureImage: the file is on the   *)
(* disk or is not, the variables are gone.                                   *)
CloseFile ==
  /\ stage \in {"done", "failed"}
  /\ stage' = "none" /\ x' = 0 /\ y' = 0
  /\ pY' = 0 /\ pU' = 0 /\ pV' = 0
  /\ rgb' = [p \in DOMAIN rgb |-> Unwritten]
  /\ jpeg' = <<>>

SnapStep == ConvertBlock \/ OpenFails \/ WriteScanline \/ CloseFile

-----------------------------------------------------------------------------
(* The file shows the picture that was captured: every pixel comes from its  *)
(* own luminance and from the chroma samples of its block of two by two, all *)
(* of one image, row after row.                                              *)
SnapshotShowsPicture ==
  stage = "done" =>
    LET from == buf_info IN
    \E n \in Images :
      \A row \in 0 .. format.height - 1, column \in 0 .. format.width - 1 :
        LET sample(i) == Pixel(from, n, i, row \div 2, column \div 2)
            pixel == jpeg[row + 1][column]
        IN /\ pixel.luma = Pixel(from, n, 0, row, column)
           /\ {pixel.u, pixel.v} = {sample(1), sample(2)}

(* The primary colours (BT.601), and which byte of JCS_RGB each belongs to.  *)
Primaries ==
  {[y |-> 81, u |-> 90, v |-> 240, byte |-> 1], [y |-> 145, u |-> 54, v |-> 34, byte |-> 2],
   [y |-> 41, u |-> 240, v |-> 110, byte |-> 3]}

(* What a byte of the camera is in a picture of one colour.                  *)
ByteOf(colour, byte) ==
  IF byte.at < buf_info.p_offset[1] THEN colour.y
  ELSE IF byte.at < buf_info.p_offset[2] THEN colour.u ELSE colour.v

(* A red picture comes out red, a green one green and a blue one blue.  Two  *)
(* mistakes cancel here: the planes of I420 are taken for Y, V, U, and the   *)
(* bytes are written as B, G, R to a file that is declared JCS_RGB.          *)
PrimariesKept ==
  \A p \in DOMAIN rgb :
    rgb[p] # Unwritten =>
      \A colour \in Primaries :
        LET out == Channels(ByteOf(colour, rgb[p].luma), ByteOf(colour, rgb[p].u),
                            ByteOf(colour, rgb[p].v))
        IN \A i \in (1 .. 3) \ {colour.byte} : out[i] < out[colour.byte]
=============================================================================

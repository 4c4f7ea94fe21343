----------------------------- MODULE MCPictures -----------------------------
(* Pictures of 48 pixels: the last slice full or not, one or several slices  *)
(* before it, chroma rows that are padded (width 4) or not (width 8).        *)
EXTENDS Pictures

MCFormats ==
  {[width |-> f[1], height |-> f[2], buf_stride |-> f[1], buf_slice_height |-> f[3]] :
     f \in {<<4, 12, 10>>, <<8, 6, 2>>, <<8, 6, 4>>}}

(* Nothing; threshold2 pixels that stand out; all a bit lighter, but not by  *)
(* more than threshold1, and three that stand out.                           *)
MCScenes ==
  {[p \in Index |-> 0],
   [p \in Index |-> IF p < 2 THEN 81 ELSE 0],
   [p \in Index |-> IF p % 16 = 15 THEN 81 ELSE 40]}
=============================================================================

------------------------------- MODULE Upload -------------------------------
(***************************************************************************)
(* What the server may rely on when files are sent to it: first the size,  *)
(* then the pieces, in order, each as large as it may be, and nothing of   *)
(* another file before the one is complete.                                *)
(***************************************************************************)
EXTENDS Naturals

CONSTANTS
  FileSizes,   \* what a file may measure
  MaxPiece     \* what a packet holds

VARIABLES
  size,        \* of the file that was announced last
  got          \* how much of it has come

UploadInit == size = 0 /\ got = 0

Announce ==
  /\ got = size
  /\ size' \in FileSizes /\ got' = 0

Piece ==
  /\ got < size
  /\ got' = (IF got + MaxPiece < size THEN got + MaxPiece ELSE size)
  /\ UNCHANGED size

UploadSpec == UploadInit /\ [][Announce \/ Piece]_<<size, got>>
=============================================================================

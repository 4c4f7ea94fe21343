------------------------------ MODULE FrameCell ------------------------------
(***************************************************************************)
(* What PI_MEMORY_BUFFER promises its reader: a cell with the newest       *)
(* complete frame.  The writer replaces the frame by a newer one whether   *)
(* it was read or not; the reader takes a frame at most once and never one *)
(* that is older than one it took before.  Frames are numbered from 1.     *)
(***************************************************************************)
EXTENDS Naturals

VARIABLES
  cell,    \* the frame in the cell, 0 when it is empty
  newest,  \* the newest frame that was ever put
  out      \* what the reader holds: a frame, or 0 for anything else

cellVars == <<cell, newest, out>>

CellInit == cell = 0 /\ newest = 0 /\ out = 0

Put  == cell' > newest /\ newest' = cell' /\ UNCHANGED out
Take == cell # 0 /\ out' = cell /\ cell' = 0 /\ UNCHANGED newest
Drop == out' = 0 /\ UNCHANGED <<cell, newest>>

CellSpec == CellInit /\ [][Put \/ Take \/ Drop]_cellVars
=============================================================================

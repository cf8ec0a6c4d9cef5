----------------------------- MODULE MCWorkbench -----------------------------
(* An instance of Workbench for TLC, in units of 50 pixels: windows with room   *)
(* for both panels and without, in either direction, and a pointer outside the  *)
(* window and in the middle of it, so that each limit is met from either side.  *)
EXTENDS Workbench

CONSTANTS send, clear

MCCommands == {send, clear}
MCWidths == {5, 12}
MCHeights == {3, 9}
MCPointer == {-1, 6}
=============================================================================

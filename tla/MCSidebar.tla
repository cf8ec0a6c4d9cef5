------------------------------ MODULE MCSidebar ------------------------------
(* An instance of Sidebar for TLC.                                             *)
EXTENDS Sidebar, TLC

\* Two ranks are enough for a tie, a neighbour before and a neighbour after.
MCNames == {1, 2}

\* UUIDs are interchangeable: nothing compares or orders them.
Symmetry == Permutations(Ids)
=============================================================================

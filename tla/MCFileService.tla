---------------------------- MODULE MCFileService ----------------------------
(* Instances of FileService for TLC.                                           *)
EXTENDS FileService, TLC

\* Two ranks are enough for a tie, a neighbour before and a neighbour after.
MCNames == {1, 2}
MCOneName == {1}

\* UUIDs are interchangeable: nothing compares or orders them.
Symmetry == Permutations(Ids)
SymmetryWindows == Permutations(Ids) \cup Permutations(Windows)
=============================================================================

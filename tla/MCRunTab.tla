------------------------------ MODULE MCRunTab ------------------------------
(* Instances of RunTab for TLC.                                                *)
EXTENDS RunTab, TLC

\* Operations and nodes are interchangeable.
Symmetry == Permutations(Ops) \cup Permutations(Nodes)
=============================================================================

-------------------------------- MODULE MCIde --------------------------------
(* Instances of Ide for TLC: two files, of two names, whose texts are empty or  *)
(* import the file of the first name.                                           *)
EXTENDS Ide, TLC

CONSTANTS empty, imp

MCNames == {1, 2}
MCImports == [c \in Contents |-> IF c = imp THEN {1} ELSE {}]
MCNoLeading == [c \in Contents |-> {}]
MCNoThrows == {}

Symmetry == Permutations(Ids)
=============================================================================

-------------------------- MODULE MCCompilerService --------------------------
(* Instances of CompilerService for TLC: a token `t` that imports a library    *)
(* `l`, which imports a library `m` in the nested instances, and a file `x`    *)
(* with an error of its own.  Each file has one text, known by its name.       *)
EXTENDS CompilerServiceRefinement

CONSTANTS t, l, m, x

MCNames == {t, l, x}
MCNestedNames == {t, l, m}
MCTwoNames == {t, l}
MCFaulty == {x}
MCNoFaulty == {}

File(n) == [name |-> n, text |-> n]
MCSelections == {File(n) : n \in MCNames}
MCTwoSelections == {File(n) : n \in MCTwoNames}
MCNestedSelections == {File(n) : n \in MCNestedNames}

\* The library l is there, or is not: it may be deleted, renamed and created.
MCLibrary == [n \in MCNames |-> n]
MCLibraries == {MCLibrary, [n \in MCNames \ {l} |-> n]}
MCOneLibrary == {MCLibrary}
MCTwoLibrary == {[n \in MCTwoNames |-> n]}
MCNestedLibraries == {[n \in MCNestedNames |-> n]}

\* The import is the first statement of t.
MCImports == [n \in MCNames |-> IF n = t THEN {l} ELSE {}]
MCTwoImports == [n \in MCTwoNames |-> IF n = t THEN {l} ELSE {}]
MCNestedImports ==
  [n \in MCNestedNames |-> CASE n = t -> {l} [] n = l -> {m} [] n = m -> {}]

\* A pragma comes first: the pattern matches nothing.
MCNoLeading == [n \in MCNames |-> {}]
MCTwoNoLeading == [n \in MCTwoNames |-> {}]
MCNestedNoLeading == [n \in MCNestedNames |-> {}]
=============================================================================

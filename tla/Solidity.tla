------------------------------- MODULE Solidity -------------------------------
(* Solidity texts, reduced to what the compilation of the editor depends on:   *)
(* which files a text imports, and which of them the two ways of finding       *)
(* imports reach.  A `sources` object, and the saved files by name, are partial *)
(* functions from names to texts.                                              *)
CONSTANTS
  Names,      \* file names
  Texts,      \* texts of files
  Imports,    \* text -> the files its import statements name
  Leading,    \* text -> the one gatherImports' pattern matches: an import at the
              \* very start of the text, there being no m flag; none or one
  Faulty,     \* texts with an error of their own
  OmitsContracts  \* whether solc's output for sources that do not compile leaves
                  \* `contracts` out, as newer versions do, or has it empty

ASSUME SolidityAssumption ==
  /\ Faulty \subseteq Texts
  /\ Imports \in [Texts -> SUBSET Names]
  /\ Leading \in [Texts -> SUBSET Names]
  /\ OmitsContracts \in BOOLEAN

\* A file with its name and text.
Docs == [name : Names, text : Texts]

Sources == UNION {[D -> Texts] : D \in SUBSET Names}

\* The `sources` object of one file.
Only(d) == [n \in {d.name} |-> d.text]

ImportedBy(sources) == UNION {Imports[sources[n]] : n \in DOMAIN sources}

LedBy(sources) == UNION {Leading[sources[n]] : n \in DOMAIN sources}

\* The files solc asks its import callback for, which always answers
\* 'Deferred import'.
MissingInputs(sources) == ImportedBy(sources) \ DOMAIN sources

\* solc reports no error; only then are there contracts in its output.
Compiles(sources) ==
  /\ MissingInputs(sources) = {}
  /\ \A n \in DOMAIN sources : sources[n] \notin Faulty

\* sources, and the saved texts of the files `found`
With(sources, found, library) ==
  [n \in DOMAIN sources \cup found |->
     IF n \in DOMAIN sources THEN sources[n] ELSE library[n]]

\* gatherImports: the sources and those of their imports that FileService has.
GatherImports(sources, missing, library) ==
  With(sources, (missing \cup LedBy(sources)) \cap DOMAIN library, library)
=============================================================================

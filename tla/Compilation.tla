----------------------------- MODULE Compilation -----------------------------
(* What the editor promises of compilations asked for one after the other:     *)
(* the text asked about is compiled together with the files it imports that    *)
(* there are, as they are saved when they are looked up; the progress bar      *)
(* shows meanwhile; then the result is there.                                  *)
EXTENDS Solidity

VARIABLES
  library,  \* the saved files
  jobs,     \* what is being compiled, if anything
  busy,     \* whether the progress bar shows
  result    \* the sources of the latest result

vars == <<library, jobs, busy, result>>

Init ==
  /\ library \in Sources
  /\ jobs = {}
  /\ busy = FALSE
  /\ result = <<>>

Ask(d) ==
  /\ jobs = {}
  /\ jobs' = {[sources |-> Only(d), complete |-> FALSE]}
  /\ busy' = TRUE
  /\ library' \in Sources
  /\ UNCHANGED result

\* A compiler in the page itself is done at once.
CompileAtOnce(d) ==
  /\ jobs = {}
  /\ ~busy
  /\ library' \in Sources
  /\ result' = GatherImports(Only(d), MissingInputs(Only(d)), library')
  /\ UNCHANGED <<jobs, busy>>

\* The imports are looked up.
Gather ==
  \E job \in jobs :
    /\ ~job.complete
    /\ jobs' = {[sources  |-> GatherImports(job.sources, MissingInputs(job.sources), library),
                 complete |-> TRUE]}
    /\ UNCHANGED <<library, busy, result>>

Finish ==
  \E job \in jobs :
    /\ job.complete
    /\ result' = job.sources
    /\ jobs' = {}
    /\ busy' = FALSE
    /\ UNCHANGED library

\* Files are created, saved, renamed or deleted.
FilesChange ==
  /\ library' \in Sources
  /\ UNCHANGED <<jobs, busy, result>>

Next ==
  \/ \E d \in Docs : Ask(d) \/ CompileAtOnce(d)
  \/ Gather
  \/ Finish
  \/ FilesChange

Spec == Init /\ [][Next]_vars /\ WF_vars(Gather) /\ WF_vars(Finish)
=============================================================================

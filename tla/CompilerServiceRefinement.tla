---------------------- MODULE CompilerServiceRefinement ----------------------
(* CompilerService, asked for one compilation at a time, keeps the promise of  *)
(* Compilation.                                                                *)
EXTENDS CompilerService

\* A call in its first round has its imports still to be looked up.
Jobs == {[sources |-> c.sources, complete |-> ~c.retry] : c \in calls}

InTurn == INSTANCE Compilation WITH
  jobs   <- Jobs,
  busy   <- tabCompiling,
  result <- latest.errors

\* When nobody asks while a compilation is under way, and every version loads,
\* then behind the queue of the worker, the answers without addresses, the second
\* round and the compiler in the page there is a service that compiles what it is
\* asked for, with the imports that are there, and gets done.
CompilesInTurn == InTurn!Spec
=============================================================================

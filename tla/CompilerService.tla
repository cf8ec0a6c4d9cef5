--------------------------- MODULE CompilerService ---------------------------
(* Compilation: CompilerService, its worker script, and the two sidebar tabs   *)
(* that follow it, CompileTab (which asks for compilations) and RunTab (which  *)
(* shows whether one is under way).                                            *)
(*                                                                             *)
(* A compile() call posts a CompileRequest to the current worker and           *)
(* subscribes to onWebWorkerFinished.  Workers handle messages in order and    *)
(* answer each request.  Nothing ties an answer to a request: an answer        *)
(* resolves every subscribed call.  Since missingInputs is an array, always    *)
(* truthy, every call compiles once more with what gatherImports found, and    *)
(* the answer its retry receives is the result.                                *)
(*                                                                             *)
(* Without web workers solc runs in the page, where a compilation and its      *)
(* retry are over before any other event.                                      *)
(*                                                                             *)
(* An answer and the promise callbacks it sets off run before any other event, *)
(* so they are one action.  Requests and calls carry consecutive numbers in    *)
(* the order the page makes them, a device of the model that gives the order   *)
(* of the worker's queue and of the subscriptions.                             *)
EXTENDS Solidity, Naturals, Sequences, FiniteSets

CONSTANTS
  None,          \* no file is selected
  Selections,    \* the files, as the editor shows them, that may be selected
  Libraries,     \* the saved files there may be
  Modes,         \* how a session may begin, see `mode`
  LoadsMayFail,  \* whether loading a compiler version may fail
  Overlap,       \* FALSE: nobody asks for a compilation while one is under way
  MaxRequests,   \* bound: the user asks only while request numbers are below it
  MaxLoads       \* bound: number of compiler versions loaded

ASSUME CompilerAssumption ==
  /\ None \notin Docs
  /\ Selections \subseteq Docs
  /\ Libraries \subseteq Sources
  /\ Modes \subseteq {"worker", "page", "fallback"}
  /\ LoadsMayFail \in BOOLEAN
  /\ Overlap \in BOOLEAN
  /\ MaxRequests \in Nat
  /\ MaxLoads \in Nat

VARIABLES
  doc,            \* FileService.selectedFile, with the text in the editor
  library,        \* FileService's files, as saved
  mode,           \* "worker": the setting useWebWorker is on and there is Worker;
                  \* "page": it was off when the session began;
                  \* "fallback": it was on, and there is no Worker
  versions,       \* the compilers loaded so far: in "worker" mode Workers, the
                  \* last being this.webWorker, else what syncCompiler was made of
  tabLoading,     \* CompileTab._loadingCompiler
  subscribed,     \* CompileTab._subsInitialized
  timers,         \* CompileTab's 100 ms timeouts that have not fired
  requests,       \* CompileRequests without an answer
  calls,          \* compile() calls waiting for onWebWorkerFinished
  nextId,         \* the number of the next request
  latest,         \* _latestCompilationResult: which sources its errors and its
                  \* contracts are of
  tabCompiling,   \* CompileTab._compiling
  runCompiling    \* RunTab._compiling

files == <<doc, library>>
loading == <<mode, versions, tabLoading, subscribed, timers>>
asked == <<requests, calls, nextId>>
compiling == <<asked, tabCompiling, runCompiling, latest>>
vars == <<files, loading, compiling>>

Version == {"loading", "ready", "dead"}
Call == [id : Nat, sources : Sources, retry : BOOLEAN]
Request == [id : Nat, version : Nat, sources : Sources]

\* Nothing is being compiled.
Settled == calls = {} /\ requests = {}

-----------------------------------------------------------------------------
(* Results.                                                                    *)

\* Mutant: without the early return, there being no contracts is assigned.
Parsed_Undefined(sources) ==
  IF Compiles(sources) THEN [errors |-> sources, contracts |-> sources]
  ELSE [errors |-> sources]

\* parseCompilationResult: output without `contracts` leaves the ones there were.
Parsed(sources) ==
  [errors    |-> sources,
   contracts |-> IF Compiles(sources) THEN sources
                 ELSE IF OmitsContracts THEN latest.contracts ELSE <<>>]

-----------------------------------------------------------------------------
(* compile()                                                                   *)

\* Mutant: the retry is subscribed but its request is not posted.
RequestsOf_FirstOnly(cs) ==
  {[id |-> c.id, version |-> Len(versions), sources |-> c.sources] : c \in {d \in cs : d.retry}}

\* The CompileRequests that the calls cs post to the current worker.
RequestsOf(cs) ==
  {[id |-> c.id, version |-> Len(versions), sources |-> c.sources] : c \in cs}

\* Mutant: the tab is subscribed twice, so that each request makes two calls.
CompileWebWorker_Twice(d) ==
  LET twice == {[id |-> n, sources |-> Only(d), retry |-> TRUE] : n \in {nextId, nextId + 1}}
  IN /\ requests' = requests \cup RequestsOf(twice)
     /\ calls' = calls \cup twice
     /\ nextId' = nextId + 2
     /\ tabCompiling' = TRUE
     /\ runCompiling' = TRUE
     /\ UNCHANGED latest

CompileWebWorker(d) ==
  LET call == [id |-> nextId, sources |-> Only(d), retry |-> TRUE]
  IN /\ requests' = requests \cup RequestsOf({call})
     /\ calls' = calls \cup {call}
     /\ nextId' = nextId + 1
     /\ tabCompiling' = TRUE
     /\ runCompiling' = TRUE
     /\ UNCHANGED latest

\* In the page: both rounds, what was found missing being handed from the one to
\* the other, or, without a compiler, a rejection that nobody handles.
CompileSync(d) ==
  /\ IF \E k \in 1 .. Len(versions) : versions'[k] = "ready"
     THEN /\ latest' = Parsed(GatherImports(Only(d), MissingInputs(Only(d)), library'))
          /\ tabCompiling' = FALSE
          /\ runCompiling' = FALSE
     ELSE /\ tabCompiling' = TRUE
          /\ runCompiling' = TRUE
          /\ UNCHANGED latest
  /\ UNCHANGED asked

\* Mutant: the flag is set before the early return for no selected file.
Compile_FlagFirst(d) ==
  \/ d = None /\ tabCompiling' = TRUE /\ UNCHANGED <<asked, runCompiling, latest>>
  \/ d # None /\ mode = "worker" /\ CompileWebWorker(d)
  \/ d # None /\ mode # "worker" /\ CompileSync(d)

\* CompileTab.compile() with d selected, or with nothing selected.
Compile(d) ==
  \/ d = None /\ UNCHANGED compiling
  \/ d # None /\ mode = "worker" /\ CompileWebWorker(d)
  \/ d # None /\ mode # "worker" /\ CompileSync(d)

-----------------------------------------------------------------------------
(* A worker's answer.                                                          *)

Finals == {c \in calls : ~c.retry}
Firsts == {c \in calls : c.retry}

Oldest(cs) == CHOOSE c \in cs : \A d \in cs : c.id <= d.id

\* The second round of first call c on the answer to request r: all calls share
\* the answer's missingInputs array, which the first call to run empties, be it
\* a retry that has no use for it.
Retry(c, r) ==
  LET missing == IF c = Oldest(calls) /\ versions[r.version] = "ready"
                 THEN MissingInputs(r.sources) ELSE {}
  IN [id      |-> nextId + (c.id - Oldest(Firsts).id),
      sources |-> GatherImports(c.sources, missing, library),
      retry   |-> FALSE]

\* Each worker answers in the order it was asked, once it has loaded or failed.
MayAnswer(r) ==
  /\ versions[r.version] # "loading"
  /\ \A q \in requests : q.version = r.version => r.id <= q.id

\* Mutant: onCompilationFinished is emitted after the retries have started.
Answer_FinishLast(r) ==
  /\ MayAnswer(r)
  /\ LET retries == {Retry(c, r) : c \in Firsts}
         parsed  == Finals # {} /\ versions[r.version] = "ready"
     IN /\ calls' = retries
        /\ requests' = (requests \ {r}) \cup RequestsOf(retries)
        /\ nextId' = nextId + Cardinality(Firsts)
        /\ latest' = IF parsed THEN Parsed(r.sources) ELSE latest
        /\ tabCompiling' = (tabCompiling /\ ~parsed)
        /\ runCompiling' = ((retries # {} \/ runCompiling) /\ ~parsed)
  /\ UNCHANGED <<files, loading>>

\* Mutant: the first answer already resolves the call.
Answer_ResolvesFirst(r) ==
  /\ MayAnswer(r)
  /\ LET retries == {Retry(c, r) : c \in Firsts}
     IN /\ calls' = retries
        /\ requests' = (requests \ {r}) \cup RequestsOf(retries)
        /\ nextId' = nextId + Cardinality(Firsts)
        /\ latest' = Parsed(r.sources)
        /\ tabCompiling' = FALSE
        /\ runCompiling' = (retries # {})
  /\ UNCHANGED <<files, loading>>

\* A request is answered and every waiting call resolves: retries finish (or,
\* when the worker has no compiler and answers '', their parse throws), then
\* first calls post their retries.
Answer(r) ==
  /\ MayAnswer(r)
  /\ LET retries == {Retry(c, r) : c \in Firsts}
         parsed  == Finals # {} /\ versions[r.version] = "ready"
     IN /\ calls' = retries
        /\ requests' = (requests \ {r}) \cup RequestsOf(retries)
        /\ nextId' = nextId + Cardinality(Firsts)
        /\ latest' = IF parsed THEN Parsed(r.sources) ELSE latest
        /\ tabCompiling' = (tabCompiling /\ ~parsed)
        /\ runCompiling' = (retries # {} \/ (runCompiling /\ ~parsed))
  /\ UNCHANGED <<files, loading>>

-----------------------------------------------------------------------------
(* Loading a compiler version.                                                 *)

\* CompileTab.ngOnInit has started to load the bundled version.
Init ==
  /\ doc \in Selections \cup {None}
  /\ library \in Libraries
  /\ mode \in Modes
  /\ versions = <<"loading">>
  /\ tabLoading = TRUE
  /\ subscribed = FALSE
  /\ timers = 0
  /\ requests = {}
  /\ calls = {}
  /\ nextId = 1
  /\ latest = [errors |-> <<>>, contracts |-> <<>>]
  /\ tabCompiling = FALSE
  /\ runCompiling = TRUE

\* The user picks a version, in controls hidden while one is loading: a new
\* Worker, the old one being left to finish, and still heard; or a new script.
LoadCompiler ==
  /\ ~tabLoading
  /\ Len(versions) < MaxLoads
  /\ Overlap \/ (Settled /\ timers = 0)
  /\ versions' = Append(versions, "loading")
  /\ tabLoading' = TRUE
  /\ UNCHANGED <<files, mode, subscribed, timers, compiling>>

\* loadCompiler resolves: VersionLoaded has arrived, or the script is there, or
\* useWebWorker was turned off for want of Worker and nothing was loaded.
\* Compile now, and again in 100 ms, "a hack that forces the first compilation
\* to work".
VersionLoaded ==
  LET last == Len(versions)
  IN /\ versions[last] = "loading"
     /\ versions' = [versions EXCEPT ![last] =
                       IF mode = "fallback" /\ last = 1 THEN "dead" ELSE "ready"]
     /\ tabLoading' = FALSE
     /\ subscribed' = TRUE
     /\ timers' = timers + 1
     /\ UNCHANGED <<files, mode>>
     /\ Compile(doc)

\* The version cannot be fetched, or throws: loadCompiler never resolves.
LoadFails ==
  /\ LoadsMayFail
  /\ versions[Len(versions)] = "loading"
  /\ versions' = [versions EXCEPT ![Len(versions)] = "dead"]
  /\ UNCHANGED <<files, mode, tabLoading, subscribed, timers, compiling>>

TimerFires ==
  /\ timers > 0
  /\ Overlap \/ Settled
  /\ timers' = timers - 1
  /\ UNCHANGED <<files, mode, versions, tabLoading, subscribed>>
  /\ Compile(doc)

-----------------------------------------------------------------------------
(* The user.                                                                   *)

MayAsk ==
  /\ subscribed
  /\ nextId <= MaxRequests
  /\ Overlap \/ (Settled /\ ~tabLoading)

\* A tab or a sidebar file is clicked: the file is selected and its compilation
\* requested, which nobody hears before the first version is loaded.
SelectFile(d) ==
  /\ doc' = d
  /\ UNCHANGED <<library, loading>>
  /\ IF subscribed THEN MayAsk /\ Compile(d) ELSE UNCHANGED compiling

\* The selected file is saved; its text had changed, so it is compiled.
SaveFile ==
  /\ doc # None
  /\ MayAsk
  /\ library' \in Libraries
  /\ UNCHANGED <<doc, loading>>
  /\ Compile(doc)

\* Whatever else happens to files, without a compilation: typing, creating,
\* closing, deleting and renaming, going to an error.
FilesChange ==
  /\ doc' \in Selections \cup {None}
  /\ library' \in Libraries
  /\ UNCHANGED <<loading, compiling>>

\* The compile button, in controls hidden while a version is loading.
AskCompile ==
  /\ doc # None
  /\ ~tabLoading
  /\ MayAsk
  /\ UNCHANGED <<files, loading>>
  /\ Compile(doc)

AnswerArrives == \E r \in requests : Answer(r)

Next ==
  \/ AnswerArrives
  \/ LoadCompiler
  \/ VersionLoaded
  \/ LoadFails
  \/ TimerFires
  \/ \E d \in Selections : SelectFile(d)
  \/ SaveFile
  \/ FilesChange
  \/ AskCompile

Spec == Init /\ [][Next]_vars

\* Workers work and the event loop delivers; nobody has to click.
Fairness == WF_vars(AnswerArrives) /\ WF_vars(VersionLoaded) /\ WF_vars(TimerFires)

FairSpec == Spec /\ Fairness

-----------------------------------------------------------------------------
TypeOK ==
  /\ doc \in Selections \cup {None}
  /\ library \in Libraries
  /\ mode \in Modes
  /\ versions \in Seq(Version)
  /\ tabLoading \in BOOLEAN
  /\ subscribed \in BOOLEAN
  /\ timers \in Nat
  /\ requests \subseteq Request
  /\ calls \subseteq Call
  /\ nextId \in Nat
  /\ latest \in [errors : Sources, contracts : Sources]
  /\ tabCompiling \in BOOLEAN
  /\ runCompiling \in BOOLEAN

\* No version failed to load, the first one of a fallback included.
AllLoad == \A k \in 1 .. Len(versions) : versions[k] # "dead"

\* No call waits in vain: although answers resolve calls they were not meant
\* for, the request of every call that still waits has yet to be answered.
WaitingIsOutstanding ==
  \A c \in calls : \E r \in requests : r.id = c.id /\ r.sources = c.sources

\* RunTab's progress bar, set by onCompilationStarted and cleared by
\* onCompilationFinished without counting, is right all the same: once something
\* was asked of a worker, it shows exactly while a call waits, as long as no
\* version has failed to load.
RunTabTracksCalls ==
  AllLoad /\ nextId > 1 => (runCompiling <=> calls # {})

\* The result a call receives is of the files the call was given, and was
\* computed by the version that was current when it asked.
AnsweredForItsFiles ==
  [][\A c \in calls \ calls' : \A r \in requests \ requests' :
       r.id = c.id /\ r.sources = c.sources]_vars

\* A result is of sources from which nothing is missing that FileService has.
ImportsGathered == MissingInputs(latest.errors) \cap DOMAIN library = {}

\* Every call is answered: when nobody asks any more, nothing waits.
CallsComplete == []<>Settled

\* CompileTab's progress bar does not stay for ever, unless a version has failed
\* to load.
CompilingEnds == tabCompiling ~> ~tabCompiling \/ ~AllLoad
=============================================================================

------------------------------ MODULE IdeProofs ------------------------------
(* A session's files and its compilations together, for any number of files,   *)
(* names and texts, and any number of compilations: what is proved of          *)
(* FileService and of CompilerService holds of both, as each step of Ide is    *)
(* one of each, or changes nothing of it.                                      *)
EXTENDS Ide, FileServiceRefinementProofs, Sequences

CompilerProofs == INSTANCE CompilerServiceProofs WITH
  Texts        <- Contents,
  None         <- NoFile,
  Selections   <- Documents,
  Libraries    <- PartialFunctions(Names, Contents),
  Modes        <- {"worker", "page"},
  LoadsMayFail <- FALSE,
  MaxLoads     <- 1,
  doc          <- Doc

-----------------------------------------------------------------------------
(* The steps of FileService.                                                   *)

LEMMA PageIsOpen == Page \in Windows
BY IdeAssumption DEF Page

LEMMA SessionStep ==
  ASSUME [IdeNext]_ideVars
  PROVE  [Next]_vars
<1>1. Page \in Windows /\ "none" \in Outcomes
  BY PageIsOpen DEF Outcomes
<1>2. CASE FilesHandled
  BY <1>1, <1>2 DEF FilesHandled, Next
<1>3. CASE FileClicked
  BY <1>1, <1>3 DEF FileClicked, Next
<1>4. CASE FileSaved
  BY <1>1, <1>4 DEF FileSaved, Next
<1>5. CASE CompilationAsked \/ CompilationAnswered
  BY <1>5 DEF CompilationAsked, CompilationAnswered
<1>6. CASE UNCHANGED ideVars
  BY <1>6 DEF ideVars
<1> QED BY <1>2, <1>3, <1>4, <1>5, <1>6 DEF IdeNext

\* For any number of files, names and texts, a session is a window of
\* FileService: all that is proved of FileService holds of it.
THEOREM SessionKeepsFiles == IdeSpec => Spec
<1>1. IdeInit => Init
  BY DEF IdeInit
<1>2. [IdeNext]_ideVars => [Next]_vars
  BY SessionStep
<1> QED BY <1>1, <1>2, PTL DEF IdeSpec, Spec

-----------------------------------------------------------------------------
(* The steps of CompilerService.                                               *)

\* The files that may be compiled, and the saved ones, are what CompilerService
\* takes them for.
LEMMA SameTypes ==
  /\ PartialFunctions(Names, Contents) = CompilerProofs!Sources
  /\ Documents = CompilerProofs!Docs
BY DEF PartialFunctions, CompilerProofs!Sources, CompilerProofs!Docs, Documents

LEMMA CompilerAssumptions ==
  /\ NoFile \notin CompilerProofs!Docs
  /\ Documents \subseteq CompilerProofs!Docs
  /\ PartialFunctions(Names, Contents) \subseteq CompilerProofs!Sources
  /\ {"worker", "page"} \subseteq {"worker", "page", "fallback"}
  /\ FALSE \in BOOLEAN
  /\ Overlap \in BOOLEAN
  /\ MaxRequests \in Nat
  /\ 1 \in Nat
BY IdeAssumption, SameTypes

LEMMA SameOperators ==
  /\ \A d : Compiler!Only(d) = CompilerProofs!Only(d)
  /\ \A S : Compiler!MissingInputs(S) = CompilerProofs!MissingInputs(S)
  /\ \A S, m, g : Compiler!GatherImports(S, m, g) = CompilerProofs!GatherImports(S, m, g)
  /\ \A S : Compiler!Compiles(S) <=> CompilerProofs!Compiles(S)
  /\ \A S : Compiler!Parsed(S) = CompilerProofs!Parsed(S)
  /\ \A cs : Compiler!RequestsOf(cs) = CompilerProofs!RequestsOf(cs)
BY DEF Compiler!Only, CompilerProofs!Only,
       Compiler!MissingInputs, CompilerProofs!MissingInputs,
       Compiler!ImportedBy, CompilerProofs!ImportedBy,
       Compiler!GatherImports, CompilerProofs!GatherImports,
       Compiler!With, CompilerProofs!With, Compiler!LedBy, CompilerProofs!LedBy,
       Compiler!Compiles, CompilerProofs!Compiles,
       Compiler!Parsed, CompilerProofs!Parsed,
       Compiler!RequestsOf, CompilerProofs!RequestsOf

LEMMA SameCompile ==
  \A d : Compiler!Compile(d) <=> CompilerProofs!Compile(d)
BY SameOperators
   DEF Compiler!Compile, CompilerProofs!Compile,
       Compiler!compiling, CompilerProofs!compiling, Compiler!asked, CompilerProofs!asked,
       Compiler!CompileWebWorker, CompilerProofs!CompileWebWorker,
       Compiler!CompileSync, CompilerProofs!CompileSync

LEMMA SameAnswer ==
  \A r : Compiler!Answer(r) <=> CompilerProofs!Answer(r)
<1>1. /\ Compiler!Firsts = CompilerProofs!Firsts
      /\ Compiler!Finals = CompilerProofs!Finals
      /\ \A cs : Compiler!Oldest(cs) = CompilerProofs!Oldest(cs)
  BY DEF Compiler!Firsts, CompilerProofs!Firsts, Compiler!Finals, CompilerProofs!Finals,
         Compiler!Oldest, CompilerProofs!Oldest
<1>2. \A c, r : Compiler!Retry(c, r) = CompilerProofs!Retry(c, r)
  BY <1>1, SameOperators DEF Compiler!Retry, CompilerProofs!Retry
<1>3. \A r : Compiler!MayAnswer(r) <=> CompilerProofs!MayAnswer(r)
  BY DEF Compiler!MayAnswer, CompilerProofs!MayAnswer
<1>4. \A S : Compiler!Cardinality(S) = CompilerProofs!Cardinality(S)
  BY DEF Compiler!Cardinality, CompilerProofs!Cardinality
<1> SUFFICES ASSUME NEW r PROVE Compiler!Answer(r) <=> CompilerProofs!Answer(r)
  OBVIOUS
<1> DEFINE retries == {CompilerProofs!Retry(c, r) : c \in CompilerProofs!Firsts}
<1>5. {Compiler!Retry(c, r) : c \in Compiler!Firsts} = retries
  BY <1>1, <1>2
<1>6. /\ Compiler!RequestsOf(retries) = CompilerProofs!RequestsOf(retries)
      /\ Compiler!Parsed(r.sources) = CompilerProofs!Parsed(r.sources)
  BY SameOperators
<1> QED
  BY <1>1, <1>3, <1>4, <1>5, <1>6
  DEF Compiler!Answer, CompilerProofs!Answer, Compiler!files, CompilerProofs!files,
      Compiler!loading, CompilerProofs!loading

LEMMA SameActions ==
  /\ Compiler!Init <=> CompilerProofs!Init
  /\ Compiler!Settled <=> CompilerProofs!Settled
  /\ Compiler!MayAsk <=> CompilerProofs!MayAsk
  /\ Compiler!AnswerArrives <=> CompilerProofs!AnswerArrives
  /\ Compiler!VersionLoaded <=> CompilerProofs!VersionLoaded
  /\ Compiler!TimerFires <=> CompilerProofs!TimerFires
  /\ \A d : Compiler!SelectFile(d) <=> CompilerProofs!SelectFile(d)
  /\ Compiler!SaveFile <=> CompilerProofs!SaveFile
  /\ Compiler!FilesChange <=> CompilerProofs!FilesChange
  /\ Compiler!AskCompile <=> CompilerProofs!AskCompile
<1> USE DEF Compiler!files, CompilerProofs!files, Compiler!loading, CompilerProofs!loading,
            Compiler!compiling, CompilerProofs!compiling, Compiler!asked, CompilerProofs!asked,
            Compiler!Settled, CompilerProofs!Settled, Compiler!MayAsk, CompilerProofs!MayAsk
<1>1. Compiler!Init <=> CompilerProofs!Init
  BY DEF Compiler!Init, CompilerProofs!Init
<1>2. Compiler!AnswerArrives <=> CompilerProofs!AnswerArrives
  BY SameAnswer DEF Compiler!AnswerArrives, CompilerProofs!AnswerArrives
<1>3. Compiler!VersionLoaded <=> CompilerProofs!VersionLoaded
  BY SameCompile DEF Compiler!VersionLoaded, CompilerProofs!VersionLoaded
<1>4. Compiler!TimerFires <=> CompilerProofs!TimerFires
  BY SameCompile DEF Compiler!TimerFires, CompilerProofs!TimerFires
<1>5. \A d : Compiler!SelectFile(d) <=> CompilerProofs!SelectFile(d)
  BY SameCompile DEF Compiler!SelectFile, CompilerProofs!SelectFile
<1>6. Compiler!SaveFile <=> CompilerProofs!SaveFile
  BY SameCompile DEF Compiler!SaveFile, CompilerProofs!SaveFile
<1>7. Compiler!FilesChange <=> CompilerProofs!FilesChange
  BY DEF Compiler!FilesChange, CompilerProofs!FilesChange
<1>8. Compiler!AskCompile <=> CompilerProofs!AskCompile
  BY SameCompile DEF Compiler!AskCompile, CompilerProofs!AskCompile
<1> QED BY <1>1, <1>2, <1>3, <1>4, <1>5, <1>6, <1>7, <1>8

\* Files that are handled change nothing of the compilations; whatever else
\* happens is a step of CompilerService.
LEMMA CompilationStep ==
  ASSUME [IdeNext]_ideVars
  PROVE  [CompilerProofs!Next]_(CompilerProofs!vars)
<1>1. CASE FilesHandled
  BY <1>1, SameActions DEF FilesHandled, CompilerProofs!Next
<1>2. CASE FileClicked
  BY <1>2, SameActions DEF FileClicked, CompilerProofs!Next
<1>3. CASE FileSaved
  BY <1>3, SameActions DEF FileSaved, CompilerProofs!Next
<1>4. CASE CompilationAsked \/ CompilationAnswered
  BY <1>4, SameActions DEF CompilationAsked, CompilationAnswered, CompilerProofs!Next
<1>5. CASE UNCHANGED ideVars
  <2>1. UNCHANGED <<files, selected, editor, library, compilerVars>>
    BY <1>5 DEF ideVars, vars, memory
  <2>2. Doc' = Doc
    BY <2>1 DEF Doc
  <2> QED
    BY <2>1, <2>2
    DEF compilerVars, CompilerProofs!vars, CompilerProofs!files, CompilerProofs!loading,
        CompilerProofs!compiling, CompilerProofs!asked
<1> QED BY <1>1, <1>2, <1>3, <1>4, <1>5 DEF IdeNext

\* For any number of files, names and texts, a session's compilations are those
\* of CompilerService, asked for by whatever happens to the files: all that is
\* proved of CompilerService holds of it.
THEOREM SessionKeepsCompilations == IdeSpec => CompilerProofs!Spec
<1>1. IdeInit => CompilerProofs!Init
  BY SameActions DEF IdeInit
<1>2. [IdeNext]_ideVars => [CompilerProofs!Next]_(CompilerProofs!vars)
  BY CompilationStep
<1> QED BY <1>1, <1>2, PTL DEF IdeSpec, CompilerProofs!Spec

-----------------------------------------------------------------------------
(* What is shown is of what was asked about last.                              *)

\* The file last asked about, with the text it had in the editor, is in what is
\* being compiled, and in what the last result is of.
AskedInv ==
  /\ CompilerProofs!TypeInv
  /\ CompilerProofs!TurnInv
  /\ \A c \in calls : CompilerProofs!Holds(lastAsked, c.sources)
  /\ CompilerProofs!Settled /\ lastAsked # NoFile => CompilerProofs!Holds(lastAsked, latest.errors)

LEMMA InTurnCompilers ==
  ASSUME ~Overlap
  PROVE  CompilerProofs!Serially
BY DEF CompilerProofs!Serially

LEMMA AskedInit == ~Overlap /\ IdeInit => AskedInv
<1> SUFFICES ASSUME ~Overlap, IdeInit PROVE AskedInv
  OBVIOUS
<1>1. CompilerProofs!Init /\ lastAsked = NoFile
  BY SameActions DEF IdeInit
<1>2. CompilerProofs!TypeInv
  BY <1>1, CompilerProofs!TypeInit, IdeAssumption, CompilerAssumptions
<1>3. CompilerProofs!TurnInv
  BY <1>1, InTurnCompilers, CompilerProofs!TurnStart, IdeAssumption, CompilerAssumptions
<1>4. calls = {}
  BY <1>1 DEF CompilerProofs!Init
<1> QED BY <1>1, <1>2, <1>3, <1>4 DEF AskedInv

LEMMA AskedStep ==
  ASSUME ~Overlap, AskedInv, [IdeNext]_ideVars
  PROVE  AskedInv'
<1> USE CompilerAssumptions
<1>1. [CompilerProofs!Next]_(CompilerProofs!vars) /\ CompilerProofs!Serially
  BY CompilationStep, InTurnCompilers
<1>2. CompilerProofs!TypeInv'
  BY <1>1, CompilerProofs!TypeStep, IdeAssumption DEF AskedInv
<1>3. CompilerProofs!TurnInv'
  BY <1>1, CompilerProofs!TurnStep, IdeAssumption DEF AskedInv
<1>4. ASSUME UNCHANGED <<calls, requests, latest, lastAsked>> PROVE AskedInv'
  BY <1>2, <1>3, <1>4 DEF AskedInv, CompilerProofs!Settled
<1>5. library' \in CompilerProofs!Sources
  BY <1>3, SameTypes DEF CompilerProofs!TurnInv
<1>6. ASSUME NEW d \in Documents, CompilerProofs!Compile(d), lastAsked' = d, NEW e,
             \/ subscribed /\ CompilerProofs!SelectFile(e)
             \/ CompilerProofs!SaveFile \/ CompilerProofs!AskCompile
             \/ CompilerProofs!TimerFires \/ CompilerProofs!VersionLoaded
      PROVE  AskedInv'
  <2>1. /\ CompilerProofs!Settled
        /\ \E k \in 1 .. Len(versions) : versions'[k] = "ready"
    BY <1>1, <1>6, CompilerProofs!AskedWhenReady, IdeAssumption DEF AskedInv
  <2>2. d \in CompilerProofs!Docs
    BY <1>6
  <2>3. /\ \A c \in calls' : CompilerProofs!Holds(d, c.sources)
        /\ CompilerProofs!Settled' => CompilerProofs!Holds(d, latest'.errors)
    BY <1>5, <1>6, <2>1, <2>2, CompilerProofs!CompileHolds, IdeAssumption
  <2> QED BY <1>2, <1>3, <1>6, <2>3 DEF AskedInv
<1>7. Doc' \in Documents \cup {NoFile} /\ Doc \in Documents \cup {NoFile}
  BY <1>3 DEF AskedInv, CompilerProofs!TurnInv
<1>8. ASSUME UNCHANGED <<lastAsked, CompilerProofs!compiling>> PROVE AskedInv'
  BY <1>4, <1>8 DEF CompilerProofs!compiling, CompilerProofs!asked
<1>9. CASE FilesHandled
  BY <1>8, <1>9, SameActions DEF FilesHandled, CompilerProofs!FilesChange
<1>10. CASE FileClicked
  <2>1. PICK d \in Documents : CompilerProofs!SelectFile(d)
    BY <1>10, SameActions DEF FileClicked
  <2>2. Doc' = d /\ lastAsked' = IF subscribed THEN d ELSE lastAsked
    BY <1>10, <2>1 DEF FileClicked, CompilerProofs!SelectFile
  <2>3. CASE ~subscribed
    BY <1>8, <2>1, <2>2, <2>3 DEF CompilerProofs!SelectFile
  <2>4. CASE subscribed
    <3>1. CompilerProofs!Compile(d)
      BY <2>1, <2>4 DEF CompilerProofs!SelectFile
    <3> QED BY <1>6, <2>1, <2>2, <2>4, <3>1
  <2> QED BY <2>3, <2>4
<1>11. CASE FileSaved
  <2>1. CASE CompilerProofs!FilesChange /\ UNCHANGED lastAsked
    BY <1>8, <2>1 DEF CompilerProofs!FilesChange
  <2>2. CASE CompilerProofs!SaveFile /\ lastAsked' = Doc'
    <3>1. Doc # NoFile /\ Doc' = Doc /\ CompilerProofs!Compile(Doc)
      BY <2>2 DEF CompilerProofs!SaveFile
    <3> QED BY <1>6, <1>7, <2>2, <3>1
  <2> QED BY <1>11, <2>1, <2>2, SameActions DEF FileSaved
<1>12. CASE CompilationAsked
  <2>1. /\ \/ CompilerProofs!AskCompile
           \/ CompilerProofs!TimerFires
           \/ CompilerProofs!VersionLoaded
        /\ lastAsked' = IF Doc = NoFile THEN lastAsked ELSE Doc
    BY <1>12, SameActions DEF CompilationAsked
  <2>2. CompilerProofs!Compile(Doc)
    BY <2>1 DEF CompilerProofs!AskCompile, CompilerProofs!TimerFires, CompilerProofs!VersionLoaded
  <2>3. CASE Doc = NoFile
    <3>1. UNCHANGED CompilerProofs!compiling
      BY <2>2, <2>3 DEF CompilerProofs!Compile
    <3> QED BY <1>8, <2>1, <2>3, <3>1
  <2>4. CASE Doc # NoFile
    BY <1>6, <1>7, <2>1, <2>2, <2>4
  <2> QED BY <2>3, <2>4
<1>13. CASE CompilationAnswered
  <2>1. PICK r \in requests : CompilerProofs!Answer(r)
    BY <1>13, SameActions DEF CompilationAnswered, CompilerProofs!AnswerArrives
  <2>2. lastAsked' = lastAsked
    BY <1>13 DEF CompilationAnswered
  <2>3. /\ \A c \in calls' : CompilerProofs!Holds(lastAsked, c.sources)
        /\ CompilerProofs!Settled' => CompilerProofs!Holds(lastAsked, latest'.errors)
    BY <2>1, CompilerProofs!AnswerHolds, IdeAssumption DEF AskedInv
  <2> QED BY <1>2, <1>3, <2>2, <2>3 DEF AskedInv
<1>14. CASE UNCHANGED ideVars
  BY <1>4, <1>14 DEF ideVars, compilerVars
<1> QED BY <1>9, <1>10, <1>11, <1>12, <1>13, <1>14 DEF IdeNext

\* For any files, texts and imports: when nobody asks while a compilation is
\* under way, and none is, the result on show is of the file that was last asked
\* about, and of the text it had in the editor then, saved or not.
THEOREM LastAskedIsAlwaysShown == ~Overlap => (IdeSpec => []LastAskedIsShown)
<1> SUFFICES ASSUME ~Overlap PROVE IdeSpec => []LastAskedIsShown
  OBVIOUS
<1>1. IdeInit => AskedInv
  BY AskedInit
<1>2. AskedInv /\ [IdeNext]_ideVars => AskedInv'
  BY AskedStep
<1>3. AskedInv => LastAskedIsShown
  BY SameActions DEF AskedInv, LastAskedIsShown, CompilerProofs!Holds
<1> QED BY <1>1, <1>2, <1>3, PTL DEF IdeSpec

-----------------------------------------------------------------------------
(* What is being saved is compiled.                                            *)

\* Once the Compile tab listens there is a compiler, here or in the worker,
\* however compilations overlap.
Listens ==
  /\ mode \in {"worker", "page"}
  /\ subscribed => \E k \in 1 .. Len(versions) : versions[k] = "ready"

SavingInv == Inv /\ Life /\ CompilerProofs!TypeInv /\ Listens

LEMMA ListensStep ==
  ASSUME CompilerProofs!TypeInv, Listens, [IdeNext]_ideVars
  PROVE  Listens'
<1>1. CASE UNCHANGED <<mode, versions, subscribed>>
  BY <1>1 DEF Listens
<1>2. CASE FilesHandled \/ FileClicked \/ FileSaved \/ CompilationAnswered
  <2>1. UNCHANGED CompilerProofs!loading
    BY <1>2, SameActions
    DEF FilesHandled, FileClicked, FileSaved, CompilationAnswered,
        CompilerProofs!FilesChange, CompilerProofs!SelectFile, CompilerProofs!SaveFile,
        CompilerProofs!AnswerArrives, CompilerProofs!Answer
  <2> QED BY <1>1, <2>1 DEF CompilerProofs!loading
<1>3. CASE CompilationAsked
  <2>1. CASE CompilerProofs!AskCompile \/ CompilerProofs!TimerFires
    BY <1>1, <2>1
    DEF CompilerProofs!AskCompile, CompilerProofs!TimerFires, CompilerProofs!loading
  <2>2. CASE CompilerProofs!VersionLoaded
    <3> DEFINE last == Len(versions)
    <3>1. versions \in Seq(CompilerProofs!Version) /\ versions # <<>>
      BY DEF CompilerProofs!TypeInv, CompilerProofs!TypeOK
    <3>2. mode' = mode /\ versions' = [versions EXCEPT ![last] = "ready"]
      BY <2>2 DEF CompilerProofs!VersionLoaded, Listens
    <3>3. Len(versions') = last /\ last \in 1 .. last /\ versions'[last] = "ready"
      BY <3>1, <3>2
    <3>4. versions' # <<>>
      BY <3>3
    <3> QED BY <3>2, <3>3, <3>4 DEF Listens
  <2> QED BY <1>3, <2>1, <2>2, SameActions DEF CompilationAsked
<1> QED BY <1>1, <1>2, <1>3 DEF IdeNext, ideVars, compilerVars

\* Only Ctrl-S changes what is saved of a file.
LEMMA SavedByUser ==
  ASSUME SavingInv, [IdeNext]_ideVars,
         NEW f \in DOMAIN files[Page] \cap DOMAIN files'[Page],
         files'[Page][f].content # files[Page][f].content
  PROVE  FileSaved
<1>1. /\ Inv /\ Life /\ Page \in Windows
      /\ ~TextsOf(Page, files'[Page])
  BY PageIsOpen DEF SavingInv, TextsOf, SameTexts
<1>2. \A g \in Ids : \A name \in Names :
        ~( \/ SelectFile(Page, g, "none") \/ OpenFile(Page, g, "none")
           \/ GotoError(Page, g, "none") \/ CloseFile(Page, g, "none")
           \/ DeleteFile(Page, g, "none")
           \/ CreateFile(Page, g, name, "none") \/ RenameFile(Page, g, name, "none") )
  BY <1>1, Touching, TextsStay
<1>3. \A g \in Ids :
        ~( \/ SelectFile(Page, g, "none") \/ OpenFile(Page, g, "none")
           \/ GotoError(Page, g, "none") \/ CloseFile(Page, g, "none")
           \/ DeleteFile(Page, g, "none") )
  BY <1>1, Touching, TextsStay
<1>4. CASE FilesHandled
  <2>1. ~(StartUp(Page, "none") \/ CloseAll(Page) \/ CloseNext(Page, "none"))
    BY <1>1, TextsStay
  <2>2. \A text \in Contents : ~EditText(Page, text)
    BY <1>1, EditedTexts
  <2> QED BY <1>2, <1>3, <1>4, <2>1, <2>2 DEF FilesHandled
<1>5. CASE FileClicked
  BY <1>3, <1>5 DEF FileClicked
<1>6. CASE CompilationAsked \/ CompilationAnswered \/ UNCHANGED ideVars
  BY <1>6 DEF CompilationAsked, CompilationAnswered, ideVars, vars, memory
<1> QED BY <1>4, <1>5, <1>6 DEF IdeNext

LEMMA SavedStep ==
  ASSUME SavingInv, SavingInv', [IdeNext]_ideVars,
         NEW f \in DOMAIN files[Page] \cap DOMAIN files'[Page],
         NEW new, new = files'[Page][f],
         subscribed, new.content # files[Page][f].content
  PROVE  IF mode = "worker"
         THEN \E c \in calls' \ calls :
                c.sources = CompilerProofs!Only([name |-> new.name, text |-> new.content])
         ELSE latest'.errors[new.name] = new.content
<1>1. FileSaved /\ SaveFile(Page, "none") /\ Page \in Windows /\ Inv
  BY SavedByUser, PageIsOpen DEF FileSaved, SavingInv
<1>2. /\ f = selected[Page] /\ f # NoFile
      /\ new.name = files[Page][f].name
      /\ new.content = editor[Page]
  <2>1. \A g \in DOMAIN files[Page] :
          /\ files'[Page][g].name = files[Page][g].name
          /\ files'[Page][g].content = IF g = selected[Page] THEN editor[Page]
                                      ELSE files[Page][g].content
    BY <1>1, SavedTexts
  <2>2. selected[Page] # NoFile
    BY <1>1 DEF SaveFile
  <2> QED BY <2>1, <2>2
<1>3. Doc = [name |-> new.name, text |-> new.content]
  BY <1>2 DEF Doc
<1>4. CompilerProofs!SaveFile
  BY <1>1, <1>2, SameActions DEF FileSaved
<1>5. Doc # NoFile /\ CompilerProofs!Compile(Doc) /\ UNCHANGED CompilerProofs!loading
  BY <1>4 DEF CompilerProofs!SaveFile
<1>6. CASE mode = "worker"
  <2>1. CompilerProofs!CompileWebWorker(Doc)
    BY <1>5, <1>6 DEF CompilerProofs!Compile
  <2> QED
    BY <1>3, <1>6, <2>1, CompilerProofs!WorkerAsked, IdeAssumption, CompilerAssumptions
    DEF SavingInv
<1>7. CASE mode # "worker"
  <2>1. CompilerProofs!CompileSync(Doc)
    BY <1>5, <1>7 DEF CompilerProofs!Compile
  <2>2. \E k \in 1 .. Len(versions) : versions'[k] = "ready"
    BY <1>5 DEF SavingInv, Listens, CompilerProofs!loading
  <2>3. Doc \in CompilerProofs!Docs /\ library' \in CompilerProofs!Sources
    BY <1>5, SameTypes DEF SavingInv, CompilerProofs!TypeInv, CompilerProofs!TypeOK
  <2>4. CompilerProofs!Holds(Doc, latest'.errors)
    BY <2>1, <2>2, <2>3, CompilerProofs!CompiledAtOnce, IdeAssumption, CompilerAssumptions
  <2> QED BY <1>3, <1>7, <2>4 DEF CompilerProofs!Holds
<1> QED BY <1>6, <1>7

\* For any files, texts and imports, and however compilations overlap: once
\* there is a compiler, the text that Ctrl-S stores is the one that is compiled.
THEOREM SavedIsAlwaysCompiled == IdeSpec => SavedIsCompiled
<1>1. IdeInit => SavingInv
  <2> SUFFICES ASSUME IdeInit PROVE SavingInv
    OBVIOUS
  <2>1. Init /\ CompilerProofs!Init
    BY SameActions DEF IdeInit
  <2>2. Inv /\ Life
    BY <2>1, InitInv, LifeInit
  <2>3. CompilerProofs!TypeInv
    BY <2>1, CompilerProofs!TypeInit, IdeAssumption, CompilerAssumptions
  <2>4. Listens
    BY <2>1 DEF CompilerProofs!Init, Listens
  <2> QED BY <2>2, <2>3, <2>4 DEF SavingInv
<1>2. SavingInv /\ [IdeNext]_ideVars => SavingInv'
  <2> SUFFICES ASSUME SavingInv, [IdeNext]_ideVars PROVE SavingInv'
    OBVIOUS
  <2>1. [Next]_vars /\ [CompilerProofs!Next]_(CompilerProofs!vars)
    BY SessionStep, CompilationStep
  <2>2. Inv' /\ Life'
    BY <2>1, NextInv, LifeStep DEF SavingInv
  <2>3. CompilerProofs!TypeInv'
    BY <2>1, CompilerProofs!TypeStep, IdeAssumption, CompilerAssumptions DEF SavingInv
  <2>4. Listens'
    BY ListensStep DEF SavingInv
  <2> QED BY <2>2, <2>3, <2>4 DEF SavingInv
<1> DEFINE Compiled ==
      \A f \in DOMAIN files[Page] \cap DOMAIN files'[Page] :
        LET new == files'[Page][f]
        IN subscribed /\ new.content # files[Page][f].content =>
             IF mode = "worker"
             THEN \E c \in calls' \ calls :
                    c.sources = Compiler!Only([name |-> new.name, text |-> new.content])
             ELSE latest'.errors[new.name] = new.content
<1>3. SavingInv /\ SavingInv' /\ [IdeNext]_ideVars => [Compiled]_ideVars
  BY SavedStep, SameOperators
<1> QED BY <1>1, <1>2, <1>3, PTL DEF IdeSpec, SavedIsCompiled
=============================================================================

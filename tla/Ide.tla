--------------------------------- MODULE Ide ---------------------------------
(* A session of the editor: the files of one window, FileService, together     *)
(* with the compilations that clicks and saves ask for, CompilerService.       *)
(*                                                                             *)
(* CompilerService reads the selected file's name and the text in the editor   *)
(* when a compilation is asked for, and the saved texts of other files, by     *)
(* name, when an answer lets it look up imports.  Writes to storage succeed.   *)
EXTENDS FileService

CONSTANTS
  Imports,         \* text -> the names of the files it imports
  Leading,         \* see Solidity
  Faulty,          \* see Solidity
  OmitsContracts,  \* see Solidity
  Overlap,         \* FALSE: nobody asks while a compilation is under way
  MaxRequests      \* bound: see CompilerService

VARIABLES
  library,  \* what getFileByName finds: the saved text of a file of each name
  mode, versions, tabLoading, subscribed, timers, requests, calls, nextId,
  latest, tabCompiling, runCompiling,  \* see CompilerService
  lastAsked \* history: the file, with its text, whose compilation was asked last

\* The session's window.
Page == CHOOSE w \in Windows : TRUE

\* The selected file as compile() sees it.
Doc ==
  IF selected[Page] = NoFile THEN NoFile
  ELSE [name |-> files[Page][selected[Page]].name, text |-> editor[Page]]

Documents == [name : Names, text : Contents]

Compiler == INSTANCE CompilerService WITH
  Texts        <- Contents,
  None         <- NoFile,
  Selections   <- Documents,
  Libraries    <- PartialFunctions(Names, Contents),
  Modes        <- {"worker", "page"},
  LoadsMayFail <- FALSE,
  MaxLoads     <- 1,
  doc          <- Doc

ASSUME IdeAssumption ==
  /\ Windows # {}
  /\ NoFile \notin Documents
  /\ Faulty \subseteq Contents
  /\ Imports \in [Contents -> SUBSET Names]
  /\ Leading \in [Contents -> SUBSET Names]
  /\ OmitsContracts \in BOOLEAN
  /\ Overlap \in BOOLEAN
  /\ MaxRequests \in Nat

compilerVars == <<mode, versions, tabLoading, subscribed, timers, requests, calls, nextId,
                  latest, tabCompiling, runCompiling>>

ideVars == <<vars, library, compilerVars, lastAsked>>

NamesOf(fs) == {fs[f].name : f \in DOMAIN fs}

Entries(fs) == [f \in DOMAIN fs |-> <<fs[f].name, fs[f].content>>]

\* getFileByName finds the first file of a name; which one comes first changes
\* only when files do.
Catalogue ==
  LET fs == files'[Page]
  IN IF Entries(fs) = Entries(files[Page])
     THEN UNCHANGED library
     ELSE library' \in {g \in [NamesOf(fs) -> Contents] :
                          \A n \in NamesOf(fs) : \E f \in DOMAIN fs :
                            fs[f].name = n /\ fs[f].content = g[n]}

IdeInit ==
  /\ Init
  /\ library = <<>>
  /\ Compiler!Init
  /\ lastAsked = NoFile

-----------------------------------------------------------------------------
\* What happens to files without a compilation.
FilesHandled ==
  /\ \/ StartUp(Page, "none")
     \/ CloseAll(Page)
     \/ CloseNext(Page, "none")
     \/ \E text \in Contents : EditText(Page, text)
     \/ \E f \in Ids :
          \/ GotoError(Page, f, "none")
          \/ CloseFile(Page, f, "none")
          \/ DeleteFile(Page, f, "none")
          \/ \E name \in Names :
               CreateFile(Page, f, name, "none") \/ RenameFile(Page, f, name, "none")
  /\ Catalogue
  /\ Compiler!FilesChange
  /\ UNCHANGED lastAsked

\* Mutant: the compilation is requested before the file is selected.
FileClicked_RequestFirst ==
  /\ \E f \in Ids : SelectFile(Page, f, "none") \/ OpenFile(Page, f, "none")
  /\ Catalogue
  /\ UNCHANGED <<mode, versions, tabLoading, subscribed, timers>>
  /\ IF subscribed
     THEN /\ Compiler!MayAsk
          /\ Compiler!Compile(Doc)
          /\ lastAsked' = Doc'
     ELSE UNCHANGED <<compilerVars, lastAsked>>

\* A click on a tab or on a file of the sidebar.
FileClicked ==
  /\ \E f \in Ids : SelectFile(Page, f, "none") \/ OpenFile(Page, f, "none")
  /\ Catalogue
  /\ \E d \in Documents : Compiler!SelectFile(d)
  /\ lastAsked' = IF subscribed THEN Doc' ELSE lastAsked

\* Mutant: the saved text, still the old one, is compiled.
FileSaved_ReadsFile ==
  /\ SaveFile(Page, "none")
  /\ Catalogue
  /\ LET file == files[Page][selected[Page]]
     IN IF subscribed /\ editor[Page] # file.content
        THEN /\ Compiler!MayAsk
             /\ UNCHANGED <<mode, versions, tabLoading, subscribed, timers>>
             /\ Compiler!Compile([name |-> file.name, text |-> file.content])
             /\ lastAsked' = Doc'
        ELSE Compiler!FilesChange /\ UNCHANGED lastAsked

\* Ctrl-S: onFileSaved is emitted, before the text is stored, if it has changed.
FileSaved ==
  /\ SaveFile(Page, "none")
  /\ Catalogue
  /\ IF subscribed /\ editor[Page] # files[Page][selected[Page]].content
     THEN Compiler!SaveFile /\ lastAsked' = Doc'
     ELSE Compiler!FilesChange /\ UNCHANGED lastAsked

\* The compile button, and the compilations that follow a loading.
CompilationAsked ==
  /\ UNCHANGED <<vars, library>>
  /\ Compiler!AskCompile \/ Compiler!TimerFires \/ Compiler!VersionLoaded
  /\ lastAsked' = IF Doc = NoFile THEN lastAsked ELSE Doc

CompilationAnswered ==
  /\ UNCHANGED <<vars, library, lastAsked>>
  /\ Compiler!AnswerArrives

IdeNext ==
  \/ FilesHandled
  \/ FileClicked
  \/ FileSaved
  \/ CompilationAsked
  \/ CompilationAnswered

IdeSpec == IdeInit /\ [][IdeNext]_ideVars

-----------------------------------------------------------------------------
\* When nothing is being compiled, the result there is is of the file, and of the
\* text in the editor, that were last asked about: not of a file that was closed
\* or renamed meanwhile, nor of a text that was stored before or after.
LastAskedIsShown ==
  Compiler!Settled /\ lastAsked # NoFile =>
    /\ lastAsked.name \in DOMAIN latest.errors
    /\ latest.errors[lastAsked.name] = lastAsked.text

\* What is being saved is what is compiled, although subscribers hear of a save
\* before the file has its new text.
SavedIsCompiled ==
  [][\A f \in DOMAIN files[Page] \cap DOMAIN files'[Page] :
       LET new == files'[Page][f]
       IN subscribed /\ new.content # files[Page][f].content =>
            IF mode = "worker"
            THEN \E c \in calls' \ calls :
                   c.sources = Compiler!Only([name |-> new.name, text |-> new.content])
            ELSE latest'.errors[new.name] = new.content]_ideVars
=============================================================================

------------------------ MODULE FileServiceRefinement ------------------------
(* FileService keeps the promise of DocumentStore to the user of a single      *)
(* window whose writes to storage never fail.                                  *)
EXTENDS FileService

\* The only window.
Sole == CHOOSE w \in Windows : TRUE

Ready == status[Sole] = "ready"

\* What would be found if the window went away now.
SavedDocs ==
  [f \in DOMAIN storedFiles |-> [name |-> storedFiles[f].name, text |-> storedFiles[f].content]]

\* What the window shows once its editor is set up.
WorkingTexts ==
  IF Ready THEN [f \in DOMAIN files[Sole] |-> files[Sole][f].temp] ELSE <<>>

MarkedDocs == IF Ready THEN {f \in DOMAIN files[Sole] : ~files[Sole][f].isSaved} ELSE {}

Store == INSTANCE DocumentStore WITH
  Docs    <- Ids,
  NoDoc   <- NoFile,
  Texts   <- Contents,
  Blank   <- Empty,
  saved   <- SavedDocs,
  tabs    <- OpenFiles(storedFiles),
  current <- storedSelected,
  present <- Ready,
  working <- WorkingTexts,
  marked  <- MarkedDocs

\* What the user sees of the editor is a document store: a restart finds every
\* name, saved text, tab and the selection as they were left, typing goes to the
\* document in front and is lost only with the window or the document, saving
\* touches that document alone, and the unsaved marks are exact at all times.
KeepsDocuments == Store!Spec
=============================================================================

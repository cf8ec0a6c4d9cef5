----------------------------- MODULE FileService -----------------------------
(* The open documents of the HMIX editor: FileService, the File model, the     *)
(* StorageService it persists through, and the handlers of EditorComponent and *)
(* FileTabComponent that drive it.                                             *)
(*                                                                             *)
(* Each browser window runs its own FileService over a private list of files;  *)
(* all windows of the origin share one localStorage, written without any       *)
(* coordination and read only while a window starts.  A handler runs to        *)
(* completion, so it is one action, except where a loop over files makes it    *)
(* one step per file (CloseAll).  localStorage.setItem may throw (quota,       *)
(* storage disabled): the rest of the handler is then skipped.                 *)
(*                                                                             *)
(* The order of _files is not kept: the list is re-sorted by name after every  *)
(* handler (the sidebar's `files` getter), and files of equal names may stand  *)
(* in any order.                                                               *)
EXTENDS Integers, Functions

CONSTANTS
  Windows,   \* browser windows of the origin
  Ids,       \* UUIDs; their number bounds the files ever alive at once
  NoFile,    \* null / undefined
  Names,     \* file names, as ranks in localeCompare's order
  Contents,  \* texts
  Empty,     \* the text ''
  MayThrow   \* the localStorage keys whose setItem may throw

ASSUME ConstantsAssumption ==
  /\ NoFile \notin Ids
  /\ Names \subseteq Int
  /\ Empty \in Contents
  /\ MayThrow \subseteq {"selected", "tree"}

VARIABLES
  files,           \* window -> its _files, a partial function Ids -> File
  selected,        \* window -> its _selectedFile
  editor,          \* window -> the text in its Ace editor
  status,          \* window -> where it is in its life
  closing,         \* window -> the files closeAll has still to visit
  storedFiles,     \* localStorage 'hmix-files', a partial function Ids -> FileObject
  storedSelected   \* localStorage 'hmix-selected-file'

memory == <<files, selected, editor, status, closing>>
storage == <<storedFiles, storedSelected>>
vars == <<memory, storage>>

File == [name : Names, content : Contents, temp : Contents,
         isSaved : BOOLEAN, isOpen : BOOLEAN]
FileObject == [name : Names, content : Contents, isOpen : BOOLEAN]

PartialFunctions(S, T) == UNION {[D -> T] : D \in SUBSET S}

-----------------------------------------------------------------------------
(* The File model and the queries of FileService.                              *)

\* new File(fileObject)
FileOf(o) == [name |-> o.name, content |-> o.content, temp |-> o.content,
              isSaved |-> TRUE, isOpen |-> o.isOpen]

\* Mutant: toObject forgets isOpen.
ObjectOf_NoIsOpen(f) == [name |-> f.name, content |-> f.content]

\* file.toObject()
ObjectOf(f) == [name |-> f.name, content |-> f.content, isOpen |-> f.isOpen]

ObjectsOf(fs) == [f \in DOMAIN fs |-> ObjectOf(fs[f])]

OpenFiles(fs) == {f \in DOMAIN fs : fs[f].isOpen}

HasUnsavedFiles(fs) == \E f \in DOMAIN fs : ~fs[f].isSaved

\* Mutant: the flag is computed before the working copy is updated.
ContentChanged_FlagFirst(fs, sel, text) ==
  [fs EXCEPT ![sel].temp = text, ![sel].isSaved = (fs[sel].temp = fs[sel].content)]

\* Mutant: every change event marks the file unsaved, undo included.
ContentChanged_Dirty(fs, sel, text) ==
  [fs EXCEPT ![sel].temp = text, ![sel].isSaved = FALSE]

\* onSelectedFileContentChanged with sel selected and text in the editor
ContentChanged(fs, sel, text) ==
  [fs EXCEPT ![sel].temp = text, ![sel].isSaved = (text = fs[sel].content)]

\* Mutant: the editor is given the saved text, not the working copy.
Displayed_Saved(fs, sel, old) ==
  IF sel = NoFile THEN fs ELSE ContentChanged(fs, sel, fs[sel].content)

\* selectFile's assignment to editorService.content, sel being selected: Ace
\* fires 'change' unless the empty text replaces the empty text.
Displayed(fs, sel, old) ==
  IF sel = NoFile \/ (old = Empty /\ fs[sel].temp = Empty)
  THEN fs
  ELSE ContentChanged(fs, sel, fs[sel].temp)

\* Files of S whose name no other file of S precedes (or follows).
Lowest(fs, S)  == {g \in S : \A h \in S : fs[g].name <= fs[h].name}
Highest(fs, S) == {g \in S : \A h \in S : fs[g].name >= fs[h].name}

\* Mutant: off by one at the last tab, which becomes its own successor.
FilesToSelect_OffByOne(fs, f) ==
  LET others == OpenFiles(fs) \ {f}
      ties   == {g \in others : fs[g].name = fs[f].name}
      next   == ties \cup Lowest(fs, {g \in others : fs[g].name > fs[f].name})
  IN IF others = {} THEN {NoFile} ELSE IF next # {} THEN next ELSE {f}

\* findFileToSelect: the tab after f, else the one before it, else none.
FilesToSelect(fs, f) ==
  LET others == OpenFiles(fs) \ {f}
      ties   == {g \in others : fs[g].name = fs[f].name}
      after  == {g \in others : fs[g].name > fs[f].name}
      next   == ties \cup Lowest(fs, after)
  IN IF others = {} THEN {NoFile}
     ELSE IF next # {} THEN next ELSE Highest(fs, others)

-----------------------------------------------------------------------------
(* Pieces of handlers.  `thrown` is the key whose setItem throws, if any.      *)

Outcomes == {"none"} \cup MayThrow

Running(w) == status[w] \in {"ready", "broken"}

\* Between two handlers of window w.
Idle(w) == Running(w) /\ closing[w] = {}

\* Mutant: the tree is saved before the list is changed.
SaveFileTree_Early(w, thrown) ==
  storedFiles' = IF thrown = "none" THEN ObjectsOf(files[w]) ELSE storedFiles

SaveFileTree(w, thrown) ==
  storedFiles' = IF thrown = "none" THEN ObjectsOf(files'[w]) ELSE storedFiles

\* Mutant: clearing the selection is not stored.
SwitchTo_KeepsStored(w, f, text, thrown) ==
  /\ selected' = [selected EXCEPT ![w] = f]
  /\ storedSelected' = IF thrown = "selected" \/ f = NoFile THEN storedSelected ELSE f
  /\ editor' = IF thrown = "selected" \/ f = NoFile
               THEN editor ELSE [editor EXCEPT ![w] = text]

\* The selectedFile setter, then editorService.content = file.tempContent.
SwitchTo(w, f, text, thrown) ==
  /\ selected' = [selected EXCEPT ![w] = f]
  /\ storedSelected' = IF thrown = "selected" THEN storedSelected ELSE f
  /\ editor' = IF thrown = "selected" \/ f = NoFile
               THEN editor ELSE [editor EXCEPT ![w] = text]

\* selectFile(f) on the files fs of window w.
Show(w, fs, f, thrown) ==
  /\ SwitchTo(w, f, fs[f].temp, thrown)
  /\ files' = [files EXCEPT ![w] = IF thrown = "selected" THEN fs
                                   ELSE Displayed(fs, f, editor[w])]

\* openFile(f) on the files fs of window w.
Open(w, fs, f, thrown) ==
  /\ Show(w, [fs EXCEPT ![f].isOpen = TRUE], f, thrown)
  /\ SaveFileTree(w, thrown)

\* Mutant: findFileToSelect moves the selection without selectFile, so the
\* editor keeps the text of the file that went away.
Leave_NoSelectFile(w, f, rest, thrown) ==
  /\ \/ f # selected[w] /\ UNCHANGED <<selected, storedSelected>>
     \/ /\ f = selected[w]
        /\ \E g \in FilesToSelect(files[w], f) :
             /\ selected' = [selected EXCEPT ![w] = g]
             /\ storedSelected' = g
  /\ files' = [files EXCEPT ![w] = rest]
  /\ UNCHANGED editor
  /\ SaveFileTree(w, thrown)

\* closeFile and deleteFile: findFileToSelect(f), then leave the files `rest`.
Leave(w, f, rest, thrown) ==
  /\ \/ /\ f # selected[w]
        /\ thrown # "selected"
        /\ files' = [files EXCEPT ![w] = rest]
        /\ UNCHANGED <<selected, storedSelected, editor>>
     \/ /\ f = selected[w]
        /\ \E g \in FilesToSelect(files[w], f) :
             /\ SwitchTo(w, g, IF g = NoFile THEN Empty ELSE files[w][g].temp, thrown)
             /\ files' = IF thrown = "selected" THEN files
                         ELSE [files EXCEPT ![w] = Displayed(rest, g, editor[w])]
  /\ SaveFileTree(w, thrown)

Closed(fs, f) == [fs EXCEPT ![f].isOpen = FALSE]
Without(fs, f) == Restrict(fs, DOMAIN fs \ {f})

-----------------------------------------------------------------------------
Init ==
  /\ files = [w \in Windows |-> <<>>]
  /\ selected = [w \in Windows |-> NoFile]
  /\ editor = [w \in Windows |-> Empty]
  /\ status = [w \in Windows |-> "closed"]
  /\ closing = [w \in Windows |-> {}]
  /\ storedFiles = <<>>
  /\ storedSelected = NoFile

\* loadFileTree, in the constructor of a fresh FileService.
LoadedFiles == [f \in DOMAIN storedFiles |-> FileOf(storedFiles[f])]

\* Mutant: a restored selection is shown without opening its file.
StartUp_NoOpen(w, thrown) ==
  /\ status[w] = "closed"
  /\ thrown = "none"
  /\ status' = [status EXCEPT ![w] = "ready"]
  /\ IF storedSelected \in DOMAIN LoadedFiles
     THEN Show(w, LoadedFiles, storedSelected, thrown)
     ELSE /\ files' = [files EXCEPT ![w] = LoadedFiles]
          /\ UNCHANGED <<selected, editor, storedSelected>>
  /\ UNCHANGED <<closing, storedFiles>>

\* A window opens.  In one turn of its event loop the page's components are
\* made, and with them FileService, which reads the tree; and the view is set up:
\* EditorComponent.ngAfterViewInit runs initEditor, whose loadSelectedFile may throw
\* (no such file, storage), then sets up the save shortcut and the unload check.
StartUp(w, thrown) ==
  /\ status[w] = "closed"
  /\ UNCHANGED closing
  /\ \/ /\ storedSelected \notin DOMAIN LoadedFiles
        /\ thrown = "none"
        /\ status' = [status EXCEPT ![w] = IF storedSelected = NoFile THEN "ready" ELSE "broken"]
        /\ files' = [files EXCEPT ![w] = LoadedFiles]
        /\ selected' = [selected EXCEPT ![w] = NoFile]
        /\ UNCHANGED <<editor, storage>>
     \/ /\ storedSelected \in DOMAIN LoadedFiles
        /\ status' = [status EXCEPT ![w] = IF thrown = "none" THEN "ready" ELSE "broken"]
        /\ IF LoadedFiles[storedSelected].isOpen
           THEN /\ thrown # "tree"
                /\ Show(w, LoadedFiles, storedSelected, thrown)
                /\ UNCHANGED storedFiles
           ELSE Open(w, LoadedFiles, storedSelected, thrown)

\* FileTabComponent.finishEditingFile while creating a file.
CreateFile(w, f, name, thrown) ==
  /\ Idle(w)
  /\ f \notin UNION {DOMAIN files[v] : v \in Windows} \cup DOMAIN storedFiles \cup {storedSelected}
  /\ Open(w, [g \in DOMAIN files[w] \cup {f} |->
                IF g = f THEN FileOf([name |-> name, content |-> Empty, isOpen |-> FALSE])
                ELSE files[w][g]], f, thrown)
  /\ UNCHANGED <<status, closing>>

\* finishEditingFile while renaming one.
RenameFile(w, f, name, thrown) ==
  /\ Idle(w)
  /\ f \in DOMAIN files[w]
  /\ thrown # "selected"
  /\ files' = [files EXCEPT ![w][f].name = name]
  /\ SaveFileTree(w, thrown)
  /\ UNCHANGED <<selected, editor, status, closing, storedSelected>>

\* A click on an editor tab.
SelectFile(w, f, thrown) ==
  /\ Idle(w)
  /\ f \in OpenFiles(files[w])
  /\ thrown # "tree"
  /\ Show(w, files[w], f, thrown)
  /\ UNCHANGED <<status, closing, storedFiles>>

\* A click on a file of the sidebar.
OpenFile(w, f, thrown) ==
  /\ Idle(w)
  /\ f \in DOMAIN files[w]
  /\ Open(w, files[w], f, thrown)
  /\ UNCHANGED <<status, closing>>

\* A click on an error of the Compile tab: the file of that name, if there still
\* is one, is selected as if by its tab, and opened first if it was closed.
GotoError(w, f, thrown) ==
  /\ Idle(w)
  /\ f \in DOMAIN files[w]
  /\ IF files[w][f].isOpen
     THEN thrown # "tree" /\ Show(w, files[w], f, thrown) /\ UNCHANGED storedFiles
     ELSE Open(w, files[w], f, thrown)
  /\ UNCHANGED <<status, closing>>

CloseFile(w, f, thrown) ==
  /\ Idle(w)
  /\ f \in OpenFiles(files[w])
  /\ Leave(w, f, Closed(files[w], f), thrown)
  /\ UNCHANGED <<status, closing>>

DeleteFile(w, f, thrown) ==
  /\ Idle(w)
  /\ f \in DOMAIN files[w]
  /\ Leave(w, f, Without(files[w], f), thrown)
  /\ UNCHANGED <<status, closing>>

\* Mutant: closeAll spares the selected file.
CloseAll_Others(w) ==
  /\ Idle(w)
  /\ OpenFiles(files[w]) \ {selected[w]} # {}
  /\ closing' = [closing EXCEPT ![w] = OpenFiles(files[w]) \ {selected[w]}]
  /\ UNCHANGED <<files, selected, editor, status, storage>>

\* closeAll visits a snapshot of the open files; a throw ends the visit.
CloseAll(w) ==
  /\ Idle(w)
  /\ OpenFiles(files[w]) # {}
  /\ closing' = [closing EXCEPT ![w] = OpenFiles(files[w])]
  /\ UNCHANGED <<files, selected, editor, status, storage>>

CloseNext(w, thrown) ==
  /\ closing[w] # {}
  /\ \E f \in Lowest(files[w], closing[w]) :
       /\ Leave(w, f, Closed(files[w], f), thrown)
       /\ closing' = [closing EXCEPT ![w] = IF thrown = "none" THEN @ \ {f} ELSE {}]
  /\ UNCHANGED status

\* Typing, pasting, undoing: the user replaces the text; the editor is hidden
\* while no file is selected.
EditText(w, text) ==
  /\ Idle(w)
  /\ selected[w] # NoFile
  /\ text # editor[w]
  /\ editor' = [editor EXCEPT ![w] = text]
  /\ files' = [files EXCEPT ![w] = ContentChanged(@, selected[w], text)]
  /\ UNCHANGED <<selected, status, closing, storage>>

\* Mutant: what is saved is the working copies of all files.
SaveFile_All(w, thrown) ==
  /\ Idle(w)
  /\ status[w] = "ready"
  /\ selected[w] # NoFile
  /\ thrown # "selected"
  /\ files' = [files EXCEPT ![w] = [f \in DOMAIN files[w] |->
                  [files[w][f] EXCEPT !.content = files[w][f].temp, !.isSaved = TRUE]]]
  /\ SaveFileTree(w, thrown)
  /\ UNCHANGED <<selected, editor, status, closing, storedSelected>>

\* Ctrl-S, a shortcut that only a window whose initialisation went through has.
SaveFile(w, thrown) ==
  /\ Idle(w)
  /\ status[w] = "ready"
  /\ selected[w] # NoFile
  /\ thrown # "selected"
  /\ files' = [files EXCEPT ![w][selected[w]].content = editor[w],
                            ![w][selected[w]].isSaved = TRUE]
  /\ SaveFileTree(w, thrown)
  /\ UNCHANGED <<selected, editor, status, closing, storedSelected>>

\* The window goes away: closed by the user, reloaded, or the browser died.
Exit(w) ==
  /\ status[w] # "closed"
  /\ files' = [files EXCEPT ![w] = <<>>]
  /\ selected' = [selected EXCEPT ![w] = NoFile]
  /\ editor' = [editor EXCEPT ![w] = Empty]
  /\ status' = [status EXCEPT ![w] = "closed"]
  /\ closing' = [closing EXCEPT ![w] = {}]
  /\ UNCHANGED storage

Next ==
  \E w \in Windows :
    \/ CloseAll(w)
    \/ Exit(w)
    \/ \E text \in Contents : EditText(w, text)
    \/ \E thrown \in Outcomes :
         \/ StartUp(w, thrown)
         \/ CloseNext(w, thrown)
         \/ SaveFile(w, thrown)
         \/ \E f \in Ids :
              \/ SelectFile(w, f, thrown)
              \/ OpenFile(w, f, thrown)
              \/ GotoError(w, f, thrown)
              \/ CloseFile(w, f, thrown)
              \/ DeleteFile(w, f, thrown)
              \/ \E name \in Names :
                   \/ CreateFile(w, f, name, thrown)
                   \/ RenameFile(w, f, name, thrown)

Spec == Init /\ [][Next]_vars

-----------------------------------------------------------------------------
(* The unload check: a beforeunload listener that only a window whose          *)
(* initialisation went through has, and that asks hasUnsavedFiles.             *)
Warns(w) == status[w] = "ready" /\ HasUnsavedFiles(files[w])

TypeOK ==
  /\ files \in [Windows -> PartialFunctions(Ids, File)]
  /\ selected \in [Windows -> Ids \cup {NoFile}]
  /\ editor \in [Windows -> Contents]
  /\ status \in [Windows -> {"closed", "ready", "broken"}]
  /\ closing \in [Windows -> SUBSET Ids]
  /\ storedFiles \in PartialFunctions(Ids, FileObject)
  /\ storedSelected \in Ids \cup {NoFile}

\* The selected file is one of the window's files and has a tab: whatever
\* was deleted, closed or restored, and whichever write to storage threw.
SelectedIsOpen ==
  \A w \in Windows : selected[w] # NoFile => selected[w] \in OpenFiles(files[w])

\* The text in the editor is the selected file's working copy: a save or a
\* keystroke can never land in another file than the one whose tab is lit.
EditorShowsSelected ==
  \A w \in Windows : selected[w] \in DOMAIN files[w] =>
                       editor[w] = files[w][selected[w]].temp

\* A tab carries the unsaved mark exactly when its working copy differs from
\* what was saved, although saveFile takes the text from the editor and sets
\* the flag without looking at the working copy.
SavedFlagTruthful ==
  \A w \in Windows : \A f \in DOMAIN files[w] :
    files[w][f].isSaved <=> files[w][f].temp = files[w][f].content

\* closeAll never leaves a tab behind: while it runs, what is open is what it
\* has still to visit.
CloseAllLeavesNone ==
  \A w \in Windows : closing[w] # {} => closing[w] = OpenFiles(files[w])

\* Working copies change only under the user's hands: when a file's working copy
\* changes, the file was selected, still is, and the editor shows the change.
\* Opening, selecting, closing, deleting and renaming lose nothing typed.
TypedTextKept ==
  [][\A w \in Windows : \A f \in DOMAIN files[w] \cap DOMAIN files'[w] :
       files'[w][f].temp # files[w][f].temp =>
         /\ f = selected[w] /\ f = selected'[w]
         /\ editor'[w] # editor[w]
         /\ editor'[w] = files'[w][f].temp]_vars

\* With one window and a storage that never throws, what a restart finds is
\* what the window has: the stored tree is its files, the stored selection its
\* selection.
StorageMirrorsWindow ==
  \A w \in Windows : status[w] = "ready" =>
    /\ storedFiles = ObjectsOf(files[w])
    /\ storedSelected = selected[w]

\* Then also a restart never meets a selection it cannot resolve: the
\* initialisation always goes through.
RestartSucceeds ==
  /\ storedSelected # NoFile => storedSelected \in OpenFiles(storedFiles)
  /\ \A w \in Windows : status[w] # "broken"

\* Closing a window that does not ask loses no text: every working copy that is
\* not empty is in storage.
QuietExitLosesNothing ==
  \A w \in Windows : Running(w) /\ ~Warns(w) =>
    \A f \in DOMAIN files[w] : files[w][f].temp # Empty =>
      f \in DOMAIN storedFiles /\ storedFiles[f].content = files[w][f].temp

\* EditorComponent.initSaveCheck's promise: a window with unsaved files asks.
UnsavedFilesAreWarned ==
  \A w \in Windows : Running(w) /\ HasUnsavedFiles(files[w]) => Warns(w)
=============================================================================

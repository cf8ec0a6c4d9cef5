------------------------------- MODULE FileTab -------------------------------
(* The file list of the sidebar: the two inputs for names, the two context     *)
(* menus, and the listeners on the whole document that end the editing of a    *)
(* name.  Here a file is its name; what becomes of the files is in Sidebar.    *)
(*                                                                             *)
(* Both inputs have the id new-file-input, and the one of a creation comes     *)
(* first in the page.  Choosing an item of a menu, or opening one, keeps the   *)
(* event from the document.  A menu closes at any click.  The template follows *)
(* the fields at once, change detection running after each listener.           *)
CONSTANTS
  Files,   \* identities of files; a new one is not in use
  Names,   \* file names
  Blank,   \* nothing typed, or spaces only
  NoMenu,  \* neither menu of the list is open
  NoFile   \* undefined

\* Nothing is taken for something else.
FileTabAssumption ==
  /\ Blank \notin Names
  /\ NoFile \notin Files
  /\ NoMenu \notin Files \cup {"creation"}
  /\ "creation" \notin Files

VARIABLES
  names,              \* FileService's files, with their names
  isCreatingNewFile,
  isRenamingFile,
  fileToBeRenamed,
  typed,              \* what is in the inputs of the creation and of the rename;
                      \* Blank where there is none
  menu                \* the file whose menu is open, "creation" or NoMenu

editing == <<isCreatingNewFile, isRenamingFile, fileToBeRenamed>>
vars == <<names, editing, typed, menu>>

-----------------------------------------------------------------------------
\* The inputs that the template shows.
Inputs ==
  (IF isCreatingNewFile THEN {"creation"} ELSE {})
    \cup (IF fileToBeRenamed \in DOMAIN names THEN {"rename"} ELSE {})

NothingTyped == [input \in {"creation", "rename"} |-> Blank]

\* getElementById finds the first one.
NewFileInput == IF "creation" \in Inputs THEN "creation" ELSE "rename"

CreateFile(name) ==
  \E f \in Files \ (DOMAIN names \cup {fileToBeRenamed}) :
    names' = [g \in DOMAIN names \cup {f} |-> IF g = f THEN name ELSE names[g]]

RenameFile(f, name) == names' = [names EXCEPT ![f] = name]

\* Mutant: whether a file is being renamed is asked first.
FinishEditingFile_RenameFirst ==
  IF (isCreatingNewFile \/ isRenamingFile) /\ Inputs # {}
  THEN /\ \/ typed[NewFileInput] = Blank /\ UNCHANGED names
          \/ /\ typed[NewFileInput] # Blank
             /\ IF isRenamingFile THEN RenameFile(fileToBeRenamed, typed[NewFileInput])
                ELSE CreateFile(typed[NewFileInput])
       /\ isCreatingNewFile' = FALSE
       /\ isRenamingFile' = FALSE
       /\ fileToBeRenamed' = NoFile
       /\ typed' = NothingTyped
  ELSE UNCHANGED <<names, editing, typed>>

\* finishEditingFile: what was typed in the first input is the name of a new file
\* or the new name of one; then both inputs go.
FinishEditingFile ==
  IF (isCreatingNewFile \/ isRenamingFile) /\ Inputs # {}
  THEN /\ \/ typed[NewFileInput] = Blank /\ UNCHANGED names
          \/ /\ typed[NewFileInput] # Blank
             /\ IF isCreatingNewFile THEN CreateFile(typed[NewFileInput])
                ELSE RenameFile(fileToBeRenamed, typed[NewFileInput])
       /\ isCreatingNewFile' = FALSE
       /\ isRenamingFile' = FALSE
       /\ fileToBeRenamed' = NoFile
       /\ typed' = NothingTyped
  ELSE UNCHANGED <<names, editing, typed>>

-----------------------------------------------------------------------------
Init ==
  /\ names = <<>>
  /\ isCreatingNewFile = FALSE
  /\ isRenamingFile = FALSE
  /\ fileToBeRenamed = NoFile
  /\ typed = NothingTyped
  /\ menu = NoMenu

\* The input comes, empty, or stays as it is if it is there already.
BeginCreation ==
  /\ isCreatingNewFile' = TRUE
  /\ menu' = NoMenu
  /\ UNCHANGED <<names, isRenamingFile, fileToBeRenamed, typed>>

\* The button for a new file, whose click does not end the editing of a name.
ClickNewFile == BeginCreation

\* A click into an input, or anywhere else but on the button for a new file; or a
\* right click outside of the list and of the editor's tabs.
Click(target) ==
  /\ menu' = NoMenu
  /\ IF target \in Inputs /\ target = NewFileInput
     THEN UNCHANGED <<names, editing, typed>>
     ELSE FinishEditingFile

\* Mutant: the menu of the files opens without an end to the editing.
OpenMenu_KeepsEditing(item) ==
  /\ item \in DOMAIN names \cup {"creation"}
  /\ menu' = item
  /\ IF item = "creation" THEN FinishEditingFile ELSE UNCHANGED <<names, editing, typed>>

\* A right click on a file of the list, or beside them, be it into an input.
OpenMenu(item) ==
  /\ item \in DOMAIN names \cup {"creation"}
  /\ menu' = item
  /\ FinishEditingFile

\* Escape, scrolling, or a right click on a tab of the editor, whose menu comes
\* instead: no editing ends.
CloseMenu ==
  /\ menu' = NoMenu
  /\ UNCHANGED <<names, editing, typed>>

ChooseCreate == menu = "creation" /\ BeginCreation

ChooseRename ==
  /\ menu \in Files
  /\ isRenamingFile' = TRUE
  /\ fileToBeRenamed' = menu
  /\ typed' = [typed EXCEPT !["rename"] = Blank]
  /\ menu' = NoMenu
  /\ UNCHANGED <<names, isCreatingNewFile>>

ChooseDelete ==
  /\ menu \in Files
  /\ names' = [f \in DOMAIN names \ {menu} |-> names[f]]
  /\ menu' = NoMenu
  /\ UNCHANGED <<editing, typed>>

Type(input, text) ==
  /\ input \in Inputs
  /\ typed' = [typed EXCEPT ![input] = text]
  /\ UNCHANGED <<names, editing, menu>>

\* Enter in either input.
PressEnter ==
  /\ Inputs # {}
  /\ FinishEditingFile
  /\ UNCHANGED menu

\* The page goes away, and all that is typed with it.
PageGoes ==
  /\ names' = <<>>
  /\ isCreatingNewFile' = FALSE
  /\ isRenamingFile' = FALSE
  /\ fileToBeRenamed' = NoFile
  /\ typed' = NothingTyped
  /\ menu' = NoMenu

\* The page is loaded, with the files that are stored.
PageLoads ==
  /\ names = <<>>
  /\ ~isCreatingNewFile
  /\ \E D \in SUBSET Files : names' \in [D -> Names]
  /\ UNCHANGED <<editing, typed, menu>>

Next ==
  \/ ClickNewFile
  \/ \E target \in {"creation", "rename", "elsewhere"} : Click(target)
  \/ \E item \in Files \cup {"creation"} : OpenMenu(item)
  \/ CloseMenu
  \/ ChooseCreate
  \/ ChooseRename
  \/ ChooseDelete
  \/ \E input \in {"creation", "rename"}, text \in Names \cup {Blank} : Type(input, text)
  \/ PressEnter
  \/ PageGoes
  \/ PageLoads

Spec == Init /\ [][Next]_vars

-----------------------------------------------------------------------------
TypeOK ==
  /\ DOMAIN names \subseteq Files
  /\ names \in [DOMAIN names -> Names]
  /\ isCreatingNewFile \in BOOLEAN
  /\ isRenamingFile \in BOOLEAN
  /\ fileToBeRenamed \in Files \cup {NoFile}
  /\ typed \in [{"creation", "rename"} -> Names \cup {Blank}]
  /\ menu \in Files \cup {"creation", NoMenu}

\* Whatever is chosen and clicked in between, a file that is being renamed, or
\* whose menu is open, has not been deleted meanwhile: neither renameFile nor
\* deleteFile checks that the file is there, and an input that vanished with its
\* file would leave the flag set for ever.
TargetsAreThere ==
  /\ isRenamingFile => fileToBeRenamed \in DOMAIN names
  /\ menu \in Files => menu \in DOMAIN names

\* A name goes where it was typed for: although both inputs may be there, have the
\* same id and end together, a new file has the name typed into the input of the
\* creation, and a name changes only of the file under the input of the rename, to
\* what was typed there.  Other files come only with the page.
NamedAsTyped ==
  [][\A f \in DOMAIN names' :
       IF f \in DOMAIN names
       THEN names'[f] # names[f] =>
              isRenamingFile /\ f = fileToBeRenamed /\ names'[f] = typed["rename"]
       ELSE IF isCreatingNewFile THEN names'[f] = typed["creation"] ELSE names = <<>>]_vars
=============================================================================

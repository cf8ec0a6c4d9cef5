------------------------------- MODULE Sidebar -------------------------------
(* The files of one window, FileService, together with the file list that      *)
(* creates, names, opens and deletes them, FileTab.                            *)
(*                                                                             *)
(* A click is handled where it is made and then by the document, which may     *)
(* find a name to give: two handlers, and two steps, with nothing in between.  *)
(* Choosing an item of a menu, keys and the start of the page are no clicks.   *)
(* Writes to storage succeed.                                                  *)
EXTENDS FileServiceRefinement

CONSTANTS
  Blank,  \* see FileTab
  NoMenu  \* see FileTab

ASSUME SidebarAssumption ==
  /\ Windows # {}
  /\ Blank \notin Names
  /\ NoMenu \notin Ids \cup {"creation"}
  /\ "creation" \notin Ids

VARIABLES
  isCreatingNewFile, isRenamingFile, fileToBeRenamed, typed, menu,  \* see FileTab
  target  \* what was clicked, while the document has still to hear of it, or "none"

NamesOf == [f \in DOMAIN files[Sole] |-> files[Sole][f].name]

Tab == INSTANCE FileTab WITH Files <- Ids, names <- NamesOf

tabVars == <<isCreatingNewFile, isRenamingFile, fileToBeRenamed, typed, menu>>
sidebarVars == <<vars, tabVars, target>>

\* The user's next turn.
Quiet == Idle(Sole) /\ target = "none"

\* createFile and renameFile, if a name ends that is not blank.
FilesNamed ==
  \/ UNCHANGED vars
  \/ \E f \in Ids, name \in Names :
       CreateFile(Sole, f, name, "none") \/ RenameFile(Sole, f, name, "none")

-----------------------------------------------------------------------------
SidebarInit ==
  /\ Init
  /\ Tab!Init
  /\ target = "none"

\* The page is loaded, or goes away.
PageChanges ==
  /\ \/ StartUp(Sole, "none") /\ Tab!PageLoads
     \/ Exit(Sole) /\ Tab!PageGoes
  /\ target' = "none"

\* A step of closeAll, and the keyboard in the editor.
EditorHandled ==
  /\ target = "none"
  /\ \/ CloseNext(Sole, "none")
     \/ SaveFile(Sole, "none")
     \/ \E text \in Contents : EditText(Sole, text)
  /\ UNCHANGED <<tabVars, target>>

\* An item of the menu of the editor's tabs, which replaces those of the list.
TabMenuChosen ==
  /\ Quiet
  /\ menu = NoMenu
  /\ CloseAll(Sole) \/ \E f \in Ids : CloseFile(Sole, f, "none")
  /\ UNCHANGED <<tabVars, target>>

\* A click on a tab, its cross, an error, a file of the list, or into the input
\* that takes the place of its name.
ClickHandled ==
  /\ Quiet
  /\ \/ /\ \E f \in Ids :
             \/ SelectFile(Sole, f, "none")
             \/ CloseFile(Sole, f, "none")
             \/ GotoError(Sole, f, "none")
             \/ OpenFile(Sole, f, "none")
        /\ target' = "elsewhere"
     \/ /\ "rename" \in Tab!Inputs
        /\ OpenFile(Sole, fileToBeRenamed, "none")
        /\ target' = "rename"
  /\ UNCHANGED tabVars

\* The document hears of that click, or of one made where nothing else listens.
ClickArrives ==
  /\ Idle(Sole)
  /\ FilesNamed
  /\ IF target = "none"
     THEN Tab!Click("creation") \/ Tab!Click("elsewhere")
     ELSE Tab!Click(target)
  /\ target' = "none"

\* Enter, or a right click in the list.
NameEnded ==
  /\ Quiet
  /\ FilesNamed
  /\ Tab!PressEnter \/ \E item \in Ids \cup {"creation"} : Tab!OpenMenu(item)
  /\ UNCHANGED target

\* What happens in the list alone.
ListHandled ==
  /\ Quiet
  /\ UNCHANGED <<vars, target>>
  /\ \/ Tab!ClickNewFile
     \/ Tab!CloseMenu
     \/ Tab!ChooseCreate
     \/ Tab!ChooseRename
     \/ \E input \in {"creation", "rename"}, text \in Names \cup {Blank} : Tab!Type(input, text)

\* An item of the list's menu.
FileDeleted ==
  /\ Quiet
  /\ DeleteFile(Sole, menu, "none")
  /\ Tab!ChooseDelete
  /\ UNCHANGED target

SidebarNext ==
  \/ PageChanges
  \/ EditorHandled
  \/ TabMenuChosen
  \/ ClickHandled
  \/ ClickArrives
  \/ NameEnded
  \/ ListHandled
  \/ FileDeleted

SidebarSpec == SidebarInit /\ [][SidebarNext]_sidebarVars

-----------------------------------------------------------------------------
\* A file that is being renamed, or whose menu is open, is there, whatever was
\* clicked meanwhile in the list, the editor's tabs and the errors: see FileTab.
TargetsAreThere == Tab!TargetsAreThere

\* The names of files change only to what was typed for them: see FileTab.
NamedAsTyped == Tab!NamedAsTyped
=============================================================================

---------------------------- MODULE SidebarProofs ----------------------------
(* The files of a window and its file list together, for any number of files   *)
(* and names: what is proved of FileService and of FileTab holds of both, as   *)
(* each step of Sidebar is one of FileService and one of FileTab, or changes   *)
(* nothing of it.                                                              *)
EXTENDS Sidebar, FileServiceProofs

TabProofs == INSTANCE FileTabProofs WITH Files <- Ids, names <- NamesOf

-----------------------------------------------------------------------------
(* The steps of FileService.                                                   *)

LEMMA SidebarStep ==
  ASSUME Inv, [SidebarNext]_sidebarVars
  PROVE  [Next]_vars
<1>1. Sole \in Windows
  BY SidebarAssumption DEF Sole
<1>2. DOMAIN files[Sole] \subseteq Ids
  BY <1>1, TreeElim DEF Inv, TypeOK, FileTree
<1>3. "none" \in Outcomes
  BY DEF Outcomes
<1>4. ASSUME FilesNamed PROVE [Next]_vars
  BY <1>1, <1>3, <1>4 DEF FilesNamed, Next
<1>5. CASE PageChanges
  BY <1>1, <1>3, <1>5 DEF PageChanges, Next
<1>6. CASE EditorHandled
  BY <1>1, <1>3, <1>6 DEF EditorHandled, Next
<1>7. CASE TabMenuChosen
  BY <1>1, <1>3, <1>7 DEF TabMenuChosen, Next
<1>8. CASE ClickHandled
  <2>1. ASSUME OpenFile(Sole, fileToBeRenamed, "none") PROVE fileToBeRenamed \in Ids
    BY <1>2, <2>1 DEF OpenFile
  <2> QED BY <1>1, <1>3, <1>8, <2>1 DEF ClickHandled, Next
<1>9. CASE ClickArrives
  BY <1>4, <1>9 DEF ClickArrives
<1>10. CASE NameEnded
  BY <1>4, <1>10 DEF NameEnded
<1>11. CASE ListHandled
  BY <1>11 DEF ListHandled
<1>12. CASE FileDeleted
  <2>1. menu \in Ids
    BY <1>2, <1>12 DEF FileDeleted, DeleteFile
  <2> QED BY <1>1, <1>3, <1>12, <2>1 DEF FileDeleted, Next
<1>13. CASE UNCHANGED sidebarVars
  BY <1>13 DEF sidebarVars
<1> QED BY <1>5, <1>6, <1>7, <1>8, <1>9, <1>10, <1>11, <1>12, <1>13 DEF SidebarNext

\* For any number of files, the window with its file list is a window of
\* FileService: all that is proved of FileService holds of it.
THEOREM WindowIsKept == SidebarSpec => Spec
<1>1. SidebarInit => Init
  BY DEF SidebarInit
<1>2. Inv /\ [SidebarNext]_sidebarVars => [Next]_vars
  BY SidebarStep
<1> QED BY <1>1, <1>2, InitInv, NextInv, PTL DEF SidebarSpec, Spec

-----------------------------------------------------------------------------
(* The handlers that give no names.                                            *)

SameNames(fs, gs) ==
  /\ DOMAIN gs = DOMAIN fs
  /\ \A f \in DOMAIN fs : gs[f].name = fs[f].name

LEMMA ChangedNames ==
  ASSUME NEW fs \in FileTree, NEW sel \in DOMAIN fs, NEW text \in Contents
  PROVE  SameNames(fs, ContentChanged(fs, sel, text))
<1>1. \A f \in DOMAIN fs : fs[f] \in File
  BY TreeElim DEF FileTree
<1> QED BY <1>1 DEF SameNames, ContentChanged, File

LEMMA DisplayedNames ==
  ASSUME NEW fs \in FileTree, NEW sel \in DOMAIN fs \cup {NoFile}, NEW old
  PROVE  SameNames(fs, Displayed(fs, sel, old))
<1>0. \A f \in DOMAIN fs : fs[f] \in File
  BY TreeElim DEF FileTree
<1>1. SameNames(fs, fs) /\ \A f \in DOMAIN fs : fs[f].temp \in Contents
  BY <1>0 DEF SameNames, File
<1>2. CASE Displayed(fs, sel, old) = fs
  BY <1>1, <1>2
<1>3. CASE sel \in DOMAIN fs /\ Displayed(fs, sel, old) = ContentChanged(fs, sel, fs[sel].temp)
  BY <1>1, <1>3, ChangedNames
<1> QED BY <1>2, <1>3 DEF Displayed

\* The files of window w become others of the same names.
NamesStay(w) == \E gs : SameNames(files[w], gs) /\ files' = [files EXCEPT ![w] = gs]

LEMMA ShowNames ==
  ASSUME NEW w \in Windows, NEW fs \in FileTree, NEW f \in DOMAIN fs, NEW thrown,
         SameNames(files[w], fs), Show(w, fs, f, thrown)
  PROVE  NamesStay(w)
<1>1. PICK gs \in {fs, Displayed(fs, f, editor[w])} : files' = [files EXCEPT ![w] = gs]
  BY DEF Show
<1>2. SameNames(fs, gs)
  BY <1>1, DisplayedNames DEF SameNames
<1> QED BY <1>1, <1>2 DEF NamesStay, SameNames

LEMMA OpenNames ==
  ASSUME NEW w \in Windows, NEW fs \in FileTree, NEW f \in DOMAIN fs, NEW thrown,
         SameNames(files[w], fs), Open(w, fs, f, thrown)
  PROVE  NamesStay(w)
<1> DEFINE os == [fs EXCEPT ![f].isOpen = TRUE]
<1>1. os \in FileTree /\ DOMAIN os = DOMAIN fs
  BY OpenedTree
<1>2. \A g \in DOMAIN fs : fs[g] \in File
  BY TreeElim DEF FileTree
<1>3. SameNames(files[w], os)
  BY <1>2 DEF SameNames, File
<1>4. Show(w, os, f, thrown)
  BY DEF Open
<1> HIDE DEF os
<1> QED BY <1>1, <1>3, <1>4, ShowNames

LEMMA CloseNames ==
  ASSUME Inv, NEW w \in Windows, NEW f, NEW thrown,
         Leave(w, f, Closed(files[w], f), thrown)
  PROVE  NamesStay(w)
<1> DEFINE rest == Closed(files[w], f)
<1>1. files \in [Windows -> FileTree]
  BY DEF Inv, TypeOK, FileTree
<1>2. \A g \in DOMAIN files[w] : files[w][g] \in File
  BY <1>1, TreeElim DEF FileTree
<1>3. rest \in FileTree /\ DOMAIN rest = DOMAIN files[w]
  BY <1>1, ClosedTree
<1>4. SameNames(files[w], rest)
  BY <1>2 DEF SameNames, Closed, File
<1>5. SameNames(files[w], files[w]) /\ files = [files EXCEPT ![w] = files[w]]
  BY <1>1 DEF SameNames
<1>6. Leave(w, f, rest, thrown)
  OBVIOUS
<1> HIDE DEF rest
<1>7. CASE files' = [files EXCEPT ![w] = rest]
  BY <1>4, <1>7 DEF NamesStay
<1>8. ASSUME NEW g \in FilesToSelect(files[w], f),
             files' = IF thrown = "selected" THEN files
                      ELSE [files EXCEPT ![w] = Displayed(rest, g, editor[w])]
      PROVE  NamesStay(w)
  <2>1. g \in DOMAIN rest \cup {NoFile}
    BY <1>3, FilesToSelectOpen DEF OpenFiles
  <2>2. SameNames(files[w], Displayed(rest, g, editor[w]))
    BY <1>3, <1>4, <2>1, DisplayedNames DEF SameNames
  <2> QED BY <1>5, <1>8, <2>2 DEF NamesStay
<1> QED BY <1>6, <1>7, <1>8 DEF Leave

LEMMA NamesOfStay ==
  ASSUME Inv, NamesStay(Sole)
  PROVE  NamesOf' = NamesOf
<1>1. PICK gs : SameNames(files[Sole], gs) /\ files' = [files EXCEPT ![Sole] = gs]
  BY DEF NamesStay
<1>2. Sole \in Windows /\ files \in [Windows -> FileTree]
  BY SidebarAssumption DEF Sole, Inv, TypeOK, FileTree
<1>3. files'[Sole] = gs
  BY <1>1, <1>2
<1> QED BY <1>1, <1>3 DEF NamesOf, SameNames

\* The editor, the menu of its tabs and the first listener of a click name nothing.
LEMMA NamesKept ==
  ASSUME Inv, EditorHandled \/ TabMenuChosen \/ ClickHandled
  PROVE  NamesOf' = NamesOf
<1>1. Sole \in Windows /\ files \in [Windows -> FileTree]
  BY SidebarAssumption DEF Sole, Inv, TypeOK, FileTree
<1>2. /\ files[Sole] \in FileTree
      /\ SameNames(files[Sole], files[Sole])
      /\ \A f \in DOMAIN files[Sole] : files[Sole][f] \in File
  BY <1>1, TreeElim DEF FileTree, SameNames
<1>3. ASSUME UNCHANGED files PROVE NamesOf' = NamesOf
  BY <1>3 DEF NamesOf
<1>4. ASSUME NEW f, CloseFile(Sole, f, "none") PROVE NamesOf' = NamesOf
  BY <1>1, <1>4, CloseNames, NamesOfStay DEF CloseFile
<1>5. ASSUME NEW f, SelectFile(Sole, f, "none") PROVE NamesOf' = NamesOf
  BY <1>1, <1>2, <1>5, ShowNames, NamesOfStay DEF SelectFile, OpenFiles
<1>6. ASSUME NEW f, OpenFile(Sole, f, "none") PROVE NamesOf' = NamesOf
  BY <1>1, <1>2, <1>6, OpenNames, NamesOfStay DEF OpenFile
<1>7. ASSUME NEW f, GotoError(Sole, f, "none") PROVE NamesOf' = NamesOf
  BY <1>1, <1>2, <1>7, ShowNames, OpenNames, NamesOfStay DEF GotoError
<1>8. ASSUME CloseNext(Sole, "none") PROVE NamesOf' = NamesOf
  BY <1>1, <1>8, CloseNames, NamesOfStay DEF CloseNext
<1>9. ASSUME SaveFile(Sole, "none") PROVE NamesOf' = NamesOf
  <2> DEFINE gs == [files[Sole] EXCEPT ![selected[Sole]].content = editor[Sole],
                                       ![selected[Sole]].isSaved = TRUE]
  <2>1. SameNames(files[Sole], gs)
    BY <1>2 DEF SameNames, File
  <2>2. files' = [files EXCEPT ![Sole] = gs]
    BY <1>1, <1>9 DEF SaveFile
  <2> QED BY <2>1, <2>2, NamesOfStay DEF NamesStay
<1>10. ASSUME NEW text \in Contents, EditText(Sole, text) PROVE NamesOf' = NamesOf
  <2>1. selected[Sole] \in DOMAIN files[Sole]
    BY <1>1, <1>10 DEF EditText, Inv, SelectedIsOpen, OpenFiles
  <2>2. files' = [files EXCEPT ![Sole] = ContentChanged(files[Sole], selected[Sole], text)]
    BY <1>1, <1>10 DEF EditText
  <2> QED BY <1>2, <2>1, <2>2, ChangedNames, NamesOfStay DEF NamesStay
<1>11. CASE EditorHandled
  BY <1>8, <1>9, <1>10, <1>11 DEF EditorHandled
<1>12. CASE TabMenuChosen
  BY <1>3, <1>4, <1>12 DEF TabMenuChosen, CloseAll
<1>13. CASE ClickHandled
  BY <1>4, <1>5, <1>6, <1>7, <1>13 DEF ClickHandled
<1> QED BY <1>11, <1>12, <1>13

-----------------------------------------------------------------------------
(* The steps of FileTab.                                                       *)

LEMMA TabNext == Tab!Next <=> TabProofs!Next
BY DEF Tab!Next, Tab!ClickNewFile, Tab!BeginCreation, Tab!Click, Tab!OpenMenu,
       Tab!CloseMenu, Tab!ChooseCreate, Tab!ChooseRename, Tab!ChooseDelete, Tab!Type,
       Tab!PressEnter, Tab!PageGoes, Tab!PageLoads, Tab!FinishEditingFile,
       Tab!CreateFile, Tab!RenameFile, Tab!Inputs, Tab!NewFileInput,
       Tab!NothingTyped, Tab!editing,
       TabProofs!Next, TabProofs!ClickNewFile, TabProofs!BeginCreation, TabProofs!Click,
       TabProofs!OpenMenu, TabProofs!CloseMenu, TabProofs!ChooseCreate,
       TabProofs!ChooseRename, TabProofs!ChooseDelete, TabProofs!Type,
       TabProofs!PressEnter, TabProofs!PageGoes, TabProofs!PageLoads,
       TabProofs!FinishEditingFile, TabProofs!CreateFile, TabProofs!RenameFile,
       TabProofs!Inputs, TabProofs!NewFileInput, TabProofs!NothingTyped,
       TabProofs!editing

\* What a click was on, while it is on its way.
TargetOK == target \in {"none", "rename", "elsewhere"}

LEMMA TargetStep == TargetOK /\ [SidebarNext]_sidebarVars => TargetOK'
BY DEF TargetOK, SidebarNext, sidebarVars, PageChanges, EditorHandled, TabMenuChosen,
       ClickHandled, ClickArrives, NameEnded, ListHandled, FileDeleted

LEMMA SidebarTabStep ==
  ASSUME Inv, TargetOK, [SidebarNext]_sidebarVars
  PROVE  [TabProofs!Next]_TabProofs!vars
<1>1. ASSUME NamesOf' = NamesOf, UNCHANGED tabVars
      PROVE  UNCHANGED TabProofs!vars
  BY <1>1 DEF tabVars, TabProofs!vars, TabProofs!editing
<1>2. CASE PageChanges
  BY <1>2, TabNext DEF PageChanges, Tab!Next
<1>3. CASE EditorHandled
  BY <1>1, <1>3, NamesKept DEF EditorHandled
<1>4. CASE TabMenuChosen
  BY <1>1, <1>4, NamesKept DEF TabMenuChosen
<1>5. CASE ClickHandled
  BY <1>1, <1>5, NamesKept DEF ClickHandled
<1>6. CASE ClickArrives
  <2>1. Tab!Click("creation") \/ Tab!Click("elsewhere") \/ Tab!Click("rename")
    BY <1>6 DEF ClickArrives, TargetOK
  <2> QED BY <2>1, TabNext DEF Tab!Next
<1>7. CASE NameEnded
  BY <1>7, TabNext DEF NameEnded, Tab!Next
<1>8. CASE ListHandled
  BY <1>8, TabNext DEF ListHandled, Tab!Next
<1>9. CASE FileDeleted
  BY <1>9, TabNext DEF FileDeleted, Tab!Next
<1>10. CASE UNCHANGED sidebarVars
  <2>1. NamesOf' = NamesOf
    BY <1>10 DEF sidebarVars, vars, memory, NamesOf
  <2> QED BY <1>1, <1>10, <2>1 DEF sidebarVars
<1> QED BY <1>2, <1>3, <1>4, <1>5, <1>6, <1>7, <1>8, <1>9, <1>10 DEF SidebarNext

-----------------------------------------------------------------------------
SidebarInv == Inv /\ TargetOK /\ TabProofs!TabInv

LEMMA Distinct == TabProofs!FileTabAssumption
BY SidebarAssumption, ConstantsAssumption DEF TabProofs!FileTabAssumption

LEMMA SidebarStart == SidebarInit => SidebarInv
<1> SUFFICES ASSUME SidebarInit PROVE SidebarInv
  OBVIOUS
<1>1. Inv /\ TargetOK
  BY InitInv DEF SidebarInit, TargetOK
<1>2. TabProofs!Init
  BY DEF SidebarInit, Tab!Init, TabProofs!Init, Tab!NothingTyped, TabProofs!NothingTyped
<1>3. TabProofs!TabInv
  BY <1>2, Distinct, TabProofs!TabStart
<1> QED BY <1>1, <1>3 DEF SidebarInv

LEMMA SidebarKeeps ==
  ASSUME SidebarInv, [SidebarNext]_sidebarVars
  PROVE  SidebarInv' /\ [TabProofs!Named]_TabProofs!vars
<1>1. Inv' /\ TargetOK'
  BY SidebarStep, NextInv, TargetStep DEF SidebarInv
<1>2. [TabProofs!Next]_TabProofs!vars
  BY SidebarTabStep DEF SidebarInv
<1>3. TabProofs!TabInv' /\ [TabProofs!Named]_TabProofs!vars
  BY <1>2, Distinct, TabProofs!TabStep DEF SidebarInv
<1> QED BY <1>1, <1>3 DEF SidebarInv

\* For any number of files, whatever is clicked in the list, the tabs and the
\* errors, the file of a rename or of an open menu is one of the window's files.
THEOREM TargetsStayThere == SidebarSpec => []TargetsAreThere
<1>1. SidebarInv => TargetsAreThere
  BY DEF SidebarInv, TargetsAreThere, TabProofs!TabInv, TabProofs!TargetsAreThere,
         Tab!TargetsAreThere
<1>2. SidebarInv /\ [SidebarNext]_sidebarVars => SidebarInv'
  BY SidebarKeeps
<1> QED BY <1>1, <1>2, SidebarStart, PTL DEF SidebarSpec

\* For any files and names, the names of the window's files change only to what
\* was typed for them.
THEOREM NamesAreAsTyped == SidebarSpec => NamedAsTyped
<1>1. SidebarInv /\ [SidebarNext]_sidebarVars => SidebarInv' /\ [TabProofs!Named]_TabProofs!vars
  BY SidebarKeeps
<1>2. SidebarSpec => [][TabProofs!Named]_TabProofs!vars
  BY <1>1, SidebarStart, PTL DEF SidebarSpec
<1>3. [][TabProofs!Named]_TabProofs!vars => NamedAsTyped
  BY DEF NamedAsTyped, Tab!NamedAsTyped, TabProofs!Named, Tab!vars, Tab!editing,
         TabProofs!vars, TabProofs!editing
<1> QED BY <1>2, <1>3
=============================================================================

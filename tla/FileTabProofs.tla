---------------------------- MODULE FileTabProofs ----------------------------
(* The file list, for any number of files and names.                           *)
EXTENDS FileTab, TLAPS

\* An open menu of the list, or of the files, excludes the inputs: whoever opens
\* it ends the editing, and whoever begins to edit closes it.
MenuExcludesInputs == menu # NoMenu => ~isCreatingNewFile /\ ~isRenamingFile

\* What the steps keep: the types, where the targets are, and that only a rename
\* has a file to be renamed.
TabInv ==
  /\ TypeOK
  /\ TargetsAreThere
  /\ MenuExcludesInputs
  /\ isRenamingFile <=> fileToBeRenamed # NoFile

\* What a step may do to a name.
Named ==
  \A f \in DOMAIN names' :
    IF f \in DOMAIN names
    THEN names'[f] # names[f] =>
           isRenamingFile /\ f = fileToBeRenamed /\ names'[f] = typed["rename"]
    ELSE IF isCreatingNewFile THEN names'[f] = typed["creation"] ELSE names = <<>>

LEMMA NothingTypedType == NothingTyped \in [{"creation", "rename"} -> Names \cup {Blank}]
BY DEF NothingTyped

LEMMA NoNames == DOMAIN <<>> = {} /\ <<>> \in [{} -> Names]
OBVIOUS

\* Ending the editing leaves neither input, keeps all files and names one of them
\* at most.
LEMMA FinishStep ==
  ASSUME TabInv, FinishEditingFile
  PROVE  /\ ~isCreatingNewFile' /\ ~isRenamingFile' /\ fileToBeRenamed' = NoFile
         /\ isCreatingNewFile' \in BOOLEAN /\ isRenamingFile' \in BOOLEAN
         /\ typed' \in [{"creation", "rename"} -> Names \cup {Blank}]
         /\ DOMAIN names \subseteq DOMAIN names'
         /\ DOMAIN names' \subseteq Files
         /\ names' \in [DOMAIN names' -> Names]
         /\ Named
<1>1. CASE ~isCreatingNewFile /\ ~isRenamingFile
  BY <1>1 DEF FinishEditingFile, editing, TabInv, TypeOK, Named
<1>2. CASE isCreatingNewFile \/ isRenamingFile
  <2> DEFINE name == typed[NewFileInput]
  <2>1. Inputs # {}
    BY <1>2 DEF Inputs, TabInv, TargetsAreThere
  <2>2. /\ \/ name = Blank /\ UNCHANGED names
           \/ /\ name # Blank
              /\ IF isCreatingNewFile THEN CreateFile(name) ELSE RenameFile(fileToBeRenamed, name)
        /\ isCreatingNewFile' = FALSE /\ isRenamingFile' = FALSE /\ fileToBeRenamed' = NoFile
        /\ typed' \in [{"creation", "rename"} -> Names \cup {Blank}]
    BY <1>2, <2>1, NothingTypedType DEF FinishEditingFile
  <2>3. name \in Names \cup {Blank}
    BY DEF NewFileInput, TabInv, TypeOK
  <2>4. CASE UNCHANGED names
    BY <2>2, <2>4 DEF TabInv, TypeOK, Named
  <2>5. CASE isCreatingNewFile /\ name # Blank /\ CreateFile(name)
    <3>1. name = typed["creation"] /\ name \in Names
      BY <2>3, <2>5 DEF NewFileInput, Inputs
    <3> HIDE DEF name
    <3>2. PICK f \in Files \ DOMAIN names :
            names' = [g \in DOMAIN names \cup {f} |-> IF g = f THEN name ELSE names[g]]
      BY <2>5 DEF CreateFile
    <3>3. \A g \in DOMAIN names : names'[g] = names[g] /\ names[g] \in Names
      BY <3>2 DEF TabInv, TypeOK
    <3> QED BY <2>2, <2>5, <3>1, <3>2, <3>3 DEF TabInv, TypeOK, Named
  <2>6. CASE ~isCreatingNewFile /\ name # Blank /\ RenameFile(fileToBeRenamed, name)
    <3>1. name = typed["rename"] /\ name \in Names
      BY <2>3, <2>6 DEF NewFileInput, Inputs
    <3> HIDE DEF name
    <3>2. names' = [names EXCEPT ![fileToBeRenamed] = name] /\ isRenamingFile
      BY <1>2, <2>6 DEF RenameFile
    <3> QED BY <2>2, <3>1, <3>2 DEF TabInv, TypeOK, Named
  <2> QED BY <2>2, <2>4, <2>5, <2>6
<1> QED BY <1>1, <1>2

LEMMA TabStep ==
  ASSUME FileTabAssumption, TabInv, [Next]_vars
  PROVE  TabInv' /\ [Named]_vars
<1> USE DEF FileTabAssumption
<1>1. ASSUME UNCHANGED names PROVE Named
  BY <1>1 DEF Named
<1>2. ASSUME BeginCreation
      PROVE  TabInv' /\ Named
  <2>1. TypeOK'
    BY <1>2 DEF BeginCreation, TabInv, TypeOK
  <2> QED BY <1>1, <1>2, <2>1 DEF BeginCreation, TabInv, TargetsAreThere, MenuExcludesInputs
<1>3. ASSUME FinishEditingFile,
             menu' = menu \/ menu' \in DOMAIN names \cup {"creation", NoMenu}
      PROVE  TabInv' /\ Named
  <2>1. TypeOK'
    BY <1>3, FinishStep DEF TabInv, TypeOK
  <2>2. TargetsAreThere'
    BY <1>3, FinishStep DEF TabInv, TargetsAreThere
  <2> QED BY <1>3, <2>1, <2>2, FinishStep DEF TabInv, MenuExcludesInputs
<1>4. ASSUME UNCHANGED <<names, editing>>, menu' \in {menu, NoMenu}, TypeOK'
      PROVE  TabInv' /\ Named
  BY <1>1, <1>4 DEF editing, TabInv, TargetsAreThere, MenuExcludesInputs
<1>5. ASSUME NEW target, Click(target)
      PROVE  TabInv' /\ Named
  BY <1>3, <1>4, <1>5 DEF Click, editing, TabInv, TypeOK
<1>6. ASSUME NEW item, OpenMenu(item)
      PROVE  TabInv' /\ Named
  BY <1>3, <1>6 DEF OpenMenu
<1>7. CASE CloseMenu
  BY <1>4, <1>7 DEF CloseMenu, editing, TabInv, TypeOK
<1>8. CASE ChooseRename
  <2>1. TypeOK'
    BY <1>8 DEF ChooseRename, TabInv, TypeOK
  <2> QED BY <1>1, <1>8, <2>1 DEF ChooseRename, TabInv, TargetsAreThere, MenuExcludesInputs
<1>9. CASE ChooseDelete
  <2>1. /\ names' = [f \in DOMAIN names \ {menu} |-> names[f]]
        /\ menu \in Files /\ menu' = NoMenu /\ UNCHANGED <<editing, typed>>
    BY <1>9 DEF ChooseDelete
  <2>2. ~isRenamingFile
    BY <2>1 DEF TabInv, MenuExcludesInputs
  <2>3. TypeOK'
    BY <2>1 DEF editing, TabInv, TypeOK
  <2>4. Named
    BY <2>1 DEF Named
  <2> QED BY <2>1, <2>2, <2>3, <2>4 DEF editing, TabInv, TargetsAreThere, MenuExcludesInputs
<1>10. ASSUME NEW input \in {"creation", "rename"}, NEW text \in Names \cup {Blank}, Type(input, text)
       PROVE  TabInv' /\ Named
  BY <1>4, <1>10 DEF Type, editing, TabInv, TypeOK
<1>11. CASE PressEnter
  BY <1>3, <1>11 DEF PressEnter
<1>12. CASE PageGoes
  <2>1. TypeOK'
    BY <1>12, NothingTypedType, NoNames DEF PageGoes, TypeOK
  <2> QED BY <1>12, <2>1, NoNames DEF PageGoes, Named, TabInv, TargetsAreThere, MenuExcludesInputs
<1>13. CASE PageLoads
  <2>1. /\ names = <<>> /\ ~isCreatingNewFile /\ UNCHANGED <<editing, typed, menu>>
        /\ DOMAIN names' \subseteq Files
        /\ names' \in [DOMAIN names' -> Names]
    BY <1>13 DEF PageLoads
  <2>2. ~isRenamingFile /\ menu \notin Files
    BY <2>1 DEF TabInv, TargetsAreThere
  <2>3. TypeOK'
    BY <2>1 DEF editing, TabInv, TypeOK
  <2>4. Named
    BY <2>1 DEF Named
  <2> QED BY <2>1, <2>2, <2>3, <2>4 DEF editing, TabInv, TargetsAreThere, MenuExcludesInputs
<1>14. CASE UNCHANGED vars
  BY <1>4, <1>14 DEF vars, editing, TabInv, TypeOK
<1> QED BY <1>2, <1>5, <1>6, <1>7, <1>8, <1>9, <1>10, <1>11, <1>12, <1>13, <1>14
        DEF Next, ClickNewFile, ChooseCreate

LEMMA TabStart == FileTabAssumption /\ Init => TabInv
BY NothingTypedType, NoNames
   DEF FileTabAssumption, Init, TabInv, TypeOK, TargetsAreThere, MenuExcludesInputs

\* For any files and names, the state keeps its types.
THEOREM TypeCorrect == FileTabAssumption => (Spec => []TypeOK)
<1> SUFFICES ASSUME FileTabAssumption PROVE Spec => []TypeOK
  OBVIOUS
<1>1. Init => TabInv
  BY TabStart
<1>2. TabInv /\ [Next]_vars => TabInv'
  BY TabStep
<1>3. TabInv => TypeOK
  BY DEF TabInv
<1> QED BY <1>1, <1>2, <1>3, PTL DEF Spec

\* For any number of files, what a rename or a menu is about has not been deleted,
\* although neither renameFile nor deleteFile would notice.
THEOREM TargetsStay == FileTabAssumption => (Spec => []TargetsAreThere)
<1> SUFFICES ASSUME FileTabAssumption PROVE Spec => []TargetsAreThere
  OBVIOUS
<1>1. Init => TabInv
  BY TabStart
<1>2. TabInv /\ [Next]_vars => TabInv'
  BY TabStep
<1>3. TabInv => TargetsAreThere
  BY DEF TabInv
<1> QED BY <1>1, <1>2, <1>3, PTL DEF Spec

\* For any files and names, two inputs of one id do not mix up what is typed.
THEOREM NamesGoWhereTyped == FileTabAssumption => (Spec => NamedAsTyped)
<1> SUFFICES ASSUME FileTabAssumption PROVE Spec => [][Named]_vars
  BY DEF NamedAsTyped, Named
<1>1. Init => TabInv
  BY TabStart
<1>2. TabInv /\ [Next]_vars => TabInv' /\ [Named]_vars
  BY TabStep
<1> QED BY <1>1, <1>2, PTL DEF Spec
=============================================================================

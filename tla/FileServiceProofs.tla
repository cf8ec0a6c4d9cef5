-------------------------- MODULE FileServiceProofs --------------------------
(* What FileService guarantees for any number of windows and files, any names  *)
(* and texts, and whichever writes to storage may throw.                       *)
EXTENDS FileService, TLAPS

FileTree == PartialFunctions(Ids, File)

-----------------------------------------------------------------------------
(* The operators on file trees.                                                *)

\* A file tree is a function from some identifiers to files.
LEMMA TreeIntro ==
  ASSUME NEW S, NEW T, NEW fs, DOMAIN fs \subseteq S,
         fs = [f \in DOMAIN fs |-> fs[f]], \A f \in DOMAIN fs : fs[f] \in T
  PROVE  fs \in PartialFunctions(S, T)
BY DEF PartialFunctions

LEMMA TreeElim ==
  ASSUME NEW S, NEW T, NEW fs \in PartialFunctions(S, T)
  PROVE  /\ DOMAIN fs \subseteq S
         /\ fs = [f \in DOMAIN fs |-> fs[f]]
         /\ \A f \in DOMAIN fs : fs[f] \in T
BY DEF PartialFunctions

\* A change event leaves a tree whose files and open files are the same.
LEMMA ContentChangedTree ==
  ASSUME NEW fs \in FileTree, NEW sel \in DOMAIN fs, NEW text \in Contents
  PROVE  /\ ContentChanged(fs, sel, text) \in FileTree
         /\ DOMAIN ContentChanged(fs, sel, text) = DOMAIN fs
         /\ OpenFiles(ContentChanged(fs, sel, text)) = OpenFiles(fs)
<1> DEFINE gs == ContentChanged(fs, sel, text)
<1>1. /\ DOMAIN fs \subseteq Ids
      /\ \A f \in DOMAIN fs : fs[f] \in File
  BY TreeElim DEF FileTree
<1>2. /\ DOMAIN gs = DOMAIN fs
      /\ gs = [f \in DOMAIN gs |-> gs[f]]
  BY DEF ContentChanged
<1>3. \A f \in DOMAIN gs : gs[f] \in File /\ gs[f].isOpen = fs[f].isOpen
  BY <1>1, <1>2 DEF ContentChanged, File
<1>4. gs \in FileTree
  BY <1>1, <1>2, <1>3, TreeIntro DEF FileTree
<1> QED BY <1>2, <1>3, <1>4 DEF OpenFiles

\* So does showing a file in the editor.
LEMMA DisplayedTree ==
  ASSUME NEW fs \in FileTree, NEW sel \in DOMAIN fs \cup {NoFile}, NEW old
  PROVE  /\ Displayed(fs, sel, old) \in FileTree
         /\ DOMAIN Displayed(fs, sel, old) = DOMAIN fs
         /\ OpenFiles(Displayed(fs, sel, old)) = OpenFiles(fs)
<1>1. CASE Displayed(fs, sel, old) = fs
  BY <1>1
<1>2. CASE /\ Displayed(fs, sel, old) = ContentChanged(fs, sel, fs[sel].temp)
           /\ sel \in DOMAIN fs
  <2>1. fs[sel] \in File
    BY <1>2, TreeElim DEF FileTree
  <2>2. fs[sel].temp \in Contents
    BY <2>1 DEF File
  <2> QED BY <1>2, <2>2, ContentChangedTree
<1> QED BY <1>1, <1>2 DEF Displayed

\* Opening a file makes it, and no other, open.
LEMMA OpenedTree ==
  ASSUME NEW fs \in FileTree, NEW f \in DOMAIN fs, NEW b \in BOOLEAN
  PROVE  LET gs == [fs EXCEPT ![f].isOpen = b]
         IN /\ gs \in FileTree
            /\ DOMAIN gs = DOMAIN fs
            /\ \A g \in DOMAIN fs : g # f => gs[g] = fs[g]
            /\ gs[f].isOpen = b
<1> DEFINE gs == [fs EXCEPT ![f].isOpen = b]
<1>1. /\ DOMAIN fs \subseteq Ids
      /\ \A g \in DOMAIN fs : fs[g] \in File
  BY TreeElim DEF FileTree
<1>2. /\ DOMAIN gs = DOMAIN fs
      /\ gs = [g \in DOMAIN gs |-> gs[g]]
      /\ \A g \in DOMAIN fs : g # f => gs[g] = fs[g]
  OBVIOUS
<1>3. gs[f] \in File /\ gs[f].isOpen = b
  BY <1>1 DEF File
<1>4. gs \in FileTree
  BY <1>1, <1>2, <1>3, TreeIntro DEF FileTree
<1> QED BY <1>2, <1>3, <1>4

\* Closing and deleting leave trees in which the other files are as they were.
LEMMA ClosedTree ==
  ASSUME NEW fs \in FileTree, NEW f
  PROVE  /\ Closed(fs, f) \in FileTree
         /\ DOMAIN Closed(fs, f) = DOMAIN fs
         /\ OpenFiles(Closed(fs, f)) = OpenFiles(fs) \ {f}
<1>1. CASE f \in DOMAIN fs
  BY <1>1, OpenedTree DEF Closed, OpenFiles
<1>2. CASE f \notin DOMAIN fs
  <2>1. Closed(fs, f) = fs
    BY <1>2, TreeElim DEF Closed, FileTree
  <2> QED BY <1>2, <2>1 DEF OpenFiles
<1> QED BY <1>1, <1>2

LEMMA WithoutTree ==
  ASSUME NEW fs \in FileTree, NEW f
  PROVE  /\ Without(fs, f) \in FileTree
         /\ DOMAIN Without(fs, f) = DOMAIN fs \ {f}
         /\ OpenFiles(Without(fs, f)) = OpenFiles(fs) \ {f}
<1> DEFINE gs == Without(fs, f)
<1>1. /\ DOMAIN fs \subseteq Ids
      /\ \A g \in DOMAIN fs : fs[g] \in File
  BY TreeElim DEF FileTree
<1>2. /\ DOMAIN gs = DOMAIN fs \ {f}
      /\ gs = [g \in DOMAIN gs |-> gs[g]]
      /\ \A g \in DOMAIN gs : gs[g] = fs[g]
  BY DEF Without, Restrict
<1>3. gs \in FileTree
  BY <1>1, <1>2, TreeIntro DEF FileTree
<1> QED BY <1>2, <1>3 DEF OpenFiles

\* The file that takes over the selection is open and is not the one leaving.
LEMMA FilesToSelectOpen ==
  ASSUME NEW fs, NEW f, NEW g \in FilesToSelect(fs, f)
  PROVE  g = NoFile \/ g \in OpenFiles(fs) \ {f}
BY DEF FilesToSelect, Lowest, Highest

\* What the constructors and toObject make of a tree.
LEMMA ObjectsOfTree ==
  ASSUME NEW fs \in FileTree
  PROVE  ObjectsOf(fs) \in PartialFunctions(Ids, FileObject)
<1> DEFINE os == ObjectsOf(fs)
<1>1. /\ DOMAIN fs \subseteq Ids
      /\ \A f \in DOMAIN fs : fs[f] \in File
  BY TreeElim DEF FileTree
<1>2. /\ DOMAIN os = DOMAIN fs
      /\ os = [f \in DOMAIN os |-> os[f]]
      /\ \A f \in DOMAIN os : os[f] = ObjectOf(fs[f])
  BY DEF ObjectsOf
<1>3. \A f \in DOMAIN os : os[f] \in FileObject
  BY <1>1, <1>2 DEF ObjectOf, File, FileObject
<1> QED BY <1>1, <1>2, <1>3, TreeIntro

LEMMA LoadedTree ==
  ASSUME storedFiles \in PartialFunctions(Ids, FileObject)
  PROVE  LoadedFiles \in FileTree
<1> DEFINE os == storedFiles
           fs == [f \in DOMAIN os |-> FileOf(os[f])]
<1>1. /\ DOMAIN os \subseteq Ids
      /\ \A f \in DOMAIN os : os[f] \in FileObject
  BY TreeElim
<1>2. \A f \in DOMAIN fs : fs[f] \in File
  BY <1>1 DEF FileOf, File, FileObject
<1> QED BY <1>1, <1>2, TreeIntro DEF FileTree, LoadedFiles

-----------------------------------------------------------------------------
(* The pieces of handlers.  Each is shown to keep the types of what it writes  *)
(* and the selection on an open file.                                          *)

Inv == TypeOK /\ SelectedIsOpen

\* The part of the invariant that the memory of the windows and the stored
\* selection carry.
MemoryOK ==
  /\ files \in [Windows -> FileTree]
  /\ selected \in [Windows -> Ids \cup {NoFile}]
  /\ editor \in [Windows -> Contents]
  /\ storedSelected \in Ids \cup {NoFile}
  /\ SelectedIsOpen

LEMMA InvMemory == Inv => MemoryOK
BY DEF Inv, TypeOK, MemoryOK, FileTree

\* A window whose files become fs, with s of fs selected.
LEMMA WindowStep ==
  ASSUME Inv, NEW w \in Windows, NEW fs \in FileTree,
         NEW s \in OpenFiles(fs) \cup {NoFile},
         files' = [files EXCEPT ![w] = fs],
         selected' = [selected EXCEPT ![w] = s],
         editor' \in [Windows -> Contents],
         storedSelected' \in Ids \cup {NoFile}
  PROVE  MemoryOK'
<1>1. /\ files \in [Windows -> FileTree]
      /\ selected \in [Windows -> Ids \cup {NoFile}]
      /\ SelectedIsOpen
  BY DEF Inv, TypeOK, FileTree
<1>2. s \in Ids \cup {NoFile}
  BY TreeElim DEF OpenFiles, FileTree
<1>3. /\ files' \in [Windows -> FileTree]
      /\ selected' \in [Windows -> Ids \cup {NoFile}]
  BY <1>1, <1>2
<1>4. SelectedIsOpen'
  BY <1>1 DEF SelectedIsOpen
<1> QED BY <1>3, <1>4 DEF MemoryOK

LEMMA SaveFileTreeStep ==
  ASSUME Inv, MemoryOK', NEW w \in Windows, NEW thrown, SaveFileTree(w, thrown)
  PROVE  storedFiles' \in PartialFunctions(Ids, FileObject)
<1>1. storedFiles \in PartialFunctions(Ids, FileObject)
  BY DEF Inv, TypeOK
<1>2. files'[w] \in FileTree
  BY DEF MemoryOK
<1>3. ObjectsOf(files'[w]) \in PartialFunctions(Ids, FileObject)
  BY <1>2, ObjectsOfTree
<1> QED BY <1>1, <1>3 DEF SaveFileTree

LEMMA ShowStep ==
  ASSUME Inv, NEW w \in Windows, NEW fs \in FileTree, NEW f \in OpenFiles(fs),
         NEW thrown, Show(w, fs, f, thrown)
  PROVE  MemoryOK'
<1>1. /\ selected' = [selected EXCEPT ![w] = f]
      /\ storedSelected' \in {storedSelected, f}
      /\ editor' \in {editor, [editor EXCEPT ![w] = fs[f].temp]}
  BY DEF Show, SwitchTo
<1>2. f \in Ids /\ f \in DOMAIN fs /\ fs[f] \in File
  BY TreeElim DEF OpenFiles, FileTree
<1>3. fs[f].temp \in Contents
  BY <1>2 DEF File
<1>4. /\ editor' \in [Windows -> Contents]
      /\ storedSelected' \in Ids \cup {NoFile}
  BY <1>1, <1>2, <1>3 DEF Inv, TypeOK
<1>5. PICK gs \in {fs, Displayed(fs, f, editor[w])} : files' = [files EXCEPT ![w] = gs]
  BY DEF Show
<1>6. gs \in FileTree /\ f \in OpenFiles(gs)
  BY <1>2, <1>5, DisplayedTree
<1> QED BY <1>1, <1>4, <1>5, <1>6, WindowStep

LEMMA OpenStep ==
  ASSUME Inv, NEW w \in Windows, NEW fs \in FileTree, NEW f \in DOMAIN fs,
         NEW thrown, Open(w, fs, f, thrown)
  PROVE  MemoryOK' /\ storedFiles' \in PartialFunctions(Ids, FileObject)
<1> DEFINE gs == [fs EXCEPT ![f].isOpen = TRUE]
<1>1. gs \in FileTree /\ f \in OpenFiles(gs)
  BY OpenedTree DEF OpenFiles
<1>2. Show(w, gs, f, thrown) /\ SaveFileTree(w, thrown)
  BY DEF Open
<1>3. MemoryOK'
  BY <1>1, <1>2, ShowStep
<1> QED BY <1>2, <1>3, SaveFileTreeStep

\* `rest` is what closing or deleting f leaves.
LEMMA LeaveStep ==
  ASSUME Inv, NEW w \in Windows, NEW f, NEW rest \in FileTree,
         DOMAIN files[w] \ {f} \subseteq DOMAIN rest,
         OpenFiles(rest) = OpenFiles(files[w]) \ {f},
         NEW thrown, Leave(w, f, rest, thrown)
  PROVE  MemoryOK' /\ storedFiles' \in PartialFunctions(Ids, FileObject)
<1>1. /\ files \in [Windows -> FileTree]
      /\ selected \in [Windows -> Ids \cup {NoFile}]
      /\ editor \in [Windows -> Contents]
      /\ storedSelected \in Ids \cup {NoFile}
      /\ selected[w] \in OpenFiles(files[w]) \cup {NoFile}
      /\ Empty \in Contents
  BY ConstantsAssumption DEF Inv, TypeOK, FileTree, SelectedIsOpen
<1>2. ASSUME f # selected[w], files' = [files EXCEPT ![w] = rest],
             UNCHANGED <<selected, storedSelected, editor>>
      PROVE  MemoryOK'
  <2>1. selected[w] \in OpenFiles(rest) \cup {NoFile}
    BY <1>1, <1>2
  <2>2. selected' = [selected EXCEPT ![w] = selected[w]]
    BY <1>1, <1>2
  <2> QED BY <1>1, <1>2, <2>1, <2>2, WindowStep
<1>3. ASSUME f = selected[w], NEW g \in FilesToSelect(files[w], f),
             SwitchTo(w, g, IF g = NoFile THEN Empty ELSE files[w][g].temp, thrown),
             files' = IF thrown = "selected" THEN files
                      ELSE [files EXCEPT ![w] = Displayed(rest, g, editor[w])]
      PROVE  MemoryOK'
  <2>1. g = NoFile \/ g \in OpenFiles(files[w]) \ {f}
    BY <1>3, FilesToSelectOpen
  <2>2. g \in Ids \cup {NoFile} /\ (g # NoFile => files[w][g] \in File)
    BY <1>1, <2>1, TreeElim DEF OpenFiles, FileTree
  <2>3. (IF g = NoFile THEN Empty ELSE files[w][g].temp) \in Contents
    BY <1>1, <2>2 DEF File
  <2>4. /\ selected' = [selected EXCEPT ![w] = g]
        /\ editor' \in [Windows -> Contents]
        /\ storedSelected' \in Ids \cup {NoFile}
    BY <1>1, <1>3, <2>2, <2>3 DEF SwitchTo
  <2>5. PICK gs \in {files[w], Displayed(rest, g, editor[w])} :
          files' = [files EXCEPT ![w] = gs]
    BY <1>1, <1>3
  <2>6. g \in DOMAIN rest \cup {NoFile}
    BY <2>1 DEF OpenFiles
  <2>7. gs \in FileTree /\ g \in OpenFiles(gs) \cup {NoFile}
    <3>1. CASE gs = files[w]
      BY <1>1, <2>1, <3>1
    <3>2. CASE gs = Displayed(rest, g, editor[w])
      BY <2>1, <2>6, <3>2, DisplayedTree
    <3> QED BY <2>5, <3>1, <3>2
  <2> QED BY <2>4, <2>5, <2>7, WindowStep
<1>4. MemoryOK'
  BY <1>2, <1>3 DEF Leave
<1> QED BY <1>4, SaveFileTreeStep DEF Leave

-----------------------------------------------------------------------------
(* The handlers.                                                               *)

\* The empty list of files.
LEMMA NoTree == <<>> \in FileTree /\ <<>> \in PartialFunctions(Ids, FileObject)
BY DEF FileTree, PartialFunctions

LEMMA InitInv == Init => Inv
<1> SUFFICES ASSUME Init PROVE Inv
  OBVIOUS
<1>1. TypeOK
  BY NoTree, ConstantsAssumption DEF Init, TypeOK, FileTree
<1>2. SelectedIsOpen
  BY DEF Init, SelectedIsOpen
<1> QED BY <1>1, <1>2 DEF Inv

\* Every step of the system keeps the invariant: one step per handler.
LEMMA NextInv == Inv /\ [Next]_vars => Inv'
<1> SUFFICES ASSUME Inv, [Next]_vars PROVE Inv'
  OBVIOUS
<1>0. /\ MemoryOK
      /\ files \in [Windows -> FileTree]
      /\ selected \in [Windows -> Ids \cup {NoFile}]
      /\ editor \in [Windows -> Contents]
      /\ status \in [Windows -> {"closed", "ready", "broken"}]
      /\ closing \in [Windows -> SUBSET Ids]
      /\ storedFiles \in PartialFunctions(Ids, FileObject)
      /\ storedSelected \in Ids \cup {NoFile}
      /\ NoFile \notin Ids /\ Empty \in Contents
  BY InvMemory, ConstantsAssumption DEF MemoryOK, Inv, TypeOK
<1> DEFINE StorageOK == storedFiles \in PartialFunctions(Ids, FileObject)
           LifeOK == /\ status \in [Windows -> {"closed", "ready", "broken"}]
                     /\ closing \in [Windows -> SUBSET Ids]
<1>1. SUFFICES MemoryOK' /\ StorageOK' /\ LifeOK'
  BY DEF MemoryOK, Inv, TypeOK, FileTree
<1>2. CASE UNCHANGED vars
  BY <1>0, <1>2 DEF vars, memory, storage, MemoryOK, SelectedIsOpen
<1>3. ASSUME NEW w \in Windows, NEW thrown \in Outcomes, StartUp(w, thrown)
      PROVE  MemoryOK' /\ StorageOK' /\ LifeOK'
  <2>1. LoadedFiles \in FileTree
    BY <1>0, LoadedTree
  <2>2. LifeOK'
    BY <1>0, <1>3 DEF StartUp
  <2>3. CASE /\ files' = [files EXCEPT ![w] = LoadedFiles]
             /\ selected' = [selected EXCEPT ![w] = NoFile]
             /\ UNCHANGED <<editor, storage>>
    BY <1>0, <2>1, <2>2, <2>3, WindowStep DEF storage
  <2>4. CASE /\ storedSelected \in OpenFiles(LoadedFiles)
             /\ Show(w, LoadedFiles, storedSelected, thrown)
             /\ UNCHANGED storedFiles
    BY <1>0, <2>1, <2>2, <2>4, ShowStep
  <2>5. CASE /\ storedSelected \in DOMAIN LoadedFiles
             /\ Open(w, LoadedFiles, storedSelected, thrown)
    BY <1>0, <2>1, <2>2, <2>5, OpenStep
  <2> QED BY <1>3, <2>3, <2>4, <2>5 DEF StartUp, OpenFiles
<1>4. ASSUME NEW w \in Windows, CloseAll(w)
      PROVE  MemoryOK' /\ StorageOK' /\ LifeOK'
  <2>1. files[w] \in FileTree
    BY <1>0
  <2>2. OpenFiles(files[w]) \subseteq Ids
    BY <2>1, TreeElim DEF OpenFiles, FileTree
  <2>3. LifeOK'
    BY <1>0, <1>4, <2>2 DEF CloseAll
  <2> QED BY <1>0, <1>4, <2>3 DEF CloseAll, storage, MemoryOK, SelectedIsOpen
<1>5. ASSUME NEW w \in Windows, Exit(w)
      PROVE  MemoryOK' /\ StorageOK' /\ LifeOK'
  <2>1. /\ files' = [files EXCEPT ![w] = <<>>]
        /\ selected' = [selected EXCEPT ![w] = NoFile]
        /\ editor' = [editor EXCEPT ![w] = Empty]
        /\ UNCHANGED storage
    BY <1>5 DEF Exit
  <2>2. MemoryOK'
    BY <1>0, <2>1, NoTree, WindowStep DEF storage
  <2> QED BY <1>0, <1>5, <2>2 DEF Exit, storage
<1>6. ASSUME NEW w \in Windows, NEW text \in Contents, EditText(w, text)
      PROVE  MemoryOK' /\ StorageOK' /\ LifeOK'
  <2> DEFINE fs == ContentChanged(files[w], selected[w], text)
  <2>1. /\ selected[w] \in OpenFiles(files[w])
        /\ selected[w] \in DOMAIN files[w]
        /\ files[w] \in FileTree
    BY <1>0, <1>6 DEF EditText, MemoryOK, SelectedIsOpen, OpenFiles
  <2>2. fs \in FileTree /\ selected[w] \in OpenFiles(fs)
    BY <2>1, ContentChangedTree
  <2>3. /\ files' = [files EXCEPT ![w] = fs]
        /\ editor' = [editor EXCEPT ![w] = text]
        /\ UNCHANGED <<selected, status, closing, storage>>
    BY <1>0, <1>6 DEF EditText
  <2>4. selected' = [selected EXCEPT ![w] = selected[w]]
    BY <1>0, <2>3
  <2>5. MemoryOK'
    BY <1>0, <2>2, <2>3, <2>4, WindowStep DEF storage
  <2> QED BY <1>0, <2>3, <2>5 DEF storage
<1>7. ASSUME NEW w \in Windows, NEW thrown \in Outcomes, CloseNext(w, thrown)
      PROVE  MemoryOK' /\ StorageOK' /\ LifeOK'
  <2>1. PICK f \in Lowest(files[w], closing[w]) :
          /\ Leave(w, f, Closed(files[w], f), thrown)
          /\ closing' = [closing EXCEPT ![w] = IF thrown = "none" THEN @ \ {f} ELSE {}]
    BY <1>7 DEF CloseNext
  <2>2. files[w] \in FileTree
    BY <1>0
  <2>3. MemoryOK' /\ StorageOK'
    BY <1>0, <2>1, <2>2, ClosedTree, LeaveStep
  <2> QED BY <1>0, <1>7, <2>1, <2>3 DEF CloseNext
<1>8. ASSUME NEW w \in Windows, NEW thrown \in Outcomes, SaveFile(w, thrown)
      PROVE  MemoryOK' /\ StorageOK' /\ LifeOK'
  <2> DEFINE fs == [files[w] EXCEPT ![selected[w]].content = editor[w],
                                    ![selected[w]].isSaved = TRUE]
  <2>1. /\ selected[w] \in OpenFiles(files[w])
        /\ selected[w] \in DOMAIN files[w]
        /\ files[w] \in FileTree
        /\ editor[w] \in Contents
    BY <1>0, <1>8 DEF SaveFile, MemoryOK, SelectedIsOpen, OpenFiles
  <2>2. fs \in FileTree /\ OpenFiles(fs) = OpenFiles(files[w])
    <3>1. /\ DOMAIN files[w] \subseteq Ids
          /\ \A g \in DOMAIN files[w] : files[w][g] \in File
      BY <2>1, TreeElim DEF FileTree
    <3>2. DOMAIN fs = DOMAIN files[w] /\ fs = [g \in DOMAIN fs |-> fs[g]]
      OBVIOUS
    <3>3. \A g \in DOMAIN fs : fs[g] \in File /\ fs[g].isOpen = files[w][g].isOpen
      BY <2>1, <3>1 DEF File
    <3>4. fs \in FileTree
      BY <3>1, <3>2, <3>3, TreeIntro DEF FileTree
    <3> QED BY <3>2, <3>3, <3>4 DEF OpenFiles
  <2>3. /\ files' = [files EXCEPT ![w] = fs]
        /\ SaveFileTree(w, thrown)
        /\ UNCHANGED <<selected, editor, status, closing, storedSelected>>
    BY <1>0, <1>8 DEF SaveFile
  <2>4. selected' = [selected EXCEPT ![w] = selected[w]]
    BY <1>0, <2>3
  <2>5. MemoryOK'
    BY <1>0, <2>1, <2>2, <2>3, <2>4, WindowStep
  <2>6. StorageOK'
    BY <2>3, <2>5, SaveFileTreeStep
  <2> QED BY <1>0, <2>3, <2>5, <2>6
<1>9. ASSUME NEW w \in Windows, NEW thrown \in Outcomes, NEW f \in Ids, SelectFile(w, f, thrown)
      PROVE  MemoryOK' /\ StorageOK' /\ LifeOK'
  BY <1>0, <1>9, ShowStep DEF SelectFile
<1>10. ASSUME NEW w \in Windows, NEW thrown \in Outcomes, NEW f \in Ids, OpenFile(w, f, thrown)
      PROVE  MemoryOK' /\ StorageOK' /\ LifeOK'
  BY <1>0, <1>10, OpenStep DEF OpenFile
<1>11. ASSUME NEW w \in Windows, NEW thrown \in Outcomes, NEW f \in Ids, CloseFile(w, f, thrown)
      PROVE  MemoryOK' /\ StorageOK' /\ LifeOK'
  BY <1>0, <1>11, ClosedTree, LeaveStep DEF CloseFile
<1>12. ASSUME NEW w \in Windows, NEW thrown \in Outcomes, NEW f \in Ids, DeleteFile(w, f, thrown)
      PROVE  MemoryOK' /\ StorageOK' /\ LifeOK'
  BY <1>0, <1>12, WithoutTree, LeaveStep DEF DeleteFile
<1>13. ASSUME NEW w \in Windows, NEW thrown \in Outcomes, NEW f \in Ids, NEW name \in Names,
              CreateFile(w, f, name, thrown)
      PROVE  MemoryOK' /\ StorageOK' /\ LifeOK'
  <2> DEFINE new == FileOf([name |-> name, content |-> Empty, isOpen |-> FALSE])
             fs == [g \in DOMAIN files[w] \cup {f} |-> IF g = f THEN new ELSE files[w][g]]
  <2>1. new \in File
    BY <1>0 DEF FileOf, File
  <2>2. /\ DOMAIN files[w] \subseteq Ids
        /\ \A g \in DOMAIN files[w] : files[w][g] \in File
    BY <1>0, TreeElim DEF FileTree
  <2>3. \A g \in DOMAIN fs : fs[g] \in File
    BY <2>1, <2>2
  <2>4. fs \in FileTree
    BY <2>2, <2>3, TreeIntro DEF FileTree
  <2>5. Open(w, fs, f, thrown) /\ UNCHANGED <<status, closing>>
    BY <1>13 DEF CreateFile
  <2> QED BY <1>0, <2>4, <2>5, OpenStep
<1>14. ASSUME NEW w \in Windows, NEW thrown \in Outcomes, NEW f \in Ids, NEW name \in Names,
              RenameFile(w, f, name, thrown)
      PROVE  MemoryOK' /\ StorageOK' /\ LifeOK'
  <2> DEFINE fs == [files[w] EXCEPT ![f].name = name]
  <2>1. f \in DOMAIN files[w] /\ files[w] \in FileTree
    BY <1>0, <1>14 DEF RenameFile
  <2>2. fs \in FileTree /\ OpenFiles(fs) = OpenFiles(files[w])
    <3>1. /\ DOMAIN files[w] \subseteq Ids
          /\ \A g \in DOMAIN files[w] : files[w][g] \in File
      BY <2>1, TreeElim DEF FileTree
    <3>2. DOMAIN fs = DOMAIN files[w] /\ fs = [g \in DOMAIN fs |-> fs[g]]
      OBVIOUS
    <3>3. \A g \in DOMAIN fs : fs[g] \in File /\ fs[g].isOpen = files[w][g].isOpen
      BY <2>1, <3>1 DEF File
    <3>4. fs \in FileTree
      BY <3>1, <3>2, <3>3, TreeIntro DEF FileTree
    <3> QED BY <3>2, <3>3, <3>4 DEF OpenFiles
  <2>3. /\ files' = [files EXCEPT ![w] = fs]
        /\ SaveFileTree(w, thrown)
        /\ UNCHANGED <<selected, editor, status, closing, storedSelected>>
    BY <1>0, <1>14 DEF RenameFile
  <2>4. /\ selected' = [selected EXCEPT ![w] = selected[w]]
        /\ selected[w] \in OpenFiles(files[w]) \cup {NoFile}
    BY <1>0, <2>3 DEF MemoryOK, SelectedIsOpen
  <2>5. MemoryOK'
    BY <1>0, <2>2, <2>3, <2>4, WindowStep
  <2>6. StorageOK'
    BY <2>3, <2>5, SaveFileTreeStep
  <2> QED BY <1>0, <2>3, <2>5, <2>6
<1>15. ASSUME NEW w \in Windows, NEW thrown \in Outcomes, NEW f \in Ids, GotoError(w, f, thrown)
      PROVE  MemoryOK' /\ StorageOK' /\ LifeOK'
  <2>1. CASE files[w][f].isOpen
    BY <1>0, <1>15, <2>1, ShowStep DEF GotoError, OpenFiles
  <2>2. CASE ~files[w][f].isOpen
    BY <1>0, <1>15, <2>2, OpenStep DEF GotoError
  <2> QED BY <2>1, <2>2
<1>16. CASE Next
  BY <1>3, <1>4, <1>5, <1>6, <1>7, <1>8, <1>9, <1>10, <1>11, <1>12, <1>13, <1>14, <1>15,
     <1>16 DEF Next
<1> QED BY <1>2, <1>16

-----------------------------------------------------------------------------
\* Type correctness of the specification.
THEOREM TypeCorrect == Spec => []TypeOK
<1>1. Inv => TypeOK
  BY DEF Inv
<1> QED BY InitInv, NextInv, <1>1, PTL DEF Spec

\* In every window, at every moment, the selected file exists and has a tab:
\* whatever is deleted, closed or restored from storage another window wrote,
\* and whichever write to storage throws in the middle of a handler.
THEOREM SelectedIsAlwaysOpen == Spec => []SelectedIsOpen
<1>1. Inv => SelectedIsOpen
  BY DEF Inv
<1> QED BY InitInv, NextInv, <1>1, PTL DEF Spec

-----------------------------------------------------------------------------
(* The editor and the selected file.  Here storing the selection does not      *)
(* throw; storing the tree may.                                                *)

\* The unsaved marks of a tree tell the truth.
Truthful(fs) == \A f \in DOMAIN fs : fs[f].isSaved <=> fs[f].temp = fs[f].content

Sync == EditorShowsSelected /\ SavedFlagTruthful

LEMMA ContentChangedTruth ==
  ASSUME NEW fs \in FileTree, Truthful(fs), NEW sel \in DOMAIN fs, NEW text \in Contents
  PROVE  /\ Truthful(ContentChanged(fs, sel, text))
         /\ ContentChanged(fs, sel, text)[sel].temp = text
<1> DEFINE gs == ContentChanged(fs, sel, text)
<1>1. \A f \in DOMAIN fs : fs[f] \in File
  BY TreeElim DEF FileTree
<1>2. DOMAIN gs = DOMAIN fs
  BY DEF ContentChanged
<1>3. \A f \in DOMAIN fs : f # sel => gs[f] = fs[f]
  BY DEF ContentChanged
<1>4. /\ gs[sel].temp = text
      /\ gs[sel].content = fs[sel].content
      /\ gs[sel].isSaved = (text = fs[sel].content)
  BY <1>1 DEF ContentChanged, File
<1> HIDE DEF gs
<1> QED BY <1>2, <1>3, <1>4 DEF Truthful, gs

LEMMA DisplayedTruth ==
  ASSUME NEW fs \in FileTree, Truthful(fs), NEW sel \in DOMAIN fs \cup {NoFile}, NEW old
  PROVE  /\ Truthful(Displayed(fs, sel, old))
         /\ sel \in DOMAIN fs => Displayed(fs, sel, old)[sel].temp = fs[sel].temp
<1>1. CASE Displayed(fs, sel, old) = fs
  BY <1>1
<1>2. CASE /\ Displayed(fs, sel, old) = ContentChanged(fs, sel, fs[sel].temp)
           /\ sel \in DOMAIN fs
  <2>1. fs[sel] \in File
    BY <1>2, TreeElim DEF FileTree
  <2>2. fs[sel].temp \in Contents
    BY <2>1 DEF File
  <2> QED BY <1>2, <2>2, ContentChangedTruth
<1> QED BY <1>1, <1>2 DEF Displayed

\* A window whose files become fs, with s of fs selected and its text shown.
LEMMA SyncStep ==
  ASSUME Inv, Sync, NEW w \in Windows, NEW fs, Truthful(fs), NEW s, NEW e,
         files' = [files EXCEPT ![w] = fs],
         selected' = [selected EXCEPT ![w] = s],
         editor' = [editor EXCEPT ![w] = e],
         s \in DOMAIN fs => e = fs[s].temp
  PROVE  Sync'
<1>1. /\ files \in [Windows -> FileTree]
      /\ selected \in [Windows -> Ids \cup {NoFile}]
      /\ editor \in [Windows -> Contents]
  BY DEF Inv, TypeOK, FileTree
<1>2. EditorShowsSelected'
  BY <1>1 DEF EditorShowsSelected, Sync
<1>3. SavedFlagTruthful'
  <2> SUFFICES ASSUME NEW v \in Windows PROVE Truthful(files'[v])
    BY DEF SavedFlagTruthful, Truthful
  <2>1. Truthful(files[v])
    BY DEF SavedFlagTruthful, Truthful, Sync
  <2> QED BY <1>1, <2>1
<1> QED BY <1>2, <1>3 DEF Sync

LEMMA ShowSync ==
  ASSUME Inv, Sync, NEW w \in Windows, NEW fs \in FileTree, Truthful(fs),
         NEW f \in OpenFiles(fs), NEW thrown, thrown # "selected", Show(w, fs, f, thrown)
  PROVE  Sync'
<1>1. f \in DOMAIN fs /\ f # NoFile
  BY TreeElim, ConstantsAssumption DEF OpenFiles, FileTree
<1>2. /\ selected' = [selected EXCEPT ![w] = f]
      /\ editor' = [editor EXCEPT ![w] = fs[f].temp]
      /\ files' = [files EXCEPT ![w] = Displayed(fs, f, editor[w])]
  BY <1>1 DEF Show, SwitchTo
<1>3. /\ Truthful(Displayed(fs, f, editor[w]))
      /\ Displayed(fs, f, editor[w])[f].temp = fs[f].temp
  BY <1>1, DisplayedTruth
<1> QED BY <1>2, <1>3, SyncStep

LEMMA OpenSync ==
  ASSUME Inv, Sync, NEW w \in Windows, NEW fs \in FileTree, Truthful(fs),
         NEW f \in DOMAIN fs, NEW thrown, thrown # "selected", Open(w, fs, f, thrown)
  PROVE  Sync'
<1> DEFINE gs == [fs EXCEPT ![f].isOpen = TRUE]
<1>1. gs \in FileTree /\ f \in OpenFiles(gs)
  BY OpenedTree DEF OpenFiles
<1>2. Truthful(gs)
  <2>1. \A g \in DOMAIN fs : fs[g] \in File
    BY TreeElim DEF FileTree
  <2>2. \A g \in DOMAIN fs : /\ gs[g].temp = fs[g].temp
                             /\ gs[g].content = fs[g].content
                             /\ gs[g].isSaved = fs[g].isSaved
    BY <2>1 DEF File
  <2>3. DOMAIN gs = DOMAIN fs
    OBVIOUS
  <2> QED BY <2>2, <2>3 DEF Truthful
<1> QED BY <1>1, <1>2, ShowSync DEF Open

LEMMA LeaveSync ==
  ASSUME Inv, Sync, NEW w \in Windows, NEW f, NEW rest \in FileTree, Truthful(rest),
         DOMAIN files[w] \ {f} \subseteq DOMAIN rest,
         \A g \in DOMAIN rest : rest[g].temp = files[w][g].temp,
         OpenFiles(rest) = OpenFiles(files[w]) \ {f},
         NEW thrown, thrown # "selected", Leave(w, f, rest, thrown)
  PROVE  Sync'
<1>1. /\ files \in [Windows -> FileTree]
      /\ selected \in [Windows -> Ids \cup {NoFile}]
      /\ editor \in [Windows -> Contents]
      /\ selected[w] \in OpenFiles(files[w]) \cup {NoFile}
      /\ DOMAIN rest \subseteq Ids
      /\ NoFile \notin Ids
  BY TreeElim, ConstantsAssumption DEF Inv, TypeOK, FileTree, SelectedIsOpen
<1>2. ASSUME f # selected[w], files' = [files EXCEPT ![w] = rest],
             UNCHANGED <<selected, storedSelected, editor>>
      PROVE  Sync'
  <2>1. /\ files' = [files EXCEPT ![w] = rest]
        /\ selected' = [selected EXCEPT ![w] = selected[w]]
        /\ editor' = [editor EXCEPT ![w] = editor[w]]
    BY <1>1, <1>2
  <2>2. selected[w] \in DOMAIN rest => editor[w] = rest[selected[w]].temp
    BY <1>1 DEF Sync, EditorShowsSelected, OpenFiles
  <2> QED BY <2>1, <2>2, SyncStep
<1>3. ASSUME f = selected[w], NEW g \in FilesToSelect(files[w], f),
             SwitchTo(w, g, IF g = NoFile THEN Empty ELSE files[w][g].temp, thrown),
             files' = [files EXCEPT ![w] = Displayed(rest, g, editor[w])]
      PROVE  Sync'
  <2> DEFINE gs == Displayed(rest, g, editor[w])
  <2>1. g = NoFile \/ g \in OpenFiles(rest)
    BY FilesToSelectOpen
  <2>2. g \in DOMAIN rest \cup {NoFile}
    BY <2>1 DEF OpenFiles
  <2>3. /\ Truthful(gs)
        /\ DOMAIN gs = DOMAIN rest
        /\ g \in DOMAIN rest => gs[g].temp = rest[g].temp
    BY <2>2, DisplayedTruth, DisplayedTree
  <2>4. selected' = [selected EXCEPT ![w] = g]
    BY <1>3 DEF SwitchTo
  <2>5. CASE g = NoFile
    <3>1. editor' = [editor EXCEPT ![w] = editor[w]]
      BY <1>1, <1>3, <2>5 DEF SwitchTo
    <3>2. g \notin DOMAIN gs
      BY <1>1, <2>3, <2>5
    <3> HIDE DEF gs
    <3> QED BY <1>3, <2>3, <2>4, <3>1, <3>2, SyncStep DEF gs
  <2>6. CASE g # NoFile
    <3>1. editor' = [editor EXCEPT ![w] = files[w][g].temp]
      BY <1>3, <2>6 DEF SwitchTo
    <3>2. gs[g].temp = files[w][g].temp
      BY <2>2, <2>3, <2>6
    <3> HIDE DEF gs
    <3> QED BY <1>3, <2>3, <2>4, <3>1, <3>2, SyncStep DEF gs
  <2> QED BY <2>5, <2>6
<1> QED BY <1>2, <1>3 DEF Leave

\* The unsaved marks of what closing and deleting leave are those there were.
LEMMA ClosedTruth ==
  ASSUME NEW fs \in FileTree, Truthful(fs), NEW f
  PROVE  /\ Truthful(Closed(fs, f))
         /\ \A g \in DOMAIN Closed(fs, f) : Closed(fs, f)[g].temp = fs[g].temp
<1> DEFINE gs == Closed(fs, f)
<1>1. \A g \in DOMAIN fs : fs[g] \in File
  BY TreeElim DEF FileTree
<1>2. /\ DOMAIN gs = DOMAIN fs
      /\ \A g \in DOMAIN fs : /\ gs[g].temp = fs[g].temp
                              /\ gs[g].content = fs[g].content
                              /\ gs[g].isSaved = fs[g].isSaved
  BY <1>1 DEF Closed, File
<1> QED BY <1>2 DEF Truthful

LEMMA WithoutTruth ==
  ASSUME NEW fs \in FileTree, Truthful(fs), NEW f
  PROVE  /\ Truthful(Without(fs, f))
         /\ \A g \in DOMAIN Without(fs, f) : Without(fs, f)[g].temp = fs[g].temp
<1>1. /\ DOMAIN Without(fs, f) = DOMAIN fs \ {f}
      /\ \A g \in DOMAIN Without(fs, f) : Without(fs, f)[g] = fs[g]
  BY DEF Without, Restrict
<1> QED BY <1>1 DEF Truthful

LEMMA NextSync ==
  ASSUME "selected" \notin MayThrow, Inv, Sync, [Next]_vars
  PROVE  Sync'
<1>0. /\ files \in [Windows -> FileTree]
      /\ selected \in [Windows -> Ids \cup {NoFile}]
      /\ editor \in [Windows -> Contents]
      /\ storedFiles \in PartialFunctions(Ids, FileObject)
      /\ \A w \in Windows : Truthful(files[w])
      /\ \A thrown \in Outcomes : thrown # "selected"
      /\ NoFile \notin Ids /\ Empty \in Contents
  BY ConstantsAssumption DEF Inv, TypeOK, FileTree, Sync, SavedFlagTruthful, Truthful, Outcomes
<1>1. ASSUME UNCHANGED <<files, selected, editor>> PROVE Sync'
  BY <1>1 DEF Sync, EditorShowsSelected, SavedFlagTruthful
<1>2. ASSUME NEW w \in Windows, NEW thrown \in Outcomes, StartUp(w, thrown) PROVE Sync'
  <2>1. /\ LoadedFiles \in FileTree
        /\ Truthful(LoadedFiles)
        /\ thrown # "selected"
    BY <1>0, LoadedTree DEF LoadedFiles, Truthful, FileOf
  <2>2. CASE /\ files' = [files EXCEPT ![w] = LoadedFiles]
             /\ selected' = [selected EXCEPT ![w] = NoFile]
             /\ UNCHANGED editor
    <3>1. NoFile \notin DOMAIN LoadedFiles
      BY <1>0, <2>1, TreeElim DEF FileTree
    <3>2. editor' = [editor EXCEPT ![w] = editor[w]]
      BY <1>0, <2>2
    <3> QED BY <2>1, <2>2, <3>1, <3>2, SyncStep
  <2>3. CASE /\ storedSelected \in OpenFiles(LoadedFiles)
             /\ Show(w, LoadedFiles, storedSelected, thrown)
    BY <2>1, <2>3, ShowSync
  <2>4. CASE /\ storedSelected \in DOMAIN LoadedFiles
             /\ Open(w, LoadedFiles, storedSelected, thrown)
    BY <2>1, <2>4, OpenSync
  <2> QED BY <1>2, <2>2, <2>3, <2>4 DEF StartUp, OpenFiles
<1>3. ASSUME NEW w \in Windows, Exit(w) PROVE Sync'
  <2>1. /\ files' = [files EXCEPT ![w] = <<>>]
        /\ selected' = [selected EXCEPT ![w] = NoFile]
        /\ editor' = [editor EXCEPT ![w] = Empty]
    BY <1>3 DEF Exit
  <2>2. Truthful(<<>>) /\ NoFile \notin DOMAIN <<>>
    BY DEF Truthful
  <2> QED BY <2>1, <2>2, SyncStep
<1>4. ASSUME NEW w \in Windows, NEW text \in Contents, EditText(w, text) PROVE Sync'
  <2> DEFINE fs == ContentChanged(files[w], selected[w], text)
  <2>1. /\ files' = [files EXCEPT ![w] = fs]
        /\ selected' = [selected EXCEPT ![w] = selected[w]]
        /\ editor' = [editor EXCEPT ![w] = text]
        /\ selected[w] # NoFile
    BY <1>0, <1>4 DEF EditText
  <2>2. files[w] \in FileTree /\ Truthful(files[w]) /\ selected[w] \in DOMAIN files[w]
    BY <1>0, <2>1 DEF Inv, SelectedIsOpen, OpenFiles
  <2>3. Truthful(fs) /\ fs[selected[w]].temp = text
    BY <2>2, ContentChangedTruth
  <2> HIDE DEF fs
  <2> QED BY <2>1, <2>3, SyncStep
<1>5. ASSUME NEW w \in Windows, NEW thrown \in Outcomes, NEW f,
             Leave(w, f, Closed(files[w], f), thrown)
      PROVE  Sync'
  BY <1>0, <1>5, ClosedTree, ClosedTruth, LeaveSync
<1>6. ASSUME NEW w \in Windows, NEW thrown \in Outcomes, NEW f,
             Leave(w, f, Without(files[w], f), thrown)
      PROVE  Sync'
  BY <1>0, <1>6, WithoutTree, WithoutTruth, LeaveSync
<1>7. ASSUME NEW w \in Windows, NEW thrown \in Outcomes, SaveFile(w, thrown) PROVE Sync'
  <2> DEFINE s == selected[w]
             fs == [files[w] EXCEPT ![s].content = editor[w], ![s].isSaved = TRUE]
  <2>1. /\ files' = [files EXCEPT ![w] = fs]
        /\ selected' = [selected EXCEPT ![w] = s]
        /\ editor' = [editor EXCEPT ![w] = editor[w]]
        /\ s # NoFile
    BY <1>0, <1>7 DEF SaveFile
  <2>2. s \in DOMAIN files[w] /\ editor[w] = files[w][s].temp
    BY <2>1 DEF Inv, SelectedIsOpen, OpenFiles, Sync, EditorShowsSelected
  <2>3. \A g \in DOMAIN files[w] : files[w][g] \in File
    BY <1>0, TreeElim DEF FileTree
  <2>4. /\ DOMAIN fs = DOMAIN files[w]
        /\ \A g \in DOMAIN fs : g # s => fs[g] = files[w][g]
    OBVIOUS
  <2>5. /\ fs[s].temp = files[w][s].temp
        /\ fs[s].content = editor[w]
        /\ fs[s].isSaved = TRUE
    BY <2>2, <2>3 DEF File
  <2>6. Truthful(files[w])
    BY <1>0
  <2> HIDE DEF fs
  <2>7. Truthful(fs)
    BY <2>2, <2>4, <2>5, <2>6 DEF Truthful
  <2> QED BY <2>1, <2>2, <2>5, <2>7, SyncStep
<1>8. ASSUME NEW w \in Windows, NEW thrown \in Outcomes, NEW f \in Ids, SelectFile(w, f, thrown)
      PROVE  Sync'
  BY <1>0, <1>8, ShowSync DEF SelectFile
<1>9. ASSUME NEW w \in Windows, NEW thrown \in Outcomes, NEW f \in Ids, OpenFile(w, f, thrown)
       PROVE  Sync'
  BY <1>0, <1>9, OpenSync DEF OpenFile
<1>10. ASSUME NEW w \in Windows, NEW thrown \in Outcomes, NEW f \in Ids, NEW name \in Names,
              CreateFile(w, f, name, thrown)
       PROVE  Sync'
  <2> DEFINE new == FileOf([name |-> name, content |-> Empty, isOpen |-> FALSE])
             fs == [g \in DOMAIN files[w] \cup {f} |-> IF g = f THEN new ELSE files[w][g]]
  <2>1. new \in File /\ (new.isSaved <=> new.temp = new.content)
    BY <1>0 DEF FileOf, File
  <2>2. /\ DOMAIN files[w] \subseteq Ids
        /\ \A g \in DOMAIN files[w] : files[w][g] \in File
    BY <1>0, TreeElim DEF FileTree
  <2>3. fs \in FileTree
    <3>1. \A g \in DOMAIN fs : fs[g] \in File
      BY <2>1, <2>2
    <3> QED BY <2>2, <3>1, TreeIntro DEF FileTree
  <2>4. Truthful(fs)
    <3>1. Truthful(files[w])
      BY <1>0
    <3> QED BY <2>1, <3>1 DEF Truthful
  <2>5. Open(w, fs, f, thrown) /\ f \in DOMAIN fs /\ thrown # "selected"
    BY <1>0, <1>10 DEF CreateFile
  <2> HIDE DEF fs
  <2> QED BY <2>3, <2>4, <2>5, OpenSync
<1>11. ASSUME NEW w \in Windows, NEW thrown \in Outcomes, NEW f \in Ids, NEW name \in Names,
              RenameFile(w, f, name, thrown)
       PROVE  Sync'
  <2> DEFINE fs == [files[w] EXCEPT ![f].name = name]
  <2>1. /\ files' = [files EXCEPT ![w] = fs]
        /\ selected' = [selected EXCEPT ![w] = selected[w]]
        /\ editor' = [editor EXCEPT ![w] = editor[w]]
    BY <1>0, <1>11 DEF RenameFile
  <2>2. \A g \in DOMAIN files[w] : files[w][g] \in File
    BY <1>0, TreeElim DEF FileTree
  <2>3. /\ DOMAIN fs = DOMAIN files[w]
        /\ \A g \in DOMAIN fs : /\ fs[g].temp = files[w][g].temp
                                /\ fs[g].content = files[w][g].content
                                /\ fs[g].isSaved = files[w][g].isSaved
    BY <2>2 DEF File
  <2>4. Truthful(files[w])
    BY <1>0
  <2> HIDE DEF fs
  <2>5. Truthful(fs)
    BY <2>3, <2>4 DEF Truthful
  <2>6. selected[w] \in DOMAIN fs => editor[w] = fs[selected[w]].temp
    BY <2>3 DEF Sync, EditorShowsSelected
  <2> QED BY <2>1, <2>5, <2>6, SyncStep
<1>12. CASE UNCHANGED vars
  BY <1>1, <1>12 DEF vars, memory
<1>13. ASSUME NEW w \in Windows, CloseAll(w) PROVE Sync'
  BY <1>1, <1>13 DEF CloseAll
<1>14. ASSUME NEW w \in Windows, NEW thrown \in Outcomes, NEW f \in Ids, GotoError(w, f, thrown)
       PROVE  Sync'
  <2>1. CASE files[w][f].isOpen
    BY <1>0, <1>14, <2>1, ShowSync DEF GotoError, OpenFiles
  <2>2. CASE ~files[w][f].isOpen
    BY <1>0, <1>14, <2>2, OpenSync DEF GotoError
  <2> QED BY <2>1, <2>2
<1> QED BY <1>2, <1>3, <1>4, <1>5, <1>6, <1>7, <1>8, <1>9, <1>10, <1>11, <1>12, <1>13, <1>14
        DEF Next, CloseFile, CloseNext, DeleteFile

\* As long as storing the selection does not throw, the editor shows the
\* selected file's working copy, so that a keystroke or a save cannot land in
\* another file.
THEOREM EditorAlwaysShowsSelected == "selected" \notin MayThrow => (Spec => []EditorShowsSelected)
<1> SUFFICES ASSUME "selected" \notin MayThrow PROVE Spec => []EditorShowsSelected
  OBVIOUS
<1>1. Init => Sync
  BY DEF Init, Sync, EditorShowsSelected, SavedFlagTruthful
<1>2. Inv /\ Sync /\ [Next]_vars => Sync'
  BY NextSync
<1>3. Sync => EditorShowsSelected
  BY DEF Sync
<1> QED BY InitInv, NextInv, <1>1, <1>2, <1>3, PTL DEF Spec

\* Then also the unsaved marks never lie.
THEOREM SavedFlagsAlwaysTruthful == "selected" \notin MayThrow => (Spec => []SavedFlagTruthful)
<1> SUFFICES ASSUME "selected" \notin MayThrow PROVE Spec => []SavedFlagTruthful
  OBVIOUS
<1>1. Init => Sync
  BY DEF Init, Sync, EditorShowsSelected, SavedFlagTruthful
<1>2. Inv /\ Sync /\ [Next]_vars => Sync'
  BY NextSync
<1>3. Sync => SavedFlagTruthful
  BY DEF Sync
<1> QED BY InitInv, NextInv, <1>1, <1>2, <1>3, PTL DEF Spec
=============================================================================

---------------------- MODULE FileServiceRefinementProofs ----------------------
(* What outlives a handler: tabs being closed, typed text, and, for a single    *)
(* window whose writes never fail, everything DocumentStore promises.           *)
EXTENDS FileServiceRefinement, FileServiceProofs

-----------------------------------------------------------------------------
(* Any windows, any failing writes.                                            *)

SameTexts(f, g) == f.temp = g.temp /\ f.content = g.content

\* Showing a file changes no text, neither the working copy nor the saved one.
LEMMA DisplayedTexts ==
  ASSUME NEW fs \in FileTree, NEW sel \in DOMAIN fs \cup {NoFile}, NEW old
  PROVE  \A g \in DOMAIN fs : SameTexts(Displayed(fs, sel, old)[g], fs[g])
<1>1. \A g \in DOMAIN fs : fs[g] \in File
  BY TreeElim DEF FileTree
<1>2. CASE Displayed(fs, sel, old) = fs
  BY <1>2 DEF SameTexts
<1>3. CASE Displayed(fs, sel, old) = ContentChanged(fs, sel, fs[sel].temp) /\ sel \in DOMAIN fs
  BY <1>1, <1>3 DEF ContentChanged, File, SameTexts
<1> QED BY <1>2, <1>3 DEF Displayed

\* The texts of fs are those that window w has.
TextsOf(w, fs) == \A g \in DOMAIN files[w] \cap DOMAIN fs : SameTexts(fs[g], files[w][g])

LEMMA ShowTexts ==
  ASSUME NEW w \in Windows, NEW fs \in FileTree, NEW f \in DOMAIN fs, NEW thrown,
         TextsOf(w, fs), Show(w, fs, f, thrown)
  PROVE  \E gs : TextsOf(w, gs) /\ files' = [files EXCEPT ![w] = gs]
<1>1. PICK gs \in {fs, Displayed(fs, f, editor[w])} : files' = [files EXCEPT ![w] = gs]
  BY DEF Show
<1>2. DOMAIN gs = DOMAIN fs /\ \A g \in DOMAIN fs : SameTexts(gs[g], fs[g])
  BY <1>1, DisplayedTree, DisplayedTexts DEF SameTexts
<1>3. TextsOf(w, gs)
  BY <1>2 DEF TextsOf, SameTexts
<1> QED BY <1>1, <1>3

LEMMA OpenTexts ==
  ASSUME NEW w \in Windows, NEW fs \in FileTree, NEW f \in DOMAIN fs, NEW thrown,
         TextsOf(w, fs), Open(w, fs, f, thrown)
  PROVE  \E gs : TextsOf(w, gs) /\ files' = [files EXCEPT ![w] = gs]
<1> DEFINE os == [fs EXCEPT ![f].isOpen = TRUE]
<1>1. os \in FileTree /\ DOMAIN os = DOMAIN fs
  BY OpenedTree
<1>2. \A g \in DOMAIN fs : fs[g] \in File
  BY TreeElim DEF FileTree
<1>3. \A g \in DOMAIN fs : SameTexts(os[g], fs[g])
  BY <1>2 DEF File, SameTexts
<1>4. TextsOf(w, os)
  BY <1>1, <1>3 DEF TextsOf, SameTexts
<1>5. Show(w, os, f, thrown)
  BY DEF Open
<1> HIDE DEF os
<1> QED BY <1>1, <1>4, <1>5, ShowTexts

\* What closing or deleting f makes of the files, `rest` being what it leaves
\* unless the write of the selection throws.
LEMMA LeaveTexts ==
  ASSUME Inv, NEW w \in Windows, NEW f, NEW rest \in FileTree, TextsOf(w, rest),
         DOMAIN files[w] \ {f} \subseteq DOMAIN rest,
         NEW thrown, Leave(w, f, rest, thrown)
  PROVE  \E gs : /\ TextsOf(w, gs)
                 /\ files' = [files EXCEPT ![w] = gs]
                 /\ thrown # "selected" => OpenFiles(gs) = OpenFiles(rest)
<1>1. files = [files EXCEPT ![w] = files[w]] /\ TextsOf(w, files[w])
  BY DEF Inv, TypeOK, TextsOf, SameTexts
<1>2. CASE f # selected[w] /\ files' = [files EXCEPT ![w] = rest]
  BY <1>2
<1>3. ASSUME NEW g \in FilesToSelect(files[w], f),
             files' = IF thrown = "selected" THEN files
                      ELSE [files EXCEPT ![w] = Displayed(rest, g, editor[w])]
      PROVE  \E gs : /\ TextsOf(w, gs)
                     /\ files' = [files EXCEPT ![w] = gs]
                     /\ thrown # "selected" => OpenFiles(gs) = OpenFiles(rest)
  <2> DEFINE gs == Displayed(rest, g, editor[w])
  <2>1. g \in DOMAIN rest \cup {NoFile}
    BY FilesToSelectOpen DEF OpenFiles
  <2>2. /\ DOMAIN gs = DOMAIN rest
        /\ OpenFiles(gs) = OpenFiles(rest)
        /\ \A h \in DOMAIN rest : SameTexts(gs[h], rest[h])
    BY <2>1, DisplayedTree, DisplayedTexts
  <2>3. TextsOf(w, gs)
    BY <2>2 DEF TextsOf, SameTexts
  <2> HIDE DEF gs
  <2>4. CASE thrown = "selected"
    BY <1>1, <1>3, <2>4
  <2>5. CASE thrown # "selected"
    BY <1>3, <2>2, <2>3, <2>5 DEF gs
  <2> QED BY <2>4, <2>5
<1> QED BY <1>2, <1>3 DEF Leave

LEMMA ClosedTexts ==
  ASSUME Inv, NEW w \in Windows, NEW f
  PROVE  TextsOf(w, Closed(files[w], f))
<1>1. files[w] \in FileTree
  BY DEF Inv, TypeOK, FileTree
<1>2. \A g \in DOMAIN files[w] : files[w][g] \in File
  BY <1>1, TreeElim DEF FileTree
<1> QED BY <1>2 DEF TextsOf, SameTexts, Closed, File

LEMMA WithoutTexts ==
  ASSUME Inv, NEW w \in Windows, NEW f
  PROVE  TextsOf(w, Without(files[w], f))
BY DEF TextsOf, SameTexts, Without, Restrict

\* The parts of the windows' lives that the proofs need: no files before the
\* start, and handlers only after it.
Life ==
  /\ \A w \in Windows : status[w] = "closed" => files[w] = <<>>
  /\ \A w \in Windows : closing[w] # {} => Running(w)
  /\ CloseAllLeavesNone

\* A handler that only touches the files of an idle window preserves them.
Touches(w) ==
  /\ UNCHANGED <<status, closing>>
  /\ Idle(w)
  /\ \E fs : TextsOf(w, fs) /\ files' = [files EXCEPT ![w] = fs]

LEMMA Touching ==
  ASSUME Inv, NEW w \in Windows, NEW thrown, NEW f \in Ids,
         \/ SelectFile(w, f, thrown)
         \/ OpenFile(w, f, thrown)
         \/ GotoError(w, f, thrown)
         \/ CloseFile(w, f, thrown)
         \/ DeleteFile(w, f, thrown)
         \/ \E name \in Names : CreateFile(w, f, name, thrown) \/ RenameFile(w, f, name, thrown)
  PROVE  Touches(w)
<1>0. /\ files \in [Windows -> FileTree]
      /\ \A v \in Windows : TextsOf(v, files[v])
      /\ Empty \in Contents
  BY ConstantsAssumption DEF Inv, TypeOK, FileTree, TextsOf, SameTexts
<1>1. ASSUME SelectFile(w, f, thrown)
      PROVE  Touches(w)
  BY <1>0, <1>1, ShowTexts DEF SelectFile, Touches, OpenFiles
<1>2. ASSUME OpenFile(w, f, thrown)
      PROVE  Touches(w)
  BY <1>0, <1>2, OpenTexts DEF OpenFile, Touches
<1>3. ASSUME GotoError(w, f, thrown)
      PROVE  Touches(w)
  BY <1>0, <1>3, ShowTexts, OpenTexts DEF GotoError, Touches
<1>4. ASSUME CloseFile(w, f, thrown)
      PROVE  Touches(w)
  BY <1>0, <1>4, ClosedTree, ClosedTexts, LeaveTexts DEF CloseFile, Touches
<1>5. ASSUME DeleteFile(w, f, thrown)
      PROVE  Touches(w)
  BY <1>0, <1>5, WithoutTree, WithoutTexts, LeaveTexts DEF DeleteFile, Touches
<1>6. ASSUME NEW name \in Names, CreateFile(w, f, name, thrown)
      PROVE  Touches(w)
  <2> DEFINE new == FileOf([name |-> name, content |-> Empty, isOpen |-> FALSE])
             fs == [g \in DOMAIN files[w] \cup {f} |-> IF g = f THEN new ELSE files[w][g]]
  <2>1. new \in File
    BY <1>0 DEF FileOf, File
  <2>2. /\ DOMAIN files[w] \subseteq Ids
        /\ \A g \in DOMAIN files[w] : files[w][g] \in File
    BY <1>0, TreeElim DEF FileTree
  <2>3. \A g \in DOMAIN fs : fs[g] \in File
    BY <2>1, <2>2
  <2>4. fs \in FileTree
    BY <2>2, <2>3, TreeIntro DEF FileTree
  <2>5. f \notin DOMAIN files[w]
    BY <1>6 DEF CreateFile
  <2>6. TextsOf(w, fs) /\ f \in DOMAIN fs
    BY <2>5 DEF TextsOf, SameTexts
  <2>7. Open(w, fs, f, thrown) /\ Idle(w) /\ UNCHANGED <<status, closing>>
    BY <1>6 DEF CreateFile
  <2> HIDE DEF fs
  <2> QED BY <2>4, <2>6, <2>7, OpenTexts DEF Touches
<1>7. ASSUME NEW name \in Names, RenameFile(w, f, name, thrown)
      PROVE  Touches(w)
  <2> DEFINE fs == [files[w] EXCEPT ![f].name = name]
  <2>1. \A g \in DOMAIN files[w] : files[w][g] \in File
    BY <1>0, TreeElim DEF FileTree
  <2>2. TextsOf(w, fs)
    BY <2>1 DEF TextsOf, SameTexts, File
  <2>3. files' = [files EXCEPT ![w] = fs]
    BY <1>0, <1>7 DEF RenameFile
  <2> HIDE DEF fs
  <2> QED BY <1>7, <2>2, <2>3 DEF RenameFile, Touches
<1> QED BY <1>1, <1>2, <1>3, <1>4, <1>5, <1>6, <1>7

\* A step changes nothing, touches the files of one idle window, or is one of
\* six other handlers.
LEMMA Steps ==
  ASSUME Inv, [Next]_vars
  PROVE  \/ UNCHANGED vars
         \/ \E w \in Windows :
              \/ Touches(w)
              \/ CloseAll(w)
              \/ Exit(w)
              \/ \E text \in Contents : EditText(w, text)
              \/ \E thrown \in Outcomes :
                   StartUp(w, thrown) \/ CloseNext(w, thrown) \/ SaveFile(w, thrown)
BY Touching DEF Next

\* What saving makes of the files of window w.
Saved(w) == [files[w] EXCEPT ![selected[w]].content = editor[w],
                             ![selected[w]].isSaved = TRUE]

LEMMA SavedFiles ==
  ASSUME Inv, NEW w \in Windows, NEW thrown, SaveFile(w, thrown)
  PROVE  files' = [files EXCEPT ![w] = Saved(w)]
BY DEF Inv, TypeOK, SaveFile, Saved

LEMMA LifeStep == Inv /\ Life /\ [Next]_vars => Life'
<1> SUFFICES ASSUME Inv, Life, [Next]_vars PROVE Life'
  OBVIOUS
<1>0. /\ files \in [Windows -> FileTree]
      /\ status \in [Windows -> {"closed", "ready", "broken"}]
      /\ closing \in [Windows -> SUBSET Ids]
  BY DEF Inv, TypeOK, FileTree
<1>1. CASE UNCHANGED vars
  BY <1>1 DEF vars, memory, Life, CloseAllLeavesNone, Running
<1>2. ASSUME NEW w \in Windows, Touches(w) PROVE Life'
  <2>1. PICK fs : files' = [files EXCEPT ![w] = fs]
    BY <1>2 DEF Touches
  <2> QED BY <1>0, <1>2, <2>1 DEF Touches, Life, CloseAllLeavesNone, Running, Idle
<1>3. ASSUME NEW w \in Windows, NEW thrown \in Outcomes, StartUp(w, thrown) PROVE Life'
  <2>1. \E fs : files' = [files EXCEPT ![w] = fs]
    BY <1>3 DEF StartUp, Show, Open
  <2>2. closing[w] = {}
    BY <1>3 DEF StartUp, Life, Running
  <2>3. /\ UNCHANGED closing
        /\ \A v \in Windows : status'[v] = IF v = w THEN status'[w] ELSE status[v]
        /\ status'[w] \in {"ready", "broken"}
    BY <1>0, <1>3 DEF StartUp
  <2> QED BY <1>0, <2>1, <2>2, <2>3 DEF Life, CloseAllLeavesNone, Running
<1>4. ASSUME NEW w \in Windows, CloseAll(w) PROVE Life'
  BY <1>0, <1>4 DEF CloseAll, Idle, Life, CloseAllLeavesNone, Running
<1>5. ASSUME NEW w \in Windows, Exit(w) PROVE Life'
  BY <1>0, <1>5 DEF Exit, Life, CloseAllLeavesNone, Running
<1>6. ASSUME NEW w \in Windows, NEW text \in Contents, EditText(w, text) PROVE Life'
  <2>1. \E fs : files' = [files EXCEPT ![w] = fs]
    BY <1>6 DEF EditText
  <2> QED BY <1>0, <1>6, <2>1 DEF EditText, Life, CloseAllLeavesNone, Running, Idle
<1>7. ASSUME NEW w \in Windows, NEW thrown \in Outcomes, CloseNext(w, thrown) PROVE Life'
  <2>1. PICK f \in closing[w] :
          /\ Leave(w, f, Closed(files[w], f), thrown)
          /\ closing' = [closing EXCEPT ![w] = IF thrown = "none" THEN @ \ {f} ELSE {}]
          /\ UNCHANGED status
    BY <1>7 DEF CloseNext, Lowest
  <2>2. /\ Closed(files[w], f) \in FileTree
        /\ DOMAIN Closed(files[w], f) = DOMAIN files[w]
        /\ OpenFiles(Closed(files[w], f)) = OpenFiles(files[w]) \ {f}
    BY <1>0, ClosedTree
  <2>3. PICK gs : /\ files' = [files EXCEPT ![w] = gs]
                  /\ thrown # "selected" => OpenFiles(gs) = OpenFiles(files[w]) \ {f}
    BY <2>1, <2>2, ClosedTexts, LeaveTexts
  <2>4. closing[w] = OpenFiles(files[w]) /\ Running(w)
    BY <2>1 DEF Life, CloseAllLeavesNone
  <2> QED BY <1>0, <2>1, <2>3, <2>4 DEF Life, CloseAllLeavesNone, Running
<1>8. ASSUME NEW w \in Windows, NEW thrown \in Outcomes, SaveFile(w, thrown) PROVE Life'
  <2>1. PICK fs : files' = [files EXCEPT ![w] = fs]
    BY <1>8, SavedFiles
  <2>2. UNCHANGED <<status, closing>> /\ Idle(w)
    BY <1>8 DEF SaveFile
  <2> QED BY <1>0, <2>1, <2>2 DEF Life, CloseAllLeavesNone, Running, Idle
<1> QED BY <1>1, <1>2, <1>3, <1>4, <1>5, <1>6, <1>7, <1>8, Steps

LEMMA LifeInit == Init => Life
BY DEF Init, Life, CloseAllLeavesNone

\* In any number of windows, whichever write throws, what closeAll has still to
\* visit is exactly what is open.
THEOREM CloseAllIsThorough == Spec => []CloseAllLeavesNone
<1>1. Life => CloseAllLeavesNone
  BY DEF Life
<1> QED BY InitInv, NextInv, LifeInit, LifeStep, <1>1, PTL DEF Spec

\* All handlers but typing and saving leave the texts of files that stay alone.
LEMMA TextsStay ==
  ASSUME Inv, Life, NEW v \in Windows,
         \/ Touches(v) \/ CloseAll(v) \/ Exit(v)
         \/ \E thrown : StartUp(v, thrown) \/ CloseNext(v, thrown)
  PROVE  \A w \in Windows : TextsOf(w, files'[w])
<1>0. /\ files \in [Windows -> FileTree]
      /\ \A w \in Windows : TextsOf(w, files[w])
  BY DEF Inv, TypeOK, FileTree, TextsOf, SameTexts
<1>1. ASSUME NEW fs, files' = [files EXCEPT ![v] = fs], TextsOf(v, fs)
      PROVE  \A w \in Windows : TextsOf(w, files'[w])
  BY <1>0, <1>1
<1>2. CASE UNCHANGED files
  BY <1>0, <1>2
<1>3. CASE Touches(v)
  BY <1>1, <1>3 DEF Touches
<1>4. ASSUME NEW thrown, StartUp(v, thrown)
      PROVE  \A w \in Windows : TextsOf(w, files'[w])
  <2>1. files[v] = <<>>
    BY <1>4 DEF StartUp, Life
  <2>2. PICK fs : files' = [files EXCEPT ![v] = fs]
    BY <1>4 DEF StartUp, Show, Open
  <2>3. TextsOf(v, fs)
    BY <2>1 DEF TextsOf
  <2> QED BY <1>1, <2>2, <2>3
<1>5. CASE CloseAll(v)
  BY <1>2, <1>5 DEF CloseAll
<1>6. CASE Exit(v)
  <2>1. files' = [files EXCEPT ![v] = <<>>]
    BY <1>6 DEF Exit
  <2>2. TextsOf(v, <<>>)
    BY DEF TextsOf
  <2> QED BY <1>1, <2>1, <2>2
<1>7. ASSUME NEW thrown, CloseNext(v, thrown)
      PROVE  \A w \in Windows : TextsOf(w, files'[w])
  <2>1. PICK g \in closing[v] : Leave(v, g, Closed(files[v], g), thrown)
    BY <1>7 DEF CloseNext, Lowest
  <2>2. /\ Closed(files[v], g) \in FileTree
        /\ DOMAIN Closed(files[v], g) = DOMAIN files[v]
    BY <1>0, ClosedTree
  <2> QED BY <1>1, <2>1, <2>2, ClosedTexts, LeaveTexts
<1> QED BY <1>3, <1>4, <1>5, <1>6, <1>7

\* Typing changes the working copy of the selected file alone, and saving its
\* saved text alone, to what the editor shows.
LEMMA EditedTexts ==
  ASSUME Inv, NEW w \in Windows, NEW text \in Contents, EditText(w, text)
  PROVE  /\ selected' = selected /\ editor'[w] = text /\ text # editor[w]
         /\ \A f \in DOMAIN files[w] \cap DOMAIN files'[w] :
              /\ files'[w][f].temp = IF f = selected[w] THEN text ELSE files[w][f].temp
              /\ files'[w][f].content = files[w][f].content
<1>1. /\ files \in [Windows -> FileTree]
      /\ editor \in [Windows -> Contents]
  BY DEF Inv, TypeOK, FileTree
<1> DEFINE fs == ContentChanged(files[w], selected[w], text)
<1>2. /\ files' = [files EXCEPT ![w] = fs]
      /\ editor' = [editor EXCEPT ![w] = text]
      /\ text # editor[w]
      /\ UNCHANGED selected
  BY DEF EditText
<1>3. \A f \in DOMAIN files[w] : files[w][f] \in File
  BY <1>1, TreeElim DEF FileTree
<1>4. \A f \in DOMAIN files[w] :
        /\ fs[f].temp = IF f = selected[w] THEN text ELSE files[w][f].temp
        /\ fs[f].content = files[w][f].content
  BY <1>3 DEF ContentChanged, File
<1> HIDE DEF fs
<1> QED BY <1>1, <1>2, <1>4

LEMMA SavedTexts ==
  ASSUME Inv, NEW w \in Windows, NEW thrown, SaveFile(w, thrown)
  PROVE  /\ selected[w] \in DOMAIN files[w] /\ DOMAIN files'[w] = DOMAIN files[w]
         /\ \A f \in DOMAIN files[w] :
              /\ files'[w][f].name = files[w][f].name
              /\ files'[w][f].temp = files[w][f].temp
              /\ files'[w][f].content = IF f = selected[w] THEN editor[w] ELSE files[w][f].content
              /\ f = selected[w] => files'[w][f].isSaved
<1>1. /\ files \in [Windows -> FileTree]
      /\ selected[w] \in DOMAIN files[w]
  BY DEF Inv, TypeOK, FileTree, SelectedIsOpen, OpenFiles, SaveFile
<1>2. files' = [files EXCEPT ![w] = Saved(w)]
  BY SavedFiles
<1>3. \A f \in DOMAIN files[w] : files[w][f] \in File
  BY <1>1, TreeElim DEF FileTree
<1>4. /\ DOMAIN Saved(w) = DOMAIN files[w]
      /\ \A f \in DOMAIN files[w] :
           /\ Saved(w)[f].name = files[w][f].name
           /\ Saved(w)[f].temp = files[w][f].temp
           /\ Saved(w)[f].content = IF f = selected[w] THEN editor[w] ELSE files[w][f].content
           /\ f = selected[w] => Saved(w)[f].isSaved
  BY <1>1, <1>3 DEF File, Saved
<1> QED BY <1>1, <1>2, <1>4

\* So a step that changes a text types it or saves it.
LEMMA TextsChange ==
  ASSUME Inv, Life, [Next]_vars, NEW w \in Windows, ~TextsOf(w, files'[w])
  PROVE  \/ \E text \in Contents : EditText(w, text)
         \/ \E thrown \in Outcomes : SaveFile(w, thrown)
<1>1. TextsOf(w, files[w]) /\ files \in [Windows -> FileTree]
  BY DEF TextsOf, SameTexts, Inv, TypeOK, FileTree
<1>2. files'[w] # files[w]
  BY <1>1
<1>3. CASE UNCHANGED vars
  BY <1>2, <1>3 DEF vars, memory
<1>4. ASSUME NEW v \in Windows, NEW text \in Contents, EditText(v, text) PROVE v = w
  <2>1. \E fs : files' = [files EXCEPT ![v] = fs]
    BY <1>4 DEF EditText
  <2> QED BY <1>1, <1>2, <2>1
<1>5. ASSUME NEW v \in Windows, NEW thrown \in Outcomes, SaveFile(v, thrown) PROVE v = w
  BY <1>1, <1>2, <1>5, SavedFiles
<1> QED BY <1>3, <1>4, <1>5, Steps, TextsStay

\* In any number of windows and whichever write throws, nothing but typing into
\* it changes the working copy of a file.
THEOREM TypedTextIsKept == Spec => TypedTextKept
<1> DEFINE Kept ==
      \A w \in Windows : \A f \in DOMAIN files[w] \cap DOMAIN files'[w] :
        files'[w][f].temp # files[w][f].temp =>
          /\ f = selected[w] /\ f = selected'[w]
          /\ editor'[w] # editor[w]
          /\ editor'[w] = files'[w][f].temp
<1>1. ASSUME Inv, Life, [Next]_vars
      PROVE  [Kept]_vars
  <2> SUFFICES ASSUME NEW w \in Windows, NEW f \in DOMAIN files[w] \cap DOMAIN files'[w],
                      files'[w][f].temp # files[w][f].temp
               PROVE  /\ f = selected[w] /\ f = selected'[w]
                      /\ editor'[w] # editor[w]
                      /\ editor'[w] = files'[w][f].temp
    OBVIOUS
  <2>1. PICK text \in Contents : EditText(w, text)
    BY <1>1, TextsChange, SavedTexts DEF TextsOf, SameTexts
  <2> QED BY <1>1, <2>1, EditedTexts
<1> QED BY InitInv, NextInv, LifeInit, LifeStep, <1>1, PTL DEF Spec, TypedTextKept

\* Nor does anything but saving change the saved text of a file: then it is the
\* selected file's, and becomes the text in the editor.
THEOREM SavedTextIsKept ==
  Spec => [][\A w \in Windows : \A f \in DOMAIN files[w] \cap DOMAIN files'[w] :
               files'[w][f].content # files[w][f].content =>
                 /\ f = selected[w] /\ f = selected'[w]
                 /\ files'[w][f].content = editor[w]
                 /\ files'[w][f].isSaved]_vars
<1> DEFINE Kept ==
      \A w \in Windows : \A f \in DOMAIN files[w] \cap DOMAIN files'[w] :
        files'[w][f].content # files[w][f].content =>
          /\ f = selected[w] /\ f = selected'[w]
          /\ files'[w][f].content = editor[w]
          /\ files'[w][f].isSaved
<1>1. ASSUME Inv, Life, [Next]_vars
      PROVE  [Kept]_vars
  <2> SUFFICES ASSUME NEW w \in Windows, NEW f \in DOMAIN files[w] \cap DOMAIN files'[w],
                      files'[w][f].content # files[w][f].content
               PROVE  /\ f = selected[w] /\ f = selected'[w]
                      /\ files'[w][f].content = editor[w]
                      /\ files'[w][f].isSaved
    OBVIOUS
  <2>1. PICK thrown \in Outcomes : SaveFile(w, thrown)
    BY <1>1, TextsChange, EditedTexts DEF TextsOf, SameTexts
  <2>2. selected' = selected
    BY <2>1 DEF SaveFile
  <2> QED BY <1>1, <2>1, <2>2, SavedTexts
<1> QED BY InitInv, NextInv, LifeInit, LifeStep, <1>1, PTL DEF Spec

-----------------------------------------------------------------------------
(* A single window whose writes succeed.                                       *)

Alone == Windows = {Sole} /\ MayThrow = {}

\* Storage and the window agree; a selection is stored with its file, open.
Mirror ==
  /\ status[Sole] \in {"closed", "ready"}
  /\ status[Sole] = "ready" =>
       storedFiles = ObjectsOf(files[Sole]) /\ storedSelected = selected[Sole]
  /\ storedSelected \in OpenFiles(storedFiles) \cup {NoFile}

\* All that is needed of a state.
Whole == Inv /\ Sync /\ Life /\ Mirror

\* Storing and loading lose only the unsaved texts.
LEMMA StoredTree ==
  ASSUME NEW fs
  PROVE  DOMAIN ObjectsOf(fs) = DOMAIN fs /\ OpenFiles(ObjectsOf(fs)) = OpenFiles(fs)
BY DEF ObjectsOf, ObjectOf, OpenFiles

LEMMA ReloadedTree ==
  ASSUME storedFiles \in PartialFunctions(Ids, FileObject)
  PROVE  ObjectsOf(LoadedFiles) = storedFiles
<1> DEFINE os == storedFiles
<1>1. os = [f \in DOMAIN os |-> os[f]] /\ \A f \in DOMAIN os : os[f] \in FileObject
  BY TreeElim
<1>2. \A f \in DOMAIN os : ObjectOf(FileOf(os[f])) = os[f]
  BY <1>1 DEF ObjectOf, FileOf, FileObject
<1> QED BY <1>1, <1>2 DEF ObjectsOf, LoadedFiles

LEMMA SameBoolean ==
  ASSUME NEW b \in BOOLEAN, NEW x, NEW y, b <=> x = y
  PROVE  b = (x = y)
<1>1. CASE b = TRUE
  BY <1>1
<1>2. CASE b = FALSE
  BY <1>2
<1> QED BY <1>1, <1>2

\* In a tree whose marks are truthful, the change event that showing a file
\* fires changes nothing.
LEMMA DisplayedSame ==
  ASSUME NEW fs \in FileTree, Truthful(fs), NEW sel \in DOMAIN fs \cup {NoFile}, NEW old
  PROVE  Displayed(fs, sel, old) = fs
<1>1. CASE Displayed(fs, sel, old) = ContentChanged(fs, sel, fs[sel].temp) /\ sel \in DOMAIN fs
  <2> DEFINE gs == ContentChanged(fs, sel, fs[sel].temp)
  <2>1. /\ fs = [f \in DOMAIN fs |-> fs[f]]
        /\ fs[sel] \in File
        /\ fs[sel].isSaved = (fs[sel].temp = fs[sel].content)
    <3>1. fs = [f \in DOMAIN fs |-> fs[f]] /\ fs[sel] \in File
      BY <1>1, TreeElim DEF FileTree
    <3>2. fs[sel].isSaved \in BOOLEAN
      BY <3>1 DEF File
    <3>3. fs[sel].isSaved <=> fs[sel].temp = fs[sel].content
      BY <1>1 DEF Truthful
    <3> QED BY <3>1, <3>2, <3>3, SameBoolean
  <2>2. /\ DOMAIN gs = DOMAIN fs
        /\ gs = [f \in DOMAIN gs |-> gs[f]]
        /\ \A f \in DOMAIN fs : f # sel => gs[f] = fs[f]
    BY DEF ContentChanged
  <2>3. /\ gs[sel] \in File
        /\ gs[sel].name = fs[sel].name
        /\ gs[sel].content = fs[sel].content
        /\ gs[sel].temp = fs[sel].temp
        /\ gs[sel].isSaved = fs[sel].isSaved
        /\ gs[sel].isOpen = fs[sel].isOpen
    BY <1>1, <2>1 DEF ContentChanged, File
  <2>4. gs[sel] = fs[sel]
    BY <2>1, <2>3 DEF File
  <2> HIDE DEF gs
  <2>5. gs = fs
    BY <2>1, <2>2, <2>4
  <2> QED BY <1>1, <2>5 DEF gs
<1> QED BY <1>1 DEF Displayed

\* The file that takes over is one of those left, if any is.
LEMMA FilesToSelectExact ==
  ASSUME NEW fs, NEW f, NEW g \in FilesToSelect(fs, f)
  PROVE  IF OpenFiles(fs) \ {f} = {} THEN g = NoFile ELSE g \in OpenFiles(fs) \ {f}
BY DEF FilesToSelect, Lowest, Highest

\* The handlers' pieces, when nothing throws and nothing is amiss.
LEMMA ShowAlone ==
  ASSUME NEW w \in Windows, NEW fs \in FileTree, Truthful(fs), NEW f \in DOMAIN fs,
         Show(w, fs, f, "none")
  PROVE  /\ files' = [files EXCEPT ![w] = fs]
         /\ selected' = [selected EXCEPT ![w] = f]
         /\ storedSelected' = f
BY DisplayedSame DEF Show, SwitchTo

LEMMA LeaveAlone ==
  ASSUME Whole, Ready, Sole \in Windows, NEW f, NEW rest \in FileTree, Truthful(rest),
         OpenFiles(rest) = OpenFiles(files[Sole]) \ {f},
         Leave(Sole, f, rest, "none")
  PROVE  /\ files' = [files EXCEPT ![Sole] = rest]
         /\ selected' = [selected EXCEPT ![Sole] = storedSelected']
         /\ storedFiles' = ObjectsOf(rest)
         /\ storedSelected' \in IF f # storedSelected THEN {storedSelected}
                                ELSE IF OpenFiles(rest) = {} THEN {NoFile} ELSE OpenFiles(rest)
<1>0. /\ files \in [Windows -> FileTree]
      /\ selected \in [Windows -> Ids \cup {NoFile}]
      /\ storedSelected = selected[Sole]
  BY DEF Whole, Inv, TypeOK, FileTree, Mirror, Ready
<1>1. CASE /\ f # selected[Sole]
           /\ files' = [files EXCEPT ![Sole] = rest]
           /\ UNCHANGED <<selected, storedSelected>>
           /\ SaveFileTree(Sole, "none")
  BY <1>0, <1>1 DEF SaveFileTree
<1>2. ASSUME f = selected[Sole], NEW g \in FilesToSelect(files[Sole], f),
             SwitchTo(Sole, g, IF g = NoFile THEN Empty ELSE files[Sole][g].temp, "none"),
             files' = [files EXCEPT ![Sole] = Displayed(rest, g, editor[Sole])],
             SaveFileTree(Sole, "none")
      PROVE  /\ files' = [files EXCEPT ![Sole] = rest]
             /\ selected' = [selected EXCEPT ![Sole] = storedSelected']
             /\ storedFiles' = ObjectsOf(rest)
             /\ storedSelected' \in IF OpenFiles(rest) = {} THEN {NoFile} ELSE OpenFiles(rest)
  <2>1. IF OpenFiles(rest) = {} THEN g = NoFile ELSE g \in OpenFiles(rest)
    BY FilesToSelectExact
  <2>2. g \in DOMAIN rest \cup {NoFile}
    BY <2>1 DEF OpenFiles
  <2>3. files' = [files EXCEPT ![Sole] = rest]
    BY <1>2, <2>2, DisplayedSame
  <2> QED BY <1>0, <1>2, <2>1, <2>3 DEF SwitchTo, SaveFileTree
<1> QED BY <1>0, <1>1, <1>2 DEF Leave

\* What a tree of files looks like to the user.
SavedOf(fs) == [f \in DOMAIN fs |-> [name |-> fs[f].name, text |-> fs[f].content]]
WorkingOf(fs) == [f \in DOMAIN fs |-> fs[f].temp]
MarkedOf(fs) == {f \in DOMAIN fs : ~fs[f].isSaved}

\* The window's files become gs, and so does storage.
Becomes(gs) ==
  /\ gs \in FileTree
  /\ Truthful(gs)
  /\ files' = [files EXCEPT ![Sole] = gs]
  /\ selected' = [selected EXCEPT ![Sole] = storedSelected']
  /\ storedFiles' = ObjectsOf(gs)
  /\ UNCHANGED status

LEMMA StoredView ==
  ASSUME NEW fs
  PROVE  LET os == ObjectsOf(fs) IN
         [f \in DOMAIN os |-> [name |-> os[f].name, text |-> os[f].content]] = SavedOf(fs)
BY DEF ObjectsOf, ObjectOf, SavedOf

LEMMA AloneFacts ==
  ASSUME Whole, Alone, Ready
  PROVE  /\ Sole \in Windows
         /\ files \in [Windows -> FileTree]
         /\ files[Sole] \in FileTree
         /\ Truthful(files[Sole])
         /\ DOMAIN files[Sole] \subseteq Ids
         /\ \A f \in DOMAIN files[Sole] : files[Sole][f] \in File
         /\ selected = [selected EXCEPT ![Sole] = storedSelected]
         /\ selected[Sole] = storedSelected
         /\ storedFiles = ObjectsOf(files[Sole])
         /\ storedSelected \in OpenFiles(files[Sole]) \cup {NoFile}
         /\ NoFile \notin Ids /\ Empty \in Contents
<1>1. Sole \in Windows
  BY DEF Alone
<1>2. files \in [Windows -> FileTree] /\ selected \in [Windows -> Ids \cup {NoFile}]
  BY DEF Whole, Inv, TypeOK, FileTree
<1>3. files[Sole] \in FileTree
  BY <1>1, <1>2
<1>4. Truthful(files[Sole])
  BY <1>1 DEF Whole, Sync, SavedFlagTruthful, Truthful
<1>5. /\ storedFiles = ObjectsOf(files[Sole])
      /\ selected[Sole] = storedSelected
      /\ storedSelected \in OpenFiles(storedFiles) \cup {NoFile}
  BY DEF Whole, Mirror, Ready
<1>6. storedSelected \in OpenFiles(files[Sole]) \cup {NoFile}
  BY <1>5, StoredTree
<1> QED BY <1>1, <1>2, <1>3, <1>4, <1>5, <1>6, TreeElim, ConstantsAssumption DEF FileTree

\* The user's view before and after such a step.
LEMMA View ==
  ASSUME Whole, Alone, Ready, NEW gs, Becomes(gs)
  PROVE  /\ Ready'
         /\ SavedDocs = SavedOf(files[Sole]) /\ SavedDocs' = SavedOf(gs)
         /\ WorkingTexts = WorkingOf(files[Sole]) /\ WorkingTexts' = WorkingOf(gs)
         /\ MarkedDocs = MarkedOf(files[Sole]) /\ MarkedDocs' = MarkedOf(gs)
         /\ OpenFiles(storedFiles) = OpenFiles(files[Sole])
         /\ OpenFiles(storedFiles)' = OpenFiles(gs)
         /\ Store!Marking
<1>1. Ready'
  BY DEF Becomes, Ready
<1>2. files'[Sole] = gs
  BY AloneFacts DEF Becomes
<1>3. SavedDocs = SavedOf(files[Sole]) /\ SavedDocs' = SavedOf(gs)
  BY AloneFacts, StoredView DEF Becomes, SavedDocs
<1>4. WorkingTexts = WorkingOf(files[Sole]) /\ WorkingTexts' = WorkingOf(gs)
  BY <1>1, <1>2 DEF WorkingTexts, WorkingOf
<1>5. MarkedDocs = MarkedOf(files[Sole]) /\ MarkedDocs' = MarkedOf(gs)
  BY <1>1, <1>2 DEF MarkedDocs, MarkedOf
<1>6. OpenFiles(storedFiles) = OpenFiles(files[Sole]) /\ OpenFiles(storedFiles') = OpenFiles(gs)
  BY AloneFacts, StoredTree DEF Becomes
<1>7. OpenFiles(storedFiles)' = OpenFiles(storedFiles')
  BY DEF OpenFiles
<1>8. MarkedOf(gs) = {f \in DOMAIN WorkingOf(gs) : WorkingOf(gs)[f] # SavedOf(gs)[f].text}
  BY DEF MarkedOf, WorkingOf, SavedOf, Becomes, Truthful
<1>9. Store!Marking
  BY <1>3, <1>4, <1>5, <1>8 DEF Store!Marking
<1> QED BY <1>1, <1>3, <1>4, <1>5, <1>6, <1>7, <1>9

(* The handlers of the only window, each as the step of DocumentStore it is.    *)

\* Selecting, opening, or both: fs is the tree with f open.
LEMMA ChooseAlone ==
  ASSUME Whole, Alone, Ready, NEW f \in DOMAIN files[Sole],
         UNCHANGED status,
         \/ /\ files[Sole][f].isOpen
            /\ Show(Sole, files[Sole], f, "none")
            /\ UNCHANGED storedFiles
         \/ Open(Sole, files[Sole], f, "none")
  PROVE  (\E gs : Becomes(gs)) /\ Store!Choose(f)
<1> DEFINE fs == files[Sole]
           gs == [fs EXCEPT ![f].isOpen = TRUE]
<1>1. /\ gs \in FileTree
      /\ DOMAIN gs = DOMAIN fs
      /\ f \in DOMAIN gs
      /\ OpenFiles(gs) = OpenFiles(fs) \cup {f}
  <2>1. /\ gs \in FileTree
        /\ DOMAIN gs = DOMAIN fs
        /\ \A g \in DOMAIN fs : g # f => gs[g] = fs[g]
        /\ gs[f].isOpen = TRUE
    BY AloneFacts, OpenedTree
  <2> HIDE DEF gs
  <2> QED BY <2>1 DEF OpenFiles
<1>2. \A g \in DOMAIN fs : /\ gs[g].name = fs[g].name
                           /\ gs[g].temp = fs[g].temp
                           /\ gs[g].content = fs[g].content
                           /\ gs[g].isSaved = fs[g].isSaved
  BY AloneFacts DEF File
<1>3. Truthful(gs)
  BY <1>1, <1>2, AloneFacts DEF Truthful
<1>4. /\ SavedOf(gs) = SavedOf(fs)
      /\ WorkingOf(gs) = WorkingOf(fs)
      /\ MarkedOf(gs) = MarkedOf(fs)
  BY <1>1, <1>2 DEF SavedOf, WorkingOf, MarkedOf
<1>5. fs[f].isOpen => gs = fs
  <2>1. fs = [g \in DOMAIN fs |-> fs[g]] /\ gs = [g \in DOMAIN gs |-> gs[g]]
    <3>1. fs \in FileTree
      BY AloneFacts
    <3> HIDE DEF gs, fs
    <3> QED BY <1>1, <3>1, TreeElim DEF FileTree
  <2>2. ASSUME fs[f].isOpen, NEW g \in DOMAIN fs PROVE gs[g] = fs[g]
    <3>1. fs[f].isOpen = TRUE /\ fs[f] \in File
      BY <2>2, AloneFacts DEF File
    <3> QED BY <3>1 DEF File
  <2> HIDE DEF gs
  <2> QED BY <1>1, <2>1, <2>2
<1>6. Show(Sole, gs, f, "none") /\ storedFiles' = ObjectsOf(files'[Sole])
  <2>1. CASE /\ fs[f].isOpen
             /\ Show(Sole, fs, f, "none")
             /\ UNCHANGED storedFiles
    <3>1. files' = [files EXCEPT ![Sole] = fs]
      BY <2>1, AloneFacts, ShowAlone
    <3> HIDE DEF gs
    <3> QED BY <1>5, <2>1, <3>1, AloneFacts
  <2>2. CASE Open(Sole, fs, f, "none")
    BY <2>2 DEF Open, SaveFileTree
  <2> QED BY <2>1, <2>2
<1> HIDE DEF gs
<1>7. /\ files' = [files EXCEPT ![Sole] = gs]
      /\ selected' = [selected EXCEPT ![Sole] = f]
      /\ storedSelected' = f
  BY <1>1, <1>3, <1>6, AloneFacts, ShowAlone
<1>8. Becomes(gs)
  BY <1>1, <1>3, <1>6, <1>7, AloneFacts DEF Becomes
<1>9. Store!Choose(f)
  BY <1>1, <1>4, <1>7, <1>8, View DEF Store!Choose, Store!Front, SavedOf, Ready
<1> QED BY <1>8, <1>9

LEMMA CreateAlone ==
  ASSUME Whole, Alone, Ready, NEW f \in Ids, NEW name \in Names,
         CreateFile(Sole, f, name, "none")
  PROVE  (\E gs : Becomes(gs)) /\ Store!Create(f, name)
<1> DEFINE fs == files[Sole]
           new == FileOf([name |-> name, content |-> Empty, isOpen |-> FALSE])
           cs == [g \in DOMAIN fs \cup {f} |-> IF g = f THEN new ELSE fs[g]]
           gs == [cs EXCEPT ![f].isOpen = TRUE]
<1>1. /\ f \notin DOMAIN fs
      /\ Open(Sole, cs, f, "none")
      /\ UNCHANGED status
  BY AloneFacts DEF CreateFile
<1>2. new \in File
  BY AloneFacts DEF FileOf, File
<1>3. cs \in FileTree
  <2>1. \A g \in DOMAIN cs : cs[g] \in File
    BY <1>2, AloneFacts
  <2> QED BY <2>1, AloneFacts, TreeIntro DEF FileTree
<1>4. /\ gs \in FileTree
      /\ DOMAIN gs = DOMAIN fs \cup {f}
      /\ \A g \in DOMAIN fs : gs[g] = fs[g]
      /\ gs[f].isOpen = TRUE
  BY <1>1, <1>3, OpenedTree
<1>5. /\ gs[f].name = name /\ gs[f].content = Empty /\ gs[f].temp = Empty
      /\ gs[f].isSaved = TRUE
  BY DEF FileOf
<1>6. Show(Sole, gs, f, "none") /\ SaveFileTree(Sole, "none")
  BY <1>1 DEF Open
<1> HIDE DEF gs, cs, new
<1>7. Truthful(gs)
  BY <1>4, <1>5, AloneFacts DEF Truthful
<1>8. /\ files' = [files EXCEPT ![Sole] = gs]
      /\ selected' = [selected EXCEPT ![Sole] = f]
      /\ storedSelected' = f
  BY <1>4, <1>6, <1>7, AloneFacts, ShowAlone
<1>9. Becomes(gs)
  BY <1>1, <1>4, <1>6, <1>7, <1>8, AloneFacts DEF Becomes, SaveFileTree
<1>10. OpenFiles(gs) = OpenFiles(fs) \cup {f}
  BY <1>1, <1>4 DEF OpenFiles
<1>11. SavedOf(gs) = [e \in DOMAIN SavedOf(fs) \cup {f} |->
                       IF e = f THEN [name |-> name, text |-> Empty] ELSE SavedOf(fs)[e]]
  BY <1>1, <1>4, <1>5 DEF SavedOf
<1>12. WorkingOf(gs) = [e \in DOMAIN WorkingOf(fs) \cup {f} |->
                         IF e = f THEN Empty ELSE WorkingOf(fs)[e]]
  BY <1>1, <1>4, <1>5 DEF WorkingOf
<1>13. f \notin DOMAIN SavedOf(fs)
  BY <1>1 DEF SavedOf
<1>14. Store!Create(f, name)
  BY <1>8, <1>9, <1>10, <1>11, <1>12, <1>13, View DEF Store!Create, Store!Front
<1> QED BY <1>9, <1>14

LEMMA RenameAlone ==
  ASSUME Whole, Alone, Ready, NEW f \in Ids, NEW name \in Names,
         RenameFile(Sole, f, name, "none"), files'[Sole] \in FileTree
  PROVE  (\E gs : Becomes(gs)) /\ Store!Rename(f, name)
<1> DEFINE fs == files[Sole]
           gs == [fs EXCEPT ![f].name = name]
<1>1. /\ f \in DOMAIN fs
      /\ files' = [files EXCEPT ![Sole] = gs]
      /\ SaveFileTree(Sole, "none")
      /\ UNCHANGED <<selected, status, storedSelected>>
  BY AloneFacts DEF RenameFile
<1>2. /\ DOMAIN gs = DOMAIN fs
      /\ gs \in FileTree
      /\ \A g \in DOMAIN fs : /\ gs[g].name = IF g = f THEN name ELSE fs[g].name
                              /\ gs[g].temp = fs[g].temp
                              /\ gs[g].content = fs[g].content
                              /\ gs[g].isSaved = fs[g].isSaved
                              /\ gs[g].isOpen = fs[g].isOpen
  BY <1>1, AloneFacts DEF File
<1> HIDE DEF gs
<1>3. Truthful(gs)
  BY <1>2, AloneFacts DEF Truthful
<1>4. Becomes(gs)
  BY <1>1, <1>2, <1>3, AloneFacts DEF Becomes, SaveFileTree
<1>5. /\ OpenFiles(gs) = OpenFiles(fs)
      /\ WorkingOf(gs) = WorkingOf(fs)
      /\ SavedOf(gs) = [SavedOf(fs) EXCEPT ![f].name = name]
      /\ f \in DOMAIN SavedOf(fs)
  BY <1>1, <1>2 DEF OpenFiles, WorkingOf, SavedOf
<1>6. Store!Rename(f, name)
  BY <1>1, <1>4, <1>5, View DEF Store!Rename
<1> QED BY <1>4, <1>6

LEMMA TypeAlone ==
  ASSUME Whole, Alone, Ready, NEW text \in Contents, EditText(Sole, text)
  PROVE  (\E gs : Becomes(gs)) /\ Store!Type(text)
<1> DEFINE fs == files[Sole]
           s == selected[Sole]
           gs == ContentChanged(fs, s, text)
<1>1. /\ s # NoFile
      /\ files' = [files EXCEPT ![Sole] = gs]
      /\ UNCHANGED <<selected, status, storage>>
  BY AloneFacts DEF EditText
<1>2. s \in DOMAIN fs /\ s = storedSelected
  BY <1>1, AloneFacts DEF OpenFiles
<1>3. gs \in FileTree /\ DOMAIN gs = DOMAIN fs /\ Truthful(gs) /\ OpenFiles(gs) = OpenFiles(fs)
  BY <1>2, AloneFacts, ContentChangedTree, ContentChangedTruth
<1>4. \A g \in DOMAIN fs : /\ gs[g].name = fs[g].name
                           /\ gs[g].temp = IF g = s THEN text ELSE fs[g].temp
                           /\ gs[g].content = fs[g].content
                           /\ gs[g].isOpen = fs[g].isOpen
  BY AloneFacts DEF ContentChanged, File
<1> HIDE DEF gs
<1>5. /\ ObjectsOf(gs) = ObjectsOf(fs)
      /\ SavedOf(gs) = SavedOf(fs)
      /\ WorkingOf(gs) = [WorkingOf(fs) EXCEPT ![s] = text]
  BY <1>2, <1>3, <1>4 DEF ObjectsOf, ObjectOf, SavedOf, WorkingOf
<1>6. Becomes(gs)
  BY <1>1, <1>3, <1>5, AloneFacts DEF Becomes, storage
<1>7. Store!Type(text)
  BY <1>1, <1>2, <1>3, <1>5, <1>6, View DEF Store!Type, Store!durable, storage
<1> QED BY <1>6, <1>7

LEMMA SaveAlone ==
  ASSUME Whole, Alone, Ready, SaveFile(Sole, "none"), files'[Sole] \in FileTree
  PROVE  (\E gs : Becomes(gs)) /\ Store!Save
<1> DEFINE fs == files[Sole]
           s == selected[Sole]
           gs == [fs EXCEPT ![s].content = editor[Sole], ![s].isSaved = TRUE]
<1>1. /\ s # NoFile
      /\ files' = [files EXCEPT ![Sole] = gs]
      /\ SaveFileTree(Sole, "none")
      /\ UNCHANGED <<selected, status, storedSelected>>
  <2>1. files \in [Windows -> FileTree] /\ Sole \in Windows
    BY AloneFacts
  <2> QED BY <2>1 DEF SaveFile
<1>2. s \in DOMAIN fs /\ s = storedSelected
  BY <1>1, AloneFacts DEF OpenFiles
<1>3. editor[Sole] = fs[s].temp
  BY <1>2, AloneFacts DEF Whole, Sync, EditorShowsSelected
<1>4. /\ DOMAIN gs = DOMAIN fs
      /\ gs \in FileTree
      /\ \A g \in DOMAIN fs : /\ gs[g].name = fs[g].name
                              /\ gs[g].temp = fs[g].temp
                              /\ gs[g].content = IF g = s THEN fs[s].temp ELSE fs[g].content
                              /\ gs[g].isSaved = IF g = s THEN TRUE ELSE fs[g].isSaved
                              /\ gs[g].isOpen = fs[g].isOpen
  BY <1>1, <1>3, AloneFacts DEF File
<1> HIDE DEF gs
<1>5. Truthful(gs)
  BY <1>2, <1>4, AloneFacts DEF Truthful
<1>6. Becomes(gs)
  BY <1>1, <1>4, <1>5, AloneFacts DEF Becomes, SaveFileTree
<1>7. /\ OpenFiles(gs) = OpenFiles(fs)
      /\ WorkingOf(gs) = WorkingOf(fs)
      /\ SavedOf(gs) = [SavedOf(fs) EXCEPT ![s].text = WorkingOf(fs)[s]]
  <2>1. OpenFiles(gs) = OpenFiles(fs) /\ WorkingOf(gs) = WorkingOf(fs)
    BY <1>4 DEF OpenFiles, WorkingOf
  <2>2. WorkingOf(fs)[s] = fs[s].temp
    BY <1>2 DEF WorkingOf
  <2>3. SavedOf(gs) = [SavedOf(fs) EXCEPT ![s].text = fs[s].temp]
    <3> DEFINE ss == [SavedOf(fs) EXCEPT ![s].text = fs[s].temp]
    <3>1. ss = [g \in DOMAIN fs |->
                 IF g = s THEN [name |-> fs[s].name, text |-> fs[s].temp]
                 ELSE [name |-> fs[g].name, text |-> fs[g].content]]
      BY <1>2 DEF SavedOf
    <3> HIDE DEF ss, fs, s
    <3>2. \A g \in DOMAIN fs : [name |-> gs[g].name, text |-> gs[g].content] = ss[g]
      BY <1>4, <3>1
    <3>3. SavedOf(gs) = ss
      BY <1>4, <3>1, <3>2 DEF SavedOf
    <3> QED BY <3>3 DEF ss
  <2> QED BY <2>1, <2>2, <2>3
<1>8. Store!Save
  BY <1>1, <1>2, <1>6, <1>7, View DEF Store!Save
<1> QED BY <1>6, <1>8

\* The tab of f goes, and with it the place in front if f was there.
LEMMA DropAlone ==
  ASSUME Whole, Alone, Ready, NEW f \in DOMAIN files[Sole],
         NEW rest \in FileTree, Truthful(rest),
         OpenFiles(rest) = OpenFiles(files[Sole]) \ {f},
         UNCHANGED status, Leave(Sole, f, rest, "none")
  PROVE  Becomes(rest) /\ Store!Drop(f)
<1>1. /\ files' = [files EXCEPT ![Sole] = rest]
      /\ selected' = [selected EXCEPT ![Sole] = storedSelected']
      /\ storedFiles' = ObjectsOf(rest)
      /\ storedSelected' \in IF f # storedSelected THEN {storedSelected}
                             ELSE IF OpenFiles(rest) = {} THEN {NoFile} ELSE OpenFiles(rest)
  BY AloneFacts, LeaveAlone
<1>2. Becomes(rest)
  BY <1>1 DEF Becomes
<1>3. f = storedSelected => f \in OpenFiles(files[Sole])
  BY AloneFacts
<1>4. Store!Drop(f)
  BY <1>1, <1>2, <1>3, View DEF Store!Drop
<1> QED BY <1>2, <1>4

LEMMA CloseAlone ==
  ASSUME Whole, Alone, Ready, NEW f \in OpenFiles(files[Sole]),
         UNCHANGED status, Leave(Sole, f, Closed(files[Sole], f), "none")
  PROVE  (\E gs : Becomes(gs)) /\ Store!Close(f)
<1> DEFINE fs == files[Sole]
           gs == Closed(fs, f)
<1>1. f \in DOMAIN fs
  BY DEF OpenFiles
<1>2. gs \in FileTree /\ DOMAIN gs = DOMAIN fs /\ OpenFiles(gs) = OpenFiles(fs) \ {f}
  BY AloneFacts, ClosedTree
<1>3. Truthful(gs)
  BY AloneFacts, ClosedTruth
<1>4. \A g \in DOMAIN fs : /\ gs[g].name = fs[g].name
                           /\ gs[g].temp = fs[g].temp
                           /\ gs[g].content = fs[g].content
                           /\ gs[g].isSaved = fs[g].isSaved
  BY AloneFacts DEF Closed, File
<1> HIDE DEF gs
<1>5. Becomes(gs) /\ Store!Drop(f)
  BY <1>1, <1>2, <1>3, DropAlone DEF gs
<1>6. /\ SavedOf(gs) = SavedOf(fs)
      /\ WorkingOf(gs) = WorkingOf(fs)
      /\ MarkedOf(gs) = MarkedOf(fs)
  BY <1>2, <1>4 DEF SavedOf, WorkingOf, MarkedOf
<1>7. Store!Close(f)
  BY <1>5, <1>6, View DEF Store!Close
<1> QED BY <1>5, <1>7

LEMMA DeleteAlone ==
  ASSUME Whole, Alone, Ready, NEW f \in DOMAIN files[Sole],
         UNCHANGED status, Leave(Sole, f, Without(files[Sole], f), "none")
  PROVE  (\E gs : Becomes(gs)) /\ Store!Delete(f)
<1> DEFINE fs == files[Sole]
           gs == Without(fs, f)
<1>1. gs \in FileTree /\ DOMAIN gs = DOMAIN fs \ {f} /\ OpenFiles(gs) = OpenFiles(fs) \ {f}
  BY AloneFacts, WithoutTree
<1>2. Truthful(gs)
  BY AloneFacts, WithoutTruth
<1>3. \A g \in DOMAIN gs : gs[g] = fs[g]
  BY DEF Without, Restrict
<1> HIDE DEF gs
<1>4. Becomes(gs) /\ Store!Drop(f)
  BY <1>1, <1>2, DropAlone DEF gs
<1>5. /\ SavedOf(gs) = [e \in DOMAIN SavedOf(fs) \ {f} |-> SavedOf(fs)[e]]
      /\ WorkingOf(gs) = [e \in DOMAIN WorkingOf(fs) \ {f} |-> WorkingOf(fs)[e]]
      /\ f \in DOMAIN SavedOf(fs)
  BY <1>1, <1>3 DEF SavedOf, WorkingOf
<1>6. Store!Delete(f)
  BY <1>4, <1>5, View DEF Store!Delete
<1> QED BY <1>4, <1>6

\* Starting and leaving: the window gets what is stored, and when it goes, what
\* was stored stays.
LEMMA StartAlone ==
  ASSUME Whole, Alone, StartUp(Sole, "none")
  PROVE  Mirror' /\ Store!Start
<1> DEFINE os == storedFiles
           fs == LoadedFiles
<1>1. /\ Sole \in Windows
      /\ status[Sole] = "closed"
      /\ os \in PartialFunctions(Ids, FileObject)
      /\ storedSelected \in OpenFiles(os) \cup {NoFile}
      /\ files \in [Windows -> FileTree]
      /\ selected \in [Windows -> Ids \cup {NoFile}]
      /\ status \in [Windows -> {"closed", "ready", "broken"}]
      /\ NoFile \notin Ids
  BY ConstantsAssumption DEF Whole, Alone, Mirror, Inv, TypeOK, FileTree, StartUp
<1>2. fs \in FileTree /\ Truthful(fs) /\ ObjectsOf(fs) = os
  BY <1>1, LoadedTree, ReloadedTree DEF LoadedFiles, Truthful, FileOf
<1>3. DOMAIN fs = DOMAIN os /\ DOMAIN os \subseteq Ids /\ OpenFiles(fs) = OpenFiles(os)
  BY <1>1, TreeElim DEF OpenFiles, LoadedFiles, FileOf
<1>4. /\ files'[Sole] = fs
      /\ selected'[Sole] = storedSelected
      /\ UNCHANGED storage
      /\ status' = [status EXCEPT ![Sole] = "ready"]
  <2>1. CASE storedSelected = NoFile
    BY <1>1, <2>1, <1>3 DEF StartUp
  <2>2. CASE storedSelected \in OpenFiles(fs)
    <3>1. storedSelected \in DOMAIN fs /\ fs[storedSelected].isOpen
      BY <2>2 DEF OpenFiles
    <3>2. /\ Show(Sole, fs, storedSelected, "none")
          /\ UNCHANGED storedFiles
          /\ status' = [status EXCEPT ![Sole] = "ready"]
      BY <3>1 DEF StartUp
    <3>3. /\ files' = [files EXCEPT ![Sole] = fs]
          /\ selected' = [selected EXCEPT ![Sole] = storedSelected]
          /\ storedSelected' = storedSelected
      BY <1>1, <1>2, <3>1, <3>2, ShowAlone
    <3> QED BY <1>1, <3>2, <3>3 DEF storage
  <2> QED BY <1>1, <1>3, <2>1, <2>2
<1>5. ~Ready /\ Ready'
  BY <1>1, <1>4 DEF Ready
<1> HIDE DEF fs
<1>6. Mirror'
  BY <1>1, <1>2, <1>4 DEF Mirror, storage, OpenFiles
<1>7. SavedDocs' = SavedDocs /\ DOMAIN SavedDocs = DOMAIN os
  BY <1>4 DEF SavedDocs, storage
<1>8. /\ WorkingTexts' = WorkingOf(fs)
      /\ MarkedDocs' = MarkedOf(fs)
  BY <1>1, <1>4, <1>5 DEF WorkingTexts, WorkingOf, MarkedDocs, MarkedOf
<1>9. /\ WorkingOf(fs) = [d \in DOMAIN SavedDocs |-> SavedDocs[d].text]
      /\ MarkedOf(fs) = {}
  BY <1>3, <1>7 DEF WorkingOf, MarkedOf, SavedDocs, FileOf, LoadedFiles, fs
<1>10. Store!Marking
  BY <1>7, <1>8, <1>9 DEF Store!Marking
<1>11. OpenFiles(storedFiles)' = OpenFiles(storedFiles)
  BY <1>4 DEF OpenFiles, storage
<1> QED BY <1>4, <1>5, <1>6, <1>7, <1>8, <1>9, <1>10, <1>11
        DEF Store!Start, Store!durable, storage

LEMMA StopAlone ==
  ASSUME Whole, Alone, Exit(Sole)
  PROVE  Mirror' /\ (IF Ready THEN Store!Stop ELSE UNCHANGED Store!vars)
<1>1. /\ UNCHANGED storage
      /\ status'[Sole] = "closed"
      /\ ~Ready'
  BY DEF Exit, Whole, Alone, Inv, TypeOK, Ready
<1>2. Mirror'
  BY <1>1 DEF Mirror, Whole, storage, OpenFiles
<1>3. /\ SavedDocs' = SavedDocs
      /\ OpenFiles(storedFiles)' = OpenFiles(storedFiles)
      /\ WorkingTexts' = <<>>
      /\ MarkedDocs' = {}
  BY <1>1 DEF SavedDocs, OpenFiles, WorkingTexts, MarkedDocs, storage
<1>4. Store!Marking
  BY <1>3 DEF Store!Marking
<1>5. CASE Ready
  <2>1. Ready' = FALSE
    BY <1>1 DEF Ready
  <2>2. Store!Stop
    BY <1>1, <1>3, <1>4, <1>5, <2>1 DEF Store!Stop, Store!durable, storage
  <2> QED BY <1>2, <1>5, <2>2
<1>6. CASE ~Ready
  <2>1. WorkingTexts = <<>> /\ MarkedDocs = {}
    BY <1>6 DEF WorkingTexts, MarkedDocs
  <2>2. Ready' = Ready
    BY <1>1, <1>6 DEF Ready
  <2>3. UNCHANGED Store!vars
    BY <1>1, <1>3, <2>1, <2>2 DEF Store!vars, Store!durable, storage
  <2> QED BY <1>2, <1>6, <2>3
<1> QED BY <1>5, <1>6

\* A step that neither the user nor storage sees.
LEMMA UnseenStep ==
  ASSUME Whole, UNCHANGED <<files, selected, status, storage>>
  PROVE  Mirror' /\ UNCHANGED Store!vars
<1>1. Mirror'
  BY DEF Mirror, Whole, storage, OpenFiles
<1>2. UNCHANGED Store!vars
  BY DEF Store!vars, Store!durable, SavedDocs, OpenFiles, WorkingTexts, MarkedDocs, Ready, storage
<1> QED BY <1>1, <1>2

\* Every step of a single window whose writes succeed keeps storage in step with
\* the window and is, or hides, a step of the document store.
LEMMA AloneStep ==
  Alone /\ Whole /\ Inv' /\ [Next]_vars => Mirror' /\ [Store!Next]_(Store!vars)
<1> SUFFICES ASSUME Alone, Whole, Inv', [Next]_vars
             PROVE  Mirror' /\ [Store!Next]_(Store!vars)
  OBVIOUS
<1>0. /\ Windows = {Sole} /\ Outcomes = {"none"}
      /\ files \in [Windows -> FileTree]
      /\ status \in [Windows -> {"closed", "ready", "broken"}]
      /\ \A w \in Windows : Running(w) => w = Sole /\ Ready
      /\ files'[Sole] \in FileTree
      /\ NoFile \notin Ids
  BY ConstantsAssumption
     DEF Alone, Outcomes, Whole, Inv, TypeOK, FileTree, Mirror, Running, Ready
<1>1. ASSUME Ready, NEW gs, Becomes(gs) PROVE Mirror'
  <2>1. /\ status'[Sole] = "ready"
        /\ files'[Sole] = gs
        /\ selected'[Sole] = storedSelected'
        /\ storedFiles' = ObjectsOf(gs)
    BY <1>1, AloneFacts DEF Becomes, Ready, Whole, Inv, TypeOK
  <2>2. storedSelected' \in OpenFiles(gs) \cup {NoFile}
    BY <1>0, <2>1 DEF Inv, SelectedIsOpen
  <2>3. storedSelected' \in OpenFiles(storedFiles') \cup {NoFile}
    BY <2>1, <2>2, StoredTree
  <2> QED BY <2>1, <2>3 DEF Mirror, OpenFiles
<1>2. CASE UNCHANGED vars
  BY <1>2, UnseenStep DEF vars, memory
<1>3. CASE CloseAll(Sole)
  BY <1>3, UnseenStep DEF CloseAll
<1>4. CASE StartUp(Sole, "none")
  BY <1>4, StartAlone DEF Store!Next
<1>5. CASE Exit(Sole)
  BY <1>5, StopAlone DEF Store!Next
<1>6. ASSUME NEW text \in Contents, EditText(Sole, text)
      PROVE  Mirror' /\ Store!Next
  <2>1. Ready
    BY <1>0, <1>6 DEF EditText, Idle
  <2> QED BY <1>1, <1>6, <2>1, TypeAlone DEF Store!Next
<1>7. CASE SaveFile(Sole, "none")
  <2>1. Ready
    BY <1>0, <1>7 DEF SaveFile, Idle
  <2> QED BY <1>0, <1>1, <1>7, <2>1, SaveAlone DEF Store!Next
<1>8. ASSUME NEW f \in DOMAIN files[Sole], f \in Ids, Idle(Sole), UNCHANGED status,
             \/ /\ files[Sole][f].isOpen
                /\ Show(Sole, files[Sole], f, "none")
                /\ UNCHANGED storedFiles
             \/ Open(Sole, files[Sole], f, "none")
      PROVE  Mirror' /\ Store!Next
  <2>1. Ready
    BY <1>0, <1>8 DEF Idle
  <2>2. (\E gs : Becomes(gs)) /\ Store!Choose(f)
    BY <1>8, <2>1, ChooseAlone
  <2> QED BY <1>1, <1>8, <2>1, <2>2 DEF Store!Next
<1>9. ASSUME NEW f \in Ids, \/ SelectFile(Sole, f, "none")
                             \/ OpenFile(Sole, f, "none")
                             \/ GotoError(Sole, f, "none")
       PROVE  Mirror' /\ Store!Next
  BY <1>8, <1>9 DEF SelectFile, OpenFile, GotoError, OpenFiles
<1>10. ASSUME NEW f \in OpenFiles(files[Sole]), f \in Ids, Ready, UNCHANGED status,
              Leave(Sole, f, Closed(files[Sole], f), "none")
       PROVE  Mirror' /\ Store!Next
  <2>1. (\E gs : Becomes(gs)) /\ Store!Close(f)
    BY <1>10, CloseAlone
  <2> QED BY <1>1, <1>10, <2>1 DEF Store!Next
<1>11. ASSUME NEW f \in Ids, CloseFile(Sole, f, "none") PROVE Mirror' /\ Store!Next
  BY <1>0, <1>10, <1>11 DEF CloseFile, Idle
<1>12. CASE CloseNext(Sole, "none")
  <2>1. PICK f \in closing[Sole] : Leave(Sole, f, Closed(files[Sole], f), "none")
    BY <1>12 DEF CloseNext, Lowest
  <2>2. f \in OpenFiles(files[Sole]) /\ Running(Sole)
    BY <1>0, <2>1 DEF Whole, Life, CloseAllLeavesNone
  <2>3. f \in Ids /\ UNCHANGED status
    BY <1>0, <1>12, <2>1 DEF CloseNext, Whole, Inv, TypeOK
  <2> QED BY <1>0, <1>10, <2>1, <2>2, <2>3
<1>13. ASSUME NEW f \in Ids, DeleteFile(Sole, f, "none") PROVE Mirror' /\ Store!Next
  <2>1. Ready
    BY <1>0, <1>13 DEF DeleteFile, Idle
  <2>2. (\E gs : Becomes(gs)) /\ Store!Delete(f)
    BY <1>13, <2>1, DeleteAlone DEF DeleteFile
  <2> QED BY <1>1, <2>1, <2>2 DEF Store!Next
<1>14. ASSUME NEW f \in Ids, NEW name \in Names, CreateFile(Sole, f, name, "none")
       PROVE  Mirror' /\ Store!Next
  <2>1. Ready
    BY <1>0, <1>14 DEF CreateFile, Idle
  <2>2. (\E gs : Becomes(gs)) /\ Store!Create(f, name)
    BY <1>14, <2>1, CreateAlone
  <2> QED BY <1>1, <2>1, <2>2 DEF Store!Next
<1>15. ASSUME NEW f \in Ids, NEW name \in Names, RenameFile(Sole, f, name, "none")
       PROVE  Mirror' /\ Store!Next
  <2>1. Ready
    BY <1>0, <1>15 DEF RenameFile, Idle
  <2>2. (\E gs : Becomes(gs)) /\ Store!Rename(f, name)
    BY <1>0, <1>15, <2>1, RenameAlone
  <2> QED BY <1>1, <2>1, <2>2 DEF Store!Next
<1> QED BY <1>0, <1>2, <1>3, <1>4, <1>5, <1>6, <1>7, <1>9, <1>11, <1>12, <1>13, <1>14, <1>15
        DEF Next

LEMMA AloneInit == Alone /\ Init => Whole /\ Store!Init
<1> SUFFICES ASSUME Alone, Init PROVE Whole /\ Store!Init
  OBVIOUS
<1>1. /\ Sole \in Windows
      /\ status[Sole] = "closed"
      /\ storedFiles = <<>> /\ storedSelected = NoFile
  BY DEF Alone, Init
<1>2. Mirror
  BY <1>1 DEF Mirror
<1>3. Sync
  BY DEF Init, Sync, EditorShowsSelected, SavedFlagTruthful
<1>4. Ready = FALSE
  BY <1>1 DEF Ready
<1>5. /\ SavedDocs = <<>>
      /\ OpenFiles(storedFiles) = {}
      /\ WorkingTexts = <<>>
      /\ MarkedDocs = {}
  BY <1>1, <1>4 DEF SavedDocs, OpenFiles, WorkingTexts, MarkedDocs
<1>6. Store!Init
  BY <1>1, <1>4, <1>5 DEF Store!Init
<1> QED BY <1>2, <1>3, <1>6, InitInv, LifeInit DEF Whole

LEMMA AloneInductive == Alone /\ Whole /\ [Next]_vars => Whole' /\ [Store!Next]_(Store!vars)
<1> SUFFICES ASSUME Alone, Whole, [Next]_vars PROVE Whole' /\ [Store!Next]_(Store!vars)
  OBVIOUS
<1>1. Inv' /\ Life'
  BY NextInv, LifeStep DEF Whole
<1>2. Sync'
  <2>1. "selected" \notin MayThrow
    BY DEF Alone
  <2> QED BY <2>1, NextSync DEF Whole
<1>3. Mirror' /\ [Store!Next]_(Store!vars)
  BY <1>1, AloneStep
<1> QED BY <1>1, <1>2, <1>3 DEF Whole

\* With one window and writes that succeed, for any files, names and texts: what
\* is stored is what the window has.
THEOREM StorageIsTheWindow == Alone => (Spec => []StorageMirrorsWindow)
<1> SUFFICES ASSUME Alone PROVE Spec => []StorageMirrorsWindow
  OBVIOUS
<1>1. Whole => StorageMirrorsWindow
  BY DEF Whole, Mirror, Alone, StorageMirrorsWindow
<1>2. Init => Whole
  BY AloneInit
<1>3. Whole /\ [Next]_vars => Whole'
  BY AloneInductive
<1> QED BY <1>1, <1>2, <1>3, PTL DEF Spec

\* A restart never meets a selection it cannot resolve.
THEOREM RestartAlwaysSucceeds == Alone => (Spec => []RestartSucceeds)
<1> SUFFICES ASSUME Alone PROVE Spec => []RestartSucceeds
  OBVIOUS
<1>1. Whole => RestartSucceeds
  BY DEF Whole, Mirror, Alone, RestartSucceeds
<1>2. Init => Whole
  BY AloneInit
<1>3. Whole /\ [Next]_vars => Whole'
  BY AloneInductive
<1> QED BY <1>1, <1>2, <1>3, PTL DEF Spec

\* A window that is closed without a question takes no text with it.
THEOREM QuietExitIsSafe == Alone => (Spec => []QuietExitLosesNothing)
<1> SUFFICES ASSUME Alone PROVE Spec => []QuietExitLosesNothing
  OBVIOUS
<1>1. Whole => QuietExitLosesNothing
  <2> SUFFICES ASSUME Whole, NEW w \in Windows, Running(w), ~Warns(w),
                      NEW f \in DOMAIN files[w]
               PROVE  f \in DOMAIN storedFiles /\ storedFiles[f].content = files[w][f].temp
    BY DEF QuietExitLosesNothing
  <2>1. w = Sole /\ status[Sole] = "ready" /\ storedFiles = ObjectsOf(files[Sole])
    BY DEF Alone, Whole, Mirror, Running
  <2>2. files[w][f].isSaved
    BY <2>1 DEF Warns, HasUnsavedFiles
  <2>3. files[w][f].temp = files[w][f].content
    BY <2>2 DEF Whole, Sync, SavedFlagTruthful
  <2> QED BY <2>1, <2>3 DEF ObjectsOf, ObjectOf
<1>2. Init => Whole
  BY AloneInit
<1>3. Whole /\ [Next]_vars => Whole'
  BY AloneInductive
<1> QED BY <1>1, <1>2, <1>3, PTL DEF Spec

\* FileService implements the document store.
THEOREM DocumentsAreKept == Alone => (Spec => KeepsDocuments)
<1> SUFFICES ASSUME Alone PROVE Spec => KeepsDocuments
  OBVIOUS
<1>1. Init => Whole /\ Store!Init
  BY AloneInit
<1>2. Whole /\ [Next]_vars => Whole' /\ [Store!Next]_(Store!vars)
  BY AloneInductive
<1> QED BY <1>1, <1>2, PTL DEF Spec, KeepsDocuments, Store!Spec
=============================================================================

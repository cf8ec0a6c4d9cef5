# A TLA+ model of HMIX

HMIX is a Solidity editor that runs in the browser: an Angular page with an Ace
editor, a list of files kept in `localStorage`, a compiler run in web workers,
and a tab that deploys and calls contracts on a htmlcoind node. There is no
server of its own. What makes the program hard is what a browser page makes
hard: handlers that are cut short when storage refuses a write, several windows
that share one storage, workers whose answers carry no identity, promise chains
whose requests can be lost or overtaken by what the user does meanwhile.

Paths below are relative to `src/src/client/app/`, and `shared/` is left out
where a file name is unambiguous.

## 1. Inventory

| Component | State | Operations | Talks to |
| --- | --- | --- | --- |
| `FileService` and `File` (`services/file`, `models/file.model.ts`) | `_files` (each with saved `content`, working copy `tempContent`, `isSaved`, `isOpen`), `_selectedFile` | create, select, open, close, save, delete, rename; restore at start-up | `StorageService` (two keys), `EditorService` (sets and reads the text); emits `onFileSaved` |
| `StorageService` | none of its own: `localStorage`, shared by the windows of the origin | `get` (null when unreadable), `set` (throws when refused) | browser |
| `EditorComponent`, `EditorService` | the Ace instance and its text | select / close / close all, change event, Ctrl-S, unload check | `FileService`, `CompilerService.requestCompilation` |
| `FileTabComponent`, `ngx-contextmenu` | which name inputs are there, the file to be renamed; the open menu | open, delete, rename, create; the ends of editing a name | `FileService`, `CompilerService.requestCompilation`; clicks anywhere in the document |
| `CompilerService` | current worker, `_latestCompilationResult`, settings | load a version, compile (with one retry), gather imports, parse | workers by messages; `FileService.getFileByName`; emits started / finished / requested |
| `worker.js` | its compiler, `missingInputs` | `LoadVersion`, `CompileRequest` | the page, by messages |
| `CompileTabComponent` | `_loadingCompiler`, `_compiling`, `_subsInitialized`, last result | compile, load version, 100 ms timer, goto error | `CompilerService`, `FileService` |
| `RunTabComponent`, `HtmlcoinService` | accounts, selected account, loaded contracts, `_compiling`; RPC URL in storage | list accounts, deploy, at address, call / send, remove | the node by RPC, `TerminalService`, compiler events |
| `TerminalComponent`, `TerminalService` | log, history and its index | run a command, walk the history, clear | the node by RPC |
| `HomeComponent` | sidebar width, terminal height, two drag flags | mouse events, reset on tab change or terminal opening | storage |
| `SolcVersionsService`, tabs, dialogs, routing | lists and the active tab | - | HTTP |

The remaining directories are build tools, end-to-end tests of the seed
project's page, and vendored code (`cmake-3.22.1`, the htmlcoinjs and solc
bundles).

Hard behaviours, and what makes each component correct:

- *Files.* Every handler changes memory, the editor and two storage keys, in that
  order or another, and any `setItem` may throw in between. The selected file
  must have a tab, the editor must hold its working copy, the unsaved mark must
  tell the truth, what was typed must survive clicks, and a window that closes
  without asking must lose nothing. A start-up reads whatever windows left.
- *Compilation.* Calls overlap (the tab itself starts two, 100 ms apart),
  answers are broadcast to all waiting calls, versions are replaced while old
  workers still answer. Every call must end, the bars must show what goes on,
  and results must be of the files given.
- *Running contracts.* An operation is a chain of requests, between which the
  URL may change and of which any may be lost. Transactions need a block on
  their own node, contracts must stay with their node, outcomes must be told.
- *The file list.* Two name inputs with one id, ended by clicks anywhere, and menus
  that remember a file. A name must go where it was typed for, and what is renamed
  or deleted must still be there.
- *Terminal and layout.* Out-of-order answers, the history index, limits that
  cross in a small window.

## 2. Plan

Done in this order, the core first:

1. `FileService`: files, editor, storage, windows; its proofs.
2. `Solidity` (imports as data) and `CompilerService` (loading and compiling, in
   workers and in the page, and both tabs that follow it); its proofs.
3. `RunTab` with its nodes; its proofs.
4. `DocumentStore`, an abstract specification of what the editor promises, and
   `FileServiceRefinement`, in which `FileService` implements it; the proof.
5. `Compilation`, what the Compile tab promises of compilations asked for one
   after the other, and `CompilerServiceRefinement`; the proof.
6. `Ide`, the composition of `FileService` and `CompilerService`; its proofs.
7. `HomeLayout` and `Terminal`, composed in `Workbench`; its proofs.
8. `FileTab`, the inputs and menus of the file list; its proofs; `Sidebar`, its
   composition with `FileService`, and its proofs.

Left:

9. `RunTab` with the selected contract and its constructor arguments, composed
   with `CompilerService`, whose every result replaces both.
10. A proof, like `AnswersGetThere` for `CompilerService`, that the requests of an
   operation of `RunTab` come to an end.

The modules and what they build on:

| Module | Extends or instantiates | Proofs in | Checked by |
| --- | --- | --- | --- |
| `FileService` | - | `FileServiceProofs` | `MCFileService` |
| `DocumentStore` (abstract) | - | | |
| `FileServiceRefinement` | `FileService`; `DocumentStore` as `Store` | `FileServiceRefinementProofs` | `MCSidebar` |
| `Solidity` | - | | |
| `CompilerService` | `Solidity` | `CompilerServiceProofs` | `MCCompilerService` |
| `Compilation` (abstract) | `Solidity` | | |
| `CompilerServiceRefinement` | `CompilerService`; `Compilation` as `InTurn` | `CompilerServiceProofs` | `MCCompilerService` |
| `Ide` | `FileService`; `CompilerService` as `Compiler` | `IdeProofs` | `MCIde` |
| `RunTab` | - | `RunTabProofs` | `MCRunTab` |
| `HomeLayout`, `Terminal` | - | | |
| `FileTab` | - | `FileTabProofs` | |
| `Sidebar` | `FileServiceRefinement`; `FileTab` as `Tab` | `SidebarProofs` | `MCSidebar` |
| `Workbench` | `HomeLayout`, `Terminal` | `WorkbenchProofs` | `MCWorkbench` |

## 3. Modules

### FileService

Models `file.service.ts`, `file.model.ts`, `storage.service.ts` and the handlers
of `EditorComponent` and `FileTabComponent` that drive them, for any set of
windows. `files`, `selected` and `editor` are each window's `_files`,
`_selectedFile` and Ace text; `storedFiles` and `storedSelected` are the keys
`hmix-files` and `hmix-selected-file`. `status` says whether a window is closed,
running, or running after its initialisation threw (`"broken"`: it can be used, but
has neither the save shortcut nor the unload check). `closing` is what is left of a
`closeAll`.

A handler is one action, JavaScript running it to completion; only the steps of
`closeAll` (one per file) are actions of their own. `StartUp` is one action too:
`FileService` is first injected when the components of the home view are made, so that
its constructor, which reads the tree, and `ngAfterViewInit`, which reads the
selection, lie in one turn of the event loop, and no handler of the window in between.
The two keys are read in that turn as the last turns of other windows left them:
what another window writes during it is taken to come before or after it. An action
takes the parameter `thrown`: the key whose `setItem` throws, if one does;
everything behind that write is then skipped. Definitions with parameters that
look like handlers' inner calls (`Show`, `Open`, `Leave`, `SwitchTo`) are
`selectFile`, `openFile`, the common part of `closeFile` and `deleteFile`, and
the `selectedFile` setter.

Abstractions:

- `_files` is a function and not a list: each change detection sorts the list by
  name (`sortedFiles` sorts in place), so the neighbour of a tab is found among
  names; files of equal names may stand in any order, so `FilesToSelect` offers
  all of them.
- Setting the text in Ace fires `change` (for an empty text replacing an empty
  one it does not), at which the *selected* file takes the text as its working
  copy: `Displayed`. The intermediate event in which Ace has removed the old text
  and not yet put the new one is inside the handler and leaves no trace.
- When a handler stores the selection twice, the second write of the same value
  does not throw if the first did not.
- A new file has a UUID that nothing refers to.
- `Exit` is any end of a window: closing, reloading, a crash.

### DocumentStore, FileServiceRefinement

`DocumentStore` knows nothing of storage, windows or Ace: documents with names and
saved texts, tabs, the one in front, and, while the window is there, a working
text of each and the set of those shown with the unsaved mark. Its actions are
what a user does; `Marking` makes the marks exact after each.

`FileServiceRefinement` maps it to `FileService`: saved documents, tabs and the one
in front are read from *storage* (what would be found if the window went away
now), working texts and marks from the window. So each handler has to bring
memory, editor and both keys to where one atomic step of the store does, and a
start-up (tree, selection, editor) is `Start`.

### FileTab, Sidebar

`FileTab` models `file-tab.component.ts` with its template, and of the context menu
(`ext/ngx-contextmenu`) which of the list's two menus is open, for which file, and
that the events of a menu do not get to the document. Files are names here, those
of a page that may go and come back. `FinishEditingFile` is
`finishEditingFile`: the input that `getElementById` finds is the first in the
template, that of the creation, while the flags tell what is done with its value;
`Inputs` says which inputs the template shows. `Click` is the listener of the
document, which a click on the new-file button does not set off, so that this
button brings up the second input (`ClickNewFile`). A right click in the list opens a
menu, whose `open` event ends the editing, be it inside the input.
The timer that puts the focus into an input is left out: it changes nothing else,
and throws to no effect if the input has gone.

`Sidebar` joins it with the files of one window, as long as writes succeed:
`FilesNamed` is what `FileService` does when a name ends, and both agree on the name
since the names of `FileTab` are those of the window's files. A click on a tab, its
cross, an error or a file of the list is two steps: `ClickHandled`, the listener of
what was clicked, and `ClickArrives`, that of the document, which may create and open
another file. In between, `target` lets nothing else happen. The cross of a tab lies
in the tab, whose own listener is gone when the event gets there: change detection
runs after each listener and has removed the tab.

### Solidity, CompilerService

`Solidity` reduces files to what compilation depends on: which files a text
imports, and which of them the regular expression of `gatherImports` reaches (an
import at the very start of the text, the pattern having no `m` flag). A `sources`
object, and the saved files by name, are functions from names to texts.
`GatherImports` stands for the two passes of `gatherImports`.

`CompilerService` models `compiler.service.ts`, `worker.js`,
`compile-tab.component.ts`, and the progress bar of `run-tab.component.ts`.
`requests` are `CompileRequest`s not yet answered, `calls` the `compile()`
promises subscribed to `onWebWorkerFinished`. Numbers given in the order of the
page's actions give both the order of a worker's queue and the order of the
subscriptions. `Answer` is the whole reaction to a `CompileResult`: every waiting
call resolves; retries parse and finish; first calls gather imports and post
their second request. All share the answer's `missingInputs` array, which the
first `gatherImports` empties: only `Oldest(calls)` sees it. A worker that could
not import its compiler (`"dead"`) answers `''`, whose parse throws.

`mode` tells how the session began: with workers, with the setting turned off, or
with the setting on in a browser that has no `Worker`; then `loadCompiler` turns
it off and resolves although nothing was loaded. Without workers both rounds of a
compilation are over before any other event (`CompileSync`).

`VersionLoaded` includes the compilation the tab then starts and arms the 100 ms
timer; `TimerFires` is the second. `SelectFile` is a click on a tab or a sidebar
file, `SaveFile` the save of changed text, `AskCompile` the button; `FilesChange` is
whatever else happens to files, the going to an error included. With
`Overlap = FALSE` the user waits, and the timer finds the first compilation finished.

### Compilation, CompilerServiceRefinement

`Compilation` has a job instead of queues, calls and numbers: it is asked, its
imports are looked up in the files as they are saved *then*, it is finished and
its sources are the result; a compiler in the page is done at once. The refinement
maps the waiting call to the job (a call in its first round has its imports still
to be looked up), the Compile tab's bar to `busy` and the sources of the errors
shown to `result`. Fairness is part of it: `Gather` and `Finish` happen.

### Ide

Composes the two: the window of `FileService`, and `CompilerService` with the
selected file's name and the *editor's* text as its `doc`, and as `library` what
`getFileByName` finds among the *saved* texts. When two files have one name the
first in the list is found, which `Catalogue` leaves open, but does not change
without a change of files. A click and a save are one action of both; `FileSaved`
compiles in the middle of `saveFile`, as `onFileSaved` is emitted before the text is
stored. `lastAsked` is a history variable. One session in one window whose writes
succeed: no `Exit`, one version, which loads.

### RunTab

Models `run-tab.component.ts` and `htmlcoin.service.ts`; the node is
external, and of htmlcoinjs `Resolve` and `Fail` are what `rawCall` does with an
answer. Each use of `this.rpc` reads the URL anew, a `Contract` keeps the RPC object
it was made with. An RPC is a `Handle` at the node and a callback in
the page, or a `Fail`. An operation is named by its click and names the contract
and the transaction it creates. `pool` and `chain` are a node's accepted and mined
transactions.

Wallets sign only for their own accounts; `confirm` waits for a block. Without a
selected account, `this._selectedUtxo.address` throws in the handler
(`"threw"`). The components live as long as the page, so the accounts are listed
once, at start-up. Not modelled: the selected contract, arguments, gas and value.

### HomeLayout, Terminal, Workbench

`HomeLayout` models `home.component.ts`. `sidebarWidth` and `terminalHeight` are at
once the fields and what storage has of them, the setters writing both (a write
is taken to succeed). The window's size is asked for at each event, so each drag
may find another one. `MouseUp` need not follow a `ResizeSidebar`: the release may
happen where the page does not see it, and the drag goes on when the pointer
comes back, even with both dividers. `Clamp` is `Math.min(Math.max(...))`: the upper
limit wins.

`Terminal` models the input line and the history of `TerminalComponent` and the log
of `TerminalService`, as a number of entries. `commandHistory` is the array itself;
the index is the code's, from 0. The line is `undefined` until something is typed,
and a walk stores it as such. An answer comes at any time after its command, in
any order (`CommandAnswered`).

`Workbench` joins them: `TerminalService.log` asks for the terminal to be opened
before it adds the entry, so that `Answered` and `Logged` are one step of both.

## 4. What the runs show

| Run | Instance | Shows |
| --- | --- | --- |
| `one` | 1 window with its file list, 3 files, 2 names, 2 texts, any clicks, no write throws | `CloseAllLeavesNone`, `StorageMirrorsWindow`, `RestartSucceeds`, `QuietExitLosesNothing`: storage is always what the window has; `KeepsDocuments`: the window implements `DocumentStore`; `TargetsAreThere`, `NamedAsTyped`: a name goes to its file, which is there |
| `throws` | 1 window, 2 files, 2 names, both writes may throw | `TypeOK`, `SelectedIsOpen`, `TypedTextKept`: whichever write throws, the selection is a tab and nothing typed is lost |
| `two` | 2 windows, 2 files, 1 name | `SelectedIsOpen`, `EditorShowsSelected`, `SavedFlagTruthful` in windows that overwrite each other's storage |
| `overlap` | 2 files, 2 versions that may fail, all modes, requests at will, fair | `TypeOK`, `WaitingIsOutstanding`, `RunTabTracksCalls`, `CallsComplete`, `CompilingEnds`: every call ends, and the bars with it |
| `serial` | 3 files, one of which comes and goes, 2 versions, workers or page, one compilation at a time, fair | `AnsweredForItsFiles`; `CompilesInTurn`: the tab implements `Compilation` |
| `ide` | 2 files, 2 names, 2 texts, workers or page, one compilation at a time | `LastAskedIsShown`, `SavedIsCompiled` |
| `hostile` | 2 nodes, 3 operations, any change of URL, any loss | `TypeOK`, `LoadedWhereDeployed`, `OutcomeReported` |
| `run_live` | 2 nodes, 2 operations, one URL, nothing lost, fair | `MiningIsOnTheWay`, `TransactionsMined`, `SendsConfirmed`, `LoadingEnds` |
| `workbench` | 2 commands, a history of 2, windows with room and without, a pointer inside and outside | `TypeOK`, `PanelsInRange`, `LogIsVisible`, `LinesKept` |
| `unwarned` | 2 windows | *violated:* after a start from keys of two windows that do not fit, a window with unsaved files does not ask |
| `nested` | imports of imports | *violated:* a file FileService has is missing from the result |
| `ide_overlap` | as `ide`, requests at will | *violated:* the result that stays is not of what was asked about last |

**Bounds.** Three files are one more than a tab and its neighbour, so that first,
middle and last tab occur; two names give ties and order. Two texts, one of them
empty, tell saved from edited and meet the case in which Ace fires no event. Two
windows are enough for one to spoil what the other stores. For compilation: a
file, one it imports, and in `serial` one with an error; `MaxRequests` bounds the
numbers at which the user may still ask (retries go on beyond it, and the timer
and version compilations are not bounded by it), `MaxLoads` the versions. `overlap`
has up to three calls under way on two workers. In `ide` one text imports the file
of the first name, so that it depends on names, on saved texts and on what the
editor has. In `one` there is always a third file to be created or
deleted while another is renamed. For contracts: three operations, so that a contract is deployed, called
and sent to, or two are deployed side by side. For the workbench, sizes are in
units of 50 pixels: one window is too small for a panel and what it must leave;
`MaxCommands` and `MaxLogs` bound the history and the log, a history of three lines
(draft, two commands) having a first, a middle and a last one.

**Deadlock** is not checked for `RunTab`: its operations are finitely many clicks,
after which the model, not the program, stops.

**Symmetry** is used only in runs without liveness, over files, windows, nodes and
operations, which nothing compares (the properties of steps checked under it treat
all files alike).

**Fairness.** Workers work off their queues and the event loop delivers messages
and timers: weak fairness of `AnswerArrives`, `VersionLoaded`, `TimerFires`. A
request to a node is handled, answered or lost, so weak fairness of these together.
Nothing is assumed of the user, who need not click, and nobody is assumed to load
a version or change the URL.

**Mutants.** Next to a definition stands a changed form of it, a plausible
mistake (a flag set before the copy, an off-by-one, a request made before the
selection), under which the property named in `PROJECT.json` fails.

## 5. What the code does against its own comments

Shown by a run:

- `unwarned`: `initSaveCheck` is to ensure a warning whenever there are unsaved
  files. Two windows may leave a pair of keys that do not fit: one stored the
  selection of a file it has, the other a tree without that file, having deleted it
  or never had it. In the window that starts next `loadSelectedFile` throws and the
  check is never installed; a file can be created and edited there all the same.
- `ide_overlap`: answers are not matched with requests, so that the last answer a
  call receives may be the one to an earlier call. A click "Selects a file and
  requests its compilation", but if it comes while the two compilations of a
  start-up are under way, the result that stays is not of that file.
- `nested`: one retry finds one level of imports.

Read in the code and visible in the models, without a run of their own:

- `saveFile` sets `isSaved` before the write that may throw, and the unload check
  then stays silent; the `selectedFile` setter assigns before its write may throw,
  and the editor then shows another file than the lit tab. (These are why
  `QuietExitLosesNothing` is checked without throws and `EditorShowsSelected` is
  proved only for a selection that can be stored.)
- Already the two compilations `loadCompiler` starts 100 ms apart may resolve with
  each other's answers: `AnsweredForItsFiles` holds only if nobody overlaps.
- `_compiling` of the Compile tab is one flag for any number of calls: the first to
  finish clears it while others wait. (`CompilesInTurn` maps it to `busy`, exactly,
  without overlap; with it, only `CompilingEnds` holds.)
- After a deployment the block "so the contract is mined" (run-tab.component.ts:145)
  is asked of the URL of that moment: `MiningIsOnTheWay` needs a URL that stays.
- Without `Worker`, `useWebWorker` is turned off and loading counts as done, though
  nothing was loaded; the first compilations reject, with the bars left on.
- Every result makes its first contract the selected one of the Run tab, whatever
  the user had chosen there.
- With both name inputs there, only the one of the creation is read: Enter in, or a
  click into, the one of the rename ends both, and what was typed into it is dropped.
  `NamedAsTyped` says that it is not mistaken for something else.
- If `createFile` throws in `finishEditingFile`, storage being full, the file is in the
  list already, the flags are not reset and the input stays: each click from then on
  creates another file of that name. (`Sidebar` therefore has writes succeed.)
- `gotoError` passes undefined to `selectFile` when the file is gone, which throws
  before anything has changed.
- `if (result.missingInputs)` is true of an empty array: each compilation runs
  twice (`Retry` has no guard).
- `parseContracts` returns early when the output has no `contracts`, leaving those
  of an earlier compilation beside new errors (`Parsed`, `OmitsContracts`).
- After a failed load the worker answers `''`, `JSON.parse` throws, and the Compile
  tab shows its bar for ever: `CompilingEnds` needs loads that succeed.
- `getUnspent()`, the handler of the URL input, does not exist: accounts of the old
  node stay selected (`Rpc`'s `sender`). A fallback call goes to the node of the
  URL, not to the contract's, and its failure is not reported; a failed
  `listunspent` leaves the accounts loading.

## 6. What is proved

All theorems hold for every value of the constants under the named assumptions of
the modules (`ConstantsAssumption`, `CompilerAssumption` and `SolidityAssumption`,
`RunTabAssumption`, `LayoutAssumption`, `TerminalAssumption`, `SidebarAssumption`,
`IdeAssumption`),
which only type the constants and tell them apart (the layout's also say that minimal
sizes are positive and not above the first ones, those of `Sidebar` and `Ide` that there
is a window). `FileTabAssumption` is a hypothesis of the theorems of `FileTabProofs`.

`FileServiceProofs`:

- `TypeCorrect`, `SelectedIsAlwaysOpen`: any windows, files and failing writes.
  The invariant is `Inv == TypeOK /\ SelectedIsOpen`; it is inductive as it stands
  because a handler only selects files it has just opened or found among the open
  ones (`FilesToSelectOpen`), and closes a file only after the selection has left it.
  The operators on the files of a window have lemmas of their own (`OpenedTree`,
  `WithoutTree`, ...); each handler's part a step lemma (`ShowStep`, `LeaveStep`).
- `EditorAlwaysShowsSelected`, `SavedFlagsAlwaysTruthful`: if storing the
  selection never throws; storing the tree may. `Sync`, their conjunction, is
  inductive relative to `Inv`; neither part is alone, since a save takes its text
  from the editor and sets the flag, which is right only if editor and working
  copy agree, and the change event computes the flag of whatever is selected.

`FileServiceRefinementProofs`, for any windows and failing writes:

- `CloseAllIsThorough`: relative to `Life` (a closed window has no files, only a
  running one closes its tabs, and what it has still to close is what is open).
- `TypedTextIsKept`, `SavedTextIsKept`: typing alone changes a working copy, and saving
  alone a saved text, each of the selected file and to what is in the editor.
  `TextsOf` says that a step leaves both texts of all files of a window as they are;
  nearly all handlers are made of a few ways of changing files (`Touches`), which do
  (`TextsStay`), so that what changes a text is one of the two (`TextsChange`). That an
  event of Ace at which the selected file takes the text changes nothing, unless
  somebody typed, needs `Inv`: handlers show a file that is there. A file that was
  restored is a new one: `Life` says that a window has none before.

and for `Alone` (one window, no failing write):

- `StorageIsTheWindow`, `RestartAlwaysSucceeds`, `QuietExitIsSafe`,
  `DocumentsAreKept`. The invariant is `Whole == Inv /\ Sync /\ Life /\ Mirror`.
  `Mirror` says that storage and the window agree and that a stored selection is
  stored open; it needs
  `Sync`, since a stored text is the editor's and the mapped working text the
  file's. `AloneStep` shows with one step per action that `Whole` is kept *and* that
  the step is one of `DocumentStore` or changes nothing of it.

`CompilerServiceProofs`, of which the first four hold for any overlap, and for versions
that load or fail:

- `TypeCorrect`, `NumbersAreGivenOnce`: one answer may resolve any number of first
  calls, whose second rounds take as many new numbers, counted from the oldest.
  That these are new, and each given once, needs `Numbered`: the waiting first calls
  have the last numbers given, without a gap (`RetriesTyped`).
- `NoCallWaitsInVain`: `WaitingIsOutstanding` is inductive, because an answer
  that resolves a call it was not meant for also ends that call's wait.
- `AnswersGetThere`: what is left, a request's answer each and one more for each
  first call, is a number that every answer brings down by one, that only `compile()`
  raises, and that is 0 exactly when nothing is being compiled. It is the part of
  `CallsComplete` that is not about fairness. That it is 0 only then is
  `NoCallWaitsInVain`.
- `RunTabBar`: `BarInv` adds the bounds of versions and numbers, and that a page
  without workers has no calls; `AllLoad` never becomes true again once it is
  false, so a version that fails only ever weakens the claim.
- `SerialAnswers`: if nobody asks meanwhile. `SerialInv` says that there is at most
  one call, its request being the only one, and none while a version loads.
- `CompilesOneByOne`: if nobody asks meanwhile and every version loads (`Serially`),
  the initial states and steps of `CompilerService` map to those of `Compilation`: the
  safety part of `CompilesInTurn`. `TurnInv` adds to `SerialInv` that the bar shows
  exactly while a call waits, that a page without workers has no calls, and that
  whoever is asked has its compiler (`TurnCore`); `CompileTurn` and `AnswerTurn` are the
  two events that change a compilation, `TurnStep` has a step per action.

`IdeProofs`, for any files, names, texts, imports and number of requests:

- `SessionKeepsFiles`, `SessionKeepsCompilations`: each step of `Ide` is one of
  `FileService`, and one of `CompilerService` with what the window has for its files,
  or changes nothing of it. The lemmas of `CompilerServiceProofs` are used through the
  same substitution (`CompilerProofs`).
- `LastAskedIsAlwaysShown`: if nobody asks meanwhile; the run `ide_overlap` shows that
  it fails otherwise. The property speaks only of states in which nothing is compiled.
  `AskedInv` says that meanwhile what was asked about, with the text it had then, is
  in the sources of each call: compiling starts from the selected file as the editor
  shows it (`CompileHolds`), gathering imports never replaces a file that is given,
  though one of that name is saved with another text (`GatherSources`), and the answer
  is the one to the call's own request (`AnswerHolds`, by `TurnInv`).
- `SavedIsAlwaysCompiled`: however compilations overlap. Only `FileSaved` changes a saved
  text (`SavedByUser`, by the lemmas behind `SavedTextIsKept`); with a worker the call it
  makes is new since its number is (`Numbered`), and without one there is a compiler
  that answers at once (`Listens`).

`RunTabProofs`:

- `TypeCorrect`, `ContractsStayAtTheirNode`: any changes of URL, any losses.
  `Inv` adds `Origins` (a started operation has a node, and what is listed was
  deployed or loaded at an address) and `Creations` (a request that creates a
  contract is at the node its operation recorded, and once granted the contract is
  in that node's pool or chain).
- `TransactionsAreOnTheirWay`: one URL, nothing lost. `CalmInv` adds `OneNode`:
  all requests, operations and accounts are of the node of the URL.
- `OutcomesAreTold`: any changes of URL, any losses. `Owed` says that for an operation
  whose user has not been told, a request is out that tells, whatever becomes of it.

`FileTabProofs`:

- `TypeCorrect`, `TargetsStay`, `NamesGoWhereTyped`: the invariant `TabInv` adds that an
  open menu and an input exclude each other (`MenuExcludesInputs`), so that nothing can
  be deleted while it is renamed, and that `fileToBeRenamed` is set exactly during
  a rename. `FinishStep` is about the one operator all ends of editing share.

`SidebarProofs`, for any files and names:

- `WindowIsKept`: `SidebarSpec => Spec`, each step of `Sidebar` being one of
  `FileService` (`SidebarStep`), so that its theorems hold of the composition.
- `TargetsStayThere`, `NamesAreAsTyped`: each step is also one of `FileTab`
  (`SidebarTabStep`), whose lemmas are used through the same substitution (`TabProofs`).
  What is to be shown is that the handlers that have no part in `FileTab` leave the
  names of the window's files alone (`NamesKept`): showing and closing a file rewrite
  its record, and the change event that setting the editor's text fires another one.

`WorkbenchProofs`:

- `PanelsStayInRange`: `PanelsInRange` with the types is inductive (`LayoutInv`);
  `ClampInRange` is the arithmetic, in both cases of a window, with room and without.
- `LinesAreKept`, `TypeCorrect`: `TerminalTypeOK`, above all that the index is within
  the history. `InsertSecond` says where the lines of a history are after a command
  is put second, `LinesSeq` what the input line does in its place.
- `LogIsAlwaysVisible`: only the two actions that log add entries, and each of them
  opens the terminal.

Not proved, model-checked only: liveness (`CallsComplete`, `CompilingEnds`,
`TransactionsMined`, `SendsConfirmed`, `LoadingEnds`, the fairness of
`CompilesInTurn`), which is beyond the prover. Every invariant and action property of
the runs has a theorem. Statements by induction over data, and about operators
declared RECURSIVE, would stay with TLC as well; no module declares one.

## 7. Not modelled

`PROJECT.json` lists every component with its status and the reason. In short:

- Presentation, routing, dialogs and the list of compiler versions have no state
  worth a model.
- Build tools, the seed project's tests and vendored code, of which
  `cmake-3.22.1` is by far the largest part of the tree, are not part of the program
  that runs in the browser; nothing under `src/client` calls them. Of the bundles of
  htmlcoinjs and solc under `src/client/ext`, what the application relies on is
  modelled: that a request ends in an answer or an error, and what a compilation
  gives. The node, and the compiler that the bundle fetches, are external.
- Of the context menus, keys, sub-menus and places on the screen;
  of `EditorService`, the cursor and the highlighted line; of `RunTabComponent`, the
  selected contract, its arguments, gas and value.
- A write that throws in `HomeComponent` or while `Ide` runs; more than one window
  there.
- Before the first file is selected nothing is asked of a compiler, and the Run
  tab's bar shows from the start: `RunTabTracksCalls` begins with the first request.

------------------------------- MODULE Terminal -------------------------------
(* The terminal below the editor: TerminalComponent, with its input line and   *)
(* the history of commands, and the log of TerminalService.                    *)
(*                                                                             *)
(* A command other than `clear` is an RPC to the node whose answer is logged   *)
(* when it comes, in whatever order, cleared in between or not.  Other parts   *)
(* of the page log too.                                                        *)
EXTENDS Naturals, Sequences, SequencesExt

CONSTANTS
  Commands,     \* texts of the input line that are not blank
  Clear,        \* the one of them whose first word is `clear`
  Blank,        \* ''
  Undefined,    \* undefined, the input line before anything is typed
  MaxCommands,  \* bound: number of commands in the history
  MaxLogs       \* bound: number of entries in the log

ASSUME TerminalAssumption ==
  /\ Clear \in Commands
  /\ Blank \notin Commands
  /\ Undefined \notin Commands \cup {Blank}
  /\ MaxCommands \in Nat
  /\ MaxLogs \in Nat

VARIABLES
  terminalCommand,  \* _terminalCommand, the input line
  commandHistory,   \* _commandHistory, the most recent command second
  historyIndex,     \* _historyIndex
  pending,          \* number of RPCs not answered yet
  logs              \* number of entries in TerminalService._logs

input == <<terminalCommand, commandHistory, historyIndex>>
terminalVars == <<input, pending, logs>>

TerminalInit ==
  /\ terminalCommand = Undefined
  /\ commandHistory = <<Blank>>
  /\ historyIndex = 0
  /\ pending = 0
  /\ logs = 0

Type(text) ==
  /\ terminalCommand' = text
  /\ UNCHANGED <<commandHistory, historyIndex, pending, logs>>

\* Mutant: the line is stored where the walk arrives, not where it leaves.
LoadCommandFromHistory_StoreLate(direction) ==
  LET last == Len(commandHistory) - 1
      i == IF direction = "up"
           THEN IF historyIndex = last THEN last ELSE historyIndex + 1
           ELSE IF historyIndex = 0 THEN 0 ELSE historyIndex - 1
  IN /\ historyIndex' = i
     /\ commandHistory' = [commandHistory EXCEPT ![i + 1] = terminalCommand]
     /\ terminalCommand' = commandHistory'[i + 1]
     /\ UNCHANGED <<pending, logs>>

\* Mutant: the index may pass the end of the history, where undefined is.
LoadCommandFromHistory_PastEnd(direction) ==
  LET i == IF direction = "up" THEN historyIndex + 1
           ELSE IF historyIndex = 0 THEN 0 ELSE historyIndex - 1
  IN /\ historyIndex' = i
     /\ commandHistory' = [commandHistory EXCEPT ![historyIndex + 1] = terminalCommand]
     /\ terminalCommand' = IF i < Len(commandHistory) THEN commandHistory'[i + 1] ELSE Undefined
     /\ UNCHANGED <<pending, logs>>

\* Arrow up or down.  The line is stored before the index moves.
LoadCommandFromHistory(direction) ==
  LET last == Len(commandHistory) - 1
  IN /\ historyIndex' = IF direction = "up"
                        THEN IF historyIndex = last THEN last ELSE historyIndex + 1
                        ELSE IF historyIndex = 0 THEN 0 ELSE historyIndex - 1
     /\ commandHistory' = [commandHistory EXCEPT ![historyIndex + 1] = terminalCommand]
     /\ terminalCommand' = commandHistory'[historyIndex' + 1]
     /\ UNCHANGED <<pending, logs>>

\* Enter on a command.  (On a blank line nothing happens; on the undefined one
\* trim() throws, and nothing happens either.)
HandleCommand ==
  /\ terminalCommand \in Commands
  /\ Len(commandHistory) <= MaxCommands
  /\ commandHistory' = InsertAt(commandHistory, 2, terminalCommand)
  /\ historyIndex' = 0
  /\ terminalCommand' = Blank
  /\ IF terminalCommand = Clear
     THEN logs' = 0 /\ UNCHANGED pending
     ELSE pending' = pending + 1 /\ UNCHANGED logs

\* TerminalService.log, apart from the request to open the terminal.
Log ==
  /\ logs < MaxLogs
  /\ logs' = logs + 1

\* An RPC is answered, with a result or an error.
CommandAnswered ==
  /\ pending > 0
  /\ pending' = pending - 1
  /\ Log
  /\ UNCHANGED input

\* Another part of the page logs.
OthersLog ==
  /\ Log
  /\ UNCHANGED <<input, pending>>

\* The lines one can walk through: the history with the input line in its place.
Lines == [commandHistory EXCEPT ![historyIndex + 1] = terminalCommand]
=============================================================================

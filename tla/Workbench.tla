------------------------------ MODULE Workbench ------------------------------
(* Terminal and layout of the page together: each entry of the log asks for    *)
(* the terminal to be opened, before it is added.                              *)
EXTENDS HomeLayout, Terminal

vars == <<layoutVars, terminalVars>>

Init == LayoutInit /\ TerminalInit

\* Mutant: the answer is added to the log without openTerminal.
Answered_Silent == CommandAnswered /\ UNCHANGED layoutVars

\* The answer to a command arrives.
Answered == CommandAnswered /\ TerminalOpenRequested

\* The Run tab logs.
Logged == OthersLog /\ TerminalOpenRequested

\* The user at the terminal.
Typing ==
  /\ UNCHANGED layoutVars
  /\ \/ \E text \in Commands \cup {Blank} : Type(text)
     \/ \E direction \in {"up", "down"} : LoadCommandFromHistory(direction)
     \/ HandleCommand

\* The user at the dividers and tabs.
Arranging == LayoutNext /\ UNCHANGED terminalVars

\* The page is loaded anew; answers to the old page are dropped.
Restart ==
  /\ Reload
  /\ terminalCommand' = Undefined
  /\ commandHistory' = <<Blank>>
  /\ historyIndex' = 0
  /\ pending' = 0
  /\ logs' = 0

Next == Typing \/ Arranging \/ Answered \/ Logged \/ Restart

Spec == Init /\ [][Next]_vars

-----------------------------------------------------------------------------
TypeOK ==
  /\ sidebarWidth \in Int
  /\ terminalHeight \in Int
  /\ resizingSidebar \in BOOLEAN
  /\ resizingTerminal \in BOOLEAN
  /\ lastX \in Int
  /\ lastY \in Int
  /\ terminalCommand \in Commands \cup {Blank, Undefined}
  /\ commandHistory \in Seq(Commands \cup {Blank, Undefined}) \ {<<>>}
  /\ historyIndex \in 0 .. Len(commandHistory) - 1
  /\ pending \in Nat
  /\ logs \in Nat

\* The size of a panel that keeps `min` to itself and leaves `min` beside it,
\* unless it is the size the panel has at first, or the window is too small for
\* both: then, and only then, it is what the window leaves.
InRange(size, min, default, lengths) ==
  \/ size >= min /\ (size <= default \/ \E n \in lengths : size <= n - min)
  \/ \E n \in lengths : n < 2 * min /\ size = n - min

\* No sequence of drags, with whatever coordinates and releases nobody saw, of
\* changes of the window, of tabs, log entries and restarts, takes a panel out of
\* its range; only the sidebar may be collapsed.
PanelsInRange ==
  /\ InRange(terminalHeight, MinTerminal, DefaultTerminal, Heights)
  /\ sidebarWidth = 0 \/ InRange(sidebarWidth, MinSidebar, DefaultSidebar, Widths)

\* What is logged can be seen: the terminal has its minimal height at least
\* whenever an entry is added, even if a window too low has squeezed it.
LogIsVisible == [][logs' > logs => terminalHeight' >= MinTerminal]_vars

\* Lines can be recalled as they were left.  A line changes only under the
\* cursor, while it stays there: walking changes none.  Executing the line puts
\* it second, undoes its edits where it was recalled from, and moves the others
\* but the draft, which goes.  Answers and layout do not matter.
LinesKept ==
  [][~Restart =>
       IF Len(commandHistory') > Len(commandHistory)
       THEN /\ Lines'[2] = terminalCommand
            /\ \A i \in 2 .. Len(Lines) : i # historyIndex + 1 => Lines'[i + 1] = Lines[i]
       ELSE \A i \in 1 .. Len(Lines) :
              Lines'[i] # Lines[i] => i = historyIndex + 1 /\ historyIndex' = historyIndex]_vars
=============================================================================

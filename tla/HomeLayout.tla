------------------------------ MODULE HomeLayout ------------------------------
(* The layout of the page: HomeComponent, which divides the window between     *)
(* sidebar, editor and terminal by following the mouse, keeps the sizes in     *)
(* localStorage, and reacts to TabService and TerminalService.                 *)
(*                                                                             *)
(* Mouse events arrive with the coordinates of the pointer, which while a      *)
(* button is held may lie outside the window; the release of the button may    *)
(* happen where the page does not see it.  The size of the window is asked for *)
(* at each event.  Writes to storage are taken to succeed.                     *)
EXTENDS Integers

CONSTANTS
  DefaultSidebar,   \* DEFAULT_SIDEBAR_WIDTH
  MinSidebar,       \* MIN_SIDEBAR_WIDTH, also the least the sidebar leaves
  DefaultTerminal,  \* DEFAULT_TERMINAL_HEIGHT
  MinTerminal,      \* MIN_TERMINAL_HEIGHT, also the least the terminal leaves
  Widths,           \* the widths the window may have
  Heights,          \* the heights the window may have
  Pointer           \* the coordinates the pointer may have

ASSUME LayoutAssumption ==
  /\ MinSidebar \in Nat \ {0}
  /\ MinTerminal \in Nat \ {0}
  /\ DefaultSidebar \in Nat /\ DefaultSidebar >= MinSidebar
  /\ DefaultTerminal \in Nat /\ DefaultTerminal >= MinTerminal
  /\ Widths \subseteq Nat
  /\ Heights \subseteq Nat
  /\ Pointer \subseteq Int

VARIABLES
  sidebarWidth,      \* _sidebarWidth, and what storage has of it
  terminalHeight,    \* _terminalHeight, and what storage has of it
  resizingSidebar,   \* _resizingSidebar
  resizingTerminal,  \* _resizingTerminal
  lastX,             \* _lastX
  lastY              \* _lastY

sizes == <<sidebarWidth, terminalHeight>>
drag == <<resizingSidebar, resizingTerminal, lastX, lastY>>
layoutVars == <<sizes, drag>>

\* Math.min(Math.max(n, low), high): the upper limit wins.
Clamp(n, low, high) ==
  LET raised == IF n < low THEN low ELSE n IN IF raised > high THEN high ELSE raised

-----------------------------------------------------------------------------
LayoutInit ==
  /\ sidebarWidth = DefaultSidebar
  /\ terminalHeight = DefaultTerminal
  /\ resizingSidebar = FALSE
  /\ resizingTerminal = FALSE
  /\ lastX = 0
  /\ lastY = 0

\* The page is loaded anew: a stored size of 0 counts as none.
Reload ==
  /\ sidebarWidth' = IF sidebarWidth = 0 THEN DefaultSidebar ELSE sidebarWidth
  /\ terminalHeight' = IF terminalHeight = 0 THEN DefaultTerminal ELSE terminalHeight
  /\ resizingSidebar' = FALSE
  /\ resizingTerminal' = FALSE
  /\ lastX' = 0
  /\ lastY' = 0

\* The button goes down on a divider.
ResizeSidebar(x) ==
  /\ resizingSidebar' = TRUE
  /\ lastX' = x
  /\ UNCHANGED <<sizes, resizingTerminal, lastY>>

ResizeTerminal(y) ==
  /\ resizingTerminal' = TRUE
  /\ lastY' = y
  /\ UNCHANGED <<sizes, resizingSidebar, lastX>>

\* The pointer moves to (x, y) in a window of the given size.
DragSidebar(x, width) ==
  /\ resizingSidebar
  /\ sidebarWidth' = IF x > MinSidebar
                     THEN Clamp(sidebarWidth + x - lastX, MinSidebar, width - MinSidebar)
                     ELSE 0
  /\ lastX' = x
  /\ UNCHANGED <<terminalHeight, resizingSidebar, resizingTerminal, lastY>>

\* Mutant: the terminal collapses where the sidebar does.
DragTerminal_Collapses(y, height) ==
  /\ resizingTerminal /\ ~resizingSidebar
  /\ terminalHeight' = IF y < height - MinTerminal
                       THEN Clamp(terminalHeight - y + lastY, MinTerminal, height - MinTerminal)
                       ELSE 0
  /\ lastY' = y
  /\ UNCHANGED <<sidebarWidth, resizingSidebar, resizingTerminal, lastX>>

DragTerminal(y, height) ==
  /\ resizingTerminal /\ ~resizingSidebar
  /\ terminalHeight' = IF y < height - MinTerminal
                       THEN Clamp(terminalHeight - y + lastY, MinTerminal, height - MinTerminal)
                       ELSE MinTerminal
  /\ lastY' = y
  /\ UNCHANGED <<sidebarWidth, resizingSidebar, resizingTerminal, lastX>>

MouseUp ==
  /\ resizingSidebar' = FALSE
  /\ resizingTerminal' = FALSE
  /\ UNCHANGED <<sizes, lastX, lastY>>

\* Another tab of the sidebar is chosen.
TabChanged ==
  /\ sidebarWidth' = IF sidebarWidth < MinSidebar THEN DefaultSidebar ELSE sidebarWidth
  /\ UNCHANGED <<terminalHeight, drag>>

\* Something is logged: the terminal asks to be opened.
TerminalOpenRequested ==
  /\ terminalHeight' = IF terminalHeight < MinTerminal THEN MinTerminal ELSE terminalHeight
  /\ UNCHANGED <<sidebarWidth, drag>>

MouseMoves ==
  \E p \in Pointer :
    \/ \E width \in Widths : DragSidebar(p, width)
    \/ \E height \in Heights : DragTerminal(p, height)

LayoutNext ==
  \/ MouseMoves
  \/ \E p \in Pointer : ResizeSidebar(p) \/ ResizeTerminal(p)
  \/ MouseUp
  \/ TabChanged
=============================================================================

\* Terminal and layout under any user, node and window.
SPECIFICATION Spec
CONSTANTS
  send = send
  clear = clear
  Commands <- MCCommands
  Clear = clear
  Blank = Blank
  Undefined = Undefined
  MaxCommands = 2
  MaxLogs = 1
  DefaultSidebar = 4
  MinSidebar = 3
  DefaultTerminal = 5
  MinTerminal = 2
  Widths <- MCWidths
  Heights <- MCHeights
  Pointer <- MCPointer
INVARIANTS
  TypeOK
  PanelsInRange
PROPERTIES
  LogIsVisible
  LinesKept

\* One window with its file list, storage never throws: does a restart find
\* everything, and does each name go to its file?
SPECIFICATION SidebarSpec
CONSTANTS
  Windows = {w1}
  Ids = {f1, f2, f3}
  NoFile = NoFile
  Names <- MCNames
  Contents = {empty, text}
  Empty = empty
  MayThrow = {}
  Blank = Blank
  NoMenu = NoMenu
SYMMETRY Symmetry
INVARIANTS
  CloseAllLeavesNone
  StorageMirrorsWindow
  RestartSucceeds
  QuietExitLosesNothing
  TargetsAreThere
PROPERTIES
  KeepsDocuments
  NamedAsTyped

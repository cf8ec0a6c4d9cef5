\* Requests overlap: does the result end up being of what was asked about last?
SPECIFICATION IdeSpec
CONSTANTS
  empty = empty
  imp = imp
  Windows = {w1}
  Ids = {f1, f2}
  NoFile = NoFile
  Names <- MCNames
  Contents = {empty, imp}
  Empty = empty
  MayThrow <- MCNoThrows
  Imports <- MCImports
  Leading <- MCNoLeading
  Faulty = {}
  OmitsContracts = FALSE
  Overlap = TRUE
  MaxRequests = 3
SYMMETRY Symmetry
INVARIANTS
  LastAskedIsShown

\* One window, either write may throw: is the selected file always open, and
\* no typed text lost?
SPECIFICATION Spec
CONSTANTS
  Windows = {w1}
  Ids = {f1, f2}
  NoFile = NoFile
  Names <- MCNames
  Contents = {empty, text}
  Empty = empty
  MayThrow = {"selected", "tree"}
SYMMETRY Symmetry
INVARIANTS
  TypeOK
  SelectedIsOpen
PROPERTIES
  TypedTextKept

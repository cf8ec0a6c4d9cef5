\* Two windows on one storage: is a window with unsaved files asked about?
SPECIFICATION Spec
CONSTANTS
  Windows = {w1, w2}
  Ids = {f1, f2}
  NoFile = NoFile
  Names <- MCOneName
  Contents = {empty, text}
  Empty = empty
  MayThrow = {}
SYMMETRY SymmetryWindows
INVARIANTS
  UnsavedFilesAreWarned

\* Imports of imports, one compilation at a time: are all gathered?
SPECIFICATION Spec
CONSTANTS
  t = t
  l = l
  m = m
  x = x
  None = None
  Names <- MCNestedNames
  Texts <- MCNestedNames
  Selections <- MCNestedSelections
  Libraries <- MCNestedLibraries
  Imports <- MCNestedImports
  Leading <- MCNestedNoLeading
  Faulty <- MCNoFaulty
  OmitsContracts = FALSE
  Modes = {"worker", "page"}
  LoadsMayFail = FALSE
  Overlap = FALSE
  MaxRequests = 4
  MaxLoads = 1
INVARIANTS
  ImportsGathered

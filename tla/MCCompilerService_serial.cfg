\* Nobody asks while a compilation is under way: is each answer the one asked for?
SPECIFICATION FairSpec
CONSTANTS
  t = t
  l = l
  m = m
  x = x
  None = None
  Names <- MCNames
  Texts <- MCNames
  Selections <- MCSelections
  Libraries <- MCLibraries
  Imports <- MCImports
  Leading <- MCNoLeading
  Faulty <- MCFaulty
  OmitsContracts = FALSE
  Modes = {"worker", "page"}
  LoadsMayFail = FALSE
  Overlap = FALSE
  MaxRequests = 10
  MaxLoads = 2
PROPERTIES
  AnsweredForItsFiles
  CompilesInTurn

\* Requests overlap, two versions that may fail to load, with and without workers:
\* does every call end, and the progress bars with it?
SPECIFICATION FairSpec
CONSTANTS
  t = t
  l = l
  m = m
  x = x
  None = None
  Names <- MCTwoNames
  Texts <- MCTwoNames
  Selections <- MCTwoSelections
  Libraries <- MCTwoLibrary
  Imports <- MCTwoImports
  Leading <- MCTwoNoLeading
  Faulty <- MCNoFaulty
  OmitsContracts = TRUE
  Modes = {"worker", "page", "fallback"}
  LoadsMayFail = TRUE
  Overlap = TRUE
  MaxRequests = 2
  MaxLoads = 2
INVARIANTS
  TypeOK
  WaitingIsOutstanding
  RunTabTracksCalls
PROPERTIES
  CallsComplete
  CompilingEnds

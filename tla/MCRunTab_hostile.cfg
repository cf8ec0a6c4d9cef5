\* The URL may change at any time, any request may be lost: what holds regardless?
SPECIFICATION Spec
CONSTANTS
  Nodes = {n1, n2}
  NoNode = NoNode
  Ops = {o1, o2, o3}
  Listing = Listing
  UrlMayChange = TRUE
  MayFail = TRUE
SYMMETRY Symmetry
CHECK_DEADLOCK FALSE
INVARIANTS
  TypeOK
  LoadedWhereDeployed
  OutcomeReported

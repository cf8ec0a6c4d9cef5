\* One URL, nothing lost: is every transaction on its way into a block, and does
\* everything come to its end?
SPECIFICATION FairSpec
CONSTANTS
  Nodes = {n1, n2}
  NoNode = NoNode
  Ops = {o1, o2}
  Listing = Listing
  UrlMayChange = FALSE
  MayFail = FALSE
CHECK_DEADLOCK FALSE
INVARIANTS
  MiningIsOnTheWay
PROPERTIES
  TransactionsMined
  SendsConfirmed
  LoadingEnds

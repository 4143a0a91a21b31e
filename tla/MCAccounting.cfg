SPECIFICATION Spec
CONSTANTS
  in = in
  out = out
  Documents <- MCDocuments
  NoDocument = nodoc
  NoBook = nobook
  control = control
  branch = branch
  Books <- MCBooks
  Control = control
  Start <- MCStart
  LastMonth = 3
  Posts <- MCPosts
  Life = 2
  KindsOf <- MCKindsOf
  OpeningStock <- MCOpeningStock
  OpeningAdopts = FALSE
  EarlyDisposals = FALSE
  Requests = {t1, t2}
SYMMETRY MCRequests
INVARIANTS
  TypeOK
  ClosedMonthsStand
  ClosedMonthsComplete
  OrderlyClosing
  ClosedMonthsReproducible
  StockStands
  AssetsAccountedFor
  WearAddsUp

SPECIFICATION Spec
CONSTANTS
  in = in
  out = out
  Documents <- MCDocuments
  NoDocument = nodoc
  NoBook = nobook
  control = control
  branch = branch
  Books <- MCBooks
  Control = control
  Start <- MCStart
  LastMonth = 2
  Posts <- MCPosts
  Life = 2
  KindsOf <- MCKindsOf
  OpeningStock <- MCOpeningStock
  OpeningAdopts = TRUE
  EarlyDisposals = FALSE
  Requests = {t1}
INVARIANTS
  ClosedMonthsReproducible

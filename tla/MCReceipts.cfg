SPECIFICATION QuantitiesSpec
CONSTANTS
  Documents = {d1, d2, d3, d4, d5}
  NoDocument = NoDocument
  Entities <- MCEntities
  MaxRevision = 3
  MaxDeletions = 1
  MaxOrders = 3
  MaxQuantity = 2
  MaxChains = 1
  Amount <- MCAmount
SYMMETRY MCSymmetry
\* revisions and deletions are used up in the end
CHECK_DEADLOCK FALSE
INVARIANTS
  NetReceiptsWithinOrder

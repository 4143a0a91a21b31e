SPECIFICATION Spec
CONSTANTS
  Documents = {d1, d2, d3}
  NoDocument = NoDocument
  Entities <- MCEntities
  MaxRevision = 3
  MaxDeletions = 1
  MaxOrders = 1
  Definitions <- MCDefinitions
  Keys <- MCKeys
  NoKey = NoKey
  NoInstance = NoInstance
  RequestKeys = {q1, q2}
  NoRequest = NoRequest
SYMMETRY MCSymmetry
\* revisions and deletions are used up in the end
CHECK_DEADLOCK FALSE
INVARIANTS
  TypeOK
  ApprovedRestOnApproved
  OneChildPerPosition
  OpenRootHoldsNothing
  RequestBuildsOnce

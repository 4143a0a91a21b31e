SPECIFICATION Spec
CONSTANTS
  me = me
  other = other
  d1 = d1
  d2 = d2
  Users = {me, other}
  NoUser = NoUser
  Trusted = {}
  Permissions <- MCPermissions
  Documents = {d1, d2}
  NoDocument = NoDocument
  Me = me
  SubmittedBy <- MCSubmittedBy
\* revision 3 allows two changes of a document: one of the page and one beside it
  MaxRevision = 3
\* a list the user asks for, besides those that writes wait for
  MaxLists = 1
\* a detail that was closed and the one opened after it
  MaxDetails = 2
\* nothing happens any more on a page that was left
CHECK_DEADLOCK FALSE
INVARIANTS
  TypeOK
  ListKeepsUp
  DetailIsTheOpened
  VerdictsAreTrue
  NoSecondDecision
PROPERTIES
  WaitsEnd

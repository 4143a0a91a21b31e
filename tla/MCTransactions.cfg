SPECIFICATION TxSpec
CONSTANTS
  u1 = u1
  u2 = u2
  s1 = s1
  s2 = s2
  Users = {u1, u2}
  NoUser = NoUser
  Trusted = {}
  Permissions <- MCPermissions
  Subjects = {s1, s2}
  NoSubject = NoSubject
  Id <- MCId
  SubmissionIds = {i1, i2}
  NoSubmission = NoSubmission
  BusinessKeys = {k1}
  NoKey = NoKey
  IdempotencyKeys = {q1, q2, q3}
  KeyScope = "latest"
  FormulaPins = TRUE
  MaxRevision = 3
  MaxObjectRevision = 2
  Txs = {t1, t2}
SYMMETRY MCSymmetry
VIEW MCView
\* every idempotency key and revision is used up in the end
CHECK_DEADLOCK FALSE
INVARIANTS
  NoLockCycle
PROPERTIES
  CommitsAreSerial

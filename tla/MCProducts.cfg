SPECIFICATION Spec
CONSTANTS
  u1 = u1
  u2 = u2
  Users = {u1, u2}
  NoUser = NoUser
  Trusted = {}
  Permissions <- MCPermissions
  Subjects = {s1, s2}
  NoSubject = NoSubject
  SubmissionIds = {i1, i2, i3}
  NoSubmission = NoSubmission
  BusinessKeys = {k1}
  NoKey = NoKey
  IdempotencyKeys = {q1, q2, q3, q4}
  KeyScope = "latest"
  FormulaPins = TRUE
  MaxRevision = 3
  MaxObjectRevision = 2
SYMMETRY MCSymmetry
\* every idempotency key and revision is used up in the end
CHECK_DEADLOCK FALSE
INVARIANTS
  TypeOK
  BusinessKeysUnique
  VersionsNumbered
  ApprovedFormulaPinned
PROPERTIES
  KeysSpentOnce
  ImplementsFormalVersions

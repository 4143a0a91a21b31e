SPECIFICATION Spec
CONSTANTS
  u1 = u1
  u2 = u2
  sys = sys
  Users = {u1, u2, sys}
  NoUser = NoUser
  Trusted = {sys}
  Permissions <- MCPermissions
  EntryIds = {e1}
  Txs = {t1, t2}
  NoTx = NoTx
  MaxEvents = 5
SYMMETRY MCTxSymmetry
\* requests stop coming, and the trail is bounded: the system may rest
CHECK_DEADLOCK FALSE
INVARIANTS
  TypeOK
  HeldIsCurrent
  FourEyes
  TrailMatchesEntry

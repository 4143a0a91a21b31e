SPECIFICATION Spec
CONSTANTS
  Intents = {i1, i2}
  Tasks = {r1, r2}
  NoIntent = NoIntent
  Retries = FALSE
  LostCommits = TRUE
  MaxFaults = 1
SYMMETRY MCSymmetry
INVARIANTS
  TypeOK
  AdoptedFilesExist
  UnadoptedFilesStay
  NothingLeaks

SPECIFICATION Spec
CONSTANTS
  Intents = {i1, i2}
  Tasks = {r1, r2}
  NoIntent = NoIntent
  Retries = TRUE
  LostCommits = FALSE
  MaxFaults = 0
SYMMETRY MCSymmetry
INVARIANTS
  AdoptedFilesExist

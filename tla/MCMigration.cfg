SPECIFICATION MigrationSpec
CONSTANTS
  None = None
  n1 = n1
  n2 = n2
  Names = {n1, n2}
  Files <- MCFiles
  Batches = {b1, b2, b3}
  Steps = {s1, s2}
  Clerks = {c1, c2}
SYMMETRY Alike
CONSTRAINT InDepth
INVARIANTS MigrationSound LinesImportedOnce ClosedIsSettled
PROPERTIES RetiredStepsStay
CHECK_DEADLOCK FALSE

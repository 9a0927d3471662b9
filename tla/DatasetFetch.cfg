SPECIFICATION Spec
CONSTANTS
  NFiles = 3
  MaxRuns = 3
INVARIANTS
  CheckedRunIsWhole
  HonestRunHeals
PROPERTIES
  GoodFilesStay
CHECK_DEADLOCK FALSE

SPECIFICATION Spec
CONSTANTS
  a = a
  b = b
  Retrainers = {a, b}
  Scores = {1, 2}
  SaveOrder <- MCSaveOrder
  MaxTrainings = 3
SYMMETRY MCSymmetry
INVARIANTS
  CurrentWhole
  CurrentUnmixed
  NeverWorse
CHECK_DEADLOCK FALSE

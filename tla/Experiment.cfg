SPECIFICATION ExperimentSpec
CONSTANTS
  WindowSeconds = 2
  GuardSeconds = 3
  RowSpacing = 1
  MinPerClass = 1
  FloodDays = {1, 2}
  BenignDays = {3, 4}
  DetectiveDays = {3, 4}
  Corpora <- MCCorpora
  Shuffles <- MCShuffles
  Limits = {0, 2, 5}
  DefaultLimit = 2
  MaxRuns = 2
INVARIANTS
  TestsUnseen
  BenignIsBenign
  ReportIsOfTheseWeights
CHECK_DEADLOCK FALSE

SPECIFICATION LoadersSpec
CONSTANTS
  MaxRows <- MCMaxRows
  Sizes = {1, 3}
  LoadLimits = {0, 2}
  Chunk = 2
  Layouts <- MCLayouts
  Guard = 1
  None = None
INVARIANTS
  LoadIsSample
  TimesFollow
  IntervalsTell
  AmbiguityIsKnown
CHECK_DEADLOCK FALSE

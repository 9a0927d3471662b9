SPECIFICATION Spec
CONSTANTS
  GrayZoneLow = 50
  BlockThreshold = 85
  BlockTTL = 3
  DeriveGrayLow = 50
  DeriveBlockThreshold = 85
  FullConfidence = 100
  i1 = i1
  i2 = i2
  w1 = w1
  w2 = w2
  w3 = w3
  IPs = {i1, i2}
  Windows = {w1, w2, w3}
  Verdicts <- MCVerdicts
  MaxActions = 2
  Minute = 2
  MaxSkew = 1
  MaxClock = 4
SYMMETRY MCSymmetry
INVARIANTS
  RateCap
  WindowActedOnce
  BlockLastsTTL
  AllowlistTakesEffect
PROPERTIES
  BlockedOnlyByDecision
CHECK_DEADLOCK FALSE

SPECIFICATION ClientSpec
CONSTANTS
  GrayZoneLow = 50
  BlockThreshold = 85
  BlockTTL = 900
  DeriveGrayLow = 50
  DeriveBlockThreshold = 85
  FullConfidence = 100
  Confidences <- MCConfidences
  Predicted <- MCPredicted
  BadTier = "sensor"
  BadLabel = "worm"
INVARIANTS
  DecisionTotal
  ConfidenceMonotone
  DerivationAgrees
  BlockJustified
CHECK_DEADLOCK FALSE

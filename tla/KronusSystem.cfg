SPECIFICATION Spec
CONSTANTS
  GrayZoneLow = 50
  BlockThreshold = 85
  BlockTTL = 900
  DeriveGrayLow = 50
  DeriveBlockThreshold = 85
  FullConfidence = 100
  r1 = r1
  r2 = r2
  e1 = e1
  e2 = e2
  Requests = {r1, r2}
  Events = {e1, e2}
  IPs = {1, 2}
  Source <- MCSource
  Dest <- MCDest
  TopK = 3
  Environments <- MCEnvironments
SYMMETRY MCSymmetry
INVARIANTS
  AuditComplete
  JobsAccounted
  CorrectionNamesLatest
  EnforcedOnce
  BothLanesFed
  AuditOrder
CHECK_DEADLOCK FALSE

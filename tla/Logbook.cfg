SPECIFICATION FeedSpec
CONSTANTS
  Appenders = {a1, a2}
  Payloads = {"detection", "policy_decision"}
  Stores = {"sqlite", "postgres"}
  MaxEntries = 3
  MaxTampers = 2
  Clients = {c1}
  MaxPolls = 2
  MaxLives = 2
SYMMETRY MCSymmetry
INVARIANTS
  TamperLocated
  FeedOnce
PROPERTIES
  AppendsNeverMask
CHECK_DEADLOCK FALSE

SPECIFICATION FeedSpec
CONSTANTS
  Appenders = {a1, a2}
  Payloads = {"detection", "policy_decision"}
  Stores = {"postgres"}
  MaxEntries = 3
  MaxTampers = 0
  Clients = {c1}
  MaxPolls = 0
  MaxLives = 1
INVARIANTS
  AppendsKeepChain
CHECK_DEADLOCK FALSE

SPECIFICATION BackendSpec
CONSTANTS
  r1 = r1
  r2 = r2
  r3 = r3
  bouncer = bouncer
  graph = graph
  Messages = {m1, m2}
  Groups = {bouncer, graph}
  Readers = {r1, r2, r3}
  GroupOf <- MCGroupOf
  Subscriptions = {1, 2, 3}
  MaxPublished = 2
  NoQueue = NoQueue
  Steady = {r1}
  Consumers = {r1, r2}
  Sessions = {1, 2, 3}
  NoReader = NoReader
INVARIANTS
  SessionsJoin
PROPERTIES
  Stream
  SteadyGroupServed
  RedpandaStream
CHECK_DEADLOCK FALSE

SPECIFICATION FairSpec
CONSTANTS
  Listeners = {plain, tls}
  Negotiating = {tls}
  Connections = {c1, c2}
  ConnectionsPerSecond = 2
INVARIANTS
  TypeOK
  CountersExact
PROPERTIES
  CompletesEarlyOnlyUncounted
  ShutdownCompletes
CHECK_DEADLOCK FALSE

SPECIFICATION FairSpec
CONSTANTS
  c1 = c1
  c2 = c2
  w1 = w1
  Calls = {c1, c2}
  Wallets = {w1}
  About <- MCAbout
  Scenarios <- MCScenarios
INVARIANTS
  PathInv
  RefusalsAreFounded
PROPERTIES
  EveryCallEnds
  ShutdownEnds
  ExitAbandonsNoCaller
  ImplementsRemoteCall

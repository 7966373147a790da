SPECIFICATION FairSpec
CONSTANTS
  Environments <- MCEnvironments
  Requests = {1, 2, 3, 4}
  Stuck = {1}
  BatchSize = 2
  MaxErrors = 2
  MaxStops = 3
INVARIANTS
  LifecycleInv
  PollsOnlyIfChecked
PROPERTIES
  CleanExitIsDrained
  NothingStartedAfterSignal
  SignalExits
  OthersAreServed

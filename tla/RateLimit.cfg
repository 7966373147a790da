SPECIFICATION FairSpec
CONSTANTS
  h1 = h1
  h2 = h2
  NoRow = NoRow
  Handlers = {h1, h2}
  RowIds = {1, 2}
  Limit = 2
  ReplayWindow = 2
  Window = 3
  BlockDuration = 2
INVARIANTS
  CounterInv
PROPERTIES
  ClientsAreServed
  EchoesAreRefused

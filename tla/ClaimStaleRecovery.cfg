SPECIFICATION FairSpec
CONSTANTS
  w1 = w1
  w2 = w2
  r1 = r1
  r2 = r2
  None = None
  Requests = {r1}
  Wallets = {w1}
  Owner <- LoneOwner
  Leftovers = {r1}
  MaxLeftoverRelays = 3
  Workers = {k1}
  Handlers = {h1}
  TxIds = {t1, t2}
  MaxRetries = 5
  MaxRelayAttempts = 3
  MaxCount = 0
  MaxFaults = 0
PROPERTY StaleIsRecovered

SPECIFICATION Spec
CONSTANTS
  w1 = w1
  w2 = w2
  r1 = r1
  r2 = r2
  None = None
  Requests = {r1}
  Wallets = {w1}
  Owner <- LoneOwner
  Leftovers = {}
  MaxLeftoverRelays = 0
  Workers = {k1, k2}
  Handlers = {h1}
  TxIds = {t1, t2}
  MaxRetries = 5
  MaxRelayAttempts = 3
  MaxCount = 0
  MaxFaults = 1
INVARIANT NoConcurrentBroadcast

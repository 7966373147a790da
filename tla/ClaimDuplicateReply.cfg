SPECIFICATION Spec
CONSTANTS
  w1 = w1
  w2 = w2
  r1 = r1
  r2 = r2
  None = None
  Requests = {r1, r2}
  Wallets = {w1}
  Owner <- OneOwner
  Leftovers = {}
  MaxLeftoverRelays = 0
  Workers = {k1}
  Handlers = {h1, h2}
  TxIds = {t1, t2}
  MaxRetries = 5
  MaxRelayAttempts = 3
  MaxCount = 0
  MaxFaults = 0
INVARIANT DuplicateIsBadRequest

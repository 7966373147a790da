SPECIFICATION FairSpec
CONSTANTS
  w1 = w1
  w2 = w2
  r1 = r1
  r2 = r2
  None = None
  Requests = {r1, r2}
  Wallets = {w1}
  Owner <- OneOwner
  Leftovers = {r1}
  MaxLeftoverRelays = 2
  Workers = {k1, k2}
  Handlers = {h1}
  TxIds = {t1}
  MaxRetries = 2
  MaxRelayAttempts = 1
  MaxCount = 0
  MaxFaults = 1
PROPERTIES
  NoRelayBesideActiveOne
  RelayRowsBounded
  RecoverableIsSettled
  PendingIsSettled

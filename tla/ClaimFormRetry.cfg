SPECIFICATION Spec
CONSTANTS
  Requests = {r1}
  Intervals = {i1}
  Polls = {p1, p2}
  None = None
  MAX_POLLING_RETRIES = 3
INVARIANT StoppedOffersRetry

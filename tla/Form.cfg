SPECIFICATION FairSpec
CONSTANTS
  Requests = {r1, r2}
  Intervals = {i1, i2}
  Polls = {p1, p2}
  None = None
  MAX_POLLING_RETRIES = 3
INVARIANTS
  RetryIsSafe
  OneIntervalPerRequest
  FormInv
PROPERTY PromptIsShown

SPECIFICATION FetcherSpec
CONSTANTS
  Asker = {a1, a2}
  NoBlock = NoBlock
  MaxRetryCount = 1
  MaxRedirects = 1
  Statuses <- MCStatuses
INVARIANT FetcherRests
CHECK_DEADLOCK FALSE

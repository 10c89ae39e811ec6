CONSTANTS
  Workers = {w1}
  Scanners = {d1}
  Adapters = {"linkedin"}
  NoWorker = NoWorker
  Limits <- RetryLimits
SPECIFICATION FairSpec
PROPERTIES PublishingEnds
CHECK_DEADLOCK FALSE

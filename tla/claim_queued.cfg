CONSTANTS
  Workers = {w1}
  Scanners = {d1}
  Adapters = {"linkedin"}
  NoWorker = NoWorker
  Limits <- CrashLimits
SPECIFICATION FairSpec
PROPERTIES NextScanRetries
CHECK_DEADLOCK FALSE

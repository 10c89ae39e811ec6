CONSTANTS
  Workers = {w1, w2}
  Scanners = {d1}
  Adapters = {"linkedin", "facebook"}
  NoWorker = NoWorker
  Limits <- LivenessLimits
SPECIFICATION FairSpec
PROPERTIES AbandonedIsRecovered QueuedIsTaken
CHECK_DEADLOCK FALSE

CONSTANTS
  Workers = {w1, w2}
  Scanners = {d1}
  Adapters = {"linkedin", "ig_reel", "youtube", "ig_image", "facebook", "ig_carousel"}
  NoWorker = NoWorker
  Limits <- SafetyLimits
SYMMETRY WorkerSymmetry
SPECIFICATION Spec
INVARIANTS TypeOK AtMostOnce DeletedIsGone Fenced CheckpointBeforeMutation PublishedIsReal FailureIsTruthful
CHECK_DEADLOCK FALSE

CONSTANTS
  Requests = {c1, c2}
  Scans = {r1, r2}
  MaxUploads = 2
  MaxFaults = 2
SPECIFICATION MediaFairSpec
INVARIANTS TypeOK ReadyHasObject UploadedIsKept
PROPERTIES ProcessingEnds
CHECK_DEADLOCK FALSE

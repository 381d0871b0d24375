SPECIFICATION FairSpec
CONSTANTS
  N = 1
  Combined = {1}
  MaxAttempts = 1
  MaxRuns = 1
  MaxLate = 0
PROPERTIES
  EventuallySettled
CHECK_DEADLOCK FALSE

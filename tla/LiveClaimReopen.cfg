SPECIFICATION Spec
CONSTANTS
  Hook = "snapshot"
  MaxVersion = 2
  MaxFaults = 2
  MaxChecks = 1
INVARIANT ReopenRefetches
CHECK_DEADLOCK FALSE

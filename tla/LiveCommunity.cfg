SPECIFICATION FairSpec
CONSTANTS
  Hook = "community"
  MaxVersion = 2
  MaxFaults = 3
  MaxChecks = 2
INVARIANTS
    PageInv
PROPERTIES
    EventuallyFresh
CHECK_DEADLOCK FALSE

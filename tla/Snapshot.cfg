SPECIFICATION Spec
CONSTANTS
  N = 1
  Combined = {}
  MaxAttempts = 2
  MaxRuns = 1
  MaxLate = 1
INVARIANTS
  TypeOK
  RowConsistent
  CompletedHasObjects
  
  SentWasPosted
  CompletedRunSettled
PROPERTIES
  StatusMachine
CHECK_DEADLOCK FALSE

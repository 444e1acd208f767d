SPECIFICATION Spec
CONSTANTS
  Watches = FALSE
  MaxReads = 2
INVARIANT ReadsTheFile
CHECK_DEADLOCK FALSE

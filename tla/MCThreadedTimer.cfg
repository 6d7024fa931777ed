SPECIFICATION Spec
CONSTANTS
  Results = {TRUE, FALSE}
  MaxStarts = 3
  MaxCalls = 4
INVARIANTS QuietAfterStop
PROPERTIES OneThread StopReturns
CHECK_DEADLOCK FALSE

SPECIFICATION Spec
CONSTANTS
  Thread = {"t1"}
  MayCall <- StopsOnly
  Builders = {}
  Starts = {0, 1, 2, 3, 4, 5, 6, 7, 8, 9}
  LastClock = 10
  MaxCalls = 2
  MaxAppends = 2
PROPERTIES BreakpointAddressExact
CHECK_DEADLOCK FALSE

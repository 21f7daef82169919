SPECIFICATION FairSpec
CONSTANTS
  Tool = {t1, t2}
  MaxRuns = 3
  Faults = {"read", "write", "connect", "kill"}
INVARIANTS HungInvokeCannotStrand FlagAfterRestore RegisteredOnce
PROPERTIES SuccessMeansRestored CallsEnd
CHECK_DEADLOCK FALSE

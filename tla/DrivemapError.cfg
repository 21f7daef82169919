SPECIFICATION Spec
CONSTANTS
  Tool = {t1}
  MaxRuns = 2
  Faults = {"connect"}
INVARIANT PatchReversed
CHECK_DEADLOCK FALSE

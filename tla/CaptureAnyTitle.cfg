SPECIFICATION FairSpec
CONSTANTS
  Segments = 2
  Answers = {"ok", "noop", "busy"}
  Codes = {"digits", "letters"}
  MaxRuns = 2
  MaxNoise = 2
INVARIANTS NothingMissed ReadyUnlessMisread EverySegmentKept FetchesCompleted
PROPERTIES CaptureEnds
CHECK_DEADLOCK FALSE

SPECIFICATION FairSpec
CONSTANTS
  Jobs <- EveryCommand
  FileSystems <- TwoFileSystems
  MaxEdits = 2
INVARIANTS SuccessMeansWhole TreeIsExact AskedOnce
PROPERTIES ToolEnds
CHECK_DEADLOCK FALSE

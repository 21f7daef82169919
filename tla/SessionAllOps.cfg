SPECIFICATION FairSpec
CONSTANTS
  Tag = {0, 1, 2}
  Word = {"line", "eager", "get", "range", "shot", "send", "bye", "payload"}
  MaxLine = 20
  Ops = {"line", "eager", "get", "range", "shot", "send", "bye"}
  MaxOps = 2
  Bodies <- TrickyBodies
  AskedLen = 2
  UploadLen = 2
  ShortRanges = FALSE
  FlushMayPend = TRUE
  AbandonUploads = TRUE
INVARIANTS AnswersAreExact HeadIsOwn QuietWhenIdle PayloadNeverExecuted CommandsNeverStored AnswersAreWhole
PROPERTIES OperationsEnd
CHECK_DEADLOCK FALSE

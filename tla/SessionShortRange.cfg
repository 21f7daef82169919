SPECIFICATION Spec
CONSTANTS
  Tag = {0, 1, 2}
  Word = {"line", "eager", "get", "range", "shot", "send", "bye", "payload"}
  MaxLine = 20
  Ops = {"line", "range"}
  MaxOps = 2
  Bodies <- TrickyBodies
  AskedLen = 3
  UploadLen = 2
  ShortRanges = TRUE
  FlushMayPend = FALSE
  AbandonUploads = FALSE
CHECK_DEADLOCK FALSE
INVARIANT HeadIsOwn

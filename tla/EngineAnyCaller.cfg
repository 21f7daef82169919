SPECIFICATION Spec
CONSTANTS
  Tag = {0}
  Word = {cmd}
  MaxLine = 2
  Chunk <- AnswerChunks
  BodyLen = {0, 2}
  Buffer = {4}
  MaxFed = 7
  MaxAsked = 2
INVARIANTS OneAnswerEach EventOrder CutsDoNotMatter
PROPERTIES DeadStaysDead ImplementsChannel
CHECK_DEADLOCK FALSE

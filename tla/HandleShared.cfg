SPECIFICATION FairSpec
CONSTANTS
  Thread = {"t1", "t2"}
  MayCall <- AllAndFew
  Builders = {"t2"}
  Starts = {4}
  LastClock = 5
  MaxCalls = 1
  MaxAppends = 2
INVARIANTS ParsingIsExact NothingDropped
PROPERTIES AnswersAreCurrent CallsReturn
CHECK_DEADLOCK FALSE

SPECIFICATION Spec
CONSTANTS
  Source = {a, b}
  Name = {"wanted", "other"}
  WantedName = "wanted"
  ListenFor = 5
  Retransmits = 1
  Interval = 2
  MaxNow = 6
  MaxHanded = 3
  MaxDones = 2
INVARIANTS AcceptedOnce SendsSpaced
CHECK_DEADLOCK FALSE

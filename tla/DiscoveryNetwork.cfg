SPECIFICATION FairSpec
CONSTANTS
  Source = {"a", "b", "c"}
  Name = {"wanted", "other"}
  WantedName = "wanted"
  ListenFor = 3
  Retransmits = 1
  Interval = 1
  NameOf <- Names3
  Stray <- MalformedStray
  MaxNow = 4
  MaxHeard = 3
INVARIANTS ReturnsWhatItHeard LookupIsExact
PROPERTIES ImplementsDiscovery SleepsAhead DriveReturns
CHECK_DEADLOCK FALSE

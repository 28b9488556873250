\* A change committed between two sessions.
SPECIFICATION FairSpec
CONSTANTS
  Id = {"1"}
  Text = {"a"}
  Null = Null
  Absent = Absent
  Column = {"body"}
  Identity = {"default"}
  Toasted = {}
  MaxChanges = 3
  MaxStops = 2
PROPERTIES
  EveryChangePublished
CHECK_DEADLOCK FALSE

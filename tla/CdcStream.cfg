\* Changes of every kind, under both identities, across a session that ends.
CONSTANTS
  Id = {"1", "2"}
  Text = {"b"}
  Null = Null
  Absent = Absent
  Column = {"body"}
  Identity = {"full", "default"}
  Toasted = {"b"}
  MaxChanges = 3
  MaxStops = 1
SPECIFICATION FairSpec
INVARIANTS
  
  SessionComplete
  
PROPERTIES
  SessionFollows
CHECK_DEADLOCK FALSE

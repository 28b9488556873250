\* Overlapping and refused fragments, over broken connections.
CONSTANTS
  Request <- MCRequest
  Payload <- MCPayload
  Reloadable <- Keys
  Initial <- MCInitial
  BadValue = BadValue
  NoRequest = NoRequest
  MaxBreaks = 2
SPECIFICATION FairReloaderSpec
INVARIANTS
  AnswersAgree
PROPERTIES
  ReloadAtomic
  DeliveredAnswered
CHECK_DEADLOCK FALSE

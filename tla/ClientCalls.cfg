SPECIFICATION Spec
CONSTANTS
  a = a  b = b
  Proxies = {a, b}
  NoProxy = NoProxy
  KindChoices <- Pairs
  MaxId = 4
  MaxSessions = 2
  MaxEvents = 1
INVARIANTS NumbersNameOwners NoneAfterUnregister OnlyEarlyEventsDropped
PROPERTY CallsReturn
CHECK_DEADLOCK FALSE

\* A process that may fork, everything Redis and its threads can do, and its end.
SPECIFICATION FairSpec
CONSTANTS
  parent = parent
  child = child
  None = None
  First = parent
  Procs = {parent, child}
  MaxEvents = 2
  QueueSize = 1
  BatchSize = 2
  Flushers = {parent}
  Faults <- AllFaults
INVARIANTS
  Accounted
  InOrder
  OwnEventsOnly
PROPERTIES
  EarlyEventsLeave
CHECK_DEADLOCK FALSE

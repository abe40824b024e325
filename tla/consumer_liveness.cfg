\* One replica, its crashes and its restarts; two events of which the second is
\* malformed, one page of the pending list holding one of them; the handler,
\* Redis and the dead-letter write fail again and again, the claim query never.
SPECIFICATION FairSpec
CONSTANTS
  c1 = c1
  c2 = c2
  Consumers = {c1}
  MaxEvents = 2
  Malformed <- SecondMalformed
  BatchSize = 1
  MaxDeliveryAttempts = 2
  StreamMaxLen = 1
  LockConflictRetries = 1
  MaxOutages = 2
  Faults <- LivenessFaults
INVARIANTS
  HealthyEventsSurvive
PROPERTIES
  EventuallySettled

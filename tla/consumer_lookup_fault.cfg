\* One replica whose claim query fails once: pending events stay pending.
SPECIFICATION FairSpec
CONSTANTS
  c1 = c1
  c2 = c2
  Consumers = {c1}
  MaxEvents = 1
  Malformed <- NoneMalformed
  BatchSize = 1
  MaxDeliveryAttempts = 2
  StreamMaxLen = 1
  LockConflictRetries = 1
  MaxOutages = 2
  Faults <- LookupFaults
PROPERTIES
  EventuallySettled

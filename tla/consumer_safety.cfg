\* Two replicas, every fault but a failing dead-letter write (no symmetry:
\* DeliverySpec is a temporal property).
SPECIFICATION Spec
CONSTANTS
  c1 = c1
  c2 = c2
  Consumers = {c1, c2}
  MaxEvents = 2
  Malformed <- SecondMalformed
  BatchSize = 2
  MaxDeliveryAttempts = 1
  StreamMaxLen = 1
  LockConflictRetries = 1
  MaxOutages = 1
  Faults <- SafetyFaults
INVARIANTS
  TypeOK
  NoSilentLoss
  NothingForgotten
  BoundedDelivery
PROPERTIES
  DeliverySpec

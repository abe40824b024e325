\* Two scanners, a storage writer, the retention job and an operator on two traces.
SPECIFICATION Spec
CONSTANTS
  s1 = s1
  s2 = s2
  w1 = w1
  None = None
  Scanners = {s1, s2}
  Writers = {w1}
  Log <- Events
  Traces = {1, 2}
  Expired = {1}
  Floor = 3
  PurgeBatch = 1
  MaxBatch = 2
  Deliveries = 4
  StoreBatches <- Later
  Patterns <- ThreePatterns
  MaxMatches = 2
  PresidioMin = 60
  Threshold = 61
SYMMETRY Symmetry
INVARIANTS
  FlagsCoverFindings
  SeriousAlerted
  NoLockCycle
  NothingStranded
PROPERTIES
  AcknowledgedStays
CHECK_DEADLOCK FALSE

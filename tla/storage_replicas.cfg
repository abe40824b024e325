\* Two replicas storing the events of two traces.
SPECIFICATION Spec
CONSTANTS
  w1 = w1
  w2 = w2
  None = None
  Writers = {w1, w2}
  Log <- TwoTraces
  Sampled <- OnlyT
  MaxBatch = 2
INVARIANTS
  RollupExact
  SpansComplete
  TraceConverges
PROPERTIES
  EndedStaysEnded

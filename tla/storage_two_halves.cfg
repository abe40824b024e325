\* Two replicas merging one trace.
SPECIFICATION Spec
CONSTANTS
  w1 = w1
  w2 = w2
  None = None
  Writers = {w1, w2}
  Log <- FailingTrace
  Sampled <- OnlyT
  MaxBatch = 2
INVARIANTS
  ReplicasAgree

SPECIFICATION Spec
CONSTANTS
  m1 = m1  m2 = m2
  t1 = t1  t2 = t2
  acme = acme  r1 = r1  r2 = r2
  Replicas = {r1, r2}
  Msgs <- TwoMsgs
  TraceOf <- TwoTraces
  TenantOf <- OneTenant
  Gradable = {t1, t2}
  AskedAtEnd = {t2}
  ReadSize = 1
  BatchSize = 2
  Cap = 1
  Rewrites = FALSE
  MaxDeliveries = 1
  Faults = {"crash", "judge", "database", "xack", "slowStorage", "badVerdict"}
INVARIANTS HeldIsInHand SettledIsGraded ScoresArePaidFor OneLateCall
SYMMETRY Symmetry

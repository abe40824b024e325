\* The pure functions, the rate limiter, the paged lists, the drift monitor, the heartbeats.
SPECIFICATION Spec
CONSTANTS
  Digits = 12
  Varied = 2
  Patterns <- ThreePatterns
  MaxMatches = 2
  PresidioMin = 60
  Threshold = 61
  MaxContextChars = 5
  NotANumber = NotANumber
  Nonsense = Nonsense
  Garbage = Garbage
  Details = {"cause", "cached_tokens"}
  Letters = {"a", "b", "c"}
  ErrorLimit = 4
  SchemaVersion = 2
  MinSupported = 1
  Prices <- ThreePrices
  Callers = {c1}
  Processes = {p1, p2}
  Window = 2
  Limit = 2
  MaxKeys = 1
  MaxTime = 5
  MaxAsked = 4
  MaxOutages = 1
  RowIds = {1, 2, 3}
  Times = {1, 2}
  PageSizes = {1, 2}
  Operators = {o1, o2}
  MinSamples = 2
  MinStddev = 2
  ZThreshold = 2
  AbsoluteFloor = 50
  Windows <- ThreeWindows
  MaxCaptures = 4
  SpanIds = {1, 2, 3, 4}
  Top = Top
  Unset = Unset
  Roles = {r1, r2}
  HostOf <- OneHost
  StaleBeats = 4
  MaxLag = 2
  MaxWriteAge = 2
  Absent = Absent
  Sites <- TwoSites
INVARIANTS
  ChecksumsCatch
  ReportedIsStrongest
  VerdictsFindTheirTrace
  FactsSurvive
  QuotaHolds
  EachOnce
  OneBaseline
  EverySpanShown
  HealthHonest
CHECK_DEADLOCK FALSE

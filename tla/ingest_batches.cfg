SPECIFICATION Spec
CONSTANTS
  Streams = {"a", "b", "c"}
  Versions = {"v1", "v2"}
  Metrics = {}
  WINDOW = 1
  ARMED = 1
  KNOWN = 2
  MAX_STREAMS = 2
  MAX_VERSIONS = 1
  MAX_DEDUP = 2
  MAX_INCIDENTS = 2
  RETENTION = 3
  FUTURE = 1
  MinDelta <- MCDelta
  RecoverDelta <- MCDelta
  WilsonLow <- MCWilsonLow
  WilsonHigh <- MCWilsonHigh
  Slots = {"r1"}
  NoSlot = "none"
  Events <- ManyStreamEvents
  QUOTA = 3
  DAY = 2
  GRACE = 1
  MaxWait = 0
  MaxBatch = 2
  MaxClock = 7
INVARIANTS IncidentsLinked OnsetsRemembered WithinLimits NoEventCountedTwice DailyQuotaHolds
PROPERTIES IncidentsPersist

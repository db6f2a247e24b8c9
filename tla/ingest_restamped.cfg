SPECIFICATION Spec
CONSTANTS
  Streams = {"a"}
  Versions = {"v1", "v2"}
  Metrics = {}
  WINDOW = 1
  ARMED = 1
  KNOWN = 2
  MAX_STREAMS = 1
  MAX_VERSIONS = 2
  MAX_DEDUP = 2
  MAX_INCIDENTS = 2
  RETENTION = 3
  FUTURE = 1
  MinDelta <- MCDelta
  RecoverDelta <- MCDelta
  WilsonLow <- MCWilsonLow
  WilsonHigh <- MCWilsonHigh
  Slots = {"r1"}
  NoSlot = "none"
  Events <- RestampedEvents
  QUOTA = 20
  DAY = 3
  GRACE = 1
  MaxWait = 0
  MaxBatch = 1
  MaxClock = 7
INVARIANT OpenIncidentsBounded

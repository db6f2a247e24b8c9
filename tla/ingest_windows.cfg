SPECIFICATION Spec
CONSTANTS
  Streams = {"a"}
  Versions = {"v1", "v2"}
  Metrics = {}
  WINDOW = 2
  ARMED = 2
  KNOWN = 2
  MAX_STREAMS = 1
  MAX_VERSIONS = 2
  MAX_DEDUP = 3
  MAX_INCIDENTS = 1
  RETENTION = 3
  FUTURE = 1
  MinDelta <- MCDelta
  RecoverDelta <- MCDelta
  WilsonLow <- MCWilsonLow
  WilsonHigh <- MCWilsonHigh
  Slots = {"r1"}
  NoSlot = "none"
  Events <- OneStreamEvents
  QUOTA = 20
  DAY = 3
  GRACE = 1
  MaxWait = 1
  MaxBatch = 1
  MaxClock = 7
INVARIANTS TypeOK NoStuckIncident WindowsInOrder ReadersAgree
PROPERTIES BaselineFrozen

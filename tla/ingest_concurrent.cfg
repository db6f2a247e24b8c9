SPECIFICATION Spec
CONSTANTS
  Streams = {"a"}
  Versions = {"v1"}
  Metrics = {"latency"}
  WINDOW = 2
  ARMED = 2
  KNOWN = 2
  MAX_STREAMS = 1
  MAX_VERSIONS = 2
  MAX_DEDUP = 4
  MAX_INCIDENTS = 1
  RETENTION = 3
  FUTURE = 2
  MinDelta <- MCDelta
  RecoverDelta <- MCDelta
  WilsonLow <- MCWilsonLow
  WilsonHigh <- MCWilsonHigh
  Slots = {r1, r2}
  NoSlot = r0
  Events <- LatencyEvents
  QUOTA = 20
  DAY = 3
  GRACE = 2
  MaxWait = 1
  MaxBatch = 1
  MaxClock = 6
INVARIANTS EvidenceHasBaseline ResolutionAfterOnset ExpiryLosesNothing
SYMMETRY SlotSymmetry

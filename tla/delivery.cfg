SPECIFICATION DeliverySpec
CONSTANTS
  Threads = {f1, f2}
  CAPACITY = 2
  BATCH = 2
  MAX_RETRIES = 1
  MODULUS = 4
  Writers = {w1, w2}
  MaxEvents = 3
  MaxClock = 2
INVARIANTS LateOnlyIfOvertaken
SYMMETRY Symmetry

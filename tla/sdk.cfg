SPECIFICATION Spec
CONSTANTS
  Threads = {f1, f2}
  CAPACITY = 3
  BATCH = 2
  MAX_RETRIES = 1
  MODULUS = 3
INVARIANTS TypeOK Conservation InOrder
PROPERTIES SentWasStored FlushEnds

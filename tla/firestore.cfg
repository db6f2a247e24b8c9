SPECIFICATION Spec
CONSTANTS
  k1 = k1
  k2 = k2
  Tenants = {t1}
  Keys = {k1, k2}
  KeyId <- MCKeyId
  Slots = {r1, r2}
  SCOPES = {"ingest", "read", "manage"}
  MAX_KEYS = 2
  NoKey = NoKey
  MAX_ATTEMPTS = 2
INVARIANTS TypeOK DocumentsAgree
PROPERTIES Implements CallsEnd

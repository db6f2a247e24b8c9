SPECIFICATION ProvisionSpec
CONSTANTS
  k1 = k1
  k2 = k2
  k3 = k3
  k4 = k4
  Tenants = {t1}
  Keys <- MCKeys
  KeyId <- MCKeyId
  Slots = {r1, r2}
  Paths = {p1}
  SCOPES = {"ingest", "read", "manage"}
  MAX_KEYS = 2
  NoKey = NoKey
INVARIANTS ProvisionTypeOK OneIncarnation KeyLimit NoStrandedTenant UnusedUntilWritten
PROPERTIES EffectsAuthorised FilesKept
SYMMETRY Symmetry

SPECIFICATION Spec
CONSTANTS
  Slots = {r1, r2}
  Tenants = {t1, t2, t3}
  NoTenant = NoTenant
  GLOBAL_LIMIT = 1
  LIMIT = 1
  SECONDS = 2
  CAPACITY = 2
  MAX_BODY = 1
  MaxClock = 4
INVARIANTS TypeOK OneResponse BudgetHolds 
SYMMETRY Symmetry

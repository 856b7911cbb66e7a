CONSTANTS
  Accounts <- MCAccounts
  Size = 2
  HasTimeout = TRUE
  MaxEvents = 3
  MaxCrashes = 1
SPECIFICATION Spec
INVARIANTS
  CountedOnce
  TenantsApart
PROPERTIES
  EveryEventSettles
CHECK_DEADLOCK FALSE

CONSTANTS
  LongTermDays = 0
  Unobserved = Unobserved
  Sec = "VTI"
  Order <- MCOrder
  Snapshot <- MCSnapshot
  Authoritative <- MCSnapshot
  TaxedAt <- MCTaxedAt
  Opening <- MCOpening
  Kinds <- MCKinds
  YearOf <- MCYearOf
  Rates <- MCRates
  InitPrice = 8
  Rise = 4
  MaxEvents = 3
  MaxHidden = 1
  LastDay = 3
SPECIFICATION Spec
INVARIANT HouseholdIsHeld
INVARIANT PeriodsReconcile
INVARIANT TaxViewsAgree
CHECK_DEADLOCK FALSE

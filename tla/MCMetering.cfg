SPECIFICATION Spec
CONSTANTS
  Limits <- MCLimits
  Amounts <- MCAmounts
INVARIANTS
  TypeOK
  Conservation
PROPERTIES
  RefusedOnlyWhenFull
  KeepsQuota

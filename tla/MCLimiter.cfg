CONSTANTS
  Users = {ann, bob}
  Goroutines = {g1, g2}
  Burst = 2
  Ttl = 3
  Stall = 1
  MaxTime = 4
  Null = Null
SPECIFICATION Spec
SYMMETRY Symmetry
INVARIANTS
  TypeOK
  HeldIsCurrent
  WithinBudget
  RefusedOnlyOverBudget
PROPERTIES
  LimiterImplementsBucket

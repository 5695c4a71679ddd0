CONSTANTS
  Users = {ann}
  Goroutines = {g1, g2}
  Burst = 4
  Ttl = 2
  Stall = 1
  MaxTime = 5
  Null = Null
SPECIFICATION Spec
SYMMETRY Symmetry
INVARIANTS
  TypeOK
  HeldIsCurrent
  WithinBudget
  RefusedOnlyOverBudget

CONSTANTS
  Users = {ann}
  Goroutines = {g1, g2}
  Burst = 2
  Ttl = 3
  Stall = 1
  MaxTime = 6
  Null = Null
SPECIFICATION Spec
SYMMETRY Symmetry
INVARIANTS
  HundredPerMinute

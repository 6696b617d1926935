SPECIFICATION Spec
CONSTANTS
  Users = {u1, u2}
  FloodNum = 3
  FloodTime = 2
  IgnoreTime = 2
  MaxTime = 7
  MaxQueries = 6
SYMMETRY Symmetry
INVARIANTS
  OnlyBeyondIsFlood

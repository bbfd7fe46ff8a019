SPECIFICATION Spec
CONSTANTS
  Directions = {"write", "read"}
  Section = 2
  Speeds = {0, 1, 2, 6}
  Factor = 3
  Divisor = 2
  UintMod = 16
  MaxBudget = 3
  MayChange = TRUE
  IntMax = 7
  Sizes = {1, 8}
  Start = 2
  Stalls = {0, 3}
  Oversleeps = {0, 1}
  Horizon = 12
INVARIANTS TypeOK AverageCap RateInv FullSpeed

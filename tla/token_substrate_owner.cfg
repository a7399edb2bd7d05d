SPECIFICATION Spec
CONSTANTS
  Accounts = {a1, a2}
  FlightId = {f1, f2, f3}
  None = None
  MaxFamily = 2
  MaxVersion = 1
  MaxReset = 1
  MayDie = FALSE
  Overlap = TRUE
SYMMETRY Symmetry
INVARIANT SubstrateOfIdentity

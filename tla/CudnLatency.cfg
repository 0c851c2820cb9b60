SPECIFICATION Spec
CONSTANTS
  Names = {a, b}
  MaxTime = 2
  MaxChanges = 3
SYMMETRY NameSymmetry
INVARIANTS
  IInv
  NoneMissed
PROPERTY
  LedgerHolds

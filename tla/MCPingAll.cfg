SPECIFICATION Spec
CONSTANTS
  NPods = 3
  Threads = 2
  Attempts = 2
INVARIANTS
  IInv
  ThreadLimit
  ReportComplete
PROPERTY
  ContractHolds

SPECIFICATION Spec
CONSTANTS
  I128_MAX = 100000
  NoTier = NoTier
  NoOne = NoOne
  ann = ann
  bob = bob
  cat = cat
  native = native
  usd = usd
  oracle1 = oracle1
  oracle2 = oracle2
  Users = {ann, bob}
  Oracles = {oracle1, oracle2}
  Tokens = {native}
  Native = native
  MaxJobs = 1
  MaxTime = 0
  Inputs <- DisputeInputs
  InitialFees <- DisputeFees
  InitialPolicy <- QuietPolicy
SYMMETRY AnyUser
INVARIANTS Solvent NoEscrowTrapped
PROPERTIES DepositReturned
CHECK_DEADLOCK FALSE

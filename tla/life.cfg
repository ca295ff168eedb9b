SPECIFICATION Spec
CONSTANTS
  I128_MAX = 1000000
  NoTier = NoTier
  NoOne = NoOne
  ann = ann
  bob = bob
  cat = cat
  native = native
  usd = usd
  oracle1 = oracle1
  oracle2 = oracle2
  Users = {ann, bob}
  Oracles = {}
  Tokens = {native}
  Native = native
  MaxJobs = 1
  MaxTime = 4
  Inputs <- LifeInputs
  InitialFees <- QuietFees
  InitialPolicy <- QuietPolicy
SYMMETRY AnyUser
INVARIANTS TypeOK EscrowMatchesStatus SettledInFull
PROPERTIES LegalMoves TermsAreFixed
CHECK_DEADLOCK FALSE

SPECIFICATION Spec
CONSTANTS
  I128_MAX = 10000000
  NoTier = NoTier
  NoOne = NoOne
  ann = ann
  bob = bob
  cat = cat
  native = native
  usd = usd
  oracle1 = oracle1
  oracle2 = oracle2
  Users = {ann, bob}
  Oracles = {}
  Tokens = {native}
  Native = native
  MaxJobs = 2
  MaxTime = 0
  Inputs <- ReferralInputs
  InitialFees <- QuietFees
  InitialPolicy <- QuietPolicy
INVARIANTS EscrowBacked
CHECK_DEADLOCK FALSE

SPECIFICATION Spec
CONSTANTS
  I128_MAX = 1000000
  NoTier = NoTier
  NoOne = NoOne
  ann = ann
  bob = bob
  cat = cat
  native = native
  usd = usd
  oracle1 = oracle1
  oracle2 = oracle2
  Users = {ann, bob, cat}
  Oracles = {}
  Tokens = {native, usd}
  Native = native
  MaxJobs = 2
  MaxTime = 0
  Inputs <- TwoJobsInputs
  InitialFees <- QuietFees
  InitialPolicy <- TwoJobsPolicy
INVARIANTS LedgersAgree CountersMatchJobs
CHECK_DEADLOCK FALSE

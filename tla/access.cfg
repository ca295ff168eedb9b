SPECIFICATION Spec
CONSTANTS
  I128_MAX = 1000000
  NoTier = NoTier
  NoOne = NoOne
  ann = ann
  bob = bob
  cat = cat
  native = native
  usd = usd
  oracle1 = oracle1
  oracle2 = oracle2
  Users = {ann, bob}
  Oracles = {}
  Tokens = {native}
  Native = native
  MaxJobs = 1
  MaxTime = 0
  Inputs <- AccessInputs
  InitialFees <- QuietFees
  InitialPolicy <- QuietPolicy
PROPERTIES OnlyAdmittedJoin FrozenWithParties
CHECK_DEADLOCK FALSE

SPECIFICATION MCSpec
CONSTANTS
  I128_MAX = 10000000
  NoTier = NoTier
  NoOne = NoOne
  ann = ann
  bob = bob
  cat = cat
  native = native
  usd = usd
  oracle1 = oracle1
  oracle2 = oracle2
  Users = {ann, bob}
  Oracles = {}
  Tokens = {native}
  Native = native
  MaxJobs = 2
  MaxTime = 2
  Inputs <- ContractInputs
  InitialFees <- QuietFees
  InitialPolicy <- QuietPolicy
  ARCHIVE_THRESHOLD = 1
  Nonces = {0, 1}
  RECOVERY_TIMELOCK = 1
  MAX_RECOVERY_PROPOSALS = 2
  DefaultStuckThreshold = 1
  UpkeepInputs <- MCUpkeepInputs
  code1 = code1
  code2 = code2
  Wasms = {code1, code2}
  NoWasm = NoWasm
  UPGRADE_TIMELOCK_SECS = 1
  MaxWindow = 2
  Intervals = {0, 1}
  RenewalLimits = {0, 1, 2}
  RateLimits <- MCRateLimits
  MaxRetainers = 1
  MaxCrossJobs = 1
INVARIANTS ReferralCreditedOnce BurnAccounted JobsKeptOnce NonceNamesItsJob NominationIsCurrent RetainersPaced
PROPERTIES ImplementsLedger UpgradeWaits
CHECK_DEADLOCK FALSE

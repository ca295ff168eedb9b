------------------------------ MODULE MCEscrow ------------------------------
(***************************************************************************)
(* Instances of the escrow contract for TLC.  Every instance starts from   *)
(* the same quiet one, in which nothing but the plain life of a job can    *)
(* happen, and opens the calls its run is about.                           *)
(***************************************************************************)
EXTENDS EscrowClaims

CONSTANTS ann, bob, cat,        \* users
          native, usd,          \* tokens
          oracle1, oracle2      \* oracles

AnyUser  == Permutations(Users)

QuietInputs ==
  [amounts |-> {7}, bonuses |-> {}, topUps |-> {}, maxAmount |-> 20,
   deadlines |-> {0}, newDeadlines |-> {}, shares |-> {}, disputed |-> {},
   feeRates |-> {}, tiers |-> {}, tierSlots |-> {}, exempted |-> {},
   lateRates |-> {}, lateModes |-> {}, burnRates |-> {}, burns |-> {},
   disputeFees |-> {}, oracleFees |-> {}, oracleModes |-> {}, pausable |-> {},
   blacklistable |-> {}, whitelistModes |-> {}, whitelistable |-> {},
   approvers |-> {}, thresholds |-> {}, quorums |-> {}, forwarders |-> {},
   limits |-> {}, minRatings |-> {}, ratings |-> {}, maxRatings |-> 0,
   verifiable |-> {}, tokenChanges |-> {}, holds |-> {}, referrers |-> {},
   onboarding |-> {}]

QuietFees ==
  [feeBps |-> 2500, tiers |-> [i \in TierSlot |-> NoTier], exempt |-> {},
   lateBps |-> 1500, lateEnabled |-> FALSE, burnBps |-> 5000,
   disputeFee |-> 3, oracleFee |-> 2, oracleEnabled |-> FALSE]

\* The threshold of a freshly deployed contract is out of reach.
QuietPolicy ==
  [paused |-> {}, blacklisted |-> {}, whitelistMode |-> FALSE, whitelisted |-> {},
   approvers |-> {}, threshold |-> I128_MAX, required |-> 1, forwarders |-> {},
   maxJobsPerUser |-> 0, maxJobsPerClient |-> 0, minRating |-> 0,
   exemptVerified |-> FALSE, allowedTokens |-> Tokens]

-----------------------------------------------------------------------------
\* One job from posting to its end along every path, with time passing, late
\* fees and disputes.
LifeInputs == [QuietInputs EXCEPT
  !.amounts = {7}, !.bonuses = {2}, !.topUps = {5}, !.maxAmount = 12,
  !.deadlines = {0, 1}, !.newDeadlines = {3}, !.shares = {0, 3333, 5000, 10000},
  !.disputed = Users, !.burns = {1}, !.lateModes = BOOLEAN, !.lateRates = {10000},
  !.feeRates = {0, 1000}, !.exempted = Users]

\* Two jobs in two tokens between three users.
TwoJobsInputs == [QuietInputs EXCEPT
  !.amounts = {7}, !.shares = {5000}, !.disputed = Users,
  !.forwarders = {cat}, !.tokenChanges = {usd}]

TwoJobsPolicy == [QuietPolicy EXCEPT !.maxJobsPerUser = 1, !.maxJobsPerClient = 1]

\* Disputes judged by the administrator or by one of two oracles, around the
\* amounts at which shares and fees overflow.
DisputeInputs == [QuietInputs EXCEPT
  !.amounts = {7}, !.topUps = {5}, !.maxAmount = 12,
  !.shares = {0, 3333, 5000, 5001, 10000}, !.disputed = Users,
  !.oracleModes = BOOLEAN, !.disputeFees = {0, 5}, !.oracleFees = {1}, !.feeRates = {1000},
  !.tierSlots = {9}, !.tiers = {[minAmount |-> 10, feeBps |-> 5000]},
  !.pausable = {"Disputes"}]

DisputeFees == [QuietFees EXCEPT !.oracleEnabled = TRUE]

\* Approvers, threshold and quorum changing while a job is under review or
\* held by the administrator.
ApprovalInputs == [QuietInputs EXCEPT
  !.topUps = {5}, !.maxAmount = 12, !.approvers = {ann, bob}, !.thresholds = {10},
  !.quorums = {1, 2, 3}, !.disputed = {bob}, !.shares = {5000}, !.holds = BOOLEAN,
  !.limits = {1}]

ApprovalPolicy == [QuietPolicy EXCEPT !.threshold = 0, !.required = 2, !.approvers = Users]

\* Blacklist, whitelist, ratings, the only paused module that a call of these
\* asks about, and a bonus for the verified.
AccessInputs == [QuietInputs EXCEPT
  !.shares = {5000}, !.disputed = {ann}, !.blacklistable = Users,
  !.whitelistModes = BOOLEAN, !.whitelistable = {ann}, !.verifiable = {bob},
  !.minRatings = {300}, !.ratings = {200, 400}, !.maxRatings = 1,
  !.pausable = {"Jobs"}, !.forwarders = {bob}, !.onboarding = {1}]

\* Burning, referral earnings and the onboarding bonus.
IncentiveInputs == [QuietInputs EXCEPT
  !.amounts = {300}, !.burnRates = {10000}, !.burns = {30}, !.referrers = {ann, bob},
  !.onboarding = {2}, !.verifiable = {bob}]

-----------------------------------------------------------------------------
\* Instances for the statements that do not hold.
BonusInputs == [QuietInputs EXCEPT !.bonuses = {2}]

HoldInputs == [QuietInputs EXCEPT !.holds = BOOLEAN, !.shares = {5000}]

ReferralInputs == [QuietInputs EXCEPT
  !.amounts = {300}, !.referrers = {ann, bob}, !.feeRates = {0}]
=============================================================================

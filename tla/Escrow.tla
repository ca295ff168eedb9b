------------------------------- MODULE Escrow -------------------------------
(***************************************************************************)
(* The escrow contract: posting, working on, disputing and settling jobs,  *)
(* while the administrator changes settings and time passes.               *)
(***************************************************************************)
EXTENDS JobLifecycle, Disputes, Settings

(***************************************************************************)
(* The values callers choose from.  An empty set takes the calls that need *)
(* one out of the instance.                                                *)
(***************************************************************************)
CONSTANTS Inputs, InitialFees, InitialPolicy

InputType ==
  [amounts   : SUBSET Nat,             bonuses   : SUBSET Nat,
   topUps    : SUBSET Nat,             maxAmount : Nat,
   deadlines : SUBSET Nat,             newDeadlines : SUBSET Nat,
   shares    : SUBSET Bps,             disputed  : SUBSET Users,
   feeRates  : SUBSET Bps,             tiers     : SUBSET FeeTier,
   tierSlots : SUBSET TierSlot,        exempted  : SUBSET Users,
   lateRates : SUBSET Bps,             lateModes : SUBSET BOOLEAN,
   burnRates : SUBSET Bps,             burns     : SUBSET Nat,
   disputeFees : SUBSET Nat,           oracleFees : SUBSET Nat,
   oracleModes : SUBSET BOOLEAN,       pausable  : SUBSET Modules,
   blacklistable : SUBSET Users,       whitelistModes : SUBSET BOOLEAN,
   whitelistable : SUBSET Users,       approvers : SUBSET Users,
   thresholds : SUBSET Nat,            quorums   : SUBSET Nat,
   forwarders : SUBSET Users,          limits    : SUBSET Nat,
   minRatings : SUBSET Nat,            ratings   : SUBSET Nat,
   maxRatings : Nat,                   verifiable : SUBSET Users,
   tokenChanges : SUBSET Tokens,       holds     : SUBSET BOOLEAN,
   referrers : SUBSET Users,           onboarding : SUBSET Nat]

FeeSettings ==
  [feeBps : Bps, tiers : [TierSlot -> FeeTier \cup {NoTier}], exempt : SUBSET Users,
   lateBps : Bps, lateEnabled : BOOLEAN, burnBps : Bps,
   disputeFee : Nat, oracleFee : Nat, oracleEnabled : BOOLEAN]

PolicySettings ==
  [paused : SUBSET Modules, blacklisted : SUBSET Users, whitelistMode : BOOLEAN,
   whitelisted : SUBSET Users, approvers : SUBSET Users, threshold : Nat,
   required : Nat \ {0}, forwarders : SUBSET Users, maxJobsPerUser : Nat,
   maxJobsPerClient : Nat, minRating : Nat, exemptVerified : BOOLEAN,
   allowedTokens : SUBSET Tokens]

ASSUME EscrowAssumption ==
  /\ Inputs \in InputType
  /\ InitialFees \in FeeSettings
  /\ InitialPolicy \in PolicySettings

(***************************************************************************)
(* The contract after initialize and after the administrator has put the   *)
(* initial settings in place: no job, no money.                            *)
(***************************************************************************)
Init ==
  /\ now = 0
  /\ jobsCount = 0
  /\ jobs = [j \in JobId |-> NoJob]
  /\ userActive = [u \in Users |-> 0]
  /\ userCompleted = [u \in Users |-> 0]
  /\ escrowBal = [j \in JobId |-> 0]
  /\ totalEscrow = 0
  /\ tokenActive = [t \in Tokens |-> 0]
  /\ tokenFees = [t \in Tokens |-> 0]
  /\ burnPool = 0
  /\ totalBurned = 0
  /\ balance = [t \in Tokens |-> 0]
  /\ paid = [j \in JobId |-> NoSplit]
  /\ held = {}
  /\ lateFee = [j \in JobId |-> 0]
  /\ approvals = [j \in JobId |-> {}]
  /\ attested = {}
  /\ raiser = [j \in JobId |-> NoOne]
  /\ deposit = [j \in JobId |-> 0]
  /\ depositPaid = [j \in JobId |-> [raiser |-> 0, other |-> 0, admin |-> 0]]
  /\ assigned = [j \in JobId |-> NoOne]
  /\ oracleList = <<>>
  /\ fees = InitialFees
  /\ policy = InitialPolicy
  /\ incentives = [codes |-> {}, link |-> [u \in Users |-> NoOne], rewarded |-> {},
                   earnings |-> [u \in Users |-> 0], bonusToken |-> Native,
                   bonusAmount |-> 0, claimed |-> {}]
  /\ reputation = [ratings |-> [u \in Users |-> [sum |-> 0, count |-> 0]], verified |-> {}]

Tick ==
  /\ now < MaxTime
  /\ now' = now + 1
  /\ UNCHANGED <<jobVars, escrowVars, moneyVars, noteVars, disputeVars,
                 settingVars, peopleVars>>

-----------------------------------------------------------------------------
Posting ==
  \E u \in Users, a \in Inputs.amounts, d \in Inputs.deadlines, t \in Tokens :
    \/ PostJob(u, a, d, t)
    \/ \E b \in Inputs.bonuses : PostJobWithCategories(u, a, b, d, t)
    \/ \E r \in Inputs.referrers : PostJobWithReferral(u, a, d, t, r)

Working(u, j) ==
  \/ AcceptJob(u, j)
  \/ SubmitWork(u, j)
  \/ RejectWork(u, j)
  \/ \E d \in Inputs.newDeadlines : ExtendDeadline(u, j, d)
  \/ \E a \in Inputs.topUps :
       jobs[j].amount + a <= Inputs.maxAmount /\ TopUpEscrow(u, j, a)
  \/ u \in Inputs.disputed /\ RaiseDispute(u, j)

Ending(u, j) ==
  \/ ApproveByClient(u, j)
  \/ ApproveByApprover(u, j)
  \/ CancelJob(u, j)
  \/ \E v \in Users : RelayCancelJob(u, v, j)
  \/ FreelancerCancelJob(u, j)
  \/ EnforceDeadline(u, j)
  \/ \E v \in Users, s \in Inputs.shares : MutualCancel(u, v, j, s)

Judging(j) ==
  \/ \E s \in Inputs.shares : ResolveDispute(j, s) \/ ResolveDisputeSplit(j, s)
  \/ \E o \in Oracles, clientWins \in BOOLEAN : SubmitVerdict(o, j, clientWins)

FeeChange ==
  \/ \E r \in Inputs.feeRates : update_fee(r) \/ update_fee_bps(r)
  \/ \E i \in Inputs.tierSlots, r \in Inputs.tiers : update_fee_tier(i, r)
  \/ \E u \in Inputs.exempted, b \in BOOLEAN : set_fee_exemption(u, b)
  \/ \E r \in Inputs.lateRates : set_late_fee_bps(r)
  \/ \E b \in Inputs.lateModes : set_late_fee_enabled(b)
  \/ \E r \in Inputs.burnRates : update_burn_percentage(r)
  \/ \E f \in Inputs.disputeFees : update_dispute_fee(f)
  \/ \E f \in Inputs.oracleFees : update_oracle_fee(f)
  \/ \E b \in Inputs.oracleModes : set_oracle_enabled(b)
  \/ \E o \in Oracles : register_oracle(o) \/ remove_oracle(o)

PolicyChange ==
  \/ \E m \in Inputs.pausable : pause_module(m) \/ resume_module(m)
  \/ \E u \in Inputs.blacklistable : add_to_blacklist(u) \/ remove_from_blacklist(u)
  \/ \E u \in Inputs.whitelistable : add_to_whitelist(u) \/ remove_from_whitelist(u)
  \/ \E b \in Inputs.whitelistModes : set_whitelist_mode(b)
  \/ \E u \in Inputs.approvers : add_approver(u) \/ remove_approver(u)
  \/ \E a \in Inputs.thresholds : set_high_value_threshold(a)
  \/ \E n \in Inputs.quorums : set_required_approvals(n)
  \/ \E u \in Inputs.forwarders, b \in BOOLEAN : set_trusted_forwarder(u, b)
  \/ \E n \in Inputs.limits : set_max_jobs_per_user(n) \/ set_max_active_jobs_per_client(n)
  \/ \E r \in Inputs.minRatings : set_min_rating_to_accept(r)
  \/ \E b \in BOOLEAN : Inputs.minRatings # {} /\ set_exempt_verified_freelancers(b)
  \/ \E t \in Inputs.tokenChanges : add_allowed_token(t) \/ remove_allowed_token(t)
  \/ \E j \in JobId, b \in Inputs.holds : set_job_hold(j, b)

MoneyOut ==
  \/ \E t \in Tokens : withdraw_fees(t)
  \/ \E a \in Inputs.burns : execute_burn(a)
  \/ \E u \in Inputs.referrers : register_referral(u) \/ withdraw_referral_earnings(u)
  \/ \E a \in Inputs.onboarding, t \in Tokens : set_onboarding_bonus(t, a)
  \/ \E u \in Users : claim_onboarding_bonus(u)

Reputation ==
  \/ \E u \in Inputs.verifiable : verify_freelancer(u) \/ unverify_freelancer(u)
  \/ \E u \in Users, r \in Inputs.ratings :
       reputation.ratings[u].count < Inputs.maxRatings /\ rate_freelancer(u, r)

Next ==
  \/ Tick
  \/ Posting
  \/ \E u \in Users, j \in JobId : Working(u, j) \/ Ending(u, j)
  \/ \E j \in JobId : Judging(j)
  \/ FeeChange
  \/ PolicyChange
  \/ MoneyOut
  \/ Reputation

Spec == Init /\ [][Next]_vars

-----------------------------------------------------------------------------
Shares       == [client : Int, freelancer : Int, accrued : Int, burned : Int]
DepositSplit == [raiser : Int, other : Int, admin : Int]

JobTypeOK ==
  /\ jobsCount \in 0 .. MaxJobs
  /\ jobs \in [JobId -> Job]
  /\ userActive \in [Users -> Nat]
  /\ userCompleted \in [Users -> Nat]

EscrowTypeOK ==
  /\ escrowBal \in [JobId -> Nat]
  /\ totalEscrow \in Int
  /\ tokenActive \in [Tokens -> Nat]

MoneyTypeOK ==
  /\ tokenFees \in [Tokens -> Int]
  /\ burnPool \in Int
  /\ totalBurned \in Int
  /\ balance \in [Tokens -> Int]
  /\ paid \in [JobId -> Shares]

NoteTypeOK ==
  /\ held \subseteq JobId
  /\ lateFee \in [JobId -> Nat]
  /\ approvals \in [JobId -> SUBSET Users]
  /\ attested \subseteq JobId

DisputeTypeOK ==
  /\ raiser \in [JobId -> Users \cup {NoOne}]
  /\ deposit \in [JobId -> Nat]
  /\ depositPaid \in [JobId -> DepositSplit]
  /\ assigned \in [JobId -> Oracles \cup {NoOne}]

SettingTypeOK ==
  /\ oracleList \in Seq(Oracles)
  /\ fees \in FeeSettings
  /\ policy \in PolicySettings

IncentiveType ==
  [codes : SUBSET Users, link : [Users -> Users \cup {NoOne}], rewarded : SUBSET Users,
   earnings : [Users -> Int], bonusToken : Tokens, bonusAmount : Nat, claimed : SUBSET Users]

ReputationType == [ratings : [Users -> [sum : Nat, count : Nat]], verified : SUBSET Users]

PeopleTypeOK ==
  /\ incentives \in IncentiveType
  /\ reputation \in ReputationType

\* Type correctness of every storage key the model keeps.
TypeOK ==
  /\ now \in Nat
  /\ JobTypeOK
  /\ EscrowTypeOK
  /\ MoneyTypeOK
  /\ NoteTypeOK
  /\ DisputeTypeOK
  /\ SettingTypeOK
  /\ PeopleTypeOK
=============================================================================

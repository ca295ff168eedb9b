------------------------------ MODULE Settings ------------------------------
(***************************************************************************)
(* What the administrator may change while jobs are under way, with the    *)
(* bounds each setter checks, and the calls that take money out of the     *)
(* contract for someone other than the parties of a job.                   *)
(***************************************************************************)
EXTENDS Custody, SequencesExt

Modules == {"Jobs", "Disputes", "Payments", "Admin"}

\* A change of settings touches nothing else.
SetFees(f) ==
  /\ fees' = f
  /\ UNCHANGED <<now, jobVars, escrowVars, moneyVars, noteVars, disputeVars,
                 oracleList, policy, peopleVars>>

SetPolicy(p) ==
  /\ policy' = p
  /\ UNCHANGED <<now, jobVars, escrowVars, moneyVars, noteVars, disputeVars,
                 oracleList, fees, peopleVars>>

SetOracles(list) ==
  /\ oracleList' = list
  /\ UNCHANGED <<now, jobVars, escrowVars, moneyVars, noteVars, disputeVars,
                 fees, policy, peopleVars>>

-----------------------------------------------------------------------------
\* Two setters write the same rate with different bounds.
update_fee(bps) ==
  /\ bps \in 0 .. MAX_FEE_BPS
  /\ SetFees([fees EXCEPT !.feeBps = bps])

update_fee_bps(bps) ==
  /\ bps \in 1 .. MAX_FEE_BPS_CONFIG
  /\ SetFees([fees EXCEPT !.feeBps = bps])

\* The tier's minimum amount is not checked, nor its order among the tiers.
update_fee_tier(slot, tier) ==
  /\ slot \in TierSlot
  /\ tier.feeBps \in 1 .. MAX_FEE_BPS_CONFIG
  /\ SetFees([fees EXCEPT !.tiers[slot] = tier])

set_fee_exemption(user, exempted) ==
  SetFees([fees EXCEPT !.exempt = IF exempted THEN @ \cup {user} ELSE @ \ {user}])

set_late_fee_bps(bps) ==
  /\ bps \in Bps
  /\ SetFees([fees EXCEPT !.lateBps = bps])

set_late_fee_enabled(enabled) == SetFees([fees EXCEPT !.lateEnabled = enabled])

update_burn_percentage(bps) ==
  /\ bps \in Bps
  /\ SetFees([fees EXCEPT !.burnBps = bps])

update_dispute_fee(fee) ==
  /\ fee >= 0
  /\ SetFees([fees EXCEPT !.disputeFee = fee])

update_oracle_fee(fee) ==
  /\ fee >= 0
  /\ SetFees([fees EXCEPT !.oracleFee = fee])

set_oracle_enabled(enabled) == SetFees([fees EXCEPT !.oracleEnabled = enabled])

register_oracle(oracle) ==
  SetOracles(IF Contains(oracleList, oracle) THEN oracleList ELSE Append(oracleList, oracle))

\* The list holds an oracle at most once.
remove_oracle(oracle) ==
  \/ ~Contains(oracleList, oracle) /\ SetOracles(oracleList)
  \/ \E i \in DOMAIN oracleList :
       oracleList[i] = oracle /\ SetOracles(RemoveAt(oracleList, i))

-----------------------------------------------------------------------------
pause_module(module)  == SetPolicy([policy EXCEPT !.paused = @ \cup {module}])
resume_module(module) == SetPolicy([policy EXCEPT !.paused = @ \ {module}])

add_to_blacklist(user)      == SetPolicy([policy EXCEPT !.blacklisted = @ \cup {user}])
remove_from_blacklist(user) == SetPolicy([policy EXCEPT !.blacklisted = @ \ {user}])
add_to_whitelist(user)      == SetPolicy([policy EXCEPT !.whitelisted = @ \cup {user}])
remove_from_whitelist(user) == SetPolicy([policy EXCEPT !.whitelisted = @ \ {user}])
set_whitelist_mode(enabled) == SetPolicy([policy EXCEPT !.whitelistMode = enabled])

add_approver(user)    == SetPolicy([policy EXCEPT !.approvers = @ \cup {user}])
remove_approver(user) == SetPolicy([policy EXCEPT !.approvers = @ \ {user}])

set_high_value_threshold(amount) == SetPolicy([policy EXCEPT !.threshold = amount])

set_required_approvals(req) ==
  /\ req # 0
  /\ SetPolicy([policy EXCEPT !.required = req])

set_trusted_forwarder(user, trusted) ==
  SetPolicy([policy EXCEPT !.forwarders = IF trusted THEN @ \cup {user} ELSE @ \ {user}])

set_max_jobs_per_user(limit)          == SetPolicy([policy EXCEPT !.maxJobsPerUser = limit])
set_max_active_jobs_per_client(limit) == SetPolicy([policy EXCEPT !.maxJobsPerClient = limit])

set_min_rating_to_accept(rating) ==
  /\ rating <= 500
  /\ SetPolicy([policy EXCEPT !.minRating = rating])

set_exempt_verified_freelancers(exempt) ==
  SetPolicy([policy EXCEPT !.exemptVerified = exempt])

add_allowed_token(token) == SetPolicy([policy EXCEPT !.allowedTokens = @ \cup {token}])

\* The stored count of active escrows decides; the jobs are not scanned.
remove_allowed_token(token) ==
  /\ tokenActive[token] = 0
  /\ SetPolicy([policy EXCEPT !.allowedTokens = @ \ {token}])

\* The flag and the list of held jobs change together and are one set here.
set_job_hold(j, hold) ==
  /\ jobs[j].status # "Absent"
  /\ hold # (j \in held)
  /\ held' = IF hold THEN held \cup {j} ELSE held \ {j}
  /\ UNCHANGED <<now, jobVars, escrowVars, moneyVars, lateFee, approvals, attested,
                 disputeVars, settingVars, peopleVars>>

-----------------------------------------------------------------------------
\* Money leaving the contract outside the settlement of a job.
Withdraw(token, amount) ==
  /\ PayOut(Only(token, amount))
  /\ UNCHANGED <<now, jobVars, escrowVars, burnPool, totalBurned, paid, noteVars,
                 disputeVars, settingVars, reputation>>

Fault_withdraw_fees_keeps_ledger(token) ==
  /\ "Payments" \notin policy.paused
  /\ tokenFees[token] > 0
  /\ Withdraw(token, tokenFees[token])
  /\ UNCHANGED <<tokenFees, incentives>>

withdraw_fees(token) ==
  /\ "Payments" \notin policy.paused
  /\ tokenFees[token] > 0
  /\ tokenFees' = [tokenFees EXCEPT ![token] = 0]
  /\ Withdraw(token, tokenFees[token])
  /\ UNCHANGED incentives

\* A bookkeeping entry: no token is burned and none leaves the contract.
Fault_execute_burn_keeps_pool(amount) ==
  /\ amount > 0
  /\ amount <= burnPool
  /\ totalBurned < 100
  /\ totalBurned' = totalBurned + amount
  /\ UNCHANGED <<now, jobVars, escrowVars, tokenFees, burnPool, balance, paid, noteVars,
                 disputeVars, settingVars, peopleVars>>

execute_burn(amount) ==
  /\ amount > 0
  /\ amount <= burnPool
  /\ burnPool' = burnPool - amount
  /\ totalBurned' = totalBurned + amount
  /\ UNCHANGED <<now, jobVars, escrowVars, tokenFees, balance, paid, noteVars,
                 disputeVars, settingVars, peopleVars>>

-----------------------------------------------------------------------------
SetPeople(i, r) ==
  /\ incentives' = i
  /\ reputation' = r
  /\ UNCHANGED <<now, jobVars, escrowVars, moneyVars, noteVars, disputeVars, settingVars>>

\* One code per referrer stands for the codes they registered.
register_referral(user) ==
  /\ require_active_access(user)
  /\ user \notin incentives.codes
  /\ SetPeople([incentives EXCEPT !.codes = @ \cup {user}], reputation)

\* Earnings in units of whatever token the job was in are paid in native
\* tokens out of the contract's common balance.
withdraw_referral_earnings(user) ==
  /\ require_active_access(user)
  /\ incentives.earnings[user] > 0
  /\ incentives' = [incentives EXCEPT !.earnings[user] = 0]
  /\ Withdraw(Native, incentives.earnings[user])
  /\ UNCHANGED tokenFees

set_onboarding_bonus(token, amount) ==
  /\ amount > 0
  /\ SetPeople([incentives EXCEPT !.bonusToken = token, !.bonusAmount = amount], reputation)

claim_onboarding_bonus(user) ==
  /\ user \in reputation.verified
  /\ user \notin incentives.claimed
  /\ incentives.bonusAmount > 0
  /\ incentives' = [incentives EXCEPT !.claimed = @ \cup {user}]
  /\ Withdraw(incentives.bonusToken, incentives.bonusAmount)
  /\ UNCHANGED tokenFees

verify_freelancer(user)   == SetPeople(incentives, [reputation EXCEPT !.verified = @ \cup {user}])
unverify_freelancer(user) == SetPeople(incentives, [reputation EXCEPT !.verified = @ \ {user}])

\* Anyone may rate anyone, any number of times.
rate_freelancer(user, rating) ==
  /\ rating \in 1 .. 500
  /\ SetPeople(incentives, [reputation EXCEPT
       !.ratings[user] = [sum |-> @.sum + rating, count |-> @.count + 1]])
=============================================================================

---------------------------- MODULE JobLifecycle ----------------------------
(***************************************************************************)
(* The calls that post a job, carry it through its life and end it by      *)
(* agreement of its parties, by approval or by its deadline.               *)
(***************************************************************************)
EXTENDS Custody

\* The stored record of a job being posted.  `bonus_amount` is stored as 0
\* whatever the client sent, so the bonus branches of approve_work,
\* cancel_job and relay_cancel_job never run and have no counterpart here.
NewJob(client, amount, token, deadline) ==
  [client |-> client, freelancer |-> NoOne, amount |-> amount, token |-> token,
   status |-> "Open", deadline |-> deadline, revisions |-> 0]

(***************************************************************************)
(* post_job_with_categories, which the other posting entry points call.    *)
(***************************************************************************)
CreateJob(client, amount, bonus, deadline, token) ==
  /\ jobsCount < MaxJobs
  /\ amount > 0 /\ bonus >= 0
  /\ require_active_access(client)
  /\ deadline # 0 => now <= deadline
  /\ token \in policy.allowedTokens
  /\ enforce_user_active_job_limit(client)
  /\ enforce_client_active_job_limit(client)
  /\ amount + bonus <= I128_MAX
  /\ In(token, amount + bonus)
  /\ jobsCount' = jobsCount + 1
  /\ set_job(jobsCount + 1, NewJob(client, amount, token, deadline))
  /\ set_escrow_balance(jobsCount + 1, token, amount)
  /\ UNCHANGED <<now, tokenFees, burnPool, totalBurned, paid, noteVars,
                 disputeVars, settingVars, reputation>>

PostJobWithCategories(client, amount, bonus, deadline, token) ==
  /\ CreateJob(client, amount, bonus, deadline, token)
  /\ UNCHANGED incentives

\* Only this entry point asks whether the Jobs module is paused.
PostJob(client, amount, deadline, token) ==
  /\ "Jobs" \notin policy.paused
  /\ CreateJob(client, amount, 0, deadline, token)
  /\ UNCHANGED incentives

\* The first referral link of a client is kept for good.
PostJobWithReferral(client, amount, deadline, token, referrer) ==
  /\ referrer \in incentives.codes
  /\ referrer # client
  /\ CreateJob(client, amount, 0, deadline, token)
  /\ incentives' = IF incentives.link[client] = NoOne
                   THEN [incentives EXCEPT !.link[client] = referrer]
                   ELSE incentives

-----------------------------------------------------------------------------
\* A status change that moves no money.
Advance(j, job) ==
  /\ set_job(j, job)
  /\ UNCHANGED <<now, jobsCount, escrowVars, moneyVars, disputeVars,
                 settingVars, peopleVars>>

\* The average, an integer division, reaches the minimum exactly when the sum
\* reaches that many times the minimum; with no minimum or no rating it does.
\* A verified freelancer is let through while the exemption is on.
Fault_MeetsMinRating_ignores_exemption_flag(user) ==
  \/ reputation.ratings[user].sum >= policy.minRating * reputation.ratings[user].count
  \/ user \in reputation.verified

MeetsMinRating(user) ==
  \/ reputation.ratings[user].sum >= policy.minRating * reputation.ratings[user].count
  \/ policy.exemptVerified /\ user \in reputation.verified

AcceptJob(user, j) ==
  LET job == jobs[j]
  IN  /\ job.status = "Open"
      /\ require_active_access(user)
      /\ enforce_user_active_job_limit(user)
      /\ require_job_not_held(j)
      /\ job.freelancer = NoOne
      /\ job.client # user
      /\ job.deadline # 0 => now <= job.deadline
      /\ MeetsMinRating(user)
      /\ Advance(j, [job EXCEPT !.freelancer = user, !.status = "InProgress"])
      /\ UNCHANGED noteVars

\* Past the deadline the submission is refused, or charged when late fees
\* are on.  On time, a late fee recorded by an earlier submission stays.
SubmitWork(user, j) ==
  LET job  == jobs[j]
      late == job.deadline # 0 /\ now > job.deadline
  IN  /\ job.status = "InProgress"
      /\ require_active_access(user)
      /\ require_job_not_held(j)
      /\ job.freelancer = user
      /\ late => fees.lateEnabled /\ MulFits(job.amount, fees.lateBps)
      /\ lateFee' = IF late THEN [lateFee EXCEPT ![j] = BpsOf(job.amount, fees.lateBps)]
                    ELSE lateFee
      /\ Advance(j, [job EXCEPT !.status = "SubmittedForReview"])
      /\ UNCHANGED <<held, approvals, attested>>

Fault_CanRevise_once_more(job) == job.revisions <= MAX_REVISIONS

CanRevise(job) == job.revisions < MAX_REVISIONS

RejectWork(user, j) ==
  LET job == jobs[j]
  IN  /\ job.status = "SubmittedForReview"
      /\ require_active_access(user)
      /\ require_job_not_held(j)
      /\ job.client = user
      /\ CanRevise(job)
      /\ Advance(j, [job EXCEPT !.status = "InProgress", !.revisions = @ + 1])
      /\ UNCHANGED noteVars

\* The freelancer's consent is optional and only adds guards.
ExtendDeadline(user, j, newDeadline) ==
  LET job == jobs[j]
  IN  /\ job.status \in {"InProgress", "SubmittedForReview"}
      /\ require_active_access(user)
      /\ job.client = user
      /\ job.deadline # 0
      /\ newDeadline > job.deadline
      /\ newDeadline > now
      /\ Advance(j, [job EXCEPT !.deadline = newDeadline])
      /\ UNCHANGED noteVars

Fault_AcceptsFunds_while_active(job) == is_active_job_status(job)

AcceptsFunds(job) == job.status \in {"Open", "InProgress", "SubmittedForReview"}

TopUpEscrow(user, j, amount) ==
  LET job == jobs[j]
  IN  /\ AcceptsFunds(job)
      /\ amount > 0
      /\ require_active_access(user)
      /\ require_job_not_held(j)
      /\ job.client = user
      /\ job.amount + amount <= I128_MAX
      /\ In(job.token, amount)
      /\ set_job(j, [job EXCEPT !.amount = @ + amount])
      /\ set_escrow_balance(j, job.token, job.amount + amount)
      /\ UNCHANGED <<now, jobsCount, tokenFees, burnPool, totalBurned, paid,
                     noteVars, disputeVars, settingVars, peopleVars>>

-----------------------------------------------------------------------------
(***************************************************************************)
(* approve_work.  Below the high-value threshold, or while one approval is *)
(* enough, the client alone releases the payment; otherwise registered     *)
(* approvers do, and the call that completes the quorum pays.  Threshold,  *)
(* quorum and approvers are those of the moment of the call, and recorded  *)
(* approvals survive rejection, top-up and removal of the approver.        *)
(***************************************************************************)
Fault_Approvable_before_submission(user, j) ==
  /\ jobs[j].status \in {"InProgress", "SubmittedForReview"}
  /\ require_active_access(user)
  /\ require_job_not_held(j)

Fault_Approvable_in_dispute(user, j) ==
  /\ jobs[j].status \in {"SubmittedForReview", "Disputed"}
  /\ require_active_access(user)
  /\ require_job_not_held(j)

Fault_Approvable_on_hold(user, j) ==
  /\ jobs[j].status = "SubmittedForReview"
  /\ require_active_access(user)

Approvable(user, j) ==
  /\ jobs[j].status = "SubmittedForReview"
  /\ require_active_access(user)
  /\ require_job_not_held(j)

ClientAlone(job) == job.amount < policy.threshold \/ policy.required <= 1

PayApproved(j) ==
  LET job    == jobs[j]
      exempt == fees.exempt \cap {job.client, job.freelancer} # {}
      rate   == calculate_fee_for_amount(job.amount, fees.feeBps, fees.tiers)
  IN  /\ job.freelancer # NoOne
      /\ exempt \/ MulFits(job.amount, rate)
      /\ Settle(j, "Completed", ApprovalSplit(job.amount, IF exempt THEN 0 ELSE rate,
                                              lateFee[j], fees.burnBps), 0)
      /\ attested' = attested \cup {j}
      /\ UNCHANGED <<now, held, lateFee, disputeVars, settingVars, reputation>>

\* 0.5% of the client's first approved job is credited to the referrer on
\* top of the split: nothing is set aside to pay it.
Fault_CreditReferral_every_job(job) ==
  LET referrer == incentives.link[job.client]
  IN  IF referrer # NoOne
      THEN incentives' = [incentives EXCEPT
             !.earnings[referrer] = @ + BpsOf(job.amount, REFERRAL_BPS),
             !.rewarded = @ \cup {job.client}]
      ELSE UNCHANGED incentives

CreditReferral(job) ==
  LET referrer == incentives.link[job.client]
  IN  IF job.client \notin incentives.rewarded /\ referrer # NoOne
      THEN /\ MulFits(job.amount, REFERRAL_BPS)
           /\ incentives' = [incentives EXCEPT
                !.earnings[referrer] = @ + BpsOf(job.amount, REFERRAL_BPS),
                !.rewarded = @ \cup {job.client}]
      ELSE UNCHANGED incentives

ApproveByClient(user, j) ==
  /\ Approvable(user, j)
  /\ ClientAlone(jobs[j])
  /\ jobs[j].client = user
  /\ PayApproved(j)
  /\ CreditReferral(jobs[j])
  /\ UNCHANGED approvals

\* The number of records counts, of approvers registered then or now.
Fault_QuorumReached_capped(given) ==
  \/ Cardinality(given) >= policy.required
  \/ Cardinality(given) >= Cardinality(policy.approvers)

QuorumReached(given) == Cardinality(given) >= policy.required

record_approval(user, j) ==
  approvals' = [approvals EXCEPT ![j] = @ \cup {user}]

ApproveByApprover(user, j) ==
  /\ Approvable(user, j)
  /\ ~ClientAlone(jobs[j])
  /\ user \in policy.approvers
  /\ record_approval(user, j)
  /\ \/ /\ ~QuorumReached(approvals'[j])
        /\ UNCHANGED <<now, jobVars, escrowVars, moneyVars, held, lateFee,
                       attested, disputeVars, settingVars, peopleVars>>
     \/ /\ QuorumReached(approvals'[j])
        /\ PayApproved(j)
        /\ UNCHANGED incentives

ApproveWork(user, j) == ApproveByClient(user, j) \/ ApproveByApprover(user, j)

-----------------------------------------------------------------------------
\* Every cancellation but mutual_cancel pays the whole escrow back.
Refund(j) ==
  /\ Settle(j, "Cancelled", RefundSplit(jobs[j].amount), 0)
  /\ UNCHANGED <<now, noteVars, disputeVars, settingVars, peopleVars>>

CancelJob(user, j) ==
  /\ jobs[j].status = "Open"
  /\ require_active_access(user)
  /\ require_job_not_held(j)
  /\ jobs[j].client = user
  /\ Refund(j)

\* Only the trusted relayer signs; neither access nor hold is looked at.
RelayCancelJob(relayer, client, j) ==
  /\ relayer \in policy.forwarders
  /\ jobs[j].status = "Open"
  /\ jobs[j].client = client
  /\ Refund(j)

FreelancerCancelJob(user, j) ==
  /\ jobs[j].status = "InProgress"
  /\ require_active_access(user)
  /\ jobs[j].freelancer = user
  /\ Refund(j)

EnforceDeadline(user, j) ==
  /\ jobs[j].status = "InProgress"
  /\ require_active_access(user)
  /\ jobs[j].client = user
  /\ jobs[j].deadline # 0
  /\ now > jobs[j].deadline
  /\ Refund(j)

MutualCancel(client, freelancer, j, clientBps) ==
  LET job == jobs[j]
  IN  /\ job.status \in {"InProgress", "SubmittedForReview"}
      /\ require_active_access(client)
      /\ require_active_access(freelancer)
      /\ job.client = client
      /\ job.freelancer = freelancer
      /\ clientBps \in Bps
      /\ MulFits(job.amount, clientBps)
      /\ Settle(j, "Cancelled", MutualSplit(job.amount, clientBps), 0)
      /\ UNCHANGED <<now, noteVars, disputeVars, settingVars, peopleVars>>
=============================================================================

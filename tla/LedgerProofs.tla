---------------------------- MODULE LedgerProofs ----------------------------
(***************************************************************************)
(* Where the money of a job can go.  Every step of the contract is a money *)
(* step of one of five kinds; the invariants about escrow and payment, the *)
(* action properties about the life of a job and the refinement of the     *)
(* ledger all follow from that.                                            *)
(***************************************************************************)
EXTENDS EscrowProofs

MoneyInv == EscrowMatchesStatus /\ SettledInFull

\* The record keeps what must never change and moves along a legal edge.
Continues(old, job) ==
  /\ job.client = old.client
  /\ job.token = old.token
  /\ old.freelancer # NoOne => job.freelancer = old.freelancer
  /\ job.status # old.status => <<old.status, job.status>> \in Moves

Calm == UNCHANGED <<jobsCount, jobs, escrowBal, paid>>

Opened(j, job) ==
  /\ j = jobsCount + 1 /\ jobsCount' = j
  /\ job \in Job /\ job.status = "Open" /\ job.amount > 0
  /\ jobs' = [jobs EXCEPT ![j] = job]
  /\ escrowBal' = [escrowBal EXCEPT ![j] = job.amount]
  /\ UNCHANGED paid

Edited(j, job) ==
  /\ is_active_job_status(jobs[j])
  /\ job \in Job /\ is_active_job_status(job) /\ job.amount = jobs[j].amount
  /\ Continues(jobs[j], job)
  /\ jobs' = [jobs EXCEPT ![j] = job]
  /\ UNCHANGED <<jobsCount, escrowBal, paid>>

Raised(j, job) ==
  /\ is_active_job_status(jobs[j]) /\ jobs[j].status # "Disputed"
  /\ job \in Job /\ job.status = jobs[j].status /\ job.amount > jobs[j].amount
  /\ Continues(jobs[j], job)
  /\ jobs' = [jobs EXCEPT ![j] = job]
  /\ escrowBal' = [escrowBal EXCEPT ![j] = job.amount]
  /\ UNCHANGED <<jobsCount, paid>>

Closed(j, job, split) ==
  /\ is_active_job_status(jobs[j])
  /\ job \in Job /\ IsTerminal(job) /\ job.amount = jobs[j].amount
  /\ Continues(jobs[j], job)
  /\ split \in WholeShares /\ Total(split) = job.amount
  /\ job.status = "Cancelled" => split.accrued = 0 /\ split.burned = 0
  /\ jobs' = [jobs EXCEPT ![j] = job]
  /\ escrowBal' = [escrowBal EXCEPT ![j] = 0]
  /\ paid' = [paid EXCEPT ![j] = AddSplit(@, split)]
  /\ UNCHANGED jobsCount

MoneyStep ==
  \/ Calm
  \/ \E j \in JobId, job \in Job :
       \/ Opened(j, job)
       \/ Edited(j, job)
       \/ Raised(j, job)
       \/ \E split \in WholeShares : Closed(j, job, split)

-----------------------------------------------------------------------------
(***************************************************************************)
(* Every division of an amount is complete and gives nobody less than      *)
(* nothing.                                                                *)
(***************************************************************************)
LEMMA RefundWhole ==
  ASSUME NEW amount \in Nat
  PROVE  RefundSplit(amount) \in WholeShares /\ Total(RefundSplit(amount)) = amount
         /\ RefundSplit(amount).accrued = 0 /\ RefundSplit(amount).burned = 0
BY DEF RefundSplit, NoSplit, WholeShares, Total

LEMMA ApprovalWhole ==
  ASSUME NEW amount \in Nat, NEW rate \in Bps, NEW late \in Nat, NEW burn \in Bps,
         ApprovalSplit(amount, rate, late, burn).freelancer >= 0
  PROVE  /\ ApprovalSplit(amount, rate, late, burn) \in WholeShares
         /\ Total(ApprovalSplit(amount, rate, late, burn)) = amount
<1> DEFINE fee == BpsOf(amount, rate)
<1>1. fee \in Nat
  BY BpsOfBound
<1>2. BpsOf(fee, burn) \in Nat /\ BpsOf(fee, burn) <= fee
  BY <1>1, BpsOfBound
<1> QED
  BY <1>1, <1>2 DEF ApprovalSplit, WholeShares, Total

LEMMA MutualWhole ==
  ASSUME NEW amount \in Nat, NEW bps \in Bps
  PROVE  /\ MutualSplit(amount, bps) \in WholeShares
         /\ Total(MutualSplit(amount, bps)) = amount
         /\ MutualSplit(amount, bps).accrued = 0 /\ MutualSplit(amount, bps).burned = 0
BY BpsOfBound DEF MutualSplit, WholeShares, Total

LEMMA DisputeWhole ==
  ASSUME NEW amount \in Nat, NEW bps \in Bps, NEW rate \in Bps
  PROVE  /\ DisputeSplit(amount, bps, rate) \in WholeShares
         /\ Total(DisputeSplit(amount, bps, rate)) = amount
<1> DEFINE gross == amount - BpsOf(amount, bps)
<1>1. BpsOf(amount, bps) \in Nat /\ gross \in Nat
  BY BpsOfBound
<1>2. BpsOf(gross, rate) \in Nat /\ BpsOf(gross, rate) <= gross
  BY <1>1, BpsOfBound
<1> QED
  BY <1>1, <1>2 DEF DisputeSplit, WholeShares, Total

LEMMA VerdictWhole ==
  ASSUME NEW amount \in Nat, NEW rate \in Bps
  PROVE  /\ VerdictSplit(amount, rate) \in WholeShares
         /\ Total(VerdictSplit(amount, rate)) = amount
BY BpsOfBound DEF VerdictSplit, WholeShares, Total

LEMMA WholeIsShares == WholeShares \subseteq Shares
BY DEF WholeShares, Shares

-----------------------------------------------------------------------------
(***************************************************************************)
(* Every step is a money step.                                             *)
(***************************************************************************)
LEMMA SettleCloses ==
  ASSUME TypeOK, NEW j \in JobId, NEW status \in TerminalStatus, NEW split, NEW extra,
         Settle(j, status, split, extra),
         split \in WholeShares, Total(split) = jobs[j].amount,
         status = "Cancelled" => split.accrued = 0 /\ split.burned = 0,
         <<jobs[j].status, status>> \in Moves,
         is_active_job_status(jobs[j])
  PROVE  MoneyStep
<1> DEFINE job == [jobs[j] EXCEPT !.status = status]
<1>1. jobs[j] \in Job
  BY JobRecord DEF TypeOK
<1>2. /\ job \in Job /\ job.status = status /\ job.amount = jobs[j].amount
      /\ job.client = jobs[j].client /\ job.token = jobs[j].token
      /\ job.freelancer = jobs[j].freelancer
  BY <1>1 DEF Job, JobStatus
<1>3. /\ jobs' = [jobs EXCEPT ![j] = job]
      /\ escrowBal' = [escrowBal EXCEPT ![j] = 0]
      /\ paid' = [paid EXCEPT ![j] = AddSplit(@, split)]
      /\ UNCHANGED jobsCount
  BY DEF Settle, set_job, set_escrow_balance
<1> HIDE DEF job
<1>4. IsTerminal(job) /\ Continues(jobs[j], job)
  BY <1>2 DEF IsTerminal, Continues
<1>5. Closed(j, job, split)
  BY <1>2, <1>3, <1>4 DEF Closed
<1> QED
  BY <1>2, <1>5 DEF MoneyStep

LEMMA CreateOpens ==
  ASSUME TypeOK, NEW client \in Users, NEW amount \in Nat, NEW bonus \in Nat,
         NEW deadline \in Nat, NEW token \in Tokens,
         CreateJob(client, amount, bonus, deadline, token)
  PROVE  MoneyStep
<1> DEFINE job == NewJob(client, amount, token, deadline)
           j == jobsCount + 1
<1>1. jobsCount \in Nat /\ MaxJobs \in Nat /\ jobsCount < MaxJobs
  BY CustodyAssumption DEF TypeOK, JobTypeOK, CreateJob
<1>2. j \in JobId
  BY <1>1 DEF JobId
<1>3. job \in Job /\ job.status = "Open" /\ job.amount = amount
  BY DEF NewJob, Job, JobStatus, ActiveStatus, MAX_REVISIONS
<1>4. /\ jobs' = [jobs EXCEPT ![j] = job]
      /\ escrowBal' = [escrowBal EXCEPT ![j] = amount]
      /\ UNCHANGED paid
      /\ amount > 0
      /\ jobsCount' = j
  BY DEF CreateJob, set_job, set_escrow_balance
<1> HIDE DEF job
<1>5. Opened(j, job)
  BY <1>3, <1>4 DEF Opened
<1> QED
  BY <1>2, <1>3, <1>5 DEF MoneyStep

\* A change of the record that moves no money.
LEMMA AdvanceEdits ==
  ASSUME TypeOK, NEW j \in JobId, NEW job \in Job,
         set_job(j, job), UNCHANGED <<jobsCount, escrowBal, paid>>,
         is_active_job_status(jobs[j]), is_active_job_status(job),
         job.amount = jobs[j].amount, Continues(jobs[j], job)
  PROVE  MoneyStep
<1>1. Edited(j, job)
  BY DEF Edited, set_job
<1> QED
  BY <1>1 DEF MoneyStep

LEMMA WorkEdits ==
  ASSUME TypeOK, NEW user \in Users, NEW j \in JobId,
         \/ AcceptJob(user, j)
         \/ SubmitWork(user, j)
         \/ RejectWork(user, j)
         \/ RaiseDispute(user, j)
         \/ \E d \in Nat : ExtendDeadline(user, j, d)
  PROVE  MoneyStep
<1> DEFINE old == jobs[j]
<1>1. old \in Job
  BY JobRecord DEF TypeOK
<1>2. CASE AcceptJob(user, j)
  <2> DEFINE new == [old EXCEPT !.freelancer = user, !.status = "InProgress"]
  <2>1. /\ new \in Job /\ is_active_job_status(new) /\ is_active_job_status(old)
        /\ new.amount = old.amount /\ Continues(old, new)
    BY <1>1, <1>2 DEF AcceptJob, Job, JobStatus, ActiveStatus, is_active_job_status, Continues, Moves
  <2>2. set_job(j, new) /\ UNCHANGED <<jobsCount, escrowBal, paid>>
    BY <1>2 DEF AcceptJob, Advance, escrowVars, moneyVars
  <2> QED
    BY <2>1, <2>2, AdvanceEdits
<1>3. CASE SubmitWork(user, j)
  <2> DEFINE new == [old EXCEPT !.status = "SubmittedForReview"]
  <2>1. /\ new \in Job /\ is_active_job_status(new) /\ is_active_job_status(old)
        /\ new.amount = old.amount /\ Continues(old, new)
    BY <1>1, <1>3 DEF SubmitWork, Job, JobStatus, ActiveStatus, is_active_job_status, Continues, Moves
  <2>2. set_job(j, new) /\ UNCHANGED <<jobsCount, escrowBal, paid>>
    BY <1>3 DEF SubmitWork, Advance, escrowVars, moneyVars
  <2> QED
    BY <2>1, <2>2, AdvanceEdits
<1>4. CASE RejectWork(user, j)
  <2> DEFINE new == [old EXCEPT !.status = "InProgress", !.revisions = @ + 1]
  <2>1. old.revisions + 1 \in 0 .. MAX_REVISIONS /\ "InProgress" \in JobStatus
    BY <1>1, <1>4 DEF RejectWork, CanRevise, MAX_REVISIONS, Job, JobStatus, ActiveStatus
  <2>2. new \in Job
    BY <1>1, <2>1, RecordChanges
  <2>3. /\ is_active_job_status(new) /\ is_active_job_status(old)
        /\ new.amount = old.amount /\ Continues(old, new)
    BY <1>1, <1>4 DEF RejectWork, Job, ActiveStatus, is_active_job_status, Continues, Moves
  <2>4. set_job(j, new) /\ UNCHANGED <<jobsCount, escrowBal, paid>>
    BY <1>4 DEF RejectWork, Advance, escrowVars, moneyVars
  <2> QED
    BY <2>2, <2>3, <2>4, AdvanceEdits
<1>5. CASE RaiseDispute(user, j)
  <2> DEFINE new == [old EXCEPT !.status = "Disputed"]
  <2>1. /\ new \in Job /\ is_active_job_status(new) /\ is_active_job_status(old)
        /\ new.amount = old.amount /\ Continues(old, new)
    BY <1>1, <1>5 DEF RaiseDispute, Job, JobStatus, ActiveStatus, is_active_job_status, Continues, Moves
  <2>2. set_job(j, new) /\ UNCHANGED <<jobsCount, escrowBal, paid>>
    BY <1>5 DEF RaiseDispute, escrowVars
  <2> QED
    BY <2>1, <2>2, AdvanceEdits
<1>6. ASSUME NEW d \in Nat, ExtendDeadline(user, j, d)  PROVE MoneyStep
  <2> DEFINE new == [old EXCEPT !.deadline = d]
  <2>1. /\ new \in Job /\ is_active_job_status(new) /\ is_active_job_status(old)
        /\ new.amount = old.amount /\ Continues(old, new)
    BY <1>1, <1>6 DEF ExtendDeadline, Job, JobStatus, ActiveStatus, is_active_job_status, Continues, Moves
  <2>2. set_job(j, new) /\ UNCHANGED <<jobsCount, escrowBal, paid>>
    BY <1>6 DEF ExtendDeadline, Advance, escrowVars, moneyVars
  <2> QED
    BY <2>1, <2>2, AdvanceEdits
<1> QED
  BY <1>2, <1>3, <1>4, <1>5, <1>6

LEMMA TopUpRaises ==
  ASSUME TypeOK, NEW user \in Users, NEW j \in JobId, NEW amount \in Nat,
         TopUpEscrow(user, j, amount)
  PROVE  MoneyStep
<1> DEFINE old == jobs[j]
           new == [old EXCEPT !.amount = @ + amount]
<1>1. old \in Job /\ old.amount \in Nat /\ amount > 0
  BY JobRecord DEF TypeOK, TopUpEscrow
<1>2. /\ new \in Job /\ new.status = old.status /\ new.amount = old.amount + amount
      /\ new.amount > old.amount
      /\ is_active_job_status(old) /\ old.status # "Disputed" /\ Continues(old, new)
  BY <1>1 DEF TopUpEscrow, AcceptsFunds, Job, ActiveStatus, is_active_job_status, Continues
<1>3. /\ jobs' = [jobs EXCEPT ![j] = new]
      /\ escrowBal' = [escrowBal EXCEPT ![j] = old.amount + amount]
      /\ UNCHANGED <<jobsCount, paid>>
  BY DEF TopUpEscrow, set_job, set_escrow_balance
<1> HIDE DEF new
<1>4. Raised(j, new)
  BY <1>2, <1>3 DEF Raised
<1> QED
  BY <1>2, <1>4 DEF MoneyStep

LEMMA PayApprovedCloses ==
  ASSUME TypeOK, NEW j \in JobId, PayApproved(j), jobs[j].status = "SubmittedForReview"
  PROVE  MoneyStep
<1> DEFINE exempt == fees.exempt \cap {jobs[j].client, jobs[j].freelancer} # {}
           rate == IF exempt THEN 0
                   ELSE calculate_fee_for_amount(jobs[j].amount, fees.feeBps, fees.tiers)
           split == ApprovalSplit(jobs[j].amount, rate, lateFee[j], fees.burnBps)
<1>1. Settle(j, "Completed", split, 0) /\ split.freelancer >= 0
  BY DEF PayApproved, Settle
<1>2. split \in WholeShares /\ Total(split) = jobs[j].amount
  <2>1. rate \in Bps
    <3>1. calculate_fee_for_amount(jobs[j].amount, fees.feeBps, fees.tiers) \in Bps
      BY FeeRateType, JobRecord DEF TypeOK, SettingTypeOK
    <3>2. 0 \in Bps
      BY DEF Bps, BPS_DENOMINATOR
    <3> QED
      BY <3>1, <3>2
  <2>2. lateFee[j] \in Nat /\ fees.burnBps \in Bps /\ jobs[j].amount \in Nat
    BY JobRecord DEF TypeOK, NoteTypeOK, SettingTypeOK, FeeSettings
  <2> HIDE DEF rate
  <2> QED
    BY <1>1, <2>1, <2>2, ApprovalWhole
<1> HIDE DEF split
<1>3. <<jobs[j].status, "Completed">> \in Moves /\ is_active_job_status(jobs[j])
  BY DEF Moves, is_active_job_status, ActiveStatus
<1> QED
  BY <1>1, <1>2, <1>3, SettleCloses DEF TerminalStatus

LEMMA RefundCloses ==
  ASSUME TypeOK, NEW j \in JobId, Refund(j), is_active_job_status(jobs[j])
  PROVE  MoneyStep
<1>1. jobs[j].amount \in Nat
  BY JobRecord DEF TypeOK
<1>2. <<jobs[j].status, "Cancelled">> \in Moves /\ is_active_job_status(jobs[j])
  BY DEF Moves, is_active_job_status, ActiveStatus
<1> QED
  BY <1>1, <1>2, RefundWhole, SettleCloses DEF Refund, TerminalStatus

LEMMA EndingStep ==
  ASSUME TypeOK, NEW u \in Users, NEW j \in JobId, Ending(u, j)  PROVE MoneyStep
<1>1. CASE ApproveByClient(u, j)
  BY <1>1, PayApprovedCloses DEF ApproveByClient, Approvable
<1>2. CASE ApproveByApprover(u, j)
  <2>1. CASE QuorumReached(approvals'[j])
    BY <1>2, <2>1, PayApprovedCloses DEF ApproveByApprover, Approvable
  <2>2. CASE ~QuorumReached(approvals'[j])
    BY <1>2, <2>2 DEF ApproveByApprover, MoneyStep, Calm, jobVars, escrowVars, moneyVars
  <2> QED
    BY <2>1, <2>2
<1>3. CASE \/ CancelJob(u, j)
           \/ \E v \in Users : RelayCancelJob(u, v, j)
           \/ FreelancerCancelJob(u, j)
           \/ EnforceDeadline(u, j)
  BY <1>3, RefundCloses
     DEF CancelJob, RelayCancelJob, FreelancerCancelJob, EnforceDeadline, is_active_job_status, ActiveStatus
<1>4. ASSUME NEW v \in Users, NEW s \in Inputs.shares, MutualCancel(u, v, j, s)
      PROVE  MoneyStep
  <2>1. jobs[j].amount \in Nat /\ s \in Bps
    BY <1>4, JobRecord DEF TypeOK, MutualCancel
  <2>2. <<jobs[j].status, "Cancelled">> \in Moves /\ is_active_job_status(jobs[j])
    BY <1>4 DEF MutualCancel, Moves, is_active_job_status, ActiveStatus
  <2>3. Settle(j, "Cancelled", MutualSplit(jobs[j].amount, s), 0)
    BY <1>4 DEF MutualCancel
  <2> QED
    BY <2>1, <2>2, <2>3, MutualWhole, SettleCloses DEF TerminalStatus
<1> QED
  BY <1>1, <1>2, <1>3, <1>4 DEF Ending

LEMMA JudgingStep ==
  ASSUME TypeOK, NEW j \in JobId, Judging(j)  PROVE MoneyStep
<1> DEFINE amount == jobs[j].amount
           rate == calculate_fee_for_amount(amount, fees.feeBps, fees.tiers)
<1>1. amount \in Nat /\ fees.feeBps \in Bps /\ rate \in Bps
  BY JobRecord, FeeRateType DEF TypeOK, SettingTypeOK, FeeSettings
<1>2. jobs[j].status = "Disputed"
  BY DEF Judging, ResolveDispute, ResolveDisputeSplit, SubmitVerdict
<1>3. /\ <<jobs[j].status, "Completed">> \in Moves
      /\ <<jobs[j].status, "Cancelled">> \in Moves
      /\ is_active_job_status(jobs[j])
  BY <1>2 DEF Moves, is_active_job_status, ActiveStatus
<1>4. \/ \E s \in Bps : \E extra : Settle(j, "Completed", DisputeSplit(amount, s, fees.feeBps), extra)
      \/ \E extra : Settle(j, "Cancelled", RefundSplit(amount), extra)
      \/ \E extra : Settle(j, "Completed", VerdictSplit(amount, rate), extra)
  BY InputsTyped DEF Judging, ResolveDispute, ResolveDisputeSplit, SubmitVerdict
<1> HIDE DEF rate
<1>5. CASE \E s \in Bps : \E extra : Settle(j, "Completed", DisputeSplit(amount, s, fees.feeBps), extra)
  BY <1>1, <1>3, <1>5, DisputeWhole, SettleCloses DEF TerminalStatus
<1>6. CASE \E extra : Settle(j, "Cancelled", RefundSplit(amount), extra)
  BY <1>1, <1>3, <1>6, RefundWhole, SettleCloses DEF TerminalStatus
<1>7. CASE \E extra : Settle(j, "Completed", VerdictSplit(amount, rate), extra)
  BY <1>1, <1>3, <1>7, VerdictWhole, SettleCloses DEF TerminalStatus
<1> QED
  BY <1>4, <1>5, <1>6, <1>7

\* The calls of the administrator and about people leave jobs alone.
Administration == FeeChange \/ PolicyChange \/ MoneyOut \/ Reputation \/ Tick

LEMMA AdminFrame ==
  ASSUME Administration \/ UNCHANGED vars
  PROVE  UNCHANGED <<jobVars, escrowVars, paid, attested, disputeVars>>
<1> USE DEF Administration
<1>1. CASE FeeChange
  BY <1>1 DEF FeeChange, update_fee, update_fee_bps, update_fee_tier, set_fee_exemption,
     set_late_fee_bps, set_late_fee_enabled, update_burn_percentage, update_dispute_fee,
     update_oracle_fee, set_oracle_enabled, register_oracle, remove_oracle, SetFees, SetOracles,
     moneyVars, noteVars
<1>2. CASE PolicyChange
  BY <1>2 DEF PolicyChange, pause_module, resume_module, add_to_blacklist, remove_from_blacklist,
     add_to_whitelist, remove_from_whitelist, set_whitelist_mode, add_approver, remove_approver,
     set_high_value_threshold, set_required_approvals, set_trusted_forwarder,
     set_max_jobs_per_user, set_max_active_jobs_per_client, set_min_rating_to_accept,
     set_exempt_verified_freelancers, add_allowed_token, remove_allowed_token, set_job_hold,
     SetPolicy, moneyVars, noteVars
<1>3. CASE MoneyOut
  BY <1>3 DEF MoneyOut, withdraw_fees, execute_burn, register_referral,
     withdraw_referral_earnings, set_onboarding_bonus, claim_onboarding_bonus, Withdraw, SetPeople,
     moneyVars, noteVars
<1>4. CASE Reputation
  BY <1>4 DEF Reputation, verify_freelancer, unverify_freelancer, rate_freelancer, SetPeople,
     moneyVars, noteVars
<1>5. CASE Tick \/ UNCHANGED vars
  BY <1>5 DEF Tick, vars, moneyVars, noteVars
<1> QED
  BY <1>1, <1>2, <1>3, <1>4, <1>5

LEMMA AdminCalm ==
  ASSUME Administration \/ UNCHANGED vars  PROVE MoneyStep
BY AdminFrame DEF MoneyStep, Calm, jobVars, escrowVars

\* The calls about a job change no setting and put no job on hold.
LEMMA CallFrame ==
  ASSUME \/ Posting
         \/ \E u \in Users, j \in JobId : Working(u, j) \/ Ending(u, j)
         \/ \E j \in JobId : Judging(j)
  PROVE  UNCHANGED <<held, settingVars>>
<1>1. CASE Posting
  BY <1>1 DEF Posting, PostJob, PostJobWithCategories, PostJobWithReferral, CreateJob, noteVars
<1>2. ASSUME NEW u \in Users, NEW j \in JobId, Working(u, j)
      PROVE  UNCHANGED <<held, settingVars>>
  <2>1. SubmitWork(u, j) => UNCHANGED <<held, settingVars>>
    BY DEF SubmitWork, Advance
  <2>2. AcceptJob(u, j) \/ RejectWork(u, j) => UNCHANGED <<held, settingVars>>
    BY DEF AcceptJob, RejectWork, Advance, noteVars
  <2>3. \A d : ExtendDeadline(u, j, d) => UNCHANGED <<held, settingVars>>
    BY DEF ExtendDeadline, Advance, noteVars
  <2>4. \A a : TopUpEscrow(u, j, a) => UNCHANGED <<held, settingVars>>
    BY DEF TopUpEscrow, noteVars
  <2>5. RaiseDispute(u, j) => UNCHANGED <<held, settingVars>>
    BY DEF RaiseDispute, noteVars
  <2> QED
    BY <1>2, <2>1, <2>2, <2>3, <2>4, <2>5 DEF Working
<1>3. CASE \E u \in Users, j \in JobId : Ending(u, j)
  BY <1>3 DEF Ending, ApproveByClient, ApproveByApprover, PayApproved, CancelJob, RelayCancelJob,
     FreelancerCancelJob, EnforceDeadline, MutualCancel, Refund, noteVars
<1>4. CASE \E j \in JobId : Judging(j)
  BY <1>4 DEF Judging, ResolveDispute, ResolveDisputeSplit, SubmitVerdict, noteVars
<1> QED
  BY <1>1, <1>2, <1>3, <1>4

LEMMA EveryStepIsMoneyStep ==
  TypeOK /\ [Next]_vars => MoneyStep
<1> SUFFICES ASSUME TypeOK, [Next]_vars PROVE MoneyStep
  OBVIOUS
<1>1. CASE Posting
  <2>1. PICK u \in Users, a \in Inputs.amounts, d \in Inputs.deadlines, t \in Tokens :
          \/ PostJob(u, a, d, t)
          \/ \E b \in Inputs.bonuses : PostJobWithCategories(u, a, b, d, t)
          \/ \E r \in Inputs.referrers : PostJobWithReferral(u, a, d, t, r)
    BY <1>1 DEF Posting
  <2>2. a \in Nat /\ d \in Nat
    BY InputsTyped
  <2>3. \E b \in Nat : CreateJob(u, a, b, d, t)
    BY <2>1, InputsTyped DEF PostJob, PostJobWithCategories, PostJobWithReferral
  <2> QED
    BY <2>2, <2>3, CreateOpens
<1>2. ASSUME NEW u \in Users, NEW j \in JobId, Working(u, j)  PROVE MoneyStep
  BY <1>2, InputsTyped, WorkEdits, TopUpRaises DEF Working
<1> QED
  BY <1>1, <1>2, EndingStep, JudgingStep, AdminCalm DEF Next, Administration

-----------------------------------------------------------------------------
LEMMA AddToNothing ==
  ASSUME NEW s \in WholeShares, Total(s) = 0, NEW t \in WholeShares
  PROVE  AddSplit(s, t) = t
<1>1. s.client = 0 /\ s.freelancer = 0 /\ s.accrued = 0 /\ s.burned = 0
  BY DEF WholeShares, Total
<1>2. /\ t.client \in Nat /\ t.freelancer \in Nat /\ t.accrued \in Nat /\ t.burned \in Nat
      /\ t = [client |-> t.client, freelancer |-> t.freelancer,
              accrued |-> t.accrued, burned |-> t.burned]
  BY DEF WholeShares
<1> QED
  BY <1>1, <1>2 DEF AddSplit

(***************************************************************************)
(* The invariant.  Neither half is inductive alone: that a division adds   *)
(* up needs the shares of an active job to be zero, and that a new job     *)
(* starts clean needs the ids above jobsCount to be unused.                *)
(***************************************************************************)
CancelInv == MoneyInv /\ CancelledFreeOfFees

LEMMA MoneyInit == Init => CancelInv
BY CustodyAssumption DEF Init, CancelInv, MoneyInv, EscrowMatchesStatus, SettledInFull, CancelledFreeOfFees,
   NoJob, is_active_job_status, IsTerminal, ActiveStatus, TerminalStatus, Posted, NoSplit, WholeShares, Total, JobId

LEMMA MoneyNext ==
  ASSUME TypeOK, CancelInv, MoneyStep  PROVE CancelInv'
<1> USE DEF Posted
<1>1. CASE Calm
  BY <1>1 DEF Calm, CancelInv, MoneyInv, EscrowMatchesStatus, SettledInFull, CancelledFreeOfFees
<1>2. ASSUME NEW j \in JobId, NEW job \in Job, Opened(j, job)  PROVE CancelInv'
  <2>1. jobs[j].status = "Absent" /\ paid[j] \in WholeShares /\ Total(paid[j]) = 0
    <3>1. jobs[j].status = "Absent"
      BY <1>2 DEF Opened, CancelInv, MoneyInv, EscrowMatchesStatus, JobId, TypeOK, JobTypeOK
    <3> QED
      BY <3>1 DEF CancelInv, MoneyInv, SettledInFull, IsTerminal, TerminalStatus
  <2>2. is_active_job_status(job) /\ ~IsTerminal(job) /\ job.status \notin {"Absent", "Cancelled"}
    BY <1>2 DEF Opened, is_active_job_status, IsTerminal, ActiveStatus, TerminalStatus
  <2>3. EscrowMatchesStatus'
    BY <1>2, <2>1, <2>2 DEF Opened, CancelInv, MoneyInv, EscrowMatchesStatus, TypeOK, JobTypeOK, EscrowTypeOK, JobId
  <2>4. SettledInFull' /\ CancelledFreeOfFees'
    BY <1>2, <2>1, <2>2 DEF Opened, CancelInv, MoneyInv, SettledInFull, CancelledFreeOfFees, TypeOK, JobTypeOK
  <2> QED
    BY <2>3, <2>4 DEF CancelInv, MoneyInv
<1>3. ASSUME NEW j \in JobId, NEW job \in Job, Edited(j, job)  PROVE CancelInv'
  <2>1. /\ ~IsTerminal(job) /\ ~IsTerminal(jobs[j])
        /\ job.status \notin {"Absent", "Cancelled"} /\ jobs[j].status # "Absent"
    BY <1>3 DEF Edited, is_active_job_status, IsTerminal, ActiveStatus, TerminalStatus
  <2>2. EscrowMatchesStatus'
    BY <1>3, <2>1 DEF Edited, CancelInv, MoneyInv, EscrowMatchesStatus, TypeOK, JobTypeOK
  <2>3. SettledInFull' /\ CancelledFreeOfFees'
    BY <1>3, <2>1 DEF Edited, CancelInv, MoneyInv, SettledInFull, CancelledFreeOfFees, TypeOK, JobTypeOK
  <2> QED
    BY <2>2, <2>3 DEF CancelInv, MoneyInv
<1>4. ASSUME NEW j \in JobId, NEW job \in Job, Raised(j, job)  PROVE CancelInv'
  <2>1. /\ ~IsTerminal(job) /\ ~IsTerminal(jobs[j]) /\ is_active_job_status(job)
        /\ job.status \notin {"Absent", "Cancelled"} /\ jobs[j].status # "Absent"
    BY <1>4 DEF Raised, is_active_job_status, IsTerminal, ActiveStatus, TerminalStatus
  <2>2. job.amount > 0 /\ job.amount \in Nat
    BY <1>4, JobRecord DEF Raised, Job, TypeOK
  <2>3. EscrowMatchesStatus'
    BY <1>4, <2>1, <2>2 DEF Raised, CancelInv, MoneyInv, EscrowMatchesStatus, TypeOK, JobTypeOK, EscrowTypeOK
  <2>4. SettledInFull' /\ CancelledFreeOfFees'
    BY <1>4, <2>1 DEF Raised, CancelInv, MoneyInv, SettledInFull, CancelledFreeOfFees, TypeOK, JobTypeOK
  <2> QED
    BY <2>3, <2>4 DEF CancelInv, MoneyInv
<1>5. ASSUME NEW j \in JobId, NEW job \in Job, NEW split \in WholeShares, Closed(j, job, split)
      PROVE  CancelInv'
  <2>1. /\ ~IsTerminal(jobs[j]) /\ ~is_active_job_status(job) /\ IsTerminal(job)
        /\ job.status # "Absent" /\ jobs[j].status # "Absent"
    BY <1>5 DEF Closed, is_active_job_status, IsTerminal, ActiveStatus, TerminalStatus
  <2>2. paid[j] \in WholeShares /\ Total(paid[j]) = 0
    BY <2>1 DEF CancelInv, MoneyInv, SettledInFull
  <2>3. AddSplit(paid[j], split) = split
    BY <2>2, AddToNothing
  <2>4. EscrowMatchesStatus'
    BY <1>5, <2>1 DEF Closed, CancelInv, MoneyInv, EscrowMatchesStatus, TypeOK, JobTypeOK, EscrowTypeOK
  <2>5. SettledInFull' /\ CancelledFreeOfFees'
    BY <1>5, <2>1, <2>3 DEF Closed, CancelInv, MoneyInv, SettledInFull, CancelledFreeOfFees, TypeOK, JobTypeOK, MoneyTypeOK
  <2> QED
    BY <2>4, <2>5 DEF CancelInv, MoneyInv
<1> QED
  BY <1>1, <1>2, <1>3, <1>4, <1>5 DEF MoneyStep

(***************************************************************************)
(* The escrow entry of every job holds its amount exactly while the job is *)
(* active, and when the job ends the four recipients get, in shares none   *)
(* of which is negative, what the client put in: no fee rate, tier, late   *)
(* fee, burn rate or sequence of top-ups creates or loses a unit.          *)
(***************************************************************************)
THEOREM MoneySafe == Spec => [](EscrowMatchesStatus /\ SettledInFull /\ CancelledFreeOfFees)
<1>1. Init => TypeOK /\ CancelInv
  BY TypeInit, MoneyInit
<1>2. TypeOK /\ CancelInv /\ [Next]_vars => TypeOK' /\ CancelInv'
  BY TypeNext, EveryStepIsMoneyStep, MoneyNext
<1>3. CancelInv => EscrowMatchesStatus /\ SettledInFull /\ CancelledFreeOfFees
  BY DEF CancelInv, MoneyInv
<1> QED
  BY <1>1, <1>2, <1>3, PTL DEF Spec

(***************************************************************************)
(* A job only moves along the edges of its life cycle.                     *)
(***************************************************************************)
LEMMA MoneyStepLegal ==
  ASSUME TypeOK, CancelInv, MoneyStep  PROVE LegalMove
<1>1. CASE Calm
  BY <1>1 DEF Calm, LegalMove
<1>2. ASSUME NEW j \in JobId, NEW job \in Job, Opened(j, job)  PROVE LegalMove
  <2>1. jobs[j].status = "Absent"
    BY <1>2 DEF Opened, CancelInv, MoneyInv, EscrowMatchesStatus, JobId, TypeOK, JobTypeOK
  <2> QED
    BY <1>2, <2>1 DEF Opened, LegalMove, Moves, TypeOK, JobTypeOK
<1>3. ASSUME NEW j \in JobId, NEW job \in Job, NEW split \in WholeShares,
             Edited(j, job) \/ Raised(j, job) \/ Closed(j, job, split)
      PROVE  LegalMove
  BY <1>3 DEF Edited, Raised, Closed, Continues, LegalMove, TypeOK, JobTypeOK
<1>4. [client |-> 0, freelancer |-> 0, accrued |-> 0, burned |-> 0] \in WholeShares
  BY Zenon DEF WholeShares
<1> QED
  BY <1>1, <1>2, <1>3, <1>4 DEF MoneyStep

THEOREM LifeIsLegal == Spec => LegalMoves
<1>1. Init => TypeOK /\ CancelInv
  BY TypeInit, MoneyInit
<1>2. TypeOK /\ CancelInv /\ [Next]_vars => TypeOK' /\ CancelInv'
  BY TypeNext, EveryStepIsMoneyStep, MoneyNext
<1>3. TypeOK /\ CancelInv /\ [Next]_vars => [LegalMove]_vars
  BY EveryStepIsMoneyStep, MoneyStepLegal
<1> QED
  BY <1>1, <1>2, <1>3, PTL DEF Spec, LegalMoves

(***************************************************************************)
(* The client, the token and an assigned freelancer of a job never change, *)
(* its amount never shrinks, and a finished job and its division stand for *)
(* ever.                                                                   *)
(***************************************************************************)
LEMMA MoneyStepKeepsTerms ==
  ASSUME TypeOK, CancelInv, MoneyStep  PROVE TermsKept
<1> SUFFICES ASSUME NEW k \in JobId, jobs[k].status # "Absent"  PROVE KeepsItsTerms(k)
  BY DEF TermsKept, Posted
<1>1. jobs[k].amount \in Nat
  BY JobRecord DEF TypeOK
<1>2. CASE Calm
  BY <1>1, <1>2 DEF Calm, KeepsItsTerms
<1>3. ASSUME NEW j \in JobId, NEW job \in Job, Opened(j, job)  PROVE KeepsItsTerms(k)
  <2>1. k # j
    BY <1>3 DEF Opened, CancelInv, MoneyInv, EscrowMatchesStatus, JobId, TypeOK, JobTypeOK
  <2> QED
    BY <1>1, <1>3, <2>1 DEF Opened, KeepsItsTerms, TypeOK, JobTypeOK
<1>4. ASSUME NEW j \in JobId, NEW job \in Job, Edited(j, job)  PROVE KeepsItsTerms(k)
  BY <1>1, <1>4 DEF Edited, Continues, KeepsItsTerms, TypeOK, JobTypeOK, is_active_job_status,
     IsTerminal, ActiveStatus, TerminalStatus
<1>5. ASSUME NEW j \in JobId, NEW job \in Job, Raised(j, job)  PROVE KeepsItsTerms(k)
  <2>1. job.amount \in Nat
    BY <1>5 DEF Job
  <2> QED
    BY <1>1, <1>5, <2>1 DEF Raised, Continues, KeepsItsTerms, TypeOK, JobTypeOK, is_active_job_status,
       IsTerminal, ActiveStatus, TerminalStatus
<1>6. ASSUME NEW j \in JobId, NEW job \in Job, NEW split \in WholeShares, Closed(j, job, split)
      PROVE  KeepsItsTerms(k)
  BY <1>1, <1>6 DEF Closed, Continues, KeepsItsTerms, TypeOK, JobTypeOK, is_active_job_status,
     IsTerminal, ActiveStatus, TerminalStatus
<1> QED
  BY <1>2, <1>3, <1>4, <1>5, <1>6 DEF MoneyStep

THEOREM TermsNeverChange == Spec => TermsAreFixed
<1>1. Init => TypeOK /\ CancelInv
  BY TypeInit, MoneyInit
<1>2. TypeOK /\ CancelInv /\ [Next]_vars => TypeOK' /\ CancelInv'
  BY TypeNext, EveryStepIsMoneyStep, MoneyNext
<1>3. TypeOK /\ CancelInv /\ [Next]_vars => [TermsKept]_vars
  BY EveryStepIsMoneyStep, MoneyStepKeepsTerms
<1> QED
  BY <1>1, <1>2, <1>3, PTL DEF Spec, TermsAreFixed

-----------------------------------------------------------------------------
(***************************************************************************)
(* The contract implements the abstract ledger: every call puts money into *)
(* one job, divides one in full, or leaves the money of all jobs alone.    *)
(***************************************************************************)
LEMMA LedgerStarts == Init => Ledger!LedgerInit
BY DEF Init, Ledger!LedgerInit, Ledger!Nothing, NoSplit, NoJob, StageOf

LEMMA LedgerSteps ==
  ASSUME TypeOK, CancelInv, MoneyStep
  PROVE  [Ledger!LedgerNext]_(Ledger!ledgerVars)
<1> DEFINE stage == [j \in JobId |-> StageOf(jobs[j])]
<1>1. CASE Calm
  BY <1>1 DEF Calm, Ledger!ledgerVars
<1>2. ASSUME NEW j \in JobId, NEW job \in Job, Opened(j, job)  PROVE Ledger!PutIn(j)
  <2>1. jobs[j].status = "Absent" /\ escrowBal[j] = 0
    BY <1>2 DEF Opened, CancelInv, MoneyInv, EscrowMatchesStatus, JobId, TypeOK, JobTypeOK,
       is_active_job_status, ActiveStatus
  <2>2. stage' = [stage EXCEPT ![j] = "Live"] /\ stage[j] = "Absent"
    BY <1>2, <2>1 DEF Opened, StageOf, TypeOK, JobTypeOK, is_active_job_status, ActiveStatus
  <2>3. job.amount \in Nat
    BY DEF Job
  <2> QED
    BY <1>2, <2>1, <2>2, <2>3 DEF Opened, Ledger!PutIn, Ledger!SameElsewhere, TypeOK, EscrowTypeOK
<1>3. ASSUME NEW j \in JobId, NEW job \in Job, Edited(j, job)  PROVE UNCHANGED Ledger!ledgerVars
  <2>1. stage' = stage
    BY <1>3 DEF Edited, StageOf, TypeOK, JobTypeOK, is_active_job_status, ActiveStatus
  <2> QED
    BY <1>3, <2>1 DEF Edited, Ledger!ledgerVars
<1>4. ASSUME NEW j \in JobId, NEW job \in Job, Raised(j, job)  PROVE Ledger!PutIn(j)
  <2>1. stage' = [stage EXCEPT ![j] = "Live"] /\ stage[j] = "Live"
    BY <1>4 DEF Raised, StageOf, TypeOK, JobTypeOK, is_active_job_status, ActiveStatus
  <2>2. job.amount \in Nat /\ escrowBal[j] = jobs[j].amount
    BY <1>4 DEF Job, Raised, CancelInv, MoneyInv, EscrowMatchesStatus
  <2> QED
    BY <1>4, <2>1, <2>2 DEF Raised, Ledger!PutIn, Ledger!SameElsewhere, TypeOK, EscrowTypeOK
<1>5. ASSUME NEW j \in JobId, NEW job \in Job, NEW split \in WholeShares, Closed(j, job, split)
      PROVE  Ledger!Divide(j)
  <2>1. stage' = [stage EXCEPT ![j] = "Settled"] /\ stage[j] = "Live"
    BY <1>5 DEF Closed, StageOf, TypeOK, JobTypeOK, is_active_job_status, ActiveStatus,
       IsTerminal, TerminalStatus
  <2>2. escrowBal[j] = jobs[j].amount /\ ~IsTerminal(jobs[j])
    BY <1>5 DEF Closed, CancelInv, MoneyInv, EscrowMatchesStatus, is_active_job_status, ActiveStatus,
       IsTerminal, TerminalStatus
  <2>3. paid' = [paid EXCEPT ![j] = split]
    BY <1>5, <2>2, AddToNothing DEF Closed, CancelInv, MoneyInv, SettledInFull
  <2>4. paid' \in [JobId -> WholeShares] /\ paid'[j] = split
    BY <2>3 DEF CancelInv, MoneyInv, SettledInFull, TypeOK, MoneyTypeOK
  <2> QED
    BY <1>5, <2>1, <2>2, <2>3, <2>4
       DEF Closed, Total, WholeShares, Ledger!Divide, Ledger!Divides, Ledger!Shares, Ledger!SameElsewhere,
           TypeOK, MoneyTypeOK
<1> QED
  BY <1>1, <1>2, <1>3, <1>4, <1>5 DEF MoneyStep, Ledger!LedgerNext

THEOREM LedgerImplemented == Spec => ImplementsLedger
<1>1. Init => TypeOK /\ CancelInv /\ Ledger!LedgerInit
  BY TypeInit, MoneyInit, LedgerStarts
<1>2. TypeOK /\ CancelInv /\ [Next]_vars => TypeOK' /\ CancelInv'
  BY TypeNext, EveryStepIsMoneyStep, MoneyNext
<1>3. TypeOK /\ CancelInv /\ [Next]_vars => [Ledger!LedgerNext]_(Ledger!ledgerVars)
  BY EveryStepIsMoneyStep, LedgerSteps
<1> QED
  BY <1>1, <1>2, <1>3, PTL DEF Spec, ImplementsLedger, Ledger!LedgerSpec
=============================================================================

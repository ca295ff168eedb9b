---------------------------- MODULE EscrowProofs ----------------------------
(***************************************************************************)
(* Theorems about the escrow contract, for every number of jobs, users,    *)
(* tokens and oracles and for all settings.                                *)
(***************************************************************************)
EXTENDS EscrowProperties, SequenceTheorems, TLAPS

(***************************************************************************)
(* The variables fall into groups, and most calls leave most groups alone. *)
(***************************************************************************)
LEMMA JobFrame ==
  ASSUME JobTypeOK, UNCHANGED jobVars  PROVE JobTypeOK'
BY DEF JobTypeOK, jobVars

LEMMA EscrowFrame ==
  ASSUME EscrowTypeOK, UNCHANGED escrowVars  PROVE EscrowTypeOK'
BY DEF EscrowTypeOK, escrowVars

LEMMA MoneyFrame ==
  ASSUME MoneyTypeOK, UNCHANGED moneyVars  PROVE MoneyTypeOK'
BY DEF MoneyTypeOK, moneyVars

LEMMA NoteFrame ==
  ASSUME NoteTypeOK, UNCHANGED noteVars  PROVE NoteTypeOK'
BY DEF NoteTypeOK, noteVars

LEMMA DisputeFrame ==
  ASSUME DisputeTypeOK, UNCHANGED disputeVars  PROVE DisputeTypeOK'
BY DEF DisputeTypeOK, disputeVars

LEMMA SettingFrame ==
  ASSUME SettingTypeOK, UNCHANGED settingVars  PROVE SettingTypeOK'
BY DEF SettingTypeOK, settingVars

LEMMA PeopleFrame ==
  ASSUME PeopleTypeOK, UNCHANGED peopleVars  PROVE PeopleTypeOK'
BY DEF PeopleTypeOK, peopleVars

-----------------------------------------------------------------------------
(***************************************************************************)
(* Arithmetic.                                                             *)
(***************************************************************************)
LEMMA BpsOfNat ==
  ASSUME NEW amount \in Nat, NEW bps \in Nat
  PROVE  BpsOf(amount, bps) \in Nat
<1>1. amount * bps \in Nat
  OBVIOUS
<1> QED
  BY <1>1 DEF BpsOf, BPS_DENOMINATOR

LEMMA BpsOfBound ==
  ASSUME NEW amount \in Nat, NEW bps \in Bps
  PROVE  BpsOf(amount, bps) \in Nat /\ BpsOf(amount, bps) <= amount
<1>1. bps \in Nat /\ bps <= 10000
  BY DEF Bps, BPS_DENOMINATOR
<1>2. amount * bps \in Nat /\ amount * bps <= amount * 10000
  BY <1>1
<1> QED
  BY <1>1, <1>2 DEF BpsOf, BPS_DENOMINATOR

-----------------------------------------------------------------------------
(***************************************************************************)
(* Storage helpers.                                                        *)
(***************************************************************************)
LEMMA SetJobType ==
  ASSUME JobTypeOK, NEW j \in JobId, NEW job \in Job, set_job(j, job),
         jobsCount' \in 0 .. MaxJobs
  PROVE  JobTypeOK'
<1>1. jobs' \in [JobId -> Job]
  BY DEF JobTypeOK, set_job
<1>2. userActive' \in [Users -> Nat]
  BY DEF JobTypeOK, set_job, Saturating, CounterStep
<1>3. userCompleted' \in [Users -> Nat]
  BY DEF JobTypeOK, set_job, CounterStep
<1> QED
  BY <1>1, <1>2, <1>3 DEF JobTypeOK

LEMMA SetEscrowType ==
  ASSUME EscrowTypeOK, NEW j \in JobId, NEW token \in Tokens, NEW amount \in Nat,
         set_escrow_balance(j, token, amount)
  PROVE  EscrowTypeOK'
BY DEF EscrowTypeOK, set_escrow_balance, Saturating, CounterStep

LEMMA PayOutType ==
  ASSUME balance \in [Tokens -> Int], NEW out \in [Tokens -> Int], PayOut(out)
  PROVE  balance' \in [Tokens -> Int]
BY DEF PayOut

LEMMA SettleType ==
  ASSUME JobTypeOK, EscrowTypeOK, MoneyTypeOK, NEW j \in JobId,
         NEW status \in TerminalStatus, NEW split \in Shares, NEW extra \in Int,
         Settle(j, status, split, extra)
  PROVE  JobTypeOK' /\ EscrowTypeOK' /\ MoneyTypeOK'
<1> DEFINE job == jobs[j]
           out == [t \in Tokens |-> Only(job.token, split.client + split.freelancer)[t]
                                    + Only(Native, extra)[t]]
<1>1. job \in Job /\ job.token \in Tokens
  BY DEF JobTypeOK, Job
<1>2. JobTypeOK'
  <2>1. [job EXCEPT !.status = status] \in Job
    BY <1>1 DEF Job, JobStatus
  <2>2. set_job(j, [job EXCEPT !.status = status]) /\ jobsCount' = jobsCount
    BY DEF Settle
  <2> QED
    BY <2>1, <2>2, SetJobType DEF JobTypeOK
<1>3. EscrowTypeOK'
  <2>1. set_escrow_balance(j, job.token, 0)
    BY DEF Settle
  <2> QED
    BY <1>1, <2>1, SetEscrowType
<1>4. MoneyTypeOK'
  <2>1. balance' \in [Tokens -> Int]
    <3>1. out \in [Tokens -> Int]
      BY DEF Only, Shares
    <3>2. PayOut(out)
      BY DEF Settle
    <3> QED
      BY <3>1, <3>2, PayOutType DEF MoneyTypeOK
  <2>2. tokenFees' \in [Tokens -> Int] /\ burnPool' \in Int /\ totalBurned' \in Int
    BY <1>1 DEF Settle, MoneyTypeOK, Shares
  <2>3. paid' \in [JobId -> Shares]
    BY DEF Settle, MoneyTypeOK, Shares, AddSplit
  <2> QED
    BY <2>1, <2>2, <2>3 DEF MoneyTypeOK
<1> QED
  BY <1>2, <1>3, <1>4

(***************************************************************************)
(* Every division of an amount is a record of shares.                      *)
(***************************************************************************)
\* A set of tier slots that is not empty has a highest member.
LEMMA HighestSlot ==
  ASSUME NEW S \in SUBSET TierSlot, S # {}
  PROVE  \E i \in S : \A k \in S : k <= i
<1> SUFFICES ASSUME \A i \in S : \E k \in S : i < k  PROVE FALSE
  BY DEF TierSlot
<1>1. S \subseteq 0 .. 9
  BY DEF TierSlot, MAX_FEE_TIERS
<1>2. S \subseteq 0 .. 6
  <2>1. 9 \notin S
    BY <1>1
  <2>2. 8 \notin S
    BY <1>1, <2>1
  <2>3. 7 \notin S
    BY <1>1, <2>1, <2>2
  <2> QED
    BY <1>1, <2>1, <2>2, <2>3
<1>3. S \subseteq 0 .. 3
  <2>1. 6 \notin S
    BY <1>2
  <2>2. 5 \notin S
    BY <1>2, <2>1
  <2>3. 4 \notin S
    BY <1>2, <2>1, <2>2
  <2> QED
    BY <1>2, <2>1, <2>2, <2>3
<1>4. 3 \notin S
  BY <1>3
<1>5. 2 \notin S
  BY <1>3, <1>4
<1>6. 1 \notin S
  BY <1>3, <1>4, <1>5
<1>7. 0 \notin S
  BY <1>3, <1>4, <1>5, <1>6
<1>8. PICK x \in S : TRUE
  OBVIOUS
<1>9. x \in 0 .. 3 /\ x # 3 /\ x # 2 /\ x # 1 /\ x # 0
  BY <1>3, <1>4, <1>5, <1>6, <1>7
<1> QED
  BY <1>9

LEMMA FeeRateType ==
  ASSUME NEW amount \in Nat, fees \in FeeSettings
  PROVE  calculate_fee_for_amount(amount, fees.feeBps, fees.tiers) \in Bps
<1> DEFINE reached == {i \in TierSlot : fees.tiers[i] # NoTier /\ amount >= fees.tiers[i].minAmount}
           best == CHOOSE i \in reached : \A k \in reached : k <= i
<1>1. fees.feeBps \in Bps /\ fees.tiers \in [TierSlot -> FeeTier \cup {NoTier}]
  BY DEF FeeSettings
<1>2. CASE reached = {}
  BY <1>1, <1>2 DEF calculate_fee_for_amount
<1>3. CASE reached # {}
  <2>1. \E i \in reached : \A k \in reached : k <= i
    <3>1. reached \subseteq TierSlot
      OBVIOUS
    <3> HIDE DEF reached
    <3> QED
      BY <1>3, <3>1, HighestSlot
  <2>2. best \in reached
    BY <2>1
  <2>3. best \in TierSlot /\ fees.tiers[best] # NoTier
    BY <2>2
  <2>4. fees.tiers[best] \in FeeTier
    BY <1>1, <2>3
  <2>5. calculate_fee_for_amount(amount, fees.feeBps, fees.tiers) = fees.tiers[best].feeBps
    BY <1>3 DEF calculate_fee_for_amount
  <2>6. \A t \in FeeTier : t.feeBps \in Bps
    BY DEF FeeTier, Bps, BPS_DENOMINATOR, MAX_FEE_BPS_CONFIG
  <2> QED
    BY <2>4, <2>5, <2>6
<1> QED
  BY <1>2, <1>3

LEMMA RefundType ==
  ASSUME NEW amount \in Nat  PROVE RefundSplit(amount) \in Shares
BY DEF RefundSplit, NoSplit, Shares

LEMMA ApprovalType ==
  ASSUME NEW amount \in Nat, NEW rate \in Bps, NEW late \in Nat, NEW burn \in Bps
  PROVE  ApprovalSplit(amount, rate, late, burn) \in Shares
<1>1. BpsOf(amount, rate) \in Nat
  BY BpsOfBound
<1>2. BpsOf(BpsOf(amount, rate), burn) \in Nat
  BY <1>1, BpsOfBound
<1> QED
  BY <1>1, <1>2 DEF ApprovalSplit, Shares

LEMMA MutualType ==
  ASSUME NEW amount \in Nat, NEW bps \in Bps  PROVE MutualSplit(amount, bps) \in Shares
BY BpsOfBound DEF MutualSplit, NoSplit, Shares

LEMMA DisputeType ==
  ASSUME NEW amount \in Nat, NEW bps \in Bps, NEW rate \in Bps
  PROVE  DisputeSplit(amount, bps, rate) \in Shares
<1>1. BpsOf(amount, bps) \in Nat /\ amount - BpsOf(amount, bps) \in Nat
  BY BpsOfBound
<1>2. BpsOf(amount - BpsOf(amount, bps), rate) \in Nat
  BY <1>1, BpsOfBound
<1> QED
  BY <1>1, <1>2 DEF DisputeSplit, Shares

LEMMA VerdictType ==
  ASSUME NEW amount \in Nat, NEW rate \in Bps  PROVE VerdictSplit(amount, rate) \in Shares
BY BpsOfBound DEF VerdictSplit, NoSplit, Shares

-----------------------------------------------------------------------------
(***************************************************************************)
(* Type correctness, one lemma for each call or kind of call.              *)
(***************************************************************************)
LEMMA JobRecord ==
  ASSUME JobTypeOK, NEW j \in JobId
  PROVE  /\ jobs[j] \in Job
         /\ jobs[j].amount \in Nat
         /\ jobs[j].token \in Tokens
         /\ jobs[j].deadline \in Nat
BY DEF JobTypeOK, Job

\* The changes that the calls make to a job record.
LEMMA RecordChanges ==
  ASSUME NEW job \in Job, NEW user \in Users, NEW n \in Nat, NEW r \in 0 .. MAX_REVISIONS,
         NEW status \in JobStatus
  PROVE  /\ [job EXCEPT !.status = status] \in Job
         /\ [job EXCEPT !.freelancer = user, !.status = status] \in Job
         /\ [job EXCEPT !.status = status, !.revisions = r] \in Job
         /\ [job EXCEPT !.deadline = n] \in Job
         /\ [job EXCEPT !.amount = n] \in Job
BY DEF Job

LEMMA CreateJobType ==
  ASSUME TypeOK, NEW client \in Users, NEW amount \in Nat, NEW bonus \in Nat,
         NEW deadline \in Nat, NEW token \in Tokens,
         CreateJob(client, amount, bonus, deadline, token),
         incentives' \in IncentiveType
  PROVE  TypeOK'
<1>1. jobsCount \in Nat /\ MaxJobs \in Nat /\ jobsCount < MaxJobs /\ jobsCount' = jobsCount + 1
  BY CustodyAssumption DEF TypeOK, JobTypeOK, CreateJob
<1>2. jobsCount + 1 \in JobId /\ jobsCount' \in 0 .. MaxJobs
  BY <1>1 DEF JobId
<1>3. NewJob(client, amount, token, deadline) \in Job
  BY DEF NewJob, Job, JobStatus, ActiveStatus, MAX_REVISIONS
<1>4. JobTypeOK'
  BY <1>2, <1>3, SetJobType DEF CreateJob, TypeOK
<1>5. EscrowTypeOK'
  BY <1>2, SetEscrowType DEF CreateJob, TypeOK
<1>6. MoneyTypeOK'
  BY DEF CreateJob, TypeOK, MoneyTypeOK, In
<1>7. NoteTypeOK' /\ DisputeTypeOK' /\ SettingTypeOK'
  BY NoteFrame, DisputeFrame, SettingFrame DEF CreateJob, TypeOK
<1>8. PeopleTypeOK' /\ now' \in Nat
  BY DEF CreateJob, TypeOK, PeopleTypeOK
<1> QED
  BY <1>4, <1>5, <1>6, <1>7, <1>8 DEF TypeOK

LEMMA PostType ==
  ASSUME TypeOK, NEW client \in Users, NEW amount \in Nat, NEW bonus \in Nat,
         NEW deadline \in Nat, NEW token \in Tokens, NEW referrer \in Users,
         \/ PostJob(client, amount, deadline, token)
         \/ PostJobWithCategories(client, amount, bonus, deadline, token)
         \/ PostJobWithReferral(client, amount, deadline, token, referrer)
  PROVE  TypeOK'
<1>1. CASE PostJob(client, amount, deadline, token)
  BY <1>1, CreateJobType DEF PostJob, TypeOK, PeopleTypeOK
<1>2. CASE PostJobWithCategories(client, amount, bonus, deadline, token)
  BY <1>2, CreateJobType DEF PostJobWithCategories, TypeOK, PeopleTypeOK
<1>3. CASE PostJobWithReferral(client, amount, deadline, token, referrer)
  <2>1. incentives' \in IncentiveType
    BY <1>3 DEF PostJobWithReferral, TypeOK, PeopleTypeOK, IncentiveType
  <2> QED
    BY <1>3, <2>1, CreateJobType DEF PostJobWithReferral
<1> QED
  BY <1>1, <1>2, <1>3

\* A step that changes one job record and notes about it.
LEMMA AdvanceType ==
  ASSUME TypeOK, NEW j \in JobId, NEW job \in Job, Advance(j, job), NoteTypeOK'
  PROVE  TypeOK'
<1>1. JobTypeOK'
  BY SetJobType DEF Advance, TypeOK, JobTypeOK
<1>2. EscrowTypeOK' /\ MoneyTypeOK' /\ DisputeTypeOK' /\ SettingTypeOK' /\ PeopleTypeOK'
  BY EscrowFrame, MoneyFrame, DisputeFrame, SettingFrame, PeopleFrame DEF Advance, TypeOK
<1> QED
  BY <1>1, <1>2 DEF Advance, TypeOK

LEMMA AcceptJobType ==
  ASSUME TypeOK, NEW user \in Users, NEW j \in JobId, AcceptJob(user, j)
  PROVE  TypeOK'
<1>1. [jobs[j] EXCEPT !.freelancer = user, !.status = "InProgress"] \in Job
  BY JobRecord DEF TypeOK, Job, JobStatus, ActiveStatus
<1> QED
  BY <1>1, AdvanceType, NoteFrame DEF AcceptJob, TypeOK

LEMMA SubmitWorkType ==
  ASSUME TypeOK, NEW user \in Users, NEW j \in JobId, SubmitWork(user, j)
  PROVE  TypeOK'
<1>1. [jobs[j] EXCEPT !.status = "SubmittedForReview"] \in Job
  BY JobRecord DEF TypeOK, Job, JobStatus, ActiveStatus
<1>2. BpsOf(jobs[j].amount, fees.lateBps) \in Nat
  <2>1. fees.lateBps \in Bps
    BY DEF TypeOK, SettingTypeOK, FeeSettings
  <2> QED
    BY <2>1, BpsOfBound, JobRecord DEF TypeOK
<1>3. NoteTypeOK'
  BY <1>2 DEF SubmitWork, TypeOK, NoteTypeOK
<1> QED
  BY <1>1, <1>3, AdvanceType DEF SubmitWork

LEMMA RejectWorkType ==
  ASSUME TypeOK, NEW user \in Users, NEW j \in JobId, RejectWork(user, j)
  PROVE  TypeOK'
<1>1. [jobs[j] EXCEPT !.status = "InProgress", !.revisions = @ + 1] \in Job
  <2>1. jobs[j] \in Job /\ jobs[j].revisions + 1 \in 0 .. MAX_REVISIONS
    BY JobRecord DEF RejectWork, CanRevise, MAX_REVISIONS, TypeOK, Job
  <2>2. "InProgress" \in JobStatus
    BY DEF JobStatus, ActiveStatus
  <2> QED
    BY <2>1, <2>2, RecordChanges
<1> QED
  BY <1>1, AdvanceType, NoteFrame DEF RejectWork, TypeOK

LEMMA ExtendDeadlineType ==
  ASSUME TypeOK, NEW user \in Users, NEW j \in JobId, NEW d \in Nat, ExtendDeadline(user, j, d)
  PROVE  TypeOK'
<1>1. [jobs[j] EXCEPT !.deadline = d] \in Job
  BY JobRecord DEF TypeOK, Job
<1> QED
  BY <1>1, AdvanceType, NoteFrame DEF ExtendDeadline, TypeOK

LEMMA TopUpEscrowType ==
  ASSUME TypeOK, NEW user \in Users, NEW j \in JobId, NEW amount \in Nat,
         TopUpEscrow(user, j, amount)
  PROVE  TypeOK'
<1>1. [jobs[j] EXCEPT !.amount = @ + amount] \in Job
  BY JobRecord DEF TypeOK, Job
<1>2. JobTypeOK'
  BY <1>1, SetJobType DEF TopUpEscrow, TypeOK, JobTypeOK
<1>3. EscrowTypeOK'
  BY SetEscrowType, JobRecord DEF TopUpEscrow, TypeOK
<1>4. MoneyTypeOK'
  BY JobRecord DEF TopUpEscrow, TypeOK, MoneyTypeOK, In
<1>5. NoteTypeOK' /\ DisputeTypeOK' /\ SettingTypeOK' /\ PeopleTypeOK'
  BY NoteFrame, DisputeFrame, SettingFrame, PeopleFrame DEF TopUpEscrow, TypeOK
<1> QED
  BY <1>2, <1>3, <1>4, <1>5 DEF TopUpEscrow, TypeOK

LEMMA PayApprovedType ==
  ASSUME TypeOK, NEW j \in JobId, PayApproved(j), approvals' \in [JobId -> SUBSET Users],
         incentives' \in IncentiveType
  PROVE  TypeOK'
<1> DEFINE exempt == fees.exempt \cap {jobs[j].client, jobs[j].freelancer} # {}
           rate == IF exempt THEN 0
                   ELSE calculate_fee_for_amount(jobs[j].amount, fees.feeBps, fees.tiers)
           split == ApprovalSplit(jobs[j].amount, rate, lateFee[j], fees.burnBps)
<1>1. split \in Shares
  <2>1. rate \in Bps
    <3>1. calculate_fee_for_amount(jobs[j].amount, fees.feeBps, fees.tiers) \in Bps
      BY FeeRateType, JobRecord DEF TypeOK, SettingTypeOK
    <3>2. 0 \in Bps
      BY DEF Bps, BPS_DENOMINATOR
    <3> QED
      BY <3>1, <3>2
  <2>2. lateFee[j] \in Nat /\ fees.burnBps \in Bps
    BY DEF TypeOK, NoteTypeOK, SettingTypeOK, FeeSettings
  <2> QED
    BY <2>1, <2>2, ApprovalType, JobRecord DEF TypeOK
<1>2. Settle(j, "Completed", split, 0)
  BY DEF PayApproved
<1>3. JobTypeOK' /\ EscrowTypeOK' /\ MoneyTypeOK'
  <2> HIDE DEF split
  <2> QED
    BY <1>1, <1>2, SettleType DEF TypeOK, TerminalStatus
<1>4. NoteTypeOK'
  BY DEF PayApproved, TypeOK, NoteTypeOK
<1>5. DisputeTypeOK' /\ SettingTypeOK'
  BY DisputeFrame, SettingFrame DEF PayApproved, TypeOK
<1>6. PeopleTypeOK' /\ now' \in Nat
  BY DEF PayApproved, TypeOK, PeopleTypeOK
<1> QED
  BY <1>3, <1>4, <1>5, <1>6 DEF TypeOK

LEMMA CreditReferralType ==
  ASSUME TypeOK, NEW job \in Job, job.client \in Users, CreditReferral(job)
  PROVE  incentives' \in IncentiveType
<1>1. CASE UNCHANGED incentives
  BY <1>1 DEF TypeOK, PeopleTypeOK
<1>2. CASE ~UNCHANGED incentives
  <2> DEFINE referrer == incentives.link[job.client]
             credit == BpsOf(job.amount, REFERRAL_BPS)
  <2>1. incentives \in IncentiveType
    BY DEF TypeOK, PeopleTypeOK
  <2>2. /\ referrer \in Users
        /\ incentives' = [incentives EXCEPT !.earnings[referrer] = @ + credit,
                                            !.rewarded = @ \cup {job.client}]
    BY <1>2, <2>1 DEF CreditReferral, IncentiveType
  <2>3. credit \in Nat
    BY BpsOfNat DEF Job, REFERRAL_BPS
  <2>4. [incentives.earnings EXCEPT ![referrer] = @ + credit] \in [Users -> Int]
    BY <2>1, <2>2, <2>3 DEF IncentiveType
  <2>5. incentives.rewarded \cup {job.client} \in SUBSET Users
    BY <2>1 DEF IncentiveType
  <2> QED
    BY <2>1, <2>2, <2>4, <2>5 DEF IncentiveType
<1> QED
  BY <1>1, <1>2

LEMMA ApproveType ==
  ASSUME TypeOK, NEW user \in Users, NEW j \in JobId,
         ApproveByClient(user, j) \/ ApproveByApprover(user, j)
  PROVE  TypeOK'
<1>1. CASE ApproveByClient(user, j)
  <2>1. incentives' \in IncentiveType
    BY <1>1, CreditReferralType, JobRecord DEF ApproveByClient, TypeOK
  <2>2. approvals' \in [JobId -> SUBSET Users]
    BY <1>1 DEF ApproveByClient, TypeOK, NoteTypeOK
  <2> QED
    BY <1>1, <2>1, <2>2, PayApprovedType DEF ApproveByClient
<1>2. CASE ApproveByApprover(user, j)
  <2>1. approvals' \in [JobId -> SUBSET Users]
    BY <1>2 DEF ApproveByApprover, record_approval, TypeOK, NoteTypeOK
  <2>2. CASE QuorumReached(approvals'[j])
    BY <1>2, <2>1, <2>2, PayApprovedType DEF ApproveByApprover, TypeOK, PeopleTypeOK
  <2>3. CASE ~QuorumReached(approvals'[j])
    <3>1. UNCHANGED <<now, jobVars, escrowVars, moneyVars, held, lateFee, attested,
                      disputeVars, settingVars, peopleVars>>
      BY <1>2, <2>3 DEF ApproveByApprover
    <3>2. NoteTypeOK'
      BY <2>1, <3>1 DEF TypeOK, NoteTypeOK
    <3> QED
      BY <3>1, <3>2, JobFrame, EscrowFrame, MoneyFrame, DisputeFrame, SettingFrame, PeopleFrame
         DEF TypeOK
  <2> QED
    BY <2>2, <2>3
<1> QED
  BY <1>1, <1>2

\* A settlement that touches nothing but jobs, escrow and money.
LEMMA PlainSettleType ==
  ASSUME TypeOK, NEW j \in JobId, NEW status \in TerminalStatus, NEW split \in Shares,
         Settle(j, status, split, 0),
         UNCHANGED <<now, noteVars, disputeVars, settingVars, peopleVars>>
  PROVE  TypeOK'
<1>1. JobTypeOK' /\ EscrowTypeOK' /\ MoneyTypeOK'
  BY SettleType DEF TypeOK
<1> QED
  BY <1>1, NoteFrame, DisputeFrame, SettingFrame, PeopleFrame DEF TypeOK

LEMMA RefundCallType ==
  ASSUME TypeOK, NEW j \in JobId, Refund(j)  PROVE TypeOK'
<1>1. RefundSplit(jobs[j].amount) \in Shares
  BY JobRecord, RefundType DEF TypeOK
<1> QED
  BY <1>1, PlainSettleType DEF Refund, TerminalStatus

LEMMA MutualCancelType ==
  ASSUME TypeOK, NEW client \in Users, NEW freelancer \in Users, NEW j \in JobId, NEW bps,
         MutualCancel(client, freelancer, j, bps)
  PROVE  TypeOK'
<1>1. bps \in Bps
  BY DEF MutualCancel
<1>2. MutualSplit(jobs[j].amount, bps) \in Shares
  BY <1>1, JobRecord, MutualType DEF TypeOK
<1> QED
  BY <1>2, PlainSettleType DEF MutualCancel, TerminalStatus

-----------------------------------------------------------------------------
LEMMA RaiseDisputeType ==
  ASSUME TypeOK, NEW user \in Users, NEW j \in JobId, RaiseDispute(user, j)
  PROVE  TypeOK'
<1>1. [jobs[j] EXCEPT !.status = "Disputed"] \in Job
  BY JobRecord DEF TypeOK, Job, JobStatus, ActiveStatus
<1>2. JobTypeOK'
  BY <1>1, SetJobType DEF RaiseDispute, TypeOK, JobTypeOK
<1>3. fees.disputeFee \in Nat /\ fees.oracleFee \in Nat
  BY DEF TypeOK, SettingTypeOK, FeeSettings
<1>4. MoneyTypeOK'
  <2>1. balance' \in [Tokens -> Int]
    BY <1>3, CustodyAssumption DEF RaiseDispute, In, TypeOK, MoneyTypeOK
  <2> QED
    BY <2>1 DEF RaiseDispute, TypeOK, MoneyTypeOK
<1>5. DisputeTypeOK'
  <2>1. oracleList # <<>> => Head(oracleList) \in Oracles
    BY DEF TypeOK, SettingTypeOK
  <2> QED
    BY <1>3, <2>1 DEF RaiseDispute, TypeOK, DisputeTypeOK
<1> QED
  BY <1>2, <1>4, <1>5, EscrowFrame, NoteFrame, SettingFrame, PeopleFrame DEF RaiseDispute, TypeOK

LEMMA ResolveDisputeType ==
  ASSUME TypeOK, NEW j \in JobId, NEW bps \in Bps, ResolveDispute(j, bps)
  PROVE  TypeOK'
<1> DEFINE amount == jobs[j].amount
<1>1. amount \in Nat /\ fees.feeBps \in Bps /\ deposit[j] \in Nat
  BY JobRecord DEF TypeOK, SettingTypeOK, FeeSettings, DisputeTypeOK
<1>2. RefundSplit(amount) \in Shares /\ DisputeSplit(amount, bps, fees.feeBps) \in Shares
  BY <1>1, RefundType, DisputeType
<1>3. JobTypeOK' /\ EscrowTypeOK' /\ MoneyTypeOK'
  BY <1>1, <1>2, SettleType DEF ResolveDispute, TypeOK, TerminalStatus
<1>4. DisputeTypeOK'
  <2>1. DepositShares(j, bps) \in DepositSplit
    BY <1>1 DEF DepositShares, DepositSplit
  <2> QED
    BY <2>1 DEF ResolveDispute, TypeOK, DisputeTypeOK
<1> QED
  BY <1>3, <1>4, NoteFrame, SettingFrame, PeopleFrame DEF ResolveDispute, TypeOK

LEMMA ResolveDisputeSplitType ==
  ASSUME TypeOK, NEW j \in JobId, NEW bps \in Bps, ResolveDisputeSplit(j, bps)
  PROVE  TypeOK'
<1>1. fees.feeBps \in Bps
  BY DEF TypeOK, SettingTypeOK, FeeSettings
<1>2. DisputeSplit(jobs[j].amount, bps, fees.feeBps) \in Shares
  BY <1>1, JobRecord, DisputeType DEF TypeOK
<1> QED
  BY <1>2, PlainSettleType DEF ResolveDisputeSplit, TerminalStatus

LEMMA SubmitVerdictType ==
  ASSUME TypeOK, NEW oracle \in Oracles, NEW j \in JobId, NEW clientWins \in BOOLEAN,
         SubmitVerdict(oracle, j, clientWins)
  PROVE  TypeOK'
<1> DEFINE amount == jobs[j].amount
           rate == calculate_fee_for_amount(amount, fees.feeBps, fees.tiers)
<1>1. amount \in Nat /\ rate \in Bps /\ fees.oracleFee \in Nat
  BY JobRecord, FeeRateType DEF TypeOK, SettingTypeOK, FeeSettings
<1>2. RefundSplit(amount) \in Shares /\ VerdictSplit(amount, rate) \in Shares
  <2> HIDE DEF rate
  <2> QED
    BY <1>1, RefundType, VerdictType
<1>3. JobTypeOK' /\ EscrowTypeOK' /\ MoneyTypeOK'
  BY <1>1, <1>2, SettleType DEF SubmitVerdict, TypeOK, TerminalStatus
<1>4. DisputeTypeOK'
  BY DEF SubmitVerdict, TypeOK, DisputeTypeOK
<1> QED
  BY <1>3, <1>4, NoteFrame, SettingFrame, PeopleFrame DEF SubmitVerdict, TypeOK

-----------------------------------------------------------------------------
LEMMA SettingsChange ==
  ASSUME TypeOK,
         \/ \E f \in FeeSettings : SetFees(f)
         \/ \E p \in PolicySettings : SetPolicy(p)
         \/ \E list \in Seq(Oracles) : SetOracles(list)
  PROVE  TypeOK'
<1>1. SettingTypeOK' /\ now' = now
  BY DEF SetFees, SetPolicy, SetOracles, TypeOK, SettingTypeOK
<1>2. UNCHANGED <<jobVars, escrowVars, moneyVars, noteVars, disputeVars, peopleVars>>
  BY DEF SetFees, SetPolicy, SetOracles
<1> QED
  BY <1>1, <1>2, JobFrame, EscrowFrame, MoneyFrame, NoteFrame, DisputeFrame, PeopleFrame
     DEF TypeOK

LEMMA PeopleChange ==
  ASSUME TypeOK, NEW i \in IncentiveType, NEW r \in ReputationType, SetPeople(i, r)
  PROVE  TypeOK'
BY JobFrame, EscrowFrame, MoneyFrame, NoteFrame, DisputeFrame, SettingFrame
   DEF SetPeople, TypeOK, PeopleTypeOK

LEMMA WithdrawType ==
  ASSUME TypeOK, NEW token \in Tokens, NEW amount \in Int, Withdraw(token, amount),
         tokenFees' \in [Tokens -> Int], incentives' \in IncentiveType
  PROVE  TypeOK'
<1>1. balance' \in [Tokens -> Int]
  <2>1. Only(token, amount) \in [Tokens -> Int]
    BY DEF Only
  <2> QED
    BY <2>1, PayOutType DEF Withdraw, TypeOK, MoneyTypeOK
<1>2. MoneyTypeOK' /\ PeopleTypeOK' /\ now' \in Nat
  BY <1>1 DEF Withdraw, TypeOK, MoneyTypeOK, PeopleTypeOK
<1> QED
  BY <1>2, JobFrame, EscrowFrame, NoteFrame, DisputeFrame, SettingFrame DEF Withdraw, TypeOK

LEMMA FeeChangeType ==
  ASSUME TypeOK, FeeChange  PROVE TypeOK'
<1>1. fees \in FeeSettings /\ oracleList \in Seq(Oracles)
  BY DEF TypeOK, SettingTypeOK
<1>2. ASSUME NEW r \in Inputs.feeRates, update_fee(r) \/ update_fee_bps(r)  PROVE TypeOK'
  <2>1. r \in Bps
    BY <1>2 DEF update_fee, update_fee_bps, Bps, MAX_FEE_BPS, MAX_FEE_BPS_CONFIG, BPS_DENOMINATOR
  <2>2. [fees EXCEPT !.feeBps = r] \in FeeSettings
    BY <1>1, <2>1 DEF FeeSettings
  <2> QED
    BY <1>2, <2>2, SettingsChange DEF update_fee, update_fee_bps
<1>3. ASSUME NEW i \in Inputs.tierSlots, NEW r \in Inputs.tiers, update_fee_tier(i, r)  PROVE TypeOK'
  <2>1. r \in FeeTier /\ i \in TierSlot
    BY EscrowAssumption DEF InputType, EscrowAssumption
  <2>2. [fees.tiers EXCEPT ![i] = r] \in [TierSlot -> FeeTier \cup {NoTier}]
    BY <1>1, <2>1 DEF FeeSettings
  <2>3. [fees EXCEPT !.tiers[i] = r] \in FeeSettings
    BY <1>1, <2>2 DEF FeeSettings
  <2> QED
    BY <1>3, <2>3, SettingsChange DEF update_fee_tier
<1>4. ASSUME NEW u \in Inputs.exempted, NEW b \in BOOLEAN, set_fee_exemption(u, b)  PROVE TypeOK'
  <2>1. u \in Users
    BY EscrowAssumption DEF InputType, EscrowAssumption
  <2>2. [fees EXCEPT !.exempt = IF b THEN @ \cup {u} ELSE @ \ {u}] \in FeeSettings
    BY <1>1, <2>1 DEF FeeSettings
  <2> QED
    BY <1>4, <2>2, SettingsChange DEF set_fee_exemption
<1>5. ASSUME NEW r \in Inputs.lateRates, set_late_fee_bps(r)  PROVE TypeOK'
  <2>1. [fees EXCEPT !.lateBps = r] \in FeeSettings
    BY <1>1, <1>5 DEF FeeSettings, set_late_fee_bps
  <2> QED
    BY <1>5, <2>1, SettingsChange DEF set_late_fee_bps
<1>6. ASSUME NEW b \in Inputs.lateModes, set_late_fee_enabled(b)  PROVE TypeOK'
  <2>1. b \in BOOLEAN
    BY EscrowAssumption DEF InputType, EscrowAssumption
  <2>2. [fees EXCEPT !.lateEnabled = b] \in FeeSettings
    BY <1>1, <2>1 DEF FeeSettings
  <2> QED
    BY <1>6, <2>2, SettingsChange DEF set_late_fee_enabled
<1>7. ASSUME NEW r \in Inputs.burnRates, update_burn_percentage(r)  PROVE TypeOK'
  <2>1. [fees EXCEPT !.burnBps = r] \in FeeSettings
    BY <1>1, <1>7 DEF FeeSettings, update_burn_percentage
  <2> QED
    BY <1>7, <2>1, SettingsChange DEF update_burn_percentage
<1>8. ASSUME NEW f \in Inputs.disputeFees, update_dispute_fee(f)  PROVE TypeOK'
  <2>1. f \in Nat
    BY EscrowAssumption DEF InputType, EscrowAssumption
  <2>2. [fees EXCEPT !.disputeFee = f] \in FeeSettings
    BY <1>1, <2>1 DEF FeeSettings
  <2> QED
    BY <1>8, <2>2, SettingsChange DEF update_dispute_fee
<1>9. ASSUME NEW f \in Inputs.oracleFees, update_oracle_fee(f)  PROVE TypeOK'
  <2>1. f \in Nat
    BY EscrowAssumption DEF InputType, EscrowAssumption
  <2>2. [fees EXCEPT !.oracleFee = f] \in FeeSettings
    BY <1>1, <2>1 DEF FeeSettings
  <2> QED
    BY <1>9, <2>2, SettingsChange DEF update_oracle_fee
<1>10. ASSUME NEW b \in Inputs.oracleModes, set_oracle_enabled(b)  PROVE TypeOK'
  <2>1. b \in BOOLEAN
    BY EscrowAssumption DEF InputType, EscrowAssumption
  <2>2. [fees EXCEPT !.oracleEnabled = b] \in FeeSettings
    BY <1>1, <2>1 DEF FeeSettings
  <2> QED
    BY <1>10, <2>2, SettingsChange DEF set_oracle_enabled
<1>11. ASSUME NEW o \in Oracles, register_oracle(o)  PROVE TypeOK'
  <2>1. Append(oracleList, o) \in Seq(Oracles)
    BY <1>1
  <2> QED
    BY <1>1, <1>11, <2>1, SettingsChange DEF register_oracle
<1>12. ASSUME NEW o \in Oracles, remove_oracle(o)  PROVE TypeOK'
  <2>1. \A i \in DOMAIN oracleList : RemoveAt(oracleList, i) \in Seq(Oracles)
    <3> SUFFICES ASSUME NEW i \in DOMAIN oracleList
                 PROVE  RemoveAt(oracleList, i) \in Seq(Oracles)
      OBVIOUS
    <3>1. i \in 1 .. Len(oracleList) /\ Len(oracleList) \in Nat
      BY <1>1
    <3>2. SubSeq(oracleList, 1, i - 1) \in Seq(Oracles)
      BY <1>1, <3>1, SubSeqProperties
    <3>3. SubSeq(oracleList, i + 1, Len(oracleList)) \in Seq(Oracles)
      BY <1>1, <3>1, SubSeqProperties
    <3> QED
      BY <3>2, <3>3, ConcatProperties DEF RemoveAt
  <2> QED
    BY <1>1, <1>12, <2>1, SettingsChange DEF remove_oracle
<1> QED
  BY <1>2, <1>3, <1>4, <1>5, <1>6, <1>7, <1>8, <1>9, <1>10, <1>11, <1>12 DEF FeeChange

LEMMA PolicyChangeType ==
  ASSUME TypeOK, PolicyChange  PROVE TypeOK'
<1>1. policy \in PolicySettings
  BY DEF TypeOK, SettingTypeOK
<1>2. ASSUME NEW p \in PolicySettings, SetPolicy(p)  PROVE TypeOK'
  BY <1>2, SettingsChange
<1>3. ASSUME NEW m \in Inputs.pausable, pause_module(m) \/ resume_module(m)  PROVE TypeOK'
  <2>1. m \in Modules
    BY EscrowAssumption DEF InputType, EscrowAssumption
  <2>2. /\ [policy EXCEPT !.paused = @ \cup {m}] \in PolicySettings
        /\ [policy EXCEPT !.paused = @ \ {m}] \in PolicySettings
    BY <1>1, <2>1 DEF PolicySettings
  <2> QED
    BY <1>2, <1>3, <2>2 DEF pause_module, resume_module
<1>4. ASSUME NEW u \in Inputs.blacklistable, add_to_blacklist(u) \/ remove_from_blacklist(u)
      PROVE  TypeOK'
  <2>1. u \in Users
    BY EscrowAssumption DEF InputType, EscrowAssumption
  <2>2. /\ [policy EXCEPT !.blacklisted = @ \cup {u}] \in PolicySettings
        /\ [policy EXCEPT !.blacklisted = @ \ {u}] \in PolicySettings
    BY <1>1, <2>1 DEF PolicySettings
  <2> QED
    BY <1>2, <1>4, <2>2 DEF add_to_blacklist, remove_from_blacklist
<1>5. ASSUME NEW u \in Inputs.whitelistable, add_to_whitelist(u) \/ remove_from_whitelist(u)
      PROVE  TypeOK'
  <2>1. u \in Users
    BY EscrowAssumption DEF InputType, EscrowAssumption
  <2>2. /\ [policy EXCEPT !.whitelisted = @ \cup {u}] \in PolicySettings
        /\ [policy EXCEPT !.whitelisted = @ \ {u}] \in PolicySettings
    BY <1>1, <2>1 DEF PolicySettings
  <2> QED
    BY <1>2, <1>5, <2>2 DEF add_to_whitelist, remove_from_whitelist
<1>6. ASSUME NEW b \in Inputs.whitelistModes, set_whitelist_mode(b)  PROVE TypeOK'
  <2>1. b \in BOOLEAN
    BY EscrowAssumption DEF InputType, EscrowAssumption
  <2>2. [policy EXCEPT !.whitelistMode = b] \in PolicySettings
    BY <1>1, <2>1 DEF PolicySettings
  <2> QED
    BY <1>2, <1>6, <2>2 DEF set_whitelist_mode
<1>7. ASSUME NEW u \in Inputs.approvers, add_approver(u) \/ remove_approver(u)  PROVE TypeOK'
  <2>1. u \in Users
    BY EscrowAssumption DEF InputType, EscrowAssumption
  <2>2. /\ [policy EXCEPT !.approvers = @ \cup {u}] \in PolicySettings
        /\ [policy EXCEPT !.approvers = @ \ {u}] \in PolicySettings
    BY <1>1, <2>1 DEF PolicySettings
  <2> QED
    BY <1>2, <1>7, <2>2 DEF add_approver, remove_approver
<1>8. ASSUME NEW a \in Inputs.thresholds, set_high_value_threshold(a)  PROVE TypeOK'
  <2>1. a \in Nat
    BY EscrowAssumption DEF InputType, EscrowAssumption
  <2>2. [policy EXCEPT !.threshold = a] \in PolicySettings
    BY <1>1, <2>1 DEF PolicySettings
  <2> QED
    BY <1>2, <1>8, <2>2 DEF set_high_value_threshold
<1>9. ASSUME NEW n \in Inputs.quorums, set_required_approvals(n)  PROVE TypeOK'
  <2>1. n \in Nat \ {0}
    BY <1>9, EscrowAssumption DEF InputType, EscrowAssumption, set_required_approvals
  <2>2. [policy EXCEPT !.required = n] \in PolicySettings
    BY <1>1, <2>1 DEF PolicySettings
  <2> QED
    BY <1>2, <1>9, <2>2 DEF set_required_approvals
<1>10. ASSUME NEW u \in Inputs.forwarders, NEW b \in BOOLEAN, set_trusted_forwarder(u, b)
       PROVE  TypeOK'
  <2>1. u \in Users
    BY EscrowAssumption DEF InputType, EscrowAssumption
  <2>2. [policy EXCEPT !.forwarders = IF b THEN @ \cup {u} ELSE @ \ {u}] \in PolicySettings
    BY <1>1, <2>1 DEF PolicySettings
  <2> QED
    BY <1>2, <1>10, <2>2 DEF set_trusted_forwarder
<1>11. ASSUME NEW n \in Inputs.limits,
              set_max_jobs_per_user(n) \/ set_max_active_jobs_per_client(n)
       PROVE  TypeOK'
  <2>1. n \in Nat
    BY EscrowAssumption DEF InputType, EscrowAssumption
  <2>2. /\ [policy EXCEPT !.maxJobsPerUser = n] \in PolicySettings
        /\ [policy EXCEPT !.maxJobsPerClient = n] \in PolicySettings
    BY <1>1, <2>1 DEF PolicySettings
  <2> QED
    BY <1>2, <1>11, <2>2 DEF set_max_jobs_per_user, set_max_active_jobs_per_client
<1>12. ASSUME NEW r \in Inputs.minRatings, set_min_rating_to_accept(r)  PROVE TypeOK'
  <2>1. r \in Nat
    BY EscrowAssumption DEF InputType, EscrowAssumption
  <2>2. [policy EXCEPT !.minRating = r] \in PolicySettings
    BY <1>1, <2>1 DEF PolicySettings
  <2> QED
    BY <1>2, <1>12, <2>2 DEF set_min_rating_to_accept
<1>13. ASSUME NEW b \in BOOLEAN, set_exempt_verified_freelancers(b)  PROVE TypeOK'
  <2>1. [policy EXCEPT !.exemptVerified = b] \in PolicySettings
    BY <1>1 DEF PolicySettings
  <2> QED
    BY <1>2, <1>13, <2>1 DEF set_exempt_verified_freelancers
<1>14. ASSUME NEW t \in Inputs.tokenChanges, add_allowed_token(t) \/ remove_allowed_token(t)
       PROVE  TypeOK'
  <2>1. t \in Tokens
    BY EscrowAssumption DEF InputType, EscrowAssumption
  <2>2. /\ [policy EXCEPT !.allowedTokens = @ \cup {t}] \in PolicySettings
        /\ [policy EXCEPT !.allowedTokens = @ \ {t}] \in PolicySettings
    BY <1>1, <2>1 DEF PolicySettings
  <2> QED
    BY <1>2, <1>14, <2>2 DEF add_allowed_token, remove_allowed_token
<1>15. ASSUME NEW j \in JobId, NEW b \in Inputs.holds, set_job_hold(j, b)  PROVE TypeOK'
  <2>1. NoteTypeOK'
    BY <1>15 DEF set_job_hold, TypeOK, NoteTypeOK
  <2> QED
    BY <1>15, <2>1, JobFrame, EscrowFrame, MoneyFrame, DisputeFrame, SettingFrame, PeopleFrame
       DEF set_job_hold, TypeOK
<1> QED
  BY <1>3, <1>4, <1>5, <1>6, <1>7, <1>8, <1>9, <1>10, <1>11, <1>12, <1>13, <1>14, <1>15
     DEF PolicyChange

LEMMA MoneyOutType ==
  ASSUME TypeOK, MoneyOut  PROVE TypeOK'
<1>1. incentives \in IncentiveType /\ reputation \in ReputationType
  BY DEF TypeOK, PeopleTypeOK
<1>2. ASSUME NEW t \in Tokens, withdraw_fees(t)  PROVE TypeOK'
  <2>1. tokenFees[t] \in Int /\ tokenFees' \in [Tokens -> Int]
    BY <1>2 DEF withdraw_fees, TypeOK, MoneyTypeOK
  <2> QED
    BY <1>1, <1>2, <2>1, WithdrawType DEF withdraw_fees
<1>3. ASSUME NEW a \in Inputs.burns, execute_burn(a)  PROVE TypeOK'
  <2>1. a \in Nat
    BY EscrowAssumption DEF InputType, EscrowAssumption
  <2>2. MoneyTypeOK'
    BY <1>3, <2>1 DEF execute_burn, TypeOK, MoneyTypeOK
  <2> QED
    BY <1>3, <2>2, JobFrame, EscrowFrame, NoteFrame, DisputeFrame, SettingFrame, PeopleFrame
       DEF execute_burn, TypeOK
<1>4. ASSUME NEW u \in Inputs.referrers, register_referral(u)  PROVE TypeOK'
  <2>1. u \in Users
    BY EscrowAssumption DEF InputType, EscrowAssumption
  <2>2. [incentives EXCEPT !.codes = @ \cup {u}] \in IncentiveType
    BY <1>1, <2>1 DEF IncentiveType
  <2> QED
    BY <1>1, <1>4, <2>2, PeopleChange DEF register_referral
<1>5. ASSUME NEW u \in Inputs.referrers, withdraw_referral_earnings(u)  PROVE TypeOK'
  <2>1. u \in Users
    BY EscrowAssumption DEF InputType, EscrowAssumption
  <2>2. [incentives.earnings EXCEPT ![u] = 0] \in [Users -> Int] /\ incentives.earnings[u] \in Int
    BY <1>1, <2>1 DEF IncentiveType
  <2>3. incentives' \in IncentiveType
    BY <1>1, <1>5, <2>2 DEF withdraw_referral_earnings, IncentiveType
  <2>4. tokenFees' \in [Tokens -> Int] /\ Native \in Tokens
    BY <1>5, CustodyAssumption DEF withdraw_referral_earnings, TypeOK, MoneyTypeOK
  <2> QED
    BY <1>5, <2>2, <2>3, <2>4, WithdrawType DEF withdraw_referral_earnings
<1>6. ASSUME NEW a \in Inputs.onboarding, NEW t \in Tokens, set_onboarding_bonus(t, a)
      PROVE  TypeOK'
  <2>1. a \in Nat
    BY EscrowAssumption DEF InputType, EscrowAssumption
  <2>2. [incentives EXCEPT !.bonusToken = t, !.bonusAmount = a] \in IncentiveType
    BY <1>1, <2>1 DEF IncentiveType
  <2> QED
    BY <1>1, <1>6, <2>2, PeopleChange DEF set_onboarding_bonus
<1>7. ASSUME NEW u \in Users, claim_onboarding_bonus(u)  PROVE TypeOK'
  <2>1. [incentives EXCEPT !.claimed = @ \cup {u}] \in IncentiveType
    BY <1>1 DEF IncentiveType
  <2>2. incentives.bonusToken \in Tokens /\ incentives.bonusAmount \in Int
    BY <1>1 DEF IncentiveType
  <2>3. tokenFees' \in [Tokens -> Int]
    BY <1>7 DEF claim_onboarding_bonus, TypeOK, MoneyTypeOK
  <2> QED
    BY <1>7, <2>1, <2>2, <2>3, WithdrawType DEF claim_onboarding_bonus
<1> QED
  BY <1>2, <1>3, <1>4, <1>5, <1>6, <1>7 DEF MoneyOut

LEMMA ReputationChangeType ==
  ASSUME TypeOK, Reputation  PROVE TypeOK'
<1>1. incentives \in IncentiveType /\ reputation \in ReputationType
  BY DEF TypeOK, PeopleTypeOK
<1>2. ASSUME NEW u \in Inputs.verifiable, verify_freelancer(u) \/ unverify_freelancer(u)
      PROVE  TypeOK'
  <2>1. u \in Users
    BY EscrowAssumption DEF InputType, EscrowAssumption
  <2>2. /\ [reputation EXCEPT !.verified = @ \cup {u}] \in ReputationType
        /\ [reputation EXCEPT !.verified = @ \ {u}] \in ReputationType
    BY <1>1, <2>1 DEF ReputationType
  <2> QED
    BY <1>1, <1>2, <2>2, PeopleChange DEF verify_freelancer, unverify_freelancer
<1>3. ASSUME NEW u \in Users, NEW r \in Inputs.ratings, rate_freelancer(u, r)  PROVE TypeOK'
  <2>1. r \in Nat
    BY EscrowAssumption DEF InputType, EscrowAssumption
  <2> DEFINE new == [sum |-> reputation.ratings[u].sum + r, count |-> reputation.ratings[u].count + 1]
  <2>2. new \in [sum : Nat, count : Nat]
    BY <1>1, <2>1 DEF ReputationType
  <2>3. [reputation.ratings EXCEPT ![u] = new] \in [Users -> [sum : Nat, count : Nat]]
    <3> HIDE DEF new
    <3> QED
      BY <1>1, <2>2 DEF ReputationType
  <2>4. [reputation EXCEPT !.ratings[u] = new] \in ReputationType
    <3> HIDE DEF new
    <3> QED
      BY <1>1, <2>3 DEF ReputationType
  <2> QED
    BY <1>1, <1>3, <2>4, PeopleChange DEF rate_freelancer
<1> QED
  BY <1>2, <1>3 DEF Reputation

-----------------------------------------------------------------------------
LEMMA InputsTyped ==
  /\ Inputs.amounts \subseteq Nat /\ Inputs.bonuses \subseteq Nat /\ Inputs.topUps \subseteq Nat
  /\ Inputs.deadlines \subseteq Nat /\ Inputs.newDeadlines \subseteq Nat
  /\ Inputs.shares \subseteq Bps /\ Inputs.referrers \subseteq Users
BY EscrowAssumption DEF InputType, EscrowAssumption

LEMMA PostingType ==
  ASSUME TypeOK, Posting  PROVE TypeOK'
<1>1. PICK u \in Users, a \in Inputs.amounts, d \in Inputs.deadlines, t \in Tokens :
        \/ PostJob(u, a, d, t)
        \/ \E b \in Inputs.bonuses : PostJobWithCategories(u, a, b, d, t)
        \/ \E r \in Inputs.referrers : PostJobWithReferral(u, a, d, t, r)
  BY DEF Posting
<1>2. a \in Nat /\ d \in Nat /\ 0 \in Nat
  BY InputsTyped
<1>3. CASE PostJob(u, a, d, t)
  BY <1>2, <1>3, PostType
<1>4. CASE \E b \in Inputs.bonuses : PostJobWithCategories(u, a, b, d, t)
  BY <1>2, <1>4, InputsTyped, PostType
<1>5. CASE \E r \in Inputs.referrers : PostJobWithReferral(u, a, d, t, r)
  BY <1>2, <1>5, InputsTyped, PostType
<1> QED
  BY <1>1, <1>3, <1>4, <1>5

LEMMA WorkingType ==
  ASSUME TypeOK, NEW u \in Users, NEW j \in JobId, Working(u, j)  PROVE TypeOK'
<1>1. CASE \E d \in Inputs.newDeadlines : ExtendDeadline(u, j, d)
  BY <1>1, InputsTyped, ExtendDeadlineType
<1>2. CASE \E a \in Inputs.topUps : TopUpEscrow(u, j, a)
  BY <1>2, InputsTyped, TopUpEscrowType
<1> QED
  BY <1>1, <1>2, AcceptJobType, SubmitWorkType, RejectWorkType, RaiseDisputeType DEF Working

LEMMA EndingType ==
  ASSUME TypeOK, NEW u \in Users, NEW j \in JobId, Ending(u, j)  PROVE TypeOK'
<1>1. CASE Refund(j)
  BY <1>1, RefundCallType
<1>2. CASE \E v \in Users, s \in Inputs.shares : MutualCancel(u, v, j, s)
  BY <1>2, MutualCancelType
<1> QED
  BY <1>1, <1>2, ApproveType
     DEF Ending, CancelJob, RelayCancelJob, FreelancerCancelJob, EnforceDeadline

LEMMA JudgingType ==
  ASSUME TypeOK, NEW j \in JobId, Judging(j)  PROVE TypeOK'
BY InputsTyped, ResolveDisputeType, ResolveDisputeSplitType, SubmitVerdictType DEF Judging

LEMMA TypeInit == Init => TypeOK
<1> SUFFICES ASSUME Init PROVE TypeOK
  OBVIOUS
<1>1. JobTypeOK
  <2>1. NoJob \in Job
    BY CustodyAssumption DEF NoJob, Job, MAX_REVISIONS
  <2> QED
    BY <2>1, CustodyAssumption DEF Init, JobTypeOK
<1>2. EscrowTypeOK /\ NoteTypeOK
  BY DEF Init, EscrowTypeOK, NoteTypeOK
<1>3. MoneyTypeOK
  <2>1. NoSplit \in Shares
    BY DEF NoSplit, Shares
  <2> QED
    BY <2>1 DEF Init, MoneyTypeOK
<1>4. DisputeTypeOK
  BY DEF Init, DisputeTypeOK, DepositSplit
<1>5. SettingTypeOK
  BY EscrowAssumption DEF EscrowAssumption, Init, SettingTypeOK
<1>6. PeopleTypeOK
  BY CustodyAssumption DEF Init, PeopleTypeOK, IncentiveType, ReputationType
<1> QED
  BY <1>1, <1>2, <1>3, <1>4, <1>5, <1>6 DEF TypeOK, Init

LEMMA TypeNext == TypeOK /\ [Next]_vars => TypeOK'
<1> SUFFICES ASSUME TypeOK, [Next]_vars PROVE TypeOK'
  OBVIOUS
<1>1. CASE UNCHANGED vars
  BY <1>1, JobFrame, EscrowFrame, MoneyFrame, NoteFrame, DisputeFrame, SettingFrame, PeopleFrame
     DEF vars, TypeOK, settingVars, peopleVars
<1>2. CASE Tick
  BY <1>2, JobFrame, EscrowFrame, MoneyFrame, NoteFrame, DisputeFrame, SettingFrame, PeopleFrame
     DEF Tick, TypeOK
<1> QED
  BY <1>1, <1>2, PostingType, WorkingType, EndingType, JudgingType, FeeChangeType,
     PolicyChangeType, MoneyOutType, ReputationChangeType DEF Next

(***************************************************************************)
(* Every storage key of the contract keeps its type, whatever the calls    *)
(* and their order; in particular the counters never go below zero, no job *)
(* is rejected more than MAX_REVISIONS times, and every division of an     *)
(* escrow is a whole number of units for each recipient.                   *)
(***************************************************************************)
THEOREM TypeCorrect == Spec => []TypeOK
<1>1. Init => TypeOK
  BY TypeInit
<1>2. TypeOK /\ [Next]_vars => TypeOK'
  BY TypeNext
<1> QED
  BY <1>1, <1>2, PTL DEF Spec
=============================================================================

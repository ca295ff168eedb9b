---------------------------- MODULE GuardProofs ----------------------------
(***************************************************************************)
(* Who may move a job, and when: the hold, the quorum of approvers, the    *)
(* admission of parties, what is left to others once both parties are      *)
(* blacklisted, what a dispute leaves behind, and the counters that the    *)
(* limits are checked by.                                                  *)
(***************************************************************************)
EXTENDS LedgerProofs, FiniteSetTheorems

\* Nothing a job, its dispute or its attestation consists of changes.
JobsQuiet == UNCHANGED <<jobs, paid, attested, disputeVars>>

LEMMA AdminQuiet ==
  ASSUME Administration \/ UNCHANGED vars  PROVE JobsQuiet
BY AdminFrame DEF JobsQuiet, jobVars

-----------------------------------------------------------------------------
(***************************************************************************)
(* What each kind of call does to the record of the job it is about.       *)
(***************************************************************************)

\* A posting stores an Open job under an id that was free.
PostedBy(u, j) ==
  /\ jobs[j].status = "Absent"
  /\ require_active_access(u)
  /\ enforce_user_active_job_limit(u)
  /\ \E a \in Nat, d \in Nat, t \in Tokens : jobs' = [jobs EXCEPT ![j] = NewJob(u, a, t, d)]
  /\ UNCHANGED <<paid, noteVars, disputeVars>>

LEMMA CreatePosts ==
  ASSUME TypeOK, EscrowMatchesStatus, NEW u \in Users, NEW a \in Nat, NEW b, NEW d \in Nat,
         NEW t \in Tokens, CreateJob(u, a, b, d, t)
  PROVE  \E j \in JobId : PostedBy(u, j)
<1> DEFINE j == jobsCount + 1
<1>1. jobsCount \in Nat /\ j \in JobId
  BY CustodyAssumption DEF CreateJob, TypeOK, JobTypeOK, JobId
<1>2. jobs[j].status = "Absent"
  BY <1>1 DEF EscrowMatchesStatus
<1>3. /\ require_active_access(u)
      /\ enforce_user_active_job_limit(u)
      /\ jobs' = [jobs EXCEPT ![j] = NewJob(u, a, t, d)]
      /\ UNCHANGED <<paid, noteVars, disputeVars>>
  BY DEF CreateJob, set_job
<1> HIDE DEF j
<1>4. PostedBy(u, j)
  BY <1>2, <1>3 DEF PostedBy
<1> QED
  BY <1>1, <1>4

LEMMA PostingPosts ==
  ASSUME TypeOK, EscrowMatchesStatus, Posting
  PROVE  \E u \in Users, j \in JobId : PostedBy(u, j)
<1>1. PICK u \in Users, a \in Inputs.amounts, d \in Inputs.deadlines, t \in Tokens :
        \/ PostJob(u, a, d, t)
        \/ \E b \in Inputs.bonuses : PostJobWithCategories(u, a, b, d, t)
        \/ \E r \in Inputs.referrers : PostJobWithReferral(u, a, d, t, r)
  BY DEF Posting
<1>2. a \in Nat /\ d \in Nat
  BY InputsTyped
<1>3. PICK b : CreateJob(u, a, b, d, t)
  BY <1>1 DEF PostJob, PostJobWithCategories, PostJobWithReferral
<1> QED
  BY <1>2, <1>3, CreatePosts

\* A settlement changes nothing of the record but its status.
Ends(j, status, split) ==
  /\ jobs' = [jobs EXCEPT ![j] = [jobs[j] EXCEPT !.status = status]]
  /\ paid' = [paid EXCEPT ![j] = AddSplit(@, split)]

LEMMA SettleEnds ==
  ASSUME NEW j, NEW status, NEW split, NEW extra, Settle(j, status, split, extra)
  PROVE  Ends(j, status, split)
BY DEF Settle, set_job, Ends

\* A call that touches the dispute of no other job.
OthersUndisturbed(j) ==
  \A k \in JobId \ {j} :
    raiser'[k] = raiser[k] /\ deposit'[k] = deposit[k] /\ assigned'[k] = assigned[k]

AcceptedBy(u, j) ==
  /\ jobs[j].status = "Open" /\ j \notin held
  /\ require_active_access(u)
  /\ enforce_user_active_job_limit(u)
  /\ MeetsMinRating(u)
  /\ jobs' = [jobs EXCEPT ![j] = [jobs[j] EXCEPT !.freelancer = u, !.status = "InProgress"]]
  /\ UNCHANGED <<paid, attested, disputeVars>>

\* A party edits the record; a hold leaves him the deadline and the dispute.
EditedBy(u, j, job) ==
  /\ jobs[j].status \in {"Open", "InProgress", "SubmittedForReview"}
  /\ PartyOf(u, jobs[j]) /\ require_active_access(u)
  /\ job.client = jobs[j].client /\ job.freelancer = jobs[j].freelancer
  /\ job.status \in ActiveStatus
  /\ jobs[j].status = "Open" => job.status = "Open"
  /\ j \in held => /\ job.amount = jobs[j].amount /\ job.revisions = jobs[j].revisions
                   /\ job.status \in {jobs[j].status, "Disputed"}
  /\ jobs' = [jobs EXCEPT ![j] = job]
  /\ \/ UNCHANGED disputeVars
     \/ /\ job.status = "Disputed" /\ OthersUndisturbed(j)
        /\ raiser' = [raiser EXCEPT ![j] = u]
        /\ UNCHANGED depositPaid
  /\ UNCHANGED <<paid, attested>>

LEMMA WorkingEdits ==
  ASSUME TypeOK, NEW u \in Users, NEW j \in JobId, Working(u, j)
  PROVE  AcceptedBy(u, j) \/ \E job : EditedBy(u, j, job)
<1> DEFINE old == jobs[j]
<1>1. old \in Job
  BY JobRecord DEF TypeOK
<1>2. CASE AcceptJob(u, j)
  <2>1. AcceptedBy(u, j)
    BY <1>2 DEF AcceptJob, AcceptedBy, Advance, set_job, require_job_not_held, moneyVars, noteVars
  <2> QED
    BY <2>1
<1>3. CASE SubmitWork(u, j)
  <2>1. EditedBy(u, j, [old EXCEPT !.status = "SubmittedForReview"])
    BY <1>1, <1>3 DEF SubmitWork, EditedBy, Advance, set_job, require_job_not_held, moneyVars,
       Job, PartyOf, ActiveStatus
  <2> QED
    BY <2>1
<1>4. CASE RejectWork(u, j)
  <2> DEFINE new == [old EXCEPT !.status = "InProgress", !.revisions = @ + 1]
  <2>1. /\ new.client = old.client /\ new.freelancer = old.freelancer
        /\ new.status = "InProgress"
    BY <1>1 DEF Job
  <2>2. /\ old.status = "SubmittedForReview" /\ old.client = u /\ j \notin held
        /\ require_active_access(u)
        /\ jobs' = [jobs EXCEPT ![j] = new]
        /\ UNCHANGED <<paid, attested, disputeVars>>
    BY <1>4 DEF RejectWork, Advance, set_job, require_job_not_held, moneyVars, noteVars
  <2> HIDE DEF new
  <2>3. EditedBy(u, j, new)
    BY <2>1, <2>2 DEF EditedBy, PartyOf, ActiveStatus
  <2> QED
    BY <2>3
<1>5. CASE \E d \in Inputs.newDeadlines : ExtendDeadline(u, j, d)
  <2>1. PICK d \in Inputs.newDeadlines : ExtendDeadline(u, j, d)
    BY <1>5
  <2>2. EditedBy(u, j, [old EXCEPT !.deadline = d])
    BY <1>1, <2>1 DEF ExtendDeadline, EditedBy, Advance, set_job, moneyVars, noteVars,
       Job, PartyOf, ActiveStatus
  <2> QED
    BY <2>2
<1>6. CASE \E a \in Inputs.topUps : TopUpEscrow(u, j, a)
  <2>1. PICK a \in Inputs.topUps : TopUpEscrow(u, j, a)
    BY <1>6
  <2> DEFINE new == [old EXCEPT !.amount = @ + a]
  <2>2. /\ new.client = old.client /\ new.freelancer = old.freelancer
        /\ new.status = old.status
    BY <1>1 DEF Job
  <2>3. /\ old.status \in {"Open", "InProgress", "SubmittedForReview"} /\ old.client = u
        /\ j \notin held /\ require_active_access(u)
        /\ jobs' = [jobs EXCEPT ![j] = new]
        /\ UNCHANGED <<paid, attested, disputeVars>>
    BY <2>1 DEF TopUpEscrow, AcceptsFunds, set_job, require_job_not_held, noteVars
  <2> HIDE DEF new
  <2>4. EditedBy(u, j, new)
    BY <2>2, <2>3 DEF EditedBy, PartyOf, ActiveStatus
  <2> QED
    BY <2>4
<1>7. CASE RaiseDispute(u, j)
  <2> DEFINE new == [old EXCEPT !.status = "Disputed"]
  <2>1. /\ new.client = old.client /\ new.freelancer = old.freelancer
        /\ new.amount = old.amount /\ new.revisions = old.revisions
        /\ new.status = "Disputed"
    BY <1>1 DEF Job
  <2>2. /\ old.status \in {"InProgress", "SubmittedForReview"} /\ PartyOf(u, old)
        /\ require_active_access(u)
        /\ jobs' = [jobs EXCEPT ![j] = new]
        /\ raiser' = [raiser EXCEPT ![j] = u]
        /\ UNCHANGED <<paid, attested, depositPaid>>
    BY <1>7 DEF RaiseDispute, set_job, noteVars
  <2>3. OthersUndisturbed(j)
    BY <1>7 DEF RaiseDispute, OthersUndisturbed, TypeOK, DisputeTypeOK
  <2> HIDE DEF new
  <2>4. EditedBy(u, j, new)
    BY <2>1, <2>2, <2>3 DEF EditedBy, PartyOf, ActiveStatus
  <2> QED
    BY <2>4
<1> QED
  BY <1>2, <1>3, <1>4, <1>5, <1>6, <1>7 DEF Working

\* The escrow goes to the freelancer, as the client or a quorum says.
ReleasedBy(u, j) ==
  /\ jobs[j].status = "SubmittedForReview" /\ j \notin held
  /\ \/ ClientAlone(jobs[j]) /\ jobs[j].client = u /\ require_active_access(u)
     \/ ~ClientAlone(jobs[j]) /\ QuorumReached(approvals'[j])
  /\ \E split : split.client = 0 /\ Ends(j, "Completed", split)
  /\ attested' = attested \cup {j}
  /\ UNCHANGED disputeVars

\* A party, or for an Open job a relayer, takes the job back.
CalledOffBy(u, j) ==
  /\ \/ jobs[j].status = "Open" /\ policy.forwarders # {}
     \/ /\ jobs[j].status \in {"Open", "InProgress", "SubmittedForReview"}
        /\ PartyOf(u, jobs[j]) /\ require_active_access(u)
  /\ \E split : Ends(j, "Cancelled", split)
  /\ UNCHANGED <<attested, disputeVars>>

LEMMA PayApprovedReleases ==
  ASSUME NEW j \in JobId, PayApproved(j)
  PROVE  /\ \E split : split.client = 0 /\ Ends(j, "Completed", split)
         /\ attested' = attested \cup {j}
         /\ UNCHANGED disputeVars
<1>1. PICK rate :
        Settle(j, "Completed", ApprovalSplit(jobs[j].amount, rate, lateFee[j], fees.burnBps), 0)
  BY DEF PayApproved
<1>2. ApprovalSplit(jobs[j].amount, rate, lateFee[j], fees.burnBps).client = 0
  BY DEF ApprovalSplit
<1> QED
  BY <1>1, <1>2, SettleEnds DEF PayApproved

LEMMA EndingEnds ==
  ASSUME NEW u \in Users, NEW j \in JobId, Ending(u, j)
  PROVE  JobsQuiet \/ ReleasedBy(u, j) \/ CalledOffBy(u, j)
<1>1. CASE ApproveByClient(u, j)
  BY <1>1, PayApprovedReleases DEF ApproveByClient, Approvable, require_job_not_held, ReleasedBy
<1>2. CASE ApproveByApprover(u, j)
  <2>1. CASE QuorumReached(approvals'[j])
    BY <1>2, <2>1, PayApprovedReleases
       DEF ApproveByApprover, Approvable, require_job_not_held, ReleasedBy
  <2>2. CASE ~QuorumReached(approvals'[j])
    BY <1>2, <2>2 DEF ApproveByApprover, JobsQuiet, jobVars, moneyVars
  <2> QED
    BY <2>1, <2>2
<1>3. CASE \E v \in Users : RelayCancelJob(u, v, j)
  BY <1>3, SettleEnds DEF RelayCancelJob, Refund, CalledOffBy, noteVars
<1>4. CASE CancelJob(u, j) \/ FreelancerCancelJob(u, j) \/ EnforceDeadline(u, j)
  BY <1>4, SettleEnds
     DEF CancelJob, FreelancerCancelJob, EnforceDeadline, Refund, CalledOffBy, PartyOf, noteVars
<1>5. CASE \E v \in Users, s \in Inputs.shares : MutualCancel(u, v, j, s)
  BY <1>5, SettleEnds DEF MutualCancel, CalledOffBy, PartyOf, noteVars
<1> QED
  BY <1>1, <1>2, <1>3, <1>4, <1>5 DEF Ending

\* A dispute ends; the deposit is handed out in full when it is handed out.
JudgedBy(j) ==
  /\ jobs[j].status = "Disputed"
  /\ \E status \in TerminalStatus : \E split : Ends(j, status, split)
  /\ \A k \in JobId : raiser[k] # NoOne /\ raiser'[k] = NoOne =>
       depositPaid'[k].raiser + depositPaid'[k].other + depositPaid'[k].admin = deposit[k]
  /\ OthersUndisturbed(j)
  /\ UNCHANGED attested

LEMMA DepositShared ==
  ASSUME NEW j, NEW bps, deposit[j] \in Nat
  PROVE  DepositShares(j, bps).raiser + DepositShares(j, bps).other + DepositShares(j, bps).admin
           = deposit[j]
<1>1. deposit[j] \div 2 \in Nat
  OBVIOUS
<1> QED
  BY <1>1 DEF DepositShares

LEMMA JudgingEnds ==
  ASSUME TypeOK, NEW j \in JobId, Judging(j)
  PROVE  JudgedBy(j)
<1> USE DEF TypeOK, DisputeTypeOK
<1>1. ASSUME NEW s, ResolveDispute(j, s)
      PROVE  JudgedBy(j)
  <2>1. \E status \in TerminalStatus : \E split : Ends(j, status, split)
    BY <1>1, SettleEnds DEF ResolveDispute, TerminalStatus
  <2>2. \A k \in JobId : raiser[k] # NoOne /\ raiser'[k] = NoOne =>
          depositPaid'[k].raiser + depositPaid'[k].other + depositPaid'[k].admin = deposit[k]
    BY <1>1, DepositShared DEF ResolveDispute
  <2> QED
    BY <1>1, <2>1, <2>2 DEF ResolveDispute, JudgedBy, OthersUndisturbed, noteVars
<1>2. ASSUME NEW s, ResolveDisputeSplit(j, s)
      PROVE  JudgedBy(j)
  BY <1>2, SettleEnds
     DEF ResolveDisputeSplit, JudgedBy, OthersUndisturbed, TerminalStatus, disputeVars, noteVars
<1>3. ASSUME NEW o, NEW b, SubmitVerdict(o, j, b)
      PROVE  JudgedBy(j)
  <2>1. \E status \in TerminalStatus : \E split : Ends(j, status, split)
    BY <1>3, SettleEnds DEF SubmitVerdict, TerminalStatus
  <2> QED
    BY <1>3, <2>1 DEF SubmitVerdict, JudgedBy, OthersUndisturbed, noteVars
<1> QED
  BY <1>1, <1>2, <1>3 DEF Judging

GuardedStep ==
  \/ JobsQuiet
  \/ \E u \in Users, j \in JobId :
       \/ PostedBy(u, j)
       \/ AcceptedBy(u, j)
       \/ \E job : EditedBy(u, j, job)
       \/ ReleasedBy(u, j)
       \/ CalledOffBy(u, j)
  \/ \E j \in JobId : JudgedBy(j)

LEMMA EveryStepIsGuarded ==
  TypeOK /\ EscrowMatchesStatus /\ [Next]_vars => GuardedStep
BY AdminQuiet, PostingPosts, WorkingEdits, EndingEnds, JudgingEnds
   DEF Next, Administration, GuardedStep

-----------------------------------------------------------------------------
(***************************************************************************)
(* The guards.                                                             *)
(***************************************************************************)

\* What a step on one job leaves of the others.
LEMMA OthersKept ==
  ASSUME TypeOK, NEW j \in JobId, NEW job, jobs' = [jobs EXCEPT ![j] = job]
  PROVE  jobs'[j] = job /\ \A k \in JobId \ {j} : jobs'[k] = jobs[k]
BY DEF TypeOK, JobTypeOK

LEMMA EndsKeeps ==
  ASSUME TypeOK, NEW j \in JobId, NEW status, NEW split, Ends(j, status, split)
  PROVE  /\ jobs'[j].status = status
         /\ jobs'[j].client = jobs[j].client /\ jobs'[j].freelancer = jobs[j].freelancer
         /\ jobs'[j].amount = jobs[j].amount /\ jobs'[j].revisions = jobs[j].revisions
         /\ \A k \in JobId \ {j} : jobs'[k] = jobs[k]
<1> DEFINE job == [jobs[j] EXCEPT !.status = status]
<1>1. jobs[j] \in Job
  BY JobRecord DEF TypeOK
<1>2. /\ job.status = status
      /\ job.client = jobs[j].client /\ job.freelancer = jobs[j].freelancer
      /\ job.amount = jobs[j].amount /\ job.revisions = jobs[j].revisions
  BY <1>1 DEF Job
<1>3. jobs' = [jobs EXCEPT ![j] = job]
  BY DEF Ends
<1> HIDE DEF job
<1>4. jobs'[j] = job /\ \A k \in JobId \ {j} : jobs'[k] = jobs[k]
  BY <1>3, OthersKept
<1> QED
  BY <1>2, <1>4

LEMMA QuorumStep ==
  ASSUME TypeOK, GuardedStep  PROVE ApprovedByQuorum
<1> SUFFICES ASSUME NEW k \in JobId,
                    jobs[k].status = "SubmittedForReview", jobs'[k].status = "Completed"
             PROVE  ClientAlone(jobs[k]) \/ Cardinality(approvals'[k]) >= policy.required
  BY DEF ApprovedByQuorum
<1>1. jobs'[k] # jobs[k]
  OBVIOUS
<1>2. ~JobsQuiet
  BY <1>1 DEF JobsQuiet
<1>3. ASSUME NEW u \in Users, NEW j \in JobId, PostedBy(u, j)  PROVE FALSE
  BY <1>1, <1>3, OthersKept DEF PostedBy, NewJob
<1>4. ASSUME NEW u \in Users, NEW j \in JobId, AcceptedBy(u, j)  PROVE FALSE
  BY <1>1, <1>4, OthersKept DEF AcceptedBy
<1>5. ASSUME NEW u \in Users, NEW j \in JobId, NEW job, EditedBy(u, j, job)  PROVE FALSE
  BY <1>1, <1>5, OthersKept DEF EditedBy, ActiveStatus
<1>6. ASSUME NEW u \in Users, NEW j \in JobId, ReleasedBy(u, j)
      PROVE  ClientAlone(jobs[k]) \/ Cardinality(approvals'[k]) >= policy.required
  BY <1>1, <1>6, EndsKeeps DEF ReleasedBy, QuorumReached
<1>7. ASSUME NEW u \in Users, NEW j \in JobId, CalledOffBy(u, j)  PROVE FALSE
  BY <1>1, <1>7, EndsKeeps DEF CalledOffBy
<1>8. ASSUME NEW j \in JobId, JudgedBy(j)  PROVE FALSE
  BY <1>1, <1>8, EndsKeeps DEF JudgedBy
<1> QED
  BY <1>2, <1>3, <1>4, <1>5, <1>6, <1>7, <1>8 DEF GuardedStep

\* The users are addresses, so an unset party is none of them.
LEMMA PartyIsSomebody ==
  ASSUME NEW u \in Users, NEW job, PartyOf(u, job), require_active_access(u)
  PROVE  ~({job.client, job.freelancer} \subseteq policy.blacklisted \cup {NoOne})
<1>1. u # NoOne /\ u \notin policy.blacklisted
  BY CustodyAssumption DEF require_active_access
<1> QED
  BY <1>1 DEF PartyOf

LEMMA FrozenStep ==
  ASSUME TypeOK, GuardedStep  PROVE MovedByOthersOnly
<1> SUFFICES ASSUME NEW k \in Posted, jobs'[k] # jobs[k],
                    {jobs[k].client, jobs[k].freelancer} \subseteq policy.blacklisted \cup {NoOne}
             PROVE  \/ jobs[k].status = "Disputed"
                    \/ jobs[k].status = "Open" /\ jobs'[k].status = "InProgress"
                    \/ jobs[k].status = "Open" /\ policy.forwarders # {}
                    \/ jobs[k].status = "SubmittedForReview" /\ ~ClientAlone(jobs[k])
  BY DEF MovedByOthersOnly
<1>1. k \in JobId /\ jobs[k] \in Job /\ jobs[k].status # "Absent"
  BY JobRecord DEF Posted, TypeOK
<1>2. ~JobsQuiet
  BY DEF JobsQuiet
<1>3. ASSUME NEW u \in Users, NEW j \in JobId, PostedBy(u, j)  PROVE FALSE
  BY <1>1, <1>3, OthersKept DEF PostedBy
<1>4. ASSUME NEW u \in Users, NEW j \in JobId, AcceptedBy(u, j)
      PROVE  jobs[k].status = "Open" /\ jobs'[k].status = "InProgress"
  BY <1>1, <1>4, OthersKept DEF AcceptedBy, Job
<1>5. ASSUME NEW u \in Users, NEW j \in JobId, NEW job, EditedBy(u, j, job)  PROVE FALSE
  BY <1>1, <1>5, OthersKept, PartyIsSomebody DEF EditedBy
<1>6. ASSUME NEW u \in Users, NEW j \in JobId, ReleasedBy(u, j)
      PROVE  jobs[k].status = "SubmittedForReview" /\ ~ClientAlone(jobs[k])
  BY <1>1, <1>6, EndsKeeps, PartyIsSomebody DEF ReleasedBy, PartyOf
<1>7. ASSUME NEW u \in Users, NEW j \in JobId, CalledOffBy(u, j)
      PROVE  jobs[k].status = "Open" /\ policy.forwarders # {}
  BY <1>1, <1>7, EndsKeeps, PartyIsSomebody DEF CalledOffBy
<1>8. ASSUME NEW j \in JobId, JudgedBy(j)  PROVE jobs[k].status = "Disputed"
  BY <1>1, <1>8, EndsKeeps DEF JudgedBy
<1> QED
  BY <1>2, <1>3, <1>4, <1>5, <1>6, <1>7, <1>8 DEF GuardedStep

LEMMA JoinStep ==
  ASSUME TypeOK, GuardedStep  PROVE AdmitsJoiner
<1> SUFFICES ASSUME NEW k \in JobId, NEW v \in Users,
                    PartyOf(v, jobs'[k]), ~PartyOf(v, jobs[k])
             PROVE  /\ require_active_access(v)
                    /\ enforce_user_active_job_limit(v)
                    /\ \/ v = jobs'[k].client /\ v # jobs'[k].freelancer
                       \/ MeetsMinRating(v)
  BY DEF AdmitsJoiner, require_active_access, enforce_user_active_job_limit, MeetsMinRating
<1>1. jobs'[k] # jobs[k] /\ jobs[k] \in Job /\ v # NoOne
  BY JobRecord, CustodyAssumption DEF TypeOK
<1>2. ~JobsQuiet
  BY <1>1 DEF JobsQuiet
<1>3. ASSUME NEW u \in Users, NEW j \in JobId, PostedBy(u, j)
      PROVE  /\ require_active_access(v) /\ enforce_user_active_job_limit(v)
             /\ v = jobs'[k].client /\ v # jobs'[k].freelancer
  BY <1>1, <1>3, OthersKept DEF PostedBy, NewJob, PartyOf
<1>4. ASSUME NEW u \in Users, NEW j \in JobId, AcceptedBy(u, j)
      PROVE  require_active_access(v) /\ enforce_user_active_job_limit(v) /\ MeetsMinRating(v)
  <2>1. k = j
    BY <1>1, <1>4, OthersKept DEF AcceptedBy
  <2>2. jobs'[j].client = jobs[j].client /\ jobs'[j].freelancer = u
    BY <1>1, <1>4, <2>1, OthersKept DEF AcceptedBy, Job
  <2>3. v = u
    BY <2>1, <2>2 DEF PartyOf
  <2> QED
    BY <1>4, <2>3 DEF AcceptedBy
<1>5. ASSUME NEW u \in Users, NEW j \in JobId, NEW job, EditedBy(u, j, job)  PROVE FALSE
  BY <1>1, <1>5, OthersKept DEF EditedBy, PartyOf
<1>6. ASSUME NEW u \in Users, NEW j \in JobId,
             ReleasedBy(u, j) \/ CalledOffBy(u, j) \/ JudgedBy(j)
      PROVE  FALSE
  BY <1>1, <1>6, EndsKeeps DEF ReleasedBy, CalledOffBy, JudgedBy, PartyOf
<1> QED
  BY <1>2, <1>3, <1>4, <1>5, <1>6 DEF GuardedStep

LEMMA DepositStep ==
  ASSUME TypeOK, GuardedStep  PROVE ReturnsDeposit
<1>1. ASSUME NEW u \in Users, NEW j \in JobId, NEW job, EditedBy(u, j, job)
      PROVE  ReturnsDeposit
  BY <1>1, CustodyAssumption DEF EditedBy, ReturnsDeposit, disputeVars, TypeOK, DisputeTypeOK
<1>2. ASSUME NEW u \in Users, NEW j \in JobId,
             \/ JobsQuiet \/ PostedBy(u, j) \/ AcceptedBy(u, j)
             \/ ReleasedBy(u, j) \/ CalledOffBy(u, j) \/ JudgedBy(j)
      PROVE  ReturnsDeposit
  BY <1>2 DEF JobsQuiet, PostedBy, AcceptedBy, ReleasedBy, CalledOffBy, JudgedBy,
              ReturnsDeposit, disputeVars
<1>3. JobsQuiet => ReturnsDeposit
  BY DEF JobsQuiet, ReturnsDeposit, disputeVars
<1>4. (\E j \in JobId : JudgedBy(j)) => ReturnsDeposit
  BY DEF JudgedBy, ReturnsDeposit
<1> QED
  BY <1>1, <1>2, <1>3, <1>4 DEF GuardedStep

-----------------------------------------------------------------------------
(***************************************************************************)
(* A hold and an attestation are about a job's past: a hold is put only on *)
(* a job that exists, and before a dispute is raised none has left traces. *)
(***************************************************************************)
HeldArePosted == \A j \in held : jobs[j].status # "Absent"

NoDispute(j) == raiser[j] = NoOne /\ deposit[j] = 0 /\ assigned[j] = NoOne

UndisputedBefore ==
  \A j \in JobId :
    jobs[j].status \in {"Absent", "Open", "InProgress", "SubmittedForReview"} => NoDispute(j)

GuardInv == HeldArePosted /\ UndisputedBefore /\ AttestedUndisputed

LEMMA GuardsStart == Init => GuardInv
BY DEF Init, GuardInv, HeldArePosted, UndisputedBefore, NoDispute, AttestedUndisputed

\* Only set_job_hold puts a job on hold.
LEMMA HeldChange ==
  ASSUME [Next]_vars  PROVE \A j \in held' \ held : jobs[j].status # "Absent"
<1>1. CASE FeeChange \/ MoneyOut \/ Reputation \/ Tick \/ UNCHANGED vars
  BY <1>1 DEF FeeChange, update_fee, update_fee_bps, update_fee_tier, set_fee_exemption,
     set_late_fee_bps, set_late_fee_enabled, update_burn_percentage, update_dispute_fee,
     update_oracle_fee, set_oracle_enabled, register_oracle, remove_oracle, SetFees, SetOracles,
     MoneyOut, withdraw_fees, execute_burn, register_referral,
     withdraw_referral_earnings, set_onboarding_bonus, claim_onboarding_bonus, Withdraw, SetPeople,
     Reputation, verify_freelancer, unverify_freelancer, rate_freelancer, Tick, vars, noteVars
<1>2. CASE PolicyChange
  BY <1>2 DEF PolicyChange, pause_module, resume_module, add_to_blacklist, remove_from_blacklist,
     add_to_whitelist, remove_from_whitelist, set_whitelist_mode, add_approver, remove_approver,
     set_high_value_threshold, set_required_approvals, set_trusted_forwarder,
     set_max_jobs_per_user, set_max_active_jobs_per_client, set_min_rating_to_accept,
     set_exempt_verified_freelancers, add_allowed_token, remove_allowed_token, set_job_hold,
     SetPolicy, noteVars
<1> QED
  BY <1>1, <1>2, CallFrame DEF Next

LEMMA HoldStep ==
  ASSUME TypeOK, HeldArePosted, GuardedStep  PROVE HoldRespected
<1> SUFFICES ASSUME NEW k \in held  PROVE HeldStays(k)
  BY DEF HoldRespected
<1>1. k \in JobId /\ jobs[k].status # "Absent"
  BY DEF TypeOK, NoteTypeOK, HeldArePosted
<1>2. CASE JobsQuiet
  BY <1>2 DEF JobsQuiet, HeldStays
<1>3. ASSUME NEW u \in Users, NEW j \in JobId, PostedBy(u, j)  PROVE HeldStays(k)
  BY <1>1, <1>3, OthersKept DEF PostedBy, HeldStays, noteVars
<1>4. ASSUME NEW u \in Users, NEW j \in JobId, AcceptedBy(u, j)  PROVE HeldStays(k)
  BY <1>1, <1>4, OthersKept DEF AcceptedBy, HeldStays
<1>5. ASSUME NEW u \in Users, NEW j \in JobId, NEW job, EditedBy(u, j, job)  PROVE HeldStays(k)
  BY <1>1, <1>5, OthersKept DEF EditedBy, HeldStays
<1>6. ASSUME NEW u \in Users, NEW j \in JobId, ReleasedBy(u, j)  PROVE HeldStays(k)
  BY <1>1, <1>6, EndsKeeps DEF ReleasedBy, HeldStays
<1>7. ASSUME NEW u \in Users, NEW j \in JobId, CalledOffBy(u, j)  PROVE HeldStays(k)
  BY <1>1, <1>7, EndsKeeps DEF CalledOffBy, HeldStays
<1>8. ASSUME NEW j \in JobId, JudgedBy(j)  PROVE HeldStays(k)
  BY <1>1, <1>8, EndsKeeps DEF JudgedBy, HeldStays
<1> QED
  BY <1>2, <1>3, <1>4, <1>5, <1>6, <1>7, <1>8 DEF GuardedStep

\* Shares that add up to nothing are nothing each.
LEMMA NothingInAll ==
  \A a, b, c, d \in Nat : a + b + c + d = 0 => a = 0
OBVIOUS

LEMMA GuardStep ==
  ASSUME TypeOK, SettledInFull, GuardInv, GuardedStep
  PROVE  \A k \in JobId :
           /\ jobs[k].status # "Absent" => jobs'[k].status # "Absent"
           /\ jobs'[k].status \in {"Absent", "Open", "InProgress", "SubmittedForReview"} =>
                NoDispute(k)'
           /\ k \in attested' =>
                jobs'[k].status = "Completed" /\ paid'[k].client = 0 /\ NoDispute(k)'
<1> DEFINE Early == {"Absent", "Open", "InProgress", "SubmittedForReview"}
           Goal(k) ==
             /\ jobs[k].status # "Absent" => jobs'[k].status # "Absent"
             /\ jobs'[k].status \in Early => NoDispute(k)'
             /\ k \in attested' =>
                  jobs'[k].status = "Completed" /\ paid'[k].client = 0 /\ NoDispute(k)'
<1> SUFFICES ASSUME NEW k \in JobId  PROVE Goal(k)
  OBVIOUS
<1>1. /\ jobs[k].status \in Early => NoDispute(k)
      /\ k \in attested => jobs[k].status = "Completed" /\ paid[k].client = 0 /\ NoDispute(k)
  BY DEF GuardInv, UndisputedBefore, AttestedUndisputed, NoDispute
\* A job of which record, division, attestation and dispute stay as they are.
<1>2. ASSUME jobs'[k] = jobs[k], paid'[k] = paid[k], k \in attested' <=> k \in attested,
             raiser'[k] = raiser[k] /\ deposit'[k] = deposit[k] /\ assigned'[k] = assigned[k]
      PROVE  Goal(k)
  BY <1>1, <1>2 DEF NoDispute
<1>3. CASE JobsQuiet
  BY <1>2, <1>3 DEF JobsQuiet, disputeVars
<1>4. ASSUME NEW u \in Users, NEW j \in JobId, PostedBy(u, j)  PROVE Goal(k)
  <2>1. jobs'[j].status = "Open"
    BY <1>4 DEF PostedBy, NewJob, TypeOK, JobTypeOK
  <2>2. CASE k = j
    BY <1>1, <1>4, <2>1, <2>2 DEF PostedBy, noteVars, disputeVars, NoDispute
  <2>3. CASE k # j
    BY <1>2, <1>4, <2>3, OthersKept DEF PostedBy, noteVars, disputeVars
  <2> QED
    BY <2>2, <2>3
<1>5. ASSUME NEW u \in Users, NEW j \in JobId, AcceptedBy(u, j)  PROVE Goal(k)
  <2>1. jobs'[j].status = "InProgress"
    BY <1>5 DEF AcceptedBy, TypeOK, JobTypeOK, Job
  <2>2. CASE k = j
    BY <1>1, <1>5, <2>1, <2>2 DEF AcceptedBy, disputeVars, NoDispute
  <2>3. CASE k # j
    BY <1>2, <1>5, <2>3, OthersKept DEF AcceptedBy, disputeVars
  <2> QED
    BY <2>2, <2>3
<1>6. ASSUME NEW u \in Users, NEW j \in JobId, NEW job, EditedBy(u, j, job)  PROVE Goal(k)
  <2>1. jobs'[j] = job /\ job.status \in ActiveStatus
    BY <1>6, OthersKept DEF EditedBy
  <2>2. CASE k = j
    BY <1>1, <1>6, <2>1, <2>2 DEF EditedBy, ActiveStatus, disputeVars, NoDispute
  <2>3. CASE k # j
    BY <1>2, <1>6, <2>3, OthersKept DEF EditedBy, OthersUndisturbed, disputeVars
  <2> QED
    BY <2>2, <2>3
<1>7. ASSUME NEW u \in Users, NEW j \in JobId, ReleasedBy(u, j)  PROVE Goal(k)
  <2>1. PICK split : split.client = 0 /\ Ends(j, "Completed", split)
    BY <1>7 DEF ReleasedBy
  <2>2. paid' = [paid EXCEPT ![j] = AddSplit(@, split)] /\ paid \in [JobId -> Shares]
    BY <2>1 DEF Ends, TypeOK, MoneyTypeOK
  <2>3. CASE k = j
    <3>1. paid[j] \in WholeShares /\ Total(paid[j]) = 0
      BY <1>7 DEF SettledInFull, ReleasedBy, IsTerminal, TerminalStatus
    <3>2. paid[j].client = 0
      <4>1. /\ paid[j].client \in Nat /\ paid[j].freelancer \in Nat
            /\ paid[j].accrued \in Nat /\ paid[j].burned \in Nat
        BY <3>1 DEF WholeShares
      <4>2. paid[j].client + paid[j].freelancer + paid[j].accrued + paid[j].burned = 0
        BY <3>1 DEF Total
      <4> QED
        BY <4>1, <4>2, NothingInAll
    <3>3. paid'[j].client = paid[j].client + split.client
      BY <2>2 DEF AddSplit
    <3> QED
      BY <1>1, <1>7, <2>1, <2>3, <3>2, <3>3, EndsKeeps DEF ReleasedBy, disputeVars, NoDispute
  <2>4. CASE k # j
    BY <1>2, <1>7, <2>1, <2>2, <2>4, EndsKeeps DEF ReleasedBy, disputeVars
  <2> QED
    BY <2>3, <2>4
<1>8. ASSUME NEW j \in JobId, NEW status \in TerminalStatus, NEW split, Ends(j, status, split),
             jobs[j].status \in ActiveStatus, OthersUndisturbed(j), UNCHANGED attested
      PROVE  Goal(k)
  <2>1. jobs'[j].status = status /\ paid' = [paid EXCEPT ![j] = AddSplit(@, split)]
    BY <1>8, EndsKeeps DEF Ends
  <2>2. CASE k = j
    BY <1>1, <1>8, <2>1, <2>2 DEF TerminalStatus, ActiveStatus
  <2>3. CASE k # j
    BY <1>2, <1>8, <2>1, <2>3, EndsKeeps DEF OthersUndisturbed, TypeOK, MoneyTypeOK
  <2> QED
    BY <2>2, <2>3
<1>9. ASSUME NEW u \in Users, NEW j \in JobId, CalledOffBy(u, j)  PROVE Goal(k)
  <2>1. PICK split : Ends(j, "Cancelled", split)
    BY <1>9 DEF CalledOffBy
  <2> QED
    BY <1>8, <1>9, <2>1 DEF CalledOffBy, OthersUndisturbed, TerminalStatus, ActiveStatus, disputeVars
<1>10. ASSUME NEW j \in JobId, JudgedBy(j)  PROVE Goal(k)
  BY <1>8, <1>10 DEF JudgedBy, ActiveStatus
<1> QED
  BY <1>3, <1>4, <1>5, <1>6, <1>7, <1>9, <1>10 DEF GuardedStep

LEMMA GuardsKeep ==
  TypeOK /\ MoneyInv /\ GuardInv /\ [Next]_vars => GuardInv'
<1> SUFFICES ASSUME TypeOK, MoneyInv, GuardInv, [Next]_vars  PROVE GuardInv'
  OBVIOUS
<1>1. GuardedStep /\ \A j \in held' \ held : jobs[j].status # "Absent"
  BY EveryStepIsGuarded, HeldChange DEF MoneyInv
<1>2. SettledInFull
  BY DEF MoneyInv
<1>3. TypeOK'
  BY TypeNext
<1>4. \A k \in JobId :
        /\ jobs[k].status # "Absent" => jobs'[k].status # "Absent"
        /\ jobs'[k].status \in {"Absent", "Open", "InProgress", "SubmittedForReview"} =>
             NoDispute(k)'
        /\ k \in attested' =>
             jobs'[k].status = "Completed" /\ paid'[k].client = 0 /\ NoDispute(k)'
  BY <1>1, <1>2, GuardStep
<1>5. HeldArePosted'
  BY <1>1, <1>3, <1>4 DEF GuardInv, HeldArePosted, TypeOK, NoteTypeOK
<1>6. UndisputedBefore'
  BY <1>4 DEF UndisputedBefore
<1>7. AttestedUndisputed'
  BY <1>3, <1>4 DEF AttestedUndisputed, NoDispute, TypeOK, NoteTypeOK
<1> QED
  BY <1>5, <1>6, <1>7 DEF GuardInv

-----------------------------------------------------------------------------
(***************************************************************************)
(* The theorems.  The inductive invariant is the one about money together  *)
(* with the one about holds, disputes and attestations.                    *)
(***************************************************************************)
SafeInv == TypeOK /\ CancelInv /\ GuardInv

LEMMA SafeHolds ==
  /\ Init => SafeInv
  /\ SafeInv /\ [Next]_vars => SafeInv'
  /\ SafeInv /\ [Next]_vars => GuardedStep
<1>1. Init => SafeInv
  BY TypeInit, MoneyInit, GuardsStart DEF SafeInv
<1>2. SafeInv /\ [Next]_vars => SafeInv'
  BY TypeNext, EveryStepIsMoneyStep, MoneyNext, GuardsKeep DEF SafeInv, CancelInv
<1>3. SafeInv /\ [Next]_vars => GuardedStep
  BY EveryStepIsGuarded DEF SafeInv, CancelInv, MoneyInv
<1> QED
  BY <1>1, <1>2, <1>3

(***************************************************************************)
(* An attestation stands only for a job whose whole payment went by        *)
(* approval and that was never disputed.                                   *)
(***************************************************************************)
THEOREM AttestationsAreClean == Spec => []AttestedUndisputed
<1>1. SafeInv => AttestedUndisputed
  BY DEF SafeInv, GuardInv
<1> QED
  BY <1>1, SafeHolds, PTL DEF Spec

(***************************************************************************)
(* A payment above the threshold is released by a quorum or not at all.    *)
(***************************************************************************)
THEOREM QuorumIsNeeded == Spec => QuorumReleases
<1>1. SafeInv /\ [Next]_vars => [ApprovedByQuorum]_vars
  BY SafeHolds, QuorumStep DEF SafeInv
<1> QED
  BY <1>1, SafeHolds, PTL DEF Spec, QuorumReleases

(***************************************************************************)
(* A held job gets no freelancer, submission, rejection, top-up or         *)
(* approval, and no attestation.                                           *)
(***************************************************************************)
THEOREM HoldStopsProgress == Spec => HeldDoesNotAdvance
<1>1. SafeInv /\ [Next]_vars => [HoldRespected]_vars
  BY SafeHolds, HoldStep DEF SafeInv, GuardInv
<1> QED
  BY <1>1, SafeHolds, PTL DEF Spec, HeldDoesNotAdvance

(***************************************************************************)
(* Once both parties are blacklisted, only approvers, a judge, a relayer   *)
(* or a new freelancer moves the job.                                      *)
(***************************************************************************)
THEOREM BlacklistFreezes == Spec => FrozenWithParties
<1>1. SafeInv /\ [Next]_vars => [MovedByOthersOnly]_vars
  BY SafeHolds, FrozenStep DEF SafeInv
<1> QED
  BY <1>1, SafeHolds, PTL DEF Spec, FrozenWithParties

(***************************************************************************)
(* Nobody becomes a party of a job whom access, limits or reputation of    *)
(* that moment keep out, by whichever call.                                *)
(***************************************************************************)
THEOREM JoiningIsChecked == Spec => OnlyAdmittedJoin
<1>1. SafeInv /\ [Next]_vars => [AdmitsJoiner]_vars
  BY SafeHolds, JoinStep DEF SafeInv
<1> QED
  BY <1>1, SafeHolds, PTL DEF Spec, OnlyAdmittedJoin

(***************************************************************************)
(* The deposit of a resolved dispute is divided without a remainder.       *)
(***************************************************************************)
THEOREM DepositsAreReturned == Spec => DepositReturned
<1>1. SafeInv /\ [Next]_vars => [ReturnsDeposit]_vars
  BY SafeHolds, DepositStep DEF SafeInv
<1> QED
  BY <1>1, SafeHolds, PTL DEF Spec, DepositReturned

-----------------------------------------------------------------------------
(***************************************************************************)
(* The counters of every user, which calls move by differences, count the  *)
(* jobs they stand for, whatever the number of jobs and users.             *)
(***************************************************************************)
DoneJobsOf(u) == {j \in JobId : jobs[j].status = "Completed" /\ PartyOf(u, jobs[j])}

\* The record `job` gives u an active job, as a party and as its client.
Engages(job, u)   == is_active_job_status(job) /\ PartyOf(u, job)
EngagesAs(job, u) == is_active_job_status(job) /\ job.client = u

(***************************************************************************)
(* A stored record is the first of its job, or continues an active one: it *)
(* keeps the client, and the freelancer but for a job that had none and    *)
(* stays active.  Who joins by it is below the limits.                     *)
(***************************************************************************)
Counted(j, job) ==
  /\ set_job(j, job)
  /\ job.client # job.freelancer
  /\ \/ ~is_active_job_status(jobs[j]) /\ ~IsTerminal(jobs[j]) /\ is_active_job_status(job)
     \/ /\ is_active_job_status(jobs[j])
        /\ job.client = jobs[j].client
        /\ \/ job.freelancer = jobs[j].freelancer
           \/ jobs[j].freelancer = NoOne /\ is_active_job_status(job)
  /\ \A u \in Users :
       /\ Engages(job, u) /\ ~Engages(jobs[j], u) => enforce_user_active_job_limit(u)
       /\ EngagesAs(job, u) /\ ~EngagesAs(jobs[j], u) => enforce_client_active_job_limit(u)

Uncounted == UNCHANGED jobVars

CountedStep == Uncounted \/ \E j \in JobId : \E job : Counted(j, job)

TwoParties == \A j \in JobId : is_active_job_status(jobs[j]) => jobs[j].client # jobs[j].freelancer

-----------------------------------------------------------------------------
(***************************************************************************)
(* Every step counts.                                                      *)
(***************************************************************************)
\* A change of an active record that leaves its parties alone.
LEMMA SameParties ==
  ASSUME TwoParties, NEW j \in JobId, NEW job, set_job(j, job),
         is_active_job_status(jobs[j]),
         job.client = jobs[j].client, job.freelancer = jobs[j].freelancer
  PROVE  CountedStep
<1>1. job.client # job.freelancer
  BY DEF TwoParties
<1>2. \A u \in Users : /\ ~(Engages(job, u) /\ ~Engages(jobs[j], u))
                       /\ ~(EngagesAs(job, u) /\ ~EngagesAs(jobs[j], u))
  BY DEF Engages, EngagesAs, PartyOf
<1>3. Counted(j, job)
  BY <1>1, <1>2 DEF Counted
<1> QED
  BY <1>3 DEF CountedStep

LEMMA SettleCounts ==
  ASSUME TypeOK, TwoParties, NEW j \in JobId, NEW status, NEW split, NEW extra,
         Settle(j, status, split, extra), is_active_job_status(jobs[j])
  PROVE  CountedStep
<1> DEFINE job == [jobs[j] EXCEPT !.status = status]
<1>1. jobs[j] \in Job
  BY JobRecord DEF TypeOK
<1>2. job.client = jobs[j].client /\ job.freelancer = jobs[j].freelancer
  BY <1>1 DEF Job
<1>3. set_job(j, job)
  BY Zenon DEF Settle
<1> HIDE DEF job
<1> QED
  BY <1>2, <1>3, SameParties

LEMMA CreateCounts ==
  ASSUME TypeOK, EscrowMatchesStatus, NEW u \in Users, NEW a, NEW b, NEW d, NEW t,
         CreateJob(u, a, b, d, t)
  PROVE  CountedStep
<1> DEFINE j   == jobsCount + 1
           job == NewJob(u, a, t, d)
<1>1. jobsCount \in Nat /\ j \in JobId
  BY CustodyAssumption DEF CreateJob, TypeOK, JobTypeOK, JobId
<1>2. jobs[j].status = "Absent"
  BY <1>1 DEF EscrowMatchesStatus
<1>3. /\ job.client = u /\ job.freelancer = NoOne /\ job.status = "Open"
      /\ u # NoOne
  BY CustodyAssumption DEF NewJob
<1>4. /\ set_job(j, job)
      /\ enforce_user_active_job_limit(u) /\ enforce_client_active_job_limit(u)
  BY DEF CreateJob
<1> HIDE DEF j, job
<1>5. \A v \in Users : Engages(job, v) \/ EngagesAs(job, v) => v = u
  BY <1>3, CustodyAssumption DEF Engages, EngagesAs, PartyOf
<1>6. /\ ~is_active_job_status(jobs[j]) /\ ~IsTerminal(jobs[j])
      /\ is_active_job_status(job)
  BY <1>2, <1>3 DEF is_active_job_status, IsTerminal, ActiveStatus, TerminalStatus
<1>7. Counted(j, job)
  BY <1>3, <1>4, <1>5, <1>6 DEF Counted
<1> QED
  BY <1>1, <1>7 DEF CountedStep

LEMMA PostingCounts ==
  ASSUME TypeOK, EscrowMatchesStatus, Posting  PROVE CountedStep
BY CreateCounts DEF Posting, PostJob, PostJobWithCategories, PostJobWithReferral

LEMMA WorkingCounts ==
  ASSUME TypeOK, TwoParties, NEW u \in Users, NEW j \in JobId, Working(u, j)  PROVE CountedStep
<1> DEFINE old == jobs[j]
<1>1. old \in Job
  BY JobRecord DEF TypeOK
<1>2. CASE AcceptJob(u, j)
  <2> DEFINE new == [old EXCEPT !.freelancer = u, !.status = "InProgress"]
  <2>1. new.client = old.client /\ new.freelancer = u /\ new.status = "InProgress"
    BY <1>1 DEF Job
  <2>2. /\ set_job(j, new) /\ old.status = "Open" /\ old.freelancer = NoOne /\ old.client # u
        /\ enforce_user_active_job_limit(u)
    BY <1>2 DEF AcceptJob, Advance
  <2> HIDE DEF new
  <2>3. is_active_job_status(old) /\ is_active_job_status(new)
    BY <2>1, <2>2 DEF is_active_job_status, ActiveStatus
  <2>4. \A v \in Users : /\ Engages(new, v) /\ ~Engages(old, v) => v = u
                         /\ EngagesAs(new, v) => EngagesAs(old, v)
    BY <2>1, <2>3 DEF Engages, EngagesAs, PartyOf
  <2>5. Counted(j, new)
    BY <2>1, <2>2, <2>3, <2>4 DEF Counted
  <2> QED
    BY <2>5 DEF CountedStep
<1>3. CASE SubmitWork(u, j)
  <2> DEFINE new == [old EXCEPT !.status = "SubmittedForReview"]
  <2>1. new.client = old.client /\ new.freelancer = old.freelancer
    BY <1>1 DEF Job
  <2>2. set_job(j, new) /\ is_active_job_status(old)
    BY <1>3 DEF SubmitWork, Advance, is_active_job_status, ActiveStatus
  <2> HIDE DEF new
  <2> QED
    BY <2>1, <2>2, SameParties
<1>4. CASE RejectWork(u, j)
  <2> DEFINE new == [old EXCEPT !.status = "InProgress", !.revisions = @ + 1]
  <2>1. new.client = old.client /\ new.freelancer = old.freelancer
    BY <1>1 DEF Job
  <2>2. set_job(j, new) /\ is_active_job_status(old)
    BY <1>4 DEF RejectWork, Advance, is_active_job_status, ActiveStatus
  <2> HIDE DEF new
  <2> QED
    BY <2>1, <2>2, SameParties
<1>5. CASE \E d \in Inputs.newDeadlines : ExtendDeadline(u, j, d)
  <2>1. PICK d \in Inputs.newDeadlines : ExtendDeadline(u, j, d)
    BY <1>5
  <2> DEFINE new == [old EXCEPT !.deadline = d]
  <2>2. new.client = old.client /\ new.freelancer = old.freelancer
    BY <1>1 DEF Job
  <2>3. set_job(j, new) /\ is_active_job_status(old)
    BY <2>1 DEF ExtendDeadline, Advance, is_active_job_status, ActiveStatus
  <2> HIDE DEF new
  <2> QED
    BY <2>2, <2>3, SameParties
<1>6. CASE \E a \in Inputs.topUps : TopUpEscrow(u, j, a)
  <2>1. PICK a \in Inputs.topUps : TopUpEscrow(u, j, a)
    BY <1>6
  <2> DEFINE new == [old EXCEPT !.amount = @ + a]
  <2>2. new.client = old.client /\ new.freelancer = old.freelancer
    BY <1>1 DEF Job
  <2>3. set_job(j, new) /\ is_active_job_status(old)
    BY <2>1 DEF TopUpEscrow, AcceptsFunds, is_active_job_status, ActiveStatus
  <2> HIDE DEF new
  <2> QED
    BY <2>2, <2>3, SameParties
<1>7. CASE RaiseDispute(u, j)
  <2> DEFINE new == [old EXCEPT !.status = "Disputed"]
  <2>1. new.client = old.client /\ new.freelancer = old.freelancer
    BY <1>1 DEF Job
  <2>2. set_job(j, new) /\ is_active_job_status(old)
    BY <1>7 DEF RaiseDispute, is_active_job_status, ActiveStatus
  <2> HIDE DEF new
  <2> QED
    BY <2>1, <2>2, SameParties
<1> QED
  BY <1>2, <1>3, <1>4, <1>5, <1>6, <1>7 DEF Working

LEMMA EndingCounts ==
  ASSUME TypeOK, TwoParties, NEW u \in Users, NEW j \in JobId, Ending(u, j)  PROVE CountedStep
<1> USE DEF is_active_job_status, ActiveStatus
<1>1. CASE ApproveByClient(u, j)
  BY <1>1, SettleCounts DEF ApproveByClient, Approvable, PayApproved
<1>2. CASE ApproveByApprover(u, j)
  <2>1. CASE QuorumReached(approvals'[j])
    BY <1>2, <2>1, SettleCounts DEF ApproveByApprover, Approvable, PayApproved
  <2>2. CASE ~QuorumReached(approvals'[j])
    BY <1>2, <2>2 DEF ApproveByApprover, CountedStep, Uncounted
  <2> QED
    BY <2>1, <2>2
<1>3. CASE \/ CancelJob(u, j)
           \/ \E v \in Users : RelayCancelJob(u, v, j)
           \/ FreelancerCancelJob(u, j)
           \/ EnforceDeadline(u, j)
  BY <1>3, SettleCounts DEF CancelJob, RelayCancelJob, FreelancerCancelJob, EnforceDeadline, Refund
<1>4. CASE \E v \in Users, s \in Inputs.shares : MutualCancel(u, v, j, s)
  BY <1>4, SettleCounts DEF MutualCancel
<1> QED
  BY <1>1, <1>2, <1>3, <1>4 DEF Ending

LEMMA JudgingCounts ==
  ASSUME TypeOK, TwoParties, NEW j \in JobId, Judging(j)  PROVE CountedStep
BY SettleCounts
   DEF Judging, ResolveDispute, ResolveDisputeSplit, SubmitVerdict, is_active_job_status, ActiveStatus

LEMMA AdminUncounted ==
  ASSUME Administration \/ UNCHANGED vars  PROVE Uncounted
BY AdminFrame DEF Uncounted

LEMMA EveryStepCounts ==
  TypeOK /\ EscrowMatchesStatus /\ TwoParties /\ [Next]_vars => CountedStep
BY PostingCounts, WorkingCounts, EndingCounts, JudgingCounts, AdminUncounted
   DEF Next, Administration, CountedStep

-----------------------------------------------------------------------------
(***************************************************************************)
(* Counting.                                                               *)
(***************************************************************************)
LEMMA JobSetsFinite ==
  ASSUME NEW S \in SUBSET JobId
  PROVE  IsFiniteSet(S) /\ Cardinality(S) \in Nat
<1>1. IsFiniteSet(JobId)
  BY FS_Interval, CustodyAssumption DEF JobId
<1> QED
  BY <1>1, FS_Subset, FS_CardinalityType

\* A set of jobs in which at most the membership of j changes.
LEMMA OneMember ==
  ASSUME NEW S \in SUBSET JobId, NEW T \in SUBSET JobId, NEW j \in JobId,
         S \ {j} = T \ {j}
  PROVE  /\ j \in S /\ j \in T => Cardinality(T) = Cardinality(S)
         /\ j \notin S /\ j \notin T => Cardinality(T) = Cardinality(S)
         /\ j \notin S /\ j \in T => Cardinality(T) = Cardinality(S) + 1
         /\ j \in S /\ j \notin T => Cardinality(T) = Cardinality(S) - 1 /\ Cardinality(S) > 0
<1>1. IsFiniteSet(S) /\ IsFiniteSet(T) /\ Cardinality(S) \in Nat /\ Cardinality(T) \in Nat
  BY JobSetsFinite
<1>2. ASSUME j \in S, j \in T  PROVE T = S
  BY <1>2
<1>3. ASSUME j \notin S, j \notin T  PROVE T = S
  BY <1>3
<1>4. ASSUME j \notin S, j \in T  PROVE Cardinality(T) = Cardinality(S) + 1
  <2>1. T = S \cup {j}
    BY <1>4
  <2> QED
    BY <1>1, <1>4, <2>1, FS_AddElement
<1>5. ASSUME j \in S, j \notin T
      PROVE  Cardinality(T) = Cardinality(S) - 1 /\ Cardinality(S) > 0
  <2>1. T = S \ {j}
    BY <1>5
  <2>2. Cardinality(T) = Cardinality(S) - 1
    BY <1>1, <1>5, <2>1, FS_RemoveElement
  <2> QED
    BY <1>1, <2>2
<1> QED
  BY <1>2, <1>3, <1>4, <1>5

\* How membership of the job at hand moves with its record.
LEMMA Membership ==
  ASSUME TypeOK, NEW j \in JobId, NEW job, Counted(j, job), NEW u \in Users
  PROVE  /\ jobs'[j] = job
         /\ ActiveJobsOf(u) \ {j} = ActiveJobsOf(u)' \ {j}
         /\ ActiveJobsBy(u) \ {j} = ActiveJobsBy(u)' \ {j}
         /\ DoneJobsOf(u) \ {j} = DoneJobsOf(u)' \ {j}
         /\ j \in ActiveJobsOf(u) <=> Engages(jobs[j], u)
         /\ j \in ActiveJobsOf(u)' <=> Engages(job, u)
         /\ j \in ActiveJobsBy(u) <=> EngagesAs(jobs[j], u)
         /\ j \in ActiveJobsBy(u)' <=> EngagesAs(job, u)
         /\ j \in DoneJobsOf(u)' <=> job.status = "Completed" /\ PartyOf(u, job)
         /\ j \notin DoneJobsOf(u)
<1>1. jobs'[j] = job /\ \A k \in JobId \ {j} : jobs'[k] = jobs[k]
  BY DEF Counted, set_job, TypeOK, JobTypeOK
<1>2. jobs[j].status # "Completed"
  BY DEF Counted, is_active_job_status, IsTerminal, ActiveStatus, TerminalStatus
<1>3. ActiveJobsOf(u) \ {j} = ActiveJobsOf(u)' \ {j}
  BY <1>1 DEF ActiveJobsOf
<1>4. ActiveJobsBy(u) \ {j} = ActiveJobsBy(u)' \ {j}
  BY <1>1 DEF ActiveJobsBy
<1>5. DoneJobsOf(u) \ {j} = DoneJobsOf(u)' \ {j}
  BY <1>1 DEF DoneJobsOf
<1>6. /\ j \in ActiveJobsOf(u) <=> Engages(jobs[j], u)
      /\ j \in ActiveJobsOf(u)' <=> Engages(job, u)
  BY <1>1 DEF ActiveJobsOf, Engages
<1>7. /\ j \in ActiveJobsBy(u) <=> EngagesAs(jobs[j], u)
      /\ j \in ActiveJobsBy(u)' <=> EngagesAs(job, u)
  BY <1>1 DEF ActiveJobsBy, EngagesAs
<1>8. /\ j \in DoneJobsOf(u)' <=> job.status = "Completed" /\ PartyOf(u, job)
      /\ j \notin DoneJobsOf(u)
  BY <1>1, <1>2 DEF DoneJobsOf
<1> QED
  BY <1>1, <1>3, <1>4, <1>5, <1>6, <1>7, <1>8

\* The step set_job computes for a user is the change of his membership.
LEMMA StepIsChange ==
  ASSUME TwoParties, NEW j \in JobId, NEW job, Counted(j, job), NEW u \in Users
  PROVE  LET was  == is_active_job_status(jobs[j])
             is   == is_active_job_status(job)
             step == IF u = job.client THEN CounterStep(was, is)
                     ELSE IF u = job.freelancer
                          THEN CounterStep(SameFreelancer(jobs[j], job) /\ was, is)
                          ELSE 0
         IN  step = CounterStep(Engages(jobs[j], u), Engages(job, u))
<1>1. CASE u = job.client
  BY <1>1, CustodyAssumption DEF Counted, Engages, PartyOf, CounterStep
<1>2. CASE u # job.client /\ u = job.freelancer
  BY <1>2, CustodyAssumption DEF Counted, Engages, PartyOf, CounterStep, SameFreelancer, TwoParties
<1>3. CASE u # job.client /\ u # job.freelancer
  BY <1>3, CustodyAssumption DEF Counted, Engages, PartyOf, CounterStep
<1> QED
  BY <1>1, <1>2, <1>3

LEMMA ActiveCounts ==
  ASSUME TypeOK, TwoParties, NEW j \in JobId, NEW job, Counted(j, job), NEW u \in Users,
         userActive[u] = Cardinality(ActiveJobsOf(u))
  PROVE  userActive'[u] = Cardinality(ActiveJobsOf(u)')
<1>1. userActive'[u] =
        Saturating(userActive[u], CounterStep(Engages(jobs[j], u), Engages(job, u)))
  BY StepIsChange DEF Counted, set_job
<1>2. ActiveJobsOf(u) \in SUBSET JobId /\ ActiveJobsOf(u)' \in SUBSET JobId
  BY DEF ActiveJobsOf
<1>3. Cardinality(ActiveJobsOf(u)) \in Nat
  BY <1>2, JobSetsFinite
<1>4. CASE Engages(jobs[j], u) <=> Engages(job, u)
  <2>1. Cardinality(ActiveJobsOf(u)') = Cardinality(ActiveJobsOf(u))
    BY <1>2, <1>4, Membership, OneMember
  <2> QED
    BY <1>1, <1>3, <1>4, <2>1 DEF CounterStep, Saturating
<1>5. CASE ~Engages(jobs[j], u) /\ Engages(job, u)
  <2>1. Cardinality(ActiveJobsOf(u)') = Cardinality(ActiveJobsOf(u)) + 1
    BY <1>2, <1>5, Membership, OneMember
  <2> QED
    BY <1>1, <1>3, <1>5, <2>1 DEF CounterStep, Saturating
<1>6. CASE Engages(jobs[j], u) /\ ~Engages(job, u)
  <2>1. /\ Cardinality(ActiveJobsOf(u)') = Cardinality(ActiveJobsOf(u)) - 1
        /\ Cardinality(ActiveJobsOf(u)) > 0
    BY <1>2, <1>6, Membership, OneMember
  <2> QED
    BY <1>1, <1>3, <1>6, <2>1 DEF CounterStep, Saturating
<1> QED
  BY <1>4, <1>5, <1>6

LEMMA CompletedCounts ==
  ASSUME TypeOK, NEW j \in JobId, NEW job, Counted(j, job), NEW u \in Users,
         userCompleted[u] = Cardinality(DoneJobsOf(u))
  PROVE  userCompleted'[u] = Cardinality(DoneJobsOf(u)')
<1>1. jobs[j].status # "Completed"
  BY DEF Counted, is_active_job_status, IsTerminal, ActiveStatus, TerminalStatus
<1>2. userCompleted'[u] =
        userCompleted[u] + (IF job.status = "Completed" /\ PartyOf(u, job) THEN 1 ELSE 0)
  BY <1>1 DEF Counted, set_job, CounterStep, PartyOf
<1>3. DoneJobsOf(u) \in SUBSET JobId /\ DoneJobsOf(u)' \in SUBSET JobId
  BY DEF DoneJobsOf
<1>4. Cardinality(DoneJobsOf(u)) \in Nat
  BY <1>3, JobSetsFinite
<1>5. Cardinality(DoneJobsOf(u)') =
        Cardinality(DoneJobsOf(u)) + (IF job.status = "Completed" /\ PartyOf(u, job) THEN 1 ELSE 0)
  BY <1>3, <1>4, Membership, OneMember
<1> QED
  BY <1>2, <1>5

-----------------------------------------------------------------------------
(***************************************************************************)
(* Limits.  The administrator may lower a limit under the number of jobs a *)
(* user has, so the instances that change limits are left out.             *)
(***************************************************************************)
Limits == <<policy.maxJobsPerUser, policy.maxJobsPerClient>>

LEMMA LimitsStay ==
  ASSUME TypeOK, Inputs.limits = {}, [Next]_vars  PROVE UNCHANGED Limits
<1>1. policy \in PolicySettings
  BY DEF TypeOK, SettingTypeOK
<1>2. ASSUME UNCHANGED policy  PROVE UNCHANGED Limits
  BY <1>2 DEF Limits
<1>3. CASE FeeChange \/ MoneyOut \/ Reputation \/ Tick \/ UNCHANGED vars
  BY <1>2, <1>3 DEF FeeChange, update_fee, update_fee_bps, update_fee_tier, set_fee_exemption,
     set_late_fee_bps, set_late_fee_enabled, update_burn_percentage, update_dispute_fee,
     update_oracle_fee, set_oracle_enabled, register_oracle, remove_oracle, SetFees, SetOracles,
     MoneyOut, withdraw_fees, execute_burn, register_referral,
     withdraw_referral_earnings, set_onboarding_bonus, claim_onboarding_bonus, Withdraw, SetPeople,
     Reputation, verify_freelancer, unverify_freelancer, rate_freelancer, Tick, vars, settingVars
<1>4. CASE PolicyChange
  BY <1>1, <1>4 DEF PolicyChange, pause_module, resume_module, add_to_blacklist,
     remove_from_blacklist, add_to_whitelist, remove_from_whitelist, set_whitelist_mode,
     add_approver, remove_approver, set_high_value_threshold, set_required_approvals,
     set_trusted_forwarder, set_min_rating_to_accept, set_exempt_verified_freelancers,
     add_allowed_token, remove_allowed_token, set_job_hold, SetPolicy, settingVars,
     PolicySettings, Limits
<1> QED
  BY <1>2, <1>3, <1>4, CallFrame DEF Next, settingVars

\* A user's active jobs grow by one at most, and only below the limit.
WithinLimits(u) ==
  /\ Cardinality(ActiveJobsOf(u)') <= Cardinality(ActiveJobsOf(u))
     \/ policy.maxJobsPerUser = 0 \/ Cardinality(ActiveJobsOf(u)') <= policy.maxJobsPerUser
  /\ Cardinality(ActiveJobsBy(u)') <= Cardinality(ActiveJobsBy(u))
     \/ policy.maxJobsPerClient = 0 \/ Cardinality(ActiveJobsBy(u)') <= policy.maxJobsPerClient

LEMMA CountedWithinLimits ==
  ASSUME TypeOK, NEW j \in JobId, NEW job, Counted(j, job), NEW u \in Users
  PROVE  WithinLimits(u)
<1>1. policy.maxJobsPerUser \in Nat /\ policy.maxJobsPerClient \in Nat
  BY DEF TypeOK, SettingTypeOK, PolicySettings
<1>2. /\ ActiveJobsOf(u) \in SUBSET JobId /\ ActiveJobsOf(u)' \in SUBSET JobId
      /\ ActiveJobsBy(u) \in SUBSET JobId /\ ActiveJobsBy(u)' \in SUBSET JobId
  BY DEF ActiveJobsOf, ActiveJobsBy
<1>3. /\ Cardinality(ActiveJobsOf(u)) \in Nat /\ Cardinality(ActiveJobsOf(u)') \in Nat
      /\ Cardinality(ActiveJobsBy(u)) \in Nat /\ Cardinality(ActiveJobsBy(u)') \in Nat
  BY <1>2, JobSetsFinite
<1>4. \/ Cardinality(ActiveJobsOf(u)') <= Cardinality(ActiveJobsOf(u))
      \/ /\ Cardinality(ActiveJobsOf(u)') = Cardinality(ActiveJobsOf(u)) + 1
         /\ enforce_user_active_job_limit(u)
  <2>1. CASE Engages(job, u) /\ ~Engages(jobs[j], u)
    BY <1>2, <2>1, Membership, OneMember DEF Counted
  <2>2. CASE ~(Engages(job, u) /\ ~Engages(jobs[j], u))
    BY <1>2, <1>3, <2>2, Membership, OneMember
  <2> QED
    BY <2>1, <2>2
<1>5. \/ Cardinality(ActiveJobsBy(u)') <= Cardinality(ActiveJobsBy(u))
      \/ /\ Cardinality(ActiveJobsBy(u)') = Cardinality(ActiveJobsBy(u)) + 1
         /\ enforce_client_active_job_limit(u)
  <2>1. CASE EngagesAs(job, u) /\ ~EngagesAs(jobs[j], u)
    BY <1>2, <2>1, Membership, OneMember DEF Counted
  <2>2. CASE ~(EngagesAs(job, u) /\ ~EngagesAs(jobs[j], u))
    BY <1>2, <1>3, <2>2, Membership, OneMember
  <2> QED
    BY <2>1, <2>2
<1> QED
  BY <1>1, <1>3, <1>4, <1>5
     DEF WithinLimits, enforce_user_active_job_limit, enforce_client_active_job_limit

-----------------------------------------------------------------------------
(***************************************************************************)
(* The counters alone, whatever becomes of the limits.  That no job has    *)
(* the same client and freelancer is part of the induction: set_job would  *)
(* count such a job once.                                                  *)
(***************************************************************************)
CountsMatchJobs ==
  \A u \in Users :
    /\ userActive[u] = Cardinality(ActiveJobsOf(u))
    /\ userCompleted[u] = Cardinality(DoneJobsOf(u))

TallyInv == TwoParties /\ CountsMatchJobs

LEMMA NoJobsYet ==
  ASSUME Init
  PROVE  /\ TwoParties
         /\ \A u \in Users : ActiveJobsOf(u) = {} /\ ActiveJobsBy(u) = {} /\ DoneJobsOf(u) = {}
<1>1. \A j \in JobId : jobs[j].status = "Absent"
  BY DEF Init, NoJob
<1>2. TwoParties
  BY <1>1 DEF TwoParties, is_active_job_status, ActiveStatus
<1>3. ASSUME NEW u \in Users
      PROVE  ActiveJobsOf(u) = {} /\ ActiveJobsBy(u) = {} /\ DoneJobsOf(u) = {}
  BY <1>1 DEF ActiveJobsOf, ActiveJobsBy, DoneJobsOf, is_active_job_status, ActiveStatus
<1> QED
  BY <1>2, <1>3

LEMMA TallyStarts ==
  ASSUME Init  PROVE TallyInv
<1>1. Cardinality({}) = 0
  BY FS_EmptySet
<1>2. \A u \in Users : userActive[u] = 0 /\ userCompleted[u] = 0
  BY DEF Init
<1> QED
  BY <1>1, <1>2, NoJobsYet DEF TallyInv, CountsMatchJobs

\* No call takes a user above a limit of the moment.
LEMMA TallyStep ==
  ASSUME TypeOK, TallyInv, CountedStep
  PROVE  TallyInv' /\ \A u \in Users : WithinLimits(u)
<1>1. CASE Uncounted
  <2>1. ASSUME NEW u \in Users
        PROVE  /\ ActiveJobsOf(u)' = ActiveJobsOf(u) /\ ActiveJobsBy(u)' = ActiveJobsBy(u)
               /\ DoneJobsOf(u)' = DoneJobsOf(u)
    BY <1>1 DEF Uncounted, jobVars, ActiveJobsOf, ActiveJobsBy, DoneJobsOf
  <2>2. ASSUME NEW u \in Users  PROVE WithinLimits(u)
    <3>1. ActiveJobsOf(u) \in SUBSET JobId /\ ActiveJobsBy(u) \in SUBSET JobId
      BY DEF ActiveJobsOf, ActiveJobsBy
    <3>2. Cardinality(ActiveJobsOf(u)) \in Nat /\ Cardinality(ActiveJobsBy(u)) \in Nat
      BY <3>1, JobSetsFinite
    <3> QED
      BY <2>1, <3>2 DEF WithinLimits
  <2>3. TwoParties' /\ CountsMatchJobs'
    BY <1>1, <2>1 DEF TallyInv, TwoParties, CountsMatchJobs, Uncounted, jobVars
  <2> QED
    BY <2>2, <2>3 DEF TallyInv
<1>2. ASSUME NEW j \in JobId, NEW job, Counted(j, job)
      PROVE  TallyInv' /\ \A u \in Users : WithinLimits(u)
  <2>1. jobs'[j] = job /\ \A k \in JobId \ {j} : jobs'[k] = jobs[k]
    BY <1>2 DEF Counted, set_job, TypeOK, JobTypeOK
  <2>2. TwoParties'
    BY <1>2, <2>1 DEF Counted, TwoParties, TallyInv
  <2>3. CountsMatchJobs'
    BY <1>2, ActiveCounts, CompletedCounts DEF CountsMatchJobs, TallyInv
  <2> QED
    BY <1>2, <2>2, <2>3, CountedWithinLimits DEF TallyInv
<1> QED
  BY <1>1, <1>2 DEF CountedStep

-----------------------------------------------------------------------------
(***************************************************************************)
(* The theorems.                                                           *)
(***************************************************************************)
CountInv == TwoParties /\ CountersMatchJobs

LEMMA CountIsTally ==
  CountInv => TallyInv
BY DEF CountInv, CountersMatchJobs, TallyInv, CountsMatchJobs, DoneJobsOf

LEMMA CountersStart == Init => CountInv
<1> SUFFICES ASSUME Init PROVE CountInv
  OBVIOUS
<1>1. policy.maxJobsPerUser \in Nat /\ policy.maxJobsPerClient \in Nat
  BY EscrowAssumption DEF Init, PolicySettings
<1>2. Cardinality({}) = 0
  BY FS_EmptySet
<1> QED
  BY <1>1, <1>2, NoJobsYet, TallyStarts
     DEF TallyInv, CountInv, CountersMatchJobs, CountsMatchJobs, DoneJobsOf

\* As long as the limits stay, nobody above one was taken there.
LEMMA CountersStep ==
  ASSUME TypeOK, CountInv, CountedStep, UNCHANGED Limits  PROVE CountInv'
<1>1. TallyInv' /\ \A u \in Users : WithinLimits(u)
  BY CountIsTally, TallyStep
<1>2. ASSUME NEW u \in Users
      PROVE  /\ policy'.maxJobsPerUser # 0 =>
                  Cardinality(ActiveJobsOf(u)') <= policy'.maxJobsPerUser
             /\ policy'.maxJobsPerClient # 0 =>
                  Cardinality(ActiveJobsBy(u)') <= policy'.maxJobsPerClient
  <2>1. /\ policy.maxJobsPerUser # 0 => Cardinality(ActiveJobsOf(u)) <= policy.maxJobsPerUser
        /\ policy.maxJobsPerClient # 0 => Cardinality(ActiveJobsBy(u)) <= policy.maxJobsPerClient
    BY DEF CountInv, CountersMatchJobs
  <2>2. /\ policy'.maxJobsPerUser = policy.maxJobsPerUser /\ policy.maxJobsPerUser \in Nat
        /\ policy'.maxJobsPerClient = policy.maxJobsPerClient /\ policy.maxJobsPerClient \in Nat
    BY DEF Limits, TypeOK, SettingTypeOK, PolicySettings
  <2>3. /\ ActiveJobsOf(u) \in SUBSET JobId /\ ActiveJobsOf(u)' \in SUBSET JobId
        /\ ActiveJobsBy(u) \in SUBSET JobId /\ ActiveJobsBy(u)' \in SUBSET JobId
    BY DEF ActiveJobsOf, ActiveJobsBy
  <2>4. /\ Cardinality(ActiveJobsOf(u)) \in Nat /\ Cardinality(ActiveJobsOf(u)') \in Nat
        /\ Cardinality(ActiveJobsBy(u)) \in Nat /\ Cardinality(ActiveJobsBy(u)') \in Nat
    BY <2>3, JobSetsFinite
  <2> QED
    BY <1>1, <2>1, <2>2, <2>4 DEF WithinLimits
<1>3. CountersMatchJobs'
  BY <1>1, <1>2 DEF TallyInv, CountsMatchJobs, CountersMatchJobs, DoneJobsOf
<1> QED
  BY <1>1, <1>3 DEF TallyInv, CountInv

LEMMA CountersKeep ==
  ASSUME Inputs.limits = {}
  PROVE  TypeOK /\ EscrowMatchesStatus /\ CountInv /\ [Next]_vars => CountInv'
BY EveryStepCounts, LimitsStay, CountersStep DEF CountInv

(***************************************************************************)
(* Whatever the limits are and however often they change, the stored       *)
(* counters of every user are the numbers of his active and completed      *)
(* jobs, and no call takes a user above the limit in force when it is      *)
(* made: a lowered limit stops him only from engaging again.               *)
(***************************************************************************)
WithinAllLimits == \A u \in Users : WithinLimits(u)

THEOREM CountersNeverDrift == Spec => []CountsMatchJobs /\ [][WithinAllLimits]_vars
<1>1. Init => TypeOK /\ CancelInv /\ TallyInv
  BY TypeInit, MoneyInit, TallyStarts
<1>2. TypeOK /\ CancelInv /\ TallyInv /\ [Next]_vars
        => (TypeOK /\ CancelInv /\ TallyInv)' /\ [WithinAllLimits]_vars
  <2> SUFFICES ASSUME TypeOK, CancelInv, TallyInv, [Next]_vars
               PROVE  (TypeOK /\ CancelInv /\ TallyInv)' /\ WithinAllLimits
    OBVIOUS
  <2>1. TypeOK' /\ CancelInv'
    BY TypeNext, EveryStepIsMoneyStep, MoneyNext
  <2>2. CountedStep
    BY EveryStepCounts DEF CancelInv, MoneyInv, TallyInv
  <2>3. TallyInv' /\ WithinAllLimits
    BY <2>2, TallyStep DEF WithinAllLimits
  <2> QED
    BY <2>1, <2>3
<1>3. TallyInv => CountsMatchJobs
  BY DEF TallyInv
<1> QED
  BY <1>1, <1>2, <1>3, PTL DEF Spec

(***************************************************************************)
(* While limits are not changed, the stored counters of every user are the *)
(* numbers of his active and completed jobs, and no order of postings and  *)
(* acceptances takes him above a limit.                                    *)
(***************************************************************************)
THEOREM CountersAreRight ==
  ASSUME Inputs.limits = {}
  PROVE  Spec => []CountersMatchJobs
<1>1. Init => TypeOK /\ CancelInv /\ CountInv
  BY TypeInit, MoneyInit, CountersStart
<1>2. TypeOK /\ CancelInv /\ CountInv /\ [Next]_vars => (TypeOK /\ CancelInv /\ CountInv)'
  BY TypeNext, EveryStepIsMoneyStep, MoneyNext, CountersKeep DEF CancelInv, MoneyInv
<1>3. CountInv => CountersMatchJobs
  BY DEF CountInv
<1> QED
  BY <1>1, <1>2, <1>3, PTL DEF Spec
=============================================================================

-------------------------- MODULE EscrowProperties --------------------------
(***************************************************************************)
(* What must hold of the escrow contract, and the promise it implements.   *)
(***************************************************************************)
EXTENDS Escrow

Posted == {j \in JobId : jobs[j].status # "Absent"}

(***************************************************************************)
(* Money.                                                                  *)
(***************************************************************************)

\* The escrow entry of a job holds its amount exactly while the job is
\* active and nothing before or after, whichever of the ten settlement paths
\* ended it: no path forgets the entry, none clears it early.
EscrowMatchesStatus ==
  \A j \in JobId :
    /\ escrowBal[j] = IF is_active_job_status(jobs[j]) THEN jobs[j].amount ELSE 0
    /\ jobs[j].status = "Absent" <=> j > jobsCount
    /\ j \in Posted => jobs[j].amount > 0

WholeShares == [client : Nat, freelancer : Nat, accrued : Nat, burned : Nat]

\* What the four recipients of a settled job got adds up to what the client
\* put in, top-ups included, with no negative share; an active job has paid
\* nobody anything.  Rounding, late fee and burn never create or lose money.
SettledInFull ==
  \A j \in JobId :
    /\ paid[j] \in WholeShares
    /\ Total(paid[j]) = IF IsTerminal(jobs[j]) THEN jobs[j].amount ELSE 0

\* A cancelled job costs nobody a fee or a burn.
CancelledFreeOfFees ==
  \A j \in JobId : jobs[j].status = "Cancelled" => paid[j].accrued = 0 /\ paid[j].burned = 0

\* The contract-wide total and the per-token counts, which are updated by
\* differences in every path, agree with the escrow entries they summarise;
\* remove_allowed_token trusts the count, so that a token with money in escrow
\* stays on the list.
LedgersAgree ==
  /\ totalEscrow = SumFunction(escrowBal)
  /\ \A t \in Tokens :
       tokenActive[t] = Cardinality({j \in JobId : escrowBal[j] > 0 /\ jobs[j].token = t})
  /\ \A j \in JobId : escrowBal[j] > 0 => jobs[j].token \in policy.allowedTokens

\* Everything settlements diverted to the burn pool is still in it or has
\* been marked as burned by execute_burn.
BurnAccounted == burnPool + totalBurned = SumFunction([j \in JobId |-> paid[j].burned])

\* What the contract still holds in a token because of a job: its live escrow,
\* what its settlement left locked as burned, and the deposit of its dispute
\* while that is open.
HeldFor(j, token) ==
  (IF jobs[j].token = token THEN escrowBal[j] + paid[j].burned ELSE 0)
  + (IF token = Native /\ jobs[j].status = "Disputed" THEN deposit[j] ELSE 0)

\* What the contract owes out of its balance in a token: that, and the fees not
\* yet withdrawn.
Owed(token) == tokenFees[token] + SumFunction([j \in JobId |-> HeldFor(j, token)])

\* As long as nothing is paid out of the common balance (referral earnings,
\* onboarding bonus) and the oracle fee does not rise, the contract owns
\* enough of every token for everything it owes in it.
Solvent == \A t \in Tokens : balance[t] >= Owed(t)

\* Half a percent of the best approved job of a client, and those who earn it:
\* the referrers of the clients that have been rewarded.
BestShare(c) ==
  Max({0} \cup {BpsOf(jobs[j].amount, REFERRAL_BPS) : j \in {k \in attested : jobs[k].client = c}})

BroughtBy(u) == {c \in incentives.rewarded : incentives.link[c] = u}

\* A referrer is credited once for each client he brought, half a percent of
\* one approved job of that client, however many jobs the client completes
\* and in whatever order clients register, post and are paid.
ReferralCreditedOnce ==
  \A u \in Users :
    /\ incentives.earnings[u] <= SumFunction([c \in BroughtBy(u) |-> BestShare(c)])
    /\ incentives.link[u] # u

\* The deposit of a resolved dispute is handed out in full.
ReturnsDeposit ==
  \A j \in JobId :
    raiser[j] # NoOne /\ raiser'[j] = NoOne =>
      depositPaid'[j].raiser + depositPaid'[j].other + depositPaid'[j].admin = deposit[j]

DepositReturned == [][ReturnsDeposit]_vars

-----------------------------------------------------------------------------
(***************************************************************************)
(* The life of a job.                                                      *)
(***************************************************************************)

Moves ==
  {<<"Absent", "Open">>,
   <<"Open", "InProgress">>, <<"Open", "Cancelled">>,
   <<"InProgress", "SubmittedForReview">>, <<"InProgress", "Disputed">>,
   <<"InProgress", "Cancelled">>,
   <<"SubmittedForReview", "InProgress">>, <<"SubmittedForReview", "Disputed">>,
   <<"SubmittedForReview", "Completed">>, <<"SubmittedForReview", "Cancelled">>,
   <<"Disputed", "Completed">>, <<"Disputed", "Cancelled">>}

\* A job only moves along the documented edges: money is never released from
\* an Open job to a freelancer, a dispute is never withdrawn, a finished job
\* never comes back.
LegalMove ==
  \A j \in JobId :
    jobs'[j].status # jobs[j].status => <<jobs[j].status, jobs'[j].status>> \in Moves

LegalMoves == [][LegalMove]_vars

\* The client, the token and an assigned freelancer never change, the amount
\* only grows and only while no dispute is open, and a finished job keeps
\* its record and its division for ever.
KeepsItsTerms(j) ==
  /\ jobs'[j].client = jobs[j].client
  /\ jobs'[j].token = jobs[j].token
  /\ jobs[j].freelancer # NoOne => jobs'[j].freelancer = jobs[j].freelancer
  /\ jobs'[j].amount >= jobs[j].amount
  /\ jobs[j].status = "Disputed" => jobs'[j].amount = jobs[j].amount
  /\ IsTerminal(jobs[j]) => jobs'[j] = jobs[j] /\ paid'[j] = paid[j]

TermsKept == \A j \in Posted : KeepsItsTerms(j)

TermsAreFixed == [][TermsKept]_vars

-----------------------------------------------------------------------------
(***************************************************************************)
(* Counters and limits.                                                    *)
(***************************************************************************)

\* The stored counters of every user, moved by differences on each status
\* change, count the jobs they stand for, with a user being client of some
\* jobs and freelancer of others.  While the limits stay what they are, posting
\* and accepting in any order never gives a user more active jobs than allowed.
CountersMatchJobs ==
  \A u \in Users :
    /\ userActive[u] = Cardinality(ActiveJobsOf(u))
    /\ userCompleted[u] =
         Cardinality({j \in JobId : jobs[j].status = "Completed" /\ PartyOf(u, jobs[j])})
    /\ policy.maxJobsPerUser # 0 => Cardinality(ActiveJobsOf(u)) <= policy.maxJobsPerUser
    /\ policy.maxJobsPerClient # 0 => Cardinality(ActiveJobsBy(u)) <= policy.maxJobsPerClient

\* Whatever call a user joins a job by - one of the ways to post, or accept -
\* access, limits and reputation are those of that moment, and nobody becomes
\* the freelancer of a job of his own.
AdmitsJoiner ==
  \A j \in JobId, u \in Users :
    PartyOf(u, jobs'[j]) /\ ~PartyOf(u, jobs[j]) =>
      /\ u \notin policy.blacklisted
      /\ policy.whitelistMode => u \in policy.whitelisted
      /\ policy.maxJobsPerUser # 0 => Cardinality(ActiveJobsOf(u)) < policy.maxJobsPerUser
      /\ \/ u = jobs'[j].client /\ u # jobs'[j].freelancer
         \/ reputation.ratings[u].sum >= policy.minRating * reputation.ratings[u].count
         \/ policy.exemptVerified /\ u \in reputation.verified

OnlyAdmittedJoin == [][AdmitsJoiner]_vars

-----------------------------------------------------------------------------
(***************************************************************************)
(* Approval, hold and access.                                              *)
(***************************************************************************)

\* A payment that needs approvers is released only with as many recorded
\* approvals as are required at that moment, although threshold, quorum and
\* approvers may change between the calls that collect them.
ApprovedByQuorum ==
  \A j \in JobId :
    jobs[j].status = "SubmittedForReview" /\ jobs'[j].status = "Completed" =>
      \/ ClientAlone(jobs[j])
      \/ Cardinality(approvals'[j]) >= policy.required

QuorumReleases == [][ApprovedByQuorum]_vars

\* An attestation of completed work stands only for jobs whose escrow went to
\* the freelancer by approval, and never for one that has been disputed.
AttestedUndisputed ==
  \A j \in attested :
    /\ jobs[j].status = "Completed"
    /\ paid[j].client = 0
    /\ raiser[j] = NoOne /\ deposit[j] = 0 /\ assigned[j] = NoOne

\* Work under review, once the parties cannot act any more because both are
\* blacklisted, is moved by nobody but registered approvers; an Open job only
\* by a relayer or by a freelancer who takes it.
MovedByOthersOnly ==
  \A j \in Posted :
    /\ jobs'[j] # jobs[j]
    /\ {jobs[j].client, jobs[j].freelancer} \subseteq policy.blacklisted \cup {NoOne}
    => \/ jobs[j].status = "Disputed"
       \/ jobs[j].status = "Open" /\ jobs'[j].status = "InProgress"
       \/ jobs[j].status = "Open" /\ policy.forwarders # {}
       \/ jobs[j].status = "SubmittedForReview" /\ ~ClientAlone(jobs[j])

FrozenWithParties == [][MovedByOthersOnly]_vars

\* A job on hold does not advance: it gets no freelancer, no submission, no
\* rejection, no top-up, no payment by approval.  Only cancellation and
\* dispute calls, which do not look at the hold, still move it.
HeldStays(j) ==
  /\ jobs'[j].amount = jobs[j].amount
  /\ jobs'[j].freelancer = jobs[j].freelancer
  /\ jobs'[j].revisions = jobs[j].revisions
  /\ jobs'[j].status \notin {jobs[j].status, "Disputed", "Cancelled"} =>
       jobs[j].status = "Disputed"
  /\ j \in attested' <=> j \in attested

HoldRespected == \A j \in held : HeldStays(j)

HeldDoesNotAdvance == [][HoldRespected]_vars

-----------------------------------------------------------------------------
\* No active job is ever trapped: while its parties may act there is a call
\* that ends it, or hands it over, right now.  Neither a top-up so large that
\* shares and fees overflow nor fees above the amount take that away; the
\* administrator can always refund a disputed job.
NoEscrowTrapped ==
  \A j \in Posted :
    LET job == jobs[j]
    IN  /\ {job.client, job.freelancer} \cap policy.blacklisted = {}
        /\ policy.whitelistMode => {job.client, job.freelancer} \subseteq policy.whitelisted \cup {NoOne}
        =>
        /\ job.status = "Open" /\ j \notin held => ENABLED CancelJob(job.client, j)
        /\ job.status = "InProgress" => ENABLED FreelancerCancelJob(job.freelancer, j)
        /\ job.status = "SubmittedForReview" =>
             ENABLED MutualCancel(job.client, job.freelancer, j, 0)
        /\ job.status = "Disputed" => ENABLED ResolveDispute(j, BPS_DENOMINATOR)

-----------------------------------------------------------------------------
(***************************************************************************)
(* The contract implements the ledger of funded and divided jobs.          *)
(***************************************************************************)
StageOf(job) == IF job.status = "Absent" THEN "Absent"
                ELSE IF is_active_job_status(job) THEN "Live" ELSE "Settled"

Ledger == INSTANCE EscrowLedger WITH
            Id <- JobId, pot <- escrowBal, shares <- paid,
            stage <- [j \in JobId |-> StageOf(jobs[j])]

\* Every call funds one job, adds to one, divides one in full, or leaves the
\* money of all jobs alone.
ImplementsLedger == Ledger!LedgerSpec
=============================================================================

------------------------------ MODULE Custody ------------------------------
(***************************************************************************)
(* The ledger state of the escrow contract and the storage helpers every   *)
(* entry point is built from.  A contract call is one atomic transaction:  *)
(* a panic anywhere in it rolls all of it back, so a call that panics is a *)
(* call that is not enabled, and the concurrency of the system is the      *)
(* order in which the calls of clients, freelancers, approvers, oracles,   *)
(* relayers and the administrator reach the ledger while time passes.      *)
(*                                                                         *)
(* A storage key that does not exist reads as a default (unwrap_or), so a  *)
(* per-job key is a total function on JobId that holds that default.       *)
(***************************************************************************)
EXTENDS SorobanEnv, FeeMath, FiniteSets, Sequences

CONSTANTS Oracles,  \* addresses the administrator may register as oracles
          Tokens,   \* token contracts
          Native,   \* the token dispute deposits and oracle fees are paid in
          MaxJobs,  \* bound: jobs posted in a behaviour
          MaxTime   \* bound: ledger timestamps

ASSUME CustodyAssumption ==
  /\ Native \in Tokens
  /\ NoOne \notin Users \cup Oracles
  /\ MaxJobs \in Nat
  /\ MaxTime \in Nat

VARIABLES
  jobsCount,      \* JobsCount
  jobs,           \* Job(id); status "Absent" when the key is not there
  userActive,     \* UserActiveJobs(user)
  userCompleted,  \* UserCompletedJobs(user)
  escrowBal,      \* JobEscrowBalance(id)
  totalEscrow,    \* TotalEscrowBalance
  tokenActive,    \* TokenActiveEscrow(token)
  tokenFees,      \* TokenFees(token)
  burnPool,       \* BurnPool, one pool whatever the token
  totalBurned,    \* TotalBurned
  balance,        \* what the contract owns in each token contract
  paid,           \* history: how each job's escrow was divided so far
  held,           \* ids with the JobHeld flag
  lateFee,        \* JobLateFee(id)
  approvals,      \* approvers with a JobApproval(id, approver) record
  attested,       \* ids with an Attestation record
  raiser,         \* DisputeRaiser(id)
  deposit,        \* DisputeFeePaid(id)
  depositPaid,    \* history: who got the deposit of a resolved dispute
  assigned,       \* OracleAssignment(id)
  oracleList,     \* OracleList, registered oracles in registration order
  fees,           \* fee and oracle settings
  policy,         \* access, limits, approvals and pause settings
  incentives,     \* referral codes, links and earnings; onboarding bonus
  reputation      \* ratings and verification of freelancers

jobVars     == <<jobsCount, jobs, userActive, userCompleted>>
escrowVars  == <<escrowBal, totalEscrow, tokenActive>>
moneyVars   == <<tokenFees, burnPool, totalBurned, balance, paid>>
noteVars    == <<held, lateFee, approvals, attested>>
disputeVars == <<raiser, deposit, depositPaid, assigned>>
settingVars == <<oracleList, fees, policy>>
peopleVars  == <<incentives, reputation>>

vars == <<now, jobVars, escrowVars, moneyVars, noteVars, disputeVars,
          settingVars, peopleVars>>

-----------------------------------------------------------------------------
JobId == 1 .. MaxJobs

MAX_REVISIONS == 3

ActiveStatus   == {"Open", "InProgress", "SubmittedForReview", "Disputed"}
TerminalStatus == {"Completed", "Cancelled"}
JobStatus      == ActiveStatus \cup TerminalStatus

Job == [client     : Users \cup {NoOne},
        freelancer : Users \cup {NoOne},
        amount     : Nat,
        token      : Tokens,
        status     : JobStatus \cup {"Absent"},
        deadline   : Nat,
        revisions  : 0 .. MAX_REVISIONS]

NoJob == [client |-> NoOne, freelancer |-> NoOne, amount |-> 0,
          token |-> Native, status |-> "Absent", deadline |-> 0, revisions |-> 0]

is_active_job_status(job) == job.status \in ActiveStatus
IsTerminal(job)           == job.status \in TerminalStatus

\* `user` is a party of `job`.
PartyOf(user, job) == user \in {job.client, job.freelancer}

-----------------------------------------------------------------------------
(***************************************************************************)
(* Guards shared by the entry points.                                      *)
(***************************************************************************)
Fault_require_active_access_whitelist_only(user) ==
  policy.whitelistMode => user \in policy.whitelisted \ policy.blacklisted

require_active_access(user) ==
  /\ user \notin policy.blacklisted
  /\ policy.whitelistMode => user \in policy.whitelisted

require_job_not_held(j) == j \notin held

\* A limit of 0 switches the check off.
ActiveJobsOf(user)   == {j \in JobId : is_active_job_status(jobs[j]) /\ PartyOf(user, jobs[j])}
ActiveJobsBy(client) == {j \in JobId : is_active_job_status(jobs[j]) /\ jobs[j].client = client}

enforce_user_active_job_limit(user) ==
  policy.maxJobsPerUser = 0 \/ Cardinality(ActiveJobsOf(user)) < policy.maxJobsPerUser

enforce_client_active_job_limit(client) ==
  policy.maxJobsPerClient = 0 \/ Cardinality(ActiveJobsBy(client)) < policy.maxJobsPerClient

-----------------------------------------------------------------------------
(***************************************************************************)
(* Storage helpers.                                                        *)
(***************************************************************************)
CounterStep(was, is) == IF is /\ ~was THEN 1 ELSE IF was /\ ~is THEN -1 ELSE 0

\* u32 saturating_add(1) / saturating_sub(1).
Saturating(counter, step) == IF counter + step < 0 THEN 0 ELSE counter + step

\* A freelancer who was not on the stored job was neither active nor done.
Fault_SameFreelancer_always(old, job) == TRUE

SameFreelancer(old, job) == old.freelancer = job.freelancer

(***************************************************************************)
(* set_job stores the record and, from the difference with the stored one, *)
(* moves the counters of the client and of the freelancer.                 *)
(***************************************************************************)
set_job(j, job) ==
  LET old     == jobs[j]
      kept    == SameFreelancer(old, job)
      active  == is_active_job_status(job)
      done    == job.status = "Completed"
      oldDone == old.status = "Completed"
      Step(user, client, freelancer) ==
        IF user = job.client THEN client
        ELSE IF user = job.freelancer THEN freelancer ELSE 0
  IN  /\ jobs' = [jobs EXCEPT ![j] = job]
      /\ userActive' = [u \in Users |-> Saturating(userActive[u],
           Step(u, CounterStep(is_active_job_status(old), active),
                   CounterStep(kept /\ is_active_job_status(old), active)))]
      /\ userCompleted' = [u \in Users |-> userCompleted[u] +
           (IF done THEN Step(u, CounterStep(oldDone, done), CounterStep(kept /\ oldDone, done))
            ELSE 0)]

\* The token is the one of the job record that is stored at that point.
Fault_set_escrow_balance_ignores_zero(j, token, amount) ==
  /\ escrowBal' = IF amount = 0 THEN escrowBal ELSE [escrowBal EXCEPT ![j] = amount]
  /\ UNCHANGED <<totalEscrow, tokenActive>>

Fault_set_escrow_balance_adds_to_total(j, token, amount) ==
  /\ escrowBal' = [escrowBal EXCEPT ![j] = amount]
  /\ totalEscrow' = totalEscrow + amount
  /\ tokenActive' = [tokenActive EXCEPT ![token] =
                       Saturating(@, CounterStep(escrowBal[j] > 0, amount > 0))]

set_escrow_balance(j, token, amount) ==
  LET old == escrowBal[j]
  IN  /\ escrowBal' = [escrowBal EXCEPT ![j] = amount]
      /\ totalEscrow' = totalEscrow - old + amount
      /\ tokenActive' = [tokenActive EXCEPT ![token] =
                           Saturating(@, CounterStep(old > 0, amount > 0))]

\* Token transfers into and out of the contract.  The token contract rejects
\* a transfer out that the contract's balance does not cover.
In(token, amount) == balance' = [balance EXCEPT ![token] = @ + amount]

PayOut(out) ==
  /\ \A t \in Tokens : out[t] <= balance[t]
  /\ balance' = [t \in Tokens |-> balance[t] - out[t]]

Only(token, amount) == [t \in Tokens |-> IF t = token THEN amount ELSE 0]

(***************************************************************************)
(* The end of a job, common to every path: the record becomes terminal,    *)
(* the escrow balance becomes 0, fees and burn are booked, both parties    *)
(* are paid, and `extra` native tokens leave in the same call (a deposit   *)
(* handed back, an oracle paid).  A negative payout makes the token        *)
(* transfer, and so the call, fail.                                        *)
(***************************************************************************)
Settle(j, status, split, extra) ==
  LET job == jobs[j]
  IN  /\ split.freelancer >= 0
      /\ PayOut([t \in Tokens |->
            Only(job.token, split.client + split.freelancer)[t] + Only(Native, extra)[t]])
      /\ set_job(j, [job EXCEPT !.status = status])
      /\ jobsCount' = jobsCount
      /\ set_escrow_balance(j, job.token, 0)
      /\ tokenFees' = [tokenFees EXCEPT ![job.token] = @ + split.accrued]
      /\ burnPool' = burnPool + split.burned
      /\ paid' = [paid EXCEPT ![j] = AddSplit(@, split)]
      /\ UNCHANGED totalBurned
=============================================================================

------------------------------ MODULE Recovery ------------------------------
(***************************************************************************)
(* Emergency recovery of the escrow of a job that is stuck: proposed by    *)
(* the administrator, approved by signers, executed by anybody once the    *)
(* timelock is over, while the job may have moved on in between.           *)
(***************************************************************************)
EXTENDS Records

CONSTANTS RECOVERY_TIMELOCK,       \* between proposal and execution
          MAX_RECOVERY_PROPOSALS,  \* proposals the contract takes in its life
          DefaultStuckThreshold    \* age at which a job counts as stuck

ASSUME RecoveryAssumption ==
  /\ RECOVERY_TIMELOCK \in Nat
  /\ MAX_RECOVERY_PROPOSALS \in Nat
  /\ DefaultStuckThreshold \in Nat

VARIABLES
  proposals,       \* RecoveryProposal(id), with the signers who approved it
  signers,         \* RecoverySigner(address)
  signersNeeded,   \* RecoverySignerThreshold
  stuckThreshold   \* StuckThreshold

recoveryVars == <<proposals, signers, signersNeeded, stuckThreshold>>

Proposal == [job : JobId, after : Nat, executed : BOOLEAN, approvedBy : SUBSET Users]

RecoveryInit ==
  /\ proposals = <<>>
  /\ signers = {}
  /\ signersNeeded = 0
  /\ stuckThreshold = DefaultStuckThreshold

-----------------------------------------------------------------------------
set_stuck_threshold(age) ==
  /\ stuckThreshold' = age
  /\ UNCHANGED <<vars, recordVars, proposals, signers, signersNeeded>>

set_recovery_signer(user, is_signer) ==
  /\ signers' = IF is_signer THEN signers \cup {user} ELSE signers \ {user}
  /\ UNCHANGED <<vars, recordVars, proposals, signersNeeded, stuckThreshold>>

set_recovery_signer_threshold(n) ==
  /\ signersNeeded' = n
  /\ UNCHANGED <<vars, recordVars, proposals, signers, stuckThreshold>>

\* The age of a job counts from its posting, whatever happened to it since.
is_job_stuck(j) ==
  /\ ~IsTerminal(jobs[j])
  /\ now > createdAt[j]
  /\ now - createdAt[j] >= stuckThreshold

propose_recovery(j) ==
  /\ j \in Posted \ archived
  /\ is_job_stuck(j)
  /\ Len(proposals) < MAX_RECOVERY_PROPOSALS
  /\ proposals' = Append(proposals, [job |-> j, after |-> now + RECOVERY_TIMELOCK,
                                     executed |-> FALSE, approvedBy |-> {}])
  /\ UNCHANGED <<vars, recordVars, signers, signersNeeded, stuckThreshold>>

\* The count of approvals and the record of each signer change together; both
\* outlast the removal of the signer.
approve_recovery(signer, p) ==
  /\ signer \in signers
  /\ ~proposals[p].executed
  /\ signer \notin proposals[p].approvedBy
  /\ proposals' = [proposals EXCEPT ![p].approvedBy = @ \cup {signer}]
  /\ UNCHANGED <<vars, recordVars, signers, signersNeeded, stuckThreshold>>

Approved(p) ==
  signersNeeded > 0 => Cardinality(proposals[p].approvedBy) >= signersNeeded

\* Whether the job is still stuck is not asked again, only whether it has
\* ended; deposit, hold and late fee stay as they are.
Fault_Recoverable_once_proposed(j) == j \in Posted \ archived

Recoverable(j) == j \in Posted \ archived /\ ~IsTerminal(jobs[j])

execute_recovery(p) ==
  /\ ~proposals[p].executed
  /\ now >= proposals[p].after
  /\ Approved(p)
  /\ Recoverable(proposals[p].job)
  /\ Refund(proposals[p].job)
  /\ Stamped
  /\ proposals' = [proposals EXCEPT ![p].executed = TRUE]
  /\ UNCHANGED <<archiveVars, nonceVars, signers, signersNeeded, stuckThreshold>>

RecoveryTypeOK ==
  /\ proposals \in Seq(Proposal)
  /\ signers \subseteq Users
  /\ signersNeeded \in Nat
  /\ stuckThreshold \in Nat
=============================================================================

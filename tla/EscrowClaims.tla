---------------------------- MODULE EscrowClaims ----------------------------
(***************************************************************************)
(* Statements that the repository makes about the escrow contract and that *)
(* the contract does not keep.  Each is checked by a run that must find a  *)
(* behaviour violating it.                                                 *)
(***************************************************************************)
EXTENDS EscrowProperties

\* bonus_test.rs: cancelling a job gives back the amount and the bonus.  When
\* every job posted has been cancelled, nothing is left in the contract.  The
\* bonus is transferred by post_job_with_categories but stored as 0.
CancelReturnsBonus ==
  (Posted # {} /\ \A j \in Posted : jobs[j].status = "Cancelled")
    => \A t \in Tokens : balance[t] = 0

\* require_job_not_held: "held jobs are completely frozen".  Cancellation by
\* the freelancer, by a relayer or by agreement, deadline enforcement and
\* disputes do not look at the hold.
HeldIsFrozen == [][\A j \in held : jobs'[j] = jobs[j]]_vars

\* TOKENOMICS.md: the late fee of a job is 0 if it is delivered on time.  The
\* fee recorded by a late submission survives a rejection, an extension of
\* the deadline and a submission that meets the new deadline.
OnTimeIsFree ==
  [][\A j \in Posted :
       /\ jobs[j].status = "InProgress"
       /\ jobs'[j].status = "SubmittedForReview"
       /\ jobs[j].deadline = 0 \/ now <= jobs[j].deadline
       => lateFee'[j] = 0]_vars

\* contract-upgrade-runbook.md: the contract owns at least the sum of all
\* escrowed amounts.  Whatever is paid out of the common balance without
\* having been set aside - referral earnings in the run, but also an
\* onboarding bonus, or an oracle fee raised after the deposit was collected -
\* comes out of the escrows.
EscrowBacked ==
  \A t \in Tokens :
    balance[t] >= SumFunction([j \in JobId |-> IF jobs[j].token = t THEN escrowBal[j] ELSE 0])
=============================================================================

------------------------------ MODULE Disputes ------------------------------
(***************************************************************************)
(* Disputes: a party deposits a fee and freezes the job, and the           *)
(* administrator or the oracle that was assigned when it was raised ends   *)
(* it.                                                                     *)
(***************************************************************************)
EXTENDS Custody

(***************************************************************************)
(* The deposit, and the oracle fee when an oracle gets assigned, come from *)
(* the raiser in native tokens.  The first registered oracle takes every   *)
(* dispute: an entry of the list is always active, since nothing ever sets *)
(* is_active to false.                                                     *)
(***************************************************************************)
RaiseDispute(user, j) ==
  LET job    == jobs[j]
      oracle == fees.oracleEnabled /\ oracleList # <<>>
  IN  /\ "Disputes" \notin policy.paused
      /\ job.status \in {"InProgress", "SubmittedForReview"}
      /\ require_active_access(user)
      /\ PartyOf(user, job)
      /\ In(Native, fees.disputeFee + (IF oracle THEN fees.oracleFee ELSE 0))
      /\ raiser' = [raiser EXCEPT ![j] = user]
      /\ deposit' = [deposit EXCEPT ![j] = fees.disputeFee]
      /\ assigned' = IF oracle THEN [assigned EXCEPT ![j] = Head(oracleList)] ELSE assigned
      /\ set_job(j, [job EXCEPT !.status = "Disputed"])
      /\ UNCHANGED <<now, jobsCount, escrowVars, tokenFees, burnPool, totalBurned,
                     paid, depositPaid, noteVars, settingVars, peopleVars>>

-----------------------------------------------------------------------------
\* A split decided by the administrator charges the base fee rate, not the
\* tiered one, and looks at neither exemptions, late fee nor burn.
AdminSplit(j, clientBps) ==
  LET amount == jobs[j].amount
  IN  /\ clientBps \in Bps
      /\ MulFits(amount, clientBps)
      /\ MulFits(amount - BpsOf(amount, clientBps), fees.feeBps)

\* The raiser wins, and gets the deposit back, with a share above one half;
\* otherwise the other party gets half of it and the administrator the rest.
Fault_DepositShares_two_halves(j, clientBps) ==
  LET wins == IF raiser[j] = jobs[j].client THEN clientBps > 5000 ELSE clientBps < 5000
      half == deposit[j] \div 2
  IN  IF wins THEN [raiser |-> deposit[j], other |-> 0, admin |-> 0]
      ELSE [raiser |-> 0, other |-> half, admin |-> half]

DepositShares(j, clientBps) ==
  LET wins == IF raiser[j] = jobs[j].client THEN clientBps > 5000 ELSE clientBps < 5000
      half == deposit[j] \div 2
  IN  IF wins THEN [raiser |-> deposit[j], other |-> 0, admin |-> 0]
      ELSE [raiser |-> 0, other |-> half, admin |-> deposit[j] - half]

\* resolve_single_dispute, once per job also for a batch.
ResolveDispute(j, clientBps) ==
  LET amount == jobs[j].amount
  IN  /\ jobs[j].status = "Disputed"
      /\ jobs[j].freelancer # NoOne
      /\ \/ /\ clientBps = BPS_DENOMINATOR
            /\ Settle(j, "Cancelled", RefundSplit(amount), deposit[j])
         \/ /\ clientBps # BPS_DENOMINATOR
            /\ AdminSplit(j, clientBps)
            /\ Settle(j, "Completed", DisputeSplit(amount, clientBps, fees.feeBps), deposit[j])
      /\ depositPaid' = [depositPaid EXCEPT ![j] = DepositShares(j, clientBps)]
      /\ deposit' = [deposit EXCEPT ![j] = 0]
      /\ raiser' = [raiser EXCEPT ![j] = NoOne]
      /\ UNCHANGED <<now, assigned, noteVars, settingVars, peopleVars>>

\* Any share from 0 to 10000 is accepted, the job always ends Completed, and
\* the deposit and the raiser stay on record.
ResolveDisputeSplit(j, clientBps) ==
  /\ jobs[j].status = "Disputed"
  /\ jobs[j].freelancer # NoOne
  /\ AdminSplit(j, clientBps)
  /\ Settle(j, "Completed", DisputeSplit(jobs[j].amount, clientBps, fees.feeBps), 0)
  /\ UNCHANGED <<now, disputeVars, noteVars, settingVars, peopleVars>>

\* The oracle is paid the fee of the moment, which need not be the one that
\* was collected; the deposit and the raiser stay on record.
SubmitVerdict(oracle, j, clientWins) ==
  LET amount == jobs[j].amount
      rate   == calculate_fee_for_amount(amount, fees.feeBps, fees.tiers)
  IN  /\ \E i \in DOMAIN oracleList : oracleList[i] = oracle
      /\ assigned[j] = oracle
      /\ jobs[j].status = "Disputed"
      /\ jobs[j].freelancer # NoOne
      /\ \/ /\ clientWins
            /\ Settle(j, "Cancelled", RefundSplit(amount), fees.oracleFee)
         \/ /\ ~clientWins
            /\ MulFits(amount, rate)
            /\ Settle(j, "Completed", VerdictSplit(amount, rate), fees.oracleFee)
      /\ assigned' = [assigned EXCEPT ![j] = NoOne]
      /\ UNCHANGED <<now, raiser, deposit, depositPaid, noteVars, settingVars, peopleVars>>
=============================================================================

----------------------------- MODULE MCContracts -----------------------------
(***************************************************************************)
(* The instance of both contracts for TLC.  What the calls of one concern  *)
(* write no call of another reads, but for the jobs; so a behaviour of the *)
(* instance is about one concern, and the runs explore all of them.        *)
(***************************************************************************)
EXTENDS MCEscrow, Contracts

VARIABLE concern

Concerns == {"incentives", "records", "recovery", "administration", "retainers"}

\* What the life of a job leaves alone in every concern but the first.
Plain == <<settingVars, peopleVars, totalBurned, held>>

Concerned ==
  \/ /\ concern = "incentives"
     /\ UNCHANGED <<now, disputeVars, archiveVars, nonceVars, recoveryVars, governed, agreements>>
  \/ /\ concern = "records"      \* jobs end by cancellation
     /\ \A j \in JobId : jobs'[j].freelancer = NoOne
     /\ UNCHANGED <<Plain, disputeVars, tokenFees, recoveryVars, governed, agreements>>
  \/ /\ concern = "recovery"     \* of one job, while another may lie open
     /\ jobs'[2].status \in {"Absent", "Open"} /\ jobs'[2].client # bob
     /\ createdAt'[2] = 0 /\ \A p \in DOMAIN proposals' : proposals'[p].job = 1
     /\ UNCHANGED <<Plain, archiveVars, nonceVars, governed, agreements>>
  \/ /\ concern = "administration"
     /\ UNCHANGED <<jobVars, Plain, moneyVars, recoveryVars, archiveVars, agreements>>
  \/ /\ concern = "retainers"
     /\ UNCHANGED <<jobVars, Plain, moneyVars, recoveryVars, archiveVars, governed>>

\* Only the administration itself minds who the administrator is.
MCInit ==
  /\ ContractsInit
  /\ concern \in Concerns
  /\ concern # "administration" => admin = ann

MCNext == ContractsNext /\ Concerned /\ UNCHANGED concern

MCSpec == MCInit /\ [][MCNext]_<<contractVars, concern>>

-----------------------------------------------------------------------------
ContractInputs == [IncentiveInputs EXCEPT !.referrers = {ann}, !.disputed = {ann}]

MCUpkeepInputs ==
  [cutoffs |-> {1, 9}, stuckThresholds |-> {2}, signers |-> {ann, bob}, signersNeeded |-> {2}]

CONSTANTS code1, code2     \* hashes of contract code

MCRateLimits ==
  {[max_calls |-> 0, window_seconds |-> 0], [max_calls |-> 1, window_seconds |-> 2],
   [max_calls |-> 1, window_seconds |-> 0]}
=============================================================================

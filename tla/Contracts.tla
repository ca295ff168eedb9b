------------------------------ MODULE Contracts ------------------------------
(***************************************************************************)
(* Both contracts on one ledger and its clock: the escrow contract with    *)
(* its records, its emergency recovery and its administration, and the     *)
(* retainer contract beside it.                                            *)
(***************************************************************************)
EXTENDS Recovery, Governance, Retainer

CONSTANT UpkeepInputs   \* what callers of the calls below choose from

ASSUME ContractsAssumption ==
  UpkeepInputs \in [cutoffs : SUBSET Nat, stuckThresholds : SUBSET Nat,
                    signers : SUBSET Users, signersNeeded : SUBSET Nat]

governed   == <<admin, pendingAdmin, nominator, pendingWasm, deadline, code, announced>>
agreements == <<retainers, rateLimit, window, trusted, crossJobs>>

contractVars == <<vars, recordVars, recoveryVars, governed, agreements>>

ContractsInit ==
  /\ Init
  /\ RecordsInit
  /\ RecoveryInit
  /\ GovernanceInit
  /\ RetainerInit

RecordsCall ==
  \/ \E u \in Users, a \in Inputs.amounts, d \in Inputs.deadlines, t \in Tokens, n \in Nonces :
       PostJobWithNonce(u, a, d, t, n)
  \/ \E c \in UpkeepInputs.cutoffs : ArchiveOldJobs(c)
  \/ \E j \in JobId : UnarchiveJob(j)

RecoveryCall ==
  \/ \E t \in UpkeepInputs.stuckThresholds : set_stuck_threshold(t)
  \/ \E u \in UpkeepInputs.signers, b \in BOOLEAN : set_recovery_signer(u, b)
  \/ \E n \in UpkeepInputs.signersNeeded : set_recovery_signer_threshold(n)
  \/ \E j \in JobId : propose_recovery(j)
  \/ \E p \in DOMAIN proposals :
       execute_recovery(p) \/ \E u \in Users : approve_recovery(u, p)

EscrowContract ==
  \/ (EscrowCall \/ RecordsCall) /\ UNCHANGED <<recoveryVars, governed>>
  \/ RecoveryCall /\ UNCHANGED governed
  \/ GovernanceCall /\ UNCHANGED <<vars, recordVars, recoveryVars>>

ContractsNext ==
  \/ EscrowContract /\ UNCHANGED agreements
  \/ RetainerCall /\ UNCHANGED <<vars, recordVars, recoveryVars, governed>>

ContractsSpec == ContractsInit /\ [][ContractsNext]_contractVars

ContractsTypeOK ==
  /\ TypeOK
  /\ RecordsTypeOK
  /\ RecoveryTypeOK
  /\ GovernanceTypeOK
=============================================================================

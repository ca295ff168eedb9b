--------------------------- MODULE ContractsProofs ---------------------------
(***************************************************************************)
(* What is proved of the escrow contract alone holds of it with its        *)
(* archive, its nonces, its emergency recovery and its administration, and *)
(* beside the retainer contract: none of them opens another way for the    *)
(* money of a job.  And on the common clock administration and retainer    *)
(* behave as each does alone: no nomination outlives the administrator who *)
(* made it, no code runs before its timelock is over, and agreements are   *)
(* renewed no faster and no more often than agreed, for every timelock,    *)
(* interval and limit and however time passes.                             *)
(***************************************************************************)
EXTENDS SolvencyProofs, Contracts, ListProofs

Quiet == UNCHANGED vars

LEMMA QuietStep ==
  ASSUME TypeOK, Quiet  PROVE TypeOK' /\ MoneyStep
BY TypeNext, EveryStepIsMoneyStep DEF Quiet

\* Recovery refunds a job that may be under review or disputed by now.
LEMMA RecoveryRefunds ==
  ASSUME TypeOK, NEW p, execute_recovery(p)  PROVE TypeOK' /\ MoneyStep
<1> DEFINE j == proposals[p].job
<1>1. j \in JobId /\ Refund(j) /\ jobs[j].status # "Absent" /\ ~IsTerminal(jobs[j])
  BY DEF execute_recovery, Recoverable, Posted
<1> HIDE DEF j
<1>2. is_active_job_status(jobs[j])
  BY <1>1 DEF TypeOK, JobTypeOK, Job, JobStatus, is_active_job_status, IsTerminal,
     ActiveStatus, TerminalStatus
<1> QED
  BY <1>1, <1>2, RefundCallType, RefundCloses

LEMMA NoncePosts ==
  ASSUME TypeOK, NEW u \in Users, NEW a \in Inputs.amounts, NEW d \in Inputs.deadlines,
         NEW t \in Tokens, NEW n \in Nonces, PostJobWithNonce(u, a, d, t, n)
  PROVE  TypeOK' /\ MoneyStep
<1>1. a \in Nat /\ d \in Nat /\ 0 \in Nat
  BY InputsTyped
<1>2. PostJobWithCategories(u, a, 0, d, t) /\ CreateJob(u, a, 0, d, t)
  BY DEF PostJobWithNonce, PostJobWithCategories
<1> QED
  BY <1>1, <1>2, PostType, CreateOpens

LEMMA ContractStep ==
  ASSUME TypeOK, [ContractsNext]_contractVars  PROVE TypeOK' /\ MoneyStep
<1>1. CASE EscrowCall
  BY <1>1, TypeNext, EveryStepIsMoneyStep DEF EscrowCall
<1>2. CASE RecordsCall
  <2>1. CASE \E c \in UpkeepInputs.cutoffs : ArchiveOldJobs(c)
    BY <2>1, QuietStep DEF ArchiveOldJobs, Quiet
  <2>2. CASE \E j \in JobId : UnarchiveJob(j)
    BY <2>2, QuietStep DEF UnarchiveJob, Quiet
  <2> QED
    BY <1>2, <2>1, <2>2, NoncePosts DEF RecordsCall
<1>3. CASE RecoveryCall
  <2>1. CASE \E p \in DOMAIN proposals : execute_recovery(p)
    BY <2>1, RecoveryRefunds
  <2>2. CASE Quiet
    BY <2>2, QuietStep
  <2> QED
    BY <1>3, <2>1, <2>2 DEF RecoveryCall, Quiet, set_stuck_threshold, set_recovery_signer,
       set_recovery_signer_threshold, propose_recovery, approve_recovery
<1>4. CASE Quiet
  BY <1>4, QuietStep
<1> QED
  BY <1>1, <1>2, <1>3, <1>4 DEF ContractsNext, EscrowContract, Quiet, contractVars

-----------------------------------------------------------------------------
LEMMA ContractsStart == ContractsInit => TypeOK /\ CancelInv
BY TypeInit, MoneyInit DEF ContractsInit

LEMMA ContractsKeep ==
  TypeOK /\ CancelInv /\ [ContractsNext]_contractVars => TypeOK' /\ CancelInv'
BY ContractStep, MoneyNext

\* The escrow of every job, and its division, stay right with recovery,
\* archive and nonces at work: execute_recovery pays a job out at most once,
\* whatever else ended it between proposal and execution.
THEOREM ContractsMoneySafe ==
  ContractsSpec => [](TypeOK /\ EscrowMatchesStatus /\ SettledInFull /\ CancelledFreeOfFees)
<1>1. CancelInv => EscrowMatchesStatus /\ SettledInFull /\ CancelledFreeOfFees
  BY DEF CancelInv, MoneyInv
<1> QED
  BY <1>1, ContractsStart, ContractsKeep, PTL DEF ContractsSpec

\* No call of either contract moves a job off the edges of its life cycle or
\* changes its terms.
THEOREM ContractsKeepLives == ContractsSpec => LegalMoves /\ TermsAreFixed
<1>1. TypeOK /\ CancelInv /\ [ContractsNext]_contractVars => [LegalMove]_vars /\ [TermsKept]_vars
  BY ContractStep, MoneyStepLegal, MoneyStepKeepsTerms
<1> QED
  BY <1>1, ContractsStart, ContractsKeep, PTL DEF ContractsSpec, LegalMoves, TermsAreFixed

\* Every call of either contract funds one job, adds to one, divides one in
\* full and once, or leaves the money of all jobs alone: the ledger that the
\* escrow contract implements alone is implemented by the two contracts.
THEOREM ContractsImplementLedger == ContractsSpec => ImplementsLedger
<1>1. ContractsInit => Ledger!LedgerInit
  BY LedgerStarts DEF ContractsInit
<1>2. TypeOK /\ CancelInv /\ [ContractsNext]_contractVars
        => [Ledger!LedgerNext]_(Ledger!ledgerVars)
  BY ContractStep, LedgerSteps
<1> QED
  BY <1>1, <1>2, ContractsStart, ContractsKeep, PTL DEF ContractsSpec, ImplementsLedger,
     Ledger!LedgerSpec
-----------------------------------------------------------------------------
(***************************************************************************)
(* The books.                                                              *)
(***************************************************************************)
LEMMA QuietBooks ==
  ASSUME TypeOK, EscrowMatchesStatus, Quiet  PROVE BookStep /\ CreditStep
BY EveryStepIsBooked, EveryStepCredits DEF Quiet

LEMMA RecoveryBooks ==
  ASSUME TypeOK, NEW p, execute_recovery(p)  PROVE BookStep /\ CreditStep
<1> DEFINE j == proposals[p].job
<1>1. j \in JobId /\ Refund(j) /\ jobs[j].status # "Absent" /\ ~IsTerminal(jobs[j])
  BY DEF execute_recovery, Recoverable, Posted
<1> HIDE DEF j
<1>2. is_active_job_status(jobs[j])
  BY <1>1 DEF TypeOK, JobTypeOK, Job, JobStatus, is_active_job_status, IsTerminal,
     ActiveStatus, TerminalStatus
<1>3. UNCHANGED <<incentives, attested>>
  BY <1>1 DEF Refund, noteVars, peopleVars
<1> QED
  BY <1>1, <1>2, <1>3, RefundBooks, SameIncentives

LEMMA NonceBooks ==
  ASSUME TypeOK, EscrowMatchesStatus, NEW u \in Users, NEW a \in Inputs.amounts,
         NEW d \in Inputs.deadlines, NEW t \in Tokens, NEW n \in Nonces,
         PostJobWithNonce(u, a, d, t, n)
  PROVE  BookStep /\ CreditStep
<1>1. a \in Nat /\ d \in Nat /\ 0 \in Nat
  BY InputsTyped
<1>2. CreateJob(u, a, 0, d, t) /\ UNCHANGED incentives
  BY DEF PostJobWithNonce, PostJobWithCategories
<1>3. UNCHANGED attested
  BY <1>2 DEF CreateJob, noteVars
<1> QED
  BY <1>1, <1>2, <1>3, CreateFunds, SameIncentives

LEMMA ContractBooks ==
  ASSUME TypeOK, EscrowMatchesStatus, [ContractsNext]_contractVars  PROVE BookStep /\ CreditStep
<1>1. CASE EscrowCall
  BY <1>1, EveryStepIsBooked, EveryStepCredits DEF EscrowCall
<1>2. CASE RecordsCall
  <2>1. CASE \E c \in UpkeepInputs.cutoffs : ArchiveOldJobs(c)
    BY <2>1, QuietBooks DEF ArchiveOldJobs, Quiet
  <2>2. CASE \E j \in JobId : UnarchiveJob(j)
    BY <2>2, QuietBooks DEF UnarchiveJob, Quiet
  <2> QED
    BY <1>2, <2>1, <2>2, NonceBooks DEF RecordsCall
<1>3. CASE RecoveryCall
  <2>1. CASE \E p \in DOMAIN proposals : execute_recovery(p)
    BY <2>1, RecoveryBooks
  <2>2. CASE Quiet
    BY <2>2, QuietBooks
  <2> QED
    BY <1>3, <2>1, <2>2 DEF RecoveryCall, Quiet, set_stuck_threshold, set_recovery_signer,
       set_recovery_signer_threshold, propose_recovery, approve_recovery
<1>4. CASE Quiet
  BY <1>4, QuietBooks
<1> QED
  BY <1>1, <1>2, <1>3, <1>4 DEF ContractsNext, EscrowContract, Quiet, contractVars

BooksInv == LedgersAgree /\ BurnAccounted /\ ReferralInv

LEMMA BooksHold ==
  /\ ContractsInit => TypeOK /\ CancelInv /\ BooksInv
  /\ TypeOK /\ CancelInv /\ BooksInv /\ [ContractsNext]_contractVars
       => TypeOK' /\ CancelInv' /\ BooksInv'
<1>1. ContractsInit => TypeOK /\ CancelInv /\ BooksInv
  BY ContractsStart, LedgersStart, BurnStarts, ReferralsStart DEF ContractsInit, BooksInv
<1>2. ASSUME TypeOK, CancelInv, BooksInv, [ContractsNext]_contractVars
      PROVE  TypeOK' /\ CancelInv' /\ BooksInv'
  <2>1. TypeOK' /\ CancelInv' /\ TermsKept
    BY <1>2, ContractStep, ContractsKeep, MoneyStepKeepsTerms
  <2>2. BookStep /\ CreditStep
    BY <1>2, ContractBooks DEF CancelInv, MoneyInv
  <2>3. LedgersAgree' /\ BurnAccounted'
    BY <1>2, <2>2, LedgersStep, BurnStep DEF BooksInv
  <2>4. ReferralInv'
    BY <1>2, <2>1, <2>2, ReferralStep DEF BooksInv
  <2> QED
    BY <2>1, <2>3, <2>4 DEF BooksInv
<1> QED
  BY <1>1, <1>2

\* What settlements diverted is in the burn pool or marked as burned, through
\* every way a job can end, recovery included.
THEOREM BurnIsAccounted == ContractsSpec => []BurnAccounted
<1>1. BooksInv => BurnAccounted
  BY DEF BooksInv
<1> QED
  BY <1>1, BooksHold, PTL DEF ContractsSpec

\* A client earns his referrer one credit, worth half a percent of one of his
\* approved jobs, however many jobs he posts, by whichever call, and however
\* often the referrer withdraws.
THEOREM ReferralsPayOnce == ContractsSpec => []ReferralCreditedOnce
<1>1. BooksInv => ReferralCreditedOnce
  BY DEF BooksInv, ReferralInv
<1> QED
  BY <1>1, BooksHold, PTL DEF ContractsSpec

\* Recovery and nonces leave the contract as solvent as it is without them.
THEOREM ContractsStaySolvent ==
  ContractsSpec /\ [][NoPayout]_vars => [](LedgersAgree /\ Solvent)
<1> DEFINE SolvencyInv ==
      TypeOK /\ CancelInv /\ BooksInv /\ AssignedInDispute /\ \A t \in Tokens : Covered(t)
<1>1. ContractsInit => SolvencyInv
  BY BooksHold, CoverStarts DEF ContractsInit
<1>2. SolvencyInv /\ [ContractsNext]_contractVars /\ [NoPayout]_vars => SolvencyInv'
  <2> SUFFICES ASSUME SolvencyInv, [ContractsNext]_contractVars, [NoPayout]_vars PROVE SolvencyInv'
    OBVIOUS
  <2>1. TypeOK' /\ CancelInv' /\ BooksInv'
    BY BooksHold
  <2>2. BookStep
    BY ContractBooks DEF CancelInv, MoneyInv
  <2>3. \A t \in Tokens : NoPayoutIn(t)
    BY NoPayoutInAny, NoPayoutAtRest
  <2> QED
    BY <2>1, <2>2, <2>3, AssignedStep, CoveredStep
<1>3. SolvencyInv => LedgersAgree /\ Solvent
  BY CoverIsSolvent, SolventIsSolventInAll DEF BooksInv
<1> HIDE DEF SolvencyInv
<1> QED
  BY <1>1, <1>2, <1>3, PTL DEF ContractsSpec

-----------------------------------------------------------------------------
(***************************************************************************)
(* Who may move a job.  Recovery is one more way: it does not ask the      *)
(* parties, the hold or the judge, only a proposal that is due.            *)
(***************************************************************************)
Ripe(p) == ~proposals[p].executed /\ now >= proposals[p].after /\ Approved(p)

Recovered(j) ==
  /\ is_active_job_status(jobs[j])
  /\ \E split : Ends(j, "Cancelled", split)
  /\ UNCHANGED <<noteVars, disputeVars>>

Recovers(p) ==
  /\ Ripe(p)
  /\ proposals[p].job \in JobId
  /\ Recovered(proposals[p].job)

GuardedCall == GuardedStep \/ \E p \in DOMAIN proposals : Recovers(p)

LEMMA RecoveryRecovers ==
  ASSUME TypeOK, NEW p, execute_recovery(p)
  PROVE  Recovers(p) /\ \E j \in JobId : Refund(j) /\ is_active_job_status(jobs[j])
<1> DEFINE j == proposals[p].job
<1>1. j \in JobId /\ Refund(j) /\ jobs[j].status # "Absent" /\ ~IsTerminal(jobs[j]) /\ Ripe(p)
  BY DEF execute_recovery, Recoverable, Posted, Ripe
<1> SUFFICES Recovered(j) /\ is_active_job_status(jobs[j])
  BY <1>1 DEF Recovers
<1> HIDE DEF j
<1>2. is_active_job_status(jobs[j])
  BY <1>1 DEF TypeOK, JobTypeOK, Job, JobStatus, is_active_job_status, IsTerminal,
     ActiveStatus, TerminalStatus
<1> QED
  BY <1>1, <1>2, SettleEnds DEF Recovered, Refund

\* What a step of the two contracts is for the jobs: a call of the escrow
\* contract, a posting, a recovery, or nothing.
LEMMA ContractCalls ==
  ASSUME [ContractsNext]_contractVars
  PROVE  \/ Next
         \/ \E u \in Users, a \in Inputs.amounts, d \in Inputs.deadlines, t \in Tokens :
              CreateJob(u, a, 0, d, t)
         \/ \E p \in DOMAIN proposals : execute_recovery(p)
         \/ Quiet
<1>1. CASE RecordsCall
  <2>1. ASSUME NEW u \in Users, NEW a \in Inputs.amounts, NEW d \in Inputs.deadlines,
               NEW t \in Tokens, NEW n \in Nonces, PostJobWithNonce(u, a, d, t, n)
        PROVE  CreateJob(u, a, 0, d, t)
    BY <2>1 DEF PostJobWithNonce, PostJobWithCategories
  <2> QED
    BY <1>1, <2>1 DEF RecordsCall, ArchiveOldJobs, UnarchiveJob, Quiet
<1>2. CASE RecoveryCall
  BY <1>2 DEF RecoveryCall, Quiet, set_stuck_threshold, set_recovery_signer,
     set_recovery_signer_threshold, propose_recovery, approve_recovery
<1> QED
  BY <1>1, <1>2 DEF ContractsNext, EscrowContract, EscrowCall, Quiet, contractVars

LEMMA EveryCallIsGuarded ==
  ASSUME TypeOK, EscrowMatchesStatus, [ContractsNext]_contractVars
  PROVE  GuardedCall /\ \A j \in held' \ held : jobs[j].status # "Absent"
<1>1. ASSUME NEW u \in Users, NEW a \in Inputs.amounts, NEW d \in Inputs.deadlines,
             NEW t \in Tokens, CreateJob(u, a, 0, d, t)
      PROVE  GuardedStep /\ held' = held
  <2>1. a \in Nat /\ d \in Nat
    BY InputsTyped
  <2> QED
    BY <1>1, <2>1, CreatePosts DEF GuardedStep, CreateJob, noteVars
<1>2. ASSUME NEW p \in DOMAIN proposals, execute_recovery(p)
      PROVE  Recovers(p) /\ held' = held
  BY <1>2, RecoveryRecovers DEF Recovers, Recovered, noteVars
<1>3. CASE Next \/ Quiet
  BY <1>3, EveryStepIsGuarded, HeldChange DEF Quiet, GuardedCall
<1> QED
  BY <1>1, <1>2, <1>3, ContractCalls DEF GuardedCall

\* A recovery moves one active job, to its cancellation.
LEMMA RecoveredJobs ==
  ASSUME TypeOK, NEW j \in JobId, Recovered(j), NEW k \in JobId
  PROVE  /\ jobs'[k].client = jobs[k].client /\ jobs'[k].freelancer = jobs[k].freelancer
         /\ jobs'[k].amount = jobs[k].amount /\ jobs'[k].revisions = jobs[k].revisions
         /\ k # j => jobs'[k] = jobs[k] /\ paid'[k] = paid[k]
         /\ k = j => jobs[k].status \in ActiveStatus /\ jobs'[k].status = "Cancelled"
<1>1. PICK split : Ends(j, "Cancelled", split)
  BY DEF Recovered
<1>2. k # j => paid'[k] = paid[k]
  BY <1>1 DEF Ends, TypeOK, MoneyTypeOK
<1> QED
  BY <1>1, <1>2, EndsKeeps DEF Recovered, is_active_job_status

LEMMA CallsRespectGuards ==
  ASSUME TypeOK, HeldArePosted, GuardedCall
  PROVE  ApprovedByQuorum /\ AdmitsJoiner /\ ReturnsDeposit /\ HoldRespected
<1>1. CASE GuardedStep
  BY <1>1, QuorumStep, JoinStep, DepositStep, HoldStep
<1>2. ASSUME NEW j \in JobId, Recovered(j)
      PROVE  ApprovedByQuorum /\ AdmitsJoiner /\ ReturnsDeposit /\ HoldRespected
  <2>1. ApprovedByQuorum
    BY <1>2, RecoveredJobs DEF ApprovedByQuorum
  <2>2. AdmitsJoiner
    BY <1>2, RecoveredJobs DEF AdmitsJoiner, PartyOf
  <2>3. ReturnsDeposit
    BY <1>2 DEF Recovered, disputeVars, ReturnsDeposit
  <2>4. HoldRespected
    BY <1>2, RecoveredJobs DEF HoldRespected, HeldStays, Recovered, noteVars, TypeOK, NoteTypeOK
  <2> QED
    BY <2>1, <2>2, <2>3, <2>4
<1> QED
  BY <1>1, <1>2 DEF GuardedCall, Recovers

LEMMA CallsKeepGuards ==
  ASSUME TypeOK, TypeOK', SettledInFull, GuardInv, GuardedCall,
         \A j \in held' \ held : jobs[j].status # "Absent"
  PROVE  GuardInv'
<1> DEFINE Early == {"Absent", "Open", "InProgress", "SubmittedForReview"}
           Goal(k) ==
             /\ jobs[k].status # "Absent" => jobs'[k].status # "Absent"
             /\ jobs'[k].status \in Early => NoDispute(k)'
             /\ k \in attested' =>
                  jobs'[k].status = "Completed" /\ paid'[k].client = 0 /\ NoDispute(k)'
<1>1. ASSUME GuardedStep, NEW k \in JobId  PROVE Goal(k)
  BY <1>1, GuardStep
<1>2. ASSUME NEW j \in JobId, Recovered(j), NEW k \in JobId  PROVE Goal(k)
  <2>1. /\ jobs[k].status \in Early => NoDispute(k)
        /\ k \in attested => jobs[k].status = "Completed" /\ paid[k].client = 0 /\ NoDispute(k)
    BY DEF GuardInv, UndisputedBefore, AttestedUndisputed, NoDispute
  <2>2. attested' = attested /\ (NoDispute(k)' <=> NoDispute(k))
    BY <1>2 DEF Recovered, noteVars, disputeVars, NoDispute
  <2> QED
    BY <1>2, <2>1, <2>2, RecoveredJobs DEF ActiveStatus
<1>3. \A k \in JobId : Goal(k)
  BY <1>1, <1>2 DEF GuardedCall, Recovers
<1>4. HeldArePosted'
  BY <1>3 DEF GuardInv, HeldArePosted, TypeOK, NoteTypeOK
<1>5. UndisputedBefore'
  BY <1>3 DEF UndisputedBefore
<1>6. AttestedUndisputed'
  BY <1>3 DEF AttestedUndisputed, NoDispute, TypeOK, NoteTypeOK
<1> QED
  BY <1>4, <1>5, <1>6 DEF GuardInv

\* Recovered jobs had their parties already.
LEMMA CallsKeepStaff ==
  ASSUME TypeOK, Staffed, GuardedCall  PROVE Staffed'
<1>1. ASSUME NEW j \in JobId, Recovered(j)  PROVE Staffed'
  BY <1>1, RecoveredJobs DEF Staffed, ActiveStatus
<1> QED
  BY <1>1, StaffedStep DEF GuardedCall, Recovers

LEMMA ContractsKeepGuards ==
  /\ ContractsInit => WayOutInv
  /\ WayOutInv /\ [ContractsNext]_contractVars => WayOutInv' /\ GuardedCall
<1>1. ContractsInit => WayOutInv
  BY WayOutHolds DEF ContractsInit
<1>2. ASSUME WayOutInv, [ContractsNext]_contractVars
      PROVE  WayOutInv' /\ GuardedCall
  <2>1. /\ TypeOK /\ CancelInv /\ GuardInv /\ Staffed /\ FeesOwed /\ NeverOverdrawn
        /\ EscrowMatchesStatus /\ SettledInFull
    BY <1>2 DEF WayOutInv, SafeInv, CancelInv, MoneyInv
  <2>2. TypeOK' /\ CancelInv' /\ SettledInFull'
    BY <1>2, <2>1, ContractsKeep DEF CancelInv, MoneyInv
  <2>3. GuardedCall /\ \A j \in held' \ held : jobs[j].status # "Absent"
    BY <1>2, <2>1, EveryCallIsGuarded
  <2>4. GuardInv' /\ Staffed'
    BY <2>1, <2>2, <2>3, CallsKeepGuards, CallsKeepStaff
  <2>5. FeesOwed' /\ NeverOverdrawn'
    BY <1>2, <2>1, <2>2, ContractBooks, FeesOwedStep, NeverOverdrawnStep
  <2> QED
    BY <2>2, <2>3, <2>4, <2>5 DEF WayOutInv, SafeInv
<1> QED
  BY <1>1, <1>2

(***************************************************************************)
(* Nonces and recovery open no way around the guards of the escrow         *)
(* contract: attestations stay clean, a quorum is needed, a held job does  *)
(* not advance, every party is admitted when it joins, and no deposit is   *)
(* handed out short.                                                       *)
(***************************************************************************)
THEOREM ContractsGuardJobs ==
  ContractsSpec => /\ []AttestedUndisputed
                   /\ QuorumReleases /\ HeldDoesNotAdvance /\ OnlyAdmittedJoin /\ DepositReturned
<1>1. WayOutInv => AttestedUndisputed
  BY DEF WayOutInv, SafeInv, GuardInv
<1>2. WayOutInv /\ [ContractsNext]_contractVars
        => /\ [ApprovedByQuorum]_vars /\ [HoldRespected]_vars
           /\ [AdmitsJoiner]_vars /\ [ReturnsDeposit]_vars
  BY ContractsKeepGuards, CallsRespectGuards DEF WayOutInv, SafeInv, GuardInv
<1> QED
  BY <1>1, <1>2, ContractsKeepGuards, PTL
     DEF ContractsSpec, QuorumReleases, HeldDoesNotAdvance, OnlyAdmittedJoin, DepositReturned

\* Once both parties of a job are blacklisted it is moved as BlacklistFreezes
\* says, or by a recovery that was proposed for it and is due.
FrozenUntilRecovered ==
  MovedByOthersOnly \/ \E p \in DOMAIN proposals : Recovers(p)

THEOREM RecoveryUnfreezes == ContractsSpec => [][FrozenUntilRecovered]_contractVars
<1>1. WayOutInv /\ [ContractsNext]_contractVars => [FrozenUntilRecovered]_contractVars
  BY ContractsKeepGuards, FrozenStep DEF WayOutInv, SafeInv, GuardedCall, FrozenUntilRecovered
<1> QED
  BY <1>1, ContractsKeepGuards, PTL DEF ContractsSpec

\* No job is trapped in the two contracts either: its way out is a call of the
\* escrow contract, which reaches every active job because none is archived.
THEOREM ContractsTrapNobody ==
  /\ ContractsSpec => [](\A j \in Posted : SolventFor(j) => WayOut(j))
  /\ ContractsSpec /\ [][NoPayout]_vars => []NobodyTrapped
<1> DEFINE EachItsWay == \A j \in Posted : SolventFor(j) => WayOut(j)
<1>1. WayOutInv => EachItsWay /\ (Solvent => NobodyTrapped)
  BY SolventTrapsNobody
<1> HIDE DEF EachItsWay
<1>2. ContractsSpec => []EachItsWay /\ [](Solvent => NobodyTrapped)
  BY <1>1, ContractsKeepGuards, PTL DEF ContractsSpec
<1>3. ContractsSpec /\ [][NoPayout]_vars => []NobodyTrapped
  BY <1>2, ContractsStaySolvent, PTL
<1> QED
  BY <1>2, <1>3 DEF EachItsWay

-----------------------------------------------------------------------------
(***************************************************************************)
(* The counters.                                                           *)
(***************************************************************************)
LEMMA EveryCallCounts ==
  ASSUME TypeOK, EscrowMatchesStatus, TwoParties, [ContractsNext]_contractVars
  PROVE  CountedStep
<1>1. ASSUME NEW u \in Users, NEW a \in Inputs.amounts, NEW d \in Inputs.deadlines,
             NEW t \in Tokens, CreateJob(u, a, 0, d, t)
      PROVE  CountedStep
  BY <1>1, CreateCounts
<1>2. ASSUME NEW p \in DOMAIN proposals, execute_recovery(p)  PROVE CountedStep
  BY <1>2, RecoveryRecovers, SettleCounts DEF Refund
<1>3. CASE Next \/ Quiet
  BY <1>3, EveryStepCounts DEF Quiet
<1> QED
  BY <1>1, <1>2, <1>3, ContractCalls

\* A posting with a nonce counts like any other, and so does a recovery: the
\* counters of a user never drift from his jobs, and no call takes him above
\* the limit of the moment.
THEOREM ContractsCountJobs ==
  ContractsSpec => []CountsMatchJobs /\ [][WithinAllLimits]_vars
<1> DEFINE Tallied == TypeOK /\ CancelInv /\ TallyInv
<1>1. ContractsInit => Tallied
  BY ContractsStart, TallyStarts DEF ContractsInit
<1>2. Tallied /\ [ContractsNext]_contractVars => Tallied' /\ [WithinAllLimits]_vars
  <2> SUFFICES ASSUME Tallied, [ContractsNext]_contractVars  PROVE Tallied' /\ WithinAllLimits
    OBVIOUS
  <2>1. TypeOK' /\ CancelInv'
    BY ContractsKeep
  <2>2. CountedStep
    BY EveryCallCounts DEF CancelInv, MoneyInv, TallyInv
  <2>3. TallyInv' /\ WithinAllLimits
    BY <2>2, TallyStep DEF WithinAllLimits
  <2> QED
    BY <2>1, <2>3
<1>3. Tallied => CountsMatchJobs
  BY DEF TallyInv
<1> HIDE DEF Tallied
<1> QED
  BY <1>1, <1>2, <1>3, PTL DEF ContractsSpec

LEMMA LimitsStayInContracts ==
  ASSUME TypeOK, Inputs.limits = {}, [ContractsNext]_contractVars  PROVE UNCHANGED Limits
<1>1. ASSUME NEW u, NEW a, NEW d, NEW t, CreateJob(u, a, 0, d, t)  PROVE UNCHANGED Limits
  BY <1>1 DEF CreateJob, settingVars, Limits
<1>2. ASSUME NEW p, execute_recovery(p)  PROVE UNCHANGED Limits
  BY <1>2 DEF execute_recovery, Refund, settingVars, Limits
<1>3. CASE Next \/ Quiet
  BY <1>3, LimitsStay DEF Quiet
<1> QED
  BY <1>1, <1>2, <1>3, ContractCalls

\* While limits are not changed, nobody exceeds them in either way of posting.
THEOREM ContractsCountWithinLimits ==
  ASSUME Inputs.limits = {}
  PROVE  ContractsSpec => []CountersMatchJobs
<1> DEFINE Tallied == TypeOK /\ CancelInv /\ CountInv
<1>1. ContractsInit => Tallied
  BY ContractsStart, CountersStart DEF ContractsInit
<1>2. Tallied /\ [ContractsNext]_contractVars => Tallied'
  BY ContractsKeep, EveryCallCounts, LimitsStayInContracts, CountersStep
     DEF CancelInv, MoneyInv, CountInv
<1>3. Tallied => CountersMatchJobs
  BY DEF CountInv
<1> HIDE DEF Tallied
<1> QED
  BY <1>1, <1>2, <1>3, PTL DEF ContractsSpec

-----------------------------------------------------------------------------
(***************************************************************************)
(* The archive.                                                            *)
(***************************************************************************)
LEMMA ArchiveMoves ==
  ASSUME TypeOK, [ContractsNext]_contractVars
  PROVE  archived' \subseteq archived \cup {j \in 1 .. jobsCount : IsTerminal(jobs[j]) /\ Quiet}
<1>1. CASE \E c \in UpkeepInputs.cutoffs : ArchiveOldJobs(c)
  BY <1>1 DEF ArchiveOldJobs, Due, Quiet
<1>2. CASE \E j \in JobId : UnarchiveJob(j)
  BY <1>2 DEF UnarchiveJob
<1>3. CASE UNCHANGED archived
  BY <1>3
<1> QED
  BY <1>1, <1>2, <1>3
     DEF ContractsNext, EscrowContract, EscrowCall, RecordsCall, RecoveryCall, PostJobWithNonce,
         set_stuck_threshold, set_recovery_signer, set_recovery_signer_threshold, propose_recovery,
         approve_recovery, execute_recovery, archiveVars, recordVars, contractVars

ArchiveInv == archived \subseteq JobId /\ ArchivedSettled

LEMMA ArchiveStep ==
  ASSUME TypeOK, CancelInv, TypeOK', CancelInv', ArchiveInv, [ContractsNext]_contractVars
  PROVE  ArchiveInv'
<1> SUFFICES ASSUME NEW j \in archived'
             PROVE  j \in JobId /\ IsTerminal(jobs[j])' /\ escrowBal'[j] = 0
  BY DEF ArchiveInv, ArchivedSettled
<1>1. j \in JobId /\ IsTerminal(jobs[j])
  <2>1. CASE j \in archived
    BY <2>1 DEF ArchiveInv, ArchivedSettled
  <2>2. CASE j \in 1 .. jobsCount /\ IsTerminal(jobs[j])
    <3>1. jobsCount \in 0 .. MaxJobs
      BY DEF TypeOK, JobTypeOK
    <3> QED
      BY <2>2, <3>1, CustodyAssumption DEF JobId
  <2> QED
    BY <2>1, <2>2, ArchiveMoves
<1>2. jobs'[j] = jobs[j]
  BY <1>1, ContractStep, MoneyStepKeepsTerms
     DEF TermsKept, KeepsItsTerms, Posted, IsTerminal, TerminalStatus
<1>3. ~is_active_job_status(jobs'[j])
  BY <1>1, <1>2 DEF IsTerminal, TerminalStatus, is_active_job_status, ActiveStatus
<1>4. escrowBal'[j] = 0
  BY <1>1, <1>3 DEF CancelInv, MoneyInv, EscrowMatchesStatus
<1> QED
  BY <1>1, <1>2, <1>4

\* archive_old_jobs puts away no job with money in it, and no call reaches a
\* job that is away: not a recovery proposed before, not a batch of verdicts.
THEOREM ArchiveHoldsNoMoney == ContractsSpec => []ArchivedSettled
<1>1. ContractsInit => ArchiveInv
  BY DEF ContractsInit, RecordsInit, ArchiveInv, ArchivedSettled
<1>2. TypeOK /\ CancelInv /\ ArchiveInv /\ [ContractsNext]_contractVars => ArchiveInv'
  BY ContractsKeep, ArchiveStep
<1>3. ArchiveInv => ArchivedSettled
  BY DEF ArchiveInv
<1> QED
  BY <1>1, <1>2, <1>3, ContractsStart, ContractsKeep, PTL DEF ContractsSpec

(***************************************************************************)
(* That a job is on the list or in the archive, and never twice, needs     *)
(* only that the archive holds ids that were given out.                    *)
(***************************************************************************)
KeptInv ==
  /\ allIds \in Seq(JobId) /\ Once(allIds)
  /\ ToSet(allIds) = 1 .. jobsCount \ archived
  /\ archived \subseteq 1 .. jobsCount
  /\ archiveCount = Cardinality(archived)

LEMMA CountIsJob == ASSUME TypeOK  PROVE jobsCount \in Nat /\ 1 .. jobsCount \subseteq JobId
BY CustodyAssumption DEF TypeOK, JobTypeOK, JobId

\* A posting puts the next id on the list, and nothing else touches it.
LEMMA KeptStamped ==
  ASSUME TypeOK, TypeOK', MoneyStep, KeptInv, Stamped, UNCHANGED archiveVars  PROVE KeptInv'
<1>1. jobsCount \in Nat /\ 1 .. jobsCount' \subseteq JobId
  <2>1. jobsCount \in Nat /\ jobsCount' \in 0 .. MaxJobs
    BY CustodyAssumption DEF TypeOK, JobTypeOK
  <2> QED
    BY <2>1, CustodyAssumption DEF JobId
<1>2. jobsCount' = jobsCount \/ jobsCount' = jobsCount + 1
  BY DEF MoneyStep, Calm, Opened, Edited, Raised, Closed
<1>3. CASE jobsCount' = jobsCount
  BY <1>3 DEF KeptInv, Stamped, archiveVars, Once
<1>4. CASE jobsCount' = jobsCount + 1
  <2> DEFINE k == jobsCount + 1
  <2>1. /\ k \in JobId /\ k \notin 1 .. jobsCount
        /\ 1 .. jobsCount' = 1 .. jobsCount \cup {k}
    BY <1>1, <1>4
  <2>2. allIds' = Append(allIds, k)
    BY <1>1, <1>4 DEF Stamped
  <2> HIDE DEF k
  <2>3. k \notin ToSet(allIds)
    BY <2>1 DEF KeptInv
  <2>4. allIds' \in Seq(JobId) /\ Once(allIds') /\ ToSet(allIds') = ToSet(allIds) \cup {k}
    BY <2>1, <2>2, <2>3, AppendIs DEF KeptInv
  <2>5. Once(allIds)'
    BY <2>4 DEF Once
  <2>6. ToSet(allIds') = 1 .. jobsCount' \ archived /\ archived \subseteq 1 .. jobsCount'
    BY <2>1, <2>4 DEF KeptInv
  <2> QED
    BY <2>4, <2>5, <2>6 DEF KeptInv, archiveVars
<1> QED
  BY <1>2, <1>3, <1>4

LEMMA KeptArchived ==
  ASSUME TypeOK, KeptInv, NEW c, ArchiveOldJobs(c)  PROVE KeptInv'
<1> DEFINE gone == Due(c)
<1>1. /\ archived' = archived \cup gone /\ allIds' = Without(allIds, gone)
      /\ archiveCount' = archiveCount + Cardinality(gone) /\ jobsCount' = jobsCount
  BY DEF ArchiveOldJobs, vars, jobVars
<1>2. gone \subseteq 1 .. jobsCount /\ gone \cap archived = {}
  BY DEF Due
<1> HIDE DEF gone
<1>3. /\ allIds' \in Seq(JobId) /\ Once(allIds') /\ ToSet(allIds') = ToSet(allIds) \ gone
  BY <1>1, WithoutIs DEF KeptInv
<1>4. Once(allIds)'
  BY <1>3 DEF Once
<1>5. IsFiniteSet(archived) /\ IsFiniteSet(gone)
  <2>1. IsFiniteSet(1 .. jobsCount)
    BY CountIsJob, FS_Interval
  <2> QED
    BY <1>2, <2>1, FS_Subset DEF KeptInv
<1>6. Cardinality(archived \cup gone) = Cardinality(archived) + Cardinality(gone)
  <2>1. /\ Cardinality(archived \cup gone)
            = Cardinality(archived) + Cardinality(gone) - Cardinality(archived \cap gone)
        /\ Cardinality(archived \cap gone) = 0
    <3>1. archived \cap gone = {} /\ Cardinality({}) = 0
      BY <1>2, FS_EmptySet
    <3>2. Cardinality(archived \cup gone)
            = Cardinality(archived) + Cardinality(gone) - Cardinality(archived \cap gone)
      BY <1>5, FS_Union
    <3> QED
      BY <3>1, <3>2
  <2>2. Cardinality(archived) \in Nat /\ Cardinality(gone) \in Nat
    BY <1>5, FS_CardinalityType
  <2> QED
    BY <2>1, <2>2
<1> QED
  BY <1>1, <1>2, <1>3, <1>4, <1>6 DEF KeptInv

LEMMA KeptReturned ==
  ASSUME TypeOK, KeptInv, NEW j \in JobId, UnarchiveJob(j)  PROVE KeptInv'
<1>1. /\ j \in archived /\ archived' = archived \ {j} /\ allIds' = Append(allIds, j)
      /\ archiveCount' = Minus(archiveCount, 1) /\ jobsCount' = jobsCount
  BY DEF UnarchiveJob, vars, jobVars
<1>2. j \notin ToSet(allIds) /\ j \in 1 .. jobsCount
  BY <1>1 DEF KeptInv
<1>3. allIds' \in Seq(JobId) /\ Once(allIds') /\ ToSet(allIds') = ToSet(allIds) \cup {j}
  BY <1>1, <1>2, AppendIs DEF KeptInv
<1>4. Once(allIds)'
  BY <1>3 DEF Once
<1>5. IsFiniteSet(archived)
  <2>1. IsFiniteSet(1 .. jobsCount)
    BY CountIsJob, FS_Interval
  <2> QED
    BY <2>1, FS_Subset DEF KeptInv
<1>6. /\ Cardinality(archived \ {j}) = Cardinality(archived) - 1
      /\ Cardinality(archived) \in Nat /\ Cardinality(archived \ {j}) \in Nat
  <2>1. IsFiniteSet(archived \ {j})
    BY <1>5, FS_Subset
  <2> QED
    BY <1>1, <1>5, <2>1, FS_RemoveElement, FS_CardinalityType
<1>7. archiveCount' = Cardinality(archived')
  BY <1>1, <1>6 DEF KeptInv, Minus
<1>8. ToSet(allIds') = 1 .. jobsCount' \ archived' /\ archived' \subseteq 1 .. jobsCount'
  BY <1>1, <1>2, <1>3 DEF KeptInv
<1> QED
  BY <1>3, <1>4, <1>7, <1>8 DEF KeptInv

LEMMA KeptStep ==
  ASSUME TypeOK, CancelInv, KeptInv, [ContractsNext]_contractVars  PROVE KeptInv'
<1>1. TypeOK' /\ MoneyStep
  BY ContractStep, ContractsKeep
<1>2. CASE Stamped /\ UNCHANGED archiveVars
  BY <1>1, <1>2, KeptStamped
<1>3. CASE \E c \in UpkeepInputs.cutoffs : ArchiveOldJobs(c)
  BY <1>3, KeptArchived
<1>4. CASE \E j \in JobId : UnarchiveJob(j)
  BY <1>4, KeptReturned
<1>5. CASE UNCHANGED <<jobsCount, allIds, archiveVars>>
  BY <1>5 DEF KeptInv, archiveVars, Once
<1> QED
  BY <1>2, <1>3, <1>4, <1>5
     DEF ContractsNext, EscrowContract, EscrowCall, RecordsCall, RecoveryCall, PostJobWithNonce,
         set_stuck_threshold, set_recovery_signer, set_recovery_signer_threshold,
         propose_recovery, approve_recovery, execute_recovery, archiveVars, stampVars, recordVars,
         vars, jobVars, contractVars

LEMMA KeptStart == ContractsInit => KeptInv /\ ArchiveInv
<1>1. Cardinality({}) = 0 /\ 1 .. 0 = {}
  BY FS_EmptySet
<1> QED
  BY <1>1 DEF ContractsInit, RecordsInit, Init, KeptInv, ArchiveInv, ArchivedSettled, Once, ToSet

\* Every job is on the list of ids or in the archive, in one of them and
\* once, and the archive is counted right, however often archive_old_jobs and
\* unarchive_job move jobs, whatever the cutoffs.
THEOREM EveryJobIsKept == ContractsSpec => []JobsKeptOnce
<1>1. TypeOK /\ CancelInv /\ KeptInv /\ ArchiveInv /\ [ContractsNext]_contractVars
        => KeptInv' /\ ArchiveInv'
  BY ContractsKeep, ArchiveStep, KeptStep
<1>2. KeptInv /\ ArchiveInv => JobsKeptOnce
  <2> SUFFICES ASSUME KeptInv, ArchiveInv  PROVE JobsKeptOnce
    OBVIOUS
  <2>1. Len(allIds) = Cardinality(ToSet(allIds))
    BY OnceCounts DEF KeptInv
  <2> QED
    BY <2>1 DEF KeptInv, ArchiveInv, JobsKeptOnce
<1> QED
  BY <1>1, <1>2, KeptStart, ContractsStart, ContractsKeep, PTL DEF ContractsSpec

-----------------------------------------------------------------------------
(***************************************************************************)
(* Nonces.  That a nonce stands for one job is not inductive alone: it     *)
(* needs that unused ids carry no nonce and that no nonce stands for an id *)
(* not given out yet.                                                      *)
(***************************************************************************)
NonceInv ==
  /\ sentWith \in [JobId -> Nonces \cup {NoNonce}]
  /\ nonceJob \in [Users -> [Nonces -> Nat]]
  /\ highestNonce \in [Users -> Nonces \cup {0}]
  /\ \A j \in JobId : j > jobsCount => sentWith[j] = NoNonce
  /\ \A u \in Users, n \in Nonces : nonceJob[u][n] <= jobsCount
  /\ NonceNamesItsJob

JobsSentWith(u, n) == {j \in Posted : jobs[j].client = u /\ sentWith[j] = n}

\* A step that uses no nonce leaves the jobs of every nonce as they are.
LEMMA NonceFrame ==
  ASSUME TypeOK, CancelInv, TypeOK', CancelInv', NonceInv, MoneyStep, UNCHANGED nonceVars
  PROVE  NonceInv'
<1>1. TermsKept /\ sentWith' = sentWith /\ nonceJob' = nonceJob /\ highestNonce' = highestNonce
  BY MoneyStepKeepsTerms DEF nonceVars
<1>2. jobsCount \in Nat /\ jobsCount' \in Nat /\ jobsCount' >= jobsCount
  BY DEF TypeOK, JobTypeOK, MoneyStep, Calm, Opened, Edited, Raised, Closed
<1>3. \A j \in JobId : (j \in Posted <=> j <= jobsCount) /\ (j \in Posted' <=> j <= jobsCount')
  BY <1>2 DEF Posted, CancelInv, MoneyInv, EscrowMatchesStatus, JobId
<1>4. NoNonce \notin Nonces
  BY RecordsAssumption DEF NoNonce
<1>5. ASSUME NEW u \in Users, NEW n \in Nonces  PROVE JobsSentWith(u, n)' = JobsSentWith(u, n)
  <2>1. ASSUME NEW j \in JobId, sentWith[j] = n  PROVE j <= jobsCount
    BY <1>2, <1>4, <2>1 DEF NonceInv, JobId
  <2>2. \A j \in JobId : j <= jobsCount => jobs'[j].client = jobs[j].client
    BY <1>1, <1>3 DEF TermsKept, KeepsItsTerms
  <2>3. \A j \in JobId : j <= jobsCount => j \in Posted /\ j \in Posted'
    BY <1>2, <1>3 DEF JobId
  <2> QED
    BY <1>1, <2>1, <2>2, <2>3 DEF JobsSentWith, Posted
<1>6. NonceNamesItsJob'
  BY <1>1, <1>5 DEF NonceInv, NonceNamesItsJob, JobsSentWith
<1> QED
  BY <1>1, <1>2, <1>6 DEF NonceInv, JobId

LEMMA NonceUsed ==
  ASSUME TypeOK, CancelInv, NonceInv,
         NEW u \in Users, NEW a \in Inputs.amounts, NEW d \in Inputs.deadlines,
         NEW t \in Tokens, NEW n \in Nonces, PostJobWithNonce(u, a, d, t, n)
  PROVE  NonceInv'
<1> DEFINE k == jobsCount + 1
<1>1. k \in JobId /\ jobsCount \in Nat /\ k \in Nat /\ k # 0
  BY CustodyAssumption DEF TypeOK, JobTypeOK, PostJobWithNonce, PostJobWithCategories, CreateJob,
     JobId
<1>2. /\ jobsCount' = k
      /\ jobs' = [jobs EXCEPT ![k] = NewJob(u, a, t, d)]
  BY DEF PostJobWithNonce, PostJobWithCategories, CreateJob, set_job
<1>3. /\ sentWith' = [sentWith EXCEPT ![k] = n]
      /\ nonceJob' = [nonceJob EXCEPT ![u][n] = k]
      /\ highestNonce' = [highestNonce EXCEPT ![u] = IF n > @ THEN n ELSE @]
      /\ nonceJob[u][n] = 0
  BY <1>2 DEF PostJobWithNonce, FreshNonce
<1>4. jobs'[k].client = u /\ jobs'[k].status = "Open" /\ \A j \in JobId \ {k} : jobs'[j] = jobs[j]
  BY <1>1, <1>2 DEF NewJob, TypeOK, JobTypeOK
<1>5. jobs[k].status = "Absent" /\ k \notin Posted /\ Posted' = Posted \cup {k}
  <2>1. jobs[k].status = "Absent"
    BY <1>1 DEF CancelInv, MoneyInv, EscrowMatchesStatus
  <2> HIDE DEF k
  <2> QED
    BY <1>1, <1>4, <2>1 DEF Posted
<1>6. n \in Nat /\ NoNonce \notin Nonces
  BY RecordsAssumption DEF NoNonce
<1>7. /\ sentWith' \in [JobId -> Nonces \cup {NoNonce}]
      /\ nonceJob' \in [Users -> [Nonces -> Nat]]
      /\ highestNonce' \in [Users -> Nonces \cup {0}]
  BY <1>1, <1>3 DEF NonceInv
<1>8. \A j \in JobId : j > jobsCount' => sentWith'[j] = NoNonce
  BY <1>1, <1>2, <1>3 DEF NonceInv, JobId
<1>9. \A v \in Users, m \in Nonces :
        nonceJob'[v][m] = IF v = u /\ m = n THEN k ELSE nonceJob[v][m]
  BY <1>3 DEF NonceInv
<1>10. \A v \in Users, m \in Nonces : nonceJob'[v][m] <= jobsCount'
  BY <1>1, <1>2, <1>9 DEF NonceInv
<1>11. ASSUME NEW v \in Users, NEW m \in Nonces
       PROVE  JobsSentWith(v, m)' = {nonceJob'[v][m]} \ {0}
  <2>1. JobsSentWith(v, m) = {nonceJob[v][m]} \ {0}
    BY DEF NonceInv, NonceNamesItsJob, JobsSentWith
  <2>2. JobsSentWith(v, m)' = JobsSentWith(v, m) \cup (IF v = u /\ m = n THEN {k} ELSE {})
    <3>1. k \in JobsSentWith(v, m)' <=> v = u /\ m = n
      BY <1>1, <1>3, <1>4, <1>5 DEF JobsSentWith, NonceInv
    <3>2. ASSUME NEW j \in JobId \ {k}
          PROVE  j \in JobsSentWith(v, m)' <=> j \in JobsSentWith(v, m)
      BY <1>3, <1>4, <1>5 DEF JobsSentWith, NonceInv
    <3>3. JobsSentWith(v, m) \subseteq JobId /\ JobsSentWith(v, m)' \subseteq JobId
          /\ k \notin JobsSentWith(v, m)
      BY <1>5 DEF JobsSentWith, Posted
    <3> HIDE DEF k, JobsSentWith
    <3> QED
      BY <1>1, <3>1, <3>2, <3>3
  <2> HIDE DEF k, JobsSentWith
  <2> QED
    BY <1>1, <1>3, <1>9, <2>1, <2>2
<1>12. ASSUME NEW v \in Users
       PROVE  /\ \A m \in Nonces : nonceJob'[v][m] # 0 => m <= highestNonce'[v]
              /\ highestNonce'[v] # 0 => nonceJob'[v][highestNonce'[v]] # 0
  <2>1. /\ \A m \in Nonces : nonceJob[v][m] # 0 => m <= highestNonce[v]
        /\ highestNonce[v] # 0 => nonceJob[v][highestNonce[v]] # 0
    BY DEF NonceInv, NonceNamesItsJob
  <2>2. /\ highestNonce[v] \in Nonces \cup {0} /\ highestNonce[v] \in Nat
        /\ \A m \in Nonces : m \in Nat
    <3>1. highestNonce[v] \in Nonces \cup {0}
      BY DEF NonceInv
    <3>2. \A m \in Nonces : m \in Nat
      BY RecordsAssumption DEF RecordsAssumption
    <3> QED
      BY <3>1, <3>2
  <2>3. highestNonce'[v] = IF v = u /\ n > highestNonce[u] THEN n ELSE highestNonce[v]
    BY <1>3 DEF NonceInv
  <2>4. k # 0 /\ n \in Nonces
    BY <1>1
  <2> HIDE DEF k
  <2>5. ASSUME NEW m \in Nonces, nonceJob'[v][m] # 0  PROVE m <= highestNonce'[v]
    <3>1. CASE v = u /\ m = n
      BY <1>6, <2>2, <2>3, <3>1
    <3>2. CASE ~(v = u /\ m = n)
      <4>1. nonceJob[v][m] # 0
        BY <1>9, <2>5, <3>2
      <4>2. m <= highestNonce[v]
        BY <2>1, <4>1
      <4> QED
        BY <1>6, <2>2, <2>3, <4>2
    <3> QED
      BY <3>1, <3>2
  <2>6. ASSUME highestNonce'[v] # 0  PROVE nonceJob'[v][highestNonce'[v]] # 0
    <3>1. CASE v = u /\ n > highestNonce[u]
      BY <1>9, <2>3, <2>4, <3>1
    <3>2. CASE ~(v = u /\ n > highestNonce[u])
      <4>1. highestNonce'[v] = highestNonce[v] /\ highestNonce[v] \in Nonces
        BY <2>2, <2>3, <2>6, <3>2
      <4>2. nonceJob[v][highestNonce[v]] # 0
        BY <2>1, <2>6, <4>1
      <4> QED
        BY <1>9, <2>4, <4>1, <4>2
    <3> QED
      BY <3>1, <3>2
  <2> QED
    BY <2>5, <2>6
<1>13. NonceNamesItsJob'
  BY <1>11, <1>12 DEF NonceNamesItsJob, JobsSentWith
<1> QED
  BY <1>7, <1>8, <1>10, <1>13 DEF NonceInv

LEMMA NonceStep ==
  ASSUME TypeOK, CancelInv, NonceInv, [ContractsNext]_contractVars  PROVE NonceInv'
<1>1. TypeOK' /\ CancelInv' /\ MoneyStep
  BY ContractStep, ContractsKeep
<1>2. CASE UNCHANGED nonceVars
  BY <1>1, <1>2, NonceFrame
<1>3. CASE \E u \in Users, a \in Inputs.amounts, d \in Inputs.deadlines, t \in Tokens, n \in Nonces :
             PostJobWithNonce(u, a, d, t, n)
  BY <1>3, NonceUsed
<1> QED
  BY <1>2, <1>3
     DEF ContractsNext, EscrowContract, EscrowCall, RecordsCall, RecoveryCall, ArchiveOldJobs,
         UnarchiveJob, set_stuck_threshold, set_recovery_signer, set_recovery_signer_threshold,
         propose_recovery, approve_recovery, execute_recovery, recordVars, contractVars

LEMMA NonceStart == ContractsInit => NonceInv
BY CustodyAssumption, RecordsAssumption
   DEF ContractsInit, RecordsInit, Init, NonceInv, NonceNamesItsJob, NoJob, Posted, NoNonce

\* post_job_with_nonce: a repeated posting makes no second job, and the job of
\* a nonce is found under it, in whatever order nonces are used and whatever
\* becomes of the jobs.
THEOREM NoncesNameTheirJobs == ContractsSpec => []NonceNamesItsJob
<1>1. NonceInv => NonceNamesItsJob
  BY DEF NonceInv
<1> QED
  BY <1>1, NonceStart, NonceStep, ContractsStart, ContractsKeep, PTL DEF ContractsSpec

-----------------------------------------------------------------------------
(***************************************************************************)
(* Administration and upgrades.                                            *)
(***************************************************************************)
\* What makes the wait of an upgrade inductive: the deadline kept in storage
\* is the one of the last proposal of the hash that is pending.
DeadlineOfLastProposal ==
  pendingWasm # NoWasm => deadline = announced[pendingWasm] + UPGRADE_TIMELOCK_SECS

GovernanceInv == GovernanceTypeOK /\ NominationIsCurrent /\ DeadlineOfLastProposal

LEMMA GovernanceStart == now \in Nat /\ GovernanceInit => GovernanceInv
BY GovernanceAssumption DEF GovernanceInit, GovernanceInv, GovernanceTypeOK, NominationIsCurrent,
   DeadlineOfLastProposal

LEMMA AdminStep ==
  ASSUME GovernanceInv, NEW a \in Users, NEW b \in Users,
         \/ transfer_admin(a, b) \/ transfer_ownership(a, b)
         \/ accept_ownership(a) \/ cancel_ownership_transfer(a)
  PROVE  GovernanceInv' /\ UNCHANGED code
<1> USE GovernanceAssumption
<1>1. GovernanceTypeOK' /\ UNCHANGED code
  BY DEF GovernanceInv, GovernanceTypeOK, transfer_admin, transfer_ownership, accept_ownership,
     cancel_ownership_transfer, upgradeVars
<1>2. NominationIsCurrent'
  BY DEF GovernanceInv, NominationIsCurrent, transfer_admin, transfer_ownership, accept_ownership,
     cancel_ownership_transfer
<1>3. DeadlineOfLastProposal'
  BY DEF GovernanceInv, DeadlineOfLastProposal, transfer_admin, transfer_ownership,
     accept_ownership, cancel_ownership_transfer, upgradeVars
<1> QED
  BY <1>1, <1>2, <1>3 DEF GovernanceInv

LEMMA UpgradeStep ==
  ASSUME GovernanceInv, NEW a \in Users, NEW h \in Wasms,
         propose_upgrade(a, h) \/ execute_upgrade(a) \/ cancel_upgrade(a)
  PROVE  /\ GovernanceInv'
         /\ code' # code => now >= announced[code'] + UPGRADE_TIMELOCK_SECS
<1> USE GovernanceAssumption
<1>1. GovernanceTypeOK'
  BY DEF GovernanceInv, GovernanceTypeOK, propose_upgrade, execute_upgrade, cancel_upgrade, adminVars
<1>2. NominationIsCurrent'
  BY DEF GovernanceInv, NominationIsCurrent, propose_upgrade, execute_upgrade, cancel_upgrade,
     adminVars
<1>3. DeadlineOfLastProposal'
  BY DEF GovernanceInv, GovernanceTypeOK, DeadlineOfLastProposal, propose_upgrade, execute_upgrade,
     cancel_upgrade
<1>4. code' # code => now >= announced[code'] + UPGRADE_TIMELOCK_SECS
  BY DEF GovernanceInv, DeadlineOfLastProposal, propose_upgrade, execute_upgrade, cancel_upgrade
<1> QED
  BY <1>1, <1>2, <1>3, <1>4 DEF GovernanceInv

LEMMA GovernanceStep ==
  ASSUME GovernanceInv, [GovernanceCall \/ TimePasses]_governanceVars
  PROVE  /\ GovernanceInv'
         /\ code' # code => now >= announced[code'] + UPGRADE_TIMELOCK_SECS
<1>1. CASE GovernanceCall
  <2>1. PICK a \in Users :
          \/ \E b \in Users : transfer_admin(a, b) \/ transfer_ownership(a, b)
          \/ accept_ownership(a) \/ cancel_ownership_transfer(a)
          \/ \E h \in Wasms : propose_upgrade(a, h)
          \/ execute_upgrade(a) \/ cancel_upgrade(a)
    BY <1>1 DEF GovernanceCall
  <2>2. CASE \E b \in Users : transfer_admin(a, b) \/ transfer_ownership(a, b)
    BY <2>2, AdminStep
  <2>3. CASE accept_ownership(a) \/ cancel_ownership_transfer(a)
    BY <2>3, AdminStep
  <2>4. CASE \E h \in Wasms : propose_upgrade(a, h)
    BY <2>4, UpgradeStep
  <2>5. CASE execute_upgrade(a) \/ cancel_upgrade(a)
    <3>1. pendingWasm \in Wasms
      BY <2>5 DEF execute_upgrade, cancel_upgrade, GovernanceInv, GovernanceTypeOK
    <3> QED
      BY <2>5, <3>1, UpgradeStep
  <2> QED
    BY <2>1, <2>2, <2>3, <2>4, <2>5
<1>2. CASE TimePasses \/ UNCHANGED governanceVars
  BY <1>2 DEF TimePasses, governanceVars, adminVars, upgradeVars, GovernanceInv, GovernanceTypeOK,
     NominationIsCurrent, DeadlineOfLastProposal
<1> QED
  BY <1>1, <1>2

LEMMA NominationsHold == GovernanceSpec => [](GovernanceTypeOK /\ NominationIsCurrent)
<1>1. GovernanceInv /\ [GovernanceCall \/ TimePasses]_governanceVars => GovernanceInv'
  BY GovernanceStep
<1>2. GovernanceInv => GovernanceTypeOK /\ NominationIsCurrent
  BY DEF GovernanceInv
<1> QED
  BY GovernanceStart, <1>1, <1>2, PTL DEF GovernanceSpec

LEMMA TimelockHolds == GovernanceSpec => UpgradeWaits
<1>1. GovernanceInv /\ [GovernanceCall \/ TimePasses]_governanceVars
        => /\ GovernanceInv'
           /\ [code' # code => now >= announced[code'] + UPGRADE_TIMELOCK_SECS]_governanceVars
  BY GovernanceStep
<1> QED
  BY GovernanceStart, <1>1, PTL DEF GovernanceSpec, UpgradeWaits

-----------------------------------------------------------------------------
(***************************************************************************)
(* The retainer contract.                                                  *)
(***************************************************************************)
Agreement ==
  [client : Users, freelancer : Users, interval : Nat, max_renewals : Nat,
   current_renewal : Nat, status : {"Active", "Completed", "Cancelled"},
   created_at : Nat, last_renewed_at : Nat]

\* Each renewal comes an interval after the one before it, so that the time of
\* the last one bounds the number of them; this is what the next renewal adds
\* to, where the time of creation alone would not do.
Paced(r, time) ==
  /\ r.current_renewal <= r.max_renewals
  /\ r.last_renewed_at >= r.created_at + r.current_renewal * r.interval
  /\ time >= r.last_renewed_at
  /\ r.status = "Completed" =>
       /\ r.current_renewal = r.max_renewals
       /\ time >= r.last_renewed_at + r.interval

RetainerInv ==
  /\ now \in Nat
  /\ retainers \in Seq(Agreement)
  /\ \A i \in DOMAIN retainers : Paced(retainers[i], now)

LEMMA OneMore ==
  ASSUME NEW n \in Nat, NEW k \in Nat
  PROVE  (n + 1) * k = n * k + k /\ n * k \in Nat
OBVIOUS

LEMMA PacedLater ==
  ASSUME NEW r \in Agreement, NEW t \in Nat, NEW u \in Nat, u >= t, Paced(r, t)
  PROVE  Paced(r, u)
<1>1. r.last_renewed_at \in Nat /\ r.last_renewed_at + r.interval \in Nat
  BY DEF Agreement
<1> QED
  BY <1>1 DEF Paced

LEMMA RenewedPaced ==
  ASSUME NEW r \in Agreement, now \in Nat, Paced(r, now), r.status = "Active",
         now >= r.last_renewed_at + r.interval
  PROVE  Renewed(r) \in Agreement /\ Paced(Renewed(r), now)
<1>1. /\ r.current_renewal \in Nat /\ r.max_renewals \in Nat /\ r.interval \in Nat
      /\ r.created_at \in Nat /\ r.last_renewed_at \in Nat
  BY DEF Agreement
<1>2. CASE r.current_renewal >= r.max_renewals
  <2> DEFINE s == [r EXCEPT !.status = "Completed"]
  <2>1. Renewed(r) = s
    BY <1>2 DEF Renewed
  <2>2. s \in Agreement
    BY DEF Agreement
  <2>3. /\ s.current_renewal = r.current_renewal /\ s.max_renewals = r.max_renewals
        /\ s.last_renewed_at = r.last_renewed_at /\ s.created_at = r.created_at
        /\ s.interval = r.interval
    BY DEF Agreement
  <2> HIDE DEF s
  <2>4. s.last_renewed_at >= s.created_at + s.current_renewal * s.interval
    <3>1. r.last_renewed_at >= r.created_at + r.current_renewal * r.interval
      BY DEF Paced
    <3> QED
      BY <2>3, <3>1, Zenon
  <2>5. s.current_renewal = s.max_renewals
    <3>1. r.current_renewal <= r.max_renewals
      BY DEF Paced
    <3>2. r.current_renewal = r.max_renewals
      BY <1>1, <1>2, <3>1
    <3> QED
      BY <2>3, <3>2
  <2>6. now >= s.last_renewed_at /\ now >= s.last_renewed_at + s.interval
    BY <2>3 DEF Paced
  <2>7. s.current_renewal <= s.max_renewals
    BY <1>1, <2>3, <2>5
  <2> QED
    BY <2>1, <2>2, <2>4, <2>5, <2>6, <2>7 DEF Paced
<1>3. CASE ~(r.current_renewal >= r.max_renewals)
  <2> DEFINE s == [r EXCEPT !.current_renewal = @ + 1, !.last_renewed_at = now]
  <2>1. Renewed(r) = s
    BY <1>3 DEF Renewed
  <2>2. s \in Agreement
    <3> DEFINE q == [r EXCEPT !.current_renewal = @ + 1]
    <3>1. r.current_renewal + 1 \in Nat
      BY <1>1
    <3>2. q \in Agreement
      BY <3>1 DEF Agreement
    <3>3. s = [q EXCEPT !.last_renewed_at = now]
      BY DEF Agreement
    <3> HIDE DEF q
    <3> QED
      BY <3>2, <3>3 DEF Agreement
  <2>3. /\ s.current_renewal = r.current_renewal + 1
        /\ s.last_renewed_at = now /\ s.created_at = r.created_at /\ s.interval = r.interval
        /\ s.max_renewals = r.max_renewals /\ s.status = "Active"
    BY DEF Agreement
  <2>4. /\ (r.current_renewal + 1) * r.interval = r.current_renewal * r.interval + r.interval
        /\ r.current_renewal * r.interval \in Nat
    BY <1>1, OneMore
  <2>5. now >= r.created_at + (r.current_renewal * r.interval + r.interval)
    BY <1>1, <2>4 DEF Paced
  <2>6. now >= r.created_at + (r.current_renewal + 1) * r.interval
    BY <2>4, <2>5
  <2> HIDE DEF s
  <2>7. Paced(s, now)
    BY <1>1, <1>3, <2>3, <2>6 DEF Paced
  <2> QED
    BY <2>1, <2>7, <2>2
<1> QED
  BY <1>2, <1>3

LEMMA RetainerStart == now \in Nat /\ RetainerInit => RetainerInv
BY DEF RetainerInit, RetainerInv

LEMMA CreatePaces ==
  ASSUME RetainerInv, NEW u \in Users, NEW v \in Users, NEW i \in Intervals,
         NEW n \in RenewalLimits, create_retainer(u, v, i, n)
  PROVE  RetainerInv'
<1> DEFINE r == [client |-> u, freelancer |-> v, interval |-> i,
                 max_renewals |-> n, current_renewal |-> 0, status |-> "Active",
                 created_at |-> now, last_renewed_at |-> now]
<1>1. now' = now /\ now \in Nat /\ retainers' = Append(retainers, r) /\ i \in Nat /\ n \in Nat
  BY RetainerAssumption DEF create_retainer, RetainerInv
<1>2. r \in Agreement
  BY <1>1 DEF Agreement
<1>3. Paced(r, now)
  BY <1>1 DEF Paced
<1> HIDE DEF r
<1>4. retainers' \in Seq(Agreement)
  BY <1>1, <1>2 DEF RetainerInv
<1>5. \A k \in DOMAIN retainers' : Paced(retainers'[k], now)
  BY <1>1, <1>3 DEF RetainerInv
<1> QED
  BY <1>1, <1>4, <1>5 DEF RetainerInv

LEMMA ChangePaces ==
  ASSUME RetainerInv, NEW u \in Users, NEW i \in DOMAIN retainers,
         renew_retainer(u, i) \/ cancel_retainer(u, i)
  PROVE  RetainerInv'
<1>1. retainers[i] \in Agreement /\ Paced(retainers[i], now) /\ now \in Nat /\ now' = now
  BY DEF RetainerInv, renew_retainer, cancel_retainer
<1>2. PICK r \in Agreement : Paced(r, now) /\ retainers' = [retainers EXCEPT ![i] = r]
  <2>1. CASE renew_retainer(u, i)
    BY <1>1, <2>1, RenewedPaced DEF renew_retainer
  <2>2. CASE cancel_retainer(u, i)
    <3> DEFINE s == [retainers[i] EXCEPT !.status = "Cancelled"]
    <3>1. retainers' = [retainers EXCEPT ![i] = s] /\ s \in Agreement
      BY <1>1, <2>2 DEF cancel_retainer, Agreement
    <3>2. Paced(s, now)
      BY <1>1 DEF Paced, Agreement
    <3> QED
      BY <3>1, <3>2
  <2> QED
    BY <2>1, <2>2
<1> QED
  BY <1>1, <1>2 DEF RetainerInv

LEMMA RetainerStep ==
  ASSUME RetainerInv, [RetainerCall \/ RetainerClock]_retainerVars  PROVE RetainerInv'
<1>1. CASE RetainerCall
  <2>1. CASE \E u, v \in Users, i \in Intervals, n \in RenewalLimits : create_retainer(u, v, i, n)
    BY <2>1, CreatePaces
  <2>2. CASE \E u \in Users, i \in DOMAIN retainers : renew_retainer(u, i) \/ cancel_retainer(u, i)
    BY <2>2, ChangePaces
  <2>3. CASE UNCHANGED <<now, retainers>>
    BY <2>3 DEF RetainerInv
  <2> QED
    BY <1>1, <2>1, <2>2, <2>3 DEF RetainerCall, export_job, import_job, set_rate_limit,
       set_trusted_address
<1>2. CASE RetainerClock
  <2>1. now \in Nat /\ now' \in Nat /\ now' >= now /\ retainers' = retainers
    BY <1>2 DEF RetainerClock, RetainerInv
  <2>2. \A i \in DOMAIN retainers : retainers[i] \in Agreement /\ Paced(retainers[i], now)
    BY DEF RetainerInv
  <2>3. \A i \in DOMAIN retainers : Paced(retainers[i], now')
    BY <2>1, <2>2, PacedLater
  <2> QED
    BY <2>1, <2>3 DEF RetainerInv
<1>3. CASE UNCHANGED retainerVars
  BY <1>3 DEF retainerVars, RetainerInv
<1> QED
  BY <1>1, <1>2, <1>3

LEMMA PacedMeansSo == RetainerInv => RetainersPaced
<1> SUFFICES ASSUME RetainerInv, NEW i \in DOMAIN retainers
             PROVE  LET r == retainers[i]
                    IN  /\ r.current_renewal <= r.max_renewals
                        /\ now >= r.created_at + r.current_renewal * r.interval
                        /\ r.status = "Completed" => r.current_renewal = r.max_renewals
  BY DEF RetainersPaced
<1> DEFINE r == retainers[i]
<1>1. r \in Agreement /\ Paced(r, now) /\ now \in Nat
  BY DEF RetainerInv
<1> HIDE DEF r
<1>2. /\ r.current_renewal \in Nat /\ r.max_renewals \in Nat /\ r.interval \in Nat
      /\ r.created_at \in Nat /\ r.last_renewed_at \in Nat
  BY <1>1 DEF Agreement
<1>3. r.current_renewal * r.interval \in Nat
  BY <1>2, OneMore
<1> QED
  BY <1>1, <1>2, <1>3 DEF Paced, r

LEMMA RenewalsHold == RetainerSpec => []RetainersPaced
<1>1. RetainerInv /\ [RetainerCall \/ RetainerClock]_retainerVars => RetainerInv'
  BY RetainerStep
<1> QED
  BY RetainerStart, <1>1, PacedMeansSo, PTL DEF RetainerSpec

-----------------------------------------------------------------------------
(***************************************************************************)
(* Administration and retainer live on the clock of the escrow contract,   *)
(* which none of its calls moves: both contracts together implement each   *)
(* of the two on its own.                                                  *)
(***************************************************************************)
LEMMA CallsTakeNoTime == ASSUME Next  PROVE now' = now \/ Tick
<1>1. CASE Posting
  BY <1>1 DEF Posting, PostJob, PostJobWithCategories, PostJobWithReferral, CreateJob
<1>2. ASSUME NEW u, NEW j, Working(u, j)  PROVE now' = now
  BY <1>2 DEF Working, AcceptJob, SubmitWork, RejectWork, ExtendDeadline, TopUpEscrow, RaiseDispute,
     Advance
<1>3. ASSUME NEW u, NEW j, Ending(u, j)  PROVE now' = now
  BY <1>3 DEF Ending, ApproveByClient, ApproveByApprover, PayApproved, CancelJob, RelayCancelJob,
     FreelancerCancelJob, EnforceDeadline, MutualCancel, Refund
<1>4. ASSUME NEW j, Judging(j)  PROVE now' = now
  BY <1>4 DEF Judging, ResolveDispute, ResolveDisputeSplit, SubmitVerdict
<1>5. \A f : SetFees(f) \/ SetPolicy(f) \/ SetOracles(f) => now' = now
  BY DEF SetFees, SetPolicy, SetOracles
<1>6. CASE FeeChange
  BY <1>5, <1>6 DEF FeeChange, update_fee, update_fee_bps, update_fee_tier, set_fee_exemption,
     set_late_fee_bps, set_late_fee_enabled, update_burn_percentage, update_dispute_fee,
     update_oracle_fee, set_oracle_enabled, register_oracle, remove_oracle
<1>7. CASE PolicyChange
  BY <1>5, <1>7 DEF PolicyChange, pause_module, resume_module, add_to_blacklist,
     remove_from_blacklist, add_to_whitelist, remove_from_whitelist, set_whitelist_mode,
     add_approver, remove_approver, set_high_value_threshold, set_required_approvals,
     set_trusted_forwarder, set_max_jobs_per_user, set_max_active_jobs_per_client,
     set_min_rating_to_accept, set_exempt_verified_freelancers, add_allowed_token,
     remove_allowed_token, set_job_hold
<1>8. CASE MoneyOut \/ Reputation
  BY <1>8 DEF MoneyOut, Reputation, Withdraw, withdraw_fees, execute_burn, register_referral,
     withdraw_referral_earnings, set_onboarding_bonus, claim_onboarding_bonus, SetPeople,
     verify_freelancer, unverify_freelancer, rate_freelancer
<1> QED
  BY <1>1, <1>2, <1>3, <1>4, <1>6, <1>7, <1>8 DEF Next

LEMMA EscrowTakesItsTime == ASSUME EscrowContract  PROVE now' = now \/ Tick
<1>1. CASE EscrowCall
  BY <1>1, CallsTakeNoTime DEF EscrowCall
<1>2. CASE RecordsCall
  <2>1. CASE UNCHANGED vars
    BY <2>1 DEF vars
  <2>2. ASSUME NEW u, NEW a, NEW d, NEW t, NEW n, PostJobWithNonce(u, a, d, t, n)  PROVE now' = now
    BY <2>2 DEF PostJobWithNonce, PostJobWithCategories, CreateJob
  <2> QED
    BY <1>2, <2>1, <2>2 DEF RecordsCall, ArchiveOldJobs, UnarchiveJob
<1>3. CASE RecoveryCall
  <2>1. CASE UNCHANGED vars
    BY <2>1 DEF vars
  <2>2. ASSUME NEW p, execute_recovery(p)  PROVE now' = now
    BY <2>2 DEF execute_recovery, Refund
  <2> QED
    BY <1>3, <2>1, <2>2 DEF RecoveryCall, set_stuck_threshold, set_recovery_signer,
       set_recovery_signer_threshold, propose_recovery, approve_recovery
<1>4. CASE UNCHANGED vars
  BY <1>4 DEF vars
<1> QED
  BY <1>1, <1>2, <1>3, <1>4 DEF EscrowContract

LEMMA ContractsGovern ==
  ASSUME TypeOK, [ContractsNext]_contractVars  PROVE [GovernanceCall \/ TimePasses]_governanceVars
<1>1. CASE EscrowContract /\ UNCHANGED governed
  BY <1>1, EscrowTakesItsTime DEF Tick, TypeOK, TimePasses, governed, governanceVars, adminVars,
     upgradeVars
<1>2. CASE RetainerCall /\ UNCHANGED <<vars, governed>>
  BY <1>2 DEF vars, governed, governanceVars, adminVars, upgradeVars
<1>3. CASE UNCHANGED contractVars
  BY <1>3 DEF contractVars, vars, governed, governanceVars, adminVars, upgradeVars
<1> QED
  BY <1>1, <1>2, <1>3 DEF ContractsNext, EscrowContract

LEMMA ContractsRetain ==
  ASSUME TypeOK, [ContractsNext]_contractVars  PROVE [RetainerCall \/ RetainerClock]_retainerVars
<1>1. CASE EscrowContract /\ UNCHANGED agreements
  <2>1. now' = now \/ Tick
    BY <1>1, EscrowTakesItsTime
  <2> QED
    BY <1>1, <2>1 DEF Tick, TypeOK, RetainerClock, agreements, retainerVars
<1>2. CASE UNCHANGED contractVars
  BY <1>2 DEF contractVars, vars, agreements, retainerVars
<1> QED
  BY <1>1, <1>2 DEF ContractsNext

LEMMA ContractsStayTyped == ContractsSpec => []TypeOK
BY ContractsStart, ContractsKeep, PTL DEF ContractsSpec

\* Whatever else the two contracts do, administration and upgrades behave as
\* they do alone under a clock that only moves forward: none of the other
\* calls writes the administrator, the nomination, or the pending code.
THEOREM GovernanceImplemented == ContractsSpec => GovernanceSpec
<1>1. ContractsInit => now \in Nat /\ GovernanceInit
  BY ContractsStart DEF ContractsInit, TypeOK
<1>2. TypeOK /\ [ContractsNext]_contractVars => [GovernanceCall \/ TimePasses]_governanceVars
  BY ContractsGovern
<1> QED
  BY <1>1, <1>2, ContractsStayTyped, PTL DEF ContractsSpec, GovernanceSpec

\* The retainer contract, too: the escrow contract moves its clock only.
THEOREM RetainerImplemented == ContractsSpec => RetainerSpec
<1>1. ContractsInit => now \in Nat /\ RetainerInit
  BY ContractsStart DEF ContractsInit, TypeOK
<1>2. TypeOK /\ [ContractsNext]_contractVars => [RetainerCall \/ RetainerClock]_retainerVars
  BY ContractsRetain
<1> QED
  BY <1>1, <1>2, ContractsStayTyped, PTL DEF ContractsSpec, RetainerSpec

\* Whoever may accept the administration was nominated by the one who has it:
\* transfer_admin, transfer_ownership and their cancellation in any order.
THEOREM NominationsAreCurrent == ContractsSpec => []NominationIsCurrent
BY GovernanceImplemented, NominationsHold, PTL

\* execute_upgrade installs no hash before the timelock after its last
\* proposal by propose_upgrade.
THEOREM UpgradesWait == ContractsSpec => UpgradeWaits
BY GovernanceImplemented, TimelockHolds

\* renew_retainer advances an agreement at most once per interval and at most
\* as often as agreed, whoever calls it and when.
THEOREM RenewalsArePaced == ContractsSpec => []RetainersPaced
BY RetainerImplemented, RenewalsHold
-----------------------------------------------------------------------------
(***************************************************************************)
(* Emergency recovery.  Any number of proposals may be open for a job, and *)
(* the job may end by itself while they are; nobody asks at execution what *)
(* was true at the proposal.                                               *)
(***************************************************************************)
StampInv ==
  /\ createdAt \in [JobId -> Nat]
  /\ closedAt \in [JobId -> Nat \cup {NoTime}]

LEMMA StampStep ==
  ASSUME TypeOK, StampInv, [ContractsNext]_contractVars  PROVE StampInv'
<1>1. now \in Nat
  BY DEF TypeOK
<1>2. CASE Stamped
  BY <1>1, <1>2 DEF Stamped, StampInv
<1>3. CASE \E c \in UpkeepInputs.cutoffs : ArchiveOldJobs(c)
  BY <1>3 DEF ArchiveOldJobs, StampInv
<1>4. CASE UNCHANGED <<createdAt, closedAt>>
  BY <1>4 DEF StampInv
<1> QED
  BY <1>2, <1>3, <1>4
     DEF ContractsNext, EscrowContract, EscrowCall, RecordsCall, RecoveryCall, PostJobWithNonce,
         UnarchiveJob, set_stuck_threshold, set_recovery_signer, set_recovery_signer_threshold,
         propose_recovery, approve_recovery, execute_recovery, stampVars, recordVars, contractVars

\* Once posted, a job keeps its time of posting, and once ended it keeps all.
LEMMA PostedKeeps ==
  ASSUME TypeOK, CancelInv, TypeOK', CancelInv', StampInv, [ContractsNext]_contractVars,
         NEW j \in Posted
  PROVE  /\ j \in Posted' /\ createdAt'[j] = createdAt[j] /\ jobs'[j].amount >= jobs[j].amount
         /\ IsTerminal(jobs[j]) => jobs'[j] = jobs[j] /\ paid'[j] = paid[j]
<1>1. j \in JobId /\ j \in Nat /\ j <= jobsCount /\ jobsCount \in Nat /\ jobsCount' \in Nat
  BY DEF Posted, CancelInv, MoneyInv, EscrowMatchesStatus, TypeOK, JobTypeOK, JobId
<1>2. MoneyStep
  BY ContractStep
<1>3. KeepsItsTerms(j)
  BY <1>2, MoneyStepKeepsTerms DEF TermsKept
<1>4. jobsCount' >= jobsCount
  BY <1>1, <1>2 DEF MoneyStep, Calm, Opened, Edited, Raised, Closed
<1>5. j \in Posted'
  BY <1>1, <1>4 DEF Posted, CancelInv, MoneyInv, EscrowMatchesStatus
<1>6. createdAt'[j] = createdAt[j]
  <2>1. CASE Stamped
    BY <1>1, <2>1 DEF Stamped
  <2>2. CASE UNCHANGED createdAt
    BY <2>2
  <2> QED
    BY <2>1, <2>2
       DEF ContractsNext, EscrowContract, EscrowCall, RecordsCall, RecoveryCall, PostJobWithNonce,
           ArchiveOldJobs, UnarchiveJob, set_stuck_threshold, set_recovery_signer,
           set_recovery_signer_threshold, propose_recovery, approve_recovery, execute_recovery,
           stampVars, recordVars, contractVars
<1> QED
  BY <1>3, <1>5, <1>6 DEF KeepsItsTerms

(***************************************************************************)
(* A proposal comes due no sooner than the timelock after its job was      *)
(* posted, and once it is executed its job is cancelled with everything    *)
(* back at the client.  That a job is recovered once is not asked for by   *)
(* execute_recovery: it follows because the job has ended.                 *)
(***************************************************************************)
ProposalWaits(p) ==
  /\ proposals[p].job \in Posted
  /\ proposals[p].after > createdAt[proposals[p].job] + RECOVERY_TIMELOCK

RefundedInFull(p) ==
  LET j == proposals[p].job
  IN  /\ jobs[j].status = "Cancelled"
      /\ paid[j].client = jobs[j].amount
      /\ now >= proposals[p].after

RecoveredOnce ==
  /\ \A p \in DOMAIN proposals :
       ProposalWaits(p) /\ (proposals[p].executed => RefundedInFull(p))
  /\ \A p, q \in DOMAIN proposals :
       p # q /\ proposals[p].executed /\ proposals[q].executed =>
         proposals[p].job # proposals[q].job

RecoveryInv == RecoveryTypeOK /\ RecoveredOnce

\* What a step leaves of a proposal that it leaves alone.
LEMMA ProposalKept ==
  ASSUME TypeOK, CancelInv, TypeOK', CancelInv', StampInv, RecoveryInv,
         [ContractsNext]_contractVars,
         NEW p \in DOMAIN proposals, NEW q \in DOMAIN proposals',
         proposals'[q].job = proposals[p].job, proposals'[q].after = proposals[p].after
  PROVE  /\ ProposalWaits(q)'
         /\ proposals[p].executed => RefundedInFull(q)'
<1> DEFINE j == proposals[p].job
<1>1. /\ j \in Posted /\ proposals[p].after > createdAt[j] + RECOVERY_TIMELOCK
      /\ proposals[p].executed => /\ jobs[j].status = "Cancelled" /\ paid[j].client = jobs[j].amount
                                  /\ now >= proposals[p].after
  BY DEF RecoveryInv, RecoveredOnce, ProposalWaits, RefundedInFull
<1> HIDE DEF j
<1>2. /\ j \in Posted' /\ createdAt'[j] = createdAt[j]
      /\ IsTerminal(jobs[j]) => jobs'[j] = jobs[j] /\ paid'[j] = paid[j]
  BY <1>1, PostedKeeps
<1>3. now' >= now /\ now \in Nat /\ now' \in Nat
  <2>1. now' = now \/ Tick
    BY EscrowTakesItsTime DEF ContractsNext, contractVars, vars
  <2> QED
    BY <2>1 DEF Tick, TypeOK
<1>4. proposals[p].after \in Nat
  <2>1. proposals[p] \in Proposal
    BY DEF RecoveryInv, RecoveryTypeOK
  <2> QED
    BY <2>1 DEF Proposal
<1>5. proposals'[q].job = j /\ proposals'[q].after = proposals[p].after
  BY DEF j
<1>6. ProposalWaits(q)'
  BY <1>1, <1>2, <1>5 DEF ProposalWaits
<1>7. proposals[p].executed => RefundedInFull(q)'
  BY <1>1, <1>2, <1>3, <1>4, <1>5 DEF RefundedInFull, IsTerminal, TerminalStatus
<1> QED
  BY <1>6, <1>7

LEMMA ProposalMade ==
  ASSUME TypeOK, CancelInv, TypeOK', CancelInv', StampInv, RecoveryInv,
         [ContractsNext]_contractVars, NEW j \in JobId, propose_recovery(j)
  PROVE  RecoveryInv'
<1> DEFINE new == [job |-> j, after |-> now + RECOVERY_TIMELOCK,
                   executed |-> FALSE, approvedBy |-> {}]
<1> PICK n : n = Len(proposals) + 1
  OBVIOUS
<1>1. /\ proposals' = Append(proposals, new) /\ j \in Posted /\ now > createdAt[j]
      /\ jobs' = jobs /\ createdAt' = createdAt
      /\ UNCHANGED <<signers, signersNeeded, stuckThreshold>>
  BY DEF propose_recovery, is_job_stuck, vars, jobVars, recordVars, stampVars
<1>2. new \in Proposal /\ createdAt[j] \in Nat /\ now \in Nat /\ RECOVERY_TIMELOCK \in Nat
  BY RecoveryAssumption DEF TypeOK, StampInv, Proposal
<1>3. proposals \in Seq(Proposal)
  BY DEF RecoveryInv, RecoveryTypeOK
<1>4. /\ new.job = j /\ new.after = now + RECOVERY_TIMELOCK /\ new.executed = FALSE
  OBVIOUS
<1> HIDE DEF new
<1>5. /\ proposals' \in Seq(Proposal) /\ DOMAIN proposals' = DOMAIN proposals \cup {n}
      /\ proposals'[n] = new /\ \A p \in DOMAIN proposals : p # n /\ proposals'[p] = proposals[p]
  BY <1>1, <1>2, <1>3
<1>6. ProposalWaits(n)' /\ ~proposals'[n].executed
  <2>1. proposals'[n].job = j /\ proposals'[n].after = now + RECOVERY_TIMELOCK
        /\ ~proposals'[n].executed
    BY <1>4, <1>5
  <2>2. j \in Posted' /\ createdAt'[j] = createdAt[j]
    BY <1>1 DEF Posted
  <2>3. now + RECOVERY_TIMELOCK > createdAt'[j] + RECOVERY_TIMELOCK
    BY <1>1, <1>2
  <2>4. proposals'[n].job \in Posted' /\ RECOVERY_TIMELOCK \in Nat
        /\ proposals'[n].after > createdAt'[proposals'[n].job] + RECOVERY_TIMELOCK
    BY <1>2, <2>1, <2>2, <2>3
  <2> QED
    BY <2>1, <2>4 DEF ProposalWaits
<1>7. ASSUME NEW p \in DOMAIN proposals
      PROVE  ProposalWaits(p)' /\ (proposals'[p].executed => RefundedInFull(p)')
  BY <1>5, <1>7, ProposalKept
<1>8. RecoveredOnce'
  <2>1. \A p, q \in DOMAIN proposals :
          p # q /\ proposals[p].executed /\ proposals[q].executed =>
            proposals[p].job # proposals[q].job
    BY DEF RecoveryInv, RecoveredOnce
  <2>2. \A p, q \in DOMAIN proposals' :
          p # q /\ proposals'[p].executed /\ proposals'[q].executed =>
            proposals'[p].job # proposals'[q].job
    BY <1>5, <1>6, <2>1
  <2>3. \A p \in DOMAIN proposals' :
          ProposalWaits(p)' /\ (proposals'[p].executed => RefundedInFull(p)')
    <3> SUFFICES ASSUME NEW p \in DOMAIN proposals \cup {n}
                 PROVE  ProposalWaits(p)' /\ (proposals'[p].executed => RefundedInFull(p)')
      BY <1>5
    <3>1. CASE p = n
      BY <1>6, <3>1
    <3> QED
      BY <1>7, <3>1
  <2> QED
    BY <2>2, <2>3 DEF RecoveredOnce
<1>9. RecoveryTypeOK'
  BY <1>1, <1>5 DEF RecoveryInv, RecoveryTypeOK
<1> QED
  BY <1>8, <1>9 DEF RecoveryInv

LEMMA ProposalApproved ==
  ASSUME TypeOK, CancelInv, TypeOK', CancelInv', StampInv, RecoveryInv,
         [ContractsNext]_contractVars, NEW u \in Users, NEW p \in DOMAIN proposals,
         approve_recovery(u, p)
  PROVE  RecoveryInv'
<1>1. /\ proposals' = [proposals EXCEPT ![p].approvedBy = @ \cup {u}]
      /\ UNCHANGED <<signers, signersNeeded, stuckThreshold>>
  BY DEF approve_recovery
<1>2. proposals \in Seq(Proposal) /\ \A q \in DOMAIN proposals : proposals[q] \in Proposal
  BY DEF RecoveryInv, RecoveryTypeOK
<1>3. /\ DOMAIN proposals' = DOMAIN proposals
      /\ proposals' \in Seq(Proposal)
      /\ \A q \in DOMAIN proposals :
           /\ proposals'[q].job = proposals[q].job /\ proposals'[q].after = proposals[q].after
           /\ proposals'[q].executed = proposals[q].executed
  <2> DEFINE new == [proposals[p] EXCEPT !.approvedBy = @ \cup {u}]
  <2>1. /\ new \in Proposal /\ new.job = proposals[p].job /\ new.after = proposals[p].after
        /\ new.executed = proposals[p].executed
    BY <1>2 DEF Proposal
  <2>2. proposals' = [proposals EXCEPT ![p] = new]
    BY <1>1
  <2> HIDE DEF new
  <2> QED
    BY <1>2, <2>1, <2>2
<1>4. ASSUME NEW q \in DOMAIN proposals
      PROVE  ProposalWaits(q)' /\ (proposals'[q].executed => RefundedInFull(q)')
  BY <1>3, <1>4, ProposalKept
<1>5. RecoveredOnce'
  BY <1>3, <1>4 DEF RecoveryInv, RecoveredOnce
<1>6. RecoveryTypeOK'
  BY <1>1, <1>3 DEF RecoveryInv, RecoveryTypeOK
<1> QED
  BY <1>5, <1>6 DEF RecoveryInv

\* A recovery gives the client the whole amount.
LEMMA RefundIsWhole ==
  ASSUME TypeOK, CancelInv, TypeOK', NEW j \in JobId, Refund(j), is_active_job_status(jobs[j])
  PROVE  jobs'[j].status = "Cancelled" /\ paid'[j].client = jobs'[j].amount
<1>1. Ends(j, "Cancelled", RefundSplit(jobs[j].amount))
  BY SettleEnds DEF Refund
<1>2. jobs'[j].status = "Cancelled" /\ jobs'[j].amount = jobs[j].amount /\ jobs[j].amount \in Nat
  BY <1>1, EndsKeeps, JobRecord DEF TypeOK, Job
<1>3. paid[j] \in WholeShares /\ Total(paid[j]) = 0
  BY DEF CancelInv, MoneyInv, SettledInFull, IsTerminal, TerminalStatus, is_active_job_status,
     ActiveStatus
<1>4. paid[j].client = 0
  <2>1. /\ paid[j].client \in Nat /\ paid[j].freelancer \in Nat
        /\ paid[j].accrued \in Nat /\ paid[j].burned \in Nat
    BY <1>3 DEF WholeShares
  <2>2. paid[j].client + paid[j].freelancer + paid[j].accrued + paid[j].burned = 0
    BY <1>3 DEF Total
  <2> QED
    BY <2>1, <2>2, NothingInAll
<1>5. paid'[j].client = paid[j].client + RefundSplit(jobs[j].amount).client
  BY <1>1 DEF Ends, AddSplit, TypeOK, MoneyTypeOK
<1>6. RefundSplit(jobs[j].amount).client = jobs[j].amount
  BY DEF RefundSplit, NoSplit
<1> QED
  BY <1>2, <1>4, <1>5, <1>6

LEMMA ProposalExecuted ==
  ASSUME TypeOK, CancelInv, TypeOK', CancelInv', StampInv, RecoveryInv,
         [ContractsNext]_contractVars, NEW p \in DOMAIN proposals, execute_recovery(p)
  PROVE  RecoveryInv'
<1> DEFINE j == proposals[p].job
<1>1. /\ proposals' = [proposals EXCEPT ![p].executed = TRUE] /\ now >= proposals[p].after
      /\ UNCHANGED <<signers, signersNeeded, stuckThreshold, now>>
  BY DEF execute_recovery, Refund
<1>2. /\ j \in JobId /\ Refund(j) /\ ~IsTerminal(jobs[j]) /\ is_active_job_status(jobs[j])
  <2>1. /\ j \in JobId /\ Refund(j) /\ jobs[j].status # "Absent" /\ ~IsTerminal(jobs[j])
    BY DEF execute_recovery, Recoverable, Posted
  <2> HIDE DEF j
  <2> QED
    BY <2>1 DEF TypeOK, JobTypeOK, Job, JobStatus, is_active_job_status, IsTerminal,
       ActiveStatus, TerminalStatus
<1>3. proposals \in Seq(Proposal) /\ \A q \in DOMAIN proposals : proposals[q] \in Proposal
  BY DEF RecoveryInv, RecoveryTypeOK
<1>4. /\ DOMAIN proposals' = DOMAIN proposals
      /\ proposals' \in Seq(Proposal)
      /\ \A q \in DOMAIN proposals :
           /\ proposals'[q].job = proposals[q].job /\ proposals'[q].after = proposals[q].after
           /\ proposals'[q].executed <=> q = p \/ proposals[q].executed
  <2> DEFINE new == [proposals[p] EXCEPT !.executed = TRUE]
  <2>1. /\ new \in Proposal /\ new.job = proposals[p].job /\ new.after = proposals[p].after
        /\ new.executed = TRUE
    BY <1>3 DEF Proposal
  <2>2. proposals' = [proposals EXCEPT ![p] = new]
    BY <1>1
  <2>3. \A q \in DOMAIN proposals : proposals[q].executed \in BOOLEAN
    BY <1>3 DEF Proposal
  <2> HIDE DEF new
  <2> QED
    BY <1>3, <2>1, <2>2, <2>3
<1>5. jobs'[j].status = "Cancelled" /\ paid'[j].client = jobs'[j].amount
  BY <1>2, RefundIsWhole
<1>6. RefundedInFull(p)'
  BY <1>1, <1>4, <1>5 DEF RefundedInFull
<1>7. ASSUME NEW q \in DOMAIN proposals
      PROVE  ProposalWaits(q)' /\ (proposals'[q].executed => RefundedInFull(q)')
  BY <1>4, <1>6, <1>7, ProposalKept
\* No other proposal has recovered the job, for it has not ended.
<1>8. ASSUME NEW q \in DOMAIN proposals, proposals[q].executed  PROVE proposals[q].job # j
  BY <1>2, <1>8 DEF RecoveryInv, RecoveredOnce, RefundedInFull, IsTerminal, TerminalStatus
<1>9. RecoveredOnce'
  <2>1. \A q, r \in DOMAIN proposals :
          q # r /\ proposals[q].executed /\ proposals[r].executed =>
            proposals[q].job # proposals[r].job
    BY DEF RecoveryInv, RecoveredOnce
  <2>2. \A q, r \in DOMAIN proposals' :
          q # r /\ proposals'[q].executed /\ proposals'[r].executed =>
            proposals'[q].job # proposals'[r].job
    BY <1>4, <1>8, <2>1
  <2> QED
    BY <1>4, <1>7, <2>2 DEF RecoveredOnce
<1>10. RecoveryTypeOK'
  BY <1>1, <1>4 DEF RecoveryInv, RecoveryTypeOK
<1> QED
  BY <1>9, <1>10 DEF RecoveryInv

LEMMA RecoveryStep ==
  ASSUME TypeOK, CancelInv, StampInv, RecoveryInv, [ContractsNext]_contractVars
  PROVE  RecoveryInv'
<1>1. TypeOK' /\ CancelInv'
  BY ContractsKeep
<1>2. CASE \E j \in JobId : propose_recovery(j)
  BY <1>1, <1>2, ProposalMade
<1>3. CASE \E p \in DOMAIN proposals : \E u \in Users : approve_recovery(u, p)
  BY <1>1, <1>3, ProposalApproved
<1>4. CASE \E p \in DOMAIN proposals : execute_recovery(p)
  BY <1>1, <1>4, ProposalExecuted
<1>5. ASSUME UNCHANGED proposals, RecoveryTypeOK'  PROVE RecoveryInv'
  <2>1. ASSUME NEW p \in DOMAIN proposals
        PROVE  ProposalWaits(p)' /\ (proposals'[p].executed => RefundedInFull(p)')
    BY <1>1, <1>5, <2>1, ProposalKept
  <2> QED
    BY <1>5, <2>1 DEF RecoveryInv, RecoveredOnce
<1>6. CASE UNCHANGED recoveryVars
  BY <1>5, <1>6 DEF recoveryVars, RecoveryInv, RecoveryTypeOK
<1>7. CASE \/ \E t \in UpkeepInputs.stuckThresholds : set_stuck_threshold(t)
           \/ \E u \in UpkeepInputs.signers, b \in BOOLEAN : set_recovery_signer(u, b)
           \/ \E n \in UpkeepInputs.signersNeeded : set_recovery_signer_threshold(n)
  BY <1>5, <1>7, ContractsAssumption
     DEF set_stuck_threshold, set_recovery_signer, set_recovery_signer_threshold,
         RecoveryInv, RecoveryTypeOK
<1> QED
  BY <1>2, <1>3, <1>4, <1>6, <1>7
     DEF ContractsNext, EscrowContract, EscrowCall, RecordsCall, RecoveryCall, PostJobWithNonce,
         ArchiveOldJobs, UnarchiveJob, contractVars

LEMMA RecoveryStart == ContractsInit => StampInv /\ RecoveryInv
<1>1. <<>> \in Seq(Proposal) /\ DOMAIN <<>> = {}
  OBVIOUS
<1> QED
  BY <1>1, RecoveryAssumption
     DEF ContractsInit, RecoveryInit, RecordsInit, StampInv, RecoveryInv, RecoveryTypeOK,
         RecoveredOnce

\* execute_recovery: what it recovered went back to the client whole, no
\* sooner than the timelock after the posting, and no two proposals recover
\* one job, however many were open for it.
THEOREM RecoveryRefundsOnce == ContractsSpec => []RecoveredOnce
<1>1. RecoveryInv => RecoveredOnce
  BY DEF RecoveryInv
<1> QED
  BY <1>1, RecoveryStart, StampStep, RecoveryStep, ContractsStart, ContractsKeep, PTL
     DEF ContractsSpec

-----------------------------------------------------------------------------
(***************************************************************************)
(* Types.                                                                  *)
(***************************************************************************)
LEMMA RecordsTyped ==
  ASSUME TypeOK, StampInv, KeptInv, NonceInv  PROVE RecordsTypeOK
<1>1. jobsCount \in Nat /\ jobsCount <= MaxJobs /\ MaxJobs \in Nat
  BY CustodyAssumption DEF TypeOK, JobTypeOK
<1>2. archived \subseteq JobId /\ archiveCount \in Nat
  <2>1. 1 .. jobsCount \subseteq JobId /\ archived \subseteq 1 .. jobsCount
    BY CountIsJob DEF KeptInv
  <2>2. IsFiniteSet(archived)
    <3>1. IsFiniteSet(1 .. jobsCount)
      BY <1>1, FS_Interval
    <3> QED
      BY <2>1, <3>1, FS_Subset
  <2>3. Cardinality(archived) \in Nat
    BY <2>2, FS_CardinalityType
  <2> QED
    BY <2>1, <2>3 DEF KeptInv
<1>3. nonceJob \in [Users -> [Nonces -> 0 .. MaxJobs]]
  <2>1. nonceJob \in [Users -> [Nonces -> Nat]]
        /\ \A u \in Users, n \in Nonces : nonceJob[u][n] <= jobsCount
    BY DEF NonceInv
  <2>2. \A u \in Users, n \in Nonces : nonceJob[u][n] \in 0 .. MaxJobs
    BY <1>1, <2>1
  <2>3. \A u \in Users : nonceJob[u] \in [Nonces -> 0 .. MaxJobs]
    BY <2>1, <2>2
  <2> QED
    BY <2>1, <2>3
<1> QED
  BY <1>2, <1>3 DEF RecordsTypeOK, StampInv, KeptInv, NonceInv

\* Every variable of the escrow contract keeps its type: the settings,
\* counters and balances, the stamps, lists and nonces kept beside a job, the
\* recovery proposals, and the administration.
THEOREM ContractsAreTyped == ContractsSpec => []ContractsTypeOK
<1>1. TypeOK /\ StampInv /\ KeptInv /\ NonceInv /\ RecoveryInv /\ GovernanceTypeOK
        => ContractsTypeOK
  BY RecordsTyped DEF RecoveryInv, ContractsTypeOK
<1>2. ContractsSpec => [](TypeOK /\ StampInv /\ KeptInv /\ NonceInv /\ RecoveryInv)
  <2>1. TypeOK /\ CancelInv /\ KeptInv /\ NonceInv /\ [ContractsNext]_contractVars
          => KeptInv' /\ NonceInv'
    BY KeptStep, NonceStep
  <2> QED
    BY <2>1, KeptStart, NonceStart, RecoveryStart, StampStep, RecoveryStep, ContractsStart,
       ContractsKeep, PTL DEF ContractsSpec
<1>3. ContractsSpec => []GovernanceTypeOK
  BY GovernanceImplemented, NominationsHold, PTL
<1> QED
  BY <1>1, <1>2, <1>3, PTL
=============================================================================

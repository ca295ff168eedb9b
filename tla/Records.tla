------------------------------ MODULE Records ------------------------------
(***************************************************************************)
(* The records kept beside a job: when it was posted and ended, the list   *)
(* of all ids, the archive that ended jobs are moved to, and the nonces by *)
(* which clients make a repeated posting harmless.                         *)
(*                                                                         *)
(* jobs[j] stands for the record of job j wherever it is stored: under     *)
(* Job(j), or under ArchivedJob(j) while j is archived.                    *)
(***************************************************************************)
EXTENDS EscrowProperties, Lists

CONSTANTS ARCHIVE_THRESHOLD,  \* a job is archived no sooner after its end
          Nonces              \* nonces clients send

ASSUME RecordsAssumption ==
  /\ ARCHIVE_THRESHOLD \in Nat
  /\ Nonces \subseteq Nat

VARIABLES
  createdAt,     \* created_at of the record
  closedAt,      \* CompletedAt(id) or CancelledAt(id)
  allIds,        \* AllJobIds
  archived,      \* ids with an ArchivedJob record
  archiveCount,  \* ArchiveCount
  nonceJob,      \* ClientNonce(client, nonce): the job it posted, or 0
  highestNonce,  \* ClientNonceCounter(client)
  sentWith       \* history: the nonce a job was posted with, or NoNonce

stampVars   == <<createdAt, closedAt, allIds>>
archiveVars == <<archived, archiveCount>>
nonceVars   == <<nonceJob, highestNonce, sentWith>>
recordVars  == <<stampVars, archiveVars, nonceVars>>

NoTime  == -1
NoNonce == -1

RecordsInit ==
  /\ createdAt = [j \in JobId |-> 0]
  /\ closedAt = [j \in JobId |-> NoTime]
  /\ allIds = <<>>
  /\ archived = {}
  /\ archiveCount = 0
  /\ nonceJob = [u \in Users |-> [n \in Nonces |-> 0]]
  /\ highestNonce = [u \in Users |-> 0]
  /\ sentWith = [j \in JobId |-> NoNonce]

-----------------------------------------------------------------------------
\* Every posting appends to the list of ids and every path that ends a job
\* notes the time (mark_job_completed_at, mark_job_cancelled_at).
Stamped ==
  /\ createdAt' = [j \in JobId |-> IF j > jobsCount /\ j <= jobsCount' THEN now ELSE createdAt[j]]
  /\ closedAt' = [j \in JobId |->
       IF IsTerminal(jobs'[j]) /\ ~IsTerminal(jobs[j]) THEN now ELSE closedAt[j]]
  /\ allIds' = IF jobsCount' = jobsCount THEN allIds ELSE Append(allIds, jobsCount')

\* get_job_or_panic finds no record of an archived job: no call changes it.
ArchivedUntouched ==
  \A j \in archived : jobs'[j] = jobs[j] /\ (j \in held' <=> j \in held)

\* Any other call of the contract, and time.
EscrowCall ==
  /\ Next
  /\ ArchivedUntouched
  /\ Stamped
  /\ UNCHANGED <<archiveVars, nonceVars>>

Fault_FreshNonce_counts(client, nonce) == nonce >= highestNonce[client]

FreshNonce(client, nonce) == nonceJob[client][nonce] = 0

PostJobWithNonce(client, amount, deadline, token, nonce) ==
  /\ FreshNonce(client, nonce)
  /\ PostJobWithCategories(client, amount, 0, deadline, token)
  /\ nonceJob' = [nonceJob EXCEPT ![client][nonce] = jobsCount']
  /\ highestNonce' = [highestNonce EXCEPT ![client] = IF nonce > @ THEN nonce ELSE @]
  /\ sentWith' = [sentWith EXCEPT ![jobsCount'] = nonce]
  /\ Stamped
  /\ UNCHANGED archiveVars

-----------------------------------------------------------------------------
\* The stamps do not survive the archive: after a return to the live jobs the
\* time of posting stands in for them.
job_terminal_timestamp(j) == IF closedAt[j] # NoTime THEN closedAt[j] ELSE createdAt[j]

Earlier(s, t)    == IF s < t THEN s ELSE t
Minus(time, age) == IF time < age THEN 0 ELSE time - age   \* u64 saturating_sub

Due(cutoff) ==
  {j \in 1 .. jobsCount \ archived :
     /\ IsTerminal(jobs[j])
     /\ job_terminal_timestamp(j) <= Earlier(cutoff, Minus(now, ARCHIVE_THRESHOLD))}

ArchiveOldJobs(cutoff) ==
  LET gone == Due(cutoff)
  IN  /\ archived' = archived \cup gone
      /\ archiveCount' = archiveCount + Cardinality(gone)
      /\ closedAt' = [j \in JobId |-> IF j \in gone THEN NoTime ELSE closedAt[j]]
      /\ allIds' = Without(allIds, gone)
      /\ UNCHANGED <<vars, createdAt, nonceVars>>

Fault_UnarchiveJob_again(j) ==
  /\ j \in 1 .. jobsCount
  /\ archived' = archived \ {j}
  /\ archiveCount' = Minus(archiveCount, 1)
  /\ allIds' = Append(allIds, j)
  /\ UNCHANGED <<vars, createdAt, closedAt, nonceVars>>

UnarchiveJob(j) ==
  /\ j \in archived
  /\ archived' = archived \ {j}
  /\ archiveCount' = Minus(archiveCount, 1)
  /\ allIds' = Append(allIds, j)
  /\ UNCHANGED <<vars, createdAt, closedAt, nonceVars>>

-----------------------------------------------------------------------------
RecordsTypeOK ==
  /\ createdAt \in [JobId -> Nat]
  /\ closedAt \in [JobId -> Nat \cup {NoTime}]
  /\ allIds \in Seq(JobId)
  /\ archived \subseteq JobId
  /\ archiveCount \in Nat
  /\ nonceJob \in [Users -> [Nonces -> 0 .. MaxJobs]]
  /\ highestNonce \in [Users -> Nonces \cup {0}]
  /\ sentWith \in [JobId -> Nonces \cup {NoNonce}]

\* No job with money in it is put away.
ArchivedSettled == \A j \in archived : IsTerminal(jobs[j]) /\ escrowBal[j] = 0

\* However often jobs go to the archive and back, every job posted is in
\* exactly one of the two places, once, the counter of the archive is right,
\* and no job with money in it is ever put away.
JobsKeptOnce ==
  /\ ToSet(allIds) = 1 .. jobsCount \ archived
  /\ Len(allIds) = Cardinality(ToSet(allIds))
  /\ archiveCount = Cardinality(archived)
  /\ ArchivedSettled

\* However often a client repeats a posting, and in whatever order he uses
\* his nonces, a nonce stands for at most one job, that job is his, and he can
\* find it under the nonce he sent.
NonceNamesItsJob ==
  \A u \in Users :
    /\ \A n \in Nonces :
         /\ {j \in Posted : jobs[j].client = u /\ sentWith[j] = n} = {nonceJob[u][n]} \ {0}
         /\ nonceJob[u][n] # 0 => n <= highestNonce[u]
    /\ highestNonce[u] # 0 => nonceJob[u][highestNonce[u]] # 0
=============================================================================

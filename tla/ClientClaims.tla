---------------------------- MODULE ClientClaims ----------------------------
(***************************************************************************)
(* What the web client says of itself and does not keep.                   *)
(***************************************************************************)
EXTENDS ClientProperties

\* "Fetches every job on the contract in batches and filters by the provided
\* predicate.  Resolves when all batches complete" (lib/hooks/useBatchJobs.ts):
\* a fetch that resolves and was not aborted has seen every job.
EveryJobFetched ==
  On("batch") => (ui.phase = "resolved" /\ ~ui.aborted => ToSet(ui.result) = 1..BatchCount)

\* The client while it fetches in batches, and nothing else.
BatchSpec == ClientInit /\ focus = "batch" /\ [][ClientNext]_clientVars
=============================================================================

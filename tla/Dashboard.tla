------------------------------ MODULE Dashboard ------------------------------
(***************************************************************************)
(* The dashboard (app/dashboard/page.tsx): the jobs of the connected       *)
(* wallet, what it may do to each of them, the same for several at once,   *)
(* and the jobs it has bookmarked.                                         *)
(***************************************************************************)
EXTENDS Browser

CONSTANT DashActions   \* sets of operations explored together

NoAct    == [op |-> "none", job |-> 0, quick |-> FALSE]
Act(op, j, quick) == [op |-> op, job |-> j, quick |-> quick]
By(act)  == [as |-> wallet, act |-> act]
NoRun    == [left |-> <<>>, done |-> 0, total |-> 0, failed |-> 0]

DashboardUi ==
  [list |-> Nothing, fetching |-> FALSE, acting |-> 0, dialog |-> NoAct, celebrate |-> FALSE]

-----------------------------------------------------------------------------
(***************************************************************************)
(* fetchJobs, for the wallet of the closure that calls it.  A fetch aborts *)
(* the ones before it, which end all the same: with no jobs when they had  *)
(* not got further than their number, with all of them otherwise.  Each    *)
(* stores its list as soon as it has it, and asks for two counts then.     *)
(***************************************************************************)
Aborting(as) == {[a EXCEPT !.op = IF @ = "fetchJobs" THEN "aborted" ELSE @] : a \in as}

Refreshes(as, who) ==
  IF who # NoOne /\ Cardinality(as) < MaxAsks
  THEN Aborting(as) \cup {Ask(FreeId(as), "fetchJobs", [as |-> who, act |-> NoAct])} ELSE as

\* The function goes on with a fetch.
FetchesNext(a, arg) == Aborting(asks \ {a}) \cup {Ask(a.id, "fetchJobs", arg)}

fetchJobs ==
  /\ wallet # NoOne /\ Room
  /\ Goes([ui EXCEPT !.fetching = TRUE], Refreshes(asks, wallet))

\* The effect of the wallet: disconnecting empties the page.
DashboardWallet(who) ==
  /\ wallet # who /\ Room
  /\ wallet' = who
  /\ ui' = IF who = NoOne THEN [ui EXCEPT !.list = Nothing, !.fetching = FALSE]
                          ELSE [ui EXCEPT !.fetching = TRUE]
  /\ asks' = Refreshes(asks, who)
  /\ UNCHANGED <<focus, store, jobs>>

\* What follows an action once it is through, whatever came of it.
ActionOver(u, act) ==
  IF act = NoAct THEN u
  ELSE [u EXCEPT !.acting = 0,
                 !.celebrate = @ \/ act.op = "approveWork",
                 !.dialog = IF act.quick THEN NoAct ELSE @]

JobsFetched(a) ==
  /\ a.op \in {"fetchJobs", "aborted"} /\ Answered(a)
  /\ \/ /\ ~Failed(a)
        /\ Goes([ui EXCEPT !.list = ListFor(a.arg.as, a.seen)], Awaits(a, "counts", a.arg))
     \/ /\ a.op = "aborted"
        /\ Goes([ui EXCEPT !.list = Nothing], Awaits(a, "counts", a.arg))
     \/ /\ Failed(a)
        /\ Goes(ActionOver([ui EXCEPT !.fetching = FALSE], a.arg.act), Settled(a))

\* getCompletedJobsCount and getJobStatusCounts: neither can fail the fetch.
Counted(a) ==
  /\ a.op = "counts"
  /\ Goes(ActionOver([ui EXCEPT !.fetching = FALSE], a.arg.act), Settled(a))

-----------------------------------------------------------------------------
(***************************************************************************)
(* What the card of a job offers.  Its buttons are disabled while it is    *)
(* the job of actionLoading, which holds one job: an action on another     *)
(* card takes its place, and the first to end clears it.                   *)
(***************************************************************************)
postedJobs   == IF wallet = Client THEN {j \in JobIds : ui.list[j] # "none"} ELSE {}
acceptedJobs == IF wallet = Worker THEN {j \in JobIds : ui.list[j] # "none"} ELSE {}

getActions(j) ==
  IF j \in postedJobs
  THEN [Open |-> {"cancelJob"}, SubmittedForReview |-> {"approveWork"}, InProgress |-> {"enforceDeadline"},
        Completed |-> {}, Cancelled |-> {}, Disputed |-> {}][ui.list[j]]
  ELSE IF j \in acceptedJobs /\ ui.list[j] = "InProgress" THEN {"submitWork", "freelancerCancelJob"} ELSE {}

CardsShown == focus = "dashboard" /\ wallet # NoOne /\ ~ui.fetching /\ ui.dialog = NoAct

handleAction(u, act) ==
  Goes([u EXCEPT !.acting = act.job], asks \cup {Ask(FreeId(asks), act.op, By(act))})

\* With its confirmation switched off an action starts at once, and its dialog
\* stays on the page, disabled, until it is over.
requestDashAction(op, j) ==
  /\ CardsShown /\ ui.acting # j /\ op \in getActions(j) \cap store.acts
  /\ \/ /\ op \notin store.suppressed
        /\ Sets([ui EXCEPT !.dialog = Act(op, j, FALSE)])
     \/ /\ op \in store.suppressed /\ Room
        /\ handleAction([ui EXCEPT !.dialog = Act(op, j, TRUE)], Act(op, j, TRUE))

handleConfirmCancel ==
  /\ focus = "dashboard" /\ wallet # NoOne /\ Room
  /\ ui.dialog # NoAct /\ ui.acting # ui.dialog.job
  /\ handleAction([ui EXCEPT !.dialog = NoAct], [ui.dialog EXCEPT !.quick = FALSE])

DialogCancelled ==
  /\ focus = "dashboard" /\ ui.dialog # NoAct /\ ui.acting # ui.dialog.job
  /\ Sets([ui EXCEPT !.dialog = NoAct])

CelebrationClosed == focus = "dashboard" /\ Sets([ui EXCEPT !.celebrate = FALSE])

\* An action that returned is followed by a fetch of its own, after those that
\* the event of a cancellation starts.
ActionDone(a) ==
  /\ focus = "dashboard" /\ a.op \in store.acts /\ Answered(a)
  /\ \/ /\ ~Failed(a)
        /\ LET mine == FetchesNext(a, a.arg)
           IN  Goes([ui EXCEPT !.fetching = TRUE],
                    IF a.op = "cancelJob" THEN Refreshes(mine, wallet) ELSE mine)
     \/ /\ Failed(a)
        /\ Goes(ActionOver(ui, a.arg.act), Settled(a))

DashboardInit ==
  /\ focus = "dashboard" /\ ui = DashboardUi
  /\ \E acts \in DashActions : store \in [suppressed : {{}, acts}, acts : {acts}]

DashboardUser ==
  /\ focus = "dashboard"
  /\ \/ fetchJobs
     \/ handleConfirmCancel \/ DialogCancelled \/ CelebrationClosed
     \/ \E op \in store.acts, j \in JobIds : requestDashAction(op, j)
     \/ \E who \in Users \cup {NoOne} : DashboardWallet(who)

DashboardAnswer(a) ==
  /\ focus = "dashboard"
  /\ \/ a.op \in {"fetchJobs", "aborted"} /\ AnswerRead(a)
     \/ a.op \in store.acts /\ AnswerWrite(a, a.op, a.arg.as, a.arg.act.job)

DashboardStep(a) ==
  /\ focus \in {"dashboard", "bulk"}
  /\ JobsFetched(a) \/ Counted(a) \/ ActionDone(a)

-----------------------------------------------------------------------------
(***************************************************************************)
(* Several jobs at once.  Open jobs are chosen for a cancellation or for a *)
(* later deadline, submitted ones for an approval.  What was chosen stays  *)
(* chosen when the list changes.                                           *)
(***************************************************************************)
BulkUi ==
  [list |-> Nothing, fetching |-> FALSE, acting |-> 0,
   selected |-> {}, chosen |-> {}, modal |-> "none", batching |-> FALSE,
   cancelJob |-> NoRun, extendDeadline |-> NoRun]

BulkOps == {"cancelJob", "extendDeadline"}
openClientJobs  == {j \in postedJobs : ui.list[j] = "Open"}
pendingReview   == {j \in postedJobs : ui.list[j] = "SubmittedForReview"}
selectionCount  == Cardinality(openClientJobs \cap ui.selected)
SectionShown    == focus = "bulk" /\ wallet # NoOne /\ ~ui.fetching /\ ui.modal = "none"

handleToggleSelect(j) ==
  /\ SectionShown
  /\ \/ j \in openClientJobs /\ Sets([ui EXCEPT !.selected = IF j \in @ THEN @ \ {j} ELSE @ \cup {j}])
     \/ j \in pendingReview  /\ Sets([ui EXCEPT !.chosen = IF j \in @ THEN @ \ {j} ELSE @ \cup {j}])

handleSelectAllOpen ==
  /\ SectionShown /\ openClientJobs # {}
  /\ Sets([ui EXCEPT !.selected = IF openClientJobs \subseteq @ THEN {} ELSE openClientJobs])

\* The button of a run says how far it is, and is disabled meanwhile.
CanOpenBulk(op) ==
  /\ ui[op] = NoRun
  /\ selectionCount >= (IF op = "cancelJob" THEN 2 ELSE 1)

OpenBulk(op)  == SectionShown /\ CanOpenBulk(op) /\ Sets([ui EXCEPT !.modal = op])
CloseBulk     == focus = "bulk" /\ Sets([ui EXCEPT !.modal = "none"])

\* One call after another, for the jobs as they were chosen when it began.
BulkAsks(op, j) == asks \cup {Ask(FreeId(asks), op, By(Act(op, j, FALSE)))}

handleBulk(op) ==
  /\ focus = "bulk" /\ wallet # NoOne /\ ui.modal = op /\ ui.selected # {} /\ Room
  /\ LET ids == SetToSortSeq(ui.selected, <)
     IN  Goes([ui EXCEPT !.modal = "none",
                         ![op] = [left |-> ids, done |-> 0, total |-> Cardinality(ui.selected), failed |-> 0]],
              BulkAsks(op, Head(ids)))

\* A call that throws is counted and the run goes on; at the end the selection,
\* also what was added to it meanwhile, is dropped and the list fetched.
BulkStep(a) ==
  /\ focus = "bulk" /\ a.op \in BulkOps /\ Answered(a)
  /\ LET op   == a.op
         run  == [left |-> Tail(ui[op].left), done |-> ui[op].done + 1, total |-> ui[op].total,
                  failed |-> ui[op].failed + IF Failed(a) THEN 1 ELSE 0]
         next == IF run.left = <<>> THEN FetchesNext(a, [a.arg EXCEPT !.act = NoAct])
                 ELSE Awaits(a, op, [a.arg EXCEPT !.act = Act(op, Head(run.left), FALSE)])
         told == ~Failed(a) /\ op = "cancelJob"
     IN  Goes([ui EXCEPT ![op] = IF run.left = <<>> THEN NoRun ELSE run,
                         !.selected = IF run.left = <<>> THEN {} ELSE @,
                         !.fetching = @ \/ run.left = <<>> \/ told],
              IF told THEN Refreshes(next, wallet) ELSE next)

handleBatchApprove ==
  /\ SectionShown /\ pendingReview # {} /\ ui.chosen # {} /\ ~ui.batching /\ Room
  /\ Goes([ui EXCEPT !.batching = TRUE],
          asks \cup {Ask(FreeId(asks), "batchApproveJobs", By(NoAct))})

\* The contract has no batch_approve_jobs: the call always throws.
BatchApproved(a) ==
  /\ a.op = "batchApproveJobs"
  /\ Goes([ui EXCEPT !.batching = FALSE], Settled(a))

BulkInit == focus = "bulk" /\ ui = BulkUi /\ store = <<>>

BulkUser ==
  /\ focus = "bulk"
  /\ \/ fetchJobs
     \/ handleSelectAllOpen \/ CloseBulk \/ handleBatchApprove
     \/ \E op \in BulkOps : OpenBulk(op) \/ handleBulk(op)
     \/ \E j \in JobIds : handleToggleSelect(j)
     \/ \E who \in {NoOne, Client} : DashboardWallet(who)

BulkAnswer(a) ==
  /\ focus = "bulk"
  /\ \/ a.op \in {"fetchJobs", "aborted"} /\ AnswerRead(a)
     \/ a.op \in BulkOps /\ AnswerWrite(a, a.op, a.arg.as, a.arg.act.job)

BulkPageStep(a) == focus = "bulk" /\ (BulkStep(a) \/ BatchApproved(a))

-----------------------------------------------------------------------------
(***************************************************************************)
(* Bookmarked jobs are read when a wallet is there, and again every thirty *)
(* seconds; a job that cannot be read is left out.                         *)
(***************************************************************************)
SavedInit ==
  /\ focus = "saved" /\ store \in [bookmarks : SUBSET JobIds]
  /\ ui = [saved |-> Nothing, fetching |-> FALSE, timer |-> FALSE]

loadBookmarkedIds == store.bookmarks

fetchBookmarked(u) ==
  IF loadBookmarkedIds = {} THEN ui' = [u EXCEPT !.saved = Nothing] /\ asks' = asks
  ELSE ui' = [u EXCEPT !.fetching = TRUE] /\ asks' = Asking("getJob", loadBookmarkedIds)

SavedEffect(who) ==
  /\ wallet # who /\ Room /\ wallet' = who
  /\ IF who = NoOne THEN ui' = [ui EXCEPT !.saved = Nothing, !.timer = FALSE] /\ asks' = asks
     ELSE fetchBookmarked([ui EXCEPT !.timer = TRUE])
  /\ UNCHANGED <<focus, store, jobs>>

SavedTimer == ui.timer /\ Room /\ fetchBookmarked(ui) /\ UNCHANGED <<focus, store, wallet, jobs>>

SavedFetched(a) ==
  /\ Answered(a)
  /\ Goes([ui EXCEPT !.fetching = FALSE,
                     !.saved = [j \in JobIds |-> IF j \in a.arg THEN a.seen[j] ELSE "none"]], Settled(a))

SavedNext ==
  /\ focus = "saved"
  /\ \/ SavedTimer
     \/ \E who \in Users \cup {NoOne} : SavedEffect(who)
     \/ \E a \in asks : SavedFetched(a) \/ AnswerRead(a)
=============================================================================

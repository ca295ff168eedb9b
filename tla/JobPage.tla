------------------------------- MODULE JobPage -------------------------------
(***************************************************************************)
(* The page of one job (app/job/[id]/page.tsx): it loads the job again and *)
(* again, offers what the connected party may do to it, asks for           *)
(* confirmation and runs the action.                                       *)
(***************************************************************************)
EXTENDS Browser

CONSTANT PageActions   \* sets of actions explored together

Confirmable == {"cancelJob", "approveWork", "submitWork", "freelancerCancelJob", "topUpEscrow"}
JobActions  == Confirmable \cup {"acceptJob"}
NoAction    == [op |-> "none", as |-> NoOne]

\* `shown` is the status on the page, "none" before the first load; `last` is
\* what lastActionRef holds, with the address its closure captured; `dialog` is
\* pendingAction, the dialog to accept or the celebration: each covers the page.
JobPageUi ==
  [shown |-> "none", fetching |-> FALSE, busy |-> FALSE, last |-> NoAction,
   dialog |-> "none", form |-> "closed"]

isClient     == wallet = Client
isFreelancer == wallet = Worker /\ ui.shown # "Open"

canAccept           == ui.shown = "Open"
canSubmit           == isFreelancer /\ ui.shown = "InProgress"
canApprove          == isClient /\ ui.shown = "SubmittedForReview"
canCancel           == isClient /\ ui.shown = "Open"
canFreelancerCancel == isFreelancer /\ ui.shown = "InProgress"
canTopUp            == isClient /\ ui.shown \in {"Open", "InProgress", "SubmittedForReview"}

\* While a load is under way a skeleton takes the place of the whole page.
Visible == focus = "job" /\ ~ui.fetching /\ ui.shown # "none"

Offers(op) ==
  op \in store.acts /\
  CASE op = "submitWork"          -> canSubmit
    [] op = "approveWork"         -> canApprove
    [] op = "cancelJob"           -> canCancel
    [] op = "freelancerCancelJob" -> canFreelancerCancel
    [] OTHER                      -> FALSE

-----------------------------------------------------------------------------
\* load() starts: on mounting, when the tab becomes visible, when the stream or
\* the fallback poll reports something, and from the Retry button.  Nothing
\* stops two loads from overlapping.
load ==
  /\ focus = "job" /\ Room
  /\ ui' = [ui EXCEPT !.fetching = TRUE]
  /\ asks' = Asking("load", NoAction)
  /\ UNCHANGED <<focus, store, wallet, jobs>>

\* What goes on once handleAction is through: executeAction closes the form
\* and celebrates, whether or not the action went well.
Afterwards(u, op) ==
  [u EXCEPT !.busy = FALSE,
            !.dialog = IF op = "approveWork" THEN "celebrate" ELSE @,
            !.form = IF op = "topUpEscrow" THEN "closed" ELSE @]

\* The job is stored as soon as it is known; the description comes after it.
Loaded(a) ==
  /\ a.op = "load" /\ Answered(a)
  /\ \/ /\ ~Failed(a)
        /\ ui' = [ui EXCEPT !.shown = a.seen[ThisJob]]
        /\ asks' = Awaits(a, "describe", a.arg)
     \/ /\ Failed(a)
        /\ LET failed == [ui EXCEPT !.fetching = FALSE]
           IN  ui' = IF a.arg = NoAction THEN failed ELSE Afterwards(failed, a.arg.op)
        /\ asks' = Settled(a)
  /\ UNCHANGED <<focus, store, wallet, jobs>>

Described(a) ==
  /\ a.op = "describe"
  /\ LET done == [ui EXCEPT !.fetching = FALSE]
     IN  ui' = IF a.arg = NoAction THEN done ELSE Afterwards(done, a.arg.op)
  /\ asks' = Settled(a)
  /\ UNCHANGED <<focus, store, wallet, jobs>>

-----------------------------------------------------------------------------
\* handleAction up to its first await.
Fault_CanHandle_unguarded == wallet # NoOne

CanHandle == ~ui.busy /\ wallet # NoOne

Handles(u, action) ==
  /\ CanHandle
  /\ ui' = [u EXCEPT !.busy = TRUE, !.last = action]
  /\ asks' = Asking(action.op, action)
  /\ UNCHANGED <<focus, store, wallet, jobs>>

executeAction(op) ==
  /\ Visible /\ ui.dialog = op /\ op # "none" /\ ~ui.busy
  /\ Handles([ui EXCEPT !.dialog = "none"], [op |-> op, as |-> wallet])

\* A confirmation the user has switched off is skipped.
requestAction(op) ==
  /\ Visible /\ ~ui.busy /\ Offers(op) /\ ui.dialog = "none"
  /\ \/ op \notin store.suppressed /\ Sets([ui EXCEPT !.dialog = op])
     \/ op \in store.suppressed /\ Handles(ui, [op |-> op, as |-> wallet])

requestTopUpConfirm ==
  /\ Visible /\ ~ui.busy /\ canTopUp /\ "topUpEscrow" \in store.acts /\ ui.form = "filled" /\ ui.dialog = "none"
  /\ \/ "topUpEscrow" \notin store.suppressed /\ Sets([ui EXCEPT !.dialog = "topUpEscrow"])
     \/ "topUpEscrow" \in store.suppressed /\ Handles(ui, [op |-> "topUpEscrow", as |-> wallet])

\* The banner's button runs the last action once more, for the wallet that was
\* connected then; unlike the others it is not disabled while one is running.
onManualRetry ==
  /\ Visible /\ ui.dialog = "none" /\ ui.last # NoAction
  /\ Handles(ui, ui.last)

\* Accepting with a cover letter uploads it first, and a failed upload ends it
\* without a word; storing its address on chain may fail.
AcceptJob(cover) ==
  /\ Visible /\ ui.dialog = "acceptJob" /\ ~ui.busy
  /\ \/ /\ wallet # NoOne /\ cover
        /\ ui' = [ui EXCEPT !.dialog = "none", !.busy = TRUE]
        /\ asks' = Asking("upload", [op |-> "acceptJob", as |-> wallet])
        /\ UNCHANGED <<focus, store, wallet, jobs>>
     \/ ~cover /\ Handles([ui EXCEPT !.dialog = "none"], [op |-> "acceptJob", as |-> wallet])
     \/ wallet = NoOne /\ Sets([ui EXCEPT !.dialog = "none"])

Uploaded(a) ==
  /\ \/ /\ a.op = "upload" /\ Answered(a) /\ ~Failed(a)
        /\ asks' = Awaits(a, "storeDescriptionCid", a.arg)
        /\ ui' = ui
     \/ /\ a.op = "upload" /\ Failed(a)
        /\ asks' = Settled(a)
        /\ ui' = [ui EXCEPT !.busy = FALSE]
     \/ /\ a.op = "storeDescriptionCid"
        /\ asks' = Awaits(a, "acceptJob", a.arg)
        /\ ui' = [ui EXCEPT !.last = a.arg]
  /\ UNCHANGED <<focus, store, wallet, jobs>>

\* The call returned: load again.  It threw: ask for the balance the message
\* about it may need.
Acted(a) ==
  /\ a.op \in JobActions /\ Answered(a)
  /\ IF ~Failed(a)
     THEN /\ ui' = [ui EXCEPT !.fetching = TRUE]
          /\ asks' = Awaits(a, "load", a.arg)
     ELSE ui' = ui /\ asks' = Awaits(a, "getNativeBalance", a.arg)
  /\ UNCHANGED <<focus, store, wallet, jobs>>

Complained(a) ==
  /\ a.op = "getNativeBalance"
  /\ ui' = Afterwards(ui, a.arg.op)
  /\ asks' = Settled(a)
  /\ UNCHANGED <<focus, store, wallet, jobs>>

-----------------------------------------------------------------------------
\* Dialogs and the form.
onCancel ==
  /\ Visible /\ ui.dialog # "none" /\ (ui.busy => ui.dialog = "celebrate")
  /\ Sets([ui EXCEPT !.dialog = "none"])

\* The callout of a job in progress opens the form of a top-up, busy or not.
JobForms ==
  /\ Visible /\ ui.dialog = "none"
  /\ \/ /\ wallet # NoOne /\ canAccept /\ ~ui.busy /\ "acceptJob" \in store.acts
        /\ Sets([ui EXCEPT !.dialog = "acceptJob"])
     \/ ui.shown = "Completed" /\ Sets([ui EXCEPT !.dialog = "celebrate"])
     \/ /\ canTopUp /\ ~ui.busy /\ "topUpEscrow" \in store.acts
        /\ Sets([ui EXCEPT !.form = IF @ = "closed" THEN "open" ELSE "closed"])
     \/ /\ canTopUp /\ ui.shown = "InProgress" /\ "topUpEscrow" \in store.acts /\ ui.form = "closed"
        /\ Sets([ui EXCEPT !.form = "open"])
     \/ canTopUp /\ ui.form = "open" /\ Sets([ui EXCEPT !.form = "filled"])
     \/ canTopUp /\ ui.form # "closed" /\ Sets([ui EXCEPT !.form = "closed"])

\* Disconnecting clears what belonged to the wallet.
JobWallet(who) ==
  /\ focus = "job"
  /\ WalletChanges(who, IF who = NoOne /\ ui.dialog \in Confirmable
                          THEN [ui EXCEPT !.dialog = "none"] ELSE ui)

-----------------------------------------------------------------------------
JobPageInit ==
  /\ focus = "job" /\ ui = JobPageUi
  /\ store \in [suppressed : {{}, Confirmable \ {"cancelJob"}}, acts : PageActions]

JobPageUser ==
  /\ focus = "job"
  /\ \/ load \/ onManualRetry \/ requestTopUpConfirm \/ onCancel \/ JobForms
     \/ \E op \in Confirmable : requestAction(op) \/ executeAction(op)
     \/ \E cover \in BOOLEAN : AcceptJob(cover)
     \/ \E who \in Users \cup {NoOne} : JobWallet(who)

JobPageAnswer(a) ==
  /\ focus = "job"
  /\ \/ a.op = "load" /\ AnswerRead(a)
     \/ a.op \in JobActions /\ AnswerWrite(a, a.op, a.arg.as, ThisJob)
     \/ a.op = "upload" /\ AnswerPlain(a)

JobPageStep(a) == focus = "job" /\ (Loaded(a) \/ Described(a) \/ Uploaded(a) \/ Acted(a) \/ Complained(a))
=============================================================================

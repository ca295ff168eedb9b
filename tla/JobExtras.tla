------------------------------ MODULE JobExtras ------------------------------
(***************************************************************************)
(* The parts of a job's page that share nothing with its actions: the      *)
(* stream of updates with its fallback (lib/useJobSubscription.ts), the    *)
(* description with its check and translation, the count of views          *)
(* (lib/job-views.ts), the similar jobs (SimilarJobsSection,               *)
(* lib/similar-jobs.ts) and the dialog that confirms (ConfirmDialog).      *)
(***************************************************************************)
EXTENDS Browser

CONSTANTS
  Languages,   \* languages a description may be translated to
  Criteria     \* what jobs are compared by

-----------------------------------------------------------------------------
(***************************************************************************)
(* useJobSubscription.  `status` in the closures of the effect is the one  *)
(* of its first render, so every attempt sets "connecting" and every       *)
(* message "connected".                                                    *)
(***************************************************************************)
SubscriptionInit ==
  /\ focus = "subscription" /\ store = <<>>
  /\ ui = [mounted |-> TRUE, stream |-> FALSE, polling |-> FALSE, retry |-> TRUE, status |-> "disconnected"]

\* Also what a timer does five seconds after an error.
attemptConnection ==
  /\ ui.retry /\ ui.mounted
  /\ \/ Sets([ui EXCEPT !.retry = FALSE, !.stream = TRUE, !.status = "connecting"])
     \/ Sets([ui EXCEPT !.polling = TRUE, !.status = "fallback-polling"])

onmessage ==
  /\ ui.mounted /\ ui.stream
  /\ Sets([ui EXCEPT !.status = "connected", !.polling = FALSE])

Fault_onerror_waits ==
  /\ ui.mounted /\ ui.stream
  /\ Sets([ui EXCEPT !.stream = FALSE, !.retry = TRUE])

onerror ==
  /\ ui.mounted /\ ui.stream
  /\ Sets([ui EXCEPT !.stream = FALSE, !.polling = TRUE, !.retry = TRUE, !.status = "fallback-polling"])

\* Leaving the page closes the stream and clears both timers.
Unsubscribe ==
  /\ ui.mounted
  /\ Sets([ui EXCEPT !.mounted = FALSE, !.stream = FALSE, !.polling = FALSE, !.retry = FALSE])

SubscriptionNext ==
  /\ focus = "subscription"
  /\ attemptConnection \/ onmessage \/ onerror \/ Unsubscribe

-----------------------------------------------------------------------------
(***************************************************************************)
(* The description is taken from localStorage or, failing that, from IPFS, *)
(* and shown when its hash is the one on chain.  What fails the check is   *)
(* dropped, but the page falls back to the stored text all the same.       *)
(***************************************************************************)
Texts == {"none", "good", "bad"}

DescriptionInit ==
  /\ focus = "description" /\ store \in [stored : Texts, remote : Texts]
  /\ ui = [busy |-> FALSE, text |-> "none", target |-> "en", translated |-> "none", translating |-> FALSE]

verifyHtmlMatchesHash(text) == text = "good"
Checked(text)   == IF verifyHtmlMatchesHash(text) THEN text ELSE "none"
DisplayedText   == IF ui.text # "none" THEN ui.text ELSE store.stored

LoadDescription ==
  /\ ~ui.busy
  /\ IF store.stored # "none"
     THEN ui' = [ui EXCEPT !.text = Checked(store.stored)] /\ ui' # ui /\ asks' = asks
     ELSE ui' = [ui EXCEPT !.text = "none", !.busy = TRUE] /\ asks' = Asking("getDescriptionCid", "none")
  /\ UNCHANGED <<focus, store, wallet, jobs>>

FetchDescription(a) ==
  /\ a.op = "getDescriptionCid" /\ Answered(a)
  /\ \/ /\ ~Failed(a) /\ store.remote # "none"
        /\ asks' = Awaits(a, "fetchFromIpfs", "none") /\ ui' = ui
     \/ /\ (Failed(a) \/ store.remote = "none")
        /\ asks' = Settled(a) /\ ui' = [ui EXCEPT !.busy = FALSE]
  /\ UNCHANGED <<focus, store, wallet, jobs>>

fetchFromIpfs(a) ==
  LET text == IF Failed(a) THEN "none" ELSE Checked(store.remote)
  IN  /\ a.op = "fetchFromIpfs" /\ Answered(a)
      /\ ui' = [ui EXCEPT !.busy = FALSE, !.text = text]
      /\ store' = [store EXCEPT !.stored = IF text = "none" THEN @ ELSE text]
      /\ asks' = Settled(a)
      /\ UNCHANGED <<focus, wallet, jobs>>

\* The choice of a language is not disabled while a translation is under way.
SelectLanguage(l) == Sets([ui EXCEPT !.target = l, !.translated = "none"])
ShowOriginal      == ui.translated # "none" /\ Sets([ui EXCEPT !.translated = "none"])

Translate ==
  /\ DisplayedText # "none" /\ ~ui.translating /\ Room
  /\ ui' = [ui EXCEPT !.translating = TRUE]
  /\ asks' = Asking("translateText", ui.target)
  /\ UNCHANGED <<focus, store, wallet, jobs>>

\* A translation that fails is the original text.
translateText(a) ==
  /\ a.op = "translateText"
  /\ ui' = [ui EXCEPT !.translating = FALSE, !.translated = a.arg]
  /\ asks' = Settled(a)
  /\ UNCHANGED <<focus, store, wallet, jobs>>

DescriptionNext ==
  /\ focus = "description"
  /\ \/ LoadDescription \/ ShowOriginal \/ Translate
     \/ \E l \in Languages : SelectLanguage(l)
     \/ \E a \in asks : FetchDescription(a) \/ fetchFromIpfs(a) \/ translateText(a)
     \/ \E a \in asks : a.op # "translateText" /\ AnswerPlain(a)

-----------------------------------------------------------------------------
(***************************************************************************)
(* A view is recorded, by a transaction, for a wallet that has not seen    *)
(* the job today, once in a session.  The effect runs again with the       *)
(* wallet; only the answer marks the view.                                 *)
(***************************************************************************)
ViewsInit ==
  /\ focus = "views" /\ store = [viewed |-> {}, session |-> FALSE]
  /\ ui = [due |-> TRUE]

ViewsEffect ==
  /\ ui.due /\ Room
  /\ ui' = [ui EXCEPT !.due = FALSE]
  /\ IF wallet # NoOne /\ wallet \notin store.viewed /\ ~store.session
     THEN asks' = Asking("recordJobView", wallet) /\ UNCHANGED store
     ELSE asks' = asks /\ store' = [store EXCEPT !.session = TRUE]
  /\ UNCHANGED <<focus, wallet, jobs>>

Viewed(a) ==
  /\ Answered(a)
  /\ store' = IF Failed(a) THEN store ELSE [viewed |-> store.viewed \cup {a.arg}, session |-> TRUE]
  /\ asks' = Settled(a)
  /\ UNCHANGED <<focus, ui, wallet, jobs>>

ViewsNext ==
  /\ focus = "views"
  /\ \/ ViewsEffect
     \/ \E a \in asks : Viewed(a) \/ AnswerPlain(a)
     \/ \E who \in Users \cup {NoOne} : WalletChanges(who, [ui EXCEPT !.due = TRUE])

-----------------------------------------------------------------------------
(***************************************************************************)
(* Similar jobs: every run of the effect cancels the one before it, whose  *)
(* answer is then only cached.  Choosing the criterion already chosen      *)
(* raises the loading flag without running the effect again.               *)
(***************************************************************************)
NoCache == [key |-> "none", jobs |-> {}]

SimilarInit ==
  /\ focus = "similar" /\ store = [cache |-> NoCache, notInterested |-> {}]
  /\ ui = [key |-> "none", shownFor |-> "none", busy |-> TRUE, results |-> {}, dismissed |-> {}]

\* Open jobs other than this one; which of them score, and how, is left open.
collectCandidates(seen) == {j \in JobIds \ {ThisJob} : seen[j] = "Open"}
isMarkedNotInterested(j) == j \in store.notInterested

Arrives(u, key, results) ==
  [u EXCEPT !.shownFor = key, !.busy = FALSE, !.results = results,
            !.dismissed = @ \cup {j \in results : isMarkedNotInterested(j)}]

\* The effect; the lookup in the cache comes first.
getSimilarJobs(key, busy) ==
  LET cancelled == {[a EXCEPT !.op = "cancelled"] : a \in asks}
      cached    == store.cache.key = key
  IN  /\ Room
      /\ ui' = IF cached THEN Arrives([ui EXCEPT !.key = key], key, store.cache.jobs)
               ELSE [ui EXCEPT !.key = key, !.busy = busy]
      /\ asks' = IF cached THEN cancelled
                 ELSE cancelled \cup {Ask(FreeId(asks), "getSimilarJobs", key)}
      /\ UNCHANGED <<focus, store, wallet, jobs>>

SimilarMounted == ui.key = "none" /\ getSimilarJobs("all", TRUE)

handleCriteriaChange(c) ==
  /\ ui.key # "none"
  /\ \/ c # ui.key /\ getSimilarJobs(c, TRUE)
     \/ c = ui.key /\ Sets([ui EXCEPT !.busy = TRUE])

\* The page loaded the job again: another object, so the effect runs again.
SimilarJobReloaded == ui.key # "none" /\ getSimilarJobs(ui.key, ui.busy)

Fault_Cancelled_never(a) == FALSE
Cancelled(a) == a.op = "cancelled"

SimilarArrived(a) ==
  /\ Answered(a) /\ ~Failed(a)
  /\ \E results \in SUBSET {j \in collectCandidates(a.seen) : ~isMarkedNotInterested(j)} :
       /\ store' = [store EXCEPT !.cache = [key |-> a.arg, jobs |-> results]]
       /\ ui' = IF Cancelled(a) THEN ui ELSE Arrives(ui, a.arg, results)
  /\ asks' = Settled(a)
  /\ UNCHANGED <<focus, wallet, jobs>>

\* All the functions the search is made of skip what fails, so it finds nothing.
SimilarFailed(a) ==
  /\ Failed(a)
  /\ store' = [store EXCEPT !.cache = [key |-> a.arg, jobs |-> {}]]
  /\ ui' = IF Cancelled(a) THEN ui ELSE Arrives(ui, a.arg, {})
  /\ asks' = Settled(a)
  /\ UNCHANGED <<focus, wallet, jobs>>

SimilarVisible == IF ui.busy THEN {} ELSE ui.results \ ui.dismissed

handleNotInterested(j) ==
  /\ j \in SimilarVisible
  /\ ui' = [ui EXCEPT !.dismissed = @ \cup {j}]
  /\ store' = [store EXCEPT !.notInterested = @ \cup {j}]
  /\ UNCHANGED <<focus, wallet, jobs, asks>>

SimilarCacheExpires ==
  /\ store.cache # NoCache /\ store' = [store EXCEPT !.cache = NoCache]
  /\ UNCHANGED <<focus, ui, wallet, jobs, asks>>

\* The user leaves the page and comes back.
SimilarRemount ==
  /\ ui.key # "none"
  /\ ui' = [key |-> "none", shownFor |-> "none", busy |-> TRUE, results |-> {}, dismissed |-> {}]
  /\ asks' = {[a EXCEPT !.op = "cancelled"] : a \in asks}
  /\ UNCHANGED <<focus, store, wallet, jobs>>

SimilarNext ==
  /\ focus = "similar"
  /\ \/ SimilarMounted \/ SimilarRemount \/ SimilarCacheExpires \/ SimilarJobReloaded
     \/ \E c \in Criteria : handleCriteriaChange(c)
     \/ \E j \in JobIds : handleNotInterested(j)
     \/ \E a \in asks : SimilarArrived(a) \/ SimilarFailed(a) \/ AnswerRead(a)
     \/ Elsewhere(JobIds \ {ThisJob})

-----------------------------------------------------------------------------
\* ConfirmDialog: "don't show this again" counts when the action is confirmed,
\* and nothing closes the dialog while the action runs.
ConfirmInit ==
  /\ focus = "confirm" /\ store = [suppressed |-> {}]
  /\ ui = [key |-> "none", dontShow |-> FALSE]

AskConfirmation(key) ==
  /\ ui.key = "none" /\ key \notin store.suppressed
  /\ Sets([key |-> key, dontShow |-> FALSE])

ToggleDontShow == ui.key # "none" /\ Sets([ui EXCEPT !.dontShow = ~@])
handleCancel   == ui.key # "none" /\ Sets([ui EXCEPT !.key = "none"])

handleConfirm ==
  /\ ui.key # "none"
  /\ store' = IF ui.dontShow THEN [suppressed |-> store.suppressed \cup {ui.key}] ELSE store
  /\ ui' = [ui EXCEPT !.key = "none"]
  /\ UNCHANGED <<focus, wallet, jobs, asks>>

clearAllConfirmSuppressions ==
  /\ store.suppressed # {} /\ store' = [suppressed |-> {}]
  /\ UNCHANGED <<focus, ui, wallet, jobs, asks>>

ConfirmNext ==
  /\ focus = "confirm"
  /\ \/ ToggleDontShow \/ handleCancel \/ handleConfirm \/ clearAllConfirmSuppressions
     \/ \E key \in {"approve-work", "top-up-escrow"} : AskConfirmation(key)
=============================================================================

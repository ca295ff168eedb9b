-------------------------------- MODULE Desk --------------------------------
(***************************************************************************)
(* The pages that govern the platform: the panel of the administrator      *)
(* (app/admin/page.tsx), its feature flags (lib/feature-flags.ts), the     *)
(* announcement every visitor sees (components/AnnouncementBanner.tsx) and *)
(* the page of the disputes (app/disputes/page.tsx).                       *)
(* NEXT_PUBLIC_ADMIN_ADDRESS is the address of the client.                 *)
(***************************************************************************)
EXTENDS Browser

CONSTANTS
  LogSize,       \* withdrawals, announcements and disputes at most
  AdminPageSize, \* jobs the panel asks for
  FlagNames      \* feature flags the program defines

envAdmin == Client

-----------------------------------------------------------------------------
(***************************************************************************)
(* The panel.  Its data come in a chain of requests; the list of jobs is   *)
(* an effect of what they tell, abandoned when that changes again.         *)
(***************************************************************************)
AdminUi ==
  [isAdmin |-> "unknown", fees |-> FALSE, count |-> 0, list |-> <<>>, loading |-> TRUE,
   error |-> FALSE, withdrawing |-> FALSE, confirm |-> FALSE, updating |-> FALSE]

adminReads == {"getNativeToken", "getFees", "adminGetJobCount", "getJobStatusCounts", "isWhitelistModeEnabled"}

fetchAdminData(new, as) ==
  Goes([new EXCEPT !.loading = TRUE, !.error = FALSE],
       as \cup {Ask(FreeId(as), "getNativeToken", wallet)})

\* The effect on the list of jobs: what was under way is abandoned.
JobsEffect(new, as) ==
  LET left == {b \in as : b.op # "adminGetAllJobs"}
      run  == wallet # NoOne /\ new.isAdmin = "yes"
  IN  IF ~run
      THEN Goes(new, left)
      ELSE Goes([new EXCEPT !.list = <<>>],
                IF new.count = 0 THEN left
                ELSE left \cup {Ask(FreeId(as), "adminGetAllJobs",
                                    IF new.count < AdminPageSize THEN new.count ELSE AdminPageSize)})

\* The panel goes to `new`; the effect runs when what it depends on changed.
Learns(new, as) ==
  IF new.isAdmin # ui.isAdmin \/ new.count # ui.count THEN JobsEffect(new, as) ELSE Goes(new, as)

AdminRead(a) ==
  /\ a.op \in adminReads /\ Answered(a)
  /\ \/ /\ Failed(a) /\ a.op # "getJobStatusCounts"
        /\ Learns([ui EXCEPT !.error = TRUE, !.isAdmin = "no", !.loading = FALSE], Settled(a))
     \/ /\ ~Failed(a) /\ a.op = "getNativeToken"
        /\ Goes(ui, Awaits(a, "getFees", a.arg))
     \/ /\ ~Failed(a) /\ a.op = "getFees" /\ a.arg # envAdmin
        /\ Learns([ui EXCEPT !.fees = TRUE, !.isAdmin = "no", !.count = 0, !.list = <<>>, !.loading = FALSE], Settled(a))
     \/ /\ ~Failed(a) /\ a.op = "getFees" /\ a.arg = envAdmin
        /\ Learns([ui EXCEPT !.fees = TRUE, !.isAdmin = "yes"], Awaits(a, "adminGetJobCount", a.arg))
     \/ /\ ~Failed(a) /\ a.op = "adminGetJobCount"
        /\ Learns([ui EXCEPT !.count = Cardinality(JobIds)], Awaits(a, "getJobStatusCounts", a.arg))
     \/ /\ a.op = "getJobStatusCounts"
        /\ Goes(ui, Awaits(a, "isWhitelistModeEnabled", a.arg))
     \/ /\ ~Failed(a) /\ a.op = "isWhitelistModeEnabled"
        /\ Goes([ui EXCEPT !.loading = FALSE], Settled(a))

\* The jobs of the first page; no button leads to another one.
JobsRead(a) ==
  /\ a.op = "adminGetAllJobs" /\ Answered(a)
  /\ \/ Failed(a) /\ Goes([ui EXCEPT !.list = <<>>, !.error = TRUE], Settled(a))
     \/ ~Failed(a) /\ Goes([ui EXCEPT !.list = [i \in 1..a.arg |-> a.seen[i]]], Settled(a))

\* The panel is shown to whoever the last answer took for the administrator.
ShowsPanel == wallet # NoOne /\ ~ui.loading /\ ui.isAdmin # "no"

CanWithdraw == ui.fees /\ ~ui.withdrawing

handleWithdraw ==
  /\ Room
  /\ Goes([ui EXCEPT !.confirm = FALSE, !.withdrawing = TRUE, !.error = FALSE],
          Asking("withdrawFees", wallet))

WithdrawClicked ==
  /\ ShowsPanel /\ CanWithdraw
  /\ \/ store.suppressed /\ handleWithdraw
     \/ ~store.suppressed /\ Sets([ui EXCEPT !.confirm = TRUE])

WithdrawConfirmed == ShowsPanel /\ ui.confirm /\ ~ui.withdrawing /\ handleWithdraw
WithdrawDropped   == ui.confirm /\ Sets([ui EXCEPT !.confirm = FALSE])

\* A result that says failure counts as a withdrawal too.
WithdrawDone(a) ==
  /\ a.op = "withdrawFees" /\ Answered(a)
  /\ \/ /\ ~Failed(a)
        /\ ui' = [ui EXCEPT !.withdrawing = FALSE, !.fees = FALSE]
        /\ asks' = Settled(a)
        /\ store' = [store EXCEPT !.withdrawals = IF @ = LogSize THEN @ ELSE @ + 1]
        /\ UNCHANGED <<focus, wallet, jobs>>
     \/ /\ Failed(a)
        /\ \E role \in {"no", ui.isAdmin} :
             Learns([ui EXCEPT !.withdrawing = FALSE, !.error = TRUE, !.isAdmin = role], Settled(a))

\* Lists and mode of the access control share one busy flag.
Updates(op) ==
  /\ ShowsPanel /\ ~ui.updating /\ Room
  /\ Goes([ui EXCEPT !.updating = TRUE, !.error = FALSE], Asking(op, wallet))

AddressRefused == ShowsPanel /\ ~ui.updating /\ Sets([ui EXCEPT !.error = TRUE])
handleAccessAction == Updates("updateList")
handleToggleWhitelistMode ==
  \/ wallet = envAdmin /\ Updates("setWhitelistMode")
  \/ wallet # envAdmin /\ ShowsPanel /\ ~ui.updating /\ Sets([ui EXCEPT !.error = TRUE])

UpdateDone(a) ==
  /\ a.op \in {"updateList", "setWhitelistMode"} /\ Answered(a)
  /\ Goes([ui EXCEPT !.updating = FALSE, !.error = @ \/ Failed(a)], Settled(a))

\* The panel follows the wallet.
AdminWallet(who) ==
  /\ wallet # who /\ Room
  /\ wallet' = who
  /\ IF who = NoOne
     THEN /\ ui' = [ui EXCEPT !.loading = FALSE, !.isAdmin = "unknown", !.fees = FALSE, !.list = <<>>,
                              !.count = 0, !.error = FALSE]
          /\ asks' = {b \in asks : b.op # "adminGetAllJobs"}
     ELSE LET left == {b \in asks : b.op # "adminGetAllJobs"}
              more == IF ui.isAdmin = "yes" /\ ui.count > 0
                      THEN {Ask(FreeId(asks), "adminGetAllJobs", IF ui.count < AdminPageSize THEN ui.count ELSE AdminPageSize)}
                      ELSE {}
              as   == left \cup more
          IN  /\ ui' = [ui EXCEPT !.loading = TRUE, !.error = FALSE,
                                  !.list = IF ui.isAdmin = "yes" THEN <<>> ELSE @]
              /\ asks' = as \cup {Ask(FreeId(as), "getNativeToken", who)}
  /\ UNCHANGED <<focus, store, jobs>>

AdminInit ==
  /\ focus = "admin" /\ ui = AdminUi
  /\ store \in [withdrawals : {0}, suppressed : BOOLEAN]

AdminDismissed == ui.error /\ Sets([ui EXCEPT !.error = FALSE])
AdminRetried   == ShowsPanel /\ ui.error /\ Room /\ fetchAdminData(ui, asks)

AdminUser ==
  /\ focus = "admin"
  /\ \/ WithdrawClicked \/ WithdrawConfirmed \/ WithdrawDropped
     \/ AddressRefused \/ handleAccessAction \/ handleToggleWhitelistMode
     \/ AdminDismissed \/ AdminRetried
     \/ \E who \in {Client, Worker, NoOne} : AdminWallet(who)

AdminAnswer(a) == focus = "admin" /\ IF a.op = "adminGetAllJobs" THEN AnswerRead(a) ELSE AnswerPlain(a)
AdminStep(a)   == focus = "admin" /\ (AdminRead(a) \/ JobsRead(a) \/ WithdrawDone(a) \/ UpdateDone(a))

-----------------------------------------------------------------------------
(***************************************************************************)
(* Feature flags: the address of the page decides, then the build, then    *)
(* what this browser has stored, then the default, which is off.  The      *)
(* panel keeps a copy of its own.                                          *)
(***************************************************************************)
Unset == [f \in FlagNames |-> "unset"]
Flags == [FlagNames -> {"on", "off", "unset"}]

isEnabled(name, url, env, overrides) ==
  LET told == SelectSeq(<<url[name], env[name], overrides[name]>>, LAMBDA v : v # "unset")
  IN  told # <<>> /\ Head(told) = "on"

FlagsInit ==
  /\ focus = "flags"
  /\ \E stored, url \in Flags :
       /\ store = stored
       /\ ui = [url |-> url, env |-> Unset, overrides |-> stored,
                shown |-> [f \in FlagNames |-> isEnabled(f, url, Unset, stored)]]

setFlagOverride(name, on) ==
  LET new == [ui.overrides EXCEPT ![name] = IF on THEN "on" ELSE "off"]
  IN  /\ store' = new
      /\ ui' = [ui EXCEPT !.overrides = new, !.shown[name] = on]
      /\ UNCHANGED <<focus, wallet, jobs, asks>>

FlagToggled(name) == setFlagOverride(name, ~ui.shown[name])

clearAllOverrides ==
  /\ store' = Unset
  /\ ui' = [ui EXCEPT !.overrides = Unset, !.shown = [f \in FlagNames |-> FALSE]]
  /\ UNCHANGED <<focus, wallet, jobs, asks>>

\* The panel opened anew, at its plain address.
initFeatureFlags ==
  Sets([ui EXCEPT !.url = Unset, !.overrides = store,
                  !.shown = [f \in FlagNames |-> isEnabled(f, Unset, ui.env, store)]])

FlagsNext ==
  /\ focus = "flags"
  /\ clearAllOverrides \/ initFeatureFlags \/ \E name \in FlagNames : FlagToggled(name)

-----------------------------------------------------------------------------
(***************************************************************************)
(* The announcement and its banner.  An announcement carries the time of   *)
(* its publication as its id; a visitor who dismisses it does not see it   *)
(* again.  Publishing in another tab reaches the banner as an event of the *)
(* storage, in the same tab as one of the page.                            *)
(***************************************************************************)
NoNews == [id |-> 0, enabled |-> FALSE, expires |-> FALSE]

loadAnnouncement(news, gone, expired) ==
  LET show == news.id # 0 /\ news.enabled /\ ~(news.expires /\ expired) /\ news.id \notin gone
  IN  [visible |-> show, config |-> IF show THEN news.id ELSE ui.config]

BannerInit ==
  /\ focus = "banner"
  /\ store = [news |-> NoNews, gone |-> {}, expired |-> FALSE]
  /\ ui = [visible |-> FALSE, config |-> 0]

Published(new) == /\ store' = [store EXCEPT !.news = new, !.expired = FALSE]
                  /\ ui' = loadAnnouncement(new, store.gone, FALSE)
                  /\ UNCHANGED <<focus, wallet, jobs, asks>>

handlePublishAnnouncement ==
  /\ store.news.id < LogSize
  /\ \E enabled, expires \in BOOLEAN :
       Published([id |-> store.news.id + 1, enabled |-> enabled, expires |-> expires])

handleDismiss ==
  /\ ui.visible
  /\ store' = [store EXCEPT !.gone = @ \cup {ui.config}]
  /\ ui' = [ui EXCEPT !.visible = FALSE]
  /\ UNCHANGED <<focus, wallet, jobs, asks>>

\* Its time runs out; a banner that is shown stays until something is stored.
NewsExpires  == store.news.expires /\ Keeps([store EXCEPT !.expired = TRUE])
NewsReloaded == Sets(loadAnnouncement(store.news, store.gone, store.expired))

BannerNext ==
  /\ focus = "banner"
  /\ handlePublishAnnouncement \/ handleDismiss \/ NewsExpires \/ NewsReloaded

-----------------------------------------------------------------------------
(***************************************************************************)
(* The disputes of the connected party.  Anyone may pick a role on the     *)
(* page; the contract decides who may resolve.  The id of a dispute raised *)
(* here counts the disputes shown, that of one read from the contract is   *)
(* the number of its job.                                                  *)
(***************************************************************************)
DisputesUi ==
  [role |-> "client", disputes |-> <<>>, eligible |-> {}, loading |-> TRUE, error |-> FALSE,
   confirm |-> FALSE, raising |-> "no", resolving |-> 0, busy |-> FALSE]

Dispute(id, j, status) == [id |-> id, job |-> j, status |-> status]

loadDisputes == Asking("getJobCount", [next |-> 0, seen |-> Nothing])

\* The jobs in turn; nobody is a party to a job that is not his.
disputesOf(seen) ==
  LET disputed == {j \in JobIds : seen[j] = "Disputed"}
  IN  [i \in 1..Cardinality(disputed) |->
         LET j == SetToSortSeq(disputed, LAMBDA x, y : x < y)[i] IN Dispute(j, j, "Active")]

DisputesRead(a) ==
  LET j == a.arg.next
      seen == IF a.op = "getJob" THEN [a.arg.seen EXCEPT ![j] = a.seen[j]] ELSE a.arg.seen
  IN  /\ a.op \in {"getJobCount", "getJob"} /\ Answered(a)
      /\ \/ Failed(a) /\ Goes([ui EXCEPT !.loading = FALSE, !.error = TRUE], Settled(a))
         \/ ~Failed(a) /\ j + 1 \in JobIds /\ Goes(ui, Awaits(a, "getJob", [next |-> j + 1, seen |-> seen]))
         \/ /\ ~Failed(a) /\ j + 1 \notin JobIds
            /\ Goes([ui EXCEPT !.loading = FALSE, !.disputes = disputesOf(seen),
                               !.eligible = {k \in JobIds : seen[k] \in {"InProgress", "SubmittedForReview"}}],
                    Settled(a))

\* The role is the visitor's choice; choosing loads the page again.
RolePicked(role) ==
  /\ ui.role # role /\ Room
  /\ Goes([ui EXCEPT !.role = role, !.loading = TRUE, !.error = FALSE], loadDisputes)

DisputesRetried == ui.error /\ Room /\ Goes([ui EXCEPT !.loading = TRUE, !.error = FALSE], loadDisputes)

RaiseClicked ==
  /\ ui.role # "admin" /\ ui.eligible # {}
  /\ Sets(IF store.suppressed THEN [ui EXCEPT !.raising = "form"] ELSE [ui EXCEPT !.confirm = TRUE])
RaiseConfirmed == ui.confirm /\ Sets([ui EXCEPT !.confirm = FALSE, !.raising = "form"])

\* The dialog may be closed, and opened again, while its request is under way.
RaiseClosed == ui.raising # "no" /\ Sets([ui EXCEPT !.raising = "no"])

RaiseSubmitted(j) ==
  /\ ui.raising = "form" /\ j \in ui.eligible /\ Room /\ Len(ui.disputes) < LogSize
  /\ Goes([ui EXCEPT !.raising = "busy"], Asking("raiseDispute", j))

\* The page swallows the error, so the dialog closes either way.
handleRaiseDispute(a) ==
  /\ a.op = "raiseDispute" /\ Answered(a)
  /\ Goes([ui EXCEPT !.raising = "no",
             !.disputes = IF Failed(a) THEN @ ELSE <<Dispute(Len(@) + 1, a.arg, "Active")>> \o @], Settled(a))

canResolve(d) == ui.role = "admin" /\ d.status = "Active"
ResolveClicked(i) == canResolve(ui.disputes[i]) /\ Sets([ui EXCEPT !.resolving = ui.disputes[i].id, !.busy = FALSE])
ResolveClosed     == ui.resolving # 0 /\ Sets([ui EXCEPT !.resolving = 0, !.busy = FALSE])

\* The first dispute with this id, whichever was clicked.
ResolveSubmitted ==
  LET named == SelectSeq(ui.disputes, LAMBDA d : d.id = ui.resolving)
  IN  /\ ui.resolving # 0 /\ ~ui.busy
      /\ \/ named = <<>> /\ Sets([ui EXCEPT !.resolving = 0])
         \/ /\ named # <<>> /\ Room
            /\ Goes([ui EXCEPT !.busy = TRUE],
                    asks \cup {Ask(FreeId(asks), "resolveDispute", [job |-> Head(named).job, id |-> ui.resolving])})

handleResolve(a) ==
  /\ a.op = "resolveDispute" /\ Answered(a)
  /\ Goes([ui EXCEPT !.resolving = 0, !.busy = FALSE,
             !.disputes = IF Failed(a) THEN @
                          ELSE [i \in DOMAIN @ |-> IF @[i].id = a.arg.id THEN [@[i] EXCEPT !.status = "Resolved"] ELSE @[i]]],
          Settled(a))

\* Every change of the wallet empties the page or loads it for the new one.
DisputesWallet(who) ==
  /\ wallet # who
  /\ wallet' = who
  /\ IF who = NoOne
     THEN ui' = [ui EXCEPT !.disputes = <<>>, !.eligible = {}, !.role = "client", !.loading = FALSE, !.error = FALSE]
          /\ asks' = asks
     ELSE /\ Room
          /\ ui' = [ui EXCEPT !.role = IF who = envAdmin THEN "admin" ELSE @, !.loading = TRUE, !.error = FALSE]
          /\ asks' = loadDisputes
  /\ UNCHANGED <<focus, store, jobs>>

DisputesInit ==
  /\ focus = "disputes" /\ ui = DisputesUi
  /\ store \in [suppressed : BOOLEAN]

DisputesUser ==
  /\ focus = "disputes"
  /\ \/ /\ wallet # NoOne
        /\ \/ \E role \in {"client", "freelancer", "admin"} : RolePicked(role)
           \/ DisputesRetried \/ RaiseClicked \/ RaiseConfirmed \/ RaiseClosed \/ ResolveSubmitted \/ ResolveClosed
           \/ \E j \in JobIds : RaiseSubmitted(j)
           \/ \E i \in DOMAIN ui.disputes : ResolveClicked(i)
     \/ \E who \in {Worker, NoOne} : DisputesWallet(who)

DisputesAnswer(a) ==
  /\ focus = "disputes"
  /\ \/ a.op \in {"getJobCount", "getJob"} /\ AnswerRead(a)
     \/ a.op = "raiseDispute" /\ \E who \in {wallet} \ {NoOne} : AnswerWrite(a, a.op, who, a.arg)
     \/ a.op = "raiseDispute" /\ wallet = NoOne /\ AnswerPlain(a)
     \/ a.op = "resolveDispute" /\ AnswerPlain(a)   \* the contract cannot decode the call
DisputesStep(a) == focus = "disputes" /\ (DisputesRead(a) \/ handleRaiseDispute(a) \/ handleResolve(a))
=============================================================================

-------------------------------- MODULE Client --------------------------------
(***************************************************************************)
(* The web client as a whole.  A behaviour is that of one page or widget,  *)
(* with the wallet, the jobs of the contract and the requests it works     *)
(* with, or that of the layer below all of them through which calls reach  *)
(* the contract ("rpc").  Pages and that layer share no state but the      *)
(* answers of calls, which the pages take as they come.                    *)
(***************************************************************************)
EXTENDS JobPage, JobExtras, Dashboard, HomeFeed, HomeWidgets, JobLists, PostJob,
        Profile, Talk, Desk, Wallet, Transactions, RpcClient

clientVars == <<pageVars, rpcVars>>

At(status)     == [j \in JobIds |-> status]
TwoJobs(s, t)  == [j \in JobIds |-> IF j = ThisJob THEN s ELSE t]
Starts(who, status) == wallet = who /\ jobs = status /\ asks = {}
Reading(op, arg)    == asks = {Ask(1, op, arg)}
CountAsked          == Reading("getJobCount", [next |-> 0, seen |-> Nothing])

\* Pages about jobs: who is connected, the jobs, and what was asked on mount.
JobPagesInit ==
  \/ JobPageInit /\ \E s \in {"Open", "SubmittedForReview"} : Starts(Client, At(s))
  \/ DashboardInit /\ Starts(Client, TwoJobs("Open", "SubmittedForReview"))
  \/ BulkInit /\ \E s \in {"Open", "SubmittedForReview"} : Starts(Client, TwoJobs("Open", s))
  \/ SavedInit /\ Starts(NoOne, At("Open"))
  \/ FeedInit /\ \E who \in Users : Starts(who, At("Open"))
  \/ ProfileInit /\ wallet = Worker /\ jobs = TwoJobs("Completed", "InProgress")
       /\ Reading("access", [next |-> 0, seen |-> Nothing])
  \/ AdminInit /\ wallet = Client /\ jobs = At("Open") /\ Reading("getNativeToken", Client)
  \/ DisputesInit /\ wallet = Worker /\ jobs = TwoJobs("Disputed", "InProgress") /\ CountAsked
  \/ TransactionsInit /\ jobs = TwoJobs("Completed", "Cancelled")

\* Widgets and pages that need no job, or look at them as they are.
WidgetsInitially ==
  \/ /\ Starts(Client, At("Open"))
     /\ \/ SubscriptionInit \/ DescriptionInit \/ ViewsInit \/ SimilarInit \/ ConfirmInit
        \/ FiltersInit \/ SearchInit \/ PrefsInit \/ SwipeInit \/ PullInit \/ DescriptionsInit
        \/ BatchInit \/ OrderInit \/ WidgetsInit \/ RecentInit
        \/ PostInit \/ FeeInit \/ EditorInit
        \/ MessagesInit \/ TypingInit \/ MeetingsInit \/ NoticesInit \/ NetworkInit
  \/ Starts(NoOne, At("Open")) /\ (BuilderInit \/ CelebrationInit \/ FlagsInit \/ BannerInit)
  \/ WalletInit /\ jobs = At("Open")
  \/ ExportInit /\ jobs = At("Open")

CallsIdle == RpcInit /\ circuit = ClosedCircuit

ClientInit ==
  \/ (JobPagesInit \/ WidgetsInitially) /\ CallsIdle
  \/ /\ focus = "rpc" /\ ui = <<>> /\ store = <<>> /\ Starts(NoOne, At("Open"))
     /\ RpcInit /\ circuit.failures = Threshold - 1

\* What the visitor does.
Visits ==
  \/ JobPageUser \/ DashboardUser \/ BulkUser \/ ProfileUser \/ AdminUser \/ DisputesUser
  \/ WalletUser \/ TransactionsUser \/ ExportUser

\* What happens by itself: answers and what the page does with them, and
\* other people and devices.
HappensTo(a) ==
  \/ JobPageAnswer(a) \/ JobPageStep(a) \/ DashboardAnswer(a) \/ DashboardStep(a)
  \/ BulkAnswer(a) \/ BulkPageStep(a) \/ ProfileAnswer(a) \/ ProfileStep(a)
  \/ AdminAnswer(a) \/ AdminStep(a) \/ DisputesAnswer(a) \/ DisputesStep(a)
  \/ WalletStep(a) \/ TransactionsStep(a) \/ ExportPage(a)

Meanwhile ==
  \/ focus = "job" /\ Elsewhere({ThisJob})
  \/ focus = "profile" /\ Elsewhere(JobIds)
  \/ LedgerGrows

WidgetMoves ==
  \/ SubscriptionNext \/ DescriptionNext \/ ViewsNext \/ SimilarNext \/ ConfirmNext \/ SavedNext
  \/ FeedNext \/ FiltersNext \/ SearchNext \/ PrefsNext \/ SwipeNext \/ PullNext \/ DescriptionsNext
  \/ BatchNext \/ OrderNext \/ WidgetsNext \/ RecentNext \/ PostNext \/ FeeNext \/ EditorNext
  \/ BuilderNext \/ CelebrationNext \/ MessagesNext \/ TypingNext \/ MeetingsNext \/ NoticesNext
  \/ FlagsNext \/ BannerNext \/ NetworkNext

\* Nobody leaves for another page: each is explored for itself.
ClientNext ==
  /\ focus' = focus
  /\ \/ (Visits \/ WidgetMoves \/ Meanwhile \/ \E a \in asks : HappensTo(a)) /\ UNCHANGED rpcVars
     \/ focus = "rpc" /\ RpcNext /\ UNCHANGED pageVars

(***************************************************************************)
(* Fairness: calls that have begun go on, since each of their steps is an  *)
(* answer, an error or a timer that comes in the end; so do the clock, the *)
(* network and the timer of the banner.  Nothing is assumed of users.      *)
(***************************************************************************)
CallLayerGoesOn ==
  /\ \A c \in CallId : WF_clientVars(focus = "rpc" /\ CallStep(c) /\ UNCHANGED pageVars)
  /\ WF_clientVars(focus = "rpc" /\ Ledger /\ UNCHANGED pageVars)
  /\ WF_clientVars(focus = "rpc" /\ Tick /\ UNCHANGED pageVars)
  /\ WF_clientVars(focus = "rpc" /\ refreshCircuit /\ UNCHANGED pageVars)

ClientSpec == ClientInit /\ [][ClientNext]_clientVars /\ CallLayerGoesOn
=============================================================================
